----------------------------- MODULE UseCaseDags -----------------------------
(***************************************************************************)
(* The DAGs and deployment scripts of usecases/ and serverless/usecases/   *)
(* (start-stop-mwaa-environment has its own modules) as task graphs.       *)
(*                                                                         *)
(* A script is a line of tasks: under all_success it stops at the first    *)
(* error, and a command whose exit code it ignores is taken Quietly.       *)
(***************************************************************************)
EXTENDS TaskGraphs

(***************************************************************************)
(* image-processing; the three copies have one graph.                      *)
(***************************************************************************)
ImageProcessing ==
  LET chosen == {"photo_not_meet_requirement", "check_duplicate", "failure"}
      next == {"duplicate_face", "failure", "parallel_processing"}
      after(t, x) == After(t, {x})
  IN << Branch("face_detection", chosen),
        after(Work("photo_not_meet_requirement"), "face_detection"),
        after(Branch("check_duplicate", next), "face_detection"),
        After(Work("failure"), {"face_detection", "check_duplicate"}),
        after(Work("duplicate_face"), "check_duplicate"),
        after(Work("parallel_processing"), "check_duplicate"),
        after(Put("add_face_index", "face"), "parallel_processing"),
        after(Put("create_thumbnail", "thumbnail"), "parallel_processing"),
        After(Pulling(Put("persist_data", "item"),
                      {"add_face_index", "create_thumbnail"}),
              {"add_face_index", "create_thumbnail"}) >>

-----------------------------------------------------------------------------
(***************************************************************************)
(* mwaa-glue-athena: the same pipeline four times, with two sequences of   *)
(* tasks for each table, or with one task mapped over the tables.          *)
(***************************************************************************)
RawToCurated(ingest, convert, tables) ==
  LET line(x) ==
        Line(<< Put(ingest \o x, "raw_" \o x),
                Needing(Put(convert \o x, "curated_" \o x), {"raw_" \o x}) >>)
  IN FlattenSeq([i \in DOMAIN tables |-> line(tables[i])])

Crawl(tables) ==
  << Needing(Work("curated_layer_crawler"),
             {"curated_" \o x : x \in ToSet(tables)}) >>

DataPipeline(tables) ==
  Then(RawToCurated("ingest_rds_data_", "c2p_", tables), Crawl(tables))

DataPipelineLooped(tables) ==
  Then(RawToCurated("ingest_rds_", "convert-to-parquet_", tables),
       Crawl(tables))

DataPipelineMapped ==
  Line(<< Put("ingest_rds", "raw"),
          Needing(Put("convert-to-parquet", "curated"), {"raw"}),
          Needing(Work("curated_layer"), {"curated"}) >>)

\* Both mapped tasks take the list of tables.
DataPipelineMappedDynamic ==
  Line(<< Work("get_tables_fn"),
          Pulling(Put("ingest_rds", "raw"), {"get_tables_fn"}),
          Pulling(Needing(Put("convert-to-parquet", "curated"), {"raw"}),
                  {"get_tables_fn"}),
          Needing(Work("curated_layer"), {"curated"}) >>)

RunAthenaMapped ==
  Line(<< Work("get_queries_fn"),
          Pulling(Work("data_from_s3"), {"get_queries_fn"}),
          Pulling(Put("run_sql_athena", "aggregates"), {"data_from_s3"}) >>)

-----------------------------------------------------------------------------
(***************************************************************************)
(* mwaa-snowflake-integration: three DAGs, one after the other.            *)
(***************************************************************************)
SnowflakeConnection ==
  Line(<< Put("add_snowflake_connection", "connection"),
          Work("delay_python_task"),
          Needing(Work("test_snowflake_connection"), {"connection"}) >>)

SnowflakeSetup ==
  Line(<< Put("create_database", "database"),
          Needing(Put("create_schema", "schema"), {"database"}),
          Needing(Put("create_storage_int", "storage_int"), {"schema"}),
          Needing(Put("create_stage", "stage"), {"schema", "storage_int"}) >>)

\* An upload that fails is printed and forgotten, and the file is loaded all
\* the same; a download that fails, or a broken archive, fails the task.
SnowflakePipeline(files) ==
  LET copy(f) == PartlyQuietly(Put("copy_and_unzip_s3_" \o f, "csv_" \o f))
      load(f) == Needing(Work("copy_into_table_" \o f),
                         {"csv_" \o f, "table", "stage"})
  IN Stages(<< << Work("start") >>,
               [i \in DOMAIN files |-> copy(files[i])],
               << Work("list_transformed_files") >>,
               << Put("create_table", "table") >>,
               [i \in DOMAIN files |-> load(files[i])],
               << Put("create_view", "view") >>,
               << Needing(Work("top_start_stations"), {"view"}) >>,
               << Needing(Work("top_destination_stations"), {"view"}) >>,
               << Pulling(Work("query1_result_to_sns"),
                          {"top_start_stations"}) >>,
               << Pulling(Work("query2_result_to_sns"),
                          {"top_destination_stations"}) >>,
               << Work("end") >> >>)

-----------------------------------------------------------------------------
(***************************************************************************)
(* Pipelines that make what they run on.                                   *)
(***************************************************************************)
\* mwaa-observability-enhancement; the cluster is removed under the default
\* rule.
ObservedPipeline ==
  LET cluster == "create_emr_cluster"
      on(t) == Needing(Pulling(t, {cluster}), {"emr_cluster"})
      watch(id) == Pulling(Await(id, "steps"), {cluster, "add_steps"})
  IN Line(<< Work("s3_sensor"), Work("glue_crawler"), Work("glue_run_job"),
             Make(cluster, "emr_cluster"), on(Launch("add_steps", "steps")),
             watch("watch_step1"), watch("watch_step2"),
             Pulling(Delete("remove_cluster", "emr_cluster"), {cluster}) >>)

\* mwaa-dag-factory-example; the application is removed under the default
\* rule.
WorkshopPipeline ==
  LET app == "create_emr_serverless_app"
      job == "start_emr_serverless_job"
  IN Line(<< Work("s3_sensor"), Put("glue_crawler", "glue_crawler"),
             Put("glue_job", "glue_job"), Make(app, "application"),
             Needing(Pulling(Launch(job, "job"), {app}), {"application"}),
             Pulling(Await("wait_for_emr_serverless_job", "job"), {app, job}),
             Pulling(Delete("delete_app", "application"), {app}),
             Work("drop_redshift_table"),
             Put("create_redshift_table", "redshift_table"),
             Needing(Work("copy_to_redshift"), {"redshift_table"}) >>)

\* mwaa-dbt-cosmos-ecs; nothing waits for the end of the deletion, but the
\* next run's first task does.  It takes any error of its calls for the answer
\* that there is no stack, but not the waiter's.  The models of the dbt project
\* are one task.
CosmosDbt ==
  Stages(<< << PartlyQuietly(Clear("ensure_clean_state", "stack")) >>,
            << Start("create_infra_stack", "stack") >>,
            << Await("wait_for_infra", "stack") >>,
            Using(Line(<< Work("build_docker_image"), Work("dbt_seed_to_s3"),
                          Work("dbt_ecs") >>), "stack"),
            << AllDone(Drop("delete_infra_stack", "stack")) >> >>)

\* serverless/usecases/loan-approval-agent.
LoanApproval ==
  LET reports == {"due_diligence", "income_verification"}
  IN Stages(<< << Work("due_diligence"), Work("income_verification") >>,
               << Pulling(Work("loan_decision"), reports) >>,
               << Pulling(Work("notify_applicant"), {"loan_decision"}),
                  Pulling(Put("log_decision", "audit_log"),
                          {"loan_decision"}) >> >>)

-----------------------------------------------------------------------------
(***************************************************************************)
(* mwaa-glue-bedrock: deploy.py, the DAGs it deploys, delete_resources.py. *)
(***************************************************************************)
\* From the answer of the model to the objects that the Glue job writes back;
\* each result is zipped with the case it is about.
WriteBack(input, case) ==
  Line(<< Pulling(Work("prepare_bedrock_input"), {input}),
          Pulling(Work("invoke_bedrock_task"), {"prepare_bedrock_input"}),
          Pulling(Work("process_bedrock_output"),
                  {"invoke_bedrock_task", case}),
          Pulling(Work("generate_s3_key"), {"process_bedrock_output", case}),
          Pulling(Put("create_s3_object", "comments"), {"generate_s3_key"}),
          Pulling(Needing(Work("write-to-salesforce"), {"comments"}),
                  {"generate_execution_id"}) >>)

ProcessDataMapped ==
  Stages(<< << Work("generate_execution_id") >> \o
              Line(<< Put("trigger_glue_job", "cases"),
                      Needing(Work("list_s3_objects"), {"cases"}),
                      Pulling(Work("read_jsonl_from_s3"),
                              {"list_s3_objects"}) >>),
            << Pulling(Work("extract_case_data"),
                       {"read_jsonl_from_s3", "generate_execution_id"}) >>,
            WriteBack("extract_case_data", "extract_case_data") >>)

EventDrivenPipeline ==
  Stages(<< << Work("get_dataset_updates"), Work("generate_execution_id") >>,
            << Pulling(Work("extract_event_data"),
                       {"get_dataset_updates", "generate_execution_id"}) >>,
            WriteBack("extract_event_data", "extract_event_data") >>)

\* The relay makes Salesforce offer a partner event source; the bus is made
\* for the first one that is pending.
EventBridgeResources ==
  LET with(t, ids) == Pulling(t, {"get_access_token"} \cup ids)
      channel == "create_platform_event_channel"
      relay == "create_event_relay"
      bus == "enable_pending_event_sources"
  IN Line(<< Needing(Work("get_access_token"), {"connected_app"}),
             with(Make("create_named_credential", "named_credential"), {}),
             with(Put(channel, "channel"), {}),
             with(Put("create_event_channel_member", "member"), {channel}),
             with(Make(relay, "event_relay"),
                  {channel, "create_named_credential"}),
             with(Launch("enable_event_relay", "event_bus"), {relay}),
             Await(bus, "event_bus"),
             Pulling(Needing(Put("create_eventbridge_rule", "rule"),
                             {"event_bus"}), {bus}),
             Pulling(Needing(Work("add_lambda_to_eb"), {"rule"}), {bus}),
             Pulling(Work("add_lambda_invoke_permission"),
                     {"add_lambda_to_eb", "create_eventbridge_rule"}) >>)

\* The connected app at Salesforce; a token that does not work is printed.
ConnectedApp ==
  << Work("generate_pem_keys_with_cert"), Work("login_to_org"),
     Work("fetch_salesforce_user_id"), Work("generate_consumer_key_and_secret"),
     Work("create_connected_app_xml"), Make("deploy_project", "connected_app"),
     Work("generate_jwt_token"), PartlyQuietly(Work("test_jwt_token")) >>

\* The stack, which holds the secret with the keys of the connected app, and
\* what is put in its buckets.
SalesforceStack ==
  << Make("create_sam_s3_bucket", "sam_bucket"),
     Needing(Make("deploy_sam", "stack"), {"sam_bucket", "connected_app"}),
     Needing(Work("parse_cfn_outputs"), {"stack"}),
     Inside(Put("copy_files_to_s3", "artifacts"), "stack") >>

GlueResources ==
  << Needing(Make("create_glue_connection", "glue_connection"), {"stack"}),
     Needing(Make("create_glue_jobs", "glue_jobs"),
             {"artifacts", "glue_connection"}) >>

DeploySalesforce == Line(ConnectedApp \o SalesforceStack \o GlueResources)

\* Exit codes are ignored, but not an answer that is not JSON, nor a missing
\* secret; an answer of Salesforce that is an error is printed, but a request
\* that gets no answer ends the script.  Without a token nothing is deleted at
\* Salesforce, and the script ends as if all were well.
DeleteSalesforce ==
  Line(<< Needing(Work("get_salesforce_credentials"), {"stack"}),
          Quietly(Clear("delete_connection", "glue_connection")),
          Work("list_jobs"), Quietly(Clear("delete_jobs", "glue_jobs")),
          Quietly(Clear("delete_salesforce_event_buses", "event_bus")),
          Work("list_buckets"),
          Quietly(Clear("empty_s3_buckets", "artifacts")),
          Quietly(Clear("delete_sam_bucket", "sam_bucket")),
          Quietly(Drop("delete_cloudformation_stack", "stack")),
          PartlyQuietly(Needing(Put("get_access_token", "access_token"),
                                {"connected_app"})),
          PartlyQuietly(Needing(Clear("delete_event_relays", "event_relay"),
                                {"access_token"})),
          PartlyQuietly(Needing(Clear("delete_connected_app", "connected_app"),
                                {"access_token"})) >>)

-----------------------------------------------------------------------------
(***************************************************************************)
(* mwaa-dag-factory-example: deploy.py and cleanup.py.                     *)
(***************************************************************************)
\* The placeholders of local files are replaced; what restores them is in
\* the finally clause that begins after that.
DeployWorkshop ==
  Line(<< Make("deploy_sam", "stack"),
          Needing(Work("get_stack_outputs"), {"stack"}),
          Needing(Make("update_dag_with_outputs", "edited_files"), {"stack"}),
          Inside(Put("upload_files_to_s3", "bucket_files"), "stack"),
          Needing(Work("copy_sample_data"), {"stack"}) >>)
  \o << Teardown(After(Delete("restore_placeholders", "edited_files"),
                       {"copy_sample_data"}), "update_dag_with_outputs") >>

\* The script never fails.  Without the stack's outputs it asks and, told yes
\* (the answer taken here), deletes what is Glue's but neither empties the
\* bucket nor deletes the stack.
CleanupWorkshop ==
  Line(<< Quietly(Needing(Put("get_stack_outputs", "outputs"), {"stack"})),
          Quietly(Clear("delete_glue_crawlers", "glue_crawler")),
          Quietly(Work("delete_glue_tables")),
          Quietly(Clear("delete_glue_jobs", "glue_job")),
          Quietly(Needing(Clear("empty_s3_bucket", "bucket_files"),
                          {"outputs"})),
          Quietly(Needing(Drop("delete_stack", "stack"), {"outputs"})),
          Quietly(Needing(AwaitGone("wait_stack_delete_complete", "stack"),
                          {"outputs"})) >>)

=============================================================================
