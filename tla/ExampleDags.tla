----------------------------- MODULE ExampleDags -----------------------------
(***************************************************************************)
(* The example DAGs of dags/ and blueprints/examples as task graphs.       *)
(*                                                                         *)
(* Data that is there before the DAG runs (source buckets, roles, the      *)
(* environment itself) is not a resource of the model.                     *)
(***************************************************************************)
EXTENDS ServiceTemplates

(***************************************************************************)
(* dags/airflow-306-examples.                                              *)
(***************************************************************************)
\* Athena_Airflow3 and Batch_Airflow3 make and delete a stack.
Athena_Airflow3 ==
  Bracket("create_stack", "wait_for_stack_create", "athena_stack",
          << Work("query_1"), Work("query_2"), Work("query_3") >>,
          "delete_stack", "wait_for_stack_delete")

Batch_Airflow3 ==
  Bracket("create_batch_stack", "wait_for_stack_creation", "batch_stack",
          Line(<< Launch("submit_batch_job", "batch_job"),
                  Pulling(Await("wait_for_batch_job", "batch_job"),
                          {"submit_batch_job"}) >>),
          "delete_batch_stack", "wait_for_stack_deletion")

\* The script is not upstream of the job that runs it.
EmrServerless_Airflow3 ==
  LET app == "create_emr_serverless_app"
      job == "start_emr_serverless_job"
  IN << Put("create_script", "script") >> \o
     Line(<< Start(app, "application"),
             Pulling(Await("wait_emr_serverless_app", "application"), {app}),
             Needing(Pulling(Launch(job, "job"), {app}),
                     {"script", "application"}),
             Pulling(AwaitEnd("wait_emr_serverless_job", "job"), {app, job}),
             AllDone(Pulling(Work("stop_application"), {app})),
             Pulling(Delete("delete_emr_serverless_app", "application"),
                     {app}) >>)

Glue_Airflow3 ==
  Line(<< Put("create_script", "script"),
          Needing(Launch("run_glue_job", "job"), {"script"}),
          Pulling(Await("wait_glue_job", "job"), {"run_glue_job"}) >>)

\* The function deletes itself, in a call that reports no error of the deletion;
\* an invocation that is refused or fails is an error of the task.
Lambda_Airflow3 ==
  Line(<< Start("create_lambda_function", "function"),
          Await("wait_function_active", "function"),
          Needing(Work("invoke_lambda_function"), {"function"}),
          [AllDone(Needing(Delete("delete_lambda_function", "function"),
                           {"function"})) EXCEPT !.hides = {"some faults"}] >>)

S3_Airflow3 ==
  Line(<< Make("create_test_bucket", "bucket"),
          Inside(Put("create_test_object", "object"), "bucket"),
          Await("wait_for_key", "object"),
          Needing(Work("list_objects"), {"bucket"}),
          Delete("delete_objects", "object"),
          Delete("delete_test_bucket", "bucket") >>)

SagemakerProcessing_Airflow3 ==
  LET bucket == "processing_bucket"
  IN Stages(<< << Make("create_processing_bucket", bucket) >>,
               << Inside(Put("upload_processing_script", "script"), bucket),
                  Inside(Put("upload_input_data", "input"), bucket) >>,
               << Needing(Launch("run_processing_job", "job"),
                          {bucket, "script", "input"}) >>,
               << Await("wait_for_processing_completion", "job") >>,
               << AllDone(Purge("cleanup_processing_bucket", bucket)) >> >>)

-----------------------------------------------------------------------------
(***************************************************************************)
(* dags/airflow-272-examples, airflow-243-examples, emr_job, xgboost.      *)
(***************************************************************************)
\* Broken: an all_done task after the work instead of a teardown.
SetupTeardown_Plain ==
  LET cluster == {"redshift"}
  IN Line(<< Make("create_cluster", "redshift"),
             Await("wait_cluster_available", "redshift"),
             Needing(Work("create_rs_table"), cluster),
             Needing(Work("insert_data"), cluster),
             Needing(Work("redshift_query"), cluster),
             AllDone(Delete("delete_cluster", "redshift")) >>)

SetupTeardown ==
  LET cluster == {"redshift"}
  IN Line(<< Make("create_cluster", "redshift"),
             Await("wait_cluster_available", "redshift"),
             Needing(Work("create_rs_table"), cluster),
             Needing(Work("insert_data"), cluster),
             Needing(Work("redshift_query"), cluster) >>)
     \o << Teardown(After(Delete("delete_cluster", "redshift"),
                          {"redshift_query"}), "create_cluster") >>

JoinRelationalize ==
  Line(<< Work("WaitForSourceData"), Put("CrawlSourceData", "catalog_tables"),
          Needing(Work("ProcessSourceData"), {"catalog_tables"}) >>)

\* The producer reports success (and updates its dataset) when S3 answered the
\* upload with an error, but not when there is no data, or no answer; the
\* dataset starts the consumer.
DataAwareProducer == << PartlyQuietly(Put("transfer_api_to_s3", "test.csv")) >>

DataAwareConsumer == << Needing(Work("list_objects"), {"test.csv"}) >>

\* One count_lines for all the files.
DynamicTaskMapping ==
  Line(<< Work("dynamic_task_mapping_get_input"),
          Pulling(Work("count_lines"), {"dynamic_task_mapping_get_input"}),
          Pulling(Work("total"), {"count_lines"}) >>)

\* The cluster ends by itself when it has no step.
EmrJob ==
  Line(<< Launch("create_job_flow", "job_flow"),
          Pulling(Launch("add_steps", "step"), {"create_job_flow"}),
          Pulling(Await("watch_step", "step"),
                  {"create_job_flow", "add_steps"}) >>)

\* Nothing waits for the Glue job that process starts; the endpoint stays.
XgboostPipeline ==
  Line(<< Launch("process", "train_data"),
          Needing(Put("train", "model"), {"train_data"}),
          Needing(Put("endpoint-deploy", "endpoint"), {"model"}) >>)

-----------------------------------------------------------------------------
(***************************************************************************)
(* blueprints/examples.                                                    *)
(***************************************************************************)
EmrBlueprint ==
  LET cluster == {"create_emr_cluster"}
  IN << Work("s3_sensor"),
        Ruled(After(Work("get_nyc_green_taxi_data"), {"s3_sensor"}),
              "all_failed"),
        Ruled(After(Make("create_emr_cluster", "emr_cluster"),
                    {"s3_sensor", "get_nyc_green_taxi_data"}), "one_success"),
        After(Needing(Pulling(Launch("add_steps", "step"), cluster),
                      {"emr_cluster"}), cluster),
        After(Pulling(Await("watch_step", "step"),
                      cluster \cup {"add_steps"}), {"add_steps"}),
        After(Pulling(Delete("remove_cluster", "emr_cluster"), cluster),
              {"watch_step"}) >>

EksCreate ==
  Line(<< Start("create_eks_cluster", "eks_cluster"),
          Await("wait_for_create_cluster", "eks_cluster"),
          Inside(Start("create_eks_nodegroup", "nodegroup"), "eks_cluster"),
          Await("wait_for_create_nodegroup", "nodegroup"),
          Needing(Work("create_ingress_rule"), {"eks_cluster"}) >>)

\* Broken: the cluster is deleted before the node group is gone.
EksDelete_Hasty ==
  Line(<< Retire("delete_eks_nodegroup", "nodegroup"),
          Retire("delete_eks_cluster", "eks_cluster"),
          AwaitGone("wait_for_delete_nodegroup", "nodegroup"),
          AwaitGone("wait_for_delete_cluster", "eks_cluster") >>)

EksDelete ==
  Line(<< Retire("delete_eks_nodegroup", "nodegroup"),
          AwaitGone("wait_for_delete_nodegroup", "nodegroup"),
          Retire("delete_eks_cluster", "eks_cluster"),
          AwaitGone("wait_for_delete_cluster", "eks_cluster") >>)

\* The failure report is the only last task.
EmrOnEks ==
  Stages(<< << Put("weather_station_data", "station_data"),
               Put("weather_station_lookup_data", "lookup") >>,
            << Needing(Work("start_job"), {"station_data", "lookup"}) >>,
            << Ruled(Work("get_failure_reasons_task"), "all_failed") >> >>)

\* One source_data and one invoke_lambda for each month; the Lambda function
\* is deleted under the default rule.
LambdaBlueprint(months) ==
  LET invoke(m) == "invoke_lambda_" \o m
      source(m) == "source_data_" \o m
      input(m) == "data_" \o m
  IN Line(<< Start("create_lambda", "function"),
             Await("sense_lambda", "function") >>)
     \o [i \in DOMAIN months |-> Put(source(months[i]), input(months[i]))]
     \o [i \in DOMAIN months |->
           After(Needing(Work(invoke(months[i])),
                         {"function", input(months[i])}),
                 {"sense_lambda", source(months[i])})]
     \o << After(Delete("delete_lambda", "function"),
                 {invoke(m) : m \in ToSet(months)}) >>

\* The four DAGs of the blueprint for ECS that can be loaded; the one that
\* runs the task uses modules it does not import.
EcsCreateCluster == << Make("CREATE_CLUSTER_TASK", "ecs_cluster") >>

EcsRegister == << Make("REGISTER_SPARK_TASK", "task_definition") >>

EcsDeregister == << Delete("DEREGISTER_TASK_DEFINITION", "task_definition") >>

EcsDeleteCluster == << Delete("DELETE_CLUSTER_TASK", "ecs_cluster") >>

\* The same DAG is in the blueprint for Glue and in the use case on
\* utilisation metrics.
NoaaWeather(years) ==
  Stages(<< << Put("weather_station_lookup_data", "lookup") >> \o
              [i \in DOMAIN years |-> Put(years[i], "data_" \o years[i])],
            << Needing(Put("create_weather_reading_table", "table"),
                       {"lookup"} \cup {"data_" \o y : y \in ToSet(years)}) >>,
            << Needing(Work("build_dataUS_parquet"), {"table"}) >> >>)

=============================================================================
