-------------------------- MODULE ServiceTemplates --------------------------
(***************************************************************************)
(* The workflow templates of the MCP server (tools.py,                     *)
(* _get_service_templates): one task graph per AWS service, and how        *)
(* compose_dag_yaml joins several of them.                                 *)
(*                                                                         *)
(* A stack stands for everything in it, except what tasks put in one of    *)
(* its buckets or networks, which is a resource within it.                 *)
(***************************************************************************)
EXTENDS TaskGraphs, Naturals

\* Broken: the work does not wait for the stack.
BracketHasty(create, wait, r, work, delete, gone) ==
  Stages(<< <<Start(create, r)>>,
            <<Await(wait, r)>> \o Using(work, r),
            <<AllDone(Drop(delete, r))>>, <<AwaitGone(gone, r)>> >>)

\* Broken: the stack is deleted under the default rule.
BracketTrusting(create, wait, r, work, delete, gone) ==
  Stages(<< <<Start(create, r)>>, <<Await(wait, r)>>, Using(work, r),
            <<Drop(delete, r)>>, <<AwaitGone(gone, r)>> >>)

\* The service "cloudformation", and what is around the work of most of the
\* others: a stack made before and deleted after, whatever comes of the work.
Bracket(create, wait, r, work, delete, gone) ==
  Stages(<< <<Start(create, r)>>, <<Await(wait, r)>>, Using(work, r),
            <<AllDone(Drop(delete, r))>>, <<AwaitGone(gone, r)>> >>)

Cloudformation ==
  Bracket("create_stack", "wait_for_create", "stack", << >>,
          "delete_stack", "wait_for_delete")

WithStack(x, work) ==
  Bracket("create_" \o x \o "_stack", "wait_for_" \o x \o "_stack",
          x \o "_stack", work,
          "delete_" \o x \o "_stack", "wait_for_" \o x \o "_delete")

-----------------------------------------------------------------------------
S3 ==
  Line(<< Make("create_test_bucket", "bucket"),
          Inside(Put("create_test_object", "object"), "bucket"),
          Await("wait_for_key", "object"),
          Needing(Work("list_objects"), {"bucket"}),
          Delete("delete_objects", "object"),
          AllDone(Purge("delete_test_bucket", "bucket")) >>)

Glue ==
  WithStack("glue",
    Line(<< Pulling(Inside(Put("create_script", "script"), "glue_stack"),
                    {"create_glue_stack"}),
            Pulling(Needing(Work("run_glue_job"), {"script"}),
                    {"create_glue_stack"}) >>))

Athena ==
  Bracket("create_stack", "wait_for_stack_create", "athena_stack",
          << Work("query_1"), Work("query_2"), Work("query_3") >>,
          "delete_stack", "wait_for_stack_delete")

Bedrock == << Work("invoke_model") >>

Lambda == WithStack("lambda", << Work("invoke_function") >>)

EmrServerless ==
  WithStack("emr",
    Line(<< Make("create_application", "application"),
            AllDone(Pulling(Work("stop_application"), {"create_application"})),
            AllDone(Pulling(Delete("delete_application", "application"),
                            {"create_application"})) >>))

Batch ==
  WithStack("batch", << Pulling(Work("submit_job"), {"create_batch_stack"}) >>)

\* Broken: the sensor does not come after the start.
StepFunctions_Unordered ==
  WithStack("sfn",
    << Pulling(Launch("start_execution", "execution"), {"create_sfn_stack"}),
       Pulling(Await("wait_for_execution", "execution"), {"start_execution"}) >>)

StepFunctions ==
  WithStack("sfn",
    Line(<< Pulling(Launch("start_execution", "execution"), {"create_sfn_stack"}),
            Pulling(Await("wait_for_execution", "execution"),
                    {"start_execution"}) >>))

Redshift == WithStack("redshift", << Work("run_query") >>)

Sns ==
  WithStack("sns", << Pulling(Work("publish_message"), {"create_sns_stack"}) >>)

Ecs == WithStack("ecs", << Pulling(Work("run_task"), {"create_ecs_stack"}) >>)

\* The cluster is in the subnets of the stack; its deletion is not awaited.
Eks ==
  WithStack("eks",
    Line(<< Pulling(Inside(Start("create_cluster", "cluster"), "eks_stack"),
                    {"create_eks_stack"}),
            Await("wait_for_cluster", "cluster"),
            AllDone(Retire("delete_cluster", "cluster")) >>))

\* The job flow leaves its logs in the bucket of the stack.
Emr ==
  WithStack("emr",
    Line(<< Pulling(Inside(Launch("create_job_flow", "job_flow"), "emr_stack"),
                    {"create_emr_stack"}),
            Pulling(Await("wait_for_job_flow", "job_flow"),
                    {"create_job_flow"}) >>))

Sagemaker ==
  WithStack("sagemaker",
    << Pulling(Work("start_processing"), {"create_sagemaker_stack"}) >>)

Rds ==
  WithStack("rds",
    Line(<< Make("create_snapshot", "snapshot"),
            Await("wait_for_snapshot", "snapshot"),
            AllDone(Delete("delete_snapshot", "snapshot")) >>))

Ec2 ==
  LET with(t) == Pulling(t, {"create_ec2_stack"})
  IN WithStack("ec2",
       Line(<< with(Work("stop_instance")), with(Work("wait_for_stopped")),
               with(Work("start_instance")), with(Work("wait_for_running")) >>))

Sqs ==
  LET with(t) == Pulling(t, {"create_sqs_stack"})
  IN WithStack("sqs", Line(<< with(Put("publish_message", "message")),
                              with(Await("wait_for_message", "message")) >>))

Eventbridge ==
  WithStack("eb", Line(<< Work("put_events"), AllDone(Work("disable_rule")) >>))

Comprehend ==
  LET with(t) == Pulling(t, {"create_comprehend_stack"})
  IN WithStack("comprehend",
       Line(<< with(Inside(Put("upload_test_data", "test_data"),
                           "comprehend_stack")),
               with(Needing(Launch("start_pii_detection", "pii_job"),
                            {"test_data"})),
               Pulling(Await("wait_for_pii_detection", "pii_job"),
                       {"start_pii_detection"}) >>))

Dms == WithStack("dms", << >>)

KinesisAnalytics ==
  WithStack("kinesis",
    Line(<< Pulling(Make("create_application", "application"),
                    {"create_kinesis_stack"}),
            Needing(Work("start_application"), {"application"}),
            AllDone(Work("stop_application")) >>))

Neptune ==
  WithStack("neptune", Line(<< Work("stop_cluster"), Work("start_cluster") >>))

Glacier ==
  WithStack("glacier",
    Line(<< Launch("create_inventory_job", "inventory"),
            Pulling(Await("wait_for_job", "inventory"),
                    {"create_inventory_job"}) >>))

Datasync ==
  WithStack("datasync",
    << Pulling(Work("run_datasync"), {"create_datasync_stack"}) >>)

Appflow == WithStack("appflow", << Work("run_flow") >>)

Quicksight ==
  WithStack("quicksight",
    Line(<< Launch("create_ingestion", "ingestion"),
            Await("wait_for_ingestion", "ingestion") >>))

\* No task writes the value.
Dynamodb == WithStack("dynamodb", << Await("wait_for_value", "value") >>)

OpensearchServerless == WithStack("aoss", << Work("wait_for_collection") >>)

-----------------------------------------------------------------------------
(***************************************************************************)
(* compose_dag_yaml.  A part is [tasks, prefix, depends_on].               *)
(***************************************************************************)
Name(prefix, id) == prefix \o "_" \o id

\* Task ids and dependencies get the prefix of their part; what the strings
\* of a task pull keeps its name.  So do the resources: the parameters are
\* prefixed, their default values are not.
Prefixed(part) ==
  [i \in DOMAIN part.tasks |->
     [part.tasks[i] EXCEPT !.id = Name(part.prefix, @),
                           !.after = {Name(part.prefix, x) : x \in @}]]

\* The last task before the first one under all_done.
LastWork(part) ==
  LET p == Prefixed(part)
      clean == {i \in DOMAIN p : p[i].rule = "all_done"}
      last == {i \in DOMAIN p : \A j \in clean : i < j}
  IN IF last = {} THEN p[1].id
     ELSE p[CHOOSE i \in last : \A j \in last : j <= i].id

\* The first task comes after the last work of the parts it depends on, as
\* far as these came before in the list.
Wired(parts, i) ==
  LET ups == {j \in 1 .. i - 1 : parts[j].prefix \in parts[i].depends_on}
      p == Prefixed(parts[i])
  IN [k \in DOMAIN p |->
        IF k = 1 THEN After(p[k], {LastWork(parts[j]) : j \in ups}) ELSE p[k]]

\* Broken: dependencies are not rewritten.
ComposeUnrewritten(parts) ==
  FlattenSeq([i \in DOMAIN parts |->
    [k \in DOMAIN parts[i].tasks |->
       [parts[i].tasks[k] EXCEPT !.id = Name(parts[i].prefix, @)]]])

\* Broken: task ids are not prefixed.
ComposeUnprefixed(parts) ==
  FlattenSeq([i \in DOMAIN parts |-> parts[i].tasks])

Compose(parts) == FlattenSeq([i \in DOMAIN parts |-> Wired(parts, i)])

=============================================================================
