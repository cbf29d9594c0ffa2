---------------------------- MODULE MCPipelines ----------------------------
(***************************************************************************)
(* The plans of the repository, with two months, years, tables and files   *)
(* where a DAG has 6, 13, 6 and any number.                                *)
(***************************************************************************)
EXTENDS Pipelines, ExampleDags, UseCaseDags

Two == << "1", "2" >>

Templates ==
  [s3 |-> S3, glue |-> Glue, athena |-> Athena, bedrock |-> Bedrock,
   lambda |-> Lambda, emr_serverless |-> EmrServerless, batch |-> Batch,
   step_functions |-> StepFunctions, redshift |-> Redshift, sns |-> Sns,
   ecs |-> Ecs, eks |-> Eks, emr |-> Emr, cloudformation |-> Cloudformation,
   sagemaker |-> Sagemaker, rds |-> Rds, ec2 |-> Ec2, sqs |-> Sqs,
   eventbridge |-> Eventbridge, comprehend |-> Comprehend, dms |-> Dms,
   kinesis_analytics |-> KinesisAnalytics, neptune |-> Neptune,
   glacier |-> Glacier, datasync |-> Datasync, appflow |-> Appflow,
   quicksight |-> Quicksight, dynamodb |-> Dynamodb,
   opensearch_serverless |-> OpensearchServerless]

Examples ==
  [athena_306 |-> Athena_Airflow3, batch_306 |-> Batch_Airflow3,
   emr_serverless_306 |-> EmrServerless_Airflow3, glue_306 |-> Glue_Airflow3,
   lambda_306 |-> Lambda_Airflow3, s3_306 |-> S3_Airflow3,
   sagemaker_306 |-> SagemakerProcessing_Airflow3,
   setup_teardown |-> SetupTeardown, join_relationalize |-> JoinRelationalize,
   dynamic_mapping |-> DynamicTaskMapping, emr_job |-> EmrJob,
   xgboost |-> XgboostPipeline, emr_blueprint |-> EmrBlueprint,
   emr_on_eks |-> EmrOnEks, lambda_blueprint |-> LambdaBlueprint(Two),
   noaa_weather |-> NoaaWeather(Two)]

UseCases ==
  [image_processing |-> ImageProcessing,
   data_pipeline |-> DataPipeline(Two), data_looped |-> DataPipelineLooped(Two),
   data_mapped |-> DataPipelineMapped,
   data_dynamic |-> DataPipelineMappedDynamic, athena_mapped |-> RunAthenaMapped,
   observed |-> ObservedPipeline, loan_approval |-> LoanApproval,
   process_data |-> ProcessDataMapped, event_driven |-> EventDrivenPipeline]

Part(tasks, prefix, depends_on) ==
  [tasks |-> tasks, prefix |-> prefix, depends_on |-> depends_on]

\* Several runs one after the other, and what compose_dag_yaml makes of two
\* services.
Sequels ==
  [datasets |-> << DataAwareProducer, DataAwareConsumer >>,
   eks_life |-> << EksCreate, EksDelete >>,
   ecs_life |-> << EcsCreateCluster, EcsRegister, EcsDeregister,
                   EcsDeleteCluster >>,
   snowflake |-> << SnowflakeConnection, SnowflakeSetup,
                    SnowflakePipeline(Two) >>,
   cosmos |-> << CosmosDbt, CosmosDbt >>,
   salesforce |-> << DeploySalesforce, EventBridgeResources, DeleteSalesforce >>,
   workshop |-> << DeployWorkshop, WorkshopPipeline, CleanupWorkshop >>,
   composed |-> << Compose(<< Part(Athena, "athena", {}),
                              Part(Cloudformation, "cfn", {"athena"}) >>) >>]

Single(f) == [x \in DOMAIN f |-> << f[x] >>]

AllPlans == Single(Templates) @@ Single(Examples) @@ Single(UseCases) @@ Sequels

\* The example in the comment of compose_dag_yaml.
ComposedPlan ==
  [s3_glue |-> << Compose(<< Part(S3, "s3", {}), Part(Glue, "glue", {"s3"}) >>) >>]

NoPlan == {}

\* The script is not upstream of the job; the clean-up runs while the other
\* upload does; the Glue job is not waited for; an upload's error is hidden
\* (twice); the scripts assume that the deployment before them went well.
PlansUnordered ==
  {"emr_serverless_306", "sagemaker_306", "xgboost", "datasets", "snowflake",
   "salesforce", "workshop"}

\* Objects stay in a bucket of the stack (glue, comprehend, emr); nothing
\* waits for the end of a deletion (eks), deletes the application
\* (kinesis_analytics) or the named credential (salesforce), or writes the
\* awaited value (dynamodb); the job fails for want of its input
\* (emr_serverless_306, xgboost).
PlansLeavingThings ==
  {"glue", "comprehend", "emr", "eks", "kinesis_analytics", "dynamodb",
   "emr_serverless_306", "xgboost", "salesforce"}

\* The first three as above; a removal under the default rule, or that needs
\* the answer or the success of the call that failed.
PlansWithLeaks ==
  {"glue", "comprehend", "emr", "eks", "emr_serverless", "s3_306",
   "lambda_306", "emr_serverless_306", "setup_teardown", "emr_blueprint",
   "lambda_blueprint", "eks_life", "observed", "salesforce", "workshop"}

\* Every template and example that ends with its clean-up; the report on
\* failures, and the branch for missing data, of the blueprints; the tasks and
\* scripts that swallow errors.
PlansMasking ==
  (DOMAIN Templates \ {"bedrock"}) \cup
  {"athena_306", "batch_306", "emr_serverless_306", "lambda_306",
   "sagemaker_306", "cosmos", "composed", "emr_on_eks", "emr_blueprint",
   "datasets", "snowflake", "salesforce", "workshop"}

=============================================================================
