# Models of the MWAA examples

TLA+ modules, TLC configurations and TLAPS proofs for `amazon-mwaa-examples`.
The repository is a collection. Three parts of it are modelled:

- *start-stop* (`src/usecases/start-stop-mwaa-environment`): on a schedule it saves an
  Airflow environment to S3, deletes it, and later creates it again and loads what it
  saved.
- *MWAA Serverless MCP* (`src/serverless/mcp`): tools that deploy, run, watch, compare
  and delete workflows, called by several clients at the same time.
- *task graphs*: the workflow templates of that server, the example DAGs, the DAGs of
  the use cases and the scripts that deploy and remove them, each a graph of tasks that
  make, use and delete resources and may fail half-way.

All three have proofs (section 5).

`PROJECT.json` lists components, runs, the lines each definition stands for,
findings, hazards and theorems; this file says how they fit together.
Paths below are relative to the start-stop use case unless they start with `src/`.

## 1. The system

| Component | State | Operations | Hard behaviour |
|---|---|---|---|
| Export DAG `mwaairflow/assets/dags/*/mwaa_export_data.py` | the metadata database (`dag.is_paused`, table `active_dags`, the exported tables), task states of the DAG run, the objects under `data/` in the backup bucket | `back_up_activedags`, `pause_dags`, `export_data`, `export_active_dags`, `export_variable`, `export_connection`, `clean_up`, `activate_dags_on_failure`, `notify_success`, `notify_failure` | parallel tasks ordered by trigger rules; effects committed before a failure; reads that are not one transaction; two runs at a time |
| DAG trigger Lambda, CLI client `lib/lambda/dags-trigger-function.ts`, `dags-cli.ts` | none | unpause, trigger | an unpause whose failure is swallowed; repeated invocations |
| Pausing workflow `lib/infrastructure/mwaa-pausing-stack.ts` | state of each execution, `environment-backup.json` | read details, store them, export and wait, delete, confirm | waits for task tokens; nothing is caught; overlapping executions; timeouts |
| Polling workflow and Lambda `mwaa-polling-stack.ts`, `mwaa-status-poller.ts` | state of each polling execution | wait, get status, choose, answer | one exception read in two opposite ways; two timeouts that know nothing of each other |
| Import DAG `mwaairflow/assets/dags/*/mwaa_import_data.py`, nine versions | the new environment's database | pause, read, activate, load tables, variables, connections, notify | `COPY` options against the exported text; foreign keys; repeated loads |
| Resuming workflow `mwaa-resuming-stack.ts` and its two Lambdas | state of each execution | get object, create, confirm, import, update | stale backups, creation that fails |
| Deployment stacks and configuration of start-stop | none | declare resources, read environment variables | defaults |
| Edge login `src/usecases/mwaa-public-webserver-custom-domain/src/lambda-edge` | cookies of a browser, tokens of Cognito | check, parse, refresh, sign out | tabs that share one cookie jar; transient errors |
| Its CloudFormation custom resources | resources of a deployment | create, update, delete | retries, rollbacks |
| MCP operations `src/serverless/mcp/src/operations.py` | workflows, versions and runs of the service, definitions in S3 | deploy, redeploy, start, stop, poll, status, compare, list, report, delete | other clients between any two service calls; checks that are stale when used; errors swallowed in threads |
| MCP templates and composition `src/serverless/mcp/src/tools.py` | none (they write workflow files) | 29 templates, `compose_dag_yaml` | renaming tasks that other tasks name; clean-up that hides failures |
| Example DAGs, blueprints `src/dags`, `src/blueprints/examples` | task states, AWS resources | one graph each | trigger rules, setup and teardown, deletions that nothing waits for |
| DAGs and scripts of the use cases `src/usecases/*`, `src/serverless/usecases` | the same, and what scripts leave in an account | pipelines, deploy, remove | branches, mapped tasks, ignored exit codes, several runs in turn |
| Validator, analyzer and converter of the MCP server, metrics Lambda, operators of the blueprints | none | pure functions, periodic reads, thin wrappers | little |

How pausing works. A schedule starts an execution of the pausing workflow,
which reads the environment's configuration, stores it, and invokes the trigger Lambda
with a *task token*. The Lambda starts a run of the export DAG whose configuration
carries the token; the DAG answers it (`send_task_success`, `send_task_failure`)
directly. On success the workflow deletes the environment and starts a polling
execution with a second token, which the polling workflow answers, with success only.
The shared state is the metadata database, the bucket and the environment itself.

How resuming works. A schedule starts an execution of the resuming workflow, which reads
the stored configuration, creates the environment from it, starts a polling execution
for `checkCreated` and waits for its answer, and then triggers the import DAG as above.
The DAG pauses everything, loads the tables in the order of their references, activates
the DAGs the bucket names and answers the token; the workflow may update the environment
at the end. Meanwhile the scheduler of the new environment discovers its DAG files.

What makes each component correct:

- *Export DAG*: success is reported only when everything is exported, and then the
  bucket holds one consistent, complete backup that nobody writes to any more; the
  active DAGs are remembered before they are paused; a failed export is undone, and
  undoing it leaves exactly the DAGs active that were.
- *Poller*: a parent told success finds the environment in the state it asked for;
  every running poll tells its parent when that state comes, unless something failed.
- *Pausing workflow*: the environment is deleted only after a successful export, with
  its own details stored; success means that it is gone; a pause without failures
  completes.
- *Import, resume*: success is reported only when everything that has a task to load it
  was put back, in an environment made for it; tables are loaded after those they refer
  to; no DAG is active before its history is there, and only DAGs that were active
  become active; every import that ends has answered.
- *MCP operations*: a deployment runs its own definition and leaves the object and the
  latest version in step; a tool acts on the workflow it names; a report that leaves
  something out says so; a deletion spares what was active when it was asked for.
- *Task graphs*: a task starts only when what it needs is there; what is pulled from
  another task exists; a graph leaves nothing behind, also when a task fails; a failure
  of the work is a failure of the run.
- *Edge login* (not modelled): a session is accepted only for the sign-in that started
  it, and a user who can sign in eventually is signed in.

## 2. Modules

| Module | Models | State |
|---|---|---|
| `AirflowDag` | Airflow's scheduler as the two DAGs use it (trigger rules `all_success`, `one_failed`). Airflow itself is not in the repository | none: operators on the task states of one run |
| `MetadataExport` | the export DAG, Airflow 2.10.x, with the trigger Lambda and the task tokens as its environment | below |
| `StatusPoller` | the polling state machine and its Lambda, with MWAA's life cycle as its environment | `env`, `poll`, `complete`, `told` |
| `PausingWorkflow` | the pausing state machine; extends `MetadataExport` and instantiates `StatusPoller` | both, and `exec`, `config`, `read`, `details` |
| `AirflowVersions` | for each of nine Airflow versions: the tables exported, the tables imported, the task graph of the import, and what Airflow's schema refers to | none |
| `MetadataImport` | the import DAG of one of these versions over a backup | `version`, `files`, `active`, `dangling` (the backup); `dag`, `selfPaused`, `db`, `store`, `table` (the database); `st`, `copied`, `conf`, `token`; history `refused` |
| `ResumingWorkflow` | the resuming state machine; extends `MetadataImport` and instantiates `StatusPoller` | both, and `exec`, `stored`, `creator` |
| `ServerlessWorkflows` | `operations.py`: tool calls as sequences of service calls | `name`, `versions`, `s3`, `runs`, `call` |
| `TaskGraphs` | a small vocabulary for tasks (`Make`, `Await`, `Drop`, ...) and graphs (`Line`, `Stages`, `Using`) | none |
| `Pipelines` | what Airflow and the AWS services do with a plan, a sequence of task graphs | `plan`, `turn`, `st`, `res`, `faulted` |
| `ServiceTemplates` | the 29 templates and `compose_dag_yaml` | none: graphs |
| `ExampleDags`, `UseCaseDags` | the DAGs and scripts of the rest of the repository | none: graphs |
| `PlanWiring` | conditions on the wiring of a plan's graphs, and what they say of the states of its runs | none: extends `Pipelines` |
| `MC...` | constants for TLC | |
| `MetadataExportProofs`, `PausingProofs`, `StatusPollerProofs`, `ImportProofs`, `ResumingProofs`, `ServerlessProofs`, `ServerlessCallProofs`, `PipelineProofs` | theorems and proofs | |

**MetadataExport.** `Runs` are DAG runs, `Tokens` task tokens; `conf[r]` is the token
in the configuration of run `r`. Several runs may share a token, since Step Functions
invokes the Lambda again after a service exception, or have tokens of their own, since
the schedule delivers at least once. `st[r][t]` is the state of a task; a task is one
action (`BackUpActiveDags`, `PauseDags`, `ExportActiveDags`, `ExportStore` for variables
and connections, `ActivateDagsOnFailure`, `NotifySuccess`), except `export_data`, whose
loop reads one table per iteration: `ExportTable` is one iteration and `cursor[r]` its
loop variable. Each action takes the outcome as a parameter, since a callable whose
effect is committed may still end failed; `TaskFails` is a failure without an effect;
`NotifyFailure` is the `on_failure_callback`, part of every failing step. `Edges` is the
last line of the DAG file; `Propagate` is the scheduler settling tasks it will not run.
Rows are abstracted to their owner: a user's DAG stands for its newest DAG run, a run
of the export for itself, a key for its variable or connection. That is what the
properties tell apart: which objects a run wrote, and whether a row of one table has
its row in another. An object in `files` records its writer and its rows. `wish` is a
history variable: whether the user last wanted the DAG active; no action reads it.
`EnterExport`, `TriggerRun`, `TokenExpires` and `DeleteEnvironment` are the workflow
seen from the DAG: they constrain the workflow only by what the DAG may rely on, and
`PausingWorkflow` is checked and proved to keep to them.

**StatusPoller.** One action per state of the state machine (`Wait`, `GetStatus`,
`CheckStatus`, `SuccessNotification`), both timeouts, and `Mwaa`, which moves `env`
along the life or the death of an environment. `CompleteStatuses` is the pair of Lambda
commands: `checkCreated` swallows `ResourceNotFoundException`, `checkDeleted` takes it
for the answer. An unknown command throws; it is a failed `GetStatus`.

**PausingWorkflow.** Execution `k` is named after the token it hands to the DAG and also
names its polling execution. `GetEnvironment` includes the choice on the status, which
reads nothing but the answer. `StoreDetails` also enters the waiting state (`EnterExport`): its
successor waits from the moment it is entered. The trigger (`TriggerExport`) is an
action of its own, because invocations may be repeated and may outlive the execution.
`CallDelete` has the case in which the answer is lost and the deletion goes ahead.
`MwaaDeletes` is the first step after which Airflow is gone: until then Airflow's
tasks go on, deletion requested or not.

**MetadataImport.** Rows are counted, not described: `db[t]` is how often table `t` was
loaded. A `COPY` is refused when the table has a key among the columns copied and was
loaded before, when a table its rows refer to is empty although the backup has it, or
when the backup itself holds a row whose target was not exported (`dangling`). Refused
or not, all rows of a table go together, which is what a single `COPY` does. Loading
the triggers gives them new numbers, so that a deferred task instance may refer to one
by accident; `Strays` chooses. A file that is not in the bucket is no error.
`activate_dags` is two steps, `CopyActive` and `ActivateDags`, because it commits twice.
`CopyActive` loses one row, whichever comes first in the file. The DAGs in `Late` are
discovered while the import goes on; they are paused when they are discovered, and what
`pause_dags` and `activate_dags` did before does not reach them. The nine graphs are
sets of edges, written with `Chain`; versions with the same text up to column lists are
the same graph under another name, and each name is mapped to its own file.

**ResumingWorkflow.** The environment is there from `CreateEnvironment` on, for one
execution; a call that finds the name taken raises. `TriggerImport` is separate from the
state that waits, for the same reason as in the pausing workflow.

**ServerlessWorkflows.** A call is a record with the step it is at, and a step is one
call of a service with what the tool does before the next one. `Begin` chooses the
arguments; the steps of a tool follow the code: `Resolve` is `_resolve_workflow_arn` and
its copies, `Upload`, `Create`, `FindExisting`, `UpdateWorkflow`, `StartRun` are
`deploy_and_run` (and, from `Detail` on, `redeploy_workflow`), `List` and `Inspect` are
a scan with one thread for each workflow. `Inspect` takes the workflows of a scan one by
one in any order, since threads finish in any order. A service call may raise before or
after its effect. `owed` and `rivals` are history variables in the record, which no
action reads: what the report of a call must mention or its deletion spare, and the
definitions of the deployments it overlaps with.

**Pipelines.** A plan is a sequence of task graphs that run in turn: one DAG; a script
and the DAGs it deploys; the same DAG twice. `res` has a phase for each resource, among
them *making*, *going* (a deletion that takes time) and *stuck* (a stack whose deletion
failed because something is in it). `Schedule` applies the trigger rules (`all_success`,
`all_done`, `one_success`, `all_failed`, teardowns, branches); `Succeed` is a task that
does what it says; `Refused` one that the service turns down because what it uses is not
there; `Fault` one that raises, before or after its effect, at most `MaxFaults` times;
`Made` and `Gone` are the services at their own pace. A sensor waits for its phase and
a waiting task succeeds as soon as it comes. Python scripts are graphs in a line; a step
whose errors the script ignores hides them (`Quietly`), one that ignores the answer of a
service but not an exception hides some (`PartlyQuietly`). What a script leaves out when
an answer is missing (the token of Salesforce, the outputs of a stack) is a step that
needs that answer and is quiet without it. The questions a script asks are answered with
yes. A stack stands for everything in it except what
tasks put in its buckets and networks, which is `Inside` it and keeps it from going.

**PlanWiring.** A plan's properties are those of its graphs: who comes before whom, who
removes what. `SucceedsBefore` and `SettlesBefore` say of two tasks of a graph that one
has succeeded, or is over, whenever the other runs. The conditions on a plan are stated in
these terms, without states: `NeedsProvided`, `PullsAhead`, `FailuresCarried`;
`LeftoversRemoved` (what can be removed is removed for good, after its makers and its
contents, by a task that nothing skips); `QuietlyServed` (without a failure, each task
finds a resource as the last task before it that touched it has left it); and `Startable`
(no circle, and no rule that settled tasks leave undecided). `PipelineProofs` shows what
follows from each. Sets closed under the rules take the place
of recursion over the graph: a task is upstream in the sense needed when it is in every
closed set that holds the direct upstream tasks.

**Abstract specifications.** `PausingWorkflow` implements `Spec` of `MetadataExport`
(property `ImplementsExport`), where the workflow is four permissive actions. Through it,
what is shown of the export alone holds in the workflow. Both workflows also implement
`Poller!Spec` of `StatusPoller`, where the environment is MWAA alone. As they are composed
from its actions, no run checks that; it is a lemma that brings the theorems about
the poller into the workflows.

Definitions marked `Broken:` (`EdgesPauseFirst`, `TriggerFailsCaught`, ...) are no
part of any specification. Each is a variant of the definition below it with a plausible
bug, used to see that the property named with it in `PROJECT.json` does notice.

## 3. Runs

| Run | Instance | Shows |
|---|---|---|
| `export_single` | 1 run, 2 DAGs, one of them with work in progress, 2 linked tables, every task may fail, users toggle DAGs until the backup of the active ones | `ActiveDagsSaved`, `UndoneExportRestoresDags`, `TaskInstancesHaveRuns`, `FailureIsCompensated`, `TypeOK` |
| `poll_created` | 2 polls for a creation, failed calls, timeouts | `ToldTruth`, `CompletionIsTold` |
| `pause_twice` | 2 executions, 2 runs, failed calls, lost answers, timeouts, 2 configurations | `SuccessMeansExported`, `AnsweredRunIsDone`, `DeletedMeansExported`, `DeletedMeansBackedUp`, `DetailsSaved` |
| `pause_users` | 1 execution, every failure, users toggle DAGs at any time and update the environment, with or without a table left by an import | `SucceededMeansGone`, `BackupOfOneRun`, `ImplementsExport`, `PauseTypeOK` |
| `pause_quiet` | 1 execution, no failure, no timeout, with fairness | `PauseCompletes` |
| `resume_versions` | nine versions, 2 DAGs of which one is discovered late, failed calls, `load_ti` and `activate_dags` may fail | `SuccessMeansResumed`, `ImportInOwnEnvironment`, `LoadedInOrder`, `HistoryFirst`, `OnlyFormerlyActive`, `FinishedMeansAnswered`, `ResumeTypeOK` |
| `serverless_tools` | 2 calls of any tool, 2 workflows, 2 definitions, service calls that raise | `DefinitionsInStep`, `OwnDefinitionRuns`, `ReportsComplete`, `CompletedIsOver`, `DeletionSpares`, `ExactNameFirst`, `TypeOK` |
| `pipelines` | 63 plans, at most 2 faults in each | `HasWhatItNeeds`, `PullsAnswered`, `QuietPlanCompletes`, `FaultsDoNotLeak`, `FailuresShow`, `PlansEnd`, `TypeOK` |
| `export_left_paused` | 1 run, a token that expires | `NoDagLeftPaused` violated |
| `resume_active` | 1 import of 2.10.x without any failure | `FormerlyActiveAgain` violated |
| `serverless_compare` | 2 calls among deploy, redeploy and compare, no failure | `ChangesShown` violated |
| `compose_pulls` | the composition of the docstring's example | `PullsAnswered` violated |

**Bounds.** Nothing is capped by a counter: the state spaces are finite because runs,
tokens, polls and executions happen once and `cursor` ends with the list of tables. Two
runs and two executions are the smallest number at which anything is duplicated, and
every conflict found is between two. One run and one DAG with work in progress
suffice for the order of two reads; two DAGs let one be active and the other paused, and
the initial states cover every combination. Two linked tables (`dag_run` before
`task_instance`) are the ones whose order matters; `export_left_paused` takes the full
list. The workflow's runs export a single table,
since the workflow does not see which. `pause_twice` has no user DAGs and lets no task
fail by itself (tokens still expire under it, which is how a task fails there); with
task failures its instance is too large, and the theorems cover what it leaves out. It
uses symmetry on executions, runs and configurations, which are only compared for
equality; its action property is symmetric in them too, and it checks no liveness. With
two runs the backup may be a mixture of both, so `BackupOfOneRun` belongs to the run with
one; what holds with two is that every object is of this pause (`DeletedMeansBackedUp`) and
that the run that answered writes no more (`AnsweredRunIsDone`), while the other one may.
Users do not update the environment here (`UserActive` is `FALSE`).

`resume_versions` has every version in one run, and explores in some of them what is the
same in all: a second run of the DAG in the oldest (`Doubled`), a second execution in
the newest (`Rescheduled`), timeouts in all but the oldest (`TimingOut`). The code of the
workflow does not depend on the version, and that of the tasks only through the graph
and the tables. `ActiveDags` are none or all of the DAGs, `Faulty` a task of a parallel
branch and one before the end; any task may still fail because of its data.

`serverless_tools` bounds the runs of all workflows (`MaxRuns`) to three, one that was
there and one for each call, the polls of a call (`MaxPolls`) to two, and a page
(`PageSize`) to both workflows, so that a first page holds all, as it does until a
client has more workflows than one page. Two names of which one contains the other are
what the fallback of the lookup can get wrong. Symmetry is on the calls, the identifiers
and the definitions, which are compared for equality only; the action property is
symmetric in them too, and no liveness is checked.

`pipelines` has `MaxFaults` = 2: a fault in the work and another in the clean-up. Where
a DAG makes a task for each month, year, table or file, there are two. Four of its
properties name the plans they do not hold for, and the sets are tight, for each plan in
them was seen to violate the property without it:

- `HasWhatItNeeds` (`Unordered`): in `emr_serverless_306` no edge leads from the script
  to the job that runs it; in `sagemaker_306`, when one upload has failed, the clean-up
  under `all_done` may remove the bucket while the other upload is at work; in `xgboost` nothing waits for the
  Glue job that `process` starts; `datasets` and `snowflake` report an upload that failed
  as done; the scripts of `salesforce` and `workshop` assume that the step before went well.
- `QuietPlanCompletes` (`LeavesThings`): without any fault, objects keep the stacks of
  `glue`, `comprehend` and `emr` from being deleted, and a cluster whose deletion nothing
  awaits that of `eks`; nobody deletes the application of `kinesis_analytics` or the named
  credential of `salesforce`, or writes the value `dynamodb` waits for; the jobs of
  `emr_serverless_306` and `xgboost` may start before their input is there.
- `FaultsDoNotLeak` (`FaultsLeak`): a removal under the default rule is skipped after a
  failure (`lambda_blueprint`, `observed`, `s3_306`, ...), a removal that pulls the id
  from the failed creation cannot run (`emr_serverless`), a teardown is skipped when its
  setup failed after its effect (`setup_teardown`).
- `FailuresShow` (`Masking`): where the clean-up under `all_done` is the only last task,
  the run is a success whatever the work did. That is so for every template with a stack;
  `setup_teardown`, whose clean-up is a teardown, shows how it can be avoided. Errors are
  swallowed within a task or a step in `datasets`, `snowflake`, `cosmos`, `lambda_306`,
  `salesforce` (without a token the script skips what it has at Salesforce and ends with 0)
  and `workshop` (`cleanup.py` never fails, and without the outputs of the stack it
  deletes neither the bucket's objects nor the stack).

The exemptions of `FailuresShow` are thus most of the plans: the property is about the
others, which it shows to be reliable in this respect.

The types of the poller are checked as parts of `PauseTypeOK` and `ResumeTypeOK`.

**Deadlock** is not checked: these systems stop. Executions end, an environment is
deleted and its scheduler with it, and a run whose tasks are all settled is over.

**Fairness.** `FairSpec` of the export has weak fairness of each task of each run:
Airflow's scheduler and workers handle a task that stays runnable while the environment
and the DAG's own unpaused state last. Failing is one way of being handled, so fairness
forces no success. `FairSpec` of the poller has weak fairness of each execution's steps,
since Step Functions runs what is started, and of MWAA, which completes what it
accepted. `PauseFairSpec` adds the trigger Lambda. Users, schedules, timeouts, failures
and duplicates owe nothing. `Spec` of `Pipelines` has weak fairness of `Step`: the
scheduler, its workers and the services go on as long as anything is left to do;
a fault is one way of going on, and `MaxFaults` makes it finite. A sensor without
its phase does not wait forever: it ends failed at its timeout, which `Refused` stands for. `pause_quiet` sets `MayFail` and `MayTimeOut` to `FALSE`:
what it shows is that the workflow, the Lambda, the DAG, the poller and MWAA do not wait
for one another in a circle. With a failure a pause may wait for its timeout, and does.

## 4. Findings

Each is a run that expects a violation; `PROJECT.json` quotes the text it contradicts.

1. `export_left_paused`: `activate_dags_on_failure` does not look at `notify_success`.
   When the waiting execution has gone (a timeout, a Lambda that failed after it created
   the run), the environment stays and every DAG stays paused.
2. `resume_active`: `COPY ... HEADER TRUE` skips the first line of `active_dags.csv`,
   which the export writes without a header. One row is lost with every resume: that of
   a DAG of the user, which stays paused, or that of `mwaa_export_data`, which is in the
   list too (it is active when it makes the list, which leaves no DAG out). The
   order of the rows, which the query leaves open, decides. The two DAGs have this in all
   nine versions.
3. `serverless_compare`: after a redeployment under the same key, which is the default,
   both versions name one object, and `compare_versions` says that nothing changed.
4. `compose_pulls`: `compose_dag_yaml` renames tasks, but not the `task_ids` inside
   `xcom_pull`. A composed workflow with a template that pulls anything fails there.

More behaviours came up that have no run of their own:

- A second run of the export rebuilds `active_dags` after the first one paused
  everything: the backup then names no DAG. `ActiveDagsSaved` is checked, and proved, for
  a single run. `TaskInstancesHaveRuns` fails with a second run too: pausing does not
  stop `mwaa_export_data` itself, which can be in `task_instance` and not in `dag_run`.
- `TASK_INSTANCE_SELECT` leaves out unfinished task instances, `TASK_FAIL_SELECT` does
  not leave out their failed attempts: from 2.4.3 on the import's `COPY` of `task_fail`
  is then refused (`dangling`), and the import fails. Deferred task instances are
  the same with triggers, whose numbers change; the use case's README says so.
- A variable or connection table that was emptied leaves the earlier object in the
  bucket; its rows come back with the next resume.
- `activate_dags` of the export trusts whatever `active_dags` table there is: when the
  environment was resumed and `back_up_activedags` fails, it activates the DAGs of the
  import's table, those the user has paused since included; so `UndoneExportRestoresDags`
  is checked, and proved, for an environment without that table.
- From 2.4.3 to 2.8.1 the export writes `dagrun_dataset_event.csv` and the import reads
  `dataset_dag_run_event.csv`: the table is never restored. `slot_pool` is exported from
  2.7.2 on only, and the earlier imports read it.
- DAGs that are parsed after `activate_dags` stay paused, active or not before.
- `delete_resources.py` of the Salesforce use case needs the secret of the stack it
  deletes: called again after that, it stops at its first step and what is left at
  Salesforce stays. It announces the deletion of the named credential and has no code for
  it. When Salesforce refuses the token, it prints "Skipping Salesforce delete resources"
  and ends with 0. `cleanup.py` of the workshop, when the stack has no outputs, deletes
  what is Glue's if told so, and ends with 0 too.
- `deploy.py` of the workshop says it always restores the placeholders; what replaces
  them is before the `try`, so a failure in between leaves edited files.
- In `image_processing` the task `failure` has `check_duplicate` upstream under the
  default rule: chosen by `face_detection`, which skips `check_duplicate`, it is skipped.
- When callers give one workflow several keys, a run can execute a definition of a
  deployment that was over before: A uploads under one key, B after it under the same key,
  and ends; C begins, uploads under another key and makes its version; A's update, a
  version of B's object, comes before C starts the run. `OwnDefinitionRuns` is checked,
  and proved, for one key for each name, the default.
- In composed workflows default values of parameters keep their names, so two parts of
  one service share stacks and buckets, and the clean-up of an upstream part runs beside
  the work of the part that depends on it.

## 5. Proofs

Eight modules hold theorems: `StatusPollerProofs`, `MetadataExportProofs`,
`PausingProofs`, `ImportProofs` with `ResumingProofs`, `ServerlessProofs` with
`ServerlessCallProofs`, and `PipelineProofs`. They hold for every value of the constants
that satisfies the named assumptions `ExportAssumption`, `PollerAssumption`,
`WorkflowAssumption`, `ImportAssumption`, `ResumeAssumption`, `ServerlessAssumption` and
`PipelinesAssumption` (names of tables that do not collide, model values that differ,
switches that are Boolean, bounds that are numbers). Two of them say something of the
code: `ExportAssumption` that `clean_up`, a `DummyOperator`, cannot fail by itself, and
`ServerlessAssumption` that people do not use one key for workflows of different names.
Any further hypothesis is in the theorem that needs it and named below.

- **Export, any number of runs** (`TypeCorrect`, `SuccessIsExported`, `SuccessIsBackedUp`,
  `RunsAreDoneWhenAnswered`). `SuccessMeansExported` is
  not inductive: nothing in it says why the tasks before `notify_success` have succeeded.
  `ChainInv` says that a task that succeeded under `all_success` has only successful
  upstream tasks, and `AnsweredInv` that a token answered with success belongs to a run
  whose `notify_success` was executed. A settled task never changes again
  (`TaskStepSettles`), which carries both over each step. `WrittenInv` ties the objects
  to the tasks that wrote them, with the cursor of the loop: what a task that succeeded was
  to write is there, written by that run or by another one of this pause since. And a run
  whose `notify_success` was executed has every exporting task settled, so it writes no more.
- **Export, how a run ends** (`ExportsReportOrUndo`, `ExportsNeverStall`,
  `FaultlessExportsAnswer`), for any number of runs: the part of `FailureIsCompensated`
  that fairness cannot give, namely that the scheduler always has something to do for a
  run, while the environment lives, and that what it has done in the end is the compensation. `ReasonsInv` says of every settled task that its trigger rule asked for the
  state it has, and still would, since the tasks upstream are settled for good; at the
  end of a run these reasons leave two outcomes, everything exported and the report tried,
  or a failed task, no report and the activation tried. That a run gets there is that the graph has no
  circle and that settled upstream tasks leave no rule undecided. With `Faulty = {}`,
  `FaultlessInv` adds what the callables look for: the table is there from the backup on,
  and the cursor is not at its end while objects are to be exported.
- **Export, one run** (`Runs = {r0}`; `SingleBackupOfOneRun`, `SingleActiveDagsSaved`,
  `SingleUndoRestoresDags`, `SingleTaskInstancesHaveRuns`). With two runs these are false:
  they write to one bucket, and the second remembers as active what the first has left
  so. The first one is `SuccessIsBackedUp` where no other run writes. The last three also
  assume that users leave the DAGs alone once the active
  ones are backed up (`UserActive = FALSE`), and two of them that no table was there
  before; `DagsInv` says, for each stage of the run, what the table, the `is_paused`
  column and the object hold. The last needs no order of the tables. What makes it true
  is that from `pause_dags` on the set of DAGs with a run does not grow, for no paused DAG
  gets one: `RunsInv` says that every task instance belongs to that set (`HaveRuns`), and
  that the object of `dag_run` holds all of it and the object of `task_instance` nothing
  else; `UndoneInv` that a run that activated DAGs again never answers with success.
- **Poller** (`PollerTypeCorrect`, `ToldIsTrue`), for both commands and any number of
  executions. `PollerInv` adds that an execution about to answer has seen a complete
  status, and the proof that no step of MWAA leaves the set of complete statuses.
- **Pausing workflow** (`PauseInvariant`, `PauseTypeCorrect`, `PauseImplementsExport`,
  `DeletionIsSafe`, `SuccessIsGone`, `DetailsAreSaved`; `PauseImplementsPoller` as a lemma).
  `PauseInv` says that an execution past the export has its token answered with success,
  that a doomed environment was doomed by such an execution, and that whoever waits for
  the export has read the details. Every step then maps to a step of the export's
  specification or leaves its variables alone, and the same of the poller's; the
  theorems about the parts come over (`PollerInWorkflow`). `DetailsAreSaved` assumes
  that users do not update the environment (`UserActive = FALSE`): an update between
  reading the details and deleting is lost, and the theorem would be false.
- **What a pause promises** (`PauseEndsItsExport`, `DeletionIsBackedUp`,
  `DeletionLosesNothing`). The refinement brings the theorems about the export into the
  workflow. The first two hold for any number of executions and runs, with every call
  that may fail, be repeated or come late: the run that answered writes no more, and when
  the environment goes, every table and the list of active DAGs are in the bucket, of this
  pause. They do not say that one run wrote them all, nor that no other one is still
  writing. `DeletionLosesNothing` is about a pause with one run of the DAG: its
  configuration, the DAGs that were active and tables that fit together are in the bucket,
  written by that run. Its hypotheses are those of the theorems about one run: users who
  stay away, no table left by an import.
- **A pause does not get stuck** (`PausesGoOn`), the same for `PauseCompletes`:
  someone can always take the next step, for any number of executions and runs, with `MayFail`, `MayTimeOut` and `Faulty` as in
  `pause_quiet`. `WaitsInv` says whom each execution waits for and that it is still to
  come: the token is created with the call of the Lambda, the environment lives until it
  is doomed, and whoever asks the poller has doomed it. `FaultlessExportsAnswer` comes over
  with the refinement. The exception it names is real: of two executions that overlap,
  the first to finish deletes the environment, and the other waits for an answer that
  no DAG is left to give, until its timeout. `pause_quiet` has one execution.
- **Resuming workflow** (`ImportsAreAtHome`, `NothingElseStarts`; `ResumeImplementsPoller`
  as a lemma), without a look into a task graph. An import has
  the token of an execution that was told that its environment is there (`ToldIsTrue`,
  through the refinement); such an execution is the one whose `CreateEnvironment` was
  accepted, which happens once (`OwnInv`); and an environment that is there stays. For
  the DAGs, `ImportInv` adds that the table the activation reads holds only DAGs of the
  backup.
- **Imports of the nine versions** (`ResumeTypeCorrect`, `LoadedInOrderOfReferences`,
  `HistoryComesFirst`, `SuccessfulMeansResumed`, `EveryImportAnswers`). `ImportProofs`
  spells out the edges of the nine graphs (`Edges`) and derives what the proofs need of
  them: which loading task comes before which (`ComesBefore`, `ReferredFirst`), and that
  no graph has a cycle. `LoadInv` says that the tasks that succeeded have all their upstream
  tasks among them and have put back what is theirs; so the targets of a row's
  references are there when the row comes (`NothingRefused`), and the history before the
  DAGs are activated.
  `AnswerInv` says that a run with a failed task has sent its answer or will not be heard;
  with the absence of cycles, a run in which nothing can start has failed or is complete.
  The last theorem assumes that the failure callback is not itself among the faults
  (`"notify_failure" \notin Faulty`), as its run does: a callback that fails tells nobody.
- **Serverless tools, definitions** (`DefinitionsKept`), for any number of calls,
  workflows and definitions. `ServerlessInv` says why one deployment cannot hide the
  unfinished upload of another: live workflows have different names, every version and
  every deployment under way has a key of its workflow's name (`Good`, `Held`), so that
  two workflows share no key, and an identifier is never used again. Most steps are calm
  (`CalmStep`): they leave definitions and versions alone and lose no unfinished
  deployment; what is left is an upload, after which the deployment is unfinished, and
  the making of a version (`NewVersionStep`), which takes what the key holds at that moment.
- **Serverless tools, calls** (`ServerlessTypeCorrect`, `CompletionIsFinal`,
  `DeletionSparesRecent`, `DeploymentsRunTheirOwn`, `ExactNameComesFirst`,
  `ReportsLeaveNothingOut`). `Typed` gives the type of a call's record and `Stage` says, for each
  step of a tool, what it has found out before; they carry the type invariant. On
  top of it each property has an invariant of its own: a run that was reported completed
  is terminal, and a terminal run stays (`CompletedInv`); what a deletion has decided to
  delete is none of what it owes to spare (`SparedInv`); what lies under the key of a
  deployment after its upload, and what its version was made of, is its own definition or
  a rival's (`OwnInv`); what a scan still owes is in its report or among the workflows it
  has not come to (`ReportInv`). `DeploymentsRunTheirOwn` assumes one key for each name
  (`OneKeyEach`), what callers have who leave the key to the tool; section 4 says what happens
  otherwise. The last two assume that one page holds all workflows (`AllOnOnePage`, at
  every moment): the code reads one page, and with more workflows both would be false.
- **Plans** (`PipelinesTypeCorrect`, `StatesKeepToTheRules`, `PullsAreAnswered`,
  `WhatIsProvidedStays`, `NeedsAreMet`, `FailuresAreShown`), for any plans that meet the
  conditions of `PlanWiring` and any number of faults. `RulesKept` is the inductive invariant
  that makes the wiring count: a task that has run had its upstream tasks as its rule
  wants them, and a task whose rule waits is not settled before them. The successful tasks
  are then a closed set, and so are the settled ones, which turns `SucceedsBefore` into a
  fact of every state (`SuccessesUpstream`, `SettledUpstream`). For needs, `ProvidedKept`
  says that what was provided is there until a removal has run, and `NeedsProvided` that
  every removal comes after the task in need, or before the provider. For failures,
  `ReasonsKept` gives a reason upstream for every task that was given up or skipped, and
  `SkipsKept` bounds what can be skipped; a run that is over has then one of the outcomes
  that `FailuresCarried` goes through. `FailuresCarried` also asks that no task hides what went wrong in it. `BranchesFirst` keeps a
  branch from skipping what has been given up for another reason: the failure would be
  overwritten, and `FailuresShow` could not be read off the graph.
- **Plans, what is left behind** (`LeaksAreExcluded`, `QuietPlansComplete`), for any number
  of faults, and for none. A resource lives across the graphs of a plan, and AWS goes on with it after
  the task that asked is over, so both need an invariant on the services: a container is
  there as long as something in it is (`ContainedKept`); a removal that
  runs anyway is never given up (`AnywayKept`); and once one that is for good has settled,
  its resource is gone or going, or the removal itself failed (`RemovalKept`). Without faults, `QuietKept`
  says that no task has failed, which it can only say together with what each call finds:
  only tasks behind a branch are skipped (`QuietSkipsKept`), and a resource is in one of
  the phases in which the last successful task of the graph (`LastTouchKept`) or the
  graphs before it (`FoundKept`) left it. So no call is refused under any schedule.
- **Plans come to an end** (`PlansNeverStall`, `StepsAdvance`), the same for
  `PlansEnd`, with the measure that grows. A plan that is not over can take a step, and each step takes a task, a
  resource or the turn further and nothing back.

Only model-checked: the liveness properties (`FailureIsCompensated`, `CompletionIsTold`,
`PauseCompletes`, `PlansEnd`), which need fairness; for all but the second, theorems
above show that someone has a step to take until the end. The theorems about plans are
conditional: they hold of any plan that meets the conditions of `PlanWiring`. That a plan
of the repository meets them is a matter of its graphs alone, which no run evaluates; what
the run `pipelines` shows of these plans, it shows with up to two faults and without them.
`FormerlyActiveAgain`, `NoDagLeftPaused` and `ChangesShown` are false (section 4).

## 6. Plan

Written: everything in section 2. Next, in this order:

1. `StartStopCycle`: pauses and resumes in turn over one bucket, whether a failed
   resume followed by a scheduled pause spoils a good backup. `DeletionLosesNothing` and
   `SuccessfulMeansResumed` are its two halves.
2. `EdgeLogin`: several tabs, one cookie jar, nonce and state parameters, refresh and
   its transient failures.

## 7. Not modelled

- The actions of the export for other Airflow versions than 2.10.x: the same tasks and
  edges, other columns and tables, which `AirflowVersions` has.
- The contents and text of rows, CSV formats, chunking of uploads. The header line is
  modelled by what it does; a port that is empty in the export and 0 after the import is not.
- The row of `mwaa_export_data` itself among the active DAGs: `active_dags.csv` holds
  the users' DAGs, and where the import loses a row, it may be one that is not modelled.
- DAGs that are active from their creation: a new environment creates them paused, which
  stored configuration options (`dags_are_paused_at_creation`) may change.
- Foreign keys to the `dag` table and datasets that get new numbers (2.4.3 to 2.8.1):
  `References` has what the tables of the backup refer to among themselves, so some
  refusals of `COPY` cannot happen in the model.
- Retries of tasks by Airflow (three in the Snowflake DAGs, one to three in some tasks of
  others). `Fault` is that of the last attempt. A task that succeeds in a later attempt
  has done what `Succeed` does; one that fails in all of them has had its effect in one of
  them or not, which are the two cases of `Fault`, and a second attempt that is refused since the
  first one had its effect is the first of these. The time between attempts is part of
  the running task.
- Long lists of runs: the first page of `list_workflow_runs` holds all runs of a workflow,
  and the list tool does not fall back to its first page (`operations.py` 57-59).
- Partial uploads: an S3 object is written whole; multipart uploads that
  are cut short leave no object, which is `TaskFails`.
- `dags-cli.ts`: the choice of the command by the version, and the parsing of its output.
- Deployment stacks, permissions, notifications, configuration: declarations without a
  state of their own.
- The edge login and its custom resources: TypeScript of another use case, planned.
- `find_workflows_using_service`, `get_workflow_summary` and the extraction and
  analysis of logs in `operations.py`: they read and change nothing.
- The validator, analyzer and converter of the MCP server: pure functions over YAML and
  syntax trees, whose recursion over arbitrary text a finite instance says little about.
- The metrics Lambda (periodic reads), the operators of the blueprints (single calls), DAGs of a
  single task, the `run_ecs_task` DAG (it uses `os` and `SSM_CLIENT` without importing
  them and cannot be loaded), older copies of DAGs that are modelled.
