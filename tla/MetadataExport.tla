--------------------------- MODULE MetadataExport ---------------------------
(***************************************************************************)
(* The mwaa_export_data DAG (mwaairflow/assets/dags/2.10.x): it remembers  *)
(* which DAGs are active, pauses them, streams the metadata tables to S3   *)
(* and answers the Step Functions task token it was triggered with.        *)
(*                                                                         *)
(* A run r is one DAG run; conf[r] is the token of its configuration.      *)
(* The trigger Lambda may be retried with the same token, and the          *)
(* scheduler that starts the pausing workflow delivers at least once, so   *)
(* several runs, with the same token or with different ones, can be in     *)
(* progress together: they share the metadata database and the bucket.     *)
(***************************************************************************)
EXTENDS Naturals, Sequences, AirflowDag

CONSTANTS
  Dags,          \* the user's DAGs: every DAG but mwaa_export_data
  Working,       \* those of them with a DAG run that may be in progress
  Keys,          \* names of Airflow variables and connections
  Runs,          \* possible runs of mwaa_export_data
  Tokens,        \* possible task tokens, one per visit of "Export metadata"
  NoToken,       \* configuration of a run that was not triggered
  Earlier,       \* writer of the S3 objects a previous pause left
  NoObject,      \* an S3 key that does not exist
  InitialTables, \* contents an active_dags table may have before the first run
  ObjectsToExport, \* the tables export_data streams, in order
  Faulty,        \* tasks that may fail
  UserActive     \* TRUE: users pause and unpause DAGs however far a pause has come

ASSUME ExportAssumption ==
  /\ Working \subseteq Dags
  /\ NoToken \notin Tokens
  /\ Earlier \notin Runs
  /\ InitialTables \subseteq SUBSET Dags
  /\ UserActive \in BOOLEAN
  /\ ObjectsToExport \in Seq(STRING) /\ ObjectsToExport # << >>
  /\ \A i \in DOMAIN ObjectsToExport :
       ObjectsToExport[i] \notin {"active_dags", "variable", "connection"}
  /\ "clean_up" \notin Faulty  \* a DummyOperator is not executed

VARIABLES
  alive,      \* the environment exists
  paused,     \* dag.is_paused of the user's DAGs
  selfPaused, \* dag.is_paused of mwaa_export_data
  table,      \* the active_dags table: whether it exists, its user DAGs
  ti,         \* state of the newest task instance of a user's DAG
  failRows,   \* user DAGs with a row in task_fail
  store,      \* rows of the variable and connection tables
  conf,       \* task token in the configuration of each run
  st,         \* st[r][t]: state of task t in run r
  cursor,     \* number of tables export_data has streamed in run r
  files,      \* the objects under data/ in the backup bucket
  token,      \* how Step Functions regards each task token
  wish        \* history: whether the user last wanted the DAG active

vars == << alive, paused, selfPaused, table, ti, failRows, store, conf, st,
           cursor, files, token, wish >>

(***************************************************************************)
(* The objects the DAG writes, its tasks, and their dependencies, the last *)
(* line of the file.                                                       *)
(***************************************************************************)
Stores == {"variable", "connection"}

Files == {ObjectsToExport[i] : i \in 1 .. Len(ObjectsToExport)}
           \cup {"active_dags"} \cup Stores

ExportTasks ==
  {"export_data", "export_active_dags", "export_variable", "export_connection"}

Tasks == ExportTasks \cup
  {"back_up_activedags", "pause_dags", "clean_up", "notify_success",
   "activate_dags_on_failure"}

\* a >> b for sets of tasks
Before(a, b) == a \X b

\* Broken: the DAGs are paused before the active ones are remembered.
EdgesPauseFirst ==
  Before({"pause_dags"}, {"back_up_activedags"})
    \cup Before({"back_up_activedags"}, ExportTasks)
    \cup Before(ExportTasks, {"clean_up"})
    \cup Before({"clean_up"}, {"activate_dags_on_failure", "notify_success"})

\* Broken: clean_up joins the longest export only.
EdgesNoJoin ==
  Before({"back_up_activedags"}, {"pause_dags"})
    \cup Before({"pause_dags"}, ExportTasks)
    \cup Before({"export_data"}, {"clean_up"})
    \cup Before({"clean_up"}, {"activate_dags_on_failure", "notify_success"})

\* Broken: success is reported beside the clean-up, not behind it.
EdgesEarlyNotify ==
  Before({"back_up_activedags"}, {"pause_dags"})
    \cup Before({"pause_dags"}, ExportTasks)
    \cup Before(ExportTasks, {"clean_up"})
    \cup Before({"export_data"}, {"notify_success"})
    \cup Before({"clean_up"}, {"activate_dags_on_failure"})

Edges ==
  Before({"back_up_activedags"}, {"pause_dags"})
    \cup Before({"pause_dags"}, ExportTasks)
    \cup Before(ExportTasks, {"clean_up"})
    \cup Before({"clean_up"}, {"activate_dags_on_failure", "notify_success"})

Upstream(t) == {u \in Tasks : << u, t >> \in Edges}

\* Broken: the compensating task has the default trigger rule.
RuleDefault(t) == "all_success"

Rule(t) ==
  IF t = "activate_dags_on_failure" THEN "one_failed" ELSE "all_success"

Active == {d \in Dags : ~paused[d]}
Triggered == {r \in Runs : conf[r] # NoToken}

\* Values of the active_dags table.
NoTable == [exists |-> FALSE, rows |-> {}]
TableOf(S) == [exists |-> TRUE, rows |-> S]

TIStates == {"absent", "running", "up_for_retry", "success", "failed"}
TokenStates == {"idle", "waiting", "success", "failure", "expired"}
Rows == Dags \cup Runs \cup Keys
Objects == [by : Runs \cup {Earlier}, rows : SUBSET Rows] \cup {NoObject}

TypeOK ==
  /\ alive \in BOOLEAN
  /\ paused \in [Dags -> BOOLEAN]
  /\ selfPaused \in BOOLEAN
  /\ table \in [exists : BOOLEAN, rows : SUBSET Dags]
  /\ ti \in [Dags -> TIStates]
  /\ failRows \in SUBSET Dags
  /\ store \in [Stores -> SUBSET Keys]
  /\ conf \in [Runs -> Tokens \cup {NoToken}]
  /\ st \in [Runs -> [Tasks -> TaskStates]]
  /\ cursor \in [Runs -> 0 .. Len(ObjectsToExport)]
  /\ files \in [Files -> Objects]
  /\ token \in [Tokens -> TokenStates]
  /\ wish \in [Dags -> BOOLEAN]

\* The bucket before the first pause, and after an earlier one that exported
\* every key and every DAG.
NoBackup == [f \in Files |-> NoObject]
EarlierBackup ==
  [f \in Files |-> [by |-> Earlier, rows |-> IF f \in Stores THEN Keys ELSE Dags]]

Init ==
  /\ alive = TRUE
  /\ paused \in [Dags -> BOOLEAN]
  /\ selfPaused = TRUE
  /\ table \in {NoTable} \cup {TableOf(S) : S \in InitialTables}
  /\ ti \in [Dags -> {"absent"}]
  /\ failRows = {}
  /\ store \in [Stores -> SUBSET Keys]
  /\ conf = [r \in Runs |-> NoToken]
  /\ st = [r \in Runs |-> [t \in Tasks |-> "none"]]
  /\ cursor = [r \in Runs |-> 0]
  /\ files \in {NoBackup, EarlierBackup}
  /\ token = [k \in Tokens |-> "idle"]
  /\ wish = [d \in Dags |-> ~paused[d]]

database == << alive, paused, selfPaused, table, ti, failRows, store, wish >>

-----------------------------------------------------------------------------
(***************************************************************************)
(* Step Functions around the DAG.  EnterExport is the pausing workflow     *)
(* reaching "Export metadata"; TriggerRun is the dag trigger Lambda, whose *)
(* unpause may fail without stopping it; TokenExpires is the end of the    *)
(* waiting execution for any reason but an answer (its own timeout, or an  *)
(* error of the Lambda after the run was created); DeleteEnvironment is    *)
(* what the workflow does once the token is answered with success.         *)
(***************************************************************************)
EnterExport(k) ==
  /\ token[k] = "idle"
  /\ token' = [token EXCEPT ![k] = "waiting"]
  /\ UNCHANGED << database, conf, st, cursor, files >>

TriggerRun(r, k) ==
  /\ alive
  /\ conf[r] = NoToken
  /\ token[k] # "idle"
  /\ conf' = [conf EXCEPT ![r] = k]
  /\ selfPaused' \in {selfPaused, FALSE}
  /\ UNCHANGED << alive, paused, table, ti, failRows, store, wish, st, cursor,
                  files, token >>

TokenExpires(k) ==
  /\ token[k] = "waiting"
  /\ token' = [token EXCEPT ![k] = "expired"]
  /\ UNCHANGED << database, conf, st, cursor, files >>

DeleteEnvironment(k) ==
  /\ alive
  /\ token[k] = "success"
  /\ alive' = FALSE
  /\ UNCHANGED << paused, selfPaused, table, ti, failRows, store, wish, conf, st,
                  cursor, files, token >>

-----------------------------------------------------------------------------
(***************************************************************************)
(* The tasks of a run.  A callable whose effect is committed may still end *)
(* failed (its worker dies, the answer of the last call is lost): every    *)
(* task action takes its outcome as a parameter.  TaskFails is a failure   *)
(* that left no effect.  Tasks have no retries.                            *)
(***************************************************************************)
Runnable(r, t) ==
  /\ alive
  /\ conf[r] # NoToken
  /\ ~selfPaused
  /\ st[r][t] = "none"
  /\ MayStart(st[r], Upstream(t), Rule(t))

\* Broken: the callback answers with a state Step Functions does not know.
NotifyFailureMisnamed(r) ==
  token' = [token EXCEPT ![conf[r]] = "failed"]

\* notify_failure is the on_failure_callback of every task: it answers the
\* token of the run with a failure.  A callback that raises is only logged.
NotifyFailure(r) ==
  token' \in IF token[conf[r]] = "waiting"
             THEN {token, [token EXCEPT ![conf[r]] = "failure"]}
             ELSE {token}

TaskEnds(r, t, outcome) ==
  /\ outcome = "failed" => t \in Faulty
  /\ st' = [st EXCEPT ![r][t] = outcome]
  /\ IF outcome = "failed" THEN NotifyFailure(r) ELSE UNCHANGED token

TaskFails(r, t) ==
  /\ Runnable(r, t)
  /\ TaskEnds(r, t, "failed")
  /\ UNCHANGED << database, conf, cursor, files >>

\* drop table if exists active_dags, create it from the active DAGs: one
\* transaction.  The select has no filter, so that the table also holds
\* mwaa_export_data, which is active while it runs; rows are the user's DAGs.
BackUpActiveDags(r, outcome) ==
  /\ Runnable(r, "back_up_activedags")
  /\ table' = TableOf(Active)
  /\ TaskEnds(r, "back_up_activedags", outcome)
  /\ UNCHANGED << alive, paused, selfPaused, ti, failRows, store, wish, conf,
                  cursor, files >>

\* Broken: the update of pause_dags is never committed.
PauseDagsUncommitted(r, outcome) ==
  /\ Runnable(r, "pause_dags")
  /\ TaskEnds(r, "pause_dags", outcome)
  /\ UNCHANGED << database, conf, cursor, files >>

PauseDags(r, outcome) ==
  /\ Runnable(r, "pause_dags")
  /\ paused' = [d \in Dags |-> TRUE]
  /\ TaskEnds(r, "pause_dags", outcome)
  /\ UNCHANGED << alive, selfPaused, table, ti, failRows, store, wish, conf,
                  cursor, files >>

Upload(r, f, rows) == files' = [files EXCEPT ![f] = [by |-> r, rows |-> rows]]

\* select * from active_dags: an error when there is no such table, which
\* TaskFails covers.
ExportActiveDags(r, outcome) ==
  /\ Runnable(r, "export_active_dags")
  /\ table.exists
  /\ Upload(r, "active_dags", table.rows)
  /\ TaskEnds(r, "export_active_dags", outcome)
  /\ UNCHANGED << database, conf, cursor >>

\* export_variable and export_connection: the object is written only when the
\* table has a row.
ExportStore(r, s, outcome) ==
  LET t == IF s = "variable" THEN "export_variable" ELSE "export_connection" IN
  /\ Runnable(r, t)
  /\ IF store[s] # {} THEN Upload(r, s, store[s]) ELSE UNCHANGED files
  /\ TaskEnds(r, t, outcome)
  /\ UNCHANGED << database, conf, cursor >>

\* A DAG stands for its newest DAG run, a run of the export for itself.
HasRun(x) ==
  \/ x \in Dags /\ ti[x] # "absent"
  \/ x \in Triggered

\* TASK_INSTANCE_SELECT leaves out the states of an unfinished task.
HasInstance(x) ==
  \/ x \in Dags /\ ti[x] \in {"success", "failed"}
  \/ x \in Runs /\ \E t \in Tasks : st[x][t] # "none"

HasFailure(x) ==
  \/ x \in failRows
  \/ x \in Runs /\ \E t \in Tasks : st[x][t] = "failed"

\* The rows each SELECT returns, for the tables whose rows refer to each other.
SelectRows(f) ==
  {x \in Dags \cup Runs :
     \/ f = "dag_run" /\ HasRun(x)
     \/ f = "task_instance" /\ HasInstance(x)
     \/ f = "task_fail" /\ HasFailure(x)}

\* export_data streams one table per iteration of its loop, each selected when
\* its turn comes.
ExportTable(r, outcome) ==
  LET f == ObjectsToExport[cursor[r] + 1] IN
  /\ Runnable(r, "export_data")
  /\ cursor[r] < Len(ObjectsToExport)
  /\ Upload(r, f, SelectRows(f))
  /\ cursor' = [cursor EXCEPT ![r] = @ + 1]
  /\ IF cursor[r] + 1 = Len(ObjectsToExport) \/ outcome = "failed"
     THEN TaskEnds(r, "export_data", outcome)
     ELSE UNCHANGED << st, token >>
  /\ UNCHANGED << database, conf >>

CleanUp(r) ==
  /\ Runnable(r, "clean_up")
  /\ TaskEnds(r, "clean_up", "success")
  /\ UNCHANGED << database, conf, cursor, files >>

\* Broken: every DAG is activated, not only those of the table.
ActivateEveryDagOnFailure(r, outcome) ==
  /\ Runnable(r, "activate_dags_on_failure")
  /\ paused' = [d \in Dags |-> FALSE]
  /\ table' = NoTable
  /\ TaskEnds(r, "activate_dags_on_failure", outcome)
  /\ UNCHANGED << alive, selfPaused, ti, failRows, store, wish, conf, cursor,
                  files >>

\* activate_dags: the update and the drop commit together.  Without the table
\* the update is an error, which TaskFails covers.
ActivateDagsOnFailure(r, outcome) ==
  /\ Runnable(r, "activate_dags_on_failure")
  /\ table.exists
  /\ paused' = [d \in Dags |-> paused[d] /\ d \notin table.rows]
  /\ table' = NoTable
  /\ TaskEnds(r, "activate_dags_on_failure", outcome)
  /\ UNCHANGED << alive, selfPaused, ti, failRows, store, wish, conf, cursor,
                  files >>

\* send_task_success raises when nobody waits for the token any more.
NotifySuccess(r, outcome) ==
  /\ Runnable(r, "notify_success")
  /\ st' = [st EXCEPT ![r]["notify_success"] = outcome]
  /\ \/ /\ token[conf[r]] = "waiting"
        /\ token' = [token EXCEPT ![conf[r]] = "success"]
        /\ outcome = "failed" => "notify_success" \in Faulty
     \/ /\ token[conf[r]] # "waiting"
        /\ outcome = "failed"
        /\ UNCHANGED token
  /\ UNCHANGED << database, conf, cursor, files >>

\* The scheduler settles a task whose trigger rule cannot hold any more.
Propagate(r, t) ==
  /\ alive
  /\ conf[r] # NoToken
  /\ ~selfPaused
  /\ st[r][t] = "none"
  /\ \E state \in TaskStates :
       /\ SettledWithoutRun(st[r], Upstream(t), Rule(t), state)
       /\ st' = [st EXCEPT ![r][t] = state]
  /\ UNCHANGED << database, conf, cursor, files, token >>

-----------------------------------------------------------------------------
(***************************************************************************)
(* The environment's own life: scheduled work and its users.  A paused DAG *)
(* starts nothing, but what is running runs on.  A failed attempt leaves a *)
(* row in task_fail, whether or not it will be retried.                    *)
(***************************************************************************)
StartTask(d) ==
  /\ alive
  /\ ~paused[d]
  /\ ti[d] \in {"absent", "up_for_retry"}
  /\ ti' = [ti EXCEPT ![d] = "running"]
  /\ UNCHANGED << alive, paused, selfPaused, table, failRows, store, wish, conf,
                  st, cursor, files, token >>

EndTask(d, state) ==
  /\ alive
  /\ ti[d] = "running"
  /\ ti' = [ti EXCEPT ![d] = state]
  /\ failRows' = IF state = "success" THEN failRows ELSE failRows \cup {d}
  /\ UNCHANGED << alive, paused, selfPaused, table, store, wish, conf, st,
                  cursor, files, token >>

\* Before the active DAGs are backed up, a user's change belongs to the backup.
BackupAhead == \A r \in Runs : st[r]["back_up_activedags"] = "none"

UserToggles(d) ==
  /\ UserActive \/ BackupAhead
  /\ alive
  /\ paused' = [paused EXCEPT ![d] = ~@]
  /\ wish' = [wish EXCEPT ![d] = paused[d]]
  /\ UNCHANGED << alive, selfPaused, table, ti, failRows, store, conf, st,
                  cursor, files, token >>

-----------------------------------------------------------------------------
\* One step of task t of run r: executed, failed or settled by the scheduler.
TaskStep(r, t) ==
  \/ TaskFails(r, t)
  \/ Propagate(r, t)
  \/ \E outcome \in Outcomes :
       \/ t = "back_up_activedags" /\ BackUpActiveDags(r, outcome)
       \/ t = "pause_dags" /\ PauseDags(r, outcome)
       \/ t = "export_active_dags" /\ ExportActiveDags(r, outcome)
       \/ t = "export_variable" /\ ExportStore(r, "variable", outcome)
       \/ t = "export_connection" /\ ExportStore(r, "connection", outcome)
       \/ t = "export_data" /\ ExportTable(r, outcome)
       \/ t = "activate_dags_on_failure" /\ ActivateDagsOnFailure(r, outcome)
       \/ t = "notify_success" /\ NotifySuccess(r, outcome)
  \/ t = "clean_up" /\ CleanUp(r)

RunStep == \E r \in Runs, t \in Tasks : TaskStep(r, t)

WorkflowStep ==
  \E k \in Tokens :
    \/ EnterExport(k)
    \/ TokenExpires(k)
    \/ DeleteEnvironment(k)
    \/ \E r \in Runs : TriggerRun(r, k)

EnvironmentStep ==
  \/ \E d \in Working :
       StartTask(d) \/ \E s \in {"success", "failed", "up_for_retry"} : EndTask(d, s)
  \/ \E d \in Dags : UserToggles(d)

Next == RunStep \/ WorkflowStep \/ EnvironmentStep

Spec == Init /\ [][Next]_vars

\* Airflow's scheduler and workers keep handling the tasks of a run; users, the
\* triggers and the workflow owe nothing.
FairSpec ==
  Spec /\ \A r \in Runs, t \in Tasks : WF_vars(TaskStep(r, t))

-----------------------------------------------------------------------------
(***************************************************************************)
(* Properties.  SuccessMeansExported and AnsweredRunIsDone hold however    *)
(* many runs there are; the others are about one run of the DAG, alone in  *)
(* its environment, and fail with two, which share database and bucket.    *)
(***************************************************************************)

\* The token is answered with success only on behalf of a run whose tasks, the
\* four exports included, all succeeded: notify_success is behind clean_up.
SuccessMeansExported ==
  \A k \in Tokens : token[k] = "success" =>
    \E r \in Runs :
      /\ conf[r] = k
      /\ \A t \in ExportTasks \cup {"back_up_activedags", "pause_dags", "clean_up"} :
           st[r][t] = "success"

\* A run that has made its answer writes nothing more, so that the deletion that
\* may follow never cuts its own export in two.  Another run, of a repeated call or
\* of a second execution, may still be writing.
AnsweredRunIsDone ==
  [][\A f \in Files : files'[f] # files[f] =>
       st[files'[f].by]["notify_success"] \notin Outcomes]_vars

\* What success reports is a backup of its own: every object a restore needs was
\* written by the run that answered, none is left over from an earlier pause.
BackupOfOneRun ==
  \A k \in Tokens : token[k] = "success" =>
    \E r \in Runs :
      /\ conf[r] = k
      /\ \A f \in Files \ Stores : files[f] \in [by : {r}, rows : SUBSET Rows]

\* The DAGs the user had active are the ones the backup says to activate again.
ActiveDagsSaved ==
  (\E k \in Tokens : token[k] = "success") =>
    files["active_dags"].rows = {d \in Dags : wish[d]}

\* A restore inserts dag_run, then task_instance, then task_fail, each row
\* referring to one of the table before: the exported task instances belong to
\* exported DAG runs, although the tables were read one after the other.
TaskInstancesHaveRuns ==
  (\E k \in Tokens : token[k] = "success") =>
    files["task_instance"].rows \subseteq files["dag_run"].rows

\* A failed export that was undone leaves the environment as it was: exactly the
\* DAGs that were active are active.
UndoneExportRestoresDags ==
  (\E r \in Runs : st[r]["activate_dags_on_failure"] = "success") =>
    Active = {d \in Dags : wish[d]}

RunOver(r) == conf[r] # NoToken /\ \A t \in Tasks : st[r][t] # "none"

\* A run that is over leaves no DAG paused that was active, unless it reported
\* success or its compensating task failed too.
NoDagLeftPaused ==
  \A r \in Runs :
    RunOver(r) /\ token[conf[r]] # "success"
               /\ st[r]["activate_dags_on_failure"] # "failed" =>
      {d \in Dags : wish[d]} \subseteq Active

\* Once a task before clean_up failed, the compensating task is executed: the
\* scheduler carries the failure through to it.
FailureIsCompensated ==
  \A r \in Runs :
    (\E t \in ExportTasks \cup {"back_up_activedags", "pause_dags"} :
       st[r][t] = "failed")
      ~> st[r]["activate_dags_on_failure"] \in Outcomes

=============================================================================
