--------------------------- MODULE MetadataImport ---------------------------
(***************************************************************************)
(* The mwaa_import_data DAG of every Airflow version (mwaairflow/assets/   *)
(* dags/<version>) in a newly created environment: it pauses the DAGs the  *)
(* scheduler knows so far, copies the objects of the backup bucket into    *)
(* the metadata tables, activates the DAGs that were active before and     *)
(* answers the task token it was triggered with.  The code of its tasks is *)
(* the same in all versions.                                               *)
(***************************************************************************)
EXTENDS AirflowVersions, AirflowDag

CONSTANTS
  Versions,   \* the Airflow versions an environment may have
  Doubled,    \* those for which a second invocation of the Lambda is explored
  Dags,       \* the user's DAGs
  Late,       \* those of them the scheduler parses late
  ActiveDags, \* which of them may have been active at the pause
  Runs,       \* possible runs of mwaa_import_data
  FirstRun,   \* the run the first invocation creates
  Tokens,     \* task tokens, one per visit of "Restore metadata"
  NoToken,
  Faulty      \* tasks that may fail

ASSUME ImportAssumption ==
  /\ Versions \subseteq AllVersions /\ Doubled \subseteq Versions
  /\ FirstRun \in Runs
  /\ NoToken \notin Tokens
  /\ ActiveDags \subseteq SUBSET Dags

VARIABLES
  version,   \* the version of the environment
  files,     \* objects under data/ that exist and have a row
  active,    \* the DAGs active_dags.csv lists
  dangling,  \* exported tables some row of which refers to a row that is not
             \* exported: a deferred task instance, a failure of a task to retry
  dag,       \* the dag table: "unknown" to the scheduler yet, "paused", "active"
  selfPaused, \* dag.is_paused of mwaa_import_data
  db,        \* db[t]: how many times table t holds the rows of its object
  store,     \* the variables and connections restored
  table,     \* user DAGs in the active_dags table
  refused,   \* history: tables that refused rows because of what they refer to
  st,        \* st[r][t]: state of task t in run r
  copied,    \* runs whose activate_dags has filled the table
  conf,      \* task token in the configuration of each run
  token      \* how Step Functions regards each task token

database == << dag, selfPaused, db, store, table, refused >>
backup == << version, files, active, dangling >>
importVars == << backup, database, st, copied, conf, token >>

Tasks == UNION {TasksOf[v] : v \in Versions}
Upstream(t) == UpstreamOf[version][t]
Tables == {ObjectOf(t) : t \in Tasks} \ {"pause_dags", "variable", "connection",
                                        "activate_dags", "notify_success"}
Stores == {"variable", "connection"}

ImportTypeOK ==
  /\ version \in Versions
  /\ files \subseteq Exported(version)
  /\ active \subseteq Dags
  /\ dangling \subseteq {"task_instance", "task_fail"}
  /\ dag \in [Dags -> {"unknown", "paused", "active"}]
  /\ selfPaused \in BOOLEAN
  /\ db \in [Tables -> Nat]
  /\ store \subseteq Stores
  /\ table \subseteq Dags
  /\ refused \subseteq Tables
  /\ st \in [Runs -> [Tasks -> TaskStates]]
  /\ copied \subseteq Runs
  /\ conf \in [Runs -> Tokens \cup {NoToken}]
  /\ token \in [Tokens -> {"idle", "waiting", "success", "failure", "expired"}]

\* Task instances with a trigger, and task failures that refer to a task
\* instance, are of later versions.
MayDangle(v) ==
  {t \in {"task_instance", "task_fail"} :
     \/ t = "task_instance" /\ v \notin Untriggered
     \/ t = "task_fail" /\ v \notin Datasetless}

ImportInit ==
  /\ version \in Versions
  /\ files \in {Exported(version), {}}
  /\ active \in ActiveDags
  /\ active # {} => "active_dags" \in files
  /\ dangling \in {{}, MayDangle(version) \cap files}
  /\ dag = [d \in Dags |-> IF d \in Late THEN "unknown" ELSE "paused"]
  /\ selfPaused = TRUE
  /\ db = [t \in Tables |-> 0]
  /\ store = {} /\ table = {} /\ refused = {} /\ copied = {}
  /\ st = [r \in Runs |-> [t \in Tasks |-> "none"]]
  /\ conf = [r \in Runs |-> NoToken]
  /\ token = [k \in Tokens |-> "idle"]

-----------------------------------------------------------------------------
(***************************************************************************)
(* Step Functions and the scheduler around the DAG.                        *)
(***************************************************************************)
EnterImport(k) ==
  /\ token[k] = "idle"
  /\ token' = [token EXCEPT ![k] = "waiting"]
  /\ UNCHANGED << backup, database, st, copied, conf >>

\* The dag trigger Lambda, whose unpause may fail without stopping it.
TriggerRun(r, k) ==
  /\ conf[r] = NoToken
  /\ r = FirstRun \/ (version \in Doubled /\ conf[FirstRun] # NoToken)
  /\ token[k] # "idle"
  /\ conf' = [conf EXCEPT ![r] = k]
  /\ selfPaused' \in {selfPaused, FALSE}
  /\ UNCHANGED << backup, dag, db, store, table, refused, st, copied, token >>

TokenExpires(k) ==
  /\ token[k] = "waiting"
  /\ token' = [token EXCEPT ![k] = "expired"]
  /\ UNCHANGED << backup, database, st, copied, conf >>

\* The scheduler of the new environment parses the DAG files one after the
\* other; a DAG is paused at its creation.
Register(d) ==
  /\ dag[d] = "unknown"
  /\ dag' = [dag EXCEPT ![d] = "paused"]
  /\ UNCHANGED << backup, selfPaused, db, store, table, refused, st, copied, conf,
                  token >>

-----------------------------------------------------------------------------
(***************************************************************************)
(* The tasks.  As in the export, an effect that is committed does not keep *)
(* a task from failing, and TaskFails is a failure without effect.         *)
(***************************************************************************)
Runnable(r, t) ==
  /\ conf[r] # NoToken
  /\ ~selfPaused
  /\ t \in TasksOf[version]
  /\ st[r][t] = "none"
  /\ MayStart(st[r], Upstream(t), "all_success")

\* Broken: default_args names no on_failure_callback.
NotifyFailureNever(r) == UNCHANGED token

\* on_failure_callback, which may itself fail.
NotifyFailure(r) ==
  token' \in IF token[conf[r]] = "waiting"
             THEN {[token EXCEPT ![conf[r]] = "failure"]} \cup
                  IF "notify_failure" \in Faulty THEN {token} ELSE {}
             ELSE {token}

TaskEnds(r, t, outcome) ==
  /\ st' = [st EXCEPT ![r][t] = outcome]
  /\ IF outcome = "failed" THEN NotifyFailure(r) ELSE UNCHANGED token

MayEnd(t) == {"success"} \cup IF t \in Faulty THEN {"failed"} ELSE {}

TaskFails(r, t) ==
  /\ Runnable(r, t) /\ t \in Faulty
  /\ TaskEnds(r, t, "failed")
  /\ UNCHANGED << backup, database, copied, conf >>

PauseDags(r) ==
  /\ Runnable(r, "pause_dags")
  /\ dag' = [d \in Dags |-> IF dag[d] = "unknown" THEN "unknown" ELSE "paused"]
  /\ \E o \in MayEnd("pause_dags") : TaskEnds(r, "pause_dags", o)
  /\ UNCHANGED << backup, selfPaused, db, store, table, refused, copied, conf >>

\* importVariable and importConnection leave out what is there already.
ImportStore(r, s) ==
  /\ Runnable(r, s)
  /\ store' = store \cup ({s} \cap files)
  /\ \E o \in MayEnd(s) : TaskEnds(r, s, o)
  /\ UNCHANGED << backup, dag, selfPaused, db, table, refused, copied, conf >>

\* Some row of t refers to a row that is not there.  The triggers get new
\* numbers, so that a deferred task instance may by accident refer to one.
Unmet(t) ==
  {u \in References(version, t) : u \in files /\ db[u] = 0}

Strays(t) ==
  IF t \notin dangling THEN {FALSE}
  ELSE IF t = "task_instance" /\ "trigger" \in Tables /\ db["trigger"] > 0
  THEN BOOLEAN ELSE {TRUE}

\* load_data: nothing to do without the object; else the rows are copied all
\* together, or refused because of a key they repeat or a row they refer to.
LoadData(r, t) ==
  LET f == ObjectOf(t) IN
  /\ Runnable(r, t) /\ f \in Tables
  /\ \/ /\ f \notin files
        /\ \E o \in MayEnd(t) : TaskEnds(r, t, o)
        /\ UNCHANGED << db, refused >>
     \/ /\ f \in files
        /\ \E stray \in Strays(f) :
             IF (f \in Keyed /\ db[f] > 0) \/ Unmet(f) # {} \/ stray
             THEN /\ TaskEnds(r, t, "failed")
                  /\ refused' = refused \cup IF Unmet(f) # {} THEN {f} ELSE {}
                  /\ UNCHANGED db
             ELSE /\ db' = [db EXCEPT ![f] = @ + 1]
                  /\ \E o \in MayEnd(t) : TaskEnds(r, t, o)
                  /\ UNCHANGED refused
  /\ UNCHANGED << backup, dag, selfPaused, store, table, copied, conf >>

\* activate_dags first adds the object's rows to the active_dags table, which it
\* creates if need be.  COPY takes the first line for a header: that of one of the
\* DAGs, or of mwaa_export_data, which was active when it made the list.
CopyActive(r) ==
  /\ Runnable(r, "activate_dags") /\ r \notin copied
  /\ "active_dags" \in files
  /\ \E header \in {{}} \cup {{d} : d \in active} :
       table' = table \cup (active \ header)
  /\ copied' = copied \cup {r}
  /\ UNCHANGED << backup, dag, selfPaused, db, store, refused, st, conf, token >>

\* Broken: every DAG is activated.
ActivateAll(r) ==
  /\ Runnable(r, "activate_dags")
  /\ r \in copied
  /\ dag' = [d \in Dags |-> IF dag[d] = "paused" THEN "active" ELSE dag[d]]
  /\ TaskEnds(r, "activate_dags", "success")
  /\ UNCHANGED << backup, selfPaused, db, store, table, refused, copied, conf >>

\* Then it updates the dag table, which knows the DAGs parsed so far.
ActivateDags(r) ==
  /\ Runnable(r, "activate_dags")
  /\ r \in copied \/ "active_dags" \notin files
  /\ dag' = [d \in Dags |->
               IF r \in copied /\ d \in table /\ dag[d] = "paused"
               THEN "active" ELSE dag[d]]
  /\ \E o \in MayEnd("activate_dags") : TaskEnds(r, "activate_dags", o)
  /\ UNCHANGED << backup, selfPaused, db, store, table, refused, copied, conf >>

\* Broken: the callback's state is reported whatever it was told before.
NotifyAnyhow(r) ==
  /\ Runnable(r, "notify_success")
  /\ token' = [token EXCEPT ![conf[r]] = "restored"]
  /\ st' = [st EXCEPT ![r]["notify_success"] = "success"]
  /\ UNCHANGED << backup, database, copied, conf >>

\* The answer is an error when nobody waits for the token any more.
NotifySuccess(r) ==
  /\ Runnable(r, "notify_success")
  /\ IF token[conf[r]] = "waiting"
     THEN /\ token' = [token EXCEPT ![conf[r]] = "success"]
          /\ \E o \in MayEnd("notify_success") :
               st' = [st EXCEPT ![r]["notify_success"] = o]
     ELSE TaskEnds(r, "notify_success", "failed")
  /\ UNCHANGED << backup, database, copied, conf >>

SettleTask(r, t) ==
  /\ conf[r] # NoToken /\ ~selfPaused
  /\ t \in TasksOf[version] /\ st[r][t] = "none"
  /\ \E s \in TaskStates :
       /\ SettledWithoutRun(st[r], Upstream(t), "all_success", s)
       /\ st' = [st EXCEPT ![r][t] = s]
  /\ UNCHANGED << backup, database, copied, conf, token >>

RunStep ==
  \E r \in Runs :
    \/ PauseDags(r) \/ CopyActive(r) \/ ActivateDags(r) \/ NotifySuccess(r)
    \/ \E s \in Stores : ImportStore(r, s)
    \/ \E t \in Tasks : LoadData(r, t) \/ TaskFails(r, t) \/ SettleTask(r, t)

-----------------------------------------------------------------------------
\* A token is answered with success only by an import that has put every object
\* it has a task for into its table, and the variables and connections into
\* theirs: whatever the version, and however its parallel tasks and a second
\* run of the Lambda interleave.
SuccessMeansRestored ==
  (\E k \in Tokens : token[k] = "success") =>
    /\ \A t \in Tables \cap files :
         (\E u \in TasksOf[version] : ObjectOf(u) = t) => db[t] > 0
    /\ Stores \cap files \subseteq store

\* The graph loads a table after those its rows refer to, so that no COPY is
\* refused because of the order.
LoadedInOrder == refused = {}

\* The scheduler finds no active DAG before the history it decides by is there:
\* a DAG without its runs would be run for every interval of its past.
HistoryFirst ==
  (\E d \in Dags : dag[d] = "active") =>
    \A t \in {"dag_run", "task_instance"} : t \in files => db[t] > 0

\* An import in which no task can start or be settled any more has answered its
\* token: no graph leaves a task waiting, and no way to fail is silent.  (The
\* callback itself is not among the faults of the run that checks this.)
FinishedMeansAnswered ==
  \A r \in Runs :
    /\ conf[r] # NoToken /\ ~selfPaused
    /\ \A t \in TasksOf[version] :
         st[r][t] = "none" =>
           /\ ~MayStart(st[r], Upstream(t), "all_success")
           /\ ~AnyFailed(st[r], Upstream(t))
    => token[conf[r]] # "waiting"

\* Only DAGs that were active when the environment was paused become active.
OnlyFormerlyActive == \A d \in Dags : dag[d] = "active" => d \in active

\* "rehydrate the MWAA environment by loading the data from the backup S3 bucket
\* restoring them back": a DAG that was active and is known is active again when
\* a single import has reported success.
FormerlyActiveAgain ==
  (\E k \in Tokens : token[k] = "success") =>
    \A d \in active : dag[d] # "paused"

=============================================================================
