--------------------------- MODULE PausingWorkflow ---------------------------
(***************************************************************************)
(* The pausing state machine (mwaa-pausing-stack.ts) around the export DAG *)
(* and the polling state machine: read the environment's details, store    *)
(* them in the backup bucket, export the metadata and wait for the DAG's   *)
(* answer, delete the environment, and wait for the poller's answer.       *)
(*                                                                         *)
(* Execution k of the state machine is named after the task token it hands *)
(* to the export DAG, an element of Tokens; it is also the name of its     *)
(* polling execution.  EventBridge Scheduler starts executions at least    *)
(* once, so two of them can be in progress together.                       *)
(***************************************************************************)
EXTENDS MetadataExport

CONSTANTS
  Configs,    \* configurations an environment may have
  NoDetails,  \* the environment-backup.json of a bucket without one
  MayFail,    \* TRUE: calls to AWS services may fail, or their answer be lost
  MayTimeOut  \* TRUE: executions may time out

ASSUME WorkflowAssumption ==
  /\ NoDetails \notin Configs
  /\ MayFail \in BOOLEAN
  /\ MayTimeOut \in BOOLEAN

VARIABLES
  exec,      \* the state each execution is in
  config,    \* the environment's configuration
  read,      \* the configuration each execution read
  details,   \* environment-backup.json in the backup bucket
  env,       \* what GetEnvironment says of the environment
  poll, complete, told  \* the polling executions

pollVars == << poll, complete, told >>
workflowVars == << exec, config, read, details, env, pollVars >>
pauseVars == << vars, workflowVars >>

Poller == INSTANCE StatusPoller WITH Polls <- Tokens, Command <- "checkDeleted"

InProgress == {"get_environment", "store_details", "export", "delete", "confirm"}
ExecStates == {"none", "succeeded", "failed", "timed_out"} \cup InProgress

\* MWAA has accepted the deletion of the environment.
Doomed == {"DELETING", "DELETED", "NotFound"}

PauseTypeOK ==
  /\ TypeOK
  /\ Poller!TypeOK
  /\ exec \in [Tokens -> ExecStates]
  /\ config \in Configs
  /\ read \in [Tokens -> Configs \cup {NoDetails}]
  /\ details \in Configs \cup {NoDetails}

PauseInit ==
  /\ Init
  /\ exec = [k \in Tokens |-> "none"]
  /\ config \in Configs
  /\ read = [k \in Tokens |-> NoDetails]
  /\ details \in Configs \cup {NoDetails}
  /\ env = "AVAILABLE"
  /\ Poller!InitPolls

Transition(k, from, to) ==
  /\ exec[k] = from
  /\ exec' = [exec EXCEPT ![k] = to]

-----------------------------------------------------------------------------
(***************************************************************************)
(* The states of an execution, in order.  Nothing is caught: an error of a *)
(* call ends the execution.                                                *)
(***************************************************************************)
StartExecution(k) ==
  /\ Transition(k, "none", "get_environment")
  /\ UNCHANGED << vars, config, read, details, env, pollVars >>

\* "Get environment details" and the choice on the status it returned.
GetEnvironment(k) ==
  /\ \/ /\ env = "AVAILABLE"
        /\ Transition(k, "get_environment", "store_details")
        /\ read' = [read EXCEPT ![k] = config]
     \/ /\ env # "AVAILABLE" \/ MayFail
        /\ Transition(k, "get_environment", "failed")
        /\ UNCHANGED read
  /\ UNCHANGED << vars, config, details, env, pollVars >>

\* Broken: details that are already stored are kept.
StoreDetailsOnce(k) ==
  /\ Transition(k, "store_details", "export")
  /\ details' = IF details = NoDetails THEN read[k] ELSE details
  /\ EnterExport(k)
  /\ UNCHANGED << config, read, env, pollVars >>

\* The object is replaced by what was read; the next state starts to wait.
StoreDetails(k) ==
  /\ \/ /\ Transition(k, "store_details", "export")
        /\ details' = read[k]
        /\ EnterExport(k)
     \/ /\ MayFail
        /\ Transition(k, "store_details", "failed")
        /\ details' \in {details, read[k]}
        /\ UNCHANGED vars
  /\ UNCHANGED << config, read, env, pollVars >>

\* The dag trigger Lambda of the execution.  A service exception makes Step
\* Functions invoke it again, and an invocation may outlive the execution.
TriggerExport(r, k) ==
  /\ MayFail \/ (exec[k] = "export" /\ \A q \in Runs : conf[q] # k)
  /\ TriggerRun(r, k)
  /\ MayFail \/ ~selfPaused'
  /\ UNCHANGED workflowVars

\* Broken: the error leads to a state the machine does not have.
TriggerFailsMisnamed(k) ==
  /\ MayFail
  /\ Transition(k, "export", "error")
  /\ TokenExpires(k)
  /\ UNCHANGED << config, read, details, env, pollVars >>

\* Broken: the error is caught and the execution goes on.
TriggerFailsCaught(k) ==
  /\ MayFail
  /\ Transition(k, "export", "delete")
  /\ TokenExpires(k)
  /\ UNCHANGED << config, read, details, env, pollVars >>

\* The Lambda failed, before or after it created a run.
TriggerFails(k) ==
  /\ MayFail
  /\ Transition(k, "export", "failed")
  /\ TokenExpires(k)
  /\ UNCHANGED << config, read, details, env, pollVars >>

\* Broken: any answer of the DAG leads to the deletion.
ExportAnsweredAnyhow(k) ==
  /\ token[k] \in {"success", "failure"}
  /\ Transition(k, "export", "delete")
  /\ UNCHANGED << vars, config, read, details, env, pollVars >>

ExportAnswered(k) ==
  /\ \/ token[k] = "success" /\ Transition(k, "export", "delete")
     \/ token[k] = "failure" /\ Transition(k, "export", "failed")
  /\ UNCHANGED << vars, config, read, details, env, pollVars >>

\* MWAA accepts the deletion of an available environment and no other.  When
\* the answer is lost, the execution fails although the deletion goes ahead.
CallDelete(k) ==
  /\ \/ /\ env = "AVAILABLE"
        /\ env' = "DELETING"
        /\ \/ Transition(k, "delete", "confirm")
           \/ MayFail /\ Transition(k, "delete", "failed")
     \/ /\ env # "AVAILABLE" \/ MayFail
        /\ Transition(k, "delete", "failed")
        /\ UNCHANGED env
  /\ UNCHANGED << vars, config, read, details, pollVars >>

\* The call that starts the poller may fail.  When only its answer is lost, the
\* execution ends with a poller nobody waits for, as after a timeout.
ConfirmDeletion(k) ==
  /\ \/ /\ exec[k] = "confirm"
        /\ Poller!StartPolling(k)
        /\ UNCHANGED exec
     \/ /\ told[k] = "success"
        /\ Transition(k, "confirm", "succeeded")
        /\ UNCHANGED << env, pollVars >>
     \/ /\ MayFail
        /\ poll[k] = "idle"
        /\ Transition(k, "confirm", "failed")
        /\ UNCHANGED << env, pollVars >>
  /\ UNCHANGED << vars, config, read, details >>

\* Nobody waits for the tokens of an execution that timed out.
TimeOut(k) ==
  /\ MayTimeOut
  /\ \E from \in InProgress : Transition(k, from, "timed_out")
  /\ IF token[k] = "waiting" THEN TokenExpires(k) ELSE UNCHANGED vars
  /\ IF told[k] = "waiting" THEN Poller!ParentTimesOut(k)
                            ELSE UNCHANGED << env, pollVars >>
  /\ UNCHANGED << config, read, details >>

ExecutionStep(k) ==
  \/ GetEnvironment(k)
  \/ StoreDetails(k)
  \/ ExportAnswered(k)
  \/ CallDelete(k)
  \/ ConfirmDeletion(k)

-----------------------------------------------------------------------------
(***************************************************************************)
(* What goes on beside the executions.  Airflow works until the            *)
(* environment is gone; a user's update of the configuration passes        *)
(* through UPDATING.                                                       *)
(***************************************************************************)
PollerStep(k) ==
  /\ Poller!PollStep(k)
  /\ UNCHANGED << vars, exec, config, read, details >>

PollerTimesOut(k) ==
  /\ Poller!PollTimesOut(k)
  /\ UNCHANGED << vars, exec, config, read, details >>

AirflowStep ==
  /\ RunStep \/ EnvironmentStep
  /\ UNCHANGED workflowVars

MwaaDeletes ==
  /\ env \in Doomed
  /\ Poller!Mwaa
  /\ alive' = FALSE
  /\ UNCHANGED << paused, selfPaused, table, ti, failRows, store, conf, st, cursor,
                  files, token, wish, exec, config, read, details >>

UserUpdates ==
  /\ UserActive
  /\ \/ env = "AVAILABLE" /\ env' = "UPDATING" /\ config' \in Configs
     \/ env = "UPDATING" /\ env' = "AVAILABLE" /\ UNCHANGED config
  /\ UNCHANGED << vars, exec, read, details, pollVars >>

PauseNext ==
  \/ \E k \in Tokens :
       \/ StartExecution(k)
       \/ ExecutionStep(k)
       \/ TriggerFails(k)
       \/ TimeOut(k)
       \/ PollerStep(k)
       \/ PollerTimesOut(k)
       \/ \E r \in Runs : TriggerExport(r, k)
  \/ AirflowStep
  \/ MwaaDeletes
  \/ UserUpdates

PauseSpec == PauseInit /\ [][PauseNext]_pauseVars

\* Step Functions runs every execution, Lambda the trigger and Airflow the tasks;
\* MWAA completes a deletion.
PauseFairSpec ==
  /\ PauseSpec
  /\ \A k \in Tokens :
       /\ WF_pauseVars(ExecutionStep(k))
       /\ WF_pauseVars(PollerStep(k))
       /\ WF_pauseVars(\E r \in Runs : TriggerExport(r, k))
  /\ WF_pauseVars(RunStep /\ UNCHANGED workflowVars)
  /\ WF_pauseVars(MwaaDeletes)

-----------------------------------------------------------------------------
\* The environment is deleted only when an export has reported success for an
\* execution that stored the details: the environment can be created again.
DeletedMeansExported ==
  env \in Doomed =>
    \E k \in Tokens : token[k] = "success" /\ read[k] # NoDetails

\* Every table a restore needs, and the list of active DAGs, is in the bucket by the
\* time the environment is deleted, and is of this pause or of one that overlaps it:
\* nothing is missing or left over from an earlier pause, whichever run wrote last.
DeletedMeansBackedUp ==
  env \in Doomed =>
    \A f \in Files \ Stores : files[f] \in [by : Runs, rows : SUBSET Rows]

\* The details in the bucket are those of the environment that is deleted, not
\* of an earlier one.
DetailsSaved == env \in Doomed => details = config

\* An execution succeeds only once the environment is gone.
SucceededMeansGone ==
  \A k \in Tokens : exec[k] = "succeeded" => env \in {"DELETED", "NotFound"}

\* Nothing of the workflow takes the export DAG by surprise: what the workflow
\* does to the environment and to the tokens, the export's specification allows,
\* and in particular the environment goes only after an answer of success.
ImplementsExport == Spec

\* The polling executions, which share the environment's status with the workflow
\* and its users, do what the poller's specification says.
ImplementsPoller == Poller!Spec

\* With no failure and no timeout, an execution that starts pauses the
\* environment: the three state machines, the DAG and MWAA do not wait for one
\* another in a circle.
PauseCompletes ==
  \A k \in Tokens : exec[k] = "get_environment" ~> exec[k] = "succeeded"

=============================================================================
