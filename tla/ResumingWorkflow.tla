-------------------------- MODULE ResumingWorkflow --------------------------
(***************************************************************************)
(* The resuming state machine (mwaa-resuming-stack.ts) around the import   *)
(* DAG and the polling state machine: read the stored details, create the  *)
(* environment, wait for the poller's answer, restore the metadata and     *)
(* wait for the DAG's answer, and perhaps update the environment.          *)
(*                                                                         *)
(* Execution k is named after its token, as in PausingWorkflow.  The       *)
(* environment is there from the moment a creation succeeds; an execution  *)
(* that comes second finds the name taken.                                 *)
(***************************************************************************)
EXTENDS MetadataImport

CONSTANTS
  Rescheduled, \* versions for which a second execution is explored
  FirstToken,  \* the token of the first one
  MayFail,     \* TRUE: calls to AWS services may fail, or their answer be lost
  TimingOut,   \* versions for which timeouts of the executions are explored
  UpdateAfterRestore

ASSUME ResumeAssumption ==
  /\ FirstToken \in Tokens
  /\ Rescheduled \subseteq Versions /\ TimingOut \subseteq Versions
  /\ {MayFail, UpdateAfterRestore} \subseteq BOOLEAN

VARIABLES
  exec,     \* the state each execution is in
  stored,   \* environment-backup.json is in the backup bucket
  creator,  \* the execution whose call created the environment, or NoToken
  env,      \* what GetEnvironment says of the environment
  poll, complete, told  \* the polling executions

pollVars == << poll, complete, told >>
workflowVars == << exec, stored, creator, env, pollVars >>
resumeVars == << importVars, workflowVars >>

Poller == INSTANCE StatusPoller
            WITH Polls <- Tokens, Command <- "checkCreated", MayTimeOut <- TRUE

InProgress == {"retrieve", "create", "confirm", "restore", "update"}
ExecStates == {"none", "succeeded", "failed", "timed_out"} \cup InProgress

ResumeTypeOK ==
  /\ ImportTypeOK
  /\ exec \in [Tokens -> ExecStates]
  /\ stored \in BOOLEAN
  /\ creator \in Tokens \cup {NoToken}
  /\ Poller!TypeOK

ResumeInit ==
  /\ ImportInit
  /\ exec = [k \in Tokens |-> "none"]
  /\ stored \in BOOLEAN
  /\ creator = NoToken
  /\ env = "NotFound"
  /\ Poller!InitPolls

Transition(k, from, to) ==
  /\ exec[k] = from
  /\ exec' = [exec EXCEPT ![k] = to]

-----------------------------------------------------------------------------
(***************************************************************************)
(* The states of an execution, in order; an error of a call ends it.       *)
(***************************************************************************)
StartExecution(k) ==
  /\ k = FirstToken \/ version \in Rescheduled
  /\ Transition(k, "none", "retrieve")
  /\ UNCHANGED << importVars, stored, creator, env, pollVars >>

RetrieveDetails(k) ==
  /\ \/ stored /\ Transition(k, "retrieve", "create")
     \/ (~stored \/ MayFail) /\ Transition(k, "retrieve", "failed")
  /\ UNCHANGED << importVars, stored, creator, env, pollVars >>

\* Broken: that the environment exists already is not an error.
CreateEnvironmentIfMissing(k) ==
  /\ Transition(k, "create", "confirm")
  /\ creator' = IF creator = NoToken THEN k ELSE creator
  /\ env' = IF env = "NotFound" THEN "CREATING" ELSE env
  /\ UNCHANGED << importVars, stored, pollVars >>

\* CreateEnvironment is refused while there is an environment of that name.
CreateEnvironment(k) ==
  /\ \/ /\ env = "NotFound" /\ creator = NoToken
        /\ creator' = k
        /\ env' = "CREATING"
        /\ \/ Transition(k, "create", "confirm")
           \/ MayFail /\ Transition(k, "create", "failed")
     \/ /\ creator # NoToken \/ MayFail
        /\ Transition(k, "create", "failed")
        /\ UNCHANGED << creator, env >>
  /\ UNCHANGED << importVars, stored, pollVars >>

\* Broken: the metadata is restored while the environment is being created.
ConfirmCreationAtOnce(k) ==
  /\ Transition(k, "confirm", "restore")
  /\ EnterImport(k)
  /\ UNCHANGED << stored, creator, env, pollVars >>

\* The call that starts the poller may fail.  When only its answer is lost, the
\* execution ends with a poller nobody waits for, as after a timeout.
ConfirmCreation(k) ==
  /\ \/ /\ exec[k] = "confirm"
        /\ Poller!StartPolling(k)
        /\ UNCHANGED << importVars, exec >>
     \/ /\ told[k] = "success"
        /\ Transition(k, "confirm", "restore")
        /\ EnterImport(k)
        /\ UNCHANGED << env, pollVars >>
     \/ /\ MayFail
        /\ poll[k] = "idle"
        /\ Transition(k, "confirm", "failed")
        /\ UNCHANGED << importVars, env, pollVars >>
  /\ UNCHANGED << stored, creator >>

\* The dag trigger Lambda of the execution, invoked again after an exception.
TriggerImport(r, k) ==
  /\ MayFail \/ exec[k] = "restore"
  /\ TriggerRun(r, k)
  /\ MayFail \/ ~selfPaused'
  /\ UNCHANGED workflowVars

\* The Lambda failed: also when the DAG is not known to the scheduler yet.
TriggerFails(k) ==
  /\ MayFail
  /\ Transition(k, "restore", "failed")
  /\ TokenExpires(k)
  /\ UNCHANGED << stored, creator, env, pollVars >>

Restored == IF UpdateAfterRestore THEN "update" ELSE "succeeded"

ImportAnswered(k) ==
  /\ \/ token[k] = "success" /\ Transition(k, "restore", Restored)
     \/ token[k] = "failure" /\ Transition(k, "restore", "failed")
  /\ UNCHANGED << importVars, stored, creator, env, pollVars >>

\* "Update environment" ends when the call is accepted; the update itself
\* (UPDATING, then AVAILABLE) is after the last state of the workflow.
UpdateEnvironment(k) ==
  /\ \/ Transition(k, "update", "succeeded")
     \/ MayFail /\ Transition(k, "update", "failed")
  /\ UNCHANGED << importVars, stored, creator, env, pollVars >>

TimeOut(k) ==
  /\ version \in TimingOut
  /\ \E from \in InProgress : Transition(k, from, "timed_out")
  /\ IF token[k] = "waiting" THEN TokenExpires(k) ELSE UNCHANGED importVars
  /\ IF told[k] = "waiting" THEN Poller!ParentTimesOut(k)
                            ELSE UNCHANGED << env, pollVars >>
  /\ UNCHANGED << stored, creator >>

ExecutionStep(k) ==
  \/ RetrieveDetails(k)
  \/ CreateEnvironment(k)
  \/ ConfirmCreation(k)
  \/ ImportAnswered(k)
  \/ UpdateEnvironment(k)

-----------------------------------------------------------------------------
PollerStep(k) ==
  /\ Poller!PollStep(k)
  /\ UNCHANGED << importVars, exec, stored, creator >>

PollerTimesOut(k) ==
  /\ version \in TimingOut
  /\ Poller!PollTimesOut(k)
  /\ UNCHANGED << importVars, exec, stored, creator >>

\* Airflow works once the environment is there.
AirflowStep ==
  /\ env = "AVAILABLE"
  /\ RunStep
  /\ UNCHANGED workflowVars

SchedulerRegisters(d) ==
  /\ env = "AVAILABLE"
  /\ Register(d)
  /\ UNCHANGED workflowVars

\* MWAA creates the environment it was asked for, or fails to.
MwaaCreates ==
  /\ env = "CREATING"
  /\ Poller!Mwaa
  /\ env' = "CREATE_FAILED" => MayFail
  /\ UNCHANGED << importVars, exec, stored, creator >>

ResumeNext ==
  \/ \E k \in Tokens :
       \/ StartExecution(k)
       \/ ExecutionStep(k)
       \/ TriggerFails(k)
       \/ TimeOut(k)
       \/ PollerStep(k)
       \/ PollerTimesOut(k)
       \/ \E r \in Runs : TriggerImport(r, k)
  \/ AirflowStep
  \/ MwaaCreates
  \/ \E d \in Dags : SchedulerRegisters(d)

ResumeSpec == ResumeInit /\ [][ResumeNext]_resumeVars

-----------------------------------------------------------------------------
\* An execution calls itself succeeded only when it created the environment, the
\* environment is available, and everything in the bucket was put back.
SuccessMeansResumed ==
  \A k \in Tokens :
    exec[k] = "succeeded" =>
      creator = k /\ env = "AVAILABLE" /\ SuccessMeansRestored /\ token[k] = "success"

\* An import is triggered only in an environment that was made for it: never in
\* one another execution restored, where its rows would meet those already there.
ImportInOwnEnvironment ==
  \A r \in Runs : conf[r] # NoToken => env = "AVAILABLE" /\ creator = conf[r]

\* The workflow uses the polling executions as their specification allows.
ImplementsPoller == Poller!Spec

=============================================================================
