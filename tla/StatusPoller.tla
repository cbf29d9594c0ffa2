---------------------------- MODULE StatusPoller ----------------------------
(***************************************************************************)
(* The polling state machine (mwaa-polling-stack.ts) and the Lambda it     *)
(* calls (mwaa-status-poller.ts).  The pausing and the resuming workflow   *)
(* start one polling execution each and wait on a task token; the polling  *)
(* execution only ever answers it with success.                            *)
(***************************************************************************)
EXTENDS Naturals

CONSTANTS
  Polls,      \* polling executions, each with the token of its parent
  Command,    \* what they were started with: "checkCreated" or "checkDeleted"
  MayFail,    \* TRUE: the GetEnvironment call of the Lambda may fail
  MayTimeOut  \* TRUE: the state machines' timeouts may strike

ASSUME PollerAssumption ==
  /\ Command \in {"checkCreated", "checkDeleted"}
  /\ MayFail \in BOOLEAN
  /\ MayTimeOut \in BOOLEAN

VARIABLES
  env,      \* what GetEnvironment says of the environment
  poll,     \* state of each polling execution
  complete, \* payload of its last GetStatus
  told      \* state of the parent's token

vars == << env, poll, complete, told >>

\* "NotFound" is the ResourceNotFoundException of an environment that does not
\* exist (yet, or any more).
Statuses ==
  {"NotFound", "CREATING", "CREATE_FAILED", "AVAILABLE", "UPDATING", "DELETING",
   "DELETED"}

Running == {"wait", "get_status", "check_status", "notify"}
PollStates == {"idle", "succeeded", "failed", "timed_out"} \cup Running
ToldStates == {"none", "waiting", "success", "expired"}

TypeOK ==
  /\ env \in Statuses
  /\ poll \in [Polls -> PollStates]
  /\ complete \in [Polls -> BOOLEAN]
  /\ told \in [Polls -> ToldStates]

\* Broken: an environment that exists counts as created.
CompleteOnceVisible(command) == Statuses \ {"NotFound"}

\* Broken: an environment counts as deleted once its deletion is accepted.
CompleteOnceDeleting(command) == {"DELETING", "DELETED", "NotFound"}

\* Broken: checkDeleted swallows the exception, as checkCreated does.
CompleteByStatusOnly(command) ==
  IF command = "checkCreated" THEN {"AVAILABLE"} ELSE {"DELETED"}

\* The statuses the two Lambda commands call complete: checkCreated swallows
\* the exception, checkDeleted takes it for the answer.
CompleteStatuses(command) ==
  IF command = "checkCreated" THEN {"AVAILABLE"} ELSE {"DELETED", "NotFound"}

InitPolls ==
  /\ poll = [p \in Polls |-> "idle"]
  /\ complete = [p \in Polls |-> FALSE]
  /\ told = [p \in Polls |-> "none"]

Goto(p, state) == poll' = [poll EXCEPT ![p] = state]

-----------------------------------------------------------------------------
\* The parent enters its "Confirm environment ..." state.
StartPolling(p) ==
  /\ poll[p] = "idle"
  /\ Goto(p, "wait")
  /\ told' = [told EXCEPT ![p] = "waiting"]
  /\ UNCHANGED << env, complete >>

Wait(p) ==
  /\ poll[p] = "wait"
  /\ Goto(p, "get_status")
  /\ UNCHANGED << env, complete, told >>

\* Any other error of GetEnvironment is thrown, and nothing catches it.
GetStatus(p) ==
  /\ poll[p] = "get_status"
  /\ \/ /\ complete' = [complete EXCEPT ![p] = env \in CompleteStatuses(Command)]
        /\ Goto(p, "check_status")
     \/ /\ MayFail
        /\ Goto(p, "failed")
        /\ UNCHANGED complete
  /\ UNCHANGED << env, told >>

\* Broken: the choice names a state the machine does not have.
CheckStatusMisnamed(p) ==
  /\ poll[p] = "check_status"
  /\ Goto(p, IF complete[p] THEN "success" ELSE "wait")
  /\ UNCHANGED << env, complete, told >>

CheckStatus(p) ==
  /\ poll[p] = "check_status"
  /\ Goto(p, IF complete[p] THEN "notify" ELSE "wait")
  /\ UNCHANGED << env, complete, told >>

\* Broken: the execution succeeds without sending the token back.
SuccessNotificationDropped(p) ==
  /\ poll[p] = "notify"
  /\ Goto(p, "succeeded")
  /\ UNCHANGED << env, complete, told >>

\* SendTaskSuccess on the token of a parent that has ended is an error.
SuccessNotification(p) ==
  /\ poll[p] = "notify"
  /\ IF told[p] = "waiting"
     THEN Goto(p, "succeeded") /\ told' = [told EXCEPT ![p] = "success"]
     ELSE Goto(p, "failed") /\ UNCHANGED told
  /\ UNCHANGED << env, complete >>

PollTimesOut(p) ==
  /\ MayTimeOut
  /\ poll[p] \in Running
  /\ Goto(p, "timed_out")
  /\ UNCHANGED << env, complete, told >>

ParentTimesOut(p) ==
  /\ MayTimeOut
  /\ told[p] = "waiting"
  /\ told' = [told EXCEPT ![p] = "expired"]
  /\ UNCHANGED << env, poll, complete >>

PollStep(p) ==
  Wait(p) \/ GetStatus(p) \/ CheckStatus(p) \/ SuccessNotification(p)

-----------------------------------------------------------------------------
(***************************************************************************)
(* Amazon MWAA carries out the operation the parent has just requested;    *)
(* its effect need not be visible at once.  An environment that waits for  *)
(* its deletion may be updated before the deletion starts.                 *)
(***************************************************************************)
Life ==
  {<< "NotFound", "CREATING" >>, << "CREATING", "AVAILABLE" >>,
   << "CREATING", "CREATE_FAILED" >>}

Death ==
  {<< "AVAILABLE", "UPDATING" >>, << "UPDATING", "AVAILABLE" >>,
   << "AVAILABLE", "DELETING" >>, << "DELETING", "DELETED" >>,
   << "DELETING", "NotFound" >>, << "DELETED", "NotFound" >>}

Mwaa ==
  /\ \E s \in Statuses :
       /\ << env, s >> \in IF Command = "checkCreated" THEN Life ELSE Death
       /\ env' = s
  /\ UNCHANGED << poll, complete, told >>

Init ==
  /\ env = IF Command = "checkCreated" THEN "NotFound" ELSE "AVAILABLE"
  /\ InitPolls

Next ==
  \/ Mwaa
  \/ \E p \in Polls :
       StartPolling(p) \/ PollStep(p) \/ PollTimesOut(p) \/ ParentTimesOut(p)

Spec == Init /\ [][Next]_vars

\* MWAA works on, and Step Functions runs each execution; the scheduler alone
\* decides when executions start, and timeouts owe nothing.
FairSpec ==
  /\ Spec
  /\ WF_vars(Mwaa)
  /\ \A p \in Polls : WF_vars(PollStep(p))

-----------------------------------------------------------------------------
\* What the parent is waiting for.
Awaited ==
  IF Command = "checkCreated" THEN {"AVAILABLE"} ELSE {"DELETED", "NotFound"}

\* A parent is told "success" only when the environment is in the state it asked
\* for, and it still is: an answer built on an older poll, or on an exception
\* read the wrong way round, would let the workflow use an environment that is
\* not there, or call a pause finished that is not.
ToldTruth ==
  \A p \in Polls : told[p] = "success" => env \in Awaited

\* The parent's token is answered by a polling execution that then stops: no
\* execution goes on polling for an answered parent.
AnsweredPollIsOver ==
  \A p \in Polls : told[p] = "success" => poll[p] = "succeeded"

\* Once the environment is in the awaited state every running poll tells its
\* parent, unless it failed, or one of the two timed out.
CompletionIsTold ==
  \A p \in Polls :
    poll[p] \in Running /\ env \in Awaited
      ~> told[p] \in {"success", "expired"} \/ poll[p] \in {"failed", "timed_out"}

=============================================================================
