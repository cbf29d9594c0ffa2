--------------------------- MODULE PausingProofs ---------------------------
(***************************************************************************)
(* Proofs about PausingWorkflow, for any number of executions of the state *)
(* machine and of runs of the export DAG, with every failure and timeout.  *)
(***************************************************************************)
EXTENDS PausingWorkflow, MetadataExportProofs

\* A token answered with success stays so, whatever the export's steps.
LEMMA SuccessStays ==
  ASSUME TypeOK, [Next]_vars, NEW k \in Tokens, token[k] = "success"
  PROVE  token'[k] = "success"
  <1>1. ASSUME NEW r \in Runs, NEW t \in Tasks, TaskStep(r, t)
        PROVE  token'[k] = "success"
    <2> USE DEF database, TaskEnds, NotifyFailure
    <2>1. CASE TaskFails(r, t)
      BY <2>1 DEF TaskFails, TypeOK
    <2>2. CASE Propagate(r, t)
      BY <2>2 DEF Propagate
    <2>3. ASSUME NEW outcome \in Outcomes,
                 \/ BackUpActiveDags(r, outcome)
                 \/ PauseDags(r, outcome)
                 \/ ExportActiveDags(r, outcome)
                 \/ ActivateDagsOnFailure(r, outcome)
          PROVE  token'[k] = "success"
      BY <2>3 DEF BackUpActiveDags, PauseDags, ExportActiveDags,
                  ActivateDagsOnFailure, TypeOK
    <2>4. ASSUME NEW outcome \in Outcomes, NEW s, ExportStore(r, s, outcome)
          PROVE  token'[k] = "success"
      BY <2>4 DEF ExportStore, TypeOK
    <2>5. ASSUME NEW outcome \in Outcomes, ExportTable(r, outcome)
          PROVE  token'[k] = "success"
      BY <2>5 DEF ExportTable, TypeOK
    <2>6. ASSUME NEW outcome \in Outcomes, NotifySuccess(r, outcome)
          PROVE  token'[k] = "success"
      BY <2>6 DEF NotifySuccess, TypeOK
    <2>7. CASE CleanUp(r)
      BY <2>7 DEF CleanUp
    <2> QED
      BY <1>1, <2>1, <2>2, <2>3, <2>4, <2>5, <2>6, <2>7 DEF TaskStep
  <1>2. CASE WorkflowStep
    <2>1. PICK j \in Tokens :
            \/ EnterExport(j)
            \/ TokenExpires(j)
            \/ DeleteEnvironment(j)
            \/ \E r \in Runs : TriggerRun(r, j)
      BY <1>2 DEF WorkflowStep
    <2> QED
      BY <2>1 DEF EnterExport, TokenExpires, DeleteEnvironment, TriggerRun, TypeOK
  <1>3. CASE EnvironmentStep
    BY <1>3 DEF EnvironmentStep, StartTask, EndTask, UserToggles
  <1>4. CASE UNCHANGED vars
    BY <1>4 DEF vars
  <1> QED BY <1>1, <1>2, <1>3, <1>4 DEF Next, RunStep

-----------------------------------------------------------------------------
(***************************************************************************)
(* The invariant.  An execution past "Export metadata" has its token       *)
(* answered with success; a deletion was requested by such an execution;   *)
(* and an execution that stores details, or has ever waited for the export,*)
(* has read them.                                                          *)
(***************************************************************************)
WorkflowTypeOK ==
  /\ exec \in [Tokens -> ExecStates]
  /\ config \in Configs
  /\ read \in [Tokens -> Configs \cup {NoDetails}]
  /\ details \in Configs \cup {NoDetails}

Exported == {"delete", "confirm", "succeeded"}

WorkflowInv ==
  /\ \A k \in Tokens : exec[k] \in Exported => token[k] = "success"
  /\ env \in Doomed => \E k \in Tokens : token[k] = "success"
  /\ \A k \in Tokens :
       token[k] # "idle" \/ exec[k] = "store_details" => read[k] # NoDetails

PauseInv == TypeOK /\ WorkflowTypeOK /\ WorkflowInv

LEMMA PauseInvInit == ASSUME PauseInit PROVE PauseInv
  <1>1. TypeOK
    BY TypeInit DEF PauseInit
  <1>2. WorkflowTypeOK
    BY DEF PauseInit, WorkflowTypeOK, ExecStates, InProgress
  <1>3. WorkflowInv
    BY DEF PauseInit, Init, WorkflowInv, Exported, Doomed
  <1> QED BY <1>1, <1>2, <1>3 DEF PauseInv

\* Every step of the composition is a step of the export's specification, or
\* leaves its state alone.
LEMMA StepRefines ==
  ASSUME PauseInv, [PauseNext]_pauseVars
  PROVE  [Next]_vars
  <1>1. ASSUME NEW k \in Tokens, ExecutionStep(k) PROVE [Next]_vars
    BY <1>1 DEF ExecutionStep, GetEnvironment, StoreDetails, ExportAnswered,
                CallDelete, ConfirmDeletion, Next, WorkflowStep
  <1>2. ASSUME NEW k \in Tokens, NEW r \in Runs, TriggerExport(r, k) PROVE [Next]_vars
    BY <1>2 DEF TriggerExport, Next, WorkflowStep
  <1>3. ASSUME NEW k \in Tokens, TriggerFails(k) \/ TimeOut(k) PROVE [Next]_vars
    BY <1>3 DEF TriggerFails, TimeOut, Next, WorkflowStep
  <1>4. ASSUME NEW k \in Tokens, StartExecution(k) \/ PollerStep(k) \/ PollerTimesOut(k)
        PROVE  [Next]_vars
    BY <1>4 DEF StartExecution, PollerStep, PollerTimesOut
  <1>5. CASE AirflowStep
    BY <1>5 DEF AirflowStep, Next
  <1>6. CASE MwaaDeletes
    <2>1. PICK k \in Tokens : token[k] = "success"
      BY <1>6 DEF MwaaDeletes, PauseInv, WorkflowInv
    <2>2. CASE alive
      BY <1>6, <2>1, <2>2 DEF MwaaDeletes, DeleteEnvironment, Next, WorkflowStep
    <2>3. CASE ~alive
      BY <1>6, <2>3 DEF MwaaDeletes, vars, PauseInv, TypeOK
    <2> QED BY <2>2, <2>3
  <1>7. CASE UserUpdates
    BY <1>7 DEF UserUpdates
  <1>8. CASE UNCHANGED pauseVars
    BY <1>8 DEF pauseVars
  <1> QED
    BY <1>1, <1>2, <1>3, <1>4, <1>5, <1>6, <1>7, <1>8 DEF PauseNext

\* No task answers a token nobody waits for.
LEMMA IdleStays ==
  ASSUME TypeOK, NEW r \in Runs, NEW t \in Tasks, TaskStep(r, t),
         NEW k \in Tokens, token[k] = "idle"
  PROVE  token'[k] = "idle"
  <1> USE DEF database, TaskEnds, NotifyFailure
  <1>1. ASSUME NEW outcome \in Outcomes,
               \/ BackUpActiveDags(r, outcome)
               \/ PauseDags(r, outcome)
               \/ ExportActiveDags(r, outcome)
               \/ ActivateDagsOnFailure(r, outcome)
        PROVE  token'[k] = "idle"
    BY <1>1 DEF BackUpActiveDags, PauseDags, ExportActiveDags, ActivateDagsOnFailure,
                TypeOK
  <1>2. ASSUME NEW outcome \in Outcomes,
               \/ \E s \in Stores : ExportStore(r, s, outcome)
               \/ ExportTable(r, outcome)
               \/ NotifySuccess(r, outcome)
        PROVE  token'[k] = "idle"
    BY <1>2 DEF ExportStore, ExportTable, NotifySuccess, TypeOK
  <1>3. CASE TaskFails(r, t) \/ Propagate(r, t) \/ CleanUp(r)
    BY <1>3 DEF TaskFails, Propagate, CleanUp, TypeOK
  <1>4. "variable" \in Stores /\ "connection" \in Stores
    BY DEF Stores
  <1> QED BY <1>1, <1>2, <1>3, <1>4 DEF TaskStep

\* Only the deletion state of an execution dooms the environment.
LEMMA EnvIsDoomed ==
  ASSUME [PauseNext]_pauseVars, env \notin Doomed, env' \in Doomed
  PROVE  \E k \in Tokens : exec[k] = "delete"
  <1>1. CASE \E k \in Tokens : CallDelete(k)
    BY <1>1 DEF CallDelete, Transition
  <1>2. ASSUME NEW k \in Tokens,
               \/ PollerStep(k) \/ PollerTimesOut(k) \/ ConfirmDeletion(k) \/ TimeOut(k)
        PROVE  env' = env
    BY <1>2 DEF PollerStep, PollerTimesOut, ConfirmDeletion, TimeOut,
         Poller!PollStep, Poller!Wait, Poller!GetStatus, Poller!CheckStatus,
         Poller!SuccessNotification, Poller!PollTimesOut, Poller!StartPolling,
         Poller!ParentTimesOut
  <1>3. UserUpdates => FALSE
    BY DEF UserUpdates, Doomed
  <1> QED
    BY <1>1, <1>2, <1>3 DEF PauseNext, ExecutionStep, StartExecution, GetEnvironment,
      StoreDetails, ExportAnswered, TriggerFails, TriggerExport, AirflowStep,
      MwaaDeletes, pauseVars, workflowVars

\* Who moves an execution, and on which grounds.
LEMMA ExecMoves ==
  ASSUME PauseInv, [PauseNext]_pauseVars, NEW k \in Tokens, exec'[k] # exec[k]
  PROVE  /\ exec'[k] \in ExecStates
         /\ exec'[k] = "delete" => token[k] = "success"
         /\ exec'[k] = "confirm" => exec[k] = "delete"
         /\ exec'[k] = "succeeded" => exec[k] = "confirm"
         /\ exec'[k] = "store_details" => read'[k] # NoDetails
  <1> USE DEF PauseInv, WorkflowTypeOK, Transition, ExecStates, InProgress
  <1> USE WorkflowAssumption
  <1>1. PICK j \in Tokens :
          \/ StartExecution(j) \/ GetEnvironment(j) \/ StoreDetails(j)
          \/ ExportAnswered(j) \/ CallDelete(j) \/ ConfirmDeletion(j)
          \/ TriggerFails(j) \/ TimeOut(j)
    BY DEF PauseNext, ExecutionStep, PollerStep, PollerTimesOut, TriggerExport,
           AirflowStep, MwaaDeletes, UserUpdates, pauseVars, workflowVars
  <1>2. CASE StartExecution(j)
    BY <1>2 DEF StartExecution
  <1>3. CASE GetEnvironment(j)
    BY <1>3 DEF GetEnvironment
  <1>4. CASE StoreDetails(j)
    BY <1>4 DEF StoreDetails
  <1>5. CASE ExportAnswered(j)
    BY <1>5 DEF ExportAnswered
  <1>6. CASE CallDelete(j)
    BY <1>6 DEF CallDelete
  <1>7. CASE ConfirmDeletion(j)
    BY <1>7 DEF ConfirmDeletion
  <1>8. CASE TriggerFails(j)
    BY <1>8 DEF TriggerFails
  <1>9. CASE TimeOut(j)
    BY <1>9 DEF TimeOut
  <1> QED BY <1>1, <1>2, <1>3, <1>4, <1>5, <1>6, <1>7, <1>8, <1>9

LEMMA SucceededWhenTold ==
  ASSUME PauseInv, [PauseNext]_pauseVars, NEW k \in Tokens,
         exec'[k] = "succeeded", exec[k] # "succeeded"
  PROVE  told[k] = "success"
  <1> USE DEF PauseInv, WorkflowTypeOK, Transition
  <1>1. ASSUME NEW j \in Tokens, ConfirmDeletion(j)
        PROVE  told[k] = "success"
    BY <1>1 DEF ConfirmDeletion
  <1>2. ASSUME NEW j \in Tokens,
               \/ StartExecution(j) \/ GetEnvironment(j) \/ StoreDetails(j)
               \/ ExportAnswered(j) \/ CallDelete(j)
               \/ TriggerFails(j) \/ TimeOut(j)
        PROVE  FALSE
    BY <1>2 DEF StartExecution, GetEnvironment, StoreDetails, ExportAnswered,
                CallDelete, TriggerFails, TimeOut
  <1> QED
    BY <1>1, <1>2 DEF PauseNext, ExecutionStep, PollerStep, PollerTimesOut,
       TriggerExport, AirflowStep, MwaaDeletes, UserUpdates, pauseVars, workflowVars

\* A token is waited for from "Store environment details" on.
LEMMA OnlyStoringWaits ==
  ASSUME PauseInv, [PauseNext]_pauseVars, NEW k \in Tokens,
         token[k] = "idle", token'[k] # "idle"
  PROVE  StoreDetails(k) /\ exec[k] = "store_details"
  <1> USE DEF PauseInv, Transition
  <1>1. ASSUME NEW j \in Tokens, StoreDetails(j)
        PROVE  j = k /\ exec[j] = "store_details"
    <2>1. EnterExport(j) /\ exec[j] = "store_details"
      BY <1>1 DEF StoreDetails, vars
    <2> QED BY <2>1 DEF EnterExport, TypeOK
  <1>2. CASE AirflowStep
    <2>1. RunStep
      BY <1>2 DEF AirflowStep, EnvironmentStep, StartTask, EndTask, UserToggles
    <2>2. PICK r \in Runs, t \in Tasks : TaskStep(r, t)
      BY <2>1 DEF RunStep
    <2> QED BY <2>2, IdleStays
  <1>3. ASSUME NEW j \in Tokens, TriggerFails(j) \/ TimeOut(j)
        PROVE  FALSE
    <2>1. TokenExpires(j)
      BY <1>3 DEF TriggerFails, TimeOut, vars
    <2> QED BY <2>1 DEF TokenExpires, TypeOK
  <1>4. ASSUME NEW j \in Tokens, NEW r \in Runs, TriggerExport(r, j)
        PROVE  FALSE
    BY <1>4 DEF TriggerExport, TriggerRun
  <1>5. ASSUME \/ MwaaDeletes \/ UserUpdates \/ UNCHANGED pauseVars
               \/ \E j \in Tokens :
                    \/ StartExecution(j) \/ GetEnvironment(j) \/ ExportAnswered(j)
                    \/ CallDelete(j) \/ ConfirmDeletion(j)
                    \/ PollerStep(j) \/ PollerTimesOut(j)
        PROVE  FALSE
    BY <1>5 DEF MwaaDeletes, UserUpdates, StartExecution, GetEnvironment,
         ExportAnswered, CallDelete, ConfirmDeletion, PollerStep, PollerTimesOut,
         pauseVars, vars
  <1> QED BY <1>1, <1>2, <1>3, <1>4, <1>5 DEF PauseNext, ExecutionStep

\* What an execution has read it does not forget.
LEMMA ReadStays ==
  ASSUME PauseInv, [PauseNext]_pauseVars, NEW k \in Tokens, read[k] # NoDetails
  PROVE  read'[k] # NoDetails
  <1> USE DEF PauseInv, WorkflowTypeOK, Transition
  <1> USE WorkflowAssumption
  <1>1. ASSUME NEW j \in Tokens, GetEnvironment(j)
        PROVE  read'[k] = read[k] \/ read'[k] # NoDetails
    BY <1>1 DEF GetEnvironment
  <1> QED
    BY <1>1 DEF PauseNext, ExecutionStep, StartExecution, StoreDetails, TriggerExport,
         ExportAnswered, CallDelete, ConfirmDeletion, TriggerFails, TimeOut, PollerStep,
         PollerTimesOut, AirflowStep, MwaaDeletes, UserUpdates, pauseVars, workflowVars

LEMMA PauseInvPreserved ==
  ASSUME PauseInv, [PauseNext]_pauseVars
  PROVE  PauseInv'
  <1> USE DEF PauseInv
  <1>1. [Next]_vars
    BY StepRefines
  <1>2. TypeOK'
    BY <1>1, TypePreserved
  <1>3. WorkflowTypeOK'
    <2> USE DEF WorkflowTypeOK, Transition, ExecStates, InProgress
    <2> USE WorkflowAssumption
    <2>1. ASSUME NEW k \in Tokens,
                 \/ StartExecution(k) \/ GetEnvironment(k) \/ StoreDetails(k)
                 \/ ExportAnswered(k) \/ CallDelete(k) \/ ConfirmDeletion(k)
                 \/ TriggerFails(k) \/ TimeOut(k)
          PROVE  WorkflowTypeOK'
      BY <2>1 DEF StartExecution, GetEnvironment, StoreDetails, ExportAnswered,
                  CallDelete, ConfirmDeletion, TriggerFails, TimeOut
    <2> QED
      BY <2>1 DEF PauseNext, ExecutionStep, PollerStep, PollerTimesOut, TriggerExport,
                  AirflowStep, MwaaDeletes, UserUpdates, pauseVars, workflowVars
  <1>4. ASSUME NEW k \in Tokens, exec'[k] \in Exported
        PROVE  token'[k] = "success"
    <2>1. token[k] = "success"
      BY <1>4, ExecMoves DEF WorkflowInv, Exported
    <2> QED BY <1>1, <2>1, SuccessStays
  <1>5. ASSUME env' \in Doomed
        PROVE  \E k \in Tokens : token'[k] = "success"
    <2>1. CASE env \in Doomed
      BY <1>1, <2>1, SuccessStays DEF WorkflowInv
    <2>2. CASE env \notin Doomed
      <3>1. PICK k \in Tokens : exec[k] = "delete"
        BY <1>5, <2>2, EnvIsDoomed
      <3>2. token[k] = "success"
        BY <3>1 DEF WorkflowInv, Exported
      <3> QED BY <1>1, <3>2, SuccessStays
    <2> QED BY <2>1, <2>2
  <1>6. ASSUME NEW k \in Tokens, token'[k] # "idle" \/ exec'[k] = "store_details"
        PROVE  read'[k] # NoDetails
    <2>1. CASE exec'[k] = "store_details" /\ exec[k] # "store_details"
      BY <2>1, ExecMoves
    <2>2. CASE exec[k] = "store_details" \/ token[k] # "idle"
      BY <2>2, ReadStays DEF WorkflowInv
    <2>3. CASE token[k] = "idle" /\ token'[k] # "idle"
      <3>1. exec[k] = "store_details"
        BY <2>3, OnlyStoringWaits
      <3> QED BY <2>2, <3>1
    <2> QED BY <1>6, <2>1, <2>2, <2>3
  <1>7. WorkflowInv'
    BY <1>4, <1>5, <1>6 DEF WorkflowInv
  <1> QED BY <1>2, <1>3, <1>7

THEOREM PauseInvariant == PauseSpec => []PauseInv
  <1>1. PauseInit => PauseInv
    BY PauseInvInit
  <1>2. PauseInv /\ [PauseNext]_pauseVars => PauseInv'
    BY PauseInvPreserved
  <1> QED BY <1>1, <1>2, PTL DEF PauseSpec

\* The composition of the workflow, the poller, Airflow and MWAA implements the
\* specification of the export DAG; what is proved of that one holds here.
THEOREM PauseImplementsExport == PauseSpec => ImplementsExport
  <1>1. PauseInit => Init
    BY DEF PauseInit
  <1>2. PauseInv /\ [PauseNext]_pauseVars => [Next]_vars
    BY StepRefines
  <1> QED BY <1>1, <1>2, PauseInvariant, PTL DEF PauseSpec, Spec, ImplementsExport

\* The environment is deleted only after an export reported success, and after
\* the details it is created again from were read, whatever failed or was
\* started twice.
THEOREM DeletionIsSafe == PauseSpec => []DeletedMeansExported
  <1>1. PauseInv => DeletedMeansExported
    BY DEF PauseInv, WorkflowInv, DeletedMeansExported
  <1> QED BY <1>1, PauseInvariant, PTL

-----------------------------------------------------------------------------
(***************************************************************************)
(* The polling executions.                                                 *)
(***************************************************************************)
PollerTheorems ==
  INSTANCE StatusPollerProofs WITH Polls <- Tokens, Command <- "checkDeleted"

LEMMA StepRefinesPoller ==
  ASSUME PauseInv, [PauseNext]_pauseVars
  PROVE  [Poller!Next]_(Poller!vars)
  <1> USE DEF Poller!vars, Poller!Next, pollVars
  <1>1. ASSUME NEW k \in Tokens, PollerStep(k) \/ PollerTimesOut(k) \/ TimeOut(k)
        PROVE  [Poller!Next]_(Poller!vars)
    BY <1>1 DEF PollerStep, PollerTimesOut, TimeOut
  <1>2. ASSUME NEW k \in Tokens, ConfirmDeletion(k)
        PROVE  [Poller!Next]_(Poller!vars)
    BY <1>2 DEF ConfirmDeletion
  <1>3. ASSUME NEW k \in Tokens, CallDelete(k)
        PROVE  [Poller!Next]_(Poller!vars)
    BY <1>3 DEF CallDelete, Poller!Mwaa, Poller!Death, Poller!Statuses
  <1>4. CASE MwaaDeletes
    BY <1>4 DEF MwaaDeletes
  <1>5. CASE UserUpdates
    BY <1>5 DEF UserUpdates, Poller!Mwaa, Poller!Death, Poller!Statuses
  <1>6. ASSUME NEW k \in Tokens,
               \/ StartExecution(k) \/ GetEnvironment(k) \/ StoreDetails(k)
               \/ ExportAnswered(k) \/ TriggerFails(k)
               \/ \E r \in Runs : TriggerExport(r, k)
        PROVE  UNCHANGED Poller!vars
    BY <1>6 DEF StartExecution, GetEnvironment, StoreDetails, ExportAnswered,
                TriggerFails, TriggerExport, workflowVars
  <1>7. CASE AirflowStep \/ UNCHANGED pauseVars
    BY <1>7 DEF AirflowStep, pauseVars, workflowVars
  <1> QED
    BY <1>1, <1>2, <1>3, <1>4, <1>5, <1>6, <1>7 DEF PauseNext, ExecutionStep

\* The composition implements the specification of the polling executions too.
THEOREM PauseImplementsPoller == PauseSpec => ImplementsPoller
  <1>1. PauseInit => Poller!Init
    BY DEF PauseInit, Poller!Init
  <1>2. PauseInv /\ [PauseNext]_pauseVars => [Poller!Next]_(Poller!vars)
    BY StepRefinesPoller
  <1> QED
    BY <1>1, <1>2, PauseInvariant, PTL DEF PauseSpec, ImplementsPoller, Poller!Spec

\* The two names of one specification: of the module, and of its proofs.
LEMMA SamePoller ==
  /\ Poller!Init <=> PollerTheorems!Init
  /\ [Poller!Next]_(Poller!vars) <=> [PollerTheorems!Next]_(PollerTheorems!vars)
  /\ Poller!TypeOK <=> PollerTheorems!TypeOK
  /\ Poller!ToldTruth <=> PollerTheorems!ToldTruth
  <1>1. Poller!Init <=> PollerTheorems!Init
    BY DEF Poller!Init, PollerTheorems!Init, Poller!InitPolls,
      PollerTheorems!InitPolls
  <1>2. \A k : Poller!PollStep(k) <=> PollerTheorems!PollStep(k)
    BY DEF Poller!PollStep, PollerTheorems!PollStep, Poller!Wait,
      PollerTheorems!Wait, Poller!GetStatus, PollerTheorems!GetStatus,
      Poller!CheckStatus, PollerTheorems!CheckStatus,
      Poller!SuccessNotification, PollerTheorems!SuccessNotification,
      Poller!Goto, PollerTheorems!Goto, Poller!CompleteStatuses,
      PollerTheorems!CompleteStatuses
  <1>3. Poller!Mwaa <=> PollerTheorems!Mwaa
    BY DEF Poller!Mwaa, PollerTheorems!Mwaa, Poller!Statuses,
      PollerTheorems!Statuses, Poller!Life, PollerTheorems!Life,
      Poller!Death, PollerTheorems!Death
  <1>4. [Poller!Next]_(Poller!vars) <=> [PollerTheorems!Next]_(PollerTheorems!vars)
    BY <1>2, <1>3 DEF Poller!Next, PollerTheorems!Next, Poller!vars,
      PollerTheorems!vars, Poller!StartPolling, PollerTheorems!StartPolling,
      Poller!PollTimesOut, PollerTheorems!PollTimesOut,
      Poller!ParentTimesOut, PollerTheorems!ParentTimesOut, Poller!Goto,
      PollerTheorems!Goto, Poller!Running, PollerTheorems!Running
  <1>5. Poller!TypeOK <=> PollerTheorems!TypeOK
    BY DEF Poller!TypeOK, PollerTheorems!TypeOK, Poller!Statuses,
      PollerTheorems!Statuses, Poller!PollStates, PollerTheorems!PollStates,
      Poller!Running, PollerTheorems!Running, Poller!ToldStates,
      PollerTheorems!ToldStates
  <1>6. Poller!ToldTruth <=> PollerTheorems!ToldTruth
    BY DEF Poller!ToldTruth, PollerTheorems!ToldTruth,
      Poller!Awaited, PollerTheorems!Awaited
  <1> QED BY <1>1, <1>4, <1>5, <1>6

\* What an execution has been told stays told, and it succeeds only when told.
ToldInv ==
  /\ Poller!AnsweredPollIsOver
  /\ \A k \in Tokens : exec[k] = "succeeded" => told[k] = "success"

LEMMA ToldInvPreserved ==
  ASSUME PauseInv, Poller!TypeOK, ToldInv, [PauseNext]_pauseVars, Poller!TypeOK'
  PROVE  ToldInv'
  <1> USE DEF PauseInv, WorkflowTypeOK, ToldInv, Transition
  <1>1. [Poller!Next]_(Poller!vars)
    BY StepRefinesPoller
  <1>2. ASSUME NEW k \in Tokens
        PROVE  /\ told[k] = "success" => told'[k] = "success"
               /\ told'[k] = "success" => poll'[k] = "succeeded"
    BY <1>1 DEF Poller!Next, Poller!vars, Poller!Mwaa, Poller!StartPolling,
      Poller!PollStep, Poller!Wait, Poller!GetStatus, Poller!CheckStatus,
      Poller!SuccessNotification, Poller!PollTimesOut, Poller!ParentTimesOut,
      Poller!Goto, Poller!Running, Poller!TypeOK, Poller!AnsweredPollIsOver
  <1>3. ASSUME NEW k \in Tokens, exec'[k] = "succeeded" PROVE told'[k] = "success"
    <2>1. CASE exec[k] = "succeeded"
      BY <2>1, <1>2
    <2>2. CASE exec[k] # "succeeded"
      BY <2>2, <1>3, <1>2, SucceededWhenTold
    <2> QED BY <2>1, <2>2
  <1> QED BY <1>2, <1>3 DEF Poller!AnsweredPollIsOver

\* What is proved of the polling executions holds in the composition.
THEOREM PollerInWorkflow == PauseSpec => [](Poller!TypeOK /\ Poller!ToldTruth)
  <1>1. PollerTheorems!PollerAssumption
    BY WorkflowAssumption DEF PollerTheorems!PollerAssumption
  <1>2. PollerTheorems!Spec => []PollerTheorems!TypeOK
    BY <1>1, PollerTheorems!PollerTypeCorrect
  <1>3. PollerTheorems!Spec => []PollerTheorems!ToldTruth
    BY <1>1, PollerTheorems!ToldIsTrue
  <1> QED
    BY <1>2, <1>3, PauseImplementsPoller, SamePoller, PTL
    DEF ImplementsPoller, Poller!Spec, PollerTheorems!Spec

\* Every variable of the composition keeps its type.
THEOREM PauseTypeCorrect == PauseSpec => []PauseTypeOK
  <1>1. PauseInv /\ Poller!TypeOK => PauseTypeOK
    BY DEF PauseInv, WorkflowTypeOK, PauseTypeOK
  <1> QED BY <1>1, PauseInvariant, PollerInWorkflow, PTL

\* An execution that ends in success leaves no environment behind.
THEOREM SuccessIsGone == PauseSpec => []SucceededMeansGone
  <1>1. PauseInit => ToldInv
    BY DEF PauseInit, Poller!InitPolls, Poller!AnsweredPollIsOver, ToldInv
  <1>2. PauseInv /\ Poller!TypeOK /\ ToldInv /\ [PauseNext]_pauseVars /\ Poller!TypeOK'
          => ToldInv'
    BY ToldInvPreserved
  <1>3. ToldInv /\ Poller!ToldTruth => SucceededMeansGone
    BY DEF ToldInv, Poller!ToldTruth, Poller!Awaited, SucceededMeansGone
  <1> QED BY <1>1, <1>2, <1>3, PollerInWorkflow, PauseInvariant, PTL DEF PauseSpec

-----------------------------------------------------------------------------
(***************************************************************************)
(* The environment's details, when no user updates the environment while a *)
(* pause is in progress: every execution reads the same configuration, so  *)
(* it does not matter which of them wrote the object last.                 *)
(***************************************************************************)
DetailsInv ==
  /\ \A k \in Tokens : read[k] # NoDetails => read[k] = config
  /\ (\E k \in Tokens : token[k] # "idle") => details = config

LEMMA DetailsInvPreserved ==
  ASSUME UserActive = FALSE, PauseInv, DetailsInv, [PauseNext]_pauseVars
  PROVE  DetailsInv'
  <1> USE DEF PauseInv, WorkflowTypeOK, DetailsInv, Transition
  <1> USE WorkflowAssumption
  <1>1. config' = config
    BY DEF PauseNext, ExecutionStep, StartExecution, GetEnvironment, StoreDetails,
      TriggerExport, ExportAnswered, CallDelete, ConfirmDeletion, TriggerFails, TimeOut,
      PollerStep, PollerTimesOut, AirflowStep, MwaaDeletes, UserUpdates, pauseVars,
      workflowVars
  <1>2. ASSUME NEW k \in Tokens, read'[k] # NoDetails
        PROVE  read'[k] = config
    <2>1. CASE \E j \in Tokens : GetEnvironment(j)
      BY <1>2, <2>1 DEF GetEnvironment
    <2>2. CASE read' = read
      BY <1>2, <2>2
    <2>3. read' = read \/ \E j \in Tokens : GetEnvironment(j)
      BY DEF PauseNext, ExecutionStep, StartExecution, StoreDetails, TriggerExport,
        ExportAnswered, CallDelete, ConfirmDeletion, TriggerFails, TimeOut, PollerStep,
        PollerTimesOut, AirflowStep, MwaaDeletes, UserUpdates, pauseVars, workflowVars
    <2> QED BY <2>1, <2>2, <2>3
  <1>3. ASSUME NEW k \in Tokens, token'[k] # "idle"
        PROVE  details' = config
    <2>1. ASSUME NEW j \in Tokens, StoreDetails(j)
          PROVE  details' = config
      <3>1. read[j] = config
        BY <2>1 DEF StoreDetails, WorkflowInv
      <3>2. CASE details' = read[j]
        BY <3>1, <3>2
      <3>3. CASE details' = details /\ UNCHANGED vars
        BY <1>3, <3>3 DEF vars
      <3> QED BY <2>1, <3>2, <3>3 DEF StoreDetails
    <2>2. CASE ~ \E j \in Tokens : StoreDetails(j)
      <3>1. details' = details
        BY <2>2 DEF PauseNext, ExecutionStep, StartExecution, GetEnvironment,
          TriggerExport, ExportAnswered, CallDelete, ConfirmDeletion, TriggerFails,
          TimeOut, PollerStep, PollerTimesOut, AirflowStep, MwaaDeletes, UserUpdates,
          pauseVars, workflowVars
      <3>2. token[k] # "idle"
        BY <1>3, <2>2, OnlyStoringWaits
      <3> QED BY <3>1, <3>2
    <2> QED BY <2>1, <2>2
  <1> QED BY <1>1, <1>2, <1>3

\* The details in the bucket are those of the deleted environment.
THEOREM DetailsAreSaved ==
  ASSUME UserActive = FALSE
  PROVE  PauseSpec => []DetailsSaved
  <1>1. PauseInit => DetailsInv
    BY DEF PauseInit, Init, DetailsInv
  <1>2. PauseInv /\ DetailsInv /\ [PauseNext]_pauseVars => DetailsInv'
    BY DetailsInvPreserved
  <1>3. PauseInv /\ DetailsInv => DetailsSaved
    BY DEF PauseInv, WorkflowInv, DetailsInv, DetailsSaved
  <1> QED BY <1>1, <1>2, <1>3, PauseInvariant, PTL DEF PauseSpec
-----------------------------------------------------------------------------
(***************************************************************************)
(* What is proved of the export alone holds of the export in the workflow. *)
(***************************************************************************)
\* In the workflow too, with any number of executions and repeated invocations: a run
\* that has made its answer writes nothing more.
THEOREM PauseEndsItsExport == PauseSpec => AnsweredRunIsDone
  BY PauseImplementsExport, RunsAreDoneWhenAnswered, PTL DEF ImplementsExport

\* No environment is deleted before every table, and the list of active DAGs, has
\* been written by a run of this pause or of one that overlaps it, however many
\* executions and runs there are and whichever of them fail.
THEOREM DeletionIsBackedUp == PauseSpec => []DeletedMeansBackedUp
  <1>1. DeletedMeansExported
        /\ ((\E k \in Tokens : token[k] = "success") =>
              \A f \in Files \ Stores : files[f] \in Written)
        => DeletedMeansBackedUp
    BY DEF DeletedMeansExported, DeletedMeansBackedUp, Written
  <1> QED
    BY <1>1, DeletionIsSafe, PauseImplementsExport, SuccessIsBackedUp, PTL
    DEF ImplementsExport

\* When the environment goes, everything it is made again from is in the bucket
\* and is of this pause: its configuration, the DAGs that were active, the tables,
\* each with the rows the others refer to.
NothingLost ==
  env \in Doomed =>
    /\ details = config
    /\ \A f \in Files \ Stores : files[f] \in [by : Runs, rows : SUBSET Rows]
    /\ files["active_dags"].rows = {d \in Dags : wish[d]}
    /\ files["task_instance"].rows \subseteq files["dag_run"].rows

\* The workflow deletes no environment it could not bring back, when users leave
\* it alone during the pause and the run of the export is the only one.
THEOREM DeletionLosesNothing ==
  ASSUME NEW CONSTANT r0, Runs = {r0}, UserActive = FALSE, InitialTables = {},
         {"dag_run", "task_instance"} \subseteq Files
  PROVE  PauseSpec => []NothingLost
  <1>1. /\ DeletedMeansExported /\ DetailsSaved /\ BackupOfOneRun /\ ActiveDagsSaved
        /\ TaskInstancesHaveRuns
        => NothingLost
    BY DEF DeletedMeansExported, DetailsSaved, BackupOfOneRun, ActiveDagsSaved,
       TaskInstancesHaveRuns, NothingLost
  <1>2. Spec => []BackupOfOneRun
    BY SingleBackupOfOneRun
  <1>3. Spec => []ActiveDagsSaved
    BY SingleActiveDagsSaved
  <1>4. Spec => []TaskInstancesHaveRuns
    BY SingleTaskInstancesHaveRuns
  <1>5. PauseSpec => []DetailsSaved
    BY DetailsAreSaved
  <1> QED
    BY <1>1, <1>2, <1>3, <1>4, <1>5, DeletionIsSafe, PauseImplementsExport, PTL
    DEF ImplementsExport

-----------------------------------------------------------------------------
(***************************************************************************)
(* What an execution waits for when no call, task or timer fails.          *)
(***************************************************************************)
\* An execution can take its next step, or what it waits for can: the Lambda that has
\* not started a run yet, a task of its run, or its poll, which will find the
\* environment gone.
ExecutionGoesOn(k) ==
  \/ exec[k] \in {"get_environment", "delete"}
  \/ exec[k] = "store_details" /\ token[k] = "idle"
  \/ /\ exec[k] = "export"
     /\ \/ token[k] \in {"success", "failure"}
        \/ alive /\ \A r \in Runs : conf[r] # k
        \/ alive /\ ~selfPaused /\ \E r \in Runs : conf[r] = k /\ RunGoesOn(r)
  \/ /\ exec[k] = "confirm" /\ env \in Doomed
     /\ \/ poll[k] = "idle" \/ told[k] = "success"
        \/ poll[k] \in Poller!Running /\ told[k] = "waiting"

WaitsInv ==
  /\ env \notin Doomed => alive
  /\ (\E r \in Runs : conf[r] # NoToken) => ~selfPaused
  /\ \A k \in Tokens :
       /\ token[k] # "expired"
       /\ exec[k] \in {"none", "get_environment", "store_details"} => token[k] = "idle"
       /\ exec[k] = "export" => token[k] # "idle"
       /\ exec[k] = "confirm" => env \in Doomed
       /\ \/ poll[k] = "idle"
          \/ poll[k] \in Poller!Running /\ told[k] = "waiting"
          \/ told[k] = "success"

LEMMA TaskStepTokens ==
  ASSUME TypeOK, NEW r \in Runs, NEW t \in Tasks, TaskStep(r, t), NEW k \in Tokens
  PROVE  token'[k] \in {token[k], "success", "failure"}
  <1> USE DEF database, TaskEnds, NotifyFailure
  <1>1. ASSUME NEW outcome \in Outcomes,
               \/ BackUpActiveDags(r, outcome)
               \/ PauseDags(r, outcome)
               \/ ExportActiveDags(r, outcome)
               \/ ActivateDagsOnFailure(r, outcome)
        PROVE  token'[k] \in {token[k], "success", "failure"}
    BY <1>1 DEF BackUpActiveDags, PauseDags, ExportActiveDags, ActivateDagsOnFailure,
                TypeOK
  <1>2. ASSUME NEW outcome \in Outcomes,
               \/ \E s \in Stores : ExportStore(r, s, outcome)
               \/ ExportTable(r, outcome)
               \/ NotifySuccess(r, outcome)
        PROVE  token'[k] \in {token[k], "success", "failure"}
    BY <1>2 DEF ExportStore, ExportTable, NotifySuccess, TypeOK
  <1>3. CASE TaskFails(r, t) \/ Propagate(r, t) \/ CleanUp(r)
    BY <1>3 DEF TaskFails, Propagate, CleanUp, TypeOK
  <1>4. "variable" \in Stores /\ "connection" \in Stores
    BY DEF Stores
  <1> QED BY <1>1, <1>2, <1>3, <1>4 DEF TaskStep

LEMMA TaskStepLeavesDatabase ==
  ASSUME NEW r \in Runs, NEW t \in Tasks, TaskStep(r, t)
  PROVE  UNCHANGED << alive, selfPaused, conf >>
  BY DEF TaskStep, TaskFails, Propagate, BackUpActiveDags, PauseDags, ExportActiveDags,
     ExportStore, ExportTable, ActivateDagsOnFailure, NotifySuccess, CleanUp, database

LEMMA WaitsPreserved ==
  ASSUME PauseInv, Poller!TypeOK, WaitsInv, MayFail = FALSE, MayTimeOut = FALSE,
         [PauseNext]_pauseVars
  PROVE  WaitsInv'
  <1> USE DEF PauseInv, WorkflowTypeOK, Transition, pollVars
  <1>1. ASSUME NEW j \in Tokens, StartExecution(j) \/ GetEnvironment(j) PROVE WaitsInv'
    BY <1>1 DEF StartExecution, GetEnvironment, WaitsInv, vars
  <1>2. ASSUME NEW j \in Tokens, StoreDetails(j) PROVE WaitsInv'
    BY <1>2 DEF StoreDetails, EnterExport, WaitsInv, TypeOK, database
  <1>3. ASSUME NEW j \in Tokens, ExportAnswered(j) PROVE WaitsInv'
    BY <1>3 DEF ExportAnswered, WaitsInv, vars
  <1>4. ASSUME NEW j \in Tokens, CallDelete(j) PROVE WaitsInv'
    BY <1>4 DEF CallDelete, WaitsInv, vars, Doomed
  <1>5. ASSUME NEW j \in Tokens, ConfirmDeletion(j) PROVE WaitsInv'
    BY <1>5 DEF ConfirmDeletion, WaitsInv, vars, Poller!StartPolling, Poller!Goto,
       Poller!Running, Poller!TypeOK
  <1>6. ASSUME NEW j \in Tokens, NEW r \in Runs, TriggerExport(r, j) PROVE WaitsInv'
    BY <1>6 DEF TriggerExport, TriggerRun, WaitsInv, workflowVars
  <1>7. ASSUME NEW j \in Tokens,
               TriggerFails(j) \/ TimeOut(j) \/ PollerTimesOut(j)
        PROVE  FALSE
    BY <1>7 DEF TriggerFails, TimeOut, PollerTimesOut, Poller!PollTimesOut
  <1>8. ASSUME NEW j \in Tokens, PollerStep(j) PROVE WaitsInv'
    BY <1>8 DEF PollerStep, WaitsInv, vars, Poller!PollStep, Poller!Wait, Poller!GetStatus,
       Poller!CheckStatus, Poller!SuccessNotification, Poller!Goto, Poller!Running,
       Poller!TypeOK
  <1>9. CASE AirflowStep
    <2>1. ASSUME NEW r \in Runs, NEW t \in Tasks, TaskStep(r, t), UNCHANGED workflowVars
          PROVE  WaitsInv'
      BY <2>1, IdleStays, TaskStepTokens, TaskStepLeavesDatabase DEF WaitsInv, workflowVars
    <2>2. CASE EnvironmentStep /\ UNCHANGED workflowVars
      BY <2>2 DEF EnvironmentStep, StartTask, EndTask, UserToggles, WaitsInv, workflowVars
    <2> QED BY <1>9, <2>1, <2>2 DEF AirflowStep, RunStep
  <1>10. CASE MwaaDeletes
    BY <1>10 DEF MwaaDeletes, Poller!Mwaa, Poller!Death, Doomed, WaitsInv
  <1>11. CASE UserUpdates
    BY <1>11 DEF UserUpdates, Doomed, WaitsInv, vars
  <1>12. CASE UNCHANGED pauseVars
    BY <1>12 DEF pauseVars, workflowVars, vars, WaitsInv
  <1> QED
    BY <1>1, <1>2, <1>3, <1>4, <1>5, <1>6, <1>7, <1>8, <1>9, <1>10, <1>11, <1>12
    DEF PauseNext, ExecutionStep

\* As long as nothing fails, an execution in progress never waits for what cannot come:
\* the workflow for the DAG, the DAG for its trigger, the poller for MWAA.  The one
\* exception is an execution whose export is cut off by another's deletion.
THEOREM PausesGoOn ==
  ASSUME MayFail = FALSE, MayTimeOut = FALSE, Faulty = {}
  PROVE  PauseSpec =>
           [](\A k \in Tokens : exec[k] \in InProgress =>
                ExecutionGoesOn(k) \/ (exec[k] = "export" /\ env \in Doomed))
  <1> DEFINE Answers ==
        \A r \in Runs : conf[r] # NoToken =>
          IF RunOver(r) THEN Reported(r) /\ token[conf[r]] # "waiting" ELSE RunGoesOn(r)
  <1>1. PauseInit => WaitsInv
    BY DEF PauseInit, Init, Poller!InitPolls, WaitsInv
  <1>2. PauseInv /\ Poller!TypeOK /\ WaitsInv /\ [PauseNext]_pauseVars => WaitsInv'
    BY WaitsPreserved
  <1>3. ASSUME PauseInv, WaitsInv, Answers, NEW k \in Tokens, exec[k] \in InProgress,
               ~(exec[k] = "export" /\ env \in Doomed)
        PROVE  ExecutionGoesOn(k)
    <2>1. CASE exec[k] = "export"
      <3>1. alive /\ token[k] \in {"waiting", "success", "failure"}
        BY <1>3, <2>1 DEF WaitsInv, PauseInv, TypeOK, TokenStates
      <3>2. ASSUME NEW r \in Runs, conf[r] = k, token[k] = "waiting"
            PROVE  ~selfPaused /\ RunGoesOn(r)
        BY <1>3, <3>2, ExportAssumption DEF WaitsInv
      <3> QED BY <2>1, <3>1, <3>2 DEF ExecutionGoesOn
    <2>2. CASE exec[k] # "export"
      BY <1>3, <2>2 DEF WaitsInv, ExecutionGoesOn, InProgress
    <2> QED BY <2>1, <2>2
  <1>4. PauseInv /\ WaitsInv /\ Answers =>
          \A k \in Tokens : exec[k] \in InProgress =>
            ExecutionGoesOn(k) \/ (exec[k] = "export" /\ env \in Doomed)
    BY <1>3
  <1>5. Spec => []Answers
    BY FaultlessExportsAnswer
  <1> QED
    BY <1>1, <1>2, <1>4, <1>5, PauseInvariant, PollerInWorkflow, PauseImplementsExport, PTL
    DEF PauseSpec, ImplementsExport


=============================================================================
