--------------------------- MODULE ResumingProofs ---------------------------
(***************************************************************************)
(* Proofs about ResumingWorkflow and the import DAG in it, for any number  *)
(* of executions and of runs, whatever the versions and their task graphs, *)
(* and with every failure and timeout.                                     *)
(***************************************************************************)
EXTENDS ResumingWorkflow, ImportProofs

(***************************************************************************)
(* The polling executions.                                                 *)
(***************************************************************************)
PollerTheorems ==
  INSTANCE StatusPollerProofs
    WITH Polls <- Tokens, Command <- "checkCreated", MayTimeOut <- TRUE

LEMMA StepRefinesPoller ==
  ASSUME [ResumeNext]_resumeVars
  PROVE  [Poller!Next]_(Poller!vars)
  <1> USE DEF Poller!vars, Poller!Next, pollVars
  <1>1. ASSUME NEW k \in Tokens, PollerStep(k) \/ PollerTimesOut(k) \/ TimeOut(k)
        PROVE  [Poller!Next]_(Poller!vars)
    BY <1>1 DEF PollerStep, PollerTimesOut, TimeOut
  <1>2. ASSUME NEW k \in Tokens, ConfirmCreation(k)
        PROVE  [Poller!Next]_(Poller!vars)
    BY <1>2 DEF ConfirmCreation
  <1>3. ASSUME NEW k \in Tokens, CreateEnvironment(k)
        PROVE  [Poller!Next]_(Poller!vars)
    BY <1>3 DEF CreateEnvironment, Poller!Mwaa, Poller!Life, Poller!Statuses
  <1>4. ASSUME NEW k \in Tokens,
               \/ StartExecution(k) \/ RetrieveDetails(k) \/ ImportAnswered(k)
               \/ UpdateEnvironment(k) \/ TriggerFails(k)
               \/ \E r \in Runs : TriggerImport(r, k)
        PROVE  [Poller!Next]_(Poller!vars)
    BY <1>4 DEF StartExecution, RetrieveDetails, ImportAnswered, UpdateEnvironment,
                TriggerFails, TriggerImport, workflowVars
  <1>5. CASE MwaaCreates
    BY <1>5 DEF MwaaCreates
  <1>6. CASE AirflowStep \/ (\E d \in Dags : SchedulerRegisters(d))
    BY <1>6 DEF AirflowStep, SchedulerRegisters, workflowVars
  <1>7. CASE UNCHANGED resumeVars
    BY <1>7 DEF resumeVars, workflowVars
  <1> QED
    BY <1>1, <1>2, <1>3, <1>4, <1>5, <1>6, <1>7 DEF ResumeNext, ExecutionStep

\* The workflow implements the specification of the polling executions: it asks
\* for a creation only where there is no environment, and nothing else of it
\* touches the environment's status.
THEOREM ResumeImplementsPoller == ResumeSpec => ImplementsPoller
  <1>1. ResumeInit => Poller!Init
    BY DEF ResumeInit, Poller!Init
  <1>2. [ResumeNext]_resumeVars => [Poller!Next]_(Poller!vars)
    BY StepRefinesPoller
  <1> QED BY <1>1, <1>2, PTL DEF ResumeSpec, ImplementsPoller, Poller!Spec

\* The two names of one specification: of the module, and of its proofs.
LEMMA SamePoller ==
  /\ Poller!Init <=> PollerTheorems!Init
  /\ [Poller!Next]_(Poller!vars) <=> [PollerTheorems!Next]_(PollerTheorems!vars)
  /\ Poller!TypeOK <=> PollerTheorems!TypeOK
  /\ Poller!ToldTruth <=> PollerTheorems!ToldTruth
  <1>1. Poller!Init <=> PollerTheorems!Init
    BY DEF Poller!Init, PollerTheorems!Init, Poller!InitPolls,
      PollerTheorems!InitPolls
  <1>2. \A k : Poller!PollStep(k) <=> PollerTheorems!PollStep(k)
    BY DEF Poller!PollStep, PollerTheorems!PollStep, Poller!Wait,
      PollerTheorems!Wait, Poller!GetStatus, PollerTheorems!GetStatus,
      Poller!CheckStatus, PollerTheorems!CheckStatus,
      Poller!SuccessNotification, PollerTheorems!SuccessNotification,
      Poller!Goto, PollerTheorems!Goto, Poller!CompleteStatuses,
      PollerTheorems!CompleteStatuses
  <1>3. Poller!Mwaa <=> PollerTheorems!Mwaa
    BY DEF Poller!Mwaa, PollerTheorems!Mwaa, Poller!Statuses,
      PollerTheorems!Statuses, Poller!Life, PollerTheorems!Life,
      Poller!Death, PollerTheorems!Death
  <1>4. [Poller!Next]_(Poller!vars) <=> [PollerTheorems!Next]_(PollerTheorems!vars)
    BY <1>2, <1>3 DEF Poller!Next, PollerTheorems!Next, Poller!vars,
      PollerTheorems!vars, Poller!StartPolling, PollerTheorems!StartPolling,
      Poller!PollTimesOut, PollerTheorems!PollTimesOut,
      Poller!ParentTimesOut, PollerTheorems!ParentTimesOut, Poller!Goto,
      PollerTheorems!Goto, Poller!Running, PollerTheorems!Running
  <1>5. Poller!TypeOK <=> PollerTheorems!TypeOK
    BY DEF Poller!TypeOK, PollerTheorems!TypeOK, Poller!Statuses,
      PollerTheorems!Statuses, Poller!PollStates, PollerTheorems!PollStates,
      Poller!Running, PollerTheorems!Running, Poller!ToldStates,
      PollerTheorems!ToldStates
  <1>6. Poller!ToldTruth <=> PollerTheorems!ToldTruth
    BY DEF Poller!ToldTruth, PollerTheorems!ToldTruth,
      Poller!Awaited, PollerTheorems!Awaited
  <1> QED BY <1>1, <1>4, <1>5, <1>6

\* What is proved of the polling executions holds in the composition.
LEMMA PollerInResume == ResumeSpec => [](Poller!TypeOK /\ Poller!ToldTruth)
  <1>1. PollerTheorems!PollerAssumption
    BY ResumeAssumption DEF PollerTheorems!PollerAssumption
  <1>2. PollerTheorems!Spec => []PollerTheorems!TypeOK
    BY <1>1, PollerTheorems!PollerTypeCorrect
  <1>3. PollerTheorems!Spec => []PollerTheorems!ToldTruth
    BY <1>1, PollerTheorems!ToldIsTrue
  <1> QED
    BY <1>2, <1>3, ResumeImplementsPoller, SamePoller, PTL
    DEF ImplementsPoller, Poller!Spec, PollerTheorems!Spec

-----------------------------------------------------------------------------
(***************************************************************************)
(* The invariant: an execution past CreateEnvironment is the one whose     *)
(* call was accepted, which happens once; a token is handed out only when  *)
(* its execution was told that its environment is there; and the runs have *)
(* tokens that were handed out.                                            *)
(***************************************************************************)
Created == {"confirm", "restore", "update", "succeeded"}

OwnInv ==
  /\ exec \in [Tokens -> ExecStates]
  /\ creator \in Tokens \cup {NoToken}
  /\ \A k \in Tokens : exec[k] \in Created => creator = k
  /\ \A k \in Tokens : token[k] # "idle" => creator = k /\ env = "AVAILABLE"
  /\ \A r \in Runs : conf[r] # NoToken => token[conf[r]] # "idle"

ResumeInv == ImportInv /\ OwnInv

LEMMA ResumeInvInit == ASSUME ResumeInit PROVE ResumeInv
  <1>1. ImportInv
    BY DEF ResumeInit, ImportInit, ImportInv, OnlyFormerlyActive, States
  <1>2. OwnInv
    BY DEF ResumeInit, ImportInit, OwnInv, Created, ExecStates, InProgress
  <1> QED BY <1>1, <1>2 DEF ResumeInv

\* An environment that is there stays: nothing of this workflow takes it away.
LEMMA AvailableStays ==
  ASSUME [ResumeNext]_resumeVars, env = "AVAILABLE"
  PROVE  env' = "AVAILABLE"
  <1>1. [Poller!Next]_(Poller!vars)
    BY StepRefinesPoller
  <1> QED BY <1>1 DEF Poller!Next, Poller!vars, Poller!Mwaa, Poller!Life,
      Poller!StartPolling, Poller!PollStep, Poller!Wait, Poller!GetStatus,
      Poller!CheckStatus, Poller!SuccessNotification, Poller!PollTimesOut,
      Poller!ParentTimesOut

LEMMA ResumeInvPreserved ==
  ASSUME ResumeInv, Poller!ToldTruth, [ResumeNext]_resumeVars
  PROVE  ResumeInv'
  <1> USE DEF ResumeInv, Transition
  <1> DEFINE Kept ==
        ImportInv /\ UNCHANGED importVars => ImportInv'
  <1>1. Kept
    BY DEF ImportInv, OnlyFormerlyActive, importVars, backup, database
  <1>2. ASSUME NEW k \in Tokens,
               \/ StartExecution(k) \/ RetrieveDetails(k) \/ ImportAnswered(k)
               \/ UpdateEnvironment(k)
        PROVE  ResumeInv'
    <2>1. UNCHANGED << importVars, creator, env >>
      BY <1>2 DEF StartExecution, RetrieveDetails, ImportAnswered, UpdateEnvironment
    <2>2. /\ exec' \in [Tokens -> ExecStates]
          /\ exec'[k] \in Created => exec[k] \in Created
          /\ \A j \in Tokens \ {k} : exec'[j] = exec[j]
      BY <1>2 DEF StartExecution, RetrieveDetails, ImportAnswered, UpdateEnvironment,
                  Restored, OwnInv, Created, ExecStates, InProgress
    <2>3. UNCHANGED << token, conf >>
      BY <2>1 DEF importVars
    <2> QED BY <1>1, <2>1, <2>2, <2>3 DEF OwnInv
  <1>3. ASSUME NEW k \in Tokens, CreateEnvironment(k) PROVE ResumeInv'
    <2>1. UNCHANGED importVars
      BY <1>3 DEF CreateEnvironment
    <2>2. UNCHANGED << token, conf >>
      BY <2>1 DEF importVars
    <2>3. exec[k] = "create" /\ exec' \in [Tokens -> ExecStates]
      BY <1>3 DEF CreateEnvironment, OwnInv, ExecStates, InProgress
    <2>4. CASE creator = NoToken /\ creator' = k
      <3>1. \A j \in Tokens : exec[j] \notin Created /\ token[j] = "idle"
        BY <2>4, ImportAssumption DEF OwnInv
      <3>2. \A j \in Tokens \ {k} : exec'[j] = exec[j]
        BY <1>3 DEF CreateEnvironment, OwnInv
      <3>3. creator' \in Tokens \cup {NoToken}
        BY <2>4
      <3>4. \A j \in Tokens : exec'[j] \in Created => creator' = j
        BY <2>4, <3>1, <3>2
      <3> QED BY <1>1, <2>1, <2>2, <2>3, <3>1, <3>3, <3>4 DEF OwnInv
    <2>5. CASE UNCHANGED << creator, env >> /\ exec' = [exec EXCEPT ![k] = "failed"]
      BY <1>1, <2>1, <2>2, <2>3, <2>5 DEF OwnInv, Created
    <2> QED BY <1>3, <2>4, <2>5 DEF CreateEnvironment
  <1>4. ASSUME NEW k \in Tokens, ConfirmCreation(k) PROVE ResumeInv'
    <2>1. UNCHANGED creator
      BY <1>4 DEF ConfirmCreation
    <2>2. CASE UNCHANGED << importVars, exec >>
      BY <1>1, <2>1, <2>2, AvailableStays DEF OwnInv, importVars
    <2>3. CASE /\ told[k] = "success"
               /\ Transition(k, "confirm", "restore")
               /\ EnterImport(k)
               /\ UNCHANGED << env, pollVars >>
      <3>1. env = "AVAILABLE" /\ creator = k
        BY <2>3 DEF Poller!ToldTruth, Poller!Awaited, OwnInv, Created
      <3>2. UNCHANGED << dag, table, active, conf, env, creator >>
        BY <2>1, <2>3 DEF EnterImport, backup, database
      <3>3. token' = [token EXCEPT ![k] = "waiting"]
        BY <2>3 DEF EnterImport
      <3>4. ImportInv'
        BY <3>2, <3>3 DEF ImportInv, OnlyFormerlyActive, States
      <3>5. exec' = [exec EXCEPT ![k] = "restore"]
        BY <2>3
      <3>6. \A r \in Runs : conf[r] # NoToken => conf[r] \in Tokens
        BY DEF ImportInv
      <3>7. exec' \in [Tokens -> ExecStates]
        BY <3>5 DEF OwnInv, ExecStates, InProgress
      <3>8. \A j \in Tokens : token'[j] # "idle" => token[j] # "idle" \/ j = k
        BY <3>3 DEF ImportInv
      <3>9. \A j \in Tokens : token[j] # "idle" => token'[j] # "idle"
        BY <3>3 DEF ImportInv
      <3>10. \A j \in Tokens : exec'[j] \in Created => exec[j] \in Created \/ j = k
        BY <3>5 DEF OwnInv
      <3> QED BY <3>1, <3>2, <3>4, <3>6, <3>7, <3>8, <3>9, <3>10 DEF OwnInv
    <2>4. CASE /\ Transition(k, "confirm", "failed")
               /\ UNCHANGED << importVars, env, pollVars >>
      <3>1. /\ exec' \in [Tokens -> ExecStates]
            /\ \A j \in Tokens : exec'[j] \in Created => exec[j] \in Created
        BY <2>4 DEF OwnInv, Created, ExecStates, InProgress
      <3> QED BY <1>1, <2>1, <2>4, <3>1 DEF OwnInv, importVars
    <2> QED BY <1>4, <2>2, <2>3, <2>4 DEF ConfirmCreation
  <1>5. ASSUME NEW k \in Tokens, TriggerFails(k) \/ TimeOut(k) PROVE ResumeInv'
    <2>1. exec' \in [Tokens -> ExecStates]
          /\ \A j \in Tokens : exec'[j] \in Created => exec[j] \in Created
      BY <1>5 DEF TriggerFails, TimeOut, OwnInv, Created, ExecStates, InProgress
    <2>2. UNCHANGED creator
      BY <1>5 DEF TriggerFails, TimeOut
    <2>3. CASE TokenExpires(k)
      <3>1. UNCHANGED << dag, table, active, conf >>
        BY <2>3 DEF TokenExpires, backup, database
      <3>2. /\ token[k] = "waiting"
            /\ token' = [token EXCEPT ![k] = "expired"]
        BY <2>3 DEF TokenExpires
      <3>3. ImportInv'
        BY <3>1, <3>2 DEF ImportInv, OnlyFormerlyActive, States
      <3>4. \A j \in Tokens : token'[j] = "idle" <=> token[j] = "idle"
        BY <3>2 DEF ImportInv
      <3> QED BY <2>1, <2>2, <3>1, <3>3, <3>4, AvailableStays DEF OwnInv, ImportInv
    <2>4. CASE UNCHANGED importVars
      BY <1>1, <2>1, <2>2, <2>4, AvailableStays DEF OwnInv, importVars
    <2> QED BY <1>5, <2>3, <2>4 DEF TriggerFails, TimeOut
  <1>6. ASSUME NEW k \in Tokens, NEW r \in Runs, TriggerImport(r, k) PROVE ResumeInv'
    <2>1. /\ UNCHANGED << dag, table, active, token, exec, creator, env >>
          /\ conf' = [conf EXCEPT ![r] = k]
          /\ token[k] # "idle"
      BY <1>6 DEF TriggerImport, TriggerRun, workflowVars, backup
    <2> QED BY <2>1 DEF ImportInv, OnlyFormerlyActive, OwnInv
  <1>7. CASE AirflowStep
    <2>1. UNCHANGED << exec, creator, env >> /\ RunStep
      BY <1>7 DEF AirflowStep, workflowVars
    <2> QED BY <2>1, ImportRunStep DEF OwnInv, ImportInv
  <1>8. ASSUME NEW d \in Dags, SchedulerRegisters(d) PROVE ResumeInv'
    <2>1. /\ UNCHANGED << table, active, token, conf, exec, creator, env >>
          /\ dag' = [dag EXCEPT ![d] = "paused"]
      BY <1>8 DEF SchedulerRegisters, Register, workflowVars, backup
    <2> QED BY <2>1 DEF ImportInv, OnlyFormerlyActive, OwnInv
  <1>9. CASE MwaaCreates \/ (\E k \in Tokens : PollerStep(k) \/ PollerTimesOut(k))
    <2>1. UNCHANGED << importVars, exec, creator >>
      BY <1>9 DEF MwaaCreates, PollerStep, PollerTimesOut
    <2> QED BY <1>1, <2>1, AvailableStays DEF OwnInv, importVars
  <1>10. CASE UNCHANGED resumeVars
    <2>1. UNCHANGED << importVars, exec, creator, env >>
      BY <1>10 DEF resumeVars, workflowVars
    <2> QED BY <1>1, <2>1 DEF OwnInv, importVars
  <1> QED
    BY <1>2, <1>3, <1>4, <1>5, <1>6, <1>7, <1>8, <1>9, <1>10
    DEF ResumeNext, ExecutionStep

LEMMA ResumeInvariant == ResumeSpec => []ResumeInv
  BY ResumeInvInit, ResumeInvPreserved, PollerInResume, PTL DEF ResumeSpec

\* Every import runs in the environment its own execution created, and only once
\* that is available: however many executions and runs there are, and whichever
\* call fails or loses its answer.
THEOREM ImportsAreAtHome == ResumeSpec => []ImportInOwnEnvironment
  <1>1. ResumeInv => ImportInOwnEnvironment
    BY DEF ResumeInv, ImportInv, OwnInv, ImportInOwnEnvironment
  <1> QED BY <1>1, ResumeInvariant, PTL

\* No resume starts a DAG that was paused when the environment was: neither the
\* pausing at the start of an import, nor a second run, nor a DAG the scheduler
\* discovers in between makes one active.
THEOREM NothingElseStarts == ResumeSpec => []OnlyFormerlyActive
  BY ResumeInvariant, PTL DEF ResumeInv, ImportInv

-----------------------------------------------------------------------------
(***************************************************************************)
(* What the import promises, in the workflow around it.                    *)
(***************************************************************************)
LEMMA StepOfImport ==
  ASSUME [ResumeNext]_resumeVars
  PROVE  [ImportNext]_importVars
  <1>1. ASSUME NEW k \in Tokens,
               \/ StartExecution(k) \/ ExecutionStep(k) \/ TriggerFails(k) \/ TimeOut(k)
               \/ PollerStep(k) \/ PollerTimesOut(k)
               \/ \E r \in Runs : TriggerImport(r, k)
        PROVE  [ImportNext]_importVars
    <2>1. CASE ExecutionStep(k)
      <3>1. UNCHANGED importVars \/ EnterImport(k)
        BY <2>1 DEF ExecutionStep, RetrieveDetails, CreateEnvironment, ConfirmCreation,
                    ImportAnswered, UpdateEnvironment
      <3> QED BY <3>1 DEF ImportNext
    <2>2. CASE TriggerFails(k) \/ TimeOut(k)
      <3>1. UNCHANGED importVars \/ TokenExpires(k)
        BY <2>2 DEF TriggerFails, TimeOut
      <3> QED BY <3>1 DEF ImportNext
    <2>3. CASE \E r \in Runs : TriggerImport(r, k)
      BY <2>3 DEF TriggerImport, ImportNext
    <2>4. CASE StartExecution(k) \/ PollerStep(k) \/ PollerTimesOut(k)
      BY <2>4 DEF StartExecution, PollerStep, PollerTimesOut
    <2> QED BY <1>1, <2>1, <2>2, <2>3, <2>4
  <1>2. CASE AirflowStep \/ \E d \in Dags : SchedulerRegisters(d)
    BY <1>2 DEF AirflowStep, SchedulerRegisters, ImportNext
  <1>3. CASE MwaaCreates \/ UNCHANGED resumeVars
    BY <1>3 DEF MwaaCreates, resumeVars
  <1> QED BY <1>1, <1>2, <1>3 DEF ResumeNext

LEMMA LoadInvariant == ResumeSpec => [](ResumeInv /\ LoadInv)
  <1>1. ResumeInit => LoadInv
    BY LoadInit DEF ResumeInit
  <1>2. ResumeInv /\ LoadInv /\ [ResumeNext]_resumeVars => LoadInv'
    BY StepOfImport, LoadStep DEF ResumeInv
  <1> QED BY <1>1, <1>2, ResumeInvariant, PTL DEF ResumeSpec

\* Whatever the version, and however the parallel tasks of two runs interleave
\* and fail: no COPY is refused because a row refers to one loaded later.
THEOREM LoadedInOrderOfReferences == ResumeSpec => []LoadedInOrder
  BY LoadInvariant, PTL DEF LoadInv

\* In every version, no DAG becomes active before the runs and the task instances
\* are there by which the scheduler decides what it has still to run.
THEOREM HistoryComesFirst == ResumeSpec => []HistoryFirst
  BY LoadInvariant, PTL DEF LoadInv

\* The types of the whole resuming workflow, its polls and its imports.
THEOREM ResumeTypeCorrect == ResumeSpec => []ResumeTypeOK
  <1> DEFINE Known == stored \in BOOLEAN
  <1>1. ResumeInv /\ LoadInv /\ Poller!TypeOK /\ Known => ResumeTypeOK
    <2> SUFFICES ASSUME ResumeInv, LoadInv, Poller!TypeOK, Known PROVE ResumeTypeOK
      OBVIOUS
    <2>1. ImportTypeOK
      BY DEF ResumeInv, LoadInv, LoadTypes, ImportInv, ImportTypeOK, States, LoadedInOrder
    <2> QED BY <2>1 DEF ResumeTypeOK, ResumeInv, OwnInv
  <1>2. ResumeInit => Known
    BY DEF ResumeInit
  <1>3. Known /\ [ResumeNext]_resumeVars => Known'
    BY DEF ResumeNext, resumeVars, workflowVars, StartExecution, ExecutionStep,
           RetrieveDetails, CreateEnvironment, ConfirmCreation, ImportAnswered,
           UpdateEnvironment, TriggerFails, TimeOut, PollerStep, PollerTimesOut,
           TriggerImport, AirflowStep, MwaaCreates, SchedulerRegisters
  <1> HIDE DEF Known
  <1> QED BY <1>1, <1>2, <1>3, LoadInvariant, PollerInResume, PTL DEF ResumeSpec

-----------------------------------------------------------------------------
\* An execution past the restoration was told of its success.
ToldInv ==
  \A k \in Tokens : exec[k] \in {"update", "succeeded"} => token[k] = "success"

LEMMA ToldStep ==
  ASSUME ResumeInv, ToldInv, [ResumeNext]_resumeVars
  PROVE  ToldInv'
  <1>1. \A k \in Tokens : token[k] = "success" => token'[k] = "success"
    BY StepOfImport, TokensStep DEF ResumeInv
  <1>2. ASSUME NEW k \in Tokens, exec'[k] \in {"update", "succeeded"}
        PROVE  exec[k] \in {"update", "succeeded"} \/ token[k] = "success"
    <2>1. exec \in [Tokens -> ExecStates]
      BY DEF ResumeInv, OwnInv
    <2>2. ASSUME NEW j \in Tokens, ExecutionStep(j)
          PROVE  exec[k] \in {"update", "succeeded"} \/ token[k] = "success"
      BY <1>2, <2>1, <2>2
      DEF ExecutionStep, RetrieveDetails, CreateEnvironment, ConfirmCreation,
          ImportAnswered, UpdateEnvironment, Transition
    <2>3. ASSUME NEW j \in Tokens, StartExecution(j) \/ TriggerFails(j) \/ TimeOut(j)
          PROVE  exec[k] \in {"update", "succeeded"}
      BY <1>2, <2>1, <2>3 DEF StartExecution, TriggerFails, TimeOut, Transition
    <2>4. ASSUME UNCHANGED exec PROVE exec[k] \in {"update", "succeeded"}
      BY <1>2, <2>4
    <2>5. ASSUME NEW j \in Tokens, PollerStep(j) \/ PollerTimesOut(j)
                 \/ \E r \in Runs : TriggerImport(r, j)
          PROVE  UNCHANGED exec
      BY <2>5 DEF PollerStep, PollerTimesOut, TriggerImport, workflowVars
    <2>6. CASE AirflowStep \/ MwaaCreates \/ (\E d \in Dags : SchedulerRegisters(d))
               \/ UNCHANGED resumeVars
      BY <2>4, <2>6 DEF AirflowStep, MwaaCreates, SchedulerRegisters, workflowVars, resumeVars
    <2> QED BY <2>2, <2>3, <2>4, <2>5, <2>6 DEF ResumeNext
  <1> QED BY <1>1, <1>2 DEF ToldInv

\* An execution that ends well created the environment, which is available, was
\* told so by its import, and everything in the bucket is back in place: whichever
\* calls fail, whoever else resumes, and however often the Lambda is invoked.
THEOREM SuccessfulMeansResumed == ResumeSpec => []SuccessMeansResumed
  <1>1. ResumeInit => ToldInv
    BY DEF ResumeInit, ToldInv
  <1>2. ResumeInv /\ LoadInv /\ ToldInv => SuccessMeansResumed
    BY DEF ResumeInv, LoadInv, ToldInv, OwnInv, Created, SuccessMeansResumed
  <1> QED BY <1>1, <1>2, ToldStep, LoadInvariant, PTL DEF ResumeSpec

\* In no version does an import come to rest without an answer, as long as its
\* failure callback works: a task that failed has sent one, and if none failed, all
\* tasks have succeeded, the one that announces success among them.
THEOREM EveryImportAnswers ==
  ASSUME "notify_failure" \notin Faulty
  PROVE  ResumeSpec => []FinishedMeansAnswered
  <1>1. ResumeInit => AnswerInv
    BY AnswerInit DEF ResumeInit
  <1>2. ResumeInv /\ LoadInv /\ AnswerInv /\ [ResumeNext]_resumeVars => AnswerInv'
    BY StepOfImport, AnswerStep DEF ResumeInv, LoadInv
  <1>3. LoadInv /\ AnswerInv => FinishedMeansAnswered
    BY AnswerInvSays DEF LoadInv
  <1> QED BY <1>1, <1>2, <1>3, LoadInvariant, PTL DEF ResumeSpec

=============================================================================
