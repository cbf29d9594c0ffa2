------------------------ MODULE MetadataExportProofs ------------------------
(***************************************************************************)
(* Proofs about MetadataExport, for every set of DAGs, runs and tokens.    *)
(***************************************************************************)
EXTENDS MetadataExport, TLAPS

LEMMA SelectRowsAreRows ==
  ASSUME NEW f
  PROVE  SelectRows(f) \in SUBSET Rows
  BY DEF SelectRows, Rows

LEMMA UploadType ==
  ASSUME TypeOK, NEW r \in Runs, NEW f \in Files, NEW rows \in SUBSET Rows,
         Upload(r, f, rows)
  PROVE  files' \in [Files -> Objects]
  BY DEF TypeOK, Upload, Objects

LEMMA TaskEndsType ==
  ASSUME TypeOK, NEW r \in Runs, NEW t \in Tasks, NEW outcome \in Outcomes,
         conf[r] # NoToken, TaskEnds(r, t, outcome)
  PROVE  st' \in [Runs -> [Tasks -> TaskStates]] /\ token' \in [Tokens -> TokenStates]
  <1>1. st' \in [Runs -> [Tasks -> TaskStates]]
    BY DEF TypeOK, TaskEnds, Outcomes, TaskStates
  <1>2. conf[r] \in Tokens
    BY DEF TypeOK
  <1>3. token' \in [Tokens -> TokenStates]
    BY <1>2 DEF TypeOK, TaskEnds, NotifyFailure, TokenStates
  <1> QED BY <1>1, <1>3

LEMMA TypeInit == ASSUME Init PROVE TypeOK
  <1> USE ExportAssumption
  <1>1. table \in [exists : BOOLEAN, rows : SUBSET Dags]
    <2>1. CASE table = NoTable
      BY <2>1 DEF NoTable
    <2>2. ASSUME NEW S \in InitialTables, table = TableOf(S)
          PROVE  table \in [exists : BOOLEAN, rows : SUBSET Dags]
      <3>1. S \in SUBSET Dags
        OBVIOUS
      <3> QED BY <2>2, <3>1 DEF TableOf
    <2> QED BY <2>1, <2>2 DEF Init
  <1>2. files \in [Files -> Objects]
    BY DEF Init, NoBackup, EarlierBackup, Objects, Rows
  <1>3. ti \in [Dags -> TIStates] /\ token \in [Tokens -> TokenStates]
    BY DEF Init, TIStates, TokenStates
  <1>4. st \in [Runs -> [Tasks -> TaskStates]]
    BY DEF Init, TaskStates
  <1>5. cursor \in [Runs -> 0 .. Len(ObjectsToExport)]
    BY DEF Init
  <1> QED BY <1>1, <1>2, <1>3, <1>4, <1>5 DEF Init, TypeOK

LEMMA TypeTask ==
  ASSUME TypeOK, NEW r \in Runs, NEW t \in Tasks, TaskStep(r, t)
  PROVE  TypeOK'
  <1> USE ExportAssumption DEF database
  <1>1. CASE TaskFails(r, t)
    BY <1>1, TaskEndsType DEF TaskFails, Runnable, Outcomes, TypeOK
  <1>2. CASE Propagate(r, t)
    BY <1>2 DEF Propagate, TypeOK
  <1>3. ASSUME NEW outcome \in Outcomes, BackUpActiveDags(r, outcome),
               t = "back_up_activedags"
        PROVE  TypeOK'
    <2>1. table' \in [exists : BOOLEAN, rows : SUBSET Dags]
      BY <1>3 DEF BackUpActiveDags, TableOf, Active
    <2> QED BY <1>3, <2>1, TaskEndsType DEF BackUpActiveDags, Runnable, TypeOK
  <1>4. ASSUME NEW outcome \in Outcomes, PauseDags(r, outcome), t = "pause_dags"
        PROVE  TypeOK'
    BY <1>4, TaskEndsType DEF PauseDags, Runnable, TypeOK
  <1>5. ASSUME NEW outcome \in Outcomes, ExportActiveDags(r, outcome),
               t = "export_active_dags"
        PROVE  TypeOK'
    <2>1. table.rows \in SUBSET Rows /\ "active_dags" \in Files
      BY DEF TypeOK, Rows, Files
    <2>2. files' \in [Files -> Objects]
      BY <1>5, <2>1, UploadType DEF ExportActiveDags
    <2> QED BY <1>5, <2>2, TaskEndsType DEF ExportActiveDags, Runnable, TypeOK
  <1>6. ASSUME NEW outcome \in Outcomes, NEW s \in Stores, ExportStore(r, s, outcome),
               t = IF s = "variable" THEN "export_variable" ELSE "export_connection"
        PROVE  TypeOK'
    <2>1. store[s] \in SUBSET Rows /\ s \in Files
      BY DEF TypeOK, Rows, Files
    <2>2. files' \in [Files -> Objects]
      BY <1>6, <2>1, UploadType DEF ExportStore, TypeOK
    <2> QED BY <1>6, <2>2, TaskEndsType DEF ExportStore, Runnable, TypeOK
  <1>7. ASSUME NEW outcome \in Outcomes, ExportTable(r, outcome), t = "export_data"
        PROVE  TypeOK'
    <2> DEFINE f == ObjectsToExport[cursor[r] + 1]
    <2>1. cursor[r] + 1 \in 1 .. Len(ObjectsToExport)
      BY <1>7 DEF ExportTable, TypeOK
    <2>2. f \in Files
      BY <2>1 DEF Files
    <2>3. files' \in [Files -> Objects]
      BY <1>7, <2>2, UploadType, SelectRowsAreRows DEF ExportTable
    <2>4. cursor' \in [Runs -> 0 .. Len(ObjectsToExport)]
      BY <1>7, <2>1 DEF ExportTable, TypeOK
    <2>5. st' \in [Runs -> [Tasks -> TaskStates]] /\ token' \in [Tokens -> TokenStates]
      BY <1>7, TaskEndsType DEF ExportTable, Runnable, TypeOK
    <2> QED BY <1>7, <2>3, <2>4, <2>5 DEF ExportTable, TypeOK
  <1>8. ASSUME NEW outcome \in Outcomes, ActivateDagsOnFailure(r, outcome),
               t = "activate_dags_on_failure"
        PROVE  TypeOK'
    <2>1. table' \in [exists : BOOLEAN, rows : SUBSET Dags]
      BY <1>8 DEF ActivateDagsOnFailure, NoTable
    <2>2. paused' \in [Dags -> BOOLEAN]
      BY <1>8 DEF ActivateDagsOnFailure
    <2> QED BY <1>8, <2>1, <2>2, TaskEndsType DEF ActivateDagsOnFailure, Runnable, TypeOK
  <1>9. ASSUME NEW outcome \in Outcomes, NotifySuccess(r, outcome), t = "notify_success"
        PROVE  TypeOK'
    <2>1. st' \in [Runs -> [Tasks -> TaskStates]]
      BY <1>9 DEF NotifySuccess, TypeOK, Outcomes, TaskStates
    <2>2. token' \in [Tokens -> TokenStates]
      BY <1>9 DEF NotifySuccess, TypeOK, TokenStates
    <2> QED BY <1>9, <2>1, <2>2 DEF NotifySuccess, TypeOK
  <1>10. CASE t = "clean_up" /\ CleanUp(r)
    BY <1>10, TaskEndsType DEF CleanUp, Runnable, Outcomes, TypeOK
  <1>11. "variable" \in Stores /\ "connection" \in Stores
    BY DEF Stores
  <1> QED
    BY <1>1, <1>2, <1>3, <1>4, <1>5, <1>6, <1>7, <1>8, <1>9, <1>10, <1>11
    DEF TaskStep

LEMMA TypeWorkflow ==
  ASSUME TypeOK, NEW k \in Tokens,
         \/ EnterExport(k)
         \/ TokenExpires(k)
         \/ DeleteEnvironment(k)
         \/ \E r \in Runs : TriggerRun(r, k)
  PROVE  TypeOK'
  BY DEF EnterExport, TokenExpires, DeleteEnvironment, TriggerRun, TypeOK, TokenStates,
         database

LEMMA TypeEnvironment ==
  ASSUME TypeOK, EnvironmentStep
  PROVE  TypeOK'
  <1> USE ExportAssumption
  <1>1. ASSUME NEW d \in Working, StartTask(d) PROVE TypeOK'
    BY <1>1 DEF StartTask, TypeOK, TIStates
  <1>2. ASSUME NEW d \in Working, NEW s \in {"success", "failed", "up_for_retry"},
               EndTask(d, s)
        PROVE  TypeOK'
    BY <1>2 DEF EndTask, TypeOK, TIStates
  <1>3. ASSUME NEW d \in Dags, UserToggles(d) PROVE TypeOK'
    BY <1>3 DEF UserToggles, TypeOK
  <1> QED BY <1>1, <1>2, <1>3 DEF EnvironmentStep

LEMMA TypePreserved ==
  ASSUME TypeOK, [Next]_vars
  PROVE  TypeOK'
  <1>1. CASE RunStep
    BY <1>1, TypeTask DEF RunStep
  <1>2. CASE WorkflowStep
    BY <1>2, TypeWorkflow DEF WorkflowStep
  <1>3. CASE EnvironmentStep
    BY <1>3, TypeEnvironment
  <1>4. CASE UNCHANGED vars
    BY <1>4 DEF vars, TypeOK
  <1> QED BY <1>1, <1>2, <1>3, <1>4 DEF Next

(***************************************************************************)
(* Type correctness: every variable keeps its type in every environment,   *)
(* whatever runs, failures and users do.                                   *)
(***************************************************************************)
THEOREM TypeCorrect == Spec => []TypeOK
  <1>1. Init => TypeOK
    BY TypeInit
  <1>2. TypeOK /\ [Next]_vars => TypeOK'
    BY TypePreserved
  <1> QED BY <1>1, <1>2, PTL DEF Spec

-----------------------------------------------------------------------------
(***************************************************************************)
(* The trigger rules carry success upwards: a task that succeeded has only *)
(* successful tasks before it, and the token is answered with success on   *)
(* behalf of a run past clean_up.                                          *)
(***************************************************************************)
ChainInv ==
  \A r \in Runs, t \in Tasks :
    st[r][t] = "success" /\ Rule(t) = "all_success" =>
      \A u \in Upstream(t) : st[r][u] = "success"

AnsweredInv ==
  \A k \in Tokens : token[k] = "success" =>
    \E r \in Runs : conf[r] = k /\ st[r]["clean_up"] = "success"

\* What a step of task t of run r does to the tasks' states.
Settles(r, t, state) ==
  /\ st[r][t] = "none"
  /\ st' = [st EXCEPT ![r][t] = state]
  /\ state = "success" => MayStart(st[r], Upstream(t), Rule(t))

LEMMA TaskStepSettles ==
  ASSUME TypeOK, NEW r \in Runs, NEW t \in Tasks, TaskStep(r, t)
  PROVE  /\ UNCHANGED conf
         /\ UNCHANGED st \/ \E state \in TaskStates \ {"none"} : Settles(r, t, state)
  <1> USE DEF database, TaskEnds, Runnable, Settles, Outcomes, TaskStates
  <1>1. CASE TaskFails(r, t)
    BY <1>1 DEF TaskFails
  <1>2. CASE Propagate(r, t)
    <2>1. PICK state \in TaskStates :
            /\ SettledWithoutRun(st[r], Upstream(t), Rule(t), state)
            /\ st' = [st EXCEPT ![r][t] = state]
      BY <1>2 DEF Propagate
    <2>2. state \in {"upstream_failed", "skipped"}
      BY <2>1 DEF SettledWithoutRun
    <2> QED BY <1>2, <2>1, <2>2 DEF Propagate
  <1>3. ASSUME NEW outcome \in Outcomes,
               \/ t = "back_up_activedags" /\ BackUpActiveDags(r, outcome)
               \/ t = "pause_dags" /\ PauseDags(r, outcome)
               \/ t = "export_active_dags" /\ ExportActiveDags(r, outcome)
               \/ t = "activate_dags_on_failure" /\ ActivateDagsOnFailure(r, outcome)
        PROVE  UNCHANGED conf /\ \E state \in TaskStates \ {"none"} : Settles(r, t, state)
    BY <1>3 DEF BackUpActiveDags, PauseDags, ExportActiveDags, ActivateDagsOnFailure
  <1>4. ASSUME NEW outcome \in Outcomes,
               \/ t = "export_variable" /\ ExportStore(r, "variable", outcome)
               \/ t = "export_connection" /\ ExportStore(r, "connection", outcome)
        PROVE  UNCHANGED conf /\ \E state \in TaskStates \ {"none"} : Settles(r, t, state)
    BY <1>4 DEF ExportStore
  <1>5. ASSUME NEW outcome \in Outcomes, t = "export_data", ExportTable(r, outcome)
        PROVE  /\ UNCHANGED conf
               /\ UNCHANGED st \/ \E state \in TaskStates \ {"none"} : Settles(r, t, state)
    BY <1>5 DEF ExportTable
  <1>6. ASSUME NEW outcome \in Outcomes, t = "notify_success", NotifySuccess(r, outcome)
        PROVE  UNCHANGED conf /\ \E state \in TaskStates \ {"none"} : Settles(r, t, state)
    BY <1>6 DEF NotifySuccess
  <1>7. CASE t = "clean_up" /\ CleanUp(r)
    BY <1>7 DEF CleanUp
  <1> QED BY <1>1, <1>2, <1>3, <1>4, <1>5, <1>6, <1>7 DEF TaskStep

LEMMA TaskStepAnswers ==
  ASSUME TypeOK, NEW r \in Runs, NEW t \in Tasks, TaskStep(r, t),
         NEW k \in Tokens, token'[k] = "success"
  PROVE  \/ token[k] = "success"
         \/ /\ t = "notify_success"
            /\ conf[r] = k
            /\ st[r]["clean_up"] = "success"
  <1> USE DEF TypeOK
  <1>1. ASSUME NEW outcome \in Outcomes, NEW u \in Tasks, TaskEnds(r, u, outcome)
        PROVE  token[k] = "success"
    BY <1>1 DEF TaskEnds, NotifyFailure
  <1>2. ASSUME NEW outcome \in Outcomes, NotifySuccess(r, outcome), token[k] # "success"
        PROVE  conf[r] = k /\ st[r]["clean_up"] = "success"
    <2>1. conf[r] = k
      BY <1>2 DEF NotifySuccess
    <2>2. "clean_up" \in Upstream("notify_success") /\ Rule("notify_success") = "all_success"
      BY DEF Upstream, Edges, Before, Tasks, ExportTasks, Rule
    <2> QED BY <1>2, <2>1, <2>2 DEF NotifySuccess, Runnable, MayStart, AllSucceeded
  <1>3. CASE \/ TaskFails(r, t)
             \/ Propagate(r, t)
             \/ t = "clean_up" /\ CleanUp(r)
    BY <1>1, <1>3 DEF TaskFails, Propagate, CleanUp, Outcomes
  <1>4. ASSUME NEW outcome \in Outcomes, t # "notify_success",
               \/ t = "back_up_activedags" /\ BackUpActiveDags(r, outcome)
               \/ t = "pause_dags" /\ PauseDags(r, outcome)
               \/ t = "export_active_dags" /\ ExportActiveDags(r, outcome)
               \/ t = "export_variable" /\ ExportStore(r, "variable", outcome)
               \/ t = "export_connection" /\ ExportStore(r, "connection", outcome)
               \/ t = "export_data" /\ ExportTable(r, outcome)
               \/ t = "activate_dags_on_failure" /\ ActivateDagsOnFailure(r, outcome)
        PROVE  token[k] = "success"
    BY <1>1, <1>4 DEF BackUpActiveDags, PauseDags, ExportActiveDags, ExportStore,
       ExportTable, ActivateDagsOnFailure
  <1> QED BY <1>2, <1>3, <1>4 DEF TaskStep

LEMMA OtherStepsLeaveTasks ==
  ASSUME TypeOK, WorkflowStep \/ EnvironmentStep
  PROVE  /\ UNCHANGED st
         /\ \A r \in Runs : conf[r] # NoToken => conf'[r] = conf[r]
         /\ \A k \in Tokens : token'[k] = "success" => token[k] = "success"
  <1>1. ASSUME NEW k \in Tokens, EnterExport(k) \/ TokenExpires(k) \/ DeleteEnvironment(k)
        PROVE  /\ UNCHANGED << st, conf >>
               /\ \A j \in Tokens : token'[j] = "success" => token[j] = "success"
    BY <1>1 DEF EnterExport, TokenExpires, DeleteEnvironment, TypeOK
  <1>2. ASSUME NEW k \in Tokens, NEW r \in Runs, TriggerRun(r, k)
        PROVE  /\ UNCHANGED << st, token >>
               /\ \A q \in Runs : conf[q] # NoToken => conf'[q] = conf[q]
    BY <1>2 DEF TriggerRun, TypeOK
  <1>3. CASE EnvironmentStep
    BY <1>3 DEF EnvironmentStep, StartTask, EndTask, UserToggles
  <1> QED BY <1>1, <1>2, <1>3 DEF WorkflowStep

LEMMA UpstreamIsTasks == \A t \in Tasks : Upstream(t) \subseteq Tasks
  BY DEF Upstream

LEMMA ChainPreserved ==
  ASSUME TypeOK, ChainInv, [Next]_vars
  PROVE  ChainInv'
  <1>1. ASSUME NEW r \in Runs, NEW t \in Tasks, TaskStep(r, t)
        PROVE  ChainInv'
    <2>1. CASE UNCHANGED st
      BY <2>1 DEF ChainInv
    <2>2. ASSUME NEW state \in TaskStates \ {"none"}, Settles(r, t, state)
          PROVE  ChainInv'
      <3> SUFFICES ASSUME NEW q \in Runs, NEW x \in Tasks, NEW u \in Upstream(x),
                          st'[q][x] = "success", Rule(x) = "all_success"
                   PROVE  st'[q][u] = "success"
        BY DEF ChainInv
      <3>1. u \in Tasks
        BY UpstreamIsTasks
      <3>2. CASE q = r /\ x = t
        <4>1. MayStart(st[r], Upstream(t), Rule(t))
          BY <2>2, <3>2 DEF Settles, TypeOK
        <4>2. st[r][u] = "success"
          BY <3>2, <4>1 DEF MayStart, AllSucceeded
        <4> QED BY <2>2, <3>1, <3>2, <4>2 DEF Settles, TypeOK
      <3>3. CASE ~(q = r /\ x = t)
        <4>1. st[q][x] = "success"
          BY <2>2, <3>3 DEF Settles, TypeOK
        <4>2. st[q][u] = "success"
          BY <4>1 DEF ChainInv
        <4> QED BY <2>2, <3>1, <4>2 DEF Settles, TypeOK
      <3> QED BY <3>2, <3>3
    <2> QED BY <1>1, <2>1, <2>2, TaskStepSettles
  <1>2. CASE WorkflowStep \/ EnvironmentStep
    BY <1>2, OtherStepsLeaveTasks DEF ChainInv
  <1>3. CASE UNCHANGED vars
    BY <1>3 DEF vars, ChainInv
  <1> QED BY <1>1, <1>2, <1>3 DEF Next, RunStep

LEMMA AnsweredPreserved ==
  ASSUME TypeOK, AnsweredInv, [Next]_vars
  PROVE  AnsweredInv'
  <1> USE ExportAssumption
  <1>1. ASSUME NEW r \in Runs, NEW t \in Tasks, TaskStep(r, t)
        PROVE  AnsweredInv'
    <2> SUFFICES ASSUME NEW k \in Tokens, token'[k] = "success"
                 PROVE  \E q \in Runs : conf'[q] = k /\ st'[q]["clean_up"] = "success"
      BY DEF AnsweredInv
    <2>1. PICK q \in Runs : conf[q] = k /\ st[q]["clean_up"] = "success"
      BY <1>1, TaskStepAnswers DEF AnsweredInv
    <2>2. st'[q]["clean_up"] = "success"
      <3>1. CASE UNCHANGED st
        BY <2>1, <3>1
      <3>2. ASSUME NEW state \in TaskStates, Settles(r, t, state)
            PROVE  st'[q]["clean_up"] = "success"
        BY <2>1, <3>2 DEF Settles, TypeOK, Tasks
      <3> QED BY <1>1, <3>1, <3>2, TaskStepSettles
    <2> QED BY <1>1, <2>1, <2>2, TaskStepSettles
  <1>2. CASE WorkflowStep \/ EnvironmentStep
    <2> SUFFICES ASSUME NEW k \in Tokens, token'[k] = "success"
                 PROVE  \E q \in Runs : conf'[q] = k /\ st'[q]["clean_up"] = "success"
      BY DEF AnsweredInv
    <2>1. PICK q \in Runs : conf[q] = k /\ st[q]["clean_up"] = "success"
      BY <1>2, OtherStepsLeaveTasks DEF AnsweredInv
    <2> QED BY <1>2, <2>1, OtherStepsLeaveTasks
  <1>3. CASE UNCHANGED vars
    BY <1>3 DEF vars, AnsweredInv
  <1> QED BY <1>1, <1>2, <1>3 DEF Next, RunStep

LEMMA InvariantsImplyExported ==
  ASSUME ChainInv, AnsweredInv
  PROVE  SuccessMeansExported
  <1> SUFFICES ASSUME NEW r \in Runs, st[r]["clean_up"] = "success"
               PROVE  \A t \in ExportTasks \cup {"back_up_activedags", "pause_dags",
                                                 "clean_up"} : st[r][t] = "success"
    BY DEF AnsweredInv, SuccessMeansExported
  <1> USE DEF Tasks, ExportTasks, Upstream, Edges, Before, Rule
  <1>1. \A t \in ExportTasks : st[r][t] = "success"
    BY DEF ChainInv
  <1>2. st[r]["pause_dags"] = "success"
    BY <1>1 DEF ChainInv
  <1>3. st[r]["back_up_activedags"] = "success"
    BY <1>2 DEF ChainInv
  <1> QED BY <1>1, <1>2, <1>3

(***************************************************************************)
(* The token of the pausing workflow is answered with success only when    *)
(* some run carrying it has backed up, paused and exported everything,     *)
(* however many runs, tokens and failures there are.  The workflow deletes *)
(* the environment on that answer.                                         *)
(***************************************************************************)
THEOREM SuccessIsExported == Spec => []SuccessMeansExported
  <1>1. Init => ChainInv /\ AnsweredInv
    BY DEF Init, ChainInv, AnsweredInv
  <1>2. TypeOK /\ ChainInv /\ AnsweredInv /\ [Next]_vars => ChainInv' /\ AnsweredInv'
    BY ChainPreserved, AnsweredPreserved
  <1>3. ChainInv /\ AnsweredInv => SuccessMeansExported
    BY InvariantsImplyExported
  <1> QED BY <1>1, <1>2, <1>3, TypeCorrect, PTL DEF Spec

-----------------------------------------------------------------------------
(***************************************************************************)
(* The bucket, which all runs share, whatever their number.                *)
(***************************************************************************)
\* A step of a task changes the bucket only through one upload by its run.
LEMMA TaskStepUploads ==
  ASSUME TypeOK, NEW r \in Runs, NEW t \in Tasks, TaskStep(r, t)
  PROVE  \/ UNCHANGED files
         \/ /\ t \in ExportTasks
            /\ st[r][t] = "none"
            /\ \E f \in Files, rows \in SUBSET Rows : Upload(r, f, rows)
  <1> USE DEF database, Runnable, ExportTasks
  <1>1. CASE TaskFails(r, t) \/ Propagate(r, t) \/ (t = "clean_up" /\ CleanUp(r))
    BY <1>1 DEF TaskFails, Propagate, CleanUp
  <1>2. ASSUME NEW outcome \in Outcomes,
               \/ t = "back_up_activedags" /\ BackUpActiveDags(r, outcome)
               \/ t = "pause_dags" /\ PauseDags(r, outcome)
               \/ t = "activate_dags_on_failure" /\ ActivateDagsOnFailure(r, outcome)
               \/ t = "notify_success" /\ NotifySuccess(r, outcome)
        PROVE  UNCHANGED files
    BY <1>2 DEF BackUpActiveDags, PauseDags, ActivateDagsOnFailure, NotifySuccess
  <1>3. ASSUME NEW outcome \in Outcomes, t = "export_active_dags",
               ExportActiveDags(r, outcome)
        PROVE  /\ st[r][t] = "none"
               /\ \E f \in Files, rows \in SUBSET Rows : Upload(r, f, rows)
    <2>1. "active_dags" \in Files /\ table.rows \in SUBSET Rows
      BY DEF Files, TypeOK, Rows
    <2> QED BY <1>3, <2>1 DEF ExportActiveDags
  <1>4. ASSUME NEW outcome \in Outcomes, NEW s \in Stores, ExportStore(r, s, outcome),
               t = IF s = "variable" THEN "export_variable" ELSE "export_connection"
        PROVE  /\ st[r][t] = "none"
               /\ \/ UNCHANGED files
                  \/ \E f \in Files, rows \in SUBSET Rows : Upload(r, f, rows)
    <2>1. s \in Files /\ store[s] \in SUBSET Rows
      BY DEF Files, TypeOK, Rows
    <2> QED BY <1>4, <2>1 DEF ExportStore
  <1>5. ASSUME NEW outcome \in Outcomes, t = "export_data", ExportTable(r, outcome)
        PROVE  /\ st[r][t] = "none"
               /\ \E f \in Files, rows \in SUBSET Rows : Upload(r, f, rows)
    <2>1. cursor[r] + 1 \in 1 .. Len(ObjectsToExport)
      BY <1>5 DEF ExportTable, TypeOK
    <2>2. ObjectsToExport[cursor[r] + 1] \in Files
      BY <2>1 DEF Files
    <2> QED BY <1>5, <2>2, SelectRowsAreRows DEF ExportTable
  <1>6. "variable" \in Stores /\ "connection" \in Stores
    BY DEF Stores
  <1> QED BY <1>1, <1>2, <1>3, <1>4, <1>5, <1>6 DEF TaskStep

LEMMA OtherStepsLeaveBackup ==
  ASSUME WorkflowStep \/ EnvironmentStep
  PROVE  UNCHANGED << files, cursor, table >>
  BY DEF WorkflowStep, EnvironmentStep, EnterExport, TokenExpires, DeleteEnvironment,
         TriggerRun, StartTask, EndTask, UserToggles, database

Written == [by : Runs, rows : SUBSET Rows]

\* What the exports of a run replaced, as far as its tasks got, stays written by
\* some run: it is replaced again, but never removed.
WrittenInv ==
  \A r \in Runs :
    /\ st[r]["export_active_dags"] = "success" => files["active_dags"] \in Written
    /\ \A i \in 1 .. cursor[r] : files[ObjectsToExport[i]] \in Written
    /\ st[r]["export_data"] = "success" => cursor[r] = Len(ObjectsToExport)

LEMMA WrittenStays ==
  ASSUME TypeOK, NEW r \in Runs, NEW t \in Tasks, TaskStep(r, t),
         NEW g \in Files, files[g] \in Written
  PROVE  files'[g] \in Written
  <1>1. ASSUME NEW f \in Files, NEW rows \in SUBSET Rows, Upload(r, f, rows)
        PROVE  files'[g] \in Written
    BY <1>1 DEF Upload, TypeOK, Written
  <1> QED BY <1>1, TaskStepUploads

\* How far a step takes the exports of run r, and no other's.
Progresses(r) ==
  /\ \A q \in Runs \ {r} : st'[q] = st[q] /\ cursor'[q] = cursor[q]
  /\ st'[r]["export_active_dags"] = "success" =>
       st[r]["export_active_dags"] = "success" \/ files'["active_dags"] \in Written
  /\ \/ /\ cursor'[r] = cursor[r]
        /\ st'[r]["export_data"] = "success" => st[r]["export_data"] = "success"
     \/ /\ cursor'[r] = cursor[r] + 1
        /\ cursor[r] + 1 \in 1 .. Len(ObjectsToExport)
        /\ files'[ObjectsToExport[cursor[r] + 1]] \in Written
        /\ st'[r]["export_data"] = "success" => cursor'[r] = Len(ObjectsToExport)

LEMMA WrittenProgress ==
  ASSUME TypeOK, WrittenInv, NEW r \in Runs, NEW t \in Tasks, TaskStep(r, t)
  PROVE  Progresses(r)
  <1> USE DEF database, Runnable, TaskEnds
  <1> DEFINE Leaves(u) == UNCHANGED cursor /\ \E s \in TaskStates : st' = [st EXCEPT ![r][u] = s]
  <1>1. ASSUME NEW u \in Tasks \ {"export_active_dags", "export_data"}, Leaves(u)
        PROVE  Progresses(r)
    BY <1>1 DEF Progresses, TypeOK
  <1>2. Outcomes \subseteq TaskStates
    BY DEF Outcomes, TaskStates
  <1>3. CASE TaskFails(r, t)
    BY <1>3 DEF Progresses, TaskFails, TypeOK
  <1>4. CASE Propagate(r, t)
    <2>1. PICK state \in {"upstream_failed", "skipped"} : st' = [st EXCEPT ![r][t] = state]
      BY <1>4 DEF Propagate, SettledWithoutRun
    <2> QED BY <1>4, <2>1 DEF Progresses, Propagate, TypeOK
  <1>5. ASSUME NEW outcome \in Outcomes,
               \/ t = "back_up_activedags" /\ BackUpActiveDags(r, outcome)
               \/ t = "pause_dags" /\ PauseDags(r, outcome)
               \/ t = "activate_dags_on_failure" /\ ActivateDagsOnFailure(r, outcome)
               \/ t = "notify_success" /\ NotifySuccess(r, outcome)
               \/ t = "export_variable" /\ ExportStore(r, "variable", outcome)
               \/ t = "export_connection" /\ ExportStore(r, "connection", outcome)
               \/ t = "clean_up" /\ CleanUp(r)
        PROVE  Progresses(r)
    <2>1. Leaves(t) /\ t \notin {"export_active_dags", "export_data"}
      BY <1>2, <1>5 DEF BackUpActiveDags, PauseDags, ActivateDagsOnFailure, NotifySuccess,
         ExportStore, CleanUp, Outcomes
    <2> HIDE DEF Leaves
    <2> QED BY <1>1, <2>1
  <1>6. ASSUME NEW outcome \in Outcomes, t = "export_active_dags",
               ExportActiveDags(r, outcome)
        PROVE  Progresses(r)
    <2>1. "active_dags" \in Files /\ table.rows \in SUBSET Rows
      BY DEF Files, TypeOK, Rows
    <2>2. files'["active_dags"] \in Written
      BY <1>6, <2>1 DEF ExportActiveDags, Upload, TypeOK, Written
    <2>3. /\ cursor' = cursor /\ \A q \in Runs \ {r} : st'[q] = st[q]
          /\ st'[r]["export_data"] = st[r]["export_data"]
      BY <1>6 DEF ExportActiveDags, TypeOK, Tasks, ExportTasks
    <2> QED BY <2>2, <2>3 DEF Progresses
  <1>7. ASSUME NEW outcome \in Outcomes, t = "export_data", ExportTable(r, outcome)
        PROVE  Progresses(r)
    <2> DEFINE f == ObjectsToExport[cursor[r] + 1]
    <2>1. cursor[r] + 1 \in 1 .. Len(ObjectsToExport) /\ cursor'[r] = cursor[r] + 1
      BY <1>7 DEF ExportTable, TypeOK
    <2>2. f \in Files /\ SelectRows(f) \in SUBSET Rows
      BY <2>1, SelectRowsAreRows DEF Files
    <2>3. files'[f] \in Written
      BY <1>7, <2>2 DEF ExportTable, Upload, TypeOK, Written
    <2>4. /\ \A q \in Runs \ {r} : st'[q] = st[q] /\ cursor'[q] = cursor[q]
          /\ st'[r]["export_active_dags"] = st[r]["export_active_dags"]
      BY <1>7 DEF ExportTable, TypeOK, Tasks, ExportTasks
    <2>5. st'[r]["export_data"] = "success" => cursor'[r] = Len(ObjectsToExport)
      BY <1>7, <2>1 DEF ExportTable, TypeOK, Tasks, ExportTasks
    <2> QED BY <2>1, <2>3, <2>4, <2>5 DEF Progresses
  <1>8. "success" \in Outcomes
    BY DEF Outcomes
  <1> QED BY <1>3, <1>4, <1>5, <1>6, <1>7, <1>8 DEF TaskStep

LEMMA WrittenPreserved ==
  ASSUME TypeOK, WrittenInv, [Next]_vars
  PROVE  WrittenInv'
  <1>0. /\ "active_dags" \in Files
        /\ \A i \in 1 .. Len(ObjectsToExport) : ObjectsToExport[i] \in Files
    BY DEF Files
  <1>1. ASSUME NEW r \in Runs, NEW t \in Tasks, TaskStep(r, t) PROVE WrittenInv'
    <2>1. \A g \in Files : files[g] \in Written => files'[g] \in Written
      BY <1>1, WrittenStays
    <2>2. \A q \in Runs : cursor[q] \in 0 .. Len(ObjectsToExport)
      BY DEF TypeOK
    <2>3. \A q \in Runs : \A i \in 1 .. cursor[q] : files'[ObjectsToExport[i]] \in Written
      BY <1>0, <2>1, <2>2 DEF WrittenInv
    <2>4. \A q \in Runs : st[q]["export_active_dags"] = "success" =>
                            files'["active_dags"] \in Written
      BY <1>0, <2>1 DEF WrittenInv
    <2>5. \A i \in 1 .. cursor'[r] : files'[ObjectsToExport[i]] \in Written
      <3> SUFFICES ASSUME NEW i \in 1 .. cursor'[r]
                   PROVE  files'[ObjectsToExport[i]] \in Written
        OBVIOUS
      <3>1. \/ cursor'[r] = cursor[r]
            \/ /\ cursor'[r] = cursor[r] + 1
               /\ files'[ObjectsToExport[cursor[r] + 1]] \in Written
        BY <1>1, WrittenProgress DEF Progresses
      <3>2. CASE i \in 1 .. cursor[r]
        BY <2>3, <3>2
      <3>3. CASE i \notin 1 .. cursor[r]
        <4>1. i = cursor[r] + 1 /\ cursor'[r] = cursor[r] + 1
          BY <2>2, <3>1, <3>3
        <4> QED BY <3>1, <4>1, <2>2
      <3> QED BY <3>2, <3>3
    <2>6. st'[r]["export_active_dags"] = "success" => files'["active_dags"] \in Written
      BY <1>1, <2>4, WrittenProgress DEF Progresses
    <2>7. st'[r]["export_data"] = "success" => cursor'[r] = Len(ObjectsToExport)
      BY <1>1, WrittenProgress DEF Progresses, WrittenInv
    <2>8. \A q \in Runs \ {r} : st'[q] = st[q] /\ cursor'[q] = cursor[q]
      BY <1>1, WrittenProgress DEF Progresses
    <2>9. Written' = Written
      BY DEF Written, Rows
    <2>10. ASSUME NEW q \in Runs
           PROVE  /\ st'[q]["export_active_dags"] = "success" =>
                       files'["active_dags"] \in Written
                  /\ \A i \in 1 .. cursor'[q] : files'[ObjectsToExport[i]] \in Written
                  /\ st'[q]["export_data"] = "success" => cursor'[q] = Len(ObjectsToExport)
      <3>1. CASE q = r
        BY <2>5, <2>6, <2>7, <3>1
      <3>2. CASE q # r
        BY <2>3, <2>4, <2>8, <3>2 DEF WrittenInv
      <3> QED BY <3>1, <3>2
    <2> QED BY <2>9, <2>10 DEF WrittenInv
  <1>2. CASE WorkflowStep \/ EnvironmentStep
    BY <1>2, OtherStepsLeaveBackup, OtherStepsLeaveTasks DEF WrittenInv, Written, Rows
  <1>3. CASE UNCHANGED vars
    BY <1>3 DEF vars, WrittenInv, Written, Rows
  <1> QED BY <1>1, <1>2, <1>3 DEF Next, RunStep

(***************************************************************************)
(* A success reports a backup that is complete and of now: no table is     *)
(* missing, none is left over from an earlier pause.                       *)
(***************************************************************************)
THEOREM SuccessIsBackedUp ==
  Spec => []((\E k \in Tokens : token[k] = "success") =>
               \A f \in Files \ Stores : files[f] \in Written)
  <1>1. Init => WrittenInv
    BY DEF Init, WrittenInv, Tasks, ExportTasks
  <1>2. TypeOK /\ WrittenInv /\ [Next]_vars => WrittenInv'
    BY WrittenPreserved
  <1>3. TypeOK /\ WrittenInv /\ SuccessMeansExported =>
          ((\E k \in Tokens : token[k] = "success") =>
             \A f \in Files \ Stores : files[f] \in Written)
    <2> SUFFICES ASSUME TypeOK, WrittenInv, SuccessMeansExported,
                        NEW k \in Tokens, token[k] = "success"
                 PROVE  \A f \in Files \ Stores : files[f] \in Written
      OBVIOUS
    <2>1. PICK r \in Runs : /\ st[r]["export_active_dags"] = "success"
                            /\ st[r]["export_data"] = "success"
      BY DEF SuccessMeansExported, ExportTasks
    <2> QED BY <2>1 DEF WrittenInv, Files, TypeOK
  <1> QED BY <1>1, <1>2, <1>3, TypeCorrect, SuccessIsExported, PTL DEF Spec

-----------------------------------------------------------------------------
(***************************************************************************)
(* From here on: what one run of mwaa_export_data guarantees when it is    *)
(* alone in its environment, for every set of DAGs and tokens.  With two   *)
(* runs each of these properties can fail: they share the database and the *)
(* bucket.                                                                 *)
(***************************************************************************)
\* A success answered by the single run reports a backup that run wrote itself,
\* down to the last table.
THEOREM SingleBackupOfOneRun ==
  ASSUME NEW CONSTANT r0, Runs = {r0}
  PROVE  Spec => []BackupOfOneRun
  <1>1. SuccessMeansExported
        /\ ((\E k \in Tokens : token[k] = "success") =>
              \A f \in Files \ Stores : files[f] \in Written)
        => BackupOfOneRun
    BY DEF SuccessMeansExported, BackupOfOneRun, Written
  <1> QED BY <1>1, SuccessIsExported, SuccessIsBackedUp, PTL

-----------------------------------------------------------------------------
(***************************************************************************)
(* The active DAGs across a pause nobody else touches.  W is what the user *)
(* wants active; it does not change.  The table, once written, is W; what  *)
(* is active is W or nothing.                                              *)
(***************************************************************************)
W == {d \in Dags : wish[d]}

\* A task is settled only after one of the tasks before it.
SettledInv ==
  \A r \in Runs, t \in Tasks :
    st[r][t] # "none" /\ Upstream(t) # {} => \E u \in Upstream(t) : st[r][u] # "none"

DagsInv ==
  /\ table.exists => table.rows = W
  /\ Active = W \/ Active = {}
  /\ \A r \in Runs :
       /\ st[r]["back_up_activedags"] = "none" => Active = W /\ ~table.exists
       /\ st[r]["activate_dags_on_failure"] = "success" => Active = W
       /\ st[r]["export_active_dags"] = "success" => files["active_dags"].rows = W

LEMMA SettledPreserved ==
  ASSUME TypeOK, SettledInv, [Next]_vars
  PROVE  SettledInv'
  <1>1. ASSUME NEW r \in Runs, NEW t \in Tasks, TaskStep(r, t),
               NEW state \in TaskStates \ {"none"}, st[r][t] = "none",
               st' = [st EXCEPT ![r][t] = state],
               Upstream(t) # {} => \E u \in Upstream(t) : st[r][u] # "none"
        PROVE  SettledInv'
    <2> SUFFICES ASSUME NEW q \in Runs, NEW x \in Tasks, st'[q][x] # "none",
                        Upstream(x) # {}
                 PROVE  \E u \in Upstream(x) : st'[q][u] # "none"
      BY DEF SettledInv
    <2>1. PICK u \in Upstream(x) : st[q][u] # "none"
      BY <1>1 DEF SettledInv, TypeOK
    <2> QED BY <1>1, <2>1, UpstreamIsTasks DEF TypeOK
  <1>2. ASSUME NEW r \in Runs, NEW t \in Tasks, MayStart(st[r], Upstream(t), Rule(t)),
               Upstream(t) # {}
        PROVE  \E u \in Upstream(t) : st[r][u] # "none"
    BY <1>2 DEF MayStart, AllSucceeded, AnyFailed
  <1>3. ASSUME NEW r \in Runs, NEW t \in Tasks, TaskStep(r, t)
        PROVE  SettledInv'
    <2>1. CASE Propagate(r, t)
      <3>1. PICK state \in TaskStates :
              /\ SettledWithoutRun(st[r], Upstream(t), Rule(t), state)
              /\ st' = [st EXCEPT ![r][t] = state]
              /\ st[r][t] = "none"
        BY <2>1 DEF Propagate
      <3>2. /\ state # "none"
            /\ Upstream(t) # {} => \E u \in Upstream(t) : st[r][u] # "none"
        BY <3>1 DEF SettledWithoutRun, AnyFailed, AllSettled
      <3> QED BY <1>1, <1>3, <3>1, <3>2
    <2>2. CASE UNCHANGED st
      BY <2>2 DEF SettledInv
    <2>3. CASE ~Propagate(r, t) /\ ~UNCHANGED st
      <3>1. MayStart(st[r], Upstream(t), Rule(t))
        BY <1>3, <2>3 DEF TaskStep, TaskFails, BackUpActiveDags, PauseDags,
           ExportActiveDags, ExportStore, ExportTable, ActivateDagsOnFailure,
           NotifySuccess, CleanUp, Runnable
      <3>2. PICK state \in TaskStates \ {"none"} : Settles(r, t, state)
        BY <1>3, <2>3, TaskStepSettles
      <3> QED BY <1>1, <1>2, <1>3, <3>1, <3>2 DEF Settles
    <2> QED BY <2>1, <2>2, <2>3
  <1>4. CASE WorkflowStep \/ EnvironmentStep
    BY <1>4, OtherStepsLeaveTasks DEF SettledInv
  <1>5. CASE UNCHANGED vars
    BY <1>5 DEF vars, SettledInv
  <1> QED BY <1>3, <1>4, <1>5 DEF Next, RunStep

LEMMA UpstreamSets ==
  /\ Upstream("pause_dags") = {"back_up_activedags"}
  /\ \A t \in ExportTasks : Upstream(t) = {"pause_dags"}
  /\ Upstream("clean_up") = ExportTasks
  /\ Upstream("activate_dags_on_failure") = {"clean_up"}
  /\ Upstream("notify_success") = {"clean_up"}
  BY DEF Upstream, Edges, Before, Tasks, ExportTasks

\* While the backup task has not run, nothing after it has.
LEMMA NothingBeforeBackUp ==
  ASSUME TypeOK, SettledInv, NEW r \in Runs, st[r]["back_up_activedags"] = "none"
  PROVE  \A t \in Tasks : st[r][t] = "none"
  <1>1. st[r]["pause_dags"] = "none"
    BY UpstreamSets DEF SettledInv, Tasks
  <1>2. \A t \in ExportTasks : st[r][t] = "none"
    BY <1>1, UpstreamSets DEF SettledInv, Tasks
  <1>3. st[r]["clean_up"] = "none"
    <2>1. Upstream("clean_up") # {}
      BY UpstreamSets DEF ExportTasks
    <2> QED BY <1>2, <2>1, UpstreamSets DEF SettledInv, Tasks
  <1>4. st[r]["activate_dags_on_failure"] = "none" /\ st[r]["notify_success"] = "none"
    BY <1>3, UpstreamSets DEF SettledInv, Tasks
  <1> QED BY <1>1, <1>2, <1>3, <1>4 DEF Tasks

\* Steps that touch neither the DAGs nor what was saved of them.
LEMMA DagsUnchanged ==
  ASSUME DagsInv, UNCHANGED << table, paused, wish >>,
         files'["active_dags"] = files["active_dags"],
         \A r \in Runs :
           /\ st'[r]["back_up_activedags"] = "none" => st[r]["back_up_activedags"] = "none"
           /\ \A t \in {"activate_dags_on_failure", "export_active_dags"} :
                st'[r][t] = "success" => st[r][t] = "success"
  PROVE  DagsInv'
  <1>1. W' = W /\ Active' = Active
    BY DEF W, Active
  <1> QED BY <1>1 DEF DagsInv

LEMMA DagsTask ==
  ASSUME TypeOK, ChainInv, SettledInv, DagsInv,
         NEW r \in Runs, Runs = {r}, NEW t \in Tasks, TaskStep(r, t)
  PROVE  DagsInv'
  <1> USE ExportAssumption DEF database, Runnable, TaskEnds
  <1>1. W' = W
    <2>1. wish' = wish
      BY DEF TaskStep, TaskFails, BackUpActiveDags, PauseDags,
           ExportActiveDags, ExportStore, ExportTable, ActivateDagsOnFailure,
           NotifySuccess, CleanUp, Propagate
    <2> QED BY <2>1 DEF W
  <1>2. W \subseteq Dags /\ Active \subseteq Dags
    BY DEF W, Active
  <1>3. ASSUME NEW x \in Tasks, NEW state \in TaskStates,
               x \notin {"activate_dags_on_failure", "export_active_dags"}
                 \/ state # "success",
               state # "none",
               st[r][x] = "none", st' = [st EXCEPT ![r][x] = state],
               files'["active_dags"] = files["active_dags"],
               UNCHANGED << table, paused, wish >>
        PROVE  DagsInv'
    BY <1>3, DagsUnchanged DEF TypeOK, Tasks, ExportTasks
  <1>4. CASE TaskFails(r, t)
    BY <1>3, <1>4 DEF TaskFails, TaskStates
  <1>5. CASE Propagate(r, t)
    <2>1. PICK state \in {"upstream_failed", "skipped"} : st' = [st EXCEPT ![r][t] = state]
      BY <1>5 DEF Propagate, SettledWithoutRun
    <2> QED BY <1>3, <1>5, <2>1 DEF Propagate, TaskStates
  <1>6. ASSUME NEW outcome \in Outcomes, t = "back_up_activedags",
               BackUpActiveDags(r, outcome)
        PROVE  DagsInv'
    <2>1. \A x \in Tasks : st[r][x] = "none"
      BY <1>6, NothingBeforeBackUp DEF BackUpActiveDags
    <2>2. Active = W
      BY <2>1 DEF DagsInv, Tasks
    <2>3. table'.exists /\ table'.rows = W
      BY <1>6, <2>2 DEF BackUpActiveDags, TableOf
    <2>4. Active' = W
      BY <1>6, <2>2 DEF BackUpActiveDags, Active
    <2>5. /\ st'[r]["activate_dags_on_failure"] # "success"
          /\ st'[r]["export_active_dags"] # "success"
      BY <1>6, <2>1 DEF BackUpActiveDags, TypeOK, Tasks, ExportTasks
    <2>6. st'[r]["back_up_activedags"] # "none"
      BY <1>6 DEF BackUpActiveDags, TaskEnds, Outcomes, TypeOK, Tasks
    <2> QED BY <1>1, <2>3, <2>4, <2>5, <2>6 DEF DagsInv
  <1>7. ASSUME NEW outcome \in Outcomes, t = "pause_dags", PauseDags(r, outcome)
        PROVE  DagsInv'
    <2>1. st[r]["back_up_activedags"] # "none"
      BY <1>7, UpstreamSets DEF PauseDags, MayStart, AllSucceeded, AnyFailed
    <2>2. st[r]["activate_dags_on_failure"] = "none"
      <3>1. \A x \in ExportTasks : st[r][x] = "none"
        BY <1>7, UpstreamSets DEF PauseDags, SettledInv, Tasks
      <3>2. st[r]["clean_up"] = "none"
        <4>1. Upstream("clean_up") # {}
          BY UpstreamSets DEF ExportTasks
        <4> QED BY <3>1, <4>1, UpstreamSets DEF SettledInv, Tasks
      <3> QED BY <3>2, UpstreamSets DEF SettledInv, Tasks
    <2>3. Active' = {}
      BY <1>7 DEF PauseDags, Active
    <2>4. /\ st'[r]["back_up_activedags"] = st[r]["back_up_activedags"]
          /\ st'[r]["activate_dags_on_failure"] = "none"
          /\ st'[r]["export_active_dags"] = st[r]["export_active_dags"]
      BY <1>7, <2>2 DEF PauseDags, TypeOK, Tasks, ExportTasks
    <2> QED BY <1>1, <1>7, <2>1, <2>3, <2>4 DEF DagsInv, PauseDags
  <1>8. ASSUME NEW outcome \in Outcomes, t = "export_active_dags",
               ExportActiveDags(r, outcome)
        PROVE  DagsInv'
    <2>1. files'["active_dags"].rows = W
      BY <1>8 DEF ExportActiveDags, Upload, TypeOK, Files, DagsInv
    <2>2. Active' = Active
      BY <1>8 DEF ExportActiveDags, Active
    <2>3. /\ st'[r]["back_up_activedags"] = st[r]["back_up_activedags"]
          /\ st'[r]["activate_dags_on_failure"] = st[r]["activate_dags_on_failure"]
      BY <1>8 DEF ExportActiveDags, TypeOK, Tasks, ExportTasks
    <2> QED BY <1>1, <1>8, <2>1, <2>2, <2>3 DEF DagsInv, ExportActiveDags
  <1>9. ASSUME NEW outcome \in Outcomes, NEW s \in Stores, ExportStore(r, s, outcome),
               t = IF s = "variable" THEN "export_variable" ELSE "export_connection"
        PROVE  DagsInv'
    <2>1. files'["active_dags"] = files["active_dags"]
      BY <1>9 DEF ExportStore, Upload, TypeOK, Files, Stores
    <2> QED BY <1>3, <1>9, <2>1 DEF ExportStore, Outcomes, TaskStates
  <1>10. ASSUME NEW outcome \in Outcomes, t = "export_data", ExportTable(r, outcome)
         PROVE  DagsInv'
    <2>1. files'["active_dags"] = files["active_dags"]
      <3>1. cursor[r] + 1 \in DOMAIN ObjectsToExport
        BY <1>10 DEF ExportTable, TypeOK
      <3>2. ObjectsToExport[cursor[r] + 1] # "active_dags"
        BY <3>1
      <3> QED BY <1>10, <3>2 DEF ExportTable, Upload, TypeOK
    <2>2. CASE UNCHANGED st
      BY <1>10, <2>1, <2>2, DagsUnchanged DEF ExportTable
    <2>3. CASE ~UNCHANGED st
      BY <1>3, <1>10, <2>1, <2>3 DEF ExportTable, Outcomes, TaskStates
    <2> QED BY <2>2, <2>3
  <1>11. ASSUME NEW outcome \in Outcomes, t = "activate_dags_on_failure",
                ActivateDagsOnFailure(r, outcome)
         PROVE  DagsInv'
    <2>1. table.rows = W
      BY <1>11 DEF ActivateDagsOnFailure, DagsInv
    <2>2. Active' = Active \cup W
      BY <1>2, <1>11, <2>1 DEF ActivateDagsOnFailure, Active, TypeOK
    <2>3. Active' = W
      BY <2>2 DEF DagsInv
    <2>4. ~table'.exists
      BY <1>11 DEF ActivateDagsOnFailure, NoTable
    <2>5. /\ st'[r]["back_up_activedags"] = st[r]["back_up_activedags"]
          /\ st'[r]["export_active_dags"] = st[r]["export_active_dags"]
      BY <1>11 DEF ActivateDagsOnFailure, TypeOK, Tasks, ExportTasks
    <2> QED BY <1>1, <1>11, <2>3, <2>4, <2>5 DEF DagsInv, ActivateDagsOnFailure
  <1>12. ASSUME NEW outcome \in Outcomes, t = "notify_success", NotifySuccess(r, outcome)
         PROVE  DagsInv'
    BY <1>3, <1>12 DEF NotifySuccess, Outcomes, TaskStates
  <1>13. CASE t = "clean_up" /\ CleanUp(r)
    BY <1>3, <1>13 DEF CleanUp, TaskStates
  <1>14. "variable" \in Stores /\ "connection" \in Stores
    BY DEF Stores
  <1> QED BY <1>4, <1>5, <1>6, <1>7, <1>8, <1>9, <1>10, <1>11, <1>12, <1>13, <1>14
      DEF TaskStep

\* A user's change is the pause's own until the backup: nothing was saved yet.
LEMMA DagsToggle ==
  ASSUME NEW r0, Runs = {r0}, UserActive = FALSE,
         TypeOK, SettledInv, DagsInv, NEW d \in Dags, UserToggles(d)
  PROVE  DagsInv'
  <1>1. st[r0]["back_up_activedags"] = "none"
    BY DEF UserToggles, BackupAhead
  <1>2. st[r0]["pause_dags"] = "none"
    BY <1>1, UpstreamSets DEF SettledInv, Tasks
  <1>3. st[r0]["export_active_dags"] = "none"
    BY <1>2, UpstreamSets DEF SettledInv, Tasks, ExportTasks
  <1>4. Active = W /\ ~table.exists
    BY <1>1 DEF DagsInv
  <1>5. Active' = W'
    BY <1>4 DEF UserToggles, Active, W, TypeOK
  <1>6. UNCHANGED << table, st, files >>
    BY DEF UserToggles
  <1> QED BY <1>3, <1>4, <1>5, <1>6 DEF DagsInv

LEMMA DagsPreserved ==
  ASSUME NEW r0, Runs = {r0}, UserActive = FALSE,
         TypeOK, ChainInv, SettledInv, DagsInv, [Next]_vars
  PROVE  DagsInv'
  <1>1. ASSUME NEW r \in Runs, NEW t \in Tasks, TaskStep(r, t) PROVE DagsInv'
    BY <1>1, DagsTask
  <1>2. CASE WorkflowStep \/ EnvironmentStep
    <2>1. CASE UNCHANGED << paused, wish >>
      BY <1>2, <2>1, DagsUnchanged, OtherStepsLeaveBackup, OtherStepsLeaveTasks
    <2>2. CASE \E d \in Dags : UserToggles(d)
      BY <2>2, DagsToggle
    <2> QED
      BY <1>2, <2>1, <2>2 DEF WorkflowStep, EnvironmentStep, EnterExport, TokenExpires,
         DeleteEnvironment, TriggerRun, StartTask, EndTask, database
  <1>3. CASE UNCHANGED vars
    BY <1>3, DagsUnchanged DEF vars
  <1> QED BY <1>1, <1>2, <1>3 DEF Next, RunStep

LEMMA DagsInvariant ==
  ASSUME NEW CONSTANT r0, Runs = {r0}, UserActive = FALSE, InitialTables = {}
  PROVE  Spec => []DagsInv
  <1>1. Init => ChainInv /\ SettledInv /\ DagsInv
    <2> SUFFICES ASSUME Init PROVE ChainInv /\ SettledInv /\ DagsInv
      OBVIOUS
    <2>1. ChainInv /\ SettledInv
      BY DEF Init, ChainInv, SettledInv
    <2>2. ~table.exists
      BY DEF Init, NoTable
    <2>3. Active = W
      BY DEF Init, Active, W
    <2> QED BY <2>1, <2>2, <2>3 DEF Init, DagsInv, Tasks, ExportTasks
  <1>2. TypeOK /\ ChainInv /\ SettledInv /\ DagsInv /\ [Next]_vars =>
          ChainInv' /\ SettledInv' /\ DagsInv'
    BY ChainPreserved, SettledPreserved, DagsPreserved
  <1> QED BY <1>1, <1>2, TypeCorrect, PTL DEF Spec

(***************************************************************************)
(* With one run and no user toggling DAGs after the backup, a success      *)
(* reports a backup naming exactly the DAGs the user had active: pausing   *)
(* them first has not hidden any from the export.                          *)
(***************************************************************************)
THEOREM SingleActiveDagsSaved ==
  ASSUME NEW CONSTANT r0, Runs = {r0}, UserActive = FALSE, InitialTables = {}
  PROVE  Spec => []ActiveDagsSaved
  <1>1. DagsInv /\ SuccessMeansExported => ActiveDagsSaved
    BY DEF DagsInv, W, SuccessMeansExported, ActiveDagsSaved, ExportTasks
  <1> QED BY <1>1, DagsInvariant, SuccessIsExported, PTL

(***************************************************************************)
(* Under the same assumptions a failed export whose compensating task      *)
(* succeeded has given the environment back its active DAGs, no more and   *)
(* no fewer.                                                               *)
(***************************************************************************)
THEOREM SingleUndoRestoresDags ==
  ASSUME NEW CONSTANT r0, Runs = {r0}, UserActive = FALSE, InitialTables = {}
  PROVE  Spec => []UndoneExportRestoresDags
  <1>1. DagsInv => UndoneExportRestoresDags
    BY DEF DagsInv, W, UndoneExportRestoresDags
  <1> QED BY <1>1, DagsInvariant, PTL

-----------------------------------------------------------------------------
(***************************************************************************)
(* The rows of the tables that refer to each other.  While everything is   *)
(* paused no DAG gets its first task instance, so the DAGs that have a DAG *)
(* run are the same for every table the loop of export_data reads, in      *)
(* whatever order: all of them are in dag_run, and task_instance has rows  *)
(* of no others.  That ends when the compensating task gives the DAGs      *)
(* back, which may happen while export_data is still running.              *)
(***************************************************************************)
HaveRuns(r) == {d \in Dags : ti[d] # "absent"} \cup {r}

Holding(r) ==
  /\ st[r]["pause_dags"] = "success"
  /\ st[r]["activate_dags_on_failure"] \notin Outcomes

RunsInv ==
  \A r \in Runs :
    /\ st[r]["pause_dags"] # "success" => cursor[r] = 0
    /\ Holding(r) =>
         /\ \A d \in Dags : paused[d]
         /\ \A i \in 1 .. cursor[r] :
              /\ ObjectsToExport[i] = "dag_run" =>
                   HaveRuns(r) \subseteq files["dag_run"].rows
              /\ ObjectsToExport[i] = "task_instance" =>
                   files["task_instance"].rows \subseteq HaveRuns(r)

\* The compensating task is executed only after clean_up was given up.
UndoneInv ==
  \A r \in Runs : st[r]["activate_dags_on_failure"] \in Outcomes =>
    st[r]["clean_up"] \in {"failed", "upstream_failed"}

\* Steps that neither pause, start nor select anything.
LEMMA RunsUnchanged ==
  ASSUME RunsInv, UNCHANGED << paused, ti, cursor >>,
         \A f \in {"dag_run", "task_instance"} : files'[f] = files[f],
         \A r \in Runs : st'[r]["pause_dags"] = "success" <=> st[r]["pause_dags"] = "success",
         \A r \in Runs : Holding(r)' => Holding(r)
  PROVE  RunsInv'
  <1> SUFFICES ASSUME NEW r \in Runs
               PROVE  /\ st'[r]["pause_dags"] # "success" => cursor'[r] = 0
                      /\ Holding(r)' =>
                           /\ \A d \in Dags : paused'[d]
                           /\ \A i \in 1 .. cursor'[r] :
                                /\ ObjectsToExport[i] = "dag_run" =>
                                     HaveRuns(r)' \subseteq files'["dag_run"].rows
                                /\ ObjectsToExport[i] = "task_instance" =>
                                     files'["task_instance"].rows \subseteq HaveRuns(r)'
    BY DEF RunsInv
  <1>1. HaveRuns(r)' = HaveRuns(r)
    BY DEF HaveRuns
  <1> QED BY <1>1 DEF RunsInv

LEMMA RunsPauseDags ==
  ASSUME TypeOK, RunsInv, NEW r \in Runs, Runs = {r}, NEW outcome \in Outcomes,
         PauseDags(r, outcome)
  PROVE  RunsInv'
  <1>1. st[r]["pause_dags"] = "none"
    BY DEF PauseDags, Runnable
  <1>2. cursor'[r] = 0
    BY <1>1 DEF RunsInv, PauseDags
  <1>3. \A d \in Dags : paused'[d]
    BY DEF PauseDags
  <1> QED BY <1>2, <1>3 DEF RunsInv

\* Each of the two tables as its SELECT returns it.
LEMMA SelectedRows ==
  ASSUME NEW r \in Runs, Runs = {r}, conf[r] # NoToken
  PROVE  /\ HaveRuns(r) \subseteq SelectRows("dag_run")
         /\ SelectRows("task_instance") \subseteq HaveRuns(r)
  BY DEF HaveRuns, SelectRows, HasRun, HasInstance, Triggered

LEMMA RunsExportTable ==
  ASSUME TypeOK, RunsInv, NEW r \in Runs, Runs = {r}, NEW outcome \in Outcomes,
         ExportTable(r, outcome)
  PROVE  RunsInv'
  <1> USE ExportAssumption
  <1>1. st[r]["pause_dags"] = "success"
    <2>1. "pause_dags" \in Upstream("export_data") /\ Rule("export_data") = "all_success"
      BY UpstreamSets DEF ExportTasks, Rule
    <2> QED BY <2>1 DEF ExportTable, Runnable, MayStart, AllSucceeded
  <1>2. \A x \in Tasks : x # "export_data" => st'[r][x] = st[r][x]
    BY DEF ExportTable, TaskEnds, TypeOK
  <1>3. /\ st'[r]["pause_dags"] = "success"
        /\ Holding(r)' => Holding(r)
    BY <1>1, <1>2 DEF Holding, Tasks, ExportTasks
  <1>4. UNCHANGED << paused, ti >> /\ HaveRuns(r)' = HaveRuns(r)
    BY DEF ExportTable, database, HaveRuns
  <1>5. PICK f : f = ObjectsToExport[cursor[r] + 1]
    OBVIOUS
  <1>6. cursor[r] \in Nat /\ cursor'[r] = cursor[r] + 1 /\ cursor'[r] \in 1 .. Len(ObjectsToExport)
    BY DEF ExportTable, TypeOK
  <1>7. f \in Files /\ \A i \in 1 .. cursor'[r] : ObjectsToExport[i] \in Files
    BY <1>5, <1>6 DEF Files
  <1>8. /\ files'[f].rows = SelectRows(f)
        /\ \A g \in Files : g # f => files'[g] = files[g]
    BY <1>5, <1>7 DEF ExportTable, Upload, TypeOK
  <1>9. conf[r] # NoToken
    BY DEF ExportTable, Runnable
  <1>10. ASSUME Holding(r)', NEW i \in 1 .. cursor'[r]
         PROVE  /\ ObjectsToExport[i] = "dag_run" =>
                     HaveRuns(r) \subseteq files'["dag_run"].rows
                /\ ObjectsToExport[i] = "task_instance" =>
                     files'["task_instance"].rows \subseteq HaveRuns(r)
    <2>1. CASE ObjectsToExport[i] = f
      BY <2>1, <1>8, <1>9, SelectedRows
    <2>2. CASE ObjectsToExport[i] # f
      <3>1. i \in 1 .. cursor[r]
        BY <1>5, <1>6, <2>2
      <3>2. /\ ObjectsToExport[i] = "dag_run" => HaveRuns(r) \subseteq files["dag_run"].rows
            /\ ObjectsToExport[i] = "task_instance" =>
                 files["task_instance"].rows \subseteq HaveRuns(r)
        BY <3>1, <1>3, <1>10 DEF RunsInv
      <3> QED BY <3>2, <2>2, <1>7, <1>8
    <2> QED BY <2>1, <2>2
  <1>11. Holding(r)' => \A d \in Dags : paused'[d]
    BY <1>3, <1>4 DEF RunsInv
  <1> QED BY <1>3, <1>4, <1>10, <1>11 DEF RunsInv

LEMMA RunsTask ==
  ASSUME TypeOK, RunsInv, NEW r \in Runs, Runs = {r}, NEW t \in Tasks, TaskStep(r, t)
  PROVE  RunsInv'
  <1> USE ExportAssumption DEF database
  <1>1. ASSUME NEW x \in Tasks, NEW state \in TaskStates,
               st[r][x] = "none", st' = [st EXCEPT ![r][x] = state],
               x = "pause_dags" => state # "success",
               UNCHANGED << paused, ti, cursor >>,
               \A f \in {"dag_run", "task_instance"} : files'[f] = files[f]
        PROVE  RunsInv'
    <2>1. \A q \in Runs : st'[q]["pause_dags"] = "success" <=> st[q]["pause_dags"] = "success"
      BY <1>1 DEF TypeOK, Tasks
    <2>2. \A q \in Runs : Holding(q)' => Holding(q)
      <3>1. "none" \notin Outcomes
        BY DEF Outcomes
      <3>2. \A q \in Runs : st[q]["activate_dags_on_failure"] \in Outcomes =>
                              st'[q]["activate_dags_on_failure"] \in Outcomes
        BY <1>1, <3>1 DEF TypeOK, Tasks
      <3> QED BY <2>1, <3>2 DEF Holding
    <2> QED BY <1>1, <2>1, <2>2, RunsUnchanged
  <1>2. CASE TaskFails(r, t)
    BY <1>1, <1>2 DEF TaskFails, TaskEnds, Runnable, TaskStates
  <1>3. CASE Propagate(r, t)
    <2>1. PICK state \in {"upstream_failed", "skipped"} : st' = [st EXCEPT ![r][t] = state]
      BY <1>3 DEF Propagate, SettledWithoutRun
    <2> QED BY <1>1, <1>3, <2>1 DEF Propagate, TaskStates
  <1>4. CASE t = "clean_up" /\ CleanUp(r)
    BY <1>1, <1>4 DEF CleanUp, TaskEnds, Runnable, TaskStates
  <1>5. ASSUME NEW outcome \in Outcomes,
               \/ t = "back_up_activedags" /\ BackUpActiveDags(r, outcome)
               \/ t = "notify_success" /\ NotifySuccess(r, outcome)
        PROVE  RunsInv'
    BY <1>1, <1>5 DEF BackUpActiveDags, NotifySuccess, TaskEnds, Runnable, TaskStates,
       Outcomes
  <1>6. ASSUME NEW outcome \in Outcomes, t = "export_active_dags",
               ExportActiveDags(r, outcome)
        PROVE  RunsInv'
    <2>1. \A f \in {"dag_run", "task_instance"} : files'[f] = files[f]
      BY <1>6 DEF ExportActiveDags, Upload, TypeOK
    <2> QED BY <1>1, <1>6, <2>1 DEF ExportActiveDags, TaskEnds, Runnable, TaskStates,
       Outcomes
  <1>7. ASSUME NEW outcome \in Outcomes, NEW s \in Stores, ExportStore(r, s, outcome),
               t = IF s = "variable" THEN "export_variable" ELSE "export_connection"
        PROVE  RunsInv'
    <2>1. \A f \in {"dag_run", "task_instance"} : files'[f] = files[f]
      <3>1. CASE UNCHANGED files
        BY <3>1
      <3>2. CASE Upload(r, s, store[s])
        BY <3>2 DEF Upload, TypeOK, Stores
      <3> QED BY <1>7, <3>1, <3>2 DEF ExportStore
    <2>2. Runnable(r, t) /\ TaskEnds(r, t, outcome) /\ UNCHANGED << paused, ti, cursor >>
      BY <1>7 DEF ExportStore
    <2>3. st[r][t] = "none" /\ st' = [st EXCEPT ![r][t] = outcome] /\ t # "pause_dags"
      BY <1>7, <2>2 DEF Runnable, TaskEnds
    <2>4. outcome \in TaskStates
      BY DEF Outcomes, TaskStates
    <2> QED BY <1>1, <2>1, <2>2, <2>3, <2>4
  <1>8. ASSUME NEW outcome \in Outcomes, t = "activate_dags_on_failure",
               ActivateDagsOnFailure(r, outcome)
        PROVE  RunsInv'
    <2>1. st'[r]["activate_dags_on_failure"] \in Outcomes
      BY <1>8 DEF ActivateDagsOnFailure, TaskEnds, TypeOK, Tasks
    <2>2. st'[r]["pause_dags"] = st[r]["pause_dags"] /\ cursor' = cursor
      BY <1>8 DEF ActivateDagsOnFailure, TaskEnds, TypeOK, Tasks
    <2>3. ~Holding(r)'
      BY <2>1 DEF Holding
    <2> QED BY <2>2, <2>3 DEF RunsInv
  <1>9. "variable" \in Stores /\ "connection" \in Stores
    BY DEF Stores
  <1> QED BY <1>2, <1>3, <1>4, <1>5, <1>6, <1>7, <1>8, <1>9, RunsPauseDags,
       RunsExportTable DEF TaskStep

LEMMA RunsPreserved ==
  ASSUME NEW r0, Runs = {r0}, UserActive = FALSE,
         TypeOK, SettledInv, RunsInv, [Next]_vars
  PROVE  RunsInv'
  <1>1. ASSUME NEW r \in Runs, NEW t \in Tasks, TaskStep(r, t) PROVE RunsInv'
    BY <1>1, RunsTask
  <1>2. CASE UNCHANGED << paused, ti, cursor, files, st >>
    <2>1. \A r \in Runs : Holding(r)' => Holding(r)
      BY <1>2 DEF Holding
    <2> QED BY <1>2, <2>1, RunsUnchanged
  <1>3. ASSUME NEW d \in Dags, UserToggles(d) PROVE RunsInv'
    <2>1. st[r0]["back_up_activedags"] = "none"
      BY <1>3 DEF UserToggles, BackupAhead
    <2>2. st[r0]["pause_dags"] = "none"
      BY <2>1, UpstreamSets DEF SettledInv, Tasks
    <2>3. UNCHANGED << st, cursor >>
      BY <1>3 DEF UserToggles
    <2>4. ~Holding(r0)'
      BY <2>2, <2>3 DEF Holding
    <2> QED BY <2>3, <2>4 DEF RunsInv
  <1>4. ASSUME NEW d \in Working, StartTask(d) PROVE RunsInv'
    <2>1. d \in Dags /\ ~paused[d] /\ UNCHANGED << st, cursor >>
      BY <1>4, ExportAssumption DEF StartTask
    <2>2. ~Holding(r0) /\ ~Holding(r0)'
      BY <2>1 DEF RunsInv, Holding
    <2> QED BY <2>1, <2>2 DEF RunsInv
  <1>5. ASSUME NEW d \in Working, NEW s \in {"success", "failed", "up_for_retry"},
               EndTask(d, s)
        PROVE  RunsInv'
    <2>1. UNCHANGED << paused, cursor, files, st >>
      BY <1>5 DEF EndTask
    <2>2. HaveRuns(r0)' = HaveRuns(r0)
      BY <1>5, ExportAssumption DEF EndTask, HaveRuns, TypeOK
    <2>3. Holding(r0)' = Holding(r0)
      BY <2>1 DEF Holding
    <2> QED BY <2>1, <2>2, <2>3 DEF RunsInv
  <1>6. CASE WorkflowStep
    BY <1>2, <1>6 DEF WorkflowStep, EnterExport, TokenExpires, DeleteEnvironment,
       TriggerRun, database
  <1>7. CASE UNCHANGED vars
    BY <1>2, <1>7 DEF vars
  <1> QED BY <1>1, <1>3, <1>4, <1>5, <1>6, <1>7 DEF Next, RunStep, EnvironmentStep

LEMMA UndonePreserved ==
  ASSUME TypeOK, UndoneInv, [Next]_vars
  PROVE  UndoneInv'
  <1>1. ASSUME NEW r \in Runs, NEW t \in Tasks, TaskStep(r, t) PROVE UndoneInv'
    <2>1. CASE UNCHANGED st
      BY <2>1 DEF UndoneInv
    <2>2. ASSUME NEW state \in TaskStates, Settles(r, t, state),
                 t # "activate_dags_on_failure"
          PROVE  UndoneInv'
      BY <2>2 DEF Settles, UndoneInv, TypeOK, Tasks
    <2>3. CASE t = "activate_dags_on_failure"
      <3>1. CASE Propagate(r, t)
        <4>1. PICK state \in {"upstream_failed", "skipped"} :
                st' = [st EXCEPT ![r][t] = state]
          BY <3>1 DEF Propagate, SettledWithoutRun
        <4> QED BY <2>3, <4>1 DEF UndoneInv, Outcomes, TypeOK, Tasks
      <3>2. CASE ~Propagate(r, t)
        <4>1. PICK outcome \in Outcomes :
                Runnable(r, t) /\ st' = [st EXCEPT ![r][t] = outcome]
          BY <1>1, <2>3, <3>2 DEF TaskStep, TaskFails, ActivateDagsOnFailure, TaskEnds,
             Outcomes
        <4>2. st[r]["clean_up"] \in {"failed", "upstream_failed"}
          BY <2>3, <4>1, UpstreamSets DEF Runnable, MayStart, AnyFailed, Rule
        <4> QED BY <2>3, <4>1, <4>2 DEF UndoneInv, TypeOK, Tasks
      <3> QED BY <3>1, <3>2
    <2> QED BY <1>1, <2>1, <2>2, <2>3, TaskStepSettles
  <1>2. CASE WorkflowStep \/ EnvironmentStep
    BY <1>2, OtherStepsLeaveTasks DEF UndoneInv
  <1>3. CASE UNCHANGED vars
    BY <1>3 DEF vars, UndoneInv
  <1> QED BY <1>1, <1>2, <1>3 DEF Next, RunStep

(***************************************************************************)
(* With one run and no user toggling DAGs after the backup, the backup a   *)
(* success reports can be restored in the order of its references: every   *)
(* task instance export_data streamed belongs to a DAG run it streamed,    *)
(* although the environment's tasks kept running and each table was        *)
(* selected at a time of its own.                                          *)
(***************************************************************************)
THEOREM SingleTaskInstancesHaveRuns ==
  ASSUME NEW CONSTANT r0, Runs = {r0}, UserActive = FALSE,
         {"dag_run", "task_instance"} \subseteq Files
  PROVE  Spec => []TaskInstancesHaveRuns
  <1>1. Init => SettledInv /\ WrittenInv /\ RunsInv /\ UndoneInv
    <2> SUFFICES ASSUME Init PROVE SettledInv /\ WrittenInv /\ RunsInv /\ UndoneInv
      OBVIOUS
    <2>1. \A r \in Runs : cursor[r] = 0 /\ \A t \in Tasks : st[r][t] = "none"
      BY DEF Init
    <2>2. SettledInv
      BY <2>1 DEF SettledInv
    <2>3. WrittenInv /\ UndoneInv
      BY <2>1 DEF WrittenInv, UndoneInv, Outcomes, Tasks, ExportTasks
    <2>4. RunsInv
      BY <2>1 DEF RunsInv, Holding, Tasks
    <2> QED BY <2>2, <2>3, <2>4
  <1>2. TypeOK /\ SettledInv /\ WrittenInv /\ RunsInv /\ UndoneInv /\ [Next]_vars =>
          SettledInv' /\ WrittenInv' /\ RunsInv' /\ UndoneInv'
    BY SettledPreserved, WrittenPreserved, RunsPreserved, UndonePreserved
  <1>3. TypeOK /\ WrittenInv /\ RunsInv /\ UndoneInv /\ SuccessMeansExported =>
          TaskInstancesHaveRuns
    <2> SUFFICES ASSUME TypeOK, WrittenInv, RunsInv, UndoneInv, SuccessMeansExported,
                        NEW k \in Tokens, token[k] = "success"
                 PROVE  files["task_instance"].rows \subseteq files["dag_run"].rows
      BY DEF TaskInstancesHaveRuns
    <2>1. PICK r \in Runs : \A t \in ExportTasks \cup {"pause_dags", "clean_up"} :
                              st[r][t] = "success"
      BY DEF SuccessMeansExported
    <2>2. cursor[r] = Len(ObjectsToExport)
      BY <2>1 DEF WrittenInv, ExportTasks
    <2>3. Holding(r)
      BY <2>1 DEF Holding, UndoneInv
    <2>4. PICK i \in 1 .. Len(ObjectsToExport), j \in 1 .. Len(ObjectsToExport) :
            ObjectsToExport[i] = "dag_run" /\ ObjectsToExport[j] = "task_instance"
      BY DEF Files, Stores
    <2> QED BY <2>2, <2>3, <2>4 DEF RunsInv
  <1> QED BY <1>1, <1>2, <1>3, TypeCorrect, SuccessIsExported, PTL DEF Spec
-----------------------------------------------------------------------------
(***************************************************************************)
(* How a run ends.  Every settled task has its reason upstream, for the    *)
(* scheduler's rules look at settled tasks only, and those stay as they    *)
(* are.                                                                    *)
(***************************************************************************)
HasReason(s, t, state) ==
  \/ state \in Outcomes /\ MayStart(s, Upstream(t), Rule(t))
  \/ SettledWithoutRun(s, Upstream(t), Rule(t), state)

ReasonsInv ==
  \A r \in Runs, t \in Tasks : st[r][t] # "none" =>
    /\ HasReason(st[r], t, st[r][t])
    /\ st[r][t] = "failed" => t \in Faulty \cup {"notify_success"}

\* The run has exported everything and tried to say so, and does not undo it.
Reported(r) ==
  /\ \A t \in ExportTasks \cup {"back_up_activedags", "pause_dags"} : st[r][t] = "success"
  /\ st[r]["notify_success"] \in Outcomes
  /\ st[r]["activate_dags_on_failure"] = "skipped"

\* A task of the run has failed, and it has tried to activate the DAGs again and
\* does not report success.
Undone(r) ==
  /\ \E t \in ExportTasks \cup {"back_up_activedags", "pause_dags"} : st[r][t] = "failed"
  /\ st[r]["notify_success"] = "upstream_failed"
  /\ st[r]["activate_dags_on_failure"] \in Outcomes

\* The scheduler has a task of the run to start, or to settle without starting it.
SchedulerGoesOn(r) ==
  \E t \in Tasks :
    /\ st[r][t] = "none"
    /\ \/ MayStart(st[r], Upstream(t), Rule(t))
       \/ \E state \in TaskStates : SettledWithoutRun(st[r], Upstream(t), Rule(t), state)

LEMMA ReasonStays ==
  ASSUME NEW s, NEW z, NEW t, NEW state, HasReason(s, t, state),
         \A u \in Upstream(t) : s[u] # "none" => z[u] = s[u]
  PROVE  HasReason(z, t, state)
  BY DEF HasReason, MayStart, SettledWithoutRun, AllSucceeded, AnyFailed, AllSettled

LEMMA TaskStepHasReason ==
  ASSUME TypeOK, NEW r \in Runs, NEW t \in Tasks, TaskStep(r, t)
  PROVE  \/ UNCHANGED st
         \/ \E state \in TaskStates \ {"none"} :
              /\ st[r][t] = "none" /\ st' = [st EXCEPT ![r][t] = state]
              /\ HasReason(st[r], t, state)
              /\ state = "failed" => t \in Faulty \cup {"notify_success"}
  <1>1. CASE Propagate(r, t)
    <2>1. PICK state \in TaskStates :
            /\ SettledWithoutRun(st[r], Upstream(t), Rule(t), state)
            /\ st' = [st EXCEPT ![r][t] = state]
            /\ st[r][t] = "none"
      BY <1>1 DEF Propagate
    <2>2. state \in {"upstream_failed", "skipped"}
      BY <2>1 DEF SettledWithoutRun
    <2> QED BY <2>1, <2>2 DEF HasReason
  <1>2. CASE ~Propagate(r, t) /\ ~UNCHANGED st
    <2>1. Runnable(r, t)
      BY <1>2 DEF TaskStep, TaskFails, BackUpActiveDags, PauseDags, ExportActiveDags,
         ExportStore, ExportTable, ActivateDagsOnFailure, NotifySuccess, CleanUp
    <2>2. PICK state \in Outcomes :
            /\ st' = [st EXCEPT ![r][t] = state]
            /\ state = "failed" => t \in Faulty \cup {"notify_success"}
      BY <1>2 DEF TaskStep, TaskFails, BackUpActiveDags, PauseDags, ExportActiveDags,
         ExportStore, ExportTable, ActivateDagsOnFailure, NotifySuccess, CleanUp,
         TaskEnds, Outcomes
    <2> QED BY <2>1, <2>2 DEF Runnable, HasReason, Outcomes, TaskStates
  <1> QED BY <1>1, <1>2

LEMMA ReasonsPreserved ==
  ASSUME TypeOK, ReasonsInv, [Next]_vars
  PROVE  ReasonsInv'
  <1>1. ASSUME NEW r \in Runs, NEW t \in Tasks, TaskStep(r, t) PROVE ReasonsInv'
    <2>1. CASE UNCHANGED st
      BY <2>1 DEF ReasonsInv
    <2>2. ASSUME NEW state \in TaskStates \ {"none"}, st[r][t] = "none",
                 st' = [st EXCEPT ![r][t] = state], HasReason(st[r], t, state),
                 state = "failed" => t \in Faulty \cup {"notify_success"}
          PROVE  ReasonsInv'
      <3> SUFFICES ASSUME NEW q \in Runs, NEW x \in Tasks, st'[q][x] # "none"
                   PROVE  /\ HasReason(st'[q], x, st'[q][x])
                          /\ st'[q][x] = "failed" => x \in Faulty \cup {"notify_success"}
        BY DEF ReasonsInv
      <3>1. \A u \in Upstream(x) : st[q][u] # "none" => st'[q][u] = st[q][u]
        BY <2>2, UpstreamIsTasks DEF TypeOK
      <3>2. /\ HasReason(st[q], x, st'[q][x])
            /\ st'[q][x] = "failed" => x \in Faulty \cup {"notify_success"}
        BY <2>2 DEF ReasonsInv, TypeOK
      <3> QED BY <3>1, <3>2, ReasonStays
    <2> QED BY <1>1, <2>1, <2>2, TaskStepHasReason
  <1>2. CASE WorkflowStep \/ EnvironmentStep
    BY <1>2, OtherStepsLeaveTasks DEF ReasonsInv
  <1>3. CASE UNCHANGED vars
    BY <1>3 DEF vars, ReasonsInv
  <1> QED BY <1>1, <1>2, <1>3 DEF Next, RunStep

LEMMA ReasonsInvariant == Spec => [](TypeOK /\ ReasonsInv)
  <1>1. Init => ReasonsInv
    BY DEF Init, ReasonsInv
  <1>2. TypeOK /\ ReasonsInv /\ [Next]_vars => ReasonsInv'
    BY ReasonsPreserved
  <1> QED BY <1>1, <1>2, TypeCorrect, PTL DEF Spec

(***************************************************************************)
(* Whoever else is pausing: a run whose notify_success was executed has    *)
(* all its exports behind it, so an object that still changes is written   *)
(* on behalf of a run that has not made its answer yet.                    *)
(***************************************************************************)
THEOREM RunsAreDoneWhenAnswered == Spec => AnsweredRunIsDone
  <1>1. ASSUME TypeOK, ReasonsInv, [Next]_vars, NEW f \in Files, files'[f] # files[f],
               st[files'[f].by]["notify_success"] \in Outcomes
        PROVE  FALSE
    <2>1. PICK r \in Runs, t \in ExportTasks :
            /\ st[r][t] = "none"
            /\ \E g \in Files, rows \in SUBSET Rows : Upload(r, g, rows)
      <3>1. ~(WorkflowStep \/ EnvironmentStep) /\ ~(UNCHANGED vars)
        BY <1>1, OtherStepsLeaveBackup DEF vars
      <3> QED BY <1>1, <3>1, TaskStepUploads DEF Next, RunStep
    <2>2. files'[f].by = r
      BY <1>1, <2>1 DEF Upload, TypeOK
    <2>3. \A u \in Tasks \ {"activate_dags_on_failure"} : st[r][u] \in Outcomes =>
            \A w \in Upstream(u) : st[r][w] = "success"
      BY <1>1 DEF ReasonsInv, HasReason, MayStart, AllSucceeded, SettledWithoutRun, Rule,
         Outcomes
    <2>4. st[r]["clean_up"] = "success"
      BY <1>1, <2>2, <2>3, UpstreamSets DEF Tasks
    <2>5. \A u \in ExportTasks : st[r][u] = "success"
      BY <2>3, <2>4, UpstreamSets DEF Tasks, Outcomes
    <2> QED BY <2>1, <2>5
  <1>2. TypeOK /\ ReasonsInv /\ [Next]_vars =>
          [\A f \in Files : files'[f] # files[f] =>
             st[files'[f].by]["notify_success"] \notin Outcomes]_vars
    BY <1>1
  <1> QED BY <1>2, ReasonsInvariant, PTL DEF Spec, AnsweredRunIsDone

\* A failure that clean_up hears of is one of a task before it.
LEMMA FailureHasCause ==
  ASSUME TypeOK, ReasonsInv, NEW r \in Runs,
         st[r]["clean_up"] \in {"failed", "upstream_failed"}
  PROVE  \E t \in ExportTasks \cup {"back_up_activedags", "pause_dags"} :
           st[r][t] = "failed"
  <1> USE ExportAssumption
  <1>1. \A t \in Tasks : Rule(t) = "all_success" /\ st[r][t] = "upstream_failed" =>
          \E u \in Upstream(t) : st[r][u] \in {"failed", "upstream_failed"}
    BY DEF ReasonsInv, HasReason, SettledWithoutRun, Outcomes, AnyFailed
  <1>2. /\ {"back_up_activedags", "pause_dags", "clean_up"} \cup ExportTasks \subseteq Tasks
        /\ \A t \in {"back_up_activedags", "pause_dags", "clean_up"} \cup ExportTasks :
             Rule(t) = "all_success"
        /\ Upstream("back_up_activedags") = {}
    BY DEF Tasks, ExportTasks, Rule, Upstream, Edges, Before
  <1>3. st[r]["clean_up"] = "upstream_failed"
    BY <1>2 DEF ReasonsInv
  <1>4. PICK t \in ExportTasks : st[r][t] \in {"failed", "upstream_failed"}
    BY <1>1, <1>2, <1>3, UpstreamSets
  <1>5. CASE st[r][t] = "upstream_failed"
    <2>1. st[r]["pause_dags"] \in {"failed", "upstream_failed"}
      BY <1>1, <1>2, <1>5, UpstreamSets
    <2>2. CASE st[r]["pause_dags"] = "upstream_failed"
      BY <1>1, <1>2, <2>2, UpstreamSets
    <2> QED BY <2>1, <2>2
  <1> QED BY <1>4, <1>5

\* A run that is over has either exported everything and tried to report it, or has a
\* failed task and has tried to activate the DAGs again: never both, and never
\* neither, whatever fails and however many runs there are.  The environment of a
\* run that undoes its pause is not reported as saved by that run.
THEOREM ExportsReportOrUndo ==
  Spec => [](\A r \in Runs : RunOver(r) => Reported(r) \/ Undone(r))
  <1>1. ASSUME TypeOK, ReasonsInv, NEW r \in Runs, RunOver(r)
        PROVE  Reported(r) \/ Undone(r)
    <2> DEFINE ends == {"notify_success", "activate_dags_on_failure"}
    <2>0. ends \cup {"clean_up"} \cup ExportTasks \subseteq Tasks
      BY DEF Tasks
    <2>1. \A t \in Tasks : st[r][t] # "none" /\ HasReason(st[r], t, st[r][t])
      BY <1>1 DEF RunOver, ReasonsInv
    <2>2. \A t \in ends : Upstream(t) = {"clean_up"}
      BY UpstreamSets
    <2>3. Rule("notify_success") = "all_success" /\ Rule("clean_up") = "all_success"
          /\ Rule("activate_dags_on_failure") = "one_failed"
          /\ \A t \in ExportTasks \cup {"pause_dags", "back_up_activedags"} :
               Rule(t) = "all_success"
      BY DEF Rule, ExportTasks
    <2>4. CASE st[r]["clean_up"] = "success"
      <3>1. st[r]["notify_success"] \in Outcomes
        BY <2>0, <2>1, <2>2, <2>3, <2>4 DEF HasReason, SettledWithoutRun, AnyFailed
      <3>2. st[r]["activate_dags_on_failure"] = "skipped"
        BY <2>0, <2>1, <2>2, <2>3, <2>4
           DEF HasReason, MayStart, SettledWithoutRun, AnyFailed
      <3>3. \A t \in Tasks : Rule(t) = "all_success" /\ st[r][t] = "success" =>
              \A u \in Upstream(t) : st[r][u] = "success"
        BY <2>1 DEF HasReason, MayStart, AllSucceeded, SettledWithoutRun
      <3>4. \A t \in ExportTasks : st[r][t] = "success"
        BY <2>0, <2>3, <2>4, <3>3, UpstreamSets
      <3>5. st[r]["pause_dags"] = "success"
        BY <2>0, <2>3, <3>3, <3>4, UpstreamSets DEF ExportTasks
      <3>6. st[r]["back_up_activedags"] = "success"
        BY <2>3, <3>3, <3>5, UpstreamSets DEF Tasks
      <3> QED BY <3>1, <3>2, <3>4, <3>5, <3>6 DEF Reported
    <2>5. CASE st[r]["clean_up"] # "success"
      <3>1. st[r]["clean_up"] \in {"failed", "upstream_failed"}
        BY <2>0, <2>1, <2>3, <2>5 DEF HasReason, SettledWithoutRun, Outcomes
      <3>2. st[r]["notify_success"] = "upstream_failed"
        BY <2>0, <2>1, <2>2, <2>3, <2>5
           DEF HasReason, MayStart, AllSucceeded, SettledWithoutRun
      <3>3. st[r]["activate_dags_on_failure"] \in Outcomes
        BY <2>0, <2>1, <2>2, <2>3, <3>1 DEF HasReason, SettledWithoutRun, AnyFailed
      <3> QED BY <1>1, <3>1, <3>2, <3>3, FailureHasCause DEF Undone
    <2> QED BY <2>4, <2>5
  <1>2. TypeOK /\ ReasonsInv => \A r \in Runs : RunOver(r) => Reported(r) \/ Undone(r)
    BY <1>1
  <1> QED BY <1>2, ReasonsInvariant, PTL

\* A run that was triggered and is not over has a task to start or to settle: no
\* combination of failures and skipped tasks leaves one waiting for ever, so that the
\* compensation, and the answer, are not held up by the graph itself.
THEOREM ExportsNeverStall ==
  Spec => [](\A r \in Runs : conf[r] # NoToken /\ ~RunOver(r) => SchedulerGoesOn(r))
  <1>1. ASSUME TypeOK, NEW r \in Runs, NEW t \in Tasks, st[r][t] = "none",
               \A u \in Upstream(t) : st[r][u] # "none",
               \A u \in Upstream(t) : st[r][u] # "skipped"
        PROVE  SchedulerGoesOn(r)
    <2>1. \A u \in Upstream(t) : st[r][u] \in TaskStates
      BY <1>1, UpstreamIsTasks DEF TypeOK
    <2>2. {"upstream_failed", "skipped"} \subseteq TaskStates
      BY DEF TaskStates
    <2>3. AnyFailed(st[r], Upstream(t)) \/ AllSucceeded(st[r], Upstream(t))
      BY <1>1, <2>1 DEF AnyFailed, AllSucceeded, TaskStates
    <2>4. Rule(t) \in {"all_success", "one_failed"}
      BY DEF Rule
    <2>5. AllSettled(st[r], Upstream(t))
      BY <1>1 DEF AllSettled
    <2>6. \/ MayStart(st[r], Upstream(t), Rule(t))
          \/ \E state \in {"upstream_failed", "skipped"} :
               SettledWithoutRun(st[r], Upstream(t), Rule(t), state)
      BY <2>3, <2>4, <2>5 DEF MayStart, SettledWithoutRun
    <2> QED BY <1>1, <2>2, <2>6 DEF SchedulerGoesOn
  <1>2. ASSUME TypeOK, ReasonsInv, NEW r \in Runs, conf[r] # NoToken, ~RunOver(r)
        PROVE  SchedulerGoesOn(r)
    <2>1. \A t \in Tasks \ {"activate_dags_on_failure"} : st[r][t] # "skipped"
      BY <1>2 DEF ReasonsInv, HasReason, SettledWithoutRun, Outcomes, Rule
    <2>2. \A t \in Tasks : "activate_dags_on_failure" \notin Upstream(t)
      BY DEF Upstream, Edges, Before, ExportTasks
    <2>3. \A t \in Tasks : st[r][t] = "none" /\ (\A u \in Upstream(t) : st[r][u] # "none")
            => SchedulerGoesOn(r)
      BY <1>1, <1>2, <2>1, <2>2, UpstreamIsTasks
    <2>4. Upstream("back_up_activedags") = {}
      BY DEF Upstream, Edges, Before, ExportTasks
    <2> SUFFICES ASSUME \A t \in Tasks : st[r][t] = "none" =>
                          \E u \in Upstream(t) : st[r][u] = "none"
                 PROVE  FALSE
      BY <2>3
    <2>5. st[r]["back_up_activedags"] # "none"
      BY <2>4 DEF Tasks
    <2>6. st[r]["pause_dags"] # "none"
      BY <2>5, UpstreamSets DEF Tasks
    <2>7. \A t \in ExportTasks : st[r][t] # "none"
      BY <2>6, UpstreamSets DEF Tasks
    <2>8. st[r]["clean_up"] # "none"
      BY <2>7, UpstreamSets DEF Tasks
    <2>9. st[r]["notify_success"] # "none" /\ st[r]["activate_dags_on_failure"] # "none"
      BY <2>8, UpstreamSets DEF Tasks
    <2> QED BY <1>2, <2>5, <2>6, <2>7, <2>8, <2>9 DEF RunOver, Tasks
  <1>3. TypeOK /\ ReasonsInv =>
          \A r \in Runs : conf[r] # NoToken /\ ~RunOver(r) => SchedulerGoesOn(r)
    BY <1>2
  <1> QED BY <1>3, ReasonsInvariant, PTL
(***************************************************************************)
(* Runs in which no task fails: the callables find what they need as well. *)
(***************************************************************************)
\* A task of the run has its turn, by the rules and by what its callable looks at.
RunGoesOn(r) ==
  \E t \in Tasks :
    /\ st[r][t] = "none"
    /\ \/ \E state \in TaskStates : SettledWithoutRun(st[r], Upstream(t), Rule(t), state)
       \/ /\ MayStart(st[r], Upstream(t), Rule(t))
          /\ t \in {"export_active_dags", "activate_dags_on_failure"} => table.exists
          /\ t = "export_data" => cursor[r] < Len(ObjectsToExport)

FaultlessInv ==
  \A r \in Runs :
    /\ st[r]["back_up_activedags"] # "none" => table.exists
    /\ st[r]["export_data"] = "none" => cursor[r] < Len(ObjectsToExport)
    /\ conf[r] # NoToken => token[conf[r]] # "idle"
    /\ conf[r] # NoToken /\ st[r]["notify_success"] # "none" => token[conf[r]] # "waiting"

UntriggeredInv ==
  \A r \in Runs : conf[r] = NoToken => \A t \in Tasks : st[r][t] = "none"

LEMMA NothingFails ==
  ASSUME TypeOK, ReasonsInv, Faulty = {}, NEW r \in Runs
  PROVE  /\ st[r]["notify_success"] # "upstream_failed"
         /\ \A t \in Tasks \ {"notify_success"} :
              st[r][t] \notin {"failed", "upstream_failed"}
  <1>1. \A t \in Tasks : st[r][t] = "failed" => t = "notify_success"
    BY DEF ReasonsInv
  <1>2. st[r]["clean_up"] \notin {"failed", "upstream_failed"}
    BY <1>1, FailureHasCause DEF Tasks, ExportTasks
  <1>3. \A t \in Tasks : st[r][t] = "upstream_failed" =>
          /\ Rule(t) = "all_success"
          /\ \E u \in Upstream(t) : st[r][u] \in {"failed", "upstream_failed"}
    BY DEF ReasonsInv, HasReason, SettledWithoutRun, Outcomes, AnyFailed
  <1>4. Upstream("back_up_activedags") = {}
    BY DEF Upstream, Edges, Before, ExportTasks
  <1>5. st[r]["back_up_activedags"] # "upstream_failed"
    BY <1>3, <1>4 DEF Tasks
  <1>6. st[r]["pause_dags"] # "upstream_failed"
    BY <1>1, <1>3, <1>5, UpstreamSets DEF Tasks
  <1>7. \A t \in ExportTasks : st[r][t] # "upstream_failed"
    BY <1>1, <1>3, <1>6, UpstreamSets DEF Tasks
  <1>8. \A t \in {"notify_success", "activate_dags_on_failure"} :
          st[r][t] # "upstream_failed"
    BY <1>2, <1>3, UpstreamSets DEF Tasks
  <1> QED BY <1>1, <1>2, <1>5, <1>6, <1>7, <1>8 DEF Tasks

LEMMA FaultlessTask ==
  ASSUME TypeOK, ReasonsInv, FaultlessInv, Faulty = {},
         NEW r \in Runs, NEW t \in Tasks, TaskStep(r, t)
  PROVE  FaultlessInv'
  <1> USE DEF TaskEnds, Runnable, database
  <1>0. conf[r] # NoToken => conf[r] \in Tokens
    BY DEF TypeOK
  <1>1. ASSUME UNCHANGED << conf, cursor >>, table' = table \/ table'.exists,
               t # "notify_success", t # "export_data",
               t = "back_up_activedags" => table'.exists,
               NEW state, st' = [st EXCEPT ![r][t] = state], UNCHANGED token
        PROVE  FaultlessInv'
    BY <1>1 DEF FaultlessInv, TypeOK, Tasks, ExportTasks
  <1>2. ~TaskFails(r, t)
    BY DEF TaskFails
  <1>3. ~\E outcome \in Outcomes : ActivateDagsOnFailure(r, outcome)
    <2>1. Upstream("activate_dags_on_failure") = {"clean_up"} /\ "clean_up" \in Tasks
      BY UpstreamSets DEF Tasks
    <2> QED BY <2>1, NothingFails DEF ActivateDagsOnFailure, MayStart, AnyFailed, Rule
  <1>4. CASE Propagate(r, t)
    <2>1. PICK state \in {"upstream_failed", "skipped"} :
            /\ SettledWithoutRun(st[r], Upstream(t), Rule(t), state)
            /\ st' = [st EXCEPT ![r][t] = state]
      BY <1>4 DEF Propagate, SettledWithoutRun
    <2>2. t = "activate_dags_on_failure"
      <3>1. \A u \in Upstream(t) : u \in Tasks \ {"notify_success"}
        BY DEF Upstream, Edges, Before, ExportTasks
      <3> QED BY <2>1, <3>1, NothingFails DEF SettledWithoutRun, AnyFailed, Rule
    <2> QED BY <1>1, <1>4, <2>1, <2>2 DEF Propagate
  <1>5. ASSUME NEW outcome \in Outcomes,
               \/ t = "back_up_activedags" /\ BackUpActiveDags(r, outcome)
               \/ t = "pause_dags" /\ PauseDags(r, outcome)
               \/ t = "export_active_dags" /\ ExportActiveDags(r, outcome)
               \/ t = "export_variable" /\ ExportStore(r, "variable", outcome)
               \/ t = "export_connection" /\ ExportStore(r, "connection", outcome)
               \/ t = "clean_up" /\ CleanUp(r)
        PROVE  FaultlessInv'
    BY <1>1, <1>5 DEF BackUpActiveDags, PauseDags, ExportActiveDags, ExportStore, CleanUp,
       TableOf, Outcomes
  <1>6. ASSUME NEW outcome \in Outcomes, t = "export_data", ExportTable(r, outcome)
        PROVE  FaultlessInv'
    <2>1. UNCHANGED << conf, table, token >>
      BY <1>6 DEF ExportTable
    <2>2. \/ st'[r]["export_data"] = outcome /\ st' = [st EXCEPT ![r]["export_data"] = outcome]
          \/ st' = st /\ cursor'[r] < Len(ObjectsToExport)
      BY <1>6, ExportAssumption DEF ExportTable, TypeOK, Tasks, ExportTasks
    <2>3. \A q \in Runs \ {r} : cursor'[q] = cursor[q]
      BY <1>6 DEF ExportTable, TypeOK
    <2>4. \A q \in Runs : \A x \in Tasks \ {"export_data"} : st'[q][x] = st[q][x]
      <3>1. ASSUME st' = [st EXCEPT ![r]["export_data"] = outcome],
                   NEW q \in Runs, NEW x \in Tasks \ {"export_data"}
            PROVE  st'[q][x] = st[q][x]
        BY <3>1 DEF TypeOK
      <3> QED BY <2>2, <3>1
    <2>5. ASSUME NEW q \in Runs, st'[q]["export_data"] = "none"
          PROVE  cursor'[q] < Len(ObjectsToExport)
      <3>1. "none" \notin Outcomes /\ "export_data" \in Tasks
        BY DEF Outcomes, Tasks, ExportTasks
      <3>2. q = r => st' = st
        BY <2>2, <2>5, <3>1 DEF TypeOK
      <3>3. st[q]["export_data"] = "none"
        BY <2>2, <2>5, <3>1, <3>2 DEF TypeOK
      <3>4. CASE q = r
        BY <2>2, <2>5, <3>1, <3>4 DEF TypeOK
      <3> QED BY <2>3, <3>3, <3>4 DEF FaultlessInv
    <2> QED BY <2>1, <2>4, <2>5 DEF FaultlessInv, Tasks, ExportTasks
  <1>7. ASSUME NEW outcome \in Outcomes, t = "notify_success", NotifySuccess(r, outcome)
        PROVE  FaultlessInv'
    <2>1. /\ UNCHANGED << conf, table, cursor >> /\ conf[r] \in Tokens
          /\ st' = [st EXCEPT ![r]["notify_success"] = outcome]
      BY <1>0, <1>7 DEF NotifySuccess
    <2>2. /\ token'[conf[r]] # "waiting"
          /\ \A k \in Tokens : token'[k] = token[k] \/ token'[k] = "success"
      BY <1>7, <2>1 DEF NotifySuccess, TypeOK
    <2> QED BY <2>1, <2>2 DEF FaultlessInv, TypeOK, Tasks, ExportTasks
  <1>8. "success" \in Outcomes
    BY DEF Outcomes
  <1> QED BY <1>2, <1>3, <1>4, <1>5, <1>6, <1>7, <1>8 DEF TaskStep

LEMMA UntriggeredPreserved ==
  ASSUME TypeOK, UntriggeredInv, [Next]_vars
  PROVE  UntriggeredInv'
  <1>1. ASSUME NEW r \in Runs, NEW t \in Tasks, TaskStep(r, t) PROVE UntriggeredInv'
    <2>1. conf[r] # NoToken
      BY <1>1 DEF TaskStep, TaskFails, Propagate, BackUpActiveDags, PauseDags,
         ExportActiveDags, ExportStore, ExportTable, ActivateDagsOnFailure,
         NotifySuccess, CleanUp, Runnable
    <2>2. \A q \in Runs \ {r} : st'[q] = st[q]
      BY <1>1, TaskStepSettles DEF Settles, TypeOK
    <2> QED BY <1>1, <2>1, <2>2, TaskStepSettles DEF UntriggeredInv
  <1>2. CASE WorkflowStep \/ EnvironmentStep
    <2>1. \A r \in Runs : conf'[r] = NoToken => conf[r] = NoToken
      BY <1>2, OtherStepsLeaveTasks
    <2> QED BY <1>2, <2>1, OtherStepsLeaveTasks DEF UntriggeredInv
  <1>3. CASE UNCHANGED vars
    BY <1>3 DEF vars, UntriggeredInv
  <1> QED BY <1>1, <1>2, <1>3 DEF Next, RunStep

LEMMA FaultlessPreserved ==
  ASSUME TypeOK, ReasonsInv, UntriggeredInv, FaultlessInv, Faulty = {}, [Next]_vars
  PROVE  FaultlessInv'
  <1> USE ExportAssumption
  <1>1. ASSUME NEW k \in Tokens, EnterExport(k) \/ TokenExpires(k) \/ DeleteEnvironment(k)
        PROVE  FaultlessInv'
    BY <1>1 DEF EnterExport, TokenExpires, DeleteEnvironment, FaultlessInv, TypeOK, database
  <1>2. ASSUME NEW k \in Tokens, NEW r \in Runs, TriggerRun(r, k) PROVE FaultlessInv'
    BY <1>2 DEF TriggerRun, FaultlessInv, UntriggeredInv, TypeOK, Tasks
  <1>3. CASE EnvironmentStep
    BY <1>3 DEF EnvironmentStep, StartTask, EndTask, UserToggles, FaultlessInv
  <1>4. CASE UNCHANGED vars
    BY <1>4 DEF vars, FaultlessInv
  <1> QED BY <1>1, <1>2, <1>3, <1>4, FaultlessTask DEF Next, RunStep, WorkflowStep
LEMMA FaultlessRunGoesOn ==
  ASSUME TypeOK, ReasonsInv, FaultlessInv, Faulty = {}, NEW r \in Runs, SchedulerGoesOn(r)
  PROVE  RunGoesOn(r)
  <1>1. PICK t \in Tasks :
          /\ st[r][t] = "none"
          /\ \/ MayStart(st[r], Upstream(t), Rule(t))
             \/ \E state \in TaskStates :
                  SettledWithoutRun(st[r], Upstream(t), Rule(t), state)
    BY DEF SchedulerGoesOn
  <1>2. CASE MayStart(st[r], Upstream(t), Rule(t))
    <2>1. t # "activate_dags_on_failure"
      <3>1. Upstream("activate_dags_on_failure") = {"clean_up"} /\ "clean_up" \in Tasks
        BY UpstreamSets DEF Tasks
      <3> QED BY <1>2, <3>1, NothingFails DEF MayStart, AnyFailed, Rule
    <2>2. t = "export_active_dags" => table.exists
      <3>1. t = "export_active_dags" => st[r]["pause_dags"] = "success"
        BY <1>2, UpstreamSets DEF MayStart, AllSucceeded, Rule, ExportTasks
      <3>2. st[r]["pause_dags"] = "success" => st[r]["back_up_activedags"] = "success"
        BY UpstreamSets
           DEF ReasonsInv, HasReason, MayStart, AllSucceeded, SettledWithoutRun, Rule, Tasks
      <3> QED BY <3>1, <3>2 DEF FaultlessInv
    <2> QED BY <1>1, <1>2, <2>1, <2>2 DEF RunGoesOn, FaultlessInv
  <1>3. CASE ~MayStart(st[r], Upstream(t), Rule(t))
    BY <1>1, <1>3 DEF RunGoesOn
  <1> QED BY <1>2, <1>3

\* When no task fails, a run that was triggered either has a task that can be executed
\* or is over, and then it has exported everything and its token has been answered,
\* unless nobody waits for it any more: what the callables read is there by
\* the time their task comes up, however many runs share the database.
THEOREM FaultlessExportsAnswer ==
  ASSUME Faulty = {}
  PROVE  Spec => [](\A r \in Runs : conf[r] # NoToken =>
                      IF RunOver(r) THEN Reported(r) /\ token[conf[r]] # "waiting"
                                    ELSE RunGoesOn(r))
  <1>1. Init => UntriggeredInv /\ FaultlessInv
    BY ExportAssumption DEF Init, UntriggeredInv, FaultlessInv, Tasks, ExportTasks
  <1>2. TypeOK /\ ReasonsInv /\ UntriggeredInv /\ FaultlessInv /\ [Next]_vars =>
          UntriggeredInv' /\ FaultlessInv'
    BY UntriggeredPreserved, FaultlessPreserved
  <1>3. ASSUME TypeOK, ReasonsInv, FaultlessInv, NEW r \in Runs, conf[r] # NoToken,
               RunOver(r) => Reported(r) \/ Undone(r), ~RunOver(r) => SchedulerGoesOn(r)
        PROVE  IF RunOver(r) THEN Reported(r) /\ token[conf[r]] # "waiting"
                             ELSE RunGoesOn(r)
    <2>1. CASE RunOver(r)
      <3>1. ~Undone(r)
        BY <1>3, NothingFails DEF Undone
      <3> QED BY <1>3, <2>1, <3>1 DEF FaultlessInv, RunOver, Tasks
    <2>2. CASE ~RunOver(r)
      BY <1>3, <2>2, FaultlessRunGoesOn
    <2> QED BY <2>1, <2>2
  <1>4. TypeOK /\ ReasonsInv /\ FaultlessInv
          /\ (\A r \in Runs : RunOver(r) => Reported(r) \/ Undone(r))
          /\ (\A r \in Runs : conf[r] # NoToken /\ ~RunOver(r) => SchedulerGoesOn(r))
        => \A r \in Runs : conf[r] # NoToken =>
             IF RunOver(r) THEN Reported(r) /\ token[conf[r]] # "waiting"
                           ELSE RunGoesOn(r)
    BY <1>3
  <1> QED
    BY <1>1, <1>2, <1>4, ReasonsInvariant, ExportsReportOrUndo, ExportsNeverStall, PTL
    DEF Spec


=============================================================================
