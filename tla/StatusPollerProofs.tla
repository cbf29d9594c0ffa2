------------------------- MODULE StatusPollerProofs -------------------------
(***************************************************************************)
(* Proofs about StatusPoller, for any number of polling executions, both   *)
(* commands, and with every failure and timeout.                           *)
(***************************************************************************)
EXTENDS StatusPoller, TLAPS

LEMMA PollStepType ==
  ASSUME TypeOK, NEW p \in Polls,
         StartPolling(p) \/ PollStep(p) \/ PollTimesOut(p) \/ ParentTimesOut(p)
  PROVE  TypeOK' /\ env' = env
  <1> USE PollerAssumption DEF TypeOK, Goto, PollStates, Running, ToldStates
  <1>1. CASE StartPolling(p)
    BY <1>1 DEF StartPolling
  <1>2. CASE Wait(p)
    BY <1>2 DEF Wait
  <1>3. CASE GetStatus(p)
    <2> DEFINE c == env \in CompleteStatuses(Command)
    <2>1. complete' = [complete EXCEPT ![p] = c] \/ complete' = complete
      BY <1>3 DEF GetStatus
    <2>2. c = TRUE \/ c = FALSE
      OBVIOUS
    <2> HIDE DEF c
    <2>3. complete' \in [Polls -> BOOLEAN]
      BY <2>1, <2>2
    <2>4. poll' \in [Polls -> PollStates] /\ UNCHANGED << env, told >>
      BY <1>3 DEF GetStatus
    <2> QED BY <2>3, <2>4
  <1>4. CASE CheckStatus(p)
    BY <1>4 DEF CheckStatus
  <1>5. CASE SuccessNotification(p)
    BY <1>5 DEF SuccessNotification
  <1>6. CASE PollTimesOut(p)
    BY <1>6 DEF PollTimesOut
  <1>7. CASE ParentTimesOut(p)
    BY <1>7 DEF ParentTimesOut
  <1> QED BY <1>1, <1>2, <1>3, <1>4, <1>5, <1>6, <1>7 DEF PollStep

\* A status that completes the command is never left, unless for another one.
LEMMA CompletionStays ==
  ASSUME Mwaa, env \in CompleteStatuses(Command)
  PROVE  env' \in CompleteStatuses(Command)
  <1> USE PollerAssumption
  <1> QED BY DEF Mwaa, Life, Death, CompleteStatuses

(***************************************************************************)
(* The invariant: what an execution remembers of its last poll, and what   *)
(* it has told its parent, is still true of the environment; and it only   *)
(* tells what it remembers.                                                *)
(***************************************************************************)
PollerInv ==
  \A p \in Polls :
    /\ complete[p] \/ told[p] = "success" => env \in CompleteStatuses(Command)
    /\ poll[p] = "notify" => complete[p]

LEMMA PollerInvPreserved ==
  ASSUME TypeOK, PollerInv, [Next]_vars
  PROVE  PollerInv'
  <1> USE DEF TypeOK, PollerInv, Goto
  <1>1. CASE Mwaa
    BY <1>1, CompletionStays DEF Mwaa
  <1>2. ASSUME NEW p \in Polls,
               StartPolling(p) \/ PollStep(p) \/ PollTimesOut(p) \/ ParentTimesOut(p)
        PROVE  PollerInv'
    <2>1. CASE StartPolling(p) \/ PollTimesOut(p) \/ ParentTimesOut(p)
      BY <2>1 DEF StartPolling, PollTimesOut, ParentTimesOut
    <2>2. CASE Wait(p)
      BY <2>2 DEF Wait
    <2>3. CASE GetStatus(p)
      BY <2>3 DEF GetStatus
    <2>4. CASE CheckStatus(p)
      BY <2>4 DEF CheckStatus
    <2>5. CASE SuccessNotification(p)
      BY <2>5 DEF SuccessNotification
    <2> QED BY <1>2, <2>1, <2>2, <2>3, <2>4, <2>5 DEF PollStep
  <1>3. CASE UNCHANGED vars
    BY <1>3 DEF vars
  <1> QED BY <1>1, <1>2, <1>3 DEF Next

LEMMA PollerInvInductive ==
  /\ Init => TypeOK /\ PollerInv
  /\ TypeOK /\ PollerInv /\ [Next]_vars => TypeOK' /\ PollerInv'
  <1> USE PollerAssumption
  <1>1. Init => TypeOK /\ PollerInv
    BY DEF Init, InitPolls, TypeOK, PollerInv, Statuses, PollStates, ToldStates
  <1>2. ASSUME TypeOK, [Next]_vars PROVE TypeOK'
    <2>1. CASE Mwaa
      BY <1>2, <2>1 DEF Mwaa, TypeOK
    <2>2. CASE UNCHANGED vars
      BY <1>2, <2>2 DEF vars, TypeOK
    <2> QED BY <1>2, <2>1, <2>2, PollStepType DEF Next
  <1> QED BY <1>1, <1>2, PollerInvPreserved

\* Every variable keeps its type.
THEOREM PollerTypeCorrect == Spec => []TypeOK
  BY PollerInvInductive, PTL DEF Spec

\* A parent that was told "success" finds the environment in the state it asked
\* for.
THEOREM ToldIsTrue == Spec => []ToldTruth
  <1>1. PollerInv => ToldTruth
    BY DEF PollerInv, ToldTruth, CompleteStatuses, Awaited
  <1> QED BY <1>1, PollerInvInductive, PTL DEF Spec

=============================================================================
