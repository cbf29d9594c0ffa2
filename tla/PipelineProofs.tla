--------------------------- MODULE PipelineProofs ----------------------------
(***************************************************************************)
(* Proofs about Pipelines, for every set of plans and any number of        *)
(* faults: which properties of a plan's runs follow from its wiring.       *)
(***************************************************************************)
EXTENDS PlanWiring, FiniteSetTheorems, TLAPS

AllStates == TaskStates \cup {"running"}

\* The graph that runs is one of the plan; its tasks differ in their names.
ShapeInv ==
  /\ plan \in DOMAIN Plans
  /\ turn \in DOMAIN Plans[plan]
  /\ st \in [IdsIn(Tasks) -> AllStates]
  /\ res \in [Resources(plan) -> Phases]

\* Every graph of a plan is one of its graphs, and its tasks are tasks of the plan.
LEMMA GraphsOfPlan ==
  ASSUME NEW p, NEW i \in DOMAIN Plans[p]
  PROVE  ToSet(Plans[p][i]) \in Graphs(p) /\ ToSet(Plans[p][i]) \subseteq PlanTasks(p)
  <1>1. Plans[p][i] \in ToSet(Plans[p])
    BY DEF ToSet
  <1> QED BY <1>1 DEF Graphs, PlanTasks

LEMMA RunningGraph ==
  ASSUME ShapeInv
  PROVE  /\ Tasks \in Graphs(plan)
         /\ Tasks \subseteq PlanTasks(plan)
         /\ DOMAIN st = IdsIn(Tasks)
         /\ \A t \in Tasks : t.id \in DOMAIN st /\ st[t.id] \in AllStates
         /\ \A x \in DOMAIN st : \E t \in Tasks : t.id = x
  BY GraphsOfPlan DEF ShapeInv, Tasks, IdsIn

LEMMA PlansAreSequences ==
  ASSUME WellFormed, NEW p \in DOMAIN Plans
  PROVE  /\ Len(Plans[p]) \in Nat /\ DOMAIN Plans[p] = 1 .. Len(Plans[p])
         /\ Len(Plans[p]) # 0
         /\ \A i \in DOMAIN Plans[p] :
              Plans[p][i] \in Seq(PlanTasks(p))
  BY DEF WellFormed

LEMMA DistinctTasks ==
  ASSUME ShapeInv, WellFormed, NEW t \in Tasks, NEW u \in Tasks, t.id = u.id
  PROVE  t = u
  <1>1. PICK s : s = Plans[plan][turn]
    OBVIOUS
  <1>2. \A j, k \in DOMAIN s : s[j].id = s[k].id => j = k
    BY <1>1 DEF ShapeInv, WellFormed
  <1>3. Tasks = {s[i] : i \in DOMAIN s}
    BY <1>1, PlansAreSequences DEF ShapeInv, Tasks, ToSet
  <1> QED BY <1>2, <1>3

LEMMA IdsAreIds == ASSUME NEW s PROVE Ids(s) = IdsIn(ToSet(s))
  BY DEF Ids, IdsIn

(***************************************************************************)
(* What a step does to the states and the resources.                       *)
(***************************************************************************)
Starts(t) ==
  /\ st[t.id] = "none" /\ t.after \subseteq DOMAIN st /\ RuleHolds(t)
  /\ st' = [st EXCEPT ![t.id] = "running"]
  /\ UNCHANGED res

GivesUp(t, s) ==
  /\ st[t.id] = "none" /\ t.after \subseteq DOMAIN st /\ RuleFails(t, s)
  /\ st' = [st EXCEPT ![t.id] = s]
  /\ UNCHANGED res

Ends(t, s) ==
  /\ st[t.id] = "running" /\ s \in {"success", "failed"}
  /\ st' = [st EXCEPT ![t.id] = s]

Branches(t, c) ==
  /\ st[t.id] = "running" /\ c \in t.choices
  /\ st' = Chosen(t, c)
  /\ CanSucceed(t)

InTurn ==
  \/ \E t \in Tasks : Starts(t) \/ \E s \in {"upstream_failed", "skipped"} : GivesUp(t, s)
  \/ \E t \in Tasks : (\E s : Ends(t, s)) \/ \E c : Branches(t, c)
  \/ UNCHANGED st

LEMMA Effects ==
  ASSUME Step
  PROVE  (InTurn /\ UNCHANGED << plan, turn >>) \/ NextTurn
  <1>1. ASSUME NEW t \in Tasks, Schedule(t) PROVE InTurn /\ UNCHANGED << plan, turn >>
    BY <1>1 DEF Schedule, InTurn, Starts, GivesUp, RuleFails
  <1>2. ASSUME NEW t \in Tasks, Succeed(t) PROVE InTurn /\ UNCHANGED << plan, turn >>
    BY <1>2 DEF Succeed, InTurn, Ends, Branches
  <1>3. ASSUME NEW t \in Tasks, Refused(t) \/ Fault(t)
        PROVE  InTurn /\ UNCHANGED << plan, turn >>
    BY <1>3 DEF Refused, Fault, Reports, InTurn, Ends
  <1>4. ASSUME NEW r \in DOMAIN res, Made(r) \/ Gone(r)
        PROVE  InTurn /\ UNCHANGED << plan, turn >>
    BY <1>4 DEF Made, Gone, InTurn
  <1> QED BY <1>1, <1>2, <1>3, <1>4 DEF Step

LEMMA EffectTyped ==
  ASSUME ShapeInv, NEW t
  PROVE  Effect(t) \in [Resources(plan) -> Phases]
  BY DEF ShapeInv, Effect, Phases

LEMMA ChosenStates ==
  ASSUME ShapeInv, NEW t \in Tasks, NEW c \in t.choices
  PROVE  /\ DOMAIN Chosen(t, c) = DOMAIN st
         /\ \A x \in DOMAIN st :
              \/ x = t.id /\ Chosen(t, c)[x] = "success"
              \/ x \in t.choices /\ Chosen(t, c)[x] = "skipped"
              \/ x # t.id /\ Chosen(t, c)[x] = st[x]
  <1> DEFINE skips(x) == /\ x \in t.choices \ {c}
                         /\ \A u \in Tasks : u.id = x => c \notin u.after
  <1>1. Chosen(t, c) = [x \in DOMAIN st |->
          CASE x = t.id -> "success" [] skips(x) -> "skipped" [] OTHER -> st[x]]
    BY DEF Chosen
  <1> SUFFICES ASSUME NEW x \in DOMAIN st
               PROVE  \/ x = t.id /\ Chosen(t, c)[x] = "success"
                      \/ x \in t.choices /\ Chosen(t, c)[x] = "skipped"
                      \/ x # t.id /\ Chosen(t, c)[x] = st[x]
    BY <1>1
  <1>2. skips(x) => x \in t.choices
    OBVIOUS
  <1> HIDE DEF skips
  <1> QED BY <1>1, <1>2

LEMMA StatesTyped ==
  ASSUME ShapeInv, InTurn
  PROVE  st' \in [IdsIn(Tasks) -> AllStates]
  <1> USE DEF ShapeInv, AllStates, TaskStates
  <1>1. ASSUME NEW t \in Tasks, Starts(t) \/ \E s \in {"upstream_failed", "skipped"} : GivesUp(t, s)
        PROVE  st' \in [IdsIn(Tasks) -> AllStates]
    BY <1>1 DEF Starts, GivesUp
  <1>2. ASSUME NEW t \in Tasks, NEW s, Ends(t, s)
        PROVE  st' \in [IdsIn(Tasks) -> AllStates]
    BY <1>2 DEF Ends
  <1>3. ASSUME NEW t \in Tasks, NEW c, Branches(t, c)
        PROVE  st' \in [IdsIn(Tasks) -> AllStates]
    BY <1>3 DEF Branches, Chosen
  <1> QED BY <1>1, <1>2, <1>3 DEF InTurn

LEMMA ResourcesTyped ==
  ASSUME ShapeInv, Step
  PROVE  res' \in [Resources(plan) -> Phases]
  <1>1. res \in [Resources(plan) -> Phases]
    BY DEF ShapeInv
  <1>2. ASSUME NEW t \in Tasks, Succeed(t) \/ Fault(t) PROVE res' \in [Resources(plan) -> Phases]
    BY <1>1, <1>2, EffectTyped DEF Succeed, Fault
  <1>3. ASSUME NEW r \in DOMAIN res, Made(r) \/ Gone(r)
        PROVE  res' \in [Resources(plan) -> Phases]
    BY <1>1, <1>3 DEF Made, Gone, Phases
  <1>4. ASSUME NEW t \in Tasks, Schedule(t) \/ Refused(t) PROVE UNCHANGED res
    BY <1>4 DEF Schedule, Refused
  <1>5. CASE NextTurn
    BY <1>1, <1>5 DEF NextTurn
  <1> QED BY <1>1, <1>2, <1>3, <1>4, <1>5 DEF Step

LEMMA NextGraph ==
  ASSUME ShapeInv, WellFormed, NextTurn
  PROVE  /\ plan' = plan /\ turn' \in DOMAIN Plans[plan]
         /\ st' = [x \in IdsIn(Tasks') |-> "none"]
  <1>1. turn \in Nat /\ turn' = turn + 1 /\ turn' \in DOMAIN Plans[plan]
    BY PlansAreSequences DEF ShapeInv, NextTurn
  <1>2. Tasks' = ToSet(Plans[plan][turn + 1])
    BY <1>1 DEF NextTurn, Tasks
  <1> QED BY <1>1, <1>2, IdsAreIds DEF NextTurn

LEMMA ShapePreserved ==
  ASSUME ShapeInv, WellFormed, [Next]_vars
  PROVE  ShapeInv'
  <1>1. CASE UNCHANGED vars
    BY <1>1 DEF vars, ShapeInv, Tasks, Resources
  <1>2. CASE Step /\ InTurn /\ UNCHANGED << plan, turn >>
    <2>1. Tasks' = Tasks /\ plan' = plan /\ turn' = turn
      BY <1>2 DEF Tasks
    <2>2. st' \in [IdsIn(Tasks) -> AllStates] /\ res' \in [Resources(plan) -> Phases]
      BY <1>2, StatesTyped, ResourcesTyped
    <2> QED BY <2>1, <2>2 DEF ShapeInv
  <1>3. CASE NextTurn
    <2>1. res' \in [Resources(plan) -> Phases]
      BY <1>3, ResourcesTyped DEF Step
    <2>2. st' \in [IdsIn(Tasks') -> AllStates]
      BY <1>3, NextGraph DEF AllStates, TaskStates
    <2> QED BY <1>3, <2>1, <2>2, NextGraph DEF ShapeInv
  <1> QED BY <1>1, <1>2, <1>3, Effects DEF Next

LEMMA ShapeInit ==
  ASSUME Init, WellFormed
  PROVE  ShapeInv /\ st = [x \in IdsIn(Tasks) |-> "none"]
  <1>1. turn \in DOMAIN Plans[plan]
    BY PlansAreSequences DEF Init
  <1>2. st = [x \in IdsIn(Tasks) |-> "none"]
    BY IdsAreIds DEF Init, Tasks
  <1> QED BY <1>1, <1>2 DEF Init, ShapeInv, AllStates, TaskStates, Phases

-----------------------------------------------------------------------------
(***************************************************************************)
(* How a state may change: what is settled stays as it is, and a branch    *)
(* skips only what has not run.                                            *)
(***************************************************************************)
LEMMA SkippedHasNotRun ==
  ASSUME ShapeInv, BranchesFirst, RulesKept, NEW b \in Tasks, st[b.id] = "running",
         NEW u \in Tasks, u.id \in b.choices
  PROVE  st[u.id] \notin Ran
  <1>1. u.rule = "all_success" /\ b.id \in u.after
    BY RunningGraph DEF BranchesFirst, ShapeInv
  <1> QED BY <1>1 DEF RulesKept, Succeeded, Ran

LEMMA StatesStep ==
  ASSUME ShapeInv, WellFormed, BranchesFirst, RulesKept, InTurn, NEW x \in Tasks
  PROVE  /\ x.id \in DOMAIN st'
         /\ \/ st'[x.id] = st[x.id]
            \/ Starts(x) /\ st'[x.id] = "running"
            \/ \E s \in {"upstream_failed", "skipped"} : GivesUp(x, s) /\ st'[x.id] = s
            \/ st[x.id] = "running" /\ st'[x.id] \in {"success", "failed"}
            \/ /\ st[x.id] \notin Ran /\ st'[x.id] = "skipped"
               /\ \E b \in Tasks :
                    x.id \in b.choices /\ st[b.id] = "running" /\ st'[b.id] = "success"
  <1>0. x.id \in DOMAIN st /\ DOMAIN st' = DOMAIN st
    BY StatesTyped, RunningGraph DEF ShapeInv
  <1>1. ASSUME NEW t \in Tasks, Starts(t) \/ \E s \in {"upstream_failed", "skipped"} : GivesUp(t, s)
        PROVE  \/ st'[x.id] = st[x.id]
               \/ Starts(x) /\ st'[x.id] = "running"
               \/ \E s \in {"upstream_failed", "skipped"} : GivesUp(x, s) /\ st'[x.id] = s
    <2>1. CASE t.id = x.id
      <3>1. t = x
        BY <2>1, DistinctTasks
      <3> QED BY <1>0, <1>1, <3>1 DEF Starts, GivesUp
    <2>2. CASE t.id # x.id
      BY <1>0, <1>1, <2>2 DEF Starts, GivesUp
    <2> QED BY <2>1, <2>2
  <1>2. ASSUME NEW t \in Tasks, NEW s, Ends(t, s)
        PROVE  \/ st'[x.id] = st[x.id]
               \/ st[x.id] = "running" /\ st'[x.id] \in {"success", "failed"}
    BY <1>0, <1>2 DEF Ends
  <1>3. ASSUME NEW t \in Tasks, NEW c, Branches(t, c)
        PROVE  \/ st'[x.id] = st[x.id]
               \/ st[x.id] = "running" /\ st'[x.id] \in {"success", "failed"}
               \/ /\ st[x.id] \notin Ran /\ st'[x.id] = "skipped"
                  /\ \E b \in Tasks :
                    x.id \in b.choices /\ st[b.id] = "running" /\ st'[b.id] = "success"
    <2>1. t.id \in DOMAIN st /\ st[t.id] = "running" /\ c \in t.choices /\ st' = Chosen(t, c)
      BY <1>3, RunningGraph DEF Branches
    <2>2. t.id \notin t.choices
      BY <2>1, SkippedHasNotRun DEF Ran
    <2>3. st'[t.id] = "success"
      BY <2>1, <2>2, ChosenStates
    <2>4. CASE x.id \in t.choices /\ st'[x.id] = "skipped"
      <3>1. st[x.id] \notin Ran
        BY <2>1, <2>4, SkippedHasNotRun
      <3> QED BY <2>1, <2>3, <2>4, <3>1
    <2>5. CASE x.id = t.id
      BY <2>1, <2>3, <2>5
    <2> QED BY <1>0, <2>1, <2>4, <2>5, ChosenStates
  <1> QED BY <1>0, <1>1, <1>2, <1>3 DEF InTurn

LEMMA SettledStays ==
  ASSUME ShapeInv, WellFormed, BranchesFirst, RulesKept, InTurn, NEW x
  PROVE  /\ Succeeded(x) => Succeeded(x)'
         /\ Skipped(x) => Skipped(x)'
         /\ HasSettled(x) => HasSettled(x)'
  <1> SUFFICES ASSUME x \in DOMAIN st
               PROVE  /\ Succeeded(x) => Succeeded(x)'
                      /\ Skipped(x) => Skipped(x)'
                      /\ HasSettled(x) => HasSettled(x)'
    BY DEF Succeeded, Skipped, HasSettled
  <1>1. PICK t \in Tasks : t.id = x
    BY RunningGraph
  <1> QED BY <1>1, StatesStep
      DEF Succeeded, Skipped, HasSettled, Settled, Starts, GivesUp, Ran

\* Only a success that was refused nothing hides nothing.
LEMMA NewSuccess ==
  ASSUME ShapeInv, WellFormed, Step, ~NextTurn, NEW u \in Tasks, u.hides = {},
         st[u.id] # "success", st'[u.id] = "success"
  PROVE  Succeed(u)
  <1>0. u.id \in DOMAIN st
    BY RunningGraph
  <1>1. ASSUME NEW t \in Tasks, Schedule(t) PROVE FALSE
    <2>1. st'[u.id] = st[u.id] \/ st'[u.id] \in {"running", "upstream_failed", "skipped"}
      BY <1>0, <1>1 DEF Schedule, RuleFails
    <2> QED BY <2>1
  <1>2. ASSUME NEW t \in Tasks, Refused(t) \/ Fault(t) PROVE FALSE
    <2>1. t.id = u.id
      BY <1>0, <1>2 DEF Refused, Fault
    <2>2. t = u
      BY <2>1, DistinctTasks
    <2> QED BY <1>0, <1>2, <2>2 DEF Refused, Fault, Reports
  <1>3. ASSUME NEW t \in Tasks, Succeed(t) PROVE t = u
    <2>1. CASE t.does = "branch"
      <3>1. PICK c \in t.choices : st' = Chosen(t, c)
        BY <1>3, <2>1 DEF Succeed
      <3>2. u.id = t.id
        BY <1>0, <3>1, ChosenStates
      <3> QED BY <3>2, DistinctTasks
    <2>2. CASE t.does # "branch"
      <3>1. st' = [st EXCEPT ![t.id] = "success"]
        BY <1>3, <2>2 DEF Succeed
      <3>2. u.id = t.id
        BY <1>0, <3>1
      <3> QED BY <3>2, DistinctTasks
    <2> QED BY <2>1, <2>2
  <1>4. ASSUME NEW r \in DOMAIN res, Made(r) \/ Gone(r) PROVE FALSE
    BY <1>4 DEF Made, Gone
  <1> QED BY <1>1, <1>2, <1>3, <1>4 DEF Step

LEMMA RulesPreserved ==
  ASSUME ShapeInv, WellFormed, BranchesFirst, RulesKept, [Next]_vars
  PROVE  RulesKept'
  <1>1. CASE UNCHANGED vars
    BY <1>1 DEF vars, RulesKept, Tasks, Succeeded, HasSettled, Settled, Answered
  <1>2. CASE NextTurn
    <2>1. \A t \in Tasks' : st'[t.id] = "none"
      BY <1>2, NextGraph DEF IdsIn
    <2> QED BY <2>1 DEF RulesKept, Ran
  <1>3. CASE Step /\ ~NextTurn
    <2>1. InTurn /\ Tasks' = Tasks
      BY <1>3, Effects DEF Tasks
    <2> SUFFICES ASSUME NEW t \in Tasks
                 PROVE  /\ t.rule = "all_success" /\ st'[t.id] \in Ran =>
                             \A x \in t.after : Succeeded(x)'
                        /\ t.hides = {} /\ st'[t.id] = "success" => Answered(t)'
                        /\ WaitsForAll(t) /\ st'[t.id] # "none" =>
                             \A x \in t.after : HasSettled(x)'
                        /\ t.rule = "all_success" /\ st'[t.id] # "none" /\ t.after # {} =>
                             \E x \in t.after : HasSettled(x)'
      BY <2>1 DEF RulesKept
    <2>2. ASSUME t.rule = "all_success", st'[t.id] \in Ran
          PROVE  \A x \in t.after : Succeeded(x)
      <3>1. CASE st[t.id] \in Ran
        BY <2>2, <3>1 DEF RulesKept
      <3>2. CASE Starts(t)
        <4>1. \A x \in t.after : st[x] = "success"
          BY <2>2, <3>2 DEF Starts, RuleHolds, MayStart, AllSucceeded
        <4> QED BY <3>2, <4>1 DEF Starts, Succeeded
      <3> QED BY <2>1, <2>2, <3>1, <3>2, StatesStep DEF Ran
    <2>3. ASSUME t.hides = {}, st'[t.id] = "success"
          PROVE  Answered(t)'
      <3>1. Answered(t)
        <4>1. CASE st[t.id] = "success"
          BY <2>3, <4>1 DEF RulesKept
        <4>2. CASE st[t.id] # "success"
          BY <1>3, <2>3, <4>2, NewSuccess DEF Succeed, CanSucceed
        <4> QED BY <4>1, <4>2
      <3>2. \A x \in t.pulls : Succeeded(x)'
        BY <2>1, <3>1, SettledStays DEF Answered, Succeeded
      <3> QED BY <3>2 DEF Answered, Succeeded
    <2>4. ASSUME WaitsForAll(t), st'[t.id] # "none", NEW x \in t.after
          PROVE  HasSettled(x)'
      <3>1. CASE st[t.id] # "none"
        BY <2>1, <2>4, <3>1, SettledStays DEF RulesKept
      <3>2. CASE Starts(t)
        <4>1. HasSettled(x)
          BY <2>4, <3>2 DEF Starts, RuleHolds, MayStart, AllSucceeded, HasSettled,
             Settled, WaitsForAll, Patient
        <4> QED BY <2>1, <4>1, SettledStays
      <3>3. ASSUME NEW s, GivesUp(t, s) PROVE HasSettled(x)'
        <4>1. HasSettled(x)
          <5>1. CASE t.rule \in Patient
            BY <2>4, <3>3, <5>1 DEF GivesUp, RuleFails, HasSettled, Patient
          <5>2. CASE t.rule = "all_success"
            <6>1. \E y \in t.after : st[y] \in {"failed", "upstream_failed", "skipped"}
              BY <3>3, <5>2 DEF GivesUp, RuleFails, AnyFailed
            <6>2. \A y, z \in t.after : y = z
              BY <2>4, <5>2 DEF WaitsForAll, Patient
            <6>3. st[x] \in {"failed", "upstream_failed", "skipped"}
              BY <2>4, <6>1, <6>2
            <6> QED BY <2>4, <3>3, <6>3 DEF GivesUp, HasSettled, Settled
          <5> QED BY <2>4, <5>1, <5>2 DEF WaitsForAll
        <4> QED BY <2>1, <4>1, SettledStays
      <3>4. ASSUME NEW b \in Tasks, t.id \in b.choices, st'[b.id] = "success"
            PROVE  HasSettled(x)'
        <4>1. t.rule = "all_success" /\ b.id \in t.after
          BY <3>4, RunningGraph DEF BranchesFirst, ShapeInv
        <4>2. x = b.id
          BY <2>4, <4>1 DEF WaitsForAll, Patient
        <4>3. b.id \in DOMAIN st'
          BY <2>1, StatesStep
        <4> QED BY <3>4, <4>2, <4>3 DEF HasSettled, Settled
      <3>5. \/ st[t.id] # "none" \/ Starts(t) \/ \E s : GivesUp(t, s)
            \/ \E b \in Tasks : t.id \in b.choices /\ st'[b.id] = "success"
        BY <2>1, <2>4, StatesStep
      <3> QED BY <3>1, <3>2, <3>3, <3>4, <3>5
    <2>5. ASSUME t.rule = "all_success", st'[t.id] # "none", t.after # {}
          PROVE  \E x \in t.after : HasSettled(x)'
      <3>1. CASE st[t.id] # "none"
        BY <2>1, <2>5, <3>1, SettledStays DEF RulesKept
      <3>2. CASE Starts(t) \/ \E s : GivesUp(t, s)
        <4>1. \E x \in t.after : HasSettled(x)
          BY <2>5, <3>2 DEF Starts, RuleHolds, MayStart, AllSucceeded, GivesUp,
             RuleFails, AnyFailed, HasSettled, Settled
        <4> QED BY <2>1, <4>1, SettledStays
      <3>3. ASSUME NEW b \in Tasks, t.id \in b.choices, st'[b.id] = "success"
            PROVE  \E x \in t.after : HasSettled(x)'
        <4>1. b.id \in t.after
          BY <3>3, RunningGraph DEF BranchesFirst, ShapeInv
        <4>2. b.id \in DOMAIN st'
          BY <2>1, StatesStep
        <4> QED BY <3>3, <4>1, <4>2 DEF HasSettled, Settled
      <3>4. \/ st[t.id] # "none" \/ Starts(t) \/ \E s : GivesUp(t, s)
            \/ \E b \in Tasks : t.id \in b.choices /\ st'[b.id] = "success"
        BY <2>1, <2>5, StatesStep
      <3> QED BY <3>1, <3>2, <3>3, <3>4
    <2> QED BY <2>1, <2>2, <2>3, <2>4, <2>5, SettledStays
  <1> QED BY <1>1, <1>2, <1>3 DEF Next

LEMMA RulesInvariant ==
  ASSUME WellFormed, BranchesFirst
  PROVE  Spec => [](ShapeInv /\ RulesKept)
  <1>1. Init => ShapeInv /\ RulesKept
    <2>1. Init => \A t \in Tasks : st[t.id] = "none"
      BY ShapeInit DEF IdsIn
    <2> QED BY <2>1, ShapeInit DEF RulesKept, Ran
  <1>2. ShapeInv /\ RulesKept /\ [Next]_vars => ShapeInv' /\ RulesKept'
    BY ShapePreserved, RulesPreserved
  <1> QED BY <1>1, <1>2, PTL DEF Spec
\* The states keep to the rules: no task has run that its trigger rule kept
\* waiting, in any plan whose tasks differ in their names and whose branches come
\* before what they may skip.
THEOREM StatesKeepToTheRules ==
  ASSUME WellFormed, BranchesFirst
  PROVE  Spec => []RulesKept
  BY RulesInvariant, PTL

-----------------------------------------------------------------------------
(***************************************************************************)
(* What "succeeds before" and "settles before" promise.                    *)
(***************************************************************************)
LEMMA SuccessesUpstream ==
  ASSUME ShapeInv, RulesKept, NEW t \in Tasks, st[t.id] \in Ran,
         NEW x, SucceedsBefore(Tasks, x, t)
  PROVE  Succeeded(x)
  <1> DEFINE S == {y \in DOMAIN st : st[y] = "success"}
  <1>1. S \in SUBSET IdsIn(Tasks)
    BY RunningGraph
  <1>2. SuccessClosed(Tasks, S)
    <2> SUFFICES ASSUME NEW u \in Tasks, u.id \in S
                 PROVE  /\ u.rule = "all_success" => u.after \subseteq S
                        /\ u.hides = {} => u.pulls \subseteq S
      BY DEF SuccessClosed
    <2> QED BY DEF RulesKept, Succeeded, Answered, Ran
  <1>3. t.after \subseteq S
    BY DEF RulesKept, Succeeded, SucceedsBefore
  <1> QED BY <1>1, <1>2, <1>3 DEF SucceedsBefore, Succeeded

LEMMA SettledUpstream ==
  ASSUME ShapeInv, RulesKept, NEW t \in Tasks, st[t.id] # "none", t.rule \in Patient,
         NEW x, SettlesBefore(Tasks, x, t)
  PROVE  HasSettled(x)
  <1> DEFINE S == {y \in DOMAIN st : Settled(y)}
  <1>1. S \in SUBSET IdsIn(Tasks)
    BY RunningGraph
  <1>2. SettledClosed(Tasks, S)
    BY DEF SettledClosed, RulesKept, HasSettled, Settled
  <1>3. t.after \subseteq S
    BY DEF RulesKept, HasSettled, WaitsForAll
  <1> QED BY <1>1, <1>2, <1>3 DEF SettlesBefore, HasSettled

\* No task of the plan runs without the return values it pulls, because each is
\* of a task that succeeds before it: where every DAG builds its arguments of what
\* is upstream, which the graphs of all the plans do, no schedule and no fault
\* makes a task pull from one that did not succeed.
THEOREM PullsAreAnswered ==
  ASSUME WellFormed, BranchesFirst, \A p \in DOMAIN Plans : PullsAhead(p)
  PROVE  Spec => []PullsAnswered
  <1>1. ASSUME ShapeInv, RulesKept PROVE PullsAnswered
    <2> SUFFICES ASSUME NEW t \in Tasks, st[t.id] = "running", t.rule = "all_success"
                 PROVE  Answered(t)
      BY DEF PullsAnswered
    <2>1. \A x \in t.pulls : SucceedsBefore(Tasks, x, t)
      BY <1>1, RunningGraph DEF PullsAhead, ShapeInv
    <2>2. \A x \in t.pulls : Succeeded(x)
      BY <1>1, <2>1, SuccessesUpstream DEF Ran
    <2> QED BY <2>2 DEF Answered, Succeeded
  <1> QED BY <1>1, RulesInvariant, PTL
-----------------------------------------------------------------------------
(***************************************************************************)
(* What is provided stays until a removal.                                 *)
(***************************************************************************)
\* Only a removal of a resource that is there makes it anything else.
LEMMA EffectKeeps ==
  ASSUME ShapeInv, NEW t \in Tasks, CanSucceed(t), NEW r \in DOMAIN res, res[r] = "there",
         Effect(t)[r] # "there"
  PROVE  t \in Removers(r)
  <1>1. t \in PlanTasks(plan)
    BY RunningGraph
  <1>2. ~(t.does \in {"make", "put"})
    BY DEF Effect
  <1>3. ~(t.does \in {"start", "launch"})
    BY DEF Effect, CanSucceed, Accepts
  <1>4. CASE t.does \in {"delete", "drop", "retire"}
    <2>1. t.on = r
      BY <1>4 DEF Effect
    <2> QED BY <1>1, <1>4, <2>1 DEF Removers, RemoversOf
  <1>5. CASE t.does \in {"purge", "clear"}
    <2>1. r \in Contents(t.on) \/ t.on = r
      BY <1>5 DEF Effect
    <2> QED BY <1>1, <1>5, <2>1 DEF Removers, RemoversOf, Contents
  <1> QED BY <1>2, <1>3, <1>4, <1>5 DEF Effect

LEMMA RanStays ==
  ASSUME ShapeInv, WellFormed, BranchesFirst, RulesKept, InTurn, NEW t \in Tasks,
         st[t.id] \in Ran
  PROVE  st'[t.id] \in Ran
  BY StatesStep DEF Ran, Starts, GivesUp

LEMMA StepKeepsProvided ==
  ASSUME ShapeInv, WellFormed, BranchesFirst, RulesKept, Step, ~NextTurn,
         NEW r \in DOMAIN res, res[r] = "there",
         \A d \in Tasks \cap Removers(r) : st[d.id] # "running"
  PROVE  res'[r] = "there"
  <1>1. ASSUME NEW t \in Tasks, Schedule(t) \/ Refused(t) PROVE res'[r] = "there"
    BY <1>1 DEF Schedule, Refused
  <1>2. ASSUME NEW t \in Tasks, Succeed(t) \/ Fault(t) PROVE res'[r] = "there"
    <2>1. t \notin Removers(r)
      BY <1>2 DEF Succeed, Fault
    <2>2. CanSucceed(t) => Effect(t)[r] = "there"
      BY <2>1, EffectKeeps
    <2>3. res' = res \/ (CanSucceed(t) /\ res' = Effect(t))
      BY <1>2 DEF Succeed, Fault
    <2> QED BY <2>2, <2>3
  <1>3. ASSUME NEW s \in DOMAIN res, Made(s) \/ Gone(s) PROVE res'[r] = "there"
    BY <1>3 DEF Made, Gone
  <1> QED BY <1>1, <1>2, <1>3 DEF Step

LEMMA ProvidedPreserved ==
  ASSUME ShapeInv, WellFormed, BranchesFirst, RulesKept, ProvidedKept, [Next]_vars
  PROVE  ProvidedKept'
  <1>1. CASE UNCHANGED vars
    BY <1>1 DEF vars, ProvidedKept, Tasks, Removers
  <1>2. CASE NextTurn
    <2>1. \A t \in Tasks' : st'[t.id] = "none"
      BY <1>2, NextGraph DEF IdsIn
    <2> QED BY <2>1 DEF ProvidedKept
  <1>3. CASE Step /\ ~NextTurn
    <2>1. InTurn /\ Tasks' = Tasks /\ plan' = plan
      BY <1>3, Effects DEF Tasks
    <2>2. DOMAIN res' = DOMAIN res
      BY <1>3, ResourcesTyped DEF ShapeInv
    <2> SUFFICES ASSUME NEW u \in Tasks, NEW r \in DOMAIN res, Provides(u, r),
                        st'[u.id] = "success",
                        \A d \in Tasks \cap Removers(r) :
                          st'[d.id] \in Ran => SucceedsBefore(Tasks, d.id, u)
                 PROVE  res'[r] = "there"
      BY <2>1, <2>2 DEF ProvidedKept, Removers
    <2>3. CASE st[u.id] = "success"
      <3>1. \A d \in Tasks \cap Removers(r) :
              st[d.id] \in Ran => SucceedsBefore(Tasks, d.id, u)
        BY <2>1, RanStays
      <3>2. res[r] = "there"
        BY <2>3, <3>1 DEF ProvidedKept
      <3>3. \A d \in Tasks \cap Removers(r) : st[d.id] # "running"
        BY <2>3, <3>1, SuccessesUpstream DEF Ran, Succeeded
      <3> QED BY <1>3, <3>2, <3>3, StepKeepsProvided
    <2>4. CASE st[u.id] # "success"
      <3>1. Succeed(u)
        BY <1>3, <2>4, NewSuccess DEF Provides
      <3>2. res' = Effect(u) /\ Accepts(u)
        BY <3>1 DEF Succeed, CanSucceed
      <3>3. CASE u.does \in {"make", "put"}
        BY <3>2, <3>3 DEF Effect, Provides
      <3>4. CASE u.does = "await"
        BY <3>2, <3>4 DEF Effect, Accepts, Provides
      <3> QED BY <3>3, <3>4 DEF Provides
    <2> QED BY <2>3, <2>4
  <1> QED BY <1>1, <1>2, <1>3 DEF Next

LEMMA ProvidedInvariant ==
  ASSUME WellFormed, BranchesFirst
  PROVE  Spec => [](ShapeInv /\ RulesKept /\ ProvidedKept)
  <1>1. Init => ProvidedKept
    <2>1. Init => \A t \in Tasks : st[t.id] = "none"
      BY ShapeInit DEF IdsIn
    <2> QED BY <2>1 DEF ProvidedKept
  <1>2. ShapeInv /\ RulesKept /\ ProvidedKept /\ [Next]_vars => ProvidedKept'
    BY ProvidedPreserved
  <1> QED BY <1>1, <1>2, RulesInvariant, PTL DEF Spec

\* What a task made, or saw there, is there until one of the tasks that remove it
\* has run, whatever fails meanwhile.
THEOREM WhatIsProvidedStays ==
  ASSUME WellFormed, BranchesFirst
  PROVE  Spec => []ProvidedKept
  BY ProvidedInvariant, PTL
\* No task of the plan runs without a resource it needs, whatever fails: a task
\* that succeeds before it provides the resource, and every removal either waits
\* until the task is over, whether it succeeds or not, or succeeds before the
\* resource is provided anew.
THEOREM NeedsAreMet ==
  ASSUME WellFormed, BranchesFirst, \A p \in DOMAIN Plans \ Unordered : NeedsProvided(p)
  PROVE  Spec => []HasWhatItNeeds
  <1>1. ASSUME ShapeInv, RulesKept, ProvidedKept PROVE HasWhatItNeeds
    <2> SUFFICES ASSUME plan \notin Unordered,
                        NEW t \in Tasks, st[t.id] = "running", t.rule = "all_success",
                        NEW r \in t.needs
                 PROVE  res[r] = "there"
      BY DEF HasWhatItNeeds
    <2>1. PICK u \in Tasks :
            /\ Provides(u, r) /\ SucceedsBefore(Tasks, u.id, t)
            /\ \A d \in Tasks \cap RemoversOf(plan, r) :
                 RunsAfter(Tasks, d, t.id) \/ SucceedsBefore(Tasks, d.id, u)
      BY <1>1, RunningGraph DEF NeedsProvided, ShapeInv
    <2>2. r \in DOMAIN res
      BY <1>1, <2>1, RunningGraph DEF Provides, ShapeInv, Resources
    <2>3. st[u.id] = "success"
      BY <1>1, <2>1, SuccessesUpstream DEF Ran, Succeeded
    <2>4. ASSUME NEW d \in Tasks \cap Removers(r), st[d.id] \in Ran
          PROVE  SucceedsBefore(Tasks, d.id, u)
      <3>1. ~Succeeded(t.id) /\ ~HasSettled(t.id)
        BY DEF Succeeded, HasSettled, Settled
      <3>2. ~RunsAfter(Tasks, d, t.id)
        BY <1>1, <2>4, <3>1, SuccessesUpstream, SettledUpstream DEF RunsAfter, Ran
      <3> QED BY <2>1, <2>4, <3>2 DEF Removers
    <2> QED BY <1>1, <2>1, <2>2, <2>3, <2>4 DEF ProvidedKept
  <1> QED BY <1>1, ProvidedInvariant, PTL

-----------------------------------------------------------------------------
(***************************************************************************)
(* Failures are handed on.                                                 *)
(***************************************************************************)
LEMMA FailedStays ==
  ASSUME ShapeInv, WellFormed, BranchesFirst, RulesKept, ReasonsKept, InTurn,
         NEW x, Failed(x)
  PROVE  Failed(x)'
  <1>1. PICK u \in Tasks : u.id = x
    BY RunningGraph DEF Failed
  <1>2. ASSUME NEW b \in Tasks, u.id \in b.choices, st[b.id] = "running" PROVE FALSE
    <2>1. /\ u.rule = "all_success"
          /\ \A y \in Tasks : y.id \in u.after \ {b.id} =>
               SucceedsBefore(Tasks, y.id, b) \/ (WaitsForAll(y) /\ b.id \in y.after)
      BY <1>2, RunningGraph DEF BranchesFirst, ShapeInv
    <2>2. st[u.id] = "upstream_failed"
      BY <1>1, <1>2, SkippedHasNotRun DEF Failed, Ran
    <2>3. PICK y \in Tasks : y.id \in u.after /\ Failed(y.id)
      <3>1. PICK z \in u.after : Failed(z)
        BY <2>1, <2>2 DEF ReasonsKept
      <3>2. PICK y \in Tasks : y.id = z
        BY <3>1, RunningGraph DEF Failed
      <3> QED BY <3>1, <3>2
    <2>4. y.id # b.id /\ ~Succeeded(y.id)
      BY <1>2, <2>3 DEF Failed, Succeeded
    <2>5. ~SucceedsBefore(Tasks, y.id, b)
      BY <1>2, <2>4, SuccessesUpstream DEF Ran
    <2>6. WaitsForAll(y) /\ b.id \in y.after
      BY <2>1, <2>3, <2>4, <2>5
    <2>7. HasSettled(b.id)
      BY <2>3, <2>6 DEF RulesKept, Failed
    <2> QED BY <1>2, <2>7 DEF HasSettled, Settled
  <1> QED BY <1>1, <1>2, StatesStep DEF Failed, Starts, GivesUp

LEMMA ReasonsPreserved ==
  ASSUME ShapeInv, WellFormed, BranchesFirst, RulesKept, ReasonsKept, [Next]_vars
  PROVE  ReasonsKept'
  <1>1. CASE UNCHANGED vars
    BY <1>1 DEF vars, ReasonsKept, Tasks, Succeeded, Failed, Skipped
  <1>2. CASE NextTurn
    <2>1. \A t \in Tasks' : st'[t.id] = "none"
      BY <1>2, NextGraph DEF IdsIn
    <2> QED BY <2>1 DEF ReasonsKept
  <1>3. CASE Step /\ ~NextTurn
    <2>1. InTurn /\ Tasks' = Tasks
      BY <1>3, Effects DEF Tasks
    <2>2. \A x : /\ Succeeded(x) => Succeeded(x)'
                 /\ Failed(x) => Failed(x)'
                 /\ Skipped(x) => Skipped(x)'
      BY <2>1, SettledStays, FailedStays
    <2> SUFFICES ASSUME NEW t \in Tasks
                 PROVE  /\ t.rule = "all_success" /\ st'[t.id] = "upstream_failed" =>
                             \E x \in t.after : Failed(x)'
                        /\ t.rule = "all_success" /\ st'[t.id] = "skipped" =>
                             \/ \E x \in t.after : Skipped(x)'
                             \/ \E b \in Tasks : t.id \in b.choices /\ Succeeded(b.id)'
                        /\ t.rule = "all_done" => st'[t.id] # "skipped"
      BY <2>1 DEF ReasonsKept
    <2>3. CASE st'[t.id] = st[t.id]
      BY <2>2, <2>3 DEF ReasonsKept
    <2>4. ASSUME NEW s, GivesUp(t, s), st'[t.id] = s
          PROVE  /\ t.rule = "all_success" /\ s = "upstream_failed" =>
                      \E x \in t.after : Failed(x)
                 /\ t.rule = "all_success" /\ s = "skipped" =>
                      \E x \in t.after : Skipped(x)
                 /\ t.rule # "all_done"
      BY <2>4 DEF GivesUp, RuleFails, AnyFailed, Failed, Skipped
    <2>5. ASSUME NEW b \in Tasks, t.id \in b.choices, st'[b.id] = "success"
          PROVE  t.rule = "all_success" /\ Succeeded(b.id)'
      <3>1. b.id \in DOMAIN st'
        BY <2>1, StatesStep
      <3> QED BY <2>5, <3>1, RunningGraph DEF BranchesFirst, ShapeInv, Succeeded
    <2>6. CASE \E s : GivesUp(t, s) /\ st'[t.id] = s
      BY <2>2, <2>4, <2>6
    <2>7. CASE /\ st'[t.id] = "skipped"
               /\ \E b \in Tasks : t.id \in b.choices /\ st'[b.id] = "success"
      BY <2>5, <2>7
    <2>8. CASE st'[t.id] \in {"running", "success", "failed"}
      BY <2>8
    <2> QED BY <2>1, <2>3, <2>6, <2>7, <2>8, StatesStep
  <1> QED BY <1>1, <1>2, <1>3 DEF Next

LEMMA SkipsPreserved ==
  ASSUME ShapeInv, WellFormed, BranchesFirst, RulesKept, SkipsKept, [Next]_vars
  PROVE  SkipsKept'
  <1>1. CASE UNCHANGED vars
    BY <1>1 DEF vars, SkipsKept, Tasks
  <1>2. CASE NextTurn
    <2>1. \A t \in Tasks' : st'[t.id] = "none"
      BY <1>2, NextGraph DEF IdsIn
    <2> QED BY <2>1 DEF SkipsKept
  <1>3. CASE Step /\ ~NextTurn
    <2>1. InTurn /\ Tasks' = Tasks
      BY <1>3, Effects DEF Tasks
    <2> SUFFICES ASSUME NEW S \in SUBSET IdsIn(Tasks), SkipClosed(Tasks, S),
                        NEW t \in Tasks, st'[t.id] = "skipped"
                 PROVE  t.id \in S
      BY <2>1 DEF SkipsKept
    <2>2. CASE st[t.id] = "skipped"
      BY <2>2 DEF SkipsKept
    <2>3. CASE GivesUp(t, "skipped")
      <3>1. CASE t.rule = "all_success"
        <4>1. PICK x \in t.after : x \in DOMAIN st /\ st[x] = "skipped"
          BY <2>3, <3>1 DEF GivesUp, RuleFails
        <4>2. PICK u \in Tasks : u.id = x
          BY <4>1, RunningGraph
        <4>3. x \in S
          BY <4>1, <4>2 DEF SkipsKept
        <4> QED BY <3>1, <4>1, <4>3 DEF SkipClosed
      <3>2. CASE t.rule \notin NeverSkipped
        BY <3>2 DEF SkipClosed
      <3>3. t.rule # "all_done"
        BY <2>3 DEF GivesUp, RuleFails
      <3> QED BY <3>1, <3>2, <3>3 DEF NeverSkipped
    <2>4. CASE \E b \in Tasks : t.id \in b.choices
      BY <2>4 DEF SkipClosed
    <2>5. \/ st'[t.id] = st[t.id] \/ \E s : GivesUp(t, s) /\ st'[t.id] = s
          \/ \E b \in Tasks : t.id \in b.choices
      BY <2>1, StatesStep
    <2> QED BY <2>2, <2>3, <2>4, <2>5
  <1> QED BY <1>1, <1>2, <1>3 DEF Next

\* A run in which a task failed is not reported as a success: in a plan that
\* hides no failure, and whose failures are carried, by its wiring, to a task the
\* state of the run depends on, every run with a failed task has such a task that
\* failed or was given up.
THEOREM FailuresAreShown ==
  ASSUME WellFormed, BranchesFirst, \A p \in DOMAIN Plans \ Masking : FailuresCarried(p)
  PROVE  Spec => []FailuresShow
  <1>1. ASSUME ShapeInv, RulesKept, ReasonsKept, SkipsKept PROVE FailuresShow
    <2> SUFFICES ASSUME plan \notin Masking, \A x \in DOMAIN st : Settled(x),
                        NEW t \in Tasks, t.setups = {}, st[t.id] = "failed"
                 PROVE  \E u \in Tasks :
                          Decisive(u) /\ st[u.id] \in {"failed", "upstream_failed"}
      <3>1. plan \notin Masking => \A t \in Tasks : ~KeptToItself(t)
        BY <1>1, RunningGraph DEF KeptToItself, FailuresCarried, ShapeInv
      <3> QED BY <3>1 DEF FailuresShow
    <2> DEFINE F == {x \in DOMAIN st : Failed(x)}
               K == {x \in DOMAIN st : Skipped(x)}
    <2>1. F \in SUBSET IdsIn(Tasks) /\ t.id \in F
      BY <1>1, RunningGraph DEF Failed
    <2>2. K \in SUBSET Skippable(Tasks)
      <3> SUFFICES ASSUME NEW x \in K, NEW S \in SUBSET IdsIn(Tasks), SkipClosed(Tasks, S)
                   PROVE  x \in S
        BY <1>1, RunningGraph DEF Skippable
      <3>1. PICK u \in Tasks : u.id = x
        BY <1>1, RunningGraph
      <3> QED BY <1>1, <3>1 DEF SkipsKept, Skipped
    <2>3. MayEndWith(Tasks, F, K)
      <3> SUFFICES ASSUME NEW u \in Tasks
                   PROVE  /\ u.id \notin F \/ u.id \notin K
                          /\ u.rule = "all_done" => u.id \notin K
                          /\ u.rule = "all_success" =>
                               /\ u.id \notin F \cup K => u.after \cap (F \cup K) = {}
                               /\ u.id \in F => u.after \cap F # {} \/ u.after \cap K = {}
                               /\ u.id \in K =>
                                    \/ u.after \cap K # {}
                                    \/ \E b \in Tasks :
                                         u.id \in b.choices /\ b.id \notin F \cup K
        BY DEF MayEndWith
      <3>1. u.id \in DOMAIN st /\ st[u.id] \in {"success", "failed", "upstream_failed", "skipped"}
        BY <1>1, RunningGraph DEF AllStates, TaskStates, Settled
      <3>2. \A x : Succeeded(x) => x \notin F \cup K
        BY DEF Succeeded, Failed, Skipped
      <3>3. u.id \notin F \/ u.id \notin K
        BY DEF Failed, Skipped
      <3>4. u.rule = "all_done" => u.id \notin K
        BY <1>1 DEF ReasonsKept, Skipped
      <3>5. ASSUME u.rule = "all_success", st[u.id] \in {"success", "failed"}
            PROVE  u.after \cap (F \cup K) = {}
        BY <1>1, <3>2, <3>5 DEF RulesKept, Ran
      <3>6. ASSUME u.rule = "all_success", st[u.id] = "upstream_failed"
            PROVE  u.after \cap F # {}
        <4>1. PICK x \in u.after : Failed(x)
          BY <1>1, <3>6 DEF ReasonsKept
        <4> QED BY <4>1 DEF Failed
      <3>7. ASSUME u.rule = "all_success", u.id \in K
            PROVE  \/ u.after \cap K # {}
                   \/ \E b \in Tasks : u.id \in b.choices /\ b.id \notin F \cup K
        <4>1. st[u.id] = "skipped"
          BY <3>7 DEF Skipped
        <4>2. CASE \E x \in u.after : Skipped(x)
          BY <4>2 DEF Skipped
        <4>3. CASE \E b \in Tasks : u.id \in b.choices /\ Succeeded(b.id)
          BY <3>2, <4>3
        <4> QED BY <1>1, <3>7, <4>1, <4>2, <4>3 DEF ReasonsKept
      <3>8. /\ u.id \in F <=> st[u.id] \in {"failed", "upstream_failed"}
            /\ u.id \in K <=> st[u.id] = "skipped"
        BY <3>1 DEF Failed, Skipped
      <3> HIDE DEF F, K
      <3> QED BY <3>1, <3>3, <3>4, <3>5, <3>6, <3>7, <3>8
    <2>4. PICK u \in Tasks : /\ u.id \in F /\ u.setups = {}
                             /\ \A v \in Tasks : u.id \in v.after => v.setups # {}
      <3>1. Tasks \in Graphs(plan) /\ FailuresCarried(plan)
        BY <1>1, RunningGraph DEF ShapeInv
      <3>2. \A Fs \in SUBSET IdsIn(Tasks) : \A Ks \in SUBSET Skippable(Tasks) :
              MayEndWith(Tasks, Fs, Ks) /\ (\E u \in Tasks : u.id \in Fs /\ u.setups = {}) =>
                \E u \in Tasks :
                  /\ u.id \in Fs /\ u.setups = {}
                  /\ \A v \in Tasks : u.id \in v.after => v.setups # {}
        BY <3>1 DEF FailuresCarried
      <3> HIDE DEF F, K
      <3> QED BY <2>1, <2>2, <2>3, <3>2
    <2> QED BY <2>4 DEF Decisive, Failed
  <1>2. Init => ReasonsKept /\ SkipsKept
    <2>1. Init => \A t \in Tasks : st[t.id] = "none"
      BY ShapeInit DEF IdsIn
    <2> QED BY <2>1 DEF ReasonsKept, SkipsKept
  <1>3. ShapeInv /\ RulesKept /\ ReasonsKept /\ SkipsKept /\ [Next]_vars
          => ReasonsKept' /\ SkipsKept'
    BY ReasonsPreserved, SkipsPreserved
  <1>4. ShapeInv /\ RulesKept /\ ReasonsKept /\ SkipsKept => FailuresShow
    BY <1>1
  <1> QED BY <1>2, <1>3, <1>4, RulesInvariant, PTL DEF Spec

-----------------------------------------------------------------------------
(***************************************************************************)
(* Types.                                                                  *)
(***************************************************************************)
LEMMA CountedTwice ==
  ASSUME ShapeInv, WellFormed
  PROVE  /\ Cardinality(Tasks) = Len(Plans[plan][turn])
         /\ Cardinality(IdsIn(Tasks)) = Len(Plans[plan][turn])
  <1>1. PICK s : s = Plans[plan][turn]
    OBVIOUS
  <1>2. PICK n \in Nat : n = Len(s) /\ DOMAIN s = 1 .. n
    BY <1>1, PlansAreSequences DEF ShapeInv
  <1>3. \A j, k \in 1 .. n : s[j].id = s[k].id => j = k
    BY <1>1, <1>2 DEF ShapeInv, WellFormed
  <1>4. Tasks = {s[i] : i \in 1 .. n}
    BY <1>1, <1>2 DEF Tasks, ToSet
  <1>5. ExistsBijection(1 .. n, Tasks)
    <2> DEFINE f == [i \in 1 .. n |-> s[i]]
    <2>1. f \in Bijection(1 .. n, Tasks)
      BY <1>3, <1>4 DEF Bijection, Injection, Surjection, IsInjective
    <2> QED BY <2>1 DEF ExistsBijection
  <1>6. ExistsBijection(1 .. n, IdsIn(Tasks))
    <2> DEFINE f == [i \in 1 .. n |-> s[i].id]
    <2>1. f \in Bijection(1 .. n, IdsIn(Tasks))
      BY <1>3, <1>4 DEF Bijection, Injection, Surjection, IsInjective, IdsIn
    <2> QED BY <2>1 DEF ExistsBijection
  <1> QED BY <1>1, <1>2, <1>5, <1>6, FS_CountingElements

FaultsInv == IsFiniteSet(faulted) /\ Cardinality(faulted) <= MaxFaults

LEMMA OneMoreFault ==
  ASSUME FaultsInv, Cardinality(faulted) < MaxFaults, NEW x, faulted' = faulted \cup {x}
  PROVE  FaultsInv'
  <1>1. Cardinality(faulted) \in Nat
    BY FS_CardinalityType DEF FaultsInv
  <1>2. IsFiniteSet(faulted') /\ Cardinality(faulted') <= Cardinality(faulted) + 1
    <2>1. /\ IsFiniteSet(faulted \cup {x})
          /\ Cardinality(faulted \cup {x}) =
               IF x \in faulted THEN Cardinality(faulted) ELSE Cardinality(faulted) + 1
      BY FS_AddElement DEF FaultsInv
    <2> QED BY <1>1, <2>1
  <1>3. Cardinality(faulted') \in Nat
    BY <1>2, FS_CardinalityType
  <1> QED BY <1>1, <1>2, <1>3, PipelinesAssumption DEF FaultsInv

LEMMA FaultsCounted ==
  ASSUME FaultsInv, [Next]_vars
  PROVE  FaultsInv'
  <1>1. ASSUME NEW t \in Tasks, Fault(t) PROVE FaultsInv'
    BY <1>1, OneMoreFault DEF Fault
  <1>2. ASSUME NEW r \in DOMAIN res, Made(r) PROVE FaultsInv'
    <2>1. CASE UNCHANGED faulted
      BY <2>1 DEF FaultsInv
    <2>2. CASE Cardinality(faulted) < MaxFaults /\ faulted' = faulted \cup {r}
      BY <2>2, OneMoreFault
    <2> QED BY <1>2, <2>1, <2>2 DEF Made
  <1>3. ASSUME NEW t \in Tasks, Schedule(t) \/ Succeed(t) \/ Refused(t) PROVE UNCHANGED faulted
    BY <1>3 DEF Schedule, Succeed, Refused
  <1>4. ASSUME NEW r \in DOMAIN res, Gone(r) PROVE UNCHANGED faulted
    BY <1>4 DEF Gone
  <1>5. NextTurn => UNCHANGED faulted
    BY DEF NextTurn
  <1>6. UNCHANGED vars => UNCHANGED faulted
    BY DEF vars
  <1>7. UNCHANGED faulted => FaultsInv'
    BY DEF FaultsInv
  <1> QED BY <1>1, <1>2, <1>3, <1>4, <1>5, <1>6, <1>7 DEF Next, Step

\* Types: the states are always those of the graph that runs, which has as many
\* names as tasks, and no more faults happen than the bound.
THEOREM PipelinesTypeCorrect ==
  ASSUME WellFormed
  PROVE  Spec => []TypeOK
  <1>1. Init => ShapeInv /\ FaultsInv
    BY ShapeInit, FS_EmptySet, PipelinesAssumption DEF Init, FaultsInv
  <1>2. ShapeInv /\ FaultsInv /\ [Next]_vars => ShapeInv' /\ FaultsInv'
    BY ShapePreserved, FaultsCounted
  <1>3. ShapeInv /\ FaultsInv => TypeOK
    BY CountedTwice, IdsAreIds, RunningGraph
    DEF ShapeInv, FaultsInv, TypeOK, AllStates, Tasks
  <1> QED BY <1>1, <1>2, <1>3, PTL DEF Spec

-----------------------------------------------------------------------------
(***************************************************************************)
(* What is removed for good.                                               *)
(***************************************************************************)
LEMMA OnlyMaking ==
  ASSUME ShapeInv, NEW t, NEW r \in DOMAIN res, res[r] = "none", Effect(t)[r] # "none"
  PROVE  Makes(t, r)
  BY DEF Effect, Makes, Makers

LEMMA OnlyRemoving ==
  ASSUME ShapeInv, NEW t, NEW r \in DOMAIN res, res[r] # "none", Effect(t)[r] = "none"
  PROVE  \/ t.does = "delete" /\ t.on = r
         \/ t.does \in {"purge", "clear"} /\ r \in Contents(t.on) \cup {t.on}
  BY DEF Effect

\* How the resources change in a step.
LEMMA ResourcesStep ==
  ASSUME Step
  PROVE  \/ UNCHANGED res
         \/ \E t \in Tasks : st[t.id] = "running" /\ CanSucceed(t) /\ res' = Effect(t)
         \/ \E r \in DOMAIN res : Made(r) \/ Gone(r)
  <1>1. ASSUME NEW t \in Tasks, Schedule(t) \/ Refused(t) PROVE UNCHANGED res
    BY <1>1 DEF Schedule, Refused
  <1>2. ASSUME NEW t \in Tasks, Succeed(t) \/ Fault(t)
        PROVE  UNCHANGED res \/ (st[t.id] = "running" /\ CanSucceed(t) /\ res' = Effect(t))
    BY <1>2 DEF Succeed, Fault
  <1>3. NextTurn => UNCHANGED res
    BY DEF NextTurn
  <1> QED BY <1>1, <1>2, <1>3 DEF Step

LEMMA ContainedPreserved ==
  ASSUME ShapeInv, WellFormed, ContainedKept, [Next]_vars
  PROVE  ContainedKept'
  <1>0. plan' = plan
    BY NextGraph, Effects DEF Next, vars
  <1>1. CASE UNCHANGED res
    BY <1>0, <1>1 DEF ContainedKept, Contents
  <1>2. CASE Step /\ ~UNCHANGED res
    <2>0. DOMAIN res' = DOMAIN res
      BY <1>2, ResourcesTyped DEF ShapeInv
    <2> SUFFICES ASSUME Nested(plan), NEW b \in DOMAIN res, NEW c \in Contents(b),
                        res'[c] # "none", res'[b] = "none"
                 PROVE  FALSE
      BY <1>0, <2>0 DEF ContainedKept, Contents
    <2>1. PICK u \in PlanTasks(plan) : u.within = b /\ u.on = c
      BY DEF Contents, ContentsOf
    <2>2. b # None
      BY DEF ShapeInv, Resources
    <2>3. /\ c \in DOMAIN res /\ Contents(c) = {}
          /\ \A m \in PlanTasks(plan) : Makes(m, c) => b \in m.needs
      BY <2>1, <2>2 DEF Nested, ShapeInv, Contents
    <2>4. res[c] # "none" => res[b] # "none"
      BY DEF ContainedKept
    <2>5. ASSUME NEW t \in Tasks, CanSucceed(t), res' = Effect(t) PROVE FALSE
      <3>1. CASE res[c] = "none"
        <4>1. Makes(t, c)
          BY <2>3, <2>5, <3>1, OnlyMaking
        <4>2. res[b] = "there"
          BY <2>3, <2>5, <4>1, RunningGraph DEF CanSucceed
        <4>3. t.on # b
          BY <3>1, <4>1, <4>2 DEF Makes
        <4> QED BY <2>5, <4>1, <4>2, <4>3 DEF Effect, Makes, Makers
      <3>2. CASE res[c] # "none"
        <4>1. CASE t.does = "delete" /\ t.on = b
          BY <2>5, <3>2, <4>1 DEF CanSucceed, Accepts
        <4>2. CASE t.does \in {"purge", "clear"} /\ t.on = b
          BY <2>3, <2>5, <4>2 DEF Effect
        <4>3. CASE b \in Contents(t.on) /\ t.on # None
          <5>1. Contents(b) = {}
            BY <4>3 DEF Nested, Contents, ContentsOf
          <5> QED BY <5>1
        <4>4. t.does \in {"purge", "clear"} => t.on # None
          BY RunningGraph DEF Nested, Removing
        <4> QED BY <2>4, <2>5, <3>2, <4>1, <4>2, <4>3, <4>4, OnlyRemoving
      <3> QED BY <3>1, <3>2
    <2>6. ASSUME NEW s \in DOMAIN res, Made(s) \/ Gone(s) PROVE FALSE
      BY <2>3, <2>4, <2>6 DEF Made, Gone
    <2> QED BY <1>2, <2>5, <2>6, ResourcesStep
  <1> QED BY <1>1, <1>2 DEF Next, vars

\* A task ends by its own doing.
LEMMA EndingTask ==
  ASSUME ShapeInv, WellFormed, BranchesFirst, RulesKept, Step, ~NextTurn,
         NEW u \in Tasks, st[u.id] = "running", st'[u.id] # "running"
  PROVE  Succeed(u) \/ Refused(u) \/ Fault(u)
  <1>0. u.id \in DOMAIN st
    BY RunningGraph
  <1>1. ASSUME NEW t \in Tasks, Schedule(t) PROVE FALSE
    BY <1>0, <1>1 DEF Schedule
  <1>2. ASSUME NEW t \in Tasks, Refused(t) \/ Fault(t) PROVE t = u
    <2>1. t.id = u.id
      BY <1>0, <1>2 DEF Refused, Fault
    <2> QED BY <2>1, DistinctTasks
  <1>3. ASSUME NEW t \in Tasks, Succeed(t) PROVE t = u
    <2>1. u.id \notin t.choices
      BY <1>3, SkippedHasNotRun DEF Succeed, Ran
    <2>2. t.id = u.id
      BY <1>0, <1>3, <2>1, ChosenStates DEF Succeed
    <2> QED BY <2>2, DistinctTasks
  <1>4. ASSUME NEW r \in DOMAIN res, Made(r) \/ Gone(r) PROVE FALSE
    BY <1>4 DEF Made, Gone
  <1> QED BY <1>1, <1>2, <1>3, <1>4 DEF Step

LEMMA AnywayPreserved ==
  ASSUME ShapeInv, WellFormed, BranchesFirst, RulesKept, AnywayKept, [Next]_vars
  PROVE  AnywayKept'
  <1>1. CASE UNCHANGED vars
    BY <1>1 DEF vars, AnywayKept, Tasks
  <1>2. CASE NextTurn
    <2>1. \A t \in Tasks' : st'[t.id] = "none"
      BY <1>2, NextGraph DEF IdsIn
    <2> QED BY <2>1 DEF AnywayKept
  <1>3. CASE Step /\ ~NextTurn
    <2>1. InTurn /\ Tasks' = Tasks
      BY <1>3, Effects DEF Tasks
    <2> SUFFICES ASSUME NEW t \in Tasks, RunsAnyway(Tasks, t)
                 PROVE  st'[t.id] \notin {"upstream_failed", "skipped"}
      BY <2>1 DEF AnywayKept
    <2>2. st[t.id] \notin {"upstream_failed", "skipped"}
      BY DEF AnywayKept
    <2>3. \A s : ~GivesUp(t, s)
      BY DEF GivesUp, RuleFails, RunsAnyway, AnyFailed
    <2>4. \A b \in Tasks : t.id \notin b.choices
      BY DEF RunsAnyway
    <2> QED BY <2>1, <2>2, <2>3, <2>4, StatesStep
  <1> QED BY <1>1, <1>2, <1>3 DEF Next

LEMMA GoneStays ==
  ASSUME ShapeInv, Step, plan' = plan, NEW r \in DOMAIN res, IsGone(r),
         \A m \in Tasks : Makes(m, r) => st[m.id] # "running"
  PROVE  IsGone(r)'
  <1>1. Contents(r)' = Contents(r)
    BY DEF Contents
  <1>2. ASSUME NEW t \in Tasks, st[t.id] = "running", res' = Effect(t)
        PROVE  res'[r] = "none" \/ (res[r] = "going" /\ res'[r] = "going")
    <2>1. t.on = r => t.does \notin Makers
      BY <1>2 DEF Makes
    <2> QED BY <1>2, <2>1 DEF Effect, IsGone, Makers
  <1>3. ASSUME NEW s \in DOMAIN res, Made(s) \/ Gone(s)
        PROVE  res'[r] = "none" \/ (res[r] = "going" /\ res'[r] = "going")
    BY <1>3 DEF Made, Gone, IsGone
  <1>4. CASE UNCHANGED res
    BY <1>1, <1>4 DEF IsGone
  <1> QED BY <1>1, <1>2, <1>3, <1>4, ResourcesStep DEF IsGone

\* Once the removal is over, nothing that is at work makes its resource.
LEMMA MakersAreOver ==
  ASSUME ShapeInv, WellFormed, RulesKept, NEW i \in 1 .. turn, NEW d,
         RemovesForGood(plan, i, d), i = turn => st[d.id] # "none",
         NEW m \in Tasks, Makes(m, d.on)
  PROVE  st[m.id] # "running"
  <1>1. CASE i = turn
    <2>1. d \in Tasks /\ SettlesBefore(Tasks, m.id, d)
      BY <1>1 DEF RemovesForGood, Tasks
    <2>2. CASE d.rule \in Patient
      BY <1>1, <2>1, <2>2, SettledUpstream DEF HasSettled, Settled
    <2>3. CASE d.after = {}
      <3>1. SettledClosed(Tasks, {})
        BY DEF SettledClosed
      <3> QED BY <2>1, <2>3, <3>1 DEF SettlesBefore
    <2> QED BY <1>1, <2>2, <2>3 DEF RemovesForGood, RunsAnyway, Patient
  <1>2. CASE i # turn
    <2>1. turn \in DOMAIN Plans[plan] /\ turn > i
      BY <1>2, PlansAreSequences DEF ShapeInv
    <2> QED BY <2>1 DEF RemovesForGood, Tasks
  <1> QED BY <1>1, <1>2

LEMMA RemovalPreserved ==
  ASSUME ShapeInv, WellFormed, BranchesFirst, RulesKept, AnywayKept, RemovalKept,
         [Next]_vars
  PROVE  RemovalKept'
  <1>0. /\ plan' = plan /\ faulted \subseteq faulted'
        /\ turn \in Nat /\ turn' \in Nat
        /\ \A r : Contents(r)' = Contents(r)
    <2>1. plan' = plan /\ turn' \in DOMAIN Plans[plan]
      BY NextGraph, Effects DEF Next, vars, ShapeInv
    <2>2. faulted \subseteq faulted'
      BY DEF Next, Step, vars, Schedule, Succeed, Refused, Fault, Made, Gone, NextTurn
    <2> QED BY <2>1, <2>2, PlansAreSequences DEF ShapeInv, Contents
  <1>1. CASE UNCHANGED vars
    BY <1>0, <1>1 DEF vars, RemovalKept, HasSettled, Settled, IsGone
  <1>2. CASE NextTurn
    <2> SUFFICES ASSUME NEW i \in 1 .. turn', NEW d \in ToSet(Plans[plan][i]),
                        RemovesForGood(plan, i, d), i = turn' => HasSettled(d.id)'
                 PROVE  d.id \in faulted \/ IsGone(d.on)
      BY <1>0, <1>2 DEF RemovalKept, NextTurn, IsGone
    <2>1. i \in 1 .. turn
      <3>1. CASE i = turn'
        <4>1. d.id \in DOMAIN st' /\ st'[d.id] = "none"
          BY <1>2, <3>1, NextGraph DEF HasSettled
        <4> QED BY <3>1, <4>1 DEF HasSettled, Settled
      <3> QED BY <1>0, <1>2, <3>1 DEF NextTurn
    <2>2. i = turn => HasSettled(d.id)
      BY <1>2, RunningGraph DEF NextTurn, HasSettled, Tasks
    <2> QED BY <2>1, <2>2 DEF RemovalKept
  <1>3. CASE Step /\ ~NextTurn
    <2>1. InTurn /\ Tasks' = Tasks /\ turn' = turn
      BY <1>3, Effects DEF Tasks
    <2> SUFFICES ASSUME NEW i \in 1 .. turn, NEW d \in ToSet(Plans[plan][i]),
                        RemovesForGood(plan, i, d), i = turn => HasSettled(d.id)',
                        d.id \notin faulted'
                 PROVE  IsGone(d.on)'
      BY <1>0, <2>1 DEF RemovalKept
    <2>2. d.on \in DOMAIN res
      BY PlansAreSequences, GraphsOfPlan DEF RemovesForGood, ShapeInv, Resources
    <2>3. CASE i = turn => HasSettled(d.id)
      <3>1. IsGone(d.on)
        BY <1>0, <2>3 DEF RemovalKept
      <3>2. \A m \in Tasks : Makes(m, d.on) => st[m.id] # "running"
        BY <2>3, MakersAreOver DEF HasSettled, Settled
      <3> QED BY <1>0, <1>3, <2>2, <3>1, <3>2, GoneStays
    <2>4. CASE i = turn /\ ~HasSettled(d.id)
      <3>1. d \in Tasks /\ RunsAnyway(Tasks, d)
        BY <2>4 DEF RemovesForGood, Tasks
      <3>2. st[d.id] = "running" /\ st'[d.id] # "running"
        <4>1. HasSettled(d.id)'
          BY <2>4
        <4>2. \A s : ~GivesUp(d, s)
          BY <3>1 DEF GivesUp, RuleFails, RunsAnyway, AnyFailed
        <4>3. \A b \in Tasks : d.id \notin b.choices
          BY <3>1 DEF RunsAnyway
        <4> QED BY <2>1, <2>4, <3>1, <4>1, <4>2, <4>3, RunningGraph, StatesStep
            DEF HasSettled, Settled
      <3>3. ~Fault(d)
        BY DEF Fault
      <3>4. CASE Succeed(d)
        <4>1. res' = Effect(d)
          BY <3>4 DEF Succeed
        <4>2. CASE d.does \in {"purge", "clear"}
          BY <2>2, <4>1, <4>2 DEF Effect, IsGone
        <4>3. CASE d.does \in {"delete", "drop", "retire"} /\ Contents(d.on) = {}
          BY <1>0, <2>2, <4>1, <4>3 DEF Effect, IsGone
        <4> QED BY <4>2, <4>3 DEF RemovesForGood, Contents
      <3>5. CASE Refused(d)
        <4>1. UNCHANGED res /\ ~Accepts(d)
          BY <3>5 DEF Refused, CanSucceed, Answered, RemovesForGood
        <4>2. res[d.on] = "none"
          BY <4>1 DEF Accepts, RemovesForGood, Contents
        <4> QED BY <4>1, <4>2 DEF IsGone
      <3> QED BY <1>3, <3>1, <3>2, <3>3, <3>4, <3>5, EndingTask
    <2> QED BY <2>3, <2>4
  <1> QED BY <1>1, <1>2, <1>3 DEF Next

\* Faults do not leak: whatever fails, what a plan can remove is removed in the end,
\* unless its removal failed, in every plan whose wiring ends the life of each such
\* resource with a call that is made whatever happened before, that comes after the
\* makers of the resource, and that is about nothing others have put something in.
THEOREM LeaksAreExcluded ==
  ASSUME WellFormed, BranchesFirst, \A p \in DOMAIN Plans \ FaultsLeak : LeftoversRemoved(p)
  PROVE  Spec => []FaultsDoNotLeak
  <1>1. ASSUME ShapeInv, ContainedKept, RemovalKept PROVE FaultsDoNotLeak
    <2> SUFFICES ASSUME Over, plan \notin FaultsLeak, NEW r \in DOMAIN res,
                        Removers(r) # {}, res[r] # "none"
                 PROVE  \E t \in Removers(r) : t.id \in faulted
      BY DEF FaultsDoNotLeak
    <2>1. LeftoversRemoved(plan) /\ r \in Resources(plan)
      BY <1>1 DEF ShapeInv
    <2>2. PICK i \in DOMAIN Plans[plan], d \in RemoversOf(plan, r) :
            RemovesForGood(plan, i, d)
      BY <2>1 DEF LeftoversRemoved, Removers
    <2>3. i \in 1 .. turn /\ d \in ToSet(Plans[plan][i])
      BY <1>1, <2>2, PlansAreSequences DEF ShapeInv, Over, RemovesForGood
    <2>4. i = turn => HasSettled(d.id)
      BY <1>1, <2>3, RunningGraph DEF Over, HasSettled, Tasks
    <2>5. CASE d.id \in faulted
      BY <2>2, <2>5 DEF Removers
    <2>6. CASE IsGone(d.on)
      <3>1. d.on \in DOMAIN res
        BY <1>1, <2>2, <2>3, GraphsOfPlan DEF RemovesForGood, ShapeInv, Resources
      <3>2. res[d.on] = "none"
        BY <2>6, <3>1 DEF IsGone, Over
      <3>3. r \in Contents(d.on)
        BY <2>2, <3>2 DEF RemoversOf, Contents
      <3> QED BY <1>1, <2>1, <3>1, <3>2, <3>3 DEF ContainedKept, LeftoversRemoved
    <2> QED BY <1>1, <2>2, <2>3, <2>4, <2>5, <2>6 DEF RemovalKept
  <1>2. Init => ContainedKept /\ AnywayKept /\ RemovalKept
    <2>1. Init => ContainedKept
      <3> SUFFICES ASSUME Init, Nested(plan), NEW b \in DOMAIN res, NEW c \in Contents(b)
                   PROVE  res[c] = "none"
        BY DEF ContainedKept
      <3>1. res = [x \in Resources(plan) |-> "none"] /\ b # None
        BY DEF Init, Resources
      <3>2. c \in Resources(plan)
        BY <3>1 DEF Nested, Contents, ContentsOf
      <3> QED BY <3>1, <3>2
    <2>2. Init => /\ \A t \in Tasks : st[t.id] = "none"
                  /\ \A x : ~HasSettled(x)
      BY ShapeInit DEF IdsIn, HasSettled, Settled
    <2>3. Init => turn = 1
      BY DEF Init
    <2> QED BY <2>1, <2>2, <2>3 DEF AnywayKept, RemovalKept
  <1>3. /\ ShapeInv /\ RulesKept /\ ContainedKept /\ AnywayKept /\ RemovalKept
        /\ [Next]_vars
        => ContainedKept' /\ AnywayKept' /\ RemovalKept'
    BY ContainedPreserved, AnywayPreserved, RemovalPreserved
  <1> QED BY <1>1, <1>2, <1>3, RulesInvariant, PTL DEF Spec

-----------------------------------------------------------------------------
(***************************************************************************)
(* Runs in which nothing goes wrong.                                       *)
(***************************************************************************)
LEMMA SettledWell ==
  ASSUME ShapeInv, NoneFailed, QuietSkipsKept, NEW u \in Tasks, HasSettled(u.id)
  PROVE  Succeeded(u.id) \/ (Skipped(u.id) /\ u.id \in QuietSkippable(Tasks))
  <1>1. st[u.id] \in {"success", "skipped"} /\ u.id \in DOMAIN st
    BY RunningGraph DEF HasSettled, Settled, NoneFailed, Failed, AllStates, TaskStates
  <1>2. st[u.id] = "skipped" => u.id \in QuietSkippable(Tasks)
    BY DEF QuietSkipsKept, QuietSkippable, IdsIn
  <1> QED BY <1>1, <1>2 DEF Succeeded, Skipped

LEMMA BehindSettled ==
  ASSUME ShapeInv, RulesKept, NoneFailed, QuietSkipsKept,
         NEW t \in Tasks, st[t.id] \in Ran, NEW x, QuietlyBehind(Tasks, t, x)
  PROVE  HasSettled(x)
  <1> DEFINE S == {y \in DOMAIN st : Settled(y)}
  <1>1. S \in SUBSET IdsIn(Tasks)
    BY RunningGraph
  <1>2. QuietClosed(Tasks, S)
    <2> SUFFICES ASSUME NEW u \in Tasks, u.id \in S,
                        \/ WaitsForAll(u)
                        \/ u.rule = "all_success" /\ u.id \notin QuietSkippable(Tasks)
                 PROVE  u.after \subseteq S
      BY DEF QuietClosed
    <2>1. CASE WaitsForAll(u)
      BY <2>1 DEF RulesKept, HasSettled, Settled
    <2>2. CASE u.rule = "all_success" /\ u.id \notin QuietSkippable(Tasks)
      <3>1. Succeeded(u.id)
        BY <2>2, SettledWell DEF HasSettled
      <3>2. \A y \in u.after : Succeeded(y)
        BY <2>2, <3>1 DEF RulesKept, Ran, Succeeded
      <3> QED BY <3>2 DEF Succeeded, Settled
    <2> QED BY <2>1, <2>2
  <1>3. t.after \subseteq S
    <2>1. \A y \in t.after : HasSettled(y)
      BY DEF RulesKept, Ran, QuietlyBehind, WaitsForAll, Succeeded, HasSettled, Settled
    <2> QED BY <2>1 DEF HasSettled
  <1> QED BY <1>1, <1>2, <1>3 DEF QuietlyBehind, HasSettled

LEMMA AfterSucceeded ==
  ASSUME ShapeInv, RulesKept, NoneFailed, QuietSkipsKept,
         NEW t \in Tasks, st[t.id] \in Ran, NEW x, QuietlyAfter(Tasks, t, x)
  PROVE  Succeeded(x)
  <1>1. CASE SucceedsBefore(Tasks, x, t)
    BY <1>1, SuccessesUpstream
  <1>2. CASE QuietlyBehind(Tasks, t, x) /\ x \notin QuietSkippable(Tasks)
    <2>1. HasSettled(x)
      BY <1>2, BehindSettled
    <2>2. PICK u \in Tasks : u.id = x
      BY <2>1, RunningGraph DEF HasSettled
    <2> QED BY <1>2, <2>1, <2>2, SettledWell
  <1> QED BY <1>1, <1>2 DEF QuietlyAfter

LEMMA LeftPhases == \A u, r : LeftBy(u, r) \subseteq Phases
  BY DEF LeftBy, Phases

\* What was found was left by no task of an earlier graph, or by the last of the last
\* graph with tasks that touch r.
LEMMA GraphFindsIt ==
  ASSUME NEW p, NEW i, NEW r, NEW Z
  PROVE  GraphFinds(p, i, r, Z) <=>
           \/ /\ "none" \in Z
              /\ \A j \in DOMAIN Plans[p] :
                   j < i => Touching(p, ToSet(Plans[p][j]), r) = {}
           \/ \E j \in DOMAIN Plans[p] : \E g \in {ToSet(Plans[p][j])} :
                /\ j < i
                /\ \A k \in DOMAIN Plans[p] :
                     j < k /\ k < i => Touching(p, ToSet(Plans[p][k]), r) = {}
                /\ \E u \in Touching(p, g, r) :
                     /\ u.id \notin QuietSkippable(g) /\ LeftBy(u, r) \subseteq Z
                     /\ \A w \in Touching(p, g, r) \ {u} : QuietlyBehind(g, u, w.id)
  <1> DEFINE T == [j \in DOMAIN Plans[p] |-> Touching(p, ToSet(Plans[p][j]), r)]
  <1>1. DOMAIN T = DOMAIN Plans[p]
    OBVIOUS
  <1>2. \A j \in DOMAIN Plans[p] : T[j] = Touching(p, ToSet(Plans[p][j]), r)
    OBVIOUS
  <1>3. GraphFinds(p, i, r, Z) <=> FoundAmong(p, T, i, r, Z)
    BY DEF GraphFinds
  <1> HIDE DEF T
  <1> QED BY <1>1, <1>2, <1>3 DEF FoundAmong, LastLeaves

\* What a task at work finds is what its place in the graph tells.
LEMMA TaskFindsIt ==
  ASSUME ShapeInv, RulesKept, QuietKept, NEW t \in Tasks, st[t.id] = "running",
         NEW r \in DOMAIN res, NEW Z \in SUBSET Phases, TaskFinds(plan, turn, Tasks, t, r, Z)
  PROVE  res[r] \in Z
  <1> DEFINE others == Touching(plan, Tasks, r) \ {t}
  <1>1. \/ /\ GraphFinds(plan, turn, r, Z)
           /\ \A w \in others : QuietlyBehind(Tasks, w, t.id)
        \/ \E u \in others :
             /\ QuietlyAfter(Tasks, t, u.id) /\ LeftBy(u, r) \subseteq Z
             /\ \A w \in others \ {u} :
                  QuietlyBehind(Tasks, u, w.id) \/ QuietlyBehind(Tasks, w, t.id)
    BY DEF TaskFinds, FindsAmong
  <1>2. ASSUME NEW w \in Tasks, QuietlyBehind(Tasks, w, t.id) PROVE st[w.id] # "success"
    BY <1>2, BehindSettled DEF QuietKept, Ran, HasSettled, Settled
  <1>3. CASE /\ GraphFinds(plan, turn, r, Z)
             /\ \A w \in others : QuietlyBehind(Tasks, w, t.id)
    <2>1. \A w \in Touching(plan, Tasks, r) : st[w.id] # "success"
      BY <1>2, <1>3 DEF Touching
    <2> QED BY <1>3, <2>1 DEF QuietKept, FoundKept
  <1>4. ASSUME NEW u \in others, QuietlyAfter(Tasks, t, u.id), LeftBy(u, r) \subseteq Z,
               \A w \in others \ {u} :
                 QuietlyBehind(Tasks, u, w.id) \/ QuietlyBehind(Tasks, w, t.id)
        PROVE  res[r] \in Z
    <2>1. st[u.id] = "success"
      BY <1>4, AfterSucceeded DEF Ran, QuietKept, Succeeded
    <2>2. \A w \in Touching(plan, Tasks, r) \ {u} :
            st[w.id] = "success" => QuietlyBehind(Tasks, u, w.id)
      BY <1>2, <1>4 DEF Touching
    <2> QED BY <1>4, <2>1, <2>2 DEF QuietKept, LastTouchKept
  <1> QED BY <1>1, <1>3, <1>4

\* So it is not refused.
LEMMA NothingRefused ==
  ASSUME ShapeInv, RulesKept, QuietKept, QuietlyServed(plan),
         NEW t \in Tasks, st[t.id] = "running"
  PROVE  CanSucceed(t) \/ Waiting(t)
  <1>1. Served(plan, turn, Tasks, t)
    BY DEF QuietlyServed, ShapeInv, Tasks
  <1>2. DOMAIN res = Resources(plan) /\ \A r \in DOMAIN res : res[r] \in Phases
    BY DEF ShapeInv
  <1>3. \A r \in t.needs : res[r] = "there"
    BY <1>1, <1>2, TaskFindsIt DEF Served, Phases
  <1>4. Answered(t)
    <2>1. \A x \in t.pulls : QuietlyAfter(Tasks, t, x)
      BY <1>1 DEF Served, Tasks
    <2>2. \A x \in t.pulls : Succeeded(x)
      BY <2>1, AfterSucceeded DEF QuietKept, Ran
    <2> QED BY <2>2 DEF Answered, Succeeded
  <1>5. t.does \in DOMAIN Wants => res[t.on] \in Wants[t.does]
    <2> SUFFICES ASSUME t.does \in DOMAIN Wants PROVE res[t.on] \in Wants[t.does]
      OBVIOUS
    <2>1. t.on \in DOMAIN res /\ TaskFinds(plan, turn, Tasks, t, t.on, Wants[t.does])
      BY <1>1, <1>2, RunningGraph DEF Served, Resources
    <2>2. Wants[t.does] \in SUBSET Phases
      BY DEF Wants, Phases
    <2> QED BY <2>1, <2>2, TaskFindsIt
  <1>6. t.does = "delete" => \A c \in Contents(t.on) : res[c] = "none"
    BY <1>1, <1>2, TaskFindsIt DEF Served, Contents, Phases
  <1>7. Accepts(t) \/ Waiting(t)
    BY <1>2, <1>5, <1>6 DEF Accepts, Waiting, Wants
  <1> QED BY <1>3, <1>4, <1>7 DEF CanSucceed

LEMMA OnlyTouching ==
  ASSUME ShapeInv, NEW t \in Tasks, NEW r \in DOMAIN res, Effect(t)[r] # res[r]
  PROVE  t \in Touching(plan, Tasks, r)
  BY DEF Effect, Touching, Touches, Removing, Contents

LEMMA LeftBehind ==
  ASSUME ShapeInv, RulesKept, QuietKept, QuietlyServed(plan),
         NEW r \in DOMAIN res, NEW t \in Touching(plan, Tasks, r), Succeed(t)
  PROVE  res'[r] \in LeftBy(t, r)
  <1>0. t \in Tasks /\ res' = Effect(t) /\ Accepts(t) /\ res'[r] \in Phases
    BY EffectTyped DEF Succeed, CanSucceed, Touching, ShapeInv
  <1>1. CASE t.on = r
    BY <1>0, <1>1 DEF LeftBy, Effect, Accepts
  <1>2. CASE t.on # r
    <2>1. t.does \in Removing /\ r \in Contents(t.on)
      BY <1>2 DEF Touching, Touches, Contents
    <2>2. CASE t.does \in {"purge", "clear"}
      BY <1>0, <2>1, <2>2 DEF Effect, LeftBy
    <2>3. CASE t.does \in {"delete", "drop", "retire"}
      <3>1. Served(plan, turn, Tasks, t)
        BY <1>0 DEF QuietlyServed, ShapeInv, Tasks
      <3>2. TaskFinds(plan, turn, Tasks, t, r, {"none"})
        BY <2>1, <2>3, <3>1 DEF Served, Contents
      <3>3. res[r] = "none"
        BY <1>0, <3>2, TaskFindsIt DEF Succeed, Phases
      <3> QED BY <1>0, <1>2, <2>3, <3>3 DEF Effect, LeftBy
    <2> QED BY <2>1, <2>2, <2>3 DEF Removing
  <1> QED BY <1>1, <1>2

\* Without a fault, what AWS does leaves a resource in the phases its last task left
\* it in: what was asked to go is empty.
LEMMA SpontaneousSteps ==
  ASSUME ShapeInv, NEW r \in DOMAIN res, faulted' = {}, Made(r) \/ Gone(r),
         NEW u, res[r] \in LeftBy(u, r),
         u.does \in {"drop", "retire"} /\ u.on = r =>
           \A c \in Contents(r) : res[c] = "none"
  PROVE  res'[r] \in LeftBy(u, r)
  <1>1. CASE Made(r)
    <2>1. res[r] = "making" /\ res'[r] = "there"
      BY <1>1 DEF Made
    <2> QED BY <2>1 DEF LeftBy, Phases
  <1>2. CASE Gone(r)
    <2>1. res[r] = "going" /\ res'[r] \in {"none", "stuck"}
      BY <1>2 DEF Gone
    <2>2. (\A c \in Contents(r) : res[c] = "none") => res'[r] = "none"
      BY <1>2 DEF Gone
    <2>3. CASE u.does \in {"drop", "retire"} /\ u.on = r
      BY <2>2, <2>3 DEF LeftBy
    <2>4. CASE ~(u.does \in {"drop", "retire"} /\ u.on = r)
      <3>1. LeftBy(u, r) = Phases
        BY <2>1, <2>4 DEF LeftBy
      <3> QED BY <2>1, <3>1 DEF Phases
    <2> QED BY <2>3, <2>4
  <1> QED BY <1>1, <1>2

\* The task that left r as it is, in a graph that is over.
LEMMA LeftByGraph ==
  ASSUME ShapeInv, WellFormed, QuietKept, QuietlyServed(plan),
         NEW r \in DOMAIN res, Touching(plan, Tasks, r) = {},
         NEW j \in DOMAIN Plans[plan], j < turn,
         \A k \in DOMAIN Plans[plan] :
           j < k /\ k < turn => Touching(plan, ToSet(Plans[plan][k]), r) = {},
         NEW g, g = ToSet(Plans[plan][j]),
         NEW u \in Touching(plan, g, r), u.id \notin QuietSkippable(g),
         \A w \in Touching(plan, g, r) \ {u} : QuietlyBehind(g, u, w.id)
  PROVE  res[r] \in LeftBy(u, r)
  <1>1. GraphFinds(plan, turn, r, LeftBy(u, r))
    BY GraphFindsIt
  <1> QED BY <1>1, LeftPhases DEF QuietKept, FoundKept

\* A step of a run in which nothing goes wrong refuses nothing.
LEMMA QuietStep ==
  ASSUME ShapeInv, WellFormed, BranchesFirst, RulesKept, QuietKept, QuietlyServed(plan),
         Step, ~NextTurn, faulted' = {}
  PROVE  /\ \A t \in Tasks : ~Refused(t) /\ ~Fault(t)
         /\ \A t \in Tasks : Succeed(t) => st'[t.id] = "success"
         /\ \A u \in Tasks : st[u.id] = "running" /\ st'[u.id] # "running" => Succeed(u)
         /\ \A u \in Tasks : st[u.id] = "success" => st'[u.id] = "success"
         /\ \A u \in Tasks : st[u.id] # "success" /\ st'[u.id] = "success" => Succeed(u)
  <1>0. InTurn
    BY Effects
  <1>1. ASSUME NEW t \in Tasks PROVE ~Refused(t) /\ ~Fault(t)
    BY NothingRefused DEF Refused, Fault
  <1>2. ASSUME NEW t \in Tasks, Succeed(t) PROVE st'[t.id] = "success"
    <2>1. t.id \in DOMAIN st /\ st[t.id] = "running"
      BY <1>2, RunningGraph DEF Succeed
    <2>2. t.id \notin t.choices
      BY <2>1, SkippedHasNotRun DEF Ran
    <2> QED BY <1>2, <2>1, <2>2, ChosenStates DEF Succeed
  <1>3. ASSUME NEW u \in Tasks, st[u.id] = "running", st'[u.id] # "running"
        PROVE  Succeed(u)
    BY <1>1, <1>3, EndingTask
  <1>4. ASSUME NEW u \in Tasks, st[u.id] = "success" PROVE st'[u.id] = "success"
    BY <1>0, <1>4, StatesStep DEF Starts, GivesUp, Ran
  <1>5. ASSUME NEW u \in Tasks, st[u.id] # "success", st'[u.id] = "success"
        PROVE  Succeed(u)
    BY <1>0, <1>3, <1>5, StatesStep
  <1> QED BY <1>1, <1>2, <1>3, <1>4, <1>5

LEMMA NoneFailedPreserved ==
  ASSUME ShapeInv, WellFormed, BranchesFirst, RulesKept, QuietKept, QuietlyServed(plan),
         Step, ~NextTurn, faulted' = {}
  PROVE  NoneFailed'
  <1>0. InTurn /\ DOMAIN st' = DOMAIN st
    BY Effects, StatesTyped DEF ShapeInv
  <1> SUFFICES ASSUME NEW u \in Tasks, st'[u.id] \in {"failed", "upstream_failed"}
               PROVE  FALSE
    BY <1>0, RunningGraph DEF NoneFailed, Failed
  <1>1. st[u.id] \notin {"failed", "upstream_failed"}
    BY RunningGraph DEF QuietKept, NoneFailed, Failed
  <1>2. ~GivesUp(u, "upstream_failed")
    <2>1. u.setups \subseteq u.after
      BY DEF QuietlyServed, Served, ShapeInv, Tasks
    <2>2. u.after \subseteq DOMAIN st => ~AnyFailed(st, u.after) /\ ~AnyFailed(st, u.setups)
      BY <2>1 DEF QuietKept, NoneFailed, Failed, AnyFailed
    <2> QED BY <2>2 DEF GivesUp, RuleFails
  <1>3. st'[u.id] # "running" /\ st[u.id] = "running" => Succeed(u) /\ st'[u.id] = "success"
    BY QuietStep
  <1> QED BY <1>0, <1>1, <1>2, <1>3, StatesStep

LEMMA QuietSkipsPreserved ==
  ASSUME ShapeInv, WellFormed, BranchesFirst, RulesKept, QuietKept, QuietlyServed(plan),
         InTurn
  PROVE  \A S \in SUBSET IdsIn(Tasks) : QuietSkipClosed(Tasks, S) =>
           \A t \in Tasks : st'[t.id] = "skipped" => t.id \in S
  <1> SUFFICES ASSUME NEW S \in SUBSET IdsIn(Tasks), QuietSkipClosed(Tasks, S),
                      NEW t \in Tasks, st'[t.id] = "skipped"
               PROVE  t.id \in S
    OBVIOUS
  <1>1. \A u \in Tasks : st[u.id] = "skipped" => u.id \in S
    BY DEF QuietKept, QuietSkipsKept
  <1>2. \A x \in t.after : x \in DOMAIN st /\ st[x] = "skipped" => x \in S
    BY <1>1, RunningGraph
  <1>3. CASE GivesUp(t, "skipped")
    <2>1. t.after \subseteq DOMAIN st /\ RuleFails(t, "skipped")
      BY <1>3 DEF GivesUp
    <2>2. \A x \in t.after : Settled(x) /\ st[x] # "success" => st[x] = "skipped"
      <3> SUFFICES ASSUME NEW x \in t.after, Settled(x), st[x] # "success"
                   PROVE  st[x] = "skipped"
        OBVIOUS
      <3>1. PICK u \in Tasks : u.id = x
        BY <2>1, RunningGraph
      <3> QED BY <2>1, <3>1, SettledWell DEF QuietKept, HasSettled, Succeeded, Skipped
    <2>3. CASE t.rule = "all_success"
      <3>1. \E x \in t.after : st[x] = "skipped"
        BY <2>1, <2>3 DEF RuleFails
      <3>2. t.after \cap S # {}
        BY <1>2, <2>1, <3>1
      <3> QED BY <2>3, <3>2 DEF QuietSkipClosed
    <2>4. CASE t.rule = "all_done_setup_success"
      <3>1. t.setups \subseteq t.after
        BY DEF QuietlyServed, Served, ShapeInv, Tasks
      <3>2. \E x \in t.setups : Settled(x) /\ st[x] # "success"
        BY <2>1, <2>4, <3>1 DEF RuleFails
      <3>3. t.setups \cap S # {}
        BY <1>2, <2>1, <2>2, <3>1, <3>2
      <3> QED BY <2>4, <3>3 DEF QuietSkipClosed
    <2>5. CASE t.rule = "one_success"
      <3>1. \A x \in t.after : Settled(x) /\ st[x] # "success"
        BY <2>1, <2>5 DEF RuleFails
      <3>2. t.after \subseteq S
        BY <1>2, <2>1, <2>2, <3>1
      <3> QED BY <2>5, <3>2 DEF QuietSkipClosed
    <2>6. CASE t.rule = "all_failed"
      BY <2>6 DEF QuietSkipClosed, Patient
    <2> QED BY <2>1, <2>3, <2>4, <2>5, <2>6 DEF RuleFails
  <1>4. CASE \E b \in Tasks : t.id \in b.choices
    BY <1>4 DEF QuietSkipClosed
  <1>5. CASE st[t.id] = "skipped"
    BY <1>1, <1>5
  <1> QED BY <1>3, <1>4, <1>5, StatesStep

LEMMA LastTouchPreserved ==
  ASSUME ShapeInv, WellFormed, BranchesFirst, RulesKept, QuietKept, QuietlyServed(plan),
         Step, ~NextTurn, faulted' = {},
         NEW r \in DOMAIN res, NEW u \in Touching(plan, Tasks, r), st'[u.id] = "success",
         \A w \in Touching(plan, Tasks, r) \ {u} :
           st'[w.id] = "success" => QuietlyBehind(Tasks, u, w.id)
  PROVE  res'[r] \in LeftBy(u, r)
  <1>0. u \in Tasks
    BY DEF Touching
  <1>1. CASE st[u.id] = "success"
    <2>1. \A w \in Touching(plan, Tasks, r) \ {u} :
            st[w.id] = "success" => QuietlyBehind(Tasks, u, w.id)
      BY QuietStep DEF Touching
    <2>2. res[r] \in LeftBy(u, r)
      BY <1>1, <2>1 DEF QuietKept, LastTouchKept
    <2>3. ASSUME NEW t \in Tasks, Succeed(t) PROVE res'[r] = res[r]
      <3>1. CASE t \in Touching(plan, Tasks, r)
        <4>1. st'[t.id] = "success" /\ st[t.id] = "running" /\ t # u
          BY <1>1, <2>3, QuietStep DEF Succeed
        <4>2. HasSettled(t.id)
          BY <1>0, <1>1, <3>1, <4>1, BehindSettled DEF QuietKept, Ran
        <4> QED BY <4>1, <4>2 DEF HasSettled, Settled
      <3>2. CASE t \notin Touching(plan, Tasks, r)
        BY <2>3, <3>2, OnlyTouching DEF Succeed
      <3> QED BY <3>1, <3>2
    <2>4. ASSUME NEW t \in Tasks, Schedule(t) PROVE res'[r] = res[r]
      BY <2>4 DEF Schedule
    <2>5. ASSUME NEW s \in DOMAIN res, s # r, Made(s) \/ Gone(s) PROVE res'[r] = res[r]
      BY <2>5 DEF Made, Gone
    <2>6. ASSUME Made(r) \/ Gone(r) PROVE res'[r] \in LeftBy(u, r)
      <3> SUFFICES ASSUME u.does \in {"drop", "retire"}, u.on = r, NEW c \in Contents(r)
                   PROVE  res[c] = "none"
        BY <2>2, <2>6, SpontaneousSteps
      <3>1. /\ c \in DOMAIN res /\ c # u.on
            /\ \A w \in Touching(plan, Tasks, c) \ {u} : QuietlyBehind(Tasks, u, w.id)
        BY <1>0 DEF QuietlyServed, Served, ShapeInv, Tasks, Contents
      <3>2. u \in Touching(plan, Tasks, c)
        BY <1>0 DEF Touching, Touches, Removing, Contents
      <3>3. res[c] \in LeftBy(u, c)
        BY <1>1, <3>1, <3>2 DEF QuietKept, LastTouchKept
      <3> QED BY <3>1, <3>3 DEF LeftBy
    <2> QED BY <2>2, <2>3, <2>4, <2>5, <2>6, QuietStep DEF Step
  <1>2. CASE st[u.id] # "success"
    BY <1>0, <1>2, QuietStep, LeftBehind
  <1> QED BY <1>1, <1>2

\* Nothing has touched r in this graph: AWS does not change what the last graph that
\* did has made of it.
LEMMA FoundPreserved ==
  ASSUME ShapeInv, WellFormed, BranchesFirst, RulesKept, QuietKept, QuietlyServed(plan),
         Step, ~NextTurn, faulted' = {},
         NEW r \in DOMAIN res,
         \A w \in Touching(plan, Tasks, r) : st'[w.id] # "success",
         NEW Z \in SUBSET Phases, GraphFinds(plan, turn, r, Z)
  PROVE  res'[r] \in Z
  <1>0. \A w \in Touching(plan, Tasks, r) : st[w.id] # "success"
    BY QuietStep DEF Touching
  <1>1. res[r] \in Z
    BY <1>0 DEF QuietKept, FoundKept
  <1>2. ASSUME NEW t \in Tasks, Succeed(t) PROVE res'[r] = res[r]
    BY <1>2, QuietStep, OnlyTouching DEF Succeed
  <1>3. ASSUME NEW t \in Tasks, Schedule(t) PROVE res'[r] = res[r]
    BY <1>3 DEF Schedule
  <1>4. ASSUME NEW s \in DOMAIN res, s # r, Made(s) \/ Gone(s) PROVE res'[r] = res[r]
    BY <1>4 DEF Made, Gone
  <1>5. ASSUME Made(r) \/ Gone(r) PROVE res'[r] \in Z
    <2>1. CASE \A j \in DOMAIN Plans[plan] :
                 j < turn => Touching(plan, ToSet(Plans[plan][j]), r) = {}
      <3>1. GraphFinds(plan, turn, r, {"none"})
        BY <2>1, GraphFindsIt
      <3>2. res[r] = "none"
        BY <1>0, <3>1 DEF QuietKept, FoundKept, Phases
      <3> QED BY <1>5, <3>2 DEF Made, Gone
    <2>2. ASSUME NEW j \in DOMAIN Plans[plan], j < turn,
                 NEW g, g = ToSet(Plans[plan][j]),
                 \A k \in DOMAIN Plans[plan] :
                   j < k /\ k < turn => Touching(plan, ToSet(Plans[plan][k]), r) = {},
                 NEW u \in Touching(plan, g, r), u.id \notin QuietSkippable(g),
                 LeftBy(u, r) \subseteq Z,
                 \A w \in Touching(plan, g, r) \ {u} : QuietlyBehind(g, u, w.id)
          PROVE  res'[r] \in Z
      <3>1. GraphFinds(plan, turn, r, LeftBy(u, r))
        BY <2>2, GraphFindsIt
      <3>2. res[r] \in LeftBy(u, r)
        BY <1>0, <3>1, LeftPhases DEF QuietKept, FoundKept
      <3>3. u \in g /\ Served(plan, j, g, u)
        BY <2>2 DEF QuietlyServed, Touching
      <3>4. ASSUME u.does \in {"drop", "retire"}, u.on = r, NEW c \in Contents(r)
            PROVE  res[c] = "none"
        <4>1. /\ c \in DOMAIN res /\ c # u.on
              /\ \A w \in Touching(plan, g, c) \ {u} : QuietlyBehind(g, u, w.id)
              /\ \A k \in DOMAIN Plans[plan] :
                   j < k => Touching(plan, ToSet(Plans[plan][k]), c) = {}
          BY <2>2, <3>3, <3>4 DEF Served, ShapeInv, Contents
        <4>2. u \in Touching(plan, g, c) /\ LeftBy(u, c) = {"none"}
          BY <3>3, <3>4, <4>1 DEF Touching, Touches, Removing, Contents, LeftBy
        <4>3. Touching(plan, Tasks, c) = {}
          BY <2>2, <4>1 DEF ShapeInv, Tasks
        <4>4. res[c] \in LeftBy(u, c)
          BY <2>2, <4>1, <4>2, <4>3, LeftByGraph
        <4> QED BY <4>2, <4>4
      <3> QED BY <1>5, <2>2, <3>2, <3>4, SpontaneousSteps
    <2> QED BY <2>1, <2>2, GraphFindsIt
  <1> QED BY <1>1, <1>2, <1>3, <1>4, <1>5, QuietStep DEF Step

\* What a graph leaves is what its successor finds.
LEMMA EndOfGraph ==
  ASSUME ShapeInv, WellFormed, QuietKept, QuietlyServed(plan),
         \A x \in DOMAIN st : Settled(x),
         NEW r \in DOMAIN res, NEW Z \in SUBSET Phases, GraphFinds(plan, turn + 1, r, Z)
  PROVE  res[r] \in Z
  <1>0. turn \in Nat /\ turn \in DOMAIN Plans[plan] /\ DOMAIN Plans[plan] \subseteq Nat
    BY PlansAreSequences DEF ShapeInv
  <1>1. CASE /\ "none" \in Z
             /\ \A j \in DOMAIN Plans[plan] :
                  j < turn + 1 => Touching(plan, ToSet(Plans[plan][j]), r) = {}
    <2>1. Touching(plan, Tasks, r) = {} /\ GraphFinds(plan, turn, r, Z)
      <3>1. turn < turn + 1 /\ \A j \in DOMAIN Plans[plan] : j < turn => j < turn + 1
        BY <1>0
      <3> QED BY <1>0, <1>1, <3>1, GraphFindsIt DEF Tasks
    <2> QED BY <2>1 DEF QuietKept, FoundKept
  <1>2. ASSUME NEW j \in DOMAIN Plans[plan], j < turn + 1,
               NEW g, g = ToSet(Plans[plan][j]),
               \A k \in DOMAIN Plans[plan] :
                 j < k /\ k < turn + 1 => Touching(plan, ToSet(Plans[plan][k]), r) = {},
               NEW u \in Touching(plan, g, r), u.id \notin QuietSkippable(g),
               LeftBy(u, r) \subseteq Z,
               \A w \in Touching(plan, g, r) \ {u} : QuietlyBehind(g, u, w.id)
        PROVE  res[r] \in Z
    <2>1. CASE j = turn
      <3>1. g = Tasks /\ u \in Tasks
        BY <1>2, <2>1 DEF Tasks, Touching
      <3>2. HasSettled(u.id)
        BY <3>1, RunningGraph DEF HasSettled
      <3>3. st[u.id] = "success"
        BY <1>2, <3>1, <3>2, SettledWell DEF QuietKept, Succeeded
      <3>4. res[r] \in LeftBy(u, r)
        BY <1>2, <3>1, <3>3 DEF QuietKept, LastTouchKept
      <3> QED BY <1>2, <3>4
    <2>2. CASE j # turn
      <3>1. j < turn /\ \A k \in DOMAIN Plans[plan] : k < turn => k < turn + 1
        BY <1>0, <1>2, <2>2
      <3>2. Touching(plan, Tasks, r) = {}
        BY <1>0, <1>2, <3>1 DEF Tasks
      <3>3. res[r] \in LeftBy(u, r)
        BY <1>2, <3>1, <3>2, LeftByGraph
      <3> QED BY <1>2, <3>3
    <2> QED BY <2>1, <2>2
  <1> QED BY <1>1, <1>2, GraphFindsIt

LEMMA QuietPreserved ==
  ASSUME ShapeInv, WellFormed, BranchesFirst, RulesKept, Quiet => QuietKept, [Next]_vars
  PROVE  (Quiet => QuietKept)'
  <1> SUFFICES ASSUME Quiet' PROVE QuietKept'
    OBVIOUS
  <1>0. plan' = plan /\ Quiet /\ QuietKept /\ QuietlyServed(plan) /\ faulted' = {}
    <2>1. plan' = plan
      BY NextGraph, Effects DEF Next, vars
    <2>2. faulted' = {} => faulted = {}
      BY DEF Next, Step, vars, Schedule, Succeed, Refused, Fault, Made, Gone, NextTurn
    <2> QED BY <2>1, <2>2 DEF Quiet
  <1>1. CASE UNCHANGED vars
    <2>1. Tasks' = Tasks
      BY <1>1 DEF vars, Tasks
    <2> QED BY <1>0, <1>1, <2>1
        DEF vars, QuietKept, NoneFailed, Failed, QuietSkipsKept, LastTouchKept, FoundKept
  <1>2. CASE NextTurn
    <2>1. \A t \in Tasks' : st'[t.id] = "none"
      BY <1>2, NextGraph DEF IdsIn
    <2>2. NoneFailed'
      BY <1>2, NextGraph DEF NoneFailed, Failed
    <2>3. QuietSkipsKept' /\ LastTouchKept'
      BY <2>1 DEF QuietSkipsKept, LastTouchKept, Touching
    <2>4. FoundKept'
      <3>1. turn' = turn + 1 /\ res' = res /\ \A x \in DOMAIN st : Settled(x)
        BY <1>2 DEF NextTurn
      <3> QED BY <1>0, <3>1, EndOfGraph DEF FoundKept
    <2> QED BY <2>2, <2>3, <2>4 DEF QuietKept
  <1>3. CASE Step /\ ~NextTurn
    <2>1. InTurn /\ Tasks' = Tasks /\ turn' = turn /\ DOMAIN res' = DOMAIN res
      BY <1>3, Effects, ResourcesTyped DEF Tasks, ShapeInv
    <2>2. NoneFailed'
      BY <1>0, <1>3, NoneFailedPreserved
    <2>3. QuietSkipsKept'
      BY <1>0, <2>1, QuietSkipsPreserved DEF QuietSkipsKept
    <2>4. LastTouchKept'
      BY <1>0, <1>3, <2>1, LastTouchPreserved DEF LastTouchKept
    <2>5. FoundKept'
      BY <1>0, <1>3, <2>1, FoundPreserved DEF FoundKept
    <2> QED BY <2>2, <2>3, <2>4, <2>5 DEF QuietKept
  <1> QED BY <1>1, <1>2, <1>3 DEF Next

\* When nothing goes wrong, a plan succeeds and leaves nothing behind that it made to
\* be removed, in every plan in whose graphs each task finds what it wants where the
\* last task before it that had to do with the resource has left it: no schedule of
\* the tasks, and no delay of AWS, makes a call fail.
THEOREM QuietPlansComplete ==
  ASSUME WellFormed, BranchesFirst, \A p \in DOMAIN Plans \ LeavesThings : QuietlyServed(p)
  PROVE  Spec => []QuietPlanCompletes
  <1>1. ASSUME ShapeInv, Quiet => QuietKept PROVE QuietPlanCompletes
    <2> SUFFICES ASSUME faulted = {}, plan \notin LeavesThings
                 PROVE  /\ \A x \in DOMAIN st : st[x] \notin {"failed", "upstream_failed"}
                        /\ Over => \A t \in PlanTasks(plan) :
                             t.does \in {"make", "start"} => res[t.on] = "none"
      BY DEF QuietPlanCompletes
    <2>1. QuietKept /\ QuietlyServed(plan)
      BY <1>1 DEF Quiet, ShapeInv
    <2>2. \A x \in DOMAIN st : st[x] \notin {"failed", "upstream_failed"}
      BY <2>1 DEF QuietKept, NoneFailed, Failed
    <2>3. ASSUME Over, NEW t \in PlanTasks(plan), t.does \in {"make", "start"}
          PROVE  res[t.on] = "none"
      <3>1. GraphFinds(plan, turn + 1, t.on, {"none", "going"})
        BY <2>1, <2>3 DEF QuietlyServed, Over
      <3>2. t.on \in DOMAIN res
        BY <1>1, <2>1, <2>3 DEF ShapeInv, Resources, QuietlyServed
      <3>3. res[t.on] \in {"none", "going"}
        BY <1>1, <2>1, <2>3, <3>1, <3>2, EndOfGraph DEF Over, Phases
      <3> QED BY <2>3, <3>2, <3>3 DEF Over
    <2> QED BY <2>2, <2>3
  <1>2. Init => (Quiet => QuietKept)
    <2> SUFFICES ASSUME Init PROVE QuietKept
      OBVIOUS
    <2>1. \A t \in Tasks : st[t.id] = "none"
      BY ShapeInit DEF IdsIn
    <2>2. NoneFailed
      BY ShapeInit DEF NoneFailed, Failed
    <2>3. QuietSkipsKept /\ LastTouchKept
      BY <2>1 DEF QuietSkipsKept, LastTouchKept, Touching
    <2>4. FoundKept
      <3> SUFFICES ASSUME NEW r \in DOMAIN res, NEW Z, GraphFinds(plan, turn, r, Z)
                   PROVE  "none" \in Z /\ res[r] = "none"
        BY DEF FoundKept
      <3>1. turn = 1 /\ \A j \in DOMAIN Plans[plan] : ~(j < turn)
        BY PlansAreSequences DEF Init
      <3> QED BY <3>1, GraphFindsIt DEF Init
    <2> QED BY <2>2, <2>3, <2>4 DEF QuietKept
  <1>3. ShapeInv /\ RulesKept /\ (Quiet => QuietKept) /\ [Next]_vars => (Quiet => QuietKept)'
    BY QuietPreserved
  <1> QED BY <1>1, <1>2, <1>3, RulesInvariant, PTL DEF Spec
-----------------------------------------------------------------------------
(***************************************************************************)
(* Runs end only where they are over.                                      *)
(***************************************************************************)
LEMMA RuleDecided ==
  ASSUME ShapeInv, Startable(Tasks), NEW t \in Tasks,
         \A x \in t.after : x \in DOMAIN st /\ Settled(x)
  PROVE  RuleHolds(t) \/ \E s \in TaskStates : RuleFails(t, s)
  <1>1. \A x \in t.after : st[x] \in {"success", "failed", "upstream_failed", "skipped"}
    BY DEF ShapeInv, AllStates, TaskStates, Settled
  <1>2. {"upstream_failed", "skipped"} \subseteq TaskStates
    BY DEF TaskStates
  <1>3. CASE t.rule = "all_success"
    BY <1>1, <1>2, <1>3 DEF RuleHolds, MayStart, AllSucceeded, RuleFails, AnyFailed
  <1>4. CASE t.rule = "all_done"
    BY <1>4 DEF RuleHolds
  <1>5. CASE t.rule = "all_done_setup_success"
    <2>1. RuleHolds(t) \/ \E u \in t.setups : st[u] # "success"
      BY <1>5 DEF RuleHolds
    <2>2. RuleHolds(t) \/ \E s \in {"upstream_failed", "skipped"} : RuleFails(t, s)
      BY <1>5, <2>1 DEF RuleFails
    <2> QED BY <1>2, <2>2
  <1>6. CASE t.rule = "all_failed"
    BY <1>1, <1>2, <1>6 DEF RuleHolds, RuleFails
  <1>7. CASE t.rule = "one_success"
    <2>1. RuleHolds(t) \/ \A u \in t.after : Settled(u) /\ st[u] # "success"
      BY <1>7 DEF RuleHolds
    <2>2. RuleHolds(t) \/ \E s \in {"upstream_failed", "skipped"} : RuleFails(t, s)
      BY <1>7, <2>1 DEF RuleFails
    <2> QED BY <1>2, <2>2
  <1> QED BY <1>3, <1>4, <1>5, <1>6, <1>7 DEF Startable, Patient

\* A task that waits waits for a resource AWS is at work on.
LEMMA RunningGoesOn ==
  ASSUME ShapeInv, Startable(Tasks), NEW t \in Tasks, st[t.id] = "running"
  PROVE  CanGoOn
  <1>1. CASE Waiting(t)
    <2>1. t.on \in DOMAIN res
      <3>1. t.on # None /\ t \in PlanTasks(plan)
        BY <1>1, RunningGraph DEF Waiting, Startable
      <3> QED BY <3>1 DEF ShapeInv, Resources
    <2>2. res[t.on] \in {"making", "going"}
      BY <1>1 DEF Waiting
    <2> QED BY <2>1, <2>2 DEF CanGoOn
  <1>2. CASE ~Waiting(t)
    <2>1. t.does = "branch" => t.choices # {}
      BY DEF Startable
    <2> QED BY <1>2, <2>1 DEF CanGoOn
  <1> QED BY <1>1, <1>2

\* Of the tasks that have not been scheduled one is the first in the graph.
LEMMA UnscheduledGoesOn ==
  ASSUME ShapeInv, Startable(Tasks), NEW x \in DOMAIN st, st[x] = "none"
  PROVE  CanGoOn
  <1> DEFINE S == {y \in DOMAIN st : st[y] = "none"}
  <1>1. S \in SUBSET IdsIn(Tasks) /\ S # {}
    BY RunningGraph
  <1>2. PICK t \in Tasks : t.id \in S /\ t.after \cap S = {}
    BY <1>1 DEF Startable
  <1>3. t.after \subseteq DOMAIN st
    BY RunningGraph DEF Startable
  <1>4. CASE \E y \in t.after : st[y] = "running"
    BY <1>3, <1>4, RunningGraph, RunningGoesOn
  <1>5. CASE \A y \in t.after : st[y] # "running"
    <2>1. \A y \in t.after : y \in DOMAIN st /\ Settled(y)
      BY <1>2, <1>3, <1>5 DEF Settled
    <2> QED BY <1>2, <1>3, <2>1, RuleDecided DEF CanGoOn
  <1> QED BY <1>4, <1>5

\* A plan comes to a stop exactly when it is over: as long as a task is left, or a
\* graph, or AWS has something to carry out, an action can be taken, and after that
\* none can.  No task waits for one that waits for it, for a state that no rule
\* decides on, or for a resource nobody makes.
THEOREM PlansNeverStall ==
  ASSUME WellFormed, \A p \in DOMAIN Plans : \A g \in Graphs(p) : Startable(g)
  PROVE  Spec => [](CanGoOn <=> ~Over)
  <1>1. ASSUME ShapeInv, ~Over PROVE CanGoOn
    <2>1. Startable(Tasks)
      BY <1>1, RunningGraph DEF ShapeInv
    <2>2. CASE \E x \in DOMAIN st : ~Settled(x)
      BY <1>1, <2>1, <2>2, UnscheduledGoesOn, RunningGoesOn, RunningGraph DEF Settled
    <2>3. CASE \A x \in DOMAIN st : Settled(x)
      <3>1. turn \in Nat /\ Len(Plans[plan]) \in Nat /\ turn <= Len(Plans[plan])
        BY <1>1, PlansAreSequences DEF ShapeInv
      <3> QED BY <1>1, <2>3, <3>1 DEF Over, CanGoOn
    <2> QED BY <2>2, <2>3
  <1>2. ASSUME ShapeInv, Over PROVE ~CanGoOn
    <2>1. \A t \in Tasks : st[t.id] \notin {"none", "running"}
      BY <1>2, RunningGraph DEF Over, Settled
    <2>2. ~(turn < Len(Plans[plan]))
      BY <1>2, PlansAreSequences DEF Over, ShapeInv
    <2> QED BY <1>2, <2>1, <2>2 DEF Over, CanGoOn
  <1>3. Init => ShapeInv
    BY ShapeInit
  <1>4. ShapeInv /\ [Next]_vars => ShapeInv'
    BY ShapePreserved
  <1> QED BY <1>1, <1>2, <1>3, <1>4, PTL DEF Spec
LEMMA TaskAdvances ==
  ASSUME ShapeInv, InTurn, UNCHANGED turn
  PROVE  Advances \/ UNCHANGED st
  <1>0. DOMAIN st' = DOMAIN st
    BY StatesTyped DEF ShapeInv
  <1>1. ASSUME NEW t \in Tasks, NEW s, s # "none", st' = [st EXCEPT ![t.id] = s],
               st[t.id] = "none" \/ (st[t.id] = "running" /\ s # "running")
        PROVE  Advances
    <2>1. t.id \in DOMAIN st /\ Distance(st'[t.id]) < Distance(st[t.id])
      BY <1>1, RunningGraph DEF Distance
    <2>2. \A x \in DOMAIN st : Distance(st'[x]) <= Distance(st[x])
      BY <1>1, <2>1 DEF Distance
    <2> QED BY <1>0, <2>1, <2>2 DEF Advances
  <1>2. ASSUME NEW t \in Tasks, NEW c, Branches(t, c) PROVE Advances
    <2>1. \A x \in DOMAIN st : st'[x] \in {"success", "skipped"} \/ st'[x] = st[x]
      BY <1>2, ChosenStates DEF Branches
    <2>2. t.id \in DOMAIN st /\ st[t.id] = "running" /\ st'[t.id] \in {"success", "skipped"}
      BY <1>2, RunningGraph, ChosenStates DEF Branches
    <2>3. Distance(st'[t.id]) < Distance(st[t.id])
      BY <2>2 DEF Distance
    <2>4. \A x \in DOMAIN st : Distance(st'[x]) <= Distance(st[x])
      BY <2>1 DEF Distance
    <2> QED BY <1>0, <2>2, <2>3, <2>4 DEF Advances
  <1> QED BY <1>1, <1>2 DEF InTurn, Starts, GivesUp, Ends

\* Every step brings the plan closer to its end, which has finitely many graphs, tasks
\* and resources: no task is ever run again, no graph started twice, and what AWS does
\* by itself it does once for each request.
THEOREM StepsAdvance ==
  ASSUME WellFormed
  PROVE  Spec => [][Advances]_vars
  <1>1. ASSUME ShapeInv, Step PROVE Advances
    <2>1. CASE NextTurn
      BY <2>1 DEF NextTurn, Advances
    <2>2. ASSUME NEW t \in Tasks, Schedule(t) \/ Succeed(t) \/ Refused(t) \/ Fault(t)
          PROVE  Advances
      <3>1. t.id \in DOMAIN st
        BY <1>1, RunningGraph
      <3>2. InTurn /\ UNCHANGED turn
        <4>1. UNCHANGED turn
          BY <2>2 DEF Schedule, Succeed, Refused, Fault
        <4>2. turn \in Nat
          BY <1>1, PlansAreSequences DEF ShapeInv
        <4> QED BY <1>1, <4>1, <4>2, Effects DEF NextTurn
      <3>3. st' # st
        <4>1. CASE Succeed(t) /\ t.does = "branch"
          BY <1>1, <3>1, <4>1, ChosenStates DEF Succeed
        <4>2. CASE ~(Succeed(t) /\ t.does = "branch")
          BY <2>2, <3>1, <4>2 DEF Schedule, Succeed, Refused, Fault, RuleFails, Reports
        <4> QED BY <4>1, <4>2
      <3> QED BY <1>1, <3>2, <3>3, TaskAdvances
    <2>3. ASSUME NEW r \in DOMAIN res, Made(r) \/ Gone(r) PROVE Advances
      <3>1. r \in AtWork /\ UNCHANGED << turn, st >>
        BY <2>3 DEF Made, Gone, AtWork
      <3>2. r \notin AtWork' /\ AtWork' \subseteq AtWork
        BY <2>3 DEF Made, Gone, AtWork
      <3> QED BY <3>1, <3>2 DEF Advances
    <2> QED BY <1>1, <2>1, <2>2, <2>3 DEF Step
  <1>2. ShapeInv /\ [Next]_vars => [Advances]_vars
    BY <1>1 DEF Next
  <1>3. Init => ShapeInv
    BY ShapeInit
  <1>4. ShapeInv /\ [Next]_vars => ShapeInv'
    BY ShapePreserved
  <1> QED BY <1>2, <1>3, <1>4, PTL DEF Spec

=============================================================================
