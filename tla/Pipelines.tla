----------------------------- MODULE Pipelines ------------------------------
(***************************************************************************)
(* How Airflow runs a task graph against the resources of an AWS account,  *)
(* in a world where at most MaxFaults things go wrong.  Airflow and AWS    *)
(* are not in the repository: what is of the repository are the Plans,     *)
(* sequences of task graphs that run one after the other in one account    *)
(* (a single DAG run; two runs of one DAG; a deployment and its clean-up). *)
(* A script that stops at the first error is a line of tasks under         *)
(* all_success, and what it does whatever happened is under all_done.      *)
(***************************************************************************)
EXTENDS TaskGraphs, AirflowDag, FiniteSets, Naturals

CONSTANTS
  Plans,        \* a function from names to sequences of task graphs
  MaxFaults,    \* bound on the faults of a plan
  Unordered,    \* the plans known not to have one of the properties below:
  LeavesThings, \*   each property names the set it exempts, and the README
  FaultsLeak,   \*   says what is wrong with every plan of these sets
  Masking

ASSUME PipelinesAssumption == MaxFaults \in Nat

VARIABLES
  plan,         \* the plan that runs
  turn,         \* which of its task graphs
  st,           \* the states of that graph's tasks
  res,          \* the phases of the plan's resources
  faulted       \* the tasks and resources something went wrong with

vars == <<plan, turn, st, res, faulted>>

\* The resource is not there (yet, any more); asked for; there; not there
\* and never will be; to be deleted; not deletable.
Phases == {"none", "making", "there", "broken", "going", "stuck"}

Tasks == ToSet(Plans[plan][turn])
PlanTasks(p) == UNION {ToSet(g) : g \in ToSet(Plans[p])}
Resources(p) == {t.on : t \in PlanTasks(p)} \ {None}
ContentsOf(p, r) == {t.on : t \in {u \in PlanTasks(p) : u.within = r}}
Contents(r) == ContentsOf(plan, r)

Ids(p) == {t.id : t \in ToSet(p)}

TypeOK ==
  /\ plan \in DOMAIN Plans
  /\ turn \in DOMAIN Plans[plan]
  /\ st \in [Ids(Plans[plan][turn]) -> TaskStates \cup {"running"}]
  /\ Cardinality(Tasks) = Len(Plans[plan][turn])
  /\ Cardinality(Tasks) = Cardinality(Ids(Plans[plan][turn]))
  /\ res \in [Resources(plan) -> Phases]
  /\ Cardinality(faulted) <= MaxFaults

Init ==
  /\ plan \in DOMAIN Plans
  /\ turn = 1
  /\ st = [x \in Ids(Plans[plan][1]) |-> "none"]
  /\ res = [r \in Resources(plan) |-> "none"]
  /\ faulted = {}

-----------------------------------------------------------------------------
(***************************************************************************)
(* The scheduler.                                                          *)
(***************************************************************************)
Settled(x) == st[x] \notin {"none", "running"}

\* The rules AirflowDag does not have; a skipped task counts as settled.
RuleHolds(t) ==
  \/ MayStart(st, t.after, t.rule)
  \/ /\ t.rule = "all_done"
     /\ \A u \in t.after : Settled(u)
  \/ /\ t.rule = "all_done_setup_success"
     /\ \A u \in t.after : Settled(u)
     /\ \A u \in t.setups : st[u] = "success"
  \/ /\ t.rule = "all_failed"
     /\ \A u \in t.after : st[u] \in {"failed", "upstream_failed"}
  \/ /\ t.rule = "one_success"
     /\ \E u \in t.after : st[u] = "success"

\* The state of a task whose rule cannot hold any more.
RuleFails(t, state) ==
  \/ /\ t.rule = "all_success"
     /\ IF AnyFailed(st, t.after)
          THEN state = "upstream_failed"
          ELSE /\ \E u \in t.after : st[u] = "skipped"
               /\ state = "skipped"
  \/ /\ t.rule = "all_done_setup_success"
     /\ \A u \in t.after : Settled(u)
     /\ \E u \in t.setups : st[u] # "success"
     /\ state = IF AnyFailed(st, t.setups) THEN "upstream_failed" ELSE "skipped"
  \/ /\ t.rule = "all_failed"
     /\ \E u \in t.after : st[u] \in {"success", "skipped"}
     /\ state = "skipped"
  \/ /\ t.rule = "one_success"
     /\ \A u \in t.after : Settled(u) /\ st[u] # "success"
     /\ state = IF AnyFailed(st, t.after) THEN "upstream_failed" ELSE "skipped"

Schedule(t) ==
  /\ st[t.id] = "none"
  /\ t.after \subseteq DOMAIN st
  /\ \/ RuleHolds(t) /\ st' = [st EXCEPT ![t.id] = "running"]
     \/ \E s \in TaskStates : RuleFails(t, s) /\ st' = [st EXCEPT ![t.id] = s]
  /\ UNCHANGED <<plan, turn, res, faulted>>

\* The next task graph of the plan starts when this one is over.
NextTurn ==
  /\ turn < Len(Plans[plan])
  /\ \A x \in DOMAIN st : Settled(x)
  /\ turn' = turn + 1
  /\ st' = [x \in Ids(Plans[plan][turn + 1]) |-> "none"]
  /\ UNCHANGED <<plan, res, faulted>>

-----------------------------------------------------------------------------
(***************************************************************************)
(* What a task does.                                                       *)
(***************************************************************************)
Answered(t) == \A x \in t.pulls : x \in DOMAIN st /\ st[x] = "success"

Accepts(t) ==
  CASE t.does \in {"start", "launch"} -> res[t.on] = "none"
    [] t.does = "await" -> res[t.on] = "there"
    [] t.does = "await_end" -> res[t.on] \in {"there", "broken"}
    [] t.does = "await_gone" -> res[t.on] = "none"
    [] t.does = "delete" ->
         /\ res[t.on] # "none"
         /\ \A r \in Contents(t.on) : res[r] = "none"
    [] t.does \in {"purge", "retire"} -> res[t.on] # "none"
    [] OTHER -> TRUE

CanSucceed(t) ==
  /\ \A r \in t.needs : res[r] = "there"
  /\ Answered(t)
  /\ Accepts(t)

Effect(t) ==
  CASE t.does \in {"make", "put"} -> [res EXCEPT ![t.on] = "there"]
    [] t.does \in {"start", "launch"} -> [res EXCEPT ![t.on] = "making"]
    [] t.does = "delete" -> [res EXCEPT ![t.on] = "none"]
    [] t.does \in {"purge", "clear"} ->
         [r \in DOMAIN res |->
            IF r \in Contents(t.on) \cup {t.on} THEN "none" ELSE res[r]]
    [] t.does \in {"drop", "retire"} ->
         [res EXCEPT ![t.on] = IF @ = "none" THEN @ ELSE "going"]
    [] OTHER -> res

\* A sensor that has nothing to say yet.
Waiting(t) ==
  \/ t.does \in {"await", "await_end"} /\ res[t.on] = "making"
  \/ t.does = "await_gone" /\ res[t.on] = "going"

\* A branch skips the tasks it may choose from, except the chosen one and
\* what comes after it.
Chosen(t, c) ==
  [x \in DOMAIN st |->
     CASE x = t.id -> "success"
       [] /\ x \in t.choices \ {c}
          /\ \A u \in Tasks : u.id = x => c \notin u.after -> "skipped"
       [] OTHER -> st[x]]

Succeed(t) ==
  /\ st[t.id] = "running"
  /\ CanSucceed(t)
  /\ res' = Effect(t)
  /\ IF t.does = "branch"
       THEN \E c \in t.choices : st' = Chosen(t, c)
       ELSE st' = [st EXCEPT ![t.id] = "success"]
  /\ UNCHANGED <<plan, turn, faulted>>

\* A call that is answered with an error, for a reason in the model.
Refused(t) ==
  /\ st[t.id] = "running"
  /\ ~CanSucceed(t) /\ ~Waiting(t)
  /\ st' = [st EXCEPT ![t.id] =
              IF "refusal" \in t.hides THEN "success" ELSE "failed"]
  /\ UNCHANGED <<plan, turn, res, faulted>>

\* What a task in which something goes wrong reports.
Reports(t) ==
  (IF "fault" \in t.hides THEN {} ELSE {"failed"})
  \cup (IF t.hides \cap {"fault", "some faults"} = {} THEN {} ELSE {"success"})

\* A failure for any other reason, before or after the effect; a timeout.  A
\* task that is tried again when it failed has one in its last attempt.
Fault(t) ==
  /\ st[t.id] = "running"
  /\ CanSucceed(t) \/ Waiting(t)
  /\ Cardinality(faulted) < MaxFaults
  /\ faulted' = faulted \cup {t.id}
  /\ res' \in {res} \cup (IF CanSucceed(t) THEN {Effect(t)} ELSE {})
  /\ \E s \in Reports(t) : st' = [st EXCEPT ![t.id] = s]
  /\ UNCHANGED <<plan, turn>>

-----------------------------------------------------------------------------
(***************************************************************************)
(* AWS carries out what it was asked for.                                  *)
(***************************************************************************)
Made(r) ==
  /\ res[r] = "making"
  /\ \/ /\ res' = [res EXCEPT ![r] = "there"]
        /\ UNCHANGED faulted
     \/ /\ Cardinality(faulted) < MaxFaults
        /\ res' = [res EXCEPT ![r] = "broken"]
        /\ faulted' = faulted \cup {r}
  /\ UNCHANGED <<plan, turn, st>>

Gone(r) ==
  /\ res[r] = "going"
  /\ res' = [res EXCEPT ![r] =
               IF \A c \in Contents(r) : res[c] = "none" THEN "none" ELSE "stuck"]
  /\ UNCHANGED <<plan, turn, st, faulted>>

Over ==
  /\ turn = Len(Plans[plan])
  /\ \A x \in DOMAIN st : Settled(x)
  /\ \A r \in DOMAIN res : res[r] \notin {"making", "going"}

Step ==
  \/ \E t \in Tasks : Schedule(t) \/ Succeed(t) \/ Refused(t) \/ Fault(t)
  \/ \E r \in DOMAIN res : Made(r) \/ Gone(r)
  \/ NextTurn

Next == Step

\* Airflow and AWS go on; which way a call ends is open.
Spec == Init /\ [][Next]_vars /\ WF_vars(Step)

-----------------------------------------------------------------------------
(***************************************************************************)
(* Properties.                                                             *)
(***************************************************************************)
\* A task under the default rule never runs without a resource it uses: it
\* does not start before the resource was made, and no clean-up removes the
\* resource while the task is at work.
HasWhatItNeeds ==
  plan \notin Unordered =>
    \A t \in Tasks :
      (st[t.id] = "running" /\ t.rule = "all_success") =>
        \A r \in t.needs : res[r] = "there"

\* A task under the default rule never runs without the return values its
\* arguments are made of: each is of a task of the same run that succeeded.
PullsAnswered ==
  \A t \in Tasks :
    (st[t.id] = "running" /\ t.rule = "all_success") => Answered(t)

\* When nothing goes wrong, a plan succeeds, and nothing that it made to be
\* removed is left: no task fails by the way the graph is wired.
QuietPlanCompletes ==
  (faulted = {} /\ plan \notin LeavesThings) =>
    /\ \A x \in DOMAIN st : st[x] \notin {"failed", "upstream_failed"}
    /\ Over => \A t \in PlanTasks(plan) :
                 t.does \in {"make", "start"} => res[t.on] = "none"

\* Whatever fails, what the graph has a removal for is removed, unless it was
\* the removal that failed: a fault elsewhere does not leak resources.
RemoversOf(p, r) ==
  {t \in PlanTasks(p) :
     \/ t.on = r /\ t.does \in {"delete", "purge", "clear", "drop", "retire"}
     \/ t.does \in {"purge", "clear"} /\ r \in ContentsOf(p, t.on)}
Removers(r) == RemoversOf(plan, r)

FaultsDoNotLeak ==
  (Over /\ plan \notin FaultsLeak) =>
    \A r \in DOMAIN res :
      (Removers(r) # {} /\ res[r] # "none") =>
        \E x \in Contents(r) \cup {r} : \E t \in Removers(x) : t.id \in faulted

\* A run in which a task failed, other than a teardown, is not reported as a
\* success: the state of a run is that of its last tasks, and a clean-up
\* under all_done that is the last task hides the failure of the work.  Nor
\* does a task, or a step of a script, keep to itself what went wrong in it.
KeptToItself(t) ==
  t.hides # {} /\ st[t.id] = "success" /\ t.id \in faulted

Decisive(t) ==
  /\ t.setups = {}
  /\ \A u \in Tasks : t.id \in u.after => u.setups # {}

FailuresShow ==
  (/\ plan \notin Masking
   /\ \A x \in DOMAIN st : Settled(x)
   /\ \E t \in Tasks :
        t.setups = {} /\ (st[t.id] = "failed" \/ KeptToItself(t))) =>
      \E t \in Tasks : Decisive(t) /\ st[t.id] \in {"failed", "upstream_failed"}

\* Every run ends: no task waits for one that is not there or that waits for
\* it.
PlansEnd == <>Over

=============================================================================
