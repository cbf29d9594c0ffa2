----------------------------- MODULE PlanWiring ------------------------------
(***************************************************************************)
(* What the wiring of a plan's task graphs tells about every one of its    *)
(* runs.  The conditions below can be read off the graphs: they say nothing*)
(* of states or faults, and each is enough for one property of Pipelines.  *)
(*                                                                         *)
(* "x succeeds before t" and "x settles before t" are said with the sets   *)
(* of tasks that are closed under what a success, or a settled task,       *)
(* implies of the tasks upstream: x is in every one of them that holds the *)
(* direct upstream of t.                                                   *)
(***************************************************************************)
EXTENDS Pipelines

Graphs(p) == {ToSet(g) : g \in ToSet(Plans[p])}
IdsIn(g) == {t.id : t \in g}

\* Every plan runs something, and the tasks of a graph have different names.
WellFormed ==
  \A p \in DOMAIN Plans :
    /\ Plans[p] \in Seq(Seq(PlanTasks(p)))
    /\ Plans[p] # << >>
    /\ \A i \in DOMAIN Plans[p] : \A j, k \in DOMAIN Plans[p][i] :
         Plans[p][i][j].id = Plans[p][i][k].id => j = k

-----------------------------------------------------------------------------
\* A success under the default rule had only successes upstream, and one that
\* hides nothing got what it pulled.
SuccessClosed(g, S) ==
  \A u \in g : u.id \in S =>
    /\ u.rule = "all_success" => u.after \subseteq S
    /\ u.hides = {} => u.pulls \subseteq S

SucceedsBefore(g, x, t) ==
  /\ t.rule = "all_success"
  /\ \A S \in SUBSET IdsIn(g) :
       t.after \subseteq S /\ SuccessClosed(g, S) => x \in S

\* Rules that wait for all upstream tasks, and the default one where there is one:
\* with two, a task is given up when one has failed and the other is at work.
Patient == {"all_done", "all_done_setup_success"}

WaitsForAll(t) ==
  \/ t.rule \in Patient
  \/ t.rule = "all_success" /\ \A x, y \in t.after : x = y

\* A task that is given up, or skipped, was so for one that had settled before.
SettledClosed(g, S) ==
  \A u \in g : u.id \in S =>
    /\ WaitsForAll(u) => u.after \subseteq S
    /\ u.rule = "all_success" /\ u.after # {} => u.after \cap S # {}

SettlesBefore(g, x, t) ==
  \A S \in SUBSET IdsIn(g) :
    t.after \subseteq S /\ SettledClosed(g, S) => x \in S

\* t does not run before x is over.
RunsAfter(g, t, x) ==
  \/ SucceedsBefore(g, x, t)
  \/ t.rule \in Patient /\ SettlesBefore(g, x, t)

\* What a branch may skip waits for the branch to succeed, and nothing else that it
\* waits for can be given up while the branch is at work.
BranchesFirst ==
  \A p \in DOMAIN Plans : \A g \in Graphs(p) : \A b, u \in g : u.id \in b.choices =>
    /\ u.rule = "all_success" /\ b.id \in u.after
    /\ \A y \in g : y.id \in u.after \ {b.id} =>
         SucceedsBefore(g, y.id, b) \/ (WaitsForAll(y) /\ b.id \in y.after)

-----------------------------------------------------------------------------
\* What a task pulls is of tasks that succeed before it.
PullsAhead(p) ==
  \A g \in Graphs(p) : \A t \in g :
    t.rule = "all_success" => \A x \in t.pulls : SucceedsBefore(g, x, t)

\* u succeeds only if r is there then.
Provides(u, r) ==
  /\ u.on = r /\ r # None
  /\ u.does \in {"make", "put", "await"}
  /\ u.hides = {}

\* What a task needs is provided by a task that succeeds before it, and removed
\* by no task but those that run after it, or succeed before the provider.
NeedsProvided(p) ==
  \A g \in Graphs(p) : \A t \in g : t.rule = "all_success" =>
    \A r \in t.needs : \E u \in g :
      /\ Provides(u, r) /\ SucceedsBefore(g, u.id, t)
      /\ \A d \in g \cap RemoversOf(p, r) :
           RunsAfter(g, d, t.id) \/ SucceedsBefore(g, d.id, u)

\* What may be skipped: what a branch chooses from, what a rule gives up without a
\* failure, and what comes after those under the default rule.
NeverSkipped == {"all_success", "all_done"}

SkipClosed(g, S) ==
  \A u \in g :
    \/ u.rule \notin NeverSkipped
    \/ \E b \in g : u.id \in b.choices
    \/ u.rule = "all_success" /\ u.after \cap S # {}
    => u.id \in S

Skippable(g) ==
  {x \in IdsIn(g) : \A S \in SUBSET IdsIn(g) : SkipClosed(g, S) => x \in S}

\* A run of g may end with the tasks F failed or given up, K skipped, and all
\* the others successful: under the default rule each has a reason upstream.
MayEndWith(g, F, K) ==
  \A u \in g :
    /\ u.id \notin F \/ u.id \notin K
    /\ u.rule = "all_done" => u.id \notin K
    /\ u.rule = "all_success" =>
         /\ u.id \notin F \cup K => u.after \cap (F \cup K) = {}
         /\ u.id \in F => u.after \cap F # {} \/ u.after \cap K = {}
         /\ u.id \in K => \/ u.after \cap K # {}
                          \/ \E b \in g : u.id \in b.choices /\ b.id \notin F \cup K

\* No task hides a failure, and however a run with one ends, a failed task
\* decides on its state.
FailuresCarried(p) ==
  /\ \A t \in PlanTasks(p) : t.hides = {}
  /\ \A g \in Graphs(p) : \A F \in SUBSET IdsIn(g) : \A K \in SUBSET Skippable(g) :
       MayEndWith(g, F, K) /\ (\E t \in g : t.id \in F /\ t.setups = {}) =>
         \E u \in g :
           /\ u.id \in F /\ u.setups = {}
           /\ \A v \in g : u.id \in v.after => v.setups # {}

-----------------------------------------------------------------------------
Makers == {"make", "put", "start", "launch"}
Makes(t, r) == t.on = r /\ t.does \in Makers

Removing == {"delete", "purge", "clear", "drop", "retire"}

\* A resource within another one is made only while that one is there, and holds
\* nothing itself.
Nested(p) ==
  \A t \in PlanTasks(p) :
    /\ t.does \in Removing => t.on # None
    /\ t.within # None =>
         /\ t.on \in Resources(p) /\ ContentsOf(p, t.on) = {}
         /\ \A m \in PlanTasks(p) : Makes(m, t.on) => t.within \in m.needs

\* Nothing can keep t from being tried: it runs whatever happened before it.
RunsAnyway(g, t) ==
  /\ t.rule = "all_done" \/ (t.rule = "all_success" /\ t.after = {})
  /\ \A b \in g : t.id \notin b.choices

\* d, in the i-th graph of p, removes what it is about for good: its call is refused
\* only when that is not there, what it asks for can be carried out, and it is not
\* made after d.
RemovesForGood(p, i, d) ==
  LET g == ToSet(Plans[p][i])
  IN /\ d \in g /\ d.on # None /\ d.needs = {} /\ d.pulls = {}
     /\ RunsAnyway(g, d)
     /\ \/ d.does \in {"purge", "clear"}
        \/ d.does \in {"delete", "drop", "retire"} /\ ContentsOf(p, d.on) = {}
     /\ \A m \in g : Makes(m, d.on) => SettlesBefore(g, m.id, d)
     /\ \A j \in DOMAIN Plans[p] : j > i =>
          \A m \in ToSet(Plans[p][j]) : ~Makes(m, d.on)

\* What can be removed at all is removed for good in the end, by itself or with what
\* it is in.
LeftoversRemoved(p) ==
  /\ Nested(p)
  /\ \A r \in Resources(p) : RemoversOf(p, r) # {} =>
       \E i \in DOMAIN Plans[p] : \E d \in RemoversOf(p, r) : RemovesForGood(p, i, d)

-----------------------------------------------------------------------------
(***************************************************************************)
(* Runs in which nothing goes wrong.  "Last" is said of the tasks that     *)
(* touch a resource: what the last of them left is what the next one finds.*)
(***************************************************************************)
\* Without a failure, what a branch chooses from may be skipped, what a rule waits
\* for a failure for, and what has nothing but such tasks to wait for.
QuietSkipClosed(g, S) ==
  \A u \in g :
    \/ u.rule \notin {"all_success", "one_success"} \cup Patient
    \/ \E b \in g : u.id \in b.choices
    \/ u.rule = "all_success" /\ u.after \cap S # {}
    \/ u.rule = "one_success" /\ u.after \subseteq S
    \/ u.rule = "all_done_setup_success" /\ u.setups \cap S # {}
    => u.id \in S

QuietSkippable(g) ==
  {x \in IdsIn(g) : \A S \in SUBSET IdsIn(g) : QuietSkipClosed(g, S) => x \in S}

\* Without a failure, what is settled and never skipped has succeeded, behind
\* successes: t does not run before x is over, or not before x has succeeded.
QuietClosed(g, S) ==
  LET skipped == QuietSkippable(g)
  IN \A u \in g :
       /\ u.id \in S
       /\ WaitsForAll(u) \/ (u.rule = "all_success" /\ u.id \notin skipped)
       => u.after \subseteq S

QuietlyBehind(g, t, x) ==
  /\ t.rule \in {"all_success"} \cup Patient
  /\ \A S \in SUBSET IdsIn(g) : t.after \subseteq S /\ QuietClosed(g, S) => x \in S

QuietlyAfter(g, t, x) ==
  \/ SucceedsBefore(g, x, t)
  \/ QuietlyBehind(g, t, x) /\ x \notin QuietSkippable(g)

\* The tasks that may change or wait for r, or ask that it be gone.
Touches(p, u, r) == u.on = r \/ (u.does \in Removing /\ r \in ContentsOf(p, u.on))

Touching(p, g, r) == {u \in g : Touches(p, u, r)}

\* The phases of r once u has succeeded.
LeftBy(u, r) ==
  IF u.on # r THEN {"none"} ELSE
  CASE u.does \in {"make", "put", "await"} -> {"there"}
    [] u.does \in {"start", "launch"} -> {"making", "there"}
    [] u.does = "await_end" -> {"there", "broken"}
    [] u.does \in {"delete", "purge", "clear", "await_gone"} -> {"none"}
    [] u.does \in {"drop", "retire"} -> {"going", "none"}
    [] OTHER -> Phases

\* Of the tasks T of g, those that touch r, the last leaves r in one of the phases of Z.
LastLeaves(g, T, r, Z) ==
  \E u \in T :
    /\ u.id \notin QuietSkippable(g) /\ LeftBy(u, r) \subseteq Z
    /\ \A w \in T \ {u} : QuietlyBehind(g, u, w.id)

\* The i-th graph finds r in one of the phases of Z, when T are the tasks that touch r
\* in each graph.
FoundAmong(p, T, i, r, Z) ==
  \/ "none" \in Z /\ \A j \in DOMAIN T : j < i => T[j] = {}
  \/ \E j \in DOMAIN T :
       /\ j < i
       /\ \A k \in DOMAIN T : j < k /\ k < i => T[k] = {}
       /\ LastLeaves(ToSet(Plans[p][j]), T[j], r, Z)

GraphFinds(p, i, r, Z) ==
  FoundAmong(p, [j \in DOMAIN Plans[p] |-> Touching(p, ToSet(Plans[p][j]), r)], i, r, Z)

\* The task t of g does, when the others that touch r are T: before it, none of them,
\* or one that is the last.
FindsAmong(p, i, g, T, t, r, Z) ==
  \/ /\ GraphFinds(p, i, r, Z)
     /\ \A w \in T : QuietlyBehind(g, w, t.id)
  \/ \E u \in T :
       /\ QuietlyAfter(g, t, u.id) /\ LeftBy(u, r) \subseteq Z
       /\ \A w \in T \ {u} : QuietlyBehind(g, u, w.id) \/ QuietlyBehind(g, w, t.id)

TaskFinds(p, i, g, t, r, Z) ==
  FindsAmong(p, i, g, Touching(p, g, r) \ {t}, t, r, Z)

\* The phases in which a call is not refused, where there are others.
Wants ==
  [start |-> {"none"}, launch |-> {"none"}, await |-> {"making", "there"},
   await_end |-> {"making", "there", "broken"}, await_gone |-> {"going", "none"},
   delete |-> Phases \ {"none"}, purge |-> Phases \ {"none"},
   retire |-> Phases \ {"none"}]

\* The task t of g, the i-th graph, finds what it needs; what is to be deleted is empty
\* by then, and nothing has to do with its contents afterwards.
Served(p, i, g, t) ==
  /\ t.setups \subseteq t.after
  /\ \A x \in t.pulls : QuietlyAfter(g, t, x)
  /\ \A r \in t.needs : r \in Resources(p) /\ TaskFinds(p, i, g, t, r, {"there"})
  /\ t.does \in DOMAIN Wants =>
       t.on # None /\ TaskFinds(p, i, g, t, t.on, Wants[t.does])
  /\ t.does \in {"delete", "drop", "retire"} => \A c \in ContentsOf(p, t.on) :
       /\ c \in Resources(p) \ {t.on} /\ TaskFinds(p, i, g, t, c, {"none"})
       /\ \A w \in Touching(p, g, c) \ {t} : QuietlyBehind(g, t, w.id)
       /\ \A j \in DOMAIN Plans[p] : i < j => Touching(p, ToSet(Plans[p][j]), c) = {}

\* Every task finds what it needs, and what was made to be removed is removed.
QuietlyServed(p) ==
  /\ \A i \in DOMAIN Plans[p] : \A t \in ToSet(Plans[p][i]) :
       Served(p, i, ToSet(Plans[p][i]), t)
  /\ \A t \in PlanTasks(p) : t.does \in {"make", "start"} =>
       t.on # None /\ GraphFinds(p, Len(Plans[p]) + 1, t.on, {"none", "going"})

-----------------------------------------------------------------------------
(***************************************************************************)
(* What the states of a graph's tasks say of the tasks upstream, as far as *)
(* the graph has come.                                                     *)
(***************************************************************************)
Ran == {"running", "success", "failed"}

Succeeded(x) == x \in DOMAIN st /\ st[x] = "success"
Failed(x) == x \in DOMAIN st /\ st[x] \in {"failed", "upstream_failed"}
Skipped(x) == x \in DOMAIN st /\ st[x] = "skipped"
HasSettled(x) == x \in DOMAIN st /\ Settled(x)

\* A task under the default rule has run only behind successes, a success that
\* hides nothing got its answers, and a task is not settled before one of its
\* upstream tasks is, or before all are if it waits for them.
RulesKept ==
  \A t \in Tasks :
    /\ t.rule = "all_success" /\ st[t.id] \in Ran => \A x \in t.after : Succeeded(x)
    /\ t.hides = {} /\ st[t.id] = "success" => Answered(t)
    /\ WaitsForAll(t) /\ st[t.id] # "none" => \A x \in t.after : HasSettled(x)
    /\ t.rule = "all_success" /\ st[t.id] # "none" /\ t.after # {} =>
         \E x \in t.after : HasSettled(x)

\* Under the default rule a task is given up for a failure upstream, and skipped
\* for a skipped task upstream or by a branch that succeeded.
ReasonsKept ==
  \A t \in Tasks :
    /\ t.rule = "all_success" /\ st[t.id] = "upstream_failed" =>
         \E x \in t.after : Failed(x)
    /\ t.rule = "all_success" /\ st[t.id] = "skipped" =>
         \/ \E x \in t.after : Skipped(x)
         \/ \E b \in Tasks : t.id \in b.choices /\ Succeeded(b.id)
    /\ t.rule = "all_done" => st[t.id] # "skipped"

\* Only what may be skipped is.
SkipsKept ==
  \A S \in SUBSET IdsIn(Tasks) : SkipClosed(Tasks, S) =>
    \A t \in Tasks : st[t.id] = "skipped" => t.id \in S

\* A resource whose provider has succeeded is there until one of the tasks that
\* remove it later has run.
ProvidedKept ==
  \A u \in Tasks : \A r \in DOMAIN res :
    /\ Provides(u, r) /\ st[u.id] = "success"
    /\ \A d \in Tasks \cap Removers(r) :
         st[d.id] \in Ran => SucceedsBefore(Tasks, d.id, u)
    => res[r] = "there"

\* A resource is there as long as one within it is.
ContainedKept ==
  Nested(plan) => \A b \in DOMAIN res : \A c \in Contents(b) :
    res[c] # "none" => res[b] # "none"

\* What runs anyway is neither given up nor skipped.
AnywayKept ==
  \A t \in Tasks : RunsAnyway(Tasks, t) => st[t.id] \notin {"upstream_failed", "skipped"}

IsGone(r) == res[r] = "none" \/ (res[r] = "going" /\ Contents(r) = {})

\* What was removed for good is gone, or about to be, unless the removal failed.
RemovalKept ==
  \A i \in 1 .. turn : \A d \in ToSet(Plans[plan][i]) :
    /\ RemovesForGood(plan, i, d)
    /\ i = turn => HasSettled(d.id)
    => d.id \in faulted \/ IsGone(d.on)

-----------------------------------------------------------------------------
(***************************************************************************)
(* The same for runs in which nothing has gone wrong so far.               *)
(***************************************************************************)
NoneFailed == \A x \in DOMAIN st : ~Failed(x)

\* Only what may be skipped without a failure is.
QuietSkipsKept ==
  \A S \in SUBSET IdsIn(Tasks) : QuietSkipClosed(Tasks, S) =>
    \A t \in Tasks : st[t.id] = "skipped" => t.id \in S

\* A resource is as the last of the tasks that have touched it left it.
LastTouchKept ==
  \A r \in DOMAIN res : \A u \in Touching(plan, Tasks, r) :
    /\ st[u.id] = "success"
    /\ \A w \in Touching(plan, Tasks, r) \ {u} :
         st[w.id] = "success" => QuietlyBehind(Tasks, u, w.id)
    => res[r] \in LeftBy(u, r)

\* And as the graph has found it until one of its tasks touches it.
FoundKept ==
  \A r \in DOMAIN res :
    (\A w \in Touching(plan, Tasks, r) : st[w.id] # "success") =>
      \A Z \in SUBSET Phases : GraphFinds(plan, turn, r, Z) => res[r] \in Z

Quiet == faulted = {} /\ QuietlyServed(plan)

QuietKept == NoneFailed /\ QuietSkipsKept /\ LastTouchKept /\ FoundKept

-----------------------------------------------------------------------------
(***************************************************************************)
(* Graphs without a circle, and runs that do not stop before they are over.*)
(***************************************************************************)
\* Every task of g waits for tasks of g, in no circle, under a rule that is decided
\* once those are settled; a branch has a choice, and a sensor something to look at.
Startable(g) ==
  /\ \A t \in g :
       /\ t.after \subseteq IdsIn(g)
       /\ t.rule \in {"all_success", "all_failed", "one_success"} \cup Patient
       /\ t.rule = "all_done_setup_success" => t.setups \subseteq t.after
       /\ t.does = "branch" => t.choices # {}
       /\ t.does \in {"await", "await_end", "await_gone"} => t.on # None
  /\ \A S \in SUBSET IdsIn(g) : S # {} =>
       \E t \in g : t.id \in S /\ t.after \cap S = {}

\* The guards of the actions: the scheduler has a task to start or to give up, a
\* task its next step, AWS something to carry out, or the next graph may start.
CanGoOn ==
  \/ \E t \in Tasks :
       \/ /\ st[t.id] = "none" /\ t.after \subseteq DOMAIN st
          /\ RuleHolds(t) \/ \E s \in TaskStates : RuleFails(t, s)
       \/ /\ st[t.id] = "running"
          /\ IF CanSucceed(t) THEN t.does = "branch" => t.choices # {} ELSE ~Waiting(t)
  \/ \E r \in DOMAIN res : res[r] \in {"making", "going"}
  \/ turn < Len(Plans[plan]) /\ \A x \in DOMAIN st : Settled(x)

\* How far a state is from a settled one, and what AWS is at work on.
Distance(s) == IF s = "none" THEN 2 ELSE IF s = "running" THEN 1 ELSE 0

AtWork == {r \in DOMAIN res : res[r] \in {"making", "going"}}

\* A step starts the next graph, or brings a task of this one closer to its end and
\* takes none back, or is of AWS and leaves it less to do.
Advances ==
  \/ turn' = turn + 1
  \/ /\ turn' = turn /\ DOMAIN st' = DOMAIN st
     /\ \A x \in DOMAIN st : Distance(st'[x]) <= Distance(st[x])
     /\ \E x \in DOMAIN st : Distance(st'[x]) < Distance(st[x])
  \/ /\ UNCHANGED <<turn, st>>
     /\ AtWork' \subseteq AtWork /\ AtWork' # AtWork

=============================================================================
