------------------------- MODULE ServerlessCallProofs -------------------------
(***************************************************************************)
(* What a single tool call of ServerlessWorkflows may rely on while the    *)
(* others go on: proofs for any number of calls, workflows and runs, with  *)
(* every failure and lost answer.                                          *)
(***************************************************************************)
EXTENDS ServerlessProofs, FiniteSetTheorems, SequenceTheorems, WellFoundedInduction

(***************************************************************************)
(* Calls as records, field by field.                                       *)
(***************************************************************************)
Typed(q) ==
  /\ q = [f \in Fields |-> q[f]]
  /\ q.op \in Ops /\ q.asked \in Asked /\ q.body \in Objects
  /\ q.dry \in BOOLEAN /\ q.idle \in BOOLEAN /\ q.hurt \in BOOLEAN
  /\ q.step \in Steps /\ q.result \in Results
  /\ q.arn \in Arns \cup {NoArn} /\ q.key \in Keys \cup {NoKey}
  /\ q.run \in 0 .. MaxRuns /\ q.polls \in 0 .. MaxPolls
  /\ q.todo \in SUBSET Arns
  /\ q.report \in SUBSET (Arns \cup 1 .. MaxRuns)
  /\ q.owed \in SUBSET (Arns \cup 1 .. MaxRuns)
  /\ q.seen \in Seq(Objects \cup Keys)
  /\ q.rivals \in SUBSET Bodies

LEMMA TypedCall ==
  ASSUME NEW q
  PROVE  Typed(q) <=> q \in CallStates
  <1>1. ASSUME Typed(q) PROVE q \in CallStates
    <2>1. q = [op |-> q.op, asked |-> q.asked, body |-> q.body, dry |-> q.dry,
               idle |-> q.idle, step |-> q.step, arn |-> q.arn, key |-> q.key,
               run |-> q.run, polls |-> q.polls, todo |-> q.todo,
               report |-> q.report, seen |-> q.seen, hurt |-> q.hurt,
               result |-> q.result, owed |-> q.owed, rivals |-> q.rivals]
      BY <1>1 DEF Typed, Fields
    <2> QED BY <1>1, <2>1 DEF Typed, CallStates
  <1>2. ASSUME q \in CallStates PROVE Typed(q)
    BY <1>2 DEF Typed, CallStates, Fields
  <1> QED BY <1>1, <1>2

\* Call c has changed, in the fields F at most, and no other call has.
Changes(c, F) ==
  /\ call' = [x \in Calls |-> call'[x]]
  /\ \A x \in Calls \ {c} : call'[x] = call[x]
  /\ call'[c] = [f \in Fields |-> call'[c][f]]
  /\ \A f \in Fields \ F : call'[c][f] = call[c][f]

LEMMA AnswerEffect ==
  ASSUME NEW c \in Calls, Typed(call[c]), Shape, NEW result, Answer(c, result)
  PROVE  /\ Changes(c, {"step", "result"})
         /\ call'[c].step = "done" /\ call'[c].result = result
  BY DEF Shape, Answer, Changes, Typed, Fields

-----------------------------------------------------------------------------
(***************************************************************************)
(* A nonempty set of runs has a newest one.                                *)
(***************************************************************************)
LEMMA NewestExists ==
  ASSUME NEW n \in Nat, NEW S, S \subseteq 1 .. n, S # {}
  PROVE  \E i \in S : \A j \in S : j <= i
  <1> DEFINE Above == {(i + 1) .. n : i \in S}
  <1>1. IsFiniteSet(1 .. n)
    BY FS_Interval
  <1>2. Above \subseteq FiniteSubsetsOf(1 .. n) /\ Above # {}
    <2>1. \A i \in S : (i + 1) .. n \in SUBSET (1 .. n)
      OBVIOUS
    <2>2. FiniteSubsetsOf(1 .. n) = SUBSET (1 .. n)
      BY <1>1, FS_FiniteSubsetsOfFinite
    <2> QED BY <2>1, <2>2
  <1>3. PICK U \in Above :
          \A V \in Above : << V, U >> \notin StrictSubsetOrdering(1 .. n)
    <2> HIDE DEF Above
    <2>1. IsWellFoundedOn(StrictSubsetOrdering(1 .. n), FiniteSubsetsOf(1 .. n))
      BY FS_StrictSubsetOrderingWellFounded
    <2> QED BY <1>2, <2>1, WFMin, Zenon
  <1>4. PICK i \in S : U = (i + 1) .. n
    OBVIOUS
  <1>5. ASSUME NEW j \in S, ~(j <= i) PROVE FALSE
    <2> DEFINE V == (j + 1) .. n
    <2>1. V \in Above
      OBVIOUS
    <2>2. V \subseteq U /\ j \in U /\ j \notin V /\ U \subseteq 1 .. n
      BY <1>4, <1>5
    <2>3. << V, U >> \in StrictSubsetOrdering(1 .. n)
      <3> HIDE DEF V
      <3> QED BY <2>2 DEF StrictSubsetOrdering
    <2> QED BY <1>3, <2>1, <2>3
  <1> QED BY <1>5

LEMMA NewestIsIn ==
  ASSUME runs \in Seq(Run), NEW S, S \subseteq DOMAIN runs, S # {}
  PROVE  /\ Newest(S) \in S
         /\ Newest(S) \in 1 .. Len(runs)
         /\ \A j \in S : j <= Newest(S)
  <1>1. Len(runs) \in Nat /\ DOMAIN runs = 1 .. Len(runs)
    OBVIOUS
  <1>2. \E i \in S : \A j \in S : j <= i
    BY <1>1, NewestExists
  <1> QED BY <1>1, <1>2 DEF Newest

-----------------------------------------------------------------------------
(***************************************************************************)
(* Types, and what a call holds at each of its steps.                      *)
(***************************************************************************)
Stage(c) ==
  /\ call[c].step = "resolve" =>
       call[c].op \in Lookups /\ call[c].run \in 0 .. Len(runs)
  /\ call[c].step = "poll" =>
       call[c].op \in {"status", "poll"} /\ call[c].run \in 1 .. Len(runs)
  /\ call[c].step = "stop" =>
       call[c].op = "stop" /\ call[c].run \in 1 .. Len(runs)
  /\ call[c].step = "runs" => call[c].op \in {"status", "poll", "stop"}
  /\ call[c].step = "versions" => call[c].op = "compare"
  /\ call[c].step = "latest" =>
       /\ call[c].seen \in Seq(Keys)
       /\ \/ call[c].op = "get" /\ Len(call[c].seen) = 1
          \/ call[c].op = "compare" /\ Len(call[c].seen) = 2
  /\ call[c].step = "previous" =>
       call[c].op = "compare" /\ Len(call[c].seen) = 2 /\ call[c].seen[2] \in Keys
  /\ call[c].step = "list" => call[c].op \in Scans
  /\ call[c].step = "scan" => call[c].op \in Scans \ {"list"}
  /\ call[c].step = "delete" => call[c].op = "delete"
  /\ call[c].step = "start" => call[c].op \in Deployments \cup {"start"}
  /\ call[c].op = "delete" => call[c].report \subseteq Arns
  /\ call[c].step # "done" => call[c].result = ""

RunsType == runs \in Seq(Run) /\ Len(runs) <= MaxRuns

CallsType == \A c \in Calls : Typed(call[c]) /\ Stage(c)

BodiesGiven ==
  \A c \in Calls :
    call[c].step # "new" /\ call[c].op \in Deployments => call[c].body \in Bodies

TypeInv == RunsType /\ CallsType /\ BodiesGiven

\* What never changes of run i.
SameRun(i) ==
  /\ runs'[i].arn = runs[i].arn /\ runs'[i].body = runs[i].body
  /\ runs'[i].recent = runs[i].recent
  /\ runs[i].state \notin {"RUNNING", "STOPPING"} => runs'[i].state = runs[i].state

RunsKept ==
  /\ Len(runs') >= Len(runs)
  /\ \A i \in 1 .. Len(runs) : SameRun(i)

\* Every run that is added is a recent one.
LEMMA RunsStep ==
  ASSUME ServerlessInv, TypeInv, [Next]_vars
  PROVE  /\ RunsType'
         /\ RunsKept
         /\ \A i \in 1 .. Len(runs') : i > Len(runs) => runs'[i].recent
  <1> USE DEF TypeInv, RunsType, RunsKept, SameRun
  <1> DEFINE Goal == /\ RunsType'
                     /\ RunsKept
                     /\ \A i \in 1 .. Len(runs') : i > Len(runs) => runs'[i].recent
  <1>1. CASE UNCHANGED runs
    BY <1>1
  <1>2. ASSUME NEW i \in 1 .. Len(runs), NEW s \in RunStates,
               runs[i].state \in {"RUNNING", "STOPPING"},
               runs' = [runs EXCEPT ![i].state = s]
        PROVE  Goal
    <2>1. runs[i] \in Run
      OBVIOUS
    <2>2. [runs[i] EXCEPT !.state = s] \in Run
      BY <2>1 DEF Run
    <2>3. runs' \in Seq(Run) /\ Len(runs') = Len(runs)
      BY <1>2, <2>2
    <2>4. \A j \in 1 .. Len(runs) : j # i => runs'[j] = runs[j]
      BY <1>2
    <2>5. runs'[i] = [runs[i] EXCEPT !.state = s]
      BY <1>2
    <2>6. SameRun(i)
      BY <1>2, <2>1, <2>5 DEF Run
    <2> QED BY <2>3, <2>4, <2>6
  <1>3. ASSUME NEW c \in Calls, StartRun(c) PROVE Goal
    <2> DEFINE a == call[c].arn
               run == [arn |-> a, body |-> Latest(a).body, state |-> "RUNNING",
                       recent |-> TRUE]
    <2>1. CASE a \in Live /\ Len(runs) < MaxRuns /\ runs' = Append(runs, run)
      <3>1. a \in Arns /\ versions[a] \in Seq(Version) /\ versions[a] # << >>
        BY <2>1 DEF Live, ServerlessInv, Shape, WorkflowsInv
      <3>2. Latest(a) \in Version
        BY <3>1 DEF Latest
      <3>3. run \in Run /\ run.recent
        BY <3>1, <3>2 DEF Run, Version, RunStates
      <3> HIDE DEF run
      <3>4. /\ runs' \in Seq(Run) /\ Len(runs') = Len(runs) + 1
            /\ \A i \in 1 .. Len(runs) : runs'[i] = runs[i]
            /\ runs'[Len(runs) + 1] = run
        BY <2>1, <3>3
      <3> QED BY <2>1, <3>3, <3>4, ServerlessAssumption
    <2> QED BY <1>1, <1>3, <2>1 DEF StartRun
  <1>4. ASSUME NEW c \in Calls, StopRun(c) PROVE Goal
    <2>1. CASE UNCHANGED runs
      BY <1>1, <2>1
    <2>2. CASE /\ runs[call[c].run].state = "RUNNING"
               /\ runs' = [runs EXCEPT ![call[c].run].state = "STOPPING"]
      <3>1. call[c].run \in 1 .. Len(runs)
        BY <1>4 DEF StopRun, At, CallsType, Stage
      <3> QED BY <1>2, <2>2, <3>1 DEF RunStates
    <2> QED BY <1>4, <2>1, <2>2 DEF StopRun
  <1>5. ASSUME NEW i \in DOMAIN runs, RunEnds(i) PROVE Goal
    BY <1>2, <1>5 DEF RunEnds, RunStates
  <1>6. ASSUME NEW c \in Calls, CallStep(c), ~StartRun(c), ~StopRun(c)
        PROVE  UNCHANGED runs
    BY <1>6 DEF CallStep, Resolve, Detail, Upload, Create, FindExisting, UpdateWorkflow,
       ChooseRun, PollRun, ListVersions, FetchLatest, FetchPrevious, List, EndScan,
       Delete, Inspect, Fails
  <1>7. ASSUME NEW c \in Calls, NEW op \in Ops, Begin(c, op) PROVE UNCHANGED runs
    BY <1>7 DEF Begin
  <1> QED BY <1>1, <1>3, <1>4, <1>5, <1>6, <1>7 DEF Next, vars

-----------------------------------------------------------------------------
(***************************************************************************)
(* What each step of a tool does to its own call.                          *)
(***************************************************************************)
Answered(c, result) ==
  /\ Changes(c, {"step", "result"})
  /\ call'[c].step = "done" /\ call'[c].result = result

GoesOn(c, step) == Changes(c, {"step"}) /\ call'[c].step = step

LEMMA ResolveEffect ==
  ASSUME Shape, NEW c \in Calls, Typed(call[c]), Resolve(c)
  PROVE  \/ Answered(c, "not found")
         \/ \E page \in FirstPages : \E a \in Matches(call[c].asked, page) :
              /\ Changes(c, {"step", "arn"})
              /\ call'[c].arn = a /\ call'[c].step = AfterLookup(c)
  <1>1. PICK page \in FirstPages :
          \/ Answer(c, "not found")
          \/ \E a \in Matches(call[c].asked, page) :
               call' = [call EXCEPT ![c].arn = a, ![c].step = AfterLookup(c)]
    BY DEF Resolve
  <1>2. ASSUME NEW a \in Matches(call[c].asked, page),
               call' = [call EXCEPT ![c].arn = a, ![c].step = AfterLookup(c)]
        PROVE  /\ Changes(c, {"step", "arn"})
               /\ call'[c].arn = a /\ call'[c].step = AfterLookup(c)
    BY <1>2 DEF Shape, Changes, Typed, Fields
  <1> QED BY <1>1, <1>2, AnswerEffect DEF Answered

LEMMA DetailEffect ==
  ASSUME Shape, NEW c \in Calls, Typed(call[c]), Detail(c)
  PROVE  \/ Answered(c, "error")
         \/ /\ call[c].op = "get" /\ call[c].arn \in Live
            /\ Changes(c, {"step", "seen"})
            /\ call'[c].step = "latest" /\ call'[c].seen = << Latest(call[c].arn).key >>
         \/ /\ call[c].op # "get" /\ call[c].arn \in Live
            /\ Changes(c, {"step", "key"}) /\ call'[c].step = "upload"
            /\ call'[c].key \in {Latest(call[c].arn).key} \cup KeysOf[name[call[c].arn]]
  <1>1. CASE Answer(c, "error")
    BY <1>1, AnswerEffect DEF Answered
  <1>2. ASSUME call' = [call EXCEPT ![c].step = "latest",
                                    ![c].seen = << Latest(call[c].arn).key >>]
        PROVE  /\ Changes(c, {"step", "seen"}) /\ call'[c].step = "latest"
               /\ call'[c].seen = << Latest(call[c].arn).key >>
    BY <1>2 DEF Shape, Changes, Typed, Fields
  <1>3. ASSUME call[c].op # "get", call[c].arn \in Live,
               NEW k \in {Latest(call[c].arn).key} \cup KeysOf[name[call[c].arn]],
               call' = [call EXCEPT ![c].step = "upload", ![c].key = k]
        PROVE  /\ Changes(c, {"step", "key"}) /\ call'[c].step = "upload"
               /\ call'[c].key = k
    BY <1>3 DEF Shape, Changes, Typed, Fields
  <1> QED BY <1>1, <1>2, <1>3 DEF Detail

LEMMA ProceedEffect ==
  ASSUME Shape, NEW c \in Calls, Typed(call[c]), NEW ok \in Answers, NEW next,
         call' = [call EXCEPT ![c] = Proceed(c, ok, next)]
  PROVE  Answered(c, "error") \/ GoesOn(c, next)
  BY DEF Shape, Answered, GoesOn, Changes, Typed, Fields, Proceed

LEMMA CreateEffect ==
  ASSUME Shape, NEW c \in Calls, Typed(call[c]), Create(c)
  PROVE  \/ /\ GoesOn(c, "find") /\ UNCHANGED << name, versions >>
            /\ \E a \in Live : name[a] = call[c].asked
         \/ \E a \in Arns :
              /\ \A b \in Live : name[b] # call[c].asked
              /\ name[a] = NoName /\ versions[a] = << >>
              /\ name' = [name EXCEPT ![a] = call[c].asked]
              /\ versions' = [versions EXCEPT ![a] = << NewVersion(c) >>]
              /\ Changes(c, {"step", "result", "arn"}) /\ call'[c].arn = a
              /\ \/ call'[c].step = "start" /\ call'[c].result = call[c].result
                 \/ call'[c].step = "done" /\ call'[c].result = "error"
  <1>1. ASSUME call' = [call EXCEPT ![c].step = "find"]
        PROVE  GoesOn(c, "find")
    BY <1>1 DEF Shape, GoesOn, Changes, Typed, Fields
  <1>2. ASSUME NEW a \in Arns, NEW ok \in Answers,
               call' = [call EXCEPT ![c] = [Proceed(c, ok, "start") EXCEPT !.arn = a]]
        PROVE  /\ Changes(c, {"step", "result", "arn"}) /\ call'[c].arn = a
               /\ \/ call'[c].step = "start" /\ call'[c].result = call[c].result
                  \/ call'[c].step = "done" /\ call'[c].result = "error"
    BY <1>2 DEF Shape, Changes, Typed, Fields, Proceed
  <1> QED BY <1>1, <1>2 DEF Create

LEMMA FindEffect ==
  ASSUME Shape, NEW c \in Calls, Typed(call[c]), FindExisting(c)
  PROVE  \/ Answered(c, "conflict")
         \/ /\ Changes(c, {"step", "arn"}) /\ call'[c].step = "update"
            /\ call'[c].arn \in Live /\ name[call'[c].arn] = call[c].asked
  <1>1. PICK page \in FirstPages :
          LET existing == {a \in page : name[a] = call[c].asked} IN
          IF existing = {}
          THEN Answer(c, "conflict")
          ELSE call' = [call EXCEPT ![c].arn = CHOOSE a \in existing : TRUE,
                                    ![c].step = "update"]
    BY DEF FindExisting
  <1> DEFINE existing == {a \in page : name[a] = call[c].asked}
             a == CHOOSE b \in existing : TRUE
  <1>2. CASE existing = {}
    BY <1>1, <1>2, AnswerEffect DEF Answered
  <1>3. CASE existing # {}
    <2>1. a \in existing /\ page \subseteq Live
      BY <1>3 DEF FirstPages
    <2>2. call' = [call EXCEPT ![c].arn = a, ![c].step = "update"]
      BY <1>1, <1>3
    <2>3. a \in Live /\ name[a] = call[c].asked
      BY <2>1
    <2> HIDE DEF a, existing
    <2>4. /\ Changes(c, {"step", "arn"}) /\ call'[c].step = "update" /\ call'[c].arn = a
      BY <2>2 DEF Shape, Changes, Typed, Fields
    <2> QED BY <2>3, <2>4
  <1> QED BY <1>2, <1>3

LEMMA StartEffect ==
  ASSUME Shape, NEW c \in Calls, Typed(call[c]), StartRun(c)
  PROVE  \/ Answered(c, "error")
         \/ /\ call[c].arn \in Live /\ Len(runs) < MaxRuns
            /\ runs' = Append(runs, [arn |-> call[c].arn, body |-> Latest(call[c].arn).body,
                                     state |-> "RUNNING", recent |-> TRUE])
            /\ Changes(c, {"step", "result", "run"}) /\ call'[c].step = "done"
            /\ call'[c].result = "STARTED" /\ call'[c].run = Len(runs) + 1
  <1>1. ASSUME call' = [call EXCEPT ![c] = [@ EXCEPT !.step = "done", !.result = "STARTED",
                                                     !.run = Len(runs) + 1]]
        PROVE  /\ Changes(c, {"step", "result", "run"}) /\ call'[c].step = "done"
               /\ call'[c].result = "STARTED" /\ call'[c].run = Len(runs) + 1
    BY <1>1 DEF Shape, Changes, Typed, Fields
  <1>2. ASSUME call' = [call EXCEPT ![c] = Proceed(c, FALSE, "done")]
        PROVE  Answered(c, "error")
    BY <1>2 DEF Shape, Changes, Typed, Fields, Proceed, Answered
  <1> QED BY <1>1, <1>2, AnswerEffect DEF StartRun, Answered

LEMMA ChooseEffect ==
  ASSUME Shape, NEW c \in Calls, Typed(call[c]), ChooseRun(c)
  PROVE  \/ \E result \in {"error", "no runs"} : Answered(c, result)
         \/ \E S \in {RunsOf(call[c].arn), ActiveRunsOf(call[c].arn)} :
              /\ S # {} /\ call[c].arn \in Live
              /\ Changes(c, {"step", "run"}) /\ call'[c].run = Newest(S)
              /\ call'[c].step = IF call[c].op = "stop" THEN "stop" ELSE "poll"
  <1>1. ASSUME NEW i, NEW step, call' = [call EXCEPT ![c].run = i, ![c].step = step]
        PROVE  Changes(c, {"step", "run"}) /\ call'[c].run = i /\ call'[c].step = step
    BY <1>1 DEF Shape, Changes, Typed, Fields
  <1>2. ASSUME NEW result, Answer(c, result) PROVE Answered(c, result)
    BY <1>2, AnswerEffect DEF Answered
  <1> DEFINE S == IF call[c].op = "stop" THEN ActiveRunsOf(call[c].arn)
                                         ELSE RunsOf(call[c].arn)
             step == IF call[c].op = "stop" THEN "stop" ELSE "poll"
  <1>3. \/ \E result \in {"error", "no runs"} : Answer(c, result)
        \/ /\ S # {} /\ call[c].arn \in Live
           /\ call' = [call EXCEPT ![c].run = Newest(S), ![c].step = step]
    BY DEF ChooseRun
  <1>4. S \in {RunsOf(call[c].arn), ActiveRunsOf(call[c].arn)}
    OBVIOUS
  <1> HIDE DEF S, step
  <1>5. CASE \E result \in {"error", "no runs"} : Answer(c, result)
    BY <1>2, <1>5
  <1>6. CASE /\ S # {} /\ call[c].arn \in Live
             /\ call' = [call EXCEPT ![c].run = Newest(S), ![c].step = step]
    <2>1. Changes(c, {"step", "run"}) /\ call'[c].run = Newest(S) /\ call'[c].step = step
      BY <1>1, <1>6
    <2> QED BY <1>4, <1>6, <2>1 DEF step
  <1> QED BY <1>3, <1>5, <1>6

LEMMA PollEffect ==
  ASSUME Shape, NEW c \in Calls, Typed(call[c]), PollRun(c)
  PROVE  \/ \E result \in {runs[call[c].run].state, "error", "still running"} :
              Answered(c, result) /\ (call[c].op = "poll" => result = "still running")
         \/ /\ KnownRun(c) /\ runs[call[c].run].state \in TerminalStates
            /\ Answered(c, "completed")
         \/ /\ call[c].polls # MaxPolls
            /\ Changes(c, {"polls"}) /\ call'[c].polls = call[c].polls + 1
  <1>1. ASSUME call' = [call EXCEPT ![c].polls = @ + 1]
        PROVE  Changes(c, {"polls"}) /\ call'[c].polls = call[c].polls + 1
    BY <1>1 DEF Shape, Changes, Typed, Fields
  <1>2. ASSUME NEW result, Answer(c, result) PROVE Answered(c, result)
    BY <1>2, AnswerEffect DEF Answered
  <1>3. CASE call[c].op = "status"
    BY <1>2, <1>3 DEF PollRun
  <1>4. CASE call[c].op # "status"
    BY <1>1, <1>2, <1>4 DEF PollRun
  <1> QED BY <1>3, <1>4

LEMMA FetchEffects ==
  ASSUME Shape, NEW c \in Calls, Typed(call[c]),
         ListVersions(c) \/ FetchLatest(c) \/ FetchPrevious(c)
  PROVE  \/ \E result \in {"error", "only one version"} : Answered(c, result)
         \/ LET v == versions[call[c].arn] IN
            /\ ListVersions(c) /\ call[c].arn \in Live /\ Len(v) >= 2
            /\ Changes(c, {"step", "seen"}) /\ call'[c].step = "latest"
            /\ call'[c].seen = << v[Len(v)].key, v[Len(v) - 1].key >>
         \/ /\ FetchLatest(c)
            /\ Changes(c, {"step", "seen", "result"})
            /\ call'[c].step = IF call[c].op = "get" THEN "done" ELSE "previous"
            /\ call'[c].result = IF call[c].op = "get" THEN "shown" ELSE ""
            /\ \E b \in Fetched(call[c].seen[1]) :
                 call'[c].seen = [call[c].seen EXCEPT ![1] = b]
         \/ /\ FetchPrevious(c)
            /\ Changes(c, {"step", "seen", "result"}) /\ call'[c].step = "done"
            /\ call'[c].result \in {"could not retrieve", "no changes", "diff"}
            /\ \E b \in Fetched(call[c].seen[2]) :
                 call'[c].seen = [call[c].seen EXCEPT ![2] = b]
  <1>1. ASSUME NEW result, Answer(c, result) PROVE Answered(c, result)
    BY <1>1, AnswerEffect DEF Answered
  <1>2. CASE ListVersions(c)
    <2>1. ASSUME NEW seen, call' = [call EXCEPT ![c].seen = seen, ![c].step = "latest"]
          PROVE  /\ Changes(c, {"step", "seen"}) /\ call'[c].step = "latest"
                 /\ call'[c].seen = seen
      BY <2>1 DEF Shape, Changes, Typed, Fields
    <2>2. CASE call[c].arn \in Live /\ Len(versions[call[c].arn]) >= 2
      <3> DEFINE v == versions[call[c].arn]
      <3>1. ~(Len(v) < 2)
        BY <2>2 DEF Live, Shape
      <3>2. call' = [call EXCEPT ![c].seen = << v[Len(v)].key, v[Len(v) - 1].key >>,
                                 ![c].step = "latest"]
        BY <1>2, <2>2, <3>1 DEF ListVersions
      <3> QED BY <1>2, <2>1, <2>2, <3>2
    <2>3. CASE ~(call[c].arn \in Live /\ Len(versions[call[c].arn]) >= 2)
      <3>1. call[c].arn \notin Live \/ Len(versions[call[c].arn]) < 2
        BY <2>3 DEF Live, Shape
      <3> QED BY <1>1, <1>2, <3>1 DEF ListVersions
    <2> QED BY <2>2, <2>3
  <1>3. CASE FetchLatest(c)
    <2>1. PICK b \in Fetched(call[c].seen[1]) :
            call' = [call EXCEPT ![c].seen[1] = b,
                       ![c].step = IF call[c].op = "get" THEN "done" ELSE "previous",
                       ![c].result = IF call[c].op = "get" THEN "shown" ELSE ""]
      BY <1>3 DEF FetchLatest
    <2>2. /\ Changes(c, {"step", "seen", "result"})
          /\ call'[c].step = IF call[c].op = "get" THEN "done" ELSE "previous"
          /\ call'[c].result = IF call[c].op = "get" THEN "shown" ELSE ""
          /\ call'[c].seen = [call[c].seen EXCEPT ![1] = b]
      BY <2>1 DEF Shape, Changes, Typed, Fields
    <2> QED BY <1>3, <2>2
  <1>4. CASE FetchPrevious(c)
    <2>1. PICK b \in Fetched(call[c].seen[2]) :
            call' = [call EXCEPT ![c].seen[2] = b, ![c].step = "done",
                                 ![c].result = Diff(call[c].seen[1], b)]
      BY <1>4 DEF FetchPrevious
    <2>2. /\ Changes(c, {"step", "seen", "result"}) /\ call'[c].step = "done"
          /\ call'[c].result = Diff(call[c].seen[1], b)
          /\ call'[c].seen = [call[c].seen EXCEPT ![2] = b]
      BY <2>1 DEF Shape, Changes, Typed, Fields
    <2>3. Diff(call[c].seen[1], b) \in {"could not retrieve", "no changes", "diff"}
      BY DEF Diff
    <2> QED BY <1>4, <2>2, <2>3
  <1> QED BY <1>2, <1>3, <1>4

LEMMA ListEffect ==
  ASSUME Shape, NEW c \in Calls, Typed(call[c]), List(c)
  PROVE  \E page \in {Live} \cup FirstPages :
           LET fitting == {a \in page : NameFits(call[c].asked, a)} IN
           \/ /\ call[c].op = "list" /\ page = Live
              /\ Changes(c, {"step", "result", "report"}) /\ call'[c].step = "done"
              /\ call'[c].result = "report" /\ call'[c].report = fitting
           \/ /\ call[c].op # "list" /\ page \in FirstPages
              /\ Changes(c, {"step", "todo"})
              /\ call'[c].step = "scan" /\ call'[c].todo = fitting
  <1>1. PICK page \in (IF call[c].op = "list" THEN {Live} ELSE FirstPages) :
          call' = IF call[c].op = "list"
                  THEN [call EXCEPT ![c].step = "done", ![c].result = "report",
                          ![c].report = {a \in page : NameFits(call[c].asked, a)}]
                  ELSE [call EXCEPT ![c].step = "scan",
                          ![c].todo = {a \in page : NameFits(call[c].asked, a)}]
    BY DEF List
  <1> DEFINE fitting == {a \in page : NameFits(call[c].asked, a)}
  <1> HIDE DEF fitting
  <1>2. ASSUME call' = [call EXCEPT ![c].step = "done", ![c].result = "report",
                                    ![c].report = fitting]
        PROVE  /\ Changes(c, {"step", "result", "report"}) /\ call'[c].step = "done"
               /\ call'[c].result = "report" /\ call'[c].report = fitting
    BY <1>2 DEF Shape, Changes, Typed, Fields
  <1>3. ASSUME call' = [call EXCEPT ![c].step = "scan", ![c].todo = fitting]
        PROVE  /\ Changes(c, {"step", "todo"})
               /\ call'[c].step = "scan" /\ call'[c].todo = fitting
    BY <1>3 DEF Shape, Changes, Typed, Fields
  <1> QED BY <1>1, <1>2, <1>3 DEF fitting

LEMMA InspectEffect ==
  ASSUME Shape, NEW c \in Calls, Typed(call[c]), NEW a \in Arns, Inspect(c, a)
  PROVE  /\ Changes(c, {"todo", "hurt", "report"})
         /\ call'[c].todo = call[c].todo \ {a}
         /\ \E ok \in Answers :
              /\ call'[c].hurt = (call[c].hurt \/ ~ok)
              /\ call'[c].report = call[c].report \cup
                   IF call[c].op = "bulk" \/ (ok /\ a \in Live) THEN Row(c, a) ELSE {}
  <1>1. PICK ok \in Answers :
          call' = [call EXCEPT ![c].todo = @ \ {a},
                     ![c].hurt = @ \/ ~ok,
                     ![c].report = @ \cup IF call[c].op = "bulk" \/ (ok /\ a \in Live)
                                          THEN Row(c, a) ELSE {}]
    BY DEF Inspect
  <1> DEFINE row == IF call[c].op = "bulk" \/ (ok /\ a \in Live) THEN Row(c, a) ELSE {}
  <1>2. call' = [call EXCEPT ![c] = [@ EXCEPT !.todo = call[c].todo \ {a},
                                              !.hurt = call[c].hurt \/ ~ok,
                                              !.report = call[c].report \cup row]]
    BY <1>1 DEF Shape, Typed, Fields
  <1> HIDE DEF row
  <1>3. /\ Changes(c, {"todo", "hurt", "report"})
        /\ call'[c].todo = call[c].todo \ {a}
        /\ call'[c].hurt = (call[c].hurt \/ ~ok)
        /\ call'[c].report = call[c].report \cup row
    BY <1>2 DEF Shape, Changes, Typed, Fields
  <1> QED BY <1>3 DEF row

LEMMA EndScanEffect ==
  ASSUME Shape, NEW c \in Calls, Typed(call[c]), EndScan(c)
  PROVE  \/ /\ call[c].op = "delete" /\ ~call[c].dry
            /\ Changes(c, {"step", "todo"})
            /\ call'[c].step = "delete" /\ call'[c].todo = call[c].report
         \/ Answered(c, "report")
  <1>1. ASSUME call' = [call EXCEPT ![c].step = "delete", ![c].todo = call[c].report]
        PROVE  /\ Changes(c, {"step", "todo"})
               /\ call'[c].step = "delete" /\ call'[c].todo = call[c].report
    BY <1>1 DEF Shape, Changes, Typed, Fields
  <1> QED BY <1>1, AnswerEffect DEF EndScan, Answered

LEMMA DeleteEffect ==
  ASSUME Shape, NEW c \in Calls, Typed(call[c]), Delete(c)
  PROVE  \/ Answered(c, "deleted") /\ UNCHANGED name
         \/ \E a \in call[c].todo :
              /\ Changes(c, {"todo"}) /\ call'[c].todo = call[c].todo \ {a}
              /\ name' \in {[name EXCEPT ![a] = NoName], name}
  <1>1. ASSUME NEW a, call' = [call EXCEPT ![c].todo = @ \ {a}]
        PROVE  Changes(c, {"todo"}) /\ call'[c].todo = call[c].todo \ {a}
    BY <1>1 DEF Shape, Changes, Typed, Fields
  <1> QED BY <1>1, AnswerEffect DEF Delete, Answered

-----------------------------------------------------------------------------
(***************************************************************************)
(* A call that begins.  Of the other calls, only deployments notice it.    *)
(***************************************************************************)
Overtaken(x, b) ==
  /\ call'[x] = [f \in Fields |-> call'[x][f]]
  /\ \A f \in Fields \ {"rivals"} : call'[x][f] = call[x][f]
  /\ call'[x].rivals = call[x].rivals \cup {b}

Begun(c, op, n, b) ==
  /\ call[c].step = "new"
  /\ op \in Ops /\ n \in Asked /\ (op = "deploy" => n \in Names)
  /\ b \in Objects /\ (op \in Deployments => b \in Bodies)
  /\ call' = [x \in Calls |-> call'[x]]
  /\ call'[c] = [f \in Fields |-> call'[c][f]]
  /\ call'[c].op = op /\ call'[c].asked = n /\ call'[c].body = b
  /\ call'[c].dry \in BOOLEAN /\ call'[c].idle \in BOOLEAN
  /\ call'[c].step = FirstStep(op) /\ call'[c].arn = NoArn
  /\ call'[c].key \in Keys \cup {NoKey}
  /\ op = "deploy" => call'[c].key \in KeysOf[n]
  /\ call'[c].run \in 0 .. Len(runs) /\ call'[c].polls = 0
  /\ call'[c].todo = {} /\ call'[c].report = {} /\ call'[c].seen = << >>
  /\ call'[c].hurt = FALSE /\ call'[c].result = "" /\ call'[c].owed = Owed(op)
  /\ call'[c].rivals = IF op \in Deployments THEN {call[y].body : y \in Rivals} ELSE {}
  /\ \A x \in Calls \ {c} :
       IF op \in Deployments /\ x \in Rivals THEN Overtaken(x, b)
                                             ELSE call'[x] = call[x]

LEMMA BeginEffect ==
  ASSUME Shape, TypeInv, NEW c \in Calls, NEW op \in Ops, Begin(c, op)
  PROVE  \E n, b : Begun(c, op, n, b)
  <1> USE ServerlessAssumption DEF TypeInv, CallsType, RunsType
  <1>1. PICK n \in (IF op = "deploy" THEN Names ELSE Asked),
             b \in (IF op \in Deployments THEN Bodies ELSE {NoBody}),
             k \in Keys \cup {NoKey},
             d \in (IF op = "delete" THEN BOOLEAN ELSE {FALSE}),
             i \in (IF op = "delete" THEN BOOLEAN ELSE {FALSE}),
             r \in (IF op \in {"status", "poll", "stop"} THEN 0 .. Len(runs) ELSE {0}) :
          /\ IF op = "deploy" THEN k \in KeysOf[n] ELSE k = NoKey
          /\ call' = [x \in Calls |->
               IF x = c
               THEN [Idle EXCEPT !.op = op, !.asked = n, !.body = b, !.key = k,
                                 !.dry = d, !.idle = i, !.run = r,
                                 !.step = FirstStep(op), !.owed = Owed(op),
                                 !.rivals = IF op \in Deployments
                                            THEN {call[y].body : y \in Rivals} ELSE {}]
               ELSE IF op \in Deployments /\ x \in Rivals
                    THEN [call[x] EXCEPT !.rivals = @ \cup {b}]
                    ELSE call[x]]
    BY DEF Begin
  <1> DEFINE rivals == IF op \in Deployments THEN {call[y].body : y \in Rivals} ELSE {}
             q == [Idle EXCEPT !.op = op, !.asked = n, !.body = b, !.key = k,
                               !.dry = d, !.idle = i, !.run = r,
                               !.step = FirstStep(op), !.owed = Owed(op),
                               !.rivals = rivals]
  <1>2. call'[c] = q /\ call' = [x \in Calls |-> call'[x]]
    BY <1>1
  <1>3. ASSUME NEW x \in Calls \ {c}
        PROVE  IF op \in Deployments /\ x \in Rivals THEN Overtaken(x, b)
                                                     ELSE call'[x] = call[x]
    <2>1. call'[x] = IF op \in Deployments /\ x \in Rivals
                     THEN [call[x] EXCEPT !.rivals = @ \cup {b}] ELSE call[x]
      BY <1>1
    <2>2. Typed(call[x])
      OBVIOUS
    <2>3. CASE op \in Deployments /\ x \in Rivals
      BY <2>1, <2>2, <2>3 DEF Overtaken, Typed, Fields
    <2> QED BY <2>1, <2>3
  <1> HIDE DEF rivals
  <1>4. q = [f \in Fields |-> q[f]]
    <2>1. Idle = [f \in Fields |-> Idle[f]]
      BY DEF Idle, Fields
    <2>2. q = [f \in Fields |-> IF f = "rivals" THEN rivals ELSE IF f = "owed" THEN Owed(op)
               ELSE IF f = "step" THEN FirstStep(op) ELSE IF f = "run" THEN r
               ELSE IF f = "idle" THEN i ELSE IF f = "dry" THEN d ELSE IF f = "key" THEN k
               ELSE IF f = "body" THEN b ELSE IF f = "asked" THEN n ELSE IF f = "op" THEN op
               ELSE Idle[f]]
      BY <2>1 DEF Fields
    <2> QED BY <2>2
  <1>5. /\ n \in Asked /\ (op = "deploy" => n \in Names)
        /\ b \in Objects /\ (op \in Deployments => b \in Bodies)
        /\ d \in BOOLEAN /\ i \in BOOLEAN /\ (op = "deploy" => k \in KeysOf[n])
    BY <1>1 DEF Objects
  <1>6. r \in 0 .. Len(runs)
    <2>1. Len(runs) \in Nat
      OBVIOUS
    <2> QED BY <2>1
  <1>7. call[c].step = "new"
    BY DEF Begin, At
  <1>8. /\ q.op = op /\ q.asked = n /\ q.body = b /\ q.dry = d /\ q.idle = i
        /\ q.step = FirstStep(op) /\ q.arn = NoArn /\ q.key = k /\ q.run = r
        /\ q.polls = 0 /\ q.todo = {} /\ q.report = {} /\ q.seen = << >>
        /\ q.hurt = FALSE /\ q.result = "" /\ q.owed = Owed(op) /\ q.rivals = rivals
    BY DEF Idle
  <1> HIDE DEF q
  <1>9. call'[c].key \in Keys \cup {NoKey}
    BY <1>2, <1>8
  <1>10. rivals = IF op \in Deployments THEN {call[y].body : y \in Rivals} ELSE {}
    BY DEF rivals
  <1> USE DEF Begun
  <1>11. Begun(c, op, n, b)
    <2>1. call'[c] = [f \in Fields |-> call'[c][f]]
      BY <1>2, <1>4
    <2>2. \A x \in Calls \ {c} :
            IF op \in Deployments /\ x \in Rivals THEN Overtaken(x, b)
                                                  ELSE call'[x] = call[x]
      BY <1>3
    <2> HIDE DEF Overtaken, Rivals
    <2> QED BY <1>2, <1>5, <1>6, <1>7, <1>8, <1>9, <1>10, <2>1, <2>2
  <1> QED BY <1>11

-----------------------------------------------------------------------------
(***************************************************************************)
(* A tool goes its own way: what it was asked and what it owes stay, and   *)
(* so does its answer.                                                     *)
(***************************************************************************)
Given == {"op", "asked", "body", "dry", "idle", "owed"}

Learnt ==
  {"step", "arn", "key", "run", "polls", "todo", "report", "seen", "hurt", "result"}

Moved(c) ==
  /\ Changes(c, Learnt)
  /\ call[c].step \notin {"new", "done"} /\ call'[c].step # "new"

LEMMA CallStepMoves ==
  ASSUME ServerlessInv, TypeInv, NEW c \in Calls, CallStep(c)
  PROVE  Moved(c)
  <1>1. Typed(call[c]) /\ Stage(c) /\ Shape
    BY DEF TypeInv, CallsType, ServerlessInv
  <1>2. call[c].step \notin {"new", "done"}
    BY DEF CallStep, Resolve, Detail, Upload, Create, FindExisting, UpdateWorkflow, StartRun,
       ChooseRun, PollRun, StopRun, ListVersions, FetchLatest, FetchPrevious, List, EndScan,
       Delete, Inspect, Fails, At
  <1>3. ASSUME NEW F \in SUBSET Learnt, Changes(c, F), call'[c].step # "new"
        PROVE  Moved(c)
    BY <1>2, <1>3 DEF Moved, Changes
  <1>4. ASSUME NEW result, Answered(c, result) PROVE Moved(c)
    BY <1>3, <1>4 DEF Answered, Learnt
  <1>5. ASSUME NEW step, step # "new", GoesOn(c, step) PROVE Moved(c)
    BY <1>3, <1>5 DEF GoesOn, Learnt
  <1>6. ASSUME NEW result, Answer(c, result) PROVE Moved(c)
    BY <1>1, <1>4, <1>6, AnswerEffect DEF Answered
  <1>7. ASSUME NEW ok \in Answers, NEW next, next # "new",
               call' = [call EXCEPT ![c] = Proceed(c, ok, next)]
        PROVE  Moved(c)
    BY <1>1, <1>4, <1>5, <1>7, ProceedEffect
  <1>8. CASE Resolve(c)
    <2>1. AfterLookup(c) # "new"
      <3>1. call[c].op \in Lookups
        BY <1>1, <1>8 DEF Resolve, At, Stage
      <3> QED BY <3>1 DEF AfterLookup, Lookups
    <2> QED BY <1>1, <1>3, <1>4, <1>8, <2>1, ResolveEffect DEF Learnt
  <1>9. CASE Detail(c)
    BY <1>1, <1>3, <1>4, <1>9, DetailEffect DEF Learnt
  <1>10. CASE Upload(c)
    <2>1. PICK ok \in Answers :
            call' = [call EXCEPT ![c] =
                       Proceed(c, ok, IF call[c].op = "deploy" THEN "create" ELSE "update")]
      BY <1>10 DEF Upload
    <2>2. (IF call[c].op = "deploy" THEN "create" ELSE "update") # "new"
      OBVIOUS
    <2> QED BY <1>7, <2>1, <2>2
  <1>11. CASE Create(c)
    BY <1>1, <1>3, <1>5, <1>11, CreateEffect DEF Learnt
  <1>12. CASE FindExisting(c)
    BY <1>1, <1>3, <1>4, <1>12, FindEffect DEF Learnt
  <1>13. CASE UpdateWorkflow(c)
    <2> HIDE DEF Answer
    <2> QED BY <1>6, <1>7, <1>13 DEF UpdateWorkflow
  <1>14. CASE StartRun(c)
    BY <1>1, <1>3, <1>4, <1>14, StartEffect DEF Learnt
  <1>15. CASE ChooseRun(c)
    <2>1. ASSUME Changes(c, {"step", "run"}),
                 call'[c].step = IF call[c].op = "stop" THEN "stop" ELSE "poll"
          PROVE  Moved(c)
      BY <1>3, <2>1 DEF Learnt
    <2> QED BY <1>1, <1>4, <1>15, <2>1, ChooseEffect
  <1>16. CASE PollRun(c)
    <2>1. ASSUME Changes(c, {"polls"}) PROVE Moved(c)
      <3>1. call'[c].step = call[c].step
        BY <2>1 DEF Changes, Fields
      <3> QED BY <1>2, <1>3, <2>1, <3>1 DEF Learnt
    <2> QED BY <1>1, <1>4, <1>16, <2>1, PollEffect
  <1>17. CASE StopRun(c)
    <2> HIDE DEF Answer
    <2> QED BY <1>6, <1>17 DEF StopRun
  <1>18. CASE ListVersions(c) \/ FetchLatest(c) \/ FetchPrevious(c)
    <2>1. ASSUME Changes(c, {"step", "seen", "result"}) \/ Changes(c, {"step", "seen"}),
                 call'[c].step \in {"latest", "previous", "done"}
          PROVE  Moved(c)
      BY <1>3, <2>1 DEF Learnt
    <2> QED BY <1>1, <1>4, <1>18, <2>1, FetchEffects
  <1>19. CASE List(c)
    <2>1. ASSUME Changes(c, {"step", "result", "report"}) \/ Changes(c, {"step", "todo"}),
                 call'[c].step \in {"scan", "done"}
          PROVE  Moved(c)
      BY <1>3, <2>1 DEF Learnt
    <2> QED BY <1>1, <1>19, <2>1, ListEffect
  <1>20. CASE EndScan(c)
    BY <1>1, <1>3, <1>4, <1>20, EndScanEffect DEF Learnt
  <1>21. CASE Delete(c)
    <2>1. ASSUME Changes(c, {"todo"}) PROVE Moved(c)
      <3>1. call'[c].step = call[c].step
        BY <2>1 DEF Changes, Fields
      <3> QED BY <1>2, <1>3, <2>1, <3>1 DEF Learnt
    <2> QED BY <1>1, <1>4, <1>21, <2>1, DeleteEffect
  <1>22. ASSUME NEW a \in Arns, Inspect(c, a) PROVE Moved(c)
    <2>1. Changes(c, {"todo", "hurt", "report"})
      BY <1>1, <1>22, InspectEffect
    <2>2. call'[c].step = call[c].step
      BY <2>1 DEF Changes, Fields
    <2> QED BY <1>2, <1>3, <2>1, <2>2 DEF Learnt
  <1>23. CASE Fails(c)
    BY <1>6, <1>23 DEF Fails
  <1> QED BY <1>8, <1>9, <1>10, <1>11, <1>12, <1>13, <1>14, <1>15, <1>16, <1>17, <1>18,
             <1>19, <1>20, <1>21, <1>22, <1>23 DEF CallStep

\* What a step leaves of call x: unless x begins, all it was asked, and all of it
\* once it has answered.
Kept(x) ==
  /\ \A f \in Given : call'[x][f] = call[x][f]
  /\ call[x].rivals \subseteq call'[x].rivals
  /\ call'[x].step = "new" <=> call[x].step = "new"
  /\ call[x].step \in {"new", "done"} => call'[x] = call[x]

LEMMA StepKeeps ==
  ASSUME ServerlessInv, TypeInv, [Next]_vars, NEW x \in Calls,
         ~\E op \in Ops : Begin(x, op)
  PROVE  Kept(x)
  <1>1. CASE UNCHANGED call
    BY <1>1 DEF Kept
  <1>2. ASSUME NEW c \in Calls, CallStep(c) PROVE Kept(x)
    <2>1. Moved(c)
      BY <1>2, CallStepMoves
    <2>2. CASE x = c
      BY <2>1, <2>2 DEF Moved, Changes, Kept, Given, Learnt, Fields
    <2>3. CASE x # c
      BY <2>1, <2>3 DEF Moved, Changes, Kept
    <2> QED BY <2>2, <2>3
  <1>3. ASSUME NEW c \in Calls, NEW op \in Ops, Begin(c, op) PROVE Kept(x)
    <2>1. PICK n, b : Begun(c, op, n, b)
      BY <1>3, BeginEffect DEF ServerlessInv
    <2>2. x # c
      BY <1>3
    <2>3. CASE call'[x] = call[x]
      BY <2>3 DEF Kept
    <2>4. CASE Overtaken(x, b) /\ x \in Rivals
      BY <2>4 DEF Overtaken, Rivals, InProgress, Kept, Given, Fields
    <2> QED BY <2>1, <2>2, <2>3, <2>4 DEF Begun
  <1>4. ASSUME NEW i, RunEnds(i) PROVE UNCHANGED call
    BY <1>4 DEF RunEnds
  <1> QED BY <1>1, <1>2, <1>3, <1>4 DEF Next, vars

\* One call at a time moves; another's beginning is noticed by deployments only.
LEMMA Alone ==
  ASSUME ServerlessInv, TypeInv, [Next]_vars, NEW x \in Calls
  PROVE  \/ call'[x] = call[x] \/ CallStep(x) \/ \E op \in Ops : Begin(x, op)
         \/ /\ call[x].op \in Deployments
            /\ \E b \in Bodies : Overtaken(x, b)
  <1>1. ASSUME NEW c \in Calls \ {x}, CallStep(c) PROVE call'[x] = call[x]
    BY <1>1, CallStepMoves DEF Moved, Changes
  <1>2. ASSUME NEW c \in Calls \ {x}, NEW op \in Ops, Begin(c, op)
        PROVE  \/ call'[x] = call[x]
               \/ /\ call[x].op \in Deployments
                  /\ \E b \in Bodies : Overtaken(x, b)
    <2>1. PICK n, b : Begun(c, op, n, b)
      BY <1>2, BeginEffect DEF ServerlessInv
    <2> QED BY <2>1 DEF Begun, Rivals
  <1>3. ASSUME NEW i, RunEnds(i) PROVE call'[x] = call[x]
    BY <1>3 DEF RunEnds
  <1> QED BY <1>1, <1>2, <1>3 DEF Next, vars

-----------------------------------------------------------------------------
(***************************************************************************)
(* Every step keeps the types.                                             *)
(***************************************************************************)
LEMMA OwnChange ==
  ASSUME TypeInv, RunsKept, NEW c \in Calls, NEW F, Changes(c, F),
         Typed(call'[c]), Stage(c)'
  PROVE  CallsType'
  <1>1. ASSUME NEW x \in Calls \ {c} PROVE Typed(call'[x]) /\ Stage(x)'
    <2>1. call'[x] = call[x] /\ Typed(call[x]) /\ Stage(x)
      BY DEF Changes, TypeInv, CallsType
    <2>2. Len(runs) \in Nat /\ Len(runs') >= Len(runs)
      BY DEF RunsKept, TypeInv, RunsType
    <2>3. \A i : i \in 0 .. Len(runs) => i \in 0 .. Len(runs')
      BY <2>2
    <2>4. \A i : i \in 1 .. Len(runs) => i \in 1 .. Len(runs')
      BY <2>2
    <2> QED BY <2>1, <2>3, <2>4 DEF Stage
  <1> QED BY <1>1 DEF CallsType

\* A tool that answers with some text.
LEMMA AnsweredTyped ==
  ASSUME TypeInv, RunsKept, NEW c \in Calls, NEW result \in Results, Answered(c, result)
  PROVE  CallsType'
  <1>1. Typed(call[c]) /\ Stage(c)
    BY DEF TypeInv, CallsType
  <1>2. Typed(call'[c])
    BY <1>1 DEF Answered, Changes, Typed, Fields, Steps
  <1>3. Stage(c)'
    BY <1>1 DEF Answered, Changes, Stage, Fields
  <1> QED BY <1>2, <1>3, OwnChange DEF Answered

LEMMA GoesOnTyped ==
  ASSUME TypeInv, RunsKept, NEW c \in Calls, call[c].step # "done",
         call[c].op \in Deployments,
         NEW step \in {"create", "find", "update", "start"}, GoesOn(c, step)
  PROVE  CallsType'
  <1>1. Typed(call[c]) /\ Stage(c)
    BY DEF TypeInv, CallsType
  <1>2. Typed(call'[c])
    BY <1>1 DEF GoesOn, Changes, Typed, Fields, Steps
  <1>3. Stage(c)'
    BY <1>1 DEF GoesOn, Changes, Stage, Fields
  <1> QED BY <1>2, <1>3, OwnChange DEF GoesOn

LEMMA LookupTyped ==
  ASSUME ServerlessInv, TypeInv, RunsKept, NEW c \in Calls,
         Resolve(c) \/ Detail(c)
  PROVE  CallsType'
  <1>1. Typed(call[c]) /\ Stage(c) /\ Shape /\ Good(c)
    BY DEF TypeInv, CallsType, ServerlessInv
  <1>2. ASSUME NEW page \in FirstPages, NEW a \in Matches(call[c].asked, page),
               Resolve(c), Changes(c, {"step", "arn"}),
               call'[c].arn = a, call'[c].step = AfterLookup(c)
        PROVE  CallsType'
    <2>1. a \in Arns
      BY DEF FirstPages, Matches, Live
    <2>2. call[c].step = "resolve"
      BY <1>2 DEF Resolve, At
    <2>3. call[c].op \in Lookups /\ call[c].run \in 0 .. Len(runs) /\ UNCHANGED runs
      BY <1>1, <1>2, <2>2 DEF Stage, Resolve
    <2>4. AfterLookup(c) \in {"detail", "start", "versions", "runs", "stop", "poll"}
      BY <2>3 DEF AfterLookup, Lookups
    <2>5. Typed(call'[c])
      BY <1>1, <1>2, <2>1, <2>4 DEF Changes, Typed, Fields, Steps
    <2>6. /\ call'[c].op = call[c].op /\ call'[c].run = call[c].run
          /\ call'[c].report = call[c].report /\ call'[c].result = call[c].result
      BY <1>2 DEF Changes, Fields
    <2>7. call[c].run # 0 => call[c].run \in 1 .. Len(runs)
      BY <2>3 DEF TypeInv, RunsType
    <2>8. Stage(c)'
      BY <1>1, <1>2, <2>2, <2>3, <2>4, <2>6, <2>7 DEF Stage, AfterLookup, Lookups
    <2> QED BY <1>2, <2>5, <2>8, OwnChange
  <1>3. CASE Resolve(c)
    BY <1>1, <1>2, <1>3, ResolveEffect, AnsweredTyped DEF Results
  <1>4. CASE Detail(c)
    <2>1. CASE Answered(c, "error")
      BY <2>1, AnsweredTyped DEF Results
    <2>2. ASSUME call[c].op = "get", call[c].arn \in Live,
                 Changes(c, {"step", "seen"}), call'[c].step = "latest",
                 call'[c].seen = << Latest(call[c].arn).key >>
          PROVE  CallsType'
      <3> DEFINE a == call[c].arn
      <3>1. a \in Arns /\ versions[a] \in Seq(Version) /\ versions[a] # << >>
        BY <2>2 DEF Live, ServerlessInv, Shape, WorkflowsInv
      <3>2. Latest(a) \in Version
        BY <3>1 DEF Latest
      <3>3. Latest(a).key \in Keys
        BY <3>2 DEF Version
      <3>4. /\ call'[c].seen \in Seq(Keys) /\ Len(call'[c].seen) = 1
            /\ call'[c].seen \in Seq(Objects \cup Keys)
        BY <2>2, <3>3
      <3>5. Typed(call'[c])
        BY <1>1, <2>2, <3>4 DEF Changes, Typed, Fields, Steps
      <3>6. Stage(c)'
        BY <1>1, <1>4, <2>2, <3>4 DEF Changes, Stage, Fields, Detail, At
      <3> QED BY <2>2, <3>5, <3>6, OwnChange
    <2>3. ASSUME call[c].arn \in Live,
                 Changes(c, {"step", "key"}), call'[c].step = "upload",
                 call'[c].key \in {Latest(call[c].arn).key} \cup KeysOf[name[call[c].arn]]
          PROVE  CallsType'
      <3> DEFINE a == call[c].arn
      <3>1. Latest(a).key \in KeysOf[name[a]] /\ name[a] \in Names
        BY <2>3 DEF ServerlessInv, Shape, WorkflowsInv, Live
      <3>2. call'[c].key \in Keys
        BY <2>3, <3>1, ServerlessAssumption
      <3>3. Typed(call'[c])
        BY <1>1, <2>3, <3>2 DEF Changes, Typed, Fields, Steps
      <3>4. Stage(c)'
        BY <1>1, <1>4, <2>3 DEF Changes, Stage, Fields, Detail, At
      <3> QED BY <2>3, <3>3, <3>4, OwnChange
    <2> QED BY <1>1, <1>4, <2>1, <2>2, <2>3, DetailEffect
  <1> QED BY <1>3, <1>4

LEMMA DeployTyped ==
  ASSUME ServerlessInv, TypeInv, RunsKept, NEW c \in Calls,
         Upload(c) \/ Create(c) \/ FindExisting(c) \/ UpdateWorkflow(c)
  PROVE  CallsType'
  <1>1. Typed(call[c]) /\ Stage(c) /\ Shape /\ Good(c)
    BY DEF TypeInv, CallsType, ServerlessInv
  <1>2. /\ call[c].op \in Deployments
        /\ call[c].step \in {"upload", "create", "find", "update"}
    BY <1>1 DEF Good, Upload, Create, FindExisting, UpdateWorkflow, At
  <1>3. CASE Upload(c)
    <2>1. ASSUME NEW ok \in Answers, NEW next \in {"create", "update"},
                 call' = [call EXCEPT ![c] = Proceed(c, ok, next)]
          PROVE  CallsType'
      BY <1>1, <1>2, <2>1, ProceedEffect, AnsweredTyped, GoesOnTyped DEF Results
    <2> QED BY <1>3, <2>1 DEF Upload
  <1>4. CASE Create(c)
    <2>1. ASSUME NEW a \in Arns,
                 Changes(c, {"step", "result", "arn"}), call'[c].arn = a,
                 \/ call'[c].step = "start" /\ call'[c].result = call[c].result
                 \/ call'[c].step = "done" /\ call'[c].result = "error"
          PROVE  CallsType'
      <3>1. Typed(call'[c])
        BY <1>1, <2>1 DEF Changes, Typed, Fields, Steps, Results
      <3>2. Stage(c)'
        BY <1>1, <1>2, <2>1 DEF Changes, Stage, Fields
      <3> QED BY <2>1, <3>1, <3>2, OwnChange
    <2> QED BY <1>1, <1>2, <1>4, <2>1, CreateEffect, GoesOnTyped
  <1>5. CASE FindExisting(c)
    <2>1. ASSUME Changes(c, {"step", "arn"}), call'[c].step = "update",
                 call'[c].arn \in Live
          PROVE  CallsType'
      <3>1. Typed(call'[c])
        BY <1>1, <2>1 DEF Changes, Typed, Fields, Steps, Live
      <3>2. Stage(c)'
        BY <1>1, <1>2, <2>1 DEF Changes, Stage, Fields
      <3> QED BY <2>1, <3>1, <3>2, OwnChange
    <2> QED BY <1>1, <1>5, <2>1, FindEffect, AnsweredTyped DEF Results
  <1>6. CASE UpdateWorkflow(c)
    <2>1. ASSUME NEW ok \in Answers, call' = [call EXCEPT ![c] = Proceed(c, ok, "start")]
          PROVE  CallsType'
      BY <1>1, <1>2, <2>1, ProceedEffect, AnsweredTyped, GoesOnTyped DEF Results
    <2>2. CASE Answer(c, "error")
      BY <1>1, <2>2, AnswerEffect, AnsweredTyped DEF Answered, Results
    <2> QED BY <1>6, <2>1, <2>2 DEF UpdateWorkflow
  <1> QED BY <1>3, <1>4, <1>5, <1>6

LEMMA RunTyped ==
  ASSUME ServerlessInv, TypeInv, RunsKept, RunsType', NEW c \in Calls,
         StartRun(c) \/ ChooseRun(c) \/ PollRun(c) \/ StopRun(c)
  PROVE  CallsType'
  <1> USE DEF Results
  <1>1. Typed(call[c]) /\ Stage(c) /\ Shape
    BY DEF TypeInv, CallsType, ServerlessInv
  <1>2. CASE StartRun(c)
    <2>1. ASSUME Len(runs) < MaxRuns, NEW run, runs' = Append(runs, run),
                 Changes(c, {"step", "result", "run"}), call'[c].step = "done",
                 call'[c].result = "STARTED", call'[c].run = Len(runs) + 1
          PROVE  CallsType'
      <3>1. Len(runs) + 1 \in 0 .. MaxRuns
        BY <2>1, ServerlessAssumption DEF TypeInv, RunsType
      <3>2. Typed(call'[c])
        BY <1>1, <2>1, <3>1 DEF Changes, Typed, Fields, Steps
      <3>3. Stage(c)'
        BY <1>1, <2>1 DEF Changes, Stage, Fields
      <3> QED BY <2>1, <3>2, <3>3, OwnChange
    <2> QED BY <1>1, <1>2, <2>1, StartEffect, AnsweredTyped
  <1>3. CASE ChooseRun(c)
    <2>1. ASSUME NEW S \in {RunsOf(call[c].arn), ActiveRunsOf(call[c].arn)},
                 S # {}, Changes(c, {"step", "run"}), call'[c].run = Newest(S),
                 call'[c].step = IF call[c].op = "stop" THEN "stop" ELSE "poll"
          PROVE  CallsType'
      <3>1. S \subseteq DOMAIN runs
        BY DEF RunsOf, ActiveRunsOf
      <3>2. Newest(S) \in 1 .. Len(runs) /\ UNCHANGED runs
        BY <1>3, <2>1, <3>1, NewestIsIn DEF TypeInv, RunsType, ChooseRun
      <3>3. Newest(S) \in 0 .. MaxRuns
        BY <3>2, ServerlessAssumption DEF TypeInv, RunsType
      <3>4. call[c].op \in {"status", "poll", "stop"} /\ call[c].step = "runs"
        BY <1>1, <1>3 DEF Stage, ChooseRun, At
      <3>5. Typed(call'[c])
        BY <1>1, <2>1, <3>3 DEF Changes, Typed, Fields, Steps
      <3>6. Stage(c)'
        BY <1>1, <2>1, <3>2, <3>4 DEF Changes, Stage, Fields
      <3> QED BY <2>1, <3>5, <3>6, OwnChange
    <2> QED BY <1>1, <1>3, <2>1, ChooseEffect, AnsweredTyped
  <1>4. CASE PollRun(c)
    <2>1. runs[call[c].run].state \in RunStates
      <3>1. call[c].run \in 1 .. Len(runs)
        BY <1>1, <1>4 DEF Stage, PollRun, At
      <3>2. runs[call[c].run] \in Run
        BY <3>1 DEF TypeInv, RunsType
      <3> QED BY <3>2 DEF Run
    <2>2. ASSUME call[c].polls # MaxPolls,
                 Changes(c, {"polls"}), call'[c].polls = call[c].polls + 1
          PROVE  CallsType'
      <3>1. call[c].polls + 1 \in 0 .. MaxPolls
        <4>1. call[c].polls \in 0 .. MaxPolls /\ MaxPolls \in Nat
          BY <1>1, ServerlessAssumption DEF Typed
        <4> QED BY <2>2, <4>1
      <3>2. Typed(call'[c])
        BY <1>1, <2>2, <3>1 DEF Changes, Typed, Fields
      <3>3. Stage(c)'
        BY <1>1, <1>4, <2>2 DEF Changes, Stage, Fields, PollRun, At
      <3> QED BY <2>2, <3>2, <3>3, OwnChange
    <2> QED BY <1>1, <1>4, <2>1, <2>2, PollEffect, AnsweredTyped
  <1>5. CASE StopRun(c)
    <2>1. ASSUME NEW result \in {"STOPPING", "error"}, Answer(c, result)
          PROVE  CallsType'
      BY <1>1, <2>1, AnswerEffect, AnsweredTyped DEF Answered, RunStates
    <2> HIDE DEF Answer
    <2> QED BY <1>5, <2>1 DEF StopRun
  <1> QED BY <1>2, <1>3, <1>4, <1>5

LEMMA FetchTyped ==
  ASSUME ServerlessInv, TypeInv, RunsKept, NEW c \in Calls,
         ListVersions(c) \/ FetchLatest(c) \/ FetchPrevious(c)
  PROVE  CallsType'
  <1> USE DEF Results
  <1>1. Typed(call[c]) /\ Stage(c) /\ Shape
    BY DEF TypeInv, CallsType, ServerlessInv
  <1>2. ASSUME NEW k \in Keys, NEW b \in Fetched(k) PROVE b \in Objects
    BY <1>1, <1>2 DEF Fetched, Shape, Objects
  <1>3. ASSUME NEW v, v = versions[call[c].arn], ListVersions(c),
               call[c].arn \in Live, Len(v) >= 2,
               Changes(c, {"step", "seen"}), call'[c].step = "latest",
               call'[c].seen = << v[Len(v)].key, v[Len(v) - 1].key >>
        PROVE  CallsType'
    <2>1. v \in Seq(Version)
      BY <1>1, <1>3 DEF Live, Shape
    <2>2. v[Len(v)] \in Version /\ v[Len(v) - 1] \in Version
      BY <1>3, <2>1
    <2>3. v[Len(v)].key \in Keys /\ v[Len(v) - 1].key \in Keys
      BY <2>2 DEF Version
    <2>4. /\ call'[c].seen \in Seq(Keys) /\ Len(call'[c].seen) = 2
          /\ call'[c].seen \in Seq(Objects \cup Keys)
      BY <1>3, <2>3
    <2>5. Typed(call'[c])
      BY <1>1, <1>3, <2>4 DEF Changes, Typed, Fields, Steps
    <2>6. Stage(c)'
      BY <1>1, <1>3, <2>4 DEF Changes, Stage, Fields, ListVersions, At
    <2> QED BY <1>3, <2>5, <2>6, OwnChange
  <1>4. ASSUME FetchLatest(c), Changes(c, {"step", "seen", "result"}),
               call'[c].step = IF call[c].op = "get" THEN "done" ELSE "previous",
               call'[c].result = IF call[c].op = "get" THEN "shown" ELSE "",
               NEW b \in Fetched(call[c].seen[1]),
               call'[c].seen = [call[c].seen EXCEPT ![1] = b]
        PROVE  CallsType'
    <2>1. /\ call[c].seen \in Seq(Keys)
          /\ \/ call[c].op = "get" /\ Len(call[c].seen) = 1
             \/ call[c].op = "compare" /\ Len(call[c].seen) = 2
      BY <1>1, <1>4 DEF Stage, FetchLatest, At
    <2>2. call[c].seen[1] \in Keys
      BY <2>1
    <2>3. /\ call'[c].seen \in Seq(Objects \cup Keys)
          /\ Len(call'[c].seen) = Len(call[c].seen)
          /\ Len(call[c].seen) = 2 => call'[c].seen[2] \in Keys
      <3> DEFINE q == call[c].seen
      <3>1. b \in Objects
        BY <1>2, <2>2
      <3>2. q \in Seq(Objects \cup Keys) /\ b \in Objects \cup Keys
        BY <1>1, <3>1 DEF Typed
      <3>3. Len(q) = 1 \/ Len(q) = 2
        BY <2>1
      <3>4. Len(q) = 2 => q[2] \in Keys
        BY <2>1
      <3> HIDE DEF q
      <3>5. 1 \in 1 .. Len(q)
        BY <3>3
      <3>6. /\ [q EXCEPT ![1] = b] \in Seq(Objects \cup Keys)
            /\ Len([q EXCEPT ![1] = b]) = Len(q)
            /\ Len(q) = 2 => [q EXCEPT ![1] = b][2] \in Keys
        BY <3>2, <3>4, <3>5, ExceptSeq
      <3> QED BY <1>4, <3>6 DEF q
    <2>4. Typed(call'[c])
      BY <1>1, <1>4, <2>3 DEF Changes, Typed, Fields, Steps
    <2>5. Stage(c)'
      BY <1>1, <1>4, <2>1, <2>3 DEF Changes, Stage, Fields
    <2> QED BY <1>4, <2>4, <2>5, OwnChange
  <1>5. ASSUME FetchPrevious(c), Changes(c, {"step", "seen", "result"}),
               call'[c].step = "done",
               call'[c].result \in {"could not retrieve", "no changes", "diff"},
               NEW b \in Fetched(call[c].seen[2]),
               call'[c].seen = [call[c].seen EXCEPT ![2] = b]
        PROVE  CallsType'
    <2>1. /\ call[c].op = "compare" /\ Len(call[c].seen) = 2
          /\ call[c].seen[2] \in Keys
      BY <1>1, <1>5 DEF Stage, FetchPrevious, At
    <2>2. b \in Objects
      BY <1>2, <1>5, <2>1
    <2>3. call'[c].seen \in Seq(Objects \cup Keys)
      <3> DEFINE q == call[c].seen
      <3>1. q \in Seq(Objects \cup Keys) /\ Len(q) = 2
        BY <1>1, <2>1 DEF Typed
      <3> HIDE DEF q
      <3>2. [q EXCEPT ![2] = b] \in Seq(Objects \cup Keys)
        <4>1. 2 \in 1 .. Len(q) /\ b \in Objects \cup Keys
          BY <2>2, <3>1
        <4> QED BY <3>1, <4>1, ExceptSeq
      <3> QED BY <1>5, <3>2 DEF q
    <2>4. Typed(call'[c])
      BY <1>1, <1>5, <2>3 DEF Changes, Typed, Fields, Steps
    <2>5. Stage(c)'
      BY <1>1, <1>5, <2>1 DEF Changes, Stage, Fields
    <2> QED BY <1>5, <2>4, <2>5, OwnChange
  <1>6. ASSUME NEW result \in {"error", "only one version"}, Answered(c, result)
        PROVE  CallsType'
    BY <1>6, AnsweredTyped
  <1> QED BY <1>1, <1>3, <1>4, <1>5, <1>6, FetchEffects

LEMMA ScanTyped ==
  ASSUME ServerlessInv, TypeInv, RunsKept, NEW c \in Calls,
         List(c) \/ EndScan(c) \/ Delete(c) \/ \E a \in Arns : Inspect(c, a)
  PROVE  CallsType'
  <1> USE DEF Results
  <1>1. Typed(call[c]) /\ Stage(c) /\ Shape
    BY DEF TypeInv, CallsType, ServerlessInv
  <1>2. CASE List(c)
    <2>1. PICK page \in {Live} \cup FirstPages :
            LET fitting == {a \in page : NameFits(call[c].asked, a)} IN
            \/ /\ call[c].op = "list" /\ page = Live
               /\ Changes(c, {"step", "result", "report"}) /\ call'[c].step = "done"
               /\ call'[c].result = "report" /\ call'[c].report = fitting
            \/ /\ call[c].op # "list" /\ page \in FirstPages
               /\ Changes(c, {"step", "todo"})
               /\ call'[c].step = "scan" /\ call'[c].todo = fitting
      BY <1>1, <1>2, ListEffect
    <2> DEFINE fitting == {a \in page : NameFits(call[c].asked, a)}
    <2>2. fitting \subseteq Arns
      BY DEF FirstPages, Live
    <2>3. call[c].step = "list" /\ call[c].op \in Scans
      BY <1>1, <1>2 DEF List, At, Stage
    <2> HIDE DEF fitting
    <2>4. CASE /\ Changes(c, {"step", "result", "report"}) /\ call'[c].step = "done"
               /\ call'[c].result = "report" /\ call'[c].report = fitting
      <3>1. Typed(call'[c])
        BY <1>1, <2>2, <2>4 DEF Changes, Typed, Fields, Steps
      <3>2. Stage(c)'
        BY <1>1, <2>2, <2>4 DEF Changes, Stage, Fields
      <3> QED BY <2>4, <3>1, <3>2, OwnChange
    <2>5. CASE /\ call[c].op # "list" /\ Changes(c, {"step", "todo"})
               /\ call'[c].step = "scan" /\ call'[c].todo = fitting
      <3>1. Typed(call'[c])
        BY <1>1, <2>2, <2>5 DEF Changes, Typed, Fields, Steps
      <3>2. Stage(c)'
        BY <1>1, <2>3, <2>5 DEF Changes, Stage, Fields
      <3> QED BY <2>5, <3>1, <3>2, OwnChange
    <2> QED BY <2>1, <2>4, <2>5 DEF fitting
  <1>3. CASE EndScan(c)
    <2>1. ASSUME call[c].op = "delete", Changes(c, {"step", "todo"}),
                 call'[c].step = "delete", call'[c].todo = call[c].report
          PROVE  CallsType'
      <3>1. call[c].report \subseteq Arns /\ call[c].step = "scan"
        BY <1>1, <1>3, <2>1 DEF Stage, EndScan, At
      <3>2. Typed(call'[c])
        BY <1>1, <2>1, <3>1 DEF Changes, Typed, Fields, Steps
      <3>3. Stage(c)'
        BY <1>1, <2>1, <3>1 DEF Changes, Stage, Fields
      <3> QED BY <2>1, <3>2, <3>3, OwnChange
    <2> QED BY <1>1, <1>3, <2>1, EndScanEffect, AnsweredTyped
  <1>4. CASE Delete(c)
    <2>1. ASSUME NEW a, Changes(c, {"todo"}), call'[c].todo = call[c].todo \ {a}
          PROVE  CallsType'
      <3>1. Typed(call'[c])
        BY <1>1, <2>1 DEF Changes, Typed, Fields
      <3>2. Stage(c)'
        BY <1>1, <1>4, <2>1 DEF Changes, Stage, Fields, Delete, At
      <3> QED BY <2>1, <3>1, <3>2, OwnChange
    <2> QED BY <1>1, <1>4, <2>1, DeleteEffect, AnsweredTyped
  <1>5. ASSUME NEW a \in Arns, Inspect(c, a) PROVE CallsType'
    <2>1. /\ Changes(c, {"todo", "hurt", "report"})
          /\ call'[c].todo = call[c].todo \ {a}
      BY <1>1, <1>5, InspectEffect
    <2>2. PICK ok \in Answers :
            /\ call'[c].hurt = (call[c].hurt \/ ~ok)
            /\ call'[c].report = call[c].report \cup
                 IF call[c].op = "bulk" \/ (ok /\ a \in Live) THEN Row(c, a) ELSE {}
      BY <1>1, <1>5, InspectEffect
    <2>3. /\ call[c].op \in {"delete", "failed", "list_runs", "bulk"}
          /\ call[c].step = "scan"
      BY <1>1, <1>5 DEF Stage, Inspect, At, Scans
    <2>4. RunsOf(a) \subseteq 1 .. MaxRuns
      BY ServerlessAssumption DEF RunsOf, TypeInv, RunsType
    <2>5. /\ Row(c, a) \subseteq Arns \cup 1 .. MaxRuns
          /\ call[c].op = "delete" => Row(c, a) \subseteq Arns
      BY <2>3, <2>4 DEF Row, FailedRuns
    <2>6. call'[c].hurt \in BOOLEAN
      BY <2>2
    <2>7. /\ call'[c].report \subseteq Arns \cup 1 .. MaxRuns
          /\ call[c].op = "delete" => call'[c].report \subseteq Arns
      BY <1>1, <2>2, <2>5 DEF Typed, Stage
    <2>8. Typed(call'[c])
      BY <1>1, <2>1, <2>6, <2>7 DEF Changes, Typed, Fields
    <2>9. Stage(c)'
      BY <1>1, <2>1, <2>3, <2>7 DEF Changes, Stage, Fields
    <2> QED BY <2>1, <2>8, <2>9, OwnChange
  <1> QED BY <1>2, <1>3, <1>4, <1>5

LEMMA OwedType ==
  ASSUME RunsType, NEW op
  PROVE  Owed(op) \subseteq Arns \cup 1 .. MaxRuns
  <1>1. DOMAIN runs \subseteq 1 .. MaxRuns
    BY ServerlessAssumption DEF RunsType
  <1> QED BY <1>1 DEF Owed, Live

LEMMA BeginTyped ==
  ASSUME ServerlessInv, TypeInv, NEW c \in Calls, NEW op \in Ops, Begin(c, op)
  PROVE  CallsType'
  <1> USE ServerlessAssumption
  <1>1. PICK n, b : Begun(c, op, n, b)
    BY BeginEffect DEF ServerlessInv
  <1>2. UNCHANGED runs
    BY DEF Begin
  <1>3. CallsType /\ \A x \in Rivals : call[x].body \in Bodies
    BY DEF TypeInv, BodiesGiven, Rivals, InProgress
  <1>4. Typed(call'[c])
    <2>1. call'[c].result = "" /\ call'[c].step = FirstStep(op)
      BY <1>1 DEF Begun
    <2>2. call'[c].owed \in SUBSET (Arns \cup 1 .. MaxRuns)
      <3>1. call'[c].owed = Owed(op)
        BY <1>1 DEF Begun
      <3>2. Owed(op) \subseteq Arns \cup 1 .. MaxRuns
        BY OwedType DEF TypeInv
      <3> QED BY <3>1, <3>2
    <2>3. call'[c].rivals \in SUBSET Bodies
      <3>1. CASE op \in Deployments
        <4>1. call'[c].rivals = {call[y].body : y \in Rivals}
          BY <1>1, <3>1 DEF Begun
        <4> QED BY <1>3, <4>1
      <3>2. CASE op \notin Deployments
        BY <1>1, <3>2 DEF Begun
      <3> QED BY <3>1, <3>2
    <2>4. call'[c].run \in 0 .. MaxRuns
      <3>1. Len(runs) \in Nat /\ Len(runs) <= MaxRuns /\ MaxRuns \in Nat
        BY DEF TypeInv, RunsType
      <3>2. call'[c].run \in 0 .. Len(runs)
        BY <1>1 DEF Begun
      <3> QED BY <3>1, <3>2
    <2>5. call'[c].step \in Steps /\ call'[c].result \in Results
      BY <2>1 DEF FirstStep, Steps, Results, Scans, Lookups, Deployments
    <2>6. call'[c].seen \in Seq(Objects \cup Keys)
      <3>1. call'[c].seen = << >>
        BY <1>1 DEF Begun
      <3> QED BY <3>1
    <2>7. 0 \in 0 .. MaxPolls
      OBVIOUS
    <2>8. /\ call'[c] = [f \in Fields |-> call'[c][f]]
          /\ call'[c].op \in Ops /\ call'[c].asked \in Asked /\ call'[c].body \in Objects
          /\ call'[c].dry \in BOOLEAN /\ call'[c].idle \in BOOLEAN
          /\ call'[c].hurt = FALSE /\ call'[c].arn = NoArn /\ call'[c].polls = 0
          /\ call'[c].key \in Keys \cup {NoKey}
          /\ call'[c].todo = {} /\ call'[c].report = {}
      BY <1>1 DEF Begun
    <2> QED BY <2>2, <2>3, <2>4, <2>5, <2>6, <2>7, <2>8 DEF Typed
  <1>5. Stage(c)'
    <2>1. /\ call'[c].op = op /\ call'[c].step = FirstStep(op)
          /\ call'[c].run \in 0 .. Len(runs) /\ call'[c].report = {}
          /\ call'[c].result = "" /\ (op \in Deployments => call'[c].body \in Bodies)
      BY <1>1 DEF Begun
    <2>2. /\ FirstStep(op) \in {"upload", "resolve", "list"}
          /\ FirstStep(op) = "resolve" => op \in Lookups
          /\ FirstStep(op) = "list" => op \in Scans
      BY DEF FirstStep, Scans, Lookups, Deployments
    <2> QED BY <1>2, <2>1, <2>2 DEF Stage
  <1>6. ASSUME NEW x \in Calls \ {c} PROVE Typed(call'[x]) /\ Stage(x)'
    <2>1. Typed(call[x]) /\ Stage(x)
      BY <1>3 DEF CallsType
    <2>2. CASE call'[x] = call[x]
      BY <1>2, <2>1, <2>2 DEF Stage
    <2>3. CASE Overtaken(x, b) /\ op \in Deployments
      <3>1. Typed(call'[x])
        BY <1>1, <2>1, <2>3 DEF Overtaken, Typed, Fields, Begun
      <3>2. Stage(x)'
        BY <1>2, <2>1, <2>3 DEF Overtaken, Stage, Fields
      <3> QED BY <3>1, <3>2
    <2> QED BY <1>1, <2>2, <2>3 DEF Begun
  <1> QED BY <1>4, <1>5, <1>6 DEF CallsType

\* A call of a service that raises answers with an error.
LEMMA FailsTyped ==
  ASSUME ServerlessInv, TypeInv, RunsKept, NEW c \in Calls, Fails(c)
  PROVE  CallsType'
  <1>1. Answered(c, "error")
    BY AnswerEffect DEF Fails, Answered, ServerlessInv, TypeInv, CallsType
  <1> QED BY <1>1, AnsweredTyped DEF Results

LEMMA TypeInvInit == ASSUME Init PROVE TypeInv
  <1> USE ServerlessAssumption
  <1>1. RunsType
    <2>1. PICK k \in [Arns -> Keys], b \in [Arns -> Bodies] : Deployed(k, b)
      BY DEF Init
    <2>2. ASSUME NEW a \in Live, NEW e \in EarlierRuns
          PROVE  << [arn |-> a, body |-> b[a], state |-> e[1], recent |-> e[2]] >> \in Seq(Run)
      <3> DEFINE run == [arn |-> a, body |-> b[a], state |-> e[1], recent |-> e[2]]
      <3>1. run \in Run
        BY DEF Run, Live, Objects, RunStates
      <3> HIDE DEF run
      <3>2. << run >> \in Seq(Run)
        BY <3>1
      <3> QED BY <3>2 DEF run
    <2>3. \/ runs = << >>
          \/ \E a \in Live, e \in EarlierRuns :
               runs = << [arn |-> a, body |-> b[a], state |-> e[1], recent |-> e[2]] >>
      BY <2>1 DEF Deployed
    <2>4. << >> \in Seq(Run)
      OBVIOUS
    <2>5. runs \in Seq(Run)
      <3>1. CASE runs = << >>
        BY <2>4, <3>1
      <3>2. ASSUME NEW a \in Live, NEW e \in EarlierRuns,
                   runs = << [arn |-> a, body |-> b[a], state |-> e[1], recent |-> e[2]] >>
            PROVE  runs \in Seq(Run)
        BY <2>2, <3>2, Zenon
      <3> QED BY <2>3, <3>1, <3>2
    <2> QED BY <2>5 DEF Init, RunsType
  <1>2. Typed(Idle)
    <2>1. Idle.op \in Ops /\ Idle.asked \in Asked
      BY DEF Idle
    <2>2. Idle \in CallStates
      <3>1. << >> \in Seq(Objects \cup Keys)
        OBVIOUS
      <3> QED BY <2>1, <3>1 DEF Idle, CallStates, Objects, Steps, Results
    <2> QED BY <2>2, TypedCall
  <1>3. ASSUME NEW c \in Calls PROVE Stage(c)
    BY DEF Init, Idle, Stage
  <1>4. \A c \in Calls : call[c] = Idle
    BY DEF Init
  <1>5. BodiesGiven
    BY DEF Init, Idle, BodiesGiven
  <1> QED BY <1>1, <1>2, <1>3, <1>4, <1>5 DEF TypeInv, CallsType

LEMMA TypeInvStep ==
  ASSUME ServerlessInv, TypeInv, [Next]_vars
  PROVE  TypeInv'
  <1>1. RunsType' /\ RunsKept
    BY RunsStep
  <1>2. ASSUME UNCHANGED call PROVE CallsType'
    <2>1. ASSUME NEW c \in Calls PROVE Typed(call[c])' /\ Stage(c)'
      <3>1. Typed(call[c]) /\ Stage(c)
        BY DEF TypeInv, CallsType
      <3>2. Len(runs) \in Nat /\ Len(runs') \in Nat /\ Len(runs') >= Len(runs)
        BY <1>1 DEF RunsKept, TypeInv, RunsType
      <3>3. /\ \A i : i \in 0 .. Len(runs) => i \in 0 .. Len(runs')
            /\ \A i : i \in 1 .. Len(runs) => i \in 1 .. Len(runs')
        BY <3>2
      <3>4. Stage(c)'
        BY <1>2, <3>1, <3>3 DEF Stage
      <3> QED BY <1>2, <3>1, <3>4 DEF Typed
    <2> QED BY <2>1 DEF CallsType
  <1>3. ASSUME NEW c \in Calls, CallStep(c) PROVE CallsType'
    BY <1>1, <1>3, LookupTyped, DeployTyped, RunTyped, FetchTyped, ScanTyped, FailsTyped
    DEF CallStep
  <1>4. ASSUME NEW c \in Calls, NEW op \in Ops, Begin(c, op) PROVE CallsType'
    BY <1>4, BeginTyped
  <1>5. ASSUME NEW i, RunEnds(i) PROVE UNCHANGED call
    BY <1>5 DEF RunEnds
  <1>6. BodiesGiven'
    <2>1. ASSUME NEW c \in Calls, Kept(c) 
          PROVE  call'[c].step # "new" /\ call'[c].op \in Deployments => call'[c].body \in Bodies
      BY <2>1 DEF Kept, Given, TypeInv, BodiesGiven
    <2>2. ASSUME NEW c \in Calls, NEW op \in Ops, Begin(c, op)
          PROVE  call'[c].op \in Deployments => call'[c].body \in Bodies
      <3>1. PICK n, b : Begun(c, op, n, b)
        BY <2>2, BeginEffect DEF ServerlessInv
      <3> QED BY <3>1 DEF Begun
    <2> QED BY <2>1, <2>2, StepKeeps DEF BodiesGiven
  <1> QED BY <1>1, <1>2, <1>3, <1>4, <1>5, <1>6 DEF Next, vars, TypeInv

LEMMA TypeInvariant == Spec => [](ServerlessInv /\ TypeInv)
  BY TypeInvInit, TypeInvStep, ServerlessInvInit, ServerlessInvPreserved, PTL DEF Spec

\* Whatever the tools of any number of callers do, and whichever calls of the
\* services raise: names, versions, runs and what a tool holds at each of its
\* steps stay what the model says they are; a run a tool looks at is a run there is.
THEOREM ServerlessTypeCorrect == Spec => []TypeOK
  <1>1. ServerlessInv /\ TypeInv => TypeOK
    <2> SUFFICES ASSUME ServerlessInv, TypeInv PROVE TypeOK
      OBVIOUS
    <2>1. \A c \in Calls : call[c] \in CallStates
      BY TypedCall DEF TypeInv, CallsType
    <2> QED BY <2>1 DEF TypeOK, TypeInv, RunsType, ServerlessInv, Shape
  <1> QED BY <1>1, TypeInvariant, PTL

-----------------------------------------------------------------------------
(***************************************************************************)
(* Which tools take which steps, and where an answer comes from.           *)
(***************************************************************************)
LEMMA ScanStepsOnly ==
  ASSUME ServerlessInv, TypeInv, NEW c \in Calls, call[c].op \in Scans, CallStep(c)
  PROVE  \/ List(c) \/ EndScan(c) \/ Delete(c) \/ Fails(c)
         \/ \E a \in Arns : Inspect(c, a)
  <1>1. Stage(c) /\ Good(c)
    BY DEF ServerlessInv, TypeInv, CallsType
  <1>2. call[c].op \notin Lookups /\ call[c].op \notin Deployments
        /\ call[c].op \notin {"get", "redeploy", "start", "status", "poll", "stop", "compare"}
    BY DEF Scans, Lookups, Deployments
  <1> QED BY <1>1, <1>2
      DEF CallStep, Stage, Good, Resolve, Detail, Upload, Create, FindExisting, UpdateWorkflow,
          StartRun, ChooseRun, PollRun, StopRun, ListVersions, FetchLatest, FetchPrevious, At

LEMMA DeploymentStepsOnly ==
  ASSUME ServerlessInv, TypeInv, NEW c \in Calls, call[c].op \in Deployments, CallStep(c)
  PROVE  \/ Resolve(c) \/ Detail(c) \/ Upload(c) \/ Create(c) \/ FindExisting(c)
         \/ UpdateWorkflow(c) \/ StartRun(c) \/ Fails(c)
  <1>1. Stage(c) /\ Good(c)
    BY DEF ServerlessInv, TypeInv, CallsType
  <1>2. call[c].op \notin Scans
        /\ call[c].op \notin {"get", "status", "poll", "stop", "compare", "delete"}
    BY DEF Scans, Lookups, Deployments
  <1> QED BY <1>1, <1>2
      DEF CallStep, Stage, Good, ChooseRun, PollRun, StopRun, ListVersions, FetchLatest,
          FetchPrevious, List, EndScan, Delete, Inspect, At

LEMMA AnswerSource ==
  ASSUME ServerlessInv, TypeInv, NEW c \in Calls, CallStep(c)
  PROVE  /\ call'[c].result = "completed" => PollRun(c)
         /\ call'[c].result = "STARTED" => StartRun(c)
         /\ call'[c].result = "report" => List(c) \/ EndScan(c)
  <1> SUFFICES ASSUME NEW r \in {"completed", "STARTED", "report"}, call'[c].result = r
               PROVE  \/ r = "completed" /\ PollRun(c)
                      \/ r = "STARTED" /\ StartRun(c)
                      \/ r = "report" /\ (List(c) \/ EndScan(c))
    OBVIOUS
  <1>1. Typed(call[c]) /\ Stage(c) /\ Shape /\ call[c].result = "" /\ call[c].step # "done"
    <2>1. call[c].step # "done"
      BY CallStepMoves DEF Moved
    <2> QED BY <2>1 DEF TypeInv, CallsType, ServerlessInv, Stage
  <1>2. ASSUME NEW F, "result" \notin F, Changes(c, F) PROVE FALSE
    BY <1>1, <1>2 DEF Changes, Fields
  <1>3. ASSUME NEW result, Answered(c, result) PROVE result = r
    BY <1>3 DEF Answered
  <1>4. ASSUME NEW result, Answer(c, result) PROVE result = r
    BY <1>1, <1>4, AnswerEffect
  <1>5. ~Resolve(c) /\ ~Detail(c)
    BY <1>1, <1>2, <1>3, ResolveEffect, DetailEffect
  <1>6. ASSUME NEW ok \in Answers, NEW next,
               call' = [call EXCEPT ![c] = Proceed(c, ok, next)]
        PROVE  FALSE
    BY <1>1, <1>2, <1>3, <1>6, ProceedEffect DEF GoesOn
  <1>7. ~Upload(c) /\ ~UpdateWorkflow(c)
    BY <1>4, <1>6 DEF Upload, UpdateWorkflow
  <1>8. ~Create(c) /\ ~FindExisting(c)
    BY <1>1, <1>2, <1>3, CreateEffect, FindEffect DEF GoesOn
  <1>9. ~ChooseRun(c)
    BY <1>1, <1>2, <1>3, ChooseEffect
  <1>10. ~StopRun(c)
    <2> HIDE DEF Answer
    <2>1. ASSUME NEW result \in {"STOPPING", "error"}, Answer(c, result) PROVE FALSE
      BY <1>4, <2>1
    <2> QED BY <2>1 DEF StopRun
  <1>11. ~ListVersions(c) /\ ~FetchLatest(c) /\ ~FetchPrevious(c)
    BY <1>1, <1>2, <1>3, FetchEffects
  <1>12. StartRun(c) => r = "STARTED"
    BY <1>1, <1>3, StartEffect
  <1>13. ~Delete(c) /\ \A a \in Arns : ~Inspect(c, a)
    BY <1>1, <1>2, <1>3, DeleteEffect, InspectEffect
  <1>14. ~Fails(c)
    BY <1>4 DEF Fails
  <1>15. List(c) \/ EndScan(c) => r = "report"
    BY <1>1, <1>2, <1>3, ListEffect, EndScanEffect
  <1>16. ASSUME PollRun(c) PROVE r = "completed"
    <2>1. runs[call[c].run].state \in RunStates
      <3>1. runs \in Seq(Run) /\ call[c].run \in 1 .. Len(runs)
        BY <1>1, <1>16 DEF Stage, PollRun, At, TypeInv, RunsType
      <3>2. runs[call[c].run] \in Run
        BY <3>1
      <3> QED BY <3>2 DEF Run
    <2>2. r \notin RunStates \cup {"error", "still running"}
      BY DEF RunStates
    <2> QED BY <1>1, <1>2, <1>3, <1>16, <2>1, <2>2, PollEffect
  <1> QED BY <1>5, <1>7, <1>8, <1>9, <1>10, <1>11, <1>12, <1>13, <1>14, <1>15, <1>16
      DEF CallStep

-----------------------------------------------------------------------------
(***************************************************************************)
(* Completion.  A run that ended stays as it is.                           *)
(***************************************************************************)
CompletedInv ==
  \A c \in Calls :
    call[c].op = "poll" /\ call[c].result = "completed" =>
      /\ call[c].step = "done" /\ call[c].run \in 1 .. Len(runs)
      /\ runs[call[c].run].state \in {"SUCCESS", "FAILED", "STOPPED"}

LEMMA CompletedStep ==
  ASSUME ServerlessInv, TypeInv, CompletedInv, [Next]_vars
  PROVE  CompletedInv'
  <1>1. RunsKept /\ Len(runs) \in Nat /\ Len(runs') \in Nat
    BY RunsStep DEF TypeInv, RunsType
  <1>2. SUFFICES ASSUME NEW c \in Calls, call'[c].op = "poll",
                        call'[c].result = "completed"
                 PROVE  /\ call'[c].step = "done" /\ call'[c].run \in 1 .. Len(runs')
                        /\ runs'[call'[c].run].state \in {"SUCCESS", "FAILED", "STOPPED"}
    BY DEF CompletedInv
  <1>3. ~\E op \in Ops : Begin(c, op)
    <2>1. ASSUME NEW op \in Ops, Begin(c, op) PROVE call'[c].result = ""
      BY <2>1, BeginEffect DEF Begun, ServerlessInv
    <2> QED BY <1>2, <2>1
  <1>4. Kept(c)
    BY <1>3, StepKeeps
  <1>5. CASE call'[c] = call[c]
    <2>1. call[c].run \in 1 .. Len(runs) /\ call[c].step = "done"
          /\ runs[call[c].run].state \in {"SUCCESS", "FAILED", "STOPPED"}
      BY <1>2, <1>5 DEF CompletedInv
    <2>2. runs'[call[c].run].state = runs[call[c].run].state
      BY <1>1, <2>1 DEF RunsKept, SameRun
    <2> QED BY <1>1, <1>5, <2>1, <2>2 DEF RunsKept
  <1>6. CASE CallStep(c)
    <2>1. PollRun(c)
      BY <1>2, <1>6, AnswerSource
    <2>2. Typed(call[c]) /\ Stage(c) /\ Shape /\ call[c].step = "poll"
      BY <2>1 DEF TypeInv, CallsType, ServerlessInv, PollRun, At
    <2>3. call[c].op = "poll" /\ call[c].run \in 1 .. Len(runs) /\ call[c].result = ""
      BY <1>2, <1>4, <2>2 DEF Stage, Kept, Given
    <2>4. /\ runs[call[c].run].state \in TerminalStates
          /\ Answered(c, "completed")
      BY <1>2, <2>1, <2>2, <2>3, PollEffect DEF Answered, Changes, Fields
    <2>5. call'[c].run = call[c].run /\ call'[c].step = "done" /\ UNCHANGED runs
      BY <2>1, <2>4 DEF Answered, Changes, Fields, PollRun
    <2>6. runs[call[c].run] \in Run
      <3>1. runs \in Seq(Run) /\ call[c].run \in 1 .. Len(runs)
        BY <2>3 DEF TypeInv, RunsType
      <3> QED BY <3>1
    <2> QED BY <2>3, <2>4, <2>5, <2>6 DEF Run, RunStates, TerminalStates
  <1>7. call[c].op = "poll"
    BY <1>2, <1>4 DEF Kept, Given
  <1> QED BY <1>3, <1>5, <1>6, <1>7, Alone DEF Deployments

\* When poll_workflow_run says a run has completed, that run has ended for good:
\* nobody's stop, start or deletion, and no later step of the service, changes it.
THEOREM CompletionIsFinal == Spec => []CompletedIsOver
  <1>1. Init => CompletedInv
    <2>1. Idle.result = ""
      BY DEF Idle
    <2> QED BY <2>1 DEF Init, CompletedInv
  <1>2. CompletedInv => CompletedIsOver
    BY DEF CompletedInv, CompletedIsOver
  <1> QED BY <1>1, <1>2, CompletedStep, TypeInvariant, PTL DEF Spec

-----------------------------------------------------------------------------
(***************************************************************************)
(* Deletion.  Whatever had run recently when a deletion was called keeps a *)
(* recent run, so its newest run is a recent one, and no thread finds the  *)
(* workflow inactive.                                                      *)
(***************************************************************************)
RecentInv == \A j \in 2 .. Len(runs) : runs[j].recent

Spared(c) ==
  /\ \A a \in call[c].owed : \E i \in RunsOf(a) : runs[i].recent
  /\ call[c].idle => call[c].report \cap call[c].owed = {}
  /\ call[c].step = "delete" =>
       ~call[c].dry /\ (call[c].idle => call[c].todo \cap call[c].owed = {})

SparedInv ==
  /\ RecentInv
  /\ \A c \in Calls : call[c].op = "delete" /\ call[c].step # "new" => Spared(c)

LEMMA RecentStep ==
  ASSUME ServerlessInv, TypeInv, RecentInv, [Next]_vars
  PROVE  /\ RecentInv'
         /\ \A a, i : i \in RunsOf(a) /\ runs[i].recent =>
                        i \in RunsOf(a)' /\ runs'[i].recent
  <1>1. /\ RunsKept
        /\ runs \in Seq(Run) /\ runs' \in Seq(Run)
        /\ \A i \in 1 .. Len(runs') : i > Len(runs) => runs'[i].recent
    BY RunsStep DEF TypeInv, RunsType
  <1>2. /\ Len(runs) \in Nat /\ Len(runs') \in Nat
        /\ DOMAIN runs = 1 .. Len(runs) /\ DOMAIN runs' = 1 .. Len(runs')
    BY <1>1
  <1>3. RecentInv'
    <2>1. ASSUME NEW j \in 2 .. Len(runs') PROVE runs'[j].recent
      <3>1. CASE j > Len(runs)
        <4>1. j \in 1 .. Len(runs')
          BY <1>2
        <4> QED BY <1>1, <3>1, <4>1
      <3>2. CASE ~(j > Len(runs))
        <4>1. j \in 2 .. Len(runs) /\ j \in 1 .. Len(runs)
          BY <1>2, <3>2
        <4> QED BY <1>1, <4>1 DEF RunsKept, SameRun, RecentInv
      <3> QED BY <3>1, <3>2
    <2> QED BY <2>1 DEF RecentInv
  <1>4. ASSUME NEW a, NEW i \in RunsOf(a), runs[i].recent
        PROVE  i \in RunsOf(a)' /\ runs'[i].recent
    <2>1. i \in 1 .. Len(runs) /\ runs[i].arn = a
      BY <1>2 DEF RunsOf
    <2>2. i \in 1 .. Len(runs')
      BY <1>1, <1>2, <2>1 DEF RunsKept
    <2> QED BY <1>1, <1>2, <1>4, <2>1, <2>2 DEF RunsKept, SameRun, RunsOf
  <1> QED BY <1>3, <1>4

\* A workflow with a recent run is not inactive, however old its other runs are.
LEMMA RecentIsActive ==
  ASSUME TypeInv, RecentInv, NEW a, NEW i \in RunsOf(a), runs[i].recent
  PROVE  ~Inactive(a)
  <1> DEFINE n == Newest(RunsOf(a))
  <1>1. /\ n \in RunsOf(a) /\ n \in 1 .. Len(runs)
        /\ \A j \in RunsOf(a) : j <= n
    BY NewestIsIn DEF RunsOf, TypeInv, RunsType
  <1>2. i \in 1 .. Len(runs) /\ Len(runs) \in Nat /\ i <= n
    BY <1>1 DEF RunsOf, TypeInv, RunsType
  <1> HIDE DEF n
  <1>3. n = i \/ n \in 2 .. Len(runs)
    BY <1>1, <1>2
  <1>4. runs[n].recent
    BY <1>3 DEF RecentInv
  <1> QED BY <1>1, <1>4 DEF Inactive, n

LEMMA SparedStep ==
  ASSUME ServerlessInv, TypeInv, SparedInv, [Next]_vars
  PROVE  SparedInv'
  <1>1. /\ RecentInv /\ RecentInv'
        /\ \A a, i : i \in RunsOf(a) /\ runs[i].recent =>
                       i \in RunsOf(a)' /\ runs'[i].recent
    BY RecentStep DEF SparedInv
  <1> SUFFICES ASSUME NEW c \in Calls, call'[c].op = "delete", call'[c].step # "new"
               PROVE  Spared(c)'
    BY <1>1 DEF SparedInv
  <1>2. ASSUME NEW op \in Ops, Begin(c, op) PROVE Spared(c)'
    <2>1. PICK n, b : Begun(c, op, n, b)
      BY <1>2, BeginEffect DEF ServerlessInv
    <2>2. /\ call'[c].report = {} /\ call'[c].owed = Owed("delete")
          /\ call'[c].step = "list" /\ call'[c].todo = {}
      BY <2>1 DEF Begun, FirstStep, Scans, Lookups
    <2>3. \A a \in call'[c].owed : \E i \in RunsOf(a) : runs[i].recent
      BY <2>2 DEF Owed
    <2>4. \A a \in call'[c].owed : \E i \in RunsOf(a)' : runs'[i].recent
      BY <1>1, <2>3
    <2> QED BY <2>2, <2>4 DEF Spared
  <1>3. ASSUME ~\E op \in Ops : Begin(c, op) PROVE Spared(c)'
    <2>1. Kept(c)
      BY <1>3, StepKeeps
    <2>2. /\ call[c].op = "delete" /\ call[c].step # "new"
          /\ call'[c].owed = call[c].owed /\ call'[c].idle = call[c].idle
          /\ call'[c].dry = call[c].dry
      BY <2>1 DEF Kept, Given
    <2>3. Spared(c)
      BY <2>2 DEF SparedInv
    <2>4. \A a \in call'[c].owed : \E i \in RunsOf(a)' : runs'[i].recent
      BY <1>1, <2>2, <2>3 DEF Spared
    <2>5. SUFFICES /\ call[c].idle => call'[c].report \cap call[c].owed = {}
                   /\ call'[c].step = "delete" =>
                        /\ ~call[c].dry
                        /\ call[c].idle => call'[c].todo \cap call[c].owed = {}
      BY <2>2, <2>4 DEF Spared
    <2>6. CASE call'[c] = call[c]
      BY <2>3, <2>6 DEF Spared
    <2>7. Typed(call[c]) /\ Shape
      BY DEF ServerlessInv, TypeInv, CallsType
    <2>8. CASE List(c)
      <3>1. Changes(c, {"step", "todo"}) /\ call'[c].step = "scan"
        BY <2>2, <2>7, <2>8, ListEffect
      <3> QED BY <2>3, <3>1 DEF Changes, Fields, Spared
    <2>9. CASE EndScan(c)
      <3>1. \/ /\ ~call[c].dry /\ Changes(c, {"step", "todo"})
               /\ call'[c].step = "delete" /\ call'[c].todo = call[c].report
            \/ Answered(c, "report")
        BY <2>7, <2>9, EndScanEffect
      <3> QED BY <2>3, <3>1 DEF Changes, Answered, Fields, Spared
    <2>10. CASE Delete(c)
      <3>1. \/ Answered(c, "deleted")
            \/ \E a : Changes(c, {"todo"}) /\ call'[c].todo = call[c].todo \ {a}
        BY <2>7, <2>10, DeleteEffect
      <3> QED BY <2>3, <3>1 DEF Changes, Answered, Fields, Spared
    <2>11. CASE Fails(c)
      <3>1. Answered(c, "error")
        BY <2>7, <2>11, AnswerEffect DEF Fails, Answered
      <3> QED BY <2>3, <3>1 DEF Changes, Answered, Fields, Spared
    <2>12. ASSUME NEW a \in Arns, Inspect(c, a)
           PROVE  /\ call[c].idle => call'[c].report \cap call[c].owed = {}
                  /\ call'[c].step # "delete"
      <3>1. /\ Changes(c, {"todo", "hurt", "report"})
            /\ call'[c].report \subseteq call[c].report \cup Row(c, a)
        BY <2>7, <2>12, InspectEffect
      <3>2. call'[c].step = "scan"
        BY <2>12, <3>1 DEF Changes, Fields, Inspect, At
      <3>3. ASSUME call[c].idle, a \in call[c].owed PROVE Row(c, a) = {}
        <4>1. PICK i \in RunsOf(a) : runs[i].recent
          BY <2>3, <3>3 DEF Spared
        <4>2. ~Inactive(a)
          BY <1>1, <4>1, RecentIsActive
        <4> QED BY <2>2, <3>3, <4>2 DEF Row
      <3>4. Row(c, a) \subseteq {a}
        BY <2>2 DEF Row
      <3> QED BY <2>3, <3>1, <3>2, <3>3, <3>4 DEF Spared
    <2>13. CASE CallStep(c)
      BY <2>2, <2>8, <2>9, <2>10, <2>11, <2>12, <2>13, ScanStepsOnly DEF Scans
    <2>14. call'[c] = call[c] \/ CallStep(c)
      BY <1>3, <2>2, Alone DEF Deployments
    <2> QED BY <2>6, <2>13, <2>14
  <1> QED BY <1>2, <1>3

\* A deletion of inactive workflows never turns on one that had run recently when
\* the tool was called, and a dry run never deletes, whatever other callers
\* start, stop, deploy or delete between its listing, its look at each workflow
\* and its deletions.
THEOREM DeletionSparesRecent == Spec => []DeletionSpares
  <1>1. Init => SparedInv
    <2> SUFFICES ASSUME Init PROVE SparedInv
      OBVIOUS
    <2>1. runs = << >> \/ \E run : runs = << run >>
      BY DEF Init, Deployed
    <2>2. Len(runs) \in {0, 1}
      BY <2>1
    <2>3. RecentInv
      BY <2>2 DEF RecentInv
    <2>4. Idle.step = "new"
      BY DEF Idle
    <2> QED BY <2>3, <2>4 DEF Init, SparedInv
  <1>2. SparedInv /\ ServerlessInv /\ TypeInv => DeletionSpares
    <2> SUFFICES ASSUME SparedInv, ServerlessInv, TypeInv, NEW c \in Calls, At(c, "delete")
                 PROVE  /\ ~call[c].dry
                        /\ call[c].idle => call[c].todo \cap call[c].owed = {}
      BY DEF DeletionSpares
    <2>1. call[c].op = "delete"
      BY DEF TypeInv, CallsType, Stage, At
    <2> QED BY <2>1 DEF SparedInv, Spared, At
  <1> QED BY <1>1, <1>2, SparedStep, TypeInvariant, PTL DEF Spec

-----------------------------------------------------------------------------
(***************************************************************************)
(* What a step does to workflows, versions and definitions.  An identifier *)
(* that was used once is not used again.                                   *)
(***************************************************************************)
StaysItself(a) ==
  versions[a] # << >> =>
    /\ versions'[a] # << >>
    /\ a \in Live' => a \in Live /\ name'[a] = name[a]

LEMMA WorkflowsStep ==
  ASSUME ServerlessInv, TypeInv, [Next]_vars, NEW a \in Arns
  PROVE  StaysItself(a)
  <1>1. Shape
    BY DEF ServerlessInv
  <1>2. CASE UNCHANGED << name, versions >>
    BY <1>2 DEF StaysItself, Live
  <1>3. ASSUME NEW c \in Calls, Create(c) PROVE StaysItself(a)
    <2>1. ASSUME NEW b \in Arns, name[b] = NoName, versions[b] = << >>,
                 name' = [name EXCEPT ![b] = call[c].asked],
                 versions' = [versions EXCEPT ![b] = << NewVersion(c) >>]
          PROVE  StaysItself(a)
      BY <1>1, <2>1 DEF Shape, StaysItself, Live
    <2> QED BY <1>2, <1>3, <2>1 DEF Create
  <1>4. ASSUME NEW c \in Calls, UpdateWorkflow(c) PROVE StaysItself(a)
    <2>1. ASSUME NEW b \in Arns,
                 versions' = [versions EXCEPT ![b] = Append(@, NewVersion(c))]
          PROVE  versions[a] # << >> => versions'[a] # << >>
      <3>1. versions[a] \in Seq(Version)
        BY <1>1 DEF Shape
      <3>2. Append(versions[a], NewVersion(c)) # << >>
        <4> DEFINE v == versions[a]
                   w == NewVersion(c)
        <4>1. v \in Seq(Version)
          BY <3>1
        <4> HIDE DEF v, w
        <4>2. Len(Append(v, w)) = Len(v) + 1 /\ Len(v) \in Nat
          BY <4>1
        <4>3. Append(v, w) # << >>
          BY <4>2
        <4> QED BY <4>3 DEF v, w
      <3> QED BY <1>1, <2>1, <3>2 DEF Shape
    <2> QED BY <1>2, <1>4, <2>1 DEF UpdateWorkflow, StaysItself, Live
  <1>5. ASSUME NEW c \in Calls, Delete(c) PROVE StaysItself(a)
    BY <1>1, <1>5 DEF Delete, Shape, StaysItself, Live
  <1>6. ASSUME NEW c \in Calls, CallStep(c), ~Create(c), ~UpdateWorkflow(c), ~Delete(c)
        PROVE  UNCHANGED << name, versions >>
    BY <1>6 DEF CallStep, Resolve, Detail, Upload, FindExisting, StartRun, ChooseRun, PollRun,
       StopRun, ListVersions, FetchLatest, FetchPrevious, List, EndScan, Inspect, Fails
  <1> QED BY <1>2, <1>3, <1>4, <1>5, <1>6 DEF Next, vars, Begin, RunEnds

\* Only an update gives a workflow that has a version another one.
LEMMA LatestStep ==
  ASSUME ServerlessInv, TypeInv, [Next]_vars, NEW a \in Arns, versions[a] # << >>
  PROVE  \/ Latest(a)' = Latest(a)
         \/ \E d \in Calls :
              /\ UpdateWorkflow(d) /\ call[d].arn = a /\ a \in Live
              /\ Latest(a)' = NewVersion(d)
  <1>1. Shape
    BY DEF ServerlessInv
  <1>2. CASE versions'[a] = versions[a]
    BY <1>2 DEF Latest
  <1>3. ASSUME NEW c \in Calls, Create(c) PROVE versions'[a] = versions[a]
    BY <1>1, <1>3 DEF Create, Shape
  <1>4. ASSUME NEW c \in Calls, UpdateWorkflow(c), versions'[a] # versions[a]
        PROVE  /\ call[c].arn = a /\ a \in Live
               /\ Latest(a)' = NewVersion(c)
    <2>1. /\ call[c].arn = a /\ a \in Live
          /\ versions' = [versions EXCEPT ![a] = Append(@, NewVersion(c))]
      BY <1>1, <1>4 DEF UpdateWorkflow, Shape
    <2> DEFINE v == NewVersion(c)
    <2>2. versions'[a] = Append(versions[a], v) /\ versions[a] \in Seq(Version)
      BY <1>1, <2>1 DEF Shape
    <2> HIDE DEF v
    <2>3. versions'[a][Len(versions'[a])] = v
      BY <2>2
    <2> QED BY <2>1, <2>3 DEF Latest, v
  <1>5. ASSUME NEW c \in Calls, CallStep(c), ~Create(c), ~UpdateWorkflow(c)
        PROVE  UNCHANGED versions
    BY <1>5 DEF CallStep, Resolve, Detail, Upload, FindExisting, StartRun, ChooseRun, PollRun,
       StopRun, ListVersions, FetchLatest, FetchPrevious, List, EndScan, Inspect, Fails, Delete
  <1> QED BY <1>2, <1>3, <1>4, <1>5 DEF Next, vars, Begin, RunEnds

\* Only an upload changes an object.
LEMMA ObjectsStep ==
  ASSUME ServerlessInv, TypeInv, [Next]_vars, NEW k \in Keys
  PROVE  \/ s3'[k] = s3[k]
         \/ \E d \in Calls :
              /\ Upload(d) /\ call[d].key = k /\ s3'[k] = call[d].body
              /\ call[d].op \in Deployments
  <1>1. Shape
    BY DEF ServerlessInv
  <1>2. ASSUME NEW c \in Calls, Upload(c), s3'[k] # s3[k]
        PROVE  /\ call[c].key = k /\ s3'[k] = call[c].body
               /\ call[c].op \in Deployments
    <2>1. call[c].op \in Deployments
      BY <1>2 DEF ServerlessInv, Good, Upload, At
    <2> QED BY <1>1, <1>2, <2>1 DEF Upload, Shape
  <1>3. ASSUME NEW c \in Calls, CallStep(c), ~Upload(c)
        PROVE  UNCHANGED s3
    BY <1>3 DEF CallStep, Resolve, Detail, Create, FindExisting, UpdateWorkflow, StartRun,
       ChooseRun, PollRun, StopRun, ListVersions, FetchLatest, FetchPrevious, List, EndScan,
       Inspect, Fails, Delete
  <1> QED BY <1>2, <1>3 DEF Next, vars, Begin, RunEnds

-----------------------------------------------------------------------------
(***************************************************************************)
(* Deployments.  Each knows the definitions of those it overlaps with.  If *)
(* callers use one key for a workflow, the key they use by default, then   *)
(* what lies under that key after a deployment's upload is its definition  *)
(* or a rival's, and so is every version made from it.                     *)
(***************************************************************************)
OneKeyEach == \A n \in Names : \A k, l \in KeysOf[n] : k = l

Deploying(c) == InProgress(c) /\ call[c].op \in Deployments

Own(c) == {call[c].body} \cup call[c].rivals

RivalsKnown ==
  \A c, d \in Calls :
    c # d /\ Deploying(c) /\ Deploying(d) => call[d].body \in call[c].rivals

Uploaded(c) ==
  call[c].op \in Deployments /\ call[c].step \in {"create", "find", "update", "start"}

UploadIsOwn ==
  \A c \in Calls : Uploaded(c) => call[c].key \in Keys /\ s3[call[c].key] \in Own(c)

VersionIsOwn ==
  \A c \in Calls :
    call[c].op \in Deployments /\ call[c].step = "start" =>
      /\ Held(call[c].arn, call[c].key)
      /\ call[c].arn \in Live => Latest(call[c].arn).body \in Own(c)

RunIsOwn ==
  \A c \in Calls :
    call[c].op \in Deployments /\ call[c].result = "STARTED" =>
      /\ call[c].step = "done" /\ call[c].run \in 1 .. Len(runs)
      /\ runs[call[c].run].body \in Own(c)

OwnInv == RivalsKnown /\ UploadIsOwn /\ VersionIsOwn /\ RunIsOwn

LEMMA RivalsStep ==
  ASSUME ServerlessInv, TypeInv, RivalsKnown, [Next]_vars
  PROVE  RivalsKnown'
  <1> SUFFICES ASSUME NEW c \in Calls, NEW d \in Calls, c # d, Deploying(c)', Deploying(d)'
               PROVE  call'[d].body \in call'[c].rivals
    BY DEF RivalsKnown
  <1>1. ASSUME NEW x \in Calls, Deploying(x)', Kept(x) PROVE Deploying(x)
    BY <1>1 DEF Deploying, InProgress, Kept, Given
  <1>2. ASSUME NEW op \in Ops, Begin(c, op) PROVE call'[d].body \in call'[c].rivals
    <2>1. PICK n, b : Begun(c, op, n, b)
      BY <1>2, BeginEffect DEF ServerlessInv
    <2>2. /\ call'[c].op = op /\ op \in Deployments
          /\ call'[c].rivals = {call[y].body : y \in Rivals}
      BY <2>1 DEF Begun, Deploying
    <2>3. call'[d].body = call[d].body /\ d \in Rivals
      BY <2>1 DEF Begun, Overtaken, Fields, Deploying, Rivals, InProgress
    <2> QED BY <2>2, <2>3
  <1>3. ASSUME NEW op \in Ops, Begin(d, op) PROVE call'[d].body \in call'[c].rivals
    <2>1. PICK n, b : Begun(d, op, n, b)
      BY <1>3, BeginEffect DEF ServerlessInv
    <2>2. call'[d].op = op /\ op \in Deployments /\ call'[d].body = b
      BY <2>1 DEF Begun, Deploying
    <2>3. CASE c \in Rivals
      BY <2>1, <2>2, <2>3 DEF Begun, Overtaken
    <2>4. CASE c \notin Rivals
      BY <2>1, <2>4 DEF Begun, Deploying, InProgress, Rivals
    <2> QED BY <2>3, <2>4
  <1>4. CASE ~(\E op \in Ops : Begin(c, op)) /\ ~(\E op \in Ops : Begin(d, op))
    <2>1. Kept(c) /\ Kept(d)
      BY <1>4, StepKeeps
    <2>2. call[d].body \in call[c].rivals
      BY <1>1, <2>1 DEF RivalsKnown
    <2> QED BY <2>1, <2>2 DEF Kept, Given
  <1> QED BY <1>2, <1>3, <1>4

LEMMA UploadedBefore ==
  ASSUME ServerlessInv, TypeInv, NEW c \in Calls, CallStep(c), Uploaded(c)'
  PROVE  /\ Upload(c) \/ Uploaded(c)
         /\ call'[c].key = call[c].key /\ call[c].key \in Keys
         /\ call[c].op \in Deployments /\ call[c].step # "start"
         /\ call'[c].step = "start" => Create(c) \/ UpdateWorkflow(c)
  <1>1. Typed(call[c]) /\ Stage(c) /\ Good(c) /\ Shape
    BY DEF TypeInv, CallsType, ServerlessInv
  <1>2. call[c].op \in Deployments
    BY CallStepMoves DEF Uploaded, Moved, Changes, Learnt, Fields
  <1>3. ASSUME NEW result, Answered(c, result) PROVE FALSE
    BY <1>3 DEF Answered, Uploaded
  <1>4. ASSUME NEW result, Answer(c, result) PROVE FALSE
    BY <1>1, <1>3, <1>4, AnswerEffect DEF Answered
  <1>5. ~Resolve(c)
    <2>1. ASSUME Resolve(c), call'[c].step = AfterLookup(c) PROVE FALSE
      <3>1. call[c].op = "redeploy"
        BY <1>1, <1>2, <2>1 DEF Resolve, At, Stage, Deployments, Lookups
      <3> QED BY <2>1, <3>1 DEF AfterLookup, Uploaded
    <2> QED BY <1>1, <1>3, <2>1, ResolveEffect
  <1>6. ~Detail(c) /\ ~Fails(c)
    BY <1>1, <1>3, <1>4, DetailEffect DEF Fails, Uploaded
  <1>7. ~StartRun(c)
    BY <1>1, <1>3, StartEffect DEF Uploaded
  <1>8. ASSUME Upload(c) \/ Create(c) \/ FindExisting(c) \/ UpdateWorkflow(c)
        PROVE  /\ Upload(c) \/ Uploaded(c)
               /\ call[c].key \in Keys /\ call[c].step # "start"
    BY <1>1, <1>2, <1>8
    DEF Good, Upload, Create, FindExisting, UpdateWorkflow, At, Uploaded
  <1>9. ASSUME Upload(c), call'[c].step = "start" PROVE FALSE
    <2>1. ASSUME NEW ok \in Answers, NEW next \in {"create", "update"},
                 call' = [call EXCEPT ![c] = Proceed(c, ok, next)]
          PROVE  FALSE
      BY <1>1, <1>3, <1>9, <2>1, ProceedEffect DEF GoesOn
    <2> QED BY <1>9, <2>1 DEF Upload
  <1>10. ASSUME FindExisting(c), call'[c].step = "start" PROVE FALSE
    BY <1>1, <1>3, <1>10, FindEffect
  <1>11. call'[c].key = call[c].key
    <2>1. CASE Upload(c)
      <3>1. PICK ok \in Answers :
              call' = [call EXCEPT ![c] =
                Proceed(c, ok, IF call[c].op = "deploy" THEN "create" ELSE "update")]
        BY <2>1 DEF Upload
      <3> QED BY <1>1, <1>3, <3>1, ProceedEffect DEF GoesOn, Changes, Fields
    <2>2. CASE Create(c) \/ FindExisting(c)
      BY <1>1, <1>3, <2>2, CreateEffect, FindEffect DEF GoesOn, Changes, Fields
    <2>3. CASE UpdateWorkflow(c)
      <3> HIDE DEF Answer
      <3> QED BY <1>1, <1>3, <1>4, <2>3, ProceedEffect
          DEF UpdateWorkflow, GoesOn, Changes, Fields
    <2> QED BY <1>2, <1>5, <1>6, <1>7, <2>1, <2>2, <2>3, DeploymentStepsOnly
  <1> QED BY <1>2, <1>5, <1>6, <1>7, <1>8, <1>9, <1>10, <1>11, DeploymentStepsOnly

LEMMA OwnGrows ==
  ASSUME NEW c, Kept(c)
  PROVE  Own(c) \subseteq Own(c)' /\ call[c].body \in Own(c)'
  BY DEF Own, Kept, Given

LEMMA UploadOwnStep ==
  ASSUME ServerlessInv, TypeInv, RivalsKnown, UploadIsOwn, [Next]_vars
  PROVE  UploadIsOwn'
  <1> SUFFICES ASSUME NEW c \in Calls, Uploaded(c)'
               PROVE  call'[c].key \in Keys /\ s3'[call'[c].key] \in Own(c)'
    BY DEF UploadIsOwn
  <1>1. ~\E op \in Ops : Begin(c, op)
    <2>1. ASSUME NEW op \in Ops, Begin(c, op) PROVE FALSE
      <3>1. PICK n, b : Begun(c, op, n, b)
        BY <2>1, BeginEffect DEF ServerlessInv
      <3>2. call'[c].step = FirstStep(op)
        BY <3>1 DEF Begun
      <3> QED BY <3>2, ServerlessAssumption
          DEF FirstStep, Uploaded, Deployments, Scans, Lookups
    <2> QED BY <2>1
  <1>2. Kept(c)
    BY <1>1, StepKeeps
  <1>3. /\ Uploaded(c) \/ Upload(c)
        /\ call'[c].key = call[c].key /\ call[c].key \in Keys
        /\ call[c].op \in Deployments
    <2>1. CASE call'[c] = call[c]
      BY <2>1 DEF Uploaded, UploadIsOwn
    <2>2. CASE \E b \in Bodies : Overtaken(c, b)
      BY <2>2 DEF Overtaken, Fields, Uploaded, UploadIsOwn
    <2>3. CASE CallStep(c)
      BY <2>3, UploadedBefore
    <2> QED BY <1>1, <2>1, <2>2, <2>3, Alone
  <1> DEFINE k == call[c].key
  <1>4. ASSUME NEW d \in Calls, Upload(d), call[d].key = k, s3'[k] = call[d].body,
               call[d].op \in Deployments
        PROVE  s3'[k] \in Own(c)'
    <2>1. CASE d = c
      BY <1>2, <1>4, <2>1, OwnGrows
    <2>2. CASE d # c
      <3>1. Deploying(d)
        BY <1>4 DEF Deploying, InProgress, Upload, At
      <3>2. Deploying(c)
        BY <1>3 DEF Deploying, InProgress, Uploaded, Upload, At
      <3>3. call[d].body \in Own(c)
        BY <2>2, <3>1, <3>2 DEF RivalsKnown, Own
      <3> QED BY <1>2, <1>4, <3>3, OwnGrows
    <2> QED BY <2>1, <2>2
  <1>5. CASE s3'[k] = s3[k] /\ Uploaded(c)
    BY <1>2, <1>3, <1>5, OwnGrows DEF UploadIsOwn
  <1>6. CASE Upload(c)
    <2>1. s3'[k] = call[c].body
      BY <1>3, <1>6 DEF Upload, ServerlessInv, Shape
    <2> QED BY <1>2, <1>3, <2>1, OwnGrows
  <1> QED BY <1>3, <1>4, <1>5, <1>6, ObjectsStep

LEMMA VersionOwnStep ==
  ASSUME OneKeyEach, ServerlessInv, TypeInv, OwnInv, [Next]_vars
  PROVE  VersionIsOwn'
  <1> USE DEF OwnInv
  <1> SUFFICES ASSUME NEW c \in Calls, call'[c].op \in Deployments, call'[c].step = "start"
               PROVE  /\ Held(call[c].arn, call[c].key)'
                      /\ call'[c].arn \in Live' => (Latest(call[c].arn)').body \in Own(c)'
    BY DEF VersionIsOwn
  <1>1. Uploaded(c)' /\ Shape /\ WorkflowsInv
    BY DEF Uploaded, ServerlessInv
  <1>2. ~\E op \in Ops : Begin(c, op)
    <2>1. ASSUME NEW op \in Ops, Begin(c, op) PROVE FALSE
      <3>1. PICK n, b : Begun(c, op, n, b)
        BY <2>1, BeginEffect DEF ServerlessInv
      <3>2. call'[c].step = FirstStep(op)
        BY <3>1 DEF Begun
      <3> QED BY <3>2, ServerlessAssumption DEF FirstStep, Deployments, Scans, Lookups
    <2> QED BY <2>1
  <1>3. Kept(c)
    BY <1>2, StepKeeps
  <1>4. CASE CallStep(c)
    <2>1. /\ call'[c].key = call[c].key /\ call[c].key \in Keys
          /\ Create(c) \/ UpdateWorkflow(c)
          /\ Uploaded(c)
          /\ call[c].op \in Deployments
      BY <1>1, <1>4, UploadedBefore DEF Create, UpdateWorkflow, At, Uploaded
    <2>2. s3[call[c].key] \in Own(c)'
      BY <1>3, <2>1, OwnGrows DEF UploadIsOwn, Uploaded, Create, At
    <2>3. NewVersion(c).body = s3[call[c].key]
      BY DEF NewVersion
    <2>4. Typed(call[c]) /\ Good(c)
      BY DEF TypeInv, CallsType, ServerlessInv
    <2>5. CASE Create(c)
      <3>1. PICK a \in Arns :
              /\ name' = [name EXCEPT ![a] = call[c].asked]
              /\ versions' = [versions EXCEPT ![a] = << NewVersion(c) >>]
              /\ call'[c].arn = a
        BY <1>1, <2>4, <2>5, CreateEffect DEF GoesOn
      <3>2. name'[a] = call[c].asked /\ versions'[a] = << NewVersion(c) >>
        BY <1>1, <3>1 DEF Shape
      <3>3. call[c].key \in KeysOf[call[c].asked]
        BY <2>4, <2>5 DEF Good, Create, At
      <3>4. Held(call[c].arn, call[c].key)'
        <4>1. versions'[a] # << >>
          BY <3>2
        <4> QED BY <2>1, <3>1, <3>2, <3>3, <4>1 DEF Held
      <3>5. Latest(a)' = NewVersion(c)
        <4> DEFINE v == NewVersion(c)
        <4>1. versions'[a] = << v >>
          BY <3>2
        <4> HIDE DEF v
        <4>2. Latest(a)' = v
          BY <4>1 DEF Latest
        <4> QED BY <4>2 DEF v
      <3> QED BY <2>1, <2>2, <2>3, <3>1, <3>4, <3>5
    <2>6. CASE UpdateWorkflow(c)
      <3> PICK a : a = call[c].arn
        OBVIOUS
      <3>1. /\ a \in Live /\ call'[c].arn = a
            /\ versions' = [versions EXCEPT ![a] = Append(@, NewVersion(c))]
        <4>1. ASSUME Answer(c, "error") PROVE FALSE
          BY <1>1, <2>4, <4>1, AnswerEffect
        <4>2. a \in Live
          BY <2>6, <4>1 DEF UpdateWorkflow
        <4>3. PICK ok \in Answers : call' = [call EXCEPT ![c] = Proceed(c, ok, "start")]
          BY <2>6, <4>2 DEF UpdateWorkflow
        <4>4. call'[c].arn = a
          BY <1>1, <2>4, <4>3, ProceedEffect DEF Answered, GoesOn, Changes, Fields
        <4> QED BY <2>6, <4>2, <4>4 DEF UpdateWorkflow
      <3>2. Held(a, call[c].key) /\ a \in Arns
        BY <2>4, <2>6 DEF Good, UpdateWorkflow, At, Held
      <3>3. StaysItself(a)
        BY <3>2, WorkflowsStep
      <3>4. Held(call[c].arn, call[c].key)'
        BY <2>1, <3>1, <3>2, <3>3 DEF Held, StaysItself
      <3>5. Latest(a)' = NewVersion(c)
        <4> DEFINE v == NewVersion(c)
        <4>1. versions'[a] = Append(versions[a], v) /\ versions[a] \in Seq(Version)
          BY <1>1, <3>1, <3>2 DEF Shape
        <4> HIDE DEF v
        <4>2. versions'[a][Len(versions'[a])] = v
          BY <4>1
        <4> QED BY <4>2 DEF Latest, v
      <3> QED BY <2>1, <2>2, <2>3, <3>1, <3>4, <3>5
    <2> QED BY <2>1, <2>5, <2>6
  <1>5. CASE ~CallStep(c)
    <2> PICK a, k : a = call[c].arn /\ k = call[c].key
      OBVIOUS
    <2>1. /\ call'[c].arn = a /\ call'[c].key = k
          /\ call[c].op \in Deployments /\ call[c].step = "start"
      <3>1. call'[c] = call[c] \/ \E b \in Bodies : Overtaken(c, b)
        BY <1>2, <1>5, Alone
      <3> QED BY <3>1 DEF Overtaken, Fields
    <2>2. /\ Held(a, k) /\ a \in Arns /\ versions[a] # << >>
          /\ a \in Live => Latest(a).body \in Own(c)
      BY <2>1 DEF VersionIsOwn, Held
    <2>3. StaysItself(a)
      BY <2>2, WorkflowsStep
    <2>4. Held(call[c].arn, call[c].key)'
      BY <2>1, <2>2, <2>3 DEF Held, StaysItself
    <2>5. ASSUME a \in Live' PROVE (Latest(a)').body \in Own(c)'
      <3>1. a \in Live
        BY <2>2, <2>3, <2>5 DEF StaysItself
      <3>2. CASE Latest(a)' = Latest(a)
        BY <1>3, <2>2, <3>1, <3>2, OwnGrows
      <3>3. ASSUME NEW d \in Calls, UpdateWorkflow(d), call[d].arn = a,
                   Latest(a)' = NewVersion(d)
            PROVE  (Latest(a)').body \in Own(c)'
        <4>1. call[d].key \in KeysOf[name[a]]
          BY <3>1, <3>3 DEF ServerlessInv, Good, UpdateWorkflow, At, Held
        <4>2. k \in KeysOf[name[a]] /\ name[a] \in Names
          BY <1>1, <2>2, <3>1 DEF Held, Live, Shape
        <4>3. call[d].key = k
          BY <4>1, <4>2 DEF OneKeyEach
        <4>4. s3[k] \in Own(c)
          BY <2>1 DEF UploadIsOwn, Uploaded
        <4> QED BY <1>3, <3>3, <4>3, <4>4, OwnGrows DEF NewVersion
      <3> QED BY <2>2, <3>2, <3>3, LatestStep
    <2> QED BY <2>1, <2>4, <2>5
  <1> QED BY <1>4, <1>5

LEMMA RunOwnStep ==
  ASSUME ServerlessInv, TypeInv, OwnInv, [Next]_vars
  PROVE  RunIsOwn'
  <1> SUFFICES ASSUME NEW c \in Calls, call'[c].op \in Deployments,
                      call'[c].result = "STARTED"
               PROVE  /\ call'[c].step = "done" /\ call'[c].run \in 1 .. Len(runs')
                      /\ runs'[call'[c].run].body \in Own(c)'
    BY DEF RunIsOwn
  <1>1. RunsKept /\ Len(runs) \in Nat /\ Len(runs') \in Nat
    BY RunsStep DEF TypeInv, RunsType
  <1>2. ~\E op \in Ops : Begin(c, op)
    <2>1. ASSUME NEW op \in Ops, Begin(c, op) PROVE call'[c].result = ""
      BY <2>1, BeginEffect DEF Begun, ServerlessInv
    <2> QED BY <2>1
  <1>3. Kept(c)
    BY <1>2, StepKeeps
  <1>4. CASE \/ call'[c] = call[c] \/ \E b \in Bodies : Overtaken(c, b)
    <2>1. /\ call[c].op \in Deployments /\ call[c].result = "STARTED"
          /\ call'[c].step = call[c].step /\ call'[c].run = call[c].run
      BY <1>4 DEF Overtaken, Fields
    <2>2. /\ call[c].step = "done" /\ call[c].run \in 1 .. Len(runs)
          /\ runs[call[c].run].body \in Own(c)
      BY <2>1 DEF OwnInv, RunIsOwn
    <2>3. runs'[call[c].run].body = runs[call[c].run].body
      BY <1>1, <2>2 DEF RunsKept, SameRun
    <2>4. call[c].run \in 1 .. Len(runs')
      BY <1>1, <2>2 DEF RunsKept
    <2> QED BY <1>3, <2>1, <2>2, <2>3, <2>4, OwnGrows
  <1>5. CASE CallStep(c)
    <2>1. Typed(call[c]) /\ Shape
      BY DEF TypeInv, CallsType, ServerlessInv
    <2>2. StartRun(c)
      BY <1>5, AnswerSource
    <2>3. /\ call[c].arn \in Live
          /\ runs' = Append(runs, [arn |-> call[c].arn, body |-> Latest(call[c].arn).body,
                                   state |-> "RUNNING", recent |-> TRUE])
          /\ call'[c].step = "done" /\ call'[c].run = Len(runs) + 1
      BY <2>1, <2>2, StartEffect DEF Answered
    <2>4. Latest(call[c].arn).body \in Own(c)
      <3>1. call[c].op \in Deployments /\ call[c].step = "start"
        BY <1>3, <2>2 DEF Kept, Given, StartRun, At
      <3> QED BY <2>3, <3>1 DEF OwnInv, VersionIsOwn
    <2>5. /\ Len(runs') = Len(runs) + 1
          /\ runs'[Len(runs) + 1].body = Latest(call[c].arn).body
      <3> DEFINE run == [arn |-> call[c].arn, body |-> Latest(call[c].arn).body,
                         state |-> "RUNNING", recent |-> TRUE]
      <3>1. runs' = Append(runs, run) /\ runs \in Seq(Run)
        BY <2>3 DEF TypeInv, RunsType
      <3>2. run.body = Latest(call[c].arn).body
        OBVIOUS
      <3> HIDE DEF run
      <3>3. Len(runs') = Len(runs) + 1 /\ runs'[Len(runs) + 1] = run
        BY <3>1
      <3> QED BY <3>2, <3>3
    <2>6. Len(runs) + 1 \in 1 .. Len(runs')
      BY <1>1, <2>5
    <2> QED BY <1>3, <2>3, <2>4, <2>5, <2>6, OwnGrows
  <1> QED BY <1>2, <1>4, <1>5, Alone

\* As long as callers deploy a workflow under one key, the default one: the run a
\* deployment reports executes the definition it was given or that of a
\* deployment it overlapped with, whatever calls raise or lose their answers and
\* whatever is deleted meanwhile.
THEOREM DeploymentsRunTheirOwn ==
  ASSUME OneKeyEach
  PROVE  Spec => []OwnDefinitionRuns
  <1>1. Init => OwnInv
    <2> SUFFICES ASSUME Init PROVE OwnInv
      OBVIOUS
    <2>1. Idle.step = "new" /\ Idle.result = ""
      BY DEF Idle
    <2>2. \A c \in Calls : call[c].step = "new" /\ call[c].result = ""
      BY <2>1 DEF Init
    <2> QED BY <2>2 DEF OwnInv, RivalsKnown, Deploying, InProgress, UploadIsOwn,
                        Uploaded, VersionIsOwn, RunIsOwn
  <1>2. ServerlessInv /\ TypeInv /\ OwnInv /\ [Next]_vars => OwnInv'
    <2> SUFFICES ASSUME ServerlessInv, TypeInv, OwnInv, [Next]_vars PROVE OwnInv'
      OBVIOUS
    <2>1. RivalsKnown' /\ UploadIsOwn'
      BY RivalsStep, UploadOwnStep DEF OwnInv
    <2>2. VersionIsOwn' /\ RunIsOwn'
      BY OneKeyEach, VersionOwnStep, RunOwnStep
    <2> QED BY <2>1, <2>2 DEF OwnInv
  <1>3. OwnInv => OwnDefinitionRuns
    BY DEF OwnInv, RunIsOwn, OwnDefinitionRuns, Own
  <1> QED BY <1>1, <1>2, <1>3, TypeInvariant, PTL DEF Spec

-----------------------------------------------------------------------------
(***************************************************************************)
(* One page.  list_workflows without its paginator returns all there is as *)
(* long as there are at most PageSize workflows.                           *)
(***************************************************************************)
AllOnOnePage == IsFiniteSet(Live) /\ Cardinality(Live) <= PageSize

LEMMA FirstPageIsAll ==
  ASSUME AllOnOnePage, NEW page \in FirstPages
  PROVE  page = Live
  <1>1. page \subseteq Live /\ (page = Live \/ Cardinality(page) = PageSize)
    BY DEF FirstPages
  <1>2. CASE Cardinality(page) = PageSize
    <2>1. /\ Cardinality(page) <= Cardinality(Live)
          /\ Cardinality(page) = Cardinality(Live) => page = Live
      BY <1>1, FS_Subset DEF AllOnOnePage
    <2>2. Cardinality(Live) \in Nat /\ PageSize \in Nat
      BY FS_CardinalityType, ServerlessAssumption DEF AllOnOnePage
    <2> QED BY <1>2, <2>1, <2>2 DEF AllOnOnePage
  <1> QED BY <1>1, <1>2

\* As long as one page holds every workflow, every tool that takes a name acts on
\* the workflow of exactly that name if there is one: a workflow whose name merely
\* contains it is taken only if there is none.
THEOREM ExactNameComesFirst == Spec /\ []AllOnOnePage => ExactNameFirst
  <1>1. ASSUME ServerlessInv, TypeInv, AllOnOnePage, [Next]_vars, NEW c \in Calls,
               call[c].arn = NoArn, call'[c].arn # NoArn
        PROVE  \/ name'[call'[c].arn] = call[c].asked
               \/ \A a \in Live : name[a] # call[c].asked
    <2>1. Typed(call[c]) /\ Stage(c) /\ Good(c) /\ Shape
      BY <1>1 DEF TypeInv, CallsType, ServerlessInv
    <2>2. ASSUME NEW op \in Ops, Begin(c, op) PROVE FALSE
      BY <1>1, <2>2, BeginEffect DEF Begun, ServerlessInv
    <2>3. CallStep(c)
      <3>1. ASSUME NEW b, Overtaken(c, b) PROVE FALSE
        BY <1>1, <3>1 DEF Overtaken, Fields
      <3> QED BY <1>1, <2>2, <3>1, Alone
    <2>4. ASSUME NEW F, "arn" \notin F, Changes(c, F) PROVE FALSE
      BY <1>1, <2>4 DEF Changes, Fields
    <2>5. ASSUME NEW result, Answered(c, result) PROVE FALSE
      BY <2>4, <2>5 DEF Answered
    <2>6. ASSUME NEW step, GoesOn(c, step) PROVE FALSE
      BY <2>4, <2>6 DEF GoesOn
    <2>7. CASE Resolve(c)
      <3>1. PICK page \in FirstPages : \E a \in Matches(call[c].asked, page) : call'[c].arn = a
        BY <2>1, <2>5, <2>7, ResolveEffect
      <3>2. page = Live
        BY <1>1, FirstPageIsAll
      <3>3. call'[c].arn \in Matches(call[c].asked, Live)
        BY <3>1, <3>2
      <3>4. UNCHANGED name
        BY <2>7 DEF Resolve
      <3> QED BY <3>3, <3>4 DEF Matches
    <2>8. CASE Create(c)
      <3>1. \A b \in Live : name[b] # call[c].asked
        BY <2>1, <2>6, <2>8, CreateEffect
      <3> QED BY <3>1
    <2>9. CASE FindExisting(c)
      <3>1. name[call'[c].arn] = call[c].asked /\ UNCHANGED name
        BY <2>1, <2>5, <2>9, FindEffect DEF FindExisting
      <3> QED BY <3>1
    <2>10. ~Detail(c)
      BY <2>1, <2>4, <2>5, DetailEffect
    <2>11. ASSUME NEW result, Answer(c, result) PROVE FALSE
      BY <2>1, <2>5, <2>11, AnswerEffect DEF Answered
    <2>12. ASSUME NEW ok \in Answers, NEW next,
                  call' = [call EXCEPT ![c] = Proceed(c, ok, next)]
           PROVE  FALSE
      BY <2>1, <2>5, <2>6, <2>12, ProceedEffect
    <2>13. ~Upload(c) /\ ~UpdateWorkflow(c) /\ ~Fails(c)
      <3> HIDE DEF Answer
      <3> QED BY <2>11, <2>12 DEF Upload, UpdateWorkflow, Fails
    <2>14. ~StartRun(c) /\ ~ChooseRun(c)
      BY <2>1, <2>4, <2>5, StartEffect, ChooseEffect
    <2>15. ~PollRun(c)
      BY <2>1, <2>4, <2>5, PollEffect
    <2>16. ~StopRun(c)
      <3> HIDE DEF Answer
      <3> QED BY <2>11 DEF StopRun
    <2>17. ~ListVersions(c) /\ ~FetchLatest(c) /\ ~FetchPrevious(c)
      BY <2>1, <2>4, <2>5, FetchEffects
    <2>18. ~List(c) /\ ~EndScan(c)
      BY <2>1, <2>4, <2>5, ListEffect, EndScanEffect
    <2>19. ~Delete(c) /\ \A a \in Arns : ~Inspect(c, a)
      BY <2>1, <2>4, <2>5, DeleteEffect, InspectEffect
    <2> QED BY <2>3, <2>7, <2>8, <2>9, <2>10, <2>13, <2>14, <2>15, <2>16, <2>17, <2>18, <2>19
            DEF CallStep
  <1> DEFINE Exact == \A c \in Calls :
               call[c].arn = NoArn /\ call'[c].arn # NoArn =>
                 \/ name'[call'[c].arn] = call[c].asked
                 \/ \A a \in Live : name[a] # call[c].asked
  <1>2. ServerlessInv /\ TypeInv /\ AllOnOnePage /\ [Next]_vars => [Exact]_vars
    BY <1>1
  <1>3. ExactNameFirst <=> [][Exact]_vars
    BY DEF ExactNameFirst
  <1> HIDE DEF Exact
  <1> QED BY <1>2, <1>3, TypeInvariant, PTL DEF Spec

-----------------------------------------------------------------------------
(***************************************************************************)
(* Reports.  What a scan owes and has not reported is among the workflows  *)
(* it has still to look at.                                                *)
(***************************************************************************)
OwedRuns(c) ==
  {i \in call[c].owed : runs[i].arn \in Live /\ NameFits(call[c].asked, runs[i].arn)}

OwedArns(c) == {a \in call[c].owed \cap Live : NameFits(call[c].asked, a)}

Versioned == {a \in Arns : versions[a] # << >>}

Owing(c) ==
  /\ call[c].op \in {"failed", "list_runs"} =>
       \A i \in call[c].owed :
         /\ i \in 1 .. Len(runs)
         /\ call[c].op = "failed" => runs[i].state = "FAILED" /\ runs[i].recent
  /\ call[c].op \in {"list", "bulk"} => call[c].owed \subseteq Versioned
  /\ call[c].step = "scan" /\ call[c].op \in {"failed", "list_runs"} /\ ~call[c].hurt =>
       \A i \in OwedRuns(c) : i \in call[c].report \/ runs[i].arn \in call[c].todo
  /\ call[c].step = "scan" /\ call[c].op = "bulk" =>
       \A a \in OwedArns(c) : a \in call[c].report \/ a \in call[c].todo
  /\ call[c].result = "report" =>
       /\ call[c].op \in {"failed", "list_runs"} /\ ~call[c].hurt =>
            OwedRuns(c) \subseteq call[c].report
       /\ call[c].op \in {"list", "bulk"} => OwedArns(c) \subseteq call[c].report

Reporting(c) == call[c].op \in Scans \ {"delete"} /\ call[c].step # "new"

ReportInv ==
  /\ \A i \in 1 .. Len(runs) : runs[i].arn \in Versioned
  /\ \A c \in Calls : Reporting(c) => Owing(c)

LEMMA RunArnsStep ==
  ASSUME ServerlessInv, TypeInv, [Next]_vars,
         \A i \in 1 .. Len(runs) : runs[i].arn \in Versioned
  PROVE  /\ \A i \in 1 .. Len(runs') : runs'[i].arn \in Versioned'
         /\ Versioned \subseteq Versioned'
         /\ \A a \in Versioned : a \in Live' => a \in Live /\ name'[a] = name[a]
  <1>1. /\ Versioned \subseteq Versioned'
        /\ \A a \in Versioned : a \in Live' => a \in Live /\ name'[a] = name[a]
    BY WorkflowsStep DEF Versioned, StaysItself
  <1>2. RunsKept /\ Len(runs) \in Nat /\ Len(runs') \in Nat
    BY RunsStep DEF TypeInv, RunsType
  <1>3. ASSUME NEW i \in 1 .. Len(runs'), i \in 1 .. Len(runs)
        PROVE  runs'[i].arn \in Versioned'
    BY <1>1, <1>2, <1>3 DEF RunsKept, SameRun
  <1>4. ASSUME NEW c \in Calls, StartRun(c), NEW i \in 1 .. Len(runs'),
               i \notin 1 .. Len(runs)
        PROVE  runs'[i].arn \in Versioned'
    <2> DEFINE run == [arn |-> call[c].arn, body |-> Latest(call[c].arn).body,
                       state |-> "RUNNING", recent |-> TRUE]
    <2>1. Typed(call[c]) /\ Shape
      BY DEF TypeInv, CallsType, ServerlessInv
    <2>2. UNCHANGED runs \/ (call[c].arn \in Live /\ runs' = Append(runs, run))
      BY <1>4 DEF StartRun
    <2>3. runs \in Seq(Run) /\ run.arn = call[c].arn
      BY DEF TypeInv, RunsType
    <2> HIDE DEF run
    <2>4. call[c].arn \in Live /\ runs' = Append(runs, run)
      BY <1>4, <2>2
    <2>5. Len(runs') = Len(runs) + 1 /\ runs'[Len(runs) + 1] = run
      BY <2>3, <2>4
    <2>6. i = Len(runs) + 1
      BY <1>2, <1>4, <2>5
    <2>7. call[c].arn \in Versioned
      BY <2>4 DEF ServerlessInv, WorkflowsInv, Versioned, Live
    <2> QED BY <1>1, <2>3, <2>5, <2>6, <2>7
  <1>5. ASSUME NEW c \in Calls, StopRun(c) PROVE Len(runs') = Len(runs)
    <2>1. runs \in Seq(Run)
      BY DEF TypeInv, RunsType
    <2> QED BY <1>5, <2>1 DEF StopRun
  <1>6. ASSUME NEW i, RunEnds(i) PROVE Len(runs') = Len(runs)
    <2>1. runs \in Seq(Run)
      BY DEF TypeInv, RunsType
    <2> QED BY <1>6, <2>1 DEF RunEnds
  <1>7. ASSUME NEW c \in Calls, CallStep(c), ~StartRun(c), ~StopRun(c)
        PROVE  UNCHANGED runs
    BY <1>7 DEF CallStep, Resolve, Detail, Upload, Create, FindExisting, UpdateWorkflow,
       ChooseRun, PollRun, ListVersions, FetchLatest, FetchPrevious, List, EndScan,
       Delete, Inspect, Fails
  <1>8. ASSUME NEW i \in 1 .. Len(runs') PROVE runs'[i].arn \in Versioned'
    <2>1. CASE Len(runs') = Len(runs)
      BY <1>3, <2>1
    <2> QED BY <1>3, <1>4, <1>5, <1>6, <1>7, <2>1 DEF Next, vars, Begin
  <1> QED BY <1>1, <1>8

\* What is owed can only shrink: a workflow that is there was there before.
LEMMA OwedShrinks ==
  ASSUME ServerlessInv, TypeInv, ReportInv, [Next]_vars, NEW c \in Calls, Kept(c),
         Reporting(c)
  PROVE  /\ call'[c].op \in {"failed", "list_runs"} =>
              /\ \A i \in call'[c].owed :
                   /\ i \in 1 .. Len(runs') /\ runs'[i].arn = runs[i].arn
                   /\ call'[c].op = "failed" => runs'[i].state = "FAILED" /\ runs'[i].recent
              /\ OwedRuns(c)' \subseteq OwedRuns(c)
         /\ call'[c].op \in {"list", "bulk"} =>
              /\ call'[c].owed \subseteq Versioned'
              /\ OwedArns(c)' \subseteq OwedArns(c)
  <1>1. /\ Versioned \subseteq Versioned'
        /\ \A a \in Versioned : a \in Live' => a \in Live /\ name'[a] = name[a]
    BY RunArnsStep DEF ReportInv
  <1>2. RunsKept /\ Len(runs) \in Nat /\ Len(runs') \in Nat
    BY RunsStep DEF TypeInv, RunsType
  <1>3. Owing(c) /\ \A i \in 1 .. Len(runs) : runs[i].arn \in Versioned
    BY DEF ReportInv
  <1>4. call'[c].op = call[c].op /\ call'[c].owed = call[c].owed /\ call'[c].asked = call[c].asked
    BY DEF Kept, Given
  <1>5. ASSUME call[c].op \in {"failed", "list_runs"}, NEW i \in call[c].owed
        PROVE  /\ i \in 1 .. Len(runs') /\ runs'[i].arn = runs[i].arn
               /\ runs[i].arn \in Versioned
               /\ call[c].op = "failed" => runs'[i].state = "FAILED" /\ runs'[i].recent
    <2>1. i \in 1 .. Len(runs)
      BY <1>3, <1>5 DEF Owing
    <2>2. i \in 1 .. Len(runs')
      BY <1>2, <2>1 DEF RunsKept
    <2>3. SameRun(i)
      BY <1>2, <2>1 DEF RunsKept
    <2> QED BY <1>3, <1>5, <2>1, <2>2, <2>3 DEF Owing, SameRun
  <1>6. ASSUME call[c].op \in {"failed", "list_runs"}, NEW i \in OwedRuns(c)'
        PROVE  i \in OwedRuns(c)
    BY <1>1, <1>4, <1>5, <1>6 DEF OwedRuns, NameFits
  <1>7. ASSUME call[c].op \in {"list", "bulk"} PROVE call[c].owed \subseteq Versioned
    BY <1>3, <1>7 DEF Owing
  <1>8. ASSUME call[c].op \in {"list", "bulk"}, NEW a \in OwedArns(c)'
        PROVE  a \in OwedArns(c)
    BY <1>1, <1>4, <1>7, <1>8 DEF OwedArns, NameFits
  <1> QED BY <1>1, <1>4, <1>5, <1>6, <1>7, <1>8

LEMMA OwingStep ==
  ASSUME ServerlessInv, TypeInv, ReportInv, AllOnOnePage, [Next]_vars,
         NEW c \in Calls, Kept(c), Reporting(c)
  PROVE  Owing(c)'
  <1>1. Owing(c) /\ Typed(call[c]) /\ Stage(c) /\ Shape
    BY DEF ReportInv, TypeInv, CallsType, ServerlessInv
  <1>2. /\ call'[c].op = call[c].op /\ call'[c].owed = call[c].owed
        /\ call'[c].asked = call[c].asked
    BY DEF Kept, Given
  <1>3. call[c].op \in {"failed", "list_runs", "list", "bulk"}
    BY DEF Reporting, Scans
  <1>4. /\ call[c].op \in {"failed", "list_runs"} =>
              /\ \A i \in call[c].owed :
                   /\ i \in 1 .. Len(runs') /\ runs'[i].arn = runs[i].arn
                   /\ call[c].op = "failed" => runs'[i].state = "FAILED" /\ runs'[i].recent
              /\ OwedRuns(c)' \subseteq OwedRuns(c)
        /\ call[c].op \in {"list", "bulk"} =>
              /\ call[c].owed \subseteq Versioned'
              /\ OwedArns(c)' \subseteq OwedArns(c)
    BY <1>2, OwedShrinks
  <1>5. \A i \in OwedRuns(c)' : i \in call[c].owed
    BY <1>2 DEF OwedRuns
  <1> DEFINE Rest ==
        /\ call'[c].step = "scan" /\ call[c].op \in {"failed", "list_runs"} /\ ~call'[c].hurt =>
             \A i \in OwedRuns(c)' : i \in call'[c].report \/ runs'[i].arn \in call'[c].todo
        /\ call'[c].step = "scan" /\ call[c].op = "bulk" =>
             \A a \in OwedArns(c)' : a \in call'[c].report \/ a \in call'[c].todo
        /\ call'[c].result = "report" =>
             /\ call[c].op \in {"failed", "list_runs"} /\ ~call'[c].hurt =>
                  OwedRuns(c)' \subseteq call'[c].report
             /\ call[c].op \in {"list", "bulk"} => OwedArns(c)' \subseteq call'[c].report
  <1>6. Rest => Owing(c)'
    BY <1>2, <1>4 DEF Owing
  <1>7. CASE call'[c] = call[c]
    BY <1>1, <1>4, <1>5, <1>6, <1>7 DEF Owing
  <1>8. CASE List(c)
    <2>1. PICK page \in {Live} \cup FirstPages :
            LET fitting == {a \in page : NameFits(call[c].asked, a)} IN
            \/ /\ call[c].op = "list" /\ page = Live
               /\ Changes(c, {"step", "result", "report"}) /\ call'[c].step = "done"
               /\ call'[c].result = "report" /\ call'[c].report = fitting
            \/ /\ call[c].op # "list" /\ page \in FirstPages
               /\ Changes(c, {"step", "todo"})
               /\ call'[c].step = "scan" /\ call'[c].todo = fitting
      BY <1>1, <1>8, ListEffect
    <2>2. page = Live
      BY <2>1, FirstPageIsAll
    <2>3. call[c].result = ""
      BY <1>1, <1>8 DEF Stage, List, At
    <2>4. CASE /\ call[c].op = "list"
               /\ call'[c].step = "done"
               /\ call'[c].report = {a \in page : NameFits(call[c].asked, a)}
      BY <1>4, <1>6, <2>2, <2>4 DEF OwedArns
    <2>5. CASE /\ call[c].op # "list" /\ Changes(c, {"step", "todo"})
               /\ call'[c].todo = {a \in page : NameFits(call[c].asked, a)}
      <3>1. call'[c].result = ""
        BY <2>3, <2>5 DEF Changes, Fields
      <3>2. \A a \in OwedArns(c) : a \in call'[c].todo
        BY <2>2, <2>5 DEF OwedArns
      <3>3. \A i \in OwedRuns(c) : runs[i].arn \in call'[c].todo
        BY <2>2, <2>5 DEF OwedRuns
      <3> QED BY <1>4, <1>5, <1>6, <3>1, <3>2, <3>3
    <2> QED BY <2>1, <2>4, <2>5
  <1>9. CASE EndScan(c)
    <2>1. Answered(c, "report")
      BY <1>1, <1>3, <1>9, EndScanEffect
    <2>2. /\ call'[c].step = "done" /\ call'[c].report = call[c].report
          /\ call'[c].hurt = call[c].hurt
          /\ call[c].step = "scan" /\ call[c].todo = {}
      BY <1>9, <2>1 DEF Answered, Changes, Fields, EndScan, At
    <2>3. call[c].op # "list"
      BY <1>1, <2>2 DEF Stage
    <2> QED BY <1>1, <1>3, <1>4, <1>6, <2>2, <2>3 DEF Owing
  <1>10. CASE Fails(c)
    <2>1. Answered(c, "error")
      BY <1>1, <1>10, AnswerEffect DEF Fails, Answered
    <2> QED BY <1>6, <2>1 DEF Answered
  <1>11. ASSUME NEW a \in Arns, Inspect(c, a) PROVE Owing(c)'
    <2>1. /\ Changes(c, {"todo", "hurt", "report"})
          /\ call'[c].todo = call[c].todo \ {a}
      BY <1>1, <1>11, InspectEffect
    <2>2. PICK ok \in Answers :
            /\ call'[c].hurt = (call[c].hurt \/ ~ok)
            /\ call'[c].report = call[c].report \cup
                 IF call[c].op = "bulk" \/ (ok /\ a \in Live) THEN Row(c, a) ELSE {}
      BY <1>1, <1>11, InspectEffect
    <2>3. call[c].step = "scan" /\ call[c].result = "" /\ call'[c].result = ""
      BY <1>1, <1>11, <2>1 DEF Stage, Inspect, At, Changes, Fields
    <2>4. ASSUME call[c].op \in {"failed", "list_runs"}, ~call'[c].hurt,
                 NEW i \in OwedRuns(c)'
          PROVE  i \in call'[c].report \/ runs'[i].arn \in call'[c].todo
      <3>1. /\ i \in OwedRuns(c) /\ i \in call[c].owed /\ runs'[i].arn = runs[i].arn
            /\ ~call[c].hurt /\ ok
        BY <1>4, <1>5, <2>2, <2>4
      <3>2. i \in call[c].report \/ runs[i].arn \in call[c].todo
        BY <1>1, <2>3, <2>4, <3>1 DEF Owing
      <3>3. CASE runs[i].arn = a
        <4>1. a \in Live /\ i \in 1 .. Len(runs)
          BY <1>1, <2>4, <3>1, <3>3 DEF OwedRuns, Owing
        <4>2. i \in RunsOf(a)
          <5>1. runs \in Seq(Run)
            BY DEF TypeInv, RunsType
          <5> QED BY <3>3, <4>1, <5>1 DEF RunsOf
        <4>3. i \in Row(c, a)
          <5>1. CASE call[c].op = "failed"
            BY <1>1, <3>1, <4>2, <5>1 DEF Owing, Row, FailedRuns
          <5>2. CASE call[c].op = "list_runs"
            BY <4>2, <5>2 DEF Row
          <5> QED BY <2>4, <5>1, <5>2
        <4> QED BY <2>2, <3>1, <4>1, <4>3
      <3>4. CASE runs[i].arn # a
        BY <2>1, <2>2, <3>1, <3>2, <3>4
      <3> QED BY <3>3, <3>4
    <2>5. ASSUME call[c].op = "bulk", NEW b \in OwedArns(c)'
          PROVE  b \in call'[c].report \/ b \in call'[c].todo
      <3>1. b \in call[c].report \/ b \in call[c].todo
        BY <1>1, <1>4, <2>3, <2>5 DEF Owing
      <3>2. Row(c, a) = {a}
        BY <2>5 DEF Row
      <3> QED BY <2>1, <2>2, <2>5, <3>1, <3>2
    <2> QED BY <1>6, <2>3, <2>4, <2>5
  <1>12. CASE CallStep(c)
    <2>1. ~Delete(c)
      BY <1>1, <1>3 DEF Delete, At, Stage
    <2> QED BY <1>3, <1>8, <1>9, <1>10, <1>11, <1>12, <2>1, ScanStepsOnly DEF Scans
  <1>13. call'[c] = call[c] \/ CallStep(c)
    <2>1. call[c].op \notin Deployments /\ call[c].step # "new"
      BY <1>3 DEF Deployments, Reporting
    <2>2. ASSUME NEW op \in Ops, Begin(c, op) PROVE FALSE
      BY <2>1, <2>2 DEF Begin, At
    <2> QED BY <2>1, <2>2, Alone
  <1> QED BY <1>7, <1>12, <1>13

LEMMA OwingBegins ==
  ASSUME ServerlessInv, TypeInv, ReportInv, NEW c \in Calls, NEW op \in Ops, Begin(c, op),
         Reporting(c)'
  PROVE  Owing(c)'
  <1>1. PICK n, b : Begun(c, op, n, b)
    BY BeginEffect DEF ServerlessInv
  <1>2. /\ call'[c].op = op /\ call'[c].owed = Owed(op) /\ call'[c].result = ""
        /\ call'[c].step = FirstStep(op)
    BY <1>1 DEF Begun
  <1>3. op \in {"failed", "list_runs", "list", "bulk"}
    BY <1>2 DEF Reporting, Scans
  <1>4. call'[c].step = "list"
    BY <1>2, <1>3 DEF FirstStep, Scans, Lookups
  <1>5. UNCHANGED << runs, versions >>
    BY DEF Begin
  <1>6. ASSUME op \in {"failed", "list_runs"}, NEW i \in Owed(op)
        PROVE  /\ i \in 1 .. Len(runs)
               /\ op = "failed" => runs[i].state = "FAILED" /\ runs[i].recent
    <2>1. runs \in Seq(Run)
      BY DEF TypeInv, RunsType
    <2> QED BY <1>6, <2>1 DEF Owed
  <1>7. ASSUME op \in {"list", "bulk"} PROVE Owed(op) \subseteq Versioned
    BY <1>7 DEF Owed, Live, Versioned, ServerlessInv, WorkflowsInv
  <1>8. Versioned' = Versioned
    BY <1>5 DEF Versioned
  <1> QED BY <1>2, <1>3, <1>4, <1>5, <1>6, <1>7, <1>8 DEF Owing

LEMMA ReportStep ==
  ASSUME ServerlessInv, TypeInv, ReportInv, AllOnOnePage, [Next]_vars
  PROVE  ReportInv'
  <1>1. ASSUME NEW c \in Calls, Reporting(c)' PROVE Owing(c)'
    <2>1. CASE \E op \in Ops : Begin(c, op)
      BY <1>1, <2>1, OwingBegins
    <2>2. CASE ~\E op \in Ops : Begin(c, op)
      <3>1. Kept(c)
        BY <2>2, StepKeeps
      <3>2. Reporting(c)
        BY <1>1, <3>1 DEF Kept, Given, Reporting
      <3> QED BY <3>1, <3>2, OwingStep
    <2> QED BY <2>1, <2>2
  <1>2. \A i \in 1 .. Len(runs') : runs'[i].arn \in Versioned'
    BY RunArnsStep DEF ReportInv
  <1> QED BY <1>1, <1>2 DEF ReportInv

LEMMA ReportInit == ASSUME Init PROVE ReportInv
  <1>1. PICK k \in [Arns -> Keys], b \in [Arns -> Bodies] : Deployed(k, b)
    BY DEF Init
  <1>2. \A a \in Live : a \in Versioned
    BY <1>1 DEF Deployed, Versioned, Live
  <1>3. ASSUME NEW i \in 1 .. Len(runs) PROVE runs[i].arn \in Versioned
    <2>1. CASE runs = << >>
      BY <1>3, <2>1
    <2>2. ASSUME NEW a \in Live, NEW e \in EarlierRuns,
                 runs = << [arn |-> a, body |-> b[a], state |-> e[1], recent |-> e[2]] >>
          PROVE  runs[i].arn \in Versioned
      <3> DEFINE run == [arn |-> a, body |-> b[a], state |-> e[1], recent |-> e[2]]
      <3>1. run.arn = a /\ runs = << run >>
        BY <2>2
      <3> HIDE DEF run
      <3>2. i = 1 /\ runs[1] = run
        BY <1>3, <3>1
      <3> QED BY <1>2, <3>1, <3>2
    <2> QED BY <1>1, <2>1, <2>2 DEF Deployed
  <1>4. \A c \in Calls : ~Reporting(c)
    BY DEF Init, Idle, Reporting
  <1> QED BY <1>3, <1>4 DEF ReportInv

\* As long as one page holds every workflow, a report leaves out nothing it owes,
\* whoever deploys, runs or deletes while it is drawn up: neither a failure of the
\* time nor a run nor a workflow that was there when the tool was called and still
\* is when it answers.
THEOREM ReportsLeaveNothingOut == Spec /\ []AllOnOnePage => []ReportsComplete
  <1>1. ServerlessInv /\ TypeInv /\ ReportInv => ReportsComplete
    <2> SUFFICES ASSUME TypeInv, ReportInv, NEW c \in Calls, call[c].result = "report"
                 PROVE  /\ call[c].op \in {"failed", "list_runs"} /\ ~call[c].hurt =>
                             OwedRuns(c) \subseteq call[c].report
                        /\ call[c].op \in {"list", "bulk"} =>
                             OwedArns(c) \subseteq call[c].report
      BY DEF ReportsComplete, OwedRuns, OwedArns
    <2>1. Stage(c)
      BY DEF TypeInv, CallsType
    <2>2. call[c].step = "done"
      BY <2>1 DEF Stage
    <2>3. call[c].op \in {"failed", "list_runs", "list", "bulk"} => Reporting(c)
      BY <2>2 DEF Reporting, Scans
    <2> QED BY <2>3 DEF ReportInv, Owing
  <1> QED BY <1>1, ReportInit, ReportStep, TypeInvariant, PTL DEF Spec

=============================================================================
