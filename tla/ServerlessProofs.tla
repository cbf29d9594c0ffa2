-------------------------- MODULE ServerlessProofs --------------------------
(***************************************************************************)
(* Proofs about ServerlessWorkflows, for any number of tool calls,         *)
(* workflows and definitions, with every failure and lost answer.          *)
(***************************************************************************)
EXTENDS ServerlessWorkflows, TLAPS

Fields ==
  {"op", "asked", "body", "dry", "idle", "step", "arn", "key", "run", "polls",
   "todo", "report", "seen", "hurt", "result", "owed", "rivals"}

Shape ==
  /\ name \in [Arns -> Names \cup {NoName}]
  /\ versions \in [Arns -> Seq(Version)]
  /\ s3 \in [Keys -> Objects]
  /\ call = [c \in Calls |-> call[c]]
  /\ \A c \in Calls : DOMAIN call[c] = Fields /\ call[c].body \in Objects

(***************************************************************************)
(* The invariant.  Live workflows have names of their own and versions     *)
(* under keys of their name; a deployment that has a key has one of the    *)
(* name it deploys, or of the workflow it updates, for as long as that     *)
(* workflow is there.                                                      *)
(***************************************************************************)
WorkflowsInv ==
  /\ \A a, b \in Live : a # b => name[a] # name[b]
  /\ \A a \in Live : versions[a] # << >> /\ Latest(a).key \in KeysOf[name[a]]

Held(a, k) ==
  /\ a \in Arns /\ versions[a] # << >>
  /\ a \in Live => k \in KeysOf[name[a]]

Good(c) ==
  /\ call[c].step \in {"upload", "create", "find", "update"} =>
       call[c].op \in Deployments /\ call[c].key \in Keys
  /\ \/ call[c].step \in {"create", "find"}
     \/ (call[c].step = "upload" /\ call[c].op = "deploy")
     => /\ call[c].op = "deploy" /\ call[c].asked \in Names
        /\ call[c].key \in KeysOf[call[c].asked]
  /\ \/ call[c].step = "update"
     \/ (call[c].step = "upload" /\ call[c].op # "deploy")
     => Held(call[c].arn, call[c].key)
  /\ call[c].step = "resolve" => call[c].op \in Lookups
  /\ call[c].step = "detail" =>
       call[c].op \in {"get", "redeploy"} /\ call[c].arn \in Arns

ServerlessInv ==
  /\ Shape
  /\ WorkflowsInv
  /\ \A c \in Calls : Good(c)
  /\ DefinitionsInStep

\* A key belongs to one name.
LEMMA KeyOfOneName ==
  ASSUME NEW n \in Names, NEW m \in Names, NEW k, k \in KeysOf[n], k \in KeysOf[m]
  PROVE  n = m
  BY ServerlessAssumption

LEMMA ServerlessInvInit == ASSUME Init PROVE ServerlessInv
  <1> USE ServerlessAssumption
  <1>1. PICK k \in [Arns -> Keys], b \in [Arns -> Bodies] : Deployed(k, b)
    BY DEF Init
  <1>2. /\ name \in [Arns -> Names \cup {NoName}]
        /\ \A x, y \in Live : x # y => name[x] # name[y]
    BY DEF Init
  <1>3. ASSUME NEW a \in Live PROVE Latest(a) = [key |-> k[a], body |-> b[a]]
    <2> DEFINE v == [key |-> k[a], body |-> b[a]]
    <2>1. versions[a] = << v >>
      BY <1>1 DEF Live, Deployed
    <2> HIDE DEF v
    <2>2. Latest(a) = v
      BY <2>1 DEF Latest
    <2> QED BY <2>2 DEF v
  <1>4. ASSUME NEW a \in Live PROVE s3[k[a]] = b[a]
    <2>1. ASSUME NEW x \in Live, k[x] = k[a] PROVE x = a
      BY <1>1, <1>2, <2>1, KeyOfOneName DEF Live, Deployed
    <2>2. (CHOOSE x \in Live : k[x] = k[a]) = a
      BY <2>1
    <2> QED BY <1>1, <2>2 DEF Live, Deployed
  <1>5. Shape
    <2>1. versions \in [Arns -> Seq(Version)]
      <3>1. \A a \in Arns : [key |-> k[a], body |-> b[a]] \in Version
        BY DEF Version, Objects
      <3>2. \A a \in Arns : << [key |-> k[a], body |-> b[a]] >> \in Seq(Version)
        BY <3>1
      <3>3. << >> \in Seq(Version)
        OBVIOUS
      <3> QED BY <1>1, <3>2, <3>3 DEF Deployed
    <2>2. s3 \in [Keys -> Objects]
      <3>1. \A key \in Keys :
              (\E a \in Live : k[a] = key) => (CHOOSE a \in Live : k[a] = key) \in Arns
        BY DEF Live
      <3> QED BY <1>1, <3>1 DEF Objects, Deployed
    <2>3. call = [c \in Calls |-> Idle]
      BY DEF Init
    <2>4. DOMAIN Idle = Fields /\ Idle.body \in Objects
      BY DEF Idle, Fields, Objects
    <2> QED BY <1>2, <2>1, <2>2, <2>3, <2>4 DEF Shape
  <1>6. WorkflowsInv
    <2>1. \A a \in Live : versions[a] # << >>
      BY <1>1 DEF Live, Deployed
    <2> QED BY <1>1, <1>2, <1>3, <2>1 DEF WorkflowsInv, Deployed
  <1>7. \A c \in Calls : Good(c)
    <2>1. \A c \in Calls : call[c].step = "new"
      BY DEF Init, Idle
    <2> QED BY <2>1 DEF Good
  <1>8. DefinitionsInStep
    BY <1>3, <1>4 DEF DefinitionsInStep
  <1> QED BY <1>5, <1>6, <1>7, <1>8 DEF ServerlessInv

-----------------------------------------------------------------------------
(***************************************************************************)
(* The steps that leave definitions and versions alone: at most they       *)
(* delete a workflow.                                                      *)
(***************************************************************************)
OnlyDeletes ==
  /\ UNCHANGED << versions, s3 >>
  /\ name' \in [Arns -> Names \cup {NoName}]
  /\ \A a \in Arns : name'[a] \in {name[a], NoName}

\* As far as the invariant looks at it, call c has not changed.
SameCall(c) ==
  /\ DOMAIN call'[c] = DOMAIN call[c]
  /\ \A f \in {"op", "asked", "body", "arn", "key", "step", "result"} :
       call'[c][f] = call[c][f]

Stays(c) == \A k : c \in Unfinished(k) => c \in Unfinished(k)'

\* What call c may do on its own.
Moves(c) ==
  /\ call' = [x \in Calls |-> call'[x]]
  /\ \A x \in Calls \ {c} : SameCall(x)
  /\ DOMAIN call'[c] = Fields /\ call'[c].body \in Objects

LEMMA CalmStep ==
  ASSUME ServerlessInv, OnlyDeletes, NEW c \in Calls, Moves(c), Good(c)', Stays(c)
  PROVE  ServerlessInv'
  <1> USE DEF ServerlessInv
  <1>1. Shape'
    BY DEF Shape, OnlyDeletes, Moves, SameCall
  <1>2. \A a \in Arns : a \in Live' => a \in Live /\ name'[a] = name[a]
    BY DEF OnlyDeletes, Live
  <1>3. Live' \subseteq Live
    BY <1>2 DEF Live
  <1>4. \A a : Latest(a)' = Latest(a)
    BY DEF Latest, OnlyDeletes
  <1>5. WorkflowsInv'
    BY <1>2, <1>3, <1>4 DEF WorkflowsInv, OnlyDeletes, Live
  <1>6. \A a, k : Held(a, k) => Held(a, k)'
    BY <1>2 DEF Held, OnlyDeletes
  <1>7. \A x \in Calls : Good(x)'
    BY <1>6 DEF Good, Moves, SameCall
  <1>8. \A x \in Calls : Stays(x)
    BY DEF Stays, Moves, SameCall, Unfinished, At
  <1>9. DefinitionsInStep'
    BY <1>3, <1>4, <1>8 DEF DefinitionsInStep, Stays, OnlyDeletes, Unfinished
  <1> QED BY <1>1, <1>5, <1>7, <1>9

-----------------------------------------------------------------------------
(***************************************************************************)
(* The calm steps, one by one.                                             *)
(***************************************************************************)
\* A step from and to where the invariant asks nothing of a call.
LEMMA SilentStep ==
  ASSUME ServerlessInv, OnlyDeletes, NEW c \in Calls,
         call[c].step \notin {"create", "find", "update", "done"},
         call' = [x \in Calls |-> call'[x]],
         \A x \in Calls \ {c} : call'[x] = call[x],
         DOMAIN call'[c] = Fields, call'[c].body \in Objects,
         call'[c].step \notin {"upload", "create", "find", "update", "resolve", "detail"}
  PROVE  ServerlessInv'
  <1>1. Moves(c)
    BY DEF Moves, SameCall
  <1>2. Good(c)'
    BY DEF Good
  <1>3. Stays(c)
    BY DEF Stays, Unfinished, At
  <1> QED BY <1>1, <1>2, <1>3, CalmStep

LEMMA LookupSteps ==
  ASSUME ServerlessInv, NEW c \in Calls,
         Resolve(c) \/ ChooseRun(c) \/ PollRun(c) \/ ListVersions(c)
           \/ FetchLatest(c) \/ FetchPrevious(c)
  PROVE  ServerlessInv'
  <1> USE DEF ServerlessInv, At, Answer
  <1>1. OnlyDeletes
    BY DEF Resolve, ChooseRun, PollRun, ListVersions, FetchLatest, FetchPrevious,
           OnlyDeletes, Shape
  <1>2. CASE Resolve(c)
    <2>1. PICK page \in FirstPages :
            \/ Answer(c, "not found")
            \/ \E a \in Matches(call[c].asked, page) :
                 call' = [call EXCEPT ![c].arn = a, ![c].step = AfterLookup(c)]
      BY <1>2 DEF Resolve
    <2>2. CASE Answer(c, "not found")
      BY <1>1, <1>2, <2>2, CalmStep
      DEF Resolve, Shape, Moves, SameCall, Fields, Good, Stays, Unfinished
    <2>3. ASSUME NEW a \in Matches(call[c].asked, page),
                 call' = [call EXCEPT ![c].arn = a, ![c].step = AfterLookup(c)]
          PROVE  ServerlessInv'
      <3>1. a \in Arns
        BY DEF FirstPages, Matches, Live
      <3>2. call[c].op \in Lookups
        BY <1>2 DEF Resolve, Good
      <3>3. /\ AfterLookup(c) \in {"detail", "start", "versions", "runs", "stop", "poll"}
            /\ AfterLookup(c) = "detail" => call[c].op \in {"get", "redeploy"}
        BY <3>2 DEF AfterLookup, Lookups
      <3>4. Moves(c)
        BY <2>3 DEF Shape, Moves, SameCall, Fields
      <3>5. Good(c)'
        BY <2>3, <3>1, <3>3 DEF Shape, Fields, Good
      <3>6. Stays(c)
        BY <1>2 DEF Resolve, Stays, Unfinished
      <3> QED BY <1>1, <3>4, <3>5, <3>6, CalmStep
    <2> QED BY <2>1, <2>2, <2>3
  <1>3. ASSUME NEW result, Answer(c, result), call[c].step \in {"poll", "versions"}
        PROVE  ServerlessInv'
    BY SilentStep, <1>1, <1>3 DEF Shape, Fields
  <1>4. CASE ChooseRun(c)
    BY SilentStep, <1>1, <1>4 DEF ChooseRun, Shape, Fields
  <1>5. CASE PollRun(c)
    <2>1. call[c].step = "poll"
      BY <1>5 DEF PollRun
    <2>2. CASE call' = [call EXCEPT ![c].polls = @ + 1]
      BY SilentStep, <1>1, <2>1, <2>2 DEF Shape, Fields
    <2>3. CASE \E result : Answer(c, result)
      BY <1>3, <2>1, <2>3
    <2> HIDE DEF Answer
    <2> QED BY <1>5, <2>2, <2>3 DEF PollRun
  <1>6. CASE ListVersions(c)
    <2>1. call[c].step = "versions"
      BY <1>6 DEF ListVersions
    <2>2. ASSUME NEW seen, call' = [call EXCEPT ![c].seen = seen, ![c].step = "latest"]
          PROVE  ServerlessInv'
      BY SilentStep, <1>1, <2>1, <2>2 DEF Shape, Fields
    <2>3. CASE \E result : Answer(c, result)
      BY <1>3, <2>1, <2>3
    <2> HIDE DEF Answer
    <2> QED BY <1>6, <2>2, <2>3 DEF ListVersions
  <1>7. CASE FetchLatest(c)
    <2>1. PICK b \in Fetched(call[c].seen[1]) :
            call' = [call EXCEPT ![c].seen[1] = b,
                       ![c].step = IF call[c].op = "get" THEN "done" ELSE "previous",
                       ![c].result = IF call[c].op = "get" THEN "shown" ELSE ""]
      BY <1>7 DEF FetchLatest
    <2>2. call'[c].step \in {"done", "previous"}
      BY <2>1 DEF Shape, Fields
    <2>3. /\ call' = [x \in Calls |-> call'[x]]
          /\ \A x \in Calls \ {c} : call'[x] = call[x]
      BY <2>1 DEF Shape
    <2>4. DOMAIN call'[c] = Fields /\ call'[c].body \in Objects
      BY <2>1 DEF Shape, Fields
    <2> QED BY SilentStep, <1>1, <1>7, <2>2, <2>3, <2>4 DEF FetchLatest
  <1>8. CASE FetchPrevious(c)
    <2>1. PICK b \in Fetched(call[c].seen[2]) :
            call' = [call EXCEPT ![c].seen[2] = b, ![c].step = "done",
                                 ![c].result = Diff(call[c].seen[1], b)]
      BY <1>8 DEF FetchPrevious
    <2>2. call'[c].step = "done"
      BY <2>1 DEF Shape, Fields
    <2>3. /\ call' = [x \in Calls |-> call'[x]]
          /\ \A x \in Calls \ {c} : call'[x] = call[x]
      BY <2>1 DEF Shape
    <2>4. DOMAIN call'[c] = Fields /\ call'[c].body \in Objects
      BY <2>1 DEF Shape, Fields
    <2> QED BY SilentStep, <1>1, <1>8, <2>2, <2>3, <2>4 DEF FetchPrevious
  <1> QED BY <1>2, <1>4, <1>5, <1>6, <1>7, <1>8


LEMMA DetailStep ==
  ASSUME ServerlessInv, NEW c \in Calls, Detail(c)
  PROVE  ServerlessInv'
  <1> USE DEF ServerlessInv, At, Answer
  <1>1. OnlyDeletes
    BY DEF Detail, OnlyDeletes, Shape
  <1>2. /\ call[c].step = "detail"
        /\ call[c].op \in {"get", "redeploy"} /\ call[c].arn \in Arns
    BY DEF Detail, Good
  <1>3. CASE Answer(c, "error")
    BY SilentStep, <1>1, <1>2, <1>3 DEF Shape, Fields
  <1>4. CASE call' = [call EXCEPT ![c].step = "latest",
                                  ![c].seen = << Latest(call[c].arn).key >>]
    BY SilentStep, <1>1, <1>2, <1>4 DEF Shape, Fields
  <1>5. ASSUME call[c].op # "get", call[c].arn \in Live,
               NEW k \in {Latest(call[c].arn).key} \cup KeysOf[name[call[c].arn]],
               call' = [call EXCEPT ![c].step = "upload", ![c].key = k]
        PROVE  ServerlessInv'
    <2>1. versions[call[c].arn] # << >> /\ k \in KeysOf[name[call[c].arn]]
      BY <1>5 DEF WorkflowsInv
    <2>2. name[call[c].arn] \in Names
      BY <1>5 DEF Live, Shape
    <2>3. k \in Keys
      BY <2>1, <2>2, ServerlessAssumption
    <2>4. Moves(c)
      BY <1>5 DEF Shape, Moves, SameCall, Fields
    <2>5. /\ call'[c].step = "upload" /\ call'[c].key = k
          /\ call'[c].op = "redeploy" /\ call'[c].arn = call[c].arn
      BY <1>2, <1>5 DEF Shape, Fields
    <2>6. \A a : a = call[c].arn => Held(a, k)'
      BY <1>1, <1>2, <2>1 DEF Held, OnlyDeletes, Live
    <2>7. Good(c)'
      BY <2>3, <2>5, <2>6 DEF Good, Deployments, Held
    <2>8. Stays(c)
      BY <1>2 DEF Stays, Unfinished
    <2> QED BY <1>1, <2>4, <2>7, <2>8, CalmStep
  <1> QED BY <1>3, <1>4, <1>5 DEF Detail

LEMMA RunSteps ==
  ASSUME ServerlessInv, NEW c \in Calls, StartRun(c) \/ StopRun(c)
  PROVE  ServerlessInv'
  <1> USE DEF ServerlessInv, At, Answer
  <1>1. OnlyDeletes
    BY DEF StartRun, StopRun, OnlyDeletes, Shape
  <1>2. call[c].step \in {"start", "stop"}
    BY DEF StartRun, StopRun
  <1>3. ASSUME NEW result, Answer(c, result) PROVE ServerlessInv'
    BY SilentStep, <1>1, <1>2, <1>3 DEF Shape, Fields
  <1>4. ASSUME NEW i,
               call' = [call EXCEPT ![c] = [@ EXCEPT !.step = "done",
                                              !.result = "STARTED", !.run = i]]
        PROVE  ServerlessInv'
    BY SilentStep, <1>1, <1>2, <1>4 DEF Shape, Fields
  <1>5. ASSUME call' = [call EXCEPT ![c] = Proceed(c, FALSE, "done")]
        PROVE  ServerlessInv'
    BY SilentStep, <1>1, <1>2, <1>5 DEF Shape, Fields, Proceed
  <1> QED BY <1>3, <1>4, <1>5 DEF StartRun, StopRun

LEMMA ScanSteps ==
  ASSUME ServerlessInv, NEW c \in Calls,
         List(c) \/ EndScan(c) \/ Delete(c) \/ \E a \in Arns : Inspect(c, a)
  PROVE  ServerlessInv'
  <1> USE DEF ServerlessInv, At, Answer
  <1>1. OnlyDeletes
    BY DEF List, EndScan, Delete, Inspect, OnlyDeletes, Shape
  <1>2. call[c].step \in {"list", "scan", "delete"}
    BY DEF List, EndScan, Delete, Inspect
  <1>3. CASE List(c)
    <2>1. PICK page :
            LET fitting == {a \in page : NameFits(call[c].asked, a)} IN
            call' = IF call[c].op = "list"
                    THEN [call EXCEPT ![c].step = "done", ![c].result = "report",
                                      ![c].report = fitting]
                    ELSE [call EXCEPT ![c].step = "scan", ![c].todo = fitting]
      BY <1>3 DEF List
    <2> DEFINE fitting == {a \in page : NameFits(call[c].asked, a)}
    <2>2. \/ call' = [call EXCEPT ![c].step = "done", ![c].result = "report",
                                  ![c].report = fitting]
          \/ call' = [call EXCEPT ![c].step = "scan", ![c].todo = fitting]
      BY <2>1
    <2> HIDE DEF fitting
    <2>3. /\ call' = [x \in Calls |-> call'[x]]
          /\ \A x \in Calls \ {c} : call'[x] = call[x]
      BY <2>2 DEF Shape
    <2>4. /\ DOMAIN call'[c] = Fields /\ call'[c].body \in Objects
          /\ call'[c].step \in {"done", "scan"}
      BY <2>2 DEF Shape, Fields
    <2> QED BY SilentStep, <1>1, <1>2, <2>3, <2>4
  <1>4. CASE EndScan(c)
    BY SilentStep, <1>1, <1>2, <1>4 DEF EndScan, Shape, Fields
  <1>5. CASE Delete(c)
    BY SilentStep, <1>1, <1>2, <1>5 DEF Delete, Shape, Fields
  <1>6. ASSUME NEW a \in Arns, Inspect(c, a) PROVE ServerlessInv'
    <2>1. PICK ok \in Answers :
            call' = [call EXCEPT ![c].todo = @ \ {a},
                       ![c].hurt = @ \/ ~ok,
                       ![c].report = @ \cup IF call[c].op = "bulk" \/ (ok /\ a \in Live)
                                           THEN Row(c, a) ELSE {}]
      BY <1>6 DEF Inspect
    <2>2. /\ call' = [x \in Calls |-> call'[x]]
          /\ \A x \in Calls \ {c} : call'[x] = call[x]
      BY <2>1 DEF Shape
    <2>3. /\ DOMAIN call'[c] = Fields /\ call'[c].body \in Objects
          /\ call'[c].step = call[c].step
      BY <2>1 DEF Shape, Fields
    <2> QED BY SilentStep, <1>1, <1>2, <2>2, <2>3
  <1> QED BY <1>3, <1>4, <1>5, <1>6

LEMMA FailsStep ==
  ASSUME ServerlessInv, NEW c \in Calls, Fails(c)
  PROVE  ServerlessInv'
  <1> USE DEF ServerlessInv, At, Answer, Fails
  <1>1. OnlyDeletes
    BY DEF OnlyDeletes, Shape
  <1>2. Moves(c)
    BY DEF Shape, Moves, SameCall, Fields
  <1>3. call'[c].step = "done" /\ call'[c].result = "error"
        /\ call'[c].op = call[c].op /\ call'[c].key = call[c].key
    BY DEF Shape, Fields
  <1>4. Good(c)'
    BY <1>3 DEF Good
  <1>5. Stays(c)
    BY <1>3 DEF Stays, Unfinished
  <1> QED BY <1>1, <1>2, <1>4, <1>5, CalmStep

LEMMA FindStep ==
  ASSUME ServerlessInv, NEW c \in Calls, FindExisting(c)
  PROVE  ServerlessInv'
  <1> USE DEF ServerlessInv, At, Answer
  <1>1. OnlyDeletes
    BY DEF FindExisting, OnlyDeletes, Shape
  <1>2. /\ call[c].step = "find"
        /\ call[c].op = "deploy" /\ call[c].key \in Keys
        /\ call[c].key \in KeysOf[call[c].asked]
    <2>1. call[c].step = "find"
      BY DEF FindExisting
    <2>2. Good(c)
      OBVIOUS
    <2>3. call[c].op = "deploy" /\ call[c].key \in KeysOf[call[c].asked]
      BY <2>1, <2>2 DEF Good
    <2>4. call[c].key \in Keys
      BY <2>1, <2>2 DEF Good
    <2> QED BY <2>1, <2>3, <2>4
  <1>3. CASE Answer(c, "conflict")
    <2>1. Moves(c)
      BY <1>3 DEF Shape, Moves, SameCall, Fields
    <2>2. call'[c].step = "done" /\ call'[c].result = "conflict"
          /\ call'[c].op = call[c].op /\ call'[c].key = call[c].key
      BY <1>3 DEF Shape, Fields
    <2>3. Good(c)' /\ Stays(c)
      BY <2>2 DEF Good, Stays, Unfinished
    <2> QED BY <1>1, <2>1, <2>3, CalmStep
  <1>4. ASSUME NEW a \in Live, name[a] = call[c].asked,
               call' = [call EXCEPT ![c].arn = a, ![c].step = "update"]
        PROVE  ServerlessInv'
    <2>1. Moves(c)
      BY <1>4 DEF Shape, Moves, SameCall, Fields
    <2>2. call'[c].step = "update" /\ call'[c].arn = a
          /\ call'[c].op = call[c].op /\ call'[c].key = call[c].key
      BY <1>4 DEF Shape, Fields
    <2>3. \A k : k = call[c].key => Held(a, k)'
      BY <1>2, <1>4 DEF FindExisting, Held, WorkflowsInv, Live
    <2>4. Good(c)'
      BY <1>2, <2>2, <2>3 DEF Good, Held, Deployments
    <2>5. Stays(c)
      BY <2>2 DEF Stays, Unfinished
    <2> QED BY <1>1, <2>1, <2>4, <2>5, CalmStep
  <1>5. PICK page \in FirstPages :
          LET existing == {a \in page : name[a] = call[c].asked} IN
          IF existing = {}
          THEN Answer(c, "conflict")
          ELSE call' = [call EXCEPT ![c].arn = CHOOSE a \in existing : TRUE,
                                    ![c].step = "update"]
    BY DEF FindExisting
  <1>6. page \subseteq Live
    BY DEF FirstPages
  <1> DEFINE existing == {a \in page : name[a] = call[c].asked}
  <1>7. CASE existing = {}
    BY <1>3, <1>5, <1>7
  <1>8. CASE existing # {}
    <2> DEFINE a == CHOOSE x \in existing : TRUE
    <2>1. a \in existing
      BY <1>8
    <2>2. call' = [call EXCEPT ![c].arn = a, ![c].step = "update"]
      BY <1>5, <1>8
    <2>3. a \in Live /\ name[a] = call[c].asked
      BY <2>1, <1>6
    <2> HIDE DEF a
    <2> QED BY <1>4, <2>2, <2>3
  <1> QED BY <1>7, <1>8

-----------------------------------------------------------------------------
(***************************************************************************)
(* The steps of a deployment that do touch definitions and versions.       *)
(***************************************************************************)
LEMMA BeginStep ==
  ASSUME ServerlessInv, NEW c \in Calls, NEW op \in Ops, Begin(c, op)
  PROVE  ServerlessInv'
  <1> USE DEF ServerlessInv
  <1>1. OnlyDeletes
    BY DEF Begin, OnlyDeletes, Shape
  <1>2. PICK n \in (IF op = "deploy" THEN Names ELSE Asked),
             b \in (IF op \in Deployments THEN Bodies ELSE {NoBody}),
             k \in Keys \cup {NoKey},
             d \in (IF op = "delete" THEN BOOLEAN ELSE {FALSE}),
             i \in (IF op = "delete" THEN BOOLEAN ELSE {FALSE}),
             r \in (IF op \in {"status", "poll", "stop"} THEN 0 .. Len(runs) ELSE {0}) :
          /\ IF op = "deploy" THEN k \in KeysOf[n] ELSE k = NoKey
          /\ call' = [x \in Calls |->
               IF x = c
               THEN [Idle EXCEPT !.op = op, !.asked = n, !.body = b, !.key = k,
                                 !.dry = d, !.idle = i, !.run = r,
                                 !.step = FirstStep(op), !.owed = Owed(op),
                                 !.rivals = IF op \in Deployments
                                            THEN {call[y].body : y \in Rivals} ELSE {}]
               ELSE IF op \in Deployments /\ x \in Rivals
                    THEN [call[x] EXCEPT !.rivals = @ \cup {b}]
                    ELSE call[x]]
    BY DEF Begin
  <1>3. DOMAIN Idle = Fields
    BY DEF Idle, Fields
  <1>4. /\ call'[c].op = op /\ call'[c].asked = n /\ call'[c].body = b
        /\ call'[c].key = k /\ call'[c].step = FirstStep(op)
        /\ DOMAIN call'[c] = Fields
    BY <1>2, <1>3 DEF Fields
  <1>5. b \in Objects
    BY DEF Objects
  <1>6. \A x \in Calls \ {c} : SameCall(x)
    BY <1>2 DEF SameCall, Shape, Fields
  <1>7. Moves(c)
    BY <1>2, <1>4, <1>5, <1>6 DEF Moves
  <1>8. /\ op = "deploy" => FirstStep(op) = "upload"
        /\ op # "deploy" => FirstStep(op) \in {"resolve", "list"}
        /\ FirstStep(op) = "resolve" => op \in Lookups
    BY ServerlessAssumption DEF FirstStep, Deployments, Scans, Lookups
  <1>9. op = "deploy" => n \in Names /\ k \in KeysOf[n] /\ k \in Keys
    BY <1>2, ServerlessAssumption
  <1>10. Good(c)'
    BY <1>4, <1>8, <1>9 DEF Good, Deployments
  <1>11. Stays(c)
    BY DEF Begin, At, Stays, Unfinished
  <1> QED BY <1>1, <1>7, <1>10, <1>11, CalmStep

LEMMA UploadStep ==
  ASSUME ServerlessInv, NEW c \in Calls, Upload(c)
  PROVE  ServerlessInv'
  <1> USE DEF ServerlessInv, At
  <1>1. /\ call[c].step = "upload"
        /\ s3' = [s3 EXCEPT ![call[c].key] = call[c].body]
        /\ UNCHANGED << name, versions >>
    BY DEF Upload
  <1>2. Good(c)
    OBVIOUS
  <1>3. call[c].op \in Deployments /\ call[c].key \in Keys
    BY <1>1, <1>2 DEF Good
  <1>4. PICK next \in {"create", "update"}, ok \in Answers :
          /\ next = IF call[c].op = "deploy" THEN "create" ELSE "update"
          /\ call' = [call EXCEPT ![c] = Proceed(c, ok, next)]
    BY DEF Upload
  <1>5. /\ call'[c].op = call[c].op /\ call'[c].key = call[c].key
        /\ call'[c].asked = call[c].asked /\ call'[c].arn = call[c].arn
        /\ \/ call'[c].step = next
           \/ call'[c].step = "done" /\ call'[c].result = "error"
    BY <1>4 DEF Proceed, Shape, Fields
  <1>6. Moves(c)
    BY <1>4 DEF Proceed, Shape, Fields, Moves, SameCall
  <1>7. Shape'
    BY <1>1, <1>6 DEF Shape, Moves, SameCall
  <1>8. Live' = Live /\ \A a : Latest(a)' = Latest(a)
    BY <1>1 DEF Live, Latest
  <1>9. WorkflowsInv'
    BY <1>1, <1>8 DEF WorkflowsInv
  <1>10. \A a, k : Held(a, k)' <=> Held(a, k)
    BY <1>1, <1>8 DEF Held
  <1>11. Good(c)'
    BY <1>1, <1>2, <1>3, <1>4, <1>5, <1>10 DEF Good, Deployments
  <1>12. \A x \in Calls \ {c} : Good(x)'
    BY <1>6, <1>10 DEF Good, Moves, SameCall
  <1>13. \A k : k = call[c].key => c \in Unfinished(k)'
    BY <1>3, <1>4, <1>5 DEF Unfinished
  <1>14. \A x \in Calls : Stays(x)
    BY <1>1, <1>6 DEF Stays, Moves, SameCall, Unfinished
  <1>15. ASSUME NEW a \in Live, NEW k, k = Latest(a).key, Unfinished(k)' = {}
         PROVE  s3'[k] = Latest(a).body
    <2>1. k # call[c].key
      BY <1>13, <1>15
    <2>2. Unfinished(k) = {}
      BY <1>14, <1>15 DEF Stays, Unfinished
    <2>3. s3[k] = Latest(a).body
      BY <1>15, <2>2 DEF DefinitionsInStep
    <2>4. s3'[k] = s3[k]
      BY <1>1, <2>1 DEF Shape
    <2> QED BY <2>3, <2>4
  <1>16. DefinitionsInStep'
    BY <1>8, <1>15 DEF DefinitionsInStep
  <1> QED BY <1>7, <1>9, <1>11, <1>12, <1>16


\* A version is made under a key of workflow a's name, by a step that lets the
\* call that held it go on.
LEMMA NewVersionStep ==
  ASSUME ServerlessInv, NEW c \in Calls, NEW a \in Arns, NEW n \in Names,
         call[c].key \in Keys, call[c].key \in KeysOf[n],
         \A b \in Live \ {a} : name[b] # n,
         a \in Live => name[a] = n,
         a \notin Live => versions[a] = << >>,
         name' = [name EXCEPT ![a] = n],
         versions' = [versions EXCEPT ![a] = Append(versions[a], NewVersion(c))],
         UNCHANGED s3, Moves(c), call'[c].step \in {"start", "done"}
  PROVE  ServerlessInv'
  <1> USE DEF ServerlessInv
  <1> DEFINE k == call[c].key
             v == NewVersion(c)
  <1>1. v \in Version /\ v.key = k /\ v.body = s3[k]
    BY DEF NewVersion, Version, Shape
  <1> HIDE DEF v
  <1>2. versions[a] \in Seq(Version)
    BY DEF Shape
  <1>3. /\ Append(versions[a], v) \in Seq(Version)
        /\ Append(versions[a], v) # << >>
        /\ Append(versions[a], v)[Len(Append(versions[a], v))] = v
    BY <1>1, <1>2
  <1>4. versions'[a] = Append(versions[a], v)
        /\ \A b \in Arns \ {a} : versions'[b] = versions[b]
    BY DEF Shape, v
  <1>5. /\ Latest(a)' = v
        /\ \A b \in Arns \ {a} : Latest(b)' = Latest(b)
    BY <1>3, <1>4 DEF Latest
  <1>6. /\ name'[a] = n
        /\ \A b \in Arns \ {a} : name'[b] = name[b]
        /\ name' \in [Arns -> Names \cup {NoName}]
    BY DEF Shape
  <1>7. /\ Live' = Live \cup {a}
        /\ Live \subseteq Arns
    BY <1>6, ServerlessAssumption DEF Live
  <1>8. Shape'
    <2>1. versions' \in [Arns -> Seq(Version)]
      BY <1>3 DEF Shape, v
    <2> QED BY <1>6, <2>1 DEF Shape, Moves, SameCall
  <1>9. WorkflowsInv'
    <2>1. ASSUME NEW x \in Live', NEW y \in Live', x # y PROVE name'[x] # name'[y]
      BY <1>6, <1>7, <2>1 DEF WorkflowsInv
    <2>2. ASSUME NEW x \in Live'
          PROVE  versions'[x] # << >> /\ Latest(x)'.key \in KeysOf[name'[x]]
      <3>1. CASE x = a
        BY <1>1, <1>3, <1>4, <1>5, <1>6, <3>1
      <3>2. CASE x # a
        BY <1>4, <1>5, <1>6, <1>7, <3>2 DEF WorkflowsInv
      <3> QED BY <3>1, <3>2
    <2> QED BY <2>1, <2>2 DEF WorkflowsInv
  <1>10. ASSUME NEW b, NEW h, Held(b, h) PROVE Held(b, h)'
    <2>1. CASE b = a
      BY <1>3, <1>4, <1>6, <1>10, <2>1 DEF Held
    <2>2. CASE b # a
      BY <1>4, <1>6, <1>7, <1>10, <2>2 DEF Held
    <2> QED BY <2>1, <2>2
  <1>11. \A x \in Calls : Good(x)'
    <2>1. Good(c)'
      BY DEF Good
    <2>2. ASSUME NEW x \in Calls \ {c} PROVE Good(x)'
      BY <1>10 DEF Good, Moves, SameCall
    <2> QED BY <2>1, <2>2
  <1>12. DefinitionsInStep'
    <2> SUFFICES ASSUME NEW b \in Live', NEW h, h = Latest(b)'.key, Unfinished(h)' = {}
                 PROVE  s3'[h] = Latest(b)'.body
      BY DEF DefinitionsInStep
    <2>1. CASE b = a
      BY <1>1, <1>5, <2>1
    <2>2. CASE b # a
      <3>1. b \in Live /\ name[b] # n /\ Latest(b)' = Latest(b)
        BY <1>5, <1>7, <2>2
      <3>2. h \in KeysOf[name[b]] /\ name[b] \in Names
        BY <3>1 DEF WorkflowsInv, Live, Shape
      <3>3. h # k
        BY <3>1, <3>2, KeyOfOneName
      <3>4. Unfinished(h) = {}
        BY <3>3 DEF Unfinished, At, Moves, SameCall
      <3> QED BY <3>1, <3>4 DEF DefinitionsInStep
    <2> QED BY <2>1, <2>2
  <1> QED BY <1>8, <1>9, <1>11, <1>12

LEMMA CreateStep ==
  ASSUME ServerlessInv, NEW c \in Calls, Create(c)
  PROVE  ServerlessInv'
  <1> USE DEF ServerlessInv, At
  <1>1. call[c].step = "create" /\ UNCHANGED s3
    BY DEF Create
  <1>2. Good(c)
    OBVIOUS
  <1>3. /\ call[c].op = "deploy" /\ call[c].key \in Keys
        /\ call[c].asked \in Names /\ call[c].key \in KeysOf[call[c].asked]
    BY <1>1, <1>2 DEF Good
  <1>4. CASE /\ call' = [call EXCEPT ![c].step = "find"]
             /\ UNCHANGED << name, versions >>
    <2>1. OnlyDeletes
      BY <1>1, <1>4 DEF OnlyDeletes, Shape
    <2>2. Moves(c)
      BY <1>4 DEF Shape, Moves, SameCall, Fields
    <2>3. /\ call'[c].step = "find" /\ call'[c].op = call[c].op
          /\ call'[c].key = call[c].key /\ call'[c].asked = call[c].asked
      BY <1>4 DEF Shape, Fields
    <2>4. Good(c)' /\ Stays(c)
      BY <1>3, <2>3 DEF Good, Stays, Unfinished, Deployments
    <2> QED BY <2>1, <2>2, <2>4, CalmStep
  <1>5. ASSUME \A b \in Live : name[b] # call[c].asked,
               NEW a \in Arns, name[a] = NoName, versions[a] = << >>,
               name' = [name EXCEPT ![a] = call[c].asked],
               versions' = [versions EXCEPT ![a] = << NewVersion(c) >>],
               NEW ok \in Answers,
               call' = [call EXCEPT ![c] = [Proceed(c, ok, "start") EXCEPT !.arn = a]]
        PROVE  ServerlessInv'
    <2>1. Moves(c)
      BY <1>5 DEF Shape, Moves, SameCall, Fields, Proceed
    <2>2. call'[c].step \in {"start", "done"}
      BY <1>5 DEF Shape, Fields, Proceed
    <2>3. << NewVersion(c) >> = Append(versions[a], NewVersion(c))
      BY <1>5
    <2>4. a \notin Live
      BY <1>5 DEF Live
    <2> QED BY <1>1, <1>3, <1>5, <2>1, <2>2, <2>3, <2>4, NewVersionStep
  <1> QED BY <1>4, <1>5 DEF Create

LEMMA UpdateStep ==
  ASSUME ServerlessInv, NEW c \in Calls, UpdateWorkflow(c)
  PROVE  ServerlessInv'
  <1> USE DEF ServerlessInv, At
  <1>1. call[c].step = "update" /\ UNCHANGED << name, s3 >>
    BY DEF UpdateWorkflow
  <1>2. Good(c)
    OBVIOUS
  <1>3. call[c].op \in Deployments /\ call[c].key \in Keys
        /\ Held(call[c].arn, call[c].key)
    BY <1>1, <1>2 DEF Good
  <1>4. CASE Answer(c, "error") /\ UNCHANGED versions
    <2>1. OnlyDeletes
      BY <1>1, <1>4 DEF OnlyDeletes, Shape
    <2>2. Moves(c)
      BY <1>4 DEF Answer, Shape, Moves, SameCall, Fields
    <2>3. /\ call'[c].step = "done" /\ call'[c].result = "error"
          /\ call'[c].op = call[c].op /\ call'[c].key = call[c].key
      BY <1>4 DEF Answer, Shape, Fields
    <2>4. Good(c)' /\ Stays(c)
      BY <2>3 DEF Good, Stays, Unfinished
    <2> QED BY <2>1, <2>2, <2>4, CalmStep
  <1>5. ASSUME NEW a \in Live, a = call[c].arn,
               versions' = [versions EXCEPT ![a] = Append(@, NewVersion(c))],
               NEW ok \in Answers,
               call' = [call EXCEPT ![c] = Proceed(c, ok, "start")]
        PROVE  ServerlessInv'
    <2>1. Moves(c)
      BY <1>5 DEF Shape, Moves, SameCall, Fields, Proceed
    <2>2. call'[c].step \in {"start", "done"}
      BY <1>5 DEF Shape, Fields, Proceed
    <2>3. a \in Arns /\ name[a] \in Names /\ call[c].key \in KeysOf[name[a]]
      BY <1>3, <1>5 DEF Held, Live, Shape
    <2>4. \A b \in Live \ {a} : name[b] # name[a]
      BY <1>5 DEF WorkflowsInv
    <2>5. name' = [name EXCEPT ![a] = name[a]]
      BY <1>1, <2>3 DEF Shape
    <2>6. versions' = [versions EXCEPT ![a] = Append(versions[a], NewVersion(c))]
      BY <1>5
    <2> QED BY <1>1, <1>3, <1>5, <2>1, <2>2, <2>3, <2>4, <2>5, <2>6, NewVersionStep
  <1> QED BY <1>4, <1>5 DEF UpdateWorkflow

LEMMA ServerlessInvPreserved ==
  ASSUME ServerlessInv, [Next]_vars
  PROVE  ServerlessInv'
  <1>1. ASSUME NEW c \in Calls, CallStep(c) PROVE ServerlessInv'
    BY <1>1, LookupSteps, DetailStep, UploadStep, CreateStep, FindStep, UpdateStep,
       RunSteps, ScanSteps, FailsStep DEF CallStep
  <1>2. CASE UNCHANGED << name, versions, s3, call >>
    <2>1. Live' = Live /\ \A a : Latest(a)' = Latest(a)
      BY <1>2 DEF Live, Latest
    <2>2. \A k : Unfinished(k)' = Unfinished(k)
      BY <1>2 DEF Unfinished, At
    <2> QED BY <1>2, <2>1, <2>2
        DEF ServerlessInv, Shape, WorkflowsInv, Good, Held, DefinitionsInStep
  <1>3. ASSUME NEW i \in DOMAIN runs, RunEnds(i) PROVE ServerlessInv'
    BY <1>2, <1>3 DEF RunEnds
  <1>4. CASE UNCHANGED vars
    BY <1>2, <1>4 DEF vars
  <1> QED BY <1>1, <1>3, <1>4, BeginStep DEF Next

LEMMA ServerlessInvariant == Spec => []ServerlessInv
  BY ServerlessInvInit, ServerlessInvPreserved, PTL DEF Spec

\* However many deployments interleave, whichever call raises or loses its
\* answer, and whatever is deleted meanwhile: a workflow whose key no deployment
\* is at work on, or gave up on, has in S3 the definition of its latest version.
THEOREM DefinitionsKept == Spec => []DefinitionsInStep
  <1>1. ServerlessInv => DefinitionsInStep
    BY DEF ServerlessInv
  <1> QED BY <1>1, ServerlessInvariant, PTL

=============================================================================
