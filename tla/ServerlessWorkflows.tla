------------------------ MODULE ServerlessWorkflows ------------------------
(***************************************************************************)
(* The tools of the MWAA Serverless MCP server that act on workflows       *)
(* (serverless/mcp/src/operations.py), called by several people at once.   *)
(* A tool is a sequence of calls of Amazon MWAA Serverless and Amazon S3;  *)
(* each such call is one step here, and the steps of different tools       *)
(* interleave.  What lasts is kept by the two services.                    *)
(*                                                                         *)
(* The service takes the definition from S3 when a version is made; a run  *)
(* executes the latest version of its workflow.                            *)
(***************************************************************************)
EXTENDS Naturals, Sequences, FiniteSets

CONSTANTS
  Calls,     \* the tool calls, each made once
  Ops,       \* the tools they may be calls of
  Arns,      \* identifiers of workflows, never used twice
  Names,     \* names of workflows
  Asked,     \* names a caller may give: names of workflows and parts of them
  Contains,  \* << n, m >>: the name m contains n, case ignored
  Keys,      \* keys in the bucket of definitions
  KeysOf,    \* KeysOf[n]: the keys callers use for workflow n, workflows/n.yaml
             \* first of all
  Bodies,    \* YAML definitions
  NoArn, NoName, NoKey, NoBody,
  EarlierRuns, \* state of a run made earlier, and whether it counts as recent
  PageSize,  \* how many workflows one call of list_workflows returns
  MaxRuns,   \* bound on the runs of all workflows
  MaxPolls,  \* polls that fit in max_seconds
  MayFail    \* TRUE: calls of a service may raise, with or without effect

Deployments == {"deploy", "redeploy"}
Scans == {"delete", "failed", "list_runs", "list", "bulk"}
Lookups == {"redeploy", "start", "status", "poll", "stop", "get", "compare"}

ASSUME ServerlessAssumption ==
  /\ Ops \subseteq Deployments \cup Scans \cup Lookups
  /\ NoArn \notin Arns /\ NoName \notin Names
  /\ NoKey \notin Keys /\ NoBody \notin Bodies
  /\ Names \subseteq Asked /\ Ops # {} /\ Asked # {}
  /\ KeysOf \in [Names -> SUBSET Keys]
  /\ \A n, m \in Names : n # m => KeysOf[n] \cap KeysOf[m] = {}
  /\ EarlierRuns \subseteq {"RUNNING", "SUCCESS", "FAILED"} \X BOOLEAN
  /\ PageSize \in Nat /\ MaxRuns \in Nat /\ MaxPolls \in Nat
  /\ MayFail \in BOOLEAN

VARIABLES
  name,      \* name[a]: the name of workflow a, NoName if there is none
  versions,  \* versions[a]: its versions, oldest first
  s3,        \* s3[k]: the object under key k
  runs,      \* the runs of all workflows, oldest first
  call       \* call[c]: the progress of a tool call

vars == << name, versions, s3, runs, call >>

Live == {a \in Arns : name[a] # NoName}
Latest(a) == versions[a][Len(versions[a])]

\* Broken: a run that is being stopped counts as ended.
TerminalOnceStopping == {"SUCCESS", "FAILED", "STOPPING", "STOPPED", "TIMEOUT"}

TerminalStates == {"SUCCESS", "FAILED", "STOPPED", "TIMEOUT"}

\* RUNNING stands for STARTING and QUEUED too, which the tools treat alike, and
\* FAILED for TIMEOUT.
RunStates == {"RUNNING", "STOPPING", "SUCCESS", "FAILED", "STOPPED"}

Objects == Bodies \cup {NoBody}
Version == [key : Keys, body : Objects]
Run == [arn : Arns, body : Objects, state : RunStates, recent : BOOLEAN]

Steps ==
  {"new", "resolve", "detail", "upload", "create", "find", "update", "start",
   "runs", "poll", "stop", "versions", "latest", "previous", "list", "scan",
   "delete", "done"}

\* What a tool answers; "" before it does.
Results ==
  RunStates \cup
  {"", "error", "not found", "conflict", "STARTED", "no runs", "still running",
   "completed", "only one version", "shown", "could not retrieve", "no changes",
   "diff", "report", "deleted"}

\* A tool call: what was asked, the step it is at, what it read so far, and what
\* it answered.  owed and rivals are history: what a scan owes its caller, the
\* definitions of the deployments this one overlaps with.
CallStates ==
  [op : Ops, asked : Asked, body : Objects, dry : BOOLEAN, idle : BOOLEAN,
   step : Steps, arn : Arns \cup {NoArn}, key : Keys \cup {NoKey},
   run : 0 .. MaxRuns, polls : 0 .. MaxPolls,
   todo : SUBSET Arns, report : SUBSET (Arns \cup 1 .. MaxRuns),
   seen : Seq(Objects \cup Keys), hurt : BOOLEAN, result : Results,
   owed : SUBSET (Arns \cup 1 .. MaxRuns), rivals : SUBSET Bodies]

TypeOK ==
  /\ name \in [Arns -> Names \cup {NoName}]
  /\ versions \in [Arns -> Seq(Version)]
  /\ s3 \in [Keys -> Objects]
  /\ runs \in Seq(Run) /\ Len(runs) <= MaxRuns
  /\ call \in [Calls -> CallStates]

Idle ==
  [op |-> CHOOSE o \in Ops : TRUE, asked |-> CHOOSE n \in Asked : TRUE,
   body |-> NoBody, dry |-> FALSE, idle |-> FALSE, step |-> "new", arn |-> NoArn,
   key |-> NoKey, run |-> 0, polls |-> 0, todo |-> {}, report |-> {},
   seen |-> << >>, hurt |-> FALSE, result |-> "", owed |-> {}, rivals |-> {}]

\* Workflow a was deployed under key k[a] with definition b[a], and perhaps ran.
Deployed(k, b) ==
  /\ \A a \in Live : k[a] \in KeysOf[name[a]]
  /\ versions = [a \in Arns |-> IF a \in Live
                                THEN << [key |-> k[a], body |-> b[a]] >>
                                ELSE << >>]
  /\ s3 = [key \in Keys |->
             IF \E a \in Live : k[a] = key
             THEN b[CHOOSE a \in Live : k[a] = key] ELSE NoBody]
  /\ runs \in {<< >>} \cup
       {<< [arn |-> a, body |-> b[a], state |-> e[1], recent |-> e[2]] >> :
          a \in Live, e \in EarlierRuns}

\* Any workflows deployed earlier, each with one version and perhaps an old run.
Init ==
  /\ name \in [Arns -> Names \cup {NoName}]
  /\ \A a, b \in Live : a # b => name[a] # name[b]
  /\ \E k \in [Arns -> Keys], b \in [Arns -> Bodies] : Deployed(k, b)
  /\ Len(runs) <= MaxRuns
  /\ call = [c \in Calls |-> Idle]

-----------------------------------------------------------------------------
(***************************************************************************)
(* Parts of the tools.  A call of a service that raises may have had its   *)
(* effect: ok says whether its answer arrived.                             *)
(***************************************************************************)
InProgress(c) == call[c].step \notin {"new", "done"}

At(c, step) == call[c].step = step

\* Go on to the next step, or answer with an error if the answer was lost.
Proceed(c, ok, next) ==
  IF ok THEN [call[c] EXCEPT !.step = next]
        ELSE [call[c] EXCEPT !.step = "done", !.result = "error"]

Answer(c, result) ==
  call' = [call EXCEPT ![c].step = "done", ![c].result = result]

Answers == IF MayFail THEN BOOLEAN ELSE {TRUE}

\* list_workflows, without its paginator: some first page.
FirstPages ==
  {p \in SUBSET Live :
     \/ p = Live /\ Cardinality(p) <= PageSize
     \/ Cardinality(p) = PageSize}

NameFits(n, a) == name[a] = n \/ << n, name[a] >> \in Contains

\* Broken: a workflow whose name contains the one asked for is as good.
AnyMatch(n, page) == {a \in page : NameFits(n, a)}

\* A workflow of exactly this name, or else those whose names contain it, of
\* which the tools take the first.
Matches(n, page) ==
  LET exact == {a \in page : name[a] = n}
  IN  IF exact # {} THEN exact ELSE {a \in page : NameFits(n, a)}

\* The newest run in a set of runs (the numbers are in the order of creation).
Newest(S) == CHOOSE i \in S : \A j \in S : j <= i

RunsOf(a) == {i \in DOMAIN runs : runs[i].arn = a}
ActiveRunsOf(a) == {i \in RunsOf(a) : runs[i].state = "RUNNING"}

-----------------------------------------------------------------------------
(***************************************************************************)
(* A call begins.  owed is what a report must mention, or a deletion must  *)
(* spare.                                                                  *)
(***************************************************************************)
\* Broken: the lookup is a step the tools do not have.
FirstStepMisnamed(op) ==
  IF op = "deploy" THEN "upload" ELSE IF op \in Lookups THEN "lookup" ELSE "list"

FirstStep(op) ==
  CASE op = "deploy" -> "upload"
    [] op \in Lookups -> "resolve"
    [] op \in Scans -> "list"

Owed(op) ==
  CASE op = "delete" -> {a \in Live : \E i \in RunsOf(a) : runs[i].recent}
    [] op = "failed" -> {i \in DOMAIN runs : runs[i].state = "FAILED" /\ runs[i].recent}
    [] op = "list_runs" -> DOMAIN runs
    [] op \in {"list", "bulk"} -> Live
    [] OTHER -> {}

Rivals == {c \in Calls : InProgress(c) /\ call[c].op \in Deployments}

Begin(c, op) ==
  /\ At(c, "new")
  /\ \E n \in (IF op = "deploy" THEN Names ELSE Asked),
        b \in (IF op \in Deployments THEN Bodies ELSE {NoBody}),
        k \in Keys \cup {NoKey},
        d \in (IF op = "delete" THEN BOOLEAN ELSE {FALSE}),
        i \in (IF op = "delete" THEN BOOLEAN ELSE {FALSE}),
        r \in (IF op \in {"status", "poll", "stop"} THEN 0 .. Len(runs) ELSE {0}) :
       /\ IF op = "deploy" THEN k \in KeysOf[n] ELSE k = NoKey
       /\ call' = [x \in Calls |->
            IF x = c
            THEN [Idle EXCEPT !.op = op, !.asked = n, !.body = b, !.key = k,
                              !.dry = d, !.idle = i, !.run = r,
                              !.step = FirstStep(op), !.owed = Owed(op),
                              !.rivals = IF op \in Deployments
                                         THEN {call[y].body : y \in Rivals} ELSE {}]
            ELSE IF op \in Deployments /\ x \in Rivals
                 THEN [call[x] EXCEPT !.rivals = @ \cup {b}]
                 ELSE call[x]]
  /\ UNCHANGED << name, versions, s3, runs >>

\* _resolve_workflow_arn, which the older tools repeat inline.
AfterLookup(c) ==
  CASE call[c].op \in {"get", "redeploy"} -> "detail"
    [] call[c].op = "start" -> "start"
    [] call[c].op = "compare" -> "versions"
    [] call[c].op = "stop" -> IF call[c].run = 0 THEN "runs" ELSE "stop"
    [] call[c].op \in {"status", "poll"} -> IF call[c].run = 0 THEN "runs" ELSE "poll"

Resolve(c) ==
  /\ At(c, "resolve")
  /\ \E page \in FirstPages :
       IF Matches(call[c].asked, page) = {}
       THEN Answer(c, "not found")
       ELSE \E a \in Matches(call[c].asked, page) :
              call' = [call EXCEPT ![c].arn = a, ![c].step = AfterLookup(c)]
  /\ UNCHANGED << name, versions, s3, runs >>

\* get_workflow: a redeployment goes on under the key it is given, or under the
\* one the workflow has; get_workflow itself reads the object of that key.
Detail(c) ==
  /\ At(c, "detail")
  /\ IF call[c].arn \notin Live
     THEN Answer(c, "error")
     ELSE IF call[c].op = "get"
     THEN call' = [call EXCEPT ![c].step = "latest",
                               ![c].seen = << Latest(call[c].arn).key >>]
     ELSE \E k \in {Latest(call[c].arn).key} \cup KeysOf[name[call[c].arn]] :
            call' = [call EXCEPT ![c].step = "upload", ![c].key = k]
  /\ UNCHANGED << name, versions, s3, runs >>

-----------------------------------------------------------------------------
(***************************************************************************)
(* deploy_and_run and redeploy_workflow: upload, make a version, run it.   *)
(***************************************************************************)
\* Broken: under a key it already has, a workflow is taken not to need an update.
UploadIsUpdate(c) ==
  /\ At(c, "upload")
  /\ s3' = [s3 EXCEPT ![call[c].key] = call[c].body]
  /\ call' = [call EXCEPT ![c].step = IF call[c].op = "deploy" THEN "create" ELSE "start"]
  /\ UNCHANGED << name, versions, runs >>

Upload(c) ==
  /\ At(c, "upload")
  /\ s3' = [s3 EXCEPT ![call[c].key] = call[c].body]
  /\ \E ok \in Answers :
       call' = [call EXCEPT ![c] =
                  Proceed(c, ok, IF call[c].op = "deploy" THEN "create" ELSE "update")]
  /\ UNCHANGED << name, versions, runs >>

NewVersion(c) == [key |-> call[c].key, body |-> s3[call[c].key]]

\* create_workflow, or ConflictException when there is one of that name.
Create(c) ==
  /\ At(c, "create")
  /\ \/ /\ \A a \in Live : name[a] # call[c].asked
        /\ \E a \in Arns :
             /\ name[a] = NoName /\ versions[a] = << >>
             /\ name' = [name EXCEPT ![a] = call[c].asked]
             /\ versions' = [versions EXCEPT ![a] = << NewVersion(c) >>]
             /\ \E ok \in Answers :
                  call' = [call EXCEPT ![c] = [Proceed(c, ok, "start") EXCEPT !.arn = a]]
     \/ /\ \E a \in Live : name[a] = call[c].asked
        /\ call' = [call EXCEPT ![c].step = "find"]
        /\ UNCHANGED << name, versions >>
  /\ UNCHANGED << s3, runs >>

\* Broken: a workflow that exists is started as it is.
FindAndStart(c) ==
  /\ At(c, "find")
  /\ \E a \in Live :
       /\ name[a] = call[c].asked
       /\ call' = [call EXCEPT ![c].arn = a, ![c].step = "start"]
  /\ UNCHANGED << name, versions, s3, runs >>

\* The workflow that is in the way, if it is in the list.
FindExisting(c) ==
  /\ At(c, "find")
  /\ \E page \in FirstPages :
       LET existing == {a \in page : name[a] = call[c].asked} IN
       IF existing = {}
       THEN Answer(c, "conflict")
       ELSE call' = [call EXCEPT ![c].arn = CHOOSE a \in existing : TRUE,
                                 ![c].step = "update"]
  /\ UNCHANGED << name, versions, s3, runs >>

UpdateWorkflow(c) ==
  /\ At(c, "update")
  /\ IF call[c].arn \in Live
     THEN /\ versions' = [versions EXCEPT ![call[c].arn] = Append(@, NewVersion(c))]
          /\ \E ok \in Answers : call' = [call EXCEPT ![c] = Proceed(c, ok, "start")]
     ELSE /\ Answer(c, "error")
          /\ UNCHANGED versions
  /\ UNCHANGED << name, s3, runs >>

\* start_workflow_run: the run executes the latest version.
StartRun(c) ==
  /\ At(c, "start")
  /\ IF call[c].arn \in Live /\ Len(runs) < MaxRuns
     THEN /\ runs' = Append(runs, [arn |-> call[c].arn, body |-> Latest(call[c].arn).body,
                                   state |-> "RUNNING", recent |-> TRUE])
          /\ \E ok \in Answers :
               call' = [call EXCEPT ![c] =
                          IF ok THEN [@ EXCEPT !.step = "done", !.result = "STARTED",
                                               !.run = Len(runs) + 1]
                                ELSE Proceed(c, FALSE, "done")]
     ELSE Answer(c, "error") /\ UNCHANGED runs
  /\ UNCHANGED << name, versions, s3 >>

-----------------------------------------------------------------------------
(***************************************************************************)
(* The tools about one run: without a run identifier, the newest run, or   *)
(* the newest active one.                                                  *)
(***************************************************************************)
ChooseRun(c) ==
  LET a == call[c].arn
      S == IF call[c].op = "stop" THEN ActiveRunsOf(a) ELSE RunsOf(a)
  IN  /\ At(c, "runs")
      /\ IF a \notin Live
         THEN Answer(c, "error")
         ELSE IF S = {}
         THEN Answer(c, "no runs")
         ELSE call' = [call EXCEPT ![c].run = Newest(S),
                ![c].step = IF call[c].op = "stop" THEN "stop" ELSE "poll"]
      /\ UNCHANGED << name, versions, s3, runs >>

KnownRun(c) == call[c].arn \in Live /\ runs[call[c].run].arn = call[c].arn

\* poll_workflow_run asks until the run has ended or max_seconds are over; an
\* error counts as a poll.  get_workflow_run_status asks once.
PollRun(c) ==
  /\ At(c, "poll")
  /\ IF call[c].op = "status"
     THEN Answer(c, IF KnownRun(c) THEN runs[call[c].run].state ELSE "error")
     ELSE IF call[c].polls = MaxPolls
     THEN Answer(c, "still running")
     ELSE \E ok \in Answers :
            IF ok /\ KnownRun(c) /\ runs[call[c].run].state \in TerminalStates
            THEN Answer(c, "completed")
            ELSE call' = [call EXCEPT ![c].polls = @ + 1]
  /\ UNCHANGED << name, versions, s3, runs >>

\* The service refuses to stop a run that has ended.
StopRun(c) ==
  /\ At(c, "stop")
  /\ IF KnownRun(c) /\ runs[call[c].run].state = "RUNNING"
     THEN /\ runs' = [runs EXCEPT ![call[c].run].state = "STOPPING"]
          /\ \E ok \in Answers : Answer(c, IF ok THEN "STOPPING" ELSE "error")
     ELSE Answer(c, "error") /\ UNCHANGED runs
  /\ UNCHANGED << name, versions, s3 >>

-----------------------------------------------------------------------------
(***************************************************************************)
(* compare_versions and get_workflow read definitions from S3, by the keys *)
(* the service recorded; an object that cannot be read counts as none.     *)
(***************************************************************************)
ListVersions(c) ==
  LET v == versions[call[c].arn] IN
  /\ At(c, "versions")
  /\ IF call[c].arn \notin Live
     THEN Answer(c, "error")
     ELSE IF Len(v) < 2
     THEN Answer(c, "only one version")
     ELSE call' = [call EXCEPT ![c].seen = << v[Len(v)].key, v[Len(v) - 1].key >>,
                               ![c].step = "latest"]
  /\ UNCHANGED << name, versions, s3, runs >>

Fetched(k) == {s3[k]} \cup IF MayFail THEN {NoBody} ELSE {}

FetchLatest(c) ==
  /\ At(c, "latest")
  /\ \E b \in Fetched(call[c].seen[1]) :
       call' = [call EXCEPT ![c].seen[1] = b,
                  ![c].step = IF call[c].op = "get" THEN "done" ELSE "previous",
                  ![c].result = IF call[c].op = "get" THEN "shown" ELSE ""]
  /\ UNCHANGED << name, versions, s3, runs >>

Diff(b1, b2) ==
  IF b1 = NoBody \/ b2 = NoBody THEN "could not retrieve"
  ELSE IF b1 = b2 THEN "no changes" ELSE "diff"

FetchPrevious(c) ==
  /\ At(c, "previous")
  /\ \E b \in Fetched(call[c].seen[2]) :
       call' = [call EXCEPT ![c].seen[2] = b, ![c].step = "done",
                            ![c].result = Diff(call[c].seen[1], b)]
  /\ UNCHANGED << name, versions, s3, runs >>

-----------------------------------------------------------------------------
(***************************************************************************)
(* The tools that go through many workflows: one thread looks at each, in  *)
(* no particular order, and one that raises adds nothing to the report,    *)
(* but for bulk_status.  list_workflows alone asks for every page, and     *)
(* looks no further.                                                       *)
(***************************************************************************)
List(c) ==
  /\ At(c, "list")
  /\ \E page \in (IF call[c].op = "list" THEN {Live} ELSE FirstPages) :
       LET fitting == {a \in page : NameFits(call[c].asked, a)} IN
       call' = IF call[c].op = "list"
               THEN [call EXCEPT ![c].step = "done", ![c].result = "report",
                                 ![c].report = fitting]
               ELSE [call EXCEPT ![c].step = "scan", ![c].todo = fitting]
  /\ UNCHANGED << name, versions, s3, runs >>

\* Broken: the oldest run decides whether a workflow is inactive.
InactiveByOldest(a) ==
  RunsOf(a) = {} \/ \E i \in RunsOf(a) : ~runs[i].recent

\* A workflow that never ran is inactive.
Inactive(a) == RunsOf(a) = {} \/ ~runs[Newest(RunsOf(a))].recent

\* Broken: a failure is forgotten once its workflow ran again.
FailedIfNewest(a) ==
  {i \in RunsOf(a) : i = Newest(RunsOf(a)) /\ runs[i].state = "FAILED" /\ runs[i].recent}

FailedRuns(a) == {i \in RunsOf(a) : runs[i].state = "FAILED" /\ runs[i].recent}

\* What the thread for workflow a adds.
Row(c, a) ==
  CASE call[c].op = "delete" -> IF ~call[c].idle \/ Inactive(a) THEN {a} ELSE {}
    [] call[c].op = "failed" -> FailedRuns(a)
    [] call[c].op = "list_runs" -> RunsOf(a)
    [] call[c].op = "bulk" -> {a}

Inspect(c, a) ==
  /\ At(c, "scan") /\ a \in call[c].todo
  /\ \E ok \in Answers :
       call' = [call EXCEPT ![c].todo = @ \ {a},
                  ![c].hurt = @ \/ ~ok,
                  ![c].report = @ \cup IF call[c].op = "bulk" \/ (ok /\ a \in Live)
                                      THEN Row(c, a) ELSE {}]
  /\ UNCHANGED << name, versions, s3, runs >>

EndScan(c) ==
  /\ At(c, "scan") /\ call[c].todo = {}
  /\ IF call[c].op = "delete" /\ ~call[c].dry
     THEN call' = [call EXCEPT ![c].step = "delete", ![c].todo = call[c].report]
     ELSE Answer(c, "report")
  /\ UNCHANGED << name, versions, s3, runs >>

\* delete_workflow for one target after the other; an error is noted.
Delete(c) ==
  /\ At(c, "delete")
  /\ IF call[c].todo = {}
     THEN Answer(c, "deleted") /\ UNCHANGED name
     ELSE \E a \in call[c].todo :
            /\ call' = [call EXCEPT ![c].todo = @ \ {a}]
            /\ name' \in {[name EXCEPT ![a] = NoName]} \cup
                         IF MayFail THEN {name} ELSE {}
  /\ UNCHANGED << versions, s3, runs >>

-----------------------------------------------------------------------------
\* A call of a service raises without effect.  Where the tool goes on all the
\* same, the step says so itself.
Fails(c) ==
  /\ MayFail
  /\ call[c].step \in {"resolve", "detail", "upload", "create", "find", "update",
                       "start", "runs", "stop", "versions", "list"}
  /\ Answer(c, "error")
  /\ UNCHANGED << name, versions, s3, runs >>

\* The service runs the tasks.
RunEnds(i) ==
  /\ \/ runs[i].state = "RUNNING" /\ \E s \in {"SUCCESS", "FAILED"} :
          runs' = [runs EXCEPT ![i].state = s]
     \/ runs[i].state = "STOPPING" /\ runs' = [runs EXCEPT ![i].state = "STOPPED"]
  /\ UNCHANGED << name, versions, s3, call >>

CallStep(c) ==
  \/ Resolve(c) \/ Detail(c)
  \/ Upload(c) \/ Create(c) \/ FindExisting(c) \/ UpdateWorkflow(c) \/ StartRun(c)
  \/ ChooseRun(c) \/ PollRun(c) \/ StopRun(c)
  \/ ListVersions(c) \/ FetchLatest(c) \/ FetchPrevious(c)
  \/ List(c) \/ EndScan(c) \/ Delete(c)
  \/ \E a \in Arns : Inspect(c, a)
  \/ Fails(c)

Next ==
  \/ \E c \in Calls : CallStep(c) \/ \E op \in Ops : Begin(c, op)
  \/ \E i \in DOMAIN runs : RunEnds(i)

Spec == Init /\ [][Next]_vars

-----------------------------------------------------------------------------
\* Calls that uploaded to key k and did not make a version of it: not yet, or
\* never because an error stopped them.
Unfinished(k) ==
  {c \in Calls :
     /\ call[c].op \in Deployments /\ call[c].key = k
     /\ \/ At(c, "create") \/ At(c, "find") \/ At(c, "update")
        \/ At(c, "done") /\ call[c].result \in {"error", "conflict"}}

\* However the uploads and updates of several deployments interleave, once they
\* are through, the object a workflow's latest version names is the definition
\* that version was made from: nobody's upload is left behind that no version
\* runs, which the tools that show definitions from S3 rely on.
DefinitionsInStep ==
  \A a \in Live :
    Unfinished(Latest(a).key) = {} => s3[Latest(a).key] = Latest(a).body

\* The run a deployment reports executes the definition it was given, or that of
\* a deployment it overlapped with; never the version that was there before.
OwnDefinitionRuns ==
  \A c \in Calls :
    call[c].op \in Deployments /\ call[c].result = "STARTED" =>
      runs[call[c].run].body \in {call[c].body} \cup call[c].rivals

\* As long as one page holds every workflow, a tool takes a workflow whose name
\* merely contains the name it was given only if none has that very name.
ExactNameFirst ==
  [][\A c \in Calls :
       call[c].arn = NoArn /\ call'[c].arn # NoArn =>
         \/ name'[call'[c].arn] = call[c].asked
         \/ \A a \in Live : name[a] # call[c].asked]_vars

\* A deletion of inactive workflows spares those that had run recently when it
\* was called, and a dry run deletes nothing: whoever else starts, stops, deploys
\* or deletes meanwhile.
DeletionSpares ==
  \A c \in Calls :
    At(c, "delete") =>
      /\ ~call[c].dry
      /\ call[c].idle => call[c].todo \cap call[c].owed = {}

\* A report mentions everything it owes its caller, of the workflows it was asked
\* about that are still there; a report on runs only if none of its threads met
\* an error, which it does not say.
ReportsComplete ==
  \A c \in Calls :
    call[c].result = "report" =>
      /\ call[c].op \in {"failed", "list_runs"} /\ ~call[c].hurt =>
           {i \in call[c].owed : runs[i].arn \in Live /\ NameFits(call[c].asked, runs[i].arn)}
             \subseteq call[c].report
      /\ call[c].op \in {"list", "bulk"} =>
           {a \in call[c].owed \cap Live : NameFits(call[c].asked, a)}
             \subseteq call[c].report

\* A poll that reports completion is about a run that will not change any more.
CompletedIsOver ==
  \A c \in Calls :
    call[c].op = "poll" /\ call[c].result = "completed" =>
      runs[call[c].run].state \in {"SUCCESS", "FAILED", "STOPPED"}

\* What "Compare the latest two versions of a workflow to show what changed"
\* promises: different versions are not reported equal.
ChangesShown ==
  \A c \in Calls :
    call[c].op = "compare" /\ call[c].result = "no changes" =>
      LET v == versions[call[c].arn]
      IN  Len(v) >= 2 => v[Len(v)].body = v[Len(v) - 1].body

=============================================================================
