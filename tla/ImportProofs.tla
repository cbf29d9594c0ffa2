----------------------------- MODULE ImportProofs -----------------------------
(***************************************************************************)
(* Proofs about MetadataImport: what follows from the task graphs of the   *)
(* nine versions, and what the steps of an import keep, however many runs  *)
(* of it there are, whichever of its tasks fail and whatever is in the     *)
(* bucket.  ResumingProofs draws the conclusions for the workflow.         *)
(***************************************************************************)
EXTENDS MetadataImport, TLAPS

(***************************************************************************)
(* The edges of the graphs, spelled out.                                   *)
(***************************************************************************)
WithTriggers == AllVersions \ {"2.0.2", "2.9.2", "2.10.x"}
WithDatasets == WithTriggers \ {"2.2.2"}

First(v) ==
  {"dag_run", "log", "job", "slot_pool", "variable", "connection"}
    \cup IF v \in WithDatasets THEN {"dataset"} ELSE {}

OnDatasets(v) ==
  IF v \in WithDatasets
  THEN {"dag_schedule_dataset_reference", "dataset_event", "dataset_dag_run_queue"}
  ELSE {}

Edge(v, u, t) ==
  \/ u = "pause_dags" /\ t \in First(v)
  \/ v \in WithTriggers /\ u \in First(v) /\ t = "load_trg"
  \/ v \in WithTriggers /\ u = "load_trg" /\ t = "load_ti"
  \/ v \notin WithTriggers /\ u \in First(v) /\ t = "load_ti"
  \/ u = "load_ti" /\ t \in {"task_fail_run", "activate_dags"} \cup OnDatasets(v)
  \/ u \in {"task_fail_run", "activate_dags"} /\ t = "notify_success"
  \/ u \in OnDatasets(v) /\ t = "load_ds_run"
  \/ v \in WithDatasets /\ u = "load_ds_run" /\ t = "notify_success"

LEMMA ChainEdges ==
  ASSUME NEW steps
  PROVE  /\ \A u, t : << u, t >> \in Chain(steps) <=>
              \E i \in 1 .. Len(steps) - 1 : u \in steps[i] /\ t \in steps[i + 1]
         /\ \A e \in Chain(steps) : e = << e[1], e[2] >>
  BY DEF Chain, Before

LEMMA Graph_2_0_2_Edges ==
  ASSUME NEW v \in {"2.0.2", "2.9.2", "2.10.x"}
  PROVE  /\ \A u, t : << u, t >> \in Graph_2_0_2 <=> Edge(v, u, t)
         /\ \A e \in Graph_2_0_2 : e = << e[1], e[2] >>
  <1> DEFINE steps == << {"pause_dags"}, Group(Import_2_0_2), {"load_ti"},
                         {"task_fail_run", "activate_dags"}, {"notify_success"} >>
  <1>1. Graph_2_0_2 = Chain(steps)
    BY DEF Graph_2_0_2
  <1>2. v \notin WithTriggers /\ v \notin WithDatasets /\ OnDatasets(v) = {}
    BY DEF WithTriggers, WithDatasets, OnDatasets
  <1>3. Group(Import_2_0_2) = First(v)
    BY <1>2 DEF Group, Import_2_0_2, First
  <1>4. Len(steps) = 5 /\ \A i : i \in 1 .. 5 - 1 <=> i \in {1, 2, 3, 4}
    OBVIOUS
  <1>5. /\ steps[1] = {"pause_dags"} /\ steps[2] = First(v) /\ steps[3] = {"load_ti"}
        /\ steps[4] = {"task_fail_run", "activate_dags"} /\ steps[5] = {"notify_success"}
    BY <1>3
  <1> HIDE DEF steps
  <1>6. ASSUME NEW u, NEW t
        PROVE  << u, t >> \in Chain(steps) <=>
                 \/ u \in steps[1] /\ t \in steps[2]
                 \/ u \in steps[2] /\ t \in steps[3]
                 \/ u \in steps[3] /\ t \in steps[4]
                 \/ u \in steps[4] /\ t \in steps[5]
    <2>1. << u, t >> \in Chain(steps) <=>
            \E i \in {1, 2, 3, 4} : u \in steps[i] /\ t \in steps[i + 1]
      BY <1>4, ChainEdges
    <2> QED BY <2>1
  <1> QED BY <1>1, <1>2, <1>5, <1>6, ChainEdges DEF Edge

LEMMA Graph_2_2_2_Edges ==
  /\ \A u, t : << u, t >> \in Graph_2_2_2 <=> Edge("2.2.2", u, t)
  /\ \A e \in Graph_2_2_2 : e = << e[1], e[2] >>
  <1> DEFINE v == "2.2.2"
             steps == << {"pause_dags"}, Group(Import_2_2_2), {"load_trg"}, {"load_ti"},
                         {"task_fail_run", "activate_dags"}, {"notify_success"} >>
  <1>1. Graph_2_2_2 = Chain(steps)
    BY DEF Graph_2_2_2
  <1>2. v \in WithTriggers /\ v \notin WithDatasets /\ OnDatasets(v) = {}
    BY DEF WithTriggers, WithDatasets, OnDatasets, AllVersions
  <1>3. Group(Import_2_2_2) = First(v)
    BY <1>2 DEF Group, Import_2_2_2, Import_2_0_2, First
  <1>4. Len(steps) = 6 /\ \A i : i \in 1 .. 6 - 1 <=> i \in {1, 2, 3, 4, 5}
    OBVIOUS
  <1>5. /\ steps[1] = {"pause_dags"} /\ steps[2] = First(v) /\ steps[3] = {"load_trg"}
        /\ steps[4] = {"load_ti"} /\ steps[5] = {"task_fail_run", "activate_dags"}
        /\ steps[6] = {"notify_success"}
    BY <1>3
  <1> HIDE DEF steps
  <1>6. ASSUME NEW u, NEW t
        PROVE  << u, t >> \in Chain(steps) <=>
                 \/ u \in steps[1] /\ t \in steps[2]
                 \/ u \in steps[2] /\ t \in steps[3]
                 \/ u \in steps[3] /\ t \in steps[4]
                 \/ u \in steps[4] /\ t \in steps[5]
                 \/ u \in steps[5] /\ t \in steps[6]
    <2>1. << u, t >> \in Chain(steps) <=>
            \E i \in {1, 2, 3, 4, 5} : u \in steps[i] /\ t \in steps[i + 1]
      BY <1>4, ChainEdges
    <2> QED BY <2>1
  <1> QED BY <1>1, <1>2, <1>5, <1>6, ChainEdges DEF Edge

LEMMA Graph_2_4_3_Edges ==
  ASSUME NEW v \in WithDatasets
  PROVE  /\ \A u, t : << u, t >> \in Graph_2_4_3 <=> Edge(v, u, t)
         /\ \A e \in Graph_2_4_3 : e = << e[1], e[2] >>
  <1> DEFINE steps == << {"pause_dags"}, Group(Import_2_4_3), {"load_trg"}, {"load_ti"},
                         {"task_fail_run", "activate_dags"}, {"notify_success"} >>
             others == << {"load_ti"}, Import_2_4_3.datasets, {"load_ds_run"},
                          {"notify_success"} >>
  <1>1. Graph_2_4_3 = Chain(steps) \cup Chain(others)
    BY DEF Graph_2_4_3
  <1>2. v \in WithTriggers
    BY DEF WithDatasets
  <1>3. Group(Import_2_4_3) = First(v) /\ Import_2_4_3.datasets = OnDatasets(v)
    BY DEF Group, Import_2_4_3, First, OnDatasets
  <1>4. /\ Len(steps) = 6 /\ \A i : i \in 1 .. 6 - 1 <=> i \in {1, 2, 3, 4, 5}
        /\ Len(others) = 4 /\ \A i : i \in 1 .. 4 - 1 <=> i \in {1, 2, 3}
    OBVIOUS
  <1>5. /\ steps[1] = {"pause_dags"} /\ steps[2] = First(v) /\ steps[3] = {"load_trg"}
        /\ steps[4] = {"load_ti"} /\ steps[5] = {"task_fail_run", "activate_dags"}
        /\ steps[6] = {"notify_success"}
    BY <1>3
  <1>6. /\ others[1] = {"load_ti"} /\ others[2] = OnDatasets(v)
        /\ others[3] = {"load_ds_run"} /\ others[4] = {"notify_success"}
    BY <1>3
  <1> HIDE DEF steps, others
  <1>7. ASSUME NEW u, NEW t
        PROVE  << u, t >> \in Chain(steps) <=>
                 \/ u \in steps[1] /\ t \in steps[2]
                 \/ u \in steps[2] /\ t \in steps[3]
                 \/ u \in steps[3] /\ t \in steps[4]
                 \/ u \in steps[4] /\ t \in steps[5]
                 \/ u \in steps[5] /\ t \in steps[6]
    <2>1. << u, t >> \in Chain(steps) <=>
            \E i \in {1, 2, 3, 4, 5} : u \in steps[i] /\ t \in steps[i + 1]
      BY <1>4, ChainEdges
    <2> QED BY <2>1
  <1>8. ASSUME NEW u, NEW t
        PROVE  << u, t >> \in Chain(others) <=>
                 \/ u \in others[1] /\ t \in others[2]
                 \/ u \in others[2] /\ t \in others[3]
                 \/ u \in others[3] /\ t \in others[4]
    <2>1. << u, t >> \in Chain(others) <=>
            \E i \in {1, 2, 3} : u \in others[i] /\ t \in others[i + 1]
      BY <1>4, ChainEdges
    <2> QED BY <2>1
  <1>9. ASSUME NEW u, NEW t PROVE << u, t >> \in Graph_2_4_3 <=> Edge(v, u, t)
    BY <1>1, <1>2, <1>5, <1>6, <1>7, <1>8 DEF Edge
  <1> QED BY <1>1, <1>9, ChainEdges

LEMMA Edges ==
  ASSUME NEW v \in AllVersions
  PROVE  /\ \A u, t : << u, t >> \in GraphOf(v) <=> Edge(v, u, t)
         /\ \A e \in GraphOf(v) : e = << e[1], e[2] >>
  <1>1. CASE v \in {"2.0.2", "2.9.2", "2.10.x"}
    <2>1. GraphOf(v) = Graph_2_0_2
      BY <1>1 DEF GraphOf, Graph_2_9_2, Graph_2_10_x
    <2> QED BY <1>1, <2>1, Graph_2_0_2_Edges
  <1>2. CASE v = "2.2.2"
    <2>1. GraphOf(v) = Graph_2_2_2
      BY <1>2 DEF GraphOf
    <2> QED BY <1>2, <2>1, Graph_2_2_2_Edges
  <1>3. CASE v \in WithDatasets
    <2>1. v \in {"2.4.3", "2.5.1", "2.6.3", "2.7.2", "2.8.1"}
      BY <1>3 DEF WithDatasets, WithTriggers, AllVersions
    <2>2. GraphOf(v) = Graph_2_4_3
      BY <2>1 DEF GraphOf, Graph_2_5_1, Graph_2_6_3, Graph_2_7_2, Graph_2_8_1
    <2> QED BY <1>3, <2>2, Graph_2_4_3_Edges
  <1> QED BY <1>1, <1>2, <1>3 DEF WithDatasets, WithTriggers

\* The tasks of a version, and the tasks each waits for.
LEMMA TasksAndUpstream ==
  ASSUME NEW v \in AllVersions
  PROVE  /\ TasksOf[v] =
              {"pause_dags", "load_ti", "task_fail_run", "activate_dags", "notify_success"}
                \cup First(v) \cup OnDatasets(v)
                \cup (IF v \in WithTriggers THEN {"load_trg"} ELSE {})
                \cup (IF v \in WithDatasets THEN {"load_ds_run"} ELSE {})
         /\ \A t \in TasksOf[v] : UpstreamOf[v][t] = {u \in TasksOf[v] : Edge(v, u, t)}
         /\ \A u, t : Edge(v, u, t) => u \in TasksOf[v] /\ t \in TasksOf[v]
  <1>1. \A u, t : Edge(v, u, t) => u \in TasksOf[v] /\ t \in TasksOf[v]
    <2>1. ASSUME NEW u, NEW t, Edge(v, u, t) PROVE u \in TasksOf[v] /\ t \in TasksOf[v]
      <3>1. << u, t >> \in GraphOf(v) /\ << u, t >>[1] = u /\ << u, t >>[2] = t
        BY <2>1, Edges
      <3> QED BY <3>1 DEF TasksOf
    <2> QED BY <2>1
  <1>2. ASSUME NEW t \in TasksOf[v]
        PROVE  \E u : Edge(v, u, t) \/ Edge(v, t, u)
    <2>1. PICK e \in GraphOf(v) : t = e[1] \/ t = e[2]
      BY DEF TasksOf
    <2>2. e = << e[1], e[2] >> /\ Edge(v, e[1], e[2])
      BY <2>1, Edges
    <2> QED BY <2>1, <2>2
  <1> DEFINE all ==
        {"pause_dags", "load_ti", "task_fail_run", "activate_dags", "notify_success"}
          \cup First(v) \cup OnDatasets(v)
          \cup (IF v \in WithTriggers THEN {"load_trg"} ELSE {})
          \cup (IF v \in WithDatasets THEN {"load_ds_run"} ELSE {})
  <1>3. ASSUME NEW t, NEW u, Edge(v, u, t) PROVE u \in all /\ t \in all
    BY <1>3 DEF Edge, OnDatasets
  <1>4. TasksOf[v] \subseteq all
    BY <1>2, <1>3
  <1>5. ASSUME NEW t \in all PROVE \E u : Edge(v, u, t) \/ Edge(v, t, u)
    <2>1. "dag_run" \in First(v)
      BY DEF First
    <2>2. CASE t \in First(v)
      BY <2>2 DEF Edge
    <2>3. CASE t \in OnDatasets(v)
      BY <2>3 DEF Edge
    <2>4. CASE t = "pause_dags"
      BY <2>1, <2>4 DEF Edge
    <2>5. CASE t \in {"load_ti", "task_fail_run", "activate_dags"}
      <3>1. Edge(v, "load_ti", "task_fail_run") /\ Edge(v, "load_ti", "activate_dags")
        BY DEF Edge
      <3> QED BY <2>5, <3>1
    <2>6. CASE t = "notify_success"
      BY <2>6 DEF Edge
    <2>7. CASE t = "load_trg" /\ v \in WithTriggers
      BY <2>7 DEF Edge
    <2>8. CASE t = "load_ds_run" /\ v \in WithDatasets
      BY <2>8 DEF Edge
    <2> QED BY <2>2, <2>3, <2>4, <2>5, <2>6, <2>7, <2>8
  <1>6. all \subseteq TasksOf[v]
    BY <1>1, <1>5
  <1>7. ASSUME NEW t \in TasksOf[v]
        PROVE  UpstreamOf[v][t] = {u \in TasksOf[v] : Edge(v, u, t)}
    <2>1. UpstreamOf[v][t] = {u \in TasksOf[v] : << u, t >> \in GraphOf(v)}
      BY <1>7 DEF UpstreamOf
    <2> QED BY <2>1, Edges
  <1> QED BY <1>1, <1>4, <1>6, <1>7

-----------------------------------------------------------------------------
(***************************************************************************)
(* What the edges mean: S is the set of the tasks that have succeeded,     *)
(* which holds the upstream tasks of each of its members.                  *)
(***************************************************************************)
Closed(v, S) == S \subseteq TasksOf[v] /\ \A t \in S : UpstreamOf[v][t] \subseteq S

\* The tables a task's rows refer to, and the history the scheduler decides by,
\* are loaded by tasks that come before it; every task comes before the answer.
LEMMA ComesBefore ==
  ASSUME NEW v \in AllVersions, NEW S, Closed(v, S),
         NEW t \in TasksOf[v], UpstreamOf[v][t] \subseteq S
  PROVE  /\ t = "load_ti" => First(v) \subseteq S
         /\ t \in {"task_fail_run", "activate_dags"} \cup OnDatasets(v) =>
              "load_ti" \in S /\ First(v) \subseteq S
         /\ t = "notify_success" => TasksOf[v] \ {"notify_success"} \subseteq S
  <1>1. /\ \A x \in TasksOf[v] : \A u : u \in UpstreamOf[v][x] <=> Edge(v, u, x)
        /\ \A x, u : Edge(v, u, x) => x \in TasksOf[v]
    BY TasksAndUpstream
  <1>2. ASSUME NEW x \in S \cup {t}, NEW u, Edge(v, u, x) PROVE u \in S
    BY <1>1, <1>2 DEF Closed
  <1>3. ASSUME "load_ti" \in S \cup {t} PROVE First(v) \subseteq S
    <2>1. CASE v \in WithTriggers
      <3>1. "load_trg" \in S
        <4>1. Edge(v, "load_trg", "load_ti")
          BY <2>1 DEF Edge
        <4> QED BY <1>2, <1>3, <4>1
      <3>2. \A u \in First(v) : Edge(v, u, "load_trg")
        BY <2>1 DEF Edge
      <3> QED BY <1>2, <3>1, <3>2
    <2>2. CASE v \notin WithTriggers
      <3>1. \A u \in First(v) : Edge(v, u, "load_ti")
        BY <2>2 DEF Edge
      <3> QED BY <1>2, <1>3, <3>1
    <2> QED BY <2>1, <2>2
  <1>4. ASSUME NEW x \in S \cup {t},
               x \in {"task_fail_run", "activate_dags"} \cup OnDatasets(v)
        PROVE  "load_ti" \in S
    <2>1. Edge(v, "load_ti", x)
      BY <1>4 DEF Edge
    <2> QED BY <1>2, <2>1
  <1>5. ASSUME t = "notify_success" PROVE TasksOf[v] \ {"notify_success"} \subseteq S
    <2>1. Edge(v, "task_fail_run", t) /\ Edge(v, "activate_dags", t)
      BY <1>5 DEF Edge
    <2>2. "task_fail_run" \in S /\ "activate_dags" \in S
      BY <1>2, <2>1
    <2>3. "load_ti" \in S /\ First(v) \subseteq S
      BY <1>3, <1>4, <2>2
    <2>4. "pause_dags" \in S
      <3>1. "dag_run" \in S /\ Edge(v, "pause_dags", "dag_run")
        BY <2>3 DEF First, Edge
      <3> QED BY <1>2, <3>1
    <2>5. v \in WithTriggers => "load_trg" \in S
      <3>1. v \in WithTriggers => Edge(v, "load_trg", "load_ti")
        BY DEF Edge
      <3> QED BY <1>2, <2>3, <3>1
    <2>6. v \in WithDatasets => "load_ds_run" \in S
      <3>1. v \in WithDatasets => Edge(v, "load_ds_run", t)
        BY <1>5 DEF Edge
      <3> QED BY <1>2, <3>1
    <2>7. OnDatasets(v) \subseteq S
      <3>1. CASE v \in WithDatasets
        <4>1. \A u \in OnDatasets(v) : Edge(v, u, "load_ds_run")
          BY DEF Edge
        <4> QED BY <1>2, <2>6, <3>1, <4>1
      <3>2. CASE v \notin WithDatasets
        BY <3>2 DEF OnDatasets
      <3> QED BY <3>1, <3>2
    <2> QED BY <2>2, <2>3, <2>4, <2>5, <2>6, <2>7, TasksAndUpstream
  <1> QED BY <1>3, <1>4, <1>5

\* The graphs have no cycle: tasks each of which waits for one of them are none.
LEMMA NoCycle ==
  ASSUME NEW v \in AllVersions, NEW N \in SUBSET TasksOf[v],
         \A t \in N : UpstreamOf[v][t] \cap N # {}
  PROVE  N = {}
  <1>1. \A t \in N : \E u \in N : Edge(v, u, t)
    BY TasksAndUpstream
  <1> DEFINE names == {"pause_dags", "load_trg", "load_ti", "task_fail_run",
                       "activate_dags", "load_ds_run", "notify_success"}
  <1>2. /\ First(v) \cap names = {} /\ OnDatasets(v) \cap names = {}
        /\ First(v) \cap OnDatasets(v) = {}
    BY DEF First, OnDatasets
  <1>3. "pause_dags" \notin N
    BY <1>1, <1>2 DEF Edge
  <1>4. First(v) \cap N = {}
    BY <1>1, <1>2, <1>3 DEF Edge
  <1>5. "load_trg" \notin N
    BY <1>1, <1>2, <1>4 DEF Edge
  <1>6. "load_ti" \notin N
    BY <1>1, <1>2, <1>4, <1>5 DEF Edge
  <1>7. /\ "task_fail_run" \notin N /\ "activate_dags" \notin N
        /\ OnDatasets(v) \cap N = {}
    BY <1>1, <1>2, <1>6 DEF Edge
  <1>8. "load_ds_run" \notin N
    BY <1>1, <1>2, <1>7 DEF Edge
  <1>9. "notify_success" \notin N
    BY <1>1, <1>2, <1>7, <1>8 DEF Edge
  <1> QED BY <1>3, <1>4, <1>5, <1>6, <1>7, <1>8, <1>9, TasksAndUpstream

-----------------------------------------------------------------------------
(***************************************************************************)
(* The tables.                                                             *)
(***************************************************************************)
\* The import reads dataset_dag_run_event; no export writes it.
LEMMA NeverExported ==
  ASSUME NEW v \in AllVersions
  PROVE  "dataset_dag_run_event" \notin Exported(v)
  <1> DEFINE names == {"dag_run", "task_instance", "log", "task_fail", "job", "trigger",
                       "dataset", "dag_schedule_dataset_reference", "dataset_event",
                       "dataset_dag_run_queue", "dagrun_dataset_event", "slot_pool"}
  <1>1. Export_2_0_2 \in Seq(names)
    BY DEF Export_2_0_2
  <1>2. << "dataset", "dag_schedule_dataset_reference", "dataset_event",
           "dataset_dag_run_queue", "dagrun_dataset_event", "trigger" >> \in Seq(names)
    OBVIOUS
  <1>3. "trigger" \in names /\ "slot_pool" \in names
    OBVIOUS
  <1>4. "dataset_dag_run_event" \notin names
    OBVIOUS
  <1> HIDE DEF names
  <1>5. Export_2_2_2 \in Seq(names) /\ Export_2_9_2 \in Seq(names)
    BY <1>1, <1>3 DEF Export_2_2_2, Export_2_9_2
  <1>6. Export_2_4_3 \in Seq(names)
    BY <1>1, <1>2 DEF Export_2_4_3
  <1>7. Export_2_7_2 \in Seq(names)
    BY <1>3, <1>6 DEF Export_2_7_2, Export_2_6_3, Export_2_5_1
  <1>8. ExportOf(v) \in {Export_2_0_2, Export_2_2_2, Export_2_4_3, Export_2_7_2, Export_2_9_2}
    BY DEF AllVersions, ExportOf, Export_2_5_1, Export_2_6_3, Export_2_8_1, Export_2_10_x
  <1>9. ExportOf(v) \in Seq(names)
    BY <1>1, <1>5, <1>6, <1>7, <1>8
  <1>10. Members(ExportOf(v)) \subseteq names
    BY <1>9 DEF Members
  <1> QED BY <1>4, <1>10 DEF Exported

\* Where the rows a task copies refer to another table, a task before it loads
\* that table.
LEMMA ReferredFirst ==
  ASSUME NEW v \in AllVersions, NEW S, Closed(v, S),
         NEW t \in TasksOf[v], UpstreamOf[v][t] \subseteq S,
         ObjectOf(t) \in Exported(v), NEW u \in References(v, ObjectOf(t))
  PROVE  \E w \in S : ObjectOf(w) = u
  <1>1. t \in {"pause_dags", "load_ti", "task_fail_run", "activate_dags", "notify_success",
               "load_trg", "load_ds_run"} \cup First(v) \cup OnDatasets(v)
    BY TasksAndUpstream
  <1>2. CASE ObjectOf(t) = "task_instance"
    <2>1. t = "load_ti"
      BY <1>1, <1>2 DEF ObjectOf, First, OnDatasets
    <2>2. "dag_run" \in S
      BY <2>1, ComesBefore DEF First
    <2>3. u = "dag_run" /\ ObjectOf("dag_run") = "dag_run"
      BY <1>2 DEF References, ObjectOf
    <2> QED BY <2>2, <2>3
  <1>3. CASE ObjectOf(t) = "task_fail"
    <2>1. t = "task_fail_run"
      BY <1>1, <1>3 DEF ObjectOf, First, OnDatasets
    <2>2. "load_ti" \in S
      BY <2>1, ComesBefore
    <2>3. u = "task_instance" /\ ObjectOf("load_ti") = "task_instance"
      BY <1>3 DEF References, ObjectOf
    <2> QED BY <2>2, <2>3
  <1>4. CASE ObjectOf(t) \in {"dag_schedule_dataset_reference", "dataset_dag_run_queue"}
    <2>1. t \in OnDatasets(v)
      BY <1>1, <1>4 DEF ObjectOf, First
    <2>2. "dataset" \in First(v)
      BY <2>1 DEF OnDatasets, First
    <2>3. "dataset" \in S
      BY <2>1, <2>2, ComesBefore
    <2>4. u = "dataset" /\ ObjectOf("dataset") = "dataset"
      BY <1>4 DEF References, ObjectOf
    <2> QED BY <2>3, <2>4
  <1>5. ObjectOf(t) # "dataset_dag_run_event"
    BY NeverExported
  <1> QED BY <1>2, <1>3, <1>4, <1>5 DEF References

-----------------------------------------------------------------------------
(***************************************************************************)
(* What the steps of the import do to its tokens and to the DAGs.          *)
(***************************************************************************)
States == {"idle", "waiting", "success", "failure", "expired"}

ImportInv ==
  /\ dag \in [Dags -> {"unknown", "paused", "active"}]
  /\ table \subseteq active
  /\ OnlyFormerlyActive
  /\ conf \in [Runs -> Tokens \cup {NoToken}]
  /\ token \in [Tokens -> States]

\* No task answers a token that nobody waits for.
LEMMA AnswerOnlyWaiting ==
  ASSUME ImportInv, NEW r \in Runs, conf[r] # NoToken,
         token' \in {token} \cup
           {[token EXCEPT ![conf[r]] = s] : s \in {"success", "failure"}},
         token' # token => token[conf[r]] = "waiting"
  PROVE  /\ token' \in [Tokens -> States]
         /\ \A k \in Tokens : token'[k] = "idle" <=> token[k] = "idle"
  <1>1. conf[r] \in Tokens
    BY DEF ImportInv
  <1> QED BY <1>1 DEF ImportInv, States

LEMMA ImportRunStep ==
  ASSUME ImportInv, RunStep
  PROVE  /\ ImportInv'
         /\ UNCHANGED conf
         /\ \A k \in Tokens : token'[k] = "idle" <=> token[k] = "idle"
  <1> DEFINE Goal == /\ ImportInv'
                     /\ UNCHANGED conf
                     /\ \A k \in Tokens : token'[k] = "idle" <=> token[k] = "idle"
             Answers(r) == /\ conf[r] # NoToken
                           /\ token' \in {token} \cup
                                {[token EXCEPT ![conf[r]] = s] :
                                   s \in {"success", "failure"}}
                           /\ token' # token => token[conf[r]] = "waiting"
  <1> USE DEF Runnable, database, backup
  <1>1. ASSUME NEW r \in Runs, Answers(r),
               UNCHANGED << active, dag, table, conf >>
        PROVE  Goal
    BY <1>1, AnswerOnlyWaiting DEF ImportInv, OnlyFormerlyActive
  <1>2. ASSUME NEW r \in Runs, NEW t, NEW o, TaskEnds(r, t, o), conf[r] # NoToken
        PROVE  Answers(r)
    BY <1>2 DEF TaskEnds, NotifyFailure
  <1>3. ASSUME NEW r \in Runs, PauseDags(r) PROVE Goal
    <2>1. Answers(r)
      BY <1>2, <1>3 DEF PauseDags
    <2>2. /\ dag' \in [Dags -> {"unknown", "paused", "active"}]
          /\ \A d \in Dags : dag'[d] # "active"
      BY <1>3 DEF PauseDags
    <2>3. UNCHANGED << active, table, conf >>
      BY <1>3 DEF PauseDags
    <2> HIDE DEF Answers
    <2> QED BY <2>1, <2>2, <2>3, AnswerOnlyWaiting
        DEF Answers, ImportInv, OnlyFormerlyActive
  <1>4. ASSUME NEW r \in Runs, CopyActive(r) PROVE Goal
    <2>1. table' \subseteq active
      BY <1>4 DEF CopyActive, ImportInv
    <2> QED BY <1>4, <2>1 DEF CopyActive, ImportInv, OnlyFormerlyActive
  <1>5. ASSUME NEW r \in Runs, ActivateDags(r) PROVE Goal
    <2>1. Answers(r)
      BY <1>2, <1>5 DEF ActivateDags
    <2>2. /\ dag' \in [Dags -> {"unknown", "paused", "active"}]
          /\ \A d \in Dags : dag'[d] = "active" => dag[d] = "active" \/ d \in table
      BY <1>5 DEF ActivateDags, ImportInv
    <2>3. UNCHANGED << active, table, conf >>
      BY <1>5 DEF ActivateDags
    <2>4. \A d \in Dags : dag'[d] = "active" => d \in active
      BY <2>2 DEF ImportInv, OnlyFormerlyActive
    <2> QED BY <2>1, <2>2, <2>3, <2>4, AnswerOnlyWaiting DEF ImportInv, OnlyFormerlyActive
  <1>6. ASSUME NEW r \in Runs, NotifySuccess(r) PROVE Goal
    <2>1. Answers(r)
      BY <1>2, <1>6 DEF NotifySuccess
    <2> QED BY <1>1, <1>6, <2>1 DEF NotifySuccess
  <1>7. ASSUME NEW r \in Runs, NEW s \in Stores, ImportStore(r, s) PROVE Goal
    <2>1. Answers(r)
      BY <1>2, <1>7 DEF ImportStore
    <2> QED BY <1>1, <1>7, <2>1 DEF ImportStore
  <1>8. ASSUME NEW r \in Runs, NEW t \in Tasks, LoadData(r, t) PROVE Goal
    <2>1. Answers(r)
      BY <1>2, <1>8 DEF LoadData
    <2> QED BY <1>1, <1>8, <2>1 DEF LoadData
  <1>9. ASSUME NEW r \in Runs, NEW t \in Tasks, TaskFails(r, t) PROVE Goal
    <2>1. Answers(r)
      BY <1>2, <1>9 DEF TaskFails
    <2> QED BY <1>1, <1>9, <2>1 DEF TaskFails
  <1>10. ASSUME NEW r \in Runs, NEW t \in Tasks, SettleTask(r, t) PROVE Goal
    BY <1>1, <1>10 DEF SettleTask
  <1> QED
    BY <1>3, <1>4, <1>5, <1>6, <1>7, <1>8, <1>9, <1>10 DEF RunStep

-----------------------------------------------------------------------------
(***************************************************************************)
(* What the tasks that have succeeded have done.                           *)
(***************************************************************************)
Succeeded(r) == {t \in TasksOf[version] : st[r][t] = "success"}

Done(t) ==
  /\ ObjectOf(t) \in Tables \cap files => db[ObjectOf(t)] > 0
  /\ t \in Stores \cap files => t \in store

LoadTypes ==
  /\ version \in Versions
  /\ files \subseteq Exported(version)
  /\ active \subseteq Dags
  /\ dangling \subseteq {"task_instance", "task_fail"}
  /\ selfPaused \in BOOLEAN
  /\ db \in [Tables -> Nat]
  /\ store \subseteq Stores
  /\ st \in [Runs -> [Tasks -> TaskStates]]
  /\ copied \subseteq Runs

LoadInv ==
  /\ LoadTypes
  /\ \A r \in Runs : Closed(version, Succeeded(r))
  /\ \A r \in Runs : \A t \in Succeeded(r) : Done(t)
  /\ LoadedInOrder
  /\ HistoryFirst
  /\ SuccessMeansRestored

ImportNext ==
  \/ RunStep
  \/ \E k \in Tokens :
       EnterImport(k) \/ TokenExpires(k) \/ \E r \in Runs : TriggerRun(r, k)
  \/ \E d \in Dags : Register(d)

\* A task that ends so has its run's token answered, or nobody waits for it.
Final(t, o) == o = "failed" \/ (t = "notify_success" /\ o = "success")

\* Task t of run r ends with outcome o, or is settled.
Ends(r, t, o) ==
  /\ t \in TasksOf[version] /\ conf[r] # NoToken /\ st[r][t] = "none"
  /\ st' = [st EXCEPT ![r][t] = o]
  /\ o \in {"success", "failed", "upstream_failed"}
  /\ o \in {"success", "failed"} => Upstream(t) \subseteq Succeeded(r)
  /\ o = "upstream_failed" => AnyFailed(st[r], Upstream(t))
  /\ o = "success" => Done(t)'
  /\ "notify_failure" \notin Faulty /\ Final(t, o) => token'[conf[r]] # "waiting"

\* Nothing that was put back is taken away again.
Grows ==
  /\ UNCHANGED backup /\ UNCHANGED << selfPaused, conf >>
  /\ db' \in [Tables -> Nat] /\ \A f \in Tables : db'[f] >= db[f]
  /\ store \subseteq store' /\ store' \subseteq Stores
  /\ copied' \subseteq Runs

LEMMA RunnableWaited ==
  ASSUME LoadTypes, NEW r \in Runs, NEW t, Runnable(r, t)
  PROVE  /\ t \in TasksOf[version] /\ conf[r] # NoToken /\ st[r][t] = "none"
         /\ Upstream(t) \subseteq Succeeded(r)
  <1>1. version \in AllVersions
    BY ImportAssumption DEF LoadTypes
  <1>2. t \in TasksOf[version] /\ AllSucceeded(st[r], Upstream(t))
    BY DEF Runnable, MayStart
  <1>3. Upstream(t) \subseteq TasksOf[version]
    BY <1>1, <1>2, TasksAndUpstream DEF Upstream
  <1> QED BY <1>2, <1>3 DEF Runnable, AllSucceeded, Succeeded

LEMMA CallbackAnswers ==
  ASSUME ImportInv, NEW r \in Runs, conf[r] # NoToken, NotifyFailure(r),
         "notify_failure" \notin Faulty
  PROVE  token'[conf[r]] # "waiting"
  <1>1. conf[r] \in Tokens
    BY DEF ImportInv
  <1> QED BY <1>1 DEF ImportInv, NotifyFailure

LEMMA RunStepEffect ==
  ASSUME ImportInv, LoadTypes, RunStep
  PROVE  /\ Grows
         /\ \/ UNCHANGED << st, token, dag, refused, db, store >>
            \/ \E r \in Runs : \E t, o : Ends(r, t, o)
  <1> USE DEF backup, database
  <1> DEFINE Goal == /\ Grows
                     /\ \/ UNCHANGED << st, token, dag, refused, db, store >>
                        \/ \E r \in Runs : \E t, o : Ends(r, t, o)
  <1>1. ASSUME NEW r \in Runs, NEW t, NEW o \in MayEnd(t), TaskEnds(r, t, o), Runnable(r, t),
               Grows, o = "success" => Done(t)', t # "notify_success"
        PROVE  Goal
    <2>1. o \in {"success", "failed"} /\ st' = [st EXCEPT ![r][t] = o]
      BY <1>1 DEF MayEnd, TaskEnds
    <2>2. "notify_failure" \notin Faulty /\ Final(t, o) => token'[conf[r]] # "waiting"
      BY <1>1, CallbackAnswers DEF Final, TaskEnds, Runnable
    <2>3. Ends(r, t, o)
      BY <1>1, <2>1, <2>2, RunnableWaited DEF Ends
    <2> QED BY <1>1, <2>3
  <1>2. ASSUME UNCHANGED << backup, selfPaused, db, store, copied, conf >> PROVE Grows
    BY <1>2 DEF Grows, LoadTypes
  <1>3. ASSUME NEW t \in {"pause_dags", "activate_dags", "notify_success"} PROVE Done(t)'
    BY <1>3 DEF Done, Tables, Stores, ObjectOf
  <1>4. ASSUME NEW r \in Runs, NEW t, TaskEnds(r, t, "failed"), Runnable(r, t), Grows
        PROVE  Goal
    <2>1. "notify_failure" \notin Faulty => token'[conf[r]] # "waiting"
      BY <1>4, CallbackAnswers DEF TaskEnds, Runnable
    <2>2. Ends(r, t, "failed")
      BY <1>4, <2>1, RunnableWaited DEF Ends, TaskEnds
    <2> QED BY <1>4, <2>2
  <1>5. ASSUME NEW r \in Runs, PauseDags(r) PROVE Goal
    BY <1>1, <1>2, <1>3, <1>5 DEF PauseDags
  <1>6. ASSUME NEW r \in Runs, CopyActive(r) PROVE Goal
    BY <1>6 DEF CopyActive, Grows, LoadTypes
  <1>7. ASSUME NEW r \in Runs, ActivateDags(r) PROVE Goal
    BY <1>1, <1>2, <1>3, <1>7 DEF ActivateDags
  <1>8. ASSUME NEW r \in Runs, NotifySuccess(r) PROVE Goal
    <2>1. Runnable(r, "notify_success") /\ Grows
      BY <1>2, <1>8 DEF NotifySuccess
    <2>2. CASE TaskEnds(r, "notify_success", "failed")
      BY <1>4, <1>8, <2>1, <2>2
    <2>3. ASSUME NEW o \in MayEnd("notify_success"),
                 token' = [token EXCEPT ![conf[r]] = "success"],
                 st' = [st EXCEPT ![r]["notify_success"] = o]
          PROVE  Goal
      <3>1. o \in {"success", "failed"}
        BY <2>3 DEF MayEnd
      <3>2. token'[conf[r]] # "waiting"
        BY <2>1, <2>3 DEF ImportInv, Runnable
      <3>3. Ends(r, "notify_success", o)
        BY <1>3, <2>1, <2>3, <3>1, <3>2, RunnableWaited DEF Ends
      <3> QED BY <2>1, <3>3
    <2> QED BY <1>8, <2>2, <2>3 DEF NotifySuccess
  <1>9. ASSUME NEW r \in Runs, NEW s \in Stores, ImportStore(r, s) PROVE Goal
    <2>1. Grows
      BY <1>9 DEF ImportStore, Grows, LoadTypes
    <2>2. Done(s)'
      BY <1>9 DEF ImportStore, Done, Tables, Stores, ObjectOf
    <2> QED BY <1>1, <1>9, <2>1, <2>2 DEF ImportStore, Stores
  <1>10. ASSUME NEW r \in Runs, NEW t \in Tasks, LoadData(r, t) PROVE Goal
    <2>1. UNCHANGED << backup, dag, selfPaused, store, table, copied, conf >>
      BY <1>10 DEF LoadData
    <2>2. ObjectOf(t) \in Tables /\ Runnable(r, t)
      BY <1>10 DEF LoadData
    <2>3. t \notin Stores /\ t # "notify_success"
      BY <2>2 DEF Stores, Tables, ObjectOf
    <2>4. ASSUME UNCHANGED db PROVE Grows
      BY <2>1, <2>4 DEF Grows, LoadTypes
    <2>5. ASSUME ObjectOf(t) \notin files, NEW o \in MayEnd(t), TaskEnds(r, t, o),
                 UNCHANGED db
          PROVE  Goal
      <3>1. Done(t)'
        BY <2>1, <2>3, <2>5 DEF Done
      <3> QED BY <1>1, <2>2, <2>3, <2>4, <2>5, <3>1
    <2>6. ASSUME TaskEnds(r, t, "failed"), UNCHANGED db PROVE Goal
      BY <1>4, <2>2, <2>4, <2>6
    <2>7. ASSUME db' = [db EXCEPT ![ObjectOf(t)] = @ + 1],
                 NEW o \in MayEnd(t), TaskEnds(r, t, o)
          PROVE  Goal
      <3>1. db'[ObjectOf(t)] = db[ObjectOf(t)] + 1 /\ db[ObjectOf(t)] \in Nat
        BY <2>2, <2>7 DEF LoadTypes
      <3>2. Done(t)'
        BY <2>1, <2>3, <3>1 DEF Done
      <3>3. db' \in [Tables -> Nat] /\ \A f \in Tables : db'[f] >= db[f]
        BY <2>2, <2>7 DEF LoadTypes
      <3>4. Grows
        BY <2>1, <3>3 DEF Grows, LoadTypes
      <3> QED BY <1>1, <2>2, <2>3, <2>7, <3>2, <3>4
    <2> HIDE DEF Goal
    <2> QED BY <1>10, <2>5, <2>6, <2>7 DEF LoadData
  <1>11. ASSUME NEW r \in Runs, NEW t \in Tasks, TaskFails(r, t) PROVE Goal
    BY <1>2, <1>4, <1>11 DEF TaskFails
  <1>12. ASSUME NEW r \in Runs, NEW t \in Tasks, SettleTask(r, t) PROVE Goal
    <2>1. PICK o \in TaskStates :
            /\ SettledWithoutRun(st[r], Upstream(t), "all_success", o)
            /\ st' = [st EXCEPT ![r][t] = o]
      BY <1>12 DEF SettleTask
    <2>2. o = "upstream_failed" /\ AnyFailed(st[r], Upstream(t))
      BY <2>1 DEF SettledWithoutRun
    <2>3. Ends(r, t, o)
      BY <1>12, <2>1, <2>2 DEF SettleTask, Ends, Final
    <2>4. Grows
      BY <1>2, <1>12 DEF SettleTask
    <2> QED BY <2>3, <2>4
  <1> HIDE DEF Goal
  <1>13. Goal
    BY <1>5, <1>6, <1>7, <1>8, <1>9, <1>10, <1>11, <1>12 DEF RunStep
  <1> QED BY <1>13 DEF Goal

-----------------------------------------------------------------------------
(***************************************************************************)
(* No step of an import breaks LoadInv.                                    *)
(***************************************************************************)
LEMMA LoadOnce == LoadTypes => version \in AllVersions /\ TasksOf[version] \subseteq Tasks
  BY ImportAssumption DEF LoadTypes, Tasks

\* The table of a task that has succeeded has its rows.
LEMMA TableLoaded ==
  ASSUME LoadInv, NEW r \in Runs, NEW w \in Succeeded(r), NEW f \in files, f = ObjectOf(w),
         f \in {"dag_run", "task_instance", "dataset", "dataset_event"}
  PROVE  f \in Tables /\ db[f] > 0
  <1>1. w \in Tasks
    BY LoadOnce DEF LoadInv, Succeeded
  <1>2. f \in Tables
    BY <1>1 DEF Tables
  <1> QED BY <1>2 DEF LoadInv, Done

LEMMA NothingRefused ==
  ASSUME LoadInv, NEW r \in Runs, NEW t, Runnable(r, t), ObjectOf(t) \in files
  PROVE  Unmet(ObjectOf(t)) = {}
  <1>1. version \in AllVersions /\ LoadTypes /\ Closed(version, Succeeded(r))
    BY LoadOnce DEF LoadInv
  <1>2. t \in TasksOf[version] /\ Upstream(t) \subseteq Succeeded(r)
    BY <1>1, RunnableWaited
  <1>3. UpstreamOf[version][t] \subseteq Succeeded(r)
    BY <1>2 DEF Upstream
  <1>4. ObjectOf(t) \in Exported(version)
    BY <1>1 DEF LoadTypes
  <1>5. ASSUME NEW u \in References(version, ObjectOf(t)), u \in files PROVE db[u] # 0
    <2>1. PICK w \in Succeeded(r) : ObjectOf(w) = u
      BY <1>1, <1>2, <1>3, <1>4, <1>5, ReferredFirst
    <2>2. u \in {"dag_run", "task_instance", "dataset", "dataset_event"}
      BY <1>5 DEF References
    <2> QED BY <1>5, <2>1, <2>2, TableLoaded
  <1> QED BY <1>5 DEF Unmet

LEMMA RefusedStep == ASSUME LoadInv, RunStep PROVE refused' = {}
  <1>1. refused = {}
    BY DEF LoadInv, LoadedInOrder
  <1>2. ASSUME NEW r \in Runs, NEW t \in Tasks, LoadData(r, t) PROVE UNCHANGED refused
    <2>1. CASE ObjectOf(t) \notin files
      BY <1>2, <2>1 DEF LoadData
    <2>2. CASE ObjectOf(t) \in files
      <3>1. Unmet(ObjectOf(t)) = {}
        BY <1>2, <2>2, NothingRefused DEF LoadData
      <3> QED BY <1>2, <2>2, <3>1 DEF LoadData
    <2> QED BY <2>1, <2>2
  <1> QED BY <1>1, <1>2
      DEF RunStep, PauseDags, CopyActive, ActivateDags, NotifySuccess, ImportStore,
          TaskFails, SettleTask, database

LEMMA HistoryStep ==
  ASSUME ImportInv, LoadInv, RunStep
  PROVE  HistoryFirst'
  <1>1. Grows /\ LoadTypes
    BY RunStepEffect DEF LoadInv
  <1> DEFINE There == \A f \in {"dag_run", "task_instance"} : f \in files => db[f] > 0
  <1>2. ASSUME There PROVE There'
    <2>1. \A f \in {"dag_run", "task_instance"} : f \in Tables
      <3>1. "dag_run" \in Tasks /\ "load_ti" \in Tasks
        <4>1. "dag_run" \in TasksOf[version] /\ "load_ti" \in TasksOf[version]
          BY <1>1, LoadOnce, TasksAndUpstream DEF First
        <4> QED BY <1>1, <4>1, LoadOnce
      <3>2. ObjectOf("dag_run") = "dag_run" /\ ObjectOf("load_ti") = "task_instance"
        BY DEF ObjectOf
      <3> QED BY <3>1, <3>2 DEF Tables
    <2>2. \A f \in Tables : db[f] \in Nat /\ db'[f] \in Nat /\ db'[f] >= db[f]
      BY <1>1 DEF Grows, LoadTypes
    <2>3. UNCHANGED files
      BY <1>1 DEF Grows, backup
    <2> QED BY <1>2, <2>1, <2>2, <2>3
  <1>3. ASSUME NEW r \in Runs, ActivateDags(r) PROVE There'
    <2>1. version \in AllVersions /\ Closed(version, Succeeded(r))
      BY <1>1, LoadOnce DEF LoadInv
    <2>2. /\ "activate_dags" \in TasksOf[version]
          /\ UpstreamOf[version]["activate_dags"] \subseteq Succeeded(r)
      BY <1>1, <1>3, RunnableWaited DEF ActivateDags, Upstream
    <2>3. "load_ti" \in Succeeded(r) /\ First(version) \subseteq Succeeded(r)
      BY <2>1, <2>2, ComesBefore
    <2>4. "dag_run" \in Succeeded(r)
      BY <2>3 DEF First
    <2>5. ObjectOf("dag_run") = "dag_run" /\ ObjectOf("load_ti") = "task_instance"
      BY DEF ObjectOf
    <2> HIDE DEF There
    <2>6. There
      BY <2>3, <2>4, <2>5, TableLoaded DEF There
    <2> QED BY <1>2, <2>6
  <1>4. ASSUME ~\E r \in Runs : ActivateDags(r), NEW d \in Dags, dag'[d] = "active"
        PROVE  dag[d] = "active"
    BY <1>4 DEF RunStep, PauseDags, CopyActive, NotifySuccess, ImportStore, LoadData,
                TaskFails, SettleTask, database
  <1>5. HistoryFirst <=> ((\E d \in Dags : dag[d] = "active") => There)
    BY DEF HistoryFirst
  <1>6. HistoryFirst' <=> ((\E d \in Dags : dag'[d] = "active") => There')
    BY DEF HistoryFirst
  <1> HIDE DEF There
  <1> QED BY <1>2, <1>3, <1>4, <1>5, <1>6 DEF LoadInv

LEMMA RestoredStep ==
  ASSUME ImportInv, LoadInv, RunStep
  PROVE  SuccessMeansRestored'
  <1>1. Grows /\ LoadTypes
    BY RunStepEffect DEF LoadInv
  <1> DEFINE Restoration ==
        /\ \A f \in Tables \cap files :
             (\E u \in TasksOf[version] : ObjectOf(u) = f) => db[f] > 0
        /\ Stores \cap files \subseteq store
  <1>2. ASSUME Restoration PROVE Restoration'
    <2>1. \A f \in Tables : db[f] \in Nat /\ db'[f] \in Nat /\ db'[f] >= db[f]
      BY <1>1 DEF Grows, LoadTypes
    <2>2. UNCHANGED << version, files >> /\ store \subseteq store'
      BY <1>1 DEF Grows, backup
    <2> QED BY <1>2, <2>1, <2>2
  <1>3. ASSUME NEW r \in Runs, NotifySuccess(r) PROVE Restoration
    <2>1. version \in AllVersions /\ Closed(version, Succeeded(r))
      BY <1>1, LoadOnce DEF LoadInv
    <2>2. /\ "notify_success" \in TasksOf[version]
          /\ UpstreamOf[version]["notify_success"] \subseteq Succeeded(r)
      BY <1>1, <1>3, RunnableWaited DEF NotifySuccess, Upstream
    <2>3. TasksOf[version] \ {"notify_success"} \subseteq Succeeded(r)
      BY <2>1, <2>2, ComesBefore
    <2>4. ASSUME NEW f \in Tables \cap files, NEW u \in TasksOf[version], ObjectOf(u) = f
          PROVE  db[f] > 0
      <3>1. u # "notify_success"
        BY <2>4 DEF Tables, ObjectOf
      <3> QED BY <2>3, <2>4, <3>1 DEF LoadInv, Done
    <2>5. Stores \subseteq TasksOf[version] \ {"notify_success"}
      BY <2>1, TasksAndUpstream DEF Stores, First
    <2> QED BY <2>3, <2>4, <2>5 DEF LoadInv, Done
  <1>4. ASSUME ~\E r \in Runs : NotifySuccess(r), NEW k \in Tokens, token'[k] = "success"
        PROVE  token[k] = "success"
    <2>1. ASSUME NEW r \in Runs, NotifyFailure(r) PROVE token[k] = "success"
      BY <1>4, <2>1 DEF NotifyFailure, ImportInv
    <2>2. ASSUME NEW r \in Runs, NEW t, NEW o, TaskEnds(r, t, o)
          PROVE  token[k] = "success"
      BY <1>4, <2>1, <2>2 DEF TaskEnds
    <2> HIDE DEF TaskEnds
    <2> QED BY <1>4, <2>2 DEF RunStep, PauseDags, CopyActive, ActivateDags, ImportStore,
          LoadData, TaskFails, SettleTask
  <1>5. SuccessMeansRestored <=> ((\E k \in Tokens : token[k] = "success") => Restoration)
    BY DEF SuccessMeansRestored
  <1>6. SuccessMeansRestored' <=> ((\E k \in Tokens : token'[k] = "success") => Restoration')
    BY DEF SuccessMeansRestored
  <1> HIDE DEF Restoration
  <1> QED BY <1>2, <1>3, <1>4, <1>5, <1>6 DEF LoadInv

LEMMA LoadRunStep ==
  ASSUME ImportInv, LoadInv, RunStep
  PROVE  LoadInv'
  <1>1. Grows /\ LoadTypes
    BY RunStepEffect DEF LoadInv
  <1>2. UNCHANGED << version, files, active, dangling, selfPaused, conf >>
    BY <1>1 DEF Grows, backup
  <1>3. version \in AllVersions /\ TasksOf[version] \subseteq Tasks
    BY <1>1, LoadOnce
  <1>4. ASSUME NEW t, Done(t) PROVE Done(t)'
    <2>1. \A f \in Tables : db[f] \in Nat /\ db'[f] \in Nat /\ db'[f] >= db[f]
      BY <1>1 DEF Grows, LoadTypes
    <2> QED BY <1>1, <1>2, <1>4, <2>1 DEF Done, Grows
  <1>5. LoadedInOrder' /\ HistoryFirst' /\ SuccessMeansRestored'
    BY RefusedStep, HistoryStep, RestoredStep DEF LoadedInOrder
  <1>6. CASE UNCHANGED st
    <2>1. LoadTypes'
      BY <1>1, <1>2, <1>6 DEF Grows, LoadTypes
    <2>2. \A r \in Runs : Succeeded(r)' = Succeeded(r)
      BY <1>2, <1>6 DEF Succeeded
    <2>3. \A r \in Runs : Closed(version, Succeeded(r))'
      BY <1>2, <2>2 DEF LoadInv, Closed
    <2>4. \A r \in Runs : \A t \in Succeeded(r)' : Done(t)'
      BY <1>4, <2>2 DEF LoadInv
    <2> QED BY <1>5, <2>1, <2>3, <2>4 DEF LoadInv
  <1>7. ASSUME NEW r \in Runs, NEW t, NEW o, Ends(r, t, o) PROVE LoadInv'
    <2>1. st' = [st EXCEPT ![r][t] = o] /\ t \in Tasks /\ o \in TaskStates
      BY <1>3, <1>7 DEF Ends, TaskStates
    <2>2. LoadTypes'
      <3>1. st' \in [Runs -> [Tasks -> TaskStates]]
        BY <1>1, <2>1 DEF LoadTypes
      <3> QED BY <1>1, <1>2, <3>1 DEF Grows, LoadTypes
    <2>3. \A q \in Runs \ {r} : Succeeded(q)' = Succeeded(q)
      BY <1>1, <1>2, <2>1 DEF Succeeded, LoadTypes
    <2>4. Succeeded(r) \subseteq Succeeded(r)'
      BY <1>1, <1>2, <1>7, <2>1 DEF Succeeded, LoadTypes, Ends
    <2>5. Succeeded(r)' \subseteq Succeeded(r) \cup (IF o = "success" THEN {t} ELSE {})
      BY <1>1, <1>2, <1>3, <1>7, <2>1 DEF Succeeded, LoadTypes, Ends
    <2>6. ASSUME NEW q \in Runs PROVE Closed(version, Succeeded(q))'
      <3>1. Closed(version, Succeeded(q))
        BY DEF LoadInv
      <3>2. CASE q # r
        BY <1>2, <2>3, <3>1, <3>2 DEF Closed
      <3>3. CASE q = r
        <4>1. o = "success" => UpstreamOf[version][t] \subseteq Succeeded(r)
          BY <1>7 DEF Ends, Upstream
        <4>2. ASSUME NEW x \in Succeeded(r)' PROVE UpstreamOf[version][x] \subseteq Succeeded(r)
          BY <2>5, <3>1, <3>3, <4>1, <4>2 DEF Closed
        <4>3. Succeeded(r)' \subseteq TasksOf[version]
          BY <1>2 DEF Succeeded
        <4> QED BY <1>2, <2>4, <3>3, <4>2, <4>3 DEF Closed
      <3> QED BY <3>2, <3>3
    <2>7. ASSUME NEW q \in Runs, NEW x \in Succeeded(q)' PROVE Done(x)'
      <3>1. CASE x \in Succeeded(q)
        BY <1>4, <3>1 DEF LoadInv
      <3>2. CASE x = t /\ o = "success"
        BY <1>7, <3>2 DEF Ends
      <3> QED BY <2>3, <2>5, <2>7, <3>1, <3>2
    <2> QED BY <1>5, <2>2, <2>6, <2>7 DEF LoadInv
  <1> QED BY <1>6, <1>7, RunStepEffect DEF LoadInv

LEMMA LoadStep ==
  ASSUME ImportInv, LoadInv, [ImportNext]_importVars
  PROVE  LoadInv'
  <1>1. ASSUME UNCHANGED << backup, db, store, refused, st, copied >>,
               selfPaused' \in BOOLEAN,
               \A d \in Dags : dag'[d] = "active" => dag[d] = "active",
               \A k \in Tokens : token'[k] = "success" => token[k] = "success"
        PROVE  LoadInv'
    <2>1. LoadTypes'
      BY <1>1 DEF LoadInv, LoadTypes, backup
    <2>2. \A r \in Runs : Closed(version, Succeeded(r))'
      BY <1>1 DEF LoadInv, Closed, Succeeded, backup
    <2>3. \A r \in Runs : \A t \in Succeeded(r)' : Done(t)'
      BY <1>1 DEF LoadInv, Succeeded, Done, backup
    <2>4. LoadedInOrder'
      BY <1>1 DEF LoadInv, LoadedInOrder
    <2>5. HistoryFirst'
      BY <1>1 DEF LoadInv, HistoryFirst, backup
    <2>6. SuccessMeansRestored'
      BY <1>1 DEF LoadInv, SuccessMeansRestored, backup
    <2> QED BY <2>1, <2>2, <2>3, <2>4, <2>5, <2>6 DEF LoadInv
  <1>2. selfPaused \in BOOLEAN
    BY DEF LoadInv, LoadTypes
  <1>3. ASSUME NEW k \in Tokens, EnterImport(k) \/ TokenExpires(k) PROVE LoadInv'
    <2>1. /\ UNCHANGED << backup, database, st, copied >>
          /\ \E s \in {"waiting", "expired"} : token' = [token EXCEPT ![k] = s]
      BY <1>3 DEF EnterImport, TokenExpires
    <2>2. \A j \in Tokens : token'[j] = "success" => token[j] = "success"
      BY <2>1 DEF ImportInv
    <2> QED BY <1>1, <1>2, <2>1, <2>2 DEF database
  <1>4. ASSUME NEW k \in Tokens, NEW r \in Runs, TriggerRun(r, k) PROVE LoadInv'
    BY <1>1, <1>2, <1>4 DEF TriggerRun
  <1>5. ASSUME NEW d \in Dags, Register(d) PROVE LoadInv'
    <2>1. \A x \in Dags : dag'[x] = "active" => dag[x] = "active"
      BY <1>5 DEF Register, ImportInv
    <2> QED BY <1>1, <1>2, <1>5, <2>1 DEF Register
  <1>6. CASE UNCHANGED importVars
    BY <1>1, <1>2, <1>6 DEF importVars, database
  <1> QED BY <1>3, <1>4, <1>5, <1>6, LoadRunStep DEF ImportNext

LEMMA LoadInit == ASSUME ImportInit PROVE LoadInv
  <1>1. LoadTypes
    <2>1. files \subseteq Exported(version)
      BY DEF ImportInit
    <2>2. dangling \subseteq {"task_instance", "task_fail"}
      BY DEF ImportInit, MayDangle
    <2>3. active \subseteq Dags
      BY ImportAssumption DEF ImportInit
    <2> QED BY <2>1, <2>2, <2>3 DEF ImportInit, LoadTypes, Stores, TaskStates
  <1>2. \A r \in Runs : Succeeded(r) = {}
    <2>1. TasksOf[version] \subseteq Tasks
      BY <1>1, LoadOnce
    <2> QED BY <2>1 DEF ImportInit, Succeeded
  <1>3. LoadedInOrder /\ HistoryFirst /\ SuccessMeansRestored
    BY DEF ImportInit, LoadedInOrder, HistoryFirst, SuccessMeansRestored
  <1> QED BY <1>1, <1>2, <1>3 DEF LoadInv, Closed

-----------------------------------------------------------------------------
(***************************************************************************)
(* Answers: a run in which a task has failed, or that has announced its    *)
(* success, has its token answered.                                        *)
(***************************************************************************)
AnswerInv ==
  \A r \in Runs :
    /\ conf[r] = NoToken => \A t \in TasksOf[version] : st[r][t] = "none"
    /\ conf[r] # NoToken => token[conf[r]] # "idle"
    /\ \A t \in TasksOf[version] :
         /\ st[r][t] \in {"none", "success", "failed", "upstream_failed"}
         /\ conf[r] # NoToken /\ (Final(t, st[r][t]) \/ st[r][t] = "upstream_failed") =>
              token[conf[r]] # "waiting"

\* Nobody begins to wait for a token again, and an answer stands.
LEMMA TokensStep ==
  ASSUME ImportInv, [ImportNext]_importVars, NEW k \in Tokens, token[k] # "idle"
  PROVE  /\ token'[k] # "idle"
         /\ token[k] # "waiting" => token'[k] = token[k]
  <1> DEFINE Goal == /\ token'[k] # "idle"
                     /\ token[k] # "waiting" => token'[k] = token[k]
             Answers(r) == /\ conf[r] # NoToken
                           /\ token' \in {token} \cup
                                {[token EXCEPT ![conf[r]] = s] :
                                   s \in {"success", "failure"}}
                           /\ token' # token => token[conf[r]] = "waiting"
  <1>1. ASSUME NEW r \in Runs, Answers(r) PROVE Goal
    BY <1>1 DEF ImportInv
  <1>2. ASSUME NEW r \in Runs, NEW t, NEW o, TaskEnds(r, t, o), conf[r] # NoToken
        PROVE  Answers(r)
    BY <1>2 DEF TaskEnds, NotifyFailure
  <1>3. CASE RunStep
    <2>1. ASSUME NEW r \in Runs, NotifySuccess(r) PROVE Answers(r)
      BY <1>2, <2>1 DEF NotifySuccess, Runnable
    <2>2. UNCHANGED token \/ \E r \in Runs : Answers(r)
      <3> HIDE DEF TaskEnds, Answers
      <3> QED BY <1>2, <1>3, <2>1 DEF RunStep, PauseDags, CopyActive, ActivateDags,
                 ImportStore, LoadData, TaskFails, SettleTask, Runnable
    <2> HIDE DEF Answers
    <2> QED BY <1>1, <2>2
  <1>4. ASSUME NEW j \in Tokens, EnterImport(j) \/ TokenExpires(j) PROVE Goal
    BY <1>4 DEF EnterImport, TokenExpires, ImportInv
  <1>5. ASSUME NEW j \in Tokens, NEW r \in Runs, TriggerRun(r, j) PROVE UNCHANGED token
    BY <1>5 DEF TriggerRun
  <1>6. ASSUME NEW d \in Dags, Register(d) PROVE UNCHANGED token
    BY <1>6 DEF Register
  <1> QED BY <1>3, <1>4, <1>5, <1>6 DEF ImportNext, importVars

LEMMA AnswerStep ==
  ASSUME ImportInv, LoadTypes, AnswerInv, [ImportNext]_importVars,
         "notify_failure" \notin Faulty
  PROVE  AnswerInv'
  <1>1. \A k \in Tokens : token[k] # "idle" =>
          token'[k] # "idle" /\ (token[k] # "waiting" => token'[k] # "waiting")
    BY TokensStep
  <1>2. \A r \in Runs : conf[r] # NoToken => conf[r] \in Tokens
    BY DEF ImportInv
  <1>3. ASSUME UNCHANGED << version, conf, st >> PROVE AnswerInv'
    BY <1>1, <1>2, <1>3 DEF AnswerInv
  <1>4. ASSUME NEW r \in Runs, NEW t, NEW o, Ends(r, t, o), UNCHANGED << version, conf >>
        PROVE  AnswerInv'
    <2>1. TasksOf[version] \subseteq Tasks
      BY LoadOnce
    <2>2. /\ t \in TasksOf[version] /\ conf[r] # NoToken
          /\ st' = [st EXCEPT ![r][t] = o]
          /\ o \in {"success", "failed", "upstream_failed"}
          /\ Final(t, o) => token'[conf[r]] # "waiting"
          /\ o = "upstream_failed" => AnyFailed(st[r], Upstream(t))
      BY <1>4 DEF Ends
    <2>3. /\ \A q \in Runs, x \in TasksOf[version] : q # r \/ x # t => st'[q][x] = st[q][x]
          /\ st'[r][t] = o
      BY <2>1, <2>2 DEF LoadTypes
    <2>4. ASSUME o = "upstream_failed" PROVE token'[conf[r]] # "waiting"
      <3>1. PICK u \in Upstream(t) : st[r][u] \in {"failed", "upstream_failed"}
        BY <2>2, <2>4 DEF AnyFailed
      <3>2. u \in TasksOf[version]
        BY <2>2, <3>1, LoadOnce, TasksAndUpstream DEF Upstream
      <3>3. token[conf[r]] # "waiting" /\ token[conf[r]] # "idle"
        BY <2>2, <3>1, <3>2 DEF AnswerInv, Final
      <3> QED BY <1>1, <1>2, <2>2, <3>3
    <2>5. ASSUME NEW q \in Runs, NEW x \in TasksOf[version]
          PROVE  /\ st'[q][x] \in {"none", "success", "failed", "upstream_failed"}
                 /\ conf[q] # NoToken
                      /\ (Final(x, st'[q][x]) \/ st'[q][x] = "upstream_failed") =>
                      token'[conf[q]] # "waiting"
      <3>1. CASE q = r /\ x = t
        BY <2>2, <2>3, <2>4, <3>1
      <3>2. CASE q # r \/ x # t
        BY <1>1, <1>2, <2>3, <3>2 DEF AnswerInv
      <3> QED BY <3>1, <3>2
    <2>6. ASSUME NEW q \in Runs
          PROVE  /\ conf[q] = NoToken => \A x \in TasksOf[version] : st'[q][x] = "none"
                 /\ conf[q] # NoToken => token'[conf[q]] # "idle"
      BY <1>1, <1>2, <2>2, <2>3 DEF AnswerInv
    <2> QED BY <1>4, <2>5, <2>6 DEF AnswerInv, Final
  <1>5. CASE RunStep
    BY <1>3, <1>4, <1>5, RunStepEffect DEF Grows, backup
  <1>6. ASSUME NEW k \in Tokens, NEW r \in Runs, TriggerRun(r, k) PROVE AnswerInv'
    <2>1. /\ UNCHANGED << version, st, token >> /\ conf[r] = NoToken
          /\ conf' = [conf EXCEPT ![r] = k] /\ token[k] # "idle"
      BY <1>6 DEF TriggerRun, backup
    <2>2. conf'[r] = k /\ \A q \in Runs \ {r} : conf'[q] = conf[q]
      BY <2>1 DEF ImportInv
    <2>3. \A t \in TasksOf[version] : st[r][t] = "none"
      BY <2>1 DEF AnswerInv
    <2>4. ASSUME NEW q \in Runs, NEW t \in TasksOf[version], q = r
          PROVE  ~Final(t, st[q][t]) /\ st[q][t] = "none"
      BY <2>3, <2>4 DEF Final
    <2>5. \A t \in TasksOf[version] : \A o : Final(t, o)' <=> Final(t, o)
      BY DEF Final
    <2>6. k # NoToken
      BY ImportAssumption
    <2> QED BY <2>1, <2>2, <2>4, <2>6 DEF AnswerInv, Final
  <1>7. ASSUME NEW k \in Tokens, EnterImport(k) \/ TokenExpires(k) PROVE AnswerInv'
    BY <1>3, <1>7 DEF EnterImport, TokenExpires, backup
  <1>8. ASSUME NEW d \in Dags, Register(d) PROVE AnswerInv'
    BY <1>3, <1>8 DEF Register, backup
  <1>9. CASE UNCHANGED importVars
    BY <1>3, <1>9 DEF importVars, backup
  <1> QED BY <1>5, <1>6, <1>7, <1>8, <1>9 DEF ImportNext

LEMMA AnswerInit == ASSUME ImportInit PROVE AnswerInv
  <1>1. TasksOf[version] \subseteq Tasks
    BY LoadInit, LoadOnce DEF LoadInv
  <1> QED BY <1>1 DEF ImportInit, AnswerInv, Final

\* Where no task can start or be settled, none is left: the tasks that wait would
\* wait for one another in a circle.
LEMMA AnswerInvSays ==
  ASSUME LoadTypes, AnswerInv
  PROVE  FinishedMeansAnswered
  <1> SUFFICES ASSUME NEW r \in Runs, conf[r] # NoToken, token[conf[r]] = "waiting",
                      \A t \in TasksOf[version] :
                        st[r][t] = "none" =>
                          /\ ~MayStart(st[r], Upstream(t), "all_success")
                          /\ ~AnyFailed(st[r], Upstream(t))
               PROVE  FALSE
    BY DEF FinishedMeansAnswered
  <1> DEFINE N == {t \in TasksOf[version] : st[r][t] = "none"}
  <1>1. version \in AllVersions
    BY LoadOnce
  <1>2. \A t \in TasksOf[version] : st[r][t] \in {"none", "success"}
    BY DEF AnswerInv, Final
  <1>3. ASSUME NEW t \in N PROVE UpstreamOf[version][t] \cap N # {}
    <2>1. PICK u \in Upstream(t) : st[r][u] # "success"
      BY <1>3 DEF MayStart, AllSucceeded
    <2>2. u \in TasksOf[version] /\ u \in UpstreamOf[version][t]
      BY <1>1, <1>3, <2>1, TasksAndUpstream DEF Upstream
    <2> QED BY <1>2, <2>1, <2>2
  <1>4. N = {}
    <2> HIDE DEF N
    <2>1. N \subseteq TasksOf[version]
      BY DEF N
    <2> QED BY <1>1, <1>3, <2>1, NoCycle
  <1>5. "notify_success" \in TasksOf[version]
    BY <1>1, TasksAndUpstream
  <1>6. st[r]["notify_success"] = "success"
    BY <1>2, <1>4, <1>5
  <1> QED BY <1>5, <1>6 DEF AnswerInv, Final

=============================================================================
