--------------------------- MODULE AirflowVersions ---------------------------
(***************************************************************************)
(* What the DAG files of start-stop differ in from one Airflow version to  *)
(* the next (mwaairflow/assets/dags/<version>): the objects the export     *)
(* writes, in its order, and the objects and task graph of the import.     *)
(*                                                                         *)
(* An object stands for its table and for the task that loads it; it is    *)
(* named without the ".csv".  The columns of a SELECT are those of the     *)
(* COPY that reads its object, in every version, and are left out; what    *)
(* the rows refer to is References, from the database schema of Airflow.   *)
(***************************************************************************)
EXTENDS Naturals, Sequences

Before(a, b) == a \X b

\* a >> b >> c ... for sets of tasks.
Chain(steps) == UNION {Before(steps[i], steps[i + 1]) : i \in 1 .. Len(steps) - 1}

Members(s) == {s[i] : i \in DOMAIN s}

-----------------------------------------------------------------------------
(***************************************************************************)
(* OBJECTS_TO_EXPORT and the statements it lists.  An object lists the     *)
(* tables it names, so these are the tables whose history survives.        *)
(***************************************************************************)
Export_2_0_2 == << "dag_run", "task_instance", "log", "task_fail", "job" >>

Export_2_2_2 == Append(Export_2_0_2, "trigger")

Export_2_4_3 ==
  Export_2_0_2 \o
    << "dataset", "dag_schedule_dataset_reference", "dataset_event",
       "dataset_dag_run_queue", "dagrun_dataset_event", "trigger" >>

Export_2_5_1 == Export_2_4_3
Export_2_6_3 == Export_2_5_1
Export_2_7_2 == Append(Export_2_6_3, "slot_pool")
Export_2_8_1 == Export_2_7_2
Export_2_9_2 == Append(Export_2_0_2, "slot_pool")
Export_2_10_x == Export_2_9_2

-----------------------------------------------------------------------------
(***************************************************************************)
(* The lists the import goes through: the top-level tables, and those that *)
(* refer to datasets.  load_ti, load_trg, task_fail_run and load_ds_run    *)
(* load one object each.                                                   *)
(***************************************************************************)
Import_2_0_2 ==
  [toplevel |-> {"dag_run", "log", "job", "slot_pool"}, datasets |-> {}]
Import_2_2_2 == Import_2_0_2
Import_2_4_3 ==
  [toplevel |-> {"dag_run", "log", "job", "slot_pool", "dataset"},
   datasets |-> {"dag_schedule_dataset_reference", "dataset_event",
                 "dataset_dag_run_queue"}]
Import_2_5_1 == Import_2_4_3
Import_2_6_3 == Import_2_5_1
Import_2_7_2 == Import_2_6_3
Import_2_8_1 == Import_2_7_2
Import_2_9_2 == Import_2_0_2
Import_2_10_x == Import_2_9_2

\* The task group import_t.
Group(import) == import.toplevel \cup {"variable", "connection"}

\* The object a task loads, if it loads one.
ObjectOf(task) ==
  CASE task = "load_ti" -> "task_instance"
    [] task = "load_trg" -> "trigger"
    [] task = "task_fail_run" -> "task_fail"
    [] task = "load_ds_run" -> "dataset_dag_run_event"
    [] OTHER -> task

-----------------------------------------------------------------------------
(***************************************************************************)
(* The task graphs.  activate_dags waits for the task instances alone.     *)
(***************************************************************************)
\* Broken: the DAGs are activated while task instances are still loaded.
Graph_2_0_2_EarlyActivation ==
  Chain(<< {"pause_dags"}, Group(Import_2_0_2), {"load_ti", "activate_dags"},
           {"task_fail_run"}, {"notify_success"} >>)

Graph_2_0_2 ==
  Chain(<< {"pause_dags"}, Group(Import_2_0_2), {"load_ti"},
           {"task_fail_run", "activate_dags"}, {"notify_success"} >>)

\* With the triggers before the task instances that wait for them.
Graph_2_2_2 ==
  Chain(<< {"pause_dags"}, Group(Import_2_2_2), {"load_trg"}, {"load_ti"},
           {"task_fail_run", "activate_dags"}, {"notify_success"} >>)

\* Broken: the dataset tables are loaded beside the datasets.
Graph_2_4_3_Flat ==
  Chain(<< {"pause_dags"}, Group(Import_2_4_3) \cup Import_2_4_3.datasets,
           {"load_trg"}, {"load_ti"}, {"task_fail_run", "activate_dags", "load_ds_run"},
           {"notify_success"} >>)

\* Broken: success is reported without waiting for what refers to datasets.
Graph_2_4_3_Unjoined ==
  Chain(<< {"pause_dags"}, Group(Import_2_4_3), {"load_trg"}, {"load_ti"},
           {"task_fail_run", "activate_dags"}, {"notify_success"} >>)
  \cup Chain(<< {"load_ti"}, Import_2_4_3.datasets, {"load_ds_run"} >>)

\* And what refers to datasets beside the task failures.
Graph_2_4_3 ==
  Chain(<< {"pause_dags"}, Group(Import_2_4_3), {"load_trg"}, {"load_ti"},
           {"task_fail_run", "activate_dags"}, {"notify_success"} >>)
  \cup Chain(<< {"load_ti"}, Import_2_4_3.datasets, {"load_ds_run"},
                {"notify_success"} >>)

Graph_2_5_1 == Graph_2_4_3
Graph_2_6_3 == Graph_2_5_1
Graph_2_7_2 == Graph_2_6_3
Graph_2_8_1 == Graph_2_7_2
Graph_2_9_2 == Graph_2_0_2
Graph_2_10_x == Graph_2_9_2

-----------------------------------------------------------------------------
AllVersions ==
  {"2.0.2", "2.2.2", "2.4.3", "2.5.1", "2.6.3", "2.7.2", "2.8.1", "2.9.2", "2.10.x"}

ExportOf(v) ==
  CASE v = "2.0.2" -> Export_2_0_2
    [] v = "2.2.2" -> Export_2_2_2
    [] v = "2.4.3" -> Export_2_4_3
    [] v = "2.5.1" -> Export_2_5_1
    [] v = "2.6.3" -> Export_2_6_3
    [] v = "2.7.2" -> Export_2_7_2
    [] v = "2.8.1" -> Export_2_8_1
    [] v = "2.9.2" -> Export_2_9_2
    [] v = "2.10.x" -> Export_2_10_x

GraphOf(v) ==
  CASE v = "2.0.2" -> Graph_2_0_2
    [] v = "2.2.2" -> Graph_2_2_2
    [] v = "2.4.3" -> Graph_2_4_3
    [] v = "2.5.1" -> Graph_2_5_1
    [] v = "2.6.3" -> Graph_2_6_3
    [] v = "2.7.2" -> Graph_2_7_2
    [] v = "2.8.1" -> Graph_2_8_1
    [] v = "2.9.2" -> Graph_2_9_2
    [] v = "2.10.x" -> Graph_2_10_x

TasksOf == [v \in AllVersions |->
  {e[1] : e \in GraphOf(v)} \cup {e[2] : e \in GraphOf(v)}]

UpstreamOf == [v \in AllVersions |-> [t \in TasksOf[v] |->
  {u \in TasksOf[v] : << u, t >> \in GraphOf(v)}]]

\* Everything an export of version v writes under data/.
Exported(v) == Members(ExportOf(v)) \cup {"active_dags", "variable", "connection"}

-----------------------------------------------------------------------------
(***************************************************************************)
(* The database schema of Airflow: which tables the rows of a table refer  *)
(* to, and which tables have a key among the columns that are copied.      *)
(***************************************************************************)
Untriggered == {"2.0.2"}
Datasetless == {"2.0.2", "2.2.2"}

References(v, t) ==
  CASE t = "task_instance" /\ v \notin Untriggered -> {"dag_run"}
    [] t = "task_fail" /\ v \notin Datasetless -> {"task_instance"}
    [] t \in {"dag_schedule_dataset_reference", "dataset_dag_run_queue"} -> {"dataset"}
    [] t = "dataset_dag_run_event" -> {"dag_run", "dataset_event"}
    [] OTHER -> {}

Keyed ==
  {"dag_run", "task_instance", "slot_pool", "dataset",
   "dag_schedule_dataset_reference", "dataset_dag_run_queue",
   "dataset_dag_run_event"}

=============================================================================
