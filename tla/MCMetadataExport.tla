-------------------------- MODULE MCMetadataExport --------------------------
(***************************************************************************)
(* Instances of MetadataExport for TLC.                                    *)
(***************************************************************************)
EXTENDS MetadataExport

\* An environment in which no import ever ran has no active_dags table.
NoTables == {}

\* OBJECTS_TO_EXPORT of Airflow 2.10, and the tables whose rows refer to each
\* other, which is what two interleaved runs can get wrong.
AllTables ==
  << "dag_run", "task_instance", "log", "task_fail", "job", "slot_pool" >>
LinkedTables == << "dag_run", "task_instance" >>

\* Which tasks may fail.
EveryTask == Tasks \ {"clean_up"}
NoTask == {}

=============================================================================
