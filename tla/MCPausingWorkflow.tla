------------------------- MODULE MCPausingWorkflow -------------------------
(***************************************************************************)
(* Instances of PausingWorkflow for TLC.                                   *)
(***************************************************************************)
EXTENDS PausingWorkflow, TLC

NoTables == {}

\* An environment that was resumed has the active_dags table of the import.
LeftByImport == {Dags}

\* The tables exported are no concern of the workflow: one is enough.
OneTable == << "dag_run" >>

NoTask == {}
SomeTasks == {"pause_dags", "export_data", "activate_dags_on_failure", "notify_success"}

\* Executions, runs and configurations are interchangeable.
Symmetry ==
  Permutations(Tokens) \cup Permutations(Runs) \cup Permutations(Configs)

=============================================================================
