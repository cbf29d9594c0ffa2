-------------------------- MODULE MCResumingWorkflow --------------------------
(***************************************************************************)
(* Instances of ResumingWorkflow for TLC.                                  *)
(***************************************************************************)
EXTENDS ResumingWorkflow

OnlyOldest == {"2.0.2"}
OnlyNewest == {"2.10.x"}
NoVersions == {}
AllButOldest == AllVersions \ OnlyOldest

NoneOrAll == {{}, Dags}

\* One task, and the one with several commits.
SomeTasks == {"load_ti", "activate_dags"}
NoTasks == {}

=============================================================================
