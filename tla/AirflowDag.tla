----------------------------- MODULE AirflowDag -----------------------------
(***************************************************************************)
(* The part of Apache Airflow's scheduler the export and import DAGs rely  *)
(* on: when a task of a DAG run may start, and when the scheduler settles  *)
(* it without starting it.  Airflow is not in this repository; the two     *)
(* trigger rules below are the two the DAG files use ("all_success", the   *)
(* default, and "one_failed").                                             *)
(*                                                                         *)
(* s is the state of one DAG run, a function from its tasks; ups is the    *)
(* set of a task's direct upstream tasks.                                  *)
(***************************************************************************)

TaskStates == {"none", "success", "failed", "upstream_failed", "skipped"}

\* The outcomes of a task whose callable was executed.
Outcomes == {"success", "failed"}

AnyFailed(s, ups) == \E u \in ups : s[u] \in {"failed", "upstream_failed"}

AllSucceeded(s, ups) == \A u \in ups : s[u] = "success"

AllSettled(s, ups) == \A u \in ups : s[u] # "none"

\* A task starts once its rule holds.  one_failed does not wait for the other
\* upstream tasks.
MayStart(s, ups, rule) ==
  \/ rule = "all_success" /\ AllSucceeded(s, ups)
  \/ rule = "one_failed" /\ AnyFailed(s, ups)

\* The state the scheduler gives a task it will not start, when it can tell.
SettledWithoutRun(s, ups, rule, state) ==
  \/ /\ rule = "all_success"
     /\ AnyFailed(s, ups)
     /\ state = "upstream_failed"
  \/ /\ rule = "one_failed"
     /\ AllSettled(s, ups) /\ ~AnyFailed(s, ups)
     /\ state = "skipped"

=============================================================================
