--------------------------- MODULE MCStatusPoller ---------------------------
(***************************************************************************)
(* Instances of StatusPoller for TLC: a poll and the poll of an execution  *)
(* started again, so that one may end while the other goes on.             *)
(***************************************************************************)
EXTENDS StatusPoller

=============================================================================
