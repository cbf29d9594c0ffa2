----------------------- MODULE MCServerlessWorkflows -----------------------
(***************************************************************************)
(* Instances of ServerlessWorkflows for TLC.                               *)
(***************************************************************************)
EXTENDS ServerlessWorkflows, TLC

\* Two workflows, one of whose names contains the other.
TwoNames == {"daily", "daily_sales"}
TwoNamesContain == {<< "daily", "daily_sales" >>}
TheKeys == {"workflows/daily.yaml", "workflows/daily_sales.yaml"}
TheKeysOf ==
  "daily" :> {"workflows/daily.yaml"}
    @@ "daily_sales" :> {"workflows/daily_sales.yaml"}

Symmetry == Permutations(Calls) \cup Permutations(Arns) \cup Permutations(Bodies)

\* A run in progress, one that failed of late, one of long ago.
SomeRuns == {<< "RUNNING", TRUE >>, << "FAILED", TRUE >>, << "SUCCESS", FALSE >>}

AllOps == Deployments \cup Scans \cup Lookups
DeployAndCompare == {"deploy", "redeploy", "compare"}

=============================================================================
