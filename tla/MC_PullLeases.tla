---------------------------- MODULE MC_PullLeases ----------------------------
(* Three pulls: p1 and p3 fetch image i1, p2 fetches i2; the two images    *)
(* share blob d2, so one pull can find a blob another pull committed.      *)
EXTENDS PullLeases, TLC

CONSTANTS p1, p2, p3, i1, i2, d1, d2, d3

MCPulls == {p1, p2, p3}
MCImages == {i1, i2}
MCDigests == {d1, d2, d3}
MCImageOf == (p1 :> i1) @@ (p2 :> i2) @@ (p3 :> i1)
MCBlobsOf == (i1 :> {d1, d2}) @@ (i2 :> {d2, d3})

\* Faults of the runs: failing commits only, or also a failing Store.Delete
\* or every fault.
MCFaultsCommit == {"Commit"}
MCFaultsStoreDelete == {"Commit", "StoreDelete"}
MCFaultsLease == {"LeaseCreate", "AddResource"}
MCFaultsAll == FaultKinds
=============================================================================
