---------------------------- MODULE KeyDelivery ----------------------------
(***************************************************************************)
(* What the libnetwork-setkey prestart hook promises the container        *)
(* runtime, stated over the helpers alone: each helper runs until it exits *)
(* 0 or 1; the daemon applies its key at most once and only while the      *)
(* helper still runs; the helper exits 0 exactly when its key was applied. *)
(* How the request travels, the listener, the goroutines and the sandbox   *)
(* table are not visible at this level.                                    *)
(***************************************************************************)
CONSTANT Helpers

VARIABLES
    applied,    \* helpers whose key the daemon set on their sandbox
    status      \* per helper: "running", or its exit "ok" / "failed"

vars == <<applied, status>>

Init ==
    /\ applied = {}
    /\ status = [h \in Helpers |-> "running"]

\* The daemon sets h's key while h waits for the answer.
Apply(h) ==
    /\ status[h] = "running"
    /\ h \notin applied
    /\ applied' = applied \cup {h}
    /\ UNCHANGED status

\* h exits 0: its key was applied.
ExitOK(h) ==
    /\ status[h] = "running"
    /\ h \in applied
    /\ status' = [status EXCEPT ![h] = "ok"]
    /\ UNCHANGED applied

\* h exits 1: its key was not applied, and never will be.
ExitFail(h) ==
    /\ status[h] = "running"
    /\ h \notin applied
    /\ status' = [status EXCEPT ![h] = "failed"]
    /\ UNCHANGED applied

Next == \E h \in Helpers : Apply(h) \/ ExitOK(h) \/ ExitFail(h)

Spec == Init /\ [][Next]_vars

=============================================================================
