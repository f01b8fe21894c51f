------------------------------ MODULE BlobWrite ------------------------------
(***************************************************************************)
(* What a blob write promises its caller: the blob may be committed to the *)
(* content store at most once, and the call returns once, either an error  *)
(* or success, and success only when the blob was committed.  Nothing      *)
(* happens after the call returns.                                         *)
(***************************************************************************)

VARIABLES
    stored,     \* the blob is committed in the content store
    result      \* what the call returned: "none" while it runs

vars == <<stored, result>>

Init ==
    /\ stored = FALSE
    /\ result = "none"

Store ==
    /\ result = "none"
    /\ ~stored
    /\ stored' = TRUE
    /\ UNCHANGED result

ReturnOK ==
    /\ result = "none"
    /\ stored
    /\ result' = "ok"
    /\ UNCHANGED stored

ReturnError ==
    /\ result = "none"
    /\ result' = "err"
    /\ UNCHANGED stored

Next == Store \/ ReturnOK \/ ReturnError

Spec == Init /\ [][Next]_vars

=============================================================================
