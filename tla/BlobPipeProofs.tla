-------------------------- MODULE BlobPipeProofs --------------------------
(***************************************************************************)
(* Proof that writeCompressedBlob implements the abstract blob write       *)
(* (BlobWrite), for every input length and every set of failing calls.     *)
(***************************************************************************)
EXTENDS BlobPipe, TLAPS

USE ConstAssumption

\* saveArchive calls writeCompressedBlob only (gzip and zstd archives).
OnlyTee == Modes = {"writeCompressedBlob"}

\* The facts the refinement rests on.  Before g commits nothing is stored
\* and pw is open; g reaches its close with no error only after a commit;
\* pw closed with nil means g had no error and is past its close; main,
\* past the decompression with no error, saw pw closed with nil; nothing
\* is returned before both goroutines end.
RInv ==
    /\ TypeOK
    /\ mode \in {"none", "writeCompressedBlob"}
    /\ mode = "none" <=>  mpc = "idle"
    /\ mode = "none" => gpc = "idle" /\ ~stored /\ pwClosed = "open"
    /\ gpc \in {"idle", "open", "read", "write", "commit"} =>
          ~stored /\ pwClosed = "open"
    /\ gpc \in {"close", "send", "end"} /\ ~gErr => stored
    /\ pwClosed # "open" => gpc \in {"send", "end"}
    /\ pwClosed = "nil" => ~gErr
    /\ mpc \in {"close", "recv", "end"} /\ ~mErr => pwClosed = "nil"
    /\ result # "none" => mpc = "end" /\ gpc = "end"

\* Every step of the specification is one of these, or a stutter.
LEMMA NextCases ==
    ASSUME Next
    PROVE  \/ \E m \in Modes : StartPipe(m)
           \/ OpenWriter \/ TeeRead \/ TeeTransfer \/ TeeWriteError
           \/ PipeTransfer \/ PipeReadEnd \/ CommitBlob \/ GoroutineClose
           \/ DecompressEnd \/ CopyInput \/ CompressWriteError \/ MainClose
           \/ Receive
BY DEF Next, PipeNext

LEMMA RInvInit == Init => RInv
<1> SUFFICES ASSUME Init PROVE RInv
  OBVIOUS
<1>1. left \in 0..Chunks
  BY DEF Init
<1>2. QED
  BY <1>1 DEF Init, RInv, TypeOK, Closes

LEMMA RInvStep == OnlyTee /\ RInv /\ [Next]_vars => RInv'
<1> SUFFICES ASSUME OnlyTee, RInv, [Next]_vars PROVE RInv'
  OBVIOUS
<1> USE DEF RInv, TypeOK, Closes, W1, W2, OnlyTee
<1>1. ASSUME NEW m \in Modes, StartPipe(m) PROVE RInv'
  BY <1>1 DEF StartPipe
<1>2. CASE OpenWriter
  <2>1. CASE gpc' = "read" /\ UNCHANGED gErr
    BY <1>2, <2>1 DEF OpenWriter
  <2>2. CASE gErr' = TRUE /\ gpc' = "close"
    BY <1>2, <2>2 DEF OpenWriter
  <2>3. QED
    BY <1>2, <2>1, <2>2 DEF OpenWriter
<1>3. CASE TeeRead
  <2>1. CASE gpc' = "write" /\ UNCHANGED gErr
    BY <1>3, <2>1 DEF TeeRead
  <2>2. CASE gpc' = "commit" /\ UNCHANGED gErr
    BY <1>3, <2>2 DEF TeeRead
  <2>3. CASE gErr' = TRUE /\ gpc' = "close"
    BY <1>3, <2>3 DEF TeeRead
  <2>4. QED
    BY <1>3, <2>1, <2>2, <2>3 DEF TeeRead
<1>4. CASE TeeTransfer
  BY <1>4 DEF TeeTransfer
<1>5. CASE TeeWriteError
  BY <1>5 DEF TeeWriteError
<1>6. CASE PipeTransfer
  BY <1>6 DEF PipeTransfer
<1>7. CASE PipeReadEnd
  BY <1>7 DEF PipeReadEnd
<1>8. CASE CommitBlob
  BY <1>8 DEF CommitBlob
<1>9. CASE GoroutineClose
  BY <1>9 DEF GoroutineClose, CloseWith
<1>10. CASE DecompressEnd
  BY <1>10 DEF DecompressEnd
<1>11. CASE CopyInput
  BY <1>11 DEF CopyInput
<1>12. CASE CompressWriteError
  BY <1>12 DEF CompressWriteError
<1>13. CASE MainClose
  BY <1>13 DEF MainClose, CloseWith
<1>14. CASE Receive
  BY <1>14 DEF Receive
<1>15. CASE UNCHANGED vars
  BY <1>15 DEF vars
<1>16. QED
  BY <1>1, <1>2, <1>3, <1>4, <1>5, <1>6, <1>7, <1>8, <1>9, <1>10, <1>11,
     <1>12, <1>13, <1>14, <1>15, NextCases

\* Every step of writeCompressedBlob is a step of the abstract blob write
\* or leaves the blob and the result alone.
LEMMA RefineStep ==
    OnlyTee /\ RInv /\ [Next]_vars => [Abstract!Next]_Abstract!vars
<1> SUFFICES ASSUME OnlyTee, RInv, [Next]_vars
             PROVE  [Abstract!Next]_Abstract!vars
  OBVIOUS
<1> USE DEF RInv, TypeOK, W1, W2, OnlyTee
<1>1. CASE CommitBlob
  BY <1>1 DEF CommitBlob, Abstract!Next, Abstract!Store, Abstract!vars
<1>2. CASE Receive
  BY <1>2 DEF Receive, Abstract!Next, Abstract!ReturnOK,
     Abstract!ReturnError, Abstract!vars
<1>3. CASE ~CommitBlob /\ ~Receive
  <2>1. UNCHANGED <<stored, result>>
    BY <1>3, NextCases DEF StartPipe, OpenWriter, TeeRead, TeeTransfer,
       TeeWriteError, PipeTransfer, PipeReadEnd, GoroutineClose,
       DecompressEnd, CopyInput, CompressWriteError, MainClose, vars
  <2>2. QED
    BY <2>1 DEF Abstract!vars
<1>4. QED
  BY <1>1, <1>2, <1>3

\* When saveArchive hands the pipe a gzip or zstd archive,
\* writeCompressedBlob implements a blob write for every input length and
\* every set of failing calls: it returns success only for a committed
\* blob, returns once, and commits nothing after returning.
THEOREM TeeImplementsBlobWrite == OnlyTee => (Spec => BlobWriteSpec)
<1> SUFFICES ASSUME OnlyTee PROVE Spec => BlobWriteSpec
  OBVIOUS
<1>1. Init => Abstract!Init
  BY DEF Init, Abstract!Init
<1>2. Spec => []RInv
  BY RInvInit, RInvStep, PTL DEF Spec
<1>3. QED
  BY <1>1, <1>2, RefineStep, PTL DEF Spec, BlobWriteSpec, Abstract!Spec

-----------------------------------------------------------------------------
(* Both protocols: what a return without a stored blob means.              *)

\* Every step of either protocol keeps the variables in their types.
LEMMA PipeTypeStepAll == TypeOK /\ [Next]_vars => TypeOK'
<1> SUFFICES ASSUME TypeOK, [Next]_vars PROVE TypeOK'
  OBVIOUS
<1> USE DEF TypeOK, Closes
<1>1. ASSUME NEW m \in Modes, StartPipe(m) PROVE TypeOK'
  BY <1>1 DEF StartPipe
<1>2. CASE TeeRead
  <2>1. CASE left > 0 /\ left' = left - 1 /\ gpc' = "write" /\ UNCHANGED gErr
    BY <1>2, <2>1 DEF TeeRead
  <2>2. CASE left = 0 /\ gpc' = "commit" /\ UNCHANGED <<left, gErr>>
    BY <1>2, <2>2 DEF TeeRead
  <2>3. CASE gErr' = TRUE /\ gpc' = "close" /\ UNCHANGED left
    BY <1>2, <2>3 DEF TeeRead
  <2>4. QED
    BY <1>2, <2>1, <2>2, <2>3 DEF TeeRead
<1>3. CASE CopyInput
  <2>1. CASE left > 0 /\ left' = left - 1 /\ mpc' \in {"copy", "write"} /\ UNCHANGED mErr
    BY <1>3, <2>1 DEF CopyInput
  <2>2. CASE left = 0 /\ mpc' = "trailer" /\ UNCHANGED <<left, mErr>>
    BY <1>3, <2>2 DEF CopyInput
  <2>3. CASE mErr' = TRUE /\ mpc' = "trailer" /\ UNCHANGED left
    BY <1>3, <2>3 DEF CopyInput
  <2>4. QED
    BY <1>3, <2>1, <2>2, <2>3 DEF CopyInput
<1>4. CASE OpenWriter
  BY <1>4 DEF OpenWriter
<1>5. CASE TeeTransfer
  BY <1>5 DEF TeeTransfer
<1>6. CASE TeeWriteError
  BY <1>6 DEF TeeWriteError
<1>7. CASE PipeTransfer
  BY <1>7 DEF PipeTransfer
<1>8. CASE PipeReadEnd
  BY <1>8 DEF PipeReadEnd
<1>9. CASE CommitBlob
  BY <1>9 DEF CommitBlob
<1>10. CASE GoroutineClose
  BY <1>10 DEF GoroutineClose, CloseWith
<1>11. CASE DecompressEnd
  BY <1>11 DEF DecompressEnd
<1>12. CASE CompressWriteError
  BY <1>12 DEF CompressWriteError
<1>13. CASE MainClose
  BY <1>13 DEF MainClose, CloseWith
<1>14. CASE Receive
  BY <1>14 DEF Receive
<1>15. CASE UNCHANGED vars
  BY <1>15 DEF vars
<1>16. QED
  BY <1>1, <1>2, <1>3, <1>4, <1>5, <1>6, <1>7, <1>8, <1>9, <1>10, <1>11,
     <1>12, <1>13, <1>14, <1>15, NextCases

\* g reaches its close with no error only after a commit, and nothing is
\* returned before g ends.
GInv ==
    /\ TypeOK
    /\ gpc \in {"close", "send", "end"} /\ ~gErr => stored
    /\ result # "none" => gpc = "end" /\ mpc = "end"

LEMMA GInvStep == GInv /\ [Next]_vars => GInv'
<1> SUFFICES ASSUME GInv, [Next]_vars PROVE GInv'
  OBVIOUS
<1>1. TypeOK'
  BY PipeTypeStepAll DEF GInv
<1> USE DEF GInv, TypeOK, Closes
<1>2. ASSUME NEW m \in Modes, StartPipe(m) PROVE GInv'
  BY <1>1, <1>2 DEF StartPipe
<1>3. CASE OpenWriter
  BY <1>1, <1>3 DEF OpenWriter
<1>4. CASE TeeRead
  BY <1>1, <1>4 DEF TeeRead
<1>5. CASE TeeTransfer
  <2>1. CASE gpc' = "read" /\ UNCHANGED gErr
    BY <1>1, <1>5, <2>1 DEF TeeTransfer
  <2>2. CASE gErr' = TRUE /\ gpc' = "close"
    BY <1>1, <1>5, <2>2 DEF TeeTransfer
  <2>3. QED
    BY <1>5, <2>1, <2>2 DEF TeeTransfer
<1>6. CASE TeeWriteError
  BY <1>1, <1>6 DEF TeeWriteError
<1>7. CASE PipeTransfer
  <2>1. CASE UNCHANGED <<gpc, gErr>>
    BY <1>1, <1>7, <2>1 DEF PipeTransfer
  <2>2. CASE gErr' = TRUE /\ gpc' = "close"
    BY <1>1, <1>7, <2>2 DEF PipeTransfer
  <2>3. QED
    BY <1>7, <2>1, <2>2 DEF PipeTransfer
<1>8. CASE PipeReadEnd
  BY <1>1, <1>8 DEF PipeReadEnd
<1>9. CASE CommitBlob
  BY <1>1, <1>9 DEF CommitBlob
<1>10. CASE GoroutineClose
  BY <1>1, <1>10 DEF GoroutineClose
<1>11. CASE DecompressEnd
  BY <1>1, <1>11 DEF DecompressEnd
<1>12. CASE CopyInput
  BY <1>1, <1>12 DEF CopyInput
<1>13. CASE CompressWriteError
  BY <1>1, <1>13 DEF CompressWriteError
<1>14. CASE MainClose
  BY <1>1, <1>14 DEF MainClose
<1>15. CASE Receive
  BY <1>1, <1>15 DEF Receive
<1>16. CASE UNCHANGED vars
  BY <1>1, <1>16 DEF vars
<1>17. QED
  BY <1>2, <1>3, <1>4, <1>5, <1>6, <1>7, <1>8, <1>9, <1>10, <1>11, <1>12,
     <1>13, <1>14, <1>15, <1>16, NextCases

\* Whichever function saveArchive calls, a return without a committed blob
\* happens only when writeBlobAndReturnDigest failed in the goroutine: main's
\* own steps never lose the blob.  For compressAndWriteBlob this is exactly
\* the error its caller does not see (the blobpipe_lost_error finding).
THEOREM UnstoredOnlyOnGoroutineError ==
    Spec => [](result # "none" /\ ~stored => gErr)
<1>1. Init => GInv
  BY RInvInit DEF RInv, GInv, Init
<1>2. GInv => (result # "none" /\ ~stored => gErr)
  BY DEF GInv
<1>3. QED
  BY <1>1, <1>2, GInvStep, PTL DEF Spec

====
