------------------------------ MODULE BlobPipe ------------------------------
(***************************************************************************)
(* The two pipe protocols of saveArchive (src/daemon/containerd/           *)
(* image_import.go).  Each runs the calling goroutine ("main") and one     *)
(* goroutine it starts ("g"), joined by an io.Pipe and an unbuffered       *)
(* channel that carries only the digest g computed.                        *)
(*                                                                         *)
(*  writeCompressedBlob:  g reads the input, tees it into the pipe and      *)
(*     writes it to the content store; main decompresses the pipe into a   *)
(*     digester.                                                           *)
(*  compressAndWriteBlob: main reads the input into a gzip compressor that *)
(*     writes into the pipe; g writes the pipe to the content store.       *)
(*                                                                         *)
(* The data is abstracted to a count of chunks.  io.Pipe is synchronous: a *)
(* write completes only together with a read, and fails once the reading  *)
(* end is closed; a read returns the writing end's close error, or EOF.   *)
(***************************************************************************)
EXTENDS Naturals

CONSTANTS
    Modes,      \* which of the two functions saveArchive may call
    Chunks,     \* length of the input, in chunks
    Faults      \* which calls may fail

ASSUME ConstAssumption ==
    /\ Modes \subseteq {"writeCompressedBlob", "compressAndWriteBlob"}
    /\ Chunks \in Nat \ {0}
    /\ Faults \subseteq {"Open", "Input", "Decode", "Ingest", "Commit"}

VARIABLES
    mode,       \* the function running, "none" before saveArchive calls one
    mpc,        \* main's place
    gpc,        \* g's place
    left,       \* input chunks not read yet
    prClosed,   \* the pipe's reading end: "open", or closed with "nil"/"err"
    pwClosed,   \* the pipe's writing end, likewise
    mErr,       \* main's err is non-nil
    gErr,       \* g's err is non-nil
    stored,     \* the blob is committed in the content store
    result      \* what the function returned: "none", "ok" or "err"

vars == <<mode, mpc, gpc, left, prClosed, pwClosed, mErr, gErr, stored, result>>

Closes == {"open", "nil", "err"}

TypeOK ==
    /\ mode \in Modes \cup {"none"}
    /\ mpc \in {"idle", "read", "copy", "write", "trailer", "close", "recv", "end"}
    /\ gpc \in {"idle", "open", "read", "write", "commit", "close", "send", "end"}
    /\ left \in 0..Chunks
    /\ prClosed \in Closes /\ pwClosed \in Closes
    /\ mErr \in BOOLEAN /\ gErr \in BOOLEAN /\ stored \in BOOLEAN
    /\ result \in {"none", "ok", "err"}

W1 == mode = "writeCompressedBlob"
W2 == mode = "compressAndWriteBlob"

Init ==
    /\ mode = "none"
    /\ mpc = "idle"
    /\ gpc = "idle"
    /\ left = Chunks
    /\ prClosed = "open" /\ pwClosed = "open"
    /\ mErr = FALSE /\ gErr = FALSE /\ stored = FALSE
    /\ result = "none"

CloseWith(err) == IF err THEN "err" ELSE "nil"

\* The call: io.Pipe, the channel and the goroutine are created (for
\* compressAndWriteBlob after the compressor, whose creation cannot fail
\* for gzip).
StartPipe(m) ==
    /\ mpc = "idle"
    /\ mode' = m
    /\ mpc' = IF m = "writeCompressedBlob" THEN "read" ELSE "copy"
    /\ gpc' = "open"
    /\ UNCHANGED <<left, prClosed, pwClosed, mErr, gErr, stored, result>>

-----------------------------------------------------------------------------
(* g: writeBlobAndReturnDigest, then closing its end and sending.          *)

\* content.WriteBlob opens a writer on the content store.
OpenWriter ==
    /\ gpc = "open"
    /\ \/ /\ gpc' = "read"
          /\ UNCHANGED gErr
       \/ /\ "Open" \in Faults
          /\ gErr' = TRUE
          /\ gpc' = "close"
    /\ UNCHANGED <<mode, mpc, left, prClosed, pwClosed, mErr, stored, result>>

\* writeCompressedBlob, g: the TeeReader reads the next input chunk; at the
\* end of the input WriteBlob commits.
TeeRead ==
    /\ W1 /\ gpc = "read"
    /\ \/ /\ left > 0
          /\ left' = left - 1
          /\ gpc' = "write"
          /\ UNCHANGED gErr
       \/ /\ left = 0
          /\ gpc' = "commit"
          /\ UNCHANGED <<left, gErr>>
       \/ /\ "Input" \in Faults
          /\ gErr' = TRUE
          /\ gpc' = "close"
          /\ UNCHANGED left
    /\ UNCHANGED <<mode, mpc, prClosed, pwClosed, mErr, stored, result>>

\* writeCompressedBlob: the tee's write into the pipe meets main's read; the
\* decompressor may reject what it reads, and the content writer may fail
\* on the chunk the tee passes on.
TeeTransfer ==
    /\ W1 /\ gpc = "write" /\ mpc = "read" /\ prClosed = "open"
    /\ \/ /\ gpc' = "read"
          /\ UNCHANGED gErr
       \/ /\ "Ingest" \in Faults
          /\ gErr' = TRUE
          /\ gpc' = "close"
    /\ \/ UNCHANGED <<mpc, mErr>>
       \/ /\ "Decode" \in Faults
          /\ mErr' = TRUE
          /\ mpc' = "close"
    /\ UNCHANGED <<mode, left, prClosed, pwClosed, stored, result>>

\* writeCompressedBlob: the tee's write fails on a pipe main has closed.
TeeWriteError ==
    /\ W1 /\ gpc = "write" /\ prClosed # "open"
    /\ gErr' = TRUE
    /\ gpc' = "close"
    /\ UNCHANGED <<mode, mpc, left, prClosed, pwClosed, mErr, stored, result>>

\* compressAndWriteBlob: g's read of the pipe meets a write of main's
\* compressor, during the copy or from compressor.Close; the content writer
\* may fail on the chunk.
PipeTransfer ==
    /\ W2 /\ gpc = "read" /\ mpc \in {"write", "trailer"} /\ pwClosed = "open"
    /\ mpc' = IF mpc = "write" THEN "copy" ELSE "close"
    /\ \/ UNCHANGED <<gpc, gErr>>
       \/ /\ "Ingest" \in Faults
          /\ gErr' = TRUE
          /\ gpc' = "close"
    /\ UNCHANGED <<mode, left, prClosed, pwClosed, mErr, stored, result>>

\* compressAndWriteBlob: g's read returns EOF or main's error.
PipeReadEnd ==
    /\ W2 /\ gpc = "read" /\ pwClosed # "open"
    /\ gErr' = (pwClosed = "err")
    /\ gpc' = IF pwClosed = "err" THEN "close" ELSE "commit"
    /\ UNCHANGED <<mode, mpc, left, prClosed, pwClosed, mErr, stored, result>>

\* WriteBlob commits the ingested data.
CommitBlob ==
    /\ gpc = "commit"
    /\ gpc' = "close"
    /\ \/ /\ stored' = TRUE
          /\ UNCHANGED gErr
       \/ /\ "Commit" \in Faults
          /\ gErr' = TRUE
          /\ UNCHANGED stored
    /\ UNCHANGED <<mode, mpc, left, prClosed, pwClosed, mErr, result>>

\* Mutant: g closes its end with Close(), dropping its error.
GoroutineCloseNil ==
    /\ gpc = "close"
    /\ IF W1 THEN /\ pwClosed' = "nil" /\ UNCHANGED prClosed
             ELSE /\ prClosed' = "nil" /\ UNCHANGED pwClosed
    /\ gpc' = "send"
    /\ UNCHANGED <<mode, mpc, left, mErr, gErr, stored, result>>

\* g closes its end of the pipe with its error: pw in writeCompressedBlob,
\* pr in compressAndWriteBlob.
GoroutineClose ==
    /\ gpc = "close"
    /\ IF W1 THEN /\ pwClosed' = CloseWith(gErr) /\ UNCHANGED prClosed
             ELSE /\ prClosed' = CloseWith(gErr) /\ UNCHANGED pwClosed
    /\ gpc' = "send"
    /\ UNCHANGED <<mode, mpc, left, mErr, gErr, stored, result>>

-----------------------------------------------------------------------------
(* main.                                                                   *)

\* writeCompressedBlob: main's read of the pipe returns EOF or g's error.
DecompressEnd ==
    /\ W1 /\ mpc = "read" /\ pwClosed # "open"
    /\ mErr' = (pwClosed = "err")
    /\ mpc' = "close"
    /\ UNCHANGED <<mode, gpc, left, prClosed, pwClosed, gErr, stored, result>>

\* compressAndWriteBlob: io.Copy reads the next input chunk into the
\* compressor, which may keep it buffered or write into the pipe; at the end
\* of the input, or on a read error, the copy stops and compressor.Close
\* follows.
CopyInput ==
    /\ W2 /\ mpc = "copy"
    /\ \/ /\ left > 0
          /\ left' = left - 1
          /\ mpc' \in {"copy", "write"}
          /\ UNCHANGED mErr
       \/ /\ left = 0
          /\ mpc' = "trailer"
          /\ UNCHANGED <<left, mErr>>
       \/ /\ "Input" \in Faults
          /\ mErr' = TRUE
          /\ mpc' = "trailer"
          /\ UNCHANGED left
    /\ UNCHANGED <<mode, gpc, prClosed, pwClosed, gErr, stored, result>>

\* compressAndWriteBlob: a compressor write into a pipe g has closed fails;
\* during the copy the error ends io.Copy, while the error compressor.Close
\* returns is ignored.
CompressWriteError ==
    /\ W2 /\ mpc \in {"write", "trailer"} /\ prClosed # "open"
    /\ mErr' = IF mpc = "write" THEN TRUE ELSE mErr
    /\ mpc' = IF mpc = "write" THEN "trailer" ELSE "close"
    /\ UNCHANGED <<mode, gpc, left, prClosed, pwClosed, gErr, stored, result>>

\* Mutant: main goes straight to the channel without closing its end.
MainCloseKeepingPipe ==
    /\ mpc = "close"
    /\ mpc' = "recv"
    /\ UNCHANGED <<mode, gpc, left, prClosed, pwClosed, mErr, gErr, stored, result>>

\* main closes its end of the pipe with its error: pr in
\* writeCompressedBlob, pw in compressAndWriteBlob.
MainClose ==
    /\ mpc = "close"
    /\ IF W1 THEN /\ prClosed' = CloseWith(mErr) /\ UNCHANGED pwClosed
             ELSE /\ pwClosed' = CloseWith(mErr) /\ UNCHANGED prClosed
    /\ mpc' = "recv"
    /\ UNCHANGED <<mode, gpc, left, mErr, gErr, stored, result>>

\* The digest passes over the unbuffered channel; main returns its own error
\* if it has one, and the digests otherwise.
Receive ==
    /\ mpc = "recv" /\ gpc = "send"
    /\ mpc' = "end" /\ gpc' = "end"
    /\ result' = IF mErr THEN "err" ELSE "ok"
    /\ UNCHANGED <<mode, left, prClosed, pwClosed, mErr, gErr, stored>>

PipeNext ==
    \/ OpenWriter \/ TeeRead \/ TeeTransfer \/ TeeWriteError \/ PipeTransfer
    \/ PipeReadEnd \/ CommitBlob \/ GoroutineClose
    \/ DecompressEnd \/ CopyInput \/ CompressWriteError \/ MainClose \/ Receive

Next == (\E m \in Modes : StartPipe(m)) \/ PipeNext

\* Blocked pipe and channel operations proceed as soon as their peer is
\* there: the Go scheduler runs every runnable goroutine.
Spec == Init /\ [][Next]_vars /\ WF_vars(Next)

-----------------------------------------------------------------------------
(* Properties.                                                             *)

\* The function implements a blob write: success is returned only for a
\* blob committed to the content store, and nothing is committed after it
\* returns.
Abstract == INSTANCE BlobWrite

BlobWriteSpec == Abstract!Spec

\* Both goroutines finish on every path, errors included: neither blocks for
\* ever on the pipe or the channel.
Terminates == <>(mpc = "end" /\ gpc = "end")

=============================================================================
