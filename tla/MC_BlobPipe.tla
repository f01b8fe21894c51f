----------------------------- MODULE MC_BlobPipe -----------------------------
(* Two input chunks: enough for a transfer before and after a failure on   *)
(* either side, and for the compressor to buffer one chunk and flush the   *)
(* next.                                                                   *)
EXTENDS BlobPipe

MCFaults == {"Open", "Input", "Decode", "Ingest", "Commit"}
=============================================================================
