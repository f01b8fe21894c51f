------------------------- MODULE ImageImportProofs -------------------------
(***************************************************************************)
(* Proof that ImportImage reports success only for an unpacked image whose *)
(* layer, config and manifest survive the release of the import lease,     *)
(* whichever pipe protocol saveArchive uses and whichever calls fail; and  *)
(* that within ImportImage the tee pipe still implements a blob write.     *)
(***************************************************************************)
EXTENDS ImageImport, BlobPipeProofs, TLAPS

USE ConstAssumption, ImportAssumption

\* The places of ImportImage after the image is unpacked.
Released == {"release", "done"}

\* The strengthening of ImportOKComplete.  An unpacked image was created
\* from a manifest labelled with both other blobs, ImportImage is past the
\* point where it could store another manifest, and all three blobs are in
\* the content store.  Between storeJson of the manifest and unpackImage the
\* labels are set, and the image record exists once createOrReplaceImage
\* returned; from then on ImportImage never stores another manifest.
\* Success is returned only for an unpacked image.
IInv ==
    /\ ImportTypeOK
    /\ unpacked =>
          /\ image
          /\ refs = {"config", "layer"}
          /\ ipc \in Released
          /\ \A b \in Blobs : Present(b)
    /\ ipc \in {"create", "unpack"} => refs = {"config", "layer"}
    /\ ipc = "unpack" => image
    /\ image => refs = {"config", "layer"} /\ ipc \in {"unpack"} \cup Released
    /\ iresult = "ok" => unpacked

\* Every step of ImportSpec is one of these, or a stutter.
LEMMA ImportNextCases ==
    ASSUME ImportNext
    PROVE  \/ WithLease \/ BuildFromConfig \/ SaveArchive \/ SaveArchiveReturn
           \/ FillUncompressedLabel \/ StoreConfig \/ StoreManifest
           \/ CreateOrReplaceImage \/ UnpackImage \/ ReleaseLease
           \/ PipeStep
           \/ \E b \in Blobs : CollectGarbage(b)
BY DEF ImportNext, ImportStep

\* A step of either goroutine keeps the pipe's variables well typed and
\* never takes back a committed blob.
LEMMA PipeTypeStep ==
    ASSUME TypeOK, PipeNext
    PROVE  TypeOK' /\ (stored => stored')
<1> USE DEF TypeOK, Closes
<1>1. CASE OpenWriter
  BY <1>1 DEF OpenWriter
<1>2. CASE TeeRead
  <2>1. CASE left > 0 /\ left' = left - 1 /\ gpc' = "write" /\ UNCHANGED gErr
    BY <1>2, <2>1 DEF TeeRead
  <2>2. CASE left = 0 /\ gpc' = "commit" /\ UNCHANGED <<left, gErr>>
    BY <1>2, <2>2 DEF TeeRead
  <2>3. CASE gErr' = TRUE /\ gpc' = "close" /\ UNCHANGED left
    BY <1>2, <2>3 DEF TeeRead
  <2>4. QED
    BY <1>2, <2>1, <2>2, <2>3 DEF TeeRead
<1>3. CASE TeeTransfer
  BY <1>3 DEF TeeTransfer
<1>4. CASE TeeWriteError
  BY <1>4 DEF TeeWriteError
<1>5. CASE PipeTransfer
  BY <1>5 DEF PipeTransfer
<1>6. CASE PipeReadEnd
  BY <1>6 DEF PipeReadEnd
<1>7. CASE CommitBlob
  BY <1>7 DEF CommitBlob
<1>8. CASE GoroutineClose
  BY <1>8 DEF GoroutineClose, CloseWith
<1>9. CASE DecompressEnd
  BY <1>9 DEF DecompressEnd
<1>10. CASE CopyInput
  <2>1. CASE left > 0 /\ left' = left - 1 /\ mpc' \in {"copy", "write"} /\ UNCHANGED mErr
    BY <1>10, <2>1 DEF CopyInput
  <2>2. CASE left = 0 /\ mpc' = "trailer" /\ UNCHANGED <<left, mErr>>
    BY <1>10, <2>2 DEF CopyInput
  <2>3. CASE mErr' = TRUE /\ mpc' = "trailer" /\ UNCHANGED left
    BY <1>10, <2>3 DEF CopyInput
  <2>4. QED
    BY <1>10, <2>1, <2>2, <2>3 DEF CopyInput
<1>11. CASE CompressWriteError
  BY <1>11 DEF CompressWriteError
<1>12. CASE MainClose
  BY <1>12 DEF MainClose, CloseWith
<1>13. CASE Receive
  BY <1>13 DEF Receive
<1>14. QED
  BY <1>1, <1>2, <1>3, <1>4, <1>5, <1>6, <1>7, <1>8, <1>9, <1>10, <1>11, <1>12, <1>13 DEF PipeNext

LEMMA IInvInit == ImportInit => IInv
<1> SUFFICES ASSUME ImportInit PROVE IInv
  OBVIOUS
<1>1. TypeOK
  <2>1. left \in 0..Chunks
    BY DEF ImportInit, Init
  <2>2. QED
    BY <2>1 DEF ImportInit, Init, TypeOK, Closes
<1>2. QED
  BY <1>1 DEF ImportInit, IInv, ImportTypeOK

\* A step of ImportImage or of the collector leaves the pipe alone.
LEMMA TypeUnchanged ==
    ASSUME TypeOK, UNCHANGED vars
    PROVE  TypeOK'
BY DEF TypeOK, vars

LEMMA IInvStep == IInv /\ [ImportNext]_allVars => IInv'
<1> SUFFICES ASSUME IInv, [ImportNext]_allVars PROVE IInv'
  OBVIOUS
<1> USE DEF IInv, ImportTypeOK, TypeOK, Closes, Released, Blobs, vars
<1>1. CASE WithLease
  <2>1. ~unpacked /\ ~unpacked'
    BY <1>1 DEF WithLease
  <2>2. TypeOK'
    BY <1>1, TypeUnchanged DEF WithLease
  <2>3. QED
    BY <1>1, <2>1, <2>2 DEF WithLease
<1>2. CASE BuildFromConfig
  BY <1>2 DEF BuildFromConfig, Fail, Present
<1>3. CASE SaveArchive
  <2>1. TypeOK'
    <3>1. CASE UNCHANGED vars
      BY <3>1 DEF vars
    <3>2. ASSUME NEW c \in Inputs, StartPipe(ModeOf(c)) PROVE TypeOK'
      BY <3>2 DEF StartPipe, TypeOK
    <3>3. QED
      BY <1>3, <3>1, <3>2 DEF SaveArchive
  <2>2. ~unpacked /\ unpacked' = unpacked /\ iresult' # "ok"
    BY <1>3 DEF SaveArchive, Fail
  <2>3. QED
    BY <1>3, <2>1, <2>2 DEF SaveArchive, Fail
<1>4. CASE SaveArchiveReturn
  BY <1>4 DEF SaveArchiveReturn, Fail, Present
<1>5. CASE FillUncompressedLabel
  BY <1>5 DEF FillUncompressedLabel, Fail, Present
<1>6. CASE StoreConfig
  <2>1. ~unpacked /\ ~unpacked'
    BY <1>6 DEF StoreConfig
  <2>2. TypeOK'
    BY <1>6, TypeUnchanged DEF StoreConfig
  <2>3. QED
    BY <1>6, <2>1, <2>2 DEF StoreConfig, Fail
<1>7. CASE StoreManifest
  <2>1. ~unpacked /\ ~unpacked'
    BY <1>7 DEF StoreManifest
  <2>2. TypeOK'
    BY <1>7, TypeUnchanged DEF StoreManifest
  <2>3. QED
    BY <1>7, <2>1, <2>2 DEF StoreManifest, Fail
<1>8. CASE CreateOrReplaceImage
  <2>1. ~unpacked /\ ~unpacked'
    BY <1>8 DEF CreateOrReplaceImage
  <2>2. TypeOK'
    BY <1>8, TypeUnchanged DEF CreateOrReplaceImage
  <2>3. QED
    BY <1>8, <2>1, <2>2 DEF CreateOrReplaceImage, Fail
<1>9. CASE UnpackImage
  <2>1. ~unpacked /\ UNCHANGED <<stored, written, collected, refs, image>>
    BY <1>9 DEF UnpackImage
  <2>2. TypeOK'
    BY <1>9, TypeUnchanged DEF UnpackImage
  <2>3. CASE /\ \A b \in Blobs : Present(b)
             /\ unpacked' = TRUE
             /\ iresult' = "ok"
    <3>1. \A b \in Blobs : Present(b)'
      BY <2>1, <2>3 DEF Present
    <3>2. QED
      BY <1>9, <2>1, <2>2, <2>3, <3>1 DEF UnpackImage
  <2>4. CASE iresult' = "err" /\ UNCHANGED unpacked
    BY <1>9, <2>1, <2>2, <2>4 DEF UnpackImage
  <2>5. QED
    BY <1>9, <2>3, <2>4 DEF UnpackImage
<1>10. CASE ReleaseLease
  <2>1. UNCHANGED <<stored, written, collected, refs, image, unpacked, iresult>>
    BY <1>10 DEF ReleaseLease
  <2>2. unpacked => \A b \in Blobs : Present(b)'
    BY <2>1 DEF Present
  <2>3. TypeOK'
    BY <1>10, TypeUnchanged DEF ReleaseLease
  <2>4. ipc' = "done" /\ leaseHeld' \in BOOLEAN
    <3>1. CASE leaseHeld' = FALSE
      BY <1>10, <3>1 DEF ReleaseLease
    <3>2. CASE UNCHANGED leaseHeld
      BY <1>10, <3>2 DEF ReleaseLease, ImportTypeOK
    <3>3. QED
      BY <1>10, <3>1, <3>2 DEF ReleaseLease
  <2>5. ImportTypeOK'
    BY <2>1, <2>3, <2>4
  <2>6. QED
    BY <2>1, <2>2, <2>4, <2>5
<1>11. CASE PipeStep
  <2>1. TypeOK' /\ (stored => stored')
    BY <1>11, PipeTypeStep DEF PipeStep
  <2>2. UNCHANGED importVars
    BY <1>11 DEF PipeStep
  <2>3. QED
    BY <2>1, <2>2 DEF importVars, Present
<1>12. ASSUME NEW b \in Blobs, CollectGarbage(b) PROVE IInv'
  <2>1. ~unpacked
    BY <1>12 DEF CollectGarbage, Held
  <2>2. QED
    BY <1>12, <2>1 DEF CollectGarbage, Present
<1>13. CASE UNCHANGED allVars
  BY <1>13 DEF allVars, vars, importVars, Present
<1>14. QED
  BY <1>1, <1>2, <1>3, <1>4, <1>5, <1>6, <1>7, <1>8, <1>9, <1>10, <1>11,
     <1>12, <1>13, ImportNextCases

\* Every variable of ImportImage, of the pipe and of the collector keeps
\* its type along every behaviour.
THEOREM ImportTypeCorrect == ImportSpec => []ImportTypeOK
<1>1. IInv => ImportTypeOK
  BY DEF IInv
<1>2. QED
  BY <1>1, IInvInit, IInvStep, PTL DEF ImportSpec

\* ImportImage returns success only with an unpacked image whose layer,
\* config and manifest stay in the content store after the deferred release
\* of the lease, for every archive length, every compression and every set
\* of failing calls -- including the compressAndWriteBlob path, whose lost
\* goroutine error fillUncompressedLabel's cs.Info catches.
THEOREM ImportOKCompleteThm == ImportSpec => []ImportOKComplete
<1>1. IInv => ImportOKComplete
  BY DEF IInv, ImportOKComplete
<1>2. QED
  BY <1>1, IInvInit, IInvStep, PTL DEF ImportSpec

\* Only the deferred release drops the lease, and by then an image record
\* has the labels that hold all three blobs.
LEMMA ReleaseStep ==
    ASSUME IInv, [ImportNext]_allVars, leaseHeld, ~leaseHeld', image'
    PROVE  \A b \in Blobs : Held(b)'
<1>1. ReleaseLease
  BY ImportNextCases
     DEF WithLease, BuildFromConfig, SaveArchive, SaveArchiveReturn,
         FillUncompressedLabel, StoreConfig, StoreManifest,
         CreateOrReplaceImage, UnpackImage, PipeStep, CollectGarbage,
         allVars, importVars
<1>2. image /\ UNCHANGED <<image, refs>>
  BY <1>1 DEF ReleaseLease
<1>3. refs' = {"config", "layer"}
  BY <1>2 DEF IInv
<1>4. QED
  BY <1>2, <1>3 DEF Held, Blobs

\* When the deferred release drops the lease of an import that created the
\* image record, on success and on an unpack error alike, the image's gc.ref
\* labels alone hold its layer, config and manifest.
THEOREM ReleaseKeepsImageContentThm == ImportSpec => ReleaseKeepsImageContent
<1>1. IInv /\ [ImportNext]_allVars =>
        [leaseHeld /\ ~leaseHeld' /\ image' => \A b \in Blobs : Held(b)']_allVars
  BY ReleaseStep
<1>2. QED
  BY <1>1, IInvInit, IInvStep, PTL DEF ImportSpec, ReleaseKeepsImageContent

-----------------------------------------------------------------------------
(* The pipe inside ImportImage.                                            *)

\* Seen from the pipe's variables, a step of ImportSpec is a step of
\* BlobPipe: saveArchive's start of the pipe is StartPipe with the mode
\* ModeOf chose, the goroutines' steps are BlobPipe's, and every other step
\* of ImportImage or of the collector leaves the pipe alone.
LEMMA PipeProjection == [ImportNext]_allVars => [Next]_vars
<1> SUFFICES ASSUME [ImportNext]_allVars PROVE [Next]_vars
  OBVIOUS
<1>1. CASE SaveArchive
  <2>1. CASE UNCHANGED vars
    BY <2>1
  <2>2. ASSUME NEW c \in Inputs, StartPipe(ModeOf(c)) PROVE Next
    BY <2>2 DEF Next
  <2>3. QED
    BY <1>1, <2>1, <2>2 DEF SaveArchive
<1>2. CASE PipeStep
  BY <1>2 DEF PipeStep, Next
<1>3. ASSUME NEW b \in Blobs, CollectGarbage(b) PROVE UNCHANGED vars
  BY <1>3 DEF CollectGarbage
<1>4. CASE UNCHANGED allVars
  BY <1>4 DEF allVars
<1>5. QED
  BY <1>1, <1>2, <1>3, <1>4, ImportNextCases
     DEF WithLease, BuildFromConfig, SaveArchiveReturn, FillUncompressedLabel,
         StoreConfig, StoreManifest, CreateOrReplaceImage, UnpackImage,
         ReleaseLease

\* For gzip and zstd archives the layer write inside ImportImage is a blob
\* write: writeCompressedBlob returns success to saveArchive only for a
\* committed blob, returns once, and commits nothing after returning, while
\* the collector and the other steps of ImportImage run alongside.
THEOREM ImportTeeImplementsBlobWrite == OnlyTee => (ImportSpec => BlobWriteSpec)
<1> SUFFICES ASSUME OnlyTee PROVE ImportSpec => BlobWriteSpec
  OBVIOUS
<1>1. ImportInit => Abstract!Init
  BY DEF ImportInit, Init, Abstract!Init
<1>2. RInv /\ [ImportNext]_allVars => RInv'
  BY PipeProjection, RInvStep
<1>3. RInv /\ [ImportNext]_allVars => [Abstract!Next]_Abstract!vars
  BY PipeProjection, RefineStep
<1>4. QED
  BY <1>1, <1>2, <1>3, RInvInit, PTL
     DEF ImportSpec, ImportInit, BlobWriteSpec, Abstract!Spec

=============================================================================
