----------------------------- MODULE ImageImport -----------------------------
(***************************************************************************)
(* ImportImage (src/daemon/containerd/image_import.go): under a lease, the *)
(* layer archive is written to the content store by saveArchive (the pipe  *)
(* protocols of BlobPipe), labelled with its uncompressed digest, a config *)
(* and a manifest that references both are stored, the image record is     *)
(* created and unpacked, and the deferred release drops the lease.         *)
(* containerd's garbage collector runs concurrently: it removes a blob     *)
(* that neither a lease nor an image (through its manifest's gc.ref        *)
(* labels) holds.                                                          *)
(***************************************************************************)
EXTENDS BlobPipe

CONSTANTS
    Inputs,         \* compressions the layer archive may have
    ImportFaults    \* the calls of ImportImage that may fail

Compressions == {"Gzip", "Zstd", "Bzip2", "Xz", "None"}

\* The function saveArchive hands an archive of each compression to.
ModeOf(c) == IF c \in {"Gzip", "Zstd"} THEN "writeCompressedBlob"
                                      ELSE "compressAndWriteBlob"

ASSUME ImportAssumption ==
    /\ Inputs \subseteq Compressions
    /\ \A c \in Inputs : ModeOf(c) \in Modes
    /\ ImportFaults \subseteq {"Lease", "Changes", "Detect", "Decompress",
                                "Label", "Store", "Create", "Unpack",
                                "Release"}

Blobs == {"layer", "config", "manifest"}

VARIABLES
    ipc,        \* where ImportImage is
    leaseHeld,  \* the lease of WithLease exists
    written,    \* config and manifest blobs stored by storeJson
    refs,       \* blobs the stored manifest references by gc.ref label
    collected,  \* blobs the garbage collector removed
    image,      \* the image record exists
    unpacked,   \* the image is unpacked into the snapshotter
    iresult     \* what ImportImage returned

importVars == <<ipc, leaseHeld, written, refs, collected, image, unpacked, iresult>>
allVars == <<vars, importVars>>

ImportTypeOK ==
    /\ TypeOK
    /\ ipc \in {"lease", "changes", "detect", "save", "label", "config",
                "manifest", "create", "unpack", "release", "done"}
    /\ leaseHeld \in BOOLEAN
    /\ written \subseteq {"config", "manifest"}
    /\ refs \subseteq Blobs
    /\ collected \subseteq Blobs
    /\ image \in BOOLEAN /\ unpacked \in BOOLEAN
    /\ iresult \in {"none", "ok", "err"}

ImportInit ==
    /\ Init
    /\ ipc = "lease"
    /\ leaseHeld = FALSE
    /\ written = {}
    /\ refs = {}
    /\ collected = {}
    /\ image = FALSE /\ unpacked = FALSE
    /\ iresult = "none"

\* A blob is in the content store.
Present(b) ==
    /\ IF b = "layer" THEN stored ELSE b \in written
    /\ b \notin collected

\* The garbage collector keeps what the import lease holds (everything
\* written under it) and what the image reaches.
Held(b) == leaseHeld \/ (image /\ (b = "manifest" \/ b \in refs))

\* A step of ImportImage that returns an error; the deferred release runs
\* after it.
Fail == /\ iresult' = "err"
        /\ ipc' = "release"

-----------------------------------------------------------------------------
(* ImportImage.                                                            *)

\* client.WithLease.
WithLease ==
    /\ ipc = "lease"
    /\ \/ /\ leaseHeld' = TRUE
          /\ ipc' = "changes"
          /\ UNCHANGED iresult
       \/ /\ "Lease" \in ImportFaults
          /\ iresult' = "err"
          /\ ipc' = "done"
          /\ UNCHANGED leaseHeld
    /\ UNCHANGED <<vars, written, refs, collected, image, unpacked>>

\* dockerfile.BuildFromConfig on the changes.
BuildFromConfig ==
    /\ ipc = "changes"
    /\ \/ /\ ipc' = "detect"
          /\ UNCHANGED iresult
       \/ /\ "Changes" \in ImportFaults
          /\ Fail
    /\ UNCHANGED <<vars, leaseHeld, written, refs, collected, image, unpacked>>

\* saveArchive up to the pipe: detectCompression peeks at the archive;
\* bzip2 and xz archives are decompressed first; gzip and zstd archives go
\* to writeCompressedBlob, the others to compressAndWriteBlob.
SaveArchive ==
    /\ ipc = "detect"
    /\ \/ /\ "Detect" \in ImportFaults
          /\ Fail
          /\ UNCHANGED vars
       \/ \E c \in Inputs :
             \/ /\ c \in {"Bzip2", "Xz"} /\ "Decompress" \in ImportFaults
                /\ Fail
                /\ UNCHANGED vars
             \/ /\ StartPipe(ModeOf(c))
                /\ ipc' = "save"
                /\ UNCHANGED iresult
    /\ UNCHANGED <<leaseHeld, written, refs, collected, image, unpacked>>

\* saveArchive returns what the pipe function returned.
SaveArchiveReturn ==
    /\ ipc = "save"
    /\ result # "none"
    /\ IF result = "ok" THEN ipc' = "label" /\ UNCHANGED iresult ELSE Fail
    /\ UNCHANGED <<vars, leaseHeld, written, refs, collected, image, unpacked>>

\* fillUncompressedLabel: cs.Info fails for a digest the store does not
\* hold; then cs.Update sets the label.
FillUncompressedLabel ==
    /\ ipc = "label"
    /\ \/ /\ Present("layer")
          /\ ipc' = "config"
          /\ UNCHANGED iresult
       \/ /\ ~Present("layer") \/ "Label" \in ImportFaults
          /\ Fail
    /\ UNCHANGED <<vars, leaseHeld, written, refs, collected, image, unpacked>>

\* storeJson of the image config.
StoreConfig ==
    /\ ipc = "config"
    /\ \/ /\ written' = written \cup {"config"}
          /\ ipc' = "manifest"
          /\ UNCHANGED iresult
       \/ /\ "Store" \in ImportFaults
          /\ Fail
          /\ UNCHANGED written
    /\ UNCHANGED <<vars, leaseHeld, refs, collected, image, unpacked>>

\* Mutant: the manifest is stored without its gc.ref labels.
StoreManifestUnlabelled ==
    /\ ipc = "manifest"
    /\ \/ /\ written' = written \cup {"manifest"}
          /\ ipc' = "create"
          /\ UNCHANGED <<refs, iresult>>
       \/ /\ "Store" \in ImportFaults
          /\ Fail
          /\ UNCHANGED <<written, refs>>
    /\ UNCHANGED <<vars, leaseHeld, collected, image, unpacked>>

\* storeJson of the manifest, labelled gc.ref.content.config and
\* gc.ref.content.l.0.
StoreManifest ==
    /\ ipc = "manifest"
    /\ \/ /\ written' = written \cup {"manifest"}
          /\ refs' = {"config", "layer"}
          /\ ipc' = "create"
          /\ UNCHANGED iresult
       \/ /\ "Store" \in ImportFaults
          /\ Fail
          /\ UNCHANGED <<written, refs>>
    /\ UNCHANGED <<vars, leaseHeld, collected, image, unpacked>>

\* createOrReplaceImage.
CreateOrReplaceImage ==
    /\ ipc = "create"
    /\ \/ /\ image' = TRUE
          /\ ipc' = "unpack"
          /\ UNCHANGED iresult
       \/ /\ "Create" \in ImportFaults
          /\ Fail
          /\ UNCHANGED image
    /\ UNCHANGED <<vars, leaseHeld, written, refs, collected, unpacked>>

\* unpackImage reads the manifest, config and layer; ImportImage returns the
\* id together with an unpack error, leaving the image record in place.
UnpackImage ==
    /\ ipc = "unpack"
    /\ ipc' = "release"
    /\ \/ /\ \A b \in Blobs : Present(b)
          /\ unpacked' = TRUE
          /\ iresult' = "ok"
       \/ /\ (\E b \in Blobs : ~Present(b)) \/ "Unpack" \in ImportFaults
          /\ iresult' = "err"
          /\ UNCHANGED unpacked
    /\ UNCHANGED <<vars, leaseHeld, written, refs, collected, image>>

\* The deferred release of the lease; a failed release is only logged
\* ("failed to release lease created for import"): the lease stays until
\* containerd expires it, and ImportImage returns what it would have.
ReleaseLease ==
    /\ ipc = "release"
    /\ \/ leaseHeld' = FALSE
       \/ /\ "Release" \in ImportFaults
          /\ UNCHANGED leaseHeld
    /\ ipc' = "done"
    /\ UNCHANGED <<vars, written, refs, collected, image, unpacked, iresult>>

\* The garbage collector removes a blob nothing holds.
CollectGarbage(b) ==
    /\ Present(b) /\ ~Held(b)
    /\ collected' = collected \cup {b}
    /\ UNCHANGED <<vars, ipc, leaseHeld, written, refs, image, unpacked, iresult>>

ImportStep ==
    \/ WithLease \/ BuildFromConfig \/ SaveArchive \/ SaveArchiveReturn
    \/ FillUncompressedLabel \/ StoreConfig \/ StoreManifest
    \/ CreateOrReplaceImage \/ UnpackImage \/ ReleaseLease

PipeStep == PipeNext /\ UNCHANGED importVars

ImportNext == ImportStep \/ PipeStep \/ \E b \in Blobs : CollectGarbage(b)

\* The import and its goroutines are scheduled; the collector need not run.
ImportSpec ==
    /\ ImportInit /\ [][ImportNext]_allVars
    /\ WF_allVars(ImportStep) /\ WF_allVars(PipeStep)

-----------------------------------------------------------------------------
(* Properties.                                                             *)

\* An import that returns no error leaves an unpacked image whose layer,
\* config and manifest stay in the content store after the lease is gone:
\* a layer write whose error saveArchive lost is caught by cs.Info, and the
\* manifest's labels keep config and layer from the collector.
ImportOKComplete ==
    iresult = "ok" => image /\ unpacked /\ \A b \in Blobs : Present(b)

\* When the deferred release drops the import lease of an import that
\* created the image record -- whether ImportImage then returns success or
\* the error of unpackImage, which leaves the record in place -- the image
\* alone holds its layer, config and manifest: the gc.ref labels of the
\* stored manifest were in place before the lease went.
ReleaseKeepsImageContent ==
    [][leaseHeld /\ ~leaseHeld' /\ image' => \A b \in Blobs : Held(b)']_allVars

\* ImportImage returns on every path, whichever call fails: no goroutine of
\* saveArchive is left blocked on the pipe or the channel.  (Whether the
\* lease goes too is not claimed: a failed release leaves it to expire.)
ImportReturns == <>(ipc = "done")

=============================================================================
