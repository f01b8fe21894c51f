----------------------------- MODULE PullLeases -----------------------------
(***************************************************************************)
(* Leases for pulled content (src/daemon/images/store.go).                 *)
(*                                                                         *)
(* Each pull wraps the content store in a contentStoreForPull that records *)
(* under a mutex the digests it committed or found already present         *)
(* (addDigested), and the image config store in an imageStoreForPull whose *)
(* Put and Get call updateLease: create or reuse the lease named after the *)
(* image, snapshot the recorded digests (getDigested) and add each to the  *)
(* lease.  imageStoreWithLease.Delete removes the lease, then the image.   *)
(*                                                                         *)
(* The environment: content written during a pull is held by the pull's    *)
(* temporary lease (containerd also adds a blob found to exist to it) until *)
(* the pull ends; the puller fetches every blob before it calls Put and may *)
(* call Get first when the config is already stored; containerd's garbage  *)
(* collector removes any committed blob that no lease holds.               *)
(***************************************************************************)
EXTENDS FiniteSets

CONSTANTS
    Pulls,      \* pull operations, each with its own wrappers
    Images,     \* image ids (config digests), which name the leases
    Digests,    \* content blobs
    ImageOf,    \* the image each pull fetches
    BlobsOf,    \* the blobs the puller writes for an image
    Faults      \* the store and lease calls that may return an error

FaultKinds == {"Commit", "LeaseCreate", "AddResource", "StoreDelete"}

ASSUME ConstAssumption ==
    /\ ImageOf \in [Pulls -> Images]
    /\ BlobsOf \in [Images -> SUBSET Digests]
    /\ Faults \subseteq FaultKinds

VARIABLES
    content,    \* committed blobs in the content store
    leased,     \* image leases that exist
    lease,      \* the resources of each image lease
    images,     \* the image store
    deleting,   \* images whose Delete removed the lease, Store.Delete pending
    pc,         \* where each pull is
    todo,       \* blobs the puller has not opened a writer for yet
    open,       \* writers opened by contentStoreForPull.Writer, not committed
    digested,   \* contentStoreForPull.digested
    tmp,        \* the pull's temporary lease
    pending,    \* the getDigested snapshot updateLease has still to add
    ret         \* where updateLease returns to: after Get or after Put

vars == <<content, leased, lease, images, deleting, pc, todo, open, digested,
          tmp, pending, ret>>

PullPCs == {"idle", "fetch", "create", "add", "done", "failed"}

TypeOK ==
    /\ content \subseteq Digests
    /\ leased \subseteq Images
    /\ lease \in [Images -> SUBSET Digests]
    /\ images \subseteq Images
    /\ deleting \subseteq Images
    /\ pc \in [Pulls -> PullPCs]
    /\ todo \in [Pulls -> SUBSET Digests]
    /\ open \in [Pulls -> SUBSET Digests]
    /\ digested \in [Pulls -> SUBSET Digests]
    /\ tmp \in [Pulls -> SUBSET Digests]
    /\ pending \in [Pulls -> SUBSET Digests]
    /\ ret \in [Pulls -> {"fetch", "done"}]

Init ==
    /\ content = {}
    /\ leased = {}
    /\ lease = [i \in Images |-> {}]
    /\ images = {}
    /\ deleting = {}
    /\ pc = [p \in Pulls |-> "idle"]
    /\ todo = [p \in Pulls |-> {}]
    /\ open = [p \in Pulls |-> {}]
    /\ digested = [p \in Pulls |-> {}]
    /\ tmp = [p \in Pulls |-> {}]
    /\ pending = [p \in Pulls |-> {}]
    /\ ret = [p \in Pulls |-> "done"]

-----------------------------------------------------------------------------
(* The puller.                                                             *)

StartPull(p) ==
    /\ pc[p] = "idle"
    /\ pc' = [pc EXCEPT ![p] = "fetch"]
    /\ todo' = [todo EXCEPT ![p] = BlobsOf[ImageOf[p]]]
    /\ UNCHANGED <<content, leased, lease, images, deleting, open, digested,
                   tmp, pending, ret>>

\* A pull that returns an error; its temporary lease is released.
PullFails(p) ==
    /\ pc' = [pc EXCEPT ![p] = "failed"]
    /\ tmp' = [tmp EXCEPT ![p] = {}]

\* Mutant: the AlreadyExists error of Writer is returned without recording
\* the digest.
WriterIgnoringExisting(p, d) ==
    /\ pc[p] = "fetch"
    /\ d \in todo[p]
    /\ todo' = [todo EXCEPT ![p] = @ \ {d}]
    /\ IF d \in content
         THEN /\ tmp' = [tmp EXCEPT ![p] = @ \cup {d}]
              /\ UNCHANGED <<open, digested>>
         ELSE /\ open' = [open EXCEPT ![p] = @ \cup {d}]
              /\ UNCHANGED <<digested, tmp>>
    /\ UNCHANGED <<content, leased, lease, images, deleting, pc, pending, ret>>

\* Mutant: Writer records the digest as soon as the writer is opened.
WriterRecordingOnOpen(p, d) ==
    /\ pc[p] = "fetch"
    /\ d \in todo[p]
    /\ todo' = [todo EXCEPT ![p] = @ \ {d}]
    /\ digested' = [digested EXCEPT ![p] = @ \cup {d}]
    /\ IF d \in content
         THEN /\ tmp' = [tmp EXCEPT ![p] = @ \cup {d}]
              /\ UNCHANGED open
         ELSE /\ open' = [open EXCEPT ![p] = @ \cup {d}]
              /\ UNCHANGED tmp
    /\ UNCHANGED <<content, leased, lease, images, deleting, pc, pending, ret>>

\* contentStoreForPull.Writer: a blob that is already committed makes the
\* store return AlreadyExists, and the digest is recorded; otherwise a writer
\* is opened.
Writer(p, d) ==
    /\ pc[p] = "fetch"
    /\ d \in todo[p]
    /\ todo' = [todo EXCEPT ![p] = @ \ {d}]
    /\ IF d \in content
         THEN /\ digested' = [digested EXCEPT ![p] = @ \cup {d}]
              /\ tmp' = [tmp EXCEPT ![p] = @ \cup {d}]
              /\ UNCHANGED open
         ELSE /\ open' = [open EXCEPT ![p] = @ \cup {d}]
              /\ UNCHANGED <<digested, tmp>>
    /\ UNCHANGED <<content, leased, lease, images, deleting, pc, pending, ret>>

\* contentWriter.Commit: the digest is recorded when the commit succeeds or
\* another writer committed the same blob first (AlreadyExists).
Commit(p, d) ==
    /\ pc[p] = "fetch"
    /\ d \in open[p]
    /\ open' = [open EXCEPT ![p] = @ \ {d}]
    /\ \/ /\ content' = content \cup {d}
          /\ digested' = [digested EXCEPT ![p] = @ \cup {d}]
          /\ tmp' = [tmp EXCEPT ![p] = @ \cup {d}]
          /\ UNCHANGED pc
       \/ /\ "Commit" \in Faults
          /\ PullFails(p)
          /\ UNCHANGED <<content, digested>>
    /\ UNCHANGED <<leased, lease, images, deleting, todo, pending, ret>>

\* imageStoreForPull.Get of a stored config, then updateLease.
Get(p) ==
    /\ pc[p] = "fetch"
    /\ ImageOf[p] \in images
    /\ pc' = [pc EXCEPT ![p] = "create"]
    /\ ret' = [ret EXCEPT ![p] = "fetch"]
    /\ UNCHANGED <<content, leased, lease, images, deleting, todo, open,
                   digested, tmp, pending>>

\* imageStoreForPull.Put: the config is stored, then updateLease.
Put(p) ==
    /\ pc[p] = "fetch"
    /\ todo[p] = {} /\ open[p] = {}
    /\ images' = images \cup {ImageOf[p]}
    /\ pc' = [pc EXCEPT ![p] = "create"]
    /\ ret' = [ret EXCEPT ![p] = "done"]
    /\ UNCHANGED <<content, leased, lease, deleting, todo, open, digested,
                   tmp, pending>>

\* updateLease: leases.Create, where AlreadyExists reuses the lease, then
\* the getDigested snapshot.  Any other Create error (the store's own
\* failure) returns, whether or not the lease exists.
LeaseCreate(p) ==
    LET i == ImageOf[p] IN
    /\ pc[p] = "create"
    /\ \/ /\ leased' = leased \cup {i}
          /\ pending' = [pending EXCEPT ![p] = digested[p]]
          /\ pc' = [pc EXCEPT ![p] = "add"]
          /\ UNCHANGED tmp
       \/ /\ "LeaseCreate" \in Faults
          /\ PullFails(p)
          /\ UNCHANGED <<leased, pending>>
    /\ UNCHANGED <<content, lease, images, deleting, todo, open, digested, ret>>

\* updateLease: leases.AddResource for one digest of the snapshot; the loop
\* returns on the first error.
AddResource(p, d) ==
    LET i == ImageOf[p] IN
    /\ pc[p] = "add"
    /\ d \in pending[p]
    /\ \/ /\ i \in leased
          /\ lease' = [lease EXCEPT ![i] = @ \cup {d}]
          /\ pending' = [pending EXCEPT ![p] = @ \ {d}]
          /\ UNCHANGED <<pc, tmp>>
       \/ /\ i \notin leased \/ "AddResource" \in Faults
          /\ PullFails(p)
          /\ UNCHANGED <<lease, pending>>
    /\ UNCHANGED <<content, leased, images, deleting, todo, open, digested, ret>>

\* updateLease returns nil; after Put the pull ends and its temporary lease
\* is released.
LeaseUpdated(p) ==
    /\ pc[p] = "add"
    /\ pending[p] = {}
    /\ pc' = [pc EXCEPT ![p] = ret[p]]
    /\ tmp' = IF ret[p] = "done" THEN [tmp EXCEPT ![p] = {}] ELSE tmp
    /\ UNCHANGED <<content, leased, lease, images, deleting, todo, open,
                   digested, pending, ret>>

-----------------------------------------------------------------------------
(* imageStoreWithLease.Delete and the garbage collector.                   *)

\* leases.Delete (NotFound is ignored), the first half of Delete.
DeleteLease(i) ==
    /\ i \in images \ deleting
    /\ leased' = leased \ {i}
    /\ lease' = [lease EXCEPT ![i] = {}]
    /\ deleting' = deleting \cup {i}
    /\ UNCHANGED <<content, images, pc, todo, open, digested, tmp, pending, ret>>

\* Store.Delete, which may fail and leave the image in the store.
StoreDelete(i) ==
    /\ i \in deleting
    /\ deleting' = deleting \ {i}
    /\ \/ images' = images \ {i}
       \/ /\ "StoreDelete" \in Faults
          /\ UNCHANGED images
    /\ UNCHANGED <<content, leased, lease, pc, todo, open, digested, tmp,
                   pending, ret>>

\* The collector removes a committed blob that no lease holds.
Held == (UNION {lease[i] : i \in leased}) \cup (UNION {tmp[p] : p \in Pulls})

CollectGarbage(d) ==
    /\ d \in content \ Held
    /\ content' = content \ {d}
    /\ UNCHANGED <<leased, lease, images, deleting, pc, todo, open, digested,
                   tmp, pending, ret>>

Next ==
    \/ \E p \in Pulls :
          \/ StartPull(p) \/ Get(p) \/ Put(p) \/ LeaseCreate(p)
          \/ LeaseUpdated(p)
          \/ \E d \in Digests : Writer(p, d) \/ Commit(p, d) \/ AddResource(p, d)
    \/ \E i \in Images : DeleteLease(i) \/ StoreDelete(i)
    \/ \E d \in Digests : CollectGarbage(d)

Spec == Init /\ [][Next]_vars

-----------------------------------------------------------------------------
(* Properties.                                                             *)

\* A stored image that no Delete is removing keeps every blob in the
\* content store once its pulls have settled: some pull of it fetched to
\* the end, or none is between Put (or Get) and the end of updateLease.
\* The digests that Writer and Commit recorded reach the image's lease
\* before the pull's temporary lease is released, so no collection removes
\* them -- a pull whose updateLease fails after Put leaves the image with
\* no such lease.
ImageContentRetained ==
    \A i \in images \ deleting :
        (\/ \E p \in Pulls : ImageOf[p] = i /\ pc[p] = "done"
         \/ \A p \in Pulls : ImageOf[p] = i => pc[p] \notin {"create", "add"})
            => BlobsOf[i] \subseteq content

\* Whatever fails, an image lease names only blobs that are in the content
\* store: updateLease adds only digests recorded after a commit or an
\* AlreadyExists, which the pull's temporary lease held until then.
LeaseRefersToContent ==
    \A i \in leased : lease[i] \subseteq content

\* A lease exists only for an image in the store or for one a pull is
\* fetching: once imageStoreWithLease.Delete has removed an image, no lease
\* named after it is left to hold its blobs forever.
NoOrphanLease ==
    \A i \in leased :
        i \in images \/ \E p \in Pulls : ImageOf[p] = i /\ pc[p] \in {"fetch", "create", "add"}

=============================================================================
