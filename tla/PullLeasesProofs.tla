------------------------- MODULE PullLeasesProofs -------------------------
(***************************************************************************)
(* Proofs about the pull leases of store.go (PullLeases), for all sets of  *)
(* pulls, images and digests and every assignment of blobs to images.      *)
(***************************************************************************)
EXTENDS PullLeases, TLAPS

USE ConstAssumption

\* Every step of the specification is one of these, or a stutter.
LEMMA NextCases ==
    ASSUME Next
    PROVE  \/ \E p \in Pulls : StartPull(p)
           \/ \E p \in Pulls : Get(p)
           \/ \E p \in Pulls : Put(p)
           \/ \E p \in Pulls : LeaseCreate(p)
           \/ \E p \in Pulls : LeaseUpdated(p)
           \/ \E p \in Pulls, d \in Digests : Writer(p, d)
           \/ \E p \in Pulls, d \in Digests : Commit(p, d)
           \/ \E p \in Pulls, d \in Digests : AddResource(p, d)
           \/ \E i \in Images : DeleteLease(i)
           \/ \E i \in Images : StoreDelete(i)
           \/ \E d \in Digests : CollectGarbage(d)
BY DEF Next

-----------------------------------------------------------------------------
(* The lease invariant, under every fault.                                 *)

\* Where a pull is between StartPull and its end.
Active == {"fetch", "create", "add"}

\* LeaseRefersToContent strengthened: what a pull recorded is exactly what
\* its temporary lease holds, so it is in the store, and an updateLease
\* snapshot is part of it; a lease that does not exist has no resources.
LInv ==
    /\ TypeOK
    /\ \A p \in Pulls : pc[p] = "idle" => digested[p] = {} /\ tmp[p] = {}
    /\ \A p \in Pulls : pc[p] \in Active => tmp[p] = digested[p]
    /\ \A p \in Pulls : tmp[p] \subseteq content
    /\ \A p \in Pulls : pc[p] = "add" => pending[p] \subseteq digested[p]
    /\ \A i \in Images : i \notin leased => lease[i] = {}
    /\ LeaseRefersToContent

LEMMA LInvInit == Init => LInv
BY DEF Init, LInv, TypeOK, PullPCs, LeaseRefersToContent

LEMMA LInvStep == LInv /\ [Next]_vars => LInv'
<1> SUFFICES ASSUME LInv, [Next]_vars PROVE LInv'
  OBVIOUS
<1> USE DEF LInv, TypeOK, PullPCs, LeaseRefersToContent, Active
<1>1. ASSUME NEW p \in Pulls, StartPull(p) PROVE LInv'
  BY <1>1 DEF StartPull
<1>2. ASSUME NEW p \in Pulls, Get(p) PROVE LInv'
  BY <1>2 DEF Get
<1>3. ASSUME NEW p \in Pulls, Put(p) PROVE LInv'
  BY <1>3 DEF Put
<1>4. ASSUME NEW p \in Pulls, LeaseCreate(p) PROVE LInv'
  BY <1>4 DEF LeaseCreate, PullFails
<1>5. ASSUME NEW p \in Pulls, LeaseUpdated(p) PROVE LInv'
  <2>1. CASE ret[p] = "done"
    BY <1>5, <2>1 DEF LeaseUpdated
  <2>2. CASE ret[p] = "fetch"
    BY <1>5, <2>2 DEF LeaseUpdated
  <2>3. QED
    BY <2>1, <2>2
<1>6. ASSUME NEW p \in Pulls, NEW d \in Digests, Writer(p, d) PROVE LInv'
  <2>1. CASE d \in content
    <3>1. /\ pc[p] = "fetch"
          /\ digested' = [digested EXCEPT ![p] = @ \cup {d}]
          /\ tmp' = [tmp EXCEPT ![p] = @ \cup {d}]
          /\ todo' \in [Pulls -> SUBSET Digests]
          /\ UNCHANGED <<content, leased, lease, images, deleting, pc, open,
                         pending, ret>>
      BY <1>6, <2>1 DEF Writer
    <3>2. QED
      BY <3>1, <2>1
  <2>2. CASE d \notin content
    <3>1. /\ todo' \in [Pulls -> SUBSET Digests]
          /\ open' \in [Pulls -> SUBSET Digests]
          /\ UNCHANGED <<content, leased, lease, images, deleting, pc,
                         digested, tmp, pending, ret>>
      BY <1>6, <2>2 DEF Writer
    <3>2. QED
      BY <3>1
  <2>3. QED
    BY <2>1, <2>2
<1>7. ASSUME NEW p \in Pulls, NEW d \in Digests, Commit(p, d) PROVE LInv'
  <2>1. CASE /\ content' = content \cup {d}
              /\ digested' = [digested EXCEPT ![p] = @ \cup {d}]
              /\ tmp' = [tmp EXCEPT ![p] = @ \cup {d}]
              /\ UNCHANGED pc
    <3>1. /\ pc[p] = "fetch"
          /\ open' \in [Pulls -> SUBSET Digests]
          /\ UNCHANGED <<leased, lease, images, deleting, todo, pending, ret>>
      BY <1>7 DEF Commit
    <3>2. QED
      BY <2>1, <3>1
  <2>2. CASE "Commit" \in Faults /\ PullFails(p) /\ UNCHANGED <<content, digested>>
    BY <1>7, <2>2 DEF Commit, PullFails
  <2>3. QED
    BY <1>7, <2>1, <2>2 DEF Commit
<1>8. ASSUME NEW p \in Pulls, NEW d \in Digests, AddResource(p, d) PROVE LInv'
  BY <1>8 DEF AddResource, PullFails
<1>9. ASSUME NEW i \in Images, DeleteLease(i) PROVE LInv'
  BY <1>9 DEF DeleteLease
<1>10. ASSUME NEW i \in Images, StoreDelete(i) PROVE LInv'
  BY <1>10 DEF StoreDelete
<1>11. ASSUME NEW d \in Digests, CollectGarbage(d) PROVE LInv'
  <2>1. /\ \A i \in leased : d \notin lease[i]
        /\ \A q \in Pulls : d \notin tmp[q]
    BY <1>11 DEF CollectGarbage, Held
  <2>2. QED
    BY <1>11, <2>1 DEF CollectGarbage
<1>12. CASE UNCHANGED vars
  BY <1>12 DEF vars
<1>13. QED
  BY <1>1, <1>2, <1>3, <1>4, <1>5, <1>6, <1>7, <1>8, <1>9, <1>10, <1>11,
     <1>12, NextCases

LEMMA LInvHolds == Spec => []LInv
BY LInvInit, LInvStep, PTL DEF Spec

\* Every reachable state of the pull-lease model is well typed, whichever
\* calls fail.
THEOREM TypeCorrect == Spec => []TypeOK
BY LInvHolds, PTL DEF LInv

\* Whatever store, lease and delete calls fail, an image lease names only
\* blobs in the content store: updateLease adds only digests that Writer or
\* Commit recorded, which the pull's temporary lease held until then.
THEOREM LeaseRefersToContentThm == Spec => []LeaseRefersToContent
BY LInvHolds, PTL DEF LInv

-----------------------------------------------------------------------------
(* Image content is retained, when only commits fail.                      *)

\* No call of the lease manager or of Store.Delete fails.
NoLeaseFaults == Faults \subseteq {"Commit"}

\* Some pull of image i fetched to the end.
Done(i) == \E p \in Pulls : ImageOf[p] = i /\ pc[p] = "done"

\* The pulls of image i that stored it with Put and are in the AddResource
\* loop of their updateLease.
Adders(i) ==
    {q \in Pulls : ImageOf[q] = i /\ pc[q] = "add" /\ ret[q] = "done"}

\* A pull of image i stored it with Put and has not created its lease yet.
Creating(i) ==
    \E q \in Pulls : ImageOf[q] = i /\ pc[q] = "create" /\ ret[q] = "done"

\* ImageContentRetained strengthened: a running pull has every blob of its
\* image in hand (to write, being written, or recorded), and has written
\* them all once it called Put; a stored image that a pull fetched to the
\* end or is adding to the lease has each blob in its lease or in the
\* snapshot a pull still has to add, unless a pull that stored it again
\* has yet to create the lease (Delete then removed the old one).
InHand ==
    \A p \in Pulls : pc[p] \in Active =>
        BlobsOf[ImageOf[p]] \subseteq todo[p] \cup open[p] \cup digested[p]

AllWritten ==
    \A p \in Pulls : pc[p] \in {"create", "add"} /\ ret[p] = "done" =>
        todo[p] = {} /\ open[p] = {}

ImageLeased ==
    \A i \in images \ deleting : Done(i) \/ Adders(i) # {} =>
        \/ /\ i \in leased
           /\ BlobsOf[i] \subseteq lease[i] \cup UNION {pending[q] : q \in Adders(i)}
        \/ Creating(i)

\* Without lease faults, a stored image that no Delete is removing has a
\* pull that stored it and is creating or filling its lease, or finished.
Stored ==
    \A i \in images \ deleting : \E p \in Pulls :
        ImageOf[p] = i /\ ret[p] = "done" /\ pc[p] \in {"create", "add", "done"}

IInv == LInv /\ InHand /\ AllWritten /\ ImageLeased /\ Stored

LEMMA IInvInit == Init => IInv
BY LInvInit DEF Init, IInv, InHand, AllWritten, ImageLeased, Done, Adders,
   Active, Stored

LEMMA IInvStep == NoLeaseFaults /\ IInv /\ [Next]_vars => IInv'
<1> SUFFICES ASSUME NoLeaseFaults, IInv, [Next]_vars PROVE IInv'
  OBVIOUS
<1>0. LInv'
  BY LInvStep DEF IInv
<1> USE DEF IInv, LInv, TypeOK, PullPCs, Active, InHand, AllWritten,
            ImageLeased, Done, Adders, Creating, NoLeaseFaults, Stored
<1>1. ASSUME NEW p \in Pulls, StartPull(p) PROVE IInv'
  BY <1>0, <1>1 DEF StartPull
<1>2. ASSUME NEW p \in Pulls, Get(p) PROVE IInv'
  BY <1>0, <1>2 DEF Get
<1>3. ASSUME NEW p \in Pulls, Put(p) PROVE IInv'
  BY <1>0, <1>3 DEF Put
<1>4. ASSUME NEW p \in Pulls, LeaseCreate(p) PROVE IInv'
  BY <1>0, <1>4 DEF LeaseCreate, PullFails
<1>5. ASSUME NEW p \in Pulls, LeaseUpdated(p) PROVE IInv'
  BY <1>0, <1>5 DEF LeaseUpdated
<1>6. ASSUME NEW p \in Pulls, NEW d \in Digests, Writer(p, d) PROVE IInv'
  BY <1>0, <1>6 DEF Writer
<1>7. ASSUME NEW p \in Pulls, NEW d \in Digests, Commit(p, d) PROVE IInv'
  BY <1>0, <1>7 DEF Commit, PullFails
<1>8. ASSUME NEW p \in Pulls, NEW d \in Digests, AddResource(p, d) PROVE IInv'
  <2>1. CASE ImageOf[p] \in leased
    BY <1>0, <1>8, <2>1 DEF AddResource, PullFails
  <2>2. CASE ImageOf[p] \notin leased
    \* The lease was deleted under the pull: a Delete is removing the image,
    \* or a later pull stored it again and has yet to create the lease.
    <3>1. /\ pc' = [pc EXCEPT ![p] = "failed"]
          /\ UNCHANGED <<content, leased, lease, images, deleting, todo, open,
                         digested, pending, ret>>
      BY <1>8, <2>2 DEF AddResource, PullFails
    <3>2. Stored'
      <4> SUFFICES ASSUME NEW i \in images \ deleting
                   PROVE  \E q \in Pulls : ImageOf[q] = i /\ ret[q] = "done"
                                         /\ pc'[q] \in {"create", "add", "done"}
        BY <3>1
      <4>1. CASE i = ImageOf[p] /\ ret[p] = "done"
        <5>1. Creating(i)
          BY <1>8, <2>2, <4>1
        <5>2. QED
          BY <1>8, <3>1, <5>1 DEF AddResource
      <4>2. CASE i # ImageOf[p] \/ ret[p] # "done"
        <5>1. PICK q \in Pulls : ImageOf[q] = i /\ ret[q] = "done"
                                 /\ pc[q] \in {"create", "add", "done"}
          OBVIOUS
        <5>2. q # p
          BY <1>8, <4>2, <5>1
        <5>3. QED
          BY <3>1, <5>1, <5>2
      <4>3. QED
        BY <4>1, <4>2
    <3>3. QED
      BY <1>0, <1>8, <2>2, <3>1, <3>2 DEF AddResource, PullFails
  <2>3. QED
    BY <2>1, <2>2
<1>9. ASSUME NEW i \in Images, DeleteLease(i) PROVE IInv'
  BY <1>0, <1>9 DEF DeleteLease
<1>10. ASSUME NEW i \in Images, StoreDelete(i) PROVE IInv'
  BY <1>0, <1>10 DEF StoreDelete
<1>11. ASSUME NEW d \in Digests, CollectGarbage(d) PROVE IInv'
  BY <1>0, <1>11 DEF CollectGarbage
<1>12. CASE UNCHANGED vars
  BY <1>0, <1>12 DEF vars
<1>13. QED
  BY <1>1, <1>2, <1>3, <1>4, <1>5, <1>6, <1>7, <1>8, <1>9, <1>10, <1>11,
     <1>12, NextCases

\* When the lease manager and Store.Delete do not fail, a stored image that
\* a pull fetched to the end, and that no Delete is removing, has all its
\* blobs in the content store, however pulls, deletes and collections
\* interleave.
THEOREM ImageContentRetainedThm ==
    NoLeaseFaults => (Spec => []ImageContentRetained)
<1> SUFFICES ASSUME NoLeaseFaults PROVE Spec => []ImageContentRetained
  OBVIOUS
<1>1. IInv => ImageContentRetained
  <2> SUFFICES ASSUME IInv, NEW i \in images \ deleting, Done(i)
               PROVE  BlobsOf[i] \subseteq content
    <3> SUFFICES ASSUME IInv, NEW i \in images \ deleting,
                        \A p \in Pulls : ImageOf[p] = i => pc[p] \notin {"create", "add"}
                 PROVE  Done(i)
      BY DEF ImageContentRetained, Done
    <3>1. PICK p \in Pulls : ImageOf[p] = i /\ pc[p] \in {"create", "add", "done"}
      BY DEF IInv, Stored
    <3>2. QED
      BY <3>1 DEF Done
  <2>1. \A q \in Pulls : pc[q] \in Active => digested[q] \subseteq content
    BY DEF IInv, LInv
  <2>2. \A q \in Adders(i) : pending[q] \subseteq content
    BY <2>1 DEF IInv, LInv, Adders, Active
  <2>3. CASE i \in leased /\ BlobsOf[i] \subseteq lease[i] \cup UNION {pending[q] : q \in Adders(i)}
    BY <2>2, <2>3 DEF IInv, LInv, LeaseRefersToContent
  <2>4. CASE Creating(i)
    BY <2>1, <2>4 DEF IInv, InHand, AllWritten, Creating, Active, LInv, TypeOK
  <2>5. QED
    BY <2>3, <2>4 DEF IInv, ImageLeased
<1>2. QED
  BY <1>1, IInvInit, IInvStep, PTL DEF Spec
=============================================================================
