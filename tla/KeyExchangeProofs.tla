------------------------- MODULE KeyExchangeProofs -------------------------
(***************************************************************************)
(* Proofs about the external-key protocol (KeyExchange), for all sets of   *)
(* helpers, containers and keys and every backlog and generation bound.     *)
(***************************************************************************)
EXTENDS KeyExchange, TLAPS

USE ConstAssumption

\* Every step of the specification is one of these, or a stutter.
LEMMA NextCases ==
    ASSUME Next
    PROVE  \/ startExternalKeyListener
           \/ AcceptError
           \/ stopExternalKeyListener
           \/ \E h \in Helpers : AcceptConn(h)
           \/ \E h \in Helpers : ReadRequest(h)
           \/ \E h \in Helpers : SetKey(h)
           \/ \E h \in Helpers : WriteReply(h)
           \/ \E c \in Containers : NewSandbox(c)
           \/ \E c \in Containers : SandboxDelete(c)
           \/ \E h \in Helpers : HelperBadInput(h)
           \/ \E h \in Helpers : HelperDial(h)
           \/ \E h \in Helpers : processReturn(h)
BY DEF Next, DaemonNext, SandboxNext, HelperNext

-----------------------------------------------------------------------------
(* Type correctness.                                                       *)

\* The initial state is well typed.
LEMMA TypeInit == Init => TypeOK
<1> SUFFICES ASSUME Init PROVE TypeOK
  OBVIOUS
<1>1. hpc \in [Helpers -> {"idle", "waiting", "ok", "failed"}]
      /\ srv \in [Helpers -> SrvStates]
      /\ hold \in [Helpers -> Nat]
      /\ reply \in [Helpers -> Replies]
  BY DEF Init, Replies, SrvStates
<1>2. sb \in [Containers -> {"none", "live"}]
      /\ gen \in [Containers -> Nat]
      /\ sbKey \in [Containers -> Keys \cup {NoKey}]
  BY DEF Init
<1>3. QED
  BY <1>1, <1>2 DEF Init, TypeOK

\* Every step keeps the variables in their types.
LEMMA TypeStep == TypeOK /\ [Next]_vars => TypeOK'
<1> SUFFICES ASSUME TypeOK, [Next]_vars PROVE TypeOK'
  OBVIOUS
<1>1. CASE startExternalKeyListener
  BY <1>1 DEF startExternalKeyListener, TypeOK
<1>2. CASE AcceptError
  BY <1>2 DEF AcceptError, TypeOK
<1>3. CASE stopExternalKeyListener
  BY <1>3 DEF stopExternalKeyListener, TypeOK, Replies
<1>4. ASSUME NEW h \in Helpers, AcceptConn(h) PROVE TypeOK'
  BY <1>4 DEF AcceptConn, TypeOK, SrvStates
<1>5. ASSUME NEW h \in Helpers, ReadRequest(h) PROVE TypeOK'
  BY <1>5 DEF ReadRequest, TypeOK, Replies, SrvStates
<1>6. ASSUME NEW h \in Helpers, SetKey(h) PROVE TypeOK'
  BY <1>6 DEF SetKey, SandboxCurrent, TypeOK, SrvStates
<1>14. ASSUME NEW h \in Helpers, WriteReply(h) PROVE TypeOK'
  BY <1>14 DEF WriteReply, TypeOK, SrvStates, Replies
<1>7. ASSUME NEW c \in Containers, NewSandbox(c) PROVE TypeOK'
  BY <1>7 DEF NewSandbox, TypeOK
<1>8. ASSUME NEW c \in Containers, SandboxDelete(c) PROVE TypeOK'
  BY <1>8 DEF SandboxDelete, TypeOK
<1>9. ASSUME NEW h \in Helpers, HelperBadInput(h) PROVE TypeOK'
  BY <1>9 DEF HelperBadInput, TypeOK
<1>10. ASSUME NEW h \in Helpers, HelperDial(h) PROVE TypeOK'
  BY <1>10 DEF HelperDial, TypeOK
<1>11. ASSUME NEW h \in Helpers, processReturn(h) PROVE TypeOK'
  BY <1>11 DEF processReturn, TypeOK
<1>12. CASE UNCHANGED vars
  BY <1>12 DEF vars, TypeOK
<1>13. QED
  BY <1>1, <1>2, <1>3, <1>4, <1>5, <1>6, <1>7, <1>8, <1>9, <1>10, <1>11,
     <1>12, <1>14, NextCases

\* Every reachable state has the types TypeOK gives the variables.
THEOREM TypeCorrect == Spec => []TypeOK
BY TypeInit, TypeStep, PTL DEF Spec

------------------------------------------------------------------------\* A restart keeps the variables in their types.
LEMMA TypeRestart == TypeOK /\ DaemonRestart => TypeOK'
BY DEF DaemonRestart, ConnReset, TypeOK, Replies, SrvStates

-----------------------------------------------------------------------------
(* "success" means the key was set, with or without crashes.               *)

(* Inductive strengthening.  The goroutine decides to write "success" only *)
(* when SetKey has just set the key, and writes what it decided; a crash   *)
(* or the listener's Close only ever writes "closed".                      *)
SInv ==
    /\ TypeOK
    /\ SuccessMeansKeyApplied
    /\ \A h \in Helpers : srv[h] = "writeOK" => KeyedBy(h)
    /\ \A h \in Helpers : reply[h] = "success" => KeyedBy(h)

\* The initial state satisfies the strengthening.
LEMMA SInvInit == Init => SInv
BY TypeInit DEF Init, SInv, SuccessMeansKeyApplied, KeyedBy

\* The key history only grows.
LEMMA KeyedGrows ==
    ASSUME keyed \subseteq keyed', NEW h \in Helpers, KeyedBy(h)
    PROVE  KeyedBy(h)'
BY DEF KeyedBy

\* Every step, a crash included, preserves the strengthening.
LEMMA SInvStep == SInv /\ [RestartNext]_vars => SInv'
<1> SUFFICES ASSUME SInv, [RestartNext]_vars PROVE SInv'
  OBVIOUS
<1> USE DEF SInv, SuccessMeansKeyApplied
<1>1. ASSUME NEW h \in Helpers, SetKey(h) PROVE SInv'
  <2>1. TypeOK'
    BY <1>1, TypeStep DEF Next, DaemonNext
  <2>2. keyed \subseteq keyed'
    BY <1>1 DEF SetKey
  <2>3. CASE SandboxCurrent(h)
    <3>1. <<h, hold[h]>> \in keyed'
      BY <1>1, <2>3 DEF SetKey
    <3>2. KeyedBy(h)'
      BY <3>1 DEF KeyedBy
    <3>3. QED
      BY <1>1, <2>1, <2>2, <2>3, <3>2, KeyedGrows DEF SetKey, TypeOK
  <2>4. CASE ~SandboxCurrent(h)
    BY <1>1, <2>1, <2>4 DEF SetKey, TypeOK, KeyedBy
  <2>5. QED
    BY <2>3, <2>4
<1>2. ASSUME NEW h \in Helpers, WriteReply(h) PROVE SInv'
  <2>1. TypeOK'
    BY <1>2, TypeStep DEF Next, DaemonNext
  <2>2. QED
    BY <1>2, <2>1 DEF WriteReply, TypeOK, KeyedBy
<1>3. ASSUME NEW h \in Helpers, processReturn(h) PROVE SInv'
  <2>1. TypeOK'
    BY <1>3, TypeStep DEF Next, HelperNext
  <2>2. QED
    BY <1>3, <2>1 DEF processReturn, TypeOK, KeyedBy
<1>4. CASE DaemonRestart
  <2>1. TypeOK'
    BY <1>4, TypeRestart
  <2>2. QED
    BY <1>4, <2>1 DEF DaemonRestart, ConnReset, TypeOK, KeyedBy
<1>5. CASE UNCHANGED <<hpc, srv, reply, keyed>> /\ [Next]_vars
  <2>1. TypeOK'
    BY <1>5, TypeStep
  <2>2. QED
    BY <1>5, <2>1 DEF KeyedBy
<1>6. CASE stopExternalKeyListener
  <2>1. TypeOK'
    BY <1>6, TypeStep DEF Next, DaemonNext
  <2>2. QED
    BY <1>6, <2>1 DEF stopExternalKeyListener, TypeOK, KeyedBy
<1>7. ASSUME NEW h \in Helpers, ReadRequest(h) PROVE SInv'
  <2>1. TypeOK'
    BY <1>7, TypeStep DEF Next, DaemonNext
  <2>2. QED
    BY <1>7, <2>1 DEF ReadRequest, TypeOK, KeyedBy
<1>8. ASSUME NEW h \in Helpers, AcceptConn(h) PROVE SInv'
  <2>1. TypeOK'
    BY <1>8, TypeStep DEF Next, DaemonNext
  <2>2. QED
    BY <1>8, <2>1 DEF AcceptConn, TypeOK, KeyedBy
<1>9. ASSUME NEW h \in Helpers, HelperBadInput(h) \/ HelperDial(h) PROVE SInv'
  <2>1. TypeOK'
    BY <1>9, TypeStep DEF Next, HelperNext
  <2>2. QED
    BY <1>9, <2>1 DEF HelperBadInput, HelperDial, TypeOK, KeyedBy
<1>10. QED
  <2>1. CASE Next
    BY <1>1, <1>2, <1>3, <1>5, <1>6, <1>7, <1>8, <1>9, <2>1, NextCases
       DEF startExternalKeyListener, AcceptError, NewSandbox, SandboxDelete
  <2>2. QED
    BY <1>4, <1>5, <2>1 DEF RestartNext, vars

\* A helper that exits 0 had its key set by Sandbox.SetKey: the reply
\* "success" is written only after SetKey returned no error.
THEOREM SuccessMeansKeyAppliedThm == Spec => []SuccessMeansKeyApplied
<1>1. SInv /\ [Next]_vars => SInv'
  BY SInvStep DEF RestartNext
<1>2. QED
  BY <1>1, SInvInit, PTL DEF Spec, SInv

\* A helper exits 0 only if its key was set, also when the daemon crashes
\* and restarts between SetKey and the Write: the connections of the dead
\* daemon end with no reply, which the helper reads as a failure.
THEOREM SuccessUnderRestartThm == RestartSpec => []SuccessMeansKeyApplied
BY SInvInit, SInvStep, PTL DEF RestartSpec, SInv

-----------------------------------------------------------------------------
(* Without crashes and short reads, "failed" means the key was not set.    *)

(* Inductive strengthening.  A connection's reply is written once, by the  *)
(* goroutine serving it or by the reset of the listen queue, and only while *)
(* its helper still waits; a keyed helper's goroutine is about to write    *)
(* "success" or has written it; a helper's verdict is the reply it read.   *)
IInv ==
    /\ SInv
    /\ \A h \in backlog : hpc[h] = "waiting" /\ srv[h] = "none"
                          /\ reply[h] = "none"
    /\ \A h \in Helpers : hpc[h] = "idle" =>
          srv[h] = "none" /\ reply[h] = "none" /\ h \notin backlog
    /\ \A h \in Helpers : srv[h] \notin {"none", "done"} =>
          hpc[h] = "waiting" /\ reply[h] = "none"
    /\ \A p \in keyed : \/ srv[p[1]] = "writeOK"
                        \/ reply[p[1]] = "success" /\ srv[p[1]] = "done"
    /\ \A h \in Helpers : hpc[h] = "ok" => reply[h] = "success"
    /\ ~ShortReads => FailureMeansNotApplied

\* The initial state satisfies the strengthening.
LEMMA IInvInit == Init => IInv
<1> SUFFICES ASSUME Init PROVE IInv
  OBVIOUS
<1>1. SInv
  BY SInvInit
<1>2. QED
  BY <1>1 DEF Init, IInv, FailureMeansNotApplied, KeyedBy

\* The key of a helper whose goroutine has not set it, or whose reply is a
\* failure, is not applied.
LEMMA NotKeyed ==
    ASSUME IInv, NEW h \in Helpers,
           srv[h] \notin {"writeOK", "done"} \/ reply[h] \in {"error", "closed"}
    PROVE  ~KeyedBy(h)
BY DEF IInv, KeyedBy

\* Every step without a crash preserves the strengthening.
LEMMA IInvStep == IInv /\ [Next]_vars => IInv'
<1> SUFFICES ASSUME IInv, [Next]_vars PROVE IInv'
  OBVIOUS
<1>0. SInv' /\ TypeOK'
  BY SInvStep DEF IInv, RestartNext, SInv
<1> USE DEF IInv, SInv, KeyedBy, FailureMeansNotApplied
<1>1. CASE startExternalKeyListener
  BY <1>0, <1>1 DEF startExternalKeyListener
<1>2. CASE AcceptError
  BY <1>0, <1>2 DEF AcceptError
<1>3. CASE stopExternalKeyListener
  BY <1>0, <1>3 DEF stopExternalKeyListener, TypeOK
<1>4. ASSUME NEW h \in Helpers, AcceptConn(h) PROVE IInv'
  BY <1>0, <1>4 DEF AcceptConn, TypeOK
<1>5. ASSUME NEW h \in Helpers, ReadRequest(h) PROVE IInv'
  BY <1>0, <1>5 DEF ReadRequest, TypeOK
<1>6. ASSUME NEW h \in Helpers, SetKey(h) PROVE IInv'
  <2>0. /\ srv[h] = "setkey" /\ hpc[h] = "waiting" /\ reply[h] = "none"
        /\ ~KeyedBy(h)
        /\ UNCHANGED <<backlog, hpc, hold, reply>>
    BY <1>6, NotKeyed DEF SetKey, TypeOK
  <2>1. CASE SandboxCurrent(h)
    <3>1. /\ keyed' = keyed \cup {<<h, hold[h]>>}
          /\ srv' = [srv EXCEPT ![h] = "writeOK"]
      BY <1>6, <2>1 DEF SetKey
    <3>2. \A p \in keyed : p[1] # h
      BY <2>0 DEF KeyedBy
    <3>3. QED
      BY <1>0, <2>0, <3>1, <3>2 DEF TypeOK, KeyedBy
  <2>2. CASE ~SandboxCurrent(h)
    <3>1. /\ UNCHANGED keyed
          /\ srv' = [srv EXCEPT ![h] = "writeErr"]
      BY <1>6, <2>2 DEF SetKey
    <3>2. QED
      BY <1>0, <2>0, <3>1 DEF TypeOK, KeyedBy
  <2>3. QED
    BY <2>1, <2>2
<1>7. ASSUME NEW h \in Helpers, WriteReply(h) PROVE IInv'
  <2>1. CASE srv[h] = "writeOK"
    BY <1>0, <1>7, <2>1 DEF WriteReply, TypeOK
  <2>2. CASE srv[h] = "writeErr"
    <3>1. ~KeyedBy(h)
      BY <2>2, NotKeyed
    <3>2. QED
      BY <1>0, <1>7, <2>2, <3>1 DEF WriteReply, TypeOK, KeyedBy
  <2>3. QED
    BY <1>7, <2>1, <2>2 DEF WriteReply
<1>8. ASSUME NEW c \in Containers, NewSandbox(c) PROVE IInv'
  BY <1>0, <1>8 DEF NewSandbox
<1>9. ASSUME NEW c \in Containers, SandboxDelete(c) PROVE IInv'
  BY <1>0, <1>9 DEF SandboxDelete
<1>10. ASSUME NEW h \in Helpers, HelperBadInput(h) PROVE IInv'
  BY <1>0, <1>10, NotKeyed DEF HelperBadInput, TypeOK
<1>11. ASSUME NEW h \in Helpers, HelperDial(h) PROVE IInv'
  BY <1>0, <1>11, NotKeyed DEF HelperDial, TypeOK
<1>12. ASSUME NEW h \in Helpers, processReturn(h) PROVE IInv'
  BY <1>0, <1>12, NotKeyed DEF processReturn, TypeOK
<1>13. CASE UNCHANGED vars
  BY <1>0, <1>13 DEF vars
<1>14. QED
  BY <1>1, <1>2, <1>3, <1>4, <1>5, <1>6, <1>7, <1>8, <1>9, <1>10, <1>11,
     <1>12, <1>13, NextCases

\* When stream reads return whole messages and the daemon does not crash, a
\* helper that exits 1 never had its key set: the runtime's failure verdict
\* matches the daemon's state.  (A crash between SetKey and the Write breaks
\* this: run keyexchange_restart.)
THEOREM FailureMeansNotAppliedThm ==
    ~ShortReads => (Spec => []FailureMeansNotApplied)
<1> SUFFICES ASSUME ~ShortReads PROVE Spec => []FailureMeansNotApplied
  OBVIOUS
<1>1. IInv => FailureMeansNotApplied
  BY DEF IInv
<1>2. QED
  BY <1>1, IInvInit, IInvStep, PTL DEF Spec

-----
(* Keys stay with the incarnation they were delivered for.                 *)

\* The key of a live sandbox is reset when NewSandbox creates a new
\* incarnation and is set only on the incarnation the goroutine looked up.
LEMMA KeyStep ==
    TypeOK /\ KeyBelongsToIncarnation /\ [Next]_vars => KeyBelongsToIncarnation'
<1> SUFFICES ASSUME TypeOK, KeyBelongsToIncarnation, [Next]_vars
             PROVE  KeyBelongsToIncarnation'
  OBVIOUS
<1> USE DEF KeyBelongsToIncarnation
<1>1. CASE startExternalKeyListener
  BY <1>1 DEF startExternalKeyListener
<1>2. CASE AcceptError
  BY <1>2 DEF AcceptError
<1>3. CASE stopExternalKeyListener
  BY <1>3 DEF stopExternalKeyListener
<1>4. ASSUME NEW h \in Helpers, AcceptConn(h) PROVE KeyBelongsToIncarnation'
  BY <1>4 DEF AcceptConn
<1>5. ASSUME NEW h \in Helpers, ReadRequest(h) PROVE KeyBelongsToIncarnation'
  BY <1>5 DEF ReadRequest
<1>6. ASSUME NEW h \in Helpers, SetKey(h) PROVE KeyBelongsToIncarnation'
  <2>1. CASE SandboxCurrent(h)
    <3>1. /\ sbKey' = [sbKey EXCEPT ![Target[h]] = KeyOf[h]]
          /\ keyed' = keyed \cup {<<h, hold[h]>>}
          /\ gen[Target[h]] = hold[h]
          /\ UNCHANGED <<sb, gen>>
      BY <1>6, <2>1 DEF SetKey, SandboxCurrent
    <3>2. ASSUME NEW c \in Containers, sb'[c] = "live", sbKey'[c] # NoKey
          PROVE  \E g \in Helpers : /\ Target[g] = c
                                     /\ KeyOf[g] = sbKey'[c]
                                     /\ <<g, gen'[c]>> \in keyed'
      <4>1. CASE c = Target[h]
        BY <3>1, <4>1 DEF TypeOK
      <4>2. CASE c # Target[h]
        BY <3>1, <3>2, <4>2 DEF TypeOK
      <4>3. QED
        BY <4>1, <4>2
    <3>3. QED
      BY <3>2
  <2>2. CASE ~SandboxCurrent(h)
    BY <1>6, <2>2 DEF SetKey
  <2>3. QED
    BY <2>1, <2>2
<1>7. ASSUME NEW c \in Containers, NewSandbox(c) PROVE KeyBelongsToIncarnation'
  BY <1>7 DEF NewSandbox, TypeOK
<1>8. ASSUME NEW c \in Containers, SandboxDelete(c) PROVE KeyBelongsToIncarnation'
  BY <1>8 DEF SandboxDelete, TypeOK
<1>9. ASSUME NEW h \in Helpers, HelperBadInput(h) PROVE KeyBelongsToIncarnation'
  BY <1>9 DEF HelperBadInput
<1>10. ASSUME NEW h \in Helpers, HelperDial(h) PROVE KeyBelongsToIncarnation'
  BY <1>10 DEF HelperDial
<1>11. ASSUME NEW h \in Helpers, processReturn(h) PROVE KeyBelongsToIncarnation'
  BY <1>11 DEF processReturn
<1>12. CASE UNCHANGED vars
  BY <1>12 DEF vars
<1>14. ASSUME NEW h \in Helpers, WriteReply(h) PROVE KeyBelongsToIncarnation'
  BY <1>14 DEF WriteReply
<1>13. QED
  BY <1>1, <1>2, <1>3, <1>4, <1>5, <1>6, <1>7, <1>8, <1>9, <1>10, <1>11,
     <1>12, <1>14, NextCases

\* A live sandbox's key was delivered for that very incarnation, for any
\* number of re-creations: processExternalKey sets the key on the object
\* GetSandbox returned, and a deleted and re-created sandbox starts with
\* no key.
THEOREM KeyBelongsToIncarnationThm == Spec => []KeyBelongsToIncarnation
<1>1. Init => KeyBelongsToIncarnation
  BY DEF Init, KeyBelongsToIncarnation
<1>2. QED
  BY <1>1, TypeInit, TypeStep, KeyStep, PTL DEF Spec


-----------------------------------------------------------------------------
(* Daemon crashes and restarts.                                            *)

\* A restart leaves the sandbox table and the key history alone.
LEMMA KeyRestart ==
    KeyBelongsToIncarnation /\ DaemonRestart => KeyBelongsToIncarnation'
BY DEF DaemonRestart, KeyBelongsToIncarnation

\* A key of a live sandbox was delivered for that incarnation also when the
\* daemon crashes and restarts: the restored sandbox table and the key
\* history survive the crash together.
THEOREM KeyBelongsUnderRestartThm == RestartSpec => []KeyBelongsToIncarnation
<1>1. TypeOK /\ KeyBelongsToIncarnation /\ [RestartNext]_vars =>
        TypeOK' /\ KeyBelongsToIncarnation'
  BY TypeStep, KeyStep, TypeRestart, KeyRestart DEF RestartNext, vars
<1>2. Init => TypeOK /\ KeyBelongsToIncarnation
  BY TypeInit DEF Init, KeyBelongsToIncarnation
<1>3. QED
  BY <1>1, <1>2, PTL DEF RestartSpec

-----------------------------------------------------------------------------
(* Refinement of the hook's promise (KeyDelivery).                         *)

\* A step that changes neither the helpers nor the key history is a
\* stutter of the abstract specification.
LEMMA DeliveryStutter ==
    ASSUME UNCHANGED <<hpc, keyed>>
    PROVE  UNCHANGED Delivery!vars
BY DEF Delivery!vars, AppliedBar, StatusBar, KeyedBy

\* Every step maps to a step of KeyDelivery or leaves its variables alone:
\* the successful SetKey is Apply, processReturn and the helper's early
\* exits are ExitOK and ExitFail.
LEMMA DeliveryStep ==
    ASSUME ~ShortReads, IInv, [Next]_vars
    PROVE  [Delivery!Next]_Delivery!vars
<1> USE DEF IInv
<1>1. CASE UNCHANGED <<hpc, keyed>>
  BY <1>1, DeliveryStutter
<1>2. ASSUME NEW h \in Helpers, SetKey(h), SandboxCurrent(h)
      PROVE  Delivery!Apply(h)
  <2>1. /\ srv[h] = "setkey" /\ hpc[h] = "waiting"
        /\ keyed' = keyed \cup {<<h, hold[h]>>}
        /\ UNCHANGED hpc
    BY <1>2 DEF SetKey, TypeOK
  <2>2. h \notin AppliedBar
    BY <2>1, NotKeyed DEF AppliedBar
  <2>3. AppliedBar' = AppliedBar \cup {h}
    <3>1. \A g \in Helpers : KeyedBy(g)' <=> KeyedBy(g) \/ g = h
      <4> SUFFICES ASSUME NEW g \in Helpers
                   PROVE  KeyedBy(g)' <=> KeyedBy(g) \/ g = h
        OBVIOUS
      <4>1. <<h, hold[h]>>[1] = h
        OBVIOUS
      <4>2. QED
        BY <2>1, <4>1, Zenon DEF KeyedBy
    <3>2. QED
      BY <3>1 DEF AppliedBar
  <2>4. StatusBar' = StatusBar /\ StatusBar[h] = "running"
    BY <2>1 DEF StatusBar
  <2>5. QED
    BY <2>2, <2>3, <2>4 DEF Delivery!Apply
<1>3. ASSUME NEW h \in Helpers, processReturn(h)
      PROVE  Delivery!ExitOK(h) \/ Delivery!ExitFail(h)
  <2>1. /\ hpc[h] = "waiting" /\ UNCHANGED keyed
        /\ StatusBar[h] = "running"
        /\ AppliedBar' = AppliedBar
    BY <1>3 DEF processReturn, StatusBar, AppliedBar, KeyedBy
  <2>2. CASE reply[h] = "success" /\ hpc' = [hpc EXCEPT ![h] = "ok"]
    <3>1. h \in AppliedBar
      BY <2>2 DEF AppliedBar, SInv
    <3>2. StatusBar' = [StatusBar EXCEPT ![h] = "ok"]
      BY <2>1, <2>2 DEF StatusBar, SInv, TypeOK
    <3>3. QED
      BY <2>1, <3>1, <3>2 DEF Delivery!ExitOK
  <2>3. CASE reply[h] \in {"error", "closed"} /\ hpc' = [hpc EXCEPT ![h] = "failed"]
    <3>1. h \notin AppliedBar
      BY <2>3, NotKeyed DEF AppliedBar
    <3>2. StatusBar' = [StatusBar EXCEPT ![h] = "failed"]
      BY <2>1, <2>3 DEF StatusBar, SInv, TypeOK
    <3>3. QED
      BY <2>1, <3>1, <3>2 DEF Delivery!ExitFail
  <2>4. QED
    BY <1>3, <2>2, <2>3 DEF processReturn
<1>4. ASSUME NEW h \in Helpers, hpc[h] = "idle",
             hpc' = [hpc EXCEPT ![h] = "failed"], UNCHANGED keyed
      PROVE  Delivery!ExitFail(h)
  <2>1. h \notin AppliedBar
    BY <1>4, NotKeyed DEF AppliedBar, SInv, TypeOK
  <2>2. StatusBar[h] = "running" /\ AppliedBar' = AppliedBar
    BY <1>4 DEF StatusBar, AppliedBar, KeyedBy
  <2>3. StatusBar' = [StatusBar EXCEPT ![h] = "failed"]
    BY <1>4 DEF StatusBar, SInv, TypeOK
  <2>4. QED
    BY <2>1, <2>2, <2>3 DEF Delivery!ExitFail
<1>5. ASSUME NEW h \in Helpers, HelperDial(h) PROVE [Delivery!Next]_Delivery!vars
  <2>1. CASE hpc' = [hpc EXCEPT ![h] = "waiting"]
    <3>1. StatusBar' = StatusBar
      BY <1>5, <2>1 DEF HelperDial, StatusBar, SInv, TypeOK
    <3>2. AppliedBar' = AppliedBar
      BY <1>5 DEF HelperDial, AppliedBar, KeyedBy
    <3>3. QED
      BY <3>1, <3>2 DEF Delivery!vars
  <2>2. CASE hpc' = [hpc EXCEPT ![h] = "failed"]
    BY <1>4, <1>5, <2>2 DEF HelperDial, Delivery!Next
  <2>3. QED
    BY <1>5, <2>1, <2>2 DEF HelperDial
<1>6. ASSUME NEW h \in Helpers, HelperBadInput(h) PROVE [Delivery!Next]_Delivery!vars
  BY <1>4, <1>6 DEF HelperBadInput, Delivery!Next
<1>7. ASSUME NEW h \in Helpers, SetKey(h), ~SandboxCurrent(h)
      PROVE  UNCHANGED <<hpc, keyed>>
  BY <1>7 DEF SetKey
<1>8. ASSUME NEW h \in Helpers, WriteReply(h)
      PROVE  UNCHANGED <<hpc, keyed>>
  BY <1>8 DEF WriteReply
<1>9. QED
  <2>1. ASSUME NEW h \in Helpers, SetKey(h)
        PROVE  [Delivery!Next]_Delivery!vars
    BY <1>1, <1>2, <1>7, <2>1 DEF Delivery!Next
  <2>2. ASSUME NEW h \in Helpers, processReturn(h)
        PROVE  [Delivery!Next]_Delivery!vars
    BY <1>3, <2>2 DEF Delivery!Next
  <2>3. CASE Next
    BY <2>3, <1>1, <1>5, <1>6, <1>8, <2>1, <2>2, NextCases
       DEF startExternalKeyListener, AcceptError, stopExternalKeyListener,
           AcceptConn, ReadRequest, NewSandbox, SandboxDelete
  <2>4. CASE UNCHANGED vars
    BY <1>1, <2>4 DEF vars
  <2>5. QED
    BY <2>3, <2>4

\* With whole-message reads and no daemon crash, the key exchange
\* implements KeyDelivery: Sandbox.SetKey applies a helper's key at most
\* once and only while the helper waits, and the helper's exit status says
\* whether it was applied.  A crash between SetKey and the Write is outside
\* this promise (run keyexchange_restart).
THEOREM KeyDeliveryThm == ~ShortReads => (Spec => KeyDeliverySpec)
<1> SUFFICES ASSUME ~ShortReads PROVE Spec => KeyDeliverySpec
  OBVIOUS
<1>1. Init => Delivery!Init
  BY DEF Init, Delivery!Init, AppliedBar, StatusBar, KeyedBy
<1>2. IInv /\ [Next]_vars => [Delivery!Next]_Delivery!vars
  BY DeliveryStep
<1>3. QED
  BY <1>1, <1>2, IInvInit, IInvStep, PTL DEF Spec, KeyDeliverySpec, Delivery!Spec

=============================================================================
