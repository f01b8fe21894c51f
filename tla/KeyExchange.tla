---------------------------- MODULE KeyExchange ----------------------------
(***************************************************************************)
(* The external-key protocol of libnetwork                                 *)
(* (daemon/libnetwork/sandbox_externalkey_unix.go).                        *)
(*                                                                         *)
(* The daemon listens on a per-controller Unix socket.  For every          *)
(* container start the runtime runs a re-exec'd helper ("libnetwork-       *)
(* setkey") that dials the socket, sends {ContainerID, Key} and reads one   *)
(* reply.  The daemon accepts connections in a loop and serves each one     *)
(* on its own goroutine: one Read, GetSandbox, Sandbox.SetKey, one Write.   *)
(*                                                                         *)
(* Data is abstracted: a request is the pair (Target[h], KeyOf[h]) of its   *)
(* helper h, a reply is "success", "error" (any error text) or "closed"    *)
(* (the connection ended with no reply).  One helper = one connection.      *)
(* Sandbox.SetKey, NewSandbox and Sandbox.Delete are not under src/; they   *)
(* are modelled from the spec (sections 3 and 4.4).                         *)
(***************************************************************************)
EXTENDS Naturals, FiniteSets

CONSTANTS
    Helpers,     \* helper processes (each makes at most one connection)
    Silent,      \* clients that connect and never send a request
    Containers,  \* container ids
    Keys,        \* namespace paths ("/proc/<pid>/ns/net")
    NoKey,       \* the key of a sandbox whose key is unset
    Target,      \* Target[h]: the container id helper h was started for
    KeyOf,       \* KeyOf[h]: the key helper h sends
    Backlog,     \* listen backlog of the Unix socket
    MaxGen,      \* bound on sandbox re-creations per container
    ShortReads   \* may a stream Read return a strict prefix of what was sent?

ASSUME ConstAssumption ==
    /\ Silent \subseteq Helpers
    /\ NoKey \notin Keys
    /\ Target \in [Helpers -> Containers]
    /\ KeyOf \in [Helpers -> Keys]
    /\ Backlog \in Nat \ {0}
    /\ MaxGen \in Nat
    /\ ShortReads \in BOOLEAN

VARIABLES
    daemon,   \* "init", "listening", "failed" (start failed), "stopped"
    sockFile, \* the socket file <execRoot>/libnetwork/<shortid>.sock exists?
    loop,     \* acceptClientConnections goroutine: "none", "running", "exited"
    backlog,  \* helpers whose connection waits in the listen queue
    hpc,      \* helper state: "idle", "waiting" (for the reply), "ok", "failed"
    srv,      \* per-connection goroutine: "none", "reading", "setkey",
              \* "writeOK" / "writeErr" (processExternalKey returned nil / an
              \* error, the Write is still to come), "done"
    hold,     \* generation of the sandbox a goroutine looked up
    reply,    \* what the daemon left on the connection for the helper
    sb,       \* sandbox table entry per container: "none" or "live"
    gen,      \* incarnation number of the container's sandbox
    sbKey,    \* key of the container's current sandbox
    keyed     \* history: <<h, g>> when h's key was set on incarnation g

vars == <<daemon, sockFile, loop, backlog, hpc, srv, hold, reply,
          sb, gen, sbKey, keyed>>

Replies == {"none", "success", "error", "closed"}

SrvStates == {"none", "reading", "setkey", "writeOK", "writeErr", "done"}

TypeOK ==
    /\ daemon \in {"init", "listening", "failed", "stopped"}
    /\ sockFile \in BOOLEAN
    /\ loop \in {"none", "running", "exited"}
    /\ backlog \subseteq Helpers
    /\ hpc \in [Helpers -> {"idle", "waiting", "ok", "failed"}]
    /\ srv \in [Helpers -> SrvStates]
    /\ hold \in [Helpers -> Nat]
    /\ reply \in [Helpers -> Replies]
    /\ sb \in [Containers -> {"none", "live"}]
    /\ gen \in [Containers -> Nat]
    /\ sbKey \in [Containers -> Keys \cup {NoKey}]
    /\ keyed \subseteq Helpers \X Nat

Init ==
    /\ daemon = "init"
    /\ sockFile = FALSE
    /\ loop = "none"
    /\ backlog = {}
    /\ hpc = [h \in Helpers |-> "idle"]
    /\ srv = [h \in Helpers |-> "none"]
    /\ hold = [h \in Helpers |-> 0]
    /\ reply = [h \in Helpers |-> "none"]
    /\ sb = [c \in Containers |-> "none"]
    /\ gen = [c \in Containers |-> 0]
    /\ sbKey = [c \in Containers |-> NoKey]
    /\ keyed = {}

-----------------------------------------------------------------------------
(* Daemon side.                                                            *)

\* startExternalKeyListener: MkdirAll, net.Listen, Chmod, then the accept
\* goroutine.  Listen fails if the path exists; a failed MkdirAll, Listen or
\* Chmod (which closes, hence unlinks, the listener) leaves no socket file.
startExternalKeyListener ==
    /\ daemon = "init"
    /\ \/ /\ ~sockFile
          /\ daemon' = "listening"
          /\ sockFile' = TRUE
          /\ loop' = "running"
       \/ /\ daemon' = "failed"
          /\ UNCHANGED <<sockFile, loop>>
    /\ UNCHANGED <<backlog, hpc, srv, hold, reply, sb, gen, sbKey, keyed>>

\* Mutant: the connection is served inline by the accept loop, so the next
\* Accept waits until the previous connection is done.
AcceptConnInline(h) ==
    /\ \A g \in Helpers : srv[g] \in {"none", "done"}
    /\ loop = "running"
    /\ daemon = "listening"
    /\ h \in backlog
    /\ backlog' = backlog \ {h}
    /\ srv' = [srv EXCEPT ![h] = "reading"]
    /\ UNCHANGED <<daemon, sockFile, loop, hpc, hold, reply, sb, gen, sbKey,
                   keyed>>

\* l.Accept() returns a queued connection; the loop starts its goroutine.
AcceptConn(h) ==
    /\ loop = "running"
    /\ daemon = "listening"
    /\ h \in backlog
    /\ backlog' = backlog \ {h}
    /\ srv' = [srv EXCEPT ![h] = "reading"]
    /\ UNCHANGED <<daemon, sockFile, loop, hpc, hold, reply, sb, gen, sbKey,
                   keyed>>

\* l.Accept() fails on the closed listener: the loop returns if os.Stat says
\* the socket file is gone, and otherwise logs and accepts again.
AcceptError ==
    /\ loop = "running"
    /\ daemon = "stopped"
    /\ ~sockFile
    /\ loop' = "exited"
    /\ UNCHANGED <<daemon, sockFile, backlog, hpc, srv, hold, reply, sb, gen,
                   sbKey, keyed>>

\* Mutant: the GetSandbox error is dropped and SetKey is called on a nil
\* sandbox (its generation is the non-number NoKey).
ReadRequestIgnoringLookupError(h) ==
    /\ srv[h] = "reading"
    /\ h \notin Silent
    /\ srv' = [srv EXCEPT ![h] = "setkey"]
    /\ hold' = [hold EXCEPT ![h] = IF sb[Target[h]] = "live"
                                   THEN gen[Target[h]] ELSE NoKey]
    /\ UNCHANGED <<daemon, sockFile, loop, backlog, hpc, reply, sb, gen, sbKey,
                   keyed>>

\* processExternalKey: one conn.Read of at most 1280 bytes, json.Unmarshal,
\* GetSandbox.  A short read leaves truncated JSON: Unmarshal fails.  A
\* failure is written back as the error text and the connection closed.
ReadRequest(h) ==
    /\ srv[h] = "reading"
    /\ h \notin Silent
    /\ LET c == Target[h] IN
       \/ /\ ShortReads
          /\ srv' = [srv EXCEPT ![h] = "done"]
          /\ reply' = [reply EXCEPT ![h] = "error"]
          /\ UNCHANGED hold
       \/ /\ sb[c] = "none"
          /\ srv' = [srv EXCEPT ![h] = "done"]
          /\ reply' = [reply EXCEPT ![h] = "error"]
          /\ UNCHANGED hold
       \/ /\ sb[c] = "live"
          /\ srv' = [srv EXCEPT ![h] = "setkey"]
          /\ hold' = [hold EXCEPT ![h] = gen[c]]
          /\ UNCHANGED reply
    /\ UNCHANGED <<daemon, sockFile, loop, backlog, hpc, sb, gen, sbKey, keyed>>

\* Mutant: SetKey looks the sandbox up again by container id.
SandboxCurrentById(h) == sb[Target[h]] = "live"

\* The sandbox object looked up is still the container's live sandbox.
SandboxCurrent(h) ==
    sb[Target[h]] = "live" /\ gen[Target[h]] = hold[h]

\* Mutant: the goroutine writes "success" whatever SetKey returned.
SetKeyIgnoringError(h) ==
    /\ srv[h] = "setkey"
    /\ srv' = [srv EXCEPT ![h] = "writeOK"]
    /\ \/ /\ SandboxCurrent(h)
          /\ sbKey' = [sbKey EXCEPT ![Target[h]] = KeyOf[h]]
          /\ keyed' = keyed \cup {<<h, hold[h]>>}
       \/ /\ ~SandboxCurrent(h)
          /\ UNCHANGED <<sbKey, keyed>>
    /\ UNCHANGED <<daemon, sockFile, loop, backlog, hpc, hold, reply, sb, gen>>

\* processExternalKey returns sb.SetKey(key), called on the object GetSandbox
\* returned; SetKey on a sandbox deleted since the lookup fails.  The
\* goroutine has not written yet: a crash here leaves the key set and the
\* connection with no reply.
SetKey(h) ==
    /\ srv[h] = "setkey"
    /\ \/ /\ SandboxCurrent(h)
          /\ srv' = [srv EXCEPT ![h] = "writeOK"]
          /\ sbKey' = [sbKey EXCEPT ![Target[h]] = KeyOf[h]]
          /\ keyed' = keyed \cup {<<h, hold[h]>>}
       \/ /\ ~SandboxCurrent(h)
          /\ srv' = [srv EXCEPT ![h] = "writeErr"]
          /\ UNCHANGED <<sbKey, keyed>>
    /\ UNCHANGED <<daemon, sockFile, loop, backlog, hpc, hold, reply, sb, gen>>

\* The goroutine writes "success" when processExternalKey returned nil and
\* the error text otherwise, then the deferred conn.Close.  The helper is
\* blocked in its Read, so the Write does not fail.
WriteReply(h) ==
    /\ srv[h] \in {"writeOK", "writeErr"}
    /\ srv' = [srv EXCEPT ![h] = "done"]
    /\ reply' = [reply EXCEPT ![h] = IF srv[h] = "writeOK" THEN "success"
                                                         ELSE "error"]
    /\ UNCHANGED <<daemon, sockFile, loop, backlog, hpc, hold, sb, gen, sbKey,
                   keyed>>

\* Mutant: the listener does not unlink its file on Close.
stopKeepingFile ==
    /\ daemon = "listening"
    /\ daemon' = "stopped"
    /\ backlog' = {}
    /\ reply' = [h \in Helpers |-> IF h \in backlog THEN "closed" ELSE reply[h]]
    /\ UNCHANGED <<sockFile, loop, hpc, srv, hold, sb, gen, sbKey, keyed>>

\* stopExternalKeyListener: Close the listener.  A Unix listener made by
\* net.Listen unlinks its socket file on Close, and the connections still
\* queued in the backlog are reset.
stopExternalKeyListener ==
    /\ daemon = "listening"
    /\ daemon' = "stopped"
    /\ sockFile' = FALSE
    /\ backlog' = {}
    /\ reply' = [h \in Helpers |-> IF h \in backlog THEN "closed" ELSE reply[h]]
    /\ UNCHANGED <<loop, hpc, srv, hold, sb, gen, sbKey, keyed>>

-----------------------------------------------------------------------------
(* Daemon crash and restart (spec 5: a restarted daemon recovers the same  *)
(* controller id, hence the same socket path).  The kernel closes the      *)
(* dead process's sockets, so queued and served connections end with no    *)
(* reply; the socket file, never unlinked, stays.  The sandbox table is    *)
(* restored by the restarted daemon.                                       *)

ConnReset == [h \in Helpers |->
                IF (h \in backlog \/ srv[h] \notin {"none", "done"})
                   /\ reply[h] = "none"
                THEN "closed" ELSE reply[h]]

\* The daemon process dies (killed, or exiting after a failed start) and is
\* started again; it is about to call startExternalKeyListener.
DaemonRestart ==
    /\ daemon \in {"listening", "stopped", "failed"}
    /\ daemon' = "init"
    /\ loop' = "none"
    /\ backlog' = {}
    /\ reply' = ConnReset
    /\ srv' = [h \in Helpers |-> IF srv[h] = "done" THEN "done" ELSE "none"]
    /\ UNCHANGED <<sockFile, hpc, hold, sb, gen, sbKey, keyed>>

-----------------------------------------------------------------------------
(* Sandboxes (Controller.NewSandbox, Sandbox.Delete; from the spec).        *)

NewSandbox(c) ==
    /\ daemon \in {"listening", "stopped"}
    /\ sb[c] = "none"
    /\ gen[c] < MaxGen
    /\ sb' = [sb EXCEPT ![c] = "live"]
    /\ gen' = [gen EXCEPT ![c] = gen[c] + 1]
    /\ sbKey' = [sbKey EXCEPT ![c] = NoKey]
    /\ UNCHANGED <<daemon, sockFile, loop, backlog, hpc, srv, hold, reply,
                   keyed>>

SandboxDelete(c) ==
    /\ sb[c] = "live"
    /\ sb' = [sb EXCEPT ![c] = "none"]
    /\ UNCHANGED <<daemon, sockFile, loop, backlog, hpc, srv, hold, reply,
                   gen, sbKey, keyed>>

-----------------------------------------------------------------------------
(* Helper side (setKey, setExternalKey, processReturn).  The runtime runs  *)
(* the prestart hook of a container synchronously: at most one helper per  *)
(* container is in flight.                                                 *)

HelperBusy(c) ==
    \E g \in Helpers \ Silent : Target[g] = c /\ hpc[g] = "waiting"

\* flag.Args() has fewer than 2 args or the runtime state on stdin does not
\* decode: exit 1 before dialing.
HelperBadInput(h) ==
    /\ hpc[h] = "idle"
    /\ h \notin Silent
    /\ hpc' = [hpc EXCEPT ![h] = "failed"]
    /\ UNCHANGED <<daemon, sockFile, loop, backlog, srv, hold, reply, sb, gen,
                   sbKey, keyed>>

\* net.Dial("unix", uds) then json Encode of the request.  Dial fails when
\* the file is missing (ENOENT), when nothing listens on it (ECONNREFUSED)
\* or when the listen queue is full (EAGAIN).
HelperDial(h) ==
    /\ hpc[h] = "idle"
    /\ ~HelperBusy(Target[h])
    /\ \/ /\ sockFile
          /\ daemon = "listening"
          /\ Cardinality(backlog) < Backlog
          /\ hpc' = [hpc EXCEPT ![h] = "waiting"]
          /\ backlog' = backlog \cup {h}
       \/ /\ ~(sockFile /\ daemon = "listening"
               /\ Cardinality(backlog) < Backlog)
          /\ hpc' = [hpc EXCEPT ![h] = "failed"]
          /\ UNCHANGED backlog
    /\ UNCHANGED <<daemon, sockFile, loop, srv, hold, reply, sb, gen, sbKey,
                   keyed>>

\* Mutant: the reply is compared with "success\\n" (an Fprintln-style
\* writer), so no reply counts as success.
processReturnNewline(h) ==
    /\ hpc[h] = "waiting"
    /\ h \notin Silent
    /\ reply[h] # "none"
    /\ hpc' = [hpc EXCEPT ![h] = "failed"]
    /\ UNCHANGED <<daemon, sockFile, loop, backlog, srv, hold, reply, sb, gen,
                   sbKey, keyed>>

\* processReturn: one Read of at most 1024 bytes; anything but the whole
\* literal "success" (an error text, EOF, or a short read of "success") is
\* an error and the helper exits 1.
processReturn(h) ==
    /\ hpc[h] = "waiting"
    /\ h \notin Silent
    /\ reply[h] # "none"
    /\ \/ /\ reply[h] = "success"
          /\ hpc' = [hpc EXCEPT ![h] = "ok"]
       \/ /\ reply[h] = "success"
          /\ ShortReads
          /\ hpc' = [hpc EXCEPT ![h] = "failed"]
       \/ /\ reply[h] \in {"error", "closed"}
          /\ hpc' = [hpc EXCEPT ![h] = "failed"]
    /\ UNCHANGED <<daemon, sockFile, loop, backlog, srv, hold, reply, sb, gen,
                   sbKey, keyed>>

-----------------------------------------------------------------------------
DaemonNext ==
    \/ startExternalKeyListener
    \/ AcceptError
    \/ stopExternalKeyListener
    \/ \E h \in Helpers :
          AcceptConn(h) \/ ReadRequest(h) \/ SetKey(h) \/ WriteReply(h)

SandboxNext ==
    \E c \in Containers : NewSandbox(c) \/ SandboxDelete(c)

HelperNext ==
    \E h \in Helpers : HelperBadInput(h) \/ HelperDial(h) \/ processReturn(h)

Next == DaemonNext \/ SandboxNext \/ HelperNext

(* The Go scheduler runs every runnable goroutine and helper process       *)
(* eventually; nothing forces a start, a stop or a sandbox operation.      *)
Fairness ==
    /\ WF_vars(AcceptError)
    /\ \A h \in Helpers :
          /\ WF_vars(AcceptConn(h))
          /\ WF_vars(ReadRequest(h))
          /\ WF_vars(SetKey(h))
          /\ WF_vars(WriteReply(h))
          /\ WF_vars(HelperDial(h))
          /\ WF_vars(processReturn(h))

Spec == Init /\ [][Next]_vars

FairSpec == Spec /\ Fairness

\* The system with daemon crashes and restarts.
RestartNext == Next \/ DaemonRestart

RestartSpec == Init /\ [][RestartNext]_vars /\ Fairness

-----------------------------------------------------------------------------
(* Properties.                                                             *)

KeyedBy(h) == \E p \in keyed : p[1] = h

\* A helper that exits 0 (processReturn read "success") had its key set by
\* Sandbox.SetKey in the daemon: the goroutine of acceptClientConnections
\* writes "success" only when processExternalKey returned no error.
SuccessMeansKeyApplied ==
    \A h \in Helpers : hpc[h] = "ok" => KeyedBy(h)

\* A helper that exits 1 did not get its key set: the daemon side of the
\* connection reports a SetKey that happened, so the runtime never aborts a
\* container start whose namespace the daemon has already configured.
FailureMeansNotApplied ==
    \A h \in Helpers : hpc[h] = "failed" => ~KeyedBy(h)

\* The key of a live sandbox was delivered for that very incarnation: the
\* goroutine sets the key on the object GetSandbox returned, so a request
\* looked up before the sandbox was deleted and created again never lands
\* on the new sandbox.
KeyBelongsToIncarnation ==
    \A c \in Containers :
        sb[c] = "live" /\ sbKey[c] # NoKey =>
            \E h \in Helpers : /\ Target[h] = c
                              /\ KeyOf[h] = sbKey[c]
                              /\ <<h, gen[c]>> \in keyed

\* The refinement mapping: a helper's key is applied once keyed records it,
\* and a helper runs until processReturn (or a failed dial or bad input)
\* gives its exit status.
AppliedBar == {h \in Helpers : KeyedBy(h)}

StatusBar == [h \in Helpers |->
                IF hpc[h] \in {"idle", "waiting"} THEN "running" ELSE hpc[h]]

Delivery == INSTANCE KeyDelivery WITH applied <- AppliedBar, status <- StatusBar

\* The key exchange implements what the prestart hook promises the runtime:
\* Sandbox.SetKey applies a helper's key at most once and only while the
\* helper waits on its connection (never after processReturn has exited),
\* and the helper exits 0 exactly when the key was applied.
KeyDeliverySpec == Delivery!Spec

\* Every helper the runtime starts eventually exits, even while a silent
\* client holds a connection open: net.Dial fails at once (ENOENT,
\* ECONNREFUSED, EAGAIN on a full queue) instead of blocking, and
\* acceptClientConnections serves each connection on its own goroutine.
HelperTerminates ==
    \A h \in Helpers \ Silent : <>(hpc[h] \in {"ok", "failed"})

\* Whenever the daemon starts (first or after a crash) the socket path is
\* free, so net.Listen in startExternalKeyListener can succeed.  Spec 5
\* asks only for the directory creation to be idempotent across restarts
\* that recover the same controller id; this property is what such a
\* restart needs of the socket path that the id determines (spec 6).
ListenPathFree == daemon = "init" => ~sockFile

\* After stopExternalKeyListener the accept loop eventually returns: the
\* closed listener makes Accept fail and os.Stat finds the socket removed.
AcceptLoopStops ==
    (daemon = "stopped" /\ loop = "running") ~> (loop = "exited")

=============================================================================
