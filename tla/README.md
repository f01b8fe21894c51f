# Formal models of the moby network control plane and its neighbours

This directory holds TLA+ models of code under `src/`. Each model has
TLC configurations that check it on small instances, and TLAPS proofs
that cover every instance. `PROJECT.json` lists the components, runs,
mutants, hazards and theorems. It also maps each model definition to
the source lines it translates.

## 1. Inventory

### Components and their state

| Component | Source | State | Operations |
|---|---|---|---|
| Key Exchange Listener | `daemon/libnetwork/sandbox_externalkey_unix.go` | the socket file `<execRoot>/libnetwork/<shortid>.sock`; the listener (`c.extKeyListener`); the accept-loop goroutine; one goroutine per connection | `startExternalKeyListener`, `acceptClientConnections`, `processExternalKey`, `stopExternalKeyListener` |
| setkey helper (re-exec'd `libnetwork-setkey`) | same file | one process per container start: its arguments, the runtime state on stdin, one connection | `setKey`, `setExternalKey`, `processReturn` |
| Sandbox table | not under `src/` (spec §3, §4.4) | sandbox per container id, its key, whether a delete is in progress | `NewSandbox`, `GetSandbox`, `Sandbox.SetKey`, `Sandbox.Delete` |
| Network/Endpoint lifecycle, IPAM with rollback | not under `src/`; tests in `libnetwork_internal_test.go` | networks, endpoints, pools and addresses granted | `NewNetwork`, `CreateEndpoint`, `Join`, `Leave`, `Delete`, `ipamAllocate`, `ipamRelease` |
| Service Record Table | not under `src/`; tests in `libnetwork_internal_test.go` | per network and family: name → multiset of (ip, registrant) | `addSvcRecords`, `deleteSvcRecords`, `ResolveName`, `ResolveIP`, `ResolveService` |
| Driver registry | tests only (`badDriver`) | type name → driver | `RegisterDriver` |
| Image pull leases | `daemon/images/store.go` | the digests committed during a pull (under `mu`); the image's lease and its resources | `Writer`, `Commit`, `addDigested`, `getDigested`, `updateLease`, `Put`, `Get`, `Delete` |
| Image import | `daemon/containerd/image_import.go` | the import lease; the blobs written; the image record | `ImportImage`, `saveArchive`, `writeCompressedBlob`, `compressAndWriteBlob`, `unpackImage` |
| vfs graph driver | `unnamed/part_002` | the layer directories under `home/dir`; the quota option | `Init`, `parseOptions`, `Create`, `CreateReadWrite`, `create`, `Remove`, `Get` |
| Container stats | `unnamed/part_003` | none (conversions); `/proc/stat` parsing | `stats`, `statsV1/V2`, `getNetworkSandboxID`, `readSystemCPUUsage` |
| Host config validation | `unnamed/part_005` | none (predicates over mode strings) | `Valid`, `ValidateRestartPolicy`, ... |
| OCI device cgroup rules | `daemon/pkg/oci/oci.go` | none (parser) | `AppendDevicePermissionsFromCgroupRules` |
| System router, tests | `system.go`, `unnamed/part_000`, `part_001`, `part_004` | a static route table; test code | none |

### How the components interact

The container runtime starts a container and runs the prestart hook.
The hook re-executes the daemon binary as `libnetwork-setkey <cid>
<shortid>` and passes the runtime state on stdin. The helper builds
the key `/proc/<pid>/ns/net` from that state. It dials the daemon's
Unix socket, sends one JSON record and reads one reply. It exits 0
only if the reply is exactly `success`.

Inside the daemon, the accept loop starts one goroutine per
connection. That goroutine reads the request once and unmarshals it.
It then looks the sandbox up (`GetSandbox`) and calls `SetKey` on the
object it got back. Finally it writes `success` or the error text and
closes the connection. None of these steps holds a controller lock
across I/O.

The sandbox table is shared with the rest of the controller. Sandboxes
can be created and deleted concurrently with key delivery.

The image components talk to containerd's content store and lease
manager. Pull writers run concurrently and share `contentStoreForPull`
through a mutex. Import joins a writer goroutine through `io.Pipe` and
an unbuffered channel.

### What is hard

- **Interleavings.** Key deliveries for several containers run
  concurrently. A sandbox can be deleted and recreated between
  `GetSandbox` and `SetKey`. Pull writers can commit after
  `updateLease` has taken its snapshot of digests.
- **Unframed stream I/O.** Each side does a single `Read` with no
  length prefix. A short read is legal on a stream socket.
- **Progress.** A client that connects and never writes must not
  block other clients. The accept loop must end after stop, and its
  only exit test is whether the socket file still exists.
- **Partial failure.** Examples: a listener start that fails after
  `Listen`; image import that fails after the image record exists; a
  vfs layer directory left behind after a failed copy.
- **Numeric edges.** `readSystemCPUUsage` multiplies clock ticks by
  1e9 in `uint64`.

### Properties that make each component correct

The IPAM, service-record, vfs and CPU-usage items state what correctness
would mean for components the project does not model (section 7).

- **Key exchange.**
  - The helper's exit status reports what the daemon did: it exits 0
    only if its key was set, and exits 1 only if it was not.
  - A key lands only on the sandbox incarnation that was looked up.
  - Every helper finishes.
  - The accept loop ends after stop.
  - A restart of the listener succeeds (spec §5).
- **IPAM.** Every pool or address allocated for a failed `NewNetwork`
  or `CreateEndpoint` is released. No two live networks hold the same
  pool.
- **Service records.** A name resolves while at least one registrant
  remains. Deleting a registrant that was never added changes nothing.
  The reverse lookup is empty once the last registrant is gone.
- **Pull leases.** A stored image keeps its blobs: every digest
  committed during a pull is in the image's lease once `updateLease` has
  run.
- **Import.** Both sides of every pipe finish, on every error path, and
  `ImportImage` returns.
- **vfs.** A failed `Create` leaves no layer directory that blocks a
  retry.
- **CPU usage.** The reported usage does not decrease while ticks grow.

## 2. Modules

| Module | Models | Checked by | Proved in |
|---|---|---|---|
| `KeyDelivery` | what the setkey hook promises the runtime (abstract) | through `KeyExchange` | - |
| `KeyExchange` | listener, accept loop, connection goroutines, setkey helper, sandbox table (spec), daemon crash/restart | `MC_KeyExchange` (4 cfgs) | `KeyExchangeProofs` |
| `PullLeases` | `store.go`: the pull wrappers, `updateLease`, `imageStoreWithLease.Delete`, with the puller and containerd's collector as environment | `MC_PullLeases` (5 cfgs) | `PullLeasesProofs` |
| `BlobWrite` | what a blob write promises (abstract) | through `BlobPipe` | - |
| `BlobPipe` | `writeCompressedBlob`, `compressAndWriteBlob`, `writeBlobAndReturnDigest` | `MC_BlobPipe`, and `MC_ImageImport` through `ImageImport` | `BlobPipeProofs` |
| `ImageImport` | `ImportImage`, `saveArchive`, `fillUncompressedLabel`, `storeJson`, `unpackImage`, composed with `BlobPipe` and a collector | `MC_ImageImport` (2 cfgs) | `ImageImportProofs` |

## 3. The key-exchange model (`KeyExchange.tla`)

### State

| Variable | Code |
|---|---|
| `daemon` | whether `startExternalKeyListener` has run, failed, or `stopExternalKeyListener` has closed the listener |
| `sockFile` | existence of the socket file, which `os.Stat` checks at line 149 |
| `loop` | the `acceptClientConnections` goroutine |
| `backlog` | connections queued in the kernel listen queue |
| `srv[h]` | the goroutine serving helper `h`'s connection (line 157): `reading` is `conn.Read`/`GetSandbox`, `setkey` is the call of `sb.SetKey`, `writeOK`/`writeErr` is the reply it is about to write (line 161-164), `done` is after `conn.Write` |
| `hold[h]` | the sandbox object that goroutine obtained, as a generation number |
| `reply[h]` | the bytes the daemon left on the connection, abstracted to `success`, `error` or `closed` |
| `hpc[h]` | the helper process |
| `sb`, `gen`, `sbKey` | the sandbox table (spec-modelled) |
| `keyed` | a history variable: which helper's key was set on which incarnation |

### Actions

There is one action per operation:

- `startExternalKeyListener`: `MkdirAll`, `Listen`, `Chmod`, and
  starting the goroutine. Each failure leaves no socket file and no
  loop.
- `AcceptConn` and `AcceptError`: the two outcomes of `l.Accept()`.
- `ReadRequest`: `processExternalKey` up to `GetSandbox`.
- `SetKey`: `sb.SetKey` on the object that was looked up (line 189),
  and the goroutine's choice of reply (lines 161-164).
- `WriteReply`: the goroutine's `conn.Write` and the deferred `Close`
  (lines 166-170).
- `stopExternalKeyListener`.
- `HelperBadInput`: the early returns of `setKey`.
- `HelperDial`: `Dial` and `Encode`, with `ENOENT`, `ECONNREFUSED` and
  `EAGAIN` failures.
- `processReturn`.
- `NewSandbox` and `SandboxDelete`.

`SetKey` and `WriteReply` are separate steps because the daemon can die
between them: the namespace is then configured and the helper reads no
reply. Two pairs of steps are merged, because nothing observable
happens between them:

- `Dial` and `Encode`. A `Read` on the daemon side blocks until the
  data is there.
- `Read`, `Unmarshal` and `GetSandbox`. These read nothing that another
  actor writes, except the sandbox table, which is read once.

`ShortReads` is a constant. When it is `TRUE`, each `Read` may also
return a strict prefix. Short reads are legal on a `SOCK_STREAM`
socket.

The runtime runs one hook per container at a time, so a helper dials
only when no other helper for the same container is waiting
(`HelperBusy`). The `Silent` clients connect and never send anything.

### Runs

| Run | Checks | Shows |
|---|---|---|
| `keyexchange` (`MC_KeyExchange.cfg`, `ShortReads = FALSE`) | `TypeOK`, `SuccessMeansKeyApplied`, `FailureMeansNotApplied`, `KeyBelongsToIncarnation`, `KeyDeliverySpec`, `HelperTerminates`, `AcceptLoopStops` | With whole reads and no crash, the exit status matches the daemon's state and the exchange implements `KeyDelivery`. Keys stay with their incarnation. Every helper the runtime starts reaches a verdict, although a silent client holds a goroutine and the queue can be full. The loop ends after stop. |
| `keyexchange_shortread_failure` (violation, `ShortReads = TRUE`) | `FailureMeansNotApplied` | The helper can exit 1 after its key was set. |
| `keyexchange_restart` (violation, `RestartSpec`) | `FailureMeansNotApplied` | A crash between `SetKey` and `conn.Write` has the same effect. |
| `keyexchange_stale_socket` (violation, `RestartSpec`) | `ListenPathFree` | The restarted daemon cannot listen on the path of the crashed one. |

`HelperTerminates` starts from a helper that the runtime has just
started (`idle`). It therefore covers a helper that would block in
`Dial` on a full queue, as well as one blocked on its reply.

The short-read run is a spec gap (`PROJECT.json` findings). Spec §6
prescribes exactly what the code does: a single unframed `Read`
compared with the literal `success` (line 108). A short read of
`success` is then an error text. The runtime fails the container start
although the daemon has already moved the sandbox into the namespace,
which §8.7 does not expect. The same single `Read` on the daemon side
(line 176) turns a short request read into a JSON error, with no key
set.

### Bounds and why they are enough

The instance has:

- four clients: `h1` and `h2` for container `c1`, which the runtime
  runs one after the other; `h3` for `c2`; and the silent `s1`;
- two containers;
- two keys;
- `Backlog = 2`;
- `MaxGen = 2` (`MaxGen = 1` in the crash runs, where no property is
  about generations).

These bounds make every interesting case happen:

- **Full queue.** `h1`, `h3` and `s1` can all dial while the loop has
  not yet accepted, so the queue fills and a dial fails with `EAGAIN`.
- **Recreated sandbox.** With two generations, a sandbox can be
  deleted and recreated between lookup and `SetKey`, which is the
  stale-object case.
- **Two keys for one container.** `h1` and `h2` send different keys
  for the same container.
- **Blocked goroutine.** `s1` blocks a goroutine forever.

The `keyexchange` run explores 459,654 distinct states in about 80
seconds.

### Fairness

The liveness properties assume weak fairness of:

- the accept loop's error outcome and each connection's `Accept`;
- each connection goroutine's steps (`ReadRequest`, `SetKey`,
  `WriteReply`);
- the helper's dial and read.

These are goroutines and processes that the Go scheduler and the
kernel keep running. An `idle` helper is a process the runtime has
already started. Nothing is assumed about when the listener is started
or stopped, or when sandboxes are created or deleted.
`CHECK_DEADLOCK FALSE` is set because the daemon really does idle in
`Accept` forever once every helper has finished. Progress is stated by
`HelperTerminates` instead.

### Mutants

Every property is broken by a plausible bug in the code it is about:

| Mutant | Bug | Breaks |
|---|---|---|
| `SetKeyIgnoringError` | picks `success` whatever `SetKey` returned | `SuccessMeansKeyApplied` |
| `processReturnNewline` | compares with an Fprintln-style `success\n` | `FailureMeansNotApplied`, `KeyDeliverySpec` |
| `SandboxCurrentById` | `SetKey` re-looks the sandbox up by id | `KeyBelongsToIncarnation` |
| `AcceptConnInline` | serves connections inline instead of on a goroutine | `HelperTerminates` |
| `stopKeepingFile` | the listener does not unlink on `Close` | `AcceptLoopStops` |
| `ReadRequestIgnoringLookupError` | drops the `GetSandbox` error | `TypeOK` |

### What is proved (`KeyExchangeProofs.tla`)

Everything below is proved for all constants satisfying
`ConstAssumption`:

- `TypeCorrect`: `Spec => []TypeOK`, from `TypeInit` and `TypeStep`.
- `SuccessMeansKeyAppliedThm`: `Spec => []SuccessMeansKeyApplied`, for
  any value of `ShortReads`.
- `SuccessUnderRestartThm`: `RestartSpec => []SuccessMeansKeyApplied`.
  A helper exits 0 only for an applied key, even when the daemon dies
  between `SetKey` and the `Write`.
- `FailureMeansNotAppliedThm`: if `~ShortReads`, then
  `Spec => []FailureMeansNotApplied`. Both violation runs above show
  that neither hypothesis can be dropped: not whole reads, and not the
  absence of crashes.
- `KeyBelongsToIncarnationThm`: `Spec => []KeyBelongsToIncarnation`,
  and `KeyBelongsUnderRestartThm` for `RestartSpec`. This property is
  inductive together with `TypeOK` (`KeyStep`, `KeyRestart`).
  `NewSandbox` resets the key of the incarnation it creates, `SetKey`
  sets a key only when the looked-up generation is the current one, and
  a crash leaves the sandbox table and `keyed` alone.
- `KeyDeliveryThm`: if `~ShortReads`, then `Spec => KeyDeliverySpec`
  (below).

The success property follows from `SInv`, which holds with crashes
(`SInvStep` is proved for `RestartNext`):

- `TypeOK` and `SuccessMeansKeyApplied`;
- a goroutine about to write `success` (`writeOK`) has set the key;
- a `success` reply implies the key was set.

A crash writes only `closed`, so it never creates a `success`.

The failure property and the refinement follow from `IInv`, which holds
without crashes. It adds to `SInv`:

- a queued connection's helper is waiting and nothing has been written
  to it;
- an idle helper has no connection;
- while a goroutine serves a connection, its helper waits and its
  reply is empty;
- a keyed helper's goroutine is about to write `success`, or has
  written it;
- a helper that exited 0 read `success`.

The argument is that a reply is written once: by the goroutine, after
it set the key or failed to, or by the listen-queue reset on stop, only
for helpers still waiting. The helper's verdict is read from that
reply. `IInvStep` is proved with one step per action. The `SetKey` step
is split on whether the looked-up sandbox is still current, and the
`WriteReply` step on the reply chosen. TLC checked `SInv` and `IInv`
as invariants on the instance above before the proofs were written.

### The hook's promise (`KeyDelivery.tla`) and its refinement

`KeyDelivery` states what the prestart hook promises the container
runtime, over the helpers alone. Its variables are:

- `applied`: the helpers whose key the daemon set;
- `status`: for each helper, `running`, `ok` or `failed`.

It has three actions:

- `Apply(h)`: the key is set at most once, and only while `h` is
  running;
- `ExitOK(h)`: `h` exits 0, which requires its key to be applied;
- `ExitFail(h)`: `h` exits 1, which requires its key not to be applied.
  The key can then never be applied afterwards.

`KeyExchange` instantiates it `WITH applied <- AppliedBar, status <-
StatusBar`:

- `AppliedBar` is the set of helpers with an entry in the key history
  `keyed`;
- `StatusBar` maps `idle` and `waiting` to `running`, and keeps `ok` and
  `failed`.

Under this mapping:

- the successful `SetKey` is `Apply`;
- `processReturn` is `ExitOK` or `ExitFail`;
- the helper's bad input and failed dial are `ExitFail`;
- every other step is a stutter.

`KeyDeliveryThm` proves `~ShortReads => (Spec => KeyDeliverySpec)` and
the `keyexchange` run checks it. The proof reuses `IInv` and has three
lemmas:

- `DeliveryStutter`: steps that leave `hpc` and `keyed` alone are
  stutters;
- `NotKeyed`: a helper whose goroutine has not set its key, or whose
  reply is a failure, has no key;
- `DeliveryStep`: every step maps to an abstract step or a stutter.

The refinement fails with short reads, and it fails under crashes:
`processReturn` can then exit 1 after `Apply`. These are the two
violation runs on `FailureMeansNotApplied`.

### Daemon crash and restart (`RestartSpec`)

`DaemonRestart` models the daemon process dying while the listener
is up, stopped or failed, and then starting again. The accept loop,
the backlog and the per-connection goroutines disappear, and a helper
waiting on a reply sees its connection closed. Two things survive the
crash:

- the socket file, because nothing unlinks it;
- the sandbox table, which is restored from the store (spec §5).

`RestartSpec` is `Init /\ [][Next \/ DaemonRestart]_vars /\ Fairness`.
Nothing in the daemon schedules a crash, so `DaemonRestart` carries no
fairness.

- **`keyexchange_restart`** (violation, `FailureMeansNotApplied`). A
  helper dials, the goroutine reads its request and `SetKey` sets the
  key. The daemon dies before `conn.Write`, so the helper reads EOF and
  exits 1. The runtime then aborts a start whose namespace is
  configured, and nothing undoes the key (spec_gap,
  `sandbox_externalkey_unix.go:166`).
- **`keyexchange_stale_socket`** (violation, `ListenPathFree`). A
  restarted daemon finds the socket path of the crashed one still
  present. `startExternalKeyListener` does not remove it before
  `net.Listen`, so the listener fails with "address in use" (finding,
  `sandbox_externalkey_unix.go:129`). Spec §5 makes only the directory
  creation idempotent. The path comes from the controller id (§6), which
  a restart recovers.

What does hold under crashes is proved rather than run:
`SuccessUnderRestartThm` and `KeyBelongsUnderRestartThm`.

## 4. Pull leases (`PullLeases.tla`, `src/daemon/images/store.go`)

**State.** The variables are:

- `content`: the committed blobs of the content store;
- `leased` and `lease`: the image leases and the digests each holds;
- `images`: the image store;
- `deleting`: images whose lease `Delete` has removed, with
  `Store.Delete` still pending;
- for each pull:
  - `pc`: its place;
  - `todo`: the blobs not yet opened;
  - `open`: the writers not yet committed;
  - `digested`: the digests recorded by `addDigested`;
  - `tmp`: the temporary lease;
  - `pending`: the snapshot `updateLease` is still adding;
  - `ret`: where `updateLease` returns to.

**Actions.** Each method of `store.go` that changes state is an action:

- `Writer` (an `AlreadyExists` result records the digest);
- `Commit`, with a failing commit as a fault;
- `Get` and `Put`;
- the three steps of `updateLease`, each of which may fail:
  - `LeaseCreate` (create or reuse the lease). An `AlreadyExists`
    error means reuse. Any other error fails `updateLease` whether or
    not the lease exists;
  - `AddResource` (one per digest);
  - `LeaseUpdated`;
- `DeleteLease` and `StoreDelete`, the two steps of
  `imageStoreWithLease.Delete`.

The rest comes from the spec and is the environment:

- `StartPull` and `PullFails`: the puller;
- `Held` and `CollectGarbage`: containerd's collector.

The collector may remove any committed blob that no lease holds, at any
time. Nothing forces it to run, so there is no fairness and no liveness
property here.

**Instance** (`MC_PullLeases`). There are three pulls, two of them of
the same image. The two images share blob `d2`. This gives the
interesting cases:

- two pulls racing on one image lease;
- a blob that one pull finds already present;
- a blob that the second image's delete must not take from the first.

**Runs.**
- `pullleases` (pass; commits may fail). `ImageContentRetained`: a
  stored image that no delete is removing still has every blob in the
  store, once some pull of it has finished or no pull of it is still in
  `updateLease` (`create` or `add`). While a pull is inside
  `updateLease`, its blobs are still held by its temporary lease, which
  the model keeps until the pull ends.
- `pullleases_faults` (pass; every call may fail).
  `LeaseRefersToContent`: an image lease never names a blob that is not
  in the store.
- `pullleases_partial_lease` (violation, `ImageContentRetained`, only
  lease faults). `Put` stores the image config and then `updateLease`
  fails in `leases.Create`. `Put` returns the error, the pull fails and
  its temporary lease goes, but the image stays in the store with no
  lease. The collector then removes its blobs (code_bug, `store.go:59`).
- `pullleases_delete_failure` (violation). `Delete` removes the lease
  before `Store.Delete`, so when `Store.Delete` fails the image stays
  with no lease and the collector empties it (code_bug, `store.go:43`).
  In TLC's shortest trace, a pull of the image is in `updateLease` when
  the lease goes; its `AddResource` then fails too.
- `pullleases_delete_race` (violation, `NoOrphanLease`). A pull of the
  same image can run `updateLease` between `leases.Delete` and
  `Store.Delete`. It re-creates the lease, which then outlives the image
  and holds its blobs forever. This contradicts the type's comment
  (spec_gap, `store.go:72`).

**Proofs** (`PullLeasesProofs.tla`).

`LInv` is the inductive invariant. It holds:

- `TypeOK`;
- an active pull's temporary lease equals its `digested` set, and that
  set is in the store;
- an `updateLease` snapshot is part of `digested`;
- a lease that does not exist is empty.

From `LInv`, `LeaseRefersToContentThm` holds for every fault set.

`ImageContentRetainedThm` assumes that no lease call fails and that
`Store.Delete` does not fail (`NoLeaseFaults`). This matches the
`pullleases` run. The `pullleases_partial_lease` and
`pullleases_delete_failure` violation runs show that the property fails
without this assumption. Its strengthening `IInv` adds four facts:

- `InHand`: an active pull's blobs are still to write, open or
  recorded;
- `AllWritten`: `updateLease` runs only after the puller wrote
  everything;
- `ImageLeased`: each completed image is either:
  - leased, with every blob in the lease or in the snapshot of a pull
    still adding; or
  - being created by `LeaseCreate`.
- `Stored`: every stored image that no delete is removing was put by a
  pull that returns to, or reached, the end of the pull. Without lease
  faults such a pull cannot fail after `Put`. So once no pull of the
  image is in `updateLease`, one of them has finished, and
  `ImageLeased` applies.

TLC checked `IInv` as an invariant before the proof was written.

## 5. Image import (`BlobWrite`, `BlobPipe`, `ImageImport`)

`BlobWrite` is the abstract specification of a blob write. It stores at
most once and returns once. It returns success only after the blob is
stored, and nothing happens after it returns.

`BlobPipe` models the two goroutine protocols of `saveArchive`:
`writeCompressedBlob` and `compressAndWriteBlob`. Main and the goroutine
`g` have program counters `mpc` and `gpc`. The `io.Pipe` is modelled
with these rules:

- a write completes only together with a read (`TeeTransfer`,
  `PipeTransfer`);
- a write on a pipe whose other end is closed fails (`TeeWriteError`,
  `CompressWriteError`);
- a read returns the close error of the other end (`DecompressEnd`,
  `PipeReadEnd`).

The unbuffered channel carrying the digest is `Receive`. The data is
abstracted to a count of chunks (`Chunks`). Every call that may fail is
a fault in `Faults`.

`ImageImport` composes `BlobPipe` with `ImportImage`: the lease,
`saveArchive`, `fillUncompressedLabel`, `storeJson` of the config and of
the gc.ref-labelled manifest, `createOrReplaceImage`, `unpackImage` and
the deferred lease release. A collector (spec-modelled) removes what
neither the lease nor the image holds.

**Fairness.** The import is `WF(ImportStep)` and the two goroutines are
`WF(PipeStep)`. The Go scheduler runs every runnable goroutine, and a
blocked pipe or channel operation becomes runnable as soon as its peer
is there. The collector gets no fairness.

**Runs.**
- `import_gzip` (pass). Gzip input through `writeCompressedBlob`, with
  `Chunks = 4` and every fault. It checks two properties:
  - `BlobWriteSpec`: the refinement, with the pipe's `stored` and
    `result` mapped onto the abstract ones;
  - `ImportReturns`.
- `import` (pass). Gzip, xz and uncompressed input through both
  protocols, with `Chunks = 2`. It checks three properties:
  - `ImportOKComplete`: a successful import leaves an unpacked image
    whose three blobs survive the lease release;
  - `ReleaseKeepsImageContent`: when the lease of an import that
    created an image record is released, the record's labels hold all
    three blobs;
  - `ImportReturns`: `ImportImage` returns on every path. No goroutine
    of either pipe protocol is left blocked. The deferred release always
    runs, but a failed `leases.Delete` is only logged (lines 51-55), so
    the lease is not claimed to go.
- `blobpipe_lost_error` (violation, `BlobWriteSpec`).
  `compressAndWriteBlob` returns only main's error. When `g`'s open,
  ingest or commit fails, `g` closes the pipe's reading end, the
  compressor's write error is ignored, and success is returned for a
  blob that was never stored (code_bug, `image_import.go:276`). The
  `import` run shows `ImportImage` is still correct: `cs.Info` in
  `fillUncompressedLabel` catches the missing blob.

With `Chunks = 2`, both the copy loop and the "compressor buffers the
chunk" branch are exercised. With `Chunks = 4` in the tee run, a fault
can hit any of several transfers.

**Proofs** (`BlobPipeProofs.tla`, `ImageImportProofs.tla`). `TeeImplementsBlobWrite` proves
`OnlyTee => (Spec => BlobWriteSpec)` for every `Chunks` and fault set.
`OnlyTee` says only `writeCompressedBlob` is used.

The invariant `RInv` links the two program counters to the pipe's ends.
A goroutine that has passed commit without error has stored the blob,
and main reaches the channel without error only after the pipe was
closed with nil. From that, `RefineStep` maps the steps onto the
abstract ones:

- `CommitBlob` maps to `Store`;
- `Receive` maps to `ReturnOK` or `ReturnError`;
- every other step is a stutter.

The theorem cannot hold for `compressAndWriteBlob`, as the violation run
shows.

`UnstoredOnlyOnGoroutineError` bounds that failure for both functions:
`Spec => [](result # "none" /\ ~stored => gErr)`. So a return without a
committed blob only happens after the goroutine failed. This uses no
`OnlyTee`. Its invariant `GInv` has three parts:

- a goroutine that has passed commit without error stored the blob;
- nothing is returned before both goroutines have ended;
- the type invariant.

Nothing about main's errors is needed. Together with the violation run,
this shows the lost error is exactly the goroutine's error, which
`compressAndWriteBlob` drops.

`ImageImportProofs` proves four theorems about the composed import, for
every `Chunks`, every set of compressions and every fault set:

- `ImportTypeCorrect`: every variable keeps its type.
- `ImportOKCompleteThm`: `ImportSpec => []ImportOKComplete`. This holds
  even on the `compressAndWriteBlob` path with its lost error.
- `ReleaseKeepsImageContentThm`: `ImportSpec =>
  ReleaseKeepsImageContent`. This is an action property, checked by the
  `import` run. When the deferred release drops the lease of an import
  that created an image record, the image's gc.ref labels hold all three
  blobs. This covers both a successful return and the unpack error,
  which leaves the record in place.
- `ImportTeeImplementsBlobWrite`: `OnlyTee => (ImportSpec =>
  BlobWriteSpec)`. This is the refinement that the `import_gzip` run
  checks, now inside the whole import. `PipeProjection` shows that every
  `ImportSpec` step is a `BlobPipe` step or a stutter: `SaveArchive` is
  `StartPipe(ModeOf(c))`, and `ImportImage` and the collector leave the
  pipe alone. From there, `RInvStep` and `RefineStep` of
  `BlobPipeProofs` apply unchanged.

The strengthening behind the first three is `IInv`. It says:

- between `storeJson` of the manifest and `unpackImage`, the labels name
  config and layer;
- an existing image record has those labels, and `ImportImage` is past
  the point where it stores a manifest;
- an unpacked image has all three blobs present, and `ImportImage` is at
  the release or done;
- success implies unpacked.

The collector cannot remove a blob of an unpacked image, because the
labels hold every blob. A goroutine step never takes back `stored`
(`PipeTypeStep`). TLC checked `IInv` on both `MC_ImageImport` instances
before the proof was written.

## 6. What is only model-checked

- **Liveness.** `HelperTerminates`, `AcceptLoopStops` and
  `ImportReturns` are not proved. These say that the helper, the accept
  loop and the import terminate. TLAPS's backends here do not handle
  `ENABLED` and fairness well enough.
- **Violated properties.** These are violated:
  - `ListenPathFree`;
  - `NoOrphanLease`;
  - `ImageContentRetained`, with a failing `Store.Delete` or a failing
    `leases.Create` after `Put`;
  - the `compressAndWriteBlob` refinement;
  - `FailureMeansNotApplied`, with short reads or with a crash between
    `SetKey` and the reply's `Write`. TLC's counterexamples are the
  evidence for them.
- **Safety beyond the proofs' assumptions.**
  - `ImageContentRetained` is proved only without lease and
    `Store.Delete` faults (`NoLeaseFaults`), which is the `pullleases`
    run.
  - `FailureMeansNotApplied` and `KeyDeliverySpec` are proved only with
    whole reads and no crash.
  - `LeaseRefersToContent` is proved for every fault set.

Every invariant and action property of a passing run is stated by a
theorem. The only exceptions are the liveness properties above.

## 7. Not modelled, and why

- **IPAM, service records and the driver registry.** Their code is not
  under `src/`, only tests are. A spec-only model would not be anchored
  in any code that a reviewer could compare it with.
- **vfs graph driver, container stats, host config and OCI device
  rules.** These are the helpers that spec section 1 places outside the
  control plane.
  - They are directory copies, field conversions and string predicates.
  - None has concurrent or persistent state that a model checker
    explores better than a unit test.
  - The project's runs are spent on the three components with
    interleavings and faults.
  - The product `readSystemCPUUsage` computes (`part_003:361`) is the
    one numeric edge left unchecked.
- **System router and test code.** A static route table and tests, with
  no behaviour to check.
- **Retries of the helper's connect loop** (`sandbox_externalkey_unix.go:154`).
  A retry that changes no state is a stutter step.
