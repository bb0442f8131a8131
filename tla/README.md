# remote-fs: TLA+ models and proofs

This directory models remote-fs, a file system whose authoritative volumes live
on a server and are used from other machines.  It holds TLA+ modules, the TLC
configurations that check them on small instances, and proofs that TLAPS checks
for every value of the constants.  `PROJECT.json` lists every part of the
system, every run, a mutation of the model that each property catches, the lines
of `src/` that each definition translates, and the hazards the properties are
aimed at.

## The system

A **volume** is a tree of nodes in SQLite (`packages/metastore/sqlite`) whose
file contents are immutable objects in an object store
(`packages/storage/objectstore`, `localdisk`, `azblob`, `memory`).  Around it:

- `packages/locking` hands out shared and exclusive *leases* on files and makes
  the final commit of a file mutation, its *publication*, conditional on them.
  The longest lease ever promised is durable (`sqlite/lock_recovery.go`,
  `internal/nativelease`), so that a restarted server waits long enough.
- every change of the tree is appended to a bounded **log** in the same
  transaction (`sqlite/log.go`, `internal/changes`) and streamed to clients
  (`transport/httprest/publish.go`).
- a **client** keeps a copy of the tree (`storage/replicated`,
  `sqlite/replica.go`, `replica_gate.go`), reads metadata from it and sends
  mutations to the server (`transport/httprest`).
- clients present the volume as FUSE mounts (`packages/fuse`) or a loopback SMB
  share (`packages/smb`); **advisory** uses and byte ranges
  (`packages/advisory`), retained file sessions and delete-on-close
  (`sqlite/pending_unlink.go`) serve their protocols.
- a **service** (`internal/service`, `internal/management`) opens volumes for
  users and applies quotas (`storage/limited`).

## How the models are built

Every module models the control of its code: a section under one mutex, one
SQLite transaction or one remote call is one step, and whatever may happen
between two of them (another goroutine, a lost reply, a crash) is another step.
Data is reduced to what the properties tell apart: bytes are sets of patches,
names and keys are model values, time is a small integer.

A behaviour follows one *setting*, chosen in `Init` among the constant
`Settings`: the options of the code, and which operations and faults happen.  A
run with several settings explores each of them; their state spaces add up
instead of multiplying, and between them they make every action happen.  Bounds
such as `MaxKeys` or the number of faults are conjuncts of the guards.  The
settings are defined and explained in the `MC` modules.  A run may hold several
components: each behaviour then follows one of them, the others stay in their
initial states, and a property speaks of the component that runs.
Definitions introduced by a comment as mutants are not part
of the model; they are the mutations that the properties are shown to catch.

What TLAPS cannot do stays with TLC: the liveness properties, which need
fairness and `ENABLED`, and whatever needs induction over data.

## Modules and runs

### File lock authority: `LockAuthority`

`packages/locking`.  The record `a` is the Authority's memory (sessions, owners,
actions, resources with their queues and leases, capacity counters); one step is
one section under `a.mu`.  Around it are the monotonic clock `now`, the
persisted maximum lease `durable`, the live files of the metastore, the
publication `pub` that holds the metastore's commit gate, and the maintenance
goroutine `maint`.  The worker goroutine of a resource is part of the resource.
An acquisition runs through Guard, which may fail, and a lease persist, which
may fail and then fences the authority; both happen outside the mutex, so
cancellation, expiry and retirement interleave with them.

`durable` relies on what `LeaseRegister` promises; `promised` is the latest
deadline an earlier incarnation granted, kept to state recovery.

| run | what it shows |
|---|---|
| locks | Three owners queue for one file in both modes: S/X exclusion, first come first served, no waiter without a wake-up. With commits: a commit is covered by an exclusive lease or no other lease exists. With renewals: no lease ends early, none outlives its session. With reopens and failing persists: nothing is granted or committed until every earlier lease ran out |
| progress | every admitted request is decided through failures, fencing and Close, unless the authority stops |

Two or three owners suffice for every conflict (holder, waiter, later waiter);
the clock runs just past the longest deadline an instance can create.
Fairness: weak fairness of the worker, of the maintenance goroutine and of the
clock, which are a goroutine with nothing else to do, a ticker, and time.

### Durable lease evidence: `LeaseRegister`, `LeaseRecovery`

`sqlite/lock_recovery.go` and `internal/nativelease`.  `LeaseRegister` says what
the lock authority relies on: a promise is given only for what is recorded, and
whatever a later process serves covers it.  `LeaseRecovery` is the protocol: a
prepared and an accepted record in SQLite, a witness file, an intent file and an
extended attribute that binds them.  `cache` is what running processes see and
`disk` what survives a power loss; a rename is visible at once and durable only
after the directory was synced.  Every step may fail, a commit may be applied
and yet report an error, the process may stop and the power may fail anywhere.

| run | what it shows |
|---|---|
| host | no promised lease is forgotten, a durable initialisation always reopens, the evidence never contradicts itself, and the protocol implements `LeaseRegister` |

Two durations and a few generations reach every pair of prepared and accepted
records; two first initialisations reach the case in which one is abandoned.

One consequence is worth knowing.  If the first initialisation renamed its
intent but never synced the directory, a second process may reopen, set and sync
the binding, and lose the intent to a power loss: later opens then refuse.  The
code fails closed there (`anchor.go:158`), and nothing had been promised;
`CompletedReopens` therefore speaks of durable initialisations only.

### Snapshot gate of a copy: `ReplicaGate`

`sqlite/replica_gate.go`: many readers or one writer, with batches.  The state
is the four counters of the code and the position of every caller.  A reader of
a released batch counts as active before its goroutine resumes, and its context
may end in between.

| run | what it shows |
|---|---|
| progress | three readers, two writers: a writer is alone, granted batches are not overtaken, nobody sleeps on a free gate, and readers do not starve writers |

Fairness: holders leave (they run one bounded SQLite operation) and woken
goroutines are scheduled.  Nobody is assumed to give up.

### Contents of files: `ContentStore`

`storage/objectstore` over `sqlite/objects.go` and `files.go`.  A write is
Reserve (a transaction), Put (remote), Commit (a transaction); reads look up a
key and then get it; edits through a retained file compare the revision they
read.  `row` is the objects table, `blob` the object store, `late` the Puts that
failed but may still land, `volume` the byte counters, `sweeper` the maintenance
goroutine, `life` the poison and Close.  Contents are sets of patches, so that a
lost edit is a missing patch.

| run | what it shows |
|---|---|
| content | contents stay whole, litter is recorded or unreachable, readers are never told a falsehood, an acknowledged edit is never lost to another, the byte counters are exact and the allowance is never passed, no node or object is left behind, and Close waits for everything it must |
| progress | garbage is deleted and forgotten, or the store stops |
| content_signal | expected violation, see Findings |

Bounds: two or three callers, as many keys as operations that reserve, one or
two faults.  Fairness: weak fairness of the maintenance goroutine's steps;
failed deletions are bounded, because a permanently failing one blocks the
sweep (listed as a hazard).

### Log, stream and copy: `Replication`

`sqlite/log.go`, `internal/changes`, `httprest/publish.go`, `subscribe.go`,
`storage/replicated` and `sqlite/replica.go`.  The server's tree changes
together with its log; `feed` is the stream handler, `line` the frames under
way, `sub` the client's Subscription, `picture` the snapshot it builds from,
`copy` the Replica, `seeding` its open reseed, `follower` the goroutine that
drives it, `store` what reads may use, `caller` the mutations in progress.
`past` is history: the tree after each record of each log incarnation, against
which the copy is compared.  `Replica.Apply` and the follower's `applied`, and
`Checkpoint`, `Complete` and `installed`, are one step each: one goroutine runs
them with nothing in between that another can observe.

| run | what it shows |
|---|---|
| copy | the copy is exactly the tree of its position; a copy answers only when it caught up with what the log held at the start; a mutation that succeeded is visible in the copy. All of it across crashes and new incarnations of the log |
| progress | after the last failure and the last write the copy becomes current and stays so |
| copy_between | expected violation, see Findings |

Bounds: a window smaller than the history, so that a reader can fall behind; one
frame of buffer, so that a writer blocks; two incarnations.  Fairness: weak
fairness of the stream handler, of the follower and its restart, of the server
coming back, and of the callers' own steps; none of giving up or failing.

### Retained files on the server: `DeleteIntents`, `RangeLocks`, `FileSession`

`DeleteIntents` is the part of the SQLite store that keeps removed files alive
while they are open and deletes files whose last user asked for it
(`files.go`, `pending_unlink.go`, `atomic_open.go`, `node_references.go`,
`tree.go`).  `db` is durable, everything else is lost by `Crash`.  The commit
gate is held over an operation, so an operation is one step.

`RangeLocks` is `packages/advisory`: owners, ranges, requests, the queue and the
pump.  A call leaves its critical section before it pumps, and takes one
critical section per waiter; `thread` is where a call stands in between.  A
behaviour uses one conflict domain: record locks, whole-file locks or enforced
claims.

`FileSession` is the retained session of `storage/objectstore`: its lease and
history epoch, the admission of operations, action and close receipts, the
fence and the closing.  Times are what is left of them.  One assumption about
time is made, in `Tick`: a call is not held up for a whole history between
checking its epoch and registering its receipt.

| run | what it shows |
|---|---|
| files | An open reference keeps its node, every obligation to delete has something that will discharge it, and an accepted deletion is not taken back by someone who did not read about it.  Whoever can be served is served after a release, record waits form no cycle, a receipt says granted exactly while its claim is held, and replacing a range changes exactly its bytes.  After the fence nothing of a session runs; an action identity is executed at most once and its receipts are true |
| progress | whatever was accepted for deletion is deleted |

Bounds: two references and two intents, up to four nodes and two names; three
owners in two sessions, three requests and three bytes; one reference, two
callers and two identities, one failure of the native store.
Fairness of deletion: sessions close what they hold, the maintenance pass
recurs, a stopped process is started again.

### The client's side of a served file: `HttpActions`, `HttpCloses`, `CopyFiles`

`HttpActions` is one mutation over HTTP: the client gives it an identity, the
server keeps a receipt for the rest of the epoch and the next, and whoever did
not hear the answer asks again.  A request that its caller gave up may arrive at
any later time.  `HttpCloses` is closing a reference and its session: attempts
and their generations, reservations for receipts, and the records that answer
after a session is gone.  `CopyFiles` is `storage/replicated/files.go` and
`retained_close.go`: a close is settled only when the local copy shows what it
changed.  There the remote client is external (`HttpCloses` models it), the
capacity of confirmations is abstracted, a retained file and a node reference
share one definition because their code is the same, and a session that closes
cancels its calls.  An "invalid" answer proves nothing about execution.

| run | what it shows |
|---|---|
| clients | What a caller is told of its action is what became of it, and a session handed over is the one the server made.  What the client takes for released is released, a proof that a close did not run stays true, and the reservations add up.  A settled close is visible in the copy, a call is answered with the outcome of its own identity, and nothing runs in what is closed |

Bounds: two callers, three epochs (an identity outlives its receipt in two), up
to two lost answers, two close attempts of one reference, two references where
they compete for room.

### The SMB endpoint: `SmbFiles`, `SmbDeletes`, `SmbSessions`

`SmbFiles` is one tree: handles, the first-in first-out gate of a handle, the
owner that keeps a change until its outcome is known, the ledger of those
owners, and the close of handles and tree.  The file session behind it is
external: a call runs once or not at all, its answer may be lost, and a lost
call may still arrive or be admitted later.  A receipt is not bound to an
operation until it was seen, and while the tree closes pending writes are not
reconciled, as in the code.  The byte budget of payloads is abstracted.

`SmbDeletes` is delete-on-close: intents in the volume, the handle owners that
answer for them, and the recovery pass of an export, which also takes over the
intents of earlier processes.

`SmbSessions` is sessions, trees, the shared file session of an export, its
renewal, and everything that takes them down.  Procedures that several
goroutines run are written once; `act` is the call stack of each goroutine.  Not
modelled: the IPC$ tree, credits, compounds and negotiation, several exports per
session, and the arithmetic of lease renewal.

| run | what it shows |
|---|---|
| smb | A change a client was told about happened once, one it was told did not happen did not and cannot any more.  Changes of a handle reach the volume in order and every reference of the volume has a handle that answers for it.  An export serves only when every left-over intent was settled, and an intent is acknowledged only by who answers for it.  A request that took its session's signer can sign its response, a session counts as cleaned only when nothing is left of it, an export that is gone has no users |
| smb_unpublish | expected violation, see Findings |

Bounds: two or three commands on one or two handles, an intent of this process
and two of earlier ones, two sessions and connections, up to three faults.
Fairness (smb_unpublish only): the passes, the closes and the volume's decisions
go on.

### What a server keeps on its host: `LocalDisk`, `LocalStore`

`LocalDisk` is the object store on a directory (`storage/objectstore/localdisk`):
Put, Get, Delete, Space, Status, Close and the recovery of Open.  `disk.now` is
what the process sees, `disk.may[d]` the versions of directory d a power failure
may leave.  The changes of one directory reach the disk in their order, two
directories are independent; that is the one assumption about the file system.
A link that fails after it took effect does not poison the store.  A torn
identity stage of a shard is refused with EIO, as documented.

`LocalStore` is the root directory of a local store (`localstore`, `dbstate`):
first initialisation and its resumption, reopening, the METASTORE witness of
every commit and checkpoint, and Close.  SQLite is external: what it committed
is in the main file or a synced WAL.  The lease anchor is in `LeaseRecovery`.
Permission, mount and path checks are not modelled.

| run | what it shows |
|---|---|
| host | What a caller of the object store was told for certain survives crashes and faults, and a reopened store can explain everything on the disk.  A local store that serves has every write it acknowledged and refuses a root only for damage or a documented state |
| root_identity | expected violation, see Findings |

Bounds: one key, three calls, two at once, up to two faults and power failures;
two processes, up to four generations.

## Proofs

- `ReplicaGateProofs`, for any finite sets of readers and writers.  Assumed:
  the sets are finite and disjoint (`CallersFinite`, `CallersDistinct`).  The
  type invariant, `CountersExact`, `Exclusion` and `NobodyForgotten` are
  inductive only together: exclusion is decided by the counters, so it needs
  them exact, and they are exact because of where every caller stands.
- `LeaseRecoveryProofs`, for any set of durations and any bound on generations.
  Assumed: durations and bounds are positive.  The invariant adds `Identities`
  (all records name one initialisation), `Witnessed` (the witness is the
  accepted or the prepared record, on disk and in the cache) and `AtLabel` (what
  is known at each position of the process) to the properties.  From it follow
  `PromiseCovered`, `EvidenceNeverContradicts`, `CompletedReopens`, the action
  property `WitnessNeverLowered`, and that `LeaseRecovery` implements
  `LeaseRegister`.

## Findings

- **content_signal**.  Opening a file with Truncate displaces its object but
  does not signal the sweeper, as every other edit does; the garbage waits for
  the next edit or the ticker.
- **copy_between**.  A transaction may append several records (a rename over a
  name does).  The follower applies and publishes them one by one, so the copy
  can answer with a tree that no transaction of the server ever committed, while
  the documentation promises the state of a position of the server.
- **root_identity**.  An interrupted first initialisation leaves marker files
  that were written but never synced.  The next Open resumes with them, completes
  and serves; a power failure may then leave the root with a torn marker, and
  later opens refuse a root that had served.
- **smb_unpublish**.  An interrupted recovery pass keeps the attempt it was at.
  The close of the export processes that attempt and drops it without stepping
  over its entry of the page.  If another owner keeps the recovery pending, the
  next close runs a pass that meets the acknowledged entry again, without a
  witness, and fails; so does every later one.

## Not modelled, and why

`PROJECT.json` lists every part with its status.  Parsing, encoding, SQL text,
schema texts, wire formats, operating-system calls and command lines are left
out: they hold no protocol state.  The FUSE mounts, the quota layer
(`storage/limited`), the lock layer over storage, the management service and the
volume runtimes are not modelled: they pass calls on to parts that are, or keep
state of their own that no run covers yet.
