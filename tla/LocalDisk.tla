---------------------------- MODULE LocalDisk ----------------------------
(***************************************************************************)
(* The local-disk object store: Put, Get, Delete, Space, Status and Close  *)
(* of localdisk.Objects, the recovery Open performs, and a disk that       *)
(* forgets directory changes nobody synced.                                *)
(*                                                                         *)
(* Keys share one shard.  A directory is a function from its names to      *)
(* inodes (0: no such name).  disk.now is what the process sees;           *)
(* disk.may[d] is the set of versions of directory d a power failure may   *)
(* leave: every version since its last fsync.  Changes of one directory    *)
(* reach the disk in order; two directories are independent.  An inode     *)
(* whose bytes were not synced may be torn by a power failure.             *)
(***************************************************************************)
EXTENDS Naturals, FiniteSets, FiniteSetsExt

CONSTANTS
    Keys,      \* object keys, natural numbers from 1
    Callers,   \* calls that may run at once, natural numbers from 1
    Inodes,    \* inode numbers, 1..n
    Settings   \* name -> limits and fault budgets of one instance

VARIABLES
    disk,      \* [now, may, data]
    store,     \* the Objects value of the serving process
    call,      \* process -> the step its call is at; 0 is Open
    told,      \* key -> what the callers were last told for certain
    left,      \* fault budgets that remain
    setting

vars == <<disk, store, call, told, left, setting>>

Opener == 0
Nobody == 99
Procs == Callers \cup {Opener}

-----------------------------------------------------------------------------
(* Names *)

Shard == <<"objects", "shard", "", 0>>
Id == <<"shard", "id", "", 0>>
IdStage == <<"shard", "id-stage", "", 0>>
Final(k) == <<"shard", "final", "", k>>
Stage(k) == <<"shard", "stage", "", k>>
Mark(op, k) == <<"objects", "mark", op, k>>
Prep(op, k) == <<"objects", "prep", op, k>>

Jobs == {"put", "delete"} \X Keys
Dirs == {"objects", "shard"}
NamesOf(d) ==
    IF d = "shard" THEN {Id, IdStage} \cup {Final(k) : k \in Keys} \cup {Stage(k) : k \in Keys}
    ELSE {Shard} \cup {Mark(j[1], j[2]) : j \in Jobs} \cup {Prep(j[1], j[2]) : j \in Jobs}
Names == NamesOf("objects") \cup NamesOf("shard")

-----------------------------------------------------------------------------
(* The file system *)

Has(d, e) == d.now[e] # 0
Sees(d, dir) == [e \in NamesOf(dir) |-> d.now[e]]
Links(d, i) == Cardinality({e \in Names : d.now[e] = i})
Whole(d, e) == Has(d, e) /\ d.data[d.now[e]] = "whole"
Torn(d, e) == Has(d, e) /\ d.data[d.now[e]] = "torn"

\* A change of one name: the earlier versions of its directory stay possible.
Changed(d, e, i) ==
    LET n == [d EXCEPT !.now[e] = i]
    IN  [n EXCEPT !.may[e[1]] = @ \cup {Sees(n, e[1])}]

\* Inodes some name, some possible version or an open descriptor still holds.
Held(d) ==
    {d.now[e] : e \in Names} \cup {call[c].ino : c \in Procs}
        \cup UNION {UNION {{v[e] : e \in NamesOf(dir)} : v \in d.may[dir]} : dir \in Dirs}
Free(d) == Min(Inodes \ Held(d))

\* unix.Openat(O_CREAT|O_EXCL) and Mkdirat: a name for a fresh inode.
Create(d, e) == [Changed(d, e, Free(d)) EXCEPT !.data[Free(d)] = "new"]
\* writeContent and fsync of the file: its bytes are complete and durable.
Fill(d, e) == [d EXCEPT !.data[d.now[e]] = "whole"]
Linkat(d, from, to) == Changed(d, to, d.now[from])
Unlinkat(d, e) == IF Has(d, e) THEN Changed(d, e, 0) ELSE d
Fsync(d, dir) ==
    LET n == [d EXCEPT !.may[dir] = {Sees(d, dir)}]
    IN  [n EXCEPT !.data = [i \in Inodes |-> IF i \in Held(n) THEN @[i] ELSE "none"]]

\* What a power failure leaves: one version of each directory, nothing in a
\* shard that is not there, and files whose bytes were not synced torn or not.
Aftermath(o, s, lost) ==
    [now |-> [e \in Names |->
                IF e[1] = "objects" THEN o[e]
                ELSE IF o[Shard] = 0 THEN 0 ELSE s[e]],
     may |-> [dir \in Dirs |->
                IF dir = "objects" THEN {o}
                ELSE {IF o[Shard] = 0 THEN [e \in NamesOf("shard") |-> 0] ELSE s}],
     data |-> [i \in Inodes |->
                IF disk.data[i] = "new" THEN IF i \in lost THEN "torn" ELSE "whole"
                ELSE disk.data[i]]]

-----------------------------------------------------------------------------
(* The process *)

Idle == [op |-> "none", key |-> 0, at |-> "idle", err |-> FALSE, clean |-> TRUE,
         pub |-> FALSE, stg |-> FALSE, made |-> FALSE, absent |-> FALSE, ino |-> 0]
Down == [at |-> "down", poisoned |-> FALSE, odd |-> FALSE, refused |-> "",
         waiting |-> {}, running |-> {}, bytes |-> {}, reserved |-> {}, records |-> {},
         control |-> Nobody, keys |-> [k \in Keys |-> Nobody], shard |-> Nobody]

Init ==
    /\ setting \in DOMAIN Settings
    /\ disk = [now |-> [e \in Names |-> 0],
               may |-> [dir \in Dirs |-> {[e \in NamesOf(dir) |-> 0]}],
               data |-> [i \in Inodes |-> "none"]]
    /\ store = Down
    /\ call = [c \in Procs |-> Idle]
    /\ told = [k \in Keys |-> "deleted"]
    /\ left = [faults |-> Settings[setting].faults, crashes |-> Settings[setting].crashes,
               kills |-> Settings[setting].kills, calls |-> Settings[setting].calls,
               cancels |-> Settings[setting].cancels]

Limit(f) == Settings[setting][f]
At(c, where) == call[c].at = where
Key(c) == call[c].key
Op(c) == call[c].op
Writes(c) == Op(c) \in {"put", "open"}

Go(c, where) == call' = [call EXCEPT ![c].at = where]
Fail(c, where) == call' = [call EXCEPT ![c].at = where, ![c].err = TRUE]
Spend(b) == left[b] > 0 /\ left' = [left EXCEPT ![b] = @ - 1]

\* A system call that succeeds, or fails having done nothing, or (tried) fails
\* with its effect in place.
Does(c, d, where) == disk' = d /\ Go(c, where) /\ UNCHANGED <<store, left>>
Fails(c, where) == Spend("faults") /\ Fail(c, where) /\ UNCHANGED <<disk, store>>
Tried(c, d, where) == Spend("faults") /\ disk' = d /\ Fail(c, where) /\ UNCHANGED store
\* healthState.poison keeps the first failure; Open has no health to lose.
Sick(c) == IF c = Opener THEN store ELSE [store EXCEPT !.poisoned = TRUE]
Poisons(c, where) ==
    Spend("faults") /\ store' = Sick(c) /\ Fail(c, where) /\ UNCHANGED disk
PoisonsAfter(c, d, where) ==
    Spend("faults") /\ store' = Sick(c) /\ disk' = d /\ Fail(c, where)
\* Poison for a state no earlier step explains.
Odd(c, where) ==
    /\ store' = [store EXCEPT !.poisoned = TRUE, !.odd = TRUE]
    /\ Fail(c, where) /\ UNCHANGED <<disk, left>>

-----------------------------------------------------------------------------
(* Admission *)

\* acquireWaiting and the first health check of Put, get and Delete.
Begin(c, op, k) ==
    /\ At(c, "idle") /\ op \in Limit("ops") /\ Spend("calls")
    /\ store.at = "up" /\ ~store.poisoned
    /\ Cardinality(store.waiting) < Limit("waiting")
    /\ store' = [store EXCEPT !.waiting = @ \cup {c}]
    /\ call' = [call EXCEPT ![c] = [Idle EXCEPT !.op = op, !.key = k,
                    !.at = IF op = "get" THEN "shard" ELSE "key"]]
    /\ told' = IF \/ op = "put" /\ told[k] = "deleted"
                  \/ op = "delete" /\ told[k] = "stored"
               THEN [told EXCEPT ![k] = "unknown"] ELSE told
    /\ UNCHANGED <<disk, setting>>

\* Space waits for an operation slot without a key.
BeginSpace(c) ==
    /\ At(c, "idle") /\ "space" \in Limit("ops") /\ Spend("calls")
    /\ store.at = "up" /\ ~store.poisoned
    /\ Cardinality(store.waiting) < Limit("waiting")
    /\ store' = [store EXCEPT !.waiting = @ \cup {c}]
    /\ call' = [call EXCEPT ![c] = [Idle EXCEPT !.op = "space", !.at = "promote"]]
    /\ UNCHANGED <<disk, told, setting>>

\* Status and VerifyRootPath hold the one control slot Close also drains.
BeginControl(c) ==
    /\ At(c, "idle") /\ "status" \in Limit("ops") /\ Spend("calls")
    /\ store.at = "up" /\ store.control = Nobody
    /\ store' = [store EXCEPT !.control = c]
    /\ call' = [call EXCEPT ![c] = [Idle EXCEPT !.op = "status", !.at = "ret"]]
    /\ UNCHANGED <<disk, told, setting>>

TakeKey(c) ==
    /\ At(c, "key") /\ store.keys[Key(c)] = Nobody
    /\ store' = [store EXCEPT !.keys[Key(c)] = c]
    /\ Go(c, "shard") /\ UNCHANGED <<disk, told, left, setting>>

TakeShard(c) ==
    /\ At(c, "shard") /\ store.shard = Nobody
    /\ store' = [store EXCEPT !.shard = c]
    /\ Go(c, "look") /\ UNCHANGED <<disk, told, left, setting>>

\* A waiter whose context ends leaves with EINTR.
Cancel(c) ==
    /\ call[c].at \in {"key", "shard", "promote", "bytes"} /\ c # Opener
    /\ Spend("cancels") /\ Fail(c, "ret") /\ UNCHANGED <<disk, store, told, setting>>

-----------------------------------------------------------------------------
(* Opening the shard and its identity marker *)

Others(d) == {e \in NamesOf("shard") : Has(d, e)} \ {Id, IdStage}

\* openShardDirectory: the shard is there, must be made, or is simply absent.
Look(c) ==
    /\ At(c, "look")
    /\ \/ Has(disk, Shard) /\ Does(c, disk, "ident")
       \/ ~Has(disk, Shard) /\ Writes(c) /\ Does(c, disk, "mkdir")
       \/ /\ ~Has(disk, Shard) /\ ~Writes(c)
          /\ store' = [store EXCEPT !.shard = Nobody]
          /\ call' = [call EXCEPT ![c].at = "promote", ![c].absent = TRUE]
          /\ UNCHANGED <<disk, left>>
    /\ UNCHANGED <<told, setting>>

Mkdir(c) ==
    /\ At(c, "mkdir")
    /\ \/ /\ disk' = Create(disk, Shard)
          /\ call' = [call EXCEPT ![c].at = "psync", ![c].made = TRUE]
          /\ UNCHANGED <<store, left>>
       \/ Fails(c, "unshard")
    /\ UNCHANGED <<told, setting>>

\* The shard outlives every object synced inside it: its parent is synced first.
ParentSync(c) ==
    /\ At(c, "psync")
    /\ Does(c, Fsync(disk, "objects"), "ident") \/ Fails(c, "unshard")
    /\ UNCHANGED <<told, setting>>

\* A state check of the shard that fails: Open refuses for good, a call reports EIO.
Refuse(c, why) ==
    /\ store' = IF c = Opener THEN [store EXCEPT !.refused = why] ELSE store
    /\ Fail(c, "unshard") /\ UNCHANGED <<disk, left>>

\* ensureShardMarker: which of the two identity names are there.
EnsureShardMarker(c) ==
    /\ At(c, "ident")
    /\ LET id == Has(disk, Id)
           stage == Has(disk, IdStage)
           torn == Torn(disk, Id) \/ Torn(disk, IdStage)
           same == disk.now[Id] = disk.now[IdStage]
           inode == disk.now[IF id THEN Id ELSE IdStage]
       IN  \/ torn /\ Refuse(c, "torn")
           \/ ~torn /\ id /\ ~stage /\ Links(disk, inode) = 1 /\ Does(c, disk, "identified")
           \/ ~torn /\ id /\ ~stage /\ Links(disk, inode) # 1 /\ Refuse(c, "links")
           \/ /\ ~torn /\ id /\ stage /\ same /\ Others(disk) = {}
              /\ Links(disk, inode) = 2 /\ Does(c, disk, "id-sync")
           \/ /\ ~torn /\ id /\ stage /\ ~(same /\ Others(disk) = {} /\ Links(disk, inode) = 2)
              /\ Refuse(c, "pair")
           \/ /\ ~torn /\ ~id /\ stage
              /\ IF Writes(c) /\ Links(disk, inode) = 1 /\ Others(disk) = {}
                 THEN Does(c, disk, "id-link") ELSE Refuse(c, "stage")
           \/ /\ ~id /\ ~stage
              /\ IF Writes(c) /\ Others(disk) = {}
                 THEN Does(c, disk, "id-make") ELSE Refuse(c, "anonymous")
    /\ UNCHANGED <<told, setting>>

CreateShardMarkerStage(c) ==
    /\ At(c, "id-make")
    /\ Does(c, Create(disk, IdStage), "id-write") \/ Fails(c, "unshard")
    /\ UNCHANGED <<told, setting>>

WriteShardMarkerStage(c) ==
    /\ At(c, "id-write")
    /\ Does(c, Fill(disk, IdStage), "id-link") \/ Fails(c, "id-discard")
    /\ UNCHANGED <<told, setting>>

\* publishShardMarkerStage: a refused link is undone, one that happened anyway
\* is uncertain.
PublishShardMarkerStage(c) ==
    /\ At(c, "id-link")
    /\ \/ Does(c, Linkat(disk, IdStage, Id), "id-sync")
       \/ Fails(c, "id-discard")
       \/ PoisonsAfter(c, Linkat(disk, IdStage, Id), "unshard")
    /\ UNCHANGED <<told, setting>>

DiscardShardMarkerStage(c) ==
    /\ At(c, "id-discard")
    /\ \/ Does(c, Fsync(Unlinkat(disk, IdStage), "shard"), "unshard")
       \/ Poisons(c, "unshard")
       \/ PoisonsAfter(c, Unlinkat(disk, IdStage), "unshard")
    /\ UNCHANGED <<told, setting>>

\* Sync before the stage goes: final and stage together are always recoverable.
SyncShardMarker(c) ==
    /\ At(c, "id-sync")
    /\ Does(c, Fsync(disk, "shard"), "id-unlink") \/ Poisons(c, "unshard")
    /\ UNCHANGED <<told, setting>>

RemovePublishedShardMarkerStage(c) ==
    /\ At(c, "id-unlink")
    /\ Does(c, Unlinkat(disk, IdStage), "id-gone") \/ Poisons(c, "unshard")
    /\ UNCHANGED <<told, setting>>

SyncShardMarkerRemoval(c) ==
    /\ At(c, "id-gone")
    /\ Does(c, Fsync(disk, "shard"), "identified") \/ Poisons(c, "unshard")
    /\ UNCHANGED <<told, setting>>

\* A writer that found the shard syncs it and its parent; then the shard token
\* is given back and admission or recovery goes on.
ShardReady(c) ==
    /\ At(c, "identified")
    /\ \/ /\ disk' = IF Op(c) = "put" /\ ~call[c].made
                     THEN Fsync(Fsync(disk, "shard"), "objects") ELSE disk
          /\ store' = [store EXCEPT !.shard = Nobody]
          /\ Go(c, IF c = Opener THEN "collect" ELSE "promote")
          /\ UNCHANGED left
       \/ Op(c) = "put" /\ ~call[c].made /\ Fails(c, "unshard")
    /\ UNCHANGED <<told, setting>>

\* The deferred unlock: the shard token goes back after any poison is set.
LeaveShard(c) ==
    /\ At(c, "unshard")
    /\ store' = [store EXCEPT !.shard = Nobody]
    /\ Go(c, "ret") /\ UNCHANGED <<disk, told, left, setting>>

-----------------------------------------------------------------------------
(* Promotion and the checks made while holding an operation slot *)

Bytes(c) == IF Op(c) = "put" THEN 1 ELSE 0
Room(n) == Cardinality(store.bytes) + n =< Limit("bytes")
CanRun(c) == Cardinality(store.running) < Limit("running") /\ Room(Bytes(c))

Running(c) ==
    [store EXCEPT !.waiting = @ \ {c}, !.running = @ \cup {c},
                  !.bytes = IF Bytes(c) = 1 THEN @ \cup {c} ELSE @]

\* inspectObject: absent, valid, or a file whose envelope cannot be trusted.
Inspect(k) ==
    IF ~Has(disk, Final(k)) THEN "absent" ELSE IF Whole(disk, Final(k)) THEN "valid" ELSE "bad"

\* physicalCapacity.reserve refuses what other publications already claimed.
Full(s) == Limit("space") <= Cardinality(s.reserved)

\* Put after promotion: EEXIST, staging nobody recorded, capacity.
PutChecks(c, s) ==
    LET k == Key(c)
        found == Inspect(k)
    IN  CASE found # "absent" -> [s |-> s, at |-> "ret", err |-> TRUE]
          [] found = "absent" /\ Has(disk, Stage(k)) ->
                [s |-> [s EXCEPT !.poisoned = TRUE, !.odd = TRUE], at |-> "ret", err |-> TRUE]
          [] found = "absent" /\ ~Has(disk, Stage(k)) /\ Full(s) ->
                [s |-> s, at |-> "ret", err |-> TRUE]
          [] OTHER -> [s |-> [s EXCEPT !.reserved = @ \cup {c}], at |-> "prep", err |-> FALSE]

\* Delete after promotion: no shard, already absent, staging nobody recorded.
DeleteChecks(c, s) ==
    LET k == Key(c)
        found == Inspect(k)
    IN  CASE call[c].absent -> [s |-> s, at |-> "ret", err |-> FALSE]
          [] ~call[c].absent /\ found = "bad" -> [s |-> s, at |-> "ret", err |-> TRUE]
          [] ~call[c].absent /\ found # "bad" /\ Has(disk, Stage(k)) ->
                [s |-> [s EXCEPT !.poisoned = TRUE, !.odd = TRUE], at |-> "ret", err |-> TRUE]
          [] ~call[c].absent /\ found = "absent" /\ ~Has(disk, Stage(k)) ->
                [s |-> s, at |-> "absent", err |-> FALSE]
          [] OTHER -> [s |-> s, at |-> "prep", err |-> FALSE]

\* get after promotion: the object's inode stays open whatever happens to its name.
GetChecks(c, s) ==
    IF call[c].absent \/ ~Whole(disk, Final(Key(c)))
    THEN [s |-> s, at |-> "ret", err |-> TRUE]
    ELSE [s |-> s, at |-> "bytes", err |-> FALSE]

\* waitingTicket.promote, the second health check and the checks that follow it.
Promote(c) ==
    /\ At(c, "promote") /\ CanRun(c)
    /\ LET s == Running(c)
           r == CASE store.poisoned -> [s |-> s, at |-> "ret", err |-> TRUE]
                  [] ~store.poisoned /\ Op(c) = "put" -> PutChecks(c, s)
                  [] ~store.poisoned /\ Op(c) = "delete" -> DeleteChecks(c, s)
                  [] ~store.poisoned /\ Op(c) = "get" -> GetChecks(c, s)
                  [] OTHER -> [s |-> s, at |-> "ret", err |-> FALSE]
       IN  /\ store' = r.s
           /\ call' = [call EXCEPT ![c].at = r.at, ![c].err = r.err,
                          ![c].ino = IF r.at = "bytes" THEN disk.now[Final(Key(c))] ELSE 0]
    /\ UNCHANGED <<disk, told, left, setting>>

\* ticket.addBytes: a Get inside keeps its slot while it waits for bytes.
AddBytes(c) ==
    /\ At(c, "bytes") /\ Room(1)
    /\ store' = [store EXCEPT !.bytes = @ \cup {c}]
    /\ Go(c, "ret") /\ UNCHANGED <<disk, told, left, setting>>

\* Delete of an object that is already absent still syncs its shard.
SyncAbsence(c) ==
    /\ At(c, "absent")
    /\ Does(c, Fsync(disk, "shard"), "ret") \/ Poisons(c, "ret")
    /\ UNCHANGED <<told, setting>>

-----------------------------------------------------------------------------
(* createMarker: the recovery record is complete before it has its name *)

MyMark(c) == Mark(Op(c), Key(c))
MyPrep(c) == Prep(Op(c), Key(c))

PrepareMarker(c) ==
    /\ At(c, "prep")
    /\ \/ Has(disk, MyPrep(c)) /\ Odd(c, "ret")
       \/ ~Has(disk, MyPrep(c)) /\ Does(c, Create(disk, MyPrep(c)), "prep-write")
       \/ Fails(c, "ret")
    /\ UNCHANGED <<told, setting>>

WriteMarker(c) ==
    /\ At(c, "prep-write")
    /\ Does(c, Fill(disk, MyPrep(c)), "mark-link") \/ Fails(c, "prep-drop")
    /\ UNCHANGED <<told, setting>>

\* The preparation of a record that never got its name is removed again.
DropPreparation(c) ==
    /\ At(c, "prep-drop")
    /\ \/ Does(c, Fsync(Unlinkat(disk, MyPrep(c)), "objects"), "ret")
       \/ Poisons(c, "ret")
       \/ PoisonsAfter(c, Unlinkat(disk, MyPrep(c)), "ret")
    /\ UNCHANGED <<told, setting>>

PublishMarker(c) ==
    /\ At(c, "mark-link")
    /\ \/ Has(disk, MyMark(c)) /\ Odd(c, "prep-drop")
       \/ ~Has(disk, MyMark(c)) /\ Does(c, Linkat(disk, MyPrep(c), MyMark(c)), "mark-sync")
       \/ Poisons(c, "ret")
       \/ ~Has(disk, MyMark(c)) /\ PoisonsAfter(c, Linkat(disk, MyPrep(c), MyMark(c)), "ret")
    /\ UNCHANGED <<told, setting>>

SyncMarker(c) ==
    /\ At(c, "mark-sync")
    /\ Does(c, Fsync(disk, "objects"), "unprep") \/ Poisons(c, "ret")
    /\ UNCHANGED <<told, setting>>

RemovePreparation(c) ==
    /\ At(c, "unprep")
    /\ Does(c, Unlinkat(disk, MyPrep(c)), "unprep-sync") \/ Poisons(c, "ret")
    /\ UNCHANGED <<told, setting>>

\* The record has recovery authority: the object's directory may change now.
SyncPreparationRemoval(c) ==
    /\ At(c, "unprep-sync")
    /\ \/ /\ disk' = Fsync(disk, "objects")
          /\ store' = [store EXCEPT !.records = @ \cup {c}]
          /\ Go(c, IF Op(c) = "put" THEN "stage" ELSE "unlink")
          /\ UNCHANGED left
       \/ Poisons(c, "ret")
    /\ UNCHANGED <<told, setting>>

-----------------------------------------------------------------------------
(* Put: stage, publish, clean up *)

CreateStage(c) ==
    /\ At(c, "stage")
    /\ \/ /\ ~Has(disk, Stage(Key(c)))
          /\ disk' = Create(disk, Stage(Key(c)))
          /\ call' = [call EXCEPT ![c].at = "write", ![c].stg = TRUE]
          /\ UNCHANGED <<store, left>>
       \/ Fails(c, "clean-mark")
    /\ UNCHANGED <<told, setting>>

WriteStage(c) ==
    /\ At(c, "write")
    /\ Does(c, Fill(disk, Stage(Key(c))), "link") \/ Fails(c, "clean-stage")
    /\ UNCHANGED <<told, setting>>

\* The link that makes the object: create-only, so an existing name refuses it.
PublishObject(c) ==
    LET k == Key(c)
        linked == Linkat(disk, Stage(k), Final(k))
    IN  /\ At(c, "link")
        /\ \/ /\ ~Has(disk, Final(k)) /\ disk' = linked
              /\ call' = [call EXCEPT ![c].at = "link-sync", ![c].pub = TRUE]
              /\ UNCHANGED <<store, left>>
           \/ Has(disk, Final(k)) /\ Fail(c, "clean-stage") /\ UNCHANGED <<disk, store, left>>
           \/ Fails(c, "clean-stage")
           \/ ~Has(disk, Final(k)) /\ Tried(c, linked, "clean-stage")
        /\ UNCHANGED <<told, setting>>

SyncObject(c) ==
    /\ At(c, "link-sync")
    /\ Does(c, Fsync(disk, "shard"), "unstage") \/ Fails(c, "clean-stage")
    /\ UNCHANGED <<told, setting>>

RemoveStage(c) ==
    /\ At(c, "unstage")
    /\ Does(c, Unlinkat(disk, Stage(Key(c))), "unstage-sync") \/ Fails(c, "clean-stage")
    /\ UNCHANGED <<told, setting>>

SyncStageRemoval(c) ==
    /\ At(c, "unstage-sync")
    /\ \/ /\ disk' = Fsync(disk, "shard")
          /\ call' = [call EXCEPT ![c].at = "unmark", ![c].stg = FALSE]
          /\ UNCHANGED <<store, left>>
       \/ Fails(c, "clean-stage")
    /\ UNCHANGED <<told, setting>>

\* removeMarker on the way out of a finished Put or Delete.
RemoveMarker(c) ==
    /\ At(c, "unmark")
    /\ \/ Does(c, Unlinkat(disk, MyMark(c)), "unmark-sync")
       \/ Op(c) = "put" /\ Fails(c, "clean-mark")
       \/ Op(c) = "delete" /\ Poisons(c, "ret")
    /\ UNCHANGED <<told, setting>>

SyncMarkerRemoval(c) ==
    /\ At(c, "unmark-sync")
    /\ \/ /\ disk' = Fsync(disk, "objects")
          /\ store' = [store EXCEPT !.records = @ \ {c}]
          /\ Go(c, "ret") /\ UNCHANGED left
       \/ Op(c) = "put" /\ Fails(c, "clean-mark")
       \/ Op(c) = "delete" /\ Poisons(c, "ret")
    /\ UNCHANGED <<told, setting>>

\* The deferred cleanup of a Put that failed after its record was created.
Unclean(c) ==
    /\ Spend("faults")
    /\ call' = [call EXCEPT ![c].at = "cleaned", ![c].clean = FALSE]
    /\ UNCHANGED store

CleanStage(c) ==
    /\ At(c, "clean-stage")
    /\ \/ Does(c, Unlinkat(disk, Stage(Key(c))), "clean-sync")
       \/ Unclean(c) /\ UNCHANGED disk
    /\ UNCHANGED <<told, setting>>

\* A cleanup that removes the record before the stage is durably gone.
CleanSyncSkipped(c) ==
    /\ At(c, "clean-sync")
    /\ Does(c, disk, "clean-mark")
    /\ UNCHANGED <<told, setting>>

CleanSync(c) ==
    /\ At(c, "clean-sync")
    /\ Does(c, Fsync(disk, "shard"), "clean-mark") \/ (Unclean(c) /\ UNCHANGED disk)
    /\ UNCHANGED <<told, setting>>

\* A record that is gone already is an unexpected absence, not a success.
CleanMarker(c) ==
    /\ At(c, "clean-mark")
    /\ \/ Has(disk, MyMark(c)) /\ Does(c, Unlinkat(disk, MyMark(c)), "clean-mark-sync")
       \/ /\ ~Has(disk, MyMark(c))
          /\ call' = [call EXCEPT ![c].at = "cleaned", ![c].clean = FALSE]
          /\ UNCHANGED <<disk, store, left>>
       \/ Unclean(c) /\ UNCHANGED disk
    /\ UNCHANGED <<told, setting>>

CleanMarkerSync(c) ==
    /\ At(c, "clean-mark-sync")
    /\ \/ /\ disk' = Fsync(disk, "objects")
          /\ store' = [store EXCEPT !.records = @ \ {c}]
          /\ Go(c, "cleaned") /\ UNCHANGED left
       \/ Unclean(c) /\ UNCHANGED disk
    /\ UNCHANGED <<told, setting>>

\* A failed Put that published, or could not clean up, poisons the store.
Cleaned(c) ==
    /\ At(c, "cleaned")
    /\ store' = IF ~call[c].clean \/ call[c].pub
                THEN [store EXCEPT !.poisoned = TRUE] ELSE store
    /\ Go(c, "ret") /\ UNCHANGED <<disk, told, left, setting>>

-----------------------------------------------------------------------------
(* Delete *)

UnlinkObject(c) ==
    LET gone == Unlinkat(disk, Final(Key(c)))
    IN  /\ At(c, "unlink")
        /\ \/ Does(c, gone, "unlink-sync")
           \/ Fails(c, "unused") \/ Tried(c, gone, "unused")
        /\ UNCHANGED <<told, setting>>


SyncRemoval(c) ==
    /\ At(c, "unlink-sync")
    /\ Does(c, Fsync(disk, "shard"), "unmark") \/ Poisons(c, "ret")
    /\ UNCHANGED <<told, setting>>

\* The record of a Delete that unlinked nothing is removed.
RemoveUnusedMarker(c) ==
    /\ At(c, "unused")
    /\ Does(c, Unlinkat(disk, MyMark(c)), "unused-sync") \/ Poisons(c, "ret")
    /\ UNCHANGED <<told, setting>>

SyncUnusedRemoval(c) ==
    /\ At(c, "unused-sync")
    /\ \/ /\ disk' = Fsync(disk, "objects")
          /\ store' = [store EXCEPT !.records = @ \ {c}]
          /\ Go(c, "ret") /\ UNCHANGED left
       \/ Poisons(c, "ret")
    /\ UNCHANGED <<told, setting>>

-----------------------------------------------------------------------------
(* Leaving *)

\* healthState.finish: once poisoned, no result stands as a fact.
Trusted(c) == ~call[c].err /\ ~store.poisoned

\* The deferred releases of a call: ticket, key, capacity, control slot.
Released(c) ==
    [store EXCEPT !.waiting = @ \ {c}, !.running = @ \ {c}, !.bytes = @ \ {c},
                  !.reserved = @ \ {c}, !.control = IF @ = c THEN Nobody ELSE @,
                  !.keys = [k \in Keys |-> IF @[k] = c THEN Nobody ELSE @[k]]]

Return(c) ==
    LET k == Key(c)
        next == [call EXCEPT ![c] = Idle]
        rival == IF Op(c) = "put" THEN "delete" ELSE "put"
        contested == \E x \in Callers \ {c} : Key(x) = k /\ Op(x) = rival
    IN  /\ At(c, "ret") /\ c # Opener
        /\ store' = Released(c)
        /\ call' = next
        /\ told' = IF Trusted(c) /\ Op(c) \in {"put", "delete"}
                   THEN [told EXCEPT ![k] = IF contested THEN "unknown"
                            ELSE IF Op(c) = "put" THEN "stored" ELSE "deleted"]
                   ELSE told
        /\ UNCHANGED <<disk, left, setting>>

\* Close refuses new calls, waits for the admitted ones, releases the locks.
Close ==
    /\ store.at = "up" /\ Limit("closes")
    /\ store' = [store EXCEPT !.at = "closing"]
    /\ UNCHANGED <<disk, call, told, left, setting>>

CloseDone ==
    /\ store.at = "closing"
    /\ store.waiting = {} /\ store.running = {} /\ store.control = Nobody
    /\ store' = Down
    /\ UNCHANGED <<disk, call, told, left, setting>>

-----------------------------------------------------------------------------
(* Open: the shards are identified, then every recovery record is settled *)

Recorded(j) == Has(disk, Mark(j[1], j[2]))
Prepared(j) == Has(disk, Prep(j[1], j[2]))
Actions == {j \in Jobs : Recorded(j) \/ Prepared(j)}

OpenBegin ==
    /\ store.at = "down" /\ store.refused = ""
    /\ store' = [Down EXCEPT !.at = "opening"]
    /\ call' = [call EXCEPT ![Opener] = [Idle EXCEPT !.op = "open",
                    !.at = IF Has(disk, Shard) THEN "shard" ELSE "collect"]]
    /\ UNCHANGED <<disk, told, left, setting>>

\* validateRecoveryRecord and the inode and link checks of a final record.
RecordValid(j) ==
    LET final == Mark(j[1], j[2])
        links == IF Prepared(j) THEN 2 ELSE 1
    IN  /\ Whole(disk, final)
        /\ Links(disk, disk.now[final]) = links
        /\ Prepared(j) => disk.now[Prep(j[1], j[2])] = disk.now[final]

\* A preparation alone may be torn, but nothing may have been staged under it.
PreparationValid(j) ==
    LET prep == Prep(j[1], j[2])
    IN  /\ Links(disk, disk.now[prep]) = 1
        /\ Has(disk, Shard)
        /\ ~Has(disk, Stage(j[2]))

\* recoverStaging validates the whole set before it removes anything.
Collect ==
    /\ At(Opener, "collect")
    /\ LET bad == {j \in Actions : IF Recorded(j) THEN ~RecordValid(j) ELSE ~PreparationValid(j)}
       IN  IF bad # {} \/ Cardinality(Actions) > Limit("recovery")
           THEN /\ store' = [store EXCEPT !.refused = "record"]
                /\ Fail(Opener, "ret") /\ UNCHANGED <<disk, left>>
           ELSE Does(Opener, disk, IF Actions = {} THEN "done" ELSE "root-sync")
    /\ UNCHANGED <<told, setting>>

SyncRecords ==
    /\ At(Opener, "root-sync")
    /\ Does(Opener, Fsync(disk, "objects"), "pick") \/ Fails(Opener, "ret")
    /\ UNCHANGED <<told, setting>>

\* The actions are settled one after another, in map order: any order.
PickAction(j) ==
    /\ At(Opener, "pick") /\ j \in Actions
    /\ call' = [call EXCEPT ![Opener].op = j[1], ![Opener].key = j[2],
                    ![Opener].at = IF Prepared(j) THEN "drop" ELSE "settle"]
    /\ UNCHANGED <<disk, store, told, left, setting>>

DropPrepared ==
    /\ At(Opener, "drop")
    /\ Does(Opener, Unlinkat(disk, MyPrep(Opener)), "drop-sync") \/ Fails(Opener, "ret")
    /\ UNCHANGED <<told, setting>>

SyncDropped ==
    /\ At(Opener, "drop-sync")
    /\ \/ Does(Opener, Fsync(disk, "objects"),
               IF Has(disk, MyMark(Opener)) THEN "settle" ELSE "next")
       \/ Fails(Opener, "ret")
    /\ UNCHANGED <<told, setting>>

\* recoverMarker: a Put keeps what was published and loses its stage; a Delete
\* loses the object; staging under a Delete is a state no call leaves.
Settle ==
    /\ At(Opener, "settle")
    /\ LET k == Key(Opener)
           deleting == Op(Opener) = "delete"
           impossible == \/ ~Has(disk, Shard)
                         \/ deleting /\ Has(disk, Stage(k))
                         \/ Has(disk, Final(k)) /\ ~Whole(disk, Final(k))
       IN  \/ /\ impossible
              /\ store' = [store EXCEPT !.refused = "residue"]
              /\ Fail(Opener, "ret") /\ UNCHANGED <<disk, left>>
           \/ /\ ~impossible
              /\ Does(Opener, Unlinkat(disk, IF deleting THEN Final(k) ELSE Stage(k)), "settle-sync")
           \/ ~impossible /\ Fails(Opener, "ret")
    /\ UNCHANGED <<told, setting>>

SyncSettled ==
    /\ At(Opener, "settle-sync")
    /\ Does(Opener, Fsync(disk, "shard"), "settle-mark") \/ Fails(Opener, "ret")
    /\ UNCHANGED <<told, setting>>

RemoveSettled ==
    /\ At(Opener, "settle-mark")
    /\ Does(Opener, Unlinkat(disk, MyMark(Opener)), "settled") \/ Fails(Opener, "ret")
    /\ UNCHANGED <<told, setting>>

SyncSettledRemoval ==
    /\ At(Opener, "settled")
    /\ Does(Opener, Fsync(disk, "objects"), "next") \/ Fails(Opener, "ret")
    /\ UNCHANGED <<told, setting>>

NextAction ==
    /\ At(Opener, "next")
    /\ Go(Opener, IF Actions = {} THEN "done" ELSE "pick")
    /\ UNCHANGED <<disk, store, told, left, setting>>

\* Open succeeded: a healthy store with empty gates.
OpenDone ==
    /\ At(Opener, "done")
    /\ store' = [Down EXCEPT !.at = "up"]
    /\ call' = [call EXCEPT ![Opener] = Idle]
    /\ UNCHANGED <<disk, told, left, setting>>

OpenFails ==
    /\ At(Opener, "ret")
    /\ store' = [Down EXCEPT !.refused = store.refused]
    /\ call' = [call EXCEPT ![Opener] = Idle]
    /\ UNCHANGED <<disk, told, left, setting>>

-----------------------------------------------------------------------------
(* Failures of the process and of the machine *)

\* The process dies: the kernel keeps every directory as it is.
Kill ==
    /\ store.at # "down" /\ Spend("kills")
    /\ store' = Down /\ call' = [c \in Procs |-> Idle]
    /\ UNCHANGED <<disk, told, setting>>

\* The machine dies: each directory goes back to some version since its last fsync.
Crash ==
    /\ store.at # "down" /\ Spend("crashes")
    /\ \E o \in disk.may["objects"], s \in disk.may["shard"],
          lost \in SUBSET {i \in Inodes : disk.data[i] = "new"} :
          disk' = Aftermath(o, s, lost)
    /\ store' = Down /\ call' = [c \in Procs |-> Idle]
    /\ UNCHANGED <<told, setting>>

Stepping(c) ==
    \/ TakeShard(c) \/ Look(c) \/ Mkdir(c) \/ ParentSync(c) \/ EnsureShardMarker(c)
    \/ CreateShardMarkerStage(c) \/ WriteShardMarkerStage(c) \/ PublishShardMarkerStage(c)
    \/ DiscardShardMarkerStage(c) \/ SyncShardMarker(c)
    \/ RemovePublishedShardMarkerStage(c) \/ SyncShardMarkerRemoval(c)
    \/ ShardReady(c) \/ LeaveShard(c)

Calling(c) ==
    \/ TakeKey(c) \/ Promote(c) \/ AddBytes(c) \/ SyncAbsence(c)
    \/ PrepareMarker(c) \/ WriteMarker(c) \/ DropPreparation(c) \/ PublishMarker(c)
    \/ SyncMarker(c) \/ RemovePreparation(c) \/ SyncPreparationRemoval(c)
    \/ CreateStage(c) \/ WriteStage(c) \/ PublishObject(c) \/ SyncObject(c)
    \/ RemoveStage(c) \/ SyncStageRemoval(c) \/ RemoveMarker(c) \/ SyncMarkerRemoval(c)
    \/ CleanStage(c) \/ CleanSync(c) \/ CleanMarker(c) \/ CleanMarkerSync(c) \/ Cleaned(c)
    \/ UnlinkObject(c) \/ SyncRemoval(c) \/ RemoveUnusedMarker(c) \/ SyncUnusedRemoval(c)
    \/ Return(c)

Recovering ==
    \/ Collect \/ SyncRecords \/ DropPrepared \/ SyncDropped \/ Settle \/ SyncSettled
    \/ RemoveSettled \/ SyncSettledRemoval \/ NextAction \/ OpenDone \/ OpenFails
    \/ \E j \in Jobs : PickAction(j)

Next ==
    \/ \E c \in Callers, op \in {"put", "get", "delete"}, k \in Keys : Begin(c, op, k)
    \/ \E c \in Callers : BeginSpace(c) \/ BeginControl(c) \/ Cancel(c) \/ Calling(c)
    \/ \E c \in Procs : Stepping(c)
    \/ OpenBegin \/ Recovering \/ Close \/ CloseDone \/ Kill \/ Crash

Spec == Init /\ [][Next]_vars
FairSpec ==
    /\ Spec
    /\ \A c \in Procs : WF_vars(Stepping(c))
    /\ \A c \in Callers : WF_vars(Calling(c))
    /\ WF_vars(Recovering) /\ WF_vars(CloseDone)

-----------------------------------------------------------------------------
(* Properties *)


\* No combination of failed system calls, kills, power failures and concurrent
\* calls leaves a state the code calls impossible: Open refuses a root only for
\* an identity marker torn by a power failure, and no call finds staging or a
\* recovery record nobody left (objects.go:329, 341, 620, 631; recovery.go:281,
\* 287, 311, 354, 365; directory_identity.go:219-262).
NothingUnexplained == store.refused \in {"", "torn"} /\ ~store.odd

\* Every admitted call returns: keys, shard tokens, slots and bytes are always
\* taken in an order in which nobody waits for a waiter.
CallsReturn == \A c \in Callers : ~At(c, "idle") ~> At(c, "idle")

\* Close returns once it was called.
CloseReturns == store.at = "closing" ~> store.at # "closing"
=============================================================================
