---------------------------- MODULE ContentStore ----------------------------
(* How a volume keeps the bytes of its files.  The tree, the object records and
   the byte counters live in SQLite and change in one transaction; the bytes
   live in an object store, under keys that are never reused.  A write is
   Reserve, Put, Commit; the object it displaces becomes garbage and a sweeper
   deletes it.  packages/storage/objectstore drives the steps, and
   packages/metastore/sqlite/objects.go and files.go are the transactions.

   A file's contents are a set of patches: what WriteAt puts at an offset of
   its own.  Its size is the number of patches.                              *)
EXTENDS Integers, FiniteSets, FiniteSetsExt

CONSTANTS Names,           \* names in the one directory that is modelled
          Procs,           \* callers, each running one operation at a time
          Handles,         \* retained files
          MaxKeys,         \* bound: object keys handed out
          MaxNodes,        \* bound: nodes created
          MaxRevision,     \* bound: content revisions of one node
          ReadAttempts,    \* readAttempts: restarts of a read by path
          FileAttempts,    \* the attempts of an operation on a retained file
          Batch,           \* keys one sweep asks for
          Settings         \* by name, what a behaviour may be set up with

\* A setting: who and what takes part, the operations and faults that happen,
\* the bounds on keys, nodes, revisions and injected failures (crashes
\* included), ObjectLimits.MaxPendingObjects, the volume's allowance in bytes,
\* 0 for none, and the allocationUnit.
ValidSetting(c) ==
    /\ c.names \subseteq Names /\ c.procs \subseteq Procs /\ c.handles \subseteq Handles
    /\ c.keys \in 0 .. MaxKeys /\ c.nodes \in 0 .. MaxNodes /\ c.revisions \in 0 .. MaxRevision
    /\ {c.faults, c.pending, c.allowance} \subseteq Nat /\ c.unit \in Nat \ {0}

ASSUME Bounds == /\ {MaxKeys, MaxNodes, MaxRevision, ReadAttempts} \subseteq Nat
                 /\ {FileAttempts, Batch} \subseteq Nat \ {0}
                 /\ \A c \in DOMAIN Settings : ValidSetting(Settings[c])

VARIABLES tree,     \* entries: name -> node, 0 when the name is free
          node,     \* nodes table; bytes is what the committed object held
          row,      \* objects table
          blob,     \* the object store: {} or the one content under a key
          late,     \* contents of Puts that failed but may still land
          volume,   \* counters of the volumes row, and the last ids handed out
          handle,   \* retained files and whether they may still publish
          proc,     \* callers
          sweeper,  \* the maintenance goroutine
          life      \* the setting, poison, Close, and the faults so far

vars == <<tree, node, row, blob, late, volume, handle, proc, sweeper, life>>

None == "none"
Keys == 1 .. MaxKeys
Nodes == 1 .. MaxNodes
Contents == SUBSET Procs
RowStates == {"free", "reserved", "unresolved", "referenced", "garbage", "forgotten"}

NoNode == [live |-> FALSE, key |-> 0, bytes |-> {}, rev |-> 0, detached |-> FALSE]
NoRow == [state |-> "free", size |-> 0]
NoHandle == [node |-> 0, active |-> FALSE]
Idle == [pc |-> "idle", op |-> "read", at |-> None, key |-> 0, rev |-> 0, node |-> 0,
         data |-> {}, missing |-> 0, tries |-> 0]
Asleep == [pc |-> "idle", keys |-> {}, gone |-> {}, failed |-> FALSE, wake |-> TRUE]

Setting == Settings[life.setting]
Allowance == Setting.allowance

Size(bytes) == Cardinality(bytes)
AllocatedSize(size) == ((size + Setting.unit - 1) \div Setting.unit) * Setting.unit
Live == {n \in Nodes : node[n].live}
Pinned(n) == {h \in Handles : handle[h].node = n}
InState(state) == {k \in Keys : row[k].state = state}

Healthy == ~life.poisoned /\ life.close # "closed"
\* beginOperation: Close refuses new entrants before it waits for the others.
Admits(op) == op \in Setting.offered /\ life.close = "open"
Fault(kind) == kind \in Setting.offered /\ life.faults < Setting.faults
CountFault == life' = [life EXCEPT !.faults = @ + 1]

Woken == [sweeper EXCEPT !.wake = TRUE]
Done(p) == proc' = [proc EXCEPT ![p] = Idle]
Goes(p, pc) == proc' = [proc EXCEPT ![p].pc = pc]

-----------------------------------------------------------------------------
\* Accounting.

RoomFor(delta) == Allowance = 0 \/ delta <= 0 \/ delta <= Allowance - volume.allocated

\* Mutant: the replaced contents are given back twice.
ChargedTwice(old, new) ==
    [volume EXCEPT !.used = @ + Size(new) - 2 * Size(old),
                   !.allocated = @ + AllocatedSize(Size(new)) - 2 * AllocatedSize(Size(old))]
Charged(old, new) ==
    [volume EXCEPT !.used = @ + Size(new) - Size(old),
                   !.allocated = @ + AllocatedSize(Size(new)) - AllocatedSize(Size(old))]

\* reserveObject: every reserved, unresolved and garbage row counts.
BacklogRoom == Cardinality({k \in Keys : row[k].state \in {"reserved", "unresolved", "garbage"}})
                 < Setting.pending

\* Mutant: a key whose record was dropped is handed out again.
RecycledKey == IF InState("forgotten") # {} THEN Min(InState("forgotten")) ELSE volume.keys + 1
NextKey == volume.keys + 1

\* Reserve asks what the commit will ask, against what the target holds now.
Reserving(bytes, held) ==
    /\ NextKey <= Setting.keys
    /\ RoomFor(AllocatedSize(Size(bytes)) - AllocatedSize(Size(held)))
    /\ BacklogRoom
    /\ row' = [row EXCEPT ![NextKey] = [state |-> "reserved", size |-> Size(bytes)]]
    /\ volume' = [volume EXCEPT !.keys = Max({@, NextKey})]

-----------------------------------------------------------------------------
\* Contents change hands: commit and replaceNodeContentFields.

RowsAfter(rows, key, old, bytes) ==
    [k \in Keys |-> CASE k = key -> [state |-> "referenced", size |-> Size(bytes)]
                      [] k = old /\ k # key -> [rows[k] EXCEPT !.state = "garbage"]
                      [] OTHER -> rows[k]]

Replaced(n, key, bytes) ==
    [node EXCEPT ![n].key = key, ![n].bytes = bytes, ![n].rev = @ + 1]

\* discardNode: the row goes, its object becomes garbage, its bytes are given back.
Discarded(nodes, n) == [nodes EXCEPT ![n] = NoNode]
RowsDiscarded(n) ==
    IF node[n].key = 0 THEN row ELSE [row EXCEPT ![node[n].key].state = "garbage"]

\* Mutant: the bytes of a removed file stay charged.
DiscardUncharged(n) ==
    /\ node' = Discarded(node, n)
    /\ row' = RowsDiscarded(n)
    /\ UNCHANGED volume
DiscardAtOnce(n) ==
    /\ node' = Discarded(node, n)
    /\ row' = RowsDiscarded(n)
    /\ volume' = Charged(node[n].bytes, {})
\* discard: a pinned node is only detached and keeps its object and its charge.
Discard(n) ==
    \/ /\ Pinned(n) # {}
       /\ node' = [node EXCEPT ![n].detached = TRUE]
       /\ UNCHANGED <<row, volume>>
    \/ /\ Pinned(n) = {}
       /\ DiscardAtOnce(n)

-----------------------------------------------------------------------------
\* Reading, by path or through a retained file, and the first half of an edit.

\* The node an operation is about, 0 when it may no longer reach one.
Target(p) == LET at == proc[p].at IN
    CASE at \in Names -> tree[at]
      [] at \in Handles /\ handle[at].active -> handle[at].node
      [] OTHER -> 0

ReadStart(p, at) ==
    /\ Admits("read")
    /\ proc[p] = Idle
    /\ at \in Handles => handle[at].active
    /\ proc' = [proc EXCEPT ![p] = [Idle EXCEPT !.pc = "stat", !.at = at]]
    /\ UNCHANGED <<tree, node, row, blob, late, volume, handle, sweeper, life>>

\* WriteAt ("edit") and Truncate to nothing ("clear") on a retained file.
EditStart(p, h, op) ==
    /\ Admits(op)
    /\ proc[p] = Idle
    /\ handle[h].active
    /\ proc' = [proc EXCEPT ![p] = [Idle EXCEPT !.pc = "stat", !.at = h, !.op = op]]
    /\ UNCHANGED <<tree, node, row, blob, late, volume, handle, sweeper, life>>

Stat(p) ==
    LET n == Target(p)  me == proc[p]  now == node[n] IN
    /\ me.pc = "stat"
    /\ \/ (~Healthy \/ n = 0) /\ Done(p)
       \/ /\ Healthy /\ n # 0
          /\ \/ /\ me.op = "clear"
                /\ proc' = [proc EXCEPT ![p] = [me EXCEPT !.pc = "commit", !.rev = now.rev]]
             \/ /\ me.op = "read" /\ now.key = 0
                /\ Done(p)
             \/ /\ me.op = "edit" /\ now.key = 0
                /\ proc' = [proc EXCEPT ![p] = [me EXCEPT !.pc = "reserve", !.rev = now.rev,
                                                         !.data = {p}]]
             \/ /\ me.op # "clear" /\ now.key # 0 /\ now.key = me.missing
                /\ Goes(p, "lost")
             \/ /\ me.op # "clear" /\ now.key # 0 /\ now.key # me.missing
                /\ proc' = [proc EXCEPT ![p] = [me EXCEPT !.pc = "get", !.key = now.key,
                                                         !.rev = now.rev, !.data = now.bytes]]
    /\ UNCHANGED <<tree, node, row, blob, late, volume, handle, sweeper, life>>

OutOfAttempts(me) == me.tries = IF me.at \in Names THEN ReadAttempts ELSE FileAttempts - 1

\* The object may have been replaced and swept since Stat: ask the tree again.
Get(p) ==
    LET me == proc[p] IN
    /\ me.pc = "get"
    /\ \/ blob[me.key] = {} /\ OutOfAttempts(me) /\ Done(p)
       \/ /\ blob[me.key] = {} /\ ~OutOfAttempts(me)
          /\ proc' = [proc EXCEPT ![p] = [Idle EXCEPT !.pc = "stat", !.op = me.op, !.at = me.at,
                                                      !.missing = me.key, !.tries = me.tries + 1]]
       \/ blob[me.key] # {} /\ me.op = "read" /\ Done(p)
       \/ /\ blob[me.key] # {} /\ me.op = "edit"
          /\ proc' = [proc EXCEPT ![p] = [me EXCEPT !.pc = "reserve", !.key = 0,
                                                   !.data = UNION blob[me.key] \cup {p}]]
    /\ UNCHANGED <<tree, node, row, blob, late, volume, handle, sweeper, life>>

-----------------------------------------------------------------------------
\* Storing new contents.

WriteStart(p, n, data) ==
    /\ Admits("write")
    /\ proc[p] = Idle
    /\ proc' = [proc EXCEPT ![p] = [Idle EXCEPT !.op = "write", !.at = n, !.data = data,
                                       !.pc = IF data = {} THEN "commit" ELSE "reserve"]]
    /\ UNCHANGED <<tree, node, row, blob, late, volume, handle, sweeper, life>>

Reachable(p) == proc[p].op = "write" \/ Target(p) # 0
Held(p) == IF Target(p) = 0 THEN {} ELSE node[Target(p)].bytes

Reserve(p) ==
    /\ proc[p].pc = "reserve"
    /\ \/ /\ Healthy /\ Reachable(p)
          /\ Reserving(proc[p].data, Held(p))
          /\ proc' = [proc EXCEPT ![p].pc = "put", ![p].key = NextKey]
       \/ /\ ~(Healthy /\ Reachable(p) /\ BacklogRoom
               /\ RoomFor(AllocatedSize(Size(proc[p].data)) - AllocatedSize(Size(Held(p)))))
          /\ Done(p)
          /\ UNCHANGED <<row, volume>>
    /\ UNCHANGED <<tree, node, blob, late, handle, sweeper, life>>

Put(p) ==
    /\ proc[p].pc = "put"
    /\ blob' = [blob EXCEPT ![proc[p].key] = {proc[p].data}]
    /\ Goes(p, "commit")
    /\ UNCHANGED <<tree, node, row, late, volume, handle, sweeper, life>>

\* A Put error proves nothing: the bytes are not there, or may land later.
PutFails(p) ==
    /\ Fault("put")
    /\ proc[p].pc = "put"
    /\ \/ UNCHANGED late
       \/ late' = [late EXCEPT ![proc[p].key] = {proc[p].data}]
    /\ Goes(p, "quarantine")
    /\ CountFault
    /\ UNCHANGED <<tree, node, row, blob, volume, handle, sweeper>>

PutLands(k) ==
    /\ late[k] # {}
    /\ blob' = [blob EXCEPT ![k] = late[k]]
    /\ late' = [late EXCEPT ![k] = {}]
    /\ UNCHANGED <<tree, node, row, volume, handle, proc, sweeper, life>>

\* Mutant: a failed Put is cleaned up like a failed commit.
QuarantineAsGarbage(p) ==
    /\ proc[p].pc = "quarantine"
    /\ row' = IF Healthy THEN [row EXCEPT ![proc[p].key].state = "garbage"] ELSE row
    /\ Done(p)
    /\ sweeper' = Woken
    /\ UNCHANGED <<tree, node, blob, late, volume, handle, life>>
Quarantine(p) ==
    /\ proc[p].pc = "quarantine"
    /\ row' = IF Healthy THEN [row EXCEPT ![proc[p].key].state = "unresolved"] ELSE row
    /\ Done(p)
    /\ UNCHANGED <<tree, node, blob, late, volume, handle, sweeper, life>>

\* Put succeeded and the commit did not happen: the object is collectable now.
Abandon(p) ==
    LET me == proc[p]  mayAbandon == Healthy /\ row[me.key].state = "reserved" IN
    /\ me.pc \in {"abandon", "abandonRetry"}
    /\ row' = IF mayAbandon THEN [row EXCEPT ![me.key].state = "garbage"] ELSE row
    /\ sweeper' = Woken
    /\ \/ (me.pc = "abandon" \/ ~mayAbandon \/ OutOfAttempts(me)) /\ Done(p)
       \/ /\ me.pc = "abandonRetry" /\ mayAbandon /\ ~OutOfAttempts(me)
          /\ proc' = [proc EXCEPT ![p] = [Idle EXCEPT !.pc = "stat", !.op = me.op, !.at = me.at,
                                               !.missing = me.missing, !.tries = me.tries + 1]]
    /\ UNCHANGED <<tree, node, blob, late, volume, handle, life>>

NewNode == volume.nodes + 1

\* Mutant: the revision the edit started from is not compared.
NoRace(p) == FALSE
RevisionRace(p) == proc[p].op # "write" /\ node[Target(p)].rev # proc[p].rev

CommitRoom(p) == RoomFor(AllocatedSize(Size(proc[p].data)) - AllocatedSize(Size(Held(p))))

\* The transaction of Store.Commit and retainedFile.Commit.
CommitApplies(p) ==
    LET me == proc[p]  n == Target(p) IN
    /\ Reachable(p) /\ CommitRoom(p)
    /\ me.key # 0 => row[me.key].state = "reserved"
    /\ volume' = [Charged(Held(p), me.data) EXCEPT !.nodes = IF n = 0 THEN NewNode ELSE @]
    /\ \/ /\ n # 0 /\ ~RevisionRace(p)
          /\ node[n].rev < Setting.revisions
          /\ node' = Replaced(n, me.key, me.data)
          /\ row' = RowsAfter(row, me.key, node[n].key, me.data)
          /\ UNCHANGED tree
       \/ /\ n = 0 /\ NewNode <= Setting.nodes
          /\ node' = [node EXCEPT ![NewNode] = [NoNode EXCEPT !.live = TRUE, !.key = me.key,
                                                              !.bytes = me.data, !.rev = 1]]
          /\ row' = RowsAfter(row, me.key, 0, me.data)
          /\ tree' = [tree EXCEPT ![me.at] = NewNode]

\* Where a caller goes when its commit was refused.
AfterRefusal(p, race) ==
    LET me == proc[p] IN
    IF me.key # 0 THEN Goes(p, IF race THEN "abandonRetry" ELSE "abandon")
    ELSE IF race /\ ~OutOfAttempts(me)
    THEN proc' = [proc EXCEPT ![p] = [me EXCEPT !.pc = "stat", !.tries = @ + 1]]
    ELSE Done(p)

Commit(p) ==
    /\ proc[p].pc = "commit"
    /\ \/ Healthy /\ CommitApplies(p) /\ Done(p) /\ sweeper' = Woken
       \/ /\ \/ ~Healthy /\ AfterRefusal(p, FALSE)
             \/ Healthy /\ ~(Reachable(p) /\ CommitRoom(p)) /\ AfterRefusal(p, FALSE)
             \/ Healthy /\ Target(p) # 0 /\ RevisionRace(p) /\ AfterRefusal(p, TRUE)
          /\ UNCHANGED <<tree, node, row, volume, sweeper>>
    /\ UNCHANGED <<blob, late, handle, life>>

\* Refused for a reason outside this module: a lease, a pending unlink, a deadline.
CommitRefused(p) ==
    /\ Fault("refused")
    /\ Healthy
    /\ proc[p].pc = "commit"
    /\ AfterRefusal(p, FALSE)
    /\ CountFault
    /\ UNCHANGED <<tree, node, row, blob, late, volume, handle, sweeper>>

Poisons == life' = [life EXCEPT !.faults = @ + 1, !.poisoned = TRUE]

\* commitPrepared: the outcome of COMMIT is unknown, so the store is poisoned.
CommitUncertain(p) ==
    /\ Fault("uncertain")
    /\ Healthy
    /\ proc[p].pc = "commit"
    /\ CommitApplies(p) \/ UNCHANGED <<tree, node, row, volume>>
    /\ AfterRefusal(p, FALSE)
    /\ Poisons
    /\ UNCHANGED <<blob, late, handle, sweeper>>

-----------------------------------------------------------------------------
\* The other edits of the tree.

Create(n) ==
    /\ Admits("create") /\ Healthy
    /\ tree[n] = 0 /\ NewNode <= Setting.nodes
    /\ tree' = [tree EXCEPT ![n] = NewNode]
    /\ node' = [node EXCEPT ![NewNode] = [NoNode EXCEPT !.live = TRUE, !.rev = 1]]
    /\ volume' = [volume EXCEPT !.nodes = NewNode]
    /\ UNCHANGED <<row, blob, late, handle, proc, sweeper, life>>

Remove(n) ==
    /\ Admits("remove") /\ Healthy
    /\ tree[n] # 0
    /\ tree' = [tree EXCEPT ![n] = 0]
    /\ Discard(tree[n])
    /\ sweeper' = Woken
    /\ UNCHANGED <<blob, late, handle, proc, life>>

Rename(from, to) ==
    /\ Admits("rename") /\ Healthy
    /\ tree[from] # 0 /\ from # to
    /\ tree' = [tree EXCEPT ![from] = 0, ![to] = tree[from]]
    /\ \/ tree[to] # 0 /\ Discard(tree[to])
       \/ tree[to] = 0 /\ UNCHANGED <<node, row, volume>>
    /\ sweeper' = Woken
    /\ UNCHANGED <<blob, late, handle, proc, life>>

-----------------------------------------------------------------------------
\* Retained files.

\* OpenFile of an existing name; Truncate empties it in the same transaction.
Open(h, n, truncate) ==
    LET id == tree[n] IN
    /\ Admits("open") /\ Healthy
    /\ handle[h] = NoHandle /\ id # 0
    /\ handle' = [handle EXCEPT ![h] = [node |-> id, active |-> TRUE]]
    /\ \/ ~truncate /\ UNCHANGED <<node, row, volume>>
       \/ /\ truncate /\ "clear" \in Setting.offered
          /\ node[id].rev < Setting.revisions
          /\ node' = Replaced(id, 0, {})
          /\ row' = RowsAfter(row, 0, node[id].key, {})
          /\ volume' = Charged(node[id].bytes, {})
    /\ UNCHANGED <<tree, blob, late, proc, sweeper, life>>

\* Close, expiry of the session and Storage.Close all retire a file first.
Retire(h) ==
    /\ handle[h].active
    /\ handle' = [handle EXCEPT ![h].active = FALSE]
    /\ UNCHANGED <<tree, node, row, blob, late, volume, proc, sweeper, life>>

Drained(h) == \A p \in Procs : proc[p].at # h

\* Mutant: the last close does not look at the node it kept.
CloseLeavesDetached(h) == UNCHANGED <<node, row, volume>>
\* The last physical reference to a detached node retires it.
CloseApplies(h) ==
    LET n == handle[h].node IN
    \/ Pinned(n) = {h} /\ node[n].detached /\ DiscardAtOnce(n)
    \/ ~(Pinned(n) = {h} /\ node[n].detached) /\ UNCHANGED <<node, row, volume>>

CloseFile(h) ==
    /\ Healthy
    /\ handle[h].node # 0 /\ ~handle[h].active
    /\ Drained(h)
    /\ CloseApplies(h)
    /\ handle' = [handle EXCEPT ![h] = NoHandle]
    /\ sweeper' = Woken
    /\ UNCHANGED <<tree, blob, late, proc, life>>

\* The finalizing transaction had an unknown outcome: the file stays owned.
CloseUncertain(h) ==
    LET n == handle[h].node IN
    /\ Fault("uncertain")
    /\ Healthy
    /\ n # 0 /\ ~handle[h].active /\ Drained(h)
    /\ Pinned(n) = {h} /\ node[n].detached
    /\ DiscardAtOnce(n) \/ UNCHANGED <<node, row, volume>>
    /\ Poisons
    /\ UNCHANGED <<tree, blob, late, handle, proc, sweeper>>

-----------------------------------------------------------------------------
\* Collection.  A signal, a tick or Sweep starts a batch; one permit serialises them.

\* Mutant: a reservation is taken for abandoned by its age.
CollectsReserved == InState("garbage") \cup InState("reserved")
Collectable == InState("garbage")

Maintaining == life.close \in {"open", "files"}

\* Mutant: one failed batch ends maintenance.
SweepStartOnce ==
    /\ sweeper.pc = "idle" /\ Maintaining /\ ~sweeper.failed
    /\ Healthy /\ Collectable # {}
    /\ \E k \in Collectable : sweeper' = [Asleep EXCEPT !.pc = "delete", !.keys = {k}, !.wake = FALSE]
    /\ UNCHANGED <<tree, node, row, blob, late, volume, handle, proc, life>>
SweepStart ==
    /\ sweeper.pc = "idle" /\ Maintaining
    /\ sweeper.wake \/ "tick" \in Setting.offered
    /\ \/ /\ Healthy /\ Collectable # {}
          /\ \E keys \in SUBSET Collectable :
                /\ Cardinality(keys) = Min({Batch, Cardinality(Collectable)})
                /\ sweeper' = [pc |-> "delete", keys |-> keys, gone |-> {}, failed |-> FALSE,
                               wake |-> FALSE]
       \/ /\ ~(Healthy /\ Collectable # {})
          /\ sweeper' = [Asleep EXCEPT !.wake = FALSE]
    /\ UNCHANGED <<tree, node, row, blob, late, volume, handle, proc, life>>

SweepDelete(k) ==
    /\ sweeper.pc = "delete"
    /\ k \in sweeper.keys \ sweeper.gone
    /\ blob' = [blob EXCEPT ![k] = {}]
    /\ sweeper' = [sweeper EXCEPT !.gone = @ \cup {k},
                                  !.pc = IF sweeper.keys = sweeper.gone \cup {k} THEN "forget" ELSE @]
    /\ UNCHANGED <<tree, node, row, late, volume, handle, proc, life>>

\* discard stops at the first failure; whether the object went is unknown.
SweepDeleteFails(k) ==
    /\ Fault("delete")
    /\ sweeper.pc = "delete"
    /\ k \in sweeper.keys \ sweeper.gone
    /\ blob' = [blob EXCEPT ![k] = {}] \/ UNCHANGED blob
    /\ sweeper' = [sweeper EXCEPT !.pc = "forget", !.failed = TRUE]
    /\ CountFault
    /\ UNCHANGED <<tree, node, row, late, volume, handle, proc>>

Forgotten(gone) == [k \in Keys |-> IF k \in gone THEN [NoRow EXCEPT !.state = "forgotten"] ELSE row[k]]

\* A batch that removed everything it was given is followed by another request.
SweepEnds(failed) == sweeper' = [Asleep EXCEPT !.failed = failed, !.wake = sweeper.wake \/ ~failed]

SweepForget ==
    LET mayForget == Healthy /\ sweeper.gone \subseteq InState("garbage") IN
    /\ sweeper.pc = "forget"
    /\ row' = IF mayForget THEN Forgotten(sweeper.gone) ELSE row
    /\ SweepEnds(sweeper.failed \/ ~mayForget)
    /\ UNCHANGED <<tree, node, blob, late, volume, handle, proc, life>>

SweepForgetUncertain ==
    /\ Fault("uncertain")
    /\ Healthy
    /\ sweeper.pc = "forget" /\ sweeper.gone # {}
    /\ row' = Forgotten(sweeper.gone) \/ UNCHANGED row
    /\ SweepEnds(TRUE)
    /\ Poisons
    /\ UNCHANGED <<tree, node, blob, late, volume, handle, proc>>

-----------------------------------------------------------------------------
\* Close and restart.

CloseBegin ==
    /\ "close" \in Setting.offered /\ life.close = "open"
    /\ life' = [life EXCEPT !.close = "files"]
    /\ UNCHANGED <<tree, node, row, blob, late, volume, handle, proc, sweeper>>

CloseStep(from, to) ==
    /\ life.close = from
    /\ life' = [life EXCEPT !.close = to]
    /\ UNCHANGED <<tree, node, row, blob, late, volume, handle, proc, sweeper>>

CloseFiles == (\A h \in Handles : handle[h] = NoHandle) /\ CloseStep("files", "maintenance")
CloseMaintenance == sweeper.pc = "idle" /\ CloseStep("maintenance", "operations")
\* Mutant: the durable halves are released without the operations gate.
CloseAtOnce == CloseStep("operations", "closed")
CloseOperations == (\A p \in Procs : proc[p] = Idle) /\ CloseStep("operations", "closed")

\* The process ends and the volume is opened again: requests that were on their way
\* may still land, and reapDetachedFiles retires what only references kept.
Crash ==
    /\ Fault("crash")
    /\ \E sent \in SUBSET {p \in Procs : proc[p].pc = "put"} :
          late' = [k \in Keys |-> IF \E p \in sent : proc[p].key = k
                                  THEN {proc[CHOOSE p \in sent : proc[p].key = k].data}
                                  ELSE late[k]]
    /\ LET reaped == {n \in Live : node[n].detached}
           freed == MapThenSumSet(LAMBDA n : Size(node[n].bytes), reaped)
           unallocated == MapThenSumSet(LAMBDA n : AllocatedSize(Size(node[n].bytes)), reaped)
       IN /\ node' = [n \in Nodes |-> IF n \in reaped THEN NoNode ELSE node[n]]
          /\ row' = [k \in Keys |-> IF \E n \in reaped : node[n].key = k
                                    THEN [row[k] EXCEPT !.state = "garbage"] ELSE row[k]]
          /\ volume' = [volume EXCEPT !.used = @ - freed, !.allocated = @ - unallocated]
    /\ handle' = [h \in Handles |-> NoHandle]
    /\ proc' = [p \in Procs |-> Idle]
    /\ sweeper' = Asleep
    /\ life' = [life EXCEPT !.poisoned = FALSE, !.close = "open", !.faults = @ + 1]
    /\ UNCHANGED <<tree, blob>>

-----------------------------------------------------------------------------
Init ==
    /\ tree = [n \in Names |-> 0]
    /\ node = [n \in Nodes |-> NoNode]
    /\ row = [k \in Keys |-> NoRow]
    /\ blob = [k \in Keys |-> {}]
    /\ late = [k \in Keys |-> {}]
    /\ volume = [used |-> 0, allocated |-> 0, keys |-> 0, nodes |-> 0]
    /\ handle = [h \in Handles |-> NoHandle]
    /\ proc = [p \in Procs |-> Idle]
    /\ sweeper = Asleep
    /\ life \in [setting : DOMAIN Settings, poisoned : {FALSE}, close : {"open"}, faults : {0}]

Starts(p) ==
    \/ \E at \in Setting.names \cup Setting.handles : ReadStart(p, at)
    \/ \E h \in Setting.handles, op \in {"edit", "clear"} : EditStart(p, h, op)
    \/ \E n \in Setting.names, data \in {{}, {p}} : WriteStart(p, n, data)
Steps(p) ==
    \/ Stat(p) \/ Get(p) \/ Reserve(p) \/ Put(p) \/ PutFails(p) \/ Quarantine(p) \/ Abandon(p)
    \/ Commit(p) \/ CommitRefused(p) \/ CommitUncertain(p)
Edits ==
    \/ \E n \in Setting.names : Create(n) \/ Remove(n)
    \/ \E from, to \in Setting.names : Rename(from, to)
Files ==
    \/ \E h \in Setting.handles, n \in Setting.names, truncate \in BOOLEAN : Open(h, n, truncate)
    \/ \E h \in Setting.handles : Retire(h) \/ CloseFile(h) \/ CloseUncertain(h)
Sweeps ==
    \/ SweepStart \/ SweepForget \/ SweepForgetUncertain
    \/ \E k \in Keys : SweepDelete(k) \/ SweepDeleteFails(k)
Closing == CloseBegin \/ CloseFiles \/ CloseMaintenance \/ CloseOperations

Next ==
    \/ \E p \in Setting.procs : Starts(p) \/ Steps(p)
    \/ \E k \in Keys : PutLands(k)
    \/ Edits \/ Files \/ Sweeps \/ Closing \/ Crash

Spec == Init /\ [][Next]_vars

\* The maintenance goroutine runs as long as the process does.
FairSpec == Spec /\ WF_vars(SweepStart) /\ WF_vars(SweepForget)
                 /\ \A k \in Keys : WF_vars(SweepDelete(k))

-----------------------------------------------------------------------------
TypeOK ==
    /\ tree \in [Names -> {0} \cup Nodes]
    /\ node \in [Nodes -> [live : BOOLEAN, key : {0} \cup Keys, bytes : Contents,
                           rev : 0 .. MaxRevision, detached : BOOLEAN]]
    /\ row \in [Keys -> [state : RowStates, size : Nat]]
    /\ blob \in [Keys -> SUBSET Contents] /\ late \in [Keys -> SUBSET Contents]
    /\ volume \in [used : Nat, allocated : Nat, keys : {0} \cup Keys, nodes : {0} \cup Nodes]
    /\ handle \in [Handles -> [node : {0} \cup Nodes, active : BOOLEAN]]
    /\ \A p \in Procs : proc[p].key \in {0} \cup Keys /\ proc[p].data \in Contents
    /\ sweeper.keys \subseteq Keys /\ sweeper.gone \subseteq sweeper.keys

\* Every file's contents are there and whole: whatever a node names is a referenced object
\* holding exactly the bytes that were committed, even while sweeps, failed writes and
\* crashes clean up around it (Storage.Write, Storage.sweep).
ContentsPresent ==
    \A n \in Live : node[n].key # 0 =>
        row[node[n].key].state = "referenced" /\ blob[node[n].key] = {node[n].bytes}

\* Nothing is stored, or may still be stored by a lost request, under a key no record
\* mentions: litter can always be found (Reserve before Put, Quarantine after a failed one).
NoUntrackedObject ==
    \A k \in Keys : blob[k] # {} \/ late[k] # {} => row[k].state \notin {"free", "forgotten"}

\* A reader that was told a key finds those bytes or nothing, never another file's, and
\* Storage.read never reports lost contents as long as the object store loses none.
ReadsWhole ==
    \A p \in Procs : /\ proc[p].pc = "get" => blob[proc[p].key] \in {{}, {proc[p].data}}
                     /\ proc[p].pc # "lost"

\* The counters are the sums over linked and retained files at every transaction boundary,
\* and writers that both found room when they reserved cannot both take it.
UsedExact ==
    /\ volume.used = MapThenSumSet(LAMBDA n : Size(node[n].bytes), Live)
    /\ volume.allocated = MapThenSumSet(LAMBDA n : AllocatedSize(Size(node[n].bytes)), Live)
    /\ Allowance = 0 \/ volume.allocated <= Allowance

\* A node has a name, or a retained file that will retire it: removal, rename over it and
\* the last close, in any order, leave no node behind.
NoOrphan ==
    Healthy => \A n \in Live : IF node[n].detached THEN Pinned(n) # {}
                               ELSE \E name \in Names : tree[name] = n

\* What the comment of sweepAfterMutation says of it: every successful edit that produced
\* garbage asks for a sweep.
EveryEditSignals == [][InState("garbage")' \subseteq InState("garbage") \/ sweeper'.wake]_vars

\* Close hands the halves back only when nothing uses them.
ClosedQuiet ==
    life.close = "closed" => /\ \A p \in Procs : proc[p] = Idle
                             /\ sweeper.pc = "idle"
                             /\ \A h \in Handles : handle[h] = NoHandle

\* An edit through a retained file is applied to the contents it replaces: no edit that
\* was acknowledged disappears under a concurrent one (the revision compared by Commit).
NoLostEdit ==
    [][\A p \in Procs, n \in Nodes :
          /\ proc[p].pc = "commit" /\ proc[p].op \in {"edit", "clear"}
          /\ proc[p] # proc'[p]
          /\ node'[n].rev # node[n].rev /\ node'[n].live
          => node'[n].bytes = IF proc[p].op = "edit" THEN node[n].bytes \cup {p} ELSE {}]_vars

\* Once requests stop failing, garbage is deleted and forgotten, or the store stops.
GarbageSwept ==
    \A k \in Keys : row[k].state = "garbage"
                        ~> row[k].state = "forgotten" \/ ~Healthy \/ ~Maintaining
=============================================================================
