---------------------------- MODULE DeleteIntents ----------------------------
(* Retained references and deferred deletion in the SQLite metadata store
   (packages/metastore/sqlite: files.go, pending_unlink.go, atomic_open.go,
   node_references.go, tree.go) with the use claims of packages/advisory.

   A reference pins its node.  Removing the name of a pinned node detaches it;
   the row goes with the last reference.  A reference may carry a close intent:
   a durable obligation, armed by the open, to unlink the node when the
   reference is retired.  Retiring makes the node pending: it keeps its name,
   but nothing may open, move or fill it, and the last reference to close
   removes it.  SetPendingUnlink does the same without an intent and can be
   taken back.  A crash loses every reference and keeps the obligations.

   The commit gate is held over each operation, so an operation is one step.
   A commit whose outcome is unknown fences the store until it is reopened,
   which is what Fence and Crash together say: nothing in memory survives.   *)
EXTENDS Naturals, FiniteSets, FiniteSetsExt

CONSTANTS Refs,            \* references that can be open at one time
          Intents,         \* identities of deletion intents
          MaxNode,         \* bound: node identifiers handed out
          MaxSequence,     \* bound: delete_intent_high_water
          Settings         \* by name, what one behaviour is set up with (see below)

VARIABLES db,      \* the database: nodes and their names, intents, counters
          ref,     \* retained files: s.files
          pins,    \* coordinator.pins of the volume
          claim,   \* advisory.Coordinator.uses
          files,   \* fileDomain.files
          cursor,  \* fileDomain.pendingUnlinkCursor
          mode,    \* serving, fenced, down, or starting
          faults,  \* faults injected so far
          seen,    \* what the holder of a reference last read from State
          setting  \* the setting of this behaviour

vars == <<db, ref, pins, claim, files, cursor, mode, faults, seen, setting>>

MaxFiles == Settings[setting].files             \* Options.MaxRetainedFiles
MaxIntents == Settings[setting].intents         \* Options.MaxDeleteIntents
MaxGeneration == Settings[setting].generation   \* bound: generation at which an unlink is asked for
MaxFaults == Settings[setting].faults           \* bound: refused transactions, fences and crashes
Names == Settings[setting].names                \* leaf names
Uses == Settings[setting].uses                  \* the claims that opens declare

Root == 1
Nodes == 1 .. MaxNode
NoNode == [kind |-> "none", parent |-> 0, name |-> "", detached |-> FALSE,
           pending |-> FALSE, generation |-> 0]
NoIntent == [outcome |-> "none", node |-> 0, sequence |-> 0]
NoRef == [state |-> "free", node |-> 0, intent |-> "none", final |-> FALSE]
NoClaim == [node |-> 0, deletes |-> FALSE, denies |-> FALSE]
NotSeen == [generation |-> 0, current |-> FALSE]
Accepted == {"pending", "failed"}              \* DeleteIntentPending, CleanupFailed
Terminal == {"completed", "notExecuted"}

New(kind, parent, name) == [NoNode EXCEPT !.kind = kind, !.parent = parent, !.name = name]

Init ==
    /\ setting \in DOMAIN Settings
    /\ db = [node |-> [n \in Nodes |-> CASE n = Root -> New("dir", 0, "")
                                         [] n = 2 -> New("dir", Root, CHOOSE x \in Names : TRUE)
                                         [] OTHER -> NoNode],
             intent |-> [i \in Intents |-> NoIntent], next |-> 3, highWater |-> 0]
    /\ ref = [r \in Refs |-> NoRef]
    /\ pins = [n \in Nodes |-> 0]
    /\ claim = [r \in Refs |-> NoClaim]
    /\ files = 0 /\ cursor = 0 /\ mode = "serving" /\ faults = 0
    /\ seen = [r \in Refs |-> NotSeen]

-----------------------------------------------------------------------------
(* What a transaction reads and writes: functions of the database d.        *)

Exists(d, n) == d.node[n].kind # "none"
Children(d, n) == {c \in Nodes : Exists(d, c) /\ d.node[c].parent = n}
Lookup(d, parent, name) == {c \in Children(d, parent) : d.node[c].name = name}
IntentsOf(d, n, outcomes) == {i \in Intents : d.intent[i].node = n /\ d.intent[i].outcome \in outcomes}

\* nodePendingUnlink: asked for explicitly, or by an intent that was accepted.
Pending(d, n) == d.node[n].pending \/ IntentsOf(d, n, Accepted) # {}

\* checkUnlinkCondition: the condition of an intent fits the kind of its node,
\* so only a directory can fail it, by holding names.
Executable(d, n) == d.node[n].kind = "dir" => Children(d, n) = {}

AdvancePendingGeneration(d, n) == [d EXCEPT !.node[n].generation = @ + 1]

SetOutcome(d, intents, outcome) ==
    [d EXCEPT !.intent = [i \in Intents |-> IF i \in intents THEN [@[i] EXCEPT !.outcome = outcome] ELSE @[i]]]

\* discardNode: the row goes, and what was only armed will not be executed.
DiscardNode(d, n) ==
    [SetOutcome(d, IntentsOf(d, n, {"armed"}), "notExecuted") EXCEPT !.node[n] = NoNode]

DiscardPinned(d, n) == DiscardNode(d, n)
\* unlink, then discard: a pinned node loses its name and keeps its row.
Discard(d, n) ==
    IF pins[n] > 0 THEN [d EXCEPT !.node[n].detached = TRUE, !.node[n].parent = 0, !.node[n].name = ""]
                   ELSE DiscardNode(d, n)

\* insertNode and link.  link asks the parent once more whether it is pending.
Insert(d, kind, parent, name) ==
    [d EXCEPT !.node[d.next] = New(kind, parent, name), !.next = @ + 1]
RoomUnasked(d, parent) == d.next <= Settings[setting].nodes
RoomFor(d, parent) == d.next <= Settings[setting].nodes /\ ~Pending(d, parent)

\* armCloseIntent: a new intent under the next sequence number.
Armed(d, i, n) ==
    IF i = "none" THEN d
    ELSE [d EXCEPT !.intent[i] = [outcome |-> "armed", node |-> n, sequence |-> d.highWater + 1],
                   !.highWater = @ + 1]
MayArm(d, i, n, use) ==
    i # "none" => /\ use.deletes /\ n # Root /\ ~d.node[n].detached
                  /\ d.intent[i].outcome = "none"
                  /\ Cardinality({j \in Intents : d.intent[j].outcome # "none"}) < MaxIntents
                  /\ d.highWater < MaxSequence

\* consumeCloseIntentLocked: what retiring the holder of intent i does to it.
Consume(d, i) ==
    IF i = "none" THEN d
    ELSE LET n == d.intent[i].node IN
         IF d.intent[i].outcome # "armed" THEN d
         ELSE IF d.node[n].detached \/ ~Executable(d, n) THEN SetOutcome(d, {i}, "notExecuted")
         ELSE SetOutcome(IF Pending(d, n) THEN d ELSE AdvancePendingGeneration(d, n), {i}, "pending")

\* activateRecoveredIntentsLocked: the armed intents of a node nobody holds.
\* With several, the first one accepted advances the generation.
Activate(d, n) ==
    LET armed == IntentsOf(d, n, {"armed"}) IN
    IF armed = {} THEN d
    ELSE IF d.node[n].detached \/ ~Executable(d, n) THEN SetOutcome(d, armed, "notExecuted")
    ELSE SetOutcome(IF Pending(d, n) THEN d ELSE AdvancePendingGeneration(d, n), armed, "pending")

\* finalizePendingUnlinkLocked: the name, the accepted intents and the row, in
\* one transaction; refused, a second transaction records the failure.
Finalise(d, n) == DiscardNode(SetOutcome(d, IntentsOf(d, n, Accepted), "completed"), n)
CleanupFailed(d, n) == SetOutcome(d, IntentsOf(d, n, Accepted), "failed")

-----------------------------------------------------------------------------
(* Use claims.                                                              *)

Claims(n) == {r \in Refs : claim[r].node = n}

\* AddUse: what either side denies, the other must not use.
MayUse(n, use) ==
    \A r \in Claims(n) : ~(use.deletes /\ claim[r].denies) /\ ~(claim[r].deletes /\ use.denies)
\* CheckUse for DeleteName: nobody else may deny it.
MayUnlink(n, own) == \A r \in Claims(n) \ own : ~claim[r].denies
\* targetScope: the scope a caller presents must be a live reference to n that
\* may delete; it is then exempted from its own denial.
Scopes(n) == {{}} \cup {{r} : r \in {q \in Claims(n) : ref[q].state = "active" /\ claim[q].deletes}}

Serving == mode = "serving"
Volatile == <<ref, pins, claim, files>>

-----------------------------------------------------------------------------
(* Opening a reference.                                                     *)

\* retainFileLocked, with the claim AddUse installed.
Retain(r, n, use, i) ==
    /\ ref' = [ref EXCEPT ![r] = [NoRef EXCEPT !.state = "active", !.node = n, !.intent = i]]
    /\ claim' = [claim EXCEPT ![r] = [node |-> n, deletes |-> use.deletes, denies |-> use.denies]]
    /\ pins' = [pins EXCEPT ![n] = @ + 1]
    /\ files' = files + 1
    /\ seen' = [seen EXCEPT ![r] = NotSeen]

MayRetain(r) == Serving /\ ref[r].state = "free" /\ files < MaxFiles

\* finishReferenceOpen: the claim fits, the intent is armed in the transaction
\* that made d out of the database, and the reference is retained.
Opened(r, d, n, intents) ==
    /\ MayRetain(r) /\ ~Pending(d, n)
    /\ \E use \in Uses, i \in intents \cup {"none"} :
          /\ MayUse(n, use) /\ MayArm(d, i, n, use)
          /\ db' = Armed(d, i, n)
          /\ Retain(r, n, use, i)
    /\ UNCHANGED <<cursor, mode, faults, setting>>

Directory(n) == db.node[n].kind = "dir" /\ ~db.node[n].detached
Vacant(parent, name) == Directory(parent) /\ Lookup(db, parent, name) = {} /\ RoomFor(db, parent)

\* openFile, by path or by identifier: a regular file, and no intent.  By
\* identifier even a detached node can be opened.
OpenFile(r) == \E n \in Nodes : db.node[n].kind = "file" /\ Opened(r, db, n, {})
CreateFile(r) ==
    \E parent \in Nodes, name \in Names :
        Vacant(parent, name) /\ Opened(r, Insert(db, "file", parent, name), db.next, {})
\* OpenNodeRef: any node by its identifier.
OpenNodeRef(r) == \E n \in Nodes \ {Root} : Exists(db, n) /\ Opened(r, db, n, Intents)
\* openAtomicChild, of what a directory holds under a name, or of a new node.
OpenChild(r) ==
    \E parent \in Nodes, name \in Names :
        Directory(parent) /\ \E n \in Lookup(db, parent, name) : Opened(r, db, n, Intents)
CreateChild(r) ==
    \E kind \in {"file", "dir"}, parent \in Nodes, name \in Names :
        Vacant(parent, name) /\ Opened(r, Insert(db, kind, parent, name), db.next, Intents)
\* applyAtomicOpen with ReplaceNode: the node under the name is unlinked as an
\* anonymous caller would, and a new one takes the name.
ReplaceChild(r) ==
    \E old \in Nodes \ {Root} :
        LET at == db.node[old] IN
        /\ at.kind = "file" /\ ~at.detached
        /\ ~Pending(db, old) /\ RoomFor(db, at.parent) /\ MayUnlink(old, {})
        /\ Opened(r, Insert(Discard(db, old), "file", at.parent, at.name), db.next, Intents)

-----------------------------------------------------------------------------
(* Pending unlink on a reference.                                           *)

Held(r) == Serving /\ ref[r].state = "active"
MayDelete(r) == claim[r].deletes /\ MayUnlink(ref[r].node, {r})

\* referenceState: the generation of what is pending, none otherwise.
Observed(d, n) == [generation |-> IF Pending(d, n) THEN d.node[n].generation ELSE 0, current |-> TRUE]

State(r) ==
    /\ Held(r)
    /\ seen' = [seen EXCEPT ![r] = Observed(db, ref[r].node)]
    /\ UNCHANGED <<db, cursor, mode, faults, Volatile, setting>>

\* A deletion asked for anew makes stale what the other holders read.
Overtaken(n) == [q \in Refs |-> IF ref[q].node = n THEN [seen[q] EXCEPT !.current = FALSE] ELSE seen[q]]

ActivateUncounted(d, n) == [d EXCEPT !.node[n].pending = TRUE]
\* activateExplicitPendingUnlink
ActivateExplicit(d, n) ==
    [(IF d.node[n].pending THEN d ELSE AdvancePendingGeneration(d, n)) EXCEPT !.node[n].pending = TRUE]

SetPendingUnlink(r) ==
    /\ Held(r) /\ MayDelete(r)
    /\ LET n == ref[r].node IN
          /\ ~db.node[n].detached /\ n # Root /\ Executable(db, n)
          /\ db.node[n].generation < MaxGeneration
          /\ db' = ActivateExplicit(db, n)
          /\ seen' = [(IF db.node[n].pending THEN seen ELSE Overtaken(n)) EXCEPT ![r] = Observed(db', n)]
    /\ UNCHANGED <<cursor, mode, faults, Volatile, setting>>

\* The caller presents the generation it read; nil when it read none pending.
ClearPendingUnlink(r) ==
    /\ Held(r) /\ MayDelete(r)
    /\ LET n == ref[r].node IN
          /\ seen[r].generation = Observed(db, n).generation
          /\ db.node[n].pending
          /\ db' = [db EXCEPT !.node[n].pending = FALSE]
          /\ seen' = [seen EXCEPT ![r] = Observed(db', n)]
    /\ UNCHANGED <<cursor, mode, faults, Volatile, setting>>

-----------------------------------------------------------------------------
(* Retiring and closing a reference.                                        *)

\* retireLocked: the intent is settled before the reference loses its rights.
Retire(r) ==
    /\ Held(r)
    /\ db' = Consume(db, ref[r].intent)
    /\ ref' = [ref EXCEPT ![r].state = "retired", ![r].intent = "none"]
    /\ UNCHANGED <<pins, claim, files, cursor, mode, faults, seen, setting>>

Open(r) == Serving /\ ref[r].state \in {"active", "retired"}

\* finalizeForCloseLocked: the last reference removes what nobody can name
\* any more, or what was promised to go.
FinaliseForClose(d, n) ==
    IF Pending(d, n) THEN Finalise(d, n)
    ELSE IF d.node[n].detached THEN DiscardNode(d, n)
    ELSE d
Last(r) == pins[ref[r].node] = 1 /\ ~ref[r].final

\* CloseWithResult, released: retire, finalise, drop the claim, unpin.
\* CheckCloseUnlink exempts the closing reference from its own denial; with
\* the last pin there is no other claim to deny.
Close(r) ==
    /\ Open(r)
    /\ LET n == ref[r].node
           d == Consume(db, ref[r].intent)
       IN /\ db' = IF Last(r) THEN FinaliseForClose(d, n) ELSE d
          /\ pins' = [pins EXCEPT ![n] = @ - 1]
    /\ ref' = [ref EXCEPT ![r] = NoRef]
    /\ claim' = [claim EXCEPT ![r] = NoClaim]
    /\ files' = files - 1
    /\ seen' = [seen EXCEPT ![r] = NotSeen]
    /\ UNCHANGED <<cursor, mode, faults, setting>>

Fault == faults < MaxFaults /\ faults' = faults + 1

\* CloseWithResult when the lock authority refuses the removal: the reference
\* stays, retired; the accepted intents show the failure unless the second
\* transaction is refused as well.
CloseRefused(r) ==
    /\ Open(r) /\ Fault /\ Last(r)
    /\ LET n == ref[r].node
           d == Consume(db, ref[r].intent)
       IN /\ Pending(d, n)
          /\ db' \in {d, CleanupFailed(d, n)}
    /\ ref' = [ref EXCEPT ![r].state = "retired", ![r].intent = "none"]
    /\ UNCHANGED <<pins, claim, files, cursor, mode, seen, setting>>

\* CloseWithResult when dropping the claim is interrupted by the caller's
\* context: finalizationDone remembers that the node is gone.
CloseInterrupted(r) ==
    /\ Open(r) /\ Fault /\ Last(r)
    /\ LET n == ref[r].node
           d == Consume(db, ref[r].intent)
       IN /\ Pending(d, n) \/ d.node[n].detached
          /\ db' = FinaliseForClose(d, n)
    /\ ref' = [ref EXCEPT ![r].state = "retired", ![r].intent = "none", ![r].final = TRUE]
    /\ UNCHANGED <<pins, claim, files, cursor, mode, seen, setting>>

-----------------------------------------------------------------------------
(* The namespace, by path (tree.go) and by parent (namespace_mutations.go). *)

Linked(n) == n # Root /\ Exists(db, n) /\ ~db.node[n].detached
NamesOnly == UNCHANGED <<cursor, mode, faults, seen, Volatile, setting>>

\* makeNode, for Create and Mkdir.
MakeNode ==
    /\ Serving
    /\ \E kind \in {"file", "dir"}, parent \in Nodes, name \in Names :
          Vacant(parent, name) /\ db' = Insert(db, kind, parent, name)
    /\ NamesOnly

\* The node is there under its name, and neither it nor its directory is
\* already being deleted; nobody else denies it.
Movable(n, own) ==
    /\ Linked(n) /\ ~Pending(db, db.node[n].parent) /\ ~Pending(db, n)
    /\ MayUnlink(n, own)
Remove ==
    /\ Serving
    /\ \E n \in Nodes : db.node[n].kind = "file" /\ Movable(n, {}) /\ db' = Discard(db, n)
    /\ NamesOnly
RemoveDir ==
    /\ Serving
    /\ \E n \in Nodes : db.node[n].kind = "dir" /\ Movable(n, {}) /\ Executable(db, n) /\ db' = Discard(db, n)
    /\ NamesOnly
\* prepareNamespaceMutation: the caller may present scopes.
RemoveChild ==
    /\ Serving
    /\ \E n \in Nodes : \E own \in Scopes(n) :
          own # {} /\ Movable(n, own) /\ Executable(db, n) /\ db' = Discard(db, n)
    /\ NamesOnly

\* directoryContains: the destination lies in the subtree that would move.
RECURSIVE Ancestors(_, _)
Ancestors(d, n) == IF n = 0 THEN {} ELSE {n} \cup Ancestors(d, d.node[n].parent)

MayEnter(n, parent) == Directory(parent) /\ ~Pending(db, parent) /\ n \notin Ancestors(db, parent)
MayDisplace(n, old, own) ==
    /\ ~Pending(db, old) /\ MayUnlink(old, own)
    /\ db.node[old].kind = db.node[n].kind /\ Executable(db, old)
Moved(d, n, parent, name) == [d EXCEPT !.node[n].parent = parent, !.node[n].name = name]
Displaced(old) == IF old = {} THEN db ELSE Discard(db, CHOOSE x \in old : TRUE)

\* rename, by path: what had the name is discarded first.
Rename ==
    /\ Serving
    /\ \E n, parent \in Nodes, name \in Names :
          LET old == Lookup(db, parent, name) IN
          /\ Movable(n, {}) /\ MayEnter(n, parent)
          /\ n \notin old /\ \A x \in old : MayDisplace(n, x, {})
          /\ db' = Moved(Displaced(old), n, parent, name)
    /\ NamesOnly

\* prepareNamespaceRename and applyNamespaceRename: the name that was observed
\* at the destination, and goes, need not be the name that is taken; that one
\* is free, or is the observed one, or the source has it already.
RenameChild ==
    /\ Serving
    /\ \E n, parent \in Nodes, observed, output \in Names :
          LET old == Lookup(db, parent, observed) \ {n}
              taken == Lookup(db, parent, output)
          IN /\ observed # output
             /\ taken \subseteq old \cup {n}
             /\ \E own \in Scopes(n) : Movable(n, own)
             /\ MayEnter(n, parent)
             /\ \A x \in old : \E own \in Scopes(x) : MayDisplace(n, x, own)
             /\ db' = IF taken = {n} THEN Displaced(old) ELSE Moved(Displaced(old), n, parent, output)
    /\ NamesOnly

-----------------------------------------------------------------------------
(* Intents as their owner sees them, and the retry pass.                    *)

AcknowledgeUndecided(i) ==
    /\ Serving /\ db.intent[i].outcome \in Terminal \cup {"failed"}
    /\ db' = [db EXCEPT !.intent[i] = NoIntent]
    /\ UNCHANGED <<cursor, mode, faults, seen, Volatile, setting>>
\* AcknowledgeDeleteIntent forgets an intent that has been decided.
Acknowledge(i) ==
    /\ Serving /\ db.intent[i].outcome \in Terminal
    /\ db' = [db EXCEPT !.intent[i] = NoIntent]
    /\ UNCHANGED <<cursor, mode, faults, seen, Volatile, setting>>

ObligedUnlessFailed(d) ==
    {n \in Nodes : (Exists(d, n) /\ d.node[n].pending) \/ IntentsOf(d, n, {"pending", "armed"}) # {}}
\* ListDeleteIntents: a page after a cursor.
ListDeleteIntents(d, after) == {i \in Intents : d.intent[i].outcome # "none" /\ d.intent[i].sequence > after}

Obliged(d) ==
    {n \in Nodes : (Exists(d, n) /\ d.node[n].pending) \/ IntentsOf(d, n, Accepted \cup {"armed"}) # {}}

\* RetryPendingUnlinks, for a pass of one node: the next obliged node after the
\* cursor, left alone while it is pinned.  The cursor starts over once a pass
\* comes back short.
RetryPendingUnlinks ==
    /\ mode \in {"serving", "retrying"}
    /\ LET after == {n \in Obliged(db) : n > cursor} IN
       IF after = {} THEN cursor' = 0 /\ UNCHANGED <<db, faults>>
       ELSE LET n == Min(after)
                d == Activate(db, n)
            IN /\ cursor' = n
               /\ \/ pins[n] # 0 /\ UNCHANGED <<db, faults>>
                  \/ /\ pins[n] = 0
                     /\ \/ db' = (IF Pending(d, n) THEN Finalise(d, n) ELSE d) /\ UNCHANGED faults
                        \/ Fault /\ Pending(d, n) /\ db' \in {d, CleanupFailed(d, n)}
    /\ mode' = IF cursor' = 0 THEN "serving" ELSE mode
    /\ UNCHANGED <<seen, Volatile, setting>>

-----------------------------------------------------------------------------
(* Failure and restart.                                                     *)

\* poisonWith: a commit of unknown outcome or an inconsistent claim.  Every
\* operation is refused from here on.
Fence ==
    /\ Serving /\ Fault /\ mode' = "fenced"
    /\ UNCHANGED <<db, cursor, seen, Volatile, setting>>

\* The process ends; only the database is left.
Crash ==
    /\ mode # "down" /\ mode' = "down"
    /\ IF mode = "fenced" THEN UNCHANGED faults ELSE Fault
    /\ ref' = [r \in Refs |-> NoRef] /\ claim' = [r \in Refs |-> NoClaim]
    /\ pins' = [n \in Nodes |-> 0] /\ files' = 0 /\ cursor' = 0
    /\ seen' = [r \in Refs |-> NotSeen]
    /\ UNCHANGED <<db, setting>>

\* reapDetachedFiles, in the transaction that opens the database.
Reap(d) ==
    LET gone == {n \in Nodes : d.node[n].detached}
        of(outcomes) == UNION {IntentsOf(d, n, outcomes) : n \in gone}
    IN [SetOutcome(SetOutcome(d, of(Accepted), "completed"), of({"armed"}), "notExecuted")
          EXCEPT !.node = [n \in Nodes |-> IF n \in gone THEN NoNode ELSE @[n]]]

Reopen ==
    /\ mode = "down" /\ mode' = "starting" /\ db' = Reap(db)
    /\ UNCHANGED <<cursor, faults, seen, Volatile, setting>>

\* recoverArmedDeleteIntents: node by node before the store is exposed, waiting
\* out the recovery of the lock authority; then a first pass of the retry.
RecoverArmed ==
    /\ mode = "starting"
    /\ LET armed == {n \in Nodes : IntentsOf(db, n, {"armed"}) # {}} IN
       IF armed = {} THEN mode' = "retrying" /\ UNCHANGED db
       ELSE db' = Activate(db, Min(armed)) /\ UNCHANGED mode
    /\ UNCHANGED <<cursor, faults, seen, Volatile, setting>>

-----------------------------------------------------------------------------
Calls == \/ MakeNode \/ Remove \/ RemoveDir \/ RemoveChild \/ Rename \/ RenameChild
         \/ \E r \in Refs : OpenFile(r) \/ CreateFile(r) \/ OpenNodeRef(r) \/ OpenChild(r)
                            \/ CreateChild(r) \/ ReplaceChild(r) \/ State(r)
                            \/ SetPendingUnlink(r) \/ ClearPendingUnlink(r)
         \/ \E i \in Intents : Acknowledge(i)
Closing == \E r \in Refs : Retire(r) \/ Close(r) \/ CloseRefused(r) \/ CloseInterrupted(r)
Restart == Fence \/ Crash \/ Reopen \/ RecoverArmed

Next == Calls \/ Closing \/ RetryPendingUnlinks \/ Restart
Spec == Init /\ [][Next]_vars

\* Sessions end and close what they hold, maintenance passes recur, a fenced or
\* stopped process is started again.  Faults are bounded, calls are not owed.
Fairness ==
    /\ \A r \in Refs : WF_vars(Close(r))
    /\ WF_vars(RetryPendingUnlinks) /\ WF_vars(Reopen) /\ WF_vars(RecoverArmed)
    /\ WF_vars(mode = "fenced" /\ Crash)
FairSpec == Spec /\ Fairness

-----------------------------------------------------------------------------
Outcomes == {"none", "armed"} \cup Accepted \cup Terminal

\* Every variable has its type.
TypeOK ==
    /\ \A n \in Nodes : /\ db.node[n].kind \in {"none", "file", "dir"} /\ db.node[n].parent \in 0 .. MaxNode
                        /\ db.node[n].generation \in 0 .. MaxGeneration + 1
    /\ \A i \in Intents : db.intent[i].outcome \in Outcomes /\ db.intent[i].sequence \in 0 .. MaxSequence
    /\ \A r \in Refs : /\ ref[r].state \in {"free", "active", "retired"} /\ ref[r].node \in 0 .. MaxNode
                       /\ ref[r].intent \in Intents \cup {"none"} /\ claim[r].node = ref[r].node
    /\ mode \in {"serving", "fenced", "down", "starting", "retrying"}
    /\ files \in 0 .. MaxFiles /\ cursor \in 0 .. MaxNode /\ faults \in 0 .. MaxFaults

Retained(n) == {r \in Refs : ref[r].node = n}

\* A node stays in the database as long as a reference to it is open, and a
\* node without a name is there only for a reference: the pins that discard,
\* finalizePendingUnlinkLocked and CloseWithResult decide by are exact.
ReferencesKeepNodes ==
    mode = "serving" =>
        /\ \A n \in Nodes : pins[n] = Cardinality(Retained(n))
        /\ files = Cardinality({r \in Refs : ref[r].state # "free"})
        /\ \A r \in Refs : ref[r].state # "free" /\ ~ref[r].final => Exists(db, ref[r].node)
        /\ \A n \in Nodes : db.node[n].detached => Retained(n) # {}

\* No obligation is orphaned.  While the store serves, an armed intent is the
\* intent of exactly one active reference to its node; an accepted one has a
\* node that is still there under its name and can be removed; a completed one
\* has none.
ObligationsBacked ==
    /\ mode = "serving" => \A i \in Intents : db.intent[i].outcome = "armed" =>
          \E r \in Refs : /\ {q \in Refs : ref[q].intent = i} = {r}
                          /\ ref[r].state = "active" /\ ref[r].node = db.intent[i].node
    /\ \A n \in Nodes : Exists(db, n) /\ Pending(db, n) => ~db.node[n].detached /\ Executable(db, n)
    /\ \A i \in Intents : /\ db.intent[i].outcome \in Accepted => Exists(db, db.intent[i].node)
                          /\ db.intent[i].outcome = "completed" => ~Exists(db, db.intent[i].node)

\* What has been accepted for deletion keeps its place and takes in nothing
\* until it goes: it is not moved, detached, filled or opened again, and its
\* intents are never reported as not executed.  A decided intent stays decided
\* until it is acknowledged, and a new one lies behind every page listed so far.
Stands ==
       /\ \A n \in Nodes : Exists(db, n) /\ Pending(db, n) /\ Exists(db', n) =>
             /\ db'.node[n].parent = db.node[n].parent /\ db'.node[n].name = db.node[n].name
             /\ ~db'.node[n].detached /\ Children(db', n) \subseteq Children(db, n)
             /\ \A r \in Refs : ref'[r].node = n => ref[r].node = n
       /\ \A i \in Intents :
             /\ db.intent[i].outcome \in Accepted => db'.intent[i].outcome \in Accepted \cup {"completed"}
             /\ db.intent[i].outcome \in Terminal => db'.intent[i].outcome \in {db.intent[i].outcome, "none"}
             /\ db.intent[i].outcome = "none" /\ db'.intent[i].outcome # "none" =>
                   i \in ListDeleteIntents(db', db.highWater)
AcceptedStands == [][Stands]_vars

\* A holder takes back only the deletion it read about: if the unlink was asked
\* for again in between, the generation has moved and the call is refused.
ClearsCurrent == \A r \in Refs : ClearPendingUnlink(r) => seen[r].current
ClearsWhatItRead == [][ClearsCurrent]_vars

\* Whatever was accepted for deletion is deleted, by the last close or by the
\* maintenance pass, also over crashes.
AcceptedDeleted ==
    \A i \in Intents : db.intent[i].outcome \in Accepted ~> db.intent[i].outcome \notin Accepted

=============================================================================
