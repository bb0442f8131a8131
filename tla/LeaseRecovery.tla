--------------------------- MODULE LeaseRecovery ---------------------------
(***************************************************************************)
(* The durable lease evidence of a database: the SQLite lease_recovery row *)
(* (lock_recovery.go) and the native anchor beside it, an intent file, a   *)
(* witness file and an xattr binding (internal/nativelease).               *)
(*                                                                         *)
(* cache     the anchor as running processes see it: a rename or setxattr  *)
(*           is visible at once                                            *)
(* disk      what of it survives a power loss: fsync of the directory      *)
(*           saves both files, fsync of the bound inode saves the xattr    *)
(* row       the accepted and the prepared evidence in SQLite; a commit is *)
(*           durable and atomic, but a failed commit may have been applied *)
(* pc        where the owning process is in OpenLocking or RaiseMaxLease   *)
(* intent    Anchor.intent, read at opening                                *)
(* next,goal the evidence being advanced, and on whose behalf              *)
(* state     LeaseRecovery.state;  poisoned  the coordinator's poison      *)
(* refused   why the last opening refused the evidence, if it did          *)
(* promised  ghost: the longest lease RaiseMaxLease reported as durable    *)
(* issued    ghost: state identities drawn so far (128 random bits)        *)
(*                                                                         *)
(* Identity 0 stands for a record that does not exist.                     *)
(***************************************************************************)
EXTENDS Naturals

CONSTANTS
  Durations,       \* lease durations that are asked for
  MaxGeneration,   \* math.MaxInt64 in the code
  MaxIssued        \* bound on first initialisations

ASSUME DurationsPositive == Durations \subseteq Nat \ {0}
ASSUME BoundsPositive == MaxGeneration \in Nat \ {0} /\ MaxIssued \in Nat \ {0}

VARIABLES cache, disk, row, pc, intent, next, goal, state, poisoned, refused, promised, issued

opening == <<intent, next, goal, state>>
vars == <<cache, disk, row, pc, opening, poisoned, refused, promised, issued>>

Evidence == [id : Nat, gen : Nat, max : Nat]
Absent == [id |-> 0, gen |-> 0, max |-> 0]
Fresh(id) == [id |-> id, gen |-> 0, max |-> 0]
NoIntent == [id |-> 0, ready |-> FALSE]
Anchors == [intent : [id : Nat, ready : BOOLEAN], bound : Nat, witness : Evidence]

Init ==
  /\ cache = [intent |-> NoIntent, bound |-> 0, witness |-> Absent]
  /\ disk = cache
  /\ row = [accepted |-> Absent, prepared |-> Absent]
  /\ pc = "down"
  /\ intent = NoIntent
  /\ next = Absent
  /\ goal = "none"
  /\ state = Absent
  /\ poisoned = FALSE
  /\ refused = "no"
  /\ promised = 0
  /\ issued = 0

\* Mutants of the two below: the witness's directory entry, or the binding, is
\* never synced.
SyncIntentOnly == disk' = [disk EXCEPT !.intent = cache.intent]
NoSync == UNCHANGED disk

SyncDirectory == disk' = [disk EXCEPT !.intent = cache.intent, !.witness = cache.witness]
SyncBinding == disk' = [disk EXCEPT !.bound = cache.bound]

Refuse(why) ==
  /\ pc' = "down"
  /\ refused' = why
  /\ UNCHANGED <<cache, disk, row, opening, poisoned, promised, issued>>

\* openAnchor up to the first publication. `initialize` is the deployment's
\* InitializeLocks option.
OpenAnchor(initialize) ==
  /\ pc = "down"
  /\ refused' = "no"
  /\ poisoned' = FALSE
  /\ \/ /\ cache.intent = NoIntent
        /\ initialize /\ cache.bound = 0 /\ cache.witness = Absent
        /\ issued < MaxIssued
        /\ issued' = issued + 1
        /\ intent' = [id |-> issued', ready |-> FALSE]
        /\ cache' = [cache EXCEPT !.intent = intent']
        /\ pc' = "intentSync"
     \/ /\ cache.intent # NoIntent
        /\ IF cache.bound = 0
           THEN initialize /\ ~cache.intent.ready /\ pc' = "bind"
           ELSE cache.bound = cache.intent.id /\ pc' = "anchorBinding"
        /\ intent' = cache.intent
        /\ UNCHANGED <<cache, issued>>
  /\ next' = Absent
  /\ goal' = "none"
  /\ state' = Absent
  /\ UNCHANGED <<disk, row, promised>>

\* The same tests when they fail: openAnchor returns EIO and changes nothing.
RefuseAnchor(initialize) ==
  /\ pc = "down"
  /\ \/ /\ cache.intent = NoIntent
        /\ ~initialize \/ cache.bound # 0
        /\ Refuse("intent missing")
     \/ /\ cache.intent = NoIntent
        /\ cache.witness # Absent
        /\ Refuse("witness without intent")
     \/ /\ cache.intent # NoIntent /\ cache.bound = 0
        /\ ~initialize \/ cache.intent.ready
        /\ Refuse("binding missing")
     \/ /\ cache.intent # NoIntent
        /\ cache.bound \notin {0, cache.intent.id}
        /\ Refuse("binding differs")

\* publish: the intent was renamed into place; its directory is synced.
IntentSync ==
  /\ pc = "intentSync"
  /\ SyncDirectory
  /\ pc' = "bind"
  /\ UNCHANGED <<cache, row, opening, poisoned, refused, promised, issued>>

SetBinding ==
  /\ pc = "bind"
  /\ cache' = [cache EXCEPT !.bound = intent.id]
  /\ pc' = "anchorBinding"
  /\ UNCHANGED <<disk, row, opening, poisoned, refused, promised, issued>>

\* The binding is synced once or twice before the directory: one step.
AnchorBindingSync ==
  /\ pc = "anchorBinding"
  /\ SyncBinding
  /\ pc' = "anchorDirectory"
  /\ UNCHANGED <<cache, row, opening, poisoned, refused, promised, issued>>

AnchorDirectorySync ==
  /\ pc = "anchorDirectory"
  /\ SyncDirectory
  /\ pc' = "configure"
  /\ UNCHANGED <<cache, row, opening, poisoned, refused, promised, issued>>

\* Anchor.load for the opening anchor: a READY intent needs its witness, and
\* a witness carries the intent's identity.
WitnessLoads ==
  IF cache.witness = Absent THEN ~intent.ready ELSE cache.witness.id = intent.id

\* readLeaseRecord: a preparation is the next generation and does not lower.
IsNext(e, f) == f.id = e.id /\ f.gen = e.gen + 1 /\ f.max >= e.max
RowLoads ==
  row.prepared = Absent \/ (row.accepted.gen < MaxGeneration /\ IsNext(row.accepted, row.prepared))

StartAdvance(e, for) ==
  /\ next' = e
  /\ goal' = for
  /\ pc' = "advance"

\* What LeaseRecovery.open refuses once both records are read.
Disagreement ==
  IF row.accepted = Absent THEN intent.ready \/ cache.witness # Absent
  ELSE \/ ~RowLoads
       \/ row.accepted.id # intent.id
       \/ /\ cache.witness = Absent
          /\ intent.ready \/ row.accepted # Fresh(intent.id) \/ row.prepared # Absent
       \/ /\ cache.witness # Absent
          /\ cache.witness \notin {row.accepted} \cup ({row.prepared} \ {Absent})

\* LeaseRecovery.open: insert the first row if initialisation had not got so
\* far; then publish a missing witness, accept, or complete an interrupted raise.
Configure ==
  /\ pc = "configure"
  /\ ~poisoned
  /\ IF ~WitnessLoads \/ Disagreement
     THEN Refuse("evidence")
     ELSE /\ \/ /\ row.accepted = Absent
                /\ row' = [row EXCEPT !.accepted = Fresh(intent.id)]
                /\ StartAdvance(Fresh(intent.id), "fresh")
                /\ UNCHANGED state
             \/ /\ row.accepted # Absent /\ cache.witness = Absent
                /\ StartAdvance(row.accepted, "fresh")
                /\ UNCHANGED <<row, state>>
             \/ /\ row.accepted # Absent /\ cache.witness # Absent /\ row.prepared = Absent
                /\ state' = row.accepted
                /\ pc' = "complete"
                /\ UNCHANGED <<row, next, goal>>
             \/ /\ row.prepared # Absent /\ cache.witness # Absent
                /\ StartAdvance(row.prepared, "reconcile")
                /\ UNCHANGED <<row, state>>
          /\ UNCHANGED <<cache, disk, intent, poisoned, refused, promised, issued>>

\* Anchor.Advance: an identical witness is only synced; any other must be the
\* next generation. The rename is visible before the directory is synced.
MayAdvance(witness, e) == witness \in {Absent, e} \/ IsNext(witness, e)

Advance ==
  /\ pc = "advance"
  /\ MayAdvance(cache.witness, next)
  /\ cache' = [cache EXCEPT !.witness = next]
  /\ pc' = "advanceSync"
  /\ UNCHANGED <<disk, row, opening, poisoned, refused, promised, issued>>

\* Mutant of AdvanceSync: an opening that met a preparation serves the
\* accepted record.
AdvanceSyncForgets ==
  /\ pc = "advanceSync"
  /\ SyncDirectory
  /\ IF goal # "raise"
     THEN state' = row.accepted /\ pc' = "complete"
     ELSE pc' = "finalize" /\ UNCHANGED state
  /\ UNCHANGED <<cache, row, intent, next, goal, poisoned, refused, promised, issued>>

AdvanceSync ==
  /\ pc = "advanceSync"
  /\ SyncDirectory
  /\ IF goal = "fresh"
     THEN state' = next /\ pc' = "complete"
     ELSE pc' = "finalize" /\ UNCHANGED state
  /\ UNCHANGED <<cache, row, intent, next, goal, poisoned, refused, promised, issued>>

\* Mutant of Accepted: the preparation is cleared but not taken over.
AcceptedDropped(r, e) == [r EXCEPT !.prepared = Absent]

Accepted(r, e) == [r EXCEPT !.accepted = e, !.prepared = Absent]

Larger(x, y) == IF x > y THEN x ELSE y

\* finalize, and what its caller does with success: opening goes on to
\* Complete, RaiseMaxLease reports the duration as durable.
Finalize ==
  /\ pc = "finalize"
  /\ ~poisoned
  /\ row.prepared = next
  /\ row' = Accepted(row, next)
  /\ state' = next
  /\ IF goal = "raise"
     THEN pc' = "up" /\ promised' = Larger(promised, next.max)
     ELSE pc' = "complete" /\ UNCHANGED promised
  /\ UNCHANGED <<cache, disk, intent, next, goal, poisoned, refused, issued>>

\* Anchor.Complete, then EnableLocks: the authority serves.
Complete ==
  /\ pc = "complete"
  /\ cache.witness # Absent
  /\ cache' = [cache EXCEPT !.intent.ready = TRUE]
  /\ pc' = "completeSync"
  /\ UNCHANGED <<disk, row, opening, poisoned, refused, promised, issued>>

CompleteSync ==
  /\ pc = "completeSync"
  /\ SyncDirectory
  /\ intent' = [intent EXCEPT !.ready = TRUE]
  /\ pc' = "up"
  /\ UNCHANGED <<cache, row, next, goal, state, poisoned, refused, promised, issued>>

\* RaiseMaxLease for a duration the evidence covers already.
Covered(d) ==
  /\ pc = "up" /\ ~poisoned
  /\ d <= state.max
  /\ promised' = Larger(promised, d)
  /\ UNCHANGED <<cache, disk, row, pc, opening, poisoned, refused, issued>>

\* Mutant of Raised: the generation runs backwards.
RaisedBackwards(d) == [id |-> state.id, gen |-> state.gen - 1, max |-> d]

Raised(d) == [id |-> state.id, gen |-> state.gen + 1, max |-> d]

\* The first transaction of RaiseMaxLease. Its caller holds the gate until the
\* raise ends, so pc leaves "up" meanwhile.
Prepare(d) ==
  /\ pc = "up" /\ ~poisoned
  /\ d > state.max /\ state.gen < MaxGeneration
  /\ row.accepted = state /\ row.prepared = Absent
  /\ row' = [row EXCEPT !.prepared = Raised(d)]
  /\ StartAdvance(Raised(d), "raise")
  /\ UNCHANGED <<cache, disk, intent, state, poisoned, refused, promised, issued>>

\* RaiseMaxLease is past its preparation.
InRaise == goal = "raise" /\ pc \in {"advance", "advanceSync", "finalize"}

\* A step that returned an error. Opening gives up and releases the database;
\* after preparation LeaseRecovery.fail poisons the store instead. A failed
\* fsync or rename leaves cache and disk as they are.
GivesUp ==
  /\ pc \notin {"down", "up"}
  /\ IF InRaise
     THEN pc' = "up" /\ poisoned' = TRUE
     ELSE pc' = "down" /\ UNCHANGED poisoned

StepFails ==
  /\ GivesUp
  /\ UNCHANGED <<cache, disk, row, opening, refused, promised, issued>>

\* The three transactions when a commit error hides that it was applied:
\* commitPrepared poisons the store.
FirstRowUncertain ==
  /\ pc = "configure" /\ ~Disagreement /\ WitnessLoads
  /\ row.accepted = Absent
  /\ row' = [row EXCEPT !.accepted = Fresh(intent.id)]
  /\ GivesUp
  /\ UNCHANGED <<cache, disk, opening, refused, promised, issued>>

FinalizeUncertain ==
  /\ pc = "finalize" /\ ~poisoned
  /\ row.prepared = next
  /\ row' = Accepted(row, next)
  /\ GivesUp
  /\ UNCHANGED <<cache, disk, opening, refused, promised, issued>>

PrepareUncertain(d) ==
  /\ pc = "up" /\ ~poisoned
  /\ d > state.max /\ state.gen < MaxGeneration
  /\ row.accepted = state /\ row.prepared = Absent
  /\ row' = [row EXCEPT !.prepared = Raised(d)]
  /\ poisoned' = TRUE
  /\ UNCHANGED <<cache, disk, pc, opening, refused, promised, issued>>

CommitUncertain ==
  FirstRowUncertain \/ FinalizeUncertain \/ \E d \in Durations : PrepareUncertain(d)

\* Any other mutation of the store whose commit outcome is unknown.
PoisonedElsewhere ==
  /\ pc = "up" \/ InRaise
  /\ ~poisoned
  /\ poisoned' = TRUE
  /\ UNCHANGED <<cache, disk, row, pc, opening, refused, promised, issued>>

\* The process exits or is killed: the kernel keeps what it saw.
ProcessStops ==
  /\ pc # "down"
  /\ pc' = "down"
  /\ UNCHANGED <<cache, disk, row, opening, poisoned, refused, promised, issued>>

\* The machine stops: each unsynced record is kept or lost on its own.
PowerLoss ==
  /\ \E i \in {cache.intent, disk.intent}, b \in {cache.bound, disk.bound},
        w \in {cache.witness, disk.witness} :
       /\ cache' = [intent |-> i, bound |-> b, witness |-> w]
       /\ disk' = cache'
  /\ pc' = "down"
  /\ UNCHANGED <<row, opening, poisoned, refused, promised, issued>>

Open == \E initialize \in BOOLEAN : OpenAnchor(initialize) \/ RefuseAnchor(initialize)

Anchoring == IntentSync \/ SetBinding \/ AnchorBindingSync \/ AnchorDirectorySync

Recovering == Configure \/ Advance \/ AdvanceSync \/ Finalize \/ Complete \/ CompleteSync

Raise == \E d \in Durations : Covered(d) \/ Prepare(d)

Fault == StepFails \/ CommitUncertain \/ PoisonedElsewhere \/ ProcessStops \/ PowerLoss

Next == Open \/ Anchoring \/ Recovering \/ Raise \/ Fault

Spec == Init /\ [][Next]_vars

----------------------------------------------------------------------------
\* Properties.

Labels == {"down", "intentSync", "bind", "anchorBinding", "anchorDirectory", "configure",
           "advance", "advanceSync", "finalize", "complete", "completeSync", "up"}
Refusals == {"no", "intent missing", "witness without intent", "binding missing",
             "binding differs", "evidence"}

\* The types of the records, the counters and the program position.
TypeOK ==
  /\ cache \in Anchors /\ disk \in Anchors
  /\ row \in [accepted : Evidence, prepared : Evidence]
  /\ pc \in Labels
  /\ intent \in [id : Nat, ready : BOOLEAN]
  /\ next \in Evidence /\ state \in Evidence
  /\ goal \in {"none", "fresh", "reconcile", "raise"}
  /\ poisoned \in BOOLEAN
  /\ refused \in Refusals
  /\ promised \in Nat /\ issued \in Nat

Recorded == IF row.prepared = Absent THEN row.accepted.max ELSE row.prepared.max
Serving == ~poisoned /\ (pc = "up" \/ InRaise)

\* No lease that RaiseMaxLease reported as durable exceeds what the evidence
\* stands for, and a serving process waits at least that long after a
\* restart (MaxLease): crashes, power loss and ambiguous commits included.
PromiseCovered ==
  /\ promised <= Recorded
  /\ Serving => promised <= state.max

\* Opening never meets evidence it has to refuse as contradictory: whatever
\* was interrupted, LeaseRecovery.open finds the witness equal to the accepted
\* or to the prepared record, and the identities agree.
EvidenceNeverContradicts ==
  refused \notin {"witness without intent", "binding differs", "evidence"}

\* Once READY was published for good, every later opening is accepted, with or
\* without InitializeLocks.
CompletedReopens == disk.intent.ready => refused = "no"

WitnessKept ==
  /\ disk'.witness.gen >= disk.witness.gen
  /\ disk'.witness.max >= disk.witness.max
  /\ disk.witness # Absent => disk'.witness.id = disk.witness.id

\* The documented rule that the witness is never lowered (file-locks.md): no
\* step, power loss included, takes the durable witness back to an earlier
\* generation, a smaller maximum or another identity.
WitnessNeverLowered == [][WitnessKept]_vars

Register == INSTANCE LeaseRegister WITH
  recorded <- Recorded,
  served <- IF Serving THEN {state.max} ELSE {}

\* The two-record protocol implements the register that LockAuthority relies
\* on: a promise is recorded before it is given, and what is served after any
\* crash is what was recorded.
ImplementsRegister == Register!Spec

\* What every step keeps, and why the properties hold. Records and binding:
\* a record that exists is bound to the identity of the durable intent.
Identities ==
  LET id == cache.intent.id IN
  /\ disk.intent.id \in {0, id}
  /\ cache.intent.id = 0 => ~cache.intent.ready
  /\ disk.intent.id = 0 => ~disk.intent.ready
  /\ disk.intent.ready => cache.intent.ready
  /\ disk.bound \in {0, cache.bound}
  /\ cache.intent # NoIntent => cache.bound \in {0, id}
  /\ row.accepted # Absent =>
       /\ id # 0 /\ row.accepted.id = id
       /\ disk.intent.id = id /\ disk.bound = id /\ cache.bound = id
  /\ row.accepted = Absent =>
       row.prepared = Absent /\ cache.witness = Absent /\ ~cache.intent.ready

\* The witness is the accepted record, or the prepared one while a raise is
\* under way; only before READY may it be missing.
Witnessed ==
  LET A == row.accepted
      P == row.prepared
  IN
  /\ cache.witness = Absent => disk.witness = Absent
  /\ cache.intent.ready => disk.witness # Absent
  /\ P = Absent => /\ cache.witness \in {Absent, A}
                   /\ disk.witness \in {Absent, A}
                   /\ A # Absent /\ A # Fresh(A.id) => disk.witness = A
  /\ P # Absent => /\ IsNext(A, P) /\ A.gen < MaxGeneration /\ P.max \in Durations
                   /\ cache.intent.ready /\ disk.intent.ready
                   /\ cache.witness \in {A, P} /\ disk.witness \in {A, P}
                   /\ disk.witness = P => cache.witness = P

\* What the owning process may rely on at each position.
Opened == disk.intent.id = intent.id /\ disk.bound = intent.id /\ cache.bound = intent.id
Settled ==
  /\ Opened /\ row.prepared = Absent /\ row.accepted # Absent
  /\ cache.witness = row.accepted /\ disk.witness = row.accepted
AtOpening ==
  /\ pc # "down" => /\ intent.id # 0 /\ intent.id = cache.intent.id
                    /\ refused = "no"
                    /\ intent.ready => cache.intent.ready
  /\ pc \in {"intentSync", "bind"} => ~cache.intent.ready /\ cache.bound = 0
  /\ pc \in {"anchorBinding", "anchorDirectory"} => cache.bound = intent.id
  /\ pc = "anchorDirectory" => disk.bound = intent.id
  /\ pc \in {"intentSync", "bind", "anchorBinding", "anchorDirectory", "configure"} =>
       intent.ready = cache.intent.ready
  /\ pc = "configure" => Opened /\ disk.intent = cache.intent /\ disk.witness = cache.witness
AtAdvance ==
  LET A == row.accepted
      P == row.prepared
  IN
  /\ pc \in {"advance", "advanceSync"} =>
       /\ Opened /\ A # Absent /\ goal # "none"
       /\ intent.ready => disk.intent.ready
       /\ IF goal = "fresh" THEN next = A /\ P = Absent /\ A = Fresh(intent.id) ELSE next = P /\ P # Absent
       /\ pc = "advanceSync" => cache.witness = next
  /\ pc = "finalize" =>
       /\ Opened /\ goal \in {"reconcile", "raise"}
       /\ next = P /\ P # Absent /\ cache.witness = P /\ disk.witness = P
AtServing ==
  /\ pc \in {"complete", "completeSync"} => Settled /\ state = row.accepted
  /\ pc = "completeSync" => cache.intent.ready
  /\ pc = "up" \/ InRaise => disk.intent.ready /\ intent.ready /\ Opened
  /\ pc = "up" /\ ~poisoned => Settled /\ state = row.accepted
  /\ InRaise => state = row.accepted
AtLabel == AtOpening /\ AtAdvance /\ AtServing

\* The inductive invariant of the proofs.
IInv == TypeOK /\ Identities /\ Witnessed /\ AtLabel /\ PromiseCovered
           /\ EvidenceNeverContradicts /\ (cache.intent.ready => refused = "no")
============================================================================
