---------------------------- MODULE LocalStore ----------------------------
(***************************************************************************)
(* The local store: how localstore.Open initializes or reopens one root    *)
(* directory, how every commit and checkpoint is recorded in the METASTORE *)
(* witness, and how Close gives the root back.                             *)
(*                                                                         *)
(* disk.now is the root directory as a process sees it, disk.may the set   *)
(* of versions a power failure may leave (every version since the last     *)
(* fsync of the directory).  A file's bytes are torn, whole or synced;     *)
(* whole bytes may be torn by a power failure.  db is the SQLite database, *)
(* seen through what the code relies on: committed generations are in the  *)
(* main file or in a synced WAL.                                           *)
(***************************************************************************)
EXTENDS Naturals, FiniteSets

CONSTANTS
    Procs,     \* server processes
    Settings   \* name -> budgets of one instance

VARIABLES
    disk,      \* [now, may, ident, identMay, probe]
    db,        \* [file, id, vol, born, main, seen, log]
    owner,     \* the process whose flock holds OWNER.lock, 0 when free
    proc,      \* process -> where its Open, store and Close are
    told,      \* what callers know (acked, born), identities given out, damage done
    left,      \* budgets that remain
    setting

vars == <<disk, db, owner, proc, told, left, setting>>

Limit(f) == Settings[setting][f]

-----------------------------------------------------------------------------
(* Files and the root directory *)

Names == {"OWNER.lock", "objects", "FORMAT", "FORMAT.stage", "LOCALSTORE.init", "init.stage",
          "metastore.sqlite", "METASTORE", "METASTORE.stage", "LOCALSTORE", "LOCALSTORE.stage"}

\* A file: its bytes and the identity, volume, database and generations they record.
File(bytes, id, vol, born, acc, cp) ==
    [bytes |-> bytes, id |-> id, vol |-> vol, born |-> born, acc |-> acc, cp |-> cp]
Absent == File("absent", 0, 0, 0, 0, 0)
Empty == File("empty", 0, 0, 0, 0, 0)
TornFile == File("torn", 0, 0, 0, 0, 0)

Has(d, n) == d.now[n] # Absent
Readable(f) == f.bytes \in {"whole", "synced"}
SameFile(f, g) == [f EXCEPT !.bytes = ""] = [g EXCEPT !.bytes = ""]

\* A change of the directory, of a file's bytes, and fsync of the directory.
Entries(d, now) == [d EXCEPT !.now = now, !.may = @ \cup {now}]
SetEntry(d, n, f) == Entries(d, [d.now EXCEPT ![n] = f])
SetBytes(d, n, f) ==
    LET old == d.now[n] IN
    [d EXCEPT !.now[n] = f,
              !.may = {IF v[n] = old THEN [v EXCEPT ![n] = f] ELSE v : v \in @}]
SyncDir(d) == [d EXCEPT !.may = {d.now}]
Without(d, n) == SetEntry(d, n, Absent)
Renamed(d, a, b) == Entries(d, [d.now EXCEPT ![b] = d.now[a], ![a] = Absent])
Linked(d, a, b) == SetEntry(d, b, d.now[a])

\* What a power failure leaves of one file, and of everything.
AfterPower(f) == IF f.bytes = "whole" THEN {[f EXCEPT !.bytes = "synced"], TornFile} ELSE {f}
Survivors(d) ==
    {[n \in Names |-> IF v[n].bytes # "whole" THEN v[n]
                      ELSE IF n \in lost THEN TornFile ELSE [v[n] EXCEPT !.bytes = "synced"]] :
        v \in d.may, lost \in SUBSET {n \in Names : d.now[n].bytes = "whole"}}

-----------------------------------------------------------------------------
(* The state *)

Idle == [at |-> "idle", for |-> "", rec |-> Absent]
Down == [at |-> "down", vol |-> 0, id |-> 0, old |-> FALSE, complete |-> FALSE,
         rec |-> Absent, logged |-> FALSE, create |-> FALSE,
         pools |-> FALSE, poisoned |-> FALSE, unwind |-> FALSE,
         pub |-> Idle, work |-> "none", asked |-> FALSE]
NoDatabase == [file |-> "none", id |-> 0, vol |-> 0, born |-> 0, main |-> 0, seen |-> 0, log |-> "none"]

Init ==
    /\ setting \in DOMAIN Settings
    /\ disk = [now |-> [n \in Names |-> Absent], may |-> {[n \in Names |-> Absent]},
               ident |-> Absent, identMay |-> {Absent}, probe |-> FALSE]
    /\ db = NoDatabase
    /\ owner = 0
    /\ proc = [p \in Procs |-> Down]
    /\ told = [acked |-> 0, born |-> 0, damaged |-> FALSE, ids |-> 0, made |-> 0]
    /\ left = Limit("budget")

At(p, l) == proc[p].at = l
Go(p, l) == proc' = [proc EXCEPT ![p].at = l]
Upon(p, r, l) == proc' = [proc EXCEPT ![p] = [r EXCEPT !.at = l]]
Spend(b) == left[b] > 0 /\ left' = [left EXCEPT ![b] = @ - 1]

\* A step at l that changes the disk and goes on at m.
Step(p, l, d, m) ==
    At(p, l) /\ disk' = d /\ Go(p, m) /\ UNCHANGED <<db, owner, told, left, setting>>
\* A step at l that only looks.
Judge(p, l, r, m) ==
    At(p, l) /\ Upon(p, r, m) /\ UNCHANGED <<disk, db, owner, told, left, setting>>

-----------------------------------------------------------------------------
(* localdisk.Open: the root, its identity and the objects directory *)

\* The root is locked, without waiting, before anything is inspected.
OpenRoot(p) ==
    /\ At(p, "down") /\ p \in Limit("procs") /\ owner = 0 /\ Spend("opens")
    /\ \E v \in Limit("volumes") : proc' = [proc EXCEPT ![p] = [Down EXCEPT !.at = "inspect", !.vol = v]]
    /\ owner' = p
    /\ UNCHANGED <<disk, db, told, setting>>

Refused(p, l) == Judge(p, l, proc[p], "refused")

HasManifest == Has(disk, "FORMAT")
PartialObjects == Has(disk, "objects") => disk.ident = Absent \/ Readable(disk.ident)
Recognized ==
    /\ \A n \in Names \ {"OWNER.lock", "FORMAT.stage", "objects", "LOCALSTORE.init"} : ~Has(disk, n)
    /\ PartialObjects

InspectRoot(p) ==
    /\ At(p, "inspect")
    /\ IF ~HasManifest /\ ~Recognized THEN Refused(p, "inspect")
       ELSE Judge(p, "inspect", [proc[p] EXCEPT !.old = HasManifest],
                  IF HasManifest \/ Has(disk, "LOCALSTORE.init") THEN "lock" ELSE "intend")

\* createCompositeInitializationMarker: the empty marker, then the root's fsync.
CreateIntent(p) == Step(p, "intend", SetEntry(disk, "LOCALSTORE.init", Empty), "intended")
SyncIntent(p) == Step(p, "intended", SyncDir(disk), "lock")

OpenOwnerLock(p) ==
    \/ proc[p].old /\ ~Has(disk, "OWNER.lock") /\ Refused(p, "lock")
    \/ proc[p].old /\ Has(disk, "OWNER.lock") /\ Judge(p, "lock", proc[p], "identify")
    \/ ~proc[p].old /\ Step(p, "lock", IF Has(disk, "OWNER.lock") THEN disk
                                       ELSE SetEntry(disk, "OWNER.lock", Empty), "locked")
SyncOwnerLock(p) == Step(p, "locked", SyncDir(disk), "identify")

ReadManifest(p) ==
    /\ proc[p].old
    /\ LET f == disk.now["FORMAT"]  st == disk.now["FORMAT.stage"] IN
       IF ~Readable(f) \/ (st # Absent /\ ~SameFile(st, f)) THEN Refused(p, "identify")
       ELSE Judge(p, "identify", [proc[p] EXCEPT !.id = f.id],
                  IF st = Absent THEN "objects" ELSE "tidy")
TidyManifest(p) == Step(p, "tidy", Without(disk, "FORMAT.stage"), "tidied")
SyncTidied(p) == Step(p, "tidied", SyncDir(disk), "objects")

\* An interrupted initialization keeps the identity its objects directory recorded.
PartialID(p) ==
    /\ ~proc[p].old /\ Has(disk, "objects") /\ disk.ident # Absent
    /\ Judge(p, "identify", [proc[p] EXCEPT !.id = disk.ident.id], "objects")
NewID(p) ==
    /\ At(p, "identify") /\ ~proc[p].old /\ ~(Has(disk, "objects") /\ disk.ident # Absent)
    /\ Upon(p, [proc[p] EXCEPT !.id = told.ids + 1], "objects")
    /\ told' = [told EXCEPT !.ids = @ + 1]
    /\ UNCHANGED <<disk, db, owner, left, setting>>

OpenObjects(p) ==
    LET known == Readable(disk.ident) /\ disk.ident.id = proc[p].id IN
    /\ Has(disk, "objects")
    /\ \/ known /\ Judge(p, "objects", proc[p], "probe")
       \/ ~known /\ ~proc[p].old /\ disk.ident = Absent /\ Judge(p, "objects", proc[p], "mark")
       \/ ~known /\ (proc[p].old \/ disk.ident # Absent) /\ Refused(p, "objects")
MissingObjects(p) ==
    /\ ~Has(disk, "objects")
    /\ \/ proc[p].old /\ Refused(p, "objects")
       \/ ~proc[p].old
          /\ Step(p, "objects", [SetEntry(disk, "objects", Empty)
                                 EXCEPT !.ident = Absent, !.identMay = {Absent}, !.probe = FALSE], "made")
SyncObjects(p) == Step(p, "made", SyncDir(disk), "mark")

\* writeObjectsDirectoryMarker writes .store-identity in place, without a stage.
IdentFile(p) == File("whole", proc[p].id, 0, 0, 0, 0)
CreateIdent(p) ==
    Step(p, "mark", [disk EXCEPT !.ident = TornFile, !.identMay = @ \cup {TornFile}], "writing")
WriteIdent(p) ==
    Step(p, "writing", [disk EXCEPT !.ident = IdentFile(p), !.identMay = @ \cup {IdentFile(p)}], "syncing")
SyncIdentBytes(p) ==
    LET f == [IdentFile(p) EXCEPT !.bytes = "synced"] IN
    Step(p, "syncing", [disk EXCEPT !.ident = f, !.identMay = {Absent, f}], "naming")
SyncIdentName(p) == Step(p, "naming", [disk EXCEPT !.identMay = {disk.ident}], "probe")

\* The publication probe, what it leaves behind when it is interrupted, and its
\* cleanup, which syncs the objects directory (not the bytes of its files).
Probe(p) == Step(p, "probe", [disk EXCEPT !.probe = TRUE], "probed")
ProbeDone(p) ==
    Step(p, "probed", [disk EXCEPT !.probe = FALSE, !.identMay = {disk.ident}], IF proc[p].old THEN "complete" ELSE "format")

-----------------------------------------------------------------------------
(* Publishing FORMAT, the bound intent and LOCALSTORE *)

Manifest(p) == File("whole", proc[p].id, 0, 0, 0, 0)
Binding(p) == File("whole", proc[p].id, proc[p].vol, 0, 0, 0)

\* Create a stage, write it, sync it.
Stage(p, l, n, m) == Step(p, l, SetEntry(disk, n, TornFile), m)
Write(p, l, n, f, m) == Step(p, l, SetBytes(disk, n, f), m)
Sync(p, l, n, m) == Step(p, l, SetBytes(disk, n, [disk.now[n] EXCEPT !.bytes = "synced"]), m)
\* Remove an earlier stage first: present, then synced; absent, nothing.
Clear(p, l, n, synced, m) ==
    \/ Has(disk, n) /\ Step(p, l, Without(disk, n), synced)
    \/ ~Has(disk, n) /\ Judge(p, l, proc[p], m)
SyncRoot(p, l, m) == Step(p, l, SyncDir(disk), m)

WriteManifest(p) ==
    \/ Clear(p, "format", "FORMAT.stage", "format0", "format1")
    \/ SyncRoot(p, "format0", "format1")
    \/ Stage(p, "format1", "FORMAT.stage", "format2")
    \/ Write(p, "format2", "FORMAT.stage", Manifest(p), "format3")
    \/ Sync(p, "format3", "FORMAT.stage", "format4")
PublishManifest(p) ==
    \/ Step(p, "format4", Linked(disk, "FORMAT.stage", "FORMAT"), "format5")
    \/ SyncRoot(p, "format5", "format6")
    \/ Step(p, "format6", Without(disk, "FORMAT.stage"), "format7")
    \/ SyncRoot(p, "format7", "complete")

PublishBinding(p) ==
    \/ Stage(p, "bind1", "init.stage", "bind2")
    \/ Write(p, "bind2", "init.stage", Binding(p), "bind3")
    \/ Sync(p, "bind3", "init.stage", "bind4")
    \/ Step(p, "bind4", Renamed(disk, "init.stage", "LOCALSTORE.init"), "bind5")
    \/ SyncRoot(p, "bind5", "database")

PublishCompletion(p) ==
    \/ Clear(p, "done", "LOCALSTORE.stage", "done0", "done1")
    \/ SyncRoot(p, "done0", "done1")
    \/ Stage(p, "done1", "LOCALSTORE.stage", "done2")
    \/ Write(p, "done2", "LOCALSTORE.stage", Binding(p), "done3")
    \/ Sync(p, "done3", "LOCALSTORE.stage", "done4")
    \/ Step(p, "done4", Linked(disk, "LOCALSTORE.stage", "LOCALSTORE"), "done5")
    \/ SyncRoot(p, "done5", "done6")
    \/ Step(p, "done6", Without(disk, "LOCALSTORE.stage"), "done7")
    \/ SyncRoot(p, "done7", "forget")

-----------------------------------------------------------------------------
(* localstore.open: what the root proves *)

\* Completed: an interrupted completion stage is removed first.
ReadCompletion(p) ==
    LET f == disk.now["LOCALSTORE"] IN
    \/ At(p, "complete") /\ Clear(p, "complete", "LOCALSTORE.stage", "complete0", "complete1")
    \/ SyncRoot(p, "complete0", "complete1")
    \/ /\ At(p, "complete1")
       /\ IF f # Absent /\ ~(Readable(f) /\ f.id = proc[p].id /\ f.vol = proc[p].vol)
          THEN Refused(p, "complete1")
          ELSE Judge(p, "complete1", [proc[p] EXCEPT !.complete = f # Absent], "intent")

Intent == disk.now["LOCALSTORE.init"]
IntentMatches(p) == Readable(Intent) /\ Intent.id = proc[p].id /\ Intent.vol = proc[p].vol

\* Completion beside a fresh FORMAT, and neither completion nor intent, are refused;
\* so is a completed root with an intent that was never bound.
ReadIntent(p) ==
    /\ At(p, "intent")
    /\ LET c == proc[p].complete IN
       \/ /\ ~c /\ Has(disk, "init.stage")
          /\ Step(p, "intent", Without(disk, "init.stage"), "intent0")
       \/ /\ c \/ ~Has(disk, "init.stage")
          /\ IF \/ c /\ (~proc[p].old \/ Has(disk, "init.stage") \/ Intent = Empty)
                \/ ~c /\ Intent = Absent
                \/ Intent \notin {Absent, Empty} /\ ~IntentMatches(p)
             THEN Refused(p, "intent")
             ELSE Judge(p, "intent", proc[p], "evidence")
SyncIntentCleanup(p) == SyncRoot(p, "intent0", "intent")

\* InspectMetastore, with schemaLessMetastore telling a bootstrap from a database.
Metastore(p) ==
    CASE ~Has(disk, "metastore.sqlite") -> "missing"
      [] db.file = "empty" -> "pristine"
      [] /\ db.file = "header" /\ ~proc[p].complete /\ Intent # Empty
         /\ ~Has(disk, "METASTORE") /\ ~Has(disk, "METASTORE.stage") -> "bootstrap"
      [] OTHER -> "initialized"

WitnessMatches(p, f) == Readable(f) /\ f.id = proc[p].id /\ f.vol = proc[p].vol
\* A torn stage is tolerated beside a final witness only; a foreign one never is.
WitnessUsable(p) ==
    LET w == disk.now["METASTORE"]  st == disk.now["METASTORE.stage"] IN
    /\ w # Absent => WitnessMatches(p, w)
    /\ st # Absent => IF Readable(st)
                      THEN WitnessMatches(p, st) /\ (w # Absent => st.born = w.born)
                      ELSE w # Absent

ReadEvidence(p) ==
    /\ At(p, "evidence")
    /\ LET m == Metastore(p)  w == disk.now["METASTORE"]  c == proc[p].complete IN
       IF \/ m = "missing" /\ db.log # "none"
          \/ m = "pristine" /\ db.log # "none"
          \/ ~WitnessUsable(p)
          \/ c /\ (w = Absent \/ m # "initialized")
          \/ m # "initialized" /\ (w # Absent \/ Has(disk, "METASTORE.stage"))
          \/ ~c /\ Intent = Empty /\ m # "missing"
       THEN Refused(p, "evidence")
       ELSE Judge(p, "evidence",
                  [proc[p] EXCEPT !.rec = w, !.logged = db.log = "frames", !.create = m # "initialized"],
                  IF ~c /\ Intent = Empty THEN "bind1" ELSE "database")

\* requireBoundDatabase, or CreatePrivateMetastore and the root's fsync.
Database(p) ==
    /\ At(p, "database")
    /\ \/ /\ ~proc[p].create
          /\ IF db.file = "schema" /\ db.id = proc[p].id /\ db.vol = proc[p].vol
             THEN Judge(p, "database", proc[p], "sqlite") ELSE Refused(p, "database")
       \/ /\ proc[p].create /\ Has(disk, "metastore.sqlite")
          /\ Judge(p, "database", proc[p], "sqlite")
       \/ /\ proc[p].create /\ ~Has(disk, "metastore.sqlite")
          /\ disk' = SetEntry(disk, "metastore.sqlite", Empty)
          /\ db' = [NoDatabase EXCEPT !.file = "empty"]
          /\ Go(p, "database0") /\ UNCHANGED <<owner, told, left, setting>>
SyncDatabase(p) == SyncRoot(p, "database0", "sqlite")

-----------------------------------------------------------------------------
(* SQLite: opening, committing and the witness *)

\* The writer opens in WAL mode, which gives an empty file its header.
OpenPools(p) ==
    /\ At(p, "sqlite")
    /\ db' = [db EXCEPT !.file = IF @ = "empty" THEN "header" ELSE @,
                        !.log = IF @ = "none" THEN "empty" ELSE @]
    /\ Upon(p, [proc[p] EXCEPT !.pools = TRUE], "prepare")
    /\ UNCHANGED <<disk, owner, told, left, setting>>

\* A plausible slip: the generations are compared only for a WAL that was there.
ReconciledLoosely(rec, logged, d) ==
    rec = Absent \/ ((rec.cp < rec.acc => logged) /\ d.born = rec.born /\ (d.seen > rec.acc => logged))
\* ReconcileStartup: the database against the accepted witness.
Reconciled(rec, logged, d) ==
    \/ rec = Absent
    \/ /\ rec.cp < rec.acc => logged
       /\ d.born = rec.born /\ d.seen >= rec.acc
       /\ d.seen > rec.acc => logged

Committed(d) == [d EXCEPT !.seen = @ + 1, !.log = "frames"]
Prepared(p) ==
    IF db.file = "schema" THEN Committed(db)
    ELSE [Committed(db) EXCEPT !.file = "schema", !.id = proc[p].id, !.vol = proc[p].vol,
                               !.born = told.made + 1]

\* What Prepare refuses, before it changes anything.
Unprovable(p) ==
    \/ proc[p].rec # Absent /\ db.file # "schema"
    \/ ~Reconciled(proc[p].rec, proc[p].logged, db)
    \/ proc[p].create /\ db.file = "schema"
    \/ ~proc[p].create /\ (db.file # "schema" \/ db.vol # proc[p].vol \/ db.id # proc[p].id)
Prepare(p) ==
    /\ At(p, "prepare")
    /\ \/ Unprovable(p) /\ Refused(p, "prepare")
       \/ /\ ~Unprovable(p) /\ db' = Prepared(p)
          /\ proc' = [proc EXCEPT ![p].at = "accepting", ![p].pub =
                 [at |-> "look", for |-> "open",
                  rec |-> File("whole", proc[p].id, proc[p].vol, Prepared(p).born,
                               Prepared(p).seen, proc[p].rec.cp)]]
          /\ told' = [told EXCEPT !.made = Prepared(p).born]
          /\ UNCHANGED <<disk, owner, left, setting>>

\* A commit whose outcome SQLite could not report poisons the database.
UncertainPrepare(p) ==
    /\ At(p, "prepare") /\ ~Unprovable(p) /\ Spend("faults")
    /\ db' \in {db, Prepared(p)} /\ told' = [told EXCEPT !.made = Prepared(p).born]
    /\ Upon(p, [proc[p] EXCEPT !.poisoned = TRUE], "failed")
    /\ UNCHANGED <<disk, owner, setting>>
UncertainMutate(p) ==
    /\ At(p, "serve") /\ ~proc[p].poisoned /\ proc[p].pub = Idle /\ db.seen < Limit("gens") /\ Spend("faults")
    /\ db' \in {db, Committed(db)}
    /\ proc' = [proc EXCEPT ![p].poisoned = TRUE]
    /\ UNCHANGED <<disk, owner, told, setting>>

\* mutatePlannedTransactionLocked: commit, then the witness accepts the generation.
Mutate(p) ==
    /\ At(p, "serve") /\ ~proc[p].poisoned /\ proc[p].pub = Idle /\ db.seen < Limit("gens")
    /\ db' = Committed(db)
    /\ proc' = [proc EXCEPT ![p].pub =
           [at |-> "look", for |-> "mutate", rec |-> [proc[p].rec EXCEPT !.acc = db.seen + 1, !.bytes = "whole"]]]
    /\ UNCHANGED <<disk, owner, told, left, setting>>

PubAt(p, l) == proc[p].pub.at = l
PubStep(p, l, d, m) ==
    /\ PubAt(p, l) /\ disk' = d /\ proc' = [proc EXCEPT ![p].pub.at = m]
    /\ UNCHANGED <<db, owner, told, left, setting>>

\* metastoreWitness.publish
WitnessLook(p) ==
    \/ ~Has(disk, "METASTORE.stage") /\ PubStep(p, "look", disk, "stage")
    \/ Has(disk, "METASTORE.stage") /\ PubStep(p, "look", Without(disk, "METASTORE.stage"), "clear")
WitnessClear(p) == PubStep(p, "clear", SyncDir(disk), "stage")
WitnessStage(p) == PubStep(p, "stage", SetEntry(disk, "METASTORE.stage", TornFile), "write")
WitnessWrite(p) == PubStep(p, "write", SetBytes(disk, "METASTORE.stage", proc[p].pub.rec), "sync")
WitnessSync(p) ==
    PubStep(p, "sync", SetBytes(disk, "METASTORE.stage", [proc[p].pub.rec EXCEPT !.bytes = "synced"]), "rename")
WitnessRename(p) == PubStep(p, "rename", Renamed(disk, "METASTORE.stage", "METASTORE"), "root")

\* The caller of publish goes on: Accept for open and mutate, Checkpoint otherwise.
Published(r) ==
    LET s == [r EXCEPT !.pub = Idle, !.rec = r.pub.rec] IN
    CASE r.pub.for = "open" -> [s EXCEPT !.at = "opened", !.asked = TRUE]
      [] r.pub.for = "mutate" -> [s EXCEPT !.asked = TRUE]
      [] r.pub.for = "check" -> [s EXCEPT !.work = "idle"]
      [] r.pub.for = "close" -> [s EXCEPT !.at = "closed"]
Unpublished(r) ==
    LET s == [r EXCEPT !.pub = Idle] IN
    CASE r.pub.for = "open" -> [s EXCEPT !.at = "failed", !.poisoned = TRUE]
      [] r.pub.for = "mutate" -> [s EXCEPT !.poisoned = TRUE]
      [] r.pub.for = "check" -> [s EXCEPT !.work = "wait"]
      [] r.pub.for = "close" -> s

WitnessRoot(p) ==
    /\ PubAt(p, "root") /\ disk' = SyncDir(disk)
    /\ proc' = [proc EXCEPT ![p] = Published(@)]
    /\ told' = [told EXCEPT !.acked = IF proc[p].pub.for = "mutate" THEN proc[p].pub.rec.acc ELSE @]
    /\ UNCHANGED <<db, owner, left, setting>>
\* A failed step; a stage that was being written or renamed is removed again.
WitnessFails(p) ==
    /\ proc[p].pub # Idle /\ Spend("faults")
    /\ proc' = [proc EXCEPT ![p] = Unpublished(@)]
    /\ IF proc[p].pub.at \in {"write", "sync", "rename"}
       THEN disk' \in {Without(disk, "METASTORE.stage"), SyncDir(Without(disk, "METASTORE.stage"))}
       ELSE disk' = disk
    /\ UNCHANGED <<db, owner, told, setting>>

-----------------------------------------------------------------------------
(* The checkpoint worker *)

WorkBegins(p) ==
    /\ proc[p].work = "idle" /\ proc[p].asked
    /\ proc' = [proc EXCEPT ![p].work = "run", ![p].asked = FALSE]
    /\ UNCHANGED <<disk, db, owner, told, left, setting>>

\* checkpointLocked with the commit gate held: everything copied, or a pinned WAL.
Checkpointed(p, for, settled) ==
    /\ db' = [db EXCEPT !.main = db.seen]
    /\ proc' = [proc EXCEPT ![p] =
           IF @.rec.cp = @.rec.acc THEN settled
           ELSE [@ EXCEPT !.pub = [at |-> "look", for |-> for,
                                   rec |-> [proc[p].rec EXCEPT !.cp = proc[p].rec.acc, !.bytes = "whole"]]]]
    /\ UNCHANGED <<disk, owner, told, left, setting>>
WorkCheckpoint(p) ==
    /\ proc[p].work = "run" /\ proc[p].pub = Idle /\ ~proc[p].poisoned
    /\ Checkpointed(p, "check", [proc[p] EXCEPT !.work = "idle"])
WorkPinned(p) ==
    /\ proc[p].work = "run" /\ proc[p].pub = Idle
    /\ IF proc[p].poisoned THEN UNCHANGED left ELSE Spend("faults")
    /\ proc' = [proc EXCEPT ![p].work = "wait"]
    /\ UNCHANGED <<disk, db, owner, told, setting>>
\* Signals that arrive during the retry interval are consumed without effect.
WorkWaits(p) ==
    /\ proc[p].work = "wait" /\ proc[p].asked
    /\ proc' = [proc EXCEPT ![p].asked = FALSE]
    /\ UNCHANGED <<disk, db, owner, told, left, setting>>
WorkRetries(p) ==
    /\ proc[p].work = "wait"
    /\ proc' = [proc EXCEPT ![p].work = "run"]
    /\ UNCHANGED <<disk, db, owner, told, left, setting>>

-----------------------------------------------------------------------------
(* Returning from Open, and Close *)

\* newDurableMetastore starts the worker; the root and the database are checked again.
Opened(p) ==
    Judge(p, "opened", [proc[p] EXCEPT !.work = "idle", !.asked = TRUE],
          IF proc[p].complete THEN "forget" ELSE "done")

RemoveIntent(p) ==
    \/ Clear(p, "forget", "init.stage", "forget0", "forget1")
    \/ SyncRoot(p, "forget0", "forget1")
    \/ Clear(p, "forget1", "LOCALSTORE.init", "forget2", "return")
    \/ SyncRoot(p, "forget2", "return")
Return(p) ==
    /\ At(p, "return") /\ Go(p, "serve")
    /\ told' = [told EXCEPT !.acked = IF proc[p].rec.acc > @ THEN proc[p].rec.acc ELSE @,
                            !.born = IF @ = 0 THEN db.born ELSE @]
    /\ UNCHANGED <<disk, db, owner, left, setting>>

CloseBegins(p) == At(p, "serve") /\ Limit("closes") /\ proc[p].pub.for \notin {"mutate"} /\ Go(p, "closing")
                  /\ UNCHANGED <<disk, db, owner, told, left, setting>>
\* durableMetastore.Close cancels the worker and waits for it.
StopWorker(p) ==
    /\ At(p, "closing") /\ proc[p].work \in {"idle", "wait", "run"} /\ proc[p].pub = Idle
    /\ proc' = [proc EXCEPT ![p].work = "gone"]
    /\ UNCHANGED <<disk, db, owner, told, left, setting>>

\* CloseContext: a poisoned database is not closed; a full checkpoint comes first.
Closing(p) == At(p, "closing") /\ proc[p].work = "gone" /\ proc[p].pub = Idle
\* A plausible slip: the checkpoint before close is not recorded in the witness.
CloseUnwitnessed(p) ==
    /\ Closing(p) /\ ~proc[p].poisoned
    /\ db' = [db EXCEPT !.main = db.seen] /\ Go(p, "closed")
    /\ UNCHANGED <<disk, owner, told, left, setting>>
CloseCheckpoint(p) ==
    /\ Closing(p) /\ ~proc[p].poisoned
    /\ Checkpointed(p, "close", [proc[p] EXCEPT !.at = "closed"])

\* The root is given back: object store, owner lock and flock.
Release(p) == proc' = [proc EXCEPT ![p] = Down] /\ owner' = 0
\* The last handle closes without the persistent WAL: SQLite deletes the WAL.
CloseWriter(p) ==
    /\ At(p, "closed") /\ Release(p)
    /\ db' = [db EXCEPT !.log = "none"]
    /\ UNCHANGED <<disk, told, left, setting>>
\* A handle that may still be open keeps the root owned until the process ends.
CloseSticks(p) ==
    /\ At(p, "closed") \/ Closing(p) \/ (proc[p].at \in {"failed", "refused"} /\ proc[p].pools)
    /\ Spend("faults") /\ Go(p, "stuck")
    /\ UNCHANGED <<disk, db, owner, told, setting>>

\* cleanupDurableOpen: what cannot be closed gracefully is aborted, keeping the WAL.
Abort(p) ==
    /\ Closing(p) /\ proc[p].unwind /\ Spend("faults")
    /\ Release(p) /\ db' \in {db, [db EXCEPT !.main = db.seen]}
    /\ UNCHANGED <<disk, told, setting>>

\* An Open that failed before the store exists: pools first, then the root.
GiveUp(p) ==
    /\ At(p, "failed") \/ At(p, "refused")
    /\ proc[p].work = "none" /\ Release(p)
    /\ db' \in {db, [db EXCEPT !.main = IF proc[p].pools THEN db.seen ELSE @]}
    /\ UNCHANGED <<disk, told, left, setting>>

\* One of Open's own steps fails; what it had staged is removed again.
Staged(l) ==
    CASE l \in {"format2", "format3", "format4", "format5", "format6"} -> "FORMAT.stage"
      [] l \in {"bind2", "bind3"} -> "init.stage"
      [] l \in {"done2", "done3"} -> "LOCALSTORE.stage"
      [] l = "intended" -> "LOCALSTORE.init"
      [] OTHER -> ""
Plain == {"intend", "lock", "locked", "tidied", "made", "mark", "probed", "format", "format0", "format1",
          "format7", "complete0", "intent0", "bind1", "bind4", "bind5", "database0", "sqlite"}
Late == {"done", "done0", "done1", "done4", "done5", "done6", "done7", "forget", "forget0", "forget1", "forget2"}
OpenFails(p) ==
    LET l == proc[p].at  n == Staged(l) IN
    /\ l \in Plain \cup Late \cup {"writing", "syncing", "naming"} \/ n # ""
    /\ Spend("faults")
    /\ IF l \in Late \cup {"done2", "done3"}
       THEN Upon(p, [proc[p] EXCEPT !.unwind = TRUE], "closing") ELSE Go(p, "failed")
    /\ disk' \in IF n # "" THEN {Without(disk, n), SyncDir(Without(disk, n))}
                 ELSE IF l \in {"writing", "syncing", "naming"}
                 THEN {[disk EXCEPT !.ident = Absent, !.identMay = @ \cup {Absent}],
                       [disk EXCEPT !.ident = Absent, !.identMay = {Absent}]}
                 ELSE {disk}
    /\ UNCHANGED <<db, owner, told, setting>>

-----------------------------------------------------------------------------
(* Kills, power failures and damage *)

Kill(p) ==
    /\ ~At(p, "down") /\ Spend("kills") /\ Release(p)
    /\ UNCHANGED <<disk, db, told, setting>>

PowerFailure ==
    /\ Spend("crashes")
    /\ proc' = [p \in Procs |-> Down] /\ owner' = 0
    /\ \E v \in Survivors(disk), i \in UNION {AfterPower(f) : f \in disk.identMay} :
          /\ disk' = [disk EXCEPT !.now = v, !.may = {v}, !.ident = i, !.identMay = {i}]
          /\ db' = IF v["metastore.sqlite"] = Absent THEN NoDatabase ELSE db
    /\ UNCHANGED <<told, setting>>

\* While no process runs, a file is lost or damaged, or the database is set back to an
\* older copy or replaced by another store's.
Lose ==
    /\ owner = 0 /\ Spend("losses")
    /\ told' = [told EXCEPT !.damaged = TRUE]
    /\ \/ \E n \in Limit("lose") \cap {m \in Names : Has(disk, m)} :
             \/ /\ disk' = SyncDir(Without(disk, n))
                /\ db' = IF n = "metastore.sqlite" THEN [NoDatabase EXCEPT !.log = db.log] ELSE db
             \/ /\ n \notin {"OWNER.lock", "objects", "metastore.sqlite"} /\ db' = db
                /\ disk' = SyncDir(SetBytes(disk, n, TornFile))
       \/ /\ "wal" \in Limit("lose") /\ db.log # "none" /\ db' = [db EXCEPT !.log = "none", !.seen = db.main]
          /\ disk' = disk
       \/ /\ "old" \in Limit("lose") /\ disk' = disk
          /\ \E g \in 1..db.main : db' = [db EXCEPT !.main = g, !.seen = g, !.log = "none"]
       \/ "other" \in Limit("lose") /\ disk' = disk /\ db' = [db EXCEPT !.id = 0]
    /\ UNCHANGED <<owner, proc, setting>>

-----------------------------------------------------------------------------

LocalDiskOpen(p) ==
    \/ OpenRoot(p) \/ InspectRoot(p) \/ CreateIntent(p) \/ SyncIntent(p)
    \/ OpenOwnerLock(p) \/ SyncOwnerLock(p) \/ ReadManifest(p) \/ TidyManifest(p) \/ SyncTidied(p)
    \/ PartialID(p) \/ NewID(p) \/ OpenObjects(p) \/ MissingObjects(p) \/ SyncObjects(p)
    \/ CreateIdent(p) \/ WriteIdent(p) \/ SyncIdentBytes(p) \/ SyncIdentName(p)
    \/ Probe(p) \/ ProbeDone(p) \/ WriteManifest(p) \/ PublishManifest(p)
LocalStoreOpen(p) ==
    \/ ReadCompletion(p) \/ ReadIntent(p) \/ SyncIntentCleanup(p) \/ ReadEvidence(p)
    \/ PublishBinding(p) \/ Database(p) \/ SyncDatabase(p) \/ OpenPools(p) \/ Prepare(p)
    \/ Opened(p) \/ PublishCompletion(p) \/ RemoveIntent(p) \/ Return(p)
Publishing(p) ==
    \/ WitnessLook(p) \/ WitnessClear(p) \/ WitnessStage(p) \/ WitnessWrite(p) \/ WitnessSync(p)
    \/ WitnessRename(p) \/ WitnessRoot(p)
Working(p) == WorkBegins(p) \/ WorkCheckpoint(p) \/ WorkWaits(p) \/ WorkRetries(p)
ClosingStore(p) == StopWorker(p) \/ CloseCheckpoint(p) \/ CloseWriter(p) \/ GiveUp(p)
Failing(p) ==
    \/ UncertainPrepare(p) \/ UncertainMutate(p) \/ WitnessFails(p) \/ WorkPinned(p)
    \/ CloseSticks(p) \/ Abort(p) \/ OpenFails(p) \/ Kill(p)

Next ==
    \/ \E p \in Procs : \/ LocalDiskOpen(p) \/ LocalStoreOpen(p) \/ Publishing(p) \/ Working(p)
                        \/ ClosingStore(p) \/ Failing(p) \/ Mutate(p) \/ CloseBegins(p)
    \/ PowerFailure
    \/ Lose

Spec == Init /\ [][Next]_vars

-----------------------------------------------------------------------------
(* What must hold *)

\* A store that serves shows every acknowledged generation of the volume first opened,
\* whatever was lost or set back while no process ran (Open refuses instead).
ServesAcknowledged ==
    \A p \in Procs : At(p, "serve") => db.born = told.born /\ db.seen >= told.acked

\* Without damage Open refuses a root only for a .store-identity or a first witness
\* stage that was torn by a crash, or for a volume the root is not bound to.
RefusalExplained ==
    \A p \in Procs : At(p, "refused") =>
        \/ told.damaged
        \/ disk.ident = TornFile
        \/ disk.now["METASTORE.stage"] = TornFile /\ ~Has(disk, "METASTORE")
        \/ \E n \in Names : disk.now[n].vol \notin {0, proc[p].vol}

\* After an Open has returned, no crash, kill or failed step makes a later Open of the
\* same volume refuse the root ("the object format, the bound database, the witness and
\* this marker are all durable" before the root is READY).
ReadyReopens ==
    \A p \in Procs : At(p, "refused") /\ told.born # 0 /\ ~told.damaged =>
        \E n \in Names : disk.now[n].vol \notin {0, proc[p].vol}

\* Every generation a serving store accepted is checkpointed, unless it is poisoned or stops.
FairSpec == Spec /\ \A p \in Procs : WF_vars(Publishing(p)) /\ WF_vars(Working(p))
CheckpointCatchesUp ==
    \A p \in Procs : (At(p, "serve") /\ proc[p].rec.cp < proc[p].rec.acc)
        ~> (~At(p, "serve") \/ proc[p].poisoned \/ proc[p].rec.cp = proc[p].rec.acc)

=============================================================================
