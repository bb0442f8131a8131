------------------------------- MODULE MCHost -------------------------------
(* Small instances of what a server keeps on its host: the lease evidence, the
   objects on a local disk, and the local store's root.  A behaviour follows one
   component in one setting; the lease evidence rests in its initial state and
   the variables of the other components stay 0.                            *)
EXTENDS LeaseRecovery, Sequences, FiniteSets, TLC

VARIABLES setting,
          inodes, objects, call, answered, mishaps,
          root, db, owner, proc, told, left

lease == <<cache, disk, row, pc, opening, poisoned, refused, promised, issued>>
objectStore == <<inodes, objects, call, answered, mishaps>>
localStore == <<root, db, owner, proc, told, left>>
host == <<setting, lease, objectStore, localStore>>

-----------------------------------------------------------------------------
(* Objects on a local disk.                                                 *)

Base == [faults |-> 0, crashes |-> 0, kills |-> 0, calls |-> 1, cancels |-> 0,
         ops |-> {"put", "delete"}, waiting |-> 2, running |-> 2, bytes |-> 2, space |-> 2,
         recovery |-> 4, closes |-> FALSE]
DiskSettings ==
    [crashing |-> [Base EXCEPT !.calls = 2, !.crashes = 2],
     failing |-> [Base EXCEPT !.calls = 2, !.faults = 2, !.crashes = 1],
     killed |-> [Base EXCEPT !.calls = 2, !.faults = 1, !.crashes = 1, !.kills = 1],
     busy |-> [Base EXCEPT !.calls = 3, !.cancels = 1, !.closes = TRUE, !.running = 1, !.bytes = 1,
                           !.space = 1, !.ops = {"put", "get", "delete", "space", "status"}]]

O == INSTANCE LocalDisk WITH
       Keys <- {1}, Callers <- {1, 2}, Inodes <- 1 .. 9, Settings <- DiskSettings,
       disk <- inodes, store <- objects, told <- answered, left <- mishaps

-----------------------------------------------------------------------------
(* The local store's root.                                                  *)

Budget(opens, faults, kills, crashes, losses) ==
    [opens |-> opens, faults |-> faults, kills |-> kills, crashes |-> crashes, losses |-> losses]
Calm == [budget |-> Budget(3, 0, 0, 0, 0), gens |-> 2, closes |-> TRUE, lose |-> {}, procs |-> {1},
         volumes |-> {1}]
Entries == {"OWNER.lock", "objects", "FORMAT", "FORMAT.stage", "LOCALSTORE.init", "init.stage",
            "metastore.sqlite", "METASTORE", "METASTORE.stage", "LOCALSTORE", "LOCALSTORE.stage"}
StoreSettings ==
    [plain |-> [Calm EXCEPT !.procs = {1, 2}, !.volumes = {1, 2}, !.gens = 4],
     kill |-> [Calm EXCEPT !.budget = Budget(3, 0, 2, 0, 0)],
     crash |-> [Calm EXCEPT !.budget = Budget(3, 0, 0, 2, 0)],
     failKill |-> [Calm EXCEPT !.budget = Budget(2, 1, 1, 0, 0)],
     failCrash |-> [Calm EXCEPT !.budget = Budget(2, 1, 0, 1, 0)],
     failures |-> [Calm EXCEPT !.budget = Budget(1, 2, 0, 0, 0)],
     late |-> [Calm EXCEPT !.budget = Budget(3, 0, 1, 1, 0), !.gens = 1, !.closes = FALSE],
     damage |-> [Calm EXCEPT !.budget = Budget(2, 0, 1, 0, 1), !.gens = 3,
                             !.lose = Entries \cup {"wal", "old", "other"}]]

R == INSTANCE LocalStore WITH Procs <- {1, 2}, Settings <- StoreSettings, disk <- root

-----------------------------------------------------------------------------
NoObjects == inodes = 0 /\ objects = 0 /\ call = 0 /\ answered = 0 /\ mishaps = 0
NoStore == root = 0 /\ db = 0 /\ owner = 0 /\ proc = 0 /\ told = 0 /\ left = 0

Leasing == setting = "lease"
Storing == setting \in DOMAIN DiskSettings
Rooting == setting \in DOMAIN StoreSettings

HostInit ==
    /\ Init
    /\ \/ setting = "lease" /\ NoObjects /\ NoStore
       \/ O!Init /\ NoStore
       \/ R!Init /\ NoObjects

HostNext ==
    \/ Leasing /\ Next /\ UNCHANGED <<setting, objectStore, localStore>>
    \/ Storing /\ O!Next /\ UNCHANGED <<lease, localStore>>
    \/ Rooting /\ R!Next /\ UNCHANGED <<lease, objectStore>>

HostSpec == HostInit /\ [][HostNext]_host

\* A local store that serves has every write it acknowledged, the identities it
\* was made with, and its own volume; an opening refuses a root only for damage or
\* for a documented state (ServesAcknowledged and RefusalExplained of LocalStore).
ServesAcknowledged == Rooting => R!ServesAcknowledged /\ R!RefusalExplained
\* Once an Open has returned, no crash or failure makes a later Open of the same
\* volume refuse the root (ReadyReopens of LocalStore).
ReadyReopens == Rooting => R!ReadyReopens
=============================================================================
