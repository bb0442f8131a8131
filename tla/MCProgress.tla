----------------------------- MODULE MCProgress -----------------------------
(* Small instances for what must eventually happen.  A behaviour follows one
   component in one of its settings; the other components rest in an initial
   state, and nothing is owed to them.                                      *)
EXTENDS ReplicaGate, TLC

CONSTANTS r1, r2, r3, w1, w2, Nobody

VARIABLES part,
          authority, now, durable, native, pub, maint, promised, lockSetting,
          tree, node, row, blob, late, volume, handle, proc, sweeper, life,
          server, log, head, past, up, feed, line, sub, picture, copy, seeding, follower, store,
          caller, confirmed, course,
          db, ref, pins, claim, files, cursor, mode, faults, seen, deleteSetting

gate == <<counts, rpc, wpc, cancelled>>
locks == <<authority, now, durable, native, pub, maint, promised, lockSetting>>
content == <<tree, node, row, blob, late, volume, handle, proc, sweeper, life>>
mirror == <<server, log, head, past, up, feed, line, sub, picture, copy, seeding, follower, store,
            caller, confirmed, course>>
deletion == <<db, ref, pins, claim, files, cursor, mode, faults, seen, deleteSetting>>

-----------------------------------------------------------------------------
(* Leases.                                                                  *)

Plain == [sessionIdle |-> 2, resourceTTL |-> 1, ownerActionsPerSession |-> 2,
          actionsPerOwner |-> 1, maxActions |-> 3, maxGrants |-> 1, grantsPerOwner |-> 1,
          maxQueued |-> 2, queuedPerOwner |-> 1, queuedPerResource |-> 2, lastGeneration |-> 1,
          requests |-> {"q"}, leases |-> {1}, waits |-> {1}, offered |-> {}, horizon |-> 0,
          maxTime |-> 1, restarts |-> 0]
Enter == {"enroll", "resolve", "acquire"}
LockSettings ==
    [\* Two owners hand the file over; no session expires before the clock stops.
     handing |-> [Plain EXCEPT !.sessionIdle = 9, !.resourceTTL = 9, !.lastGeneration = 2,
                               !.offered = Enter \cup {"release"}],
     \* Persists and guards fail, and the authority is fenced or closed.
     ends |-> [Plain EXCEPT !.ownerActionsPerSession = 1,
                            !.offered = Enter \cup {"failure", "fence", "close"}],
     \* Clients fall silent.
     silence |-> [Plain EXCEPT !.sessionIdle = 1, !.ownerActionsPerSession = 1, !.horizon = 1,
                               !.maxTime = 3, !.offered = Enter \cup {"stale"}]]

L == INSTANCE LockAuthority WITH
       Sessions <- {"s"}, Owners <- {"o1", "o2"}, SessionOf <- [o \in {"o1", "o2"} |-> "s"],
       Keys <- {"k"}, Requests <- {"q"}, MaxGeneration <- 2, Settings <- LockSettings,
       None <- Nobody,
       a <- authority, files <- native, setting <- lockSetting

\* Weak fairness with ENABLED spelled out, as in FairSpec of LockAuthority.
LockFairness ==
    /\ WF_locks(part = "locks" /\ L!Tick)
    /\ ([]<>(part # "locks" \/ pub = Nobody) \/ []<>(<<part = "locks" /\ L!Publishing>>_locks))
    /\ ([]<>(part # "locks" \/ ~L!MaintainReady) \/ []<>(<<part = "locks" /\ L!Maintain>>_locks))
    /\ \A i \in L!Ids :
          []<>(part # "locks" \/ ~L!CallReady(i)) \/ []<>(<<part = "locks" /\ L!Call(i)>>_locks)
    /\ ([]<>(part # "locks" \/ ~L!WorkerReady("k")) \/ []<>(<<part = "locks" /\ L!Worker("k")>>_locks))

-----------------------------------------------------------------------------
(* One writer, and a sweeper whose deletions may fail.                      *)

Sweeping == [sweeping |->
    [names |-> {"a"}, procs |-> {"p"}, handles |-> {}, keys |-> 2, nodes |-> 1, revisions |-> 2,
     offered |-> {"write", "remove", "refused", "delete", "tick", "close"},
     faults |-> 2, pending |-> 3, allowance |-> 0, unit |-> 1]]

C == INSTANCE ContentStore WITH
       Names <- {"a"}, Procs <- {"p"}, Handles <- {}, MaxKeys <- 2, MaxNodes <- 1,
       MaxRevision <- 2, ReadAttempts <- 1, FileAttempts <- 2, Batch <- 1, Settings <- Sweeping

ContentFairness ==
    /\ WF_content(part = "content" /\ C!SweepStart)
    /\ WF_content(part = "content" /\ C!SweepForget)
    /\ \A k \in 1 .. 2 : WF_content(part = "content" /\ C!SweepDelete(k))

-----------------------------------------------------------------------------
(* A copy that follows its volume: failures end, and so do the writes.      *)

Settling == [settling |->
    [names |-> {"a"}, existing |-> {"a"}, callers |-> {"c"}, cap |-> 1, page |-> 1,
     offered |-> {"modify", "stop", "crash", "migrate"},
     positions |-> 2, logs |-> 2, faults |-> 1]]

M == INSTANCE Replication WITH
       Names <- {"a"}, Callers <- {"c"}, Floor <- 1, Buffer <- 2, MaxActive <- 1, MaxWaiting <- 1,
       MaxPosition <- 2, MaxLogs <- 2, Settings <- Settling, tree <- server, server <- up

CopyFairness ==
    /\ WF_mirror(part = "copy" /\ M!Streaming)
    /\ WF_mirror(part = "copy" /\ M!Following)
    /\ WF_mirror(part = "copy" /\ M!Exit)
    /\ WF_mirror(part = "copy" /\ M!Reopen)
    /\ WF_mirror(part = "copy" /\ M!FollowerStops)
    /\ WF_mirror(part = "copy" /\ M!Released)
    /\ \A c \in {"c", "elsewhere"} : WF_mirror(part = "copy" /\ M!Report(c))
    /\ WF_mirror(part = "copy" /\ M!Barrier("c"))
    /\ WF_mirror(part = "copy" /\ M!Calling("c") /\ ~M!Expect("c"))

-----------------------------------------------------------------------------
(* Deferred deletions over refused transactions and crashes.                *)

Deletions == [deferred |->
    [files |-> 1, intents |-> 1, generation |-> 0, faults |-> 2, nodes |-> 3, names |-> {"a"},
     uses |-> {[deletes |-> TRUE, denies |-> FALSE]}]]

D == INSTANCE DeleteIntents WITH
       Refs <- {"f"}, Intents <- {"i"}, MaxNode <- 3, MaxSequence <- 1, Settings <- Deletions,
       setting <- deleteSetting

DeletionFairness ==
    /\ WF_deletion(part = "deletion" /\ D!Close("f"))
    /\ WF_deletion(part = "deletion" /\ D!RetryPendingUnlinks)
    /\ WF_deletion(part = "deletion" /\ D!Reopen)
    /\ WF_deletion(part = "deletion" /\ D!RecoverArmed)
    /\ WF_deletion(part = "deletion" /\ mode = "fenced" /\ D!Crash)

-----------------------------------------------------------------------------
PInit ==
    /\ part \in {"gate", "locks", "content", "copy", "deletion"}
    /\ Init /\ L!Init /\ C!Init /\ M!Init /\ D!Init
    /\ part = "locks" \/ lockSetting.of = "silence"

PNext ==
    \/ part = "gate" /\ Next /\ UNCHANGED <<part, locks, content, mirror, deletion>>
    \/ part = "locks" /\ L!Next /\ UNCHANGED <<part, gate, content, mirror, deletion>>
    \/ part = "content" /\ C!Next /\ UNCHANGED <<part, gate, locks, mirror, deletion>>
    \/ part = "copy" /\ M!Next /\ UNCHANGED <<part, gate, locks, content, deletion>>
    \/ part = "deletion" /\ D!Next /\ UNCHANGED <<part, gate, locks, content, mirror>>

parts == <<part, gate, locks, content, mirror, deletion>>

GateFairness ==
    /\ \A r \in Readers : WF_gate(part = "gate" /\ ReaderSteps(r))
    /\ \A w \in Writers : WF_gate(part = "gate" /\ WriterSteps(w))

PSpec == /\ PInit /\ [][PNext]_parts
         /\ GateFairness /\ LockFairness /\ ContentFairness /\ CopyFairness /\ DeletionFairness

\* Every admitted request for a lease is decided, unless the authority stops
\* (EveryRequestDecided of LockAuthority).
EveryRequestDecided == L!EveryRequestDecided
\* Garbage is deleted and forgotten, or the store stops (GarbageSwept of
\* ContentStore).
GarbageSwept == C!GarbageSwept
\* Once failures and writes end, a mounted copy is usable and at the tail for
\* good (CatchesUp of Replication).
CatchesUp == part = "copy" => M!CatchesUp
\* Whatever was accepted for deletion is deleted (AcceptedDeleted of
\* DeleteIntents).
AcceptedDeleted == D!AcceptedDeleted
=============================================================================
