------------------------------- MODULE HttpCloses -------------------------------
(* Closing a reference and its session over packages/transport/httprest: what the
   client remembers of its attempts, the receipts and the reservations of the
   server, and the records that still answer once a session is gone.

   One step is one critical section of the client's file or session, or of the
   served session, or one call of the native session.  A read of the server
   (CloseOwnerStatus, QueryCloseAttempt) is one step; what was read may be stale
   when it is used.  Identities of closes name the epoch they were made in; the
   native session and the served session keep the same clock here.  A lost answer
   leaves its request under way.                                             *)
EXTENDS Naturals, FiniteSets, FiniteSetsExt

CONSTANTS Ids, Slots, Settings

VARIABLES f,        \* remoteFile
          cs,       \* remoteFileSession
          caller,   \* the close calls of the client: of the file, of the session
          rpc,      \* requests under way
          sf,       \* servedFile
          ss,       \* servedFileSession, or its terminalFileClose
          act,      \* servedFileAction by identity
          nat,      \* the native reference and its session
          setting

vars == <<f, cs, caller, rpc, sf, ss, act, nat, setting>>
client == <<f, cs, caller>>
server == <<sf, ss, act>>

Bounds == Settings[setting]
MaxEpoch == Bounds.epochs
MaxGeneration == 2                   \* bound: attempts of one owner
MaxCleanupActions == 4               \* two for the session, two for the file
Own == Cardinality(Ids)              \* the identity the native session gives its own attempt
MaxCloseActions == 3                 \* the least the options admit for one file

NoId == 0
NoSlot == 0
NoPrior == [action |-> NoId, gen |-> 0, kept |-> FALSE, implicit |-> FALSE]
NoAct == [of |-> "none", gen |-> 0, implicit |-> FALSE, at |-> "none", result |-> "none", barrier |-> FALSE,
          busy |-> FALSE, until |-> 0, prior |-> NoPrior, used |-> FALSE, void |-> FALSE, made |-> 0]
Idle == [at |-> "idle", id |-> NoId, gen |-> 0, implicit |-> TRUE, slot |-> NoSlot, got |-> "none", epoch |-> 0,
         new |-> FALSE, prior |-> NoPrior]
Free == [from |-> "free", of |-> "none", id |-> NoId, at |-> "none"]
Owners == {"file", "session"}

Init ==
    /\ setting \in DOMAIN Settings
    /\ f = [closed |-> FALSE, action |-> NoId, gen |-> 0, kept |-> FALSE, implicit |-> FALSE, barrier |-> FALSE,
            void |-> {}, proof |-> NoId, prior |-> NoPrior]
    /\ cs = [closed |-> FALSE, action |-> NoId, gen |-> 0, kept |-> FALSE, barrier |-> FALSE, epoch |-> 1,
             lost |-> Bounds.lost]
    /\ caller = [o \in Owners |-> Idle]
    /\ rpc = [n \in Slots |-> Free]
    /\ sf = [present |-> TRUE, action |-> NoId, gen |-> 0, kept |-> FALSE, implicit |-> FALSE, reserve |-> 2]
    /\ ss = [present |-> TRUE, retired |-> FALSE, explicit |-> FALSE, auto |-> FALSE, reconciling |-> FALSE,
             action |-> NoId, gen |-> 0, kept |-> FALSE, reserve |-> 2, actions |-> 0, reserved |-> 4,
             epoch |-> 1, terminal |-> 0, stopped |-> FALSE]
    /\ act = [i \in Ids |-> NoAct]
    /\ nat = [released |-> FALSE, next |-> 1, run |-> NoId, done |-> {}, executed |-> {},
              session |-> FALSE, faults |-> Bounds.faults]

-----------------------------------------------------------------------------
(* The native reference (FileSession): attempts have a generation; one that is
   determined ends its generation, one that is not is made again.           *)

Outcomes(i) == {"released"} \cup (IF nat.faults > 0 THEN {"kept", "unsure"} ELSE {})
Ran(i, result) ==
    [nat EXCEPT !.released = result = "released",
                !.next = IF result = "kept" THEN @ + 1 ELSE @,
                !.run = IF result = "unsure" THEN i ELSE NoId,
                !.done = IF result = "unsure" THEN @ ELSE @ \cup {<<i, nat.next, result>>},
                !.executed = @ \cup {<<i, nat.next>>},
                !.faults = IF result = "released" THEN @ ELSE @ - 1]
Completed(i, g) == {d \in nat.done : d[1] = i /\ d[2] = g}
\* CloseWithAction: each element is a result and the state it leaves.
NativeClose(i, g) ==
    IF Completed(i, g) # {} THEN {<<d[3], nat>> : d \in Completed(i, g)}
    ELSE IF nat.released \/ g # nat.next \/ nat.run \notin {NoId, i} THEN {<<"error", nat>>}
    ELSE IF nat.run = NoId /\ act[i].made # ss.epoch THEN {<<"void", nat>>}
    ELSE {<<r, Ran(i, r)>> : r \in Outcomes(i)}
\* CloseWithResult
NativeImplicit ==
    IF nat.released THEN {<<"released", nat>>}
    ELSE LET i == IF nat.run = NoId THEN Own ELSE nat.run IN {<<r, Ran(i, r)>> : r \in Outcomes(i)}
\* The close of the native session closes the reference as well.
SessionRan(result) ==
    IF result = "released"
    THEN [nat EXCEPT !.session = TRUE, !.released = TRUE, !.run = NoId,
                     !.done = IF nat.run = NoId THEN @ ELSE @ \cup {<<nat.run, nat.next, "released">>}]
    ELSE [nat EXCEPT !.faults = @ - 1]
NativeSession == IF nat.session THEN {<<"released", nat>>} ELSE {<<r, SessionRan(r)>> : r \in Outcomes(Own)}
NativePerform(i) ==
    CASE act[i].of = "session" -> NativeSession
      [] act[i].of = "file" /\ ~sf.present -> {<<"error", nat>>}
      [] act[i].of = "file" /\ act[i].implicit -> NativeImplicit
      [] OTHER -> NativeClose(i, act[i].gen)

-----------------------------------------------------------------------------
(* Requests and answers.                                                    *)

FreeSlots == {n \in Slots : rpc[n].from = "free"}
Slot == CHOOSE n \in FreeSlots : \A m \in FreeSlots : n <= m
Unmade == {i \in Ids \ {Own} : act[i].of = "none"}
NewId == CHOOSE i \in Unmade : \A j \in Unmade : i <= j
Made(i, of, gen, implicit, epoch) ==
    [act EXCEPT ![i].of = of, ![i].gen = gen, ![i].implicit = implicit, ![i].made = epoch]

Heard(r, got) == [r EXCEPT !.at = "got", !.slot = NoSlot, !.got = got, !.epoch = ss.epoch]
Answer(n, got) ==
    /\ caller' = IF rpc[n].from \in Owners THEN [caller EXCEPT ![rpc[n].from] = Heard(@, got)] ELSE caller
    /\ rpc' = [rpc EXCEPT ![n] = Free]
GiveUp(o) ==
    /\ caller[o].at = "wait" /\ cs.lost > 0
    /\ rpc' = [rpc EXCEPT ![caller[o].slot].from = "nobody"]
    /\ caller' = [caller EXCEPT ![o] = Heard(@, "unknown")]
    /\ cs' = [cs EXCEPT !.lost = @ - 1]
    /\ UNCHANGED <<f, server, nat, setting>>
Lose(n) ==
    /\ rpc[n].from = "nobody" /\ rpc[n].at = "sent"
    /\ rpc' = [rpc EXCEPT ![n] = Free]
    /\ UNCHANGED <<client, server, nat, setting>>

-----------------------------------------------------------------------------
(* The server: admission of a close (fileCall).                             *)

Determined(i) == act[i].result \in {"released", "kept"}
\* pruneCloseIDsLocked: an identity is remembered while its epoch could be asked
\* for; those of explicit closes go when the native epoch was asked for.
Stale(i, native) ==
    IF act[i].implicit THEN act[i].made + 2 <= ss.epoch ELSE native /\ act[i].made < ss.epoch
Used(native) == {i \in Ids : act[i].used /\ ~Stale(i, native)}
Pruned(native) ==
    [i \in Ids |-> IF act[i].used /\ Stale(i, native) THEN [act[i] EXCEPT !.used = FALSE, !.void = FALSE] ELSE act[i]]

Adopting(i) == nat.run = i /\ act[i].gen = nat.next
\* The verdict on an explicit close of the file; CloseOwnerStatus is asked for
\* under the lock.
ExplicitVerdict(i) ==
    IF ~sf.present \/ nat.released THEN "stale"
    ELSE IF nat.run # NoId /\ ~Adopting(i) THEN "again"
    ELSE IF nat.run = NoId /\ (ss.auto \/ ss.explicit) THEN "again"
    ELSE IF i \in Used(TRUE) /\ ~(Adopting(i) /\ ~act[i].void) THEN (IF act[i].void THEN "void" ELSE "stale")
    ELSE IF sf.action # NoId /\ ~sf.kept /\ ~(Adopting(i) /\ (sf.action = i \/ sf.implicit)) THEN "again"
    ELSE IF ~Adopting(i) /\ act[i].gen # nat.next THEN "again"
    ELSE IF ~Adopting(i) /\ act[i].made < ss.epoch THEN "void"
    ELSE IF Cardinality(Used(TRUE)) >= MaxCloseActions \/ sf.reserve = 0 THEN "again"
    ELSE "admit"
\* An implicit close of the file, and a close of the session.
NextGeneration(r, gen) == IF r.action = NoId THEN gen = 1 ELSE r.kept /\ gen = r.gen + 1
ImplicitVerdict(i, r) ==
    IF i \in Used(FALSE) \/ (act[i].of = "file" /\ ~sf.present) THEN "stale"
    ELSE IF ~NextGeneration(r, act[i].gen) \/ Cardinality(Used(FALSE)) >= MaxCloseActions THEN "again"
    ELSE IF act[i].of = "session" /\ (ss.auto \/ ss.explicit) THEN "again"
    ELSE IF act[i].made # ss.epoch THEN (IF act[i].made + 1 = ss.epoch THEN "retry" ELSE "stale")
    ELSE IF r.reserve = 0 THEN "again" ELSE "admit"
Verdict(i) ==
    IF act[i].of = "session" THEN ImplicitVerdict(i, ss)
    ELSE IF act[i].implicit THEN ImplicitVerdict(i, sf) ELSE ExplicitVerdict(i)

\* Once the handler is closed, every call fails.
ArriveStopped(n) ==
    /\ rpc[n].at = "sent" /\ ss.stopped /\ Answer(n, "stopped")
    /\ UNCHANGED <<f, cs, server, nat, setting>>
Arrives(n) == rpc[n].at = "sent" /\ ss.present /\ ~ss.stopped /\ act[rpc[n].id].at = "none"
\* A void identity keeps answering that it was not executed.
ArriveVoid(n) ==
    /\ Arrives(n) /\ act[rpc[n].id].void /\ Answer(n, "void")
    /\ UNCHANGED <<f, cs, server, nat, setting>>
Refuse(n) ==
    /\ Arrives(n) /\ ~act[rpc[n].id].void /\ Verdict(rpc[n].id) # "admit"
    /\ act' = Pruned(~act[rpc[n].id].implicit)
    /\ Answer(n, Verdict(rpc[n].id))
    /\ UNCHANGED <<f, cs, sf, ss, nat, setting>>

Prior(r) == [action |-> r.action, gen |-> r.gen, kept |-> r.kept, implicit |-> r.implicit]
Charged(r, i) == [r EXCEPT !.action = i, !.gen = act[i].gen, !.kept = FALSE, !.reserve = @ - 1]
\* The receipt takes the place of a reservation of its owner.
Register(n) ==
    LET i == rpc[n].id
        file == act[i].of = "file" IN
    /\ Arrives(n) /\ ~act[i].void /\ Verdict(i) = "admit"
    /\ act' = [Pruned(~act[i].implicit) EXCEPT ![i] = [act[i] EXCEPT !.at = "running", !.used = TRUE, !.until = ss.epoch + 2,
                                           !.prior = IF file THEN Prior(sf) ELSE NoPrior]]
    /\ sf' = IF file THEN [Charged(sf, i) EXCEPT !.implicit = act[i].implicit] ELSE sf
    /\ ss' = [(IF file THEN ss ELSE [Charged(ss, i) EXCEPT !.explicit = TRUE])
                EXCEPT !.actions = @ + 1, !.reserved = @ - 1]
    /\ rpc' = [rpc EXCEPT ![n].at = "perform"]
    /\ UNCHANGED <<client, nat, setting>>

\* performFile: the native close, then the barrier of the change log.
Barriers(result) == IF result = "released" /\ Bounds.barriers THEN BOOLEAN ELSE {FALSE}
Perform(n) ==
    LET i == rpc[n].id IN
    /\ rpc[n].at = "perform"
    /\ \E out \in NativePerform(i) : \E barrier \in Barriers(out[1]) :
         /\ nat' = out[2]
         /\ act' = [act EXCEPT ![i].result = out[1], ![i].barrier = barrier]
    /\ ss' = IF act[i].of = "session" THEN [ss EXCEPT !.retired = TRUE] ELSE ss
    /\ rpc' = [rpc EXCEPT ![n].at = "performed"]
    /\ UNCHANGED <<client, sf, setting>>

\* The attempt was not executed: its receipt goes, the reservation and what was
\* remembered of the attempt before come back.
Restored(r, prior) ==
    [r EXCEPT !.action = prior.action, !.gen = prior.gen, !.kept = prior.kept, !.implicit = prior.implicit,
              !.reserve = @ + 1]
Voided(i) == [act EXCEPT ![i].at = "none", ![i].result = "none", ![i].void = TRUE, ![i].used = TRUE]
GivenBack == [ss EXCEPT !.actions = @ - 1, !.reserved = IF sf.present THEN @ + 1 ELSE @]
RecordVoid(n) ==
    LET i == rpc[n].id IN
    /\ rpc[n].at = "performed" /\ act[i].result = "void"
    /\ act' = Voided(i) /\ ss' = GivenBack
    /\ sf' = IF sf.present THEN Restored(sf, act[i].prior) ELSE sf
    /\ Answer(n, "void")
    /\ UNCHANGED <<f, cs, nat, setting>>

Kept(r, result) == [r EXCEPT !.kept = result = "kept"]
\* What a receipt says: released, released with the barrier still to be had, ...
Says(i) == IF act[i].barrier THEN "barrier" ELSE act[i].result
Record(n) ==
    LET i == rpc[n].id
        result == act[i].result
        file == act[i].of = "file" IN
    /\ rpc[n].at = "performed" /\ result # "void"
    /\ act' = [act EXCEPT ![i].at = "done"]
    /\ sf' = IF file /\ sf.present THEN Kept(sf, result) ELSE sf
    /\ ss' = IF file THEN ss ELSE [Kept(ss, result) EXCEPT !.explicit = result = "released"]
    /\ rpc' = [rpc EXCEPT ![n].at = "publish"]
    /\ UNCHANGED <<client, nat, setting>>

-----------------------------------------------------------------------------
(* The server: a close that is asked for again.                             *)

ReplayBegin(n) ==
    LET i == rpc[n].id IN
    /\ rpc[n].at = "sent" /\ act[i].at = "done" /\ ~act[i].busy /\ ss.present /\ ~ss.stopped
    /\ act' = [act EXCEPT ![i].busy = TRUE]
    /\ rpc' = [rpc EXCEPT ![n].at = "replay"]
    /\ UNCHANGED <<client, sf, ss, nat, setting>>
\* An attempt whose outcome is not determined is made again; a barrier is asked
\* for again.
ReplayEnd(n) ==
    LET i == rpc[n].id
        file == act[i].of = "file" IN
    /\ rpc[n].at = "replay"
    /\ IF Determined(i)
       THEN /\ \E barrier \in {FALSE, act[i].barrier} : act' = [act EXCEPT ![i].busy = FALSE, ![i].barrier = barrier]
            /\ UNCHANGED <<sf, ss, nat>>
       ELSE \E out \in NativePerform(i) : \E barrier \in Barriers(out[1]) :
            /\ nat' = out[2]
            /\ act' = [act EXCEPT ![i].busy = FALSE, ![i].result = out[1], ![i].barrier = barrier,
                                  ![i].until = IF out[1] \in {"released", "kept"} THEN ss.epoch + 1 ELSE @]
            /\ sf' = IF file /\ sf.present THEN Kept(sf, out[1]) ELSE sf
            /\ ss' = IF file THEN ss ELSE Kept(ss, out[1])
    /\ rpc' = [rpc EXCEPT ![n].at = "publish"]
    /\ UNCHANGED <<client, setting>>

\* reconcileReleasedClose: the other receipts of the file learn that it is
\* released; one that is being made or made again keeps its own result.
Siblings(active) == {i \in Ids : act[i].of = "file" /\ act[i].at \in {"running", "done"}} \ {active}
Held(i) == act[i].at = "running" \/ act[i].busy
Learns(i) == act[i].implicit \/ Completed(i, act[i].gen) # {}
Learned(i) ==
    IF act[i].implicit THEN "released"
    ELSE (CHOOSE d \in Completed(i, act[i].gen) : TRUE)[3]
Reconciled(active) ==
    [i \in Ids |-> IF i \in Siblings(active) /\ ~Held(i) /\ ~Determined(i) /\ Learns(i)
                   THEN [act[i] EXCEPT !.result = Learned(i), !.barrier = Learned(i) = "released", !.until = ss.epoch + 1]
                   ELSE act[i]]
Settled(active) == \A i \in Siblings(active) : ~Held(i)
Uncertain(acts) == {i \in Ids : acts[i].of = "file" /\ acts[i].implicit /\ acts[i].at = "done"
                                /\ acts[i].result \notin {"released", "kept"}}

\* finishPublishedClose: a released file leaves the session, and its reservations
\* with it; unless a sibling is unsettled, then the session retires.
PublishFile(n) ==
    LET i == rpc[n].id IN
    /\ rpc[n].at = "publish" /\ act[i].of = "file"
    /\ IF act[i].result = "released" /\ sf.present
       THEN /\ act' = Reconciled(i)
            /\ IF Settled(i) /\ Uncertain(Reconciled(i)) = {}
               THEN /\ sf' = [sf EXCEPT !.present = FALSE, !.reserve = 0]
                    /\ ss' = [ss EXCEPT !.reserved = @ - sf.reserve]
               ELSE ss' = [ss EXCEPT !.retired = TRUE] /\ UNCHANGED sf
       ELSE UNCHANGED <<sf, ss, act>>
    /\ Answer(n, Says(i))
    /\ UNCHANGED <<f, cs, nat, setting>>

\* terminalizeSession: what is left answers for its closes for a while.
Gone(r) == [r EXCEPT !.present = FALSE, !.terminal = ss.epoch + 2, !.auto = FALSE, !.explicit = FALSE]
PublishSession(n) ==
    LET i == rpc[n].id IN
    /\ rpc[n].at = "publish" /\ act[i].of = "session"
    /\ IF act[i].result = "released" /\ ss.present
       THEN /\ act' = Reconciled(NoId)
            /\ ss' = IF Settled(NoId) THEN Gone(ss) ELSE [ss EXCEPT !.explicit = FALSE, !.reconciling = TRUE]
       ELSE UNCHANGED <<ss, act>>
    /\ Answer(n, Says(i))
    /\ UNCHANGED <<f, cs, sf, nat, setting>>

\* replayTerminalFileClose
Terminal == ~ss.present /\ ss.epoch < ss.terminal
ReplayTerminal(n) ==
    LET i == rpc[n].id IN
    /\ rpc[n].at = "sent" /\ ~ss.present /\ ~ss.stopped
    /\ IF Terminal /\ act[i].at = "done"
       THEN \E barrier \in {FALSE, act[i].barrier} :
              /\ act' = [act EXCEPT ![i].barrier = barrier]
              /\ Answer(n, IF barrier THEN "barrier" ELSE act[i].result)
       ELSE /\ ~(Terminal /\ act[i].at = "running") /\ UNCHANGED act
            \* sessionReleaseResult answers a close of the session without its receipt.
            /\ Answer(n, IF Terminal /\ act[i].of = "session" THEN "released" ELSE "stale")
    /\ UNCHANGED <<f, cs, sf, ss, nat, setting>>

-----------------------------------------------------------------------------
(* The server: the cleanup loop.                                            *)

\* The lease ends, or a close did not settle.
Retire ==
    /\ Bounds.expires /\ ss.present /\ ~ss.retired
    /\ ss' = [ss EXCEPT !.retired = TRUE]
    /\ UNCHANGED <<client, rpc, sf, act, nat, setting>>
\* Handler.Close: the registry stops and every session retires.
Stop ==
    /\ Bounds.stops /\ ~ss.stopped
    /\ ss' = [ss EXCEPT !.stopped = TRUE, !.retired = TRUE]
    /\ UNCHANGED <<client, rpc, sf, act, nat, setting>>
\* closeRetiringSession
AutoBegin ==
    /\ ss.present /\ ss.retired /\ ~ss.auto /\ ~ss.explicit
    /\ ss' = [ss EXCEPT !.auto = TRUE]
    /\ UNCHANGED <<client, rpc, sf, act, nat, setting>>
AutoEnd ==
    /\ ss.present /\ ss.auto
    /\ \E out \in (IF ss.reconciling THEN {<<"released", nat>>} ELSE NativeSession) :
         /\ nat' = out[2]
         /\ act' = IF out[1] = "released" THEN Reconciled(NoId) ELSE act
         /\ ss' = IF out[1] = "released" /\ Settled(NoId) THEN Gone(ss)
                  ELSE [ss EXCEPT !.auto = FALSE, !.reconciling = out[1] = "released"]
    /\ UNCHANGED <<client, rpc, sf, setting>>

\* Receipts leave after their history, not while their outcome is undetermined;
\* the owner gets its reservation back.
Expirable(i) == act[i].at = "done" /\ Determined(i) /\ act[i].until <= ss.epoch /\ ~act[i].busy
ExpireUnreturned(i) ==
    /\ ss.present /\ Expirable(i)
    /\ act' = [act EXCEPT ![i].at = "none"]
    /\ ss' = [ss EXCEPT !.actions = @ - 1, !.reserved = @ + 1,
                        !.reserve = IF act[i].of = "session" THEN @ + 1 ELSE @]
    /\ sf' = IF act[i].of = "file" /\ sf.present THEN [sf EXCEPT !.reserve = @ + 1] ELSE sf
    /\ UNCHANGED <<client, rpc, nat, setting>>
Expire(i) ==
    LET back == IF act[i].of = "file" THEN sf.present ELSE ss.reserve < 2 IN
    /\ ss.present /\ Expirable(i)
    /\ act' = [act EXCEPT ![i].at = "none"]
    /\ ss' = [ss EXCEPT !.actions = @ - 1, !.reserved = IF back THEN @ + 1 ELSE @,
                        !.reserve = IF back /\ act[i].of = "session" THEN @ + 1 ELSE @]
    /\ sf' = IF back /\ act[i].of = "file" THEN [sf EXCEPT !.reserve = @ + 1] ELSE sf
    /\ UNCHANGED <<client, rpc, nat, setting>>
Tick ==
    /\ ss.epoch < MaxEpoch
    /\ ss' = [ss EXCEPT !.epoch = @ + 1]
    /\ UNCHANGED <<client, rpc, sf, act, nat, setting>>

-----------------------------------------------------------------------------
(* The server: QueryAction of a close.                                      *)

Busy(i) == act[i].at = "running" \/ act[i].busy
NativeQuery(i) ==
    IF Completed(i, act[i].gen) # {} THEN "completed"
    ELSE IF nat.run = i THEN "unknown"
    ELSE IF <<i, act[i].gen>> \in nat.executed THEN "unknown" ELSE "notExecuted"
QueryAnswer(i) ==
    IF ss.stopped \/ (~ss.present /\ ~(Terminal /\ act[i].at = "done")) THEN "stale"
    ELSE IF ~ss.present THEN (IF Determined(i) THEN "completed" ELSE "unknown")
    ELSE IF act[i].at = "done" THEN (IF Determined(i) THEN "completed" ELSE NativeQuery(i))
    ELSE IF act[i].void THEN "notExecuted"
    ELSE IF ~sf.present THEN "stale" ELSE NativeQuery(i)
\* A receipt whose attempt the native session never saw is taken back.
TakesBack(i) == ss.present /\ ~ss.stopped /\ act[i].at = "done" /\ ~Determined(i) /\ ~act[i].implicit /\ NativeQuery(i) = "notExecuted"
                /\ sf.present
QueryEffect(i) ==
    IF TakesBack(i)
    THEN /\ act' = Voided(i) /\ ss' = GivenBack /\ sf' = Restored(sf, act[i].prior)
    ELSE UNCHANGED <<act, ss, sf>>

-----------------------------------------------------------------------------
(* The client: closing the file.                                            *)

Return(o) == caller' = [caller EXCEPT ![o] = Idle]
Sending(o, i, gen, implicit) ==
    /\ FreeSlots # {}
    /\ rpc' = [rpc EXCEPT ![Slot] = [from |-> o, of |-> o, id |-> i, at |-> "sent"]]
    /\ caller' = [caller EXCEPT ![o] = [@ EXCEPT !.at = "wait", !.id = i, !.gen = gen, !.implicit = implicit, !.slot = Slot]]

\* closeWithResultAndBarrier of the file: a new generation after an attempt that
\* was determined and did not release, else the same attempt again.
NextAction(r) == IF r.kept THEN NoId ELSE r.action
NextGen(r) == IF r.kept THEN r.gen + 1 ELSE IF r.gen = 0 THEN 1 ELSE r.gen
CloseFile ==
    LET i == IF NextAction(f) = NoId THEN NewId ELSE f.action
        fresh == NextAction(f) = NoId
        implicit == IF fresh THEN TRUE ELSE f.implicit IN
    /\ caller["file"].at = "idle" /\ "close" \in Bounds.calls
    /\ ~f.closed \/ f.barrier
    /\ fresh => Unmade # {} /\ NextGen(f) <= MaxGeneration
    /\ act' = IF fresh THEN Made(i, "file", NextGen(f), TRUE, cs.epoch) ELSE act
    /\ f' = [f EXCEPT !.action = i, !.gen = NextGen(f), !.kept = FALSE, !.implicit = implicit]
    /\ Sending("file", i, NextGen(f), implicit)
    /\ UNCHANGED <<cs, sf, ss, nat, setting>>

\* CloseWithAction by the layer above: it asks for the owner's status, makes an
\* identity of the native epoch, and the client asks whether it ran already.
MayAttempt ==
    /\ sf.present /\ ~nat.released /\ nat.run = NoId
    /\ sf.reserve > 0 /\ (sf.action = NoId \/ sf.kept) /\ ~ss.auto /\ ~ss.explicit
    /\ Cardinality(Used(TRUE)) < MaxCloseActions
Attempt ==
    LET i == NewId IN
    /\ caller["file"].at = "idle" /\ "attempt" \in Bounds.calls /\ ~f.closed
    /\ ss.present /\ ~ss.stopped /\ MayAttempt /\ Unmade # {} /\ nat.next <= MaxGeneration
    /\ f.action = NoId \/ f.kept \/ <<f.action, f.gen>> \in f.void
    /\ act' = Made(i, "file", nat.next, FALSE, ss.epoch)
    /\ f' = [f EXCEPT !.action = i, !.gen = nat.next, !.kept = FALSE, !.implicit = FALSE, !.proof = NoId]
    /\ FreeSlots # {}
    /\ rpc' = [rpc EXCEPT ![Slot] = [from |-> "file", of |-> "file", id |-> i, at |-> "sent"]]
    /\ caller' = [caller EXCEPT !["file"] = [Idle EXCEPT !.at = "wait", !.id = i, !.gen = nat.next, !.implicit = FALSE,
                     !.slot = Slot, !.new = TRUE, !.prior = Prior(f)]]
    /\ UNCHANGED <<cs, sf, ss, nat, setting>>
\* The native session may be at an attempt of its own, made for an implicit close:
\* the layer above takes it over.
Adopt ==
    /\ caller["file"].at = "idle" /\ "attempt" \in Bounds.calls /\ ~f.closed
    /\ f.implicit /\ f.action # NoId /\ ~f.kept
    /\ ss.present /\ ~ss.stopped /\ sf.present /\ nat.run = Own /\ act[Own].of = "none"
    /\ act' = Made(Own, "file", nat.next, FALSE, ss.epoch)
    /\ f' = [f EXCEPT !.action = Own, !.gen = nat.next, !.implicit = FALSE]
    /\ FreeSlots # {}
    /\ rpc' = [rpc EXCEPT ![Slot] = [from |-> "file", of |-> "file", id |-> Own, at |-> "sent"]]
    /\ caller' = [caller EXCEPT !["file"] = [Idle EXCEPT !.at = "wait", !.id = Own, !.gen = nat.next, !.implicit = FALSE,
                     !.slot = Slot, !.new = TRUE, !.prior = Prior(f)]]
    /\ UNCHANGED <<cs, sf, ss, nat, setting>>
\* The same attempt again.
AttemptAgain ==
    /\ caller["file"].at = "idle" /\ "attempt" \in Bounds.calls
    /\ f.action # NoId /\ ~f.implicit /\ ~f.kept /\ (~f.closed \/ f.barrier) /\ <<f.action, f.gen>> \notin f.void
    /\ f.proof = NoId
    /\ Sending("file", f.action, f.gen, FALSE)
    /\ UNCHANGED <<f, cs, server, nat, setting>>

\* What the client remembers of an answer.
Remember(r, got) ==
    CASE got \in {"released", "barrier"} -> [r EXCEPT !.closed = TRUE, !.barrier = got = "barrier"]
      [] got = "kept" /\ ~r.closed -> [r EXCEPT !.kept = TRUE]
      [] OTHER -> r
Forget(r, prior) ==
    [r EXCEPT !.action = prior.action, !.gen = prior.gen, !.kept = prior.kept, !.implicit = prior.implicit]
\* An implicit close of a past epoch did not run: a new identity.
AgainFile ==
    LET r == caller["file"] IN
    /\ r.at = "got" /\ r.got = "retry" /\ r.implicit /\ ~f.closed /\ Unmade # {}
    /\ act' = Made(NewId, "file", r.gen, TRUE, r.epoch)
    /\ f' = [f EXCEPT !.action = NewId]
    /\ Sending("file", NewId, r.gen, TRUE)
    /\ UNCHANGED <<cs, sf, ss, nat, setting>>
\* The proof that an attempt was not executed restores what was before it.
Proved(a, prior) == [Forget(f, prior) EXCEPT !.void = @ \cup {a}, !.proof = NoId]
FileGot ==
    LET r == caller["file"]
        a == <<r.id, r.gen>> IN
    /\ r.at = "got"
    /\ CASE r.got = "void" -> f' = Proved(a, IF r.new THEN r.prior ELSE Prior(f)) /\ Return("file")
         [] r.got \in {"again", "stale", "error", "stopped"} /\ r.new ->
              f' = [f EXCEPT !.proof = r.id, !.prior = r.prior] /\ caller' = [caller EXCEPT !["file"].at = "prove"]
         [] r.got = "retry" -> (f.closed \/ Unmade = {}) /\ UNCHANGED f /\ Return("file")
         [] OTHER -> f' = Remember(f, r.got) /\ Return("file")
    /\ cs' = [cs EXCEPT !.epoch = IF r.got = "unknown" \/ ~r.implicit THEN @ ELSE Max({@, r.epoch})]
    /\ UNCHANGED <<rpc, server, nat, setting>>
\* resolvePendingCloseProof: a refusal is no proof; the server is asked, at once
\* and when the same attempt is made again.
Asks == "attempt" \in Bounds.calls /\ f.proof # NoId /\ ~Busy(f.proof) /\ caller["file"].at \in {"prove", "idle"}
\* Mutant: an answer about a past epoch passes for a proof.
ProofOfStale(answer) ==
    IF answer \in {"notExecuted", "stale"} THEN Proved(<<f.proof, f.gen>>, f.prior) ELSE [f EXCEPT !.proof = NoId]
Proof(answer) ==
    IF answer = "notExecuted" THEN Proved(<<f.proof, f.gen>>, f.prior)
    ELSE IF answer = "stale" THEN f ELSE [f EXCEPT !.proof = NoId]
Prove ==
    /\ Asks
    /\ QueryEffect(f.proof)
    /\ \/ f' = Proof(QueryAnswer(f.proof)) /\ UNCHANGED cs
       \/ cs.lost > 0 /\ cs' = [cs EXCEPT !.lost = @ - 1] /\ UNCHANGED f
    /\ Return("file")
    /\ UNCHANGED <<rpc, nat, setting>>

-----------------------------------------------------------------------------
(* The client: closing the session.                                         *)

CloseSession ==
    LET fresh == NextAction(cs) = NoId
        i == IF fresh THEN NewId ELSE cs.action IN
    /\ caller["session"].at = "idle" /\ "session" \in Bounds.calls
    /\ ~cs.closed \/ cs.barrier
    /\ fresh => Unmade # {} /\ NextGen(cs) <= MaxGeneration
    /\ act' = IF fresh THEN Made(i, "session", NextGen(cs), TRUE, cs.epoch) ELSE act
    /\ cs' = [cs EXCEPT !.action = i, !.gen = NextGen(cs), !.kept = FALSE]
    /\ Sending("session", i, NextGen(cs), TRUE)
    /\ UNCHANGED <<f, sf, ss, nat, setting>>
AgainSession ==
    LET r == caller["session"] IN
    /\ r.at = "got" /\ r.got = "retry" /\ ~cs.closed /\ Unmade # {}
    /\ act' = Made(NewId, "session", r.gen, TRUE, r.epoch)
    /\ cs' = [cs EXCEPT !.action = NewId, !.epoch = r.epoch]
    /\ Sending("session", NewId, r.gen, TRUE)
    /\ UNCHANGED <<f, sf, ss, nat, setting>>
SessionGot ==
    LET r == caller["session"] IN
    /\ r.at = "got" /\ ~(r.got = "retry" /\ ~cs.closed /\ Unmade # {})
    /\ cs' = Remember(cs, r.got)
    /\ Return("session")
    /\ UNCHANGED <<f, rpc, server, nat, setting>>

-----------------------------------------------------------------------------
Closing ==
    \/ CloseFile \/ Attempt \/ AttemptAgain \/ AgainFile \/ FileGot \/ Prove \/ Adopt
    \/ CloseSession \/ AgainSession \/ SessionGot
    \/ \E o \in Owners : GiveUp(o)
Handling(n) ==
    \/ ArriveStopped(n) \/ ArriveVoid(n) \/ Refuse(n) \/ Register(n) \/ Perform(n) \/ RecordVoid(n) \/ Record(n)
    \/ ReplayBegin(n) \/ ReplayEnd(n) \/ PublishFile(n) \/ PublishSession(n) \/ ReplayTerminal(n)
Next ==
    \/ Closing
    \/ \E n \in Slots : Handling(n) \/ Lose(n)
    \/ Retire \/ Stop \/ AutoBegin \/ AutoEnd \/ Tick
    \/ \E i \in Ids : Expire(i)

\* Handlers, the cleanup loop and the native session go on.
Fairness ==
    /\ \A n \in Slots : WF_vars(Handling(n))
    /\ WF_vars(AutoBegin) /\ WF_vars(AutoEnd)

-----------------------------------------------------------------------------
(* Correctness.                                                             *)

\* Whatever was lost, repeated or reconciled: what the client holds for released is
\* released natively, so is what the server has forgotten; and the proof that an
\* attempt was not executed is true of every later time.
ReleaseTrue ==
    /\ f.closed \/ ~sf.present => nat.released
    /\ cs.closed \/ ~ss.present => nat.session
    /\ f.void \cap nat.executed = {}

\* fileCall, run, finishPublishedClose: the reservations add up, so that the close
\* of every reference and of the session finds room for its receipt.
ReserveExact ==
    ss.present =>
      /\ ss.actions = Cardinality({i \in Ids : act[i].at # "none"})
      /\ ss.reserved = ss.reserve + sf.reserve
      /\ ss.actions + ss.reserved <= MaxCleanupActions
      /\ sf.present => sf.reserve + Cardinality({i \in Ids : act[i].of = "file" /\ act[i].at # "none"}) = 2

\* closeRetiringSession, reconcileSessionFileCloses: a session that retires is
\* closed, and what answers for it is a record that ends.
RetiredGoes == ss.retired ~> ~ss.present
=============================================================================
