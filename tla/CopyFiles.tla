----------------------------- MODULE CopyFiles -----------------------------
(***************************************************************************)
(* File sessions over a local copy (packages/storage/replicated): opening  *)
(* sessions and references of the remote volume, calls through them, and   *)
(* closing both so that a settled close is one the copy already shows.     *)
(*                                                                         *)
(* The remote client with its server is external here (HttpCloses): a      *)
(* reference has generations of close attempts, an attempt has the epoch   *)
(* it was made in, and an answer may be lost. A position of the change log *)
(* stands for a barrier. One step is one critical section or one remote    *)
(* call; the lock of a reference is held across the queries it makes.      *)
(***************************************************************************)
EXTENDS Naturals, Sequences, FiniteSets

CONSTANTS
    Callers,     \* goroutines of the layer above, numbered from 1
    Refs,        \* references, numbered from 1
    Sess,        \* file sessions, numbered from 1
    Ids,         \* identities of close attempts, numbered from 1
    Settings     \* name -> what the callers may do, and the bounds

VARIABLES
    base,        \* Storage: closing, failure, and the copy's position
    se,          \* fileSession, or failedOpenSession
    rf,          \* nodeReference and retainedFile with their retainedClose
    au,          \* the authority: sessions, references, attempts, epoch, log
    ca,          \* the callers
    left, setting

vars == <<base, se, rf, au, ca, left, setting>>

S == Settings[setting]
Spend(kind) == left[kind] > 0 /\ left' = [left EXCEPT ![kind] = @ - 1]

Idle == [pc |-> "idle", back |-> "told", own |-> "none", kind |-> "none", r |-> 0, s |-> 0, i |-> 0, req |-> FALSE,
         fresh |-> FALSE, adopt |-> FALSE, prior |-> {}, ans |-> "none", ep |-> 0, told |-> "none", tomb |-> 0,
         then |-> "none", todo |-> {}]
NoSession == [st |-> "none", closing |-> FALSE, closed |-> FALSE, res |-> "none", bar |-> 0, run |-> 0,
              active |-> {}, reserved |-> 0, tombs |-> <<>>]
NoRef == [st |-> "none", s |-> 0, closed |-> FALSE, byParent |-> FALSE, res |-> "none", bar |-> 0, run |-> 0,
          mu |-> 0, att |-> 0, reserved |-> FALSE, epoch |-> 0, unstored |-> FALSE, implicit |-> FALSE,
          succ |-> FALSE, rej |-> {}]
Here(s) == [NoSession EXCEPT !.st = "here"]

Init ==
    /\ setting \in DOMAIN Settings
    /\ base = [closing |-> FALSE, failed |-> FALSE, at |-> 0, opening |-> 0, closer |-> 0]
    /\ se = [s \in Sess |-> IF s \in S.sessions THEN Here(s) ELSE NoSession]
    /\ rf = [r \in Refs |-> IF r \in S.refs THEN [NoRef EXCEPT !.st = "here", !.s = 1] ELSE NoRef]
    /\ au = [ses |-> [s \in Sess |-> IF s \in S.sessions THEN "live" ELSE "none"],
             ref |-> [r \in Refs |-> [live |-> r \in S.refs, rel |-> FALSE, run |-> 0, next |-> 1, bar |-> 0]],
             att |-> [i \in Ids |-> [r |-> 0, gen |-> 0, ep |-> 0, st |-> "none"]],
             sbar |-> [s \in Sess |-> 0], epoch |-> 1, log |-> 0]
    /\ ca = [p \in Callers |-> Idle]
    /\ left = S.budget

-----------------------------------------------------------------------------
(* The authority, and what the remote client answers.                      *)

Gen(i) == IF i = 0 THEN 0 ELSE au.att[i].gen
Ep(i) == au.att[i].ep
Retired(i) == au.att[i].ep + 2 <= au.epoch
Unmade == {i \in Ids : au.att[i].st = "none"}
NewId == CHOOSE i \in Unmade : \A j \in Unmade : i <= j

\* QueryCloseAttempt
Query(i) ==
    CASE Retired(i) -> "retired"
      [] au.att[i].st \in {"made", "void"} -> "not"
      [] au.att[i].st = "run" -> "unknown"
      [] OTHER -> "completed"

Freed(a, r, i) ==
    [a EXCEPT !.log = @ + 1, !.ref[r].rel = TRUE, !.ref[r].run = 0, !.ref[r].bar = a.log + 1,
              !.att = IF i = 0 THEN @ ELSE [@ EXCEPT ![i].st = "rel"]]
KeptBy(a, r, i) ==
    [a EXCEPT !.ref[r].next = @ + 1, !.ref[r].run = 0, !.att = IF i = 0 THEN @ ELSE [@ EXCEPT ![i].st = "kept"]]
Unsure(a, r, i) == [a EXCEPT !.ref[r].run = i, !.att[i].st = "run"]
\* A release is answered with its barrier, or before the barrier could be had,
\* or with an error that settlement below is outstanding.
ReleaseAnswers == {"rel"} \cup (IF left.barrier > 0 THEN {"relp", "relu"} ELSE {})

\* One execution of an attempt.
Executes(r, i, ans) ==
    \/ ans \in ReleaseAnswers /\ au' = Freed(au, r, i)
       /\ left' = [left EXCEPT !.barrier = IF ans = "rel" THEN @ ELSE @ - 1]
    \/ ans = "kept" /\ au.ref[r].next < S.gens /\ Spend("fault") /\ au' = KeptBy(au, r, i)
    \/ ans = "unsure" /\ i # 0 /\ Spend("fault") /\ au' = Unsure(au, r, i)

Recorded(i) == au.att[i].st \in {"rel", "kept"}
Replays(i, ans) ==
    IF au.att[i].st = "rel" /\ ~Retired(i)
    THEN /\ ans \in ReleaseAnswers
         /\ left' = [left EXCEPT !.barrier = IF ans = "rel" THEN @ ELSE @ - 1]
    ELSE ans = (IF Retired(i) THEN "stale" ELSE "kept") /\ UNCHANGED left

\* The request is lost, or its answer.
Undelivered(r, i) ==
    \/ UNCHANGED au
    \/ /\ ~au.ref[r].rel
       /\ i # 0 => au.ref[r].run \in {0, i} /\ Gen(i) = au.ref[r].next /\ Ep(i) = au.epoch /\ ~Recorded(i)
       /\ \/ au' = Freed(au, r, IF i = 0 THEN au.ref[r].run ELSE i)
          \/ au.ref[r].next < S.gens /\ au' = KeptBy(au, r, IF i = 0 THEN au.ref[r].run ELSE i)

\* CloseWithActionAndBarrier (external): a recorded attempt is answered from its
\* record, one of a past epoch that never ran is void.
CloseAction(r, i, ans) ==
    LET o == au.ref[r]  a == au.att[i]
    IN  \/ ans = "lost" /\ Spend("lost") /\ Undelivered(r, i)
        \/ ans = "inval" /\ a.st = "made" /\ Spend("reject") /\ Undelivered(r, i)
        \/ Recorded(i) /\ Replays(i, ans) /\ UNCHANGED au
        \/ a.st = "void" /\ ans = (IF Retired(i) THEN "stale" ELSE "void") /\ UNCHANGED <<au, left>>
        \/ a.st = "made" /\ Retired(i) /\ ans = "stale" /\ UNCHANGED <<au, left>>
        \/ /\ a.st = "run" \/ (a.st = "made" /\ ~Retired(i))
           /\ \/ o.rel /\ ans = "stale" /\ UNCHANGED <<au, left>>
              \/ ~o.rel /\ o.run \notin {0, i} /\ ans = "busy" /\ UNCHANGED <<au, left>>
              \/ ~o.rel /\ o.run = 0 /\ a.gen # o.next /\ ans = "inval" /\ UNCHANGED <<au, left>>
              \/ /\ ~o.rel /\ o.run = 0 /\ a.gen = o.next /\ a.ep < au.epoch
                 /\ ans = "void" /\ au' = [au EXCEPT !.att[i].st = "void"] /\ UNCHANGED left
              \/ /\ ~o.rel /\ (o.run = i \/ (o.run = 0 /\ a.gen = o.next /\ a.ep = au.epoch))
                 /\ Executes(r, i, ans)

\* CloseWithBarrier (external): the server's own attempt, made when one is not
\* under way already.
Owned(a, r) == [a EXCEPT !.att[NewId] = [r |-> r, gen |-> a.ref[r].next, ep |-> a.epoch, st |-> "run"],
                         !.ref[r].run = NewId]
CloseImplicit(r, ans) ==
    LET o == au.ref[r]
    IN  \/ ans = "lost" /\ Spend("lost") /\ Undelivered(r, 0)
        \/ o.rel /\ ans \in ReleaseAnswers /\ UNCHANGED au
           /\ left' = [left EXCEPT !.barrier = IF ans = "rel" THEN @ ELSE @ - 1]
        \/ ~o.rel /\ Executes(r, o.run, ans)
        \/ ~o.rel /\ o.run = 0 /\ Unmade # {} /\ ans = "unsure" /\ Spend("fault") /\ au' = Owned(au, r)

\* The close of a session releases its references (external).
SessionFreed(a, s) ==
    LET open == {r \in Refs : rf[r].s = s /\ a.ref[r].live /\ ~a.ref[r].rel}
    IN  [a EXCEPT !.log = @ + 1, !.ses[s] = "rel", !.sbar[s] = a.log + 1,
                  !.ref = [r \in Refs |-> IF r \in open
                                          THEN [@[r] EXCEPT !.rel = TRUE, !.run = 0, !.bar = a.log + 1] ELSE @[r]],
                  !.att = [i \in Ids |-> IF @[i].st = "run" /\ @[i].r \in open THEN [@[i] EXCEPT !.st = "rel"] ELSE @[i]]]
CloseRemote(s, ans) ==
    \/ ans = "lost" /\ Spend("lost") /\ (UNCHANGED au \/ (au.ses[s] = "live" /\ au' = SessionFreed(au, s)))
    \/ ans = "kept" /\ au.ses[s] = "live" /\ Spend("fault") /\ UNCHANGED au
    \/ /\ ans \in ReleaseAnswers
       /\ left' = [left EXCEPT !.barrier = IF ans = "rel" THEN @ ELSE @ - 1]
       /\ au' = IF au.ses[s] = "live" THEN SessionFreed(au, s) ELSE au

Tick ==
    /\ au.epoch < S.epochs
    /\ au' = [au EXCEPT !.epoch = @ + 1]
    /\ UNCHANGED <<base, se, rf, ca, left, setting>>

-----------------------------------------------------------------------------
(* The copy follows the log; after a failure it is usable again only once it *)
(* has caught up (Replication).                                            *)

usable == ~base.failed /\ ~base.closing
Applies ==
    /\ ~base.failed /\ ~base.closing /\ base.at < au.log
    /\ base' = [base EXCEPT !.at = @ + 1]
    /\ UNCHANGED <<se, rf, au, ca, left, setting>>
StreamFails ==
    /\ ~base.failed /\ Spend("stream")
    /\ base' = [base EXCEPT !.failed = TRUE]
    /\ UNCHANGED <<se, rf, au, ca, setting>>
StreamResumes ==
    /\ base.failed /\ ~base.closing
    /\ base' = [base EXCEPT !.failed = FALSE, !.at = au.log]
    /\ UNCHANGED <<se, rf, au, ca, left, setting>>

Go(p, pc) == ca' = [ca EXCEPT ![p].pc = pc]
Told(p, what) == [ca[p] EXCEPT !.pc = ca[p].back, !.told = what]
Return(p, what) == ca' = [ca EXCEPT ![p] = Told(p, what)]
Forgets(p) ==
    /\ ca[p].pc = "told"
    /\ ca' = [ca EXCEPT ![p] = Idle]
    /\ UNCHANGED <<base, se, rf, au, left, setting>>

-----------------------------------------------------------------------------
(* Admission of close attempts, and the attempts known not to have run.    *)

ReleasedBy(s) == se[s].closed /\ se[s].res = "rel"
hasCloseTombstone(s, r, i) == \E k \in DOMAIN se[s].tombs : se[s].tombs[k] = <<r, i>>
reserveCloseAttempt(s) == [se EXCEPT ![s].reserved = @ + 1]
CanReserve(s) == S.closes > 0 /\ se[s].reserved < S.closes
releaseCloseAttempt(f, s, r) == IF rf[r].reserved THEN [f EXCEPT ![s].reserved = @ - 1] ELSE f

\* The caller holds the reference's lock while it asks for room.
Tombs(p, i, then) == ca' = [ca EXCEPT ![p].pc = "tomb", ![p].tomb = i, ![p].then = then]
Tombed(p, ok) == ca' = [ca EXCEPT ![p].pc = ca[p].then, ![p].ans = IF ok THEN @ ELSE "full"]
addCloseTombstone(f, s, r, i) == [f EXCEPT ![s].tombs = Append(@, <<r, i>>)]
reserveCloseTombstone(p) ==
    LET r == ca[p].r  s == rf[r].s  i == ca[p].tomb
    IN  /\ ca[p].pc = "tomb"
        /\ \/ /\ se[s].closed \/ hasCloseTombstone(s, r, i)
              /\ Tombed(p, ~se[s].closed) /\ UNCHANGED se
           \/ /\ ~se[s].closed /\ ~hasCloseTombstone(s, r, i) /\ Len(se[s].tombs) < S.closes
              /\ se' = addCloseTombstone(se, s, r, i) /\ Tombed(p, TRUE)
           \/ /\ ~se[s].closed /\ ~hasCloseTombstone(s, r, i) /\ Len(se[s].tombs) >= S.closes
              /\ Go(p, "evict") /\ UNCHANGED se
        /\ UNCHANGED <<base, rf, au, left, setting>>
\* The oldest that the authority has retired makes room.
OlderTomb(ts, k, l) == Ep(ts[k][2]) < Ep(ts[l][2]) \/ (Ep(ts[k][2]) = Ep(ts[l][2]) /\ k <= l)
Evicted(ts) ==
    LET gone == {k \in DOMAIN ts : Query(ts[k][2]) = "retired"}
        first == CHOOSE k \in gone : \A l \in gone : OlderTomb(ts, k, l)
    IN  IF gone = {} THEN ts ELSE SubSeq(ts, 1, first - 1) \o SubSeq(ts, first + 1, Len(ts))
EvictTombstone(p) ==
    LET s == rf[ca[p].r].s
    IN  /\ ca[p].pc = "evict"
        /\ \/ se' = [se EXCEPT ![s].tombs = Evicted(@)] /\ UNCHANGED left
           \/ Spend("lost") /\ UNCHANGED se
        /\ Go(p, "add")
        /\ UNCHANGED <<base, rf, au, setting>>
AddTombstone(p) ==
    LET r == ca[p].r  s == rf[r].s  i == ca[p].tomb
        full == Len(se[s].tombs) >= S.closes
    IN  /\ ca[p].pc = "add"
        /\ se' = IF se[s].closed \/ hasCloseTombstone(s, r, i) \/ full THEN se ELSE addCloseTombstone(se, s, r, i)
        /\ Tombed(p, ~se[s].closed /\ (hasCloseTombstone(s, r, i) \/ ~full))
        /\ UNCHANGED <<base, rf, au, left, setting>>

-----------------------------------------------------------------------------
(* Closing a reference (retainedClose.close).                              *)

Core(r) == [att |-> rf[r].att, res |-> rf[r].res, bar |-> rf[r].bar, implicit |-> rf[r].implicit,
            succ |-> rf[r].succ, epoch |-> rf[r].epoch, unstored |-> rf[r].unstored]
restoreStillReserved(r, c) == [rf[r] EXCEPT !.att = c.att, !.res = c.res, !.rej = {}]
restoreRejectedCandidate(r, c) ==
    [rf[r] EXCEPT !.att = c.att, !.res = c.res, !.bar = c.bar, !.implicit = c.implicit, !.succ = c.succ,
                  !.epoch = c.epoch, !.unstored = c.unstored, !.rej = {}, !.reserved = FALSE]

\* CloseOwnerStatus, and an attempt made from it: the layer above asks before
\* it names one.
localReady(r) ==
    /\ ~rf[r].closed /\ ~rf[r].implicit /\ ~rf[r].reserved /\ ~rf[r].unstored
    /\ rf[r].att # 0 => rf[r].res # "rel" /\ (rf[r].res = "kept" \/ rf[r].epoch # 0)
ownerStatus(p, r) ==
    /\ "action" \in S.ops /\ rf[r].st = "here"
    /\ ca[p].pc = "idle" /\ Unmade # {} /\ ~au.ref[r].rel /\ au.ref[r].run = 0
    /\ localReady(r) /\ CanReserve(rf[r].s)
    /\ \A i \in Ids : au.att[i].st = "made" /\ au.att[i].r = r => au.att[i].ep # au.epoch
    /\ au' = [au EXCEPT !.att[NewId] = [r |-> r, gen |-> au.ref[r].next, ep |-> au.epoch, st |-> "made"]]
    /\ UNCHANGED <<base, se, rf, ca, left, setting>>

Closing(p, r, i) ==
    /\ ca[p].pc = "idle" /\ rf[r].st = "here" /\ left.calls > 0
    /\ left' = [left EXCEPT !.calls = @ - 1]
    /\ ca' = [ca EXCEPT ![p] = [Idle EXCEPT !.pc = "enter", !.own = "ref", !.r = r, !.s = rf[r].s, !.i = i, !.req = i # 0]]
    /\ UNCHANGED <<base, se, rf, au, setting>>
CloseWithResult(p, r) == "close" \in S.ops /\ Closing(p, r, 0)
CloseWithAction(p, r) ==
    "action" \in S.ops /\ \E i \in Ids : au.att[i].st # "none" /\ au.att[i].r = r /\ Closing(p, r, i)

\* Waiting for another close of the reference, or for the copy, ends with the
\* caller's context.
GivesUp(p) ==
    /\ \/ ca[p].pc = "enter" /\ rf[ca[p].r].run # 0
       \/ ca[p].pc = "fEnter" /\ rf[ca[p].r].run # 0
       \/ ca[p].pc = "sEnter" /\ se[ca[p].s].run # 0
    /\ Spend("cancel")
    /\ Return(p, "error")
    /\ UNCHANGED <<base, se, rf, au, setting>>

ClosedIsClosed(r, i) == IF rf[r].att = i THEN "stored" ELSE "inval"
\* What an attempt asked for by name is, once the reference is closed.
ClosedVerdict(r, i) ==
    LET a == rf[r].att
    IN  CASE rf[r].succ /\ a = i -> "hist"
          [] a = 0 -> "inval"
          [] rf[r].byParent /\ Gen(i) > Gen(a) -> "inval"
          [] rf[r].byParent /\ Gen(i) = Gen(a) /\ i # a ->
                 IF hasCloseTombstone(rf[r].s, r, i) THEN "hist" ELSE "inval"
          [] rf[r].byParent -> "parent"
          [] a = i -> "stored"
          [] Gen(i) < Gen(a) -> "hist"
          [] Gen(i) = Gen(a) -> IF hasCloseTombstone(rf[r].s, r, i) THEN "hist" ELSE "past"
          [] OTHER -> "inval"
\* And while it is not: only an identity that reached the epoch's fence is
\* replayed after another took over its generation.
OpenVerdict(r, i) ==
    LET a == rf[r].att
    IN  CASE rf[r].succ /\ a = i -> "hist"
          [] a \in {0, i} -> IF a = i THEN "commit" ELSE "status"
          [] Gen(i) < Gen(a) -> "hist"
          [] Gen(i) = Gen(a) /\ hasCloseTombstone(rf[r].s, r, i) -> "hist"
          [] Gen(i) = Gen(a) /\ Ep(i) < Ep(a) -> "past"
          [] rf[r].res = "rel" -> "inval"
          [] OTHER -> "status"
ImplicitVerdict(r) ==
    IF rf[r].closed THEN "stored" ELSE IF rf[r].att # 0 /\ rf[r].res # "rel" THEN "statusI" ELSE "run"
Verdict(r, i, req) ==
    CASE ~req -> ImplicitVerdict(r)
      [] req /\ rf[r].att \notin {0, i} /\ ReleasedBy(rf[r].s) -> "stale"
      [] req /\ rf[r].closed -> ClosedVerdict(r, i)
      [] OTHER -> OpenVerdict(r, i)

Locked == {"status", "statusI", "commit", "run"}
Decided(p, v) ==
    LET r == ca[p].r
    IN  /\ rf' = [rf EXCEPT ![r].mu = IF v \in Locked THEN p ELSE 0]
        /\ ca' = [ca EXCEPT ![p] =
               CASE v = "stored" -> Told(p, IF rf[r].res = "rel" THEN "rel" ELSE "error")
                 [] v \in {"inval", "stale"} -> Told(p, "error")
                 [] OTHER -> [@ EXCEPT !.pc = v, !.prior = {Core(r)}]]
Enter(p) ==
    LET r == ca[p].r
        asks == ca[p].req /\ rf[r].rej # {} /\ rf[r].att = ca[p].i
    IN  /\ \/ ca[p].pc = "enter" /\ rf[r].mu = 0 /\ rf[r].run = 0 /\ ~asks
           \/ ca[p].pc = "enter2"
        /\ Decided(p, Verdict(r, ca[p].i, ca[p].req))
        /\ UNCHANGED <<base, se, au, left, setting>>

Unlocked(r) == [rf EXCEPT ![r].mu = 0]
\* A candidate that was refused: what became of it is asked first.
AskRejected(p) ==
    LET r == ca[p].r  i == ca[p].i
    IN  /\ ca[p].pc = "enter" /\ rf[r].mu = 0 /\ rf[r].run = 0
        /\ ca[p].req /\ rf[r].rej # {} /\ rf[r].att = i
        /\ \/ Spend("lost") /\ Return(p, "error") /\ UNCHANGED <<se, rf>>
           \/ /\ Query(i) = "not" /\ Return(p, "error") /\ UNCHANGED left
              /\ se' = releaseCloseAttempt(se, rf[r].s, r)
              /\ \E c \in rf[r].rej : rf' = [rf EXCEPT ![r] = restoreRejectedCandidate(r, c)]
           \/ /\ Query(i) \in {"retired", "unknown"} /\ Return(p, "error") /\ UNCHANGED <<se, rf, left>>
           \/ /\ Query(i) = "completed" /\ Go(p, "enter2") /\ UNCHANGED <<se, left>>
              /\ rf' = [rf EXCEPT ![r].mu = p]
        /\ UNCHANGED <<base, au, setting>>

\* replayHistoricalClose: a release it reports contradicts the later attempt.
replayHistoricalClose(p) ==
    /\ ca[p].pc = "hist"
    /\ \E ans \in {"rel", "relp", "relu", "kept", "unsure", "void", "inval", "stale", "busy", "lost"} :
           /\ CloseAction(ca[p].r, ca[p].i, ans)
           /\ Return(p, IF ans \in {"rel", "relp", "relu"} THEN "unknown" ELSE IF ans = "kept" THEN "kept" ELSE "error")
    /\ UNCHANGED <<base, se, rf, setting>>
\* retiredSameGenerationClose asks, and refuses.
retiredSameGenerationClose(p) ==
    /\ ca[p].pc = "past" /\ Return(p, "error")
    /\ UNCHANGED <<base, se, rf, au, left, setting>>
\* Released by its session: the receipt still belongs to the attempt.
ParentReplay(p) ==
    /\ ca[p].pc = "parent"
    /\ \E ans \in {"rel", "relp", "relu", "kept", "void", "inval", "stale", "busy", "lost"} :
           /\ CloseAction(ca[p].r, ca[p].i, ans)
           /\ ca' = [ca EXCEPT ![p] = IF ans \in {"rel", "relp", "relu"} THEN [@ EXCEPT !.pc = "confirm", !.ans = ans, !.own = "parent"]
                                      ELSE Told(p, IF ans = "kept" THEN "kept" ELSE "error")]
    /\ UNCHANGED <<base, se, rf, setting>>

Refuse(p, r) == rf' = Unlocked(r) /\ Return(p, "error")
\* CloseOwnerStatus under the lock: the authority's attempt is adopted when it
\* is the one asked for, a new one must be of the next generation, and of the
\* epoch that voided the last one where it takes over its generation.
StatusVerdict(r, i) ==
    LET o == au.ref[r]  a == rf[r].att
    IN  CASE o.rel \/ o.run \notin {0, i} -> "refuse"
          [] o.run = i /\ (a = 0 \/ Gen(a) # Gen(i)) -> "adopt"
          [] o.run = i /\ hasCloseTombstone(rf[r].s, r, a) -> "commit"
          [] o.run = i -> IF rf[r].reserved \/ rf[r].unstored THEN "tomb" ELSE "refuse"
          [] Gen(i) # o.next -> "refuse"
          [] a # 0 /\ Gen(i) = Gen(a) /\ (rf[r].epoch = 0 \/ Ep(i) # rf[r].epoch) -> "refuse"
          [] a # 0 /\ Gen(i) # Gen(a) /\ rf[r].epoch # 0 -> "refuse"
          [] a # 0 /\ rf[r].res # "kept" /\ rf[r].epoch = 0 -> "refuse"
          [] OTHER -> "fresh"
Status(p) ==
    LET r == ca[p].r  v == StatusVerdict(r, ca[p].i)
        mine == [ca[p] EXCEPT !.adopt = rf[r].implicit /\ au.ref[r].run = ca[p].i]
    IN  /\ ca[p].pc = "status"
        /\ \/ Spend("lost") /\ Refuse(p, r) /\ UNCHANGED se
           \/ v = "refuse" /\ Refuse(p, r) /\ UNCHANGED <<se, left>>
           \/ /\ v = "tomb" /\ UNCHANGED <<se, rf, left>>
              /\ ca' = [ca EXCEPT ![p] = [mine EXCEPT !.pc = "tomb", !.tomb = rf[r].att, !.then = "adopted"]]
           \/ /\ v = "adopt" /\ UNCHANGED left
              /\ ca' = [ca EXCEPT ![p] = [mine EXCEPT !.pc = "commit"]]
              /\ IF rf[r].att = 0 THEN UNCHANGED <<se, rf>>
                 ELSE /\ se' = releaseCloseAttempt(se, rf[r].s, r)
                      /\ rf' = [rf EXCEPT ![r].reserved = FALSE, ![r].unstored = FALSE]
           \/ /\ v \in {"commit", "fresh"} /\ UNCHANGED <<se, rf, left>>
              /\ ca' = [ca EXCEPT ![p] = [mine EXCEPT !.pc = v]]
        /\ UNCHANGED <<base, au, setting>>
Adopted(p) ==
    LET r == ca[p].r
    IN  /\ ca[p].pc = "adopted"
        /\ \/ ca[p].ans = "full" /\ Refuse(p, r) /\ UNCHANGED se
           \/ /\ ca[p].ans # "full" /\ Go(p, "commit")
              /\ se' = releaseCloseAttempt(se, rf[r].s, r)
              /\ rf' = [rf EXCEPT ![r].reserved = FALSE, ![r].unstored = FALSE]
        /\ UNCHANGED <<base, au, left, setting>>
FreshCandidate(p) ==
    LET r == ca[p].r
    IN  /\ ca[p].pc = "fresh"
        /\ \/ Spend("lost") /\ Refuse(p, r)
           \/ Query(ca[p].i) # "not" /\ Refuse(p, r) /\ UNCHANGED left
           \/ /\ Query(ca[p].i) = "not" /\ UNCHANGED <<rf, left>>
              /\ ca' = [ca EXCEPT ![p].pc = "commit", ![p].fresh = TRUE]
        /\ UNCHANGED <<base, se, au, setting>>

\* The attempt becomes the reference's own once there is room to account for it.
Commit(p) ==
    LET r == ca[p].r  i == ca[p].i  s == rf[r].s
    IN  /\ ca[p].pc = "commit"
        /\ \/ rf[r].implicit /\ ~ca[p].adopt /\ Refuse(p, r) /\ UNCHANGED se
           \/ /\ ~rf[r].implicit \/ ca[p].adopt
              /\ rf[r].att # i /\ rf[r].unstored
              /\ Tombs(p, rf[r].att, "stored") /\ UNCHANGED <<se, rf>>
           \/ /\ ~rf[r].implicit \/ ca[p].adopt
              /\ rf[r].att # i /\ ~rf[r].unstored
              /\ IF ReleasedBy(s) \/ rf[r].reserved \/ ~CanReserve(s)
                 THEN Refuse(p, r) /\ UNCHANGED se
                 ELSE /\ se' = reserveCloseAttempt(s) /\ Go(p, "run")
                      /\ rf' = [rf EXCEPT ![r].reserved = TRUE, ![r].epoch = 0, ![r].succ = FALSE,
                                          ![r].att = i, ![r].implicit = FALSE]
           \/ /\ ~rf[r].implicit \/ ca[p].adopt
              /\ rf[r].att = i /\ Go(p, "run") /\ UNCHANGED se
              /\ rf' = [rf EXCEPT ![r].implicit = FALSE]
        /\ UNCHANGED <<base, au, left, setting>>
StoredFirst(p) ==
    LET r == ca[p].r
    IN  /\ ca[p].pc = "stored"
        /\ \/ ca[p].ans = "full" /\ Refuse(p, r)
           \/ ca[p].ans # "full" /\ Go(p, "commit") /\ rf' = [rf EXCEPT ![r].unstored = FALSE]
        /\ UNCHANGED <<base, se, au, left, setting>>
\* A close without an attempt of its own follows the authority's, or closes in
\* its own right after the last named one was decided.
StatusImplicit(p) ==
    LET r == ca[p].r  run == au.ref[r].run
    IN  /\ ca[p].pc = "statusI"
        /\ \/ Spend("lost") /\ Refuse(p, r)
           \/ /\ ~au.ref[r].rel /\ run \notin {0, rf[r].att} /\ UNCHANGED left
              /\ rf' = Unlocked(r)
              /\ ca' = [ca EXCEPT ![p].pc = "enter", ![p].i = run, ![p].req = TRUE]
           \/ /\ ~au.ref[r].rel /\ run = rf[r].att /\ UNCHANGED <<rf, left>>
              /\ ca' = [ca EXCEPT ![p].pc = "run", ![p].i = run]
           \/ /\ au.ref[r].rel \/ run = 0
              /\ Go(p, "run") /\ UNCHANGED left
              /\ rf' = [rf EXCEPT ![r].implicit = TRUE, ![r].succ = TRUE]
        /\ UNCHANGED <<base, se, au, setting>>

IsRelease(ans) == ans \in {"rel", "relp", "relu"}
Previous(p) == CHOOSE c \in ca[p].prior : TRUE
WasReleased(p) == Previous(p).res = "rel"
\* The close runs; it is the only one of its reference until it ends.
Run(p) ==
    LET r == ca[p].r  s == rf[r].s
        own == IF ca[p].req \/ rf[r].att = 0 \/ rf[r].res # "rel" THEN ca[p].i ELSE rf[r].att
        implicit == rf[r].implicit \/ (~ca[p].req /\ rf[r].att = 0)
        pc == IF WasReleased(p) /\ Previous(p).bar # 0 THEN "confirm"
              ELSE IF WasReleased(p) \/ se[s].closing \/ se[s].closed THEN "call" ELSE "begin"
        ans == IF WasReleased(p) /\ Previous(p).bar # 0 THEN "rel" ELSE "none"
    IN  /\ ca[p].pc = "run" /\ (ReleasedBy(s) /\ ~ca[p].req => WasReleased(p))
        /\ rf' = [rf EXCEPT ![r].mu = 0, ![r].run = p, ![r].implicit = implicit]
        /\ ca' = [ca EXCEPT ![p].pc = pc, ![p].i = own, ![p].ans = ans]
        /\ UNCHANGED <<base, se, au, left, setting>>
\* A settled close of the session proves that its references are released.
ClosedByParent(p) ==
    LET r == ca[p].r  s == rf[r].s
    IN  /\ ca[p].pc = "run" /\ ReleasedBy(s) /\ ~ca[p].req /\ ~WasReleased(p)
        /\ se' = releaseCloseAttempt(se, s, r)
        /\ rf' = [rf EXCEPT ![r].mu = 0, ![r].closed = TRUE, ![r].byParent = TRUE, ![r].res = "rel",
                            ![r].rej = {}, ![r].reserved = FALSE,
                            ![r].implicit = @ \/ rf[r].att = 0]
        /\ Return(p, "rel")
        /\ UNCHANGED <<base, au, left, setting>>
BeginClose(p) ==
    LET s == ca[p].s
    IN  /\ ca[p].pc = "begin"
        /\ \/ se[s].closing /\ ca' = [ca EXCEPT ![p].pc = "answer", ![p].ans = "stale"] /\ UNCHANGED se
           \/ ~se[s].closing /\ Go(p, "call") /\ se' = [se EXCEPT ![s].active = @ \cup {p}]
        /\ UNCHANGED <<base, rf, au, left, setting>>
Answers == {"rel", "relp", "relu", "kept", "unsure", "void", "inval", "stale", "busy", "lost"}
Answered(p, ans, pc) == ca' = [ca EXCEPT ![p].pc = pc, ![p].ans = ans, ![p].ep = au.epoch]
CallClose(p) ==
    LET r == ca[p].r  i == ca[p].i
    IN  /\ ca[p].pc = "call"
        /\ \/ \E ans \in Answers :
                  /\ IF i = 0 THEN CloseImplicit(r, ans) ELSE CloseAction(r, i, ans)
                  /\ Answered(p, ans, "answer")
           \/ \* the closing session cancels its calls
              /\ p \in se[ca[p].s].active /\ se[ca[p].s].closing
              /\ Undelivered(r, i) /\ Answered(p, "lost", "answer") /\ UNCHANGED left
        /\ se' = [se EXCEPT ![ca[p].s].active = @ \ {p}]
        /\ UNCHANGED <<base, rf, setting>>
Answer(p) ==
    LET r == ca[p].r  ans == ca[p].ans
        lostReplay == WasReleased(p) /\ ~IsRelease(ans)
    IN  /\ ca[p].pc = "answer"
        /\ \/ lostReplay /\ Return(p, "unknown") /\ rf' = [rf EXCEPT ![r].run = 0]
           \/ IsRelease(ans) /\ Go(p, "confirm") /\ UNCHANGED rf
           \/ /\ ~lostReplay /\ ~IsRelease(ans) /\ UNCHANGED rf
              /\ Go(p, IF ca[p].fresh /\ ans = "inval" THEN "ask" ELSE "keep")
        /\ UNCHANGED <<base, se, au, left, setting>>
\* A refused candidate is taken back when it is known not to have run.
TakeBack(p) ==
    LET r == ca[p].r  q == Query(ca[p].i)
        ended == [rf EXCEPT ![r] = [restoreRejectedCandidate(r, Previous(p)) EXCEPT !.run = 0]]
    IN  /\ ca[p].pc = "ask"
        /\ \/ q = "not" /\ rf' = ended /\ se' = releaseCloseAttempt(se, rf[r].s, r)
              /\ Return(p, "error") /\ UNCHANGED left
           \/ /\ Spend("lost") \/ (q \in {"retired", "unknown"} /\ UNCHANGED left)
              /\ rf' = [rf EXCEPT ![r].rej = ca[p].prior] /\ Go(p, "keep") /\ UNCHANGED se
           \/ q = "completed" /\ Go(p, "keep") /\ UNCHANGED <<rf, se, left>>
        /\ UNCHANGED <<base, au, setting>>

Kept(r, ans, i) ==
    [rf[r] EXCEPT !.res = IF ans = "kept" THEN "kept" ELSE "none",
                  !.rej = IF ans = "kept" THEN {} ELSE @,
                  !.implicit = @ /\ ~(i = 0 /\ ans = "kept")]
Outcome(ans) == IF ans \in {"kept", "void"} THEN ans ELSE "error"
\* The reference was not released. A decided attempt returns its admission; one
\* proved not to have run leaves its proof first.
Unreleased(p) ==
    LET r == ca[p].r  i == ca[p].i  ans == ca[p].ans  s == rf[r].s
        proof == i # 0 /\ ans = "void"
        done == [Kept(r, ans, i) EXCEPT !.run = 0]
    IN  /\ ca[p].pc = "keep"
        /\ \/ /\ proof /\ ~hasCloseTombstone(s, r, i) /\ (rf[r].reserved \/ rf[r].unstored)
              /\ rf' = [rf EXCEPT ![r] = Kept(r, ans, i)] /\ Tombs(p, i, "voided") /\ UNCHANGED se
           \/ /\ proof /\ (hasCloseTombstone(s, r, i) \/ (~rf[r].reserved /\ ~rf[r].unstored))
              /\ rf' = [rf EXCEPT ![r] = [done EXCEPT !.epoch = IF hasCloseTombstone(s, r, i) THEN ca[p].ep ELSE @]]
              /\ Return(p, "void") /\ UNCHANGED se
           \/ /\ ~proof /\ ans = "kept" /\ Return(p, "kept")
              /\ se' = releaseCloseAttempt(se, s, r)
              /\ rf' = [rf EXCEPT ![r] = [done EXCEPT !.reserved = FALSE]]
           \/ /\ ~proof /\ ans # "kept" /\ Return(p, "error")
              /\ rf' = [rf EXCEPT ![r] = done] /\ UNCHANGED se
        /\ UNCHANGED <<base, au, left, setting>>
Voided(p) ==
    LET r == ca[p].r
    IN  /\ ca[p].pc = "voided"
        /\ se' = releaseCloseAttempt(se, rf[r].s, r)
        /\ rf' = [rf EXCEPT ![r].unstored = (ca[p].ans = "full"), ![r].reserved = FALSE,
                            ![r].epoch = ca[p].ep, ![r].run = 0]
        /\ Return(p, "void")
        /\ UNCHANGED <<base, au, left, setting>>

-----------------------------------------------------------------------------
(* A release is settled when the copy shows it, or need not.               *)

Owners == {"ref", "failedRef", "openRef"}
Barrier(p) == IF ca[p].own \in Owners \cup {"parent"} THEN au.ref[ca[p].r].bar ELSE au.sbar[ca[p].s]
confirmReleasedClose(p) ==
    /\ ca[p].pc = "confirm"
    /\ Go(p, IF ca[p].ans # "rel" THEN "unsettled" ELSE IF base.closing \/ base.failed THEN "settled" ELSE "await")
    /\ UNCHANGED <<base, se, rf, au, left, setting>>
confirmCleanup(p) ==
    /\ ca[p].pc = "await"
    /\ \/ base.at >= Barrier(p) /\ Go(p, "settled") /\ UNCHANGED left
       \/ (base.failed \/ base.closing) /\ Go(p, "unsettled") /\ UNCHANGED left
       \/ Spend("cancel") /\ Go(p, "unsettled")
    /\ UNCHANGED <<base, se, rf, au, setting>>

\* A settlement outstanding below leaves no barrier to wait for again.
settledAuthorityBarrier(p) == IF ca[p].ans = "rel" THEN Barrier(p) ELSE 0
Settling(p) == ca[p].pc \in {"settled", "unsettled"}
Settled(p) == ca[p].pc = "settled"
Outcomes(p) == IF Settled(p) THEN "rel" ELSE "pending"
EndClose(p) ==
    LET r == ca[p].r
    IN  /\ Settling(p) /\ ca[p].own = "ref"
        /\ se' = releaseCloseAttempt(se, rf[r].s, r)
        /\ rf' = [rf EXCEPT ![r].res = "rel", ![r].bar = settledAuthorityBarrier(p), ![r].rej = {},
                            ![r].reserved = FALSE, ![r].closed = Settled(p), ![r].run = 0]
        /\ Return(p, Outcomes(p))
        /\ UNCHANGED <<base, au, left, setting>>
EndParentReplay(p) ==
    /\ Settling(p) /\ ca[p].own = "parent"
    /\ Return(p, Outcomes(p))
    /\ UNCHANGED <<base, se, rf, au, left, setting>>

-----------------------------------------------------------------------------
(* A call through a session: it counts until it returned, and an ordinary   *)
(* one needs a usable copy.                                                *)

Starts(p, s, kind) ==
    /\ kind \in S.ops /\ ca[p].pc = "idle" /\ left.calls > 0
    /\ left' = [left EXCEPT !.calls = @ - 1]
    /\ ca' = [ca EXCEPT ![p] = [Idle EXCEPT !.pc = "op", !.own = "op", !.kind = kind, !.s = s]]
    /\ UNCHANGED <<base, se, rf, au, setting>>
OfSession(p, kind) == \E s \in Sess : se[s].st = "here" /\ Starts(p, s, kind)
OfReference(p, kind) == \E r \in Refs : rf[r].st = "here" /\ Starts(p, rf[r].s, kind)
\* Control of the session itself needs no copy.
RenewStatus(p) == OfSession(p, "control")
ActionQueries(p) == OfSession(p, "control")
UseOwnersAndRanges(p) == OfSession(p, "control")
SessionIdentity(p) == OfSession(p, "control")
\* Reads of the authority.
StatNode(p) == OfSession(p, "read")
AcknowledgeDeleteIntent(p) == OfSession(p, "read")
DirectoryReads(p) == OfSession(p, "read")
ObserveDirectoryMetadata(p) == OfSession(p, "read")
FileReads(p) == OfReference(p, "read")
FileScope(p) == OfReference(p, "read")
ReferenceStat(p) == OfReference(p, "read")
ReferenceScope(p) == OfReference(p, "read")
observeReferenceName(p) == OfReference(p, "read")
\* Observations that are answered only while the copy is still usable.
AllocationUnitBytes(p) == OfSession(p, "observe")
VolumeCreatedAt(p) == OfSession(p, "observe")
observeReferenceState(p) == OfReference(p, "observe")
observeReferenceMetadata(p) == OfReference(p, "observe")
\* Changes, which return once the copy holds them.
SetNodeAttr(p) == OfSession(p, "mutate")
MutateName(p) == OfSession(p, "mutate")
SetNodeMetadata(p) == OfSession(p, "mutate")
FileMutations(p) == OfReference(p, "mutate")
FileSetMetadata(p) == OfReference(p, "mutate")
ReferenceSetAttr(p) == OfReference(p, "mutate")
ReferenceMutations(p) == OfReference(p, "mutate")
FileIntents(p) == OfReference(p, "mutate")
\* Opens.
OpenFileOrNode(p) == OfSession(p, "open")
OpenAt(p) == OfSession(p, "open")
OpenRefs(p) == OfSession(p, "open")

\* What failed to open answers its failure.
Refused(p) ==
    /\ ca[p].pc = "idle" /\ Spend("full")
    /\ ca' = [ca EXCEPT ![p] = [Idle EXCEPT !.pc = "told", !.told = "error"]]
    /\ UNCHANGED <<base, se, rf, au, setting>>
FailedSessionCalls(p) == (\E s \in Sess : se[s].st = "failed") /\ Refused(p)
FailedReferenceCalls(p) == (\E r \in Refs : rf[r].st = "failed") /\ Refused(p)

begin(p) ==
    LET s == ca[p].s
        refused == (ca[p].kind # "control" /\ ~usable) \/ se[s].closing
    IN  /\ ca[p].pc = "op"
        /\ IF refused THEN Return(p, "error") /\ UNCHANGED se
           ELSE Go(p, "opCall") /\ se' = [se EXCEPT ![s].active = @ \cup {p}]
        /\ UNCHANGED <<base, rf, au, left, setting>>
done(p) == se' = [se EXCEPT ![ca[p].s].active = @ \ {p}]
\* The session's close and the storage's cancel the call.
Cut(p) == se[ca[p].s].closing \/ base.closing
OpFails(p) ==
    /\ ca[p].pc = "opCall"
    /\ IF Cut(p) THEN UNCHANGED left ELSE Spend("fault")
    /\ done(p) /\ Return(p, "error")
    /\ UNCHANGED <<base, rf, au, setting>>
OpReads(p) ==
    /\ ca[p].pc = "opCall" /\ ca[p].kind \in {"control", "read", "observe"}
    /\ done(p) /\ Return(p, IF ca[p].kind = "observe" /\ ~usable THEN "error" ELSE "ok")
    /\ UNCHANGED <<base, rf, au, left, setting>>
OpMutates(p) ==
    /\ ca[p].pc = "opCall" /\ ca[p].kind = "mutate" /\ au.log < S.log
    /\ au' = [au EXCEPT !.log = @ + 1]
    /\ ca' = [ca EXCEPT ![p].pc = "opAwait", ![p].ep = au.log + 1]
    /\ UNCHANGED <<base, se, rf, left, setting>>
OpOpens(p) ==
    LET r == CHOOSE x \in Refs : rf[x].st = "none" /\ \A y \in Refs : rf[y].st = "none" => x <= y
    IN  /\ ca[p].pc = "opCall" /\ ca[p].kind = "open" /\ \E x \in Refs : rf[x].st = "none"
        /\ au' = [au EXCEPT !.log = @ + 1, !.ref[r].live = TRUE]
        /\ \/ /\ rf' = [rf EXCEPT ![r].st = "opening", ![r].s = ca[p].s]
              /\ ca' = [ca EXCEPT ![p].pc = "opAwait", ![p].ep = au.log + 1, ![p].r = r]
              /\ UNCHANGED <<se, left>>
           \/ \* an error that comes with the reference
              /\ Spend("fault")
              /\ rf' = [rf EXCEPT ![r].st = "opening", ![r].s = ca[p].s]
              /\ ca' = [ca EXCEPT ![p].pc = "oClose", ![p].own = "openRef", ![p].r = r]
              /\ UNCHANGED se
           \/ \* the answer is lost: the authority's session owns the reference
              /\ IF Cut(p) THEN UNCHANGED left ELSE Spend("lost")
              /\ rf' = [rf EXCEPT ![r].st = "lost", ![r].s = ca[p].s]
              /\ done(p) /\ Return(p, "error")
        /\ UNCHANGED <<base, setting>>
\* confirm waits for the copy; a reference whose confirmation failed is closed.
Confirmed(p) ==
    LET opened == IF ca[p].kind = "open" THEN [rf EXCEPT ![ca[p].r].st = "here"] ELSE rf
    IN  /\ ca[p].pc = "opAwait"
        /\ \/ base.at >= ca[p].ep /\ rf' = opened /\ done(p) /\ Return(p, "ok") /\ UNCHANGED left
           \/ /\ IF Cut(p) \/ base.failed THEN UNCHANGED left ELSE Spend("cancel")
              /\ IF ca[p].kind = "open"
                 THEN ca' = [ca EXCEPT ![p].pc = "oClose", ![p].own = "openRef"] /\ UNCHANGED <<se, rf>>
                 ELSE Return(p, "error") /\ done(p) /\ UNCHANGED rf
        /\ UNCHANGED <<base, au, setting>>

-----------------------------------------------------------------------------
(* A reference whose open failed is closed at once, and kept for its owner to *)
(* close again unless that settled.                                        *)

closeFailedOpenReference(p) ==
    LET r == ca[p].r
    IN  /\ ca[p].pc = "oClose"
        /\ \E ans \in Answers : CloseImplicit(r, ans) /\ Answered(p, ans, IF IsRelease(ans) THEN "confirm" ELSE "unreleased")
        /\ UNCHANGED <<base, se, rf, setting>>
cleanupFailedOpenReference(p) ==
    LET r == ca[p].r  released == IsRelease(ca[p].ans)
    IN  /\ ca[p].pc \in {"settled", "unsettled", "unreleased"} /\ ca[p].own = "openRef"
        /\ rf' = [rf EXCEPT ![r].st = IF Settled(p) THEN "gone" ELSE "failed", ![r].res = IF released THEN "rel" ELSE "none"]
        /\ done(p) /\ Return(p, "error")
        /\ UNCHANGED <<base, au, left, setting>>
CloseFailedReference(p, r) ==
    /\ ca[p].pc = "idle" /\ rf[r].st = "failed" /\ left.calls > 0
    /\ left' = [left EXCEPT !.calls = @ - 1]
    /\ ca' = [ca EXCEPT ![p] = [Idle EXCEPT !.pc = "fEnter", !.own = "failedRef", !.r = r, !.s = rf[r].s]]
    /\ UNCHANGED <<base, se, rf, au, setting>>
EnterFailedReference(p) ==
    LET r == ca[p].r
    IN  /\ ca[p].pc = "fEnter" /\ rf[r].run = 0
        /\ IF rf[r].closed THEN Return(p, "rel") /\ UNCHANGED rf
           ELSE Go(p, "oClose") /\ rf' = [rf EXCEPT ![r].run = p]
        /\ UNCHANGED <<base, se, au, left, setting>>
EndFailedReference(p) ==
    LET r == ca[p].r  released == IsRelease(ca[p].ans)
    IN  /\ ca[p].pc \in {"settled", "unsettled", "unreleased"} /\ ca[p].own = "failedRef"
        /\ rf' = [rf EXCEPT ![r].run = 0, ![r].res = IF released THEN "rel" ELSE @, ![r].closed = Settled(p)]
        /\ Return(p, IF released THEN Outcomes(p) ELSE IF rf[r].res = "rel" THEN "unknown" ELSE "error")
        /\ UNCHANGED <<base, se, au, left, setting>>

-----------------------------------------------------------------------------
(* Sessions.                                                               *)

Registered == {s \in Sess : se[s].st \in {"here", "failed"}}
NextSession == CHOOSE s \in Sess : se[s].st = "none" /\ \A t \in Sess : se[t].st = "none" => s <= t
NewFileSession(p) ==
    /\ "session" \in S.ops /\ ca[p].pc = "idle" /\ \E s \in Sess : se[s].st = "none"
    /\ \/ /\ base.closing \/ Cardinality(Registered) + base.opening >= S.max
          /\ Spend("full") /\ ca' = [ca EXCEPT ![p] = [Idle EXCEPT !.pc = "told", !.told = "error"]]
          /\ UNCHANGED <<base, se>>
       \/ /\ ~base.closing /\ Cardinality(Registered) + base.opening < S.max /\ UNCHANGED left
          /\ base' = [base EXCEPT !.opening = @ + 1]
          /\ se' = [se EXCEPT ![NextSession].st = "opening"]
          /\ ca' = [ca EXCEPT ![p] = [Idle EXCEPT !.pc = "sOpen", !.s = NextSession]]
    /\ UNCHANGED <<rf, au, setting>>
OpenSession(p) ==
    LET s == ca[p].s
    IN  /\ ca[p].pc = "sOpen"
        /\ \/ Go(p, "sRegister") /\ au' = [au EXCEPT !.ses[s] = "live"] /\ UNCHANGED <<base, se, left>>
           \/ \* nothing came back: what the authority may hold expires there
              /\ IF base.closing THEN UNCHANGED left ELSE Spend("lost")
              /\ \E what \in {"none", "live"} : au' = [au EXCEPT !.ses[s] = what]
              /\ base' = [base EXCEPT !.opening = @ - 1]
              /\ se' = [se EXCEPT ![s].st = "gone"]
              /\ Return(p, "error")
           \/ \* an error that comes with the session
              /\ Spend("fault") /\ au' = [au EXCEPT !.ses[s] = "live"]
              /\ ca' = [ca EXCEPT ![p].pc = "sCall", ![p].own = "openSession"]
              /\ UNCHANGED <<base, se>>
        /\ UNCHANGED <<rf, setting>>
\* A session that arrives while the storage closes is closed by its opener.
RegisterSession(p) ==
    LET s == ca[p].s
    IN  /\ ca[p].pc = "sRegister"
        /\ se' = [se EXCEPT ![s].st = "here"]
        /\ base' = [base EXCEPT !.opening = @ - 1]
        /\ IF base.closing THEN ca' = [ca EXCEPT ![p].pc = "sEnter", ![p].own = "session"] ELSE Return(p, "ok")
        /\ UNCHANGED <<rf, au, left, setting>>
closeFailedOpenSession(p) ==
    /\ ca[p].pc = "sCall" /\ ca[p].own \in {"openSession", "failedSession"}
    /\ \E ans \in Answers : CloseRemote(ca[p].s, ans) /\ Answered(p, ans, IF IsRelease(ans) THEN "confirm" ELSE "unreleased")
    /\ UNCHANGED <<base, se, rf, setting>>
cleanupFailedOpenSession(p) ==
    LET s == ca[p].s
    IN  /\ ca[p].pc \in {"settled", "unsettled", "unreleased"} /\ ca[p].own = "openSession"
        /\ se' = [se EXCEPT ![s].st = IF Settled(p) THEN "gone" ELSE "failed", ![s].res = IF IsRelease(ca[p].ans) THEN "rel" ELSE "none"]
        /\ base' = [base EXCEPT !.opening = @ - 1]
        /\ Return(p, "error")
        /\ UNCHANGED <<rf, au, left, setting>>

CloseSession(p, s) ==
    /\ "end" \in S.ops /\ ca[p].pc = "idle" /\ se[s].st \in {"here", "failed"} /\ left.calls > 0
    /\ left' = [left EXCEPT !.calls = @ - 1]
    /\ ca' = [ca EXCEPT ![p] = [Idle EXCEPT !.pc = "sEnter", !.s = s, !.own = IF se[s].st = "here" THEN "session" ELSE "failedSession"]]
    /\ UNCHANGED <<base, se, rf, au, setting>>
EnterSession(p) ==
    LET s == ca[p].s
    IN  /\ ca[p].pc = "sEnter" /\ se[s].run = 0
        /\ IF se[s].closed THEN Return(p, "rel") /\ UNCHANGED se
           ELSE IF ca[p].own = "session"
           THEN Go(p, "drain") /\ se' = [se EXCEPT ![s].closing = TRUE, ![s].run = p]
           ELSE Go(p, "sCall") /\ se' = [se EXCEPT ![s].run = p]
        /\ UNCHANGED <<base, rf, au, left, setting>>
DrainedAtOnce(p) ==
    /\ ca[p].pc = "drain" /\ Go(p, "sCall")
    /\ UNCHANGED <<base, se, rf, au, left, setting>>
Drained(p) ==
    LET s == ca[p].s  stored == se[s].res = "rel" /\ se[s].bar # 0
    IN  /\ ca[p].pc = "drain"
        /\ \/ /\ se[s].active = {} /\ UNCHANGED <<se, left>>
              /\ ca' = [ca EXCEPT ![p].pc = IF stored THEN "confirm" ELSE "sCall", ![p].ans = IF stored THEN "rel" ELSE "none"]
           \/ se[s].active # {} /\ Spend("cancel") /\ Return(p, "error") /\ se' = [se EXCEPT ![s].run = 0]
        /\ UNCHANGED <<base, rf, au, setting>>
CallSessionClose(p) ==
    /\ ca[p].pc = "sCall" /\ ca[p].own = "session"
    /\ \E ans \in Answers : CloseRemote(ca[p].s, ans) /\ Answered(p, ans, IF IsRelease(ans) THEN "confirm" ELSE "unreleased")
    /\ UNCHANGED <<base, se, rf, setting>>
Unsettled(p) == IF IsRelease(ca[p].ans) THEN Outcomes(p) ELSE IF se[ca[p].s].res = "rel" THEN "unknown" ELSE "error"
EndSession(p) ==
    LET s == ca[p].s  released == IsRelease(ca[p].ans)
    IN  /\ ca[p].pc \in {"settled", "unsettled", "unreleased"} /\ ca[p].own = "session"
        /\ se' = [se EXCEPT ![s].run = 0, ![s].closed = Settled(p),
                            ![s].res = IF released THEN "rel" ELSE @,
                            ![s].bar = IF released THEN settledAuthorityBarrier(p) ELSE @,
                            ![s].tombs = IF Settled(p) THEN <<>> ELSE @,
                            ![s].st = IF Settled(p) THEN "gone" ELSE @]
        /\ Return(p, Unsettled(p))
        /\ UNCHANGED <<base, rf, au, left, setting>>
EndFailedSession(p) ==
    LET s == ca[p].s  released == IsRelease(ca[p].ans)
    IN  /\ ca[p].pc \in {"settled", "unsettled", "unreleased"} /\ ca[p].own = "failedSession"
        /\ se' = [se EXCEPT ![s].run = 0, ![s].closed = Settled(p), ![s].res = IF released THEN "rel" ELSE @,
                            ![s].st = IF Settled(p) THEN "gone" ELSE @]
        /\ Return(p, Unsettled(p))
        /\ UNCHANGED <<base, rf, au, left, setting>>

\* Storage.Close: no confirmation and no opening is outstanding when the
\* sessions are closed, one after the other.
Close(p) ==
    /\ "stop" \in S.ops /\ ca[p].pc = "idle" /\ base.closer = 0
    /\ base' = [base EXCEPT !.closing = TRUE, !.closer = p]
    /\ ca' = [ca EXCEPT ![p] = [Idle EXCEPT !.pc = "cWait", !.back = "cNext"]]
    /\ UNCHANGED <<se, rf, au, left, setting>>
Confirming(q) == ca[q].pc \in {"await", "opAwait", "sOpen", "sRegister"} \/ (ca[q].pc = "opCall" /\ ca[q].kind \in {"mutate", "open"})
closeFileSessions(p) ==
    /\ ca[p].pc = "cWait" /\ base.opening = 0 /\ \A q \in Callers : ~Confirming(q)
    /\ ca' = [ca EXCEPT ![p].pc = "cNext", ![p].todo = Registered]
    /\ UNCHANGED <<base, se, rf, au, left, setting>>
CloseNextSession(p) ==
    /\ ca[p].pc = "cNext"
    /\ \/ \E s \in ca[p].todo :
              ca' = [ca EXCEPT ![p] = [Idle EXCEPT !.pc = "sEnter", !.back = "cNext", !.s = s, !.todo = ca[p].todo \ {s},
                                                   !.own = IF se[s].st = "failed" THEN "failedSession" ELSE "session"]]
       \/ ca[p].todo = {} /\ ca' = [ca EXCEPT ![p] = [Idle EXCEPT !.pc = "stopped"]]
    /\ UNCHANGED <<base, se, rf, au, left, setting>>

-----------------------------------------------------------------------------
Copying == Applies \/ StreamFails \/ StreamResumes
Calls(p) ==
    \/ RenewStatus(p) \/ ActionQueries(p) \/ UseOwnersAndRanges(p) \/ SessionIdentity(p)
    \/ StatNode(p) \/ AcknowledgeDeleteIntent(p) \/ DirectoryReads(p) \/ ObserveDirectoryMetadata(p)
    \/ FileReads(p) \/ FileScope(p) \/ ReferenceStat(p) \/ ReferenceScope(p) \/ observeReferenceName(p)
    \/ AllocationUnitBytes(p) \/ VolumeCreatedAt(p) \/ observeReferenceState(p) \/ observeReferenceMetadata(p)
    \/ SetNodeAttr(p) \/ MutateName(p) \/ SetNodeMetadata(p) \/ FileMutations(p) \/ FileSetMetadata(p)
    \/ ReferenceSetAttr(p) \/ ReferenceMutations(p) \/ FileIntents(p)
    \/ OpenFileOrNode(p) \/ OpenAt(p) \/ OpenRefs(p) \/ FailedSessionCalls(p) \/ FailedReferenceCalls(p)
    \/ NewFileSession(p) \/ Close(p)
    \/ \E r \in Refs : ownerStatus(p, r) \/ CloseWithResult(p, r) \/ CloseWithAction(p, r) \/ CloseFailedReference(p, r)
    \/ \E s \in Sess : CloseSession(p, s)
Closes(p) ==
    \/ Enter(p) \/ AskRejected(p) \/ replayHistoricalClose(p) \/ retiredSameGenerationClose(p) \/ ParentReplay(p)
    \/ Status(p) \/ Adopted(p) \/ FreshCandidate(p) \/ Commit(p) \/ StoredFirst(p) \/ StatusImplicit(p)
    \/ Run(p) \/ ClosedByParent(p) \/ BeginClose(p) \/ CallClose(p) \/ Answer(p) \/ TakeBack(p) \/ Unreleased(p) \/ Voided(p)
    \/ reserveCloseTombstone(p) \/ EvictTombstone(p) \/ AddTombstone(p) \/ EndClose(p) \/ EndParentReplay(p)
Settles(p) == confirmReleasedClose(p) \/ confirmCleanup(p)
Operates(p) ==
    \/ begin(p) \/ OpFails(p) \/ OpReads(p) \/ OpMutates(p) \/ OpOpens(p) \/ Confirmed(p)
    \/ closeFailedOpenReference(p) \/ cleanupFailedOpenReference(p) \/ EnterFailedReference(p) \/ EndFailedReference(p)
Sessions(p) ==
    \/ OpenSession(p) \/ RegisterSession(p) \/ closeFailedOpenSession(p) \/ cleanupFailedOpenSession(p)
    \/ EnterSession(p) \/ Drained(p) \/ CallSessionClose(p) \/ EndSession(p) \/ EndFailedSession(p)
    \/ closeFileSessions(p) \/ CloseNextSession(p)
Next ==
    \/ Tick \/ Copying
    \/ \E p \in S.callers :
           \/ ca[p].pc = "idle" /\ Calls(p)
           \/ ca[p].own \in {"ref", "parent"} /\ Closes(p)
           \/ ca[p].own \in {"op", "openRef", "failedRef"} /\ Operates(p)
           \/ ca[p].own \in {"none", "session", "openSession", "failedSession"} /\ Sessions(p)
           \/ Settles(p) \/ GivesUp(p) \/ Forgets(p)
Spec == Init /\ [][Next]_vars

-----------------------------------------------------------------------------
Shown(bar) == base.failed \/ base.closing \/ base.at >= bar

\* The admission of close attempts is exact: a reservation belongs to an attempt
\* of a reference that is undecided, and the proofs kept stay within the bound.
AdmissionExact ==
    \A s \in Sess :
        /\ se[s].reserved = Cardinality({r \in Refs : rf[r].s = s /\ rf[r].reserved})
        /\ se[s].reserved <= S.closes /\ Len(se[s].tombs) <= S.closes
        /\ \A r \in Refs : rf[r].reserved /\ rf[r].run = 0 /\ rf[r].mu = 0 =>
               rf[r].att # 0 /\ ~rf[r].closed /\ rf[r].res = "none"

\* A caller that names a close attempt hears of that attempt and no other.
AnswersOwnId ==
    \A p \in Callers : ca[p].pc = "told" /\ ca[p].req /\ ca[p].own = "ref" =>
        /\ ca[p].told = "rel" => au.att[ca[p].i].st = "rel"
        /\ ca[p].told = "kept" => au.att[ca[p].i].st = "kept"
        /\ ca[p].told = "void" => au.att[ca[p].i].st = "void"

\* The authority's session is closed only when no call of it is outstanding.
ClosedQuiet ==
    \A s \in Sess : au.ses[s] = "rel" => se[s].active = {}
====
