----------------------------- MODULE SmbDeletes -----------------------------
(***************************************************************************)
(* Delete-on-close through the SMB endpoint (packages/smb): the durable    *)
(* delete intents its opens leave in the volume, the handle owners that    *)
(* answer for them, and the recovery pass with which a host takes over the *)
(* intents of this and of earlier incarnations of the endpoint.            *)
(*                                                                         *)
(* The volume is external: it arms an intent with an open, runs it once    *)
(* the reference is closed, lists the intents in the order of their        *)
(* identifiers, and forgets an intent when it is acknowledged.             *)
(***************************************************************************)
EXTENDS Naturals, Sequences, FiniteSets

CONSTANTS
    Handles,     \* the opens with a delete intent; intent h belongs to h
    Ids,         \* the intents, of this incarnation and of earlier ones
    Settings     \* name -> the intents left by earlier incarnations, bounds

VARIABLES
    own,         \* the handle owners: their step, what they still answer for
    exp,         \* the export: admission of opens, recovery state, publication
    rec,         \* the scan of the recovery pass, kept between passes
    run,         \* the pass that runs now
    vol,         \* the volume (external)
    due,         \* the intents that were final when the scan began
    left, setting

vars == <<own, exp, rec, run, vol, due, left, setting>>

-----------------------------------------------------------------------------
S == Settings[setting]
Final == {"done", "not"}

\* What is known of the acknowledgement of one intent.
NoAttempt == [seen |-> FALSE, issued |-> FALSE]
NoOwner == [pc |-> "new", own |-> FALSE, settled |-> FALSE, opening |-> FALSE,
            att |-> NoAttempt]
NoScan == [cursor |-> 0, page |-> <<>>, locals |-> <<>>, cap |-> FALSE,
           complete |-> FALSE]

Init ==
    /\ setting \in DOMAIN Settings
    /\ own = [h \in Handles |-> NoOwner]
    /\ exp = [busy |-> FALSE, ready |-> FALSE, active |-> 0, stop |-> FALSE,
              cur |-> 0, closing |-> FALSE, retired |-> FALSE, slots |-> S.slots,
              at |-> 0, att |-> NoAttempt, step |-> "none", failed |-> FALSE]
    /\ rec = NoScan
    /\ run = [pc |-> "idle", more |-> 0, by |-> "host", failed |-> FALSE]
    /\ vol = [intent |-> S.intents, ref |-> [h \in Handles |-> FALSE],
              wire |-> {}, backend |-> 1]
    /\ due = {}
    /\ left = S.budget

Spend(kind) == left[kind] > 0 /\ left' = [left EXCEPT ![kind] = @ - 1]

\* MUTANT: an open reference does not keep its intent from recovery.
intentNeverOwned(i) == FALSE

\* The endpoint still answers for an intent whose reference may be open.
deleteIntentOwned(i) ==
    i \in Handles /\ own[i].own /\ ~own[i].settled

\* The owners that were settled without their intent being decided.
retainedDeleteAttempts == {h \in Handles : own[h].own /\ own[h].settled}

pendingDeleteError == \E h \in Handles : own[h].own

\* An owner whose intent is decided, or in the volume's hands, is dropped.
finishRecoveredDeleteIntent(f, i) ==
    [h \in Handles |-> IF h = i /\ f[h].own /\ f[h].settled
                       THEN [f[h] EXCEPT !.own = FALSE] ELSE f[h]]

SeqOf(set) == CHOOSE s \in [1..Cardinality(set) -> set] :
                  \A i, j \in DOMAIN s : i < j => s[i] < s[j]

-----------------------------------------------------------------------------
(* The volume (external).                                                  *)

Decide(i) ==
    /\ \/ /\ vol.intent[i] = "pending"
          /\ \E to \in Final : vol' = [vol EXCEPT !.intent[i] = to]
          /\ UNCHANGED left
       \/ /\ vol.intent[i] = "pending"
          /\ Spend("fail")
          /\ vol' = [vol EXCEPT !.intent[i] = "failed"]
       \/ /\ vol.intent[i] = "failed"
          /\ vol' = [vol EXCEPT !.intent[i] = "done"]
          /\ UNCHANGED left
    /\ UNCHANGED <<own, exp, rec, run, due, setting>>

\* A lost acknowledgement arrives after all.
AckArrives(i) ==
    /\ i \in vol.wire
    /\ vol' = [vol EXCEPT !.wire = @ \ {i},
                  !.intent[i] = IF @ \in Final THEN "acked" ELSE @]
    /\ UNCHANGED <<own, exp, rec, run, due, left, setting>>

\* The backend of the volume is another one: a restart of the server.
BackendChanges ==
    /\ Spend("change")
    /\ vol' = [vol EXCEPT !.backend = @ + 1]
    /\ UNCHANGED <<own, exp, rec, run, due, setting>>

\* An acknowledgement that is answered, and the ways one can be lost.
Acked(v, i) == [v EXCEPT !.intent[i] = "acked"]
AckLost(v, i) == {v, Acked(v, i), [v EXCEPT !.wire = @ \cup {i}]}

-----------------------------------------------------------------------------
(* An open with a delete intent, its close and the settlement after it.    *)

admitDeleteOpen(h) ==
    /\ own[h].pc = "new"
    /\ ~exp.stop /\ exp.ready /\ ~exp.busy
    /\ exp' = [exp EXCEPT !.active = @ + 1]
    /\ own' = [own EXCEPT ![h].pc = "open", ![h].own = TRUE, ![h].opening = TRUE]
    /\ UNCHANGED <<rec, run, vol, due, left, setting>>

\* The step of an owner that ends its command; an open leaves the gate.
endDeleteOpen(h, o) ==
    /\ own' = [own EXCEPT ![h] = [o EXCEPT !.opening = FALSE]]
    /\ exp' = [exp EXCEPT !.active = IF own[h].opening THEN @ - 1 ELSE @]

\* The open arms the intent, is refused, or is answered too late.
Armed(v, h) == [v EXCEPT !.intent[h] = "armed", !.ref[h] = TRUE]

openWithIntent(h) ==
    /\ own[h].pc = "open"
    /\ \/ /\ vol' = Armed(vol, h)
          /\ endDeleteOpen(h, [own[h] EXCEPT !.pc = "live"])
          /\ UNCHANGED left
       \/ /\ endDeleteOpen(h, [own[h] EXCEPT !.pc = "done", !.own = FALSE])
          /\ UNCHANGED <<vol, left>>
       \/ /\ Spend("lost")
          /\ vol' \in {vol, Armed(vol, h)}
          /\ own' = [own EXCEPT ![h].pc = "live"]
          /\ UNCHANGED exp
    /\ UNCHANGED <<rec, run, due, setting>>

\* The reference is closed; a close that is not answered keeps the owner.
Shut(v, h) == [v EXCEPT !.ref[h] = FALSE,
                        !.intent[h] = IF @ = "armed" THEN "pending" ELSE @]

closeReference(h) ==
    /\ own[h].pc = "live"
    /\ \/ /\ vol.intent[h] # "none"
          /\ vol' = Shut(vol, h)
          /\ own' = [own EXCEPT ![h].pc = "settle", ![h].settled = TRUE]
          /\ UNCHANGED <<exp, left>>
       \/ /\ vol.intent[h] = "none"
          /\ endDeleteOpen(h, [own[h] EXCEPT !.pc = "done", !.own = FALSE])
          /\ UNCHANGED <<vol, left>>
       \/ /\ Spend("lost")
          /\ vol' \in {vol, Shut(vol, h)}
          /\ endDeleteOpen(h, own[h])
    /\ UNCHANGED <<rec, run, due, setting>>

\* Settlement takes the recovery gate, or leaves the intent to recovery.
settleGate(h) ==
    /\ own[h].pc = "settle"
    /\ IF exp.busy
       THEN endDeleteOpen(h, [own[h] EXCEPT !.pc = "done"])
       ELSE /\ own' = [own EXCEPT ![h].pc = "settling"]
            /\ exp' = [exp EXCEPT !.busy = TRUE]
    /\ UNCHANGED <<rec, run, vol, due, left, setting>>

\* The settlement ends with the gate open and the owner kept or dropped.
Settled(h, o) ==
    /\ own' = [own EXCEPT ![h] = [o EXCEPT !.pc = "done", !.opening = FALSE]]
    /\ exp' = [exp EXCEPT !.busy = FALSE,
                          !.active = IF own[h].opening THEN @ - 1 ELSE @]

settleHandleDeleteIntent(h) ==
    LET o == own[h]  is == vol.intent[h]
    IN  /\ o.pc = "settling"
        /\ \/ /\ ~exp.ready \/ is = "failed" \/ (is = "acked" /\ ~(o.att.seen /\ o.att.issued))
              /\ Settled(h, o)
              /\ UNCHANGED <<vol, left>>
           \/ Spend("lost") /\ Settled(h, o) /\ UNCHANGED vol
           \/ /\ exp.ready
              /\ is \in {"armed", "pending"} \/ (is = "acked" /\ o.att.seen /\ o.att.issued)
              /\ Settled(h, [o EXCEPT !.own = FALSE])
              /\ UNCHANGED <<vol, left>>
           \/ /\ exp.ready /\ is \in Final
              /\ vol' = Acked(vol, h)
              /\ Settled(h, [o EXCEPT !.own = FALSE, !.att = [seen |-> TRUE, issued |-> TRUE]])
              /\ UNCHANGED left
           \/ /\ exp.ready /\ is \in Final
              /\ Spend("lost")
              /\ vol' \in AckLost(vol, h)
              /\ Settled(h, [o EXCEPT !.att = [seen |-> TRUE, issued |-> TRUE]])
        /\ UNCHANGED <<rec, run, due, setting>>

-----------------------------------------------------------------------------
(* RecoverDeleteIntents: one bounded pass, by the host or by Export.close. *)

\* The pass returns; in Export.close an error makes the whole call fail.
Return(e, failed) ==
    /\ exp' = [e EXCEPT !.busy = FALSE,
                        !.failed = @ \/ (run.by = "close" /\ (failed \/ run.failed)),
                        !.step = IF run.by = "close" THEN "finish" ELSE @]
    /\ run' = [run EXCEPT !.pc = "idle", !.failed = FALSE]

Begin(by) ==
    /\ exp' = [exp EXCEPT !.busy = TRUE, !.ready = FALSE]
    /\ run' = [pc |-> "begin", more |-> S.more, by |-> by, failed |-> FALSE]

HostRecovers ==
    /\ run.pc = "idle" /\ ~exp.busy /\ exp.step # "closed"
    /\ Spend("passes")
    /\ Begin("host")
    /\ UNCHANGED <<own, rec, vol, due, setting>>

\* The pass waits for the opens admitted before it; it may run out of time.
beginDeleteRecovery ==
    /\ run.pc = "begin"
    /\ \/ /\ exp.active = 0
          /\ run' = [run EXCEPT !.pc = IF exp.stop /\ exp.at = 0 /\ ~pendingDeleteError
                                      THEN "leave" ELSE "retired"]
          /\ UNCHANGED <<exp, left>>
       \/ exp.active > 0 /\ Spend("lost") /\ Return(exp, TRUE)
    /\ UNCHANGED <<own, rec, vol, due, setting>>

\* How the close of a recovery session ends: released, released with the
\* error of a settlement, or not released.
closeRecoverySession(released, failed) ==
    \/ released /\ ~failed /\ UNCHANGED left
    \/ failed /\ Spend("lost")

\* The session of an earlier backend; its failure does not stop the pass.
retryRetiredDeleteRecovery(next) ==
    IF ~exp.retired
    THEN run' = [run EXCEPT !.pc = next] /\ UNCHANGED <<exp, left>>
    ELSE \E released, failed \in BOOLEAN :
             /\ closeRecoverySession(released, failed)
             /\ exp' = IF released
                       THEN [exp EXCEPT !.retired = FALSE, !.slots = @ + 1] ELSE exp
             /\ run' = [run EXCEPT !.pc = next, !.failed = @ \/ failed]

Retired ==
    /\ \/ run.pc = "retired" /\ retryRetiredDeleteRecovery("backend")
       \/ run.pc = "leave" /\ retryRetiredDeleteRecovery("drop")
    /\ UNCHANGED <<own, rec, vol, due, setting>>

\* A stopping export with nothing to decide only closes its session.
LeaveSession ==
    /\ run.pc = "drop"
    /\ IF exp.cur = 0
       THEN Return(exp, FALSE) /\ UNCHANGED left
       ELSE \E released, failed \in BOOLEAN :
                /\ closeRecoverySession(released, failed)
                /\ Return([exp EXCEPT !.closing = ~released,
                                      !.cur = IF released THEN 0 ELSE @], failed)
    /\ UNCHANGED <<own, rec, vol, due, setting>>

\* A session of another backend is closed, or set aside while a slot is left.
ChangeBackend ==
    /\ run.pc = "backend"
    /\ \/ /\ exp.cur \in {0, vol.backend}
          /\ run' = [run EXCEPT !.pc = "session"]
          /\ UNCHANGED <<exp, rec, left>>
       \/ Spend("lost") /\ Return(exp, TRUE) /\ UNCHANGED rec
       \/ /\ exp.cur \notin {0, vol.backend}
          /\ \E released, failed \in BOOLEAN :
                 /\ closeRecoverySession(released, failed)
                 /\ IF ~released /\ (exp.retired \/ exp.slots = 0)
                    THEN Return([exp EXCEPT !.closing = TRUE], TRUE) /\ UNCHANGED rec
                    ELSE LET e == [exp EXCEPT !.cur = 0, !.closing = FALSE,
                                      !.retired = @ \/ ~released,
                                      !.slots = IF released THEN @ ELSE @ - 1]
                         IN  /\ rec' = IF rec.complete THEN NoScan ELSE rec
                             /\ IF released /\ failed
                                THEN Return(e, TRUE)
                                ELSE /\ exp' = e
                                     /\ run' = [run EXCEPT !.pc = "session", !.failed = @ \/ failed]
    /\ UNCHANGED <<own, vol, due, setting>>

\* A session is opened, a closing one is closed, a stale one begins to close.
prepareDeleteRecoverySession ==
    /\ run.pc = "session"
    /\ \/ /\ exp.cur = 0
          /\ exp' = [exp EXCEPT !.cur = vol.backend, !.closing = FALSE]
          /\ run' = [run EXCEPT !.pc = "scan"]
          /\ UNCHANGED <<rec, left>>
       \/ Spend("lost") /\ Return(exp, TRUE) /\ UNCHANGED rec
       \/ /\ exp.cur # 0 /\ exp.closing
          /\ \E released, failed \in BOOLEAN :
                 LET ok == released /\ ~failed /\ rec.complete
                 IN  /\ closeRecoverySession(released, failed)
                     /\ rec' = IF ok THEN NoScan ELSE rec
                     /\ Return([exp EXCEPT !.cur = IF released THEN 0 ELSE @,
                                           !.ready = ok], ~ok)
       \/ /\ exp.cur # 0 /\ ~exp.closing
          /\ run' = [run EXCEPT !.pc = "scan"]
          /\ UNCHANGED <<exp, rec, left>>
       \/ /\ exp.cur # 0 /\ ~exp.closing
          /\ Spend("stale")
          /\ Return([exp EXCEPT !.closing = TRUE], TRUE)
          /\ UNCHANGED rec
    /\ UNCHANGED <<own, vol, due, setting>>

\* The attempts retained when the scan begins are decided before any page.
captureLocals ==
    /\ run.pc = "scan"
    /\ run' = [run EXCEPT !.pc = "next"]
    /\ IF rec.cap
       THEN UNCHANGED <<rec, due>>
       ELSE /\ rec' = [rec EXCEPT !.locals = SeqOf(retainedDeleteAttempts), !.cap = TRUE]
            /\ due' = {i \in Ids : vol.intent[i] \in Final}
    /\ UNCHANGED <<own, exp, vol, left, setting>>

Exhausted ==
    /\ run.pc = "next" /\ run.more = 0
    /\ Return(exp, TRUE)
    /\ UNCHANGED <<own, rec, vol, due, left, setting>>

\* MUTANT: the cursor of a page is taken for the next entry to list.
ListedAfterNext ==
    {i \in Ids : i > rec.cursor + 1 /\ vol.intent[i] \notin {"none", "acked"}}

\* The next page; after the last one come the attempts retained meanwhile.
Listed == {i \in Ids : i > rec.cursor /\ vol.intent[i] \notin {"none", "acked"}}

listDeleteIntents ==
    /\ run.pc = "next" /\ run.more > 0 /\ rec.locals = <<>> /\ rec.page = <<>>
    /\ \/ Spend("lost") /\ Return(exp, TRUE) /\ UNCHANGED rec
       \/ /\ Listed # {}
          /\ rec' = [rec EXCEPT !.page = SubSeq(SeqOf(Listed), 1,
                        IF Cardinality(Listed) < run.more THEN Cardinality(Listed) ELSE run.more)]
          /\ UNCHANGED <<exp, run, left>>
       \/ /\ Listed = {} /\ retainedDeleteAttempts # {}
          /\ rec' = [rec EXCEPT !.locals = SeqOf(retainedDeleteAttempts)]
          /\ UNCHANGED <<exp, run, left>>
       \/ /\ Listed = {} /\ retainedDeleteAttempts = {}
          /\ rec' = [rec EXCEPT !.complete = TRUE]
          /\ run' = [run EXCEPT !.pc = "done"]
          /\ UNCHANGED <<exp, left>>
    /\ UNCHANGED <<own, vol, due, setting>>

\* The scan is complete once its session is closed too.
finishScan ==
    /\ run.pc = "done"
    /\ \E released, failed \in BOOLEAN :
           /\ closeRecoverySession(released, failed)
           /\ rec' = IF released /\ ~failed THEN NoScan ELSE rec
           /\ Return([exp EXCEPT !.cur = IF released THEN 0 ELSE @,
                                 !.closing = ~released,
                                 !.ready = released /\ ~failed], failed)
    /\ UNCHANGED <<own, vol, due, setting>>

\* What the pass learns of one intent: nothing it may act on, that it is
\* decided or in the volume's hands, or a final outcome to acknowledge.
Undecided(i, att) ==
    \/ vol.intent[i] = "failed"
    \/ vol.intent[i] = "pending" /\ att.seen
    \/ vol.intent[i] \in Final \cup {"acked"} /\ deleteIntentOwned(i)
    \/ vol.intent[i] = "acked" /\ ~(att.seen /\ att.issued)

Decided(i, att) ==
    \/ vol.intent[i] \in {"armed", "pending"} /\ ~att.seen
    \/ vol.intent[i] = "acked" /\ ~deleteIntentOwned(i) /\ att.seen /\ att.issued

Acknowledgeable(i) == vol.intent[i] \in Final /\ ~deleteIntentOwned(i)

\* One intent is processed: done, or an error that leaves the attempt kept.
Issued == [seen |-> TRUE, issued |-> TRUE]
processRecoveredDeleteIntent(i, att, kept, done) ==
    \/ ~done /\ kept = att /\ Undecided(i, att) /\ UNCHANGED <<vol, left>>
    \/ ~done /\ kept = att /\ Spend("lost") /\ UNCHANGED vol
    \/ done /\ kept = att /\ Decided(i, att) /\ UNCHANGED <<vol, left>>
    \/ done /\ kept = Issued /\ Acknowledgeable(i) /\ vol' = Acked(vol, i) /\ UNCHANGED left
    \/ ~done /\ kept = Issued /\ Acknowledgeable(i) /\ Spend("lost") /\ vol' \in AckLost(vol, i)

processLocal ==
    /\ run.pc = "next" /\ run.more > 0 /\ rec.locals # <<>>
    /\ LET h == Head(rec.locals)
       IN  \E kept \in {own[h].att, Issued}, done \in BOOLEAN :
               /\ processRecoveredDeleteIntent(h, own[h].att, kept, done)
               /\ IF done
                  THEN /\ own' = finishRecoveredDeleteIntent(own, h)
                       /\ rec' = [rec EXCEPT !.locals = Tail(@)]
                       /\ run' = [run EXCEPT !.more = @ - 1]
                       /\ UNCHANGED exp
                  ELSE /\ own' = [own EXCEPT ![h].att = kept]
                       /\ Return(exp, TRUE) /\ UNCHANGED rec
    /\ UNCHANGED <<due, setting>>

\* The attempt of a page's entry is the endpoint's until it is processed.
pageAttempt(i) == IF exp.at = 0 THEN NoAttempt ELSE exp.att
keptAttempt(i, att) == [exp EXCEPT !.at = i, !.att = att]

processPage ==
    /\ run.pc = "next" /\ run.more > 0 /\ rec.locals = <<>> /\ rec.page # <<>>
    /\ LET i == Head(rec.page)
       IN  \E kept \in {pageAttempt(i), Issued}, done \in BOOLEAN :
               /\ processRecoveredDeleteIntent(i, pageAttempt(i), kept, done)
               /\ IF done
                  THEN /\ own' = finishRecoveredDeleteIntent(own, i)
                       /\ exp' = [exp EXCEPT !.at = 0, !.att = NoAttempt]
                       /\ rec' = [rec EXCEPT !.page = Tail(@),
                                     !.cursor = IF Len(rec.page) = 1 THEN i ELSE @]
                       /\ run' = [run EXCEPT !.more = @ - 1]
                  ELSE Return(keptAttempt(i, kept), TRUE) /\ UNCHANGED <<own, rec>>
    /\ UNCHANGED <<due, setting>>

-----------------------------------------------------------------------------
(* The export is closed: a pass where one is needed, then what it retains. *)

stopExport ==
    /\ exp.step = "none" /\ S.stops
    /\ exp' = [exp EXCEPT !.stop = TRUE, !.step = "recover"]
    /\ UNCHANGED <<own, rec, run, vol, due, left, setting>>

\* Export.close runs a pass while owners or recovery sessions are left.
closeRecovers ==
    /\ exp.step = "recover"
    /\ IF pendingDeleteError \/ (~exp.ready /\ (exp.cur # 0 \/ exp.retired))
       THEN IF exp.busy
            THEN exp' = [exp EXCEPT !.step = "finish", !.failed = TRUE] /\ UNCHANGED run
            ELSE Begin("close")
       ELSE exp' = [exp EXCEPT !.step = "finish"] /\ UNCHANGED run
    /\ UNCHANGED <<own, rec, vol, due, left, setting>>

\* The end of Export.close: the export goes, or another call may retry.
Closed(e, failed) ==
    [e EXCEPT !.busy = FALSE, !.failed = FALSE,
              !.step = IF failed \/ e.failed \/ e.active > 0 \/ pendingDeleteError
                       THEN "recover" ELSE "closed"]

closeDeleteRecovery ==
    /\ exp.step = "finish" /\ run.pc = "idle"
    /\ \/ exp.busy /\ exp' = [exp EXCEPT !.failed = FALSE, !.step = "recover"]
          /\ UNCHANGED <<own, run, vol, left>>
       \/ /\ ~exp.busy /\ exp.cur = 0 /\ ~exp.retired /\ exp.at = 0
          /\ exp' = Closed(exp, FALSE)
          /\ UNCHANGED <<own, run, vol, left>>
       \/ /\ ~exp.busy /\ ~(exp.cur = 0 /\ ~exp.retired /\ exp.at = 0)
          /\ exp' = [exp EXCEPT !.busy = TRUE, !.step = "retired"]
          /\ UNCHANGED <<own, run, vol, left>>
    /\ UNCHANGED <<rec, due, setting>>

closeRetired ==
    /\ exp.step = "retired"
    /\ IF ~exp.retired
       THEN exp' = [exp EXCEPT !.step = "attempt"] /\ UNCHANGED left
       ELSE \E released, failed \in BOOLEAN :
                /\ closeRecoverySession(released, failed)
                /\ exp' = [exp EXCEPT !.step = "attempt", !.failed = @ \/ failed,
                              !.retired = ~released, !.slots = IF released THEN @ + 1 ELSE @]
    /\ UNCHANGED <<own, rec, run, vol, due, setting>>

\* The attempt left by a pass is decided, its place in the page is not left.
closeAttempt ==
    /\ exp.step = "attempt"
    /\ \/ /\ exp.at = 0
          /\ exp' = [exp EXCEPT !.step = "session"]
          /\ UNCHANGED <<own, vol, left>>
       \/ /\ exp.at # 0 /\ exp.cur = 0
          /\ exp' = Closed(exp, TRUE)
          /\ UNCHANGED <<own, vol, left>>
       \/ /\ exp.at # 0 /\ exp.cur # 0
          /\ \E kept \in {exp.att, Issued}, done \in BOOLEAN :
                 /\ processRecoveredDeleteIntent(exp.at, exp.att, kept, done)
                 /\ IF done
                    THEN /\ own' = finishRecoveredDeleteIntent(own, exp.at)
                         /\ exp' = [exp EXCEPT !.at = 0, !.att = NoAttempt, !.step = "session"]
                    ELSE exp' = Closed(keptAttempt(exp.at, kept), TRUE) /\ UNCHANGED own
    /\ UNCHANGED <<rec, run, due, setting>>

closeSession ==
    /\ exp.step = "session"
    /\ IF exp.cur = 0
       THEN exp' = Closed(exp, FALSE) /\ UNCHANGED left
       ELSE \E released, failed \in BOOLEAN :
                /\ closeRecoverySession(released, failed)
                /\ exp' = Closed([exp EXCEPT !.cur = IF released THEN 0 ELSE @,
                                             !.closing = ~released], failed)
    /\ UNCHANGED <<own, rec, run, vol, due, setting>>

\* The endpoint's process dies. The volume ends its references with it.
Crash ==
    /\ Spend("crash")
    /\ own' = [h \in Handles |-> [NoOwner EXCEPT !.pc = IF own[h].pc = "new" THEN "new" ELSE "done"]]
    /\ exp' = [busy |-> FALSE, ready |-> FALSE, active |-> 0, stop |-> FALSE,
               cur |-> 0, closing |-> FALSE, retired |-> FALSE, slots |-> S.slots,
               at |-> 0, att |-> NoAttempt, step |-> "none", failed |-> FALSE]
    /\ rec' = NoScan
    /\ run' = [pc |-> "idle", more |-> 0, by |-> "host", failed |-> FALSE]
    /\ vol' = [vol EXCEPT !.ref = [h \in Handles |-> FALSE],
                  !.intent = [i \in Ids |-> IF @[i] = "armed" THEN "pending" ELSE @[i]]]
    /\ due' = {}
    /\ UNCHANGED setting

Owner(h) ==
    \/ admitDeleteOpen(h) \/ openWithIntent(h) \/ closeReference(h)
    \/ settleGate(h) \/ settleHandleDeleteIntent(h)

Pass ==
    \/ beginDeleteRecovery \/ Retired \/ LeaveSession \/ ChangeBackend
    \/ prepareDeleteRecoverySession \/ captureLocals \/ Exhausted
    \/ listDeleteIntents \/ processLocal \/ processPage \/ finishScan

Close ==
    \/ closeRecovers \/ closeDeleteRecovery \/ closeRetired \/ closeAttempt \/ closeSession

Next ==
    \/ \E h \in Handles : Owner(h)
    \/ HostRecovers \/ Pass
    \/ stopExport \/ Close \/ Crash
    \/ \E i \in Ids : Decide(i) \/ AckArrives(i)
    \/ BackendChanges

Spec == Init /\ [][Next]_vars

FairSpec ==
    /\ Spec
    /\ WF_vars(Pass) /\ WF_vars(Close)
    /\ \A h \in Handles : WF_vars(Owner(h))
    /\ \A i \in Ids : WF_vars(Decide(i))

-----------------------------------------------------------------------------
(* Properties.                                                             *)

\* An intent is acknowledged only after the reference it was armed with has
\* settled, and an owner that still answers for it can tell that its own
\* acknowledgement removed it: it, or the attempt of the running scan, saw
\* the final outcome and sent the acknowledgement (ackDeleteIntent,
\* deleteIntentOwned, delete_intent_recovery.go). Otherwise the owner could
\* never be dropped.
AcksOwned ==
    \A h \in Handles :
        own[h].own /\ vol.intent[h] = "acked" =>
            /\ own[h].settled
            /\ \/ own[h].att.seen /\ own[h].att.issued
               \/ exp.at = h /\ exp.att.seen /\ exp.att.issued

\* Opens with a delete intent are admitted again only when every intent that
\* was final when the scan began has been acknowledged, whatever passes,
\* errors and backends the scan took (RecoverDeleteIntents).
ReadyMeansRecovered ==
    exp.ready => \A i \in due : vol.intent[i] = "acked"

\* "Once cleanup starts, failed cleanup remains owned by the Export and can
\* be retried by another call" (Unpublish, server.go): once the volume no
\* longer fails, retrying Export.close closes the export.
RetriedCloseEnds == exp.stop ~> (exp.step = "closed" \/ ~exp.stop)

=============================================================================
