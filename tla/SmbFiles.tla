------------------------------ MODULE SmbFiles ------------------------------
(***************************************************************************)
(* The file half of the SMB endpoint (packages/smb): one tree of one       *)
(* session, its handles, the first-in first-out gate in front of every     *)
(* handle, the owner that keeps a change until its outcome is known, the   *)
(* ledger of those owners, and the way a handle, and then the tree, is     *)
(* closed.                                                                 *)
(*                                                                         *)
(* Every command (CREATE, WRITE, a change of name, FLUSH, READ, CLOSE) is  *)
(* an actor; the close of the tree is the actor T.  The retained file      *)
(* session behind the tree is external: a call runs once or not at all,    *)
(* its answer may be lost, and a lost call may still arrive later.         *)
(***************************************************************************)
EXTENDS Naturals, Sequences, FiniteSets

CONSTANTS
    Reqs,        \* the commands, numbered from 1; CREATE r makes handle r
    Settings     \* name -> the commands, the handles open at the start, bounds

VARIABLES
    hand,        \* the handles of the tree
    tree,        \* admission to the tree and what its close has reached
    req,         \* the commands and the closer: where each one stands
    own,         \* the owner a command made, with its record in the ledger
    be,          \* the file session behind the tree (external)
    left,        \* the faults and interferences still to come
    setting      \* which of Settings this behaviour runs

vars == <<hand, tree, req, own, be, left, setting>>

-----------------------------------------------------------------------------
T == 0
Actors == Reqs \cup {T}
S == Settings[setting]

\* The number of times a refused change is observed again and retried.
maxMutationConditionRetries == 2

NoHandle == [st |-> "none", ref |-> FALSE, pend |-> FALSE, life |-> {},
             fenced |-> FALSE, queue |-> <<>>, run |-> 0, wr |-> 0, fl |-> 0,
             att |-> 0, ep |-> 0, adm |-> FALSE, remint |-> 0, rel |-> FALSE,
             dir |-> 0]
Opened == [NoHandle EXCEPT !.st = "live", !.ref = TRUE]

\* A record of the ledger: what is known of one change or one flush.
NoRecord == [in |-> FALSE, exec |-> "unknown", term |-> FALSE, failed |-> FALSE,
             fin |-> FALSE, resp |-> "notSent", paid |-> FALSE]
NoOwner == [ver |-> 0, n |-> 0, disp |-> FALSE, settled |-> FALSE,
            retired |-> FALSE, good |-> TRUE, rec |-> NoRecord]

NoReq == [pc |-> "new", h |-> 0, seq |-> 0, err |-> "", again |-> FALSE, last |-> FALSE,
          out |-> ""]

NoRef == [open |-> FALSE, gen |-> 1, clo |-> "none", behind |-> FALSE]

Init ==
    /\ setting \in DOMAIN Settings
    /\ hand = [h \in Reqs |-> IF h \in S.open THEN Opened ELSE NoHandle]
    /\ tree = [stop |-> FALSE, active |-> 0, seq |-> 0, todo |-> {},
               bytes |-> 0, closed |-> FALSE]
    /\ req = [p \in Actors |-> NoReq]
    /\ own = [r \in Reqs |-> NoOwner]
    /\ be = [acts |-> [r \in Reqs |-> <<>>], ver |-> 1, node |-> S.node,
             applied |-> <<>>, epoch |-> 1, closed |-> FALSE,
             refs |-> [h \in Reqs |-> [NoRef EXCEPT !.open = h \in S.open]]]
    /\ left = S.budget

Spend(kind) == left[kind] > 0 /\ left' = [left EXCEPT ![kind] = @ - 1]

Op(r) == S.script[r].op
On(p) == req[p].h
Changes(op) == op \in {"write", "info", "name"}
Queued(op) == Changes(op) \/ op \in {"read", "query", "list", "flush"}

Goto(p, pc) == req' = [req EXCEPT ![p].pc = pc]

-----------------------------------------------------------------------------
(* What a command must still find true of its handle: the tree admits file *)
(* work and the handle is live.                                            *)

\* A file command may act only on a live handle of a tree that is not fenced.
checkFileIOIdentity(h) == ~tree.stop /\ hand[h].st = "live"

\* The handle's turn goes to the next ticket in the order of admission.
startFileIO(hd) ==
    IF hd.queue = <<>> THEN [hd EXCEPT !.run = 0]
    ELSE [hd EXCEPT !.run = Head(hd.queue), !.queue = Tail(hd.queue)]

\* A ticket given up: the running one passes the turn on, a queued one leaves.
ticketFinish(hd, r) ==
    IF hd.run = r THEN startFileIO(hd)
    ELSE [hd EXCEPT !.queue = SelectSeq(@, LAMBDA q : q # r)]

\* A handle fenced before it closes: what has not started is dropped.
Dropped(hd) ==
    {q \in Reqs : \/ \E i \in DOMAIN hd.queue : hd.queue[i] = q
                  \/ hd.run = q /\ req[q].pc = "wait"}

fenceHandleFileIO(hd) ==
    [hd EXCEPT !.fenced = TRUE, !.queue = <<>>,
               !.run = IF hd.run \in Dropped(hd) THEN 0 ELSE @]

\* What the commands dropped by a fence are told.
Refused(f, dropped) ==
    [p \in Actors |-> IF p \in dropped THEN [f[p] EXCEPT !.pc = "dropped"] ELSE f[p]]

endFileWork(t, n) == [t EXCEPT !.active = @ - n]

-----------------------------------------------------------------------------
(* The file session behind the tree (external).                            *)

ActOf(r) == be.acts[r][own[r].n]

\* A change takes effect when its condition is the present one.
Ran(b, r) ==
    LET i == own[r].n
    IN  IF own[r].ver = b.ver /\ b.refs[On(r)].open
        THEN [b EXCEPT !.acts[r][i] = "done", !.applied = Append(@, r)]
        ELSE [b EXCEPT !.acts[r][i] = "no"]

\* An open takes effect when the name still is what the command observed.
RanOpen(b, r) ==
    IF b.node = own[r].ver /\ ~b.closed
    THEN [b EXCEPT !.acts[r][1] = "done", !.refs[r].open = TRUE,
                   !.node = IF @ = 0 THEN 1 ELSE @]
    ELSE [b EXCEPT !.acts[r][1] = "no"]

RanAny(b, r) == IF Op(r) = "create" THEN RanOpen(b, r) ELSE Ran(b, r)

\* A close releases the reference; its publication may remain behind.  A
\* close that is refused ends the generation of its attempt.
RanClose(b, h, how) ==
    [b EXCEPT !.refs[h] =
        IF how = "refused" THEN [@ EXCEPT !.gen = @ + 1, !.clo = "none"]
        ELSE [@ EXCEPT !.open = FALSE, !.clo = "done", !.behind = how = "behind"]]

\* How a close may turn out: all but the first are faults.
Closings == {"whole", "behind", "refused"}

\* The receipt of an action: one that has not arrived is not bound to it.
Receipt(out) ==
    CASE out \in {"none", "wire"} -> "unseen"
      [] out = "run" -> "pending"
      [] out = "done" -> "completed"
      [] out = "no" -> "not"

\* Only a receipt bound to the command's own operation says it never ran.
KnownNotExecutedUnbound(out) == Receipt(out) \in {"not", "unseen"}
KnownNotExecuted(out) == Receipt(out) = "not"

\* A lost call arrives and is admitted, then runs.
Arrive(r) ==
    /\ be.acts[r] # <<>>
    /\ \E i \in DOMAIN be.acts[r] :
          /\ be.acts[r][i] = "wire"
          /\ be' = [be EXCEPT !.acts[r][i] = IF be.closed THEN "no" ELSE "run"]
    /\ UNCHANGED <<hand, tree, req, own, left, setting>>

Late(r) ==
    /\ be.acts[r] # <<>>
    /\ ActOf(r) = "run"
    /\ be' = RanAny(be, r)
    /\ UNCHANGED <<hand, tree, req, own, left, setting>>

LateClose(h) ==
    /\ be.refs[h].open /\ be.refs[h].clo \in {"wire", "run"}
    /\ be' = RanClose(be, h, "whole")
    /\ UNCHANGED <<hand, tree, req, own, left, setting>>

\* Another client changes the file's metadata, or takes or makes the name.
Other ==
    /\ Spend("other")
    /\ \/ be' = [be EXCEPT !.ver = @ + 1]
       \/ be' = [be EXCEPT !.node = IF @ = 0 THEN 1 ELSE 0]
    /\ UNCHANGED <<hand, tree, req, own, setting>>

\* The session moves to another action epoch.
Renewed ==
    /\ Spend("renew")
    /\ be' = [be EXCEPT !.epoch = @ + 1]
    /\ UNCHANGED <<hand, tree, req, own, setting>>

-----------------------------------------------------------------------------
(* The ledger and the owners kept in it.                                   *)

Terminal(rec) == rec.term /\ rec.fin /\ rec.paid

\* A record that is terminal, or gone, is not changed any more.
update(rec, new) == IF ~rec.in \/ Terminal(rec) THEN rec ELSE new

releasePayload(rec) == IF rec.in THEN [rec EXCEPT !.paid = TRUE] ELSE rec

removeSuccess(rec) ==
    IF rec.in /\ ~rec.failed /\ rec.term /\ rec.resp = "sent"
    THEN [rec EXCEPT !.in = FALSE] ELSE rec

\* The change is known to have run, or known not to run.
Completed(o) ==
    [o EXCEPT !.settled = TRUE,
              !.rec = releasePayload(update(o.rec, [o.rec EXCEPT !.term = TRUE,
                                                        !.exec = "completed"]))]
Rejected(o) ==
    [o EXCEPT !.settled = TRUE,
              !.rec = releasePayload(update(o.rec, [o.rec EXCEPT !.term = TRUE,
                                                        !.exec = "notExecuted"]))]
Failed(o) ==
    [o EXCEPT !.good = FALSE, !.rec = update(o.rec, [o.rec EXCEPT !.failed = TRUE])]

Confirmed(o) ==
    [o EXCEPT !.settled = TRUE, !.rec = update(o.rec, [o.rec EXCEPT !.term = TRUE])]

\* The reference is released: an owner that is not settled stays a failure.
Retired(o) ==
    LET good == o.good /\ o.settled
    IN  [o EXCEPT !.retired = TRUE, !.good = good,
                  !.rec = removeSuccess(releasePayload(update(o.rec,
                     [o.rec EXCEPT !.term = TRUE, !.failed = @ \/ ~good])))]

\* What became of the answer.
Answered(o, how) ==
    [o EXCEPT !.good = @ /\ how = "sent",
              !.rec = removeSuccess(update(o.rec,
                 [o.rec EXCEPT !.fin = TRUE, !.resp = how,
                               !.failed = @ \/ how # "sent"]))]

pendingUntilTold(o) == ~o.settled /\ ~o.retired /\ o.good
pending(o) == ~o.settled /\ ~o.retired

\* The two owners a handle keeps are retired with it.
retirePendingFileIO(f, hd) ==
    [r \in Reqs |-> IF r \in {hd.wr, hd.fl} THEN Retired(f[r]) ELSE f[r]]

Records == {r \in Reqs : own[r].rec.in}

\* A new owner has a record in the ledger, which has room for it.
reserveIORecord(r, ver, paid) ==
    /\ Cardinality(Records) < S.owners
    /\ own' = [own EXCEPT ![r] = [NoOwner EXCEPT !.ver = ver, !.n = 1,
                  !.rec = [NoRecord EXCEPT !.in = TRUE, !.paid = paid]]]

\* The host takes over the failures whose facts are final.
AcknowledgeWriteFailures(r) ==
    /\ own[r].rec.in /\ own[r].rec.failed /\ Terminal(own[r].rec)
    /\ own' = [own EXCEPT ![r].rec.in = FALSE]
    /\ UNCHANGED <<hand, tree, req, be, left, setting>>

-----------------------------------------------------------------------------
(* Admission of a command to its handle, its turn and its end.             *)

\* The handles the client was told of and has not closed.
Known(h) == h \in S.open \/ (req[h].pc = "done" /\ req[h].out = "ok")

Reply(f, r, out) == [f EXCEPT ![r].pc = "reply", ![r].out = out]

\* A command that holds its handle's turn ends: the turn is passed on.
EndIO(r, out) ==
    /\ hand' = [hand EXCEPT ![On(r)] = ticketFinish(hand[On(r)], r)]
    /\ tree' = endFileWork(tree, 1)
    /\ req' = Reply(req, r, out)

\* READ, WRITE, FLUSH and SET_INFO join the queue of the handle.
admitFileIO(r) ==
    LET h == S.script[r].h  hd == hand[h]
    IN  /\ req[r].pc = "new" /\ Queued(Op(r))
        /\ Known(h)
        /\ IF /\ checkFileIOIdentity(h) /\ ~hd.fenced
              /\ Len(hd.queue) + (IF hd.run = 0 THEN 0 ELSE 1) < S.queue
           THEN /\ hand' = [hand EXCEPT ![h] =
                      IF hd.run = 0 THEN [hd EXCEPT !.run = r]
                      ELSE [hd EXCEPT !.queue = Append(@, r)]]
                /\ tree' = [tree EXCEPT !.active = @ + 1, !.seq = @ + 1]
                /\ req' = [req EXCEPT ![r].pc = "wait", ![r].h = h,
                                      ![r].seq = tree.seq + 1]
           ELSE req' = Reply(req, r, "err") /\ UNCHANGED <<hand, tree>>
        /\ UNCHANGED <<own, be, left, setting>>

\* Its turn comes, or the command is given up while it waits.
ticketWait(r) ==
    /\ req[r].pc = "wait"
    /\ \/ /\ hand[On(r)].run = r
          /\ IF checkFileIOIdentity(On(r))
             THEN Goto(r, "settle") /\ UNCHANGED <<hand, tree>>
             ELSE EndIO(r, "err")
          /\ UNCHANGED left
       \/ Spend("cancel") /\ EndIO(r, "err")
    /\ UNCHANGED <<own, be, setting>>

\* A command dropped by a fence; the fence has ended its file work.
ticketDropped(r) ==
    /\ req[r].pc = "dropped"
    /\ req' = Reply(req, r, "err")
    /\ UNCHANGED <<hand, tree, own, be, left, setting>>

\* The answer goes out, or cannot be sent.
recordResponse(r) ==
    /\ req[r].pc = "reply"
    /\ \/ /\ own' = [own EXCEPT ![r] = Answered(@, "sent")]
          /\ req' = [req EXCEPT ![r].pc = "done"]
          /\ UNCHANGED left
       \/ /\ Spend("cancel")
          /\ own' = [own EXCEPT ![r] = Answered(@, "failed")]
          /\ req' = [req EXCEPT ![r].pc = "done", ![r].out = "unsent"]
    /\ UNCHANGED <<hand, tree, be, setting>>

-----------------------------------------------------------------------------
(* What an earlier command left undecided is settled first, by the next    *)
(* command of the handle or by its close.                                  *)

\* A step that only moves actor p and its owners.
Settling(p, pc, err) ==
    /\ req' = [req EXCEPT ![p].pc = pc, ![p].err = IF err THEN "io" ELSE @]
    /\ UNCHANGED <<hand, tree, setting>>

\* A pending change is looked up, without running it again.
reconcile(p) ==
    LET h == On(p)  w == hand[h].wr
    IN  /\ req[p].pc = "settle"
        /\ IF w = 0 \/ ~pending(own[w])
           THEN Settling(p, "settleFlush", FALSE) /\ UNCHANGED <<own, be, left>>
           ELSE /\ UNCHANGED be
                /\ \/ /\ ~checkFileIOIdentity(h)
                      /\ own' = [own EXCEPT ![w] = Failed(@)]
                      /\ Settling(p, "settleFlush", TRUE)
                      /\ UNCHANGED left
                   \/ /\ checkFileIOIdentity(h)
                      /\ Spend("lost")
                      /\ own' = [own EXCEPT ![w] = Failed(@)]
                      /\ Settling(p, "settleFlush", TRUE)
                   \/ /\ checkFileIOIdentity(h)
                      /\ KnownNotExecuted(ActOf(w))
                      /\ own' = [own EXCEPT ![w] = Rejected(@)]
                      /\ Settling(p, "settleFlush", TRUE)
                      /\ UNCHANGED left
                   \/ /\ checkFileIOIdentity(h)
                      /\ Receipt(ActOf(w)) = "unseen" /\ ~KnownNotExecuted(ActOf(w))
                      /\ own' = [own EXCEPT ![w] = Failed(@)]
                      /\ Settling(p, "settleFlush", TRUE)
                      /\ UNCHANGED left
                   \/ /\ checkFileIOIdentity(h)
                      /\ Receipt(ActOf(w)) \in {"completed", "pending"}
                      /\ Settling(p, "settleReplay", FALSE)
                      /\ UNCHANGED <<own, left>>

\* The same action is sent again for its result; it cannot run twice.
Replayed(p, w, out) ==
    \/ /\ ~checkFileIOIdentity(On(p))
       /\ out = "err"
       /\ own' = [own EXCEPT ![w] = Failed(@)]
       /\ UNCHANGED <<be, left>>
    \/ /\ checkFileIOIdentity(On(p))
       /\ be' = IF ActOf(w) = "done" THEN be ELSE Ran(be, w)
       /\ \/ /\ own' = [own EXCEPT ![w] =
                    IF be'.acts[w][own[w].n] = "done" THEN Completed(@) ELSE Failed(@)]
             /\ out = IF be'.acts[w][own[w].n] = "done" THEN "ok" ELSE "err"
             /\ UNCHANGED left
          \/ /\ out = "err" /\ Spend("lost")
             /\ own' = [own EXCEPT ![w] = Failed(@)]

settleReplay(p) ==
    /\ req[p].pc = "settleReplay"
    /\ \E out \in {"ok", "err"} :
           Replayed(p, hand[On(p)].wr, out) /\ Settling(p, "settleFlush", out = "err")

\* A flush that was not confirmed is tried again.
settleFlush(p) ==
    LET h == On(p)  f == hand[h].fl
    IN  /\ req[p].pc = "settleFlush"
        /\ IF f = 0 \/ ~pending(own[f])
           THEN Settling(p, "settled", FALSE) /\ UNCHANGED <<own, left>>
           ELSE \/ /\ checkFileIOIdentity(h)
                   /\ own' = [own EXCEPT ![f] = Confirmed(@)]
                   /\ Settling(p, "settled", FALSE)
                   /\ UNCHANGED left
                \/ /\ IF checkFileIOIdentity(h) THEN Spend("lost") ELSE UNCHANGED left
                   /\ own' = [own EXCEPT ![f] = Failed(@)]
                   /\ Settling(p, "settled", TRUE)
        /\ UNCHANGED be

\* A command whose predecessor could not be settled, or is refused now, is
\* not run; a close goes on.
settlePendingFileIO(p) ==
    /\ req[p].pc = "settled"
    /\ IF p \in hand[On(p)].life THEN Goto(p, "prepared") /\ UNCHANGED <<hand, tree>>
       ELSE IF req[p].err # "" THEN EndIO(p, "err")
       ELSE Goto(p, "start") /\ UNCHANGED <<hand, tree>>
    /\ UNCHANGED <<own, be, left, setting>>

-----------------------------------------------------------------------------
(* READ, FLUSH, WRITE and the changes of name on the handle's turn.        *)

\* A command that only reads answers from the reference.
Reads(r) ==
    /\ \/ checkFileIOIdentity(On(r)) /\ EndIO(r, "ok") /\ UNCHANGED left
       \/ ~checkFileIOIdentity(On(r)) /\ EndIO(r, "err") /\ UNCHANGED left
       \/ checkFileIOIdentity(On(r)) /\ Spend("lost") /\ EndIO(r, "err")
    /\ UNCHANGED <<own, be, setting>>

readFile(r) == req[r].pc = "start" /\ Op(r) = "read" /\ Reads(r)
queryFileInfo(r) == req[r].pc = "start" /\ Op(r) = "query" /\ Reads(r)

\* QUERY_DIRECTORY keeps one unit of the server's directory bytes for the
\* cursor and one for the snapshot; a new scan gives the old snapshot back.
reserveDirectoryCursor(r) ==
    LET dir == hand[On(r)].dir  need == IF dir = 0 THEN 1 ELSE 0
    IN  /\ req[r].pc = "start" /\ Op(r) = "list"
        /\ \/ dir = 2 /\ Reads(r)
           \/ /\ tree.bytes + need > S.bytes
              /\ EndIO(r, "err")
              /\ UNCHANGED <<own, be, left, setting>>
           \/ /\ tree.bytes + need <= S.bytes
              /\ hand' = [hand EXCEPT ![On(r)].dir = 1]
              /\ tree' = [tree EXCEPT !.bytes = IF dir = 2 THEN @ - 1 ELSE @ + need]
              /\ Goto(r, "capture")
              /\ UNCHANGED <<own, be, left, setting>>

\* The capture stages more than the snapshot it leaves.
captureDirectorySnapshot(r) ==
    /\ req[r].pc = "capture"
    /\ IF checkFileIOIdentity(On(r)) /\ tree.bytes + 2 <= S.bytes
       THEN /\ tree' = [tree EXCEPT !.bytes = @ + 2]
            /\ Goto(r, "collect")
            /\ UNCHANGED hand
       ELSE EndIO(r, "err")
    /\ UNCHANGED <<own, be, left, setting>>

collectDirectorySnapshot(r) ==
    /\ req[r].pc = "collect"
    /\ \/ /\ hand' = [hand EXCEPT ![On(r)].dir = 2]
          /\ tree' = [tree EXCEPT !.bytes = @ - 1]
          /\ Goto(r, "page")
          /\ UNCHANGED left
       \/ /\ Spend("lost")
          /\ hand' = [hand EXCEPT ![On(r)] = ticketFinish(@, r)]
          /\ tree' = [endFileWork(tree, 1) EXCEPT !.bytes = @ - 2]
          /\ req' = Reply(req, r, "err")
    /\ UNCHANGED <<own, be, setting>>

directoryPage(r) == req[r].pc = "page" /\ Reads(r)

reserveFlushOwner(r) ==
    /\ req[r].pc = "start" /\ Op(r) = "flush"
    /\ IF Cardinality(Records) < S.owners
       THEN /\ reserveIORecord(r, 0, TRUE)
            /\ hand' = [hand EXCEPT ![On(r)].fl = r]
            /\ Goto(r, "confirm")
            /\ UNCHANGED tree
       ELSE EndIO(r, "err") /\ UNCHANGED own
    /\ UNCHANGED <<be, left, setting>>

flushConfirm(r) ==
    /\ req[r].pc = "confirm"
    /\ \/ /\ checkFileIOIdentity(On(r))
          /\ own' = [own EXCEPT ![r] = Confirmed(@)]
          /\ EndIO(r, "ok")
          /\ UNCHANGED left
       \/ /\ IF checkFileIOIdentity(On(r)) THEN Spend("lost") ELSE UNCHANGED left
          /\ own' = [own EXCEPT ![r] = Failed(@)]
          /\ EndIO(r, "err")
    /\ UNCHANGED <<be, setting>>

\* The owner of a change is made, with its condition, before it is sent.
reserveMutationCommand(r, ver) ==
    IF checkFileIOIdentity(On(r)) /\ Cardinality(Records) < S.owners
    THEN /\ reserveIORecord(r, ver, FALSE)
         /\ hand' = [hand EXCEPT ![On(r)].wr = r]
         /\ be' = [be EXCEPT !.acts[r] = <<"none">>]
         /\ Goto(r, "authorize")
         /\ UNCHANGED <<tree, left, setting>>
    ELSE EndIO(r, "err") /\ UNCHANGED <<own, be, left, setting>>

\* The condition a write is made under is the metadata observed just before.
writeFile(r) ==
    req[r].pc = "start" /\ Op(r) = "write" /\ reserveMutationCommand(r, be.ver)
setFileInfo(r) ==
    req[r].pc = "start" /\ Op(r) = "info" /\ reserveMutationCommand(r, be.ver)

\* A change of name is made from a path captured component by component ...
captureReferenceName(r) ==
    /\ req[r].pc = "start" /\ Op(r) = "name"
    /\ IF checkFileIOIdentity(On(r))
       THEN /\ own' = [own EXCEPT ![r].ver = be.ver]
            /\ Goto(r, "validate")
            /\ UNCHANGED <<hand, tree>>
       ELSE EndIO(r, "err") /\ UNCHANGED own
    /\ UNCHANGED <<be, left, setting>>

\* ... the whole path is observed again ...
validateReferenceName(r) ==
    /\ req[r].pc = "validate"
    /\ IF checkFileIOIdentity(On(r)) /\ own[r].ver = be.ver
       THEN Goto(r, "build") /\ UNCHANGED <<hand, tree>>
       ELSE EndIO(r, "err")
    /\ UNCHANGED <<own, be, left, setting>>

\* ... and the change is built on what was captured.
buildNameCommand(r) == req[r].pc = "build" /\ reserveMutationCommand(r, own[r].ver)

\* The execution loop of an owner: authorized, sent, looked up, tried again.
executeAuthorize(r) ==
    /\ req[r].pc = "authorize"
    /\ IF checkFileIOIdentity(On(r))
       THEN /\ own' = [own EXCEPT ![r].disp = TRUE]
            /\ Goto(r, "send")
            /\ UNCHANGED <<hand, tree>>
       ELSE /\ own' = [own EXCEPT ![r] = Failed(IF @.disp THEN @ ELSE Rejected(@))]
            /\ EndIO(r, "err")
    /\ UNCHANGED <<be, left, setting>>

dispatch(r) ==
    /\ req[r].pc = "send"
    /\ \/ /\ be' = Ran(be, r)
          /\ IF be'.acts[r][own[r].n] = "done"
             THEN /\ own' = [own EXCEPT ![r] = Completed(@)]
                  /\ EndIO(r, "ok")
             ELSE /\ req' = [req EXCEPT ![r].pc = "query", ![r].err = "conflict"]
                  /\ UNCHANGED <<hand, tree, own>>
          /\ UNCHANGED left
       \/ /\ Spend("lost")
          /\ be' \in {be, Ran(be, r), [be EXCEPT !.acts[r][own[r].n] = "wire"],
                      [be EXCEPT !.acts[r][own[r].n] = "run"]}
          /\ req' = [req EXCEPT ![r].pc = "query", ![r].err = "lost"]
          /\ UNCHANGED <<hand, tree, own>>
    /\ UNCHANGED setting

\* What the lookup of a failed call decides.
query(r) ==
    /\ req[r].pc = "query"
    /\ \/ /\ IF checkFileIOIdentity(On(r)) THEN Spend("lost") ELSE UNCHANGED left
          /\ own' = [own EXCEPT ![r] = Failed(@)]
          /\ EndIO(r, "err")
       \/ /\ checkFileIOIdentity(On(r))
          /\ CASE KnownNotExecuted(ActOf(r)) /\ req[r].err = "conflict"
                  /\ own[r].n <= maxMutationConditionRetries ->
                    Goto(r, "refresh") /\ UNCHANGED <<hand, tree, own>>
               [] KnownNotExecuted(ActOf(r)) /\ (\/ req[r].err # "conflict"
                                                \/ own[r].n > maxMutationConditionRetries) ->
                    /\ own' = [own EXCEPT ![r] = Failed(Rejected(@))]
                    /\ EndIO(r, "err")
               [] Receipt(ActOf(r)) \in {"completed", "pending"} ->
                    Goto(r, "replay") /\ UNCHANGED <<hand, tree, own>>
               [] OTHER ->
                    /\ own' = [own EXCEPT ![r] = Failed(@)]
                    /\ EndIO(r, "err")
          /\ UNCHANGED left
    /\ UNCHANGED <<be, setting>>

\* A change refused for its condition alone: the condition is observed again
\* and the same effect is sent as a new action.
sameEffect(r) ==
    /\ req[r].pc = "refresh"
    /\ \/ /\ checkFileIOIdentity(On(r))
          /\ own' = [own EXCEPT ![r].ver = be.ver, ![r].n = @ + 1, ![r].disp = FALSE]
          /\ be' = [be EXCEPT !.acts[r] = Append(@, "none")]
          /\ Goto(r, "authorize")
          /\ UNCHANGED <<hand, tree, left>>
       \/ /\ IF checkFileIOIdentity(On(r)) THEN Spend("lost") ELSE UNCHANGED left
          /\ own' = [own EXCEPT ![r] = Failed(Rejected(@))]
          /\ EndIO(r, "err")
          /\ UNCHANGED be
    /\ UNCHANGED setting

replay(r) ==
    /\ req[r].pc = "replay"
    /\ \E out \in {"ok", "err"} : Replayed(r, r, out) /\ EndIO(r, out)
    /\ UNCHANGED setting

-----------------------------------------------------------------------------
(* The close of one handle: by CLOSE, by a CREATE that failed, by T.       *)

Held(h) == hand[h].st \notin {"none", "gone"}

\* CLOSE is admitted to the tree, then waits for the handle's lifetime lock.
closeFile(r) ==
    LET h == S.script[r].h
    IN  /\ req[r].pc = "new" /\ Op(r) = "close" /\ Known(h)
        /\ IF ~tree.stop /\ Held(h)
           THEN /\ tree' = [tree EXCEPT !.active = @ + 1]
                /\ req' = [req EXCEPT ![r].pc = "lock", ![r].h = h]
           ELSE req' = Reply(req, r, "err") /\ UNCHANGED tree
        /\ UNCHANGED <<hand, own, be, left, setting>>

Unlocked(hd, h) == [hand EXCEPT ![h] = [hd EXCEPT !.life = {}]]

\* The close of the handle ends and the caller goes on.
EndClose(f, p, h, ok) ==
    /\ hand' = f
    /\ IF p = T
       THEN /\ req' = [req EXCEPT ![T].pc = "next", ![T].err = ""]
            /\ tree' = [tree EXCEPT !.todo = @ \ {h}]
       ELSE /\ req' = Reply(req, p, IF ok /\ req[p].err = "" /\ Op(p) = "close"
                                    THEN "ok" ELSE "err")
            /\ tree' = endFileWork(tree, 1)

\* With the lock the handle is fenced: what has not started on it is dropped.
closeLifetime(p) ==
    LET h == On(p)  dropped == Dropped(hand[h])
    IN  /\ req[p].pc = "lock"
        /\ \/ /\ hand[h].life = {}
              /\ IF ~Held(h)
                 THEN EndClose(hand, p, h, FALSE)
                 ELSE /\ hand' = [hand EXCEPT ![h] =
                            [fenceHandleFileIO(hand[h]) EXCEPT !.life = {p}]]
                      /\ tree' = endFileWork(tree, Cardinality(dropped))
                      /\ req' = [Refused(req, dropped) EXCEPT ![p].pc = "drain"]
              /\ UNCHANGED left
           \/ /\ hand[h].life # {}
              /\ Spend("cancel")
              /\ EndClose(hand, p, h, FALSE)
        /\ UNCHANGED <<own, be, setting>>

\* A handle that closes gives its directory bytes back.
releaseDirectoryEnumeration(h) ==
    /\ hand' = [hand EXCEPT ![h].dir = 0]
    /\ tree' = [tree EXCEPT !.bytes = @ - hand[h].dir]

\* The command that runs on the handle is waited for.
waitFileWork(p) ==
    /\ req[p].pc = "drain"
    /\ \/ /\ hand[On(p)].run = 0
          /\ releaseDirectoryEnumeration(On(p))
          /\ Goto(p, "settle")
          /\ UNCHANGED left
       \/ /\ hand[On(p)].run # 0
          /\ Spend("cancel")
          /\ EndClose(Unlocked(hand[On(p)], On(p)), p, On(p), FALSE)
    /\ UNCHANGED <<own, be, setting>>

\* From here on the handle only closes.
closeFileHandlePrepared(p) ==
    LET hd == hand[On(p)]
    IN  /\ req[p].pc = "prepared"
        /\ hand' = [hand EXCEPT ![On(p)].st = IF hd.rel THEN @ ELSE "cleanup"]
        /\ req' = [req EXCEPT ![p].again = FALSE, ![p].last = FALSE, ![p].pc =
                      IF hd.pend THEN "recover"
                      ELSE IF hd.att = 0 THEN "status"
                      ELSE IF ~hd.rel /\ hd.remint = 0 THEN "queryClose" ELSE "sendClose"]
        /\ UNCHANGED <<tree, own, be, left, setting>>

\* The handle leaves the tree.
releaseFileHandle(hd) == [NoHandle EXCEPT !.st = "gone"]

ForgetHandle(p, hd) ==
    EndClose(Unlocked(releaseFileHandle(hd), On(p)), p, On(p), FALSE)

\* An attempt to close that fails keeps the handle for another one.
KeepHandle(p, hd) == EndClose(Unlocked(hd, On(p)), p, On(p), FALSE)

\* An open whose answer was lost is looked up: it is known not to run, or it
\* is sent again for its reference, or the handle is kept.
pendingOpenRecovery(p) ==
    LET h == On(p)  hd == hand[h]
    IN  /\ req[p].pc = "recover"
        /\ \/ /\ Spend("lost")
              /\ KeepHandle(p, hd)
              /\ UNCHANGED be
           \/ /\ KnownNotExecuted(be.acts[h][1])
              /\ EndClose(Unlocked(releaseFileHandle(hd), h), p, h, TRUE)
              /\ UNCHANGED <<be, left>>
           \/ /\ ~KnownNotExecuted(be.acts[h][1])
              /\ be' = IF be.acts[h][1] = "done" THEN be ELSE RanOpen(be, h)
              /\ \/ /\ be'.acts[h][1] = "done"
                    /\ hand' = [hand EXCEPT ![h].ref = TRUE, ![h].pend = FALSE]
                    /\ Goto(p, IF hd.att = 0 THEN "status" ELSE "queryClose")
                    /\ UNCHANGED <<tree, left>>
                 \/ /\ be'.acts[h][1] = "no"
                    /\ EndClose(Unlocked(releaseFileHandle(hd), h), p, h, FALSE)
                    /\ UNCHANGED left
                 \/ /\ Spend("lost")
                    /\ KeepHandle(p, hd)
        /\ UNCHANGED <<own, setting>>

\* The result of a close: released and settled, released with its publication
\* behind, decided and refused, or not known.
acceptCloseResult(p, hd, result) ==
    LET h == On(p)
    IN  CASE result = "whole" ->
               /\ EndClose(Unlocked(releaseFileHandle(hd), h), p, h,
                      \A r \in {hd.wr, hd.fl} \ {0} : Retired(own[r]).good)
               /\ own' = retirePendingFileIO(own, hd)
          [] result = "behind" ->
               KeepHandle(p, [hd EXCEPT !.rel = TRUE, !.st = "barrier"]) /\ UNCHANGED own
          [] result = "refused" ->
               /\ KeepHandle(p, [hd EXCEPT !.att = 0, !.adm = FALSE, !.remint = 0])
               /\ UNCHANGED own
          [] result = "unknown" ->
               KeepHandle(p, hd) /\ UNCHANGED own

\* A reference already released answers with its release; what was behind is
\* settled now or fails to settle again.
CloseWithResult(p, hd) ==
    \/ /\ be' = RanClose(be, On(p), "whole")
       /\ acceptCloseResult(p, hd, "whole")
       /\ UNCHANGED left
    \/ /\ be.refs[On(p)].behind
       /\ Spend("refuse")
       /\ acceptCloseResult(p, hd, "behind")
       /\ UNCHANGED be

\* Without an attempt of its own the handle asks who is closing the reference.
CloseOwnerStatus(p) ==
    LET h == On(p)  hd == hand[h]  ref == be.refs[h]
    IN  /\ req[p].pc = "status"
        /\ \/ Spend("lost") /\ acceptCloseResult(p, hd, "unknown") /\ UNCHANGED be
           \/ /\ ~ref.open
              /\ CloseWithResult(p, hd)
           \/ /\ ref.open
              /\ hand' = [hand EXCEPT ![h].att = ref.gen, ![h].ep = be.epoch,
                                      ![h].adm = ref.clo = "run"]
              /\ Goto(p, "sendClose")
              /\ UNCHANGED <<tree, own, be, left>>
        /\ UNCHANGED setting

\* An attempt made before is looked up before it is sent again.
QueryCloseAttempt(p) ==
    LET h == On(p)  ref == be.refs[h]
    IN  /\ req[p].pc = "queryClose"
        /\ \/ /\ Spend("lost")
              /\ acceptCloseResult(p, hand[h], "unknown")
           \/ /\ hand' = [hand EXCEPT ![h].adm = @ \/ (ref.gen = hand[h].att
                                                       /\ ref.clo \in {"run", "done"})]
              /\ Goto(p, "sendClose")
              /\ UNCHANGED <<tree, own, left>>
        /\ UNCHANGED <<be, setting>>

\* An attempt the epoch has passed by is minted again in the present one.
remintCloseAttempt(hd) ==
    IF hd.remint = 0 THEN hd
    ELSE [hd EXCEPT !.ep = hd.remint, !.adm = FALSE, !.remint = 0]

\* The attempt is sent; one that missed its epoch is sent once more.
runCloseAttempt(p) ==
    LET h == On(p)  ref == be.refs[h]  hd == remintCloseAttempt(hand[h])
        missed == ref.open /\ ref.clo # "run" /\ hd.att = ref.gen /\ hd.ep < be.epoch
    IN  /\ req[p].pc = "sendClose"
        /\ \/ ~ref.open /\ CloseWithResult(p, hd)
           \/ /\ missed
              /\ IF hd.adm \/ hd.rel THEN KeepHandle(p, hd)
                 ELSE IF req[p].again THEN KeepHandle(p, [hd EXCEPT !.remint = be.epoch])
                 ELSE /\ hand' = [hand EXCEPT ![h] = [hd EXCEPT !.remint = be.epoch]]
                      /\ req' = [req EXCEPT ![p].again = TRUE]
                      /\ UNCHANGED tree
              /\ UNCHANGED <<own, be, left>>
           \/ /\ ref.open /\ hd.att < ref.gen
              /\ acceptCloseResult(p, hd, "refused")
              /\ UNCHANGED <<be, left>>
           \/ /\ ref.open /\ ~missed /\ hd.att = ref.gen
              /\ \E how \in Closings :
                    /\ IF how = "whole" THEN UNCHANGED left ELSE Spend("refuse")
                    /\ be' = RanClose(be, h, how)
                    /\ acceptCloseResult(p, hd, how)
           \/ /\ ref.open /\ ~missed /\ hd.att = ref.gen
              /\ Spend("lost")
              /\ be' \in {be, RanClose(be, h, "whole"), RanClose(be, h, "refused"),
                          [be EXCEPT !.refs[h].clo = "wire"],
                          [be EXCEPT !.refs[h].clo = "run"]}
              /\ IF req[p].last THEN acceptCloseResult(p, hd, "unknown")
                 ELSE /\ hand' = [hand EXCEPT ![h] = hd]
                      /\ Goto(p, "againClose")
                      /\ UNCHANGED <<tree, own>>
        /\ UNCHANGED setting

\* After an answer that did not come: an attempt known not to have run gives
\* way to the one the owner names, or to the next generation.
closeAgain(p) ==
    LET h == On(p)  hd == hand[h]  ref == be.refs[h]
        not == ref.gen > hd.att \/ ref.clo \in {"none", "wire"}
    IN  /\ req[p].pc = "againClose"
        /\ \/ Spend("lost") /\ acceptCloseResult(p, hd, "unknown") /\ UNCHANGED be
           \/ /\ ~(not /\ (~ref.open \/ ref.gen > hd.att))
              /\ acceptCloseResult(p, hd, "unknown")
              /\ UNCHANGED <<be, left>>
           \/ /\ not /\ ~ref.open
              /\ CloseWithResult(p, [hd EXCEPT !.att = 0])
           \/ /\ not /\ ref.open /\ ref.gen > hd.att
              /\ hand' = [hand EXCEPT ![h] = [hd EXCEPT !.att = ref.gen,
                                                       !.ep = be.epoch, !.adm = FALSE]]
              /\ req' = [req EXCEPT ![p].pc = "sendClose", ![p].again = FALSE,
                                    ![p].last = TRUE]
              /\ UNCHANGED <<tree, own, be, left>>
        /\ UNCHANGED setting

-----------------------------------------------------------------------------
(* CREATE.                                                                 *)

Creates(r) == S.script[r].disp \in {"supersede", "create", "openIf", "overwriteIf"}
Exclusive(r) == S.script[r].disp = "create"

\* A CREATE that opens nothing gives its reservation back.
releaseReservation(r) ==
    /\ hand' = [hand EXCEPT ![r] = releaseFileHandle(@)]
    /\ tree' = endFileWork(tree, 1)
    /\ req' = Reply(req, r, "err")

\* The handle is reserved before anything is opened for it.
reserveFileHandle(r) ==
    /\ req[r].pc = "new" /\ Op(r) = "create"
    /\ IF ~tree.stop /\ Cardinality({h \in Reqs : Held(h)}) < S.handles
       THEN /\ hand' = [hand EXCEPT ![r].st = "reserved"]
            /\ tree' = [tree EXCEPT !.active = @ + 1]
            /\ req' = [req EXCEPT ![r].pc = "resolve", ![r].h = r]
       ELSE req' = Reply(req, r, "err") /\ UNCHANGED <<hand, tree>>
    /\ UNCHANGED <<own, be, left, setting>>

\* The name is observed and the disposition decides; the open is made under
\* the condition that the name still is what was observed.  The kind of the
\* node, its attributes or the authorizer may refuse as well.
resolveCreateName(r) ==
    /\ req[r].pc = "resolve"
    /\ IF \/ tree.stop
          \/ be.node = 0 /\ ~Creates(r)
          \/ be.node # 0 /\ Exclusive(r)
       THEN releaseReservation(r) /\ UNCHANGED <<own, be>>
       ELSE \/ releaseReservation(r) /\ UNCHANGED <<own, be>>
            \/ /\ own' = [own EXCEPT ![r].ver = be.node, ![r].n = 1]
               /\ be' = [be EXCEPT !.acts[r] = <<"none">>]
               /\ Goto(r, "open")
               /\ UNCHANGED <<hand, tree>>
    /\ UNCHANGED <<left, setting>>

\* The open is sent; without a reference the handle remembers how to ask.
openReference(r) ==
    /\ req[r].pc = "open"
    /\ \/ /\ be' = RanOpen(be, r)
          /\ UNCHANGED left
          /\ IF be'.acts[r][1] = "done"
             THEN hand' = [hand EXCEPT ![r].ref = TRUE] /\ Goto(r, "bind")
             ELSE hand' = [hand EXCEPT ![r].pend = TRUE] /\ Goto(r, "lock")
       \/ /\ Spend("lost")
          /\ be' \in {be, RanOpen(be, r), [be EXCEPT !.acts[r][1] = "wire"],
                      [be EXCEPT !.acts[r][1] = "run"]}
          /\ hand' = [hand EXCEPT ![r].pend = TRUE]
          /\ Goto(r, "lock")
    /\ UNCHANGED <<tree, own, setting>>

\* The reference is published unless the tree was fenced meanwhile or the
\* session cannot be confirmed; then it is closed again.
bindReference(r) ==
    /\ req[r].pc = "bind"
    /\ \/ /\ ~tree.stop
          /\ hand' = [hand EXCEPT ![r].st = "live"]
          /\ tree' = endFileWork(tree, 1)
          /\ req' = Reply(req, r, "ok")
          /\ UNCHANGED left
       \/ /\ IF tree.stop THEN UNCHANGED left ELSE Spend("lost")
          /\ Goto(r, "lock")
          /\ UNCHANGED <<hand, tree>>
    /\ UNCHANGED <<own, be, setting>>

-----------------------------------------------------------------------------
(* The close of the tree.                                                  *)

\* The tree is fenced: no more file work, and nothing that has not started.
fenceFileWork ==
    LET dropped == UNION {Dropped(hand[h]) : h \in Reqs}
    IN  /\ req[T].pc = "new" /\ ~tree.closed
        /\ Spend("closes")
        /\ hand' = [h \in Reqs |-> IF Held(h) THEN fenceHandleFileIO(hand[h]) ELSE hand[h]]
        /\ tree' = [endFileWork(tree, Cardinality(dropped)) EXCEPT !.stop = TRUE]
        /\ req' = [Refused(req, dropped) EXCEPT ![T].pc = "idle"]
        /\ UNCHANGED <<own, be, setting>>

\* The file work that runs is waited for, or this attempt is given up.
waitTreeIdle ==
    /\ req[T].pc = "idle"
    /\ \/ /\ tree.active = 0
          /\ tree' = [tree EXCEPT !.todo = {h \in Reqs : Held(h)}]
          /\ Goto(T, "next")
          /\ UNCHANGED left
       \/ /\ tree.active # 0
          /\ Spend("cancel")
          /\ Goto(T, "new")
          /\ UNCHANGED tree
    /\ UNCHANGED <<hand, own, be, setting>>

\* Every handle is closed in turn, then the session behind the tree.
closeFileHandles ==
    /\ req[T].pc = "next"
    /\ \/ \E h \in tree.todo : req' = [req EXCEPT ![T].pc = "lock", ![T].h = h]
       \/ tree.todo = {} /\ Goto(T, "parent")
    /\ UNCHANGED <<hand, tree, own, be, left, setting>>

\* The session's own close releases every reference the handles could not.
Ended(b) == [b EXCEPT !.closed = TRUE,
                      !.refs = [h \in Reqs |-> [b.refs[h] EXCEPT !.open = FALSE,
                                                                 !.behind = FALSE]]]
recoverRetainedOwners ==
    /\ req[T].pc = "parent"
    /\ \/ /\ be' = Ended(be)
          /\ hand' = [h \in Reqs |-> IF Held(h) THEN releaseFileHandle(hand[h]) ELSE hand[h]]
          /\ own' = [r \in Reqs |-> IF \E h \in Reqs : Held(h) /\ r \in {hand[h].wr, hand[h].fl}
                                    THEN Retired(own[r]) ELSE own[r]]
          /\ tree' = [tree EXCEPT !.closed = TRUE]
          /\ Goto(T, "done")
          /\ UNCHANGED left
       \/ /\ Spend("lost")
          /\ be' \in {be, Ended(be)}
          /\ Goto(T, "new")
          /\ UNCHANGED <<hand, tree, own>>
    /\ UNCHANGED setting

-----------------------------------------------------------------------------
Closer(p) ==
    \/ reconcile(p) \/ settleReplay(p) \/ settleFlush(p) \/ settlePendingFileIO(p)
    \/ closeLifetime(p) \/ waitFileWork(p) \/ closeFileHandlePrepared(p)
    \/ pendingOpenRecovery(p) \/ CloseOwnerStatus(p) \/ QueryCloseAttempt(p)
    \/ runCloseAttempt(p) \/ closeAgain(p)

Command(r) ==
    \/ admitFileIO(r) \/ ticketWait(r) \/ ticketDropped(r) \/ recordResponse(r)
    \/ readFile(r) \/ reserveFlushOwner(r) \/ flushConfirm(r)
    \/ queryFileInfo(r) \/ reserveDirectoryCursor(r) \/ captureDirectorySnapshot(r)
    \/ collectDirectorySnapshot(r) \/ directoryPage(r)
    \/ writeFile(r) \/ setFileInfo(r) \/ captureReferenceName(r)
    \/ validateReferenceName(r) \/ buildNameCommand(r)
    \/ executeAuthorize(r) \/ dispatch(r) \/ query(r) \/ sameEffect(r) \/ replay(r)
    \/ closeFile(r) \/ reserveFileHandle(r) \/ resolveCreateName(r)
    \/ openReference(r) \/ bindReference(r)

TreeClose == fenceFileWork \/ waitTreeIdle \/ closeFileHandles \/ recoverRetainedOwners

Next ==
    \/ \E p \in Actors : Closer(p)
    \/ \E r \in DOMAIN S.script : Command(r) \/ AcknowledgeWriteFailures(r)
    \/ \E r \in Reqs : Arrive(r) \/ Late(r) \/ LateClose(r)
    \/ Other \/ Renewed
    \/ TreeClose

Spec == Init /\ [][Next]_vars

-----------------------------------------------------------------------------
InFlight(r) == \E i \in DOMAIN be.acts[r] : be.acts[r][i] \in {"wire", "run"}
Times(r) == Cardinality({i \in DOMAIN be.applied : be.applied[i] = r})

\* A change takes effect at most once however often it is sent again; one that
\* is answered with success, or recorded as completed, has taken effect; one
\* recorded as not executed has not, and cannot any more.  One that took effect
\* without the client being told so is a failure in the ledger until the host
\* has taken over its final facts.
ChangesTrue ==
    \A r \in DOMAIN S.script : Changes(Op(r)) =>
        /\ Times(r) <= 1
        /\ req[r].out = "ok" => Times(r) = 1
        /\ own[r].rec.exec = "completed" => Times(r) = 1
        /\ own[r].rec.exec = "notExecuted" => Times(r) = 0 /\ ~InFlight(r)
        /\ req[r].pc = "done" /\ req[r].out # "ok" /\ Times(r) = 1
           => own[r].rec.failed /\ (own[r].rec.in \/ Terminal(own[r].rec))

\* Commands on one handle take effect in the order they were admitted in: when
\* one is answered with success, no change admitted before it can still happen,
\* and the changes that happened are in that order.
HandleOrder ==
    /\ \A r, w \in DOMAIN S.script :
          /\ Changes(Op(w)) /\ req[r].out = "ok" /\ On(r) = On(w)
          /\ 0 < req[w].seq /\ req[w].seq < req[r].seq
          => ~InFlight(w)
    /\ \A i, j \in DOMAIN be.applied :
          i < j /\ On(be.applied[i]) = On(be.applied[j])
          => req[be.applied[i]].seq < req[be.applied[j]].seq

\* No reference is lost: one that is open behind the tree belongs to a handle
\* of the tree, and a closed tree leaves no handle, no reference and no
\* directory bytes.
ReferencesOwned ==
    /\ \A h \in Reqs : be.refs[h].open => Held(h)
    /\ \A r \in DOMAIN S.script :
          Op(r) = "close" /\ req[r].out = "ok" => ~be.refs[On(r)].open
    /\ tree.closed => /\ \A h \in Reqs : ~be.refs[h].open /\ ~Held(h)
                      /\ tree.bytes = 0

FairSpec ==
    /\ Spec
    /\ \A p \in Actors : WF_vars(Closer(p))
    /\ \A r \in Reqs : WF_vars(r \in DOMAIN S.script /\ Command(r))
    /\ WF_vars(waitTreeIdle \/ closeFileHandles \/ recoverRetainedOwners)

\* An attempt to close the tree ends: whatever the commands do, the fence lets
\* them drain and the closes of the handles return.
TreeCloseReturns == req[T].pc = "idle" ~> req[T].pc \in {"new", "done"}
=============================================================================
