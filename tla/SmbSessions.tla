---------------------------- MODULE SmbSessions ----------------------------
(***************************************************************************)
(* Sessions, trees and authorities of the SMB endpoint (packages/smb): the *)
(* requests of its connections, authentication and its watcher, the file   *)
(* session (authority) a session shares among its trees of one export and  *)
(* its renewal, and everything that takes them apart again: logoff, tree   *)
(* disconnect, a lost connection, a successor that retires its previous    *)
(* session, a failed renewal, Unpublish and Shutdown.                      *)
(*                                                                         *)
(* Procedures that several goroutines run are written once; act[a] is the  *)
(* call stack of goroutine a, its innermost frame first. A tree and an     *)
(* authority are named after the TREE_CONNECT that made them.              *)
(***************************************************************************)
EXTENDS Naturals, Sequences, FiniteSets

CONSTANTS
    Reqs,        \* the requests, numbered from 1
    Sessions,    \* the sessions, numbered from 1
    Conns,       \* the connections, numbered from 1
    Settings     \* name -> the script of requests and the bounds

VARIABLES
    ses,         \* the sessions
    au,          \* the authorities: one file session of a session and export
    tr,          \* the trees
    exp,         \* the export
    conn,        \* the connections
    req,         \* the requests
    act,         \* the goroutines
    late,        \* the goroutines whose context has ended
    left, setting

vars == <<ses, au, tr, exp, conn, req, act, late, left, setting>>

-----------------------------------------------------------------------------
(* Goroutines and their frames.                                            *)

S == Settings[setting]
Script(r) == S.script[r]
Watcher(s) == 20 + s
Renewer(x) == 10 + x
Cleaner(c) == 30 + c
Closer == 40
Actors == Reqs \cup {Watcher(s) : s \in Sessions} \cup {Renewer(x) : x \in Reqs}
          \cup {Cleaner(c) : c \in Conns} \cup {Closer}

Frame(pc, s, t, x, ex) ==
    [pc |-> pc, s |-> s, t |-> t, x |-> x, ex |-> ex, todo |-> {}, err |-> FALSE, res |-> "ok"]

Top(a) == act[a][1]
At(a, pc) == act[a] # <<>> /\ Top(a).pc = pc

Put(a, f) == [act EXCEPT ![a] = <<f>> \o Tail(@)]
Goto(a, pc) == act' = Put(a, [Top(a) EXCEPT !.pc = pc])
Push(a, f, back) ==
    act' = [act EXCEPT ![a] = <<f, [Head(@) EXCEPT !.pc = back]>> \o Tail(@)]
Popped(stack, res) ==
    IF Len(stack) = 1 THEN <<>>
    ELSE <<[stack[2] EXCEPT !.res = res, !.err = @ \/ res # "ok"]>> \o SubSeq(stack, 3, Len(stack))
Ret(a, res) == act' = [act EXCEPT ![a] = Popped(@, res)]

\* cleanupGate: the callers that joined an attempt share its outcome.
RetAll(a, joined, res) ==
    act' = [b \in Actors |-> IF b \in {a} \cup joined THEN Popped(act[b], res) ELSE act[b]]

-----------------------------------------------------------------------------
NoSession ==
    [here |-> FALSE, used |-> FALSE, retired |-> FALSE, finalizing |-> FALSE, auth |-> FALSE,
     signer |-> "none", watch |-> "none", stopw |-> FALSE, armed |-> FALSE, past |-> FALSE,
     expired |-> FALSE, idout |-> FALSE, cleaned |-> FALSE, closed |-> FALSE, opening |-> 0,
     frames |-> {}, au |-> 0, mu |-> 0, gate |-> 0]
NoAuthority ==
    [s |-> 0, refs |-> 0, orphan |-> FALSE, stopping |-> FALSE, closed |-> FALSE, cerr |-> FALSE,
     raw |-> FALSE, ready |-> "no", renew |-> "none", mu |-> 0]
NoTree ==
    [s |-> 0, in |-> FALSE, open |-> FALSE, fenced |-> FALSE, busy |-> {}, au |-> 0, gate |-> 0]

Init ==
    /\ setting \in DOMAIN Settings
    /\ ses = [s \in Sessions |-> NoSession]
    /\ au = [x \in Reqs |-> NoAuthority]
    /\ tr = [t \in Reqs |-> NoTree]
    /\ exp = [refs |-> 0, trees |-> 0, active |-> 0, stopping |-> FALSE, gone |-> FALSE]
    /\ conn = [c \in Conns |-> [lost |-> FALSE, disc |-> FALSE, gone |-> FALSE, mu |-> 0]]
    /\ req = [r \in Reqs |-> [st |-> "new", s |-> 0, keyed |-> FALSE, told |-> "none"]]
    /\ act = [a \in Actors |-> <<>>]
    /\ late = {}
    /\ left = S.budget

Spend(kind) == left[kind] > 0 /\ left' = [left EXCEPT ![kind] = @ - 1]

Conn(s) == S.conn[s]
Trees(s) == {t \in Reqs : tr[t].in /\ tr[t].s = s}

\* The requests a connection has pending for a session.
Pending(s) == {r \in Reqs : req[r].st = "pend" /\ req[r].s = s}

\* MUTANT: a session goes with its resources, owed frames or not.
pruneAtOnce(f) ==
    [s \in Sessions |->
        IF f[s].here /\ f[s].closed
        THEN [f[s] EXCEPT !.here = FALSE, !.signer = IF @ = "live" THEN "dead" ELSE @]
        ELSE f[s]]

\* A session goes, its signer with it, once its resources are closed and no
\* response frame is owed to it.
pruneRetiredSessions(f) ==
    [s \in Sessions |->
        IF f[s].here /\ f[s].closed /\ f[s].frames = {}
        THEN [f[s] EXCEPT !.here = FALSE, !.signer = IF @ = "live" THEN "dead" ELSE @]
        ELSE f[s]]

\* A disconnected connection goes with its last session.
releaseDisconnected(f, g) ==
    [c \in Conns |->
        IF g[c].disc /\ \A s \in Sessions : Conn(s) = c => ~f[s].here
        THEN [g[c] EXCEPT !.gone = TRUE] ELSE g[c]]

\* The session's retirement is published together with every frame that will
\* still answer for it; the other requests of the session are cancelled.
retireSessionRequests(f, s) ==
    [f EXCEPT ![s].retired = TRUE, ![s].stopw = TRUE, ![s].frames = @ \cup Pending(s)]

\* MUTANT: retirement leaves the requests that wait in the session alone.
CancelledNone(s, me) == {}

Cancelled(s, me) ==
    {r \in Pending(s) : r # me /\ Script(r).op # "logoff"}

watcherGone(s) == ses[s].watch \in {"none", "gone"}

\* What must be over before a session counts as cleaned.
Complete(s, authorities) ==
    /\ ses[s].retired /\ ~ses[s].finalizing /\ ~ses[s].auth /\ watcherGone(s)
    /\ ses[s].opening = 0 /\ Trees(s) = {} /\ authorities

recordSessionResourcesClosed(f, s) ==
    pruneRetiredSessions([f EXCEPT ![s].cleaned = TRUE, ![s].closed = TRUE])

\* Every goroutine that may have finished the last resource looks.
finishSessionRetirement(a) ==
    /\ At(a, "finish")
    /\ LET s == Top(a).s
       IN  /\ ~ses[s].retired \/ ses[s].mu = 0
           /\ ses' = IF Complete(s, ses[s].au = 0) THEN recordSessionResourcesClosed(ses, s) ELSE ses
    /\ conn' = releaseDisconnected(ses', conn)
    /\ Ret(a, "ok")
    /\ UNCHANGED <<au, tr, exp, req, late, left, setting>>

-----------------------------------------------------------------------------
(* Requests: receiving, dispatching and answering them.                    *)

\* A request whose context has ended before it was looked at is answered so.
Receive(r) ==
    /\ req[r].st = "new"
    /\ ~conn[Script(r).c].lost
    /\ \A q \in Script(r).after : req[q].st = "done"
    /\ req' = [req EXCEPT ![r].st = "pend", ![r].s = IF Script(r).op = "setup" THEN 0 ELSE Script(r).s]
    /\ act' = [act EXCEPT ![r] = <<Frame(IF Script(r).op = "setup" THEN "setup" ELSE "lookup",
                                        Script(r).s, Script(r).t, 0, FALSE)>>]
    /\ UNCHANGED <<ses, au, tr, exp, conn, late, left, setting>>

\* Lookup and enrolment of the response frame share one lock.
retainSessionFrame(f, s, r) == [f EXCEPT ![s].frames = @ \cup {r}]

Lookup(r) ==
    /\ At(r, "lookup")
    /\ LET s == Top(r).s
       IN  IF ses[s].here
           THEN ses' = retainSessionFrame(ses, s, r) /\ Goto(r, "signer")
           ELSE UNCHANGED ses /\ act' = Put(r, [Top(r) EXCEPT !.pc = "reply", !.err = TRUE])
    /\ UNCHANGED <<au, tr, exp, conn, req, late, left, setting>>

\* The signer is taken, then the session is checked: retired or expired
\* sessions only log off.
Dispatch(r) ==
    /\ At(r, "signer")
    /\ LET s == Top(r).s  op == Script(r).op
           refused == \/ r \in late
                      \/ op # "reauth" /\ ses[s].signer = "none"
                      \/ op # "logoff" /\ op # "reauth" /\ (ses[s].retired \/ ses[s].idout)
       IN  /\ req' = [req EXCEPT ![r].keyed = ses[s].signer # "none"]
           /\ IF refused
              THEN act' = Put(r, [Top(r) EXCEPT !.pc = "reply", !.err = TRUE])
              ELSE Goto(r, CASE op = "logoff" -> "logoff" [] op = "connect" -> "connect"
                             [] op = "reauth" -> "auth" [] op = "work" -> "work"
                             [] OTHER -> "disc")
    /\ UNCHANGED <<ses, au, tr, exp, conn, late, left, setting>>

\* Too many requests are pending: the reader itself answers, signed.
RejectRequest(r) ==
    /\ At(r, "signer")
    /\ Spend("reject")
    /\ req' = [req EXCEPT ![r].keyed = ses[Top(r).s].signer # "none"]
    /\ act' = Put(r, [Top(r) EXCEPT !.pc = "reply", !.err = TRUE])
    /\ UNCHANGED <<ses, au, tr, exp, conn, late, setting>>

\* The response is signed and written; its frame is owed to nobody any more.
retireResponseFrame(f, r) ==
    pruneRetiredSessions([s \in Sessions |-> [f[s] EXCEPT !.frames = @ \ {r}]])

Reply(r) ==
    /\ At(r, "reply")
    /\ req' = [req EXCEPT ![r].st = "done", ![r].keyed = FALSE,
                          ![r].told = IF Top(r).err THEN "error" ELSE "ok"]
    /\ ses' = retireResponseFrame(ses, r)
    /\ late' = late \ {r}
    /\ act' = [act EXCEPT ![r] = <<>>]
    /\ UNCHANGED <<au, tr, exp, conn, left, setting>>

\* A file command of a tree; SmbFiles has what it does.
Work(r) ==
    /\ \/ /\ At(r, "work")
          /\ LET t == Top(r).t
             IN  IF tr[t].in /\ ~tr[t].fenced
                 THEN tr' = [tr EXCEPT ![t].busy = @ \cup {r}] /\ Goto(r, "working")
                 ELSE UNCHANGED tr /\ act' = Put(r, [Top(r) EXCEPT !.pc = "reply", !.err = TRUE])
       \/ /\ At(r, "working")
          /\ tr' = [tr EXCEPT ![Top(r).t].busy = @ \ {r}]
          /\ act' = Put(r, [Top(r) EXCEPT !.pc = "reply", !.err = r \in late])
    /\ UNCHANGED <<ses, au, exp, conn, req, late, left, setting>>

\* TREE_DISCONNECT: the tree, then the authority if no tree is left.
TreeDisconnect(r) ==
    /\ \/ /\ At(r, "disc")
          /\ IF tr[Top(r).t].in
             THEN Push(r, Frame("ctGate", Top(r).s, Top(r).t, tr[Top(r).t].au, FALSE), "disc2")
             ELSE act' = Put(r, [Top(r) EXCEPT !.pc = "reply", !.err = TRUE])
          /\ UNCHANGED left
       \/ /\ At(r, "disc") /\ Spend("deny")
          /\ act' = Put(r, [Top(r) EXCEPT !.pc = "reply", !.err = TRUE])
       \/ /\ At(r, "disc2") /\ Top(r).res # "ok" /\ Goto(r, "reply") /\ UNCHANGED left
       \/ /\ At(r, "disc2") /\ Top(r).res = "ok"
          /\ Push(r, Frame("coReady", Top(r).s, 0, ses[Top(r).s].au, FALSE), "reply")
          /\ UNCHANGED left
    /\ UNCHANGED <<ses, au, tr, exp, conn, req, late, setting>>

Logoff(r) ==
    /\ At(r, "logoff")
    /\ Push(r, Frame("csGate", Top(r).s, 0, 0, TRUE), "reply")
    /\ UNCHANGED <<ses, au, tr, exp, conn, req, late, left, setting>>

\* A context ends: a request's timeout, or the bound of a cleanup.
Timeout(a) ==
    /\ act[a] # <<>> /\ a \notin late
    /\ Spend("timeout")
    /\ late' = late \cup {a}
    /\ UNCHANGED <<ses, au, tr, exp, conn, req, act, setting>>

-----------------------------------------------------------------------------
(* SESSION_SETUP. It holds the session's authentication lock throughout,    *)
(* except while it retires the previous session.                           *)

Fail(r, pc) == Put(r, [Top(r) EXCEPT !.pc = pc, !.err = TRUE])

\* A first request makes the session, with its watcher armed.
SetupCreates(r) ==
    /\ At(r, "setup")
    /\ LET s == Top(r).s
       IN  IF conn[Script(r).c].lost \/ Cardinality({q \in Sessions : ses[q].here}) >= S.sessions
           THEN act' = Fail(r, "reply") /\ UNCHANGED <<ses, req>>
           ELSE /\ ~ses[s].used
                /\ ses' = [ses EXCEPT ![s] = [NoSession EXCEPT !.here = TRUE, !.used = TRUE,
                              !.watch = "run", !.armed = TRUE, !.frames = {r}]]
                /\ req' = [req EXCEPT ![r].s = s]
                /\ act' = [Put(r, [Top(r) EXCEPT !.pc = "auth"]) EXCEPT
                              ![Watcher(s)] = <<Frame("watch", s, 0, 0, FALSE)>>]
    /\ UNCHANGED <<au, tr, exp, conn, late, left, setting>>

\* The session must be neither retired nor being finalized by another leg. A
\* reauthentication whose last attempt expired closes that one first.
SetupEnters(r) ==
    /\ At(r, "auth") /\ ses[Top(r).s].mu = 0
    /\ LET s == Top(r).s  f == ses[s]
           armed == [f EXCEPT !.mu = r, !.auth = FALSE, !.armed = TRUE, !.past = FALSE, !.expired = FALSE]
       IN  \/ /\ f.retired \/ f.finalizing
              /\ act' = Fail(r, "suEnd")
              /\ UNCHANGED <<ses, left>>
           \/ /\ ~(f.retired \/ f.finalizing)
              /\ ses' = [ses EXCEPT ![s] =
                            IF f.signer = "live" /\ (f.expired \/ ~f.auth) THEN armed
                            ELSE [f EXCEPT !.mu = r]]
              /\ Goto(r, "step")
              /\ UNCHANGED left
           \/ /\ ~(f.retired \/ f.finalizing) /\ f.signer = "live" /\ f.expired /\ f.auth
              /\ Spend("fault")
              /\ act' = Fail(r, "suEnd")
              /\ UNCHANGED ses
    /\ UNCHANGED <<au, tr, exp, conn, req, late, setting>>

\* One step of the authenticator (external): more legs, a denial, or done.
SetupSteps(r) ==
    /\ At(r, "step")
    /\ LET s == Top(r).s
       IN  \/ /\ ses[s].past \/ r \in late
              /\ act' = Fail(r, "suFail")
              /\ UNCHANGED <<ses, left>>
           \/ /\ Spend("deny")
              /\ ses' = [ses EXCEPT ![s].auth = TRUE]
              /\ act' = Fail(r, "suFail")
           \/ /\ ~(ses[s].past \/ r \in late)
              /\ Spend("more")
              /\ ses' = [ses EXCEPT ![s].auth = TRUE, ![s].mu = 0]
              /\ Goto(r, "suEnd")
           \/ /\ ~(ses[s].past \/ r \in late)
              /\ ses' = [ses EXCEPT ![s].auth = TRUE]
              /\ Goto(r, "suClose")
              /\ UNCHANGED left
    /\ UNCHANGED <<au, tr, exp, conn, req, late, setting>>

\* The authenticator is closed; finalization opens the lock to others.
SetupFinalizes(r) ==
    /\ At(r, "suClose")
    /\ LET s == Top(r).s
       IN  \/ /\ ses' = [ses EXCEPT ![s].auth = FALSE, ![s].finalizing = TRUE, ![s].mu = 0]
              /\ ~(ses[s].past \/ r \in late)
              /\ Goto(r, "previous")
              /\ UNCHANGED left
           \/ /\ ses' = [ses EXCEPT ![s].auth = FALSE]
              /\ ses[s].past \/ r \in late
              /\ act' = Fail(r, "suFail")
              /\ UNCHANGED left
           \/ /\ Spend("fault")
              /\ act' = Put(r, [Top(r) EXCEPT !.pc = "suFail", !.err = TRUE, !.ex = TRUE])
              /\ UNCHANGED ses
    /\ UNCHANGED <<au, tr, exp, conn, req, late, setting>>

\* The previous session of the same principal is logged off first.
retirePreviousSession(r) ==
    LET p == Script(r).prev
        none == IF p = 0 THEN TRUE ELSE ~ses[p].here \/ ses[p].signer # "live"
    IN  /\ At(r, "previous")
        /\ \/ none /\ Goto(r, "suInstall") /\ UNCHANGED conn
           \/ ~none /\ r \in late /\ act' = Fail(r, "suInstall") /\ UNCHANGED conn
           \/ /\ ~none /\ r \notin late /\ conn[Conn(p)].mu = 0
              /\ conn' = [conn EXCEPT ![Conn(p)].mu = r]
              /\ Push(r, Frame("csGate", p, 0, 0, TRUE), "retired")
        /\ UNCHANGED <<ses, au, tr, exp, req, late, left, setting>>

PreviousRetired(r) ==
    /\ At(r, "retired")
    /\ conn' = [conn EXCEPT ![Conn(Script(r).prev)].mu = 0]
    /\ act' = Put(r, [Top(r) EXCEPT !.pc = "suInstall",
                  !.err = Top(r).res = "err" \/ (Top(r).res = "stopped" /\ ~ses[Script(r).prev].cleaned)])
    /\ UNCHANGED <<ses, au, tr, exp, req, late, left, setting>>

\* After the wait everything is looked at again before the key is installed.
SetupInstalls(r) ==
    /\ At(r, "suInstall") /\ ses[Top(r).s].mu = 0
    /\ LET s == Top(r).s  f == ses[s]
           bad == \/ Top(r).err \/ r \in late \/ f.past \/ f.expired \/ f.retired
                  \/ conn[Conn(s)].lost \/ ~f.here
       IN  IF bad
           THEN /\ ses' = [ses EXCEPT ![s].finalizing = FALSE, ![s].mu = r]
                /\ act' = Put(r, [Top(r) EXCEPT !.pc = "suFail", !.err = TRUE, !.ex = TRUE])
                /\ UNCHANGED req
           ELSE /\ ses' = [ses EXCEPT ![s].finalizing = FALSE, ![s].signer = "live",
                              ![s].armed = FALSE, ![s].expired = FALSE, ![s].idout = FALSE]
                /\ req' = [req EXCEPT ![r].keyed = TRUE]
                /\ Goto(r, "suEnd")
    /\ UNCHANGED <<au, tr, exp, conn, late, left, setting>>

\* A failed setup closes its authenticator once; a session that never had a
\* key is retired.
SetupFails(r) ==
    /\ At(r, "suFail")
    /\ LET s == Top(r).s
           f == [ses EXCEPT ![s].armed = FALSE, ![s].expired = TRUE, ![s].mu = 0,
                    ![s].auth = IF Top(r).ex THEN @ ELSE FALSE]
           g == [f EXCEPT ![s].auth = ses[s].auth]
           initial == ses[s].signer = "none"
       IN  /\ \/ ses' = (IF initial THEN retireSessionRequests(f, s) ELSE f) /\ UNCHANGED left
              \/ /\ ~Top(r).ex /\ ses[s].auth /\ Spend("fault")
                 /\ ses' = IF initial THEN retireSessionRequests(g, s) ELSE g
           /\ late' = IF initial THEN late \cup Cancelled(s, r) ELSE late
    /\ Goto(r, "suEnd")
    /\ UNCHANGED <<au, tr, exp, conn, req, setting>>

\* A retired session's watcher is awaited before retirement is looked at.
SetupEnds(r) ==
    /\ At(r, "suEnd")
    /\ LET s == Top(r).s
       IN  \/ (~ses[s].retired \/ watcherGone(s)) /\ UNCHANGED left
           \/ ses[s].retired /\ Spend("timeout")
    /\ Push(r, Frame("finish", Top(r).s, 0, 0, FALSE), "reply")
    /\ UNCHANGED <<ses, au, tr, exp, conn, req, late, setting>>

-----------------------------------------------------------------------------
(* The watcher of a session's authentication.                              *)

\* Time: the deadline of a handshake, the end of an identity's validity.
DeadlinePasses(s) ==
    /\ ses[s].armed /\ ~ses[s].past
    /\ Spend("past")
    /\ ses' = [ses EXCEPT ![s].past = TRUE]
    /\ UNCHANGED <<au, tr, exp, conn, req, act, late, setting>>

IdentityExpires(s) ==
    /\ At(Watcher(s), "watch") /\ ses[s].mu = 0
    /\ ses[s].signer = "live" /\ ~ses[s].retired /\ ~ses[s].idout
    /\ Spend("expire")
    /\ ses' = [ses EXCEPT ![s].idout = TRUE]
    /\ UNCHANGED <<au, tr, exp, conn, req, act, late, setting>>

WatcherLeaves(f, s) == [f EXCEPT ![s].watch = "gone"]

watchAuthentication(s) ==
    /\ At(Watcher(s), "watch")
    /\ ses[s].stopw \/ conn[Conn(s)].lost
    /\ ses' = WatcherLeaves(ses, s)
    /\ Goto(Watcher(s), "finish")
    /\ UNCHANGED <<au, tr, exp, conn, req, late, left, setting>>

expireAuthentication(s) ==
    /\ At(Watcher(s), "watch") /\ ses[s].mu = 0
    /\ ses[s].armed /\ ses[s].past
    /\ LET out == [ses EXCEPT ![s].armed = FALSE, ![s].expired = TRUE]
           initial == ses[s].signer = "none"
       IN  IF ses[s].retired
           THEN ses' = WatcherLeaves(ses, s) /\ Goto(Watcher(s), "finish") /\ UNCHANGED <<late, left>>
           ELSE \E shut \in BOOLEAN :
                    /\ IF shut THEN UNCHANGED left ELSE ses[s].auth /\ Spend("fault")
                    /\ LET f == [out EXCEPT ![s].auth = @ /\ ~shut]
                       IN  IF initial
                           THEN /\ ses' = WatcherLeaves(retireSessionRequests(f, s), s)
                                /\ late' = late \cup Cancelled(s, 0)
                                /\ Goto(Watcher(s), "finish")
                           ELSE ses' = f /\ UNCHANGED <<late, act>>
    /\ UNCHANGED <<au, tr, exp, conn, req, setting>>

-----------------------------------------------------------------------------
(* TREE_CONNECT of a volume, and the authority its first tree makes.       *)

ConnectCounts(r) ==
    /\ At(r, "connect")
    /\ IF exp.stopping \/ exp.gone
       THEN act' = Fail(r, "reply") /\ UNCHANGED exp
       ELSE exp' = [exp EXCEPT !.refs = @ + 1, !.active = @ + 1] /\ Goto(r, "cvReserve")
    /\ UNCHANGED <<ses, au, tr, conn, req, late, left, setting>>

\* MUTANT: only the number of trees is checked.
RefusedWhenFull(s) == Cardinality(Trees(s)) + ses[s].opening >= S.trees

\* A retired or full session takes no more trees.
ConnectRefused(s) == ses[s].retired \/ Cardinality(Trees(s)) + ses[s].opening >= S.trees

\* The tree is reserved; the first one of the export makes the authority,
\* which holds a reference of the export of its own.
ConnectReserves(r) ==
    /\ At(r, "cvReserve")
    /\ LET s == Top(r).s
           x == IF ses[s].au = 0 THEN r ELSE ses[s].au
       IN  \/ /\ ConnectRefused(s)
              /\ act' = Fail(r, "cvEnd")
              /\ UNCHANGED <<ses, au, exp, left>>
           \/ Spend("deny") /\ act' = Fail(r, "cvEnd") /\ UNCHANGED <<ses, au, exp>>
           \/ /\ ~ConnectRefused(s)
              /\ ses' = [ses EXCEPT ![s].opening = @ + 1, ![s].au = x]
              /\ au' = IF x = r THEN [au EXCEPT ![r] = [NoAuthority EXCEPT !.s = s, !.orphan = TRUE]] ELSE au
              /\ exp' = IF x = r THEN [exp EXCEPT !.refs = @ + 1] ELSE exp
              /\ act' = Put(r, [Top(r) EXCEPT !.pc = IF x = r THEN "cvOpen" ELSE "cvWait",
                                              !.x = x, !.ex = TRUE])
              /\ UNCHANGED left
    /\ UNCHANGED <<tr, conn, req, late, setting>>

\* The file session is opened and its renewal starts, or one of the calls
\* that open it fails.
AuthorityOpens(r) ==
    /\ At(r, "cvOpen")
    /\ \/ /\ au' = [au EXCEPT ![r].raw = TRUE, ![r].ready = "ok", ![r].renew = "run"]
          /\ act' = [Put(r, [Top(r) EXCEPT !.pc = "cvInstall"]) EXCEPT
                        ![Renewer(r)] = <<Frame("renew", Top(r).s, 0, r, TRUE)>>]
          /\ UNCHANGED left
       \/ /\ Spend("open")
          /\ \E raw \in BOOLEAN :
                 au' = [au EXCEPT ![r].raw = raw, ![r].ready = "failed", ![r].renew = "done"]
          /\ act' = Fail(r, "cvDrop")
    /\ UNCHANGED <<ses, tr, exp, conn, req, late, setting>>

AuthorityAwaited(r) ==
    /\ At(r, "cvWait")
    /\ \/ au[Top(r).x].ready = "ok" /\ Goto(r, "cvInstall")
       \/ au[Top(r).x].ready = "failed" /\ act' = Fail(r, "cvEnd")
       \/ r \in late /\ act' = Fail(r, "cvEnd")
    /\ UNCHANGED <<ses, au, tr, exp, conn, req, late, left, setting>>

\* The tree is installed only in a live session under a live authority.
TreeInstalls(r) ==
    /\ At(r, "cvInstall")
    /\ LET s == Top(r).s  x == Top(r).x
       IN  IF ses[s].retired \/ au[x].stopping \/ au[x].closed \/ r \in late
           THEN act' = Fail(r, IF x = r THEN "cvDrop" ELSE "cvEnd") /\ UNCHANGED <<au, tr, exp>>
           ELSE /\ au' = [au EXCEPT ![x].refs = @ + 1]
                /\ tr' = [tr EXCEPT ![r] = [NoTree EXCEPT !.s = s, !.in = TRUE, !.open = TRUE, !.au = x]]
                /\ exp' = [exp EXCEPT !.trees = @ + 1]
                /\ Goto(r, "cvEnd")
    /\ UNCHANGED <<ses, conn, req, late, left, setting>>

\* The close of the file session: released, released with an error to report,
\* or not released, where it may keep an error of the settlement to report
\* later. Once closed it only repeats what it reported.
Stopped(x) == {[au[x] EXCEPT !.stopping = TRUE, !.closed = c, !.cerr = e] : c, e \in BOOLEAN}
AuthorityCloses(x, b) ==
    \/ /\ b.closed /\ b.cerr = au[x].cerr
       /\ UNCHANGED left
    \/ /\ ~au[x].closed /\ au[x].raw
       /\ b.closed \/ au[x].cerr => b.cerr
       /\ Spend("close")

\* MUTANT: every release gives a reference back, the second one too.
releaseAgain(e, a) == [e EXCEPT !.refs = @ - 1]

\* The creator drops an authority that got no tree.
releaseExport(e, a) == [e EXCEPT !.refs = IF a.orphan THEN @ - 1 ELSE @]
Released(f, x) == [f EXCEPT ![x].orphan = FALSE, ![x].mu = 0]

CreatorLocks(r) ==
    /\ At(r, "cvDrop")
    /\ IF ses[Top(r).s].au # r
       THEN Goto(r, "cvEnd") /\ UNCHANGED <<au, left>>
       ELSE \/ /\ au[r].mu = 0
               /\ au' = [au EXCEPT ![r].mu = IF au[r].refs = 0 THEN r ELSE 0,
                                   ![r].stopping = @ \/ au[r].refs = 0]
               /\ Goto(r, IF au[r].refs = 0 THEN "cvClose" ELSE "cvEnd")
               /\ UNCHANGED left
            \/ au[r].mu # 0 /\ Spend("timeout") /\ Goto(r, "cvEnd") /\ UNCHANGED au
    /\ UNCHANGED <<ses, tr, exp, conn, req, late, setting>>

CreatorCloses(r) ==
    /\ At(r, "cvClose")
    /\ \E b \in Stopped(r) :
           LET ok == b.closed /\ ~b.cerr
           IN  /\ AuthorityCloses(r, b)
               /\ au' = [au EXCEPT ![r] = IF ok THEN b ELSE [b EXCEPT !.mu = 0]]
               /\ Goto(r, IF ok THEN "cvRelease" ELSE "cvEnd")
    /\ UNCHANGED <<ses, tr, exp, conn, req, late, setting>>

CreatorReleases(r) ==
    /\ At(r, "cvRelease")
    /\ \/ /\ au[r].renew = "done"
          /\ exp' = releaseExport(exp, au[r])
          /\ au' = Released(au, r)
          /\ ses' = [ses EXCEPT ![Top(r).s].au = IF @ = r THEN 0 ELSE @]
          /\ UNCHANGED left
       \/ au[r].renew # "done" /\ Spend("timeout") /\ au' = [au EXCEPT ![r].mu = 0]
          /\ UNCHANGED <<ses, exp>>
    /\ Goto(r, "cvEnd")
    /\ UNCHANGED <<tr, conn, req, late, setting>>

\* Whatever the outcome, the reservation ends; retirement may have waited.
ConnectEnds(r) ==
    /\ At(r, "cvEnd")
    /\ LET kept == tr[r].s # 0  reserved == Top(r).ex
       IN  /\ exp' = [exp EXCEPT !.active = @ - 1, !.refs = IF kept THEN @ ELSE @ - 1]
           /\ ses' = IF reserved THEN [ses EXCEPT ![Top(r).s].opening = @ - 1] ELSE ses
           /\ IF reserved THEN Push(r, Frame("finish", Top(r).s, 0, 0, FALSE), "reply") ELSE Goto(r, "reply")
    /\ UNCHANGED <<au, tr, conn, req, late, left, setting>>

\* Renewal runs until the authority stops or its connection is lost. A failed
\* renewal fences the trees and takes the authority apart.
renew(x) ==
    LET a == Renewer(x)
    IN  /\ At(a, "renew")
        /\ \/ /\ au[x].stopping \/ conn[Conn(au[x].s)].lost
              /\ au' = [au EXCEPT ![x].renew = "done"]
              /\ act' = [act EXCEPT ![a] = <<>>]
              /\ UNCHANGED <<tr, late, left>>
           \/ /\ Spend("renew")
              /\ au' = [au EXCEPT ![x].renew = "done", ![x].stopping = TRUE]
              /\ LET trees == {t \in Trees(au[x].s) : tr[t].au = x}
                 IN  /\ tr' = [t \in Reqs |-> IF t \in trees THEN [tr[t] EXCEPT !.fenced = TRUE] ELSE tr[t]]
                     /\ act' = Put(a, [Top(a) EXCEPT !.pc = "ceTrees", !.todo = trees])
              /\ UNCHANGED late
        /\ UNCHANGED <<ses, exp, conn, req, setting>>

-----------------------------------------------------------------------------
(* Taking a tree apart (closeTreeContext).                                 *)

TreeDone(a, res) ==
    /\ RetAll(a, {b \in Actors : At(b, "ctJoin") /\ Top(b).t = Top(a).t}, res)

fenceTree(f, t) == [f EXCEPT ![t].fenced = TRUE]

\* Concurrent callers share one attempt; the first fences the tree.
TreeGate(a) ==
    /\ At(a, "ctGate")
    /\ LET t == Top(a).t
       IN  IF tr[t].gate # 0
           THEN Goto(a, "ctJoin") /\ UNCHANGED <<tr, late>>
           ELSE /\ tr' = fenceTree([tr EXCEPT ![t].gate = a], t)
                /\ late' = late \cup tr[t].busy
                /\ Goto(a, "ctIdle")
    /\ UNCHANGED <<ses, au, exp, conn, req, left, setting>>

JoinGivenUp(a) ==
    /\ At(a, "ctJoin") \/ At(a, "csJoin")
    /\ a \in late
    /\ Ret(a, "err")
    /\ UNCHANGED <<ses, au, tr, exp, conn, req, late, left, setting>>

TreeFails(a) ==
    /\ tr' = [tr EXCEPT ![Top(a).t].gate = 0]
    /\ TreeDone(a, "err")

\* The work of the tree ends, then the trees of the authority go one by one.
TreeIdle(a) ==
    /\ At(a, "ctIdle")
    /\ LET t == Top(a).t  x == tr[t].au
       IN  \/ a \in late /\ TreeFails(a) /\ UNCHANGED au
           \/ /\ tr[t].busy = {} /\ au[x].mu = 0 /\ a \notin late
              /\ IF ~tr[t].open
                 THEN /\ tr' = [tr EXCEPT ![t].gate = 0]
                      /\ TreeDone(a, "ok") /\ UNCHANGED au
                 ELSE /\ au' = [au EXCEPT ![x].mu = a]
                      /\ Goto(a, "ctHandles") /\ UNCHANGED tr
    /\ UNCHANGED <<ses, exp, conn, req, late, left, setting>>

TreeUnlocks(a, b) ==
    /\ au' = [au EXCEPT ![tr[Top(a).t].au] = [b EXCEPT !.mu = 0]]
    /\ TreeFails(a)

closeFileHandles(a) ==
    /\ At(a, "ctHandles")
    /\ \/ Goto(a, "ctLast") /\ UNCHANGED left
       \/ Spend("handles") /\ Goto(a, "ctRecover")
    /\ UNCHANGED <<ses, au, tr, exp, conn, req, late, setting>>

\* Handles that cannot be closed go with the file session, if no tree can
\* come or still works.
recoverRetainedOwners(a) ==
    /\ At(a, "ctRecover")
    /\ LET t == Top(a).t  x == tr[t].au  s == tr[t].s
           trees == {q \in Trees(s) : tr[q].au = x}
           frozen == ses[s].opening = 0 /\ Cardinality(trees) = au[x].refs
                     /\ \A q \in trees : tr[q].fenced
       IN  \/ ~frozen /\ TreeUnlocks(a, au[x]) /\ UNCHANGED left
           \/ /\ frozen /\ a \in late
              /\ TreeUnlocks(a, [au[x] EXCEPT !.stopping = TRUE]) /\ UNCHANGED left
           \/ /\ frozen /\ \A q \in trees : tr[q].busy = {}
              /\ \E b \in Stopped(x) :
                     /\ AuthorityCloses(x, b)
                     /\ IF b.closed
                        THEN /\ au' = [au EXCEPT ![x] = b]
                             /\ act' = Put(a, [Top(a) EXCEPT !.pc = "ctLast", !.err = TRUE])
                             /\ UNCHANGED tr
                        ELSE TreeUnlocks(a, b)
    /\ UNCHANGED <<ses, exp, conn, req, late, setting>>

\* The last tree closes the authority.
TreeLast(a) ==
    /\ At(a, "ctLast")
    /\ LET x == tr[Top(a).t].au
       IN  IF au[x].refs # 1
           THEN Goto(a, "ctDone") /\ UNCHANGED <<au, tr, left>>
           ELSE \E b \in Stopped(x) :
                    /\ AuthorityCloses(x, b)
                    /\ IF b.closed
                       THEN /\ au' = [au EXCEPT ![x] = b]
                            /\ act' = Put(a, [Top(a) EXCEPT !.pc = "ctRenewer", !.err = @ \/ b.cerr])
                            /\ UNCHANGED tr
                       ELSE TreeUnlocks(a, b)
    /\ UNCHANGED <<ses, exp, conn, req, late, setting>>

RenewalAwaited(a) ==
    /\ At(a, "ctRenewer")
    /\ \/ au[tr[Top(a).t].au].renew = "done" /\ Goto(a, "ctDone") /\ UNCHANGED <<au, tr>>
       \/ a \in late /\ TreeUnlocks(a, au[tr[Top(a).t].au])
    /\ UNCHANGED <<ses, exp, conn, req, late, left, setting>>

TreeClosed(a) ==
    /\ At(a, "ctDone")
    /\ LET t == Top(a).t
       IN  /\ au' = [au EXCEPT ![tr[t].au].refs = @ - 1, ![tr[t].au].mu = 0]
           /\ tr' = [tr EXCEPT ![t].open = FALSE, ![t].in = FALSE, ![t].gate = 0]
           /\ exp' = [exp EXCEPT !.refs = @ - 1, !.trees = @ - 1]
    /\ TreeDone(a, IF Top(a).err THEN "err" ELSE "ok")
    /\ UNCHANGED <<ses, conn, req, late, left, setting>>

\* A list of trees is closed one after the other, errors collected, and the
\* authority after them. A logoff is authorized tree by tree.
EachTree(a) ==
    /\ At(a, "csTrees") \/ At(a, "ceTrees")
    /\ LET f == Top(a)
       IN  \/ /\ f.todo = {}
              /\ IF f.pc = "csTrees"
                 THEN Push(a, Frame("coReady", f.s, 0, ses[f.s].au, FALSE), "csLook")
                 ELSE Push(a, Frame("coReady", f.s, 0, ses[f.s].au, TRUE), "ceDone")
              /\ UNCHANGED left
           \/ \E t \in f.todo :
                  /\ act' = [act EXCEPT ![a] = <<Frame("ctGate", tr[t].s, t, tr[t].au, FALSE),
                                [f EXCEPT !.todo = @ \ {t}]>> \o Tail(@)]
                  /\ UNCHANGED left
           \/ \E t \in f.todo :
                  /\ f.pc = "csTrees" /\ f.ex /\ Spend("deny")
                  /\ act' = Put(a, [f EXCEPT !.todo = @ \ {t}, !.err = TRUE])
    /\ UNCHANGED <<ses, au, tr, exp, conn, req, late, setting>>

-----------------------------------------------------------------------------
(* The authority without trees: closeOrphansLocked, closeExportAuthority.   *)

AuthorityLocked(a) ==
    /\ At(a, "coReady")
    /\ LET x == Top(a).x
       IN  \/ x = 0 /\ Ret(a, "ok") /\ UNCHANGED au
           \/ x # 0 /\ a \in late /\ Ret(a, "err") /\ UNCHANGED au
           \/ /\ x # 0 /\ au[x].ready # "no" /\ au[x].mu = 0 /\ a \notin late
              /\ IF au[x].refs # 0
                 THEN Ret(a, IF Top(a).ex THEN "err" ELSE "ok") /\ UNCHANGED au
                 ELSE au' = [au EXCEPT ![x].mu = a] /\ Goto(a, "coClose")
    /\ UNCHANGED <<ses, tr, exp, conn, req, late, left, setting>>

OrphanCloses(a) ==
    /\ At(a, "coClose")
    /\ \E b \in Stopped(Top(a).x) :
           /\ AuthorityCloses(Top(a).x, b)
           /\ IF b.closed
              THEN /\ au' = [au EXCEPT ![Top(a).x] = b]
                   /\ act' = Put(a, [Top(a) EXCEPT !.pc = "coRenewer", !.err = b.cerr])
              ELSE au' = [au EXCEPT ![Top(a).x] = [b EXCEPT !.mu = 0]] /\ Ret(a, "err")
    /\ UNCHANGED <<ses, tr, exp, conn, req, late, setting>>

Result(a) == IF Top(a).err THEN "err" ELSE "ok"

\* The authority leaves the session and gives its reference of the export
\* back. The last one of a retired session leaves only with the session.
closeOrphans(a) ==
    /\ At(a, "coRenewer")
    /\ LET x == Top(a).x  s == au[x].s  mine == ses[s].au = x
       IN  \/ a \in late /\ au' = [au EXCEPT ![x].mu = 0] /\ Ret(a, "err") /\ UNCHANGED <<ses, exp>>
           \/ /\ au[x].renew = "done" /\ (~Top(a).ex \/ (mine /\ ~ses[s].retired))
              /\ exp' = releaseExport(exp, au[x])
              /\ au' = Released(au, x)
              /\ ses' = [ses EXCEPT ![s].au = IF mine THEN 0 ELSE @]
              /\ Ret(a, Result(a))
           \/ /\ au[x].renew = "done" /\ Top(a).ex /\ ~mine
              /\ au' = [au EXCEPT ![x].mu = 0] /\ Ret(a, Result(a)) /\ UNCHANGED <<ses, exp>>
           \/ /\ au[x].renew = "done" /\ Top(a).ex /\ mine /\ ses[s].retired
              /\ Goto(a, "coCommit") /\ UNCHANGED <<ses, au, exp>>
    /\ UNCHANGED <<tr, conn, req, late, left, setting>>

closeExportAuthority(a) ==
    /\ At(a, "coCommit")
    /\ LET x == Top(a).x  s == au[x].s
       IN  \/ a \in late /\ au' = [au EXCEPT ![x].mu = 0] /\ Ret(a, "err") /\ UNCHANGED <<ses, exp>>
           \/ /\ a \notin late /\ ses[s].mu = 0
              /\ IF Complete(s, ses[s].au = x)
                 THEN /\ exp' = releaseExport(exp, au[x])
                      /\ au' = Released(au, x)
                      /\ ses' = recordSessionResourcesClosed([ses EXCEPT ![s].au = 0], s)
                      /\ Ret(a, Result(a))
                 ELSE au' = [au EXCEPT ![x].mu = 0] /\ Ret(a, "err") /\ UNCHANGED <<ses, exp>>
    /\ conn' = releaseDisconnected(ses', conn)
    /\ UNCHANGED <<tr, req, late, left, setting>>

-----------------------------------------------------------------------------
(* Taking a session apart (cleanSession).                                  *)

SessionDone(a, res) ==
    /\ ses' = [ses EXCEPT ![Top(a).s].gate = 0]
    /\ RetAll(a, {b \in Actors : At(b, "csJoin") /\ Top(b).s = Top(a).s}, res)

\* Concurrent callers share one attempt. The first retires the session.
SessionGate(a) ==
    /\ At(a, "csGate")
    /\ LET s == Top(a).s
       IN  IF ses[s].gate # 0
           THEN Goto(a, "csJoin") /\ UNCHANGED <<ses, late>>
           ELSE IF ses[s].cleaned
                THEN Ret(a, IF Top(a).ex THEN "stopped" ELSE "ok") /\ UNCHANGED <<ses, late>>
                ELSE /\ ses' = retireSessionRequests([ses EXCEPT ![s].gate = a], s)
                     /\ late' = late \cup Cancelled(s, IF a \in Reqs THEN a ELSE 0)
                     /\ Goto(a, "csSync")
    /\ UNCHANGED <<au, tr, exp, conn, req, left, setting>>

\* A setup that is finalizing is awaited without the lock it needs.
synchronizeFinalization(a) ==
    /\ At(a, "csSync")
    /\ LET s == Top(a).s
       IN  \/ ses[s].mu = 0 /\ ~ses[s].finalizing /\ Goto(a, "csAuth") /\ UNCHANGED ses
           \/ ses[s].mu = 0 /\ ses[s].finalizing /\ a \in late /\ SessionDone(a, "err")
    /\ UNCHANGED <<au, tr, exp, conn, req, late, left, setting>>

AuthenticationCloses(a) ==
    /\ At(a, "csAuth") /\ ses[Top(a).s].mu = 0
    /\ LET s == Top(a).s
           f == [ses EXCEPT ![s].armed = FALSE, ![s].expired = TRUE]
       IN  \/ ses' = [f EXCEPT ![s].auth = FALSE] /\ Goto(a, "csWatch") /\ UNCHANGED left
           \/ /\ ses[s].auth /\ Spend("fault") /\ ses' = f
              /\ act' = Put(a, [Top(a) EXCEPT !.pc = "csWatch", !.err = TRUE])
    /\ UNCHANGED <<au, tr, exp, conn, req, late, setting>>

\* The watcher is awaited, then every tree of the session is fenced.
TreesFenced(a) ==
    /\ At(a, "csWatch")
    /\ LET s == Top(a).s  trees == Trees(s)
       IN  /\ watcherGone(s) \/ a \in late
           /\ tr' = [t \in Reqs |-> IF t \in trees THEN [tr[t] EXCEPT !.fenced = TRUE] ELSE tr[t]]
           /\ late' = late \cup UNION {tr[t].busy : t \in trees}
           /\ act' = Put(a, [Top(a) EXCEPT !.pc = "csTrees", !.todo = trees,
                                           !.err = @ \/ ~watcherGone(s)])
    /\ UNCHANGED <<ses, au, exp, conn, req, left, setting>>

SessionLooks(a) ==
    /\ At(a, "csLook")
    /\ Push(a, Frame("finish", Top(a).s, 0, 0, FALSE), "csWait")
    /\ UNCHANGED <<ses, au, tr, exp, conn, req, late, left, setting>>

\* The session is cleaned only when those who still open or authenticate in
\* it have seen that it is retired.
waitCleaned(a) ==
    /\ At(a, "csWait")
    /\ \/ Top(a).err /\ SessionDone(a, "err")
       \/ ~Top(a).err /\ ses[Top(a).s].cleaned /\ SessionDone(a, "ok")
       \/ ~Top(a).err /\ ~ses[Top(a).s].cleaned /\ a \in late /\ SessionDone(a, "err")
    /\ UNCHANGED <<au, tr, exp, conn, req, late, left, setting>>

-----------------------------------------------------------------------------
(* A connection is lost; the export is unpublished; the server shuts down.  *)

\* The reader ends and every request of the connection is cancelled.
ConnectionLost(c) ==
    /\ ~conn[c].lost /\ S.drops
    /\ conn' = [conn EXCEPT ![c].lost = TRUE]
    /\ late' = late \cup {r \in Reqs : req[r].st = "pend" /\ Script(r).c = c}
    /\ UNCHANGED <<ses, au, tr, exp, req, act, left, setting>>

\* When its requests and watchers have ended, its sessions are cleaned.
cleanup(c) ==
    /\ conn[c].lost /\ ~conn[c].gone /\ act[Cleaner(c)] = <<>>
    /\ \A r \in Reqs : Script(r).c = c => req[r].st # "pend"
    /\ \A s \in Sessions : Conn(s) = c => act[Watcher(s)] = <<>>
    /\ conn[c].disc => exp.stopping
    /\ conn' = [conn EXCEPT ![c].disc = TRUE]
    /\ late' = late \ {Cleaner(c)}
    /\ act' = [act EXCEPT ![Cleaner(c)] = <<Frame("kLock", 0, 0, 0, FALSE)>>]
    /\ UNCHANGED <<ses, au, tr, exp, req, left, setting>>

retryDisconnected(c) ==
    LET a == Cleaner(c)
    IN  /\ \/ /\ At(a, "kLock") /\ a \in late
              /\ Ret(a, "err") /\ UNCHANGED conn
           \/ /\ At(a, "kLock") /\ a \notin late /\ conn[c].mu = 0
              /\ conn' = [conn EXCEPT ![c].mu = a]
              /\ act' = Put(a, [Top(a) EXCEPT !.pc = "kEach",
                            !.todo = {s \in Sessions : Conn(s) = c /\ ses[s].here}])
           \/ /\ At(a, "kEach")
              /\ \E s \in Top(a).todo :
                     act' = [act EXCEPT ![a] = <<Frame("csGate", s, 0, 0, FALSE),
                                [Head(@) EXCEPT !.todo = @ \ {s}]>>]
              /\ UNCHANGED conn
           \/ /\ At(a, "kEach") /\ Top(a).todo = {}
              /\ conn' = releaseDisconnected(ses, [conn EXCEPT ![c].mu = 0])
              /\ act' = [act EXCEPT ![a] = <<>>]
        /\ UNCHANGED <<ses, au, tr, exp, req, late, left, setting>>

\* Unpublish is refused while the export is in use; stop is not.
Unpublish ==
    /\ ~exp.stopping /\ S.stops # "never"
    /\ S.stops = "idle" => exp.trees = 0 /\ exp.active = 0
    /\ exp' = [exp EXCEPT !.stopping = TRUE]
    /\ UNCHANGED <<ses, au, tr, conn, req, act, late, left, setting>>

\* Export.close visits the sessions that own an authority of the export.
Owners == {s \in Sessions : ses[s].here /\ ses[s].au # 0}

closeExport ==
    LET a == Closer
    IN  /\ \/ /\ exp.stopping /\ ~exp.gone /\ act[a] = <<>>
              /\ act' = [act EXCEPT ![a] = <<Frame("xEach", 0, 0, 0, FALSE)>>]
              /\ late' = late \ {a}
              /\ UNCHANGED <<tr, conn, exp>>
           \/ /\ At(a, "xEach")
              /\ \E c \in Conns \ Top(a).todo :
                     LET own == {s \in Owners : Conn(s) = c}
                     IN  \/ /\ own = {} \/ a \in late
                            /\ act' = Put(a, [Top(a) EXCEPT !.todo = @ \cup {c}, !.err = @ \/ a \in late])
                            /\ UNCHANGED <<tr, conn, late, exp>>
                         \/ \E s \in own :
                                /\ conn[c].mu \in {0, a} /\ a \notin late
                                /\ conn' = [conn EXCEPT ![c].mu = a]
                                /\ tr' = [t \in Reqs |-> IF t \in Trees(s)
                                                         THEN [tr[t] EXCEPT !.fenced = TRUE] ELSE tr[t]]
                                /\ late' = late \cup UNION {tr[t].busy : t \in Trees(s)}
                                /\ act' = [act EXCEPT ![a] =
                                     <<[Frame("ceTrees", s, c, 0, TRUE) EXCEPT !.todo = Trees(s)], Head(@)>>]
                                /\ UNCHANGED exp
           \/ /\ At(a, "xEach") /\ Top(a).todo = Conns
              /\ exp' = [exp EXCEPT !.gone = ~Top(a).err /\ exp.refs = 0 /\ exp.active = 0]
              /\ act' = [act EXCEPT ![a] = <<>>]
              /\ UNCHANGED <<tr, conn, late>>
        /\ UNCHANGED <<ses, au, req, left, setting>>

\* One session of a connection is done for the export.
ExportPartDone(a) ==
    /\ At(a, "ceDone")
    /\ IF a = Closer
       THEN /\ conn' = [conn EXCEPT ![Top(a).t].mu = 0]
            /\ act' = [act EXCEPT ![a] = <<[@[2] EXCEPT !.err = @ \/ Top(a).err,
                          !.todo = @ \cup {Top(a).t}]>>]
       ELSE act' = [act EXCEPT ![a] = <<>>] /\ UNCHANGED conn
    /\ UNCHANGED <<ses, au, tr, exp, req, late, left, setting>>

Procedures(a) ==
    \/ finishSessionRetirement(a)
    \/ TreeGate(a) \/ JoinGivenUp(a) \/ TreeIdle(a) \/ closeFileHandles(a) \/ recoverRetainedOwners(a)
    \/ TreeLast(a) \/ RenewalAwaited(a) \/ TreeClosed(a) \/ EachTree(a)
    \/ AuthorityLocked(a) \/ OrphanCloses(a) \/ closeOrphans(a) \/ closeExportAuthority(a)
    \/ SessionGate(a) \/ synchronizeFinalization(a) \/ AuthenticationCloses(a) \/ TreesFenced(a)
    \/ SessionLooks(a) \/ waitCleaned(a) \/ ExportPartDone(a)

Request(r) ==
    \/ Lookup(r) \/ Dispatch(r) \/ RejectRequest(r) \/ Reply(r)
    \/ Work(r) \/ TreeDisconnect(r) \/ Logoff(r)
    \/ SetupCreates(r) \/ SetupEnters(r) \/ SetupSteps(r) \/ SetupFinalizes(r)
    \/ retirePreviousSession(r) \/ PreviousRetired(r) \/ SetupInstalls(r) \/ SetupFails(r) \/ SetupEnds(r)
    \/ ConnectCounts(r) \/ ConnectReserves(r) \/ AuthorityOpens(r) \/ AuthorityAwaited(r)
    \/ TreeInstalls(r) \/ CreatorLocks(r) \/ CreatorCloses(r) \/ CreatorReleases(r) \/ ConnectEnds(r)

Next ==
    \/ \E r \in Reqs : Receive(r) \/ Request(r) \/ renew(r)
    \/ \E s \in Sessions :
           DeadlinePasses(s) \/ IdentityExpires(s) \/ watchAuthentication(s) \/ expireAuthentication(s)
    \/ \E c \in Conns : ConnectionLost(c) \/ cleanup(c) \/ retryDisconnected(c)
    \/ Unpublish \/ closeExport
    \/ \E a \in Actors : Procedures(a) \/ Timeout(a)

Spec == Init /\ [][Next]_vars

FairSpec ==
    /\ Spec
    /\ \A r \in Reqs : WF_vars(Request(r)) /\ WF_vars(renew(r))
    /\ \A s \in Sessions : WF_vars(watchAuthentication(s)) /\ WF_vars(expireAuthentication(s))
    /\ \A c \in Conns : WF_vars(cleanup(c)) /\ WF_vars(retryDisconnected(c))
    /\ WF_vars(closeExport)
    /\ \A a \in Actors : WF_vars(Procedures(a))

-----------------------------------------------------------------------------
(* Properties.                                                             *)

\* A request that took its session's signer can sign its response with it:
\* however the session is retired meanwhile, the signer is destroyed only
\* after the last response frame (retainSessionFrameLocked,
\* pruneRetiredSessionsLocked).
SignerLives ==
    \A r \in Reqs : req[r].keyed /\ req[r].s # 0 => ses[req[r].s].signer # "dead"

\* A session counts as cleaned only when nothing of it is left: its
\* authenticator, its watcher, its trees, its half-made trees, and every
\* authority it ever made is closed (finishSessionRetirement,
\* closeExportAuthority). LOGOFF and a successor's SESSION_SETUP answer on
\* the strength of it.
CleanedIsClean ==
    \A s \in Sessions : ses[s].cleaned =>
        /\ ~ses[s].auth /\ watcherGone(s) /\ ses[s].opening = 0 /\ ses[s].au = 0
        /\ \A t \in Reqs : tr[t].s = s => ~tr[t].open
        /\ \A x \in Reqs : au[x].s = s /\ au[x].raw => au[x].closed

\* An export that is gone has no file session left open anywhere, and its
\* counts are those of the trees, authorities and connects in progress
\* (Unpublish, retryCleanup, releaseExport).
GoneIsUnused ==
    /\ exp.gone => \A x \in Reqs : au[x].raw => au[x].closed
    /\ exp.trees = Cardinality({t \in Reqs : tr[t].open})
    /\ exp.refs = exp.trees + Cardinality({x \in Reqs : au[x].orphan})
                  + Cardinality({r \in Reqs : act[r] # <<>> /\ tr[r].s = 0
                        /\ \E i \in DOMAIN act[r] : act[r][i].pc \in {"cvReserve", "cvOpen", "cvWait",
                               "cvInstall", "cvDrop", "cvClose", "cvRelease", "cvEnd"}})

\* A connection that is lost goes, with all its sessions, once the endpoint
\* is stopping, however its cleanup was disturbed (retryCleanup).
LostGoes == \A c \in Conns : (conn[c].lost /\ exp.stopping) ~> conn[c].gone

\* Every request is answered, two sessions that retire one another included
\* (synchronizeFinalization, retireSessionRequests).
RequestsEnd == \A r \in Reqs : req[r].st = "pend" ~> req[r].st = "done"

=============================================================================
