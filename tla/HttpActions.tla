------------------------------ MODULE HttpActions ------------------------------
(* File operations of packages/transport/httprest over a connection that loses
   and delays: the client gives every mutation an identity, the server keeps a
   receipt of it, and whoever does not hear the answer asks again.

   One step is one critical section of the client's session (s.mu) or of the
   served session (session.mu), or one call of the native session.  The clock is
   the HTTP epoch of the served session, one history long: an identity is made in
   an epoch, its receipt is kept to the end of the next.  A request sent and given
   up by its caller may still arrive, at any later time.                     *)
EXTENDS Naturals, FiniteSets, FiniteSetsExt

CONSTANTS Callers, Ids, Slots, Settings

VARIABLES srv,      \* servedFileSession
          cli,      \* remoteFileSession
          caller,   \* where each call of the client stands
          rpc,      \* requests under way: sent, or in the hands of the server
          id,       \* action identities: receipts, and what was executed
          file,     \* capabilities, named by the identity that opened them
          setting

vars == <<srv, cli, caller, rpc, id, file, setting>>

Bounds == Settings[setting]
MaxEpoch == Bounds.epochs            \* bound of the clock
MaxActions == Bounds.actions         \* receipts of data operations the server keeps
PendingLimit == Bounds.pending       \* undecided operations the client keeps
Lease == Bounds.lease                \* in epochs; longer than PendingAck
PendingAck == 1

\* What callers ask for.  w and v are WriteAt with different bytes; n is MutateName
\* and p is OpenAt, whose identities are the caller's own; m is Mutate, retried by
\* its caller; o is OpenFile; r is Renew.  Ack follows an open.
Opens == {"o", "p"}
Semantic == {"n", "m", "p"}
Required == {"w", "v", "n", "m", "o", "p"}

NoId == 0
NoSlot == 0
Idle == [at |-> "idle", op |-> "none", id |-> NoId, slot |-> NoSlot, then |-> "none", got |-> "none", epoch |-> 0]
Free == [from |-> "free", op |-> "none", id |-> NoId, at |-> "none"]
NoFile == [at |-> "none", left |-> 0, replaying |-> 0]

Init ==
    /\ setting \in DOMAIN Settings
    /\ srv = [epoch |-> 1, lease |-> Lease, retired |-> FALSE, gone |-> FALSE, actions |-> 0]
    /\ cli = [epoch |-> 1, failed |-> FALSE, closed |-> FALSE, inflight |-> 0, pending |-> {},
              known |-> {}, writes |-> {}, unsure |-> {}, gate |-> {}, detached |-> {},
              asking |-> NoId, todo |-> {}, files |-> {}, lost |-> Bounds.lost]
    /\ caller = [c \in Callers |-> Idle]
    /\ rpc = [n \in Slots |-> Free]
    /\ id = [i \in Ids |-> [op |-> "none", made |-> 0, of |-> NoId, receipt |-> "none", until |-> 0,
                            barrier |-> FALSE, ran |-> 0, told |-> "none", taken |-> 0]]
    /\ file = [i \in Ids |-> NoFile]

-----------------------------------------------------------------------------
(* Identities.                                                              *)

Unmade == {i \in Ids : id[i].op = "none" /\ i <= Bounds.ids}
NewId == CHOOSE i \in Unmade : \A j \in Unmade : i <= j
\* NewLockRequestID: an identity names the epoch it is made in.  of is the
\* operation it stands for, by its first identity.
Made(ids, i, op, epoch, of) == [ids EXCEPT ![i].op = op, ![i].made = epoch, ![i].of = of]

-----------------------------------------------------------------------------
(* Requests and answers.                                                    *)

FreeSlots == {n \in Slots : rpc[n].from = "free"}
Slot == CHOOSE n \in FreeSlots : \A m \in FreeSlots : n <= m
Sent(c, op, i) == [from |-> c, op |-> op, id |-> i, at |-> "sent"]
\* Storage.fileCall: the request goes out, the caller waits for then.
Send(c, op, i, then) ==
    /\ FreeSlots # {}
    /\ rpc' = [rpc EXCEPT ![Slot] = Sent(c, op, i)]
    /\ caller' = [caller EXCEPT ![c].at = "wait", ![c].slot = Slot, ![c].then = then]

Heard(r, result, epoch) == [r EXCEPT !.at = r.then, !.slot = NoSlot, !.got = result, !.epoch = epoch]
\* The answer, if anyone still waits for it.
Answered(n, result, epoch) ==
    IF rpc[n].from \notin Callers THEN caller
    ELSE [caller EXCEPT ![rpc[n].from] =
            Heard(@, result, epoch)]
Answer(n, result, epoch) ==
    /\ caller' = Answered(n, result, epoch)
    /\ rpc' = [rpc EXCEPT ![n] = Free]

\* operationFailure: the caller's deadline passes, or the connection breaks, and
\* the outcome is unknown.  The request stays under way.
GiveUp(c) ==
    /\ caller[c].at = "wait" /\ cli.lost > 0
    /\ rpc' = [rpc EXCEPT ![caller[c].slot].from = "nobody"]
    /\ caller' = [caller EXCEPT ![c] = Heard(@, "unknown", 0)]
    /\ cli' = [cli EXCEPT !.lost = @ - 1]
    /\ UNCHANGED <<srv, id, file, setting>>

\* A request that nobody waits for may never arrive.
Lose(n) ==
    /\ rpc[n].from = "nobody" /\ rpc[n].at = "sent"
    /\ rpc' = [rpc EXCEPT ![n] = Free]
    /\ UNCHANGED <<srv, cli, caller, id, file, setting>>

-----------------------------------------------------------------------------
(* The server: the receipts of a served session.                            *)

Live == ~srv.gone /\ ~srv.retired /\ srv.lease > 0

Recorded(i) == id[i].receipt # "none"
IsOpen(i) == file[i].at \in {"pending", "held"}
\* beginSemanticOpenReplay: the capability is not taken away while its receipt is
\* answered from.
Replays(i) == id[i].op = "p" /\ IsOpen(i)
BeginReplay(i) == file' = IF Replays(i) THEN [file EXCEPT ![i].replaying = @ + 1] ELSE file

\* fileCall, an identity with a receipt: wait for its end, then answer from it.
Replay(n) ==
    LET i == rpc[n].id IN
    /\ rpc[n].at = "sent" /\ rpc[n].op \in Required /\ ~srv.gone
    /\ id[i].receipt = "done"
    /\ rpc' = [rpc EXCEPT ![n].at = IF Replays(i) THEN "replaying" ELSE "replay"]
    /\ BeginReplay(i)
    /\ UNCHANGED <<srv, cli, caller, id, setting>>

\* fileCall, the epoch of a new identity.  The preceding window still has every
\* result, so absence proves the action never ran; an older one proves nothing.
EpochVerdict(i) ==
    IF id[i].op \in Semantic \/ id[i].made = srv.epoch THEN "admit"
    ELSE IF id[i].made + 1 = srv.epoch THEN "retry" ELSE "refused"
Verdict(i) ==
    IF srv.gone THEN "refused"
    ELSE IF EpochVerdict(i) # "admit" THEN EpochVerdict(i)
    ELSE IF ~Live \/ srv.actions >= MaxActions THEN "refused" ELSE "admit"

\* fileCall, a new identity: answered at once, or registered.
Refuse(n) ==
    /\ rpc[n].at = "sent" /\ rpc[n].op \in Required
    /\ srv.gone \/ ~Recorded(rpc[n].id)
    /\ Verdict(rpc[n].id) # "admit"
    /\ Answer(n, Verdict(rpc[n].id), srv.epoch)
    /\ UNCHANGED <<srv, cli, id, file, setting>>
Register(n) ==
    LET i == rpc[n].id IN
    /\ rpc[n].at = "sent" /\ rpc[n].op \in Required
    /\ ~srv.gone /\ ~Recorded(i) /\ Verdict(i) = "admit"
    /\ id' = [id EXCEPT ![i].receipt = "running", ![i].until = srv.epoch + 2]
    /\ srv' = [srv EXCEPT !.actions = @ + 1]
    /\ rpc' = [rpc EXCEPT ![n].at = "perform"]
    /\ UNCHANGED <<cli, caller, file, setting>>

\* The native session (FileSession): it executes an identity of its own journal
\* once, in its epoch, and answers from the receipt in the next.
NativeVerdict(i) ==
    IF id[i].op \notin Semantic THEN {"ran", "failed"}
    ELSE IF id[i].ran > 0 THEN (IF srv.epoch <= id[i].made + 1 THEN {"again"} ELSE {"failed"})
    ELSE IF srv.epoch = id[i].made THEN {"ran", "failed"} ELSE {"failed"}

\* performFile: the native call, then the barrier of the change log, which may
\* stay unknown (finishFileMutation); openReference publishes the capability.
Opened(i) == IF id[i].op \in Opens THEN [file EXCEPT ![i].at = "pending", ![i].left = PendingAck] ELSE file
Perform(n) ==
    LET i == rpc[n].id IN
    /\ rpc[n].at = "perform"
    /\ \E outcome \in (IF srv.gone THEN {"failed"} ELSE NativeVerdict(i)),
          barrier \in (IF Bounds.barriers THEN BOOLEAN ELSE {FALSE}) :
         /\ barrier => outcome # "failed"
         /\ id' = [id EXCEPT ![i].ran = IF outcome = "ran" THEN @ + 1 ELSE @, ![i].barrier = barrier,
                             ![i].receipt = IF outcome = "failed" THEN "failing" ELSE "running"]
         /\ file' = IF outcome = "ran" THEN Opened(i) ELSE file
    /\ rpc' = [rpc EXCEPT ![n].at = "performed"]
    /\ UNCHANGED <<srv, cli, caller, setting>>

\* What a receipt answers: the result, a recorded failure, or a barrier that is
\* still to be had.
Says(i) == IF id[i].barrier THEN "unknown" ELSE IF id[i].receipt = "failing" THEN "recorded" ELSE "ok"
Later(a, b) == IF a > b THEN a ELSE b
\* fileCall, the result is recorded; retainSemanticOpenCapability keeps the
\* capability as long as the receipt.
Record(n) ==
    LET i == rpc[n].id IN
    /\ rpc[n].at = "performed"
    /\ id' = [id EXCEPT ![i].receipt = IF @ = "failing" THEN "refused" ELSE "done"]
    /\ file' = IF id[i].op = "p" /\ file[i].at = "pending"
               THEN [file EXCEPT ![i].left = Later(@, id[i].until - srv.epoch)] ELSE file
    /\ Answer(n, Says(i), id[i].until - 2)
    /\ UNCHANGED <<srv, cli, setting>>

\* A recorded failure is answered as such.
ReplayRefused(n) ==
    /\ rpc[n].at = "sent" /\ rpc[n].op \in Required /\ ~srv.gone /\ id[rpc[n].id].receipt = "refused"
    /\ Answer(n, "recorded", id[rpc[n].id].until - 2)
    /\ UNCHANGED <<srv, cli, id, file, setting>>
\* The replay ends: it has the barrier, or fails to; finishSemanticOpenReplay.
ReplayEnds(n) ==
    LET i == rpc[n].id IN
    /\ rpc[n].at \in {"replay", "replaying"}
    /\ \E barrier \in {FALSE, id[i].barrier} :
         /\ id' = [id EXCEPT ![i].barrier = barrier]
         /\ Answer(n, IF barrier THEN "unknown" ELSE "ok", id[i].until - 2)
    /\ file' = IF rpc[n].at = "replaying"
               THEN [file EXCEPT ![i].replaying = @ - 1,
                                 ![i].left = IF file[i].at = "pending" THEN Later(@, PendingAck) ELSE @]
               ELSE file
    /\ UNCHANGED <<srv, cli, setting>>

\* performFile, Renew: the lease, if the native session has it; the answer brings
\* the epoch.
ServeRenew(n) ==
    /\ rpc[n].at = "sent" /\ rpc[n].op = "r"
    /\ srv' = IF Live THEN [srv EXCEPT !.lease = Lease] ELSE srv
    /\ Answer(n, IF Live THEN "ok" ELSE "refused", srv.epoch)
    /\ UNCHANGED <<cli, id, file, setting>>

\* performFile, Ack: the handoff ends, unless its time is over.
Handoff(i) == IsOpen(i) /\ (file[i].at = "pending" => file[i].left > 0)
ServeAck(n) ==
    LET i == rpc[n].id IN
    /\ rpc[n].at = "sent" /\ rpc[n].op = "ack"
    /\ file' = IF Live /\ Handoff(i) THEN [file EXCEPT ![i].at = "held", ![i].left = 0] ELSE file
    /\ Answer(n, IF Live /\ Handoff(i) THEN "ok" ELSE "refused", srv.epoch)
    /\ UNCHANGED <<srv, cli, id, setting>>

\* performFile, the implicit close of a capability nobody claimed.
ServeClose(n) ==
    LET i == rpc[n].id IN
    /\ rpc[n].at = "sent" /\ rpc[n].op = "close"
    /\ file' = IF ~srv.gone /\ file[i].at \in {"pending", "held"} THEN [file EXCEPT ![i].at = "closing"] ELSE file
    /\ Answer(n, "ok", srv.epoch)
    /\ UNCHANGED <<srv, cli, id, setting>>

-----------------------------------------------------------------------------
(* The server: the cleanup loop (fileRegistry.run).                         *)

\* Receipts leave at the end of the epoch after theirs.
Expire(i) ==
    /\ id[i].receipt \in {"done", "refused"} /\ id[i].until <= srv.epoch
    /\ id' = [id EXCEPT ![i].receipt = "none"]
    /\ srv' = [srv EXCEPT !.actions = @ - 1]
    /\ UNCHANGED <<cli, caller, rpc, file, setting>>

OverdueAny(i) == IsOpen(i) /\ file[i].left = 0
\* A capability not acknowledged in time is closed, not while it is replayed.
Overdue(i) == file[i].at = "pending" /\ file[i].left = 0 /\ file[i].replaying = 0
Reap(i) ==
    /\ ~srv.retired /\ Overdue(i)
    /\ file' = [file EXCEPT ![i].at = "closing"]
    /\ UNCHANGED <<srv, cli, caller, rpc, id, setting>>
Closed(i) ==
    /\ file[i].at = "closing"
    /\ file' = [file EXCEPT ![i].at = "gone"]
    /\ UNCHANGED <<srv, cli, caller, rpc, id, setting>>

\* The lease is over: the session is retired, and closed with what it holds.
Retire ==
    /\ ~srv.retired /\ srv.lease = 0
    /\ srv' = [srv EXCEPT !.retired = TRUE]
    /\ UNCHANGED <<cli, caller, rpc, id, file, setting>>
Terminalize ==
    /\ srv.retired /\ ~srv.gone
    /\ srv' = [srv EXCEPT !.gone = TRUE]
    /\ file' = [i \in Ids |-> IF file[i].at = "none" THEN file[i] ELSE [NoFile EXCEPT !.at = "gone"]]
    /\ UNCHANGED <<cli, caller, rpc, id, setting>>

Down(n) == IF n > 0 THEN n - 1 ELSE 0
Tick ==
    /\ srv.epoch < MaxEpoch
    /\ srv' = [srv EXCEPT !.epoch = @ + 1, !.lease = Down(@)]
    /\ file' = [i \in Ids |-> [file[i] EXCEPT !.left = Down(@)]]
    /\ UNCHANGED <<cli, caller, rpc, id, setting>>

-----------------------------------------------------------------------------
(* The client: a call.                                                      *)

Go(c, at) == caller' = [caller EXCEPT ![c].at = at]
Return(c) == caller' = [caller EXCEPT ![c] = Idle]
\* What the caller is told of an identity: done, or not done.
Told(ids, i, what) == IF i = NoId THEN ids ELSE [ids EXCEPT ![i].told = what]

Stage(op) == IF op = "m" THEN "entry" ELSE "resolve"
\* A caller begins: an operation with an identity of the caller makes one, in the
\* epoch of the native session, or is the retry of an undecided one.
Begin(c, op) ==
    /\ caller[c].at = "idle" /\ c \in Bounds.callers /\ op \in Bounds.ops
    /\ op \in Required => Unmade # {}
    /\ id' = IF op \in Semantic THEN Made(id, NewId, op, srv.epoch, NewId) ELSE id
    /\ caller' = [caller EXCEPT ![c] = [Idle EXCEPT !.at = Stage(op), !.op = op,
                                                    !.id = IF op \in Semantic THEN NewId ELSE NoId]]
    /\ UNCHANGED <<srv, cli, rpc, file, setting>>
BeginAgain(c, i) ==
    /\ caller[c].at = "idle" /\ c \in Bounds.callers /\ i \in cli.writes \cup {j \in cli.pending : id[j].op \in Semantic}
    /\ caller' = [caller EXCEPT ![c] = [Idle EXCEPT !.at = Stage(id[i].op), !.op = id[i].op, !.id = i]]
    /\ UNCHANGED <<srv, cli, rpc, id, file, setting>>

\* resolvePending: whoever calls first asks again what became of every undecided
\* operation, one caller at a time.
Undecided == cli.pending \ cli.known
Least(S) == CHOOSE i \in S : \A j \in S : i <= j
Resolve(c) ==
    /\ caller[c].at = "resolve" /\ cli.asking = NoId
    /\ IF Undecided = {}
       THEN Go(c, "take") /\ UNCHANGED <<cli, rpc>>
       ELSE LET i == Least(Undecided) IN
            /\ Send(c, id[i].op, i, "resolved")
            /\ cli' = [cli EXCEPT !.asking = i, !.todo = Undecided \ {i}]
    /\ UNCHANGED <<srv, id, file, setting>>
\* Retry proves that it never ran: it is forgotten.  Anything else that is not an
\* outcome fails this call.
Forgotten(i, got) == IF got = "retry" THEN {i} ELSE {}
Found(i, got, epoch) ==
    [cli EXCEPT !.known = IF got \in {"ok", "recorded"} THEN @ \cup {i} ELSE @,
                !.pending = @ \ Forgotten(i, got),
                !.epoch = IF got = "ok" THEN Later(@, epoch) ELSE @]
Resolved(c) ==
    LET i == cli.asking
        got == caller[c].got
        todo == cli.todo IN
    /\ caller[c].at = "resolved"
    /\ id' = IF Forgotten(i, got) # {} THEN Told(id, i, "no") ELSE id
    /\ \/ /\ got \in {"unknown", "refused"} /\ Forgotten(i, got) = {}
          /\ cli' = [cli EXCEPT !.asking = NoId, !.todo = {}]
          /\ IF caller[c].op = "ack" THEN Go(c, "unclaim") ELSE Return(c)
          /\ UNCHANGED rpc
       \/ /\ got \notin {"unknown", "refused"} \/ Forgotten(i, got) # {}
          /\ cli' = [Found(i, got, caller[c].epoch) EXCEPT !.asking = IF todo = {} THEN NoId ELSE Least(todo),
                                          !.todo = IF todo = {} THEN {} ELSE todo \ {Least(todo)}]
          /\ IF todo = {} THEN Go(c, "take") /\ UNCHANGED rpc
             ELSE Send(c, id[Least(todo)].op, Least(todo), "resolved")
    /\ UNCHANGED <<srv, file, setting>>

\* takePendingResult: the outcome of an identical request is this call's outcome.
Result(i) == IF id[i].ran > 0 THEN "ok" ELSE "no"
Matching(c) == {i \in cli.known : id[i].op = caller[c].op /\ (id[i].op \in Semantic => i = caller[c].id)}
Take(c) ==
    /\ caller[c].at = "take" /\ Matching(c) # {}
    /\ LET i == CHOOSE j \in Matching(c) : TRUE IN
       /\ cli' = [cli EXCEPT !.known = @ \ {i}, !.pending = @ \ {i}]
       /\ id' = [Told(id, i, Result(i)) EXCEPT ![i].taken = @ + 1]
       /\ IF id[i].op \in Opens /\ id[i].ran > 0
          THEN caller' = [caller EXCEPT ![c].at = "resolve", ![c].op = "ack", ![c].id = i]
          ELSE Return(c)
    /\ UNCHANGED <<srv, rpc, file, setting>>

\* remoteFileSession.call: admission, and the identity of the request.
Refused == cli.failed \/ cli.closed
Full == Cardinality(cli.pending) + Cardinality(cli.writes) + cli.inflight >= PendingLimit
Reserve(c) ==
    LET op == caller[c].op
        new == op \in Required \ Semantic
        i == IF new THEN NewId ELSE caller[c].id IN
    /\ caller[c].at = "take" /\ Matching(c) = {}
    /\ IF Refused \/ (op \in Required /\ Full)
       THEN /\ IF op = "ack" THEN Go(c, "unclaim") ELSE Return(c)
            /\ UNCHANGED <<cli, rpc, id>>
       ELSE /\ new => Unmade # {}
            /\ id' = IF new THEN Made(id, i, op, cli.epoch, i) ELSE id
            /\ cli' = IF op \in Required THEN [cli EXCEPT !.inflight = @ + 1] ELSE cli
            /\ FreeSlots # {}
            /\ rpc' = [rpc EXCEPT ![Slot] = Sent(c, op, i)]
            /\ caller' = [caller EXCEPT ![c] = [@ EXCEPT !.at = "wait", !.slot = Slot, !.then = "first", !.id = i]]
    /\ UNCHANGED <<srv, file, setting>>

Settled(t, op) == IF op \in Required THEN [t EXCEPT !.inflight = @ - 1] ELSE t
\* The server is in the next epoch: one new identity, made there.
Again(c) ==
    LET old == caller[c].id IN
    /\ caller[c].at = "first" /\ caller[c].got = "retry" /\ Unmade # {} /\ FreeSlots # {}
    /\ id' = Told(Made(id, NewId, caller[c].op, caller[c].epoch, id[old].of), old, "no")
    /\ rpc' = [rpc EXCEPT ![Slot] = Sent(c, caller[c].op, NewId)]
    /\ caller' = [caller EXCEPT ![c] = [@ EXCEPT !.at = "wait", !.slot = Slot, !.then = "second", !.id = NewId]]
    /\ UNCHANGED <<srv, cli, file, setting>>
\* Nothing was heard: the same request again, at once.
Recover(c) ==
    /\ caller[c].at \in {"first", "second"} /\ caller[c].got = "unknown" /\ caller[c].op # "r"
    /\ Send(c, caller[c].op, caller[c].id, "recovered")
    /\ UNCHANGED <<srv, cli, id, file, setting>>

\* The call ends with an outcome.  An open goes on to acknowledge its capability.
Decided(c) ==
    \/ caller[c].at \in {"first", "second"} /\ caller[c].got \in {"ok", "recorded", "refused"}
    \/ caller[c].at = "second" /\ caller[c].got = "retry"
    \/ caller[c].at = "recovered" /\ caller[c].got \in {"ok", "recorded"}
    \/ caller[c].at = "first" /\ caller[c].got = "unknown" /\ caller[c].op = "r"
Ok(c) == caller[c].got = "ok"
Finish(c) ==
    LET op == caller[c].op
        i == caller[c].id IN
    /\ Decided(c)
    /\ cli' = [Settled(cli, op) EXCEPT !.epoch = IF Ok(c) THEN Later(@, caller[c].epoch) ELSE @,
                                       !.files = IF op = "ack" /\ Ok(c) THEN @ \cup {i} ELSE @]
    /\ id' = IF op \in Required THEN [Told(id, i, IF Ok(c) THEN "ok" ELSE "no") EXCEPT ![i].taken = @ + 1] ELSE id
    /\ IF op \in Opens /\ Ok(c) THEN caller' = [caller EXCEPT ![c].at = "resolve", ![c].op = "ack", ![c].got = "none"]
       ELSE IF op = "ack" /\ ~Ok(c) THEN Go(c, "unclaim")
       ELSE Return(c)
    /\ UNCHANGED <<srv, rpc, file, setting>>

\* Still nothing is known: the operation is kept undecided.  An acknowledgement
\* has no receipt: the session fails, and is closed if the server hears of it.
Undetermined(c) ==
    LET op == caller[c].op
        i == caller[c].id IN
    /\ caller[c].at = "recovered" /\ caller[c].got \notin {"ok", "recorded"}
    /\ cli' = [Settled(cli, op) EXCEPT !.pending = IF op \in Required THEN @ \cup {i} ELSE @,
                                       !.failed = @ \/ op = "ack"]
    /\ srv' = IF op = "ack" THEN [srv EXCEPT !.retired = TRUE] ELSE srv
    /\ Return(c)
    /\ UNCHANGED <<rpc, id, file, setting>>
UndeterminedUnheard(c) ==
    /\ caller[c].at = "recovered" /\ caller[c].got \notin {"ok", "recorded"} /\ caller[c].op = "ack"
    /\ cli' = [cli EXCEPT !.failed = TRUE]
    /\ Return(c)
    /\ UNCHANGED <<srv, rpc, id, file, setting>>

\* closeUnclaimedFile, then the open fails.
Unclaim(c) ==
    /\ caller[c].at = "unclaim"
    /\ Send(c, "close", caller[c].id, "unclaimed")
    /\ UNCHANGED <<srv, cli, id, file, setting>>
Unclaimed(c) ==
    /\ caller[c].at = "unclaimed"
    /\ Return(c)
    /\ UNCHANGED <<srv, cli, rpc, id, file, setting>>

-----------------------------------------------------------------------------
(* The client: Mutate with an identity of its caller (file_explicit_write.go). *)

\* writeEntry: one entry for an identity, kept until its outcome is known.
Entry(c) ==
    LET i == caller[c].id IN
    /\ caller[c].at = "entry"
    /\ IF Refused \/ (i \notin cli.writes /\ Full)
       THEN Return(c) /\ UNCHANGED cli
       ELSE Go(c, "gate") /\ cli' = [cli EXCEPT !.writes = @ \cup {i}]
    /\ UNCHANGED <<srv, rpc, id, file, setting>>
\* The gate admits one caller of an entry at a time.
Gate(c) ==
    LET i == caller[c].id IN
    /\ caller[c].at = "gate" /\ i \notin cli.gate
    /\ IF cli.closed \/ i \in cli.detached
       THEN Return(c) /\ UNCHANGED <<cli, rpc>>
       ELSE Send(c, "m", i, "mutated") /\ cli' = [cli EXCEPT !.gate = @ \cup {i}]
    /\ UNCHANGED <<srv, id, file, setting>>
\* The outcome ends the entry; an unknown one, or a refusal after one, keeps it.
Keeps(i, got) == got = "unknown" \/ (i \in cli.unsure /\ got \notin {"ok", "recorded"})
Mutated(c) ==
    LET i == caller[c].id
        got == caller[c].got IN
    /\ caller[c].at = "mutated"
    /\ cli' = [cli EXCEPT !.gate = @ \ {i},
                          !.unsure = IF got = "unknown" THEN @ \cup {i} ELSE @,
                          !.writes = IF Keeps(i, got) \/ i \in cli.detached THEN @ ELSE @ \ {i}]
    /\ id' = IF Keeps(i, got) THEN id
             ELSE [Told(id, i, IF got = "ok" THEN "ok" ELSE "no") EXCEPT ![i].taken = 1]
    /\ Return(c)
    /\ UNCHANGED <<srv, rpc, file, setting>>

\* The client closes its session; detachExplicitWrites waits for every gate.
CloseSession ==
    /\ "close" \in Bounds.ops /\ ~cli.closed
    /\ cli' = [cli EXCEPT !.closed = TRUE, !.detached = cli.writes]
    /\ srv' = [srv EXCEPT !.retired = TRUE]
    /\ UNCHANGED <<caller, rpc, id, file, setting>>
Detach(i) ==
    /\ i \in cli.detached \ cli.gate
    /\ cli' = [cli EXCEPT !.detached = @ \ {i}, !.writes = @ \ {i}]
    /\ UNCHANGED <<srv, caller, rpc, id, file, setting>>

-----------------------------------------------------------------------------
Calling(c) ==
    \/ \E op \in Bounds.ops \ {"close"} : Begin(c, op)
    \/ \E i \in Ids : BeginAgain(c, i)
    \/ Resolve(c) \/ Resolved(c) \/ Take(c) \/ Reserve(c) \/ Again(c) \/ Recover(c) \/ Finish(c)
    \/ Undetermined(c) \/ UndeterminedUnheard(c) \/ Unclaim(c) \/ Unclaimed(c)
    \/ Entry(c) \/ Gate(c) \/ Mutated(c) \/ GiveUp(c)

Serving(n) ==
    \/ Lose(n) \/ Replay(n) \/ Refuse(n) \/ Register(n) \/ Perform(n) \/ Record(n)
    \/ ReplayRefused(n) \/ ReplayEnds(n) \/ ServeRenew(n) \/ ServeAck(n) \/ ServeClose(n)

Next ==
    \/ \E c \in Callers : Calling(c)
    \/ \E n \in Slots : Serving(n)
    \/ \E i \in Ids : Expire(i) \/ Reap(i) \/ Closed(i) \/ Detach(i)
    \/ Retire \/ Terminalize \/ Tick \/ CloseSession

-----------------------------------------------------------------------------
(* Correctness.                                                             *)


\* openReference, Ack, run: a capability its client holds is not taken away by the
\* handoff deadline, and one that was acknowledged without its client knowing is
\* left to a session that has failed and therefore ends.
HandoffExact ==
    \A i \in Ids :
      /\ i \in cli.files => file[i].at = "held" \/ srv.gone
      /\ file[i].at = "held" /\ i \notin cli.files =>
           \/ cli.failed \/ srv.retired
           \/ \E c \in Callers : caller[c].id = i /\ caller[c].op = "ack"
           \/ \E n \in Slots : rpc[n].op = "close" /\ rpc[n].id = i
=============================================================================
