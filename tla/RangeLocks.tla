------------------------------ MODULE RangeLocks ------------------------------
(* The range protections of packages/advisory: owners registered by sessions,
   the ranges they hold, the retained requests, the queue of waiters and the
   pump that re-examines it.

   The coordinator is the record c; its mutex makes one critical section one
   step.  A call that may free a range leaves its critical section and then
   pumps: it selects the waiters that look ready and takes each through the
   native order callback, one critical section per waiter, so other calls run
   in between.  Whole-file and record protections replace bytes; enforced ones
   add and remove exact claims.  A behaviour uses one conflict domain.       *)
EXTENDS Naturals, Sequences, FiniteSets, SequencesExt, Relation

CONSTANTS Sessions, Owners, Requests, Threads,
          Home,      \* owner -> [session, node, group]: what NewOwner registers it with
          MaxByte,   \* stands for math.MaxUint64
          Settings   \* by name: domain, batches on offer, limits, and what may go wrong

VARIABLES c,         \* advisory.Coordinator with its sessions and requests
          alive,     \* owners whose native reference still passes its order callback
          thread,    \* calls that have left their critical section
          missed,    \* a pump was cut short by the context of its caller
          setting

vars == <<c, alive, thread, missed, setting>>

Domain == Settings[setting].domain           \* record, wholeFile or enforced
Batches == Settings[setting].batches         \* sequences of commands on offer
MaxRanges == Settings[setting].ranges
MaxWaiters == Settings[setting].waiters
MaxRequests == Settings[setting].requests
SessionRanges == Settings[setting].sessionRanges     \* MaxLockRanges of a session
SessionPending == Settings[setting].sessionPending   \* the lesser of MaxPendingLocks and MaxWaiters
MaxDeadlockEdges == Settings[setting].edges
MaxRangeEffects == 3                         \* 64 in the code
Failures == Settings[setting].failures       \* whether references, fences and contexts fail
Single == Settings[setting].single           \* participants have one request at a time
Calling == Settings[setting].calls           \* calls the sessions make besides Apply and Query

NoRequest == [state |-> "free", owner |-> "none", commands |-> <<>>, pending |-> FALSE,
              prepared |-> FALSE, converting |-> FALSE, released |-> {}, claims |-> {},
              effects |-> 0, code |-> "", ever |-> FALSE]
Idle == [at |-> "idle", request |-> "none", candidates |-> <<>>, before |-> 0, passes |-> 0]
Terminal == {"granted", "rejected", "cancelled", "released"}

Init ==
    /\ setting \in DOMAIN Settings
    /\ c = [bound |-> Settings[setting].bound, held |-> [o \in Owners |-> <<>>], entries |-> {},
            pendingOf |-> [o \in Owners |-> 0], req |-> [q \in Requests |-> NoRequest],
            waiting |-> <<>>, ranges |-> 0, requests |-> 0,
            phase |-> [s \in Sessions |-> "active"],
            sranges |-> [s \in Sessions |-> 0], spending |-> [s \in Sessions |-> 0]]
    /\ alive = Owners
    /\ thread = [t \in Threads |-> Idle]
    /\ missed = FALSE

-----------------------------------------------------------------------------
(* Extents.  A range of bytes, or the boundary before a byte.               *)

ByteLast(r) == r.start + r.length - 1
Cuts(r, at) == at > r.start /\ at - r.start < r.length
Overlaps(a, b) ==
    CASE a.kind = "cut" -> b.kind = "bytes" /\ Cuts(b, a.start)
      [] a.kind = "bytes" /\ b.kind = "cut" -> Cuts(a, b.start)
      [] OTHER -> a.start <= ByteLast(b) /\ b.start <= ByteLast(a)

\* What a replacement leaves of a held range: the parts to the left and right.
Remains(h, r) ==
    LET left == [h EXCEPT !.range.length = r.start - h.range.start]
        right == [h EXCEPT !.range.start = ByteLast(r) + 1, !.range.length = ByteLast(h.range) - ByteLast(r)]
    IN IF ~Overlaps(h.range, r) THEN {h}
       ELSE (IF h.range.start < r.start THEN {left} ELSE {})
            \cup (IF ByteLast(h.range) > ByteLast(r) THEN {right} ELSE {})

Coalesce(ranges) ==
    LET join(done, h) ==
          IF done = <<>> THEN <<h>>
          ELSE LET p == done[Len(done)] IN
               IF /\ ByteLast(p.range) # MaxByte /\ ByteLast(p.range) + 1 = h.range.start
                  /\ p.mode = h.mode /\ h.range.length <= MaxByte - p.range.length
               THEN [done EXCEPT ![Len(done)].range.length = @ + h.range.length]
               ELSE Append(done, h)
    IN FoldLeft(join, <<>>, ranges)

ReplaceRanges(old, command) ==
    LET kept == UNION {Remains(old[k], command.range) : k \in DOMAIN old}
        new == IF command.edit = "subtract" THEN {}
               ELSE {[id |-> <<>>, mode |-> command.mode, range |-> command.range]}
    IN Coalesce(SetToSortSeq(kept \cup new, LAMBDA a, b : a.range.start < b.range.start))

-----------------------------------------------------------------------------
(* Conflicts and the wait graph.                                            *)

Acquires(command) == command.edit \in {"replace", "addExact"}
Compatible(a, b) == a.mode = "shared" /\ b.mode = "shared"

ConflictsWith(d, o, command, other) ==
    /\ other # o /\ other \in d.entries /\ Home[other].node = Home[o].node
    /\ \E k \in DOMAIN d.held[other] :
          Overlaps(d.held[other][k].range, command.range) /\ ~Compatible(d.held[other][k], command)
\* conflictLocked
Conflict(d, o, command) == \E other \in Owners : ConflictsWith(d, o, command, other)

Participant(o) == IF Home[o].group # 0 THEN <<Home[o].session, "group", Home[o].group>>
                                       ELSE <<Home[o].session, "owner", o>>
Participants == {Participant(o) : o \in Owners}

\* The waits of request q: one edge per owner that blocks one of its commands.
WaitEdges(d, q) ==
    {<<q, other>> : other \in {x \in Owners :
        \E k \in DOMAIN d.req[q].commands : ConflictsWith(d, d.req[q].owner, d.req[q].commands[k], x)}}
WaitGraph(d, requests) ==
    LET edges == UNION {WaitEdges(d, q) : q \in requests} IN
    [p \in Participants \X Participants |->
        \E e \in edges : p = <<Participant(d.req[e[1]].owner), Participant(e[2])>>]
Cyclic(d, requests, p) == TransitiveClosure(WaitGraph(d, requests), Participants)[p, p]

DeadlockAlone(d, q) ==
    IF Cyclic(d, {q}, Participant(d.req[q].owner)) THEN "deadlock" ELSE ""
\* deadlockLocked: the verdict for a request that is about to wait.
Deadlock(d, q) ==
    LET requests == ToSet(d.waiting) \cup {q} IN
    IF Cardinality(UNION {WaitEdges(d, w) : w \in requests}) > MaxDeadlockEdges THEN "exhausted"
    ELSE IF Cyclic(d, requests, Participant(d.req[q].owner)) THEN "deadlock"
    ELSE ""

-----------------------------------------------------------------------------
(* Changes to the coordinator.                                              *)

ReplacementFits(d, o, count) ==
    /\ count <= (MaxRanges - d.ranges) + Len(d.held[o])
    /\ count <= (SessionRanges - d.sranges[Home[o].session]) + Len(d.held[o])
InstallRanges(d, o, ranges) ==
    [d EXCEPT !.held[o] = ranges,
              !.ranges = (@ + Len(ranges)) - Len(d.held[o]),
              !.sranges[Home[o].session] = (@ + Len(ranges)) - Len(d.held[o])]
PruneOwner(d, o) ==
    IF d.held[o] = <<>> /\ d.pendingOf[o] = 0 THEN [d EXCEPT !.entries = @ \ {o}] ELSE d

\* completeLocked
Complete(d, q, state, code) ==
    LET o == d.req[q].owner
        done == [d EXCEPT !.req[q].state = state, !.req[q].code = code, !.req[q].pending = FALSE,
                          !.req[q].ever = @ \/ state = "granted"]
    IN IF ~d.req[q].pending THEN done
       ELSE PruneOwner([done EXCEPT !.pendingOf[o] = @ - 1, !.spending[Home[o].session] = @ - 1,
                                    !.waiting = SelectSeq(@, LAMBDA w : w # q)], o)

\* reconcileRemovedClaimsLocked: a grant none of whose claims is left is over.
Reconcile(d, o, removed) ==
    LET live == {d.held[o][k].id : k \in DOMAIN d.held[o]}
        over == {q \in Requests : /\ \E id \in removed : id[1] = q
                                  /\ d.req[q].owner = o /\ d.req[q].state = "granted"
                                  /\ \A k \in d.req[q].claims : <<q, k>> \notin live}
    IN FoldSet(LAMBDA q, e : Complete(e, q, "released", ""), d, over)

\* One command of a batch: the ranges it leaves, and what it leaves of them
\* when only the releases of the batch are kept.
Without(ranges, id) == SelectSeq(ranges, LAMBDA h : h.id # id)
Applied(ranges, q, k, command) ==
    CASE command.edit \in {"replace", "subtract"} -> ReplaceRanges(ranges, command)
      [] command.edit = "addExact" -> Append(ranges, [id |-> <<q, k>>, mode |-> command.mode, range |-> command.range])
      [] OTHER -> Without(ranges, command.claim)
Refusal(d, o, command, holds, release) ==
    CASE Acquires(command) /\ Conflict(d, o, command) -> "blocked"
      [] command.edit = "subtract" /\ ~ReplacementFits(d, o, Len(release)) -> "exhausted"
      [] command.edit = "removeExact" /\ holds = {} -> "notHeld"
      [] command.edit = "removeExact" /\ \E h \in holds : h.range # command.range \/ h.mode # command.mode -> "invalid"
      [] OTHER -> ""
Drafted(e, k, command, applied, release, fits) ==
    [e EXCEPT !.ranges = applied, !.release = release, !.effects = @ + 1,
              !.acquired = @ \/ Acquires(command),
              !.claims = IF command.edit = "addExact" THEN @ \cup {k} ELSE @,
              !.freed = IF Acquires(command) THEN @ ELSE @ \cup {k},
              !.removed = IF command.edit = "removeExact" THEN @ \cup {command.claim} ELSE @,
              !.code = IF fits THEN @ ELSE "exhausted"]
TryCommand(d, o, e, k, command, applied, release) ==
    LET refusal == Refusal(d, o, command, {h \in ToSet(e.ranges) : h.id = command.claim}, release) IN
    IF refusal # "" THEN [e EXCEPT !.code = refusal]
    ELSE Drafted(e, k, command, applied, release, ReplacementFits(d, o, Len(applied)))

\* draftLocked: the batch tried command by command on a copy of the ranges.
Draft(d, q) ==
    LET o == d.req[q].owner
        step(e, k) ==
          LET command == d.req[q].commands[k] IN
          IF e.code # "" \/ k \in d.req[q].released THEN e
          ELSE TryCommand(d, o, e, k, command, Applied(e.ranges, q, k, command),
                          IF Acquires(command) THEN e.release ELSE Applied(e.release, q, k, command))
    IN FoldLeftDomain(step,
          [ranges |-> d.held[o], release |-> d.held[o], effects |-> 0, acquired |-> FALSE,
           claims |-> {}, freed |-> {}, removed |-> {}, code |-> ""], d.req[q].commands)

\* commitReleasePrefixLocked: what was given up before the refusal stays so.
CommitReleasePrefix(d, q, edit) ==
    IF edit.freed = {} THEN d
    ELSE LET o == d.req[q].owner IN
         Reconcile([InstallRanges(d, o, edit.release) EXCEPT
                       !.req[q].effects = @ + Cardinality(edit.freed), !.req[q].released = @ \cup edit.freed],
                   o, edit.removed)

CommitReconciled(d, q, edit) ==
    LET o == d.req[q].owner
        installed == [InstallRanges(d, o, edit.ranges) EXCEPT !.req[q].effects = @ + edit.effects,
                                                              !.req[q].claims = edit.claims]
    IN Complete(Reconcile(installed, o, edit.removed), q, IF edit.acquired THEN "granted" ELSE "released", "")
\* commitEditLocked.  The draft has checked that the ranges fit.
CommitEdit(d, q, edit) ==
    LET o == d.req[q].owner
        installed == [InstallRanges(d, o, edit.ranges) EXCEPT !.req[q].effects = @ + edit.effects,
                                                              !.req[q].claims = edit.claims]
    IN Reconcile(Complete(installed, q, IF edit.acquired THEN "granted" ELSE "released", ""), o, edit.removed)

\* A batch that is refused, or has to wait, keeps the releases it began with.
Verdict(d, q, code) ==
    CASE code # "blocked" \/ ~d.req[q].commands[1].wait -> code
      [] \/ Len(d.waiting) >= MaxWaiters
         \/ d.spending[Home[d.req[q].owner].session] >= SessionPending -> "exhausted"
      [] Domain = "record" -> Deadlock(d, q)
      [] OTHER -> ""
Enqueue(d, q) ==
    [d EXCEPT !.req[q].pending = TRUE, !.pendingOf[d.req[q].owner] = @ + 1,
              !.spending[Home[d.req[q].owner].session] = @ + 1, !.waiting = Append(@, q)]
RefuseOrWait(d, q, verdict) ==
    IF verdict # "" THEN Complete(d, q, "rejected", verdict) ELSE Enqueue(d, q)
Refused(kept, q, code) == RefuseOrWait(kept, q, Verdict(kept, q, code))
Settle(d, q, edit) ==
    IF edit.code = "" THEN CommitEdit(d, q, edit) ELSE Refused(CommitReleasePrefix(d, q, edit), q, edit.code)

\* startLocked: convert, commit, refuse or wait.
Converts(d, q) ==
    LET r == d.req[q] IN
    ~r.prepared /\ r.commands[1].drop /\ d.held[r.owner] # <<>> /\ d.held[r.owner][1].mode # r.commands[1].mode
Effects(d, q) ==
    LET r == d.req[q] IN
    r.effects + Cardinality(DOMAIN r.commands \ r.released) + (IF Converts(d, q) THEN Len(d.held[r.owner]) ELSE 0)
BeginConversion(d, q) ==
    [InstallRanges(d, d.req[q].owner, <<>>) EXCEPT !.req[q].effects = @ + Len(d.held[d.req[q].owner]),
                                                   !.req[q].prepared = TRUE, !.req[q].converting = TRUE]
Started(d, q) ==
    IF Effects(d, q) > MaxRangeEffects THEN Complete(d, q, "rejected", "tooLarge")
    ELSE IF Converts(d, q) THEN BeginConversion(d, q)
    ELSE Settle(d, q, Draft(d, q))
Start(d, q) ==
    PruneOwner(Started([d EXCEPT !.entries = @ \cup {d.req[q].owner}], q), d.req[q].owner)

\* The transition of advance: a conversion goes on, a waiter is tried again.
Retried(d, q, edit) ==
    CASE edit.code = "blocked" -> d
      [] edit.code = "" -> CommitEdit(d, q, edit)
      [] OTHER -> Complete(d, q, "rejected", edit.code)
Advanced(d, q) ==
    LET o == d.req[q].owner IN
    CASE d.req[q].state # "pending" \/ d.phase[Home[o].session] # "active" \/ o \notin d.bound -> d
      [] d.req[q].converting -> Start([d EXCEPT !.req[q].converting = FALSE], q)
      [] OTHER -> Retried(d, q, Draft(d, q))

\* dropLocked
DropOwner(d, o) ==
    LET of(state) == {q \in Requests : d.req[q].owner = o /\ d.req[q].state = state}
        freed == IF o \in d.entries THEN InstallRanges(d, o, <<>>) ELSE d
        cancelled == FoldSet(LAMBDA q, e : Complete(e, q, "cancelled", ""), freed, of("pending"))
    IN PruneOwner(FoldSet(LAMBDA q, e : Complete(e, q, "released", ""), cancelled, of("granted")), o)

-----------------------------------------------------------------------------
(* Calls.  A call of thread t goes on to pump, and Apply then to advance its
   own request.                                                             *)

Free(t) == thread[t].at = "idle" /\ t \in Settings[setting].threads
Active(o) == c.phase[Home[o].session] = "active"

Pump(t, q) == thread' = [thread EXCEPT ![t] = [Idle EXCEPT !.at = "select", !.request = q,
                                                           !.passes = Len(c'.waiting)]]

NewOwner(o) ==
    /\ Active(o) /\ o \notin c.bound /\ \A q \in Requests : c.req[q].owner # o
    /\ c' = [c EXCEPT !.bound = @ \cup {o}]
    /\ UNCHANGED <<alive, thread, missed, setting>>

\* Apply: a new request under the native order of its owner's reference.
Apply(t, q) ==
    /\ Free(t) /\ c.req[q].state = "free" /\ c.requests < MaxRequests
    /\ \E o \in c.bound \cap alive, commands \in Batches :
          /\ Active(o)
          /\ Single => \A w \in Requests : c.req[w].state = "pending" => Participant(c.req[w].owner) # Participant(o)
          /\ \A k \in DOMAIN commands : commands[k].edit = "removeExact" => commands[k].claim[1] \in Requests
          /\ c' = Start([c EXCEPT !.req[q] = [NoRequest EXCEPT !.state = "pending", !.owner = o, !.commands = commands],
                                  !.requests = @ + 1], q)
    /\ Pump(t, q)
    /\ UNCHANGED <<alive, missed, setting>>

\* Apply again with the same identity returns the receipt, but still pumps.
Replay(t, q) ==
    /\ "Replay" \in Calling /\ Free(t) /\ c.req[q].state \notin {"free", "forgotten"}
    /\ c.req[q].owner \in c.bound \cap alive /\ Active(c.req[q].owner)
    /\ UNCHANGED <<c, alive, missed, setting>>
    /\ Pump(t, q)

\* Query advances its own request only.
Query(q) ==
    /\ c.req[q].state = "pending" /\ Active(c.req[q].owner) /\ c.req[q].owner \in alive
    /\ c' = Advanced(c, q)
    /\ UNCHANGED <<alive, thread, missed, setting>>

Cancel(t, q) ==
    /\ "Cancel" \in Calling /\ Free(t) /\ c.req[q].state \in {"pending"} \cup Terminal /\ Active(c.req[q].owner)
    /\ c' = IF c.req[q].state = "pending" THEN Complete(c, q, "cancelled", "") ELSE c
    /\ Pump(t, "none")
    /\ UNCHANGED <<alive, missed, setting>>

Drop(t, o) ==
    /\ "Drop" \in Calling /\ Free(t) /\ Active(o) /\ o \in c.bound
    /\ c' = DropOwner(c, o)
    /\ Pump(t, "none")
    /\ UNCHANGED <<alive, missed, setting>>

RetireOwner(t, o) ==
    /\ "RetireOwner" \in Calling /\ Free(t) /\ o \in c.bound
    /\ c' = [DropOwner(c, o) EXCEPT !.bound = @ \ {o}]
    /\ Pump(t, "none")
    /\ UNCHANGED <<alive, missed, setting>>

\* pruneHistoryLocked: a settled request whose epoch and history have passed.
\* Its identity names an old epoch and is refused from now on.
Forget(q) ==
    /\ "Forget" \in Calling /\ c.req[q].state \in Terminal /\ ~c.req[q].pending
    /\ c' = [c EXCEPT !.req[q].state = "forgotten", !.requests = @ - 1]
    /\ UNCHANGED <<alive, thread, missed, setting>>

\* Retire: the session refuses new actions while its publication fence runs;
\* nothing is freed unless the fence succeeds.
RetireBegin(s) ==
    /\ Failures /\ c.phase[s] \in {"active", "unfenced"}
    /\ c' = [c EXCEPT !.phase[s] = "fencing"]
    /\ UNCHANGED <<alive, thread, missed, setting>>
FenceFails(s) ==
    /\ c.phase[s] = "fencing"
    /\ c' = [c EXCEPT !.phase[s] = "unfenced"]
    /\ UNCHANGED <<alive, thread, missed, setting>>
Retire(t, s) ==
    /\ Free(t) /\ c.phase[s] = "fencing"
    /\ LET mine == {o \in Owners : Home[o].session = s}
           actions == {q \in Requests : c.req[q].owner \in mine /\ c.req[q].state # "forgotten"}
       IN /\ alive' = alive \ mine
          /\ c' = [c EXCEPT !.phase[s] = "retired", !.bound = @ \ mine, !.entries = @ \ mine,
                    !.held = [o \in Owners |-> IF o \in mine THEN <<>> ELSE @[o]],
                    !.pendingOf = [o \in Owners |-> IF o \in mine THEN 0 ELSE @[o]],
                    !.ranges = @ - FoldSet(LAMBDA o, n : n + Len(c.held[o]), 0, mine),
                    !.waiting = SelectSeq(@, LAMBDA q : q \notin actions),
                    !.requests = @ - Cardinality(actions),
                    !.req = [q \in Requests |-> IF q \in actions
                               THEN [NoRequest EXCEPT !.state = "forgotten", !.owner = c.req[q].owner] ELSE @[q]],
                    !.sranges[s] = 0, !.spending[s] = 0]
    /\ Pump(t, "none")
    /\ UNCHANGED <<missed, setting>>

\* The reference of an owner is retired: its order callback fails from now on.
ReferenceEnds(o) ==
    /\ Failures /\ o \in alive /\ alive' = alive \ {o}
    /\ UNCHANGED <<c, thread, missed, setting>>

-----------------------------------------------------------------------------
(* The pump.                                                                *)

\* readyLocked
Ready(d, q) ==
    /\ d.phase[Home[d.req[q].owner].session] = "active"
    /\ \A k \in DOMAIN d.req[q].commands :
          Acquires(d.req[q].commands[k]) => ~Conflict(d, d.req[q].owner, d.req[q].commands[k])

After(t) == IF thread[t].request = "none" THEN Idle ELSE [thread[t] EXCEPT !.at = "own", !.candidates = <<>>]

PumpSelect(t) ==
    /\ thread[t].at = "select"
    /\ LET ready == SelectSeq(c.waiting, LAMBDA q : Ready(c, q)) IN
       thread' = [thread EXCEPT ![t] = IF ready = <<>> THEN After(t)
                    ELSE [@ EXCEPT !.at = "walk", !.candidates = ready, !.before = Len(c.waiting)]]
    /\ UNCHANGED <<c, alive, missed, setting>>

\* One candidate through its own order callback; a failed order changes nothing.
PumpAdvance(t) ==
    /\ thread[t].at = "walk" /\ thread[t].candidates # <<>>
    /\ LET q == Head(thread[t].candidates) IN
       c' = IF c.req[q].owner \in alive THEN Advanced(c, q) ELSE c
    /\ thread' = [thread EXCEPT ![t].candidates = Tail(@)]
    /\ UNCHANGED <<alive, missed, setting>>

PumpAgain(t) ==
    /\ thread[t].at = "walk" /\ thread[t].candidates = <<>>
    /\ thread' = [thread EXCEPT ![t] =
          IF Len(c.waiting) >= thread[t].before \/ thread[t].passes = 0 THEN After(t)
          ELSE [@ EXCEPT !.at = "select", !.passes = @ - 1, !.before = 0]]
    /\ UNCHANGED <<c, alive, missed, setting>>

\* The caller's context ends between two candidates.
PumpAbandoned(t) ==
    /\ Failures /\ thread[t].at = "walk" /\ thread[t].candidates # <<>>
    /\ thread' = [thread EXCEPT ![t] = Idle]
    /\ missed' = TRUE
    /\ UNCHANGED <<c, alive, setting>>

\* Apply's own request, after the pump.
AdvanceOwn(t) ==
    /\ thread[t].at = "own"
    /\ LET q == thread[t].request IN
       c' = IF c.req[q].owner \in alive THEN Advanced(c, q) ELSE c
    /\ thread' = [thread EXCEPT ![t] = Idle]
    /\ UNCHANGED <<alive, missed, setting>>

-----------------------------------------------------------------------------
Calls == \/ \E o \in Owners : NewOwner(o) \/ ReferenceEnds(o)
         \/ \E q \in Requests : Query(q) \/ Forget(q)
         \/ \E t \in Threads, q \in Requests : Apply(t, q) \/ Replay(t, q) \/ Cancel(t, q)
         \/ \E t \in Threads, o \in Owners : Drop(t, o) \/ RetireOwner(t, o)
Retiring == \E s \in Sessions : RetireBegin(s) \/ FenceFails(s) \/ \E t \in Threads : Retire(t, s)
Pumping == \E t \in Threads : PumpSelect(t) \/ PumpAdvance(t) \/ PumpAgain(t) \/ PumpAbandoned(t) \/ AdvanceOwn(t)

Next == Calls \/ Retiring \/ Pumping
Spec == Init /\ [][Next]_vars

-----------------------------------------------------------------------------
(* Properties.                                                              *)

Bytes == 0 .. MaxByte
\* The mode in which ranges protect byte b.
Cover(ranges, b) == {ranges[k].mode : k \in {j \in DOMAIN ranges :
                        /\ ranges[j].range.kind = "bytes"
                        /\ ranges[j].range.start <= b /\ b <= ByteLast(ranges[j].range)}}
Replaces == Domain # "enforced"
Quiet == \A t \in Threads : thread[t].at = "idle"

TypeOK ==
    /\ setting \in DOMAIN Settings /\ missed \in BOOLEAN /\ alive \subseteq Owners
    /\ c.bound \subseteq Owners /\ c.entries \subseteq Owners /\ ToSet(c.waiting) \subseteq Requests
    /\ c.ranges \in 0 .. MaxRanges /\ c.requests \in 0 .. MaxRequests /\ Len(c.waiting) <= MaxWaiters
    /\ \A s \in Sessions : /\ c.phase[s] \in {"active", "fencing", "unfenced", "retired"}
                           /\ c.sranges[s] \in 0 .. SessionRanges /\ c.spending[s] \in 0 .. SessionPending
    /\ \A q \in Requests : c.req[q].state \in {"free", "pending", "forgotten"} \cup Terminal
    /\ \A t \in Threads : thread[t].at \in {"idle", "select", "walk", "own"}

\* The totals of coordinator and sessions are those of the owners, the queue
\* holds exactly the waiting requests, and the owner of a waiter has an entry:
\* completeLocked and draftLocked dereference it.
CountersExact ==
    LET sum(f, S) == FoldSet(LAMBDA o, n : n + f[o], 0, S)
        lens == [o \in Owners |-> Len(c.held[o])]
        waits(o) == {q \in ToSet(c.waiting) : c.req[q].owner = o}
    IN /\ c.ranges = sum(lens, Owners)
       /\ \A s \in Sessions : LET mine == {o \in Owners : Home[o].session = s} IN
             c.sranges[s] = sum(lens, mine) /\ c.spending[s] = sum(c.pendingOf, mine)
       /\ \A o \in Owners : /\ c.pendingOf[o] = Cardinality(waits(o))
                            /\ o \in c.entries <=> c.held[o] # <<>> \/ waits(o) # {}
       /\ \A q \in Requests : q \in ToSet(c.waiting) <=> c.req[q].pending
       /\ c.requests = Cardinality({q \in Requests : c.req[q].state \notin {"free", "forgotten"}})

\* replaceRanges does to every byte what the command says and nothing to the
\* others, and leaves the ranges ordered, disjoint and, unless the length would
\* overflow, joined.
ReplaceExact ==
    Replaces /\ Quiet => \A o \in Owners, commands \in Batches : \A k \in DOMAIN commands :
        LET command == commands[k]
            new == ReplaceRanges(c.held[o], command)
        IN /\ \A b \in Bytes : Cover(new, b) =
                 IF command.range.start <= b /\ b <= ByteLast(command.range)
                 THEN IF command.edit = "subtract" THEN {} ELSE {command.mode}
                 ELSE Cover(c.held[o], b)
           /\ \A j \in 1 .. Len(new) - 1 :
                 /\ ByteLast(new[j].range) < new[j + 1].range.start
                 /\ \/ ByteLast(new[j].range) + 1 < new[j + 1].range.start
                    \/ new[j].mode # new[j + 1].mode
                    \/ new[j].range.length + new[j + 1].range.length > MaxByte


\* When every participant has at most one request outstanding, the waits of
\* record protections never form a cycle: the check a request passes before it
\* queues suffices although later grants, conversions and partial releases
\* change the graph.
DeadlockFree ==
    Domain = "record" /\ Single =>
        \A p \in Participants : ~Cyclic(c, ToSet(c.waiting), p)

\* A receipt says granted exactly as long as one of its claims is held, also
\* when claims are removed by other requests or by the request itself.
GrantedHolds ==
    Domain = "enforced" => \A q \in Requests :
        LET held == \E o \in Owners : \E k \in DOMAIN c.held[o] : c.held[o][k].id[1] = q IN
        /\ c.req[q].state = "granted" => held
        /\ held => c.req[q].state \in {"granted", "forgotten"}
=============================================================================
