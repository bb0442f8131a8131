--------------------------- MODULE LockAuthority ---------------------------
(***************************************************************************)
(* The lock authority of one volume (packages/locking): sessions, owners,  *)
(* acquire/renew actions, S/X leases on files, FIFO queues with one worker *)
(* goroutine per resource, the maintenance goroutine, and publications,    *)
(* the final commits of file mutations that must be covered by X leases.   *)
(*                                                                         *)
(* a       the Authority's memory; one step = one section under a.mu       *)
(* now     the monotonic clock; every section reads it once                *)
(* durable the persisted maximum lease (LeaseRecovery models how)          *)
(* files   the live regular files of the metastore                         *)
(* pub     the publication that holds the metastore's commit gate, if any  *)
(* maint   the maintenance goroutine                                       *)
(* promised  ghost: the latest deadline an earlier incarnation granted     *)
(* setting the Options, and what clients and backend do in this behaviour;  *)
(*         setting.restarts is how often the volume may still be reopened   *)
(*                                                                         *)
(* Discover, Guard and Publish of the only Native backend run under the    *)
(* metastore's commit gate (sqlite/publication.go), so Guard and Resolve   *)
(* wait while a publication is in flight.                                  *)
(***************************************************************************)
EXTENDS Integers, FiniteSets

CONSTANTS
  Sessions, Owners, SessionOf,  \* every owner is created in SessionOf[owner]
  Keys,                         \* backend keys: node identities, never reused
  Requests,                     \* request identifiers, scoped by owner
  MaxGeneration,                \* bound: generations of grants
  Settings,                     \* by name, what a behaviour may be set up with
  None                          \* no key, no owner, no publication

VARIABLES a, now, durable, files, pub, maint, promised, setting

vars == <<a, now, durable, files, pub, maint, promised, setting>>

Ids == Owners \X Requests
Generations == 1 .. MaxGeneration

\* What clients and the backend may do; "stale" is an expired reference,
\* "failure" a failed lease persist or Guard.
Operations == {"enroll", "resolve", "acquire", "stale", "renew", "query", "release", "cancel",
               "retireOwner", "closeSession", "refused", "publish", "failure", "fence", "close"}

\* The Options of the authority.
SessionIdle == Settings[setting.of].sessionIdle
ResourceTTL == Settings[setting.of].resourceTTL
OwnerActionsPerSession == Settings[setting.of].ownerActionsPerSession
ActionsPerOwner == Settings[setting.of].actionsPerOwner
MaxActions == Settings[setting.of].maxActions
MaxGrants == Settings[setting.of].maxGrants
GrantsPerOwner == Settings[setting.of].grantsPerOwner
MaxQueued == Settings[setting.of].maxQueued
QueuedPerOwner == Settings[setting.of].queuedPerOwner
QueuedPerResource == Settings[setting.of].queuedPerResource
\* Its surroundings: the requests, TTL and Wait values asked for, the operations and
\* faults that happen, when clients stop calling and when the clock stops.
Asked == Settings[setting.of].requests
Leases == Settings[setting.of].leases
Waits == Settings[setting.of].waits
Offered == Settings[setting.of].offered
Horizon == Settings[setting.of].horizon
MaxTime == Settings[setting.of].maxTime

\* Options.Validate: positive capacities, and a session outlives every lease
\* and every wait that was admitted while it was live.
Valid(c) ==
  /\ \A n \in {c.sessionIdle, c.resourceTTL, c.ownerActionsPerSession, c.actionsPerOwner,
              c.maxActions, c.maxGrants, c.grantsPerOwner, c.maxQueued, c.queuedPerOwner,
              c.queuedPerResource} : n \in Nat \ {0}
  /\ c.requests \subseteq Requests
  /\ c.leases \subseteq Nat \ {0} /\ c.waits \subseteq Nat
  /\ \A d \in c.leases \cup c.waits : d <= c.sessionIdle
  /\ c.offered \subseteq Operations
  /\ c.lastGeneration \in 0 .. MaxGeneration  \* ^uint64(0) in the code
  /\ c.horizon \in Nat /\ c.maxTime \in Nat /\ c.restarts \in Nat

ASSUME OptionsValid ==
  /\ SessionOf \in [Owners -> Sessions]
  /\ IsFiniteSet(Owners) /\ IsFiniteSet(Requests)
  /\ MaxGeneration \in Nat
  /\ \A c \in DOMAIN Settings : Valid(Settings[c])
  /\ None \notin Keys /\ None \notin Owners

Outcomes == {"pending", "granted", "renewed", "cancelled", "timedOut", "rejected"}
GrantStates == {"active", "released", "expired", "targetGone", "ownerRetired"}
Max2(x, y) == IF x > y THEN x ELSE y

\* An unseen request, and a generation not issued yet.
NoAction == [kind |-> "none", key |-> None, mode |-> "S", ttl |-> 0, wait |-> 0,
             started |-> 0, until |-> 0, turn |-> 0, outcome |-> "unseen",
             grant |-> 0, cancelled |-> FALSE, pc |-> "idle"]
NoGrant == [state |-> "none", owner |-> None, key |-> None, mode |-> "S",
            deadline |-> 0, revision |-> 0]
\* A resource record: reference deadline, in-flight calls, and its worker
\* goroutine (pc "off" is worker = false).
NoResource == [state |-> "absent", until |-> 0, forgetting |-> FALSE, holds |-> 0,
               worker |-> "off", cur |-> None, next |-> 0, wake |-> FALSE]

----------------------------------------------------------------------------
(* Views of the authority's memory *)

Healthy(s) == ~s.closed /\ ~s.fenced
\* Mutant: the recovery interval is not enforced.
AdmittingAtOnce(s) == Healthy(s)
Admitting(s) == Healthy(s) /\ now >= s.recoveryUntil

\* r.queue: the pending acquisitions that were enrolled, in order of turn.
Queue(s, k) == {i \in Ids : /\ s.actions[i].outcome = "pending"
                            /\ s.actions[i].turn > 0
                            /\ s.actions[i].key = k}
\* Mutant: the newest waiter is served first.
IsNewest(s, i) == /\ i \in Queue(s, s.actions[i].key)
                  /\ \A j \in Queue(s, s.actions[i].key) :
                       s.actions[i].turn >= s.actions[j].turn
IsHead(s, i) == /\ i \in Queue(s, s.actions[i].key)
                /\ \A j \in Queue(s, s.actions[i].key) :
                     s.actions[i].turn <= s.actions[j].turn
LastTurn(s, k) == IF Queue(s, k) = {} THEN 0
                  ELSE CHOOSE t \in {s.actions[i].turn : i \in Queue(s, k)} :
                         \A i \in Queue(s, k) : s.actions[i].turn <= t

\* r.grants: only active grants stay in the resource's map.
Live(s, k) == {g \in Generations : /\ s.grants[g].state = "active"
                                   /\ s.grants[g].key = k}
\* Mutant: only the requested mode is looked at.
CompatibleWithShared(s, k, o, mode) ==
  \A g \in Live(s, k) : s.grants[g].owner # o /\ mode = "S"
Compatible(s, k, o, mode) ==
  \A g \in Live(s, k) : /\ s.grants[g].owner # o
                        /\ mode = "S" /\ s.grants[g].mode = "S"

OwnerBusy(s, o) == \E g \in Generations : /\ s.grants[g].owner = o
                                          /\ s.grants[g].key \in s.busy
SessionBusy(s, x) == \E o \in Owners : /\ SessionOf[o] = x
                                       /\ s.owners[o] = "live"
                                       /\ OwnerBusy(s, o)
History(s, o) == {r \in Requests : s.actions[<<o, r>>].kind # "none"}
HistoryRoom(s, o) == /\ Cardinality(History(s, o)) < ActionsPerOwner
                     /\ s.nActions < MaxActions

----------------------------------------------------------------------------
(* Sections that several handlers share: functions of the memory *)

\* Mutant: the worker is not told that its queue moved.
SignalNobody(s, K) == s
Signal(s, K) == [s EXCEPT !.res = [k \in Keys |->
                   IF k \in K /\ s.res[k].state # "absent" THEN [s.res[k] EXCEPT !.wake = TRUE] ELSE s.res[k]]]
WakeMaintenance(s) == [s EXCEPT !.wake = TRUE]

Touch(s, o) == [s EXCEPT !.sessions[SessionOf[o]].expires = Max2(@, now + SessionIdle)]

\* endGrantLocked for every active grant of G.
EndGrants(s, G, state) ==
  LET ended == {g \in G : s.grants[g].state = "active"}
      t == [s EXCEPT !.grants = [g \in Generations |->
                IF g \in ended THEN [s.grants[g] EXCEPT !.state = state] ELSE s.grants[g]],
              !.nGrants = @ - Cardinality(ended),
              !.wake = @ \/ ended # {}]
  IN IF ended = {} THEN s ELSE Signal(t, {s.grants[g].key : g \in ended})

\* Mutants: a decided receipt is overwritten; a waiter leaves its slot taken; a
\* request that never queued gives one back.
FinishAgain(s, I, outcome) ==
  Signal([s EXCEPT !.actions = [i \in Ids |->
            IF i \in I THEN [s.actions[i] EXCEPT !.outcome = outcome] ELSE s.actions[i]]],
         {s.actions[i].key : i \in I})
FinishLeaksSlot(s, I, outcome) ==
  FinishAgain(s, {i \in I : s.actions[i].outcome = "pending"}, outcome)

FinishFreesSlot(s, I, outcome) ==
  LET done == {i \in I : s.actions[i].outcome = "pending"}
  IN FinishAgain([s EXCEPT !.nQueued = @ - Cardinality(done)], done, outcome)

\* finishLocked for every pending action of I; leaving the queue is part of it.
Finish(s, I, outcome) ==
  LET done == {i \in I : s.actions[i].outcome = "pending"}
      t == [s EXCEPT !.actions = [i \in Ids |->
                IF i \in done THEN [s.actions[i] EXCEPT !.outcome = outcome] ELSE s.actions[i]],
              !.nQueued = @ - Cardinality({i \in done : s.actions[i].turn > 0})]
  IN IF done = {} THEN s ELSE Signal(t, {s.actions[i].key : i \in done})

\* Mutants: a busy resource is not spared; the deadline is off by one.
ExpireGrantsBusy(s, K) ==
  EndGrants(s, {g \in Generations : /\ s.grants[g].key \in K
                                    /\ now >= s.grants[g].deadline}, "expired")
ExpireGrantsEarly(s, K) ==
  EndGrants(s, {g \in Generations : /\ s.grants[g].key \in K \ s.busy
                                    /\ now + 1 >= s.grants[g].deadline}, "expired")

\* While a publication owns the resource nothing on it expires.
ExpireGrants(s, K) ==
  EndGrants(s, {g \in Generations : /\ s.grants[g].key \in K \ s.busy
                                    /\ now >= s.grants[g].deadline}, "expired")
ExpireQueued(s, K) ==
  Finish(s, {i \in UNION {Queue(s, k) : k \in K} : now >= s.actions[i].until}, "timedOut")

RetireOwners(s, O) ==
  LET I == {i \in Ids : i[1] \in O /\ s.actions[i].kind # "none"}
      G == {g \in Generations : s.grants[g].owner \in O}
      t == EndGrants(Finish(s, I, "cancelled"), G, "ownerRetired")
  IN [t EXCEPT !.owners = [o \in Owners |-> IF o \in O THEN "retired" ELSE s.owners[o]],
               !.nActions = @ - Cardinality(I)]

RetireSessions(s, X) ==
  LET t == RetireOwners(s, {o \in Owners : SessionOf[o] \in X /\ s.owners[o] = "live"})
  IN IF X = {} THEN s
     ELSE [t EXCEPT !.sessions = [x \in Sessions |->
             IF x \in X THEN [s.sessions[x] EXCEPT !.state = "retired"] ELSE s.sessions[x]]]

\* A session with a publication in flight outlives its idle deadline.
ExpireSessions(s) ==
  RetireSessions(s, {x \in Sessions : /\ s.sessions[x].state = "open"
                                      /\ now >= s.sessions[x].expires
                                      /\ ~SessionBusy(s, x)})

StartWorkers(s, K) ==
  [s EXCEPT !.res = [k \in Keys |->
     IF /\ k \in K /\ s.res[k].state # "absent" /\ s.res[k].worker = "off"
        /\ Queue(s, k) # {} /\ Healthy(s)
     THEN [s.res[k] EXCEPT !.worker = "scan"] ELSE s.res[k]]]

GrantRoom(s, o) ==
  /\ s.nGrants < MaxGrants
  /\ Cardinality({g \in Generations : s.grants[g].owner = o /\ s.grants[g].state = "active"})
       < GrantsPerOwner
  /\ s.lastGeneration < Settings[setting.of].lastGeneration

\* grantLocked, when GrantRoom holds.
Grant(s, i) ==
  LET act == s.actions[i]
      g == s.lastGeneration + 1
      t == [s EXCEPT !.lastGeneration = g,
              !.grants[g] = [state |-> "active", owner |-> i[1], key |-> act.key,
                             mode |-> act.mode, deadline |-> now + act.ttl, revision |-> 1],
              !.nGrants = @ + 1,
              !.actions[i].grant = g]
  IN WakeMaintenance(Touch(Finish(t, {i}, "granted"), i[1]))

----------------------------------------------------------------------------
(* Enrollment and references *)

Calling(op) == op \in Offered /\ now <= Horizon

OpenSession(x) ==
  /\ Calling("enroll") /\ Healthy(a)
  /\ LET s == ExpireSessions(a) IN
       /\ s.sessions[x].state = "absent"
       /\ a' = WakeMaintenance([s EXCEPT !.sessions[x] =
                 [state |-> "open", expires |-> now + SessionIdle]])
  /\ UNCHANGED <<now, durable, files, pub, maint, promised, setting>>

CreateOwner(o) ==
  /\ Calling("enroll") /\ Healthy(a)
  /\ LET s == ExpireSessions(a) IN
       /\ s.sessions[SessionOf[o]].state = "open"
       /\ s.owners[o] = "absent"
       /\ Cardinality({p \in Owners : /\ SessionOf[p] = SessionOf[o]
                                      /\ s.owners[p] # "absent"}) < OwnerActionsPerSession
       /\ a' = Touch([s EXCEPT !.owners[o] = "live"], o)
  /\ UNCHANGED <<now, durable, files, pub, maint, promised, setting>>

\* RetireOwner and CloseSession wait for a publication of one of the owners.
RetireOwner(o) ==
  /\ Calling("retireOwner") /\ Healthy(a)
  /\ a.owners[o] = "live"
  /\ ~OwnerBusy(a, o)
  /\ a' = WakeMaintenance(RetireOwners(a, {o}))
  /\ UNCHANGED <<now, durable, files, pub, maint, promised, setting>>

CloseSession(x) ==
  /\ Calling("closeSession") /\ Healthy(a)
  /\ a.sessions[x].state = "open"
  /\ ~SessionBusy(a, x)
  /\ a' = WakeMaintenance(RetireSessions(a, {x}))
  /\ UNCHANGED <<now, durable, files, pub, maint, promised, setting>>

\* Resolve: Discover runs its callback under the commit gate. A forgotten
\* record is replaced by a new one that the old grants do not belong to.
Resolve(o, k) ==
  /\ Calling("resolve") /\ Healthy(a) /\ pub = None /\ k \in files
  /\ LET s == ExpireSessions(a)
         t == IF s.res[k].state = "absent"
              THEN [s EXCEPT !.res[k] = [NoResource EXCEPT !.state = "live"],
                             !.grants = [g \in Generations |->
                               IF s.grants[g].key = k THEN [s.grants[g] EXCEPT !.key = None]
                               ELSE s.grants[g]]]
              ELSE s
     IN /\ s.owners[o] = "live"
        /\ s.res[k].state # "retired" /\ ~s.res[k].forgetting
        /\ a' = WakeMaintenance(Touch([t EXCEPT !.res[k].until = now + ResourceTTL], o))
  /\ UNCHANGED <<now, durable, files, pub, maint, promised, setting>>

----------------------------------------------------------------------------
(* Acquire and Renew: admit and record, raise the durable maximum, decide   *)
(* under Guard, settle. Other sections interleave between the four.        *)

\* resourceLocked accepts a reference that has not expired; fresh = FALSE is
\* a reference older than the record's current one.
Acquire(o, r, k, mode, ttl, wait, fresh) ==
  /\ Calling("acquire") /\ Admitting(a)
  /\ LET i == <<o, r>>
         s == ExpireSessions(a)
         usable == /\ fresh /\ s.res[k].state = "live" /\ ~s.res[k].forgetting
                   /\ now < s.res[k].until
         act == [NoAction EXCEPT !.kind = "acquire", !.outcome = "pending"]
         t == Touch([s EXCEPT !.nActions = @ + 1, !.actions[i] = act], o)
     IN /\ s.owners[o] = "live"
        /\ s.actions[i].kind = "none"
        /\ HistoryRoom(s, o)
        /\ a' = IF usable
                THEN [t EXCEPT !.actions[i] = [act EXCEPT !.key = k, !.mode = mode, !.ttl = ttl,
                                 !.wait = wait, !.started = now, !.pc = "raise"],
                               !.res[k].holds = @ + 1]
                ELSE Finish(t, {i}, "rejected")
  /\ UNCHANGED <<now, durable, files, pub, maint, promised, setting>>

Renew(o, r, g, ttl) ==
  /\ Calling("renew") /\ Admitting(a)
  /\ LET i == <<o, r>>
         s == ExpireSessions(a)
         act == [NoAction EXCEPT !.kind = "renew", !.outcome = "pending"]
         t == ExpireGrants(Touch([s EXCEPT !.nActions = @ + 1, !.actions[i] = act], o),
                           {s.grants[g].key})
     IN /\ s.owners[o] = "live"
        /\ s.actions[i].kind = "none"
        /\ HistoryRoom(s, o)
        /\ s.grants[g].owner = o
        /\ a' = IF t.grants[g].state = "active"
                THEN [t EXCEPT !.actions[i] = [act EXCEPT !.key = s.grants[g].key, !.ttl = ttl,
                                 !.grant = g, !.pc = "raise"],
                               !.res[s.grants[g].key].holds = @ + 1]
                ELSE Finish(t, {i}, "rejected")
  /\ UNCHANGED <<now, durable, files, pub, maint, promised, setting>>

\* raise: what the durable maximum and the in-memory watermark become, and
\* whether the caller goes on. A failed persist may still have taken effect.
RaiseResults(ttl) ==
  LET same(ok) == [durable |-> durable, watermark |-> a.watermark, ok |-> ok]
      persisted == Max2(durable, ttl)
      failed == {same(FALSE), [same(FALSE) EXCEPT !.durable = persisted]}
  IN IF ~Healthy(a) THEN {same(FALSE)}
     ELSE IF ttl <= a.watermark THEN {same(TRUE)}
     ELSE {[durable |-> persisted, watermark |-> ttl, ok |-> TRUE]}
            \cup {q \in failed : "failure" \in Offered}

RaiseLease(i) ==
  /\ a.actions[i].pc = "raise"
  /\ \E q \in RaiseResults(a.actions[i].ttl) :
       /\ durable' = q.durable
       /\ a' = [a EXCEPT !.watermark = q.watermark,
                         !.actions[i].pc = IF q.ok THEN "guard" ELSE "failed"]
  /\ UNCHANGED <<now, files, pub, maint, promised, setting>>

\* Acquire's Guard callback from the point where it has expired grants: the
\* memory and whether the callback returned nil.
Decided(s, ok) == [s |-> s, ok |-> ok]
AcquireDecision(s, i) ==
  LET act == s.actions[i]
      k == act.key
      o == i[1]
      queued == [s EXCEPT !.actions[i].until = act.started + act.wait,
                          !.actions[i].turn = LastTurn(s, k) + 1,
                          !.nQueued = @ + 1]
  IN CASE \E g \in Live(s, k) : s.grants[g].owner = o -> Decided(s, FALSE)
       [] OTHER ->
            IF k \notin s.busy /\ Queue(s, k) = {} /\ Compatible(s, k, o, act.mode)
            THEN IF GrantRoom(s, o) THEN Decided(Grant(s, i), TRUE) ELSE Decided(s, FALSE)
            ELSE IF \/ act.wait = 0
                    \/ s.nQueued >= MaxQueued
                    \/ Cardinality({j \in Ids : j[1] = o /\ j \in Queue(s, s.actions[j].key)})
                         >= QueuedPerOwner
                    \/ Cardinality(Queue(s, k)) >= QueuedPerResource
            THEN Decided(s, FALSE)
            ELSE IF now >= act.started + act.wait THEN Decided(Finish(s, {i}, "timedOut"), TRUE)
            ELSE Decided(Signal(StartWorkers(queued, {k}), {k}), TRUE)

RenewDecision(s, i) ==
  LET act == s.actions[i]
      g == act.grant
      t == [s EXCEPT !.grants[g].deadline = Max2(@, now + act.ttl),
                     !.grants[g].revision = @ + 1]
  IN IF \/ s.res[act.key].state = "retired" \/ s.grants[g].state # "active"
        \/ now >= s.grants[g].deadline \/ act.key \in s.busy
     THEN Decided(s, FALSE)
     ELSE Decided(Signal(Touch(Finish(t, {i}, "renewed"), i[1]), {act.key}), TRUE)

\* The checks both Guard callbacks make first.
GuardDecision(s0, i) ==
  LET s == ExpireSessions(s0)
      act == s.actions[i]
      t == ExpireGrants(s, {act.key})
  IN CASE s0.actions[i].outcome # "pending" -> Decided(s0, TRUE)
       [] s0.actions[i].outcome = "pending" /\ ~Admitting(s0) -> Decided(s0, FALSE)
       [] OTHER -> IF \/ s.owners[i[1]] # "live"
                      \/ act.kind = "acquire" /\ s.res[act.key].state = "retired"
                   THEN Decided(s, FALSE)
                   ELSE IF act.kind = "acquire" THEN AcquireDecision(t, i)
                   ELSE RenewDecision(t, i)

\* Guard waits for the commit gate and requires the file to be live.
GuardCall(i) ==
  /\ a.actions[i].pc = "guard" /\ pub = None
  /\ a.actions[i].key \in files
  /\ LET d == GuardDecision(a, i)
     IN a' = [d.s EXCEPT !.actions[i].pc = IF d.ok THEN "settle" ELSE "failed"]
  /\ UNCHANGED <<now, durable, files, pub, maint, promised, setting>>

\* The context ended, the metastore failed, or the file is gone.
GuardFailing(k) == a.closed \/ k \notin files \/ "failure" \in Offered
GuardFails(i) ==
  /\ a.actions[i].pc = "guard" /\ GuardFailing(a.actions[i].key)
  /\ a' = [a EXCEPT !.actions[i].pc = "failed"]
  /\ UNCHANGED <<now, durable, files, pub, maint, promised, setting>>

\* Mutants: a failed call leaves its receipt pending; a call keeps its hold.
SettleKeepsPending(i) ==
  /\ a.actions[i].pc \in {"settle", "failed"}
  /\ a' = WakeMaintenance([a EXCEPT !.actions[i].pc = "idle",
                                    !.res[a.actions[i].key].holds = @ - 1])
  /\ UNCHANGED <<now, durable, files, pub, maint, promised, setting>>
SettleKeepsHold(i) ==
  /\ a.actions[i].pc \in {"settle", "failed"}
  /\ a' = WakeMaintenance([a EXCEPT !.actions[i].pc = "idle"])
  /\ UNCHANGED <<now, durable, files, pub, maint, promised, setting>>

Settle(i) ==
  /\ a.actions[i].pc \in {"settle", "failed"}
  /\ LET t == IF a.actions[i].pc = "failed" THEN Finish(a, {i}, "rejected") ELSE a
     IN a' = WakeMaintenance([t EXCEPT !.actions[i].pc = "idle",
                                       !.res[a.actions[i].key].holds = @ - 1])
  /\ UNCHANGED <<now, durable, files, pub, maint, promised, setting>>

----------------------------------------------------------------------------
(* Queries, release, cancellation *)

\* Every handler expires sessions before it refuses its caller.
Refused ==
  /\ Calling("refused") /\ Healthy(a)
  /\ a' = ExpireSessions(a)
  /\ UNCHANGED <<now, durable, files, pub, maint, promised, setting>>

GrantBusy(s, i) == s.actions[i].grant # 0 /\ s.grants[s.actions[i].grant].key \in s.busy
GrantKey(s, i) == IF s.actions[i].grant = 0 THEN {} ELSE {s.grants[s.actions[i].grant].key}

\* Also what a repeated Acquire or Renew with the same intent does.
QueryAction(o, r) ==
  /\ Calling("query") /\ Healthy(a)
  /\ LET i == <<o, r>>
         s == ExpireSessions(a)
         late == s.actions[i].until > 0 /\ now >= s.actions[i].until
     IN /\ s.owners[o] = "live" /\ s.actions[i].kind # "none" /\ ~GrantBusy(s, i)
        /\ a' = ExpireGrants(Touch(IF late THEN Finish(s, {i}, "timedOut") ELSE s, o),
                             GrantKey(s, i))
  /\ UNCHANGED <<now, durable, files, pub, maint, promised, setting>>

QueryGrant(o, g) ==
  /\ Calling("query") /\ Healthy(a)
  /\ LET s == ExpireSessions(a)
     IN /\ s.owners[o] = "live" /\ s.grants[g].owner = o /\ s.grants[g].key \notin s.busy
        /\ a' = Touch(ExpireGrants(s, {s.grants[g].key}), o)
  /\ UNCHANGED <<now, durable, files, pub, maint, promised, setting>>

Release(o, g) ==
  /\ Calling("release") /\ Healthy(a)
  /\ LET s == ExpireSessions(a)
     IN /\ s.owners[o] = "live" /\ s.grants[g].owner = o /\ s.grants[g].key \notin s.busy
        /\ a' = Touch(EndGrants(ExpireGrants(s, {s.grants[g].key}), {g}, "released"), o)
  /\ UNCHANGED <<now, durable, files, pub, maint, promised, setting>>

\* Cancelling an unseen request leaves a cancelled record, so that a delayed
\* Acquire finds its request already decided.
Cancel(o, r) ==
  /\ Calling("cancel") /\ Healthy(a)
  /\ LET i == <<o, r>>
         s == ExpireSessions(a)
         unseen == s.actions[i].kind = "none"
         t == IF unseen
              THEN [s EXCEPT !.nActions = @ + 1,
                             !.actions[i] = [NoAction EXCEPT !.kind = "acquire",
                                                             !.outcome = "cancelled"]]
              ELSE s
         u == ExpireGrants(Finish(t, {i}, "cancelled"), GrantKey(s, i))
         w == IF t.actions[i].grant = 0 THEN u
              ELSE EndGrants(u, {t.actions[i].grant}, "released")
     IN /\ s.owners[o] = "live"
        /\ unseen => HistoryRoom(s, o)
        /\ t.actions[i].kind = "acquire"
        /\ ~GrantBusy(t, i)
        /\ a' = Touch(IF t.actions[i].cancelled THEN t
                      ELSE [w EXCEPT !.actions[i].cancelled = TRUE], o)
  /\ UNCHANGED <<now, durable, files, pub, maint, promised, setting>>

----------------------------------------------------------------------------
(* The worker goroutine of a resource (runResource) *)

SetWorker(s, k, pc) == [s EXCEPT !.res[k].worker = pc]
Earliest(S) == CHOOSE t \in S : \A u \in S : t <= u

WorkerScan(k) ==
  /\ a.res[k].worker = "scan"
  /\ LET s == ExpireQueued(ExpireGrants(a, {k}), {k})
         head == CHOOSE i \in Queue(s, k) : IsHead(s, i)
         next == Earliest({s.actions[head].until} \cup {s.grants[g].deadline : g \in Live(s, k)})
     IN a' = IF ~Healthy(a) \/ Queue(a, k) = {} THEN SetWorker(a, k, "exit")
             ELSE IF Queue(s, k) = {} THEN SetWorker(s, k, "exit")
             ELSE IF k \notin s.busy /\ Compatible(s, k, head[1], s.actions[head].mode)
             THEN [s EXCEPT !.res[k].worker = "raise", !.res[k].cur = head,
                            !.res[k].holds = @ + 1]
             ELSE [s EXCEPT !.res[k].worker = "sleep", !.res[k].next = next]
  /\ UNCHANGED <<now, durable, files, pub, maint, promised, setting>>

WorkerRaise(k) ==
  /\ a.res[k].worker = "raise"
  /\ \E q \in RaiseResults(a.actions[a.res[k].cur].ttl) :
       /\ durable' = q.durable
       /\ a' = [a EXCEPT !.watermark = q.watermark,
                         !.res[k].worker = IF q.ok THEN "guard" ELSE "failed"]
  /\ UNCHANGED <<now, files, pub, maint, promised, setting>>

WorkerDecision(s0, k) ==
  LET i == s0.res[k].cur
      s == ExpireSessions(s0)
      t == ExpireGrants(s, {k})
  IN CASE s0.actions[i].outcome # "pending" -> Decided(s0, TRUE)
       [] s0.actions[i].outcome = "pending" /\ ~Admitting(s0) -> Decided(s0, FALSE)
       [] OTHER ->
            IF s.owners[i[1]] # "live" \/ s.res[k].state = "retired" THEN Decided(s, FALSE)
            ELSE IF now >= t.actions[i].until THEN Decided(Finish(t, {i}, "timedOut"), TRUE)
            ELSE IF IsHead(t, i) /\ k \notin t.busy /\ Compatible(t, k, i[1], t.actions[i].mode)
            THEN IF GrantRoom(t, i[1]) THEN Decided(Grant(t, i), TRUE) ELSE Decided(t, FALSE)
            ELSE Decided(t, TRUE)

WorkerGuard(k) ==
  /\ a.res[k].worker = "guard" /\ pub = None /\ k \in files
  /\ LET d == WorkerDecision(a, k)
     IN a' = SetWorker(d.s, k, IF d.ok THEN "settle" ELSE "failed")
  /\ UNCHANGED <<now, durable, files, pub, maint, promised, setting>>

WorkerGuardFails(k) ==
  /\ a.res[k].worker = "guard" /\ GuardFailing(k)
  /\ a' = SetWorker(a, k, "failed")
  /\ UNCHANGED <<now, durable, files, pub, maint, promised, setting>>

WorkerSettle(k) ==
  /\ a.res[k].worker \in {"settle", "failed"}
  /\ LET t == IF a.res[k].worker = "failed" THEN Finish(a, {a.res[k].cur}, "rejected") ELSE a
     IN a' = [t EXCEPT !.res[k].worker = "scan", !.res[k].cur = None, !.res[k].holds = @ - 1]
  /\ UNCHANGED <<now, durable, files, pub, maint, promised, setting>>

\* The worker sleeps until it is signalled, its timer fires, or Close.
WorkerWakes(k) ==
  /\ a.res[k].worker = "sleep"
  /\ \/ a.res[k].wake /\ a' = [a EXCEPT !.res[k].wake = FALSE, !.res[k].worker = "scan"]
     \/ now >= a.res[k].next /\ a' = SetWorker(a, k, "scan")
     \/ a.closed /\ a' = SetWorker(a, k, "exit")
  /\ UNCHANGED <<now, durable, files, pub, maint, promised, setting>>

\* The deferred worker = false is a section of its own, after the decision.
WorkerExits(k) ==
  /\ a.res[k].worker = "exit"
  /\ a' = WakeMaintenance(SetWorker(a, k, "off"))
  /\ UNCHANGED <<now, durable, files, pub, maint, promised, setting>>

----------------------------------------------------------------------------
(* The maintenance goroutine (maintain) *)

\* Mutant: calls in flight are not counted.
ForgettableInUse(s, k) ==
  /\ s.res[k].state # "absent" /\ ~s.res[k].forgetting
  /\ now >= s.res[k].until
  /\ Live(s, k) = {} /\ Queue(s, k) = {} /\ k \notin s.busy

Forgettable(s, k) ==
  /\ s.res[k].state # "absent" /\ ~s.res[k].forgetting
  /\ now >= s.res[k].until
  /\ Live(s, k) = {} /\ Queue(s, k) = {} /\ k \notin s.busy
  /\ s.res[k].worker = "off" /\ s.res[k].holds = 0

NextDeadline(s) ==
  Earliest({now + SessionIdle}
    \cup {t \in {s.sessions[x].expires : x \in {y \in Sessions : s.sessions[y].state = "open"}} :
            t > now}
    \cup {t \in {s.res[k].until : k \in Keys} : t > now}
    \cup {t \in {s.grants[g].deadline : g \in UNION {Live(s, k) : k \in Keys}} : t > now}
    \cup {s.actions[i].until : i \in UNION {Queue(s, k) : k \in Keys}})

MaintainScan ==
  /\ maint.pc = "scan" /\ ~a.closed
  /\ LET s == StartWorkers(ExpireQueued(ExpireGrants(ExpireSessions(a), Keys), Keys), Keys)
         gone == {k \in Keys : Forgettable(s, k)}
     IN /\ a' = [s EXCEPT !.res = [k \in Keys |->
                   IF k \in gone THEN [s.res[k] EXCEPT !.forgetting = TRUE] ELSE s.res[k]]]
        /\ maint' = [pc |-> IF gone = {} THEN "sleep" ELSE "forget", next |-> NextDeadline(s)]
  /\ UNCHANGED <<now, durable, files, pub, promised, setting>>

\* Native.Forget succeeds; the record leaves keys and resources.
MaintainForget(k) ==
  /\ maint.pc = "forget" /\ a.res[k].forgetting
  /\ a' = [a EXCEPT !.res[k] = NoResource]
  /\ maint' = [maint EXCEPT !.pc = IF \E j \in Keys \ {k} : a.res[j].forgetting
                                   THEN "forget" ELSE "sleep"]
  /\ UNCHANGED <<now, durable, files, pub, promised, setting>>

MaintainWakes ==
  \/ /\ maint.pc = "sleep" /\ a.wake
     /\ a' = [a EXCEPT !.wake = FALSE] /\ maint' = [maint EXCEPT !.pc = "scan"]
     /\ UNCHANGED <<now, durable, files, pub, promised, setting>>
  \/ /\ maint.pc = "sleep" /\ now >= maint.next
     /\ maint' = [maint EXCEPT !.pc = "scan"]
     /\ UNCHANGED <<a, now, durable, files, pub, promised, setting>>
  \/ /\ maint.pc \in {"scan", "sleep"} /\ a.closed
     /\ maint' = [maint EXCEPT !.pc = "off"]
     /\ UNCHANGED <<a, now, durable, files, pub, promised, setting>>

----------------------------------------------------------------------------
(* Publications: the final transition of a mutation of at most two files *)

\* Publish up to the point where the transition starts. o = None is a
\* mutation without a scope; proofs are the grants its scope names.
PublishBegin(o, targets, proofs) ==
  /\ Calling("publish") /\ Admitting(a) /\ pub = None
  /\ o = None => proofs = {}
  /\ LET s == ExpireSessions(a)
         known == {k \in targets : s.res[k].state # "absent"}
         t == ExpireGrants(s, known \cup {s.grants[g].key : g \in proofs})
         registered == o = None \/ s.owners[o] = "live"
         proven == \A g \in proofs : /\ t.grants[g].owner = o
                                     /\ t.grants[g].state = "active"
                                     /\ now < t.grants[g].deadline
                                     /\ t.grants[g].key \in targets
         covered == \A k \in known : Live(t, k) = {} \/
                      \E g \in proofs : t.grants[g].key = k /\ t.grants[g].mode = "X"
     IN IF registered /\ proven /\ covered
        THEN /\ a' = [t EXCEPT !.busy = @ \cup known]
             /\ pub' = [owner |-> o, targets |-> targets, owned |-> known, proofs |-> proofs]
        ELSE /\ a' = IF registered THEN t ELSE s
             /\ pub' = pub
  /\ UNCHANGED <<now, durable, files, maint, promised, setting>>

\* completePublication for a known outcome that removed the files of gone.
RetireTargets(s, gone) ==
  LET K == {k \in gone : s.res[k].state # "absent"}
      t == [s EXCEPT !.res = [k \in Keys |->
              IF k \in K THEN [s.res[k] EXCEPT !.state = "retired", !.until = now]
              ELSE s.res[k]]]
      u == EndGrants(t, {g \in Generations : s.grants[g].key \in K}, "targetGone")
  IN Finish(u, UNION {Queue(u, k) : k \in K}, "rejected")

\* An unknown outcome fences the authority; the commit may have happened.
PublishEnd(gone, outcomeKnown, applied) ==
  /\ pub # None /\ gone \subseteq pub.targets
  /\ LET s == IF outcomeKnown THEN RetireTargets(a, gone) ELSE [a EXCEPT !.fenced = TRUE]
     IN a' = WakeMaintenance(Signal([s EXCEPT !.busy = @ \ pub.owned], pub.owned))
  /\ files' = IF outcomeKnown \/ applied THEN files \ gone ELSE files
  /\ pub' = None
  /\ UNCHANGED <<now, durable, maint, promised, setting>>

\* A metastore failure outside a publication, or inside one's transition.
Fence ==
  /\ Calling("fence") /\ ~a.fenced
  /\ a' = Signal([a EXCEPT !.fenced = TRUE], Keys)
  /\ UNCHANGED <<now, durable, files, pub, maint, promised, setting>>

----------------------------------------------------------------------------
(* Closing, reopening, and the clock *)

CloseBegin ==
  /\ Calling("close") /\ ~a.closed
  /\ a' = Signal([a EXCEPT !.closed = TRUE], Keys)
  /\ UNCHANGED <<now, durable, files, pub, maint, promised, setting>>

\* Close has waited for native calls, publications, workers and maintenance.
CloseDrain ==
  /\ a.closed /\ pub = None /\ maint.pc = "off"
  /\ \A i \in Ids : a.actions[i].pc = "idle"
  /\ \A k \in Keys : a.res[k].worker = "off"
  /\ \E k \in Keys : a.res[k].state # "absent"
  /\ a' = [a EXCEPT !.res = [k \in Keys |-> NoResource]]
  /\ UNCHANGED <<now, durable, files, pub, maint, promised, setting>>

\* New: nothing of the old incarnation's memory survives, only the maximum.
Fresh(max, until) ==
  [closed |-> FALSE, fenced |-> FALSE, recoveryUntil |-> until, watermark |-> max,
   lastGeneration |-> 0,
   sessions |-> [x \in Sessions |-> [state |-> "absent", expires |-> 0]],
   owners |-> [o \in Owners |-> "absent"],
   actions |-> [i \in Ids |-> NoAction],
   grants |-> [g \in Generations |-> NoGrant],
   res |-> [k \in Keys |-> NoResource],
   busy |-> {}, nActions |-> 0, nGrants |-> 0, nQueued |-> 0, wake |-> FALSE]

Promises == {a.grants[g].deadline : g \in {h \in Generations : a.grants[h].state = "active"}}

\* A crash or a close at any point, then a reopen. A publication in flight
\* left its commit done or not done.
Restart(gone) ==
  /\ setting.restarts > 0
  /\ gone \subseteq IF pub = None THEN {} ELSE pub.targets
  /\ a' = Fresh(durable, now + durable)
  /\ files' = files \ gone
  /\ pub' = None
  /\ maint' = [pc |-> "scan", next |-> 0]
  /\ promised' \in {p \in Promises \cup {promised} : \A q \in Promises \cup {promised} : q <= p}
  /\ setting' = [setting EXCEPT !.restarts = @ - 1]
  /\ UNCHANGED <<now, durable>>

Tick ==
  /\ now < MaxTime
  /\ now' = now + 1
  /\ UNCHANGED <<a, durable, files, pub, maint, promised, setting>>

Init ==
  /\ a = Fresh(0, 0)
  /\ now = 0 /\ durable = 0 /\ files = Keys /\ pub = None
  /\ maint = [pc |-> "scan", next |-> 0]
  /\ promised = 0
  /\ setting \in {[of |-> c, restarts |-> Settings[c].restarts] : c \in DOMAIN Settings}

\* Who calls an operation now.
Callers(op) == IF Calling(op) THEN Owners ELSE {}

Client ==
  \/ \E x \in Sessions : OpenSession(x) \/ CloseSession(x)
  \/ \E o \in Callers("enroll") : CreateOwner(o)
  \/ \E o \in Callers("retireOwner") : RetireOwner(o)
  \/ \E o \in Callers("resolve"), k \in Keys : Resolve(o, k)
  \/ \E o \in Callers("acquire"), r \in Asked, k \in Keys, mode \in {"S", "X"},
        ttl \in Leases, wait \in Waits, fresh \in {TRUE} \cup {"stale" \notin Offered} :
        Acquire(o, r, k, mode, ttl, wait, fresh)
  \/ \E o \in Callers("renew"), r \in Asked, g \in Generations, ttl \in Leases :
        Renew(o, r, g, ttl)
  \/ \E o \in Callers("query"), r \in Asked : QueryAction(o, r)
  \/ \E o \in Callers("cancel"), r \in Asked : Cancel(o, r)
  \/ \E o \in Callers("query"), g \in Generations : QueryGrant(o, g)
  \/ \E o \in Callers("release"), g \in Generations : Release(o, g)
  \/ \E o \in Callers("publish") \cup {None}, targets \in SUBSET files,
        proofs \in SUBSET {g \in Generations : a.grants[g].owner # None} :
        Cardinality(targets) \in 1 .. 2 /\ PublishBegin(o, targets, proofs)
  \/ Refused

Call(i) == RaiseLease(i) \/ GuardCall(i) \/ GuardFails(i) \/ Settle(i)
Worker(k) ==
  \/ WorkerScan(k) \/ WorkerRaise(k) \/ WorkerGuard(k) \/ WorkerGuardFails(k)
  \/ WorkerSettle(k) \/ WorkerWakes(k) \/ WorkerExits(k)
Maintain == MaintainScan \/ MaintainWakes \/ \E k \in Keys : MaintainForget(k)
Publishing == \E gone \in SUBSET (IF pub = None THEN {} ELSE pub.targets),
                 outcomeKnown, applied \in BOOLEAN :
                PublishEnd(gone, outcomeKnown, applied)

Next ==
  \/ Client
  \/ \E i \in Ids : Call(i)
  \/ \E k \in Keys : Worker(k)
  \/ Maintain \/ Publishing
  \/ Fence \/ CloseBegin \/ CloseDrain
  \/ \E gone \in SUBSET Keys : Restart(gone)
  \/ Tick

Spec == Init /\ [][Next]_vars

\* When a goroutine or a call in flight can take its next step.
GuardReady(k) == (pub = None /\ k \in files) \/ GuardFailing(k)
CallReady(i) == LET act == a.actions[i] IN
  act.pc \in {"raise", "settle", "failed"} \/ (act.pc = "guard" /\ GuardReady(act.key))
WorkerReady(k) == LET r == a.res[k] IN
  \/ r.worker \in {"scan", "raise", "settle", "failed", "exit"}
  \/ r.worker = "guard" /\ GuardReady(k)
  \/ r.worker = "sleep" /\ (r.wake \/ now >= r.next \/ a.closed)
MaintainReady ==
  \/ maint.pc \in {"scan", "forget"}
  \/ maint.pc = "sleep" /\ (a.wake \/ now >= maint.next \/ a.closed)

\* Goroutines that can run do run, native calls return, and time passes:
\* weak fairness, with ENABLED spelled out. Clients owe nothing.
FairSpec ==
  /\ Spec
  /\ WF_vars(Tick)
  /\ ([]<>(pub = None) \/ []<>(<<Publishing>>_vars))
  /\ ([]<>(~MaintainReady) \/ []<>(<<Maintain>>_vars))
  /\ \A i \in Ids : []<>(~CallReady(i)) \/ []<>(<<Call(i)>>_vars)
  /\ \A k \in Keys : []<>(~WorkerReady(k)) \/ []<>(<<Worker(k)>>_vars)

----------------------------------------------------------------------------
(* Types *)

ActionRecord ==
  [kind : {"none", "acquire", "renew"}, key : Keys \cup {None}, mode : {"S", "X"},
   ttl : Nat, wait : Nat, started : Nat, until : Nat, turn : Nat,
   outcome : Outcomes \cup {"unseen"}, grant : Generations \cup {0},
   cancelled : BOOLEAN, pc : {"idle", "raise", "guard", "settle", "failed"}]
GrantRecord ==
  [state : GrantStates \cup {"none"}, owner : Owners \cup {None}, key : Keys \cup {None},
   mode : {"S", "X"}, deadline : Nat, revision : Nat]
ResourceRecord ==
  [state : {"absent", "live", "retired"}, until : Nat, forgetting : BOOLEAN, holds : Int,
   worker : {"off", "scan", "sleep", "raise", "guard", "settle", "failed", "exit"},
   cur : Ids \cup {None}, next : Nat, wake : BOOLEAN]
Memory ==
  [closed : BOOLEAN, fenced : BOOLEAN, recoveryUntil : Nat, watermark : Nat,
   lastGeneration : 0 .. MaxGeneration,
   sessions : [Sessions -> [state : {"absent", "open", "retired"}, expires : Nat]],
   owners : [Owners -> {"absent", "live", "retired"}],
   actions : [Ids -> ActionRecord], grants : [Generations -> GrantRecord],
   res : [Keys -> ResourceRecord], busy : SUBSET Keys,
   nActions : Int, nGrants : Int, nQueued : Int, wake : BOOLEAN]
Publication ==
  [owner : Owners \cup {None}, targets : SUBSET Keys, owned : SUBSET Keys,
   proofs : SUBSET Generations]

\* The type of every variable.
TypeOK ==
  /\ a \in Memory
  /\ now \in Nat /\ durable \in Nat /\ promised \in Nat /\ setting \in [of : DOMAIN Settings, restarts : Nat]
  /\ files \subseteq Keys
  /\ pub \in Publication \cup {None}
  /\ maint \in [pc : {"scan", "sleep", "forget", "off"}, next : Nat]

----------------------------------------------------------------------------
(* Safety *)

\* Two live leases on one file are both shared and have different owners,
\* whichever path granted them: Acquire's fast path or the queue's worker.
Exclusion ==
  \A g, h \in Generations :
    /\ g # h
    /\ a.grants[g].state = "active" /\ a.grants[h].state = "active"
    /\ a.grants[g].key = a.grants[h].key
    => /\ a.grants[g].mode = "S" /\ a.grants[h].mode = "S"
       /\ a.grants[g].owner # a.grants[h].owner

\* While a mutation commits, no lease on a file it changes appears or
\* survives except the exclusive ones it presented, and those outlast it:
\* expiry, Release, Cancel, RetireOwner, CloseSession and session expiry wait.
PublicationExclusive ==
  pub # None =>
    /\ \A k \in pub.targets : Live(a, k) \subseteq pub.proofs
    /\ \A g \in pub.proofs : a.grants[g].state = "active" /\ a.grants[g].key \in pub.owned
    /\ \A k \in pub.owned, g \in pub.proofs : a.grants[g].key = k => a.grants[g].owner = pub.owner
    /\ \A k \in pub.owned : \A g \in Live(a, k) : a.grants[g].mode = "X"

\* Until every lease an earlier incarnation granted has run out, the
\* reopened volume grants none and commits no mutation.
LeaseRecoverySafe ==
  now < promised => pub = None /\ \A g \in Generations : a.grants[g].state # "active"

\* The capacity counters equal what they count, so capacity never leaks.
CountersExact ==
  /\ a.nGrants = Cardinality({g \in Generations : a.grants[g].state = "active"})
  /\ a.nQueued = Cardinality(UNION {Queue(a, k) : k \in Keys})
  /\ a.nActions = Cardinality({i \in Ids : a.owners[i[1]] = "live" /\ a.actions[i].kind # "none"})

\* A record that a call, a worker, a lease, a waiter or a publication uses
\* is neither being forgotten nor gone.
InUseKept ==
  \A k \in Keys :
    LET calls == {i \in Ids : a.actions[i].pc # "idle" /\ a.actions[i].key = k}
        working == a.res[k].worker \in {"raise", "guard", "settle", "failed"}
    IN /\ a.res[k].holds = Cardinality(calls) + IF working THEN 1 ELSE 0
       /\ \/ a.res[k].holds > 0 \/ a.res[k].worker # "off"
          \/ ~a.closed /\ (Live(a, k) # {} \/ Queue(a, k) # {})
          => a.res[k].state # "absent" /\ ~a.res[k].forgetting

\* Nobody waits without someone who will look: a queue without a worker has
\* a maintenance pass coming, a sleeping worker whose head became grantable
\* has been signalled, and a waiter's deadline is on a timer.
NoLostWakeup ==
  \A k \in Keys : Queue(a, k) # {} /\ Healthy(a) =>
    LET scanning == a.wake \/ maint.pc = "scan"
        worker == a.res[k].worker
    IN /\ worker = "off" => scanning
       /\ worker = "sleep" /\ k \notin a.busy =>
            \/ a.res[k].wake \/ now >= a.res[k].next
            \/ \A i \in Queue(a, k) : IsHead(a, i) => ~Compatible(a, k, i[1], a.actions[i].mode)
       /\ \A i \in Queue(a, k) :
            \/ worker \notin {"off", "sleep"} \/ a.res[k].wake \/ scanning
            \/ a.actions[i].pc # "idle"
            \/ worker = "sleep" /\ a.res[k].next <= a.actions[i].until
            \/ maint.next <= a.actions[i].until

\* A lease is granted on a file only after everyone who queued for it
\* earlier has been served or has left.
NoOvertaking ==
  [][\A i \in Ids : a.actions[i].outcome = "pending" /\ a'.actions[i].outcome = "granted" =>
       \A j \in Queue(a', a.actions[i].key) :
         a.actions[i].turn > 0 /\ a.actions[i].turn < a.actions[j].turn]_vars

\* "ActionReceipt is immutable once Outcome becomes terminal" (types.go:98),
\* and a lease that ended never comes back, until the volume is reopened.
ReceiptFinal ==
  [][setting' = setting =>
       /\ \A i \in Ids : a.actions[i].outcome \in Outcomes \ {"pending"} =>
            /\ a'.actions[i].outcome = a.actions[i].outcome
            /\ a'.actions[i].grant = a.actions[i].grant
       /\ \A g \in Generations : a.grants[g].state \in GrantStates \ {"active"} =>
            a'.grants[g].state = a.grants[g].state]_vars

\* A lease expires no earlier than its deadline, and a renewal never
\* brings the deadline forward.
LeaseHonoured ==
  [][setting' = setting => \A g \in Generations : a.grants[g].state = "active" =>
       /\ a'.grants[g].state = "expired" => now >= a.grants[g].deadline
       /\ a'.grants[g].state = "active" => a'.grants[g].deadline >= a.grants[g].deadline]_vars

----------------------------------------------------------------------------
(* Liveness *)

\* Every admitted request is decided, unless the authority stops.
EveryRequestDecided ==
  \A i \in Ids : a.actions[i].outcome = "pending" ~>
                   (a.actions[i].outcome # "pending" \/ ~Healthy(a))

\* When clients fall silent, their sessions retire and the records of the
\* files they named are forgotten.
IdleReclaimed == MaxTime > Horizon + SessionIdle =>
  <>[](a.closed \/ /\ \A x \in Sessions : a.sessions[x].state # "open"
                   /\ \A k \in Keys : a.res[k].state = "absent")
=============================================================================
