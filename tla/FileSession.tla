------------------------------ MODULE FileSession ------------------------------
(* A retained file session of packages/storage/objectstore: its lease, the
   admission of operations, the references it opens, the receipts of retried
   actions, the receipts of closing a reference, and its own closing.

   One step is one critical section of fs.mu, or one call of the native store.
   Times are what is left of them: Tick counts every one of them down.  An action
   identity names the history epoch it was made in; all that matters of it is
   whether that epoch has passed (id.old).  Closing a session is the work of the
   actor "closer", the maintenance of Storage that of "sweeper"; the other
   actors are calls of clients.                                              *)
EXTENDS Naturals, FiniteSets, FiniteSetsExt

CONSTANTS Callers, Refs, Ids, Settings

VARIABLES s,       \* fileSession, with the epoch and phase of its advisory session
          ref,     \* openFile or nodeReference, by name
          id,      \* fileAction receipts by identity, and what was executed
          actor,   \* where each call stands
          faults,  \* failures of the native store still to come
          setting

vars == <<s, ref, id, actor, faults, setting>>

Lease == Settings[setting].lease               \* in ticks
History == Settings[setting].history           \* in ticks
MaxOperations == Settings[setting].operations
MaxFiles == Settings[setting].files
MaxCloseActions == 2 * MaxFiles + 1            \* the least FileSessionOptions admits
MaxLockActions == 1
MaxOwners == 1                                 \* bound: owners of a reference
MaxTries == 2                                  \* 4 in the code
Offered == Settings[setting].calls             \* what clients call

Closer == "closer"
Sweeper == "sweeper"
Actors == Callers \cup {Closer, Sweeper}
Classes == {"data", "control", "advisory", "cleanup"}
Limit == [data |-> MaxOperations, control |-> 2, advisory |-> 2, cleanup |-> 2]

Idle == [at |-> "idle", ref |-> "none", id |-> "none", generation |-> 0, tries |-> 0, todo |-> {}, ok |-> TRUE]
NoRef == [native |-> "none", active |-> FALSE, retired |-> FALSE, ops |-> 0, retiring |-> FALSE,
          owners |-> 0, registered |-> 0, next |-> 1, released |-> FALSE, receipts |-> <<>>,
          run |-> "idle", result |-> "none"]

Init ==
    /\ setting \in DOMAIN Settings
    /\ s = [made |-> FALSE, active |-> FALSE, lease |-> 0, epoch |-> 0, locks |-> "active", files |-> {},
            closeRefs |-> {}, opening |-> 0, identity |-> 0, used |-> [k \in Classes |-> 0],
            closing |-> "never", kept |-> FALSE, refused |-> FALSE]
    /\ ref = [r \in Refs |-> NoRef]
    /\ id = [i \in Ids |-> [outcome |-> "none", left |-> 0, old |-> FALSE, made |-> FALSE, executed |-> 0]]
    /\ actor = [c \in Actors |-> Idle]
    /\ faults = Settings[setting].faults

-----------------------------------------------------------------------------
(* Receipts.                                                                *)

Receipts(r) == ref[r].receipts
HasReceipt(r, g) == g \in DOMAIN Receipts(r)
CloseIds == UNION {{Receipts(r)[g].id : g \in DOMAIN Receipts(r)} : r \in Refs}
Without(f, S) == [x \in DOMAIN f \ S |-> f[x]]

\* pruneCloseHistoryLocked: settled receipts leave after their history.
Prunable(r) == {g \in DOMAIN Receipts(r) : Receipts(r)[g].outcome = "completed" /\ Receipts(r)[g].left = 0}
PruneCloseHistory ==
    /\ ref' = [r \in Refs |-> [ref[r] EXCEPT !.receipts = Without(@, Prunable(r))]]
    /\ s' = [s EXCEPT !.closeRefs = {r \in @ : ~(ref[r].released /\ DOMAIN Receipts(r) \subseteq Prunable(r))}]
Pruned == \A r \in Refs : Prunable(r) = {}

\* pruneFileActionsLocked
Expired(i) == id[i].outcome \notin {"none", "pending"} /\ id[i].left = 0
Retained(i) == id[i].outcome # "none" /\ ~Expired(i)
PrunedIds == [i \in Ids |-> IF Expired(i) THEN [id[i] EXCEPT !.outcome = "none"] ELSE id[i]]
Aged(ids) == [i \in Ids |-> [ids[i] EXCEPT !.old = ids[i].made]]

\* advanceLocked of the advisory session: the epoch ends when someone looks.
EpochAdvances == s.epoch = 0
NextEpoch(t) == IF EpochAdvances THEN [t EXCEPT !.epoch = History] ELSE t
KeepsEpoch(ids) == ids
NextIds(ids) == IF EpochAdvances THEN Aged(ids) ELSE ids

-----------------------------------------------------------------------------
(* The lease and the clock.                                                 *)

Live == s.active /\ s.lease > 0

NewFileSession ==
    /\ ~s.made /\ ~s.refused
    /\ s' = [s EXCEPT !.made = TRUE, !.active = TRUE, !.lease = Lease, !.epoch = History, !.kept = TRUE]
    /\ UNCHANGED <<ref, id, actor, faults, setting>>

Down(n) == IF n > 0 THEN n - 1 ELSE 0
\* Time passes.  A call is not held up for a whole history between checking the
\* epoch of its action and registering it.
Tick ==
    /\ s.made /\ \A c \in Callers : actor[c].at # "register"
    /\ s' = [s EXCEPT !.lease = Down(@), !.epoch = Down(@)]
    /\ id' = [i \in Ids |-> [id[i] EXCEPT !.left = Down(@)]]
    /\ ref' = [r \in Refs |-> [ref[r] EXCEPT !.receipts =
                 [g \in DOMAIN @ |-> [@[g] EXCEPT !.left = Down(@)]]]]
    /\ UNCHANGED <<actor, faults, setting>>

Renew ==
    /\ "Renew" \in Offered /\ Live /\ s.locks = "active" /\ s.lease < Lease
    /\ s' = [NextEpoch(s) EXCEPT !.lease = Lease]
    /\ id' = NextIds(id)
    /\ UNCHANGED <<ref, actor, faults, setting>>

\* startClose, as one of the things a step does: a closing that failed starts over.
Starts == s.closing \in {"never", "failed"}
Closing(t) == IF Starts THEN [t EXCEPT !.closing = "running", !.active = FALSE] ELSE t
ClosingActor(a) == IF Starts THEN [a EXCEPT ![Closer] = [Idle EXCEPT !.at = "wait"]] ELSE a

Expire ==
    /\ s.made /\ s.closing = "never" /\ s.lease = 0
    /\ s' = Closing(s) /\ actor' = ClosingActor(actor)
    /\ UNCHANGED <<ref, id, faults, setting>>

\* Close by the client, or by the storage, which then admits no new session.
Close ==
    /\ "Close" \in Offered /\ s.made /\ Starts
    /\ s' = Closing(s) /\ actor' = ClosingActor(actor)
    /\ UNCHANGED <<ref, id, faults, setting>>
CloseFileSessions ==
    /\ ~s.refused
    /\ s' = [(IF s.kept THEN Closing(s) ELSE s) EXCEPT !.refused = TRUE]
    /\ actor' = IF s.kept THEN ClosingActor(actor) ELSE actor
    /\ UNCHANGED <<ref, id, faults, setting>>

-----------------------------------------------------------------------------
(* Admission.                                                               *)

Go(c, at) == actor' = [actor EXCEPT ![c].at = at]
Return(c) == actor' = [actor EXCEPT ![c] = Idle]
Calls(c, what) == what \in Offered /\ c \in Settings[setting].callers /\ actor[c].at = "idle" /\ s.made

Admits(class) == Live /\ s.used[class] < Limit[class]
Admitted(t, class, identity) ==
    [t EXCEPT !.used[class] = @ + 1, !.identity = IF identity THEN @ + 1 ELSE @]
Done(t, class, identity) ==
    [t EXCEPT !.used[class] = @ - 1, !.identity = IF identity THEN @ - 1 ELSE @]

\* A call that finds the session expired starts its closing.
AdmitRefused ==
    /\ s.made /\ ~Live /\ Starts /\ Offered # {}
    /\ s' = Closing(s) /\ actor' = ClosingActor(actor)
    /\ UNCHANGED <<ref, id, faults, setting>>

\* Operations on the session itself: StatNode, LookupAt, ReadDirNode, SetNodeAttr.
Observe(c) ==
    /\ Calls(c, "Observe") /\ Admits("data")
    /\ s' = Admitted(s, "data", TRUE) /\ Go(c, "observing")
    /\ UNCHANGED <<ref, id, faults, setting>>
Observed(c) ==
    /\ actor[c].at = "observing"
    /\ s' = Done(s, "data", TRUE) /\ Return(c)
    /\ UNCHANGED <<ref, id, faults, setting>>

\* Operations on a reference: admitted by the session, then by the reference.
Begin(c, r) ==
    /\ Calls(c, "Data") /\ Admits("data") /\ r \in s.files
    /\ s' = Admitted(s, "data", FALSE)
    /\ actor' = [actor EXCEPT ![c].at = "begun", ![c].ref = r]
    /\ UNCHANGED <<ref, id, faults, setting>>
Enter(c, class, inside) ==
    LET r == actor[c].ref IN
    IF ref[r].active
    THEN ref' = [ref EXCEPT ![r].ops = @ + 1] /\ Go(c, inside) /\ UNCHANGED s
    ELSE s' = Done(s, class, FALSE) /\ Return(c) /\ UNCHANGED ref
BeginReference(c) ==
    /\ actor[c].at = "begun" /\ Enter(c, "data", "inside")
    /\ UNCHANGED <<id, faults, setting>>
Finish(c) ==
    /\ actor[c].at = "inside"
    /\ ref' = [ref EXCEPT ![actor[c].ref].ops = @ - 1]
    /\ s' = Done(s, "data", FALSE) /\ Return(c)
    /\ UNCHANGED <<id, faults, setting>>

\* beginOpen, the native open, finishOpen.  What was opened after the session
\* ended is retired at once; the session's closing has waited for it.
MayOpen == /\ Cardinality(s.files) + s.opening < MaxFiles
           /\ Cardinality(s.closeRefs) + s.opening < (MaxCloseActions - 1) \div 2
BeginOpen(c) ==
    /\ Calls(c, "Open") /\ Pruned /\ Admits("data") /\ MayOpen
    /\ s' = [Admitted(s, "data", TRUE) EXCEPT !.opening = @ + 1]
    /\ Go(c, "opening")
    /\ UNCHANGED <<ref, id, faults, setting>>
NativeOpen(c) ==
    /\ actor[c].at = "opening"
    /\ \/ \E r \in Refs : /\ ref[r] = NoRef
                          /\ ref' = [ref EXCEPT ![r].native = "open", ![r].active = TRUE]
                          /\ actor' = [actor EXCEPT ![c].at = "opened", ![c].ref = r]
       \/ Go(c, "opened") /\ UNCHANGED ref
    /\ UNCHANGED <<s, id, faults, setting>>
FinishOpen(c) ==
    LET r == actor[c].ref
        joined == [s EXCEPT !.opening = @ - 1, !.files = @ \cup ({r} \cap Refs), !.closeRefs = @ \cup ({r} \cap Refs)]
    IN /\ actor[c].at = "opened"
       /\ s' = Done(joined, "data", TRUE) /\ Return(c)
       /\ ref' = IF r \in Refs /\ ~Live
                 THEN [ref EXCEPT ![r].active = FALSE, ![r].retiring = TRUE, ![r].retired = TRUE] ELSE ref
       /\ UNCHANGED <<id, faults, setting>>

\* NewUseOwner: registered in the native order of the reference, then bound to
\* the reference unless that is retiring.
NewUseOwner(c, r) ==
    /\ Calls(c, "Owner") /\ r \in s.files /\ Admits("advisory") /\ ref[r].registered < MaxOwners
    /\ s' = Admitted(s, "advisory", FALSE)
    /\ actor' = [actor EXCEPT ![c].at = "owning", ![c].ref = r]
    /\ UNCHANGED <<ref, id, faults, setting>>
EnterOwner(c) ==
    /\ actor[c].at = "owning" /\ Enter(c, "advisory", "owner")
    /\ UNCHANGED <<id, faults, setting>>
RegisterOwner(c) ==
    LET r == actor[c].ref IN
    /\ actor[c].at = "owner"
    /\ IF Live /\ s.locks = "active" /\ ~ref[r].retired
       THEN ref' = [ref EXCEPT ![r].registered = @ + 1] /\ Go(c, "bind") /\ UNCHANGED s
       ELSE ref' = [ref EXCEPT ![r].ops = @ - 1] /\ s' = Done(s, "advisory", FALSE) /\ Return(c)
    /\ UNCHANGED <<id, faults, setting>>
BindOwner(c) ==
    LET r == actor[c].ref IN
    /\ actor[c].at = "bind"
    /\ ref' = [ref EXCEPT ![r].ops = @ - 1,
                          ![r].registered = IF ref[r].retiring THEN @ - 1 ELSE @,
                          ![r].owners = IF ref[r].retiring THEN @ ELSE @ + 1]
    /\ s' = Done(s, "advisory", FALSE) /\ Return(c)
    /\ UNCHANGED <<id, faults, setting>>
RetireUseOwner(r) ==
    /\ "Owner" \in Offered /\ Admits("cleanup") /\ ref[r].owners > 0
    /\ ref' = [ref EXCEPT ![r].owners = @ - 1, ![r].registered = @ - 1]
    /\ UNCHANGED <<s, id, actor, faults, setting>>

-----------------------------------------------------------------------------
(* runFileAction.                                                           *)

\* A client makes identities in the epoch it was told.
NewFileActionID(i) ==
    /\ {"Action", "CloseAction"} \cap Offered # {}
    /\ i \in Settings[setting].ids /\ Live /\ s.locks = "active" /\ ~id[i].made
    /\ s' = NextEpoch(s)
    /\ id' = [NextIds(id) EXCEPT ![i].made = TRUE]
    /\ UNCHANGED <<ref, actor, faults, setting>>

\* The receipt answers, is waited for, or does not exist.
Lookup(c, i) ==
    IF ~Live \/ i \in CloseIds \/ (Retained(i) /\ id[i].outcome # "pending")
    THEN Return(c)
    ELSE actor' = [actor EXCEPT ![c].at = IF Retained(i) THEN "pending" ELSE "epoch", ![c].id = i]
Act(c, i) ==
    /\ Calls(c, "Action") /\ id[i].made /\ Pruned
    /\ id' = PrunedIds /\ Lookup(c, i)
    /\ UNCHANGED <<s, ref, faults, setting>>
ActAgain(c) ==
    /\ actor[c].at = "pending" /\ id[actor[c].id].outcome # "pending" /\ Pruned
    /\ id' = PrunedIds /\ Lookup(c, actor[c].id)
    /\ UNCHANGED <<s, ref, faults, setting>>
CheckEpoch(c) ==
    /\ actor[c].at = "epoch"
    /\ IF s.locks # "active" THEN Return(c) /\ UNCHANGED <<s, id>>
       ELSE /\ s' = NextEpoch(s) /\ id' = NextIds(id)
            /\ IF NextIds(id)[actor[c].id].old THEN Return(c) ELSE Go(c, "register")
    /\ UNCHANGED <<ref, faults, setting>>
Register(c) ==
    LET i == actor[c].id IN
    /\ actor[c].at = "register" /\ Pruned
    /\ CASE i \in CloseIds -> Return(c) /\ id' = PrunedIds
         [] Retained(i) -> Go(c, "pending") /\ id' = PrunedIds
         [] Cardinality({j \in Ids : Retained(j)}) >= MaxLockActions -> Return(c) /\ id' = PrunedIds
         [] OTHER -> Go(c, "acting") /\ id' = [PrunedIds EXCEPT ![i].outcome = "pending"]
    /\ UNCHANGED <<s, ref, faults, setting>>

\* The call is an operation of its own.  It is not admitted, refused for a cause
\* known to precede any effect, done, or failed with or without effect.
Recorded(i, outcome, executed) ==
    id' = [id EXCEPT ![i].outcome = outcome, ![i].left = History, ![i].executed = @ + executed]
BeginAction(c) ==
    /\ actor[c].at = "acting"
    /\ CASE ~Live -> /\ Recorded(actor[c].id, "notExecuted", 0) /\ s' = Closing(s)
                     /\ actor' = ClosingActor([actor EXCEPT ![c] = Idle])
         [] Admits("data") -> s' = Admitted(s, "data", TRUE) /\ Go(c, "executing") /\ UNCHANGED id
         [] OTHER -> Recorded(actor[c].id, "unknown", 0) /\ Return(c) /\ UNCHANGED s
    /\ UNCHANGED <<ref, faults, setting>>
Execute(c) ==
    /\ actor[c].at = "executing"
    /\ \/ Recorded(actor[c].id, "notExecuted", 0) /\ UNCHANGED faults
       \/ Live /\ Recorded(actor[c].id, "completed", 1) /\ UNCHANGED faults
       \/ /\ faults > 0 /\ faults' = faults - 1
          /\ \E executed \in {0, 1} : (executed = 1 => Live) /\ Recorded(actor[c].id, "unknown", executed)
    /\ s' = Done(s, "data", TRUE) /\ Return(c)
    /\ UNCHANGED <<ref, setting>>

\* QueryFileAction: without a receipt, the epoch of the identity decides.
QueryFileAction(i) ==
    CASE i \in CloseIds -> "close"
      [] Retained(i) -> id[i].outcome
      [] NextIds(id)[i].old -> "retired"
      [] OTHER -> "notExecuted"

-----------------------------------------------------------------------------
(* Closing a reference.                                                     *)

Pending(r, g) == HasReceipt(r, g) /\ Receipts(r)[g].outcome \in {"pending", "unknown"}

RelaunchedUnmarked(r, g) ==
    IF Receipts(r)[g].outcome = "unknown" THEN [ref EXCEPT ![r].run = "retire"] ELSE ref
\* existingLocked: an attempt that ended without knowing is made again.
Relaunched(r, g) ==
    IF Receipts(r)[g].outcome = "unknown"
    THEN [ref EXCEPT ![r].receipts[g].outcome = "pending", ![r].run = "retire"] ELSE ref
\* admitLocked
Launched(r, g, i) ==
    [ref EXCEPT ![r].receipts = [h \in DOMAIN @ \cup {g} |->
                   IF h = g THEN [id |-> i, outcome |-> "pending", left |-> 0] ELSE @[h]],
                ![r].run = "retire"]
MayAdmit(r, g, i) ==
    /\ g = ref[r].next /\ ~ref[r].released /\ Cardinality(DOMAIN Receipts(r)) < 2
    /\ i \in Ids => i \notin CloseIds /\ ~Retained(i) /\ id[i].outcome = "none"

\* status: what a client is told before it makes an identity for a close.
CloseReady(r) ==
    ~ref[r].released /\ ~Pending(r, ref[r].next) /\ Cardinality(DOMAIN Receipts(r)) < 2

\* Waiting for the run of reference r.
Await(c, r) == actor' = [actor EXCEPT ![c].at = "await", ![c].ref = r]

\* CloseWithAction by a client that names the generation and an identity.
CloseWithAction(c, r, i) ==
    LET g == ref[r].next IN
    /\ Calls(c, "CloseAction") /\ r \in s.closeRefs /\ id[i].made /\ Pruned
    /\ IF HasReceipt(r, g)
       THEN Pending(r, g) /\ Receipts(r)[g].id = i /\ ref' = Relaunched(r, g) /\ UNCHANGED <<s, id>>
       ELSE /\ s' = NextEpoch(s) /\ id' = NextIds(id)
            /\ ~NextIds(id)[i].old /\ MayAdmit(r, g, i) /\ ref' = Launched(r, g, i)
    /\ Await(c, r)
    /\ UNCHANGED <<faults, setting>>

\* runImplicit: what c does with reference r once it holds it.  A new attempt
\* takes a fresh identity.
Choose(c, r) ==
    IF ref[r].released THEN actor' = [actor EXCEPT ![c].at = "returned", ![c].ref = r] /\ UNCHANGED <<s, ref, id>>
    ELSE LET g == ref[r].next IN
         IF HasReceipt(r, g) THEN ref' = Relaunched(r, g) /\ Await(c, r) /\ UNCHANGED <<s, id>>
         ELSE /\ s' = NextEpoch(s) /\ id' = NextIds(id)
              /\ actor' = [actor EXCEPT ![c].at = "admit", ![c].ref = r, ![c].generation = g]
              /\ UNCHANGED ref
\* Another attempt may have been admitted in between: then look again.
Admit(c) ==
    LET r == actor[c].ref
        g == actor[c].generation
    IN /\ actor[c].at = "admit" /\ Pruned
       /\ CASE HasReceipt(r, g) /\ actor[c].tries + 1 < MaxTries ->
                 actor' = [actor EXCEPT ![c].at = "choose", ![c].tries = @ + 1] /\ UNCHANGED ref
            [] ~HasReceipt(r, g) /\ MayAdmit(r, g, "own") -> ref' = Launched(r, g, "own") /\ Await(c, r)
            [] OTHER -> actor' = [actor EXCEPT ![c].at = "returned", ![c].ok = FALSE] /\ UNCHANGED ref
       /\ UNCHANGED <<s, id, faults, setting>>
ChooseAgain(c) ==
    /\ actor[c].at = "choose" /\ Choose(c, actor[c].ref)
    /\ UNCHANGED <<faults, setting>>
CloseImplicitly(c, r) ==
    /\ Calls(c, "Close") /\ r \in s.files /\ Choose(c, r)
    /\ UNCHANGED <<faults, setting>>
ReturnClosed(c) ==
    /\ c \in Callers /\ actor[c].at = "returned" /\ Return(c)
    /\ UNCHANGED <<s, ref, id, faults, setting>>

\* performClose, in its own goroutine.
Fails == faults > 0 /\ faults' = faults - 1
RunRetire(r) ==
    /\ ref[r].run = "retire"
    /\ \/ ref' = [ref EXCEPT ![r].active = FALSE, ![r].retiring = TRUE, ![r].retired = TRUE, ![r].run = "drain"]
          /\ UNCHANGED faults
       \/ /\ Fails /\ ~ref[r].retired
          /\ ref' = [ref EXCEPT ![r].active = FALSE, ![r].retiring = TRUE, ![r].run = "settle", ![r].result = "unknown"]
    /\ UNCHANGED <<s, id, actor, setting>>
RunDrain(r) ==
    /\ ref[r].run = "drain" /\ ref[r].ops = 0
    /\ \/ ref' = [ref EXCEPT ![r].run = "native", ![r].registered = @ - ref[r].owners, ![r].owners = 0] /\ UNCHANGED faults
       \/ Fails /\ ref[r].owners > 0 /\ ref' = [ref EXCEPT ![r].run = "settle", ![r].result = "determined"]
    /\ UNCHANGED <<s, id, actor, setting>>
RunNative(r) ==
    /\ ref[r].run = "native"
    /\ \/ /\ ref' = [ref EXCEPT ![r].run = "settle", ![r].result = "released", ![r].native = "closed"]
          /\ s' = [s EXCEPT !.files = @ \ {r}] /\ UNCHANGED faults
       \/ /\ Fails /\ UNCHANGED s
          /\ \E result \in {"determined", "unknown"} :
                ref' = [ref EXCEPT ![r].run = "settle", ![r].result = result]
    /\ UNCHANGED <<id, actor, setting>>
\* launchClose records the result; everybody waiting for the run returns with it.
RunSettle(r) ==
    LET g == ref[r].next
        result == ref[r].result
    IN /\ ref[r].run = "settle"
       /\ ref' = [ref EXCEPT ![r].run = "idle", ![r].released = @ \/ result = "released",
                    ![r].next = IF result = "determined" THEN @ + 1 ELSE @,
                    ![r].receipts[g] = [@ EXCEPT !.left = History,
                                          !.outcome = IF result = "unknown" THEN "unknown" ELSE "completed"]]
       /\ actor' = [c \in Actors |-> IF actor[c].at = "await" /\ actor[c].ref = r
                      THEN [actor[c] EXCEPT !.at = "returned", !.ok = @ /\ result = "released"] ELSE actor[c]]
       /\ UNCHANGED <<s, id, faults, setting>>

\* pruneCloseHistoryLocked begins every section that reads close receipts.
Prune == ~Pruned /\ PruneCloseHistory /\ UNCHANGED <<id, actor, faults, setting>>

-----------------------------------------------------------------------------
(* Closing the session: finishClose.                                        *)

\* locks.Retire refuses new owners and epochs; its fence waits for operations
\* that hold no reference, and only then knows every reference.
FenceBegin ==
    /\ actor[Closer].at = "wait"
    /\ s' = [s EXCEPT !.locks = IF @ = "retired" THEN @ ELSE "fencing"]
    /\ actor' = [actor EXCEPT ![Closer].at = IF s.locks = "retired" THEN "files" ELSE "identity",
                              ![Closer].todo = IF s.locks = "retired" THEN s.files ELSE {}]
    /\ UNCHANGED <<ref, id, faults, setting>>
FenceAtOnce ==
    /\ actor[Closer].at = "identity"
    /\ actor' = [actor EXCEPT ![Closer].at = "fence", ![Closer].todo = s.files]
    /\ UNCHANGED <<s, ref, id, faults, setting>>
FenceWait ==
    /\ actor[Closer].at = "identity" /\ s.identity = 0
    /\ actor' = [actor EXCEPT ![Closer].at = "fence", ![Closer].todo = s.files]
    /\ UNCHANGED <<s, ref, id, faults, setting>>
\* fence retires every reference, waits for what is inside it and retires its
\* owners; one that fails does not stop the others.
FenceRetire(r) ==
    /\ actor[Closer].at = "fence" /\ r \in actor[Closer].todo
    /\ \/ /\ ref' = [ref EXCEPT ![r].active = FALSE, ![r].retiring = TRUE, ![r].retired = TRUE]
          /\ actor' = [actor EXCEPT ![Closer].at = "drain", ![Closer].ref = r] /\ UNCHANGED faults
       \/ /\ Fails /\ ~ref[r].retired
          /\ ref' = [ref EXCEPT ![r].active = FALSE, ![r].retiring = TRUE]
          /\ actor' = [actor EXCEPT ![Closer].todo = @ \ {r}, ![Closer].ok = FALSE]
    /\ UNCHANGED <<s, id, setting>>
FenceDrain ==
    LET r == actor[Closer].ref IN
    /\ actor[Closer].at = "drain" /\ ref[r].ops = 0
    /\ \/ /\ ref' = [ref EXCEPT ![r].registered = @ - ref[r].owners, ![r].owners = 0]
          /\ actor' = [actor EXCEPT ![Closer].at = "fence", ![Closer].todo = @ \ {r}] /\ UNCHANGED faults
       \/ /\ Fails /\ ref[r].owners > 0 /\ UNCHANGED ref
          /\ actor' = [actor EXCEPT ![Closer].at = "fence", ![Closer].todo = @ \ {r}, ![Closer].ok = FALSE]
    /\ UNCHANGED <<s, id, setting>>
FenceEnd ==
    /\ actor[Closer].at = "fence" /\ actor[Closer].todo = {}
    /\ s' = [s EXCEPT !.locks = IF actor[Closer].ok THEN "retired" ELSE "unfenced"]
    /\ actor' = [actor EXCEPT ![Closer].at = "files", ![Closer].todo = s.files]
    /\ UNCHANGED <<ref, id, faults, setting>>
\* The references are closed one by one, whatever became of the fence.
CloseFile(r) ==
    /\ actor[Closer].at = "files" /\ r \in actor[Closer].todo
    /\ Choose(Closer, r)
    /\ UNCHANGED <<faults, setting>>
FileClosed ==
    /\ actor[Closer].at = "returned"
    /\ actor' = [actor EXCEPT ![Closer].at = "files", ![Closer].todo = @ \ {actor[Closer].ref}, ![Closer].tries = 0]
    /\ UNCHANGED <<s, ref, id, faults, setting>>
FinishClose ==
    /\ actor[Closer].at = "files" /\ actor[Closer].todo = {}
    /\ s' = [s EXCEPT !.closing = IF actor[Closer].ok THEN "released" ELSE "failed", !.kept = ~actor[Closer].ok]
    /\ Return(Closer)
    /\ UNCHANGED <<ref, id, faults, setting>>

\* retryReferenceCleanup: a session whose closing failed is closed again, other
\* sessions' references whose close did not release are.
RetryUnstarted ==
    /\ s.kept /\ s.closing = "never"
    /\ s' = Closing(s) /\ actor' = ClosingActor(actor)
    /\ UNCHANGED <<ref, id, faults, setting>>
RetrySession ==
    /\ s.kept /\ s.closing = "failed"
    /\ s' = Closing(s) /\ actor' = ClosingActor(actor)
    /\ UNCHANGED <<ref, id, faults, setting>>
Retryable(r) == ~ref[r].released /\ DOMAIN Receipts(r) # {}
RetryReference(r) ==
    /\ s.kept /\ s.closing # "failed" /\ actor[Sweeper].at = "idle" /\ r \in s.files /\ Retryable(r)
    /\ Choose(Sweeper, r)
    /\ UNCHANGED <<faults, setting>>
SweeperReturns ==
    /\ actor[Sweeper].at = "returned" /\ Return(Sweeper)
    /\ UNCHANGED <<s, ref, id, faults, setting>>

-----------------------------------------------------------------------------
Session == NewFileSession \/ Tick \/ Renew \/ Expire \/ Close \/ CloseFileSessions \/ AdmitRefused \/ Prune
Client(c) ==
    \/ Observe(c) \/ Observed(c) \/ BeginReference(c) \/ Finish(c) \/ BeginOpen(c) \/ NativeOpen(c) \/ FinishOpen(c)
    \/ EnterOwner(c) \/ RegisterOwner(c) \/ BindOwner(c) \/ ActAgain(c) \/ CheckEpoch(c) \/ Register(c) \/ BeginAction(c) \/ Execute(c) \/ ReturnClosed(c)
    \/ \E r \in Refs : Begin(c, r) \/ NewUseOwner(c, r) \/ CloseImplicitly(c, r)
    \/ \E i \in Ids : Act(c, i) \/ \E r \in Refs : CloseWithAction(c, r, i)
Identities == \E i \in Ids : NewFileActionID(i)
Implicit == \E c \in Actors : Admit(c) \/ ChooseAgain(c)
Run(r) == RunRetire(r) \/ RunDrain(r) \/ RunNative(r) \/ RunSettle(r)
Ending == FenceBegin \/ FenceWait \/ FenceDrain \/ FenceEnd \/ FileClosed \/ FinishClose \/ \E r \in Refs : FenceRetire(r) \/ CloseFile(r)
Retry == RetrySession \/ SweeperReturns \/ \E r \in Refs : RetryReference(r) \/ RetireUseOwner(r)

Next == Session \/ Identities \/ Implicit \/ Ending \/ Retry
        \/ (\E c \in Callers : Client(c)) \/ (\E r \in Refs : Run(r))
Spec == Init /\ [][Next]_vars

\* Calls under way go on, goroutines run, the maintenance loop comes back, and
\* time passes.  Nobody has to start anything.
Proceeds(c) == Observed(c) \/ BeginReference(c) \/ Finish(c) \/ NativeOpen(c) \/ FinishOpen(c) \/ EnterOwner(c)
               \/ RegisterOwner(c) \/ BindOwner(c) \/ BeginAction(c) \/ Execute(c)
Fairness ==
    /\ WF_vars(Tick) /\ WF_vars(Prune) /\ WF_vars(RetrySession) /\ WF_vars(SweeperReturns)
    /\ WF_vars(Ending) /\ WF_vars(Admit(Closer) \/ ChooseAgain(Closer))
    /\ WF_vars(Admit(Sweeper) \/ ChooseAgain(Sweeper))
    /\ \A c \in Callers : WF_vars(Proceeds(c)) /\ WF_vars(Admit(c) \/ ChooseAgain(c))
    /\ \A r \in Refs : WF_vars(Run(r))
FairSpec == Spec /\ Fairness

-----------------------------------------------------------------------------
(* Properties.                                                              *)

TypeOK ==
    /\ s.lease \in 0 .. Lease /\ s.epoch \in 0 .. History /\ s.files \subseteq Refs /\ s.closeRefs \subseteq Refs
    /\ s.locks \in {"active", "fencing", "unfenced", "retired"} /\ s.closing \in {"never", "running", "failed", "released"}
    /\ \A k \in Classes : s.used[k] \in 0 .. Limit[k]
    /\ \A r \in Refs : /\ ref[r].ops \in Nat /\ ref[r].owners \in 0 .. ref[r].registered
                       /\ ref[r].native \in {"none", "open", "closed"}
                       /\ ref[r].run \in {"idle", "retire", "drain", "native", "settle"}
    /\ \A i \in Ids : id[i].outcome \in {"none", "pending", "completed", "notExecuted", "unknown"}
    /\ faults \in Nat /\ setting \in DOMAIN Settings

\* Once the advisory session has given up its grants, no operation of the
\* session is under way, every reference it still holds is retired, and no
\* owner bound to a reference is left: not even one that an open, an owner
\* registration or a mutation begun before the session ended would have made.
FencedQuiet ==
    s.locks = "retired" =>
        /\ s.identity = 0 /\ s.opening = 0
        /\ \A r \in Refs : ref[r].native = "open" =>
              r \in s.files /\ ref[r].retired /\ ref[r].ops = 0 /\ ref[r].registered = 0

\* An action identity is executed at most once although it is retried across
\* epochs and its receipt is forgotten, and QueryFileAction tells the truth: it
\* says not executed, which invites a retry, only if there was no effect.  This
\* needs a receipt to outlive the epoch its identity was made in.
AtMostOnce ==
    \A i \in Ids :
        /\ id[i].executed <= 1
        /\ QueryFileAction(i) = "notExecuted" => id[i].executed = 0
        /\ QueryFileAction(i) = "completed" => id[i].executed = 1
        /\ Retained(i) => i \notin CloseIds

\* The receipts of closing stay within what the options reserve, a running
\* close has exactly one receipt that is open, at the next generation, nobody
\* waits for a run that is not there, and a reference reported ready admits an
\* attempt under a new identity.
CloseAccounted ==
    /\ Cardinality(s.files) + s.opening <= MaxFiles
    /\ FoldSet(LAMBDA r, n : n + Cardinality(DOMAIN Receipts(r)), 0, Refs) <= MaxCloseActions - 1
    /\ \A r \in Refs :
          /\ DOMAIN Receipts(r) # {} => r \in s.closeRefs
          /\ {g \in DOMAIN Receipts(r) : Receipts(r)[g].outcome = "pending"} =
                IF ref[r].run = "idle" THEN {} ELSE {ref[r].next}
          /\ CloseReady(r) => ~HasReceipt(r, ref[r].next) /\ MayAdmit(r, ref[r].next, "own")
    /\ \A c \in Actors : actor[c].at = "await" => ref[actor[c].ref].run # "idle"

\* A session that says it is released holds nothing: no native reference is
\* open and no owner is registered.  While it is not, Storage keeps it, so that
\* maintenance can come back to it.
ReleasedMeansClosed ==
    /\ s.closing = "released" => \A r \in Refs : ref[r].native # "open" /\ ref[r].registered = 0
    /\ s.made /\ s.closing # "released" => s.kept

\* A session whose closing has begun is eventually released, through failed
\* fences, failed closes and receipts that fill their two positions.
SessionReleased == (s.closing = "running") ~> (s.closing = "released")
=============================================================================
