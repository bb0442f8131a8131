---------------------------- MODULE ReplicaGate ----------------------------
(***************************************************************************)
(* The admission gate of a local metadata replica (replica_gate.go): many  *)
(* readers or one writer; a writer that waits holds new readers back, and  *)
(* a writer that leaves lets the whole batch of waiting readers in first.  *)
(*                                                                         *)
(* One step is one section under g.mu. A reader that waits on the current  *)
(* batch channel is "waiting"; closing the channel makes it "granted": it  *)
(* counts as active before its goroutine resumes. A writer waits on the    *)
(* channel `changed`, "sleeping" until that is closed, "woken" after.      *)
(* cancelled holds the callers whose context ended during the call.        *)
(***************************************************************************)
EXTENDS Integers, FiniteSets

CONSTANTS Readers, Writers

ASSUME CallersFinite == IsFiniteSet(Readers) /\ IsFiniteSet(Writers)
ASSUME CallersDistinct == Readers \cap Writers = {}

VARIABLES activeReaders, writerActive, pendingWriters, waitingReaders, rpc, wpc, cancelled

counts == <<activeReaders, writerActive, pendingWriters, waitingReaders>>
vars == <<counts, rpc, wpc, cancelled>>

Init ==
  /\ activeReaders = 0 /\ waitingReaders = 0 /\ pendingWriters = 0
  /\ writerActive = FALSE
  /\ rpc = [r \in Readers |-> "idle"]
  /\ wpc = [w \in Writers |-> "idle"]
  /\ cancelled = {}

\* grantReadersLocked, if `grant` holds.
GrantReaders(grant) ==
  IF grant
  THEN /\ activeReaders' = activeReaders + waitingReaders
       /\ waitingReaders' = 0
       /\ rpc' = [r \in Readers |-> IF rpc[r] = "waiting" THEN "granted" ELSE rpc[r]]
  ELSE UNCHANGED <<activeReaders, waitingReaders, rpc>>

\* notifyLocked on the writers' program positions.
Notified(positions) ==
  [w \in Writers |-> IF positions[w] = "sleeping" THEN "woken" ELSE positions[w]]

\* Mutant: readers do not stand back for a writer that waits.
AcquireReadBarges(r) ==
  /\ rpc[r] = "idle"
  /\ IF ~writerActive
     THEN /\ activeReaders' = activeReaders + 1
          /\ rpc' = [rpc EXCEPT ![r] = "reading"]
          /\ UNCHANGED waitingReaders
     ELSE /\ waitingReaders' = waitingReaders + 1
          /\ rpc' = [rpc EXCEPT ![r] = "waiting"]
          /\ UNCHANGED activeReaders
  /\ UNCHANGED <<writerActive, pendingWriters, wpc, cancelled>>

AcquireRead(r) ==
  /\ rpc[r] = "idle"
  /\ IF ~writerActive /\ pendingWriters = 0
     THEN /\ activeReaders' = activeReaders + 1
          /\ rpc' = [rpc EXCEPT ![r] = "reading"]
          /\ UNCHANGED waitingReaders
     ELSE /\ waitingReaders' = waitingReaders + 1
          /\ rpc' = [rpc EXCEPT ![r] = "waiting"]
          /\ UNCHANGED activeReaders
  /\ UNCHANGED <<writerActive, pendingWriters, wpc, cancelled>>

\* The select returns because the batch was released.
ReaderResumes(r) ==
  /\ rpc[r] = "granted" /\ r \notin cancelled
  /\ rpc' = [rpc EXCEPT ![r] = "reading"]
  /\ UNCHANGED <<counts, wpc, cancelled>>

\* releaseReadLocked
Leave(r) ==
  /\ activeReaders' = activeReaders - 1
  /\ rpc' = [rpc EXCEPT ![r] = "idle"]
  /\ wpc' = IF activeReaders' = 0 THEN Notified(wpc) ELSE wpc
  /\ UNCHANGED waitingReaders

\* Mutant of ReaderGivesUp: it always gives back a grant.
ReaderGivesBack(r) ==
  /\ r \in cancelled
  /\ rpc[r] \in {"waiting", "granted"}
  /\ Leave(r)
  /\ cancelled' = cancelled \ {r}
  /\ UNCHANGED <<writerActive, pendingWriters>>

\* The context ended: leave the batch that is still waiting, or give back
\* the grant of a batch that was already released.
ReaderGivesUp(r) ==
  /\ r \in cancelled
  /\ \/ /\ rpc[r] = "waiting"
        /\ waitingReaders' = waitingReaders - 1
        /\ rpc' = [rpc EXCEPT ![r] = "idle"]
        /\ UNCHANGED <<activeReaders, wpc>>
     \/ rpc[r] = "granted" /\ Leave(r)
  /\ cancelled' = cancelled \ {r}
  /\ UNCHANGED <<writerActive, pendingWriters>>

ReleaseRead(r) ==
  /\ rpc[r] = "reading"
  /\ Leave(r)
  /\ UNCHANGED <<writerActive, pendingWriters, cancelled>>

\* Mutant of MayWrite: a granted reader that has not resumed does not count.
MayOvertake == ~writerActive /\ \A r \in Readers : rpc[r] # "reading"

MayWrite == ~writerActive /\ activeReaders = 0

\* acquireWrite, first round: pendingWriters is raised and lowered again under
\* one lock when the gate is free.
AcquireWrite(w) ==
  /\ wpc[w] = "idle"
  /\ IF MayWrite
     THEN /\ writerActive' = TRUE
          /\ wpc' = [wpc EXCEPT ![w] = "writing"]
          /\ UNCHANGED pendingWriters
     ELSE /\ pendingWriters' = pendingWriters + 1
          /\ wpc' = [wpc EXCEPT ![w] = "sleeping"]
          /\ UNCHANGED writerActive
  /\ UNCHANGED <<activeReaders, waitingReaders, rpc, cancelled>>

\* acquireWrite with a context that had ended already: a notification only.
AcquireWriteTooLate(w) ==
  /\ wpc[w] = "idle"
  /\ GrantReaders(~writerActive /\ pendingWriters = 0)
  /\ wpc' = Notified(wpc)
  /\ UNCHANGED <<writerActive, pendingWriters, cancelled>>

\* A later round of the loop.
WriterWakes(w) ==
  /\ wpc[w] = "woken" /\ w \notin cancelled
  /\ IF MayWrite
     THEN /\ writerActive' = TRUE
          /\ pendingWriters' = pendingWriters - 1
          /\ wpc' = [wpc EXCEPT ![w] = "writing"]
     ELSE /\ wpc' = [wpc EXCEPT ![w] = "sleeping"]
          /\ UNCHANGED <<writerActive, pendingWriters>>
  /\ UNCHANGED <<activeReaders, waitingReaders, rpc, cancelled>>

\* Mutants of WriterGivesUp: it stays counted, or forgets the readers that
\* waited for it.
WriterStaysCounted(w) ==
  /\ wpc[w] \in {"sleeping", "woken"} /\ w \in cancelled
  /\ wpc' = Notified([wpc EXCEPT ![w] = "idle"])
  /\ cancelled' = cancelled \ {w}
  /\ UNCHANGED <<counts, rpc>>

WriterForgetsReaders(w) ==
  /\ wpc[w] \in {"sleeping", "woken"} /\ w \in cancelled
  /\ pendingWriters' = pendingWriters - 1
  /\ wpc' = Notified([wpc EXCEPT ![w] = "idle"])
  /\ cancelled' = cancelled \ {w}
  /\ UNCHANGED <<activeReaders, waitingReaders, rpc, writerActive>>

WriterGivesUp(w) ==
  /\ wpc[w] \in {"sleeping", "woken"} /\ w \in cancelled
  /\ pendingWriters' = pendingWriters - 1
  /\ GrantReaders(~writerActive /\ pendingWriters' = 0)
  /\ wpc' = Notified([wpc EXCEPT ![w] = "idle"])
  /\ cancelled' = cancelled \ {w}
  /\ UNCHANGED writerActive

\* Mutant: writers that wait go before the batch of readers.
ReleaseWriteOnly(w) ==
  /\ wpc[w] = "writing"
  /\ writerActive' = FALSE
  /\ GrantReaders(pendingWriters = 0)
  /\ wpc' = Notified([wpc EXCEPT ![w] = "idle"])
  /\ UNCHANGED <<pendingWriters, cancelled>>

ReleaseWrite(w) ==
  /\ wpc[w] = "writing"
  /\ writerActive' = FALSE
  /\ GrantReaders(TRUE)
  /\ wpc' = Notified([wpc EXCEPT ![w] = "idle"])
  /\ UNCHANGED <<pendingWriters, cancelled>>

\* The caller's context ends while it waits.
ContextEnds ==
  \E c \in {r \in Readers : rpc[r] \in {"waiting", "granted"}}
           \cup {w \in Writers : wpc[w] \in {"sleeping", "woken"}} :
    /\ c \notin cancelled
    /\ cancelled' = cancelled \cup {c}
    /\ UNCHANGED <<counts, rpc, wpc>>

\* What a caller does without being asked: resume, give up, and leave.
ReaderSteps(r) == ReaderResumes(r) \/ ReaderGivesUp(r) \/ ReleaseRead(r)
WriterSteps(w) == WriterWakes(w) \/ WriterGivesUp(w) \/ ReleaseWrite(w)

Next ==
  \/ \E r \in Readers : AcquireRead(r) \/ ReaderSteps(r)
  \/ \E w \in Writers : AcquireWrite(w) \/ AcquireWriteTooLate(w) \/ WriterSteps(w)
  \/ ContextEnds

Spec == Init /\ [][Next]_vars

\* A goroutine that can run, runs, and a reader or writer inside leaves in the
\* end (every acquire is paired with a deferred release).
FairSpec ==
  /\ Spec
  /\ \A r \in Readers : WF_vars(ReaderSteps(r))
  /\ \A w \in Writers : WF_vars(WriterSteps(w))

----------------------------------------------------------------------------
\* Properties.

InReaders == {r \in Readers : rpc[r] \in {"granted", "reading"}}
Waiting == {r \in Readers : rpc[r] = "waiting"}
Pending == {w \in Writers : wpc[w] \in {"sleeping", "woken"}}
Writing == {w \in Writers : wpc[w] = "writing"}

\* The types of the counters and positions; only waiting callers are cancelled.
TypeOK ==
  /\ activeReaders \in Nat /\ waitingReaders \in Nat /\ pendingWriters \in Nat
  /\ writerActive \in BOOLEAN
  /\ rpc \in [Readers -> {"idle", "waiting", "granted", "reading"}]
  /\ wpc \in [Writers -> {"idle", "sleeping", "woken", "writing"}]
  /\ cancelled \subseteq {r \in Readers : rpc[r] \in {"waiting", "granted"}} \cup Pending

\* Apply and Reseed are alone: no two writers, and no reader inside or already
\* granted while a writer is active, so a queued writer cannot overtake a batch.
Exclusion ==
  /\ writerActive => InReaders = {}
  /\ \A v, w \in Writing : v = w

\* The four counters say exactly who is where, cancellations included.
CountersExact ==
  /\ activeReaders = Cardinality(InReaders)
  /\ waitingReaders = Cardinality(Waiting)
  /\ pendingWriters = Cardinality(Pending)
  /\ writerActive = (Writing # {})

\* Nobody sleeps on a gate that is free: a waiting reader has a writer to wait
\* for, and a writer that missed its notification has someone who will notify.
NobodyForgotten ==
  /\ Waiting # {} => writerActive \/ Pending # {}
  /\ (\E w \in Writers : wpc[w] = "sleeping") => ~MayWrite

\* Readers are not starved by writers: the wait of a reader ends.
ReadersServed == \A r \in Readers : rpc[r] = "waiting" ~> rpc[r] # "waiting"

\* Writers make progress: as long as writers wait, one of them gets in or
\* gives up, however many readers keep arriving.
WritersProgress == \A w \in Writers : (wpc[w] = "sleeping") ~> (Writing # {} \/ wpc[w] = "idle")
============================================================================
