------------------------- MODULE ReplicaGateProofs -------------------------
(***************************************************************************)
(* Proofs about ReplicaGate for any finite sets of readers and writers.    *)
(* The four safety properties are inductive together: exclusion rests on   *)
(* the counters, and the counters on the program positions.                *)
(***************************************************************************)
EXTENDS ReplicaGate, FiniteSetTheorems, TLAPS

\* The inductive invariant: the four properties need one another.
IInv == TypeOK /\ CountersExact /\ Exclusion /\ NobodyForgotten

\* Callers are finitely many, so the sets the counters stand for can be counted.
LEMMA SetsFinite ==
  /\ IsFiniteSet(InReaders) /\ IsFiniteSet(Waiting) /\ IsFiniteSet(Pending)
  /\ Cardinality(InReaders) \in Nat /\ Cardinality(Waiting) \in Nat /\ Cardinality(Pending) \in Nat
  <1>1. InReaders \in SUBSET Readers /\ Waiting \in SUBSET Readers /\ Pending \in SUBSET Writers
    BY DEF InReaders, Waiting, Pending
  <1>2. IsFiniteSet(InReaders) /\ IsFiniteSet(Waiting) /\ IsFiniteSet(Pending)
    BY <1>1, CallersFinite, FS_Subset
  <1> QED
    BY <1>2, FS_CardinalityType

\* A zero counter of replicaGate means that nobody is in that position.
LEMMA ZeroMeansNobody ==
  ASSUME CountersExact
  PROVE  /\ activeReaders = 0 <=> InReaders = {}
         /\ waitingReaders = 0 <=> Waiting = {}
         /\ pendingWriters = 0 <=> Pending = {}
  BY SetsFinite, FS_EmptySet DEF CountersExact

\* A new gate (newReplicaGate) satisfies the invariant.
LEMMA InitIInv == Init => IInv
  <1> SUFFICES ASSUME Init PROVE IInv
    OBVIOUS
  <1>1. InReaders = {} /\ Waiting = {} /\ Pending = {} /\ Writing = {}
    BY DEF Init, InReaders, Waiting, Pending, Writing
  <1>2. TypeOK
    BY DEF Init, TypeOK
  <1>3. CountersExact
    BY <1>1, FS_EmptySet DEF Init, CountersExact
  <1> QED
    BY <1>1, <1>2, <1>3 DEF IInv, Init, Exclusion, NobodyForgotten

\* acquireRead, granted at once or queued behind a writer, keeps the invariant.
LEMMA AcquireReadKeeps == ASSUME IInv, NEW r \in Readers, AcquireRead(r) PROVE IInv'
  <1>1. r \notin InReaders /\ r \notin Waiting
    BY DEF AcquireRead, InReaders, Waiting
  <1>2. Pending' = Pending /\ Writing' = Writing
    BY DEF AcquireRead, Pending, Writing
  <1>3. TypeOK'
    BY DEF IInv, TypeOK, AcquireRead, Pending
  <1>4. CASE ~writerActive /\ pendingWriters = 0
    <2>1. InReaders' = InReaders \cup {r} /\ Waiting' = Waiting
      BY <1>4 DEF AcquireRead, InReaders, Waiting, IInv, TypeOK
    <2>2. CountersExact'
      BY <1>1, <1>2, <1>4, <2>1, SetsFinite, FS_AddElement DEF AcquireRead, IInv, CountersExact
    <2> QED
      BY <1>2, <1>3, <1>4, <2>1, <2>2, ZeroMeansNobody
      DEF AcquireRead, IInv, Exclusion, NobodyForgotten, MayWrite, TypeOK, Pending
  <1>5. CASE ~(~writerActive /\ pendingWriters = 0)
    <2>1. InReaders' = InReaders /\ Waiting' = Waiting \cup {r}
      BY <1>5 DEF AcquireRead, InReaders, Waiting, IInv, TypeOK
    <2>2. CountersExact'
      BY <1>1, <1>2, <1>5, <2>1, SetsFinite, FS_AddElement DEF AcquireRead, IInv, CountersExact
    <2> QED
      BY <1>2, <1>3, <1>5, <2>1, <2>2, ZeroMeansNobody
      DEF AcquireRead, IInv, Exclusion, NobodyForgotten, MayWrite
  <1> QED
    BY <1>4, <1>5

\* A reader of a granted batch that wakes up in acquireRead keeps the invariant.
LEMMA ReaderResumesKeeps == ASSUME IInv, NEW r \in Readers, ReaderResumes(r) PROVE IInv'
  <1>1. InReaders' = InReaders /\ Waiting' = Waiting /\ Pending' = Pending /\ Writing' = Writing
    BY DEF ReaderResumes, InReaders, Waiting, Pending, Writing, IInv, TypeOK
  <1>2. TypeOK'
    BY DEF IInv, TypeOK, ReaderResumes, Pending, counts
  <1> QED
    BY <1>1, <1>2 DEF IInv, CountersExact, Exclusion, NobodyForgotten, MayWrite, ReaderResumes, counts

\* What every release of an active reader does.
LEMMA LeaveKeeps ==
  ASSUME IInv, NEW r \in Readers, r \in InReaders, Leave(r),
         UNCHANGED <<writerActive, pendingWriters>>, cancelled' = cancelled \ {r}
  PROVE  IInv'
  <1>1. InReaders' = InReaders \ {r} /\ Waiting' = Waiting
    BY DEF Leave, InReaders, Waiting, IInv, TypeOK
  <1>2. Pending' = Pending /\ Writing' = Writing
    BY DEF Leave, Notified, Pending, Writing, IInv, TypeOK
  <1>3. CountersExact'
    BY <1>1, <1>2, SetsFinite, FS_RemoveElement DEF Leave, IInv, CountersExact
  <1>4. activeReaders' \in Nat
    <2>1. IsFiniteSet(InReaders')
      BY <1>1, SetsFinite, FS_RemoveElement
    <2> QED
      BY <1>3, <2>1, FS_CardinalityType DEF CountersExact
  <1>5. rpc' \in [Readers -> {"idle", "waiting", "granted", "reading"}]
    BY DEF Leave, IInv, TypeOK
  <1>6. wpc' \in [Writers -> {"idle", "sleeping", "woken", "writing"}]
    BY DEF Leave, Notified, IInv, TypeOK
  <1>7. cancelled' \subseteq {q \in Readers : rpc'[q] \in {"waiting", "granted"}} \cup Pending'
    BY <1>2, CallersDistinct DEF Leave, IInv, TypeOK
  <1>8. TypeOK'
    BY <1>4, <1>5, <1>6, <1>7 DEF IInv, TypeOK, Leave
  <1>9. Exclusion'
    BY <1>1, <1>2 DEF IInv, Exclusion
  <1>10. NobodyForgotten'
    BY <1>1, <1>2 DEF IInv, NobodyForgotten, MayWrite, Leave, Notified, TypeOK
  <1> QED
    BY <1>3, <1>8, <1>9, <1>10 DEF IInv

\* releaseRead keeps the invariant.
LEMMA ReleaseReadKeeps == ASSUME IInv, NEW r \in Readers, ReleaseRead(r) PROVE IInv'
  <1>1. r \in InReaders
    BY DEF ReleaseRead, InReaders
  <1>2. cancelled = cancelled \ {r}
    BY CallersDistinct DEF ReleaseRead, IInv, TypeOK, Pending
  <1> QED
    BY <1>1, <1>2, LeaveKeeps DEF ReleaseRead

\* A reader whose context ended while it waited, granted meanwhile or not, keeps the invariant.
LEMMA ReaderGivesUpKeeps == ASSUME IInv, NEW r \in Readers, ReaderGivesUp(r) PROVE IInv'
  <1>1. CASE rpc[r] = "waiting"
    <2>1. r \in Waiting /\ Waiting' = Waiting \ {r} /\ InReaders' = InReaders
      BY <1>1 DEF ReaderGivesUp, Waiting, InReaders, IInv, TypeOK
    <2>2. Pending' = Pending /\ Writing' = Writing
      BY <1>1 DEF ReaderGivesUp, Pending, Writing
    <2>3. CountersExact'
      BY <1>1, <2>1, <2>2, SetsFinite, FS_RemoveElement DEF ReaderGivesUp, IInv, CountersExact
    <2>4. waitingReaders' \in Nat
      <3>1. IsFiniteSet(Waiting')
        BY <2>1, SetsFinite, FS_RemoveElement
      <3> QED
        BY <2>3, <3>1, FS_CardinalityType DEF CountersExact
    <2>5. rpc' \in [Readers -> {"idle", "waiting", "granted", "reading"}]
      BY <1>1 DEF ReaderGivesUp, IInv, TypeOK
    <2>6. cancelled' \subseteq {q \in Readers : rpc'[q] \in {"waiting", "granted"}} \cup Pending'
      BY <1>1, <2>2 DEF ReaderGivesUp, IInv, TypeOK
    <2>7. TypeOK'
      BY <1>1, <2>4, <2>5, <2>6 DEF ReaderGivesUp, IInv, TypeOK
    <2> QED
      BY <1>1, <2>1, <2>2, <2>3, <2>7
      DEF ReaderGivesUp, IInv, Exclusion, NobodyForgotten, MayWrite
  <1>2. CASE rpc[r] = "granted"
    BY <1>2, LeaveKeeps DEF ReaderGivesUp, InReaders
  <1> QED
    BY <1>1, <1>2 DEF ReaderGivesUp

\* The reader batch moves in: what GrantReaders does to the sets and counters.
LEMMA GrantReadersMoves ==
  ASSUME IInv, NEW grant \in BOOLEAN, GrantReaders(grant)
  PROVE  /\ grant => InReaders' = InReaders \cup Waiting /\ Waiting' = {}
         /\ ~grant => InReaders' = InReaders /\ Waiting' = Waiting
         /\ activeReaders' = Cardinality(InReaders') /\ waitingReaders' = Cardinality(Waiting')
         /\ activeReaders' \in Nat /\ waitingReaders' \in Nat
         /\ rpc' \in [Readers -> {"idle", "waiting", "granted", "reading"}]
         /\ \A q \in Readers : rpc[q] \in {"waiting", "granted"} => rpc'[q] \in {"waiting", "granted"}
  <1>1. CASE grant
    <2>1. rpc' \in [Readers -> {"idle", "waiting", "granted", "reading"}]
      BY <1>1 DEF GrantReaders, IInv, TypeOK
    <2>2. InReaders' = InReaders \cup Waiting /\ Waiting' = {} /\ InReaders \cap Waiting = {}
      BY <1>1 DEF GrantReaders, InReaders, Waiting
    <2>3. activeReaders' = Cardinality(InReaders')
      <3>1. Cardinality(InReaders \cup Waiting) = Cardinality(InReaders) + Cardinality(Waiting) - 0
        BY <2>2, SetsFinite, FS_Union, FS_EmptySet
      <3>2. activeReaders' = Cardinality(InReaders) + Cardinality(Waiting)
        BY <1>1 DEF GrantReaders, IInv, CountersExact
      <3> QED
        BY <2>2, <3>1, <3>2, SetsFinite
    <2>4. waitingReaders' = Cardinality(Waiting')
      BY <1>1, <2>2, FS_EmptySet DEF GrantReaders
    <2> QED
      BY <1>1, <2>1, <2>2, <2>3, <2>4 DEF GrantReaders, IInv, TypeOK
  <1>2. CASE ~grant
    BY <1>2 DEF GrantReaders, InReaders, Waiting, IInv, TypeOK, CountersExact
  <1> QED
    BY <1>1, <1>2

\* acquireWrite, granted at once or counted as pending, keeps the invariant.
LEMMA AcquireWriteKeeps == ASSUME IInv, NEW w \in Writers, AcquireWrite(w) PROVE IInv'
  <1>1. InReaders' = InReaders /\ Waiting' = Waiting
    BY DEF AcquireWrite, InReaders, Waiting
  <1>2. w \notin Pending /\ w \notin Writing
    BY DEF AcquireWrite, Pending, Writing
  <1>3. TypeOK'
    <2>1. wpc' \in [Writers -> {"idle", "sleeping", "woken", "writing"}]
      BY DEF IInv, TypeOK, AcquireWrite
    <2>2. Pending \subseteq Pending'
      BY DEF IInv, TypeOK, AcquireWrite, Pending
    <2>3. cancelled' \subseteq {q \in Readers : rpc'[q] \in {"waiting", "granted"}} \cup Pending'
      BY <2>2 DEF IInv, TypeOK, AcquireWrite
    <2>4. pendingWriters' \in Nat
      <3>1. pendingWriters' = pendingWriters \/ pendingWriters' = pendingWriters + 1
        BY DEF AcquireWrite
      <3> QED
        BY <3>1 DEF IInv, TypeOK
    <2>5. writerActive' \in BOOLEAN
      BY DEF IInv, TypeOK, AcquireWrite
    <2> QED
      BY <2>1, <2>3, <2>4, <2>5 DEF IInv, TypeOK, AcquireWrite
  <1>4. CASE MayWrite
    <2>1. Pending' = Pending /\ Writing' = Writing \cup {w}
      BY <1>4 DEF AcquireWrite, Pending, Writing, IInv, TypeOK
    <2>2. CountersExact'
      BY <1>1, <1>4, <2>1 DEF AcquireWrite, IInv, CountersExact
    <2>3. Exclusion'
      BY <1>1, <1>4, <2>1, ZeroMeansNobody DEF AcquireWrite, IInv, CountersExact, Exclusion, MayWrite
    <2>4. NobodyForgotten'
      BY <1>1, <1>4, <2>1 DEF AcquireWrite, IInv, NobodyForgotten, MayWrite
    <2> QED
      BY <1>3, <2>2, <2>3, <2>4 DEF IInv
  <1>5. CASE ~MayWrite
    <2>1. Pending' = Pending \cup {w} /\ Writing' = Writing
      BY <1>5 DEF AcquireWrite, Pending, Writing, IInv, TypeOK
    <2>2. CountersExact'
      BY <1>1, <1>2, <1>5, <2>1, SetsFinite, FS_AddElement DEF AcquireWrite, IInv, CountersExact
    <2>3. Exclusion' /\ NobodyForgotten'
      BY <1>1, <1>5, <2>1 DEF AcquireWrite, IInv, Exclusion, NobodyForgotten, MayWrite
    <2> QED
      BY <1>3, <2>2, <2>3 DEF IInv
  <1> QED
    BY <1>4, <1>5

\* acquireWrite that finds its context ended keeps the invariant.
LEMMA AcquireWriteTooLateKeeps ==
  ASSUME IInv, NEW w \in Writers, AcquireWriteTooLate(w) PROVE IInv'
  <1> DEFINE grant == ~writerActive /\ pendingWriters = 0
  <1>1. grant \in BOOLEAN /\ GrantReaders(grant)
    BY DEF AcquireWriteTooLate
  <1>2. wpc' \in [Writers -> {"idle", "sleeping", "woken", "writing"}]
        /\ Pending' = Pending /\ Writing' = Writing /\ \A v \in Writers : wpc'[v] # "sleeping"
    BY DEF AcquireWriteTooLate, Notified, IInv, TypeOK, Pending, Writing
  <1>3. TypeOK'
    BY <1>1, <1>2, GrantReadersMoves DEF AcquireWriteTooLate, IInv, TypeOK
  <1>4. CountersExact'
    BY <1>1, <1>2, GrantReadersMoves DEF AcquireWriteTooLate, IInv, CountersExact
  <1>5. Exclusion' /\ NobodyForgotten'
    BY <1>1, <1>2, GrantReadersMoves DEF AcquireWriteTooLate, IInv, Exclusion, NobodyForgotten
  <1> QED
    BY <1>3, <1>4, <1>5 DEF IInv

\* A pending writer that looks again after a notification keeps the invariant.
LEMMA WriterWakesKeeps == ASSUME IInv, NEW w \in Writers, WriterWakes(w) PROVE IInv'
  <1>1. InReaders' = InReaders /\ Waiting' = Waiting /\ w \in Pending
    BY DEF WriterWakes, InReaders, Waiting, Pending
  <1>2. CASE MayWrite
    <2>1. Pending' = Pending \ {w} /\ Writing' = Writing \cup {w}
      BY <1>2 DEF WriterWakes, Pending, Writing, IInv, TypeOK
    <2>2. IsFiniteSet(Pending') /\ pendingWriters' = Cardinality(Pending')
      BY <1>1, <1>2, <2>1, SetsFinite, FS_RemoveElement DEF WriterWakes, IInv, CountersExact
    <2>3. pendingWriters' \in Nat
      BY <2>2, FS_CardinalityType
    <2>4. TypeOK'
      BY <1>2, <2>1, <2>3 DEF WriterWakes, IInv, TypeOK
    <2>5. CountersExact'
      BY <1>1, <1>2, <2>1, <2>2 DEF WriterWakes, IInv, CountersExact
    <2>6. Exclusion'
      BY <1>1, <1>2, <2>1, ZeroMeansNobody DEF WriterWakes, IInv, CountersExact, Exclusion, MayWrite
    <2>7. NobodyForgotten'
      BY <1>2 DEF WriterWakes, NobodyForgotten, MayWrite
    <2> QED
      BY <2>4, <2>5, <2>6, <2>7 DEF IInv
  <1>3. CASE ~MayWrite
    <2>1. Pending' = Pending /\ Writing' = Writing
      BY <1>3 DEF WriterWakes, Pending, Writing, IInv, TypeOK
    <2>2. TypeOK'
      BY <1>3, <2>1 DEF WriterWakes, IInv, TypeOK
    <2> QED
      BY <1>1, <1>3, <2>1, <2>2
      DEF WriterWakes, IInv, CountersExact, Exclusion, NobodyForgotten, MayWrite
  <1> QED
    BY <1>2, <1>3

\* A pending writer whose context ended, and which lets the waiting readers in, keeps the invariant.
LEMMA WriterGivesUpKeeps == ASSUME IInv, NEW w \in Writers, WriterGivesUp(w) PROVE IInv'
  <1> DEFINE grant == ~writerActive /\ pendingWriters' = 0
  <1>1. grant \in BOOLEAN /\ GrantReaders(grant)
    BY DEF WriterGivesUp
  <1>2. /\ w \in Pending /\ Pending' = Pending \ {w} /\ Writing' = Writing
        /\ wpc' \in [Writers -> {"idle", "sleeping", "woken", "writing"}]
        /\ \A v \in Writers : wpc'[v] # "sleeping"
    BY DEF WriterGivesUp, Notified, IInv, TypeOK, Pending, Writing
  <1>3. IsFiniteSet(Pending') /\ pendingWriters' = Cardinality(Pending')
    BY <1>2, SetsFinite, FS_RemoveElement DEF WriterGivesUp, IInv, CountersExact
  <1>4. pendingWriters' \in Nat /\ (pendingWriters' = 0 <=> Pending' = {})
    BY <1>3, FS_CardinalityType, FS_EmptySet
  <1>5. cancelled' \subseteq {q \in Readers : rpc'[q] \in {"waiting", "granted"}} \cup Pending'
    BY <1>1, <1>2, GrantReadersMoves DEF WriterGivesUp, IInv, TypeOK
  <1>6. TypeOK'
    BY <1>1, <1>2, <1>4, <1>5, GrantReadersMoves DEF WriterGivesUp, IInv, TypeOK
  <1>7. CountersExact'
    BY <1>1, <1>2, <1>3, GrantReadersMoves DEF WriterGivesUp, IInv, CountersExact
  <1>8. Exclusion' /\ NobodyForgotten'
    BY <1>1, <1>2, <1>4, GrantReadersMoves DEF WriterGivesUp, IInv, Exclusion, NobodyForgotten
  <1> QED
    BY <1>6, <1>7, <1>8 DEF IInv

\* releaseWrite, which admits the batch of waiting readers, keeps the invariant.
LEMMA ReleaseWriteKeeps == ASSUME IInv, NEW w \in Writers, ReleaseWrite(w) PROVE IInv'
  <1>1. GrantReaders(TRUE)
    BY DEF ReleaseWrite
  <1>2. /\ Pending' = Pending /\ Writing' = {}
        /\ wpc' \in [Writers -> {"idle", "sleeping", "woken", "writing"}]
        /\ \A v \in Writers : wpc'[v] # "sleeping"
    BY DEF ReleaseWrite, Notified, IInv, TypeOK, Exclusion, Pending, Writing
  <1>3. TypeOK'
    BY <1>1, <1>2, GrantReadersMoves DEF ReleaseWrite, IInv, TypeOK
  <1>4. CountersExact'
    BY <1>1, <1>2, GrantReadersMoves DEF ReleaseWrite, IInv, CountersExact
  <1>5. Exclusion' /\ NobodyForgotten'
    BY <1>1, <1>2, GrantReadersMoves DEF ReleaseWrite, Exclusion, NobodyForgotten
  <1> QED
    BY <1>3, <1>4, <1>5 DEF IInv

\* The end of a context alone changes nothing the invariant speaks of.
LEMMA ContextEndsKeeps == ASSUME IInv, ContextEnds PROVE IInv'
  <1>1. InReaders' = InReaders /\ Waiting' = Waiting /\ Pending' = Pending /\ Writing' = Writing
    BY DEF ContextEnds, InReaders, Waiting, Pending, Writing
  <1>2. TypeOK'
    BY <1>1 DEF ContextEnds, IInv, TypeOK, counts, Pending
  <1> QED
    BY <1>1, <1>2 DEF ContextEnds, counts, IInv, CountersExact, Exclusion, NobodyForgotten, MayWrite

\* Every step of the gate keeps the invariant.
LEMMA NextKeeps == ASSUME IInv, [Next]_vars PROVE IInv'
  <1>1. CASE Next
    BY <1>1, AcquireReadKeeps, ReaderResumesKeeps, ReaderGivesUpKeeps, ReleaseReadKeeps,
       AcquireWriteKeeps, AcquireWriteTooLateKeeps, WriterWakesKeeps, WriterGivesUpKeeps,
       ReleaseWriteKeeps, ContextEndsKeeps DEF Next, ReaderSteps, WriterSteps
  <1>2. CASE UNCHANGED vars
    <2>1. UNCHANGED <<counts, rpc, wpc, cancelled>>
      BY <1>2 DEF vars
    <2>2. InReaders' = InReaders /\ Waiting' = Waiting /\ Pending' = Pending /\ Writing' = Writing
      BY <2>1 DEF InReaders, Waiting, Pending, Writing
    <2>3. TypeOK'
      BY <2>1, <2>2 DEF IInv, TypeOK, counts
    <2>4. CountersExact'
      BY <2>1, <2>2 DEF IInv, CountersExact, counts
    <2>5. Exclusion'
      BY <2>1, <2>2 DEF IInv, Exclusion, counts
    <2>6. NobodyForgotten'
      BY <2>1, <2>2 DEF IInv, NobodyForgotten, MayWrite, counts
    <2> QED
      BY <2>3, <2>4, <2>5, <2>6 DEF IInv
  <1> QED
    BY <1>1, <1>2

\* The inductive invariant holds in every reachable state of the gate.
THEOREM IInvInvariant == Spec => []IInv
  <1>1. IInv /\ [Next]_vars => IInv'
    BY NextKeeps
  <1> QED
    BY <1>1, InitIInv, PTL DEF Spec

\* Apply and Reseed have the replica to themselves, and a writer never
\* overtakes a batch of readers it let in.
THEOREM GateExcludes == Spec => []Exclusion
  BY IInvInvariant, PTL DEF IInv

\* The counters account for every caller, whoever gave up when.
THEOREM GateCountsExactly == Spec => []CountersExact
  BY IInvInvariant, PTL DEF IInv

\* No caller is left waiting on a gate that is free.
THEOREM GateForgetsNobody == Spec => []NobodyForgotten
  BY IInvInvariant, PTL DEF IInv
============================================================================
