------------------------ MODULE LeaseRecoveryProofs ------------------------
(***************************************************************************)
(* Proofs about LeaseRecovery, for every set of durations and every        *)
(* generation bound. IInv is the inductive invariant; one lemma per action *)
(* shows that the action keeps it, conjunct by conjunct.                   *)
(***************************************************************************)
EXTENDS LeaseRecovery, TLAPS

\* A directory nobody has initialised satisfies the invariant.
LEMMA InitIInv == Init => IInv
  <1> SUFFICES ASSUME Init PROVE IInv
    OBVIOUS
  <1>1. TypeOK
    BY DEF Init, TypeOK, Anchors, Evidence, Absent, NoIntent, Labels, Refusals
  <1>2. Identities
    BY DEF Init, Identities, NoIntent
  <1>3. Witnessed
    BY DEF Init, Witnessed, NoIntent
  <1>4. AtLabel
    BY DEF Init, AtLabel, AtOpening, AtAdvance, AtServing, Opened, Settled, InRaise
  <1>5. PromiseCovered
    BY DEF Init, PromiseCovered, Recorded, Absent
  <1> QED
    BY <1>1, <1>2, <1>3, <1>4, <1>5 DEF IInv, Init, EvidenceNeverContradicts

\* openAnchor reading the intent and the binding keeps the invariant.
LEMMA OpenAnchorKeeps ==
  ASSUME IInv, NEW initialize \in BOOLEAN, OpenAnchor(initialize) PROVE IInv'
  <1>1. TypeOK'
    <2>1. issued' \in Nat /\ cache.intent \in [id : Nat, ready : BOOLEAN]
      BY DEF IInv, TypeOK, OpenAnchor, Anchors
    <2>2. /\ intent' \in [id : Nat, ready : BOOLEAN]
          /\ cache' = cache \/ cache' = [cache EXCEPT !.intent = intent']
      <3>1. CASE /\ intent' = [id |-> issued', ready |-> FALSE]
                 /\ cache' = [cache EXCEPT !.intent = intent']
        BY <2>1, <3>1
      <3>2. CASE intent' = cache.intent /\ UNCHANGED cache
        BY <2>1, <3>2
      <3> QED
        BY <3>1, <3>2 DEF OpenAnchor
    <2>3. cache' \in Anchors
      BY <2>2 DEF IInv, TypeOK, Anchors
    <2> QED
      BY <2>1, <2>2, <2>3 DEF IInv, TypeOK, OpenAnchor, Absent, Evidence, Labels, Refusals
  <1>2. Identities'
    BY DEF IInv, TypeOK, OpenAnchor, NoIntent, Identities, Anchors
  <1>3. Witnessed'
    BY DEF IInv, TypeOK, OpenAnchor, Witnessed, Anchors
  <1>4. AtLabel'
    BY DEF IInv, TypeOK, OpenAnchor, NoIntent, AtLabel, AtOpening, AtAdvance, AtServing, Opened,
       Settled, Anchors, InRaise
  <1>5. PromiseCovered'
    BY DEF IInv, OpenAnchor, PromiseCovered, Recorded, Serving, InRaise
  <1>6. EvidenceNeverContradicts' /\ (cache.intent.ready => refused = "no")'
    BY DEF IInv, TypeOK, OpenAnchor, NoIntent, Absent, opening, EvidenceNeverContradicts,
       Identities, Witnessed, AtLabel, AtOpening, AtAdvance, AtServing, Opened, Settled, Anchors,
       Evidence, Fresh, IsNext, InRaise
  <1> QED
    BY <1>1, <1>2, <1>3, <1>4, <1>5, <1>6 DEF IInv

\* openAnchor refusing what it finds keeps the invariant.
LEMMA RefuseAnchorKeeps ==
  ASSUME IInv, NEW initialize \in BOOLEAN, RefuseAnchor(initialize) PROVE IInv'
  <1>0. /\ refused' \in Refusals /\ pc' = "down"
        /\ UNCHANGED <<cache, disk, row, opening, poisoned, promised, issued>>
    BY DEF RefuseAnchor, Refuse, Refusals
  <1>1. TypeOK'
    BY <1>0 DEF IInv, TypeOK, opening, Labels
  <1>2. Identities'
    BY <1>0 DEF IInv, opening, Identities
  <1>3. Witnessed'
    BY <1>0 DEF IInv, opening, Witnessed
  <1>4. AtLabel'
    BY <1>0 DEF opening, AtLabel, AtOpening, AtAdvance, AtServing, Opened, Settled, InRaise
  <1>5. PromiseCovered'
    BY <1>0 DEF IInv, opening, PromiseCovered, Recorded, Serving, InRaise
  <1>6. EvidenceNeverContradicts' /\ (cache.intent.ready => refused = "no")'
    <2>1. cache.witness # Absent => cache.intent # NoIntent
      BY DEF IInv, Identities, NoIntent
    <2>2. cache.intent # NoIntent => cache.bound \in {0, cache.intent.id}
      BY DEF IInv, Identities
    <2>3. cache.intent.ready => cache.intent # NoIntent /\ cache.bound # 0
      BY DEF IInv, Identities, NoIntent
    <2> QED
      BY <2>1, <2>2, <2>3 DEF RefuseAnchor, Refuse, EvidenceNeverContradicts
  <1> QED
    BY <1>1, <1>2, <1>3, <1>4, <1>5, <1>6 DEF IInv

\* The sync of a fresh intent record keeps the invariant.
LEMMA IntentSyncKeeps == ASSUME IInv, IntentSync PROVE IInv'
  <1>1. TypeOK'
    BY DEF IInv, TypeOK, IntentSync, SyncDirectory, opening, Anchors, Evidence, Labels,
       Refusals
  <1>2. Identities'
    BY DEF IInv, IntentSync, SyncDirectory, Identities
  <1>3. Witnessed'
    BY DEF IInv, IntentSync, SyncDirectory, Witnessed
  <1>4. AtLabel'
    BY DEF IInv, IntentSync, opening, AtLabel, AtOpening, AtAdvance, AtServing, Opened, Settled,
       InRaise
  <1>5. PromiseCovered'
    BY DEF IInv, IntentSync, PromiseCovered, Recorded, Serving, InRaise
  <1>6. EvidenceNeverContradicts' /\ (cache.intent.ready => refused = "no")'
    BY DEF IInv, IntentSync, EvidenceNeverContradicts, AtLabel, AtOpening, AtAdvance, AtServing,
       Opened, Settled
  <1> QED
    BY <1>1, <1>2, <1>3, <1>4, <1>5, <1>6 DEF IInv

\* Setting the binding attribute keeps the invariant.
LEMMA SetBindingKeeps == ASSUME IInv, SetBinding PROVE IInv'
  <1>1. TypeOK'
    BY DEF IInv, TypeOK, SetBinding, opening, Anchors, Evidence, Labels, Refusals
  <1>2. Identities'
    BY DEF IInv, SetBinding, Identities, AtLabel, AtOpening, AtAdvance, AtServing, Opened, Settled
  <1>3. Witnessed'
    BY DEF IInv, SetBinding, Witnessed
  <1>4. AtLabel'
    BY DEF IInv, SetBinding, opening, AtLabel, AtOpening, AtAdvance, AtServing, Opened, Settled,
       InRaise
  <1>5. PromiseCovered'
    BY DEF IInv, SetBinding, PromiseCovered, Recorded, Serving, InRaise
  <1>6. EvidenceNeverContradicts' /\ (cache.intent.ready => refused = "no")'
    BY DEF IInv, SetBinding, EvidenceNeverContradicts, AtLabel, AtOpening, AtAdvance, AtServing,
       Opened, Settled
  <1> QED
    BY <1>1, <1>2, <1>3, <1>4, <1>5, <1>6 DEF IInv

\* The sync of the binding on a reopen keeps the invariant.
LEMMA AnchorBindingSyncKeeps == ASSUME IInv, AnchorBindingSync PROVE IInv'
  <1>1. TypeOK'
    BY DEF IInv, TypeOK, AnchorBindingSync, SyncBinding, opening, Anchors, Evidence,
       Labels, Refusals
  <1>2. Identities'
    BY DEF IInv, AnchorBindingSync, SyncBinding, Identities
  <1>3. Witnessed'
    BY DEF IInv, AnchorBindingSync, SyncBinding, Witnessed
  <1>4. AtLabel'
    BY DEF IInv, AnchorBindingSync, SyncBinding, opening, AtLabel, AtOpening, AtAdvance,
       AtServing, Opened, Settled, InRaise
  <1>5. PromiseCovered'
    BY DEF IInv, AnchorBindingSync, PromiseCovered, Recorded, Serving, InRaise
  <1>6. EvidenceNeverContradicts' /\ (cache.intent.ready => refused = "no")'
    BY DEF IInv, AnchorBindingSync, EvidenceNeverContradicts, AtLabel, AtOpening, AtAdvance,
       AtServing, Opened, Settled
  <1> QED
    BY <1>1, <1>2, <1>3, <1>4, <1>5, <1>6 DEF IInv

\* The directory sync of a reopen keeps the invariant.
LEMMA AnchorDirectorySyncKeeps == ASSUME IInv, AnchorDirectorySync PROVE IInv'
  <1>1. TypeOK'
    BY DEF IInv, TypeOK, AnchorDirectorySync, SyncDirectory, opening, Anchors, Evidence,
       Labels, Refusals
  <1>2. Identities'
    BY DEF IInv, AnchorDirectorySync, SyncDirectory, Identities
  <1>3. Witnessed'
    BY DEF IInv, AnchorDirectorySync, SyncDirectory, Witnessed
  <1>4. AtLabel'
    BY DEF IInv, AnchorDirectorySync, SyncDirectory, opening, AtLabel, AtOpening, AtAdvance,
       AtServing, Opened, Settled, InRaise
  <1>5. PromiseCovered'
    BY DEF IInv, AnchorDirectorySync, PromiseCovered, Recorded, Serving, InRaise
  <1>6. EvidenceNeverContradicts' /\ (cache.intent.ready => refused = "no")'
    BY DEF IInv, AnchorDirectorySync, EvidenceNeverContradicts, AtLabel, AtOpening, AtAdvance,
       AtServing, Opened, Settled
  <1> QED
    BY <1>1, <1>2, <1>3, <1>4, <1>5, <1>6 DEF IInv

\* LeaseRecovery.open comparing the row with the witness keeps the invariant.
LEMMA ConfigureKeeps == ASSUME IInv, Configure PROVE IInv'
  <1>1. TypeOK'
    <2>1. CASE ~WitnessLoads \/ Disagreement
      BY <2>1 DEF IInv, TypeOK, Configure, Refuse, opening, Labels, Refusals
    <2>2. CASE ~(~WitnessLoads \/ Disagreement)
      <3>1. Fresh(intent.id) \in Evidence
        BY DEF IInv, TypeOK, Fresh, Evidence
      <3> QED
        BY <2>2, <3>1 DEF IInv, TypeOK, Configure, StartAdvance, Labels
    <2> QED
      BY <2>1, <2>2
  <1>2. Identities'
    BY DEF IInv, TypeOK, Configure, WitnessLoads, RowLoads, Disagreement, Fresh, IsNext,
       Identities, AtLabel, AtOpening, AtAdvance, AtServing, Opened, Settled, Witnessed
  <1>3. Witnessed'
    BY SMTT(60) DEF IInv, TypeOK, Configure, WitnessLoads, RowLoads, Disagreement, Fresh, IsNext,
       Identities, AtLabel, AtOpening, AtAdvance, AtServing, Opened, Settled, Witnessed
  <1>4. AtLabel'
    BY DEF IInv, TypeOK, Configure, StartAdvance, WitnessLoads, RowLoads, Disagreement, Fresh,
       Absent, IsNext, Identities, AtLabel, AtOpening, AtAdvance, AtServing, Opened, Settled,
       Witnessed, InRaise
  <1>5. PromiseCovered'
    BY DEF IInv, TypeOK, Configure, Refuse, StartAdvance, Fresh, Absent, PromiseCovered,
       Recorded, Serving, InRaise
  <1>6. EvidenceNeverContradicts' /\ (cache.intent.ready => refused = "no")'
    BY DEF IInv, TypeOK, Configure, Refuse, StartAdvance, WitnessLoads, RowLoads, Disagreement,
       Fresh, Absent, IsNext, opening, EvidenceNeverContradicts, Identities, Witnessed, AtLabel,
       AtOpening, AtAdvance, AtServing, Opened, Settled, Anchors, Evidence, NoIntent, InRaise
  <1> QED
    BY <1>1, <1>2, <1>3, <1>4, <1>5, <1>6 DEF IInv

\* Anchor.Advance renaming the new witness keeps the invariant.
LEMMA AdvanceKeeps == ASSUME IInv, Advance PROVE IInv'
  <1>1. TypeOK'
    BY DEF IInv, TypeOK, Advance, MayAdvance, IsNext, Absent, opening, Anchors,
       Evidence, Labels, Refusals
  <1>2. Identities'
    BY DEF IInv, Advance, Identities, AtLabel, AtOpening, AtAdvance, AtServing, Opened, Settled
  <1>3. Witnessed'
    BY DEF IInv, Advance, AtLabel, AtOpening, AtAdvance, AtServing, Opened, Settled, Witnessed
  <1>4. AtLabel'
    BY DEF IInv, Advance, opening, AtLabel, AtOpening, AtAdvance, AtServing, Opened, Settled,
       InRaise
  <1>5. PromiseCovered'
    BY DEF IInv, Advance, opening, PromiseCovered, Recorded, Serving, InRaise
  <1>6. EvidenceNeverContradicts' /\ (cache.intent.ready => refused = "no")'
    BY DEF IInv, Advance, EvidenceNeverContradicts, AtLabel, AtOpening, AtAdvance, AtServing,
       Opened, Settled
  <1> QED
    BY <1>1, <1>2, <1>3, <1>4, <1>5, <1>6 DEF IInv

\* The directory sync after Anchor.Advance keeps the invariant.
LEMMA AdvanceSyncKeeps == ASSUME IInv, AdvanceSync PROVE IInv'
  <1>1. TypeOK'
    <2>1. disk' \in Anchors
      BY DEF IInv, TypeOK, AdvanceSync, SyncDirectory, Anchors
    <2>2. state' \in Evidence /\ pc' \in Labels
      BY DEF IInv, TypeOK, AdvanceSync, Labels
    <2> QED
      BY <2>1, <2>2 DEF IInv, TypeOK, AdvanceSync
  <1>2. Identities'
    BY DEF IInv, AdvanceSync, SyncDirectory, Identities
  <1>3. Witnessed'
    BY DEF IInv, AdvanceSync, SyncDirectory, Witnessed
  <1>4. AtLabel'
    BY DEF IInv, TypeOK, AdvanceSync, SyncDirectory, AtLabel, AtOpening, AtAdvance, AtServing,
       Opened, Settled, InRaise
  <1>5. PromiseCovered'
    BY DEF IInv, AdvanceSync, PromiseCovered, Recorded, Serving, InRaise
  <1>6. EvidenceNeverContradicts' /\ (cache.intent.ready => refused = "no")'
    BY DEF IInv, AdvanceSync, EvidenceNeverContradicts, AtLabel, AtOpening, AtAdvance, AtServing,
       Opened, Settled
  <1> QED
    BY <1>1, <1>2, <1>3, <1>4, <1>5, <1>6 DEF IInv

\* finalize accepting the prepared record keeps the invariant.
LEMMA FinalizeKeeps == ASSUME IInv, Finalize PROVE IInv'
  <1>1. TypeOK'
    <2>1. row' \in [accepted : Evidence, prepared : Evidence] /\ state' \in Evidence
      BY DEF IInv, TypeOK, Finalize, Accepted, Absent, Evidence
    <2>2. promised' \in Nat /\ pc' \in Labels
      BY DEF IInv, TypeOK, Finalize, Larger, Labels, Evidence
    <2> QED
      BY <2>1, <2>2 DEF IInv, TypeOK, Finalize
  <1>2. Identities'
    BY DEF IInv, Finalize, Accepted, IsNext, Identities, AtLabel, AtOpening, AtAdvance, AtServing,
       Opened, Settled, Witnessed
  <1>3. Witnessed'
    BY DEF IInv, Finalize, Accepted, AtLabel, AtOpening, AtAdvance, AtServing, Opened, Settled,
       Witnessed
  <1>4. AtLabel'
    BY DEF IInv, Finalize, Accepted, AtLabel, AtOpening, AtAdvance, AtServing, Opened, Settled,
       InRaise
  <1>5. PromiseCovered'
    BY DEF IInv, TypeOK, Finalize, Accepted, Larger, PromiseCovered, Recorded, AtLabel, AtOpening,
       AtAdvance, AtServing, Opened, Settled, Evidence
  <1>6. EvidenceNeverContradicts' /\ (cache.intent.ready => refused = "no")'
    BY DEF IInv, Finalize, EvidenceNeverContradicts, AtLabel, AtOpening, AtAdvance, AtServing,
       Opened, Settled
  <1> QED
    BY <1>1, <1>2, <1>3, <1>4, <1>5, <1>6 DEF IInv

\* Anchor.Complete renaming the READY intent keeps the invariant.
LEMMA CompleteKeeps == ASSUME IInv, Complete PROVE IInv'
  <1>1. TypeOK'
    BY DEF IInv, TypeOK, Complete, opening, Anchors, Evidence, Labels, Refusals
  <1>2. Identities'
    BY DEF IInv, TypeOK, Complete, Identities, Anchors
  <1>3. Witnessed'
    BY DEF IInv, Complete, AtLabel, AtOpening, AtAdvance, AtServing, Opened, Settled, Witnessed
  <1>4. AtLabel'
    BY DEF IInv, TypeOK, Complete, opening, AtLabel, AtOpening, AtAdvance, AtServing, Opened,
       Settled, Anchors, InRaise
  <1>5. PromiseCovered'
    BY DEF IInv, Complete, PromiseCovered, Recorded, Serving, InRaise
  <1>6. EvidenceNeverContradicts' /\ (cache.intent.ready => refused = "no")'
    BY DEF IInv, Complete, EvidenceNeverContradicts, AtLabel, AtOpening, AtAdvance, AtServing,
       Opened, Settled
  <1> QED
    BY <1>1, <1>2, <1>3, <1>4, <1>5, <1>6 DEF IInv

\* The directory sync after Anchor.Complete keeps the invariant.
LEMMA CompleteSyncKeeps == ASSUME IInv, CompleteSync PROVE IInv'
  <1>1. TypeOK'
    BY DEF IInv, TypeOK, CompleteSync, SyncDirectory, opening, Anchors, Evidence,
       Labels, Refusals
  <1>2. Identities'
    BY DEF IInv, CompleteSync, SyncDirectory, Identities
  <1>3. Witnessed'
    BY DEF IInv, CompleteSync, SyncDirectory, Witnessed
  <1>4. AtLabel'
    BY DEF IInv, CompleteSync, SyncDirectory, AtLabel, AtOpening, AtAdvance, AtServing, Opened,
       Settled
  <1>5. PromiseCovered'
    BY DEF IInv, CompleteSync, PromiseCovered, Recorded, AtLabel, AtOpening, AtAdvance, AtServing,
       Opened, Settled
  <1>6. EvidenceNeverContradicts' /\ (cache.intent.ready => refused = "no")'
    BY DEF IInv, CompleteSync, EvidenceNeverContradicts, AtLabel, AtOpening, AtAdvance, AtServing,
       Opened, Settled
  <1> QED
    BY <1>1, <1>2, <1>3, <1>4, <1>5, <1>6 DEF IInv

\* RaiseMaxLease for a duration already covered keeps the invariant.
LEMMA CoveredKeeps ==
  ASSUME IInv, NEW d \in Durations, Covered(d) PROVE IInv'
  <1>1. TypeOK'
    BY DurationsPositive DEF IInv, TypeOK, Covered, Larger, opening, Anchors, Evidence,
       Labels, Refusals
  <1>2. Identities'
    BY DEF IInv, Covered, Identities
  <1>3. Witnessed'
    BY DEF IInv, Covered, Witnessed
  <1>4. AtLabel'
    BY DEF IInv, Covered, opening, AtLabel, AtOpening, AtAdvance, AtServing, Opened, Settled
  <1>5. PromiseCovered'
    BY DEF IInv, Covered, Larger, opening, PromiseCovered, Recorded, AtLabel, AtOpening,
       AtAdvance, AtServing, Opened, Settled
  <1>6. EvidenceNeverContradicts' /\ (cache.intent.ready => refused = "no")'
    BY DEF IInv, Covered, EvidenceNeverContradicts, AtLabel, AtOpening, AtAdvance, AtServing,
       Opened, Settled
  <1> QED
    BY <1>1, <1>2, <1>3, <1>4, <1>5, <1>6 DEF IInv

\* RaiseMaxLease preparing a longer duration keeps the invariant.
LEMMA PrepareKeeps ==
  ASSUME IInv, NEW d \in Durations, Prepare(d) PROVE IInv'
  <1>1. TypeOK'
    BY DurationsPositive DEF IInv, TypeOK, Prepare, StartAdvance, Raised, Evidence, Labels
  <1>2. Identities'
    BY DEF IInv, Prepare, Identities, AtLabel, AtOpening, AtAdvance, AtServing, Opened, Settled
  <1>3. Witnessed'
    BY DurationsPositive DEF IInv, TypeOK, Prepare, Raised, IsNext, AtLabel, AtOpening, AtAdvance,
       AtServing, Opened, Settled, Witnessed, Evidence
  <1>4. AtLabel'
    BY DurationsPositive DEF IInv, Prepare, StartAdvance, Raised, Absent, AtLabel, AtOpening,
       AtAdvance, AtServing, Opened, Settled
  <1>5. PromiseCovered'
    BY DurationsPositive DEF IInv, TypeOK, Prepare, Raised, PromiseCovered, Recorded,
       Evidence
  <1>6. EvidenceNeverContradicts' /\ (cache.intent.ready => refused = "no")'
    BY DEF IInv, Prepare, EvidenceNeverContradicts, AtLabel, AtOpening, AtAdvance, AtServing,
       Opened, Settled
  <1> QED
    BY <1>1, <1>2, <1>3, <1>4, <1>5, <1>6 DEF IInv

\* A step that fails and leaves the process poisoned or down keeps the invariant.
LEMMA StepFailsKeeps == ASSUME IInv, StepFails PROVE IInv'
  <1>1. TypeOK'
    BY DEF IInv, TypeOK, StepFails, GivesUp, opening, Anchors, Evidence, Labels,
       Refusals
  <1>2. Identities'
    BY DEF IInv, StepFails, Identities
  <1>3. Witnessed'
    BY DEF IInv, StepFails, Witnessed
  <1>4. AtLabel'
    BY DEF IInv, StepFails, GivesUp, opening, AtLabel, AtOpening, AtAdvance, AtServing, Opened,
       Settled, InRaise
  <1>5. PromiseCovered'
    BY DEF IInv, StepFails, GivesUp, PromiseCovered, Recorded, Serving, InRaise
  <1>6. EvidenceNeverContradicts' /\ (cache.intent.ready => refused = "no")'
    BY DEF IInv, TypeOK, StepFails, GivesUp, opening, EvidenceNeverContradicts, Identities,
       Witnessed, AtLabel, AtOpening, AtAdvance, AtServing, Opened, Settled, Anchors, Evidence,
       Absent, NoIntent, Fresh, IsNext, InRaise
  <1> QED
    BY <1>1, <1>2, <1>3, <1>4, <1>5, <1>6 DEF IInv

\* The first INSERT with an ambiguous commit keeps the invariant.
LEMMA FirstRowUncertainKeeps == ASSUME IInv, FirstRowUncertain PROVE IInv'
  <1>1. TypeOK'
    BY DEF IInv, TypeOK, FirstRowUncertain, GivesUp, Fresh, Absent, Disagreement,
       opening, Anchors, Evidence, Labels, Refusals
  <1>2. Identities'
    BY DEF IInv, FirstRowUncertain, Fresh, Identities, AtLabel, AtOpening, AtAdvance, AtServing,
       Opened, Settled
  <1>3. Witnessed'
    BY DEF IInv, FirstRowUncertain, Fresh, Identities, Witnessed
  <1>4. AtLabel'
    BY DEF FirstRowUncertain, GivesUp, AtLabel, AtOpening, AtAdvance, AtServing, Opened, Settled,
       InRaise
  <1>5. PromiseCovered'
    BY DEF IInv, FirstRowUncertain, GivesUp, Fresh, Absent, PromiseCovered, Recorded,
       Serving, InRaise
  <1>6. EvidenceNeverContradicts' /\ (cache.intent.ready => refused = "no")'
    BY DEF IInv, FirstRowUncertain, EvidenceNeverContradicts, AtLabel, AtOpening, AtAdvance,
       AtServing, Opened, Settled
  <1> QED
    BY <1>1, <1>2, <1>3, <1>4, <1>5, <1>6 DEF IInv

\* finalize with an ambiguous commit keeps the invariant.
LEMMA FinalizeUncertainKeeps == ASSUME IInv, FinalizeUncertain PROVE IInv'
  <1>1. TypeOK'
    BY DEF IInv, TypeOK, FinalizeUncertain, GivesUp, Accepted, IsNext, Absent, opening,
       Anchors, Evidence, Labels, Refusals
  <1>2. Identities'
    BY DEF IInv, FinalizeUncertain, Accepted, IsNext, Identities, AtLabel, AtOpening, AtAdvance,
       AtServing, Opened, Settled, Witnessed
  <1>3. Witnessed'
    BY DEF IInv, FinalizeUncertain, Accepted, AtLabel, AtOpening, AtAdvance, AtServing, Opened,
       Settled, Witnessed
  <1>4. AtLabel'
    BY DEF IInv, FinalizeUncertain, GivesUp, opening, AtLabel, AtOpening, AtAdvance, AtServing,
       Opened, Settled, InRaise
  <1>5. PromiseCovered'
    BY DEF IInv, FinalizeUncertain, GivesUp, Accepted, PromiseCovered, Recorded, Serving,
       AtLabel, AtOpening, AtAdvance, AtServing, Opened, Settled, InRaise
  <1>6. EvidenceNeverContradicts' /\ (cache.intent.ready => refused = "no")'
    BY DEF IInv, FinalizeUncertain, EvidenceNeverContradicts, AtLabel, AtOpening, AtAdvance,
       AtServing, Opened, Settled
  <1> QED
    BY <1>1, <1>2, <1>3, <1>4, <1>5, <1>6 DEF IInv

\* RaiseMaxLease whose preparing commit is ambiguous keeps the invariant.
LEMMA PrepareUncertainKeeps ==
  ASSUME IInv, NEW d \in Durations, PrepareUncertain(d) PROVE IInv'
  <1>1. TypeOK'
    <2>1. Raised(d) \in Evidence
      BY DurationsPositive DEF IInv, TypeOK, Raised, Evidence
    <2>2. row' \in [accepted : Evidence, prepared : Evidence]
      BY <2>1 DEF IInv, TypeOK, PrepareUncertain
    <2> QED
      BY <2>2 DEF IInv, TypeOK, PrepareUncertain, opening
  <1>2. Identities'
    BY DEF IInv, PrepareUncertain, Identities, AtLabel, AtOpening, AtAdvance, AtServing, Opened,
       Settled
  <1>3. Witnessed'
    BY DurationsPositive DEF IInv, TypeOK, PrepareUncertain, Raised, IsNext, AtLabel, AtOpening,
       AtAdvance, AtServing, Opened, Settled, Witnessed, Evidence
  <1>4. AtLabel'
    BY DEF IInv, PrepareUncertain, opening, AtLabel, AtOpening, AtAdvance, AtServing, Opened,
       Settled
  <1>5. PromiseCovered'
    BY DurationsPositive DEF IInv, TypeOK, PrepareUncertain, Raised, PromiseCovered,
       Recorded, Serving, Evidence
  <1>6. EvidenceNeverContradicts' /\ (cache.intent.ready => refused = "no")'
    BY DEF IInv, PrepareUncertain, EvidenceNeverContradicts, AtLabel, AtOpening, AtAdvance,
       AtServing, Opened, Settled
  <1> QED
    BY <1>1, <1>2, <1>3, <1>4, <1>5, <1>6 DEF IInv

\* A fault elsewhere that poisons the store keeps the invariant.
LEMMA PoisonedElsewhereKeeps == ASSUME IInv, PoisonedElsewhere PROVE IInv'
  <1>1. TypeOK'
    BY DEF IInv, TypeOK, PoisonedElsewhere, opening
  <1>2. Identities'
    BY DEF IInv, PoisonedElsewhere, Identities
  <1>3. Witnessed'
    BY DEF IInv, PoisonedElsewhere, Witnessed
  <1>4. AtLabel'
    BY DEF IInv, PoisonedElsewhere, opening, AtLabel, AtOpening, AtAdvance, AtServing, Opened,
       Settled
  <1>5. PromiseCovered'
    BY DEF IInv, PoisonedElsewhere, PromiseCovered, Recorded, Serving
  <1>6. EvidenceNeverContradicts' /\ (cache.intent.ready => refused = "no")'
    BY DEF IInv, TypeOK, PoisonedElsewhere, opening, EvidenceNeverContradicts, Identities,
       Witnessed, AtLabel, AtOpening, AtAdvance, AtServing, Opened, Settled, Anchors, Evidence,
       Absent, NoIntent, Fresh, IsNext, InRaise
  <1> QED
    BY <1>1, <1>2, <1>3, <1>4, <1>5, <1>6 DEF IInv

\* The process stopping keeps the invariant.
LEMMA ProcessStopsKeeps == ASSUME IInv, ProcessStops PROVE IInv'
  <1>1. TypeOK'
    BY DEF IInv, TypeOK, ProcessStops, opening, Anchors, Evidence, Labels, Refusals
  <1>2. Identities'
    BY DEF IInv, ProcessStops, Identities
  <1>3. Witnessed'
    BY DEF IInv, ProcessStops, Witnessed
  <1>4. AtLabel'
    BY DEF ProcessStops, AtLabel, AtOpening, AtAdvance, AtServing, Opened, Settled, InRaise
  <1>5. PromiseCovered'
    BY DEF IInv, ProcessStops, PromiseCovered, Recorded, Serving, InRaise
  <1>6. EvidenceNeverContradicts' /\ (cache.intent.ready => refused = "no")'
    BY DEF IInv, ProcessStops, EvidenceNeverContradicts, AtLabel, AtOpening, AtAdvance, AtServing,
       Opened, Settled
  <1> QED
    BY <1>1, <1>2, <1>3, <1>4, <1>5, <1>6 DEF IInv

\* Power loss, which leaves only the durable records, keeps the invariant.
LEMMA PowerLossKeeps == ASSUME IInv, PowerLoss PROVE IInv'
  <1> PICK i \in {cache.intent, disk.intent}, b \in {cache.bound, disk.bound},
           w \in {cache.witness, disk.witness} :
             cache' = [intent |-> i, bound |-> b, witness |-> w] /\ disk' = cache'
    BY DEF PowerLoss
  <1>0. /\ cache'.intent = i /\ cache'.bound = b /\ cache'.witness = w
        /\ disk'.intent = i /\ disk'.bound = b /\ disk'.witness = w
        /\ row' = row
    BY DEF PowerLoss
  <1>1. TypeOK'
    <2>1. cache' \in Anchors /\ disk' \in Anchors
      BY DEF IInv, TypeOK, Anchors
    <2> QED
      BY <2>1 DEF IInv, TypeOK, PowerLoss, opening, Labels
  <1>2. Identities'
    <2>1. CASE row.accepted = Absent
      <3>1. cache.witness = Absent /\ disk.witness = Absent /\ row.prepared = Absent
            /\ ~cache.intent.ready /\ ~disk.intent.ready
        BY <2>1 DEF IInv, Identities, Witnessed
      <3> QED
        BY <1>0, <2>1, <3>1 DEF IInv, TypeOK, Anchors, Identities, NoIntent
    <2>2. CASE row.accepted # Absent
      BY <1>0, <2>2 DEF IInv, TypeOK, Anchors, Identities
    <2> QED
      BY <2>1, <2>2
  <1>3. Witnessed'
    <2>1. i.ready => cache.intent.ready
      BY DEF IInv, Identities
    <2> QED
      BY <1>0, <2>1 DEF IInv, Identities, Witnessed, IsNext
  <1>4. AtLabel'
    BY DEF PowerLoss, AtLabel, AtOpening, AtAdvance, AtServing, Opened, Settled, InRaise
  <1>5. PromiseCovered'
    BY DEF IInv, PowerLoss, PromiseCovered, Recorded, Serving, InRaise
  <1>6. EvidenceNeverContradicts' /\ (cache.intent.ready => refused = "no")'
    <2>1. cache'.intent.ready => cache.intent.ready
      BY DEF IInv, Identities
    <2> QED
      BY <2>1 DEF IInv, PowerLoss, EvidenceNeverContradicts
  <1> QED
    BY <1>1, <1>2, <1>3, <1>4, <1>5, <1>6 DEF IInv

\* IInv is inductive.
LEMMA NextKeeps == ASSUME IInv, [Next]_vars PROVE IInv'
  <1>1. CASE Next
    BY <1>1, OpenAnchorKeeps, RefuseAnchorKeeps, IntentSyncKeeps, SetBindingKeeps,
       AnchorBindingSyncKeeps, AnchorDirectorySyncKeeps, ConfigureKeeps, AdvanceKeeps,
       AdvanceSyncKeeps, FinalizeKeeps, CompleteKeeps, CompleteSyncKeeps, CoveredKeeps,
       PrepareKeeps, StepFailsKeeps, FirstRowUncertainKeeps, FinalizeUncertainKeeps,
       PrepareUncertainKeeps, PoisonedElsewhereKeeps, ProcessStopsKeeps, PowerLossKeeps DEF
       Next, Open, Anchoring, Recovering, Raise, Fault, CommitUncertain
  <1>2. CASE UNCHANGED vars
    <2>0. UNCHANGED <<cache, disk, row, pc, intent, next, goal, state, poisoned, refused,
                      promised, issued>>
      BY <1>2 DEF vars, opening
    <2> USE <2>0
    <2>1. TypeOK'
      BY DEF IInv, TypeOK
    <2>2. Identities' /\ Witnessed'
      BY DEF IInv, Identities, Witnessed
    <2>3. AtLabel'
      <3>1. InRaise' = InRaise
        BY DEF InRaise
      <3>2. Opened' = Opened /\ Settled' = Settled
        BY DEF Opened, Settled
      <3>3. AtOpening'
        BY <3>2 DEF IInv, AtLabel, AtOpening
      <3>4. AtAdvance'
        BY <3>2 DEF IInv, AtLabel, AtAdvance, Fresh
      <3>5. AtServing'
        BY <3>1, <3>2 DEF IInv, AtLabel, AtServing
      <3> QED
        BY <3>3, <3>4, <3>5 DEF AtLabel
    <2>4. PromiseCovered'
      BY DEF IInv, PromiseCovered, Recorded, Serving, InRaise
    <2> QED
      BY <2>1, <2>2, <2>3, <2>4 DEF IInv, EvidenceNeverContradicts
  <1> QED
    BY <1>1, <1>2

\* The visible witness is never behind the durable one.
LEMMA WitnessAhead ==
  ASSUME IInv
  PROVE  /\ cache.witness.gen >= disk.witness.gen
         /\ cache.witness.max >= disk.witness.max
         /\ disk.witness # Absent => cache.witness.id = disk.witness.id
  <1>1. row.accepted \in Evidence /\ row.prepared \in Evidence
    BY DEF IInv, TypeOK
  <1>2. CASE row.prepared = Absent
    <2>1. disk.witness = Absent \/ cache.witness = disk.witness
      BY <1>2 DEF IInv, Witnessed
    <2>2. cache.witness \in Evidence
      BY DEF IInv, TypeOK, Anchors
    <2> QED
      BY <2>1, <2>2 DEF Evidence, Absent
  <1>3. CASE row.prepared # Absent
    <2>1. disk.witness = cache.witness \/ (disk.witness = row.accepted /\ cache.witness = row.prepared)
      BY <1>3 DEF IInv, Witnessed
    <2>2. IsNext(row.accepted, row.prepared)
      BY <1>3 DEF IInv, Witnessed
    <2>3. cache.witness \in Evidence
      BY DEF IInv, TypeOK, Anchors
    <2> QED
      BY <1>1, <2>1, <2>2, <2>3 DEF IsNext, Evidence
  <1> QED
    BY <1>2, <1>3

\* A step leaves the durable witness alone or saves the visible one.
LEMMA WitnessStep ==
  ASSUME IInv, [Next]_vars
  PROVE  /\ disk'.witness.gen >= disk.witness.gen
         /\ disk'.witness.max >= disk.witness.max
         /\ disk.witness # Absent => disk'.witness.id = disk.witness.id
  <1>1. disk'.witness = disk.witness \/ disk'.witness = cache.witness
    <2>1. CASE SyncDirectory
      BY <2>1 DEF SyncDirectory
    <2>2. CASE SyncBinding
      BY <2>2 DEF SyncBinding
    <2>3. CASE PowerLoss
      BY <2>3 DEF PowerLoss
    <2>4. CASE UNCHANGED disk
      BY <2>4
    <2>5. Open \/ Anchoring \/ Recovering \/ Raise \/ Fault \/ UNCHANGED vars => SyncDirectory \/ SyncBinding \/ PowerLoss \/ UNCHANGED disk
      BY DEF Open, OpenAnchor, RefuseAnchor, Refuse, Anchoring, IntentSync,
        SetBinding, AnchorBindingSync, AnchorDirectorySync, Recovering, Configure,
        Advance, AdvanceSync, Finalize, Complete, CompleteSync, Raise, Covered, Prepare, Fault,
        StepFails, CommitUncertain, FirstRowUncertain, FinalizeUncertain, PrepareUncertain,
        PoisonedElsewhere, ProcessStops, vars
    <2> QED
      BY <2>1, <2>2, <2>3, <2>5 DEF Next
  <1>2. disk.witness \in Evidence
    BY DEF IInv, TypeOK, Anchors
  <1> QED
    BY <1>1, <1>2, WitnessAhead DEF Evidence

\* The inductive invariant holds throughout.
THEOREM IInvInvariant == Spec => []IInv
  <1>1. IInv /\ [Next]_vars => IInv'
    BY NextKeeps
  <1> QED
    BY <1>1, InitIInv, PTL DEF Spec

\* The records, the binding and the counters keep their types.
THEOREM TypeCorrect == Spec => []TypeOK
  BY IInvInvariant, PTL DEF IInv

\* Every duration RaiseMaxLease reported as durable is covered by the
\* evidence, and by what any serving process, this one or a later one after a
\* crash, reports as MaxLease: recovery waits long enough.
THEOREM PromisesCovered == Spec => []PromiseCovered
  BY IInvInvariant, PTL DEF IInv

\* No interruption leaves evidence that LeaseRecovery.open has to refuse as
\* contradictory.
THEOREM NeverContradicts == Spec => []EvidenceNeverContradicts
  BY IInvInvariant, PTL DEF IInv

\* A database whose initialisation completed durably always opens again.
THEOREM CompletedAlwaysReopens == Spec => []CompletedReopens
  <1>1. IInv => CompletedReopens
    BY DEF IInv, Identities, CompletedReopens
  <1> QED
    BY <1>1, IInvInvariant, PTL

\* The durable witness is never lowered, whatever is interrupted.
THEOREM WitnessMonotone == Spec => WitnessNeverLowered
  <1>1. IInv /\ [Next]_vars => [WitnessKept]_vars
    BY WitnessStep DEF WitnessKept
  <1> QED
    BY <1>1, IInvInvariant, PTL DEF Spec, WitnessNeverLowered

\* Refinement, initial states.
LEMMA RegisterInit == Init => Register!Init
  BY DEF Init, Register!Init, Recorded, Serving, InRaise, Absent

\* Steps that record and promise nothing.
LEMMA StillRegister ==
  ASSUME UNCHANGED <<Recorded, promised>>, (IF Serving THEN {state.max} ELSE {})' \in {IF Serving THEN {state.max} ELSE {}, {}}
  PROVE [Register!Next]_Register!rvars
  BY DEF Register!Next, Register!Stop, Register!rvars

\* Refinement, step by step.
LEMMA RegisterStep == ASSUME IInv, [Next]_vars PROVE [Register!Next]_Register!rvars
  <1>1. CASE Open
    BY <1>1, StillRegister DEF Open, OpenAnchor, RefuseAnchor, Refuse, Recorded, Serving, InRaise,
       opening
  <1>2. CASE Anchoring
    BY <1>2, StillRegister DEF Anchoring, IntentSync, SetBinding, AnchorBindingSync,
       AnchorDirectorySync, Recorded, Serving, InRaise
  <1>3. CASE Configure
    BY <1>3, StillRegister DEF Configure, Refuse, StartAdvance, IInv, TypeOK, Recorded,
       Serving, InRaise, Fresh, Absent
  <1>4. CASE Advance
    BY <1>4, StillRegister DEF Advance, Recorded, Serving, InRaise, opening
  <1>5. CASE AdvanceSync
    BY <1>5, StillRegister DEF AdvanceSync, Recorded, Serving, InRaise
  <1>6. CASE Finalize /\ goal # "raise"
    BY <1>6, StillRegister DEF Finalize, Accepted, IInv, AtLabel, AtOpening, AtAdvance, AtServing,
       Opened, Settled, Recorded, Serving, InRaise
  <1>7. CASE Finalize /\ goal = "raise"
    <2>1. Recorded = next.max /\ Recorded' = next.max
      BY <1>7 DEF Finalize, Accepted, IInv, AtLabel, AtOpening, AtAdvance, AtServing, Opened,
         Settled, Recorded
    <2>2. next.max \in Durations /\ next.max \in Nat
      BY <1>7 DEF Finalize, IInv, AtLabel, AtOpening, AtAdvance, AtServing, Opened, Settled,
         Witnessed, TypeOK, Evidence
    <2>3. Register!Promise(next.max)
      <3>1. Serving /\ Serving' /\ state' = next
        BY <1>7 DEF Finalize, Serving, InRaise
      <3>2. promised' = (IF next.max > promised THEN next.max ELSE promised)
        <4>1. next.max \in Nat /\ promised \in Nat
          BY <2>2 DEF IInv, TypeOK
        <4>2. promised' = Larger(promised, next.max)
          BY <1>7 DEF Finalize
        <4> QED
          BY <4>1, <4>2 DEF Larger
      <3> QED
        <4>1. next.max <= Recorded /\ Recorded' = Recorded
          BY <2>1, <2>2
        <4> QED
        BY <2>1, <3>1, <3>2, <4>1 DEF Register!Promise
    <2> QED
      BY <2>2, <2>3 DEF Register!Next
  <1>8. CASE Complete
    BY <1>8, StillRegister DEF Complete, Recorded, Serving, InRaise
  <1>9. CASE CompleteSync
    <2>1. UNCHANGED <<Recorded, promised, poisoned, state>> /\ ~Serving /\ pc' = "up"
      BY <1>9 DEF CompleteSync, Recorded, Serving, InRaise
    <2>2. Recorded = state.max
      BY <1>9 DEF CompleteSync, IInv, AtLabel, AtOpening, AtAdvance, AtServing, Opened, Settled,
         Recorded
    <2>3. CASE poisoned
      BY <2>1, <2>3, StillRegister DEF Serving
    <2>4. CASE ~poisoned
      BY <2>1, <2>2, <2>4 DEF Serving, Register!Serve, Register!Next
    <2> QED
      BY <2>3, <2>4
  <1>10. ASSUME NEW d \in Durations, Covered(d) PROVE Register!Promise(d)
    <2>1. Serving /\ Serving' /\ Recorded = state.max
      BY <1>10 DEF Covered, IInv, AtLabel, AtOpening, AtAdvance, AtServing, Opened, Settled,
         Recorded, Serving, opening, InRaise
    <2>2. UNCHANGED <<Recorded, state>> /\ d <= state.max
          /\ promised' = IF promised > d THEN promised ELSE d
      BY <1>10 DEF Covered, Larger, Recorded, opening
    <2>3. promised \in Nat /\ d \in Nat
      BY DurationsPositive DEF IInv, TypeOK
    <2> QED
      BY <2>1, <2>2, <2>3 DEF Register!Promise
  <1>11. ASSUME NEW d \in Durations, Prepare(d) PROVE Register!Record(d)
    BY <1>11, DurationsPositive DEF Prepare, Raised, Register!Record, Recorded, Serving,
       Absent
  <1>12. ASSUME NEW d \in Durations, PrepareUncertain(d) PROVE Register!Record(d)
    BY <1>12, DurationsPositive DEF PrepareUncertain, Raised, Register!Record, Recorded,
       Serving, Absent
  <1>13. CASE FirstRowUncertain
    BY <1>13, StillRegister DEF FirstRowUncertain, GivesUp, Recorded, Serving, InRaise,
       Fresh, Absent
  <1>14. CASE FinalizeUncertain
    BY <1>14, StillRegister DEF FinalizeUncertain, GivesUp, Accepted, IInv, AtLabel, AtOpening,
       AtAdvance, AtServing, Opened, Settled, Recorded, Serving, InRaise
  <1>15. CASE StepFails \/ PoisonedElsewhere \/ ProcessStops \/ PowerLoss
    BY <1>15, StillRegister DEF StepFails, GivesUp, PoisonedElsewhere, ProcessStops,
       PowerLoss, Recorded, Serving, InRaise
  <1>16. CASE UNCHANGED vars
    BY <1>16, StillRegister DEF vars, opening, Recorded, Serving, InRaise
  <1> QED
    BY <1>1, <1>2, <1>3, <1>4, <1>5, <1>6, <1>7, <1>8, <1>9, <1>10, <1>11, <1>12, <1>13,
       <1>14, <1>15, <1>16 DEF Next, Recovering, Raise, Fault, CommitUncertain,
       Register!Next

\* LeaseRecovery implements LeaseRegister, the register LockAuthority assumes.
THEOREM RegisterImplemented == Spec => ImplementsRegister
  <1>1. IInv /\ [Next]_vars => [Register!Next]_Register!rvars
    BY RegisterStep
  <1> QED
    BY <1>1, RegisterInit, IInvInvariant, PTL DEF Spec, ImplementsRegister, Register!Spec
============================================================================
