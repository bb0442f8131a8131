--------------------------- MODULE LeaseRegister ---------------------------
(***************************************************************************)
(* What durable lease evidence promises the lock authority: the longest    *)
(* lease ever promised to a client is covered by what any later process    *)
(* serves, whatever crashed in between.                                    *)
(*                                                                         *)
(* recorded  the maximum the durable evidence stands for                   *)
(* promised  the longest lease RaiseMaxLease has returned success for      *)
(* served    what MaxLease may return: nothing while no process serves     *)
(***************************************************************************)
EXTENDS Naturals

CONSTANT Durations

VARIABLES recorded, promised, served

rvars == <<recorded, promised, served>>

Init ==
  /\ recorded = 0
  /\ promised = 0
  /\ served = {}

\* A raise becomes durable; its outcome may be unknown to the process, which
\* then stops serving.
Record(d) ==
  /\ d > recorded
  /\ recorded' = d
  /\ served' \in {served, {}}
  /\ UNCHANGED promised

\* A promise is given only for what the evidence already covers.
Promise(d) ==
  /\ d <= recorded
  /\ served # {}
  /\ served' = {recorded}
  /\ promised' = IF d > promised THEN d ELSE promised
  /\ UNCHANGED recorded

Serve ==
  /\ served = {}
  /\ served' = {recorded}
  /\ UNCHANGED <<recorded, promised>>

Stop ==
  /\ served' = {}
  /\ UNCHANGED <<recorded, promised>>

Next == Serve \/ Stop \/ \E d \in Durations : Record(d) \/ Promise(d)

Spec == Init /\ [][Next]_rvars
============================================================================
