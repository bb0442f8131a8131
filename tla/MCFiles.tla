------------------------------- MODULE MCFiles -------------------------------
(* Small instances of the server's retained files: sessions, range protections
   and deferred deletion.  A behaviour follows one setting of one component, so
   the settings add up and do not multiply; the variables of the other
   components stay 0.                                         *)
EXTENDS Naturals, Sequences, FiniteSets, TLC

CONSTANTS r1, r2, i1, i2, t1, t2, c1, c2

VARIABLES setting,
          db, ref, pins, claim, files, cursor, mode, faults, seen,
          ranges, alive, thread, missed,
          session, reference, id, actor, failures

deletion == <<db, ref, pins, claim, files, cursor, mode, faults, seen>>
protection == <<ranges, alive, thread, missed>>
retained == <<session, reference, id, actor, failures>>
vars == <<setting, deletion, protection, retained>>

NoDeletion == db = 0 /\ ref = 0 /\ pins = 0 /\ claim = 0 /\ files = 0 /\ cursor = 0 /\ mode = 0 /\ faults = 0 /\ seen = 0
NoProtection == ranges = 0 /\ alive = 0 /\ thread = 0 /\ missed = 0
NotRetained == session = 0 /\ reference = 0 /\ id = 0 /\ actor = 0 /\ failures = 0

-----------------------------------------------------------------------------
(* Deferred deletion.                                                       *)

Shares == [deletes |-> TRUE, denies |-> FALSE]
Denies == [deletes |-> FALSE, denies |-> TRUE]
Guards == [deletes |-> TRUE, denies |-> TRUE]
Plain == [files |-> 2, intents |-> 2, generation |-> 0, faults |-> 0, nodes |-> 3, names |-> {"a"},
          uses |-> {Shares}]
Deletions ==
    [claims |-> [Plain EXCEPT !.intents = 1, !.uses = {Shares, Denies, Guards}],
     explicit |-> [Plain EXCEPT !.intents = 1, !.generation = 2, !.nodes = 2],
     both |-> [Plain EXCEPT !.generation = 1, !.intents = 1, !.files = 1],
     names |-> [Plain EXCEPT !.files = 1, !.intents = 1, !.names = {"a", "b"}],
     replace |-> [Plain EXCEPT !.files = 1, !.intents = 1, !.nodes = 4],
     refused |-> [Plain EXCEPT !.faults = 1, !.nodes = 2],
     crashes |-> [Plain EXCEPT !.files = 1, !.faults = 2, !.generation = 1, !.intents = 1]]

D == INSTANCE DeleteIntents WITH
       Refs <- {r1, r2}, Intents <- {i1, i2}, MaxNode <- 4, MaxSequence <- 2, Settings <- Deletions

-----------------------------------------------------------------------------
(* Range protections.                                                       *)

Owners == {"o1", "o2", "o3"}
Home == [o \in Owners |-> [session |-> IF o = "o3" THEN "s2" ELSE "s1", node |-> 1, group |-> 0]]
Bytes(first, length) == [kind |-> "bytes", start |-> first, length |-> length]
Cut(at) == [kind |-> "cut", start |-> at, length |-> 0]
Command(edit, mode1, range, wait) ==
    [edit |-> edit, mode |-> mode1, range |-> range, wait |-> wait, drop |-> FALSE, claim |-> <<>>]
Converting(mode1) == [Command("replace", mode1, Bytes(0, 2), TRUE) EXCEPT !.drop = TRUE]
Removing(q, mode1, range) == [Command("removeExact", mode1, range, FALSE) EXCEPT !.claim = <<q, 1>>]

Free == [domain |-> "record", ranges |-> 3, waiters |-> 2, requests |-> 3, sessionRanges |-> 3,
         sessionPending |-> 2, edges |-> 3, failures |-> FALSE, single |-> FALSE, calls |-> {},
         threads |-> {t1}, bound |-> Owners,
         batches |-> {<<Command("replace", "exclusive", Bytes(0, 2), TRUE)>>,
                      <<Command("replace", "shared", Bytes(1, 2), TRUE)>>,
                      <<Command("subtract", "shared", Bytes(1, 1), FALSE)>>}]
Protections ==
    [\* Waiting in turn; every participant has one request at a time.
     record |-> [Free EXCEPT !.single = TRUE],
     \* Whole-file conversions drop what is held before they acquire.
     convert |-> [Free EXCEPT !.domain = "wholeFile", !.requests = 2, !.calls = {"Replay", "Drop"},
                              !.batches = {<<Converting("shared")>>, <<Converting("exclusive")>>}],
     replay |-> [Free EXCEPT !.domain = "wholeFile", !.threads = {t1, t2}, !.requests = 2,
                             !.calls = {"Replay"},
                             !.batches = {<<Converting("shared")>>, <<Converting("exclusive")>>}],
     \* Exact claims, removed by other requests and by the request itself.
     exact |-> [Free EXCEPT !.domain = "enforced",
                            !.batches = {<<Command("addExact", "exclusive", Bytes(0, 2), TRUE)>>,
                                         <<Command("addExact", "shared", Cut(1), FALSE),
                                           Removing("q2", "shared", Cut(1))>>,
                                         <<Removing("q1", "exclusive", Bytes(0, 2)),
                                           Command("addExact", "exclusive", Bytes(1, 2), FALSE)>>}],
     \* References end, sessions are fenced.
     retire |-> [Free EXCEPT !.failures = TRUE, !.requests = 2, !.bound = {"o1", "o3"}, !.domain = "enforced",
                             !.batches = {<<Command("addExact", "exclusive", Bytes(0, 2), TRUE)>>}],
     \* Callers give up and identities are forgotten.
     forget |-> [Free EXCEPT !.calls = {"Cancel", "Forget"}, !.requests = 2,
                             !.batches = {<<Command("replace", "exclusive", Bytes(0, 2), TRUE)>>}],
     \* Owners retire.
     leave |-> [Free EXCEPT !.calls = {"Forget", "RetireOwner"}, !.requests = 2,
                            !.batches = {<<Command("replace", "exclusive", Bytes(0, 2), TRUE)>>}]]

R == INSTANCE RangeLocks WITH
       Sessions <- {"s1", "s2"}, Requests <- {"q1", "q2", "q3"}, Threads <- {t1, t2}, MaxByte <- 2,
       Settings <- Protections, c <- ranges

-----------------------------------------------------------------------------
(* File sessions.                                                           *)

Callers == {c1, c2}
Calm == [history |-> 1, lease |-> 1, files |-> 1, faults |-> 1, callers |-> Callers, calls |-> {},
         operations |-> 2, ids |-> {"a1"}]
Sessions ==
    [data |-> [Calm EXCEPT !.calls = {"Open", "Data"}, !.lease = 2],
     observe |-> [Calm EXCEPT !.calls = {"Open", "Observe", "Renew"}, !.faults = 0],
     closing |-> [Calm EXCEPT !.calls = {"Open", "CloseAction"}],
     acting |-> [Calm EXCEPT !.calls = {"Action", "Renew"}, !.lease = 2],
     crowded |-> [Calm EXCEPT !.calls = {"Action", "Observe"}, !.operations = 1, !.ids = {"a1", "a2"}],
     dropping |-> [Calm EXCEPT !.calls = {"Open", "Owner", "Close"}, !.callers = {c1}, !.faults = 0],
     binding |-> [Calm EXCEPT !.calls = {"Open", "Owner", "CloseAction"}, !.callers = {c1}],
     mixed |-> [Calm EXCEPT !.calls = {"Open", "Action", "CloseAction"}, !.faults = 0]]

S == INSTANCE FileSession WITH
       Refs <- {"f1"}, Ids <- {"a1", "a2"}, Settings <- Sessions, s <- session, ref <- reference, faults <- failures

-----------------------------------------------------------------------------
Init ==
    \/ D!Init /\ NoProtection /\ NotRetained
    \/ R!Init /\ NoDeletion /\ NotRetained
    \/ S!Init /\ NoDeletion /\ NoProtection

Deleting == setting \in DOMAIN Deletions
Protecting == setting \in DOMAIN Protections
Retaining == setting \in DOMAIN Sessions

Next ==
    \/ Deleting /\ D!Next /\ UNCHANGED <<protection, retained>>
    \/ Protecting /\ R!Next /\ UNCHANGED <<deletion, retained>>
    \/ Retaining /\ S!Next /\ UNCHANGED <<deletion, protection>>

Spec == Init /\ [][Next]_vars

Symmetry == Permutations({r1, r2}) \cup Permutations({i1, i2}) \cup Permutations({t1, t2}) \cup Permutations(Callers)

-----------------------------------------------------------------------------
\* Open references keep their nodes, nameless nodes have references (discard,
\* finalizePendingUnlinkLocked), and no obligation to delete is orphaned:
\* ReferencesKeepNodes and ObligationsBacked of DeleteIntents.
DeletionsBacked == Deleting => D!ReferencesKeepNodes /\ D!ObligationsBacked
\* What was accepted for deletion keeps its place until it goes, and a deletion
\* is taken back only by a caller who read about it: Stands and ClearsCurrent of
\* DeleteIntents.
AcceptedStands == [][Deleting => D!Stands /\ D!ClearsCurrent]_vars


\* After the fence nothing of a session is under way: FencedQuiet of FileSession.
FencedQuiet == Retaining => S!FencedQuiet
\* An action identity is executed at most once and its receipts are true, and
\* close receipts are bounded and match what runs: AtMostOnce and CloseAccounted
\* of FileSession.
AtMostOnce == Retaining => S!AtMostOnce /\ S!CloseAccounted
=============================================================================
