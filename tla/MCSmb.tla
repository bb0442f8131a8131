------------------------------- MODULE MCSmb -------------------------------
(* Small instances of the Windows SMB endpoint: the files of a tree, its
   deletion intents, and sessions with their trees and connections.  A behaviour
   follows one component in one setting; the variables of the others stay 0. *)
EXTENDS Naturals, Sequences, FiniteSets, TLC

VARIABLES setting, left,
          hand, tree, command, owner, be,
          own, publication, rec, run, vol, due,
          ses, au, tr, exp, conn, req, act, late

files == <<hand, tree, command, owner, be>>
intents == <<own, publication, rec, run, vol, due>>
sessions == <<ses, au, tr, exp, conn, req, act, late>>
vars == <<setting, left, files, intents, sessions>>

-----------------------------------------------------------------------------
(* Files of a tree.                                                         *)

Faults(lost, cancel, other, renew, refuse, closes) ==
    [lost |-> lost, cancel |-> cancel, other |-> other, renew |-> renew, refuse |-> refuse,
     closes |-> closes]
Do(op) == [op |-> op, h |-> 1, disp |-> "openIf"]
Make(r, disp) == [op |-> "create", h |-> r, disp |-> disp]
Opened == [open |-> {1}, node |-> 1, budget |-> Faults(1, 0, 0, 0, 0, 0), script |-> <<>>, queue |-> 2,
           owners |-> 3, handles |-> 3, bytes |-> 5]
Pair(first, second) == 2 :> Do(first) @@ 3 :> Do(second)
FileSettings ==
    [writes |-> [Opened EXCEPT !.script = Pair("write", "write"), !.budget = Faults(2, 1, 1, 0, 0, 0)],
     retry |-> [Opened EXCEPT !.script = 2 :> Do("write"), !.budget = Faults(1, 0, 3, 0, 0, 0)],
     closes |-> [Opened EXCEPT !.script = Pair("write", "close"), !.budget = Faults(2, 1, 0, 0, 0, 0)],
     closeTwice |-> [Opened EXCEPT !.script = Pair("close", "close"), !.budget = Faults(1, 1, 0, 1, 2, 0)],
     treeClose |-> [Opened EXCEPT !.script = Pair("write", "flush"), !.budget = Faults(1, 1, 0, 0, 0, 1)],
     treeCreate |-> [Opened EXCEPT !.open = {}, !.node = 0, !.script = 2 :> Make(2, "openIf"),
                                   !.budget = Faults(2, 1, 1, 0, 1, 2)],
     rename |-> [Opened EXCEPT !.script = Pair("name", "read"), !.owners = 1,
                               !.budget = Faults(2, 1, 1, 0, 0, 0)],
     full |-> [Opened EXCEPT !.script = Pair("write", "flush"), !.owners = 1, !.queue = 1],
     flush |-> [Opened EXCEPT !.script = Pair("flush", "flush"), !.budget = Faults(2, 1, 0, 0, 0, 0)],
     exclusive |-> [Opened EXCEPT !.open = {}, !.node = 0, !.handles = 1,
                                  !.script = 2 :> Make(2, "create") @@ 3 :> Make(3, "open")],
     lists |-> [Opened EXCEPT !.open = {1, 2}, !.bytes = 3,
                              !.script = 2 :> [Do("list") EXCEPT !.h = 2] @@ 3 :> Do("list")],
     relist |-> [Opened EXCEPT !.script = Pair("list", "list"), !.bytes = 4],
     info |-> [Opened EXCEPT !.script = Pair("info", "query"), !.budget = Faults(1, 0, 1, 0, 0, 0)],
     renameClose |-> [Opened EXCEPT !.script = Pair("name", "read"), !.budget = Faults(1, 0, 0, 0, 0, 1)],
     create |-> [Opened EXCEPT !.open = {}, !.node = 0,
                               !.script = 1 :> Make(1, "openIf") @@ Pair("write", "close"),
                               !.budget = Faults(1, 0, 1, 0, 0, 1)]]

F == INSTANCE SmbFiles WITH Reqs <- 1 .. 3, Settings <- FileSettings, req <- command, own <- owner

-----------------------------------------------------------------------------
(* Deletion intents.                                                        *)

Mishaps(lost, stale, fail, passes, change, crash) ==
    [lost |-> lost, stale |-> stale, fail |-> fail, passes |-> passes, change |-> change,
     crash |-> crash]
NoIntents == [i \in 1 .. 4 |-> "none"]
Recovering == [budget |-> Mishaps(0, 0, 0, 3, 0, 1), intents |-> NoIntents, slots |-> 1, more |-> 2,
               stops |-> FALSE]
IntentSettings ==
    [answers |-> [Recovering EXCEPT !.budget = Mishaps(2, 0, 0, 2, 0, 0),
                                    !.intents = [NoIntents EXCEPT ![3] = "done"]],
     failing |-> [Recovering EXCEPT !.budget = Mishaps(1, 1, 1, 2, 0, 0), !.more = 1,
                                    !.intents = [NoIntents EXCEPT ![3] = "pending", ![4] = "pending"]],
     changing |-> [Recovering EXCEPT !.budget = Mishaps(3, 0, 0, 3, 1, 0), !.more = 1,
                                     !.intents = [NoIntents EXCEPT ![3] = "done", ![4] = "done"]],
     crowded |-> [Recovering EXCEPT !.budget = Mishaps(1, 0, 0, 3, 1, 0), !.slots = 0,
                                    !.intents = [NoIntents EXCEPT ![3] = "done"]],
     restarted |-> [Recovering EXCEPT !.more = 1],
     unpublished |-> [Recovering EXCEPT !.budget = Mishaps(2, 0, 0, 2, 1, 0), !.more = 1, !.stops = TRUE,
                                        !.intents = [NoIntents EXCEPT ![3] = "done"]]]

D == INSTANCE SmbDeletes WITH Handles <- {2}, Ids <- 1 .. 4, Settings <- IntentSettings,
                              exp <- publication

-----------------------------------------------------------------------------
(* Sessions, trees and connections.                                         *)

Calm == [past |-> 0, fault |-> 0, deny |-> 0, close |-> 0, timeout |-> 0, more |-> 0, expire |-> 0,
         open |-> 0, renew |-> 0, handles |-> 0, reject |-> 0]
Asks(op, t, prev, after) == [op |-> op, s |-> 1, c |-> 1, t |-> t, prev |-> prev, after |-> after]
Second(op, prev, after) == [op |-> op, s |-> 2, c |-> 2, t |-> 0, prev |-> prev, after |-> after]
Setup == Asks("setup", 0, 0, {})
Connect == Asks("connect", 0, 0, {1})
Logoff(after) == Asks("logoff", 0, 0, after)
Reauth(after) == Asks("reauth", 0, 0, after)
Script(script, budget) ==
    [budget |-> budget @@ Calm, script |-> script @@ [r \in 1 .. 4 |-> Asks("none", 0, 0, 1 .. 4)],
     conn |-> <<1, 2>>, sessions |-> 2, trees |-> 2, drops |-> FALSE, stops |-> "never"]
SessionSettings ==
    [lateConnect |-> Script(1 :> Setup @@ 2 :> Connect @@ 3 :> Logoff({1}),
                            "timeout" :> 1 @@ "open" :> 1 @@ "handles" :> 1 @@ "fault" :> 1),
     disconnect |-> Script(1 :> Setup @@ 2 :> Connect @@ 3 :> Connect @@ 4 :> Asks("disc", 2, 0, {2}),
                           "handles" :> 1 @@ "open" :> 1 @@ "deny" :> 1),
     waiting |-> Script(1 :> Setup @@ 2 :> Connect @@ 3 :> Connect, "timeout" :> 1),
     working |-> Script(1 :> Setup @@ 2 :> Connect @@ 3 :> Asks("work", 2, 0, {2}) @@ 4 :> Logoff({2}),
                        "renew" :> 1 @@ "reject" :> 1),
     authentication |-> Script(1 :> Setup @@ 2 :> Reauth({1}) @@ 3 :> Logoff({1}),
                               "past" :> 1 @@ "deny" :> 1 @@ "fault" :> 1 @@ "more" :> 1),
     expiry |-> Script(1 :> Setup @@ 2 :> Reauth({1}) @@ 3 :> Connect,
                       "past" :> 1 @@ "expire" :> 1 @@ "fault" :> 1 @@ "timeout" :> 1),
     legs |-> Script(1 :> Setup @@ 2 :> Reauth({1}) @@ 3 :> Reauth({2}),
                     "past" :> 1 @@ "more" :> 1 @@ "fault" :> 2),
     refused |-> Script(1 :> Setup @@ 2 :> Connect @@ 3 :> Logoff({1}), "deny" :> 1 @@ "close" :> 1),
     previous |-> Script(1 :> Setup @@ 2 :> Connect @@ 3 :> Second("setup", 1, {1}), "close" :> 1),
     mutual |-> Script(1 :> Setup @@ 2 :> Second("setup", 0, {}) @@ 3 :> Asks("reauth", 0, 2, {1, 2})
                         @@ 4 :> Second("reauth", 1, {1, 2}), Calm),
     dropped |-> [Script(1 :> Setup @@ 2 :> Connect @@ 3 :> Asks("work", 2, 0, {2}),
                         "handles" :> 1 @@ "timeout" :> 1)
                    EXCEPT !.drops = TRUE, !.conn = <<1, 1>>],
     down |-> [Script(1 :> Setup @@ 2 :> Connect, Calm) EXCEPT !.drops = TRUE, !.stops = "idle"],
     joined |-> Script(1 :> Setup @@ 2 :> Logoff({1}) @@ 3 :> Logoff({1}),
                       "close" :> 1 @@ "timeout" :> 1),
     stopLate |-> [Script(1 :> Setup @@ 2 :> Connect @@ 3 :> Logoff({2}), "timeout" :> 1)
                     EXCEPT !.stops = "any"],
     idle |-> [Script(1 :> Setup @@ 2 :> Connect @@ 3 :> Asks("disc", 2, 0, {2}),
                      "close" :> 1 @@ "renew" :> 1) EXCEPT !.stops = "idle"]]

S == INSTANCE SmbSessions WITH
       Reqs <- 1 .. 4, Sessions <- {1, 2}, Conns <- {1, 2}, Settings <- SessionSettings

-----------------------------------------------------------------------------
NoFiles == hand = 0 /\ tree = 0 /\ command = 0 /\ owner = 0 /\ be = 0
NoRecovery == own = 0 /\ publication = 0 /\ rec = 0 /\ run = 0 /\ vol = 0 /\ due = 0
NoSessions == ses = 0 /\ au = 0 /\ tr = 0 /\ exp = 0 /\ conn = 0 /\ req = 0 /\ act = 0 /\ late = 0

Serving == setting \in DOMAIN FileSettings
Deleting == setting \in DOMAIN IntentSettings
Connected == setting \in DOMAIN SessionSettings

Init ==
    \/ F!Init /\ NoRecovery /\ NoSessions
    \/ D!Init /\ NoFiles /\ NoSessions
    \/ S!Init /\ NoFiles /\ NoRecovery

Next ==
    \/ Serving /\ F!Next /\ UNCHANGED <<intents, sessions>>
    \/ Deleting /\ D!Next /\ UNCHANGED <<files, sessions>>
    \/ Connected /\ S!Next /\ UNCHANGED <<files, intents>>

Spec == Init /\ [][Next]_vars

\* A change a client was told about happened, once, and a change it was told did
\* not happen did not (ChangesTrue of SmbFiles).
ChangesTrue == Serving => F!ChangesTrue
\* Changes of one handle reach the volume in order, and every reference of the
\* volume has a handle that answers for it (HandleOrder and ReferencesOwned of
\* SmbFiles).
HandleOrder == Serving => F!HandleOrder /\ F!ReferencesOwned
\* An export serves only when every intent left over was settled, and an intent is
\* acknowledged only by who answers for it (ReadyMeansRecovered and AcksOwned of
\* SmbDeletes).
ReadyMeansRecovered == Deleting => D!ReadyMeansRecovered /\ D!AcksOwned
\* A request that took its session's signer can sign its response with it, however
\* the session is retired meanwhile; a session counts as cleaned only when nothing of
\* it is left; an export that is gone has no users (SignerLives, CleanedIsClean and
\* GoneIsUnused of SmbSessions).
RetirementSound == Connected => S!SignerLives /\ S!CleanedIsClean /\ S!GoneIsUnused
=============================================================================
