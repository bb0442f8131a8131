----------------------------- MODULE MCClients -----------------------------
(* Small instances of the client's side of a served file: an action over the HTTP
   transport, the close of a reference and of its session, and the files of the
   local copy.  A behaviour follows one component in one setting; the variables of
   the others stay 0. *)
EXTENDS Naturals, Sequences, FiniteSets, TLC

CONSTANTS c1, c2

VARIABLES setting, caller, rpc,
          srv, cli, id, file,
          f, cs, sf, ss, act, nat,
          base, se, rf, au, ca, left

acting == <<srv, cli, id, file>>
closing == <<f, cs, sf, ss, act, nat>>
copying == <<base, se, rf, au, ca, left>>
vars == <<setting, caller, rpc, acting, closing, copying>>

-----------------------------------------------------------------------------
(* Actions: how often an epoch may pass and an answer be lost.              *)

Acts(ops, epochs, lost) ==
    [epochs |-> epochs, actions |-> 2, pending |-> 2, lease |-> 2, lost |-> lost, barriers |-> FALSE,
     ops |-> ops, ids |-> 2, callers |-> {c1}]
ActionSettings ==
    [write |-> [Acts({"w"}, 3, 2) EXCEPT !.ids = 3],
     two |-> [Acts({"w"}, 2, 2) EXCEPT !.callers = {c1, c2}],
     barrier |-> [Acts({"w", "v"}, 2, 2) EXCEPT !.barriers = TRUE],
     renew |-> Acts({"w", "r"}, 3, 2),
     name |-> Acts({"n"}, 3, 1),
     mutate |-> Acts({"m", "close"}, 2, 1),
     open |-> Acts({"o"}, 3, 2),
     openAt |-> Acts({"p"}, 2, 1)]

A == INSTANCE HttpActions WITH
       Callers <- {c1, c2}, Ids <- 1 .. 3, Slots <- 1 .. 3, Settings <- ActionSettings

-----------------------------------------------------------------------------
(* Closes.                                                                  *)

Closes(calls) == [epochs |-> 2, lost |-> 1, faults |-> 1, barriers |-> FALSE, expires |-> FALSE,
                  stops |-> FALSE, calls |-> calls]
CloseSettings ==
    [implicit |-> [Closes({"close"}) EXCEPT !.epochs = 3],
     explicit |-> [Closes({"attempt"}) EXCEPT !.faults = 2],
     both |-> Closes({"attempt", "close"}),
     withSession |-> [Closes({"close", "session"}) EXCEPT !.epochs = 1, !.lost = 0],
     behind |-> [Closes({"close"}) EXCEPT !.barriers = TRUE],
     sessionOnly |-> [Closes({"session"}) EXCEPT !.barriers = TRUE],
     expiring |-> [Closes({"attempt"}) EXCEPT !.expires = TRUE],
     stopping |-> [Closes({"attempt"}) EXCEPT !.stops = TRUE]]

C == INSTANCE HttpCloses WITH Ids <- 1 .. 4, Slots <- {1, 2}, Settings <- CloseSettings

-----------------------------------------------------------------------------
(* Files of the local copy.                                                 *)

Mishaps(lost, fault, reject, barrier, stream, cancel, calls, full) ==
    [lost |-> lost, fault |-> fault, reject |-> reject, barrier |-> barrier, stream |-> stream,
     cancel |-> cancel, calls |-> calls, full |-> full]
Copies(budget, ops) ==
    [budget |-> budget, ops |-> ops, sessions |-> {1}, refs |-> {1}, gens |-> 2, epochs |-> 1, closes |-> 1,
     max |-> 1, log |-> 3, callers |-> {1}]
Two(s) == [s EXCEPT !.callers = {1, 2}]
CopySettings ==
    [close |-> Two(Copies(Mishaps(1, 1, 0, 1, 1, 1, 2, 0), {"close"})),
     action |-> Two(Copies(Mishaps(1, 1, 1, 0, 0, 0, 2, 0), {"action"})),
     rejected |-> [Copies(Mishaps(2, 0, 1, 0, 0, 0, 2, 0), {"action"}) EXCEPT !.epochs = 3],
     epochs |-> [Copies(Mishaps(1, 0, 0, 0, 0, 0, 3, 0), {"action"}) EXCEPT !.epochs = 3],
     room |-> [Copies(Mishaps(1, 0, 0, 0, 0, 0, 2, 0), {"action"}) EXCEPT !.refs = {1, 2}],
     adopted |-> [Copies(Mishaps(1, 1, 0, 0, 0, 0, 4, 0), {"action", "close"}) EXCEPT !.epochs = 2],
     closeAction |-> Copies(Mishaps(1, 1, 0, 1, 0, 0, 3, 0), {"action", "close"}),
     parent |-> Copies(Mishaps(1, 0, 0, 1, 0, 0, 3, 0), {"action", "close", "end"}),
     parents |-> Two([Copies(Mishaps(0, 1, 0, 0, 0, 0, 4, 0), {"action", "close", "end"}) EXCEPT !.gens = 1]),
     ended |-> Two([Copies(Mishaps(0, 0, 0, 0, 0, 0, 2, 0), {"action", "end"}) EXCEPT !.epochs = 2]),
     operations |-> Two(Copies(Mishaps(0, 1, 0, 0, 1, 1, 2, 0), {"read", "mutate", "observe", "control", "end"})),
     opens |-> [Copies(Mishaps(1, 1, 0, 1, 1, 0, 3, 1), {"open"}) EXCEPT !.refs = {}],
     openEnd |-> Two([Copies(Mishaps(1, 0, 0, 0, 0, 1, 2, 0), {"open", "end"}) EXCEPT !.refs = {}]),
     stop |-> Two([Copies(Mishaps(1, 1, 0, 1, 0, 0, 0, 1), {"session", "stop"})
                     EXCEPT !.sessions = {}, !.refs = {}]),
     session |-> [Copies(Mishaps(1, 1, 0, 1, 1, 1, 2, 1), {"session", "end"}) EXCEPT !.sessions = {}, !.refs = {}]]

F == INSTANCE CopyFiles WITH
       Callers <- {1, 2}, Refs <- {1, 2}, Sess <- {1, 2}, Ids <- 1 .. 3, Settings <- CopySettings

-----------------------------------------------------------------------------
NoAction == srv = 0 /\ cli = 0 /\ id = 0 /\ file = 0
NoClose == f = 0 /\ cs = 0 /\ sf = 0 /\ ss = 0 /\ act = 0 /\ nat = 0
NoCopy == base = 0 /\ se = 0 /\ rf = 0 /\ au = 0 /\ ca = 0 /\ left = 0
NoCall == caller = 0 /\ rpc = 0

Acting == setting \in DOMAIN ActionSettings
Closing == setting \in DOMAIN CloseSettings
Copying == setting \in DOMAIN CopySettings

Init ==
    \/ A!Init /\ NoClose /\ NoCopy
    \/ C!Init /\ NoAction /\ NoCopy
    \/ F!Init /\ NoAction /\ NoClose /\ NoCall

Next ==
    \/ Acting /\ A!Next /\ UNCHANGED <<closing, copying>>
    \/ Closing /\ C!Next /\ UNCHANGED <<acting, copying>>
    \/ Copying /\ F!Next /\ UNCHANGED <<caller, rpc, acting, closing>>

Spec == Init /\ [][Next]_vars

\* What the client holds for released is, a proof that a close did not run stays
\* true, and the reservations for the receipts add up (ReleaseTrue and ReserveExact
\* of HttpCloses).
ReleaseTrue == Closing => C!ReleaseTrue /\ C!ReserveExact
\* A call is answered with the outcome of its own identity, and nothing runs in what
\* is closed (AnswersOwnId and ClosedQuiet of CopyFiles).
AnswersOwnId == Copying => F!AnswersOwnId /\ F!ClosedQuiet
=============================================================================
