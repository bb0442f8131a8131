--------------------------- MODULE MCReplication ---------------------------
(* Small instances of Replication.  A behaviour follows one setting, so the   *)
(* settings of a run add up and do not multiply.                              *)
EXTENDS Replication, TLC

CONSTANTS a, b, c1, c2

Plain == [names |-> {a}, existing |-> {a}, callers |-> {}, offered |-> {}, cap |-> 2, page |-> 2,
          positions |-> 3, logs |-> 1, faults |-> 1]

\* Another writer changes names while the connection, the server or a timeout
\* fails and entries age out.
Writing == [Plain EXCEPT !.names = {a, b}, !.cap = 3, !.positions = 5,
                           !.offered = {"rename", "remove", "create", "replace", "elsewhere",
                                        "age", "drop", "crash", "timeout"}]
\* Streams end and are picked up again, and another volume takes positions.
Resuming == [Plain EXCEPT !.positions = 4,
                          !.offered = {"modify", "elsewhere", "drop", "stop", "neighbour"}]
\* Two callers share one confirmation slot.
Confirming == [Plain EXCEPT !.callers = {c1, c2},
                            !.offered = {"modify", "elsewhere", "drop", "expire", "cancel", "close"}]
\* The server comes back with a new incarnation of its log.
Migrating == [Plain EXCEPT !.callers = {c1}, !.positions = 2, !.logs = 2,
                           !.faults = 2,
                           !.offered = {"modify", "elsewhere", "crash", "migrate", "expire"}]
Cases == [following |-> Writing, resuming |-> Resuming, confirming |-> Confirming,
          migrating |-> Migrating]

\* A rename over an existing name.
Overwriting == [overwriting |-> [Plain EXCEPT !.names = {a, b}, !.existing = {a, b}, !.cap = 4,
                                              !.faults = 0, !.offered = {"rename", "elsewhere"}]]

Symmetry == Permutations(Callers)
============================================================================
