--------------------------- MODULE MCContentStore ---------------------------
(* Small instances of ContentStore.  A behaviour follows one setting, so the  *)
(* settings of a run add up and do not multiply.                              *)
EXTENDS ContentStore, TLC

CONSTANTS a, b, p1, p2, h1, h2

Plain == [names |-> {a}, procs |-> {p1, p2}, handles |-> {}, offered |-> {}, keys |-> 3,
          nodes |-> 2, revisions |-> 2, faults |-> 1, pending |-> 3, allowance |-> 0, unit |-> 1]

\* Writes, reads and removals of one file, with every fault.
Writing == [Plain EXCEPT !.offered = {"write", "read", "remove", "put", "refused", "uncertain",
                                      "delete", "crash"}, !.keys = 2]
\* The same with one more object, and a file that stays.
Rewriting == [Writing EXCEPT !.offered = @ \ {"remove"}, !.keys = 3]
\* Edits through a retained file race whole-file writes.
Editing == [Plain EXCEPT !.offered = {"write", "edit", "clear", "open", "create"},
                         !.handles = {h1}, !.keys = 2, !.nodes = 1, !.revisions = 3, !.pending = 2]
\* Two writers share an allowance that only one of them fits in.
Crowded == [Plain EXCEPT !.offered = {"write", "remove"}, !.names = {a, b}, !.keys = 2,
                         !.allowance = 2, !.unit = 2]
\* Two retained files keep nodes while names go and change.
Retaining == [Plain EXCEPT !.offered = {"write", "edit", "open", "create", "remove", "rename",
                                        "uncertain", "crash"},
                           !.names = {a, b}, !.procs = {p1}, !.handles = {h1, h2}, !.keys = 1,
                           !.revisions = 1]
\* The storage closes under its callers.
Ending == [Plain EXCEPT !.offered = {"edit", "read", "open", "create", "close"},
                        !.handles = {h1}, !.keys = 1, !.nodes = 1]
Cases == [writing |-> Writing, rewriting |-> Rewriting, editing |-> Editing,
          crowded |-> Crowded, retaining |-> Retaining, ending |-> Ending]

\* One file is opened with Truncate.
Signalling == [signalling |-> [Plain EXCEPT !.offered = {"write", "open", "clear"},
                                            !.procs = {p1}, !.handles = {h1}, !.keys = 2]]

Symmetric == Permutations(Procs)

\* Nothing is lost track of and nothing is used after its end: no object without a
\* row, no bytes charged to nobody, no node without a name or a holder, and no
\* operation in a closed storage (NoUntrackedObject, UsedExact, NoOrphan and
\* ClosedQuiet of ContentStore).
NothingLeaks == NoUntrackedObject /\ UsedExact /\ NoOrphan /\ ClosedQuiet
=============================================================================
