-------------------------- MODULE MCLockAuthority --------------------------
(* Small instances of LockAuthority.  A behaviour follows one setting, so the *)
(* settings of a run add up and do not multiply.                              *)
EXTENDS LockAuthority, TLC

CONSTANTS s1, o1, o2, o3, k1, r1, r2

OneSession == [o \in Owners |-> s1]

Plain == [sessionIdle |-> 2, resourceTTL |-> 1, ownerActionsPerSession |-> 2,
          actionsPerOwner |-> 1, maxActions |-> 3, maxGrants |-> 1, grantsPerOwner |-> 1,
          maxQueued |-> 2, queuedPerOwner |-> 1, queuedPerResource |-> 2, lastGeneration |-> 1,
          requests |-> {r1}, leases |-> {1}, waits |-> {1}, offered |-> {}, horizon |-> 0, maxTime |-> 1,
          restarts |-> 0]

Enter == {"enroll", "resolve", "acquire"}

\* Three owners queue for one file.
Fifo == [Plain EXCEPT !.ownerActionsPerSession = 3, !.maxGrants = 3, !.lastGeneration = 3,
                      !.offered = Enter]
\* Two owners hand the file over, by releasing it or by letting the lease run
\* out, while persists and guards fail.
Handing == [Plain EXCEPT !.maxGrants = 2, !.lastGeneration = 2,
                         !.offered = Enter \cup {"release", "failure"}]
\* Commits race acquisition and expiry.
Commits == [Plain EXCEPT !.waits = {0}, !.horizon = 1, !.offered = Enter \cup {"publish"}]
\* A commit races the end of its owner and of its session.
Ending == [Plain EXCEPT !.waits = {0}, !.ownerActionsPerSession = 1,
                        !.offered = Enter \cup {"publish", "retireOwner", "closeSession"}]
\* Cancellation and queries at every point of an acquisition.
Receipts == [Plain EXCEPT !.offered = Enter \cup {"cancel", "query", "refused"}]
\* One owner renews its lease, for longer or for shorter, as it runs out.
Renewals == [Plain EXCEPT !.ownerActionsPerSession = 1, !.actionsPerOwner = 2,
                          !.requests = {r1, r2}, !.leases = {1, 2}, !.waits = {0},
                          !.horizon = 1, !.offered = Enter \cup {"renew"}]
\* The volume is reopened.
Reopened == [Plain EXCEPT !.ownerActionsPerSession = 1, !.leases = {1, 2}, !.waits = {0},
                          !.horizon = 1, !.maxTime = 2, !.restarts = 1,
                          !.offered = Enter \cup {"publish"}]
\* The authority is fenced or closed while a request waits.
Stopping == [Plain EXCEPT !.maxTime = 0, !.offered = Enter \cup {"fence", "close"}]
LockSettings == [fifo |-> Fifo, handing |-> Handing, commits |-> Commits,
                 ending |-> Ending, receipts |-> Receipts, renewals |-> Renewals,
                 reopened |-> Reopened, stopping |-> Stopping]

Symmetry == Permutations(Owners)
=============================================================================
