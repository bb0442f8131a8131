---------------------------- MODULE MCSmbDeletes ----------------------------
(* One intent left over from an earlier export, met while the export is taken down:
   one answer of the volume may be lost.                                     *)
EXTENDS SmbDeletes, TLC

MCSettings ==
    [leftOver |-> [budget |-> [lost |-> 1, stale |-> 0, fail |-> 0, passes |-> 1, change |-> 0, crash |-> 0],
                   intents |-> 1 :> "pending" @@ 2 :> "none", slots |-> 1, more |-> 2, stops |-> TRUE]]
=============================================================================
