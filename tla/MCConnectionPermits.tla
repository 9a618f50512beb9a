------------------------ MODULE MCConnectionPermits ------------------------
(* A small instance of ConnectionPermits. *)
EXTENDS ConnectionPermits, TLC

CONSTANTS t1, t2, t3, l1, l2, p1

\* Two turns on one lane, one on a sibling lane of the same profile.
MCLaneOf == t1 :> l1 @@ t2 :> l1 @@ t3 :> l2
MCProfileOf == l1 :> p1 @@ l2 :> p1

\* A process with a slot to spare, and one where every turn waits for the slot.
MCPools == {[slots |-> 2, cap |-> l1 :> 2 @@ l2 :> 1],
            [slots |-> 1, cap |-> l1 :> 1 @@ l2 :> 1]}
=============================================================================
