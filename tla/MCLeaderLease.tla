---------------------------- MODULE MCLeaderLease -----------------------------
(* Instances of LeaderLease: two replicas, the first with a fast clock.       *)
EXTENDS LeaderLease

CONSTANTS r1

\* r1's clock is ahead by the whole bound, the others are exact.
MCSkew == [r \in Replicas |-> IF r = r1 THEN MaxSkew ELSE 0]
===============================================================================
