---------------------------- MODULE MCLeaderClient ----------------------------
(* Instances of LeaderClient: a client that knows two of the replicas.       *)
EXTENDS LeaderClient

CONSTANTS r1, r2

MCAddrs == <<r1, r2>>
===============================================================================
