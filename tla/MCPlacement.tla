----------------------------- MODULE MCPlacement ------------------------------
(* Instances of Placement: four nodes, two of them with one host name and    *)
(* one not ready, one perhaps overcommitted; batches of three tasks.         *)
EXTENDS Placement, TLC

CONSTANTS n1, n2, n3, n4

MCCapacity == (n1 :> [cpu |-> 2, mem |-> 2]) @@ (n2 :> [cpu |-> 4, mem |-> 2])
              @@ (n3 :> [cpu |-> 2, mem |-> 2]) @@ (n4 :> [cpu |-> 4, mem |-> 4])
MCStatus == (n1 :> "ready") @@ (n2 :> "ready") @@ (n3 :> "ready") @@ (n4 :> "not_ready")
MCLabels == (n1 :> ("zone" :> "a")) @@ (n2 :> ("zone" :> "b")) @@ (n3 :> ("zone" :> "a")) @@ (n4 :> ("zone" :> "b"))
MCHostname == (n1 :> 1) @@ (n2 :> 2) @@ (n3 :> 1) @@ (n4 :> 3)

NoConstraints == [k \in {} |-> ""]
MCKinds ==
    {[cpu |-> 1, mem |-> 1, policy |-> "bin_pack", constraints |-> NoConstraints],
     [cpu |-> 1, mem |-> 1, policy |-> "spread", constraints |-> NoConstraints],
     [cpu |-> 2, mem |-> 1, policy |-> "spread", constraints |-> "zone" :> "b"],
     [cpu |-> 3, mem |-> 1, policy |-> "bin_pack", constraints |-> NoConstraints],
     [cpu |-> 1, mem |-> 2, policy |-> "bin_pack", constraints |-> NoConstraints]}

MCBatches == [1 .. 3 -> MCKinds]
MCMeasurements ==
    {[n \in Nodes |-> IF n \in busy THEN [cpu |-> 1, mem |-> 1] ELSE IF n \in over THEN [cpu |-> 3, mem |-> 1] ELSE [cpu |-> 0, mem |-> 0]] :
        busy \in SUBSET {n1, n2, n3}, over \in SUBSET {n1}}
MCLists == {l \in [1 .. 4 -> Nodes] : {l[k] : k \in 1 .. 4} = Nodes}
===============================================================================
