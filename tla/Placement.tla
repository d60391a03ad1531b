------------------------------ MODULE Placement -------------------------------
(***************************************************************************)
(* The loops of Engine.tick and Place (internal/scheduler): for every task *)
(* of the batch, Place goes through the listed nodes, skips those that a   *)
(* filter rejects, scores the others by the job's policy and keeps the     *)
(* best so far.  Scores are kept as integers, twice the code's value in    *)
(* units of 1/Unit; Unit is a common multiple of the capacities, so every  *)
(* quotient is exact.  (Rounding of the code's floating-point sums could   *)
(* order two equal scores, the same way in every tick.)                    *)
(***************************************************************************)
EXTENDS Batch, Integers, Functions

CONSTANTS
    Hostname,           \* Hostname[n]: its place in the order of host names
    Lists,              \* the orders ListActiveNodes may return the nodes in
    Unit                \* utilization 1

ASSUME HostnameAssumption == Hostname \in [Nodes -> Nat]
ASSUME UnitAssumption == Unit \in Nat
ASSUME ListsAssumption ==
    \A l \in Lists : /\ Len(l) \in Nat
                     /\ DOMAIN l = 1 .. Len(l)
                     /\ {l[i] : i \in 1 .. Len(l)} = Nodes
                     /\ \A i, j \in 1 .. Len(l) : l[i] = l[j] => i = j

VARIABLES
    list,               \* the nodes, as listed
    i,                  \* Place's loop: the next node to look at
    best,               \* the best node so far; NoNode: not found
    bestScore

vars == <<batch, measured, alloc, place, list, i, best, bestScore>>

-------------------------------------------------------------------------------
(* The scorers *)

\* CPUUtilization and MemUtilization; a node without capacity counts as full.
Ratio(used, capacity) == IF capacity <= 0 THEN Unit ELSE (used * Unit) \div capacity

\* Twice Utilization.
Utilization(n, a) == Ratio(a.cpu, Capacity[n].cpu) + Ratio(a.mem, Capacity[n].mem)

BinPackScore(n, t, a) == Utilization(n, Reserve(a, t))
SpreadScore(n, a) == 2 * Unit - Utilization(n, a)

\* ScorerForPolicy.
Score(n, t, a) == IF t.policy = "spread" THEN SpreadScore(n, a) ELSE BinPackScore(n, t, a)

-------------------------------------------------------------------------------
Init ==
    /\ BatchInit
    /\ list \in Lists
    /\ i = 1
    /\ best = NoNode
    /\ bestScore = 0

BeatsNoTie(n, s) == best = NoNode \/ s > bestScore
\* Place's comparison with the best so far.
Beats(n, s) == best = NoNode \/ s > bestScore \/ (s = bestScore /\ Hostname[n] < Hostname[best])

\* One node of Place's loop.
Consider ==
    /\ More
    /\ i <= Len(list)
    /\ LET n == list[i]
           s == Score(n, Task, alloc[n])
           take == Eligible(n, Task, alloc[n]) /\ Beats(n, s)
       IN /\ best' = IF take THEN n ELSE best
          /\ bestScore' = IF take THEN s ELSE bestScore
    /\ i' = i + 1
    /\ UNCHANGED <<batch, measured, alloc, place, list>>

ChooseBestKept ==
    /\ More
    /\ i > Len(list)
    /\ place' = Append(place, best)
    /\ alloc' = IF best = NoNode THEN alloc ELSE [alloc EXCEPT ![best] = Reserve(@, Task)]
    /\ i' = 1
    /\ UNCHANGED <<batch, measured, list, best, bestScore>>
ChooseOrGiveUp ==
    /\ More
    /\ i > Len(list)
    /\ place' = IF best = NoNode THEN place \o [k \in 1 .. Len(batch) - Len(place) |-> NoNode] ELSE Append(place, best)
    /\ alloc' = IF best = NoNode THEN alloc ELSE [alloc EXCEPT ![best] = Reserve(@, Task)]
    /\ i' = 1
    /\ best' = NoNode
    /\ bestScore' = 0
    /\ UNCHANGED <<batch, measured, list>>
\* Place returns: the task is scheduled and its request reserved, or it is
\* left pending and the loop goes on.
Choose ==
    /\ More
    /\ i > Len(list)
    /\ place' = Append(place, best)
    /\ alloc' = IF best = NoNode THEN alloc ELSE [alloc EXCEPT ![best] = Reserve(@, Task)]
    /\ i' = 1
    /\ best' = NoNode
    /\ bestScore' = 0
    /\ UNCHANGED <<batch, measured, list>>

Next == Consider \/ Choose

Spec == Init /\ [][Next]_vars

-------------------------------------------------------------------------------
(* Properties *)

\* The loop variables are in range, and Place starts each task afresh.
TypeOK ==
    /\ batch \in Batches
    /\ measured \in [Nodes -> Amounts]
    /\ alloc \in [Nodes -> Amounts]
    /\ place \in Seq(Nodes \cup {NoNode})
    /\ Len(place) <= Len(batch)
    /\ list \in Lists
    /\ i \in 1 .. Len(list) + 1
    /\ best \in Nodes \cup {NoNode}
    /\ bestScore \in Int
    /\ i = 1 => best = NoNode

\* The order Place prefers nodes in: by score, then by host name; of nodes with
\* one host name (and different addresses) the one listed first.
Position(n) == CHOOSE k \in 1 .. Len(list) : list[k] = n
Preferred(n, m) ==
    LET sn == Score(n, Task, alloc[n])
        sm == Score(m, Task, alloc[m])
    IN \/ sn > sm
       \/ sn = sm /\ Hostname[n] < Hostname[m]
       \/ sn = sm /\ Hostname[n] = Hostname[m] /\ Position(n) < Position(m)

\* Among all listed nodes: no two orders of the list lead to different choices,
\* unless host names repeat.
IsBest(n, S) ==
    /\ n \in S
    /\ Eligible(n, Task, alloc[n])
    /\ \A m \in S \ {n} : Eligible(m, Task, alloc[m]) => Preferred(n, m)

\* "Tie-breaks use hostname ascending for determinism": a placement goes to the
\* best of all eligible nodes by score and host name, whatever the order they
\* were looked at.
PlacedOnBest ==
    [][place' # place /\ best # NoNode => place' = Append(place, best) /\ IsBest(best, Nodes)]_vars

\* The request of every placed task is in pendingAlloc, and nothing else.
Given(n) == {k \in 1 .. Len(place) : place[k] = n}
CPUs == [k \in 1 .. Len(batch) |-> batch[k].cpu]
Mems == [k \in 1 .. Len(batch) |-> batch[k].mem]
Accounted ==
    \A n \in Nodes :
        /\ alloc[n].cpu = measured[n].cpu + SumFunctionOnSet(CPUs, Given(n))
        /\ alloc[n].mem = measured[n].mem + SumFunctionOnSet(Mems, Given(n))

\* "a single tick cannot overcommit a node": a node that was given anything has
\* room for it, in both dimensions, counting what was measured on it.
NoTickOvercommit ==
    \A n \in Nodes : alloc[n] # measured[n] =>
        alloc[n].cpu <= Capacity[n].cpu /\ alloc[n].mem <= Capacity[n].mem

\* A task that was left pending fits on no node, not even now that later tasks
\* of the batch have been considered: no task is passed over in favour of a
\* younger one that left it room.
LeftOutFitsNowhere ==
    \A k \in 1 .. Len(place) : place[k] = NoNode =>
        \A n \in Nodes : ~Eligible(n, batch[k], alloc[n])

\* The loops do what a tick promises.
ImplementsBatch == BatchSpec

\* The strengthening behind PlacedOnBest: best is the best of the nodes looked
\* at so far, with its score.
BestSoFar ==
    LET Seen == {list[j] : j \in 1 .. i - 1} IN
    IF best = NoNode THEN \A n \in Seen : ~Eligible(n, Task, alloc[n])
    ELSE More /\ IsBest(best, Seen) /\ bestScore = Score(best, Task, alloc[best])
===============================================================================
