-------------------------------- MODULE Batch ---------------------------------
(***************************************************************************)
(* What one scheduling tick promises for the batch of tasks it has         *)
(* claimed (Engine.tick, internal/scheduler/engine.go): the tasks are      *)
(* taken oldest first; each goes to a node that passes every filter, given *)
(* what the tick has measured and already given away, and is left pending  *)
(* only if no node does.  Which of several nodes it gets is left open; it  *)
(* is what module Placement adds, and module Control builds on this much.  *)
(***************************************************************************)
EXTENDS NodeNames, Naturals, Sequences

CONSTANTS
    Capacity,           \* Capacity[n].cpu, Capacity[n].mem: of node n
    Status,             \* Status[n]: as listed
    Labels,             \* Labels[n]: the labels of node n, by key
    Batches,            \* the sequences of tasks a tick may claim
    Measurements        \* what GetNodeAllocations may return, for every node

Amounts == [cpu : Nat, mem : Nat]

\* A task joined with its job.  Requests are positive, a policy other than
\* spread is bin_pack, and constraints maps keys to the values they must have.
IsTask(t) ==
    /\ t.cpu \in Nat \ {0}
    /\ t.mem \in Nat \ {0}
    /\ t.policy \in {"bin_pack", "spread"}

ASSUME CapacityAssumption == Capacity \in [Nodes -> Amounts]
ASSUME BatchesAssumption ==
    \A b \in Batches : /\ Len(b) \in Nat
                       /\ DOMAIN b = 1 .. Len(b)
                       /\ \A k \in 1 .. Len(b) : IsTask(b[k])
ASSUME MeasurementsAssumption == Measurements \subseteq [Nodes -> Amounts]

VARIABLES
    batch,              \* the claimed tasks
    measured,           \* the allocations measured before the loop
    alloc,              \* pendingAlloc
    place               \* where the tasks considered so far went

batchVars == <<batch, measured, alloc, place>>

-------------------------------------------------------------------------------
(* The filters *)

ReadyFilter(n) == Status[n] = "ready"

\* Free CPU and memory cover the request.
ResourceFilterCPUOnly(n, t, a) == a.cpu + t.cpu <= Capacity[n].cpu
ResourceFilter(n, t, a) == a.cpu + t.cpu <= Capacity[n].cpu /\ a.mem + t.mem <= Capacity[n].mem

\* Every constraint is matched; a key that a node lacks reads as "".
LabelOf(n, key) == IF key \in DOMAIN Labels[n] THEN Labels[n][key] ELSE ""
LabelSelectorFilter(n, t) == \A key \in DOMAIN t.constraints : LabelOf(n, key) = t.constraints[key]

Eligible(n, t, a) == ReadyFilter(n) /\ ResourceFilter(n, t, a) /\ LabelSelectorFilter(n, t)

-------------------------------------------------------------------------------
ReserveCPUOnly(a, t) == [cpu |-> a.cpu + t.cpu, mem |-> a.mem]
\* What a placement adds to pendingAlloc.
Reserve(a, t) == [cpu |-> a.cpu + t.cpu, mem |-> a.mem + t.mem]

\* The task the loop is at.
Task == batch[Len(place) + 1]
More == Len(place) < Len(batch)

PlaceOn(n) ==
    /\ More
    /\ Eligible(n, Task, alloc[n])
    /\ alloc' = [alloc EXCEPT ![n] = Reserve(@, Task)]
    /\ place' = Append(place, n)
    /\ UNCHANGED <<batch, measured>>

LeaveOut ==
    /\ More
    /\ \A n \in Nodes : ~Eligible(n, Task, alloc[n])
    /\ place' = Append(place, NoNode)
    /\ UNCHANGED <<batch, measured, alloc>>

BatchInit ==
    /\ batch \in Batches
    /\ measured \in Measurements
    /\ alloc = measured
    /\ place = <<>>

BatchNext == (\E n \in Nodes : PlaceOn(n)) \/ LeaveOut

BatchSpec == BatchInit /\ [][BatchNext]_batchVars
===============================================================================
