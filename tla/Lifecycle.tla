------------------------------ MODULE Lifecycle -------------------------------
(***************************************************************************)
(* What the nodes and tasks tables promise to everybody who works on them: *)
(* a task is queued, then held by one worker under one epoch, and from     *)
(* there it is finished for good, charged with a retry and queued again,   *)
(* or taken back with everything else that its dead node held.  Nobody     *)
(* holds a task under an epoch that the fence of its node has not passed,  *)
(* and fences never go back.  Nothing is said about how nodes are chosen,  *)
(* about calls, containers or leaders; modules Control and Worker          *)
(* implement this.                                                         *)
(***************************************************************************)
EXTENDS Naturals

CONSTANTS
    Tasks,
    Nodes,
    NoNode,             \* no node
    RetryLimit          \* jobs.retry_limit

VARIABLES
    life,               \* life[t]: the phase of task t, its holder, the retries charged
    fence               \* fence[n]: the epochs below are n's, now or formerly

vars == <<life, fence>>

Nobody == <<NoNode, 0>>
Absent == [phase |-> "absent", holder |-> Nobody, charged |-> 0]
Queued(k) == [phase |-> "queued", holder |-> Nobody, charged |-> k]
Held(h, k) == [phase |-> "held", holder |-> h, charged |-> k]

\* Who may be given a task: a node under an epoch of its own.
Holders == UNION {{n} \X (0 .. fence[n] - 1) : n \in Nodes}

Init ==
    /\ life \in [Tasks -> {Absent, Queued(0)}]
    /\ fence = [n \in Nodes |-> 0]

\* A job's tasks are all there at once.
Submit(S) ==
    /\ \A t \in S : life[t] = Absent
    /\ life' = [t \in Tasks |-> IF t \in S THEN Queued(0) ELSE life[t]]
    /\ UNCHANGED fence

\* Some queued tasks are given away, each to one holder.
Assign(S) ==
    /\ \A t \in S : life[t].phase = "queued"
    /\ \E to \in [S -> Holders] :
          life' = [t \in Tasks |-> IF t \in S THEN Held(to[t], life[t].charged) ELSE life[t]]
    /\ UNCHANGED fence

\* A task ends, and is failed only when it has used its retries.
Settle(t, p) ==
    /\ life[t].phase = "held"
    /\ p = "failed" => ~(life[t].charged < RetryLimit)
    /\ life' = [life EXCEPT ![t] = [phase |-> p, holder |-> life[t].holder, charged |-> life[t].charged]]
    /\ UNCHANGED fence

\* A task fails and has a retry left.
Retry(t) ==
    /\ life[t].phase = "held"
    /\ life[t].charged < RetryLimit
    /\ life' = [life EXCEPT ![t] = Queued(life[t].charged + 1)]
    /\ UNCHANGED fence

\* A node gets a new epoch, or one back that had been taken from it.
Advance(n) ==
    /\ fence'[n] > fence[n]
    /\ fence' = [fence EXCEPT ![n] = fence'[n]]
    /\ UNCHANGED life

\* A node is dead: all that it holds is queued again, at no charge.
Bury(n) ==
    /\ fence'[n] >= fence[n]
    /\ fence' = [fence EXCEPT ![n] = fence'[n]]
    /\ life' = [t \in Tasks |->
           IF life[t].phase = "held" /\ life[t].holder[1] = n THEN Queued(life[t].charged) ELSE life[t]]

Next ==
    \/ \E S \in SUBSET Tasks : Submit(S) \/ Assign(S)
    \/ \E t \in Tasks : Retry(t) \/ \E p \in {"succeeded", "failed"} : Settle(t, p)
    \/ \E n \in Nodes : Advance(n) \/ Bury(n)

Spec == Init /\ [][Next]_vars
===============================================================================
