------------------------------ MODULE Autoscaler ------------------------------
(***************************************************************************)
(* The autoscaler (internal/autoscaler): a tick reads the backlog, the     *)
(* nodes and their allocations one after the other, and then launches a    *)
(* worker container, or reclaims an idle worker by cordoning its node,     *)
(* removing its container and marking the node dead.  Every one of these   *)
(* is a call of its own that can fail, and the process can end between     *)
(* any two.                                                                *)
(*                                                                         *)
(* Hosts are the names worker-auto-1, worker-auto-2, ...; only the nodes   *)
(* of autoscaled workers are in the model.  Of a node's tasks it is kept   *)
(* whether there are any.  The engine, the detector, the workers and the   *)
(* clients are the environment, and so is the lease (module LeaderLease):  *)
(* what IsLeader() answers at a tick is left open.                         *)
(***************************************************************************)
EXTENDS Naturals, Sequences, FiniteSets, Functions

CONSTANTS
    Replicas,               \* scheduler replicas
    Hosts,                  \* bound: numbers of the host names that are ever used
    Worked,                 \* bound: the hosts whose nodes engine and detector write
    PendingThreshold,       \* Config.PendingThreshold
    SustainWindow,          \* Config.SustainWindow, in units of Elapse
    IdleWindow,             \* Config.IdleWindow, in units of Elapse
    Cooldown,               \* Config.Cooldown, in units of Elapse
    MaxAutoscaledWorkers,   \* Config.MaxAutoscaledWorkers
    MaxTasks                \* bound: the tasks pending or on these nodes at once

ASSUME ReplicasAssumption == IsFiniteSet(Replicas) /\ Replicas # {}
ASSUME HostsAssumption == Hosts \subseteq Nat /\ 1 \in Hosts /\ IsFiniteSet(Hosts)
ASSUME ConfigAssumption ==
    /\ {PendingThreshold, SustainWindow, IdleWindow, MaxAutoscaledWorkers} \subseteq Nat \ {0}
    /\ Cooldown \in Nat
    /\ MaxTasks \in Nat

VARIABLES
    pending,                \* number of pending tasks
    rows,                   \* the hosts that have a node row, by created_at
    nodes,                  \* nodes[h]: status of the row
    busy,                   \* the hosts whose nodes have scheduled or running tasks
    containers,             \* containers[h]: "none", "created" (never started) or "running"
    calls,                  \* the hosts whose worker has a call under way that writes ready
    runner                  \* runner[r]: the Runner of replica r and its tick

vars == <<pending, rows, nodes, busy, containers, calls, runner>>

NodeStatus == {"none", "ready", "not_ready", "cordoned", "dead"}

NoNodes == [h \in Hosts |-> "none"]

\* A Runner: its tick, with what it has read and the host that it launches or
\* reclaims, and the times that it keeps between ticks, as the durations since
\* then: {} for a zero time or a missing key, counted up to the window that
\* they are compared with.  A last action that is Cooldown ago is as good as none.
RunnerStart ==
    [pc |-> "idle", pending |-> 0, nodes |-> NoNodes, target |-> {},
     pendingFor |-> {}, idleFor |-> [h \in Hosts |-> {}], sinceScale |-> {}]

Init ==
    /\ pending = 0
    /\ rows = <<>>
    /\ nodes = NoNodes
    /\ busy = {}
    /\ containers = NoNodes
    /\ calls = {}
    /\ runner = [r \in Replicas |-> RunnerStart]

-------------------------------------------------------------------------------
(* The environment *)

Submit ==
    /\ pending + Cardinality(busy) < MaxTasks
    /\ pending' = pending + 1
    /\ UNCHANGED <<rows, nodes, busy, containers, calls, runner>>

\* A worker that is not autoscaled takes a task.
PlaceElsewhere ==
    /\ pending > 0
    /\ pending' = pending - 1
    /\ UNCHANGED <<rows, nodes, busy, containers, calls, runner>>

\* Engine and detector list nodes first and write later, whatever the row is by
\* then: every row has been ready once.
PlaceHere(h) ==
    /\ h \in Worked \ busy
    /\ nodes[h] # "none"
    /\ pending > 0
    /\ pending' = pending - 1
    /\ busy' = busy \cup {h}
    /\ UNCHANGED <<rows, nodes, containers, calls, runner>>

TasksDone(h) ==
    /\ h \in busy
    /\ containers[h] = "running"
    /\ busy' = busy \ {h}
    /\ UNCHANGED <<pending, rows, nodes, containers, calls, runner>>

DetectNotReady(h) ==
    /\ h \in Worked
    /\ nodes[h] # "none"
    /\ nodes' = [nodes EXCEPT ![h] = "not_ready"]
    /\ UNCHANGED <<pending, rows, busy, containers, calls, runner>>

\* MarkNodeDead: the node's tasks are pending again.
MarkNodeDead(h) ==
    /\ nodes' = [nodes EXCEPT ![h] = "dead"]
    /\ busy' = busy \ {h}
    /\ pending' = IF h \in busy THEN pending + 1 ELSE pending

DetectDead(h) ==
    /\ h \in Worked
    /\ nodes[h] # "none"
    /\ MarkNodeDead(h)
    /\ UNCHANGED <<rows, containers, calls, runner>>

\* A worker registers when it starts and when it was declared dead, and its
\* heartbeats recover a node that is not_ready.  The call goes on when the
\* container is gone.
Call(h) ==
    /\ containers[h] = "running"
    /\ h \notin calls
    /\ calls' = calls \cup {h}
    /\ UNCHANGED <<pending, rows, nodes, busy, containers, runner>>

CallArrives(h) ==
    /\ h \in calls
    /\ calls' = calls \ {h}
    /\ rows' = IF h \in Range(rows) THEN rows ELSE Append(rows, h)
    /\ nodes' = [nodes EXCEPT ![h] = "ready"]
    /\ UNCHANGED <<pending, busy, containers, runner>>

-------------------------------------------------------------------------------
(* Runner.Run and Runner.tick *)

\* The end of a tick, whose local variables go.
Ended(t) == [t EXCEPT !.pc = "idle", !.pending = 0, !.nodes = NoNodes, !.target = {}]

\* A replica that is not leader forgets its windows, but not its last action.
TickSkip(r) ==
    /\ runner[r].pc = "idle"
    /\ runner' = [runner EXCEPT ![r].pendingFor = {}, ![r].idleFor = [h \in Hosts |-> {}]]
    /\ UNCHANGED <<pending, rows, nodes, busy, containers, calls>>

\* CountTasksByStatus, on a replica that is leader.
TickCount(r) ==
    /\ runner[r].pc = "idle"
    /\ runner' = [runner EXCEPT ![r].pc = "counted", ![r].pending = pending]
    /\ UNCHANGED <<pending, rows, nodes, busy, containers, calls>>

\* ListNodes; only ready and cordoned rows count.
Listed(s) == IF s \in {"ready", "cordoned"} THEN s ELSE "none"

TickNodes(r) ==
    /\ runner[r].pc = "counted"
    /\ runner' = [runner EXCEPT ![r].pc = "listed", ![r].nodes = [h \in Hosts |-> Listed(nodes[h])]]
    /\ UNCHANGED <<pending, rows, nodes, busy, containers, calls>>

\* A window starts with the first tick that finds its condition true.
Since(time) == IF time = {} THEN {0} ELSE time

PendingForRestarted(t) == IF t.pending >= PendingThreshold THEN {0} ELSE {}
PendingFor(t) == IF t.pending >= PendingThreshold THEN Since(t.pendingFor) ELSE {}

\* lastScaleAction, d ago, while it is of consequence.
Cooling(d) == IF d < Cooldown THEN {d} ELSE {}

CanScale(t) == t.sinceScale = {}

Existing == {h \in Hosts : containers[h] # "none"}

\* ListAutoscaledWorkers has stopped containers too.
BelowMax == Cardinality(Existing) < MaxAutoscaledWorkers

WantsMore(t) == CanScale(t) /\ t.pendingFor = {SustainWindow} /\ BelowMax

IdleReadyOnly(t, h) == t.nodes[h] = "ready" /\ h \notin busy
\* The row as it was listed, and the allocation as it is now.
Idle(t, h) == t.nodes[h] \in {"ready", "cordoned"} /\ h \notin busy

IdleFor(t, h) == IF Idle(t, h) THEN Since(t.idleFor[h]) ELSE {}

Reclaimable(t) == {h \in Hosts : CanScale(t) /\ IdleFor(t, h) = {IdleWindow}}

Before(g, h) == \E i, j \in DOMAIN rows : i < j /\ rows[i] = g /\ rows[j] = h

\* The loop over the nodes stops at the one that it reclaims.
Scanned(t) == {h \in Hosts : \A g \in Reclaimable(t) : ~Before(g, h)}

FirstReclaimableAll(t) == Reclaimable(t)
FirstReclaimable(t) == Reclaimable(t) \cap Scanned(t)

\* A tick after its pending window was set: it goes on to launch a worker, to
\* reclaim one, which it cordons unless it is, or ends; what it has read is of
\* no use any more.
Decided(t) ==
    LET s == [t EXCEPT !.idleFor = [h \in Hosts |-> IF h \in Scanned(t) THEN IdleFor(t, h) ELSE t.idleFor[h]]]
    IN CASE WantsMore(t) -> [Ended(t) EXCEPT !.pc = "pick"]
         [] ~WantsMore(t) /\ FirstReclaimable(t) # {} ->
                [Ended(s) EXCEPT
                    !.pc = IF \E h \in FirstReclaimable(t) : t.nodes[h] = "cordoned" THEN "remove" ELSE "cordon",
                    !.target = FirstReclaimable(t)]
         [] OTHER -> Ended(s)

\* GetNodeAllocations, the clock, the windows and what comes of them.
TickDecide(r) ==
    /\ runner[r].pc = "listed"
    /\ LET t == [runner[r] EXCEPT !.pendingFor = PendingFor(runner[r])]
       IN runner' = [runner EXCEPT ![r] = Decided(t)]
    /\ UNCHANGED <<pending, rows, nodes, busy, containers, calls>>

\* nextHostname: the first name that no container has.
NextHost == {h \in Hosts \ Existing : \A g \in Hosts \ Existing : h <= g}

\* If it cannot list the containers, it takes the first name of all.
ScaleUpPick(r) ==
    /\ runner[r].pc = "pick"
    /\ NextHost # {}
    /\ runner' = [runner EXCEPT ![r].pc = "create", ![r].target = NextHost]
    /\ UNCHANGED <<pending, rows, nodes, busy, containers, calls>>

ScaleUpPickBlind(r) ==
    /\ runner[r].pc = "pick"
    /\ runner' = [runner EXCEPT ![r].pc = "create", ![r].target = {1}]
    /\ UNCHANGED <<pending, rows, nodes, busy, containers, calls>>

\* A container that has the name is removed, and a new one created and started.
ScaleUp(r, h) ==
    /\ runner[r].pc = "create"
    /\ h \in runner[r].target
    /\ containers' = [containers EXCEPT ![h] = "running"]
    /\ runner' = [runner EXCEPT ![r] = [Ended(@) EXCEPT !.pendingFor = {}, !.sinceScale = Cooling(0)]]
    /\ UNCHANGED <<pending, rows, nodes, busy, calls>>

\* One of the calls fails, or its answer is lost; what they did stays done.
ScaleUpFails(r, h) ==
    /\ runner[r].pc = "create"
    /\ h \in runner[r].target
    /\ \E c \in {"none", "created", "running"} : containers' = [containers EXCEPT ![h] = c]
    /\ runner' = [runner EXCEPT ![r] = Ended(@)]
    /\ UNCHANGED <<pending, rows, nodes, busy, calls>>

\* scaleDown, first: UpdateNodeStatus, whatever the row has become.
Cordon(r, h) ==
    /\ runner[r].pc = "cordon"
    /\ h \in runner[r].target
    /\ nodes' = [nodes EXCEPT ![h] = "cordoned"]
    /\ runner' = [runner EXCEPT ![r].pc = "remove"]
    /\ UNCHANGED <<pending, rows, busy, containers, calls>>

\* scaleDown, second: the container goes, found by its label or by its name.
RemoveWorker(r, h) ==
    /\ runner[r].pc = "remove"
    /\ h \in runner[r].target
    /\ containers' = [containers EXCEPT ![h] = "none"]
    /\ runner' = [runner EXCEPT ![r].pc = "bury"]
    /\ UNCHANGED <<pending, rows, nodes, busy, calls>>

\* The container is gone, but the answer is lost and the tick fails.
RemoveLost(r, h) ==
    /\ runner[r].pc = "remove"
    /\ h \in runner[r].target
    /\ containers' = [containers EXCEPT ![h] = "none"]
    /\ runner' = [runner EXCEPT ![r] = Ended(@)]
    /\ UNCHANGED <<pending, rows, nodes, busy, calls>>

\* scaleDown, third: MarkNodeDead, whose failure is only logged.
Buried(r, h) ==
    runner' = [runner EXCEPT ![r] = [Ended(@) EXCEPT !.idleFor[h] = {}, !.sinceScale = Cooling(0)]]

Bury(r, h) ==
    /\ runner[r].pc = "bury"
    /\ h \in runner[r].target
    /\ MarkNodeDead(h)
    /\ Buried(r, h)
    /\ UNCHANGED <<rows, containers, calls>>

BuryFails(r, h) ==
    /\ runner[r].pc = "bury"
    /\ h \in runner[r].target
    /\ Buried(r, h)
    /\ UNCHANGED <<pending, rows, nodes, busy, containers, calls>>

\* Any other call fails, and with it the tick.
TickError(r) ==
    /\ runner[r].pc \notin {"idle", "bury"}
    /\ runner' = [runner EXCEPT ![r] = Ended(@)]
    /\ UNCHANGED <<pending, rows, nodes, busy, containers, calls>>

\* The process ends; another starts without windows.
Restart(r) ==
    /\ runner[r] # RunnerStart
    /\ runner' = [runner EXCEPT ![r] = RunnerStart]
    /\ UNCHANGED <<pending, rows, nodes, busy, containers, calls>>

Longer(time, window) == {IF d < window THEN d + 1 ELSE d : d \in time}

Elapse ==
    /\ runner' = [r \in Replicas |->
           [runner[r] EXCEPT !.pendingFor = Longer(@, SustainWindow),
                             !.idleFor = [h \in Hosts |-> Longer(@[h], IdleWindow)],
                             !.sinceScale = UNION {Cooling(d + 1) : d \in @}]]
    /\ UNCHANGED <<pending, rows, nodes, busy, containers, calls>>

-------------------------------------------------------------------------------
EnvironmentStep ==
    \/ Submit
    \/ PlaceElsewhere
    \/ \E h \in Hosts :
          PlaceHere(h) \/ TasksDone(h) \/ DetectNotReady(h) \/ DetectDead(h) \/ Call(h) \/ CallArrives(h)
    \/ Elapse

TickStep(r) == TickSkip(r) \/ TickCount(r) \/ TickNodes(r) \/ TickDecide(r) \/ TickError(r)

ScaleUpStep(r) ==
    \/ ScaleUpPick(r)
    \/ ScaleUpPickBlind(r)
    \/ \E h \in Hosts : ScaleUp(r, h) \/ ScaleUpFails(r, h)

ScaleDownStep(r) ==
    \E h \in Hosts : Cordon(r, h) \/ RemoveWorker(r, h) \/ RemoveLost(r, h) \/ Bury(r, h) \/ BuryFails(r, h)

Next ==
    \/ EnvironmentStep
    \/ \E r \in Replicas :
          Restart(r) \/ TickStep(r) \/ ScaleUpStep(r) \/ ScaleDownStep(r)

Spec == Init /\ [][Next]_vars

\* The steps of a leader's tick in which no call fails.
TickProgress(r) ==
    \/ TickCount(r) \/ TickNodes(r) \/ TickDecide(r)
    \/ ScaleUpPick(r)
    \/ \E h \in Hosts : ScaleUp(r, h) \/ Cordon(r, h) \/ RemoveWorker(r, h) \/ Bury(r, h)

\* Time passes, and a tick does not last for ever.  Nothing is asked of the
\* environment, and nobody has to be leader.
Fairness ==
    /\ WF_vars(Elapse)
    /\ \A r \in Replicas : []<>(runner[r].pc = "idle")

FairSpec == Spec /\ Fairness

-------------------------------------------------------------------------------
(* Properties *)

Window(max) == {{}} \cup {{d} : d \in 0 .. max}

Steps == {"idle", "counted", "listed", "pick", "create", "cordon", "remove", "bury"}

RunnerState ==
    [pc : Steps, pending : Nat, nodes : [Hosts -> NodeStatus], target : SUBSET Hosts,
     pendingFor : Window(SustainWindow), idleFor : [Hosts -> Window(IdleWindow)],
     sinceScale : Window(Cooldown)]

\* A tick that launches or reclaims has one host to do it to.
Targeted(t) ==
    IF t.pc \in {"create", "cordon", "remove", "bury"} THEN \E h \in Hosts : t.target = {h} ELSE t.target = {}

\* The state has its shape, and every tick has the target that it needs.
TypeOK ==
    /\ pending \in Nat
    /\ rows \in Seq(Hosts)
    /\ nodes \in [Hosts -> NodeStatus]
    /\ busy \in SUBSET Hosts
    /\ containers \in [Hosts -> {"none", "created", "running"}]
    /\ calls \in SUBSET Hosts
    /\ runner \in [Replicas -> RunnerState]
    /\ \A r \in Replicas : Targeted(runner[r])

\* MaxAutoscaledWorkers is a bound on the containers that exist, started or
\* not.  Replicas that lead at the same time count before either creates, so
\* each of them beyond the first can exceed it by one, and no more.
WorkersCapped == Cardinality(Existing) <= MaxAutoscaledWorkers + Cardinality(Replicas) - 1

\* The strengthening behind TypeOK and WorkersCapped: a row that is anywhere in
\* use exists, and a replica that is about to create a container has counted.
RowsExist ==
    /\ \A h \in Hosts : nodes[h] # "none" => h \in Range(rows)
    /\ \A r \in Replicas : \A h \in Hosts : runner[r].nodes[h] # "none" => h \in Range(rows)
    /\ \A r \in Replicas : runner[r].pc \in {"cordon", "remove", "bury"} => runner[r].target \subseteq Range(rows)

Creating == {r \in Replicas : runner[r].pc \in {"pick", "create"}}

CreatingCapped ==
    Cardinality(Existing) + Cardinality(Creating) <= MaxAutoscaledWorkers + Cardinality(Replicas) - 1

IndInv == TypeOK /\ RowsExist /\ CreatingCapped

\* From some point on one replica leads and ticks again and again, no call of
\* it fails, no process ends and no other replica leads.
Undisturbed ==
    \E r \in Replicas :
        /\ []<>(runner[r].pc # "idle")
        /\ <>[][UNCHANGED runner \/ TickProgress(r) \/ Elapse]_vars

\* A reclaim that a failed call or the end of the process left half done is
\* taken up again once failures stop: an idle node does not stay cordoned, where
\* the detector does not look and the engine does not place, unless nodes with
\* older rows are reclaimed again and again.  The loop of a tick ends at the
\* first node that it reclaims, so those do come first, for ever if they are
\* launched again in between; nothing else holds a reclaim up.
Burying(g) == \E r \in Replicas : runner[r].pc = "bury" /\ runner[r].target = {g}
ReclaimFinishes ==
    Undisturbed => \A h \in Hosts :
        []<>(\/ ~(nodes[h] = "cordoned" /\ h \notin busy)
             \/ \E g \in Hosts : Before(g, h) /\ Burying(g))

\* A lasting backlog is answered with containers for as long as there are fewer
\* than the maximum: if reclaims make room again and again, so do launches fill
\* it.
Launching == \E r \in Replicas : runner[r].pc = "create"
BacklogGetsWorker == Undisturbed => []<>(pending < PendingThreshold \/ ~BelowMax \/ Launching)
===============================================================================
