------------------------------- MODULE Control --------------------------------
(***************************************************************************)
(* The control plane: the nodes and tasks tables of Postgres               *)
(* (internal/store), the last-seen keys of Redis (internal/cache), and the *)
(* goroutines of the scheduler replicas that read and write them: the      *)
(* scheduling engine, the failure detector and the gRPC handlers.          *)
(*                                                                         *)
(* A database transaction is one step, except the engine's, which is open  *)
(* while the engine reads other tables.  What a goroutine read before is   *)
(* kept in its own record, so every step in between can make it stale.     *)
(* Transactions are READ COMMITTED: they see what is committed, and wait   *)
(* for a row that another transaction has locked.                          *)
(*                                                                         *)
(* Workers are the environment: a worker calls with an epoch that          *)
(* RegisterNode returned to it, at any time, any number of times.          *)
(***************************************************************************)
EXTENDS Store, FiniteSets, Functions

CONSTANTS
    Replicas,           \* scheduler replicas
    Tasks,              \* task rows, numbered in the order of created_at
    Jobs,               \* a job is the set of its task rows
    Handlers,           \* gRPC handler goroutines that can be in flight at once
    Sizes,              \* the capacities that a worker may register with
    Request,            \* Request[t]: resources of task t
    ClaimLimit,         \* Engine.claimLimit
    NotReadyAfter,      \* Config.NotReadyAfter, in units of Elapse
    DeadAfter,          \* Config.DeadAfter, in units of Elapse
    MaxEpoch            \* bound: RegisterNode issues no epoch above this one

ASSUME TasksAssumption ==
    /\ Tasks \subseteq Nat
    /\ Jobs \subseteq SUBSET Tasks
    /\ \A job \in Jobs : IsFiniteSet(job)
ASSUME SizesAssumption ==
    /\ Sizes \subseteq Nat
    /\ Request \in [Tasks -> Nat]
    /\ ClaimLimit \in Nat
    /\ MaxEpoch \in Nat
ASSUME ThresholdsAssumption ==
    /\ NotReadyAfter \in Nat \ {0}
    /\ DeadAfter \in Nat
    /\ NotReadyAfter <= DeadAfter

VARIABLES
    nodes,              \* nodes[n]: status, epoch and capacity of the row; "none": no row
    tasks,              \* tasks[t]: the row; "none": not submitted
    age,                \* age[n]: time since last-seen; DeadAfter also if no key
    issued,             \* issued[n]: the epochs RegisterNode returned to n's workers
    told,               \* told[t]: the nodes whose workers accepted task t
    leading,            \* the replicas whose IsLeader() is true
    engine,             \* engine[r]: the scheduling tick of replica r
    detector,           \* detector[r]: the failure detector tick of replica r
    rpc                 \* rpc[h]: the call that handler h is serving

vars == <<nodes, tasks, age, issued, told, leading, engine, detector, rpc>>

\* A tick of the engine: "claimed": the transaction is open with its tasks
\* locked; "listed": the ready nodes are known, with their epochs and
\* capacities; "measured": so are the allocations.
EngineIdle == [pc |-> "idle", claim |-> {}, ready |-> {}, epoch |-> [n \in Nodes |-> 0],
               capacity |-> [n \in Nodes |-> 0], busy |-> [n \in Nodes |-> {}]]

\* A tick of the detector: the nodes still to evaluate, with the status they
\* were listed with, and the write decided on for one of them.
DetectorIdle == [todo |-> {}, node |-> NoNode, write |-> "none"]

\* A call in flight: its next step, its node, and what it knows of the row.
RpcIdle == [pc |-> "idle", node |-> NoNode, epoch |-> 0, status |-> "none"]

Init ==
    /\ nodes = [n \in Nodes |-> NoRow]
    /\ tasks = [t \in Tasks |-> NoTask]
    /\ age = [n \in Nodes |-> DeadAfter]
    /\ issued = [n \in Nodes |-> {}]
    /\ told = [t \in Tasks |-> {}]
    /\ leading = {}
    /\ engine = [r \in Replicas |-> EngineIdle]
    /\ detector = [r \in Replicas |-> DetectorIdle]
    /\ rpc = [h \in Handlers |-> RpcIdle]

-------------------------------------------------------------------------------
(* What the store reads *)

\* GetNodeAllocations adds up the requests of a node's scheduled and running
\* tasks; the tasks are kept instead of their sum.
Load(S) == SumFunctionOnSet(Request, S)
Busy(n) == {t \in Tasks : Active(tasks[t]) /\ tasks[t].node = n}

\* Rows locked FOR UPDATE by an open scheduling transaction.
Locked(t) == \E r \in Replicas : t \in engine[r].claim

-------------------------------------------------------------------------------
(* Leadership, as module LeaderLease leaves it to the other goroutines: a    *)
(* replica may start or stop believing that it leads at any time, and two    *)
(* may believe so at once.                                                   *)

Lead(r) ==
    /\ r \notin leading
    /\ leading' = leading \cup {r}
    /\ UNCHANGED <<nodes, tasks, age, issued, told, engine, detector, rpc>>

Unlead(r) ==
    /\ r \in leading
    /\ leading' = leading \ {r}
    /\ UNCHANGED <<nodes, tasks, age, issued, told, engine, detector, rpc>>

-------------------------------------------------------------------------------
(* SubmitJob: one transaction inserts the job's task rows. *)

SubmitJob(job) ==
    /\ leading # {}
    /\ \A t \in job : tasks[t] = NoTask
    /\ job # {}
    /\ tasks' = [t \in Tasks |-> IF t \in job THEN [NoTask EXCEPT !.status = "pending"] ELSE tasks[t]]
    /\ UNCHANGED <<nodes, age, issued, told, leading, engine, detector, rpc>>

\* next_retry_at of a requeued task is reached.
RetryDue(t) ==
    /\ tasks[t].wait
    /\ tasks' = [tasks EXCEPT ![t].wait = FALSE]
    /\ UNCHANGED <<nodes, age, issued, told, leading, engine, detector, rpc>>

-------------------------------------------------------------------------------
(* Engine.tick *)

Claimable == {t \in Tasks : tasks[t].status = "pending" /\ ~tasks[t].wait /\ ~Locked(t)}

\* ORDER BY created_at ... SKIP LOCKED LIMIT: the oldest rows nobody has locked.
Oldest(S) == {t \in S : Cardinality({u \in S : u < t}) < ClaimLimit}

\* ClaimPendingTasksForScheduling opens the transaction and locks the tasks;
\* a tick that finds none ends here.
TickClaim(r) ==
    /\ r \in leading
    /\ engine[r].pc = "idle"
    /\ Oldest(Claimable) # {}
    /\ engine' = [engine EXCEPT ![r] = [EngineIdle EXCEPT !.pc = "claimed", !.claim = Oldest(Claimable)]]
    /\ UNCHANGED <<nodes, tasks, age, issued, told, leading, detector, rpc>>

\* ListActiveNodes, outside the transaction.  Of the active nodes only the
\* ready ones can pass ReadyFilter.
TickNodes(r) ==
    /\ engine[r].pc = "claimed"
    /\ engine' = [engine EXCEPT ![r] =
           [@ EXCEPT !.pc = "listed",
                     !.ready = {n \in Nodes : nodes[n].status = "ready"},
                     !.epoch = [n \in Nodes |-> IF nodes[n].status = "ready" THEN nodes[n].epoch ELSE 0],
                     !.capacity = [n \in Nodes |-> IF nodes[n].status = "ready" THEN nodes[n].capacity ELSE 0]]]
    /\ UNCHANGED <<nodes, tasks, age, issued, told, leading, detector, rpc>>

\* GetNodeAllocations, outside the transaction as well.
TickAllocs(r) ==
    /\ engine[r].pc = "listed"
    /\ engine' = [engine EXCEPT ![r] =
           [@ EXCEPT !.pc = "measured", !.busy = [n \in Nodes |-> Busy(n)]]]
    /\ UNCHANGED <<nodes, tasks, age, issued, told, leading, detector, rpc>>

\* pendingAlloc when task t is considered: what was measured and what this
\* tick gave to n before t.
PendingAllocMeasured(tick, place, t, n) == tick.busy[n]
PendingAlloc(tick, place, t, n) == tick.busy[n] \cup {u \in tick.claim : u < t /\ place[u] = n}

Fits(tick, place, t, n) == Load(PendingAlloc(tick, place, t, n)) + Request[t] <= tick.capacity[n]

PlacementsBreak(tick) ==
    {place \in [tick.claim -> tick.ready \cup {NoNode}] :
        \A t \in tick.claim :
            IF place[t] = NoNode
            THEN \/ \A n \in tick.ready : ~Fits(tick, place, t, n)
                 \/ \E u \in tick.claim : u < t /\ place[u] = NoNode
            ELSE /\ Fits(tick, place, t, place[t])
                 /\ \A u \in tick.claim : u < t => place[u] # NoNode}
\* The placements a batch can get: each task in turn goes to a ready node with
\* room, and is left pending only if there is none.  Which of several nodes
\* Place prefers is the scorers' business and left open.
Placements(tick) ==
    {place \in [tick.claim -> tick.ready \cup {NoNode}] :
        \A t \in tick.claim :
            IF place[t] = NoNode THEN \A n \in tick.ready : ~Fits(tick, place, t, n)
                                 ELSE Fits(tick, place, t, place[t])}

\* Every claimed task is placed and the transaction commits; ScheduleTask
\* insists that the row is still pending.
TickCommit(r) ==
    /\ engine[r].pc = "measured"
    /\ \E place \in Placements(engine[r]) :
          /\ \A t \in engine[r].claim : place[t] # NoNode => tasks[t].status = "pending"
          /\ tasks' = [t \in Tasks |->
                 IF t \in engine[r].claim /\ place[t] # NoNode
                 THEN Scheduled(tasks[t], place[t], engine[r].epoch[place[t]])
                 ELSE tasks[t]]
    /\ engine' = [engine EXCEPT ![r] = EngineIdle]
    /\ UNCHANGED <<nodes, age, issued, told, leading, detector, rpc>>

TickAbortLocksKept(r) ==
    /\ engine[r].pc # "idle"
    /\ engine' = [engine EXCEPT ![r].pc = "idle"]
    /\ UNCHANGED <<nodes, tasks, age, issued, told, leading, detector, rpc>>
\* Any error, or the end of the process, rolls the transaction back.
TickAbort(r) ==
    /\ engine[r].pc # "idle"
    /\ engine' = [engine EXCEPT ![r] = EngineIdle]
    /\ UNCHANGED <<nodes, tasks, age, issued, told, leading, detector, rpc>>

-------------------------------------------------------------------------------
(* Detector.tick and Detector.evaluate *)

\* ListActiveNodes skips dead nodes.
ListReadyNodes == {n \in Nodes : nodes[n].status = "ready"}
ListActiveNodes == {n \in Nodes : nodes[n].status \in {"ready", "not_ready"}}

DetectList(r) ==
    /\ r \in leading
    /\ detector[r] = DetectorIdle
    /\ ListActiveNodes # {}
    /\ detector' = [detector EXCEPT ![r].todo = {<<n, nodes[n].status>> : n \in ListActiveNodes}]
    /\ UNCHANGED <<nodes, tasks, age, issued, told, leading, engine, rpc>>

\* The write that a last-seen age calls for; s is the status the node was
\* listed with.
Verdict(a, s) ==
    CASE a >= DeadAfter -> "dead"
      [] a < DeadAfter /\ a >= NotReadyAfter /\ s = "ready" -> "not_ready"
      [] OTHER -> "none"

\* GetLastSeen for the next node of the list.
DetectRead(r, n, s) ==
    /\ detector[r].node = NoNode
    /\ <<n, s>> \in detector[r].todo
    /\ LET w == Verdict(age[n], s) IN
       detector' = [detector EXCEPT ![r] =
           [todo |-> @.todo \ {<<n, s>>}, node |-> IF w = "none" THEN NoNode ELSE n, write |-> w]]
    /\ UNCHANGED <<nodes, tasks, age, issued, told, leading, engine, rpc>>

\* MarkNodeDead, whatever the row has become since it was listed.
DetectDead(r) ==
    /\ detector[r].write = "dead"
    /\ LET n == detector[r].node IN
          /\ nodes' = [nodes EXCEPT ![n] = Dead(@)]
          /\ tasks' = [t \in Tasks |-> Orphaned(tasks[t], n)]
    /\ detector' = [detector EXCEPT ![r].node = NoNode, ![r].write = "none"]
    /\ UNCHANGED <<age, issued, told, leading, engine, rpc>>

DetectNotReady(r) ==
    /\ detector[r].write = "not_ready"
    /\ LET n == detector[r].node IN nodes' = [nodes EXCEPT ![n] = WithStatus(@, "not_ready")]
    /\ detector' = [detector EXCEPT ![r].node = NoNode, ![r].write = "none"]
    /\ UNCHANGED <<tasks, age, issued, told, leading, engine, rpc>>

\* Redis or Postgres fails for one node: evaluate logs it and the loop goes on.
DetectError(r) ==
    /\ detector[r] # DetectorIdle
    /\ \/ /\ detector[r].node = NoNode
          /\ \E m \in detector[r].todo : detector' = [detector EXCEPT ![r].todo = @ \ {m}]
       \/ /\ detector[r].node # NoNode
          /\ detector' = [detector EXCEPT ![r].node = NoNode, ![r].write = "none"]
    /\ UNCHANGED <<nodes, tasks, age, issued, told, leading, engine, rpc>>

-------------------------------------------------------------------------------
(* gRPC handlers *)

\* RegisterNode: the transaction.  A worker that comes back may be of another
\* size.
RegisterTx(h, n, c) ==
    /\ leading # {}
    /\ rpc[h] = RpcIdle
    /\ Registered(nodes[n], c).epoch <= MaxEpoch
    /\ nodes' = [nodes EXCEPT ![n] = Registered(@, c)]
    /\ rpc' = [rpc EXCEPT ![h] = [pc |-> "seed", node |-> n, epoch |-> nodes'[n].epoch, status |-> "none"]]
    /\ UNCHANGED <<tasks, age, issued, told, leading, engine, detector>>

\* RegisterNode: SetLastSeen, and the answer to the worker.
RegisterSeed(h) ==
    /\ rpc[h].pc = "seed"
    /\ age' = [age EXCEPT ![rpc[h].node] = 0]
    /\ issued' = [issued EXCEPT ![rpc[h].node] = @ \cup {rpc[h].epoch}]
    /\ rpc' = [rpc EXCEPT ![h] = RpcIdle]
    /\ UNCHANGED <<nodes, tasks, told, leading, engine, detector>>

\* Heartbeat: GetNode and the epoch check.  A call with another epoch gets
\* epoch_invalid and changes nothing.
EpochValid(n, e) == e = nodes[n].epoch

HeartbeatGet(h, n, e) ==
    /\ leading # {}
    /\ rpc[h] = RpcIdle
    /\ e \in issued[n]
    /\ EpochValid(n, e)
    /\ rpc' = [rpc EXCEPT ![h] = [pc |-> "seen", node |-> n, epoch |-> e, status |-> nodes[n].status]]
    /\ UNCHANGED <<nodes, tasks, age, issued, told, leading, engine, detector>>

\* Heartbeat: SetLastSeen; only a row that was read as not_ready is recovered.
HeartbeatSeen(h) ==
    /\ rpc[h].pc = "seen"
    /\ age' = [age EXCEPT ![rpc[h].node] = 0]
    /\ rpc' = [rpc EXCEPT ![h].pc = IF rpc[h].status = "not_ready" THEN "recover" ELSE "list"]
    /\ UNCHANGED <<nodes, tasks, issued, told, leading, engine, detector>>

\* Heartbeat: UpdateNodeStatus, not_ready -> ready as far as the handler knows.
HeartbeatRecover(h) ==
    /\ rpc[h].pc = "recover"
    /\ nodes' = [nodes EXCEPT ![rpc[h].node] = WithStatus(@, "ready")]
    /\ rpc' = [rpc EXCEPT ![h].pc = "list"]
    /\ UNCHANGED <<tasks, age, issued, told, leading, engine, detector>>

\* Heartbeat: ListScheduledTasksForNode is the answer; the worker refuses an
\* assignment whose epoch is not its own.
HeartbeatReply(h) ==
    /\ rpc[h].pc = "list"
    /\ told' = [t \in Tasks |->
           IF tasks[t].status = "scheduled" /\ tasks[t].node = rpc[h].node /\ tasks[t].epoch = rpc[h].epoch
           THEN told[t] \cup {rpc[h].node} ELSE told[t]]
    /\ rpc' = [rpc EXCEPT ![h] = RpcIdle]
    /\ UNCHANGED <<nodes, tasks, age, issued, leading, engine, detector>>

\* A call ends early: Redis or Postgres fails, or the replica stops.
RpcError(h) ==
    /\ rpc[h] # RpcIdle
    /\ rpc' = [rpc EXCEPT ![h] = RpcIdle]
    /\ UNCHANGED <<nodes, tasks, age, issued, told, leading, engine, detector>>

\* ReportTaskStatus: one transaction that waits for the row.  A report that
\* fails the fence or finds a row that is not active changes nothing.
ReportTaskStatus(t, n, e, s) ==
    /\ leading # {}
    /\ n \in told[t]
    /\ e \in issued[n]
    /\ ~Locked(t)
    /\ Fence(tasks[t], n, e)
    /\ Active(tasks[t])
    /\ tasks' = [tasks EXCEPT ![t] = AfterReport(@, s)]
    /\ UNCHANGED <<nodes, age, issued, told, leading, engine, detector, rpc>>

-------------------------------------------------------------------------------
\* Time passes for the last-seen keys.
Elapse ==
    /\ \E n \in Nodes : age[n] < DeadAfter
    /\ age' = [n \in Nodes |-> IF age[n] < DeadAfter THEN age[n] + 1 ELSE age[n]]
    /\ UNCHANGED <<nodes, tasks, issued, told, leading, engine, detector, rpc>>

EngineStep(r) == TickClaim(r) \/ TickNodes(r) \/ TickAllocs(r) \/ TickCommit(r) \/ TickAbort(r)

DetectorStep(r) ==
    \/ DetectList(r)
    \/ \E n \in Nodes, s \in NodeStatus : DetectRead(r, n, s)
    \/ DetectDead(r)
    \/ DetectNotReady(r)
    \/ DetectError(r)

HandlerStep(h) ==
    \/ \E n \in Nodes, c \in Sizes : RegisterTx(h, n, c)
    \/ \E n \in Nodes : \E e \in issued[n] : HeartbeatGet(h, n, e)
    \/ RegisterSeed(h)
    \/ HeartbeatSeen(h)
    \/ HeartbeatRecover(h)
    \/ HeartbeatReply(h)
    \/ RpcError(h)

Report ==
    \E t \in Tasks, n \in Nodes : \E e \in issued[n], s \in {"running", "succeeded", "failed"} :
        ReportTaskStatus(t, n, e, s)

Next ==
    \/ \E r \in Replicas : Lead(r) \/ Unlead(r) \/ EngineStep(r) \/ DetectorStep(r)
    \/ \E h \in Handlers : HandlerStep(h)
    \/ \E job \in Jobs : SubmitJob(job)
    \/ \E t \in Tasks : RetryDue(t)
    \/ Report
    \/ Elapse

Spec == Init /\ [][Next]_vars

\* Goroutines keep running while their process does and the stores do not fail
\* every attempt; a replica that does not lead keeps trying to.  Workers,
\* clients and failures are not forced to do anything.
Fairness ==
    /\ \A r \in Replicas :
          /\ WF_vars(Lead(r))
          /\ SF_vars(TickClaim(r))
          /\ SF_vars(TickNodes(r))
          /\ SF_vars(TickAllocs(r))
          /\ SF_vars(TickCommit(r))
          /\ SF_vars(DetectList(r))
          /\ \A n \in Nodes : SF_vars(\E s \in NodeStatus : DetectRead(r, n, s))
          /\ SF_vars(DetectDead(r))
          /\ SF_vars(DetectNotReady(r))
    /\ \A h \in Handlers :
          WF_vars(RegisterSeed(h) \/ HeartbeatSeen(h) \/ HeartbeatRecover(h) \/ HeartbeatReply(h))
    /\ \A t \in Tasks : WF_vars(RetryDue(t))
    /\ WF_vars(Elapse)

FairSpec == Spec /\ Fairness

-------------------------------------------------------------------------------
(* Properties *)

EngineState ==
    {EngineIdle} \cup
    [pc : {"claimed", "listed", "measured"}, claim : SUBSET Tasks, ready : SUBSET Nodes,
     epoch : [Nodes -> Nat], capacity : [Nodes -> Nat], busy : [Nodes -> SUBSET Tasks]]

DetectorState ==
    [todo : SUBSET (Nodes \X {"ready", "not_ready"}), node : {NoNode}, write : {"none"}] \cup
    [todo : SUBSET (Nodes \X {"ready", "not_ready"}), node : Nodes, write : {"dead", "not_ready"}]

RpcState ==
    {RpcIdle} \cup
    [pc : {"seed", "seen", "recover", "list"}, node : Nodes, epoch : Nat, status : NodeStatus]

\* The rows and the goroutines' records have their shape; in particular an
\* idle engine holds no row locks.
TypeOK ==
    /\ nodes \in [Nodes -> NodeRow]
    /\ tasks \in [Tasks -> TaskRow]
    /\ age \in [Nodes -> 0 .. DeadAfter]
    /\ issued \in [Nodes -> SUBSET Nat]
    /\ told \in [Tasks -> SUBSET Nodes]
    /\ leading \in SUBSET Replicas
    /\ engine \in [Replicas -> EngineState]
    /\ detector \in [Replicas -> DetectorState]
    /\ rpc \in [Handlers -> RpcState]

\* Fencing: while a node's row says dead, no worker holds or is about to be
\* given the row's epoch, so every heartbeat of its earlier incarnations is
\* answered epoch_invalid; and no assignment on it, even one committed by a
\* tick that listed the node before its death, carries that epoch.
DeadIsFenced ==
    \A n \in Nodes : nodes[n].status = "dead" =>
        /\ \A e \in issued[n] : e < nodes[n].epoch
        /\ \A h \in Handlers : rpc[h].pc = "seed" /\ rpc[h].node = n => rpc[h].epoch < nodes[n].epoch
        /\ \A t \in Tasks : Active(tasks[t]) /\ tasks[t].node = n => tasks[t].epoch < nodes[n].epoch

\* No two incarnations of a worker are given the same epoch, even when a slow
\* registration overlaps a retry of it or a death.
IncarnationsDistinct ==
    \A h \in Handlers : rpc[h].pc = "seed" =>
        /\ rpc[h].epoch \notin issued[rpc[h].node]
        /\ \A g \in Handlers \ {h} :
              rpc[g].pc = "seed" /\ rpc[g].node = rpc[h].node => rpc[g].epoch # rpc[h].epoch

\* A task row is assigned exactly when it is scheduled, running or finished,
\* and never under an epoch that its node has not reached.
AssignmentConsistent ==
    \A t \in Tasks :
        IF Active(tasks[t]) \/ Terminal(tasks[t])
        THEN /\ tasks[t].node \in Nodes
             /\ nodes[tasks[t].node].status # "none"
             /\ tasks[t].epoch <= nodes[tasks[t].node].epoch
        ELSE Unassigned(tasks[t])

\* retries_used stays within retry_limit, and a task is failed for good only
\* when every retry was used.
RetriesRespectLimit ==
    \A t \in Tasks :
        /\ tasks[t].retries <= RetryLimit
        /\ tasks[t].status = "failed" => tasks[t].retries = RetryLimit

\* The death of a node costs its tasks no retry: a retry is charged to one
\* active task at a time, by a report, never by a step that touches nodes.
OnlyFailuresUseRetries ==
    [][\A t \in Tasks : tasks'[t].retries # tasks[t].retries =>
          /\ tasks'[t].retries = tasks[t].retries + 1
          /\ Active(tasks[t])
          /\ UNCHANGED nodes]_vars

\* A succeeded or failed task is never touched again, by no late report, no
\* tick and no death of the node that it ran on.
FinishedStaysFinished ==
    [][\A t \in Tasks : Terminal(tasks[t]) => tasks'[t] = tasks[t]]_vars

\* The tables as Lifecycle sees them.
Abs == INSTANCE Lifecycle WITH
    life <- [t \in Tasks |-> Life(tasks[t])],
    fence <- [n \in Nodes |-> NextEpoch(nodes[n])]

\* However ticks, detectors, handlers and reports interleave, the tables go
\* through the steps of Lifecycle: above all, no assignment is written under an
\* epoch that its node never had, although ticks use epochs they listed earlier,
\* and no late write takes an epoch back.
ImplementsLifecycle == Abs!Spec

\* The tasks on a node come to request more than it has in three ways only: its
\* worker registers again with less, which leaves the tasks where they are; or a
\* tick commits that had listed the node before that; or two ticks overlap, and
\* the one that overfills the node commits after another has placed a task there
\* that it had not seen when it measured.  While workers keep their size, one
\* engine alone, or two whose ticks do not overlap, never overcommit.
Overcommitted(n) == Load(Busy(n)) > nodes[n].capacity
OvercommitExplained ==
    [][\A n \in Nodes : Overcommitted(n)' =>
          \/ Overcommitted(n)
          \/ nodes'[n].capacity < nodes[n].capacity
          \/ \E r \in Replicas :
                /\ engine[r].pc = "measured" /\ engine'[r].pc = "idle"
                /\ \/ engine[r].capacity[n] > nodes[n].capacity
                   \/ ~(Busy(n) \subseteq engine[r].busy[n])]_vars

\* A node that is never heard of again is in the end dead for good: the
\* detector gets it even if a late heartbeat handler resurrects its row.
SilentNodeDies ==
    \A n \in Nodes :
        <>[](age[n] = DeadAfter) => <>[](nodes[n].status \in {"none", "dead"})

\* A pending task is not passed over for ever while some ready node always has
\* room for it and fewer than claimLimit older tasks are pending: a task that
\* fits nowhere does not hold up the others of its batch, though claimLimit of
\* them would hold up everybody.
Room(t) == \E n \in Nodes : nodes[n].status = "ready" /\ Load(Busy(n)) + Request[t] <= nodes[n].capacity
Ahead(t) == {u \in Tasks : u < t /\ tasks[u].status = "pending"}
PendingIsPlaced ==
    \A t \in Tasks : []<>~(tasks[t].status = "pending" /\ Room(t) /\ Cardinality(Ahead(t)) < ClaimLimit)

\* The strengthening behind the invariants above: every epoch that is anywhere
\* in the system, with a worker, in a registration's answer, in an assignment
\* or in what a tick has listed, is one its node has reached, and one its node
\* has left behind if it is dead.
Reached(n, e) ==
    /\ nodes[n].status # "none"
    /\ e <= nodes[n].epoch
    /\ nodes[n].status = "dead" => e < nodes[n].epoch

WorkerEpochs ==
    /\ \A n \in Nodes : \A e \in issued[n] : Reached(n, e)
    /\ \A h \in Handlers : rpc[h].pc = "seed" => Reached(rpc[h].node, rpc[h].epoch)

ListedEpochs ==
    \A r \in Replicas : \A n \in engine[r].ready : Reached(n, engine[r].epoch[n])

TaskEpochs ==
    \A t \in Tasks :
        IF Active(tasks[t]) \/ Terminal(tasks[t])
        THEN tasks[t].node \in Nodes /\ Reached(tasks[t].node, tasks[t].epoch)
        ELSE Unassigned(tasks[t])

\* next_retry_at is NULL in a finished row.
FinishedHasNoRetry == \A t \in Tasks : Terminal(tasks[t]) => ~tasks[t].wait

IndInv ==
    /\ TypeOK
    /\ FinishedHasNoRetry
    /\ WorkerEpochs
    /\ ListedEpochs
    /\ TaskEpochs
    /\ IncarnationsDistinct
    /\ RetriesRespectLimit

\* "avoids tasks stuck forever on a node that never started them": what
\* docs/design-decisions.md says orphaning in MarkNodeDead achieves.
NoTaskStuckOnDeadNode ==
    \A t \in Tasks :
        (Active(tasks[t]) /\ nodes[tasks[t].node].status = "dead")
            ~> ~(Active(tasks[t]) /\ nodes[tasks[t].node].status = "dead")
===============================================================================
