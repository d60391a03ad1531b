---------------------------- MODULE ControlProofs -----------------------------
(***************************************************************************)
(* Proofs about Control, for any sets of replicas, nodes, tasks and        *)
(* handlers: any number of leaders, detectors and calls at once.           *)
(***************************************************************************)
EXTENDS Control, StoreProofs

USE NoNodeAssumption, RetryLimitAssumption, TasksAssumption, SizesAssumption, ThresholdsAssumption

-------------------------------------------------------------------------------
\* Idle goroutines are well formed.
LEMMA IdleTypes ==
    /\ EngineIdle \in EngineState
    /\ DetectorIdle \in DetectorState
    /\ RpcIdle \in RpcState
    /\ NoRow \in NodeRow
    /\ NoTask \in TaskRow
BY DEF EngineState, DetectorState, DetectorIdle, RpcState, NoRow, NodeRow, NodeStatus,
       NoTask, TaskRow, TaskStatus

\* Fields of the goroutines' records.
LEMMA EngineFields ==
    ASSUME NEW g \in EngineState
    PROVE  /\ g.claim \in SUBSET Tasks /\ g.ready \in SUBSET Nodes
           /\ g.epoch \in [Nodes -> Nat] /\ g.capacity \in [Nodes -> Nat] /\ g.busy \in [Nodes -> SUBSET Tasks]
BY DEF EngineState, EngineIdle

LEMMA RpcFields ==
    ASSUME NEW c \in RpcState
    PROVE  c.pc # "idle" => c.node \in Nodes /\ c.epoch \in Nat /\ c.status \in NodeStatus
BY DEF RpcState, RpcIdle

LEMMA DetectorFields ==
    ASSUME NEW d \in DetectorState
    PROVE  /\ d.todo \in SUBSET (Nodes \X {"ready", "not_ready"})
           /\ d.write \in {"dead", "not_ready"} => d.node \in Nodes
           /\ d.node = NoNode => d.write = "none"
           /\ d.node # NoNode => d.node \in Nodes /\ d.write \in {"dead", "not_ready"}
           /\ [d EXCEPT !.node = NoNode, !.write = "none"] \in DetectorState
BY DEF DetectorState
-------------------------------------------------------------------------------
(* Type correctness *)

\* The tasks that a committing tick writes are placed on nodes it listed as
\* ready, under the epochs it listed; it leaves the other rows alone.
LEMMA CommitFacts ==
    ASSUME TypeOK, NEW r \in Replicas, TickCommit(r)
    PROVE  \A t \in Tasks :
              \/ tasks'[t] = tasks[t]
              \/ \E n \in engine[r].ready :
                    /\ n \in Nodes /\ engine[r].epoch[n] \in Nat
                    /\ tasks[t].status = "pending"
                    /\ tasks'[t] = Scheduled(tasks[t], n, engine[r].epoch[n])
<1> SUFFICES ASSUME NEW t \in Tasks, tasks'[t] # tasks[t]
             PROVE  \E n \in engine[r].ready :
                       /\ n \in Nodes /\ engine[r].epoch[n] \in Nat
                       /\ tasks[t].status = "pending"
                       /\ tasks'[t] = Scheduled(tasks[t], n, engine[r].epoch[n])
  OBVIOUS
<1>1. PICK place \in Placements(engine[r]) :
         /\ \A u \in engine[r].claim : place[u] # NoNode => tasks[u].status = "pending"
         /\ tasks' = [u \in Tasks |->
                IF u \in engine[r].claim /\ place[u] # NoNode
                THEN Scheduled(tasks[u], place[u], engine[r].epoch[place[u]])
                ELSE tasks[u]]
  BY DEF TickCommit
<1>2. t \in engine[r].claim /\ place[t] # NoNode
  BY <1>1
<1>3. place[t] \in engine[r].ready
  BY <1>1, <1>2 DEF Placements
<1>4. engine[r].ready \subseteq Nodes /\ engine[r].epoch \in [Nodes -> Nat]
  BY EngineFields DEF TypeOK
<1> QED
  BY <1>1, <1>2, <1>3, <1>4

\* Engine ticks keep the types.
LEMMA EngineType ==
    ASSUME TypeOK, NEW r \in Replicas, EngineStep(r)
    PROVE  TypeOK'
<1>0. ASSUME TickCommit(r), NEW t \in Tasks, tasks'[t] # tasks[t]
      PROVE  \E n \in engine[r].ready :
                /\ n \in Nodes /\ engine[r].epoch[n] \in Nat
                /\ tasks[t].status = "pending"
                /\ tasks'[t] = Scheduled(tasks[t], n, engine[r].epoch[n])
  BY <1>0, CommitFacts
<1> USE DEF TypeOK
<1>1. CASE TickClaim(r)
  <2>1. Oldest(Claimable) \in SUBSET Tasks
    BY DEF Oldest, Claimable
  <2>2. [EngineIdle EXCEPT !.pc = "claimed", !.claim = Oldest(Claimable)] \in EngineState
    BY <2>1 DEF EngineIdle, EngineState
  <2> QED
    BY <1>1, <2>2 DEF TickClaim
<1>2. CASE TickNodes(r)
  <2>1. engine[r] \in EngineState /\ engine[r].pc = "claimed"
    BY <1>2 DEF TickNodes
  <2>2. engine[r] \in [pc : {"claimed", "listed", "measured"}, claim : SUBSET Tasks, ready : SUBSET Nodes,
                       epoch : [Nodes -> Nat], capacity : [Nodes -> Nat], busy : [Nodes -> SUBSET Tasks]]
    BY <2>1 DEF EngineState, EngineIdle
  <2> DEFINE ready == {n \in Nodes : nodes[n].status = "ready"}
             listed == [n \in Nodes |-> IF nodes[n].status = "ready" THEN nodes[n].epoch ELSE 0]
             size == [n \in Nodes |-> IF nodes[n].status = "ready" THEN nodes[n].capacity ELSE 0]
  <2>3. ready \in SUBSET Nodes
    OBVIOUS
  <2>4. listed \in [Nodes -> Nat] /\ size \in [Nodes -> Nat]
    BY DEF NodeRow
  <2> HIDE DEF ready, listed, size
  <2>5. [engine[r] EXCEPT !.pc = "listed", !.ready = ready, !.epoch = listed, !.capacity = size] \in EngineState
    BY <2>2, <2>3, <2>4 DEF EngineState
  <2>6. engine' = [engine EXCEPT ![r] =
           [engine[r] EXCEPT !.pc = "listed", !.ready = ready, !.epoch = listed, !.capacity = size]]
    BY <1>2 DEF TickNodes, ready, listed, size
  <2> QED
    BY <1>2, <2>5, <2>6 DEF TickNodes
<1>3. CASE TickAllocs(r)
  <2>1. engine[r] \in EngineState /\ engine[r].pc = "listed"
    BY <1>3 DEF TickAllocs
  <2>2. engine[r] \in [pc : {"claimed", "listed", "measured"}, claim : SUBSET Tasks, ready : SUBSET Nodes,
                       epoch : [Nodes -> Nat], capacity : [Nodes -> Nat], busy : [Nodes -> SUBSET Tasks]]
    BY <2>1 DEF EngineState, EngineIdle
  <2> DEFINE busy == [n \in Nodes |-> Busy(n)]
  <2>3. busy \in [Nodes -> SUBSET Tasks]
    BY DEF Busy
  <2> HIDE DEF busy
  <2>4. [engine[r] EXCEPT !.pc = "measured", !.busy = busy] \in EngineState
    BY <2>2, <2>3 DEF EngineState
  <2>5. engine' = [engine EXCEPT ![r] = [engine[r] EXCEPT !.pc = "measured", !.busy = busy]]
    BY <1>3 DEF TickAllocs, busy
  <2> QED
    BY <1>3, <2>4, <2>5 DEF TickAllocs
<1>4. CASE TickCommit(r)
  <2>1. ASSUME NEW t \in Tasks PROVE tasks'[t] \in TaskRow
    <3>1. CASE tasks'[t] = tasks[t]
      BY <3>1
    <3>2. CASE tasks'[t] # tasks[t]
      <4>1. PICK n \in engine[r].ready : /\ n \in Nodes /\ engine[r].epoch[n] \in Nat
                                        /\ tasks'[t] = Scheduled(tasks[t], n, engine[r].epoch[n])
        BY <1>0, <1>4, <3>2
      <4> QED
        BY <4>1, ScheduledFacts
    <3> QED
      BY <3>1, <3>2
  <2>2. tasks' \in [Tasks -> TaskRow]
    BY <1>4, <2>1 DEF TickCommit
  <2> QED
    BY <1>4, <2>2, IdleTypes DEF TickCommit
<1>5. CASE TickAbort(r)
  BY <1>5, IdleTypes DEF TickAbort
<1> QED
  BY <1>1, <1>2, <1>3, <1>4, <1>5 DEF EngineStep

\* Detector ticks keep the types.
LEMMA DetectorType ==
    ASSUME TypeOK, NEW r \in Replicas, DetectorStep(r)
    PROVE  TypeOK'
<1> USE DEF TypeOK
<1>0. detector[r] \in DetectorState
  OBVIOUS
<1>1. CASE DetectList(r)
  <2> DEFINE todo == {<<n, nodes[n].status>> : n \in ListActiveNodes}
  <2>1. todo \in SUBSET (Nodes \X {"ready", "not_ready"})
    BY DEF ListActiveNodes
  <2> HIDE DEF todo
  <2>2. [DetectorIdle EXCEPT !.todo = todo] \in DetectorState
    BY <2>1 DEF DetectorState, DetectorIdle
  <2>3. detector' = [detector EXCEPT ![r] = [DetectorIdle EXCEPT !.todo = todo]]
    BY <1>1 DEF DetectList, todo
  <2>4. detector' \in [Replicas -> DetectorState]
    BY <2>2, <2>3
  <2> QED
    BY <1>1, <2>4 DEF DetectList
<1>2. ASSUME NEW n \in Nodes, NEW s \in NodeStatus, DetectRead(r, n, s) PROVE TypeOK'
  <2> DEFINE w == Verdict(age[n], s)
             rest == detector[r].todo \ {<<n, s>>}
  <2>1. w \in {"dead", "not_ready", "none"}
    BY DEF Verdict
  <2>2. rest \in SUBSET (Nodes \X {"ready", "not_ready"})
    BY <1>0, DetectorFields
  <2>3. detector' = [detector EXCEPT ![r] =
           [todo |-> rest, node |-> IF w = "none" THEN NoNode ELSE n, write |-> w]]
    BY <1>2 DEF DetectRead
  <2> HIDE DEF w, rest
  <2>4. [todo |-> rest, node |-> IF w = "none" THEN NoNode ELSE n, write |-> w] \in DetectorState
    BY <2>1, <2>2 DEF DetectorState
  <2>5. detector' \in [Replicas -> DetectorState]
    BY <2>3, <2>4
  <2> QED
    BY <1>2, <2>5 DEF DetectRead
<1> DEFINE cleared == [detector[r] EXCEPT !.node = NoNode, !.write = "none"]
<1>3. cleared \in DetectorState
  BY <1>0, DetectorFields
<1>4. CASE DetectDead(r)
  <2>1. detector[r].node \in Nodes
    BY <1>0, <1>4, DetectorFields DEF DetectDead
  <2>2. nodes' \in [Nodes -> NodeRow]
    BY <1>4, <2>1, NodeRowTypes DEF DetectDead
  <2>3. tasks' \in [Tasks -> TaskRow]
    BY <1>4, <2>1, OrphanedFacts DEF DetectDead
  <2>4. detector' = [detector EXCEPT ![r] = cleared]
    BY <1>4 DEF DetectDead
  <2> QED
    BY <1>3, <1>4, <2>2, <2>3, <2>4 DEF DetectDead
<1>5. CASE DetectNotReady(r)
  <2>1. detector[r].node \in Nodes
    BY <1>0, <1>5, DetectorFields DEF DetectNotReady
  <2>2. nodes' \in [Nodes -> NodeRow]
    BY <1>5, <2>1, NodeRowTypes DEF DetectNotReady, NodeStatus
  <2>3. detector' = [detector EXCEPT ![r] = cleared]
    BY <1>5 DEF DetectNotReady
  <2> QED
    BY <1>3, <1>5, <2>2, <2>3 DEF DetectNotReady
<1>6. CASE DetectError(r)
  <2>1. CASE detector[r].node = NoNode
    <3>1. PICK m \in detector[r].todo : detector' = [detector EXCEPT ![r].todo = @ \ {m}]
      BY <1>6, <2>1 DEF DetectError
    <3>2. [detector[r] EXCEPT !.todo = @ \ {m}] \in DetectorState
      BY <1>0, <2>1 DEF DetectorState
    <3> QED
      BY <1>6, <3>1, <3>2 DEF DetectError
  <2>2. CASE detector[r].node # NoNode
    <3>1. detector' = [detector EXCEPT ![r] = cleared]
      BY <1>6, <2>2 DEF DetectError
    <3> QED
      BY <1>3, <1>6, <3>1 DEF DetectError
  <2> QED
    BY <2>1, <2>2
<1> QED
  BY <1>1, <1>2, <1>4, <1>5, <1>6 DEF DetectorStep

\* The gRPC handlers keep the types.
LEMMA HandlerType ==
    ASSUME TypeOK, NEW h \in Handlers, HandlerStep(h)
    PROVE  TypeOK'
<1> USE DEF TypeOK
<1>1. ASSUME NEW n \in Nodes, NEW c \in Sizes, RegisterTx(h, n, c) PROVE TypeOK'
  <2>1. nodes' \in [Nodes -> NodeRow]
    BY <1>1, NodeRowTypes DEF RegisterTx
  <2>2. [pc |-> "seed", node |-> n, epoch |-> nodes'[n].epoch, status |-> "none"] \in RpcState
    BY <2>1 DEF RpcState, NodeRow, NodeStatus
  <2> QED
    BY <1>1, <2>1, <2>2 DEF RegisterTx
<1>2. ASSUME NEW n \in Nodes, NEW e \in issued[n], HeartbeatGet(h, n, e) PROVE TypeOK'
  <2>1. [pc |-> "seen", node |-> n, epoch |-> e, status |-> nodes[n].status] \in RpcState
    BY DEF RpcState, NodeRow
  <2> QED
    BY <1>2, <2>1 DEF HeartbeatGet
<1>3. CASE RegisterSeed(h)
  <2>1. rpc[h].node \in Nodes /\ rpc[h].epoch \in Nat
    BY <1>3, RpcFields DEF RegisterSeed
  <2> QED
    BY <1>3, <2>1, IdleTypes DEF RegisterSeed
<1> DEFINE Busyness == [pc : {"seed", "seen", "recover", "list"}, node : Nodes, epoch : Nat, status : NodeStatus]
<1>4. CASE HeartbeatSeen(h)
  <2>1. rpc[h] \in Busyness
    BY <1>4 DEF HeartbeatSeen, RpcState, RpcIdle
  <2>2. \A pc \in {"recover", "list"} : [rpc[h] EXCEPT !.pc = pc] \in RpcState
    BY <2>1 DEF RpcState
  <2>3. PICK pc \in {"recover", "list"} : rpc' = [rpc EXCEPT ![h] = [rpc[h] EXCEPT !.pc = pc]]
    BY <1>4 DEF HeartbeatSeen
  <2> QED
    BY <1>4, <2>1, <2>2, <2>3 DEF HeartbeatSeen
<1>5. CASE HeartbeatRecover(h)
  <2>1. rpc[h] \in Busyness
    BY <1>5 DEF HeartbeatRecover, RpcState, RpcIdle
  <2>2. [rpc[h] EXCEPT !.pc = "list"] \in RpcState
    BY <2>1 DEF RpcState
  <2>3. nodes' \in [Nodes -> NodeRow]
    BY <1>5, <2>1, NodeRowTypes DEF HeartbeatRecover, NodeStatus
  <2> QED
    BY <1>5, <2>2, <2>3 DEF HeartbeatRecover
<1>6. CASE HeartbeatReply(h)
  <2>1. rpc[h].node \in Nodes
    BY <1>6, RpcFields DEF HeartbeatReply
  <2>2. told' \in [Tasks -> SUBSET Nodes]
    BY <1>6, <2>1 DEF HeartbeatReply
  <2> QED
    BY <1>6, <2>2, IdleTypes DEF HeartbeatReply
<1>7. CASE RpcError(h)
  BY <1>7, IdleTypes DEF RpcError
<1> QED
  BY <1>1, <1>2, <1>3, <1>4, <1>5, <1>6, <1>7 DEF HandlerStep

\* Every step keeps the types.
LEMMA TypeStep == TypeOK /\ [Next]_vars => TypeOK'
<1> SUFFICES ASSUME TypeOK, [Next]_vars PROVE TypeOK'
  OBVIOUS
<1> USE DEF TypeOK
<1>1. ASSUME NEW r \in Replicas, Lead(r) \/ Unlead(r) PROVE TypeOK'
  BY <1>1 DEF Lead, Unlead
<1>2. ASSUME NEW job \in Jobs, SubmitJob(job) PROVE TypeOK'
  <2>1. [NoTask EXCEPT !.status = "pending"] \in TaskRow
    BY DEF NoTask, TaskRow, TaskStatus
  <2> QED
    BY <1>2, <2>1 DEF SubmitJob
<1>3. ASSUME NEW t \in Tasks, RetryDue(t) PROVE TypeOK'
  <2>1. \A f \in TaskRow : [f EXCEPT !.wait = FALSE] \in TaskRow
    BY DEF TaskRow
  <2>2. tasks' = [tasks EXCEPT ![t] = [tasks[t] EXCEPT !.wait = FALSE]]
    BY <1>3 DEF RetryDue
  <2>3. tasks' \in [Tasks -> TaskRow]
    BY <2>1, <2>2
  <2> QED
    BY <1>3, <2>3 DEF RetryDue
<1>4. CASE Report
  <2>1. PICK t \in Tasks, n \in Nodes :
           \E e \in issued[n], s \in {"running", "succeeded", "failed"} : ReportTaskStatus(t, n, e, s)
    BY <1>4, Zenon DEF Report
  <2>2. PICK e \in issued[n], s \in {"running", "succeeded", "failed"} : ReportTaskStatus(t, n, e, s)
    BY <2>1, Zenon
  <2>3. AfterReport(tasks[t], s) \in TaskRow
    BY <2>2, AfterReportFacts DEF ReportTaskStatus
  <2> QED
    BY <2>2, <2>3 DEF ReportTaskStatus
<1>5. CASE Elapse
  BY <1>5 DEF Elapse
<1>6. CASE UNCHANGED vars
  BY <1>6 DEF vars
<1> HIDE DEF TypeOK
<1> QED
  BY <1>1, <1>2, <1>3, <1>4, <1>5, <1>6, EngineType, DetectorType, HandlerType DEF Next

\* Rows and goroutine records keep their shape in every reachable state; an
\* idle engine (after TickCommit or TickAbort) holds no row locks.
THEOREM ControlTyping == Spec => []TypeOK
<1>1. Init => TypeOK
  BY IdleTypes DEF Init, TypeOK
<1> QED
  BY <1>1, TypeStep, PTL DEF Spec
-------------------------------------------------------------------------------
(* What a step can do to each part of the state *)

\* An epoch that a node has reached stays reached: RegisterNode and
\* MarkNodeDead only move the epoch on, and the writes of UpdateNodeStatus,
\* even a late one that resurrects a dead row, leave it where it is.
LEMMA ReachedKept ==
    ASSUME TypeOK, [Next]_vars, NEW n \in Nodes, NEW e \in Nat, Reached(n, e)
    PROVE  Reached(n, e)'
<1>0. nodes[n] \in NodeRow /\ nodes[n].epoch \in Nat
  BY DEF TypeOK, NodeRow
<1>1. ASSUME NEW m \in Nodes, NEW row \in NodeRow, nodes' = [nodes EXCEPT ![m] = row],
             m = n => \/ \E c \in Sizes : row = Registered(nodes[n], c)
                      \/ row = Dead(nodes[n])
                      \/ \E s \in {"ready", "not_ready"} : row = WithStatus(nodes[n], s)
      PROVE  Reached(n, e)'
  <2>1. CASE m # n
    BY <1>1, <2>1 DEF TypeOK, Reached
  <2>2. CASE m = n
    <3>1. nodes'[n] = row
      BY <1>1, <2>2 DEF TypeOK
    <3>2. nodes[n].status # "none" /\ e <= nodes[n].epoch
          /\ (nodes[n].status = "dead" => e < nodes[n].epoch)
      BY DEF Reached
    <3>3. ASSUME NEW c \in Sizes, row = Registered(nodes[n], c) PROVE Reached(n, e)'
      <4>1. row.status = "ready" /\ row.epoch = nodes[n].epoch + 1
        BY <1>0, <3>2, <3>3, NodeRowFields
      <4> QED
        BY <1>0, <3>1, <3>2, <4>1 DEF Reached
    <3>4. CASE row = Dead(nodes[n])
      BY <1>0, <3>1, <3>2, <3>4, NodeRowFields DEF Reached
    <3>5. ASSUME NEW s \in {"ready", "not_ready"}, row = WithStatus(nodes[n], s) PROVE Reached(n, e)'
      <4>1. row.status = s /\ row.epoch = nodes[n].epoch
        BY <1>0, <3>5, NodeRowFields DEF NodeStatus
      <4> QED
        BY <1>0, <3>1, <3>2, <4>1 DEF Reached
    <3> QED
      BY <1>1, <2>2, <3>3, <3>4, <3>5
  <2> QED
    BY <2>1, <2>2
<1>2. ASSUME NEW h \in Handlers, NEW m \in Nodes, NEW c \in Sizes, RegisterTx(h, m, c) PROVE Reached(n, e)'
  <2>1. nodes' = [nodes EXCEPT ![m] = Registered(nodes[m], c)] /\ Registered(nodes[m], c) \in NodeRow
    BY <1>2, NodeRowTypes DEF RegisterTx, TypeOK
  <2> QED
    BY <1>1, <2>1
<1>3. ASSUME NEW h \in Handlers, HeartbeatRecover(h) PROVE Reached(n, e)'
  <2>1. PICK m \in Nodes : m = rpc[h].node
    BY <1>3, RpcFields DEF HeartbeatRecover, TypeOK
  <2>2. nodes' = [nodes EXCEPT ![m] = WithStatus(nodes[m], "ready")] /\ WithStatus(nodes[m], "ready") \in NodeRow
    BY <1>3, <2>1, NodeRowTypes DEF HeartbeatRecover, TypeOK, NodeStatus
  <2> QED
    BY <1>1, <2>2
<1>4. ASSUME NEW r \in Replicas, DetectDead(r) PROVE Reached(n, e)'
  <2>1. PICK m \in Nodes : m = detector[r].node
    BY <1>4, DetectorFields DEF DetectDead, TypeOK
  <2>2. nodes' = [nodes EXCEPT ![m] = Dead(nodes[m])] /\ Dead(nodes[m]) \in NodeRow
    BY <1>4, <2>1, NodeRowTypes DEF DetectDead, TypeOK
  <2> QED
    BY <1>1, <2>2
<1>5. ASSUME NEW r \in Replicas, DetectNotReady(r) PROVE Reached(n, e)'
  <2>1. PICK m \in Nodes : m = detector[r].node
    BY <1>5, DetectorFields DEF DetectNotReady, TypeOK
  <2>2. nodes' = [nodes EXCEPT ![m] = WithStatus(nodes[m], "not_ready")] /\ WithStatus(nodes[m], "not_ready") \in NodeRow
    BY <1>5, <2>1, NodeRowTypes DEF DetectNotReady, TypeOK, NodeStatus
  <2> QED
    BY <1>1, <2>2
<1>6. CASE nodes' = nodes
  BY <1>6 DEF Reached
<1> QED
  BY <1>2, <1>3, <1>4, <1>5, <1>6
  DEF Next, vars, Lead, Unlead, EngineStep, TickClaim, TickNodes, TickAllocs, TickCommit, TickAbort,
      DetectorStep, DetectList, DetectRead, DetectError, HandlerStep, RegisterSeed, HeartbeatGet,
      HeartbeatSeen, HeartbeatReply, RpcError, SubmitJob, RetryDue, Report, ReportTaskStatus, Elapse

\* A worker learns an epoch only from a registration that is being answered.
LEMMA IssuedStep ==
    ASSUME TypeOK, [Next]_vars, NEW n \in Nodes, NEW e \in issued'[n]
    PROVE  \/ e \in issued[n]
           \/ \E h \in Handlers : rpc[h].pc = "seed" /\ rpc[h].node = n /\ rpc[h].epoch = e /\ rpc'[h] = RpcIdle
<1>1. ASSUME NEW h \in Handlers, RegisterSeed(h), e \notin issued[n]
      PROVE  rpc[h].pc = "seed" /\ rpc[h].node = n /\ rpc[h].epoch = e /\ rpc'[h] = RpcIdle
  BY <1>1 DEF RegisterSeed, TypeOK
<1>2. CASE issued' = issued
  BY <1>2
<1> QED
  BY <1>1, <1>2
  DEF Next, vars, Lead, Unlead, EngineStep, TickClaim, TickNodes, TickAllocs, TickCommit, TickAbort,
      DetectorStep, DetectList, DetectRead, DetectDead, DetectNotReady, DetectError, HandlerStep,
      RegisterTx, HeartbeatGet, HeartbeatSeen, HeartbeatRecover, HeartbeatReply, RpcError, SubmitJob,
      RetryDue, Report, ReportTaskStatus, Elapse

\* A handler is about to answer a registration because it was before the step,
\* or because the step is its RegisterNode transaction.
LEMMA SeedStep ==
    ASSUME TypeOK, [Next]_vars, NEW h \in Handlers, rpc'[h].pc = "seed"
    PROVE  \/ rpc'[h] = rpc[h]
           \/ \E n \in Nodes, c \in Sizes : RegisterTx(h, n, c)
<1>1. CASE rpc' = rpc
  BY <1>1
<1>2. ASSUME NEW g \in Handlers, HandlerStep(g) PROVE rpc'[h] = rpc[h] \/ \E n \in Nodes, c \in Sizes : RegisterTx(h, n, c)
  <2>1. CASE g # h
    BY <1>2, <2>1
    DEF TypeOK, HandlerStep, RegisterTx, RegisterSeed, HeartbeatGet, HeartbeatSeen, HeartbeatRecover,
        HeartbeatReply, RpcError
  <2>2. CASE g = h
    <3>1. ASSUME NEW n \in Nodes, NEW e \in issued[n], HeartbeatGet(h, n, e) PROVE FALSE
      BY <3>1 DEF HeartbeatGet, TypeOK
    <3>2. RpcIdle.pc # "seed"
      BY DEF RpcIdle
    <3>3. CASE RegisterSeed(h) \/ HeartbeatReply(h) \/ RpcError(h)
      BY <3>2, <3>3 DEF RegisterSeed, HeartbeatReply, RpcError, TypeOK
    <3>4. CASE HeartbeatSeen(h) \/ HeartbeatRecover(h)
      <4>1. rpc[h] \in [pc : {"seed", "seen", "recover", "list"}, node : Nodes, epoch : Nat, status : NodeStatus]
        BY <3>4 DEF HeartbeatSeen, HeartbeatRecover, TypeOK, RpcState, RpcIdle
      <4> QED
        BY <3>4, <4>1 DEF HeartbeatSeen, HeartbeatRecover, TypeOK
    <3> QED
      BY <1>2, <2>2, <3>1, <3>3, <3>4 DEF HandlerStep
  <2> QED
    BY <2>1, <2>2
<1> QED
  BY <1>1, <1>2
  DEF Next, vars, Lead, Unlead, EngineStep, TickClaim, TickNodes, TickAllocs, TickCommit, TickAbort,
      DetectorStep, DetectList, DetectRead, DetectDead, DetectNotReady, DetectError, SubmitJob,
      RetryDue, Report, ReportTaskStatus, Elapse
\* What a tick knows of a ready node it has just read, or knew before.
LEMMA ListedStep ==
    ASSUME TypeOK, [Next]_vars, NEW r \in Replicas, NEW n \in engine'[r].ready
    PROVE  \/ n \in engine[r].ready /\ engine'[r].epoch[n] = engine[r].epoch[n]
           \/ nodes[n].status = "ready" /\ engine'[r].epoch[n] = nodes[n].epoch /\ nodes' = nodes
<1>0. engine[r] \in EngineState
  BY DEF TypeOK
<1>1. CASE engine' = engine
  BY <1>1
<1>2. ASSUME NEW q \in Replicas, q # r, EngineStep(q) PROVE engine'[r] = engine[r]
  BY <1>2 DEF TypeOK, EngineStep, TickClaim, TickNodes, TickAllocs, TickCommit, TickAbort
<1>3. EngineIdle.ready = {}
  BY DEF EngineIdle
<1>4. CASE TickClaim(r)
  <2>1. engine'[r] = [EngineIdle EXCEPT !.pc = "claimed", !.claim = Oldest(Claimable)]
    BY <1>4 DEF TickClaim, TypeOK
  <2>2. engine'[r].ready = {}
    BY <2>1 DEF EngineIdle
  <2> QED
    BY <2>2
<1>5. CASE TickCommit(r) \/ TickAbort(r)
  BY <1>3, <1>5 DEF TickCommit, TickAbort, TypeOK
<1>6. CASE TickNodes(r)
  <2>1. engine[r] \in [pc : {"claimed", "listed", "measured"}, claim : SUBSET Tasks, ready : SUBSET Nodes,
                       epoch : [Nodes -> Nat], capacity : [Nodes -> Nat], busy : [Nodes -> SUBSET Tasks]]
    BY <1>0, <1>6 DEF TickNodes, EngineState, EngineIdle
  <2>2. engine'[r] =
           [engine[r] EXCEPT !.pc = "listed",
                     !.ready = {m \in Nodes : nodes[m].status = "ready"},
                     !.epoch = [m \in Nodes |-> IF nodes[m].status = "ready" THEN nodes[m].epoch ELSE 0],
                     !.capacity = [m \in Nodes |-> IF nodes[m].status = "ready" THEN nodes[m].capacity ELSE 0]]
    BY <1>6 DEF TickNodes, TypeOK
  <2>3. engine'[r].ready = {m \in Nodes : nodes[m].status = "ready"}
    BY <2>1, <2>2
  <2>4. engine'[r].epoch = [m \in Nodes |-> IF nodes[m].status = "ready" THEN nodes[m].epoch ELSE 0]
    BY <2>1, <2>2
  <2> QED
    BY <1>6, <2>3, <2>4 DEF TickNodes
<1>7. CASE TickAllocs(r)
  <2>1. engine[r] \in [pc : {"claimed", "listed", "measured"}, claim : SUBSET Tasks, ready : SUBSET Nodes,
                       epoch : [Nodes -> Nat], capacity : [Nodes -> Nat], busy : [Nodes -> SUBSET Tasks]]
    BY <1>0, <1>7 DEF TickAllocs, EngineState, EngineIdle
  <2>2. engine'[r] = [engine[r] EXCEPT !.pc = "measured", !.busy = [m \in Nodes |-> Busy(m)]]
    BY <1>7 DEF TickAllocs, TypeOK
  <2>3. engine'[r].ready = engine[r].ready /\ engine'[r].epoch = engine[r].epoch
    BY <2>1, <2>2
  <2> QED
    BY <2>3
<1>8. ASSUME NEW q \in Replicas, EngineStep(q)
      PROVE  \/ n \in engine[r].ready /\ engine'[r].epoch[n] = engine[r].epoch[n]
             \/ nodes[n].status = "ready" /\ engine'[r].epoch[n] = nodes[n].epoch /\ nodes' = nodes
  BY <1>2, <1>4, <1>5, <1>6, <1>7, <1>8 DEF EngineStep
<1> QED
  BY <1>1, <1>8
  DEF Next, vars, Lead, Unlead, DetectorStep, DetectList, DetectRead, DetectDead, DetectNotReady,
      DetectError, HandlerStep, RegisterTx, RegisterSeed, HeartbeatGet, HeartbeatSeen, HeartbeatRecover,
      HeartbeatReply, RpcError, SubmitJob, RetryDue, Report, ReportTaskStatus, Elapse

\* The ways a task row can change.
Submitted(old, new) == old = NoTask /\ new.status = "pending" /\ Unassigned(new) /\ new.retries = 0

SameAssignment(old, new) == new.node = old.node /\ new.epoch = old.epoch /\ new.retries = old.retries

Due(old, new) == old.wait /\ new.status = old.status /\ SameAssignment(old, new) /\ ~new.wait

Reported(old, new) ==
    /\ Active(old) /\ (Active(new) \/ Terminal(new)) /\ SameAssignment(old, new) /\ ~new.wait
    /\ new.status = "failed" => ~(old.retries < RetryLimit)

Retried(old, new) ==
    /\ Active(old) /\ new.status = "pending" /\ Unassigned(new)
    /\ old.retries < RetryLimit /\ new.retries = old.retries + 1

Reclaimed(old, new) == Active(old) /\ new.status = "pending" /\ Unassigned(new) /\ new.retries = old.retries

Placed(old, new) ==
    /\ old.status = "pending" /\ new.status = "scheduled" /\ new.retries = old.retries
    /\ \E r \in Replicas : \E n \in engine[r].ready :
          n \in Nodes /\ engine[r].epoch[n] \in Nat /\ new.node = n /\ new.epoch = engine[r].epoch[n]

\* Every step leaves a task row alone or changes it in one of these ways, and
\* the one that charges a retry leaves the nodes table alone; only a tick that
\* commits places tasks.
LEMMA TaskStep ==
    ASSUME TypeOK, [Next]_vars, NEW t \in Tasks
    PROVE  \/ tasks'[t] = tasks[t]
           \/ Submitted(tasks[t], tasks'[t])
           \/ Due(tasks[t], tasks'[t])
           \/ Reported(tasks[t], tasks'[t])
           \/ Retried(tasks[t], tasks'[t]) /\ nodes' = nodes
           \/ Reclaimed(tasks[t], tasks'[t])
           \/ Placed(tasks[t], tasks'[t]) /\ \E r \in Replicas : TickCommit(r)
<1>0. tasks[t] \in TaskRow
  BY DEF TypeOK
<1>1. CASE tasks' = tasks
  BY <1>1
<1>2. ASSUME NEW job \in Jobs, SubmitJob(job), t \in job PROVE Submitted(tasks[t], tasks'[t])
  BY <1>2 DEF SubmitJob, Submitted, NoTask, Unassigned
<1>3. ASSUME NEW job \in Jobs, SubmitJob(job), t \notin job PROVE tasks'[t] = tasks[t]
  BY <1>3 DEF SubmitJob
<1>4. ASSUME RetryDue(t) PROVE Due(tasks[t], tasks'[t])
  <2>1. \A f \in TaskRow : LET g == [f EXCEPT !.wait = FALSE]
                           IN  g.status = f.status /\ SameAssignment(f, g) /\ ~g.wait
    BY DEF TaskRow, SameAssignment
  <2>2. tasks'[t] = [tasks[t] EXCEPT !.wait = FALSE]
    BY <1>4 DEF RetryDue, TypeOK
  <2>3. tasks[t].wait
    BY <1>4 DEF RetryDue
  <2> QED
    BY <1>0, <2>1, <2>2, <2>3 DEF Due
<1>5. ASSUME NEW u \in Tasks, RetryDue(u), u # t PROVE tasks'[t] = tasks[t]
  BY <1>5 DEF RetryDue, TypeOK
<1>6. ASSUME NEW n \in Nodes, NEW e \in issued[n], NEW s \in {"running", "succeeded", "failed"},
             ReportTaskStatus(t, n, e, s)
      PROVE  Reported(tasks[t], tasks'[t]) \/ (Retried(tasks[t], tasks'[t]) /\ nodes' = nodes)
  <2>1. Active(tasks[t]) /\ nodes' = nodes /\ tasks'[t] = AfterReport(tasks[t], s)
    BY <1>6 DEF ReportTaskStatus, TypeOK
  <2> DEFINE new == AfterReport(tasks[t], s)
  <2>2. \/ /\ Active(new) \/ Terminal(new)
           /\ SameAssignment(tasks[t], new) /\ ~new.wait
           /\ new.status = "failed" => ~(tasks[t].retries < RetryLimit)
        \/ /\ new.status = "pending" /\ Unassigned(new)
           /\ tasks[t].retries < RetryLimit /\ new.retries = tasks[t].retries + 1
    BY <1>0, <2>1, AfterReportFacts DEF SameAssignment
  <2> HIDE DEF new
  <2>3. tasks'[t] = new
    BY <2>1 DEF new
  <2> QED
    BY <2>1, <2>2, <2>3 DEF Reported, Retried
<1>7. ASSUME NEW u \in Tasks, NEW n \in Nodes, NEW e \in issued[n],
             NEW s \in {"running", "succeeded", "failed"}, ReportTaskStatus(u, n, e, s), u # t
      PROVE  tasks'[t] = tasks[t]
  BY <1>7 DEF ReportTaskStatus, TypeOK
<1>8. ASSUME NEW r \in Replicas, DetectDead(r)
      PROVE  tasks'[t] = tasks[t] \/ Reclaimed(tasks[t], tasks'[t])
  <2>1. PICK n \in Nodes : n = detector[r].node
    BY <1>8, DetectorFields DEF DetectDead, TypeOK
  <2>2. tasks'[t] = Orphaned(tasks[t], n) /\ tasks[t] \in TaskRow
    BY <1>8, <2>1 DEF DetectDead, TypeOK
  <2> QED
    BY <2>2, OrphanedFacts DEF Reclaimed, TypeOK
<1>9. ASSUME NEW r \in Replicas, TickCommit(r), tasks'[t] # tasks[t] PROVE Placed(tasks[t], tasks'[t])
  <2>1. PICK n \in engine[r].ready :
           /\ n \in Nodes /\ engine[r].epoch[n] \in Nat /\ tasks[t].status = "pending"
           /\ tasks'[t] = Scheduled(tasks[t], n, engine[r].epoch[n])
    BY <1>9, CommitFacts
  <2>2. PICK e \in Nat : e = engine[r].epoch[n]
    BY <2>1
  <2>3. /\ Scheduled(tasks[t], n, e).status = "scheduled"
        /\ Scheduled(tasks[t], n, e).node = n /\ Scheduled(tasks[t], n, e).epoch = e
        /\ Scheduled(tasks[t], n, e).retries = tasks[t].retries
    BY <1>0, <2>1, ScheduledFacts
  <2>4. tasks'[t] = Scheduled(tasks[t], n, e)
    BY <2>1, <2>2
  <2> QED
    BY <2>1, <2>2, <2>3, <2>4 DEF Placed
<1> DEFINE Goal == \/ tasks'[t] = tasks[t]
                   \/ Submitted(tasks[t], tasks'[t])
                   \/ Due(tasks[t], tasks'[t])
                   \/ Reported(tasks[t], tasks'[t])
                   \/ Retried(tasks[t], tasks'[t]) /\ nodes' = nodes
                   \/ Reclaimed(tasks[t], tasks'[t])
                   \/ Placed(tasks[t], tasks'[t]) /\ \E r \in Replicas : TickCommit(r)
<1>10. ASSUME NEW r \in Replicas, EngineStep(r) PROVE Goal
  BY <1>1, <1>9, <1>10 DEF EngineStep, TickClaim, TickNodes, TickAllocs, TickAbort
<1>11. ASSUME NEW r \in Replicas, DetectorStep(r) PROVE Goal
  BY <1>1, <1>8, <1>11 DEF DetectorStep, DetectList, DetectRead, DetectNotReady, DetectError
<1>12. ASSUME NEW h \in Handlers, HandlerStep(h) PROVE tasks' = tasks
  BY <1>12 DEF HandlerStep, RegisterTx, RegisterSeed, HeartbeatGet, HeartbeatSeen, HeartbeatRecover,
               HeartbeatReply, RpcError
<1>13. ASSUME NEW job \in Jobs, SubmitJob(job) PROVE Goal
  BY <1>2, <1>3, <1>13
<1>14. ASSUME NEW u \in Tasks, RetryDue(u) PROVE Goal
  BY <1>4, <1>5, <1>14
<1>15. CASE Report
  BY <1>6, <1>7, <1>15 DEF Report
<1>16. ASSUME NEW r \in Replicas, Lead(r) \/ Unlead(r) PROVE tasks' = tasks
  BY <1>16 DEF Lead, Unlead
<1>17. CASE Elapse \/ UNCHANGED vars
  BY <1>1, <1>17 DEF Elapse, vars
<1>18. Goal
  <2> HIDE DEF Goal
  <2>1. tasks' = tasks => Goal
    BY <1>1 DEF Goal
  <2>2. CASE Report
    BY <1>15, <2>2 DEF Goal
  <2>3. CASE Elapse \/ UNCHANGED vars
    BY <1>17, <2>3 DEF Goal
  <2> QED
    BY <1>10, <1>11, <1>12, <1>13, <1>14, <1>16, <2>1, <2>2, <2>3 DEF Next
<1> QED
  BY <1>18
-------------------------------------------------------------------------------
(* The inductive invariant *)

\* Epochs held by workers or on their way to them stay reached.
LEMMA WorkerEpochsStep == IndInv /\ [Next]_vars => WorkerEpochs'
<1> SUFFICES ASSUME IndInv, [Next]_vars PROVE WorkerEpochs'
  OBVIOUS
<1>0. TypeOK /\ WorkerEpochs /\ TypeOK'
  BY TypeStep DEF IndInv
<1>1. ASSUME NEW n \in Nodes, NEW e \in issued'[n] PROVE Reached(n, e)'
  <2>1. e \in Nat
    BY <1>0 DEF TypeOK
  <2>2. Reached(n, e)
    BY <1>0, IssuedStep DEF WorkerEpochs
  <2> QED
    BY <1>0, <2>1, <2>2, ReachedKept
<1>2. ASSUME NEW h \in Handlers, rpc'[h].pc = "seed" PROVE Reached(rpc[h].node, rpc[h].epoch)'
  <2>0. PICK n \in Nodes, e \in Nat : n = rpc'[h].node /\ e = rpc'[h].epoch
    BY <1>0, <1>2, RpcFields DEF TypeOK
  <2>1. CASE rpc'[h] = rpc[h]
    <3>1. Reached(n, e)
      BY <1>0, <1>2, <2>0, <2>1 DEF WorkerEpochs
    <3>2. Reached(n, e)'
      BY <1>0, <3>1, ReachedKept
    <3> QED
      BY <2>0, <3>2 DEF Reached
  <2>2. ASSUME NEW m \in Nodes, NEW c \in Sizes, RegisterTx(h, m, c) PROVE Reached(rpc[h].node, rpc[h].epoch)'
    <3>1. rpc'[h].node = m /\ rpc'[h].epoch = nodes'[m].epoch
      BY <1>0, <2>2 DEF RegisterTx, TypeOK
    <3>2. nodes'[m] = Registered(nodes[m], c) /\ nodes[m] \in NodeRow
      BY <1>0, <2>2 DEF RegisterTx, TypeOK
    <3>3. nodes'[m].status = "ready" /\ nodes'[m].epoch \in Nat
      BY <1>0, <3>2, NodeRowFields DEF TypeOK, NodeRow
    <3> QED
      BY <3>1, <3>3 DEF Reached
  <2> QED
    BY <1>0, <1>2, <2>1, <2>2, SeedStep
<1> QED
  BY <1>1, <1>2 DEF WorkerEpochs

\* Epochs that ticks have listed stay reached.
LEMMA ListedEpochsStep == IndInv /\ [Next]_vars => ListedEpochs'
<1> SUFFICES ASSUME IndInv, [Next]_vars, NEW r \in Replicas, NEW n \in engine'[r].ready
             PROVE  Reached(n, engine[r].epoch[n])'
  BY DEF ListedEpochs
<1>0. TypeOK /\ ListedEpochs /\ TypeOK'
  BY TypeStep DEF IndInv
<1>1. n \in Nodes /\ engine'[r].epoch[n] \in Nat
  BY <1>0, EngineFields DEF TypeOK
<1>2. PICK e \in Nat : e = engine'[r].epoch[n]
  BY <1>1
<1>3. Reached(n, e)
  <2>1. CASE n \in engine[r].ready /\ engine'[r].epoch[n] = engine[r].epoch[n]
    BY <1>0, <1>2, <2>1 DEF ListedEpochs
  <2>2. CASE nodes[n].status = "ready" /\ engine'[r].epoch[n] = nodes[n].epoch
    BY <1>0, <1>2, <2>2 DEF Reached
  <2> QED
    BY <1>0, <2>1, <2>2, ListedStep
<1>4. Reached(n, e)'
  BY <1>0, <1>1, <1>3, ReachedKept
<1> QED
  BY <1>2, <1>4 DEF Reached

\* No assignment runs ahead of its node.
LEMMA TaskEpochsStep == IndInv /\ [Next]_vars => TaskEpochs'
<1> SUFFICES ASSUME IndInv, [Next]_vars, NEW t \in Tasks
             PROVE  IF Active(tasks'[t]) \/ Terminal(tasks'[t])
                    THEN tasks'[t].node \in Nodes /\ Reached(tasks[t].node, tasks[t].epoch)'
                    ELSE Unassigned(tasks'[t])
  BY DEF TaskEpochs
<1>0. TypeOK /\ ListedEpochs /\ TaskEpochs /\ TypeOK'
  BY TypeStep DEF IndInv
<1>1. tasks[t] \in TaskRow /\ tasks'[t] \in TaskRow /\ tasks[t].epoch \in Nat /\ tasks'[t].epoch \in Nat
  BY <1>0 DEF TypeOK, TaskRow
<1>2. ASSUME tasks'[t].node \in Nodes, Reached(tasks'[t].node, tasks'[t].epoch)
      PROVE  Reached(tasks[t].node, tasks[t].epoch)'
  <2>1. PICK n \in Nodes, e \in Nat : n = tasks'[t].node /\ e = tasks'[t].epoch
    BY <1>1, <1>2
  <2>2. Reached(n, e)'
    BY <1>0, <1>2, <2>1, ReachedKept
  <2> QED
    BY <2>1, <2>2 DEF Reached
<1>3. CASE /\ Active(tasks'[t]) \/ Terminal(tasks'[t]) <=> Active(tasks[t]) \/ Terminal(tasks[t])
           /\ tasks'[t].node = tasks[t].node /\ tasks'[t].epoch = tasks[t].epoch
  <2>1. CASE Active(tasks[t]) \/ Terminal(tasks[t])
    <3>1. tasks[t].node \in Nodes /\ Reached(tasks[t].node, tasks[t].epoch)
      BY <1>0, <2>1 DEF TaskEpochs
    <3>2. tasks'[t].node \in Nodes /\ Reached(tasks'[t].node, tasks'[t].epoch)
      BY <1>3, <3>1
    <3> QED
      BY <1>2, <1>3, <2>1, <3>2
  <2>2. CASE ~(Active(tasks[t]) \/ Terminal(tasks[t]))
    <3>1. Unassigned(tasks[t])
      BY <1>0, <2>2 DEF TaskEpochs
    <3> QED
      BY <1>3, <2>2, <3>1 DEF Unassigned
  <2> QED
    BY <2>1, <2>2
<1>4. CASE tasks'[t].status = "pending" /\ Unassigned(tasks'[t])
  BY <1>4 DEF Active, Terminal
<1>5. CASE Placed(tasks[t], tasks'[t])
  <2>0. PICK r \in Replicas : \E n \in engine[r].ready :
           n \in Nodes /\ tasks'[t].node = n /\ tasks'[t].epoch = engine[r].epoch[n]
    BY <1>5 DEF Placed
  <2>1. PICK n \in engine[r].ready :
           n \in Nodes /\ tasks'[t].node = n /\ tasks'[t].epoch = engine[r].epoch[n]
    BY <2>0
  <2>2. Reached(n, engine[r].epoch[n])
    BY <1>0, <2>1 DEF ListedEpochs
  <2>3. tasks'[t].node \in Nodes /\ Reached(tasks'[t].node, tasks'[t].epoch)
    BY <2>1, <2>2
  <2>4. Active(tasks'[t])
    BY <1>5 DEF Placed, Active
  <2> QED
    BY <1>2, <2>3, <2>4
<1>6. CASE Due(tasks[t], tasks'[t])
  BY <1>3, <1>6 DEF Due, SameAssignment, Active, Terminal
<1>7. CASE Reported(tasks[t], tasks'[t])
  BY <1>3, <1>7 DEF Reported, SameAssignment
<1>8. CASE tasks'[t] = tasks[t]
  BY <1>3, <1>8
<1> QED
  BY <1>0, <1>4, <1>5, <1>6, <1>7, <1>8, TaskStep DEF Submitted, Retried, Reclaimed

\* No two registrations are answered with one epoch.
LEMMA IncarnationsStep == IndInv /\ [Next]_vars => IncarnationsDistinct'
<1> SUFFICES ASSUME IndInv, [Next]_vars, NEW h \in Handlers, rpc'[h].pc = "seed"
             PROVE  /\ rpc'[h].epoch \notin issued'[rpc'[h].node]
                    /\ \A g \in Handlers \ {h} :
                          rpc'[g].pc = "seed" /\ rpc'[g].node = rpc'[h].node => rpc'[g].epoch # rpc'[h].epoch
  BY DEF IncarnationsDistinct
<1>0. TypeOK /\ WorkerEpochs /\ IncarnationsDistinct /\ TypeOK'
  BY TypeStep DEF IndInv
<1>1. ASSUME NEW g \in Handlers, NEW n \in Nodes, NEW c \in Sizes, RegisterTx(g, n, c), NEW e \in Nat, Reached(n, e)
      PROVE  rpc'[g].epoch # e
  <2>1. rpc'[g].epoch = Registered(nodes[n], c).epoch /\ nodes[n] \in NodeRow
    BY <1>0, <1>1 DEF RegisterTx, TypeOK
  <2>2. nodes[n].epoch \in Nat /\ nodes[n].status # "none" /\ e <= nodes[n].epoch
    BY <1>0, <1>1 DEF Reached, TypeOK, NodeRow
  <2>3. Registered(nodes[n], c).epoch = nodes[n].epoch + 1
    BY <2>1, <2>2, NodeRowFields
  <2> QED
    BY <2>1, <2>2, <2>3
<1>2. ASSUME NEW g \in Handlers, NEW n \in Nodes, NEW c \in Sizes, RegisterTx(g, n, c)
      PROVE  /\ rpc'[g].node = n /\ issued' = issued
             /\ \A k \in Handlers \ {g} : rpc'[k] = rpc[k]
  BY <1>0, <1>2 DEF RegisterTx, TypeOK
<1>3. rpc'[h].node \in Nodes
  BY <1>0, RpcFields DEF TypeOK
<1>4. rpc'[h].epoch \notin issued'[rpc'[h].node]
  <2>1. ASSUME NEW n \in Nodes, NEW c \in Sizes, RegisterTx(h, n, c) PROVE rpc'[h].epoch \notin issued[n]
    <3>1. \A e \in issued[n] : e \in Nat /\ Reached(n, e)
      BY <1>0 DEF WorkerEpochs, TypeOK
    <3> QED
      BY <1>1, <2>1, <3>1
  <2>2. CASE rpc'[h] = rpc[h]
    <3> SUFFICES ASSUME rpc'[h].epoch \in issued'[rpc'[h].node] PROVE FALSE
      OBVIOUS
    <3>1. rpc'[h].epoch \notin issued[rpc'[h].node]
      BY <1>0, <2>2 DEF IncarnationsDistinct
    <3>2. PICK g \in Handlers : /\ rpc[g].pc = "seed" /\ rpc[g].node = rpc'[h].node
                                /\ rpc[g].epoch = rpc'[h].epoch /\ rpc'[g] = RpcIdle
      BY <1>0, <1>3, <3>1, IssuedStep
    <3>3. g # h
      BY <3>2 DEF RpcIdle
    <3> QED
      BY <1>0, <2>2, <3>2, <3>3 DEF IncarnationsDistinct
  <2> QED
    BY <1>0, <1>2, <2>1, <2>2, SeedStep
<1>5. ASSUME NEW g \in Handlers \ {h}, rpc'[g].pc = "seed", rpc'[g].node = rpc'[h].node
      PROVE  rpc'[g].epoch # rpc'[h].epoch
  <2>1. CASE rpc'[h] = rpc[h] /\ rpc'[g] = rpc[g]
    BY <1>0, <1>5, <2>1 DEF IncarnationsDistinct
  <2>2. ASSUME NEW n \in Nodes, NEW k \in Handlers, NEW l \in Handlers \ {k}, NEW c \in Sizes, RegisterTx(k, n, c),
               rpc'[l].pc = "seed", rpc'[l].node = n
        PROVE  rpc'[k].epoch # rpc'[l].epoch
    <3>1. rpc'[l] = rpc[l]
      BY <1>2, <2>2
    <3>2. PICK e \in Nat : e = rpc[l].epoch
      BY <1>0, <2>2, <3>1, RpcFields DEF TypeOK
    <3>3. Reached(n, e)
      BY <1>0, <2>2, <3>1, <3>2 DEF WorkerEpochs
    <3> QED
      BY <1>1, <2>2, <3>1, <3>2, <3>3
  <2>3. ASSUME NEW n \in Nodes, NEW c \in Sizes, RegisterTx(h, n, c) PROVE rpc'[g].epoch # rpc'[h].epoch
    BY <1>2, <1>5, <2>2, <2>3
  <2>4. ASSUME NEW n \in Nodes, NEW c \in Sizes, RegisterTx(g, n, c) PROVE rpc'[g].epoch # rpc'[h].epoch
    <3>1. rpc'[h].node = n /\ h \in Handlers \ {g}
      BY <1>2, <1>5, <2>4
    <3> QED
      BY <2>2, <2>4, <3>1
  <2> QED
    BY <1>0, <1>5, <2>1, <2>3, <2>4, SeedStep
<1> QED
  BY <1>4, <1>5

\* Retries stay within the limit, and a finished row waits for no retry.
LEMMA RetriesStep == IndInv /\ [Next]_vars => RetriesRespectLimit' /\ FinishedHasNoRetry'
<1> SUFFICES ASSUME IndInv, [Next]_vars, NEW t \in Tasks
             PROVE  /\ tasks'[t].retries <= RetryLimit
                    /\ tasks'[t].status = "failed" => tasks'[t].retries = RetryLimit
                    /\ Terminal(tasks'[t]) => ~tasks'[t].wait
  BY DEF RetriesRespectLimit, FinishedHasNoRetry
<1>0. TypeOK /\ RetriesRespectLimit /\ FinishedHasNoRetry
  BY DEF IndInv
<1>1. /\ tasks[t].retries \in Nat /\ tasks[t].retries <= RetryLimit
      /\ tasks[t].status = "failed" => tasks[t].retries = RetryLimit
  BY <1>0 DEF TypeOK, TaskRow, RetriesRespectLimit
<1>2. Terminal(tasks[t]) => ~tasks[t].wait
  BY <1>0 DEF FinishedHasNoRetry
<1>3. CASE tasks'[t] = tasks[t]
  BY <1>1, <1>2, <1>3
<1>4. CASE Submitted(tasks[t], tasks'[t])
  BY <1>4 DEF Submitted, Terminal
<1>5. CASE Due(tasks[t], tasks'[t])
  BY <1>1, <1>5 DEF Due, SameAssignment
<1>6. CASE Reported(tasks[t], tasks'[t])
  BY <1>1, <1>6 DEF Reported, SameAssignment
<1>7. CASE Retried(tasks[t], tasks'[t])
  BY <1>1, <1>7 DEF Retried, Terminal
<1>8. CASE Reclaimed(tasks[t], tasks'[t])
  BY <1>1, <1>8 DEF Reclaimed, Terminal
<1>9. CASE Placed(tasks[t], tasks'[t])
  BY <1>1, <1>9 DEF Placed, Terminal
<1> QED
  BY <1>0, <1>3, <1>4, <1>5, <1>6, <1>7, <1>8, <1>9, TaskStep

\* Types, epochs, incarnations and retries together are inductive.
THEOREM ControlInvariant == Spec => []IndInv
<1>1. Init => IndInv
  <2> SUFFICES ASSUME Init PROVE IndInv
    OBVIOUS
  <2>1. TypeOK
    BY IdleTypes DEF Init, TypeOK
  <2>2. WorkerEpochs /\ IncarnationsDistinct
    BY DEF Init, WorkerEpochs, IncarnationsDistinct, RpcIdle
  <2>3. ListedEpochs
    BY DEF Init, ListedEpochs, EngineIdle
  <2>4. ASSUME NEW t \in Tasks
        PROVE  /\ tasks[t].status = "none" /\ Unassigned(tasks[t]) /\ tasks[t].retries = 0
    BY DEF Init, NoTask, Unassigned
  <2>5. \A t \in Tasks : ~Active(tasks[t]) /\ ~Terminal(tasks[t])
    BY <2>4 DEF Active, Terminal
  <2>6. TaskEpochs /\ FinishedHasNoRetry
    BY <2>4, <2>5 DEF TaskEpochs, FinishedHasNoRetry
  <2>7. RetriesRespectLimit
    BY <2>4 DEF RetriesRespectLimit
  <2> QED
    BY <2>1, <2>2, <2>3, <2>6, <2>7 DEF IndInv
<1>2. IndInv /\ [Next]_vars => IndInv'
  BY TypeStep, WorkerEpochsStep, ListedEpochsStep, TaskEpochsStep, IncarnationsStep, RetriesStep DEF IndInv
<1> QED
  BY <1>1, <1>2, PTL DEF Spec

-------------------------------------------------------------------------------
(* The properties *)

\* MarkNodeDead fences: no worker, registration or assignment has a dead row's
\* epoch.
THEOREM DeadFenced == Spec => []DeadIsFenced
<1>1. IndInv => DeadIsFenced
  BY DEF IndInv, DeadIsFenced, WorkerEpochs, TaskEpochs, Reached
<1> QED
  BY <1>1, ControlInvariant, PTL

\* RegisterNode never hands one epoch to two incarnations of a worker.
THEOREM IncarnationsAreDistinct == Spec => []IncarnationsDistinct
<1>1. IndInv => IncarnationsDistinct
  BY DEF IndInv
<1> QED
  BY <1>1, ControlInvariant, PTL

\* Assigned rows name a registered node and an epoch it has reached; the
\* others name none.
THEOREM AssignmentsConsistent == Spec => []AssignmentConsistent
<1>1. IndInv => AssignmentConsistent
  BY DEF IndInv, AssignmentConsistent, TaskEpochs, Reached
<1> QED
  BY <1>1, ControlInvariant, PTL

\* UpdateTaskStatus keeps retries_used within retry_limit and fails a task for
\* good only at the limit.
THEOREM RetriesBounded == Spec => []RetriesRespectLimit
<1>1. IndInv => RetriesRespectLimit
  BY DEF IndInv
<1> QED
  BY <1>1, ControlInvariant, PTL

\* Only a failed report uses a retry; MarkNodeDead's orphaning never does.
THEOREM FailuresUseRetries == Spec => OnlyFailuresUseRetries
<1>1. IndInv /\ [Next]_vars =>
        [\A t \in Tasks : tasks'[t].retries # tasks[t].retries =>
            /\ tasks'[t].retries = tasks[t].retries + 1
            /\ Active(tasks[t])
            /\ UNCHANGED nodes]_vars
  <2> SUFFICES ASSUME IndInv, [Next]_vars, NEW t \in Tasks, tasks'[t].retries # tasks[t].retries
               PROVE  tasks'[t].retries = tasks[t].retries + 1 /\ Active(tasks[t]) /\ nodes' = nodes
    OBVIOUS
  <2>1. TypeOK
    BY DEF IndInv
  <2>2. ~Submitted(tasks[t], tasks'[t])
    BY DEF Submitted, NoTask
  <2>3. Retried(tasks[t], tasks'[t]) /\ nodes' = nodes
    BY <2>1, <2>2, TaskStep DEF Due, Reported, SameAssignment, Reclaimed, Placed
  <2> QED
    BY <2>3 DEF Retried
<1> QED
  BY <1>1, ControlInvariant, PTL DEF Spec, OnlyFailuresUseRetries

\* No report, tick or death of a node changes a succeeded or failed task.
THEOREM FinishedIsFinal == Spec => FinishedStaysFinished
<1>1. IndInv /\ [Next]_vars => [\A t \in Tasks : Terminal(tasks[t]) => tasks'[t] = tasks[t]]_vars
  <2> SUFFICES ASSUME IndInv, [Next]_vars, NEW t \in Tasks, Terminal(tasks[t])
               PROVE  tasks'[t] = tasks[t]
    OBVIOUS
  <2>1. TypeOK /\ ~tasks[t].wait
    BY DEF IndInv, FinishedHasNoRetry
  <2>2. ~Submitted(tasks[t], tasks'[t])
    BY DEF Submitted, NoTask, Terminal
  <2>3. ~Due(tasks[t], tasks'[t])
    BY <2>1 DEF Due
  <2> QED
    BY <2>1, <2>2, <2>3, TaskStep DEF Reported, Retried, Reclaimed, Placed, Active, Terminal
<1> QED
  BY <1>1, ControlInvariant, PTL DEF Spec, FinishedStaysFinished

-------------------------------------------------------------------------------
(* Overcommitment *)

\* The rows of the tasks table.  There are finitely many, and a tick knows of
\* no others.
Rows == {t \in Tasks : tasks[t].status # "none"}
RowsInv ==
    /\ IsFiniteSet(Rows)
    /\ \A r \in Replicas : /\ engine[r].claim \subseteq Rows
                            /\ \A n \in Nodes : engine[r].busy[n] \subseteq Rows

\* Rows are inserted by SubmitJob, one job at a time, and never deleted.
LEMMA RowsGrow ==
    ASSUME TypeOK, [Next]_vars
    PROVE  /\ Rows \subseteq Rows'
           /\ Rows' \subseteq Rows \/ \E job \in Jobs : Rows' \subseteq Rows \cup job
<1>1. ASSUME NEW t \in Tasks, tasks[t].status # "none" PROVE tasks'[t].status # "none"
  BY <1>1, TaskStep DEF Submitted, NoTask, Due, Reported, Retried, Reclaimed, Placed, Active, Terminal
<1>2. Rows \subseteq Rows'
  BY <1>1 DEF Rows
<1>3. ASSUME NEW job \in Jobs, SubmitJob(job) PROVE Rows' \subseteq Rows \cup job
  BY <1>3 DEF SubmitJob, Rows
<1>4. ASSUME NEW t \in Tasks, RetryDue(t) PROVE Rows' \subseteq Rows
  <2>1. \A u \in Tasks : tasks'[u].status = tasks[u].status
    BY <1>4 DEF RetryDue, TypeOK, TaskRow
  <2> QED
    BY <2>1 DEF Rows
<1>5. CASE Report
  <2>1. PICK t \in Tasks : Active(tasks[t]) /\ \A u \in Tasks \ {t} : tasks'[u] = tasks[u]
    BY <1>5 DEF Report, ReportTaskStatus, TypeOK
  <2>2. Rows' \subseteq Rows
    BY <2>1 DEF Rows, Active
  <2> QED
    BY <1>2, <2>2
<1>6. ASSUME NEW r \in Replicas, DetectDead(r) PROVE Rows' \subseteq Rows
  <2>1. \A u \in Tasks : tasks[u].status = "none" => tasks'[u] = tasks[u]
    BY <1>6 DEF DetectDead, Orphaned, Active
  <2> QED
    BY <2>1 DEF Rows
<1>7. ASSUME NEW r \in Replicas, TickCommit(r) PROVE Rows' \subseteq Rows
  <2>1. \A u \in Tasks : tasks[u].status = "none" => tasks'[u] = tasks[u]
    BY <1>7, CommitFacts
  <2> QED
    BY <2>1 DEF Rows
<1>8. CASE tasks' = tasks
  BY <1>8 DEF Rows
<1>9. ASSUME NEW r \in Replicas, EngineStep(r) \/ DetectorStep(r) \/ Lead(r) \/ Unlead(r)
      PROVE  Rows' \subseteq Rows
  <2>1. CASE EngineStep(r)
    <3>1. TickCommit(r) \/ tasks' = tasks
      BY <2>1 DEF EngineStep, TickClaim, TickNodes, TickAllocs, TickAbort
    <3> QED
      BY <1>7, <3>1 DEF Rows
  <2>2. CASE DetectorStep(r)
    <3>1. DetectDead(r) \/ tasks' = tasks
      BY <2>2 DEF DetectorStep, DetectList, DetectRead, DetectNotReady, DetectError
    <3> QED
      BY <1>6, <3>1 DEF Rows
  <2>3. CASE Lead(r) \/ Unlead(r)
    <3>1. tasks' = tasks
      BY <2>3 DEF Lead, Unlead
    <3> QED
      BY <3>1 DEF Rows
  <2> QED
    BY <1>9, <2>1, <2>2, <2>3
<1>10. ASSUME NEW h \in Handlers, HandlerStep(h) PROVE tasks' = tasks
  BY <1>10 DEF HandlerStep, RegisterTx, RegisterSeed, HeartbeatGet, HeartbeatSeen, HeartbeatRecover,
               HeartbeatReply, RpcError
<1>11. CASE Elapse \/ UNCHANGED vars
  BY <1>8, <1>11 DEF Elapse, vars
<1> QED
  BY <1>2, <1>3, <1>4, <1>5, <1>8, <1>9, <1>10, <1>11 DEF Next

\* What a tick knows of the tasks table it has read since, or knew before.
LEMMA EngineRows ==
    ASSUME TypeOK, RowsInv, [Next]_vars, NEW r \in Replicas
    PROVE  engine'[r].claim \subseteq Rows /\ \A n \in Nodes : engine'[r].busy[n] \subseteq Rows
<1>0. engine[r] \in EngineState
  BY DEF TypeOK
<1>1. CASE engine'[r] = engine[r]
  BY <1>1 DEF RowsInv
<1>2. ASSUME NEW q \in Replicas, q # r, EngineStep(q) PROVE engine'[r] = engine[r]
  BY <1>2 DEF TypeOK, EngineStep, TickClaim, TickNodes, TickAllocs, TickCommit, TickAbort
<1>3. EngineIdle.claim = {} /\ \A n \in Nodes : EngineIdle.busy[n] = {}
  BY DEF EngineIdle
<1>4. CASE TickClaim(r)
  <2>1. engine'[r] = [EngineIdle EXCEPT !.pc = "claimed", !.claim = Oldest(Claimable)]
    BY <1>4 DEF TickClaim, TypeOK
  <2>2. engine'[r].claim = Oldest(Claimable) /\ engine'[r].busy = EngineIdle.busy
    BY <2>1 DEF EngineIdle
  <2>3. Oldest(Claimable) \subseteq Rows
    BY DEF Oldest, Claimable, Rows
  <2> QED
    BY <1>3, <2>2, <2>3
<1>5. CASE TickCommit(r) \/ TickAbort(r)
  BY <1>3, <1>5 DEF TickCommit, TickAbort, TypeOK
<1>6. CASE TickNodes(r) \/ TickAllocs(r)
  <2>1. engine[r] \in [pc : {"claimed", "listed", "measured"}, claim : SUBSET Tasks, ready : SUBSET Nodes,
                       epoch : [Nodes -> Nat], capacity : [Nodes -> Nat], busy : [Nodes -> SUBSET Tasks]]
    BY <1>0, <1>6 DEF TickNodes, TickAllocs, EngineState, EngineIdle
  <2>3. CASE TickNodes(r)
    <3> DEFINE ready == {m \in Nodes : nodes[m].status = "ready"}
               epoch == [m \in Nodes |-> IF nodes[m].status = "ready" THEN nodes[m].epoch ELSE 0]
               size == [m \in Nodes |-> IF nodes[m].status = "ready" THEN nodes[m].capacity ELSE 0]
    <3>1. engine'[r] =
             [engine[r] EXCEPT !.pc = "listed", !.ready = ready, !.epoch = epoch, !.capacity = size]
      BY <2>3 DEF TickNodes, TypeOK
    <3> HIDE DEF ready, epoch, size
    <3>2. engine'[r].claim = engine[r].claim /\ engine'[r].busy = engine[r].busy
      BY <2>1, <3>1
    <3> QED
      BY <3>2 DEF RowsInv
  <2>4. CASE TickAllocs(r)
    <3> DEFINE busy == [m \in Nodes |-> Busy(m)]
    <3>1. engine'[r] = [engine[r] EXCEPT !.pc = "measured", !.busy = busy]
      BY <2>4 DEF TickAllocs, TypeOK
    <3>2. \A m \in Nodes : busy[m] \subseteq Rows
      BY DEF Busy, Rows, Active
    <3> HIDE DEF busy
    <3>3. engine'[r].claim = engine[r].claim /\ engine'[r].busy = busy
      BY <2>1, <3>1
    <3> QED
      BY <3>2, <3>3 DEF RowsInv
  <2> QED
    BY <1>6, <2>3, <2>4
<1>7. ASSUME NEW q \in Replicas, EngineStep(q)
      PROVE  engine'[r].claim \subseteq Rows /\ \A n \in Nodes : engine'[r].busy[n] \subseteq Rows
  BY <1>1, <1>2, <1>4, <1>5, <1>6, <1>7 DEF EngineStep
<1> QED
  BY <1>1, <1>7
  DEF Next, vars, Lead, Unlead, DetectorStep, DetectList, DetectRead, DetectDead, DetectNotReady,
      DetectError, HandlerStep, RegisterTx, RegisterSeed, HeartbeatGet, HeartbeatSeen, HeartbeatRecover,
      HeartbeatReply, RpcError, SubmitJob, RetryDue, Report, ReportTaskStatus, Elapse

LEMMA RowsStep == TypeOK /\ RowsInv /\ [Next]_vars => RowsInv'
<1> SUFFICES ASSUME TypeOK, RowsInv, [Next]_vars PROVE RowsInv'
  OBVIOUS
<1>1. IsFiniteSet(Rows')
  <2>1. IsFiniteSet(Rows)
    BY DEF RowsInv
  <2>2. CASE Rows' \subseteq Rows
    BY <2>1, <2>2, FS_Subset
  <2>3. ASSUME NEW job \in Jobs, Rows' \subseteq Rows \cup job PROVE IsFiniteSet(Rows')
    <3>1. IsFiniteSet(Rows \cup job)
      BY <2>1, FS_Union
    <3> QED
      BY <2>3, <3>1, FS_Subset
  <2> QED
    BY <2>2, <2>3, RowsGrow
<1>2. Rows \subseteq Rows'
  BY RowsGrow
<1>3. \A r \in Replicas : /\ engine'[r].claim \subseteq Rows'
                          /\ \A n \in Nodes : engine'[r].busy[n] \subseteq Rows'
  BY <1>2, EngineRows
<1> QED
  BY <1>1, <1>3 DEF RowsInv

\* Only a tick that commits adds a task to a node.
LEMMA BusyKept ==
    ASSUME TypeOK, [Next]_vars, ~\E r \in Replicas : TickCommit(r), NEW n \in Nodes
    PROVE  Busy(n)' \subseteq Busy(n)
<1> SUFFICES ASSUME NEW t \in Tasks, Active(tasks'[t]), tasks'[t].node = n
             PROVE  Active(tasks[t]) /\ tasks[t].node = n
  BY DEF Busy, Active
<1>1. ~Submitted(tasks[t], tasks'[t]) /\ ~Retried(tasks[t], tasks'[t]) /\ ~Reclaimed(tasks[t], tasks'[t])
  BY DEF Submitted, Retried, Reclaimed, Active
<1>2. CASE Due(tasks[t], tasks'[t])
  BY <1>2 DEF Due, SameAssignment, Active
<1>3. CASE Reported(tasks[t], tasks'[t])
  BY <1>3 DEF Reported, SameAssignment
<1> QED
  BY <1>1, <1>2, <1>3, TaskStep

\* A tick that had seen all of a node's tasks keeps to the capacity that it
\* listed: the last task that it puts there fits next to the ones it measured
\* and the ones it put there before.
LEMMA CommitFits ==
    ASSUME TypeOK, RowsInv, NEW r \in Replicas, TickCommit(r), NEW n \in Nodes,
           Busy(n) \subseteq engine[r].busy[n]
    PROVE  Load(Busy(n)') <= Load(Busy(n)) \/ Load(Busy(n)') <= engine[r].capacity[n]
<1> DEFINE claim == engine[r].claim
           busy == engine[r].busy[n]
<1>1. PICK place \in Placements(engine[r]) :
         tasks' = [u \in Tasks |->
                IF u \in claim /\ place[u] # NoNode
                THEN Scheduled(tasks[u], place[u], engine[r].epoch[place[u]])
                ELSE tasks[u]]
  BY DEF TickCommit
<1> DEFINE P == {t \in claim : place[t] = n}
<1>2. claim \subseteq Rows /\ busy \subseteq Rows /\ Rows \subseteq Tasks /\ IsFiniteSet(Rows)
  BY DEF RowsInv, Rows
<1>3. \A S \in SUBSET Rows : /\ IsFiniteSet(S) /\ Load(S) \in Nat
                             /\ \A R \in SUBSET S : Load(R) <= Load(S)
  <2> SUFFICES ASSUME NEW S \in SUBSET Rows
               PROVE  /\ IsFiniteSet(S) /\ Load(S) \in Nat
                      /\ \A R \in SUBSET S : Load(R) <= Load(S)
    OBVIOUS
  <2>1. IsFiniteSet(S) /\ \A x \in S : Request[x] \in Nat
    BY <1>2, FS_Subset, SizesAssumption
  <2> QED
    BY <2>1, SumNat, SumMonotone DEF Load
<1>4. Busy(n)' \subseteq Busy(n) \cup P
  <2> SUFFICES ASSUME NEW t \in Tasks, Active(tasks'[t]), tasks'[t].node = n, t \notin P
               PROVE  Active(tasks[t]) /\ tasks[t].node = n
    BY DEF Busy, Active
  <2>1. CASE t \in claim /\ place[t] # NoNode
    <3>1. place[t] \in Nodes /\ engine[r].epoch \in [Nodes -> Nat]
      BY <1>1, <2>1, EngineFields DEF Placements, TypeOK
    <3>2. PICK e \in Nat : e = engine[r].epoch[place[t]]
      BY <3>1
    <3>3. tasks'[t] = Scheduled(tasks[t], place[t], e) /\ tasks[t] \in TaskRow
      BY <1>1, <2>1, <3>2 DEF TypeOK
    <3>4. tasks'[t].node = place[t]
      BY <3>1, <3>3 DEF Scheduled, TaskRow
    <3> QED
      BY <2>1, <3>4
  <2>2. CASE ~(t \in claim /\ place[t] # NoNode)
    BY <1>1, <2>2
  <2> QED
    BY <2>1, <2>2
<1>5. Busy(n) \subseteq Rows
  BY DEF Busy, Rows, Active
<1>6. CASE P = {}
  BY <1>3, <1>4, <1>5, <1>6
<1>7. CASE P # {}
  <2>1. P \in SUBSET Nat /\ P \subseteq Rows /\ IsFiniteSet(P)
    BY <1>2, <1>3, TasksAssumption
  <2>2. PICK m \in P : \A u \in P : u <= m
    BY <1>7, <2>1, LargestNat
  <2> DEFINE A == busy \cup (P \ {m})
  <2>3. Fits(engine[r], place, m, n)
    <3>1. m \in claim /\ place[m] = n /\ n # NoNode
      BY <2>2, NoNodeAssumption
    <3> QED
      BY <1>1, <3>1 DEF Placements
  <2>4. PendingAlloc(engine[r], place, m, n) = A
    <3>1. ASSUME NEW u \in P, u # m PROVE u < m
      BY <2>1, <2>2, <3>1
    <3>2. ASSUME NEW u \in P, u < m PROVE u # m
      BY <2>1, <2>2, <3>2
    <3> QED
      BY <3>1, <3>2 DEF PendingAlloc
  <2>5. Load(A) + Request[m] <= engine[r].capacity[n]
    BY <2>3, <2>4 DEF Fits
  <2>6. A \subseteq Rows /\ m \in Rows /\ A \cup {m} \subseteq Rows
    BY <1>2, <2>1, <2>2
  <2>7. Busy(n)' \subseteq A \cup {m}
    BY <1>4
  <2> HIDE DEF A, P
  <2>8. Load(A \cup {m}) <= Load(A) + Request[m]
    <3>1. Load(A) \in Nat /\ Request[m] \in Nat /\ IsFiniteSet(A) /\ \A x \in A \cup {m} : Request[x] \in Nat
      BY <1>2, <1>3, <2>6, SizesAssumption
    <3>2. CASE m \in A
      <4>1. A \cup {m} = A
        BY <3>2
      <4>2. Load(A \cup {m}) = Load(A)
        BY <4>1, Zenon
      <4> QED
        BY <3>1, <4>2
    <3>3. CASE m \notin A
      <4>1. Load(A \cup {m}) = Load(A) + Request[m]
        BY <3>1, <3>3, SumAdd DEF Load
      <4> QED
        BY <3>1, <4>1
    <3> QED
      BY <3>2, <3>3
  <2>9. Load(Busy(n)') <= Load(A \cup {m}) /\ Load(Busy(n)') \in Nat /\ Load(A \cup {m}) \in Nat
    <3>1. Busy(n)' \in SUBSET (A \cup {m}) /\ Busy(n)' \in SUBSET Rows /\ A \cup {m} \in SUBSET Rows
      BY <2>6, <2>7
    <3> QED
      BY <1>3, <3>1
  <2>10. Load(A) \in Nat /\ Request[m] \in Nat /\ engine[r].capacity[n] \in Nat
    BY <1>2, <1>3, <2>6, SizesAssumption, EngineFields DEF TypeOK
  <2> QED
    BY <2>5, <2>8, <2>9, <2>10
<1> QED
  BY <1>6, <1>7

\* A node comes to be overcommitted only when its worker registers again with
\* less, which RegisterNode writes whatever is assigned to the node, or when a
\* tick commits that read too large a capacity or too few tasks: Engine.tick
\* reads both outside its transaction, and Place keeps to what it read.
THEOREM OvercommitHasReason == Spec => OvercommitExplained
<1> DEFINE Blamed(n) ==
       Overcommitted(n)' =>
          \/ Overcommitted(n)
          \/ nodes'[n].capacity < nodes[n].capacity
          \/ \E r \in Replicas :
                /\ engine[r].pc = "measured" /\ engine'[r].pc = "idle"
                /\ \/ engine[r].capacity[n] > nodes[n].capacity
                   \/ ~(Busy(n) \subseteq engine[r].busy[n])
<1>1. Init => RowsInv
  <2> SUFFICES ASSUME Init PROVE RowsInv
    OBVIOUS
  <2>1. Rows = {}
    BY DEF Init, Rows, NoTask
  <2>2. \A r \in Replicas : engine[r].claim = {} /\ \A n \in Nodes : engine[r].busy[n] = {}
    BY DEF Init, EngineIdle
  <2> QED
    BY <2>1, <2>2, FS_EmptySet DEF RowsInv
<1>2. TypeOK /\ RowsInv /\ [Next]_vars => [\A n \in Nodes : Blamed(n)]_vars
  <2> SUFFICES ASSUME TypeOK, RowsInv, [Next]_vars, NEW n \in Nodes PROVE Blamed(n)
    OBVIOUS
  <2>0. /\ Overcommitted(n) <=> Load(Busy(n)) > nodes[n].capacity
        /\ Overcommitted(n)' <=> Load(Busy(n)') > nodes'[n].capacity
    BY DEF Overcommitted
  <2>1. Busy(n) \subseteq Rows /\ Busy(n)' \subseteq Rows'
    BY DEF Busy, Rows, Active
  <2>2. /\ Load(Busy(n)) \in Nat /\ Load(Busy(n)') \in Nat
        /\ nodes[n].capacity \in Nat /\ nodes'[n].capacity \in Nat
    <3>1. IsFiniteSet(Rows) /\ IsFiniteSet(Rows')
      BY RowsStep DEF RowsInv
    <3>2. IsFiniteSet(Busy(n)) /\ IsFiniteSet(Busy(n)')
      BY <2>1, <3>1, FS_Subset
    <3>3. (\A t \in Busy(n) : Request[t] \in Nat) /\ (\A t \in Busy(n)' : Request[t] \in Nat)
      BY SizesAssumption DEF Busy
    <3>4. Load(Busy(n)) \in Nat /\ Load(Busy(n)') \in Nat
      BY <3>2, <3>3, SumNat DEF Load
    <3>5. nodes[n] \in NodeRow /\ nodes'[n] \in NodeRow
      BY TypeStep DEF TypeOK
    <3> QED
      BY <3>4, <3>5 DEF NodeRow
  <2>3. CASE ~\E r \in Replicas : TickCommit(r)
    <3>1. Busy(n)' \subseteq Busy(n)
      BY <2>3, BusyKept
    <3>2. IsFiniteSet(Busy(n)) /\ \A t \in Busy(n) : Request[t] \in Nat
      BY <2>1, FS_Subset, SizesAssumption DEF RowsInv, Busy
    <3>3. Load(Busy(n)') <= Load(Busy(n))
      BY <3>1, <3>2, SumMonotone DEF Load
    <3> QED
      BY <2>0, <2>2, <3>3
  <2>4. ASSUME NEW r \in Replicas, TickCommit(r) PROVE Blamed(n)
    <3>1. engine[r].pc = "measured" /\ engine'[r].pc = "idle"
      BY <2>4 DEF TickCommit, TypeOK, EngineIdle
    <3>2. CASE Busy(n) \subseteq engine[r].busy[n] /\ ~(engine[r].capacity[n] > nodes[n].capacity)
      <4>1. Load(Busy(n)') <= Load(Busy(n)) \/ Load(Busy(n)') <= engine[r].capacity[n]
        BY <2>4, <3>2, CommitFits
      <4>2. engine[r].capacity[n] \in Nat
        BY EngineFields DEF TypeOK
      <4>3. nodes' = nodes
        BY <2>4 DEF TickCommit
      <4> QED
        BY <2>0, <2>2, <3>2, <4>1, <4>2, <4>3
    <3>3. CASE ~(Busy(n) \subseteq engine[r].busy[n]) \/ engine[r].capacity[n] > nodes[n].capacity
      BY <3>1, <3>3
    <3> QED
      BY <3>2, <3>3
  <2> QED
    BY <2>3, <2>4
<1>3. TypeOK /\ RowsInv /\ [Next]_vars => RowsInv'
  BY RowsStep
<1> QED
  BY <1>1, <1>2, <1>3, ControlTyping, PTL DEF Spec, OvercommitExplained

-------------------------------------------------------------------------------
(* The refinement of Lifecycle *)

\* A registration or a change of status moves one fence on, or none.
LEMMA NodeStepImplements ==
    ASSUME TypeOK, tasks' = tasks, NEW n \in Nodes, NEW row \in NodeRow, nodes' = [nodes EXCEPT ![n] = row],
           NextEpoch(row) >= NextEpoch(nodes[n])
    PROVE  [Abs!Next]_(Abs!vars)
<1> DEFINE L == [t \in Tasks |-> Life(tasks[t])]
           F == [m \in Nodes |-> NextEpoch(nodes[m])]
<1>1. nodes \in [Nodes -> NodeRow] /\ NextEpoch(row) \in Nat
  BY FenceFacts DEF TypeOK
<1>2. F' = [F EXCEPT ![n] = F'[n]] /\ F'[n] >= F[n]
  BY <1>1, FenceMoves
<1>3. L' = L
  OBVIOUS
<1>4. CASE F' = F
  BY <1>3, <1>4 DEF Abs!vars
<1>5. CASE F' # F
  <2>0. F'[n] > F[n]
    <3>1. F[n] \in Nat /\ F'[n] \in Nat
      BY <1>1, FenceFacts
    <3>2. F'[n] # F[n]
      BY <1>2, <1>5
    <3> QED
      BY <1>2, <3>1, <3>2
  <2>1. Abs!Advance(n)
    BY <1>2, <1>3, <2>0 DEF Abs!Advance
  <2> QED
    BY <2>1 DEF Abs!Next
<1> QED
  BY <1>4, <1>5

LEMMA RegisterImplements ==
    ASSUME TypeOK, tasks' = tasks, NEW n \in Nodes, NEW c \in Nat,
           nodes' = [nodes EXCEPT ![n] = Registered(nodes[n], c)]
    PROVE  [Abs!Next]_(Abs!vars)
<1>1. nodes[n] \in NodeRow
  BY DEF TypeOK
<1>2. Registered(nodes[n], c) \in NodeRow
  BY <1>1, NodeRowTypes
<1>3. /\ NextEpoch(Registered(nodes[n], c)) > NextEpoch(nodes[n])
      /\ NextEpoch(Registered(nodes[n], c)) \in Nat /\ NextEpoch(nodes[n]) \in Nat
  BY <1>1, <1>2, FenceFacts
<1>4. NextEpoch(Registered(nodes[n], c)) >= NextEpoch(nodes[n])
  BY <1>3
<1> QED
  BY <1>2, <1>4, NodeStepImplements

LEMMA StatusImplements ==
    ASSUME TypeOK, tasks' = tasks, NEW n \in Nodes, NEW s \in {"ready", "not_ready"},
           nodes' = [nodes EXCEPT ![n] = WithStatus(nodes[n], s)]
    PROVE  [Abs!Next]_(Abs!vars)
<1>1. nodes[n] \in NodeRow
  BY DEF TypeOK
<1>2. WithStatus(nodes[n], s) \in NodeRow
  BY <1>1, NodeRowTypes DEF NodeStatus
<1>3. NextEpoch(WithStatus(nodes[n], s)) >= NextEpoch(nodes[n])
  BY <1>1, FenceFacts
<1> QED
  BY <1>2, <1>3, NodeStepImplements

\* MarkNodeDead is Bury.
LEMMA DeadImplements ==
    ASSUME TypeOK, NEW r \in Replicas, DetectDead(r)
    PROVE  Abs!Next
<1> DEFINE L == [t \in Tasks |-> Life(tasks[t])]
           F == [m \in Nodes |-> NextEpoch(nodes[m])]
<1>1. PICK n \in Nodes : n = detector[r].node
  BY DetectorFields DEF DetectDead, TypeOK
<1>2. /\ nodes' = [nodes EXCEPT ![n] = Dead(nodes[n])]
      /\ tasks' = [t \in Tasks |-> Orphaned(tasks[t], n)]
  BY <1>1 DEF DetectDead
<1>3. nodes[n] \in NodeRow /\ Dead(nodes[n]) \in NodeRow
  BY NodeRowTypes DEF TypeOK
<1>4. NextEpoch(Dead(nodes[n])) >= NextEpoch(nodes[n]) /\ NextEpoch(Dead(nodes[n])) \in Nat
  BY <1>3, FenceFacts
<1>5. F' = [F EXCEPT ![n] = F'[n]] /\ F'[n] >= F[n]
  <2>1. nodes \in [Nodes -> NodeRow]
    BY DEF TypeOK
  <2> QED
    BY <1>2, <1>4, <2>1, FenceMoves
<1>6. \A t \in Tasks : Life(tasks'[t]) =
         IF Life(tasks[t]).phase = "held" /\ Life(tasks[t]).holder[1] = n
         THEN Abs!Queued(Life(tasks[t]).charged) ELSE Life(tasks[t])
  <2> SUFFICES ASSUME NEW t \in Tasks
               PROVE  Life(tasks'[t]) =
                        IF Life(tasks[t]).phase = "held" /\ Life(tasks[t]).holder[1] = n
                        THEN Abs!Queued(Life(tasks[t]).charged) ELSE Life(tasks[t])
    OBVIOUS
  <2>1. tasks'[t] = Orphaned(tasks[t], n) /\ tasks[t] \in TaskRow
    BY <1>2 DEF TypeOK
  <2> QED
    BY <2>1, LifeOrphaned DEF Abs!Queued, Abs!Nobody
<1>7. L' = [t \in Tasks |->
               IF L[t].phase = "held" /\ L[t].holder[1] = n THEN Abs!Queued(L[t].charged) ELSE L[t]]
  BY <1>6
<1>8. Abs!Bury(n)
  BY <1>5, <1>7 DEF Abs!Bury
<1> QED
  BY <1>8 DEF Abs!Next

\* A tick that commits is Assign: it uses epochs that it listed, and those are
\* below the fences, whatever has become of the nodes since.
LEMMA CommitImplements ==
    ASSUME IndInv, NEW r \in Replicas, TickCommit(r)
    PROVE  Abs!Next
<1> DEFINE L == [t \in Tasks |-> Life(tasks[t])]
           F == [m \in Nodes |-> NextEpoch(nodes[m])]
           S == {t \in Tasks : tasks'[t] # tasks[t]}
<1>0. TypeOK
  BY DEF IndInv
<1>1. \A t \in S : \E n \in engine[r].ready :
                    /\ n \in Nodes /\ engine[r].epoch[n] \in Nat
                    /\ tasks[t].status = "pending"
                    /\ tasks'[t] = Scheduled(tasks[t], n, engine[r].epoch[n])
  BY <1>0, CommitFacts
<1>2. ASSUME NEW n \in engine[r].ready, n \in Nodes, engine[r].epoch[n] \in Nat
      PROVE  <<n, engine[r].epoch[n]>> \in Abs!Holders
  <2>1. PICK e \in Nat : e = engine[r].epoch[n]
    BY <1>2
  <2>2. Reached(n, e)
    BY <1>2, <2>1 DEF IndInv, ListedEpochs
  <2>3. nodes[n].epoch \in Nat /\ nodes[n].status \in NodeStatus
    BY <1>0, <1>2 DEF TypeOK, NodeRow
  <2>4. e < NextEpoch(nodes[n]) /\ NextEpoch(nodes[n]) \in Nat
    BY <2>2, <2>3 DEF Reached, NextEpoch, NodeStatus
  <2>5. e \in 0 .. NextEpoch(nodes[n]) - 1
    BY <2>4
  <2>6. <<n, e>> \in {n} \X (0 .. F[n] - 1)
    BY <1>2, <2>5
  <2> QED
    BY <1>2, <2>1, <2>6 DEF Abs!Holders
<1>3. \A t \in S : /\ L[t].phase = "queued"
                   /\ \E h \in Abs!Holders : Life(tasks'[t]) = Abs!Held(h, L[t].charged)
  <2> SUFFICES ASSUME NEW t \in S
               PROVE  /\ L[t].phase = "queued"
                      /\ \E h \in Abs!Holders : Life(tasks'[t]) = Abs!Held(h, L[t].charged)
    OBVIOUS
  <2>1. PICK n \in engine[r].ready :
                    /\ n \in Nodes /\ engine[r].epoch[n] \in Nat
                    /\ tasks[t].status = "pending"
                    /\ tasks'[t] = Scheduled(tasks[t], n, engine[r].epoch[n])
    BY <1>1
  <2>2. PICK e \in Nat : e = engine[r].epoch[n]
    BY <2>1
  <2>3. tasks[t] \in TaskRow /\ L[t] = Life(tasks[t])
    BY <1>0 DEF TypeOK
  <2>4. L[t].phase = "queued"
    BY <2>1, <2>3, PhaseFacts DEF Life
  <2>5. Life(Scheduled(tasks[t], n, e)) = Abs!Held(<<n, e>>, Life(tasks[t]).charged)
    BY <2>1, <2>2, <2>3, LifeScheduled DEF Abs!Held
  <2> QED
    BY <1>2, <2>1, <2>2, <2>3, <2>4, <2>5
<1>4. PICK to \in [S -> Abs!Holders] : \A t \in S : Life(tasks'[t]) = Abs!Held(to[t], L[t].charged)
  <2> DEFINE to == [t \in S |-> CHOOSE h \in Abs!Holders : Life(tasks'[t]) = Abs!Held(h, L[t].charged)]
  <2>1. \A t \in S : to[t] \in Abs!Holders /\ Life(tasks'[t]) = Abs!Held(to[t], L[t].charged)
    BY <1>3
  <2>2. to \in [S -> Abs!Holders]
    BY <2>1
  <2> HIDE DEF to
  <2> QED
    BY <2>1, <2>2
<1>5. \A t \in Tasks : t \notin S => Life(tasks'[t]) = L[t]
  OBVIOUS
<1>6. L' = [t \in Tasks |-> IF t \in S THEN Abs!Held(to[t], L[t].charged) ELSE L[t]]
  BY <1>4, <1>5
<1>7. F' = F
  BY DEF TickCommit
<1>8. Abs!Assign(S)
  BY <1>3, <1>4, <1>6, <1>7 DEF Abs!Assign
<1>9. S \in SUBSET Tasks
  OBVIOUS
<1> HIDE DEF S
<1> QED
  BY <1>8, <1>9 DEF Abs!Next

\* A report ends a task, charges a retry, or only says that it runs.
LEMMA ReportImplements ==
    ASSUME TypeOK, Report
    PROVE  [Abs!Next]_(Abs!vars)
<1> DEFINE L == [t \in Tasks |-> Life(tasks[t])]
           F == [m \in Nodes |-> NextEpoch(nodes[m])]
<1>1. PICK t \in Tasks, s \in {"running", "succeeded", "failed"} :
         /\ Active(tasks[t]) /\ tasks' = [tasks EXCEPT ![t] = AfterReport(tasks[t], s)] /\ nodes' = nodes
  BY DEF Report, ReportTaskStatus
<1> DEFINE new == Life(AfterReport(tasks[t], s))
<1>2. tasks[t] \in TaskRow /\ L[t] = Life(tasks[t])
  BY DEF TypeOK
<1>3. L[t].phase = "held" /\ L[t].charged = tasks[t].retries
  BY <1>1, <1>2, PhaseFacts DEF Life
<1>4. \/ new = L[t]
      \/ \E p \in {"succeeded", "failed"} :
            /\ p = "failed" => ~(L[t].charged < RetryLimit)
            /\ new = [phase |-> p, holder |-> L[t].holder, charged |-> L[t].charged]
      \/ L[t].charged < RetryLimit /\ new = Abs!Queued(L[t].charged + 1)
  BY <1>1, <1>2, <1>3, LifeAfterReport DEF Abs!Queued, Abs!Nobody
<1>5. L' = [L EXCEPT ![t] = new]
  <2>1. tasks'[t] = AfterReport(tasks[t], s) /\ \A u \in Tasks : u # t => tasks'[u] = tasks[u]
    BY <1>1 DEF TypeOK
  <2> QED
    BY <2>1
<1>6. F' = F
  BY <1>1
<1> HIDE DEF new
<1>7. CASE new = L[t]
  <2>1. L' = L
    BY <1>5, <1>7
  <2> QED
    BY <1>6, <2>1 DEF Abs!vars
<1>8. ASSUME NEW p \in {"succeeded", "failed"}, p = "failed" => ~(L[t].charged < RetryLimit),
             new = [phase |-> p, holder |-> L[t].holder, charged |-> L[t].charged]
      PROVE  Abs!Next
  <2>1. Abs!Settle(t, p)
    BY <1>3, <1>5, <1>6, <1>8 DEF Abs!Settle
  <2> QED
    BY <2>1 DEF Abs!Next
<1>9. CASE L[t].charged < RetryLimit /\ new = Abs!Queued(L[t].charged + 1)
  <2>1. Abs!Retry(t)
    BY <1>3, <1>5, <1>6, <1>9 DEF Abs!Retry
  <2> QED
    BY <2>1 DEF Abs!Next
<1> QED
  BY <1>4, <1>7, <1>8, <1>9

\* SubmitJob inserts the rows of a job in one transaction.
LEMMA SubmitImplements ==
    ASSUME TypeOK, NEW job \in Jobs, SubmitJob(job)
    PROVE  Abs!Next
<1> DEFINE L == [t \in Tasks |-> Life(tasks[t])]
           F == [m \in Nodes |-> NextEpoch(nodes[m])]
<1>1. job \subseteq Tasks
  BY TasksAssumption
<1>2. Life(NoTask) = Abs!Absent
  BY DEF Life, Phase, NoTask, Abs!Absent, Abs!Nobody
<1>3. Life([NoTask EXCEPT !.status = "pending"]) = Abs!Queued(0)
  BY DEF Life, Phase, NoTask, Abs!Queued, Abs!Nobody
<1>4. \A t \in job : L[t] = Abs!Absent
  BY <1>1, <1>2 DEF SubmitJob
<1>5. \A t \in Tasks : Life(tasks'[t]) = IF t \in job THEN Abs!Queued(0) ELSE L[t]
  BY <1>3 DEF SubmitJob
<1>6. L' = [t \in Tasks |-> IF t \in job THEN Abs!Queued(0) ELSE L[t]]
  BY <1>5
<1>7. F' = F
  BY DEF SubmitJob
<1>8. Abs!Submit(job)
  BY <1>4, <1>6, <1>7 DEF Abs!Submit
<1> QED
  BY <1>1, <1>8 DEF Abs!Next

\* next_retry_at is not part of a task's life.
LEMMA DueImplements ==
    ASSUME TypeOK, NEW t \in Tasks, RetryDue(t)
    PROVE  UNCHANGED Abs!vars
<1>1. \A u \in Tasks : Life(tasks'[u]) = Life(tasks[u])
  <2>1. \A f \in TaskRow : Life([f EXCEPT !.wait = FALSE]) = Life(f)
    BY LifeDue
  <2>2. tasks'[t] = [tasks[t] EXCEPT !.wait = FALSE] /\ \A u \in Tasks : u # t => tasks'[u] = tasks[u]
    BY DEF RetryDue, TypeOK
  <2> QED
    BY <2>1, <2>2 DEF TypeOK
<1>2. nodes' = nodes
  BY DEF RetryDue
<1> QED
  BY <1>1, <1>2 DEF Abs!vars

\* Engine ticks, detectors, handlers and reports of any number of replicas,
\* interleaved in any way, implement Lifecycle.
THEOREM ControlRefinesLifecycle == Spec => ImplementsLifecycle
<1>1. Init => Abs!Init
  <2> SUFFICES ASSUME Init PROVE Abs!Init
    OBVIOUS
  <2>1. Life(NoTask) = Abs!Absent
    BY DEF Life, Phase, NoTask, Abs!Absent, Abs!Nobody
  <2>2. NextEpoch(NoRow) = 0
    BY DEF NextEpoch, NoRow
  <2>3. [t \in Tasks |-> Life(tasks[t])] \in [Tasks -> {Abs!Absent, Abs!Queued(0)}]
    BY <2>1 DEF Init
  <2>4. [n \in Nodes |-> NextEpoch(nodes[n])] = [n \in Nodes |-> 0]
    BY <2>2 DEF Init
  <2> QED
    BY <2>3, <2>4 DEF Abs!Init
<1>2. IndInv /\ [Next]_vars => [Abs!Next]_(Abs!vars)
  <2> SUFFICES ASSUME IndInv, [Next]_vars PROVE [Abs!Next]_(Abs!vars)
    OBVIOUS
  <2>0. TypeOK
    BY DEF IndInv
  <2>1. CASE tasks' = tasks /\ nodes' = nodes
    BY <2>1 DEF Abs!vars
  <2>2. ASSUME NEW r \in Replicas, EngineStep(r) PROVE [Abs!Next]_(Abs!vars)
    <3>1. TickCommit(r) \/ (tasks' = tasks /\ nodes' = nodes)
      BY <2>2 DEF EngineStep, TickClaim, TickNodes, TickAllocs, TickAbort
    <3> QED
      BY <2>1, <3>1, CommitImplements
  <2>3. ASSUME NEW r \in Replicas, DetectorStep(r) PROVE [Abs!Next]_(Abs!vars)
    <3>1. DetectDead(r) \/ DetectNotReady(r) \/ (tasks' = tasks /\ nodes' = nodes)
      BY <2>3 DEF DetectorStep, DetectList, DetectRead, DetectError
    <3>2. CASE DetectNotReady(r)
      <4>1. PICK n \in Nodes : n = detector[r].node
        BY <2>0, <3>2, DetectorFields DEF DetectNotReady, TypeOK
      <4>2. tasks' = tasks /\ nodes' = [nodes EXCEPT ![n] = WithStatus(nodes[n], "not_ready")]
        BY <3>2, <4>1 DEF DetectNotReady
      <4> QED
        BY <2>0, <4>2, StatusImplements
    <3> QED
      BY <2>0, <2>1, <3>1, <3>2, DeadImplements
  <2>4. ASSUME NEW h \in Handlers, HandlerStep(h) PROVE [Abs!Next]_(Abs!vars)
    <3>1. ASSUME NEW n \in Nodes, NEW c \in Sizes, RegisterTx(h, n, c) PROVE [Abs!Next]_(Abs!vars)
      <4>1. tasks' = tasks /\ nodes' = [nodes EXCEPT ![n] = Registered(nodes[n], c)]
        BY <3>1 DEF RegisterTx
      <4> QED
        BY <2>0, <4>1, RegisterImplements
    <3>2. CASE HeartbeatRecover(h)
      <4>1. PICK n \in Nodes : n = rpc[h].node
        BY <2>0, <3>2, RpcFields DEF HeartbeatRecover, TypeOK
      <4>2. tasks' = tasks /\ nodes' = [nodes EXCEPT ![n] = WithStatus(nodes[n], "ready")]
        BY <3>2, <4>1 DEF HeartbeatRecover
      <4> QED
        BY <2>0, <4>2, StatusImplements
    <3>3. \/ \E n \in Nodes, c \in Sizes : RegisterTx(h, n, c)
          \/ HeartbeatRecover(h)
          \/ tasks' = tasks /\ nodes' = nodes
      BY <2>4 DEF HandlerStep, RegisterSeed, HeartbeatGet, HeartbeatSeen, HeartbeatReply, RpcError
    <3> QED
      BY <2>1, <3>1, <3>2, <3>3
  <2>5. ASSUME NEW r \in Replicas, Lead(r) \/ Unlead(r) PROVE tasks' = tasks /\ nodes' = nodes
    BY <2>5 DEF Lead, Unlead
  <2>6. CASE Elapse \/ UNCHANGED vars
    BY <2>1, <2>6 DEF Elapse, vars
  <2>7. CASE Report
    BY <2>0, <2>7, ReportImplements
  <2>8. ASSUME NEW job \in Jobs, SubmitJob(job) PROVE [Abs!Next]_(Abs!vars)
    BY <2>0, <2>8, SubmitImplements
  <2>9. ASSUME NEW t \in Tasks, RetryDue(t) PROVE [Abs!Next]_(Abs!vars)
    BY <2>0, <2>9, DueImplements
  <2> QED
    BY <2>1, <2>2, <2>3, <2>4, <2>5, <2>6, <2>7, <2>8, <2>9 DEF Next
<1> QED
  BY <1>1, <1>2, ControlInvariant, PTL DEF Spec, ImplementsLifecycle, Abs!Spec
===============================================================================
