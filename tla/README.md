# Arbiter: a verification project in TLA+

Arbiter is a small distributed task scheduler: scheduler replicas elect a leader
through a row of Postgres, place tasks on worker nodes, watch the workers'
heartbeats, and requeue the tasks of nodes that die. This directory holds TLA+
models of that code, TLC configurations that check them on small instances, and
TLAPS proofs of the main safety properties for every instance. Paths below are
relative to the repository.

## The system

| Part | State | Operations | Interacts through |
|---|---|---|---|
| Leader election: `internal/store/lease.go`, `internal/election` | the `leader_lease` row; `isLeader`, `epoch`, `leaderAddr` of every Elector | acquire or renew every tick, publish the result, fail, crash, restart | row lock in Postgres; `IsLeader()` is read by every other goroutine |
| Store: `internal/store/nodes.go`, `jobs_tasks.go` | `nodes` (status, epoch, capacity), `tasks` (status, assignment, retries), `jobs` | RegisterNode, UpdateNodeStatus, MarkNodeDead, CreateJob, claim, ScheduleTask, UpdateTaskStatus | transactions, row locks, `SKIP LOCKED` |
| Cache: `internal/cache` | last-seen key per node; pub/sub | SetLastSeen, GetLastSeen | Redis |
| Scheduling engine: `internal/scheduler` | one tick in progress | claim, list nodes, measure, place, commit | store; only when `IsLeader()` |
| Failure detector: `internal/failuredetector` | one tick in progress | list, read age, mark dead or not ready, reap containers | store, cache, Docker |
| gRPC API: `internal/grpcapi` | calls in flight | RegisterNode, Heartbeat, ReportTaskStatus, SubmitJob | store, cache; called by workers and clients |
| Worker agent: `cmd/worker`, `internal/executor` | identity (node, epoch), specs, running containers | register, heartbeat, accept assignments, start, report | gRPC, Docker |
| Autoscaler: `internal/autoscaler` | backlog and idle timers | scale up, cordon, remove, mark dead | store, Docker |
| Event fanout: `internal/store/events.go`, `internal/eventfanout`, `internal/httpapi` (SSE) | `events`; a cursor per poller; a snapshot and a cursor per stream | insert, commit, poll, publish, subscribe | store, Redis channel |
| Clients: `internal/leaderclient`, `cmd/worker` (dialer), `cmd/arbiterctl` | one connection, a rotation index, calls in flight | follow a redirect, rotate, go back to the seed, give up | gRPC; answers of followers |
| Read-only parts: the other HTTP handlers, metrics, health, dashboard | none of their own | views | store |

What is hard about it: every goroutine reads shared state in one statement and
acts on it in another, so anything may change in between; leadership is a cached
belief and may be held by two replicas; calls are retried, delayed and lost;
nodes die and come back under a new *epoch*, which is all that fences their
earlier incarnations. `PROJECT.json` lists each such hazard at its line.

What makes each part correct:

* election: an epoch names at most one leader, leadership overlaps only after
  the older grant ran out, epochs never go back, a leader is found again;
* nodes: every incarnation has an epoch of its own, a dead row's epoch is known
  to nobody, a silent node dies in the end;
* tasks: rows are assigned exactly when they should be and never ahead of their
  node's epoch, finished is final, retries are bounded and charged only for
  failures, a task that fits somewhere is placed, a tick gives a node no more than
  it has and each task the best node, and nodes are overcommitted only when they
  come back smaller or by two leaders' ticks that overlap;
* worker: one process never runs a task twice at once, the agent's maps never
  make it refuse a task for good, a worker whose epoch was taken finds out, and
  a result belongs to the assignment it is accepted for (it need not: see below);
* autoscaler: the number of workers is capped, a reclaim that was interrupted is
  finished unless others keep coming first, a lasting backlog is answered;
* events: what was committed is published and shown, and every event that is left
  out is left out for one of a few known reasons;
* clients: a call that nothing disturbs finds the leader, and a job is submitted
  twice only in the one case that the retry loop leaves open.

## Modules

`Leadership` is the abstract specification of leader election: terms numbered by
epoch, each granted to one replica, and beliefs that rest on granted terms.

`LeaderLease` models `TryAcquireOrRenewLease` and `Elector.tick`.
A tick is three steps: `TickBegin` (the row lock is granted, the row and then the
replica's own clock are read), `TickTake` or `TickDecline` (commit), `TickReturn`
(the Elector publishes the result). `TickError` is a failure before or after the
commit: `tick` logs it and keeps its old belief. `Crash` and `Restart` are the
process. Times are kept as time *left* on the true clock and `Elapse` lets a unit
pass, so the state space is finite without a bound on time; `Skew[r]` is how far
a replica's clock is ahead. The ghost `grant` is the time left of the grant that
a replica's belief rests on. Failed renewals of configuration checks
(`identity == ""`, `ttl <= 0`) cannot happen with the values `cmd/scheduler` passes
and are left out.

`Store` has the rows of the two tables and what a transaction makes of a row
(`Registered`, `Dead`, `Orphaned`, `Requeued`, `AfterReport`, `Scheduled`, `Fence`).
`Control` and `Worker` extend it. `NodeNames` declares the node rows, for `Store` and
`Batch`.

`Lifecycle` is the abstract specification of the two tables: a task is queued, held by
one node under one epoch, and then settled for good, charged with a retry and queued
again, or taken back with all else that a dead node held; a task is only given to a
node under an epoch below the node's *fence*, and fences never go back. `Control` and
`Worker` both implement it: one contract for the tables, whether the control plane
interleaves its reads and writes (`Control`) or the workers' calls are lost, repeated and
late (`Worker`, where the control plane's transactions are single steps). The mapping is `Store`'s `Life`
and `NextEpoch`: scheduled and running are both held, and the epoch that MarkNodeDead
leaves on a row is not yet below the fence, since no worker has it.

`Control` models the two tables, the last-seen ages, and all goroutines that
touch them:

| Code | Action |
|---|---|
| `Engine.tick` | `TickClaim`, `TickNodes`, `TickAllocs`, `TickCommit`; `TickAbort` is an error or crash at any point |
| `Detector.tick`, `evaluate` | `DetectList`, `DetectRead`, `DetectDead`, `DetectNotReady`; `DetectError` |
| `RegisterNode` | `RegisterTx`, `RegisterSeed` |
| `Heartbeat` | `HeartbeatGet`, `HeartbeatSeen`, `HeartbeatRecover`, `HeartbeatReply` |
| any call failing midway | `RpcError` |
| `ReportTaskStatus`, `UpdateTaskStatus` | `ReportTaskStatus` |
| `SubmitJob`, `CreateJob` | `SubmitJob` |
| `Elector`, as the others see it | `Lead`, `Unlead` |
| the clock | `Elapse`, `RetryDue` |

Each transaction is one step except the engine's, which stays open over three
reads. What a goroutine has read lives in its own record (`engine[r]`,
`detector[r]`, `rpc[h]`) and goes stale as it would in the code. The rows a
transaction writes are the functions of `Store`, so that both the properties and
the proofs can speak about them. The worker is the environment here: it
calls at any time with any epoch that RegisterNode returned to it, and reports
only tasks that a heartbeat gave it (`told`). A status update bundled with a
heartbeat is a `ReportTaskStatus` between two steps of the heartbeat. Resources
are one dimension (CPU and memory are compared alike and independently). A
worker registers with any capacity of `Sizes`, and RegisterNode overwrites the
row's capacity with it, whatever is assigned to the node by then; the labels that
it overwrites as well matter to the label selector only and are left out here, as
the selector is (both are in `Placement`, for one tick). Which of several nodes with room the scorer prefers is left open here, as in `Batch`. The status
`cordoned` is written by the autoscaler only and is in `Autoscaler`.

`Worker` models the worker process, its goroutines and the containers:

| Code | Action |
|---|---|
| `main`, `registerWithRetry` | `Boot`, `RegisterNode`, `RegisterGiveUp`, `SetIdentity` |
| `runHeartbeatLoop` | `Heartbeat`; on `epoch_invalid` `StopAll`, `ClearSpecs`, then registration |
| `handleAssignments` | `CheckAssignment`, `TakeAssignment` |
| `startAssignedTask` | `Identify`, `Announce` or `AnnounceLost`, `Start`, `Cleanup` |
| `Executor.Start`, `createAndStart` | `Start`, `Create` |
| `waitForExit` | `WaitGone`, `WaitReturn`, `WaitError`, `WaitCancelled` |
| `finish`, `handleTaskDone` | `Finish`, `Forget`, `Identify`, `ReportResult` or `ResultLost` |
| end of the process | `Crash`, `Shutdown` (SIGTERM) |
| control plane and Docker | `Place`, `RetryDue`, `MarkNodeDead`, `KillTaskContainers`, `ReapLost`, `ContainerExit` |

`identity`, `specs` and `Running` are the fields that the agent's goroutines share.
`run[i]` is a goroutine together with the container it started: `assigned` is the
epoch it was given the task under, `epoch` the identity it has read for the report
it is about to make. A container whose goroutine is gone stays as an `orphan` until
it exits or is reaped, and so does one whose start was not answered and whose
removal failed. A wait that breaks off, or is cancelled, ends in two ways: before
Docker's answer begins the run has failed (and a cancelled one's container is
killed); once it has begun, which it does at once, `waitForExit` ignores the error,
finds no exit code, and the run has succeeded, with its container left alone. A call is carried out and answered, carried out and not
answered, or not carried out. The control plane's transactions are single steps
here; `Control` has their interleavings.

`Autoscaler` models `internal/autoscaler` and the worker containers:

| Code | Action |
|---|---|
| `Run`, not the leader | `TickSkip` |
| `tick`: the counts, the nodes, then allocations and windows | `TickCount`, `TickNodes`, `TickDecide` |
| `scaleUp`, `nextHostname` | `ScaleUpPick` or `ScaleUpPickBlind` (listing failed), `ScaleUp` or `ScaleUpFails` |
| `scaleDown` | `Cordon`, `RemoveWorker` or `RemoveLost`, `Bury` or `BuryFails` |
| any other failure, end of the process | `TickError`, `Restart` |
| the rest of the system | `Submit`, `PlaceElsewhere`, `PlaceHere`, `TasksDone`, `DetectNotReady`, `DetectDead`, `Call`, `CallArrives` |

Times are durations since they were taken, counted up to the window they are
compared with; a zero time is the empty set. Rows are in the order of their
creation, in which `tick` walks through them and stops at the first that it
reclaims. A worker's call can arrive after its container was removed, and engine
and detector write what they decided on an older listing, so that any row that was
ever ready may be written. What `IsLeader()` answers at a tick is left open:
`TickSkip` and `TickCount` are both possible.

`Batch` is the abstract specification of one tick: the claimed tasks, oldest first,
each go to a node that passes the filters given what was measured and what the tick
has given away (`PlaceOn`), or stay pending if there is none (`LeaveOut`). `Placement`
models the loops of `Engine.tick` and `Place` with the filters, both scorers and the
tie break: `Consider` is one node of `Place`'s loop, `Choose` its return and what
`tick` makes of it. It has both resource dimensions and the label selector, which
`Control` leaves out. Scores are exact integers over a common multiple of the
capacities, where the code has floating-point numbers.

`EventFanout` models how audit events travel:

| Code | Action |
|---|---|
| `insertEvent` and the end of its transaction | `InsertEvent`, `Commit`, `Rollback` |
| `eventfanout.Runner.Run` | `FanStart`, `FanStop`, `FanList`, `PublishOk` or `PublishError` |
| `handleEventsStream` | `StreamOpen`, `StreamSubscribe` or `StreamPoll`, `StreamClose` |
| `pollEventsSSE` | `PollTick` |
| `Elector`, as the poller sees it | `Lead`, `Unlead` |

Ids are given out at insertion and rows are seen at commit, so rows can appear
below a cursor; the ghost `late` marks them. A message is published with or without
success, and delivered to a subscribed stream or dropped by Redis (`missed`).

`LeaderClient` models how a client finds the leader: `withLeaderRetry` with the
`schedulerDialer` that the worker's goroutines share, and `withRedirect` of
`arbiterctl`.

| Code | Action |
|---|---|
| a call; an attempt with the current client | `Begin`, `Fetch` |
| the answer; the connection closed by another goroutine; a lost answer, a deadline that has passed or a failing handler | `Answer`, `AnswerClosed`, `AnswerLost` |
| `ParseLeaderAddr`, `FollowRedirect` | `FollowRedirect` |
| `RecoverFromUnavailable`; back to the seed | `Rotate`; `BackToSeed` |
| the loop gives up | `Return` |
| replicas stop, start, lead, and learn who leads | `Change` |

The cluster is arbitrary: any replica may be down, lead, or believe that any other
leads. A replica that is down refuses connections, which is `Unavailable`; a host
that does not respond uses up the deadline that a report (5 s) and a command of
`arbiterctl` have for all their attempts together, which is not retried
(`AnswerLost` with `Other`). `jobs` counts how often a SubmitJob of `arbiterctl` was carried out.

`MCLeaderLease`, `MCControl`, `MCWorker`, `MCPlacement` and `MCLeaderClient` give values
to the constants for TLC. The proofs are in `LeaderLeaseProofs`, `ControlProofs`,
`WorkerProofs`, `AutoscalerProofs`, `PlacementProofs`, `EventFanoutProofs` and
`LeaderClientProofs`; `StoreProofs` has the lemmas about rows that `ControlProofs` and
`WorkerProofs` share, and those about sums that `ControlProofs` and `PlacementProofs` share.

## Runs

| Run | Checks | Shows |
|---|---|---|
| `lease` | types, `UniqueLeaderPerEpoch`, `DeposedLeaderOutlivedGrant`, `EpochViewMonotone`, `ImplementsLeadership`, `LeadershipRecovers` | two replicas, one with a fast clock, lose ticks, replies and processes, and either may stop for good |
| `control_fencing` | `DeadIsFenced`, `IncarnationsDistinct`, `AssignmentConsistent`, `OnlyFailuresUseRetries`, `ImplementsLifecycle` | two calls in flight race the detector over three epochs; the node's task fails and is retried |
| `control_overlap` | types, `OvercommitExplained` | two replicas that both lead, two tasks that compete for one node, which registers again with another capacity, live or after a death; the node is overcommitted in each of the three ways that the property names, and in no other |
| `control_live` | `PendingIsPlaced`, `SilentNodeDies` | a task that never fits in front of one that does; a node that falls silent |
| `control_stuck` (violated) | `NoTaskStuckOnDeadNode` | a stale tick leaves a task on a dead node for ever |
| `worker` | types, `OneRunPerTask`, `SpecHasGoroutine`, `ScheduledIsStarted`, `StaleWorkerRegisters`, `ImplementsLifecycle` | one task given over and over, with lost calls, deaths, restarts and failing containers; an assignment is started whatever former runs left behind, and a worker whose epoch was taken gets to registration again |
| `worker_zombie` (violated) | `ResultsOfCurrentAssignment` | a run of a former assignment reports under the new epoch and is believed |
| `worker_exitcode` (violated) | `SucceededMeansExitZero` | an answer to the wait call without an exit code counts as succeeded |
| `autoscaler` | types, `ReclaimFinishes`, `BacklogGetsWorker` | launches and reclaims of two workers with failures between any two calls |
| `fanout` | types, `FanGapsExplained`, `NoReplay`, `StreamGapsExplained`, `EventsFollow`, `EventsShown` | events that commit in any order, failing publishes, a poller that restarts, a stream that subscribes or polls |
| `placement` | types, `Accounted`, `NoTickOvercommit`, `LeftOutFitsNowhere`, `PlacedOnBest`, `ImplementsBatch` | all batches of three tasks of five kinds, all orders of four nodes |
| `client` | types, `QuietCallSucceeds`, `SubmitRepeatedOnlyOffSeed` | every state of three replicas, changing under two goroutines that share a connection, or under `arbiterctl` |

`ImplementsLifecycle` covers what the runs need not check apart from it: that a finished
task stays finished and that retries stay within the limit (`FinishedStaysFinished` and
`RetriesRespectLimit`, which are proved by name as well).

The violated runs state what a document of the repository says of the code;
`PROJECT.json` quotes the line under `findings`. Several things that the models show
and no document excludes are worth knowing: a heartbeat that is late can make a dead
row ready under the same epoch, until the row dies again; the detector can poll a
node between its registration and the first last-seen key, and marks it dead; and
a task that died with its node can be started elsewhere before its old container
is reaped; ticks of two replicas that both lead can overcommit a node, and so does a
worker that registers again with less than its tasks request; while a backlog lasts,
the autoscaler can launch and reclaim a worker for ever, and a cordoned node whose
row is younger is then never reclaimed; claimLimit
tasks that fit nowhere keep younger ones from being considered; an event whose
publication failed, or whose row committed late, is never published; a redial fails
the calls that other goroutines had on the connection; and `arbiterctl` submits a job
twice when the answer of a leader it was redirected to is lost.

**Bounds.** `MaxEpoch` bounds elections (lease) and registrations (nodes): three
elections let a replica lose the lease and get it back; epochs 0 to 2 let an
incarnation die, return, and be overtaken again. `TTL = 2` and `MaxSkew = 1` make
the lease boundary, a renewal and an early takeover distinct. `NotReadyAfter = 1`
and `DeadAfter = 2` are the smallest values at which both thresholds matter. One
node suffices for the races over a row and its epoch, since no transaction
touches two node rows; two tasks suffice for competition within a batch. In
`control_overlap`, capacities 2 and 3 hold one of the tasks or both, `MaxEpoch = 2`
lets the node register twice more or die and register, and both thresholds are 1,
since `not_ready` and `dead` are told apart in the other runs. `control_live` has
as many tasks as `ClaimLimit`, so that a batch cut by the limit is not part of it. Two
handlers are a delayed call and another one. In `Worker`, `Runs` bounds goroutines
and containers at once: two are a run of a former assignment and one of the current
one; with epochs 0 and 1 a worker loses its epoch once, by a death or by a restart
of its own, and the violated runs have one epoch more. A death or registration
beyond `MaxEpoch` is cut off, which is why `StaleWorkerRegisters` promises that the
worker gets to registration, not that it succeeds; this is also how the code has it,
since an attempt may always fail. In `Autoscaler`, one replica, two names and a maximum of two let both workers
exist, a blind pick remove a container that has the name, and one node be reclaimed
while the other is cordoned; a sustained window of two units against an idle window
and a cooldown of one let the backlog launch a worker over and over while the
idle one is reclaimed, so that the exceptions in `ReclaimFinishes` and
`BacklogGetsWorker` do happen (without them TLC finds both violated). `Worked` names the one host whose row engine and
detector write; one task at a time is pending or on it. Two replicas are out of TLC's
reach, so that leaders scaling at once, and with them `WorkersCapped`, are left to the
proof of `CapHolds`. In
`EventFanout`, three events are the least with which a batch of two is cut, a row
comes late below it and another above it; limits of one cut snapshot and poll as
well. In `Placement`, the four nodes are two of one name, a bigger one with another
label, and one that is not ready; three tasks let a reservation of the first decide
about the second and a task that is left out stand between two that are not. In
`LeaderClient`, two of three replicas are configured, so that a redirect can lead away
from the rotation, and three attempts before the last are as many as the assumption
`AddrsAssumption` asks for; the code has 8 and 6. Replicas,
handlers and runs are interchangeable where symmetry is declared, and only in runs
without liveness.

**Fairness.** `LeaderLease!Fairness`: ticks repeat (a ticker loop), the row lock is
granted in arrival order, and the database does not fail every attempt (strong
fairness of each stage, since `TickError` may interrupt it any finite number of
times in a row); nothing forces a stopped replica to return. `Control!Fairness`: the
same for engine and detector loops; a call in flight ends (the handler's own
steps or an error); a replica that does not lead tries again. Workers, clients,
failures and crashes are never forced. `Worker!Fairness`: goroutines go on while their
process does, tasks end, and of the calls that a worker tries again and again
(registrations, and announcements of starts, whichever run makes them) some are
answered; no placement, death or start of a process is forced. `Autoscaler!Fairness`:
time passes and every tick ends. A tick that always fails never gets
anywhere, so `ReclaimFinishes` and `BacklogGetsWorker` are stated for behaviours
that are `Undisturbed` from some point on: one replica leads and keeps ticking, and no
call of the autoscaler fails any more; what happened before is arbitrary. `EventFanout!Fairness`:
a leader's poller keeps ticking and gets through its batch, and of the publishes that
are tried again and again some succeed; a poller that stops or is deposed is excepted
in the properties themselves. `LeaderClient` needs none: its loops are bounded, so that
finding the leader is an invariant of calls that have ended (`QuietCallSucceeds`).

**Deadlock** is checked in every run but `placement`, where a tick ends; elsewhere the
clock or the replicas can always move.

## Proofs

TLAPS proves the following for every number of replicas, nodes, tasks, handlers
and every value of the other constants that satisfies the named assumptions
in the module at hand (`LeaderLease`: `ReplicasAssumption`, `TimeAssumption`,
`MaxEpochAssumption`; `Store` and `Control`: `NoNodeAssumption`, `RetryLimitAssumption`,
`TasksAssumption`, `SizesAssumption`, `ThresholdsAssumption`; `Autoscaler`:
`ReplicasAssumption`, `HostsAssumption`, `ConfigAssumption`; `Worker`: `WorkerAssumption`;
`Batch` and `Placement`: `NoNodeAssumption`, and that capacities, batches, measurements and
lists are what the store returns; `EventFanout`: `LimitsAssumption`; `LeaderClient`:
`AddrsAssumption`, `NamesAssumption`). Jobs are finite (`TasksAssumption`); the tasks and
the jobs altogether need not be. One theorem has a hypothesis of its own,
`QuietCallsSucceed`.

*StoreProofs.* Besides the rows: what `SumFunctionOnSet` is for finite sets of any size
(`SumEmpty`, `SumTake`, `SumAdd`, `SumNat`, `SumMonotone`). The community module's sum is
a fold, a recursive function picked by `CHOOSE`, and its induction principles take an
operator as a parameter, which the provers cannot instantiate. The lemmas go around
that with smallest counterexamples: the well-foundedness of `<` (`WFMin`) gives a smallest
set in a set of sets (`SmallestSet`), and a set of counterexamples that has no smallest
one is empty. `UnfoldExists` shows in this way that the recursive function exists.

*LeaderLeaseProofs.* `LeaseInvariant` proves `IndInv`: the `leader_elected` events are
the history of the row (`HistoryInv`), the transaction that has the row locked read
it as it is (`LockInv`), every belief, held or on its way back in a reply, rests on
an event of that replica (`BeliefInv`), and a grant that is not run out belongs to
the holder (`GrantInv`). The properties alone are not inductive: a reply in flight
can turn into a belief at any time, so it must be covered as well. From it follow
`UniqueLeader`, `DeposedOutlived`, `EpochViewNeverRegresses` and
`LeaseRefinesLeadership`, the refinement of `Leadership`.

*ControlProofs.* The key notion is `Reached(n, e)`: node n's row has reached epoch e, and
has left it behind if it is dead. `ReachedKept` shows that no step, not even a late
write of UpdateNodeStatus, takes it back. `ControlInvariant` proves that every epoch in
the system is reached: those of workers and of registrations being answered
(`WorkerEpochs`), those a tick has listed (`ListedEpochs`; without them a stale
`TickCommit` would break the rest) and those of assignments (`TaskEpochs`).
`TaskStep` lists the seven ways a row can change; the remaining theorems follow
from it. `OvercommitHasReason` needs `RowsInv`: the table has finitely many rows and a
tick knows of no others, so that loads are sums of naturals. Only a commit adds to a
node (`BusyKept`), and of the tasks that it adds there the one considered last was
found to fit, within the capacity that was listed, next to what was measured and all
the others (`CommitFits`); if everything on the node had been measured and the row has
no less than was listed, that bounds its load. Of the other steps only a registration
changes a capacity. `ControlRefinesLifecycle` maps each
action to one of `Lifecycle` or to a stutter; `Reached(n, e)` is the same as lying below
the fence, so `ListedEpochs` is what makes a commit with old epochs an `Assign`.
Proved: `ControlTyping`, `DeadFenced`, `IncarnationsAreDistinct`,
`AssignmentsConsistent`, `RetriesBounded`, `FailuresUseRetries`, `FinishedIsFinal`,
`OvercommitHasReason`, `ControlRefinesLifecycle`.

*AutoscalerProofs.* `WorkersCapped` is not inductive: a replica that has counted the
containers and not yet created its own will add one without counting again.
`CreatingCapped` counts it in. A replica starts a launch only when it finds fewer
than the maximum (`CapCounted`: then the bound holds however many others are
launching), and ends it with at most one container more and one launch less
(`CapLaunched`); all other steps shrink both (`CapShrinks`). `RowsExist` is needed
for the types: that a tick reclaims one host rests on the rows being ordered
(`FirstIsOne`), and what a tick listed has a row for ever. Proved:
`AutoscalerTyping`, `AutoscalerInvariant`, `CapHolds`.

*WorkerProofs.* `TypeOK`, `OneRunPerTask` and `SpecHasGoroutine` are inductive together
(`Inv`). `RunStepShape` says what a step of a task goroutine may make of its slot
(`MayBecome`): it keeps node and task, it enters the executor's map only if the task is
not there, and it goes without dropping its spec only if Start found the task in the
map, in which case another goroutine, which is past Start, will drop it. That last
clause is why the two invariants need each other's vocabulary (`Tracking` is part of
`Dropping`). `WorkerRefinesLifecycle` needs only the types: a report is fenced when it
arrives, so it does not matter which run made it. (It does matter to
`ResultsOfCurrentAssignment`, which is violated: `Lifecycle` says who held the task, not
whose result it was.) Proved: `TypeCorrect`, `OneRun`, `SpecsAreDropped`,
`WorkerRefinesLifecycle`.

*PlacementProofs.* `BestSoFar` is the loop invariant of `Place`: best is preferred to
every eligible node looked at so far, or none was eligible. From it `PlaceReturnsBest`
and the refinement `LoopsImplementBatch` follow; `TickDoesNotOvercommit` and
`LeftOutTasksFitNowhere` (a task that does not fit now fits even less when more is
reserved, `EligibleAntitone`) are proved from the steps of `Batch`. `PendingAllocAddsUp`
is `Accounted`: a placement adds one index to the tasks given to one node, and the sum
over them grows by that task's request.

*EventFanoutProofs.* The gaps are explained by `CursorInv`: the batch lies ahead of the
cursor, the cursor stands on a row or where it started, and everything up to the end
of the batch is published, failed, in the batch, or late. A list cut by a limit has no
holes (`ListEventsAfterFacts`, by counting), and a row that commits below the cursor has
a greater row in the table, so it is late. `StreamInv` is the same for a stream, with the
snapshot below it. Proved: `TypeCorrect`, `GapsExplained`, `NothingReplayed`,
`StreamExplained`.

*LeaderClientProofs.* `SubmitInv`: only one goroutine of `arbiterctl` counts, the call it
waits for went to the address the dialer has, and whoever has submitted and is on the
way to another attempt has lost an answer off the seed; an error that may hide a
submission is one that only `BackToSeed` would retry. `QuietInv` counts the attempts
of a call that nothing has disturbed: it is `OnTrack` if it is at the leader, or at a
follower with an attempt left for the redirect, or if the rotation gets to a replica
that is up with an attempt to spare (`Dist` is the number of rotations to it). It has
to say so for a call under way, whatever calls before it did to the dialer, and for
each cluster in which one replica leads and the others know. The theorem assumes
`AddrsDistinct`. The proof does not go through without it and TLC finds why: with
`<<a, b, a, c>>` the redial to the second `a` puts the index back to the first, so the
rotation goes a, b, a, b and never gets to `c`. `parseAddrList` does not drop
duplicates, so the address list of a worker should not have any.
Proved: `TypeCorrect`, `SubmitOnceAtSeed`, `QuietCallsSucceed`.

Every invariant and action property of a passing run is stated by a theorem, and
`WorkersCapped` by a theorem only. Only
model-checked are the liveness properties, which are beyond the prover:
`LeadershipRecovers`, `SilentNodeDies`, `PendingIsPlaced`, `ScheduledIsStarted`,
`StaleWorkerRegisters`, `ReclaimFinishes`, `BacklogGetsWorker`, `EventsFollow` and
`EventsShown`.

## Not modelled

The generated stubs, the dashboard, the scripts and deployment files, metrics, health
and process wiring hold no state that a property could be about. The other HTTP
handlers and the read calls of the gRPC API read the store once and answer; POST
`/api/v1/jobs` is the `SubmitJob` of `Control`. The command line of `arbiterctl` (flags,
tables, the waiting for a job, which polls `GetJob`) is left out but for its retry loop.
Of the audit rows only their ids matter (`EventFanout`), and `leader_elected`
(`LeaderLease`). Task logs are left out. A heartbeat call has no deadline of its own in
the worker: a scheduler that accepts it and never answers blocks the loop until the
connection breaks. `Worker!Fairness` assumes that it does break.

## Plan

1. `Cluster`: `Worker` composed with the interleavings of `Control`, and reports
   counted exactly against retries.
2. A second replica in `EventFanout`'s instance and what a change of leader repeats or
   leaves out.
3. Proofs: what `Lifecycle` gives the modules that implement it (a holder's epoch lies
   below the fence, retries stay within the limit), once and for both; and that a
   worker's identity never runs ahead of its row.
