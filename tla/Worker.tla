-------------------------------- MODULE Worker --------------------------------
(***************************************************************************)
(* The worker agent (cmd/worker) and its executor (internal/executor): the *)
(* heartbeat loop, one goroutine per assigned task, the maps they share,   *)
(* and the containers they leave behind on a Docker daemon that all        *)
(* workers and the scheduler share.                                        *)
(*                                                                         *)
(* The control plane is the environment.  Its transactions are those of    *)
(* module Store, each in one step; module Control has their interleavings. *)
(* Any call may fail: then it was carried out and the answer was lost, or  *)
(* it was never carried out.  The deadline of a report travels with the    *)
(* call, so no report is carried out after the agent has given up on it.   *)
(***************************************************************************)
EXTENDS Store, FiniteSets

CONSTANTS
    Tasks,              \* task rows
    Runs,               \* bound: this many goroutines and containers at once
    NoTaskId,           \* no task
    MaxEpoch            \* bound: no node row goes beyond this epoch

ASSUME WorkerAssumption == NoTaskId \notin Tasks /\ MaxEpoch \in Nat

VARIABLES
    nodes,              \* nodes[n]: the row; not_ready is not told from ready
    tasks,              \* tasks[t]: the row
    reaping,            \* tasks whose containers a goroutine of the detector will remove
    identity,           \* identity[n]: workerAgent.epoch
    loop,               \* loop[n]: main and runHeartbeatLoop of the worker process
    specs,              \* specs[n]: the keys of workerAgent.specs
    run                 \* run[i]: a task goroutine and its container

vars == <<nodes, tasks, reaping, identity, loop, specs, run>>

\* The loop is "down": no process; "boot" or "register": in registerWithRetry;
\* "registered": has the answer; "beating": between heartbeats, or working
\* through the assignments todo of the last one; "checked": cur is not running
\* here; "invalid": was told so; "stopped": StopAll is done.  ending: SIGTERM
\* came, and no further call is made.
LoopDown == [pc |-> "down", epoch |-> 0, todo |-> {}, cur |-> NoTaskId, ending |-> FALSE]

\* A task goroutine: "new" and "announce" (startAssignedTask), "start" and
\* "create" (Start), "wait" (waitForExit), "finish", then "done",
\* "forgotten" and "report" (handleTaskDone), "cleanup" (startAssignedTask
\* after Start failed); "orphan": the goroutine is gone, the container is not.
\* box is the container: "live", or "none"; while it is waited for also exited
\* with code "zero" or "nonzero", of which a succeeded run keeps the "zero".
FreeRun == [pc |-> "free", node |-> NoNode, task |-> NoTaskId, assigned |-> 0, epoch |-> 0,
            cancelled |-> FALSE, box |-> "none", result |-> "none"]

Init ==
    /\ nodes = [n \in Nodes |-> NoRow]
    /\ tasks = [t \in Tasks |-> [NoTask EXCEPT !.status = "pending"]]
    /\ reaping = {}
    /\ identity = [n \in Nodes |-> 0]
    /\ loop = [n \in Nodes |-> LoopDown]
    /\ specs = [n \in Nodes |-> {}]
    /\ run = [i \in Runs |-> FreeRun]

-------------------------------------------------------------------------------
(* The control plane and the Docker daemon *)

\* The engine places a task on a ready node, under the epoch of its row.
Place(t, n) ==
    /\ tasks[t].status = "pending"
    /\ ~tasks[t].wait
    /\ nodes[n].status = "ready"
    /\ tasks' = [tasks EXCEPT ![t] = Scheduled(@, n, nodes[n].epoch)]
    /\ UNCHANGED <<nodes, reaping, identity, loop, specs, run>>

RetryDue(t) ==
    /\ tasks[t].wait
    /\ tasks' = [tasks EXCEPT ![t].wait = FALSE]
    /\ UNCHANGED <<nodes, reaping, identity, loop, specs, run>>

\* The detector marks the node dead and leaves the containers of the orphaned
\* tasks to a goroutine.
MarkNodeDead(n) ==
    /\ nodes[n].status = "ready"
    /\ nodes[n].epoch < MaxEpoch
    /\ nodes' = [nodes EXCEPT ![n] = Dead(@)]
    /\ tasks' = [t \in Tasks |-> Orphaned(tasks[t], n)]
    /\ reaping' = reaping \cup {t \in Tasks : tasks[t].node = n /\ Active(tasks[t])}
    /\ UNCHANGED <<identity, loop, specs, run>>

\* A container that ends is removed.  Its code is for who waits for it, and one
\* that has no goroutine takes its slot with it.
Exited(r, code) ==
    CASE r.pc = "orphan" -> FreeRun
      [] r.pc = "wait" -> [r EXCEPT !.box = code]
      [] OTHER -> [r EXCEPT !.box = "none"]

\* killByTaskLabel removes every container of the task, whoever started it.
KillTaskContainers(t) ==
    /\ t \in reaping
    /\ reaping' = reaping \ {t}
    /\ run' = [i \in Runs |->
           IF run[i].task = t /\ run[i].box = "live" THEN Exited(run[i], "nonzero") ELSE run[i]]
    /\ UNCHANGED <<nodes, tasks, identity, loop, specs>>

\* The reaping fails, or the replica stops before it.
ReapLost(t) ==
    /\ t \in reaping
    /\ reaping' = reaping \ {t}
    /\ UNCHANGED <<nodes, tasks, identity, loop, specs, run>>

ContainerExit(i, code) ==
    /\ run[i].box = "live"
    /\ run' = [run EXCEPT ![i] = Exited(@, code)]
    /\ UNCHANGED <<nodes, tasks, reaping, identity, loop, specs>>

-------------------------------------------------------------------------------
(* The executor's map of running tasks, and StopAll *)

Tracking == {"create", "wait", "finish"}

\* The keys of Executor.running of the process on node n.
Running(n) == {run[i].task : i \in {j \in Runs : run[j].node = n /\ run[j].pc \in Tracking}}

\* StopAll cancels what is in the map; a run in "finish" is past caring.  Its
\* removeContainer names a container without the run id, and no container has
\* that name.
Cancelled(n) ==
    [i \in Runs |->
        IF run[i].node = n /\ run[i].pc \in {"create", "wait"}
        THEN [run[i] EXCEPT !.cancelled = TRUE] ELSE run[i]]

EndedAlways(r) == [FreeRun EXCEPT !.pc = "orphan", !.task = r.task, !.box = r.box]
\* The goroutine ends; its container may live on.
Ended(r) == IF r.box = "live"
            THEN [FreeRun EXCEPT !.pc = "orphan", !.task = r.task, !.box = "live"]
            ELSE FreeRun

-------------------------------------------------------------------------------
(* The worker process: main and runHeartbeatLoop *)

Boot(n) ==
    /\ loop[n].pc = "down"
    /\ loop' = [loop EXCEPT ![n].pc = "boot"]
    /\ UNCHANGED <<nodes, tasks, reaping, identity, specs, run>>

\* registerWithRetry: the call is carried out, and answered or tried again.  The
\* node's capacity is of no consequence in this module.
RegisterNode(n) ==
    /\ loop[n].pc \in {"boot", "register"}
    /\ ~loop[n].ending
    /\ Registered(nodes[n], 0).epoch <= MaxEpoch
    /\ nodes' = [nodes EXCEPT ![n] = Registered(@, 0)]
    /\ \/ loop' = [loop EXCEPT ![n].pc = "registered", ![n].epoch = nodes'[n].epoch]
       \/ UNCHANGED loop
    /\ UNCHANGED <<tasks, reaping, identity, specs, run>>

\* Out of attempts: the process exits at its first registration, and later goes
\* on heartbeating with the identity it has.
RegisterGiveUp(n) ==
    /\ loop[n].pc \in {"boot", "register"}
    /\ loop' = [loop EXCEPT ![n].pc = IF @ = "boot" THEN "down" ELSE "beating"]
    /\ UNCHANGED <<nodes, tasks, reaping, identity, specs, run>>

SetIdentity(n) ==
    /\ loop[n].pc = "registered"
    /\ identity' = [identity EXCEPT ![n] = loop[n].epoch]
    /\ loop' = [loop EXCEPT ![n].pc = "beating", ![n].epoch = 0]
    /\ UNCHANGED <<nodes, tasks, reaping, specs, run>>

\* The answer to a heartbeat: epoch_invalid, or the node's scheduled tasks with
\* the epochs that they were assigned under.
EpochInvalidIfBehind(n) == nodes[n].epoch < identity[n]
EpochInvalid(n) == nodes[n].epoch # identity[n]

Assignments(n) ==
    {<<t, tasks[t].epoch>> : t \in {u \in Tasks : tasks[u].status = "scheduled" /\ tasks[u].node = n}}

Heartbeat(n) ==
    /\ loop[n].pc = "beating"
    /\ loop[n].todo = {}
    /\ ~loop[n].ending
    /\ IF EpochInvalid(n)
       THEN loop' = [loop EXCEPT ![n].pc = "invalid"]
       ELSE loop' = [loop EXCEPT ![n].todo = Assignments(n)]
    /\ UNCHANGED <<nodes, tasks, reaping, identity, specs, run>>

\* epoch_invalid, first step: StopAll.
StopAll(n) ==
    /\ loop[n].pc = "invalid"
    /\ run' = Cancelled(n)
    /\ loop' = [loop EXCEPT ![n].pc = "stopped"]
    /\ UNCHANGED <<nodes, tasks, reaping, identity, specs>>

\* epoch_invalid, second step: an empty map of specs.
ClearSpecs(n) ==
    /\ loop[n].pc = "stopped"
    /\ specs' = [specs EXCEPT ![n] = {}]
    /\ loop' = [loop EXCEPT ![n].pc = "register"]
    /\ UNCHANGED <<nodes, tasks, reaping, identity, run>>

\* handleAssignments, for one of them: not if it runs here already, and not
\* under another epoch than the agent's.
CheckAssignment(n, t, e) ==
    /\ loop[n].pc = "beating"
    /\ <<t, e>> \in loop[n].todo
    /\ LET rest == loop[n].todo \ {<<t, e>>} IN
       IF t \notin Running(n) /\ e = identity[n]
       THEN loop' = [loop EXCEPT ![n].todo = rest, ![n].pc = "checked", ![n].cur = t]
       ELSE loop' = [loop EXCEPT ![n].todo = rest]
    /\ UNCHANGED <<nodes, tasks, reaping, identity, specs, run>>

\* handleAssignments, under the lock of specs: a task that has a spec is being
\* started already; otherwise a goroutine is started for it.
TakeAssignment(n) ==
    /\ loop[n].pc = "checked"
    /\ LET t == loop[n].cur IN
       IF t \in specs[n]
       THEN UNCHANGED <<specs, run>>
       ELSE /\ specs' = [specs EXCEPT ![n] = @ \cup {t}]
            /\ \E i \in Runs :
                  /\ run[i] = FreeRun
                  /\ run' = [run EXCEPT ![i] =
                         [FreeRun EXCEPT !.pc = "new", !.node = n, !.task = t, !.assigned = identity[n]]]
    /\ loop' = [loop EXCEPT ![n].pc = "beating", ![n].cur = NoTaskId]
    /\ UNCHANGED <<nodes, tasks, reaping, identity>>

\* The end of the process.  A container that was being created may have started.
Crash(n) ==
    /\ loop[n].pc # "down"
    /\ loop' = [loop EXCEPT ![n] = LoopDown]
    /\ identity' = [identity EXCEPT ![n] = 0]
    /\ specs' = [specs EXCEPT ![n] = {}]
    /\ \E started \in SUBSET {i \in Runs : run[i].node = n /\ run[i].pc = "create"} :
          run' = [i \in Runs |->
              CASE i \in started -> Ended([run[i] EXCEPT !.box = "live"])
                [] i \notin started /\ run[i].node = n -> Ended(run[i])
                [] OTHER -> run[i]]
    /\ UNCHANGED <<nodes, tasks, reaping>>

\* SIGTERM: main calls StopAll and exits without waiting for what it
\* cancelled; until then the loop finishes what it is at.
Shutdown(n) ==
    /\ loop[n].pc \notin {"down", "boot"}
    /\ ~loop[n].ending
    /\ run' = Cancelled(n)
    /\ loop' = [loop EXCEPT ![n].ending = TRUE]
    /\ UNCHANGED <<nodes, tasks, reaping, identity, specs>>

-------------------------------------------------------------------------------
(* The task goroutines *)

\* run[i] goes on as r, and nothing else changes but what the step says.
Goes(i, r) == run' = [run EXCEPT ![i] = r]

ReportedFinishedToo(t, n, e, s) ==
    IF Fence(tasks[t], n, e) THEN [tasks EXCEPT ![t] = AfterReport(@, s)] ELSE tasks
\* ReportTaskStatus as the control plane carries it out: a report that fails
\* the fence, or that finds the row not active, is refused.
Reported(t, n, e, s) ==
    IF Fence(tasks[t], n, e) /\ Active(tasks[t])
    THEN [tasks EXCEPT ![t] = AfterReport(@, s)]
    ELSE tasks

\* The agent's identity is read when a report is made up, not when the task
\* was assigned.
Identify(i) ==
    /\ \/ run[i].pc = "new" /\ Goes(i, [run[i] EXCEPT !.pc = "announce", !.epoch = identity[run[i].node]])
       \/ run[i].pc = "forgotten" /\ Goes(i, [run[i] EXCEPT !.pc = "report", !.epoch = identity[run[i].node]])
    /\ UNCHANGED <<nodes, tasks, reaping, identity, loop, specs>>

\* startAssignedTask reports running, and goes on whatever comes of it.
Announce(i) ==
    /\ run[i].pc = "announce"
    /\ tasks' = Reported(run[i].task, run[i].node, run[i].epoch, "running")
    /\ Goes(i, [run[i] EXCEPT !.pc = "start", !.epoch = 0])
    /\ UNCHANGED <<nodes, reaping, identity, loop, specs>>

AnnounceLost(i) ==
    /\ run[i].pc = "announce"
    /\ Goes(i, [run[i] EXCEPT !.pc = "start", !.epoch = 0])
    /\ UNCHANGED <<nodes, tasks, reaping, identity, loop, specs>>

\* Start or waitForExit has a result for finish.  Of the container it matters
\* from here on whether it lives, and for a success whether its code was 0.
Concluded(r, s, b) ==
    [r EXCEPT !.pc = "finish", !.result = s, !.cancelled = FALSE,
              !.box = IF b = "live" \/ (b = "zero" /\ s = "succeeded") THEN b ELSE "none"]

StartUnchecked(i) ==
    /\ run[i].pc = "start"
    /\ Goes(i, [run[i] EXCEPT !.pc = "create"])
    /\ UNCHANGED <<nodes, tasks, reaping, identity, loop, specs>>
\* Start enters the task in the map of running tasks, or returns if it is there.
Start(i) ==
    /\ run[i].pc = "start"
    /\ IF run[i].task \in Running(run[i].node)
       THEN Goes(i, FreeRun)
       ELSE Goes(i, [run[i] EXCEPT !.pc = "create"])
    /\ UNCHANGED <<nodes, tasks, reaping, identity, loop, specs>>

CreateSilent(i) ==
    /\ run[i].pc = "create"
    /\ \/ Goes(i, [run[i] EXCEPT !.pc = "wait", !.box = "live"])
       \/ Goes(i, FreeRun)
    /\ UNCHANGED <<nodes, tasks, reaping, identity, loop, specs>>
\* createAndStart: the container runs; or the run counts as unstarted.  Then
\* there is no container, unless the answer to its start was lost and so was
\* the attempt to remove it.
Create(i) ==
    /\ run[i].pc = "create"
    /\ \/ Goes(i, [run[i] EXCEPT !.pc = "wait", !.box = "live"])
       \/ \E b \in {"none", "live"} : Goes(i, Concluded(run[i], "unstarted", b))
    /\ UNCHANGED <<nodes, tasks, reaping, identity, loop, specs>>

\* waitForExit asks Docker for the exit code too late: the container is gone
\* (AutoRemove), the answer is an error without a StatusCode, and that is taken
\* for exit code 0.
WaitGone(i) ==
    /\ run[i].pc = "wait"
    /\ run[i].box # "live"
    /\ Goes(i, Concluded(run[i], "succeeded", run[i].box))
    /\ UNCHANGED <<nodes, tasks, reaping, identity, loop, specs>>

\* It asks in time.
WaitReturn(i) ==
    /\ run[i].pc = "wait"
    /\ run[i].box # "live"
    /\ Goes(i, Concluded(run[i], IF run[i].box = "zero" THEN "succeeded" ELSE "failed", run[i].box))
    /\ UNCHANGED <<nodes, tasks, reaping, identity, loop, specs>>

\* The call to Docker fails, before its answer begins or, which is ignored and
\* leaves StatusCode at 0, before it is complete: the container is left alone.
WaitError(i) ==
    /\ run[i].pc = "wait"
    /\ ~run[i].cancelled
    /\ \E s \in {"failed", "succeeded"} : Goes(i, Concluded(run[i], s, run[i].box))
    /\ UNCHANGED <<nodes, tasks, reaping, identity, loop, specs>>

\* The wait was cancelled.  Before the answer begins: the container is killed,
\* if Docker obliges.  While the answer is read, which is most of the time as
\* Docker begins it at once: as in WaitError, and the container is not killed.
WaitCancelled(i) ==
    /\ run[i].pc = "wait"
    /\ run[i].cancelled
    /\ \/ \E b \in {run[i].box, "none"} : Goes(i, Concluded(run[i], "failed", b))
       \/ Goes(i, Concluded(run[i], "succeeded", run[i].box))
    /\ UNCHANGED <<nodes, tasks, reaping, identity, loop, specs>>

\* finish takes the task out of the map of running tasks.
Finish(i) ==
    /\ run[i].pc = "finish"
    /\ Goes(i, [run[i] EXCEPT !.pc = "done"])
    /\ UNCHANGED <<nodes, tasks, reaping, identity, loop, specs>>

ForgetNothing(i) ==
    /\ run[i].pc = "done"
    /\ Goes(i, [run[i] EXCEPT !.pc = "forgotten"])
    /\ UNCHANGED <<nodes, tasks, reaping, identity, loop, specs>>
\* handleTaskDone drops the spec.
Forget(i) ==
    /\ run[i].pc = "done"
    /\ specs' = [specs EXCEPT ![run[i].node] = @ \ {run[i].task}]
    /\ Goes(i, [run[i] EXCEPT !.pc = "forgotten"])
    /\ UNCHANGED <<nodes, tasks, reaping, identity, loop>>

\* After the report the goroutine is over, unless Start failed.
AfterResult(r) == IF r.result = "unstarted" THEN [r EXCEPT !.pc = "cleanup"] ELSE Ended(r)

\* handleTaskDone reports the result.  A report whose answer is lost may be
\* repeated, by the retries of withLeaderRetry.
ReportResult(i) ==
    /\ run[i].pc = "report"
    /\ tasks' = Reported(run[i].task, run[i].node, run[i].epoch,
                         IF run[i].result = "succeeded" THEN "succeeded" ELSE "failed")
    /\ Goes(i, AfterResult(run[i])) \/ UNCHANGED run
    /\ UNCHANGED <<nodes, reaping, identity, loop, specs>>

\* The report is given up, and nobody makes it again.
ResultLost(i) ==
    /\ run[i].pc = "report"
    /\ Goes(i, AfterResult(run[i]))
    /\ UNCHANGED <<nodes, tasks, reaping, identity, loop, specs>>

\* startAssignedTask drops the spec once more after Start failed.
Cleanup(i) ==
    /\ run[i].pc = "cleanup"
    /\ specs' = [specs EXCEPT ![run[i].node] = @ \ {run[i].task}]
    /\ Goes(i, Ended(run[i]))
    /\ UNCHANGED <<nodes, tasks, reaping, identity, loop>>

-------------------------------------------------------------------------------
EnvironmentStep ==
    \/ \E t \in Tasks : \/ RetryDue(t) \/ KillTaskContainers(t) \/ ReapLost(t)
                        \/ \E n \in Nodes : Place(t, n)
    \/ \E n \in Nodes : MarkNodeDead(n)
    \/ \E i \in Runs, code \in {"zero", "nonzero"} : ContainerExit(i, code)

LoopStep(n) ==
    \/ Boot(n) \/ RegisterNode(n) \/ RegisterGiveUp(n) \/ SetIdentity(n)
    \/ Heartbeat(n) \/ StopAll(n) \/ ClearSpecs(n) \/ TakeAssignment(n)
    \/ \E t \in Tasks, e \in 0 .. MaxEpoch : CheckAssignment(n, t, e)
    \/ Crash(n) \/ Shutdown(n)

RunStep(i) ==
    \/ Identify(i) \/ Announce(i) \/ AnnounceLost(i) \/ Start(i) \/ Create(i)
    \/ WaitGone(i) \/ WaitReturn(i) \/ WaitError(i) \/ WaitCancelled(i)
    \/ Finish(i) \/ Forget(i) \/ ReportResult(i) \/ ResultLost(i) \/ Cleanup(i)

Next ==
    \/ EnvironmentStep
    \/ \E n \in Nodes : LoopStep(n)
    \/ \E i \in Runs : RunStep(i)

Spec == Init /\ [][Next]_vars

\* Goroutines keep running while their process does, tasks end, a container
\* that was cancelled is killed or given up, and of the calls that are tried
\* again and again some are answered.  Nothing forces a failure, a crash, a
\* death, a placement or the start of a process.
Fairness ==
    /\ \A n \in Nodes :
          /\ SF_loop(RegisterNode(n))
          /\ SF_vars(\E i \in Runs : run[i].node = n /\ Announce(i))
          /\ WF_vars(\/ SetIdentity(n) \/ Heartbeat(n) \/ StopAll(n) \/ ClearSpecs(n) \/ TakeAssignment(n)
                     \/ \E t \in Tasks, e \in 0 .. MaxEpoch : CheckAssignment(n, t, e))
    /\ \A i \in Runs :
          /\ WF_vars(\E code \in {"zero", "nonzero"} : ContainerExit(i, code))
          /\ WF_vars(\/ Identify(i) \/ Start(i) \/ Create(i)
                     \/ WaitGone(i) \/ WaitReturn(i) \/ WaitCancelled(i)
                     \/ Finish(i) \/ Forget(i) \/ Cleanup(i))
          /\ WF_run(ReportResult(i) \/ ResultLost(i))

FairSpec == Spec /\ Fairness

-------------------------------------------------------------------------------
(* Properties *)

\* A slot with a goroutine in it, and one with only a container.
BusyRun ==
    [pc : {"new", "announce", "start", "create", "wait", "finish", "done", "forgotten", "report", "cleanup"},
     node : Nodes, task : Tasks, assigned : Nat, epoch : Nat, cancelled : BOOLEAN,
     box : {"none", "live", "zero", "nonzero"}, result : {"none", "unstarted", "succeeded", "failed"}]
OrphanRun ==
    [pc : {"orphan"}, node : {NoNode}, task : Tasks, assigned : {0}, epoch : {0},
     cancelled : {FALSE}, box : {"live"}, result : {"none"}]
RunState == {FreeRun} \cup BusyRun \cup OrphanRun

LoopState ==
    [pc : {"down", "boot", "register", "registered", "beating", "invalid", "stopped"},
     epoch : Nat, todo : SUBSET (Tasks \X Nat), cur : {NoTaskId}, ending : BOOLEAN] \cup
    [pc : {"checked"}, epoch : Nat, todo : SUBSET (Tasks \X Nat), cur : Tasks, ending : BOOLEAN]

\* The rows, the maps and the goroutines' records have their shape; a run
\* without a goroutine is a live container that no process knows of.
TypeOK ==
    /\ nodes \in [Nodes -> NodeRow]
    /\ tasks \in [Tasks -> TaskRow]
    /\ reaping \in SUBSET Tasks
    /\ identity \in [Nodes -> Nat]
    /\ loop \in [Nodes -> LoopState]
    /\ specs \in [Nodes -> SUBSET Tasks]
    /\ run \in [Runs -> RunState]

\* One process never runs a task twice at once: of all the goroutines that an
\* assignment, its repetition and the assignments after it gave rise to, at
\* most one is past Start's check and not yet through finish.
OneRunPerTask ==
    \A i, j \in Runs :
        /\ run[i].pc \in Tracking
        /\ run[j].pc \in Tracking
        /\ run[i].node = run[j].node
        /\ run[i].task = run[j].task
        => i = j

\* A spec makes handleAssignments pass over a task, so it is only ever there
\* while a goroutine of the process is about to drop it.
Dropping == {"new", "announce", "start", "create", "wait", "finish", "done"}
SpecHasGoroutine ==
    \A n \in Nodes : \A t \in specs[n] :
        \E i \in Runs : run[i].node = n /\ run[i].task = t /\ run[i].pc \in Dropping

\* The tables as Lifecycle sees them.
Abs == INSTANCE Lifecycle WITH
    life <- [t \in Tasks |-> Life(tasks[t])],
    fence <- [n \in Nodes |-> NextEpoch(nodes[n])]

\* Whatever is lost, repeated or reported late, the tables go through the steps
\* of Lifecycle, as they do under Control: what this module leaves out of the
\* control plane makes no difference to what a task goes through.
ImplementsLifecycle == Abs!Spec

\* The process has an identity and has not been told to stop.
InService(n) == loop[n].pc \notin {"down", "boot"} /\ ~loop[n].ending

\* A task that is assigned to a worker in service, under its epoch, does not
\* stay scheduled for ever: what is left of former runs of it (a goroutine
\* that still waits, a spec, a second goroutine for the same assignment) gets
\* out of the way in the end.
ScheduledIsStarted ==
    \A t \in Tasks, n \in Nodes :
        []<>~(/\ tasks[t].status = "scheduled"
              /\ tasks[t].node = n
              /\ tasks[t].epoch = identity[n]
              /\ InService(n))

\* A worker in service whose epoch was taken from it finds out: while it is
\* stale it gets to registerWithRetry again and again, whatever is in its maps,
\* until a registration gives it the current epoch.
StaleWorkerRegisters ==
    \A n \in Nodes :
        []<>(InService(n) /\ identity[n] # nodes[n].epoch => loop[n].pc = "register")

\* "Reports that do not match the task's current assignment return
\* FailedPrecondition": docs/design-decisions.md on fencing.  A result that
\* changes a row was produced by a run of the row's current assignment.
ResultsOfCurrentAssignment ==
    [][\A i \in Runs :
          run[i].pc = "report" /\ run'[i] # run[i] /\ tasks'[run[i].task] # tasks[run[i].task]
          => run[i].assigned = tasks[run[i].task].epoch]_vars

\* "running --> succeeded: exit code 0": docs/architecture.md.  A task becomes
\* succeeded through a run whose container exited with code 0.
SucceededMeansExitZero ==
    [][\A t \in Tasks :
          tasks[t].status # "succeeded" /\ tasks'[t].status = "succeeded"
          => \E i \in Runs : run[i].task = t /\ run[i].pc = "report" /\ run[i].box = "zero"]_vars
===============================================================================
