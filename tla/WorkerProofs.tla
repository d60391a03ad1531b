----------------------------- MODULE WorkerProofs -----------------------------
(***************************************************************************)
(* Proofs about module Worker: its types, and the two invariants of the    *)
(* maps that the heartbeat loop and the task goroutines share, for every   *)
(* set of nodes, tasks and slots.                                          *)
(***************************************************************************)
EXTENDS Worker, StoreProofs

USE NoNodeAssumption, WorkerAssumption

\* The invariant that is inductive.
Inv == TypeOK /\ OneRunPerTask /\ SpecHasGoroutine

-------------------------------------------------------------------------------
(* Slots *)

\* A slot that has a goroutine in it is not free and holds no mere container.
LEMMA BusyFacts ==
    ASSUME NEW r \in RunState
    PROVE  /\ r.pc \notin {"free", "orphan"} => r \in BusyRun
           /\ r \in BusyRun => r.pc \notin {"free", "orphan"}
           /\ r.box = "live" => r.task \in Tasks
           /\ r.node \in Nodes => r \in BusyRun
<1>1. CASE r = FreeRun
  <2>1. r.pc = "free" /\ r.box = "none" /\ r.node = NoNode
    BY <1>1 DEF FreeRun
  <2> QED
    BY <2>1 DEF BusyRun
<1>2. CASE r \in BusyRun
  BY <1>2 DEF BusyRun
<1>3. CASE r \in OrphanRun
  <2>1. r.pc = "orphan" /\ r.task \in Tasks /\ r.node = NoNode
    BY <1>3 DEF OrphanRun
  <2> QED
    BY <2>1 DEF BusyRun
<1> QED
  BY <1>1, <1>2, <1>3 DEF RunState

LEMMA FreeRunFacts ==
    /\ FreeRun \in RunState
    /\ FreeRun.pc = "free" /\ FreeRun.node = NoNode
BY DEF RunState, FreeRun

\* What a goroutine leaves is nothing or its container, and no process has it.
LEMMA EndedFacts ==
    ASSUME NEW r, r.box = "live" => r.task \in Tasks
    PROVE  /\ Ended(r) \in RunState
           /\ Ended(r).pc \notin Dropping /\ Ended(r).pc \notin Tracking
           /\ Ended(r).node = NoNode
BY DEF Ended, RunState, FreeRun, OrphanRun, Dropping, Tracking

\* A container's end changes nothing of a goroutine but its box.
LEMMA ExitedFacts ==
    ASSUME NEW r \in RunState, r.box = "live", NEW code \in {"zero", "nonzero"}
    PROVE  /\ Exited(r, code) \in RunState
           /\ r.pc \in Dropping \/ Exited(r, code).pc \in Dropping =>
                /\ Exited(r, code).pc = r.pc
                /\ Exited(r, code).node = r.node /\ Exited(r, code).task = r.task
<1>1. CASE r.pc = "orphan"
  <2>1. Exited(r, code) = FreeRun
    BY <1>1 DEF Exited
  <2> QED
    BY <1>1, <2>1, FreeRunFacts DEF Dropping
<1>2. CASE r.pc # "orphan"
  <2>1. r \in BusyRun
    <3>1. r # FreeRun
      BY DEF FreeRun
    <3>2. r \notin OrphanRun
      BY <1>2 DEF OrphanRun
    <3> QED
      BY <3>1, <3>2 DEF RunState
  <2>2. PICK b \in {"none", "zero", "nonzero"} : Exited(r, code) = [r EXCEPT !.box = b]
    BY <1>2 DEF Exited
  <2>3. [r EXCEPT !.box = b] \in BusyRun
    BY <2>1 DEF BusyRun
  <2> QED
    BY <2>1, <2>2, <2>3 DEF RunState, BusyRun
<1> QED
  BY <1>1, <1>2

\* A goroutine with a result for finish keeps its node and task.
LEMMA ConcludedFacts ==
    ASSUME NEW r \in BusyRun, NEW s \in {"unstarted", "succeeded", "failed"},
           NEW b \in {"none", "live", "zero", "nonzero"}
    PROVE  /\ Concluded(r, s, b) \in BusyRun
           /\ Concluded(r, s, b).pc = "finish"
           /\ Concluded(r, s, b).node = r.node /\ Concluded(r, s, b).task = r.task
<1>1. PICK c \in {"none", "live", "zero", "nonzero"} :
         Concluded(r, s, b) = [r EXCEPT !.pc = "finish", !.result = s, !.cancelled = FALSE, !.box = c]
  BY DEF Concluded
<1> QED
  BY <1>1 DEF BusyRun

\* The goroutines that are past Start's check still have their spec to drop.
LEMMA TrackingDrops == Tracking \subseteq Dropping
BY DEF Tracking, Dropping

-------------------------------------------------------------------------------
(* The steps of a task goroutine *)

\* What the goroutine in slot i may become: it stays with its node and task, it
\* comes into the map of running tasks only if the task is not there, and it
\* goes without dropping its spec only if the task is there.
MayBecome(i, r) ==
    /\ r \in RunState
    /\ r.pc \in Dropping =>
          run[i].pc \in Dropping /\ r.node = run[i].node /\ r.task = run[i].task
    /\ r.pc \in Tracking =>
          run[i].pc \in Tracking \/ run[i].task \notin Running(run[i].node)
    /\ run[i].pc \in Dropping /\ r.pc \notin Dropping =>
          \/ run[i].pc = "start" /\ run[i].task \in Running(run[i].node)
          \/ specs' = [specs EXCEPT ![run[i].node] = @ \ {run[i].task}]

\* What a goroutine does to the specs: nothing, or it drops its own.
DropsOwn(i) ==
    \/ specs' = specs
    \/ run[i].node \in Nodes /\ specs' = [specs EXCEPT ![run[i].node] = @ \ {run[i].task}]

\* A report leaves the rows of the tasks table rows.
LEMMA ReportedType ==
    ASSUME TypeOK, NEW t \in Tasks, NEW n, NEW e, NEW s \in {"running", "succeeded", "failed"}
    PROVE  Reported(t, n, e, s) \in [Tasks -> TaskRow]
<1>1. CASE Fence(tasks[t], n, e) /\ Active(tasks[t])
  <2>1. tasks[t] \in TaskRow
    BY DEF TypeOK
  <2>2. AfterReport(tasks[t], s) \in TaskRow
    BY <1>1, <2>1, AfterReportFacts
  <2>3. Reported(t, n, e, s) = [tasks EXCEPT ![t] = AfterReport(@, s)]
    BY <1>1 DEF Reported
  <2> QED
    BY <2>2, <2>3 DEF TypeOK
<1> QED
  BY <1>1 DEF Reported, TypeOK

\* Every step of a goroutine is of that kind and leaves the tables their types.
LEMMA RunStepShape ==
    ASSUME TypeOK, NEW i \in Runs, RunStep(i)
    PROVE  /\ \E r : Goes(i, r) /\ MayBecome(i, r)
           /\ DropsOwn(i)
           /\ tasks' \in [Tasks -> TaskRow]
           /\ UNCHANGED <<nodes, reaping, identity, loop>>
<1> DEFINE p == run[i]
<1>0. /\ p \in RunState
      /\ p.pc \notin {"free", "orphan"}
      /\ tasks \in [Tasks -> TaskRow]
      /\ identity \in [Nodes -> Nat]
  BY DEF TypeOK, RunStep, Identify, Announce, AnnounceLost, Start, Create, WaitGone, WaitReturn,
         WaitError, WaitCancelled, Finish, Forget, ReportResult, ResultLost, Cleanup
<1>1. p \in BusyRun /\ p.node \in Nodes /\ p.task \in Tasks
  BY <1>0, BusyFacts DEF BusyRun
<1>2. CASE Identify(i)
  <2>1. identity[p.node] \in Nat
    BY <1>0, <1>1
  <2>2. CASE p.pc = "new" /\ Goes(i, [p EXCEPT !.pc = "announce", !.epoch = identity[p.node]])
    <3> DEFINE r == [p EXCEPT !.pc = "announce", !.epoch = identity[p.node]]
    <3>1. r \in BusyRun /\ r.pc = "announce" /\ r.node = p.node /\ r.task = p.task
      BY <1>1, <2>1 DEF BusyRun
    <3>2. MayBecome(i, r)
      BY <2>2, <3>1 DEF MayBecome, RunState, Dropping, Tracking
    <3> QED
      BY <1>0, <1>2, <2>2, <3>2 DEF Identify, DropsOwn
  <2>3. CASE p.pc = "forgotten" /\ Goes(i, [p EXCEPT !.pc = "report", !.epoch = identity[p.node]])
    <3> DEFINE r == [p EXCEPT !.pc = "report", !.epoch = identity[p.node]]
    <3>1. r \in BusyRun /\ r.pc = "report"
      BY <1>1, <2>1 DEF BusyRun
    <3>2. MayBecome(i, r)
      BY <2>3, <3>1 DEF MayBecome, RunState, Dropping, Tracking
    <3> QED
      BY <1>0, <1>2, <2>3, <3>2 DEF Identify, DropsOwn
  <2> QED
    BY <1>2, <2>2, <2>3 DEF Identify
<1>3. CASE Announce(i) \/ AnnounceLost(i)
  <2> DEFINE r == [p EXCEPT !.pc = "start", !.epoch = 0]
  <2>1. r \in BusyRun /\ r.pc = "start" /\ r.node = p.node /\ r.task = p.task
    BY <1>1 DEF BusyRun
  <2>2. p.pc = "announce" /\ Goes(i, r)
    BY <1>3 DEF Announce, AnnounceLost
  <2>3. MayBecome(i, r)
    BY <2>1, <2>2 DEF MayBecome, RunState, Dropping, Tracking
  <2>4. tasks' \in [Tasks -> TaskRow]
    BY <1>0, <1>1, <1>3, ReportedType DEF Announce, AnnounceLost
  <2> QED
    BY <1>3, <2>2, <2>3, <2>4 DEF Announce, AnnounceLost, DropsOwn
<1>4. CASE Start(i)
  <2>1. CASE p.task \in Running(p.node)
    <3>1. Goes(i, FreeRun)
      BY <1>4, <2>1 DEF Start
    <3>2. MayBecome(i, FreeRun)
      BY <1>4, <2>1, FreeRunFacts DEF MayBecome, Start, Dropping, Tracking
    <3> QED
      BY <1>0, <1>4, <3>1, <3>2 DEF Start, DropsOwn
  <2>2. CASE p.task \notin Running(p.node)
    <3> DEFINE r == [p EXCEPT !.pc = "create"]
    <3>1. r \in BusyRun /\ r.pc = "create" /\ r.node = p.node /\ r.task = p.task
      BY <1>1 DEF BusyRun
    <3>2. p.pc = "start" /\ Goes(i, r)
      BY <1>4, <2>2 DEF Start
    <3>3. MayBecome(i, r)
      BY <2>2, <3>1, <3>2 DEF MayBecome, RunState, Dropping
    <3> QED
      BY <1>0, <1>4, <3>2, <3>3 DEF Start, DropsOwn
  <2> QED
    BY <2>1, <2>2
<1>5. CASE Create(i) \/ WaitGone(i) \/ WaitReturn(i) \/ WaitError(i) \/ WaitCancelled(i)
  <2>1. PICK r \in BusyRun : /\ Goes(i, r) /\ p.pc \in Tracking /\ r.pc \in Tracking
                             /\ r.node = p.node /\ r.task = p.task
    <3>1. CASE Create(i)
      <4>1. CASE Goes(i, [p EXCEPT !.pc = "wait", !.box = "live"])
        <5> DEFINE q == [p EXCEPT !.pc = "wait", !.box = "live"]
        <5>1. q \in BusyRun /\ q.pc = "wait" /\ q.node = p.node /\ q.task = p.task
          BY <1>1 DEF BusyRun
        <5> QED
          BY <3>1, <4>1, <5>1 DEF Create, Tracking
      <4>2. ASSUME NEW b \in {"none", "live"}, Goes(i, Concluded(p, "unstarted", b))
            PROVE  \E r \in BusyRun : /\ Goes(i, r) /\ p.pc \in Tracking /\ r.pc \in Tracking
                                      /\ r.node = p.node /\ r.task = p.task
        BY <1>1, <3>1, <4>2, ConcludedFacts DEF Create, Tracking
      <4> QED
        BY <3>1, <4>1, <4>2 DEF Create
    <3>2. CASE WaitGone(i) \/ WaitReturn(i) \/ WaitError(i) \/ WaitCancelled(i)
      <4>0. p.pc = "wait" /\ p.box \in {"none", "live", "zero", "nonzero"}
        BY <1>1, <3>2 DEF WaitGone, WaitReturn, WaitError, WaitCancelled, BusyRun
      <4>1. PICK s \in {"succeeded", "failed"}, b \in {"none", "live", "zero", "nonzero"} :
                Goes(i, Concluded(p, s, b))
        BY <3>2, <4>0 DEF WaitGone, WaitReturn, WaitError, WaitCancelled
      <4> QED
        BY <1>1, <4>0, <4>1, ConcludedFacts DEF Tracking
    <3> QED
      BY <1>5, <3>1, <3>2
  <2>2. MayBecome(i, r)
    BY <2>1, TrackingDrops DEF MayBecome, RunState
  <2> QED
    BY <1>0, <1>5, <2>1, <2>2 DEF Create, WaitGone, WaitReturn, WaitError, WaitCancelled, DropsOwn
<1>6. CASE Finish(i)
  <2> DEFINE r == [p EXCEPT !.pc = "done"]
  <2>1. r \in BusyRun /\ r.pc = "done" /\ r.node = p.node /\ r.task = p.task
    BY <1>1 DEF BusyRun
  <2>2. MayBecome(i, r)
    BY <1>6, <2>1 DEF MayBecome, Finish, RunState, Dropping, Tracking
  <2> QED
    BY <1>0, <1>6, <2>2 DEF Finish, DropsOwn
<1>7. CASE Forget(i)
  <2> DEFINE r == [p EXCEPT !.pc = "forgotten"]
  <2>1. r \in BusyRun /\ r.pc = "forgotten"
    BY <1>1 DEF BusyRun
  <2>2. MayBecome(i, r)
    BY <1>7, <2>1 DEF MayBecome, Forget, RunState, Dropping, Tracking
  <2> QED
    BY <1>0, <1>1, <1>7, <2>2 DEF Forget, DropsOwn
<1>8. CASE ReportResult(i) \/ ResultLost(i)
  <2>1. p.pc = "report"
    BY <1>8 DEF ReportResult, ResultLost
  <2>2. tasks' \in [Tasks -> TaskRow]
    <3>1. CASE ReportResult(i)
      <4> DEFINE s == IF p.result = "succeeded" THEN "succeeded" ELSE "failed"
      <4>1. s \in {"running", "succeeded", "failed"}
        OBVIOUS
      <4>2. tasks' = Reported(p.task, p.node, p.epoch, s)
        BY <3>1 DEF ReportResult
      <4> HIDE DEF s
      <4> QED
        BY <1>1, <4>1, <4>2, ReportedType
    <3>2. CASE ResultLost(i)
      BY <1>0, <3>2 DEF ResultLost
    <3> QED
      BY <1>8, <3>1, <3>2
  <2>3. PICK r : Goes(i, r) /\ (r = p \/ r = AfterResult(p))
    <3>1. run = [run EXCEPT ![i] = run[i]]
      BY DEF TypeOK
    <3> QED
      BY <1>8, <3>1 DEF ReportResult, ResultLost, Goes
  <2>4. r \in RunState /\ r.pc \notin Dropping
    <3>1. p.pc \notin Dropping
      BY <2>1 DEF Dropping
    <3>2. CASE p.result = "unstarted"
      <4>1. AfterResult(p) = [p EXCEPT !.pc = "cleanup"]
        BY <3>2 DEF AfterResult
      <4>2. AfterResult(p) \in BusyRun /\ AfterResult(p).pc = "cleanup"
        BY <1>1, <4>1 DEF BusyRun
      <4> QED
        BY <1>0, <2>3, <3>1, <4>2 DEF RunState, Dropping
    <3>3. CASE p.result # "unstarted"
      BY <1>0, <1>1, <2>3, <3>1, <3>3, EndedFacts DEF AfterResult
    <3> QED
      BY <3>2, <3>3
  <2>5. MayBecome(i, r)
    BY <2>1, <2>4, TrackingDrops DEF MayBecome, Dropping
  <2> QED
    BY <1>8, <2>2, <2>3, <2>5 DEF ReportResult, ResultLost, DropsOwn
<1>9. CASE Cleanup(i)
  <2>1. p.pc = "cleanup" /\ Goes(i, Ended(p))
    BY <1>9 DEF Cleanup
  <2>2. MayBecome(i, Ended(p))
    BY <1>1, <2>1, EndedFacts DEF MayBecome, Dropping
  <2> QED
    BY <1>0, <1>1, <1>9, <2>1, <2>2 DEF Cleanup, DropsOwn
<1> QED
  BY <1>2, <1>3, <1>4, <1>5, <1>6, <1>7, <1>8, <1>9 DEF RunStep

-------------------------------------------------------------------------------
(* The invariants of the maps *)

\* They are kept when the goroutines that have yet to drop their specs stay
\* what they are, and no spec is added.
LEMMA SlotsKept ==
    ASSUME OneRunPerTask, SpecHasGoroutine,
           \A j \in Runs : run[j].pc \in Dropping \/ run'[j].pc \in Dropping =>
               run'[j].pc = run[j].pc /\ run'[j].node = run[j].node /\ run'[j].task = run[j].task,
           \A n \in Nodes : specs'[n] \subseteq specs[n]
    PROVE  OneRunPerTask' /\ SpecHasGoroutine'
<1>1. OneRunPerTask'
  BY TrackingDrops DEF OneRunPerTask
<1>2. SpecHasGoroutine'
  BY DEF SpecHasGoroutine
<1> QED
  BY <1>1, <1>2

\* StopAll cancels, and leaves everything else about the slots.
LEMMA CancelledFacts ==
    ASSUME TypeOK, NEW n \in Nodes, run' = Cancelled(n)
    PROVE  /\ run' \in [Runs -> RunState]
           /\ \A j \in Runs : /\ run'[j].pc = run[j].pc
                             /\ run'[j].node = run[j].node /\ run'[j].task = run[j].task
<1>1. SUFFICES ASSUME NEW j \in Runs
               PROVE  /\ run'[j] \in RunState
                      /\ run'[j].pc = run[j].pc
                      /\ run'[j].node = run[j].node /\ run'[j].task = run[j].task
  BY DEF Cancelled
<1>2. run[j] \in RunState
  BY DEF TypeOK
<1>3. CASE run[j].node = n /\ run[j].pc \in {"create", "wait"}
  <2>1. run[j] \in BusyRun
    BY <1>2, <1>3, BusyFacts DEF Tracking
  <2>2. run'[j] = [run[j] EXCEPT !.cancelled = TRUE]
    BY <1>3 DEF Cancelled
  <2> QED
    BY <2>1, <2>2 DEF RunState, BusyRun
<1>4. CASE ~(run[j].node = n /\ run[j].pc \in {"create", "wait"})
  BY <1>2, <1>4 DEF Cancelled
<1> QED
  BY <1>3, <1>4

\* A step of a goroutine.
LEMMA RunStepInv ==
    ASSUME Inv, NEW i \in Runs, RunStep(i)
    PROVE  Inv'
<1>1. PICK r : Goes(i, r) /\ MayBecome(i, r)
  BY RunStepShape DEF Inv
<1>2. /\ DropsOwn(i)
      /\ tasks' \in [Tasks -> TaskRow]
      /\ UNCHANGED <<nodes, reaping, identity, loop>>
  BY RunStepShape DEF Inv
<1>3. /\ run \in [Runs -> RunState]
      /\ specs \in [Nodes -> SUBSET Tasks]
  BY DEF Inv, TypeOK
<1>4. /\ run'[i] = r
      /\ \A j \in Runs : j # i => run'[j] = run[j]
  BY <1>1, <1>3 DEF Goes
<1>5. TypeOK'
  <2>1. run' \in [Runs -> RunState]
    BY <1>1, <1>3 DEF Goes, MayBecome
  <2>2. specs' \in [Nodes -> SUBSET Tasks]
    BY <1>2, <1>3 DEF DropsOwn
  <2> QED
    BY <1>2, <2>1, <2>2 DEF TypeOK, Inv
<1>6. OneRunPerTask'
  <2>1. SUFFICES ASSUME NEW j \in Runs, j # i, r.pc \in Tracking, run[j].pc \in Tracking,
                        r.node = run[j].node, r.task = run[j].task
                 PROVE  FALSE
    BY <1>4 DEF OneRunPerTask, Inv
  <2>2. r.node = run[i].node /\ r.task = run[i].task
    BY <1>1, <2>1, TrackingDrops DEF MayBecome
  <2>3. run[i].task \in Running(run[i].node)
    BY <2>1, <2>2 DEF Running
  <2>4. run[i].pc \in Tracking
    BY <1>1, <2>1, <2>3 DEF MayBecome
  <2> QED
    BY <2>1, <2>2, <2>4 DEF OneRunPerTask, Inv
<1>7. SpecHasGoroutine'
  <2>1. SUFFICES ASSUME NEW n \in Nodes, NEW t \in specs'[n]
                 PROVE  \E j \in Runs : run'[j].node = n /\ run'[j].task = t /\ run'[j].pc \in Dropping
    BY DEF SpecHasGoroutine
  <2>2. t \in specs[n]
    BY <1>2, <1>3, <2>1 DEF DropsOwn
  <2>3. PICK j \in Runs : run[j].node = n /\ run[j].task = t /\ run[j].pc \in Dropping
    BY <2>2 DEF SpecHasGoroutine, Inv
  <2>4. CASE j # i
    BY <1>4, <2>3, <2>4
  <2>5. CASE j = i /\ r.pc \in Dropping
    BY <1>1, <1>4, <2>3, <2>5 DEF MayBecome
  <2>6. CASE j = i /\ r.pc \notin Dropping
    <3>1. specs' # [specs EXCEPT ![run[i].node] = @ \ {run[i].task}]
      BY <1>3, <2>1, <2>3, <2>6
    <3>2. run[i].pc = "start" /\ t \in Running(n)
      BY <1>1, <2>3, <2>6, <3>1 DEF MayBecome
    <3>3. PICK k \in Runs : run[k].node = n /\ run[k].pc \in Tracking /\ run[k].task = t
      BY <3>2 DEF Running
    <3>4. k # i
      BY <3>2, <3>3 DEF Tracking
    <3> QED
      BY <1>4, <3>3, <3>4, TrackingDrops
  <2> QED
    BY <2>4, <2>5, <2>6
<1> QED
  BY <1>5, <1>6, <1>7 DEF Inv

\* A step of the control plane or of the Docker daemon.
LEMMA EnvironmentStepInv ==
    ASSUME Inv, EnvironmentStep
    PROVE  Inv'
<1>0. /\ nodes \in [Nodes -> NodeRow]
      /\ tasks \in [Tasks -> TaskRow]
      /\ run \in [Runs -> RunState]
      /\ reaping \in SUBSET Tasks
  BY DEF Inv, TypeOK
<1>1. ASSUME NEW t \in Tasks, NEW n \in Nodes, Place(t, n)
      PROVE  Inv'
  <2>1. tasks[t] \in TaskRow /\ nodes[n].epoch \in Nat
    BY <1>0 DEF NodeRow
  <2>2. Scheduled(tasks[t], n, nodes[n].epoch) \in TaskRow
    BY <2>1, ScheduledFacts
  <2>3. tasks' \in [Tasks -> TaskRow]
    BY <1>0, <1>1, <2>2 DEF Place
  <2> QED
    BY <1>1, <2>3, SlotsKept DEF Place, Inv, TypeOK
<1>2. ASSUME NEW t \in Tasks, RetryDue(t)
      PROVE  Inv'
  <2>1. tasks' \in [Tasks -> TaskRow]
    BY <1>0, <1>2 DEF RetryDue, TaskRow
  <2> QED
    BY <1>2, <2>1, SlotsKept DEF RetryDue, Inv, TypeOK
<1>3. ASSUME NEW t \in Tasks, KillTaskContainers(t)
      PROVE  Inv'
  <2>1. \A j \in Runs :
           /\ run'[j] \in RunState
           /\ run[j].pc \in Dropping \/ run'[j].pc \in Dropping =>
                 run'[j].pc = run[j].pc /\ run'[j].node = run[j].node /\ run'[j].task = run[j].task
    <3>1. SUFFICES ASSUME NEW j \in Runs
                   PROVE  /\ run'[j] \in RunState
                          /\ run[j].pc \in Dropping \/ run'[j].pc \in Dropping =>
                                run'[j].pc = run[j].pc /\ run'[j].node = run[j].node /\ run'[j].task = run[j].task
      OBVIOUS
    <3>2. run[j] \in RunState
      BY <1>0
    <3>3. CASE run[j].task = t /\ run[j].box = "live"
      <4>1. run'[j] = Exited(run[j], "nonzero")
        BY <1>3, <3>3 DEF KillTaskContainers
      <4> QED
        BY <3>2, <3>3, <4>1, ExitedFacts
    <3>4. CASE ~(run[j].task = t /\ run[j].box = "live")
      BY <1>3, <3>2, <3>4 DEF KillTaskContainers
    <3> QED
      BY <3>3, <3>4
  <2>2. TypeOK'
    BY <1>3, <2>1 DEF KillTaskContainers, Inv, TypeOK
  <2>3. \A n \in Nodes : specs'[n] \subseteq specs[n]
    BY <1>3 DEF KillTaskContainers
  <2> QED
    BY <2>1, <2>2, <2>3, SlotsKept DEF Inv
<1>4. ASSUME NEW t \in Tasks, ReapLost(t)
      PROVE  Inv'
  BY <1>4, SlotsKept DEF ReapLost, Inv, TypeOK
<1>5. ASSUME NEW n \in Nodes, MarkNodeDead(n)
      PROVE  Inv'
  <2>1. nodes' \in [Nodes -> NodeRow]
    BY <1>0, <1>5, NodeRowTypes DEF MarkNodeDead
  <2>2. tasks' \in [Tasks -> TaskRow]
    BY <1>0, <1>5, OrphanedFacts DEF MarkNodeDead
  <2>3. reaping' \in SUBSET Tasks
    BY <1>0, <1>5 DEF MarkNodeDead
  <2> QED
    BY <1>5, <2>1, <2>2, <2>3, SlotsKept DEF MarkNodeDead, Inv, TypeOK
<1>6. ASSUME NEW i \in Runs, NEW code \in {"zero", "nonzero"}, ContainerExit(i, code)
      PROVE  Inv'
  <2>1. run[i] \in RunState /\ run[i].box = "live"
    BY <1>0, <1>6 DEF ContainerExit
  <2>2. /\ run'[i] = Exited(run[i], code)
        /\ \A j \in Runs : j # i => run'[j] = run[j]
        /\ run' = [run EXCEPT ![i] = Exited(run[i], code)]
    BY <1>0, <1>6 DEF ContainerExit
  <2>3. run' \in [Runs -> RunState]
    BY <1>0, <2>1, <2>2, ExitedFacts
  <2>4. \A j \in Runs : run[j].pc \in Dropping \/ run'[j].pc \in Dropping =>
           run'[j].pc = run[j].pc /\ run'[j].node = run[j].node /\ run'[j].task = run[j].task
    BY <2>1, <2>2, ExitedFacts
  <2>5. TypeOK'
    BY <1>6, <2>3 DEF ContainerExit, Inv, TypeOK
  <2>6. \A n \in Nodes : specs'[n] \subseteq specs[n]
    BY <1>6 DEF ContainerExit
  <2> QED
    BY <2>4, <2>5, <2>6, SlotsKept DEF Inv
<1> QED
  BY <1>1, <1>2, <1>3, <1>4, <1>5, <1>6 DEF EnvironmentStep

-------------------------------------------------------------------------------
(* The steps of the worker process *)

LEMMA LoopFields ==
    ASSUME NEW l \in LoopState
    PROVE  /\ l.epoch \in Nat /\ l.todo \in SUBSET (Tasks \X Nat) /\ l.ending \in BOOLEAN
           /\ l.pc = "checked" => l.cur \in Tasks
           /\ l.pc # "checked" => l.cur = NoTaskId
BY DEF LoopState

\* A state of the loop is known by its fields.
LEMMA LoopUpdates ==
    ASSUME NEW l \in LoopState
    PROVE  /\ LoopDown \in LoopState
           /\ [l EXCEPT !.ending = TRUE] \in LoopState
           /\ \A td \in SUBSET (Tasks \X Nat) : [l EXCEPT !.todo = td] \in LoopState
           /\ l.pc # "checked" =>
                /\ \A q \in {"down", "boot", "register", "registered", "beating", "invalid", "stopped"} :
                      /\ [l EXCEPT !.pc = q] \in LoopState
                      /\ \A e \in Nat : [l EXCEPT !.pc = q, !.epoch = e] \in LoopState
                /\ \A td \in SUBSET (Tasks \X Nat), t \in Tasks :
                      [l EXCEPT !.todo = td, !.pc = "checked", !.cur = t] \in LoopState
           /\ [l EXCEPT !.pc = "beating", !.cur = NoTaskId] \in LoopState
<1>1. LoopDown \in LoopState
  BY DEF LoopDown, LoopState
<1>2. [l EXCEPT !.ending = TRUE] \in LoopState
  BY DEF LoopState
<1>3. ASSUME NEW td \in SUBSET (Tasks \X Nat)
      PROVE  [l EXCEPT !.todo = td] \in LoopState
  BY DEF LoopState
<1>4. ASSUME l.pc # "checked",
             NEW q \in {"down", "boot", "register", "registered", "beating", "invalid", "stopped"}
      PROVE  /\ [l EXCEPT !.pc = q] \in LoopState
             /\ \A e \in Nat : [l EXCEPT !.pc = q, !.epoch = e] \in LoopState
  BY <1>4 DEF LoopState
<1>5. ASSUME l.pc # "checked", NEW td \in SUBSET (Tasks \X Nat), NEW t \in Tasks
      PROVE  [l EXCEPT !.todo = td, !.pc = "checked", !.cur = t] \in LoopState
  BY <1>5 DEF LoopState
<1>6. [l EXCEPT !.pc = "beating", !.cur = NoTaskId] \in LoopState
  BY DEF LoopState
<1> QED
  BY <1>1, <1>2, <1>3, <1>4, <1>5, <1>6

\* The steps that start no goroutine and end none.
LEMMA QuietLoopInv ==
    ASSUME Inv, NEW n \in Nodes,
           \/ Boot(n) \/ RegisterNode(n) \/ RegisterGiveUp(n) \/ SetIdentity(n)
           \/ Heartbeat(n) \/ StopAll(n) \/ ClearSpecs(n) \/ Shutdown(n)
           \/ \E t \in Tasks, e \in 0 .. MaxEpoch : CheckAssignment(n, t, e)
    PROVE  Inv'
<1>0. /\ nodes \in [Nodes -> NodeRow]
      /\ tasks \in [Tasks -> TaskRow]
      /\ identity \in [Nodes -> Nat]
      /\ loop \in [Nodes -> LoopState]
      /\ specs \in [Nodes -> SUBSET Tasks]
      /\ loop[n] \in LoopState
  BY DEF Inv, TypeOK
<1>1. CASE Boot(n)
  <2>1. loop' \in [Nodes -> LoopState]
    BY <1>0, <1>1, LoopUpdates DEF Boot
  <2> QED
    BY <1>1, <2>1, SlotsKept DEF Boot, Inv, TypeOK
<1>2. CASE RegisterNode(n)
  <2>1. Registered(nodes[n], 0) \in NodeRow
    BY <1>0, NodeRowTypes
  <2>2. nodes' \in [Nodes -> NodeRow] /\ nodes'[n].epoch \in Nat
    BY <1>0, <1>2, <2>1 DEF RegisterNode, NodeRow
  <2>3. loop' \in [Nodes -> LoopState]
    <3>1. [loop[n] EXCEPT !.pc = "registered", !.epoch = nodes'[n].epoch] \in LoopState
      BY <1>0, <1>2, <2>2, LoopUpdates DEF RegisterNode
    <3> QED
      BY <1>0, <1>2, <3>1 DEF RegisterNode
  <2> QED
    BY <1>2, <2>2, <2>3, SlotsKept DEF RegisterNode, Inv, TypeOK
<1>3. CASE RegisterGiveUp(n)
  <2>1. loop' \in [Nodes -> LoopState]
    <3>1. /\ [loop[n] EXCEPT !.pc = "down"] \in LoopState
          /\ [loop[n] EXCEPT !.pc = "beating"] \in LoopState
      BY <1>0, <1>3, LoopUpdates DEF RegisterGiveUp
    <3>2. \/ loop' = [loop EXCEPT ![n].pc = "down"]
          \/ loop' = [loop EXCEPT ![n].pc = "beating"]
      BY <1>3 DEF RegisterGiveUp
    <3> QED
      BY <1>0, <3>1, <3>2
  <2> QED
    BY <1>3, <2>1, SlotsKept DEF RegisterGiveUp, Inv, TypeOK
<1>4. CASE SetIdentity(n)
  <2>1. loop' \in [Nodes -> LoopState]
    <3>1. [loop[n] EXCEPT !.pc = "beating", !.epoch = 0] \in LoopState
      BY <1>0, <1>4, LoopUpdates DEF SetIdentity
    <3> QED
      BY <1>0, <1>4, <3>1 DEF SetIdentity
  <2>2. identity' \in [Nodes -> Nat]
    BY <1>0, <1>4, LoopFields DEF SetIdentity
  <2> QED
    BY <1>4, <2>1, <2>2, SlotsKept DEF SetIdentity, Inv, TypeOK
<1>5. CASE Heartbeat(n)
  <2>1. Assignments(n) \in SUBSET (Tasks \X Nat)
    BY <1>0 DEF Assignments, TaskRow
  <2>2. loop' \in [Nodes -> LoopState]
    <3>1. /\ [loop[n] EXCEPT !.pc = "invalid"] \in LoopState
          /\ [loop[n] EXCEPT !.todo = Assignments(n)] \in LoopState
      BY <1>0, <1>5, <2>1, LoopUpdates DEF Heartbeat
    <3> QED
      BY <1>0, <1>5, <3>1 DEF Heartbeat
  <2> QED
    BY <1>5, <2>2, SlotsKept DEF Heartbeat, Inv, TypeOK
<1>6. CASE StopAll(n) \/ Shutdown(n)
  <2>1. loop' \in [Nodes -> LoopState]
    BY <1>0, <1>6, LoopUpdates DEF StopAll, Shutdown
  <2>2. run' = Cancelled(n) /\ UNCHANGED <<nodes, tasks, reaping, identity, specs>>
    BY <1>6 DEF StopAll, Shutdown
  <2>3. /\ run' \in [Runs -> RunState]
        /\ \A j \in Runs : /\ run'[j].pc = run[j].pc
                          /\ run'[j].node = run[j].node /\ run'[j].task = run[j].task
    BY <2>2, CancelledFacts DEF Inv
  <2>4. OneRunPerTask' /\ SpecHasGoroutine'
    BY <2>2, <2>3, SlotsKept DEF Inv
  <2> QED
    BY <2>1, <2>2, <2>3, <2>4 DEF Inv, TypeOK
<1>7. CASE ClearSpecs(n)
  <2>1. loop' \in [Nodes -> LoopState]
    BY <1>0, <1>7, LoopUpdates DEF ClearSpecs
  <2>2. /\ specs' \in [Nodes -> SUBSET Tasks]
        /\ \A m \in Nodes : specs'[m] \subseteq specs[m]
    BY <1>0, <1>7 DEF ClearSpecs
  <2>3. OneRunPerTask' /\ SpecHasGoroutine'
    BY <1>7, <2>2, SlotsKept DEF ClearSpecs, Inv
  <2> QED
    BY <1>7, <2>1, <2>2, <2>3 DEF ClearSpecs, Inv, TypeOK
<1>8. ASSUME NEW t \in Tasks, NEW e \in 0 .. MaxEpoch, CheckAssignment(n, t, e)
      PROVE  Inv'
  <2> DEFINE rest == loop[n].todo \ {<<t, e>>}
  <2>1. rest \in SUBSET (Tasks \X Nat)
    BY <1>0, LoopFields
  <2>2. /\ [loop[n] EXCEPT !.todo = rest, !.pc = "checked", !.cur = t] \in LoopState
        /\ [loop[n] EXCEPT !.todo = rest] \in LoopState
    <3> HIDE DEF rest
    <3> QED
      BY <1>0, <1>8, <2>1, LoopUpdates DEF CheckAssignment
  <2>3. loop' \in [Nodes -> LoopState]
    <3>1. \/ loop' = [loop EXCEPT ![n].todo = rest, ![n].pc = "checked", ![n].cur = t]
          \/ loop' = [loop EXCEPT ![n].todo = rest]
      <4>1. CASE t \notin Running(n) /\ e = identity[n]
        BY <1>8, <4>1 DEF CheckAssignment
      <4>2. CASE ~(t \notin Running(n) /\ e = identity[n])
        BY <1>8, <4>2 DEF CheckAssignment
      <4> QED
        BY <4>1, <4>2
    <3> QED
      BY <1>0, <2>2, <3>1
  <2> QED
    BY <1>8, <2>3, SlotsKept DEF CheckAssignment, Inv, TypeOK
<1> QED
  BY <1>1, <1>2, <1>3, <1>4, <1>5, <1>6, <1>7, <1>8

\* A goroutine is started with a spec for it.
LEMMA TakeAssignmentInv ==
    ASSUME Inv, NEW n \in Nodes, TakeAssignment(n)
    PROVE  Inv'
<1> DEFINE t == loop[n].cur
<1>0. /\ run \in [Runs -> RunState]
      /\ specs \in [Nodes -> SUBSET Tasks]
      /\ loop \in [Nodes -> LoopState]
      /\ identity[n] \in Nat
      /\ loop[n] \in LoopState
  BY DEF Inv, TypeOK
<1>1. t \in Tasks
  BY <1>0, LoopFields DEF TakeAssignment
<1>2. loop' \in [Nodes -> LoopState]
  <2>1. [loop[n] EXCEPT !.pc = "beating", !.cur = NoTaskId] \in LoopState
    BY <1>0, LoopUpdates
  <2> QED
    BY <1>0, <2>1 DEF TakeAssignment
<1>3. CASE t \in specs[n]
  <2>1. UNCHANGED <<nodes, tasks, reaping, identity, specs, run>>
    BY <1>3 DEF TakeAssignment
  <2> QED
    BY <1>2, <2>1, SlotsKept DEF Inv, TypeOK
<1>4. CASE t \notin specs[n]
  <2>1. specs' = [specs EXCEPT ![n] = @ \cup {t}] /\ UNCHANGED <<nodes, tasks, reaping, identity>>
    BY <1>4 DEF TakeAssignment
  <2> DEFINE q == [FreeRun EXCEPT !.pc = "new", !.node = n, !.task = t, !.assigned = identity[n]]
  <2>2. PICK i \in Runs : run[i] = FreeRun /\ run' = [run EXCEPT ![i] = q]
    BY <1>4 DEF TakeAssignment
  <2>3. q \in BusyRun /\ q.pc = "new" /\ q.node = n /\ q.task = t
    BY <1>0, <1>1 DEF BusyRun, FreeRun
  <2>4. q \in RunState /\ q.pc \in Dropping /\ q.pc \notin Tracking
    BY <2>3 DEF RunState, Dropping, Tracking
  <2> HIDE DEF q, t
  <2>5. /\ run' \in [Runs -> RunState]
        /\ run'[i] = q
        /\ \A j \in Runs : j # i => run'[j] = run[j]
    BY <1>0, <2>2, <2>4
  <2>6. TypeOK'
    <3>1. specs' \in [Nodes -> SUBSET Tasks]
      BY <1>0, <1>1, <2>1
    <3> QED
      BY <1>2, <2>1, <2>5, <3>1 DEF Inv, TypeOK
  <2>7. OneRunPerTask'
    BY <2>4, <2>5 DEF OneRunPerTask, Inv
  <2>8. SpecHasGoroutine'
    <3>1. SUFFICES ASSUME NEW m \in Nodes, NEW u \in specs'[m]
                   PROVE  \E j \in Runs : run'[j].node = m /\ run'[j].task = u /\ run'[j].pc \in Dropping
      BY DEF SpecHasGoroutine
    <3>2. CASE u \in specs[m]
      <4>1. PICK j \in Runs : run[j].node = m /\ run[j].task = u /\ run[j].pc \in Dropping
        BY <3>2 DEF SpecHasGoroutine, Inv
      <4>2. j # i
        BY <2>2, <4>1, FreeRunFacts DEF Dropping
      <4> QED
        BY <2>5, <4>1, <4>2
    <3>3. CASE u \notin specs[m]
      <4>1. m = n /\ u = t
        BY <1>0, <2>1, <3>1, <3>3
      <4> QED
        BY <2>3, <2>4, <2>5, <4>1
    <3> QED
      BY <3>2, <3>3
  <2> QED
    BY <2>6, <2>7, <2>8 DEF Inv
<1> QED
  BY <1>3, <1>4

\* The end of the process takes its goroutines and its specs together.
LEMMA CrashInv ==
    ASSUME Inv, NEW n \in Nodes, Crash(n)
    PROVE  Inv'
<1>0. /\ run \in [Runs -> RunState]
      /\ specs \in [Nodes -> SUBSET Tasks]
      /\ loop \in [Nodes -> LoopState]
      /\ identity \in [Nodes -> Nat]
  BY DEF Inv, TypeOK
<1>1. /\ loop' = [loop EXCEPT ![n] = LoopDown]
      /\ identity' = [identity EXCEPT ![n] = 0]
      /\ specs' = [specs EXCEPT ![n] = {}]
      /\ UNCHANGED <<nodes, tasks, reaping>>
  BY DEF Crash
<1>2. PICK started \in SUBSET {i \in Runs : run[i].node = n /\ run[i].pc = "create"} :
          run' = [i \in Runs |->
              CASE i \in started -> Ended([run[i] EXCEPT !.box = "live"])
                [] i \notin started /\ run[i].node = n -> Ended(run[i])
                [] OTHER -> run[i]]
  BY DEF Crash
<1>3. ASSUME NEW j \in Runs
      PROVE  /\ run'[j] \in RunState
             /\ run[j].node = n => run'[j].pc \notin Dropping
             /\ run[j].node # n => run'[j] = run[j]
  <2>1. run[j] \in RunState
    BY <1>0
  <2>2. CASE j \in started
    <3> DEFINE p == [run[j] EXCEPT !.box = "live"]
    <3>1. run[j].node = n /\ run'[j] = Ended(p)
      BY <1>2, <2>2
    <3>2. run[j] \in BusyRun
      BY <2>1, <3>1, BusyFacts
    <3>3. p.task \in Tasks
      BY <3>2 DEF BusyRun
    <3> HIDE DEF p
    <3> QED
      BY <3>1, <3>3, EndedFacts
  <2>3. CASE j \notin started /\ run[j].node = n
    <3>1. run'[j] = Ended(run[j])
      BY <1>2, <2>3
    <3>2. run[j].box = "live" => run[j].task \in Tasks
      BY <2>1, BusyFacts
    <3> QED
      BY <2>3, <3>1, <3>2, EndedFacts
  <2>4. CASE j \notin started /\ run[j].node # n
    BY <1>2, <2>1, <2>4
  <2> QED
    BY <2>2, <2>3, <2>4
<1>4. TypeOK'
  <2>1. run' \in [Runs -> RunState]
    BY <1>2, <1>3
  <2>2. loop' \in [Nodes -> LoopState]
    <3>1. LoopDown \in LoopState
      BY DEF LoopDown, LoopState
    <3> QED
      BY <1>0, <1>1, <3>1
  <2>3. identity' \in [Nodes -> Nat] /\ specs' \in [Nodes -> SUBSET Tasks]
    BY <1>0, <1>1
  <2> QED
    BY <1>1, <2>1, <2>2, <2>3 DEF Inv, TypeOK
<1>5. OneRunPerTask'
  BY <1>3, TrackingDrops DEF OneRunPerTask, Inv
<1>6. SpecHasGoroutine'
  BY <1>0, <1>1, <1>3 DEF SpecHasGoroutine, Inv
<1> QED
  BY <1>4, <1>5, <1>6 DEF Inv

-------------------------------------------------------------------------------
(* Theorems *)

LEMMA InvHolds == Spec => []Inv
<1>1. Init => Inv
  <2>1. SUFFICES ASSUME Init PROVE Inv
    OBVIOUS
  <2>2. TypeOK
    <3>1. NoRow \in NodeRow /\ [NoTask EXCEPT !.status = "pending"] \in TaskRow
      BY DEF NoRow, NodeRow, NodeStatus, NoTask, TaskRow, TaskStatus
    <3>2. LoopDown \in LoopState
      BY DEF LoopDown, LoopState
    <3> QED
      BY <2>1, <3>1, <3>2, FreeRunFacts DEF Init, TypeOK
  <2>3. OneRunPerTask /\ SpecHasGoroutine
    <3>1. \A i \in Runs : run[i].pc = "free"
      BY <2>1, FreeRunFacts DEF Init
    <3>2. \A n \in Nodes : specs[n] = {}
      BY <2>1 DEF Init
    <3> QED
      BY <3>1, <3>2 DEF OneRunPerTask, SpecHasGoroutine, Tracking
  <2> QED
    BY <2>2, <2>3 DEF Inv
<1>2. Inv /\ [Next]_vars => Inv'
  <2>1. SUFFICES ASSUME Inv, [Next]_vars PROVE Inv'
    OBVIOUS
  <2>2. CASE EnvironmentStep
    BY <2>1, <2>2, EnvironmentStepInv
  <2>3. ASSUME NEW n \in Nodes, LoopStep(n)
        PROVE  Inv'
    BY <2>1, <2>3, QuietLoopInv, TakeAssignmentInv, CrashInv DEF LoopStep
  <2>4. ASSUME NEW i \in Runs, RunStep(i)
        PROVE  Inv'
    BY <2>1, <2>4, RunStepInv
  <2>5. CASE UNCHANGED vars
    BY <2>1, <2>5 DEF vars, Inv, TypeOK, OneRunPerTask, SpecHasGoroutine
  <2> QED
    BY <2>1, <2>2, <2>3, <2>4, <2>5 DEF Next
<1> QED
  BY <1>1, <1>2, PTL DEF Spec

\* The rows, the maps and the goroutines' records keep their shape: a heartbeat
\* always finds well-formed assignments, and what a process leaves behind is a
\* live container or nothing.
THEOREM TypeCorrect == Spec => []TypeOK
<1>1. Inv => TypeOK
  BY DEF Inv
<1> QED
  BY <1>1, InvHolds, PTL

\* However assignments, repeated assignments, re-registrations and crashes
\* interleave, Start's check under the executor's lock lets one process run a
\* task at most once at a time.
THEOREM OneRun == Spec => []OneRunPerTask
<1>1. Inv => OneRunPerTask
  BY DEF Inv
<1> QED
  BY <1>1, InvHolds, PTL

\* No spec outlives the goroutines that would drop it, so handleAssignments
\* never passes over a task for a spec that nobody will remove.
THEOREM SpecsAreDropped == Spec => []SpecHasGoroutine
<1>1. Inv => SpecHasGoroutine
  BY DEF Inv
<1> QED
  BY <1>1, InvHolds, PTL

-------------------------------------------------------------------------------
(* The refinement of Lifecycle *)

\* A report, whoever makes it and whenever it arrives, ends the task, charges
\* it with a retry or leaves its life alone.
LEMMA ReportImplements ==
    ASSUME TypeOK, NEW t \in Tasks, NEW n, NEW e, NEW s \in {"running", "succeeded", "failed"},
           tasks' = Reported(t, n, e, s), nodes' = nodes
    PROVE  [Abs!Next]_(Abs!vars)
<1> DEFINE L == [u \in Tasks |-> Life(tasks[u])]
           F == [m \in Nodes |-> NextEpoch(nodes[m])]
<1>1. CASE tasks' = tasks
  BY <1>1 DEF Abs!vars
<1>2. CASE Active(tasks[t]) /\ tasks' = [tasks EXCEPT ![t] = AfterReport(tasks[t], s)]
  <2> DEFINE new == Life(AfterReport(tasks[t], s))
  <2>1. tasks[t] \in TaskRow /\ L[t] = Life(tasks[t])
    BY DEF TypeOK
  <2>2. L[t].phase = "held" /\ L[t].charged = tasks[t].retries
    BY <1>2, <2>1, PhaseFacts DEF Life
  <2>3. \/ new = L[t]
        \/ \E p \in {"succeeded", "failed"} :
              /\ p = "failed" => ~(L[t].charged < RetryLimit)
              /\ new = [phase |-> p, holder |-> L[t].holder, charged |-> L[t].charged]
        \/ L[t].charged < RetryLimit /\ new = Abs!Queued(L[t].charged + 1)
    BY <1>2, <2>1, <2>2, LifeAfterReport DEF Abs!Queued, Abs!Nobody
  <2>4. L' = [L EXCEPT ![t] = new]
    <3>1. tasks'[t] = AfterReport(tasks[t], s) /\ \A u \in Tasks : u # t => tasks'[u] = tasks[u]
      BY <1>2 DEF TypeOK
    <3> QED
      BY <3>1
  <2>5. F' = F
    OBVIOUS
  <2> HIDE DEF new
  <2>6. CASE new = L[t]
    <3>1. L' = L
      BY <2>4, <2>6
    <3> QED
      BY <2>5, <3>1 DEF Abs!vars
  <2>7. ASSUME NEW p \in {"succeeded", "failed"}, p = "failed" => ~(L[t].charged < RetryLimit),
               new = [phase |-> p, holder |-> L[t].holder, charged |-> L[t].charged]
        PROVE  Abs!Next
    <3>1. Abs!Settle(t, p)
      BY <2>2, <2>4, <2>5, <2>7 DEF Abs!Settle
    <3> QED
      BY <3>1 DEF Abs!Next
  <2>8. CASE L[t].charged < RetryLimit /\ new = Abs!Queued(L[t].charged + 1)
    <3>1. Abs!Retry(t)
      BY <2>2, <2>4, <2>5, <2>8 DEF Abs!Retry
    <3> QED
      BY <3>1 DEF Abs!Next
  <2> QED
    BY <2>3, <2>6, <2>7, <2>8
<1> QED
  BY <1>1, <1>2 DEF Reported

\* The engine's placement is Assign, of one task.
LEMMA PlaceImplements ==
    ASSUME TypeOK, NEW t \in Tasks, NEW n \in Nodes, Place(t, n)
    PROVE  Abs!Next
<1> DEFINE L == [u \in Tasks |-> Life(tasks[u])]
           F == [m \in Nodes |-> NextEpoch(nodes[m])]
<1>1. PICK e \in Nat : e = nodes[n].epoch
  BY DEF TypeOK, NodeRow
<1> DEFINE to == [u \in {t} |-> <<n, e>>]
<1>2. tasks[t] \in TaskRow /\ L[t] = Life(tasks[t]) /\ tasks[t].status = "pending"
  BY DEF TypeOK, Place
<1>3. L[t].phase = "queued"
  BY <1>2, PhaseFacts DEF Life
<1>4. <<n, e>> \in Abs!Holders
  <2>1. NextEpoch(nodes[n]) = e + 1
    BY <1>1 DEF NextEpoch, Place
  <2>2. e \in 0 .. F[n] - 1
    BY <2>1
  <2> QED
    BY <2>2 DEF Abs!Holders
<1>5. to \in [{t} -> Abs!Holders] /\ to[t] = <<n, e>>
  BY <1>4
<1>6. L' = [u \in Tasks |-> IF u \in {t} THEN Abs!Held(to[u], L[u].charged) ELSE L[u]]
  <2>1. tasks'[t] = Scheduled(tasks[t], n, e) /\ \A u \in Tasks : u # t => tasks'[u] = tasks[u]
    BY <1>1 DEF TypeOK, Place
  <2>2. Life(tasks'[t]) = Abs!Held(<<n, e>>, L[t].charged)
    BY <1>2, <2>1, LifeScheduled DEF Abs!Held
  <2> QED
    BY <1>5, <2>1, <2>2
<1>7. F' = F
  BY DEF Place
<1> HIDE DEF to
<1>8. Abs!Assign({t})
  BY <1>3, <1>5, <1>6, <1>7 DEF Abs!Assign
<1> QED
  BY <1>8 DEF Abs!Next

\* MarkNodeDead is Bury.
LEMMA DeadImplements ==
    ASSUME TypeOK, NEW n \in Nodes, MarkNodeDead(n)
    PROVE  Abs!Next
<1> DEFINE L == [t \in Tasks |-> Life(tasks[t])]
           F == [m \in Nodes |-> NextEpoch(nodes[m])]
<1>1. /\ nodes' = [nodes EXCEPT ![n] = Dead(nodes[n])]
      /\ tasks' = [t \in Tasks |-> Orphaned(tasks[t], n)]
  BY DEF MarkNodeDead
<1>2. nodes \in [Nodes -> NodeRow] /\ nodes[n] \in NodeRow /\ Dead(nodes[n]) \in NodeRow
  BY NodeRowTypes DEF TypeOK
<1>3. NextEpoch(Dead(nodes[n])) >= NextEpoch(nodes[n]) /\ NextEpoch(Dead(nodes[n])) \in Nat
  BY <1>2, FenceFacts
<1>4. F' = [F EXCEPT ![n] = F'[n]] /\ F'[n] >= F[n]
  BY <1>1, <1>2, <1>3, FenceMoves
<1>5. ASSUME NEW t \in Tasks
      PROVE  Life(tasks'[t]) =
               IF Life(tasks[t]).phase = "held" /\ Life(tasks[t]).holder[1] = n
               THEN Abs!Queued(Life(tasks[t]).charged) ELSE Life(tasks[t])
  <2>1. tasks'[t] = Orphaned(tasks[t], n) /\ tasks[t] \in TaskRow
    BY <1>1 DEF TypeOK
  <2> QED
    BY <2>1, LifeOrphaned DEF Abs!Queued, Abs!Nobody
<1>6. L' = [t \in Tasks |->
               IF L[t].phase = "held" /\ L[t].holder[1] = n THEN Abs!Queued(L[t].charged) ELSE L[t]]
  BY <1>5
<1>7. Abs!Bury(n)
  BY <1>4, <1>6 DEF Abs!Bury
<1> QED
  BY <1>7 DEF Abs!Next

\* A registration, answered or not, moves the fence on.
LEMMA RegisterImplements ==
    ASSUME TypeOK, NEW n \in Nodes, RegisterNode(n)
    PROVE  Abs!Next
<1> DEFINE L == [t \in Tasks |-> Life(tasks[t])]
           F == [m \in Nodes |-> NextEpoch(nodes[m])]
<1>1. nodes' = [nodes EXCEPT ![n] = Registered(nodes[n], 0)]
  BY DEF RegisterNode
<1>2. nodes \in [Nodes -> NodeRow] /\ nodes[n] \in NodeRow /\ Registered(nodes[n], 0) \in NodeRow
  BY NodeRowTypes DEF TypeOK
<1>3. /\ NextEpoch(Registered(nodes[n], 0)) > NextEpoch(nodes[n])
      /\ NextEpoch(Registered(nodes[n], 0)) \in Nat /\ NextEpoch(nodes[n]) \in Nat
  BY <1>2, FenceFacts
<1>4. NextEpoch(Registered(nodes[n], 0)) >= NextEpoch(nodes[n])
  BY <1>3
<1>5. F' = [F EXCEPT ![n] = F'[n]]
  BY <1>1, <1>2, <1>3, <1>4, FenceMoves
<1>6. F'[n] > F[n]
  <2>1. nodes'[n] = Registered(nodes[n], 0)
    BY <1>1, <1>2
  <2> QED
    BY <1>3, <2>1
<1>7. L' = L
  BY DEF RegisterNode
<1>8. Abs!Advance(n)
  BY <1>5, <1>6, <1>7 DEF Abs!Advance
<1> QED
  BY <1>8 DEF Abs!Next

\* next_retry_at is not part of a task's life.
LEMMA DueImplements ==
    ASSUME TypeOK, NEW t \in Tasks, RetryDue(t)
    PROVE  UNCHANGED Abs!vars
<1>1. \A f \in TaskRow : Life([f EXCEPT !.wait = FALSE]) = Life(f)
  BY LifeDue
<1>2. tasks'[t] = [tasks[t] EXCEPT !.wait = FALSE] /\ \A u \in Tasks : u # t => tasks'[u] = tasks[u]
  BY DEF RetryDue, TypeOK
<1>3. \A u \in Tasks : Life(tasks'[u]) = Life(tasks[u])
  BY <1>1, <1>2 DEF TypeOK
<1>4. nodes' = nodes
  BY DEF RetryDue
<1> QED
  BY <1>3, <1>4 DEF Abs!vars

\* However calls are lost and repeated, processes end and goroutines of former
\* assignments report, the tables go through the steps of Lifecycle, as they do
\* in Control.
THEOREM WorkerRefinesLifecycle == Spec => ImplementsLifecycle
<1>1. Init => Abs!Init
  <2> SUFFICES ASSUME Init PROVE Abs!Init
    OBVIOUS
  <2>1. Life([NoTask EXCEPT !.status = "pending"]) = Abs!Queued(0)
    BY DEF Life, Phase, NoTask, Abs!Queued, Abs!Nobody
  <2>2. NextEpoch(NoRow) = 0
    BY DEF NextEpoch, NoRow
  <2>3. [t \in Tasks |-> Life(tasks[t])] \in [Tasks -> {Abs!Absent, Abs!Queued(0)}]
    BY <2>1 DEF Init
  <2>4. [n \in Nodes |-> NextEpoch(nodes[n])] = [n \in Nodes |-> 0]
    BY <2>2 DEF Init
  <2> QED
    BY <2>3, <2>4 DEF Abs!Init
<1>2. TypeOK /\ [Next]_vars => [Abs!Next]_(Abs!vars)
  <2> SUFFICES ASSUME TypeOK, [Next]_vars PROVE [Abs!Next]_(Abs!vars)
    OBVIOUS
  <2>1. CASE tasks' = tasks /\ nodes' = nodes
    BY <2>1 DEF Abs!vars
  <2>2. CASE EnvironmentStep
    <3>1. \/ \E t \in Tasks : RetryDue(t) \/ \E n \in Nodes : Place(t, n)
          \/ \E n \in Nodes : MarkNodeDead(n)
          \/ tasks' = tasks /\ nodes' = nodes
      BY <2>2 DEF EnvironmentStep, KillTaskContainers, ReapLost, ContainerExit
    <3> QED
      BY <2>1, <3>1, DueImplements, PlaceImplements, DeadImplements
  <2>3. ASSUME NEW n \in Nodes, LoopStep(n) PROVE [Abs!Next]_(Abs!vars)
    <3>1. RegisterNode(n) \/ (tasks' = tasks /\ nodes' = nodes)
      BY <2>3 DEF LoopStep, Boot, RegisterGiveUp, SetIdentity, Heartbeat, StopAll, ClearSpecs,
                  TakeAssignment, CheckAssignment, Crash, Shutdown
    <3> QED
      BY <2>1, <3>1, RegisterImplements
  <2>4. ASSUME NEW i \in Runs, RunStep(i) PROVE [Abs!Next]_(Abs!vars)
    <3>1. ASSUME Announce(i) \/ ReportResult(i) PROVE [Abs!Next]_(Abs!vars)
      <4>1. run[i] \in RunState /\ run[i].pc \notin {"free", "orphan"}
        BY <3>1 DEF TypeOK, Announce, ReportResult
      <4>2. run[i].task \in Tasks
        BY <4>1, BusyFacts DEF BusyRun
      <4>3. \E s \in {"running", "succeeded", "failed"} :
               tasks' = Reported(run[i].task, run[i].node, run[i].epoch, s)
        BY <3>1 DEF Announce, ReportResult
      <4>4. nodes' = nodes
        BY <3>1 DEF Announce, ReportResult
      <4> QED
        BY <4>2, <4>3, <4>4, ReportImplements
    <3>2. Announce(i) \/ ReportResult(i) \/ (tasks' = tasks /\ nodes' = nodes)
      BY <2>4 DEF RunStep, Identify, AnnounceLost, Start, Create, WaitGone, WaitReturn, WaitError,
                  WaitCancelled, Finish, Forget, ResultLost, Cleanup
    <3> QED
      BY <2>1, <3>1, <3>2
  <2>5. CASE UNCHANGED vars
    BY <2>1, <2>5 DEF vars
  <2> QED
    BY <2>2, <2>3, <2>4, <2>5 DEF Next
<1> QED
  BY <1>1, <1>2, TypeCorrect, PTL DEF Spec, ImplementsLifecycle, Abs!Spec
===============================================================================
