-------------------------------- MODULE Store ---------------------------------
(***************************************************************************)
(* The rows of the nodes and tasks tables (internal/store) and what the    *)
(* store's transactions make of one row.  The modules that have the tables *)
(* as variables say when a transaction runs and which rows it touches.     *)
(***************************************************************************)
EXTENDS NodeNames, Naturals

CONSTANTS
    RetryLimit          \* jobs.retry_limit

ASSUME RetryLimitAssumption == RetryLimit \in Nat

NodeStatus == {"none", "ready", "not_ready", "dead"}
TaskStatus == {"none", "pending", "scheduled", "running", "succeeded", "failed"}

\* Of the resources of a node one amount is kept; of the columns that say what
\* the node is like, module Batch has both amounts and the labels.
NodeRow == [status : NodeStatus, epoch : Nat, capacity : Nat]

\* A NULL assignment is node NoNode with epoch 0; wait: next_retry_at lies ahead.
TaskRow == [status : TaskStatus, node : Nodes \cup {NoNode}, epoch : Nat,
            retries : Nat, wait : BOOLEAN]

Active(row) == row.status \in {"scheduled", "running"}
Terminal(row) == row.status \in {"succeeded", "failed"}

Unassigned(row) == row.node = NoNode /\ row.epoch = 0

NoTask == [status |-> "none", node |-> NoNode, epoch |-> 0, retries |-> 0, wait |-> FALSE]
NoRow == [status |-> "none", epoch |-> 0, capacity |-> 0]

-------------------------------------------------------------------------------
(* The nodes table *)

\* RegisterNode, with the capacity that the worker calls with: a fresh row
\* starts at epoch 0, an existing one moves on and has its capacity overwritten,
\* whatever is assigned to the node.
RegisteredBumpIfDead(row, c) ==
    [status |-> "ready", epoch |-> IF row.status = "dead" THEN row.epoch + 1 ELSE row.epoch, capacity |-> c]
Registered(row, c) ==
    [status |-> "ready", epoch |-> IF row.status = "none" THEN 0 ELSE row.epoch + 1, capacity |-> c]

\* UpdateNodeStatus: the status is written whatever it was.
WithStatus(row, s) == [row EXCEPT !.status = s]

\* MarkNodeDead, the node's part.
DeadEpochKept(row) == [row EXCEPT !.status = "dead"]
Dead(row) == [row EXCEPT !.status = "dead", !.epoch = @ + 1]

-------------------------------------------------------------------------------
(* The tasks table *)

\* A pending row without an assignment, with so many more retries used.
Free(row, more) ==
    [status |-> "pending", node |-> NoNode, epoch |-> 0, retries |-> row.retries + more, wait |-> FALSE]

OrphanedCharged(row, n) == IF row.node = n /\ Active(row) THEN Free(row, 1) ELSE row
\* orphanAndRequeueTasksTx: every scheduled or running task of the node is
\* pending again; retries_used is not touched.
Orphaned(row, n) == IF row.node = n /\ Active(row) THEN Free(row, 0) ELSE row

\* requeueFailedTask: one more retry used, and not before next_retry_at.
RequeuedAssigned(row) == [row EXCEPT !.status = "pending", !.retries = @ + 1, !.wait = TRUE]
Requeued(row) == [Free(row, 1) EXCEPT !.wait = TRUE]

\* checkTaskReportFence: a report without a node is let through (no worker
\* sends one); otherwise node and epoch must be those of the assignment.
Fence(row, n, e) == n = NoNode \/ (row.node = n /\ row.epoch = e)

\* ScheduleTask, with the epoch that the node was listed with.
Scheduled(row, n, e) == [row EXCEPT !.status = "scheduled", !.node = n, !.epoch = e]

AfterReportOneMore(row, s) ==
    CASE s = "running" -> [row EXCEPT !.status = "running", !.wait = FALSE]
      [] s = "succeeded" -> [row EXCEPT !.status = "succeeded", !.wait = FALSE]
      [] s = "failed" /\ row.retries <= RetryLimit -> Requeued(row)
      [] OTHER -> [row EXCEPT !.status = "failed", !.wait = FALSE]
\* What UpdateTaskStatus makes of an active row.
AfterReport(row, s) ==
    CASE s = "running" -> [row EXCEPT !.status = "running", !.wait = FALSE]
      [] s = "succeeded" -> [row EXCEPT !.status = "succeeded", !.wait = FALSE]
      [] s = "failed" /\ row.retries < RetryLimit -> Requeued(row)
      [] OTHER -> [row EXCEPT !.status = "failed", !.wait = FALSE]

-------------------------------------------------------------------------------
(* What module Lifecycle sees of a row *)

Phase(row) ==
    CASE row.status = "none" -> "absent"
      [] row.status = "pending" -> "queued"
      [] row.status \in {"scheduled", "running"} -> "held"
      [] OTHER -> row.status

Life(row) == [phase |-> Phase(row), holder |-> <<row.node, row.epoch>>, charged |-> row.retries]

\* The first epoch that no worker has had: RegisterNode has given out the epoch
\* of a row, but not the one that MarkNodeDead leaves.
NextEpoch(row) ==
    CASE row.status = "none" -> 0
      [] row.status = "dead" -> row.epoch
      [] OTHER -> row.epoch + 1
===============================================================================
