----------------------------- MODULE EventFanout ------------------------------
(***************************************************************************)
(* How audit events reach the dashboard: the events table                  *)
(* (internal/store/events.go), the poller that every replica runs and that *)
(* publishes while the replica leads (internal/eventfanout), the Redis     *)
(* channel (internal/cache), and an SSE stream of the HTTP API that shows  *)
(* a snapshot and then follows the channel, or the table if it cannot      *)
(* subscribe (internal/httpapi).                                           *)
(*                                                                         *)
(* A row gets its id from a sequence when it is inserted, and is seen by   *)
(* others when its transaction commits, in any order.  Readers follow the  *)
(* table with a cursor: the last id they have dealt with.  A transaction   *)
(* that inserts several rows is several that commit with nobody between.   *)
(***************************************************************************)
EXTENDS Naturals, FiniteSets, FiniteSetsExt

CONSTANTS
    Replicas,           \* scheduler replicas
    MaxEvent,           \* bound: ids 1 .. MaxEvent are handed out
    BatchLimit,         \* limit of the poller's ListEventsAfter (200)
    PollLimit,          \* limit of a stream's ListEventsAfter (100)
    SnapshotLimit       \* limit of a stream's first ListRecentEvents (30)

ASSUME LimitsAssumption ==
    /\ MaxEvent \in Nat
    /\ BatchLimit \in Nat \ {0}
    /\ PollLimit \in Nat \ {0}
    /\ SnapshotLimit \in Nat \ {0}

VARIABLES
    last,               \* the last id the sequence gave out
    open,               \* rows of transactions that have not ended
    table,              \* committed rows
    late,               \* history: rows committed after a row with a greater id
    leading,            \* the replicas whose IsLeader() is true
    fan,                \* fan[r]: the poller of replica r
    stream              \* the SSE stream

vars == <<last, open, table, late, leading, fan, stream>>

EventIds == 1 .. MaxEvent

\* Runner.Run is not running, or between process start and its first query.
FanDown == [up |-> FALSE, start |-> 0, after |-> 0, batch |-> {}, sent |-> {}, failed |-> {}]

\* No client is connected.
StreamClosed == [pc |-> "closed", top |-> 0, start |-> 0, after |-> 0, seen |-> {}, missed |-> {}]

Init ==
    /\ last = 0
    /\ open = {}
    /\ table = {}
    /\ late = {}
    /\ leading = {}
    /\ fan = [r \in Replicas |-> FanDown]
    /\ stream = StreamClosed

-------------------------------------------------------------------------------
(* The events table *)

\* insertEvent takes the next id.
InsertEvent ==
    /\ last < MaxEvent
    /\ last' = last + 1
    /\ open' = open \cup {last + 1}
    /\ UNCHANGED <<table, late, leading, fan, stream>>

Commit(e) ==
    /\ e \in open
    /\ open' = open \ {e}
    /\ table' = table \cup {e}
    /\ late' = IF \E f \in table : f > e THEN late \cup {e} ELSE late
    /\ UNCHANGED <<last, leading, fan, stream>>

\* The id is lost with the row.
Rollback(e) ==
    /\ e \in open
    /\ open' = open \ {e}
    /\ UNCHANGED <<last, table, late, leading, fan, stream>>

\* The committed row with the greatest id; 0 if there is none.
Newest == IF table = {} THEN 0 ELSE Max(table)

\* ORDER BY id DESC LIMIT.
ListRecentEvents(limit) == {e \in table : Cardinality({f \in table : f > e}) < limit}

\* WHERE id > after ORDER BY id ASC LIMIT.
ListEventsSkipOne(after, limit) ==
    {e \in table : e > after + 1 /\ Cardinality({f \in table : f > after + 1 /\ f < e}) < limit}
ListEventsNewestFirst(after, limit) ==
    {e \in table : e > after /\ Cardinality({f \in table : f > e}) < limit}
ListEventsAfter(after, limit) ==
    {e \in table : e > after /\ Cardinality({f \in table : f > after /\ f < e}) < limit}

-------------------------------------------------------------------------------
(* eventfanout.Runner.Run, on every replica *)

Lead(r) ==
    /\ r \notin leading
    /\ leading' = leading \cup {r}
    /\ UNCHANGED <<last, open, table, late, fan, stream>>

Unlead(r) ==
    /\ r \in leading
    /\ leading' = leading \ {r}
    /\ UNCHANGED <<last, open, table, late, fan, stream>>

\* The cursor starts at the newest row, or at 0 if the query fails.  It starts
\* when the process does, whether the replica leads or not.
FanStart(r) ==
    /\ ~fan[r].up
    /\ \E id \in {0, Newest} : fan' = [fan EXCEPT ![r] = [FanDown EXCEPT !.up = TRUE, !.start = id, !.after = id]]
    /\ UNCHANGED <<last, open, table, late, leading, stream>>

FanStopBatchKept(r) ==
    /\ fan[r].up
    /\ fan' = [fan EXCEPT ![r] = [FanDown EXCEPT !.batch = fan[r].batch]]
    /\ UNCHANGED <<last, open, table, late, leading, stream>>
\* The process stops or crashes: its cursor is gone.
FanStop(r) ==
    /\ fan[r].up
    /\ fan' = [fan EXCEPT ![r] = FanDown]
    /\ UNCHANGED <<last, open, table, late, leading, stream>>

\* A tick of a leader lists the next rows; a query that fails ends the tick.
FanList(r) ==
    /\ r \in leading
    /\ fan[r].up
    /\ fan[r].batch = {}
    /\ fan' = [fan EXCEPT ![r].batch = ListEventsAfter(fan[r].after, BatchLimit)]
    /\ UNCHANGED <<last, open, table, late, leading, stream>>

DeliveredIfNewer(e, connected) ==
    IF stream.pc # "live" \/ \E f \in stream.seen : f > e THEN stream
    ELSE IF connected THEN [stream EXCEPT !.seen = @ \cup {e}]
    ELSE [stream EXCEPT !.missed = @ \cup {e}]
\* What the channel delivers to a subscribed stream, if Redis still holds the
\* connection; a stream that polls or has not subscribed gets nothing.
Delivered(e, connected) ==
    IF stream.pc # "live" THEN stream
    ELSE IF connected THEN [stream EXCEPT !.seen = @ \cup {e}]
    ELSE [stream EXCEPT !.missed = @ \cup {e}]

PublishOkCursorKept(r) ==
    /\ fan[r].batch # {}
    /\ LET e == Min(fan[r].batch) IN
          /\ fan' = [fan EXCEPT ![r].batch = @ \ {e}, ![r].sent = @ \cup {e}]
          /\ \E connected \in BOOLEAN : stream' = Delivered(e, connected)
    /\ UNCHANGED <<last, open, table, late, leading>>
\* PublishClusterEvent succeeds for the next row of the batch.
PublishOk(r) ==
    /\ fan[r].batch # {}
    /\ LET e == Min(fan[r].batch) IN
          /\ fan' = [fan EXCEPT ![r].batch = @ \ {e}, ![r].after = e, ![r].sent = @ \cup {e}]
          /\ \E connected \in BOOLEAN : stream' = Delivered(e, connected)
    /\ UNCHANGED <<last, open, table, late, leading>>

\* It fails, before or after Redis has passed the message on: the loop goes on
\* with the next row and the cursor stays.
PublishError(r) ==
    /\ fan[r].batch # {}
    /\ LET e == Min(fan[r].batch) IN
          /\ fan' = [fan EXCEPT ![r].batch = @ \ {e}, ![r].failed = @ \cup {e}]
          /\ stream' \in {stream, Delivered(e, TRUE)}
    /\ UNCHANGED <<last, open, table, late, leading>>

-------------------------------------------------------------------------------
(* handleEventsStream and pollEventsSSE, on any replica *)

\* The snapshot is written to the client; a query that fails writes nothing.
StreamOpen ==
    /\ stream.pc = "closed"
    /\ \/ stream' = [StreamClosed EXCEPT !.pc = "opened", !.seen = ListRecentEvents(SnapshotLimit), !.top = Newest]
       \/ stream' = [StreamClosed EXCEPT !.pc = "opened"]
    /\ UNCHANGED <<last, open, table, late, leading, fan>>

StreamSubscribe ==
    /\ stream.pc = "opened"
    /\ stream' = [stream EXCEPT !.pc = "live"]
    /\ UNCHANGED <<last, open, table, late, leading, fan>>

\* Without Redis the stream polls, from what is newest by then.
StreamPoll ==
    /\ stream.pc = "opened"
    /\ \E id \in {0, Newest} : stream' = [stream EXCEPT !.pc = "polling", !.start = id, !.after = id]
    /\ UNCHANGED <<last, open, table, late, leading, fan>>

PollTickToNewest ==
    /\ stream.pc = "polling"
    /\ LET events == ListEventsAfter(stream.after, PollLimit) IN
          /\ events # {}
          /\ stream' = [stream EXCEPT !.seen = @ \cup events, !.after = Newest]
    /\ UNCHANGED <<last, open, table, late, leading, fan>>
\* A tick of a polling stream; writing to the client is not checked for errors.
PollTick ==
    /\ stream.pc = "polling"
    /\ LET events == ListEventsAfter(stream.after, PollLimit) IN
          /\ events # {}
          /\ stream' = [stream EXCEPT !.seen = @ \cup events, !.after = Max(events)]
    /\ UNCHANGED <<last, open, table, late, leading, fan>>

\* The client goes away, or the subscription's channel is closed.
StreamClose ==
    /\ stream.pc # "closed"
    /\ stream' = StreamClosed
    /\ UNCHANGED <<last, open, table, late, leading, fan>>

-------------------------------------------------------------------------------
FanStep(r) == FanStart(r) \/ FanStop(r) \/ FanList(r) \/ PublishOk(r) \/ PublishError(r)

Next ==
    \/ InsertEvent
    \/ \E e \in open : Commit(e) \/ Rollback(e)
    \/ \E r \in Replicas : Lead(r) \/ Unlead(r) \/ FanStep(r)
    \/ StreamOpen
    \/ StreamSubscribe
    \/ StreamPoll
    \/ PollTick
    \/ StreamClose

Spec == Init /\ [][Next]_vars

\* A poller keeps ticking and gets through its batch, and Redis does not fail
\* every publish for ever.  Nothing else is bound to happen.
Fairness ==
    \A r \in Replicas :
        /\ WF_vars(FanList(r))
        /\ WF_vars(PublishOk(r) \/ PublishError(r))
        /\ SF_vars(PublishOk(r))

FairSpec == Spec /\ Fairness

-------------------------------------------------------------------------------
(* Properties *)

FanState ==
    {FanDown} \cup
    [up : {TRUE}, start : 0 .. MaxEvent, after : 0 .. MaxEvent, batch : SUBSET EventIds,
     sent : SUBSET EventIds, failed : SUBSET EventIds]

StreamState ==
    [pc : {"closed", "opened", "live", "polling"}, top : 0 .. MaxEvent, start : 0 .. MaxEvent,
     after : 0 .. MaxEvent, seen : SUBSET EventIds, missed : SUBSET EventIds]

\* Ids come from the sequence; a poller that is down holds nothing.
TypeOK ==
    /\ last \in 0 .. MaxEvent
    /\ open \subseteq 1 .. last
    /\ table \subseteq 1 .. last
    /\ open \cap table = {}
    /\ late \subseteq table
    /\ leading \subseteq Replicas
    /\ fan \in [Replicas -> FanState]
    /\ stream \in StreamState

\* What a poller has passed by, it has published, or failed to publish, or
\* could not see: a row that committed after one with a greater id.  There is
\* no other way for an event to be left out, whatever the batches are cut to.
FanGapsExplained ==
    \A r \in Replicas : \A e \in table :
        fan[r].start < e /\ e <= fan[r].after => e \in fan[r].sent \cup fan[r].failed \cup late

\* One run of a poller publishes no event again that it has published, across
\* batches with failures in them.
NoReplay == \A r \in Replicas : fan[r].batch \cap fan[r].sent = {}

\* What a polling stream has not shown up to its cursor came too late, or
\* committed between the snapshot and the first reading of the cursor, or is
\* older than the snapshot.
StreamGapsExplained ==
    stream.pc = "polling" =>
        \A e \in table : e <= stream.after =>
            \/ e \in stream.seen \cup late
            \/ stream.top < e /\ e <= stream.start
            \/ e <= stream.top /\ \A f \in stream.seen : f <= stream.top => e < f

\* An event committed in time is published, or at least tried, by a poller that
\* has started before it, unless the replica stops or is deposed first: neither
\* a backlog inherited as a follower nor failures ahead of it starve it.
EventsFollow ==
    \A r \in Replicas, e \in EventIds :
        (fan[r].up /\ fan[r].start < e /\ e \in table \ late)
            ~> (e \in fan[r].sent \cup fan[r].failed \/ ~fan[r].up \/ r \notin leading)

\* And a stream that has subscribed by then shows it, if Redis does not drop
\* the message or fail the publish.
EventsShown ==
    \A r \in Replicas, e \in EventIds :
        LET Ends == ~fan[r].up \/ r \notin leading \/ stream.pc # "live" IN
        (~Ends /\ fan[r].start < e /\ e \in table \ (late \cup fan[r].sent \cup fan[r].failed))
            ~> (Ends \/ e \in stream.seen \cup stream.missed \cup fan[r].failed)
===============================================================================
