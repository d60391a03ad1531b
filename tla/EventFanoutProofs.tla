-------------------------- MODULE EventFanoutProofs ---------------------------
(***************************************************************************)
(* Proofs about module EventFanout: what a cursor over the events table    *)
(* passes by, for any number of replicas and events and every limit.       *)
(***************************************************************************)
EXTENDS EventFanout, FiniteSetTheorems, WellFoundedInduction, TLAPS

USE LimitsAssumption

-------------------------------------------------------------------------------
(* Sets of ids *)

LEMMA LeastId ==
    ASSUME NEW S \in SUBSET Nat, S # {}
    PROVE  \E x \in S : \A y \in S : x <= y
<1>1. PICK x \in S : \A y \in S : ~(<<y, x>> \in OpToRel(<, Nat))
  BY NatLessThanWellFounded, WFMin
<1>2. \A y \in S : ~(y < x)
  BY <1>1 DEF OpToRel
<1> QED
  BY <1>2

\* The first row of a batch.
LEMMA MinFacts ==
    ASSUME NEW S \in SUBSET Nat, S # {}
    PROVE  Min(S) \in S /\ \A y \in S : Min(S) <= y
BY LeastId DEF Min

\* The last row of a table or a batch.
LEMMA MaxFacts ==
    ASSUME NEW S \in SUBSET Nat, S # {}, NEW b \in Nat, \A y \in S : y <= b
    PROVE  Max(S) \in S /\ \A y \in S : y <= Max(S)
<1> DEFINE U == {u \in Nat : \A y \in S : y <= u}
<1>1. PICK u \in U : \A v \in U : u <= v
  <2>1. U \in SUBSET Nat /\ b \in U
    OBVIOUS
  <2> HIDE DEF U
  <2> QED
    BY <2>1, LeastId
<1>2. u \in S
  <2>1. SUFFICES ASSUME u \notin S PROVE FALSE
    OBVIOUS
  <2>2. PICK y \in S : TRUE
    OBVIOUS
  <2>3. u \in Nat /\ y \in Nat /\ y < u
    BY <1>1, <2>1
  <2>4. u - 1 \in Nat /\ ~(u <= u - 1)
    BY <2>3
  <2>5. \A z \in S : z <= u - 1
    BY <1>1, <2>1
  <2> QED
    BY <1>1, <2>4, <2>5
<1>3. \E x \in S : \A y \in S : x >= y
  BY <1>1, <1>2
<1>4. Max(S) \in S /\ \A y \in S : Max(S) >= y
  BY <1>3 DEF Max
<1> QED
  BY <1>4

LEMMA FewerCounted ==
    ASSUME NEW b \in Nat, NEW S \in SUBSET (1 .. b), NEW T \in SUBSET S, NEW limit \in Nat,
           Cardinality(S) < limit
    PROVE  Cardinality(T) < limit
<1>1. IsFiniteSet(S)
  <2>1. IsFiniteSet(1 .. b)
    BY FS_Interval
  <2> QED
    BY <2>1, FS_Subset
<1>2. Cardinality(T) <= Cardinality(S) /\ IsFiniteSet(T)
  BY <1>1, FS_Subset
<1>3. Cardinality(T) \in Nat /\ Cardinality(S) \in Nat
  BY <1>1, <1>2, FS_CardinalityType
<1> QED
  BY <1>2, <1>3

\* Rows of the table are numbers below the sequence.
LEMMA TableFacts ==
    ASSUME TypeOK
    PROVE  /\ last \in Nat /\ last <= MaxEvent
           /\ table \in SUBSET Nat /\ table \in SUBSET EventIds /\ table \in SUBSET (1 .. last)
           /\ open \in SUBSET Nat /\ open \in SUBSET EventIds
           /\ \A e \in table : e <= last
BY DEF TypeOK, EventIds

LEMMA NewestFacts ==
    ASSUME TypeOK
    PROVE  /\ Newest \in 0 .. MaxEvent
           /\ Newest \in table \cup {0}
           /\ \A e \in table : e <= Newest
<1>1. CASE table = {}
  BY <1>1 DEF Newest
<1>2. CASE table # {}
  <2>1. Max(table) \in table /\ \A y \in table : y <= Max(table)
    BY <1>2, TableFacts, MaxFacts
  <2> QED
    BY <1>2, <2>1, TableFacts DEF Newest, EventIds
<1> QED
  BY <1>1, <1>2

\* A batch has no holes: what lies between the cursor and a row of it is in it.
LEMMA ListEventsAfterFacts ==
    ASSUME TypeOK, NEW after \in Nat, NEW limit \in Nat
    PROVE  LET events == ListEventsAfter(after, limit)
           IN  /\ events \subseteq table
               /\ \A e \in events : e > after
               /\ \A h \in events, e \in table : after < e /\ e <= h => e \in events
<1>1. ASSUME NEW h \in ListEventsAfter(after, limit), NEW e \in table, after < e, e <= h
      PROVE  e \in ListEventsAfter(after, limit)
  <2> DEFINE Below(x) == {f \in table : f > after /\ f < x}
  <2>1. /\ e \in Nat /\ h \in Nat /\ h \in table /\ last \in Nat /\ table \in SUBSET Nat
        /\ Cardinality(Below(h)) < limit
    BY TableFacts DEF ListEventsAfter
  <2>2. Below(e) \subseteq Below(h)
    <3>1. e \in Nat /\ h \in Nat /\ table \in SUBSET Nat /\ e <= h
      BY <1>1, <2>1
    <3>2. \A f \in table : f < e => f < h
      BY <3>1
    <3> QED
      BY <3>2
  <2>3. Below(h) \in SUBSET (1 .. last)
    <3>1. Below(h) \subseteq table /\ table \subseteq 1 .. last
      BY TableFacts
    <3> QED
      BY <3>1
  <2>4. Cardinality(Below(e)) < limit
    <3> HIDE DEF Below
    <3> QED
      BY <2>1, <2>2, <2>3, FewerCounted
  <2> QED
    BY <1>1, <2>1, <2>4 DEF ListEventsAfter
<1> QED
  BY <1>1 DEF ListEventsAfter

\* The snapshot has no holes either: what is not in it is older than all of it.
LEMMA ListRecentEventsFacts ==
    ASSUME TypeOK, NEW limit \in Nat
    PROVE  LET events == ListRecentEvents(limit)
           IN  /\ events \subseteq table
               /\ \A f \in events, e \in table : e \notin events => e < f
<1>1. ASSUME NEW f \in ListRecentEvents(limit), NEW e \in table, ~(e < f)
      PROVE  e \in ListRecentEvents(limit)
  <2> DEFINE Above(x) == {g \in table : g > x}
  <2>1. /\ e \in Nat /\ f \in Nat /\ f \in table /\ last \in Nat /\ table \in SUBSET Nat
        /\ Cardinality(Above(f)) < limit
    BY TableFacts DEF ListRecentEvents
  <2>2. Above(e) \subseteq Above(f)
    <3>1. e \in Nat /\ f \in Nat /\ table \in SUBSET Nat /\ f <= e
      BY <1>1, <2>1
    <3>2. \A g \in table : g > e => g > f
      BY <3>1
    <3> QED
      BY <3>2
  <2>3. Above(f) \in SUBSET (1 .. last)
    <3>1. Above(f) \subseteq table /\ table \subseteq 1 .. last
      BY TableFacts
    <3> QED
      BY <3>1
  <2>4. Cardinality(Above(e)) < limit
    <3> HIDE DEF Above
    <3> QED
      BY <2>1, <2>2, <2>3, FewerCounted
  <2> QED
    BY <2>4 DEF ListRecentEvents
<1> QED
  BY <1>1 DEF ListRecentEvents
-------------------------------------------------------------------------------
(* Types *)

LEMMA FanFields ==
    ASSUME NEW p \in FanState
    PROVE  /\ p.start \in 0 .. MaxEvent /\ p.after \in 0 .. MaxEvent
           /\ p.start \in Nat /\ p.after \in Nat
           /\ p.batch \in SUBSET EventIds /\ p.sent \in SUBSET EventIds /\ p.failed \in SUBSET EventIds
           /\ p.batch # {} => p.up
<1>1. CASE p = FanDown
  <2>1. /\ p.start = 0 /\ p.after = 0 /\ p.batch = {} /\ p.sent = {} /\ p.failed = {}
    BY <1>1 DEF FanDown
  <2> QED
    BY <2>1
<1>2. CASE p # FanDown
  <2>1. p \in [up : {TRUE}, start : 0 .. MaxEvent, after : 0 .. MaxEvent, batch : SUBSET EventIds,
                sent : SUBSET EventIds, failed : SUBSET EventIds]
    BY <1>2 DEF FanState
  <2>2. p.up = TRUE
    BY <2>1
  <2> QED
    BY <2>1, <2>2
<1> QED
  BY <1>1, <1>2

\* A poller that runs is known by its fields.
LEMMA FanUpdates ==
    ASSUME NEW p \in FanState, p.up
    PROVE  /\ \A b \in SUBSET EventIds : [p EXCEPT !.batch = b] \in FanState
           /\ \A b, s \in SUBSET EventIds, a \in 0 .. MaxEvent :
                 [p EXCEPT !.batch = b, !.after = a, !.sent = s] \in FanState
           /\ \A b, f \in SUBSET EventIds : [p EXCEPT !.batch = b, !.failed = f] \in FanState
<1>1. p \in [up : {TRUE}, start : 0 .. MaxEvent, after : 0 .. MaxEvent, batch : SUBSET EventIds,
              sent : SUBSET EventIds, failed : SUBSET EventIds]
  <2>1. FanDown.up = FALSE
    BY DEF FanDown
  <2>2. p # FanDown
    BY <2>1
  <2> QED
    BY <2>2 DEF FanState
<1> QED
  BY <1>1 DEF FanState

LEMMA StartedFacts ==
    ASSUME NEW id \in 0 .. MaxEvent
    PROVE  LET p == [FanDown EXCEPT !.up = TRUE, !.start = id, !.after = id]
           IN  /\ p \in FanState
               /\ p.start = id /\ p.after = id /\ p.batch = {} /\ p.sent = {} /\ p.failed = {}
BY DEF FanDown, FanState

\* The channel changes nothing of a stream but what it has seen or missed, and
\* only of one that is live.
LEMMA DeliveredFacts ==
    ASSUME TypeOK, NEW e \in EventIds, NEW c \in BOOLEAN
    PROVE  /\ Delivered(e, c) \in StreamState
           /\ Delivered(e, c).pc = stream.pc /\ Delivered(e, c).top = stream.top
           /\ stream.pc # "live" => Delivered(e, c) = stream
<1>0. stream \in StreamState
  BY DEF TypeOK
<1>1. CASE stream.pc # "live"
  BY <1>0, <1>1 DEF Delivered
<1>2. CASE stream.pc = "live" /\ c
  <2>1. Delivered(e, c) = [stream EXCEPT !.seen = @ \cup {e}]
    BY <1>2 DEF Delivered
  <2> QED
    BY <1>0, <1>2, <2>1 DEF StreamState
<1>3. CASE stream.pc = "live" /\ ~c
  <2>1. Delivered(e, c) = [stream EXCEPT !.missed = @ \cup {e}]
    BY <1>3 DEF Delivered
  <2> QED
    BY <1>0, <1>3, <2>1 DEF StreamState
<1> QED
  BY <1>1, <1>2, <1>3

LEMMA TypeInit == Init => TypeOK
BY DEF Init, TypeOK, FanState, FanDown, StreamState, StreamClosed, EventIds

\* PublishClusterEvent is called for the first row of the batch, and the stream
\* gets it or does not.
LEMMA PublishFacts ==
    ASSUME TypeOK, NEW r \in Replicas, PublishOk(r) \/ PublishError(r)
    PROVE  \E e \in fan[r].batch :
              /\ e \in EventIds /\ e \in Nat
              /\ \A f \in fan[r].batch : e <= f
              /\ \/ fan' = [fan EXCEPT ![r].batch = @ \ {e}, ![r].after = e, ![r].sent = @ \cup {e}]
                 \/ fan' = [fan EXCEPT ![r].batch = @ \ {e}, ![r].failed = @ \cup {e}]
              /\ stream' = stream \/ \E c \in BOOLEAN : stream' = Delivered(e, c)
              /\ UNCHANGED <<last, open, table, late, leading>>
<1> DEFINE m == Min(fan[r].batch)
<1>1. fan[r].batch \in SUBSET EventIds /\ fan[r].batch # {}
  BY FanFields DEF TypeOK, PublishOk, PublishError
<1>2. m \in fan[r].batch /\ \A f \in fan[r].batch : m <= f
  <2>1. fan[r].batch \in SUBSET Nat
    BY <1>1 DEF EventIds
  <2> QED
    BY <1>1, <2>1, MinFacts
<1>3. m \in EventIds /\ m \in Nat
  BY <1>1, <1>2 DEF EventIds
<1>4. CASE PublishOk(r)
  <2>1. /\ fan' = [fan EXCEPT ![r].batch = @ \ {m}, ![r].after = m, ![r].sent = @ \cup {m}]
        /\ \E c \in BOOLEAN : stream' = Delivered(m, c)
        /\ UNCHANGED <<last, open, table, late, leading>>
    BY <1>4 DEF PublishOk
  <2> HIDE DEF m
  <2> QED
    BY <1>2, <1>3, <2>1
<1>5. CASE PublishError(r)
  <2>1. /\ fan' = [fan EXCEPT ![r].batch = @ \ {m}, ![r].failed = @ \cup {m}]
        /\ stream' \in {stream, Delivered(m, TRUE)}
        /\ UNCHANGED <<last, open, table, late, leading>>
    BY <1>5 DEF PublishError
  <2> HIDE DEF m
  <2>2. stream' = stream \/ \E c \in BOOLEAN : stream' = Delivered(m, c)
    BY <2>1
  <2> QED
    BY <1>2, <1>3, <2>1, <2>2
<1> QED
  BY <1>4, <1>5

\* The steps of the poller of one replica.
LEMMA FanStepType ==
    ASSUME TypeOK, NEW r \in Replicas, FanStep(r)
    PROVE  TypeOK'
<1>0. fan \in [Replicas -> FanState] /\ fan[r] \in FanState /\ stream \in StreamState
  BY DEF TypeOK
<1>1. CASE FanStart(r)
  <2>1. PICK id \in {0, Newest} :
            fan' = [fan EXCEPT ![r] = [FanDown EXCEPT !.up = TRUE, !.start = id, !.after = id]]
    BY <1>1 DEF FanStart
  <2>2. id \in 0 .. MaxEvent
    BY NewestFacts
  <2>3. fan' \in [Replicas -> FanState]
    BY <1>0, <2>1, <2>2, StartedFacts
  <2> QED
    BY <1>1, <2>3 DEF FanStart, TypeOK
<1>2. CASE FanStop(r)
  <2>1. fan' \in [Replicas -> FanState]
    BY <1>0, <1>2 DEF FanStop, FanState
  <2> QED
    BY <1>2, <2>1 DEF FanStop, TypeOK
<1>3. CASE FanList(r)
  <2>1. ListEventsAfter(fan[r].after, BatchLimit) \in SUBSET EventIds
    BY TableFacts DEF ListEventsAfter
  <2>2. [fan[r] EXCEPT !.batch = ListEventsAfter(fan[r].after, BatchLimit)] \in FanState
    BY <1>0, <1>3, <2>1, FanUpdates DEF FanList
  <2>3. fan' \in [Replicas -> FanState]
    BY <1>0, <1>3, <2>2 DEF FanList
  <2> QED
    BY <1>3, <2>3 DEF FanList, TypeOK
<1>4. CASE PublishOk(r) \/ PublishError(r)
  <2>0. /\ fan[r].batch \in SUBSET EventIds /\ fan[r].batch # {} /\ fan[r].up
        /\ fan[r].sent \in SUBSET EventIds /\ fan[r].failed \in SUBSET EventIds
    BY <1>0, <1>4, FanFields DEF PublishOk, PublishError
  <2>1. PICK e \in EventIds :
            /\ \/ fan' = [fan EXCEPT ![r].batch = @ \ {e}, ![r].after = e, ![r].sent = @ \cup {e}]
               \/ fan' = [fan EXCEPT ![r].batch = @ \ {e}, ![r].failed = @ \cup {e}]
            /\ stream' = stream \/ \E c \in BOOLEAN : stream' = Delivered(e, c)
    BY <1>4, PublishFacts
  <2>2. e \in 0 .. MaxEvent
    BY DEF EventIds
  <2>3. /\ [fan[r] EXCEPT !.batch = @ \ {e}, !.after = e, !.sent = @ \cup {e}] \in FanState
        /\ [fan[r] EXCEPT !.batch = @ \ {e}, !.failed = @ \cup {e}] \in FanState
    <3>1. /\ fan[r].batch \ {e} \in SUBSET EventIds
          /\ fan[r].sent \cup {e} \in SUBSET EventIds /\ fan[r].failed \cup {e} \in SUBSET EventIds
      BY <2>0
    <3> QED
      BY <1>0, <2>0, <2>2, <3>1, FanUpdates
  <2>5. fan' \in [Replicas -> FanState]
    BY <1>0, <2>1, <2>3
  <2>6. stream' \in StreamState
    BY <1>0, <2>1, DeliveredFacts
  <2> QED
    BY <1>4, <2>5, <2>6 DEF PublishOk, PublishError, TypeOK
<1> QED
  BY <1>1, <1>2, <1>3, <1>4 DEF FanStep

\* The steps of the stream.
StreamStep == StreamOpen \/ StreamSubscribe \/ StreamPoll \/ PollTick \/ StreamClose

LEMMA StreamStepType ==
    ASSUME TypeOK, StreamStep
    PROVE  TypeOK'
<1>0. stream \in StreamState /\ StreamClosed \in StreamState
  BY DEF TypeOK, StreamState, StreamClosed
<1>1. CASE StreamOpen
  <2>1. ListRecentEvents(SnapshotLimit) \in SUBSET EventIds /\ Newest \in 0 .. MaxEvent
    BY TableFacts, NewestFacts DEF ListRecentEvents
  <2>2. stream' \in StreamState
    BY <1>0, <1>1, <2>1 DEF StreamOpen, StreamState
  <2> QED
    BY <1>1, <2>2 DEF StreamOpen, TypeOK
<1>2. CASE StreamSubscribe \/ StreamClose
  <2>1. stream' \in StreamState
    BY <1>0, <1>2 DEF StreamSubscribe, StreamClose, StreamState
  <2> QED
    BY <1>2, <2>1 DEF StreamSubscribe, StreamClose, TypeOK
<1>3. CASE StreamPoll
  <2>1. PICK id \in {0, Newest} : stream' = [stream EXCEPT !.pc = "polling", !.start = id, !.after = id]
    BY <1>3 DEF StreamPoll
  <2>2. id \in 0 .. MaxEvent
    BY NewestFacts
  <2>3. stream' \in StreamState
    BY <1>0, <2>1, <2>2 DEF StreamState
  <2> QED
    BY <1>3, <2>3 DEF StreamPoll, TypeOK
<1>4. CASE PollTick
  <2> DEFINE events == ListEventsAfter(stream.after, PollLimit)
  <2>1. events \in SUBSET table /\ events # {}
    BY <1>4 DEF PollTick, ListEventsAfter
  <2>2. Max(events) \in events
    <3>1. events \in SUBSET Nat /\ last \in Nat /\ \A y \in events : y <= last
      BY <2>1, TableFacts
    <3> HIDE DEF events
    <3> QED
      BY <2>1, <3>1, MaxFacts
  <2>3. stream' = [stream EXCEPT !.seen = @ \cup events, !.after = Max(events)]
    BY <1>4 DEF PollTick
  <2>4. stream' \in StreamState
    <3>1. events \in SUBSET EventIds /\ Max(events) \in 0 .. MaxEvent
      BY <2>1, <2>2, TableFacts DEF EventIds
    <3> HIDE DEF events
    <3> QED
      BY <1>0, <2>3, <3>1 DEF StreamState
  <2> QED
    BY <1>4, <2>4 DEF PollTick, TypeOK
<1> QED
  BY <1>1, <1>2, <1>3, <1>4 DEF StreamStep

LEMMA TypeNext == TypeOK /\ [Next]_vars => TypeOK'
<1> SUFFICES ASSUME TypeOK, [Next]_vars PROVE TypeOK'
  OBVIOUS
<1>1. CASE InsertEvent
  BY <1>1 DEF InsertEvent, TypeOK
<1>2. ASSUME NEW e \in open, Commit(e) \/ Rollback(e)
      PROVE  TypeOK'
  BY <1>2 DEF Commit, Rollback, TypeOK
<1>3. ASSUME NEW r \in Replicas, Lead(r) \/ Unlead(r)
      PROVE  TypeOK'
  BY <1>3 DEF Lead, Unlead, TypeOK
<1>4. ASSUME NEW r \in Replicas, FanStep(r)
      PROVE  TypeOK'
  BY <1>4, FanStepType
<1>5. CASE StreamStep
  BY <1>5, StreamStepType
<1>6. CASE UNCHANGED vars
  BY <1>6 DEF vars, TypeOK
<1> QED
  BY <1>1, <1>2, <1>3, <1>4, <1>5, <1>6 DEF Next, StreamStep

\* Ids stay within the sequence, and a poller that is down holds nothing.
THEOREM TypeCorrect == Spec => []TypeOK
  BY TypeInit, TypeNext, PTL DEF Spec
-------------------------------------------------------------------------------
(* The cursor of a poller *)

\* The strengthening: the batch lies ahead of the cursor and what was published
\* does not, the cursor stands on a row or where it started, and everything up
\* to the end of the batch is accounted for.
CursorSound(p) ==
    /\ p.batch \subseteq table
    /\ \A e \in p.batch : p.after < e
    /\ \A e \in p.sent : e <= p.after
    /\ p.after \in table \cup {p.start}
    /\ \A e \in table :
          p.start < e /\ (e <= p.after \/ \E h \in p.batch : e <= h)
          => e \in p.sent \cup p.failed \cup p.batch \cup late

CursorInv == \A r \in Replicas : CursorSound(fan[r])

\* A row that commits below the cursor, or below a row of the batch, is late.
LEMMA CursorCommit ==
    ASSUME TypeOK, CursorInv, NEW e \in open, Commit(e)
    PROVE  CursorInv'
<1> SUFFICES ASSUME NEW r \in Replicas PROVE CursorSound(fan[r])'
  BY DEF CursorInv
<1> DEFINE p == fan[r]
<1>1. CursorSound(p) /\ p \in FanState
  BY DEF CursorInv, TypeOK
<1>2. /\ p.after \in Nat /\ p.start \in Nat /\ p.batch \in SUBSET table
      /\ table \in SUBSET Nat /\ e \in Nat /\ e \notin table
  BY <1>1, FanFields, TableFacts DEF CursorSound, TypeOK
<1>3. /\ table' = table \cup {e} /\ late \subseteq late' /\ fan' = fan
      /\ (\E f \in table : f > e) => e \in late'
  BY DEF Commit
<1>4. p.start < e /\ (e <= p.after \/ \E h \in p.batch : e <= h) => \E f \in table : f > e
  <2>1. CASE p.start < e /\ e <= p.after
    <3>1. p.after \in table
      BY <1>1, <1>2, <2>1 DEF CursorSound
    <3> QED
      BY <1>2, <2>1, <3>1
  <2>2. ASSUME NEW h \in p.batch, e <= h PROVE \E f \in table : f > e
    <3>1. h \in table /\ h \in Nat /\ h # e
      BY <1>2
    <3>2. h > e
      BY <1>2, <2>2, <3>1
    <3> QED
      BY <3>1, <3>2
  <2> QED
    BY <2>1, <2>2
<1> HIDE DEF p
<1>5. /\ p.batch \subseteq table'
      /\ \A f \in p.batch : p.after < f
      /\ \A f \in p.sent : f <= p.after
      /\ p.after \in table' \cup {p.start}
  BY <1>1, <1>3 DEF CursorSound
<1>6. \A f \in table' :
          p.start < f /\ (f <= p.after \/ \E h \in p.batch : f <= h)
          => f \in p.sent \cup p.failed \cup p.batch \cup late'
  BY <1>1, <1>3, <1>4 DEF CursorSound
<1> QED
  BY <1>3, <1>5, <1>6 DEF CursorSound, p

\* A poller that starts, stops, lists or publishes.
LEMMA CursorFanStep ==
    ASSUME TypeOK, CursorInv, NEW r \in Replicas, FanStep(r)
    PROVE  CursorInv'
<1> DEFINE p == fan[r]
<1>0. /\ fan \in [Replicas -> FanState] /\ p \in FanState /\ CursorSound(p)
      /\ p.after \in Nat /\ p.start \in Nat
      /\ table \in SUBSET Nat /\ p.sent \in SUBSET Nat
  BY FanFields, TableFacts DEF TypeOK, CursorInv, EventIds
<1>1. UNCHANGED <<table, late>> /\ \A s \in Replicas : s # r => fan'[s] = fan[s]
  BY <1>0 DEF FanStep, FanStart, FanStop, FanList, PublishOk, PublishError
<1>2. SUFFICES CursorSound(fan'[r])
  BY <1>1 DEF CursorInv, CursorSound
<1>3. CASE FanStart(r)
  <2>1. PICK id \in {0, Newest} :
            fan' = [fan EXCEPT ![r] = [FanDown EXCEPT !.up = TRUE, !.start = id, !.after = id]]
    BY <1>3 DEF FanStart
  <2>2. id \in 0 .. MaxEvent
    BY NewestFacts
  <2>3. /\ fan'[r].start = id /\ fan'[r].after = id
        /\ fan'[r].batch = {} /\ fan'[r].sent = {}
    BY <1>0, <2>1, <2>2, StartedFacts
  <2> QED
    BY <1>0, <2>2, <2>3 DEF CursorSound
<1>4. CASE FanStop(r)
  <2>1. /\ fan'[r].start = 0 /\ fan'[r].after = 0
        /\ fan'[r].batch = {} /\ fan'[r].sent = {}
    BY <1>0, <1>4 DEF FanStop, FanDown
  <2>2. \A e \in table : ~(0 < e /\ e <= 0)
    BY <1>0
  <2> QED
    BY <2>1, <2>2 DEF CursorSound
<1>5. CASE FanList(r)
  <2> DEFINE events == ListEventsAfter(p.after, BatchLimit)
  <2>1. /\ fan'[r].batch = events /\ fan'[r].after = p.after /\ fan'[r].start = p.start
        /\ fan'[r].sent = p.sent /\ fan'[r].failed = p.failed
    <3>1. fan'[r] = [p EXCEPT !.batch = events]
      BY <1>0, <1>5 DEF FanList
    <3>2. p.up
      BY <1>5 DEF FanList
    <3>3. p # FanDown
      <4>1. FanDown.up = FALSE
        BY DEF FanDown
      <4> QED
        BY <3>2, <4>1
    <3>4. p \in [up : {TRUE}, start : 0 .. MaxEvent, after : 0 .. MaxEvent, batch : SUBSET EventIds,
                  sent : SUBSET EventIds, failed : SUBSET EventIds]
      BY <1>0, <3>3 DEF FanState
    <3> HIDE DEF p, events
    <3> QED
      BY <3>1, <3>4
  <2>2. /\ events \subseteq table
        /\ \A e \in events : e > p.after
        /\ \A h \in events, e \in table : p.after < e /\ e <= h => e \in events
    BY <1>0, ListEventsAfterFacts
  <2>3. p.batch = {}
    BY <1>5 DEF FanList
  <2> HIDE DEF events, p
  <2>4. \A e \in table :
           p.start < e /\ (e <= p.after \/ \E h \in events : e <= h)
           => e \in p.sent \cup p.failed \cup events \cup late
    <3> SUFFICES ASSUME NEW e \in table, p.start < e, e <= p.after \/ \E h \in events : e <= h
                 PROVE  e \in p.sent \cup p.failed \cup events \cup late
      OBVIOUS
    <3>1. CASE e <= p.after
      BY <1>0, <2>3, <3>1 DEF CursorSound
    <3>2. CASE ~(e <= p.after)
      <4>1. p.after < e
        BY <1>0, <3>2
      <4> QED
        BY <2>2, <3>2, <4>1
    <3> QED
      BY <3>1, <3>2
  <2>5. /\ \A e \in events : p.after < e
        /\ \A e \in p.sent : e <= p.after
        /\ p.after \in table \cup {p.start}
    BY <1>0, <2>2 DEF CursorSound
  <2> QED
    BY <2>1, <2>2, <2>4, <2>5 DEF CursorSound
<1>6. CASE PublishOk(r) \/ PublishError(r)
  <2>1. PICK e \in p.batch :
            /\ e \in Nat
            /\ \A f \in p.batch : e <= f
            /\ \/ fan' = [fan EXCEPT ![r].batch = @ \ {e}, ![r].after = e, ![r].sent = @ \cup {e}]
               \/ fan' = [fan EXCEPT ![r].batch = @ \ {e}, ![r].failed = @ \cup {e}]
    BY <1>6, PublishFacts
  <2>2. p \in [up : {TRUE}, start : 0 .. MaxEvent, after : 0 .. MaxEvent, batch : SUBSET EventIds,
                sent : SUBSET EventIds, failed : SUBSET EventIds]
    <3>1. FanDown.batch = {}
      BY DEF FanDown
    <3>2. p # FanDown
      BY <2>1, <3>1
    <3> QED
      BY <1>0, <3>2 DEF FanState
  <2>3. CASE fan' = [fan EXCEPT ![r].batch = @ \ {e}, ![r].after = e, ![r].sent = @ \cup {e}]
    <3>1. fan'[r] = [p EXCEPT !.batch = @ \ {e}, !.after = e, !.sent = @ \cup {e}]
      BY <1>0, <2>3
    <3> HIDE DEF p
    <3>2. /\ fan'[r].batch = p.batch \ {e} /\ fan'[r].after = e /\ fan'[r].start = p.start
          /\ fan'[r].sent = p.sent \cup {e} /\ fan'[r].failed = p.failed
      BY <2>2, <3>1
    <3>3. /\ \A f \in p.batch \ {e} : e < f
          /\ \A f \in p.sent \cup {e} : f <= e
      BY <1>0, <2>1 DEF CursorSound
    <3>4. p.batch \subseteq table /\ e \in table
      BY <1>0, <2>1 DEF CursorSound
    <3>5. \A f \in table :
             p.start < f /\ (f <= e \/ \E h \in p.batch \ {e} : f <= h)
             => f \in p.sent \cup p.failed \cup p.batch \cup late
      BY <1>0, <2>1 DEF CursorSound
    <3> QED
      BY <3>2, <3>3, <3>4, <3>5 DEF CursorSound
  <2>4. CASE fan' = [fan EXCEPT ![r].batch = @ \ {e}, ![r].failed = @ \cup {e}]
    <3>1. fan'[r] = [p EXCEPT !.batch = @ \ {e}, !.failed = @ \cup {e}]
      BY <1>0, <2>4
    <3> HIDE DEF p
    <3>2. /\ fan'[r].batch = p.batch \ {e} /\ fan'[r].after = p.after /\ fan'[r].start = p.start
          /\ fan'[r].sent = p.sent /\ fan'[r].failed = p.failed \cup {e}
      BY <2>2, <3>1
    <3>3. \A f \in table :
             p.start < f /\ (f <= p.after \/ \E h \in p.batch \ {e} : f <= h)
             => f \in p.sent \cup p.failed \cup p.batch \cup late
      BY <1>0 DEF CursorSound
    <3> QED
      BY <1>0, <3>2, <3>3 DEF CursorSound
  <2> QED
    BY <2>1, <2>3, <2>4
<1> QED
  BY <1>3, <1>4, <1>5, <1>6 DEF FanStep

LEMMA CursorNext == TypeOK /\ CursorInv /\ [Next]_vars => CursorInv'
<1> SUFFICES ASSUME TypeOK, CursorInv, [Next]_vars PROVE CursorInv'
  OBVIOUS
<1>1. ASSUME NEW e \in open, Commit(e) PROVE CursorInv'
  BY <1>1, CursorCommit
<1>2. ASSUME NEW r \in Replicas, FanStep(r) PROVE CursorInv'
  BY <1>2, CursorFanStep
<1>3. CASE UNCHANGED <<table, late, fan>>
  BY <1>3 DEF CursorInv, CursorSound
<1> QED
  BY <1>1, <1>2, <1>3 DEF Next, InsertEvent, Rollback, Lead, Unlead, StreamOpen, StreamSubscribe,
                          StreamPoll, PollTick, StreamClose, vars

LEMMA CursorHolds == Spec => [](TypeOK /\ CursorInv)
<1>1. Init => CursorInv
  BY DEF Init, CursorInv, CursorSound, FanDown
<1> QED
  BY <1>1, TypeInit, TypeNext, CursorNext, PTL DEF Spec

\* A poller leaves an event out only if its publication failed or the row
\* committed after one with a greater id, whatever BatchLimit is.
THEOREM GapsExplained == Spec => []FanGapsExplained
<1>1. TypeOK /\ CursorInv => FanGapsExplained
  <2> SUFFICES ASSUME TypeOK, CursorInv, NEW r \in Replicas, NEW e \in table,
                      fan[r].start < e, e <= fan[r].after
               PROVE  e \in fan[r].sent \cup fan[r].failed \cup late
    BY DEF FanGapsExplained
  <2>1. CursorSound(fan[r]) /\ fan[r].after \in Nat /\ e \in Nat
    BY FanFields, TableFacts DEF TypeOK, CursorInv
  <2>2. e \notin fan[r].batch
    BY <2>1 DEF CursorSound
  <2> QED
    BY <2>1, <2>2 DEF CursorSound
<1> QED
  BY <1>1, CursorHolds, PTL

\* A poller has nothing in its batch that it has published already.
THEOREM NothingReplayed == Spec => []NoReplay
<1>1. TypeOK /\ CursorInv => NoReplay
  <2> SUFFICES ASSUME TypeOK, CursorInv, NEW r \in Replicas, NEW e \in fan[r].batch, e \in fan[r].sent
               PROVE  FALSE
    BY DEF NoReplay
  <2>1. CursorSound(fan[r]) /\ fan[r].after \in Nat /\ e \in Nat
    BY FanFields, TableFacts DEF TypeOK, CursorInv, CursorSound
  <2> QED
    BY <2>1 DEF CursorSound
<1> QED
  BY <1>1, CursorHolds, PTL
-------------------------------------------------------------------------------
(* The cursor of a stream *)

\* What the snapshot leaves out up to its newest row is older than all of it, or late.
Snapshot ==
    \A e \in table : e <= stream.top =>
        e \in stream.seen \cup late \/ \A f \in stream.seen : f <= stream.top => e < f

\* The strengthening: the snapshot stays without holes, and a stream that polls
\* has shown what was committed in time between its start and its cursor.
StreamInv ==
    /\ stream.top \in table \cup {0}
    /\ stream.pc = "opened" => Snapshot
    /\ stream.pc = "polling" =>
          /\ stream.after \in table \cup {stream.start}
          /\ stream.start <= stream.after
          /\ \A e \in table : stream.start < e /\ e <= stream.after => e \in stream.seen \cup late
          /\ stream.start = 0 \/ (stream.top <= stream.start /\ Snapshot)

LEMMA StreamFields ==
    ASSUME TypeOK
    PROVE  /\ stream \in StreamState
           /\ stream.top \in Nat /\ stream.start \in Nat /\ stream.after \in Nat
           /\ stream.seen \in SUBSET Nat
BY DEF TypeOK, StreamState, EventIds

\* A row that commits below the snapshot's newest row or the cursor is late.
LEMMA StreamCommit ==
    ASSUME TypeOK, StreamInv, NEW e \in open, Commit(e)
    PROVE  StreamInv'
<1>1. /\ stream.top \in Nat /\ stream.start \in Nat /\ stream.after \in Nat
      /\ table \in SUBSET Nat /\ e \in Nat /\ e # 0 /\ e \notin table
  BY StreamFields, TableFacts DEF TypeOK
<1>2. /\ table' = table \cup {e} /\ late \subseteq late' /\ stream' = stream
      /\ (\E f \in table : f > e) => e \in late'
  BY DEF Commit
<1>3. e <= stream.top => e \in late'
  <2>1. SUFFICES ASSUME e <= stream.top PROVE \E f \in table : f > e
    BY <1>2
  <2>2. stream.top \in table
    BY <1>1, <2>1 DEF StreamInv
  <2> QED
    BY <1>1, <2>1, <2>2
<1>4. Snapshot => Snapshot'
  BY <1>2, <1>3 DEF Snapshot
<1>5. stream.pc = "polling" /\ stream.start < e /\ e <= stream.after => e \in late'
  <2>1. SUFFICES ASSUME stream.pc = "polling", stream.start < e, e <= stream.after
                 PROVE  \E f \in table : f > e
    BY <1>2
  <2>2. stream.after \in table
    BY <1>1, <2>1 DEF StreamInv
  <2> QED
    BY <1>1, <2>1, <2>2
<1> QED
  BY <1>2, <1>4, <1>5 DEF StreamInv

\* What the stream does itself.
LEMMA StreamOwnStep ==
    ASSUME TypeOK, StreamInv, StreamStep
    PROVE  StreamInv'
<1>0. /\ stream \in StreamState /\ stream.top \in Nat /\ stream.start \in Nat /\ stream.after \in Nat
      /\ table \in SUBSET Nat
      /\ Newest \in Nat /\ Newest \in table \cup {0} /\ \A e \in table : e <= Newest
  BY StreamFields, TableFacts, NewestFacts
<1>1. UNCHANGED <<table, late>>
  BY DEF StreamStep, StreamOpen, StreamSubscribe, StreamPoll, PollTick, StreamClose
<1>2. CASE StreamOpen
  <2> DEFINE shown == ListRecentEvents(SnapshotLimit)
  <2>1. \A f \in shown, e \in table : e \notin shown => e < f
    BY ListRecentEventsFacts
  <2> HIDE DEF shown
  <2>2. \/ /\ stream'.pc = "opened" /\ stream'.top = Newest /\ stream'.seen = shown
        \/ /\ stream'.pc = "opened" /\ stream'.top = 0 /\ stream'.seen = {}
    BY <1>2 DEF StreamOpen, StreamClosed, shown
  <2>3. Snapshot'
    BY <1>1, <2>1, <2>2 DEF Snapshot
  <2> QED
    BY <1>0, <1>1, <2>2, <2>3 DEF StreamInv
<1>3. CASE StreamSubscribe
  <2>1. stream'.pc = "live" /\ stream'.top = stream.top
    BY <1>0, <1>3 DEF StreamSubscribe, StreamState
  <2> QED
    BY <1>1, <2>1 DEF StreamInv
<1>4. CASE StreamClose
  <2>1. stream'.pc = "closed" /\ stream'.top = 0
    BY <1>4 DEF StreamClose, StreamClosed
  <2> QED
    BY <2>1 DEF StreamInv
<1>5. CASE StreamPoll
  <2>1. PICK id \in {0, Newest} : stream' = [stream EXCEPT !.pc = "polling", !.start = id, !.after = id]
    BY <1>5 DEF StreamPoll
  <2>2. /\ stream'.pc = "polling" /\ stream'.top = stream.top /\ stream'.seen = stream.seen
        /\ stream'.start = id /\ stream'.after = id
    BY <1>0, <2>1 DEF StreamState
  <2>3. id \in Nat
    BY <1>0
  <2>4. Snapshot'
    BY <1>1, <1>5, <2>2 DEF StreamPoll, StreamInv, Snapshot
  <2>5. id = 0 \/ stream.top <= id
    BY <1>0 DEF StreamInv
  <2>6. \A e \in table : ~(id < e /\ e <= id)
    BY <1>0, <2>3
  <2>7. id <= id
    BY <2>3
  <2>8. stream'.top \in table' \cup {0}
    BY <1>1, <2>2 DEF StreamInv
  <2> QED
    BY <1>1, <2>2, <2>4, <2>5, <2>6, <2>7, <2>8 DEF StreamInv
<1>6. CASE PollTick
  <2> DEFINE events == ListEventsAfter(stream.after, PollLimit)
  <2>1. /\ events \subseteq table
        /\ \A f \in events : f > stream.after
        /\ \A h \in events, e \in table : stream.after < e /\ e <= h => e \in events
    BY <1>0, ListEventsAfterFacts
  <2>2. events # {} /\ stream.pc = "polling"
    BY <1>6 DEF PollTick
  <2> DEFINE top == Max(events)
  <2>3. top \in events
    <3>1. events \in SUBSET Nat /\ last \in Nat /\ \A y \in events : y <= last
      BY <2>1, TableFacts
    <3> HIDE DEF events
    <3> QED
      BY <2>2, <3>1, MaxFacts
  <2>4. stream' = [stream EXCEPT !.seen = @ \cup events, !.after = top]
    BY <1>6 DEF PollTick
  <2> HIDE DEF events, top
  <2>5. /\ stream'.pc = "polling" /\ stream'.top = stream.top /\ stream'.start = stream.start
        /\ stream'.seen = stream.seen \cup events /\ stream'.after = top
    BY <1>0, <2>2, <2>4 DEF StreamState
  <2>6. top \in table /\ top \in Nat /\ stream.after < top /\ stream.start <= top
    BY <1>0, <2>1, <2>2, <2>3 DEF StreamInv
  <2>7. \A e \in table : stream.start < e /\ e <= top => e \in stream.seen \cup events \cup late
    <3> SUFFICES ASSUME NEW e \in table, stream.start < e, e <= top
                 PROVE  e \in stream.seen \cup events \cup late
      OBVIOUS
    <3>1. CASE e <= stream.after
      BY <2>2, <3>1 DEF StreamInv
    <3>2. CASE stream.after < e
      BY <2>1, <2>3, <3>2
    <3> QED
      BY <1>0, <3>1, <3>2
  <2>8. stream.start = 0 \/ (stream.top <= stream.start /\ Snapshot')
    <3> SUFFICES ASSUME stream.start # 0
                 PROVE  stream.top <= stream.start /\ Snapshot'
      OBVIOUS
    <3>1. stream.top <= stream.start /\ Snapshot /\ stream.start <= stream.after
      BY <2>2 DEF StreamInv
    <3>2. \A f \in events : ~(f <= stream.top)
      BY <1>0, <2>1, <3>1
    <3>3. Snapshot'
      BY <1>1, <2>5, <3>1, <3>2 DEF Snapshot
    <3> QED
      BY <3>1, <3>3
  <2>9. stream'.top \in table' \cup {0}
    BY <1>1, <2>5 DEF StreamInv
  <2> QED
    BY <1>1, <2>5, <2>6, <2>7, <2>8, <2>9 DEF StreamInv
<1> QED
  BY <1>2, <1>3, <1>4, <1>5, <1>6 DEF StreamStep

LEMMA StreamNext == TypeOK /\ StreamInv /\ [Next]_vars => StreamInv'
<1> SUFFICES ASSUME TypeOK, StreamInv, [Next]_vars PROVE StreamInv'
  OBVIOUS
<1>1. ASSUME NEW e \in open, Commit(e) PROVE StreamInv'
  BY <1>1, StreamCommit
<1>2. CASE StreamStep
  BY <1>2, StreamOwnStep
<1>3. ASSUME NEW r \in Replicas, PublishOk(r) \/ PublishError(r) PROVE StreamInv'
  <2>1. PICK e \in EventIds : /\ stream' = stream \/ \E c \in BOOLEAN : stream' = Delivered(e, c)
                             /\ UNCHANGED <<table, late>>
    BY <1>3, PublishFacts
  <2>2. /\ stream'.pc = stream.pc /\ stream'.top = stream.top
        /\ stream.pc # "live" => stream' = stream
    BY <2>1, DeliveredFacts
  <2>3. CASE stream.pc = "live"
    BY <2>1, <2>2, <2>3 DEF StreamInv
  <2>4. CASE stream.pc # "live"
    BY <2>1, <2>2, <2>4 DEF StreamInv, Snapshot
  <2> QED
    BY <2>3, <2>4
<1>4. CASE UNCHANGED <<table, late, stream>>
  BY <1>4 DEF StreamInv, Snapshot
<1> QED
  BY <1>1, <1>2, <1>3, <1>4 DEF Next, StreamStep, InsertEvent, Rollback, Lead, Unlead, FanStep, FanStart,
                                FanStop, FanList, vars

\* A stream that polls leaves an event out only for the three reasons that
\* handleEventsStream and pollEventsSSE have, whatever the limits are.
THEOREM StreamExplained == Spec => []StreamGapsExplained
<1>1. Init => StreamInv
  BY DEF Init, StreamInv, StreamClosed
<1>2. TypeOK /\ StreamInv => StreamGapsExplained
  <2> SUFFICES ASSUME TypeOK, StreamInv, stream.pc = "polling", NEW e \in table, e <= stream.after
               PROVE  \/ e \in stream.seen \cup late
                      \/ stream.top < e /\ e <= stream.start
                      \/ e <= stream.top /\ \A f \in stream.seen : f <= stream.top => e < f
    BY DEF StreamGapsExplained
  <2>1. stream.top \in Nat /\ stream.start \in Nat /\ stream.after \in Nat /\ e \in Nat /\ e # 0
    BY StreamFields, TableFacts DEF TypeOK
  <2>2. CASE stream.start < e
    BY <2>2 DEF StreamInv
  <2>3. CASE e <= stream.start
    <3>1. Snapshot
      BY <2>1, <2>3 DEF StreamInv
    <3>2. CASE e <= stream.top
      BY <3>1, <3>2 DEF Snapshot
    <3>3. CASE stream.top < e
      BY <2>3, <3>3
    <3> QED
      BY <2>1, <3>2, <3>3
  <2> QED
    BY <2>1, <2>2, <2>3
<1> QED
  BY <1>1, <1>2, TypeInit, TypeNext, StreamNext, PTL DEF Spec
===============================================================================
