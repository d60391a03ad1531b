---------------------------- MODULE PlacementProofs ---------------------------
(***************************************************************************)
(* Proofs about Placement, for any nodes, tasks, batches and measurements: *)
(* the loops implement Batch, a tick gives no node more than it has, tasks *)
(* left pending fit nowhere, and Place returns the best eligible node in   *)
(* whatever order the nodes are listed.                                    *)
(*                                                                         *)
(* The argument rests on BestSoFar, the invariant of Place's loop.  The    *)
(* order of preference is transitive and total on the nodes of the list,   *)
(* so one comparison with the best so far extends it by a node.            *)
(***************************************************************************)
EXTENDS Placement, StoreProofs

\* The task under consideration has positive requests.
LEMMA TaskIsTask ==
    ASSUME TypeOK, More
    PROVE  IsTask(Task)
<1>1. batch \in Batches /\ Len(place) \in Nat
  BY DEF TypeOK
<1>2. Len(batch) \in Nat /\ \A k \in 1 .. Len(batch) : IsTask(batch[k])
  BY <1>1, BatchesAssumption
<1>3. Len(place) + 1 \in 1 .. Len(batch)
  BY <1>1, <1>2 DEF More
<1> QED
  BY <1>2, <1>3 DEF Task

\* Reserving keeps amounts amounts, and takes nothing away.
LEMMA ReserveAmounts ==
    ASSUME NEW a \in Amounts, NEW t, IsTask(t)
    PROVE  /\ Reserve(a, t) \in Amounts
           /\ Reserve(a, t).cpu > a.cpu
           /\ Reserve(a, t).mem > a.mem
  BY DEF Reserve, Amounts, IsTask

LEMMA RatioType ==
    ASSUME NEW x \in Nat, NEW c \in Nat
    PROVE  Ratio(x, c) \in Int
<1>1. CASE c <= 0
  BY <1>1, UnitAssumption DEF Ratio
<1>2. CASE ~(c <= 0)
  <2>1. x * Unit \in Int /\ c > 0
    BY <1>2, UnitAssumption
  <2>2. (x * Unit) \div c \in Int
    BY <2>1
  <2> QED
    BY <1>2, <2>2 DEF Ratio
<1> QED
  BY <1>1, <1>2

LEMMA ScoreType ==
    ASSUME NEW n \in Nodes, NEW t, IsTask(t), NEW a \in Amounts
    PROVE  Score(n, t, a) \in Int
<1>1. /\ Capacity[n].cpu \in Nat
      /\ Capacity[n].mem \in Nat
  BY CapacityAssumption DEF Amounts
<1>2. ASSUME NEW b \in Amounts PROVE Utilization(n, b) \in Int
  <2>1. b.cpu \in Nat /\ b.mem \in Nat
    BY <1>2 DEF Amounts
  <2>2. Ratio(b.cpu, Capacity[n].cpu) \in Int /\ Ratio(b.mem, Capacity[n].mem) \in Int
    BY <1>1, <2>1, RatioType
  <2> QED
    BY <2>2 DEF Utilization
<1>3. BinPackScore(n, t, a) \in Int
  BY <1>2, ReserveAmounts DEF BinPackScore
<1>4. SpreadScore(n, a) \in Int
  BY <1>2, UnitAssumption DEF SpreadScore
<1> QED
  BY <1>3, <1>4 DEF Score

\* A node that fits now fitted before anything was reserved.
LEMMA EligibleAntitone ==
    ASSUME NEW n \in Nodes, NEW t, IsTask(t), NEW a \in Amounts, NEW b \in Amounts,
           a.cpu <= b.cpu, a.mem <= b.mem, Eligible(n, t, b)
    PROVE  Eligible(n, t, a)
<1>1. /\ Capacity[n].cpu \in Nat
      /\ Capacity[n].mem \in Nat
  BY CapacityAssumption DEF Amounts
<1>2. /\ b.cpu + t.cpu <= Capacity[n].cpu
      /\ b.mem + t.mem <= Capacity[n].mem
  BY DEF Eligible, ResourceFilter
<1>3. ResourceFilter(n, t, a)
  BY <1>1, <1>2 DEF ResourceFilter, Amounts, IsTask
<1> QED
  BY <1>3 DEF Eligible

-------------------------------------------------------------------------------
\* The loop variables keep their types through both loops of a tick.
LEMMA TypeInit == Init => TypeOK
<1> SUFFICES ASSUME Init PROVE TypeOK
  OBVIOUS
<1>1. /\ batch \in Batches
      /\ measured \in [Nodes -> Amounts]
      /\ alloc \in [Nodes -> Amounts]
      /\ place = <<>>
  BY MeasurementsAssumption DEF Init, BatchInit
<1>2. Len(batch) \in Nat
  BY <1>1, BatchesAssumption
<1>3. /\ place \in Seq(Nodes \cup {NoNode})
      /\ Len(place) = 0
  BY <1>1
<1>4. list \in Lists /\ Len(list) \in Nat
  BY ListsAssumption DEF Init
<1>5. 1 \in 1 .. Len(list) + 1
  BY <1>4
<1> QED
  BY <1>1, <1>2, <1>3, <1>4, <1>5 DEF Init, TypeOK

LEMMA TypeNext == TypeOK /\ [Next]_vars => TypeOK'
<1> SUFFICES ASSUME TypeOK, [Next]_vars PROVE TypeOK'
  OBVIOUS
<1>1. /\ Len(batch) \in Nat
      /\ Len(list) \in Nat
      /\ DOMAIN list = 1 .. Len(list)
      /\ \A j \in 1 .. Len(list) : list[j] \in Nodes
      /\ Len(place) \in Nat
  BY BatchesAssumption, ListsAssumption DEF TypeOK
<1>2. CASE Consider
  <2>1. PICK n, s : /\ n = list[i]
                    /\ s = Score(n, Task, alloc[n])
                    /\ best' \in {n, best}
                    /\ bestScore' \in {s, bestScore}
    BY <1>2 DEF Consider
  <2>2. i \in 1 .. Len(list) /\ n \in Nodes
    BY <1>1, <1>2, <2>1 DEF Consider, TypeOK
  <2>3. s \in Int
    BY <1>2, <2>1, <2>2, TaskIsTask, ScoreType DEF Consider, TypeOK
  <2>4. best' \in Nodes \cup {NoNode} /\ bestScore' \in Int
    BY <2>1, <2>2, <2>3 DEF TypeOK
  <2>5. i' \in 1 .. Len(list) + 1 /\ i' # 1
    BY <1>1, <1>2, <2>2 DEF Consider
  <2> QED
    BY <1>2, <2>4, <2>5 DEF Consider, TypeOK
<1>3. CASE Choose
  <2>1. place' \in Seq(Nodes \cup {NoNode}) /\ Len(place') = Len(place) + 1
    BY <1>3 DEF Choose, TypeOK
  <2>2. Len(place') <= Len(batch)
    BY <1>1, <1>3, <2>1 DEF Choose, More
  <2>3. alloc' \in [Nodes -> Amounts]
    <3>1. CASE best = NoNode
      BY <1>3, <3>1 DEF Choose, TypeOK
    <3>2. CASE best # NoNode
      <4>1. best \in Nodes /\ alloc[best] \in Amounts
        BY <3>2 DEF TypeOK
      <4>2. Reserve(alloc[best], Task) \in Amounts
        BY <1>3, <4>1, TaskIsTask, ReserveAmounts DEF Choose
      <4> QED
        BY <1>3, <3>2, <4>1, <4>2 DEF Choose, TypeOK
    <3> QED
      BY <3>1, <3>2
  <2>4. i' \in 1 .. Len(list) + 1
    BY <1>1, <1>3 DEF Choose
  <2> QED
    BY <1>3, <2>1, <2>2, <2>3, <2>4 DEF Choose, TypeOK
<1>4. CASE UNCHANGED vars
  BY <1>4 DEF vars, TypeOK
<1> QED
  BY <1>2, <1>3, <1>4 DEF Next

\* The types hold in every state of a tick.
THEOREM TypeCorrect == Spec => []TypeOK
<1> QED
  BY TypeInit, TypeNext, PTL DEF Spec

-------------------------------------------------------------------------------
\* A listed node's position is where it is listed.
LEMMA PositionOf ==
    ASSUME TypeOK, NEW j \in 1 .. Len(list)
    PROVE  Position(list[j]) = j
  BY ListsAssumption DEF TypeOK, Position

\* The order of preference, on scores, host names and positions.
LEMMA PreferredTrans ==
    ASSUME NEW sn \in Int, NEW sb \in Int, NEW sm \in Int, NEW hn \in Nat, NEW hb \in Nat, NEW hm \in Nat,
           NEW B, sn > sb \/ (sn = sb /\ hn < hb),
           sb > sm \/ (sb = sm /\ hb < hm) \/ (sb = sm /\ hb = hm /\ B)
    PROVE  sn > sm \/ (sn = sm /\ hn < hm)
  OBVIOUS

\* One more node: the comparison of Place's loop keeps the best so far, for the
\* nodes up to and including the one looked at.
LEMMA BestExtends ==
    ASSUME TypeOK, BestSoFar, More, i \in 1 .. Len(list),
           NEW n, n = list[i], NEW s, s = Score(n, Task, alloc[n]),
           NEW Seen, Seen = {list[j] : j \in 1 .. i - 1}
    PROVE  /\ Eligible(n, Task, alloc[n]) /\ Beats(n, s) => IsBest(n, Seen \cup {n})
           /\ ~(Eligible(n, Task, alloc[n]) /\ Beats(n, s)) /\ best # NoNode => IsBest(best, Seen \cup {n})
           /\ ~(Eligible(n, Task, alloc[n]) /\ Beats(n, s)) /\ best = NoNode =>
                 \A m \in Seen \cup {n} : ~Eligible(m, Task, alloc[m])
<1> DEFINE E(m) == Eligible(m, Task, alloc[m])
           S(m) == Score(m, Task, alloc[m])
<1>1. /\ Len(list) \in Nat
      /\ \A j \in 1 .. Len(list) : list[j] \in Nodes
      /\ \A j, k \in 1 .. Len(list) : list[j] = list[k] => j = k
  BY ListsAssumption DEF TypeOK
<1>2. n \in Nodes /\ Seen \subseteq Nodes /\ n \notin Seen
  BY <1>1
<1>3. \A m \in Nodes : S(m) \in Int /\ Hostname[m] \in Nat
  BY TaskIsTask, ScoreType, HostnameAssumption DEF TypeOK
<1>4. \A m \in Seen : Position(m) \in Nat /\ Position(m) < Position(n)
  <2> TAKE m \in Seen
  <2>1. PICK j \in 1 .. i - 1 : m = list[j]
    OBVIOUS
  <2>2. j \in 1 .. Len(list)
    BY <1>1, <2>1
  <2>3. Position(m) = j /\ Position(n) = i
    BY <2>1, <2>2, PositionOf
  <2> QED
    BY <2>1, <2>3
<1>5. CASE best = NoNode
  <2>1. \A m \in Seen : ~E(m)
    BY <1>5 DEF BestSoFar
  <2>2. E(n) => IsBest(n, Seen \cup {n})
    BY <2>1 DEF IsBest
  <2>3. Beats(n, s)
    BY <1>5 DEF Beats
  <2>4. ~E(n) => \A m \in Seen \cup {n} : ~E(m)
    BY <2>1
  <2> QED
    BY <1>5, <2>2, <2>3, <2>4
<1>6. CASE best # NoNode
  <2>1. /\ best \in Seen
        /\ E(best)
        /\ \A m \in Seen \ {best} : E(m) => Preferred(best, m)
        /\ bestScore = S(best)
    BY <1>6 DEF BestSoFar, IsBest
  <2>2. best \in Nodes /\ best # n
    BY <1>2, <2>1
  <2> HIDE DEF E, S
  <2>3. ASSUME NEW a \in Nodes, NEW b \in Nodes
        PROVE  Preferred(a, b) <=> \/ S(a) > S(b)
                                   \/ S(a) = S(b) /\ Hostname[a] < Hostname[b]
                                   \/ S(a) = S(b) /\ Hostname[a] = Hostname[b] /\ Position(a) < Position(b)
    BY DEF Preferred, S
  <2>4. ASSUME E(n), Beats(n, s) PROVE IsBest(n, Seen \cup {n})
    <3>1. S(n) > S(best) \/ (S(n) = S(best) /\ Hostname[n] < Hostname[best])
      BY <1>6, <2>1, <2>4 DEF Beats, S
    <3>2. ASSUME NEW m \in Seen, E(m) PROVE Preferred(n, m)
      <4>0. m \in Nodes
        BY <1>2
      <4>1. CASE m = best
        BY <1>2, <2>2, <2>3, <3>1, <4>1
      <4>2. CASE m # best
        <5>1. \/ S(best) > S(m)
              \/ S(best) = S(m) /\ Hostname[best] < Hostname[m]
              \/ S(best) = S(m) /\ Hostname[best] = Hostname[m] /\ Position(best) < Position(m)
          BY <2>1, <2>2, <2>3, <3>2, <4>0, <4>2
        <5>2. S(n) > S(m) \/ (S(n) = S(m) /\ Hostname[n] < Hostname[m])
          BY <1>2, <1>3, <2>2, <3>1, <4>0, <5>1, PreferredTrans
        <5> QED
          BY <1>2, <2>3, <4>0, <5>2
      <4> QED
        BY <4>1, <4>2
    <3> QED
      BY <2>4, <3>2 DEF IsBest, E
  <2>5. ASSUME ~(E(n) /\ Beats(n, s)) PROVE IsBest(best, Seen \cup {n})
    <3>1. ASSUME E(n) PROVE Preferred(best, n)
      <4>1. ~(S(n) > S(best)) /\ ~(S(n) = S(best) /\ Hostname[n] < Hostname[best])
        BY <1>6, <2>1, <2>5, <3>1 DEF Beats, S
      <4>2. Position(best) < Position(n)
        BY <1>4, <2>1
      <4>3. \/ S(best) > S(n)
            \/ S(best) = S(n) /\ Hostname[best] < Hostname[n]
            \/ S(best) = S(n) /\ Hostname[best] = Hostname[n]
        BY <1>2, <1>3, <2>2, <4>1
      <4> QED
        BY <1>2, <2>2, <2>3, <4>2, <4>3
    <3> QED
      BY <2>1, <3>1 DEF IsBest, E
  <2> QED
    BY <1>6, <2>4, <2>5 DEF E
<1> QED
  BY <1>5, <1>6

LEMMA BestNext == TypeOK /\ BestSoFar /\ [Next]_vars => BestSoFar'
<1> SUFFICES ASSUME TypeOK, BestSoFar, [Next]_vars PROVE BestSoFar'
  OBVIOUS
<1>1. Len(list) \in Nat /\ i \in Nat
  BY ListsAssumption DEF TypeOK
<1>2. CASE Consider
  <2>1. PICK n, s, Seen :
           /\ n = list[i]
           /\ s = Score(n, Task, alloc[n])
           /\ Seen = {list[j] : j \in 1 .. i - 1}
    OBVIOUS
  <2>2. i \in 1 .. Len(list) /\ More
    BY <1>1, <1>2 DEF Consider, TypeOK
  <2>3. /\ Task' = Task
        /\ alloc' = alloc
        /\ list' = list
        /\ More'
        /\ i' = i + 1
    BY <1>2 DEF Consider, Task, More
  <2>4. {list'[j] : j \in 1 .. i' - 1} = Seen \cup {n}
    <3>1. 1 .. i' - 1 = (1 .. i - 1) \cup {i}
      BY <1>1, <2>2, <2>3
    <3> QED
      BY <2>1, <2>3, <3>1
  <2>5. \A m, T : IsBest(m, T)' <=> IsBest(m, T)
    BY <2>3 DEF IsBest, Preferred, Position
  <2>6. n \in Nodes
    BY <2>1, <2>2, ListsAssumption DEF TypeOK
  <2>7. CASE Eligible(n, Task, alloc[n]) /\ Beats(n, s)
    <3>1. best' = n /\ bestScore' = s
      BY <1>2, <2>1, <2>7 DEF Consider
    <3>2. IsBest(n, Seen \cup {n})
      BY <2>1, <2>2, <2>7, BestExtends
    <3>3. n # NoNode
      BY <2>6, NoNodeAssumption
    <3> QED
      BY <2>1, <2>3, <2>4, <2>5, <3>1, <3>2, <3>3 DEF BestSoFar
  <2>8. CASE ~(Eligible(n, Task, alloc[n]) /\ Beats(n, s))
    <3>1. best' = best /\ bestScore' = bestScore
      BY <1>2, <2>1, <2>8 DEF Consider
    <3>2. CASE best = NoNode
      <4>1. \A m \in Seen \cup {n} : ~Eligible(m, Task, alloc[m])
        BY <2>1, <2>2, <2>8, <3>2, BestExtends
      <4> QED
        BY <2>3, <2>4, <3>1, <3>2, <4>1 DEF BestSoFar
    <3>3. CASE best # NoNode
      <4>1. IsBest(best, Seen \cup {n})
        BY <2>1, <2>2, <2>8, <3>3, BestExtends
      <4>2. bestScore = Score(best, Task, alloc[best])
        BY <3>3 DEF BestSoFar
      <4> QED
        BY <2>3, <2>4, <2>5, <3>1, <3>3, <4>1, <4>2 DEF BestSoFar
    <3> QED
      BY <3>2, <3>3
  <2> QED
    BY <2>7, <2>8
<1>3. CASE Choose
  <2>1. best' = NoNode /\ 1 .. i' - 1 = {}
    BY <1>3 DEF Choose
  <2> QED
    BY <2>1 DEF BestSoFar
<1>4. CASE UNCHANGED vars
  <2>1. /\ Task' = Task
        /\ alloc' = alloc
        /\ list' = list
        /\ More' <=> More
        /\ i' = i
        /\ best' = best
        /\ bestScore' = bestScore
    BY <1>4 DEF vars, Task, More
  <2>2. \A m, T : IsBest(m, T)' <=> IsBest(m, T)
    BY <2>1 DEF IsBest, Preferred, Position
  <2> QED
    BY <2>1, <2>2 DEF BestSoFar
<1> QED
  BY <1>2, <1>3, <1>4 DEF Next

\* When Place returns, the best so far is the best of all nodes.
LEMMA ChooseIsBest ==
    ASSUME TypeOK, BestSoFar, Choose
    PROVE  /\ best = NoNode => \A n \in Nodes : ~Eligible(n, Task, alloc[n])
           /\ best # NoNode => IsBest(best, Nodes) /\ best \in Nodes
<1>1. /\ Len(list) \in Nat
      /\ {list[j] : j \in 1 .. Len(list)} = Nodes
  BY ListsAssumption DEF TypeOK
<1>2. i - 1 = Len(list)
  BY <1>1 DEF TypeOK, Choose
<1>3. {list[j] : j \in 1 .. i - 1} = Nodes
  BY <1>1, <1>2
<1> QED
  BY <1>3 DEF BestSoFar, TypeOK

\* A step of the loops is a step of Batch, or none that it sees.
LEMMA StepImplements ==
    ASSUME TypeOK, BestSoFar, [Next]_vars
    PROVE  [BatchNext]_batchVars
<1>1. CASE Consider
  BY <1>1 DEF Consider, batchVars
<1>2. CASE Choose
  <2>1. CASE best = NoNode
    <3>1. LeaveOut
      BY <1>2, <2>1, ChooseIsBest DEF Choose, LeaveOut
    <3> QED
      BY <3>1 DEF BatchNext
  <2>2. CASE best # NoNode
    <3>1. best \in Nodes /\ Eligible(best, Task, alloc[best])
      BY <1>2, <2>2, ChooseIsBest DEF IsBest
    <3>2. PlaceOn(best)
      BY <1>2, <2>2, <3>1 DEF Choose, PlaceOn
    <3> QED
      BY <3>1, <3>2 DEF BatchNext
  <2> QED
    BY <2>1, <2>2
<1>3. CASE UNCHANGED vars
  BY <1>3 DEF vars, batchVars
<1> QED
  BY <1>1, <1>2, <1>3 DEF Next

\* Before the first node is looked at there is nothing to be better than.
LEMMA BestInit == Init => BestSoFar
  BY DEF Init, BestSoFar

\* The nested loops of Engine.tick and Place implement Batch: every task goes to
\* an eligible node, and is left pending only if there is none.
THEOREM LoopsImplementBatch == Spec => ImplementsBatch
<1>1. Init => BatchInit
  BY DEF Init
<1>2. TypeOK /\ BestSoFar /\ [Next]_vars => [BatchNext]_batchVars
  BY StepImplements
<1> QED
  BY <1>1, <1>2, TypeInit, TypeNext, BestInit, BestNext, PTL DEF Spec, ImplementsBatch, BatchSpec

\* Place returns the best eligible node in the order of preference, in whatever
\* order the nodes are listed.
THEOREM PlaceReturnsBest == Spec => PlacedOnBest
<1>1. ASSUME TypeOK, BestSoFar, [Next]_vars
      PROVE  [place' # place /\ best # NoNode => place' = Append(place, best) /\ IsBest(best, Nodes)]_vars
  <2>1. CASE Consider
    BY <2>1 DEF Consider
  <2>2. CASE Choose
    <3>1. place' = Append(place, best)
      BY <2>2 DEF Choose
    <3>2. best # NoNode => IsBest(best, Nodes)
      BY <1>1, <2>2, ChooseIsBest
    <3> QED
      BY <3>1, <3>2
  <2>3. CASE UNCHANGED vars
    BY <2>3
  <2> QED
    BY <1>1, <2>1, <2>2, <2>3 DEF Next
<1> QED
  BY <1>1, TypeInit, TypeNext, BestInit, BestNext, PTL DEF Spec, PlacedOnBest

-------------------------------------------------------------------------------
\* What a step of the batch does to the tables, by the abstract actions.
LEMMA OvercommitStep ==
    ASSUME TypeOK, NoTickOvercommit, BatchNext
    PROVE  NoTickOvercommit'
<1>1. ASSUME NEW n \in Nodes, PlaceOn(n) PROVE NoTickOvercommit'
  <2>1. /\ alloc' = [alloc EXCEPT ![n] = Reserve(alloc[n], Task)]
        /\ measured' = measured
        /\ alloc \in [Nodes -> Amounts]
    BY <1>1 DEF PlaceOn, TypeOK
  <2>2. /\ Reserve(alloc[n], Task).cpu <= Capacity[n].cpu
        /\ Reserve(alloc[n], Task).mem <= Capacity[n].mem
    BY <1>1 DEF PlaceOn, Eligible, ResourceFilter, Reserve
  <2>3. \A m \in Nodes : alloc'[m] = IF m = n THEN Reserve(alloc[n], Task) ELSE alloc[m]
    BY <2>1
  <2> QED
    BY <2>1, <2>2, <2>3 DEF NoTickOvercommit
<1>2. CASE LeaveOut
  BY <1>2 DEF LeaveOut, NoTickOvercommit
<1> QED
  BY <1>1, <1>2 DEF BatchNext

LEMMA LeftOutStep ==
    ASSUME TypeOK, LeftOutFitsNowhere, BatchNext
    PROVE  LeftOutFitsNowhere'
<1>1. /\ place \in Seq(Nodes \cup {NoNode})
      /\ Len(place) \in Nat
      /\ Len(place) < Len(batch)
      /\ Len(batch) \in Nat
      /\ batch' = batch
    BY BatchesAssumption DEF TypeOK, BatchNext, PlaceOn, LeaveOut, More
<1>2. \A k \in 1 .. Len(batch) : IsTask(batch[k])
  BY BatchesAssumption DEF TypeOK
<1>3. ASSUME NEW n \in Nodes, PlaceOn(n) PROVE LeftOutFitsNowhere'
  <2> SUFFICES ASSUME NEW k \in 1 .. Len(place'), place'[k] = NoNode, NEW m \in Nodes,
                      Eligible(m, batch[k], alloc'[m])
               PROVE  FALSE
    BY <1>1 DEF LeftOutFitsNowhere
  <2>1. place' = Append(place, n) /\ n # NoNode
    BY <1>3, NoNodeAssumption DEF PlaceOn
  <2>2. k \in 1 .. Len(place) /\ place[k] = NoNode
    BY <1>1, <2>1
  <2>3. /\ alloc \in [Nodes -> Amounts]
        /\ alloc' = [alloc EXCEPT ![n] = Reserve(alloc[n], Task)]
        /\ IsTask(Task)
    BY <1>3, TaskIsTask DEF PlaceOn, TypeOK
  <2>4. /\ alloc'[m] \in Amounts
        /\ alloc[m] \in Amounts
        /\ alloc[m].cpu <= alloc'[m].cpu
        /\ alloc[m].mem <= alloc'[m].mem
    <3>1. CASE m = n
      <4>1. alloc'[m] = Reserve(alloc[m], Task) /\ alloc[m] \in Amounts
        BY <2>3, <3>1
      <4>2. /\ Reserve(alloc[m], Task) \in Amounts
            /\ Reserve(alloc[m], Task).cpu > alloc[m].cpu
            /\ Reserve(alloc[m], Task).mem > alloc[m].mem
        BY <2>3, <4>1, ReserveAmounts
      <4> QED
        BY <4>1, <4>2 DEF Amounts
    <3>2. CASE m # n
      BY <2>3, <3>2 DEF Amounts
    <3> QED
      BY <3>1, <3>2
  <2>5. IsTask(batch[k])
    BY <1>1, <1>2, <2>2
  <2>6. Eligible(m, batch[k], alloc[m])
    BY <2>4, <2>5, EligibleAntitone
  <2> QED
    BY <2>2, <2>6 DEF LeftOutFitsNowhere
<1>4. CASE LeaveOut
  <2> SUFFICES ASSUME NEW k \in 1 .. Len(place'), place'[k] = NoNode, NEW m \in Nodes
               PROVE  ~Eligible(m, batch[k], alloc[m])
    BY <1>1, <1>4 DEF LeftOutFitsNowhere, LeaveOut
  <2>1. place' = Append(place, NoNode)
    BY <1>4 DEF LeaveOut
  <2>2. CASE k = Len(place) + 1
    BY <1>4, <2>2 DEF LeaveOut, Task
  <2>3. CASE k # Len(place) + 1
    <3>1. k \in 1 .. Len(place) /\ place[k] = NoNode
      BY <1>1, <2>1, <2>3
    <3> QED
      BY <3>1 DEF LeftOutFitsNowhere
  <2> QED
    BY <2>2, <2>3
<1> QED
  BY <1>3, <1>4 DEF BatchNext

LEMMA BatchFactsNext ==
    TypeOK /\ BestSoFar /\ NoTickOvercommit /\ LeftOutFitsNowhere /\ [Next]_vars
        => (NoTickOvercommit /\ LeftOutFitsNowhere)'
<1> SUFFICES ASSUME TypeOK, BestSoFar, NoTickOvercommit, LeftOutFitsNowhere, [Next]_vars
             PROVE  NoTickOvercommit' /\ LeftOutFitsNowhere'
  OBVIOUS
<1>1. CASE BatchNext
  BY <1>1, OvercommitStep, LeftOutStep
<1>2. CASE UNCHANGED batchVars
  BY <1>2 DEF batchVars, NoTickOvercommit, LeftOutFitsNowhere
<1> QED
  BY <1>1, <1>2, StepImplements

LEMMA BatchFactsInit == Init => NoTickOvercommit /\ LeftOutFitsNowhere
<1> SUFFICES ASSUME Init PROVE NoTickOvercommit /\ LeftOutFitsNowhere
  OBVIOUS
<1>1. NoTickOvercommit
  BY DEF Init, BatchInit, NoTickOvercommit
<1>2. Len(place) = 0
  BY DEF Init, BatchInit
<1> QED
  BY <1>1, <1>2 DEF LeftOutFitsNowhere

\* A single tick does not overcommit a node, in CPU or in memory, whatever the
\* batch and the measurements are.
THEOREM TickDoesNotOvercommit == Spec => []NoTickOvercommit
<1> QED
  BY TypeInit, TypeNext, BestInit, BestNext, BatchFactsInit, BatchFactsNext, PTL DEF Spec

\* A task that a tick leaves pending fits on no node, up to the tick's end.
THEOREM LeftOutTasksFitNowhere == Spec => []LeftOutFitsNowhere
<1> QED
  BY TypeInit, TypeNext, BestInit, BestNext, BatchFactsInit, BatchFactsNext, PTL DEF Spec

-------------------------------------------------------------------------------
(* pendingAlloc adds up *)

LEMMA GivenFacts ==
    ASSUME TypeOK, NEW n \in Nodes
    PROVE  /\ IsFiniteSet(Given(n)) /\ Len(place) + 1 \notin Given(n)
           /\ Given(n) \subseteq 1 .. Len(batch)
<1>1. Len(place) \in Nat /\ Len(batch) \in Nat /\ Len(place) <= Len(batch)
  BY BatchesAssumption DEF TypeOK
<1>2. Given(n) \in SUBSET (1 .. Len(place))
  BY DEF Given
<1>3. IsFiniteSet(1 .. Len(place))
  <2>1. 1 \in Int /\ Len(place) \in Int
    BY <1>1
  <2> QED
    BY <2>1, FS_Interval
<1>4. IsFiniteSet(Given(n))
  BY <1>2, <1>3, FS_Subset
<1>5. Len(place) + 1 \notin 1 .. Len(place) /\ 1 .. Len(place) \subseteq 1 .. Len(batch)
  BY <1>1
<1> QED
  BY <1>2, <1>4, <1>5

\* One more placed task adds its request to the sum of its node's.
LEMMA GivenStep ==
    ASSUME TypeOK, More, NEW m \in Nodes \cup {NoNode}, place' = Append(place, m), UNCHANGED batch,
           NEW n \in Nodes, NEW f, \A k \in 1 .. Len(batch) : f[k] \in Nat
    PROVE  SumFunctionOnSet(f, Given(n)') =
              SumFunctionOnSet(f, Given(n)) + (IF m = n THEN f[Len(place) + 1] ELSE 0)
<1>1. /\ place \in Seq(Nodes \cup {NoNode}) /\ Len(place) \in Nat /\ Len(batch) \in Nat
      /\ Len(place) < Len(batch)
  BY BatchesAssumption DEF TypeOK, More
<1>2. /\ Len(place') = Len(place) + 1 /\ place'[Len(place) + 1] = m
      /\ \A k \in 1 .. Len(place) : place'[k] = place[k]
  BY <1>1
<1>3. Given(n)' = IF m = n THEN Given(n) \cup {Len(place) + 1} ELSE Given(n)
  <2>1. 1 .. Len(place) + 1 = (1 .. Len(place)) \cup {Len(place) + 1}
    BY <1>1
  <2> QED
    BY <1>2, <2>1 DEF Given
<1>4. /\ Given(n) \subseteq 1 .. Len(batch) /\ Len(place) + 1 \notin Given(n)
      /\ Len(place) + 1 \in 1 .. Len(batch)
  BY <1>1, GivenFacts
<1>5. IsFiniteSet(Given(n))
  BY GivenFacts
<1>6. PICK S : S = Given(n)
  OBVIOUS
<1>7. SumFunctionOnSet(f, S) \in Nat
  BY <1>4, <1>5, <1>6, SumNat
<1>8. SumFunctionOnSet(f, S \cup {Len(place) + 1}) = SumFunctionOnSet(f, S) + f[Len(place) + 1]
  BY <1>4, <1>5, <1>6, SumAdd
<1> QED
  BY <1>3, <1>6, <1>7, <1>8

LEMMA AccountedStep ==
    ASSUME TypeOK, Accounted, BatchNext
    PROVE  Accounted'
<1>1. /\ alloc \in [Nodes -> Amounts] /\ measured \in [Nodes -> Amounts]
      /\ UNCHANGED <<batch, measured>> /\ More
  BY DEF TypeOK, BatchNext, PlaceOn, LeaveOut
<1>2. /\ \A k \in 1 .. Len(batch) : CPUs[k] = batch[k].cpu /\ CPUs[k] \in Nat
      /\ \A k \in 1 .. Len(batch) : Mems[k] = batch[k].mem /\ Mems[k] \in Nat
      /\ CPUs' = CPUs /\ Mems' = Mems
      /\ Len(place) + 1 \in 1 .. Len(batch)
  <2>1. Len(batch) \in Nat /\ Len(place) \in Nat /\ \A k \in 1 .. Len(batch) : IsTask(batch[k])
    BY BatchesAssumption DEF TypeOK
  <2>2. Len(place) + 1 \in 1 .. Len(batch)
    BY <1>1, <2>1 DEF More
  <2> QED
    BY <1>1, <2>1, <2>2 DEF CPUs, Mems, IsTask
<1>3. PICK F, G : F = CPUs /\ G = Mems
  OBVIOUS
<1>4. PICK m \in Nodes \cup {NoNode} :
        /\ place' = Append(place, m)
        /\ \A n \in Nodes : alloc'[n] = IF m = n THEN Reserve(alloc[n], Task) ELSE alloc[n]
  <2>1. ASSUME NEW n \in Nodes, PlaceOn(n)
        PROVE  \E m \in Nodes \cup {NoNode} :
                  /\ place' = Append(place, m)
                  /\ \A q \in Nodes : alloc'[q] = IF m = q THEN Reserve(alloc[q], Task) ELSE alloc[q]
    BY <1>1, <2>1 DEF PlaceOn
  <2>2. CASE LeaveOut
    BY <2>2, NoNodeAssumption DEF LeaveOut
  <2> QED
    BY <2>1, <2>2 DEF BatchNext
<1>5. ASSUME NEW n \in Nodes
      PROVE  /\ alloc'[n].cpu = measured[n].cpu + SumFunctionOnSet(F, Given(n)')
             /\ alloc'[n].mem = measured[n].mem + SumFunctionOnSet(G, Given(n)')
  <2>1. /\ alloc[n].cpu = measured[n].cpu + SumFunctionOnSet(F, Given(n))
        /\ alloc[n].mem = measured[n].mem + SumFunctionOnSet(G, Given(n))
    BY <1>3 DEF Accounted
  <2>2. \A k \in 1 .. Len(batch) : F[k] \in Nat /\ G[k] \in Nat
    BY <1>2, <1>3
  <2>3. /\ SumFunctionOnSet(F, Given(n)') = SumFunctionOnSet(F, Given(n)) + (IF m = n THEN F[Len(place) + 1] ELSE 0)
        /\ SumFunctionOnSet(G, Given(n)') = SumFunctionOnSet(G, Given(n)) + (IF m = n THEN G[Len(place) + 1] ELSE 0)
    BY <1>1, <1>4, <2>2, GivenStep
  <2>4. /\ measured[n].cpu \in Nat /\ measured[n].mem \in Nat
        /\ F[Len(place) + 1] = Task.cpu /\ G[Len(place) + 1] = Task.mem
        /\ Task.cpu \in Nat /\ Task.mem \in Nat
    BY <1>1, <1>2, <1>3 DEF Amounts, Task
  <2>5. SumFunctionOnSet(F, Given(n)) \in Nat /\ SumFunctionOnSet(G, Given(n)) \in Nat
    BY <2>2, GivenFacts, SumNat
  <2>6. CASE m = n
    <3>1. alloc'[n] = Reserve(alloc[n], Task)
      BY <1>4, <2>6
    <3>2. alloc'[n].cpu = alloc[n].cpu + Task.cpu /\ alloc'[n].mem = alloc[n].mem + Task.mem
      BY <3>1 DEF Reserve
    <3>3. PICK a, b : a = SumFunctionOnSet(F, Given(n)) /\ b = SumFunctionOnSet(G, Given(n))
      OBVIOUS
    <3>4. /\ SumFunctionOnSet(F, Given(n)') = a + Task.cpu
          /\ SumFunctionOnSet(G, Given(n)') = b + Task.mem
      BY <2>3, <2>4, <2>6, <3>3
    <3>5. /\ alloc'[n].cpu = (measured[n].cpu + a) + Task.cpu
          /\ alloc'[n].mem = (measured[n].mem + b) + Task.mem
          /\ a \in Nat /\ b \in Nat
      BY <2>1, <2>5, <3>2, <3>3
    <3> QED
      BY <2>4, <3>4, <3>5
  <2>7. CASE m # n
    <3>1. alloc'[n] = alloc[n]
      BY <1>4, <2>7
    <3> QED
      BY <2>1, <2>3, <2>5, <2>7, <3>1
  <2> QED
    BY <2>6, <2>7
<1> QED
  BY <1>1, <1>2, <1>3, <1>5 DEF Accounted

\* What the loop believes of a node is what was measured on it and the requests
\* of the tasks it has given to it, each counted once, in both dimensions, for
\* any batch and in whatever order the nodes are listed.
THEOREM PendingAllocAddsUp == Spec => []Accounted
<1>1. Init => Accounted
  <2> SUFFICES ASSUME Init, NEW n \in Nodes
               PROVE  /\ alloc[n].cpu = measured[n].cpu + SumFunctionOnSet(CPUs, Given(n))
                      /\ alloc[n].mem = measured[n].mem + SumFunctionOnSet(Mems, Given(n))
    BY DEF Accounted
  <2>1. alloc = measured /\ measured[n].cpu \in Nat /\ measured[n].mem \in Nat
    BY MeasurementsAssumption DEF Init, BatchInit, Amounts
  <2>2. Given(n) = {}
    BY DEF Init, BatchInit, Given
  <2>3. SumFunctionOnSet(CPUs, Given(n)) = 0 /\ SumFunctionOnSet(Mems, Given(n)) = 0
    BY <2>2, SumEmpty
  <2> QED
    BY <2>1, <2>3
<1>2. TypeOK /\ BestSoFar /\ Accounted /\ [Next]_vars => Accounted'
  <2> SUFFICES ASSUME TypeOK, BestSoFar, Accounted, [Next]_vars PROVE Accounted'
    OBVIOUS
  <2>1. CASE BatchNext
    BY <2>1, AccountedStep
  <2>2. CASE UNCHANGED batchVars
    BY <2>2 DEF batchVars, Accounted, CPUs, Mems, Given
  <2> QED
    BY <2>1, <2>2, StepImplements
<1> QED
  BY <1>1, <1>2, TypeInit, TypeNext, BestInit, BestNext, PTL DEF Spec
===============================================================================
