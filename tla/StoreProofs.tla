----------------------------- MODULE StoreProofs ------------------------------
(***************************************************************************)
(* Lemmas about the rows of module Store, for the proofs about the modules *)
(* that have them in their tables, and about sums over sets of rows.       *)
(***************************************************************************)
EXTENDS Store, FiniteSets, Functions, FiniteSetTheorems, WellFoundedInduction, TLAPS

USE NoNodeAssumption, RetryLimitAssumption

-------------------------------------------------------------------------------
(* What the store's transactions do to one row *)

\* RegisterNode, UpdateNodeStatus and MarkNodeDead write node rows.
LEMMA NodeRowTypes ==
    ASSUME NEW row \in NodeRow
    PROVE  /\ \A c \in Nat : Registered(row, c) \in NodeRow
           /\ Dead(row) \in NodeRow
           /\ \A s \in NodeStatus : WithStatus(row, s) \in NodeRow
<1>1. row.epoch \in Nat /\ row.epoch + 1 \in Nat
  BY DEF NodeRow
<1>2. \A c \in Nat : Registered(row, c) \in NodeRow
  BY <1>1 DEF NodeRow, NodeStatus, Registered
<1>3. Dead(row) \in NodeRow
  BY <1>1 DEF NodeRow, NodeStatus, Dead
<1> QED
  BY <1>2, <1>3 DEF NodeRow, WithStatus

\* The fields of a node row after each of them.
LEMMA NodeRowFields ==
    ASSUME NEW row \in NodeRow
    PROVE  /\ \A c \in Nat : /\ Registered(row, c).status = "ready"
                             /\ row.status = "none" => Registered(row, c).epoch = 0
                             /\ row.status # "none" => Registered(row, c).epoch = row.epoch + 1
           /\ Dead(row).status = "dead" /\ Dead(row).epoch = row.epoch + 1
           /\ \A s \in NodeStatus : /\ WithStatus(row, s).status = s
                                    /\ WithStatus(row, s).epoch = row.epoch
BY DEF NodeRow, Registered, Dead, WithStatus

\* A freed row is a pending task row without an assignment.
LEMMA FreeFacts ==
    ASSUME NEW row \in TaskRow, NEW k \in Nat
    PROVE  /\ Free(row, k) \in TaskRow
           /\ Free(row, k).status = "pending" /\ Unassigned(Free(row, k))
           /\ Free(row, k).retries = row.retries + k
<1>1. row.retries \in Nat
  BY DEF TaskRow
<1> QED
  BY <1>1 DEF Free, TaskRow, TaskStatus, Unassigned

\* A report turns an active row into a task row that is active or finished
\* under the same assignment, or pending without one; retries_used grows only
\* below the limit, and failed means that the limit is reached.
LEMMA AfterReportFacts ==
    ASSUME NEW row \in TaskRow, Active(row), NEW s \in {"running", "succeeded", "failed"}
    PROVE  LET new == AfterReport(row, s)
           IN  /\ new \in TaskRow
               /\ \/ /\ Active(new) \/ Terminal(new)
                     /\ new.node = row.node /\ new.epoch = row.epoch
                     /\ new.retries = row.retries
                     /\ new.status = "failed" => ~(row.retries < RetryLimit)
                     /\ ~new.wait
                  \/ /\ new.status = "pending" /\ Unassigned(new)
                     /\ row.retries < RetryLimit /\ new.retries = row.retries + 1
<1>1. CASE s = "running"
  BY <1>1 DEF AfterReport, TaskRow, TaskStatus, Active, Terminal
<1>2. CASE s = "succeeded"
  BY <1>2 DEF AfterReport, TaskRow, TaskStatus, Active, Terminal
<1>3. CASE s = "failed" /\ row.retries < RetryLimit
  <2>1. AfterReport(row, s) = Requeued(row)
    BY <1>3 DEF AfterReport
  <2>2. row.retries \in Nat
    BY DEF TaskRow
  <2>3. /\ Requeued(row) \in TaskRow
        /\ Requeued(row).status = "pending" /\ Unassigned(Requeued(row))
        /\ Requeued(row).retries = row.retries + 1
    <3>1. \A f \in TaskRow : LET g == [f EXCEPT !.wait = TRUE]
                             IN  /\ g \in TaskRow /\ g.status = f.status /\ g.node = f.node
                                 /\ g.epoch = f.epoch /\ g.retries = f.retries
      BY DEF TaskRow
    <3>2. /\ Free(row, 1) \in TaskRow
          /\ Free(row, 1).status = "pending" /\ Unassigned(Free(row, 1))
          /\ Free(row, 1).retries = row.retries + 1
      BY FreeFacts
    <3> QED
      BY <3>1, <3>2 DEF Requeued, Unassigned
  <2> QED
    BY <1>3, <2>1, <2>3
<1>4. CASE s = "failed" /\ ~(row.retries < RetryLimit)
  <2>1. AfterReport(row, s) = [row EXCEPT !.status = "failed", !.wait = FALSE]
    BY <1>4 DEF AfterReport
  <2> QED
    BY <1>4, <2>1 DEF TaskRow, TaskStatus, Terminal
<1> QED
  BY <1>1, <1>2, <1>3, <1>4

\* Orphaning makes the active tasks of the node pending without an assignment
\* and leaves every other row alone; no row's retries_used changes.
LEMMA OrphanedFacts ==
    ASSUME NEW row \in TaskRow, NEW n \in Nodes
    PROVE  /\ Orphaned(row, n) \in TaskRow
           /\ Orphaned(row, n).retries = row.retries
           /\ IF row.node = n /\ Active(row)
              THEN Orphaned(row, n).status = "pending" /\ Unassigned(Orphaned(row, n))
              ELSE Orphaned(row, n) = row
<1>1. row.retries \in Nat
  BY DEF TaskRow
<1>2. /\ Free(row, 0) \in TaskRow
      /\ Free(row, 0).status = "pending" /\ Unassigned(Free(row, 0))
      /\ Free(row, 0).retries = row.retries + 0
  BY FreeFacts
<1>3. Free(row, 0).retries = row.retries
  BY <1>1, <1>2
<1> QED
  BY <1>2, <1>3 DEF Orphaned

\* A placed task is scheduled on its node under the epoch that was listed.
LEMMA ScheduledFacts ==
    ASSUME NEW row \in TaskRow, NEW n \in Nodes, NEW e \in Nat
    PROVE  /\ Scheduled(row, n, e) \in TaskRow
           /\ Scheduled(row, n, e).status = "scheduled"
           /\ Scheduled(row, n, e).node = n /\ Scheduled(row, n, e).epoch = e
           /\ Scheduled(row, n, e).retries = row.retries
BY DEF Scheduled, TaskRow, TaskStatus

-------------------------------------------------------------------------------
(* What Lifecycle sees of it *)

LEMMA PhaseFacts ==
    ASSUME NEW row \in TaskRow
    PROVE  /\ Phase(row) = "absent" <=> row.status = "none"
           /\ Phase(row) = "queued" <=> row.status = "pending"
           /\ Phase(row) = "held" <=> Active(row)
           /\ Terminal(row) => Phase(row) = row.status
BY DEF Phase, TaskRow, TaskStatus, Active, Terminal

\* A freed row is queued, with the retries that it was charged.
LEMMA LifeOfPending ==
    ASSUME NEW row \in TaskRow, row.status = "pending", Unassigned(row)
    PROVE  Life(row) = [phase |-> "queued", holder |-> <<NoNode, 0>>, charged |-> row.retries]
BY DEF Life, Phase, Unassigned

\* What a report makes of an active row is nothing, an end or a retry.
LEMMA LifeAfterReport ==
    ASSUME NEW row \in TaskRow, Active(row), NEW s \in {"running", "succeeded", "failed"}
    PROVE  LET new == Life(AfterReport(row, s))
           IN  \/ new = Life(row)
               \/ \E p \in {"succeeded", "failed"} :
                     /\ p = "failed" => ~(row.retries < RetryLimit)
                     /\ new = [phase |-> p, holder |-> Life(row).holder, charged |-> Life(row).charged]
               \/ /\ row.retries < RetryLimit
                  /\ new = [phase |-> "queued", holder |-> <<NoNode, 0>>, charged |-> row.retries + 1]
<1> DEFINE new == AfterReport(row, s)
<1>1. new \in TaskRow
  BY AfterReportFacts
<1>2. \/ /\ Active(new) \/ Terminal(new)
         /\ new.node = row.node /\ new.epoch = row.epoch /\ new.retries = row.retries
         /\ new.status = "failed" => ~(row.retries < RetryLimit)
      \/ /\ new.status = "pending" /\ Unassigned(new)
         /\ row.retries < RetryLimit /\ new.retries = row.retries + 1
  BY AfterReportFacts
<1> HIDE DEF new
<1>3. CASE new.status = "pending" /\ Unassigned(new)
  <2>1. Life(new) = [phase |-> "queued", holder |-> <<NoNode, 0>>, charged |-> new.retries]
    BY <1>1, <1>3, LifeOfPending
  <2>2. row.retries < RetryLimit /\ new.retries = row.retries + 1
    BY <1>2, <1>3 DEF Active, Terminal
  <2> QED
    BY <2>1, <2>2 DEF new
<1>4. CASE /\ Active(new) \/ Terminal(new)
           /\ new.node = row.node /\ new.epoch = row.epoch /\ new.retries = row.retries
           /\ new.status = "failed" => ~(row.retries < RetryLimit)
  <2>1. CASE Active(new)
    <3>1. Phase(new) = Phase(row)
      BY <1>1, <2>1, PhaseFacts
    <3>2. Life(new) = Life(row)
      BY <1>4, <3>1 DEF Life
    <3> QED
      BY <3>2 DEF new
  <2>2. CASE Terminal(new)
    <3>1. Phase(new) = new.status /\ new.status \in {"succeeded", "failed"}
      BY <1>1, <2>2, PhaseFacts DEF Terminal
    <3>2. Life(new) = [phase |-> new.status, holder |-> Life(row).holder, charged |-> Life(row).charged]
      BY <1>4, <3>1 DEF Life
    <3> QED
      BY <1>4, <3>1, <3>2 DEF new
  <2> QED
    BY <1>4, <2>1, <2>2
<1> QED
  BY <1>2, <1>3, <1>4

\* A node's death queues what it held and leaves the other lives alone.
LEMMA LifeOrphaned ==
    ASSUME NEW row \in TaskRow, NEW n \in Nodes
    PROVE  Life(Orphaned(row, n)) =
             IF Life(row).phase = "held" /\ Life(row).holder[1] = n
             THEN [phase |-> "queued", holder |-> <<NoNode, 0>>, charged |-> Life(row).charged]
             ELSE Life(row)
<1>1. /\ Life(row).phase = "held" <=> Active(row)
      /\ Life(row).holder[1] = row.node /\ Life(row).charged = row.retries
  BY PhaseFacts DEF Life
<1>2. CASE row.node = n /\ Active(row)
  <2> DEFINE new == Orphaned(row, n)
  <2>1. new \in TaskRow /\ new.status = "pending" /\ Unassigned(new) /\ new.retries = row.retries
    BY <1>2, OrphanedFacts
  <2> HIDE DEF new
  <2>2. Life(new) = [phase |-> "queued", holder |-> <<NoNode, 0>>, charged |-> row.retries]
    BY <2>1, LifeOfPending
  <2> QED
    BY <1>1, <1>2, <2>2 DEF new
<1>3. CASE ~(row.node = n /\ Active(row))
  BY <1>1, <1>3 DEF Orphaned
<1> QED
  BY <1>2, <1>3

LEMMA LifeScheduled ==
    ASSUME NEW row \in TaskRow, NEW n \in Nodes, NEW e \in Nat
    PROVE  Life(Scheduled(row, n, e)) = [phase |-> "held", holder |-> <<n, e>>, charged |-> Life(row).charged]
<1> DEFINE new == Scheduled(row, n, e)
<1>1. /\ new \in TaskRow /\ new.status = "scheduled" /\ new.node = n /\ new.epoch = e
      /\ new.retries = row.retries
  BY ScheduledFacts
<1> HIDE DEF new
<1>2. Life(new) = [phase |-> "held", holder |-> <<n, e>>, charged |-> Life(row).charged]
  BY <1>1 DEF Life, Phase
<1> QED
  BY <1>2 DEF new

\* next_retry_at is not part of a task's life.
LEMMA LifeDue ==
    ASSUME NEW row \in TaskRow
    PROVE  Life([row EXCEPT !.wait = FALSE]) = Life(row)
<1> DEFINE new == [row EXCEPT !.wait = FALSE]
<1>1. new.status = row.status /\ new.node = row.node /\ new.epoch = row.epoch /\ new.retries = row.retries
  BY DEF TaskRow
<1> HIDE DEF new
<1>2. Life(new) = Life(row)
  BY <1>1 DEF Life, Phase
<1> QED
  BY <1>2 DEF new

\* The fence of a node: registrations move it on, deaths and changes of status
\* never take it back.
LEMMA FenceFacts ==
    ASSUME NEW row \in NodeRow
    PROVE  /\ NextEpoch(row) \in Nat
           /\ \A c \in Nat : NextEpoch(Registered(row, c)) > NextEpoch(row)
           /\ NextEpoch(Dead(row)) >= NextEpoch(row)
           /\ \A s \in {"ready", "not_ready"} : NextEpoch(WithStatus(row, s)) >= NextEpoch(row)
<1>1. row.status \in NodeStatus /\ row.epoch \in Nat
  BY DEF NodeRow
<1>2. ASSUME NEW c \in Nat PROVE NextEpoch(Registered(row, c)) > NextEpoch(row)
  BY <1>1, NodeRowFields DEF NextEpoch, NodeStatus
<1>3. NextEpoch(Dead(row)) >= NextEpoch(row)
  BY <1>1, NodeRowFields DEF NextEpoch, NodeStatus
<1>4. ASSUME NEW s \in {"ready", "not_ready"} PROVE NextEpoch(WithStatus(row, s)) >= NextEpoch(row)
  <2>1. WithStatus(row, s).status = s /\ WithStatus(row, s).epoch = row.epoch
    BY NodeRowFields DEF NodeStatus
  <2> QED
    BY <1>1, <2>1 DEF NextEpoch, NodeStatus
<1> QED
  BY <1>1, <1>2, <1>3, <1>4 DEF NextEpoch

\* What a write of one node row is to the fences.
LEMMA FenceMoves ==
    ASSUME NEW old \in [Nodes -> NodeRow], NEW n \in Nodes, NEW row, NEW new, new = [old EXCEPT ![n] = row],
           NextEpoch(row) >= NextEpoch(old[n]), NextEpoch(row) \in Nat
    PROVE  LET F == [m \in Nodes |-> NextEpoch(old[m])]
               G == [m \in Nodes |-> NextEpoch(new[m])]
           IN  G = [F EXCEPT ![n] = G[n]] /\ G[n] >= F[n]
<1> DEFINE F == [m \in Nodes |-> NextEpoch(old[m])]
           G == [m \in Nodes |-> NextEpoch(new[m])]
<1>1. new[n] = row /\ \A m \in Nodes : m # n => new[m] = old[m]
  OBVIOUS
<1>2. G[n] = NextEpoch(row) /\ \A m \in Nodes : m # n => G[m] = F[m]
  BY <1>1
<1>3. F[n] \in Nat /\ F[n] = NextEpoch(old[n])
  BY FenceFacts
<1>4. G = [F EXCEPT ![n] = G[n]]
  BY <1>2
<1> QED
  BY <1>2, <1>3, <1>4

-------------------------------------------------------------------------------
(* Sums over finite sets, as GetNodeAllocations takes them and pendingAlloc    *)
(* continues them.  Each fact is an induction over the subsets of a finite     *)
(* set: a smallest counterexample is one element away from a set that is none. *)

LEMMA LeastNat ==
    ASSUME NEW S \in SUBSET Nat, S # {}
    PROVE  \E x \in S : \A y \in S : x <= y
<1>1. PICK x \in S : \A y \in S : ~(<<y, x>> \in OpToRel(<, Nat))
  BY NatLessThanWellFounded, WFMin
<1>2. \A y \in S : ~(y < x)
  BY <1>1 DEF OpToRel
<1> QED
  BY <1>2

Pick(s) == CHOOSE x \in s : TRUE

\* One unfolding of the fold behind SumFunctionOnSet, on a set of subsets.
Unfold(f, D, g) == [s \in D |-> IF s = {} THEN 0 ELSE f[Pick(s)] + g[s \ {Pick(s)}]]
UpTo(S, k) == {s \in SUBSET S : Cardinality(s) <= k}

LEMMA PickIn ==
    ASSUME NEW s, s # {}
    PROVE  Pick(s) \in s
BY DEF Pick

LEMMA SumDef ==
    ASSUME NEW f, NEW S
    PROVE  SumFunctionOnSet(f, S) = (CHOOSE g : g = Unfold(f, SUBSET S, g))[S]
BY DEF SumFunctionOnSet, FoldFunctionOnSet, MapThenFoldSet, Unfold, Pick

LEMMA UnfoldStep ==
    ASSUME NEW f, NEW S, IsFiniteSet(S), NEW k \in Nat, \E g : g = Unfold(f, UpTo(S, k), g)
    PROVE  \E g : g = Unfold(f, UpTo(S, k + 1), g)
<1>1. PICK g : g = Unfold(f, UpTo(S, k), g)
  OBVIOUS
<1> DEFINE h == Unfold(f, UpTo(S, k + 1), g)
<1>2. ASSUME NEW s \in UpTo(S, k + 1), s # {}
      PROVE  s \ {Pick(s)} \in UpTo(S, k) /\ s \ {Pick(s)} \in UpTo(S, k + 1)
  <2>1. s \in SUBSET S /\ Cardinality(s) <= k + 1 /\ IsFiniteSet(s)
    BY <1>2, FS_Subset DEF UpTo
  <2>2. Cardinality(s) \in Nat
    BY <2>1, FS_CardinalityType
  <2>3. Cardinality(s \ {Pick(s)}) = Cardinality(s) - 1
    BY <1>2, <2>1, FS_RemoveElement, PickIn
  <2>4. Cardinality(s \ {Pick(s)}) <= k /\ Cardinality(s \ {Pick(s)}) <= k + 1
    BY <2>1, <2>2, <2>3
  <2>5. s \ {Pick(s)} \in SUBSET S
    BY <2>1
  <2> QED
    BY <2>4, <2>5 DEF UpTo
<1>3. ASSUME NEW s \in UpTo(S, k) PROVE h[s] = g[s] /\ s \in UpTo(S, k + 1)
  <2>1. s \in SUBSET S /\ Cardinality(s) <= k
    BY DEF UpTo
  <2>2. IsFiniteSet(s) /\ Cardinality(s) \in Nat
    BY <2>1, FS_Subset, FS_CardinalityType
  <2>3. Cardinality(s) <= k + 1
    BY <2>1, <2>2
  <2>4. s \in UpTo(S, k + 1)
    BY <2>1, <2>3 DEF UpTo
  <2>5. g[s] = IF s = {} THEN 0 ELSE f[Pick(s)] + g[s \ {Pick(s)}]
    BY <1>1 DEF Unfold
  <2>6. h[s] = IF s = {} THEN 0 ELSE f[Pick(s)] + g[s \ {Pick(s)}]
    BY <2>4 DEF Unfold
  <2> QED
    BY <2>4, <2>5, <2>6
<1>4. h = [s \in UpTo(S, k + 1) |-> IF s = {} THEN 0 ELSE f[Pick(s)] + g[s \ {Pick(s)}]]
  BY DEF Unfold
<1> HIDE DEF h
<1>5. ASSUME NEW s \in UpTo(S, k + 1)
      PROVE  (IF s = {} THEN 0 ELSE f[Pick(s)] + g[s \ {Pick(s)}]) =
             (IF s = {} THEN 0 ELSE f[Pick(s)] + h[s \ {Pick(s)}])
  BY <1>2, <1>3
<1>6. h = Unfold(f, UpTo(S, k + 1), h)
  BY <1>4, <1>5 DEF Unfold
<1> QED
  BY <1>6

\* The fold is well defined on a finite set.
LEMMA UnfoldExists ==
    ASSUME NEW f, NEW S, IsFiniteSet(S)
    PROVE  \E g : g = Unfold(f, SUBSET S, g)
<1> DEFINE Bad == {k \in Nat : ~\E g : g = Unfold(f, UpTo(S, k), g)}
<1>1. 0 \notin Bad
  <2> DEFINE g == [s \in UpTo(S, 0) |-> 0]
  <2>1. \A s \in UpTo(S, 0) : s = {}
    <3> SUFFICES ASSUME NEW s \in UpTo(S, 0) PROVE s = {}
      OBVIOUS
    <3>1. s \in SUBSET S /\ Cardinality(s) <= 0
      BY DEF UpTo
    <3>2. IsFiniteSet(s) /\ Cardinality(s) \in Nat
      BY <3>1, FS_Subset, FS_CardinalityType
    <3>3. Cardinality(s) = 0
      BY <3>1, <3>2
    <3> QED
      BY <3>2, <3>3, FS_EmptySet
  <2>2. g = Unfold(f, UpTo(S, 0), g)
    BY <2>1 DEF Unfold
  <2> QED
    BY <2>2
<1>2. \A k \in Nat : k \notin Bad => k + 1 \notin Bad
  BY UnfoldStep
<1>3. Bad \in SUBSET Nat
  OBVIOUS
<1> HIDE DEF Bad
<1>4. Bad = {}
  <2> SUFFICES ASSUME Bad # {} PROVE FALSE
    OBVIOUS
  <2>1. PICK m \in Bad : \A y \in Bad : m <= y
    BY <1>3, LeastNat
  <2>2. m \in Nat /\ m # 0
    BY <1>1, <1>3
  <2>3. m - 1 \in Nat /\ (m - 1) + 1 = m /\ ~(m <= m - 1)
    BY <2>2
  <2> QED
    BY <1>2, <2>1, <2>3
<1>5. Cardinality(S) \in Nat
  BY FS_CardinalityType
<1>6. UpTo(S, Cardinality(S)) = SUBSET S
  BY FS_Subset DEF UpTo
<1>7. Cardinality(S) \notin Bad
  BY <1>4
<1> QED
  BY <1>5, <1>6, <1>7 DEF Bad

\* The smallest of the sets in a nonempty family of subsets of a finite set.
LEMMA SmallestSet ==
    ASSUME NEW S, IsFiniteSet(S), NEW F \in SUBSET (SUBSET S), F # {}
    PROVE  \E T \in F : \A x \in T : T \ {x} \notin F
<1> DEFINE K == {Cardinality(T) : T \in F}
<1>1. \A T \in F : IsFiniteSet(T) /\ Cardinality(T) \in Nat
  BY FS_Subset, FS_CardinalityType
<1>2. K \in SUBSET Nat /\ K # {}
  BY <1>1
<1>3. PICK k \in K : \A y \in K : k <= y
  <2> HIDE DEF K
  <2> QED
    BY <1>2, LeastNat
<1>4. PICK T \in F : k = Cardinality(T)
  BY <1>3
<1>5. ASSUME NEW x \in T, T \ {x} \in F PROVE FALSE
  <2>1. Cardinality(T \ {x}) = Cardinality(T) - 1
    BY <1>1, <1>4, <1>5, FS_RemoveElement
  <2>2. Cardinality(T \ {x}) \in K
    BY <1>5
  <2>3. Cardinality(T) <= Cardinality(T \ {x}) /\ Cardinality(T) \in Nat
    BY <1>1, <1>3, <1>4, <2>2
  <2> QED
    BY <2>1, <2>3
<1> QED
  BY <1>4, <1>5

Folded(f, S) == CHOOSE g : g = Unfold(f, SUBSET S, g)

LEMMA FoldedStep ==
    ASSUME NEW f, NEW S, IsFiniteSet(S), NEW T \in SUBSET S
    PROVE  Folded(f, S)[T] = IF T = {} THEN 0 ELSE f[Pick(T)] + Folded(f, S)[T \ {Pick(T)}]
<1>1. Folded(f, S) = Unfold(f, SUBSET S, Folded(f, S))
  BY UnfoldExists DEF Folded
<1>2. Unfold(f, SUBSET S, Folded(f, S))[T] = IF T = {} THEN 0 ELSE f[Pick(T)] + Folded(f, S)[T \ {Pick(T)}]
  BY DEF Unfold
<1> QED
  BY <1>1, <1>2

\* The value at T does not depend on the set that the fold started from.
LEMMA FoldedSame ==
    ASSUME NEW f, NEW S, IsFiniteSet(S), NEW T \in SUBSET S
    PROVE  Folded(f, S)[T] = Folded(f, T)[T]
<1> DEFINE F == {t \in SUBSET S : \E u, v \in SUBSET S :
                   t \subseteq u /\ t \subseteq v /\ Folded(f, u)[t] # Folded(f, v)[t]}
<1>1. ASSUME F # {} PROVE FALSE
  <2>1. PICK t \in F : \A x \in t : t \ {x} \notin F
    <3>1. F \in SUBSET (SUBSET S)
      OBVIOUS
    <3> HIDE DEF F
    <3> QED
      BY <1>1, <3>1, SmallestSet
  <2>2. PICK u, v \in SUBSET S : t \subseteq u /\ t \subseteq v /\ Folded(f, u)[t] # Folded(f, v)[t]
    BY <2>1
  <2>3. IsFiniteSet(u) /\ IsFiniteSet(v)
    BY <2>2, FS_Subset
  <2>4. /\ Folded(f, u)[t] = IF t = {} THEN 0 ELSE f[Pick(t)] + Folded(f, u)[t \ {Pick(t)}]
        /\ Folded(f, v)[t] = IF t = {} THEN 0 ELSE f[Pick(t)] + Folded(f, v)[t \ {Pick(t)}]
    BY <2>2, <2>3, FoldedStep
  <2>5. t # {}
    BY <2>2, <2>4
  <2>6. Pick(t) \in t
    BY <2>5, PickIn
  <2>7. t \ {Pick(t)} \notin F
    BY <2>1, <2>6
  <2>8. Folded(f, u)[t \ {Pick(t)}] = Folded(f, v)[t \ {Pick(t)}]
    BY <2>1, <2>2, <2>7
  <2> QED
    BY <2>2, <2>4, <2>8
<1>2. T \notin F
  BY <1>1
<1> QED
  BY <1>2

LEMMA SumFolded ==
    ASSUME NEW f, NEW S
    PROVE  SumFunctionOnSet(f, S) = Folded(f, S)[S]
BY SumDef DEF Folded

LEMMA SumEmpty ==
    ASSUME NEW f
    PROVE  SumFunctionOnSet(f, {}) = 0
BY SumFolded, FoldedStep, FS_EmptySet

\* A sum begins with the element that the fold picks.
LEMMA SumPick ==
    ASSUME NEW f, NEW S, IsFiniteSet(S), S # {}
    PROVE  SumFunctionOnSet(f, S) = f[Pick(S)] + SumFunctionOnSet(f, S \ {Pick(S)})
<1>1. SumFunctionOnSet(f, S) = f[Pick(S)] + Folded(f, S)[S \ {Pick(S)}]
  BY SumFolded, FoldedStep
<1>2. Folded(f, S)[S \ {Pick(S)}] = Folded(f, S \ {Pick(S)})[S \ {Pick(S)}]
  BY FoldedSame
<1> QED
  BY <1>1, <1>2, SumFolded

\* A sum of naturals is a natural.
LEMMA SumNat ==
    ASSUME NEW f, NEW S, IsFiniteSet(S), \A x \in S : f[x] \in Nat
    PROVE  SumFunctionOnSet(f, S) \in Nat
<1> DEFINE F == {T \in SUBSET S : SumFunctionOnSet(f, T) \notin Nat}
<1>1. ASSUME F # {} PROVE FALSE
  <2>1. PICK T \in F : \A x \in T : T \ {x} \notin F
    <3>1. F \in SUBSET (SUBSET S)
      OBVIOUS
    <3> HIDE DEF F
    <3> QED
      BY <1>1, <3>1, SmallestSet
  <2>2. T \in SUBSET S /\ SumFunctionOnSet(f, T) \notin Nat /\ IsFiniteSet(T)
    BY <2>1, FS_Subset
  <2>3. T # {}
    BY <2>2, SumEmpty
  <2>4. Pick(T) \in T /\ SumFunctionOnSet(f, T) = f[Pick(T)] + SumFunctionOnSet(f, T \ {Pick(T)})
    BY <2>2, <2>3, PickIn, SumPick
  <2>5. SumFunctionOnSet(f, T \ {Pick(T)}) \in Nat /\ f[Pick(T)] \in Nat
    BY <2>1, <2>2, <2>4
  <2> QED
    BY <2>2, <2>4, <2>5
<1>2. S \notin F
  BY <1>1
<1> QED
  BY <1>2

\* A sum begins with any of its elements.
LEMMA SumTake ==
    ASSUME NEW f, NEW S, IsFiniteSet(S), \A x \in S : f[x] \in Nat, NEW y \in S
    PROVE  SumFunctionOnSet(f, S) = f[y] + SumFunctionOnSet(f, S \ {y})
<1> DEFINE Good(T) == \A x \in T : SumFunctionOnSet(f, T) = f[x] + SumFunctionOnSet(f, T \ {x})
<1> DEFINE F == {T \in SUBSET S : ~Good(T)}
<1>1. ASSUME F # {} PROVE FALSE
  <2>1. PICK T \in F : \A x \in T : T \ {x} \notin F
    <3>1. F \in SUBSET (SUBSET S)
      OBVIOUS
    <3> HIDE DEF F
    <3> QED
      BY <1>1, <3>1, SmallestSet
  <2>2. T \in SUBSET S /\ IsFiniteSet(T)
    BY <2>1, FS_Subset
  <2>3. PICK x \in T : SumFunctionOnSet(f, T) # f[x] + SumFunctionOnSet(f, T \ {x})
    BY <2>1
  <2>4. PICK p \in T : SumFunctionOnSet(f, T) = f[p] + SumFunctionOnSet(f, T \ {p})
    BY <2>2, <2>3, PickIn, SumPick
  <2>5. x # p
    BY <2>3, <2>4
  <2>6. Good(T \ {p}) /\ Good(T \ {x})
    BY <2>1, <2>2
  <2>7. PICK a : a = SumFunctionOnSet(f, (T \ {p}) \ {x})
    OBVIOUS
  <2>8. (T \ {x}) \ {p} = (T \ {p}) \ {x}
    OBVIOUS
  <2>9. SumFunctionOnSet(f, T \ {p}) = f[x] + a /\ SumFunctionOnSet(f, T \ {x}) = f[p] + a
    BY <2>5, <2>6, <2>7, <2>8
  <2>10. f[x] \in Nat /\ f[p] \in Nat
    BY <2>2
  <2>11. a \in Nat
    <3>1. (T \ {p}) \ {x} \in SUBSET S
      BY <2>2
    <3> QED
      BY <2>7, <3>1, FS_Subset, SumNat
  <2> QED
    BY <2>3, <2>4, <2>9, <2>10, <2>11
<1>2. S \notin F
  BY <1>1
<1> QED
  BY <1>2

\* An element that is added counts once.
LEMMA SumAdd ==
    ASSUME NEW f, NEW S, IsFiniteSet(S), NEW y, \A x \in S \cup {y} : f[x] \in Nat, y \notin S
    PROVE  SumFunctionOnSet(f, S \cup {y}) = SumFunctionOnSet(f, S) + f[y]
<1>1. IsFiniteSet(S \cup {y}) /\ (S \cup {y}) \ {y} = S
  BY FS_AddElement
<1>2. SumFunctionOnSet(f, S \cup {y}) = f[y] + SumFunctionOnSet(f, S)
  BY <1>1, SumTake
<1> QED
  BY <1>2, SumNat

\* A larger set has a larger sum.
LEMMA SumMonotone ==
    ASSUME NEW f, NEW S, IsFiniteSet(S), \A x \in S : f[x] \in Nat, NEW R \in SUBSET S
    PROVE  SumFunctionOnSet(f, R) <= SumFunctionOnSet(f, S)
<1> DEFINE F == {T \in SUBSET S : R \subseteq T /\ ~(SumFunctionOnSet(f, R) <= SumFunctionOnSet(f, T))}
<1>1. ASSUME F # {} PROVE FALSE
  <2>1. PICK T \in F : \A x \in T : T \ {x} \notin F
    <3>1. F \in SUBSET (SUBSET S)
      OBVIOUS
    <3> HIDE DEF F
    <3> QED
      BY <1>1, <3>1, SmallestSet
  <2>2. /\ T \in SUBSET S /\ R \subseteq T /\ IsFiniteSet(T) /\ IsFiniteSet(R)
        /\ ~(SumFunctionOnSet(f, R) <= SumFunctionOnSet(f, T))
    BY <2>1, FS_Subset
  <2>3. SumFunctionOnSet(f, R) \in Nat /\ SumFunctionOnSet(f, T) \in Nat
    BY <2>2, SumNat
  <2>4. R # T
    BY <2>2, <2>3
  <2>5. PICK x \in T : x \notin R
    BY <2>2, <2>4
  <2>6. SumFunctionOnSet(f, T) = f[x] + SumFunctionOnSet(f, T \ {x})
    BY <2>2, SumTake
  <2>7. SumFunctionOnSet(f, R) <= SumFunctionOnSet(f, T \ {x})
    BY <2>1, <2>2, <2>5
  <2>8. f[x] \in Nat /\ SumFunctionOnSet(f, T \ {x}) \in Nat
    BY <2>2, SumNat, FS_Subset
  <2> QED
    BY <2>2, <2>3, <2>6, <2>7, <2>8
<1>2. S \notin F
  BY <1>1
<1> QED
  BY <1>2

\* A finite set of naturals has a largest element.
LEMMA LargestNat ==
    ASSUME NEW S \in SUBSET Nat, IsFiniteSet(S), S # {}
    PROVE  \E x \in S : \A y \in S : y <= x
<1> DEFINE F == {T \in SUBSET S : T # {} /\ ~\E x \in T : \A y \in T : y <= x}
<1>1. ASSUME F # {} PROVE FALSE
  <2>1. PICK T \in F : \A x \in T : T \ {x} \notin F
    <3>1. F \in SUBSET (SUBSET S)
      OBVIOUS
    <3> HIDE DEF F
    <3> QED
      BY <1>1, <3>1, SmallestSet
  <2>2. PICK x \in T : T \ {x} \notin F
    BY <2>1
  <2>3. T \in SUBSET Nat /\ ~\E z \in T : \A y \in T : y <= z
    BY <2>1
  <2>4. T \ {x} # {}
    BY <2>3
  <2>5. PICK m \in T \ {x} : \A y \in T \ {x} : y <= m
    BY <2>2, <2>4
  <2>6. PICK z \in T : (z = x \/ z = m) /\ x <= z /\ m <= z
    BY <2>3, <2>5
  <2>7. \A y \in T : y <= z
    BY <2>3, <2>5, <2>6
  <2> QED
    BY <2>3, <2>6, <2>7
<1>2. S \notin F
  BY <1>1
<1> QED
  BY <1>2
===============================================================================
