-------------------------- MODULE LeaderLeaseProofs ---------------------------
(***************************************************************************)
(* Proofs about LeaderLease, for any set of replicas, any TTL and any      *)
(* bounded clock skew.                                                     *)
(***************************************************************************)
EXTENDS LeaderLease, TLAPS

USE ReplicasAssumption, TimeAssumption, MaxEpochAssumption

-------------------------------------------------------------------------------
(* Type correctness *)

\* Letting time pass keeps a remaining time within its range, and keeps the
\* order of two remaining times.
LEMMA LessFacts ==
    /\ \A n \in Times : Less(n) \in Times /\ Less(n) <= n
    /\ \A m, n \in Times : m <= n => Less(m) <= Less(n)
BY DEF Less, Times

\* What a transaction looks like one time unit later.
LEMMA ElapseTxFacts ==
    ASSUME NEW t \in TxState
    PROVE  /\ ElapseTx(t) \in TxState
           /\ ElapseTx(t).pc = t.pc
           /\ t.pc = "locked" => /\ ElapseTx(t).expired = t.expired
                                 /\ ElapseTx(t).holder = t.holder
                                 /\ ElapseTx(t).epoch = t.epoch
                                 /\ ElapseTx(t).left = Less(t.left)
           /\ t.pc = "reply" => /\ ElapseTx(t).acquired = t.acquired
                                /\ ElapseTx(t).holder = t.holder
                                /\ ElapseTx(t).epoch = t.epoch
                                /\ ElapseTx(t).left = Less(t.left)
<1>1. CASE t = Idle
  BY <1>1 DEF ElapseTx, TxState, Idle
<1>2. CASE t \in [pc : {"locked"}, expired : BOOLEAN, holder : Holders, epoch : Epochs, left : Times]
  <2>1. t.left \in Times /\ t.pc = "locked"
    BY <1>2
  <2>2. ElapseTx(t) = [t EXCEPT !.left = Less(t.left)]
    BY <2>1 DEF ElapseTx
  <2> QED
    BY <1>2, <2>1, <2>2, LessFacts DEF TxState
<1>3. CASE t \in [pc : {"reply"}, acquired : BOOLEAN, holder : Holders, epoch : Epochs, left : Times]
  <2>1. t.left \in Times /\ t.pc = "reply"
    BY <1>3
  <2>2. ElapseTx(t) = [t EXCEPT !.left = Less(t.left)]
    BY <2>1 DEF ElapseTx
  <2> QED
    BY <1>3, <2>1, <2>2, LessFacts DEF TxState
<1> QED
  BY <1>1, <1>2, <1>3 DEF TxState

\* The fields of a transaction, by its program counter.
LEMMA TxFields ==
    ASSUME NEW t \in TxState
    PROVE  /\ t.pc \in {"idle", "locked", "reply"}
           /\ t.pc = "locked" => /\ t.expired \in BOOLEAN
                                 /\ t.holder \in Holders
                                 /\ t.epoch \in Epochs
                                 /\ t.left \in Times
           /\ t.pc = "reply" => /\ t.acquired \in BOOLEAN
                                /\ t.holder \in Holders
                                /\ t.epoch \in Epochs
                                /\ t.left \in Times
BY DEF TxState, Idle

\* Records built by the lease transactions are transaction states.
LEMMA TxBuild ==
    ASSUME NEW b \in BOOLEAN, NEW h \in Holders, NEW e \in Epochs, NEW l \in Times
    PROVE  /\ Idle \in TxState
           /\ [pc |-> "locked", expired |-> b, holder |-> h, epoch |-> e, left |-> l] \in TxState
           /\ [pc |-> "reply", acquired |-> b, holder |-> h, epoch |-> e, left |-> l] \in TxState
BY DEF TxState

\* Every step of the lease protocol keeps the variables in their types; in
\* particular no step writes an expiry more than one TTL ahead.
LEMMA TypeStep == TypeOK /\ [Next]_vars => TypeOK'
<1> SUFFICES ASSUME TypeOK, [Next]_vars PROVE TypeOK'
  OBVIOUS
<1> USE DEF TypeOK, elector
<1>1. ASSUME NEW r \in Replicas, TickBegin(r) PROVE TypeOK'
  <2>1. Expired(r) \in BOOLEAN /\ Expiry(r) \in Times
    BY DEF Expired, Expiry, Times
  <2> QED
    BY <1>1, <2>1, TxBuild DEF TickBegin
<1>2. ASSUME NEW r \in Replicas, TickDecline(r) PROVE TypeOK'
  <2>1. 0 \in Times /\ tx[r].holder \in Holders /\ tx[r].epoch \in Epochs
    BY <1>2, TxFields DEF TickDecline, Times
  <2> QED
    BY <1>2, <2>1, TxBuild DEF TickDecline
<1>3. ASSUME NEW r \in Replicas, TickTake(r) PROVE TypeOK'
  <2>1. tx[r].left \in Times /\ tx[r].epoch \in Epochs
    BY <1>3, TxFields DEF TickTake
  <2>2. NewEpoch(r) \in Epochs
    BY <1>3, <2>1 DEF TickTake, NewEpoch, Epochs
  <2>3. r \in Holders
    BY DEF Holders
  <2>4. elected' \in Seq(Replicas)
    BY <1>3 DEF TickTake
  <2>5. lease' \in [holder : Holders, epoch : Epochs, left : Times]
    BY <1>3, <2>1, <2>2, <2>3 DEF TickTake
  <2>6. tx' \in [Replicas -> TxState]
    BY <1>3, <2>1, <2>2, <2>3, TxBuild DEF TickTake
  <2> QED
    BY <1>3, <2>4, <2>5, <2>6 DEF TickTake
<1>4. ASSUME NEW r \in Replicas, TickReturn(r) PROVE TypeOK'
  <2>1. /\ tx[r].acquired \in BOOLEAN /\ tx[r].holder \in Holders
        /\ tx[r].epoch \in Epochs /\ tx[r].left \in Times
    BY <1>4, TxFields DEF TickReturn
  <2>2. Idle \in TxState
    BY DEF TxState
  <2> QED
    BY <1>4, <2>1, <2>2 DEF TickReturn
<1>5. ASSUME NEW r \in Replicas, TickError(r) PROVE TypeOK'
  BY <1>5 DEF TickError, TxState
<1>6. ASSUME NEW r \in Replicas, Crash(r) PROVE TypeOK'
  <2>1. Idle \in TxState /\ NoReplica \in Holders /\ 0 \in Epochs /\ 0 \in Times
    BY DEF TxState, Holders, Epochs, Times
  <2> QED
    BY <1>6, <2>1 DEF Crash
<1>7. ASSUME NEW r \in Replicas, Restart(r) PROVE TypeOK'
  BY <1>7 DEF Restart
<1>8. CASE Elapse
  <2>1. tx' \in [Replicas -> TxState]
    BY <1>8, ElapseTxFacts DEF Elapse
  <2>2. grant' \in [Replicas -> Times]
    BY <1>8, LessFacts DEF Elapse
  <2>3. lease' \in [holder : Holders, epoch : Epochs, left : Times]
    BY <1>8, LessFacts DEF Elapse
  <2> QED
    BY <1>8, <2>1, <2>2, <2>3 DEF Elapse
<1>9. CASE UNCHANGED vars
  BY <1>9 DEF vars
<1> QED
  BY <1>1, <1>2, <1>3, <1>4, <1>5, <1>6, <1>7, <1>8, <1>9 DEF Next, Tick

\* The row, the Electors and the transactions in flight keep their types, and
\* no recorded expiry exceeds one TTL on the fastest clock (TickBegin's Expiry).
THEOREM LeaseTyping == Spec => []TypeOK
<1>1. Init => TypeOK
  BY DEF Init, TypeOK, TxState, Holders, Epochs, Times
<1> QED
  BY <1>1, TypeStep, PTL DEF Spec
-------------------------------------------------------------------------------
(* The inductive invariant *)

\* Only a takeover changes the history, and it extends it by the new holder.
LEMMA HistoryStep == TypeOK /\ HistoryInv /\ LockInv /\ [Next]_vars => HistoryInv'
<1> SUFFICES ASSUME TypeOK, HistoryInv, LockInv, [Next]_vars PROVE HistoryInv'
  OBVIOUS
<1> USE DEF TypeOK, HistoryInv, elector
<1>1. ASSUME NEW r \in Replicas, TickTake(r) PROVE HistoryInv'
  <2>1. tx[r].holder = lease.holder /\ tx[r].epoch = lease.epoch
    BY <1>1 DEF TickTake, LockInv
  <2>2. CASE tx[r].holder = r
    BY <1>1, <2>1, <2>2 DEF TickTake, Ours, NewEpoch
  <2>3. CASE tx[r].holder # r
    <3>1. elected' = Append(elected, r) /\ lease'.epoch = lease.epoch + 1 /\ lease'.holder = r
      BY <1>1, <2>1, <2>3 DEF TickTake, Ours, NewEpoch
    <3> QED
      BY <3>1
  <2> QED
    BY <2>2, <2>3
<1>2. ASSUME NEW r \in Replicas,
             TickBegin(r) \/ TickDecline(r) \/ TickReturn(r) \/ TickError(r) \/ Crash(r) \/ Restart(r)
      PROVE  HistoryInv'
  BY <1>2 DEF TickBegin, TickDecline, TickReturn, TickError, Crash, Restart
<1>3. CASE Elapse
  BY <1>3 DEF Elapse
<1>4. CASE UNCHANGED vars
  BY <1>4 DEF vars
<1> QED
  BY <1>1, <1>2, <1>3, <1>4 DEF Next, Tick

\* One transaction at a time has the row, so what it read stays what the row says.
LEMMA LockStep == TypeOK /\ LockInv /\ [Next]_vars => LockInv'
<1> SUFFICES ASSUME TypeOK, LockInv, [Next]_vars PROVE LockInv'
  OBVIOUS
<1> USE DEF TypeOK, LockInv, elector
<1>1. ASSUME NEW r \in Replicas, TickBegin(r) PROVE LockInv'
  BY <1>1 DEF TickBegin, RowAvailable
<1>2. ASSUME NEW r \in Replicas, TickDecline(r) \/ TickTake(r) PROVE LockInv'
  <2>1. /\ \A q \in Replicas \ {r} : tx[q].pc # "locked" /\ tx'[q] = tx[q]
        /\ tx'[r].pc = "reply"
    BY <1>2 DEF TickDecline, TickTake
  <2> QED
    BY <2>1
<1>3. ASSUME NEW r \in Replicas, TickReturn(r) \/ TickError(r) \/ Crash(r) PROVE LockInv'
  <2>1. /\ \A q \in Replicas \ {r} : tx'[q] = tx[q]
        /\ tx'[r].pc = "idle"
        /\ lease' = lease
    BY <1>3 DEF TickReturn, TickError, Crash, Idle
  <2> QED
    BY <2>1
<1>4. ASSUME NEW r \in Replicas, Restart(r) PROVE LockInv'
  BY <1>4 DEF Restart
<1>5. CASE Elapse
  <2>1. /\ lease'.holder = lease.holder /\ lease'.epoch = lease.epoch
    BY <1>5 DEF Elapse
  <2>2. \A q \in Replicas : /\ tx'[q].pc = tx[q].pc
                            /\ tx[q].pc = "locked" => /\ tx'[q].holder = tx[q].holder
                                                      /\ tx'[q].epoch = tx[q].epoch
    BY <1>5, ElapseTxFacts DEF Elapse
  <2> QED
    BY <2>1, <2>2
<1>6. CASE UNCHANGED vars
  BY <1>6 DEF vars
<1> QED
  BY <1>1, <1>2, <1>3, <1>4, <1>5, <1>6 DEF Next, Tick

\* Beliefs, held or on their way, stay backed by the history, which only grows.
LEMMA BeliefStep ==
    TypeOK /\ HistoryInv /\ LockInv /\ BeliefInv /\ [Next]_vars => BeliefInv'
<1> SUFFICES ASSUME TypeOK, HistoryInv, LockInv, BeliefInv, [Next]_vars PROVE BeliefInv'
  OBVIOUS
<1> USE DEF TypeOK, BeliefInv, elector
<1>1. ASSUME NEW r \in Replicas, TickBegin(r) PROVE BeliefInv'
  BY <1>1 DEF TickBegin
<1>2. ASSUME NEW r \in Replicas, TickDecline(r) PROVE BeliefInv'
  <2>1. tx[r].epoch = lease.epoch
    BY <1>2 DEF TickDecline, LockInv
  <2> QED
    BY <1>2, <2>1 DEF TickDecline, Epochs
<1>3. ASSUME NEW r \in Replicas, TickTake(r) PROVE BeliefInv'
  <2>1. tx[r].holder = lease.holder /\ tx[r].epoch = lease.epoch
    BY <1>3 DEF TickTake, LockInv
  <2>2. lease.epoch \in Nat /\ \A q \in Replicas : epoch[q] \in Nat
    BY DEF Epochs
  <2>3. lease'.epoch \in Nat /\ lease'.epoch >= lease.epoch
    BY <1>3, <2>1, <2>2 DEF TickTake, NewEpoch
  <2>4. /\ Len(elected') >= Len(elected)
        /\ \A i \in 1 .. Len(elected) : elected'[i] = elected[i]
    BY <1>3 DEF TickTake
  <2>5. /\ lease'.epoch = Len(elected') /\ lease'.epoch \in 1 .. Len(elected')
        /\ elected'[lease'.epoch] = r
    <3>1. CASE tx[r].holder = r
      BY <1>3, <2>1, <3>1 DEF TickTake, Ours, NewEpoch, HistoryInv
    <3>2. CASE tx[r].holder # r
      <4>1. elected' = Append(elected, r) /\ lease'.epoch = Len(elected) + 1
        BY <1>3, <2>1, <3>2 DEF TickTake, Ours, NewEpoch, HistoryInv
      <4> QED
        BY <4>1
    <3> QED
      BY <3>1, <3>2
  <2>6. /\ tx'[r].pc = "reply" /\ tx'[r].epoch = lease'.epoch
        /\ \A q \in Replicas \ {r} : tx'[q] = tx[q]
        /\ epoch' = epoch /\ isLeader' = isLeader
    BY <1>3 DEF TickTake
  <2>7. \A q \in Replicas : tx[q].pc = "reply" => tx[q].epoch \in Nat
    BY TxFields DEF Epochs
  <2> QED
    <3> SUFFICES ASSUME NEW q \in Replicas
                 PROVE  /\ epoch'[q] <= lease'.epoch
                        /\ isLeader'[q] => /\ epoch'[q] \in 1 .. Len(elected')
                                           /\ elected'[epoch'[q]] = q
                        /\ tx'[q].pc = "reply" =>
                             /\ epoch'[q] <= tx'[q].epoch
                             /\ tx'[q].epoch <= lease'.epoch
                             /\ tx'[q].acquired => /\ tx'[q].epoch \in 1 .. Len(elected')
                                                   /\ elected'[tx'[q].epoch] = q
      OBVIOUS
    <3>1. epoch'[q] <= lease'.epoch
      BY <2>2, <2>3, <2>6
    <3>2. isLeader'[q] => epoch'[q] \in 1 .. Len(elected') /\ elected'[epoch'[q]] = q
      BY <2>2, <2>4, <2>6
    <3>3. CASE q = r
      BY <2>2, <2>3, <2>5, <2>6, <3>1, <3>2, <3>3
    <3>4. CASE q # r
      <4>1. tx'[q] = tx[q] /\ epoch'[q] = epoch[q]
        BY <2>6, <3>4
      <4>2. ASSUME tx[q].pc = "reply"
            PROVE  /\ epoch[q] <= tx[q].epoch
                   /\ tx[q].epoch <= lease'.epoch
        BY <2>2, <2>3, <2>7, <4>2
      <4>3. ASSUME tx[q].pc = "reply", tx[q].acquired
            PROVE  tx[q].epoch \in 1 .. Len(elected') /\ elected'[tx[q].epoch] = q
        BY <2>4, <4>3
      <4> QED
        BY <3>1, <3>2, <4>1, <4>2, <4>3
    <3> QED
      BY <3>3, <3>4
<1>4. ASSUME NEW r \in Replicas, TickReturn(r) PROVE BeliefInv'
  BY <1>4 DEF TickReturn, Idle
<1>5. ASSUME NEW r \in Replicas, TickError(r) PROVE BeliefInv'
  BY <1>5 DEF TickError, Idle
<1>6. ASSUME NEW r \in Replicas, Crash(r) PROVE BeliefInv'
  BY <1>6 DEF Crash, Idle, Epochs
<1>7. ASSUME NEW r \in Replicas, Restart(r) PROVE BeliefInv'
  BY <1>7 DEF Restart
<1>8. CASE Elapse
  <2>1. lease'.epoch = lease.epoch
    BY <1>8 DEF Elapse
  <2>2. \A q \in Replicas : /\ tx'[q].pc = tx[q].pc
                            /\ tx[q].pc = "reply" => /\ tx'[q].acquired = tx[q].acquired
                                                     /\ tx'[q].epoch = tx[q].epoch
    BY <1>8, ElapseTxFacts DEF Elapse
  <2> QED
    BY <1>8, <2>1, <2>2 DEF Elapse
<1>9. CASE UNCHANGED vars
  BY <1>9 DEF vars
<1> QED
  BY <1>1, <1>2, <1>3, <1>4, <1>5, <1>6, <1>7, <1>8, <1>9 DEF Next, Tick

\* A takeover waits until the row has run out on the fastest clock, which is
\* when every grant it covered has run out as well.
LEMMA GrantStep ==
    TypeOK /\ LockInv /\ GrantInv /\ [Next]_vars => GrantInv'
<1> SUFFICES ASSUME TypeOK, LockInv, GrantInv, [Next]_vars PROVE GrantInv'
  OBVIOUS
<1> USE DEF TypeOK, GrantInv, Covered, elector
<1>1. ASSUME NEW r \in Replicas, TickBegin(r) PROVE GrantInv'
  <2>1. Skew[r] \in Nat /\ Skew[r] <= MaxSkew /\ lease.left \in Nat
    BY DEF Times
  <2>2. /\ \A q \in Replicas \ {r} : tx'[q] = tx[q]
        /\ lease' = lease /\ isLeader' = isLeader /\ grant' = grant
        /\ tx'[r].pc = "locked" /\ tx'[r].left = TTL + Skew[r]
    BY <1>1 DEF TickBegin, Expiry
  <2>3. tx'[r].expired = Expired(r)
    BY <1>1 DEF TickBegin
  <2>4. tx'[r].expired => lease.left <= MaxSkew
    <3>1. Expired(r) => lease.left <= MaxSkew
      BY <2>1 DEF Expired
    <3> QED
      BY <2>3, <3>1
  <2> SUFFICES ASSUME NEW q \in Replicas
               PROVE  /\ lease'.holder = q => lease'.left <= TTL + Skew[q]
                      /\ isLeader'[q] => Covered(q, grant[q])'
                      /\ tx'[q].pc = "reply" /\ tx'[q].acquired => Covered(q, tx[q].left)'
                      /\ tx'[q].pc = "locked" /\ tx'[q].expired => lease'.left <= MaxSkew
                      /\ tx'[q].pc = "locked" /\ lease'.holder = q => lease'.left <= tx'[q].left
                      /\ tx'[q].pc = "locked" => tx'[q].left <= TTL + Skew[q]
    BY DEF GrantInv
  <2>5. CASE q = r
    BY <2>1, <2>2, <2>4, <2>5
  <2>6. CASE q # r
    BY <2>2, <2>6
  <2> QED
    BY <2>5, <2>6
<1>2. ASSUME NEW r \in Replicas, TickDecline(r) PROVE GrantInv'
  BY <1>2 DEF TickDecline
<1>3. ASSUME NEW r \in Replicas, TickTake(r) PROVE GrantInv'
  <2>1. tx[r].holder = lease.holder
    BY <1>3 DEF TickTake, LockInv
  <2>2. /\ lease'.holder = r /\ lease'.left = tx[r].left
        /\ tx'[r].pc = "reply" /\ tx'[r].left = tx[r].left
        /\ \A q \in Replicas \ {r} : tx'[q] = tx[q] /\ tx[q].pc # "locked"
        /\ grant' = grant /\ isLeader' = isLeader
    BY <1>3 DEF TickTake, LockInv
  <2>3. /\ tx[r].left \in Nat /\ lease.left \in Nat
        /\ \A q \in Replicas : grant[q] \in Nat
        /\ \A q \in Replicas : tx[q].pc = "reply" => tx[q].left \in Nat
    BY <1>3, TxFields DEF TickTake, Times
  <2>4. tx[r].left <= TTL + Skew[r]
    BY <1>3 DEF TickTake
  <2>5. ASSUME NEW q \in Replicas, NEW x \in Nat, Covered(q, x)
        PROVE  x <= MaxSkew \/ (lease'.holder = q /\ x <= lease'.left)
    <3>1. CASE lease.holder = r
      BY <1>3, <2>2, <2>3, <2>5, <3>1 DEF TickTake
    <3>2. CASE lease.holder # r
      BY <1>3, <2>1, <2>2, <2>3, <2>5, <3>2 DEF TickTake, Ours
    <3> QED
      BY <3>1, <3>2
  <2>6. ASSUME NEW q \in Replicas, isLeader'[q] PROVE Covered(q, grant[q])'
    BY <2>2, <2>3, <2>5, <2>6
  <2>7. ASSUME NEW q \in Replicas, tx'[q].pc = "reply", tx'[q].acquired
        PROVE  (lease'.holder = q /\ tx'[q].left <= lease'.left) \/ tx'[q].left <= MaxSkew
    <3>1. CASE q = r
      BY <2>2, <2>3, <3>1
    <3>2. CASE q # r
      <4>1. tx[q].left \in Nat /\ Covered(q, tx[q].left)
        BY <2>2, <2>3, <2>7, <3>2
      <4>2. \/ tx[q].left <= MaxSkew
            \/ lease'.holder = q /\ tx[q].left <= lease'.left
        BY <4>1, <2>5
      <4> QED
        BY <2>2, <3>2, <4>2
    <3> QED
      BY <3>1, <3>2
  <2> QED
    BY <2>2, <2>4, <2>6, <2>7
<1>4. ASSUME NEW r \in Replicas, TickReturn(r) PROVE GrantInv'
  BY <1>4 DEF TickReturn, Idle
<1>5. ASSUME NEW r \in Replicas, TickError(r) PROVE GrantInv'
  BY <1>5 DEF TickError, Idle
<1>6. ASSUME NEW r \in Replicas, Crash(r) PROVE GrantInv'
  BY <1>6 DEF Crash, Idle
<1>7. ASSUME NEW r \in Replicas, Restart(r) PROVE GrantInv'
  BY <1>7 DEF Restart
<1>8. CASE Elapse
  <2>1. /\ lease'.holder = lease.holder /\ lease'.left = Less(lease.left)
        /\ isLeader' = isLeader
        /\ \A q \in Replicas : grant'[q] = Less(grant[q])
    BY <1>8 DEF Elapse
  <2>2. \A q \in Replicas :
           /\ tx'[q].pc = tx[q].pc
           /\ tx[q].pc = "reply" => tx'[q].acquired = tx[q].acquired /\ tx'[q].left = Less(tx[q].left)
           /\ tx[q].pc = "locked" => tx'[q].expired = tx[q].expired /\ tx'[q].left = Less(tx[q].left)
    BY <1>8, ElapseTxFacts DEF Elapse
  <2>3. \A q \in Replicas : tx[q].pc \in {"locked", "reply"} => tx[q].left \in Times
    BY TxFields
  <2>4. \A m, n \in Times : m <= n => Less(m) <= Less(n)
    BY LessFacts
  <2>5. \A m \in Times, n \in Nat : m <= n => Less(m) <= n
    BY DEF Less, Times
  <2>6. lease.left \in Times /\ \A q \in Replicas : grant[q] \in Times
    BY DEF TypeOK
  <2> SUFFICES ASSUME NEW q \in Replicas
               PROVE  /\ lease'.holder = q => lease'.left <= TTL + Skew[q]
                      /\ isLeader'[q] => Covered(q, grant[q])'
                      /\ tx'[q].pc = "reply" /\ tx'[q].acquired => Covered(q, tx[q].left)'
                      /\ tx'[q].pc = "locked" /\ tx'[q].expired => lease'.left <= MaxSkew
                      /\ tx'[q].pc = "locked" /\ lease'.holder = q => lease'.left <= tx'[q].left
                      /\ tx'[q].pc = "locked" => tx'[q].left <= TTL + Skew[q]
    BY DEF GrantInv
  <2>7. TTL + Skew[q] \in Nat
    OBVIOUS
  <2>8. lease'.holder = q => lease'.left <= TTL + Skew[q]
    BY <2>1, <2>5, <2>6, <2>7
  <2>9. isLeader'[q] => Covered(q, grant[q])'
    BY <2>1, <2>4, <2>5, <2>6
  <2>10. ASSUME tx'[q].pc = "reply", tx'[q].acquired PROVE Covered(q, tx[q].left)'
    <3>1. tx[q].left \in Times /\ Covered(q, tx[q].left) /\ tx'[q].left = Less(tx[q].left)
      BY <2>2, <2>3, <2>10
    <3> QED
      BY <2>1, <2>4, <2>5, <2>6, <3>1
  <2>11. ASSUME tx'[q].pc = "locked"
         PROVE  /\ tx'[q].expired => lease'.left <= MaxSkew
                /\ lease'.holder = q => lease'.left <= tx'[q].left
                /\ tx'[q].left <= TTL + Skew[q]
    <3>1. /\ tx[q].left \in Times /\ tx'[q].left = Less(tx[q].left)
          /\ tx[q].expired => lease.left <= MaxSkew
          /\ lease.holder = q => lease.left <= tx[q].left
          /\ tx[q].left <= TTL + Skew[q]
          /\ tx'[q].expired = tx[q].expired
      BY <2>2, <2>3, <2>11
    <3>2. lease'.left <= lease.left
      BY <2>1, <2>6, LessFacts
    <3>3. tx'[q].expired => lease'.left <= MaxSkew
      BY <2>1, <2>5, <2>6, <3>1
    <3> QED
      BY <2>1, <2>4, <2>5, <2>6, <2>7, <3>1, <3>3
  <2> QED
    BY <2>8, <2>9, <2>10, <2>11
<1>9. CASE UNCHANGED vars
  BY <1>9 DEF vars
<1> QED
  BY <1>1, <1>2, <1>3, <1>4, <1>5, <1>6, <1>7, <1>8, <1>9 DEF Next, Tick

\* The inductive invariant holds in every reachable state.
THEOREM LeaseInvariant == Spec => []IndInv
<1>1. Init => IndInv
  <2> SUFFICES ASSUME Init PROVE IndInv
    OBVIOUS
  <2>1. TypeOK
    BY DEF Init, TypeOK, TxState, Holders, Epochs, Times
  <2> QED
    BY <2>1 DEF Init, IndInv, HistoryInv, LockInv, BeliefInv, GrantInv, Idle
<1>2. IndInv /\ [Next]_vars => IndInv'
  BY TypeStep, HistoryStep, LockStep, BeliefStep, GrantStep DEF IndInv
<1> QED
  BY <1>1, <1>2, PTL DEF Spec

-------------------------------------------------------------------------------
(* What the invariant gives *)

\* Two replicas whose IsLeader() is true hold different epochs (Elector.tick
\* publishes only what TryAcquireOrRenewLease committed under the row lock).
THEOREM UniqueLeader == Spec => []UniqueLeaderPerEpoch
<1>1. IndInv => UniqueLeaderPerEpoch
  BY DEF IndInv, BeliefInv, UniqueLeaderPerEpoch
<1> QED
  BY <1>1, LeaseInvariant, PTL

\* A deposed replica that still believes it leads has at most MaxSkew left of
\* its grant: the takeover test of TryAcquireOrRenewLease waited for it.
THEOREM DeposedOutlived == Spec => []DeposedLeaderOutlivedGrant
<1>1. IndInv => DeposedLeaderOutlivedGrant
  BY DEF IndInv, GrantInv, Covered, DeposedLeaderOutlivedGrant
<1> QED
  BY <1>1, LeaseInvariant, PTL

\* The epoch that a running replica reports never goes back.
THEOREM EpochViewNeverRegresses == Spec => EpochViewMonotone
<1>1. IndInv /\ [Next]_vars
        => [\A r \in Replicas : up[r] /\ up'[r] => epoch'[r] >= epoch[r]]_vars
  <2> SUFFICES ASSUME IndInv, [Next]_vars, NEW q \in Replicas, up[q], up'[q]
               PROVE  epoch'[q] >= epoch[q]
    OBVIOUS
  <2> USE DEF IndInv, TypeOK, elector
  <2>1. epoch[q] \in Nat
    BY DEF Epochs
  <2>2. ASSUME NEW r \in Replicas, TickReturn(r) PROVE epoch'[q] >= epoch[q]
    <3>1. tx[r].epoch \in Nat
      BY <2>2, TxFields DEF TickReturn, Epochs
    <3> QED
      BY <2>1, <2>2, <3>1 DEF TickReturn, BeliefInv
  <2>3. ASSUME NEW r \in Replicas, Crash(r) PROVE epoch'[q] >= epoch[q]
    BY <2>1, <2>3 DEF Crash
  <2>4. ASSUME NEW r \in Replicas,
               TickBegin(r) \/ TickDecline(r) \/ TickTake(r) \/ TickError(r) \/ Restart(r)
        PROVE  epoch'[q] >= epoch[q]
    BY <2>1, <2>4 DEF TickBegin, TickDecline, TickTake, TickError, Restart
  <2>5. CASE Elapse
    BY <2>1, <2>5 DEF Elapse
  <2>6. CASE UNCHANGED vars
    BY <2>1, <2>6 DEF vars
  <2> QED
    BY <2>2, <2>3, <2>4, <2>5, <2>6 DEF Next, Tick
<1> QED
  BY <1>1, LeaseInvariant, PTL DEF Spec, EpochViewMonotone

\* The lease protocol implements Leadership: a takeover is a Grant, a reply
\* that reaches the Elector an Observe or a StepDown, a crash a StepDown, and
\* everything else leaves terms and beliefs alone.
THEOREM LeaseRefinesLeadership == Spec => ImplementsLeadership
<1> DEFINE View == [r \in Replicas |-> IF isLeader[r] THEN epoch[r] ELSE 0]
<1>1. Init => Abs!Init
  BY DEF Init, Abs!Init
<1>2. IndInv /\ [Next]_vars => [Abs!Next]_(Abs!vars)
  <2> SUFFICES ASSUME IndInv, [Next]_vars PROVE [Abs!Next]_(Abs!vars)
    OBVIOUS
  <2> USE DEF IndInv, TypeOK, elector
  <2>1. ASSUME NEW r \in Replicas, TickTake(r) PROVE [Abs!Next]_(Abs!vars)
    <3>1. View' = View
      BY <2>1 DEF TickTake
    <3>2. CASE Ours(r)
      BY <2>1, <3>1, <3>2 DEF TickTake, Abs!vars
    <3>3. CASE ~Ours(r)
      <4>1. elected = <<>> \/ elected[Len(elected)] # r
        BY <2>1, <3>3 DEF TickTake, Ours, LockInv, HistoryInv
      <4>2. Abs!Grant(r)
        BY <2>1, <3>1, <3>3, <4>1 DEF TickTake, Abs!Grant
      <4> QED
        BY <4>2 DEF Abs!Next
    <3> QED
      BY <3>2, <3>3
  <2>2. ASSUME NEW r \in Replicas, TickReturn(r) PROVE [Abs!Next]_(Abs!vars)
    <3>1. CASE tx[r].acquired
      <4>1. PICK n \in 1 .. Len(elected) : n = tx[r].epoch /\ elected[n] = r
        BY <2>2, <3>1 DEF TickReturn, BeliefInv
      <4>2. n >= View[r]
        BY <2>2, <4>1 DEF TickReturn, BeliefInv
      <4>3. View' = [View EXCEPT ![r] = n]
        BY <2>2, <3>1, <4>1 DEF TickReturn
      <4>4. Abs!Observe(r, n)
        BY <2>2, <4>1, <4>2, <4>3 DEF TickReturn, Abs!Observe
      <4> QED
        BY <4>4 DEF Abs!Next
    <3>2. CASE ~tx[r].acquired
      <4>1. View' = [View EXCEPT ![r] = 0]
        BY <2>2, <3>2 DEF TickReturn
      <4> QED
        BY <2>2, <4>1 DEF TickReturn, Abs!Next, Abs!StepDown
    <3> QED
      BY <3>1, <3>2
  <2>3. ASSUME NEW r \in Replicas, Crash(r) PROVE [Abs!Next]_(Abs!vars)
    <3>1. View' = [View EXCEPT ![r] = 0]
      BY <2>3 DEF Crash
    <3> QED
      BY <2>3, <3>1 DEF Crash, Abs!Next, Abs!StepDown
  <2>4. ASSUME NEW r \in Replicas,
               TickBegin(r) \/ TickDecline(r) \/ TickError(r) \/ Restart(r)
        PROVE  [Abs!Next]_(Abs!vars)
    BY <2>4 DEF TickBegin, TickDecline, TickError, Restart, Abs!vars
  <2>5. CASE Elapse
    BY <2>5 DEF Elapse, Abs!vars
  <2>6. CASE UNCHANGED vars
    BY <2>6 DEF vars, Abs!vars
  <2> QED
    BY <2>1, <2>2, <2>3, <2>4, <2>5, <2>6 DEF Next, Tick
<1> QED
  BY <1>1, <1>2, LeaseInvariant, PTL DEF Spec, ImplementsLeadership, Abs!Spec
===============================================================================
