-------------------------- MODULE LeaderClientProofs --------------------------
(***************************************************************************)
(* Proofs about module LeaderClient, for any replicas, any configured      *)
(* addresses, any number of goroutines and of attempts.                    *)
(***************************************************************************)
EXTENDS LeaderClient, WellFoundedInduction, TLAPS

USE AddrsAssumption, NamesAssumption

Errors == {"none", "Unavailable", "Canceled", "Other", Unknown} \cup Replicas

-------------------------------------------------------------------------------
(* Addresses *)

LEMMA AddrsFacts ==
    /\ Len(Addrs) \in Nat /\ Len(Addrs) > 0
    /\ DOMAIN Addrs = 1 .. Len(Addrs) /\ 1 \in DOMAIN Addrs
    /\ \A k \in DOMAIN Addrs : Addrs[k] \in Replicas
OBVIOUS

\* An address that is configured has a first place among the configured ones.
LEMMA FirstPlace ==
    ASSUME NEW a, \E k \in DOMAIN Addrs : Addrs[k] = a
    PROVE  \E k \in DOMAIN Addrs : Addrs[k] = a /\ \A j \in 1 .. k - 1 : Addrs[j] # a
<1> DEFINE S == {k \in DOMAIN Addrs : Addrs[k] = a}
<1>1. S \subseteq Nat /\ S # {}
  BY AddrsFacts
<1>2. PICK k \in S : \A y \in S : ~(<<y, k>> \in OpToRel(<, Nat))
  <2> HIDE DEF S
  <2> QED
    BY <1>1, NatLessThanWellFounded, WFMin
<1>3. \A y \in S : ~(y < k)
  <2> HIDE DEF S
  <2> QED
    BY <1>1, <1>2 DEF OpToRel
<1>4. k \in DOMAIN Addrs /\ Addrs[k] = a /\ k \in 1 .. Len(Addrs)
  BY <1>2, AddrsFacts
<1>5. \A j \in 1 .. k - 1 : j \in DOMAIN Addrs /\ j < k
  BY <1>4, AddrsFacts
<1> QED
  BY <1>3, <1>4, <1>5

\* redialLocked leaves the index on the address, if it is a configured one.
LEMMA DialedFacts ==
    ASSUME NEW a \in Replicas, NEW i \in DOMAIN Addrs
    PROVE  /\ Dialed(a, i) \in [addr : Replicas, idx : DOMAIN Addrs]
           /\ Dialed(a, i).addr = a
           /\ (\E k \in DOMAIN Addrs : Addrs[k] = a) => Addrs[Dialed(a, i).idx] = a
<1>1. CASE \E k \in DOMAIN Addrs : Addrs[k] = a
  <2> DEFINE m == CHOOSE k \in DOMAIN Addrs : Addrs[k] = a /\ \A j \in 1 .. k - 1 : Addrs[j] # a
  <2>1. m \in DOMAIN Addrs /\ Addrs[m] = a
    BY <1>1, FirstPlace
  <2>2. Dialed(a, i) = [addr |-> a, idx |-> m]
    BY <1>1 DEF Dialed
  <2> HIDE DEF m
  <2> QED
    BY <2>1, <2>2
<1>2. CASE ~\E k \in DOMAIN Addrs : Addrs[k] = a
  <2>1. Dialed(a, i) = [addr |-> a, idx |-> i]
    BY <1>2 DEF Dialed
  <2> QED
    BY <1>2, <2>1
<1> QED
  BY <1>1, <1>2

\* Rotation stays among the configured addresses.
LEMMA NextIdxType ==
    ASSUME NEW i \in DOMAIN Addrs
    PROVE  NextIdx(i) \in DOMAIN Addrs /\ Addrs[NextIdx(i)] \in Replicas
<1>1. i \in Nat /\ Len(Addrs) \in Nat /\ Len(Addrs) > 0
  BY AddrsFacts
<1>2. (i % Len(Addrs)) \in 0 .. Len(Addrs) - 1
  BY <1>1
<1>3. NextIdx(i) \in 1 .. Len(Addrs)
  BY <1>1, <1>2 DEF NextIdx
<1> QED
  BY <1>3, AddrsFacts

-------------------------------------------------------------------------------
(* Calls *)

LEMMA IdleFacts ==
    /\ Idle \in Calls /\ Idle.pc = "idle"
    /\ \A q \in {"try", "done"} : [Idle EXCEPT !.pc = q] \in Calls /\ [Idle EXCEPT !.pc = q].pc = q
    /\ \A d \in BOOLEAN : /\ [Idle EXCEPT !.pc = "failed", !.disturbed = d] \in Calls
                          /\ [Idle EXCEPT !.pc = "failed", !.disturbed = d].pc = "failed"
<1>1. Addrs[1] \in Replicas /\ 0 \in 0 .. Attempts
  BY AddrsFacts
<1> QED
  BY <1>1 DEF Idle, Calls

\* What an attempt ends as, with its error.
LEMMA EndedFacts ==
    ASSUME NEW c \in Calls, NEW result \in Errors \cup {"ok"}
    PROVE  /\ Ended(c, result) \in Calls
           /\ [Ended(c, result) EXCEPT !.disturbed = TRUE] \in Calls
           /\ Ended(c, result).pc \in {"done", "judge"}
           /\ Ended(c, result).pc = "judge" => Ended(c, result).err = result
           /\ [Ended(c, result) EXCEPT !.disturbed = TRUE].pc = Ended(c, result).pc
           /\ [Ended(c, result) EXCEPT !.disturbed = TRUE].err = Ended(c, result).err
<1>1. CASE result = "ok"
  <2>1. Ended(c, result) = [Idle EXCEPT !.pc = "done"]
    BY <1>1 DEF Ended
  <2>2. Ended(c, result) \in Calls /\ Ended(c, result).pc = "done"
    BY <2>1, IdleFacts
  <2> QED
    BY <2>2 DEF Calls
<1>2. CASE result # "ok"
  <2>1. Ended(c, result) = [Idle EXCEPT !.pc = "judge", !.tries = c.tries, !.err = result, !.disturbed = c.disturbed]
    BY <1>2 DEF Ended
  <2>2. result \in Errors /\ c.tries \in 0 .. Attempts /\ c.disturbed \in BOOLEAN /\ Idle \in Calls
    BY <1>2, IdleFacts DEF Calls
  <2>3. /\ Ended(c, result) \in Calls
        /\ Ended(c, result).pc = "judge" /\ Ended(c, result).err = result
    BY <2>1, <2>2 DEF Calls, Errors
  <2> QED
    BY <2>3 DEF Calls
<1> QED
  BY <1>1, <1>2

\* The next attempt of a call that has attempts left.
LEMMA AgainFacts ==
    ASSUME NEW c \in Calls, c.tries < Attempts
    PROVE  Again(c) \in Calls /\ Again(c).pc = "try"
<1>1. c.tries + 1 \in 0 .. Attempts
  BY DEF Calls
<1> QED
  BY <1>1 DEF Again, Calls

\* Other goroutines' calls are disturbed, or their connection is closed.
LEMMA TouchedFacts ==
    ASSUME NEW c \in Calls, NEW b \in BOOLEAN
    PROVE  /\ [c EXCEPT !.disturbed = TRUE] \in Calls
           /\ [c EXCEPT !.disturbed = TRUE].pc = c.pc
           /\ [c EXCEPT !.disturbed = TRUE].addr = c.addr
           /\ [c EXCEPT !.disturbed = TRUE].err = c.err
           /\ [c EXCEPT !.disturbed = TRUE, !.closed = b] \in Calls
           /\ [c EXCEPT !.disturbed = TRUE, !.closed = b].pc = c.pc
BY DEF Calls

LEMMA VerdictType ==
    ASSUME TypeOK, NEW r \in Replicas
    PROVE  Verdict(r) \in Errors \cup {"ok"}
<1>1. cluster[r] \in {"down", "leads", Unknown} \cup Replicas
  BY DEF TypeOK, Clusters
<1> QED
  BY <1>1 DEF Verdict, Errors
\* A redial, and what it does to the calls.
LEMMA RedialFacts ==
    ASSUME TypeOK, NEW g \in Goroutines, Judging(g), NEW a \in Replicas, NEW i \in DOMAIN Addrs,
           Redial(g, a, i)
    PROVE  /\ dialer' \in [addr : Replicas, idx : DOMAIN Addrs]
           /\ (\E k \in DOMAIN Addrs : Addrs[k] = dialer'.addr) => Addrs[dialer'.idx] = dialer'.addr
           /\ dialer'.addr = a
           /\ call' \in [Goroutines -> Calls]
           /\ call'[g].pc = "try"
           /\ \A h \in Goroutines : h # g => call'[h].pc = call[h].pc
<1>1. dialer' = Dialed(a, i)
  BY DEF Redial
<1>2. call[g] \in Calls /\ call[g].tries < Attempts
  BY DEF TypeOK, Judging
<1>3. ASSUME NEW h \in Goroutines
      PROVE  /\ call'[h] \in Calls
             /\ h = g => call'[h].pc = "try"
             /\ h # g => call'[h].pc = call[h].pc
  <2>0. call[h] \in Calls
    BY DEF TypeOK
  <2>1. CASE h = g
    BY <1>2, <2>1, AgainFacts DEF Redial
  <2>2. CASE h # g
    <3> DEFINE b == call[h].closed \/ call[h].pc = "sent"
    <3>1. b \in BOOLEAN
      OBVIOUS
    <3>2. call'[h] = [call[h] EXCEPT !.disturbed = TRUE, !.closed = b]
      <4>1. call' = [x \in Goroutines |->
                       IF x = g THEN Again(call[g])
                       ELSE [call[x] EXCEPT !.disturbed = TRUE, !.closed = call[x].closed \/ call[x].pc = "sent"]]
        BY DEF Redial
      <4> QED
        BY <2>2, <4>1, Zenon
    <3> HIDE DEF b
    <3>3. /\ [call[h] EXCEPT !.disturbed = TRUE, !.closed = b] \in Calls
          /\ [call[h] EXCEPT !.disturbed = TRUE, !.closed = b].pc = call[h].pc
      BY <2>0, <3>1, TouchedFacts, Zenon
    <3> QED
      BY <2>2, <3>2, <3>3, Zenon
  <2> QED
    BY <2>1, <2>2
<1>4. call' \in [Goroutines -> Calls]
  <2>1. DOMAIN call' = Goroutines /\ call' = [h \in Goroutines |-> call'[h]]
    BY DEF Redial
  <2> QED
    BY <1>3, <2>1
<1> QED
  BY <1>1, <1>3, <1>4, DialedFacts

-------------------------------------------------------------------------------
(* Types *)

LEMMA TypeInit == Init => TypeOK
<1> SUFFICES ASSUME Init PROVE TypeOK
  OBVIOUS
<1>1. dialer.addr = Addrs[1] /\ dialer.idx = 1 /\ dialer \in [addr : Replicas, idx : DOMAIN Addrs]
  BY AddrsFacts DEF Init
<1> QED
  BY <1>1, IdleFacts DEF Init, TypeOK

\* The steps that leave the dialer alone.
LEMMA CallStepType ==
    ASSUME TypeOK, NEW g \in Goroutines,
           Begin(g) \/ Fetch(g) \/ Answer(g) \/ AnswerClosed(g) \/ AnswerLost(g) \/ Return(g)
    PROVE  TypeOK'
<1>0. call \in [Goroutines -> Calls] /\ call[g] \in Calls /\ jobs \in Nat /\ lostAt \subseteq Replicas
  BY DEF TypeOK
<1>1. call[g].addr \in Replicas /\ call[g].disturbed \in BOOLEAN
  BY <1>0 DEF Calls
<1>2. Carried(g) \in Nat
  BY DEF Carried
<1>3. CASE Begin(g)
  <2>1. call' \in [Goroutines -> Calls]
    BY <1>0, <1>3, IdleFacts DEF Begin
  <2> QED
    BY <1>3, <2>1 DEF Begin, TypeOK
<1>4. CASE Fetch(g)
  <2>1. dialer.addr \in Replicas
    BY DEF TypeOK
  <2>2. [call[g] EXCEPT !.pc = "sent", !.addr = dialer.addr] \in Calls
    BY <1>0, <2>1 DEF Calls
  <2>3. call' \in [Goroutines -> Calls]
    BY <1>0, <1>4, <2>2 DEF Fetch
  <2> QED
    BY <1>4, <2>3 DEF Fetch, TypeOK
<1>5. CASE Answer(g)
  <2>1. Ended(call[g], Verdict(call[g].addr)) \in Calls
    BY <1>0, <1>1, VerdictType, EndedFacts
  <2>2. call' \in [Goroutines -> Calls]
    BY <1>0, <1>5, <2>1 DEF Answer
  <2>3. jobs' \in Nat
    BY <1>0, <1>2, <1>5 DEF Answer
  <2> QED
    BY <1>5, <2>2, <2>3 DEF Answer, TypeOK
<1>6. CASE AnswerClosed(g)
  <2>1. PICK result \in {"Canceled", "Unavailable"} : call' = [call EXCEPT ![g] = Ended(@, result)]
    BY <1>6 DEF AnswerClosed
  <2>2. Ended(call[g], result) \in Calls
    BY <1>0, EndedFacts DEF Errors
  <2>3. call' \in [Goroutines -> Calls]
    BY <1>0, <2>1, <2>2
  <2> QED
    BY <1>6, <2>3 DEF AnswerClosed, TypeOK
<1>7. CASE AnswerLost(g)
  <2>1. PICK result \in {"Unavailable", "Other"}, done \in {0, Carried(g)} :
            /\ call' = [call EXCEPT ![g] = [Ended(@, result) EXCEPT !.disturbed = TRUE]]
            /\ jobs' = jobs + done
            /\ lostAt' = IF done = 1 THEN lostAt \cup {call[g].addr} ELSE lostAt
    BY <1>7 DEF AnswerLost
  <2>2. [Ended(call[g], result) EXCEPT !.disturbed = TRUE] \in Calls
    BY <1>0, EndedFacts DEF Errors
  <2>3. call' \in [Goroutines -> Calls]
    BY <1>0, <2>1, <2>2
  <2>4. jobs' \in Nat
    BY <1>0, <1>2, <2>1
  <2>5. lostAt' \subseteq Replicas
    BY <1>0, <1>1, <2>1
  <2> QED
    BY <1>7, <2>3, <2>4, <2>5 DEF AnswerLost, TypeOK
<1>8. CASE Return(g)
  <2>1. call' \in [Goroutines -> Calls]
    BY <1>0, <1>1, <1>8, IdleFacts DEF Return, GiveUp
  <2> QED
    BY <1>8, <2>1 DEF Return, GiveUp, TypeOK
<1> QED
  BY <1>3, <1>4, <1>5, <1>6, <1>7, <1>8

\* The steps that may dial.
LEMMA DialStepType ==
    ASSUME TypeOK, NEW g \in Goroutines, FollowRedirect(g) \/ Rotate(g) \/ BackToSeed(g)
    PROVE  TypeOK'
<1>0. /\ call \in [Goroutines -> Calls] /\ call[g] \in Calls /\ call[g].disturbed \in BOOLEAN
      /\ Judging(g) /\ call[g].tries < Attempts
      /\ dialer.idx \in DOMAIN Addrs
      /\ UNCHANGED <<kind, cluster, jobs, lostAt>>
  BY DEF TypeOK, Calls, FollowRedirect, Rotate, BackToSeed, Judging
<1>1. ASSUME NEW a \in Replicas, NEW i \in DOMAIN Addrs, Redial(g, a, i)
      PROVE  TypeOK'
  BY <1>0, <1>1, RedialFacts DEF TypeOK
<1>2. CASE GiveUp(g)
  <2>1. call' \in [Goroutines -> Calls]
    BY <1>0, <1>2, IdleFacts DEF GiveUp
  <2> QED
    BY <1>0, <1>2, <2>1 DEF GiveUp, TypeOK
<1>3. CASE call' = [call EXCEPT ![g] = Again(@)] /\ UNCHANGED dialer
  <2>1. call' \in [Goroutines -> Calls]
    BY <1>0, <1>3, AgainFacts
  <2> QED
    BY <1>0, <1>3, <2>1 DEF TypeOK
<1>4. CASE FollowRedirect(g)
  <2>1. call[g].err \in Replicas
    BY <1>4 DEF FollowRedirect, IsRedirect
  <2> QED
    BY <1>0, <1>1, <1>2, <1>3, <1>4, <2>1 DEF FollowRedirect
<1>5. CASE Rotate(g)
  BY <1>0, <1>1, <1>5, NextIdxType DEF Rotate
<1>6. CASE BackToSeed(g)
  BY <1>1, <1>6, AddrsFacts DEF BackToSeed
<1> QED
  BY <1>4, <1>5, <1>6

LEMMA ChangeType ==
    ASSUME TypeOK, Change
    PROVE  /\ TypeOK'
           /\ \A g \in Goroutines : /\ call'[g].pc = call[g].pc /\ call'[g].addr = call[g].addr
                                   /\ call'[g].err = call[g].err
<1>1. cluster' \in Clusters
  BY DEF Change, TypeOK, Clusters
<1>2. ASSUME NEW g \in Goroutines
      PROVE  /\ call'[g] \in Calls
             /\ call'[g].pc = call[g].pc /\ call'[g].addr = call[g].addr /\ call'[g].err = call[g].err
  <2>1. call[g] \in Calls /\ call'[g] = [call[g] EXCEPT !.disturbed = TRUE]
    BY DEF TypeOK, Change
  <2> QED
    BY <2>1, TouchedFacts
<1>3. call' \in [Goroutines -> Calls]
  BY <1>2 DEF Change
<1> QED
  BY <1>1, <1>2, <1>3 DEF Change, TypeOK

LEMMA TypeNext == TypeOK /\ [Next]_vars => TypeOK'
<1> SUFFICES ASSUME TypeOK, [Next]_vars PROVE TypeOK'
  OBVIOUS
<1>1. CASE Change
  BY <1>1, ChangeType
<1>2. ASSUME NEW g \in Goroutines, Step(g) PROVE TypeOK'
  BY <1>2, CallStepType, DialStepType DEF Step
<1>3. CASE UNCHANGED vars
  BY <1>3 DEF vars, TypeOK
<1> QED
  BY <1>1, <1>2, <1>3 DEF Next

\* The dialer is always at some replica's address, and its rotation index names
\* that address whenever it is a configured one, whoever redials.
THEOREM TypeCorrect == Spec => []TypeOK
  BY TypeInit, TypeNext, PTL DEF Spec

-------------------------------------------------------------------------------
(* How often arbiterctl submits *)

OffSeed == \E r \in lostAt : r # Addrs[1]

\* The strengthening: only arbiterctl's one goroutine counts; while it is on
\* its way to another attempt after a submission, an answer was lost off the
\* seed; while it judges the lost answer, the dialer is still where that came
\* from.
SubmitInv ==
    /\ kind = "worker" => jobs = 0
    /\ kind = "ctl" =>
          /\ \A g \in Goroutines : g # Main => call[g].pc = "idle"
          /\ call[Main].pc = "idle" => jobs = 0
          /\ call[Main].pc = "sent" => call[Main].addr = dialer.addr
          /\ call[Main].pc \in {"try", "sent"} /\ jobs > 0 => OffSeed
          /\ call[Main].pc = "judge" /\ jobs > 0 =>
                OffSeed \/ (call[Main].err \in {"Unavailable", "Other"} /\ dialer.addr \in lostAt)
    /\ jobs > 1 => OffSeed

LEMMA SubmitStep ==
    ASSUME TypeOK, SubmitInv, NEW g \in Goroutines, Step(g)
    PROVE  SubmitInv'
<1>0. /\ call \in [Goroutines -> Calls] /\ call[g] \in Calls /\ jobs \in Nat
      /\ kind \in {"worker", "ctl"} /\ Main \in Goroutines
  BY DEF TypeOK, Goroutines
<1>1. UNCHANGED kind
  BY DEF Step, Begin, Fetch, Answer, AnswerClosed, AnswerLost, FollowRedirect, Rotate, BackToSeed, Return
<1>2. CASE kind = "worker"
  <2>1. jobs' = 0
    <3>1. jobs = 0 /\ Carried(g) = 0
      BY <1>2 DEF SubmitInv, Carried
    <3> QED
      BY <3>1 DEF Step, Begin, Fetch, Answer, AnswerClosed, AnswerLost, FollowRedirect, Rotate, BackToSeed,
                  Return
  <2> QED
    BY <1>1, <1>2, <2>1 DEF SubmitInv
<1>3. CASE kind = "ctl"
  <2>1. g = Main
    BY <1>3 DEF SubmitInv, Step, Begin, Fetch, Answer, AnswerClosed, AnswerLost, FollowRedirect, Rotate,
                BackToSeed, Return, Judging
  <2>2. CASE Begin(g)
    <3>1. /\ call'[Main].pc = "try" /\ \A h \in Goroutines : h # Main => call'[h].pc = call[h].pc
          /\ jobs = 0 /\ jobs' = 0
      BY <1>0, <1>3, <2>1, <2>2, IdleFacts DEF Begin, SubmitInv
    <3> QED
      BY <1>1, <1>3, <3>1 DEF SubmitInv
  <2>3. CASE Fetch(g)
    <3>1. /\ call'[Main].pc = "sent" /\ call'[Main].addr = dialer.addr
          /\ \A h \in Goroutines : h # Main => call'[h].pc = call[h].pc
          /\ UNCHANGED <<dialer, jobs, lostAt>> /\ call[Main].pc = "try"
      BY <1>0, <2>1, <2>3 DEF Fetch, Calls
    <3> QED
      BY <1>1, <1>3, <3>1 DEF SubmitInv, OffSeed
  <2>4. CASE Answer(g) \/ AnswerClosed(g) \/ AnswerLost(g)
    <3>0. /\ call[Main].pc = "sent" /\ call[Main].addr = dialer.addr
          /\ jobs > 0 => OffSeed
      BY <1>3, <2>1, <2>4 DEF Answer, AnswerClosed, AnswerLost, SubmitInv
    <3>1. Carried(g) \in {0, 1} /\ (Carried(g) = 1 => cluster[call[Main].addr] = "leads")
      BY <2>1 DEF Carried
    <3>2. \E done \in {0, 1} :
             /\ jobs' = jobs + done
             /\ UNCHANGED dialer
             /\ lostAt \subseteq lostAt'
             /\ \A h \in Goroutines : h # Main => call'[h].pc = call[h].pc
             /\ call'[Main].pc \in {"done", "judge"}
             /\ done = 1 /\ call'[Main].pc = "judge" =>
                   call'[Main].err \in {"Unavailable", "Other"} /\ call[Main].addr \in lostAt'
      <4>1. CASE Answer(g)
        <5> DEFINE v == Verdict(call[g].addr)
        <5>1. v \in Errors \cup {"ok"} /\ (Carried(g) = 1 => v = "ok")
          <6>1. call[g].addr \in Replicas
            BY <1>0 DEF Calls
          <6>2. v \in Errors \cup {"ok"}
            BY <6>1, VerdictType
          <6>3. Carried(g) = 1 => v = "ok"
            BY <2>1, <3>1 DEF Verdict
          <6> QED
            BY <6>2, <6>3
        <5>2. /\ call' = [call EXCEPT ![g] = Ended(call[g], v)]
              /\ jobs' = jobs + Carried(g)
              /\ UNCHANGED <<dialer, lostAt>>
          BY <4>1 DEF Answer
        <5> HIDE DEF v
        <5>3. Ended(call[g], v).pc \in {"done", "judge"} /\ (v = "ok" => Ended(call[g], v).pc = "done")
          <6>1. v = "ok" => Ended(call[g], v) = [Idle EXCEPT !.pc = "done"]
            BY DEF Ended
          <6> QED
            BY <1>0, <5>1, <6>1, EndedFacts, IdleFacts
        <5>4. call'[Main] = Ended(call[g], v) /\ \A h \in Goroutines : h # Main => call'[h] = call[h]
          BY <1>0, <2>1, <5>2
        <5>5. Carried(g) = 1 => call'[Main].pc # "judge"
          BY <5>1, <5>3, <5>4
        <5> QED
          BY <3>1, <5>2, <5>3, <5>4, <5>5
      <4>2. CASE AnswerClosed(g)
        <5>1. PICK result \in {"Canceled", "Unavailable"} : call' = [call EXCEPT ![g] = Ended(@, result)]
          BY <4>2 DEF AnswerClosed
        <5>2. Ended(call[g], result).pc \in {"done", "judge"}
          BY <1>0, EndedFacts DEF Errors
        <5>3. call'[Main] = Ended(call[g], result) /\ \A h \in Goroutines : h # Main => call'[h] = call[h]
          BY <1>0, <2>1, <5>1
        <5>4. jobs' = jobs + 0 /\ UNCHANGED <<dialer, lostAt>>
          BY <1>0, <4>2 DEF AnswerClosed
        <5> QED
          BY <5>2, <5>3, <5>4
      <4>3. CASE AnswerLost(g)
        <5>1. PICK result \in {"Unavailable", "Other"}, done \in {0, Carried(g)} :
                  /\ call' = [call EXCEPT ![g] = [Ended(@, result) EXCEPT !.disturbed = TRUE]]
                  /\ jobs' = jobs + done
                  /\ lostAt' = IF done = 1 THEN lostAt \cup {call[g].addr} ELSE lostAt
          BY <4>3 DEF AnswerLost
        <5> DEFINE new == [Ended(call[g], result) EXCEPT !.disturbed = TRUE]
        <5>2. new.pc \in {"done", "judge"} /\ (new.pc = "judge" => new.err = result)
          <6>1. result \in Errors \cup {"ok"}
            BY DEF Errors
          <6>2. /\ Ended(call[g], result).pc \in {"done", "judge"}
                /\ Ended(call[g], result).pc = "judge" => Ended(call[g], result).err = result
                /\ new.pc = Ended(call[g], result).pc
                /\ new.err = Ended(call[g], result).err
            BY <1>0, <6>1, EndedFacts, Zenon
          <6> HIDE DEF new
          <6> QED
            BY <6>2
        <5>3. call'[Main] = new /\ \A h \in Goroutines : h # Main => call'[h] = call[h]
          BY <1>0, <2>1, <5>1
        <5> HIDE DEF new
        <5>4. done \in {0, 1} /\ lostAt \subseteq lostAt' /\ (done = 1 => call[Main].addr \in lostAt')
          BY <2>1, <3>1, <5>1
        <5>5. UNCHANGED dialer
          BY <4>3 DEF AnswerLost
        <5> QED
          BY <5>1, <5>2, <5>3, <5>4, <5>5
      <4> QED
        BY <2>4, <4>1, <4>2, <4>3
    <3>3. PICK done \in {0, 1} :
             /\ jobs' = jobs + done
             /\ UNCHANGED dialer
             /\ lostAt \subseteq lostAt'
             /\ \A h \in Goroutines : h # Main => call'[h].pc = call[h].pc
             /\ call'[Main].pc \in {"done", "judge"}
             /\ done = 1 /\ call'[Main].pc = "judge" =>
                   call'[Main].err \in {"Unavailable", "Other"} /\ call[Main].addr \in lostAt'
      BY <3>2
    <3>4. OffSeed => OffSeed'
      BY <3>3 DEF OffSeed
    <3>5. jobs' > 1 => jobs > 0
      BY <1>0, <3>3
    <3>6. jobs' > 0 => jobs > 0 \/ done = 1
      BY <1>0, <3>3
    <3> QED
      BY <1>1, <1>3, <3>0, <3>3, <3>4, <3>5, <3>6 DEF SubmitInv
  <2>5. CASE FollowRedirect(g) \/ Rotate(g) \/ BackToSeed(g)
    <3>1. /\ call[Main].pc = "judge" /\ Judging(g) /\ UNCHANGED <<jobs, lostAt>>
          /\ dialer.idx \in DOMAIN Addrs
      BY <2>1, <2>5 DEF FollowRedirect, Rotate, BackToSeed, Judging, TypeOK
    <3>2. jobs > 0 => OffSeed
      <4> SUFFICES ASSUME jobs > 0 PROVE OffSeed
        OBVIOUS
      <4>1. OffSeed \/ (call[Main].err \in {"Unavailable", "Other"} /\ dialer.addr \in lostAt)
        BY <1>3, <3>1 DEF SubmitInv
      <4>2. CASE call[Main].err \in {"Unavailable", "Other"} /\ dialer.addr \in lostAt
        <5>1. BackToSeed(g)
          BY <1>3, <2>1, <2>5, <4>2 DEF FollowRedirect, IsRedirect, Rotate
        <5> QED
          BY <4>2, <5>1 DEF BackToSeed, OffSeed
      <4> QED
        BY <4>1, <4>2
    <3>3. /\ call'[Main].pc \in {"try", "failed"}
          /\ \A h \in Goroutines : h # Main => call'[h].pc = call[h].pc
      <4>1. ASSUME NEW a \in Replicas, NEW i \in DOMAIN Addrs, Redial(g, a, i)
            PROVE  /\ call'[Main].pc = "try"
                   /\ \A h \in Goroutines : h # Main => call'[h].pc = call[h].pc
        BY <2>1, <3>1, <4>1, RedialFacts
      <4>2. CASE GiveUp(g)
        <5>1. call[g].disturbed \in BOOLEAN
          BY <1>0 DEF Calls
        <5> QED
          BY <1>0, <2>1, <4>2, <5>1, IdleFacts DEF GiveUp
      <4>3. CASE call' = [call EXCEPT ![g] = Again(@)]
        <5>1. Again(call[g]).pc = "try"
          BY <1>0, <3>1, AgainFacts DEF Judging
        <5> QED
          BY <1>0, <2>1, <4>3, <5>1
      <4>4. CASE FollowRedirect(g)
        <5>1. call[g].err \in Replicas
          BY <4>4 DEF FollowRedirect, IsRedirect
        <5> QED
          BY <3>1, <4>1, <4>2, <4>3, <4>4, <5>1 DEF FollowRedirect
      <4>5. CASE Rotate(g)
        BY <1>3, <4>5 DEF Rotate
      <4>6. CASE BackToSeed(g)
        BY <4>1, <4>6, AddrsFacts DEF BackToSeed
      <4> QED
        BY <2>5, <4>4, <4>5, <4>6
    <3>4. OffSeed => OffSeed'
      BY <3>1 DEF OffSeed
    <3> QED
      BY <1>1, <1>3, <3>1, <3>2, <3>3, <3>4 DEF SubmitInv
  <2>6. CASE Return(g)
    <3>1. call[g].disturbed \in BOOLEAN
      BY <1>0 DEF Calls
    <3>2. /\ call'[Main].pc = "failed" /\ \A h \in Goroutines : h # Main => call'[h].pc = call[h].pc
          /\ UNCHANGED <<jobs, lostAt>>
      BY <1>0, <2>1, <2>6, <3>1, IdleFacts DEF Return, GiveUp
    <3> QED
      BY <1>1, <1>3, <3>2 DEF SubmitInv, OffSeed
  <2> QED
    BY <2>2, <2>3, <2>4, <2>5, <2>6 DEF Step
<1> QED
  BY <1>0, <1>2, <1>3

LEMMA SubmitNext == TypeOK /\ SubmitInv /\ [Next]_vars => SubmitInv'
<1> SUFFICES ASSUME TypeOK, SubmitInv, [Next]_vars PROVE SubmitInv'
  OBVIOUS
<1>1. CASE Change
  <2>1. UNCHANGED <<kind, dialer, jobs, lostAt>> /\ Main \in Goroutines
    BY <1>1 DEF Change, Goroutines
  <2> QED
    BY <1>1, <2>1, ChangeType DEF SubmitInv, OffSeed
<1>2. ASSUME NEW g \in Goroutines, Step(g) PROVE SubmitInv'
  BY <1>2, SubmitStep
<1>3. CASE UNCHANGED vars
  BY <1>3 DEF vars, SubmitInv, OffSeed
<1> QED
  BY <1>1, <1>2, <1>3 DEF Next

LEMMA SubmitInit == Init => SubmitInv
<1> SUFFICES ASSUME Init PROVE SubmitInv
  OBVIOUS
<1>1. jobs = 0 /\ \A g \in Goroutines : call[g].pc = "idle"
  BY IdleFacts DEF Init
<1>2. call[Main].pc = "idle"
  BY <1>1 DEF Goroutines
<1> QED
  BY <1>1, <1>2 DEF SubmitInv

\* arbiterctl submits a job twice only after the answer of a leader other than
\* its seed was lost, however often it is redirected and however many attempts
\* it has.
THEOREM SubmitOnceAtSeed == Spec => []SubmitRepeatedOnlyOffSeed
<1>1. Init => SubmitInv
  BY SubmitInit
<1>2. SubmitInv => SubmitRepeatedOnlyOffSeed
  BY DEF SubmitInv, SubmitRepeatedOnlyOffSeed, OffSeed
<1> QED
  BY <1>1, <1>2, TypeInit, TypeNext, SubmitNext, PTL DEF Spec

-------------------------------------------------------------------------------
(* How a quiet call finds the leader *)

\* No address is configured twice.  The index of a redialled address is that
\* of its first place: with <<a, b, a, c>> the rotation never gets to c.
AddrsDistinct == \A j, k \in DOMAIN Addrs : Addrs[j] = Addrs[k] => j = k

\* How many rotations lead from index i to index t.
Dist(i, t) == IF t > i THEN t - i ELSE (t - i) + Len(Addrs)

\* The rotation gets from index i to a replica that is up, and so many attempts
\* are left that one remains for the redirect this replica may answer with.
Reachable(i, left) == \E t \in DOMAIN Addrs : cluster[Addrs[t]] # "down" /\ Dist(i, t) + 1 <= left

\* l leads, in a cluster that is settled.
LeaderIs(l) ==
    /\ cluster[l] = "leads"
    /\ \A r \in Replicas \ {l} : cluster[r] \in {"down", l}
    /\ IF kind = "ctl" THEN cluster[Addrs[1]] # "down"
       ELSE \E k \in DOMAIN Addrs : cluster[Addrs[k]] # "down"

\* Call c is bound to reach l: the current address is the leader's, or a
\* follower's with an attempt left for its redirect, or it is unreachable and
\* the rotation has attempts enough; the error under judgement leads there.
OnTrack(c, d, l) ==
    /\ c.pc \in {"try", "sent"} =>
          \/ d.addr = l
          \/ cluster[d.addr] # "down" /\ c.tries < Attempts
          \/ kind = "worker" /\ Reachable(d.idx, Attempts - c.tries)
    /\ c.pc = "judge" =>
          \/ c.err = l /\ d.addr # l /\ c.tries < Attempts
          \/ c.err = "Unavailable" /\ kind = "worker" /\ Reachable(d.idx, Attempts - c.tries)
    /\ c.pc # "failed"

\* The strengthening: arbiterctl starts at its seed; a call that nothing has
\* disturbed waits for an answer from the current address, over a connection
\* that is open, and is on track to whoever leads.
QuietInv ==
    /\ kind = "ctl" /\ call[Main].pc = "idle" => dialer.addr = Addrs[1]
    /\ \A g \in Goroutines : ~call[g].disturbed =>
          /\ ~call[g].closed
          /\ call[g].pc = "sent" => call[g].addr = dialer.addr
          /\ \A l \in Replicas : LeaderIs(l) => OnTrack(call[g], dialer, l)

LEMMA DistFacts ==
    ASSUME NEW i \in DOMAIN Addrs, NEW t \in DOMAIN Addrs
    PROVE  /\ Dist(i, t) \in 1 .. Len(Addrs)
           /\ NextIdx(i) # t => Dist(NextIdx(i), t) = Dist(i, t) - 1 /\ Dist(i, t) > 1
<1>1. i \in 1 .. Len(Addrs) /\ t \in 1 .. Len(Addrs) /\ Len(Addrs) \in Nat
  BY AddrsFacts
<1>2. NextIdx(i) = IF i = Len(Addrs) THEN 1 ELSE i + 1
  <2>1. CASE i = Len(Addrs)
    <3>1. i % Len(Addrs) = 0
      BY <1>1, <2>1
    <3> QED
      BY <2>1, <3>1 DEF NextIdx
  <2>2. CASE i < Len(Addrs)
    <3>1. i % Len(Addrs) = i
      BY <1>1, <2>2
    <3> QED
      BY <1>1, <2>2, <3>1 DEF NextIdx
  <2> QED
    BY <1>1, <2>1, <2>2
<1>3. PICK L \in Nat : L = Len(Addrs)
  BY <1>1
<1>4. PICK n : n = NextIdx(i)
  OBVIOUS
<1>5. i \in 1 .. L /\ t \in 1 .. L /\ n = IF i = L THEN 1 ELSE i + 1
  BY <1>1, <1>2, <1>3, <1>4
<1>6. \A j : Dist(j, t) = IF t > j THEN t - j ELSE (t - j) + L
  BY <1>3 DEF Dist
<1>7. Dist(i, t) \in 1 .. L
  BY <1>5, <1>6
<1>8. n # t => Dist(n, t) = Dist(i, t) - 1 /\ Dist(i, t) > 1
  BY <1>5, <1>6
<1> QED
  BY <1>3, <1>4, <1>7, <1>8

\* With distinct addresses the index of a dialled configured address is its own.
LEMMA DialedIdx ==
    ASSUME AddrsDistinct, NEW i \in DOMAIN Addrs
    PROVE  Dialed(Addrs[i], i).addr = Addrs[i] /\ Dialed(Addrs[i], i).idx = i
<1>1. Addrs[i] \in Replicas
  BY AddrsFacts
<1>2. /\ Dialed(Addrs[i], i).addr = Addrs[i] /\ Dialed(Addrs[i], i).idx \in DOMAIN Addrs
      /\ Addrs[Dialed(Addrs[i], i).idx] = Addrs[i]
  BY <1>1, DialedFacts
<1> QED
  BY <1>2 DEF AddrsDistinct

\* One rotation brings the call closer.
LEMMA RotateCloser ==
    ASSUME NEW i \in DOMAIN Addrs, NEW left \in Nat, Reachable(i, left)
    PROVE  /\ left > 1
           /\ \/ cluster[Addrs[NextIdx(i)]] # "down"
              \/ Reachable(NextIdx(i), left - 1)
<1>1. PICK t \in DOMAIN Addrs : cluster[Addrs[t]] # "down" /\ Dist(i, t) + 1 <= left
  BY DEF Reachable
<1>2. Dist(i, t) \in Nat /\ Dist(i, t) >= 1 /\ Len(Addrs) \in Nat
  BY DistFacts, AddrsFacts
<1>3. left > 1
  BY <1>1, <1>2
<1>4. CASE NextIdx(i) = t
  BY <1>1, <1>3, <1>4
<1>5. CASE NextIdx(i) # t
  <2>1. Dist(NextIdx(i), t) = Dist(i, t) - 1
    BY <1>5, DistFacts
  <2>2. Dist(NextIdx(i), t) + 1 <= left - 1
    BY <1>1, <1>2, <2>1
  <2>3. Reachable(NextIdx(i), left - 1)
    BY <1>1, <2>2 DEF Reachable
  <2> QED
    BY <1>3, <2>3
<1> QED
  BY <1>4, <1>5

\* What judging and trying again keep of a call.
LEMMA CallFields ==
    /\ Idle.disturbed = FALSE /\ Idle.closed = FALSE
    /\ [Idle EXCEPT !.pc = "try"].tries = 0
    /\ [Idle EXCEPT !.pc = "try"].closed = FALSE /\ [Idle EXCEPT !.pc = "done"].closed = FALSE
    /\ \A d : [Idle EXCEPT !.pc = "failed", !.disturbed = d].disturbed = d
    /\ \A c \in Calls :
          /\ Again(c).pc = "try" /\ Again(c).tries = c.tries + 1
          /\ Again(c).disturbed = c.disturbed /\ Again(c).closed = c.closed
<1>1. \A c \in Calls : /\ Again(c).pc = "try" /\ Again(c).tries = c.tries + 1
                       /\ Again(c).disturbed = c.disturbed /\ Again(c).closed = c.closed
  BY DEF Again, Calls
<1> QED
  BY <1>1 DEF Idle

LEMMA EndedFields ==
    ASSUME NEW c \in Calls, NEW result \in Errors
    PROVE  /\ Ended(c, result).pc = "judge" /\ Ended(c, result).err = result
           /\ Ended(c, result).tries = c.tries
           /\ Ended(c, result).closed = FALSE /\ Ended(c, result).disturbed = c.disturbed
<1>1. result # "ok"
  BY DEF Errors
<1>2. Ended(c, result) = [Idle EXCEPT !.pc = "judge", !.tries = c.tries, !.err = result, !.disturbed = c.disturbed]
  BY <1>1 DEF Ended
<1> QED
  BY <1>2 DEF Idle

\* A settled cluster has one leader, and everybody else is down or names it.
LEMMA LeaderFacts ==
    ASSUME TypeOK, NEW l \in Replicas, LeaderIs(l), NEW r \in Replicas
    PROVE  /\ Verdict(r) = IF r = l THEN "ok" ELSE IF cluster[r] = "down" THEN "Unavailable" ELSE l
           /\ cluster[l] # "down"
  BY DEF LeaderIs, Verdict

LEMMA QuietChange ==
    ASSUME TypeOK, QuietInv, Change
    PROVE  QuietInv'
<1>1. UNCHANGED <<kind, dialer>> /\ Main \in Goroutines
  BY DEF Change, Goroutines
<1>2. \A g \in Goroutines : call'[g].disturbed = TRUE
  <2> SUFFICES ASSUME NEW g \in Goroutines PROVE call'[g].disturbed = TRUE
    OBVIOUS
  <2>1. call[g] \in Calls /\ call'[g] = [call[g] EXCEPT !.disturbed = TRUE]
    BY DEF TypeOK, Change
  <2> QED
    BY <2>1 DEF Calls
<1>3. call'[Main].pc = call[Main].pc
  BY <1>1, ChangeType
<1> QED
  BY <1>1, <1>2, <1>3 DEF QuietInv

\* What a step of g has to show of g's own call: the calls of the others keep
\* the dialer they are bound to, or are disturbed.
LEMMA QuietOthers ==
    ASSUME TypeOK, QuietInv, SubmitInv, NEW g \in Goroutines, UNCHANGED <<kind, cluster>>,
           \A h \in Goroutines \ {g} : \/ call'[h].disturbed = TRUE
                                       \/ call'[h] = call[h] /\ dialer' = dialer,
           kind = "ctl" => g = Main,
           call'[g].pc # "idle",
           call'[g].disturbed = FALSE =>
              /\ call'[g].closed = FALSE
              /\ call'[g].pc = "sent" => call'[g].addr = dialer'.addr
              /\ \A l \in Replicas : LeaderIs(l) => OnTrack(call'[g], dialer', l),
           call'[g].disturbed \in BOOLEAN
    PROVE  QuietInv'
<1>1. kind' = "ctl" /\ call'[Main].pc = "idle" => dialer'.addr = Addrs[1]
  OBVIOUS
<1>2. \A l : LeaderIs(l)' <=> LeaderIs(l)
  BY DEF LeaderIs
<1>3. \A c, d, l : OnTrack(c, d, l)' <=> OnTrack(c, d, l)
  BY DEF OnTrack, Reachable
<1>4. ASSUME NEW h \in Goroutines, ~call'[h].disturbed
      PROVE  /\ ~call'[h].closed
             /\ call'[h].pc = "sent" => call'[h].addr = dialer'.addr
             /\ \A l \in Replicas : LeaderIs(l)' => OnTrack(call'[h], dialer', l)
  <2>1. CASE h = g
    BY <1>2, <1>4, <2>1, Zenon
  <2>2. CASE h # g
    <3>1. call'[h] = call[h] /\ dialer' = dialer /\ ~call[h].disturbed
      BY <1>4, <2>2, Zenon
    <3> QED
      BY <1>2, <3>1, Zenon DEF QuietInv
  <2> QED
    BY <2>1, <2>2
<1> QED
  BY <1>1, <1>3, <1>4, Zenon DEF QuietInv

\* A step that only replaces g's call.
LEMMA QuietOwn ==
    ASSUME TypeOK, QuietInv, SubmitInv, NEW g \in Goroutines, UNCHANGED <<kind, cluster, dialer>>,
           NEW c \in Calls, call' = [call EXCEPT ![g] = c],
           kind = "ctl" => g = Main,
           c.pc # "idle",
           c.disturbed = FALSE =>
              /\ c.closed = FALSE
              /\ c.pc = "sent" => c.addr = dialer.addr
              /\ \A l \in Replicas : LeaderIs(l) => OnTrack(c, dialer, l)
    PROVE  QuietInv'
<1>1. call'[g] = c /\ \A h \in Goroutines \ {g} : call'[h] = call[h]
  BY DEF TypeOK
<1>2. c.disturbed \in BOOLEAN
  BY DEF Calls
<1> QED
  BY <1>1, <1>2, QuietOthers, Zenon

LEMMA QuietBegin ==
    ASSUME TypeOK, QuietInv, SubmitInv, NEW g \in Goroutines, Begin(g)
    PROVE  QuietInv'
<1> DEFINE c == [Idle EXCEPT !.pc = "try"]
<1>1. c \in Calls /\ c.pc = "try" /\ c.tries = 0 /\ c.closed = FALSE
  BY IdleFacts, CallFields
<1>2. /\ call' = [call EXCEPT ![g] = c] /\ UNCHANGED <<kind, cluster, dialer>>
      /\ kind = "ctl" => g = Main /\ call[Main].pc = "idle"
  BY DEF Begin
<1>3. Attempts \in Nat /\ Attempts > Len(Addrs) /\ Len(Addrs) \in Nat /\ dialer.idx \in DOMAIN Addrs
      /\ kind \in {"worker", "ctl"}
  BY AddrsFacts DEF TypeOK
<1> HIDE DEF c
<1>4. ASSUME NEW l \in Replicas, LeaderIs(l) PROVE OnTrack(c, dialer, l)
  <2>1. CASE kind = "ctl"
    <3>1. dialer.addr = Addrs[1] /\ cluster[Addrs[1]] # "down"
      BY <1>2, <1>4, <2>1 DEF QuietInv, LeaderIs
    <3> QED
      BY <1>1, <1>3, <3>1 DEF OnTrack
  <2>2. CASE kind = "worker"
    <3>1. PICK t \in DOMAIN Addrs : cluster[Addrs[t]] # "down"
      BY <1>4, <2>2 DEF LeaderIs
    <3>2. Dist(dialer.idx, t) \in 1 .. Len(Addrs)
      BY <1>3, DistFacts
    <3>3. Dist(dialer.idx, t) + 1 <= Attempts - c.tries
      BY <1>1, <1>3, <3>2
    <3>4. Reachable(dialer.idx, Attempts - c.tries)
      BY <3>1, <3>3 DEF Reachable
    <3> QED
      BY <1>1, <2>2, <3>4 DEF OnTrack
  <2> QED
    BY <1>3, <2>1, <2>2
<1> QED
  BY <1>1, <1>2, <1>4, QuietOwn

LEMMA QuietFetch ==
    ASSUME TypeOK, QuietInv, SubmitInv, NEW g \in Goroutines, Fetch(g), kind = "ctl" => g = Main
    PROVE  QuietInv'
<1> DEFINE c == [call[g] EXCEPT !.pc = "sent", !.addr = dialer.addr]
<1>1. call[g] \in Calls /\ call[g].pc = "try" /\ dialer.addr \in Replicas
  BY DEF TypeOK, Fetch
<1>2. /\ c \in Calls /\ c.pc = "sent" /\ c.addr = dialer.addr /\ c.tries = call[g].tries
      /\ c.closed = call[g].closed /\ c.disturbed = call[g].disturbed
  BY <1>1 DEF Calls
<1>3. call' = [call EXCEPT ![g] = c] /\ UNCHANGED <<kind, cluster, dialer>>
  BY DEF Fetch, TypeOK
<1>4. call[g].closed \in BOOLEAN /\ call[g].disturbed \in BOOLEAN
  BY <1>1 DEF Calls
<1> HIDE DEF c
<1>5. ASSUME c.disturbed = FALSE
      PROVE  /\ c.closed = FALSE
             /\ \A l \in Replicas : LeaderIs(l) => OnTrack(c, dialer, l)
  <2>1. ~call[g].disturbed
    BY <1>2, <1>5, Zenon
  <2>2. ~call[g].closed /\ \A l \in Replicas : LeaderIs(l) => OnTrack(call[g], dialer, l)
    BY <2>1, Zenon DEF QuietInv
  <2>3. c.closed = FALSE
    BY <1>2, <1>4, <2>2, Zenon
  <2>4. \A l \in Replicas : OnTrack(call[g], dialer, l) => OnTrack(c, dialer, l)
    BY <1>1, <1>2 DEF OnTrack
  <2> QED
    BY <2>2, <2>3, <2>4
<1> QED
  BY <1>2, <1>3, <1>5, QuietOwn

LEMMA QuietAnswer ==
    ASSUME TypeOK, QuietInv, SubmitInv, NEW g \in Goroutines, Answer(g), kind = "ctl" => g = Main
    PROVE  QuietInv'
<1> DEFINE v == Verdict(call[g].addr)
<1> DEFINE c == Ended(call[g], v)
<1>1. /\ call[g] \in Calls /\ call[g].pc = "sent" /\ call[g].addr \in Replicas
      /\ call[g].disturbed \in BOOLEAN /\ call[g].tries \in Nat
  BY DEF TypeOK, Answer, Calls
<1>2. v \in Errors \cup {"ok"}
  BY <1>1, VerdictType
<1>3. call' = [call EXCEPT ![g] = c] /\ UNCHANGED <<kind, cluster, dialer>>
  BY DEF Answer, TypeOK
<1>4. CASE v = "ok"
  <2>1. c = [Idle EXCEPT !.pc = "done"]
    BY <1>4 DEF Ended
  <2> HIDE DEF c, v
  <2>2. c \in Calls /\ c.pc = "done" /\ c.closed = FALSE
    BY <2>1, IdleFacts, CallFields
  <2>3. \A l : OnTrack(c, dialer, l)
    BY <2>2 DEF OnTrack
  <2> QED
    BY <1>3, <2>2, <2>3, QuietOwn
<1>5. CASE v \in Errors
  <2>1. /\ c \in Calls /\ c.pc = "judge" /\ c.err = v /\ c.tries = call[g].tries
        /\ c.closed = FALSE /\ c.disturbed = call[g].disturbed
    <3> HIDE DEF v
    <3>1. c \in Calls
      BY <1>1, <1>2, EndedFacts, Zenon
    <3>2. /\ c.pc = "judge" /\ c.err = v /\ c.tries = call[g].tries
          /\ c.closed = FALSE /\ c.disturbed = call[g].disturbed
      BY <1>1, <1>5, EndedFields, Zenon
    <3> QED
      BY <3>1, <3>2, Zenon
  <2>2. ASSUME c.disturbed = FALSE, NEW l \in Replicas, LeaderIs(l)
        PROVE  OnTrack(c, dialer, l)
    <3>1. ~call[g].disturbed
      BY <2>1, <2>2, Zenon
    <3>2. call[g].addr = dialer.addr /\ OnTrack(call[g], dialer, l)
      BY <1>1, <2>2, <3>1, Zenon DEF QuietInv
    <3>3. v = IF dialer.addr = l THEN "ok" ELSE IF cluster[dialer.addr] = "down" THEN "Unavailable" ELSE l
      BY <1>1, <2>2, <3>2, LeaderFacts
    <3>4. dialer.addr # l
      BY <1>5, <3>3 DEF Errors
    <3> HIDE DEF c, v
    <3>5. CASE cluster[dialer.addr] = "down"
      <4>1. c.err = "Unavailable" /\ kind = "worker" /\ Reachable(dialer.idx, Attempts - c.tries)
        BY <1>1, <2>1, <3>2, <3>3, <3>4, <3>5 DEF OnTrack
      <4> QED
        BY <2>1, <4>1 DEF OnTrack
    <3>6. CASE cluster[dialer.addr] # "down"
      <4>1. c.err = l
        BY <2>1, <3>3, <3>4, <3>6
      <4>2. c.tries < Attempts
        <5>1. CASE Reachable(dialer.idx, Attempts - call[g].tries)
          <6>1. PICK t \in DOMAIN Addrs : Dist(dialer.idx, t) + 1 <= Attempts - call[g].tries
            BY <5>1 DEF Reachable
          <6>2. Dist(dialer.idx, t) \in 1 .. Len(Addrs) /\ Len(Addrs) \in Nat
            BY DistFacts, AddrsFacts DEF TypeOK
          <6> QED
            BY <1>1, <2>1, <6>1, <6>2
        <5> QED
          BY <1>1, <2>1, <3>2, <3>4, <5>1 DEF OnTrack
      <4> QED
        BY <2>1, <3>4, <4>1, <4>2 DEF OnTrack
    <3> QED
      BY <3>5, <3>6
  <2> HIDE DEF c, v
  <2> QED
    BY <1>3, <2>1, <2>2, QuietOwn
<1> QED
  BY <1>2, <1>4, <1>5

\* An answer that never comes over a good connection disturbs the call.
LEMMA QuietLost ==
    ASSUME TypeOK, QuietInv, SubmitInv, NEW g \in Goroutines, AnswerClosed(g) \/ AnswerLost(g),
           kind = "ctl" => g = Main
    PROVE  QuietInv'
<1>1. /\ call[g] \in Calls /\ call[g].disturbed \in BOOLEAN /\ UNCHANGED <<kind, cluster, dialer>>
  BY DEF TypeOK, Calls, AnswerClosed, AnswerLost
<1>2. CASE AnswerClosed(g)
  <2>1. PICK result \in {"Canceled", "Unavailable"} : call' = [call EXCEPT ![g] = Ended(call[g], result)]
    BY <1>2 DEF AnswerClosed
  <2> DEFINE c == Ended(call[g], result)
  <2>2. result \in Errors
    BY DEF Errors
  <2>3. c \in Calls /\ c.pc = "judge" /\ c.disturbed = call[g].disturbed
    BY <1>1, <2>2, EndedFacts, EndedFields
  <2>4. call[g].disturbed = TRUE
    <3>1. call[g].closed
      BY <1>2, Zenon DEF AnswerClosed
    <3> QED
      BY <1>1, <3>1, Zenon DEF QuietInv
  <2> HIDE DEF c
  <2> QED
    BY <1>1, <2>1, <2>3, <2>4, QuietOwn DEF c
<1>3. CASE AnswerLost(g)
  <2>1. PICK result \in {"Unavailable", "Other"} :
            call' = [call EXCEPT ![g] = [Ended(call[g], result) EXCEPT !.disturbed = TRUE]]
    BY <1>3 DEF AnswerLost
  <2> DEFINE c == [Ended(call[g], result) EXCEPT !.disturbed = TRUE]
  <2>2. result \in Errors
    BY DEF Errors
  <2>3. Ended(call[g], result) \in Calls /\ Ended(call[g], result).pc = "judge"
    BY <1>1, <2>2, EndedFacts, EndedFields
  <2>4. c \in Calls /\ c.pc = "judge" /\ c.disturbed = TRUE
    BY <2>3 DEF Calls
  <2> HIDE DEF c
  <2> QED
    BY <1>1, <2>1, <2>4, QuietOwn DEF c
<1> QED
  BY <1>2, <1>3

\* g dials: every other call is disturbed, and g's own goes on.
LEMMA QuietRedial ==
    ASSUME TypeOK, QuietInv, SubmitInv, NEW g \in Goroutines, Judging(g), NEW a \in Replicas, NEW i \in DOMAIN Addrs,
           Redial(g, a, i), UNCHANGED <<kind, cluster>>, kind = "ctl" => g = Main,
           call[g].disturbed = FALSE =>
              \A l \in Replicas : LeaderIs(l) => OnTrack(Again(call[g]), Dialed(a, i), l)
    PROVE  QuietInv'
<1>1. call[g] \in Calls /\ call[g].disturbed \in BOOLEAN /\ call[g].closed \in BOOLEAN
  BY DEF TypeOK, Calls
<1>2. dialer' = Dialed(a, i) /\ call'[g] = Again(call[g])
  BY DEF Redial
<1>3. /\ call'[g].pc = "try" /\ call'[g].disturbed = call[g].disturbed /\ call'[g].closed = call[g].closed
  BY <1>1, <1>2, CallFields
<1>4. ASSUME NEW h \in Goroutines \ {g} PROVE call'[h].disturbed = TRUE
  <2>1. call' = [x \in Goroutines |->
                   IF x = g THEN Again(call[g])
                   ELSE [call[x] EXCEPT !.disturbed = TRUE, !.closed = call[x].closed \/ call[x].pc = "sent"]]
    BY DEF Redial
  <2>2. call'[h] = [call[h] EXCEPT !.disturbed = TRUE, !.closed = call[h].closed \/ call[h].pc = "sent"]
    BY <2>1, Zenon
  <2>3. call[h] \in Calls
    BY DEF TypeOK
  <2>4. \A b : [call[h] EXCEPT !.disturbed = TRUE, !.closed = b].disturbed = TRUE
    BY <2>3 DEF Calls
  <2> QED
    BY <2>2, <2>4, Zenon
<1>5. call[g].disturbed = FALSE => call[g].closed = FALSE
  BY <1>1, Zenon DEF QuietInv
<1> QED
  BY <1>1, <1>2, <1>3, <1>4, <1>5, QuietOthers

LEMMA QuietDial ==
    ASSUME AddrsDistinct, TypeOK, QuietInv, SubmitInv, NEW g \in Goroutines,
           FollowRedirect(g) \/ Rotate(g) \/ BackToSeed(g) \/ Return(g), kind = "ctl" => g = Main
    PROVE  QuietInv'
<1>1. /\ call[g] \in Calls /\ call[g].disturbed \in BOOLEAN /\ UNCHANGED <<kind, cluster>>
      /\ dialer.idx \in DOMAIN Addrs /\ call[g].pc = "judge" /\ call[g].tries \in Nat
      /\ Attempts \in Nat
  BY DEF TypeOK, Calls, FollowRedirect, Rotate, BackToSeed, Return, Judging
<1>2. ASSUME call[g].disturbed = FALSE, NEW l \in Replicas, LeaderIs(l)
      PROVE  \/ call[g].err = l /\ dialer.addr # l /\ call[g].tries < Attempts
             \/ /\ call[g].err = "Unavailable" /\ kind = "worker"
                /\ Reachable(dialer.idx, Attempts - call[g].tries)
  <2>1. OnTrack(call[g], dialer, l)
    BY <1>1, <1>2, Zenon DEF QuietInv
  <2> QED
    BY <1>1, <2>1 DEF OnTrack
<1>3. ASSUME call[g].disturbed = FALSE, NEW l \in Replicas, LeaderIs(l) PROVE call[g].tries < Attempts
  <2>1. CASE Reachable(dialer.idx, Attempts - call[g].tries)
    <3>1. PICK t \in DOMAIN Addrs : Dist(dialer.idx, t) + 1 <= Attempts - call[g].tries
      BY <2>1 DEF Reachable
    <3>2. Dist(dialer.idx, t) \in 1 .. Len(Addrs) /\ Len(Addrs) \in Nat
      BY <1>1, DistFacts, AddrsFacts
    <3> QED
      BY <1>1, <3>1, <3>2
  <2> QED
    BY <1>2, <1>3, <2>1
<1>4. ASSUME GiveUp(g), call[g].disturbed = FALSE => \A l \in Replicas : ~LeaderIs(l)
      PROVE  QuietInv'
  <2> DEFINE c == [Idle EXCEPT !.pc = "failed", !.disturbed = call[g].disturbed]
  <2>1. c \in Calls /\ c.pc = "failed" /\ c.disturbed = call[g].disturbed
    BY <1>1, IdleFacts, CallFields, Zenon
  <2>2. c.closed = FALSE
    BY DEF Idle
  <2>3. call' = [call EXCEPT ![g] = c] /\ UNCHANGED dialer
    BY <1>4 DEF GiveUp
  <2> HIDE DEF c
  <2> QED
    BY <1>1, <1>4, <2>1, <2>2, <2>3, QuietOwn
<1>5. CASE FollowRedirect(g)
  <2>0. call[g].err \in Replicas /\ Judging(g)
    BY <1>5 DEF FollowRedirect, IsRedirect
  <2>1. ASSUME call[g].disturbed = FALSE, NEW l \in Replicas, LeaderIs(l) PROVE call[g].err = l /\ dialer.addr # l
    BY <1>2, <2>0, <2>1
  <2>2. CASE call[g].err # dialer.addr
    <3>1. Redial(g, call[g].err, dialer.idx)
      BY <1>5, <2>2 DEF FollowRedirect
    <3>2. ASSUME call[g].disturbed = FALSE, NEW l \in Replicas, LeaderIs(l)
          PROVE  OnTrack(Again(call[g]), Dialed(call[g].err, dialer.idx), l)
      <4>1. Dialed(call[g].err, dialer.idx).addr = l
        BY <1>1, <2>0, <2>1, <3>2, DialedFacts
      <4>2. Again(call[g]).pc = "try"
        BY <1>1, CallFields
      <4> QED
        BY <4>1, <4>2 DEF OnTrack
    <3> QED
      BY <1>1, <2>0, <3>1, <3>2, QuietRedial
  <2>3. CASE call[g].err = dialer.addr
    <3>1. call[g].disturbed = FALSE => \A l \in Replicas : ~LeaderIs(l)
      BY <2>1, <2>3
    <3>2. CASE kind = "ctl"
      BY <1>4, <1>5, <2>3, <3>1, <3>2 DEF FollowRedirect
    <3>3. CASE kind # "ctl"
      <4>1. call' = [call EXCEPT ![g] = Again(call[g])] /\ UNCHANGED dialer
        BY <1>5, <2>3, <3>3 DEF FollowRedirect
      <4>2. /\ Again(call[g]) \in Calls /\ Again(call[g]).pc = "try"
            /\ Again(call[g]).disturbed = call[g].disturbed /\ Again(call[g]).closed = call[g].closed
        BY <1>1, <2>0, AgainFacts, CallFields DEF Judging
      <4>3. call[g].closed \in BOOLEAN
        BY <1>1 DEF Calls
      <4>4. call[g].disturbed = FALSE => call[g].closed = FALSE
        BY <1>1, <4>3, Zenon DEF QuietInv
      <4> QED
        BY <1>1, <3>1, <4>1, <4>2, <4>4, QuietOwn
    <3> QED
      BY <3>2, <3>3
  <2> QED
    BY <2>2, <2>3
<1>6. CASE Rotate(g)
  <2> DEFINE n == NextIdx(dialer.idx)
  <2>1. /\ Judging(g) /\ Redial(g, Addrs[n], n) /\ kind = "worker" /\ call[g].err = "Unavailable"
    BY <1>6 DEF Rotate
  <2>2. n \in DOMAIN Addrs /\ Addrs[n] \in Replicas
    BY <1>1, NextIdxType
  <2>3. ASSUME call[g].disturbed = FALSE, NEW l \in Replicas, LeaderIs(l)
        PROVE  OnTrack(Again(call[g]), Dialed(Addrs[n], n), l)
    <3>1. Reachable(dialer.idx, Attempts - call[g].tries)
      BY <1>2, <2>1, <2>3
    <3>2. call[g].tries < Attempts
      BY <1>3, <2>3, Zenon
    <3>3. /\ Attempts - call[g].tries > 1
          /\ cluster[Addrs[n]] # "down" \/ Reachable(n, (Attempts - call[g].tries) - 1)
      <4>1. Attempts - call[g].tries \in Nat
        BY <1>1, <3>2
      <4> QED
        BY <1>1, <3>1, <4>1, RotateCloser
    <3>4. Dialed(Addrs[n], n).addr = Addrs[n] /\ Dialed(Addrs[n], n).idx = n
      BY <2>2, DialedIdx
    <3>5. Again(call[g]).pc = "try" /\ Again(call[g]).tries = call[g].tries + 1
      BY <1>1, CallFields
    <3> HIDE DEF n
    <3>6. /\ Again(call[g]).tries < Attempts
          /\ (Attempts - call[g].tries) - 1 = Attempts - Again(call[g]).tries
      BY <1>1, <3>3, <3>5
    <3> QED
      BY <2>1, <3>3, <3>4, <3>5, <3>6 DEF OnTrack
  <2> HIDE DEF n
  <2> QED
    BY <1>1, <2>1, <2>2, <2>3, QuietRedial
<1>7. CASE BackToSeed(g)
  <2>1. /\ Judging(g) /\ Redial(g, Addrs[1], 1) /\ kind = "ctl" /\ call[g].err = "Unavailable"
        /\ 1 \in DOMAIN Addrs /\ Addrs[1] \in Replicas
    BY <1>7, AddrsFacts DEF BackToSeed
  <2>2. call[g].disturbed = FALSE => \A l \in Replicas : ~LeaderIs(l)
    BY <1>2, <2>1
  <2> QED
    BY <1>1, <2>1, <2>2, QuietRedial
<1>8. CASE Return(g)
  <2>1. call[g].disturbed = FALSE => \A l \in Replicas : ~LeaderIs(l)
    <3> SUFFICES ASSUME call[g].disturbed = FALSE, NEW l \in Replicas, LeaderIs(l) PROVE FALSE
      OBVIOUS
    <3>0. call[g].tries < Attempts
      BY <1>3, Zenon
    <3>1. ~(call[g].tries >= Attempts)
      BY <1>1, <3>0
    <3> QED
      BY <1>2, <1>8, <3>1 DEF Return, IsRedirect
  <2>2. GiveUp(g)
    BY <1>8 DEF Return
  <2> QED
    BY <1>4, <2>1, <2>2
<1> QED
  BY <1>5, <1>6, <1>7, <1>8

LEMMA QuietNext == AddrsDistinct /\ TypeOK /\ SubmitInv /\ QuietInv /\ [Next]_vars => QuietInv'
<1> SUFFICES ASSUME AddrsDistinct, TypeOK, SubmitInv, QuietInv, [Next]_vars PROVE QuietInv'
  OBVIOUS
<1>1. CASE Change
  BY <1>1, QuietChange
<1>2. ASSUME NEW g \in Goroutines, Step(g) PROVE QuietInv'
  <2>1. kind = "ctl" => g = Main
    BY <1>2 DEF SubmitInv, Step, Begin, Fetch, Answer, AnswerClosed, AnswerLost, FollowRedirect, Rotate,
                BackToSeed, Return, Judging
  <2> QED
    BY <1>2, <2>1, QuietBegin, QuietFetch, QuietAnswer, QuietLost, QuietDial DEF Step
<1>3. CASE UNCHANGED vars
  BY <1>3 DEF vars, QuietInv, LeaderIs, OnTrack, Reachable
<1> QED
  BY <1>1, <1>2, <1>3 DEF Next

\* A worker's or arbiterctl's call that nothing disturbs does not fail in a
\* settled cluster, for any number of replicas, configured addresses and
\* goroutines, wherever the calls before it left the dialer, provided that no
\* address is configured twice and there are more attempts than addresses.
THEOREM QuietCallsSucceed ==
    ASSUME AddrsDistinct
    PROVE  Spec => []QuietCallSucceeds
<1>1. Init => SubmitInv
  BY SubmitInit
<1>2. Init => QuietInv
  <2> SUFFICES ASSUME Init PROVE QuietInv
    OBVIOUS
  <2>1. \A g \in Goroutines : call[g].pc = "idle" /\ call[g].closed = FALSE
    BY IdleFacts, CallFields DEF Init
  <2>2. dialer.addr = Addrs[1]
    BY DEF Init
  <2> QED
    BY <2>1, <2>2 DEF QuietInv, OnTrack
<1>3. TypeOK /\ QuietInv => QuietCallSucceeds
  <2> SUFFICES ASSUME TypeOK, QuietInv, NEW g \in Goroutines, Settled, call[g].pc = "failed" PROVE call[g].disturbed
    BY DEF QuietCallSucceeds
  <2>1. PICK l \in Replicas : LeaderIs(l)
    BY DEF Settled, LeaderIs
  <2>2. ~OnTrack(call[g], dialer, l)
    BY DEF OnTrack
  <2> QED
    BY <2>1, <2>2, Zenon DEF QuietInv
<1> QED
  BY <1>1, <1>2, <1>3, TypeInit, TypeNext, SubmitNext, QuietNext, PTL DEF Spec
===============================================================================
