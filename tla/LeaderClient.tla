----------------------------- MODULE LeaderClient -----------------------------
(***************************************************************************)
(* How clients find the leader.  Followers answer NOT_LEADER with the      *)
(* address of the leader as they know it (grpcapi, leaderclient).  The     *)
(* worker's goroutines share one schedulerDialer that follows redirects    *)
(* and rotates over the configured addresses when a replica is unreachable *)
(* (cmd/worker); arbiterctl follows redirects and goes back to its seed    *)
(* (cmd/arbiterctl).                                                       *)
(*                                                                         *)
(* Redialling closes the connection under the calls of other goroutines.   *)
(* Such a call fails with Canceled if it had not been sent yet, which      *)
(* nobody retries, and with Unavailable if it had, which rotates again.    *)
(***************************************************************************)
EXTENDS Naturals, Sequences, FiniteSets

CONSTANTS
    Replicas,           \* scheduler replicas, by advertise address
    Unknown,            \* a follower that knows no leader: LeaderAddr() is ""
    Addrs,              \* the configured addresses; the first is the seed
    Main,               \* the heartbeat loop; arbiterctl's only goroutine
    Reporters,          \* the worker's other goroutines that call the scheduler
    Attempts            \* attempts before the last one (8 and 6 in the code)

Goroutines == {Main} \cup Reporters

\* Enough attempts to try an address that is not configured, all configured
\* ones, and the leader.
ASSUME AddrsAssumption == Addrs \in Seq(Replicas) /\ Len(Addrs) > 0 /\ Attempts \in Nat /\ Attempts > Len(Addrs)
ASSUME NamesAssumption ==
    /\ Unknown \notin Replicas /\ Main \notin Reporters
    /\ \A r \in Replicas \cup {Unknown} : r \notin {"down", "leads", "ok", "none", "Unavailable", "Canceled", "Other"}

VARIABLES
    kind,               \* the program: "worker" or "ctl"
    cluster,            \* cluster[r]: what replica r is to its callers
    dialer,             \* the address of the connection, and the rotation index
    call,               \* call[g]: goroutine g in withLeaderRetry or withRedirect
    jobs,               \* history: how often arbiterctl's SubmitJob was carried out
    lostAt              \* history: the replicas whose answer to it was lost

vars == <<kind, cluster, dialer, call, jobs, lostAt>>

\* A replica is down, leads, or is a follower with a view of who leads.
Clusters == [Replicas -> {"down", "leads", Unknown} \cup Replicas]

Idle == [pc |-> "idle", tries |-> 0, addr |-> Addrs[1], closed |-> FALSE, err |-> "none", disturbed |-> FALSE]

Init ==
    /\ kind \in {"worker", "ctl"}
    /\ cluster \in Clusters
    /\ dialer = [addr |-> Addrs[1], idx |-> 1]
    /\ call = [g \in Goroutines |-> Idle]
    /\ jobs = 0
    /\ lostAt = {}

-------------------------------------------------------------------------------
(* The cluster: replicas come and go, leadership moves, views are stale. *)

Change ==
    /\ \E r \in Replicas, v \in {"down", "leads", Unknown} \cup Replicas :
          /\ v # cluster[r]
          /\ cluster' = [cluster EXCEPT ![r] = v]
    /\ call' = [g \in Goroutines |-> [call[g] EXCEPT !.disturbed = TRUE]]
    /\ UNCHANGED <<kind, dialer, jobs, lostAt>>

\* What a call gets: requireLeader's verdict, or no connection.  A replica that
\* is down refuses connections at once; one that does not respond at all uses
\* up the caller's deadline, which is in AnswerLost.
Verdict(r) ==
    CASE cluster[r] = "down" -> "Unavailable"
      [] cluster[r] = "leads" -> "ok"
      [] OTHER -> cluster[r]

-------------------------------------------------------------------------------
(* The loop of withLeaderRetry and withRedirect *)

\* A goroutine calls: the heartbeat loop again and again, the goroutine that
\* reports a task's end once, arbiterctl once.
Begin(g) ==
    /\ IF kind = "worker" /\ g = Main THEN call[g].pc \in {"idle", "done", "failed"} ELSE call[g].pc = "idle"
    /\ kind = "ctl" => g = Main
    /\ call' = [call EXCEPT ![g] = [Idle EXCEPT !.pc = "try"]]
    /\ UNCHANGED <<kind, cluster, dialer, jobs, lostAt>>

\* An attempt takes the dialer's current client.
Fetch(g) ==
    /\ call[g].pc = "try"
    /\ call' = [call EXCEPT ![g].pc = "sent", ![g].addr = dialer.addr]
    /\ UNCHANGED <<kind, cluster, dialer, jobs, lostAt>>

Ended(c, result) ==
    IF result = "ok" THEN [Idle EXCEPT !.pc = "done"]
    ELSE [Idle EXCEPT !.pc = "judge", !.tries = c.tries, !.err = result, !.disturbed = c.disturbed]

Carried(g) == IF kind = "ctl" /\ cluster[call[g].addr] = "leads" THEN 1 ELSE 0

\* The replica answers, or cannot be reached.
Answer(g) ==
    /\ call[g].pc = "sent"
    /\ ~call[g].closed
    /\ call' = [call EXCEPT ![g] = Ended(@, Verdict(@.addr))]
    /\ jobs' = jobs + Carried(g)
    /\ UNCHANGED <<kind, cluster, dialer, lostAt>>

\* Another goroutine has closed the connection.
AnswerClosed(g) ==
    /\ call[g].pc = "sent"
    /\ call[g].closed
    /\ \E result \in {"Canceled", "Unavailable"} : call' = [call EXCEPT ![g] = Ended(@, result)]
    /\ UNCHANGED <<kind, cluster, dialer, jobs, lostAt>>

\* The connection breaks, or the deadline passes that a report and a command
\* have for all their attempts together, before or after the call is carried
\* out; or the handler fails.  Only the first is Unavailable.
AnswerLost(g) ==
    /\ call[g].pc = "sent"
    /\ ~call[g].closed
    /\ \E result \in {"Unavailable", "Other"}, done \in {0, Carried(g)} :
          /\ call' = [call EXCEPT ![g] = [Ended(@, result) EXCEPT !.disturbed = TRUE]]
          /\ jobs' = jobs + done
          /\ lostAt' = IF done = 1 THEN lostAt \cup {call[g].addr} ELSE lostAt
    /\ UNCHANGED <<kind, cluster, dialer>>

-------------------------------------------------------------------------------
(* What the loop does about an error *)

DialedIdxKept(addr, idx) == [addr |-> addr, idx |-> idx]
\* redialLocked: the index follows the address if it is a configured one.
Dialed(addr, idx) ==
    [addr |-> addr,
     idx |-> IF \E k \in DOMAIN Addrs : Addrs[k] = addr
             THEN CHOOSE k \in DOMAIN Addrs : Addrs[k] = addr /\ \A j \in 1 .. k - 1 : Addrs[j] # addr
             ELSE idx]

Again(c) == [c EXCEPT !.pc = "try", !.tries = @ + 1, !.err = "none"]

\* g goes on with its next attempt over a new connection.
Redial(g, addr, idx) ==
    /\ dialer' = Dialed(addr, idx)
    /\ call' = [h \in Goroutines |->
           IF h = g THEN Again(call[g])
           ELSE [call[h] EXCEPT !.disturbed = TRUE, !.closed = @ \/ call[h].pc = "sent"]]

GiveUp(g) ==
    /\ call' = [call EXCEPT ![g] = [Idle EXCEPT !.pc = "failed", !.disturbed = call[g].disturbed]]
    /\ UNCHANGED dialer

\* The attempt after the loop is not followed by another.
Judging(g) == call[g].pc = "judge" /\ call[g].tries < Attempts

\* ParseLeaderAddr: the answer of a follower that knows a leader.
IsRedirect(err) == err \in Replicas

\* FollowRedirect.  A redirect to the current address is followed without a
\* new connection by the worker, and is an error to arbiterctl.
FollowRedirect(g) ==
    /\ Judging(g)
    /\ IsRedirect(call[g].err)
    /\ IF call[g].err # dialer.addr THEN Redial(g, call[g].err, dialer.idx)
       ELSE IF kind = "ctl" THEN GiveUp(g)
       ELSE /\ call' = [call EXCEPT ![g] = Again(@)]
            /\ UNCHANGED dialer
    /\ UNCHANGED <<kind, cluster, jobs, lostAt>>

NextIdxStays(idx) == idx
NextIdx(idx) == (idx % Len(Addrs)) + 1

\* RecoverFromUnavailable: the worker rotates.
Rotate(g) ==
    /\ Judging(g)
    /\ kind = "worker"
    /\ call[g].err = "Unavailable"
    /\ Redial(g, Addrs[NextIdx(dialer.idx)], NextIdx(dialer.idx))
    /\ UNCHANGED <<kind, cluster, jobs, lostAt>>

BackToSeedAlways(g) ==
    /\ Judging(g)
    /\ kind = "ctl"
    /\ call[g].err = "Unavailable"
    /\ Redial(g, Addrs[1], 1)
    /\ UNCHANGED <<kind, cluster, jobs, lostAt>>
\* arbiterctl goes back to its seed, if it is not there.
BackToSeed(g) ==
    /\ Judging(g)
    /\ kind = "ctl"
    /\ call[g].err = "Unavailable"
    /\ dialer.addr # Addrs[1]
    /\ Redial(g, Addrs[1], 1)
    /\ UNCHANGED <<kind, cluster, jobs, lostAt>>

\* Every other error, an unknown leader included, and any error of the last
\* attempt is the caller's.
Return(g) ==
    /\ call[g].pc = "judge"
    /\ \/ call[g].tries >= Attempts
       \/ ~IsRedirect(call[g].err) /\ call[g].err # "Unavailable"
       \/ kind = "ctl" /\ call[g].err = "Unavailable" /\ dialer.addr = Addrs[1]
    /\ GiveUp(g)
    /\ UNCHANGED <<kind, cluster, jobs, lostAt>>

-------------------------------------------------------------------------------
Step(g) ==
    \/ Begin(g) \/ Fetch(g) \/ Answer(g) \/ AnswerClosed(g) \/ AnswerLost(g)
    \/ FollowRedirect(g) \/ Rotate(g) \/ BackToSeed(g) \/ Return(g)

Next == Change \/ \E g \in Goroutines : Step(g)

Spec == Init /\ [][Next]_vars

-------------------------------------------------------------------------------
(* Properties *)

Calls ==
    [pc : {"idle", "try", "sent", "judge", "done", "failed"}, tries : 0 .. Attempts, addr : Replicas,
     closed : BOOLEAN, err : {"none", "Unavailable", "Canceled", "Other", Unknown} \cup Replicas,
     disturbed : BOOLEAN]

\* The rotation index names the current address whenever it is a configured one.
TypeOK ==
    /\ kind \in {"worker", "ctl"}
    /\ cluster \in Clusters
    /\ dialer \in [addr : Replicas, idx : DOMAIN Addrs]
    /\ (\E k \in DOMAIN Addrs : Addrs[k] = dialer.addr) => Addrs[dialer.idx] = dialer.addr
    /\ call \in [Goroutines -> Calls]
    /\ jobs \in Nat
    /\ lostAt \subseteq Replicas

\* One leader, known to every follower, and an address the client can start
\* from: any configured one for a worker, the seed for arbiterctl.
Settled ==
    /\ \E l \in Replicas :
          /\ cluster[l] = "leads"
          /\ \A r \in Replicas \ {l} : cluster[r] \in {"down", l}
    /\ IF kind = "ctl" THEN cluster[Addrs[1]] # "down"
       ELSE \E k \in DOMAIN Addrs : cluster[Addrs[k]] # "down"

\* "a killed leader does not permanently stick the worker to a dead seed": a
\* call that nothing disturbs, neither the cluster nor another goroutine's
\* redial, finds the leader within its attempts, wherever earlier calls left
\* the dialer (withLeaderRetry, withRedirect).
QuietCallSucceeds ==
    \A g \in Goroutines : Settled /\ call[g].pc = "failed" => call[g].disturbed

\* arbiterctl's withRedirect repeats a SubmitJob that was carried out when the
\* answer of a leader other than its seed is lost, and only then.
SubmitRepeatedOnlyOffSeed == jobs > 1 => \E r \in lostAt : r # Addrs[1]
===============================================================================
