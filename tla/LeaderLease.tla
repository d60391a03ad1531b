----------------------------- MODULE LeaderLease ------------------------------
(***************************************************************************)
(* Leader election: the singleton leader_lease row of Postgres             *)
(* (internal/store/lease.go) and the Elector of every scheduler replica    *)
(* (internal/election/election.go).                                        *)
(*                                                                         *)
(* One tick of an Elector is three steps, because other goroutines,        *)
(* replicas and the clock move between them: the transaction locks the row *)
(* and reads the replica's own clock; it commits; the Elector copies the   *)
(* result into the fields that IsLeader() serves.                          *)
(*                                                                         *)
(* Time is relative.  An expiry is kept as the time that remains until it  *)
(* on the true clock, 0 standing for "now or earlier"; Elapse lets one     *)
(* unit pass.  Replica r's clock is ahead of the true one by Skew[r].      *)
(***************************************************************************)
EXTENDS Naturals, Sequences

CONSTANTS
    Replicas,           \* identities of the scheduler replicas
    NoReplica,          \* leader_id of the row as migrated: the empty string
    TTL,                \* Config.LeaseTTL
    Skew,               \* Skew[r]: how far r's clock is ahead
    MaxSkew,            \* bound on Skew
    MaxEpoch            \* bound on the lease epoch, for model checking

ASSUME ReplicasAssumption == NoReplica \notin Replicas
ASSUME TimeAssumption ==
    /\ TTL \in Nat \ {0}
    /\ MaxSkew \in Nat
    /\ Skew \in [Replicas -> 0 .. MaxSkew]
ASSUME MaxEpochAssumption == MaxEpoch \in Nat

VARIABLES
    lease,              \* the row: holder, epoch, time left until expires_at
    elected,            \* the leader_elected events, oldest first
    tx,                 \* tx[r]: progress of r's current lease tick
    up,                 \* up[r]: the replica's process is running
    isLeader,           \* Elector.isLeader
    epoch,              \* Elector.epoch
    leaderAddr,         \* Elector.leaderAddr; an address is its replica's identity
    grant               \* ghost: time left of the grant r's isLeader rests on

vars == <<lease, elected, tx, up, isLeader, epoch, leaderAddr, grant>>
elector == <<isLeader, epoch, leaderAddr, grant>>

Holders == Replicas \cup {NoReplica}

\* "idle": between ticks; "locked": the row is locked and the clock was read;
\* "reply": the transaction committed and its result is on the way back.
Idle == [pc |-> "idle"]

Times == 0 .. TTL + MaxSkew
Epochs == 0 .. MaxEpoch

TxState ==
    {Idle}
    \cup [pc : {"locked"}, expired : BOOLEAN, holder : Holders, epoch : Epochs, left : Times]
    \cup [pc : {"reply"}, acquired : BOOLEAN, holder : Holders, epoch : Epochs, left : Times]

\* No expiry lies further ahead than one TTL on the fastest clock.
TypeOK ==
    /\ lease \in [holder : Holders, epoch : Epochs, left : Times]
    /\ elected \in Seq(Replicas)
    /\ tx \in [Replicas -> TxState]
    /\ up \in [Replicas -> BOOLEAN]
    /\ isLeader \in [Replicas -> BOOLEAN]
    /\ epoch \in [Replicas -> Epochs]
    /\ leaderAddr \in [Replicas -> Holders]
    /\ grant \in [Replicas -> Times]

Init ==
    /\ lease = [holder |-> NoReplica, epoch |-> 0, left |-> 0]
    /\ elected = <<>>
    /\ tx = [r \in Replicas |-> Idle]
    /\ up = [r \in Replicas |-> TRUE]
    /\ isLeader = [r \in Replicas |-> FALSE]
    /\ epoch = [r \in Replicas |-> 0]
    /\ leaderAddr = [r \in Replicas |-> NoReplica]
    /\ grant = [r \in Replicas |-> 0]

-------------------------------------------------------------------------------
(* TryAcquireOrRenewLease *)

\* expired := !lease.ExpiresAt.After(now), on the caller's clock.
ExpiredOneEarly(r) == lease.left <= Skew[r] + 1
ExpiredOnlyIfUnheld(r) == lease.holder = NoReplica
Expired(r) == lease.left <= Skew[r]

\* expires_at = now + ttl, on the caller's clock.
ExpiryExtended(r) == lease.left + TTL + Skew[r]
Expiry(r) == TTL + Skew[r]

\* ours, in the row that the transaction read.
Ours(r) == tx[r].holder = r

\* A renewal keeps the epoch of the row that was read, a takeover increments it.
NewEpochOnFirst(r) == IF tx[r].holder = NoReplica THEN tx[r].epoch + 1 ELSE tx[r].epoch
NewEpoch(r) == IF Ours(r) THEN tx[r].epoch ELSE tx[r].epoch + 1

\* SELECT ... FOR UPDATE: one transaction has the row at a time.
RowIgnored(r) == TRUE
RowAvailable(r) == \A q \in Replicas : tx[q].pc # "locked"

\* The row is read under the lock; the clock is read after the lock is granted.
TickBegin(r) ==
    /\ up[r]
    /\ tx[r] = Idle
    /\ RowAvailable(r)
    /\ tx' = [tx EXCEPT ![r] = [pc |-> "locked", expired |-> Expired(r),
                                holder |-> lease.holder, epoch |-> lease.epoch,
                                left |-> Expiry(r)]]
    /\ UNCHANGED <<lease, elected, up, elector>>

\* Somebody else holds an unexpired lease: the row is returned as it is.
TickDecline(r) ==
    /\ tx[r].pc = "locked"
    /\ ~tx[r].expired
    /\ ~Ours(r)
    /\ tx' = [tx EXCEPT ![r] = [pc |-> "reply", acquired |-> FALSE,
                                holder |-> tx[r].holder, epoch |-> tx[r].epoch,
                                left |-> 0]]
    /\ UNCHANGED <<lease, elected, up, elector>>

\* The lease is expired or ours: write it, record an election if it changed
\* hands, commit.
TickTake(r) ==
    /\ tx[r].pc = "locked"
    /\ tx[r].expired \/ Ours(r)
    /\ NewEpoch(r) <= MaxEpoch
    /\ lease' = [holder |-> r, epoch |-> NewEpoch(r), left |-> tx[r].left]
    /\ elected' = IF Ours(r) THEN elected ELSE Append(elected, r)
    /\ tx' = [tx EXCEPT ![r] = [pc |-> "reply", acquired |-> TRUE,
                                holder |-> r, epoch |-> NewEpoch(r),
                                left |-> tx[r].left]]
    /\ UNCHANGED <<up, elector>>

-------------------------------------------------------------------------------
(* Elector.tick *)

\* The result reaches the Elector, which publishes it under its mutex.
TickReturnSticky(r) ==
    /\ tx[r].pc = "reply"
    /\ isLeader' = [isLeader EXCEPT ![r] = @ \/ tx[r].acquired]
    /\ epoch' = [epoch EXCEPT ![r] = tx[r].epoch]
    /\ leaderAddr' = [leaderAddr EXCEPT ![r] = tx[r].holder]
    /\ grant' = [grant EXCEPT ![r] = IF tx[r].acquired THEN tx[r].left ELSE @]
    /\ tx' = [tx EXCEPT ![r] = Idle]
    /\ UNCHANGED <<lease, elected, up>>
TickReturn(r) ==
    /\ tx[r].pc = "reply"
    /\ isLeader' = [isLeader EXCEPT ![r] = tx[r].acquired]
    /\ epoch' = [epoch EXCEPT ![r] = tx[r].epoch]
    /\ leaderAddr' = [leaderAddr EXCEPT ![r] = tx[r].holder]
    /\ grant' = [grant EXCEPT ![r] = tx[r].left]
    /\ tx' = [tx EXCEPT ![r] = Idle]
    /\ UNCHANGED <<lease, elected, up>>

\* The transaction fails: before its commit it is rolled back, after it only
\* the reply is lost.  Either way tick() logs the error and returns, and the
\* Elector keeps the leadership state it had.
TickError(r) ==
    /\ tx[r].pc \in {"locked", "reply"}
    /\ tx' = [tx EXCEPT ![r] = Idle]
    /\ UNCHANGED <<lease, elected, up, elector>>

-------------------------------------------------------------------------------
(* Processes and time *)

\* The process stops; the lease is not released (Run only returns) and the
\* database rolls back a transaction that was open.
Crash(r) ==
    /\ up[r]
    /\ \E q \in Replicas \ {r} : up[q]
    /\ up' = [up EXCEPT ![r] = FALSE]
    /\ tx' = [tx EXCEPT ![r] = Idle]
    /\ isLeader' = [isLeader EXCEPT ![r] = FALSE]
    /\ epoch' = [epoch EXCEPT ![r] = 0]
    /\ leaderAddr' = [leaderAddr EXCEPT ![r] = NoReplica]
    /\ grant' = [grant EXCEPT ![r] = 0]
    /\ UNCHANGED <<lease, elected>>

\* A new process with the same identity; Bootstrap and Run make it tick.
Restart(r) ==
    /\ ~up[r]
    /\ up' = [up EXCEPT ![r] = TRUE]
    /\ UNCHANGED <<lease, elected, tx, elector>>

Less(n) == IF n > 0 THEN n - 1 ELSE 0

ElapseTx(t) == IF t.pc = "idle" THEN t ELSE [t EXCEPT !.left = Less(@)]

Elapse ==
    /\ lease' = [lease EXCEPT !.left = Less(@)]
    /\ tx' = [r \in Replicas |-> ElapseTx(tx[r])]
    /\ grant' = [r \in Replicas |-> Less(grant[r])]
    /\ UNCHANGED <<elected, up, isLeader, epoch, leaderAddr>>

-------------------------------------------------------------------------------
Tick(r) ==
    \/ TickBegin(r)
    \/ TickDecline(r)
    \/ TickTake(r)
    \/ TickReturn(r)
    \/ TickError(r)

Next ==
    \/ \E r \in Replicas : Tick(r) \/ Crash(r) \/ Restart(r)
    \/ Elapse

Spec == Init /\ [][Next]_vars

\* The row lock is granted in arrival order, so a replica that keeps asking
\* gets it; ticks repeat for as long as the process runs and the database
\* does not fail all of them.  Nothing makes a stopped replica come back.
Fairness ==
    /\ \A r \in Replicas :
          /\ SF_vars(TickBegin(r))
          /\ SF_vars(TickTake(r) \/ TickDecline(r))
          /\ SF_vars(TickReturn(r))
    /\ WF_vars(Elapse)

LiveSpec == Spec /\ Fairness

-------------------------------------------------------------------------------
(* Properties *)

\* The fencing epoch identifies a leader: two replicas that both answer
\* IsLeader() with true do so under different epochs, whatever the clocks,
\* lost commits, late replies and restarts.
UniqueLeaderPerEpoch ==
    \A r, q \in Replicas :
        isLeader[r] /\ isLeader[q] /\ epoch[r] = epoch[q] => r = q

\* A replica that answers IsLeader() with true although the row names another
\* holder has outlived its grant, up to the clock skew: leadership may overlap
\* only after the older lease has run out.
DeposedLeaderOutlivedGrant ==
    \A r \in Replicas : isLeader[r] /\ lease.holder # r => grant[r] <= MaxSkew

\* While its process runs, the epoch a replica reports never goes back.
EpochViewMonotone ==
    [][\A r \in Replicas : up[r] /\ up'[r] => epoch'[r] >= epoch[r]]_vars

\* The lease protocol implements the terms of module Leadership: the
\* leader_elected events are the grants, and isLeader and epoch the beliefs.
Abs == INSTANCE Leadership WITH
          granted <- elected,
          view <- [r \in Replicas |-> IF isLeader[r] THEN epoch[r] ELSE 0]
ImplementsLeadership == Abs!Spec

\* As long as one replica runs, whichever crash and whatever ticks fail, there
\* is again and again a replica that holds the lease and knows it.
LeadershipRecovers ==
    []<>(\/ \E r \in Replicas : isLeader[r] /\ lease.holder = r
         \/ lease.epoch = MaxEpoch)

\* The strengthening behind the invariants above.  The leader_elected events
\* are the history of the row; the transaction that has the row locked read it
\* as it is; a belief, held or on its way back, rests on an event; and a grant
\* that is not run out belongs to the holder and ends no later than the row.
Covered(r, left) == left <= MaxSkew \/ (lease.holder = r /\ left <= lease.left)

HistoryInv ==
    /\ lease.epoch = Len(elected)
    /\ lease.holder = IF elected = <<>> THEN NoReplica ELSE elected[Len(elected)]

LockInv ==
    \A r \in Replicas : tx[r].pc = "locked" =>
        /\ \A q \in Replicas : tx[q].pc = "locked" => q = r
        /\ tx[r].holder = lease.holder
        /\ tx[r].epoch = lease.epoch

BeliefInv ==
    \A r \in Replicas :
        /\ epoch[r] <= lease.epoch
        /\ isLeader[r] => epoch[r] \in 1 .. Len(elected) /\ elected[epoch[r]] = r
        /\ tx[r].pc = "reply" =>
              /\ epoch[r] <= tx[r].epoch
              /\ tx[r].epoch <= lease.epoch
              /\ tx[r].acquired => tx[r].epoch \in 1 .. Len(elected) /\ elected[tx[r].epoch] = r

GrantInv ==
    \A r \in Replicas :
        /\ lease.holder = r => lease.left <= TTL + Skew[r]
        /\ isLeader[r] => Covered(r, grant[r])
        /\ tx[r].pc = "reply" /\ tx[r].acquired => Covered(r, tx[r].left)
        /\ tx[r].pc = "locked" /\ tx[r].expired => lease.left <= MaxSkew
        /\ tx[r].pc = "locked" /\ lease.holder = r => lease.left <= tx[r].left
        /\ tx[r].pc = "locked" => tx[r].left <= TTL + Skew[r]

IndInv == TypeOK /\ HistoryInv /\ LockInv /\ BeliefInv /\ GrantInv
===============================================================================
