------------------------------ MODULE Leadership ------------------------------
(***************************************************************************)
(* What leader election promises to the rest of the scheduler: leadership  *)
(* is a sequence of terms, numbered by a fencing epoch, each granted to    *)
(* one replica; a replica that believes it leads does so under a term that *)
(* was granted to it.  Nothing is said about how grants are decided, about *)
(* clocks or about the database; module LeaderLease implements this.       *)
(***************************************************************************)
EXTENDS Naturals, Sequences

CONSTANTS Replicas      \* identities of the scheduler replicas

VARIABLES
    granted,            \* granted[e]: the replica to which epoch e was granted
    view                \* view[r]: epoch under which r believes it leads; 0: it does not

vars == <<granted, view>>

TypeOK ==
    /\ granted \in Seq(Replicas)
    /\ view \in [Replicas -> Nat]

Init ==
    /\ granted = <<>>
    /\ view = [r \in Replicas |-> 0]

\* A new term starts.  Consecutive terms belong to different replicas: a
\* renewal never opens a term.
Grant(r) ==
    /\ granted = <<>> \/ granted[Len(granted)] # r
    /\ granted' = Append(granted, r)
    /\ UNCHANGED view

\* A replica learns that it was granted a term, possibly long after the fact,
\* but never returns to a term older than the one it believes in.
Observe(r, e) ==
    /\ e \in 1 .. Len(granted)
    /\ granted[e] = r
    /\ e >= view[r]
    /\ view' = [view EXCEPT ![r] = e]
    /\ UNCHANGED granted

\* A replica learns that it no longer leads, or stops.
StepDown(r) ==
    /\ view' = [view EXCEPT ![r] = 0]
    /\ UNCHANGED granted

Next ==
    \E r \in Replicas :
        \/ Grant(r)
        \/ \E e \in 1 .. Len(granted) : Observe(r, e)
        \/ StepDown(r)

Spec == Init /\ [][Next]_vars
===============================================================================
