------------------------------ MODULE MCControl -------------------------------
(* Instances of Control: one job that holds every task.                      *)
EXTENDS Control, TLC

\* The first task is as big as a node or bigger, the others are small.
MCRequest == [t \in Tasks |-> IF t = 1 THEN 2 ELSE 1]

MCJobs == {Tasks}

MCSymmetry == Permutations(Handlers) \cup Permutations(Replicas)
===============================================================================
