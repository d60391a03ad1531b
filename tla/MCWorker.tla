------------------------------- MODULE MCWorker -------------------------------
(* Instances of Worker: the slots of goroutines are interchangeable.         *)
EXTENDS Worker, TLC

MCSymmetry == Permutations(Runs)
===============================================================================
