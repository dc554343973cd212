-------------------------- MODULE MCWorkerHandoff --------------------------
(* Instances of WorkerHandoff: two sessions, and a batch of two children.  *)
EXTENDS WorkerHandoff, TLC

CONSTANTS s1, s2

MCSessions == {s1, s2}
MCSymmetry == Permutations(MCSessions)
=============================================================================
