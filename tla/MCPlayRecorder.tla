-------------------------- MODULE MCPlayRecorder --------------------------
(* PlayRecorder on small instances; the two keys are interchangeable. *)
EXTENDS PlayRecorder, TLC

CONSTANTS k1, k2

Symmetry == Permutations(Keys)
====
