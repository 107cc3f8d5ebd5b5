-------------------------- MODULE MCStreamBinding --------------------------
(* StreamBinding on small instances; addresses, devices and items are
   interchangeable each. *)
EXTENDS StreamBinding, TLC

CONSTANTS a1, a2, d1, d2, i1, i2

PlayKeys == Addresses \X Contents
Symmetry == Permutations(Addresses) \cup Permutations(Devices) \cup Permutations(Items)
====
