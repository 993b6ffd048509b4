------------------------------ MODULE MCDerpMux ------------------------------
(* DerpMux for model checking: regions are interchangeable. *)
EXTENDS DerpMux, TLC

RegionSymmetry == Permutations(Regions)
===============================================================================
