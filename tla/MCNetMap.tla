------------------------------- MODULE MCNetMap -------------------------------
(* NetMap in small worlds.  Either one node, world, is described in every way: *)
(* with and without a home, with no, one or another disco key, before and      *)
(* after our home is picked.  Or there are two nodes (world is None) whose     *)
(* keys alone change.                                                          *)
EXTENDS NetMap, TLC

CONSTANTS d1, d2

VARIABLE world

MCInfos == {[home |-> 0, disco |-> None], [home |-> 1, disco |-> d1],
            [home |-> 0, disco |-> d2]}

\* What the control plane may say in this world.
Sayable(view) ==
    \A i \in Listed(view) : IF world = None THEN view[i].info.home = 1 ELSE i = world

InWorld ==
    /\ told # None => Sayable(told)
    /\ world = None => ~derp_map_set

MCInit == Init /\ world \in Ids \cup {None}

MCNext ==
    /\ UNCHANGED world
    /\ \/ \E view \in {v \in View : Sayable(v)} :
             \/ FullFrame(view)
             \/ \E whole \in SUBSET Ids : DeltaFrame(view, whole)
       \/ Start \/ Lost \/ PersistFails \/ Park \/ Rebuild
    /\ InWorld'

MCSpec == MCInit /\ [][MCNext]_<<vars, world>>

\* Neither ids nor the keys of a node are ordered.
Symmetry == Permutations(Ids) \cup Permutations(Gens)
===============================================================================
