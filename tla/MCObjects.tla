------------------------------- MODULE MCObjects -------------------------------
(* ObjectHierarchy with the values that MCObjects.cfg uses. *)
EXTENDS ObjectHierarchy, TLC

CONSTANTS s1, s2
SlotSet == {s1, s2}
SlotSymmetry == Permutations(SlotSet)
=============================================================================
