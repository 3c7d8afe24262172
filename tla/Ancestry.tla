------------------------------- MODULE Ancestry -------------------------------
(* What the modules of verbs and of properties need of objects: the way up, in *)
(* order, and what a change of numbers does to owners.                         *)
EXTENDS ObjectHierarchy, SequencesExt

\* x and its ancestors, in the order of the loops over o->parent
Line(t, x) ==
  LET line[y \in Nums] == IF t.up[y] = NOTHING THEN <<y>> ELSE <<y>> \o line[t.up[y]]
  IN IF x = NOTHING THEN <<>> ELSE line[x]

IsAtOrBelow(t, y, x) == x \in ToSet(Line(t, y))

\* Whatever the number that is taken over owned loses its owner.
OwnerAfter(who, old, new) ==
  IF who = new THEN NOTHING ELSE IF who = old THEN new ELSE who
=============================================================================
