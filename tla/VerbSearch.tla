------------------------------ MODULE VerbSearch ------------------------------
(***************************************************************************)
(* What db_find_callable_verb() promises (src/include/db.h): the verb that *)
(* parents and verbs, as they are, give for the word.  There is no cache.  *)
(***************************************************************************)
EXTENDS VerbNames

CONSTANTS Nums, Words, NOTHING, NotFound, NoAnswer

VARIABLES objects, up, verbs, answer

vars == <<objects, up, verbs, answer>>

\* x, its parent, its parent's parent, and so on
Ancestors ==
  LET above[x \in objects] == {x} \cup IF up[x] = NOTHING THEN {} ELSE above[up[x]]
  IN above
IsAncestor(x, a) == a \in Ancestors[x]

Answers(v, word) == v.exec /\ verbcasecmp(v.names, word)
HasAnswer(x, word) == \E i \in DOMAIN verbs[x] : Answers(verbs[x][i], word)

\* The nearest object that has a verb for the word, and its first
IsNearest(x, word, handle) ==
  /\ IsAncestor(x, handle.definer)
  /\ \A y \in objects :
       /\ IsAncestor(x, y)
       /\ HasAnswer(y, word)
       => IsAncestor(handle.definer, y)
  /\ handle.index \in DOMAIN verbs[handle.definer]
  /\ Answers(verbs[handle.definer][handle.index], word)
  /\ \A i \in 1..(handle.index - 1) : ~Answers(verbs[handle.definer][i], word)

IsTheVerb(x, word, handle) ==
  IF \E y \in objects : IsAncestor(x, y) /\ HasAnswer(y, word)
  THEN handle.definer \in objects /\ IsNearest(x, word, handle)
  ELSE handle = NotFound

Find ==
  /\ answer'.from \in objects
  /\ IsTheVerb(answer'.from, answer'.word, answer'.handle)
  /\ UNCHANGED <<objects, up, verbs>>

Change == answer' = NoAnswer

Init == answer = NoAnswer
Next == Find \/ Change
Spec == Init /\ [][Next]_vars
=============================================================================
