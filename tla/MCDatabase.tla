------------------------------ MODULE MCDatabase ------------------------------
(* Database with the values that MCDatabase.cfg uses. *)
EXTENDS Database

CONSTANTS s1

MCWords == {<<"a">>, <<"b">>}

a_star_b == <<"a", "*", "b">>
star_ab == <<"*", "a", "b">>
just_b == <<"b">>

MCNamings == {{just_b}, {a_star_b}, {a_star_b, just_b}, {star_ab}}

Kind(names, exec, not_o) == [names |-> names, exec |-> exec, not_o |-> not_o]
MCKinds == {Kind({just_b}, TRUE, TRUE), Kind({a_star_b}, TRUE, FALSE),
            Kind({a_star_b, just_b}, FALSE, TRUE)}

NoSteps == [calls |-> 0, verbs |-> 0, props |-> 0, objects |-> 0]
None(v) == [x \in Nums |-> v]
Tree(edges) == [x \in Nums |-> IF x \in DOMAIN edges THEN edges[x] ELSE NOTHING]

\* Verbs: #1 and #3 are children of #0, #2 is one of #1.
VerbDatabase ==
  [objects |-> 0..3,
   num_objects |-> 4,
   up |-> Tree((1 :> 0) @@ (2 :> 1) @@ (3 :> 0)),
   owner |-> Tree((0 :> 0) @@ (1 :> 0) @@ (2 :> 1) @@ (3 :> 0)),
   wizards |-> {0},
   verbs |-> [None(<<>>) EXCEPT ![0] = <<VerbOf(Kind({a_star_b}, TRUE, TRUE), 0)>>,
                                ![3] = <<VerbOf(Kind({star_ab}, TRUE, FALSE), 1),
                                         VerbOf(Kind({just_b}, TRUE, TRUE), 0)>>],
   propdefs |-> None(<<>>),
   propval |-> None(<<>>),
   left |-> [NoSteps EXCEPT !.calls = 2, !.verbs = 1, !.objects = 1]]

\* Properties: #1 and #2 are children of #0, #3 is one of #1, and #4 one of #3.
PropDatabase ==
  [objects |-> 0..4,
   num_objects |-> 5,
   up |-> Tree((1 :> 0) @@ (2 :> 0) @@ (3 :> 1) @@ (4 :> 3)),
   owner |-> Tree((0 :> 0) @@ (1 :> 1) @@ (2 :> 1) @@ (3 :> 2) @@ (4 :> 0)),
   wizards |-> {},
   verbs |-> None(<<>>),
   propdefs |-> [None(<<>>) EXCEPT ![0] = <<"quota">>, ![1] = <<"p">>, ![2] = <<"q">>],
   propval |->
     LET inherited == Slot(CLEAR, 0, FALSE)
         p == Slot(CLEAR, 1, TRUE)
     IN (0 :> <<Slot(1, 0, FALSE)>>)
        @@ (1 :> <<Slot(0, 1, TRUE), Slot(1, 0, FALSE)>>)
        @@ (2 :> <<Slot(1, 2, FALSE), inherited>>)
        @@ (3 :> <<[p EXCEPT !.owner = 2], inherited>>)
        @@ (4 :> <<[p EXCEPT !.owner = 0], inherited>>),
   left |-> [NoSteps EXCEPT !.props = 1, !.objects = 2]]

MCDatabases == {VerbDatabase, PropDatabase}

ASSUME ComparesWell == CompareIsSound

\* bf_recycle() goes on with the first below x until there is none, and each of them is
\* moved before it looks again.  However the list is ordered, this comes to the one step
\* that Bequeathed, or Emptied, makes of it.
LoopEnds(t, x, to) ==
  LET after[S \in SUBSET t.down[x]] ==
        IF S = {} THEN {t} ELSE UNION {{Moved(u, c, to) : u \in after[S \ {c}]} : c \in S}
  IN after[t.down[x]]

Hierarchies ==
  {t \in {[up |-> up, down |-> [x \in Nums |-> {y \in Nums : up[y] = x}]] :
             up \in [Nums -> Nums \cup {NOTHING}]} : Acyclic(Nums, t)}

ASSUME BelowIsMovedOneByOne ==
  \A t \in Hierarchies, x \in Nums :
    /\ LoopEnds(t, x, t.up[x]) = {Bequeathed(t, x)}
    /\ LoopEnds(t, x, NOTHING) = {Emptied(t, x)}
=============================================================================
