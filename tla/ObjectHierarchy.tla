---------------------------- MODULE ObjectHierarchy ----------------------------
(***************************************************************************)
(* The objects of the database: who is whose parent and what is where, as  *)
(* src/src/db_objects.c keeps them, and the builtins of objects.c and      *)
(* server.c that change them.  move() and recycle() call MOO verbs between *)
(* their steps; a verb may suspend, so any number of calls are half done   *)
(* while others go on.                                                     *)
(*                                                                         *)
(* Lists are sets: nothing depends on the order of brothers.  Owners,      *)
(* flags, quota, verbs, properties and the list of users are left out, so  *)
(* any builtin may be permitted or not.                                    *)
(***************************************************************************)
EXTENDS Integers, FiniteSets

CONSTANTS
  MaxObject,                \* bound on object numbers
  Slots                     \* bound on the calls of move() and recycle() in a verb

ASSUME ObjectAssumption == MaxObject \in Nat

VARIABLES
  objects,                  \* the numbers whose entry in the table is not null
  num_objects,
  family,                   \* up: parent,   down: the list from child on
  place,                    \* up: location, down: the list from contents on
  calls,                    \* move() and recycle() waiting for a verb to return
  panic                     \* "assertion": server_panic(); "null": a null object

vars == <<objects, num_objects, family, place, calls, panic>>

NOTHING == -1
Nums == 0..MaxObject
Trees == [up : [Nums -> Nums \cup {NOTHING}], down : [Nums -> SUBSET Nums]]

NoCall == [kind |-> "none", what |-> NOTHING, where |-> NOTHING]
Calls == [kind : {"none", "move", "recycle"}, what : Nums \cup {NOTHING},
          where : Nums \cup {NOTHING}]

Barren == [up |-> [x \in Nums |-> NOTHING], down |-> [x \in Nums |-> {}]]

\* A database of one object, from which the builtins make all others.
Init ==
  /\ objects = {0}
  /\ num_objects = 1
  /\ family = Barren
  /\ place = Barren
  /\ calls = [i \in Slots |-> NoCall]
  /\ panic = "none"

-----------------------------------------------------------------------------
(* One hierarchy.  Both are kept by the same macros, LL_REMOVE and LL_APPEND. *)

\* A new object's own links
Fresh(t, x) == [t EXCEPT !.up[x] = NOTHING, !.down[x] = {}]

LL_REMOVE(down, from, x) ==
  IF from = NOTHING THEN down ELSE [down EXCEPT ![from] = @ \ {x}]
LL_APPEND(down, to, x) ==
  IF to = NOTHING THEN down ELSE [down EXCEPT ![to] = @ \cup {x}]

\* db_change_parent() and db_change_location()
Moved(t, x, to) ==
  [up |-> [t.up EXCEPT ![x] = to],
   down |-> LL_APPEND(LL_REMOVE(t.down, t.up[x], x), to, x)]

\* x and all above it, as the loops that look for x on the way up find them
Above(t, x) ==
  {a \in Nums : \A Z \in SUBSET Nums :
     x \in Z /\ (\A z \in Z : t.up[z] \in Z \cup {NOTHING}) => a \in Z}

\* Mutant: the children keep the old number of their parent.
Bug_Renamed(t, old, new) ==
  [up |-> [t.up EXCEPT ![new] = t.up[old], ![old] = NOTHING],
   down |-> [x \in Nums |->
               IF x = new THEN t.down[old]
               ELSE IF x = old THEN {}
               ELSE IF x = t.up[old] THEN (t.down[x] \ {old}) \cup {new}
               ELSE t.down[x]]]

\* db_set_object_number(): the object itself, the entry in the list above it, and
\* the links of those below it.
Renamed(t, old, new) ==
  [up |-> [x \in Nums |->
             IF x = new THEN t.up[old]
             ELSE IF x = old THEN NOTHING
             ELSE IF x \in t.down[old] THEN new
             ELSE t.up[x]],
   down |-> [x \in Nums |->
               IF x = new THEN t.down[old]
               ELSE IF x = old THEN {}
               ELSE IF x = t.up[old] THEN (t.down[x] \ {old}) \cup {new}
               ELSE t.down[x]]]

Listed(t, x) == t.up[x] = NOTHING \/ x \in t.down[t.up[x]]

\* What is below x is moved out of it, as it is by the same loop over contents when no
\* verb is called.
Emptied(t, x) ==
  [up |-> [y \in Nums |-> IF y \in t.down[x] THEN NOTHING ELSE t.up[y]],
   down |-> [t.down EXCEPT ![x] = {}]]

\* Mutant: the children become orphans.
Bug_Bequeathed(t, x) ==
  [up |-> [y \in Nums |-> IF y \in t.down[x] THEN NOTHING ELSE t.up[y]],
   down |-> [t.down EXCEPT ![x] = {}]]

\* What is below x is moved to what is above it: the loop of bf_recycle(), in which no MOO
\* code runs (MCDatabase has its single steps).
Bequeathed(t, x) ==
  [up |-> [y \in Nums |-> IF y \in t.down[x] THEN t.up[x] ELSE t.up[y]],
   down |-> [y \in Nums |-> IF y = x THEN {}
                            ELSE IF y = t.up[x] THEN t.down[y] \cup t.down[x]
                            ELSE t.down[y]]]

IsBarren(t, x) == t.up[x] = NOTHING /\ t.down[x] = {}

-----------------------------------------------------------------------------
(* create(), chparent() and renumber() *)

Running == panic = "none"
Panics(how) ==
  /\ panic' = how
  /\ UNCHANGED <<objects, num_objects, family, place, calls>>

\* The object x is new, a child of parent and nowhere.  Its initialize verb is
\* called when all is done.
NewObject(x, parent) ==
  /\ Running
  /\ parent \in objects \cup {NOTHING}
  /\ objects' = objects \cup {x}
  /\ family' = Moved(Fresh(family, x), x, parent)
  /\ place' = Fresh(place, x)
  /\ UNCHANGED <<calls, panic>>

Create(parent) ==
  /\ num_objects \in Nums
  /\ NewObject(num_objects, parent)
  /\ num_objects' = num_objects + 1

Free == {x \in 0..(num_objects - 1) : x \notin objects}
IsLowest(x, S) == x \in S /\ \A y \in S : x <= y

\* The object is made behind the last number and moved to the lowest free one.
CreateAndRenumber(parent) ==
  \/ Free = {} /\ Create(parent)
  \/ \E x \in Free : /\ IsLowest(x, Free)
                     /\ NewObject(x, parent)
                     /\ UNCHANGED num_objects

\* db_create_object_with_num() makes the object behind the last number, without
\* counting it, and moves it to num.  Behind the last number that is the same entry:
\* it is set to null, and then used.
CreateWithId(num, parent) ==
  /\ num <= num_objects
  /\ num \notin objects
  /\ parent \in objects \cup {NOTHING}
  /\ IF num = num_objects THEN Running /\ Panics("null")
     ELSE NewObject(num, parent) /\ UNCHANGED num_objects

\* The changes that check_verbs_before_chparent() and db_change_parent() refuse are
\* not told from those not asked for.
Chparent(what, parent) ==
  /\ Running
  /\ what \in objects
  /\ parent \in objects \cup {NOTHING}
  /\ parent # NOTHING => what \notin Above(family, parent)
  /\ family' = Moved(family, what, parent)
  /\ UNCHANGED <<objects, num_objects, place, calls, panic>>

Renumber(old) ==
  /\ Running
  /\ old \in objects
  /\ \E new \in Free :
       /\ new < old
       /\ IsLowest(new, Free)
       /\ IF Listed(family, old) /\ Listed(place, old)
          THEN /\ objects' = (objects \ {old}) \cup {new}
               /\ family' = Renamed(family, old, new)
               /\ place' = Renamed(place, old, new)
               /\ UNCHANGED <<num_objects, calls, panic>>
          ELSE Panics("assertion")

\* Some object, a wizard, is calling.
ResetMaxObject ==
  /\ Running
  /\ \E last \in objects : /\ \A x \in objects : x <= last
                           /\ num_objects' = last + 1
  /\ UNCHANGED <<objects, family, place, calls, panic>>

-----------------------------------------------------------------------------
(* move(): what may have been moved or recycled when accept returns. *)

Begins(kind, what, where) ==
  /\ Running
  /\ what \in objects
  /\ \E i \in Slots :
       /\ calls[i] = NoCall
       /\ calls' = [calls EXCEPT ![i] = [kind |-> kind, what |-> what, where |-> where]]
  /\ UNCHANGED <<objects, num_objects, family, place, panic>>

Ends(i) == calls' = [calls EXCEPT ![i] = NoCall]

\* Nobody is asked on the way to #-1.
MoveOut(what) ==
  /\ Running
  /\ what \in objects
  /\ place.up[what] # NOTHING
  /\ place' = Moved(place, what, NOTHING)
  /\ UNCHANGED <<objects, num_objects, family, calls, panic>>

\* accept is called; without such a verb a wizard's move goes on at once.
Move(what, where) ==
  /\ where \in objects
  /\ Begins("move", what, where)

Returns(i, kind) ==
  /\ Running
  /\ calls[i].kind = kind
  /\ calls[i].what \in objects

\* Mutant: the way up was checked before accept was called.
Bug_MoveArrives(i) ==
  LET what == calls[i].what
      where == calls[i].where
  IN /\ Returns(i, "move")
     /\ where \in objects
     /\ place.up[what] # where
     /\ place' = Moved(place, what, where)
     /\ Ends(i)
     /\ UNCHANGED <<objects, num_objects, family, panic>>

\* Accepted.  exitfunc and enterfunc are called when all is done.
MoveArrives(i) ==
  LET what == calls[i].what
      where == calls[i].where
  IN /\ Returns(i, "move")
     /\ where \in objects
     /\ place.up[what] # where
     /\ what \notin Above(place, where)
     /\ place' = Moved(place, what, where)
     /\ Ends(i)
     /\ UNCHANGED <<objects, num_objects, family, panic>>

\* The move is refused or has become senseless, the object to recycle is gone, or
\* the task was killed in its verb.
GiveUp(i) ==
  /\ Running
  /\ calls[i] # NoCall
  /\ Ends(i)
  /\ UNCHANGED <<objects, num_objects, family, place, panic>>

-----------------------------------------------------------------------------
(* recycle(): first the verb recycle is called, then exitfunc for each of the *)
(* contents and for the object itself, and the loop starts afresh after each. *)

Recycle(what) == Begins("recycle", what, NOTHING)

\* One of the contents is moved out, and exitfunc is called.
RecycleEmpties(i) ==
  /\ Returns(i, "recycle")
  /\ \E c \in place.down[calls[i].what] : place' = Moved(place, c, NOTHING)
  /\ UNCHANGED <<objects, num_objects, family, calls, panic>>

\* No exitfunc for the contents, but one for the object.
RecycleLeaves(i) ==
  LET what == calls[i].what
  IN /\ Returns(i, "recycle")
     /\ place.up[what] # NOTHING
     /\ place' = Moved(Emptied(place, what), what, NOTHING)
     /\ UNCHANGED <<objects, num_objects, family, calls, panic>>

\* Mutant: the contents were looked for only before the first verb.
Bug_RecycleDestroys(i) ==
  LET what == calls[i].what
      alone == Moved(place, what, NOTHING)
      orphan == Moved(Bequeathed(family, what), what, NOTHING)
  IN /\ Returns(i, "recycle")
     /\ IF IsBarren(alone, what) /\ IsBarren(orphan, what)
        THEN /\ objects' = objects \ {what}
             /\ family' = orphan
             /\ place' = alone
             /\ Ends(i)
             /\ UNCHANGED <<num_objects, panic>>
        ELSE Panics("assertion")

\* No exitfunc is left to call: nothing comes between here and the end.
RecycleDestroys(i) ==
  LET what == calls[i].what
      alone == Moved(Emptied(place, what), what, NOTHING)
      orphan == Moved(Bequeathed(family, what), what, NOTHING)
  IN /\ Returns(i, "recycle")
     /\ IF IsBarren(alone, what) /\ IsBarren(orphan, what)
        THEN /\ objects' = objects \ {what}
             /\ family' = orphan
             /\ place' = alone
             /\ Ends(i)
             /\ UNCHANGED <<num_objects, panic>>
        ELSE Panics("assertion")

-----------------------------------------------------------------------------
Next ==
  \/ \E parent \in Nums \cup {NOTHING} :
       \/ Create(parent)
       \/ CreateAndRenumber(parent)
       \/ \E num \in Nums : CreateWithId(num, parent) \/ Chparent(num, parent)
  \/ \E what \in Nums : Renumber(what) \/ MoveOut(what) \/ Recycle(what)
  \/ \E what, where \in Nums : Move(what, where)
  \/ ResetMaxObject
  \/ \E i \in Slots :
       MoveArrives(i) \/ GiveUp(i) \/ RecycleEmpties(i) \/ RecycleLeaves(i) \/ RecycleDestroys(i)

Spec == Init /\ [][Next]_vars

-----------------------------------------------------------------------------
(* Properties *)

\* Types, and all objects are in the part of the table that is in use: the
\* high-water mark num_objects is only lowered to the last valid object.
TypeOK ==
  /\ num_objects \in 0..(MaxObject + 1)
  /\ objects \subseteq 0..(num_objects - 1)
  /\ family \in Trees
  /\ place \in Trees
  /\ calls \in [Slots -> Calls]
  /\ panic \in {"none", "assertion", "null"}

Agree(O, t) ==
  /\ \A x \in O :
       /\ t.up[x] \in O \cup {NOTHING}
       /\ t.down[x] = {y \in O : t.up[y] = x}
  /\ \A x \in Nums \ O : IsBarren(t, x)

\* Links and lists agree in both hierarchies, and nothing refers to an object that
\* is gone, however verbs called by move() and recycle() interfere.
ListsAgree == Agree(objects, family) /\ Agree(objects, place)

Acyclic(O, t) ==
  \A Z \in SUBSET O : Z # {} => \E x \in Z : t.up[x] \notin Z

\* No object is its own ancestor or inside itself, though chparent() and move()
\* look only at the way up at one moment and move() calls a verb before it: loops
\* over parents and locations end.
NoLoops == Acyclic(objects, family) /\ Acyclic(objects, place)

\* The server_panic()s of db_objects.c are never reached: what recycle() destroys is
\* a barren orphan, and what is renumbered is on the lists it should be on.
NoAssertionFails == panic # "assertion"

\* Creating, recycling and renumbering leave the ancestors of all other objects as
\* they were: children of a recycled object inherit from its parent.
AncestryIsKept ==
  [][objects' # objects =>
       \A x, a \in objects \cap objects' :
         a \in Above(family, x) <=> a \in Above(family, x)']_vars
=============================================================================
