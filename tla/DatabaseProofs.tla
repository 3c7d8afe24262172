---------------------------- MODULE DatabaseProofs ----------------------------
(***************************************************************************)
(* Proofs about ObjectHierarchy and about Database.  For any number of     *)
(* objects and of calls in progress, links and lists agree, there are no   *)
(* loops, and no assertion of db_objects.c fails.  Whatever the builtins   *)
(* do to parents, numbers and verbs, a call finds through the cache the    *)
(* verb that a search of the objects as they are would find, and no verb   *)
(* comes to answer in place of a protected one.                            *)
(***************************************************************************)
EXTENDS Database, TLAPS, WellFoundedInduction, SequenceTheorems

\* What each hierarchy is among the objects O
GoodTree(O, t) == t \in Trees /\ Agree(O, t) /\ Acyclic(O, t)

-----------------------------------------------------------------------------
(* What the operators make of the links and of the lists. *)

LEMMA NothingIsNoNumber == NOTHING \notin Nums
BY ObjectAssumption DEF NOTHING, Nums

LEMMA MovedLinks ==
  ASSUME NEW t \in Trees, NEW x \in Nums, NEW to \in Nums \cup {NOTHING}
  PROVE  /\ Moved(t, x, to) \in Trees
         /\ \A y \in Nums : Moved(t, x, to).up[y] = IF y = x THEN to ELSE t.up[y]
         /\ \A y \in Nums : \A z :
              z \in Moved(t, x, to).down[y] <=>
                \/ z \in t.down[y] /\ ~(z = x /\ y = t.up[x])
                \/ z = x /\ y = to
<1> DEFINE cut == LL_REMOVE(t.down, t.up[x], x)
           down == LL_APPEND(cut, to, x)
<1>1. t.up[x] \in Nums \cup {NOTHING} /\ t.down \in [Nums -> SUBSET Nums]
  BY DEF Trees
<1>2. /\ cut \in [Nums -> SUBSET Nums]
      /\ \A y \in Nums : cut[y] = IF y = t.up[x] THEN t.down[y] \ {x} ELSE t.down[y]
  BY <1>1, NothingIsNoNumber DEF LL_REMOVE
<1> HIDE DEF cut
<1>3. /\ down \in [Nums -> SUBSET Nums]
      /\ \A y \in Nums : down[y] = IF y = to THEN cut[y] \cup {x} ELSE cut[y]
  BY <1>2, NothingIsNoNumber DEF LL_APPEND
<1>4. Moved(t, x, to) = [up |-> [t.up EXCEPT ![x] = to], down |-> down]
  BY DEF Moved, cut
<1> HIDE DEF down
<1>5. [t.up EXCEPT ![x] = to] \in [Nums -> Nums \cup {NOTHING}]
  BY DEF Trees
<1>6. Moved(t, x, to) \in Trees
  BY <1>3, <1>4, <1>5 DEF Trees
<1>7. \A y \in Nums : Moved(t, x, to).up[y] = IF y = x THEN to ELSE t.up[y]
  BY <1>4 DEF Trees
<1> QED
  BY <1>2, <1>3, <1>4, <1>6, <1>7

\* The objects above an object of a hierarchy are among its objects.
LEMMA AboveIsObjects ==
  ASSUME NEW O \in SUBSET Nums, NEW t, NEW x \in O,
         \A y \in O : t.up[y] \in O \cup {NOTHING}
  PROVE  Above(t, x) \subseteq O
BY DEF Above

\* Below is nothing that is not linked up.
LEMMA DownOf ==
  ASSUME NEW O \in SUBSET Nums, NEW t, GoodTree(O, t), NEW x \in Nums, NEW y
  PROVE  y \in t.down[x] <=> y \in O /\ t.up[y] = x
<1>1. CASE x \in O
  BY <1>1 DEF GoodTree, Agree
<1>2. CASE x \notin O
  BY <1>2, NothingIsNoNumber DEF GoodTree, Agree, IsBarren
<1> QED
  BY <1>1, <1>2

-----------------------------------------------------------------------------
(* Each operator keeps a hierarchy good. *)

\* Moving an object to where it is not above keeps the lists and makes no loop.
LEMMA MovedGood ==
  ASSUME NEW O \in SUBSET Nums, NEW t, GoodTree(O, t), NEW x \in O,
         NEW to \in O \cup {NOTHING}, to # NOTHING => x \notin Above(t, to)
  PROVE  GoodTree(O, Moved(t, x, to))
<1>0. t \in Trees /\ x \in Nums /\ to \in Nums \cup {NOTHING}
  BY DEF GoodTree
<1> DEFINE m == Moved(t, x, to)
<1>a. m \in Trees
  BY <1>0, MovedLinks
<1>b. \A y \in Nums : m.up[y] = IF y = x THEN to ELSE t.up[y]
  BY <1>0, MovedLinks
<1>c. \A y \in Nums : \A z : z \in m.down[y] <=>
           \/ z \in t.down[y] /\ ~(z = x /\ y = t.up[x])
           \/ z = x /\ y = to
  BY <1>0, MovedLinks
<1> HIDE DEF m
<1>1. /\ m \in Trees
      /\ \A y \in Nums : m.up[y] = IF y = x THEN to ELSE t.up[y]
      /\ \A y \in Nums : \A z : z \in m.down[y] <=>
           \/ z \in t.down[y] /\ ~(z = x /\ y = t.up[x])
           \/ z = x /\ y = to
  BY <1>a, <1>b, <1>c
<1>2. Agree(O, m)
  <2>1. \A y \in O : m.up[y] \in O \cup {NOTHING}
    BY <1>1 DEF GoodTree, Agree
  <2>2. \A y \in O : m.down[y] = {z \in O : m.up[z] = y}
    BY <1>1, DownOf
  <2>3. \A y \in Nums \ O : IsBarren(m, y)
    <3> TAKE y \in Nums \ O
    <3>1. m.up[y] = NOTHING
      BY <1>1 DEF GoodTree, Agree, IsBarren
    <3>2. \A z : z \notin m.down[y]
      BY <1>1, DownOf, NothingIsNoNumber DEF GoodTree, Agree, IsBarren
    <3> QED
      BY <3>1, <3>2 DEF IsBarren
  <2> QED
    BY <2>1, <2>2, <2>3 DEF Agree
<1>3. Acyclic(O, m)
  <2> SUFFICES ASSUME NEW Z \in SUBSET O, Z # {}, \A z \in Z : m.up[z] \in Z
               PROVE  FALSE
    BY DEF Acyclic
  <2>1. CASE x \notin Z
    BY <1>1, <2>1 DEF GoodTree, Acyclic
  <2>2. CASE x \in Z
    <3> DEFINE W == Z \cap Above(t, to)
    <3>1. to \in Z /\ to # NOTHING
      BY <1>1, <2>2, NothingIsNoNumber
    <3>2. to \in Above(t, to)
      BY <3>1 DEF Above
    <3>3. \A z \in W : t.up[z] \in W
      <4> TAKE z \in W
      <4>1. z # x
        BY <3>1
      <4>2. t.up[z] \in Z /\ t.up[z] \in Nums
        BY <1>1, <4>1
      <4>3. t.up[z] \in Above(t, to)
        BY <4>2, NothingIsNoNumber DEF Above
      <4> QED
        BY <4>2, <4>3
    <3> QED
      BY <3>1, <3>2, <3>3 DEF GoodTree, Acyclic
  <2> QED
    BY <2>1, <2>2
<1> QED
  BY <1>1, <1>2, <1>3 DEF GoodTree, m

\* A new object comes without links.
LEMMA FreshGood ==
  ASSUME NEW O \in SUBSET Nums, NEW t, GoodTree(O, t), NEW x \in Nums \ O
  PROVE  GoodTree(O \cup {x}, Fresh(t, x))
<1> DEFINE f == Fresh(t, x)
<1>1. /\ f \in Trees
      /\ \A y \in Nums : f.up[y] = IF y = x THEN NOTHING ELSE t.up[y]
      /\ \A y \in Nums : f.down[y] = IF y = x THEN {} ELSE t.down[y]
  BY DEF Fresh, Trees, GoodTree
<1> HIDE DEF f
<1>2. \A y \in O : t.up[y] \in O \cup {NOTHING}
  BY DEF GoodTree, Agree
<1>3. Agree(O \cup {x}, f)
  BY <1>1, <1>2, DownOf, NothingIsNoNumber DEF GoodTree, Agree, IsBarren
<1>4. Acyclic(O \cup {x}, f)
  <2> SUFFICES ASSUME NEW Z \in SUBSET (O \cup {x}), Z # {}, \A z \in Z : f.up[z] \in Z
               PROVE  FALSE
    BY DEF Acyclic
  <2>1. x \notin Z
    BY <1>1, NothingIsNoNumber
  <2> QED
    BY <1>1, <2>1 DEF GoodTree, Acyclic
<1> QED
  BY <1>1, <1>3, <1>4 DEF GoodTree, f

\* What is below an object goes nowhere.
LEMMA EmptiedGood ==
  ASSUME NEW O \in SUBSET Nums, NEW t, GoodTree(O, t), NEW x \in O
  PROVE  GoodTree(O, Emptied(t, x)) /\ Emptied(t, x).down[x] = {}
<1> DEFINE e == Emptied(t, x)
<1>1. /\ e \in Trees
      /\ \A y \in Nums : e.up[y] = IF y \in t.down[x] THEN NOTHING ELSE t.up[y]
      /\ \A y \in Nums : e.down[y] = IF y = x THEN {} ELSE t.down[y]
  BY DEF Emptied, Trees, GoodTree
<1> HIDE DEF e
<1>d. \A a \in Nums : \A z : z \in t.down[a] <=> z \in O /\ t.up[z] = a
  BY DownOf
<1>2. \A y \in O : t.up[y] \in O \cup {NOTHING}
  BY DEF GoodTree, Agree
<1>3. \A y \in Nums : e.up[y] = IF t.up[y] = x /\ y \in O THEN NOTHING ELSE t.up[y]
  BY <1>1, <1>d
<1>4. Agree(O, e)
  <2>1. \A y \in O : e.down[y] = {z \in O : e.up[z] = y}
    BY <1>1, <1>3, <1>d, NothingIsNoNumber
  <2>2. \A y \in Nums \ O : IsBarren(e, y)
    BY <1>1, <1>3 DEF GoodTree, Agree, IsBarren
  <2> QED
    BY <1>2, <1>3, <2>1, <2>2 DEF Agree
<1>5. Acyclic(O, e)
  <2> SUFFICES ASSUME NEW Z \in SUBSET O, Z # {}, \A z \in Z : e.up[z] \in Z
               PROVE  FALSE
    BY DEF Acyclic
  <2>1. \A z \in Z : t.up[z] \in Z
    BY <1>3, NothingIsNoNumber
  <2> QED
    BY <2>1 DEF GoodTree, Acyclic
<1> QED
  BY <1>1, <1>4, <1>5 DEF GoodTree, e

\* What is below an object goes to what is above it.  In a loop of the new links,
\* the object itself would be the missing member of a loop of the old ones.
LEMMA BequeathedGood ==
  ASSUME NEW O \in SUBSET Nums, NEW t, GoodTree(O, t), NEW x \in O
  PROVE  GoodTree(O, Bequeathed(t, x)) /\ Bequeathed(t, x).down[x] = {}
<1> DEFINE b == Bequeathed(t, x)
<1>1. /\ b \in Trees
      /\ \A y \in Nums : b.up[y] = IF y \in t.down[x] THEN t.up[x] ELSE t.up[y]
      /\ \A y \in Nums : b.down[y] =
           IF y = x THEN {} ELSE IF y = t.up[x] THEN t.down[y] \cup t.down[x] ELSE t.down[y]
  BY DEF Bequeathed, Trees, GoodTree
<1> HIDE DEF b
<1>d. \A a \in Nums : \A z : z \in t.down[a] <=> z \in O /\ t.up[z] = a
  BY DownOf
<1>2. \A y \in O : t.up[y] \in O \cup {NOTHING}
  BY DEF GoodTree, Agree
<1>3. \A y \in Nums : b.up[y] = IF t.up[y] = x /\ y \in O THEN t.up[x] ELSE t.up[y]
  BY <1>1, <1>d
<1>4. t.up[x] # x
  <2>1. {x} \in SUBSET O /\ {x} # {}
    OBVIOUS
  <2> QED
    BY <2>1 DEF GoodTree, Acyclic
<1>5. Agree(O, b)
  <2>1. \A y \in O : \A z : z \in b.down[y] <=> z \in O /\ b.up[z] = y
    <3> TAKE y \in O
    <3>1. y \in Nums /\ x \in Nums
      OBVIOUS
    <3>2. \A z \in O : b.up[z] = IF t.up[z] = x THEN t.up[x] ELSE t.up[z]
      BY <1>3
    <3>3. CASE y = x
      <4>1. b.down[y] = {}
        BY <1>1, <3>1, <3>3
      <4> QED
        BY <1>4, <3>2, <3>3, <4>1
    <3>4. CASE y # x /\ y = t.up[x]
      <4>1. b.down[y] = t.down[y] \cup t.down[x]
        BY <1>1, <3>1, <3>4
      <4> QED
        BY <1>d, <3>1, <3>2, <3>4, <4>1
    <3>5. CASE y # x /\ y # t.up[x]
      <4>1. b.down[y] = t.down[y]
        BY <1>1, <3>1, <3>5
      <4> QED
        BY <1>d, <3>1, <3>2, <3>5, <4>1
    <3> QED
      BY <3>3, <3>4, <3>5
  <2>2. \A y \in O : b.down[y] = {z \in O : b.up[z] = y}
    BY <2>1
  <2>3. \A y \in Nums \ O : IsBarren(b, y)
    <3> TAKE y \in Nums \ O
    <3>1. b.up[y] = NOTHING
      BY <1>3 DEF GoodTree, Agree, IsBarren
    <3>2. y # t.up[x]
      BY <1>2, NothingIsNoNumber
    <3>3. b.down[y] = {}
      BY <1>1, <3>2 DEF GoodTree, Agree, IsBarren
    <3> QED
      BY <3>1, <3>3 DEF IsBarren
  <2> QED
    BY <1>2, <1>3, <2>2, <2>3 DEF Agree
<1>6. Acyclic(O, b)
  <2> SUFFICES ASSUME NEW Z \in SUBSET O, Z # {}, \A z \in Z : b.up[z] \in Z
               PROVE  FALSE
    BY DEF Acyclic
  <2>1. CASE \A z \in Z : t.up[z] # x
    BY <1>3, <2>1 DEF GoodTree, Acyclic
  <2>2. CASE \E z \in Z : t.up[z] = x
    <3> DEFINE W == Z \cup {x}
    <3>1. t.up[x] \in Z
      BY <1>3, <2>2
    <3>2. \A w \in W : t.up[w] \in W
      BY <1>3, <3>1
    <3> QED
      BY <3>2 DEF GoodTree, Acyclic
  <2> QED
    BY <2>1, <2>2
<1> QED
  BY <1>1, <1>5, <1>6 DEF GoodTree, b

\* A barren orphan can be taken away.
LEMMA RemovedGood ==
  ASSUME NEW O \in SUBSET Nums, NEW t, GoodTree(O, t), NEW x \in O, IsBarren(t, x)
  PROVE  GoodTree(O \ {x}, t)
<1>1. \A y \in O : t.up[y] # x
  BY DownOf DEF IsBarren
<1>2. Agree(O \ {x}, t)
  BY <1>1, NothingIsNoNumber DEF GoodTree, Agree, IsBarren
<1> QED
  BY <1>2 DEF GoodTree, Acyclic

\* All links follow a renumbered object.  In a loop of the new links, the old number
\* in place of the new one makes a loop of the old links.
LEMMA RenamedGood ==
  ASSUME NEW O \in SUBSET Nums, NEW t, GoodTree(O, t), NEW old \in O, NEW new \in Nums \ O
  PROVE  GoodTree((O \ {old}) \cup {new}, Renamed(t, old, new))
<1> DEFINE r == Renamed(t, old, new)
           P == (O \ {old}) \cup {new}
<1>1. /\ r \in Trees
      /\ \A y \in Nums : r.up[y] =
           IF y = new THEN t.up[old] ELSE IF y = old THEN NOTHING
           ELSE IF y \in t.down[old] THEN new ELSE t.up[y]
      /\ \A y \in Nums : r.down[y] =
           IF y = new THEN t.down[old] ELSE IF y = old THEN {}
           ELSE IF y = t.up[old] THEN (t.down[y] \ {old}) \cup {new} ELSE t.down[y]
  BY DEF Renamed, Trees, GoodTree
<1> HIDE DEF r
<1>d. \A a \in Nums : \A z : z \in t.down[a] <=> z \in O /\ t.up[z] = a
  BY DownOf
<1>2. \A y \in O : t.up[y] \in O \cup {NOTHING}
  BY DEF GoodTree, Agree
<1>3. t.up[old] # old
  <2>1. {old} \in SUBSET O /\ {old} # {}
    OBVIOUS
  <2> QED
    BY <2>1 DEF GoodTree, Acyclic
<1>4. /\ r.up[new] = t.up[old]
      /\ \A y \in O \ {old} : r.up[y] = IF t.up[y] = old THEN new ELSE t.up[y]
  BY <1>1, <1>d
<1>5. Agree(P, r)
  <2>1. \A y \in P : r.up[y] \in P \cup {NOTHING}
    BY <1>2, <1>3, <1>4
  <2>2. \A y \in P : \A z : z \in r.down[y] <=> z \in P /\ r.up[z] = y
    <3> TAKE y \in P
    <3>0. y \in Nums /\ old \in Nums /\ new \in Nums /\ y # old /\ old # new
      OBVIOUS
    <3>1. CASE y = new
      <4>1. r.down[y] = t.down[old]
        BY <1>1, <3>0, <3>1
      <4>2. \A z : z \in P /\ r.up[z] = new => z \in O /\ t.up[z] = old
        BY <1>2, <1>3, <1>4, NothingIsNoNumber
      <4>3. \A z : z \in O /\ t.up[z] = old => z \in P /\ r.up[z] = new
        BY <1>3, <1>4
      <4> QED
        BY <1>d, <3>0, <3>1, <4>1, <4>2, <4>3
    <3>2. CASE y # new /\ y = t.up[old]
      <4>1. r.down[y] = (t.down[y] \ {old}) \cup {new}
        BY <1>1, <3>0, <3>2
      <4> QED
        BY <1>d, <1>4, <3>0, <3>2, <4>1
    <3>3. CASE y # new /\ y # t.up[old]
      <4>1. r.down[y] = t.down[y]
        BY <1>1, <3>0, <3>3
      <4> QED
        BY <1>d, <1>4, <3>0, <3>3, <4>1
    <3> QED
      BY <3>1, <3>2, <3>3
  <2>3. \A y \in P : r.down[y] = {z \in P : r.up[z] = y}
    BY <2>2
  <2>4. \A y \in Nums \ P : IsBarren(r, y)
    <3> TAKE y \in Nums \ P
    <3>1. CASE y = old
      BY <1>1, <3>1 DEF IsBarren
    <3>2. CASE y # old
      <4>1. y \notin O /\ y # new
        BY <3>2
      <4>2. y # t.up[old]
        BY <1>2, <4>1, NothingIsNoNumber
      <4>3. y \notin t.down[old]
        BY <4>1, <1>d
      <4> QED
        BY <1>1, <3>2, <4>1, <4>2, <4>3 DEF GoodTree, Agree, IsBarren
    <3> QED
      BY <3>1, <3>2
  <2> QED
    BY <2>1, <2>3, <2>4 DEF Agree
<1>6. Acyclic(P, r)
  <2> SUFFICES ASSUME NEW Z \in SUBSET P, Z # {}, \A z \in Z : r.up[z] \in Z
               PROVE  FALSE
    BY DEF Acyclic
  <2>1. CASE new \notin Z
    <3>1. Z \in SUBSET O /\ \A z \in Z : t.up[z] \in Z
      BY <1>4, <2>1
    <3> QED
      BY <3>1 DEF GoodTree, Acyclic
  <2>2. CASE new \in Z
    <3> DEFINE W == (Z \ {new}) \cup {old}
    <3>1. W \in SUBSET O /\ W # {}
      OBVIOUS
    <3>2. t.up[old] \in W
      BY <1>2, <1>4, <2>2, NothingIsNoNumber
    <3>3. \A w \in Z \ {new} : t.up[w] \in W
      <4> TAKE w \in Z \ {new}
      <4>1. CASE t.up[w] = old
        BY <4>1
      <4>2. CASE t.up[w] # old
        <5>1. t.up[w] \in Z
          BY <1>4, <4>2
        <5>2. t.up[w] # new
          BY <1>2, NothingIsNoNumber
        <5> QED
          BY <5>1, <5>2
      <4> QED
        BY <4>1, <4>2
    <3> QED
      BY <3>1, <3>2, <3>3 DEF GoodTree, Acyclic
  <2> QED
    BY <2>1, <2>2
<1> QED
  BY <1>1, <1>5, <1>6 DEF GoodTree, r

\* What has nothing below it and goes nowhere is a barren orphan.
LEMMA BarrenGood ==
  ASSUME NEW O \in SUBSET Nums, NEW t, GoodTree(O, t), NEW x \in O, t.down[x] = {}
  PROVE  GoodTree(O, Moved(t, x, NOTHING)) /\ IsBarren(Moved(t, x, NOTHING), x)
<1>1. t \in Trees /\ x \in Nums /\ NOTHING \in Nums \cup {NOTHING}
  BY DEF GoodTree
<1>2. GoodTree(O, Moved(t, x, NOTHING))
  BY MovedGood
<1>3. Moved(t, x, NOTHING).up[x] = NOTHING
  BY <1>1, MovedLinks
<1>4. \A z : z \notin Moved(t, x, NOTHING).down[x]
  BY <1>1, MovedLinks, NothingIsNoNumber
<1> QED
  BY <1>2, <1>3, <1>4 DEF IsBarren

-----------------------------------------------------------------------------
(* The inductive invariant: types, both hierarchies in order, no assertion failed. *)

\* Acyclic is needed for the lists (an object below itself would be lost by recycle()
\* or renumber()), and the lists for Acyclic and for the assertions.
ObjectInv ==
  /\ TypeOK
  /\ GoodTree(objects, family)
  /\ GoodTree(objects, place)
  /\ NoAssertionFails

LEMMA InitObjectInv == Init => ObjectInv
<1> SUFFICES ASSUME Init PROVE ObjectInv
  OBVIOUS
<1>1. TypeOK
  BY ObjectAssumption DEF Init, TypeOK, Trees, Barren, Calls, NoCall, Nums
<1>2. GoodTree({0}, Barren)
  <2>1. Barren \in Trees
    BY DEF Barren, Trees
  <2>2. 0 \in Nums /\ \A x \in Nums : Barren.up[x] = NOTHING /\ Barren.down[x] = {}
    BY ObjectAssumption DEF Barren, Nums
  <2>3. Agree({0}, Barren)
    BY <2>2, NothingIsNoNumber DEF Agree, IsBarren
  <2>4. Acyclic({0}, Barren)
    BY <2>2, NothingIsNoNumber DEF Acyclic
  <2> QED
    BY <2>1, <2>3, <2>4 DEF GoodTree
<1> QED
  BY <1>1, <1>2 DEF Init, ObjectInv, NoAssertionFails

\* A new object, wherever its number comes from
LEMMA NewObjectGood ==
  ASSUME ObjectInv, NEW x \in Nums \ objects, NEW parent, NewObject(x, parent)
  PROVE  GoodTree(objects', family') /\ GoodTree(objects', place')
<1> DEFINE f == Fresh(family, x)
           O == objects \cup {x}
<1>1. objects \in SUBSET Nums /\ O \in SUBSET Nums /\ parent \in O \cup {NOTHING}
  BY ObjectAssumption DEF ObjectInv, TypeOK, Nums, NewObject
<1>2. GoodTree(O, f) /\ GoodTree(O, Fresh(place, x))
  BY <1>1, FreshGood DEF ObjectInv
<1>3. ASSUME parent # NOTHING PROVE x \notin Above(f, parent)
  <2>1. parent \in objects
    BY <1>3 DEF NewObject
  <2>2. \A y \in objects : f.up[y] \in objects \cup {NOTHING}
    BY <1>1 DEF ObjectInv, GoodTree, Agree, Fresh, Trees
  <2> HIDE DEF f
  <2> QED
    BY <1>1, <2>1, <2>2, AboveIsObjects
<1> HIDE DEF f
<1>4. GoodTree(O, Moved(f, x, parent))
  BY <1>1, <1>2, <1>3, MovedGood
<1> QED
  BY <1>2, <1>4 DEF NewObject, f

\* The table below n grows with n.
LEMMA LowerNumbers ==
  ASSUME NEW m \in Nat, NEW n \in Nat, m <= n, NEW x \in Nat, x < n
  PROVE  x \in 0..(n - 1) /\ 0..(m - 1) \subseteq 0..(n - 1)
OBVIOUS

LEMMA NextObjectInv == ObjectInv /\ [Next]_vars => ObjectInv'
<1> SUFFICES ASSUME ObjectInv, [Next]_vars PROVE ObjectInv'
  OBVIOUS
<1> USE ObjectAssumption
<1>0. /\ objects \in SUBSET Nums
      /\ num_objects \in 0..(MaxObject + 1) /\ objects \subseteq 0..(num_objects - 1)
      /\ family \in Trees /\ place \in Trees
      /\ GoodTree(objects, family) /\ GoodTree(objects, place)
      /\ calls \in [Slots -> Calls]
      /\ panic # "assertion" /\ panic \in {"none", "null"}
  BY DEF ObjectInv, TypeOK, Nums, NoAssertionFails
<1>t. ASSUME GoodTree(objects', family'), GoodTree(objects', place'),
             num_objects' \in 0..(MaxObject + 1), objects' \subseteq 0..(num_objects' - 1),
             calls' \in [Slots -> Calls], panic' \in {"none", "null"}
      PROVE  ObjectInv'
  BY <1>t DEF ObjectInv, TypeOK, GoodTree, NoAssertionFails
<1>p. ASSUME NEW x \in Nums \ objects, NEW parent, NewObject(x, parent),
             num_objects' \in 0..(MaxObject + 1), num_objects <= num_objects', x < num_objects'
      PROVE  ObjectInv'
  <2>1. GoodTree(objects', family') /\ GoodTree(objects', place')
    BY <1>p, NewObjectGood
  <2>2. num_objects \in Nat /\ num_objects' \in Nat /\ x \in Nat
    BY <1>0, <1>p DEF Nums
  <2>3. objects' = objects \cup {x}
    BY <1>p DEF NewObject
  <2>4. \A y \in objects' : y \in 0..(num_objects' - 1)
    <3>1. num_objects <= num_objects' /\ x < num_objects'
      BY <1>p
    <3>2. objects \subseteq 0..(num_objects - 1)
      BY <1>0
    <3>3. x \in 0..(num_objects' - 1) /\ 0..(num_objects - 1) \subseteq 0..(num_objects' - 1)
      BY <2>2, <3>1, LowerNumbers
    <3> QED
      BY <2>3, <3>2, <3>3
  <2>5. calls' \in [Slots -> Calls] /\ panic' \in {"none", "null"}
    BY <1>0, <1>p DEF NewObject
  <2> QED
    BY <1>p, <1>t, <2>1, <2>4, <2>5
<1>1. ASSUME NEW parent \in Nums \cup {NOTHING}, Create(parent) PROVE ObjectInv'
  <2>1. num_objects \in Nums \ objects
    BY <1>0, <1>1 DEF Create, Nums
  <2> QED
    BY <1>0, <1>1, <1>p, <2>1 DEF Create, Nums
<1>2. ASSUME NEW parent \in Nums \cup {NOTHING}, CreateAndRenumber(parent) PROVE ObjectInv'
  <2>1. ASSUME NEW x \in Free, NewObject(x, parent), UNCHANGED num_objects PROVE ObjectInv'
    <3>1. x \in Nums \ objects /\ x < num_objects
      BY <1>0 DEF Free, Nums
    <3> QED
      BY <1>0, <1>p, <2>1, <3>1
  <2> QED
    BY <1>1, <1>2, <2>1 DEF CreateAndRenumber
<1>3. ASSUME NEW parent \in Nums \cup {NOTHING}, NEW num \in Nums, CreateWithId(num, parent)
      PROVE  ObjectInv'
  <2>1. CASE num = num_objects
    BY <1>0, <1>3, <1>t, <2>1 DEF CreateWithId, Panics
  <2>2. CASE num # num_objects
    <3>1. num \in Nums \ objects /\ num < num_objects
      BY <1>0, <1>3, <2>2 DEF CreateWithId, Nums
    <3> QED
      BY <1>0, <1>3, <1>p, <2>2, <3>1 DEF CreateWithId
  <2> QED
    BY <2>1, <2>2
<1>4. ASSUME NEW parent \in Nums \cup {NOTHING}, NEW what \in Nums, Chparent(what, parent)
      PROVE  ObjectInv'
  <2>1. GoodTree(objects, Moved(family, what, parent))
    BY <1>0, <1>4, MovedGood DEF Chparent
  <2> QED
    BY <1>0, <1>4, <1>t, <2>1 DEF Chparent
<1>5. ASSUME NEW old \in Nums, Renumber(old) PROVE ObjectInv'
  <2>1. old \in objects /\ Listed(family, old) /\ Listed(place, old)
    BY <1>0, <1>5, DownOf DEF Renumber, Listed, GoodTree, Agree
  <2>2. PICK new \in Free :
          /\ objects' = (objects \ {old}) \cup {new}
          /\ family' = Renamed(family, old, new)
          /\ place' = Renamed(place, old, new)
          /\ UNCHANGED <<num_objects, calls, panic>>
    BY <1>5, <2>1 DEF Renumber
  <2>3. new \in Nums \ objects /\ new \in 0..(num_objects - 1)
    BY <1>0 DEF Free, Nums
  <2>4. GoodTree(objects', family') /\ GoodTree(objects', place')
    BY <1>0, <2>1, <2>2, <2>3, RenamedGood
  <2> QED
    BY <1>0, <1>t, <2>2, <2>3, <2>4
<1>6. ASSUME NEW what \in Nums, MoveOut(what) PROVE ObjectInv'
  <2>1. GoodTree(objects, Moved(place, what, NOTHING))
    BY <1>0, <1>6, MovedGood DEF MoveOut
  <2> QED
    BY <1>0, <1>6, <1>t, <2>1 DEF MoveOut
<1>7. ASSUME NEW kind \in {"move", "recycle"}, NEW what \in Nums,
             NEW where \in Nums \cup {NOTHING}, Begins(kind, what, where)
      PROVE  ObjectInv'
  <2>1. [kind |-> kind, what |-> what, where |-> where] \in Calls
    BY DEF Calls
  <2>2. calls' \in [Slots -> Calls]
    BY <1>0, <1>7, <2>1 DEF Begins
  <2> QED
    BY <1>0, <1>7, <1>t, <2>2 DEF Begins
<1>8. CASE ResetMaxObject
  <2>1. PICK last \in objects : (\A x \in objects : x <= last) /\ num_objects' = last + 1
    BY <1>8 DEF ResetMaxObject
  <2>2. num_objects' \in 0..(MaxObject + 1) /\ objects \subseteq 0..(num_objects' - 1)
    BY <1>0, <2>1 DEF Nums
  <2> QED
    BY <1>0, <1>8, <1>t, <2>2 DEF ResetMaxObject
<1>9. ASSUME NEW i \in Slots, Ends(i) PROVE calls' \in [Slots -> Calls]
  BY <1>0, <1>9 DEF Ends, Calls, NoCall
<1>10. ASSUME NEW i \in Slots, MoveArrives(i) PROVE ObjectInv'
  <2>1. GoodTree(objects, Moved(place, calls[i].what, calls[i].where))
    BY <1>0, <1>10, MovedGood DEF MoveArrives, Returns
  <2> QED
    BY <1>0, <1>9, <1>10, <1>t, <2>1 DEF MoveArrives
<1>11. ASSUME NEW i \in Slots, GiveUp(i) PROVE ObjectInv'
  BY <1>0, <1>9, <1>11, <1>t DEF GiveUp
<1>12. ASSUME NEW i \in Slots, RecycleEmpties(i) PROVE ObjectInv'
  <2>1. PICK c \in place.down[calls[i].what] : place' = Moved(place, c, NOTHING)
    BY <1>12 DEF RecycleEmpties
  <2>2. c \in objects
    <3>1. calls[i].what \in objects
      BY <1>12 DEF RecycleEmpties, Returns
    <3> QED
      BY <1>0, <3>1 DEF GoodTree, Agree
  <2>3. GoodTree(objects, place')
    BY <1>0, <2>1, <2>2, MovedGood
  <2> QED
    BY <1>0, <1>12, <1>t, <2>3 DEF RecycleEmpties
<1>13. ASSUME NEW i \in Slots, RecycleLeaves(i) PROVE ObjectInv'
  <2>1. calls[i].what \in objects
    BY <1>13 DEF RecycleLeaves, Returns
  <2>2. GoodTree(objects, Emptied(place, calls[i].what))
    BY <1>0, <2>1, EmptiedGood
  <2>3. GoodTree(objects, Moved(Emptied(place, calls[i].what), calls[i].what, NOTHING))
    BY <1>0, <2>1, <2>2, MovedGood
  <2> QED
    BY <1>0, <1>13, <1>t, <2>3 DEF RecycleLeaves
<1>14. ASSUME NEW i \in Slots, RecycleDestroys(i) PROVE ObjectInv'
  <2> DEFINE what == calls[i].what
             empty == Emptied(place, what)
             alone == Moved(empty, what, NOTHING)
             heirs == Bequeathed(family, what)
             orphan == Moved(heirs, what, NOTHING)
  <2>1. what \in objects
    BY <1>14 DEF RecycleDestroys, Returns
  <2>2. GoodTree(objects, empty) /\ empty.down[what] = {}
    BY <1>0, <2>1, EmptiedGood
  <2>3. GoodTree(objects, heirs) /\ heirs.down[what] = {}
    BY <1>0, <2>1, BequeathedGood
  <2>4. GoodTree(objects, alone) /\ IsBarren(alone, what)
    <3> HIDE DEF empty, what
    <3> QED
      BY <1>0, <2>1, <2>2, BarrenGood
  <2>5. GoodTree(objects, orphan) /\ IsBarren(orphan, what)
    <3> HIDE DEF heirs, what
    <3> QED
      BY <1>0, <2>1, <2>3, BarrenGood
  <2>6. /\ objects' = objects \ {what} /\ family' = orphan /\ place' = alone
        /\ Ends(i) /\ UNCHANGED <<num_objects, panic>>
    BY <1>14, <2>4, <2>5 DEF RecycleDestroys
  <2>7. GoodTree(objects', family') /\ GoodTree(objects', place')
    <3> HIDE DEF alone, orphan, what
    <3> QED
      BY <1>0, <2>1, <2>4, <2>5, <2>6, RemovedGood
  <2> QED
    BY <1>0, <1>9, <1>t, <2>6, <2>7
<1>15. CASE UNCHANGED vars
  BY <1>0, <1>15, <1>t DEF vars
<1> QED
  BY <1>1, <1>2, <1>3, <1>4, <1>5, <1>6, <1>7, <1>8, <1>10, <1>11, <1>12, <1>13, <1>14, <1>15
  DEF Next, Move, Recycle

THEOREM ObjectInvAlways == Spec => []ObjectInv
BY InitObjectInv, NextObjectInv, PTL DEF Spec

-----------------------------------------------------------------------------
(* Ancestors.  Above() is the least set of numbers that has x and is closed under     *)
(* links up: that an object is above another in one tree, if it is in the other,     *)
(* follows when each closed set of the other has a counterpart closed in the first.  *)

Closed(t, Z) == \A z \in Z : t.up[z] \in Z \cup {NOTHING}

\* If a is above x in t, and each closed set of u has its counterpart, a is above x in u.
LEMMA AboveCarried ==
  ASSUME NEW t, NEW u, NEW x, NEW a \in Above(t, x),
         \A Z \in SUBSET Nums : x \in Z /\ Closed(u, Z) =>
           \E W \in SUBSET Nums : x \in W /\ Closed(t, W) /\ (a \in W => a \in Z)
  PROVE  a \in Above(u, x)
BY DEF Above, Closed

\* Nothing links to a number that is not in use, nor does it link to anything.
LEMMA LinksOf ==
  ASSUME NEW O \in SUBSET Nums, NEW t, GoodTree(O, t)
  PROVE  /\ \A z \in O : t.up[z] \in O \cup {NOTHING}
         /\ \A z \in Nums \ O : t.up[z] = NOTHING
         /\ \A z \in O : t.up[z] # z
         /\ NOTHING \notin O
<1>1. ASSUME NEW z \in O
      PROVE  t.up[z] # z
  <2>1. {z} \in SUBSET O /\ {z} # {}
    OBVIOUS
  <2> QED
    BY <2>1 DEF GoodTree, Acyclic
<1> QED
  BY <1>1, NothingIsNoNumber DEF GoodTree, Agree, IsBarren

\* create(): a new object is above nobody.
LEMMA AboveNew ==
  ASSUME NEW O \in SUBSET Nums, NEW t, GoodTree(O, t), NEW y \in Nums \ O, NEW p, NEW u,
         \A z \in Nums : u.up[z] = IF z = y THEN p ELSE t.up[z],
         NEW x \in O, NEW a \in O
  PROVE  a \in Above(t, x) <=> a \in Above(u, x)
<1>1. /\ \A z \in Nums : t.up[z] # y
      /\ t.up[y] = NOTHING
  BY LinksOf, NothingIsNoNumber
<1>2. ASSUME a \in Above(t, x)
      PROVE  a \in Above(u, x)
  <2>1. ASSUME NEW Z \in SUBSET Nums, x \in Z, Closed(u, Z)
        PROVE  Closed(t, Z)
    BY <1>1, <2>1 DEF Closed
  <2> QED
    BY <1>2, <2>1, AboveCarried
<1>3. ASSUME a \in Above(u, x)
      PROVE  a \in Above(t, x)
  <2>1. ASSUME NEW Z \in SUBSET Nums, x \in Z, Closed(t, Z)
        PROVE  \E W \in SUBSET Nums : x \in W /\ Closed(u, W) /\ (a \in W => a \in Z)
    <3>1. Closed(u, Z \ {y})
      BY <1>1, <2>1 DEF Closed
    <3>2. Z \ {y} \in SUBSET Nums /\ x \in Z \ {y}
      BY <2>1
    <3> QED
      BY <3>1, <3>2
  <2> QED
    BY <1>3, <2>1, AboveCarried
<1> QED
  BY <1>2, <1>3

\* renumber(): the new number stands where the old one stood.
LEMMA AboveRenamed ==
  ASSUME NEW O \in SUBSET Nums, NEW t, GoodTree(O, t), NEW old \in O, NEW new \in Nums \ O,
         NEW x \in O \ {old}, NEW a \in O \ {old}
  PROVE  a \in Above(t, x) <=> a \in Above(Renamed(t, old, new), x)
<1>1. PICK u : u = Renamed(t, old, new)
  OBVIOUS
<1>2. \A z \in Nums : u.up[z] =
        IF z = new THEN t.up[old] ELSE IF z = old THEN NOTHING
        ELSE IF z \in t.down[old] THEN new ELSE t.up[z]
  BY <1>1 DEF Renamed
<1>3. \A z : z \in t.down[old] <=> z \in O /\ t.up[z] = old
  BY DownOf
<1>4. /\ u.up[new] = t.up[old]
      /\ \A z \in O \ {old} : u.up[z] = IF t.up[z] = old THEN new ELSE t.up[z]
      /\ \A z \in Nums \ O : z # new => u.up[z] = NOTHING
  BY <1>2, <1>3, LinksOf
<1>5. /\ \A z \in O : t.up[z] # new
      /\ t.up[old] # old
      /\ NOTHING \notin {old, new}
      /\ \A z \in Nums \ O : t.up[z] = NOTHING
  BY LinksOf, NothingIsNoNumber
<1>6. ASSUME a \in Above(t, x)
      PROVE  a \in Above(u, x)
  <2>1. ASSUME NEW Z \in SUBSET Nums, x \in Z, Closed(u, Z)
        PROVE  \E W \in SUBSET Nums : x \in W /\ Closed(t, W) /\ (a \in W => a \in Z)
    <3>1. PICK W : W = {z \in Z : z \notin {old, new}} \cup {z \in {old} : new \in Z}
      OBVIOUS
    <3>2. ASSUME NEW z \in W
          PROVE  t.up[z] \in W \cup {NOTHING}
      <4>1. CASE z = old
        <5>1. new \in Z
          BY <3>1, <4>1
        <5>2. t.up[old] \in Z \cup {NOTHING}
          BY <1>4, <2>1, <5>1 DEF Closed
        <5> QED
          BY <1>5, <3>1, <4>1, <5>2
      <4>2. CASE z # old /\ z \in O
        <5>1. u.up[z] \in Z \cup {NOTHING}
          BY <2>1, <3>1, <4>2 DEF Closed
        <5> QED
          BY <1>4, <1>5, <3>1, <4>2, <5>1
      <4>3. CASE z \notin O
        BY <1>5, <3>1, <4>3
      <4> QED
        BY <4>1, <4>2, <4>3
    <3>3. Closed(t, W)
      BY <3>2 DEF Closed
    <3> QED
      BY <2>1, <3>1, <3>3
  <2> QED
    BY <1>6, <2>1, AboveCarried
<1>7. ASSUME a \in Above(u, x)
      PROVE  a \in Above(t, x)
  <2>1. ASSUME NEW Z \in SUBSET Nums, x \in Z, Closed(t, Z)
        PROVE  \E W \in SUBSET Nums : x \in W /\ Closed(u, W) /\ (a \in W => a \in Z)
    <3>1. PICK W : W = {z \in Z : z \notin {old, new}} \cup {z \in {new} : old \in Z}
      OBVIOUS
    <3>2. ASSUME NEW z \in W
          PROVE  u.up[z] \in W \cup {NOTHING}
      <4>1. CASE z = new
        <5>1. t.up[old] \in Z \cup {NOTHING}
          BY <2>1, <3>1, <4>1 DEF Closed
        <5> QED
          BY <1>4, <1>5, <3>1, <4>1, <5>1
      <4>2. CASE z # new /\ z \in O
        <5>1. t.up[z] \in Z \cup {NOTHING} /\ z # old
          BY <2>1, <3>1, <4>2 DEF Closed
        <5> QED
          BY <1>4, <1>5, <3>1, <4>2, <5>1
      <4>3. CASE z # new /\ z \notin O
        BY <1>4, <3>1, <4>3
      <4> QED
        BY <4>1, <4>2, <4>3
    <3>3. Closed(u, W)
      BY <3>2 DEF Closed
    <3> QED
      BY <2>1, <3>1, <3>3
  <2> QED
    BY <1>7, <2>1, AboveCarried
<1> QED
  BY <1>1, <1>6, <1>7

\* recycle(): the children have their grandparent's ancestors, which were theirs.
LEMMA AboveRecycled ==
  ASSUME NEW O \in SUBSET Nums, NEW t, GoodTree(O, t), NEW w \in O,
         NEW x \in O \ {w}, NEW a \in O \ {w}
  PROVE  a \in Above(t, x) <=> a \in Above(Moved(Bequeathed(t, w), w, NOTHING), x)
<1>1. PICK b : b = Bequeathed(t, w)
  OBVIOUS
<1>2. PICK u : u = Moved(b, w, NOTHING)
  OBVIOUS
<1>3. b \in Trees /\ \A z \in Nums : b.up[z] = IF z \in t.down[w] THEN t.up[w] ELSE t.up[z]
  BY <1>1 DEF Bequeathed, Trees, GoodTree
<1>4. \A z \in Nums : u.up[z] = IF z = w THEN NOTHING ELSE b.up[z]
  <2>1. w \in Nums /\ NOTHING \in Nums \cup {NOTHING}
    OBVIOUS
  <2>2. b \in Trees
    BY <1>3
  <2>3. \A z \in Nums : Moved(b, w, NOTHING).up[z] = IF z = w THEN NOTHING ELSE b.up[z]
    BY <2>1, <2>2, MovedLinks
  <2> QED
    BY <1>2, <2>3
<1>5. \A z : z \in t.down[w] <=> z \in O /\ t.up[z] = w
  BY DownOf
<1>6. /\ \A z \in O \ {w} : u.up[z] = IF t.up[z] = w THEN t.up[w] ELSE t.up[z]
      /\ \A z \in Nums \ O : u.up[z] = NOTHING /\ t.up[z] = NOTHING
      /\ t.up[w] # w
      /\ NOTHING # w
  BY <1>3, <1>4, <1>5, LinksOf
<1>7. ASSUME a \in Above(t, x)
      PROVE  a \in Above(u, x)
  <2>1. ASSUME NEW Z \in SUBSET Nums, x \in Z, Closed(u, Z)
        PROVE  \E W \in SUBSET Nums : x \in W /\ Closed(t, W) /\ (a \in W => a \in Z)
    <3>1. PICK W : W = {z \in Z : z # w} \cup {v \in {w} : \E z \in Z : z # w /\ t.up[z] = w}
      OBVIOUS
    <3>2. ASSUME NEW z \in W
          PROVE  t.up[z] \in W \cup {NOTHING}
      <4>1. CASE z = w
        <5>1. PICK c \in Z : c # w /\ t.up[c] = w
          BY <3>1, <4>1
        <5>2. c \in O
          BY <1>6, <5>1
        <5>3. t.up[w] \in Z \cup {NOTHING}
          BY <1>6, <2>1, <5>1, <5>2 DEF Closed
        <5> QED
          BY <1>6, <3>1, <4>1, <5>3
      <4>2. CASE z # w /\ z \in O
        <5>1. z \in Z /\ u.up[z] \in Z \cup {NOTHING}
          BY <2>1, <3>1, <4>2 DEF Closed
        <5> QED
          BY <1>6, <3>1, <4>2, <5>1
      <4>3. CASE z \notin O
        BY <1>6, <3>1, <4>3
      <4> QED
        BY <4>1, <4>2, <4>3
    <3>3. Closed(t, W)
      BY <3>2 DEF Closed
    <3> QED
      BY <2>1, <3>1, <3>3
  <2> QED
    BY <1>7, <2>1, AboveCarried
<1>8. ASSUME a \in Above(u, x)
      PROVE  a \in Above(t, x)
  <2>1. ASSUME NEW Z \in SUBSET Nums, x \in Z, Closed(t, Z)
        PROVE  \E W \in SUBSET Nums : x \in W /\ Closed(u, W) /\ (a \in W => a \in Z)
    <3>1. ASSUME NEW z \in Z \ {w}
          PROVE  u.up[z] \in (Z \ {w}) \cup {NOTHING}
      <4>1. CASE z \in O
        <5>1. t.up[z] \in Z \cup {NOTHING} /\ (w \in Z => t.up[w] \in Z \cup {NOTHING})
          BY <2>1 DEF Closed
        <5> QED
          BY <1>6, <4>1, <5>1
      <4>2. CASE z \notin O
        BY <1>6, <4>2
      <4> QED
        BY <4>1, <4>2
    <3>2. Closed(u, Z \ {w})
      BY <3>1 DEF Closed
    <3>3. Z \ {w} \in SUBSET Nums /\ x \in Z \ {w}
      BY <2>1
    <3> QED
      BY <3>2, <3>3
  <2> QED
    BY <1>8, <2>1, AboveCarried
<1> QED
  BY <1>1, <1>2, <1>7, <1>8

\* What a step that creates, renumbers or recycles an object leaves as it was
Kin == objects' # objects =>
         \A x, a \in objects \cap objects' : a \in Above(family, x) <=> a \in Above(family', x)

\* Every step of the object table keeps the kin of those that keep their number.
LEMMA KinKept == ObjectInv /\ [Next]_vars => Kin
<1> SUFFICES ASSUME ObjectInv, Next, objects' # objects,
                    NEW x \in objects \cap objects', NEW a \in objects \cap objects'
             PROVE  a \in Above(family, x) <=> a \in Above(family', x)
  BY DEF Kin, vars
<1>1. objects \in SUBSET Nums /\ GoodTree(objects, family) /\ GoodTree(objects, place)
  BY ObjectAssumption DEF ObjectInv, TypeOK, Nums
<1>2. ASSUME NEW y \in Nums \ objects, NEW parent, NewObject(y, parent)
      PROVE  a \in Above(family, x) <=> a \in Above(family', x)
  <2>1. PICK f : f = Fresh(family, y)
    OBVIOUS
  <2>2. f \in Trees /\ \A z \in Nums : f.up[z] = IF z = y THEN NOTHING ELSE family.up[z]
    BY <1>1, <2>1 DEF Fresh, Trees, GoodTree
  <2>3. family' = Moved(f, y, parent) /\ parent \in Nums \cup {NOTHING}
    BY <1>1, <1>2, <2>1 DEF NewObject
  <2>4. \A z \in Nums : family'.up[z] = IF z = y THEN parent ELSE family.up[z]
    <3>1. PICK u : u = Moved(f, y, parent)
      OBVIOUS
    <3>2. y \in Nums /\ f \in Trees /\ parent \in Nums \cup {NOTHING}
      BY <2>2, <2>3
    <3>3. \A z \in Nums : Moved(f, y, parent).up[z] = IF z = y THEN parent ELSE f.up[z]
      BY <3>2, MovedLinks
    <3>4. \A z \in Nums : u.up[z] = IF z = y THEN parent ELSE f.up[z]
      BY <3>1, <3>3
    <3> QED
      BY <2>2, <2>3, <3>1, <3>4
  <2> QED
    BY <1>1, <2>4, AboveNew
<1>3. ASSUME NEW parent, \/ Create(parent)
                         \/ CreateAndRenumber(parent)
                         \/ \E num \in Nums : CreateWithId(num, parent)
      PROVE  \E y \in Nums \ objects : NewObject(y, parent)
  <2>1. num_objects \in 0..(MaxObject + 1) /\ objects \subseteq 0..(num_objects - 1)
    BY DEF ObjectInv, TypeOK
  <2>2. Create(parent) => num_objects \in Nums \ objects
    BY <2>1, ObjectAssumption DEF Create, Nums
  <2>3. \A y \in Free : y \in Nums \ objects
    BY <2>1, ObjectAssumption DEF Free, Nums
  <2> QED
    BY <1>3, <2>2, <2>3 DEF Create, CreateAndRenumber, CreateWithId, Panics
<1>4. ASSUME NEW old \in Nums, Renumber(old)
      PROVE  a \in Above(family, x) <=> a \in Above(family', x)
  <2>1. PICK new \in Free : /\ objects' = (objects \ {old}) \cup {new}
                            /\ family' = Renamed(family, old, new)
    BY <1>4 DEF Renumber, Panics
  <2>2. old \in objects /\ new \in Nums \ objects
    <3>1. num_objects \in 0..(MaxObject + 1)
      BY DEF ObjectInv, TypeOK
    <3> QED
      BY <1>4, <3>1, ObjectAssumption DEF Renumber, Free, Nums
  <2>3. x \in objects \ {old} /\ a \in objects \ {old}
    BY <2>1, <2>2
  <2> QED
    BY <1>1, <2>1, <2>2, <2>3, AboveRenamed
<1>5. ASSUME NEW i \in Slots, RecycleDestroys(i)
      PROVE  a \in Above(family, x) <=> a \in Above(family', x)
  <2>1. PICK w : w = calls[i].what
    OBVIOUS
  <2>2. /\ w \in objects
        /\ objects' = objects \ {w}
        /\ family' = Moved(Bequeathed(family, w), w, NOTHING)
    BY <1>5, <2>1 DEF RecycleDestroys, Returns, Panics
  <2> QED
    BY <1>1, <2>2, AboveRecycled
<1>6. CASE UNCHANGED objects
  BY <1>6
<1> QED
  BY <1>2, <1>3, <1>4, <1>5, <1>6
  DEF Next, Chparent, MoveOut, Recycle, Move, Begins, ResetMaxObject, MoveArrives, GiveUp,
      RecycleEmpties, RecycleLeaves

-----------------------------------------------------------------------------
(* The properties *)

\* Types, and num_objects stays above every object in the table.
THEOREM ObjectTypes == Spec => []TypeOK
<1>1. ObjectInv => TypeOK
  BY DEF ObjectInv
<1> QED
  BY <1>1, ObjectInvAlways, PTL

\* Parents agree with lists of children and locations with lists of contents, and
\* nothing refers to a recycled object, whatever verbs called by move() and recycle()
\* do before they return.
THEOREM ListsAgreeAlways == Spec => []ListsAgree
<1>1. ObjectInv => ListsAgree
  BY DEF ObjectInv, GoodTree, ListsAgree
<1> QED
  BY <1>1, ObjectInvAlways, PTL

\* chparent() and move() never close a loop of parents or of locations.
THEOREM NoLoopsAlways == Spec => []NoLoops
<1>1. ObjectInv => NoLoops
  BY DEF ObjectInv, GoodTree, NoLoops
<1> QED
  BY <1>1, ObjectInvAlways, PTL

\* db_destroy_object() and db_set_object_number() never call server_panic().
THEOREM NoAssertionFailsAlways == Spec => []NoAssertionFails
<1>1. ObjectInv => NoAssertionFails
  BY DEF ObjectInv
<1> QED
  BY <1>1, ObjectInvAlways, PTL

\* Objects inherit what they inherited: db_create_object(), db_renumber_object() and
\* db_destroy_object() change the ancestors of no other object.
THEOREM AncestryIsKeptAlways == Spec => AncestryIsKept
<1>1. ObjectInv /\ [Next]_vars =>
        [objects' # objects =>
           \A x, a \in objects \cap objects' :
             a \in Above(family, x) <=> a \in Above(family, x)']_vars
  BY KinKept DEF Kin, Above
<1> QED
  BY <1>1, ObjectInvAlways, PTL DEF Spec, AncestryIsKept

-----------------------------------------------------------------------------
(* The way up.  A set of objects that all have their parent in the set is empty: that *)
(* takes the place of induction in what follows.                                      *)

\* Whatever is true of a number when it is true of its parent is true of all.
LEMMA UpInduction ==
  ASSUME NEW O \in SUBSET Nums, NEW t, GoodTree(O, t), NEW S,
         \A x \in Nums : t.up[x] \in S \cup {NOTHING} => x \in S
  PROVE  Nums \subseteq S
<1>1. O \subseteq S
  <2>1. SUFFICES ASSUME O \ S # {} PROVE FALSE
    OBVIOUS
  <2>2. PICK x \in O \ S : t.up[x] \notin O \ S
    BY <2>1 DEF GoodTree, Acyclic
  <2> QED
    BY <2>2, LinksOf
<1> QED
  BY <1>1, LinksOf

\* s is the way up from y.
IsLine(t, s, y) ==
  /\ s \in Seq(Nums)
  /\ Len(s) > 0
  /\ s[1] = y
  /\ \A i \in 1..Len(s) : t.up[s[i]] = IF i = Len(s) THEN NOTHING ELSE s[i + 1]

\* At an object without a parent the way up ends.
LEMMA LastLine ==
  ASSUME NEW t, NEW y \in Nums, t.up[y] = NOTHING
  PROVE  IsLine(t, <<y>>, y) /\ \A r : IsLine(t, r, y) => r = <<y>>
<1>1. IsLine(t, <<y>>, y)
  BY DEF IsLine
<1>2. ASSUME NEW r, IsLine(t, r, y) PROVE r = <<y>>
  <2>1. r \in Seq(Nums) /\ Len(r) \in Nat /\ Len(r) > 0 /\ r[1] = y
    BY <1>2 DEF IsLine
  <2>2. \A i \in 1..Len(r) : t.up[r[i]] = IF i = Len(r) THEN NOTHING ELSE r[i + 1]
    BY <1>2 DEF IsLine
  <2>3. Len(r) = 1
    <3>1. SUFFICES ASSUME Len(r) # 1 PROVE FALSE
      OBVIOUS
    <3>2. PICK n \in Nat : n = Len(r) /\ n > 0 /\ n # 1
      BY <3>1, <2>1
    <3>2a. 1 \in 1..Len(r) /\ 1 + 1 \in 1..Len(r)
      <4>1. 1 \in 1..n /\ 1 + 1 \in 1..n
        BY <3>2
      <4> QED BY <4>1, <3>2
    <3>3. r[1 + 1] \in Nums
      BY <3>2a, <2>1
    <3>4. t.up[r[1]] = r[1 + 1]
      BY <3>1, <3>2a, <2>2
    <3> QED
      BY <3>3, <3>4, <2>1, NothingIsNoNumber
  <2> QED
    BY <2>1, <2>3
<1> QED
  BY <1>1, <1>2

\* Otherwise it goes on from the parent.
LEMMA LongerLine ==
  ASSUME NEW t, NEW y \in Nums, NEW p \in Nums, t.up[y] = p,
         NEW s, IsLine(t, s, p), \A r : IsLine(t, r, p) => r = s
  PROVE  IsLine(t, <<y>> \o s, y) /\ \A r : IsLine(t, r, y) => r = <<y>> \o s
<1>0. s \in Seq(Nums) /\ Len(s) \in Nat /\ Len(s) > 0 /\ s[1] = p
  BY DEF IsLine
<1>1. IsLine(t, <<y>> \o s, y)
  <2>1. PICK q : q = <<y>> \o s
    OBVIOUS
  <2>2. /\ q \in Seq(Nums) /\ Len(q) = Len(s) + 1 /\ q[1] = y
        /\ \A i \in 1..Len(s) : q[i + 1] = s[i]
    BY <1>0, <2>1
  <2>3. ASSUME NEW i \in 1..Len(q)
        PROVE  t.up[q[i]] = IF i = Len(q) THEN NOTHING ELSE q[i + 1]
    <3>1. CASE i = 1
      <4>1. q[1 + 1] = s[1] /\ 1 # Len(q)
        BY <2>2, <1>0
      <4> QED
        BY <3>1, <4>1, <2>2, <1>0
    <3>2. CASE i # 1
      <4>1. PICK j \in 1..Len(s) : i = j + 1
        BY <3>2, <2>2, <1>0
      <4>2. q[i] = s[j] /\ (i = Len(q) <=> j = Len(s))
        BY <4>1, <2>2, <1>0
      <4>3. j # Len(s) => q[i + 1] = s[j + 1]
        BY <4>1, <2>2, <1>0
      <4>4. t.up[s[j]] = IF j = Len(s) THEN NOTHING ELSE s[j + 1]
        BY DEF IsLine
      <4> QED
        BY <4>2, <4>3, <4>4
    <3> QED
      BY <3>1, <3>2
  <2> QED
    BY <2>1, <2>2, <2>3, <1>0, SMTT(40) DEF IsLine
<1>2. ASSUME NEW r, IsLine(t, r, y) PROVE r = <<y>> \o s
  <2>1. r \in Seq(Nums) /\ Len(r) \in Nat /\ Len(r) > 0 /\ r[1] = y
    BY <1>2 DEF IsLine
  <2>2. \A i \in 1..Len(r) : t.up[r[i]] = IF i = Len(r) THEN NOTHING ELSE r[i + 1]
    BY <1>2 DEF IsLine
  <2>3. Len(r) > 1 /\ r[2] = p
    BY <2>1, <2>2, NothingIsNoNumber
  <2>4. PICK q : q = Tail(r)
    OBVIOUS
  <2>5. /\ q \in Seq(Nums) /\ Len(q) = Len(r) - 1 /\ q[1] = p
        /\ \A i \in 1..Len(q) : q[i] = r[i + 1]
    BY <2>1, <2>3, <2>4
  <2>6. ASSUME NEW i \in 1..Len(q)
        PROVE  t.up[q[i]] = IF i = Len(q) THEN NOTHING ELSE q[i + 1]
    <3>1. i + 1 \in 1..Len(r) /\ (i = Len(q) <=> i + 1 = Len(r))
      BY <2>5, <2>1
    <3>2. i # Len(q) => q[i + 1] = r[(i + 1) + 1]
      BY <2>5, <2>1
    <3> QED
      BY <3>1, <3>2, <2>2, <2>5
  <2>7. q = s
    BY <2>5, <2>6, <2>1, <2>3, SMTT(40) DEF IsLine
  <2> QED
    BY <2>1, <2>4, <2>7, SMTT(40)
<1> QED
  BY <1>1, <1>2

\* There is one way up.
LEMMA OneLine ==
  ASSUME NEW O \in SUBSET Nums, NEW t, GoodTree(O, t)
  PROVE  \A y \in Nums : \E s : IsLine(t, s, y) /\ \A r : IsLine(t, r, y) => r = s
<1> DEFINE S == {y \in Nums : \E s : IsLine(t, s, y) /\ \A r : IsLine(t, r, y) => r = s}
<1>1. ASSUME NEW x \in Nums, t.up[x] \in S \cup {NOTHING}
      PROVE  x \in S
  <2>1. CASE t.up[x] = NOTHING
    BY <2>1, LastLine
  <2>2. CASE t.up[x] \in S
    BY <2>2, LongerLine
  <2> QED
    BY <1>1, <2>1, <2>2
<1>2. Nums \subseteq S
  <2> HIDE DEF S
  <2> QED
    BY <1>1, UpInduction
<1> QED
  BY <1>2

\* The recursive function of Line
LineOf(t) ==
  CHOOSE line : line = [y \in Nums |-> IF t.up[y] = NOTHING THEN <<y>> ELSE <<y>> \o line[t.up[y]]]

\* Line() is a recursive function: there is one, by induction on the way up.
LEMMA LineOfExists ==
  ASSUME NEW O \in SUBSET Nums, NEW t, GoodTree(O, t)
  PROVE  LineOf(t) = [y \in Nums |-> IF t.up[y] = NOTHING THEN <<y>>
                                     ELSE <<y>> \o LineOf(t)[t.up[y]]]
<1> DEFINE f == [y \in Nums |-> CHOOSE s : IsLine(t, s, y)]
<1>1. \A y \in Nums : IsLine(t, f[y], y) /\ \A r : IsLine(t, r, y) => r = f[y]
  BY OneLine
<1>2. \A y \in Nums : f[y] = IF t.up[y] = NOTHING THEN <<y>> ELSE <<y>> \o f[t.up[y]]
  <2> HIDE DEF f
  <2>1. SUFFICES ASSUME NEW y \in Nums
                 PROVE  f[y] = IF t.up[y] = NOTHING THEN <<y>> ELSE <<y>> \o f[t.up[y]]
    OBVIOUS
  <2>2. CASE t.up[y] = NOTHING
    BY <2>2, <1>1, LastLine
  <2>3. CASE t.up[y] # NOTHING
    <3>1. t.up[y] \in Nums
      BY <2>3, LinksOf
    <3> QED
      BY <2>3, <3>1, <1>1, LongerLine
  <2> QED
    BY <2>2, <2>3
<1>3. f = [y \in Nums |-> IF t.up[y] = NOTHING THEN <<y>> ELSE <<y>> \o f[t.up[y]]]
  BY <1>2
<1> HIDE DEF f
<1> QED
  BY <1>3, Zenon DEF LineOf

\* The loops over o->parent: an object, and then the way up from its parent.
LEMMA LineUp ==
  ASSUME NEW O \in SUBSET Nums, NEW t, GoodTree(O, t)
  PROVE  /\ Line(t, NOTHING) = <<>>
         /\ \A x \in Nums : Line(t, x) = <<x>> \o Line(t, t.up[x])
         /\ \A x \in Nums \cup {NOTHING} : Line(t, x) \in Seq(Nums)
<1>1. \A x : Line(t, x) = IF x = NOTHING THEN <<>> ELSE LineOf(t)[x]
  BY DEF Line, LineOf
<1>2. \A x \in Nums : LineOf(t)[x] = IF t.up[x] = NOTHING THEN <<x>> ELSE <<x>> \o LineOf(t)[t.up[x]]
  BY LineOfExists, ZenonT(40)
<1>3. \A x \in Nums : t.up[x] \in Nums \cup {NOTHING}
  BY LinksOf
<1>4. ASSUME NEW x \in Nums
      PROVE  Line(t, x) = <<x>> \o Line(t, t.up[x])
  <2>1. Line(t, x) = LineOf(t)[x] /\ NOTHING \notin Nums
    BY <1>1, NothingIsNoNumber
  <2>2. CASE t.up[x] = NOTHING
    <3>1. Line(t, t.up[x]) = <<>> /\ Line(t, x) = <<x>>
      BY <2>1, <2>2, <1>1, <1>2
    <3> QED
      BY <3>1
  <2>3. CASE t.up[x] \in Nums
    BY <2>1, <2>3, <1>1, <1>2
  <2> QED
    BY <2>2, <2>3, <1>3
<1> DEFINE S == {x \in Nums : Line(t, x) \in Seq(Nums)}
<1>5. ASSUME NEW x \in Nums, t.up[x] \in S \cup {NOTHING} PROVE x \in S
  <2>1. Line(t, t.up[x]) \in Seq(Nums)
    <3>1. Line(t, NOTHING) = <<>>
      BY DEF Line
    <3>2. <<>> \in Seq(Nums)
      OBVIOUS
    <3> QED
      BY <1>5, <3>1, <3>2
  <2>2. PICK s : s = Line(t, t.up[x])
    OBVIOUS
  <2>3. s \in Seq(Nums) /\ Line(t, x) = <<x>> \o s
    BY <2>1, <2>2, <1>4
  <2>4. <<x>> \o s \in Seq(Nums)
    BY <2>3
  <2> QED
    BY <2>3, <2>4
<1>6. \A x \in Nums : Line(t, x) \in Seq(Nums)
  <2>1. Nums \subseteq S
    <3> HIDE DEF S
    <3> QED
      BY <1>5, UpInduction
  <2> QED
    BY <2>1
<1>7. Line(t, NOTHING) = <<>>
  BY DEF Line
<1>8. Line(t, NOTHING) \in Seq(Nums)
  BY <1>7
<1> QED
  BY <1>4, <1>6, <1>7, <1>8

-----------------------------------------------------------------------------
(* Searches on the way up. *)

\* SelectInSeq() speaks of the least place, and sets of places have one.
LEMMA LeastPlace ==
  ASSUME NEW I \in SUBSET Nat, I # {}
  PROVE  Min(I) \in I /\ \A i \in I : Min(I) <= i
<1> DEFINE R == OpToRel(<, Nat)
<1>1. \E x \in I : \A y \in I : ~(<<y, x>> \in R)
  <2>1. IsWellFoundedOn(R, Nat)
    BY NatLessThanWellFounded
  <2> HIDE DEF R
  <2> QED
    BY <2>1, WFMin
<1>2. \A x, y \in Nat : <<y, x>> \in R <=> y < x
  BY DEF OpToRel
<1> HIDE DEF R
<1>3. \E x \in I : \A y \in I : x <= y
  <2>1. PICK x \in I : \A y \in I : ~(<<y, x>> \in R)
    BY <1>1
  <2>2. x \in Nat /\ \A y \in I : y \in Nat /\ ~(y < x)
    BY <2>1, <1>2
  <2> QED
    BY <2>1, <2>2
<1> QED
  BY <1>3, Zenon DEF Min

\* The first of s that is in T
FirstIn(T, s) ==
  LET I == {i \in 1..Len(s) : s[i] \in T}
  IN IF I = {} THEN NOTHING ELSE s[Min(I)]

\* Nothing is found on an empty way.
LEMMA FirstOfNone ==
  ASSUME NEW T
  PROVE  FirstIn(T, <<>>) = NOTHING
BY DEF FirstIn

\* The first object is looked at first.
LEMMA FirstOfMore ==
  ASSUME NEW T, NEW s \in Seq(Nums), NEW x \in Nums
  PROVE  FirstIn(T, <<x>> \o s) = IF x \in T THEN x ELSE FirstIn(T, s)
<1>1. PICK q : q = <<x>> \o s
  OBVIOUS
<1>2. /\ q \in Seq(Nums) /\ Len(s) \in Nat /\ Len(q) = Len(s) + 1 /\ q[1] = x
      /\ \A i \in 1..Len(s) : q[i + 1] = s[i]
  BY <1>1
<1>3. PICK I : I = {i \in 1..Len(s) : s[i] \in T}
  OBVIOUS
<1>4. PICK J : J = {i \in 1..Len(q) : q[i] \in T}
  OBVIOUS
<1>5. I \in SUBSET Nat /\ J \in SUBSET Nat
  BY <1>2, <1>3, <1>4
<1>6. FirstIn(T, s) = IF I = {} THEN NOTHING ELSE s[Min(I)]
  BY <1>3 DEF FirstIn
<1>7. FirstIn(T, q) = IF J = {} THEN NOTHING ELSE q[Min(J)]
  BY <1>4 DEF FirstIn
<1>8. \A j \in Nat : j \in J <=> (j = 1 /\ x \in T) \/ (j - 1 \in I)
  <2>1. SUFFICES ASSUME NEW j \in Nat
                 PROVE  j \in J <=> (j = 1 /\ x \in T) \/ (j - 1 \in I)
    OBVIOUS
  <2>2. CASE j = 1
    <3>1. 1 \in 1..Len(q) /\ 1 - 1 \notin 1..Len(s)
      BY <1>2
    <3> QED
      BY <2>2, <3>1, <1>2, <1>3, <1>4
  <2>3. CASE j = 0
    BY <2>3, <1>2, <1>3, <1>4
  <2>4. CASE j > 1
    <3>1. PICK k \in Nat : j = k + 1 /\ k > 0
      BY <2>4
    <3>2. j \in 1..Len(q) <=> k \in 1..Len(s)
      BY <3>1, <1>2
    <3>3. k \in 1..Len(s) => q[j] = s[k]
      BY <3>1, <1>2
    <3>4. j - 1 = k /\ j # 1
      BY <3>1
    <3>5. j \in J <=> j \in 1..Len(q) /\ q[j] \in T
      BY <1>4
    <3>6. k \in I <=> k \in 1..Len(s) /\ s[k] \in T
      BY <1>3
    <3> QED
      BY <3>2, <3>3, <3>4, <3>5, <3>6
  <2> QED
    BY <2>2, <2>3, <2>4
<1>9. CASE x \in T
  <2>1. 1 \in J
    BY <1>8, <1>9
  <2>2. Min(J) \in J /\ Min(J) <= 1 /\ Min(J) \in Nat
    BY <2>1, <1>5, LeastPlace
  <2>3. 0 \notin J
    BY <1>4
  <2>4. Min(J) = 1
    BY <2>2, <2>3
  <2> QED
    BY <2>1, <2>4, <1>1, <1>2, <1>7, <1>9
<1>10. CASE x \notin T
  <2>1. \A j \in Nat : j \in J <=> j - 1 \in I
    BY <1>8, <1>10
  <2>2. CASE I = {}
    <3>1. J = {}
      BY <2>1, <2>2, <1>5
    <3> QED
      BY <3>1, <2>2, <1>1, <1>6, <1>7, <1>10
  <2>3. CASE I # {}
    <3>1. PICK m \in Nat : m = Min(I) /\ m \in I /\ \A i \in I : m <= i
      BY <2>3, <1>5, LeastPlace
    <3>2. m + 1 \in Nat /\ (m + 1) - 1 = m
      BY <3>1
    <3>3. m + 1 \in J
      BY <3>1, <3>2, <2>1
    <3>4. PICK n \in Nat : n = Min(J) /\ n \in J /\ n <= m + 1
      BY <3>3, <1>5, LeastPlace
    <3>5. n - 1 \in I /\ m <= n - 1
      BY <3>4, <2>1, <3>1
    <3>6. n = m + 1
      BY <3>4, <3>5
    <3>7. m \in 1..Len(s) /\ q[m + 1] = s[m]
      BY <3>1, <1>3, <1>2
    <3> QED
      BY <3>1, <3>3, <3>4, <3>6, <3>7, <2>3, <1>1, <1>6, <1>7, <1>10
  <2> QED
    BY <2>2, <2>3
<1> QED
  BY <1>9, <1>10

\* The nearest of T on the way up from x
Nearest(t, T, x) == FirstIn(T, Line(t, x))

\* The nearest is the object itself, or the nearest from its parent on.
LEMMA NearestUp ==
  ASSUME NEW O \in SUBSET Nums, NEW t, GoodTree(O, t), NEW T
  PROVE  /\ Nearest(t, T, NOTHING) = NOTHING
         /\ \A x \in Nums : Nearest(t, T, x) = IF x \in T THEN x ELSE Nearest(t, T, t.up[x])
<1>1. Nearest(t, T, NOTHING) = NOTHING
  BY LineUp, FirstOfNone DEF Nearest
<1>2. ASSUME NEW x \in Nums
      PROVE  Nearest(t, T, x) = IF x \in T THEN x ELSE Nearest(t, T, t.up[x])
  <2>1. t.up[x] \in Nums \cup {NOTHING}
    BY LinksOf
  <2>2. PICK s : s = Line(t, t.up[x])
    OBVIOUS
  <2>3. s \in Seq(Nums) /\ Line(t, x) = <<x>> \o s
    BY <2>1, <2>2, LineUp
  <2>4. FirstIn(T, <<x>> \o s) = IF x \in T THEN x ELSE FirstIn(T, s)
    BY <2>3, FirstOfMore
  <2> QED
    BY <2>2, <2>3, <2>4 DEF Nearest
<1> QED
  BY <1>1, <1>2

\* What is found is one of those that were sought.
LEMMA NearestIsOne ==
  ASSUME NEW O \in SUBSET Nums, NEW t, GoodTree(O, t), NEW T, NEW x \in Nums
  PROVE  Nearest(t, T, x) \in (T \cap Nums) \cup {NOTHING}
<1> DEFINE S == {y \in Nums : Nearest(t, T, y) \in (T \cap Nums) \cup {NOTHING}}
<1>1. ASSUME NEW y \in Nums, t.up[y] \in S \cup {NOTHING} PROVE y \in S
  BY <1>1, NearestUp
<1>2. Nums \subseteq S
  <2> HIDE DEF S
  <2> QED
    BY <1>1, UpInduction
<1> QED
  BY <1>2

\* What is sought from the first parent with verbs on is what is sought from the object.
LEMMA KeySuffices ==
  ASSUME NEW O \in SUBSET Nums, NEW t, GoodTree(O, t), NEW T, NEW U, T \subseteq U, NEW x \in Nums
  PROVE  Nearest(t, T, Nearest(t, U, x)) = Nearest(t, T, x)
<1> DEFINE S == {y \in Nums : Nearest(t, T, Nearest(t, U, y)) = Nearest(t, T, y)}
<1>1. ASSUME NEW y \in Nums, t.up[y] \in S \cup {NOTHING} PROVE y \in S
  <2>1. Nearest(t, U, y) = IF y \in U THEN y ELSE Nearest(t, U, t.up[y])
    BY NearestUp
  <2>2. Nearest(t, T, y) = IF y \in T THEN y ELSE Nearest(t, T, t.up[y])
    BY NearestUp
  <2>3. Nearest(t, U, NOTHING) = NOTHING
    BY NearestUp
  <2> QED
    BY <1>1, <2>1, <2>2, <2>3
<1>2. Nums \subseteq S
  <2> HIDE DEF S
  <2> QED
    BY <1>1, UpInduction
<1> QED
  BY <1>2

\* Objects whose ways up are the same in two trees
LEMMA SameWayUp ==
  ASSUME NEW O \in SUBSET Nums, NEW t, GoodTree(O, t),
         NEW P \in SUBSET Nums, NEW u, GoodTree(P, u),
         NEW Z \in SUBSET Nums,
         \A z \in Z : u.up[z] = t.up[z] /\ t.up[z] \in Z \cup {NOTHING},
         NEW T, NEW x \in Z
  PROVE  Nearest(u, T, x) = Nearest(t, T, x)
<1> DEFINE S == {y \in Nums : y \in Z => Nearest(u, T, y) = Nearest(t, T, y)}
<1>1. ASSUME NEW y \in Nums, t.up[y] \in S \cup {NOTHING} PROVE y \in S
  <2>1. SUFFICES ASSUME y \in Z PROVE Nearest(u, T, y) = Nearest(t, T, y)
    OBVIOUS
  <2>2. u.up[y] = t.up[y] /\ t.up[y] \in Z \cup {NOTHING}
    BY <2>1
  <2>3. Nearest(u, T, y) = IF y \in T THEN y ELSE Nearest(u, T, u.up[y])
    BY NearestUp
  <2>4. Nearest(t, T, y) = IF y \in T THEN y ELSE Nearest(t, T, t.up[y])
    BY NearestUp
  <2>5. Nearest(u, T, NOTHING) = NOTHING /\ Nearest(t, T, NOTHING) = NOTHING
    BY NearestUp
  <2> QED
    BY <1>1, <2>2, <2>3, <2>4, <2>5
<1>2. Nums \subseteq S
  <2> HIDE DEF S
  <2> QED
    BY <1>1, UpInduction
<1> QED
  BY <1>2

-----------------------------------------------------------------------------
(* Searches for verbs. *)

\* The verbs of all objects, at some time
Tables == [Nums -> Seq(Verbdefs)]

IndexOf(list, word) == SelectInSeq(list, LAMBDA v : v.exec /\ verbcasecmp(v.names, word))
Answering(vs, word) == {x \in Nums : IndexOf(vs[x], word) # 0}
HaveVerbs(vs) == {x \in Nums : vs[x] # <<>>}

HandleOf(vs, word, x) ==
  IF x = NOTHING THEN NotFound ELSE [definer |-> x, index |-> IndexOf(vs[x], word)]

\* What a search on the way up from x finds
Finding(t, vs, word, x) == HandleOf(vs, word, Nearest(t, Answering(vs, word), x))

\* The abstract specification compares names as the code does.
LEMMA SameNames ==
  \A names, word : Lookup!verbcasecmp(names, word) <=> verbcasecmp(names, word)
BY DEF Lookup!verbcasecmp, Lookup!name_matches, Lookup!Together, Lookup!Plain, Lookup!EndsInStar,
       Lookup!StarAt, verbcasecmp, name_matches, Together, Plain, EndsInStar, StarAt

\* The place of the first verb for a word
LEMMA IndexIsFirst ==
  ASSUME NEW list \in Seq(Verbdefs), NEW word
  PROVE  /\ IndexOf(list, word) \in 0..Len(list)
         /\ IndexOf(list, word) = 0 <=> \A i \in DOMAIN list : ~Lookup!Answers(list[i], word)
         /\ IndexOf(list, word) # 0 =>
              /\ IndexOf(list, word) \in DOMAIN list
              /\ Lookup!Answers(list[IndexOf(list, word)], word)
              /\ \A i \in 1..(IndexOf(list, word) - 1) : ~Lookup!Answers(list[i], word)
<1>1. PICK I : I = {i \in 1..Len(list) : Lookup!Answers(list[i], word)}
  OBVIOUS
<1>2. I = {i \in 1..Len(list) : list[i].exec /\ verbcasecmp(list[i].names, word)}
  BY <1>1, SameNames DEF Lookup!Answers
<1>3. IndexOf(list, word) = IF I # {} THEN Min(I) ELSE 0
  BY <1>2 DEF IndexOf, SelectInSeq
<1>4. Len(list) \in Nat /\ DOMAIN list = 1..Len(list)
  OBVIOUS
<1>5. I \in SUBSET Nat
  BY <1>1, <1>4
<1>6. CASE I = {}
  BY <1>6, <1>1, <1>3, <1>4
<1>7. CASE I # {}
  <2>1. PICK m \in Nat : m = Min(I) /\ m \in I /\ \A i \in I : m <= i
    BY <1>7, <1>5, LeastPlace
  <2>2. m \in 1..Len(list) /\ Lookup!Answers(list[m], word)
    BY <2>1, <1>1
  <2>3. \A i \in 1..(m - 1) : i \in 1..Len(list) /\ ~(m <= i)
    BY <2>2, <1>4
  <2>4. \A i \in 1..(m - 1) : ~Lookup!Answers(list[i], word)
    BY <2>1, <2>3, <1>1
  <2>5. IndexOf(list, word) = m /\ m # 0 /\ m \in 0..Len(list)
    BY <2>1, <2>2, <1>3, <1>4, <1>7
  <2> QED
    BY <2>2, <2>4, <2>5, <1>4
<1> QED
  BY <1>6, <1>7

\* An object without verbs answers to no word.
LEMMA AnsweringHaveVerbs ==
  ASSUME NEW vs \in Tables, NEW word
  PROVE  Answering(vs, word) \subseteq HaveVerbs(vs)
<1>1. SUFFICES ASSUME NEW x \in Nums, vs[x] = <<>> PROVE IndexOf(vs[x], word) = 0
  BY DEF Answering, HaveVerbs
<1>2. vs[x] \in Seq(Verbdefs) /\ Len(vs[x]) = 0
  BY <1>1 DEF Tables
<1>3. IndexOf(vs[x], word) \in 0..Len(vs[x])
  BY <1>2, IndexIsFirst
<1> QED
  BY <1>2, <1>3

\* The loop of db_find_callable_verb()
LEMMA SearchIsFinding ==
  ASSUME NEW O \in SUBSET Nums, GoodTree(O, family), NEW word, NEW x \in Nums \cup {NOTHING}
  PROVE  search(Line(family, x), word) = Finding(family, verbs, word, x)
<1>1. PICK s \in Seq(Nums) : s = Line(family, x)
  BY LineUp
<1>2. PICK I : I = {i \in 1..Len(s) : s[i] \in Answering(verbs, word)}
  OBVIOUS
<1>3. I = {i \in 1..Len(s) : IndexOf(verbs[s[i]], word) # 0}
  BY <1>2 DEF Answering
<1>4. PICK at : at = IF I # {} THEN Min(I) ELSE 0
  OBVIOUS
<1>5. at = SelectInSeq(s, LAMBDA y : find_verbdef_by_name(y, word) # 0)
  BY <1>3, <1>4 DEF SelectInSeq, find_verbdef_by_name, IndexOf
<1>6. search(s, word) = IF at = 0 THEN NotFound
                        ELSE [definer |-> s[at], index |-> IndexOf(verbs[s[at]], word)]
  BY <1>5 DEF search, find_verbdef_by_name, IndexOf
<1>7. FirstIn(Answering(verbs, word), s) = IF I = {} THEN NOTHING ELSE s[Min(I)]
  BY <1>2 DEF FirstIn
<1>8. CASE I = {}
  BY <1>8, <1>1, <1>4, <1>6, <1>7 DEF Finding, HandleOf, Nearest
<1>9. CASE I # {}
  <2>1. I \in SUBSET Nat /\ 0 \notin I
    BY <1>2
  <2>2. at \in I /\ at = Min(I) /\ at # 0
    BY <1>4, <1>9, <2>1, LeastPlace
  <2>3. s[at] \in Nums
    BY <2>2, <1>2, <1>1
  <2> QED
    BY <2>2, <2>3, <1>1, <1>6, <1>7, <1>9, NothingIsNoNumber DEF Finding, HandleOf, Nearest
<1> QED
  BY <1>8, <1>9

\* first_parent_with_verbs()
LEMMA KeyIsNearest ==
  ASSUME NEW O \in SUBSET Nums, GoodTree(O, family), NEW x \in Nums
  PROVE  first_parent_with_verbs(x) = Nearest(family, HaveVerbs(verbs), x)
<1>1. PICK s \in Seq(Nums) : s = Line(family, x)
  BY LineUp
<1>2. PICK I : I = {i \in 1..Len(s) : s[i] \in HaveVerbs(verbs)}
  OBVIOUS
<1>3. I = {i \in 1..Len(s) : verbs[s[i]] # <<>>}
  BY <1>2 DEF HaveVerbs
<1>4. PICK at : at = IF I # {} THEN Min(I) ELSE 0
  OBVIOUS
<1>5. at = SelectInSeq(s, LAMBDA y : verbs[y] # <<>>)
  BY <1>3, <1>4 DEF SelectInSeq
<1>6. first_parent_with_verbs(x) = IF at = 0 THEN NOTHING ELSE s[at]
  BY <1>1, <1>5 DEF first_parent_with_verbs
<1>7. FirstIn(HaveVerbs(verbs), s) = IF I = {} THEN NOTHING ELSE s[Min(I)]
  BY <1>2 DEF FirstIn
<1>8. I \in SUBSET Nat /\ 0 \notin I
  BY <1>2
<1>9. I # {} => at # 0
  BY <1>4, <1>8, LeastPlace
<1> QED
  BY <1>1, <1>4, <1>6, <1>7, <1>9 DEF Nearest

\* The recursive function of bf_find_verb
FromOf(word) ==
  CHOOSE from : from =
    [y \in Nums \cup {NOTHING} |->
       IF y = NOTHING THEN NotFound
       ELSE IF SelectInSeq(verbs[y], LAMBDA v : verbcasecmp(v.names, word) /\ (TRUE => v.exec)) # 0
       THEN [definer |-> y,
             index |-> SelectInSeq(verbs[y], LAMBDA v : verbcasecmp(v.names, word) /\ (TRUE => v.exec))]
       ELSE from[family.up[y]]]

\* The loop of bf_find_verb() finds what db_find_callable_verb() does.
LEMMA FindVerbFinds ==
  ASSUME NEW O \in SUBSET Nums, GoodTree(O, family), verbs \in Tables, NEW word, NEW x \in Nums
  PROVE  bf_find_verb(x, word, TRUE) = Finding(family, verbs, word, x)
<1>1. bf_find_verb(x, word, TRUE) = FromOf(word)[x]
  BY DEF bf_find_verb, FromOf
<1>2. ASSUME NEW y \in Nums
      PROVE  SelectInSeq(verbs[y], LAMBDA v : verbcasecmp(v.names, word) /\ (TRUE => v.exec))
               = IndexOf(verbs[y], word)
  <2>1. verbs[y] \in Seq(Verbdefs)
    BY DEF Tables
  <2>2. \A i \in 1..Len(verbs[y]) : verbs[y][i].exec \in BOOLEAN
    <3>1. \A v \in Verbdefs : v.exec \in BOOLEAN
      BY DEF Verbdefs
    <3>2. \A i \in 1..Len(verbs[y]) : verbs[y][i] \in Verbdefs
      BY <2>1
    <3> QED
      BY <3>1, <3>2
  <2>3. {i \in 1..Len(verbs[y]) : verbcasecmp(verbs[y][i].names, word) /\ (TRUE => verbs[y][i].exec)}
          = {i \in 1..Len(verbs[y]) : verbs[y][i].exec /\ verbcasecmp(verbs[y][i].names, word)}
    BY <2>2
  <2> QED
    BY <2>3 DEF SelectInSeq, IndexOf
<1> DEFINE Q(f) == [y \in Nums \cup {NOTHING} |->
                     IF y = NOTHING THEN NotFound
                     ELSE IF IndexOf(verbs[y], word) # 0
                     THEN [definer |-> y, index |-> IndexOf(verbs[y], word)]
                     ELSE f[family.up[y]]]
<1>3. \A f : Q(f) = [y \in Nums \cup {NOTHING} |->
       IF y = NOTHING THEN NotFound
       ELSE IF SelectInSeq(verbs[y], LAMBDA v : verbcasecmp(v.names, word) /\ (TRUE => v.exec)) # 0
       THEN [definer |-> y,
             index |-> SelectInSeq(verbs[y], LAMBDA v : verbcasecmp(v.names, word) /\ (TRUE => v.exec))]
       ELSE f[family.up[y]]]
  BY <1>2
<1> DEFINE g == [y \in Nums \cup {NOTHING} |-> Finding(family, verbs, word, y)]
<1>4. g = Q(g)
  <2>1. g[NOTHING] = NotFound
    BY NearestUp DEF Finding, HandleOf
  <2>2. ASSUME NEW y \in Nums
        PROVE  g[y] = IF IndexOf(verbs[y], word) # 0
                      THEN [definer |-> y, index |-> IndexOf(verbs[y], word)]
                      ELSE g[family.up[y]]
    <3>1. y # NOTHING /\ family.up[y] \in Nums \cup {NOTHING}
      BY LinksOf, NothingIsNoNumber
    <3>2. Nearest(family, Answering(verbs, word), y) =
            IF y \in Answering(verbs, word) THEN y
            ELSE Nearest(family, Answering(verbs, word), family.up[y])
      BY NearestUp
    <3>3. y \in Answering(verbs, word) <=> IndexOf(verbs[y], word) # 0
      BY DEF Answering
    <3> QED
      BY <3>1, <3>2, <3>3 DEF Finding, HandleOf
  <2>3. \A y \in Nums \cup {NOTHING} :
          g[y] = IF y = NOTHING THEN NotFound
                 ELSE IF IndexOf(verbs[y], word) # 0
                 THEN [definer |-> y, index |-> IndexOf(verbs[y], word)]
                 ELSE g[family.up[y]]
    BY <2>1, <2>2, SMTT(40)
  <2> QED
    BY <2>3
<1>5. \E f : f = Q(f)
  <2> HIDE DEF g, Q
  <2> QED BY <1>4
<1>6. FromOf(word) = Q(FromOf(word))
  BY <1>3, <1>5 DEF FromOf
<1>7. \A y \in Nums : FromOf(word)[y] = Finding(family, verbs, word, y)
  <2> DEFINE S == {y \in Nums : FromOf(word)[y] = Finding(family, verbs, word, y)}
             F == FromOf(word)
  <2>1. ASSUME NEW y \in Nums, family.up[y] \in S \cup {NOTHING} PROVE y \in S
    <3>1. F[NOTHING] = NotFound /\ g[NOTHING] = NotFound
      BY <1>4, <1>6
    <3>2. family.up[y] \in Nums \cup {NOTHING} /\ y # NOTHING
      BY NothingIsNoNumber, <2>1
    <3>3. F[y] = IF IndexOf(verbs[y], word) # 0
                 THEN [definer |-> y, index |-> IndexOf(verbs[y], word)]
                 ELSE F[family.up[y]]
      BY <1>6, <3>2
    <3>4. g[y] = IF IndexOf(verbs[y], word) # 0
                 THEN [definer |-> y, index |-> IndexOf(verbs[y], word)]
                 ELSE g[family.up[y]]
      BY <1>4, <3>2
    <3>5. F[family.up[y]] = g[family.up[y]]
      BY <3>1, <2>1
    <3> QED
      BY <3>3, <3>4, <3>5
  <2>2. Nums \subseteq S
    <3> HIDE DEF S
    <3> QED
      BY <2>1, UpInduction
  <2> QED
    BY <2>2
<1> QED
  BY <1>1, <1>7

-----------------------------------------------------------------------------
(* What the abstract specification says of the verb that is found. *)

\* The recursive function of VerbSearch
AncestorsOf ==
  CHOOSE above : above =
    [x \in objects |-> {x} \cup IF family.up[x] = NOTHING THEN {} ELSE above[family.up[x]]]

\* The ancestors of the abstract specification, too, are a recursive function.
LEMMA AncestorsUp ==
  ASSUME objects \in SUBSET Nums, GoodTree(objects, family)
  PROVE  \A x \in objects : \A a :
           Lookup!IsAncestor(x, a) <=>
             a = x \/ (family.up[x] # NOTHING /\ Lookup!IsAncestor(family.up[x], a))
<1>1. \A x, a : Lookup!IsAncestor(x, a) <=> a \in AncestorsOf[x]
  BY DEF Lookup!IsAncestor, Lookup!Ancestors, AncestorsOf
<1> DEFINE g == [x \in objects |-> ToSet(Line(family, x))]
<1>2. ASSUME NEW x \in objects
      PROVE  g[x] = {x} \cup IF family.up[x] = NOTHING THEN {} ELSE g[family.up[x]]
  <2>1. x \in Nums /\ family.up[x] \in objects \cup {NOTHING} /\ NOTHING \notin objects
    BY LinksOf
  <2>2. PICK s \in Seq(Nums) : s = Line(family, family.up[x])
    BY <2>1, LineUp
  <2>3. g[x] = ToSet(<<x>> \o s)
    BY <2>1, <2>2, LineUp
  <2>4. ToSet(<<x>> \o s) = {x} \cup ToSet(s)
    <3>1. PICK q : q = <<x>> \o s
      OBVIOUS
    <3>2. /\ DOMAIN q = 1..(Len(s) + 1) /\ DOMAIN s = 1..Len(s) /\ Len(s) \in Nat /\ q[1] = x
          /\ \A i \in 1..Len(s) : q[i + 1] = s[i]
      BY <3>1, <2>1
    <3>3. \A i \in 1..(Len(s) + 1) : i = 1 \/ \E j \in 1..Len(s) : i = j + 1
      BY <3>2
    <3>4. \A j \in 1..Len(s) : j + 1 \in 1..(Len(s) + 1)
      BY <3>2
    <3>5. 1 \in 1..(Len(s) + 1)
      BY <3>2
    <3>6. ASSUME NEW v PROVE v \in ToSet(q) <=> v = x \/ v \in ToSet(s)
      <4>1. v \in ToSet(q) <=> \E i \in 1..(Len(s) + 1) : v = q[i]
        BY <3>2 DEF ToSet
      <4>2. v \in ToSet(s) <=> \E j \in 1..Len(s) : v = s[j]
        BY <3>2 DEF ToSet
      <4>3. ASSUME v \in ToSet(q) PROVE v = x \/ v \in ToSet(s)
        <5>1. PICK i \in 1..(Len(s) + 1) : v = q[i]
          BY <4>1, <4>3
        <5>2. CASE i = 1
          BY <5>1, <5>2, <3>2
        <5>3. CASE \E j \in 1..Len(s) : i = j + 1
          BY <5>1, <5>3, <3>2, <4>2
        <5> QED
          BY <5>2, <5>3, <3>3
      <4>4. ASSUME v \in ToSet(s) PROVE v \in ToSet(q)
        <5>1. PICK j \in 1..Len(s) : v = s[j]
          BY <4>2, <4>4
        <5> QED
          BY <5>1, <3>2, <3>4, <4>1
      <4> QED
        BY <4>1, <4>3, <4>4, <3>2, <3>5
    <3> QED
      BY <3>1, <3>6
  <2>5. CASE family.up[x] = NOTHING
    <3>1. s = <<>>
      BY <2>5, <2>2, LineUp
    <3>2. ToSet(s) = {}
      BY <3>1 DEF ToSet
    <3> QED
      BY <2>3, <2>4, <2>5, <3>2
  <2>6. CASE family.up[x] \in objects
    BY <2>6, <2>1, <2>2, <2>3, <2>4
  <2> QED
    BY <2>1, <2>5, <2>6
<1>3. g = [x \in objects |-> {x} \cup IF family.up[x] = NOTHING THEN {} ELSE g[family.up[x]]]
  BY <1>2
<1>4. AncestorsOf =
        [x \in objects |-> {x} \cup IF family.up[x] = NOTHING THEN {} ELSE AncestorsOf[family.up[x]]]
  <2> HIDE DEF g
  <2> QED
    BY <1>3, Zenon DEF AncestorsOf
<1>5. \A x \in objects :
        AncestorsOf[x] = {x} \cup IF family.up[x] = NOTHING THEN {} ELSE AncestorsOf[family.up[x]]
  BY <1>4
<1> QED
  BY <1>1, <1>5

\* What a search on the way up finds is the verb that the parents and the verbs give.
LEMMA FindingIsTheVerb ==
  ASSUME objects \in SUBSET Nums, GoodTree(objects, family), verbs \in Tables,
         NEW word, NEW x \in objects
  PROVE  Lookup!IsTheVerb(x, word, Finding(family, verbs, word, x))
<1> DEFINE T == Answering(verbs, word)
           S == {y \in Nums : y \in objects =>
                               Lookup!IsTheVerb(y, word, Finding(family, verbs, word, y))}
<1>1. \A y \in objects : y \in T <=> Lookup!HasAnswer(y, word)
  BY IndexIsFirst DEF Answering, Tables, Lookup!HasAnswer
<1>2. ASSUME NEW y \in Nums, family.up[y] \in S \cup {NOTHING} PROVE y \in S
  <2>1. SUFFICES ASSUME y \in objects
                 PROVE  Lookup!IsTheVerb(y, word, Finding(family, verbs, word, y))
    OBVIOUS
  <2>2. \A a : Lookup!IsAncestor(y, a) <=>
                 a = y \/ (family.up[y] # NOTHING /\ Lookup!IsAncestor(family.up[y], a))
    BY <2>1, AncestorsUp
  <2>3. Nearest(family, T, y) = IF y \in T THEN y ELSE Nearest(family, T, family.up[y])
    BY NearestUp
  <2>4. y # NOTHING /\ family.up[y] \in objects \cup {NOTHING}
    BY <2>1, LinksOf
  <2>5. CASE y \in T
    <3>1. PICK h : h = [definer |-> y, index |-> IndexOf(verbs[y], word)]
      OBVIOUS
    <3>2. Finding(family, verbs, word, y) = h /\ h.definer = y /\ h.index = IndexOf(verbs[y], word)
      BY <2>3, <2>4, <2>5, <3>1 DEF Finding, HandleOf
    <3>3. Lookup!HasAnswer(y, word) /\ Lookup!IsAncestor(y, y)
      BY <1>1, <2>1, <2>2, <2>5
    <3>4. verbs[y] \in Seq(Verbdefs) /\ IndexOf(verbs[y], word) # 0
      BY <2>5 DEF Tables, Answering
    <3>5. /\ h.index \in DOMAIN verbs[h.definer]
          /\ Lookup!Answers(verbs[h.definer][h.index], word)
          /\ \A i \in 1..(h.index - 1) : ~Lookup!Answers(verbs[h.definer][i], word)
      BY <3>2, <3>4, IndexIsFirst
    <3>6. Lookup!IsNearest(y, word, h)
      BY <3>2, <3>3, <3>5 DEF Lookup!IsNearest
    <3> QED
      BY <2>1, <3>2, <3>3, <3>6 DEF Lookup!IsTheVerb
  <2>6. CASE y \notin T
    <3>1. ~Lookup!HasAnswer(y, word)
      BY <1>1, <2>1, <2>6
    <3>2. Finding(family, verbs, word, y) = HandleOf(verbs, word, Nearest(family, T, family.up[y]))
      BY <2>3, <2>6 DEF Finding
    <3>3. CASE family.up[y] = NOTHING
      <4>1. Finding(family, verbs, word, y) = NotFound
        BY <3>2, <3>3, NearestUp DEF HandleOf
      <4>2. ~\E a \in objects : Lookup!IsAncestor(y, a) /\ Lookup!HasAnswer(a, word)
        BY <3>1, <3>3, <2>2
      <4> QED
        BY <4>1, <4>2 DEF Lookup!IsTheVerb
    <3>4. CASE family.up[y] \in objects
      <4>1. PICK p \in objects : p = family.up[y]
        BY <3>4
      <4>2. PICK h : h = Finding(family, verbs, word, y)
        OBVIOUS
      <4>3. Lookup!IsTheVerb(p, word, h)
        BY <4>1, <4>2, <3>2, <1>2, NothingIsNoNumber DEF Finding
      <4>4. \A a : Lookup!IsAncestor(y, a) <=> a = y \/ Lookup!IsAncestor(p, a)
        BY <2>2, <4>1, NothingIsNoNumber
      <4>5. CASE \E a \in objects : Lookup!IsAncestor(p, a) /\ Lookup!HasAnswer(a, word)
        <5>1. h.definer \in objects /\ Lookup!IsNearest(p, word, h)
          BY <4>3, <4>5 DEF Lookup!IsTheVerb
        <5>2. Lookup!IsNearest(y, word, h)
          BY <5>1, <4>4, <3>1 DEF Lookup!IsNearest
        <5>3. \E a \in objects : Lookup!IsAncestor(y, a) /\ Lookup!HasAnswer(a, word)
          BY <4>5, <4>4
        <5> QED
          BY <5>1, <5>2, <5>3, <4>2 DEF Lookup!IsTheVerb
      <4>6. CASE ~\E a \in objects : Lookup!IsAncestor(p, a) /\ Lookup!HasAnswer(a, word)
        <5>1. h = NotFound
          BY <4>3, <4>6 DEF Lookup!IsTheVerb
        <5>2. ~\E a \in objects : Lookup!IsAncestor(y, a) /\ Lookup!HasAnswer(a, word)
          BY <4>6, <4>4, <3>1
        <5> QED
          BY <5>1, <5>2, <4>2 DEF Lookup!IsTheVerb
      <4> QED
        BY <4>5, <4>6
    <3> QED
      BY <3>3, <3>4, <2>4
  <2> QED
    BY <2>5, <2>6
<1>3. Nums \subseteq S
  <2> HIDE DEF S
  <2> QED
    BY <1>2, UpInduction
<1> QED
  BY <1>3

-----------------------------------------------------------------------------
(* The invariant.  A step that ends in a loop without end leaves objects as they are, *)
(* but nothing runs after it, so that ObjectInv need not hold any more.               *)

Hierarchy ==
  /\ objects \in SUBSET Nums
  /\ GoodTree(objects, family)
  /\ panic = "none" => ObjectInv

\* Only objects have verbs.
OwnVerbs ==
  /\ verbs \in Tables
  /\ \A x \in Nums \ objects : verbs[x] = <<>>

Caches == [(Nums \cup {NOTHING}) \X Words -> [definer : Nums \cup {NOTHING}, index : Int]]

\* What is remembered is what a search would find now, and is kept under objects that have
\* verbs: so the parents of one that has none, and no children, may change.
CacheOK ==
  /\ vc_table \in Caches
  /\ \A key \in Nums \cup {NOTHING}, word \in Words :
       vc_table[<<key, word>>] # Unknown =>
         /\ key \in HaveVerbs(verbs) \cup {NOTHING}
         /\ vc_table[<<key, word>>] = Finding(family, verbs, word, key)

DbInv == Hierarchy /\ OwnVerbs /\ CacheOK

\* make_vc_table(): nothing is remembered.
LEMMA EmptyCacheOK ==
  /\ EmptyCache \in Caches
  /\ \A key \in Nums \cup {NOTHING}, word \in Words : EmptyCache[<<key, word>>] = Unknown
<1>1. Unknown \in [definer : Nums \cup {NOTHING}, index : Int]
  BY DEF Unknown
<1> QED
  BY <1>1 DEF EmptyCache, Caches

\* What a search ends with can be remembered.
LEMMA FindingIsHandle ==
  ASSUME NEW O \in SUBSET Nums, NEW t, GoodTree(O, t), NEW vs \in Tables, NEW word,
         NEW x \in Nums \cup {NOTHING}
  PROVE  Finding(t, vs, word, x) \in [definer : Nums \cup {NOTHING}, index : Int]
<1>1. PICK n : n = Nearest(t, Answering(vs, word), x)
  OBVIOUS
<1>2. n \in Nums \cup {NOTHING}
  BY <1>1, NearestIsOne, NearestUp
<1>3. ASSUME n \in Nums PROVE IndexOf(vs[n], word) \in Int
  <2>1. vs[n] \in Seq(Verbdefs) /\ Len(vs[n]) \in Nat
    BY <1>3 DEF Tables
  <2>2. IndexOf(vs[n], word) \in 0..Len(vs[n])
    BY <2>1, IndexIsFirst
  <2> QED
    BY <2>1, <2>2
<1> QED
  BY <1>1, <1>2, <1>3 DEF Finding, HandleOf, NotFound

\* A database that has been loaded has the invariant: see IsDatabase.
LEMMA InitDbInv == DbInit => DbInv /\ Lookup!Init
<1> SUFFICES ASSUME DbInit PROVE DbInv /\ Lookup!Init
  OBVIOUS
<1>1. PICK db \in Databases :
        /\ objects = db.objects
        /\ num_objects = db.num_objects
        /\ family = [up |-> db.up, down |-> [x \in Nums |-> {y \in db.objects : db.up[y] = x}]]
        /\ place = Barren
        /\ calls = [i \in Slots |-> NoCall]
        /\ panic = "none"
        /\ verbs = db.verbs
        /\ vc_table = EmptyCache
        /\ answer = NoAnswer
  BY DEF DbInit
<1>2. IsDatabase(db)
  BY DatabaseAssumption
<1>3. num_objects \in 0..(MaxObject + 1) /\ objects \subseteq 0..(num_objects - 1)
  BY <1>1, <1>2 DEF IsDatabase
<1>4. objects \in SUBSET Nums
  <2>1. PICK n \in Nat : n = num_objects /\ n <= MaxObject + 1
    BY <1>3, ObjectAssumption
  <2>2. 0..(n - 1) \subseteq 0..MaxObject
    BY <2>1, ObjectAssumption
  <2> QED
    BY <2>1, <2>2, <1>3 DEF Nums
<1>5. db.up \in [Nums -> objects \cup {NOTHING}] /\ \A x \in Nums \ objects : db.up[x] = NOTHING
  BY <1>1, <1>2 DEF IsDatabase
<1>6. /\ family.up = db.up
      /\ family.down = [x \in Nums |-> {y \in objects : db.up[y] = x}]
      /\ family \in Trees
  <2>1. db.up \in [Nums -> Nums \cup {NOTHING}]
    BY <1>4, <1>5
  <2>2. [x \in Nums |-> {y \in objects : db.up[y] = x}] \in [Nums -> SUBSET Nums]
    BY <1>4
  <2> QED
    BY <1>1, <2>1, <2>2 DEF Trees
<1>7. Agree(objects, family)
  <2>1. \A x \in objects : /\ family.up[x] \in objects \cup {NOTHING}
                            /\ family.down[x] = {y \in objects : family.up[y] = x}
    BY <1>4, <1>5, <1>6
  <2>2. \A x \in Nums \ objects : family.up[x] = NOTHING
    BY <1>5, <1>6
  <2>3. ASSUME NEW x \in Nums \ objects PROVE family.down[x] = {}
    <3>1. \A y \in objects : db.up[y] # x
      BY <1>4, <1>5, NothingIsNoNumber
    <3> QED
      BY <3>1, <1>6
  <2> QED
    BY <2>1, <2>2, <2>3 DEF Agree, IsBarren
<1>8. Acyclic(objects, family)
  <2>1. \A Z \in SUBSET objects : Z # {} => \E x \in Z : db.up[x] \notin Z
    BY <1>1, <1>2 DEF IsDatabase
  <2> QED
    BY <2>1, <1>6 DEF Acyclic
<1>9. GoodTree(objects, family)
  BY <1>6, <1>7, <1>8 DEF GoodTree
<1>10. GoodTree(objects, Barren)
  <2>1. Barren \in Trees
    BY DEF Barren, Trees
  <2>2. \A x \in Nums : Barren.up[x] = NOTHING /\ Barren.down[x] = {}
    BY DEF Barren
  <2>3. Agree(objects, Barren)
    BY <1>4, <2>2, NothingIsNoNumber DEF Agree, IsBarren
  <2>4. Acyclic(objects, Barren)
    BY <1>4, <2>2, NothingIsNoNumber DEF Acyclic
  <2> QED
    BY <2>1, <2>3, <2>4 DEF GoodTree
<1>11. TypeOK
  BY <1>1, <1>3, <1>6, <1>10 DEF TypeOK, GoodTree, Calls, NoCall
<1>12. Hierarchy
  BY <1>1, <1>4, <1>9, <1>10, <1>11 DEF Hierarchy, ObjectInv, NoAssertionFails
<1>13. OwnVerbs
  BY <1>1, <1>2 DEF OwnVerbs, IsDatabase, Tables
<1>14. CacheOK
  BY <1>1, EmptyCacheOK DEF CacheOK
<1> QED
  BY <1>1, <1>12, <1>13, <1>14 DEF DbInv, Lookup!Init

-----------------------------------------------------------------------------
(* What the steps do to objects. *)

Loops == panic' = "loop" /\ UNCHANGED <<objects, family>>

\* A step of the database is one of ObjectHierarchy, or leaves objects alone.
LEMMA DbStepObjects == DbStep => panic = "none" /\ ([Next]_vars \/ Loops)
<1> SUFFICES ASSUME DbStep PROVE panic = "none" /\ ([Next]_vars \/ Loops)
  OBVIOUS
<1>1. ASSUME NEW x, NEW word, Search(x, word) \/ Find(x, word)
      PROVE  panic = "none" /\ UNCHANGED vars
  BY <1>1 DEF Search, Find, Call, FindVerb, Running, vars
<1>2. ASSUME MakeVerb \/ ChangeVerbs
      PROVE  panic = "none" /\ (UNCHANGED vars \/ Loops)
  <2>1. ASSUME NEW f, NEW g, NEW x, NEW list, Checked(f, g, VerbsBecome(x, list))
        PROVE  UNCHANGED vars \/ Loops
    BY <2>1 DEF Checked, VerbsBecome, Panics, Loops, vars
  <2>2. ASSUME NEW x, NEW kind, NEW who, AddVerb(x, kind, who)
        PROVE  panic = "none" /\ (UNCHANGED vars \/ Loops)
    BY <2>2, <2>1 DEF AddVerb, Running
  <2>3. ASSUME NEW x, NEW i, DeleteVerb(x, i) \/ SetVerbArgs(x, i)
        PROVE  panic = "none" /\ (UNCHANGED vars \/ Loops)
    BY <2>3 DEF DeleteVerb, SetVerbArgs, VerbsBecome, Running, vars
  <2>4. ASSUME NEW x, NEW i, NEW kind, NEW who, SetVerbInfo(x, i, kind, who)
        PROVE  panic = "none" /\ (UNCHANGED vars \/ Loops)
    BY <2>4, <2>1 DEF SetVerbInfo, Running
  <2> QED
    BY <1>2, <2>2, <2>3, <2>4 DEF MakeVerb, ChangeVerbs
<1>3. ASSUME ChangeProperties
      PROVE  panic = "none" /\ UNCHANGED vars
  <2>1. ASSUME NEW slots, SlotsBecome(slots) PROVE UNCHANGED vars
    BY <2>1 DEF SlotsBecome, vars
  <2>2. ASSUME NEW x, NEW name, DeleteProperty(x, name) \/ ClearProperty(x, name)
        PROVE  panic = "none" /\ UNCHANGED vars
    BY <2>1, <2>2 DEF DeleteProperty, ClearProperty, Running
  <2>3. ASSUME NEW x, NEW name, NEW value, SetProperty(x, name, value)
        PROVE  panic = "none" /\ UNCHANGED vars
    BY <2>1, <2>3 DEF SetProperty, Running
  <2>4. ASSUME NEW x, NEW name, NEW value, NEW who, NEW chown, AddProperty(x, name, value, who, chown)
        PROVE  panic = "none" /\ UNCHANGED vars
    BY <2>1, <2>4 DEF AddProperty, Running
  <2>5. ASSUME NEW x, NEW name, NEW who, NEW chown, SetPropertyInfo(x, name, who, chown)
        PROVE  panic = "none" /\ UNCHANGED vars
    BY <2>1, <2>5 DEF SetPropertyInfo, Running
  <2>6. ASSUME NEW x, NEW name, NEW new, NEW who, NEW chown, RenameProperty(x, name, new, who, chown)
        PROVE  panic = "none" /\ UNCHANGED vars
    BY <2>1, <2>6 DEF RenameProperty, Running
  <2> QED
    BY <1>3, <2>2, <2>3, <2>4, <2>5, <2>6 DEF ChangeProperties
<1>4. ASSUME NEW parent \in Nums \cup {NOTHING}, NEW who,
             \/ CreateObject(parent, who)
             \/ CreateObjectAndRenumber(parent, who)
             \/ \E num \in Nums : CreateObjectWithId(num, parent, who)
      PROVE  panic = "none" /\ Next
  BY <1>4 DEF CreateObject, CreateObjectAndRenumber, CreateObjectWithId, Create, CreateAndRenumber,
              CreateWithId, NewObject, Running, Next
<1>5. ASSUME NEW who, CreateWithIdRefused(who)
      PROVE  panic = "none" /\ UNCHANGED vars
  BY <1>5 DEF CreateWithIdRefused, Running, vars
<1>6. ASSUME NEW what \in Nums, NEW parent \in Nums \cup {NOTHING}, ChangeParent(what, parent)
      PROVE  panic = "none" /\ (Next \/ Loops)
  BY <1>6 DEF ChangeParent, Running, Panics, Loops, Next
<1>7. ASSUME NEW old \in Nums, RenumberObject(old)
      PROVE  panic = "none" /\ Next
  BY <1>7 DEF RenumberObject, Renumber, Running, Next
<1>8. ASSUME NEW i \in Slots, RecycleObject(i)
      PROVE  panic = "none" /\ (Next \/ Loops)
  BY <1>8 DEF RecycleObject, Returns, Running, Panics, Loops, Next
<1>9. ASSUME NumbersAndCalls
      PROVE  panic = "none" /\ Next
  BY <1>9 DEF NumbersAndCalls, ResetMaxObject, Recycle, Begins, GiveUp, Running, Next
<1> QED
  BY <1>1, <1>2, <1>3, <1>4, <1>5, <1>6, <1>7, <1>8, <1>9 DEF DbStep

\* The table ends at the bound of numbers.
LEMMA TablesAreBounded ==
  ASSUME NEW n \in Nat, NEW m \in Nat, n <= m + 1
  PROVE  0..(n - 1) \subseteq 0..m
OBVIOUS

\* The hierarchy stays good, also where the step is one of ObjectHierarchy that is refused.
LEMMA NextHierarchy ==
  ASSUME Hierarchy, DbStep
  PROVE  Hierarchy' /\ ObjectInv
<1>1. panic = "none" /\ ([Next]_vars \/ Loops) /\ ObjectInv
  BY DbStepObjects DEF Hierarchy
<1>2. CASE [Next]_vars
  <2>1. ObjectInv'
    BY <1>1, <1>2, NextObjectInv
  <2>2. (GoodTree(objects, family))'
    BY <2>1 DEF ObjectInv
  <2>3. objects' \in SUBSET Nums
    <3>1. num_objects' \in 0..(MaxObject + 1) /\ objects' \subseteq 0..(num_objects' - 1)
      BY <2>1 DEF ObjectInv, TypeOK
    <3>2. PICK n \in Nat, m \in Nat : n = num_objects' /\ n <= m + 1 /\ m = MaxObject
      BY <3>1, ObjectAssumption
    <3>3. 0..(n - 1) \subseteq 0..m
      BY <3>2, TablesAreBounded
    <3> QED
      BY <3>1, <3>2, <3>3 DEF Nums
  <2> QED
    BY <1>1, <2>1, <2>2, <2>3 DEF Hierarchy
<1>3. CASE Loops
  <2>1. GoodTree(objects', family') /\ objects' \in SUBSET Nums /\ panic' # "none"
    BY <1>3 DEF Loops, Hierarchy
  <2> QED
    BY <1>1, <2>1 DEF Hierarchy
<1> QED
  BY <1>1, <1>2, <1>3

-----------------------------------------------------------------------------
(* What the steps do to verbs and to the cache. *)

\* Verbs have changed, or objects have other numbers: nothing is remembered.
Cleared ==
  /\ OwnVerbs'
  /\ vc_table' = EmptyCache
  /\ answer' = NoAnswer

\* Ways up from objects with verbs are what they were, and so are verbs.
Unmoved ==
  /\ UNCHANGED <<verbs, vc_table>>
  /\ OwnVerbs'
  /\ answer' = NoAnswer
  /\ \E Z \in SUBSET Nums :
       /\ HaveVerbs(verbs) \subseteq Z
       /\ \A z \in Z : family'.up[z] = family.up[z] /\ family.up[z] \in Z \cup {NOTHING}

\* A verb is sought.
Sought ==
  /\ UNCHANGED <<objects, family, verbs>>
  /\ CacheOK'
  /\ answer'.from \in objects
  /\ answer'.handle = Finding(family, verbs, answer'.word, answer'.from)

\* Steps of properties and calls
LEMMA StaysIsUnmoved ==
  ASSUME Hierarchy, OwnVerbs, UNCHANGED <<objects, family, verbs, vc_table>>, answer' = NoAnswer
  PROVE  Unmoved
<1>1. \A z \in Nums : family.up[z] \in Nums \cup {NOTHING}
  BY LinksOf DEF Hierarchy
<1>2. HaveVerbs(verbs) \subseteq Nums
  BY DEF HaveVerbs
<1>3. OwnVerbs'
  BY DEF OwnVerbs
<1> QED
  BY <1>1, <1>2, <1>3 DEF Unmoved

\* db_add_verb() and what else calls db_priv_affected_callable_verb_lookup()
LEMMA VerbsBecomeClears ==
  ASSUME Hierarchy, OwnVerbs, NEW x \in objects, NEW list \in Seq(Verbdefs), VerbsBecome(x, list)
  PROVE  Cleared
<1>1. x \in Nums /\ verbs' = [verbs EXCEPT ![x] = list] /\ objects' = objects
  BY DEF VerbsBecome, Hierarchy
<1>2. OwnVerbs'
  BY <1>1 DEF OwnVerbs, Tables
<1> QED
  BY <1>2 DEF VerbsBecome, db_priv_affected_callable_verb_lookup, Cleared

\* A verb that is made or changed, unless the comparison of names does not end
LEMMA CheckedClears ==
  ASSUME Hierarchy, OwnVerbs, NEW x \in objects, NEW list \in Seq(Verbdefs), NEW f, NEW g,
         Checked(f, g, VerbsBecome(x, list))
  PROVE  Cleared \/ UNCHANGED <<objects, family, verb_vars>>
BY VerbsBecomeClears DEF Checked, Panics

\* validate_verb_info() makes verbs of the kinds there are.
LEMMA VerbOfIsVerbdef ==
  ASSUME NEW kind \in Kinds, NEW who \in Nums
  PROVE  VerbOf(kind, who) \in Verbdefs
BY VerbAssumption DEF VerbOf, Verbdefs

\* bf_add_verb()
LEMMA MakeVerbClears ==
  ASSUME Hierarchy, OwnVerbs, MakeVerb
  PROVE  Cleared \/ UNCHANGED <<objects, family, verb_vars>>
<1>1. PICK x \in Nums, kind \in Kinds, who \in Owners : AddVerb(x, kind, who)
  BY DEF MakeVerb
<1>2. x \in objects /\ who \in Nums
  BY <1>1 DEF AddVerb, Hierarchy
<1>3. verbs[x] \in Seq(Verbdefs) /\ VerbOf(kind, who) \in Verbdefs
  BY <1>2, VerbOfIsVerbdef DEF OwnVerbs, Tables
<1>4. Append(verbs[x], VerbOf(kind, who)) \in Seq(Verbdefs)
  BY <1>3
<1> QED
  BY <1>1, <1>2, <1>4, CheckedClears DEF AddVerb

\* bf_delete_verb(), bf_set_verb_args() and bf_set_verb_info()
LEMMA ChangeVerbsClears ==
  ASSUME Hierarchy, OwnVerbs, ChangeVerbs
  PROVE  Cleared \/ UNCHANGED <<objects, family, verb_vars>>
<1>1. PICK x \in Nums, i \in 1..MAX_VERBS :
        \/ DeleteVerb(x, i)
        \/ SetVerbArgs(x, i)
        \/ \E kind \in Kinds, who \in Owners : SetVerbInfo(x, i, kind, who)
  BY DEF ChangeVerbs
<1>2. PICK list \in Seq(Verbdefs) : list = verbs[x]
  BY DEF OwnVerbs, Tables
<1>3. CASE DeleteVerb(x, i)
  <2>1. i \in 1..Len(list) /\ x \in objects /\ VerbsBecome(x, RemoveAt(list, i))
    BY <1>2, <1>3 DEF DeleteVerb
  <2>2. RemoveAt(list, i) \in Seq(Verbdefs)
    <3>1. PICK n \in Nat : n = Len(list) /\ i \in 1..n
      BY <2>1
    <3>2. SubSeq(list, 1, i - 1) \in Seq(Verbdefs)
      BY <3>1
    <3>3. SubSeq(list, i + 1, Len(list)) \in Seq(Verbdefs)
      BY <3>1
    <3> QED
      BY <3>2, <3>3 DEF RemoveAt
  <2> QED
    BY <2>1, <2>2, VerbsBecomeClears
<1>4. CASE SetVerbArgs(x, i)
  BY <1>2, <1>4, VerbsBecomeClears DEF SetVerbArgs
<1>5. CASE \E kind \in Kinds, who \in Owners : SetVerbInfo(x, i, kind, who)
  <2>1. PICK kind \in Kinds, who \in Owners : SetVerbInfo(x, i, kind, who)
    BY <1>5
  <2>2. x \in objects /\ who \in Nums
    BY <2>1 DEF SetVerbInfo, Hierarchy
  <2>3. [list EXCEPT ![i] = VerbOf(kind, who)] \in Seq(Verbdefs)
    <3>1. PICK v \in Verbdefs : v = VerbOf(kind, who)
      BY <2>2, VerbOfIsVerbdef
    <3>2. i \in DOMAIN list
      BY <2>1, <1>2 DEF SetVerbInfo
    <3>3. [list EXCEPT ![i] = v] \in Seq(Verbdefs)
      BY <3>2
    <3> QED
      BY <3>1, <3>3
  <2> QED
    BY <2>1, <2>2, <2>3, <1>2, CheckedClears DEF SetVerbInfo
<1> QED
  BY <1>1, <1>3, <1>4, <1>5

\* db_renumber_object() and db_create_object_with_num(): verbs go along.
LEMMA RenumberedVerbs ==
  ASSUME OwnVerbs, NEW old, NEW new \in Nums \ objects, VerbsRenumbered(old, new)
  PROVE  /\ verbs' \in Tables
         /\ \A x \in Nums : x # new /\ (x = old \/ x \notin objects) => verbs'[x] = <<>>
<1> DEFINE r(list) == [i \in DOMAIN list |-> [list[i] EXCEPT !.owner = OwnerAfter(@, old, new)]]
<1>1. \A list \in Seq(Verbdefs) : r(list) \in Seq(Verbdefs)
  <2>1. SUFFICES ASSUME NEW list \in Seq(Verbdefs) PROVE r(list) \in Seq(Verbdefs)
    OBVIOUS
  <2>2. ASSUME NEW v \in Verbdefs
        PROVE  [v EXCEPT !.owner = OwnerAfter(@, old, new)] \in Verbdefs
    <3>1. v.owner \in Nums \cup {NOTHING}
      BY DEF Verbdefs
    <3>2. OwnerAfter(v.owner, old, new) \in Nums \cup {NOTHING}
      BY <3>1 DEF OwnerAfter
    <3> QED
      BY <3>2 DEF Verbdefs
  <2>3. DOMAIN list = 1..Len(list) /\ Len(list) \in Nat /\ \A i \in 1..Len(list) : list[i] \in Verbdefs
    OBVIOUS
  <2>4. r(list) \in [1..Len(list) -> Verbdefs]
    BY <2>2, <2>3
  <2> QED
    BY <2>3, <2>4, SeqDef
<1>2. r(<<>>) = <<>>
  <2>1. DOMAIN <<>> = {}
    OBVIOUS
  <2>2. r(<<>>) \in Seq(Verbdefs) /\ DOMAIN r(<<>>) = {}
    BY <1>1, <2>1
  <2> QED
    BY <2>2
<1>3. verbs' = [x \in Nums |-> IF x = old THEN <<>>
                               ELSE IF x # new THEN r(verbs[x])
                               ELSE IF old \in Nums THEN r(verbs[old]) ELSE <<>>]
  BY DEF VerbsRenumbered
<1>4. \A x \in Nums : verbs[x] \in Seq(Verbdefs)
  BY DEF OwnVerbs, Tables
<1>5. <<>> \in Seq(Verbdefs)
  OBVIOUS
<1> HIDE DEF r
<1>6. verbs' \in Tables
  BY <1>1, <1>3, <1>4, <1>5 DEF Tables
<1>7. \A x \in Nums : x # new /\ (x = old \/ x \notin objects) => verbs'[x] = <<>>
  BY <1>2, <1>3 DEF OwnVerbs
<1> QED
  BY <1>6, <1>7

\* After which every object with verbs has them under its number, and no other has any.
LEMMA RenumberedClears ==
  ASSUME OwnVerbs, NEW old, NEW new \in Nums \ objects, VerbsRenumbered(old, new),
         new \in objects', \A x \in objects : x \in objects' \/ x = old
  PROVE  Cleared
<1>1. OwnVerbs'
  BY RenumberedVerbs DEF OwnVerbs
<1> QED
  BY <1>1 DEF VerbsRenumbered, db_priv_affected_callable_verb_lookup, Cleared

\* A new object has no verbs and is on no way up.
LEMMA NewIsUnmoved ==
  ASSUME Hierarchy, OwnVerbs, ObjectInv, NEW x \in Nums \ objects, NEW parent,
         NewObject(x, parent), UNCHANGED <<verbs, vc_table>>, answer' = NoAnswer
  PROVE  Unmoved
<1>1. family \in Trees /\ parent \in Nums \cup {NOTHING} /\ x \in Nums
  BY DEF Hierarchy, GoodTree, NewObject
<1>2. Fresh(family, x) \in Trees /\ \A z \in Nums : z # x => Fresh(family, x).up[z] = family.up[z]
  BY <1>1 DEF Fresh, Trees
<1>3. \A z \in Nums : z # x => family'.up[z] = family.up[z]
  BY <1>1, <1>2, MovedLinks DEF NewObject
<1>4. \A z \in objects : z # x /\ z \in Nums /\ family.up[z] \in objects \cup {NOTHING}
  BY LinksOf DEF Hierarchy
<1>5. HaveVerbs(verbs) \subseteq objects /\ objects \in SUBSET Nums
  BY DEF HaveVerbs, OwnVerbs, Hierarchy
<1>6. OwnVerbs'
  BY DEF OwnVerbs, NewObject
<1> QED
  BY <1>3, <1>4, <1>5, <1>6 DEF Unmoved

\* bf_create() and its two patched forms
LEMMA CreateVerbs ==
  ASSUME Hierarchy, OwnVerbs, ObjectInv, NEW parent \in Nums \cup {NOTHING}, NEW who,
         \/ CreateObject(parent, who)
         \/ CreateObjectAndRenumber(parent, who)
         \/ \E num \in Nums : CreateObjectWithId(num, parent, who)
  PROVE  Cleared \/ Unmoved
<1>1. ASSUME VerbsStay PROVE UNCHANGED <<verbs, vc_table>> /\ answer' = NoAnswer
  BY <1>1 DEF VerbsStay
<1>2. ASSUME Create(parent), VerbsStay PROVE Unmoved
  <2>1. num_objects \in Nums \ objects /\ NewObject(num_objects, parent)
    <3>1. num_objects \in Nat /\ objects \subseteq 0..(num_objects - 1)
      BY ObjectAssumption DEF ObjectInv, TypeOK
    <3> QED
      BY <3>1, <1>2 DEF Create
  <2> QED
    BY <1>1, <1>2, <2>1, NewIsUnmoved
<1>3. ASSUME NEW x \in Nums \ objects, NewObject(x, parent), BornAndRenumbered(x, parent, who)
      PROVE  Cleared
  <2>1. objects' = objects \cup {x} /\ VerbsRenumbered(num_objects, x)
    BY <1>3 DEF NewObject, BornAndRenumbered
  <2> QED
    BY <2>1, RenumberedClears
<1>4. CASE CreateObject(parent, who)
  BY <1>2, <1>4 DEF CreateObject
<1>5. CASE CreateObjectAndRenumber(parent, who)
  <2>1. PICK x \in objects' \ objects :
          IF x = num_objects THEN Born(x, parent, who, owner, decr_quota(who)) /\ VerbsStay
          ELSE BornAndRenumbered(x, parent, who)
    BY <1>5 DEF CreateObjectAndRenumber
  <2>2. \/ Create(parent)
        \/ \E y \in Free : NewObject(y, parent)
    BY <1>5 DEF CreateObjectAndRenumber, CreateAndRenumber
  <2>3. CASE Create(parent)
    <3>1. x = num_objects
      BY <2>1, <2>3 DEF Create, NewObject
    <3> QED
      BY <2>1, <2>3, <3>1, <1>2
  <2>4. CASE \E y \in Free : NewObject(y, parent)
    <3>1. PICK y \in Free : NewObject(y, parent)
      BY <2>4
    <3>2. y = x
      BY <2>1, <3>1 DEF NewObject
    <3>3. num_objects \in 0..(MaxObject + 1) /\ y \in 0..(num_objects - 1) /\ y \notin objects
      BY <3>1 DEF Free, ObjectInv, TypeOK
    <3>4. y \in Nums /\ y # num_objects
      <4>1. PICK n \in Nat, m \in Nat : n = num_objects /\ m = MaxObject /\ n <= m + 1
        BY <3>3, ObjectAssumption
      <4> QED
        BY <4>1, <3>3 DEF Nums
    <3> QED
      BY <2>1, <3>1, <3>2, <3>3, <3>4, <1>3
  <2> QED
    BY <2>2, <2>3, <2>4
<1>6. ASSUME NEW num \in Nums, CreateObjectWithId(num, parent, who)
      PROVE  Cleared \/ Unmoved
  <2>1. CASE num \in objects'
    <3>1. num \notin objects /\ BornAndRenumbered(num, parent, who) /\ CreateWithId(num, parent)
      BY <1>6, <2>1 DEF CreateObjectWithId, CreateWithId
    <3>2. NewObject(num, parent)
      BY <2>1, <3>1 DEF CreateWithId, Panics
    <3> QED
      BY <3>1, <3>2, <1>3
  <2>2. CASE num \notin objects'
    <3>1. VerbsStay /\ CreateWithId(num, parent)
      BY <1>6, <2>2 DEF CreateObjectWithId
    <3>2. UNCHANGED <<objects, family>>
      BY <2>2, <3>1 DEF CreateWithId, Panics, NewObject
    <3> QED
      BY <3>1, <3>2, <1>1, StaysIsUnmoved
  <2> QED
    BY <2>1, <2>2
<1> QED
  BY <1>4, <1>5, <1>6

\* db_change_parent(): the cache is kept when the object has neither children nor verbs,
\* so that it is neither a key nor on the way up from one.
LEMMA ChangeParentVerbs ==
  ASSUME Hierarchy, OwnVerbs, NEW what \in Nums, NEW parent \in Nums \cup {NOTHING},
         ChangeParent(what, parent)
  PROVE  Cleared \/ Unmoved
<1>1. what \in objects
  BY DEF ChangeParent
<1>2. CASE Panics("loop") /\ VerbsStay
  BY <1>2, StaysIsUnmoved DEF Panics, VerbsStay
<1>3. CASE Chparent(what, parent) /\ db_change_parent_clears(what) /\ UNCHANGED verbs
  <2>1. family' = Moved(family, what, parent) /\ objects' = objects
    BY <1>3 DEF Chparent
  <2>2. OwnVerbs'
    BY <2>1, <1>3 DEF OwnVerbs
  <2>3. CASE family.down[what] = {} /\ verbs[what] = <<>>
    <3>0. objects \in SUBSET Nums /\ GoodTree(objects, family) /\ family \in Trees
      BY DEF Hierarchy, GoodTree
    <3>1. \A z \in Nums : z # what => family'.up[z] = family.up[z]
      <4>1. \A z \in Nums : Moved(family, what, parent).up[z] = IF z = what THEN parent ELSE family.up[z]
        BY <3>0, MovedLinks
      <4> QED
        BY <4>1, <2>1
    <3>2. \A z \in objects : family.up[z] \in objects \cup {NOTHING} /\ family.up[z] # what
      <4>1. \A z : z \in family.down[what] <=> z \in objects /\ family.up[z] = what
        BY <3>0, DownOf
      <4> QED
        BY <4>1, <3>0, <2>3, LinksOf
    <3>3. HaveVerbs(verbs) \subseteq objects \ {what} /\ objects \ {what} \in SUBSET Nums
      BY <2>3 DEF HaveVerbs, OwnVerbs, Hierarchy
    <3>4. UNCHANGED <<verbs, vc_table>> /\ answer' = NoAnswer
      BY <1>3, <2>3 DEF db_change_parent_clears
    <3>5. \A z \in objects \ {what} : /\ family'.up[z] = family.up[z]
                                      /\ family.up[z] \in (objects \ {what}) \cup {NOTHING}
      BY <3>1, <3>2 DEF Hierarchy
    <3> QED
      BY <3>3, <3>4, <3>5, <2>2 DEF Unmoved
  <2>4. CASE ~(family.down[what] = {} /\ verbs[what] = <<>>)
    BY <2>2, <2>4, <1>3 DEF db_change_parent_clears, db_priv_affected_callable_verb_lookup, Cleared
  <2> QED
    BY <2>3, <2>4
<1> QED
  BY <1>2, <1>3 DEF ChangeParent

\* db_renumber_object()
LEMMA RenumberVerbs ==
  ASSUME Hierarchy, OwnVerbs, ObjectInv, NEW old \in Nums, RenumberObject(old)
  PROVE  Cleared
<1>1. PICK new \in objects' \ objects : VerbsRenumbered(old, new)
  BY DEF RenumberObject
<1>2. PICK n \in Free : /\ n < old
                        /\ \/ objects' = (objects \ {old}) \cup {n}
                           \/ objects' = objects
  BY DEF RenumberObject, Renumber, Panics
<1>3. n = new /\ objects' = (objects \ {old}) \cup {new}
  BY <1>1, <1>2
<1>4. new \in Nums
  <2>1. old \in objects /\ new < old /\ new \in Nat /\ old \in Nat
    BY <1>2, <1>3 DEF RenumberObject, Renumber, Nums, Free
  <2>2. old \in 0..MaxObject
    BY DEF Nums
  <2> QED
    BY <2>1, <2>2, ObjectAssumption DEF Nums
<1> QED
  BY <1>1, <1>3, <1>4, RenumberedClears

\* bf_recycle()
LEMMA RecycleVerbs ==
  ASSUME Hierarchy, OwnVerbs, NEW i \in Slots, RecycleObject(i)
  PROVE  Cleared \/ Unmoved
<1>1. PICK x : x = calls[i].what
  OBVIOUS
<1>2. CASE Panics("loop") /\ VerbsStay
  BY <1>2, StaysIsUnmoved DEF Panics, VerbsStay
<1>3. CASE RecycleDestroys(i) /\ VerbsDestroyed(x)
  <2>1. verbs' = [verbs EXCEPT ![x] = <<>>]
    BY <1>3 DEF VerbsDestroyed
  <2>2. objects' = objects \/ objects' = objects \ {x}
    BY <1>1, <1>3 DEF RecycleDestroys, Panics
  <2>3. <<>> \in Seq(Verbdefs)
    OBVIOUS
  <2>4. OwnVerbs'
    BY <2>1, <2>2, <2>3 DEF OwnVerbs, Tables
  <2> QED
    BY <2>4, <1>3 DEF VerbsDestroyed, db_priv_affected_callable_verb_lookup, Cleared
<1> QED
  BY <1>1, <1>2, <1>3 DEF RecycleObject

\* The steps that leave parents and verbs alone
LEMMA OtherStepsObjects ==
  ASSUME ChangeProperties \/ NumbersAndCalls \/ \E who \in Owners : CreateWithIdRefused(who)
  PROVE  VerbsStay /\ UNCHANGED <<objects, family>>
<1>1. VerbsStay
  BY DEF ChangeProperties, NumbersAndCalls, CreateWithIdRefused
<1>2. ASSUME ChangeProperties PROVE UNCHANGED <<objects, family>>
  <2>1. ASSUME NEW slots, SlotsBecome(slots) PROVE UNCHANGED <<objects, family>>
    BY <2>1 DEF SlotsBecome
  <2>2. ASSUME NEW x, NEW name, DeleteProperty(x, name) \/ ClearProperty(x, name)
        PROVE  UNCHANGED <<objects, family>>
    BY <2>1, <2>2 DEF DeleteProperty, ClearProperty
  <2>3. ASSUME NEW x, NEW name, NEW value, SetProperty(x, name, value)
        PROVE  UNCHANGED <<objects, family>>
    BY <2>1, <2>3 DEF SetProperty
  <2>4. ASSUME NEW x, NEW name, NEW value, NEW who, NEW chown, AddProperty(x, name, value, who, chown)
        PROVE  UNCHANGED <<objects, family>>
    BY <2>1, <2>4 DEF AddProperty
  <2>5. ASSUME NEW x, NEW name, NEW who, NEW chown, SetPropertyInfo(x, name, who, chown)
        PROVE  UNCHANGED <<objects, family>>
    BY <2>1, <2>5 DEF SetPropertyInfo
  <2>6. ASSUME NEW x, NEW name, NEW new, NEW who, NEW chown, RenameProperty(x, name, new, who, chown)
        PROVE  UNCHANGED <<objects, family>>
    BY <2>1, <2>6 DEF RenameProperty
  <2> QED
    BY <1>2, <2>2, <2>3, <2>4, <2>5, <2>6 DEF ChangeProperties
<1>3. ASSUME NumbersAndCalls PROVE UNCHANGED <<objects, family>>
  BY <1>3 DEF NumbersAndCalls, ResetMaxObject, Recycle, Begins, GiveUp
<1>4. ASSUME NEW who, CreateWithIdRefused(who) PROVE UNCHANGED <<objects, family>>
  BY <1>4 DEF CreateWithIdRefused
<1> QED
  BY <1>1, <1>2, <1>3, <1>4

\* So the cache has no reason to change.
LEMMA OtherStepsVerbs ==
  ASSUME Hierarchy, OwnVerbs,
         ChangeProperties \/ NumbersAndCalls \/ \E who \in Owners : CreateWithIdRefused(who)
  PROVE  Unmoved
BY OtherStepsObjects, StaysIsUnmoved DEF VerbsStay

\* db_find_callable_verb(): the cache says what the search would find.
LEMMA SearchFinds ==
  ASSUME DbInv, NEW x \in Nums, NEW word \in Words, Search(x, word)
  PROVE  Sought
<1>1. Hierarchy /\ OwnVerbs /\ CacheOK /\ verbs \in Tables
  BY DEF DbInv, OwnVerbs
<1>2. objects \in SUBSET Nums /\ GoodTree(objects, family)
  BY <1>1 DEF Hierarchy
<1>3. x \in objects /\ UNCHANGED <<objects, family, verbs>>
  BY DEF Search, Call
<1>4. PICK key : key = first_parent_with_verbs(x)
  OBVIOUS
<1>5. key = Nearest(family, HaveVerbs(verbs), x) /\ key \in HaveVerbs(verbs) \cup {NOTHING}
  BY <1>2, <1>4, KeyIsNearest, NearestIsOne
<1>6. key \in Nums \cup {NOTHING}
  BY <1>5 DEF HaveVerbs
<1>7. PICK found :
        /\ found = IF vc_table[<<key, word>>] # Unknown THEN vc_table[<<key, word>>]
                   ELSE search(Line(family, key), word)
        /\ vc_table' = [vc_table EXCEPT ![<<key, word>>] = found]
        /\ answer' = [from |-> x, word |-> word, handle |-> found]
  BY <1>4 DEF Search, Call, db_find_callable_verb
<1>8. found = Finding(family, verbs, word, key)
  <2>1. CASE vc_table[<<key, word>>] # Unknown
    BY <2>1, <1>1, <1>6, <1>7 DEF CacheOK
  <2>2. CASE vc_table[<<key, word>>] = Unknown
    BY <2>2, <1>2, <1>6, <1>7, SearchIsFinding
  <2> QED
    BY <2>1, <2>2
<1>9. Finding(family, verbs, word, key) = Finding(family, verbs, word, x)
  <2>1. Answering(verbs, word) \subseteq HaveVerbs(verbs)
    BY <1>1, AnsweringHaveVerbs
  <2>2. Nearest(family, Answering(verbs, word), key) = Nearest(family, Answering(verbs, word), x)
    BY <2>1, <1>2, <1>5, KeySuffices
  <2> QED
    BY <2>2 DEF Finding
<1>10. CacheOK'
  <2>1. found \in [definer : Nums \cup {NOTHING}, index : Int]
    BY <1>1, <1>2, <1>6, <1>8, FindingIsHandle
  <2>2. vc_table' \in Caches
    BY <2>1, <1>1, <1>7 DEF CacheOK, Caches
  <2>3. ASSUME NEW k \in Nums \cup {NOTHING}, NEW w \in Words, vc_table'[<<k, w>>] # Unknown
        PROVE  /\ k \in HaveVerbs(verbs) \cup {NOTHING}
               /\ vc_table'[<<k, w>>] = Finding(family, verbs, w, k)
    <3>1. <<key, word>> \in (Nums \cup {NOTHING}) \X Words /\ <<k, w>> \in (Nums \cup {NOTHING}) \X Words
      BY <1>6
    <3>2. CASE k = key /\ w = word
      BY <3>1, <3>2, <1>1, <1>5, <1>7, <1>8 DEF CacheOK, Caches
    <3>3. CASE ~(k = key /\ w = word)
      <4>1. <<k, w>> # <<key, word>>
        BY <3>3
      <4>2. vc_table'[<<k, w>>] = vc_table[<<k, w>>]
        BY <4>1, <3>1, <1>1, <1>7 DEF CacheOK, Caches
      <4> QED
        BY <4>2, <2>3, <1>1 DEF CacheOK
    <3> QED
      BY <3>2, <3>3
  <2> QED
    BY <2>2, <2>3, <1>3 DEF CacheOK
<1> QED
  BY <1>3, <1>7, <1>8, <1>9, <1>10 DEF Sought

\* find_verb()
LEMMA FindFinds ==
  ASSUME DbInv, NEW x \in Nums, NEW word \in Words, Find(x, word)
  PROVE  Sought
<1>1. /\ x \in objects
      /\ answer' = [from |-> x, word |-> word, handle |-> bf_find_verb(x, word, TRUE)]
      /\ UNCHANGED <<objects, family, verbs, vc_table>>
  BY DEF Find, FindVerb
<1>2. objects \in SUBSET Nums /\ GoodTree(objects, family) /\ verbs \in Tables /\ CacheOK
  BY DEF DbInv, Hierarchy, OwnVerbs
<1>3. bf_find_verb(x, word, TRUE) = Finding(family, verbs, word, x)
  BY <1>2, FindVerbFinds
<1>4. CacheOK'
  BY <1>1, <1>2 DEF CacheOK
<1> QED
  BY <1>1, <1>3, <1>4 DEF Sought

\* Each step is one of these.
LEMMA DbStepVerbs ==
  ASSUME DbInv, DbStep
  PROVE  Sought \/ Cleared \/ Unmoved \/ UNCHANGED <<objects, family, verb_vars>>
<1>1. Hierarchy /\ OwnVerbs /\ ObjectInv
  BY NextHierarchy DEF DbInv
<1>2. ASSUME NEW x \in Nums, NEW word \in Words, Search(x, word) \/ Find(x, word) PROVE Sought
  BY <1>2, SearchFinds, FindFinds
<1>3. CASE MakeVerb \/ ChangeVerbs
  BY <1>1, <1>3, MakeVerbClears, ChangeVerbsClears
<1>4. CASE ChangeProperties \/ NumbersAndCalls \/ \E who \in Owners : CreateWithIdRefused(who)
  BY <1>1, <1>4, OtherStepsVerbs
<1>5. ASSUME NEW parent \in Nums \cup {NOTHING}, NEW who,
             \/ CreateObject(parent, who)
             \/ CreateObjectAndRenumber(parent, who)
             \/ \E num \in Nums : CreateObjectWithId(num, parent, who)
      PROVE  Cleared \/ Unmoved
  BY <1>1, <1>5, CreateVerbs
<1>6. ASSUME NEW what \in Nums, NEW parent \in Nums \cup {NOTHING}, ChangeParent(what, parent)
      PROVE  Cleared \/ Unmoved
  BY <1>1, <1>6, ChangeParentVerbs
<1>7. ASSUME NEW old \in Nums, RenumberObject(old) PROVE Cleared
  BY <1>1, <1>7, RenumberVerbs
<1>8. ASSUME NEW i \in Slots, RecycleObject(i) PROVE Cleared \/ Unmoved
  BY <1>1, <1>8, RecycleVerbs
<1> QED
  BY <1>2, <1>3, <1>4, <1>5, <1>6, <1>7, <1>8 DEF DbStep

\* The cache stays good: the ways up from all of its keys are what they were.
LEMMA UnmovedCache ==
  ASSUME Hierarchy, OwnVerbs, CacheOK, Hierarchy', Unmoved
  PROVE  CacheOK'
<1>1. PICK Z \in SUBSET Nums :
        /\ HaveVerbs(verbs) \subseteq Z
        /\ \A z \in Z : family'.up[z] = family.up[z] /\ family.up[z] \in Z \cup {NOTHING}
  BY DEF Unmoved
<1>2. /\ objects \in SUBSET Nums /\ GoodTree(objects, family)
      /\ objects' \in SUBSET Nums /\ GoodTree(objects', family')
  BY DEF Hierarchy
<1>3. ASSUME NEW key \in HaveVerbs(verbs) \cup {NOTHING}, NEW word
      PROVE  Finding(family', verbs, word, key) = Finding(family, verbs, word, key)
  <2>1. CASE key = NOTHING
    BY <2>1, <1>2, NearestUp DEF Finding
  <2>2. CASE key \in HaveVerbs(verbs)
    <3>1. Nearest(family', Answering(verbs, word), key) = Nearest(family, Answering(verbs, word), key)
      BY <2>2, <1>1, <1>2, SameWayUp
    <3> QED
      BY <3>1 DEF Finding
  <2> QED
    BY <2>1, <2>2
<1>4. verbs' = verbs /\ vc_table' = vc_table
  BY DEF Unmoved
<1> QED
  BY <1>3, <1>4 DEF CacheOK

\* Every step keeps the invariant, and is a step of the abstract specification.
LEMMA NextDbInv == DbInv /\ [DbNext]_db_vars => DbInv' /\ [Lookup!Next]_Lookup!vars
<1> SUFFICES ASSUME DbInv, [DbNext]_db_vars PROVE DbInv' /\ [Lookup!Next]_Lookup!vars
  OBVIOUS
<1>1. Hierarchy /\ OwnVerbs /\ CacheOK
  BY DEF DbInv
<1>2. CASE UNCHANGED db_vars
  <2>1. UNCHANGED <<objects, num_objects, family, place, calls, panic, verbs, vc_table, answer>>
    BY <1>2 DEF db_vars, verb_vars
  <2>2. Hierarchy' /\ OwnVerbs' /\ CacheOK'
    BY <2>1, <1>1 DEF Hierarchy, OwnVerbs, CacheOK, ObjectInv, TypeOK, NoAssertionFails
  <2> QED
    BY <2>1, <2>2 DEF DbInv, Lookup!vars
<1>3. CASE DbStep
  <2>1. Hierarchy'
    BY <1>1, <1>3, NextHierarchy
  <2>2. CASE Sought
    <3>1. OwnVerbs' /\ CacheOK'
      BY <2>2, <1>1 DEF Sought, OwnVerbs
    <3>2. Lookup!IsTheVerb(answer'.from, answer'.word, Finding(family, verbs, answer'.word, answer'.from))
      BY <2>2, <1>1, FindingIsTheVerb DEF Sought, Hierarchy, OwnVerbs
    <3>3. Lookup!Find
      BY <2>2, <3>2 DEF Sought, Lookup!Find
    <3> QED
      BY <2>1, <3>1, <3>3 DEF DbInv, Lookup!Next
  <2>3. CASE Cleared
    <3>1. CacheOK'
      BY <2>3, EmptyCacheOK DEF Cleared, CacheOK
    <3> QED
      BY <2>1, <2>3, <3>1 DEF Cleared, DbInv, Lookup!Next, Lookup!Change
  <2>4. CASE Unmoved
    <3>1. CacheOK'
      BY <2>1, <2>4, <1>1, UnmovedCache
    <3> QED
      BY <2>1, <2>4, <3>1 DEF Unmoved, DbInv, Lookup!Next, Lookup!Change
  <2>5. CASE UNCHANGED <<objects, family, verb_vars>>
    <3>1. UNCHANGED <<objects, family, verbs, vc_table, answer>>
      BY <2>5 DEF verb_vars
    <3>2. OwnVerbs' /\ CacheOK'
      BY <3>1, <1>1 DEF OwnVerbs, CacheOK
    <3> QED
      BY <2>1, <3>1, <3>2 DEF DbInv, Lookup!vars
  <2> QED
    BY <1>3, <2>2, <2>3, <2>4, <2>5, DbStepVerbs
<1> QED
  BY <1>2, <1>3 DEF DbNext

-----------------------------------------------------------------------------
(* The protection of verbs.  What follows is about two states of the hierarchy and of the *)
(* verbs, before and after a step.                                                        *)

\* A word answers to both.
Clash(names, others) == \E word \in Words : verbcasecmp(names, word) /\ verbcasecmp(others, word)

\* InPlaceOf and Overrides, of any hierarchy, verbs and wizards
Answerable(w, v, wz) == v.not_o /\ w.owner \notin wz \cup {v.owner} /\ Clash(v.names, w.names)

OverriddenAt(t, vs, wz, x, y, o) ==
  \E v \in ToSet(vs[x]), w \in ToSet(vs[y]) :
    Answerable(w, v, wz) /\ o = <<x, v.names, v.owner, y, w.names, w.owner>>

Overridden(O, t, vs, wz, o) ==
  \E x \in O, y \in O : /\ x # y
                        /\ x \in Above(t, y)
                        /\ OverriddenAt(t, vs, wz, x, y, o)

\* The loops over o->parent come to the ancestors and to nothing else.
LEMMA LineIsAbove ==
  ASSUME NEW O \in SUBSET Nums, NEW t, GoodTree(O, t), NEW x \in Nums
  PROVE  ToSet(Line(t, x)) = Above(t, x)
<1>1. \A z \in Nums : t.up[z] \in Nums \cup {NOTHING}
  BY LinksOf
<1>2. ASSUME NEW s \in Seq(Nums), NEW z \in Nums
      PROVE  ToSet(<<z>> \o s) = {z} \cup ToSet(s)
  <2>1. PICK r : r = <<z>> \o s
    OBVIOUS
  <2>6. /\ r \in Seq(Nums)
        /\ Len(r) = Len(s) + 1
        /\ r[1] = z
        /\ \A i \in 1..Len(s) : r[i + 1] = s[i]
    BY <2>1
  <2>2. DOMAIN r = 1..Len(r) /\ DOMAIN s = 1..Len(s) /\ Len(s) \in Nat
    BY <2>6
  <2>3. ASSUME NEW e \in ToSet(r) PROVE e \in {z} \cup ToSet(s)
    <3>1. PICK i \in 1..Len(r) : e = r[i]
      BY <2>2, <2>3 DEF ToSet
    <3>2. CASE i = 1
      BY <3>1, <3>2, <2>6
    <3>3. CASE i # 1
      <4>1. i - 1 \in 1..Len(s) /\ (i - 1) + 1 = i
        BY <3>3, <2>6, <2>2
      <4>2. e = s[i - 1]
        BY <3>1, <4>1, <2>6
      <4> QED
        BY <4>1, <4>2, <2>2 DEF ToSet
    <3> QED
      BY <3>2, <3>3
  <2>4. z \in ToSet(r)
    BY <2>6, <2>2 DEF ToSet
  <2>5. ASSUME NEW e \in ToSet(s) PROVE e \in ToSet(r)
    <3>1. PICK i \in 1..Len(s) : e = s[i]
      BY <2>2, <2>5 DEF ToSet
    <3>2. r[i + 1] = e /\ i + 1 \in 1..Len(r)
      BY <3>1, <2>6, <2>2
    <3> QED
      BY <3>2, <2>2 DEF ToSet
  <2> QED
    BY <2>1, <2>3, <2>4, <2>5
<1>3. ASSUME NEW z \in Nums
      PROVE  ToSet(Line(t, z)) = {z} \cup ToSet(Line(t, t.up[z])) /\ ToSet(Line(t, z)) \subseteq Nums
  <2>1. PICK s \in Seq(Nums) : s = Line(t, t.up[z]) /\ Line(t, z) = <<z>> \o s
    BY <1>1, <1>3, LineUp, ZenonT(40)
  <2>2. Line(t, z) \in Seq(Nums)
    BY LineUp
  <2>3. ToSet(Line(t, z)) \subseteq Nums
    BY <2>2 DEF ToSet
  <2> QED
    BY <2>1, <2>3, <1>2
<1>4. ToSet(Line(t, NOTHING)) = {}
  <2>1. Line(t, NOTHING) = <<>>
    BY LineUp
  <2> QED
    BY <2>1 DEF ToSet
<1>5. \A z \in Nums : z \in Above(t, z)
  BY DEF Above
<1>6. ASSUME NEW z \in Nums, t.up[z] \in Nums
      PROVE  Above(t, t.up[z]) \subseteq Above(t, z)
  BY <1>6, NothingIsNoNumber DEF Above
<1> DEFINE S == {z \in Nums : ToSet(Line(t, z)) \subseteq Above(t, z)}
           A == {z \in Nums : \A y \in ToSet(Line(t, z)) : t.up[y] \in ToSet(Line(t, z)) \cup {NOTHING}}
<1>7. ASSUME NEW z \in Nums, t.up[z] \in S \cup {NOTHING} PROVE z \in S
  BY <1>3, <1>4, <1>5, <1>6, <1>7
<1>8. ASSUME NEW z \in Nums, t.up[z] \in A \cup {NOTHING} PROVE z \in A
  <2>1. CASE t.up[z] = NOTHING
    BY <2>1, <1>3, <1>4
  <2>2. CASE t.up[z] \in A
    <3>1. t.up[z] \in Nums /\ t.up[z] \in ToSet(Line(t, t.up[z]))
      BY <2>2, <1>3
    <3> QED
      BY <2>2, <3>1, <1>3
  <2> QED
    BY <1>8, <2>1, <2>2
<1>9. Nums \subseteq S /\ Nums \subseteq A
  <2> HIDE DEF S, A
  <2> QED
    BY <1>7, <1>8, UpInduction
<1>10. Above(t, x) \subseteq ToSet(Line(t, x))
  <2>1. x \in ToSet(Line(t, x)) /\ ToSet(Line(t, x)) \in SUBSET Nums
    BY <1>3
  <2>2. \A y \in ToSet(Line(t, x)) : t.up[y] \in ToSet(Line(t, x)) \cup {NOTHING}
    BY <1>9
  <2> QED
    BY <2>1, <2>2 DEF Above
<1> QED
  BY <1>9, <1>10

\* An ancestor other than the object itself is its parent or above that.
LEMMA AboveParent ==
  ASSUME NEW O \in SUBSET Nums, NEW t, GoodTree(O, t), NEW x \in Nums, NEW a \in Above(t, x), a # x
  PROVE  t.up[x] \in Nums /\ a \in Above(t, t.up[x])
<1>1. t.up[x] \in Nums \cup {NOTHING} /\ \A z \in Nums : t.up[z] \in Nums \cup {NOTHING}
  BY LinksOf
<1>2. ASSUME t.up[x] = NOTHING PROVE FALSE
  <2>1. {x} \in SUBSET Nums /\ x \in {x} /\ \A z \in {x} : t.up[z] \in {x} \cup {NOTHING}
    BY <1>2
  <2> QED
    BY <2>1 DEF Above
<1>3. ASSUME NEW Z \in SUBSET Nums, t.up[x] \in Z, \A z \in Z : t.up[z] \in Z \cup {NOTHING}
      PROVE  a \in Z
  <2>1. Z \cup {x} \in SUBSET Nums /\ \A z \in Z \cup {x} : t.up[z] \in (Z \cup {x}) \cup {NOTHING}
    BY <1>3
  <2> QED
    BY <2>1 DEF Above
<1> QED
  BY <1>1, <1>2, <1>3 DEF Above

\* db_change_parent(): what is above an object afterwards was, or is above the new parent of
\* one that is above it.
LEMMA AboveMoved ==
  ASSUME NEW O \in SUBSET Nums, NEW t, GoodTree(O, t), NEW what \in O, NEW parent \in O \cup {NOTHING},
         NEW u, \A z \in Nums : u.up[z] = IF z = what THEN parent ELSE t.up[z],
         NEW y \in Nums, NEW a \in Above(u, y), a \notin Above(t, y)
  PROVE  parent # NOTHING /\ what \in Above(t, y) /\ a \in Above(t, parent)
<1>1. \A z \in Nums : t.up[z] \in Nums \cup {NOTHING}
  BY LinksOf
<1>2. \A z \in Nums : /\ Above(t, z) \subseteq Nums
                      /\ z \in Above(t, z)
                      /\ \A b \in Above(t, z) : t.up[b] \in Above(t, z) \cup {NOTHING}
  BY <1>1, NothingIsNoNumber DEF Above
<1> DEFINE W == IF parent # NOTHING /\ what \in Above(t, y) THEN Above(t, parent) ELSE {}
<1>3. W \in SUBSET Nums /\ \A b \in W : t.up[b] \in W \cup {NOTHING}
  BY <1>2
<1>4. parent # NOTHING /\ what \in Above(t, y) => parent \in W
  BY <1>2
<1>5. what \in W => parent \in W \cup {NOTHING}
  BY <1>4, <1>2
<1>6. \A z \in Above(t, y) \cup W : u.up[z] \in (Above(t, y) \cup W) \cup {NOTHING}
  BY <1>2, <1>3, <1>4, <1>5
<1>7. a \in Above(t, y) \cup W
  <2>1. PICK U : U = Above(t, y) \cup W
    OBVIOUS
  <2>2. U \in SUBSET Nums /\ y \in U /\ \A z \in U : u.up[z] \in U \cup {NOTHING}
    <3> HIDE DEF W
    <3> QED
      BY <2>1, <1>2, <1>3, <1>6
  <2>3. a \in U
    BY <2>2 DEF Above
  <2> QED
    BY <2>1, <2>3
<1> QED
  BY <1>7

\* What the property says
LEMMA OverridesAre ==
  ASSUME NEW O \in SUBSET Nums, NEW t, GoodTree(O, t), NEW vs \in Tables, NEW wz, NEW R,
         R = UNION {UNION {{<<x, p[1].names, p[1].owner, y, p[2].names, p[2].owner>> :
                              p \in {p \in ToSet(vs[x]) \X ToSet(vs[y]) :
                                       /\ p[1].not_o
                                       /\ p[2].owner \notin wz \cup {p[1].owner}
                                       /\ \E word \in Words : /\ verbcasecmp(p[1].names, word)
                                                              /\ verbcasecmp(p[2].names, word)}} :
                           y \in {y \in O \ {x} : vs[y] # <<>> /\ IsAtOrBelow(t, y, x)}} : x \in O}
  PROVE  \A o : o \in R <=> Overridden(O, t, vs, wz, o)
<1>1. \A y \in O : \A x : IsAtOrBelow(t, y, x) <=> x \in Above(t, y)
  BY LineIsAbove DEF IsAtOrBelow
<1>2. ASSUME NEW y \in O, NEW w \in ToSet(vs[y]) PROVE vs[y] # <<>>
  <2>1. ToSet(<<>>) = {}
    BY DEF ToSet
  <2> QED
    BY <1>2, <2>1
<1> DEFINE At(x, y) == {<<x, p[1].names, p[1].owner, y, p[2].names, p[2].owner>> :
                              p \in {p \in ToSet(vs[x]) \X ToSet(vs[y]) :
                                       /\ p[1].not_o
                                       /\ p[2].owner \notin wz \cup {p[1].owner}
                                       /\ \E word \in Words : /\ verbcasecmp(p[1].names, word)
                                                              /\ verbcasecmp(p[2].names, word)}}
<1>3. ASSUME NEW x, NEW y, NEW o
      PROVE  o \in At(x, y) <=> OverriddenAt(t, vs, wz, x, y, o)
  <2>1. ASSUME NEW v \in ToSet(vs[x]), NEW w \in ToSet(vs[y]), Answerable(w, v, wz),
               o = <<x, v.names, v.owner, y, w.names, w.owner>>
        PROVE  o \in At(x, y)
    <3>1. PICK p \in ToSet(vs[x]) \X ToSet(vs[y]) : p[1] = v /\ p[2] = w
      <4>1. <<v, w>> \in ToSet(vs[x]) \X ToSet(vs[y]) /\ <<v, w>>[1] = v /\ <<v, w>>[2] = w
        OBVIOUS
      <4> QED
        BY <4>1
    <3> QED
      BY <2>1, <3>1 DEF Answerable, Clash
  <2>2. ASSUME o \in At(x, y)
        PROVE  OverriddenAt(t, vs, wz, x, y, o)
    <3>1. PICK p \in ToSet(vs[x]) \X ToSet(vs[y]) :
            /\ p[1].not_o
            /\ p[2].owner \notin wz \cup {p[1].owner}
            /\ \E word \in Words : verbcasecmp(p[1].names, word) /\ verbcasecmp(p[2].names, word)
            /\ o = <<x, p[1].names, p[1].owner, y, p[2].names, p[2].owner>>
      BY <2>2
    <3>2. Answerable(p[2], p[1], wz)
      BY <3>1 DEF Answerable, Clash
    <3> QED
      BY <3>1, <3>2 DEF OverriddenAt
  <2> QED
    BY <2>1, <2>2 DEF OverriddenAt
<1>4. R = UNION {UNION {At(x, y) : y \in {y \in O \ {x} : vs[y] # <<>> /\ IsAtOrBelow(t, y, x)}} : x \in O}
  OBVIOUS
<1> HIDE DEF At
<1>5. ASSUME NEW o \in R PROVE Overridden(O, t, vs, wz, o)
  <2>1. PICK x \in O : \E y \in O \ {x} : IsAtOrBelow(t, y, x) /\ o \in At(x, y)
    BY <1>4, <1>5
  <2>2. PICK y \in O \ {x} : IsAtOrBelow(t, y, x) /\ o \in At(x, y)
    BY <2>1
  <2> QED
    BY <2>2, <1>1, <1>3 DEF Overridden
<1>6. ASSUME NEW o, Overridden(O, t, vs, wz, o) PROVE o \in R
  <2>1. PICK x \in O, y \in O : x # y /\ x \in Above(t, y) /\ OverriddenAt(t, vs, wz, x, y, o)
    BY <1>6 DEF Overridden
  <2>2. vs[y] # <<>>
    BY <2>1, <1>2 DEF OverriddenAt
  <2>3. o \in At(x, y) /\ IsAtOrBelow(t, y, x)
    BY <2>1, <1>1, <1>3
  <2> QED
    BY <2>1, <2>2, <2>3, <1>4, SMTT(40)
<1> QED
  BY <1>5, <1>6
\* The same of what the variables are before a step
LEMMA OverridesNow ==
  ASSUME Hierarchy, OwnVerbs
  PROVE  \A o : o \in Overrides <=> Overridden(objects, family, verbs, wizards, o)
BY OverridesAre DEF Hierarchy, OwnVerbs, Overrides, OverridesAt, InPlaceOf, Below

\* and after it
LEMMA OverridesThen ==
  ASSUME Hierarchy', OwnVerbs'
  PROVE  \A o : o \in Overrides' <=> Overridden(objects', family', verbs', wizards', o)
BY OverridesAre DEF Hierarchy, OwnVerbs, Overrides, OverridesAt, InPlaceOf, Below

\* No verb is answered for that was not.
Protects ==
  \A o : Overridden(objects', family', verbs', wizards, o) => Overridden(objects, family, verbs, wizards, o)

\* Fewer objects, ancestors and verbs have fewer overrides.
LEMMA FewerProtects ==
  ASSUME objects' \subseteq objects,
         \A x, y \in objects' : x \in Above(family', y) => x \in Above(family, y),
         \A x \in objects' : ToSet(verbs'[x]) \subseteq ToSet(verbs[x])
  PROVE  Protects
BY DEF Protects, Overridden, OverriddenAt

\* Steps that change neither parents nor verbs
LEMMA StaysProtects ==
  ASSUME objects' \subseteq objects, UNCHANGED <<family, verbs>>
  PROVE  Protects
BY FewerProtects

\* Verbs that are compared and found to have nothing in common have no word in common.
LEMMA ComparedClash ==
  ASSUME CompareIsSound, NEW v \in Verbdefs, NEW w \in Verbdefs,
         verbnames_share_namespace(w.names, v.names) \subseteq {"no"} \/
         verbnames_share_namespace(v.names, w.names) \subseteq {"no"}
  PROVE  ~Clash(v.names, w.names)
<1>1. v.names \in Namings /\ w.names \in Namings
  BY DEF Verbdefs
<1> QED
  BY <1>1 DEF CompareIsSound, Clash

\* name_conflict_with_ancestor(): no verb protected on a way up is answered for.
LEMMA NoConflictAbove ==
  ASSUME CompareIsSound, Hierarchy, OwnVerbs, NEW x \in Nums, NEW w \in Verbdefs,
         name_conflict_with_ancestor(x, w.owner, w.names) \subseteq {"no"},
         NEW a \in Above(family, x), NEW v \in ToSet(verbs[a])
  PROVE  ~Answerable(w, v, wizards)
<1>1. SUFFICES ASSUME v.not_o, v.owner # w.owner PROVE ~Clash(v.names, w.names)
  BY DEF Answerable
<1>2. a \in ToSet(Line(family, x)) /\ a \in Nums
  BY LineIsAbove DEF Hierarchy, Above
<1>3. v \in Verbdefs
  BY <1>2 DEF OwnVerbs, Tables, ToSet
<1>4. v \in {u \in UNION {ToSet(verbs[y]) : y \in ToSet(Line(family, x))} : u.not_o /\ u.owner # w.owner}
  BY <1>1, <1>2
<1>5. verbnames_share_namespace(w.names, v.names) \subseteq {"no"}
  BY <1>4 DEF name_conflict_with_ancestor
<1> QED
  BY <1>3, <1>5, ComparedClash

\* name_conflict_with_descendants(): no verb below answers for a protected one.
LEMMA NoConflictBelow ==
  ASSUME CompareIsSound, Hierarchy, OwnVerbs, NEW x \in Nums, NEW v \in Verbdefs,
         name_conflict_with_descendants(x, v.owner, v.names) \subseteq {"no"},
         NEW y \in objects \ {x}, x \in Above(family, y), NEW w \in ToSet(verbs[y])
  PROVE  ~Answerable(w, v, wizards)
<1>1. SUFFICES ASSUME w.owner \notin wizards, w.owner # v.owner PROVE ~Clash(v.names, w.names)
  BY DEF Answerable
<1>2. y \in Nums /\ IsAtOrBelow(family, y, x)
  BY LineIsAbove DEF Hierarchy, IsAtOrBelow
<1>3. w \in Verbdefs
  BY <1>2 DEF OwnVerbs, Tables, ToSet
<1>4. w \in {u \in UNION {ToSet(verbs[z]) : z \in {z \in objects \ {x} : IsAtOrBelow(family, z, x)}} :
                ~is_wizard(u.owner) /\ u.owner # v.owner}
  BY <1>1, <1>2 DEF is_wizard
<1>5. verbnames_share_namespace(v.names, w.names) \subseteq {"no"}
  BY <1>4 DEF name_conflict_with_descendants
<1> QED
  BY <1>3, <1>5, ComparedClash

\* check_verbs_before_chparent(): no verb at or below an object answers for one protected
\* at its new parent or above that.
LEMMA NoConflictMoved ==
  ASSUME CompareIsSound, Hierarchy, OwnVerbs, NEW what \in Nums, NEW parent \in Nums,
         check_verbs_before_chparent(parent, what) \subseteq {"no"},
         NEW y \in objects, what \in Above(family, y), NEW w \in ToSet(verbs[y]),
         NEW a \in Above(family, parent), NEW v \in ToSet(verbs[a])
  PROVE  ~Answerable(w, v, wizards)
<1>1. SUFFICES ASSUME w.owner \notin wizards PROVE ~Answerable(w, v, wizards)
  BY DEF Answerable
<1>2. y \in Nums /\ IsAtOrBelow(family, y, what)
  BY LineIsAbove DEF Hierarchy, IsAtOrBelow
<1>3. w \in Verbdefs
  BY <1>2 DEF OwnVerbs, Tables, ToSet
<1>4. w \in {u \in UNION {ToSet(verbs[z]) : z \in {z \in objects : IsAtOrBelow(family, z, what)}} :
                ~is_wizard(u.owner)}
  BY <1>1, <1>2 DEF is_wizard
<1>5. name_conflict_with_ancestor(parent, w.owner, w.names) \subseteq {"no"}
  BY <1>4 DEF check_verbs_before_chparent
<1> QED
  BY <1>3, <1>5, NoConflictAbove

\* A verb that is made or changed, with the checks of bf_add_verb() and bf_set_verb_info()
LEMMA NewVerbProtects ==
  ASSUME CompareIsSound, Hierarchy, OwnVerbs, UNCHANGED <<objects, family>>,
         NEW x \in objects, NEW list, verbs' = [verbs EXCEPT ![x] = list],
         NEW V \in Verbdefs, \A u \in ToSet(list) : u = V \/ u \in ToSet(verbs[x]),
         \/ V.owner \in wizards
         \/ name_conflict_with_ancestor(family.up[x], V.owner, V.names) \subseteq {"no"}
         \/ \E u \in ToSet(verbs[x]) : u.names = V.names /\ u.owner = V.owner,
         \/ ~V.not_o
         \/ name_conflict_with_descendants(x, V.owner, V.names) \subseteq {"no"}
  PROVE  Protects
<1>1. /\ objects \in SUBSET Nums
      /\ GoodTree(objects, family)
      /\ verbs'[x] = list
      /\ \A y \in Nums : y # x => verbs'[y] = verbs[y]
  BY DEF Hierarchy, OwnVerbs, Tables
<1>2. SUFFICES ASSUME NEW a \in objects, NEW y \in objects, a # y, a \in Above(family, y),
                      NEW v \in ToSet(verbs'[a]), NEW w \in ToSet(verbs'[y]),
                      Answerable(w, v, wizards)
               PROVE  \E r \in ToSet(verbs[a]), q \in ToSet(verbs[y]) :
                        /\ Answerable(q, r, wizards)
                        /\ r.names = v.names /\ r.owner = v.owner
                        /\ q.names = w.names /\ q.owner = w.owner
  BY DEF Protects, Overridden, OverriddenAt
<1>3. CASE a # x /\ y # x
  BY <1>1, <1>2, <1>3
<1>4. CASE a = x
  <2>1. w \in ToSet(verbs[y]) /\ y \in Nums
    BY <1>1, <1>2, <1>4
  <2>2. CASE v \in ToSet(verbs[x])
    BY <1>2, <1>4, <2>1, <2>2
  <2>3. CASE v = V
    <3>1. V.not_o
      BY <1>2, <2>3 DEF Answerable
    <3>2. name_conflict_with_descendants(x, V.owner, V.names) \subseteq {"no"}
      BY <3>1
    <3>3. ~Answerable(w, V, wizards)
      BY <1>1, <1>2, <1>4, <2>1, <3>2, NoConflictBelow
    <3> QED
      BY <1>2, <2>3, <3>3
  <2> QED
    BY <1>1, <1>2, <1>4, <2>2, <2>3
<1>5. CASE y = x
  <2>1. v \in ToSet(verbs[a]) /\ a \in Nums /\ x \in Nums
    BY <1>1, <1>2, <1>5
  <2>2. CASE w \in ToSet(verbs[x])
    BY <1>2, <1>5, <2>1, <2>2
  <2>3. CASE w = V
    <3>1. V.owner \notin wizards
      BY <1>2, <2>3 DEF Answerable
    <3>2. CASE name_conflict_with_ancestor(family.up[x], V.owner, V.names) \subseteq {"no"}
      <4>1. family.up[x] \in Nums /\ a \in Above(family, family.up[x])
        BY <1>1, <1>2, <1>5, <2>1, AboveParent
      <4>2. ~Answerable(V, v, wizards)
        BY <4>1, <3>2, <2>1, NoConflictAbove
      <4> QED
        BY <4>2, <1>2, <2>3
    <3>3. CASE \E u \in ToSet(verbs[x]) : u.names = V.names /\ u.owner = V.owner
      <4>1. PICK u \in ToSet(verbs[x]) : u.names = V.names /\ u.owner = V.owner
        BY <3>3
      <4>2. Answerable(u, v, wizards)
        BY <4>1, <1>2, <2>3 DEF Answerable
      <4> QED
        BY <4>1, <4>2, <2>1, <2>3, <1>5
    <3> QED
      BY <3>1, <3>2, <3>3
  <2> QED
    BY <1>1, <1>2, <1>5, <2>2, <2>3
<1> QED
  BY <1>3, <1>4, <1>5

\* bf_add_verb()
LEMMA MakeVerbProtects ==
  ASSUME CompareIsSound, Hierarchy, OwnVerbs, MakeVerb
  PROVE  Protects
<1>1. PICK x \in Nums, kind \in Kinds, who \in Owners : AddVerb(x, kind, who)
  BY DEF MakeVerb
<1>2. PICK V \in Verbdefs : V = VerbOf(kind, who)
  BY <1>1, VerbOfIsVerbdef DEF AddVerb, Hierarchy
<1>3. V.names = kind.names /\ V.owner = who /\ V.not_o = kind.not_o
  BY <1>2 DEF VerbOf
<1>4. x \in objects /\ verbs[x] \in Seq(Verbdefs)
  BY <1>1 DEF AddVerb, Hierarchy, OwnVerbs, Tables
<1>5. CASE UNCHANGED verb_vars /\ Panics("loop")
  BY <1>5, StaysProtects DEF verb_vars, Panics
<1>6. CASE /\ (IF is_wizard(who) THEN {} ELSE name_conflict_with_ancestor(family.up[x], who, kind.names))
              \subseteq {"no"}
           /\ (IF kind.not_o THEN name_conflict_with_descendants(x, who, kind.names) ELSE {})
              \subseteq {"no"}
           /\ VerbsBecome(x, Append(verbs[x], V))
  <2>1. \A u \in ToSet(Append(verbs[x], V)) : u = V \/ u \in ToSet(verbs[x])
    <3>1. PICK s \in Seq(Verbdefs) : s = verbs[x]
      BY <1>4
    <3>2. PICK q : q = Append(s, V)
      OBVIOUS
    <3>3. /\ Len(s) \in Nat /\ DOMAIN s = 1..Len(s) /\ DOMAIN q = 1..(Len(s) + 1)
          /\ q[Len(s) + 1] = V
          /\ \A i \in 1..Len(s) : q[i] = s[i]
      BY <3>2
    <3>4. \A i \in DOMAIN q : i \in DOMAIN s \/ i = Len(s) + 1
      BY <3>3
    <3> QED
      BY <3>1, <3>2, <3>3, <3>4 DEF ToSet
  <2>2. UNCHANGED <<objects, family>> /\ verbs' = [verbs EXCEPT ![x] = Append(verbs[x], V)]
    BY <1>6 DEF VerbsBecome
  <2>3. V.owner \in wizards \/ name_conflict_with_ancestor(family.up[x], V.owner, V.names) \subseteq {"no"}
    BY <1>3, <1>6 DEF is_wizard
  <2>4. ~V.not_o \/ name_conflict_with_descendants(x, V.owner, V.names) \subseteq {"no"}
    BY <1>3, <1>6
  <2> QED
    BY <1>4, <2>1, <2>2, <2>3, <2>4, NewVerbProtects
<1> QED
  BY <1>1, <1>2, <1>5, <1>6 DEF AddVerb, Checked

\* bf_delete_verb(), bf_set_verb_args() and bf_set_verb_info(), which looks at the verbs
\* below unless a verb is protected, stays with its owner, and gets other names.
LEMMA ChangeVerbsProtects ==
  ASSUME CompareIsSound, Hierarchy, OwnVerbs, ChangeVerbs, ~RenamesProtected
  PROVE  Protects
<1>1. PICK x \in Nums, i \in 1..MAX_VERBS :
        \/ DeleteVerb(x, i)
        \/ SetVerbArgs(x, i)
        \/ \E kind \in Kinds, who \in Owners : SetVerbInfo(x, i, kind, who)
  BY DEF ChangeVerbs
<1>2. PICK list \in Seq(Verbdefs) : list = verbs[x]
  BY DEF OwnVerbs, Tables
<1>3. ASSUME NEW new, VerbsBecome(x, new), ToSet(new) \subseteq ToSet(list) PROVE Protects
  <2>1. /\ objects' = objects /\ family' = family
        /\ \A y \in Nums : ToSet(verbs'[y]) \subseteq ToSet(verbs[y])
    BY <1>2, <1>3 DEF VerbsBecome, OwnVerbs, Tables
  <2> QED
    BY <2>1, FewerProtects DEF Hierarchy
<1>4. CASE DeleteVerb(x, i)
  <2>1. i \in 1..Len(list) /\ VerbsBecome(x, RemoveAt(list, i))
    BY <1>2, <1>4 DEF DeleteVerb
  <2>2. PICK n \in Nat : n = Len(list) /\ i \in 1..n
    BY <2>1
  <2>3. PICK f, g : f = SubSeq(list, 1, i - 1) /\ g = SubSeq(list, i + 1, n)
    OBVIOUS
  <2>4. PICK r : r = f \o g
    OBVIOUS
  <2>6. \A j \in DOMAIN r : r[j] \in ToSet(list)
    <3>1. /\ f \in Seq(Verbdefs) /\ Len(f) = i - 1
          /\ \A j \in 1..(i - 1) : f[j] = list[j]
      BY <2>2, <2>3
    <3>2. /\ g \in Seq(Verbdefs) /\ Len(g) = n - i
          /\ \A j \in 1..(n - i) : g[j] = list[i + j]
      BY <2>2, <2>3
    <3>3. DOMAIN r = 1..(n - 1)
      BY <2>2, <2>4, <3>1, <3>2
    <3>4. ASSUME NEW j \in 1..(n - 1) PROVE \E k \in 1..n : r[j] = list[k]
      <4>1. CASE j <= i - 1
        <5>1. j \in 1..(i - 1) /\ j \in 1..n
          BY <4>1, <2>2
        <5>2. r[j] = f[j]
          BY <5>1, <3>1, <3>2, <2>4
        <5> QED
          BY <5>1, <5>2, <3>1
      <4>2. CASE j > i - 1
        <5>1. PICK k \in 1..(n - i) : j = (i - 1) + k
          <6>1. j - (i - 1) \in 1..(n - i) /\ j = (i - 1) + (j - (i - 1))
            BY <4>2, <2>2
          <6> QED
            BY <6>1
        <5>2. r[(i - 1) + k] = g[k]
          BY <5>1, <3>1, <3>2, <2>4
        <5>3. i + k \in 1..n
          BY <5>1, <2>2
        <5> QED
          BY <5>1, <5>2, <5>3, <3>2
      <4> QED
        BY <4>1, <4>2, <2>2
    <3>5. DOMAIN list = 1..n
      BY <2>2
    <3> QED
      BY <3>3, <3>4, <3>5 DEF ToSet
  <2>5. ToSet(RemoveAt(list, i)) \subseteq ToSet(list)
    <3>1. RemoveAt(list, i) = r
      BY <2>2, <2>3, <2>4 DEF RemoveAt
    <3>2. ToSet(r) \subseteq ToSet(list)
      BY <2>6 DEF ToSet
    <3> QED
      BY <3>1, <3>2
  <2> QED
    BY <2>1, <2>5, <1>3
<1>5. CASE SetVerbArgs(x, i)
  BY <1>2, <1>3, <1>5 DEF SetVerbArgs
<1>6. CASE \E kind \in Kinds, who \in Owners : SetVerbInfo(x, i, kind, who)
  <2>1. PICK kind \in Kinds, who \in Owners : SetVerbInfo(x, i, kind, who)
    BY <1>6
  <2>2. PICK V \in Verbdefs : V = VerbOf(kind, who)
    BY <2>1, VerbOfIsVerbdef DEF SetVerbInfo, Hierarchy
  <2>3. V.names = kind.names /\ V.owner = who /\ V.not_o = kind.not_o
    BY <2>2 DEF VerbOf
  <2>4. x \in objects /\ i \in DOMAIN list
    BY <1>2, <2>1 DEF SetVerbInfo
  <2>5. PICK old \in Verbdefs : old = list[i] /\ old \in ToSet(list)
    BY <2>4 DEF ToSet
  <2>6. PICK above, below :
          /\ above = IF (who # old.owner \/ kind.names # old.names) /\ ~is_wizard(who)
                     THEN name_conflict_with_ancestor(family.up[x], who, kind.names) ELSE {}
          /\ below = IF kind.not_o /\ (who # old.owner \/ ~old.not_o \/ ~(kind.names # old.names))
                     THEN name_conflict_with_descendants(x, who, kind.names) ELSE {}
    OBVIOUS
  <2>7. Checked(above, below, VerbsBecome(x, [list EXCEPT ![i] = V]))
    BY <1>2, <2>1, <2>2, <2>5, <2>6 DEF SetVerbInfo
  <2>8. CASE UNCHANGED verb_vars /\ Panics("loop")
    BY <2>8, StaysProtects DEF verb_vars, Panics
  <2>9. CASE above \cup below \subseteq {"no"} /\ VerbsBecome(x, [list EXCEPT ![i] = V])
    <3>1. PICK new : new = [list EXCEPT ![i] = V]
      OBVIOUS
    <3>2. \A u \in ToSet(new) : u = V \/ u \in ToSet(list)
      <4>1. DOMAIN new = DOMAIN list /\ \A j \in DOMAIN list : new[j] = IF j = i THEN V ELSE list[j]
        BY <3>1
      <4> QED
        BY <4>1 DEF ToSet
    <3>3. UNCHANGED <<objects, family>> /\ verbs' = [verbs EXCEPT ![x] = new]
      BY <3>1, <2>9 DEF VerbsBecome
    <3>4. \/ V.owner \in wizards
          \/ name_conflict_with_ancestor(family.up[x], V.owner, V.names) \subseteq {"no"}
          \/ \E u \in ToSet(verbs[x]) : u.names = V.names /\ u.owner = V.owner
      BY <1>2, <2>3, <2>5, <2>6, <2>9 DEF is_wizard
    <3>5. ~V.not_o \/ name_conflict_with_descendants(x, V.owner, V.names) \subseteq {"no"}
      <4>1. ASSUME V.not_o, who = old.owner, old.not_o, kind.names # old.names PROVE FALSE
        <5>1. verbs'[x] = new /\ i \in DOMAIN new /\ new[i] = V
          BY <2>4, <3>1, <3>3 DEF OwnVerbs, Tables
        <5>2. verbs[x][i] = old /\ verbs'[x][i] = V /\ i \in DOMAIN verbs[x] /\ i \in DOMAIN verbs'[x]
          BY <5>1, <1>2, <2>4, <2>5
        <5> QED
          BY <4>1, <5>2, <2>3, <2>4 DEF RenamesProtected
      <4> QED
        BY <4>1, <2>3, <2>6, <2>9
    <3> QED
      BY <2>4, <3>2, <3>3, <3>4, <3>5, <1>2, NewVerbProtects
  <2> QED
    BY <2>7, <2>8, <2>9 DEF Checked
<1> QED
  BY <1>1, <1>4, <1>5, <1>6

\* bf_chparent()
LEMMA ChangeParentProtects ==
  ASSUME CompareIsSound, Hierarchy, OwnVerbs, NEW what \in Nums, NEW parent \in Nums \cup {NOTHING},
         ChangeParent(what, parent)
  PROVE  Protects
<1>1. what \in objects /\ parent \in objects \cup {NOTHING}
  BY DEF ChangeParent
<1>2. CASE Panics("loop") /\ VerbsStay
  BY <1>2, StaysProtects DEF Panics, VerbsStay
<1>3. CASE /\ check_verbs_before_chparent(parent, what) \subseteq {"no"}
           /\ Chparent(what, parent)
           /\ UNCHANGED verbs
  <2>1. objects \in SUBSET Nums /\ GoodTree(objects, family) /\ family \in Trees
    BY DEF Hierarchy, GoodTree
  <2>2. family' = Moved(family, what, parent) /\ objects' = objects
    BY <1>3 DEF Chparent
  <2>3. \A z \in Nums : family'.up[z] = IF z = what THEN parent ELSE family.up[z]
    <3>1. \A z \in Nums : Moved(family, what, parent).up[z] = IF z = what THEN parent ELSE family.up[z]
      BY <2>1, MovedLinks
    <3> QED
      BY <3>1, <2>2
  <2>4. ASSUME NEW a \in objects, NEW y \in objects, a \in Above(family', y),
               NEW v \in ToSet(verbs[a]), NEW w \in ToSet(verbs[y]), Answerable(w, v, wizards)
        PROVE  a \in Above(family, y)
    <3>1. SUFFICES ASSUME a \notin Above(family, y) PROVE FALSE
      OBVIOUS
    <3>5. y \in Nums
      BY <2>1, <2>4
    <3>2. parent # NOTHING /\ what \in Above(family, y) /\ a \in Above(family, parent)
      <4>1. PICK t : t = family /\ GoodTree(objects, t) /\ a \notin Above(t, y)
        BY <2>1, <3>1
      <4>2. PICK u : u = family' /\ a \in Above(u, y)
                     /\ \A z \in Nums : u.up[z] = IF z = what THEN parent ELSE t.up[z]
        BY <2>3, <2>4, <4>1
      <4>3. parent # NOTHING /\ what \in Above(t, y) /\ a \in Above(t, parent)
        BY <1>1, <2>1, <3>5, <4>1, <4>2, AboveMoved
      <4> QED
        BY <4>1, <4>3
    <3>3. parent \in Nums
      BY <3>2
    <3>4. ~Answerable(w, v, wizards)
      BY <1>3, <2>4, <3>2, <3>3, NoConflictMoved
    <3> QED
      BY <2>4, <3>4
  <2>5. verbs' = verbs
    BY <1>3
  <2> QED
    BY <2>2, <2>4, <2>5 DEF Protects, Overridden, OverriddenAt
<1> QED
  BY <1>2, <1>3 DEF ChangeParent

\* bf_recycle(): the verbs of an object go, and its children keep their other ancestors.
LEMMA RecycleProtects ==
  ASSUME Hierarchy, ObjectInv, OwnVerbs, NEW i \in Slots, RecycleObject(i)
  PROVE  Protects
<1>1. PICK x : x = calls[i].what
  OBVIOUS
<1>2. CASE Panics("loop") /\ VerbsStay
  BY <1>2, StaysProtects DEF Panics, VerbsStay
<1>3. CASE RecycleDestroys(i) /\ VerbsDestroyed(x)
  <2>1. \A y \in Nums : verbs'[y] = IF y = x THEN <<>> ELSE verbs[y]
    BY <1>3 DEF VerbsDestroyed, OwnVerbs, Tables
  <2>2. ASSUME NEW y \in Nums PROVE ToSet(verbs'[y]) \subseteq ToSet(verbs[y])
    <3>1. ToSet(<<>>) = {}
      BY DEF ToSet
    <3> QED
      BY <2>1, <3>1
  <2>3. CASE objects' = objects /\ family' = family
    BY <2>2, <2>3, FewerProtects DEF Hierarchy
  <2>4. CASE objects' = objects \ {x} /\ x \in objects
    <3>1. Next
      BY <1>3 DEF Next
    <3>2. \A y, a \in objects \cap objects' : a \in Above(family, y) <=> a \in Above(family', y)
      BY <3>1, <2>4, KinKept DEF Kin
    <3>3. objects' \subseteq objects /\ objects' \subseteq Nums
      BY <2>4 DEF Hierarchy
    <3> QED
      BY <2>2, <3>2, <3>3, FewerProtects
  <2>5. \/ objects' = objects /\ family' = family
        \/ objects' = objects \ {x} /\ x \in objects
    BY <1>1, <1>3 DEF RecycleDestroys, Returns, Panics
  <2> QED
    BY <2>3, <2>4, <2>5
<1> QED
  BY <1>1, <1>2, <1>3 DEF RecycleObject

\* The steps that make an object or give one another number have a number that was free.
LEMMA NumberedProtects ==
  ASSUME Hierarchy, ObjectInv, objects' \subseteq objects,
         \/ \E parent \in Nums \cup {NOTHING} : \E who :
              \/ CreateObject(parent, who)
              \/ CreateObjectAndRenumber(parent, who)
              \/ \E num \in Nums : CreateObjectWithId(num, parent, who)
         \/ \E old \in Nums : RenumberObject(old)
  PROVE  Protects
<1>1. ASSUME NEW old \in Nums, RenumberObject(old) PROVE FALSE
  BY <1>1 DEF RenumberObject
<1>2. num_objects \notin objects
  BY ObjectAssumption DEF ObjectInv, TypeOK
<1>3. ASSUME NEW parent, NEW who, CreateObject(parent, who) PROVE FALSE
  BY <1>2, <1>3 DEF CreateObject, Create, NewObject
<1>4. ASSUME NEW parent, NEW who, CreateObjectAndRenumber(parent, who) PROVE FALSE
  BY <1>4 DEF CreateObjectAndRenumber
<1>5. ASSUME NEW parent, NEW who, NEW num \in Nums, CreateObjectWithId(num, parent, who)
      PROVE  Protects
  <2>1. CreateWithId(num, parent)
    BY <1>5 DEF CreateObjectWithId
  <2>2. num \notin objects
    BY <2>1 DEF CreateWithId
  <2>3. VerbsStay /\ num \notin objects'
    BY <1>5, <2>2 DEF CreateObjectWithId
  <2>4. UNCHANGED <<objects, family>>
    BY <2>1, <2>3 DEF CreateWithId, Panics, NewObject
  <2> QED
    BY <2>3, <2>4, StaysProtects DEF VerbsStay
<1> QED
  BY <1>1, <1>3, <1>4, <1>5

\* Each step keeps what is protected.
LEMMA DbStepProtects ==
  ASSUME CompareIsSound, DbInv, DbStep, objects' \subseteq objects, ~RenamesProtected
  PROVE  Protects
<1>1. Hierarchy /\ OwnVerbs /\ ObjectInv
  BY NextHierarchy DEF DbInv
<1>2. CASE \E x \in Nums, word \in Words : Search(x, word) \/ Find(x, word)
  BY <1>2, StaysProtects DEF Search, Find, Call, FindVerb
<1>3. CASE MakeVerb \/ ChangeVerbs
  BY <1>1, <1>3, MakeVerbProtects, ChangeVerbsProtects
<1>4. CASE ChangeProperties \/ NumbersAndCalls \/ \E who \in Owners : CreateWithIdRefused(who)
  BY <1>4, OtherStepsObjects, StaysProtects DEF VerbsStay
<1>5. ASSUME NEW what \in Nums, NEW parent \in Nums \cup {NOTHING}, ChangeParent(what, parent)
      PROVE  Protects
  BY <1>1, <1>5, ChangeParentProtects
<1>6. ASSUME NEW i \in Slots, RecycleObject(i) PROVE Protects
  BY <1>1, <1>6, RecycleProtects
<1>7. CASE \/ \E parent \in Nums \cup {NOTHING}, who \in Owners \cup {NOTHING} :
                \/ CreateObject(parent, who)
                \/ CreateObjectAndRenumber(parent, who)
                \/ \E num \in Nums : CreateObjectWithId(num, parent, who)
           \/ \E old \in Nums : RenumberObject(old)
  BY <1>1, <1>7, NumberedProtects
<1> QED
  BY <1>2, <1>3, <1>4, <1>5, <1>6, <1>7 DEF DbStep

-----------------------------------------------------------------------------
(* The theorems. *)

\* Whatever verbs.c, objects.c and db_verbs.c do, the cache holds nothing that a search
\* would not find, and parents make no loops, also where create(), chparent(), recycle()
\* and renumber() refuse more than ObjectHierarchy says.
THEOREM DatabaseInvariant == DbSpec => []DbInv
<1>1. DbInit => DbInv
  BY InitDbInv
<1>2. DbInv /\ [DbNext]_db_vars => DbInv'
  BY NextDbInv
<1> QED
  BY <1>1, <1>2, PTL DEF DbSpec

\* db_find_callable_verb() and find_verb() implement a search that has no cache.
THEOREM CacheIsTransparentAlways == DbSpec => CacheIsTransparent
<1>1. DbInit => Lookup!Init
  BY InitDbInv
<1>2. DbInv /\ [DbNext]_db_vars => [Lookup!Next]_Lookup!vars
  BY NextDbInv
<1> QED
  BY <1>1, <1>2, DatabaseInvariant, PTL DEF DbSpec, CacheIsTransparent, Lookup!Spec

\* The walks of verbs.c leave no gap: when the comparison of two names notices the words
\* they have in common, no call but a renaming by set_verb_info() lets a verb answer in
\* place of a protected one, however objects and verbs are arranged.
THEOREM ProtectionHolds ==
  ASSUME CompareIsSound
  PROVE  DbSpec => ProtectedStayProtected
<1>1. ASSUME DbInv, DbInv', DbStep, objects' \subseteq objects, wizards' = wizards,
             ~RenamesProtected
      PROVE  Overrides' \subseteq Overrides
  <2>1. Protects
    BY <1>1, DbStepProtects
  <2>2. \A o : o \in Overrides' => Overridden(objects', family', verbs', wizards', o)
    BY <1>1, OverridesThen DEF DbInv
  <2>3. \A o : Overridden(objects, family, verbs, wizards, o) => o \in Overrides
    BY <1>1, OverridesNow DEF DbInv
  <2> QED
    BY <1>1, <2>1, <2>2, <2>3 DEF Protects
<1>2. DbInv /\ DbInv' /\ [DbNext]_db_vars =>
        [objects' \subseteq objects /\ wizards' = wizards /\ ~RenamesProtected
           => Overrides' \subseteq Overrides]_db_vars
  <2>1. SUFFICES ASSUME DbInv, DbInv', [DbNext]_db_vars, ~UNCHANGED db_vars,
                        objects' \subseteq objects, wizards' = wizards, ~RenamesProtected
                 PROVE  Overrides' \subseteq Overrides
    OBVIOUS
  <2>2. DbNext
    BY <2>1
  <2>3. DbStep
    BY <2>2 DEF DbNext
  <2> QED
    BY <2>1, <2>3, <1>1
<1> QED
  BY <1>2, DatabaseInvariant, PTL DEF DbSpec, ProtectedStayProtected
===============================================================================
