---------------------------- MODULE PropertyProofs ----------------------------
(***************************************************************************)
(* Proofs about objects and their properties together: the arrays of       *)
(* slots, and the places in them that db_properties.c computes, are a      *)
(* table of slots by name (PropertyTable), whatever the builtins do to     *)
(* parents, numbers and properties.                                        *)
(***************************************************************************)
EXTENDS DatabaseProofs

-----------------------------------------------------------------------------
(* Places in the arrays of slots.  They depend on a shape: the links up, of a good      *)
(* hierarchy, and what each object defines.                                             *)

Shaped(O, t) ==
  /\ O \in SUBSET Nums
  /\ \E f : GoodTree(O, f) /\ f.up = t.up
  /\ t.defs \in [Nums -> Seq(Names)]

\* The recursive function of Line(), of the links up
LineBy(up) ==
  CHOOSE line : line = [y \in Nums |-> IF up[y] = NOTHING THEN <<y>> ELSE <<y>> \o line[up[y]]]

\* The way up depends on the links only.
LEMMA SameLines ==
  ASSUME NEW t, NEW f, t.up = f.up
  PROVE  /\ \A x : Line(t, x) = Line(f, x)
         /\ \A x : Above(t, x) = Above(f, x)
<1>1. \A x : Line(t, x) = IF x = NOTHING THEN <<>> ELSE LineBy(t.up)[x]
  BY DEF Line, LineBy
<1>2. \A x : Line(f, x) = IF x = NOTHING THEN <<>> ELSE LineBy(f.up)[x]
  BY DEF Line, LineBy
<1>3. ASSUME NEW x PROVE Above(t, x) = Above(f, x)
  BY DEF Above
<1> QED
  BY <1>1, <1>2, <1>3

\* The way up of a shape
LEMMA ShapedUp ==
  ASSUME NEW O, NEW t, Shaped(O, t)
  PROVE  /\ Line(t, NOTHING) = <<>>
         /\ \A x \in Nums : Line(t, x) = <<x>> \o Line(t, t.up[x])
         /\ \A x \in Nums \cup {NOTHING} : Line(t, x) \in Seq(Nums)
         /\ \A x \in Nums : ToSet(Line(t, x)) = Above(t, x)
         /\ \A x \in Nums : t.up[x] \in Nums \cup {NOTHING} /\ t.up[x] # x
         /\ \A x \in O : t.up[x] \in O \cup {NOTHING}
         /\ \A x \in Nums \ O : t.up[x] = NOTHING
         /\ \A x \in Nums : t.defs[x] \in Seq(Names) /\ Len(t.defs[x]) \in Nat
         /\ NOTHING \notin Nums
<1>1. PICK f : GoodTree(O, f) /\ f.up = t.up
  BY DEF Shaped
<1>2. O \in SUBSET Nums /\ t.defs \in [Nums -> Seq(Names)]
  BY DEF Shaped
<1>3. /\ Line(f, NOTHING) = <<>>
      /\ \A x \in Nums : Line(f, x) = <<x>> \o Line(f, f.up[x])
      /\ \A x \in Nums \cup {NOTHING} : Line(f, x) \in Seq(Nums)
  BY <1>1, <1>2, LineUp
<1>4. \A x \in Nums : ToSet(Line(f, x)) = Above(f, x)
  BY <1>1, <1>2, LineIsAbove
<1>5. /\ \A x : Line(t, x) = Line(f, x)
      /\ \A x : Above(t, x) = Above(f, x)
  BY <1>1, SameLines
<1>6. /\ \A x \in O : f.up[x] \in O \cup {NOTHING}
      /\ \A x \in Nums \ O : f.up[x] = NOTHING
      /\ \A x \in O : f.up[x] # x
  BY <1>1, <1>2, LinksOf, ZenonT(40)
<1>7. NOTHING \notin Nums
  BY NothingIsNoNumber
<1> HIDE DEF Shaped
<1>8. ASSUME NEW x \in Nums PROVE t.up[x] \in Nums \cup {NOTHING} /\ t.up[x] # x
  <2>1. t.up[x] = f.up[x]
    BY <1>1
  <2>2. CASE x \in O
    BY <2>1, <2>2, <1>2, <1>6
  <2>3. CASE x \notin O
    BY <2>1, <2>3, <1>6, <1>7
  <2> QED
    BY <2>2, <2>3
<1>9. \A x \in Nums : t.defs[x] \in Seq(Names) /\ Len(t.defs[x]) \in Nat
  BY <1>2
<1>10. PICK up : up = t.up /\ up = f.up
  BY <1>1
<1> QED
  BY <1>3, <1>4, <1>5, <1>6, <1>7, <1>8, <1>9, <1>10

\* Whatever is true of a number when it is true of its parent is true of all.
LEMMA ShapedInduction ==
  ASSUME NEW O, NEW t, Shaped(O, t), NEW S,
         \A x \in Nums : t.up[x] \in S \cup {NOTHING} => x \in S
  PROVE  Nums \subseteq S
<1>1. PICK f : GoodTree(O, f) /\ f.up = t.up
  BY DEF Shaped
<1>2. O \in SUBSET Nums
  BY DEF Shaped
<1> QED
  BY <1>1, <1>2, UpInduction

\* Above an object is itself, and what is above its parent.
LEMMA AboveUp ==
  ASSUME NEW O, NEW t, Shaped(O, t), NEW x \in Nums
  PROVE  /\ x \in Above(t, x)
         /\ Above(t, x) \subseteq Nums
         /\ \A a : a \in Above(t, x) <=> a = x \/ (t.up[x] # NOTHING /\ a \in Above(t, t.up[x]))
<1>1. PICK f : GoodTree(O, f) /\ f.up = t.up
  BY DEF Shaped
<1>2. O \in SUBSET Nums
  BY DEF Shaped
<1>3. t.up[x] \in Nums \cup {NOTHING} /\ NOTHING \notin Nums
  BY ShapedUp
<1>4. \A y : Above(t, y) = Above(f, y)
  BY <1>1, SameLines
<1>5. x \in Above(t, x) /\ Above(t, x) \subseteq Nums
  BY DEF Above
<1>6. ASSUME NEW a \in Above(t, x), a # x PROVE t.up[x] # NOTHING /\ a \in Above(t, t.up[x])
  <2>1. t.up[x] \in Nums /\ a \in Above(f, t.up[x])
    BY <1>1, <1>2, <1>4, <1>6, AboveParent
  <2> QED
    BY <2>1, <1>4, <1>3
<1>7. ASSUME NEW a, t.up[x] # NOTHING, a \in Above(t, t.up[x]) PROVE a \in Above(t, x)
  <2>1. \A Z \in SUBSET Nums : x \in Z /\ (\A z \in Z : t.up[z] \in Z \cup {NOTHING}) => t.up[x] \in Z
    BY <1>7
  <2> QED
    BY <1>7, <2>1 DEF Above
<1> QED
  BY <1>5, <1>6, <1>7

\* Ancestors of ancestors are ancestors; of two, one is an ancestor of the other; and no
\* object is an ancestor of its parent.
LEMMA AboveOrder ==
  ASSUME NEW O, NEW t, Shaped(O, t), NEW x \in Nums
  PROVE  /\ \A a \in Above(t, x) : Above(t, a) \subseteq Above(t, x)
         /\ \A a, b \in Above(t, x) : a \in Above(t, b) \/ b \in Above(t, a)
         /\ t.up[x] # NOTHING => x \notin Above(t, t.up[x])
         /\ \A a \in Above(t, x) : x \in Above(t, a) => a = x
<1>1. ASSUME NEW y \in Nums
      PROVE  \A a \in Above(t, y) : Above(t, a) \subseteq Above(t, y)
  BY DEF Above
<1> DEFINE S == {y \in Nums : \A a, b \in Above(t, y) : a \in Above(t, b) \/ b \in Above(t, a)}
           R == {y \in Nums : t.up[y] # NOTHING => y \notin Above(t, t.up[y])}
<1>2. ASSUME NEW y \in Nums, t.up[y] \in S \cup {NOTHING} PROVE y \in S
  <2>1. SUFFICES ASSUME NEW a \in Above(t, y), NEW b \in Above(t, y)
                 PROVE  a \in Above(t, b) \/ b \in Above(t, a)
    OBVIOUS
  <2>2. CASE a = y \/ b = y
    BY <2>2
  <2>3. CASE a # y /\ b # y
    <3>1. t.up[y] # NOTHING /\ a \in Above(t, t.up[y]) /\ b \in Above(t, t.up[y])
      BY <2>3, AboveUp
    <3> QED
      BY <3>1, <1>2
  <2> QED
    BY <2>2, <2>3
<1>3. ASSUME NEW y \in Nums, t.up[y] \in R \cup {NOTHING} PROVE y \in R
  <2>1. SUFFICES ASSUME t.up[y] # NOTHING, y \in Above(t, t.up[y]) PROVE FALSE
    OBVIOUS
  <2>2. PICK p \in Nums : p = t.up[y] /\ p # y
    BY <2>1, ShapedUp
  <2>3. t.up[p] # NOTHING /\ y \in Above(t, t.up[p])
    BY <2>1, <2>2, AboveUp
  <2>4. t.up[p] \in Nums
    BY <2>2, <2>3, ShapedUp
  <2>5. p \in Above(t, y)
    BY <2>2, <2>1, AboveUp
  <2>6. p \in Above(t, t.up[p])
    BY <2>3, <2>4, <2>5, <1>1
  <2> QED
    BY <2>2, <2>3, <2>6, <1>3, <2>1
<1>4. Nums \subseteq S
  <2> HIDE DEF S
  <2> QED
    BY <1>2, ShapedInduction
<1>5. Nums \subseteq R
  <2> HIDE DEF R
  <2> QED
    BY <1>3, ShapedInduction
<1>6. ASSUME NEW a \in Above(t, x), x \in Above(t, a), a # x PROVE FALSE
  <2>1. t.up[x] # NOTHING /\ a \in Above(t, t.up[x]) /\ t.up[x] \in Nums
    BY <1>6, AboveUp, ShapedUp
  <2>2. x \in Above(t, t.up[x])
    BY <2>1, <1>6, <1>1
  <2> QED
    BY <2>1, <2>2, <1>5
<1> QED
  BY <1>1, <1>4, <1>5, <1>6

\* Induction on numbers, from the least that is not in a set
LEMMA Counting ==
  ASSUME NEW S, 0 \in S, \A n \in Nat : n \in S => n + 1 \in S
  PROVE  Nat \subseteq S
<1>1. SUFFICES ASSUME Nat \ S # {} PROVE FALSE
  OBVIOUS
<1>2. PICK I \in SUBSET Nat : I = Nat \ S
  OBVIOUS
<1>3. PICK m \in Nat : m = Min(I) /\ m \in I /\ \A i \in I : m <= i
  BY <1>1, <1>2, LeastPlace
<1>4. m # 0 /\ m \notin S
  BY <1>2, <1>3
<1>5. PICK k \in Nat : m = k + 1
  BY <1>4
<1>6. k \notin I
  BY <1>3, <1>5
<1> QED
  BY <1>2, <1>4, <1>5, <1>6

\* The sums that LengthOf() builds up are a recursive function, and there is one.
SumsOf(defs, s) ==
  CHOOSE upto : upto = [n \in 0..Len(s) |-> IF n = 0 THEN 0 ELSE upto[n - 1] + Len(defs[s[n]])]

\* That function starts at 0 and adds the definitions of one object at a time.
LEMMA SumsExist ==
  ASSUME NEW defs \in [Nums -> Seq(Names)], NEW s \in Seq(Nums)
  PROVE  /\ SumsOf(defs, s) \in [0..Len(s) -> Nat]
         /\ SumsOf(defs, s)[0] = 0
         /\ \A n \in 1..Len(s) : SumsOf(defs, s)[n] = SumsOf(defs, s)[n - 1] + Len(defs[s[n]])
<1> DEFINE Sums(g, n) == /\ g \in [0..n -> Nat]
                         /\ g[0] = 0
                         /\ \A i \in 1..n : i <= Len(s) => g[i] = g[i - 1] + Len(defs[s[i]])
           S == {n \in Nat : \E g : Sums(g, n)}
<1>1. Len(s) \in Nat /\ \A i \in 1..Len(s) : Len(defs[s[i]]) \in Nat
  OBVIOUS
<1>2. 0 \in S
  <2>1. Sums([i \in 0..0 |-> 0], 0)
    OBVIOUS
  <2> QED
    BY <2>1
<1>3. ASSUME NEW n \in Nat, n \in S PROVE n + 1 \in S
  <2>1. PICK g : Sums(g, n)
    BY <1>3
  <2>2. PICK e \in Nat : n + 1 <= Len(s) => e = Len(defs[s[n + 1]])
    BY <1>1
  <2>3. PICK h : h = [i \in 0..(n + 1) |-> IF i <= n THEN g[i] ELSE g[n] + e]
    OBVIOUS
  <2>4. g[n] \in Nat /\ \A i \in 0..n : g[i] \in Nat
    BY <2>1
  <2>5. h \in [0..(n + 1) -> Nat] /\ h[0] = 0
    <3>1. ASSUME NEW i \in 0..(n + 1) PROVE h[i] \in Nat
      <4>1. i <= n => i \in 0..n
        OBVIOUS
      <4> QED
        BY <4>1, <2>3, <2>4
    <3>2. 0 \in 0..(n + 1) /\ 0 <= n /\ g[0] = 0
      BY <2>1
    <3> QED
      BY <3>1, <3>2, <2>3
  <2>6. ASSUME NEW i \in 1..(n + 1), i <= Len(s) PROVE h[i] = h[i - 1] + Len(defs[s[i]])
    <3>0. i \in 0..(n + 1) /\ i - 1 \in 0..(n + 1) /\ i - 1 <= n
      OBVIOUS
    <3>1. h[i - 1] = g[i - 1]
      BY <3>0, <2>3
    <3>2. CASE i = n + 1
      <4>1. h[i] = g[n] + e
        BY <3>0, <3>2, <2>3
      <4> QED
        BY <3>1, <3>2, <4>1, <2>2, <2>6
    <3>3. CASE i <= n
      <4>1. h[i] = g[i] /\ i \in 1..n
        BY <3>0, <3>3, <2>3
      <4> QED
        BY <3>1, <4>1, <2>1, <2>6
    <3> QED
      BY <3>2, <3>3
  <2>7. Sums(h, n + 1)
    BY <2>5, <2>6
  <2> HIDE DEF Sums
  <2> QED
    BY <2>7
<1>4. Len(s) \in S
  <2> HIDE DEF S
  <2> QED
    BY <1>1, <1>2, <1>3, Counting
<1>5. PICK g : Sums(g, Len(s))
  BY <1>4
<1>6. g = [n \in 0..Len(s) |-> IF n = 0 THEN 0 ELSE g[n - 1] + Len(defs[s[n]])]
  BY <1>1, <1>5
<1>7. SumsOf(defs, s) =
        [n \in 0..Len(s) |-> IF n = 0 THEN 0 ELSE SumsOf(defs, s)[n - 1] + Len(defs[s[n]])]
  BY <1>6, Zenon DEF SumsOf
<1> HIDE DEF S, Sums
<1>8. PICK f : f = SumsOf(defs, s)
  OBVIOUS
<1>9. /\ \A n \in 0..Len(s) : f[n] = IF n = 0 THEN 0 ELSE f[n - 1] + Len(defs[s[n]])
      /\ f = [n \in 0..Len(s) |-> f[n]]
  BY <1>7, <1>8
<1>10. f[0] = 0 /\ \A n \in 1..Len(s) : f[n] = f[n - 1] + Len(defs[s[n]])
  <2>1. 0 \in 0..Len(s) /\ \A n \in 1..Len(s) : n \in 0..Len(s) /\ n # 0
    BY <1>1
  <2> QED
    BY <1>9, <2>1
<1>11. \A n \in 0..Len(s) : f[n] \in Nat
  <2> DEFINE R == {n \in Nat : n <= Len(s) => f[n] \in Nat}
  <2>1. 0 \in R
    BY <1>10
  <2>2. ASSUME NEW n \in Nat, n \in R PROVE n + 1 \in R
    <3>1. n + 1 <= Len(s) => n + 1 \in 1..Len(s) /\ (n + 1) - 1 = n /\ n <= Len(s)
      BY <1>1
    <3> QED
      BY <3>1, <2>2, <1>1, <1>10, SMTT(40)
  <2>3. Nat \subseteq R
    <3> HIDE DEF R
    <3> QED
      BY <2>1, <2>2, Counting
  <2> QED
    BY <2>3, <1>1
<1> QED
  BY <1>8, <1>9, <1>10, <1>11

\* What an object defines comes first.
LEMMA LengthOfMore ==
  ASSUME NEW t, t.defs \in [Nums -> Seq(Names)], NEW x \in Nums, NEW s \in Seq(Nums)
  PROVE  /\ LengthOf(t, <<>>) = 0
         /\ LengthOf(t, s) \in Nat
         /\ LengthOf(t, <<x>> \o s) = Len(t.defs[x]) + LengthOf(t, s)
<1>0. \A r : LengthOf(t, r) = SumsOf(t.defs, r)[Len(r)]
  BY DEF LengthOf, SumsOf
<1>1. PICK q : q = <<x>> \o s
  OBVIOUS
<1>2. /\ q \in Seq(Nums) /\ Len(s) \in Nat /\ Len(q) = Len(s) + 1 /\ q[1] = x
      /\ \A i \in 1..Len(s) : q[i + 1] = s[i]
  BY <1>1
<1>3. PICK d : d = t.defs
  OBVIOUS
<1>4. PICK f : f = SumsOf(d, q)
  OBVIOUS
<1>5. PICK g : g = SumsOf(d, s)
  OBVIOUS
<1>6. /\ f \in [0..Len(q) -> Nat] /\ f[0] = 0
      /\ \A n \in 1..Len(q) : f[n] = f[n - 1] + Len(d[q[n]])
  BY <1>2, <1>3, <1>4, SumsExist
<1>7. /\ g \in [0..Len(s) -> Nat] /\ g[0] = 0
      /\ \A n \in 1..Len(s) : g[n] = g[n - 1] + Len(d[s[n]])
  BY <1>3, <1>5, SumsExist
<1>8. Len(d[x]) \in Nat /\ \A i \in 1..Len(s) : Len(d[s[i]]) \in Nat
  BY <1>3
<1> DEFINE S == {n \in Nat : n <= Len(s) => f[n + 1] = Len(d[x]) + g[n]}
<1>9. 0 \in S
  <2>1. 1 \in 1..Len(q) /\ 1 - 1 = 0 /\ 0 + 1 = 1
    BY <1>2
  <2>2. f[1] = f[0] + Len(d[x])
    BY <2>1, <1>2, <1>6
  <2> QED
    BY <2>1, <2>2, <1>6, <1>7, <1>8
<1>10. ASSUME NEW n \in Nat, n \in S PROVE n + 1 \in S
  <2>1. SUFFICES ASSUME n + 1 <= Len(s) PROVE f[(n + 1) + 1] = Len(d[x]) + g[n + 1]
    OBVIOUS
  <2>2. /\ (n + 1) + 1 \in 1..Len(q) /\ ((n + 1) + 1) - 1 = n + 1
        /\ n + 1 \in 1..Len(s) /\ (n + 1) - 1 = n /\ n <= Len(s) /\ n \in 0..Len(s)
    BY <2>1, <1>2, SMTT(40)
  <2>3. f[(n + 1) + 1] = f[n + 1] + Len(d[s[n + 1]])
    BY <2>2, <1>2, <1>6
  <2>4. g[n + 1] = g[n] + Len(d[s[n + 1]])
    BY <2>2, <1>7
  <2>5. f[n + 1] = Len(d[x]) + g[n] /\ g[n] \in Nat
    BY <2>2, <1>10, <1>7
  <2> QED
    BY <2>2, <2>3, <2>4, <2>5, <1>8, SMTT(40)
<1>11. Len(s) \in S
  <2> HIDE DEF S
  <2> QED
    BY <1>2, <1>9, <1>10, Counting
<1>12. f[Len(q)] = Len(d[x]) + g[Len(s)]
  BY <1>2, <1>11
<1>13. LengthOf(t, <<>>) = 0
  <2>1. <<>> \in Seq(Nums) /\ Len(<<>>) = 0
    OBVIOUS
  <2>2. SumsOf(d, <<>>)[0] = 0
    BY <2>1, <1>3, SumsExist
  <2> QED
    BY <2>1, <2>2, <1>0, <1>3
<1>14. g[Len(s)] \in Nat
  BY <1>7, <1>2, SMTT(40)
<1> QED
  BY <1>0, <1>1, <1>3, <1>4, <1>5, <1>12, <1>13, <1>14

\* The first place of one of T, or 0
PlaceIn(T, s) ==
  LET I == {i \in 1..Len(s) : s[i] \in T}
  IN IF I # {} THEN Min(I) ELSE 0

\* With one object more in front, the first place is 1 or one further.
LEMMA PlaceOfMore ==
  ASSUME NEW T, NEW s \in Seq(Nums), NEW x \in Nums
  PROVE  /\ PlaceIn(T, <<>>) = 0
         /\ PlaceIn(T, s) \in 0..Len(s)
         /\ PlaceIn(T, s) # 0 => s[PlaceIn(T, s)] \in T
         /\ PlaceIn(T, <<x>> \o s) = IF x \in T THEN 1
                                     ELSE IF PlaceIn(T, s) = 0 THEN 0 ELSE PlaceIn(T, s) + 1
<1>1. PICK q : q = <<x>> \o s
  OBVIOUS
<1>2. /\ q \in Seq(Nums) /\ Len(s) \in Nat /\ Len(q) = Len(s) + 1 /\ q[1] = x
      /\ \A i \in 1..Len(s) : q[i + 1] = s[i]
  BY <1>1
<1>3. PICK I : I = {i \in 1..Len(s) : s[i] \in T}
  OBVIOUS
<1>4. PICK J : J = {i \in 1..Len(q) : q[i] \in T}
  OBVIOUS
<1>5. I \in SUBSET Nat /\ J \in SUBSET Nat
  BY <1>2, <1>3, <1>4
<1>6. PlaceIn(T, s) = IF I # {} THEN Min(I) ELSE 0
  BY <1>3 DEF PlaceIn
<1>7. PlaceIn(T, q) = IF J # {} THEN Min(J) ELSE 0
  BY <1>4 DEF PlaceIn
<1>8. \A j \in Nat : j \in J <=> (j = 1 /\ x \in T) \/ (j - 1 \in I)
  <2>1. SUFFICES ASSUME NEW j \in Nat
                 PROVE  j \in J <=> (j = 1 /\ x \in T) \/ (j - 1 \in I)
    OBVIOUS
  <2>2. CASE j = 1
    <3>1. 1 \in 1..Len(q) /\ 1 - 1 \notin 1..Len(s)
      BY <1>2
    <3> QED
      BY <2>2, <3>1, <1>2, <1>3, <1>4
  <2>3. CASE j = 0
    BY <2>3, <1>2, <1>3, <1>4
  <2>4. CASE j > 1
    <3>1. PICK k \in Nat : j = k + 1 /\ k > 0
      BY <2>4
    <3>2. j \in 1..Len(q) <=> k \in 1..Len(s)
      BY <3>1, <1>2
    <3>3. k \in 1..Len(s) => q[j] = s[k]
      BY <3>1, <1>2
    <3>4. j - 1 = k /\ j # 1
      BY <3>1
    <3>5. j \in J <=> j \in 1..Len(q) /\ q[j] \in T
      BY <1>4
    <3>6. k \in I <=> k \in 1..Len(s) /\ s[k] \in T
      BY <1>3
    <3> QED
      BY <3>2, <3>3, <3>4, <3>5, <3>6
  <2> QED
    BY <2>2, <2>3, <2>4
<1>9. PlaceIn(T, q) = IF x \in T THEN 1 ELSE IF PlaceIn(T, s) = 0 THEN 0 ELSE PlaceIn(T, s) + 1
  <2>1. CASE x \in T
    <3>1. 1 \in J /\ 0 \notin J
      BY <1>8, <2>1, <1>4
    <3>2. Min(J) \in J /\ Min(J) <= 1 /\ Min(J) \in Nat
      BY <3>1, <1>5, LeastPlace
    <3>3. Min(J) = 1
      BY <3>1, <3>2
    <3> QED
      BY <2>1, <3>1, <3>3, <1>7
  <2>2. CASE x \notin T
    <3>1. \A j \in Nat : j \in J <=> j - 1 \in I
      BY <1>8, <2>2
    <3>2. CASE I = {}
      <4>1. J = {}
        BY <3>1, <3>2, <1>5
      <4> QED
        BY <4>1, <3>2, <2>2, <1>6, <1>7
    <3>3. CASE I # {}
      <4>1. PICK m \in Nat : m = Min(I) /\ m \in I /\ \A i \in I : m <= i
        BY <3>3, <1>5, LeastPlace
      <4>2. m + 1 \in J /\ m > 0
        BY <4>1, <3>1, <1>3
      <4>3. PICK n \in Nat : n = Min(J) /\ n \in J /\ n <= m + 1
        BY <4>2, <1>5, LeastPlace
      <4>4. n - 1 \in I /\ m <= n - 1
        BY <4>3, <3>1, <4>1
      <4>5. n = m + 1
        BY <4>3, <4>4
      <4>6. PlaceIn(T, q) = n /\ PlaceIn(T, s) = m
        BY <4>1, <4>2, <4>3, <3>3, <1>6, <1>7
      <4> QED
        BY <4>2, <4>5, <4>6, <2>2
    <3> QED
      BY <3>2, <3>3
  <2> QED
    BY <2>1, <2>2
<1>10. PlaceIn(T, s) \in 0..Len(s) /\ (PlaceIn(T, s) # 0 => s[PlaceIn(T, s)] \in T)
  <2>1. CASE I = {}
    BY <2>1, <1>6, <1>2
  <2>2. CASE I # {}
    <3>1. Min(I) \in I
      BY <2>2, <1>5, LeastPlace
    <3> QED
      BY <2>2, <3>1, <1>2, <1>3, <1>6
  <2> QED
    BY <2>1, <2>2
<1>11. PlaceIn(T, <<>>) = 0
  BY DEF PlaceIn
<1> QED
  BY <1>1, <1>9, <1>10, <1>11

\* How many slots come before those of the first of T
OffTo(t, T, x) == LengthOf(t, SubSeq(Line(t, x), 1, PlaceIn(T, Line(t, x)) - 1))

\* The first part of a way up
LEMMA StartOfMore ==
  ASSUME NEW x \in Nums, NEW s \in Seq(Nums), NEW k \in 1..(Len(s) + 1)
  PROVE  /\ SubSeq(<<x>> \o s, 1, 0) = <<>>
         /\ SubSeq(<<x>> \o s, 1, k) = <<x>> \o SubSeq(s, 1, k - 1)
         /\ SubSeq(s, 1, k - 1) \in Seq(Nums)
<1>0. Len(s) \in Nat /\ k \in Nat
  OBVIOUS
<1>1. PICK q : q = <<x>> \o s
  OBVIOUS
<1>2. /\ q \in Seq(Nums) /\ Len(q) = Len(s) + 1 /\ q[1] = x
      /\ \A i \in 1..Len(s) : q[i + 1] = s[i]
  BY <1>1
<1>3. PICK r : r = SubSeq(s, 1, k - 1)
  OBVIOUS
<1>4. r \in Seq(Nums) /\ Len(r) = k - 1 /\ \A i \in 1..(k - 1) : r[i] = s[i]
  BY <1>3, <1>0
<1>5. PICK a : a = SubSeq(q, 1, k)
  OBVIOUS
<1>6. a \in Seq(Nums) /\ Len(a) = k /\ \A i \in 1..k : a[i] = q[i]
  BY <1>5, <1>2, <1>0
<1>7. PICK b : b = <<x>> \o r
  OBVIOUS
<1>8. /\ b \in Seq(Nums) /\ Len(b) = k /\ b[1] = x
      /\ \A i \in 1..(k - 1) : b[i + 1] = r[i]
  BY <1>7, <1>4, <1>0
<1>9. ASSUME NEW i \in 1..k PROVE a[i] = b[i]
  <2>1. CASE i = 1
    BY <2>1, <1>2, <1>6, <1>8
  <2>2. CASE i # 1
    <3>1. PICK j \in 1..(k - 1) : i = j + 1
      BY <2>2, <1>0
    <3>2. j \in 1..Len(s)
      BY <1>0
    <3> QED
      BY <3>1, <3>2, <1>2, <1>4, <1>6, <1>8
  <2> QED
    BY <2>1, <2>2
<1>10. a = b
  BY <1>6, <1>8, <1>9
<1>11. SubSeq(q, 1, 0) = <<>>
  <2>1. PICK e : e = SubSeq(q, 1, 0)
    OBVIOUS
  <2>2. e \in Seq(Nums) /\ Len(e) = 0
    BY <2>1, <1>2
  <2>3. e = <<>>
    BY <2>2
  <2> QED
    BY <2>1, <2>3
<1> QED
  BY <1>1, <1>3, <1>4, <1>5, <1>7, <1>10, <1>11

Meets(t, T, x) == T \cap Above(t, x) # {}

\* The way up has one of T if there is one above.
LEMMA PlaceAbove ==
  ASSUME NEW O, NEW t, Shaped(O, t), NEW T, NEW x \in Nums
  PROVE  PlaceIn(T, Line(t, x)) # 0 <=> Meets(t, T, x)
<1>1. PICK s \in Seq(Nums) : s = Line(t, x)
  BY ShapedUp
<1>2. ToSet(s) = Above(t, x) /\ DOMAIN s = 1..Len(s)
  BY <1>1, ShapedUp
<1>3. PICK I : I = {i \in 1..Len(s) : s[i] \in T}
  OBVIOUS
<1>4. PlaceIn(T, s) = IF I # {} THEN Min(I) ELSE 0
  BY <1>3 DEF PlaceIn
<1>5. I # {} => Min(I) \in I
  <2>1. I \in SUBSET Nat
    BY <1>3
  <2> QED
    BY <2>1, LeastPlace
<1>6. 0 \notin I
  BY <1>3
<1>7. I # {} <=> T \cap ToSet(s) # {}
  BY <1>2, <1>3 DEF ToSet
<1> QED
  BY <1>1, <1>2, <1>4, <1>5, <1>6, <1>7 DEF Meets

\* The search goes on from the parent, behind what the object defines.
LEMMA OffToUp ==
  ASSUME NEW O, NEW t, Shaped(O, t), NEW T, NEW x \in Nums
  PROVE  /\ OffTo(t, T, x) \in Nat
         /\ x \in T => /\ PlaceIn(T, Line(t, x)) = 1
                       /\ OffTo(t, T, x) = 0
                       /\ Line(t, x)[1] = x
         /\ x \notin T /\ Meets(t, T, x) =>
              /\ t.up[x] \in Nums
              /\ Meets(t, T, t.up[x])
              /\ OffTo(t, T, x) = Len(t.defs[x]) + OffTo(t, T, t.up[x])
              /\ PlaceIn(T, Line(t, x)) # 0
              /\ PlaceIn(T, Line(t, t.up[x])) # 0
              /\ Line(t, x)[PlaceIn(T, Line(t, x))] = Line(t, t.up[x])[PlaceIn(T, Line(t, t.up[x]))]
<1>0. t.defs \in [Nums -> Seq(Names)]
  BY DEF Shaped
<1>1. t.up[x] \in Nums \cup {NOTHING} /\ NOTHING \notin Nums
  BY ShapedUp
<1>2. PICK s \in Seq(Nums) : s = Line(t, t.up[x])
  BY <1>1, ShapedUp
<1>3. PICK q \in Seq(Nums) : q = Line(t, x)
  BY ShapedUp
<1>4. q = <<x>> \o s
  BY <1>2, <1>3, ShapedUp
<1>5. /\ PlaceIn(T, s) \in 0..Len(s)
      /\ PlaceIn(T, q) = IF x \in T THEN 1 ELSE IF PlaceIn(T, s) = 0 THEN 0 ELSE PlaceIn(T, s) + 1
  BY <1>4, PlaceOfMore
<1>6. Len(s) \in Nat /\ Len(q) = Len(s) + 1 /\ q[1] = x /\ \A i \in 1..Len(s) : q[i + 1] = s[i]
  BY <1>4
<1>7. OffTo(t, T, x) = LengthOf(t, SubSeq(q, 1, PlaceIn(T, q) - 1))
  BY <1>3 DEF OffTo
<1>8. OffTo(t, T, x) \in Nat
  <2>1. PlaceIn(T, q) - 1 \in Int /\ PlaceIn(T, q) - 1 <= Len(q)
    BY <1>5, <1>6
  <2>2. PICK r : r = SubSeq(q, 1, PlaceIn(T, q) - 1)
    OBVIOUS
  <2>3. r \in Seq(Nums)
    <3>1. \A i \in 1..(PlaceIn(T, q) - 1) : i \in 1..Len(q)
      BY <2>1, <1>6
    <3> QED
      BY <2>1, <2>2, <3>1
  <2> QED
    BY <2>2, <2>3, <1>0, <1>7, LengthOfMore
<1>9. CASE x \in T
  <2>1. PlaceIn(T, q) - 1 = 0
    BY <1>5, <1>9
  <2>2. SubSeq(q, 1, 0) = <<>>
    BY <1>4, <1>6, StartOfMore
  <2>3. LengthOf(t, <<>>) = 0
    BY <1>0, LengthOfMore
  <2> QED
    BY <2>1, <2>2, <2>3, <1>3, <1>5, <1>6, <1>7, <1>8, <1>9
<1>10. CASE x \notin T /\ Meets(t, T, x)
  <2>1. PlaceIn(T, q) # 0
    BY <1>10, <1>3, PlaceAbove
  <2>2. PICK k \in 1..Len(s) : k = PlaceIn(T, s) /\ PlaceIn(T, q) = k + 1
    BY <2>1, <1>5, <1>10, <1>6
  <2>3. t.up[x] \in Nums
    <3>1. t.up[x] # NOTHING
      <4>1. SUFFICES ASSUME t.up[x] = NOTHING PROVE FALSE
        OBVIOUS
      <4>2. s = <<>>
        BY <4>1, <1>2, ShapedUp
      <4> QED
        BY <4>2, <2>2
    <3> QED
      BY <3>1, <1>1
  <2>4. Meets(t, T, t.up[x])
    BY <2>2, <2>3, <1>2, PlaceAbove
  <2>5. OffTo(t, T, t.up[x]) = LengthOf(t, SubSeq(s, 1, k - 1))
    BY <1>2, <2>2 DEF OffTo
  <2>6. SubSeq(q, 1, k) = <<x>> \o SubSeq(s, 1, k - 1) /\ SubSeq(s, 1, k - 1) \in Seq(Nums)
    BY <1>4, <1>6, StartOfMore
  <2>7. OffTo(t, T, x) = LengthOf(t, SubSeq(q, 1, k))
    <3>1. (k + 1) - 1 = k
      BY <1>6
    <3> QED
      BY <3>1, <2>2, <1>7
  <2>8. OffTo(t, T, x) = Len(t.defs[x]) + OffTo(t, T, t.up[x])
    BY <2>5, <2>6, <2>7, <1>0, LengthOfMore
  <2>9. q[PlaceIn(T, q)] = s[PlaceIn(T, s)]
    BY <2>2, <1>6
  <2>10. PlaceIn(T, s) # 0
    BY <2>2
  <2> QED
    BY <2>1, <2>3, <2>4, <2>8, <2>9, <2>10, <1>2, <1>3, <1>8, <1>10
<1> QED
  BY <1>8, <1>9, <1>10

\* Before() is the search for one object.
LEMMA BeforeUp ==
  ASSUME NEW O, NEW t, Shaped(O, t), NEW y \in Nums
  PROVE  /\ Before(t, y, y) = 0
         /\ \A z \in Above(t, y) :
              /\ Before(t, y, z) \in Nat
              /\ z # y => Before(t, y, z) = Len(t.defs[y]) + Before(t, t.up[y], z)
<1>1. ASSUME NEW x, NEW z PROVE Before(t, x, z) = OffTo(t, {z}, x)
  <2>1. PICK s : s = Line(t, x)
    OBVIOUS
  <2>2. {i \in 1..Len(s) : s[i] = z} = {i \in 1..Len(s) : s[i] \in {z}}
    OBVIOUS
  <2>3. SelectInSeq(s, LAMBDA w : w = z) = PlaceIn({z}, s)
    BY <2>2 DEF SelectInSeq, PlaceIn
  <2> QED
    BY <2>1, <2>3 DEF Before, OffTo
<1>2. Before(t, y, y) = 0
  <2>1. PICK T : T = {y}
    OBVIOUS
  <2>2. OffTo(t, T, y) = 0
    BY <2>1, OffToUp
  <2> QED
    BY <2>1, <2>2, <1>1
<1>3. ASSUME NEW z \in Above(t, y)
      PROVE  /\ Before(t, y, z) \in Nat
             /\ z # y => Before(t, y, z) = Len(t.defs[y]) + Before(t, t.up[y], z)
  <2>1. PICK T : T = {z}
    OBVIOUS
  <2>2. Meets(t, T, y)
    BY <2>1 DEF Meets
  <2>3. /\ OffTo(t, T, y) \in Nat
        /\ z # y => OffTo(t, T, y) = Len(t.defs[y]) + OffTo(t, T, t.up[y])
    BY <2>1, <2>2, OffToUp
  <2>4. Before(t, y, z) = OffTo(t, T, y) /\ Before(t, t.up[y], z) = OffTo(t, T, t.up[y])
    BY <2>1, <1>1
  <2> QED
    BY <2>3, <2>4
<1> QED
  BY <1>2, <1>3

\* dbpriv_count_properties() counts the properties of the object and those of its parent.
LEMMA CountUp ==
  ASSUME NEW O, NEW t, Shaped(O, t)
  PROVE  /\ dbpriv_count_properties(t, NOTHING) = 0
         /\ \A x \in Nums : /\ dbpriv_count_properties(t, x) \in Nat
                            /\ dbpriv_count_properties(t, x) =
                                 Len(t.defs[x]) + dbpriv_count_properties(t, t.up[x])
         /\ \A x \in Nums \cup {NOTHING} : dbpriv_count_properties(t, x) \in Nat
<1>0. t.defs \in [Nums -> Seq(Names)]
  BY DEF Shaped
<1>1. dbpriv_count_properties(t, NOTHING) = 0
  <2>0. 0 \in Nums /\ <<>> \in Seq(Nums)
    BY ObjectAssumption DEF Nums
  <2>1. LengthOf(t, <<>>) = 0
    BY <2>0, <1>0, LengthOfMore
  <2> QED
    BY <2>1, ShapedUp DEF dbpriv_count_properties
<1>2. ASSUME NEW x \in Nums
      PROVE  /\ dbpriv_count_properties(t, x) \in Nat
             /\ dbpriv_count_properties(t, x) = Len(t.defs[x]) + dbpriv_count_properties(t, t.up[x])
  <2>1. PICK s \in Seq(Nums) : s = Line(t, t.up[x])
    BY ShapedUp
  <2>2. Line(t, x) = <<x>> \o s /\ Line(t, x) \in Seq(Nums)
    BY <2>1, ShapedUp
  <2> QED
    BY <2>1, <2>2, <1>0, LengthOfMore DEF dbpriv_count_properties
<1> QED
  BY <1>1, <1>2

\* The slots before those of an ancestor of an ancestor
LEMMA BeforeVia ==
  ASSUME NEW O, NEW t, Shaped(O, t), NEW x \in Nums, NEW z \in Above(t, x)
  PROVE  /\ dbpriv_count_properties(t, x) = Before(t, x, z) + dbpriv_count_properties(t, z)
         /\ \A w \in Above(t, z) : Before(t, x, w) = Before(t, x, z) + Before(t, z, w)
<1> DEFINE Good(y, a) ==
             /\ dbpriv_count_properties(t, y) = Before(t, y, a) + dbpriv_count_properties(t, a)
             /\ \A w \in Above(t, a) : Before(t, y, w) = Before(t, y, a) + Before(t, a, w)
           S == {y \in Nums : \A a \in Above(t, y) : Good(y, a)}
<1>1. ASSUME NEW y \in Nums, t.up[y] \in S \cup {NOTHING} PROVE y \in S
  <2>1. SUFFICES ASSUME NEW a \in Above(t, y) PROVE Good(y, a)
    OBVIOUS
  <2>2. CASE a = y
    <3>1. Before(t, y, y) = 0 /\ dbpriv_count_properties(t, y) \in Nat
      BY BeforeUp, CountUp
    <3>2. \A w \in Above(t, y) : Before(t, y, w) \in Nat
      BY BeforeUp
    <3> QED
      BY <2>2, <3>1, <3>2
  <2>3. CASE a # y
    <3>1. PICK p \in Nums : p = t.up[y] /\ a \in Above(t, p) /\ p \in S
      <4>1. t.up[y] # NOTHING /\ a \in Above(t, t.up[y])
        BY <2>3, AboveUp
      <4> QED
        BY <4>1, <1>1
    <3>2. /\ Len(t.defs[y]) \in Nat /\ Before(t, p, a) \in Nat
          /\ Before(t, y, a) = Len(t.defs[y]) + Before(t, p, a)
          /\ dbpriv_count_properties(t, y) = Len(t.defs[y]) + dbpriv_count_properties(t, p)
          /\ a \in Nums
      BY <2>3, <3>1, BeforeUp, CountUp, ShapedUp, AboveUp, SMTT(40)
    <3>3. dbpriv_count_properties(t, p) \in Nat /\ dbpriv_count_properties(t, a) \in Nat
      BY <3>1, <3>2, CountUp
    <3>4. dbpriv_count_properties(t, p) = Before(t, p, a) + dbpriv_count_properties(t, a)
      BY <3>1
    <3>5. dbpriv_count_properties(t, y) = Before(t, y, a) + dbpriv_count_properties(t, a)
      BY <3>2, <3>3, <3>4
    <3>6. ASSUME NEW w \in Above(t, a) PROVE Before(t, y, w) = Before(t, y, a) + Before(t, a, w)
      <4>1. Before(t, p, w) = Before(t, p, a) + Before(t, a, w) /\ w \in Above(t, p)
        BY <3>1, AboveOrder
      <4>2. w # y /\ w \in Above(t, y)
        BY <4>1, <3>1, AboveOrder, AboveUp, ShapedUp
      <4>3. Before(t, y, w) = Len(t.defs[y]) + Before(t, p, w)
        BY <4>2, <3>1, BeforeUp
      <4>4. Before(t, a, w) \in Nat
        BY <3>2, BeforeUp
      <4> QED
        BY <4>1, <4>3, <4>4, <3>2
    <3> QED
      BY <3>5, <3>6
  <2> QED
    BY <2>2, <2>3
<1>2. Nums \subseteq S
  <2> HIDE DEF S
  <2> QED
    BY <1>1, ShapedInduction
<1> QED
  BY <1>2

\* The slots of an object's ancestor lie within its array, and those of one before those of
\* the next.
LEMMA BeforeBounds ==
  ASSUME NEW O, NEW t, Shaped(O, t), NEW x \in Nums, NEW z \in Above(t, x)
  PROVE  /\ Before(t, x, z) \in Nat /\ Len(t.defs[z]) \in Nat /\ dbpriv_count_properties(t, x) \in Nat
         /\ Before(t, x, z) + Len(t.defs[z]) <= dbpriv_count_properties(t, x)
         /\ \A w \in Above(t, z) :
              w # z => Before(t, x, w) >= Before(t, x, z) + Len(t.defs[z])
<1>1. z \in Nums /\ Before(t, x, z) \in Nat /\ Len(t.defs[z]) \in Nat
  BY AboveUp, BeforeUp, ShapedUp
<1>2. /\ dbpriv_count_properties(t, x) = Before(t, x, z) + dbpriv_count_properties(t, z)
      /\ \A w \in Above(t, z) : Before(t, x, w) = Before(t, x, z) + Before(t, z, w)
  BY BeforeVia
<1>3. PICK c : c = dbpriv_count_properties(t, t.up[z])
  OBVIOUS
<1>4. c \in Nat /\ dbpriv_count_properties(t, z) = Len(t.defs[z]) + c
  BY <1>1, <1>3, CountUp, ShapedUp
<1>5. ASSUME NEW w \in Above(t, z), w # z PROVE Before(t, x, w) >= Before(t, x, z) + Len(t.defs[z])
  <2>1. PICK b : b = Before(t, t.up[z], w)
    OBVIOUS
  <2>2. Before(t, z, w) = Len(t.defs[z]) + b /\ t.up[z] # NOTHING /\ w \in Above(t, t.up[z])
    BY <2>1, <1>1, <1>5, BeforeUp, AboveUp
  <2>3. b \in Nat
    BY <2>1, <2>2, <1>1, ShapedUp, BeforeUp
  <2> QED
    BY <2>2, <2>3, <1>1, <1>2
<1> QED
  BY <1>1, <1>2, <1>4, <1>5, SMTT(40)

\* Of what an object and its ancestors define no two have the same name.
Distinct(t) ==
  \A x \in Nums : \A z, w \in Above(t, x) : \A i \in DOMAIN t.defs[z], j \in DOMAIN t.defs[w] :
    t.defs[z][i] = t.defs[w][j] => z = w /\ i = j

IndexOfName(list, name) == SelectInSeq(list, LAMBDA p : p = name)

Definers(t, name) == {z \in Nums : name \in ToSet(t.defs[z])}

\* The place of a name among those that an object defines
LEMMA NameIndex ==
  ASSUME NEW list \in Seq(Names), NEW name, name \in ToSet(list)
  PROVE  /\ IndexOfName(list, name) \in DOMAIN list
         /\ list[IndexOfName(list, name)] = name
<1>1. PICK I : I = {i \in 1..Len(list) : list[i] = name}
  OBVIOUS
<1>2. IndexOfName(list, name) = IF I # {} THEN Min(I) ELSE 0
  BY <1>1 DEF SelectInSeq, IndexOfName
<1>3. DOMAIN list = 1..Len(list) /\ I \in SUBSET Nat
  BY <1>1
<1>4. I # {}
  BY <1>1, <1>3 DEF ToSet
<1>5. Min(I) \in I
  BY <1>3, <1>4, LeastPlace
<1> QED
  BY <1>1, <1>2, <1>3, <1>4, <1>5

\* db_find_property() is the search for an object that defines the name.
LEMMA FindIsSearch ==
  ASSUME NEW O, NEW t, Shaped(O, t), NEW x \in Nums, NEW name
  PROVE  LET T == Definers(t, name)
             at == PlaceIn(T, Line(t, x))
         IN db_find_property(t, x, name) =
              IF at = 0 THEN NoSlot
              ELSE [definer |-> Line(t, x)[at],
                    n |-> OffTo(t, T, x)
                          + IndexOfName(t.defs[Line(t, x)[at]], name)]
<1> DEFINE T == Definers(t, name)
<1>1. PICK s \in Seq(Nums) : s = Line(t, x)
  BY ShapedUp
<1>2. \A i \in 1..Len(s) : s[i] \in Nums
  BY <1>1
<1>3. {i \in 1..Len(s) : name \in ToSet(t.defs[s[i]])} = {i \in 1..Len(s) : s[i] \in T}
  BY <1>2 DEF Definers
<1>4. SelectInSeq(s, LAMBDA y : name \in ToSet(t.defs[y])) = PlaceIn(T, s)
  BY <1>3 DEF SelectInSeq, PlaceIn
<1> HIDE DEF T
<1> QED
  BY <1>1, <1>4 DEF db_find_property, OffTo, T, IndexOfName

\* A property is found where it is defined,
LEMMA FindHere ==
  ASSUME NEW O, NEW t, Shaped(O, t), NEW x \in Nums, NEW name, name \in ToSet(t.defs[x])
  PROVE  \E i \in DOMAIN t.defs[x] :
           /\ t.defs[x][i] = name
           /\ db_find_property(t, x, name) = [definer |-> x, n |-> i]
<1>1. PICK T : T = Definers(t, name)
  OBVIOUS
<1>2. \A z \in Nums : z \in T <=> name \in ToSet(t.defs[z])
  BY <1>1 DEF Definers
<1>3. \A y \in Nums : db_find_property(t, y, name) =
        IF PlaceIn(T, Line(t, y)) = 0 THEN NoSlot
        ELSE [definer |-> Line(t, y)[PlaceIn(T, Line(t, y))],
              n |-> OffTo(t, T, y)
                    + IndexOfName(t.defs[Line(t, y)[PlaceIn(T, Line(t, y))]], name)]
  BY <1>1, FindIsSearch
<1>4. t.defs[x] \in Seq(Names) /\ Len(t.defs[x]) \in Nat
  BY ShapedUp
<1>5. x \in T
  BY <1>2
<1>6. PICK i : i = IndexOfName(t.defs[x], name)
  OBVIOUS
<1>7. i \in DOMAIN t.defs[x] /\ t.defs[x][i] = name
  BY <1>4, <1>6, NameIndex
<1>8. OffTo(t, T, x) = 0 /\ PlaceIn(T, Line(t, x)) = 1 /\ Line(t, x)[1] = x
  BY <1>5, OffToUp
<1>9. db_find_property(t, x, name) = [definer |-> x, n |-> 0 + i]
  BY <1>6, <1>8, <1>3
<1>10. 0 + i = i
  BY <1>4, <1>7
<1> QED
  BY <1>7, <1>9, <1>10

\* or as many places later than it is found from the parent as the object defines
\* properties,
LEMMA FindAbove ==
  ASSUME NEW O, NEW t, Shaped(O, t), NEW x \in Nums, NEW name, name \notin ToSet(t.defs[x]),
         Meets(t, Definers(t, name), x)
  PROVE  /\ t.up[x] \in Nums
         /\ Meets(t, Definers(t, name), t.up[x])
         /\ db_find_property(t, t.up[x], name).definer \in Nums
         /\ db_find_property(t, t.up[x], name).n \in Nat
         /\ db_find_property(t, x, name) =
              [definer |-> db_find_property(t, t.up[x], name).definer,
               n |-> Len(t.defs[x]) + db_find_property(t, t.up[x], name).n]
<1>1. PICK T : T = Definers(t, name)
  OBVIOUS
<1>2. \A z \in Nums : z \in T <=> name \in ToSet(t.defs[z])
  BY <1>1 DEF Definers
<1>3. \A y \in Nums : db_find_property(t, y, name) =
        IF PlaceIn(T, Line(t, y)) = 0 THEN NoSlot
        ELSE [definer |-> Line(t, y)[PlaceIn(T, Line(t, y))],
              n |-> OffTo(t, T, y)
                    + IndexOfName(t.defs[Line(t, y)[PlaceIn(T, Line(t, y))]], name)]
  BY <1>1, FindIsSearch
<1>4. t.defs[x] \in Seq(Names) /\ Len(t.defs[x]) \in Nat
  BY ShapedUp
<1>5. x \notin T /\ Meets(t, T, x)
  BY <1>1, <1>2
<1>6. /\ t.up[x] \in Nums
      /\ Meets(t, T, t.up[x])
      /\ OffTo(t, T, x) = Len(t.defs[x]) + OffTo(t, T, t.up[x])
      /\ PlaceIn(T, Line(t, x)) # 0
      /\ PlaceIn(T, Line(t, t.up[x])) # 0
      /\ Line(t, x)[PlaceIn(T, Line(t, x))] = Line(t, t.up[x])[PlaceIn(T, Line(t, t.up[x]))]
  BY <1>5, OffToUp
<1>7. PICK s \in Seq(Nums) : s = Line(t, t.up[x])
  BY <1>6, ShapedUp
<1>8. PICK z : z = s[PlaceIn(T, s)]
  OBVIOUS
<1>9. PlaceIn(T, s) \in 1..Len(s) /\ z \in T
  <2>1. PlaceIn(T, s) \in 0..Len(s) /\ (PlaceIn(T, s) # 0 => s[PlaceIn(T, s)] \in T)
    BY PlaceOfMore
  <2>2. PlaceIn(T, s) # 0 /\ Len(s) \in Nat
    BY <1>6, <1>7
  <2> QED
    BY <2>1, <2>2, <1>8
<1>10. z \in Nums
  BY <1>8, <1>9
<1>11. PICK k : k = IndexOfName(t.defs[z], name)
  OBVIOUS
<1>12. t.defs[z] \in Seq(Names) /\ name \in ToSet(t.defs[z])
  BY <1>9, <1>10, <1>2, ShapedUp
<1>13. k \in DOMAIN t.defs[z]
  BY <1>11, <1>12, NameIndex
<1>14. k \in Nat
  BY <1>12, <1>13
<1>15. PICK o \in Nat : o = OffTo(t, T, t.up[x])
  BY <1>6, OffToUp
<1>16. db_find_property(t, t.up[x], name) = [definer |-> z, n |-> o + k]
  BY <1>6, <1>7, <1>8, <1>11, <1>15, <1>3
<1>17. db_find_property(t, x, name) = [definer |-> z, n |-> (Len(t.defs[x]) + o) + k]
  BY <1>6, <1>7, <1>8, <1>11, <1>15, <1>3
<1>18. (Len(t.defs[x]) + o) + k = Len(t.defs[x]) + (o + k) /\ o + k \in Nat
  BY <1>14, <1>15, <1>4
<1> QED
  BY <1>1, <1>6, <1>10, <1>14, <1>16, <1>17, <1>18

\* or not at all.
LEMMA FindNone ==
  ASSUME NEW O, NEW t, Shaped(O, t), NEW x \in Nums, NEW name,
         ~Meets(t, Definers(t, name), x)
  PROVE  db_find_property(t, x, name) = NoSlot
<1>1. PICK T : T = Definers(t, name)
  OBVIOUS
<1>2. PlaceIn(T, Line(t, x)) = 0
  BY <1>1, PlaceAbove
<1> QED
  BY <1>1, <1>2, FindIsSearch

\* The slot for what an ancestor defines lies behind those of the objects before it.
LEMMA FindIs ==
  ASSUME NEW O, NEW t, Shaped(O, t), Distinct(t), NEW x \in Nums, NEW z \in Above(t, x),
         NEW i \in DOMAIN t.defs[z]
  PROVE  db_find_property(t, x, t.defs[z][i]) = [definer |-> z, n |-> Before(t, x, z) + i]
<1> DEFINE name == t.defs[z][i]
           S == {y \in Nums : z \in Above(t, y) =>
                   db_find_property(t, y, name) = [definer |-> z, n |-> Before(t, y, z) + i]}
<1>1. ASSUME NEW y \in Nums, t.up[y] \in S \cup {NOTHING} PROVE y \in S
  <2>1. SUFFICES ASSUME z \in Above(t, y)
                 PROVE  db_find_property(t, y, name) = [definer |-> z, n |-> Before(t, y, z) + i]
    OBVIOUS
  <2>2. /\ y \in Above(t, y) /\ z \in Nums
        /\ \A j \in DOMAIN t.defs[y] : t.defs[y][j] = name => z = y /\ i = j
    <3>1. y \in Above(t, y) /\ z \in Nums
      BY <2>1, AboveUp
    <3> QED
      BY <3>1, <2>1 DEF Distinct
  <2>3. i \in Nat /\ name \in ToSet(t.defs[z]) /\ Len(t.defs[y]) \in Nat
    <3>1. t.defs[z] \in Seq(Names) /\ Len(t.defs[y]) \in Nat
      BY <2>2, ShapedUp
    <3> QED
      BY <3>1 DEF ToSet
  <2> HIDE DEF name
  <2>4. CASE z = y
    <3>1. PICK j \in DOMAIN t.defs[y] :
            t.defs[y][j] = name /\ db_find_property(t, y, name) = [definer |-> y, n |-> j]
      BY <2>3, <2>4, FindHere
    <3>2. j = i
      BY <3>1, <2>2
    <3>3. Before(t, y, z) + i = i
      BY <2>3, <2>4, BeforeUp
    <3> QED
      BY <3>1, <3>2, <3>3, <2>4
  <2>5. CASE z # y
    <3>1. name \notin ToSet(t.defs[y])
      BY <2>2, <2>5 DEF ToSet
    <3>2. Meets(t, Definers(t, name), y)
      BY <2>1, <2>2, <2>3 DEF Definers, Meets
    <3>3. t.up[y] \in Nums /\ z \in Above(t, t.up[y]) /\ t.up[y] \in S
      <4>1. t.up[y] # NOTHING /\ z \in Above(t, t.up[y])
        BY <2>1, <2>5, AboveUp
      <4> QED
        BY <4>1, <1>1
    <3>4. db_find_property(t, t.up[y], name) = [definer |-> z, n |-> Before(t, t.up[y], z) + i]
      BY <3>3
    <3>5. db_find_property(t, y, name) =
            [definer |-> db_find_property(t, t.up[y], name).definer,
             n |-> Len(t.defs[y]) + db_find_property(t, t.up[y], name).n]
      BY <3>1, <3>2, FindAbove
    <3>7. Before(t, y, z) = Len(t.defs[y]) + Before(t, t.up[y], z) /\ Before(t, t.up[y], z) \in Nat
      BY <2>1, <2>5, <3>3, BeforeUp
    <3>8. Len(t.defs[y]) + (Before(t, t.up[y], z) + i) = Before(t, y, z) + i
      BY <3>7, <2>3
    <3> QED
      BY <3>4, <3>5, <3>8
  <2> QED
    BY <2>4, <2>5
<1>2. Nums \subseteq S
  <2> HIDE DEF S
  <2> QED
    BY <1>1, ShapedInduction
<1> QED
  BY <1>2

\* The slot of the k-th on the way up from x for what has the place n in that of x
SlotAt(t, slots, x, n, k) ==
  slots[Line(t, x)[k]][n - LengthOf(t, SubSeq(Line(t, x), 1, k - 1))]

\* It is the first that is not clear.
FirstSlot(t, slots, x, n, k) ==
  /\ k \in DOMAIN Line(t, x)
  /\ SlotAt(t, slots, x, n, k).value # CLEAR
  /\ \A j \in 1..(k - 1) : SlotAt(t, slots, x, n, j).value = CLEAR

\* There is no other.
LEMMA ValueIs ==
  ASSUME NEW t, NEW slots, NEW x, Line(t, x) \in Seq(Nums), NEW name, NEW k,
         FirstSlot(t, slots, x, db_find_property(t, x, name).n, k)
  PROVE  property_value(t, slots, x, name) = SlotAt(t, slots, x, db_find_property(t, x, name).n, k).value
<1>1. PICK n : n = db_find_property(t, x, name).n
  OBVIOUS
<1>2. PICK s \in Seq(Nums) : s = Line(t, x)
  OBVIOUS
<1>3. DOMAIN s = 1..Len(s) /\ Len(s) \in Nat
  OBVIOUS
<1> DEFINE P(c) == /\ SlotAt(t, slots, x, n, c).value # CLEAR
                   /\ \A j \in 1..(c - 1) : SlotAt(t, slots, x, n, j).value = CLEAR
           first == CHOOSE c \in DOMAIN s : P(c)
<1>4. property_value(t, slots, x, name) = SlotAt(t, slots, x, n, first).value
  BY <1>1, <1>2 DEF property_value, SlotAt
<1>5. k \in DOMAIN s /\ P(k)
  BY <1>1, <1>2 DEF FirstSlot
<1> HIDE DEF P
<1>6. first \in DOMAIN s /\ P(first)
  BY <1>5
<1> HIDE DEF first
<1>7. k \in Nat /\ first \in Nat /\ k >= 1 /\ first >= 1
  BY <1>3, <1>5, <1>6
<1>8. ~(k < first)
  <2>1. k < first => k \in 1..(first - 1)
    BY <1>7
  <2> QED
    BY <2>1, <1>5, <1>6 DEF P
<1>9. ~(first < k)
  <2>1. first < k => first \in 1..(k - 1)
    BY <1>7
  <2> QED
    BY <2>1, <1>5, <1>6 DEF P
<1>10. k = first
  BY <1>7, <1>8, <1>9
<1> QED
  BY <1>1, <1>4, <1>10

\* The object's own slot comes first.
LEMMA SlotAtFirst ==
  ASSUME NEW O, NEW t, Shaped(O, t), NEW slots, NEW x \in Nums, NEW n \in Nat
  PROVE  1 \in DOMAIN Line(t, x) /\ SlotAt(t, slots, x, n, 1) = slots[x][n]
<1>0. t.defs \in [Nums -> Seq(Names)] /\ Len(t.defs[x]) \in Nat
  BY ShapedUp DEF Shaped
<1>1. PICK s \in Seq(Nums) : s = Line(t, t.up[x])
  BY ShapedUp
<1>2. PICK q \in Seq(Nums) : q = Line(t, x)
  BY ShapedUp
<1>3. q = <<x>> \o s
  BY <1>1, <1>2, ShapedUp
<1>4. /\ Len(s) \in Nat /\ Len(q) = Len(s) + 1 /\ DOMAIN q = 1..Len(q) /\ DOMAIN s = 1..Len(s)
      /\ q[1] = x /\ \A i \in 1..Len(s) : q[i + 1] = s[i]
  BY <1>3
<1>5. LengthOf(t, <<>>) = 0
  BY <1>0, LengthOfMore
<1>6. SubSeq(q, 1, 0) = <<>>
  BY <1>3, <1>4, StartOfMore
<1>7. 1 - 1 = 0 /\ n - 0 = n
  OBVIOUS
<1>9. n - LengthOf(t, SubSeq(q, 1, 1 - 1)) = n
  BY <1>5, <1>6, <1>7
<1>8. SlotAt(t, slots, x, n, 1) = slots[q[1]][n - LengthOf(t, SubSeq(q, 1, 1 - 1))]
  BY <1>2 DEF SlotAt
<1> QED
  BY <1>2, <1>4, <1>8, <1>9

\* When its own is clear, the first slot of the object is the parent's.
LEMMA FirstSlotUp ==
  ASSUME NEW O, NEW t, Shaped(O, t), NEW slots, NEW x \in Nums, t.up[x] \in Nums,
         NEW m \in Nat, NEW n \in Nat, n = Len(t.defs[x]) + m, slots[x][n].value = CLEAR,
         NEW k, FirstSlot(t, slots, t.up[x], m, k)
  PROVE  /\ FirstSlot(t, slots, x, n, k + 1)
         /\ SlotAt(t, slots, x, n, k + 1) = SlotAt(t, slots, t.up[x], m, k)
<1>1. SlotAt(t, slots, x, n, 1) = slots[x][n]
  BY SlotAtFirst
<1>2. PICK s \in Seq(Nums) : s = Line(t, t.up[x])
  BY ShapedUp
<1>3. DOMAIN s = 1..Len(s) /\ Len(s) \in Nat /\ k \in 1..Len(s)
  BY <1>2 DEF FirstSlot
<1>10. PICK q \in Seq(Nums) : q = Line(t, x)
  BY ShapedUp
<1>11. q = <<x>> \o s
  BY <1>2, <1>10, ShapedUp
<1>12. t.defs \in [Nums -> Seq(Names)] /\ Len(t.defs[x]) \in Nat
  BY ShapedUp DEF Shaped
<1>13. /\ Len(s) \in Nat /\ Len(q) = Len(s) + 1 /\ DOMAIN q = 1..Len(q) /\ DOMAIN s = 1..Len(s)
       /\ q[1] = x /\ \A i \in 1..Len(s) : q[i + 1] = s[i]
  BY <1>11
<1>4. ASSUME NEW h \in 1..Len(s)
      PROVE  /\ h + 1 \in DOMAIN Line(t, x)
             /\ SlotAt(t, slots, x, n, h + 1) = SlotAt(t, slots, t.up[x], m, h)
  <2>6. (h + 1) - 1 = h /\ h + 1 \in 1..Len(q) /\ h \in 1..(Len(s) + 1)
    BY <1>13
  <2>7. PICK r : r = SubSeq(s, 1, h - 1)
    OBVIOUS
  <2>8. SubSeq(q, 1, h) = <<x>> \o r /\ r \in Seq(Nums)
    BY <2>6, <2>7, <1>11, StartOfMore
  <2>9. /\ LengthOf(t, SubSeq(q, 1, h)) = Len(t.defs[x]) + LengthOf(t, r)
        /\ LengthOf(t, r) \in Nat
    BY <2>8, <1>12, LengthOfMore
  <2>10. n - LengthOf(t, SubSeq(q, 1, h)) = m - LengthOf(t, r)
    BY <2>9, <1>12
  <2>11. q[h + 1] = s[h]
    BY <1>13
  <2>12. SlotAt(t, slots, t.up[x], m, h) = slots[s[h]][m - LengthOf(t, r)]
    BY <2>7, <1>2 DEF SlotAt
  <2>13. SlotAt(t, slots, x, n, h + 1) = slots[q[h + 1]][n - LengthOf(t, SubSeq(q, 1, h))]
    BY <2>6, <1>10 DEF SlotAt
  <2> QED
    BY <1>10, <1>13, <2>6, <2>10, <2>11, <2>12, <2>13
<1>5. ASSUME NEW j \in 1..((k + 1) - 1) PROVE SlotAt(t, slots, x, n, j).value = CLEAR
  <2>1. CASE j = 1
    BY <2>1, <1>1
  <2>2. CASE j # 1
    <3>1. PICK h \in 1..(k - 1) : j = h + 1
      BY <2>2, <1>3
    <3>2. h \in 1..Len(s)
      BY <1>3
    <3>3. SlotAt(t, slots, t.up[x], m, h).value = CLEAR
      BY DEF FirstSlot
    <3> QED
      BY <3>1, <3>2, <3>3, <1>4
  <2> QED
    BY <2>1, <2>2
<1>6. /\ k + 1 \in DOMAIN Line(t, x)
      /\ SlotAt(t, slots, x, n, k + 1) = SlotAt(t, slots, t.up[x], m, k)
  BY <1>3, <1>4
<1>7. SlotAt(t, slots, t.up[x], m, k).value # CLEAR
  BY DEF FirstSlot
<1> QED
  BY <1>5, <1>6, <1>7 DEF FirstSlot

\* Who defines a property has a value for it.
OwnValues(t, slots) ==
  \A z \in Nums : \A i \in DOMAIN t.defs[z] : slots[z][i].value # CLEAR

\* A place is a number.
LEMMA FindNumber ==
  ASSUME NEW O, NEW t, Shaped(O, t), NEW x \in Nums, NEW name, Meets(t, Definers(t, name), x)
  PROVE  db_find_property(t, x, name).n \in Nat /\ db_find_property(t, x, name).definer \in Nums
<1>1. Len(t.defs[x]) \in Nat /\ t.defs[x] \in Seq(Names)
  BY ShapedUp
<1>2. CASE name \in ToSet(t.defs[x])
  <2>1. PICK i \in DOMAIN t.defs[x] : db_find_property(t, x, name) = [definer |-> x, n |-> i]
    BY <1>2, FindHere
  <2> QED
    BY <2>1, <1>1
<1>3. CASE name \notin ToSet(t.defs[x])
  <2>1. /\ db_find_property(t, t.up[x], name).definer \in Nums
        /\ db_find_property(t, t.up[x], name).n \in Nat
        /\ db_find_property(t, x, name) =
             [definer |-> db_find_property(t, t.up[x], name).definer,
              n |-> Len(t.defs[x]) + db_find_property(t, t.up[x], name).n]
    BY <1>3, FindAbove
  <2> QED
    BY <2>1, <1>1
<1> QED
  BY <1>2, <1>3

\* So there is always a first slot that is not clear,
LEMMA FirstSlotExists ==
  ASSUME NEW O, NEW t, Shaped(O, t), NEW slots, OwnValues(t, slots), NEW x \in Nums, NEW name,
         Meets(t, Definers(t, name), x)
  PROVE  \E k : FirstSlot(t, slots, x, db_find_property(t, x, name).n, k)
<1> DEFINE S == {y \in Nums : Meets(t, Definers(t, name), y) =>
                   \E k : FirstSlot(t, slots, y, db_find_property(t, y, name).n, k)}
<1>1. ASSUME NEW y \in Nums, t.up[y] \in S \cup {NOTHING} PROVE y \in S
  <2>1. SUFFICES ASSUME Meets(t, Definers(t, name), y)
                 PROVE  \E k : FirstSlot(t, slots, y, db_find_property(t, y, name).n, k)
    OBVIOUS
  <2>2. PICK n \in Nat : n = db_find_property(t, y, name).n
    BY <2>1, FindNumber
  <2>3. 1 \in DOMAIN Line(t, y) /\ SlotAt(t, slots, y, n, 1) = slots[y][n]
    BY SlotAtFirst
  <2>4. CASE slots[y][n].value # CLEAR
    <3>1. \A j \in 1..(1 - 1) : FALSE
      OBVIOUS
    <3>2. FirstSlot(t, slots, y, n, 1)
      BY <2>3, <2>4, <3>1 DEF FirstSlot
    <3> QED
      BY <2>2, <3>2
  <2>5. CASE slots[y][n].value = CLEAR
    <3>1. name \notin ToSet(t.defs[y])
      <4>1. SUFFICES ASSUME name \in ToSet(t.defs[y]) PROVE FALSE
        OBVIOUS
      <4>2. PICK i \in DOMAIN t.defs[y] : db_find_property(t, y, name) = [definer |-> y, n |-> i]
        BY <4>1, FindHere
      <4> QED
        BY <4>2, <2>2, <2>5 DEF OwnValues
    <3>2. /\ t.up[y] \in Nums /\ Meets(t, Definers(t, name), t.up[y])
          /\ db_find_property(t, t.up[y], name).n \in Nat
          /\ db_find_property(t, y, name) =
               [definer |-> db_find_property(t, t.up[y], name).definer,
                n |-> Len(t.defs[y]) + db_find_property(t, t.up[y], name).n]
      BY <2>1, <3>1, FindAbove
    <3>3. PICK m \in Nat : m = db_find_property(t, t.up[y], name).n
      BY <3>2
    <3>4. n = Len(t.defs[y]) + m
      BY <2>2, <3>2, <3>3
    <3>5. t.up[y] \in S
      BY <3>2, <1>1, NothingIsNoNumber
    <3>6. PICK k : FirstSlot(t, slots, t.up[y], m, k)
      BY <3>2, <3>3, <3>5
    <3>7. t.up[y] \in Nums
      BY <3>2
    <3>8. FirstSlot(t, slots, y, n, k + 1)
      BY <3>3, <3>4, <3>6, <3>7, <2>2, <2>5, FirstSlotUp
    <3> QED
      BY <2>2, <3>8
  <2> QED
    BY <2>4, <2>5
<1>2. Nums \subseteq S
  <2> HIDE DEF S
  <2> QED
    BY <1>1, ShapedInduction
<1> QED
  BY <1>2

\* and the value of a clear slot is the parent's.
LEMMA ValueUp ==
  ASSUME NEW O, NEW t, Shaped(O, t), NEW slots, OwnValues(t, slots), NEW x \in Nums, NEW name,
         Meets(t, Definers(t, name), x)
  PROVE  IF slots[x][db_find_property(t, x, name).n].value # CLEAR
         THEN property_value(t, slots, x, name) = slots[x][db_find_property(t, x, name).n].value
         ELSE /\ t.up[x] \in Nums
              /\ Meets(t, Definers(t, name), t.up[x])
              /\ property_value(t, slots, x, name) = property_value(t, slots, t.up[x], name)
<1>1. PICK n \in Nat : n = db_find_property(t, x, name).n
  BY FindNumber
<1>2. PICK k : FirstSlot(t, slots, x, n, k)
  BY <1>1, FirstSlotExists
<1>3. property_value(t, slots, x, name) = SlotAt(t, slots, x, n, k).value
  <2>1. Line(t, x) \in Seq(Nums)
    BY ShapedUp
  <2> QED
    BY <2>1, <1>1, <1>2, ValueIs, ZenonT(40)
<1>4. SlotAt(t, slots, x, n, 1) = slots[x][n]
  BY SlotAtFirst
<1>5. PICK q \in Seq(Nums) : q = Line(t, x)
  BY ShapedUp
<1>6. k \in Nat /\ k >= 1
  BY <1>2, <1>5 DEF FirstSlot
<1>7. CASE slots[x][n].value # CLEAR
  <2>1. k = 1
    <3>1. k # 1 => 1 \in 1..(k - 1)
      BY <1>6
    <3> QED
      BY <3>1, <1>2, <1>4, <1>7 DEF FirstSlot
  <2> QED
    BY <2>1, <1>1, <1>3, <1>4, <1>7
<1>8. CASE slots[x][n].value = CLEAR
  <2>1. k # 1
    BY <1>2, <1>4, <1>8 DEF FirstSlot
  <2>2. name \notin ToSet(t.defs[x])
    <3>1. SUFFICES ASSUME name \in ToSet(t.defs[x]) PROVE FALSE
      OBVIOUS
    <3>2. PICK i \in DOMAIN t.defs[x] : db_find_property(t, x, name) = [definer |-> x, n |-> i]
      BY <3>1, FindHere
    <3> QED
      BY <3>2, <1>1, <1>8 DEF OwnValues
  <2>3. /\ t.up[x] \in Nums /\ Meets(t, Definers(t, name), t.up[x])
        /\ db_find_property(t, t.up[x], name).n \in Nat
        /\ db_find_property(t, x, name) =
             [definer |-> db_find_property(t, t.up[x], name).definer,
              n |-> Len(t.defs[x]) + db_find_property(t, t.up[x], name).n]
    BY <2>2, FindAbove
  <2>4. PICK m \in Nat : m = db_find_property(t, t.up[x], name).n
    BY <2>3
  <2>5. n = Len(t.defs[x]) + m
    BY <1>1, <2>3, <2>4
  <2>6. PICK i : FirstSlot(t, slots, t.up[x], m, i)
    BY <2>3, <2>4, FirstSlotExists
  <2>7. property_value(t, slots, t.up[x], name) = SlotAt(t, slots, t.up[x], m, i).value
    <3>1. Line(t, t.up[x]) \in Seq(Nums)
      BY <2>3, ShapedUp
    <3> QED
      BY <3>1, <2>4, <2>6, ValueIs, ZenonT(40)
  <2>8. t.up[x] \in Nums
    BY <2>3
  <2>9. /\ FirstSlot(t, slots, x, n, i + 1)
        /\ SlotAt(t, slots, x, n, i + 1) = SlotAt(t, slots, t.up[x], m, i)
    BY <1>1, <1>8, <2>4, <2>5, <2>6, <2>8, FirstSlotUp
  <2>12. property_value(t, slots, x, name) = SlotAt(t, slots, x, n, i + 1).value
    <3>1. Line(t, x) \in Seq(Nums)
      BY ShapedUp
    <3> QED
      BY <3>1, <2>9, <1>1, ValueIs, ZenonT(40)
  <2> QED
    BY <2>3, <2>7, <2>9, <2>12, <1>1, <1>8
<1> QED
  BY <1>1, <1>7, <1>8

-----------------------------------------------------------------------------
(* Arrays of slots that fit the shape *)

Fits(O, t, slots) ==
  /\ Shaped(O, t)
  /\ slots \in [Nums -> Seq(SlotRecords)]
  /\ \A y \in Nums : Len(slots[y]) = dbpriv_count_properties(t, y)
  /\ \A y \in Nums \ O : t.defs[y] = <<>>
  /\ Distinct(t)
  /\ OwnValues(t, slots)

\* x has the property name: it is the i-th that z defines.
Has(t, x, name, z, i) == z \in Above(t, x) /\ i \in DOMAIN t.defs[z] /\ t.defs[z][i] = name

HasIt(t, x, name) == \E z \in Nums : \E i \in DOMAIN t.defs[z] : Has(t, x, name, z, i)

\* The place of what an ancestor defines
Place(t, x, z, i) == Before(t, x, z) + i

\* A name is met on the way up if and only if the object has that property.
LEMMA HasMeets ==
  ASSUME NEW O, NEW t, Shaped(O, t), NEW x \in Nums, NEW name
  PROVE  Meets(t, Definers(t, name), x) <=> HasIt(t, x, name)
<1>1. \A z \in Nums : t.defs[z] \in Seq(Names)
  BY ShapedUp
<1>2. Above(t, x) \subseteq Nums
  BY AboveUp
<1>3. ASSUME Meets(t, Definers(t, name), x) PROVE HasIt(t, x, name)
  <2>1. PICK z \in Above(t, x) : name \in ToSet(t.defs[z])
    BY <1>3 DEF Meets, Definers
  <2>2. PICK i \in DOMAIN t.defs[z] : t.defs[z][i] = name
    BY <2>1 DEF ToSet
  <2> QED
    BY <2>1, <2>2, <1>2 DEF HasIt, Has
<1>4. ASSUME HasIt(t, x, name) PROVE Meets(t, Definers(t, name), x)
  <2>1. PICK z \in Nums : \E i \in DOMAIN t.defs[z] : Has(t, x, name, z, i)
    BY <1>4 DEF HasIt
  <2>2. z \in Above(t, x) /\ name \in ToSet(t.defs[z])
    BY <2>1 DEF Has, ToSet
  <2> QED
    BY <2>1, <2>2 DEF Meets, Definers
<1> QED
  BY <1>3, <1>4

\* Where it is found, if no two have the same name.
LEMMA FoundIs ==
  ASSUME NEW O, NEW t, Shaped(O, t), Distinct(t), NEW x \in Nums, NEW name, NEW z, NEW i,
         Has(t, x, name, z, i)
  PROVE  /\ db_find_property(t, x, name).definer = z
         /\ db_find_property(t, x, name).n = Place(t, x, z, i)
         /\ db_find_property(t, x, name) # NoSlot
<1>1. z \in Above(t, x) /\ i \in DOMAIN t.defs[z] /\ t.defs[z][i] = name
  BY DEF Has
<1>2. db_find_property(t, x, name) = [definer |-> z, n |-> Before(t, x, z) + i]
  BY <1>1, FindIs
<1>3. z \in Nums /\ NOTHING \notin Nums
  BY <1>1, AboveUp, NothingIsNoNumber
<1> QED
  BY <1>2, <1>3 DEF Place, NoSlot

\* It is one property.
LEMMA HasOne ==
  ASSUME NEW t, Distinct(t), NEW x \in Nums, NEW name, NEW z, NEW i, Has(t, x, name, z, i),
         NEW w, NEW j, Has(t, x, name, w, j)
  PROVE  z = w /\ i = j
BY DEF Has, Distinct

\* The places are in the array,
LEMMA PlaceFits ==
  ASSUME NEW O, NEW t, NEW slots, Fits(O, t, slots), NEW x \in Nums, NEW z \in Above(t, x),
         NEW i \in DOMAIN t.defs[z]
  PROVE  /\ i \in Nat /\ i >= 1 /\ i <= Len(t.defs[z]) /\ Len(t.defs[z]) \in Nat
         /\ z \in Nums /\ slots[x] \in Seq(SlotRecords) /\ Len(slots[x]) \in Nat
         /\ Before(t, x, z) \in Nat
         /\ Place(t, x, z, i) \in Nat
         /\ Place(t, x, z, i) = Before(t, x, z) + i
         /\ Place(t, x, z, i) \in DOMAIN slots[x]
         /\ slots[x][Place(t, x, z, i)] \in SlotRecords
<1>1. Shaped(O, t) /\ slots[x] \in Seq(SlotRecords) /\ Len(slots[x]) = dbpriv_count_properties(t, x)
  BY DEF Fits
<1>2. z \in Nums
  BY <1>1, AboveUp
<1>3. t.defs[z] \in Seq(Names) /\ Len(t.defs[z]) \in Nat
  BY <1>1, <1>2, ShapedUp
<1>4. /\ Before(t, x, z) \in Nat /\ dbpriv_count_properties(t, x) \in Nat
      /\ Before(t, x, z) + Len(t.defs[z]) <= dbpriv_count_properties(t, x)
  BY <1>1, BeforeBounds
<1>5. i \in Nat /\ i >= 1 /\ i <= Len(t.defs[z])
  BY <1>3
<1>6. PICK n : n = Place(t, x, z, i)
  OBVIOUS
<1>7. n \in 1..Len(slots[x]) /\ n \in Nat /\ n = Before(t, x, z) + i
  BY <1>1, <1>4, <1>5, <1>6 DEF Place
<1> QED
  BY <1>1, <1>2, <1>3, <1>4, <1>5, <1>6, <1>7

\* and each is for one property.
LEMMA PlacesDiffer ==
  ASSUME NEW O, NEW t, Shaped(O, t), NEW x \in Nums, NEW z \in Above(t, x), NEW i \in DOMAIN t.defs[z],
         NEW w \in Above(t, x), NEW j \in DOMAIN t.defs[w], Place(t, x, z, i) = Place(t, x, w, j)
  PROVE  z = w /\ i = j
<1>1. z \in Nums /\ w \in Nums
  BY AboveUp
<1>2. /\ i \in Nat /\ i >= 1 /\ i <= Len(t.defs[z]) /\ Len(t.defs[z]) \in Nat
      /\ j \in Nat /\ j >= 1 /\ j <= Len(t.defs[w]) /\ Len(t.defs[w]) \in Nat
  <2>1. t.defs[z] \in Seq(Names) /\ t.defs[w] \in Seq(Names)
    BY <1>1, ShapedUp
  <2> QED
    BY <2>1
<1>3. PICK b, c : b = Before(t, x, z) /\ c = Before(t, x, w)
  OBVIOUS
<1>4. b \in Nat /\ c \in Nat
  BY <1>3, BeforeBounds
<1>5. b + i = c + j
  BY <1>3 DEF Place
<1>6. w \in Above(t, z) /\ w # z => c >= b + Len(t.defs[z])
  BY <1>3, BeforeBounds
<1>7. z \in Above(t, w) /\ z # w => b >= c + Len(t.defs[w])
  BY <1>3, BeforeBounds
<1>8. w \in Above(t, z) \/ z \in Above(t, w)
  BY AboveOrder
<1>9. z = w
  BY <1>2, <1>4, <1>5, <1>6, <1>7, <1>8
<1> QED
  BY <1>2, <1>3, <1>4, <1>5, <1>9

\* What an object has under its names
LEMMA NamedIs ==
  ASSUME NEW O, NEW t, Shaped(O, t), Distinct(t), NEW slots, NEW x \in O
  PROVE  /\ \A name : name \in DOMAIN NamedSlots(t, O, slots)[x] <=> HasIt(t, x, name)
         /\ \A name, z, i : Has(t, x, name, z, i) =>
              NamedSlots(t, O, slots)[x][name] = slots[x][Place(t, x, z, i)]
<1>0. x \in Nums /\ O \in SUBSET Nums
  BY DEF Shaped
<1> DEFINE D == UNION {ToSet(t.defs[y]) : y \in ToSet(Line(t, x))}
<1>1. NamedSlots(t, O, slots)[x] = [name \in D |-> slots[x][db_find_property(t, x, name).n]]
  BY <1>0 DEF NamedSlots
<1>2. ToSet(Line(t, x)) = Above(t, x) /\ Above(t, x) \subseteq Nums
  BY <1>0, ShapedUp, AboveUp
<1>3. ASSUME NEW name PROVE name \in D <=> HasIt(t, x, name)
  <2>1. name \in D <=> \E y \in Above(t, x) : name \in ToSet(t.defs[y])
    BY <1>2
  <2>2. \A y : name \in ToSet(t.defs[y]) <=> \E i \in DOMAIN t.defs[y] : t.defs[y][i] = name
    BY DEF ToSet
  <2> QED
    BY <2>1, <2>2, <1>2 DEF HasIt, Has
<1> HIDE DEF D
<1>4. DOMAIN NamedSlots(t, O, slots)[x] = D
  BY <1>1
<1>5. ASSUME NEW name, NEW z, NEW i, Has(t, x, name, z, i)
      PROVE  NamedSlots(t, O, slots)[x][name] = slots[x][Place(t, x, z, i)]
  <2>1. db_find_property(t, x, name).n = Place(t, x, z, i)
    BY <1>0, <1>5, FoundIs
  <2>2. name \in D
    <3>1. z \in Nums
      BY <1>2, <1>5 DEF Has
    <3> QED
      BY <3>1, <1>3, <1>5 DEF HasIt, Has
  <2> QED
    BY <1>1, <2>1, <2>2
<1> QED
  BY <1>3, <1>4, <1>5

\* For a name that it has
LEMMA NamedAt ==
  ASSUME NEW O, NEW t, NEW slots, Fits(O, t, slots), NEW x \in O,
         NEW name \in DOMAIN NamedSlots(t, O, slots)[x]
  PROVE  \E z \in Nums : \E i \in DOMAIN t.defs[z] :
           /\ Has(t, x, name, z, i)
           /\ NamedSlots(t, O, slots)[x][name] = slots[x][Place(t, x, z, i)]
           /\ slots[x][Place(t, x, z, i)] \in SlotRecords
<1>1. x \in Nums /\ Shaped(O, t) /\ Distinct(t)
  BY DEF Fits, Shaped
<1>2. HasIt(t, x, name)
  BY <1>1, NamedIs
<1>3. PICK z \in Nums : \E i \in DOMAIN t.defs[z] : Has(t, x, name, z, i)
  BY <1>2 DEF HasIt
<1>6. PICK i \in DOMAIN t.defs[z] : Has(t, x, name, z, i)
  BY <1>3
<1>4. NamedSlots(t, O, slots)[x][name] = slots[x][Place(t, x, z, i)]
  BY <1>1, <1>6, NamedIs
<1>5. slots[x][Place(t, x, z, i)] \in SlotRecords
  BY <1>1, <1>6, PlaceFits DEF Has
<1> QED
  BY <1>6, <1>4, <1>5

-----------------------------------------------------------------------------
(* The invariant of properties, and what it says of the table *)

PropInv ==
  /\ Fits(objects, Here, propval)
  /\ owner \in [Nums -> Nums \cup {NOTHING}]
  /\ named = Named(Here, objects, propval)

\* The ancestors of the table are those of the objects.
LEMMA TableAncestors ==
  ASSUME Hierarchy, propdefs \in [Nums -> Seq(Names)]
  PROVE  /\ Shaped(objects, Here)
         /\ \A x \in objects : Table!Ancestors[x] = Above(Here, x)
<1>1. objects \in SUBSET Nums /\ GoodTree(objects, family)
  BY DEF Hierarchy
<1>2. Here.up = family.up /\ Here.defs = propdefs
  BY DEF Here, Shape
<1>3. Shaped(objects, Here)
  BY <1>1, <1>2 DEF Shaped
<1>4. \A x, a : Lookup!IsAncestor(x, a) <=> a \in AncestorsOf[x]
  BY DEF Lookup!IsAncestor, Lookup!Ancestors, AncestorsOf
<1>5. Table!Ancestors = AncestorsOf
  BY DEF Table!Ancestors, AncestorsOf
<1>6. \A x \in objects : \A a : a \in AncestorsOf[x] <=>
        a = x \/ (family.up[x] # NOTHING /\ a \in AncestorsOf[family.up[x]])
  BY <1>1, <1>4, AncestorsUp
<1> DEFINE S == {y \in Nums : y \in objects => \A a : a \in AncestorsOf[y] <=> a \in Above(Here, y)}
<1>7. ASSUME NEW y \in Nums, Here.up[y] \in S \cup {NOTHING} PROVE y \in S
  <2>1. SUFFICES ASSUME y \in objects, NEW a PROVE a \in AncestorsOf[y] <=> a \in Above(Here, y)
    OBVIOUS
  <2>2. a \in Above(Here, y) <=> a = y \/ (Here.up[y] # NOTHING /\ a \in Above(Here, Here.up[y]))
    BY <1>3, AboveUp
  <2>3. Here.up[y] \in objects \cup {NOTHING}
    BY <1>3, <2>1, ShapedUp
  <2>4. Here.up[y] # NOTHING => (a \in AncestorsOf[Here.up[y]] <=> a \in Above(Here, Here.up[y]))
    BY <2>3, <1>7
  <2> QED
    BY <2>1, <2>2, <2>4, <1>2, <1>6
<1>8. Nums \subseteq S
  <2> HIDE DEF S
  <2> QED
    BY <1>3, <1>7, ShapedInduction
<1>9. \A x \in objects : \A a : a \in AncestorsOf[x] <=> a \in Above(Here, x)
  BY <1>1, <1>8
<1>10. ASSUME NEW x \in objects PROVE Table!Ancestors[x] = Above(Here, x)
  <2>1. \A a : a \in AncestorsOf[x] <=> a \in Above(Here, x)
    BY <1>9
  <2>2. AncestorsOf[x] = Above(Here, x)
    BY <2>1
  <2> QED
    BY <2>2, <1>5
<1> QED
  BY <1>3, <1>10

\* What the table says of a state
TableFacts ==
  /\ objects \in SUBSET Nums
  /\ Shaped(objects, Here) /\ Distinct(Here) /\ OwnValues(Here, propval)
  /\ \A x \in objects : Table!Ancestors[x] = Above(Here, x)
  /\ \A x \in objects : DOMAIN named.slots[x] = DOMAIN Table!Definitions[x]
  /\ \A x \in objects : \A name : name \in DOMAIN named.slots[x] <=> HasIt(Here, x, name)
  /\ \A x \in objects : \A name \in DOMAIN named.slots[x], z \in Nums :
       z \in Table!Definitions[x][name] <=>
         \E i \in DOMAIN Here.defs[z] : Has(Here, x, name, z, i)
  /\ \A x \in objects : \A name, z, i : Has(Here, x, name, z, i) =>
       /\ name \in DOMAIN named.slots[x]
       /\ Table!Definitions[x][name] = {z}
       /\ named.slots[x][name] = propval[x][Place(Here, x, z, i)]

\* The named slots are those of the arrays, each under one definition, by the invariant.
LEMMA TableIs == Hierarchy /\ PropInv => TableFacts
<1> SUFFICES ASSUME Hierarchy, PropInv PROVE TableFacts
  OBVIOUS
<1>1. /\ Fits(objects, Here, propval) /\ named = Named(Here, objects, propval)
      /\ objects \in SUBSET Nums
  BY DEF PropInv, Hierarchy
<1>2. Shaped(objects, Here) /\ Distinct(Here) /\ OwnValues(Here, propval)
  BY <1>1 DEF Fits
<1>3. Here.defs = propdefs /\ propdefs \in [Nums -> Seq(Names)]
  BY <1>2 DEF Here, Shape, Shaped
<1>4. \A x \in objects : Table!Ancestors[x] = Above(Here, x)
  BY <1>3, TableAncestors
<1>5. named.slots = NamedSlots(Here, objects, propval)
  BY <1>1 DEF Named
<1>6. \A x \in objects :
         /\ \A name : name \in DOMAIN named.slots[x] <=> HasIt(Here, x, name)
         /\ \A name, z, i : Has(Here, x, name, z, i) =>
              named.slots[x][name] = propval[x][Place(Here, x, z, i)]
  BY <1>2, <1>5, NamedIs
<1>7. ASSUME NEW x \in objects
      PROVE  /\ \A name : name \in DOMAIN Table!Definitions[x] <=> HasIt(Here, x, name)
             /\ \A name \in DOMAIN Table!Definitions[x] : \A z :
                  z \in Table!Definitions[x][name] <=>
                    z \in Above(Here, x) /\ name \in ToSet(Here.defs[z])
  <2>1. Above(Here, x) \subseteq Nums
    BY <1>1, <1>2, AboveUp
  <2>2. PICK D : D = [y \in Nums |-> ToSet(propdefs[y])]
    OBVIOUS
  <2>3. \A y \in Nums : \A name : name \in D[y] <=> \E i \in DOMAIN Here.defs[y] : Here.defs[y][i] = name
    BY <2>2, <1>3 DEF ToSet
  <2>4. Table!Definitions[x] =
          [name \in UNION {D[a] : a \in Above(Here, x)} |-> {a \in Above(Here, x) : name \in D[a]}]
    BY <2>2, <1>4 DEF Table!Definitions
  <2>5. ASSUME NEW name
        PROVE  name \in DOMAIN Table!Definitions[x] <=> \E a \in Above(Here, x) : name \in D[a]
    BY <2>4
  <2>6. \A name : name \in DOMAIN Table!Definitions[x] <=> HasIt(Here, x, name)
    BY <2>1, <2>3, <2>5 DEF HasIt, Has
  <2>7. \A name \in DOMAIN Table!Definitions[x] : \A z :
          z \in Table!Definitions[x][name] <=> z \in Above(Here, x) /\ name \in D[z]
    BY <2>4
  <2>8. \A z \in Nums : ToSet(Here.defs[z]) = D[z]
    BY <2>2, <1>3
  <2> QED
    BY <2>1, <2>6, <2>7, <2>8
<1>8. ASSUME NEW x \in objects PROVE DOMAIN named.slots[x] = DOMAIN Table!Definitions[x]
  <2>1. \A name : name \in DOMAIN named.slots[x] <=> name \in DOMAIN Table!Definitions[x]
    BY <1>6, <1>7
  <2> QED
    BY <2>1
<1>9. ASSUME NEW x \in objects, NEW name \in DOMAIN named.slots[x], NEW z \in Nums
      PROVE  z \in Table!Definitions[x][name] <=>
                \E i \in DOMAIN Here.defs[z] : Has(Here, x, name, z, i)
  <2>1. name \in DOMAIN Table!Definitions[x]
    BY <1>8
  <2>2. name \in ToSet(Here.defs[z]) <=> \E i \in DOMAIN Here.defs[z] : Here.defs[z][i] = name
    BY DEF ToSet
  <2> QED
    BY <2>1, <2>2, <1>7 DEF Has
<1>10. ASSUME NEW x \in objects, NEW name, NEW z, NEW i, Has(Here, x, name, z, i)
       PROVE  /\ name \in DOMAIN named.slots[x]
              /\ Table!Definitions[x][name] = {z}
  <2>1. Above(Here, x) \subseteq Nums /\ x \in Nums
    BY <1>1, <1>2, AboveUp
  <2>2. z \in Nums
    BY <2>1, <1>10 DEF Has
  <2>3. name \in DOMAIN named.slots[x]
    BY <1>6, <1>10, <2>2 DEF HasIt, Has
  <2>4. ASSUME NEW w PROVE w \in Table!Definitions[x][name] <=> w = z
    <3>1. w \in Table!Definitions[x][name] => w \in Nums
      BY <1>7, <1>8, <2>1, <2>3
    <3>2. w \in Nums /\ w \in Table!Definitions[x][name] => w = z
      <4>1. SUFFICES ASSUME w \in Nums, w \in Table!Definitions[x][name] PROVE w = z
        OBVIOUS
      <4>2. PICK j \in DOMAIN Here.defs[w] : Has(Here, x, name, w, j)
        BY <4>1, <2>3, <1>9
      <4> QED
        BY <4>2, <2>1, <1>10, <1>2, HasOne
    <3>3. z \in Table!Definitions[x][name]
      BY <2>2, <2>3, <1>9, <1>10 DEF Has
    <3> QED
      BY <3>1, <3>2, <3>3
  <2> QED
    BY <2>3, <2>4
<1> QED
  BY <1>1, <1>2, <1>4, <1>6, <1>8, <1>9, <1>10 DEF TableFacts

\* and of the next one
LEMMA TableIsThen == Hierarchy' /\ PropInv' => TableFacts'
BY TableIs, PTL

\* Arrays that fit are a table.
LEMMA TableIsConsistent == Hierarchy /\ PropInv => Table!Consistent
<1> SUFFICES ASSUME Hierarchy, PropInv PROVE Table!Consistent
  OBVIOUS
<1>1. /\ objects \in SUBSET Nums
      /\ Shaped(objects, Here) /\ Distinct(Here) /\ OwnValues(Here, propval)
      /\ \A x \in objects : DOMAIN named.slots[x] = DOMAIN Table!Definitions[x]
      /\ \A x \in objects : \A name : name \in DOMAIN named.slots[x] <=> HasIt(Here, x, name)
  BY TableIs DEF TableFacts
<1>2. \A x \in objects : \A name, z, i : Has(Here, x, name, z, i) =>
        /\ Table!Definitions[x][name] = {z}
        /\ named.slots[x][name] = propval[x][Place(Here, x, z, i)]
  BY TableIs DEF TableFacts
<1>3. ASSUME NEW x \in objects, NEW name \in DOMAIN named.slots[x]
      PROVE  \E z \in Nums : \E i \in DOMAIN Here.defs[z] : Has(Here, x, name, z, i)
  BY <1>1, <1>3 DEF HasIt
<1>4. Table!OneOfEach
  <2>1. ASSUME NEW x \in objects, NEW name \in DOMAIN named.slots[x]
        PROVE  \E a \in objects : Table!Definitions[x][name] = {a}
    <3>1. PICK z \in Nums : \E i \in DOMAIN Here.defs[z] : Has(Here, x, name, z, i)
      BY <1>3
    <3>2. Table!Definitions[x][name] = {z}
      BY <3>1, <1>2
    <3>3. PICK i \in DOMAIN Here.defs[z] : Has(Here, x, name, z, i)
      BY <3>1
    <3>4. Here.defs[z] # <<>>
      BY <3>3
    <3>5. z \in objects
      BY <3>4 DEF PropInv, Fits
    <3> QED
      BY <3>2, <3>5
  <2>2. \A x \in objects : DOMAIN named.slots[x] = DOMAIN Table!Definitions[x]
    BY <1>1
  <2> QED
    BY <2>1, <2>2 DEF Table!OneOfEach
<1>5. Table!ValuesAreInherited
  <2>1. named = Named(Here, objects, propval)
    BY DEF PropInv
  <2>2. named.slots = NamedSlots(Here, objects, propval)
    BY <2>1 DEF Named
  <2>3. named.values = [x \in Nums |-> [name \in DOMAIN named.slots[x] |->
                                          property_value(Here, propval, x, name)]]
    BY <2>1, <2>2 DEF Named
  <2>4. SUFFICES ASSUME NEW x \in objects, NEW name \in DOMAIN named.slots[x]
                 PROVE  IF named.slots[x][name].value # CLEAR
                        THEN named.values[x][name] = named.slots[x][name].value
                        ELSE /\ family.up[x] # NOTHING
                             /\ name \in DOMAIN named.slots[family.up[x]]
                             /\ named.values[x][name] = named.values[family.up[x]][name]
    BY DEF Table!ValuesAreInherited
  <2>5. x \in Nums /\ named.values[x][name] = property_value(Here, propval, x, name)
    BY <1>1, <2>3
  <2>6. PICK z \in Nums : \E i \in DOMAIN Here.defs[z] : Has(Here, x, name, z, i)
    BY <1>3
  <2>7. PICK i \in DOMAIN Here.defs[z] : Has(Here, x, name, z, i)
    BY <2>6
  <2>8. PICK n : n = Place(Here, x, z, i) /\ n = db_find_property(Here, x, name).n
    BY <2>5, <2>7, <1>1, FoundIs
  <2>14. named.slots[x][name] = propval[x][Place(Here, x, z, i)]
    BY <2>7, <1>2
  <2>9. named.slots[x][name] = propval[x][n]
    BY <2>8, <2>14
  <2>10. Meets(Here, Definers(Here, name), x)
    BY <1>1, <2>5, HasMeets
  <2>11. IF propval[x][n].value # CLEAR
         THEN property_value(Here, propval, x, name) = propval[x][n].value
         ELSE /\ Here.up[x] \in Nums
              /\ Meets(Here, Definers(Here, name), Here.up[x])
              /\ property_value(Here, propval, x, name) = property_value(Here, propval, Here.up[x], name)
    BY <1>1, <2>5, <2>8, <2>10, ValueUp
  <2>12. CASE propval[x][n].value # CLEAR
    BY <2>5, <2>9, <2>11, <2>12
  <2>13. CASE propval[x][n].value = CLEAR
    <3>1. PICK p : p = family.up[x] /\ p = Here.up[x]
      BY DEF Here, Shape
    <3>2. p \in Nums /\ NOTHING \notin Nums
      BY <3>1, <2>11, <2>13, NothingIsNoNumber
    <3>3. p \in objects
      BY <3>1, <3>2, <1>1, ShapedUp
    <3>4. HasIt(Here, p, name)
      BY <3>1, <3>2, <2>11, <2>13, <1>1, HasMeets
    <3>5. name \in DOMAIN named.slots[p]
      BY <3>3, <3>4, <1>1
    <3>6. named.values[p][name] = property_value(Here, propval, p, name)
      BY <3>2, <3>5, <2>3
    <3> QED
      BY <3>1, <3>2, <3>5, <3>6, <2>5, <2>9, <2>11, <2>13
  <2> QED
    BY <2>12, <2>13
<1> QED
  BY <1>4, <1>5 DEF Table!Consistent

\* in the next state too.
LEMMA TableIsConsistentThen == Hierarchy' /\ PropInv' => Table!Consistent'
BY TableIsConsistent, PTL

-----------------------------------------------------------------------------
(* One slot is written. *)

\* A property that is found is one that the object has,
LEMMA FoundHas ==
  ASSUME NEW O, NEW t, Shaped(O, t), NEW x \in Nums, NEW name,
         db_find_property(t, x, name) # NoSlot
  PROVE  HasIt(t, x, name)
BY FindNone, HasMeets

\* and one that is not found is one that it does not have.
LEMMA NotFoundHasNot ==
  ASSUME NEW O, NEW t, Shaped(O, t), Distinct(t), NEW x \in Nums, NEW name,
         db_find_property(t, x, name) = NoSlot
  PROVE  ~HasIt(t, x, name)
<1>1. SUFFICES ASSUME HasIt(t, x, name) PROVE FALSE
  OBVIOUS
<1>2. PICK z \in Nums : \E i \in DOMAIN t.defs[z] : Has(t, x, name, z, i)
  BY <1>1 DEF HasIt
<1>3. PICK i \in DOMAIN t.defs[z] : Has(t, x, name, z, i)
  BY <1>2
<1> QED
  BY <1>3, FoundIs

\* Another slot at the place n, and another number in that slot
Written(S, x, n, slot) == [S EXCEPT ![x] = [@ EXCEPT ![n] = slot]]
Requota(S, x, n, number) == [S EXCEPT ![x][n].value = number]

\* The array of x with another slot at the place of a property that it has
LEMMA WriteFits ==
  ASSUME NEW O, NEW t, NEW slots, Fits(O, t, slots), NEW x \in O, NEW name, NEW z, NEW i,
         Has(t, x, name, z, i), NEW slot \in SlotRecords, z = x => slot.value # CLEAR,
         NEW now, now = Written(slots, x, Place(t, x, z, i), slot)
  PROVE  /\ Fits(O, t, now)
         /\ name \in DOMAIN NamedSlots(t, O, slots)[x]
         /\ NamedSlots(t, O, now) = Written(NamedSlots(t, O, slots), x, name, slot)
<1>1. /\ Shaped(O, t) /\ slots \in [Nums -> Seq(SlotRecords)] /\ Distinct(t) /\ OwnValues(t, slots)
      /\ x \in Nums /\ O \in SUBSET Nums
  BY DEF Fits, Shaped
<1>2. z \in Above(t, x) /\ i \in DOMAIN t.defs[z]
  BY DEF Has
<1>3. PICK n : n = Place(t, x, z, i)
  OBVIOUS
<1>4. n \in DOMAIN slots[x] /\ slots[x] \in Seq(SlotRecords) /\ z \in Nums /\ i \in Nat
  BY <1>1, <1>2, <1>3, PlaceFits
<1>5. PICK q : q = [slots[x] EXCEPT ![n] = slot]
  OBVIOUS
<1>6. /\ q \in Seq(SlotRecords) /\ Len(q) = Len(slots[x]) /\ q[n] = slot
      /\ \A k \in DOMAIN slots[x] : k # n => q[k] = slots[x][k]
  BY <1>4, <1>5
<1>7. /\ now \in [Nums -> Seq(SlotRecords)] /\ now[x] = q
      /\ \A y \in Nums : y # x => now[y] = slots[y]
  BY <1>1, <1>3, <1>5, <1>6 DEF Written
<1>8. \A y \in Nums : Len(now[y]) = dbpriv_count_properties(t, y)
  BY <1>6, <1>7 DEF Fits
<1>9. OwnValues(t, now)
  <2>1. SUFFICES ASSUME NEW y \in Nums, NEW j \in DOMAIN t.defs[y] PROVE now[y][j].value # CLEAR
    BY DEF OwnValues
  <2>2. slots[y][j].value # CLEAR
    BY <1>1 DEF OwnValues
  <2>3. CASE y # x
    BY <2>2, <2>3, <1>7
  <2>4. CASE y = x
    <3>1. y \in Above(t, y) /\ Before(t, y, y) = 0
      BY <1>1, AboveUp, BeforeUp
    <3>2. j \in Nat /\ Place(t, y, y, j) = Before(t, y, y) + j /\ Place(t, y, y, j) \in DOMAIN slots[y]
      BY <3>1, PlaceFits
    <3>3. j = Place(t, y, y, j) /\ j \in DOMAIN slots[y]
      BY <3>1, <3>2
    <3>4. j = n => z = y
      BY <3>1, <3>3, <2>4, <1>1, <1>2, <1>3, PlacesDiffer
    <3> QED
      BY <3>3, <3>4, <2>2, <2>4, <1>6, <1>7
  <2> QED
    BY <2>3, <2>4
<1>10. Fits(O, t, now)
  BY <1>1, <1>7, <1>8, <1>9 DEF Fits
<1> DEFINE D(y) == UNION {ToSet(t.defs[w]) : w \in ToSet(Line(t, y))}
           cell(y, other) == db_find_property(t, y, other).n
<1>11. /\ \A y \in O : NamedSlots(t, O, slots)[y] = [other \in D(y) |-> slots[y][cell(y, other)]]
       /\ \A y \in O : NamedSlots(t, O, now)[y] = [other \in D(y) |-> now[y][cell(y, other)]]
       /\ \A y \in Nums \ O : NamedSlots(t, O, slots)[y] = <<>> /\ NamedSlots(t, O, now)[y] = <<>>
       /\ NamedSlots(t, O, slots) = [y \in Nums |-> NamedSlots(t, O, slots)[y]]
       /\ NamedSlots(t, O, now) = [y \in Nums |-> NamedSlots(t, O, now)[y]]
  BY <1>1 DEF NamedSlots
<1>12. name \in DOMAIN NamedSlots(t, O, slots)[x]
  <2>1. HasIt(t, x, name)
    BY <1>4, <1>2 DEF HasIt, Has
  <2> QED
    BY <2>1, <1>1, NamedIs
<1>13. PICK Dx, f, g : /\ Dx = D(x) /\ f = NamedSlots(t, O, slots)[x]
                       /\ g = NamedSlots(t, O, now)[x]
  OBVIOUS
<1>14. f = [other \in Dx |-> slots[x][cell(x, other)]]
  BY <1>11, <1>13
<1>15. g = [other \in Dx |-> now[x][cell(x, other)]]
  BY <1>11, <1>13
<1>16. cell(x, name) = n
  BY <1>1, <1>3, FoundIs
<1>17. ASSUME NEW other \in Dx, other # name
       PROVE  cell(x, other) \in DOMAIN slots[x] /\ cell(x, other) # n
  <2>1. HasIt(t, x, other)
    <3>1. other \in DOMAIN f
      BY <1>14
    <3> QED
      BY <3>1, <1>1, <1>13, NamedIs
  <2>2. PICK w \in Nums : \E j \in DOMAIN t.defs[w] : Has(t, x, other, w, j)
    BY <2>1 DEF HasIt
  <2>3. PICK j \in DOMAIN t.defs[w] : Has(t, x, other, w, j)
    BY <2>2
  <2>4. cell(x, other) = Place(t, x, w, j)
    BY <2>3, <1>1, FoundIs
  <2>5. w \in Above(t, x)
    BY <2>3 DEF Has
  <2>6. Place(t, x, w, j) \in DOMAIN slots[x]
    BY <2>5, <1>1, PlaceFits
  <2>7. Place(t, x, w, j) # n
    <3>1. SUFFICES ASSUME Place(t, x, w, j) = Place(t, x, z, i) PROVE FALSE
      BY <1>3
    <3>2. w = z /\ j = i
      BY <3>1, <2>5, <1>1, <1>2, PlacesDiffer
    <3> QED
      BY <3>2, <2>3, <1>17 DEF Has
  <2> QED
    BY <2>4, <2>6, <2>7
<1>19. ASSUME NEW y \in Nums, y # x
       PROVE  NamedSlots(t, O, now)[y] = NamedSlots(t, O, slots)[y]
  <2>1. now[y] = slots[y]
    BY <1>7, <1>19
  <2>2. CASE y \in O
    <3>1. NamedSlots(t, O, slots)[y] = [other \in D(y) |-> slots[y][cell(y, other)]]
      BY <2>2, <1>11
    <3>2. NamedSlots(t, O, now)[y] = [other \in D(y) |-> now[y][cell(y, other)]]
      BY <2>2, <1>11
    <3> QED
      BY <2>1, <3>1, <3>2
  <2>3. CASE y \notin O
    BY <2>3, <1>11
  <2> QED
    BY <2>2, <2>3
<1> HIDE DEF cell, D
<1>18. g = [f EXCEPT ![name] = slot]
  <2>1. name \in Dx
    BY <1>12, <1>13, <1>14
  <2>2. ASSUME NEW other \in Dx PROVE g[other] = IF other = name THEN slot ELSE f[other]
    <3>1. g[other] = q[cell(x, other)] /\ f[other] = slots[x][cell(x, other)]
      BY <1>14, <1>15, <1>7
    <3> QED
      BY <3>1, <1>6, <1>16, <1>17
  <2> QED
    BY <2>1, <2>2, <1>14, <1>15
<1>20. NamedSlots(t, O, now) = [NamedSlots(t, O, slots) EXCEPT ![x] = g]
  BY <1>11, <1>13, <1>19, <1>1
<1> QED
  BY <1>10, <1>12, <1>13, <1>18, <1>20 DEF Written

\* A value is a number.
LEMMA ValueIsInt ==
  ASSUME NEW O, NEW t, NEW slots, Fits(O, t, slots), NEW x \in Nums, NEW name, HasIt(t, x, name)
  PROVE  property_value(t, slots, x, name) \in Int
<1>1. Shaped(O, t) /\ Distinct(t) /\ OwnValues(t, slots)
  BY DEF Fits
<1> DEFINE S == {y \in Nums : HasIt(t, y, name) => property_value(t, slots, y, name) \in Int}
<1>2. ASSUME NEW y \in Nums, t.up[y] \in S \cup {NOTHING} PROVE y \in S
  <2>1. SUFFICES ASSUME HasIt(t, y, name) PROVE property_value(t, slots, y, name) \in Int
    OBVIOUS
  <2>2. PICK z \in Nums : \E i \in DOMAIN t.defs[z] : Has(t, y, name, z, i)
    BY <2>1 DEF HasIt
  <2>3. PICK i \in DOMAIN t.defs[z] : Has(t, y, name, z, i)
    BY <2>2
  <2>4. PICK n : n = Place(t, y, z, i) /\ n = db_find_property(t, y, name).n
    BY <2>3, <1>1, FoundIs
  <2>9. z \in Above(t, y)
    BY <2>3 DEF Has
  <2>10. slots[y][Place(t, y, z, i)] \in SlotRecords
    BY <2>3, <2>9, PlaceFits
  <2>5. slots[y][n] \in SlotRecords
    BY <2>4, <2>10
  <2>6. IF slots[y][n].value # CLEAR
        THEN property_value(t, slots, y, name) = slots[y][n].value
        ELSE /\ t.up[y] \in Nums
             /\ Meets(t, Definers(t, name), t.up[y])
             /\ property_value(t, slots, y, name) = property_value(t, slots, t.up[y], name)
    BY <2>1, <2>4, <1>1, HasMeets, ValueUp
  <2>7. CASE slots[y][n].value # CLEAR
    <3>1. slots[y][n].value \in Int
      BY <2>5, <2>7 DEF SlotRecords
    <3> QED
      BY <3>1, <2>6, <2>7
  <2>8. CASE slots[y][n].value = CLEAR
    <3>1. t.up[y] \in S
      BY <2>6, <2>8, <1>2, NothingIsNoNumber
    <3>2. HasIt(t, t.up[y], name)
      BY <2>6, <2>8, <1>1, HasMeets
    <3> QED
      BY <3>1, <3>2, <2>6, <2>8
  <2> QED
    BY <2>7, <2>8
<1>3. Nums \subseteq S
  <2> HIDE DEF S
  <2> QED
    BY <1>1, <1>2, ShapedInduction
<1> QED
  BY <1>3

\* What decr_quota() and incr_quota() may do to the table
Quotaed(S, now) ==
  \/ now = S
  \/ \E q \in objects : \E number \in Int :
       /\ quota_name \in DOMAIN S[q]
       /\ now = Requota(S, q, quota_name, number)

\* The quota is written in the slot of the owner.
LEMMA QuotaFits ==
  ASSUME NEW O, NEW t, NEW slots, Fits(O, t, slots), NEW x \in O, NEW z, NEW i,
         Has(t, x, quota_name, z, i), NEW number \in Int,
         NEW now, now = Requota(slots, x, Place(t, x, z, i), number)
  PROVE  /\ Fits(O, t, now)
         /\ quota_name \in DOMAIN NamedSlots(t, O, slots)[x]
         /\ NamedSlots(t, O, now) = Requota(NamedSlots(t, O, slots), x, quota_name, number)
<1>1. Shaped(O, t) /\ Distinct(t) /\ x \in Nums /\ slots \in [Nums -> Seq(SlotRecords)]
  BY DEF Fits, Shaped
<1>2. PICK n, old, slot : /\ n = Place(t, x, z, i) /\ old = slots[x][n]
                          /\ slot = [old EXCEPT !.value = number]
  OBVIOUS
<1>3. old \in SlotRecords /\ n \in DOMAIN slots[x]
  BY <1>1, <1>2, PlaceFits DEF Has
<1>4. slot \in SlotRecords /\ slot.value # CLEAR
  BY <1>2, <1>3, PropertyAssumption DEF SlotRecords
<1>5. now = Written(slots, x, Place(t, x, z, i), slot)
  BY <1>2 DEF Written, Requota
<1>6. /\ Fits(O, t, now)
      /\ quota_name \in DOMAIN NamedSlots(t, O, slots)[x]
      /\ NamedSlots(t, O, now) = Written(NamedSlots(t, O, slots), x, quota_name, slot)
  <2>1. z = x => slot.value # CLEAR
    BY <1>4
  <2> QED
    BY <1>4, <1>5, <2>1, WriteFits
<1>7. NamedSlots(t, O, slots)[x][quota_name] = old
  BY <1>1, <1>2, NamedIs
<1>8. NamedSlots(t, O, slots) = [y \in Nums |-> NamedSlots(t, O, slots)[y]]
  BY DEF NamedSlots
<1>9. PICK S, f : S = NamedSlots(t, O, slots) /\ f = S[x]
  OBVIOUS
<1>10. Written(S, x, quota_name, slot) =
          Requota(S, x, quota_name, number)
  BY <1>2, <1>7, <1>9 DEF Written, Requota
<1> QED
  BY <1>6, <1>9, <1>10

\* decr_quota()
LEMMA DecrFits ==
  ASSUME Hierarchy, PropInv, NEW who
  PROVE  /\ Fits(objects, Here, decr_quota(who))
         /\ Quotaed(named.slots, NamedSlots(Here, objects, decr_quota(who)))
<1>1. Fits(objects, Here, propval) /\ named.slots = NamedSlots(Here, objects, propval)
  BY DEF PropInv, Named
<1>2. CASE ~HasQuota(Here, who)
  BY <1>1, <1>2 DEF decr_quota, Quotaed
<1>3. CASE HasQuota(Here, who)
  <2>1. who \in objects /\ who \in Nums /\ Shaped(objects, Here) /\ Distinct(Here)
    BY <1>1, <1>3 DEF HasQuota, Fits, Shaped
  <2>2. HasIt(Here, who, quota_name)
    BY <1>3, <2>1, FoundHas DEF HasQuota
  <2>3. PICK number : number = quota(Here, propval, who) - 1
    OBVIOUS
  <2>4. number \in Int
    BY <1>1, <2>1, <2>2, <2>3, ValueIsInt DEF quota
  <2>5. PICK z \in Nums : \E i \in DOMAIN Here.defs[z] : Has(Here, who, quota_name, z, i)
    BY <2>2 DEF HasIt
  <2>6. PICK i \in DOMAIN Here.defs[z] : Has(Here, who, quota_name, z, i)
    BY <2>5
  <2>7. PICK n : n = Place(Here, who, z, i) /\ n = db_find_property(Here, who, quota_name).n
    BY <2>1, <2>6, FoundIs
  <2>8. PICK now : now = decr_quota(who)
    OBVIOUS
  <2>9. now = Requota(propval, who, n, number)
    BY <1>3, <2>3, <2>7, <2>8 DEF decr_quota, WithQuota, Requota
  <2>11. now = Requota(propval, who, Place(Here, who, z, i), number)
    BY <2>7, <2>9
  <2>10. /\ Fits(objects, Here, now)
         /\ quota_name \in DOMAIN NamedSlots(Here, objects, propval)[who]
         /\ NamedSlots(Here, objects, now) = Requota(NamedSlots(Here, objects, propval), who, quota_name, number)
    BY <1>1, <2>1, <2>4, <2>6, <2>11, QuotaFits
  <2> QED
    BY <1>1, <2>1, <2>4, <2>8, <2>10 DEF Quotaed
<1> QED
  BY <1>2, <1>3

-----------------------------------------------------------------------------
(* The steps that write one slot *)

OneWrite ==
  \E x \in objects : \E name, z, i : \E slot \in SlotRecords :
    /\ Has(Here, x, name, z, i)
    /\ z = x => slot.value # CLEAR
    /\ propval' = Written(propval, x, Place(Here, x, z, i), slot)

\* After a step, slots and values are named again.
NamedAnew == named' = Named(Here', objects', propval')

\* The shape is the same.
LEMMA HereIs ==
  /\ Here.up = family.up /\ Here.defs = propdefs
  /\ Here' = Shape(family', propdefs')
  /\ UNCHANGED <<family, propdefs>> => Here' = Here
BY DEF Here, Shape

\* What makes PropInv of a step
LEMMA PropInvThen ==
  ASSUME NEW t, t = Here', Fits(objects', t, propval'), owner' \in [Nums -> Nums \cup {NOTHING}], NamedAnew
  PROVE  PropInv' /\ named'.slots = NamedSlots(t, objects', propval')
<1>1. Fits(objects', Here', propval')
  OBVIOUS
<1>2. Fits(objects, Here, propval)'
  BY <1>1
<1>3. (named = Named(Here, objects, propval))'
  BY DEF NamedAnew
<1>4. named'.slots = NamedSlots(t, objects', propval')
  BY DEF NamedAnew, Named
<1> QED
  BY <1>2, <1>3, <1>4 DEF PropInv

\* One slot is written: Write of the table.
LEMMA WriteSteps ==
  ASSUME Hierarchy, PropInv, UNCHANGED <<objects, family, owner, propdefs>>, NamedAnew, OneWrite
  PROVE  PropInv' /\ Table!Write
<1>1. PICK x \in objects : \E name, z, i : \E slot \in SlotRecords :
        /\ Has(Here, x, name, z, i)
        /\ z = x => slot.value # CLEAR
        /\ propval' = Written(propval, x, Place(Here, x, z, i), slot)
  BY DEF OneWrite
<1>2. PICK name, z, i : \E slot \in SlotRecords :
        /\ Has(Here, x, name, z, i)
        /\ z = x => slot.value # CLEAR
        /\ propval' = Written(propval, x, Place(Here, x, z, i), slot)
  BY <1>1
<1>3. PICK slot \in SlotRecords :
        /\ Has(Here, x, name, z, i)
        /\ z = x => slot.value # CLEAR
        /\ propval' = Written(propval, x, Place(Here, x, z, i), slot)
  BY <1>2
<1>4. /\ Fits(objects, Here, propval) /\ named.slots = NamedSlots(Here, objects, propval)
      /\ owner \in [Nums -> Nums \cup {NOTHING}] /\ objects \in SUBSET Nums
  BY DEF PropInv, Named, Hierarchy
<1>5. /\ Fits(objects, Here, propval')
      /\ name \in DOMAIN NamedSlots(Here, objects, propval)[x]
      /\ NamedSlots(Here, objects, propval') = Written(NamedSlots(Here, objects, propval), x, name, slot)
  BY <1>3, <1>4, WriteFits
<1>6. Here' = Here /\ objects' = objects /\ owner' = owner /\ family' = family /\ propdefs' = propdefs
  BY HereIs
<1>7. PropInv' /\ named'.slots = NamedSlots(Here, objects, propval')
  BY <1>4, <1>5, <1>6, PropInvThen
<1>8. PICK S, S2 : S = named.slots /\ S2 = named'.slots
  OBVIOUS
<1>9. S2 = [S EXCEPT ![x] = [@ EXCEPT ![name] = slot]] /\ name \in DOMAIN S[x] /\ x \in DOMAIN S
  BY <1>4, <1>5, <1>7, <1>8 DEF Written, NamedSlots
<1>10. S2[x][name] = slot
  BY <1>9
<1>11. S2 = [S EXCEPT ![x][name] = S2[x][name]]
  BY <1>9, <1>10
<1>12. Table!Write
  <2>1. name \in DOMAIN named.slots[x]
    BY <1>8, <1>9
  <2>2. named'.slots = [named.slots EXCEPT ![x][name] = named'.slots[x][name]]
    BY <1>8, <1>11
  <2> QED
    BY <1>6, <2>1, <2>2 DEF Table!Write
<1> QED
  BY <1>7, <1>12

\* What the guards of the builtins find
LEMMA FoundHere ==
  ASSUME Hierarchy, PropInv, NEW x \in objects, NEW name,
         db_find_property(Here, x, name).definer # NOTHING \/ db_find_property(Here, x, name) # NoSlot
  PROVE  \E z \in Nums : \E i \in DOMAIN Here.defs[z] :
           /\ Has(Here, x, name, z, i)
           /\ db_find_property(Here, x, name).definer = z
           /\ db_find_property(Here, x, name).n = Place(Here, x, z, i)
           /\ propval[x][Place(Here, x, z, i)] \in SlotRecords
           /\ z = x => propval[x][Place(Here, x, z, i)].value # CLEAR
<1>1. Fits(objects, Here, propval)
  BY DEF PropInv
<1>2. Shaped(objects, Here) /\ Distinct(Here) /\ x \in Nums /\ OwnValues(Here, propval)
  BY <1>1 DEF Fits, Shaped
<1>3. db_find_property(Here, x, name) # NoSlot
  BY DEF NoSlot
<1>4. PICK z \in Nums : \E i \in DOMAIN Here.defs[z] : Has(Here, x, name, z, i)
  BY <1>2, <1>3, FoundHas DEF HasIt
<1>5. PICK i \in DOMAIN Here.defs[z] : Has(Here, x, name, z, i)
  BY <1>4
<1>6. z \in Above(Here, x)
  BY <1>5 DEF Has
<1>7. propval[x][Place(Here, x, z, i)] \in SlotRecords /\ i \in Nat
  BY <1>1, <1>2, <1>5, <1>6, PlaceFits
<1>8. z = x => Place(Here, x, z, i) = i
  BY <1>2, <1>7, BeforeUp DEF Place
<1>9. z = x => propval[x][Place(Here, x, z, i)].value # CLEAR
  BY <1>2, <1>5, <1>8 DEF OwnValues
<1> QED
  BY <1>2, <1>5, <1>7, <1>9, FoundIs

\* Assignment, clearing, and another owner are such steps.
LEMMA SetWrites ==
  ASSUME Hierarchy, PropInv, NEW x, NEW name, NEW value \in Values, SetProperty(x, name, value)
  PROVE  OneWrite
<1>1. x \in objects /\ db_find_property(Here, x, name) # NoSlot
  BY DEF SetProperty
<1>2. PICK z \in Nums : \E i \in DOMAIN Here.defs[z] :
        /\ Has(Here, x, name, z, i)
        /\ db_find_property(Here, x, name).n = Place(Here, x, z, i)
        /\ propval[x][Place(Here, x, z, i)] \in SlotRecords
  BY <1>1, FoundHere
<1>3. PICK i \in DOMAIN Here.defs[z] :
        /\ Has(Here, x, name, z, i)
        /\ db_find_property(Here, x, name).n = Place(Here, x, z, i)
        /\ propval[x][Place(Here, x, z, i)] \in SlotRecords
  BY <1>2
<1>4. PICK n, slot : n = Place(Here, x, z, i) /\ slot = [propval[x][n] EXCEPT !.value = value]
  OBVIOUS
<1>5. slot \in SlotRecords /\ slot.value # CLEAR
  BY <1>3, <1>4, PropertyAssumption DEF SlotRecords
<1>6. propval' = Written(propval, x, n, slot)
  BY <1>3, <1>4 DEF SetProperty, SlotsBecome, Written
<1> QED
  BY <1>1, <1>3, <1>4, <1>5, <1>6 DEF OneWrite

\* clear_property() (bf_clear_prop()) writes one slot, that of an ancestor's property.
LEMMA ClearWrites ==
  ASSUME Hierarchy, PropInv, NEW x, NEW name, ClearProperty(x, name)
  PROVE  OneWrite
<1>1. x \in objects /\ db_find_property(Here, x, name).definer \notin {x, NOTHING}
  BY DEF ClearProperty
<1>2. PICK z \in Nums : \E i \in DOMAIN Here.defs[z] :
        /\ Has(Here, x, name, z, i)
        /\ db_find_property(Here, x, name).definer = z
        /\ db_find_property(Here, x, name).n = Place(Here, x, z, i)
        /\ propval[x][Place(Here, x, z, i)] \in SlotRecords
  BY <1>1, FoundHere
<1>3. PICK i \in DOMAIN Here.defs[z] :
        /\ Has(Here, x, name, z, i)
        /\ db_find_property(Here, x, name).definer = z
        /\ db_find_property(Here, x, name).n = Place(Here, x, z, i)
        /\ propval[x][Place(Here, x, z, i)] \in SlotRecords
  BY <1>2
<1>4. PICK n, slot : n = Place(Here, x, z, i) /\ slot = [propval[x][n] EXCEPT !.value = CLEAR]
  OBVIOUS
<1>5. slot \in SlotRecords /\ z # x
  BY <1>1, <1>3, <1>4 DEF SlotRecords
<1>6. propval' = Written(propval, x, n, slot)
  BY <1>3, <1>4 DEF ClearProperty, SlotsBecome, Written
<1> QED
  BY <1>1, <1>3, <1>4, <1>5, <1>6 DEF OneWrite

\* set_property_info() without a new name (set_prop_info()) writes one slot, and keeps its
\* value.
LEMMA InfoWrites ==
  ASSUME Hierarchy, PropInv, NEW x, NEW name, NEW who, NEW chown \in BOOLEAN,
         SetPropertyInfo(x, name, who, chown)
  PROVE  OneWrite
<1>1. x \in objects /\ db_find_property(Here, x, name) # NoSlot /\ who \in Nums
  BY DEF SetPropertyInfo, Hierarchy
<1>2. PICK z \in Nums : \E i \in DOMAIN Here.defs[z] :
        /\ Has(Here, x, name, z, i)
        /\ db_find_property(Here, x, name).n = Place(Here, x, z, i)
        /\ propval[x][Place(Here, x, z, i)] \in SlotRecords
        /\ z = x => propval[x][Place(Here, x, z, i)].value # CLEAR
  BY <1>1, FoundHere
<1>3. PICK i \in DOMAIN Here.defs[z] :
        /\ Has(Here, x, name, z, i)
        /\ db_find_property(Here, x, name).n = Place(Here, x, z, i)
        /\ propval[x][Place(Here, x, z, i)] \in SlotRecords
        /\ z = x => propval[x][Place(Here, x, z, i)].value # CLEAR
  BY <1>2
<1>4. PICK n, slot : n = Place(Here, x, z, i) /\ slot = Slot(propval[x][n].value, who, chown)
  OBVIOUS
<1>5. slot \in SlotRecords /\ slot.value = propval[x][n].value
  BY <1>1, <1>3, <1>4 DEF SlotRecords, Slot
<1>6. propval' = Written(propval, x, n, slot)
  BY <1>3, <1>4 DEF SetPropertyInfo, SlotsBecome, Written
<1> QED
  BY <1>1, <1>3, <1>4, <1>5, <1>6 DEF OneWrite

\* create() with a number that it cannot have takes from the quota.
LEMMA RefusedWrites ==
  ASSUME Hierarchy, PropInv, NamedAnew, NEW who, CreateWithIdRefused(who)
  PROVE  PropInv' /\ (Table!Write \/ UNCHANGED Table!vars)
<1>1. /\ propval' = decr_quota(who)
      /\ UNCHANGED <<objects, family, owner, propdefs>>
  BY DEF CreateWithIdRefused
<1>2. /\ Fits(objects, Here, propval')
      /\ Quotaed(named.slots, NamedSlots(Here, objects, propval'))
  BY <1>1, DecrFits
<1>3. Here' = Here /\ objects' = objects /\ owner' = owner /\ family' = family /\ propdefs' = propdefs
  BY <1>1, HereIs
<1>4. PropInv' /\ named'.slots = NamedSlots(Here, objects, propval')
  <2>1. owner \in [Nums -> Nums \cup {NOTHING}]
    BY DEF PropInv
  <2> QED
    BY <2>1, <1>2, <1>3, PropInvThen
<1>5. PICK S, S2 : S = named.slots /\ S2 = named'.slots
  OBVIOUS
<1>6. CASE \E q \in objects : \E number \in Int :
             quota_name \in DOMAIN S[q] /\ S2 = Requota(S, q, quota_name, number)
  <2>1. PICK q \in objects, number \in Int :
          quota_name \in DOMAIN S[q] /\ S2 = [S EXCEPT ![q][quota_name].value = number]
    BY <1>6 DEF Requota
  <2>2. q \in DOMAIN S
    BY <1>5 DEF PropInv, Named, NamedSlots, Hierarchy
  <2>3. S2 = [S EXCEPT ![q][quota_name] = S2[q][quota_name]]
    BY <2>1, <2>2
  <2> QED
    BY <2>1, <2>3, <1>3, <1>4, <1>5 DEF Table!Write
<1>7. CASE S2 = S
  <2>1. CASE ~HasQuota(Here, who)
    <3>1. propval' = propval
      BY <1>1, <2>1 DEF decr_quota
    <3>2. named' = named
      BY <3>1, <1>3 DEF PropInv, NamedAnew
    <3> QED
      BY <3>2, <1>3, <1>4 DEF Table!vars
  <2>2. CASE HasQuota(Here, who)
    <3>1. who \in objects /\ db_find_property(Here, who, quota_name) # NoSlot
      BY <2>2 DEF HasQuota
    <3>2. Shaped(objects, Here) /\ Distinct(Here) /\ who \in Nums
      BY <3>1 DEF PropInv, Fits, Hierarchy
    <3>3. HasIt(Here, who, quota_name)
      BY <3>1, <3>2, FoundHas
    <3>4. quota_name \in DOMAIN named.slots[who]
      BY <3>1, <3>2, <3>3, NamedIs DEF PropInv, Named
    <3>5. named'.slots = [named.slots EXCEPT ![who][quota_name] = named'.slots[who][quota_name]]
      <4>1. S = [y \in Nums |-> S[y]] /\ \A y \in objects : S[y] = [name \in DOMAIN S[y] |-> S[y][name]]
        BY <1>5 DEF PropInv, Named, NamedSlots, Hierarchy
      <4>2. S = [S EXCEPT ![who][quota_name] = S[who][quota_name]]
        BY <4>1, <3>1
      <4> QED
        BY <4>2, <1>5, <1>7
    <3> QED
      BY <3>1, <3>4, <3>5, <1>3, <1>4 DEF Table!Write
  <2> QED
    BY <2>1, <2>2
<1> QED
  BY <1>2, <1>4, <1>5, <1>6, <1>7 DEF Quotaed

-----------------------------------------------------------------------------
(* A property more, or less: arrays with a place more or less *)

\* An element is put in before the i-th.
LEMMA InsertIs ==
  ASSUME NEW X, NEW s \in Seq(X), NEW e \in X, NEW i \in 1..(Len(s) + 1), NEW r, r = InsertAt(s, i, e)
  PROVE  /\ r \in Seq(X)
         /\ Len(r) = Len(s) + 1
         /\ r[i] = e
         /\ \A k \in DOMAIN s : k < i => r[k] = s[k]
         /\ \A k \in DOMAIN s : k >= i => r[k + 1] = s[k]
<1>1. Len(s) \in Nat /\ DOMAIN s = 1..Len(s) /\ i \in Nat /\ i >= 1 /\ i <= Len(s) + 1
  OBVIOUS
<1>2. PICK a, b : a = SubSeq(s, 1, i - 1) /\ b = SubSeq(s, i, Len(s))
  OBVIOUS
<1>3. /\ a \in Seq(X) /\ Len(a) = i - 1
      /\ \A k \in 1..(i - 1) : a[k] = s[k]
  BY <1>1, <1>2
<1>4. /\ b \in Seq(X) /\ Len(b) = Len(s) - i + 1
      /\ \A k \in 1..(Len(s) - i + 1) : b[k] = s[i + k - 1]
  BY <1>1, <1>2
<1>5. r = (a \o <<e>>) \o b
  BY <1>2 DEF InsertAt
<1>6. PICK c : c = a \o <<e>>
  OBVIOUS
<1>7. c \in Seq(X) /\ Len(c) = i /\ c[i] = e /\ \A k \in 1..(i - 1) : c[k] = s[k]
  BY <1>1, <1>3, <1>6
<1>8. r = c \o b
  BY <1>5, <1>6
<1>9. /\ r \in Seq(X) /\ Len(r) = Len(s) + 1
      /\ \A k \in 1..i : r[k] = c[k]
      /\ \A k \in 1..(Len(s) - i + 1) : r[i + k] = b[k]
  BY <1>1, <1>4, <1>7, <1>8
<1>10. ASSUME NEW k \in DOMAIN s, k < i PROVE r[k] = s[k]
  <2>1. k \in 1..(i - 1) /\ k \in 1..i
    BY <1>1, <1>10
  <2> QED
    BY <2>1, <1>7, <1>9
<1>11. ASSUME NEW k \in DOMAIN s, k >= i PROVE r[k + 1] = s[k]
  <2>1. PICK h : h = k - i + 1
    OBVIOUS
  <2>2. h \in 1..(Len(s) - i + 1) /\ i + h = k + 1 /\ i + h - 1 = k
    BY <1>1, <1>11, <2>1
  <2>3. r[i + h] = b[h] /\ b[h] = s[i + h - 1]
    BY <2>2, <1>4, <1>9
  <2> QED
    BY <2>2, <2>3
<1>12. r[i] = e
  BY <1>1, <1>7, <1>9
<1> QED
  BY <1>9, <1>10, <1>11, <1>12

\* The i-th is taken out.
LEMMA RemoveIs ==
  ASSUME NEW X, NEW s \in Seq(X), NEW i \in DOMAIN s, NEW r, r = RemoveAt(s, i)
  PROVE  /\ r \in Seq(X)
         /\ Len(r) = Len(s) - 1
         /\ Len(s) \in Nat /\ Len(s) >= 1
         /\ \A k \in DOMAIN r : k < i => r[k] = s[k] /\ k \in DOMAIN s
         /\ \A k \in DOMAIN r : k >= i => r[k] = s[k + 1] /\ k + 1 \in DOMAIN s
<1>1. Len(s) \in Nat /\ DOMAIN s = 1..Len(s) /\ i \in Nat /\ i >= 1 /\ i <= Len(s)
  OBVIOUS
<1>2. PICK a, b : a = SubSeq(s, 1, i - 1) /\ b = SubSeq(s, i + 1, Len(s))
  OBVIOUS
<1>3. /\ a \in Seq(X) /\ Len(a) = i - 1
      /\ \A k \in 1..(i - 1) : a[k] = s[k]
  BY <1>1, <1>2
<1>4. /\ b \in Seq(X) /\ Len(b) = Len(s) - i
      /\ \A k \in 1..(Len(s) - i) : b[k] = s[i + k]
  BY <1>1, <1>2, SMTT(40)
<1>5. r = a \o b
  BY <1>2 DEF RemoveAt
<1>9. /\ r \in Seq(X) /\ Len(r) = Len(a) + Len(b)
      /\ \A k \in 1..Len(a) : r[k] = a[k]
      /\ \A k \in 1..Len(b) : r[Len(a) + k] = b[k]
  <2>1. a \in Seq(X) /\ b \in Seq(X)
    BY <1>3, <1>4
  <2> QED
    BY <2>1, <1>5
<1>6. /\ r \in Seq(X) /\ Len(r) = Len(s) - 1 /\ DOMAIN r = 1..(Len(s) - 1)
      /\ \A k \in 1..(i - 1) : r[k] = a[k]
      /\ \A k \in 1..(Len(s) - i) : r[(i - 1) + k] = b[k]
  BY <1>1, <1>3, <1>4, <1>9
<1>7. ASSUME NEW k \in DOMAIN r, k < i PROVE r[k] = s[k] /\ k \in DOMAIN s
  <2>1. k \in 1..(i - 1)
    BY <1>1, <1>6, <1>7
  <2> QED
    BY <2>1, <1>1, <1>3, <1>6
<1>8. ASSUME NEW k \in DOMAIN r, k >= i PROVE r[k] = s[k + 1] /\ k + 1 \in DOMAIN s
  <2>1. PICK h : h = k - i + 1
    OBVIOUS
  <2>2. h \in 1..(Len(s) - i) /\ (i - 1) + h = k /\ i + h = k + 1 /\ k + 1 \in DOMAIN s
    BY <1>1, <1>6, <1>8, <2>1
  <2>3. r[(i - 1) + h] = b[h] /\ b[h] = s[i + h]
    BY <2>2, <1>4, <1>6
  <2> QED
    BY <2>2, <2>3
<1> QED
  BY <1>1, <1>6, <1>7, <1>8

\* When x defines k properties more, what comes behind its own slots moves.
MovedBy(t, t2, x, y, k) ==
  /\ Above(t2, y) = Above(t, y)
  /\ \A z \in Above(t, y) : x \notin Above(t, y) \/ x \in Above(t, z) =>
       Before(t2, y, z) = Before(t, y, z)
  /\ \A z \in Above(t, y) : x \in Above(t, y) /\ x \notin Above(t, z) =>
       Before(t2, y, z) = Before(t, y, z) + k
  /\ x \notin Above(t, y) => dbpriv_count_properties(t2, y) = dbpriv_count_properties(t, y)
  /\ x \in Above(t, y) => dbpriv_count_properties(t2, y) = dbpriv_count_properties(t, y) + k

\* When x defines k properties more, what comes after its own moves by k in all below it.
LEMMA DefsMoved ==
  ASSUME NEW O, NEW t, Shaped(O, t), NEW t2, Shaped(O, t2), t2.up = t.up, NEW x \in Nums,
         \A y \in Nums : y # x => t2.defs[y] = t.defs[y], NEW y \in Nums,
         NEW k, k = Len(t2.defs[x]) - Len(t.defs[x])
  PROVE  MovedBy(t, t2, x, y, k)
<1>1. \A w : Above(t2, w) = Above(t, w)
  BY SameLines
<1>2. PICK l, m : l = Len(t.defs[x]) /\ m = Len(t2.defs[x])
  OBVIOUS
<1>3. l \in Nat /\ m \in Nat /\ NOTHING \notin Nums
  BY <1>2, ShapedUp, NothingIsNoNumber
<1> DEFINE Good(w) ==
             \A z \in Above(t, w) :
               /\ x \notin Above(t, w) \/ x \in Above(t, z) => Before(t2, w, z) = Before(t, w, z)
               /\ x \in Above(t, w) /\ x \notin Above(t, z) =>
                    Before(t2, w, z) = Before(t, w, z) + (m - l)
           Counts(w) ==
             dbpriv_count_properties(t2, w) =
               dbpriv_count_properties(t, w) + IF x \in Above(t, w) THEN m - l ELSE 0
           S == {w \in Nums : Good(w) /\ Counts(w)}
<1>4. ASSUME NEW w \in Nums, t.up[w] \in S \cup {NOTHING} PROVE w \in S
  <2>1. PICK lw, mw : lw = Len(t.defs[w]) /\ mw = Len(t2.defs[w])
    OBVIOUS
  <2>2. lw \in Nat /\ mw \in Nat /\ (w # x => mw = lw) /\ (w = x => lw = l /\ mw = m)
    BY <2>1, <1>2, ShapedUp
  <2>3. /\ w \in Above(t, w)
        /\ \A a : a \in Above(t, w) <=> a = w \/ (t.up[w] # NOTHING /\ a \in Above(t, t.up[w]))
    BY AboveUp
  <2>4. t.up[w] # NOTHING => w \notin Above(t, t.up[w])
    BY AboveOrder
  <2>5. PICK u : u = t.up[w] /\ u = t2.up[w] /\ u \in Nums \cup {NOTHING}
    BY ShapedUp
  <2>6. Counts(w)
    <3>1. PICK c, c2, d, d2 :
            /\ c = dbpriv_count_properties(t, w) /\ c2 = dbpriv_count_properties(t2, w)
            /\ d = dbpriv_count_properties(t, u) /\ d2 = dbpriv_count_properties(t2, u)
      OBVIOUS
    <3>2. c = lw + d /\ c2 = mw + d2 /\ d \in Nat /\ d2 \in Nat
      BY <3>1, <2>1, <2>5, CountUp
    <3>3. CASE u = NOTHING
      <4>1. d = 0 /\ d2 = 0
        BY <3>1, <3>3, CountUp
      <4>2. x \in Above(t, w) <=> x = w
        BY <3>3, <2>3, <2>5
      <4> QED
        BY <4>1, <4>2, <3>1, <3>2, <2>2, <1>3
    <3>4. CASE u \in Nums
      <4>1. d2 = d + IF x \in Above(t, u) THEN m - l ELSE 0
        BY <3>1, <3>4, <1>3, <1>4, <2>5
      <4>2. x \in Above(t, w) <=> x = w \/ x \in Above(t, u)
        BY <3>4, <2>3, <2>5, <1>3
      <4>3. x = w => x \notin Above(t, u)
        BY <3>4, <2>4, <2>5, <1>3
      <4> QED
        BY <4>1, <4>2, <4>3, <3>1, <3>2, <2>2, <1>3, SMTT(40)
    <3> QED
      BY <3>3, <3>4, <2>5
  <2>7. ASSUME NEW z \in Above(t, w)
        PROVE  /\ x \notin Above(t, w) \/ x \in Above(t, z) => Before(t2, w, z) = Before(t, w, z)
               /\ x \in Above(t, w) /\ x \notin Above(t, z) =>
                    Before(t2, w, z) = Before(t, w, z) + (m - l)
    <3>1. CASE z = w
      BY <3>1, BeforeUp
    <3>2. CASE z # w
      <4>1. u \in Nums /\ z \in Above(t, u) /\ u \in S
        BY <3>2, <2>3, <2>5, <1>4
      <4>2. PICK b, b2, c, c2 : /\ b = Before(t, w, z) /\ b2 = Before(t2, w, z)
                                /\ c = Before(t, u, z) /\ c2 = Before(t2, u, z)
        OBVIOUS
      <4>3. b = lw + c /\ c \in Nat
        BY <4>1, <4>2, <3>2, <2>1, <2>5, BeforeUp
      <4>4. b2 = mw + c2 /\ c2 \in Nat
        BY <4>1, <4>2, <3>2, <2>1, <2>5, <1>1, BeforeUp
      <4>5. /\ x \notin Above(t, u) \/ x \in Above(t, z) => c2 = c
            /\ x \in Above(t, u) /\ x \notin Above(t, z) => c2 = c + (m - l)
        BY <4>1, <4>2
      <4>6. x \in Above(t, w) <=> x = w \/ x \in Above(t, u)
        BY <4>1, <2>3, <2>5, <1>3
      <4>7. x = w => x \notin Above(t, u) /\ x \notin Above(t, z)
        <5>1. x = w => x \notin Above(t, u)
          BY <4>1, <2>4, <2>5, <1>3
        <5>2. Above(t, z) \subseteq Above(t, u)
          BY <4>1, AboveOrder
        <5> QED
          BY <5>1, <5>2
      <4> QED
        BY <4>2, <4>3, <4>4, <4>5, <4>6, <4>7, <2>2, <1>3, SMTT(40)
    <3> QED
      BY <3>1, <3>2
  <2> QED
    BY <2>6, <2>7
<1>5. Nums \subseteq S
  <2> HIDE DEF S
  <2> QED
    BY <1>4, ShapedInduction
<1>6. Good(y) /\ Counts(y)
  BY <1>5
<1>7. dbpriv_count_properties(t, y) \in Nat
  BY CountUp
<1>8. /\ x \notin Above(t, y) => dbpriv_count_properties(t2, y) = dbpriv_count_properties(t, y)
      /\ x \in Above(t, y) => dbpriv_count_properties(t2, y) = dbpriv_count_properties(t, y) + (m - l)
  BY <1>3, <1>6, <1>7
<1>9. Good(y)
  BY <1>6
<1>10. k = m - l
  BY <1>2
<1> HIDE DEF Counts
<1> QED
  BY <1>1, <1>8, <1>9, <1>10 DEF MovedBy

-----------------------------------------------------------------------------
(* A property is added. *)

\* The arrays with a slot of new for what x defines last
Inserted(t, slots, x, new) ==
  [y \in Nums |-> IF x \in Above(t, y)
                  THEN InsertAt(slots[y], Before(t, y, x) + (Len(t.defs[x]) + 1), new[y])
                  ELSE slots[y]]

\* What is where: the new slots behind what x defined before, and all others for what they
\* were for.
AddedCells(t, t2, slots, now, x, name, new, last) ==
  /\ \A y \in Nums : Above(t2, y) = Above(t, y)
  /\ last \in DOMAIN t2.defs[x] /\ last \notin DOMAIN t.defs[x] /\ t2.defs[x][last] = name
  /\ \A z \in Nums : \A i : i \in DOMAIN t2.defs[z] <=> i \in DOMAIN t.defs[z] \/ (z = x /\ i = last)
  /\ \A z \in Nums : \A i \in DOMAIN t.defs[z] : t2.defs[z][i] = t.defs[z][i]
  /\ \A y \in Nums : \A z \in Above(t, y) : \A i \in DOMAIN t.defs[z] :
       now[y][Place(t2, y, z, i)] = slots[y][Place(t, y, z, i)]
  /\ \A y \in Nums : x \in Above(t, y) => now[y][Place(t2, y, x, last)] = new[y]

\* x, an object of arrays that fit, defines the name too, and now are the arrays with it.
Adding(O, t, slots, x, name, new, t2, now, last) ==
  /\ Fits(O, t, slots)
  /\ x \in O /\ name \in Names /\ new \in [Nums -> SlotRecords]
  /\ t2.up = t.up /\ t2.defs = [t.defs EXCEPT ![x] = Append(@, name)]
  /\ now = Inserted(t, slots, x, new)
  /\ last = Len(t.defs[x]) + 1

\* insert_prop_recursively() leaves each slot with its property and puts the new one last of x's.
LEMMA AddCells ==
  ASSUME NEW O, NEW t, NEW slots, NEW x, NEW name, NEW new, NEW t2, NEW now, NEW last,
         Adding(O, t, slots, x, name, new, t2, now, last)
  PROVE  /\ Shaped(O, t2)
         /\ now \in [Nums -> Seq(SlotRecords)]
         /\ \A y \in Nums : Len(now[y]) = dbpriv_count_properties(t2, y)
         /\ AddedCells(t, t2, slots, now, x, name, new, last)
<1> SUFFICES ASSUME Fits(O, t, slots), x \in O, name \in Names, new \in [Nums -> SlotRecords],
                    t2.up = t.up, t2.defs = [t.defs EXCEPT ![x] = Append(@, name)],
                    now = Inserted(t, slots, x, new), last = Len(t.defs[x]) + 1
             PROVE  /\ Shaped(O, t2)
                    /\ now \in [Nums -> Seq(SlotRecords)]
                    /\ \A y \in Nums : Len(now[y]) = dbpriv_count_properties(t2, y)
                    /\ AddedCells(t, t2, slots, now, x, name, new, last)
  BY DEF Adding
<1>1. Shaped(O, t) /\ slots \in [Nums -> Seq(SlotRecords)] /\ x \in Nums
  BY DEF Fits, Shaped
<1>2. PICK d, d2 : d = t.defs[x] /\ d2 = t2.defs[x]
  OBVIOUS
<1>3. t.defs \in [Nums -> Seq(Names)] /\ d \in Seq(Names) /\ Len(d) \in Nat
  BY <1>1, <1>2 DEF Shaped
<1>4. d2 = Append(d, name)
  BY <1>1, <1>2, <1>3
<1>5. /\ d2 \in Seq(Names) /\ Len(d2) = Len(d) + 1 /\ DOMAIN d2 = 1..(Len(d) + 1)
      /\ d2[Len(d) + 1] = name /\ \A i \in DOMAIN d : d2[i] = d[i]
  BY <1>3, <1>4
<1>6. /\ t2.defs \in [Nums -> Seq(Names)]
      /\ \A y \in Nums : y # x => t2.defs[y] = t.defs[y]
  BY <1>1, <1>2, <1>3, <1>5
<1>7. Shaped(O, t2)
  BY <1>1, <1>6 DEF Shaped
<1>8. last = Len(d) + 1 /\ last \in Nat /\ DOMAIN d = 1..Len(d) /\ last \in DOMAIN d2 /\ last \notin DOMAIN d
  BY <1>2, <1>3, <1>5
<1>9. ASSUME NEW y \in Nums
      PROVE  /\ Above(t2, y) = Above(t, y)
             /\ \A z \in Above(t, y) : x \notin Above(t, y) \/ x \in Above(t, z) =>
                  Before(t2, y, z) = Before(t, y, z)
             /\ \A z \in Above(t, y) : x \in Above(t, y) /\ x \notin Above(t, z) =>
                  Before(t2, y, z) = Before(t, y, z) + 1
             /\ x \notin Above(t, y) => dbpriv_count_properties(t2, y) = dbpriv_count_properties(t, y)
             /\ x \in Above(t, y) => dbpriv_count_properties(t2, y) = dbpriv_count_properties(t, y) + 1
  <2>1. PICK l, m : l = Len(t.defs[x]) /\ m = Len(t2.defs[x])
    OBVIOUS
  <2>2. m - l = 1
    BY <2>1, <1>2, <1>3, <1>5
  <2>3. MovedBy(t, t2, x, y, 1)
    BY <2>1, <2>2, <1>1, <1>6, <1>7, DefsMoved
  <2> QED
    BY <2>3 DEF MovedBy
<1>10. ASSUME NEW y \in Nums
       PROVE  /\ now[y] \in Seq(SlotRecords)
              /\ Len(now[y]) = dbpriv_count_properties(t2, y)
              /\ x \in Above(t, y) => now[y][Place(t2, y, x, last)] = new[y]
              /\ \A z \in Above(t, y) : \A i \in DOMAIN t.defs[z] :
                   now[y][Place(t2, y, z, i)] = slots[y][Place(t, y, z, i)]
  <2>1. /\ slots[y] \in Seq(SlotRecords) /\ Len(slots[y]) \in Nat
        /\ Len(slots[y]) = dbpriv_count_properties(t, y) /\ new[y] \in SlotRecords
        /\ DOMAIN slots[y] = 1..Len(slots[y])
    BY <1>1 DEF Fits
  <2>2. CASE x \notin Above(t, y)
    <3>1. now[y] = slots[y]
      BY <2>2 DEF Inserted
    <3>2. ASSUME NEW z \in Above(t, y), NEW i \in DOMAIN t.defs[z]
          PROVE  now[y][Place(t2, y, z, i)] = slots[y][Place(t, y, z, i)]
      <4>1. Before(t2, y, z) = Before(t, y, z)
        BY <2>2, <1>9
      <4> QED
        BY <4>1, <3>1 DEF Place
    <3> QED
      BY <2>1, <2>2, <3>1, <3>2, <1>9
  <2>3. CASE x \in Above(t, y)
    <3>1. PICK b, c : b = Before(t, y, x) /\ c = dbpriv_count_properties(t, y)
      OBVIOUS
    <3>2. b \in Nat /\ c \in Nat /\ b + Len(d) <= c /\ Len(slots[y]) = c
      BY <3>1, <2>1, <2>3, <1>1, <1>2, BeforeBounds
    <3>3. now[y] = InsertAt(slots[y], b + last, new[y])
      BY <3>1, <2>3 DEF Inserted
    <3>4. b + last \in 1..(Len(slots[y]) + 1)
      BY <3>2, <1>3, <1>8, SMTT(40)
    <3>5. PICK s, p : s = slots[y] /\ p = b + last
      OBVIOUS
    <3>6. /\ now[y] \in Seq(SlotRecords)
          /\ Len(now[y]) = Len(s) + 1
          /\ now[y][p] = new[y]
          /\ \A k \in DOMAIN s : k < p => now[y][k] = s[k]
          /\ \A k \in DOMAIN s : k >= p => now[y][k + 1] = s[k]
      <4>1. s \in Seq(SlotRecords) /\ p \in 1..(Len(s) + 1) /\ new[y] \in SlotRecords
        BY <3>4, <3>5, <2>1
      <4>2. now[y] = InsertAt(s, p, new[y])
        BY <3>3, <3>5
      <4> QED
        BY <4>1, <4>2, InsertIs
    <3>7. now[y][Place(t2, y, x, last)] = new[y]
      <4>1. x \in Above(t, x)
        BY <1>1, AboveUp
      <4>2. Before(t2, y, x) = b
        BY <4>1, <3>1, <2>3, <1>9
      <4> QED
        BY <4>2, <3>5, <3>6 DEF Place
    <3>8. ASSUME NEW z \in Above(t, y), NEW i \in DOMAIN t.defs[z]
          PROVE  now[y][Place(t2, y, z, i)] = slots[y][Place(t, y, z, i)]
      <4>1. PICK k, bz, lz : k = Place(t, y, z, i) /\ bz = Before(t, y, z) /\ lz = Len(t.defs[z])
        OBVIOUS
      <4>2. /\ k \in Nat /\ k = bz + i /\ k \in DOMAIN s /\ bz \in Nat /\ i \in Nat
            /\ i >= 1 /\ i <= lz /\ lz \in Nat /\ z \in Nums
        BY <4>1, <3>5, PlaceFits
      <4>3. CASE x \in Above(t, z)
        <5>1. Before(t2, y, z) = bz
          BY <4>1, <4>3, <1>9
        <5>2. x # z => b >= bz + lz
          BY <4>1, <4>3, <3>1, <1>1, BeforeBounds
        <5>3. x = z => bz = b /\ lz = Len(d)
          BY <4>1, <3>1, <1>2
        <5>4. k < p
          <6>1. PICK n : n = Len(d) /\ n \in Nat
            BY <1>3
          <6>2. p = b + (n + 1) /\ b \in Nat
            BY <6>1, <3>2, <3>5, <1>8
          <6>3. CASE x = z
            <7>1. bz = b /\ lz = n
              BY <6>1, <6>3, <5>3
            <7> QED
              BY <7>1, <6>1, <6>2, <4>2
          <6>4. CASE x # z
            BY <6>1, <6>2, <6>4, <5>2, <4>2
          <6> QED
            BY <6>3, <6>4
        <5>5. Place(t2, y, z, i) = k
          BY <5>1, <4>2 DEF Place
        <5> QED
          BY <5>4, <5>5, <4>1, <4>2, <3>5, <3>6
      <4>4. CASE x \notin Above(t, z)
        <5>1. Before(t2, y, z) = bz + 1
          BY <4>1, <4>4, <2>3, <1>9
        <5>2. z \in Above(t, x) /\ z # x
          BY <4>2, <4>4, <2>3, <1>1, AboveOrder, AboveUp
        <5>3. bz >= b + Len(d)
          BY <5>2, <4>1, <3>1, <2>3, <1>1, <1>2, BeforeBounds
        <5>4. k >= p /\ (bz + 1) + i = k + 1
          <6>1. PICK n : n = Len(d) /\ n \in Nat
            BY <1>3
          <6>2. p = b + (n + 1) /\ b \in Nat /\ bz >= b + n
            BY <6>1, <5>3, <3>2, <3>5, <1>8
          <6> QED
            BY <6>1, <6>2, <4>2
        <5>5. Place(t2, y, z, i) = k + 1
          BY <5>1, <5>4 DEF Place
        <5> QED
          BY <5>4, <5>5, <4>1, <4>2, <3>5, <3>6
      <4> QED
        BY <4>3, <4>4
    <3> QED
      BY <3>1, <3>2, <3>5, <3>6, <3>7, <3>8, <2>3, <1>9
  <2> QED
    BY <2>2, <2>3
<1>11. now \in [Nums -> Seq(SlotRecords)]
  BY <1>10 DEF Inserted
<1>12. ASSUME NEW z \in Nums
       PROVE  /\ \A i : i \in DOMAIN t2.defs[z] <=> i \in DOMAIN t.defs[z] \/ (z = x /\ i = last)
              /\ \A i \in DOMAIN t.defs[z] : t2.defs[z][i] = t.defs[z][i]
  <2>1. CASE z # x
    BY <2>1, <1>6
  <2>2. CASE z = x
    <3>1. \A i : i \in 1..(Len(d) + 1) <=> i \in 1..Len(d) \/ i = Len(d) + 1
      <4>1. PICK n : n = Len(d) /\ n \in Nat
        BY <1>3
      <4> QED
        BY <4>1
    <3> QED
      BY <3>1, <2>2, <1>2, <1>5, <1>8
  <2> QED
    BY <2>1, <2>2
<1>13. last \in DOMAIN t2.defs[x] /\ last \notin DOMAIN t.defs[x] /\ t2.defs[x][last] = name
  BY <1>2, <1>5, <1>8
<1> QED
  BY <1>7, <1>9, <1>10, <1>11, <1>12, <1>13 DEF AddedCells

\* The arrays fit the shape with a property more, when the name is new above and below.
LEMMA AddFits ==
  ASSUME NEW O, NEW t, NEW slots, Fits(O, t, slots), NEW x \in O, NEW name \in Names,
         NEW new \in [Nums -> SlotRecords], new[x].value # CLEAR,
         \A y \in Nums : x \in Above(t, y) => ~HasIt(t, y, name),
         NEW t2, t2.up = t.up, t2.defs = [t.defs EXCEPT ![x] = Append(@, name)],
         NEW now, now = Inserted(t, slots, x, new), NEW last, last = Len(t.defs[x]) + 1
  PROVE  Fits(O, t2, now) /\ AddedCells(t, t2, slots, now, x, name, new, last)
<1>1. /\ Shaped(O, t2) /\ now \in [Nums -> Seq(SlotRecords)]
      /\ \A y \in Nums : Len(now[y]) = dbpriv_count_properties(t2, y)
      /\ AddedCells(t, t2, slots, now, x, name, new, last)
  <2>1. Adding(O, t, slots, x, name, new, t2, now, last)
    BY DEF Adding
  <2> QED
    BY <2>1, AddCells
<1>2. /\ Shaped(O, t) /\ Distinct(t) /\ OwnValues(t, slots) /\ x \in Nums
      /\ \A y \in Nums \ O : t.defs[y] = <<>>
  BY DEF Fits, Shaped
<1>3. /\ \A y \in Nums : Above(t2, y) = Above(t, y)
      /\ t2.defs[x][last] = name
      /\ \A z \in Nums : \A i : i \in DOMAIN t2.defs[z] <=> i \in DOMAIN t.defs[z] \/ (z = x /\ i = last)
      /\ \A z \in Nums : \A i \in DOMAIN t.defs[z] : t2.defs[z][i] = t.defs[z][i]
  BY <1>1 DEF AddedCells
<1>4. Distinct(t2)
  <2>1. SUFFICES ASSUME NEW y \in Nums, NEW z \in Above(t2, y), NEW w \in Above(t2, y),
                        NEW i \in DOMAIN t2.defs[z], NEW j \in DOMAIN t2.defs[w],
                        t2.defs[z][i] = t2.defs[w][j]
                 PROVE  z = w /\ i = j
    BY DEF Distinct
  <2>2. z \in Above(t, y) /\ w \in Above(t, y) /\ z \in Nums /\ w \in Nums
    BY <1>2, <1>3, AboveUp
  <2>3. ASSUME x \in Above(t, y), NEW v \in Above(t, y), v \in Nums, NEW k \in DOMAIN t.defs[v]
        PROVE  t.defs[v][k] # name
    BY <2>3 DEF HasIt, Has
  <2>4. CASE i \in DOMAIN t.defs[z] /\ j \in DOMAIN t.defs[w]
    BY <2>1, <2>2, <2>4, <1>2, <1>3 DEF Distinct
  <2>5. CASE i \notin DOMAIN t.defs[z]
    <3>1. z = x /\ i = last /\ t2.defs[z][i] = name
      BY <2>2, <2>5, <1>3, SMTT(40)
    <3>2. j \notin DOMAIN t.defs[w]
      BY <3>1, <2>1, <2>2, <2>3, <1>3
    <3> QED
      BY <3>1, <3>2, <2>2, <1>3
  <2>6. CASE j \notin DOMAIN t.defs[w]
    <3>1. w = x /\ j = last /\ t2.defs[w][j] = name
      BY <2>2, <2>6, <1>3
    <3>2. i \notin DOMAIN t.defs[z]
      BY <3>1, <2>1, <2>2, <2>3, <1>3
    <3> QED
      BY <3>1, <3>2, <2>2, <1>3
  <2> QED
    BY <2>4, <2>5, <2>6
<1>5. OwnValues(t2, now)
  <2>1. SUFFICES ASSUME NEW z \in Nums, NEW i \in DOMAIN t2.defs[z]
                 PROVE  now[z][i].value # CLEAR
    BY DEF OwnValues
  <2>2. z \in Above(t2, z) /\ z \in Above(t, z) /\ Before(t2, z, z) = 0 /\ Before(t, z, z) = 0
    BY <1>1, <1>2, AboveUp, BeforeUp
  <2>3. i \in Nat
    BY <1>1 DEF Shaped
  <2>4. Place(t2, z, z, i) = i /\ Place(t, z, z, i) = i
    BY <2>2, <2>3 DEF Place
  <2>5. CASE i \in DOMAIN t.defs[z]
    <3>1. now[z][Place(t2, z, z, i)] = slots[z][Place(t, z, z, i)]
      BY <2>2, <2>5, <1>1 DEF AddedCells
    <3> QED
      BY <3>1, <2>4, <2>5, <1>2 DEF OwnValues
  <2>6. CASE i \notin DOMAIN t.defs[z]
    <3>1. z = x /\ i = last
      BY <2>6, <1>3
    <3>2. now[x][Place(t2, x, x, last)] = new[x]
      BY <3>1, <2>2, <1>1 DEF AddedCells
    <3> QED
      BY <3>1, <3>2, <2>4
  <2> QED
    BY <2>5, <2>6
<1>6. \A y \in Nums \ O : t2.defs[y] = <<>>
  BY <1>2 DEF Fits
<1> QED
  BY <1>1, <1>4, <1>5, <1>6 DEF Fits

\* A slot as it is inherited is a clear copy.
LEMMA InheritedIsClearCopy ==
  ASSUME NEW slot \in SlotRecords, NEW who
  PROVE  Table!ClearCopy(slot, who) = Inherited(slot, who)
<1>1. PICK a, b, c : slot = [value |-> a, owner |-> b, chown |-> c]
  BY DEF SlotRecords
<1>2. PICK w : w = IF slot.chown THEN who ELSE slot.owner
  OBVIOUS
<1>3. PICK r : r = [slot EXCEPT !.value = CLEAR]
  OBVIOUS
<1>4. r = [value |-> CLEAR, owner |-> b, chown |-> c]
  BY <1>1, <1>3
<1>5. [r EXCEPT !.owner = w] = [value |-> CLEAR, owner |-> w, chown |-> c]
  BY <1>4
<1>6. [slot EXCEPT !.value = CLEAR, !.owner = w] = [r EXCEPT !.owner = w]
  BY <1>3
<1>7. slot.chown = c
  BY <1>1
<1> QED
  BY <1>2, <1>5, <1>6, <1>7 DEF Table!ClearCopy, Inherited, Slot

\* bf_add_property(): Define of the table
LEMMA AddDefines ==
  ASSUME Hierarchy, PropInv, NamedAnew, NEW x, NEW name \in Names, NEW value \in Values, NEW who,
         NEW chown \in BOOLEAN, AddProperty(x, name, value, who, chown)
  PROVE  PropInv' /\ (Hierarchy' => Table!Define)
<1>1. /\ x \in objects /\ who \in objects
      /\ db_find_property(Here, x, name) = NoSlot
      /\ ~property_defined_at_or_below(name, x)
      /\ propdefs' = [propdefs EXCEPT ![x] = Append(@, name)]
      /\ propval' = insert_prop_recursively(x, Len(propdefs[x]) + 1, Slot(value, who, chown))
      /\ UNCHANGED <<objects, family, owner>>
  BY DEF AddProperty, SlotsBecome
<1>2. /\ objects \in SUBSET Nums /\ GoodTree(objects, family) /\ x \in Nums /\ who \in Nums
      /\ Fits(objects, Here, propval) /\ Shaped(objects, Here) /\ Distinct(Here)
      /\ \A y \in Nums \ objects : Here.defs[y] = <<>>
      /\ owner \in [Nums -> Nums \cup {NOTHING}]
  BY <1>1 DEF Hierarchy, PropInv, Fits
<1>3. PICK t, t2 : t = Here /\ t2 = Here'
  OBVIOUS
<1>4. /\ t.up = family.up /\ t.defs = propdefs /\ t2.up = t.up
      /\ t2.defs = [t.defs EXCEPT ![x] = Append(@, name)]
  BY <1>1, <1>3 DEF Here, Shape
<1>5. \A y \in Nums : y \in objects /\ IsAtOrBelow(family, y, x) <=> x \in Above(t, y)
  <2>1. \A y \in Nums : IsAtOrBelow(family, y, x) <=> x \in Above(t, y)
    BY <1>2, <1>4, LineIsAbove, SameLines DEF IsAtOrBelow
  <2>2. ASSUME NEW y \in Nums \ objects PROVE x \notin Above(t, y)
    <3>1. t.up[y] = NOTHING /\ Shaped(objects, t)
      BY <1>2, <1>3, ShapedUp
    <3> QED
      BY <3>1, <1>1, AboveUp
  <2> QED
    BY <2>1, <2>2
<1> DEFINE new == [y \in Nums |-> IF y = x
                     THEN [Slot(value, who, chown) EXCEPT !.owner = Inherited(Slot(value, who, chown), owner[x]).owner]
                     ELSE Inherited(Slot(value, who, chown), owner[y])]
<1>6. /\ \A y \in Nums : Inherited(Slot(value, who, chown), owner[y]) \in SlotRecords
      /\ new \in [Nums -> SlotRecords] /\ new[x].value = value
      /\ \A y \in Nums : y # x => new[y] = Inherited(new[x], owner[y])
  <2>1. value \in Int
    BY PropertyAssumption
  <2>2. \A y \in Nums : Inherited(Slot(value, who, chown), owner[y]) =
                          [value |-> CLEAR, owner |-> IF chown THEN owner[y] ELSE who, chown |-> chown]
    BY DEF Inherited, Slot
  <2>3. new[x] = [value |-> value, owner |-> IF chown THEN owner[x] ELSE who, chown |-> chown]
    <3>1. PICK w : w = Inherited(Slot(value, who, chown), owner[x]).owner
      OBVIOUS
    <3>2. w = IF chown THEN owner[x] ELSE who
      BY <3>1, <2>2, <1>2
    <3>3. new[x] = [Slot(value, who, chown) EXCEPT !.owner = w]
      BY <3>1, <1>2
    <3>4. new[x] = [value |-> value, owner |-> w, chown |-> chown]
      BY <3>3 DEF Slot
    <3> QED
      BY <3>2, <3>4
  <2>4. \A y \in Nums : owner[y] \in Nums \cup {NOTHING}
    BY <1>2
  <2>5. \A y \in Nums : Inherited(Slot(value, who, chown), owner[y]) \in SlotRecords
    BY <2>2, <2>4, <1>2 DEF SlotRecords
  <2>6. new[x] \in SlotRecords
    BY <2>1, <2>3, <2>4, <1>2 DEF SlotRecords
  <2>7. \A y \in Nums : Inherited(new[x], owner[y]) = Inherited(Slot(value, who, chown), owner[y])
    BY <2>2, <2>3 DEF Inherited, Slot
  <2> QED
    BY <2>3, <2>5, <2>6, <2>7
<1>7. propval' = Inserted(t, propval, x, new)
  BY <1>1, <1>3, <1>4, <1>5 DEF insert_prop_recursively, Inserted
<1>8. new[x].value # CLEAR
  BY <1>6, PropertyAssumption
<1>9. ASSUME NEW y \in Nums, x \in Above(t, y), HasIt(t, y, name) PROVE FALSE
  <2>1. PICK z \in Nums : \E i \in DOMAIN t.defs[z] : Has(t, y, name, z, i)
    BY <1>9 DEF HasIt
  <2>2. PICK i \in DOMAIN t.defs[z] : z \in Above(t, y) /\ t.defs[z][i] = name
    BY <2>1 DEF Has
  <2>3. Shaped(objects, t)
    BY <1>2, <1>3
  <2>4. CASE x \in Above(t, z)
    <3>1. z \in objects
      BY <2>4, <1>5
    <3>2. IsAtOrBelow(family, z, x)
      BY <2>4, <1>5
    <3>3. name \in ToSet(propdefs[z])
      BY <2>2, <1>4 DEF ToSet
    <3> QED
      BY <3>1, <3>2, <3>3, <1>1 DEF property_defined_at_or_below
  <2>5. CASE z \in Above(t, x)
    <3>1. HasIt(t, x, name)
      BY <2>2, <2>5 DEF HasIt, Has
    <3> QED
      BY <3>1, <1>1, <1>2, <1>3, NotFoundHasNot
  <2> QED
    BY <2>2, <2>3, <2>4, <2>5, <1>9, AboveOrder
<1>10. PICK last : last = Len(t.defs[x]) + 1
  OBVIOUS
<1>11. Fits(objects, t2, propval') /\ AddedCells(t, t2, propval, propval', x, name, new, last)
  <2> HIDE DEF new
  <2>1. Fits(objects, t, propval)
    BY <1>2, <1>3
  <2>2. new \in [Nums -> SlotRecords]
    BY <1>6
  <2>3. \A y \in Nums : x \in Above(t, y) => ~HasIt(t, y, name)
    BY <1>9
  <2>4. t2.up = t.up /\ t2.defs = [t.defs EXCEPT ![x] = Append(@, name)]
    BY <1>4
  <2>5. x \in objects /\ new[x].value # CLEAR
    BY <1>1, <1>8
  <2> QED
    BY <2>1, <2>2, <2>3, <2>4, <2>5, <1>7, <1>10, AddFits
<1>12. PropInv' /\ named'.slots = NamedSlots(t2, objects', propval')
  BY <1>1, <1>2, <1>3, <1>11, PropInvThen
<1>13. ASSUME Hierarchy' PROVE Table!Define
  <2>1. TableFacts /\ TableFacts'
    BY <1>12, <1>13, TableIs, TableIsThen
  <2>2. PICK S, S2 : S = named.slots /\ S2 = named'.slots
    OBVIOUS
  <2>3. /\ \A y \in objects : \A n : n \in DOMAIN S2[y] <=> HasIt(t2, y, n)
        /\ \A y \in objects : \A n, z, i : Has(t2, y, n, z, i) => S2[y][n] = propval'[y][Place(t2, y, z, i)]
    BY <2>1, <2>2, <1>1, <1>3 DEF TableFacts
  <2>4. \A y \in objects : \A n, z, i : Has(t, y, n, z, i) => S[y][n] = propval[y][Place(t, y, z, i)]
    BY <2>1, <2>2, <1>3 DEF TableFacts
  <2>5. \A y \in objects : Table!Ancestors[y] = Above(t, y) /\ y \in Nums
    BY <2>1, <1>2, <1>3 DEF TableFacts
  <2>6. /\ \A y \in Nums : Above(t2, y) = Above(t, y)
        /\ last \in DOMAIN t2.defs[x] /\ last \notin DOMAIN t.defs[x] /\ t2.defs[x][last] = name
        /\ \A z \in Nums : \A i : i \in DOMAIN t2.defs[z] <=> i \in DOMAIN t.defs[z] \/ (z = x /\ i = last)
        /\ \A z \in Nums : \A i \in DOMAIN t.defs[z] : t2.defs[z][i] = t.defs[z][i]
        /\ \A y \in Nums : \A z \in Above(t, y) : \A i \in DOMAIN t.defs[z] :
             propval'[y][Place(t2, y, z, i)] = propval[y][Place(t, y, z, i)]
        /\ \A y \in Nums : x \in Above(t, y) => propval'[y][Place(t2, y, x, last)] = new[y]
    <3> HIDE DEF new
    <3> QED
      BY <1>11 DEF AddedCells
  <2>7. \A y \in objects : x \in Above(t, y) => S2[y][name] = new[y]
    <3> HIDE DEF new
    <3> QED
      BY <2>3, <2>5, <2>6, <1>1 DEF Has
  <2>8. x \in Above(t, x)
    BY <1>2, <1>3, AboveUp
  <2>9. S2[x][name].value # CLEAR
    <3> HIDE DEF new
    <3> QED
      BY <2>7, <2>8, <1>1, <1>8
  <2>10. ASSUME NEW y \in objects, x \in Above(t, y)
         PROVE  y = x \/ S2[y][name] = Table!ClearCopy(S2[x][name], owner[y])
    <3>1. S2[y][name] = new[y] /\ S2[x][name] = new[x]
      <4> HIDE DEF new
      <4> QED
        BY <2>7, <2>8, <2>10, <1>1
    <3>2. CASE y # x
      <4>1. S2[y][name] = Inherited(S2[x][name], owner[y])
        <5> HIDE DEF new
        <5> QED
          BY <3>1, <3>2, <2>5, <1>6
      <4>2. S2[x][name] \in SlotRecords
        <5> HIDE DEF new
        <5> QED
          BY <3>1, <1>2, <1>6
      <4> QED
        BY <4>1, <4>2, InheritedIsClearCopy
    <3> QED
      BY <3>2
  <2>11. ASSUME NEW y \in objects, NEW n \in DOMAIN S2[y], n # name \/ x \notin Above(t, y)
         PROVE  S2[y][n] = S[y][n] /\ HasIt(t, y, n)
    <3>1. HasIt(t2, y, n)
      BY <2>3, <2>11
    <3>2. PICK z \in Nums : \E i \in DOMAIN t2.defs[z] : Has(t2, y, n, z, i)
      BY <3>1 DEF HasIt
    <3>3. PICK i \in DOMAIN t2.defs[z] : Has(t2, y, n, z, i)
      BY <3>2
    <3>4. z \in Above(t, y) /\ t2.defs[z][i] = n
      BY <3>3, <2>5, <2>6 DEF Has
    <3>5. i \in DOMAIN t.defs[z]
      BY <3>4, <2>6, <2>11
    <3>6. Has(t, y, n, z, i)
      BY <3>4, <3>5, <2>6 DEF Has
    <3>7. S2[y][n] = propval'[y][Place(t2, y, z, i)] /\ S[y][n] = propval[y][Place(t, y, z, i)]
      BY <3>3, <3>6, <2>3, <2>4
    <3>8. propval'[y][Place(t2, y, z, i)] = propval[y][Place(t, y, z, i)]
      BY <3>4, <3>5, <2>5, <2>6
    <3> QED
      BY <3>5, <3>6, <3>7, <3>8 DEF HasIt
  <2>12. ASSUME NEW y \in objects, x \notin Above(t, y) PROVE S2[y] = S[y]
    <3>1. \A n : n \in DOMAIN S[y] <=> HasIt(t, y, n)
      BY <2>1, <2>2, <1>3 DEF TableFacts
    <3>2. ASSUME NEW n, HasIt(t, y, n) PROVE HasIt(t2, y, n)
      BY <3>2, <2>5, <2>6 DEF HasIt, Has
    <3>3. DOMAIN S2[y] = DOMAIN S[y]
      BY <3>1, <3>2, <2>3, <2>11, <2>12
    <3>4. S[y] = [n \in DOMAIN S[y] |-> S[y][n]] /\ S2[y] = [n \in DOMAIN S2[y] |-> S2[y][n]]
      BY <2>2, <2>5, <1>1, <1>12 DEF PropInv, Named, NamedSlots
    <3> QED
      BY <3>3, <3>4, <2>11, <2>12
  <2>13. name \in ToSet(propdefs'[x])
    BY <2>6, <1>3 DEF Here, Shape, ToSet
  <2>14. [y \in Nums |-> ToSet(propdefs'[y])] =
           [[y \in Nums |-> ToSet(propdefs[y])] EXCEPT ![x] = @ \cup {name}]
    <3>1. \A y \in Nums : y # x => propdefs'[y] = propdefs[y]
      BY <1>1, <1>4, <1>2, <1>3 DEF Shaped
    <3>2. ToSet(propdefs'[x]) = ToSet(propdefs[x]) \cup {name}
      <4>1. propdefs'[x] = t2.defs[x] /\ propdefs[x] = t.defs[x]
        BY <1>3, <1>4 DEF Here, Shape
      <4> QED
        BY <4>1, <2>6, <1>2 DEF ToSet
    <3> QED
      BY <3>1, <3>2, <1>2
  <2>15. \A y \in objects :
           IF x \notin Table!Ancestors[y] THEN S2[y] = S[y]
           ELSE \A n \in DOMAIN S2[y] :
                  IF n # name THEN S2[y][n] = S[y][n]
                  ELSE y = x \/ S2[y][n] = Table!ClearCopy(S2[x][n], owner[y])
    BY <2>5, <2>10, <2>11, <2>12
  <2>16. name \in [y \in Nums |-> ToSet(propdefs'[y])][x]
    BY <2>13, <1>2
  <2>17. UNCHANGED <<objects, owner>> /\ family'.up = family.up /\ x \in objects
    BY <1>1
  <2>18. /\ named'.slots[x][name].value # CLEAR
         /\ \A y \in objects :
              IF x \notin Table!Ancestors[y] THEN named'.slots[y] = named.slots[y]
              ELSE \A n \in DOMAIN named'.slots[y] :
                     IF n # name THEN named'.slots[y][n] = named.slots[y][n]
                     ELSE y = x \/ named'.slots[y][n] = Table!ClearCopy(named'.slots[x][n], owner[y])
    BY <2>2, <2>9, <2>15
  <2> HIDE DEF new
  <2> QED
    BY <2>14, <2>16, <2>17, <2>18, ZenonT(40) DEF Table!Define
<1> QED
  BY <1>12, <1>13

-----------------------------------------------------------------------------
(* A property is deleted. *)

\* The arrays without the slot of the pos-th that x defines
Removed(t, slots, x, pos) ==
  [y \in Nums |-> IF x \in Above(t, y) THEN RemoveAt(slots[y], Before(t, y, x) + pos)
                  ELSE slots[y]]

\* Which of those that z defined is now the i-th
WasAt(x, pos, z, i) == IF z = x /\ i >= pos THEN i + 1 ELSE i

\* What is where: all other slots are for what they were for.
RemovedCells(t, t2, slots, now, x, pos) ==
  \A z \in Nums : \A i \in DOMAIN t2.defs[z] :
    /\ i \in Nat /\ i >= 1
    /\ WasAt(x, pos, z, i) \in DOMAIN t.defs[z]
    /\ t.defs[z][WasAt(x, pos, z, i)] = t2.defs[z][i]
    /\ \A y \in Nums : z \in Above(t, y) =>
         now[y][Place(t2, y, z, i)] = slots[y][Place(t, y, z, WasAt(x, pos, z, i))]

\* remove_prop_recursively() leaves each other slot with its property.
LEMMA RemoveCells ==
  ASSUME NEW O, NEW t, NEW slots, Fits(O, t, slots), NEW x \in O, NEW pos \in DOMAIN t.defs[x],
         NEW t2, t2.up = t.up, t2.defs = [t.defs EXCEPT ![x] = RemoveAt(@, pos)],
         NEW now, now = Removed(t, slots, x, pos)
  PROVE  /\ Shaped(O, t2)
         /\ now \in [Nums -> Seq(SlotRecords)]
         /\ \A y \in Nums : Len(now[y]) = dbpriv_count_properties(t2, y)
         /\ \A y \in Nums : Above(t2, y) = Above(t, y)
         /\ RemovedCells(t, t2, slots, now, x, pos)
<1>1. Shaped(O, t) /\ slots \in [Nums -> Seq(SlotRecords)] /\ x \in Nums
  BY DEF Fits, Shaped
<1>2. PICK d, d2 : d = t.defs[x] /\ d2 = t2.defs[x]
  OBVIOUS
<1>3. t.defs \in [Nums -> Seq(Names)] /\ d \in Seq(Names) /\ pos \in DOMAIN d /\ DOMAIN d = 1..Len(d)
  BY <1>1, <1>2 DEF Shaped
<1>4. d2 = RemoveAt(d, pos)
  BY <1>1, <1>2, <1>3
<1>5. /\ d2 \in Seq(Names)
      /\ Len(d2) = Len(d) - 1
      /\ Len(d) \in Nat /\ Len(d) >= 1
      /\ \A k \in DOMAIN d2 : k < pos => d2[k] = d[k] /\ k \in DOMAIN d
      /\ \A k \in DOMAIN d2 : k >= pos => d2[k] = d[k + 1] /\ k + 1 \in DOMAIN d
  <2>1. d \in Seq(Names) /\ pos \in DOMAIN d
    BY <1>3
  <2> QED
    BY <2>1, <1>4, RemoveIs
<1>6. /\ t2.defs \in [Nums -> Seq(Names)]
      /\ \A y \in Nums : y # x => t2.defs[y] = t.defs[y]
  BY <1>1, <1>2, <1>3, <1>5
<1>7. Shaped(O, t2)
  BY <1>1, <1>6 DEF Shaped
<1>8. PICK n : n = Len(d) /\ n \in Nat /\ n >= 1 /\ Len(d2) = n - 1
  BY <1>5
<1>9. ASSUME NEW y \in Nums
      PROVE  MovedBy(t, t2, x, y, -1)
  <2>1. -1 = Len(t2.defs[x]) - Len(t.defs[x])
    BY <1>2, <1>8
  <2> QED
    BY <2>1, <1>1, <1>6, <1>7, DefsMoved
<1>10. ASSUME NEW z \in Nums, NEW i \in DOMAIN t2.defs[z]
       PROVE  /\ i \in Nat /\ i >= 1
              /\ WasAt(x, pos, z, i) \in DOMAIN t.defs[z]
              /\ t.defs[z][WasAt(x, pos, z, i)] = t2.defs[z][i]
  <2>1. i \in Nat /\ i >= 1 /\ pos \in Nat
    BY <1>3, <1>6
  <2>2. CASE z # x
    BY <2>1, <2>2, <1>6 DEF WasAt
  <2>3. CASE z = x /\ i < pos
    BY <2>1, <2>3, <1>2, <1>5 DEF WasAt
  <2>4. CASE z = x /\ i >= pos
    BY <2>1, <2>4, <1>2, <1>5 DEF WasAt
  <2> QED
    BY <2>1, <2>2, <2>3, <2>4
<1>11. ASSUME NEW y \in Nums
       PROVE  /\ now[y] \in Seq(SlotRecords)
              /\ Len(now[y]) = dbpriv_count_properties(t2, y)
              /\ \A z \in Above(t, y) : \A i \in DOMAIN t2.defs[z] :
                   now[y][Place(t2, y, z, i)] = slots[y][Place(t, y, z, WasAt(x, pos, z, i))]
  <2>1. /\ slots[y] \in Seq(SlotRecords) /\ Len(slots[y]) \in Nat
        /\ Len(slots[y]) = dbpriv_count_properties(t, y)
        /\ DOMAIN slots[y] = 1..Len(slots[y])
    BY <1>1 DEF Fits
  <2>2. CASE x \notin Above(t, y)
    <3>1. now[y] = slots[y]
      BY <2>2 DEF Removed
    <3>2. ASSUME NEW z \in Above(t, y), NEW i \in DOMAIN t2.defs[z]
          PROVE  now[y][Place(t2, y, z, i)] = slots[y][Place(t, y, z, WasAt(x, pos, z, i))]
      <4>1. Before(t2, y, z) = Before(t, y, z)
        BY <2>2, <1>9 DEF MovedBy
      <4>2. WasAt(x, pos, z, i) = i
        BY <2>2 DEF WasAt
      <4> QED
        BY <4>1, <4>2, <3>1 DEF Place
    <3> QED
      BY <2>1, <2>2, <3>1, <3>2, <1>9 DEF MovedBy
  <2>3. CASE x \in Above(t, y)
    <3>1. PICK b, c : b = Before(t, y, x) /\ c = dbpriv_count_properties(t, y)
      OBVIOUS
    <3>2. b \in Nat /\ c \in Nat /\ b + n <= c /\ Len(slots[y]) = c
      BY <3>1, <2>1, <2>3, <1>1, <1>2, <1>8, BeforeBounds
    <3>3. PICK s, p : s = slots[y] /\ p = b + pos
      OBVIOUS
    <3>4. pos \in Nat /\ pos >= 1 /\ pos <= n
      BY <1>3, <1>8
    <3>5. p \in Nat /\ p >= 1 /\ p <= c
      <4>1. b \in Nat /\ c \in Nat /\ b + n <= c /\ p = b + pos
        BY <3>2, <3>3
      <4> QED
        BY <4>1, <3>4, <1>8
    <3>6. now[y] = RemoveAt(s, p)
      BY <3>1, <3>3, <2>3 DEF Removed
    <3>7. s \in Seq(SlotRecords) /\ p \in DOMAIN s /\ Len(s) = c /\ DOMAIN s = 1..c
      BY <3>2, <3>3, <3>5, <2>1
    <3>8. PICK r : r = now[y]
      OBVIOUS
    <3>9. /\ r \in Seq(SlotRecords)
          /\ Len(r) = c - 1
          /\ \A k \in DOMAIN r : k < p => r[k] = s[k]
          /\ \A k \in DOMAIN r : k >= p => r[k] = s[k + 1]
      BY <3>6, <3>7, <3>8, RemoveIs, SMTT(40)
    <3>10. DOMAIN r = 1..(c - 1)
      BY <3>9
    <3>11. ASSUME NEW z \in Above(t, y), NEW i \in DOMAIN t2.defs[z]
           PROVE  r[Place(t2, y, z, i)] = s[Place(t, y, z, WasAt(x, pos, z, i))]
      <4>1. z \in Nums
        BY <1>1, AboveUp
      <4>2. PICK j, k, bz, lz : /\ j = WasAt(x, pos, z, i) /\ k = Place(t, y, z, j)
                                /\ bz = Before(t, y, z) /\ lz = Len(t.defs[z])
        OBVIOUS
      <4>3. /\ j \in DOMAIN t.defs[z] /\ i \in Nat /\ i >= 1
        BY <4>1, <4>2, <1>10
      <4>4. /\ k \in Nat /\ k = bz + j /\ k \in DOMAIN s /\ bz \in Nat /\ j \in Nat
            /\ j >= 1 /\ j <= lz /\ lz \in Nat
        BY <4>2, <4>3, <3>3, PlaceFits
      <4>5. k >= 1 /\ k <= c
        BY <4>4, <3>7, <3>2
      <4>6. CASE z = x
        <5>1. Before(t2, y, z) = b /\ bz = b /\ lz = n
          <6>1. x \in Above(t, x)
            BY <1>1, AboveUp
          <6> QED
            BY <6>1, <4>2, <4>6, <3>1, <2>3, <1>2, <1>8, <1>9 DEF MovedBy
        <5>2. CASE i < pos
          <6>1. j = i
            BY <5>2, <4>2, <4>3, <3>4 DEF WasAt
          <6>2. Place(t2, y, z, i) = k
            BY <6>1, <5>1, <4>4 DEF Place
          <6>3. k < p /\ k \in DOMAIN r
            BY <6>1, <5>1, <5>2, <4>3, <4>4, <4>5, <3>2, <3>3, <3>4, <3>5, <3>10
          <6> QED
            BY <6>2, <6>3, <4>2, <3>9
        <5>3. CASE i >= pos
          <6>1. j = i + 1
            BY <5>3, <4>2, <4>6 DEF WasAt
          <6>2. PICK q : q = b + i
            OBVIOUS
          <6>3. q >= p /\ q \in 1..(c - 1) /\ q + 1 = k
            BY <6>1, <6>2, <5>1, <5>3, <4>3, <4>4, <4>5, <3>2, <3>3, <3>4, SMTT(40)
          <6>4. Place(t2, y, z, i) = q
            BY <6>2, <5>1 DEF Place
          <6> QED
            BY <6>3, <6>4, <4>2, <3>9, <3>10
        <5> QED
          BY <5>2, <5>3, <4>3, <3>4
      <4>7. CASE z # x /\ x \in Above(t, z)
        <5>1. Before(t2, y, z) = bz
          BY <4>2, <4>7, <1>9 DEF MovedBy
        <5>2. j = i
          BY <4>2, <4>7 DEF WasAt
        <5>3. b >= bz + lz
          BY <4>2, <4>7, <3>1, <1>1, BeforeBounds
        <5>4. k < p /\ k \in 1..(c - 1)
          BY <5>2, <5>3, <4>4, <4>5, <3>2, <3>3, <3>4, <3>5
        <5>5. Place(t2, y, z, i) = k
          BY <5>1, <5>2, <4>4 DEF Place
        <5> QED
          BY <5>4, <5>5, <4>2, <3>9, <3>10
      <4>8. CASE x \notin Above(t, z)
        <5>1. Before(t2, y, z) = bz + (-1)
          BY <4>2, <4>8, <2>3, <1>9 DEF MovedBy
        <5>2. z \in Above(t, x) /\ z # x
          BY <4>8, <2>3, <1>1, AboveOrder, AboveUp
        <5>3. j = i
          BY <5>2, <4>2 DEF WasAt
        <5>4. bz >= b + n
          BY <5>2, <4>2, <3>1, <2>3, <1>1, <1>2, <1>8, BeforeBounds
        <5>5. PICK q : q = (bz + (-1)) + i
          OBVIOUS
        <5>6. q >= p /\ q \in 1..(c - 1) /\ q + 1 = k
          <6>1. b \in Nat /\ c \in Nat /\ p = b + pos /\ bz >= b + n /\ i = j
            BY <5>3, <5>4, <3>2, <3>3
          <6>2. bz \in Nat /\ j \in Nat /\ j >= 1 /\ k = bz + j /\ k <= c /\ q = (bz + (-1)) + j
            BY <6>1, <5>5, <4>4, <4>5
          <6>3. q = k - 1 /\ q >= p /\ k - 1 <= c - 1 /\ q + 1 = k
            BY <6>1, <6>2, <3>4, <1>8
          <6> QED
            BY <6>1, <6>2, <6>3, <3>5
        <5>7. Place(t2, y, z, i) = q
          BY <5>1, <5>5 DEF Place
        <5> QED
          BY <5>6, <5>7, <4>2, <3>9, <3>10
      <4> QED
        BY <4>6, <4>7, <4>8
    <3>12. dbpriv_count_properties(t2, y) = c + (-1)
      BY <3>1, <2>3, <1>9 DEF MovedBy
    <3>13. Len(r) = dbpriv_count_properties(t2, y)
      BY <3>2, <3>9, <3>12
    <3> QED
      BY <3>3, <3>8, <3>9, <3>11, <3>13
  <2> QED
    BY <2>2, <2>3
<1>12. now \in [Nums -> Seq(SlotRecords)]
  BY <1>11 DEF Removed
<1>13. \A y \in Nums : Above(t2, y) = Above(t, y)
  BY <1>9 DEF MovedBy
<1> QED
  BY <1>7, <1>10, <1>11, <1>12, <1>13 DEF RemovedCells

\* The arrays fit the shape without the property.
LEMMA RemoveFits ==
  ASSUME NEW O, NEW t, NEW slots, Fits(O, t, slots), NEW x \in O, NEW pos \in DOMAIN t.defs[x],
         NEW t2, t2.up = t.up, t2.defs = [t.defs EXCEPT ![x] = RemoveAt(@, pos)],
         NEW now, now = Removed(t, slots, x, pos)
  PROVE  Fits(O, t2, now)
<1>1. /\ Shaped(O, t2)
      /\ now \in [Nums -> Seq(SlotRecords)]
      /\ \A y \in Nums : Len(now[y]) = dbpriv_count_properties(t2, y)
      /\ \A y \in Nums : Above(t2, y) = Above(t, y)
      /\ RemovedCells(t, t2, slots, now, x, pos)
  BY RemoveCells
<1>2. /\ Shaped(O, t) /\ Distinct(t) /\ OwnValues(t, slots) /\ x \in Nums
      /\ \A y \in Nums \ O : t.defs[y] = <<>>
      /\ pos \in Nat
  BY DEF Fits, Shaped
<1>3. Distinct(t2)
  <2>1. SUFFICES ASSUME NEW y \in Nums, NEW z \in Above(t2, y), NEW w \in Above(t2, y),
                        NEW i \in DOMAIN t2.defs[z], NEW j \in DOMAIN t2.defs[w],
                        t2.defs[z][i] = t2.defs[w][j]
                 PROVE  z = w /\ i = j
    BY DEF Distinct
  <2>2. z \in Above(t, y) /\ w \in Above(t, y) /\ z \in Nums /\ w \in Nums
    BY <1>1, <1>2, AboveUp
  <2>3. PICK i2, j2 : i2 = WasAt(x, pos, z, i) /\ j2 = WasAt(x, pos, w, j)
    OBVIOUS
  <2>4. /\ i2 \in DOMAIN t.defs[z] /\ t.defs[z][i2] = t2.defs[z][i] /\ i \in Nat
        /\ j2 \in DOMAIN t.defs[w] /\ t.defs[w][j2] = t2.defs[w][j] /\ j \in Nat
    BY <2>2, <2>3, <1>1 DEF RemovedCells
  <2>5. z = w /\ i2 = j2
    BY <2>1, <2>2, <2>4, <1>2 DEF Distinct
  <2> QED
    BY <2>3, <2>4, <2>5, <1>2 DEF WasAt
<1>4. OwnValues(t2, now)
  <2>1. SUFFICES ASSUME NEW z \in Nums, NEW i \in DOMAIN t2.defs[z]
                 PROVE  now[z][i].value # CLEAR
    BY DEF OwnValues
  <2>2. z \in Above(t, z) /\ Before(t2, z, z) = 0 /\ Before(t, z, z) = 0
    BY <1>1, <1>2, AboveUp, BeforeUp
  <2>3. PICK j : j = WasAt(x, pos, z, i)
    OBVIOUS
  <2>4. i \in Nat /\ j \in Nat /\ j \in DOMAIN t.defs[z]
    <3>1. i \in Nat /\ j \in DOMAIN t.defs[z]
      BY <2>3, <1>1 DEF RemovedCells
    <3> QED
      BY <3>1, <1>2 DEF Shaped
  <2>5. Place(t2, z, z, i) = i /\ Place(t, z, z, j) = j
    BY <2>2, <2>4 DEF Place
  <2>6. now[z][Place(t2, z, z, i)] = slots[z][Place(t, z, z, j)]
    BY <2>2, <2>3, <1>1 DEF RemovedCells
  <2> QED
    BY <2>4, <2>5, <2>6, <1>2 DEF OwnValues
<1>5. \A y \in Nums \ O : t2.defs[y] = <<>>
  BY <1>2 DEF Fits
<1> QED
  BY <1>1, <1>3, <1>4, <1>5 DEF Fits

\* All names but that one are left.
LEMMA NamesLeft ==
  ASSUME NEW d \in Seq(Names), NEW pos \in DOMAIN d,
         \A i, j \in DOMAIN d : d[i] = d[j] => i = j
  PROVE  ToSet(RemoveAt(d, pos)) = ToSet(d) \ {d[pos]}
<1>1. PICK r : r = RemoveAt(d, pos)
  OBVIOUS
<1>2. /\ Len(r) = Len(d) - 1 /\ r \in Seq(Names)
      /\ Len(d) \in Nat /\ Len(d) >= 1
      /\ \A k \in DOMAIN r : k < pos => r[k] = d[k] /\ k \in DOMAIN d
      /\ \A k \in DOMAIN r : k >= pos => r[k] = d[k + 1] /\ k + 1 \in DOMAIN d
  BY <1>1, RemoveIs, SMTT(40)
<1>3. DOMAIN r = 1..(Len(d) - 1) /\ DOMAIN d = 1..Len(d)
  BY <1>2
<1>4. ASSUME NEW k \in DOMAIN r PROVE r[k] \in ToSet(d) \ {d[pos]}
  <2>1. k \in Nat /\ pos \in Nat
    BY <1>3
  <2>2. CASE k < pos
    <3>1. r[k] = d[k] /\ k \in DOMAIN d /\ k # pos
      BY <2>1, <2>2, <1>2
    <3> QED
      BY <3>1 DEF ToSet
  <2>3. CASE k >= pos
    <3>1. r[k] = d[k + 1] /\ k + 1 \in DOMAIN d /\ k + 1 # pos
      BY <2>1, <2>3, <1>2
    <3> QED
      BY <3>1 DEF ToSet
  <2> QED
    BY <2>1, <2>2, <2>3
<1>5. ASSUME NEW k \in DOMAIN d, d[k] # d[pos] PROVE \E i \in DOMAIN r : r[i] = d[k]
  <2>1. PICK n : n = Len(d) /\ n \in Nat
    BY <1>2
  <2>2. k \in 1..n /\ pos \in 1..n /\ k # pos /\ DOMAIN r = 1..(n - 1)
    BY <2>1, <1>3, <1>5
  <2>3. CASE k < pos
    <3>1. k \in DOMAIN r
      BY <2>1, <2>2, <2>3
    <3> QED
      BY <3>1, <2>3, <1>2
  <2>4. CASE k > pos
    <3>1. k - 1 \in DOMAIN r /\ k - 1 >= pos /\ (k - 1) + 1 = k
      BY <2>1, <2>2, <2>4
    <3> QED
      BY <3>1, <1>2
  <2> QED
    BY <2>1, <2>2, <2>3, <2>4
<1> QED
  BY <1>1, <1>4, <1>5 DEF ToSet

\* bf_delete_property(): Undefine of the table
LEMMA DeleteUndefines ==
  ASSUME Hierarchy, PropInv, NamedAnew, NEW x, NEW name, DeleteProperty(x, name)
  PROVE  PropInv' /\ (Hierarchy' => Table!Undefine)
<1>1. PICK pos : pos = IndexOfName(propdefs[x], name)
  OBVIOUS
<1>2. /\ x \in objects
      /\ name \in ToSet(propdefs[x])
      /\ propdefs' = [propdefs EXCEPT ![x] = RemoveAt(@, pos)]
      /\ propval' = remove_prop_recursively(x, pos)
      /\ UNCHANGED <<objects, family, owner>>
  BY <1>1 DEF DeleteProperty, SlotsBecome, IndexOfName
<1>3. /\ objects \in SUBSET Nums /\ GoodTree(objects, family) /\ x \in Nums
      /\ Fits(objects, Here, propval) /\ Shaped(objects, Here) /\ Distinct(Here)
      /\ owner \in [Nums -> Nums \cup {NOTHING}]
  BY <1>2 DEF Hierarchy, PropInv, Fits
<1>4. PICK t, t2 : t = Here /\ t2 = Here'
  OBVIOUS
<1>5. /\ t.up = family.up /\ t.defs = propdefs /\ t2.up = t.up
      /\ t2.defs = [t.defs EXCEPT ![x] = RemoveAt(@, pos)]
  BY <1>2, <1>4 DEF Here, Shape
<1>6. pos \in DOMAIN t.defs[x] /\ t.defs[x][pos] = name
  <2>1. propdefs[x] \in Seq(Names)
    BY <1>3, <1>4, <1>5 DEF Shaped
  <2> QED
    BY <2>1, <1>1, <1>2, <1>5, NameIndex
<1>7. \A y \in Nums : y \in objects /\ IsAtOrBelow(family, y, x) <=> x \in Above(t, y)
  <2>1. \A y \in Nums : IsAtOrBelow(family, y, x) <=> x \in Above(t, y)
    BY <1>3, <1>5, LineIsAbove, SameLines DEF IsAtOrBelow
  <2>2. ASSUME NEW y \in Nums \ objects PROVE x \notin Above(t, y)
    <3>1. t.up[y] = NOTHING /\ Shaped(objects, t)
      BY <1>3, <1>4, ShapedUp
    <3> QED
      BY <3>1, <1>2, AboveUp
  <2> QED
    BY <2>1, <2>2
<1>8. propval' = Removed(t, propval, x, pos)
  BY <1>2, <1>4, <1>7 DEF remove_prop_recursively, Removed
<1>9. Fits(objects, t2, propval') /\ RemovedCells(t, t2, propval, propval', x, pos)
      /\ \A y \in Nums : Above(t2, y) = Above(t, y)
  <2>1. Fits(objects, t, propval)
    BY <1>3, <1>4
  <2>2. t2.up = t.up /\ t2.defs = [t.defs EXCEPT ![x] = RemoveAt(@, pos)]
    BY <1>5
  <2>3. x \in objects /\ pos \in DOMAIN t.defs[x]
    BY <1>2, <1>6
  <2> QED
    BY <2>1, <2>2, <2>3, <1>8, RemoveFits, RemoveCells
<1>10. PropInv' /\ named'.slots = NamedSlots(t2, objects', propval')
  BY <1>2, <1>3, <1>4, <1>9, PropInvThen
<1>11. ASSUME Hierarchy' PROVE Table!Undefine
  <2>1. TableFacts /\ TableFacts'
    BY <1>10, <1>11, TableIs, TableIsThen
  <2>2. PICK S, S2 : S = named.slots /\ S2 = named'.slots
    OBVIOUS
  <2>3. /\ \A y \in objects : \A n : n \in DOMAIN S2[y] <=> HasIt(t2, y, n)
        /\ \A y \in objects : \A n, z, i : Has(t2, y, n, z, i) => S2[y][n] = propval'[y][Place(t2, y, z, i)]
    BY <2>1, <2>2, <1>2, <1>4 DEF TableFacts
  <2>4. \A y \in objects : \A n, z, i : Has(t, y, n, z, i) => S[y][n] = propval[y][Place(t, y, z, i)]
    BY <2>1, <2>2, <1>4 DEF TableFacts
  <2>5. ASSUME NEW y \in objects, NEW n \in DOMAIN S2[y] PROVE S2[y][n] = S[y][n]
    <3>1. PICK z \in Nums : \E i \in DOMAIN t2.defs[z] : Has(t2, y, n, z, i)
      BY <2>3 DEF HasIt
    <3>2. PICK i \in DOMAIN t2.defs[z] : Has(t2, y, n, z, i)
      BY <3>1
    <3>3. PICK j : j = WasAt(x, pos, z, i)
      OBVIOUS
    <3>4. y \in Nums /\ z \in Above(t, y)
      BY <3>2, <1>3, <1>9 DEF Has
    <3>5. /\ j \in DOMAIN t.defs[z] /\ t.defs[z][j] = t2.defs[z][i]
          /\ propval'[y][Place(t2, y, z, i)] = propval[y][Place(t, y, z, j)]
      BY <3>3, <3>4, <1>9 DEF RemovedCells
    <3>6. Has(t, y, n, z, j)
      BY <3>2, <3>4, <3>5 DEF Has
    <3> QED
      BY <3>2, <3>5, <3>6, <2>3, <2>4
  <2>6. [y \in Nums |-> ToSet(propdefs'[y])] =
          [[y \in Nums |-> ToSet(propdefs[y])] EXCEPT ![x] = @ \ {name}]
    <3>1. propdefs \in [Nums -> Seq(Names)] /\ propdefs[x] \in Seq(Names)
      BY <1>3, <1>4, <1>5 DEF Shaped
    <3>2. \A y \in Nums : y # x => propdefs'[y] = propdefs[y]
      BY <3>1, <1>2
    <3>3. propdefs'[x] = RemoveAt(propdefs[x], pos)
      BY <3>1, <1>2, <1>3
    <3>4. \A i, j \in DOMAIN propdefs[x] : propdefs[x][i] = propdefs[x][j] => i = j
      <4>1. x \in Above(Here, x) /\ Here.defs = propdefs
        BY <1>3, AboveUp, HereIs
      <4> QED
        BY <4>1, <1>3 DEF Distinct
    <3>5. ToSet(RemoveAt(propdefs[x], pos)) = ToSet(propdefs[x]) \ {name}
      BY <3>1, <3>4, <1>5, <1>6, NamesLeft
    <3> QED
      BY <3>2, <3>3, <3>5, <1>3
  <2>7. name \in [y \in Nums |-> ToSet(propdefs[y])][x]
    BY <1>2, <1>3
  <2>8. UNCHANGED <<objects, owner>> /\ family'.up = family.up /\ x \in objects
    BY <1>2
  <2>9. \A y \in objects : \A n \in DOMAIN named'.slots[y] : named'.slots[y][n] = named.slots[y][n]
    BY <2>2, <2>5
  <2> QED
    BY <2>6, <2>7, <2>8, <2>9 DEF Table!Undefine
<1> QED
  BY <1>10, <1>11

-----------------------------------------------------------------------------
(* A property gets another name. *)

\* Another name for the pos-th that x defines
WithName(defs, x, pos, new) == [defs EXCEPT ![x] = [@ EXCEPT ![pos] = new]]

\* The arrays stay in place.
LEMMA RenameCells ==
  ASSUME NEW O, NEW t, NEW slots, Fits(O, t, slots), NEW x \in O, NEW pos \in DOMAIN t.defs[x],
         NEW new \in Names, \A y \in Nums : x \in Above(t, y) => ~HasIt(t, y, new),
         NEW t2, t2.up = t.up, t2.defs = WithName(t.defs, x, pos, new)
  PROVE  /\ Fits(O, t2, slots)
         /\ \A y \in Nums : Above(t2, y) = Above(t, y)
         /\ \A y \in Nums : \A z \in Above(t, y) : Before(t2, y, z) = Before(t, y, z)
         /\ \A z \in Nums : DOMAIN t2.defs[z] = DOMAIN t.defs[z]
         /\ \A z \in Nums : \A i \in DOMAIN t.defs[z] :
              t2.defs[z][i] = IF z = x /\ i = pos THEN new ELSE t.defs[z][i]
<1>1. /\ Shaped(O, t) /\ Distinct(t) /\ OwnValues(t, slots) /\ x \in Nums
      /\ \A y \in Nums \ O : t.defs[y] = <<>>
  BY DEF Fits, Shaped
<1>2. PICK d, d2 : d = t.defs[x] /\ d2 = t2.defs[x]
  OBVIOUS
<1>3. t.defs \in [Nums -> Seq(Names)] /\ d \in Seq(Names) /\ pos \in DOMAIN d
  BY <1>1, <1>2 DEF Shaped
<1>4. d2 = [d EXCEPT ![pos] = new]
  BY <1>1, <1>2, <1>3 DEF WithName
<1>5. d2 \in Seq(Names) /\ Len(d2) = Len(d) /\ DOMAIN d2 = DOMAIN d
  BY <1>3, <1>4
<1>6. /\ t2.defs \in [Nums -> Seq(Names)]
      /\ \A y \in Nums : y # x => t2.defs[y] = t.defs[y]
  BY <1>1, <1>2, <1>3, <1>5 DEF WithName
<1>7. Shaped(O, t2)
  BY <1>1, <1>6 DEF Shaped
<1>8. ASSUME NEW y \in Nums PROVE MovedBy(t, t2, x, y, 0)
  <2>1. PICK n : n = Len(t.defs[x]) /\ n = Len(t2.defs[x]) /\ n \in Nat
    BY <1>2, <1>3, <1>5
  <2>2. 0 = Len(t2.defs[x]) - Len(t.defs[x])
    BY <2>1
  <2> QED
    BY <2>2, <1>1, <1>6, <1>7, DefsMoved
<1>9. ASSUME NEW y \in Nums
      PROVE  /\ Above(t2, y) = Above(t, y)
             /\ \A z \in Above(t, y) : Before(t2, y, z) = Before(t, y, z)
             /\ dbpriv_count_properties(t2, y) = dbpriv_count_properties(t, y)
  <2>1. /\ Above(t2, y) = Above(t, y)
        /\ dbpriv_count_properties(t, y) \in Nat
        /\ \A z \in Above(t, y) : Before(t, y, z) \in Nat
    BY <1>1, <1>8, CountUp, BeforeUp DEF MovedBy
  <2>2. dbpriv_count_properties(t2, y) = dbpriv_count_properties(t, y)
    BY <2>1, <1>8 DEF MovedBy
  <2>3. ASSUME NEW z \in Above(t, y) PROVE Before(t2, y, z) = Before(t, y, z)
    BY <2>1, <1>8 DEF MovedBy
  <2> QED
    BY <2>1, <2>2, <2>3
<1>10. /\ \A z \in Nums : DOMAIN t2.defs[z] = DOMAIN t.defs[z]
       /\ \A z \in Nums : \A i \in DOMAIN t.defs[z] :
            t2.defs[z][i] = IF z = x /\ i = pos THEN new ELSE t.defs[z][i]
  BY <1>2, <1>4, <1>5, <1>6, ZenonT(40)
<1>11. Distinct(t2)
  <2>1. SUFFICES ASSUME NEW y \in Nums, NEW z \in Above(t2, y), NEW w \in Above(t2, y),
                        NEW i \in DOMAIN t2.defs[z], NEW j \in DOMAIN t2.defs[w],
                        t2.defs[z][i] = t2.defs[w][j]
                 PROVE  z = w /\ i = j
    BY DEF Distinct
  <2>2. /\ z \in Above(t, y) /\ w \in Above(t, y) /\ z \in Nums /\ w \in Nums
        /\ i \in DOMAIN t.defs[z] /\ j \in DOMAIN t.defs[w]
    BY <1>1, <1>9, <1>10, AboveUp
  <2>3. ASSUME x \in Above(t, y), NEW v \in Above(t, y), v \in Nums, NEW k \in DOMAIN t.defs[v]
        PROVE  t.defs[v][k] # new
    BY <2>3 DEF HasIt, Has
  <2>4. CASE ~(z = x /\ i = pos) /\ ~(w = x /\ j = pos)
    BY <2>1, <2>2, <2>4, <1>1, <1>10 DEF Distinct
  <2>5. CASE z = x /\ i = pos
    BY <2>1, <2>2, <2>3, <2>5, <1>10
  <2>6. CASE w = x /\ j = pos
    BY <2>1, <2>2, <2>3, <2>6, <1>10
  <2> QED
    BY <2>4, <2>5, <2>6
<1>12. OwnValues(t2, slots)
  BY <1>1, <1>10 DEF OwnValues
<1>13. \A y \in Nums \ O : t2.defs[y] = <<>>
  BY <1>1, <1>6
<1>14. slots \in [Nums -> Seq(SlotRecords)] /\ \A y \in Nums : Len(slots[y]) = dbpriv_count_properties(t2, y)
  BY <1>9 DEF Fits
<1> QED
  BY <1>7, <1>9, <1>10, <1>11, <1>12, <1>13, <1>14 DEF Fits

\* bf_set_property_info() with another name: Rename of the table
LEMMA RenameRenames ==
  ASSUME Hierarchy, PropInv, NamedAnew, NEW x, NEW old, NEW new \in Names, NEW who,
         NEW chown \in BOOLEAN, RenameProperty(x, old, new, who, chown)
  PROVE  PropInv' /\ (Hierarchy' => Table!Rename)
<1>1. PICK pos \in DOMAIN propdefs[x] :
        /\ propdefs[x][pos] = old
        /\ propdefs' = [propdefs EXCEPT ![x][pos] = new]
        /\ propval' = [propval EXCEPT ![x][pos] = Slot(@.value, who, chown)]
  BY DEF RenameProperty, SlotsBecome
<1>2. /\ x \in objects /\ who \in objects /\ old # new
      /\ db_find_property(Here, x, new) = NoSlot
      /\ ~property_defined_at_or_below(new, x)
      /\ UNCHANGED <<objects, family, owner>>
  BY <1>1 DEF RenameProperty, SlotsBecome, MayRename
<1>3. /\ objects \in SUBSET Nums /\ GoodTree(objects, family) /\ x \in Nums /\ who \in Nums
      /\ Fits(objects, Here, propval) /\ Shaped(objects, Here) /\ Distinct(Here)
      /\ OwnValues(Here, propval)
      /\ owner \in [Nums -> Nums \cup {NOTHING}]
  BY <1>2 DEF Hierarchy, PropInv, Fits
<1>4. PICK t, t2 : t = Here /\ t2 = Here'
  OBVIOUS
<1>5. /\ t.up = family.up /\ t.defs = propdefs /\ t2.up = t.up /\ t2.defs = propdefs'
      /\ t2.defs = WithName(t.defs, x, pos, new)
  BY <1>1, <1>2, <1>4 DEF Here, Shape, WithName
<1>6. /\ Fits(objects, t, propval) /\ Shaped(objects, t) /\ Distinct(t) /\ OwnValues(t, propval)
      /\ pos \in DOMAIN t.defs[x] /\ t.defs[x][pos] = old /\ x \in Above(t, x) /\ pos \in Nat
  <2>1. Shaped(objects, t) /\ pos \in DOMAIN t.defs[x] /\ t.defs[x][pos] = old
    BY <1>1, <1>3, <1>4, <1>5
  <2>2. x \in Above(t, x) /\ pos \in Nat
    BY <2>1, <1>3, AboveUp, SMTT(40) DEF Shaped
  <2> QED
    BY <2>1, <2>2, <1>3, <1>4
<1>7. Has(t, x, old, x, pos) /\ Place(t, x, x, pos) = pos
  <2>1. Before(t, x, x) = 0
    BY <1>3, <1>6, BeforeUp
  <2> QED
    BY <2>1, <1>6 DEF Has, Place
<1>8. propval[x][pos] \in SlotRecords /\ propval[x][pos].value # CLEAR
  <2>1. propval[x][Place(t, x, x, pos)] \in SlotRecords
    BY <1>3, <1>6, PlaceFits
  <2> QED
    BY <2>1, <1>3, <1>6, <1>7 DEF OwnValues
<1>9. PICK slot : slot = Slot(propval[x][pos].value, who, chown)
  OBVIOUS
<1>10. slot \in SlotRecords /\ slot.value = propval[x][pos].value
  BY <1>3, <1>8, <1>9 DEF SlotRecords, Slot
<1>11. propval' = Written(propval, x, pos, slot)
  BY <1>1, <1>9 DEF Written
<1>12. ASSUME NEW y \in Nums, x \in Above(t, y), HasIt(t, y, new) PROVE FALSE
  <2>1. PICK z \in Nums : \E i \in DOMAIN t.defs[z] : Has(t, y, new, z, i)
    BY <1>12 DEF HasIt
  <2>2. PICK i \in DOMAIN t.defs[z] : z \in Above(t, y) /\ t.defs[z][i] = new
    BY <2>1 DEF Has
  <2>3. CASE x \in Above(t, z)
    <3>1. z \in objects
      BY <2>2, <1>3, <1>4 DEF Fits
    <3>2. IsAtOrBelow(family, z, x)
      BY <2>3, <1>3, <1>5, LineIsAbove, SameLines DEF IsAtOrBelow
    <3>3. new \in ToSet(propdefs[z])
      BY <2>2, <1>5 DEF ToSet
    <3> QED
      BY <3>1, <3>2, <3>3, <1>2 DEF property_defined_at_or_below
  <2>4. CASE z \in Above(t, x)
    <3>1. HasIt(t, x, new)
      BY <2>2, <2>4 DEF HasIt, Has
    <3> QED
      BY <3>1, <1>2, <1>3, <1>4, NotFoundHasNot
  <2> QED
    BY <2>2, <2>3, <2>4, <1>6, <1>12, AboveOrder
<1>13. Fits(objects, t, propval')
  <2>1. slot.value # CLEAR
    BY <1>8, <1>10
  <2> QED
    BY <2>1, <1>2, <1>6, <1>7, <1>10, <1>11, WriteFits
<1>14. /\ Fits(objects, t2, propval')
       /\ \A y \in Nums : Above(t2, y) = Above(t, y)
       /\ \A y \in Nums : \A z \in Above(t, y) : Before(t2, y, z) = Before(t, y, z)
       /\ \A z \in Nums : DOMAIN t2.defs[z] = DOMAIN t.defs[z]
       /\ \A z \in Nums : \A i \in DOMAIN t.defs[z] :
            t2.defs[z][i] = IF z = x /\ i = pos THEN new ELSE t.defs[z][i]
  <2>1. \A y \in Nums : x \in Above(t, y) => ~HasIt(t, y, new)
    BY <1>12
  <2>2. t2.up = t.up /\ t2.defs = WithName(t.defs, x, pos, new)
    BY <1>5
  <2>3. x \in objects /\ pos \in DOMAIN t.defs[x]
    BY <1>2, <1>6
  <2> QED
    BY <2>1, <2>2, <2>3, <1>13, RenameCells
<1>15. PropInv' /\ named'.slots = NamedSlots(t2, objects', propval')
  BY <1>2, <1>3, <1>4, <1>14, PropInvThen
<1>16. ASSUME Hierarchy' PROVE Table!Rename
  <2>1. TableFacts /\ TableFacts'
    BY <1>15, <1>16, TableIs, TableIsThen
  <2>2. PICK S, S2 : S = named.slots /\ S2 = named'.slots
    OBVIOUS
  <2>3. /\ \A y \in objects : \A n : n \in DOMAIN S2[y] <=> HasIt(t2, y, n)
        /\ \A y \in objects : \A n, z, i : Has(t2, y, n, z, i) => S2[y][n] = propval'[y][Place(t2, y, z, i)]
    BY <2>1, <2>2, <1>2, <1>4 DEF TableFacts
  <2>4. \A y \in objects : \A n, z, i : Has(t, y, n, z, i) => S[y][n] = propval[y][Place(t, y, z, i)]
    BY <2>1, <2>2, <1>4 DEF TableFacts
  <2>5. \A y \in objects : Table!Ancestors[y] = Above(t, y) /\ y \in Nums
    BY <2>1, <1>3, <1>4 DEF TableFacts
  <2>6. ASSUME NEW y \in objects, NEW n \in DOMAIN S2[y]
        PROVE  IF n # new \/ x \notin Above(t, y) THEN S2[y][n] = S[y][n]
               ELSE IF y # x THEN S2[y][n] = S[y][old]
               ELSE S2[y][n].value = S[y][old].value
    <3>1. PICK z \in Nums : \E i \in DOMAIN t2.defs[z] : Has(t2, y, n, z, i)
      BY <2>3, <2>6 DEF HasIt
    <3>2. PICK i \in DOMAIN t2.defs[z] : Has(t2, y, n, z, i)
      BY <3>1
    <3>3. /\ y \in Nums /\ z \in Above(t, y) /\ i \in DOMAIN t.defs[z]
          /\ t2.defs[z][i] = n
      BY <3>2, <2>5, <1>14 DEF Has
    <3>4. PICK k : k = Place(t, y, z, i)
      OBVIOUS
    <3>5. S2[y][n] = propval'[y][k]
      <4>1. Place(t2, y, z, i) = k
        BY <3>3, <3>4, <1>14 DEF Place
      <4> QED
        BY <4>1, <3>2, <2>3
    <3>6. CASE z = x /\ i = pos
      <4>1. n = new
        BY <3>3, <3>6, <1>14
      <4>2. Has(t, y, old, x, pos)
        BY <3>3, <3>6, <1>6 DEF Has
      <4>3. S[y][old] = propval[y][k]
        BY <4>2, <3>4, <3>6, <2>4
      <4>4. CASE y # x
        <5>1. propval'[y] = propval[y]
          BY <4>4, <3>3, <1>11, <1>3 DEF Written, Fits
        <5> QED
          BY <5>1, <4>1, <4>3, <4>4, <3>3, <3>5, <3>6
      <4>5. CASE y = x
        <5>1. k = pos
          BY <4>5, <3>4, <3>6, <1>7
        <5>2. propval'[x][pos] = slot
          <6>1. propval \in [Nums -> Seq(SlotRecords)] /\ propval[x] \in Seq(SlotRecords)
            BY <1>3 DEF Fits
          <6>2. pos \in DOMAIN propval[x]
            BY <1>3, <1>6, <1>7, PlaceFits
          <6> QED
            BY <6>1, <6>2, <1>3, <1>11 DEF Written
        <5>3. S2[y][n].value = S[y][old].value
          BY <5>1, <5>2, <4>3, <4>5, <3>5, <1>10
        <5> QED
          BY <5>3, <4>1, <4>5, <3>3, <3>6
      <4> QED
        BY <4>4, <4>5
    <3>7. CASE ~(z = x /\ i = pos)
      <4>1. t.defs[z][i] = n
        BY <3>3, <3>7, <1>14
      <4>2. Has(t, y, n, z, i)
        BY <4>1, <3>3 DEF Has
      <4>3. n # new \/ x \notin Above(t, y)
        BY <4>2, <3>3, <1>12 DEF HasIt
      <4>4. S[y][n] = propval[y][k]
        BY <4>2, <3>4, <2>4
      <4>5. propval'[y][k] = propval[y][k]
        <5>1. CASE y # x
          BY <5>1, <3>3, <1>11, <1>3 DEF Written, Fits
        <5>2. CASE y = x
          <6>1. k # pos
            BY <5>2, <3>3, <3>4, <3>7, <1>3, <1>6, <1>7, PlacesDiffer
          <6>2. k \in DOMAIN propval[x]
            BY <5>2, <3>3, <3>4, <1>3, <1>6, PlaceFits
          <6>3. propval \in [Nums -> Seq(SlotRecords)] /\ propval[x] \in Seq(SlotRecords)
            BY <1>3 DEF Fits
          <6> QED
            BY <6>1, <6>2, <6>3, <5>2, <1>3, <1>11 DEF Written
        <5> QED
          BY <5>1, <5>2
      <4> QED
        BY <4>3, <4>4, <4>5, <3>5
    <3> QED
      BY <3>6, <3>7
  <2>7. new \notin ToSet(propdefs[x]) /\ old \in ToSet(propdefs[x]) /\ new \in ToSet(propdefs'[x])
    <3>1. \A i \in DOMAIN t.defs[x] : t.defs[x][i] # new
      BY <1>3, <1>6, <1>12 DEF HasIt, Has
    <3>2. t2.defs[x][pos] = new /\ pos \in DOMAIN t2.defs[x]
      BY <1>3, <1>6, <1>14
    <3> QED
      BY <3>1, <3>2, <1>5, <1>6 DEF ToSet
  <2>8. ToSet(propdefs'[x]) = (ToSet(propdefs[x]) \ {old}) \cup {new}
    <3>1. DOMAIN propdefs'[x] = DOMAIN propdefs[x]
      BY <1>3, <1>5, <1>14
    <3>2. \A i \in DOMAIN propdefs[x] : propdefs'[x][i] = IF i = pos THEN new ELSE propdefs[x][i]
      BY <1>3, <1>5, <1>14
    <3>3. \A i \in DOMAIN propdefs[x] : propdefs[x][i] = old => i = pos
      BY <1>3, <1>5, <1>6 DEF Distinct
    <3> QED
      BY <3>1, <3>2, <3>3, <1>1 DEF ToSet
  <2>9. [y \in Nums |-> ToSet(propdefs'[y])] =
          [[y \in Nums |-> ToSet(propdefs[y])] EXCEPT ![x] = (@ \ {old}) \cup {new}]
    <3>1. \A y \in Nums : y # x => propdefs'[y] = propdefs[y]
      BY <1>1, <1>3, <1>5, <1>6 DEF Shaped
    <3> QED
      BY <3>1, <2>8, <1>3
  <2>10. /\ old \in [y \in Nums |-> ToSet(propdefs[y])][x]
         /\ new \in [y \in Nums |-> ToSet(propdefs'[y])][x] \ [y \in Nums |-> ToSet(propdefs[y])][x]
    BY <2>7, <1>3
  <2>11. UNCHANGED <<objects, owner>> /\ family'.up = family.up /\ x \in objects
    BY <1>2
  <2>12. \A y \in objects : \A n \in DOMAIN named'.slots[y] :
           IF n # new \/ x \notin Table!Ancestors[y] THEN named'.slots[y][n] = named.slots[y][n]
           ELSE IF y # x THEN named'.slots[y][n] = named.slots[y][old]
           ELSE named'.slots[y][n].value = named.slots[y][old].value
    BY <2>2, <2>5, <2>6
  <2>13. \E o \in [y \in Nums |-> ToSet(propdefs[y])][x],
             m \in [y \in Nums |-> ToSet(propdefs'[y])][x] \ [y \in Nums |-> ToSet(propdefs[y])][x] :
           /\ [y \in Nums |-> ToSet(propdefs'[y])] =
                [[y \in Nums |-> ToSet(propdefs[y])] EXCEPT ![x] = (@ \ {o}) \cup {m}]
           /\ \A y \in objects : \A n \in DOMAIN named'.slots[y] :
                IF n # m \/ x \notin Table!Ancestors[y] THEN named'.slots[y][n] = named.slots[y][n]
                ELSE IF y # x THEN named'.slots[y][n] = named.slots[y][o]
                ELSE named'.slots[y][n].value = named.slots[y][o].value
    BY <2>9, <2>10, <2>12, ZenonT(40)
  <2> QED
    BY <2>11, <2>13 DEF Table!Rename
<1> QED
  BY <1>15, <1>16

-----------------------------------------------------------------------------
(* Ways up in two shapes, before and after a change of parents *)

\* Where all links on the way up are the same, so are the places.
LEMMA SameWay ==
  ASSUME NEW O, NEW t, Shaped(O, t), NEW P, NEW u, Shaped(P, u), NEW a \in Nums,
         \A z \in Above(t, a) : u.up[z] = t.up[z] /\ u.defs[z] = t.defs[z]
  PROVE  /\ Above(u, a) = Above(t, a)
         /\ dbpriv_count_properties(u, a) = dbpriv_count_properties(t, a)
         /\ \A z \in Above(t, a) : Before(u, a, z) = Before(t, a, z)
<1> DEFINE Stays(w) == \A z \in Above(t, w) : u.up[z] = t.up[z] /\ u.defs[z] = t.defs[z]
           Same(w) == /\ \A z : z \in Above(u, w) <=> z \in Above(t, w)
                      /\ dbpriv_count_properties(u, w) = dbpriv_count_properties(t, w)
                      /\ \A z \in Above(t, w) : Before(u, w, z) = Before(t, w, z)
           S == {w \in Nums : Stays(w) => Same(w)}
<1>1. ASSUME NEW w \in Nums, t.up[w] \in S \cup {NOTHING} PROVE w \in S
  <2>1. SUFFICES ASSUME Stays(w) PROVE Same(w)
    BY <1>1
  <2>2. PICK p : p = t.up[w]
    OBVIOUS
  <2>3. /\ w \in Above(t, w)
        /\ \A z : z \in Above(t, w) <=> z = w \/ (p # NOTHING /\ z \in Above(t, p))
        /\ \A z : z \in Above(u, w) <=> z = w \/ (u.up[w] # NOTHING /\ z \in Above(u, u.up[w]))
    BY <2>2, AboveUp
  <2>4. u.up[w] = p /\ u.defs[w] = t.defs[w] /\ p \in Nums \cup {NOTHING} /\ NOTHING \notin Nums
    BY <2>1, <2>2, <2>3, ShapedUp
  <2>5. /\ dbpriv_count_properties(t, w) = Len(t.defs[w]) + dbpriv_count_properties(t, p)
        /\ dbpriv_count_properties(u, w) = Len(t.defs[w]) + dbpriv_count_properties(u, p)
        /\ dbpriv_count_properties(t, NOTHING) = 0 /\ dbpriv_count_properties(u, NOTHING) = 0
    BY <2>2, <2>4, CountUp
  <2>6. Before(t, w, w) = 0 /\ Before(u, w, w) = 0
    BY BeforeUp
  <2>7. CASE p = NOTHING
    BY <2>3, <2>4, <2>5, <2>6, <2>7
  <2>8. CASE p # NOTHING
    <3>1. p \in S /\ p \in Nums
      BY <2>2, <2>4, <2>8, <1>1
    <3>2. Stays(p)
      BY <2>1, <2>3, <2>8
    <3>3. /\ \A z : z \in Above(u, p) <=> z \in Above(t, p)
          /\ dbpriv_count_properties(u, p) = dbpriv_count_properties(t, p)
          /\ \A z \in Above(t, p) : Before(u, p, z) = Before(t, p, z)
      BY <3>1, <3>2
    <3>4. ASSUME NEW z \in Above(t, w), z # w PROVE Before(u, w, z) = Before(t, w, z)
      <4>1. z \in Above(t, p) /\ z \in Above(u, w)
        BY <3>3, <3>4, <2>3, <2>4, <2>8
      <4>2. Before(t, w, z) = Len(t.defs[w]) + Before(t, p, z)
        BY <3>4, <2>2, BeforeUp
      <4>3. Before(u, w, z) = Len(t.defs[w]) + Before(u, p, z)
        BY <4>1, <3>4, <2>4, BeforeUp
      <4> QED
        BY <4>1, <4>2, <4>3, <3>3
    <3> QED
      BY <3>3, <3>4, <2>3, <2>4, <2>5, <2>6
  <2> QED
    BY <2>7, <2>8
<1>2. Nums \subseteq S
  <2> HIDE DEF S
  <2> QED
    BY <1>1, ShapedInduction
<1>3. Same(a)
  BY <1>2
<1> QED
  BY <1>3

\* The links between y and c are the same.
Path(t, u, y, c) ==
  /\ c \in Above(t, y)
  /\ \A z \in Above(t, y) :
       c \in Above(t, z) => u.defs[z] = t.defs[z] /\ (z # c => u.up[z] = t.up[z])

\* When only c has another parent, the way up from y is the same as far as c.
LEMMA MovedWay ==
  ASSUME NEW O, NEW t, Shaped(O, t), NEW P, NEW u, Shaped(P, u), NEW y \in Nums, NEW c \in Nums,
         Path(t, u, y, c)
  PROVE  /\ c \in Above(u, y)
         /\ \A z : z \in Above(u, y) <=> (z \in Above(t, y) /\ c \in Above(t, z)) \/ z \in Above(u, c)
         /\ \A z \in Above(t, y) : c \in Above(t, z) => Before(u, y, z) = Before(t, y, z)
<1> DEFINE Carried(w) ==
             /\ c \in Above(u, w)
             /\ \A z : z \in Above(u, w) <=> (z \in Above(t, w) /\ c \in Above(t, z)) \/ z \in Above(u, c)
             /\ \A z \in Above(t, w) : c \in Above(t, z) => Before(u, w, z) = Before(t, w, z)
           S == {w \in Nums : Path(t, u, w, c) => Carried(w)}
<1>1. ASSUME NEW w \in Nums, t.up[w] \in S \cup {NOTHING} PROVE w \in S
  <2>1. SUFFICES ASSUME Path(t, u, w, c) PROVE Carried(w)
    BY <1>1
  <2>2. PICK p : p = t.up[w]
    OBVIOUS
  <2>3. /\ w \in Above(t, w)
        /\ \A z : z \in Above(t, w) <=> z = w \/ (p # NOTHING /\ z \in Above(t, p))
        /\ \A z : z \in Above(u, w) <=> z = w \/ (u.up[w] # NOTHING /\ z \in Above(u, u.up[w]))
        /\ c \in Above(u, c) /\ c \in Above(t, c)
    BY <2>2, AboveUp
  <2>4. c \in Above(t, w) /\ p \in Nums \cup {NOTHING} /\ NOTHING \notin Nums
    BY <2>1, <2>2, ShapedUp DEF Path
  <2>5. Before(t, w, w) = 0 /\ Before(u, w, w) = 0
    BY BeforeUp
  <2>6. CASE w = c
    <3>1. \A z \in Above(t, w) : c \in Above(t, z) => z = c
      BY <2>6, AboveOrder
    <3> QED
      BY <3>1, <2>3, <2>5, <2>6
  <2>7. CASE w # c
    <3>1. p \in Nums /\ c \in Above(t, p) /\ p \in S
      BY <2>2, <2>3, <2>4, <2>7, <1>1
    <3>2. u.up[w] = p /\ u.defs[w] = t.defs[w]
      BY <2>1, <2>2, <2>3, <2>4, <2>7 DEF Path
    <3>3. Path(t, u, p, c)
      BY <3>1, <2>1, <2>3, <2>4 DEF Path
    <3>4. Carried(p)
      BY <3>1, <3>3
    <3>5. \A z : z \in Above(u, w) <=> (z \in Above(t, w) /\ c \in Above(t, z)) \/ z \in Above(u, c)
      BY <3>1, <3>2, <3>4, <2>3, <2>4
    <3>6. ASSUME NEW z \in Above(t, w), c \in Above(t, z), z # w
          PROVE  Before(u, w, z) = Before(t, w, z)
      <4>1. z \in Above(t, p) /\ z \in Above(u, w)
        BY <3>5, <3>6, <2>3
      <4>2. Before(t, w, z) = Len(t.defs[w]) + Before(t, p, z)
        BY <3>6, <2>2, BeforeUp
      <4>3. Before(u, w, z) = Len(t.defs[w]) + Before(u, p, z)
        BY <4>1, <3>2, <3>6, BeforeUp
      <4> QED
        BY <4>1, <4>2, <4>3, <3>4, <3>6
    <3> QED
      BY <3>2, <3>4, <3>5, <3>6, <2>3, <2>4, <2>5
  <2> QED
    BY <2>6, <2>7
<1>2. Nums \subseteq S
  <2> HIDE DEF S
  <2> QED
    BY <1>1, ShapedInduction
<1>3. Carried(y)
  BY <1>2
<1> QED
  BY <1>3

-----------------------------------------------------------------------------
(* A change of parents: what the ways up have in common, and the three parts of an array *)

\* What the search meets first, all else that it would meet is above.
LEMMA FirstMet ==
  ASSUME NEW O, NEW t, Shaped(O, t), NEW T, NEW x \in Nums, Meets(t, T, x)
  PROVE  LET n == Line(t, x)[PlaceIn(T, Line(t, x))]
         IN /\ n \in T \cap Above(t, x)
            /\ \A z \in T \cap Above(t, x) : z \in Above(t, n)
<1> DEFINE First(w) == Line(t, w)[PlaceIn(T, Line(t, w))]
           Good(w) == /\ First(w) \in T \cap Above(t, w)
                      /\ \A z \in T \cap Above(t, w) : z \in Above(t, First(w))
           S == {w \in Nums : Meets(t, T, w) => Good(w)}
<1>1. ASSUME NEW w \in Nums, t.up[w] \in S \cup {NOTHING} PROVE w \in S
  <2>1. SUFFICES ASSUME Meets(t, T, w) PROVE Good(w)
    BY <1>1
  <2>2. /\ w \in Above(t, w)
        /\ \A z : z \in Above(t, w) <=> z = w \/ (t.up[w] # NOTHING /\ z \in Above(t, t.up[w]))
    BY AboveUp
  <2>3. CASE w \in T
    <3>1. First(w) = w
      BY <2>3, OffToUp
    <3> QED
      BY <3>1, <2>2, <2>3
  <2>4. CASE w \notin T
    <3>1. /\ t.up[w] \in Nums /\ Meets(t, T, t.up[w])
          /\ First(w) = First(t.up[w])
      BY <2>1, <2>4, OffToUp
    <3>2. t.up[w] # NOTHING /\ Good(t.up[w])
      BY <3>1, <1>1, NothingIsNoNumber
    <3> HIDE DEF First
    <3> QED
      BY <3>1, <3>2, <2>2, <2>4
  <2> QED
    BY <2>3, <2>4
<1>2. Nums \subseteq S
  <2> HIDE DEF S
  <2> QED
    BY <1>1, ShapedInduction
<1> QED
  BY <1>2

\* The objects on the way up, none from NOTHING
Way(t, x) == ToSet(Line(t, x))

\* The number of slots for what old and new have in common
\* (dbpriv_fix_properties_after_chparent)
Common(t, old, new) ==
  LET both == PlaceIn(Way(t, old), Line(t, new))
  IN IF both = 0 THEN 0 ELSE dbpriv_count_properties(t, Line(t, new)[both])

\* These are the last c of both: they come behind all others, in the same order.
Parted(t, old, new, a, b, c) ==
  /\ c = Common(t, old, new)
  /\ dbpriv_count_properties(t, old) = a + c
  /\ dbpriv_count_properties(t, new) = b + c
  /\ \A z \in Way(t, new) \ Way(t, old) : Before(t, new, z) + Len(t.defs[z]) <= b
  /\ \A z \in Way(t, new) \cap Way(t, old) : \E q \in Nat :
       /\ Before(t, new, z) = b + q
       /\ Before(t, old, z) = a + q
       /\ q + Len(t.defs[z]) <= c

\* What two ways up share is at their ends, as db_properties.c assumes when it looks for the
\* first common ancestor.
LEMMA CommonPart ==
  ASSUME NEW O, NEW t, Shaped(O, t), NEW old \in Nums \cup {NOTHING}, NEW new \in Nums \cup {NOTHING}
  PROVE  \E a, b, c \in Nat : Parted(t, old, new, a, b, c)
<1>1. /\ NOTHING \notin Nums /\ Line(t, NOTHING) = <<>> /\ Way(t, NOTHING) = {}
      /\ \A x \in Nums : Way(t, x) = Above(t, x)
      /\ dbpriv_count_properties(t, old) \in Nat /\ dbpriv_count_properties(t, new) \in Nat
  <2>1. ToSet(<<>>) = {}
    BY DEF ToSet
  <2> QED
    BY <2>1, ShapedUp, CountUp DEF Way
<1>2. PICK both : both = PlaceIn(Way(t, old), Line(t, new))
  OBVIOUS
<1>3. both # 0 <=> new \in Nums /\ Way(t, old) \cap Way(t, new) # {}
  <2>1. CASE new = NOTHING
    <3>1. both = 0
      BY <2>1, <1>1, <1>2 DEF PlaceIn
    <3> QED
      BY <3>1, <2>1, <1>1
  <2>2. CASE new \in Nums
    BY <2>2, <1>1, <1>2, PlaceAbove DEF Meets
  <2> QED
    BY <2>1, <2>2
<1>4. CASE both = 0
  <2>1. Common(t, old, new) = 0 /\ Way(t, old) \cap Way(t, new) = {}
    BY <1>1, <1>2, <1>3, <1>4 DEF Common
  <2>2. ASSUME NEW z \in Way(t, new)
        PROVE  Before(t, new, z) + Len(t.defs[z]) <= dbpriv_count_properties(t, new)
    <3>1. new \in Nums /\ z \in Above(t, new)
      BY <2>2, <1>1
    <3> QED
      BY <3>1, BeforeBounds
  <2>3. PICK a, b : a = dbpriv_count_properties(t, old) /\ b = dbpriv_count_properties(t, new)
    OBVIOUS
  <2>4. a \in Nat /\ b \in Nat /\ a = a + 0 /\ b = b + 0
    BY <2>3, <1>1
  <2> QED
    BY <2>1, <2>2, <2>3, <2>4 DEF Parted
<1>5. CASE both # 0
  <2>1. new \in Nums /\ old \in Nums
    BY <1>1, <1>3, <1>5
  <2>2. PICK n : n = Line(t, new)[both]
    OBVIOUS
  <2>3. PICK T : T = Way(t, old)
    OBVIOUS
  <2>4. T = Above(t, old) /\ Way(t, new) = Above(t, new)
    BY <2>1, <2>3, <1>1
  <2>5. Meets(t, T, new)
    BY <2>3, <1>1, <1>3, <1>5, <2>1 DEF Meets
  <2>6. n \in T \cap Above(t, new) /\ \A z \in T \cap Above(t, new) : z \in Above(t, n)
    BY <2>1, <2>2, <2>3, <2>5, <1>2, FirstMet
  <2>7. n \in Nums /\ n \in Above(t, new) /\ n \in Above(t, old)
    BY <2>1, <2>4, <2>6, AboveUp
  <2>8. PICK a, b, c : /\ a = Before(t, old, n) /\ b = Before(t, new, n)
                       /\ c = dbpriv_count_properties(t, n)
    OBVIOUS
  <2>9. a \in Nat /\ b \in Nat /\ c \in Nat
    BY <2>1, <2>7, <2>8, BeforeUp, CountUp
  <2>10. dbpriv_count_properties(t, old) = a + c /\ dbpriv_count_properties(t, new) = b + c
    BY <2>1, <2>7, <2>8, BeforeVia
  <2>11. c = Common(t, old, new)
    BY <1>2, <1>5, <2>2, <2>8 DEF Common
  <2>12. ASSUME NEW z \in Way(t, new) \ Way(t, old)
         PROVE  Before(t, new, z) + Len(t.defs[z]) <= b
    <3>1. z \in Above(t, new) /\ z \notin Above(t, old) /\ z \in Nums
      BY <2>1, <2>3, <2>4, <2>12, AboveUp
    <3>2. z \notin Above(t, n)
      BY <3>1, <2>1, <2>7, AboveOrder
    <3>3. n \in Above(t, z)
      BY <3>1, <3>2, <2>1, <2>7, AboveOrder
    <3>4. n # z
      BY <3>1, <2>7
    <3>5. /\ Before(t, new, n) >= Before(t, new, z) + Len(t.defs[z])
          /\ Before(t, new, z) \in Nat /\ Len(t.defs[z]) \in Nat
      BY <3>1, <3>3, <3>4, <2>1, BeforeBounds
    <3> QED
      BY <3>5, <2>8, <2>9
  <2>13. ASSUME NEW z \in Way(t, new) \cap Way(t, old)
         PROVE  \E q \in Nat : /\ Before(t, new, z) = b + q
                               /\ Before(t, old, z) = a + q
                               /\ q + Len(t.defs[z]) <= c
    <3>1. z \in Above(t, n)
      BY <2>3, <2>4, <2>6, <2>13
    <3>2. Before(t, n, z) \in Nat /\ Before(t, n, z) + Len(t.defs[z]) <= c
      BY <3>1, <2>7, <2>8, BeforeUp, BeforeBounds
    <3>3. Before(t, new, z) = b + Before(t, n, z) /\ Before(t, old, z) = a + Before(t, n, z)
      BY <3>1, <2>1, <2>7, <2>8, BeforeVia, SMTT(40)
    <3> QED
      BY <3>2, <3>3
  <2> QED
    BY <2>9, <2>10, <2>11, <2>12, <2>13, ZenonT(40) DEF Parted
<1> QED
  BY <1>4, <1>5

\* The first l and the last c are kept, and what is between them is replaced.
Replaced(X, s, m, l, a, b, c, r) ==
  /\ r \in Seq(X)
  /\ Len(r) = (l + b) + c
  /\ \A k \in 1..l : r[k] = s[k]
  /\ \A k \in 1..b : r[l + k] = m[k]
  /\ \A k \in 1..c : r[(l + b) + k] = s[(l + a) + k]

\* A beginning, a new middle and an old end are what dbpriv_fix_properties_after_chparent()
\* joins.
LEMMA ThreeParts ==
  ASSUME NEW X, NEW s \in Seq(X), NEW l \in Nat, NEW a \in Nat, NEW b \in Nat, NEW c \in Nat,
         Len(s) = (l + a) + c, NEW m \in [1..b -> X]
  PROVE  Replaced(X, s, m, l, a, b, c,
                  SubSeq(s, 1, l) \o m \o SubSeq(s, (l + a) + 1, (l + a) + c))
<1>15. PICK r : r = SubSeq(s, 1, l) \o m \o SubSeq(s, (l + a) + 1, (l + a) + c)
  OBVIOUS
<1>1. PICK p, q : p = SubSeq(s, 1, l) /\ q = SubSeq(s, (l + a) + 1, (l + a) + c)
  OBVIOUS
<1>2. p \in Seq(X) /\ Len(p) = l /\ \A k \in 1..l : p[k] = s[k]
  BY <1>1
<1>3. q \in Seq(X) /\ Len(q) = c /\ \A k \in 1..c : q[k] = s[(l + a) + k]
  BY <1>1
<1>4. m \in Seq(X) /\ Len(m) = b
  BY IsASeq, LenProperties
<1>5. PICK h : h = p \o m
  OBVIOUS
<1>6. /\ h \in Seq(X) /\ Len(h) = l + b
      /\ \A k \in 1..l : h[k] = p[k]
      /\ \A k \in 1..b : h[l + k] = m[k]
  <2>1. p \in Seq(X) /\ m \in Seq(X)
    BY <1>2, <1>4
  <2>2. /\ h \in Seq(X) /\ Len(h) = Len(p) + Len(m)
        /\ \A k \in 1..Len(p) : h[k] = p[k]
        /\ \A k \in 1..Len(m) : h[Len(p) + k] = m[k]
    BY <2>1, <1>5, ConcatProperties
  <2> QED
    BY <2>2, <1>2, <1>4
<1>7. PICK g : g = h \o q
  OBVIOUS
<1>8. /\ g \in Seq(X) /\ Len(g) = (l + b) + c
      /\ \A k \in 1..(l + b) : g[k] = h[k]
      /\ \A k \in 1..c : g[(l + b) + k] = q[k]
  <2>1. Len(h) = l + b /\ Len(q) = c
    BY <1>3, <1>6
  <2>2. h \in Seq(X) /\ q \in Seq(X)
    BY <1>3, <1>6
  <2>3. /\ g \in Seq(X) /\ Len(g) = Len(h) + Len(q)
        /\ \A k \in 1..Len(h) : g[k] = h[k]
        /\ \A k \in 1..Len(q) : g[Len(h) + k] = q[k]
    BY <2>2, <1>7, ConcatProperties
  <2> QED
    BY <2>1, <2>3
<1>9. \A k \in 1..l : k \in 1..(l + b)
  OBVIOUS
<1>10. \A k \in 1..b : l + k \in 1..(l + b)
  OBVIOUS
<1>11. r = g
  BY <1>1, <1>5, <1>7, <1>15
<1>12. \A k \in 1..l : g[k] = s[k]
  BY <1>2, <1>6, <1>8, <1>9
<1>13. \A k \in 1..b : g[l + k] = m[k]
  BY <1>6, <1>8, <1>10
<1>14. \A k \in 1..c : g[(l + b) + k] = s[(l + a) + k]
  BY <1>3, <1>8
<1> QED
  BY <1>8, <1>11, <1>12, <1>13, <1>14, <1>15 DEF Replaced

\* c, at or above y, has another parent; the ways up from both parents are the same.
Turned(t, u, y, c, old, new) ==
  /\ Path(t, u, y, c)
  /\ t.up[c] = old /\ u.up[c] = new
  /\ \A z \in Way(t, old) \cup Way(t, new) : u.up[z] = t.up[z] /\ u.defs[z] = t.defs[z]

\* Both ways are what they were.
LEMMA TurnedWays ==
  ASSUME NEW O, NEW t, Shaped(O, t), NEW P, NEW u, Shaped(P, u), NEW y \in Nums, NEW c \in Nums,
         NEW old \in Nums \cup {NOTHING}, NEW new \in Nums \cup {NOTHING}, Turned(t, u, y, c, old, new),
         NEW p \in {old, new}
  PROVE  /\ Way(u, p) = Way(t, p)
         /\ dbpriv_count_properties(u, p) = dbpriv_count_properties(t, p)
         /\ p = NOTHING => Way(t, p) = {} /\ dbpriv_count_properties(t, p) = 0
         /\ p # NOTHING => Way(t, p) = Above(t, p) /\ p \in Nums
         /\ \A z \in Way(t, p) : /\ Before(u, p, z) = Before(t, p, z)
                                 /\ u.defs[z] = t.defs[z]
                                 /\ z \in Nums
<1>1. CASE p = NOTHING
  <2>1. ToSet(<<>>) = {}
    BY DEF ToSet
  <2>2. Way(t, NOTHING) = {} /\ Way(u, NOTHING) = {} /\ NOTHING \notin Nums
    BY <2>1, ShapedUp DEF Way
  <2> QED
    BY <1>1, <2>2, CountUp
<1>2. CASE p # NOTHING
  <2>1. p \in Nums /\ Way(t, p) = Above(t, p) /\ Way(u, p) = Above(u, p)
    BY <1>2, ShapedUp DEF Way
  <2>2. \A z \in Above(t, p) : u.up[z] = t.up[z] /\ u.defs[z] = t.defs[z]
    BY <2>1 DEF Turned
  <2>3. /\ Above(u, p) = Above(t, p)
        /\ dbpriv_count_properties(u, p) = dbpriv_count_properties(t, p)
        /\ \A z \in Above(t, p) : Before(u, p, z) = Before(t, p, z)
    BY <2>1, <2>2, SameWay
  <2>4. Above(t, p) \subseteq Nums
    BY <2>1, AboveUp
  <2> QED
    BY <1>2, <2>1, <2>2, <2>3, <2>4
<1> QED
  BY <1>1, <1>2

\* What is above y afterwards: the way to c, and what is above the new parent
LEMMA TurnedAbove ==
  ASSUME NEW O, NEW t, Shaped(O, t), NEW P, NEW u, Shaped(P, u), NEW y \in Nums, NEW c \in Nums,
         NEW old \in Nums \cup {NOTHING}, NEW new \in Nums \cup {NOTHING}, Turned(t, u, y, c, old, new)
  PROVE  /\ c \in Above(u, y)
         /\ Before(u, y, c) = Before(t, y, c)
         /\ u.defs[c] = t.defs[c]
         /\ \A z \in Above(t, y) : c \in Above(t, z) \/ z \in Way(t, old)
         /\ \A z \in Above(u, y) :
              \/ /\ z \in Above(t, y) /\ c \in Above(t, z)
                 /\ Before(u, y, z) = Before(t, y, z)
                 /\ u.defs[z] = t.defs[z]
              \/ /\ z \in Way(t, new)
                 /\ z \in Above(t, y) => z \in Way(t, old)
                 /\ Before(u, y, z) = (Before(u, y, c) + Len(u.defs[c])) + Before(u, new, z)
         /\ \A z \in Way(t, old) :
              z \in Above(t, y) /\ Before(t, y, z) = (Before(u, y, c) + Len(u.defs[c])) + Before(t, old, z)
<1>1. /\ c \in Above(u, y)
      /\ \A z : z \in Above(u, y) <=> (z \in Above(t, y) /\ c \in Above(t, z)) \/ z \in Above(u, c)
      /\ \A z \in Above(t, y) : c \in Above(t, z) => Before(u, y, z) = Before(t, y, z)
  BY MovedWay DEF Turned
<1>2. /\ c \in Above(t, y) /\ t.up[c] = old /\ u.up[c] = new /\ NOTHING \notin Nums
      /\ \A z \in Above(t, y) : c \in Above(t, z) => u.defs[z] = t.defs[z]
      /\ c \in Above(t, c) /\ c \in Above(u, c)
  BY AboveUp, NothingIsNoNumber DEF Turned, Path
<1>3. /\ \A z : z \in Above(t, c) <=> z = c \/ z \in Way(t, old)
      /\ \A z : z \in Above(u, c) <=> z = c \/ z \in Way(u, new)
  <2>1. old # NOTHING => Way(t, old) = Above(t, old)
    BY TurnedWays
  <2>2. old = NOTHING => Way(t, old) = {}
    BY TurnedWays
  <2>3. new # NOTHING => Way(u, new) = Above(u, new)
    BY ShapedUp DEF Way
  <2>4. new = NOTHING => Way(u, new) = {}
    BY TurnedWays
  <2> QED
    BY <2>1, <2>2, <2>3, <2>4, <1>2, AboveUp
<1>4. Way(u, new) = Way(t, new)
  BY TurnedWays
<1>5. \A z \in Above(t, y) : c \in Above(t, z) \/ z \in Way(t, old)
  <2>1. ASSUME NEW z \in Above(t, y), c \notin Above(t, z) PROVE z \in Way(t, old)
    <3>1. z \in Above(t, c) /\ z # c
      BY <2>1, <1>2, AboveOrder
    <3> QED
      BY <3>1, <1>3
  <2> QED
    BY <2>1
<1>6. PICK l, k : l = Before(u, y, c) /\ k = Len(u.defs[c])
  OBVIOUS
<1>7. /\ l = Before(t, y, c) /\ u.defs[c] = t.defs[c] /\ k = Len(t.defs[c])
      /\ l \in Nat /\ k \in Nat
  BY <1>1, <1>2, <1>6, BeforeUp, ShapedUp
<1>8. ASSUME NEW z \in Way(t, new)
      PROVE  /\ z \in Above(t, y) => z \in Way(t, old)
             /\ Before(u, y, z) = (l + k) + Before(u, new, z)
  <2>1. z \in Above(u, c) /\ new \in Nums /\ z \in Above(u, new) /\ z \in Above(t, new)
    <3>1. new # NOTHING
      BY <1>8, TurnedWays
    <3>2. new \in Nums /\ Way(t, new) = Above(t, new) /\ Way(u, new) = Above(u, new)
      BY <3>1, ShapedUp DEF Way
    <3> QED
      BY <3>2, <1>3, <1>4, <1>8
  <2>2. c \notin Above(u, new)
    BY <2>1, <1>2, AboveOrder
  <2>3. z # c
    BY <2>1, <2>2
  <2>4. ASSUME z \in Above(t, y) PROVE z \in Way(t, old)
    <3>1. c \notin Above(t, new)
      <4>1. Above(t, new) = Way(t, new) /\ Above(u, new) = Way(u, new)
        BY <2>1, ShapedUp DEF Way
      <4> QED
        BY <4>1, <2>2, <1>4
    <3>2. c \notin Above(t, z)
      BY <3>1, <2>1, AboveOrder
    <3> QED
      BY <3>2, <2>4, <1>5
  <2>5. Before(u, y, z) = Before(u, y, c) + Before(u, c, z)
    BY <2>1, <1>1, BeforeVia
  <2>6. Before(u, c, z) = Len(u.defs[c]) + Before(u, new, z)
    BY <2>1, <2>3, <1>2, BeforeUp
  <2>7. Before(u, new, z) \in Nat
    BY <2>1, BeforeUp
  <2>8. Before(u, y, z) = (l + k) + Before(u, new, z)
    BY <2>5, <2>6, <2>7, <1>6, <1>7, SMTT(40)
  <2> QED
    BY <2>4, <2>8
<1>9. ASSUME NEW z \in Way(t, old)
      PROVE  z \in Above(t, y) /\ Before(t, y, z) = (l + k) + Before(t, old, z)
  <2>1. z \in Above(t, c) /\ old \in Nums /\ z \in Above(t, old)
    BY <1>3, <1>9, TurnedWays
  <2>2. z # c
    BY <2>1, <1>2, AboveOrder
  <2>3. z \in Above(t, y)
    BY <2>1, <1>2, AboveOrder
  <2>4. Before(t, y, z) = Before(t, y, c) + Before(t, c, z)
    BY <2>1, <1>2, BeforeVia
  <2>5. Before(t, c, z) = Len(t.defs[c]) + Before(t, old, z)
    BY <2>1, <2>2, <1>2, BeforeUp
  <2>6. Before(t, old, z) \in Nat
    BY <2>1, BeforeUp
  <2>7. Before(t, y, z) = (l + k) + Before(t, old, z)
    BY <2>4, <2>5, <2>6, <1>7, SMTT(40)
  <2> QED
    BY <2>3, <2>7
<1>10. ASSUME NEW z \in Above(u, y)
       PROVE  \/ /\ z \in Above(t, y) /\ c \in Above(t, z)
                 /\ Before(u, y, z) = Before(t, y, z)
                 /\ u.defs[z] = t.defs[z]
              \/ /\ z \in Way(t, new)
                 /\ z \in Above(t, y) => z \in Way(t, old)
                 /\ Before(u, y, z) = (l + k) + Before(u, new, z)
  <2>1. (z \in Above(t, y) /\ c \in Above(t, z)) \/ z \in Way(t, new)
    <3>1. z \in Above(u, c) => z = c \/ z \in Way(t, new)
      BY <1>3, <1>4
    <3> QED
      BY <3>1, <1>1, <1>2
  <2> QED
    BY <2>1, <1>1, <1>2, <1>8
<1> QED
  BY <1>1, <1>5, <1>6, <1>7, <1>9, <1>10

\* Slots that are still inherited are kept, and those that are newly inherited are copies.
FixedCells(t, u, slots, r, who, y, new) ==
  \A z \in Above(u, y) : \A i \in DOMAIN u.defs[z] :
    /\ i \in DOMAIN t.defs[z] /\ u.defs[z][i] = t.defs[z][i]
    /\ z \in Above(t, y) => r[Place(u, y, z, i)] = slots[y][Place(t, y, z, i)]
    /\ z \notin Above(t, y) =>
         /\ new # NOTHING /\ z \in Above(t, new)
         /\ r[Place(u, y, z, i)] = Inherited(slots[new][Place(t, new, z, i)], who)

\* A slot as it is inherited is a slot.
LEMMA InheritedIsSlot ==
  ASSUME NEW slot \in SlotRecords, NEW who \in Nums \cup {NOTHING}
  PROVE  Inherited(slot, who) \in SlotRecords
<1>1. slot.owner \in Nums \cup {NOTHING} /\ slot.chown \in BOOLEAN
  BY DEF SlotRecords
<1> QED
  BY <1>1 DEF Inherited, Slot, SlotRecords

\* r is the array of y after c has got another parent.
Fixed(t, u, y, c, old, new, slots, owners, r) ==
  /\ r = dbpriv_fix_properties_after_chparent(u, slots, owners, c, old, new)[y]
  /\ r \in Seq(SlotRecords)
  /\ Len(r) = dbpriv_count_properties(u, y)
  /\ FixedCells(t, u, slots, r, owners[y], y, new)

\* dbpriv_fix_properties_after_chparent(): the array of an object at or below the one that
\* has another parent
LEMMA FixedIs ==
  ASSUME NEW O, NEW t, Shaped(O, t), NEW P, NEW u, Shaped(P, u), NEW y \in Nums, NEW c \in Nums,
         NEW old \in Nums \cup {NOTHING}, NEW new \in Nums \cup {NOTHING}, Turned(t, u, y, c, old, new),
         NEW slots \in [Nums -> Seq(SlotRecords)],
         Len(slots[y]) = dbpriv_count_properties(t, y),
         new # NOTHING => Len(slots[new]) = dbpriv_count_properties(t, new),
         NEW owners \in [Nums -> Nums \cup {NOTHING}],
         NEW r, r = dbpriv_fix_properties_after_chparent(u, slots, owners, c, old, new)[y]
  PROVE  Fixed(t, u, y, c, old, new, slots, owners, r)
<1>1. PICK a, b, k \in Nat : Parted(u, old, new, a, b, k)
  BY CommonPart
<1>15. /\ a \in Nat /\ b \in Nat /\ k \in Nat
       /\ k = Common(u, old, new)
       /\ dbpriv_count_properties(u, old) = a + k
       /\ dbpriv_count_properties(u, new) = b + k
       /\ \A z \in Way(u, new) \ Way(u, old) : Before(u, new, z) + Len(u.defs[z]) <= b
       /\ \A z \in Way(u, new) \cap Way(u, old) : \E q \in Nat :
            /\ Before(u, new, z) = b + q
            /\ Before(u, old, z) = a + q
            /\ q + Len(u.defs[z]) <= k
  BY <1>1 DEF Parted
<1>16. a \in Nat /\ b \in Nat /\ k \in Nat
  BY <1>1
<1>2. PICK l : l = Before(u, y, c) + Len(u.defs[c])
  OBVIOUS
<1>3. /\ c \in Above(u, y) /\ c \in Above(t, y) /\ t.up[c] = old /\ u.up[c] = new
      /\ Before(u, y, c) = Before(t, y, c)
      /\ u.defs[c] = t.defs[c]
      /\ Before(u, y, c) \in Nat /\ Len(u.defs[c]) \in Nat
  <2>1. c \in Above(t, y) /\ t.up[c] = old /\ u.up[c] = new
    BY DEF Turned, Path
  <2>2. c \in Above(u, y) /\ Before(u, y, c) = Before(t, y, c) /\ u.defs[c] = t.defs[c]
    <3>1. c \in Above(u, y)
      BY TurnedAbove
    <3>2. Before(u, y, c) = Before(t, y, c)
      BY TurnedAbove
    <3>3. u.defs[c] = t.defs[c]
      BY <2>1, AboveUp DEF Turned, Path
    <3> QED
      BY <3>1, <3>2, <3>3
  <2>3. Before(u, y, c) \in Nat /\ Len(u.defs[c]) \in Nat
    BY <2>2, BeforeUp, ShapedUp
  <2> QED
    BY <2>1, <2>2, <2>3
<1>4. l \in Nat
  BY <1>2, <1>3
<1>5. /\ dbpriv_count_properties(t, old) = a + k
      /\ dbpriv_count_properties(t, new) = b + k
  BY <1>15, TurnedWays
<1>6. PICK s : s = slots[y]
  OBVIOUS
<1>7. s \in Seq(SlotRecords) /\ Len(s) = (l + a) + k
  <2>1. dbpriv_count_properties(t, y) = Before(t, y, c) + dbpriv_count_properties(t, c)
    BY <1>3, BeforeVia
  <2>2. dbpriv_count_properties(t, c) = Len(t.defs[c]) + dbpriv_count_properties(t, old)
    BY <1>3, CountUp
  <2>3. Len(s) = Before(u, y, c) + (Len(u.defs[c]) + (a + k))
    BY <2>1, <2>2, <1>3, <1>5, <1>6
  <2>4. PICK p, q \in Nat : p = Before(u, y, c) /\ q = Len(u.defs[c])
    BY <1>3
  <2>5. Len(s) = p + (q + (a + k)) /\ l = p + q
    BY <2>3, <2>4, <1>2
  <2>6. p + (q + (a + k)) = ((p + q) + a) + k
    <3>1. p \in Nat /\ q \in Nat
      BY <2>4
    <3> QED
      BY <3>1, <1>16
  <2>7. s \in Seq(SlotRecords)
    BY <1>6
  <2> QED
    BY <2>5, <2>6, <2>7
<1> DEFINE m == [i \in 1..b |-> Inherited(slots[new][i], owners[y])]
<1>8. ASSUME NEW i \in 1..b
      PROVE  new \in Nums /\ i \in DOMAIN slots[new] /\ slots[new][i] \in SlotRecords
  <2>1. new # NOTHING
    <3>1. SUFFICES ASSUME new = NOTHING PROVE FALSE
      OBVIOUS
    <3>2. dbpriv_count_properties(t, new) = 0
      BY <3>1, TurnedWays
    <3> QED
      BY <3>2, <1>15, <1>5, <1>8
  <2>2. new \in Nums /\ Len(slots[new]) = b + k
    BY <2>1, <1>5
  <2>3. i \in 1..Len(slots[new])
    BY <2>2, <1>15, <1>8
  <2> QED
    BY <2>2, <2>3
<1>9. m \in [1..b -> SlotRecords]
  <2>1. owners[y] \in Nums \cup {NOTHING}
    OBVIOUS
  <2> QED
    BY <2>1, <1>8, InheritedIsSlot
<1>10. r = SubSeq(s, 1, l) \o m \o SubSeq(s, (l + a) + 1, (l + a) + k)
  <2>1. IsAtOrBelow(u, y, c)
    BY <1>3, ShapedUp DEF IsAtOrBelow
  <2>2. PICK both : both = SelectInSeq(Line(u, new), LAMBDA w : w \in ToSet(Line(u, old)))
    OBVIOUS
  <2>3. k = IF both = 0 THEN 0 ELSE dbpriv_count_properties(u, Line(u, new)[both])
    <3>1. PICK T, line : T = ToSet(Line(u, old)) /\ line = Line(u, new)
      OBVIOUS
    <3>2. both = PlaceIn(T, line)
      BY <2>2, <3>1 DEF SelectInSeq, PlaceIn
    <3> QED
      BY <3>1, <3>2, <1>15 DEF Common, Way
  <2>4. dbpriv_count_properties(u, old) - k = a /\ dbpriv_count_properties(u, new) - k = b
    BY <1>15, SMTT(40)
  <2>5. r = SubSeq(s, 1, l) \o [i \in 1..b |-> Inherited(slots[new][i], owners[y])]
            \o SubSeq(s, l + a + 1, l + a + k)
    BY <2>1, <2>2, <2>3, <2>4, <1>2, <1>6 DEF dbpriv_fix_properties_after_chparent
  <2> QED
    BY <2>5
<1>11. /\ r \in Seq(SlotRecords)
       /\ Len(r) = (l + b) + k
       /\ \A j \in 1..l : r[j] = s[j]
       /\ \A j \in 1..b : r[l + j] = m[j]
       /\ \A j \in 1..k : r[(l + b) + j] = s[(l + a) + j]
  <2> HIDE DEF m
  <2>1. s \in Seq(SlotRecords) /\ Len(s) = (l + a) + k
    BY <1>7
  <2>2. Replaced(SlotRecords, s, m, l, a, b, k, r)
    BY <2>1, <1>16, <1>4, <1>9, <1>10, ThreeParts, ZenonT(40)
  <2> QED
    BY <2>2 DEF Replaced
<1>12. Len(r) = dbpriv_count_properties(u, y)
  <2>1. dbpriv_count_properties(u, y) = Before(u, y, c) + dbpriv_count_properties(u, c)
    BY <1>3, BeforeVia
  <2>2. dbpriv_count_properties(u, c) = Len(u.defs[c]) + dbpriv_count_properties(u, new)
    BY <1>3, CountUp
  <2>3. PICK p, q \in Nat : p = Before(u, y, c) /\ q = Len(u.defs[c])
    BY <1>3
  <2>4. dbpriv_count_properties(u, y) = p + (q + (b + k)) /\ l = p + q /\ Len(r) = (l + b) + k
    BY <2>1, <2>2, <2>3, <1>15, <1>2, <1>11
  <2>5. p + (q + (b + k)) = ((p + q) + b) + k
    <3>1. p \in Nat /\ q \in Nat
      BY <2>3
    <3> QED
      BY <3>1, <1>16
  <2> QED
    BY <2>4, <2>5
<1>13. ASSUME NEW z \in Above(u, y), NEW i \in DOMAIN u.defs[z]
       PROVE  /\ i \in DOMAIN t.defs[z] /\ u.defs[z][i] = t.defs[z][i]
              /\ z \in Above(t, y) => r[Place(u, y, z, i)] = slots[y][Place(t, y, z, i)]
              /\ z \notin Above(t, y) =>
                   /\ new # NOTHING /\ z \in Above(t, new)
                   /\ r[Place(u, y, z, i)] = Inherited(slots[new][Place(t, new, z, i)], owners[y])
  <2>1. /\ z \in Nums /\ i \in Nat /\ i >= 1 /\ i <= Len(u.defs[z]) /\ Len(u.defs[z]) \in Nat
    <3>1. z \in Nums
      BY AboveUp
    <3>2. u.defs[z] \in Seq(Names)
      BY <3>1, ShapedUp
    <3> QED
      BY <3>1, <3>2
  <2>2. CASE /\ z \in Above(t, y) /\ c \in Above(t, z)
             /\ Before(u, y, z) = Before(t, y, z)
             /\ u.defs[z] = t.defs[z]
    <3>1. PICK j : j = Place(u, y, z, i)
      OBVIOUS
    <3>2. j = Place(t, y, z, i)
      BY <3>1, <2>2 DEF Place
    <3>3. PICK p, q, n \in Nat : p = Before(u, y, z) /\ q = Before(u, y, c) /\ n = Len(u.defs[c])
      BY <1>3, BeforeBounds
    <3>4. l = q + n /\ j = p + i
      BY <3>1, <3>3, <1>2 DEF Place
    <3>5. p + i <= q + n
      <4>1. CASE z = c
        BY <4>1, <3>3, <2>1
      <4>2. CASE z # c
        <5>1. Before(t, y, c) >= Before(t, y, z) + Len(t.defs[z])
          BY <4>2, <2>2, BeforeBounds
        <5>2. q >= p + Len(u.defs[z])
          BY <5>1, <3>3, <2>2, <1>3
        <5> QED
          BY <5>2, <3>3, <2>1, SMTT(40)
      <4> QED
        BY <4>1, <4>2
    <3>6. j \in 1..l
      BY <3>3, <3>4, <3>5, <2>1, SMTT(40)
    <3> QED
      BY <3>1, <3>2, <3>6, <2>2, <1>6, <1>11
  <2>3. CASE /\ z \in Way(t, new)
             /\ z \in Above(t, y) => z \in Way(t, old)
             /\ Before(u, y, z) = (Before(u, y, c) + Len(u.defs[c])) + Before(u, new, z)
    <3>1. /\ new # NOTHING /\ new \in Nums /\ z \in Above(t, new) /\ z \in Way(u, new)
          /\ Before(u, new, z) = Before(t, new, z) /\ u.defs[z] = t.defs[z]
          /\ Way(u, old) = Way(t, old)
      BY <2>3, TurnedWays
    <3>2. Before(t, new, z) \in Nat
      BY <3>1, BeforeUp
    <3>3. PICK p \in Nat : p = Before(u, new, z) /\ p = Before(t, new, z)
      BY <3>1, <3>2
    <3>4. Place(u, y, z, i) = (l + p) + i /\ Place(t, new, z, i) = p + i
      BY <3>3, <2>3, <1>2 DEF Place
    <3>5. CASE z \in Way(t, old)
      <4>1. PICK q \in Nat : /\ p = b + q
                             /\ Before(u, old, z) = a + q
                             /\ q + Len(u.defs[z]) <= k
        BY <3>1, <3>3, <3>5, <1>15
      <4>2. z \in Above(t, y) /\ Before(t, y, z) = l + Before(t, old, z) /\ Before(t, old, z) = a + q
        BY <3>5, <4>1, <1>2, TurnedAbove, TurnedWays
      <4>3. q + i \in 1..k
        BY <4>1, <2>1, <1>15
      <4>4. Place(t, y, z, i) = (l + a) + (q + i)
        BY <4>1, <4>2, <2>1, <1>15, <1>4 DEF Place
      <4>5. Place(u, y, z, i) = (l + b) + (q + i)
        <5>1. (l + (b + q)) + i = (l + b) + (q + i)
          BY <2>1, <1>15, <1>4
        <5> QED
          BY <5>1, <4>1, <3>4
      <4>6. r[(l + b) + (q + i)] = s[(l + a) + (q + i)]
        BY <4>3, <1>11
      <4> QED
        BY <4>2, <4>4, <4>5, <4>6, <3>1, <1>6
    <3>6. CASE z \notin Way(t, old)
      <4>1. z \notin Above(t, y) /\ p + Len(u.defs[z]) <= b
        BY <3>1, <3>3, <3>6, <2>3, <1>15
      <4>2. p + i \in 1..b
        BY <4>1, <3>3, <2>1, <1>15, SMTT(40)
      <4>3. Place(u, y, z, i) = l + (p + i)
        BY <3>3, <3>4, <2>1, <1>4
      <4>4. r[l + (p + i)] = m[p + i] /\ m[p + i] = Inherited(slots[new][p + i], owners[y])
        BY <4>2, <1>11
      <4> QED
        BY <4>1, <4>3, <4>4, <3>1, <3>4
    <3> QED
      BY <3>5, <3>6
  <2> QED
    BY <2>2, <2>3, TurnedAbove
<1>14. /\ r \in Seq(SlotRecords)
       /\ Len(r) = dbpriv_count_properties(u, y)
       /\ FixedCells(t, u, slots, r, owners[y], y, new)
  BY <1>11, <1>12, <1>13 DEF FixedCells
<1> QED
  BY <1>14 DEF Fixed

\* The same, with what it takes in one predicate
Fixable(O, t, P, u, y, c, old, new, slots, owners) ==
  /\ Shaped(O, t) /\ Shaped(P, u) /\ y \in Nums /\ c \in Nums
  /\ old \in Nums \cup {NOTHING} /\ new \in Nums \cup {NOTHING} /\ Turned(t, u, y, c, old, new)
  /\ slots \in [Nums -> Seq(SlotRecords)]
  /\ Len(slots[y]) = dbpriv_count_properties(t, y)
  /\ new # NOTHING => Len(slots[new]) = dbpriv_count_properties(t, new)
  /\ owners \in [Nums -> Nums \cup {NOTHING}]

\* The array of y
LEMMA FixedArray ==
  ASSUME NEW O, NEW t, NEW P, NEW u, NEW y, NEW c, NEW old, NEW new, NEW slots, NEW owners,
         Fixable(O, t, P, u, y, c, old, new, slots, owners)
  PROVE  \E r : Fixed(t, u, y, c, old, new, slots, owners, r)
<1>1. PICK r : r = dbpriv_fix_properties_after_chparent(u, slots, owners, c, old, new)[y]
  OBVIOUS
<1>2. /\ Shaped(O, t) /\ Shaped(P, u) /\ y \in Nums /\ c \in Nums
      /\ old \in Nums \cup {NOTHING} /\ new \in Nums \cup {NOTHING} /\ Turned(t, u, y, c, old, new)
      /\ slots \in [Nums -> Seq(SlotRecords)]
      /\ Len(slots[y]) = dbpriv_count_properties(t, y)
      /\ owners \in [Nums -> Nums \cup {NOTHING}]
  BY DEF Fixable
<1>3. new # NOTHING => Len(slots[new]) = dbpriv_count_properties(t, new)
  BY DEF Fixable
<1> QED
  BY <1>1, <1>2, <1>3, FixedIs, Zenon

-----------------------------------------------------------------------------
(* What a change of parents is to the table: Reparent *)

\* The slots of y are for what they were for, and nothing is newly inherited.
Retains(t, u, slots, now, y) ==
  \A z \in Above(u, y) : \A i \in DOMAIN u.defs[z] :
    /\ z \in Above(t, y) /\ i \in DOMAIN t.defs[z] /\ u.defs[z][i] = t.defs[z][i]
    /\ Table!Same(now[y][Place(u, y, z, i)], slots[y][Place(t, y, z, i)])

\* The same by name, where the values of the slots in Q may have changed.
KeptBut(S, N, Q) ==
  \A y \in objects \cap objects' : \A m \in DOMAIN N[y] :
    /\ m \in DOMAIN S[y]
    /\ Table!Definitions[y][m] = Table!Definitions'[y][m]
    /\ N[y][m].chown = S[y][m].chown
    /\ S[y][m].owner \in objects => N[y][m].owner = S[y][m].owner
    /\ <<y, m>> \notin Q => N[y][m].value = S[y][m].value

\* Arrays that are retained are retained by name.
LEMMA RetainsKept ==
  ASSUME TableFacts, TableFacts', NEW slots, Fits(objects, Here, slots),
         NEW P, P = objects', NEW u, u = Here', NEW now, Fits(P, u, now),
         \A y \in objects \cap P : Retains(Here, u, slots, now, y)
  PROVE  KeptBut(NamedSlots(Here, objects, slots), NamedSlots(u, P, now), {})
<1>1. SUFFICES ASSUME NEW y \in objects \cap P, NEW m \in DOMAIN NamedSlots(u, P, now)[y]
               PROVE  /\ m \in DOMAIN NamedSlots(Here, objects, slots)[y]
                      /\ Table!Definitions[y][m] = Table!Definitions'[y][m]
                      /\ Table!Same(NamedSlots(u, P, now)[y][m], NamedSlots(Here, objects, slots)[y][m])
  BY DEF KeptBut, Table!Same
<1>2. Shaped(P, u) /\ Distinct(u) /\ Shaped(objects, Here) /\ Distinct(Here) /\ y \in Nums
  BY DEF Fits, Shaped
<1>3. HasIt(u, y, m)
  BY <1>2, NamedIs
<1>4. PICK z \in Nums : \E i \in DOMAIN u.defs[z] : Has(u, y, m, z, i)
  BY <1>3 DEF HasIt
<1>5. PICK i \in DOMAIN u.defs[z] : Has(u, y, m, z, i)
  BY <1>4
<1>6. z \in Above(u, y)
  BY <1>5 DEF Has
<1>7. /\ z \in Above(Here, y) /\ i \in DOMAIN Here.defs[z] /\ u.defs[z][i] = Here.defs[z][i]
      /\ Table!Same(now[y][Place(u, y, z, i)], slots[y][Place(Here, y, z, i)])
  BY <1>5, <1>6 DEF Retains
<1>8. Has(Here, y, m, z, i)
  BY <1>5, <1>7 DEF Has
<1>9. m \in DOMAIN NamedSlots(Here, objects, slots)[y]
  BY <1>2, <1>8, NamedIs DEF HasIt, Has
<1>10. /\ NamedSlots(Here, objects, slots)[y][m] = slots[y][Place(Here, y, z, i)]
       /\ NamedSlots(u, P, now)[y][m] = now[y][Place(u, y, z, i)]
  BY <1>2, <1>5, <1>8, NamedIs
<1>11. Table!Definitions[y][m] = {z}
  BY <1>8 DEF TableFacts
<1>12. Table!Definitions'[y][m] = {z}
  BY <1>5, SMTT(40) DEF TableFacts
<1> QED
  BY <1>7, <1>9, <1>10, <1>11, <1>12

\* All slots are kept, or all but one that holds a quota.
KeptOrQuota ==
  \/ Table!Kept(named'.slots)
  \/ \E q \in objects \cap objects' : \E n \in DOMAIN named.slots[q] \cap DOMAIN named'.slots[q] :
       Table!Kept([named'.slots EXCEPT ![q][n].value = named.slots[q][n].value])

\* Slots that are all the same are kept.
LEMMA KeptAll ==
  ASSUME KeptBut(named.slots, named'.slots, {})
  PROVE  KeptOrQuota
<1>1. Table!Kept(named'.slots)
  BY DEF KeptBut, Table!Kept, Table!Same
<1> QED
  BY <1>1, Zenon DEF KeptOrQuota

\* Slots that are the same but one, of which only the value differs, are kept but for a quota.
LEMMA KeptButOne ==
  ASSUME NEW q \in objects \cap objects', NEW n,
         n \in DOMAIN named.slots[q], n \in DOMAIN named'.slots[q],
         q \in DOMAIN named'.slots, named'.slots[q][n] \in SlotRecords,
         KeptBut(named.slots, named'.slots, {<<q, n>>})
  PROVE  KeptOrQuota
<1>1. PICK S, N : S = named.slots /\ N = named'.slots
  OBVIOUS
<1>2. PICK M : M = [N EXCEPT ![q][n].value = S[q][n].value]
  OBVIOUS
<1>3. PICK s : s = [N[q][n] EXCEPT !.value = S[q][n].value]
  OBVIOUS
<1>4. /\ s.value = S[q][n].value /\ s.chown = N[q][n].chown /\ s.owner = N[q][n].owner
  BY <1>1, <1>3 DEF SlotRecords
<1>5. M = [N EXCEPT ![q] = [@ EXCEPT ![n] = s]]
  BY <1>2, <1>3
<1>6. \A y : y # q => M[y] = N[y]
  BY <1>5
<1>7. DOMAIN M[q] = DOMAIN N[q] /\ \A m : M[q][m] = IF m = n THEN s ELSE N[q][m]
  BY <1>1, <1>5
<1>8. \A y \in objects \cap objects' : \A m \in DOMAIN M[y] :
        /\ m \in DOMAIN S[y]
        /\ Table!Definitions[y][m] = Table!Definitions'[y][m]
        /\ Table!Same(M[y][m], S[y][m])
  BY <1>1, <1>4, <1>6, <1>7 DEF KeptBut, Table!Same
<1>9. Table!Kept(M)
  BY <1>1, <1>8 DEF Table!Kept
<1> QED
  BY <1>1, <1>2, <1>9 DEF KeptOrQuota

\* A number in one slot
LEMMA RequotaIs ==
  ASSUME NEW S, NEW q \in DOMAIN S, NEW n \in DOMAIN S[q], S[q][n] \in SlotRecords, NEW number,
         NEW N, N = Requota(S, q, n, number)
  PROVE  /\ \A y : y # q => N[y] = S[y]
         /\ DOMAIN N = DOMAIN S /\ DOMAIN N[q] = DOMAIN S[q]
         /\ \A m : m # n => N[q][m] = S[q][m]
         /\ N[q][n].value = number
         /\ N[q][n].chown = S[q][n].chown /\ N[q][n].owner = S[q][n].owner
<1>1. PICK s : s = [S[q][n] EXCEPT !.value = number]
  OBVIOUS
<1>2. s.value = number /\ s.chown = S[q][n].chown /\ s.owner = S[q][n].owner
  BY <1>1 DEF SlotRecords
<1>3. N = [S EXCEPT ![q] = [@ EXCEPT ![n] = s]]
  BY <1>1 DEF Requota
<1>4. PICK f : f = [S[q] EXCEPT ![n] = s]
  OBVIOUS
<1>5. N = [S EXCEPT ![q] = f]
  BY <1>3, <1>4
<1>6. DOMAIN N = DOMAIN S /\ N[q] = f /\ \A y : y # q => N[y] = S[y]
  BY <1>5
<1>7. DOMAIN f = DOMAIN S[q] /\ f[n] = s /\ \A m : m # n => f[m] = S[q][m]
  BY <1>4
<1> QED
  BY <1>2, <1>6, <1>7

\* The quota is taken first, and then objects change,
LEMMA QuotaThenKept ==
  ASSUME NEW S1, Quotaed(named.slots, S1), KeptBut(S1, named'.slots, {}), objects \subseteq objects',
         \A y \in objects : /\ y \in DOMAIN named.slots /\ y \in DOMAIN named'.slots
                            /\ DOMAIN named.slots[y] \subseteq DOMAIN named'.slots[y]
                            /\ \A m \in DOMAIN named.slots[y] : named.slots[y][m] \in SlotRecords
                            /\ \A m \in DOMAIN named'.slots[y] : named'.slots[y][m] \in SlotRecords
  PROVE  KeptOrQuota
<1>1. CASE S1 = named.slots
  BY <1>1, KeptAll
<1>2. ASSUME NEW q \in objects, NEW number \in Int, quota_name \in DOMAIN named.slots[q],
             S1 = Requota(named.slots, q, quota_name, number)
      PROVE  KeptOrQuota
  <2>1. PICK S, n : S = named.slots /\ n = quota_name
    OBVIOUS
  <2>2. q \in DOMAIN S /\ n \in DOMAIN S[q] /\ S[q][n] \in SlotRecords /\ S1 = Requota(S, q, n, number)
    BY <1>2, <2>1
  <2>3. /\ \A y : y # q => S1[y] = S[y]
        /\ DOMAIN S1[q] = DOMAIN S[q]
        /\ \A m : m # n => S1[q][m] = S[q][m]
        /\ S1[q][n].chown = S[q][n].chown /\ S1[q][n].owner = S[q][n].owner
    BY <2>2, RequotaIs
  <2>4. ASSUME NEW y \in objects \cap objects', NEW m \in DOMAIN named'.slots[y]
        PROVE  /\ m \in DOMAIN S[y]
               /\ Table!Definitions[y][m] = Table!Definitions'[y][m]
               /\ named'.slots[y][m].chown = S[y][m].chown
               /\ S[y][m].owner \in objects => named'.slots[y][m].owner = S[y][m].owner
               /\ <<y, m>> \notin {<<q, n>>} => named'.slots[y][m].value = S[y][m].value
    <3>1. /\ m \in DOMAIN S1[y]
          /\ Table!Definitions[y][m] = Table!Definitions'[y][m]
          /\ named'.slots[y][m].chown = S1[y][m].chown
          /\ S1[y][m].owner \in objects => named'.slots[y][m].owner = S1[y][m].owner
          /\ named'.slots[y][m].value = S1[y][m].value
      BY <2>4 DEF KeptBut
    <3>2. CASE y = q /\ m = n
      BY <2>3, <3>1, <3>2
    <3>3. CASE ~(y = q /\ m = n)
      <4>1. m \in DOMAIN S[y] /\ S1[y][m] = S[y][m]
        BY <2>3, <3>1, <3>3
      <4> QED
        BY <3>1, <4>1
    <3> QED
      BY <3>2, <3>3
  <2>5. KeptBut(named.slots, named'.slots, {<<q, n>>})
    BY <2>1, <2>4 DEF KeptBut
  <2>6. /\ q \in objects \cap objects' /\ n \in DOMAIN named.slots[q] /\ n \in DOMAIN named'.slots[q]
        /\ q \in DOMAIN named'.slots /\ named'.slots[q][n] \in SlotRecords
    BY <2>1, <2>2
  <2> QED
    BY <2>5, <2>6, KeptButOne
<1> QED
  BY <1>1, <1>2 DEF Quotaed

\* or they change first.
LEMMA KeptThenQuota ==
  ASSUME NEW N, KeptBut(named.slots, N, {}), NEW q \in objects \cap objects', NEW n, NEW number \in Int,
         q \in DOMAIN N, n \in DOMAIN N[q], N[q][n] \in SlotRecords,
         named'.slots = Requota(N, q, n, number), named'.slots[q][n] \in SlotRecords
  PROVE  KeptOrQuota
<1>1. PICK M : M = named'.slots
  OBVIOUS
<1>2. M = Requota(N, q, n, number)
  BY <1>1
<1>3. /\ \A y : y # q => M[y] = N[y]
      /\ DOMAIN M = DOMAIN N /\ DOMAIN M[q] = DOMAIN N[q]
      /\ \A m : m # n => M[q][m] = N[q][m]
      /\ M[q][n].chown = N[q][n].chown /\ M[q][n].owner = N[q][n].owner
  BY <1>2, RequotaIs
<1>4. ASSUME NEW y \in objects \cap objects', NEW m \in DOMAIN M[y]
      PROVE  /\ m \in DOMAIN named.slots[y]
             /\ Table!Definitions[y][m] = Table!Definitions'[y][m]
             /\ M[y][m].chown = named.slots[y][m].chown
             /\ named.slots[y][m].owner \in objects => M[y][m].owner = named.slots[y][m].owner
             /\ <<y, m>> \notin {<<q, n>>} => M[y][m].value = named.slots[y][m].value
  <2>1. m \in DOMAIN N[y]
    BY <1>3, <1>4
  <2>2. /\ m \in DOMAIN named.slots[y]
        /\ Table!Definitions[y][m] = Table!Definitions'[y][m]
        /\ N[y][m].chown = named.slots[y][m].chown
        /\ named.slots[y][m].owner \in objects => N[y][m].owner = named.slots[y][m].owner
        /\ N[y][m].value = named.slots[y][m].value
    BY <2>1 DEF KeptBut
  <2>3. CASE y = q /\ m = n
    BY <1>3, <2>2, <2>3
  <2>4. CASE ~(y = q /\ m = n)
    <3>1. M[y][m] = N[y][m]
      BY <1>3, <2>4
    <3> QED
      BY <2>2, <3>1
  <2> QED
    BY <2>3, <2>4
<1>5. KeptBut(named.slots, named'.slots, {<<q, n>>})
  BY <1>1, <1>4 DEF KeptBut
<1>6. n \in DOMAIN named.slots[q] /\ n \in DOMAIN named'.slots[q] /\ q \in DOMAIN named'.slots
  BY <1>1, <1>3, <1>4
<1> QED
  BY <1>5, <1>6, KeptButOne

-----------------------------------------------------------------------------
(* A new object *)

\* x, which nothing was linked to, is now a child of parent.
Joined(O, t, u, x, parent) ==
  /\ x \in Nums \ O
  /\ parent \in O \cup {NOTHING}
  /\ u.defs = t.defs
  /\ \A z \in Nums : u.up[z] = IF z = x THEN parent ELSE t.up[z]

\* The ways up of all others are what they were, and its own goes on from the parent.
Grown(t, u, x, parent) ==
  /\ \A y \in Nums : y # x =>
       /\ x \notin Above(t, y)
       /\ Above(u, y) = Above(t, y)
       /\ dbpriv_count_properties(u, y) = dbpriv_count_properties(t, y)
       /\ \A z \in Above(t, y) : Before(u, y, z) = Before(t, y, z)
  /\ Above(t, x) = {x}
  /\ Turned(t, u, x, x, NOTHING, parent)

\* The ways up of other objects do not change when a new object gets a parent.
LEMMA JoinedWays ==
  ASSUME NEW O, NEW t, Shaped(O, t), NEW x, NEW parent, NEW u, Shaped(O \cup {x}, u),
         Joined(O, t, u, x, parent)
  PROVE  Grown(t, u, x, parent)
<1>1. x \in Nums /\ x \notin O /\ parent \in O \cup {NOTHING} /\ O \in SUBSET Nums
      /\ parent # x /\ NOTHING \notin Nums
  BY NothingIsNoNumber DEF Joined, Shaped
<1>2. \A z \in Nums : u.defs[z] = t.defs[z] /\ u.up[z] = IF z = x THEN parent ELSE t.up[z]
  BY DEF Joined
<1>3. ASSUME NEW y \in Nums, y # x PROVE x \notin Above(t, y)
  <2>1. CASE y \in O
    <3>1. \A z \in O : t.up[z] \in O \cup {NOTHING}
      BY ShapedUp
    <3> QED
      BY <2>1, <3>1, <1>1, AboveIsObjects
  <2>2. CASE y \notin O
    <3>1. t.up[y] = NOTHING
      BY <2>2, ShapedUp
    <3> QED
      BY <3>1, <1>3, AboveUp
  <2> QED
    BY <2>1, <2>2
<1>4. ASSUME NEW y \in Nums, y # x
      PROVE  /\ Above(u, y) = Above(t, y)
             /\ dbpriv_count_properties(u, y) = dbpriv_count_properties(t, y)
             /\ \A z \in Above(t, y) : Before(u, y, z) = Before(t, y, z)
  <2>1. Above(t, y) \subseteq Nums
    BY AboveUp
  <2>2. \A z \in Above(t, y) : u.up[z] = t.up[z] /\ u.defs[z] = t.defs[z]
    BY <2>1, <1>2, <1>3, <1>4
  <2> QED
    BY <2>2, SameWay
<1>5. t.up[x] = NOTHING /\ u.up[x] = parent
  BY <1>1, <1>2, ShapedUp
<1>6. Above(t, x) = {x}
  <2>1. \A a : a \in Above(t, x) <=> a = x
    BY <1>1, <1>5, AboveUp
  <2> QED
    BY <2>1
<1>7. Way(t, NOTHING) = {}
  <2>1. Line(t, NOTHING) = <<>>
    BY ShapedUp
  <2> QED
    BY <2>1 DEF Way, ToSet
<1>8. ASSUME NEW z \in Way(t, parent) PROVE u.up[z] = t.up[z] /\ u.defs[z] = t.defs[z]
  <2>1. parent # NOTHING
    BY <1>7, <1>8
  <2>2. parent \in Nums /\ Way(t, parent) = Above(t, parent)
    BY <1>1, <2>1, ShapedUp DEF Way
  <2>3. z \in Nums /\ z # x
    BY <2>2, <1>1, <1>3, AboveUp
  <2> QED
    BY <2>3, <1>2
<1>9. Path(t, u, x, x)
  BY <1>1, <1>2, <1>6 DEF Path
<1>10. Turned(t, u, x, x, NOTHING, parent)
  BY <1>5, <1>7, <1>8, <1>9 DEF Turned
<1> QED
  BY <1>3, <1>4, <1>6, <1>10 DEF Grown

\* Its slots are copies of those of the parent, and all other arrays are what they were.
BornCells(O, u, slots, now, x, parent, who) ==
  /\ \A y \in Nums : y # x => now[y] = slots[y]
  /\ \A z \in Above(u, x) : \A i \in DOMAIN u.defs[z] :
       /\ parent \in O /\ z \in Above(u, parent)
       /\ now[x][Place(u, x, z, i)] = Inherited(now[parent][Place(u, parent, z, i)], who)

\* The array of a new object fits, and holds copies of its parent's slots.
LEMMA BornFits ==
  ASSUME NEW O, NEW t, NEW slots, Fits(O, t, slots), NEW x, NEW parent, NEW u, Shaped(O \cup {x}, u),
         Joined(O, t, u, x, parent), NEW owners \in [Nums -> Nums \cup {NOTHING}],
         NEW now, now = dbpriv_fix_properties_after_chparent(u, slots, owners, x, NOTHING, parent)
  PROVE  Fits(O \cup {x}, u, now) /\ BornCells(O, u, slots, now, x, parent, owners[x])
<1>1. /\ Shaped(O, t) /\ slots \in [Nums -> Seq(SlotRecords)] /\ Distinct(t) /\ OwnValues(t, slots)
      /\ \A y \in Nums : Len(slots[y]) = dbpriv_count_properties(t, y)
      /\ \A y \in Nums \ O : t.defs[y] = <<>>
  BY DEF Fits
<1>2. /\ x \in Nums /\ x \notin O /\ parent \in O \cup {NOTHING} /\ O \in SUBSET Nums
      /\ parent # x /\ NOTHING \notin Nums /\ u.defs = t.defs /\ t.defs[x] = <<>> /\ u.up[x] = parent
  BY <1>1, NothingIsNoNumber DEF Joined, Shaped
<1>3. /\ \A y \in Nums : y # x =>
           /\ x \notin Above(t, y)
           /\ Above(u, y) = Above(t, y)
           /\ dbpriv_count_properties(u, y) = dbpriv_count_properties(t, y)
           /\ \A z \in Above(t, y) : Before(u, y, z) = Before(t, y, z)
      /\ Above(t, x) = {x}
      /\ Turned(t, u, x, x, NOTHING, parent)
  BY <1>1, JoinedWays DEF Grown
<1>4. ASSUME NEW y \in Nums, y # x PROVE ~IsAtOrBelow(u, y, x)
  <2>1. ToSet(Line(u, y)) = Above(u, y)
    BY ShapedUp
  <2>2. x \notin Above(u, y)
    BY <1>3, <1>4, SMTT(40)
  <2> QED
    BY <2>1, <2>2 DEF IsAtOrBelow
<1>5. \A y \in Nums : y # x => now[y] = slots[y]
  BY <1>4 DEF dbpriv_fix_properties_after_chparent
<1>6. /\ now[x] \in Seq(SlotRecords)
      /\ Len(now[x]) = dbpriv_count_properties(u, x)
      /\ FixedCells(t, u, slots, now[x], owners[x], x, parent)
  <2>1. Len(slots[x]) = dbpriv_count_properties(t, x)
    BY <1>1, <1>2
  <2>2. parent # NOTHING => Len(slots[parent]) = dbpriv_count_properties(t, parent)
    BY <1>1, <1>2
  <2>3. parent \in Nums \cup {NOTHING} /\ NOTHING \in Nums \cup {NOTHING} /\ x \in Nums
    BY <1>2
  <2>4. Fixable(O, t, O \cup {x}, u, x, x, NOTHING, parent, slots, owners)
    BY <2>1, <2>2, <2>3, <1>1, <1>3 DEF Fixable
  <2>5. PICK r : Fixed(t, u, x, x, NOTHING, parent, slots, owners, r)
    BY <2>4, FixedArray
  <2> QED
    BY <2>5 DEF Fixed
<1>7. now \in [Nums -> Seq(SlotRecords)]
  <2>1. \A y \in Nums : now[y] \in Seq(SlotRecords)
    BY <1>1, <1>5, <1>6, SMTT(40)
  <2>2. now = [y \in Nums |-> now[y]]
    BY DEF dbpriv_fix_properties_after_chparent
  <2> QED
    BY <2>1, <2>2
<1>8. \A y \in Nums : Len(now[y]) = dbpriv_count_properties(u, y)
  BY <1>1, <1>3, <1>5, <1>6
<1>9. \A y \in Nums \ (O \cup {x}) : u.defs[y] = <<>>
  BY <1>1, <1>2
<1>10. \A y \in Nums : \A z \in Above(u, y) : z # x => \E w \in Nums : w # x /\ (y # x => w = y) /\ (y = x => w = parent) /\ z \in Above(u, w)
  BY <1>2, AboveUp
<1>11. ASSUME NEW y \in Nums, NEW z \in Above(u, y), NEW w \in Above(u, y),
              NEW i \in DOMAIN u.defs[z], NEW j \in DOMAIN u.defs[w], u.defs[z][i] = u.defs[w][j]
       PROVE  z = w /\ i = j
  <2>1. z # x /\ w # x
    BY <1>2
  <2>2. \E v \in Nums : v # x /\ z \in Above(u, v) /\ w \in Above(u, v)
    BY <2>1, <1>10
  <2>3. PICK v \in Nums : v # x /\ z \in Above(u, v) /\ w \in Above(u, v)
    BY <2>2
  <2>4. z \in Above(t, v) /\ w \in Above(t, v)
    BY <2>3, <1>3
  <2> QED
    BY <2>4, <1>1, <1>2, <1>11 DEF Distinct
<1>12. Distinct(u)
  BY <1>11 DEF Distinct
<1>13. OwnValues(u, now)
  <2>1. DOMAIN u.defs[x] = {}
    BY <1>2
  <2> QED
    BY <2>1, <1>1, <1>2, <1>5, SMTT(40) DEF OwnValues
<1>14. Fits(O \cup {x}, u, now)
  BY <1>7, <1>8, <1>9, <1>12, <1>13 DEF Fits
<1>15. ASSUME NEW z \in Above(u, x), NEW i \in DOMAIN u.defs[z]
       PROVE  /\ parent \in O /\ z \in Above(u, parent)
              /\ now[x][Place(u, x, z, i)] = Inherited(now[parent][Place(u, parent, z, i)], owners[x])
  <2>1. z # x
    BY <1>2
  <2>2. z \notin Above(t, x)
    BY <2>1, <1>3
  <2>3. /\ parent # NOTHING /\ z \in Above(t, parent)
        /\ now[x][Place(u, x, z, i)] = Inherited(slots[parent][Place(t, parent, z, i)], owners[x])
    BY <2>2, <1>6 DEF FixedCells
  <2>4. parent \in O /\ parent \in Nums
    BY <2>3, <1>2
  <2>5. z \in Above(u, parent) /\ Place(u, parent, z, i) = Place(t, parent, z, i)
    BY <2>3, <2>4, <1>2, <1>3 DEF Place
  <2>6. now[parent] = slots[parent]
    BY <2>4, <1>2, <1>5
  <2> QED
    BY <2>3, <2>4, <2>5, <2>6
<1> QED
  BY <1>5, <1>14, <1>15 DEF BornCells

\* When a number is taken over, owners change, and nothing else does.
Relabelled(slots, now, old, new) ==
  \A y \in Nums :
    /\ Len(now[y]) = Len(slots[y])
    /\ \A i \in DOMAIN slots[y] :
         /\ now[y][i].value = slots[y][i].value
         /\ now[y][i].chown = slots[y][i].chown
         /\ now[y][i].owner = OwnerAfter(slots[y][i].owner, old, new)

\* db_set_object_number() changes the owners of slots, and nothing else of them.
LEMMA SlotsRelabelled ==
  ASSUME NEW slots \in [Nums -> Seq(SlotRecords)], NEW old, NEW new \in Nums,
         NEW now, now = SlotsRenumbered(slots, old, new)
  PROVE  now \in [Nums -> Seq(SlotRecords)] /\ Relabelled(slots, now, old, new)
<1>1. ASSUME NEW y \in Nums
      PROVE  /\ now[y] \in Seq(SlotRecords)
             /\ Len(now[y]) = Len(slots[y])
             /\ \A i \in DOMAIN slots[y] :
                  /\ now[y][i].value = slots[y][i].value
                  /\ now[y][i].chown = slots[y][i].chown
                  /\ now[y][i].owner = OwnerAfter(slots[y][i].owner, old, new)
  <2>1. PICK s : s = slots[y]
    OBVIOUS
  <2>2. s \in Seq(SlotRecords) /\ Len(s) \in Nat /\ DOMAIN s = 1..Len(s)
    BY <2>1
  <2>3. PICK r : r = [i \in DOMAIN s |-> [s[i] EXCEPT !.owner = OwnerAfter(@, old, new)]]
    OBVIOUS
  <2>4. now[y] = r
    BY <2>1, <2>3 DEF SlotsRenumbered
  <2>5. ASSUME NEW i \in DOMAIN s
        PROVE  /\ r[i] \in SlotRecords
               /\ r[i].value = s[i].value
               /\ r[i].chown = s[i].chown
               /\ r[i].owner = OwnerAfter(s[i].owner, old, new)
    <3>1. PICK e : e = s[i]
      OBVIOUS
    <3>2. e \in SlotRecords
      BY <2>2, <3>1
    <3>3. r[i] = [e EXCEPT !.owner = OwnerAfter(e.owner, old, new)]
      BY <2>3, <3>1
    <3>4. OwnerAfter(e.owner, old, new) \in Nums \cup {NOTHING}
      BY <3>2 DEF OwnerAfter, SlotRecords
    <3> QED
      BY <3>1, <3>2, <3>3, <3>4 DEF SlotRecords
  <2>6. r \in [1..Len(s) -> SlotRecords]
    BY <2>2, <2>3, <2>5
  <2>7. r \in Seq(SlotRecords) /\ Len(r) = Len(s)
    BY <2>2, <2>6, SeqDef, SMTT(40)
  <2> QED
    BY <2>1, <2>4, <2>5, <2>7
<1>2. now = [y \in Nums |-> now[y]]
  BY DEF SlotsRenumbered
<1> QED
  BY <1>1, <1>2 DEF Relabelled

\* They fit as before.
LEMMA RelabelledFits ==
  ASSUME NEW O, NEW t, NEW slots, Fits(O, t, slots), NEW old, NEW new,
         NEW now \in [Nums -> Seq(SlotRecords)], Relabelled(slots, now, old, new)
  PROVE  Fits(O, t, now)
<1>1. /\ Shaped(O, t) /\ Distinct(t) /\ OwnValues(t, slots)
      /\ \A y \in Nums : Len(slots[y]) = dbpriv_count_properties(t, y)
      /\ \A y \in Nums \ O : t.defs[y] = <<>>
  BY DEF Fits
<1>2. \A y \in Nums : Len(now[y]) = dbpriv_count_properties(t, y)
  BY <1>1 DEF Relabelled
<1>3. ASSUME NEW z \in Nums, NEW i \in DOMAIN t.defs[z] PROVE now[z][i].value # CLEAR
  <2>0. z \in Above(t, z) /\ Before(t, z, z) = 0
    BY <1>1, AboveUp, BeforeUp
  <2>1. Place(t, z, z, i) \in DOMAIN slots[z] /\ Place(t, z, z, i) = Before(t, z, z) + i /\ i \in Nat
    BY <2>0, PlaceFits
  <2>2. i \in DOMAIN slots[z]
    BY <2>0, <2>1
  <2> QED
    BY <1>1, <2>2 DEF Relabelled, OwnValues
<1>4. OwnValues(t, now)
  BY <1>3 DEF OwnValues
<1> QED
  BY <1>1, <1>2, <1>4 DEF Fits

\* Nobody owns the number behind the last, nor does anything belong to a number that is free.
LEMMA RelabelledSame ==
  ASSUME NEW t, NEW slots, Fits(objects, t, slots), NEW old, NEW new, old \notin objects,
         new \notin objects, NEW now, Relabelled(slots, now, old, new),
         NEW y \in Nums, NEW z \in Above(t, y), NEW i \in DOMAIN t.defs[z]
  PROVE  Table!Same(now[y][Place(t, y, z, i)], slots[y][Place(t, y, z, i)])
<1>1. Place(t, y, z, i) \in DOMAIN slots[y]
  BY PlaceFits
<1> QED
  BY <1>1 DEF Relabelled, Table!Same, OwnerAfter

\* What makes Reparent of a step
OthersStay ==
  \A y \in objects \cap objects' :
    /\ y \in Nums /\ propdefs'[y] = propdefs[y]
    /\ owner[y] \in objects => owner'[y] = owner[y]

NewInherit ==
  \A y \in objects' \ objects :
    /\ y \in Nums /\ propdefs'[y] = <<>>
    /\ \A n \in DOMAIN named'.slots[y] :
         named'.slots[y][n] = Table!ClearCopy(named'.slots[family'.up[y]][n], owner'[y])

\* Slots kept, and inherited by new objects, are what the table calls Reparent.
LEMMA ReparentIs ==
  ASSUME KeptOrQuota, OthersStay, NewInherit
  PROVE  Table!Reparent
<1>1. ToSet(<<>>) = {}
  BY DEF ToSet
<1>2. \A y \in objects \cap objects' :
        /\ [z \in Nums |-> ToSet(propdefs'[z])][y] = [z \in Nums |-> ToSet(propdefs[z])][y]
        /\ owner[y] \in objects => owner'[y] = owner[y]
  BY DEF OthersStay
<1>3. \A x \in objects' \ objects :
        /\ [z \in Nums |-> ToSet(propdefs'[z])][x] = {}
        /\ \A n \in DOMAIN named'.slots[x] :
             named'.slots[x][n] = Table!ClearCopy(named'.slots[family'.up[x]][n], owner'[x])
  BY <1>1 DEF NewInherit
<1>4. \/ Table!Kept(named'.slots)
      \/ \E q \in objects \cap objects' : \E n \in DOMAIN named.slots[q] \cap DOMAIN named'.slots[q] :
           Table!Kept([named'.slots EXCEPT ![q][n].value = named.slots[q][n].value])
  BY DEF KeptOrQuota
<1> QED
  BY <1>2, <1>3, <1>4 DEF Table!Reparent

\* The shape after a step
LEMMA ShapedThen ==
  ASSUME Hierarchy', propdefs' \in [Nums -> Seq(Names)]
  PROVE  /\ Shaped(objects', Here') /\ Here'.up = family'.up /\ Here'.defs = propdefs'
         /\ objects' \in SUBSET Nums /\ GoodTree(objects', family')
<1>1. objects' \in SUBSET Nums /\ GoodTree(objects', family')
  BY DEF Hierarchy
<1>2. Here'.up = family'.up /\ Here'.defs = propdefs'
  BY DEF Here, Shape
<1> QED
  BY <1>1, <1>2 DEF Shaped

\* NewObject() joins the object to its parent.
LEMMA NewIsJoined ==
  ASSUME Hierarchy, NEW x \in Nums \ objects, NEW parent, NewObject(x, parent), UNCHANGED propdefs
  PROVE  Joined(objects, Here, Here', x, parent) /\ objects' = objects \cup {x} /\ family'.up[x] = parent
<1>1. family \in Trees /\ parent \in Nums \cup {NOTHING} /\ x \in Nums /\ parent \in objects \cup {NOTHING}
  BY DEF Hierarchy, GoodTree, NewObject
<1>2. Fresh(family, x) \in Trees /\ \A z \in Nums : z # x => Fresh(family, x).up[z] = family.up[z]
  BY <1>1 DEF Fresh, Trees
<1>3. \A z \in Nums : Moved(Fresh(family, x), x, parent).up[z] = IF z = x THEN parent ELSE Fresh(family, x).up[z]
  BY <1>1, <1>2, MovedLinks
<1>4. family' = Moved(Fresh(family, x), x, parent) /\ objects' = objects \cup {x}
  BY DEF NewObject
<1>5. \A z \in Nums : family'.up[z] = IF z = x THEN parent ELSE family.up[z]
  BY <1>2, <1>3, <1>4
<1>6. Here'.up = family'.up /\ Here.up = family.up /\ Here'.defs = Here.defs
  BY DEF Here, Shape
<1> QED
  BY <1>1, <1>4, <1>5, <1>6 DEF Joined

\* Arrays of the same shape, with the same in them
Alike(t, slots, taken) ==
  \A y \in Nums : \A z \in Above(t, y) : \A i \in DOMAIN t.defs[z] :
    Table!Same(slots[y][Place(t, y, z, i)], taken[y][Place(t, y, z, i)])

\* An object is born: Reparent of the table.
LEMMA BornReparents ==
  ASSUME Hierarchy, PropInv, Hierarchy', NamedAnew, NEW x \in Nums \ objects, NEW parent,
         NewObject(x, parent), NEW who \in Nums \cup {NOTHING},
         NEW taken, Fits(objects, Here, taken), Quotaed(named.slots, NamedSlots(Here, objects, taken)),
         NEW slots, Fits(objects, Here, slots), Alike(Here, slots, taken),
         NEW owners \in [Nums -> Nums \cup {NOTHING}],
         \A y \in objects : owner[y] \in objects => owners[y] = owner[y],
         Born(x, parent, who, owners, slots)
  PROVE  PropInv' /\ Table!Reparent
<1>1. /\ owner' = [owners EXCEPT ![x] = IF who = NOTHING THEN x ELSE who]
      /\ propval' = dbpriv_fix_properties_after_chparent(Shape(family', propdefs), slots, owner', x, NOTHING, parent)
      /\ propdefs' = propdefs
  BY DEF Born
<1>2. PICK t, u, P : t = Here /\ u = Here' /\ P = objects'
  OBVIOUS
<1>3. /\ Fits(objects, t, propval) /\ named.slots = NamedSlots(t, objects, propval)
      /\ owner \in [Nums -> Nums \cup {NOTHING}] /\ objects \in SUBSET Nums
      /\ Shaped(objects, t) /\ t.defs = propdefs /\ propdefs \in [Nums -> Seq(Names)]
      /\ \A y \in Nums \ objects : propdefs[y] = <<>>
  BY <1>2, HereIs DEF PropInv, Named, Hierarchy, Fits, Shaped
<1>4. Shaped(P, u) /\ u = Shape(family', propdefs) /\ P \in SUBSET Nums
  BY <1>1, <1>2, <1>3, ShapedThen, HereIs
<1>5. Joined(objects, t, u, x, parent) /\ P = objects \cup {x} /\ family'.up[x] = parent
  BY <1>1, <1>2, NewIsJoined
<1>6. owner' \in [Nums -> Nums \cup {NOTHING}]
  BY <1>1
<1>7. propval' = dbpriv_fix_properties_after_chparent(u, slots, owner', x, NOTHING, parent)
  BY <1>1, <1>4
<1>8. Fits(P, u, propval') /\ BornCells(objects, u, slots, propval', x, parent, owner'[x])
  <2>1. Fits(objects, t, slots) /\ Shaped(objects \cup {x}, u)
    BY <1>2, <1>4, <1>5
  <2>2. Fits(objects \cup {x}, u, propval') /\ BornCells(objects, u, slots, propval', x, parent, owner'[x])
    BY <2>1, <1>5, <1>6, <1>7, BornFits
  <2> QED
    BY <2>2, <1>5
<1>9. PropInv' /\ named'.slots = NamedSlots(u, P, propval')
  BY <1>2, <1>6, <1>8, PropInvThen
<1>10. TableFacts /\ TableFacts'
  BY <1>9, TableIs, TableIsThen
<1>11. /\ \A y \in Nums : y # x => Above(u, y) = Above(t, y) /\ \A z \in Above(t, y) : Before(u, y, z) = Before(t, y, z)
       /\ u.defs = t.defs
  <2>1. Shaped(objects \cup {x}, u) /\ Shaped(objects, t) /\ Joined(objects, t, u, x, parent)
    BY <1>3, <1>4, <1>5
  <2>2. \A y \in Nums : y # x =>
          /\ x \notin Above(t, y)
          /\ Above(u, y) = Above(t, y)
          /\ dbpriv_count_properties(u, y) = dbpriv_count_properties(t, y)
          /\ \A z \in Above(t, y) : Before(u, y, z) = Before(t, y, z)
    <3>1. Grown(t, u, x, parent)
      BY <2>1, JoinedWays
    <3> QED
      BY <3>1 DEF Grown
  <2> QED
    BY <2>2, <1>5 DEF Joined
<1>12. ASSUME NEW y \in objects \cap P PROVE Retains(t, u, taken, propval', y)
  <2>1. y \in Nums /\ y # x
    BY <1>3, <1>12
  <2>2. propval'[y] = slots[y]
    BY <2>1, <1>8 DEF BornCells
  <2>3. SUFFICES ASSUME NEW z \in Above(u, y), NEW i \in DOMAIN u.defs[z]
                 PROVE  /\ z \in Above(t, y) /\ i \in DOMAIN t.defs[z] /\ u.defs[z][i] = t.defs[z][i]
                        /\ Table!Same(propval'[y][Place(u, y, z, i)], taken[y][Place(t, y, z, i)])
    BY DEF Retains
  <2>4. z \in Above(t, y) /\ i \in DOMAIN t.defs[z] /\ u.defs[z][i] = t.defs[z][i]
    BY <2>1, <2>3, <1>11
  <2>5. Place(u, y, z, i) = Place(t, y, z, i)
    BY <2>1, <2>4, <1>11 DEF Place
  <2>6. Table!Same(slots[y][Place(t, y, z, i)], taken[y][Place(t, y, z, i)])
    BY <2>1, <2>4, <1>2 DEF Alike
  <2> QED
    BY <2>2, <2>4, <2>5, <2>6
<1>13. KeptBut(NamedSlots(t, objects, taken), named'.slots, {})
  <2>1. Fits(objects, Here, taken) /\ P = objects' /\ u = Here' /\ Fits(P, u, propval')
    BY <1>2, <1>8
  <2>2. \A y \in objects \cap P : Retains(Here, u, taken, propval', y)
    BY <1>2, <1>12
  <2>3. KeptBut(NamedSlots(Here, objects, taken), NamedSlots(u, P, propval'), {})
    BY <2>1, <2>2, <1>10, RetainsKept
  <2> QED
    BY <2>3, <1>2, <1>9
<1>14. ASSUME NEW y \in objects
       PROVE  /\ y \in DOMAIN named.slots /\ y \in DOMAIN named'.slots
              /\ DOMAIN named.slots[y] \subseteq DOMAIN named'.slots[y]
              /\ \A m \in DOMAIN named.slots[y] : named.slots[y][m] \in SlotRecords
              /\ \A m \in DOMAIN named'.slots[y] : named'.slots[y][m] \in SlotRecords
  <2>1. y \in P /\ y \in Nums /\ y # x
    BY <1>3, <1>5
  <2>2. y \in DOMAIN named.slots /\ y \in DOMAIN named'.slots
    BY <2>1, <1>3, <1>9 DEF NamedSlots
  <2>3. ASSUME NEW m \in DOMAIN named.slots[y] PROVE named.slots[y][m] \in SlotRecords
    <3>1. m \in DOMAIN NamedSlots(t, objects, propval)[y] /\ Fits(objects, t, propval)
      BY <1>3, <2>3
    <3>2. NamedSlots(t, objects, propval)[y][m] \in SlotRecords
      BY <3>1, NamedAt
    <3> QED
      BY <3>2, <1>3
  <2>4. \A m \in DOMAIN named'.slots[y] : named'.slots[y][m] \in SlotRecords
    BY <2>1, <1>8, <1>9, NamedAt
  <2>5. \A m : HasIt(t, y, m) => HasIt(u, y, m)
    BY <2>1, <1>11 DEF HasIt, Has
  <2>6. DOMAIN named.slots[y] \subseteq DOMAIN named'.slots[y]
    BY <2>1, <2>5, <1>2, <1>10 DEF TableFacts
  <2> QED
    BY <2>2, <2>3, <2>4, <2>6
<1>15. KeptOrQuota
  <2>1. objects \subseteq objects'
    BY <1>2, <1>5
  <2>2. Quotaed(named.slots, NamedSlots(t, objects, taken))
    BY <1>2
  <2> QED
    BY <2>1, <2>2, <1>13, <1>14, QuotaThenKept
<1>16. ASSUME NEW n \in DOMAIN named'.slots[x]
       PROVE  named'.slots[x][n] = Table!ClearCopy(named'.slots[family'.up[x]][n], owner'[x])
  <2>1. x \in P /\ n \in DOMAIN NamedSlots(u, P, propval')[x]
    BY <1>5, <1>9, <1>16
  <2>2. PICK z \in Nums : \E i \in DOMAIN u.defs[z] :
          /\ Has(u, x, n, z, i)
          /\ NamedSlots(u, P, propval')[x][n] = propval'[x][Place(u, x, z, i)]
    BY <2>1, <1>8, NamedAt
  <2>3. PICK i \in DOMAIN u.defs[z] :
          /\ Has(u, x, n, z, i)
          /\ NamedSlots(u, P, propval')[x][n] = propval'[x][Place(u, x, z, i)]
    BY <2>2
  <2>4. z \in Above(u, x) /\ u.defs[z][i] = n
    BY <2>3 DEF Has
  <2>5. /\ parent \in objects /\ z \in Above(u, parent)
        /\ propval'[x][Place(u, x, z, i)] = Inherited(propval'[parent][Place(u, parent, z, i)], owner'[x])
    BY <2>4, <1>8 DEF BornCells
  <2>6. Has(u, parent, n, z, i) /\ parent \in P /\ parent \in Nums
    BY <2>3, <2>4, <2>5, <1>3, <1>5 DEF Has
  <2>7. named'.slots[parent][n] = propval'[parent][Place(u, parent, z, i)]
    BY <2>6, <1>2, <1>10 DEF TableFacts
  <2>8. propval'[parent][Place(u, parent, z, i)] \in SlotRecords
    BY <2>5, <2>6, <1>8, PlaceFits
  <2>9. Table!ClearCopy(named'.slots[parent][n], owner'[x]) = Inherited(propval'[parent][Place(u, parent, z, i)], owner'[x])
    BY <2>7, <2>8, InheritedIsClearCopy
  <2> QED
    BY <2>3, <2>5, <2>9, <1>5, <1>9
<1>17. Table!Reparent
  <2>1. \A y \in objects \cap objects' :
          /\ y \in Nums /\ propdefs'[y] = propdefs[y]
          /\ owner[y] \in objects => owner'[y] = owner[y]
    BY <1>1, <1>3
  <2>2. \A y \in objects' \ objects : y = x
    BY <1>2, <1>5
  <2>3. ASSUME NEW y \in objects' \ objects
        PROVE  /\ y \in Nums /\ propdefs'[y] = <<>>
               /\ \A n \in DOMAIN named'.slots[y] :
                    named'.slots[y][n] = Table!ClearCopy(named'.slots[family'.up[y]][n], owner'[y])
    <3>1. x \in Nums /\ propdefs'[x] = <<>>
      BY <1>1, <1>3
    <3> QED
      BY <3>1, <2>2, <1>16
  <2>4. OthersStay
    BY <2>1 DEF OthersStay
  <2>5. NewInherit
    BY <2>3 DEF NewInherit
  <2> QED
    BY <2>4, <2>5, <1>15, ReparentIs
<1> QED
  BY <1>9, <1>17

\* What leaves objects and their arrays alone leaves the table alone.
LEMMA TableStays ==
  ASSUME PropInv, UNCHANGED <<objects, family, owner, propdefs, propval>>, named' = named \/ NamedAnew
  PROVE  PropInv' /\ UNCHANGED Table!vars
<1>1. Here' = Here
  BY HereIs
<1>2. named' = named
  BY <1>1 DEF NamedAnew, PropInv
<1>3. PropInv'
  BY <1>1, <1>2 DEF PropInv
<1>4. UNCHANGED Table!vars
  BY <1>2 DEF Table!vars
<1> QED
  BY <1>3, <1>4

\* create(): the number is the next one.
LEMMA BornNext ==
  ASSUME Hierarchy, PropInv, Hierarchy', NamedAnew, NEW x \in Nums \ objects, NEW parent,
         NewObject(x, parent), NEW who \in Nums \cup {NOTHING}, Born(x, parent, who, owner, decr_quota(who))
  PROVE  PropInv' /\ Table!Reparent
<1>1. PICK taken : taken = decr_quota(who)
  OBVIOUS
<1>2. Fits(objects, Here, taken) /\ Quotaed(named.slots, NamedSlots(Here, objects, taken))
  BY <1>1, DecrFits
<1>3. Alike(Here, taken, taken)
  BY DEF Alike, Table!Same
<1>4. PICK owners : owners = owner
  OBVIOUS
<1>5. owners \in [Nums -> Nums \cup {NOTHING}] /\ \A y \in objects : owner[y] \in objects => owners[y] = owner[y]
  BY <1>4 DEF PropInv
<1>6. Born(x, parent, who, owners, taken)
  BY <1>1, <1>4
<1> QED
  BY <1>2, <1>3, <1>5, <1>6, BornReparents

\* The object made behind the last number has got another one.
LEMMA BornNumbered ==
  ASSUME Hierarchy, PropInv, Hierarchy', NamedAnew, NEW x \in Nums \ objects, NEW parent,
         NewObject(x, parent), NEW who \in Nums \cup {NOTHING}, num_objects \notin objects,
         BornAndRenumbered(x, parent, who)
  PROVE  PropInv' /\ Table!Reparent
<1>1. PICK taken, old : taken = decr_quota(who) /\ old = num_objects
  OBVIOUS
<1>2. Fits(objects, Here, taken) /\ Quotaed(named.slots, NamedSlots(Here, objects, taken))
  BY <1>1, DecrFits
<1>3. PICK slots : slots = SlotsRenumbered(taken, old, x)
  OBVIOUS
<1>4. taken \in [Nums -> Seq(SlotRecords)]
  BY <1>2 DEF Fits
<1>5. slots \in [Nums -> Seq(SlotRecords)] /\ Relabelled(taken, slots, old, x)
  BY <1>3, <1>4, SlotsRelabelled
<1>6. Fits(objects, Here, slots)
  BY <1>2, <1>5, RelabelledFits
<1>7. old \notin objects /\ x \notin objects /\ x \in Nums
  BY <1>1
<1>8. Alike(Here, slots, taken)
  <2>1. SUFFICES ASSUME NEW y \in Nums, NEW z \in Above(Here, y), NEW i \in DOMAIN Here.defs[z]
                 PROVE  Table!Same(slots[y][Place(Here, y, z, i)], taken[y][Place(Here, y, z, i)])
    BY DEF Alike
  <2>2. PICK t : t = Here
    OBVIOUS
  <2>3. Fits(objects, t, taken) /\ z \in Above(t, y) /\ i \in DOMAIN t.defs[z]
    BY <1>2, <2>1, <2>2
  <2>4. Table!Same(slots[y][Place(t, y, z, i)], taken[y][Place(t, y, z, i)])
    BY <2>3, <1>5, <1>7, RelabelledSame
  <2> QED
    BY <2>2, <2>4
<1>9. PICK owners : owners = OwnersRenumbered(old, x)
  OBVIOUS
<1>10. owner \in [Nums -> Nums \cup {NOTHING}] /\ objects \in SUBSET Nums
  BY DEF PropInv, Hierarchy
<1>11. owners \in [Nums -> Nums \cup {NOTHING}]
  BY <1>7, <1>9, <1>10 DEF OwnersRenumbered, OwnerAfter
<1>12. \A y \in objects : owner[y] \in objects => owners[y] = owner[y]
  BY <1>7, <1>9, <1>10 DEF OwnersRenumbered, OwnerAfter
<1>13. Born(x, parent, who, owners, slots)
  BY <1>1, <1>3, <1>9 DEF BornAndRenumbered
<1> QED
  BY <1>2, <1>6, <1>8, <1>11, <1>12, <1>13, BornReparents

\* bf_create() and its two patched forms: Reparent of the table
LEMMA CreateReparents ==
  ASSUME Hierarchy, ObjectInv, PropInv, Hierarchy', NamedAnew, NEW parent \in Nums \cup {NOTHING},
         NEW who \in Nums \cup {NOTHING},
         \/ CreateObject(parent, who)
         \/ CreateObjectAndRenumber(parent, who)
         \/ \E num \in Nums : CreateObjectWithId(num, parent, who)
  PROVE  PropInv' /\ (Table!Reparent \/ UNCHANGED Table!vars)
<1>1. num_objects \notin objects /\ num_objects \in Nat /\ objects \subseteq 0..(num_objects - 1)
  BY ObjectAssumption DEF ObjectInv, TypeOK
<1>2. CASE CreateObject(parent, who)
  <2>1. num_objects \in Nums \ objects /\ NewObject(num_objects, parent)
        /\ Born(num_objects, parent, who, owner, decr_quota(who))
    BY <1>1, <1>2 DEF CreateObject, Create
  <2> QED
    BY <2>1, BornNext
<1>3. CASE CreateObjectAndRenumber(parent, who)
  <2>1. PICK x \in objects' \ objects :
          IF x = num_objects THEN Born(x, parent, who, owner, decr_quota(who)) /\ VerbsStay
          ELSE BornAndRenumbered(x, parent, who)
    BY <1>3 DEF CreateObjectAndRenumber
  <2>2. \/ num_objects \in Nums /\ NewObject(num_objects, parent)
        \/ \E y \in Free : NewObject(y, parent)
    BY <1>3 DEF CreateObjectAndRenumber, CreateAndRenumber, Create
  <2>3. NewObject(x, parent)
    BY <2>1, <2>2 DEF NewObject
  <2>4. x \in Nums \ objects
    BY <2>1 DEF Hierarchy
  <2>5. CASE x = num_objects
    BY <2>1, <2>3, <2>4, <2>5, BornNext
  <2>6. CASE x # num_objects
    BY <2>1, <2>3, <2>4, <2>6, <1>1, BornNumbered
  <2> QED
    BY <2>5, <2>6
<1>4. ASSUME NEW num \in Nums, CreateObjectWithId(num, parent, who)
      PROVE  PropInv' /\ (Table!Reparent \/ UNCHANGED Table!vars)
  <2>1. CASE num \in objects'
    <3>1. num \notin objects /\ BornAndRenumbered(num, parent, who) /\ CreateWithId(num, parent)
      BY <1>4, <2>1 DEF CreateObjectWithId, CreateWithId
    <3>2. NewObject(num, parent)
      BY <2>1, <3>1 DEF CreateWithId, Panics
    <3>3. num \in Nums \ objects
      BY <3>1
    <3> QED
      BY <3>1, <3>2, <3>3, <1>1, BornNumbered
  <2>2. CASE num \notin objects'
    <3>1. PropertiesStay /\ CreateWithId(num, parent)
      BY <1>4, <2>2 DEF CreateObjectWithId
    <3>2. UNCHANGED <<objects, family>>
      BY <2>2, <3>1 DEF CreateWithId, Panics, NewObject
    <3> QED
      BY <3>1, <3>2, TableStays DEF PropertiesStay, prop_vars
  <2> QED
    BY <2>1, <2>2
<1> QED
  BY <1>2, <1>3, <1>4

-----------------------------------------------------------------------------
(* Another parent *)

\* c gets another parent, which is not below it.
Turning(O, t, u, c, new) ==
  /\ c \in O /\ new \in O \cup {NOTHING}
  /\ new # NOTHING => c \notin Above(t, new)
  /\ u.defs = t.defs
  /\ \A z \in Nums : u.up[z] = IF z = c THEN new ELSE t.up[z]

\* What is not below c is where it was.
Unturned(t, u, y) ==
  /\ Above(u, y) = Above(t, y)
  /\ dbpriv_count_properties(u, y) = dbpriv_count_properties(t, y)
  /\ \A z \in Above(t, y) : Before(u, y, z) = Before(t, y, z)

\* When c turns to another parent, the ways of those below it turn with it, and no other does.
LEMMA TurningWays ==
  ASSUME NEW O, NEW t, Shaped(O, t), NEW u, Shaped(O, u), NEW c, NEW new, Turning(O, t, u, c, new),
         NEW y \in Nums
  PROVE  /\ c \in Above(t, y) => Turned(t, u, y, c, t.up[c], new)
         /\ c \notin Above(t, y) => Unturned(t, u, y)
         /\ c \in Above(u, y) <=> c \in Above(t, y)
<1>1. c \in Nums /\ c \in O /\ new \in Nums \cup {NOTHING} /\ O \in SUBSET Nums /\ NOTHING \notin Nums
  BY NothingIsNoNumber DEF Turning, Shaped
<1>2. \A z \in Nums : u.defs[z] = t.defs[z] /\ (z # c => u.up[z] = t.up[z])
  BY DEF Turning
<1>3. t.up[c] \in Nums \cup {NOTHING} /\ u.up[c] = new
  BY <1>1, ShapedUp DEF Turning
<1>4. ASSUME NEW p \in {t.up[c], new}, NEW z \in Way(t, p)
      PROVE  u.up[z] = t.up[z] /\ u.defs[z] = t.defs[z]
  <2>1. p \in Nums \cup {NOTHING}
    BY <1>1, <1>3
  <2>2. p # NOTHING
    <3>1. Line(t, NOTHING) = <<>>
      BY ShapedUp
    <3>2. Way(t, NOTHING) = {}
      BY <3>1 DEF Way, ToSet
    <3> QED
      BY <3>2, <1>4
  <2>3. p \in Nums /\ Way(t, p) = Above(t, p)
    BY <2>1, <2>2, ShapedUp DEF Way
  <2>4. c \notin Above(t, p)
    <3>1. CASE p = new
      BY <3>1, <2>2 DEF Turning
    <3>2. CASE p = t.up[c]
      BY <3>2, <2>2, <1>1, AboveOrder
    <3> QED
      BY <3>1, <3>2, <1>4
  <2>5. z \in Nums /\ z # c
    BY <2>3, <2>4, <1>4, AboveUp
  <2> QED
    BY <2>5, <1>2
<1>5. ASSUME c \in Above(t, y) PROVE Turned(t, u, y, c, t.up[c], new)
  <2>1. Path(t, u, y, c)
    <3>1. Above(t, y) \subseteq Nums
      BY AboveUp
    <3> QED
      BY <3>1, <1>2, <1>5 DEF Path
  <2> QED
    BY <2>1, <1>3, <1>4 DEF Turned
<1>6. ASSUME c \notin Above(t, y) PROVE Unturned(t, u, y)
  <2>1. Above(t, y) \subseteq Nums
    BY AboveUp
  <2>2. \A z \in Above(t, y) : u.up[z] = t.up[z] /\ u.defs[z] = t.defs[z]
    BY <2>1, <1>2, <1>6
  <2> QED
    BY <2>2, SameWay DEF Unturned
<1>7. ASSUME c \in Above(t, y) PROVE c \in Above(u, y)
  BY <1>1, <1>3, <1>5, <1>7, TurnedAbove
<1> QED
  BY <1>5, <1>6, <1>7 DEF Unturned

\* A slot that is inherited is inherited from the parent.
LEMMA InheritedTwice ==
  ASSUME NEW slot, NEW who, NEW other
  PROVE  Inherited(Inherited(slot, who), other) = Inherited(slot, other)
BY DEF Inherited, Slot

TurningCells(t, u, slots, now, owners) ==
  \A y \in Nums : \A z \in Above(u, y) : \A i \in DOMAIN u.defs[z] :
    /\ i \in DOMAIN t.defs[z] /\ u.defs[z][i] = t.defs[z][i]
    /\ z \in Above(t, y) => now[y][Place(u, y, z, i)] = slots[y][Place(t, y, z, i)]
    /\ z \notin Above(t, y) =>
         /\ u.up[y] \in Nums /\ z \in Above(u, u.up[y])
         /\ now[y][Place(u, y, z, i)] = Inherited(now[u.up[y]][Place(u, u.up[y], z, i)], owners[y])

\* The arrays fit when no name of the new ancestors is one of the old descendants.
LEMMA TurningFits ==
  ASSUME NEW O, NEW t, NEW slots, Fits(O, t, slots), NEW u, Shaped(O, u), NEW c, NEW new,
         Turning(O, t, u, c, new), NEW owners \in [Nums -> Nums \cup {NOTHING}],
         \A w \in Way(t, new), z \in Nums : c \in Above(t, z) =>
           \A i \in DOMAIN t.defs[z], j \in DOMAIN t.defs[w] : t.defs[z][i] # t.defs[w][j],
         NEW now, now = dbpriv_fix_properties_after_chparent(u, slots, owners, c, t.up[c], new)
  PROVE  Fits(O, u, now) /\ TurningCells(t, u, slots, now, owners)
<1>1. /\ Shaped(O, t) /\ slots \in [Nums -> Seq(SlotRecords)] /\ Distinct(t) /\ OwnValues(t, slots)
      /\ \A y \in Nums : Len(slots[y]) = dbpriv_count_properties(t, y)
      /\ \A y \in Nums \ O : t.defs[y] = <<>>
  BY DEF Fits
<1>2. /\ c \in O /\ c \in Nums /\ new \in Nums \cup {NOTHING} /\ t.up[c] \in Nums \cup {NOTHING}
      /\ O \in SUBSET Nums /\ NOTHING \notin Nums /\ u.defs = t.defs /\ u.up[c] = new
      /\ \A z \in Nums : z # c => u.up[z] = t.up[z]
      /\ new # NOTHING => c \notin Above(t, new)
  BY <1>1, ShapedUp, NothingIsNoNumber DEF Turning, Shaped
<1>3. \A y \in Nums : c \in Above(t, y) => Turned(t, u, y, c, t.up[c], new)
  BY <1>1, TurningWays
<1>4. \A y \in Nums : c \notin Above(t, y) => Unturned(t, u, y)
  BY <1>1, TurningWays
<1>5. \A y \in Nums : c \in Above(u, y) <=> c \in Above(t, y)
  BY <1>1, TurningWays
<1>6. ASSUME NEW y \in Nums, c \in Above(t, y)
      PROVE  /\ now[y] \in Seq(SlotRecords)
             /\ Len(now[y]) = dbpriv_count_properties(u, y)
             /\ FixedCells(t, u, slots, now[y], owners[y], y, new)
  <2>1. new # NOTHING => Len(slots[new]) = dbpriv_count_properties(t, new)
    BY <1>1, <1>2
  <2>2. Fixable(O, t, O, u, y, c, t.up[c], new, slots, owners)
    BY <2>1, <1>1, <1>2, <1>3, <1>6 DEF Fixable
  <2>3. PICK r : Fixed(t, u, y, c, t.up[c], new, slots, owners, r)
    BY <2>2, FixedArray, SMTT(40)
  <2> QED
    BY <2>3 DEF Fixed
<1>7. ASSUME NEW y \in Nums, c \notin Above(t, y) PROVE now[y] = slots[y]
  <2>1. ToSet(Line(u, y)) = Above(u, y)
    BY ShapedUp
  <2>2. ~IsAtOrBelow(u, y, c)
    BY <2>1, <1>5, <1>7 DEF IsAtOrBelow
  <2> QED
    BY <2>2 DEF dbpriv_fix_properties_after_chparent
<1>8. now \in [Nums -> Seq(SlotRecords)]
  <2>1. \A y \in Nums : now[y] \in Seq(SlotRecords)
    BY <1>1, <1>6, <1>7, SMTT(40)
  <2>2. now = [y \in Nums |-> now[y]]
    BY DEF dbpriv_fix_properties_after_chparent
  <2> QED
    BY <2>1, <2>2
<1>9. \A y \in Nums : Len(now[y]) = dbpriv_count_properties(u, y)
  BY <1>1, <1>4, <1>6, <1>7 DEF Unturned
<1>10. ASSUME NEW y \in Nums, c \in Above(t, y), NEW z \in Above(u, y)
       PROVE  \/ z \in Above(t, y) /\ c \in Above(t, z)
              \/ z \in Way(t, new)
  BY <1>1, <1>2, <1>3, <1>10, TurnedAbove
<1>11. new # NOTHING => Way(t, new) = Above(t, new) /\ new \in Nums
  BY <1>1, <1>2, ShapedUp DEF Way
<1>12. new = NOTHING => Way(t, new) = {}
  <2>1. Line(t, NOTHING) = <<>>
    BY <1>1, ShapedUp
  <2> QED
    BY <2>1 DEF Way, ToSet
<1>13. ASSUME NEW y \in Nums, NEW z \in Above(u, y), NEW w \in Above(u, y),
              NEW i \in DOMAIN t.defs[z], NEW j \in DOMAIN t.defs[w], t.defs[z][i] = t.defs[w][j]
       PROVE  z = w /\ i = j
  <2>1. CASE c \notin Above(t, y)
    <3>1. z \in Above(t, y) /\ w \in Above(t, y)
      BY <2>1, <1>4 DEF Unturned
    <3> QED
      BY <3>1, <1>1, <1>13 DEF Distinct
  <2>2. CASE c \in Above(t, y)
    <3>0. z \in Nums /\ w \in Nums
      BY AboveUp
    <3>1. CASE z \in Above(t, y) /\ w \in Above(t, y)
      BY <3>1, <1>1, <1>13 DEF Distinct
    <3>2. CASE z \in Way(t, new) /\ w \in Way(t, new)
      <4>1. new \in Nums /\ z \in Above(t, new) /\ w \in Above(t, new)
        BY <3>2, <1>11, <1>12
      <4> QED
        BY <4>1, <1>1, <1>13 DEF Distinct
    <3>3. CASE c \in Above(t, z) /\ w \in Way(t, new)
      BY <3>0, <3>3, <1>13
    <3>4. CASE c \in Above(t, w) /\ z \in Way(t, new)
      BY <3>0, <3>4, <1>13
    <3> QED
      BY <2>2, <3>1, <3>2, <3>3, <3>4, <1>10
  <2> QED
    BY <2>1, <2>2
<1>14. Distinct(u)
  BY <1>2, <1>13 DEF Distinct
<1>15. ASSUME NEW z \in Nums, NEW i \in DOMAIN t.defs[z] PROVE now[z][i].value # CLEAR
  <2>1. slots[z][i].value # CLEAR
    BY <1>1 DEF OwnValues
  <2>2. CASE c \notin Above(t, z)
    BY <2>1, <2>2, <1>7
  <2>3. CASE c \in Above(t, z)
    <3>1. z \in Above(u, z) /\ z \in Above(t, z) /\ Before(u, z, z) = 0 /\ Before(t, z, z) = 0
      BY <1>1, AboveUp, BeforeUp
    <3>2. now[z][Place(u, z, z, i)] = slots[z][Place(t, z, z, i)]
      BY <2>3, <3>1, <1>2, <1>6 DEF FixedCells
    <3>3. i \in Nat
      BY <1>1, <3>1, PlaceFits
    <3>4. Place(u, z, z, i) = i /\ Place(t, z, z, i) = i
      BY <3>1, <3>3 DEF Place
    <3> QED
      BY <2>1, <3>2, <3>4
  <2> QED
    BY <2>2, <2>3
<1>16. OwnValues(u, now)
  BY <1>2, <1>15 DEF OwnValues
<1>17. Fits(O, u, now)
  BY <1>1, <1>2, <1>8, <1>9, <1>14, <1>16 DEF Fits
<1>18. ASSUME NEW y \in Nums, NEW z \in Above(u, y), NEW i \in DOMAIN u.defs[z]
       PROVE  /\ i \in DOMAIN t.defs[z] /\ u.defs[z][i] = t.defs[z][i]
              /\ z \in Above(t, y) => now[y][Place(u, y, z, i)] = slots[y][Place(t, y, z, i)]
  <2>1. i \in DOMAIN t.defs[z] /\ u.defs[z][i] = t.defs[z][i]
    BY <1>2
  <2>2. CASE c \notin Above(t, y)
    <3>1. z \in Above(t, y) /\ Place(u, y, z, i) = Place(t, y, z, i)
      BY <2>2, <1>4 DEF Unturned, Place
    <3> QED
      BY <2>1, <2>2, <3>1, <1>7
  <2>3. CASE c \in Above(t, y)
    BY <2>1, <2>3, <1>6 DEF FixedCells
  <2> QED
    BY <2>2, <2>3
<1>19. ASSUME NEW y \in Nums, NEW z \in Above(u, y), NEW i \in DOMAIN u.defs[z], z \notin Above(t, y)
       PROVE  /\ u.up[y] \in Nums /\ z \in Above(u, u.up[y])
              /\ now[y][Place(u, y, z, i)] = Inherited(now[u.up[y]][Place(u, u.up[y], z, i)], owners[y])
  <2>1. c \in Above(t, y)
    BY <1>4, <1>19 DEF Unturned
  <2>2. /\ new # NOTHING /\ z \in Above(t, new)
        /\ now[y][Place(u, y, z, i)] = Inherited(slots[new][Place(t, new, z, i)], owners[y])
    BY <2>1, <1>6, <1>19 DEF FixedCells
  <2>3. new \in Nums /\ c \notin Above(t, new)
    BY <2>2, <1>2
  <2>4. y \in Above(t, y) /\ z # y
    BY <1>1, <1>19, AboveUp
  <2>5. CASE y = c
    <3>1. Unturned(t, u, new) /\ now[new] = slots[new]
      BY <2>3, <1>4, <1>7
    <3>2. z \in Above(u, new) /\ Place(u, new, z, i) = Place(t, new, z, i)
      BY <3>1, <2>2 DEF Unturned, Place
    <3> QED
      BY <2>2, <2>3, <2>5, <3>1, <3>2, <1>2
  <2>6. CASE y # c
    <3>1. PICK p : p = u.up[y] /\ p = t.up[y]
      BY <2>6, <1>2
    <3>2. p # NOTHING /\ c \in Above(t, p)
      BY <2>1, <2>6, <3>1, <1>1, AboveUp
    <3>3. p \in Nums
      BY <3>1, <3>2, <1>1, ShapedUp
    <3>4. z \in Above(u, p)
      BY <2>4, <3>1, <1>19, AboveUp
    <3>5. z \notin Above(t, p)
      BY <3>1, <3>2, <1>1, <1>19, AboveUp
    <3>6. now[p][Place(u, p, z, i)] = Inherited(slots[new][Place(t, new, z, i)], owners[p])
      BY <3>2, <3>3, <3>4, <3>5, <1>6 DEF FixedCells
    <3>7. Inherited(now[p][Place(u, p, z, i)], owners[y]) = Inherited(slots[new][Place(t, new, z, i)], owners[y])
      BY <3>6, InheritedTwice
    <3> QED
      BY <2>2, <3>1, <3>3, <3>4, <3>7
  <2> QED
    BY <2>5, <2>6
<1>20. TurningCells(t, u, slots, now, owners)
  BY <1>18, <1>19 DEF TurningCells
<1> QED
  BY <1>17, <1>20

\* A slot that is inherited as another one is a copy of that one.
LEMMA TurnedKept ==
  ASSUME TableFacts, TableFacts', objects' = objects, NEW u, u = Here', family'.up = u.up,
         owner' = owner, Fits(objects, u, propval'),
         named'.slots = NamedSlots(u, objects, propval'),
         TurningCells(Here, u, propval, propval', owner)
  PROVE  Table!Kept(named'.slots)
<1>1. SUFFICES ASSUME NEW x \in objects, NEW n \in DOMAIN named'.slots[x]
               PROVE  IF n \in DOMAIN named.slots[x] /\ Table!Definitions[x][n] = Table!Definitions'[x][n]
                      THEN Table!Same(named'.slots[x][n], named.slots[x][n])
                      ELSE Table!Same(named'.slots[x][n],
                                      Table!ClearCopy(named'.slots[family'.up[x]][n], owner'[x]))
  BY DEF Table!Kept
<1>2. n \in DOMAIN NamedSlots(u, objects, propval')[x]
  BY <1>1
<1>3. PICK z \in Nums : \E i \in DOMAIN u.defs[z] :
        /\ Has(u, x, n, z, i)
        /\ NamedSlots(u, objects, propval')[x][n] = propval'[x][Place(u, x, z, i)]
  BY <1>2, NamedAt
<1>4. PICK i \in DOMAIN u.defs[z] :
        /\ Has(u, x, n, z, i)
        /\ NamedSlots(u, objects, propval')[x][n] = propval'[x][Place(u, x, z, i)]
  BY <1>3
<1>5. PICK t : t = Here
  OBVIOUS
<1>6. z \in Above(u, x) /\ u.defs[z][i] = n /\ x \in Nums /\ Shaped(objects, u) /\ Shaped(objects, t)
  BY <1>4, <1>5 DEF Has, TableFacts, Fits
<1>7. /\ i \in DOMAIN t.defs[z] /\ t.defs[z][i] = n
      /\ z \in Above(t, x) => propval'[x][Place(u, x, z, i)] = propval[x][Place(t, x, z, i)]
      /\ z \notin Above(t, x) =>
           /\ u.up[x] \in Nums /\ z \in Above(u, u.up[x])
           /\ propval'[x][Place(u, x, z, i)] = Inherited(propval'[u.up[x]][Place(u, u.up[x], z, i)], owner[x])
  BY <1>5, <1>6 DEF TurningCells
<1>8. Table!Definitions'[x][n] = {z}
  BY <1>4, <1>5 DEF TableFacts
<1>9. CASE z \in Above(t, x)
  <2>1. Has(t, x, n, z, i)
    BY <1>7, <1>9 DEF Has
  <2>2. /\ n \in DOMAIN named.slots[x] /\ Table!Definitions[x][n] = {z}
        /\ named.slots[x][n] = propval[x][Place(t, x, z, i)]
    BY <1>5, <2>1 DEF TableFacts
  <2>3. named'.slots[x][n] = named.slots[x][n]
    BY <2>2, <1>4, <1>7, <1>9
  <2>4. Table!Same(named'.slots[x][n], named.slots[x][n])
    BY <2>3 DEF Table!Same
  <2> QED
    BY <2>2, <2>4, <1>8
<1>10. CASE z \notin Above(t, x)
  <2>1. ~(n \in DOMAIN named.slots[x] /\ Table!Definitions[x][n] = {z})
    <3>1. SUFFICES ASSUME n \in DOMAIN named.slots[x] PROVE Table!Definitions[x][n] # {z}
      OBVIOUS
    <3>2. HasIt(t, x, n)
      BY <1>5, <3>1 DEF TableFacts
    <3>3. PICK w \in Nums : \E j \in DOMAIN t.defs[w] : Has(t, x, n, w, j)
      BY <3>2 DEF HasIt
    <3>4. PICK j \in DOMAIN t.defs[w] : Has(t, x, n, w, j)
      BY <3>3
    <3>5. Table!Definitions[x][n] = {w}
      BY <1>5, <3>4 DEF TableFacts
    <3>6. w # z
      BY <3>4, <1>10 DEF Has
    <3> QED
      BY <3>5, <3>6
  <2>2. PICK p : p = u.up[x]
    OBVIOUS
  <2>3. p \in Nums /\ p \in objects
    <3>1. u.up[x] \in objects \cup {NOTHING} /\ NOTHING \notin Nums
      BY <1>6, ShapedUp
    <3> QED
      BY <3>1, <2>2, <1>7, <1>10
  <2>4. Has(u, p, n, z, i)
    BY <2>2, <1>6, <1>7, <1>10 DEF Has
  <2>5. named'.slots[p][n] = propval'[p][Place(u, p, z, i)]
    BY <2>3, <2>4 DEF TableFacts
  <2>6. propval'[p][Place(u, p, z, i)] \in SlotRecords
    BY <2>3, <2>4, PlaceFits DEF Has
  <2>7. Table!ClearCopy(named'.slots[p][n], owner[x]) = Inherited(propval'[p][Place(u, p, z, i)], owner[x])
    BY <2>5, <2>6, InheritedIsClearCopy
  <2>8. named'.slots[x][n] = Inherited(propval'[p][Place(u, p, z, i)], owner[x])
    BY <2>2, <1>4, <1>7, <1>10
  <2>9. named'.slots[x][n] = Table!ClearCopy(named'.slots[family'.up[x]][n], owner'[x])
    BY <2>2, <2>7, <2>8
  <2>10. Table!Same(named'.slots[x][n], Table!ClearCopy(named'.slots[family'.up[x]][n], owner'[x]))
    BY <2>9 DEF Table!Same
  <2> QED
    BY <2>1, <2>10, <1>8
<1> QED
  BY <1>9, <1>10

\* The comparison of names finds those of the new ancestors that one below defines.
LEMMA CheckedNames ==
  ASSUME Hierarchy, Shaped(objects, Here), NEW what, NEW parent \in Nums \cup {NOTHING},
         \A y \in Nums \ objects : propdefs[y] = <<>>,
         dbpriv_check_properties_for_chparent(what, parent),
         NEW w \in Way(Here, parent), NEW z \in Nums, what \in Above(Here, z),
         NEW i \in DOMAIN propdefs[z], NEW j \in DOMAIN propdefs[w]
  PROVE  propdefs[z][i] # propdefs[w][j]
<1>1. z \in objects
  <2>1. DOMAIN <<>> = {}
    OBVIOUS
  <2> QED
    BY <2>1
<1>2. Here.up = family.up
  BY DEF Here, Shape
<1>3. /\ Line(Here, parent) = Line(family, parent) /\ Above(Here, z) = Above(family, z)
      /\ Line(Here, z) = Line(family, z)
  BY <1>2, SameLines
<1>4. ToSet(Line(family, z)) = Above(family, z)
  BY LineIsAbove DEF Hierarchy
<1>5. IsAtOrBelow(family, z, what)
  BY <1>3, <1>4 DEF IsAtOrBelow
<1>6. propdefs[z][i] \in ToSet(propdefs[z]) /\ propdefs[w][j] \in ToSet(propdefs[w])
  BY DEF ToSet
<1>7. w \in ToSet(Line(family, parent))
  BY <1>3 DEF Way
<1>8. ~property_defined_at_or_below(propdefs[w][j], what)
  BY <1>6, <1>7 DEF dbpriv_check_properties_for_chparent
<1> QED
  BY <1>1, <1>5, <1>6, <1>8 DEF property_defined_at_or_below

\* bf_chparent(): Reparent of the table
LEMMA ChangeParentReparents ==
  ASSUME Hierarchy, PropInv, Hierarchy', NamedAnew, NEW what \in Nums, NEW parent \in Nums \cup {NOTHING},
         ChangeParent(what, parent)
  PROVE  PropInv' /\ (Table!Reparent \/ UNCHANGED Table!vars)
<1>1. CASE Panics("loop") /\ VerbsStay /\ PropertiesStay
  <2>1. UNCHANGED <<objects, family, owner, propdefs, propval>>
    BY <1>1 DEF Panics, PropertiesStay, prop_vars
  <2> QED
    BY <2>1, TableStays
<1>2. CASE /\ dbpriv_check_properties_for_chparent(what, parent)
           /\ Chparent(what, parent)
           /\ Reparented(what, parent)
  <2>1. /\ objects' = objects /\ family' = Moved(family, what, parent)
        /\ owner' = owner /\ propdefs' = propdefs
        /\ what \in objects /\ parent \in objects \cup {NOTHING}
        /\ parent # NOTHING => what \notin Above(family, parent)
        /\ propval' = dbpriv_fix_properties_after_chparent(Shape(family', propdefs), propval, owner, what, family.up[what], parent)
    BY <1>2 DEF Chparent, Reparented
  <2>2. PICK t, u : t = Here /\ u = Here'
    OBVIOUS
  <2>3. /\ Fits(objects, t, propval) /\ t.up = family.up /\ t.defs = propdefs
        /\ owner \in [Nums -> Nums \cup {NOTHING}] /\ objects \in SUBSET Nums
        /\ Shaped(objects, t) /\ propdefs \in [Nums -> Seq(Names)]
        /\ \A y \in Nums \ objects : propdefs[y] = <<>>
    BY <2>2, HereIs DEF PropInv, Hierarchy, Fits, Shaped
  <2>4. Shaped(objects, u) /\ u = Shape(family', propdefs) /\ u.up = family'.up /\ u.defs = propdefs
    BY <2>1, <2>2, <2>3, ShapedThen, HereIs
  <2>5. \A z \in Nums : u.up[z] = IF z = what THEN parent ELSE t.up[z]
    <3>1. family \in Trees
      BY DEF Hierarchy, GoodTree
    <3>2. \A y \in Nums : Moved(family, what, parent).up[y] = IF y = what THEN parent ELSE family.up[y]
      BY <3>1, MovedLinks
    <3> QED
      BY <3>2, <2>1, <2>3, <2>4
  <2>6. Turning(objects, t, u, what, parent)
    <3>1. \A x : Above(t, x) = Above(family, x)
      BY <2>3, SameLines
    <3> QED
      BY <3>1, <2>1, <2>3, <2>4, <2>5 DEF Turning
  <2>7. propval' = dbpriv_fix_properties_after_chparent(u, propval, owner, what, t.up[what], parent)
    BY <2>1, <2>3, <2>4
  <2>8. \A w \in Way(t, parent), z \in Nums : what \in Above(t, z) =>
          \A i \in DOMAIN t.defs[z], j \in DOMAIN t.defs[w] : t.defs[z][i] # t.defs[w][j]
    <3>1. SUFFICES ASSUME NEW w \in Way(t, parent), NEW z \in Nums, what \in Above(t, z),
                          NEW i \in DOMAIN propdefs[z], NEW j \in DOMAIN propdefs[w]
                   PROVE  propdefs[z][i] # propdefs[w][j]
      BY <2>3
    <3>2. Shaped(objects, Here) /\ w \in Way(Here, parent) /\ what \in Above(Here, z)
      BY <2>2, <2>3, <3>1
    <3> QED
      BY <3>1, <3>2, <2>3, <1>2, CheckedNames
  <2>9. Fits(objects, u, propval') /\ TurningCells(t, u, propval, propval', owner)
    BY <2>3, <2>4, <2>6, <2>7, <2>8, TurningFits
  <2>10. PropInv' /\ named'.slots = NamedSlots(u, objects, propval')
    BY <2>1, <2>2, <2>3, <2>9, PropInvThen
  <2>11. TableFacts /\ TableFacts'
    BY <2>10, TableIs, TableIsThen
  <2>12. Table!Kept(named'.slots)
    <3>1. TurningCells(Here, u, propval, propval', owner) /\ family'.up = u.up
      BY <2>2, <2>4, <2>9
    <3> QED
      BY <3>1, <2>1, <2>2, <2>9, <2>10, <2>11, TurnedKept
  <2>13. OthersStay /\ NewInherit
    BY <2>1, <2>3 DEF OthersStay, NewInherit
  <2>14. Table!Reparent
    BY <2>12, <2>13, ReparentIs DEF KeptOrQuota
  <2> QED
    BY <2>10, <2>14
<1> QED
  BY <1>1, <1>2 DEF ChangeParent

-----------------------------------------------------------------------------
(* An object is recycled *)

\* In o the children of x have gone to its parent, and in u it is gone itself.
Recycled(O, t, o, u, x) ==
  /\ x \in O
  /\ Shaped(O, t) /\ Shaped(O, o) /\ Shaped(O \ {x}, u)
  /\ o.defs = t.defs
  /\ \A z \in Nums : u.defs[z] = IF z = x THEN <<>> ELSE t.defs[z]
  /\ \A z \in Nums : o.up[z] = IF t.up[z] = x THEN t.up[x] ELSE t.up[z]
  /\ \A z \in Nums : u.up[z] = IF z = x THEN NOTHING ELSE o.up[z]

\* What is below x is at or below a child of x.
LEMMA ChildAbove ==
  ASSUME NEW O, NEW t, Shaped(O, t), NEW x \in Nums, NEW y \in Nums, y # x, x \in Above(t, y)
  PROVE  \E c \in Nums : t.up[c] = x /\ c \in Above(t, y)
<1> DEFINE S == {z \in Nums : z # x /\ x \in Above(t, z) => \E c \in Nums : t.up[c] = x /\ c \in Above(t, z)}
<1>1. ASSUME NEW z \in Nums, t.up[z] \in S \cup {NOTHING} PROVE z \in S
  <2>1. SUFFICES ASSUME z # x, x \in Above(t, z) PROVE \E c \in Nums : t.up[c] = x /\ c \in Above(t, z)
    OBVIOUS
  <2>2. t.up[z] # NOTHING /\ x \in Above(t, t.up[z]) /\ z \in Above(t, z)
    BY <2>1, AboveUp
  <2>3. CASE t.up[z] = x
    BY <2>2, <2>3
  <2>4. CASE t.up[z] # x
    <3>1. PICK c \in Nums : t.up[c] = x /\ c \in Above(t, t.up[z])
      BY <1>1, <2>2, <2>4
    <3>2. c \in Above(t, z)
      BY <2>2, <3>1, AboveUp
    <3> QED
      BY <3>1, <3>2
  <2> QED
    BY <2>3, <2>4
<1> HIDE DEF S
<1>2. Nums \subseteq S
  BY <1>1, ShapedInduction
<1> QED
  BY <1>2 DEF S

\* What is above x is not linked to it.
LEMMA AboveUnlinked ==
  ASSUME NEW O, NEW t, Shaped(O, t), NEW x \in Nums, NEW z \in Above(t, x)
  PROVE  z \in Nums /\ t.up[z] # x
<1>1. z \in Nums
  BY AboveUp
<1>2. SUFFICES ASSUME t.up[z] = x PROVE FALSE
  BY <1>1
<1>3. x # NOTHING
  BY NothingIsNoNumber
<1>4. z \notin Above(t, t.up[z])
  BY <1>1, <1>2, <1>3, AboveOrder
<1> QED
  BY <1>2, <1>4

\* A child of x gets the parent of x.
LEMMA OrphanTurned ==
  ASSUME NEW O, NEW t, NEW o, NEW u, NEW x, Recycled(O, t, o, u, x), NEW y \in Nums, NEW c \in Nums,
         t.up[c] = x, c \in Above(t, y)
  PROVE  Turned(t, o, y, c, x, t.up[x])
<1>1. /\ Shaped(O, t) /\ x \in O /\ x \in Nums /\ o.defs = t.defs
      /\ \A z \in Nums : t.up[z] # x => o.up[z] = t.up[z]
      /\ o.up[c] = t.up[x]
  BY DEF Recycled, Shaped
<1>2. ASSUME NEW z \in Above(t, y), c \in Above(t, z), z # c PROVE o.up[z] = t.up[z]
  <2>1. z \in Nums
    BY <1>1, <1>2, AboveUp
  <2>2. t.up[z] # x
    <3>1. SUFFICES ASSUME t.up[z] = x PROVE FALSE
      OBVIOUS
    <3>2. c \in Above(t, x)
      BY <1>1, <1>2, <2>1, <3>1, AboveUp
    <3> QED
      BY <1>1, <3>2, AboveUnlinked
  <2> QED
    BY <1>1, <2>1, <2>2
<1>3. Path(t, o, y, c)
  BY <1>1, <1>2 DEF Path
<1>4. Way(t, x) = Above(t, x)
  BY <1>1, ShapedUp DEF Way
<1>5. Way(t, t.up[x]) \subseteq Above(t, x)
  <2>1. CASE t.up[x] = NOTHING
    <3>1. Line(t, NOTHING) = <<>>
      BY <1>1, ShapedUp
    <3>2. Way(t, t.up[x]) = {}
      BY <2>1, <3>1 DEF Way, ToSet
    <3> QED
      BY <3>2
  <2>2. CASE t.up[x] # NOTHING
    <3>1. t.up[x] \in Nums /\ t.up[x] \in Nums \cup {NOTHING}
      BY <1>1, <2>2, ShapedUp
    <3>2. Way(t, t.up[x]) = Above(t, t.up[x])
      BY <1>1, <3>1, ShapedUp DEF Way
    <3>3. \A a : a \in Above(t, t.up[x]) => a \in Above(t, x)
      BY <1>1, <2>2, AboveUp
    <3> QED
      BY <3>2, <3>3
  <2> QED
    BY <2>1, <2>2
<1>6. \A z \in Above(t, x) : o.up[z] = t.up[z]
  BY <1>1, AboveUnlinked
<1>7. \A z \in Way(t, x) \cup Way(t, t.up[x]) : o.up[z] = t.up[z] /\ o.defs[z] = t.defs[z]
  BY <1>1, <1>4, <1>5, <1>6
<1> QED
  BY <1>1, <1>3, <1>7 DEF Turned

\* The ways up of what is left
LEMMA RecycledWays ==
  ASSUME NEW O, NEW t, NEW o, NEW u, NEW x, Recycled(O, t, o, u, x), NEW y \in Nums, y # x
  PROVE  /\ x \notin Above(u, y)
         /\ Above(u, y) \subseteq Above(t, y)
         /\ Above(o, y) = Above(u, y)
         /\ dbpriv_count_properties(o, y) = dbpriv_count_properties(u, y)
         /\ \A z \in Above(u, y) : Before(o, y, z) = Before(u, y, z)
         /\ x \notin Above(t, y) =>
              /\ Above(u, y) = Above(t, y)
              /\ dbpriv_count_properties(u, y) = dbpriv_count_properties(t, y)
              /\ \A z \in Above(t, y) : Before(u, y, z) = Before(t, y, z)
<1>1. /\ Shaped(O, t) /\ Shaped(O, o) /\ Shaped(O \ {x}, u) /\ x \in O /\ x \in Nums /\ o.defs = t.defs
      /\ \A z \in Nums : z # x => u.defs[z] = t.defs[z] /\ u.up[z] = o.up[z]
      /\ \A z \in Nums : t.up[z] # x => o.up[z] = t.up[z]
      /\ u.up[x] = NOTHING
      /\ \A z \in Nums : u.up[z] # x
  <2>1. /\ Shaped(O, t) /\ Shaped(O, o) /\ Shaped(O \ {x}, u) /\ x \in O /\ x \in Nums /\ o.defs = t.defs
        /\ \A z \in Nums : z # x => u.defs[z] = t.defs[z] /\ u.up[z] = o.up[z]
        /\ \A z \in Nums : t.up[z] # x => o.up[z] = t.up[z]
        /\ u.up[x] = NOTHING
    BY DEF Recycled, Shaped
  <2>2. \A z \in Nums : z \in O \ {x} \/ z \notin O \ {x}
    OBVIOUS
  <2>3. \A z \in Nums : u.up[z] \in (O \ {x}) \cup {NOTHING}
    BY <2>1, <2>2, ShapedUp
  <2>4. x # NOTHING
    BY <2>1, NothingIsNoNumber
  <2> QED
    BY <2>1, <2>3, <2>4
<1>2. x \notin Above(u, y)
  <2>1. SUFFICES ASSUME x \in Above(u, y) PROVE FALSE
    OBVIOUS
  <2>2. PICK c \in Nums : u.up[c] = x /\ c \in Above(u, y)
    BY <1>1, <2>1, ChildAbove
  <2> QED
    BY <1>1, <2>2
<1>3. \A z \in Above(u, y) : z \in Nums /\ z # x
  BY <1>1, <1>2, AboveUp
<1>4. /\ Above(o, y) = Above(u, y)
      /\ dbpriv_count_properties(o, y) = dbpriv_count_properties(u, y)
      /\ \A z \in Above(u, y) : Before(o, y, z) = Before(u, y, z)
  <2>1. \A z \in Above(u, y) : o.up[z] = u.up[z] /\ o.defs[z] = u.defs[z]
    BY <1>1, <1>3
  <2> QED
    BY <1>1, <2>1, SameWay
<1>5. ASSUME x \notin Above(t, y)
      PROVE  /\ Above(u, y) = Above(t, y)
             /\ dbpriv_count_properties(u, y) = dbpriv_count_properties(t, y)
             /\ \A z \in Above(t, y) : Before(u, y, z) = Before(t, y, z)
  <2>1. ASSUME NEW z \in Above(t, y) PROVE u.up[z] = t.up[z] /\ u.defs[z] = t.defs[z]
    <3>1. z \in Nums /\ z # x
      BY <1>1, <1>5, <2>1, AboveUp
    <3>2. t.up[z] # x
      <4>1. SUFFICES ASSUME t.up[z] = x PROVE FALSE
        OBVIOUS
      <4>2. x \in Above(t, z)
        <5>1. x \in Above(t, x) /\ x # NOTHING
          BY <1>1, AboveUp, NothingIsNoNumber
        <5> QED
          BY <1>1, <3>1, <4>1, <5>1, AboveUp
      <4>3. x \in Above(t, y)
        BY <1>1, <2>1, <4>2, AboveOrder
      <4> QED
        BY <4>3, <1>5
    <3> QED
      BY <1>1, <3>1, <3>2
  <2> QED
    BY <1>1, <2>1, SameWay
<1>6. Above(u, y) \subseteq Above(t, y)
  <2>1. CASE x \notin Above(t, y)
    BY <1>5, <2>1
  <2>2. CASE x \in Above(t, y)
    <3>1. PICK c \in Nums : t.up[c] = x /\ c \in Above(t, y)
      BY <1>1, <2>2, ChildAbove
    <3>2. Turned(t, o, y, c, x, t.up[x])
      BY <3>1, OrphanTurned
    <3>3. t.up[x] \in Nums \cup {NOTHING} /\ x \in Nums \cup {NOTHING}
      BY <1>1, ShapedUp
    <3>4. \A z \in Above(o, y) : z \in Above(t, y) \/ z \in Way(t, t.up[x])
      BY <1>1, <3>1, <3>2, <3>3, TurnedAbove
    <3>5. ASSUME NEW z \in Way(t, t.up[x]) PROVE z \in Above(t, y)
      <4>1. t.up[x] # NOTHING
        <5>1. SUFFICES ASSUME t.up[x] = NOTHING PROVE FALSE
          OBVIOUS
        <5>2. Line(t, NOTHING) = <<>>
          BY <1>1, ShapedUp
        <5>3. Way(t, t.up[x]) = {}
          BY <5>1, <5>2 DEF Way, ToSet
        <5> QED
          BY <5>3, <3>5
      <4>2. t.up[x] \in Nums
        BY <3>3, <4>1
      <4>3. z \in Above(t, t.up[x])
        BY <1>1, <4>2, <3>5, ShapedUp DEF Way
      <4>4. z \in Above(t, x)
        BY <1>1, <4>1, <4>3, AboveUp
      <4> QED
        BY <1>1, <2>2, <4>4, AboveOrder
    <3> QED
      BY <3>4, <3>5, <1>4
  <2> QED
    BY <2>1, <2>2
<1> QED
  BY <1>2, <1>4, <1>5, <1>6

\* The arrays after those below a child of x are fixed
Orphaned(t, o, x, slots, owners, now) ==
  /\ now = [y \in Nums |-> now[y]]
  /\ \A y \in Nums :
       IF \E c \in Nums : t.up[c] = x /\ c \in Above(t, y)
       THEN \E c \in Nums :
              /\ t.up[c] = x /\ c \in Above(t, y)
              /\ now[y] = dbpriv_fix_properties_after_chparent(o, slots, owners, c, x, t.up[x])[y]
       ELSE now[y] = slots[y]

\* What y has in the shape u, it has in t, and the slots are the same.
Unchanged(t, u, slots, now, y) ==
  \A z \in Above(u, y) : \A i \in DOMAIN u.defs[z] :
    /\ z \in Above(t, y) /\ i \in DOMAIN t.defs[z] /\ u.defs[z][i] = t.defs[z][i]
    /\ now[y][Place(u, y, z, i)] = slots[y][Place(t, y, z, i)]

\* Only slots for what x defined are gone.
LEMMA OrphanedCells ==
  ASSUME NEW O, NEW t, NEW o, NEW u, NEW x, Recycled(O, t, o, u, x), NEW slots, Fits(O, t, slots),
         NEW owners \in [Nums -> Nums \cup {NOTHING}], NEW now, Orphaned(t, o, x, slots, owners, now),
         NEW y \in Nums, y # x
  PROVE  /\ now[y] \in Seq(SlotRecords)
         /\ Len(now[y]) = dbpriv_count_properties(u, y)
         /\ Unchanged(t, u, slots, now, y)
<1>1. /\ Shaped(O, t) /\ Shaped(O, o) /\ Shaped(O \ {x}, u) /\ x \in O /\ x \in Nums /\ o.defs = t.defs
      /\ \A z \in Nums : z # x => u.defs[z] = t.defs[z]
  BY DEF Recycled, Shaped
<1>2. /\ x \notin Above(u, y) /\ Above(u, y) \subseteq Above(t, y) /\ Above(o, y) = Above(u, y)
      /\ dbpriv_count_properties(o, y) = dbpriv_count_properties(u, y)
      /\ \A z \in Above(u, y) : Before(o, y, z) = Before(u, y, z)
      /\ x \notin Above(t, y) =>
              /\ Above(u, y) = Above(t, y)
              /\ dbpriv_count_properties(u, y) = dbpriv_count_properties(t, y)
              /\ \A z \in Above(t, y) : Before(u, y, z) = Before(t, y, z)
  BY RecycledWays
<1>3. \A z \in Above(u, y) : z \in Nums /\ u.defs[z] = t.defs[z]
  <2>1. \A z \in Above(u, y) : z \in Nums /\ z # x
    BY <1>1, <1>2, AboveUp
  <2> QED
    BY <1>1, <2>1
<1>4. /\ slots \in [Nums -> Seq(SlotRecords)]
      /\ \A w \in Nums : Len(slots[w]) = dbpriv_count_properties(t, w)
  BY DEF Fits
<1>5. CASE x \notin Above(t, y)
  <2>1. \A c \in Nums : t.up[c] = x => c \notin Above(t, y)
    <3>1. SUFFICES ASSUME NEW c \in Nums, t.up[c] = x, c \in Above(t, y) PROVE FALSE
      OBVIOUS
    <3>2. x \in Above(t, x) /\ x # NOTHING
      BY <1>1, AboveUp, NothingIsNoNumber
    <3>3. x \in Above(t, c)
      BY <1>1, <3>1, <3>2, AboveUp
    <3>4. x \in Above(t, y)
      BY <1>1, <3>1, <3>3, AboveOrder
    <3> QED
      BY <3>4, <1>5
  <2>2. now[y] = slots[y]
    BY <2>1 DEF Orphaned
  <2>3. Unchanged(t, u, slots, now, y)
    BY <1>2, <1>3, <1>5, <2>2 DEF Unchanged, Place
  <2> QED
    BY <1>2, <1>4, <1>5, <2>2, <2>3
<1>6. CASE x \in Above(t, y)
  <2>1. \E c \in Nums : t.up[c] = x /\ c \in Above(t, y)
    BY <1>1, <1>6, ChildAbove
  <2>2. PICK c \in Nums :
          /\ t.up[c] = x /\ c \in Above(t, y)
          /\ now[y] = dbpriv_fix_properties_after_chparent(o, slots, owners, c, x, t.up[x])[y]
    BY <2>1 DEF Orphaned
  <2>3. Turned(t, o, y, c, x, t.up[x])
    BY <2>2, OrphanTurned
  <2>4. t.up[x] \in Nums \cup {NOTHING} /\ (t.up[x] # NOTHING => t.up[x] \in Nums)
    BY <1>1, ShapedUp
  <2>5. Fixable(O, t, O, o, y, c, x, t.up[x], slots, owners)
    BY <1>1, <1>4, <2>3, <2>4 DEF Fixable
  <2>6. PICK r : Fixed(t, o, y, c, x, t.up[x], slots, owners, r)
    BY <2>5, FixedArray
  <2>7. r = now[y] /\ r \in Seq(SlotRecords) /\ Len(r) = dbpriv_count_properties(o, y)
    BY <2>2, <2>6 DEF Fixed
  <2>8. FixedCells(t, o, slots, r, owners[y], y, t.up[x])
    BY <2>6 DEF Fixed
  <2>9. ASSUME NEW z \in Above(u, y), NEW i \in DOMAIN u.defs[z]
        PROVE  /\ z \in Above(t, y) /\ i \in DOMAIN t.defs[z] /\ u.defs[z][i] = t.defs[z][i]
               /\ r[Place(u, y, z, i)] = slots[y][Place(t, y, z, i)]
    <3>1. z \in Above(t, y) /\ i \in DOMAIN t.defs[z] /\ u.defs[z][i] = t.defs[z][i]
      BY <1>2, <1>3, <2>9
    <3>2. z \in Above(o, y) /\ i \in DOMAIN o.defs[z]
      BY <1>1, <1>2, <3>1
    <3>3. r[Place(o, y, z, i)] = slots[y][Place(t, y, z, i)]
      BY <2>8, <3>1, <3>2 DEF FixedCells
    <3>4. Place(o, y, z, i) = Place(u, y, z, i)
      BY <1>2 DEF Place
    <3> QED
      BY <3>1, <3>3, <3>4
  <2>10. Unchanged(t, u, slots, now, y)
    BY <2>7, <2>9 DEF Unchanged
  <2> QED
    BY <1>2, <2>7, <2>10
<1> QED
  BY <1>5, <1>6

\* So it is with all but x.
Remaining(t, u, x, slots, now) ==
  /\ now = [y \in Nums |-> now[y]]
  /\ \A y \in Nums : y # x =>
       /\ now[y] \in Seq(SlotRecords)
       /\ Len(now[y]) = dbpriv_count_properties(u, y)
       /\ Unchanged(t, u, slots, now, y)

\* The arrays of what is left fit.
LEMMA RecycledFits ==
  ASSUME NEW O, NEW t, NEW o, NEW u, NEW x, Recycled(O, t, o, u, x), NEW slots, Fits(O, t, slots),
         NEW now, Remaining(t, u, x, slots, now), now[x] = <<>>
  PROVE  Fits(O \ {x}, u, now)
<1>0. /\ now = [y \in Nums |-> now[y]]
      /\ \A y \in Nums : y # x =>
           /\ now[y] \in Seq(SlotRecords)
           /\ Len(now[y]) = dbpriv_count_properties(u, y)
           /\ Unchanged(t, u, slots, now, y)
  BY DEF Remaining
<1>1. /\ Shaped(O, t) /\ Shaped(O \ {x}, u) /\ x \in O /\ x \in Nums
      /\ \A z \in Nums : z # x => u.defs[z] = t.defs[z]
      /\ u.defs[x] = <<>> /\ u.up[x] = NOTHING
  BY DEF Recycled, Shaped
<1>2. /\ Distinct(t) /\ OwnValues(t, slots)
      /\ \A y \in Nums \ O : t.defs[y] = <<>>
  BY DEF Fits
<1>3. now \in [Nums -> Seq(SlotRecords)]
  <2>0. <<>> \in Seq(SlotRecords)
    OBVIOUS
  <2>1. \A y \in Nums : now[y] \in Seq(SlotRecords)
    BY <2>0, <1>0
  <2> QED
    BY <2>1, <1>0
<1>4. \A y \in Nums : Len(now[y]) = dbpriv_count_properties(u, y)
  <2>1. dbpriv_count_properties(u, x) = 0
    <3>1. dbpriv_count_properties(u, NOTHING) = 0 /\ Len(u.defs[x]) = 0
      BY <1>1, CountUp
    <3>2. dbpriv_count_properties(u, x) = Len(u.defs[x]) + dbpriv_count_properties(u, NOTHING)
      BY <1>1, CountUp
    <3> QED
      BY <3>1, <3>2
  <2>2. \A y \in Nums : y # x => Len(now[y]) = dbpriv_count_properties(u, y)
    BY <1>0
  <2>3. Len(<<>>) = 0
    OBVIOUS
  <2>4. Len(now[x]) = dbpriv_count_properties(u, x)
    BY <2>1, <2>3
  <2> QED
    BY <2>2, <2>4
<1>5. \A y \in Nums \ (O \ {x}) : u.defs[y] = <<>>
  BY <1>1, <1>2
<1>6. DOMAIN <<>> = {}
  OBVIOUS
<1>7. Distinct(u)
  <2>1. SUFFICES ASSUME NEW y \in Nums, NEW z \in Above(u, y), NEW w \in Above(u, y),
                        NEW i \in DOMAIN u.defs[z], NEW j \in DOMAIN u.defs[w], u.defs[z][i] = u.defs[w][j]
                 PROVE  z = w /\ i = j
    BY DEF Distinct
  <2>2. CASE y = x
    <3>1. z = x
      BY <1>1, <2>2, AboveUp
    <3> QED
      BY <3>1, <1>1, <1>6
  <2>3. CASE y # x
    <3>1. Unchanged(t, u, slots, now, y)
      BY <2>3, <1>0
    <3>2. z \in Above(t, y) /\ i \in DOMAIN t.defs[z] /\ u.defs[z][i] = t.defs[z][i]
      BY <3>1 DEF Unchanged
    <3>3. w \in Above(t, y) /\ j \in DOMAIN t.defs[w] /\ u.defs[w][j] = t.defs[w][j]
      BY <3>1 DEF Unchanged
    <3>4. t.defs[z][i] = t.defs[w][j]
      BY <2>1, <3>2, <3>3
    <3> QED
      BY <3>2, <3>3, <3>4, <1>2 DEF Distinct
  <2> QED
    BY <2>2, <2>3
<1>8. OwnValues(u, now)
  <2>1. SUFFICES ASSUME NEW z \in Nums, NEW i \in DOMAIN u.defs[z] PROVE now[z][i].value # CLEAR
    BY DEF OwnValues
  <2>2. z # x
    BY <1>1, <1>6
  <2>3. z \in Above(u, z) /\ Before(u, z, z) = 0 /\ Before(t, z, z) = 0
    BY <1>1, AboveUp, BeforeUp
  <2>4. i \in Nat
    <3>1. u.defs[z] \in Seq(Names)
      BY <1>1, ShapedUp
    <3> QED
      BY <2>1, <3>1
  <2>5. Place(u, z, z, i) = i /\ Place(t, z, z, i) = i
    BY <2>3, <2>4 DEF Place
  <2>6. Unchanged(t, u, slots, now, z)
    BY <2>2, <1>0
  <2>7. now[z][i] = slots[z][i] /\ i \in DOMAIN t.defs[z]
    BY <2>3, <2>5, <2>6 DEF Unchanged
  <2> QED
    BY <2>7, <1>2 DEF OwnValues
<1> QED
  BY <1>1, <1>3, <1>4, <1>5, <1>7, <1>8 DEF Fits

\* The quota is given back before x is cleared: the owner's is found as it is afterwards.
LEMMA QuotaLeft ==
  ASSUME NEW O, NEW t, NEW o, NEW u, NEW x, Recycled(O, t, o, u, x), NEW slots, Fits(O, t, slots),
         NEW now, Remaining(t, u, x, slots, now),
         NEW v, Shaped(O, v), v.up = u.up, v.defs = t.defs,
         NEW q \in Nums, q # x, NEW name, db_find_property(v, q, name) # NoSlot
  PROVE  \E z \in Nums : \E i \in DOMAIN u.defs[z] :
           /\ Has(u, q, name, z, i)
           /\ db_find_property(v, q, name).n = Place(u, q, z, i)
           /\ property_value(v, now, q, name) \in Int
<1>1. /\ Shaped(O, t) /\ Shaped(O \ {x}, u) /\ x \in O /\ x \in Nums
      /\ \A z \in Nums : z # x => u.defs[z] = t.defs[z]
      /\ u.up[x] = NOTHING
  BY DEF Recycled, Shaped
<1>2. /\ Distinct(t) /\ OwnValues(t, slots)
      /\ \A y \in Nums \ O : t.defs[y] = <<>>
      /\ slots \in [Nums -> Seq(SlotRecords)]
      /\ \A y \in Nums : Len(slots[y]) = dbpriv_count_properties(t, y)
  BY DEF Fits
<1>3. /\ now = [y \in Nums |-> now[y]]
      /\ \A y \in Nums : y # x =>
           /\ now[y] \in Seq(SlotRecords)
           /\ Len(now[y]) = dbpriv_count_properties(u, y)
           /\ Unchanged(t, u, slots, now, y)
  BY DEF Remaining
<1>4. ASSUME NEW y \in Nums, y # x
      PROVE  /\ Above(v, y) = Above(u, y)
             /\ dbpriv_count_properties(v, y) = dbpriv_count_properties(u, y)
             /\ \A z \in Above(u, y) : Before(v, y, z) = Before(u, y, z)
             /\ \A z \in Above(u, y) : z \in Nums /\ z # x /\ z \in Above(t, y)
  <2>1. x \notin Above(u, y) /\ Above(u, y) \subseteq Above(t, y)
    BY <1>4, RecycledWays
  <2>2. \A z \in Above(u, y) : z \in Nums /\ z # x
    BY <1>1, <2>1, AboveUp
  <2>3. \A z \in Above(u, y) : v.up[z] = u.up[z] /\ v.defs[z] = u.defs[z]
    BY <1>1, <2>2
  <2> QED
    BY <1>1, <2>1, <2>2, <2>3, SameWay
<1>5. \A z \in Above(v, x) : z = x
  BY <1>1, AboveUp
<1>6. Distinct(v)
  <2>1. SUFFICES ASSUME NEW y \in Nums, NEW z \in Above(v, y), NEW w \in Above(v, y),
                        NEW i \in DOMAIN t.defs[z], NEW j \in DOMAIN t.defs[w], t.defs[z][i] = t.defs[w][j]
                 PROVE  z = w /\ i = j
    BY DEF Distinct
  <2>2. z \in Above(t, y) /\ w \in Above(t, y)
    <3>1. x \in Above(t, x)
      BY <1>1, AboveUp
    <3> QED
      BY <3>1, <1>4, <1>5
  <2> QED
    BY <2>1, <2>2, <1>2 DEF Distinct
<1>7. PICK m \in Nat : m = Len(t.defs[x])
  BY <1>1, ShapedUp
<1>8. PICK own : own = SubSeq(slots[x], 1, m)
  OBVIOUS
<1>9. /\ own \in Seq(SlotRecords) /\ Len(own) = m
      /\ \A i \in DOMAIN t.defs[x] : own[i] = slots[x][i]
  <2>1. dbpriv_count_properties(t, x) = m + dbpriv_count_properties(t, t.up[x])
    BY <1>1, <1>7, CountUp
  <2>2. dbpriv_count_properties(t, t.up[x]) \in Nat
    BY <1>1, CountUp, ShapedUp
  <2>3. slots[x] \in Seq(SlotRecords) /\ m <= Len(slots[x])
    BY <1>1, <1>2, <2>1, <2>2
  <2>4. DOMAIN t.defs[x] = 1..m
    <3>1. t.defs[x] \in Seq(Names)
      BY <1>1, ShapedUp
    <3> QED
      BY <3>1, <1>7
  <2>5. own \in Seq(SlotRecords) /\ Len(own) = m
    BY <2>3, <1>8
  <2>6. \A i \in 1..m : own[i] = slots[x][i]
    BY <2>3, <1>8
  <2> QED
    BY <2>4, <2>5, <2>6
<1>10. PICK full : full = [y \in Nums |-> IF y = x THEN own ELSE now[y]]
  OBVIOUS
<1>11. Fits(O, v, full)
  <2>1. full \in [Nums -> Seq(SlotRecords)]
    BY <1>3, <1>9, <1>10
  <2>2. dbpriv_count_properties(v, x) = m
    <3>1. v.up[x] = NOTHING /\ v.defs[x] = t.defs[x] /\ dbpriv_count_properties(v, NOTHING) = 0
      BY <1>1, CountUp
    <3>2. dbpriv_count_properties(v, x) = Len(v.defs[x]) + dbpriv_count_properties(v, v.up[x])
      BY <1>1, CountUp
    <3> QED
      BY <3>1, <3>2, <1>7
  <2>3. \A y \in Nums : Len(full[y]) = dbpriv_count_properties(v, y)
    BY <2>2, <1>3, <1>4, <1>9, <1>10
  <2>4. ASSUME NEW z \in Nums, NEW i \in DOMAIN v.defs[z] PROVE full[z][i].value # CLEAR
    <3>1. i \in DOMAIN t.defs[z] /\ i \in Nat
      <4>1. v.defs[z] \in Seq(Names)
        BY ShapedUp
      <4> QED
        BY <4>1, <2>4
    <3>2. CASE z = x
      BY <3>1, <3>2, <1>1, <1>2, <1>9, <1>10 DEF OwnValues
    <3>3. CASE z # x
      <4>1. z \in Above(u, z) /\ Before(u, z, z) = 0 /\ Before(t, z, z) = 0
        BY <1>1, AboveUp, BeforeUp
      <4>2. Place(u, z, z, i) = i /\ Place(t, z, z, i) = i
        BY <3>1, <4>1 DEF Place
      <4>3. i \in DOMAIN u.defs[z]
        BY <1>1, <3>1, <3>3
      <4>4. Unchanged(t, u, slots, now, z)
        BY <3>3, <1>3
      <4>5. now[z][i] = slots[z][i]
        BY <4>1, <4>2, <4>3, <4>4 DEF Unchanged
      <4> QED
        BY <3>1, <3>3, <4>5, <1>2, <1>10 DEF OwnValues
    <3> QED
      BY <3>2, <3>3
  <2> QED
    BY <2>1, <2>3, <2>4, <1>2, <1>6 DEF Fits, OwnValues
<1>12. HasIt(v, q, name)
  BY FoundHas
<1>13. PICK z \in Nums : \E i \in DOMAIN v.defs[z] : Has(v, q, name, z, i)
  BY <1>12 DEF HasIt
<1>14. PICK i \in DOMAIN v.defs[z] : Has(v, q, name, z, i)
  BY <1>13
<1>15. z \in Above(u, q) /\ z # x /\ z \in Nums
  BY <1>4, <1>14 DEF Has
<1>16. i \in DOMAIN u.defs[z] /\ Has(u, q, name, z, i)
  BY <1>1, <1>14, <1>15 DEF Has
<1>17. db_find_property(v, q, name).n = Place(u, q, z, i)
  <2>1. db_find_property(v, q, name).n = Place(v, q, z, i)
    BY <1>6, <1>14, FoundIs
  <2> QED
    BY <2>1, <1>4, <1>15 DEF Place
<1>18. property_value(v, now, q, name) = property_value(v, full, q, name)
  <2>1. PICK n : n = db_find_property(v, q, name).n
    OBVIOUS
  <2>2. Meets(v, Definers(v, name), q)
    BY <1>12, HasMeets
  <2>3. OwnValues(v, full)
    BY <1>11 DEF Fits
  <2>4. PICK k : FirstSlot(v, full, q, n, k)
    BY <2>1, <2>2, <2>3, FirstSlotExists
  <2>5. Line(v, q) \in Seq(Nums) /\ ToSet(Line(v, q)) = Above(v, q)
    BY ShapedUp
  <2>6. \A j \in DOMAIN Line(v, q) : full[Line(v, q)[j]] = now[Line(v, q)[j]]
    <3>1. \A j \in DOMAIN Line(v, q) : Line(v, q)[j] \in Above(v, q)
      BY <2>5 DEF ToSet
    <3>2. \A w \in Above(v, q) : w \in Nums /\ w # x
      BY <1>4
    <3> QED
      BY <3>1, <3>2, <1>10
  <2>7. \A j \in DOMAIN Line(v, q) : SlotAt(v, full, q, n, j) = SlotAt(v, now, q, n, j)
    BY <2>6 DEF SlotAt
  <2>8. k \in DOMAIN Line(v, q) /\ \A j \in 1..(k - 1) : j \in DOMAIN Line(v, q)
    <3>1. k \in DOMAIN Line(v, q)
      BY <2>4 DEF FirstSlot
    <3> QED
      BY <3>1, <2>5
  <2>9. FirstSlot(v, now, q, n, k)
    BY <2>4, <2>7, <2>8 DEF FirstSlot
  <2>10. property_value(v, now, q, name) = SlotAt(v, now, q, n, k).value
    BY <2>1, <2>5, <2>9, ValueIs, ZenonT(40)
  <2>11. property_value(v, full, q, name) = SlotAt(v, full, q, n, k).value
    BY <2>1, <2>4, <2>5, ValueIs, ZenonT(40)
  <2> QED
    BY <2>7, <2>8, <2>10, <2>11
<1>19. property_value(v, now, q, name) \in Int
  BY <1>11, <1>12, <1>18, ValueIsInt
<1> QED
  BY <1>16, <1>17, <1>19, <1>15

\* The shape when the children have gone to their new parent, and when x is unlinked too
Orphans(x) == Shape(Bequeathed(family, x), propdefs)
Cut(x) == Shape(Moved(Bequeathed(family, x), x, NOTHING), propdefs)

\* What recycle() does to the shape
LEMMA RecycledIs ==
  ASSUME Hierarchy, ObjectInv, Hierarchy', Shaped(objects, Here), NEW i, NEW x, x = calls[i].what,
         RecycleDestroys(i), propdefs' = [propdefs EXCEPT ![x] = <<>>]
  PROVE  /\ x \in objects /\ objects' = objects \ {x}
         /\ Shape(family', propdefs) = Cut(x)
         /\ Shaped(objects, Cut(x)) /\ Cut(x).up = Here'.up /\ Cut(x).defs = Here.defs
         /\ Recycled(objects, Here, Orphans(x), Here', x)
<1> DEFINE empty == Emptied(place, x)
           alone == Moved(empty, x, NOTHING)
           heirs == Bequeathed(family, x)
           orphan == Moved(heirs, x, NOTHING)
<1>1. x \in objects /\ objects \in SUBSET Nums /\ x \in Nums
  BY DEF RecycleDestroys, Returns, Hierarchy
<1>2. GoodTree(objects, family) /\ GoodTree(objects, place)
  BY DEF ObjectInv
<1>3. GoodTree(objects, empty) /\ empty.down[x] = {}
  BY <1>1, <1>2, EmptiedGood
<1>4. GoodTree(objects, heirs) /\ heirs.down[x] = {}
  BY <1>1, <1>2, BequeathedGood
<1>5. GoodTree(objects, alone) /\ IsBarren(alone, x)
  <2> HIDE DEF empty
  <2> QED
    BY <1>1, <1>3, BarrenGood
<1>6. GoodTree(objects, orphan) /\ IsBarren(orphan, x)
  <2> HIDE DEF heirs
  <2> QED
    BY <1>1, <1>4, BarrenGood
<1>7. objects' = objects \ {x} /\ family' = orphan
  BY <1>5, <1>6 DEF RecycleDestroys
<1>8. /\ Here.up = family.up /\ Here.defs = propdefs
      /\ Here' = Shape(family', propdefs') /\ propdefs \in [Nums -> Seq(Names)]
  BY HereIs DEF Shaped
<1>9. /\ Orphans(x).up = heirs.up /\ Orphans(x).defs = propdefs
      /\ Cut(x).up = orphan.up /\ Cut(x).defs = propdefs
      /\ Here'.up = family'.up /\ Here'.defs = propdefs'
  BY <1>8 DEF Orphans, Cut, Shape
<1>10. Shaped(objects, Orphans(x))
  <2> HIDE DEF heirs
  <2> QED
    BY <1>1, <1>4, <1>8, <1>9 DEF Shaped
<1>11. Shaped(objects, Cut(x))
  <2> HIDE DEF orphan
  <2> QED
    BY <1>1, <1>6, <1>8, <1>9 DEF Shaped
<1>12. Shaped(objects', Here')
  <2>1. <<>> \in Seq(Names)
    OBVIOUS
  <2>2. propdefs' \in [Nums -> Seq(Names)]
    BY <2>1, <1>8
  <2> QED
    BY <2>2, ShapedThen
<1>13. \A z \in Nums : heirs.up[z] = IF family.up[z] = x THEN family.up[x] ELSE family.up[z]
  <2>1. \A z \in Nums : z \in family.down[x] <=> family.up[z] = x
    <3>1. \A z : z \in family.down[x] <=> z \in objects /\ family.up[z] = x
      BY <1>1, <1>2, DownOf, SMTT(40)
    <3>2. \A z \in Nums \ objects : family.up[z] = NOTHING
      BY <1>1, <1>2, LinksOf
    <3> QED
      BY <3>1, <3>2, <1>1, NothingIsNoNumber
  <2> QED
    BY <2>1 DEF Bequeathed
<1>14. \A z \in Nums : orphan.up[z] = IF z = x THEN NOTHING ELSE heirs.up[z]
  <2>1. heirs \in Trees
    BY <1>4 DEF GoodTree
  <2> HIDE DEF heirs
  <2> QED
    BY <2>1, <1>1, MovedLinks
<1>15. \A z \in Nums : propdefs'[z] = IF z = x THEN <<>> ELSE propdefs[z]
  BY <1>8
<1>16. Recycled(objects, Here, Orphans(x), Here', x)
  <2> HIDE DEF orphan, heirs
  <2>1. Shaped(objects \ {x}, Here')
    BY <1>7, <1>12
  <2>2. \A z \in Nums : Here'.defs[z] = IF z = x THEN <<>> ELSE Here.defs[z]
    BY <1>8, <1>9, <1>15
  <2>3. \A z \in Nums : Orphans(x).up[z] = IF Here.up[z] = x THEN Here.up[x] ELSE Here.up[z]
    BY <1>8, <1>9, <1>13
  <2>4. \A z \in Nums : Here'.up[z] = IF z = x THEN NOTHING ELSE Orphans(x).up[z]
    BY <1>7, <1>9, <1>14
  <2> QED
    BY <2>1, <2>2, <2>3, <2>4, <1>1, <1>8, <1>9, <1>10 DEF Recycled
<1>17. Shape(family', propdefs) = Cut(x)
  BY <1>7 DEF Cut
<1>18. Cut(x).up = Here'.up
  <2> HIDE DEF orphan
  <2> QED
    BY <1>7, <1>9
<1> QED
  BY <1>1, <1>7, <1>8, <1>9, <1>11, <1>16, <1>17, <1>18

\* The arrays of those below its children
OrphanSlots(x) ==
  [y \in Nums |->
     IF \E c \in family.down[x] : IsAtOrBelow(family, y, c)
     THEN dbpriv_fix_properties_after_chparent(Orphans(x), propval, owner,
            CHOOSE c \in family.down[x] : IsAtOrBelow(family, y, c), x, family.up[x])[y]
     ELSE propval[y]]

\* are those of Orphaned.
LEMMA OrphanSlotsAre ==
  ASSUME Hierarchy, NEW x \in objects
  PROVE  Orphaned(Here, Orphans(x), x, propval, owner, OrphanSlots(x))
<1>1. objects \in SUBSET Nums /\ GoodTree(objects, family) /\ x \in Nums /\ Here.up = family.up
  BY HereIs DEF Hierarchy
<1>2. \A c : c \in family.down[x] <=> c \in objects /\ family.up[c] = x
  BY <1>1, DownOf
<1>3. \A c \in Nums \ objects : family.up[c] # x
  <2>1. \A c \in Nums \ objects : family.up[c] = NOTHING
    BY <1>1, LinksOf
  <2> QED
    BY <2>1, <1>1, NothingIsNoNumber
<1>4. \A y \in Nums : \A c : IsAtOrBelow(family, y, c) <=> c \in Above(Here, y)
  <2>1. \A y \in Nums : ToSet(Line(family, y)) = Above(family, y)
    BY <1>1, LineIsAbove
  <2>2. \A y : Above(Here, y) = Above(family, y)
    BY <1>1, SameLines
  <2> QED
    BY <2>1, <2>2 DEF IsAtOrBelow
<1>5. ASSUME NEW y \in Nums
      PROVE  IF \E c \in Nums : Here.up[c] = x /\ c \in Above(Here, y)
             THEN \E c \in Nums :
                    /\ Here.up[c] = x /\ c \in Above(Here, y)
                    /\ OrphanSlots(x)[y] =
                         dbpriv_fix_properties_after_chparent(Orphans(x), propval, owner, c, x, Here.up[x])[y]
             ELSE OrphanSlots(x)[y] = propval[y]
  <2>1. (\E c \in Nums : Here.up[c] = x /\ c \in Above(Here, y))
          <=> \E c \in family.down[x] : IsAtOrBelow(family, y, c)
    BY <1>1, <1>2, <1>3, <1>4
  <2>2. CASE \E c \in family.down[x] : IsAtOrBelow(family, y, c)
    <3>1. PICK c : c = CHOOSE d \in family.down[x] : IsAtOrBelow(family, y, d)
      OBVIOUS
    <3>2. c \in family.down[x] /\ IsAtOrBelow(family, y, c)
      BY <2>2, <3>1
    <3>3. c \in Nums /\ Here.up[c] = x /\ c \in Above(Here, y)
      BY <3>2, <1>1, <1>2, <1>4
    <3>4. OrphanSlots(x)[y] =
            dbpriv_fix_properties_after_chparent(Orphans(x), propval, owner, c, x, family.up[x])[y]
      BY <2>2, <3>1 DEF OrphanSlots
    <3> QED
      BY <3>3, <3>4, <1>1
  <2>3. CASE ~\E c \in family.down[x] : IsAtOrBelow(family, y, c)
    BY <2>1, <2>3 DEF OrphanSlots
  <2> QED
    BY <2>2, <2>3
<1>6. OrphanSlots(x) = [y \in Nums |-> OrphanSlots(x)[y]]
  BY DEF OrphanSlots
<1> QED
  BY <1>5, <1>6 DEF Orphaned

\* incr_quota() and the end of the array of x
LEMMA QuotaReturned ==
  ASSUME Hierarchy, NEW t, NEW slots, slots = [y \in Nums |-> slots[y]], NEW x, NEW q \in Nums \cup {NOTHING},
         NEW now, now = [slots EXCEPT ![x] = <<>>],
         NEW then, then = [incr_quota(t, slots, q) EXCEPT ![x] = <<>>]
  PROVE  \/ then = now
         \/ /\ q \in objects /\ q # x /\ db_find_property(t, q, quota_name) # NoSlot
            /\ then = Requota(now, q, db_find_property(t, q, quota_name).n, quota(t, slots, q) + 1)
<1>1. PICK n, number : n = db_find_property(t, q, quota_name).n /\ number = quota(t, slots, q) + 1
  OBVIOUS
<1>2. CASE ~HasQuota(t, q)
  BY <1>2 DEF incr_quota
<1>3. CASE HasQuota(t, q)
  <2>1. q \in objects /\ db_find_property(t, q, quota_name) # NoSlot
    BY <1>3 DEF HasQuota
  <2>2. incr_quota(t, slots, q) = Requota(slots, q, n, number)
    BY <1>1, <1>3 DEF incr_quota, WithQuota, Requota
  <2>3. PICK row : row = [slots[q] EXCEPT ![n] = [slots[q][n] EXCEPT !.value = number]]
    OBVIOUS
  <2>4. \A S : S = [y \in Nums |-> S[y]] /\ S[q] = slots[q] => Requota(S, q, n, number) = [S EXCEPT ![q] = row]
    BY <2>3 DEF Requota
  <2>5. then = [[slots EXCEPT ![q] = row] EXCEPT ![x] = <<>>]
    <3>1. Requota(slots, q, n, number) = [slots EXCEPT ![q] = row]
      BY <2>4
    <3> QED
      BY <2>2, <3>1
  <2>6. CASE q = x
    <3>1. then = now
      BY <2>5, <2>6
    <3> QED
      BY <3>1
  <2>7. CASE q # x
    <3>1. now = [y \in Nums |-> now[y]] /\ now[q] = slots[q]
      BY <2>7
    <3>2. Requota(now, q, n, number) = [now EXCEPT ![q] = row]
      BY <2>4, <3>1
    <3>3. then = [now EXCEPT ![q] = row]
      BY <2>5, <2>7
    <3> QED
      BY <2>1, <2>7, <3>2, <3>3, <1>1
  <2> QED
    BY <2>6, <2>7
<1> QED
  BY <1>2, <1>3

\* bf_recycle(): Reparent of the table
LEMMA RecycleReparents ==
  ASSUME Hierarchy, ObjectInv, PropInv, Hierarchy', NamedAnew, NEW i \in Slots, RecycleObject(i)
  PROVE  PropInv' /\ (Table!Reparent \/ UNCHANGED Table!vars)
<1>1. PICK x : x = calls[i].what
  OBVIOUS
<1>2. CASE Panics("loop") /\ VerbsStay /\ PropertiesStay
  <2>1. UNCHANGED <<objects, family, owner, propdefs, propval>>
    BY <1>2 DEF Panics, PropertiesStay, prop_vars
  <2> QED
    BY <2>1, TableStays
<1>3. CASE RecycleDestroys(i) /\ PropertiesDestroyed(x)
  <2>1. PICK slots : slots = OrphanSlots(x)
    OBVIOUS
  <2>2. /\ propval' = [incr_quota(Shape(family', propdefs), slots, owner[x]) EXCEPT ![x] = <<>>]
        /\ propdefs' = [propdefs EXCEPT ![x] = <<>>]
        /\ owner' = [owner EXCEPT ![x] = NOTHING]
    BY <1>3, <2>1 DEF PropertiesDestroyed, OrphanSlots, Orphans
  <2>3. PICK t, u, P, o, v : t = Here /\ u = Here' /\ P = objects' /\ o = Orphans(x) /\ v = Cut(x)
    OBVIOUS
  <2>4. /\ Fits(objects, t, propval) /\ Shaped(objects, t) /\ t.defs = propdefs
        /\ owner \in [Nums -> Nums \cup {NOTHING}] /\ objects \in SUBSET Nums
        /\ propdefs \in [Nums -> Seq(Names)]
        /\ named.slots = NamedSlots(t, objects, propval)
    BY <2>3, HereIs DEF PropInv, Hierarchy, Fits, Shaped, Named
  <2>5. /\ x \in objects /\ P = objects \ {x}
        /\ Shape(family', propdefs) = v
        /\ Shaped(objects, v) /\ v.up = u.up /\ v.defs = t.defs
        /\ Recycled(objects, t, o, u, x)
    <3>1. Shaped(objects, Here) /\ RecycleDestroys(i)
      BY <1>3, <2>3, <2>4
    <3>2. /\ x \in objects /\ objects' = objects \ {x}
          /\ Shape(family', propdefs) = Cut(x)
          /\ Shaped(objects, Cut(x)) /\ Cut(x).up = Here'.up /\ Cut(x).defs = Here.defs
          /\ Recycled(objects, Here, Orphans(x), Here', x)
      BY <1>1, <2>2, <3>1, RecycledIs
    <3> QED
      BY <3>2, <2>3
  <2>6. Orphaned(t, o, x, propval, owner, slots)
    <3>1. Orphaned(Here, Orphans(x), x, propval, owner, OrphanSlots(x))
      BY <2>5, OrphanSlotsAre
    <3> QED
      BY <3>1, <2>1, <2>3
  <2>7. slots = [y \in Nums |-> slots[y]] /\ x \in Nums
    BY <2>4, <2>5, <2>6 DEF Orphaned
  <2>8. Remaining(t, u, x, propval, slots)
    <3>1. \A y \in Nums : y # x =>
            /\ slots[y] \in Seq(SlotRecords)
            /\ Len(slots[y]) = dbpriv_count_properties(u, y)
            /\ Unchanged(t, u, propval, slots, y)
      BY <2>4, <2>5, <2>6, OrphanedCells, SMTT(40)
    <3> QED
      BY <2>7, <3>1 DEF Remaining
  <2>9. PICK now : now = [slots EXCEPT ![x] = <<>>]
    OBVIOUS
  <2>10. now[x] = <<>> /\ \A y \in Nums : y # x => now[y] = slots[y]
    BY <2>7, <2>9
  <2>11. Remaining(t, u, x, propval, now)
    <3>1. now = [y \in Nums |-> now[y]]
      BY <2>7, <2>9
    <3> QED
      BY <2>8, <2>10, <3>1 DEF Remaining, Unchanged
  <2>12. Fits(P, u, now)
    <3>1. Fits(objects \ {x}, u, now)
      BY <2>4, <2>5, <2>10, <2>11, RecycledFits
    <3> QED
      BY <3>1, <2>5
  <2>13. \/ propval' = now
         \/ /\ owner[x] \in objects /\ owner[x] # x /\ db_find_property(v, owner[x], quota_name) # NoSlot
            /\ propval' = Requota(now, owner[x], db_find_property(v, owner[x], quota_name).n,
                                  quota(v, slots, owner[x]) + 1)
    <3>1. propval' = [incr_quota(v, slots, owner[x]) EXCEPT ![x] = <<>>] /\ owner[x] \in Nums \cup {NOTHING}
      BY <2>2, <2>4, <2>5, <2>7
    <3> QED
      BY <3>1, <2>7, <2>9, QuotaReturned, SMTT(40)
  <2>14. owner' \in [Nums -> Nums \cup {NOTHING}]
    BY <2>2, <2>4
  <2>15. OthersStay /\ NewInherit
    <3>1. objects' = objects \ {x}
      BY <2>3, <2>5
    <3>2. \A y \in Nums : y # x => propdefs'[y] = propdefs[y] /\ owner'[y] = owner[y]
      BY <2>2, <2>4
    <3>3. objects \cap objects' = objects \ {x} /\ objects' \ objects = {}
      BY <3>1
    <3> QED
      BY <3>2, <3>3, <2>4 DEF OthersStay, NewInherit
  <2>16. \A y \in objects \cap P : Retains(t, u, propval, now, y)
    <3>1. \A y \in objects \cap P : Unchanged(t, u, propval, now, y)
      BY <2>4, <2>5, <2>11 DEF Remaining
    <3> QED
      BY <3>1 DEF Unchanged, Retains, Table!Same
  <2>17. ASSUME Fits(P, u, propval')
         PROVE  /\ PropInv' /\ named'.slots = NamedSlots(u, P, propval')
                /\ KeptBut(named.slots, NamedSlots(u, P, now), {})
    <3>1. PropInv' /\ named'.slots = NamedSlots(u, P, propval')
      BY <2>3, <2>14, <2>17, PropInvThen
    <3>2. TableFacts /\ TableFacts'
      BY <3>1, TableIs, TableIsThen
    <3>3. KeptBut(NamedSlots(Here, objects, propval), NamedSlots(u, P, now), {})
      <4>1. Fits(objects, Here, propval) /\ \A y \in objects \cap P : Retains(Here, u, propval, now, y)
        BY <2>3, <2>4, <2>16
      <4> QED
        BY <4>1, <2>3, <2>12, <3>2, RetainsKept
    <3> QED
      BY <3>1, <3>3, <2>3, <2>4
  <2>18. CASE propval' = now
    <3>1. /\ PropInv' /\ named'.slots = NamedSlots(u, P, propval')
          /\ KeptBut(named.slots, NamedSlots(u, P, now), {})
      BY <2>12, <2>17, <2>18
    <3>2. KeptOrQuota
      BY <3>1, <2>18, KeptAll
    <3> QED
      BY <3>1, <3>2, <2>15, ReparentIs
  <2>19. ASSUME NEW q, q = owner[x], q \in objects, q # x, db_find_property(v, q, quota_name) # NoSlot,
                propval' = Requota(now, q, db_find_property(v, q, quota_name).n, quota(v, slots, q) + 1)
         PROVE  PropInv' /\ Table!Reparent
    <3>1. q \in P /\ q \in Nums /\ q \in objects \cap objects'
      BY <2>3, <2>4, <2>5, <2>19
    <3>2. PICK z \in Nums : \E j \in DOMAIN u.defs[z] :
            /\ Has(u, q, quota_name, z, j)
            /\ db_find_property(v, q, quota_name).n = Place(u, q, z, j)
            /\ property_value(v, slots, q, quota_name) \in Int
      BY <2>4, <2>5, <2>8, <2>19, <3>1, QuotaLeft
    <3>3. PICK j \in DOMAIN u.defs[z] :
            /\ Has(u, q, quota_name, z, j)
            /\ db_find_property(v, q, quota_name).n = Place(u, q, z, j)
            /\ property_value(v, slots, q, quota_name) \in Int
      BY <3>2
    <3>4. PICK number \in Int : number = quota(v, slots, q) + 1
      BY <3>3 DEF quota
    <3>5. propval' = Requota(now, q, Place(u, q, z, j), number)
      BY <2>19, <3>3, <3>4
    <3>6. /\ Fits(P, u, propval')
          /\ quota_name \in DOMAIN NamedSlots(u, P, now)[q]
          /\ NamedSlots(u, P, propval') = Requota(NamedSlots(u, P, now), q, quota_name, number)
      BY <2>12, <3>1, <3>3, <3>5, QuotaFits
    <3>7. /\ PropInv' /\ named'.slots = NamedSlots(u, P, propval')
          /\ KeptBut(named.slots, NamedSlots(u, P, now), {})
      BY <2>17, <3>6
    <3>8. q \in DOMAIN NamedSlots(u, P, now)
      BY <3>1 DEF NamedSlots
    <3>9. NamedSlots(u, P, now)[q][quota_name] \in SlotRecords
      BY <2>12, <3>1, <3>6, NamedAt
    <3>10. named'.slots[q][quota_name] \in SlotRecords
      <4>1. DOMAIN NamedSlots(u, P, propval')[q] = DOMAIN NamedSlots(u, P, now)[q]
        BY <3>4, <3>6, <3>8, <3>9, RequotaIs
      <4>2. NamedSlots(u, P, propval')[q][quota_name] \in SlotRecords
        BY <3>1, <3>6, <4>1, NamedAt
      <4> QED
        BY <3>7, <4>2
    <3>11. named'.slots = Requota(NamedSlots(u, P, now), q, quota_name, number)
      BY <3>6, <3>7
    <3>12. KeptOrQuota
      BY <3>1, <3>4, <3>6, <3>7, <3>8, <3>9, <3>10, <3>11, KeptThenQuota
    <3> QED
      BY <3>7, <3>12, <2>15, ReparentIs
  <2> QED
    BY <2>13, <2>18, <2>19
<1> QED
  BY <1>1, <1>2, <1>3 DEF RecycleObject

-----------------------------------------------------------------------------
(* An object gets another number *)

Number(x, old, new) == IF x = old THEN new ELSE x

\* In u, what was at the number old is at new.
Numbered(O, t, u, old, new) ==
  /\ old \in O /\ new \in Nums \ O
  /\ Shaped(O, t) /\ Shaped((O \ {old}) \cup {new}, u)
  /\ \A y \in Nums : y # new =>
       /\ u.defs[Number(y, old, new)] = t.defs[y]
       /\ u.up[Number(y, old, new)] = Number(t.up[y], old, new)
  /\ u.defs[old] = <<>> /\ u.up[old] = NOTHING

\* So are the ways up.
NumberedWay(t, u, old, new, y) ==
  /\ \A z \in Above(t, y) : z \in Nums /\ z # new
  /\ \A a : a \in Above(u, Number(y, old, new)) <=> \E z \in Above(t, y) : a = Number(z, old, new)
  /\ dbpriv_count_properties(u, Number(y, old, new)) = dbpriv_count_properties(t, y)
  /\ \A z \in Above(t, y) : Before(u, Number(y, old, new), Number(z, old, new)) = Before(t, y, z)

\* They go on from the number of the parent.
LEMMA NumberedWayUp ==
  ASSUME NEW O, NEW t, NEW u, NEW old, NEW new, Numbered(O, t, u, old, new), NEW y \in Nums, y # new,
         t.up[y] # NOTHING => NumberedWay(t, u, old, new, t.up[y])
  PROVE  NumberedWay(t, u, old, new, y)
<1>1. /\ old \in O /\ old \in Nums /\ new \in Nums /\ new \notin O /\ O \in SUBSET Nums
      /\ Shaped(O, t) /\ Shaped((O \ {old}) \cup {new}, u)
  BY DEF Numbered, Shaped
<1>2. PICK x : x = Number(y, old, new)
  OBVIOUS
<1>3. PICK p, r : p = t.up[y] /\ r = Number(p, old, new)
  OBVIOUS
<1>4. x \in Nums /\ u.defs[x] = t.defs[y] /\ u.up[x] = r
  BY <1>1, <1>2, <1>3 DEF Numbered, Number
<1>5. p \in Nums \cup {NOTHING} /\ p # y /\ p # new /\ NOTHING \notin Nums
  <2>1. y \in O => p \in O \cup {NOTHING}
    BY <1>1, <1>3, ShapedUp
  <2>2. y \notin O => p = NOTHING
    BY <1>1, <1>3, ShapedUp
  <2>3. p # y /\ p \in Nums \cup {NOTHING} /\ NOTHING \notin Nums
    BY <1>1, <1>3, ShapedUp
  <2> QED
    BY <2>1, <2>2, <2>3, <1>1
<1>6. p = NOTHING <=> r = NOTHING
  BY <1>1, <1>3, <1>5 DEF Number
<1>7. p # NOTHING => r \in Nums
  BY <1>1, <1>3, <1>5 DEF Number
<1>8. /\ y \in Above(t, y)
      /\ \A a : a \in Above(t, y) <=> a = y \/ (p # NOTHING /\ a \in Above(t, p))
  BY <1>1, <1>3, AboveUp
<1>9. \A a : a \in Above(u, x) <=> a = x \/ (r # NOTHING /\ a \in Above(u, r))
  BY <1>1, <1>4, AboveUp
<1>10. ASSUME p # NOTHING
       PROVE  /\ \A z \in Above(t, p) : z \in Nums /\ z # new
              /\ \A a : a \in Above(u, r) <=> \E z \in Above(t, p) : a = Number(z, old, new)
              /\ dbpriv_count_properties(u, r) = dbpriv_count_properties(t, p)
              /\ \A z \in Above(t, p) : Before(u, r, Number(z, old, new)) = Before(t, p, z)
  BY <1>3, <1>10 DEF NumberedWay
<1>11. \A z \in Above(t, y) : z \in Nums /\ z # new
  BY <1>8, <1>10
<1>12. ASSUME NEW a PROVE a \in Above(u, x) <=> \E z \in Above(t, y) : a = Number(z, old, new)
  <2>1. CASE p = NOTHING
    BY <2>1, <1>2, <1>6, <1>8, <1>9
  <2>2. CASE p # NOTHING
    <3>1. a \in Above(u, r) <=> \E z \in Above(t, p) : a = Number(z, old, new)
      BY <2>2, <1>10
    <3> QED
      BY <2>2, <3>1, <1>2, <1>6, <1>8, <1>9
  <2> QED
    BY <2>1, <2>2
<1>13. dbpriv_count_properties(u, x) = dbpriv_count_properties(t, y)
  <2>1. dbpriv_count_properties(u, x) = Len(u.defs[x]) + dbpriv_count_properties(u, r)
    BY <1>1, <1>4, CountUp
  <2>2. dbpriv_count_properties(t, y) = Len(t.defs[y]) + dbpriv_count_properties(t, p)
    BY <1>1, <1>3, CountUp
  <2>3. dbpriv_count_properties(u, r) = dbpriv_count_properties(t, p)
    <3>1. CASE p = NOTHING
      BY <3>1, <1>1, <1>6, CountUp
    <3>2. CASE p # NOTHING
      BY <3>2, <1>10
    <3> QED
      BY <3>1, <3>2
  <2> QED
    BY <2>1, <2>2, <2>3, <1>4
<1>14. ASSUME NEW z \in Above(t, y) PROVE Before(u, x, Number(z, old, new)) = Before(t, y, z)
  <2>1. CASE z = y
    <3>1. Before(u, x, x) = 0 /\ Before(t, y, y) = 0
      BY <1>1, <1>4, BeforeUp
    <3> QED
      BY <2>1, <3>1, <1>2
  <2>2. CASE z # y
    <3>1. PICK w : w = Number(z, old, new)
      OBVIOUS
    <3>2. z \in Nums /\ z # new /\ p # NOTHING /\ z \in Above(t, p)
      BY <2>2, <1>8, <1>11
    <3>3. w # x
      BY <2>2, <3>1, <3>2, <1>2 DEF Number
    <3>4. w \in Above(u, x)
      BY <3>1, <1>12
    <3>5. Before(u, x, w) = Len(u.defs[x]) + Before(u, r, w)
      BY <1>1, <1>4, <3>3, <3>4, BeforeUp
    <3>6. Before(t, y, z) = Len(t.defs[y]) + Before(t, p, z)
      BY <1>1, <1>3, <2>2, BeforeUp
    <3>7. Before(u, r, w) = Before(t, p, z)
      BY <3>1, <3>2, <1>10
    <3> QED
      BY <3>1, <3>5, <3>6, <3>7, <1>4
  <2> QED
    BY <2>1, <2>2
<1> QED
  BY <1>2, <1>11, <1>12, <1>13, <1>14 DEF NumberedWay

\* The ways up are the same under the numbers.
LEMMA NumberedWays ==
  ASSUME NEW O, NEW t, NEW u, NEW old, NEW new, Numbered(O, t, u, old, new), NEW y \in Nums, y # new
  PROVE  NumberedWay(t, u, old, new, y)
<1> DEFINE S == {x \in Nums : x # new => NumberedWay(t, u, old, new, x)}
<1>1. Shaped(O, t) /\ new \notin O /\ O \in SUBSET Nums
  BY DEF Numbered, Shaped
<1>2. ASSUME NEW x \in Nums, t.up[x] \in S \cup {NOTHING} PROVE x \in S
  <2>1. t.up[x] # new
    <3>1. x \in O => t.up[x] \in O \cup {NOTHING}
      BY <1>1, ShapedUp
    <3>2. x \notin O => t.up[x] = NOTHING
      BY <1>1, ShapedUp
    <3>3. new # NOTHING
      BY NothingIsNoNumber DEF Numbered
    <3> QED
      BY <3>1, <3>2, <3>3, <1>1
  <2>2. t.up[x] # NOTHING => NumberedWay(t, u, old, new, t.up[x])
    BY <1>2, <2>1
  <2>3. x # new => NumberedWay(t, u, old, new, x)
    BY <2>2, NumberedWayUp
  <2> QED
    BY <2>3
<1> HIDE DEF S
<1>3. Nums \subseteq S
  BY <1>1, <1>2, ShapedInduction
<1> QED
  BY <1>3 DEF S

\* The arrays, too, are at the new number.
NumberedSlots(slots, now, old, new) ==
  /\ now = [x \in Nums |-> now[x]]
  /\ now[old] = <<>>
  /\ \A y \in Nums : y # new => now[Number(y, old, new)] = slots[y]

\* They fit.
LEMMA NumberedFits ==
  ASSUME NEW O, NEW t, NEW u, NEW old, NEW new, Numbered(O, t, u, old, new), NEW slots, Fits(O, t, slots),
         NEW now, NumberedSlots(slots, now, old, new)
  PROVE  Fits((O \ {old}) \cup {new}, u, now)
<1>1. /\ old \in O /\ old \in Nums /\ new \in Nums /\ new \notin O /\ O \in SUBSET Nums
      /\ Shaped(O, t) /\ Shaped((O \ {old}) \cup {new}, u)
      /\ u.defs[old] = <<>> /\ u.up[old] = NOTHING
      /\ \A y \in Nums : y # new => u.defs[Number(y, old, new)] = t.defs[y]
  BY DEF Numbered, Shaped
<1>2. /\ Distinct(t) /\ OwnValues(t, slots)
      /\ \A y \in Nums \ O : t.defs[y] = <<>>
      /\ slots \in [Nums -> Seq(SlotRecords)]
      /\ \A y \in Nums : Len(slots[y]) = dbpriv_count_properties(t, y)
  BY DEF Fits
<1>3. ASSUME NEW x \in Nums, x # old
      PROVE  \E y \in Nums : y # new /\ x = Number(y, old, new) /\ (x # new => y = x) /\ (x = new => y = old)
  <2>1. CASE x = new
    BY <2>1, <1>1 DEF Number
  <2>2. CASE x # new
    BY <2>2, <1>1, <1>3 DEF Number
  <2> QED
    BY <2>1, <2>2
<1>4. /\ now = [x \in Nums |-> now[x]]
      /\ now[old] = <<>>
      /\ \A y \in Nums : y # new => now[Number(y, old, new)] = slots[y]
  BY DEF NumberedSlots
<1>5. <<>> \in Seq(SlotRecords) /\ Len(<<>>) = 0 /\ DOMAIN <<>> = {}
  OBVIOUS
<1>6. now \in [Nums -> Seq(SlotRecords)]
  <2>1. \A x \in Nums : now[x] \in Seq(SlotRecords)
    BY <1>2, <1>3, <1>4, <1>5, ZenonT(40)
  <2> QED
    BY <2>1, <1>4
<1>7. ASSUME NEW x \in Nums PROVE Len(now[x]) = dbpriv_count_properties(u, x)
  <2>1. CASE x = old
    <3>1. dbpriv_count_properties(u, NOTHING) = 0 /\ Len(u.defs[old]) = 0
      BY <1>1, <1>5, CountUp
    <3>2. dbpriv_count_properties(u, old) = Len(u.defs[old]) + dbpriv_count_properties(u, NOTHING)
      BY <1>1, CountUp
    <3> QED
      BY <2>1, <3>1, <3>2, <1>4, <1>5
  <2>2. CASE x # old
    <3>1. PICK y \in Nums : y # new /\ x = Number(y, old, new)
      BY <2>2, <1>3
    <3>2. dbpriv_count_properties(u, x) = dbpriv_count_properties(t, y)
      BY <3>1, NumberedWays DEF NumberedWay
    <3> QED
      BY <3>1, <3>2, <1>2, <1>4
  <2> QED
    BY <2>1, <2>2
<1>8. ASSUME NEW x \in Nums, x \notin (O \ {old}) \cup {new} PROVE u.defs[x] = <<>>
  <2>1. CASE x = old
    BY <2>1, <1>1
  <2>2. CASE x # old
    <3>1. PICK y \in Nums : y # new /\ x = Number(y, old, new) /\ y = x
      BY <2>2, <1>3, <1>8
    <3> QED
      BY <3>1, <2>2, <1>1, <1>2, <1>8
  <2> QED
    BY <2>1, <2>2
<1>9. Distinct(u)
  <2>1. SUFFICES ASSUME NEW x \in Nums, NEW z \in Above(u, x), NEW w \in Above(u, x),
                        NEW i \in DOMAIN u.defs[z], NEW j \in DOMAIN u.defs[w], u.defs[z][i] = u.defs[w][j]
                 PROVE  z = w /\ i = j
    BY DEF Distinct
  <2>2. CASE x = old
    <3>1. z = old
      BY <1>1, <2>2, AboveUp
    <3> QED
      BY <3>1, <1>1, <1>5
  <2>3. CASE x # old
    <3>1. PICK y \in Nums : y # new /\ x = Number(y, old, new)
      BY <2>3, <1>3
    <3>2. NumberedWay(t, u, old, new, y)
      BY <3>1, NumberedWays
    <3>3. PICK a \in Above(t, y) : z = Number(a, old, new)
      BY <2>1, <3>1, <3>2 DEF NumberedWay
    <3>4. PICK b \in Above(t, y) : w = Number(b, old, new)
      BY <2>1, <3>1, <3>2 DEF NumberedWay
    <3>5. a \in Nums /\ a # new /\ b \in Nums /\ b # new
      BY <3>2, <3>3, <3>4 DEF NumberedWay
    <3>6. u.defs[z] = t.defs[a] /\ u.defs[w] = t.defs[b]
      BY <3>3, <3>4, <3>5, <1>1
    <3>7. i \in DOMAIN t.defs[a] /\ j \in DOMAIN t.defs[b] /\ t.defs[a][i] = t.defs[b][j]
      BY <2>1, <3>6
    <3>8. a = b /\ i = j
      BY <3>3, <3>4, <3>7, <1>2 DEF Distinct
    <3> QED
      BY <3>3, <3>4, <3>8
  <2> QED
    BY <2>2, <2>3
<1>10. OwnValues(u, now)
  <2>1. SUFFICES ASSUME NEW z \in Nums, NEW i \in DOMAIN u.defs[z] PROVE now[z][i].value # CLEAR
    BY DEF OwnValues
  <2>2. z # old
    BY <1>1, <1>5
  <2>3. PICK y \in Nums : y # new /\ z = Number(y, old, new)
    BY <2>2, <1>3
  <2>4. i \in DOMAIN t.defs[y] /\ now[z] = slots[y]
    BY <2>3, <1>1, <1>4
  <2> QED
    BY <2>4, <1>2 DEF OwnValues
<1> QED
  BY <1>1, <1>6, <1>7, <1>8, <1>9, <1>10 DEF Fits

\* renumber() takes a free number that is lower.
LEMMA RenumberIs ==
  ASSUME Hierarchy, Hierarchy', NEW old \in Nums, Renumber(old), objects' \ objects # {},
         propdefs \in [Nums -> Seq(Names)], \A y \in Nums \ objects : propdefs[y] = <<>>,
         NEW new \in objects' \ objects, PropertiesRenumbered(old, new)
  PROVE  /\ old \in objects /\ new \in Nums \ objects /\ objects' = (objects \ {old}) \cup {new}
         /\ Numbered(objects, Here, Here', old, new)
         /\ \A y \in objects : family'.up[Number(y, old, new)] = Number(family.up[y], old, new)
         /\ \A y \in Nums : y # new => propdefs'[Number(y, old, new)] = propdefs[y]
<1>1. PICK n \in Free : n < old /\ \/ /\ objects' = (objects \ {old}) \cup {n}
                                      /\ family' = Renamed(family, old, n)
                                   \/ objects' = objects
  BY DEF Renumber, Panics
<1>2. n = new /\ objects' = (objects \ {old}) \cup {new} /\ family' = Renamed(family, old, new)
  BY <1>1
<1>3. old \in objects /\ objects \in SUBSET Nums /\ GoodTree(objects, family) /\ old # new
  BY DEF Renumber, Hierarchy
<1>4. new \in Nums
  <2>1. objects' \in SUBSET Nums
    BY DEF Hierarchy
  <2> QED
    BY <2>1
<1>5. \A c : c \in family.down[old] <=> c \in objects /\ family.up[c] = old
  BY <1>3, DownOf
<1>6. /\ \A z \in objects : family.up[z] \in objects \cup {NOTHING} /\ family.up[z] # z
      /\ \A z \in Nums \ objects : family.up[z] = NOTHING
      /\ NOTHING \notin objects
  BY <1>3, LinksOf, ZenonT(40)
<1>7. \A x \in Nums : Renamed(family, old, new).up[x] =
        IF x = new THEN family.up[old]
        ELSE IF x = old THEN NOTHING
        ELSE IF x \in family.down[old] THEN new ELSE family.up[x]
  BY DEF Renamed
<1>8. ASSUME NEW y \in Nums, y # new
      PROVE  family'.up[Number(y, old, new)] = Number(family.up[y], old, new)
  <2>1. CASE y = old
    <3>1. family'.up[new] = family.up[old] /\ family.up[old] # old
      BY <1>2, <1>3, <1>4, <1>6, <1>7
    <3> QED
      BY <2>1, <3>1 DEF Number
  <2>2. CASE y # old
    <3>1. family'.up[y] = IF y \in family.down[old] THEN new ELSE family.up[y]
      BY <2>2, <1>2, <1>7, <1>8
    <3>2. y \in family.down[old] <=> family.up[y] = old
      BY <1>3, <1>5, <1>6
    <3> QED
      BY <2>2, <3>1, <3>2 DEF Number
  <2> QED
    BY <2>1, <2>2
<1>9. \A x \in Nums : propdefs'[x] = IF x = old THEN <<>> ELSE propdefs[IF x = new THEN old ELSE x]
  BY DEF PropertiesRenumbered
<1>10. \A y \in Nums : y # new => propdefs'[Number(y, old, new)] = propdefs[y]
  BY <1>3, <1>4, <1>9 DEF Number
<1>11. propdefs' \in [Nums -> Seq(Names)]
  <2>1. \A x \in Nums : propdefs'[x] \in Seq(Names)
    <3>1. <<>> \in Seq(Names)
      OBVIOUS
    <3> QED
      BY <3>1, <1>3, <1>4, <1>9
  <2>2. DOMAIN propdefs' = Nums
    BY DEF PropertiesRenumbered
  <2>3. propdefs' = [x \in Nums |-> propdefs'[x]]
    BY DEF PropertiesRenumbered
  <2> QED
    BY <2>1, <2>3
<1>12. /\ Here.up = family.up /\ Here.defs = propdefs
       /\ Shaped(objects', Here') /\ Here'.up = family'.up /\ Here'.defs = propdefs'
  BY <1>11, ShapedThen, HereIs
<1>13. Shaped(objects, Here)
  BY <1>3, <1>12 DEF Shaped
<1>14. family'.up[old] = NOTHING /\ propdefs'[old] = <<>>
  BY <1>2, <1>3, <1>7, <1>9
<1>15. Numbered(objects, Here, Here', old, new)
  BY <1>2, <1>3, <1>4, <1>8, <1>10, <1>12, <1>13, <1>14 DEF Numbered
<1>16. \A y \in objects : y # new /\ y \in Nums
  BY <1>3
<1> QED
  BY <1>2, <1>3, <1>4, <1>8, <1>10, <1>15, <1>16

\* What an object has, it has under its new number.
NumberedCells(old, new) ==
  \A x \in objects : \A n \in DOMAIN named.slots[x] :
    /\ named'.slots[Number(x, old, new)][n].value = named.slots[x][n].value
    /\ named'.slots[Number(x, old, new)][n].chown = named.slots[x][n].chown
    /\ named.slots[x][n].owner \in objects =>
         named'.slots[Number(x, old, new)][n].owner = Number(named.slots[x][n].owner, old, new)

\* By name, each slot is under the new number what it was under the old one.
LEMMA NumberedNames ==
  ASSUME TableFacts, TableFacts', Fits(objects, Here, propval), named.slots = NamedSlots(Here, objects, propval),
         NEW old \in objects, NEW new \in Nums \ objects, objects' = (objects \ {old}) \cup {new},
         NEW t, t = Here, NEW u, u = Here', Numbered(objects, t, u, old, new),
         NEW rel, Relabelled(propval, rel, old, new), NumberedSlots(rel, propval', old, new)
  PROVE  NumberedCells(old, new)
<1>1. SUFFICES ASSUME NEW x \in objects, NEW n \in DOMAIN named.slots[x]
               PROVE  /\ named'.slots[Number(x, old, new)][n].value = named.slots[x][n].value
                      /\ named'.slots[Number(x, old, new)][n].chown = named.slots[x][n].chown
                      /\ named.slots[x][n].owner \in objects =>
                           named'.slots[Number(x, old, new)][n].owner = Number(named.slots[x][n].owner, old, new)
  BY DEF NumberedCells
<1>2. x \in Nums /\ x # new /\ objects \in SUBSET Nums /\ Shaped(objects, t) /\ Shaped(objects', u)
  BY DEF TableFacts, Numbered
<1>3. n \in DOMAIN NamedSlots(t, objects, propval)[x] /\ Fits(objects, t, propval)
  BY <1>1
<1>4. PICK z \in Nums : \E i \in DOMAIN t.defs[z] :
        /\ Has(t, x, n, z, i)
        /\ NamedSlots(t, objects, propval)[x][n] = propval[x][Place(t, x, z, i)]
  BY <1>3, NamedAt
<1>5. PICK i \in DOMAIN t.defs[z] :
        /\ Has(t, x, n, z, i)
        /\ NamedSlots(t, objects, propval)[x][n] = propval[x][Place(t, x, z, i)]
  BY <1>4
<1>6. z \in Above(t, x) /\ t.defs[z][i] = n
  BY <1>5 DEF Has
<1>7. PICK k : k = Place(t, x, z, i)
  OBVIOUS
<1>8. k \in DOMAIN propval[x]
  BY <1>2, <1>3, <1>6, <1>7, PlaceFits
<1>9. PICK y, w : y = Number(x, old, new) /\ w = Number(z, old, new)
  OBVIOUS
<1>10. NumberedWay(t, u, old, new, x)
  BY <1>2, NumberedWays
<1>11. z \in Nums /\ z # new /\ w \in Above(u, y) /\ Before(u, y, w) = Before(t, x, z)
  BY <1>6, <1>9, <1>10 DEF NumberedWay
<1>12. u.defs[w] = t.defs[z]
  BY <1>9, <1>11 DEF Numbered
<1>13. y \in objects'
  BY <1>2, <1>9 DEF Number
<1>14. Has(u, y, n, w, i)
  BY <1>6, <1>11, <1>12 DEF Has
<1>15. named'.slots[y][n] = propval'[y][Place(u, y, w, i)]
  BY <1>13, <1>14 DEF TableFacts
<1>16. Place(u, y, w, i) = k
  BY <1>7, <1>11 DEF Place
<1>17. propval'[y] = rel[x]
  BY <1>2, <1>9 DEF NumberedSlots
<1>18. /\ rel[x][k].value = propval[x][k].value
       /\ rel[x][k].chown = propval[x][k].chown
       /\ rel[x][k].owner = OwnerAfter(propval[x][k].owner, old, new)
  BY <1>2, <1>8 DEF Relabelled
<1>19. named.slots[x][n] = propval[x][k] /\ named'.slots[y][n] = rel[x][k]
  BY <1>5, <1>7, <1>15, <1>16, <1>17
<1>20. propval[x][k].owner \in objects =>
         OwnerAfter(propval[x][k].owner, old, new) = Number(propval[x][k].owner, old, new)
  BY DEF OwnerAfter, Number
<1> QED
  BY <1>9, <1>18, <1>19, <1>20

\* bf_renumber(): Renumber of the table
LEMMA RenumberRenumbers ==
  ASSUME Hierarchy, PropInv, Hierarchy', NamedAnew, NEW old \in Nums, RenumberObject(old)
  PROVE  PropInv' /\ Table!Renumber
<1>1. PICK new \in objects' \ objects : PropertiesRenumbered(old, new)
  BY DEF RenumberObject
<1>2. PICK t, u : t = Here /\ u = Here'
  OBVIOUS
<1>3. /\ Fits(objects, t, propval) /\ Shaped(objects, t) /\ t.defs = propdefs /\ t.up = family.up
      /\ owner \in [Nums -> Nums \cup {NOTHING}] /\ objects \in SUBSET Nums
      /\ propdefs \in [Nums -> Seq(Names)] /\ \A y \in Nums \ objects : propdefs[y] = <<>>
      /\ propval \in [Nums -> Seq(SlotRecords)]
      /\ named.slots = NamedSlots(t, objects, propval)
  BY <1>2, HereIs DEF PropInv, Hierarchy, Fits, Shaped, Named
<1>4. /\ old \in objects /\ new \in Nums \ objects /\ objects' = (objects \ {old}) \cup {new}
      /\ Numbered(objects, t, u, old, new)
      /\ \A y \in objects : family'.up[Number(y, old, new)] = Number(family.up[y], old, new)
      /\ \A y \in Nums : y # new => propdefs'[Number(y, old, new)] = propdefs[y]
  <2>1. Renumber(old) /\ objects' \ objects # {}
    BY <1>1 DEF RenumberObject
  <2> QED
    BY <2>1, <1>1, <1>2, <1>3, RenumberIs
<1>5. PICK rel : rel = SlotsRenumbered(propval, old, new)
  OBVIOUS
<1>6. rel \in [Nums -> Seq(SlotRecords)] /\ Relabelled(propval, rel, old, new)
  BY <1>3, <1>4, <1>5, SlotsRelabelled
<1>7. Fits(objects, t, rel)
  BY <1>3, <1>6, RelabelledFits
<1>8. NumberedSlots(rel, propval', old, new)
  <2>1. propval' = [x \in Nums |-> IF x = old THEN <<>> ELSE rel[IF x = new THEN old ELSE x]]
    BY <1>1, <1>5 DEF PropertiesRenumbered
  <2>2. \A y \in Nums : y # new => propval'[Number(y, old, new)] = rel[y]
    BY <2>1, <1>3, <1>4 DEF Number
  <2> QED
    BY <2>1, <2>2, <1>3, <1>4 DEF NumberedSlots
<1>9. Fits(objects', u, propval')
  <2>1. Fits((objects \ {old}) \cup {new}, u, propval')
    BY <1>4, <1>7, <1>8, NumberedFits
  <2> QED
    BY <2>1, <1>4
<1>10. owner' = [x \in Nums |-> IF x = old THEN NOTHING
                               ELSE OwnerAfter(owner[IF x = new THEN old ELSE x], old, new)]
  BY <1>1, <1>3, <1>4 DEF PropertiesRenumbered, OwnersRenumbered
<1>11. owner' \in [Nums -> Nums \cup {NOTHING}]
  BY <1>3, <1>4, <1>10 DEF OwnerAfter
<1>12. PropInv' /\ named'.slots = NamedSlots(u, objects', propval')
  BY <1>2, <1>9, <1>11, PropInvThen
<1>13. TableFacts /\ TableFacts'
  BY <1>12, TableIs, TableIsThen
<1>14. NumberedCells(old, new)
  <2>1. Fits(objects, Here, propval) /\ named.slots = NamedSlots(Here, objects, propval)
    BY <1>2, <1>3
  <2> QED
    BY <2>1, <1>2, <1>4, <1>6, <1>8, <1>13, NumberedNames
<1>15. \A x \in objects : owner[x] \in objects => owner'[Number(x, old, new)] = Number(owner[x], old, new)
  BY <1>3, <1>4, <1>10 DEF OwnerAfter, Number
<1>16. \A x \in objects : ToSet(propdefs'[Number(x, old, new)]) = ToSet(propdefs[x])
  BY <1>3, <1>4
<1>17. objects' = {Number(x, old, new) : x \in objects}
  BY <1>4 DEF Number
<1>18. \A x \in objects : Number(x, old, new) \in Nums /\ x \in Nums
  BY <1>3, <1>4 DEF Number
<1>19. /\ old \in objects \ objects' /\ new \in objects' \ objects
  BY <1>4
<1>20. \A x \in objects :
         [y \in Nums |-> ToSet(propdefs'[y])][Number(x, old, new)] = [y \in Nums |-> ToSet(propdefs[y])][x]
  BY <1>16, <1>18
<1>21. Table!Renumber
  BY <1>4, <1>14, <1>15, <1>17, <1>19, <1>20 DEF Table!Renumber, NumberedCells, Number
<1> QED
  BY <1>12, <1>21

-----------------------------------------------------------------------------
(* All steps *)

\* A database that has been loaded has arrays that fit: see IsDatabase.
LEMMA InitPropInv == DbInit => PropInv
<1> SUFFICES ASSUME DbInit PROVE PropInv
  OBVIOUS
<1>1. PICK db \in Databases :
        /\ objects = db.objects
        /\ family = [up |-> db.up, down |-> [x \in Nums |-> {y \in db.objects : db.up[y] = x}]]
        /\ owner = db.owner
        /\ propdefs = db.propdefs
        /\ propval = db.propval
        /\ named = Named(Here, objects, propval)
  BY DEF DbInit
<1>2. IsDatabase(db)
  BY DatabaseAssumption
<1>3. PICK t : t = Here
  OBVIOUS
<1>4. t = Shape(db, db.propdefs)
  BY <1>1, <1>3 DEF Here, Shape
<1>5. Hierarchy
  BY InitDbInv DEF DbInv
<1>6. /\ owner \in [Nums -> Nums \cup {NOTHING}] /\ propdefs \in [Nums -> Seq(Names)]
      /\ propval \in [Nums -> Seq(SlotRecords)]
      /\ \A x \in Nums \ objects : propdefs[x] = <<>>
      /\ PropertiesFit(t, propval)
  BY <1>1, <1>2, <1>4 DEF IsDatabase
<1>7. Shaped(objects, t) /\ t.defs = propdefs
  BY <1>3, <1>5, <1>6, TableAncestors, HereIs
<1>8. \A x \in Nums : ToSet(Line(t, x)) = Above(t, x)
  BY <1>7, ShapedUp
<1>9. Distinct(t)
  BY <1>6, <1>8 DEF PropertiesFit, Distinct
<1>10. OwnValues(t, propval) /\ \A y \in Nums : Len(propval[y]) = dbpriv_count_properties(t, y)
  BY <1>6 DEF PropertiesFit, OwnValues
<1>11. Fits(objects, t, propval)
  BY <1>6, <1>7, <1>9, <1>10 DEF Fits
<1> QED
  BY <1>1, <1>3, <1>6, <1>11 DEF PropInv

\* Verbs are sought or changed.
LEMMA VerbStepsStay ==
  ASSUME \/ \E x \in Nums, word \in Words : Search(x, word) \/ Find(x, word)
         \/ MakeVerb
         \/ ChangeVerbs
         \/ NumbersAndCalls
  PROVE  UNCHANGED <<objects, family, owner, propdefs, propval>>
<1>1. PropertiesStay => UNCHANGED <<owner, propdefs, propval>>
  BY DEF PropertiesStay, prop_vars
<1>2. ASSUME NEW x, NEW word, Search(x, word) \/ Find(x, word)
      PROVE  UNCHANGED <<objects, family>> /\ PropertiesStay
  BY <1>2 DEF Search, Find
<1>3. ASSUME NEW f, NEW g, NEW x, NEW list, Checked(f, g, VerbsBecome(x, list))
      PROVE  UNCHANGED <<objects, family>>
  BY <1>3 DEF Checked, VerbsBecome, Panics
<1>4. ASSUME MakeVerb PROVE UNCHANGED <<objects, family>> /\ PropertiesStay
  BY <1>3, <1>4 DEF MakeVerb, AddVerb
<1>5. ASSUME ChangeVerbs PROVE UNCHANGED <<objects, family>> /\ PropertiesStay
  <2>1. ASSUME NEW x, NEW i, DeleteVerb(x, i) \/ SetVerbArgs(x, i) PROVE UNCHANGED <<objects, family>>
    BY <2>1 DEF DeleteVerb, SetVerbArgs, VerbsBecome
  <2>2. ASSUME NEW x, NEW i, NEW kind, NEW who, SetVerbInfo(x, i, kind, who)
        PROVE  UNCHANGED <<objects, family>>
    BY <2>2, <1>3 DEF SetVerbInfo
  <2> QED
    BY <1>5, <2>1, <2>2 DEF ChangeVerbs
<1>6. ASSUME NumbersAndCalls PROVE UNCHANGED <<objects, family>> /\ PropertiesStay
  BY <1>6, OtherStepsObjects DEF NumbersAndCalls
<1> QED
  BY <1>1, <1>2, <1>4, <1>5, <1>6

\* Properties are added, deleted, renamed and written.
LEMMA ChangePropertiesIs ==
  ASSUME Hierarchy, PropInv, Hierarchy', NamedAnew, ChangeProperties
  PROVE  PropInv' /\ (Table!Write \/ Table!Define \/ Table!Undefine \/ Table!Rename)
<1>1. PICK x \in Nums, name \in Names :
        \/ DeleteProperty(x, name)
        \/ ClearProperty(x, name)
        \/ \E value \in Values : SetProperty(x, name, value)
        \/ \E who \in Owners, chown \in BOOLEAN :
             \/ \E value \in Values : AddProperty(x, name, value, who, chown)
             \/ SetPropertyInfo(x, name, who, chown)
             \/ \E new \in Names : RenameProperty(x, name, new, who, chown)
  BY DEF ChangeProperties
<1>2. ASSUME NEW slots, SlotsBecome(slots) PROVE UNCHANGED <<objects, family, owner>>
  BY <1>2 DEF SlotsBecome
<1>3. CASE DeleteProperty(x, name)
  BY <1>3, DeleteUndefines
<1>4. CASE ClearProperty(x, name)
  <2>1. OneWrite
    BY <1>4, ClearWrites
  <2>2. UNCHANGED <<objects, family, owner, propdefs>>
    BY <1>2, <1>4 DEF ClearProperty
  <2> QED
    BY <2>1, <2>2, WriteSteps
<1>5. ASSUME NEW value \in Values, SetProperty(x, name, value) PROVE PropInv' /\ Table!Write
  <2>1. OneWrite
    BY <1>5, SetWrites
  <2>2. UNCHANGED <<objects, family, owner, propdefs>>
    BY <1>2, <1>5 DEF SetProperty
  <2> QED
    BY <2>1, <2>2, WriteSteps
<1>6. ASSUME NEW who \in Owners, NEW chown \in BOOLEAN, NEW value \in Values,
             AddProperty(x, name, value, who, chown)
      PROVE  PropInv' /\ Table!Define
  BY <1>6, AddDefines
<1>7. ASSUME NEW who \in Owners, NEW chown \in BOOLEAN, SetPropertyInfo(x, name, who, chown)
      PROVE  PropInv' /\ Table!Write
  <2>1. OneWrite
    BY <1>7, InfoWrites
  <2>2. UNCHANGED <<objects, family, owner, propdefs>>
    BY <1>2, <1>7 DEF SetPropertyInfo
  <2> QED
    BY <2>1, <2>2, WriteSteps
<1>8. ASSUME NEW who \in Owners, NEW chown \in BOOLEAN, NEW new \in Names,
             RenameProperty(x, name, new, who, chown)
      PROVE  PropInv' /\ Table!Rename
  BY <1>8, RenameRenames, SMTT(40)
<1> QED
  BY <1>1, <1>3, <1>4, <1>5, <1>6, <1>7, <1>8

\* Every step keeps the arrays in order and is a step of the table, or none.
LEMMA NextPropInv ==
  DbInv /\ PropInv /\ [DbNext]_db_vars => PropInv' /\ [Table!Next]_Table!vars
<1> SUFFICES ASSUME DbInv, PropInv, [DbNext]_db_vars PROVE PropInv' /\ [Table!Next]_Table!vars
  OBVIOUS
<1>1. Hierarchy
  BY DEF DbInv
<1>2. CASE UNCHANGED db_vars
  <2>1. UNCHANGED <<objects, family, owner, propdefs, propval>> /\ named' = named
    BY <1>2 DEF db_vars, prop_vars
  <2> QED
    BY <2>1, TableStays
<1>3. CASE DbNext
  <2>1. DbStep /\ named' = Named(Shape(family', propdefs'), objects', propval')
    BY <1>3 DEF DbNext
  <2>2. NamedAnew
    BY <2>1, HereIs DEF NamedAnew
  <2>3. Hierarchy' /\ ObjectInv
    BY <1>1, <2>1, NextHierarchy
  <2> DEFINE Steps == \/ Table!Write \/ Table!Define \/ Table!Undefine \/ Table!Rename
                      \/ Table!Reparent \/ Table!Renumber
             Good == PropInv' /\ (Steps \/ UNCHANGED Table!vars)
  <2>4. ASSUME \/ \E x \in Nums, word \in Words : Search(x, word) \/ Find(x, word)
               \/ MakeVerb
               \/ ChangeVerbs
               \/ NumbersAndCalls
        PROVE  Good
    <3>1. UNCHANGED <<objects, family, owner, propdefs, propval>>
      BY <2>4, VerbStepsStay
    <3> QED
      BY <3>1, <2>2, TableStays
  <2>5. ASSUME ChangeProperties PROVE Good
    <3>1. PropInv' /\ (Table!Write \/ Table!Define \/ Table!Undefine \/ Table!Rename)
      BY <1>1, <2>2, <2>3, <2>5, ChangePropertiesIs
    <3> QED
      BY <3>1
  <2>6. ASSUME NEW parent \in Nums \cup {NOTHING}, NEW who \in Owners \cup {NOTHING},
               \/ CreateObject(parent, who)
               \/ CreateObjectAndRenumber(parent, who)
               \/ \E num \in Nums : CreateObjectWithId(num, parent, who)
        PROVE  Good
    <3>1. who \in Nums \cup {NOTHING}
      BY DatabaseAssumption
    <3>2. PropInv' /\ (Table!Reparent \/ UNCHANGED Table!vars)
      BY <1>1, <2>2, <2>3, <2>6, <3>1, CreateReparents
    <3> QED
      BY <3>2
  <2>7. ASSUME NEW who, CreateWithIdRefused(who) PROVE Good
    <3>1. PropInv' /\ (Table!Write \/ UNCHANGED Table!vars)
      BY <1>1, <2>2, <2>7, RefusedWrites
    <3> QED
      BY <3>1
  <2>8. ASSUME NEW what \in Nums, NEW parent \in Nums \cup {NOTHING}, ChangeParent(what, parent) PROVE Good
    <3>1. PropInv' /\ (Table!Reparent \/ UNCHANGED Table!vars)
      BY <1>1, <2>2, <2>3, <2>8, ChangeParentReparents
    <3> QED
      BY <3>1
  <2>9. ASSUME NEW old \in Nums, RenumberObject(old) PROVE Good
    <3>1. PropInv' /\ Table!Renumber
      BY <1>1, <2>2, <2>3, <2>9, RenumberRenumbers
    <3> QED
      BY <3>1
  <2>10. ASSUME NEW i \in Slots, RecycleObject(i) PROVE Good
    <3>1. PropInv' /\ (Table!Reparent \/ UNCHANGED Table!vars)
      BY <1>1, <2>2, <2>3, <2>10, RecycleReparents
    <3> QED
      BY <3>1
  <2>11. Good
    <3> HIDE DEF Good
    <3> QED
      BY <2>1, <2>4, <2>5, <2>6, <2>7, <2>8, <2>9, <2>10 DEF DbStep
  <2>12. Table!Consistent'
    BY <2>3, <2>11, TableIsConsistentThen
  <2> QED
    BY <2>11, <2>12 DEF Table!Next
<1> QED
  BY <1>2, <1>3

\* The places of slots that db_properties.c computes are those of the properties: the
\* arrays implement a table of slots by name.
THEOREM SlotsAreATableAlways == DbSpec => SlotsAreATable
<1>1. DbInit => PropInv /\ Table!Init
  <2>1. DbInit => Hierarchy
    BY InitDbInv DEF DbInv
  <2> QED
    BY <2>1, InitPropInv, TableIsConsistent DEF Table!Init
<1>2. DbInv /\ PropInv /\ [DbNext]_db_vars => PropInv'
  BY NextPropInv
<1>3. DbInv /\ PropInv /\ [DbNext]_db_vars => [Table!Next]_Table!vars
  BY NextPropInv
<1>4. DbSpec => []PropInv
  BY <1>1, <1>2, DatabaseInvariant, PTL DEF DbSpec
<1> QED
  BY <1>1, <1>3, <1>4, DatabaseInvariant, PTL DEF DbSpec, SlotsAreATable, Table!Spec
===============================================================================
