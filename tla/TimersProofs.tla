----------------------------- MODULE TimersProofs -----------------------------
(***************************************************************************)
(* Proofs about the timers: whatever SIGALRM and SIGVTALRM interrupt, a    *)
(* Timer_Entry has one owner, the pointers of the lists make no circle,    *)
(* the handlers act for a caller that is still there, and the timers that  *)
(* are set are those of an alarm clock.                                    *)
(***************************************************************************)
EXTENDS Timers, TLAPS, FiniteSetTheorems, WellFoundedInduction

-----------------------------------------------------------------------------
(* Lists: the nodes that are met when next is followed from one. *)

\* The order of the naturals as the set of pairs that the library's theorems speak of.
LEMMA LessIsPairs == \A x, y \in Nat : <<x, y>> \in OpToRel(<, Nat) <=> x < y
BY DEF OpToRel

\* A set with 0 and the successor of each natural in it has every natural in it: what
\* walks along a list of timers one next at a time gets to all of it.
LEMMA SetInduction ==
  ASSUME NEW T, 0 \in T, \A n \in Nat : n \in T => n + 1 \in T
  PROVE  Nat \subseteq T
<1> DEFINE R == OpToRel(<, Nat)
           B == Nat \ T
<1>1. SUFFICES ASSUME B # {} PROVE FALSE
  BY DEF B
<1>2. IsWellFoundedOn(R, Nat)
  BY NatLessThanWellFounded
<1>3. B \subseteq Nat
  BY DEF B
<1>4. \E x \in B : \A y \in B : ~(<<y, x>> \in R)
  <2> HIDE DEF R, B
  <2> QED BY <1>1, <1>2, <1>3, WFMin
<1>5. PICK x \in B : \A y \in B : ~(<<y, x>> \in R)
  BY <1>4
<1>6. \A y, z \in Nat : <<y, z>> \in R <=> y < z
  BY LessIsPairs
<1> HIDE DEF R
<1>7. x \in Nat /\ x # 0
  BY <1>3, <1>5 DEF B
<1>8. x - 1 \in Nat /\ x - 1 < x /\ (x - 1) + 1 = x
  BY <1>7
<1>9. x - 1 \in B
  BY <1>8, <1>5 DEF B
<1> QED
  BY <1>6, <1>7, <1>8, <1>9, <1>5

\* Steps along the pointers, as Chain takes them
Follow(succ) == [n \in Ref |-> IF n = Null THEN Null ELSE succ[n]]
IsPath(f, succ, start, k) ==
  f = [i \in 0..k |-> IF i = 0 THEN start ELSE Follow(succ)[f[i - 1]]]

\* Following the next of a Timer_Entry any number of times gives a sequence of nodes.
LEMMA PathExists ==
  ASSUME NEW succ, NEW start, NEW k \in Nat
  PROVE  \E f : IsPath(f, succ, start, k)
<1> DEFINE T == {j \in Nat : \E f : IsPath(f, succ, start, j)}
<1>1. 0 \in T
  <2>1. IsPath([i \in 0..0 |-> start], succ, start, 0)
    BY DEF IsPath
  <2> QED BY <2>1
<1>2. ASSUME NEW j \in Nat, j \in T PROVE j + 1 \in T
  <2>1. PICK f : IsPath(f, succ, start, j)
    BY <1>2
  <2> DEFINE g == [i \in 0..(j + 1) |-> IF i <= j THEN f[i] ELSE Follow(succ)[f[j]]]
             step(h, i) == IF i = 0 THEN start ELSE Follow(succ)[h[i - 1]]
  <2>2. \A i \in 0..j : f[i] = step(f, i)
    BY <2>1, Zenon DEF IsPath
  <2>3. ASSUME NEW i \in 0..(j + 1) PROVE g[i] = step(g, i)
    <3>1. CASE i <= j
      <4>1. g[i] = f[i] /\ i \in 0..j
        BY <3>1
      <4>2. i # 0 => g[i - 1] = f[i - 1]
        BY <3>1
      <4> HIDE DEF g
      <4> QED BY <4>1, <4>2, <2>2
    <3>2. CASE ~(i <= j)
      <4>1. i = j + 1 /\ i # 0 /\ i - 1 = j
        BY <3>2
      <4>2. g[i] = Follow(succ)[f[j]] /\ g[j] = f[j]
        BY <4>1
      <4> HIDE DEF g
      <4> QED BY <4>1, <4>2
    <3> QED BY <3>1, <3>2
  <2>4. g = [i \in 0..(j + 1) |-> step(g, i)]
    <3>1. g = [i \in 0..(j + 1) |-> g[i]]
      OBVIOUS
    <3> HIDE DEF g
    <3>2. [i \in 0..(j + 1) |-> g[i]] = [i \in 0..(j + 1) |-> step(g, i)]
      BY <2>3
    <3> QED BY <3>1, <3>2
  <2>5. IsPath(g, succ, start, j + 1)
    <3> HIDE DEF g
    <3> QED BY <2>4, Zenon DEF IsPath
  <2> QED BY <2>5
<1>3. Nat \subseteq T
  <2> HIDE DEF T
  <2> QED BY <1>1, <1>2, SetInduction
<1> QED BY <1>3

\* The node after so many steps
Nth(succ, start) ==
  CHOOSE f : f = [i \in 0..Cardinality(Nodes) |-> IF i = 0 THEN start ELSE Follow(succ)[f[i - 1]]]

\* The nodes of a list are those that are met when next is followed once for each
\* Timer_Entry there is.
LEMMA ChainIsPath ==
  ASSUME NEW succ, NEW start
  PROVE  \E f : /\ IsPath(f, succ, start, Cardinality(Nodes))
                /\ Chain(succ, start) = {f[i] : i \in 0..Cardinality(Nodes)} \ {Null}
<1>1. Cardinality(Nodes) \in Nat
  BY FS_CardinalityType, TimersAssumption
<1>2. \E f : f = [i \in 0..Cardinality(Nodes) |-> IF i = 0 THEN start ELSE Follow(succ)[f[i - 1]]]
  <2>1. \E f : IsPath(f, succ, start, Cardinality(Nodes))
    BY <1>1, PathExists
  <2> QED BY <2>1, Zenon DEF IsPath
<1>3. IsPath(Nth(succ, start), succ, start, Cardinality(Nodes))
  BY <1>2, Zenon DEF IsPath, Nth
<1>4. Chain(succ, start) = {Nth(succ, start)[i] : i \in 0..Cardinality(Nodes)} \ {Null}
  BY DEF Chain, Follow, Nth
<1> QED
  BY <1>3, <1>4

\* What the next of each Timer_Entry may be
Pointers == [Nodes -> Ref]

\* Each node met on the way is the next of the one before.
LEMMA PathSteps ==
  ASSUME NEW succ \in Pointers, NEW start \in Ref, NEW k \in Nat, NEW f,
         IsPath(f, succ, start, k)
  PROVE  /\ f[0] = start
         /\ \A i \in 0..k : f[i] \in Ref
         /\ \A i \in 0..(k - 1) : f[i + 1] = IF f[i] = Null THEN Null ELSE succ[f[i]]
<1>1. \A i \in 0..k : f[i] = IF i = 0 THEN start ELSE Follow(succ)[f[i - 1]]
  BY Zenon DEF IsPath
<1>2. f[0] = start
  BY <1>1
<1>3. \A n \in Ref : Follow(succ)[n] = (IF n = Null THEN Null ELSE succ[n])
  BY DEF Follow
<1>4. \A n \in Ref : Follow(succ)[n] \in Ref
  BY <1>3 DEF Ref, Pointers
<1>5. \A i \in 0..(k - 1) : f[i + 1] = Follow(succ)[f[i]]
  <2> TAKE i \in 0..(k - 1)
  <2>1. i + 1 \in 0..k /\ i + 1 # 0 /\ (i + 1) - 1 = i
    OBVIOUS
  <2> QED BY <2>1, <1>1
<1> DEFINE T == {j \in Nat : j <= k => f[j] \in Ref}
<1>6. Nat \subseteq T
  <2>1. 0 \in T
    BY <1>2
  <2>2. ASSUME NEW j \in Nat, j \in T PROVE j + 1 \in T
    <3>1. SUFFICES ASSUME j + 1 <= k PROVE f[j + 1] \in Ref
      OBVIOUS
    <3>2. j \in 0..(k - 1) /\ f[j] \in Ref
      BY <3>1, <2>2
    <3> QED BY <3>2, <1>5, <1>4
  <2> HIDE DEF T
  <2> QED BY <2>1, <2>2, SetInduction
<1>7. \A i \in 0..k : f[i] \in Ref
  BY <1>6
<1>8. \A i \in 0..(k - 1) : f[i] \in Ref
  BY <1>7
<1> QED
  BY <1>2, <1>3, <1>5, <1>7, <1>8

\* Pointers that lead round in a circle lead nowhere.
Acyclic(succ) == \A S \in SUBSET Nodes : S # {} => \E n \in S : succ[n] \notin S

\* What no pointer leaves
Closed(succ, C) == \A n \in C : succ[n] = Null \/ succ[n] \in C

\* A set that has the first node of a list, and the next of each of its own, has the
\* whole list.
LEMMA ChainLeast ==
  ASSUME NEW succ \in Pointers, NEW start \in Ref, NEW C \in SUBSET Nodes,
         Closed(succ, C), start \in C \cup {Null}
  PROVE  Chain(succ, start) \subseteq C
<1> DEFINE K == Cardinality(Nodes)
<1>0. K \in Nat
  BY FS_CardinalityType, TimersAssumption
<1>1. PICK f : /\ IsPath(f, succ, start, K)
               /\ Chain(succ, start) = {f[i] : i \in 0..K} \ {Null}
  BY ChainIsPath
<1>p. IsPath(f, succ, start, K)
  BY <1>1
<1> HIDE DEF K
<1>2. /\ f[0] = start
      /\ \A i \in 0..(K - 1) : f[i + 1] = IF f[i] = Null THEN Null ELSE succ[f[i]]
  BY <1>0, <1>p, PathSteps
<1> DEFINE T == {j \in Nat : j <= K => f[j] \in C \cup {Null}}
<1>3. 0 \in T
  BY <1>2
<1>4. ASSUME NEW j \in Nat, j \in T PROVE j + 1 \in T
  <2>1. SUFFICES ASSUME j + 1 <= K PROVE f[j + 1] \in C \cup {Null}
    OBVIOUS
  <2>2. j \in 0..(K - 1) /\ f[j] \in C \cup {Null}
    BY <2>1, <1>4, <1>0
  <2> QED BY <2>2, <1>2 DEF Closed
<1>5. Nat \subseteq T
  <2> HIDE DEF T
  <2> QED BY <1>3, <1>4, SetInduction
<1>6. \A i \in 0..K : f[i] \in C \cup {Null}
  BY <1>5, <1>0
<1> QED
  BY <1>1, <1>6

\* Following next as often as there are nodes gets to the end of the list: NULL.
LEMMA ChainEnds ==
  ASSUME NEW succ \in Pointers, NEW start \in Ref, Acyclic(succ), NEW f,
         IsPath(f, succ, start, Cardinality(Nodes))
  PROVE  f[Cardinality(Nodes)] = Null
<1> DEFINE K == Cardinality(Nodes)
<1>0. K \in Nat
  BY FS_CardinalityType, TimersAssumption
<1>k. IsPath(f, succ, start, K)
  OBVIOUS
<1>f. IsFiniteSet(0..K) /\ Cardinality(0..K) = K + 1
  <2> HIDE DEF K
  <2> QED BY <1>0, FS_Interval
<1>g. IsFiniteSet(Nodes) /\ Cardinality(Nodes) < Cardinality(0..K)
  <2>1. Cardinality(Nodes) = K
    OBVIOUS
  <2> HIDE DEF K
  <2> QED BY <2>1, <1>0, <1>f, TimersAssumption
<1> HIDE DEF K
<1>1. /\ \A i \in 0..K : f[i] \in Ref
      /\ \A i \in 0..(K - 1) : f[i + 1] = IF f[i] = Null THEN Null ELSE succ[f[i]]
  BY <1>0, <1>k, PathSteps
<1>2. SUFFICES ASSUME f[K] # Null PROVE FALSE
  BY DEF K
<1>3. ASSUME NEW i \in 0..K PROVE f[i] \in Nodes
  <2>1. SUFFICES ASSUME f[i] = Null PROVE FALSE
    BY <1>1 DEF Ref
  <2> DEFINE T == {j \in Nat : i + j <= K => f[i + j] = Null}
  <2>2. 0 \in T
    BY <2>1
  <2>3. ASSUME NEW j \in Nat, j \in T PROVE j + 1 \in T
    <3>1. SUFFICES ASSUME i + (j + 1) <= K PROVE f[i + (j + 1)] = Null
      OBVIOUS
    <3>2. i + j \in 0..(K - 1) /\ f[i + j] = Null /\ i + (j + 1) = (i + j) + 1
      BY <3>1, <2>3, <1>0
    <3> QED BY <3>2, <1>1
  <2>4. Nat \subseteq T
    <3> HIDE DEF T
    <3> QED BY <2>2, <2>3, SetInduction
  <2>5. K - i \in Nat /\ i + (K - i) = K
    BY <1>0
  <2> QED BY <2>4, <2>5, <1>2
<1> DEFINE g == [i \in 0..K |-> f[i]]
<1>4. g \in [0..K -> Nodes]
  BY <1>3
<1>5. \E x, y \in 0..K : x # y /\ g[x] = g[y]
  <2> HIDE DEF g
  <2> QED BY <1>4, <1>f, <1>g, FS_PigeonHole
<1>6. \E x, y \in 0..K : x < y /\ f[x] = f[y]
  <2>1. PICK x \in 0..K, y \in 0..K : x # y /\ g[x] = g[y]
    BY <1>5
  <2>2. f[x] = f[y] /\ (x < y \/ y < x)
    BY <2>1
  <2> QED BY <2>2
<1>7. PICK x \in 0..K, y \in 0..K : x < y /\ f[x] = f[y]
  BY <1>6
<1> DEFINE S == {f[i] : i \in x..(y - 1)}
<1>8. S \in SUBSET Nodes /\ S # {}
  <2>1. x..(y - 1) \subseteq 0..K /\ x \in x..(y - 1)
    BY <1>7, <1>0
  <2> QED BY <2>1, <1>3
<1>9. ASSUME NEW n \in S PROVE succ[n] \in S
  <2>1. PICK i \in x..(y - 1) : n = f[i]
    OBVIOUS
  <2>2. i \in 0..(K - 1) /\ i \in 0..K /\ i \in Int
    BY <2>1, <1>7, <1>0
  <2>3. succ[n] = f[i + 1]
    BY <2>1, <2>2, <1>1, <1>3, TimersAssumption
  <2>4. CASE i + 1 <= y - 1
    <3>1. i + 1 \in x..(y - 1)
      BY <2>4, <2>1, <1>7
    <3> QED BY <3>1, <2>3
  <2>5. CASE ~(i + 1 <= y - 1)
    <3>1. i + 1 = y /\ x \in x..(y - 1)
      BY <2>5, <2>1, <1>7
    <3> QED BY <3>1, <2>3, <1>7
  <2> QED BY <2>4, <2>5
<1> QED
  BY <1>8, <1>9 DEF Acyclic

\* A list has its first node, and the next of each of its nodes.
LEMMA ChainFacts ==
  ASSUME NEW succ \in Pointers, NEW start \in Ref, Acyclic(succ)
  PROVE  /\ Chain(succ, start) \in SUBSET Nodes
         /\ Closed(succ, Chain(succ, start))
         /\ start \in Nodes => start \in Chain(succ, start)
<1> DEFINE K == Cardinality(Nodes)
<1>0. K \in Nat
  BY FS_CardinalityType, TimersAssumption
<1>1. PICK f : /\ IsPath(f, succ, start, K)
               /\ Chain(succ, start) = {f[i] : i \in 0..K} \ {Null}
  BY ChainIsPath
<1>2. f[K] = Null
  BY <1>1, ChainEnds
<1> HIDE DEF K
<1>3. /\ f[0] = start
      /\ \A i \in 0..K : f[i] \in Ref
      /\ \A i \in 0..(K - 1) : f[i + 1] = IF f[i] = Null THEN Null ELSE succ[f[i]]
  BY <1>0, <1>1, PathSteps
<1>4. Chain(succ, start) \in SUBSET Nodes
  BY <1>1, <1>3 DEF Ref
<1>5. Closed(succ, Chain(succ, start))
  <2>1. SUFFICES ASSUME NEW i \in 0..K, f[i] # Null, succ[f[i]] # Null
                 PROVE  succ[f[i]] \in {f[j] : j \in 0..K}
    BY <1>1 DEF Closed
  <2>2. i \in 0..(K - 1) /\ i + 1 \in 0..K
    BY <2>1, <1>2, <1>0
  <2> QED BY <2>1, <2>2, <1>3
<1>6. start \in Nodes => start \in Chain(succ, start)
  <2>1. 0 \in 0..K
    BY <1>0
  <2> QED BY <2>1, <1>1, <1>3, TimersAssumption
<1> QED
  BY <1>4, <1>5, <1>6

\* The list of a null pointer has no nodes.
LEMMA ChainOfNull ==
  ASSUME NEW succ \in Pointers
  PROVE  Chain(succ, Null) = {}
<1>1. Closed(succ, {}) /\ {} \in SUBSET Nodes /\ Null \in Ref
  BY DEF Closed, Ref
<1> QED
  BY <1>1, ChainLeast

\* What comes after a node of a list is on the list.
LEMMA ChainGoesOn ==
  ASSUME NEW succ \in Pointers, NEW start \in Ref, Acyclic(succ),
         NEW n \in Chain(succ, start)
  PROVE  /\ Chain(succ, n) \subseteq Chain(succ, start)
         /\ Chain(succ, succ[n]) \subseteq Chain(succ, start)
<1>1. /\ Chain(succ, start) \in SUBSET Nodes
      /\ Closed(succ, Chain(succ, start))
  BY ChainFacts
<1>2. n \in Nodes /\ n \in Ref /\ succ[n] \in Ref
  BY <1>1 DEF Ref, Pointers
<1>3. succ[n] \in Chain(succ, start) \cup {Null}
  BY <1>1 DEF Closed
<1> QED
  BY <1>1, <1>2, <1>3, ChainLeast

\* The node itself, and then the chain of the next, where it is not met again
LEMMA ChainUnfolds ==
  ASSUME NEW succ \in Pointers, Acyclic(succ), NEW n \in Nodes
  PROVE  /\ Chain(succ, n) = {n} \cup Chain(succ, succ[n])
         /\ n \notin Chain(succ, succ[n])
<1> DEFINE C == Chain(succ, succ[n])
<1>1. n \in Ref /\ succ[n] \in Ref
  BY DEF Ref, Pointers
<1>2. C \in SUBSET Nodes /\ Closed(succ, C) /\ (succ[n] \in Nodes => succ[n] \in C)
  BY <1>1, ChainFacts
<1>3. n \in Chain(succ, n)
  BY <1>1, ChainFacts
<1>4. C \subseteq Chain(succ, n)
  BY <1>1, <1>3, ChainGoesOn
<1>5. {n} \cup C \in SUBSET Nodes /\ Closed(succ, {n} \cup C)
  <2> HIDE DEF C
  <2> QED BY <1>1, <1>2 DEF Closed, Ref
<1>6. Chain(succ, n) \subseteq {n} \cup C
  <2>1. n \in ({n} \cup C) \cup {Null}
    OBVIOUS
  <2> HIDE DEF C
  <2> QED BY <1>1, <1>5, <2>1, ChainLeast
<1>7. ASSUME n \in C PROVE FALSE
  <2> DEFINE S == {x \in C : n \in Chain(succ, x)}
  <2>1. S \in SUBSET Nodes
    BY <1>2
  <2>2. n \in S
    BY <1>7, <1>3
  <2>3. ASSUME NEW x \in S PROVE succ[x] \in S
    <3>1. x \in C /\ x \in Nodes /\ n \in Chain(succ, x)
      BY <1>2
    <3>2. CASE x = n
      <4>1. succ[x] # Null
        <5>1. SUFFICES ASSUME succ[n] = Null PROVE FALSE
          BY <3>2
        <5> QED BY <5>1, <1>7, ChainOfNull
      <4>2. succ[x] \in C
        BY <4>1, <3>1, <1>2 DEF Closed
      <4> QED BY <4>2, <3>2, <1>7
    <3>3. CASE x # n
      <4> DEFINE D == {x} \cup Chain(succ, succ[x])
      <4>0. x \in Ref /\ succ[x] \in Ref
        BY <3>1 DEF Ref, Pointers
      <4>1. /\ Chain(succ, succ[x]) \in SUBSET Nodes
            /\ Closed(succ, Chain(succ, succ[x]))
            /\ succ[x] \in Nodes => succ[x] \in Chain(succ, succ[x])
        BY <4>0, ChainFacts
      <4>2. D \in SUBSET Nodes /\ Closed(succ, D) /\ x \in D \cup {Null}
        BY <4>0, <4>1, <3>1 DEF Closed, Ref
      <4>3. Chain(succ, x) \subseteq D
        <5> HIDE DEF D
        <5> QED BY <4>0, <4>2, ChainLeast
      <4>4. n \in Chain(succ, succ[x])
        BY <4>3, <3>1, <3>3
      <4>5. succ[x] # Null
        BY <4>4, ChainOfNull
      <4>6. succ[x] \in C
        BY <4>5, <3>1, <1>2 DEF Closed
      <4> QED BY <4>4, <4>6
    <3> QED BY <3>2, <3>3
  <2> QED
    <3> HIDE DEF S
    <3> QED BY <2>1, <2>2, <2>3 DEF Acyclic
<1> QED
  BY <1>3, <1>4, <1>6, <1>7

\* Of two nodes on a chain one comes after the other.
LEMMA ChainIsLinear ==
  ASSUME NEW succ \in Pointers, NEW start \in Ref, Acyclic(succ),
         NEW x \in Chain(succ, start), NEW y \in Chain(succ, start)
  PROVE  x \in Chain(succ, y) \/ y \in Chain(succ, x)
<1> DEFINE A == Chain(succ, start)
           D == {z \in A : x \in Chain(succ, z) \/ z \in Chain(succ, x)}
<1>1. A \in SUBSET Nodes /\ Closed(succ, A) /\ (start \in Nodes => start \in A)
  BY ChainFacts
<1>2. x \in Nodes /\ x \in Ref /\ y \in Nodes
  BY <1>1 DEF Ref
<1>3. Closed(succ, Chain(succ, x)) /\ x \in Chain(succ, x)
  BY <1>2, ChainFacts
<1>4. Closed(succ, D)
  <2>1. SUFFICES ASSUME NEW z \in D, succ[z] # Null PROVE succ[z] \in D
    BY DEF Closed
  <2>2. z \in Nodes /\ succ[z] \in A
    BY <2>1, <1>1 DEF Closed
  <2>3. CASE z \in Chain(succ, x)
    BY <2>1, <2>2, <2>3, <1>3 DEF Closed
  <2>4. CASE x \in Chain(succ, z)
    <3>1. x = z \/ x \in Chain(succ, succ[z])
      BY <2>2, <2>4, ChainUnfolds
    <3>2. x = z => z \in Chain(succ, x)
      BY <1>3
    <3> QED BY <3>1, <3>2, <2>2, <2>3
  <2> QED BY <2>3, <2>4
<1>5. start \in D \cup {Null}
  <2>1. CASE start = Null
    BY <2>1
  <2>2. CASE start \in Nodes
    BY <2>2, <1>1
  <2> QED BY <2>1, <2>2 DEF Ref
<1>6. A \subseteq D
  <2>1. D \in SUBSET Nodes
    BY <1>1
  <2> HIDE DEF D
  <2> QED BY <2>1, <1>4, <1>5, ChainLeast
<1> QED
  BY <1>6

\* No two nodes of a chain point at the same, and none at the first.
LEMMA ChainOnce ==
  ASSUME NEW succ \in Pointers, NEW start \in Ref, Acyclic(succ),
         NEW x \in Chain(succ, start), NEW y \in Chain(succ, start),
         succ[x] = succ[y], succ[x] # Null
  PROVE  x = y
<1>1. x \in Nodes /\ y \in Nodes /\ succ[x] \in Nodes /\ succ[x] \in Ref
  BY ChainFacts DEF Ref, Pointers
<1>2. ASSUME NEW a \in Nodes, NEW b \in Nodes, a \in Chain(succ, b), a # b,
             succ[a] = succ[b], succ[b] \in Nodes
      PROVE  FALSE
  <2>1. a \in Chain(succ, succ[b])
    BY <1>2, ChainUnfolds
  <2>2. succ[b] \in Ref
    BY <1>2 DEF Ref
  <2>3. a \in Chain(succ, succ[succ[b]]) \/ a = succ[b]
    BY <2>1, <1>2, ChainUnfolds
  <2>4. succ[succ[b]] \in Ref
    BY <1>2 DEF Pointers
  <2>5. CASE a \in Chain(succ, succ[succ[b]])
    <3>1. succ[a] \in Chain(succ, succ[succ[b]])
      <4>1. Closed(succ, Chain(succ, succ[succ[b]]))
        BY <2>4, ChainFacts
      <4> QED BY <4>1, <2>5, <1>2, TimersAssumption DEF Closed
    <3> QED BY <3>1, <1>2, ChainUnfolds
  <2>6. CASE a = succ[b]
    <3>1. succ[a] = a /\ a \in Chain(succ, a)
      BY <2>6, <1>2, <2>2, ChainFacts
    <3> QED BY <3>1, <1>2, ChainUnfolds
  <2> QED BY <2>3, <2>5, <2>6
<1>3. x \in Chain(succ, y) \/ y \in Chain(succ, x)
  BY ChainIsLinear
<1> QED
  BY <1>1, <1>2, <1>3

-----------------------------------------------------------------------------
(* Changes of pointers. *)

\* A node may point into a set that pointers do not leave, if it is not in it.
LEMMA Repoint ==
  ASSUME NEW succ \in Pointers, Acyclic(succ), NEW n \in Nodes, NEW C \in SUBSET Nodes,
         Closed(succ, C), n \notin C, NEW to \in C \cup {Null}
  PROVE  /\ [succ EXCEPT ![n] = to] \in Pointers
         /\ Acyclic([succ EXCEPT ![n] = to])
         /\ Closed([succ EXCEPT ![n] = to], C)
         /\ Closed([succ EXCEPT ![n] = to], C \cup {n})
<1> DEFINE new == [succ EXCEPT ![n] = to]
<1>0. to \in Ref
  BY DEF Ref
<1>1. new \in Pointers /\ new[n] = to /\ \A m \in Nodes : m # n => new[m] = succ[m]
  BY <1>0 DEF Pointers
<1> HIDE DEF new
<1>2. Closed(new, C) /\ Closed(new, C \cup {n})
  BY <1>1 DEF Closed
<1>3. ASSUME NEW S \in SUBSET Nodes, S # {} PROVE \E m \in S : new[m] \notin S
  <2>1. CASE S \cap C # {}
    <3>1. PICK m \in S \cap C : succ[m] \notin S \cap C
      BY <2>1 DEF Acyclic
    <3>2. new[m] = succ[m] /\ succ[m] \in C \cup {Null} /\ Null \notin S
      BY <3>1, <1>1, TimersAssumption DEF Closed
    <3> QED BY <3>1, <3>2
  <2>2. CASE S \cap C = {}
    <3>1. CASE n \in S
      BY <3>1, <2>2, <1>1, TimersAssumption
    <3>2. CASE n \notin S
      BY <3>2, <1>3, <1>1 DEF Acyclic
    <3> QED BY <3>1, <3>2
  <2> QED BY <2>1, <2>2
<1> QED
  BY <1>1, <1>2, <1>3 DEF new, Acyclic

\* A chain that does not have the node is left alone.
LEMMA ChainKept ==
  ASSUME NEW succ \in Pointers, Acyclic(succ), NEW n \in Nodes, NEW to \in Ref,
         NEW start \in Ref, n \notin Chain(succ, start)
  PROVE  Chain([succ EXCEPT ![n] = to], start) \subseteq Chain(succ, start)
<1> DEFINE new == [succ EXCEPT ![n] = to]
           C == Chain(succ, start)
<1>1. C \in SUBSET Nodes /\ Closed(succ, C) /\ start \in C \cup {Null}
  BY ChainFacts DEF Ref
<1>2. new \in Pointers /\ \A m \in Nodes : m # n => new[m] = succ[m]
  BY DEF Pointers
<1>3. Closed(new, C)
  <2> HIDE DEF new, C
  <2> QED BY <1>1, <1>2 DEF Closed, C
<1> HIDE DEF new, C
<1>4. Chain(new, start) \subseteq C
  BY <1>1, <1>2, <1>3, ChainLeast
<1> QED
  BY <1>4 DEF new, C

-----------------------------------------------------------------------------
(* The invariant: who has each node, who calls, and whom a timer is for. *)

\* Calls and where main is in them, handlers and callers
Ops == {"set", "setv", "cancel"}
Seconds == Nat
Restarting == {"alarm", "vtest", "varm", "done"}
Steps(op) ==
  IF op = "set" THEN {"test", "take", "fill", "stop", "ignore", "edit"} \cup Restarting
  ELSE IF op = "setv" THEN {"check", "stop", "ignore", "test", "take", "fill"} \cup Restarting
  ELSE {"stop", "ignore", "edit"} \cup Restarting
Places == {"idle", "except", "check"} \cup Steps("set")
Callings == {"loop", "task", "connect", "connected", "sleep", "pause", "down"}
Requests == [op : Ops, sec : Seconds, proc : Procs, id : Int]
Frames == [sig : {"alrm", "vtalrm"},
           pc : {"pop", "link", "push", "alarm", "vtest", "varm", "done"},
           this : Ref, proc : Procs]
Programs ==
  [in : Callings, pc : Places, todo : Seq(Requests), this : Ref, ids : [Procs -> Int]]

\* The values of the variables
TypeOK ==
  /\ next \in Pointers
  /\ data \in [Nodes -> [id : Int, when : Int, proc : Procs]]
  /\ active \in Ref /\ free \in Ref /\ virt \in Ref
  /\ heap \in SUBSET Nodes
  /\ next_id \in Nat /\ now \in Nat /\ vt \in Nat
  /\ mask \in SUBSET {"alrm", "vtalrm"}
  /\ frames \in Seq(Frames)
  /\ main \in Programs

\* main calls set_timer().
Setting == main.todo # <<>> /\ Call.op = "set"

\* main has the node it is going to insert
MainHolds == main.pc = "fill" \/ (Setting /\ main.pc \in {"stop", "ignore", "edit"})
FrameHolds(i) == frames[i].pc \in {"link", "push"}

\* Who has a node: a list, a handler, main or malloc().  free_timers goes on behind the
\* node that is taken off it or pushed on it.
Owners == {"active", "free", "heap", "virt", "main", "alrm", "vtalrm"}
Owns(o, n) ==
  \/ o = "active" /\ n \in Chain(next, active)
  \/ o = "free" /\ n \in Chain(next, free)
  \/ o = "free" /\ main.pc = "take" /\ n \in Chain(next, main.this)
  \/ o = "free" /\ \E i \in DOMAIN frames :
                     frames[i].pc = "push" /\ n \in Chain(next, next[frames[i].this])
  \/ o = "heap" /\ n \in heap
  \/ o = "virt" /\ n = virt
  \/ o = "main" /\ n = main.this /\ MainHolds
  \/ \E i \in DOMAIN frames : o = frames[i].sig /\ FrameHolds(i) /\ n = frames[i].this

\* No node has two.
OneOwner == \A n \in Nodes : \A o, p \in Owners : Owns(o, n) /\ Owns(p, n) => o = p

\* A signal is blocked while its handler runs, which is one.
FramesOK ==
  /\ \A i \in DOMAIN frames : frames[i].sig \in mask
  /\ \A i, j \in DOMAIN frames : frames[i].sig = frames[j].sig => i = j
  /\ \A i \in DOMAIN frames : FrameHolds(i) => frames[i].this \in Nodes

\* What main does, and for whom
Flow ==
  /\ main.todo = <<>> <=> main.pc \in {"idle", "except"}
  /\ main.pc = "except" => main.in = "task"
  /\ main.todo # <<>> =>
       /\ main.pc \in Steps(Call.op)
       /\ \/ Len(main.todo) = 1
          \/ /\ Len(main.todo) = 2 /\ Call.op = "cancel" /\ main.in = "loop"
             /\ main.todo[2].op = "set" /\ main.todo[2].proc = "checkpoint"
       /\ Call.op = "set" => \/ main.in = "loop" /\ Call.proc = "checkpoint"
                             \/ main.in = "connect" /\ Call.proc = "connect"
                             \/ main.in = "sleep" /\ Call.proc = "none"
       /\ Call.op = "setv" => main.in = "task" /\ Call.proc = "task"
       /\ Call.op = "cancel" => \/ main.in = "loop" /\ (Len(main.todo) = 1 => Call.id = main.ids["task"])
                                \/ main.in = "connected" /\ Call.id = main.ids["connect"]
       /\ Call.op # "cancel" /\ main.pc \in {"take"} \cup Restarting => main.this \in Nodes
       /\ MainHolds => main.this \in Nodes
  /\ main.in = "connected" => main.todo # <<>>

\* The limit of a task
VirtualOK ==
  virt # Null =>
    \/ main.in \in {"connect", "connected"} /\ data[virt].id = main.ids["task"]
    \/ main.in = "task" /\ main.todo = <<>> /\ data[virt].id = main.ids["task"]
    \/ main.in = "task" /\ main.todo # <<>> /\ main.pc \in Restarting /\ virt = main.this
    \/ /\ main.in = "loop" /\ Len(main.todo) = 1 /\ Call.op = "cancel"
       /\ main.pc \in {"stop", "ignore", "edit"} /\ data[virt].id = main.ids["task"]

\* The timer of a connect(): where tcp_open() can catch its exception, its id, the nodes
\* of active_timers and the handlers that are for one
MayTimeOut ==
  \/ main.in = "connect" /\ main.todo # <<>> /\ main.pc \in Restarting
  \/ main.in = "connect" /\ main.todo = <<>>
  \/ main.in = "connected" /\ main.pc \in {"stop", "ignore", "edit"}
ConnectId == IF main.in = "connect" /\ main.todo # <<>> THEN data[main.this].id
             ELSE main.ids["connect"]
Connects(n) == n \in Chain(next, active) /\ data[n].proc = "connect"
ConnectFrame(i) == frames[i].sig = "alrm" /\ frames[i].pc # "pop" /\ frames[i].proc = "connect"

\* There is at most one, of the connect() that is waited for, until it is cancelled or
\* taken by a handler.
ConnectOK ==
  /\ \A n \in Nodes : Connects(n) => MayTimeOut /\ data[n].id = ConnectId
  /\ \A i \in DOMAIN frames : ConnectFrame(i) => MayTimeOut /\ \A n \in Nodes : ~Connects(n)
  /\ Setting /\ main.pc \in {"stop", "ignore", "edit"} => data[main.this].proc = Call.proc

\* No id is used twice.
IdsOK ==
  /\ \A n \in Nodes : data[n].id < next_id
  /\ \A n \in Nodes : data[n].proc # "none" => data[n].id >= 0
  /\ \A n, m \in Nodes : data[n].id = data[m].id /\ data[n].id >= 0 => n = m

\* The inductive invariant
IInv ==
  TypeOK /\ Acyclic(next) /\ OneOwner /\ FramesOK /\ Flow /\ VirtualOK /\ ConnectOK /\ IdsOK

-----------------------------------------------------------------------------
(* The stack of handlers. *)

\* A handler that runs was entered for one of the two signals.
LEMMA FramesAre ==
  \A s \in Seq(Frames) : \A i \in DOMAIN s :
    s[i] \in Frames /\ s[i].sig \in {"alrm", "vtalrm"} /\ s[i].this \in Ref
<1>1. \A s \in Seq(Frames) : \A i \in DOMAIN s : s[i] \in Frames
  OBVIOUS
<1> QED
  BY <1>1 DEF Frames

\* The innermost handler is the last of the stack.
LEMMA TopIs ==
  ASSUME TypeOK, frames # <<>>
  PROVE  /\ Len(frames) \in DOMAIN frames
         /\ DOMAIN frames = 1..Len(frames)
         /\ Len(frames) \in Nat
         /\ Top = frames[Len(frames)]
         /\ Top \in Frames
BY DEF TypeOK, Top, Last

\* A statement of the innermost handler leaves those it interrupted where they are.
LEMMA TopGoes ==
  ASSUME TypeOK, frames # <<>>, NEW pc, TopGoto(pc)
  PROVE  /\ DOMAIN frames' = DOMAIN frames
         /\ Len(frames') = Len(frames)
         /\ \A i \in DOMAIN frames : i # Len(frames) => frames'[i] = frames[i]
         /\ frames'[Len(frames)] = [Top EXCEPT !.pc = pc]
         /\ frames'[Len(frames)].pc = pc
         /\ frames'[Len(frames)].sig = Top.sig
         /\ frames'[Len(frames)].this = Top.this
         /\ frames'[Len(frames)].proc = Top.proc
         /\ pc \in {"pop", "link", "push", "alarm", "vtest", "varm", "done"} => frames' \in Seq(Frames)
<1>1. /\ Len(frames) \in DOMAIN frames /\ DOMAIN frames = 1..Len(frames) /\ Len(frames) \in Nat
      /\ Top = frames[Len(frames)] /\ Top \in Frames /\ frames \in Seq(Frames)
  BY TopIs DEF TypeOK
<1>2. frames' = [frames EXCEPT ![Len(frames)] = [Top EXCEPT !.pc = pc]]
  BY <1>1 DEF TopGoto
<1>3. DOMAIN frames' = DOMAIN frames /\ Len(frames') = Len(frames)
  BY <1>1, <1>2
<1>4. frames'[Len(frames)] = [Top EXCEPT !.pc = pc]
  BY <1>1, <1>2
<1>5. \A i \in DOMAIN frames : i # Len(frames) => frames'[i] = frames[i]
  BY <1>1, <1>2
<1>6. ASSUME pc \in {"pop", "link", "push", "alarm", "vtest", "varm", "done"} PROVE frames' \in Seq(Frames)
  <2>1. [Top EXCEPT !.pc = pc] \in Frames
    BY <1>1, <1>6 DEF Frames
  <2> QED BY <1>1, <1>2, <2>1
<1>7. /\ [Top EXCEPT !.pc = pc].pc = pc /\ [Top EXCEPT !.pc = pc].sig = Top.sig
      /\ [Top EXCEPT !.pc = pc].this = Top.this /\ [Top EXCEPT !.pc = pc].proc = Top.proc
  BY <1>1 DEF Frames
<1> QED
  BY <1>3, <1>4, <1>5, <1>6, <1>7

\* wakeup_call() and virtual_wakeup_call() take a timer off before they do anything else
\* with it.
LEMMA TopTakes ==
  ASSUME TypeOK, frames # <<>>, NEW n \in Nodes, TopHolds("link", n)
  PROVE  /\ DOMAIN frames' = DOMAIN frames
         /\ \A i \in DOMAIN frames : i # Len(frames) => frames'[i] = frames[i]
         /\ frames'[Len(frames)].sig = Top.sig
         /\ frames'[Len(frames)].pc = "link"
         /\ frames'[Len(frames)].this = n
         /\ frames'[Len(frames)].proc = data[n].proc
         /\ frames' \in Seq(Frames)
<1>1. /\ Len(frames) \in DOMAIN frames /\ DOMAIN frames = 1..Len(frames) /\ Len(frames) \in Nat
      /\ Top = frames[Len(frames)] /\ Top \in Frames /\ frames \in Seq(Frames)
  BY TopIs DEF TypeOK
<1> DEFINE new == [Top EXCEPT !.pc = "link", !.this = n, !.proc = data[n].proc]
<1>2. frames' = [frames EXCEPT ![Len(frames)] = new]
  BY <1>1 DEF TopHolds
<1>3. data[n].proc \in Procs
  BY DEF TypeOK
<1>4. new.sig = Top.sig /\ new.pc = "link" /\ new.this = n /\ new.proc = data[n].proc
  BY <1>1 DEF Frames
<1>5. new \in Frames
  BY <1>1, <1>3 DEF Frames, Ref
<1> HIDE DEF new
<1> QED
  BY <1>1, <1>2, <1>4, <1>5

\* A signal starts a handler on top of what it interrupts.
LEMMA TopStarts ==
  ASSUME TypeOK, NEW sig \in {"alrm", "vtalrm"}, frames' = Append(frames, Frame(sig))
  PROVE  /\ DOMAIN frames' = DOMAIN frames \cup {Len(frames) + 1}
         /\ Len(frames) + 1 \notin DOMAIN frames
         /\ \A i \in DOMAIN frames : frames'[i] = frames[i]
         /\ frames'[Len(frames) + 1] = [sig |-> sig, pc |-> "pop", this |-> Null, proc |-> "none"]
         /\ frames' \in Seq(Frames)
<1>1. Frame(sig) \in Frames
  BY DEF Frame, Frames, Ref, Procs
<1>2. frames \in Seq(Frames)
  BY DEF TypeOK
<1>3. Frame(sig) = [sig |-> sig, pc |-> "pop", this |-> Null, proc |-> "none"]
  BY DEF Frame
<1> QED
  BY <1>1, <1>2, <1>3

\* A handler that returns leaves those it interrupted as they were.
LEMMA TopEnds ==
  ASSUME TypeOK, frames # <<>>, frames' = Front(frames)
  PROVE  /\ DOMAIN frames' \subseteq DOMAIN frames
         /\ Len(frames) \notin DOMAIN frames'
         /\ \A i \in DOMAIN frames' : frames'[i] = frames[i]
         /\ frames' \in Seq(Frames)
<1>1. frames \in Seq(Frames)
  BY DEF TypeOK
<1> QED
  BY <1>1 DEF Front

-----------------------------------------------------------------------------
(* What the program does next. *)

\* A statement of set_timer() or cancel_timer() goes on to the next one and changes
\* nothing else of main.
LEMMA MainGoes ==
  ASSUME TypeOK, NEW pc, Goto(pc)
  PROVE  /\ main'.pc = pc /\ main'.in = main.in /\ main'.todo = main.todo
         /\ main'.this = main.this /\ main'.ids = main.ids
         /\ pc \in Places => main' \in Programs
BY DEF TypeOK, Goto, Programs

\* allocate_timer() gets hold of a node.
LEMMA MainTakes ==
  ASSUME TypeOK, NEW pc \in Places, NEW n \in Ref, main' = [main EXCEPT !.pc = pc, !.this = n]
  PROVE  /\ main'.pc = pc /\ main'.in = main.in /\ main'.todo = main.todo
         /\ main'.this = n /\ main'.ids = main.ids
         /\ main' \in Programs
BY DEF TypeOK, Programs

\* A caller starts the first of its calls.
LEMMA MainBegins ==
  ASSUME TypeOK, NEW in \in Callings, NEW calls \in Seq(Requests), calls # <<>>,
         main' = [Busy(calls) EXCEPT !.in = in]
  PROVE  /\ main'.pc = Begin(calls[1].op) /\ main'.in = in /\ main'.todo = calls
         /\ main'.this = main.this /\ main'.ids = main.ids
         /\ Call' = calls[1]
         /\ main' \in Programs
<1>1. Head(calls) = calls[1] /\ calls[1] \in Requests
  OBVIOUS
<1>2. Begin(calls[1].op) \in Places
  BY DEF Begin, Places, Steps
<1>3. main \in Programs
  BY DEF TypeOK
<1>4. main' = [main EXCEPT !.todo = calls, !.pc = Begin(calls[1].op), !.in = in]
  BY <1>1, <1>3 DEF Busy, Programs
<1>5. /\ main'.pc = Begin(calls[1].op) /\ main'.in = in /\ main'.todo = calls
      /\ main'.this = main.this /\ main'.ids = main.ids
      /\ main' \in Programs
  BY <1>2, <1>3, <1>4 DEF Programs
<1> QED
  BY <1>1, <1>5 DEF Call

\* A call to do is followed by those that are left; there are two at most.
LEMMA CallIs ==
  ASSUME TypeOK, main.todo # <<>>
  PROVE  /\ Call \in Requests /\ Call = main.todo[1]
         /\ Tail(main.todo) \in Seq(Requests)
         /\ Len(Tail(main.todo)) = Len(main.todo) - 1
         /\ Len(main.todo) \in Nat /\ Len(main.todo) >= 1
         /\ Len(main.todo) = 1 => Tail(main.todo) = <<>>
         /\ Len(main.todo) = 2 => Tail(main.todo) # <<>> /\ Head(Tail(main.todo)) = main.todo[2]
<1> DEFINE s == main.todo
<1>1. s \in Seq(Requests) /\ s # <<>> /\ Call = Head(s)
  BY DEF TypeOK, Programs, Call
<1> HIDE DEF s
<1>2. Head(s) \in Requests /\ Head(s) = s[1] /\ Len(s) \in Nat /\ Len(s) >= 1
  BY <1>1
<1>3. Tail(s) \in Seq(Requests) /\ Len(Tail(s)) = Len(s) - 1
  BY <1>1
<1>4. Len(s) = 1 => Tail(s) = <<>>
  <2>1. \A u \in Seq(Requests) : Len(u) = 0 => u = <<>>
    OBVIOUS
  <2>2. ASSUME Len(s) = 1 PROVE Tail(s) = <<>>
    <3>1. Tail(s) \in Seq(Requests) /\ Len(Tail(s)) = 0
      BY <2>2, <1>3
    <3> QED BY <2>1, <3>1, Zenon
  <2> QED BY <2>2
<1>5. Len(s) = 2 => Tail(s) # <<>> /\ Head(Tail(s)) = s[2]
  <2>1. SUFFICES ASSUME Len(s) = 2 PROVE Tail(s) # <<>> /\ Tail(s)[1] = s[2]
    BY <1>3
  <2>2. Len(Tail(s)) = 1
    BY <2>1, <1>3
  <2>3. Tail(s)[1] = s[1 + 1]
    BY <2>1, <1>1
  <2> QED BY <2>2, <2>3, SMTT(40)
<1> QED
  BY <1>1, <1>2, <1>3, <1>4, <1>5 DEF s

\* Who calls, from where to where, and with which first call
CallersBegin ==
  /\ main.pc = "idle" /\ frames = <<>> /\ up
  /\ main'.this = main.this /\ main'.ids = main.ids /\ main' \in Programs
  /\ main'.todo # <<>>
  /\ UNCHANGED <<lists, now, signals, frames, up>>
  /\ main'.pc \in {"test", "check", "stop"}
  /\ \/ /\ main.in = "loop" /\ main'.in = "loop" /\ Call'.op = "cancel" /\ Len(main'.todo) = 2
        /\ main'.todo[2].op = "set" /\ main'.todo[2].proc = "checkpoint" /\ main'.pc = "stop"
        /\ Call'.id = main.ids["checkpoint"]
     \/ /\ Len(main'.todo) = 1
        /\ \/ /\ main.in = "loop" /\ main'.in = "task" /\ Call'.op = "setv" /\ Call'.proc = "task"
              /\ main'.pc = "check"
           \/ /\ main.in = "task" /\ main'.in = "loop" /\ Call'.op = "cancel"
              /\ Call'.id = main.ids["task"] /\ main'.pc = "stop"
           \/ /\ main.in = "task" /\ main'.in = "connect" /\ Call'.op = "set"
              /\ Call'.proc = "connect" /\ main'.pc = "test"
           \/ /\ main.in = "connect" /\ main'.in = "connected" /\ Call'.op = "cancel"
              /\ Call'.id = main.ids["connect"] /\ main'.pc = "stop"
           \/ /\ main.in \in {"loop", "down"} /\ main'.in = "sleep" /\ Call'.op = "set"
              /\ Call'.proc = "none" /\ main'.pc = "test"

\* The calls of set_timer(), set_virtual_timer() and cancel_timer().
LEMMA CallsAre ==
  /\ \A s, p : set_timer(s, p) = [op |-> "set", sec |-> s, proc |-> p, id |-> -1]
  /\ \A s \in Nat, p \in Procs : set_timer(s, p) \in Requests
  /\ \A s, p : set_virtual_timer(s, p) = [op |-> "setv", sec |-> s, proc |-> p, id |-> -1]
  /\ \A s \in Nat, p \in Procs : set_virtual_timer(s, p) \in Requests
  /\ \A id : cancel_timer(id) = [op |-> "cancel", sec |-> 0, proc |-> "none", id |-> id]
  /\ \A id \in Int : cancel_timer(id) \in Requests
BY DEF set_timer, set_virtual_timer, cancel_timer, Requests, Ops, Seconds, Procs

\* Each caller does what CallersBegin says.
LEMMA CallersDo ==
  ASSUME TypeOK, Callers
  PROVE  CallersBegin
<1>0. /\ \A p \in Procs : main.ids[p] \in Int
      /\ {"checkpoint", "connect", "task", "none"} \subseteq Procs
  BY DEF TypeOK, Programs, Procs
<1>1. /\ \A s \in Intervals : s \in Nat
      /\ \A s \in Timeouts : s \in Nat
      /\ \A s \in Limits : (IF s < 1 THEN 1 ELSE s) \in Nat
      /\ Retry \in Nat
  BY TimersAssumption
<1>2. CASE set_checkpoint_timer
  <2>1. PICK s \in Intervals :
          CallFrom("loop", <<cancel_timer(main.ids["checkpoint"]), set_timer(s, "checkpoint")>>)
    BY <1>2 DEF set_checkpoint_timer
  <2> DEFINE calls == <<cancel_timer(main.ids["checkpoint"]), set_timer(s, "checkpoint")>>
  <2>2. calls \in Seq(Requests) /\ calls # <<>> /\ Len(calls) = 2
    BY <1>0, <1>1, CallsAre
  <2>3. /\ calls[1].op = "cancel" /\ calls[1].id = main.ids["checkpoint"]
        /\ calls[2].op = "set" /\ calls[2].proc = "checkpoint"
    BY CallsAre
  <2> HIDE DEF calls
  <2>4. main' = [Busy(calls) EXCEPT !.in = "loop"]
    BY <2>1 DEF CallFrom, calls
  <2>5. /\ main'.pc = Begin(calls[1].op) /\ main'.in = "loop" /\ main'.todo = calls
        /\ main'.this = main.this /\ main'.ids = main.ids
        /\ Call' = calls[1] /\ main' \in Programs
    BY <2>2, <2>4, MainBegins DEF Callings
  <2> QED
    BY <1>2, <2>1, <2>2, <2>3, <2>5
    DEF CallersBegin, set_checkpoint_timer, InCaller, InMain, CallFrom, Begin
<1>3. ASSUME NEW in \in Callings, NEW call \in Requests, CallFrom(in, <<call>>)
      PROVE  /\ main'.pc = Begin(call.op) /\ main'.in = in /\ main'.todo # <<>>
             /\ Len(main'.todo) = 1
             /\ main'.this = main.this /\ main'.ids = main.ids
             /\ Call' = call /\ main' \in Programs
             /\ UNCHANGED <<lists, now, signals, frames, up>>
  <2> DEFINE calls == <<call>>
  <2>1. calls \in Seq(Requests) /\ calls # <<>> /\ Len(calls) = 1 /\ calls[1] = call
    OBVIOUS
  <2>2. main' = [Busy(calls) EXCEPT !.in = in]
    BY <1>3 DEF CallFrom
  <2> HIDE DEF calls
  <2> QED BY <2>1, <2>2, <1>3, MainBegins DEF CallFrom
<1>4. CASE setup_task_execution_limits
  <2>1. PICK s \in Limits : CallFrom("task", <<set_virtual_timer(IF s < 1 THEN 1 ELSE s, "task")>>)
    BY <1>4 DEF setup_task_execution_limits
  <2> DEFINE call == set_virtual_timer(IF s < 1 THEN 1 ELSE s, "task")
  <2>2. call \in Requests /\ call.op = "setv" /\ call.proc = "task"
    BY <1>0, <1>1, CallsAre
  <2>3. CallFrom("task", <<call>>)
    BY <2>1
  <2> HIDE DEF call
  <2> QED
    BY <1>3, <1>4, <2>2, <2>3
    DEF CallersBegin, setup_task_execution_limits, InCaller, InMain, Begin, Callings
<1>5. CASE run_returns
  <2> DEFINE call == cancel_timer(main.ids["task"])
  <2>2. call \in Requests /\ call.op = "cancel" /\ call.id = main.ids["task"]
    BY <1>0, CallsAre
  <2>3. CallFrom("loop", <<call>>)
    BY <1>5 DEF run_returns
  <2> HIDE DEF call
  <2> QED
    BY <1>3, <1>5, <2>2, <2>3 DEF CallersBegin, run_returns, InCaller, InMain, Begin, Callings
<1>6. CASE tcp_open
  <2>1. PICK s \in Timeouts : CallFrom("connect", <<set_timer(s, "connect")>>)
    BY <1>6 DEF tcp_open
  <2> DEFINE call == set_timer(s, "connect")
  <2>2. call \in Requests /\ call.op = "set" /\ call.proc = "connect"
    BY <1>0, <1>1, CallsAre
  <2>3. CallFrom("connect", <<call>>)
    BY <2>1
  <2> HIDE DEF call
  <2> QED
    BY <1>3, <1>6, <2>2, <2>3 DEF CallersBegin, tcp_open, InCaller, InMain, Begin, Callings
<1>7. CASE connect_returns
  <2> DEFINE call == cancel_timer(main.ids["connect"])
  <2>2. call \in Requests /\ call.op = "cancel" /\ call.id = main.ids["connect"]
    BY <1>0, CallsAre
  <2>3. CallFrom("connected", <<call>>)
    BY <1>7 DEF connect_returns
  <2> HIDE DEF call
  <2> QED
    BY <1>3, <1>7, <2>2, <2>3 DEF CallersBegin, connect_returns, InCaller, InMain, Begin, Callings
<1>8. CASE timer_sleep
  <2> DEFINE call == set_timer(Retry, "none")
  <2>2. call \in Requests /\ call.op = "set" /\ call.proc = "none"
    BY <1>0, <1>1, CallsAre
  <2>3. CallFrom("sleep", <<call>>)
    BY <1>8 DEF timer_sleep
  <2> HIDE DEF call
  <2> QED
    BY <1>3, <1>8, <2>2, <2>3 DEF CallersBegin, timer_sleep, InCaller, InMain, Begin, Callings
<1> QED
  BY <1>2, <1>4, <1>5, <1>6, <1>7, <1>8 DEF Callers

\* A call that returns keeps its id where its caller wants it, and the next one starts.
LEMMA ReturnIs ==
  ASSUME TypeOK, Flow, VirtualOK, Return
  PROVE  /\ up /\ frames = <<>> /\ main.todo # <<>> /\ main.pc \in {"done", "vfull"}
         /\ main' \in Programs /\ main'.this = Null
         /\ main'.todo = Tail(main.todo)
         /\ UNCHANGED <<lists, now, signals, frames, up>>
         /\ Call.op = "cancel" => main'.ids = main.ids
         /\ Call.op # "cancel" =>
              /\ \A p \in Procs : p # Call.proc => main'.ids[p] = main.ids[p]
              /\ main.pc = "done" => main'.ids[Call.proc] = data[main.this].id
         /\ main'.todo = <<>> => main'.pc = "idle"
         /\ main'.todo # <<>> => main'.pc = Begin(Head(main'.todo).op)
         /\ main'.in = IF main'.todo = <<>> /\ main.in = "connected" THEN "task" ELSE main.in
<1>1. up /\ frames = <<>> /\ main.pc \in {"done", "vfull"} /\ main.todo # <<>>
      /\ UNCHANGED <<lists, now, signals, frames, up>>
  BY DEF Return, Flow
<1>e. main.pc = "done" /\ Call.op = "setv" => virt = main.this
  BY <1>1 DEF Return, Flow, VirtualOK, Restarting
<1> DEFINE entry == IF Call.op = "setv" THEN virt ELSE main.this
           id == IF main.pc = "vfull" THEN -1 ELSE data[entry].id
           ids == IF Call.op = "cancel" THEN main.ids ELSE [main.ids EXCEPT ![Call.proc] = id]
           rest == Tail(main.todo)
           pc == IF rest = <<>> THEN "idle" ELSE Begin(Head(rest).op)
           in == IF rest = <<>> /\ main.in = "connected" THEN "task" ELSE main.in
<1>2. Call \in Requests /\ rest \in Seq(Requests) /\ main \in Programs
  BY <1>1, CallIs DEF TypeOK
<1>3. Call.op # "cancel" => id \in Int
  <2>1. SUFFICES ASSUME Call.op # "cancel", main.pc = "done" PROVE data[main.this].id \in Int
    BY <1>1, <1>e
  <2>2. main.this \in Nodes
    BY <2>1, <1>1 DEF Flow, Restarting
  <2> QED BY <2>2 DEF TypeOK
<1>4. ids \in [Procs -> Int]
  BY <1>2, <1>3 DEF Programs, Requests
<1>5. pc \in Places /\ in \in Callings /\ Null \in Ref
  BY <1>2 DEF Begin, Places, Steps, Programs, Callings, Ref
<1>6. main' = [main EXCEPT !.todo = rest, !.this = Null, !.ids = ids, !.pc = pc, !.in = in]
  BY DEF Return
<1>7. /\ main' \in Programs /\ main'.todo = rest /\ main'.this = Null /\ main'.ids = ids
      /\ main'.pc = pc /\ main'.in = in
  <2> HIDE DEF rest, ids, pc, in
  <2> QED BY <1>2, <1>4, <1>5, <1>6 DEF Programs
<1>8. Call.op # "cancel" =>
        /\ \A p \in Procs : p # Call.proc => ids[p] = main.ids[p]
        /\ main.pc = "done" => ids[Call.proc] = data[main.this].id
  <2>1. main.pc = "done" => id = data[main.this].id
    BY <1>e
  <2> HIDE DEF rest, pc, in, id
  <2> QED BY <1>2, <2>1 DEF Programs, Requests
<1> QED
  BY <1>1, <1>7, <1>8

\* The place of a new timer is at the front or behind one that is active.
LEMMA BehindIs ==
  ASSUME TypeOK, Acyclic(next), NEW n
  PROVE  /\ Behind(n) = Null \/ Behind(n) \in Chain(next, active)
         /\ Behind(n) # Null => Behind(n) \in Nodes
<1> DEFINE before == {m \in Reach(active) : data[m].when <= data[n].when}
<1>1. Chain(next, active) \in SUBSET Nodes
  BY ChainFacts DEF TypeOK
<1>2. before \in SUBSET Nodes /\ before \subseteq Chain(next, active)
  BY <1>1 DEF Reach
<1>3. CASE before = {}
  BY <1>3 DEF Behind
<1>4. CASE before # {}
  <2>1. Behind(n) = CHOOSE m \in before : next[m] \notin before
    BY <1>4 DEF Behind
  <2> HIDE DEF before
  <2>2. \E m \in before : next[m] \notin before
    BY <1>2, <1>4 DEF Acyclic
  <2>3. Behind(n) \in before
    BY <2>1, <2>2
  <2> QED BY <2>3, <1>2
<1> QED
  BY <1>3, <1>4

\* set_virtual_timer() finds no timer set.
LEMMA CheckIsFirst ==
  ASSUME Flow, VirtualOK,
         \/ main.pc = "check"
         \/ main.todo # <<>> /\ Call.op = "setv" /\ main.pc \notin Restarting
  PROVE  virt = Null
<1>1. main.todo # <<>> /\ main.pc \in Steps(Call.op)
  BY DEF Flow
<1>2. Call.op = "setv"
  BY <1>1 DEF Steps, Restarting
<1>3. main.in = "task" /\ main.pc \notin Restarting
  BY <1>1, <1>2 DEF Flow, Restarting
<1> QED
  BY <1>1, <1>3 DEF VirtualOK

-----------------------------------------------------------------------------
(* Types are kept. *)

\* No step of the program or of a handler makes a pointer, a time or a place in the code
\* that is not one.
LEMMA TypeStep ==
  ASSUME IInv, Next
  PROVE  TypeOK'
<1> USE DEF lists, signals
<1>0. TypeOK /\ Flow /\ FramesOK /\ Acyclic(next) /\ VirtualOK
  BY DEF IInv
<1>1. CASE Callers
  BY <1>0, <1>1, CallersDo DEF CallersBegin, TypeOK
<1>2. ASSUME NEW pc \in Places, Then(pc) PROVE main' \in Programs /\ UNCHANGED <<now, signals, frames, up>>
  BY <1>0, <1>2, MainGoes DEF Then
<1>p. Places = {"idle", "except", "check", "test", "take", "fill", "stop", "ignore", "edit",
                "alarm", "vtest", "varm", "done"}
  BY DEF Places, Steps, Restarting
<1>3. CASE allocate_timer
  <2>1. CASE InMain("test") /\ free # Null /\ main' = [main EXCEPT !.pc = "take", !.this = free]
             /\ UNCHANGED heap
             /\ UNCHANGED <<next, data, active, free, virt, next_id, now, signals, frames, up>>
    BY <1>0, <2>1, <1>p, MainTakes DEF TypeOK
  <2>2. CASE InMain("test") /\ heap # {} /\ heap' = heap \ {malloc}
             /\ main' = [main EXCEPT !.pc = "fill", !.this = malloc]
             /\ UNCHANGED <<next, data, active, free, virt, next_id, now, signals, frames, up>>
    <3>1. malloc \in heap /\ malloc \in Ref
      BY <1>0, <2>2 DEF malloc, TypeOK, Ref
    <3> QED BY <1>0, <2>2, <3>1, <1>p, MainTakes DEF TypeOK
  <2>3. CASE InMain("take") /\ free' = next[main.this] /\ Then("fill")
             /\ UNCHANGED <<next, data, active, virt, heap, next_id>>
    <3>1. main.this \in Nodes
      BY <1>0, <2>3 DEF Flow, InMain, Steps, Restarting
    <3> QED BY <1>0, <2>3, <3>1, <1>2, <1>p DEF TypeOK, Pointers
  <2> QED BY <1>0, <1>3, <2>1, <2>2, <2>3 DEF allocate_timer
<1>4. CASE fill_timer
  <2>1. main.this \in Nodes /\ main.todo # <<>> /\ Call \in Requests
    BY <1>0, <1>4, CallIs DEF fill_timer, Flow, InMain, MainHolds
  <2>2. /\ main' \in Programs /\ UNCHANGED <<now, signals, frames, up>>
        /\ virt' \in Ref
    <3>1. CASE Call.op = "set"
      BY <1>0, <3>1, <1>4, <1>2, <1>p DEF fill_timer, TypeOK
    <3>2. CASE Call.op # "set"
      BY <1>0, <3>2, <1>4, <1>2, <1>p, <2>1 DEF fill_timer, TypeOK, Ref
    <3> QED BY <3>1, <3>2
  <2>3. (IF Call.op = "set" THEN now + Call.sec ELSE Call.sec) \in Int
    BY <1>0, <2>1 DEF Requests, Seconds, TypeOK
  <2>4. data' \in [Nodes -> [id : Int, when : Int, proc : Procs]]
    BY <1>0, <1>4, <2>1, <2>3 DEF fill_timer, TypeOK, Requests
  <2> QED BY <1>0, <1>4, <2>2, <2>4 DEF fill_timer, TypeOK
<1>5. CASE virtual_timer_is_set
  <2>1. virt = Null
    BY <1>0, <1>5, CheckIsFirst DEF virtual_timer_is_set, InMain
  <2>2. main' \in Programs /\ UNCHANGED <<now, signals, frames, up>>
    BY <1>0, <2>1, <1>5, <1>2, <1>p DEF virtual_timer_is_set
  <2> QED BY <1>0, <1>5, <2>2 DEF virtual_timer_is_set, TypeOK
<1>6. CASE stop_timers
  <2>1. CASE InMain("stop") /\ Goto("ignore") /\ UNCHANGED <<lists, now, pend, vt, pendv, mask, frames, up>>
    BY <1>0, <2>1, <1>p, MainGoes DEF TypeOK
  <2>2. CASE /\ InMain("ignore") /\ vt' = 0
             /\ IF virt = Null THEN data' = data
                ELSE \E s \in Left : data' = [data EXCEPT ![virt].when = s]
             /\ Goto(IF Call.op = "setv" THEN "test" ELSE "edit")
             /\ UNCHANGED <<next, active, free, virt, heap, next_id, now, alarm, mask, frames, up>>
    <3>1. main' \in Programs
      BY <1>0, <2>2, <1>p, MainGoes
    <3>2. data' \in [Nodes -> [id : Int, when : Int, proc : Procs]]
      <4>1. CASE virt = Null
        BY <1>0, <4>1, <2>2 DEF TypeOK
      <4>2. CASE virt # Null
        <5>1. PICK s \in Left : data' = [data EXCEPT ![virt].when = s]
          BY <1>0, <4>2, <2>2
        <5>2. s \in Int /\ virt \in Nodes
          BY <1>0, <4>2 DEF Left, TypeOK, Ref
        <5>3. [data[virt] EXCEPT !.when = s] \in [id : Int, when : Int, proc : Procs]
          BY <1>0, <5>2 DEF TypeOK
        <5>4. data' = [data EXCEPT ![virt] = [data[virt] EXCEPT !.when = s]]
          BY <1>0, <5>1
        <5> QED BY <1>0, <5>2, <5>3, <5>4 DEF TypeOK
      <4> QED BY <4>1, <4>2
    <3> QED BY <1>0, <2>2, <3>1, <3>2 DEF TypeOK
  <2> QED BY <1>0, <1>6, <2>1, <2>2 DEF stop_timers
<1>7. CASE insert_timer
  <2>1. main' \in Programs /\ UNCHANGED <<now, signals, frames, up>>
    BY <1>0, <1>7, <1>2, <1>p DEF insert_timer
  <2>2. main.this \in Nodes
    BY <1>0, <1>7 DEF insert_timer, Flow, InMain, MainHolds, Setting
  <2>3. next' \in Pointers /\ active' \in Ref
    <3>1. CASE Behind(main.this) = Null
      BY <1>0, <3>1, <2>2, <1>7 DEF insert_timer, TypeOK, Pointers, Ref
    <3>2. CASE Behind(main.this) # Null
      <4>1. Behind(main.this) \in Nodes
        BY <1>0, <3>2, <2>2, BehindIs
      <4> QED BY <1>0, <4>1, <3>2, <2>2, <1>7 DEF insert_timer, TypeOK, Pointers, Ref
    <3> QED BY <3>1, <3>2
  <2> QED BY <1>0, <1>7, <2>1, <2>3 DEF insert_timer, TypeOK
<1>8. CASE remove_timer
  <2>1. main' \in Programs /\ UNCHANGED <<now, signals, frames, up>>
    BY <1>0, <1>8, <1>2, <1>p DEF remove_timer
  <2>2. CASE virt' = Null /\ IsVirtual(Call.id) /\ heap' = heap \cup {virt} /\ UNCHANGED <<next, active>>
    <3>1. virt \in Nodes /\ virt' \in Ref
      BY <1>0, <2>2 DEF IsVirtual, TypeOK, Ref
    <3> QED BY <1>0, <3>1, <2>1, <2>2, <1>8 DEF remove_timer, TypeOK
  <2>3. ASSUME NEW p \in Reach(active) \cup {Null}, LinkOf(p) # Null,
               Link(p, next[LinkOf(p)]), heap' = heap \cup {LinkOf(p)}
        PROVE  next' \in Pointers /\ active' \in Ref /\ heap' \in SUBSET Nodes
    <3>1. p \in Nodes \/ p = Null
      BY <1>0, ChainFacts DEF Reach, TypeOK
    <3>2. LinkOf(p) \in Nodes
      BY <1>0, <2>3, <3>1, TimersAssumption DEF LinkOf, TypeOK, Pointers, Ref
    <3>3. next[LinkOf(p)] \in Ref
      BY <1>0, <3>2 DEF TypeOK, Pointers
    <3> QED BY <1>0, <2>3, <3>1, <3>2, <3>3 DEF Link, TypeOK, Pointers
  <2>4. CASE UNCHANGED <<virt, next, active, heap>>
    BY <1>0, <2>4, <2>1, <1>8 DEF remove_timer, TypeOK
  <2> QED BY <1>0, <1>8, <2>1, <2>2, <2>3, <2>4 DEF remove_timer, TypeOK
<1>9. CASE restart_timers
  <2>1. ASSUME NEW pc \in {"vtest", "done", "varm"}, MoveTo(pc), In("alarm") \/ In("vtest") \/ In("varm")
        PROVE  main' \in Programs /\ frames' \in Seq(Frames)
    <3>1. CASE frames = <<>>
      BY <1>0, <3>1, <2>1, <1>p, MainGoes DEF MoveTo, TypeOK
    <3>2. CASE frames # <<>>
      BY <1>0, <3>2, <2>1, TopGoes DEF MoveTo, TypeOK
    <3> QED BY <3>1, <3>2
  <2>2. CASE In("alarm") /\ MoveTo("vtest") /\ UNCHANGED <<lists, now, vt, pendv, mask, up>>
    BY <1>0, <2>1, <2>2 DEF TypeOK
  <2>3. CASE In("vtest") /\ MoveTo(IF virt = Null THEN "done" ELSE "varm") /\ UNCHANGED <<lists, now, signals, up>>
    BY <1>0, <2>1, <2>3 DEF TypeOK
  <2>4. CASE /\ In("varm") /\ virt # Null
             /\ IF data[virt].when > 0 THEN vt' = data[virt].when /\ UNCHANGED pendv
                ELSE pendv' = TRUE /\ UNCHANGED vt
             /\ MoveTo("done") /\ UNCHANGED <<lists, now, alarm, pend, mask, up>>
    <3>1. data[virt].when \in Int
      BY <1>0, <2>4 DEF TypeOK, Ref
    <3>2. vt' \in Nat
      BY <1>0, <2>4, <3>1 DEF TypeOK
    <3> QED BY <1>0, <2>1, <2>4, <3>2 DEF TypeOK
  <2>5. CASE Crash
    BY <1>0, <2>5 DEF Crash, TypeOK
  <2> QED BY <1>0, <1>9, <2>2, <2>3, <2>4, <2>5 DEF restart_timers
<1>10. CASE Return
  BY <1>0, <1>10, ReturnIs DEF TypeOK
<1>11. CASE reenable_timers \/ pause \/ virtual_timer_is_null
  <2>1. CASE reenable_timers
    BY <1>0, <2>1, <1>p, MainGoes DEF reenable_timers, TypeOK
  <2>2. CASE pause
    BY <1>0, <2>2 DEF pause, TypeOK, Programs, Callings
  <2>3. CASE virtual_timer_is_null
    BY <1>0, <2>3 DEF virtual_timer_is_null, Crash, TypeOK
  <2> QED BY <1>11, <2>1, <2>2, <2>3
<1>12. CASE wakeup_call
  <2>1. CASE Crash
    BY <1>0, <2>1 DEF Crash, TypeOK
  <2>2. CASE active # Null /\ TopHolds("link", active) /\ active' = next[active]
             /\ UNCHANGED <<next, data, free, virt, heap, next_id, now, signals, main, up>>
    <3>1. active \in Nodes /\ next[active] \in Ref
      BY <1>0, <2>2 DEF TypeOK, Ref, Pointers
    <3>2. frames' \in Seq(Frames)
      BY <1>0, <1>12, <2>2, <3>1, TopTakes DEF wakeup_call, InHandler
    <3> QED BY <1>0, <2>2, <3>1, <3>2 DEF TypeOK
  <2> QED BY <1>0, <1>12, <2>1, <2>2 DEF wakeup_call
<1>13. CASE virtual_wakeup_call
  <2>1. CASE Crash
    BY <1>0, <2>1 DEF Crash, TypeOK
  <2>2. CASE virt # Null /\ TopHolds("link", virt) /\ virt' = Null
             /\ UNCHANGED <<next, data, active, free, heap, next_id, now, signals, main, up>>
    <3>1. virt \in Nodes /\ Null \in Ref
      BY <1>0, <2>2 DEF TypeOK, Ref
    <3>2. frames' \in Seq(Frames)
      BY <1>0, <1>13, <2>2, <3>1, TopTakes DEF virtual_wakeup_call, InHandler
    <3> QED BY <1>0, <2>2, <3>1, <3>2 DEF TypeOK
  <2> QED BY <1>0, <1>13, <2>1, <2>2 DEF virtual_wakeup_call
<1>14. CASE free_timer
  <2>1. frames # <<>> /\ (Top.pc = "link" \/ Top.pc = "push")
    BY <1>0, <1>14 DEF free_timer
  <2>2. Top = frames[Len(frames)] /\ Len(frames) \in DOMAIN frames
    BY <1>0, <2>1, TopIs
  <2>3. Top.this \in Nodes
    BY <1>0, <2>1, <2>2 DEF FramesOK, FrameHolds
  <2>4. frames' \in Seq(Frames)
    BY <1>0, <1>14, <2>1, TopGoes DEF free_timer
  <2>5. next' \in Pointers /\ free' \in Ref
    BY <1>0, <1>14, <2>3 DEF free_timer, TypeOK, Pointers, Ref
  <2> QED BY <1>0, <1>14, <2>4, <2>5 DEF free_timer, TypeOK
<1>15. CASE timeout_proc
  <2>1. Null \in Ref /\ main \in Programs /\ <<>> \in Seq(Requests) /\ <<>> \in Seq(Frames)
        /\ "task" \in Callings
    BY <1>0 DEF Ref, TypeOK, Callings
  <2>2. main' = [main EXCEPT !.in = "task", !.pc = "except", !.todo = <<>>, !.this = Null]
    BY <1>0, <1>15 DEF timeout_proc
  <2>3. main' \in Programs
    BY <1>0, <2>1, <2>2, <1>p DEF Programs
  <2> QED BY <1>0, <1>15, <2>1, <2>3 DEF timeout_proc, TypeOK
<1>16. CASE handler_returns
  <2>1. frames' \in Seq(Frames)
    BY <1>0, <1>16, TopEnds DEF handler_returns
  <2>2. main' \in Programs
    BY <1>0, <1>16 DEF handler_returns, TypeOK, Programs, Callings
  <2> QED BY <1>0, <1>16, <2>1, <2>2 DEF handler_returns, TypeOK
<1>17. CASE DeliverAlarm
  <2>1. frames' \in Seq(Frames)
    BY <1>0, <1>17, TopStarts DEF DeliverAlarm
  <2> QED BY <1>0, <1>17, <2>1 DEF DeliverAlarm, TypeOK
<1>18. CASE DeliverVirtual
  <2>1. frames' \in Seq(Frames)
    BY <1>0, <1>18, TopStarts DEF DeliverVirtual
  <2> QED BY <1>0, <1>18, <2>1 DEF DeliverVirtual, TypeOK
<1>19. CASE Tick
  BY <1>0, <1>19 DEF Tick, TypeOK
<1>20. CASE AlarmExpires
  BY <1>0, <1>20 DEF AlarmExpires, TypeOK
<1>21. CASE VirtualRuns
  BY <1>0, <1>21 DEF VirtualRuns, TypeOK
<1> QED
  BY <1>0, <1>1, <1>3, <1>4, <1>5, <1>6, <1>7, <1>8, <1>9, <1>10, <1>11, <1>12, <1>13, <1>14,
     <1>15, <1>16, <1>17, <1>18, <1>19, <1>20, <1>21 DEF Next, Statements

-----------------------------------------------------------------------------
(* The stack of handlers. *)

\* The steps that leave the stack alone
Unstacked ==
  \/ Callers \/ allocate_timer \/ fill_timer \/ virtual_timer_is_set \/ stop_timers
  \/ insert_timer \/ remove_timer \/ Return \/ pause \/ reenable_timers
  \/ virtual_timer_is_null
  \/ Tick \/ AlarmExpires \/ VirtualRuns

\* They are steps of main or of a clock.
LEMMA UnstackedKeeps ==
  ASSUME TypeOK, Unstacked
  PROVE  /\ frames' = frames
         /\ mask' = mask \/ (mask' = mask \ {"alrm"} /\ frames = <<>>)
<1>1. CASE Callers
  BY <1>1, CallersDo DEF CallersBegin, signals
<1>2. CASE allocate_timer \/ fill_timer \/ virtual_timer_is_set
  BY <1>2 DEF allocate_timer, fill_timer, virtual_timer_is_set, Then, signals
<1>3. CASE stop_timers \/ insert_timer \/ remove_timer
  BY <1>3 DEF stop_timers, insert_timer, remove_timer, Then, signals
<1>4. CASE Return \/ pause \/ reenable_timers \/ virtual_timer_is_null
  BY <1>4 DEF Return, pause, reenable_timers, virtual_timer_is_null, Crash, InMain, signals
<1>5. CASE Tick \/ AlarmExpires \/ VirtualRuns
  BY <1>5 DEF Tick, AlarmExpires, VirtualRuns, signals
<1> QED
  BY <1>1, <1>2, <1>3, <1>4, <1>5 DEF Unstacked

\* A signal is blocked while its handler runs: no handler interrupts itself.
LEMMA FramesStep ==
  ASSUME IInv, Next
  PROVE  FramesOK'
<1>0. TypeOK /\ FramesOK
  BY DEF IInv
<1>1. CASE Unstacked
  <2>1. CASE frames = <<>>
    <3>1. DOMAIN frames' = {}
      BY <1>0, <1>1, <2>1, UnstackedKeeps
    <3> QED BY <3>1 DEF FramesOK
  <2>2. CASE frames # <<>>
    BY <1>0, <1>1, <2>2, UnstackedKeeps DEF FramesOK, FrameHolds
  <2> QED BY <2>1, <2>2
\* A step of the innermost handler that keeps its signal
<1>2. ASSUME frames # <<>>, mask' = mask,
             DOMAIN frames' = DOMAIN frames,
             \A i \in DOMAIN frames : i # Len(frames) => frames'[i] = frames[i],
             frames'[Len(frames)].sig = Top.sig,
             frames'[Len(frames)].pc \in {"link", "push"} => frames'[Len(frames)].this \in Nodes
      PROVE  FramesOK'
  <2>1. Len(frames) \in DOMAIN frames /\ Top = frames[Len(frames)]
    BY <1>0, <1>2, TopIs
  <2>2. \A i \in DOMAIN frames : frames'[i].sig = frames[i].sig
    BY <1>2, <2>1
  <2>3. \A i \in DOMAIN frames' : FrameHolds(i)' => frames'[i].this \in Nodes
    BY <1>0, <1>2 DEF FramesOK, FrameHolds
  <2> QED BY <1>0, <1>2, <2>2, <2>3 DEF FramesOK
<1>3. ASSUME NEW pc, TopGoto(pc), frames # <<>>, mask' = mask,
             pc \in {"link", "push"} => Top.this \in Nodes
      PROVE  FramesOK'
  BY <1>0, <1>2, <1>3, TopGoes
<1>4. CASE restart_timers
  <2>1. CASE frames' = frames /\ mask' = mask
    BY <1>0, <2>1 DEF FramesOK, FrameHolds
  <2>2. CASE frames # <<>> /\ mask' = mask /\ \E pc \in {"vtest", "varm", "done"} : TopGoto(pc)
    BY <1>3, <2>2
  <2> QED BY <1>4, <2>1, <2>2 DEF restart_timers, MoveTo, Crash, signals
<1>5. ASSUME NEW n \in Nodes, TopHolds("link", n), frames # <<>>, mask' = mask
      PROVE  FramesOK'
  BY <1>0, <1>2, <1>5, TopTakes
<1>6. CASE wakeup_call
  <2>1. CASE Crash
    BY <1>0, <2>1 DEF Crash, FramesOK, FrameHolds, signals
  <2>2. CASE active # Null /\ TopHolds("link", active) /\ mask' = mask
    BY <1>0, <1>5, <1>6, <2>2 DEF TypeOK, Ref, wakeup_call, InHandler
  <2> QED BY <1>6, <2>1, <2>2 DEF wakeup_call, signals
<1>7. CASE virtual_wakeup_call
  <2>1. CASE Crash
    BY <1>0, <2>1 DEF Crash, FramesOK, FrameHolds, signals
  <2>2. CASE virt # Null /\ TopHolds("link", virt) /\ mask' = mask
    BY <1>0, <1>5, <1>7, <2>2 DEF TypeOK, Ref, virtual_wakeup_call, InHandler
  <2> QED BY <1>7, <2>1, <2>2 DEF virtual_wakeup_call, signals
<1>8. CASE free_timer
  <2>1. CASE frames # <<>> /\ Top.pc = "link" /\ TopGoto("push") /\ mask' = mask
    <3>1. Top.this \in Nodes
      BY <1>0, <2>1, TopIs DEF FramesOK, FrameHolds
    <3> QED BY <1>3, <2>1, <3>1
  <2>2. CASE frames # <<>> /\ TopGoto(IF Top.sig = "alrm" THEN "alarm" ELSE "done") /\ mask' = mask
    BY <1>3, <2>2
  <2> QED BY <1>8, <2>1, <2>2 DEF free_timer, signals
<1>9. CASE timeout_proc
  <2>1. DOMAIN frames' = {}
    BY <1>9 DEF timeout_proc
  <2> QED BY <2>1 DEF FramesOK
<1>10. CASE handler_returns
  <2>1. frames # <<>> /\ mask' = mask \ {Top.sig} /\ frames' = Front(frames)
    BY <1>10 DEF handler_returns
  <2>2. /\ DOMAIN frames' \subseteq DOMAIN frames
        /\ Len(frames) \notin DOMAIN frames'
        /\ \A i \in DOMAIN frames' : frames'[i] = frames[i]
    BY <1>0, <2>1, TopEnds
  <2>3. Len(frames) \in DOMAIN frames /\ Top = frames[Len(frames)]
    BY <1>0, <2>1, TopIs
  <2> QED BY <1>0, <2>1, <2>2, <2>3 DEF FramesOK, FrameHolds
<1>11. ASSUME NEW sig \in {"alrm", "vtalrm"}, sig \notin mask, mask' = mask \cup {sig},
              frames' = Append(frames, Frame(sig))
       PROVE  FramesOK'
  <2>1. /\ DOMAIN frames' = DOMAIN frames \cup {Len(frames) + 1}
        /\ Len(frames) + 1 \notin DOMAIN frames
        /\ \A i \in DOMAIN frames : frames'[i] = frames[i]
        /\ frames'[Len(frames) + 1].sig = sig
        /\ frames'[Len(frames) + 1].pc = "pop"
    BY <1>0, <1>11, TopStarts
  <2> DEFINE last == Len(frames) + 1
  <2> HIDE DEF last
  <2>2. /\ DOMAIN frames' = DOMAIN frames \cup {last}
        /\ frames'[last].sig = sig /\ frames'[last].pc = "pop"
    BY <2>1 DEF last
  <2> QED BY <1>0, <1>11, <2>1, <2>2 DEF FramesOK, FrameHolds
<1>12. CASE DeliverAlarm \/ DeliverVirtual
  BY <1>11, <1>12 DEF DeliverAlarm, DeliverVirtual
<1> QED
  BY <1>1, <1>4, <1>6, <1>7, <1>8, <1>9, <1>10, <1>12 DEF Next, Statements, Unstacked

-----------------------------------------------------------------------------
(* Ids. *)

\* next_id is larger than any id in use, so that two timers never have the same.
LEMMA IdsStep ==
  ASSUME IInv, Next
  PROVE  IdsOK'
<1>0. TypeOK /\ IdsOK /\ Flow /\ VirtualOK
  BY DEF IInv
<1>1. CASE UNCHANGED <<data, next_id>>
  BY <1>0, <1>1 DEF IdsOK
<1>2. CASE fill_timer
  <2>1. main.this \in Nodes /\ main.todo # <<>>
    BY <1>0, <1>2 DEF fill_timer, Flow, InMain, MainHolds
  <2>2. /\ data'[main.this].id = next_id /\ next_id' = next_id + 1
        /\ \A n \in Nodes : n # main.this => data'[n] = data[n]
    BY <1>0, <1>2, <2>1 DEF fill_timer, TypeOK
  <2>3. next_id \in Nat /\ \A n \in Nodes : data[n].id \in Int
    BY <1>0 DEF TypeOK
  <2> QED BY <1>0, <2>1, <2>2, <2>3 DEF IdsOK
<1>3. ASSUME virt # Null, next_id' = next_id, NEW s, data' = [data EXCEPT ![virt].when = s]
      PROVE  IdsOK'
  <2>1. virt \in Nodes
    BY <1>0, <1>3 DEF TypeOK, Ref
  <2>2. \A n \in Nodes : data'[n].id = data[n].id /\ data'[n].proc = data[n].proc
    BY <1>0, <1>3, <2>1 DEF TypeOK
  <2> QED BY <1>0, <1>3, <2>2 DEF IdsOK
<1>4. CASE stop_timers
  BY <1>1, <1>3, <1>4 DEF stop_timers, lists
<1>5. CASE Callers \/ Return
  BY <1>0, <1>1, <1>5, CallersDo, ReturnIs DEF CallersBegin, lists
<1>6. CASE \/ allocate_timer \/ virtual_timer_is_set \/ insert_timer \/ remove_timer
           \/ restart_timers \/ reenable_timers \/ wakeup_call \/ virtual_wakeup_call
           \/ free_timer \/ timeout_proc \/ handler_returns \/ pause \/ virtual_timer_is_null
           \/ DeliverAlarm \/ DeliverVirtual \/ Tick \/ AlarmExpires \/ VirtualRuns
  BY <1>1, <1>6 DEF allocate_timer, virtual_timer_is_set, insert_timer, remove_timer,
     restart_timers, reenable_timers, wakeup_call, virtual_wakeup_call, free_timer,
     timeout_proc, handler_returns, pause, virtual_timer_is_null, DeliverAlarm, DeliverVirtual,
     Tick, AlarmExpires, VirtualRuns, Crash, lists
<1> QED
  BY <1>2, <1>4, <1>5, <1>6 DEF Next, Statements

-----------------------------------------------------------------------------
(* The course of main. *)

\* The same calls, at another place of the first
LEMMA FlowGoes ==
  ASSUME Flow, main.todo # <<>>, NEW pc \in Steps(Call.op),
         main'.pc = pc, main'.in = main.in, main'.todo = main.todo, main'.ids = main.ids,
         \/ main'.this \in Nodes
         \/ /\ Call.op = "cancel" \/ pc \notin {"take"} \cup Restarting
            /\ pc # "fill" /\ ~(Call.op = "set" /\ pc \in {"stop", "ignore", "edit"})
  PROVE  Flow'
<1>1. pc \notin {"idle", "except"} /\ Call' = Call
  BY DEF Steps, Restarting, Call
<1>2. MainHolds' => main'.this \in Nodes
  BY <1>1 DEF MainHolds, Setting
<1> QED
  BY <1>1, <1>2 DEF Flow

\* The statements of set_timer(), set_virtual_timer() and cancel_timer().
LEMMA StepsAre ==
  /\ Steps("set") = {"test", "take", "fill", "stop", "ignore", "edit", "alarm", "vtest", "varm", "done"}
  /\ Steps("setv") = {"check", "stop", "ignore", "test", "take", "fill", "alarm", "vtest", "varm", "done"}
  /\ Steps("cancel") = {"stop", "ignore", "edit", "alarm", "vtest", "varm", "done"}
BY DEF Steps, Restarting

\* main makes the calls its caller asked for, in order, with the node it has allocated.
LEMMA FlowStep ==
  ASSUME IInv, Next
  PROVE  Flow'
<1>0. TypeOK /\ Flow /\ VirtualOK /\ Acyclic(next)
  BY DEF IInv
<1>1. CASE main' = main
  BY <1>0, <1>1 DEF Flow, MainHolds, Setting, Call
<1>c. main.todo # <<>> =>
        /\ main.pc \in Steps(Call.op) /\ Call.op \in Ops
        /\ main.pc \in Restarting /\ Call.op # "cancel" => main.this \in Nodes
        /\ MainHolds => main.this \in Nodes
  BY <1>0, CallIs DEF Flow, Requests
<1>p. main.pc \notin {"idle", "except"} => main.todo # <<>>
  BY <1>0 DEF Flow
\* The next place in the same call
<1>2. ASSUME NEW pc, Goto(pc), main.todo # <<>>, pc \in Steps(Call.op),
             \/ main.this \in Nodes
             \/ /\ Call.op = "cancel" \/ pc \notin {"take"} \cup Restarting
                /\ pc # "fill" /\ ~(Call.op = "set" /\ pc \in {"stop", "ignore", "edit"})
      PROVE  Flow'
  <2>1. /\ main'.pc = pc /\ main'.in = main.in /\ main'.todo = main.todo
        /\ main'.this = main.this /\ main'.ids = main.ids
    BY <1>0, <1>2, MainGoes
  <2> QED BY <1>0, <1>2, <2>1, FlowGoes
<1>3. CASE Callers
  <2>1. CallersBegin
    BY <1>0, <1>3, CallersDo
  <2>2. main'.todo # <<>> /\ main'.pc \notin {"idle", "except"} /\ main'.pc \in Steps(Call'.op)
    BY <2>1, StepsAre DEF CallersBegin
  <2>3. main'.pc = "stop" => Call'.op = "cancel"
    BY <2>1 DEF CallersBegin
  <2>4. ~MainHolds' /\ main'.pc \notin {"take"} \cup Restarting
    BY <2>1, <2>3 DEF MainHolds, Setting, CallersBegin, Restarting
  <2> QED BY <2>1, <2>2, <2>4 DEF Flow, CallersBegin
<1>4. CASE allocate_timer
  <2>0. main.todo # <<>> /\ Call.op \in {"set", "setv"}
    BY <1>c, <1>p, <1>4, StepsAre DEF allocate_timer, InMain, Ops
  <2>1. CASE main' = [main EXCEPT !.pc = "take", !.this = free] /\ free # Null
    <3>1. free \in Ref /\ free \in Nodes /\ "take" \in Places
      BY <1>0, <2>1 DEF TypeOK, Ref, Places, Steps
    <3>2. /\ main'.pc = "take" /\ main'.in = main.in /\ main'.todo = main.todo
          /\ main'.this = free /\ main'.ids = main.ids
      BY <1>0, <2>1, <3>1, MainTakes
    <3> QED BY <1>0, <2>0, <3>1, <3>2, StepsAre, FlowGoes
  <2>2. CASE heap # {} /\ main' = [main EXCEPT !.pc = "fill", !.this = malloc]
    <3>1. malloc \in Ref /\ malloc \in Nodes /\ "fill" \in Places
      BY <1>0, <2>2 DEF malloc, TypeOK, Ref, Places, Steps
    <3>2. /\ main'.pc = "fill" /\ main'.in = main.in /\ main'.todo = main.todo
          /\ main'.this = malloc /\ main'.ids = main.ids
      BY <1>0, <2>2, <3>1, MainTakes
    <3> QED BY <1>0, <2>0, <3>1, <3>2, StepsAre, FlowGoes
  <2>3. CASE InMain("take") /\ Goto("fill")
    <3>1. main.this \in Nodes
      BY <1>0, <2>0, <2>3 DEF Flow, InMain
    <3> QED BY <1>2, <2>0, <2>3, <3>1, StepsAre
  <2> QED BY <1>4, <2>1, <2>2, <2>3 DEF allocate_timer, Then
<1>5. CASE fill_timer
  <2>1. main.todo # <<>> /\ Call.op \in {"set", "setv"} /\ main.this \in Nodes
    BY <1>c, <1>p, <1>5, StepsAre DEF fill_timer, InMain, Ops, MainHolds
  <2> QED BY <1>2, <1>5, <2>1, StepsAre DEF fill_timer, Then
<1>6. CASE virtual_timer_is_set
  <2>1. main.todo # <<>> /\ Call.op = "setv" /\ virt = Null
    BY <1>0, <1>c, <1>p, <1>6, StepsAre, CheckIsFirst DEF virtual_timer_is_set, InMain, Ops
  <2> QED BY <1>2, <1>6, <2>1, StepsAre DEF virtual_timer_is_set, Then, Restarting
<1>7. CASE stop_timers
  <2>1. main.todo # <<>> /\ main.pc \in {"stop", "ignore"}
    BY <1>p, <1>7 DEF stop_timers, InMain
  <2>2. CASE Call.op = "set"
    <3>1. main.this \in Nodes
      BY <1>c, <2>1, <2>2 DEF MainHolds, Setting
    <3> QED BY <1>2, <1>7, <2>1, <2>2, <3>1, StepsAre DEF stop_timers
  <2>3. CASE Call.op # "set"
    BY <1>2, <1>c, <1>7, <2>1, <2>3, StepsAre DEF stop_timers, Ops, Restarting
  <2> QED BY <2>2, <2>3
<1>8. CASE insert_timer
  <2>1. main.todo # <<>> /\ Call.op = "set" /\ main.this \in Nodes
    BY <1>c, <1>p, <1>8 DEF insert_timer, InMain, MainHolds, Setting
  <2> QED BY <1>2, <1>8, <2>1, StepsAre DEF insert_timer, Then
<1>9. CASE remove_timer
  <2>1. main.todo # <<>> /\ Call.op = "cancel"
    BY <1>p, <1>9 DEF remove_timer, InMain
  <2> QED BY <1>2, <1>9, <2>1, StepsAre DEF remove_timer, Then
<1>10. CASE restart_timers
  <2>1. CASE frames = <<>> /\ InMain(main.pc) /\ main.pc \in {"alarm", "vtest", "varm"}
             /\ \E pc \in {"vtest", "varm", "done"} : Goto(pc)
    <3>1. main.todo # <<>> /\ main.pc \in Restarting
      BY <1>p, <2>1 DEF Restarting
    <3>2. \/ main.this \in Nodes
          \/ Call.op = "cancel"
      BY <1>c, <3>1
    <3>3. Call.op \in Ops
      BY <1>c, <3>1
    <3> QED BY <1>2, <2>1, <3>1, <3>2, <3>3, StepsAre DEF Ops
  <2> QED BY <1>1, <1>10, <2>1 DEF restart_timers, MoveTo, Crash, In, InMain, InHandler
<1>11. CASE Return
  <2> DEFINE rest == Tail(main.todo)
  <2>1. /\ main.todo # <<>> /\ main.pc \in {"done", "vfull"}
        /\ main'.todo = rest
        /\ Call.op = "cancel" => main'.ids = main.ids
        /\ rest = <<>> => main'.pc = "idle"
        /\ rest # <<>> => main'.pc = Begin(Head(rest).op)
        /\ main'.in = IF rest = <<>> /\ main.in = "connected" THEN "task" ELSE main.in
    BY <1>0, <1>11, ReturnIs
  <2>2. CASE Len(main.todo) = 1
    <3>1. rest = <<>>
      BY <1>0, <2>1, <2>2, CallIs
    <3> QED
      BY <2>1, <3>1 DEF Flow, MainHolds, Setting
  <2>3. CASE Len(main.todo) # 1
    <3>1. /\ Len(main.todo) = 2 /\ Call.op = "cancel" /\ main.in = "loop"
          /\ main.todo[2].op = "set" /\ main.todo[2].proc = "checkpoint"
      BY <1>0, <2>1, <2>3 DEF Flow
    <3>2. rest # <<>> /\ Head(rest) = main.todo[2] /\ Len(rest) = 1
      BY <1>0, <2>1, <3>1, CallIs
    <3>3. /\ main'.pc = "test" /\ main'.in = "loop" /\ main'.todo # <<>>
          /\ Len(main'.todo) = 1 /\ Call' = main.todo[2]
      BY <2>1, <3>1, <3>2 DEF Begin, Call
    <3>4. ~MainHolds' /\ "test" \in Steps("set") /\ "test" \notin {"take"} \cup Restarting
      BY <3>3 DEF MainHolds, Setting, Steps, Restarting
    <3> QED BY <3>1, <3>3, <3>4 DEF Flow
  <2> QED BY <2>2, <2>3
<1>12. CASE reenable_timers
  <2>1. /\ main'.pc = "idle" /\ main'.in = main.in /\ main'.todo = main.todo /\ main.pc = "except"
    BY <1>0, <1>12, MainGoes DEF reenable_timers, InMain
  <2>2. main.todo = <<>> /\ main.in = "task"
    BY <1>0, <2>1 DEF Flow
  <2> QED BY <2>1, <2>2 DEF Flow, MainHolds, Setting
<1>16. CASE pause
  <2>1. /\ main'.in = "pause" /\ main'.pc = main.pc /\ main'.todo = main.todo /\ main.pc = "idle"
    BY <1>0, <1>16 DEF pause, InCaller, InMain, TypeOK, Programs
  <2>2. main.todo = <<>>
    BY <1>0, <2>1 DEF Flow
  <2> QED BY <2>1, <2>2 DEF Flow, MainHolds, Setting
<1>13. CASE timeout_proc
  <2>1. main'.in = "task" /\ main'.pc = "except" /\ main'.todo = <<>>
    BY <1>0, <1>13 DEF timeout_proc, TypeOK, Programs
  <2> QED BY <2>1 DEF Flow, MainHolds, Setting
<1>14. CASE handler_returns
  <2>1. CASE main.in = "pause" /\ main.pc = "idle"
    <3>1. main' = [main EXCEPT !.in = "down"]
      BY <1>14, <2>1 DEF handler_returns
    <3>2. main'.in = "down" /\ main'.pc = "idle" /\ main'.todo = main.todo /\ main.todo = <<>>
      BY <1>0, <2>1, <3>1 DEF TypeOK, Programs, Flow
    <3> QED BY <3>2 DEF Flow, MainHolds, Setting
  <2>2. CASE ~(main.in = "pause" /\ main.pc = "idle")
    BY <1>1, <1>14, <2>2 DEF handler_returns
  <2> QED BY <2>1, <2>2
<1>15. CASE \/ wakeup_call \/ virtual_wakeup_call \/ free_timer \/ virtual_timer_is_null
            \/ DeliverAlarm \/ DeliverVirtual \/ Tick \/ AlarmExpires \/ VirtualRuns
  BY <1>1, <1>15 DEF wakeup_call, virtual_wakeup_call, free_timer, virtual_timer_is_null,
     DeliverAlarm, DeliverVirtual, Tick, AlarmExpires, VirtualRuns, Crash
<1> QED
  BY <1>3, <1>4, <1>5, <1>6, <1>7, <1>8, <1>9, <1>10, <1>11, <1>12, <1>13, <1>14, <1>15, <1>16
  DEF Next, Statements

-----------------------------------------------------------------------------
(* Every node has one owner. *)

\* A node that gets a new owner is taken from the one it had.
LEMMA OwnerMoves ==
  ASSUME OneOwner, NEW x, NEW new,
         \A n \in Nodes : \A o \in Owners : Owns(o, n)' => IF n = x THEN o = new ELSE Owns(o, n)
  PROVE  OneOwner'
BY DEF OneOwner

FramesLess ==
  \A i \in DOMAIN frames' : FrameHolds(i)' =>
    /\ i \in DOMAIN frames /\ frames[i].pc = frames'[i].pc
    /\ frames[i].sig = frames'[i].sig /\ frames[i].this = frames'[i].this
MainLess ==
  /\ MainHolds' => MainHolds /\ main'.this = main.this
  /\ main'.pc = "take" => main.pc = "take" /\ main'.this = main.this

\* Nodes keep their owners where no pointer changes.
LEMMA OwnersKept ==
  ASSUME OneOwner, FramesLess, MainLess, UNCHANGED <<next, active, free, virt, heap>>
  PROVE  OneOwner'
<1>1. ASSUME NEW n \in Nodes, NEW o \in Owners, Owns(o, n)'
      PROVE  Owns(o, n)
  <2>1. CASE \E i \in DOMAIN frames' : o = frames'[i].sig /\ FrameHolds(i)' /\ n = frames'[i].this
    BY <2>1 DEF FramesLess, FrameHolds, Owns
  <2>2. CASE \E i \in DOMAIN frames' : /\ o = "free" /\ frames'[i].pc = "push"
                                       /\ n \in Chain(next', next'[frames'[i].this])
    <3>1. PICK i \in DOMAIN frames' : /\ o = "free" /\ frames'[i].pc = "push"
                                       /\ n \in Chain(next', next'[frames'[i].this])
      BY <2>2
    <3>2. i \in DOMAIN frames /\ frames[i].pc = "push" /\ frames[i].this = frames'[i].this
      BY <3>1 DEF FramesLess, FrameHolds
    <3> QED BY <3>1, <3>2 DEF Owns
  <2>3. CASE \/ o = "active" /\ n \in Chain(next', active')
             \/ o = "free" /\ n \in Chain(next', free')
             \/ o = "free" /\ main'.pc = "take" /\ n \in Chain(next', main'.this)
             \/ o = "heap" /\ n \in heap'
             \/ o = "virt" /\ n = virt'
             \/ o = "main" /\ n = main'.this /\ MainHolds'
    BY <2>3 DEF MainLess, Owns
  <2> QED BY <1>1, <2>1, <2>2, <2>3 DEF Owns
<1> QED
  BY <1>1 DEF OneOwner

\* Nothing that has to do with nodes is done.
LEMMA QuietStep ==
  ASSUME IInv, Next,
         \/ Callers \/ virtual_timer_is_set \/ stop_timers \/ restart_timers \/ Return
         \/ reenable_timers \/ pause \/ virtual_timer_is_null \/ timeout_proc \/ handler_returns
         \/ DeliverAlarm \/ DeliverVirtual \/ Tick \/ AlarmExpires \/ VirtualRuns
  PROVE  FramesLess /\ MainLess /\ UNCHANGED <<next, active, free, virt, heap>>
<1>0. TypeOK /\ FramesOK /\ Flow /\ VirtualOK
  BY DEF IInv
<1>l. UNCHANGED lists => UNCHANGED <<next, active, free, virt, heap>>
  BY DEF lists
<1>f. frames' = frames => FramesLess
  BY DEF FramesLess, FrameHolds
<1>m. main' = main => MainLess
  BY DEF MainLess, MainHolds, Setting, Call
<1>g. ASSUME NEW pc, Goto(pc), pc \notin {"take", "fill"},
             pc \in {"stop", "ignore", "edit"} => MainHolds \/ Call.op # "set"
      PROVE  MainLess
  <2>1. main'.pc = pc /\ main'.todo = main.todo /\ main'.this = main.this
    BY <1>0, <1>g, MainGoes
  <2> QED BY <1>g, <2>1 DEF MainLess, MainHolds, Setting, Call
<1>1. CASE Callers
  <2>1. CallersBegin
    BY <1>0, <1>1, CallersDo
  <2>2. main'.pc = "stop" => Call'.op = "cancel"
    BY <2>1 DEF CallersBegin
  <2>3. MainLess
    BY <2>1, <2>2 DEF MainLess, MainHolds, Setting, CallersBegin
  <2> QED BY <1>f, <1>l, <2>1, <2>3 DEF CallersBegin
<1>2. CASE virtual_timer_is_set
  <2>1. Call.op = "setv"
    BY <1>0, <1>2, StepsAre, CallIs DEF virtual_timer_is_set, InMain, Flow, Requests, Ops
  <2> QED BY <1>f, <1>l, <1>g, <1>2, <2>1 DEF virtual_timer_is_set, Then
<1>3. CASE stop_timers
  <2>1. main.todo # <<>> /\ main.pc \in {"stop", "ignore"}
    BY <1>0, <1>3 DEF stop_timers, InMain, Flow
  <2>2. MainHolds \/ Call.op # "set"
    BY <2>1 DEF MainHolds, Setting
  <2> QED BY <1>f, <1>l, <1>g, <1>3, <2>2 DEF stop_timers, lists
<1>4. CASE restart_timers
  <2>1. CASE Crash
    BY <1>f, <1>l, <1>m, <2>1 DEF Crash
  <2>2. CASE frames = <<>> /\ UNCHANGED frames /\ UNCHANGED lists
             /\ \E pc \in {"vtest", "varm", "done"} : Goto(pc)
    BY <1>f, <1>l, <1>g, <2>2
  <2>3. CASE frames # <<>> /\ UNCHANGED main /\ UNCHANGED lists
             /\ Top.pc \in {"alarm", "vtest", "varm"}
             /\ \E pc \in {"vtest", "varm", "done"} : TopGoto(pc)
    <3>1. PICK pc \in {"vtest", "varm", "done"} : TopGoto(pc)
      BY <2>3
    <3>2. /\ DOMAIN frames' = DOMAIN frames
          /\ \A i \in DOMAIN frames : i # Len(frames) => frames'[i] = frames[i]
          /\ frames'[Len(frames)].pc = pc
      BY <1>0, <2>3, <3>1, TopGoes
    <3>3. FramesLess
      BY <3>2 DEF FramesLess, FrameHolds
    <3> QED BY <1>l, <1>m, <2>3, <3>3
  <2> QED BY <1>4, <2>1, <2>2, <2>3 DEF restart_timers, MoveTo, In, InMain, InHandler
<1>5. CASE Return
  <2>1. /\ main'.pc = "idle" \/ main'.pc = Begin(Head(main'.todo).op)
        /\ main'.todo = <<>> => main'.pc = "idle"
        /\ UNCHANGED <<lists, frames>>
    BY <1>0, <1>5, ReturnIs
  <2>2. main'.pc = "stop" => Call'.op # "set"
    BY <2>1 DEF Begin, Call
  <2>3. main'.pc \in {"idle", "test", "check", "stop"}
    BY <2>1 DEF Begin
  <2>4. MainLess
    BY <2>2, <2>3 DEF MainLess, MainHolds, Setting
  <2> QED BY <1>f, <1>l, <2>1, <2>4
<1>6. CASE reenable_timers
  BY <1>f, <1>l, <1>g, <1>6 DEF reenable_timers
<1>12. CASE virtual_timer_is_null
  BY <1>f, <1>l, <1>m, <1>12 DEF virtual_timer_is_null, Crash
<1>13. CASE pause
  <2>1. UNCHANGED <<lists, frames>> /\ main'.pc = main.pc /\ main.pc = "idle"
    BY <1>0, <1>13 DEF pause, InCaller, InMain, TypeOK, Programs
  <2>2. MainLess
    BY <2>1 DEF MainLess, MainHolds
  <2> QED BY <1>f, <1>l, <2>1, <2>2
<1>7. CASE timeout_proc
  <2>1. frames' = <<>> /\ main'.pc = "except" /\ UNCHANGED lists
    BY <1>0, <1>7 DEF timeout_proc, TypeOK, Programs
  <2>2. FramesLess /\ MainLess
    BY <2>1 DEF FramesLess, MainLess, MainHolds
  <2> QED BY <1>l, <2>1, <2>2
<1>8. CASE handler_returns
  <2>1. frames # <<>> /\ frames' = Front(frames) /\ UNCHANGED lists
    BY <1>8 DEF handler_returns
  <2>2. FramesLess
    BY <1>0, <2>1, TopEnds DEF FramesLess, FrameHolds
  <2>3. main'.pc = main.pc /\ main'.this = main.this /\ main'.todo = main.todo
    BY <1>0, <1>8 DEF handler_returns, TypeOK, Programs
  <2>4. MainLess
    BY <2>3 DEF MainLess, MainHolds, Setting, Call
  <2> QED BY <1>l, <2>1, <2>2, <2>4
<1>9. ASSUME NEW sig \in {"alrm", "vtalrm"}, frames' = Append(frames, Frame(sig))
      PROVE  FramesLess
  <2> DEFINE last == Len(frames) + 1
  <2>1. /\ DOMAIN frames' = DOMAIN frames \cup {last}
        /\ \A i \in DOMAIN frames : frames'[i] = frames[i]
        /\ frames'[last].pc = "pop"
    BY <1>0, <1>9, TopStarts
  <2> HIDE DEF last
  <2> QED BY <2>1 DEF FramesLess, FrameHolds
<1>10. CASE DeliverAlarm \/ DeliverVirtual
  BY <1>9, <1>l, <1>m, <1>10 DEF DeliverAlarm, DeliverVirtual
<1>11. CASE Tick \/ AlarmExpires \/ VirtualRuns
  BY <1>f, <1>l, <1>m, <1>11 DEF Tick, AlarmExpires, VirtualRuns
<1> QED
  BY <1>1, <1>2, <1>3, <1>4, <1>5, <1>6, <1>7, <1>8, <1>10, <1>11, <1>12, <1>13

\* A node goes from one owner to another.
LEMMA NodeMoves ==
  ASSUME OneOwner, NEW x \in Nodes, NEW old \in Owners, Owns(old, x), NEW new \in Owners,
         \A n \in Nodes : \A o \in Owners : Owns(o, n)' => Owns(o, n) \/ (n = x /\ o = new),
         old # new => ~Owns(old, x)'
  PROVE  OneOwner'
<1>1. ASSUME NEW n \in Nodes, NEW o \in Owners, Owns(o, n)'
      PROVE  IF n = x THEN o = new ELSE Owns(o, n)
  <2>1. CASE n = x
    <3>1. Owns(o, x) => o = old
      BY DEF OneOwner
    <3> QED BY <1>1, <2>1, <3>1
  <2>2. CASE n # x
    BY <1>1, <2>2
  <2> QED BY <2>1, <2>2
<1> QED
  BY <1>1, OwnerMoves

\* Two owners of a node are the same.
LEMMA OwnersDiffer ==
  ASSUME OneOwner, NEW n \in Nodes, NEW o \in Owners, NEW p \in Owners, o # p, Owns(o, n)
  PROVE  ~Owns(p, n)
BY DEF OneOwner

\* While no handler runs
LEMMA OwnsAlone ==
  ASSUME frames = <<>>, frames' = frames, NEW n, NEW o
  PROVE  Owns(o, n)' <=>
           \/ o = "active" /\ n \in Chain(next', active')
           \/ o = "free" /\ n \in Chain(next', free')
           \/ o = "free" /\ main'.pc = "take" /\ n \in Chain(next', main'.this)
           \/ o = "heap" /\ n \in heap'
           \/ o = "virt" /\ n = virt'
           \/ o = "main" /\ n = main'.this /\ MainHolds'
<1>1. DOMAIN frames' = {}
  OBVIOUS
<1> QED
  BY <1>1 DEF Owns

\* allocate_timer() takes its node off free_timers or from malloc(), though a handler
\* may push another between its two statements.
LEMMA AllocateOwns ==
  ASSUME IInv, allocate_timer
  PROVE  Acyclic(next') /\ OneOwner'
<1>0. TypeOK /\ OneOwner /\ Acyclic(next) /\ Flow /\ frames = <<>> /\ frames' = frames
  BY DEF IInv, allocate_timer, InMain, Then
<1>1. next' = next /\ active' = active /\ virt' = virt
  BY DEF allocate_timer
<1>2. CASE InMain("test") /\ free # Null /\ main' = [main EXCEPT !.pc = "take", !.this = free]
           /\ UNCHANGED heap /\ UNCHANGED free
  <2>1. main'.pc = "take" /\ main'.this = free
    BY <1>0, <1>2 DEF TypeOK, Programs
  <2>2. ~MainHolds'
    BY <2>1 DEF MainHolds
  <2>3. \A n \in Nodes : \A o \in Owners : Owns(o, n)' => Owns(o, n)
    BY <1>0, <1>1, <1>2, <2>1, <2>2, OwnsAlone DEF Owns
  <2> QED BY <1>0, <1>1, <2>3 DEF OneOwner
<1>3. CASE InMain("test") /\ heap # {} /\ heap' = heap \ {malloc} /\ UNCHANGED free
           /\ main' = [main EXCEPT !.pc = "fill", !.this = malloc]
  <2>0. PICK x \in Nodes : x = malloc /\ x \in heap
    BY <1>0, <1>3 DEF TypeOK, malloc
  <2>1. main'.pc = "fill" /\ main'.this = x /\ heap' = heap \ {x}
    BY <1>0, <1>3, <2>0 DEF TypeOK, Programs
  <2>2. \A n \in Nodes : \A o \in Owners : Owns(o, n)' => Owns(o, n) \/ (n = x /\ o = "main")
    BY <1>0, <1>1, <1>3, <2>1, OwnsAlone DEF Owns
  <2>3. ~Owns("heap", x)'
    BY <1>0, <1>3, <2>1, OwnsAlone
  <2>4. Owns("heap", x) /\ "heap" \in Owners /\ "main" \in Owners
    BY <2>0 DEF Owns, Owners
  <2> QED BY <1>0, <1>1, <2>1, <2>2, <2>3, <2>4, NodeMoves
<1>4. CASE InMain("take") /\ free' = next[main.this] /\ Then("fill") /\ UNCHANGED heap
  <2>1. main.pc = "take" /\ main.this \in Nodes
    <3>1. main.pc = "take" /\ main.todo # <<>>
      BY <1>0, <1>4 DEF InMain, Flow
    <3>2. Call.op # "cancel"
      BY <1>0, <3>1, StepsAre DEF Flow
    <3> QED BY <1>0, <3>1, <3>2 DEF Flow
  <2>x. PICK x \in Nodes : x = main.this
    BY <2>1
  <2>2. main'.pc = "fill" /\ main'.this = x /\ free' = next[x]
    BY <1>0, <1>4, <2>x, MainGoes DEF Then
  <2>3. Chain(next, x) = {x} \cup Chain(next, next[x]) /\ x \notin Chain(next, next[x])
    BY <1>0, <2>1, ChainUnfolds DEF TypeOK
  <2>4. \A n \in Nodes : \A o \in Owners : Owns(o, n)' => Owns(o, n) \/ (n = x /\ o = "main")
    BY <1>0, <1>1, <1>4, <2>x, <2>1, <2>2, <2>3, OwnsAlone DEF Owns
  <2>5. ~Owns("free", x)'
    BY <1>0, <1>1, <1>4, <2>2, <2>3, OwnsAlone
  <2>6. Owns("free", x) /\ "free" \in Owners /\ "main" \in Owners
    BY <2>x, <2>1, <2>3 DEF Owns, Owners
  <2> QED BY <1>0, <1>1, <2>1, <2>4, <2>5, <2>6, NodeMoves
<1> QED
  BY <1>2, <1>3, <1>4 DEF allocate_timer

\* set_virtual_timer() makes the node it has filled the virtual timer.
LEMMA FillOwns ==
  ASSUME IInv, fill_timer
  PROVE  Acyclic(next') /\ OneOwner'
<1>0. TypeOK /\ OneOwner /\ Acyclic(next) /\ Flow /\ frames = <<>> /\ frames' = frames
  BY DEF IInv, fill_timer, InMain, Then
<1>1. next' = next /\ active' = active /\ free' = free /\ heap' = heap /\ main.pc = "fill"
  BY DEF fill_timer, InMain
<1>2. CASE Call.op = "set"
  <2>1. virt' = virt /\ main'.pc = "stop" /\ main'.this = main.this
    BY <1>0, <1>2, MainGoes DEF fill_timer, Then
  <2>2. FramesLess /\ MainLess
    BY <1>0, <1>1, <2>1 DEF FramesLess, MainLess, FrameHolds, MainHolds
  <2> QED BY <1>0, <1>1, <2>1, <2>2, OwnersKept
<1>3. CASE Call.op # "set"
  <2>x. PICK x \in Nodes : x = main.this
    BY <1>0, <1>1 DEF Flow, MainHolds
  <2>1. virt' = x /\ main'.pc = "alarm" /\ main'.this = x
    BY <1>0, <1>3, <2>x, MainGoes DEF fill_timer, Then
  <2>2. x \in Nodes /\ MainHolds /\ ~MainHolds'
    BY <1>0, <1>1, <2>1 DEF MainHolds
  <2>3. \A n \in Nodes : \A o \in Owners : Owns(o, n)' => Owns(o, n) \/ (n = x /\ o = "virt")
    BY <1>0, <1>1, <2>1, <2>2, OwnsAlone DEF Owns
  <2>4. ~Owns("main", x)'
    BY <1>0, <2>2, OwnsAlone
  <2>5. Owns("main", x) /\ "virt" \in Owners /\ "main" \in Owners
    BY <2>x, <2>2 DEF Owns, Owners
  <2> QED BY <1>0, <1>1, <2>2, <2>3, <2>4, <2>5, NodeMoves
<1> QED
  BY <1>2, <1>3

\* The chains after a node is linked behind p, or in front
LEMMA InsertChains ==
  ASSUME IInv, insert_timer
  PROVE  /\ main.this \in Nodes /\ MainHolds
         /\ next' \in Pointers /\ Acyclic(next')
         /\ Chain(next', active') \subseteq Chain(next, active) \cup {main.this}
         /\ Chain(next', free') \subseteq Chain(next, free)
<1> DEFINE x == main.this
           A == Chain(next, active)
           F == Chain(next, free)
<1>0. TypeOK /\ OneOwner /\ Acyclic(next) /\ Flow
  BY DEF IInv
<1>1. x \in Nodes /\ MainHolds
  BY <1>0 DEF insert_timer, InMain, Flow, MainHolds, Setting
<1>2. next \in Pointers /\ active \in Ref /\ free \in Ref /\ free' = free
  BY <1>0 DEF TypeOK, insert_timer
<1>3. A \in SUBSET Nodes /\ Closed(next, A) /\ active \in A \cup {Null}
  BY <1>0, <1>2, ChainFacts DEF Ref
<1>4. F \in SUBSET Nodes
  BY <1>0, <1>2, ChainFacts
<1>5. /\ \A n \in A : Owns("active", n)
      /\ \A n \in F : Owns("free", n)
      /\ Owns("main", x)
  BY <1>1 DEF Owns
<1>6. x \notin A /\ x \notin F /\ A \cap F = {}
  <2>1. {"active", "free", "main"} \subseteq Owners
    BY DEF Owners
  <2> QED BY <1>0, <1>1, <1>3, <1>5, <2>1, OwnersDiffer
<1> DEFINE p == Behind(x)
<1>p. p = Null \/ p \in A
  BY <1>0, BehindIs
<1>i. IF p = Null
      THEN next' = [next EXCEPT ![x] = active] /\ active' = x
      ELSE next' = [next EXCEPT ![x] = next[p], ![p] = x] /\ active' = active
  BY DEF insert_timer
<1> HIDE DEF x, A, F, p
<1>7. CASE p = Null
  <2>1. next' = [next EXCEPT ![x] = active] /\ active' = x
    BY <1>7, <1>i
  <2>2. next' \in Pointers /\ Acyclic(next') /\ Closed(next', A \cup {x})
    BY <1>0, <1>1, <1>2, <1>3, <1>6, <2>1, Repoint
  <2>3. Chain(next', active') \subseteq A \cup {x}
    <3>1. A \cup {x} \in SUBSET Nodes /\ x \in Ref
      BY <1>1, <1>3 DEF Ref
    <3> QED BY <2>1, <2>2, <3>1, ChainLeast
  <2>4. Chain(next', free') \subseteq F
    BY <1>0, <1>1, <1>2, <1>6, <2>1, ChainKept DEF F
  <2> QED BY <1>1, <2>2, <2>3, <2>4 DEF x, A, F
<1>8. CASE p # Null
  <2>1. next' = [next EXCEPT ![x] = next[p], ![p] = x] /\ active' = active
    BY <1>8, <1>i
  <2>2. p \in A /\ p \in Nodes /\ p # x /\ p \notin F
    BY <1>8, <1>p, <1>3, <1>6
  <2> DEFINE mid == [next EXCEPT ![x] = next[p]]
             B == Chain(next, next[p])
  <2>3. next[p] \in A \cup {Null} /\ next[p] \in Ref
    BY <1>2, <1>3, <2>2 DEF Closed, Pointers
  <2>4. B \in SUBSET Nodes /\ Closed(next, B) /\ next[p] \in B \cup {Null} /\ p \notin B
    BY <1>0, <1>2, <2>2, <2>3, ChainFacts, ChainUnfolds DEF Ref
  <2>5. B \subseteq A
    BY <1>0, <1>2, <2>2, ChainGoesOn DEF A
  <2>6. x \notin B
    BY <2>5, <1>6
  <2>7. mid \in Pointers /\ Acyclic(mid) /\ Closed(mid, B \cup {x})
    <3> HIDE DEF B
    <3> QED BY <1>0, <1>1, <1>2, <2>4, <2>6, Repoint
  <2>8. next' = [mid EXCEPT ![p] = x]
    BY <2>1
  <2>9. Chain(mid, free) \subseteq F
    BY <1>0, <1>1, <1>2, <1>6, <2>3, ChainKept DEF F
  <2> HIDE DEF mid, B
  <2>10. next' \in Pointers /\ Acyclic(next')
    <3>1. B \cup {x} \in SUBSET Nodes /\ p \notin B \cup {x} /\ x \in (B \cup {x}) \cup {Null}
      BY <2>2, <2>4, <1>1
    <3> QED BY <2>2, <2>7, <2>8, <3>1, Repoint
  <2>11. Chain(next', free') \subseteq F
    <3>1. x \in Ref /\ p \notin Chain(mid, free)
      BY <1>1, <2>2, <2>9 DEF Ref
    <3>2. Chain(next', free) \subseteq Chain(mid, free)
      BY <1>2, <2>2, <2>7, <2>8, <3>1, ChainKept
    <3> QED BY <1>2, <2>9, <3>2
  <2>12. Closed(next', A \cup {x})
    <3>1. /\ next'[p] = x /\ next'[x] = next[p]
          /\ \A n \in Nodes : n # x /\ n # p => next'[n] = next[n]
      BY <1>1, <1>2, <2>1, <2>2 DEF Pointers
    <3> QED BY <1>3, <2>3, <3>1 DEF Closed
  <2>13. Chain(next', active') \subseteq A \cup {x}
    <3>1. A \cup {x} \in SUBSET Nodes /\ active' \in Ref /\ active' \in (A \cup {x}) \cup {Null}
      BY <1>1, <1>2, <1>3, <2>1
    <3> QED BY <2>10, <2>12, <3>1, ChainLeast
  <2> QED BY <1>1, <2>10, <2>11, <2>13 DEF x, A, F
<1> QED
  BY <1>7, <1>8

\* set_timer() links its node into active_timers.
LEMMA InsertOwns ==
  ASSUME IInv, insert_timer
  PROVE  Acyclic(next') /\ OneOwner'
<1>0. TypeOK /\ OneOwner /\ frames = <<>> /\ frames' = frames
  BY DEF IInv, insert_timer, InMain, Then
<1>x. PICK x \in Nodes : x = main.this
  BY InsertChains
<1>1. /\ MainHolds /\ Acyclic(next')
      /\ Chain(next', active') \subseteq Chain(next, active) \cup {x}
      /\ Chain(next', free') \subseteq Chain(next, free)
  BY <1>x, InsertChains
<1>2. virt' = virt /\ heap' = heap /\ main'.pc = "alarm"
  BY <1>0, MainGoes DEF insert_timer, Then
<1>3. ~MainHolds'
  BY <1>2 DEF MainHolds
<1>4. Owns("main", x) /\ "active" \in Owners /\ "main" \in Owners
  BY <1>x, <1>1 DEF Owns, Owners
<1>5. \A n \in Nodes : \A o \in Owners : Owns(o, n)' => Owns(o, n) \/ (n = x /\ o = "active")
  BY <1>0, <1>1, <1>2, <1>3, OwnsAlone DEF Owns
<1>6. ~Owns("main", x)'
  BY <1>0, <1>3, OwnsAlone
<1> QED
  BY <1>0, <1>1, <1>4, <1>5, <1>6, NodeMoves

\* The chains after the node behind p, or the first, is unlinked
LEMMA UnlinkChains ==
  ASSUME IInv, NEW p \in Chain(next, active) \cup {Null}, LinkOf(p) # Null,
         Link(p, next[LinkOf(p)])
  PROVE  /\ LinkOf(p) \in Chain(next, active) /\ LinkOf(p) \in Nodes
         /\ next' \in Pointers /\ Acyclic(next')
         /\ Chain(next', active') \subseteq Chain(next, active) \ {LinkOf(p)}
         /\ Chain(next', free) \subseteq Chain(next, free)
<1> DEFINE A == Chain(next, active)
           F == Chain(next, free)
           n == LinkOf(p)
<1>0. TypeOK /\ OneOwner /\ Acyclic(next)
  BY DEF IInv
<1>1. next \in Pointers /\ active \in Ref /\ free \in Ref
  BY <1>0 DEF TypeOK
<1>2. A \in SUBSET Nodes /\ Closed(next, A) /\ active \in A \cup {Null} /\ F \in SUBSET Nodes
  BY <1>0, <1>1, ChainFacts DEF Ref
<1>3. A \cap F = {}
  <2>1. /\ {"active", "free"} \subseteq Owners
        /\ \A m \in A : Owns("active", m)
        /\ \A m \in F : Owns("free", m)
    BY DEF Owners, Owns
  <2> QED BY <1>0, <1>2, <2>1, OwnersDiffer
<1>4. n = IF p = Null THEN active ELSE next[p]
  BY DEF LinkOf
<1>5. n \in A /\ n \in Nodes /\ n # Null
  BY <1>2, <1>4 DEF Closed
<1>6. /\ p = Null => active' = next[n] /\ next' = next
      /\ p # Null => next' = [next EXCEPT ![p] = next[n]] /\ active' = active
  BY DEF Link
<1> DEFINE B == Chain(next, next[n])
<1>7. Chain(next, n) = {n} \cup B /\ n \notin B
  BY <1>0, <1>1, <1>5, ChainUnfolds
<1>8. next[n] \in Ref /\ next[n] \in A \cup {Null}
  BY <1>1, <1>2, <1>5 DEF Pointers, Closed
<1>9. B \in SUBSET Nodes /\ Closed(next, B) /\ next[n] \in B \cup {Null}
  BY <1>0, <1>1, <1>8, ChainFacts DEF Ref
<1>10. B \subseteq A
  BY <1>0, <1>1, <1>5, ChainGoesOn
<1>k. ASSUME NEW m \in A, NEW k \in A, next[m] = next[k], next[m] # Null PROVE m = k
  BY <1>0, <1>1, <1>k, ChainOnce
<1>11. CASE p = Null
  <2>1. active' = next[n] /\ next' = next
    BY <1>6, <1>11
  <2>2. Chain(next', active') \subseteq A \ {n}
    BY <1>7, <1>10, <2>1
  <2> QED BY <1>0, <1>1, <1>5, <2>1, <2>2
<1>12. CASE p # Null
  <2>1. next' = [next EXCEPT ![p] = next[n]] /\ active' = active
    BY <1>6, <1>12
  <2>2. p \in A /\ p \in Nodes /\ p \notin F /\ n = next[p]
    BY <1>2, <1>3, <1>4, <1>12
  <2>3. p \notin Chain(next, n) /\ Chain(next, p) = {p} \cup Chain(next, n)
    BY <1>0, <1>1, <2>2, ChainUnfolds
  <2> HIDE DEF n, B, A, F
  <2>4. p \notin B /\ p # n
    BY <1>7, <2>3
  <2>5. next' \in Pointers /\ Acyclic(next')
    BY <1>0, <1>1, <1>9, <2>1, <2>2, <2>4, Repoint
  <2>6. Closed(next', A \ {n})
    <3>1. next'[p] = next[n] /\ \A m \in Nodes : m # p => next'[m] = next[m]
      BY <1>1, <2>1, <2>2 DEF Pointers
    <3>2. ASSUME NEW m \in A \ {n}, next'[m] # Null PROVE next'[m] \in A \ {n}
      <4>1. CASE m = p
        <5>1. next'[m] = next[n] /\ next[n] \in B
          BY <3>1, <3>2, <4>1, <1>9
        <5> QED BY <5>1, <1>7, <1>10
      <4>2. CASE m # p
        <5>1. next'[m] = next[m] /\ m \in Nodes
          BY <3>1, <3>2, <4>2, <1>2
        <5>2. next[m] \in A
          BY <3>2, <5>1, <1>2 DEF Closed
        <5>3. next[m] # n
          BY <1>k, <3>2, <4>2, <2>2, <1>5
        <5> QED BY <5>1, <5>2, <5>3
      <4> QED BY <4>1, <4>2
    <3> QED BY <3>2 DEF Closed
  <2>7. active \in (A \ {n}) \cup {Null}
    <3>1. SUFFICES ASSUME active = n PROVE FALSE
      BY <1>2
    <3>2. p \in Chain(next, n)
      BY <2>2, <3>1 DEF A
    <3> QED BY <3>2, <2>3
  <2>8. Chain(next', active') \subseteq A \ {n}
    <3>1. A \ {n} \in SUBSET Nodes
      BY <1>2
    <3> QED BY <1>1, <2>1, <2>5, <2>6, <2>7, <3>1, ChainLeast
  <2>9. Chain(next', free) \subseteq F
    BY <1>0, <1>1, <1>8, <2>1, <2>2, ChainKept DEF F
  <2> QED BY <1>5, <2>5, <2>8, <2>9 DEF A, F, n
<1> QED
  BY <1>11, <1>12

\* cancel_timer() gives the node it unlinks back to malloc(), and only that one.
LEMMA RemoveOwns ==
  ASSUME IInv, remove_timer
  PROVE  Acyclic(next') /\ OneOwner'
<1>0. TypeOK /\ OneOwner /\ Acyclic(next) /\ Flow /\ frames = <<>> /\ frames' = frames
  BY DEF IInv, remove_timer, InMain, Then
<1>1. free' = free /\ main'.pc = "alarm" /\ ~MainHolds'
  BY <1>0, MainGoes DEF remove_timer, Then, MainHolds
<1>2. CASE IsVirtual(Call.id) /\ virt' = Null /\ heap' = heap \cup {virt} /\ UNCHANGED <<next, active>>
  <2>1. PICK x \in Nodes : x = virt
    BY <1>0, <1>2 DEF TypeOK, Ref, IsVirtual
  <2>2. \A n \in Nodes : \A o \in Owners : Owns(o, n)' => Owns(o, n) \/ (n = x /\ o = "heap")
    BY <1>0, <1>1, <1>2, <2>1, TimersAssumption, OwnsAlone DEF Owns
  <2>3. ~Owns("virt", x)'
    BY <1>0, <1>2, <2>1, TimersAssumption, OwnsAlone
  <2>4. Owns("virt", x) /\ "virt" \in Owners /\ "heap" \in Owners
    BY <2>1 DEF Owns, Owners
  <2> QED BY <1>0, <1>2, <2>2, <2>3, <2>4, NodeMoves
<1>3. ASSUME NEW p \in Reach(active) \cup {Null}, LinkOf(p) # Null, UNCHANGED virt,
             Link(p, next[LinkOf(p)]), heap' = heap \cup {LinkOf(p)}
      PROVE  Acyclic(next') /\ OneOwner'
  <2>1. p \in Chain(next, active) \cup {Null}
    BY DEF Reach
  <2>2. PICK x \in Nodes : x = LinkOf(p)
    BY <1>3, <2>1, UnlinkChains
  <2>3. /\ x \in Chain(next, active) /\ Acyclic(next')
        /\ Chain(next', active') \subseteq Chain(next, active) \ {x}
        /\ Chain(next', free) \subseteq Chain(next, free)
    BY <1>3, <2>1, <2>2, UnlinkChains
  <2>4. \A n \in Nodes : \A o \in Owners : Owns(o, n)' => Owns(o, n) \/ (n = x /\ o = "heap")
    BY <1>0, <1>1, <1>3, <2>2, <2>3, OwnsAlone DEF Owns
  <2>5. ~Owns("active", x)'
    BY <1>0, <2>3, OwnsAlone
  <2>6. Owns("active", x) /\ "active" \in Owners /\ "heap" \in Owners
    BY <2>3 DEF Owns, Owners
  <2> QED BY <1>0, <2>3, <2>4, <2>5, <2>6, NodeMoves
<1>4. CASE UNCHANGED <<virt, next, active, heap>>
  <2>1. FramesLess /\ MainLess
    BY <1>0, <1>1 DEF FramesLess, MainLess, FrameHolds
  <2> QED BY <1>0, <1>1, <1>4, <2>1, OwnersKept
<1> QED
  BY <1>2, <1>3, <1>4 DEF remove_timer

\* A handler takes a node: nothing else becomes of the frames.
LEMMA TakeOwns ==
  ASSUME IInv, frames # <<>>, NEW x \in Nodes, NEW old \in {"active", "virt"}, Owns(old, x),
         TopHolds("link", x), ~FrameHolds(Len(frames)),
         UNCHANGED <<next, free, heap, main>>,
         Chain(next, active') \subseteq Chain(next, active),
         virt' \in {virt, Null},
         old = "active" => x \notin Chain(next, active'),
         old = "virt" => virt' = Null
  PROVE  OneOwner'
<1> DEFINE k == Len(frames)
<1>0. TypeOK /\ OneOwner
  BY DEF IInv
<1>1. k \in DOMAIN frames /\ Top = frames[k] /\ Top.sig \in {"alrm", "vtalrm"}
  BY <1>0, TopIs DEF Frames
<1>2. /\ DOMAIN frames' = DOMAIN frames
      /\ \A i \in DOMAIN frames : i # k => frames'[i] = frames[i]
      /\ frames'[k].sig = Top.sig
      /\ frames'[k].pc = "link"
      /\ frames'[k].this = x
  BY <1>0, TopTakes
<1> HIDE DEF k
<1>m. main' = main /\ (MainHolds' <=> MainHolds)
  BY DEF MainHolds, Setting, Call
<1>n. PICK sig \in {"alrm", "vtalrm"} : sig = Top.sig
  BY <1>1
<1>3. ASSUME NEW n \in Nodes, NEW o \in Owners, Owns(o, n)'
      PROVE  Owns(o, n) \/ (n = x /\ o = sig)
  <2>1. CASE \E i \in DOMAIN frames' : o = frames'[i].sig /\ FrameHolds(i)' /\ n = frames'[i].this
    <3>1. PICK i \in DOMAIN frames' : o = frames'[i].sig /\ FrameHolds(i)' /\ n = frames'[i].this
      BY <2>1
    <3>2. CASE i = k
      BY <3>1, <3>2, <1>2, <1>n
    <3>3. CASE i # k
      BY <3>1, <3>3, <1>2 DEF Owns, FrameHolds
    <3> QED BY <3>2, <3>3
  <2>2. CASE \E i \in DOMAIN frames' : /\ o = "free" /\ frames'[i].pc = "push"
                                       /\ n \in Chain(next', next'[frames'[i].this])
    <3>1. PICK i \in DOMAIN frames' : /\ o = "free" /\ frames'[i].pc = "push"
                                      /\ n \in Chain(next', next'[frames'[i].this])
      BY <2>2
    <3>2. i # k /\ i \in DOMAIN frames
      BY <3>1, <1>2
    <3>3. frames'[i] = frames[i]
      BY <3>2, <1>2
    <3> QED BY <3>1, <3>2, <3>3 DEF Owns
  <2>3. CASE \/ o = "active" /\ n \in Chain(next', active')
             \/ o = "free" /\ n \in Chain(next', free')
             \/ o = "free" /\ main'.pc = "take" /\ n \in Chain(next', main'.this)
             \/ o = "heap" /\ n \in heap'
             \/ o = "virt" /\ n = virt'
             \/ o = "main" /\ n = main'.this /\ MainHolds'
    BY <2>3, <1>m, TimersAssumption DEF Owns
  <2> QED BY <1>3, <2>1, <2>2, <2>3 DEF Owns
<1>4. ~Owns(old, x)'
  <2>1. \A i \in DOMAIN frames' : frames'[i].sig \in {"alrm", "vtalrm"}
    <3>1. frames' \in Seq(Frames)
      BY <1>0, TopTakes
    <3> QED BY <3>1, FramesAre
  <2> QED BY <2>1, TimersAssumption DEF Owns
<1>5. {"active", "virt", "alrm", "vtalrm"} \subseteq Owners
  BY DEF Owners
<1> QED
  BY <1>0, <1>3, <1>4, <1>5, NodeMoves

\* A handler that takes a timer off its list has it in hand.
LEMMA WakeupOwns ==
  ASSUME IInv, wakeup_call \/ virtual_wakeup_call
  PROVE  Acyclic(next') /\ OneOwner'
<1>0. TypeOK /\ OneOwner /\ Acyclic(next)
  BY DEF IInv
<1>1. CASE Crash
  <2>1. FramesLess /\ MainLess /\ UNCHANGED <<next, active, free, virt, heap>>
    BY <1>1 DEF Crash, lists, FramesLess, MainLess, FrameHolds, MainHolds, Setting, Call
  <2> QED BY <1>0, <2>1, OwnersKept
<1>2. CASE /\ active # Null /\ InHandler("alrm", "pop")
           /\ TopHolds("link", active) /\ active' = next[active]
           /\ UNCHANGED <<next, data, free, virt, heap, next_id, now, signals, main, up>>
  <2>1. PICK x \in Nodes : x = active
    BY <1>0, <1>2 DEF TypeOK, Ref
  <2>2. Chain(next, x) = {x} \cup Chain(next, next[x]) /\ x \notin Chain(next, next[x])
    BY <1>0, ChainUnfolds DEF TypeOK
  <2>3. Owns("active", x)
    BY <2>1, <2>2 DEF Owns
  <2>4. frames # <<>> /\ ~FrameHolds(Len(frames))
    BY <1>0, <1>2, TopIs DEF InHandler, FrameHolds
  <2> QED BY <1>0, <1>2, <2>1, <2>2, <2>3, <2>4, TakeOwns
<1>3. CASE /\ virt # Null /\ InHandler("vtalrm", "pop")
           /\ TopHolds("link", virt) /\ virt' = Null
           /\ UNCHANGED <<next, data, active, free, heap, next_id, now, signals, main, up>>
  <2>1. PICK x \in Nodes : x = virt
    BY <1>0, <1>3 DEF TypeOK, Ref
  <2>3. Owns("virt", x)
    BY <2>1 DEF Owns
  <2>4. frames # <<>> /\ ~FrameHolds(Len(frames))
    BY <1>0, <1>3, TopIs DEF InHandler, FrameHolds
  <2> QED BY <1>0, <1>3, <2>1, <2>3, <2>4, TakeOwns
<1> QED
  BY <1>1, <1>2, <1>3 DEF wakeup_call, virtual_wakeup_call

\* The first half of free_timer(): the node is linked before the free ones.
LEMMA LinkOwns ==
  ASSUME IInv, frames # <<>>, Top.pc = "link", next' = [next EXCEPT ![Top.this] = free],
         TopGoto("push"), UNCHANGED <<active, free, virt, heap, main>>
  PROVE  Acyclic(next') /\ OneOwner'
<1> DEFINE k == Len(frames)
<1>0. TypeOK /\ OneOwner /\ Acyclic(next) /\ FramesOK /\ Flow
  BY DEF IInv
<1>t. next \in Pointers /\ active \in Ref /\ free \in Ref /\ main.this \in Ref
  BY <1>0 DEF TypeOK, Programs
<1>1. k \in DOMAIN frames /\ Top = frames[k] /\ Top.sig \in {"alrm", "vtalrm"}
  BY <1>0, TopIs DEF Frames
<1>2. /\ DOMAIN frames' = DOMAIN frames
      /\ \A i \in DOMAIN frames : i # k => frames'[i] = frames[i]
      /\ frames'[k].sig = Top.sig
      /\ frames'[k].pc = "push"
      /\ frames'[k].this = Top.this
  BY <1>0, TopGoes
<1> HIDE DEF k
<1>3. PICK x \in Nodes : x = Top.this
  BY <1>0, <1>1 DEF FramesOK, FrameHolds
<1>4. PICK sig \in {"alrm", "vtalrm"} : sig = Top.sig
  BY <1>1
<1>5. Owns(sig, x)
  BY <1>1, <1>3, <1>4 DEF Owns, FrameHolds
<1>6. {"active", "free", "heap", "virt", "main", "alrm", "vtalrm"} = Owners
  BY DEF Owners
<1>7. ~Owns("active", x) /\ ~Owns("free", x)
  BY <1>0, <1>5, <1>6, OwnersDiffer
<1>8. Chain(next, free) \in SUBSET Nodes /\ Closed(next, Chain(next, free)) /\ free \in Chain(next, free) \cup {Null}
  BY <1>0, <1>t, ChainFacts DEF Ref
<1>9. next' = [next EXCEPT ![x] = free] /\ next' \in Pointers /\ Acyclic(next')
  <2>1. x \notin Chain(next, free)
    BY <1>7 DEF Owns
  <2> QED BY <1>0, <1>t, <1>3, <1>8, <2>1, Repoint
\* The chains that do not lead to the node
<1>10. ASSUME NEW start \in Ref, x \notin Chain(next, start)
       PROVE  Chain(next', start) \subseteq Chain(next, start)
  BY <1>0, <1>t, <1>9, <1>10, ChainKept
<1>11. Chain(next', active) \subseteq Chain(next, active)
  BY <1>t, <1>7, <1>10 DEF Owns
<1>12. Chain(next', free) \subseteq Chain(next, free)
  BY <1>t, <1>7, <1>10 DEF Owns
<1>13. main.pc = "take" => Chain(next', main.this) \subseteq Chain(next, main.this)
  BY <1>t, <1>7, <1>10 DEF Owns
<1>14. ASSUME NEW i \in DOMAIN frames, i # k, frames[i].pc = "push"
       PROVE  Chain(next', next'[frames[i].this]) \subseteq Chain(next, next[frames[i].this])
  <2>1. frames[i].this \in Nodes /\ frames[i].sig # Top.sig
    BY <1>0, <1>1, <1>14 DEF FramesOK, FrameHolds
  <2>2. frames[i].sig \in {"alrm", "vtalrm"} /\ frames[i].sig # sig
    BY <1>0, <2>1, <1>4, FramesAre DEF TypeOK
  <2>3. frames[i].this # x
    <3>1. ~Owns(frames[i].sig, x)
      BY <1>0, <1>5, <1>6, <2>2, OwnersDiffer
    <3> QED BY <3>1, <1>14 DEF Owns, FrameHolds
  <2>4. next'[frames[i].this] = next[frames[i].this] /\ next[frames[i].this] \in Ref
    BY <1>t, <1>9, <2>1, <2>3 DEF Pointers
  <2>5. x \notin Chain(next, next[frames[i].this])
    BY <1>7, <1>14 DEF Owns
  <2> QED BY <1>10, <2>4, <2>5
<1>15. next'[x] = free
  BY <1>t, <1>9 DEF Pointers
<1>16. ASSUME NEW n \in Nodes, NEW o \in Owners, Owns(o, n)'
       PROVE  Owns(o, n)
  <2>1. CASE \E i \in DOMAIN frames' : o = frames'[i].sig /\ FrameHolds(i)' /\ n = frames'[i].this
    <3>1. PICK i \in DOMAIN frames' : o = frames'[i].sig /\ FrameHolds(i)' /\ n = frames'[i].this
      BY <2>1
    <3>2. CASE i = k
      BY <3>1, <3>2, <1>2, <1>3, <1>4, <1>5
    <3>3. CASE i # k
      BY <3>1, <3>3, <1>2 DEF Owns, FrameHolds
    <3> QED BY <3>2, <3>3
  <2>2. CASE \E i \in DOMAIN frames' : /\ o = "free" /\ frames'[i].pc = "push"
                                       /\ n \in Chain(next', next'[frames'[i].this])
    <3>1. PICK i \in DOMAIN frames' : /\ o = "free" /\ frames'[i].pc = "push"
                                      /\ n \in Chain(next', next'[frames'[i].this])
      BY <2>2
    <3>2. CASE i = k
      <4>1. n \in Chain(next', free)
        BY <3>1, <3>2, <1>2, <1>3, <1>15
      <4> QED BY <3>1, <4>1, <1>12 DEF Owns
    <3>3. CASE i # k
      <4>1. i \in DOMAIN frames /\ frames'[i] = frames[i]
        BY <3>3, <1>2
      <4>2. n \in Chain(next, next[frames[i].this])
        BY <3>1, <3>3, <4>1, <1>14
      <4> QED BY <3>1, <4>1, <4>2 DEF Owns
    <3> QED BY <3>2, <3>3
  <2>3. CASE \/ o = "active" /\ n \in Chain(next', active')
             \/ o = "free" /\ n \in Chain(next', free')
             \/ o = "free" /\ main'.pc = "take" /\ n \in Chain(next', main'.this)
             \/ o = "heap" /\ n \in heap'
             \/ o = "virt" /\ n = virt'
             \/ o = "main" /\ n = main'.this /\ MainHolds'
    <3>1. main' = main /\ (MainHolds' <=> MainHolds)
      BY DEF MainHolds, Setting, Call
    <3> QED BY <2>3, <3>1, <1>11, <1>12, <1>13 DEF Owns
  <2> QED BY <1>16, <2>1, <2>2, <2>3 DEF Owns
<1> QED
  BY <1>0, <1>9, <1>16 DEF OneOwner

\* The second half: it is the first of them.
LEMMA PushOwns ==
  ASSUME IInv, frames # <<>>, Top.pc = "push", free' = Top.this,
         NEW pc \in {"alarm", "done"}, TopGoto(pc), UNCHANGED <<next, active, virt, heap, main>>
  PROVE  OneOwner'
<1>0. TypeOK /\ OneOwner /\ Acyclic(next) /\ FramesOK
  BY DEF IInv
<1>k. PICK k \in DOMAIN frames : k = Len(frames)
  BY <1>0, TopIs
<1>1. k \in DOMAIN frames /\ Top = frames[k] /\ Top.sig \in {"alrm", "vtalrm"}
  BY <1>0, <1>k, TopIs DEF Frames
<1>2. /\ DOMAIN frames' = DOMAIN frames
      /\ \A i \in DOMAIN frames : i # k => frames'[i] = frames[i]
      /\ frames'[k].pc = pc
  BY <1>0, <1>k, TopGoes
<1>3. PICK x \in Nodes : x = Top.this
  BY <1>0, <1>1 DEF FramesOK, FrameHolds
<1>4. PICK sig \in {"alrm", "vtalrm"} : sig = Top.sig
  BY <1>1
<1>5. Owns(sig, x)
  BY <1>1, <1>3, <1>4 DEF Owns, FrameHolds
<1>6. Chain(next, x) = {x} \cup Chain(next, next[x])
  BY <1>0, ChainUnfolds DEF TypeOK
<1>7. \A n \in Chain(next, next[x]) : Owns("free", n)
  BY <1>1, <1>3 DEF Owns
<1>8. ASSUME NEW n \in Nodes, NEW o \in Owners, Owns(o, n)'
      PROVE  Owns(o, n) \/ (n = x /\ o = "free")
  <2>1. CASE \E i \in DOMAIN frames' : o = frames'[i].sig /\ FrameHolds(i)' /\ n = frames'[i].this
    <3>1. PICK i \in DOMAIN frames' : o = frames'[i].sig /\ FrameHolds(i)' /\ n = frames'[i].this
      BY <2>1
    <3>2. i # k /\ i \in DOMAIN frames
      BY <3>1, <1>2 DEF FrameHolds
    <3> QED BY <3>1, <3>2, <1>2 DEF Owns, FrameHolds
  <2>2. CASE \E i \in DOMAIN frames' : /\ o = "free" /\ frames'[i].pc = "push"
                                       /\ n \in Chain(next', next'[frames'[i].this])
    <3>1. PICK i \in DOMAIN frames' : /\ o = "free" /\ frames'[i].pc = "push"
                                      /\ n \in Chain(next', next'[frames'[i].this])
      BY <2>2
    <3>2. i # k /\ i \in DOMAIN frames
      BY <3>1, <1>2
    <3>3. frames'[i] = frames[i]
      BY <3>2, <1>2
    <3> QED BY <3>1, <3>2, <3>3 DEF Owns
  <2>3. CASE o = "free" /\ n \in Chain(next', free')
    <3>1. n = x \/ n \in Chain(next, next[x])
      BY <2>3, <1>3, <1>6
    <3> QED BY <3>1, <2>3, <1>7
  <2>4. CASE \/ o = "active" /\ n \in Chain(next', active')
             \/ o = "free" /\ main'.pc = "take" /\ n \in Chain(next', main'.this)
             \/ o = "heap" /\ n \in heap'
             \/ o = "virt" /\ n = virt'
             \/ o = "main" /\ n = main'.this /\ MainHolds'
    <3>1. main' = main /\ (MainHolds' <=> MainHolds)
      BY DEF MainHolds, Setting, Call
    <3> QED BY <2>4, <3>1 DEF Owns
  <2> QED BY <1>8, <2>1, <2>2, <2>3, <2>4 DEF Owns
<1>9. ~Owns(sig, x)'
  <2>1. \A i \in DOMAIN frames' : i # k => frames'[i].sig # sig
    BY <1>0, <1>1, <1>2, <1>4 DEF FramesOK
  <2>2. ~FrameHolds(k)'
    BY <1>2 DEF FrameHolds
  <2> QED BY <2>1, <2>2 DEF Owns
<1>10. sig \in Owners /\ "free" \in Owners
  BY DEF Owners
<1> QED
  BY <1>0, <1>5, <1>8, <1>9, <1>10, NodeMoves

\* No step makes a circle of pointers or lets two of the lists, main, a handler and
\* malloc() share a node.
LEMMA ShapeStep ==
  ASSUME IInv, Next
  PROVE  Acyclic(next)' /\ OneOwner'
<1>1. CASE allocate_timer \/ fill_timer \/ insert_timer \/ remove_timer
  BY <1>1, AllocateOwns, FillOwns, InsertOwns, RemoveOwns
<1>2. CASE wakeup_call \/ virtual_wakeup_call
  BY <1>2, WakeupOwns
<1>3. CASE free_timer
  <2>1. CASE /\ frames # <<>> /\ Top.pc = "link"
             /\ next' = [next EXCEPT ![Top.this] = free] /\ TopGoto("push")
             /\ UNCHANGED <<data, active, free, virt, heap, next_id, now, signals, main, up>>
    BY <2>1, LinkOwns
  <2>2. CASE /\ frames # <<>> /\ Top.pc = "push"
             /\ free' = Top.this /\ TopGoto(IF Top.sig = "alrm" THEN "alarm" ELSE "done")
             /\ UNCHANGED <<data, next, active, virt, heap, next_id, now, signals, main, up>>
    <3>1. PICK pc \in {"alarm", "done"} : TopGoto(pc)
      BY <2>2
    <3> QED BY <2>2, <3>1, PushOwns DEF IInv
  <2> QED BY <1>3, <2>1, <2>2 DEF free_timer
<1>4. CASE \/ Callers \/ virtual_timer_is_set \/ stop_timers \/ restart_timers \/ Return
           \/ reenable_timers \/ pause \/ virtual_timer_is_null \/ timeout_proc \/ handler_returns
           \/ DeliverAlarm \/ DeliverVirtual \/ Tick \/ AlarmExpires \/ VirtualRuns
  BY <1>4, QuietStep, OwnersKept DEF IInv
<1> QED
  BY <1>1, <1>2, <1>3, <1>4 DEF Next, Statements
-----------------------------------------------------------------------------
(* The limit of a task. *)

\* No timer of a task is set while main_loop() goes round or waits for a dump.
LEMMA VirtualIs ==
  ASSUME IInv, virt # Null
  PROVE  /\ virt \in Nodes
         /\ main.in \in {"task", "connect", "connected", "loop"}
         /\ main.in = "loop" =>
              /\ main.todo # <<>> /\ Len(main.todo) = 1 /\ Call.op = "cancel" /\ Call.id = main.ids["task"]
              /\ main.pc \in {"stop", "ignore", "edit"}
         /\ main.in = "task" /\ main.todo # <<>> => main.pc \in Restarting /\ virt = main.this
         /\ main.in # "task" \/ main.todo = <<>> => data[virt].id = main.ids["task"]
<1>1. VirtualOK /\ Flow /\ TypeOK
  BY DEF IInv
<1>2. virt \in Nodes
  BY <1>1 DEF TypeOK, Ref
<1>3. main.todo = <<>> => Len(main.todo) # 1
  OBVIOUS
<1> QED
  BY <1>1, <1>2, <1>3 DEF VirtualOK, Flow

\* The timer of a task is not in hand to be inserted.
LEMMA VirtualApart ==
  ASSUME IInv, virt # Null, MainHolds
  PROVE  virt # main.this
<1>1. OneOwner /\ TypeOK /\ Flow
  BY DEF IInv
<1>2. virt \in Nodes /\ {"virt", "main"} \subseteq Owners
  BY <1>1 DEF TypeOK, Ref, Owners
<1>3. Owns("virt", virt)
  BY DEF Owns
<1>4. virt = main.this => Owns("main", virt)
  BY DEF Owns
<1> QED
  BY <1>1, <1>2, <1>3, <1>4 DEF OneOwner

\* A limit that is set is that of the task which runs, and run_interpreter() cancels it.
LEMMA VirtualStep ==
  ASSUME IInv, Next
  PROVE  VirtualOK'
<1>0. TypeOK /\ Flow /\ VirtualOK /\ ConnectOK
  BY DEF IInv
<1>1. CASE virt' = Null
  BY <1>1 DEF VirtualOK
<1>2. CASE virt' = virt /\ main' = main /\ data' = data
  BY <1>0, <1>2 DEF VirtualOK, Call
<1>c. main.pc \notin {"idle", "except"} => main.todo # <<>> /\ main.pc \in Steps(Call.op) /\ Call.op \in Ops
  BY <1>0, CallIs DEF Flow, Requests
<1>d. /\ Call.op = "set" /\ main.todo # <<>> => main.in \in {"loop", "connect", "sleep"}
      /\ Call.op = "setv" /\ main.todo # <<>> => main.in = "task"
      /\ Call.op = "cancel" /\ main.todo # <<>> => main.in \in {"loop", "connected"}
  BY <1>0 DEF Flow
\* The same calls, at another place of the first
<1>3. ASSUME virt # Null, virt' = virt, data'[virt].id = data[virt].id, NEW pc, main'.pc = pc,
             main'.in = main.in, main'.todo = main.todo, main'.ids = main.ids,
             main.todo # <<>>,
             \/ main.in \in {"connect", "connected"}
             \/ main.in = "task" /\ pc \in Restarting /\ main'.this = main.this
             \/ main.in = "loop" /\ pc \in {"stop", "ignore", "edit"}
      PROVE  VirtualOK'
  <2>1. Call' = Call
    BY <1>3 DEF Call
  <2> QED BY <1>3, <2>1, VirtualIs DEF VirtualOK
<1>4. ASSUME virt # Null, virt' = virt, data'[virt].id = data[virt].id, NEW pc, Goto(pc),
             main.todo # <<>>,
             \/ main.in \in {"connect", "connected"}
             \/ main.in = "task" /\ pc \in Restarting
             \/ main.in = "loop" /\ pc \in {"stop", "ignore", "edit"}
      PROVE  VirtualOK'
  <2>1. /\ main'.pc = pc /\ main'.in = main.in /\ main'.todo = main.todo
        /\ main'.this = main.this /\ main'.ids = main.ids
    BY <1>0, <1>4, MainGoes
  <2> QED BY <1>3, <1>4, <2>1
<1>5. CASE Callers
  <2>1. CallersBegin /\ virt' = virt /\ data' = data /\ main.todo = <<>> /\ Len(main.todo) = 0
    BY <1>0, <1>5, CallersDo DEF CallersBegin, lists, Flow
  <2>2. SUFFICES ASSUME virt # Null PROVE VirtualOK'
    BY <1>1, <2>1
  <2>3. main.in \in {"task", "connect"} /\ data[virt].id = main.ids["task"]
    BY <2>1, <2>2, VirtualIs, <1>0 DEF Flow
  <2> QED BY <2>1, <2>2, <2>3 DEF VirtualOK, CallersBegin
<1>6. CASE allocate_timer
  <2>1. SUFFICES ASSUME virt # Null PROVE VirtualOK'
    BY <1>1, <1>6 DEF allocate_timer
  <2>2. main.pc \in {"test", "take"} /\ virt' = virt /\ data' = data
    BY <1>6 DEF allocate_timer, InMain
  <2>3. main.todo # <<>> /\ Call.op = "set"
    BY <1>0, <1>c, <2>1, <2>2, CheckIsFirst, StepsAre DEF Restarting, Ops
  <2>4. main.in = "connect"
    BY <1>d, <2>1, <2>2, <2>3, VirtualIs
  <2>5. \E pc \in {"take", "fill"} : /\ main'.pc = pc /\ main'.in = main.in /\ main'.todo = main.todo
                                     /\ main'.ids = main.ids
    BY <1>0, <1>6 DEF allocate_timer, Then, Goto, TypeOK, Programs
  <2> QED BY <1>3, <2>1, <2>2, <2>3, <2>4, <2>5
<1>7. CASE fill_timer
  <2>1. main.pc = "fill" /\ main.todo # <<>> /\ main.this \in Nodes
    BY <1>0, <1>7 DEF fill_timer, InMain, Flow, MainHolds
  <2>2. CASE Call.op = "set"
    <3>1. SUFFICES ASSUME virt # Null PROVE VirtualOK'
      BY <1>1, <1>7, <2>2 DEF fill_timer
    <3>2. main.in = "connect" /\ virt # main.this /\ virt \in Nodes
      BY <1>d, <2>1, <2>2, <3>1, VirtualIs, VirtualApart DEF MainHolds
    <3>3. virt' = virt /\ data'[virt] = data[virt] /\ Goto("stop")
      BY <1>0, <1>7, <2>1, <2>2, <3>2 DEF fill_timer, Then, TypeOK
    <3> QED BY <1>4, <2>1, <3>1, <3>2, <3>3
  <2>3. CASE Call.op # "set"
    <3>1. virt' = main.this /\ Goto("alarm") /\ main.in = "task"
      BY <1>c, <1>d, <1>7, <2>1, <2>3, StepsAre DEF fill_timer, Then, Ops
    <3>2. main'.pc = "alarm" /\ main'.in = "task" /\ main'.todo # <<>> /\ main'.this = main.this
      BY <1>0, <2>1, <3>1, MainGoes
    <3> QED BY <3>1, <3>2 DEF VirtualOK, Restarting
  <2> QED BY <2>2, <2>3
<1>8. CASE virtual_timer_is_set
  BY <1>0, <1>1, <1>8, CheckIsFirst DEF virtual_timer_is_set, InMain, lists
<1>9. CASE stop_timers
  <2>1. /\ main.todo # <<>> /\ virt' = virt /\ main.pc \in {"stop", "ignore"}
        /\ main.pc \notin Restarting
    BY <1>0, <1>9 DEF stop_timers, InMain, Flow, lists, Restarting
  <2>2. SUFFICES ASSUME virt # Null PROVE VirtualOK'
    BY <1>1, <2>1
  <2>3. data'[virt].id = data[virt].id
    <3>1. virt \in Nodes
      BY <2>2, VirtualIs
    <3> QED BY <1>0, <1>9, <2>2, <3>1 DEF stop_timers, lists, TypeOK
  <2>4. Call.op # "setv"
    BY <1>0, <2>1, <2>2, CheckIsFirst
  <2>5. main.in \in {"connect", "connected", "loop"}
    BY <2>1, <2>2, VirtualIs
  <2>6. \E pc \in {"ignore", "edit"} : Goto(pc)
    BY <1>9, <2>4 DEF stop_timers
  <2> QED BY <1>4, <2>1, <2>2, <2>3, <2>5, <2>6
<1>10. CASE insert_timer
  <2>1. /\ main.todo # <<>> /\ virt' = virt /\ data' = data /\ Call.op = "set" /\ Goto("alarm")
    BY <1>0, <1>10 DEF insert_timer, InMain, Flow, Then
  <2>2. SUFFICES ASSUME virt # Null PROVE VirtualOK'
    BY <1>1, <2>1
  <2>3. main.in = "connect"
    BY <1>d, <2>1, <2>2, VirtualIs
  <2> QED BY <1>4, <2>1, <2>2, <2>3
<1>11. CASE remove_timer
  <2>1. /\ main.todo # <<>> /\ data' = data /\ Call.op = "cancel" /\ Goto("alarm")
        /\ virt' = Null \/ (virt' = virt /\ ~IsVirtual(Call.id))
    BY <1>0, <1>11 DEF remove_timer, InMain, Flow, Then
  <2>2. SUFFICES ASSUME virt # Null, virt' = virt, ~IsVirtual(Call.id) PROVE VirtualOK'
    BY <1>1, <2>1
  <2>3. main.in = "connected"
    BY <1>d, <2>1, <2>2, VirtualIs DEF IsVirtual
  <2> QED BY <1>4, <2>1, <2>2, <2>3
<1>12. CASE restart_timers
  <2>1. CASE frames # <<>> \/ Crash
    BY <1>2, <1>12, <2>1 DEF restart_timers, MoveTo, Crash, In, InMain, lists
  <2>2. CASE frames = <<>> /\ ~Crash
    <3>1. /\ virt' = virt /\ data' = data /\ main.pc \in Restarting
          /\ \E pc \in Restarting : Goto(pc)
      BY <1>12, <2>2 DEF restart_timers, MoveTo, In, InMain, InHandler, lists, Restarting
    <3>2. SUFFICES ASSUME virt # Null PROVE VirtualOK'
      BY <1>1, <3>1
    <3>3. main.todo # <<>>
      BY <1>0, <3>1 DEF Flow, Restarting
    <3>4. main.in \in {"connect", "connected", "task"}
      BY <3>1, <3>2, VirtualIs DEF Restarting
    <3> QED BY <1>4, <3>1, <3>2, <3>3, <3>4
  <2> QED BY <2>1, <2>2
<1>13. CASE Return
  <2>1. /\ main.todo # <<>> /\ main.pc = "done" /\ virt' = virt /\ data' = data
        /\ main'.todo = Tail(main.todo)
        /\ main'.in = IF main'.todo = <<>> /\ main.in = "connected" THEN "task" ELSE main.in
        /\ Call.op = "cancel" => main'.ids = main.ids
        /\ Call.op # "cancel" =>
             /\ \A p \in Procs : p # Call.proc => main'.ids[p] = main.ids[p]
             /\ main'.ids[Call.proc] = data[main.this].id
    BY <1>0, <1>c, <1>13, ReturnIs, StepsAre DEF lists, Ops
  <2>2. SUFFICES ASSUME virt # Null PROVE VirtualOK'
    BY <1>1, <2>1
  <2>3. main.in \in {"connect", "connected", "task"}
    BY <2>1, <2>2, VirtualIs
  <2>4. main'.todo = <<>>
    BY <1>0, <2>1, <2>3, CallIs DEF Flow
  <2>5. "task" \in Procs /\ Call.op \in Ops
    BY <1>0, <2>1, CallIs DEF Procs, Requests
  <2>6. CASE main.in = "connect"
    <3>1. Call.op = "set" /\ Call.proc = "connect"
      BY <1>0, <2>1, <2>5, <2>6 DEF Flow, Ops
    <3>2. data[virt].id = main.ids["task"]
      BY <2>2, <2>6, VirtualIs
    <3>3. main'.ids["task"] = main.ids["task"]
      BY <2>1, <2>5, <3>1
    <3> QED BY <2>1, <2>4, <2>6, <3>2, <3>3 DEF VirtualOK
  <2>7. CASE main.in = "connected"
    BY <1>0, <2>1, <2>2, <2>4, <2>5, <2>7, VirtualIs DEF VirtualOK, Flow, Ops
  <2>8. CASE main.in = "task"
    <3>1. virt = main.this /\ Call.op = "setv" /\ Call.proc = "task"
      BY <1>0, <2>1, <2>2, <2>5, <2>8, VirtualIs DEF Flow, Ops
    <3> QED BY <2>1, <2>2, <2>4, <2>8, <3>1 DEF VirtualOK
  <2> QED BY <2>3, <2>6, <2>7, <2>8
<1>14. CASE reenable_timers
  <2>1. /\ virt' = virt /\ data' = data /\ Goto("idle") /\ main.todo = <<>> /\ main.in = "task"
    BY <1>0, <1>14 DEF reenable_timers, InMain, Flow, lists
  <2>2. main'.in = main.in /\ main'.todo = main.todo /\ main'.ids = main.ids
    BY <1>0, <2>1, MainGoes
  <2> QED BY <2>1, <2>2, VirtualIs DEF VirtualOK
<1>19. CASE pause
  <2>1. virt' = virt /\ data' = data /\ main.in = "sleep"
    BY <1>19 DEF pause, InCaller, lists
  <2> QED BY <1>1, <2>1, VirtualIs
<1>15. CASE timeout_proc
  <2>1. /\ virt' = virt /\ data' = data
        /\ main'.in = "task" /\ main'.todo = <<>> /\ main'.ids = main.ids
    BY <1>0, <1>15 DEF timeout_proc, lists, TypeOK, Programs
  <2>2. Len(frames) \in DOMAIN frames /\ ConnectFrame(Len(frames))
    BY <1>0, <1>15, TopIs DEF timeout_proc, InHandler, ConnectFrame
  <2>3. main.in \in {"connect", "connected"}
    BY <1>0, <2>2 DEF ConnectOK, MayTimeOut
  <2> QED BY <2>1, <2>3, VirtualIs DEF VirtualOK
<1>16. CASE handler_returns
  <2>1. virt' = virt /\ data' = data /\ (main' = main \/ main.in = "pause")
    BY <1>16 DEF handler_returns, lists
  <2> QED BY <1>1, <1>2, <2>1, VirtualIs
<1>17. CASE virtual_wakeup_call
  BY <1>1, <1>2, <1>17 DEF virtual_wakeup_call, Crash, lists
<1>18. CASE \/ wakeup_call \/ free_timer \/ virtual_timer_is_null \/ DeliverAlarm \/ DeliverVirtual
            \/ Tick \/ AlarmExpires \/ VirtualRuns
  BY <1>2, <1>18 DEF wakeup_call, free_timer, virtual_timer_is_null, DeliverAlarm, DeliverVirtual,
     Tick, AlarmExpires, VirtualRuns, Crash, lists
<1> QED
  BY <1>5, <1>6, <1>7, <1>8, <1>9, <1>10, <1>11, <1>12, <1>13, <1>14, <1>15, <1>16, <1>17, <1>18, <1>19
  DEF Next, Statements
-----------------------------------------------------------------------------
(* The timer of a connect(). *)

\* No timer of a connect() is added, and the wait for one goes on.
LEMMA ConnectKept ==
  ASSUME ConnectOK,
         \A n \in Nodes : Connects(n)' => Connects(n) /\ data'[n].id = data[n].id,
         \A i \in DOMAIN frames' : ConnectFrame(i)' => i \in DOMAIN frames /\ ConnectFrame(i),
         MayTimeOut => MayTimeOut' /\ ConnectId' = ConnectId,
         Setting' /\ main'.pc \in {"stop", "ignore", "edit"} => data'[main'.this].proc = Call'.proc
  PROVE  ConnectOK'
BY DEF ConnectOK

\* A node that another owner has is not on the list.
LEMMA NotListed ==
  ASSUME IInv, NEW x \in Nodes, NEW o \in Owners, o # "active", Owns(o, x)
  PROVE  x \notin Chain(next, active)
<1>1. OneOwner /\ "active" \in Owners
  BY DEF IInv, Owners
<1>2. x \in Chain(next, active) => Owns("active", x)
  BY DEF Owns
<1> QED
  BY <1>1, <1>2 DEF OneOwner

\* Two timers of a connect() are one.
LEMMA ConnectIsOne ==
  ASSUME IInv, NEW x \in Nodes, NEW y \in Nodes, Connects(x), Connects(y)
  PROVE  x = y
<1>1. ConnectOK /\ IdsOK
  BY DEF IInv
<1>2. data[x].id = data[y].id
  BY <1>1 DEF ConnectOK
<1>3. data[x].id >= 0
  BY <1>1 DEF IdsOK, Connects
<1> QED
  BY <1>1, <1>2, <1>3 DEF IdsOK

\* wakeup_call() that takes the timer of a connect() off the list leaves no other there.
LEMMA TakenConnect ==
  ASSUME IInv, frames # <<>>, Top.sig = "alrm", active # Null,
         TopHolds("link", active), active' = next[active], UNCHANGED <<next, data, main>>
  PROVE  ConnectOK'
<1>0. TypeOK /\ ConnectOK /\ Acyclic(next)
  BY DEF IInv
<1>1. PICK x \in Nodes : x = active
  BY <1>0 DEF TypeOK, Ref
<1>2. PICK k \in DOMAIN frames : k = Len(frames)
  BY <1>0, TopIs
<1>3. /\ DOMAIN frames' = DOMAIN frames
      /\ \A i \in DOMAIN frames : i # k => frames'[i] = frames[i]
      /\ frames'[k].proc = data[x].proc
  BY <1>0, <1>1, <1>2, TopTakes
<1>4. Chain(next, x) = {x} \cup Chain(next, next[x]) /\ x \notin Chain(next, next[x])
  BY <1>0, ChainUnfolds DEF TypeOK
<1>5. \A n \in Nodes : Connects(n)' => Connects(n) /\ n # x
  BY <1>1, <1>4 DEF Connects
<1>6. (MayTimeOut' <=> MayTimeOut) /\ ConnectId' = ConnectId
  BY DEF MayTimeOut, ConnectId
<1>7. Setting' /\ main'.pc \in {"stop", "ignore", "edit"} => data'[main'.this].proc = Call'.proc
  BY <1>0 DEF ConnectOK, Setting, Call
<1>8. \A i \in DOMAIN frames : i # k => (ConnectFrame(i)' <=> ConnectFrame(i))
  BY <1>3 DEF ConnectFrame
<1>9. CASE data[x].proc = "connect"
  <2>1. Connects(x)
    BY <1>1, <1>4, <1>9 DEF Connects
  <2>2. MayTimeOut
    BY <1>0, <2>1 DEF ConnectOK
  <2>3. \A n \in Nodes : ~Connects(n)'
    BY <1>5, <2>1, ConnectIsOne
  <2> QED BY <1>6, <1>7, <2>2, <2>3 DEF ConnectOK
<1>10. CASE data[x].proc # "connect"
  <2>1. \A i \in DOMAIN frames' : ConnectFrame(i)' => i \in DOMAIN frames /\ ConnectFrame(i)
    <3>1. ~ConnectFrame(k)'
      <4>1. frames'[k].proc # "connect"
        BY <1>3, <1>10
      <4> QED BY <4>1 DEF ConnectFrame
    <3> QED BY <1>3, <1>8, <3>1
  <2>2. \A n \in Nodes : Connects(n)' => Connects(n) /\ data'[n].id = data[n].id
    BY <1>5
  <2> QED BY <1>0, <1>6, <1>7, <2>1, <2>2, ConnectKept
<1> QED
  BY <1>9, <1>10

\* set_timer() for a connect() puts the one timer on the list that tcp_open() waits for.
LEMMA InsertConnect ==
  ASSUME IInv, insert_timer
  PROVE  ConnectOK'
<1>0. TypeOK /\ ConnectOK /\ Flow
  BY DEF IInv
<1>1. PICK x \in Nodes : x = main.this
  BY InsertChains
<1>2. Chain(next', active') \subseteq Chain(next, active) \cup {x}
  BY <1>1, InsertChains
<1>3. /\ main.todo # <<>> /\ Call.op = "set" /\ main.pc = "edit" /\ Goto("alarm")
      /\ frames = <<>> /\ frames' = frames /\ data' = data
  BY <1>0 DEF insert_timer, InMain, Then, Flow
<1>4. /\ main'.pc = "alarm" /\ main'.in = main.in /\ main'.todo = main.todo /\ main'.this = x
  BY <1>0, <1>1, <1>3, MainGoes
<1>5. DOMAIN frames' = {}
  BY <1>3
<1>6. main.in \in {"loop", "connect", "sleep"} /\ (main.in # "connect" => Call.proc # "connect")
  BY <1>0, <1>3 DEF Flow
<1>7. ~MayTimeOut
  BY <1>3, <1>6 DEF MayTimeOut, Restarting
<1>8. data[x].proc = Call.proc
  BY <1>0, <1>1, <1>3 DEF ConnectOK, Setting
<1>9. \A n \in Nodes : Connects(n)' => n = x /\ data[x].proc = "connect"
  BY <1>0, <1>2, <1>3, <1>7 DEF Connects, ConnectOK
<1>10. CASE main.in = "connect"
  <2>1. MayTimeOut' /\ ConnectId' = data[x].id
    BY <1>3, <1>4, <1>10 DEF MayTimeOut, ConnectId, Restarting
  <2> QED BY <1>3, <1>4, <1>5, <1>9, <2>1 DEF ConnectOK
<1>11. CASE main.in # "connect"
  <2>1. \A n \in Nodes : ~Connects(n)'
    BY <1>6, <1>8, <1>9, <1>11
  <2> QED BY <1>4, <1>5, <2>1 DEF ConnectOK
<1> QED
  BY <1>10, <1>11

\* cancel_timer() after a connect() leaves none on the list, timed out or not.
LEMMA RemoveConnect ==
  ASSUME IInv, remove_timer
  PROVE  ConnectOK'
<1>0. TypeOK /\ ConnectOK /\ Flow /\ IdsOK /\ OneOwner
  BY DEF IInv
<1>1. /\ main.todo # <<>> /\ Call.op = "cancel" /\ main.pc = "edit" /\ Goto("alarm")
      /\ frames = <<>> /\ frames' = frames /\ data' = data
  BY <1>0 DEF remove_timer, InMain, Then, Flow
<1>2. main'.pc = "alarm" /\ DOMAIN frames' = {}
  BY <1>0, <1>1, MainGoes
<1>3. \A n \in Nodes : Connects(n)' => Connects(n) /\ (main.in = "connected" => data[n].id # Call.id)
  <2>1. CASE IsVirtual(Call.id) /\ UNCHANGED <<next, active>>
    <3>1. virt \in Nodes /\ Owns("virt", virt) /\ "virt" \in Owners
      BY <1>0, <2>1 DEF IsVirtual, TypeOK, Ref, Owns, Owners
    <3>2. virt \notin Chain(next, active)
      BY <3>1, NotListed
    <3>3. \A n \in Nodes : Connects(n) => data[n].id # data[virt].id
      BY <1>0, <3>1, <3>2 DEF Connects, IdsOK
    <3> QED BY <1>1, <2>1, <3>3 DEF Connects, IsVirtual
  <2>2. ASSUME NEW p \in Chain(next, active) \cup {Null}, LinkOf(p) # Null,
               data[LinkOf(p)].id = Call.id, Link(p, next[LinkOf(p)])
        PROVE  \A n \in Nodes : Connects(n)' => Connects(n) /\ data[n].id # Call.id
    <3>1. /\ LinkOf(p) \in Chain(next, active) /\ LinkOf(p) \in Nodes
          /\ Chain(next', active') \subseteq Chain(next, active) \ {LinkOf(p)}
      BY <2>2, UnlinkChains
    <3>2. PICK x \in Nodes : x = LinkOf(p)
      BY <3>1
    <3>3. \A n \in Nodes : Connects(n)' => Connects(n) /\ n # x
      BY <1>1, <3>1, <3>2 DEF Connects
    <3>4. \A n \in Nodes : Connects(n) /\ n # x => data[n].id # data[x].id
      BY <1>0 DEF Connects, IdsOK
    <3> QED BY <2>2, <3>2, <3>3, <3>4
  <2>3. CASE UNCHANGED <<next, active>> /\ \A n \in Reach(active) : data[n].id # Call.id
    BY <1>1, <2>3 DEF Connects, Reach
  <2> QED BY <2>1, <2>2, <2>3 DEF remove_timer, Reach
<1>4. \A n \in Nodes : ~Connects(n)'
  <2>1. CASE main.in = "connected"
    <3>1. Call.id = main.ids["connect"] /\ ConnectId = main.ids["connect"]
      BY <1>0, <1>1, <2>1 DEF Flow, ConnectId
    <3> QED BY <1>0, <1>3, <2>1, <3>1 DEF ConnectOK
  <2>2. CASE main.in # "connected"
    <3>1. main.in = "loop"
      BY <1>0, <1>1, <2>2 DEF Flow
    <3>2. ~MayTimeOut
      BY <3>1 DEF MayTimeOut
    <3> QED BY <1>0, <1>3, <3>2 DEF ConnectOK
  <2> QED BY <2>1, <2>2
<1> QED
  BY <1>2, <1>4 DEF ConnectOK
\* No node has another id, nor is one put on the list.
ListLess == \A n \in Nodes : Connects(n)' => Connects(n) /\ data'[n].id = data[n].id

\* The timer of a connect() is on the list or with a handler only until tcp_open() has
\* cancelled it.
LEMMA ConnectStep ==
  ASSUME IInv, Next
  PROVE  ConnectOK'
<1>0. TypeOK /\ Acyclic(next) /\ Flow /\ VirtualOK /\ ConnectOK
  BY DEF IInv
<1>l. UNCHANGED <<next, active, data>> => ListLess
  BY DEF ListLess, Connects
<1>f. frames' = frames => \A i \in DOMAIN frames' : ConnectFrame(i)' => i \in DOMAIN frames /\ ConnectFrame(i)
  BY DEF ConnectFrame
<1>c. main.pc \notin {"idle", "except"} => main.todo # <<>> /\ main.pc \in Steps(Call.op) /\ Call.op \in Ops
  BY <1>0, CallIs DEF Flow, Requests
<1>d. /\ Call.op = "set" /\ main.todo # <<>> => main.in \in {"loop", "connect", "sleep"}
      /\ Call.op = "setv" /\ main.todo # <<>> => main.in = "task"
      /\ Call.op = "cancel" /\ main.todo # <<>> => main.in \in {"loop", "connected"}
  BY <1>0 DEF Flow
\* main stays where it is
<1>1. ASSUME main' = main, UNCHANGED data, ListLess,
             \A i \in DOMAIN frames' : ConnectFrame(i)' => i \in DOMAIN frames /\ ConnectFrame(i)
      PROVE  ConnectOK'
  <2>1. (MayTimeOut' <=> MayTimeOut) /\ ConnectId' = ConnectId
    BY <1>1 DEF MayTimeOut, ConnectId
  <2>2. Setting' /\ main'.pc \in {"stop", "ignore", "edit"} => data'[main'.this].proc = Call'.proc
    BY <1>0, <1>1 DEF ConnectOK, Setting, Call
  <2> QED BY <1>0, <1>1, <2>1, <2>2, ConnectKept DEF ListLess
\* or goes on where none can be waited for
<1>2. ASSUME ~MayTimeOut, ListLess, frames' = frames,
             Setting' /\ main'.pc \in {"stop", "ignore", "edit"} => data'[main'.this].proc = Call'.proc
      PROVE  ConnectOK'
  BY <1>0, <1>2, <1>f, ConnectKept DEF ListLess
<1>3. CASE Callers
  <2>1. CallersBegin /\ UNCHANGED <<next, active, data, frames>> /\ main.todo = <<>>
    BY <1>0, <1>3, CallersDo DEF CallersBegin, lists, Flow
  <2>2. main'.pc = "stop" => Call'.op = "cancel"
    BY <2>1 DEF CallersBegin
  <2>3. ~(Setting' /\ main'.pc \in {"stop", "ignore", "edit"})
    BY <2>1, <2>2 DEF CallersBegin, Setting
  <2>4. CASE main.in = "connect"
    <3>1. main'.in = "connected" /\ main'.pc = "stop" /\ main'.ids = main.ids
      BY <2>1, <2>4 DEF CallersBegin
    <3>2. MayTimeOut' /\ ConnectId' = ConnectId
      BY <2>1, <2>4, <3>1 DEF MayTimeOut, ConnectId
    <3> QED BY <1>0, <1>l, <1>f, <2>1, <2>3, <3>2, ConnectKept DEF ListLess
  <2>5. CASE main.in # "connect"
    <3>1. ~MayTimeOut
      BY <1>0, <2>1, <2>5 DEF MayTimeOut, Flow
    <3> QED BY <1>2, <1>l, <2>1, <2>3, <3>1
  <2> QED BY <2>4, <2>5
<1>4. CASE allocate_timer
  <2>1. /\ UNCHANGED <<next, active, data, frames>> /\ main.pc \in {"test", "take"}
        /\ main'.pc \in {"take", "fill"}
    BY <1>0, <1>4 DEF allocate_timer, InMain, Then, Goto, TypeOK, Programs
  <2>2. ~MayTimeOut
    BY <1>c, <2>1 DEF MayTimeOut, Restarting
  <2> QED BY <1>2, <1>l, <2>1, <2>2
<1>5. CASE fill_timer
  <2>1. /\ UNCHANGED <<next, active, frames>> /\ main.pc = "fill" /\ main.todo # <<>>
        /\ main.this \in Nodes
    BY <1>0, <1>5 DEF fill_timer, InMain, Then, Flow, MainHolds
  <2>2. ~MayTimeOut
    BY <2>1 DEF MayTimeOut, Restarting
  <2>3. PICK x \in Nodes : x = main.this
    BY <2>1
  <2>4. x \notin Chain(next, active)
    <3>1. Owns("main", x) /\ "main" \in Owners
      BY <2>1, <2>3 DEF Owns, MainHolds, Owners
    <3> QED BY <3>1, NotListed
  <2>5. data'[x].proc = Call.proc /\ \A n \in Nodes : n # x => data'[n] = data[n]
    BY <1>0, <1>5, <2>3 DEF fill_timer, TypeOK
  <2>6. ListLess
    BY <2>1, <2>4, <2>5 DEF ListLess, Connects
  <2>7. main'.this = x /\ main'.todo = main.todo
    BY <1>0, <1>5, <2>3, MainGoes DEF fill_timer, Then
  <2> QED BY <1>2, <2>1, <2>2, <2>5, <2>6, <2>7 DEF Call
<1>6. CASE virtual_timer_is_set
  <2>1. UNCHANGED <<next, active, data, frames>> /\ main.pc = "check" /\ main.todo # <<>>
    BY <1>0, <1>6 DEF virtual_timer_is_set, InMain, Then, lists, Flow
  <2>2. ~MayTimeOut
    BY <2>1 DEF MayTimeOut, Restarting
  <2>3. Call' = Call /\ Call.op = "setv"
    <3>1. \E pc : Goto(pc)
      BY <1>6 DEF virtual_timer_is_set, Then
    <3>2. Call' = Call
      BY <1>0, <3>1, MainGoes DEF Call
    <3> QED BY <3>2, <1>c, <2>1, StepsAre DEF Ops
  <2> QED BY <1>2, <1>l, <2>1, <2>2, <2>3 DEF Setting
<1>7. CASE stop_timers
  <2>1. /\ UNCHANGED <<next, active, frames>> /\ main.pc \in {"stop", "ignore"} /\ main.todo # <<>>
        /\ \E pc \in {"ignore", "test", "edit"} : Goto(pc) /\ (pc = "test" => Call.op = "setv")
    BY <1>0, <1>7 DEF stop_timers, InMain, lists, Flow
  <2>2. PICK pc \in {"ignore", "test", "edit"} : Goto(pc) /\ (pc = "test" => Call.op = "setv")
    BY <2>1
  <2>3. /\ main'.pc = pc /\ main'.in = main.in /\ main'.todo = main.todo
        /\ main'.this = main.this /\ main'.ids = main.ids
    BY <1>0, <2>2, MainGoes
  <2>4. \A n \in Nodes : data'[n].id = data[n].id /\ data'[n].proc = data[n].proc
    <3>1. (virt # Null => virt \in Nodes) /\ data \in [Nodes -> [id : Int, when : Int, proc : Procs]]
      BY <1>0 DEF TypeOK, Ref
    <3>2. data' = data \/ (virt # Null /\ \E s : data' = [data EXCEPT ![virt].when = s])
      BY <1>7 DEF stop_timers, lists
    <3> QED BY <3>1, <3>2
  <2>5. ListLess
    BY <2>1, <2>4 DEF ListLess, Connects
  <2>6. Setting' /\ main'.pc \in {"stop", "ignore", "edit"} => data'[main'.this].proc = Call'.proc
    <3>1. SUFFICES ASSUME Setting PROVE data'[main.this].proc = Call.proc
      BY <2>3 DEF Setting, Call
    <3>2. MainHolds
      BY <2>1, <3>1 DEF MainHolds
    <3>3. main.this \in Nodes
      BY <1>0, <2>1, <3>2 DEF Flow
    <3>4. data[main.this].proc = Call.proc
      BY <1>0, <2>1, <3>1 DEF ConnectOK
    <3> QED BY <2>4, <3>3, <3>4
  <2>7. MayTimeOut => MayTimeOut' /\ ConnectId' = ConnectId
    <3>1. SUFFICES ASSUME MayTimeOut PROVE MayTimeOut' /\ ConnectId' = ConnectId
      OBVIOUS
    <3>2. main.in = "connected"
      BY <2>1, <3>1 DEF MayTimeOut, Restarting
    <3>3. Call.op = "cancel"
      BY <1>c, <1>d, <2>1, <3>2 DEF Ops
    <3> QED BY <2>2, <2>3, <3>2, <3>3 DEF MayTimeOut, ConnectId
  <2> QED BY <1>0, <1>f, <2>1, <2>5, <2>6, <2>7, ConnectKept DEF ListLess
<1>8. CASE restart_timers
  <2>1. CASE Crash
    BY <1>1, <1>l, <1>f, <2>1 DEF Crash, lists
  <2>2. CASE frames # <<>> /\ UNCHANGED <<lists, main>> /\ Top.pc \in {"alarm", "vtest", "varm"}
             /\ \E pc \in {"vtest", "varm", "done"} : TopGoto(pc)
    <3>1. PICK pc \in {"vtest", "varm", "done"} : TopGoto(pc)
      BY <2>2
    <3>2. PICK k \in DOMAIN frames : k = Len(frames) /\ Top = frames[k]
      BY <1>0, <2>2, TopIs
    <3>3. /\ DOMAIN frames' = DOMAIN frames
          /\ \A i \in DOMAIN frames : i # k => frames'[i] = frames[i]
          /\ frames'[k].sig = frames[k].sig /\ frames'[k].proc = frames[k].proc
      BY <1>0, <2>2, <3>1, <3>2, TopGoes
    <3>4. \A i \in DOMAIN frames' : ConnectFrame(i)' => i \in DOMAIN frames /\ ConnectFrame(i)
      BY <2>2, <3>2, <3>3 DEF ConnectFrame
    <3> QED BY <1>1, <1>l, <2>2, <3>4 DEF lists
  <2>3. CASE frames = <<>> /\ UNCHANGED <<frames, lists>> /\ main.pc \in {"alarm", "vtest", "varm"}
             /\ \E pc \in {"vtest", "varm", "done"} : Goto(pc)
    <3>1. PICK pc \in {"vtest", "varm", "done"} : Goto(pc)
      BY <2>3
    <3>2. /\ main'.pc = pc /\ main'.in = main.in /\ main'.todo = main.todo
          /\ main'.this = main.this /\ main'.ids = main.ids
      BY <1>0, <3>1, MainGoes
    <3>3. MayTimeOut => MayTimeOut' /\ ConnectId' = ConnectId
      BY <2>3, <3>2 DEF MayTimeOut, ConnectId, Restarting, lists
    <3> QED BY <1>0, <1>l, <1>f, <2>3, <3>2, <3>3, ConnectKept DEF ListLess, lists
  <2> QED BY <1>8, <2>1, <2>2, <2>3 DEF restart_timers, MoveTo, In, InMain, InHandler
<1>9. CASE Return
  <2>1. /\ main.todo # <<>> /\ main.pc = "done" /\ UNCHANGED <<next, active, data, frames>>
        /\ main'.todo = Tail(main.todo)
        /\ main'.in = IF main'.todo = <<>> /\ main.in = "connected" THEN "task" ELSE main.in
        /\ Call.op = "set" => main'.ids[Call.proc] = data[main.this].id
    BY <1>0, <1>c, <1>9, ReturnIs, StepsAre DEF lists, Ops
  <2>2. ~(Setting' /\ main'.pc \in {"stop", "ignore", "edit"})
    <3>1. /\ main'.todo = <<>> => main'.pc = "idle"
          /\ main'.todo # <<>> => main'.pc = Begin(Call'.op)
      BY <1>0, <1>9, ReturnIs DEF Call
    <3> QED BY <3>1 DEF Setting, Begin
  <2>3. CASE main.in = "connect"
    <3>1. Call.op = "set" /\ Call.proc = "connect" /\ main'.todo = <<>>
      BY <1>0, <1>c, <2>1, <2>3, CallIs DEF Flow, Ops
    <3>2. MayTimeOut' /\ ConnectId' = ConnectId
      BY <2>1, <2>3, <3>1 DEF MayTimeOut, ConnectId
    <3> QED BY <1>0, <1>l, <1>f, <2>1, <2>2, <3>2, ConnectKept DEF ListLess
  <2>4. CASE main.in # "connect"
    <3>1. ~MayTimeOut
      BY <2>1, <2>4 DEF MayTimeOut
    <3> QED BY <1>2, <1>l, <2>1, <2>2, <3>1
  <2> QED BY <2>3, <2>4
<1>19. CASE virtual_timer_is_null
  BY <1>1, <1>l, <1>f, <1>19 DEF virtual_timer_is_null, Crash, lists
<1>20. CASE pause
  <2>1. /\ UNCHANGED <<next, active, data, frames>> /\ main.in = "sleep"
        /\ main'.pc = main.pc /\ main.pc = "idle"
    BY <1>0, <1>20 DEF pause, InCaller, InMain, lists, TypeOK, Programs
  <2>2. ~MayTimeOut
    BY <2>1 DEF MayTimeOut
  <2> QED BY <1>2, <1>l, <2>1, <2>2
<1>10. CASE reenable_timers
  <2>1. UNCHANGED <<next, active, data, frames>> /\ main.in = "task" /\ Goto("idle")
    BY <1>0, <1>10 DEF reenable_timers, InMain, lists, Flow
  <2>2. main'.pc = "idle"
    BY <1>0, <2>1, MainGoes
  <2>3. ~MayTimeOut
    BY <2>1 DEF MayTimeOut
  <2> QED BY <1>2, <1>l, <2>1, <2>2, <2>3
<1>11. CASE wakeup_call
  <2>1. CASE Crash
    BY <1>1, <1>l, <1>f, <2>1 DEF Crash, lists
  <2>2. CASE ~Crash
    BY <1>11, <2>2, TakenConnect DEF wakeup_call, InHandler
  <2> QED BY <2>1, <2>2
<1>12. CASE virtual_wakeup_call
  <2>1. CASE Crash
    BY <1>1, <1>l, <1>f, <2>1 DEF Crash, lists
  <2>2. CASE virt # Null /\ frames # <<>> /\ Top.sig = "vtalrm" /\ TopHolds("link", virt)
             /\ UNCHANGED <<next, data, active, main>>
    <3>1. PICK x \in Nodes : x = virt
      BY <1>0, <2>2 DEF TypeOK, Ref
    <3>2. PICK k \in DOMAIN frames : k = Len(frames) /\ Top = frames[k]
      BY <1>0, <2>2, TopIs
    <3>3. /\ DOMAIN frames' = DOMAIN frames
          /\ \A i \in DOMAIN frames : i # k => frames'[i] = frames[i]
          /\ frames'[k].sig = "vtalrm"
      BY <1>0, <2>2, <3>1, <3>2, TopTakes
    <3>4. \A i \in DOMAIN frames' : ConnectFrame(i)' => i \in DOMAIN frames /\ ConnectFrame(i)
      BY <3>3 DEF ConnectFrame
    <3> QED BY <1>1, <1>l, <2>2, <3>4
  <2> QED BY <1>12, <2>1, <2>2 DEF virtual_wakeup_call, InHandler
<1>13. ASSUME frames # <<>>, Top.pc \in {"link", "push"}, UNCHANGED <<data, active, main>>,
              Chain(next', active) \subseteq Chain(next, active), NEW pc, TopGoto(pc)
       PROVE  ConnectOK'
  <2>1. ListLess
    BY <1>13 DEF ListLess, Connects
  <2>2. PICK k \in DOMAIN frames : k = Len(frames) /\ Top = frames[k]
    BY <1>0, <1>13, TopIs
  <2>3. /\ DOMAIN frames' = DOMAIN frames
        /\ \A i \in DOMAIN frames : i # k => frames'[i] = frames[i]
        /\ frames'[k].sig = frames[k].sig /\ frames'[k].proc = frames[k].proc
    BY <1>0, <1>13, <2>2, TopGoes
  <2>4. \A i \in DOMAIN frames' : ConnectFrame(i)' => i \in DOMAIN frames /\ ConnectFrame(i)
    BY <1>13, <2>2, <2>3 DEF ConnectFrame
  <2> QED BY <1>1, <1>13, <2>1, <2>4
<1>14. CASE free_timer
  <2>1. CASE frames # <<>> /\ Top.pc = "link" /\ next' = [next EXCEPT ![Top.this] = free] /\ TopGoto("push")
             /\ UNCHANGED <<data, active, main>>
    <3>1. PICK k \in DOMAIN frames : k = Len(frames) /\ Top = frames[k] /\ Top \in Frames
      BY <1>0, <2>1, TopIs
    <3>2. PICK x \in Nodes : x = Top.this
      BY <2>1, <3>1 DEF IInv, FramesOK, FrameHolds
    <3>3. PICK sig \in {"alrm", "vtalrm"} : sig = Top.sig
      BY <3>1 DEF Frames
    <3>4. Owns(sig, x) /\ sig \in Owners /\ sig # "active"
      BY <2>1, <3>1, <3>2, <3>3 DEF Owns, FrameHolds, Owners
    <3>5. x \notin Chain(next, active)
      BY <3>4, NotListed
    <3>6. Chain(next', active) \subseteq Chain(next, active)
      BY <1>0, <2>1, <3>2, <3>5, ChainKept DEF TypeOK
    <3> QED BY <1>13, <2>1, <3>6
  <2>2. CASE frames # <<>> /\ Top.pc = "push" /\ (\E pc : TopGoto(pc)) /\ UNCHANGED <<next, data, active, main>>
    BY <1>13, <2>2
  <2> QED BY <1>14, <2>1, <2>2 DEF free_timer
<1>15. CASE timeout_proc
  <2>1. /\ UNCHANGED <<next, active, data>> /\ frames' = <<>> /\ main'.pc = "except"
    BY <1>0, <1>15 DEF timeout_proc, lists, TypeOK, Programs
  <2>2. Len(frames) \in DOMAIN frames /\ ConnectFrame(Len(frames))
    BY <1>0, <1>15, TopIs DEF timeout_proc, InHandler, ConnectFrame
  <2>3. \A n \in Nodes : ~Connects(n)
    BY <1>0, <2>2 DEF ConnectOK
  <2>4. \A n \in Nodes : ~Connects(n)'
    BY <1>l, <2>1, <2>3 DEF ListLess
  <2>5. DOMAIN frames' = {}
    BY <2>1
  <2> QED BY <2>1, <2>4, <2>5 DEF ConnectOK
<1>16. CASE handler_returns
  <2>1. frames # <<>> /\ frames' = Front(frames) /\ UNCHANGED lists
    BY <1>16 DEF handler_returns
  <2>2. \A i \in DOMAIN frames' : ConnectFrame(i)' => i \in DOMAIN frames /\ ConnectFrame(i)
    BY <1>0, <2>1, TopEnds DEF ConnectFrame
  <2>3. CASE main' = main
    BY <1>1, <1>l, <2>1, <2>2, <2>3 DEF lists
  <2>4. CASE main.in = "pause" /\ main' = [main EXCEPT !.in = "down"]
    <3>1. ~MayTimeOut
      BY <2>4 DEF MayTimeOut
    <3>2. main'.pc = main.pc /\ main'.todo = main.todo /\ main'.this = main.this
      BY <1>0, <2>4 DEF TypeOK, Programs
    <3>3. Setting' /\ main'.pc \in {"stop", "ignore", "edit"} => data'[main'.this].proc = Call'.proc
      BY <1>0, <2>1, <3>2 DEF ConnectOK, Setting, Call, lists
    <3> QED BY <1>0, <1>l, <2>1, <2>2, <3>1, <3>3, ConnectKept DEF ListLess, lists
  <2> QED BY <1>16, <2>3, <2>4 DEF handler_returns
<1>17. CASE DeliverAlarm \/ DeliverVirtual
  <2>1. PICK sig \in {"alrm", "vtalrm"} : frames' = Append(frames, Frame(sig))
    BY <1>17 DEF DeliverAlarm, DeliverVirtual
  <2>2. PICK last : last = Len(frames) + 1
    OBVIOUS
  <2>3. /\ DOMAIN frames' = DOMAIN frames \cup {last}
        /\ \A i \in DOMAIN frames : frames'[i] = frames[i]
        /\ frames'[last].pc = "pop"
    BY <1>0, <2>1, <2>2, TopStarts
  <2>4. \A i \in DOMAIN frames' : ConnectFrame(i)' => i \in DOMAIN frames /\ ConnectFrame(i)
    BY <2>3 DEF ConnectFrame
  <2> QED BY <1>1, <1>l, <1>17, <2>4 DEF DeliverAlarm, DeliverVirtual, lists
<1>18. CASE Tick \/ AlarmExpires \/ VirtualRuns
  BY <1>1, <1>l, <1>f, <1>18 DEF Tick, AlarmExpires, VirtualRuns, lists
<1> QED
  BY <1>3, <1>4, <1>5, <1>6, <1>7, <1>8, <1>9, <1>10, <1>11, <1>12, <1>14, <1>15, <1>16, <1>17, <1>18,
     <1>19, <1>20, InsertConnect, RemoveConnect DEF Next, Statements

-----------------------------------------------------------------------------
(* The specification. *)

\* The state main_loop() starts from: the checkpoint timer is the first to be set.
LEMMA InitInv == Init => IInv
<1>1. SUFFICES ASSUME Init PROVE IInv
  OBVIOUS
<1>2. /\ next = [n \in Nodes |-> Null] /\ data = [n \in Nodes |-> NoTimer]
      /\ active = Null /\ free = Null /\ virt = Null /\ heap = Nodes /\ next_id = 0
      /\ now = 0 /\ vt = 0 /\ mask = {} /\ frames = <<>>
  BY <1>1 DEF Init
<1>3. PICK s \in Intervals :
        main = [in |-> "loop", pc |-> "test", todo |-> <<set_timer(s, "checkpoint")>>, this |-> Null,
                ids |-> [p \in Procs |-> -1]]
  BY <1>1 DEF Init
<1>4. s \in Nat
  BY TimersAssumption
<1> DEFINE call == set_timer(s, "checkpoint")
<1>5. call \in Requests /\ call.op = "set" /\ call.proc = "checkpoint" /\ call.sec = s
  BY <1>4, CallsAre DEF Procs
<1>6. <<call>> \in Seq(Requests) /\ Len(<<call>>) = 1 /\ Head(<<call>>) = call /\ <<call>> # <<>>
  BY <1>5
<1> HIDE DEF call
<1>7. /\ main.in = "loop" /\ main.pc = "test" /\ main.todo = <<call>> /\ main.this = Null
      /\ main.ids = [p \in Procs |-> -1] /\ Call = call /\ main.todo # <<>>
  BY <1>3, <1>6 DEF Call, call
<1>8. TypeOK
  <2>1. main \in Programs
    <3>1. [p \in Procs |-> -1] \in [Procs -> Int]
      OBVIOUS
    <3>2. "loop" \in Callings /\ "test" \in Places /\ Null \in Ref
      BY DEF Callings, Places, Steps, Ref
    <3> QED BY <1>3, <1>6, <3>1, <3>2 DEF Programs, call
  <2>2. data \in [Nodes -> [id : Int, when : Int, proc : Procs]]
    BY <1>2 DEF NoTimer, Procs
  <2>3. frames \in Seq(Frames)
    BY <1>2
  <2> QED BY <1>2, <2>1, <2>2, <2>3 DEF TypeOK, Pointers, Ref
<1>9. Acyclic(next)
  BY <1>2, TimersAssumption DEF Acyclic
<1>10. Chain(next, Null) = {}
  BY <1>8, ChainOfNull DEF TypeOK
<1>11. DOMAIN frames = {}
  BY <1>2
<1>12. ~MainHolds
  BY <1>7 DEF MainHolds
<1>13. OneOwner
  <2>1. \A n \in Nodes : \A o \in Owners : Owns(o, n) => o = "heap"
    BY <1>2, <1>7, <1>10, <1>11, <1>12, TimersAssumption DEF Owns
  <2> QED BY <2>1 DEF OneOwner
<1>14. FramesOK
  BY <1>11 DEF FramesOK
<1>15. Flow
  <2>1. Len(main.todo) = 1
    BY <1>6, <1>7
  <2> QED BY <1>5, <1>7, <1>12, <2>1, StepsAre DEF Flow, Restarting
<1>16. VirtualOK
  BY <1>2 DEF VirtualOK
<1>17. ConnectOK
  <2>1. \A n \in Nodes : ~Connects(n)
    BY <1>2, <1>10 DEF Connects
  <2> QED BY <1>7, <1>11, <2>1 DEF ConnectOK
<1>18. IdsOK
  BY <1>2 DEF IdsOK, NoTimer
<1> QED
  BY <1>8, <1>9, <1>13, <1>14, <1>15, <1>16, <1>17, <1>18 DEF IInv

\* A step of the environment that changes nothing.
LEMMA StutterInv == IInv /\ UNCHANGED vars => IInv'
<1>1. SUFFICES ASSUME IInv, UNCHANGED vars PROVE IInv'
  OBVIOUS
<1>2. UNCHANGED <<next, data, active, free, virt, heap, next_id, now, vt, mask, frames, main>>
  BY <1>1 DEF vars, lists, signals
<1>3. TypeOK' /\ Acyclic(next)' /\ IdsOK'
  BY <1>1, <1>2 DEF IInv, TypeOK, Acyclic, IdsOK
<1>4. (MainHolds' <=> MainHolds) /\ Call' = Call /\ (Setting' <=> Setting)
      /\ (MayTimeOut' <=> MayTimeOut) /\ ConnectId' = ConnectId
  BY <1>2 DEF MainHolds, Setting, Call, MayTimeOut, ConnectId
<1>5. FramesOK' /\ Flow' /\ VirtualOK'
  BY <1>1, <1>2, <1>4 DEF IInv, FramesOK, FrameHolds, Flow, VirtualOK
<1>6. ConnectOK'
  BY <1>1, <1>2, <1>4 DEF IInv, ConnectOK, Connects, ConnectFrame
<1>7. OneOwner'
  <2>1. FramesLess /\ MainLess
    BY <1>2, <1>4 DEF FramesLess, MainLess, FrameHolds
  <2> QED BY <1>1, <1>2, <2>1, OwnersKept DEF IInv
<1> QED
  BY <1>3, <1>5, <1>6, <1>7 DEF IInv

\* Whatever the signals interrupt: each Timer_Entry is on one list, with main, with a
\* handler or with malloc(); handlers of one signal do not nest; a limit belongs to the
\* task that runs; and a connect() timer is there only while one is waited for.
THEOREM TimersInvariant == Spec => []IInv
<1>1. IInv /\ [Next]_vars => IInv'
  <2>1. ASSUME IInv, Next PROVE IInv'
    BY <2>1, TypeStep, ShapeStep, FramesStep, FlowStep, VirtualStep, ConnectStep, IdsStep DEF IInv
  <2> QED BY <2>1, StutterInv
<1> QED
  BY <1>1, InitInv, PTL DEF Spec

\* SignalsAreSafe of timers.c: timeout_proc() runs only while tcp_open() is there to
\* catch its exception, no limit is left for the next task, and no node is on two lists.
THEOREM SignalsNeverHurt == Spec => []SignalsAreSafe
<1>1. IInv => SignalsAreSafe
  <2>1. SUFFICES ASSUME IInv PROVE SignalsAreSafe
    OBVIOUS
  <2>2. TypeOK /\ OneOwner /\ Acyclic(next) /\ ConnectOK
    BY <2>1 DEF IInv
  <2>3. ASSUME InHandler("alrm", "done"), Top.proc = "connect" PROVE main.in \in {"connect", "connected"}
    <3>1. Len(frames) \in DOMAIN frames /\ ConnectFrame(Len(frames))
      BY <2>2, <2>3, TopIs DEF InHandler, ConnectFrame
    <3> QED BY <2>2, <3>1 DEF ConnectOK, MayTimeOut
  <2>4. ASSUME main.in = "loop", main.pc = "idle" PROVE virt = Null
    BY <2>1, <2>4, VirtualIs
  <2>5. /\ Reach(active) \in SUBSET Nodes /\ Reach(free) \in SUBSET Nodes
        /\ {"active", "free", "virt", "heap"} \subseteq Owners
    BY <2>2, ChainFacts DEF TypeOK, Reach, Owners
  <2>6. /\ \A n \in Reach(active) : Owns("active", n)
        /\ \A n \in Reach(free) : Owns("free", n)
        /\ \A n \in heap : Owns("heap", n)
        /\ Owns("virt", virt)
    BY DEF Reach, Owns
  <2>7. NodesAreNotShared
    BY <2>2, <2>5, <2>6 DEF NodesAreNotShared, OneOwner
  <2> QED BY <2>3, <2>4, <2>7 DEF SignalsAreSafe, TimeoutsAreCaught
<1> QED
  BY <1>1, TimersInvariant, PTL

-----------------------------------------------------------------------------
(* The list of active timers, which is in the order of their times. *)

Listed == Chain(next, active)

\* No timer is later than the next.
Sorted == \A n \in Listed : next[n] # Null => data[n].when <= data[next[n]].when

\* The first timer and the second are due at t, if they are there.
FirstBy(t) == active = Null \/ data[active].when <= t
SecondBy(t) == active = Null \/ next[active] = Null \/ data[next[active]].when <= t

AtMostOne == \A m, n \in Listed : m = n
AtMostTwo == \A k, m, n \in Listed : k = m \/ k = n \/ m = n

\* What is on the list
LEMMA ListIs ==
  ASSUME IInv
  PROVE  /\ Listed \in SUBSET Nodes
         /\ Null \notin Nodes
         /\ active \in Listed \cup {Null}
         /\ \A n \in Listed : /\ next[n] \in Listed \cup {Null}
                              /\ next[n] # n
                              /\ data[n].when \in Int /\ data[n].id \in Int
         /\ active # Null =>
              /\ active \in Nodes
              /\ Chain(next, next[active]) = Listed \ {active}
<1>0. TypeOK /\ Acyclic(next) /\ next \in Pointers /\ active \in Ref
  BY DEF IInv, TypeOK
<1>1. Listed \in SUBSET Nodes /\ Closed(next, Listed) /\ (active \in Nodes => active \in Listed)
  BY <1>0, ChainFacts DEF Listed
<1>2. Null \notin Nodes
  BY TimersAssumption
<1>3. active \in Listed \cup {Null} /\ (active # Null => active \in Nodes)
  BY <1>0, <1>1 DEF Ref
<1>4. ASSUME NEW n \in Listed
      PROVE  /\ next[n] \in Listed \cup {Null}
             /\ next[n] # n
             /\ data[n].when \in Int /\ data[n].id \in Int
  <2>1. n \in Nodes
    BY <1>1
  <2>2. next[n] # n
    <3>1. SUFFICES ASSUME next[n] = n PROVE FALSE
      OBVIOUS
    <3>2. {n} \in SUBSET Nodes /\ {n} # {}
      BY <2>1
    <3>3. \E m \in {n} : next[m] \notin {n}
      BY <1>0, <3>2 DEF Acyclic
    <3> QED BY <3>1, <3>3
  <2> QED BY <1>0, <1>1, <2>1, <2>2 DEF Closed, TypeOK
<1>5. ASSUME active # Null PROVE Chain(next, next[active]) = Listed \ {active}
  <2>1. active \in Nodes
    BY <1>3, <1>5
  <2>2. Chain(next, active) = {active} \cup Chain(next, next[active]) /\ active \notin Chain(next, next[active])
    BY <1>0, <2>1, ChainUnfolds
  <2> QED BY <2>2 DEF Listed
<1> QED
  BY <1>1, <1>2, <1>3, <1>4, <1>5

\* The first timer is the earliest.
LEMMA FirstIsLeast ==
  ASSUME IInv, Sorted, active # Null, NEW n \in Listed
  PROVE  data[active].when <= data[n].when
<1> DEFINE D == {m \in Listed : data[active].when <= data[m].when}
<1>1. /\ Listed \in SUBSET Nodes /\ active \in Listed
      /\ \A m \in Listed : next[m] \in Listed \cup {Null} /\ data[m].when \in Int
  BY ListIs
<1>2. D \in SUBSET Nodes
  BY <1>1
<1>3. Closed(next, D)
  <2>1. SUFFICES ASSUME NEW m \in D, next[m] # Null PROVE next[m] \in D
    BY DEF Closed
  <2>2. m \in Listed /\ next[m] \in Listed /\ data[active].when <= data[m].when
    BY <1>1, <2>1
  <2>3. data[m].when <= data[next[m]].when
    BY <2>1, <2>2 DEF Sorted
  <2> QED BY <1>1, <2>2, <2>3
<1>4. active \in D \cup {Null}
  BY <1>1
<1>5. next \in Pointers /\ active \in Ref
  BY DEF IInv, TypeOK
<1>6. Listed \subseteq D
  <2> HIDE DEF D
  <2> QED BY <1>2, <1>3, <1>4, <1>5, ChainLeast DEF Listed
<1> QED
  BY <1>6

\* The list and the timers on it are what they were.
ListStays ==
  /\ active' = active
  /\ Listed' = Listed
  /\ \A n \in Listed : data'[n] = data[n] /\ next'[n] = next[n]

\* A pointer of a node that is not on a chain changes nothing of the chain.
LEMMA ChainSame ==
  ASSUME NEW succ \in Pointers, Acyclic(succ), NEW start \in Ref, NEW n \in Nodes,
         n \notin Chain(succ, start), NEW new \in Pointers, Acyclic(new),
         \A m \in Nodes : m # n => new[m] = succ[m]
  PROVE  Chain(new, start) = Chain(succ, start)
<1>1. /\ Chain(succ, start) \in SUBSET Nodes /\ Closed(succ, Chain(succ, start))
      /\ start \in Nodes => start \in Chain(succ, start)
  BY ChainFacts
<1>2. Closed(new, Chain(succ, start))
  BY <1>1 DEF Closed
<1>3. start \in Chain(succ, start) \cup {Null}
  BY <1>1 DEF Ref
<1>4. Chain(new, start) \subseteq Chain(succ, start)
  BY <1>1, <1>2, <1>3, ChainLeast
<1>5. /\ Chain(new, start) \in SUBSET Nodes /\ Closed(new, Chain(new, start))
      /\ start \in Nodes => start \in Chain(new, start)
  BY ChainFacts
<1>6. Closed(succ, Chain(new, start))
  BY <1>4, <1>5 DEF Closed
<1>7. start \in Chain(new, start) \cup {Null}
  BY <1>5 DEF Ref
<1>8. Chain(succ, start) \subseteq Chain(new, start)
  BY <1>5, <1>6, <1>7, ChainLeast
<1> QED
  BY <1>4, <1>8

\* Steps that do not touch the list
Untouched ==
  \/ Callers \/ allocate_timer \/ fill_timer \/ virtual_timer_is_set \/ stop_timers
  \/ restart_timers \/ Return \/ pause \/ reenable_timers \/ virtual_timer_is_null
  \/ virtual_wakeup_call \/ free_timer
  \/ timeout_proc \/ handler_returns
  \/ DeliverAlarm \/ DeliverVirtual \/ Tick \/ AlarmExpires \/ VirtualRuns

\* Only what set_timer() links, cancel_timer() unlinks, or wakeup_call() takes changes the
\* list, whatever is done to nodes that are on their way to it or from it.
LEMMA UntouchedStays ==
  ASSUME IInv, IInv', Untouched
  PROVE  ListStays
<1>0. TypeOK /\ Acyclic(next) /\ Flow /\ OneOwner /\ Acyclic(next') /\ next' \in Pointers
  BY DEF IInv, TypeOK
<1>1. ASSUME UNCHANGED <<next, active, data>> PROVE ListStays
  BY <1>1 DEF ListStays, Listed
<1>2. ASSUME NEW x \in Nodes, x \notin Listed, UNCHANGED <<next, active>>,
             \A n \in Nodes : n # x => data'[n] = data[n]
      PROVE  ListStays
  <2>1. Listed \in SUBSET Nodes
    BY ListIs
  <2> QED BY <1>2, <2>1 DEF ListStays, Listed
<1>3. ASSUME NEW x \in Nodes, NEW o \in Owners, o # "active", Owns(o, x) PROVE x \notin Listed
  BY <1>3, NotListed DEF Listed
<1>4. CASE fill_timer
  <2>1. PICK x \in Nodes : x = main.this
    BY <1>0, <1>4 DEF fill_timer, InMain, Flow, MainHolds
  <2>2. Owns("main", x) /\ "main" \in Owners
    BY <1>4, <2>1 DEF Owns, MainHolds, Owners, fill_timer, InMain
  <2>3. UNCHANGED <<next, active>> /\ \A n \in Nodes : n # x => data'[n] = data[n]
    BY <1>0, <1>4, <2>1 DEF fill_timer, TypeOK
  <2> QED BY <1>2, <1>3, <2>2, <2>3
<1>5. CASE stop_timers
  <2>1. CASE data' = data
    BY <1>1, <1>5, <2>1 DEF stop_timers, lists
  <2>2. CASE data' # data
    <3>1. virt # Null /\ UNCHANGED <<next, active>> /\ \E s : data' = [data EXCEPT ![virt].when = s]
      BY <1>5, <2>2 DEF stop_timers, lists
    <3>2. PICK x \in Nodes : x = virt
      BY <1>0, <3>1 DEF TypeOK, Ref
    <3>3. Owns("virt", x) /\ "virt" \in Owners
      BY <3>2 DEF Owns, Owners
    <3>4. \A n \in Nodes : n # x => data'[n] = data[n]
      BY <1>0, <3>1, <3>2 DEF TypeOK
    <3> QED BY <1>2, <1>3, <3>1, <3>3, <3>4
  <2> QED BY <2>1, <2>2
<1>6. CASE free_timer
  <2>1. CASE frames # <<>> /\ Top.pc = "link" /\ next' = [next EXCEPT ![Top.this] = free]
             /\ UNCHANGED <<data, active>>
    <3>1. PICK k \in DOMAIN frames : k = Len(frames) /\ Top = frames[k] /\ Top \in Frames
      BY <1>0, <2>1, TopIs
    <3>2. PICK x \in Nodes : x = Top.this
      BY <2>1, <3>1 DEF IInv, FramesOK, FrameHolds
    <3>3. PICK sig \in {"alrm", "vtalrm"} : sig = Top.sig
      BY <3>1 DEF Frames
    <3>4. Owns(sig, x) /\ sig \in Owners /\ sig # "active"
      BY <2>1, <3>1, <3>2, <3>3 DEF Owns, FrameHolds, Owners
    <3>5. x \notin Listed
      BY <1>3, <3>4
    <3>6. \A m \in Nodes : m # x => next'[m] = next[m]
      BY <1>0, <2>1, <3>2 DEF TypeOK, Pointers
    <3>7. Chain(next', active) = Chain(next, active)
      <4>1. next \in Pointers /\ Acyclic(next) /\ next' \in Pointers /\ Acyclic(next') /\ active \in Ref
        BY <1>0 DEF TypeOK
      <4>2. x \notin Chain(next, active)
        BY <3>5 DEF Listed
      <4> QED BY <3>6, <4>1, <4>2, ChainSame
    <3>8. Listed' = Listed
      BY <2>1, <3>7 DEF Listed
    <3> QED BY <2>1, <3>5, <3>6, <3>8, ListIs DEF ListStays
  <2>2. CASE UNCHANGED <<next, data, active>>
    BY <1>1, <2>2
  <2> QED BY <1>6, <2>1, <2>2 DEF free_timer
<1>7. CASE Callers
  <2>1. CallersBegin
    BY <1>0, <1>7, CallersDo
  <2> QED BY <1>1, <2>1 DEF CallersBegin, lists
<1>8. CASE \/ allocate_timer \/ virtual_timer_is_set \/ restart_timers \/ Return \/ reenable_timers
           \/ pause \/ virtual_timer_is_null
           \/ virtual_wakeup_call \/ timeout_proc \/ handler_returns
  BY <1>1, <1>8 DEF allocate_timer, virtual_timer_is_set, restart_timers, Return, reenable_timers,
     pause, virtual_timer_is_null, virtual_wakeup_call, timeout_proc, handler_returns, Then, Crash, lists
<1>9. CASE DeliverAlarm \/ DeliverVirtual \/ Tick \/ AlarmExpires \/ VirtualRuns
  BY <1>1, <1>9 DEF DeliverAlarm, DeliverVirtual, Tick, AlarmExpires, VirtualRuns, lists
<1> QED
  BY <1>4, <1>5, <1>6, <1>7, <1>8, <1>9 DEF Untouched

\* Where the handler of a signal is, if it runs
At(sig) ==
  IF \E i \in DOMAIN frames : frames[i].sig = sig
  THEN frames[CHOOSE i \in DOMAIN frames : frames[i].sig = sig].pc ELSE "none"
Handler == At("alrm")
Freeing == Handler \in {"link", "push", "alarm"}

\* A timer on the list, or on its way there, has an id.
IdsGiven ==
  /\ Setting /\ main.pc \in {"stop", "ignore", "edit"} => data[main.this].id >= 0
  /\ \A n \in Listed : data[n].id >= 0

\* The checkpoint timer is the one whose id main_loop() keeps, from when it is set to when
\* it is cancelled.
NoCheckpoint ==
  /\ main.in = "loop"
  /\ IF main.pc \in Restarting THEN Len(main.todo) = 2 ELSE Setting
CheckpointId ==
  IF main.in = "loop" /\ Setting /\ main.pc \in Restarting THEN data[main.this].id
  ELSE main.ids["checkpoint"]
CheckpointOK ==
  /\ Len(main.todo) = 2 => Call.id = main.ids["checkpoint"]
  /\ \A n \in Listed : data[n].proc = "checkpoint" => ~NoCheckpoint /\ data[n].id = CheckpointId

\* timer_sleep() has a list with at most one timer where it sets its own.
Sleeping == main.in \in {"sleep", "pause", "down"}
LastOne ==
  \/ main.in = "down"
  \/ main.in = "sleep" /\ Setting /\ main.pc \notin Restarting
  \/ main.in \in {"sleep", "pause"} /\ Handler \notin {"none", "pop"}
NoneOK ==
  /\ \A n \in Listed : data[n].proc # "task" /\ (data[n].proc = "none" => Sleeping)
  /\ Sleeping => At("vtalrm") \in {"none", "pop"} /\ AtMostTwo
  /\ LastOne => AtMostOne

\* No SIGALRM is on its way, nor its handler running.
Quiet == ~pend /\ Handler = "none"
\* Between stop_timers() and restart_timers()
Blind == \/ main.pc = "edit"
         \/ main.todo # <<>> /\ Call.op = "setv" /\ main.pc \in {"test", "take", "fill"}

\* SIGALRM comes for a timer that is due.
AlarmOK ==
  /\ alarm # Null => alarm \in Int
  /\ pend \/ Handler = "pop" => FirstBy(now)
  /\ alarm # Null /\ main.pc # "alarm" => FirstBy(alarm)
  /\ pend /\ Handler = "pop" => alarm = Null /\ SecondBy(now)
  /\ (pend \/ Handler = "pop") /\ alarm # Null => SecondBy(alarm)
  /\ Freeing /\ alarm # Null => active = Null \/ next[active] = Null
  /\ main.pc = "ignore" /\ alarm # Null =>
       ~pend /\ Handler # "pop" /\ ~Freeing /\ alarm > now /\ active # Null /\ data[active].when = alarm
  /\ Blind => Quiet /\ (alarm # Null => alarm > now /\ active # Null /\ data[active].when = alarm)
  /\ main.pc = "alarm" =>
       Quiet /\ (alarm # Null => alarm > now /\ (active = Null \/ data[active].when > now \/ SecondBy(alarm)))

\* The inductive invariant of the list
CInv == IInv /\ Sorted /\ IdsGiven /\ CheckpointOK /\ NoneOK /\ AlarmOK

-----------------------------------------------------------------------------
\* What set_timer() and cancel_timer() do to the list
Inserted(x) ==
  /\ x \in Nodes \ Listed /\ Listed' = Listed \cup {x}
  /\ data' = data
  /\ \/ active' = x /\ next'[x] = active
     \/ active' = active /\ active # Null
Unlinked(n) ==
  /\ n \in Listed /\ Listed' = Listed \ {n}
  /\ data' = data
  /\ \/ n = active /\ active' = next[active]
     \/ n # active /\ active' = active

\* set_timer() puts the node behind every one that is not later.
LEMMA InsertIs ==
  ASSUME IInv, Sorted, insert_timer
  PROVE  Inserted(main.this) /\ Sorted'
<1> DEFINE x == main.this
           A == Listed
<1>0. /\ TypeOK /\ Acyclic(next) /\ next \in Pointers /\ active \in Ref
      /\ x \in Nodes /\ MainHolds
      /\ next' \in Pointers /\ Acyclic(next') /\ data' = data
      /\ Chain(next', active') \subseteq A \cup {x}
  BY InsertChains DEF IInv, TypeOK, Listed, insert_timer
<1>1. x \notin A
  <2>1. Owns("main", x) /\ "main" \in Owners
    BY <1>0 DEF Owns, Owners
  <2> QED BY <1>0, <2>1, NotListed DEF Listed
<1>2. /\ A \in SUBSET Nodes /\ Null \notin Nodes /\ active \in A \cup {Null}
      /\ \A n \in A : next[n] \in A \cup {Null} /\ data[n].when \in Int
  BY ListIs
<1>3. data[x].when \in Int
  BY <1>0 DEF TypeOK
<1> DEFINE before == {n \in A : data[n].when <= data[x].when}
<1>4. Behind(x) = IF before = {} THEN Null ELSE CHOOSE n \in before : next[n] \notin before
  BY DEF Behind, Reach, Listed
<1>s. ASSUME NEW n \in A, next[n] # Null PROVE data[n].when <= data[next[n]].when
  BY <1>s DEF Sorted
<1>5. CASE before = {}
  <2>1. next' = [next EXCEPT ![x] = active] /\ active' = x
    BY <1>4, <1>5 DEF insert_timer
  <2>2. next'[x] = active /\ \A m \in Nodes : m # x => next'[m] = next[m]
    BY <1>0, <2>1 DEF Pointers
  <2>3. Chain(next', active) = A
    <3>1. x \notin Chain(next, active)
      BY <1>1 DEF Listed
    <3>2. Chain(next', active) = Chain(next, active)
      <4> HIDE DEF x
      <4> QED BY <1>0, <2>2, <3>1, ChainSame
    <3> QED BY <3>2 DEF Listed
  <2>4. Chain(next', x) = {x} \cup Chain(next', active)
    <3> HIDE DEF x
    <3> QED BY <1>0, <2>2, ChainUnfolds
  <2>5. Listed' = A \cup {x}
    BY <2>1, <2>3, <2>4 DEF Listed
  <2>6. Inserted(x)
    BY <1>0, <1>1, <2>1, <2>2, <2>5 DEF Inserted
  <2>7. Sorted'
    <3>1. SUFFICES ASSUME NEW n \in A \cup {x}, next'[n] # Null
                   PROVE  data[n].when <= data[next'[n]].when
      BY <1>0, <2>5 DEF Sorted
    <3>2. CASE n = x
      <4>1. next'[n] = active /\ active \in A
        BY <1>2, <2>2, <3>1, <3>2
      <4>2. ~(data[active].when <= data[x].when) /\ data[active].when \in Int
        BY <1>2, <1>5, <4>1
      <4>3. data[x].when <= data[active].when
        BY <1>3, <4>2
      <4> QED BY <3>2, <4>1, <4>3
    <3>3. CASE n # x
      <4>1. n \in A /\ next'[n] = next[n]
        BY <1>2, <2>2, <3>1, <3>3
      <4> QED BY <1>s, <3>1, <4>1
    <3> QED BY <3>2, <3>3
  <2> QED BY <2>6, <2>7
<1>6. CASE before # {}
  <2> DEFINE p == Behind(x)
  <2>1. p \in before /\ next[p] \notin before
    <3>1. before \in SUBSET Nodes
      BY <1>2
    <3>2. \E n \in before : next[n] \notin before
      <4> HIDE DEF before
      <4> QED BY <1>0, <1>6, <3>1 DEF Acyclic
    <3> HIDE DEF before, x
    <3> QED BY <1>4, <1>6, <3>2
  <2>2. p \in A /\ p \in Nodes /\ p # x /\ p # Null /\ data[p].when <= data[x].when
    BY <1>1, <1>2, <2>1
  <2>3. next' = [next EXCEPT ![x] = next[p], ![p] = x] /\ active' = active
    BY <2>2 DEF insert_timer
  <2> HIDE DEF p
  <2>4. next'[x] = next[p] /\ next'[p] = x /\ \A m \in Nodes : m # x /\ m # p => next'[m] = next[m]
    BY <1>0, <2>2, <2>3 DEF Pointers
  <2> DEFINE C == Chain(next', active')
  <2>5. C \in SUBSET Nodes /\ Closed(next', C) /\ active \in C \cup {Null}
    <3>1. active' \in Ref /\ (active' \in Nodes => active' \in C) /\ C \in SUBSET Nodes /\ Closed(next', C)
      BY <1>0, <2>3, ChainFacts
    <3> QED BY <2>3, <3>1 DEF Ref
  <2> HIDE DEF C
  <2>6. A \subseteq C
    <3> DEFINE D == {m \in A : m \in C}
    <3>1. D \in SUBSET Nodes /\ active \in D \cup {Null}
      BY <1>2, <2>5
    <3>2. ASSUME NEW m \in D, next[m] # Null PROVE next[m] \in D
      <4>1. m \in A /\ m \in C /\ m \in Nodes /\ next[m] \in A /\ m # x
        BY <1>1, <1>2, <3>2
      <4>2. CASE m = p
        <5>1. x \in C
          BY <1>0, <1>2, <2>4, <2>5, <4>1, <4>2 DEF Closed
        <5>2. next[p] \in C
          BY <2>4, <2>5, <3>2, <4>2, <5>1 DEF Closed
        <5> QED BY <4>1, <4>2, <5>2
      <4>3. CASE m # p
        <5>1. next'[m] = next[m]
          BY <2>4, <4>1, <4>3
        <5>2. next[m] \in C
          BY <2>5, <3>2, <4>1, <5>1 DEF Closed
        <5> QED BY <4>1, <5>2
      <4> QED BY <4>2, <4>3
    <3>3. Closed(next, D)
      BY <3>2 DEF Closed
    <3>4. Chain(next, active) \subseteq D
      <4> HIDE DEF D
      <4> QED BY <1>0, <3>1, <3>3, ChainLeast
    <3> QED BY <3>4 DEF Listed
  <2>7. x \in C
    BY <1>0, <1>2, <2>2, <2>4, <2>5, <2>6 DEF Closed
  <2>8. Listed' = A \cup {x}
    BY <1>0, <2>6, <2>7 DEF Listed, C
  <2>9. Inserted(x)
    <3>1. active # Null
      <4>1. SUFFICES ASSUME active = Null PROVE FALSE
        OBVIOUS
      <4>2. A = {}
        BY <1>0, <4>1, ChainOfNull DEF Listed
      <4> QED BY <2>2, <4>2
    <3> QED BY <1>0, <1>1, <2>3, <2>8, <3>1 DEF Inserted
  <2>10. Sorted'
    <3>1. SUFFICES ASSUME NEW n \in A \cup {x}, next'[n] # Null
                   PROVE  data[n].when <= data[next'[n]].when
      BY <1>0, <2>8 DEF Sorted
    <3>2. CASE n = x
      <4>1. next'[n] = next[p] /\ next[p] \in A
        BY <1>2, <2>2, <2>4, <3>1, <3>2
      <4>2. ~(data[next[p]].when <= data[x].when) /\ data[next[p]].when \in Int
        BY <1>2, <2>1, <4>1
      <4>3. data[x].when <= data[next[p]].when
        BY <1>3, <4>2
      <4> QED BY <3>2, <4>1, <4>3
    <3>3. CASE n = p
      BY <2>2, <2>4, <3>3
    <3>4. CASE n # x /\ n # p
      <4>1. n \in A /\ next'[n] = next[n]
        BY <1>2, <2>4, <3>1, <3>4
      <4> QED BY <1>s, <3>1, <4>1
    <3> QED BY <3>2, <3>3, <3>4
  <2> QED BY <2>9, <2>10
<1> QED
  BY <1>5, <1>6

\* The list without the node that is unlinked
LEMMA UnlinkIs ==
  ASSUME IInv, Sorted, NEW p \in Chain(next, active) \cup {Null}, LinkOf(p) # Null,
         Link(p, next[LinkOf(p)]), data' = data
  PROVE  Unlinked(LinkOf(p)) /\ Sorted'
<1> DEFINE n == LinkOf(p)
           A == Listed
<1>0. TypeOK /\ Acyclic(next) /\ next \in Pointers /\ active \in Ref
  BY DEF IInv, TypeOK
<1>1. /\ n \in A /\ n \in Nodes /\ next' \in Pointers /\ Acyclic(next')
      /\ Chain(next', active') \subseteq A \ {n}
  BY UnlinkChains DEF Listed
<1>2. /\ A \in SUBSET Nodes /\ Null \notin Nodes /\ active \in A \cup {Null}
      /\ \A m \in A : next[m] \in A \cup {Null} /\ data[m].when \in Int
      /\ active # Null => Chain(next, next[active]) = A \ {active}
  BY ListIs
<1>3. n = IF p = Null THEN active ELSE next[p]
  BY DEF LinkOf
<1>s. ASSUME NEW m \in A, next[m] # Null PROVE data[m].when <= data[next[m]].when
  BY <1>s DEF Sorted
<1>4. CASE p = Null
  <2>1. n = active /\ active # Null /\ active' = next[active] /\ next' = next
    BY <1>3, <1>4 DEF Link
  <2>2. Listed' = A \ {n}
    BY <1>2, <2>1 DEF Listed
  <2>3. Unlinked(n)
    BY <1>1, <2>1, <2>2 DEF Unlinked
  <2>4. Sorted'
    BY <1>s, <2>1, <2>2 DEF Sorted
  <2> QED BY <2>3, <2>4
<1>5. CASE p # Null
  <2>1. n = next[p] /\ next' = [next EXCEPT ![p] = next[n]] /\ active' = active
    BY <1>3, <1>5 DEF Link
  <2>2. p \in A /\ p \in Nodes
    BY <1>2, <1>5 DEF Listed
  <2> HIDE DEF n
  <2>3. next'[p] = next[n] /\ \A m \in Nodes : m # p => next'[m] = next[m]
    BY <1>0, <2>1, <2>2 DEF Pointers
  <2>4. p \notin Chain(next, n)
    BY <1>0, <2>1, <2>2, ChainUnfolds
  <2> DEFINE B == Chain(next, n)
             C == Chain(next', active')
  <2>5. B \in SUBSET Nodes /\ Closed(next, B) /\ n \in B
    <3>1. n \in Ref
      BY <1>1 DEF Ref
    <3> QED BY <1>0, <1>1, <3>1, ChainFacts
  <2>6. C \in SUBSET Nodes /\ Closed(next', C) /\ active \in C \cup {Null}
    <3>1. active' \in Ref /\ (active' \in Nodes => active' \in C) /\ C \in SUBSET Nodes /\ Closed(next', C)
      BY <1>0, <1>1, <2>1, ChainFacts
    <3> QED BY <2>1, <3>1 DEF Ref
  <2> HIDE DEF B, C
  <2>7. p \in C
    <3> DEFINE D == {m \in A : m \in C \/ m \in B}
    <3>1. D \in SUBSET Nodes /\ active \in D \cup {Null}
      BY <1>2, <2>6
    <3>2. ASSUME NEW m \in D, next[m] # Null PROVE next[m] \in D
      <4>1. m \in A /\ m \in Nodes /\ next[m] \in A /\ (m \in C \/ m \in B)
        BY <1>2, <3>2
      <4>2. CASE m \in B
        BY <2>5, <3>2, <4>1, <4>2 DEF Closed
      <4>3. CASE m = p
        BY <1>1, <2>1, <2>5, <4>3
      <4>4. CASE m \in C /\ m # p
        <5>1. next'[m] = next[m]
          BY <2>3, <4>1, <4>4
        <5>2. next[m] \in C
          BY <2>6, <3>2, <4>4, <5>1 DEF Closed
        <5> QED BY <4>1, <5>2
      <4> QED BY <4>1, <4>2, <4>3, <4>4
    <3>3. Closed(next, D)
      BY <3>2 DEF Closed
    <3>4. Chain(next, active) \subseteq D
      <4> HIDE DEF D
      <4> QED BY <1>0, <3>1, <3>3, ChainLeast
    <3> QED BY <2>2, <2>4, <3>4 DEF Listed, B
  <2>8. A \subseteq C \cup {n}
    <3> DEFINE D == {m \in A : m \in C \/ m = n}
    <3>1. D \in SUBSET Nodes /\ active \in D \cup {Null}
      BY <1>2, <2>6
    <3>2. ASSUME NEW m \in D, next[m] # Null PROVE next[m] \in D
      <4>1. m \in A /\ m \in Nodes /\ next[m] \in A /\ (m \in C \/ m = n)
        BY <1>2, <3>2
      <4>2. CASE m = n
        <5>1. next[n] \in C
          BY <2>3, <2>6, <2>7, <3>2, <4>2 DEF Closed
        <5> QED BY <4>1, <4>2, <5>1
      <4>3. CASE m = p
        BY <1>1, <2>1, <4>3
      <4>4. CASE m \in C /\ m # p
        <5>1. next'[m] = next[m]
          BY <2>3, <4>1, <4>4
        <5>2. next[m] \in C
          BY <2>6, <3>2, <4>4, <5>1 DEF Closed
        <5> QED BY <4>1, <5>2
      <4> QED BY <4>1, <4>2, <4>3, <4>4
    <3>3. Closed(next, D)
      BY <3>2 DEF Closed
    <3>4. Chain(next, active) \subseteq D
      <4> HIDE DEF D
      <4> QED BY <1>0, <3>1, <3>3, ChainLeast
    <3> QED BY <3>4 DEF Listed
  <2>9. Listed' = A \ {n}
    BY <1>1, <2>8 DEF Listed, C
  <2>10. n # active
    <3>1. SUFFICES ASSUME n = active PROVE FALSE
      OBVIOUS
    <3> QED BY <2>2, <2>4, <3>1 DEF Listed
  <2>11. Unlinked(n)
    BY <1>1, <2>1, <2>9, <2>10 DEF Unlinked
  <2>12. Sorted'
    <3>1. SUFFICES ASSUME NEW m \in A \ {n}, next'[m] # Null
                   PROVE  data[m].when <= data[next'[m]].when
      BY <2>9 DEF Sorted
    <3>2. CASE m = p
      <4>1. next'[m] = next[n] /\ next[n] # Null /\ n # Null
        BY <1>1, <1>2, <2>3, <3>1, <3>2
      <4>2. data[p].when <= data[n].when /\ data[n].when <= data[next[n]].when
        BY <1>1, <1>s, <2>1, <2>2, <4>1
      <4>3. next[n] \in A
        BY <1>1, <1>2, <4>1
      <4>4. data[p].when \in Int /\ data[n].when \in Int /\ data[next[n]].when \in Int
        BY <1>1, <1>2, <2>2, <4>3
      <4>5. data[p].when <= data[next[n]].when
        BY <4>2, <4>4
      <4> QED BY <3>2, <4>1, <4>5
    <3>3. CASE m # p
      <4>1. m \in A /\ next'[m] = next[m]
        BY <1>2, <2>3, <3>1, <3>3
      <4> QED BY <1>s, <3>1, <4>1
    <3> QED BY <3>2, <3>3
  <2> QED BY <2>11, <2>12 DEF n
<1> QED
  BY <1>4, <1>5

-----------------------------------------------------------------------------
(* Where the handlers are. *)

\* The one handler of a signal is where its frame says.
LEMMA AtIs ==
  ASSUME FramesOK
  PROVE  /\ \A sig : \A i \in DOMAIN frames : frames[i].sig = sig => At(sig) = frames[i].pc
         /\ \A sig : (\A i \in DOMAIN frames : frames[i].sig # sig) => At(sig) = "none"
BY Zenon DEF At, FramesOK

\* The innermost handler moves, the other stays where it is.
LEMMA AtGoes ==
  ASSUME TypeOK, FramesOK, FramesOK', frames # <<>>, NEW pc,
         DOMAIN frames' = DOMAIN frames,
         \A i \in DOMAIN frames : i # Len(frames) => frames'[i] = frames[i],
         frames'[Len(frames)].sig = Top.sig, frames'[Len(frames)].pc = pc
  PROVE  /\ At(Top.sig) = Top.pc
         /\ \A sig : At(sig)' = IF sig = Top.sig THEN pc ELSE At(sig)
<1>1. PICK k \in DOMAIN frames : k = Len(frames) /\ Top = frames[k]
  BY TopIs
<1>2. At(Top.sig) = Top.pc
  BY <1>1, AtIs
<1>3. /\ \A sig : \A i \in DOMAIN frames' : frames'[i].sig = sig => At(sig)' = frames'[i].pc
      /\ \A sig : (\A i \in DOMAIN frames' : frames'[i].sig # sig) => At(sig)' = "none"
  BY Zenon DEF At, FramesOK
<1>4. ASSUME NEW sig, sig = Top.sig PROVE At(sig)' = pc
  BY <1>1, <1>3, <1>4
<1>5. ASSUME NEW sig, sig # Top.sig PROVE At(sig)' = At(sig)
  <2>1. CASE \E i \in DOMAIN frames : frames[i].sig = sig
    <3>1. PICK i \in DOMAIN frames : frames[i].sig = sig
      BY <2>1
    <3>2. i # k /\ frames'[i] = frames[i] /\ i \in DOMAIN frames'
      BY <1>1, <1>5, <3>1
    <3>3. At(sig)' = frames'[i].pc
      BY <1>3, <3>1, <3>2
    <3>4. At(sig) = frames[i].pc
      BY <3>1, AtIs
    <3> QED BY <3>2, <3>3, <3>4
  <2>2. CASE \A i \in DOMAIN frames : frames[i].sig # sig
    <3>1. \A i \in DOMAIN frames' : frames'[i].sig # sig
      BY <1>1, <1>5, <2>2
    <3> QED BY <1>3, <2>2, <3>1, AtIs
  <2> QED BY <2>1, <2>2
<1> QED
  BY <1>2, <1>4, <1>5

\* A statement of a handler, and the one with which a handler takes a timer
LEMMA AtGoto ==
  ASSUME IInv, IInv', frames # <<>>, NEW pc, TopGoto(pc)
  PROVE  /\ At(Top.sig) = Top.pc
         /\ \A sig : At(sig)' = IF sig = Top.sig THEN pc ELSE At(sig)
<1>1. TypeOK /\ FramesOK /\ FramesOK'
  BY DEF IInv
<1> QED
  BY <1>1, TopGoes, AtGoes

\* wakeup_call() has taken its timer.
LEMMA AtTakes ==
  ASSUME IInv, IInv', frames # <<>>, NEW n \in Nodes, TopHolds("link", n)
  PROVE  /\ At(Top.sig) = Top.pc
         /\ \A sig : At(sig)' = IF sig = Top.sig THEN "link" ELSE At(sig)
<1>1. TypeOK /\ FramesOK /\ FramesOK'
  BY DEF IInv
<1>2. /\ DOMAIN frames' = DOMAIN frames
      /\ \A i \in DOMAIN frames : i # Len(frames) => frames'[i] = frames[i]
      /\ frames'[Len(frames)].sig = Top.sig
      /\ frames'[Len(frames)].pc = "link"
  BY <1>1, TopTakes
<1> QED
  BY <1>1, <1>2, AtGoes

\* A signal that comes finds no handler of its own.
LEMMA AtStarts ==
  ASSUME IInv, IInv', NEW s \in {"alrm", "vtalrm"}, s \notin mask, frames' = Append(frames, Frame(s))
  PROVE  /\ At(s) = "none"
         /\ \A sig : At(sig)' = IF sig = s THEN "pop" ELSE At(sig)
<1>1. TypeOK /\ FramesOK /\ FramesOK'
  BY DEF IInv
<1>2. PICK k : k = Len(frames) + 1
  OBVIOUS
<1>3. /\ DOMAIN frames' = DOMAIN frames \cup {k} /\ k \notin DOMAIN frames
      /\ \A i \in DOMAIN frames : frames'[i] = frames[i]
      /\ frames'[k].sig = s /\ frames'[k].pc = "pop"
  BY <1>1, <1>2, TopStarts
<1>4. At(s) = "none"
  <2>1. \A i \in DOMAIN frames : frames[i].sig # s
    BY <1>1 DEF FramesOK
  <2> QED BY <1>1, <2>1, AtIs
<1>5. /\ \A sig : \A i \in DOMAIN frames' : frames'[i].sig = sig => At(sig)' = frames'[i].pc
      /\ \A sig : (\A i \in DOMAIN frames' : frames'[i].sig # sig) => At(sig)' = "none"
  BY <1>1, Zenon DEF At, FramesOK
<1>6. At(s)' = "pop"
  BY <1>3, <1>5
<1>7. ASSUME NEW sig, sig # s PROVE At(sig)' = At(sig)
  <2>1. CASE \E i \in DOMAIN frames : frames[i].sig = sig
    <3>1. PICK i \in DOMAIN frames : frames[i].sig = sig
      BY <2>1
    <3>2. i \in DOMAIN frames' /\ frames'[i] = frames[i]
      BY <1>3, <3>1
    <3>3. At(sig)' = frames'[i].pc
      BY <1>5, <3>1, <3>2
    <3>4. At(sig) = frames[i].pc
      BY <1>1, <3>1, AtIs
    <3> QED BY <3>2, <3>3, <3>4
  <2>2. CASE \A i \in DOMAIN frames : frames[i].sig # sig
    <3>1. \A i \in DOMAIN frames' : frames'[i].sig # sig
      BY <1>3, <1>7, <2>2
    <3> QED BY <1>1, <1>5, <2>2, <3>1, AtIs
  <2> QED BY <2>1, <2>2
<1> QED
  BY <1>4, <1>6, <1>7

\* The innermost handler returns, the other stays where it is.
LEMMA AtEnds ==
  ASSUME IInv, IInv', frames # <<>>, frames' = Front(frames)
  PROVE  /\ At(Top.sig) = Top.pc
         /\ \A sig : At(sig)' = IF sig = Top.sig THEN "none" ELSE At(sig)
<1>1. TypeOK /\ FramesOK /\ FramesOK'
  BY DEF IInv
<1>2. PICK k \in DOMAIN frames : k = Len(frames) /\ Top = frames[k]
  BY <1>1, TopIs
<1>3. /\ DOMAIN frames' = DOMAIN frames \ {k}
      /\ \A i \in DOMAIN frames' : frames'[i] = frames[i]
  <2>1. frames \in Seq(Frames)
    BY <1>1 DEF TypeOK
  <2>2. Front(frames) = [i \in 1..(Len(frames) - 1) |-> frames[i]]
    BY DEF Front
  <2>3. DOMAIN frames = 1..Len(frames) /\ Len(frames) \in Nat
    BY <2>1
  <2>4. DOMAIN frames' = 1..(Len(frames) - 1)
    BY <2>2, <2>3
  <2>5. 1..(Len(frames) - 1) = 1..Len(frames) \ {Len(frames)}
    BY <2>3
  <2>6. \A i \in DOMAIN frames' : frames'[i] = frames[i]
    BY <2>2, <2>4
  <2> QED BY <1>2, <2>3, <2>4, <2>5, <2>6
<1>4. /\ \A sig : \A i \in DOMAIN frames' : frames'[i].sig = sig => At(sig)' = frames'[i].pc
      /\ \A sig : (\A i \in DOMAIN frames' : frames'[i].sig # sig) => At(sig)' = "none"
  BY <1>1, Zenon DEF At, FramesOK
<1>5. ASSUME NEW sig, sig = Top.sig PROVE At(sig)' = "none"
  <2>1. \A i \in DOMAIN frames' : frames'[i].sig # sig
    BY <1>1, <1>2, <1>3, <1>5 DEF FramesOK
  <2> QED BY <1>4, <2>1
<1>6. ASSUME NEW sig, sig # Top.sig PROVE At(sig)' = At(sig)
  <2>1. CASE \E i \in DOMAIN frames : frames[i].sig = sig
    <3>1. PICK i \in DOMAIN frames : frames[i].sig = sig
      BY <2>1
    <3>2. i \in DOMAIN frames' /\ frames'[i] = frames[i]
      BY <1>2, <1>3, <1>6, <3>1
    <3>3. At(sig)' = frames'[i].pc
      BY <1>4, <3>1, <3>2
    <3>4. At(sig) = frames[i].pc
      BY <1>1, <3>1, AtIs
    <3> QED BY <3>2, <3>3, <3>4
  <2>2. CASE \A i \in DOMAIN frames : frames[i].sig # sig
    <3>1. \A i \in DOMAIN frames' : frames'[i].sig # sig
      BY <1>3, <2>2
    <3> QED BY <1>1, <1>4, <2>2, <3>1, AtIs
  <2> QED BY <2>1, <2>2
<1>7. At(Top.sig) = Top.pc
  BY <1>1, <1>2, AtIs
<1> QED
  BY <1>5, <1>6, <1>7

\* No handler runs.
LEMMA AtNone ==
  /\ frames = <<>> => \A sig : At(sig) = "none"
  /\ frames' = <<>> => \A sig : At(sig)' = "none"
BY DEF At

\* Where the handlers stay
HandlersStay == \A sig : At(sig)' = At(sig)

\* Where no handler is entered, goes on or returns
LEMMA SameFrames ==
  ASSUME frames' = frames PROVE HandlersStay
BY DEF HandlersStay, At

-----------------------------------------------------------------------------
(* The list, after any step. *)

\* A list that stays what it was is in order.
LEMMA SortedStays ==
  ASSUME IInv, Sorted, ListStays
  PROVE  Sorted'
<1>1. ASSUME NEW n \in Listed, next'[n] # Null PROVE data'[n].when <= data'[next'[n]].when
  <2>1. next'[n] = next[n] /\ next[n] \in Listed /\ data[n].when <= data[next[n]].when
    BY <1>1, ListIs DEF ListStays, Sorted
  <2> QED BY <2>1 DEF ListStays
<1> QED
  BY <1>1 DEF Sorted, ListStays

\* cancel_timer() takes off the list the timer of that id, if it is there.
LEMMA RemoveIs ==
  ASSUME IInv, Sorted, remove_timer
  PROVE  /\ Sorted'
         /\ \/ \E n \in Listed : Unlinked(n) /\ data[n].id = Call.id
            \/ ListStays /\ (IsVirtual(Call.id) \/ \A n \in Listed : data[n].id # Call.id)
<1>1. CASE IsVirtual(Call.id) /\ UNCHANGED <<next, active>>
  <2>1. ListStays
    BY <1>1 DEF remove_timer, ListStays, Listed
  <2> QED BY <1>1, <2>1, SortedStays
<1>2. CASE (\A n \in Reach(active) : data[n].id # Call.id) /\ UNCHANGED <<next, active>>
  <2>1. ListStays
    BY <1>2 DEF remove_timer, ListStays, Listed
  <2> QED BY <1>2, <2>1, SortedStays DEF Reach, Listed
<1>3. CASE \E p \in Reach(active) \cup {Null} :
             /\ LinkOf(p) # Null /\ data[LinkOf(p)].id = Call.id
             /\ Link(p, next[LinkOf(p)]) /\ heap' = heap \cup {LinkOf(p)}
  <2>1. PICK p \in Chain(next, active) \cup {Null} :
          /\ LinkOf(p) # Null /\ data[LinkOf(p)].id = Call.id /\ Link(p, next[LinkOf(p)])
    BY <1>3 DEF Reach
  <2>2. data' = data
    BY DEF remove_timer
  <2>3. Unlinked(LinkOf(p)) /\ Sorted'
    BY <2>1, <2>2, UnlinkIs
  <2>4. LinkOf(p) \in Listed
    BY <2>3 DEF Unlinked
  <2> QED BY <2>1, <2>3, <2>4
<1> QED
  BY <1>1, <1>2, <1>3 DEF remove_timer

\* wakeup_call() takes the first.
Wakes ==
  /\ InHandler("alrm", "pop") /\ active # Null /\ TopHolds("link", active)
  /\ next' = next /\ Unlinked(active)
  /\ UNCHANGED <<now, signals, main, up>>

\* It finds one, or the program crashes.
LEMMA WakeupIs ==
  ASSUME IInv, Sorted, wakeup_call
  PROVE  Sorted' /\ (Wakes \/ Crash)
<1>1. CASE Crash
  <2>1. ListStays
    BY <1>1 DEF ListStays, Crash, lists, Listed
  <2> QED BY <1>1, <2>1, SortedStays
<1>2. CASE /\ active # Null
           /\ TopHolds("link", active) /\ active' = next[active]
           /\ UNCHANGED <<next, data, free, virt, heap, next_id, now, signals, main, up>>
  <2>1. LinkOf(Null) = active /\ Link(Null, next[LinkOf(Null)]) /\ data' = data
    BY <1>2 DEF LinkOf, Link
  <2>2. Unlinked(active) /\ Sorted'
    <3>1. Null \in Chain(next, active) \cup {Null}
      OBVIOUS
    <3> QED BY <1>2, <2>1, <3>1, UnlinkIs
  <2> QED BY <1>2, <2>2 DEF Wakes, wakeup_call
<1> QED
  BY <1>1, <1>2 DEF wakeup_call

\* What a step does to the list
ListMoves ==
  \/ Untouched /\ ListStays
  \/ Crash /\ ListStays
  \/ insert_timer /\ Inserted(main.this)
  \/ remove_timer /\ ListStays
  \/ remove_timer /\ \E n \in Listed : Unlinked(n)
  \/ Wakes

\* Every step leaves the list in order, whatever it interrupts.
LEMMA ListStep ==
  ASSUME IInv, IInv', Sorted, Next
  PROVE  Sorted' /\ ListMoves
<1>1. CASE Untouched
  BY <1>1, UntouchedStays, SortedStays DEF ListMoves
<1>2. CASE insert_timer
  BY <1>2, InsertIs DEF ListMoves
<1>3. CASE remove_timer
  BY <1>3, RemoveIs DEF ListMoves
<1>4. CASE wakeup_call
  <2>1. CASE Crash
    <3>1. ListStays
      BY <2>1 DEF ListStays, Crash, lists, Listed
    <3> QED BY <2>1, <3>1, SortedStays DEF ListMoves
  <2> QED BY <1>4, <2>1, WakeupIs DEF ListMoves
<1> QED
  BY <1>1, <1>2, <1>3, <1>4 DEF Next, Statements, Untouched

\* Every timer is one that was on the list, with what it had there, or is the new one.
LEMMA ListedBefore ==
  ASSUME IInv, ListMoves
  PROVE  /\ \A n \in Listed' : \/ n \in Listed /\ data'[n] = data[n]
                               \/ insert_timer /\ n = main.this /\ data' = data
         /\ insert_timer \/ Listed' \subseteq Listed
BY DEF ListMoves, ListStays, Inserted, Unlinked, Wakes

-----------------------------------------------------------------------------
(* Where main and the handlers go in a step. *)

\* From a place in a call to another
Along(p, q) ==
  /\ main.pc = p /\ main'.pc = q /\ main'.in = main.in /\ main'.todo = main.todo
  /\ main'.ids = main.ids /\ main.todo # <<>> /\ Call' = Call /\ frames = <<>> /\ frames' = <<>>
Further(p, q) == Along(p, q) /\ main'.this = main.this

MainMoves ==
  \/ main' = main /\ data' = data
  \/ CallersBegin
  \/ allocate_timer /\ (Along("test", "take") \/ Along("test", "fill") \/ Along("take", "fill"))
  \/ fill_timer /\ Call.op = "set" /\ Further("fill", "stop")
  \/ fill_timer /\ Call.op = "setv" /\ Further("fill", "alarm")
  \/ virtual_timer_is_set /\ Call.op = "setv" /\ Along("check", "stop")
  \/ stop_timers /\ Further("stop", "ignore")
  \/ stop_timers /\ Further("ignore", IF Call.op = "setv" THEN "test" ELSE "edit")
  \/ (insert_timer \/ remove_timer) /\ data' = data /\ Further("edit", "alarm")
  \/ /\ restart_timers /\ data' = data
     /\ \/ Further("alarm", "vtest") \/ Further("vtest", "varm") \/ Further("vtest", "done")
        \/ Further("varm", "done")
  \/ Return
  \/ /\ pause /\ main.in = "sleep" /\ main.pc = "idle" /\ main'.in = "pause"
     /\ main'.pc = "idle" /\ main.todo = <<>> /\ main'.todo = <<>> /\ main'.ids = main.ids
  \/ /\ reenable_timers /\ main.pc = "except" /\ main'.pc = "idle" /\ main'.in = main.in
     /\ main'.todo = main.todo /\ main'.ids = main.ids
  \/ /\ timeout_proc /\ main.in \in {"connect", "connected"}
     /\ main'.in = "task" /\ main'.pc = "except" /\ main'.todo = <<>> /\ main'.ids = main.ids
  \/ /\ handler_returns /\ main.in = "pause" /\ main.pc = "idle" /\ main'.in = "down"
     /\ main'.pc = "idle" /\ main'.todo = main.todo /\ main'.ids = main.ids

\* main goes from one statement of a call to the next, from its caller to a call and
\* back, or to where an exception is caught.
LEMMA MainStep ==
  ASSUME IInv, Next
  PROVE  MainMoves
<1>0. TypeOK /\ Flow /\ VirtualOK /\ ConnectOK
  BY DEF IInv
<1>c. main.todo # <<>> => Call \in Requests /\ main.pc \in Steps(Call.op) /\ Call.op \in Ops
  BY <1>0, CallIs DEF Flow, Requests
<1>g. ASSUME NEW p, NEW q, InMain(p), Goto(q), main.todo # <<>>, frames' = frames
      PROVE  Further(p, q)
  <2>1. main'.pc = q /\ main'.in = main.in /\ main'.todo = main.todo
        /\ main'.this = main.this /\ main'.ids = main.ids
    BY <1>0, <1>g, MainGoes
  <2> QED BY <1>g, <2>1 DEF Further, Along, InMain, Call
<1>t. main.pc \notin {"idle", "except"} => main.todo # <<>>
  BY <1>0 DEF Flow
<1>1. CASE Callers
  BY <1>0, <1>1, CallersDo DEF MainMoves
<1>2. CASE allocate_timer
  <2>1. CASE InMain("test") /\ frames' = frames /\ main' = [main EXCEPT !.pc = "take", !.this = free]
    <3>1. "take" \in Places /\ free \in Ref
      BY <1>0 DEF Places, Steps, TypeOK
    <3>2. main'.pc = "take" /\ main'.in = main.in /\ main'.todo = main.todo /\ main'.ids = main.ids
      BY <1>0, <2>1, <3>1, MainTakes
    <3>3. Along("test", "take")
      BY <1>t, <2>1, <3>2 DEF Along, InMain, Call
    <3> QED BY <1>2, <3>3 DEF MainMoves
  <2>2. CASE InMain("test") /\ frames' = frames /\ heap # {} /\ main' = [main EXCEPT !.pc = "fill", !.this = malloc]
    <3>1. "fill" \in Places /\ malloc \in Ref
      BY <1>0, <2>2 DEF Places, Steps, TypeOK, malloc, Ref
    <3>2. main'.pc = "fill" /\ main'.in = main.in /\ main'.todo = main.todo /\ main'.ids = main.ids
      BY <1>0, <2>2, <3>1, MainTakes
    <3>3. Along("test", "fill")
      BY <1>t, <2>2, <3>2 DEF Along, InMain, Call
    <3> QED BY <1>2, <3>3 DEF MainMoves
  <2>3. CASE InMain("take") /\ Then("fill")
    <3>1. Further("take", "fill")
      BY <1>g, <1>t, <2>3 DEF Then, InMain
    <3> QED BY <1>2, <3>1 DEF MainMoves, Further
  <2> QED BY <1>2, <2>1, <2>2, <2>3 DEF allocate_timer
<1>3. CASE fill_timer
  <2>1. main.todo # <<>> /\ Call.op \in {"set", "setv"} /\ InMain("fill")
    BY <1>c, <1>t, <1>3, StepsAre DEF fill_timer, InMain, Ops
  <2>2. CASE Call.op = "set"
    <3>1. Further("fill", "stop")
      BY <1>g, <1>3, <2>1, <2>2 DEF fill_timer, Then
    <3> QED BY <1>3, <2>2, <3>1 DEF MainMoves
  <2>3. CASE Call.op = "setv"
    <3>1. Further("fill", "alarm")
      BY <1>g, <1>3, <2>1, <2>3 DEF fill_timer, Then
    <3> QED BY <1>3, <2>3, <3>1 DEF MainMoves
  <2> QED BY <2>1, <2>2, <2>3
<1>4. CASE virtual_timer_is_set
  <2>1. InMain("check") /\ main.pc = "check" /\ main.todo # <<>> /\ Call.op = "setv"
    BY <1>c, <1>t, <1>4, StepsAre DEF virtual_timer_is_set, InMain, Ops
  <2>2. virt = Null
    BY <1>0, <2>1, CheckIsFirst
  <2>3. Further("check", "stop")
    BY <1>g, <1>4, <2>1, <2>2 DEF virtual_timer_is_set, Then
  <2> QED BY <1>4, <2>1, <2>3 DEF MainMoves, Further
<1>5. CASE stop_timers
  <2>1. CASE InMain("stop") /\ Goto("ignore") /\ frames' = frames
    <3>1. Further("stop", "ignore")
      BY <1>g, <1>t, <2>1 DEF InMain
    <3> QED BY <1>5, <3>1 DEF MainMoves
  <2>2. CASE InMain("ignore") /\ Goto(IF Call.op = "setv" THEN "test" ELSE "edit") /\ frames' = frames
    <3>1. Further("ignore", IF Call.op = "setv" THEN "test" ELSE "edit")
      BY <1>g, <1>t, <2>2 DEF InMain
    <3> QED BY <1>5, <3>1 DEF MainMoves
  <2> QED BY <1>5, <2>1, <2>2 DEF stop_timers
<1>6. CASE insert_timer \/ remove_timer
  <2>1. InMain("edit") /\ Then("alarm") /\ data' = data
    BY <1>6 DEF insert_timer, remove_timer
  <2>2. Further("edit", "alarm")
    BY <1>g, <1>t, <2>1 DEF InMain, Then
  <2> QED BY <1>6, <2>1, <2>2 DEF MainMoves
<1>7. CASE restart_timers
  <2>1. CASE frames # <<>> \/ Crash
    BY <1>7, <2>1 DEF restart_timers, MoveTo, Crash, In, InMain, lists, MainMoves
  <2>2. CASE frames = <<>> /\ ~Crash
    <3>1. data' = data /\ frames' = frames
      BY <1>7, <2>2 DEF restart_timers, MoveTo, In, InMain, InHandler, lists
    <3>2. \/ InMain("alarm") /\ Goto("vtest")
          \/ InMain("vtest") /\ (Goto("done") \/ Goto("varm"))
          \/ InMain("varm") /\ Goto("done")
      BY <1>7, <2>2 DEF restart_timers, MoveTo, In, InHandler
    <3>3. main.todo # <<>>
      BY <1>t, <3>2 DEF InMain
    <3>4. \/ Further("alarm", "vtest") \/ Further("vtest", "varm") \/ Further("vtest", "done")
          \/ Further("varm", "done")
      BY <1>g, <3>1, <3>2, <3>3
    <3> QED BY <1>7, <3>1, <3>4 DEF MainMoves
  <2> QED BY <2>1, <2>2
<1>8. CASE Return
  BY <1>8 DEF MainMoves
<1>13. CASE pause
  <2>1. /\ main.in = "sleep" /\ main.pc = "idle" /\ main'.in = "pause" /\ main'.pc = "idle"
        /\ main'.todo = main.todo /\ main'.ids = main.ids
    BY <1>0, <1>13 DEF pause, InCaller, InMain, TypeOK, Programs
  <2>2. main.todo = <<>>
    BY <1>0, <2>1 DEF Flow
  <2> QED BY <1>13, <2>1, <2>2 DEF MainMoves
<1>9. CASE reenable_timers
  <2>1. main.pc = "except" /\ main'.pc = "idle" /\ main'.in = main.in
        /\ main'.todo = main.todo /\ main'.ids = main.ids
    BY <1>0, <1>9, MainGoes DEF reenable_timers, InMain
  <2> QED BY <1>9, <2>1 DEF MainMoves
<1>10. CASE timeout_proc
  <2>1. main'.in = "task" /\ main'.pc = "except" /\ main'.todo = <<>> /\ main'.ids = main.ids
    BY <1>0, <1>10 DEF timeout_proc, TypeOK, Programs
  <2>2. Len(frames) \in DOMAIN frames /\ ConnectFrame(Len(frames))
    BY <1>0, <1>10, TopIs DEF timeout_proc, InHandler, ConnectFrame
  <2>3. main.in \in {"connect", "connected"}
    BY <1>0, <2>2 DEF ConnectOK, MayTimeOut
  <2> QED BY <1>10, <2>1, <2>3 DEF MainMoves
<1>11. CASE handler_returns
  <2>1. CASE main.in = "pause" /\ main.pc = "idle"
    <3>1. main'.in = "down" /\ main'.pc = "idle" /\ main'.todo = main.todo /\ main'.ids = main.ids
      BY <1>0, <1>11, <2>1 DEF handler_returns, TypeOK, Programs
    <3> QED BY <1>11, <2>1, <3>1 DEF MainMoves
  <2>2. CASE ~(main.in = "pause" /\ main.pc = "idle")
    <3>1. main' = main /\ data' = data
      BY <1>11, <2>2 DEF handler_returns, lists
    <3> QED BY <3>1 DEF MainMoves
  <2> QED BY <2>1, <2>2
<1>12. CASE \/ wakeup_call \/ virtual_wakeup_call \/ free_timer \/ virtual_timer_is_null
            \/ DeliverAlarm \/ DeliverVirtual \/ Tick \/ AlarmExpires \/ VirtualRuns
  <2>1. main' = main /\ data' = data
    BY <1>12 DEF wakeup_call, virtual_wakeup_call, free_timer, virtual_timer_is_null, DeliverAlarm,
       DeliverVirtual, Tick, AlarmExpires, VirtualRuns, Crash, lists
  <2> QED BY <2>1 DEF MainMoves
<1> QED
  BY <1>1, <1>2, <1>3, <1>4, <1>5, <1>6, <1>7, <1>8, <1>9, <1>10, <1>11, <1>12, <1>13
  DEF Next, Statements

\* What a timer is for and its id are given to it once.
LEMMA DataStep ==
  ASSUME IInv, Next, NEW n \in Nodes
  PROVE  \/ data'[n].id = data[n].id /\ data'[n].proc = data[n].proc
         \/ fill_timer /\ n = main.this
<1>0. TypeOK /\ Flow
  BY DEF IInv
<1>1. CASE data' = data
  BY <1>1
<1>2. CASE fill_timer
  <2>1. \A m \in Nodes : m # main.this => data'[m] = data[m]
    BY <1>0, <1>2 DEF fill_timer, TypeOK
  <2> QED BY <1>2, <2>1
<1>3. CASE stop_timers /\ data' # data
  <2>1. virt # Null /\ \E s : data' = [data EXCEPT ![virt].when = s]
    BY <1>3 DEF stop_timers, lists
  <2>2. PICK s : data' = [data EXCEPT ![virt].when = s]
    BY <2>1
  <2>3. CASE n = virt
    <3>1. data'[n] = [data[n] EXCEPT !.when = s]
      BY <1>0, <2>2, <2>3 DEF TypeOK
    <3>2. data[n] \in [id : Int, when : Int, proc : Procs]
      BY <1>0 DEF TypeOK
    <3> QED BY <3>1, <3>2
  <2>4. CASE n # virt
    BY <1>0, <2>2, <2>4 DEF TypeOK
  <2> QED BY <2>3, <2>4
<1>4. fill_timer \/ stop_timers \/ data' = data
  <2>1. Callers => data' = data
    BY <1>0, CallersDo DEF CallersBegin, lists
  <2> QED BY <2>1
    DEF Next, Statements, allocate_timer, virtual_timer_is_set, insert_timer, remove_timer,
        restart_timers, Return, pause, reenable_timers, virtual_timer_is_null, wakeup_call, virtual_wakeup_call, free_timer,
        timeout_proc, handler_returns, DeliverAlarm, DeliverVirtual, Tick, AlarmExpires, VirtualRuns,
        Crash, lists
<1> QED
  BY <1>1, <1>2, <1>3, <1>4

\* Where the handlers go
HandlersMove ==
  \/ HandlersStay
  \/ DeliverAlarm /\ Handler = "none" /\ Handler' = "pop" /\ At("vtalrm")' = At("vtalrm")
  \/ DeliverVirtual /\ At("vtalrm")' = "pop" /\ Handler' = Handler
  \/ wakeup_call /\ Handler = "pop" /\ Handler' = "link" /\ At("vtalrm")' = At("vtalrm")
  \/ virtual_wakeup_call /\ virt # Null /\ Handler' = Handler
  \/ /\ free_timer /\ At("vtalrm")' = At("vtalrm")
     /\ \/ Handler = "link" /\ Handler' = "push"
        \/ Handler = "push" /\ Handler' = "alarm"
  \/ free_timer /\ At("vtalrm") \in {"link", "push"} /\ Handler' = Handler
  \/ /\ restart_timers /\ frames # <<>> /\ main' = main /\ At("vtalrm")' = At("vtalrm")
     /\ \/ Handler = "alarm" /\ Handler' = "vtest"
        \/ Handler = "vtest" /\ Handler' \in {"varm", "done"}
        \/ Handler = "varm" /\ Handler' = "done"
  \/ timeout_proc /\ Handler = "done" /\ Handler' = "none" /\ At("vtalrm")' = "none"
  \/ /\ handler_returns
     /\ \/ Handler = "done" /\ Handler' = "none" /\ At("vtalrm")' = At("vtalrm")
        \/ At("vtalrm") = "done" /\ At("vtalrm")' = "none" /\ Handler' = Handler

\* A handler goes from one statement to the next; an interrupted one waits.
LEMMA HandlerStep ==
  ASSUME IInv, IInv', Next
  PROVE  HandlersMove
<1>0. TypeOK /\ FramesOK
  BY DEF IInv
<1>t. frames # <<>> => Top.sig \in {"alrm", "vtalrm"}
  BY <1>0, TopIs DEF Frames
<1>s. frames' = frames => HandlersMove
  BY SameFrames DEF HandlersMove
<1>1. CASE Unstacked
  BY <1>0, <1>1, <1>s, UnstackedKeeps
<1>2. CASE Crash
  BY <1>2, <1>s DEF Crash
<1>3. CASE DeliverAlarm
  <2>1. "alrm" \notin mask /\ frames' = Append(frames, Frame("alrm"))
    BY <1>3 DEF DeliverAlarm
  <2>2. At("alrm") = "none" /\ \A sig : At(sig)' = IF sig = "alrm" THEN "pop" ELSE At(sig)
    BY <2>1, AtStarts
  <2>3. Handler = "none" /\ Handler' = "pop" /\ At("vtalrm")' = At("vtalrm")
    BY <2>2 DEF Handler
  <2> QED BY <1>3, <2>3 DEF HandlersMove
<1>4. CASE DeliverVirtual
  <2>1. "vtalrm" \notin mask /\ frames' = Append(frames, Frame("vtalrm"))
    BY <1>4 DEF DeliverVirtual
  <2>2. \A sig : At(sig)' = IF sig = "vtalrm" THEN "pop" ELSE At(sig)
    BY <2>1, AtStarts
  <2>3. At("vtalrm")' = "pop" /\ Handler' = Handler
    BY <2>2 DEF Handler
  <2> QED BY <1>4, <2>3 DEF HandlersMove
<1>5. CASE wakeup_call /\ ~Crash
  <2>1. InHandler("alrm", "pop") /\ active # Null /\ TopHolds("link", active)
    BY <1>5 DEF wakeup_call
  <2>2. frames # <<>> /\ Top.sig = "alrm" /\ Top.pc = "pop" /\ active \in Nodes
    BY <1>0, <2>1 DEF InHandler, TypeOK, Ref
  <2>3. At(Top.sig) = Top.pc /\ \A sig : At(sig)' = IF sig = Top.sig THEN "link" ELSE At(sig)
    BY <2>1, <2>2, AtTakes
  <2>4. Handler = "pop" /\ Handler' = "link" /\ At("vtalrm")' = At("vtalrm")
    BY <2>2, <2>3 DEF Handler
  <2> QED BY <1>5, <2>4 DEF HandlersMove
<1>6. CASE virtual_wakeup_call /\ ~Crash
  <2>1. InHandler("vtalrm", "pop") /\ virt # Null /\ TopHolds("link", virt)
    BY <1>6 DEF virtual_wakeup_call
  <2>2. frames # <<>> /\ Top.sig = "vtalrm" /\ virt \in Nodes
    BY <1>0, <2>1 DEF InHandler, TypeOK, Ref
  <2>3. \A sig : At(sig)' = IF sig = Top.sig THEN "link" ELSE At(sig)
    BY <2>1, <2>2, AtTakes
  <2>4. Handler' = Handler
    BY <2>2, <2>3 DEF Handler
  <2> QED BY <1>6, <2>1, <2>4 DEF HandlersMove
<1>7. CASE free_timer
  <2>1. CASE frames # <<>> /\ Top.pc = "link" /\ TopGoto("push")
    <3>1. At(Top.sig) = Top.pc /\ \A sig : At(sig)' = IF sig = Top.sig THEN "push" ELSE At(sig)
      BY <2>1, AtGoto
    <3>2. \/ At("vtalrm")' = At("vtalrm") /\ Handler = "link" /\ Handler' = "push"
          \/ At("vtalrm") = "link" /\ Handler' = Handler
      BY <1>t, <2>1, <3>1 DEF Handler
    <3> QED BY <1>7, <3>2 DEF HandlersMove
  <2>2. CASE frames # <<>> /\ Top.pc = "push" /\ TopGoto(IF Top.sig = "alrm" THEN "alarm" ELSE "done")
    <3>1. PICK pc : pc = IF Top.sig = "alrm" THEN "alarm" ELSE "done"
      OBVIOUS
    <3>2. At(Top.sig) = Top.pc /\ \A sig : At(sig)' = IF sig = Top.sig THEN pc ELSE At(sig)
      BY <2>2, <3>1, AtGoto
    <3>3. \/ At("vtalrm")' = At("vtalrm") /\ Handler = "push" /\ Handler' = "alarm"
          \/ At("vtalrm") = "push" /\ Handler' = Handler
      BY <1>t, <2>2, <3>1, <3>2 DEF Handler
    <3> QED BY <1>7, <3>3 DEF HandlersMove
  <2> QED BY <1>7, <2>1, <2>2 DEF free_timer
<1>8. CASE restart_timers /\ ~Crash /\ frames # <<>>
  <2>1. PICK p, q :
          /\ InHandler("alrm", p) /\ TopGoto(q) /\ main' = main
          /\ \/ p = "alarm" /\ q = "vtest"
             \/ p = "vtest" /\ q \in {"varm", "done"}
             \/ p = "varm" /\ q = "done"
    <3>1. CASE In("alarm") /\ MoveTo("vtest")
      BY <1>8, <3>1 DEF In, InMain, MoveTo
    <3>2. CASE In("vtest") /\ MoveTo(IF virt = Null THEN "done" ELSE "varm")
      BY <1>8, <3>2 DEF In, InMain, MoveTo
    <3>3. CASE In("varm") /\ MoveTo("done")
      BY <1>8, <3>3 DEF In, InMain, MoveTo
    <3> QED BY <1>8, <3>1, <3>2, <3>3 DEF restart_timers
  <2>2. Top.sig = "alrm" /\ Top.pc = p
    BY <2>1 DEF InHandler
  <2>3. At(Top.sig) = Top.pc /\ \A sig : At(sig)' = IF sig = Top.sig THEN q ELSE At(sig)
    BY <1>8, <2>1, AtGoto
  <2>4. Handler = p /\ Handler' = q /\ At("vtalrm")' = At("vtalrm")
    BY <2>2, <2>3 DEF Handler
  <2> QED BY <1>8, <2>1, <2>4 DEF HandlersMove
<1>9. CASE restart_timers /\ frames = <<>>
  BY <1>9, <1>s DEF restart_timers, MoveTo, In, InMain, InHandler, Crash
<1>10. CASE timeout_proc
  <2>1. frames' = <<>> /\ frames # <<>> /\ Top.sig = "alrm" /\ Top.pc = "done"
    BY <1>10 DEF timeout_proc, InHandler
  <2>2. PICK k \in DOMAIN frames : k = Len(frames) /\ Top = frames[k]
    BY <1>0, <2>1, TopIs
  <2>3. Handler = "done" /\ Handler' = "none" /\ At("vtalrm")' = "none"
    BY <1>0, <2>1, <2>2, AtIs, AtNone DEF Handler
  <2> QED BY <1>10, <2>3 DEF HandlersMove
<1>11. CASE handler_returns
  <2>1. frames # <<>> /\ Top.pc = "done" /\ frames' = Front(frames)
    BY <1>11 DEF handler_returns
  <2>2. At(Top.sig) = Top.pc /\ \A sig : At(sig)' = IF sig = Top.sig THEN "none" ELSE At(sig)
    BY <2>1, AtEnds
  <2>3. \/ Handler = "done" /\ Handler' = "none" /\ At("vtalrm")' = At("vtalrm")
        \/ At("vtalrm") = "done" /\ At("vtalrm")' = "none" /\ Handler' = Handler
    BY <1>t, <2>1, <2>2 DEF Handler
  <2> QED BY <1>11, <2>3 DEF HandlersMove
<1> QED
  BY <1>1, <1>2, <1>3, <1>4, <1>5, <1>6, <1>7, <1>8, <1>9, <1>10, <1>11 DEF Next, Statements, Unstacked

-----------------------------------------------------------------------------
(* How many timers are set. *)

\* Returning from a call leads to the next, or to the caller.
LEMMA Returns ==
  ASSUME IInv, Return
  PROVE  /\ main.todo # <<>> /\ main.pc = "done" /\ frames = <<>> /\ frames' = <<>> /\ data' = data
         /\ main'.in \in {main.in, "task"}
         /\ Len(main.todo) = 1 => main'.todo = <<>> /\ main'.pc = "idle"
         /\ Len(main.todo) = 1 /\ main.in # "connected" => main'.in = main.in
         /\ Len(main.todo) # 1 => /\ main.in = "loop" /\ main'.in = "loop" /\ Call.op = "cancel" /\ Len(main.todo) = 2
                                  /\ Len(main'.todo) = 1 /\ main'.pc = "test" /\ Setting'
         /\ Call.op = "cancel" => main'.ids = main.ids
         /\ Call.op # "cancel" => /\ \A p \in Procs : p # Call.proc => main'.ids[p] = main.ids[p]
                                  /\ main'.ids[Call.proc] = data[main.this].id
<1>0. TypeOK /\ Flow /\ VirtualOK
  BY DEF IInv
<1>1. /\ frames = <<>> /\ main.todo # <<>> /\ main.pc \in {"done", "vfull"}
      /\ main'.todo = Tail(main.todo)
      /\ UNCHANGED <<lists, now, signals, frames, up>>
      /\ Call.op = "cancel" => main'.ids = main.ids
      /\ Call.op # "cancel" =>
           /\ \A p \in Procs : p # Call.proc => main'.ids[p] = main.ids[p]
           /\ main.pc = "done" => main'.ids[Call.proc] = data[main.this].id
      /\ main'.todo = <<>> => main'.pc = "idle"
      /\ main'.todo # <<>> => main'.pc = Begin(Head(main'.todo).op)
      /\ main'.in = IF main'.todo = <<>> /\ main.in = "connected" THEN "task" ELSE main.in
  BY <1>0, ReturnIs
<1>2. main.pc = "done" /\ data' = data
  <2>1. main.pc \in Steps(Call.op) /\ Call.op \in Ops
    BY <1>0, <1>1, CallIs DEF Flow, Requests
  <2> QED BY <1>1, <2>1, StepsAre DEF Ops, lists
<1>3. CASE Len(main.todo) = 1
  BY <1>0, <1>1, <1>2, <1>3, CallIs
<1>4. CASE Len(main.todo) # 1
  <2>1. Len(main.todo) = 2 /\ Call.op = "cancel" /\ main.in = "loop" /\ main.todo[2].op = "set"
    BY <1>0, <1>1, <1>4 DEF Flow
  <2>2. main'.todo # <<>> /\ Head(main'.todo) = main.todo[2] /\ Len(main'.todo) = 1
    BY <1>0, <1>1, <2>1, CallIs
  <2>3. main'.pc = "test"
    BY <1>1, <2>1, <2>2 DEF Begin
  <2>4. Setting'
    BY <2>1, <2>2 DEF Setting, Call
  <2> QED BY <1>1, <1>2, <1>4, <2>1, <2>2, <2>3, <2>4
<1> QED
  BY <1>3, <1>4

\* What main has put together when it inserts
LEMMA Inserts ==
  ASSUME IInv, insert_timer
  PROVE  /\ Setting /\ Setting' /\ Further("edit", "alarm") /\ data' = data
         /\ main.this \in Nodes /\ data[main.this].proc = Call.proc
         /\ Len(main.todo) = 1
         /\ \/ main.in = "loop" /\ Call.proc = "checkpoint"
            \/ main.in = "connect" /\ Call.proc = "connect"
            \/ main.in = "sleep" /\ Call.proc = "none"
<1>0. TypeOK /\ Flow /\ ConnectOK
  BY DEF IInv
<1>1. main.pc = "edit" /\ InMain("edit") /\ Call.op = "set" /\ main.todo # <<>> /\ data' = data /\ Goto("alarm")
      /\ frames' = frames
  BY <1>0 DEF insert_timer, InMain, Then, Flow
<1>2. Setting
  BY <1>1 DEF Setting
<1>3. main'.pc = "alarm" /\ main'.in = main.in /\ main'.todo = main.todo
      /\ main'.this = main.this /\ main'.ids = main.ids
  BY <1>0, <1>1, MainGoes
<1>4. Further("edit", "alarm")
  BY <1>1, <1>3 DEF Further, Along, InMain, Call
<1>5. Setting'
  BY <1>1, <1>3, <1>4 DEF Setting, Along, Further
<1> QED
  BY <1>0, <1>1, <1>2, <1>4, <1>5 DEF ConnectOK, Flow, MainHolds

\* A new timer gets an id that is not negative.
LEMMA IdsGivenStep ==
  ASSUME IInv, IdsGiven, Next, ListMoves
  PROVE  IdsGiven'
<1>0. TypeOK /\ Flow
  BY DEF IInv
<1>1. ASSUME NEW n \in Listed' PROVE data'[n].id >= 0
  <2>1. CASE n \in Listed /\ data'[n] = data[n]
    BY <2>1 DEF IdsGiven
  <2>2. CASE insert_timer /\ n = main.this /\ data' = data
    <3>1. Setting /\ main.pc = "edit"
      BY <2>2, Inserts DEF Further, Along
    <3> QED BY <2>2, <3>1 DEF IdsGiven
  <2> QED BY <2>1, <2>2, ListedBefore
<1>2. ASSUME Setting', main'.pc \in {"stop", "ignore", "edit"} PROVE data'[main'.this].id >= 0
  <2>1. CASE main' = main /\ data' = data
    BY <1>2, <2>1 DEF IdsGiven, Setting, Call
  <2>2. CASE CallersBegin
    BY <1>2, <2>2 DEF CallersBegin, Setting
  <2>3. CASE fill_timer /\ Call.op = "set" /\ Further("fill", "stop")
    <3>1. main.this \in Nodes
      BY <1>0, <2>3 DEF Flow, MainHolds, Further, Along
    <3>2. data'[main.this].id = next_id
      BY <1>0, <2>3, <3>1 DEF fill_timer, TypeOK
    <3>3. main'.this = main.this /\ next_id >= 0
      BY <1>0, <2>3 DEF Further, TypeOK
    <3> QED BY <3>2, <3>3
  <2>4. CASE stop_timers /\ (Further("stop", "ignore") \/ Further("ignore", IF Call.op = "setv" THEN "test" ELSE "edit"))
    <3>1. main.pc \in {"stop", "ignore"} /\ Call' = Call /\ main.todo # <<>> /\ main'.this = main.this
      BY <2>4 DEF Further, Along
    <3>2. Setting
      BY <1>2, <3>1 DEF Setting
    <3>3. main.this \in Nodes
      BY <1>0, <3>1, <3>2 DEF Flow, MainHolds
    <3>4. data'[main.this].id = data[main.this].id
      <4>1. main.pc # "fill"
        BY <3>1
      <4> QED BY <4>1, <3>3, DataStep DEF fill_timer, InMain
    <3> QED BY <3>1, <3>2, <3>4 DEF IdsGiven
  <2>5. CASE Return
    <3>1. main'.pc \in {"idle", "test"}
      BY <2>5, Returns
    <3> QED BY <1>2, <3>1
  <2>6. CASE virtual_timer_is_set /\ Call.op = "setv" /\ Along("check", "stop")
    BY <1>2, <2>6 DEF Along, Setting
  <2>7. main'.pc \notin {"stop", "ignore", "edit"} \/ ~MainMoves \/ (main' = main /\ data' = data)
        \/ CallersBegin \/ Return \/ (fill_timer /\ Call.op = "set" /\ Further("fill", "stop"))
        \/ (stop_timers /\ (Further("stop", "ignore") \/ Further("ignore", IF Call.op = "setv" THEN "test" ELSE "edit")))
        \/ (virtual_timer_is_set /\ Call.op = "setv" /\ Along("check", "stop"))
    BY DEF MainMoves, Further, Along
  <2> QED BY <1>2, <2>1, <2>2, <2>3, <2>4, <2>5, <2>6, <2>7, MainStep
<1> QED
  BY <1>1, <1>2 DEF IdsGiven

\* The id that main_loop() keeps stays that of the checkpoint timer.
LEMMA CheckpointKept ==
  ASSUME IInv, Next, MainMoves, ~NoCheckpoint,
         ~(insert_timer /\ main.in = "loop"),
         ~(remove_timer /\ main.in = "loop" /\ Len(main.todo) = 2)
  PROVE  ~NoCheckpoint' /\ CheckpointId' = CheckpointId
<1>0. TypeOK /\ Flow
  BY DEF IInv
<1>p. "checkpoint" \in Procs
  BY DEF Procs
<1>c. main.todo # <<>> => Call \in Requests /\ main.pc \in Steps(Call.op) /\ Call.op \in Ops
  BY <1>0, CallIs DEF Flow, Requests
<1>1. CASE main' = main /\ data' = data
  BY <1>1 DEF NoCheckpoint, CheckpointId, Setting, Call
<1>2. CASE CallersBegin
  <2>1. main'.ids = main.ids /\ main.todo = <<>>
    BY <1>0, <1>2 DEF CallersBegin, Flow
  <2>2. main'.in # "loop" \/ Call'.op = "cancel"
    BY <1>2 DEF CallersBegin
  <2>3. main'.pc \notin Restarting
    BY <1>2 DEF CallersBegin, Restarting
  <2>4. ~Setting /\ (main'.in = "loop" => ~Setting')
    BY <2>1, <2>2 DEF Setting
  <2> QED BY <2>1, <2>3, <2>4 DEF NoCheckpoint, CheckpointId
<1>4. ASSUME NEW p, NEW q, Further(p, q), main.in = "loop",
             p \notin Restarting, q \notin Restarting
      PROVE  ~NoCheckpoint' /\ CheckpointId' = CheckpointId
  BY <1>4 DEF NoCheckpoint, CheckpointId, Setting, Further, Along
<1>5. ASSUME NEW p, NEW q, Further(p, q), main.in = "loop", data' = data,
             p \in Restarting, q \in Restarting
      PROVE  ~NoCheckpoint' /\ CheckpointId' = CheckpointId
  BY <1>5 DEF NoCheckpoint, CheckpointId, Setting, Further, Along
<1>6. CASE main.in = "loop" /\ \E p, q : Along(p, q) /\ main.pc \in {"check", "test", "take", "fill"}
  <2>1. Setting \/ Call.op = "setv"
    BY <1>c, <1>6, StepsAre DEF Along, Ops, Setting
  <2>2. main.pc \notin Restarting
    BY <1>6 DEF Restarting
  <2>3. Call.op # "setv"
    BY <1>0, <1>6 DEF Flow, Along
  <2> QED BY <1>6, <2>1, <2>2, <2>3 DEF NoCheckpoint
<1>7. CASE main.in = "loop" /\ remove_timer /\ Further("edit", "alarm")
  <2>1. Call.op = "cancel" /\ main.pc = "edit" /\ main.todo # <<>> /\ main'.pc = "alarm"
        /\ main'.todo = main.todo /\ main'.ids = main.ids /\ Call' = Call
    BY <1>7 DEF remove_timer, Further, Along
  <2>2. Len(main.todo) # 2
    BY <1>7
  <2>3. ~Setting /\ ~Setting'
    BY <2>1 DEF Setting
  <2>4. "alarm" \in Restarting
    BY DEF Restarting
  <2> QED BY <2>1, <2>2, <2>3, <2>4 DEF NoCheckpoint, CheckpointId
<1>8. CASE Return
  <2>r. /\ main.todo # <<>> /\ main.pc = "done" /\ data' = data
        /\ main'.in \in {main.in, "task"}
        /\ Len(main.todo) = 1 => main'.todo = <<>> /\ main'.pc = "idle"
        /\ Len(main.todo) = 1 /\ main.in # "connected" => main'.in = main.in
        /\ Len(main.todo) # 1 => main.in = "loop" /\ Len(main.todo) = 2
        /\ Call.op = "cancel" => main'.ids = main.ids
        /\ Call.op # "cancel" => /\ \A p \in Procs : p # Call.proc => main'.ids[p] = main.ids[p]
                                 /\ main'.ids[Call.proc] = data[main.this].id
    BY <1>8, Returns
  <2>d. "done" \in Restarting /\ "idle" \notin Restarting
    BY DEF Restarting
  <2>1. Len(main.todo) = 1
    BY <2>r, <2>d DEF NoCheckpoint
  <2>2. main'.todo = <<>> /\ main'.pc = "idle" /\ ~Setting'
    BY <2>r, <2>1 DEF Setting
  <2>3. ~NoCheckpoint' /\ CheckpointId' = main'.ids["checkpoint"]
    BY <2>d, <2>2 DEF NoCheckpoint, CheckpointId
  <2>4. CASE main.in = "loop" /\ Setting
    <3>1. Call.op = "set" /\ Call.proc = "checkpoint"
      BY <1>0, <2>r, <2>4 DEF Flow, Setting
    <3>2. CheckpointId = data[main.this].id
      BY <2>r, <2>d, <2>4 DEF CheckpointId
    <3> QED BY <2>r, <2>3, <3>1, <3>2
  <2>5. CASE ~(main.in = "loop" /\ Setting)
    <3>1. CheckpointId = main.ids["checkpoint"]
      BY <2>5 DEF CheckpointId
    <3>2. Call.op = "cancel" \/ Call.proc # "checkpoint"
      BY <1>0, <1>c, <2>r, <2>5 DEF Flow, Setting, Ops
    <3>3. main'.ids["checkpoint"] = main.ids["checkpoint"]
      BY <1>p, <2>r, <3>2
    <3> QED BY <2>3, <3>1, <3>3
  <2> QED BY <2>4, <2>5
<1>9. CASE main.in # "loop"
  <2>1. CASE main'.in # "loop" /\ main'.ids = main.ids
    BY <1>9, <2>1 DEF NoCheckpoint, CheckpointId
  <2>2. \/ main' = main /\ data' = data
        \/ CallersBegin \/ Return
        \/ main'.in # "loop" /\ main'.ids = main.ids
    BY <1>9 DEF MainMoves, Further, Along
  <2> QED BY <1>1, <1>2, <1>8, <2>1, <2>2
<1>10. CASE main.in = "loop"
  <2>1. CASE reenable_timers /\ main.pc = "except"
    BY <1>0, <1>10, <2>1 DEF Flow
  <2>2. CASE allocate_timer /\ (Along("test", "take") \/ Along("test", "fill") \/ Along("take", "fill"))
    BY <1>6, <1>10, <2>2 DEF Along
  <2>3. CASE fill_timer /\ (Further("fill", "stop") \/ Further("fill", "alarm"))
    BY <1>6, <1>10, <2>3 DEF Along, Further
  <2>4. CASE virtual_timer_is_set /\ Along("check", "stop")
    BY <1>6, <1>10, <2>4 DEF Along
  <2>5. CASE stop_timers /\ Further("stop", "ignore")
    BY <1>4, <1>10, <2>5 DEF Restarting
  <2>6. CASE stop_timers /\ Further("ignore", IF Call.op = "setv" THEN "test" ELSE "edit")
    BY <1>4, <1>10, <2>6 DEF Restarting
  <2>7. CASE (insert_timer \/ remove_timer) /\ Further("edit", "alarm")
    BY <1>7, <1>10, <2>7
  <2>8. CASE /\ restart_timers /\ data' = data
             /\ \/ Further("alarm", "vtest") \/ Further("vtest", "varm") \/ Further("vtest", "done")
                \/ Further("varm", "done")
    BY <1>5, <1>10, <2>8 DEF Restarting
  <2> QED BY <1>1, <1>2, <1>8, <1>10, <2>1, <2>2, <2>3, <2>4, <2>5, <2>6, <2>7, <2>8 DEF MainMoves
<1> QED
  BY <1>9, <1>10

\* set_checkpoint_timer() cancels the timer that it replaces.
LEMMA CheckpointStep ==
  ASSUME IInv, Sorted, IdsGiven, CheckpointOK, Next, ListMoves
  PROVE  CheckpointOK'
<1>0. TypeOK /\ Flow /\ IdsOK
  BY DEF IInv
<1>m. MainMoves
  BY MainStep
<1>l. Listed \in SUBSET Nodes
  BY ListIs
<1>1. Len(main'.todo) = 2 => Call'.id = main'.ids["checkpoint"]
  <2>1. SUFFICES ASSUME Len(main'.todo) = 2 PROVE Call'.id = main'.ids["checkpoint"]
    OBVIOUS
  <2>2. CASE main'.todo = main.todo /\ main'.ids = main.ids
    BY <2>1, <2>2 DEF CheckpointOK, Call
  <2>3. CASE CallersBegin
    BY <2>1, <2>3 DEF CallersBegin
  <2>4. CASE Return
    <3>1. Len(main.todo) = 1 => main'.todo = <<>>
      BY <2>4, Returns
    <3>2. Len(main.todo) # 1 => Len(main'.todo) = 1
      BY <2>4, Returns
    <3>3. Len(<<>>) = 0
      OBVIOUS
    <3> QED BY <2>1, <3>1, <3>2, <3>3
  <2>5. CASE main'.todo = <<>>
    BY <2>1, <2>5
  <2>6. \/ main'.todo = main.todo /\ main'.ids = main.ids
        \/ CallersBegin \/ Return \/ main'.todo = <<>>
    BY <1>m DEF MainMoves, Further, Along
  <2> QED BY <2>2, <2>3, <2>4, <2>5, <2>6
<1>2. ASSUME NEW n \in Listed', data'[n].proc = "checkpoint"
      PROVE  ~NoCheckpoint' /\ data'[n].id = CheckpointId'
  <2>1. CASE n \in Listed /\ data'[n] = data[n]
    <3>1. ~NoCheckpoint /\ data[n].id = CheckpointId
      BY <1>2, <2>1 DEF CheckpointOK
    <3>2. CASE insert_timer /\ main.in = "loop"
      <4>1. Setting /\ main.pc = "edit"
        BY <3>2, Inserts DEF Further, Along
      <4> QED BY <3>1, <3>2, <4>1 DEF NoCheckpoint, Restarting
    <3>3. CASE remove_timer /\ main.in = "loop" /\ Len(main.todo) = 2
      <4>1. Call.op = "cancel" /\ main.todo # <<>> /\ main.pc = "edit"
        <5>1. Len(<<>>) = 0
          OBVIOUS
        <5> QED BY <3>3, <5>1 DEF remove_timer, InMain
      <4>2. Call.id = main.ids["checkpoint"] /\ CheckpointId = main.ids["checkpoint"]
        BY <3>3, <4>1 DEF CheckpointOK, CheckpointId, Setting
      <4>3. ~IsVirtual(Call.id)
        <5>1. virt = Null
          BY <3>3, VirtualIs
        <5> QED BY <5>1 DEF IsVirtual
      <4>4. PICK m \in Listed : Unlinked(m) /\ data[m].id = Call.id
        <5>1. \/ \E m \in Listed : Unlinked(m) /\ data[m].id = Call.id
              \/ \A m \in Listed : data[m].id # Call.id
          BY <3>3, <4>3, RemoveIs
        <5> QED BY <2>1, <3>1, <4>2, <5>1
      <4>5. n # m
        BY <1>2, <4>4 DEF Unlinked
      <4>6. data[n].id >= 0 /\ data[n].id = data[m].id /\ n \in Nodes /\ m \in Nodes
        BY <1>l, <2>1, <3>1, <4>2, <4>4 DEF IdsGiven
      <4> QED BY <1>0, <4>5, <4>6 DEF IdsOK
    <3>4. CASE ~(insert_timer /\ main.in = "loop") /\ ~(remove_timer /\ main.in = "loop" /\ Len(main.todo) = 2)
      <4>1. ~NoCheckpoint' /\ CheckpointId' = CheckpointId
        BY <1>m, <3>1, <3>4, CheckpointKept
      <4> QED BY <2>1, <3>1, <4>1
    <3> QED BY <3>2, <3>3, <3>4
  <2>2. CASE insert_timer /\ n = main.this /\ data' = data
    <3>1. /\ Setting' /\ Further("edit", "alarm") /\ data[main.this].proc = Call.proc /\ Len(main.todo) = 1
          /\ Call.proc = "checkpoint" => main.in = "loop"
      BY <2>2, Inserts
    <3>2. main'.in = "loop" /\ main'.pc = "alarm" /\ main'.todo = main.todo /\ main'.this = main.this
      BY <1>2, <2>2, <3>1 DEF Further, Along
    <3>3. "alarm" \in Restarting
      BY DEF Restarting
    <3>4. CheckpointId' = data'[n].id
      BY <2>2, <3>1, <3>2, <3>3 DEF CheckpointId
    <3>5. ~NoCheckpoint'
      BY <3>1, <3>2, <3>3 DEF NoCheckpoint
    <3> QED BY <3>4, <3>5
  <2> QED BY <2>1, <2>2, ListedBefore
<1> QED
  BY <1>1, <1>2 DEF CheckpointOK

\* Two checkpoint timers, or two of a connect(), are one.
LEMMA KindIsOne ==
  ASSUME IInv, IdsGiven, CheckpointOK, NEW m \in Listed, NEW n \in Listed,
         data[m].proc = data[n].proc, data[m].proc \in {"checkpoint", "connect"}
  PROVE  m = n
<1>1. IdsOK /\ ConnectOK /\ m \in Nodes /\ n \in Nodes
  BY ListIs DEF IInv
<1>2. data[m].id = data[n].id
  <2>1. CASE data[m].proc = "checkpoint"
    BY <2>1 DEF CheckpointOK
  <2>2. CASE data[m].proc = "connect"
    BY <1>1, <2>2 DEF ConnectOK, Connects, Listed
  <2> QED BY <2>1, <2>2
<1>3. data[m].id >= 0
  BY DEF IdsGiven
<1> QED
  BY <1>1, <1>2, <1>3 DEF IdsOK

\* There is a checkpoint timer and the timer of a connect(), or what timer_sleep() set.
LEMMA ListIsShort ==
  ASSUME IInv, IdsGiven, CheckpointOK, NoneOK
  PROVE  AtMostTwo /\ (main.in = "loop" => AtMostOne)
<1>0. TypeOK /\ ConnectOK /\ Listed \in SUBSET Nodes
  BY ListIs DEF IInv
<1>1. ASSUME ~Sleeping, NEW n \in Listed PROVE data[n].proc \in {"checkpoint", "connect"}
  <2>1. data[n].proc \in Procs
    BY <1>0 DEF TypeOK
  <2>2. data[n].proc # "task" /\ data[n].proc # "none"
    BY <1>1 DEF NoneOK
  <2> QED BY <2>1, <2>2 DEF Procs
<1>2. ASSUME ~Sleeping PROVE AtMostTwo
  <2>1. SUFFICES ASSUME NEW k \in Listed, NEW m \in Listed, NEW n \in Listed PROVE k = m \/ k = n \/ m = n
    BY DEF AtMostTwo
  <2>2. data[k].proc = data[m].proc \/ data[k].proc = data[n].proc \/ data[m].proc = data[n].proc
    BY <1>1, <1>2
  <2> QED BY <1>1, <1>2, <2>2, KindIsOne
<1>3. ASSUME main.in = "loop" PROVE AtMostOne
  <2>1. ~Sleeping /\ ~MayTimeOut
    BY <1>3 DEF Sleeping, MayTimeOut
  <2>2. ASSUME NEW n \in Listed PROVE data[n].proc = "checkpoint"
    <3>1. ~Connects(n)
      BY <1>0, <2>1 DEF ConnectOK
    <3> QED BY <1>1, <2>1, <3>1 DEF Connects, Listed
  <2> QED BY <2>2, KindIsOne DEF AtMostOne
<1> QED
  BY <1>2, <1>3 DEF NoneOK

\* timer_sleep() is called where there is one timer at most, and goes on only when it has
\* slept: when the handler of SIGALRM has run.
LEMMA NoneStep ==
  ASSUME IInv, IInv', Sorted, IdsGiven, CheckpointOK, NoneOK, Next, ListMoves
  PROVE  NoneOK'
<1>0. TypeOK /\ Flow
  BY DEF IInv
<1>m. MainMoves
  BY MainStep
<1>h. HandlersMove
  BY HandlerStep
<1>v. Sleeping => virt = Null
  BY VirtualIs DEF Sleeping
<1>s. Sleeping => Sleeping'
  <2>1. SUFFICES ASSUME Sleeping PROVE Sleeping'
    OBVIOUS
  <2>2. CASE main' = main \/ main'.in = main.in
    BY <2>1, <2>2 DEF Sleeping
  <2>3. CASE CallersBegin
    BY <2>1, <2>3 DEF CallersBegin, Sleeping
  <2>4. CASE Return
    <3>1. main.todo # <<>> /\ (Len(main.todo) = 1 /\ main.in # "connected" => main'.in = main.in)
          /\ (Len(main.todo) # 1 => main.in = "loop")
      BY <2>4, Returns
    <3> QED BY <2>1, <3>1 DEF Sleeping
  <2>5. CASE main.in \in {"connect", "connected"} \/ main'.in \in {"pause", "down"}
    BY <2>1, <2>5 DEF Sleeping
  <2> QED BY <1>m, <2>2, <2>3, <2>4, <2>5 DEF MainMoves, Further, Along
<1>1. ASSUME NEW n \in Listed'
      PROVE  data'[n].proc # "task" /\ (data'[n].proc = "none" => Sleeping')
  <2>1. CASE n \in Listed /\ data'[n] = data[n]
    BY <1>s, <2>1 DEF NoneOK
  <2>2. CASE insert_timer /\ n = main.this /\ data' = data
    <3>1. /\ Further("edit", "alarm") /\ data[main.this].proc = Call.proc
          /\ \/ Call.proc \in {"checkpoint", "connect"}
             \/ main.in = "sleep" /\ Call.proc = "none"
      BY <2>2, Inserts
    <3> QED BY <2>2, <3>1 DEF Further, Along, Sleeping
  <2> QED BY <2>1, <2>2, ListedBefore
<1>2. ASSUME Sleeping', ~Sleeping
      PROVE  /\ CallersBegin /\ main.in = "loop" /\ frames = <<>> /\ frames' = <<>>
             /\ ListStays
  <2>1. CallersBegin /\ main.in = "loop"
    <3>1. CASE main' = main \/ main'.in = main.in
      BY <1>2, <3>1 DEF Sleeping
    <3>2. CASE CallersBegin
      BY <1>2, <3>2 DEF CallersBegin, Sleeping
    <3>3. CASE Return
      <4>1. main'.in \in {main.in, "task"}
        BY <3>3, Returns
      <4> QED BY <1>2, <4>1 DEF Sleeping
    <3>4. CASE main'.in = "task" \/ main.in \in {"sleep", "pause"}
      BY <1>2, <3>4 DEF Sleeping
    <3> QED BY <1>m, <3>1, <3>2, <3>3, <3>4 DEF MainMoves, Further, Along
  <2>2. frames = <<>> /\ frames' = <<>>
    BY <2>1 DEF CallersBegin
  <2>3. ListStays
    BY <2>1 DEF CallersBegin, lists, ListStays, Listed
  <2> QED BY <2>1, <2>2, <2>3
<1>3. Sleeping' => At("vtalrm")' \in {"none", "pop"}
  <2>1. CASE Sleeping
    <3>1. At("vtalrm") \in {"none", "pop"} /\ virt = Null
      BY <1>v, <2>1 DEF NoneOK
    <3>2. \/ At("vtalrm")' = At("vtalrm")
          \/ At("vtalrm")' \in {"none", "pop"}
      BY <1>h, <3>1 DEF HandlersMove, HandlersStay
    <3> QED BY <3>1, <3>2
  <2>2. CASE ~Sleeping
    BY <1>2, <2>2, AtNone
  <2> QED BY <2>1, <2>2
<1>4. insert_timer \/ Listed' \subseteq Listed
  BY ListedBefore
<1>5. Sleeping' => AtMostTwo'
  <2>1. CASE Listed' \subseteq Listed
    BY <2>1, ListIsShort DEF AtMostTwo
  <2>2. CASE insert_timer /\ Sleeping'
    <3>1. main.in = "sleep" /\ Setting /\ main.pc = "edit"
      BY <2>2, Inserts DEF Further, Along, Sleeping
    <3>2. AtMostOne
      BY <3>1 DEF NoneOK, LastOne, Restarting
    <3>3. Listed' \subseteq Listed \cup {main.this}
      BY <2>2, InsertIs DEF Inserted
    <3> QED BY <3>2, <3>3 DEF AtMostOne, AtMostTwo
  <2> QED BY <1>4, <2>1, <2>2
<1>6. ASSUME LastOne' PROVE AtMostOne'
  <2>p. Sleeping'
    BY <1>6 DEF LastOne, Sleeping
  <2>1. CASE ~Sleeping
    <3>1. AtMostOne /\ ListStays
      BY <1>2, <2>p, <2>1, ListIsShort
    <3> QED BY <3>1 DEF AtMostOne, ListStays
  <2>2. CASE insert_timer
    <3>1. main'.in = "sleep" /\ main'.pc = "alarm" /\ frames' = <<>>
      BY <2>2, <2>p, Inserts DEF Further, Along, Sleeping
    <3>2. Handler' = "none"
      BY <3>1, AtNone DEF Handler
    <3> QED BY <1>6, <3>1, <3>2 DEF LastOne, Restarting
  <2>3. CASE Wakes
    <3>1. Listed' = Listed \ {active} /\ active \in Listed
      BY <2>3 DEF Wakes, Unlinked
    <3>2. AtMostTwo
      BY ListIsShort
    <3> QED BY <3>1, <3>2 DEF AtMostOne, AtMostTwo
  <2>4. CASE LastOne /\ ~insert_timer
    <3>1. AtMostOne
      BY <2>4 DEF NoneOK
    <3> QED BY <1>4, <2>4, <3>1 DEF AtMostOne
  <2>5. CASE Sleeping /\ ~LastOne /\ ~insert_timer /\ ~Wakes
    <3>1. main.in \in {"sleep", "pause"} /\ Handler \in {"none", "pop"} /\ (Setting => main.pc \in Restarting)
      <4>1. Setting => main.in \in {"loop", "connect", "sleep"}
        BY <1>0 DEF Flow, Setting
      <4> QED BY <2>5, <4>1 DEF LastOne, Sleeping
    <3>2. Handler' \in {"none", "pop"}
      <4>1. CASE wakeup_call
        <5>1. CASE Crash
          BY <3>1, <5>1, SameFrames DEF Crash, HandlersStay, Handler
        <5> QED BY <2>5, <4>1, <5>1, WakeupIs
      <4>2. CASE ~wakeup_call
        BY <1>h, <3>1, <4>2 DEF HandlersMove, HandlersStay, Handler
      <4> QED BY <4>1, <4>2
    <3>3. At("vtalrm") # "done"
      BY <2>5 DEF NoneOK
    <3>4. ~CallersBegin /\ ~timeout_proc
      <4>1. ~CallersBegin
        BY <3>1 DEF CallersBegin
      <4>2. CASE timeout_proc
        <5>1. main'.in \notin {"sleep", "pause", "down"}
          BY <1>0, <4>2 DEF timeout_proc, TypeOK, Programs
        <5> QED BY <2>p, <5>1 DEF Sleeping
      <4> QED BY <4>1, <4>2
    <3>5. ~handler_returns
      <4>1. SUFFICES ASSUME handler_returns PROVE FALSE
        OBVIOUS
      <4>2. frames # <<>> /\ Top.pc = "done" /\ frames' = Front(frames)
        BY <4>1 DEF handler_returns
      <4>3. At(Top.sig) = "done" /\ Top.sig \in {"alrm", "vtalrm"}
        BY <1>0, <4>2, AtEnds, TopIs DEF Frames
      <4> QED BY <3>1, <3>3, <4>3 DEF Handler
    <3>6. main'.in \in {"sleep", "pause"} /\ (Setting' => main'.pc \in Restarting)
      <4>1. CASE main' = main
        BY <3>1, <4>1 DEF Setting, Call
      <4>2. CASE Return
        <5>1. main'.in = main.in /\ main'.todo = <<>>
          BY <3>1, <4>2, Returns
        <5> QED BY <3>1, <5>1 DEF Setting
      <4>3. CASE reenable_timers
        BY <1>0, <3>1, <4>3 DEF reenable_timers, InMain, Flow
      <4>6. CASE main'.in = "pause" /\ main'.todo = <<>>
        BY <4>6 DEF Setting
      <4>4. ASSUME NEW p, NEW q, Along(p, q), q \in Restarting \/ p \notin Restarting
            PROVE  main'.in \in {"sleep", "pause"} /\ (Setting' => main'.pc \in Restarting)
        <5>1. main'.in \in {"sleep", "pause"} /\ (Setting' => Setting)
          BY <3>1, <4>4 DEF Along, Setting
        <5>2. Setting' => q \in Restarting
          BY <3>1, <4>4, <5>1 DEF Along
        <5> QED BY <4>4, <5>1, <5>2 DEF Along
      <4>5. "alarm" \in Restarting /\ "vtest" \in Restarting /\ "varm" \in Restarting /\ "done" \in Restarting
            /\ "test" \notin Restarting /\ "take" \notin Restarting /\ "fill" \notin Restarting
            /\ "stop" \notin Restarting /\ "ignore" \notin Restarting /\ "edit" \notin Restarting
            /\ "check" \notin Restarting
        BY DEF Restarting
      <4> QED BY <1>m, <3>4, <3>5, <4>1, <4>2, <4>3, <4>4, <4>5, <4>6 DEF MainMoves, Further
    <3> QED BY <1>6, <3>2, <3>6 DEF LastOne
  <2> QED BY <2>1, <2>2, <2>3, <2>4, <2>5
<1> QED
  BY <1>1, <1>3, <1>5, <1>6 DEF NoneOK

-----------------------------------------------------------------------------
(* SIGALRM. *)

\* The first two timers are the same, with the same times.
FirstTwoStay ==
  /\ active' = active
  /\ active # Null => /\ data'[active].when = data[active].when /\ next'[active] = next[active]
                      /\ next[active] # Null => data'[next[active]].when = data[next[active]].when

\* They do where the list does.
LEMMA StayFirst ==
  ASSUME IInv, ListStays
  PROVE  FirstTwoStay
<1>1. /\ active \in Listed \cup {Null}
      /\ active # Null => next[active] \in Listed \cup {Null}
  BY ListIs
<1> QED
  BY <1>1 DEF ListStays, FirstTwoStay

\* The times are numbers.
LEMMA TimesAre ==
  ASSUME IInv
  PROVE  /\ now \in Int
         /\ active # Null => /\ data[active].when \in Int
                             /\ next[active] # Null => data[next[active]].when \in Int
<1>1. /\ active \in Listed \cup {Null}
      /\ \A n \in Listed : next[n] \in Listed \cup {Null} /\ data[n].when \in Int
  BY ListIs
<1>2. now \in Int
  BY DEF IInv, TypeOK
<1> QED
  BY <1>1, <1>2

\* Nothing comes closer to SIGALRM, and no call to restart_timers().
Calm ==
  /\ FirstTwoStay /\ UNCHANGED <<now, alarm, pend>>
  /\ Handler' = "pop" => Handler = "pop"
  /\ Freeing' => Freeing
  /\ Handler = "none" => Handler' = "none"
  /\ main'.pc = "ignore" => main.pc = "ignore"
  /\ Blind' => Blind
  /\ main'.pc = "alarm" <=> main.pc = "alarm"

\* What SIGALRM comes for does not change in a calm step.
LEMMA CalmKeeps ==
  ASSUME AlarmOK, Calm
  PROVE  AlarmOK'
<1>1. /\ FirstBy(now)' <=> FirstBy(now)
      /\ FirstBy(alarm)' <=> FirstBy(alarm)
      /\ SecondBy(now)' <=> SecondBy(now)
      /\ SecondBy(alarm)' <=> SecondBy(alarm)
      /\ (active = Null \/ next[active] = Null) => (active' = Null \/ next'[active'] = Null)
      /\ active' = active /\ (active # Null => data'[active].when = data[active].when)
  BY DEF FirstBy, SecondBy, FirstTwoStay, Calm
<1>2. Quiet => Quiet'
  BY DEF Quiet, Calm
<1>3. /\ (alarm' # Null => alarm' \in Int)
      /\ (pend' \/ Handler' = "pop" => FirstBy(now)')
      /\ (alarm' # Null /\ main'.pc # "alarm" => FirstBy(alarm)')
      /\ (pend' /\ Handler' = "pop" => alarm' = Null /\ SecondBy(now)')
      /\ ((pend' \/ Handler' = "pop") /\ alarm' # Null => SecondBy(alarm)')
      /\ (Freeing' /\ alarm' # Null => active' = Null \/ next'[active'] = Null)
  BY <1>1 DEF AlarmOK, Calm
<1>4. (main'.pc = "ignore" /\ alarm' # Null =>
       ~pend' /\ Handler' # "pop" /\ ~Freeing' /\ alarm' > now' /\ active' # Null /\ data'[active'].when = alarm')
  BY <1>1 DEF AlarmOK, Calm
<1>5. Blind' => Quiet' /\ (alarm' # Null => alarm' > now' /\ active' # Null /\ data'[active'].when = alarm')
  BY <1>1, <1>2 DEF AlarmOK, Calm
<1>6. main'.pc = "alarm" =>
       Quiet' /\ (alarm' # Null => alarm' > now' /\ (active' = Null \/ data'[active'].when > now' \/ SecondBy(alarm)'))
  BY <1>1, <1>2 DEF AlarmOK, Calm
<1> QED
  BY <1>3, <1>4, <1>5, <1>6 DEF AlarmOK

\* Where no handler goes anywhere
LEMMA AloneStays ==
  ASSUME frames' = frames
  PROVE  Handler' = Handler /\ (Freeing' <=> Freeing)
<1>1. Handler' = Handler
  BY SameFrames DEF HandlersStay, Handler
<1> QED
  BY <1>1 DEF Freeing

\* Steps of main that are calm
LEMMA MainIsCalm ==
  ASSUME IInv, Next, ListStays,
         \/ Callers \/ allocate_timer \/ virtual_timer_is_set \/ Return \/ pause \/ reenable_timers
         \/ fill_timer /\ Call.op = "set"
         \/ restart_timers /\ frames = <<>> /\ main.pc # "alarm"
         \/ VirtualRuns \/ Crash
  PROVE  Calm
<1>0. TypeOK /\ Flow /\ FirstTwoStay
  BY StayFirst DEF IInv
<1>m. ASSUME UNCHANGED <<now, alarm, pend>>, frames' = frames,
             main'.pc = "ignore" => main.pc = "ignore", Blind' => Blind, main'.pc = "alarm" <=> main.pc = "alarm"
      PROVE  Calm
  BY <1>0, <1>m, AloneStays DEF Calm
<1>a. ASSUME NEW p, NEW q, Along(p, q), UNCHANGED <<now, alarm, pend>>,
             p # "alarm", q \notin {"ignore", "alarm", "edit"},
             q \in {"test", "take", "fill"} => p \in {"test", "take", "fill"}
      PROVE  Calm
  <2>1. Blind' => Blind
    BY <1>a DEF Blind, Along
  <2> QED BY <1>a, <1>m, <2>1 DEF Along
<1>1. CASE Callers
  <2>1. CallersBegin /\ UNCHANGED <<now, alarm, pend, frames>>
    BY <1>0, <1>1, CallersDo DEF CallersBegin, signals
  <2>2. main.pc = "idle" /\ main'.pc \in {"test", "check", "stop"} /\ (main'.pc = "test" => Call'.op = "set")
    BY <2>1 DEF CallersBegin
  <2>3. ~Blind'
    BY <2>2 DEF Blind
  <2> QED BY <1>m, <2>1, <2>2, <2>3
<1>2. CASE allocate_timer
  <2>1. UNCHANGED <<now, alarm, pend>>
    BY <1>2 DEF allocate_timer, Then, signals
  <2>2. Along("test", "take") \/ Along("test", "fill") \/ Along("take", "fill")
    <3>1. main.pc \in {"test", "take"} /\ main'.pc \in {"take", "fill"}
      BY <1>0, <1>2, MainGoes DEF allocate_timer, InMain, Then, TypeOK, Programs
    <3>2. main.todo # <<>>
      BY <1>0, <3>1 DEF Flow
    <3>3. main'.in = main.in /\ main'.todo = main.todo /\ main'.ids = main.ids /\ frames = <<>> /\ frames' = <<>>
      BY <1>0, <1>2, MainGoes DEF allocate_timer, InMain, Then, TypeOK, Programs
    <3>4. main.pc = "take" => main'.pc = "fill"
      BY <1>0, <1>2, MainGoes DEF allocate_timer, InMain, Then
    <3> QED BY <3>1, <3>2, <3>3, <3>4 DEF Along, Call
  <2> QED BY <1>a, <2>1, <2>2
<1>3. CASE virtual_timer_is_set
  <2>1. UNCHANGED <<now, alarm, pend>> /\ frames' = frames
    BY <1>3 DEF virtual_timer_is_set, Then, signals
  <2>2. main.pc = "check" /\ main'.pc \in {"stop", "vfull"}
    BY <1>0, <1>3, MainGoes DEF virtual_timer_is_set, Then, InMain
  <2>3. ~Blind'
    BY <2>2 DEF Blind
  <2> QED BY <1>m, <2>1, <2>2, <2>3
<1>4. CASE Return
  <2>1. UNCHANGED <<now, alarm, pend>> /\ frames' = frames
    BY <1>4 DEF Return, signals
  <2>2. main.pc = "done" /\ main'.pc \in {"idle", "test"} /\ (main'.pc = "test" => Setting')
    BY <1>4, Returns
  <2>3. ~Blind'
    BY <2>2 DEF Blind, Setting
  <2> QED BY <1>m, <2>1, <2>2, <2>3
<1>10. CASE pause
  <2>1. UNCHANGED <<now, alarm, pend>> /\ frames' = frames
    BY <1>10 DEF pause, signals
  <2>2. main.pc = "idle" /\ main'.pc = "idle"
    BY <1>0, <1>10 DEF pause, InCaller, InMain, TypeOK, Programs
  <2>3. ~Blind'
    BY <2>2 DEF Blind
  <2> QED BY <1>m, <2>1, <2>2, <2>3
<1>5. CASE reenable_timers
  <2>1. UNCHANGED <<now, alarm, pend>> /\ frames' = frames
    BY <1>5 DEF reenable_timers
  <2>2. main.pc = "except" /\ main'.pc = "idle"
    BY <1>0, <1>5, MainGoes DEF reenable_timers, InMain
  <2>3. ~Blind'
    BY <2>2 DEF Blind
  <2> QED BY <1>m, <2>1, <2>2, <2>3
<1>6. CASE fill_timer /\ Call.op = "set"
  <2>1. UNCHANGED <<now, alarm, pend>> /\ frames' = frames
    BY <1>6 DEF fill_timer, Then, signals
  <2>2. main.pc = "fill" /\ main'.pc = "stop"
    BY <1>0, <1>6, MainGoes DEF fill_timer, InMain, Then
  <2>3. ~Blind'
    BY <2>2 DEF Blind
  <2> QED BY <1>m, <2>1, <2>2, <2>3
<1>7. CASE Crash
  <2>1. UNCHANGED <<now, alarm, pend>> /\ frames' = frames /\ main' = main
    BY <1>7 DEF Crash, signals
  <2>2. Blind' => Blind
    BY <2>1 DEF Blind, Call
  <2> QED BY <1>m, <2>1, <2>2
<1>8. CASE VirtualRuns
  <2>1. UNCHANGED <<now, alarm, pend>> /\ frames' = frames /\ main' = main
    BY <1>8 DEF VirtualRuns, signals
  <2>2. Blind' => Blind
    BY <2>1 DEF Blind, Call
  <2> QED BY <1>m, <2>1, <2>2
<1>9. CASE restart_timers /\ frames = <<>> /\ main.pc # "alarm" /\ ~Crash
  <2>1. \/ In("vtest") /\ MoveTo(IF virt = Null THEN "done" ELSE "varm") /\ UNCHANGED <<now, alarm, pend>>
        \/ In("varm") /\ MoveTo("done") /\ UNCHANGED <<now, alarm, pend>>
    BY <1>9 DEF restart_timers, In, InMain, InHandler, signals
  <2>2. UNCHANGED <<now, alarm, pend>> /\ frames' = frames
    BY <1>9, <2>1 DEF MoveTo
  <2>3. main.pc \in {"vtest", "varm"} /\ main'.pc \in {"done", "varm"}
    BY <1>0, <1>9, <2>1, MainGoes DEF MoveTo, In, InMain, InHandler
  <2>4. ~Blind'
    BY <2>3 DEF Blind
  <2> QED BY <1>m, <2>2, <2>3, <2>4
<1> QED
  BY <1>1, <1>2, <1>3, <1>4, <1>5, <1>6, <1>7, <1>8, <1>9, <1>10

\* Steps of the handlers that are calm
LEMMA HandlerIsCalm ==
  ASSUME IInv, IInv', AlarmOK, Next, ListStays, ~Crash,
         \/ virtual_wakeup_call \/ free_timer \/ timeout_proc \/ handler_returns \/ DeliverVirtual
         \/ restart_timers /\ frames # <<>> /\ Handler # "alarm"
  PROVE  Calm
<1>0. TypeOK /\ Flow /\ FirstTwoStay
  BY StayFirst DEF IInv
<1>1. UNCHANGED <<now, alarm, pend>>
  <2>1. CASE restart_timers /\ frames # <<>> /\ Handler # "alarm"
    <3>1. ~InHandler("alrm", "alarm")
      <4>1. SUFFICES ASSUME InHandler("alrm", "alarm") PROVE FALSE
        OBVIOUS
      <4>2. PICK k \in DOMAIN frames : k = Len(frames) /\ Top = frames[k]
        BY <1>0, <2>1, TopIs
      <4> QED BY <2>1, <4>1, <4>2, AtIs DEF InHandler, Handler, IInv
    <3> QED BY <2>1, <3>1 DEF restart_timers, In, InMain, signals
  <2> QED BY <2>1 DEF virtual_wakeup_call, free_timer, timeout_proc, handler_returns, DeliverVirtual,
                      signals
<1>2. /\ Handler' = "pop" => Handler = "pop"
      /\ Freeing' => Freeing
      /\ Handler = "none" => Handler' = "none"
  <2>1. HandlersMove
    BY HandlerStep
  <2>2. ~DeliverAlarm /\ ~wakeup_call
    <3>1. ~DeliverAlarm
      BY <1>1 DEF DeliverAlarm
    <3>2. ~wakeup_call
      <4>1. SUFFICES ASSUME wakeup_call PROVE FALSE
        OBVIOUS
      <4>2. active # Null /\ active' = next[active]
        BY <4>1 DEF wakeup_call
      <4>3. active' = active /\ next[active] # active
        <5>1. active \in Listed
          BY <4>2, ListIs
        <5> QED BY <1>0, <4>2, <5>1, ListIs DEF FirstTwoStay
      <4> QED BY <4>2, <4>3
    <3> QED BY <3>1, <3>2
  <2>3. CASE HandlersStay
    BY <2>3 DEF HandlersStay, Handler, Freeing
  <2>4. \/ HandlersStay \/ Handler' = Handler
        \/ Handler = "link" /\ Handler' = "push"
        \/ Handler = "push" /\ Handler' = "alarm"
        \/ Handler = "alarm" /\ Handler' = "vtest"
        \/ Handler = "vtest" /\ Handler' \in {"varm", "done"}
        \/ Handler = "varm" /\ Handler' = "done"
        \/ Handler = "done" /\ Handler' = "none"
    BY <2>1, <2>2 DEF HandlersMove
  <2> QED BY <2>3, <2>4 DEF Freeing
<1>3. /\ main'.pc = "ignore" => main.pc = "ignore"
      /\ Blind' => Blind
      /\ main'.pc = "alarm" <=> main.pc = "alarm"
  <2>1. CASE main' = main
    BY <2>1 DEF Blind, Call
  <2>2. CASE timeout_proc
    <3>1. main'.pc = "except"
      BY <1>0, <2>2 DEF timeout_proc, TypeOK, Programs
    <3>2. main.pc # "alarm"
      <4>1. PICK k \in DOMAIN frames : k = Len(frames) /\ Top = frames[k]
        BY <1>0, <2>2, TopIs DEF timeout_proc, InHandler
      <4>2. Handler = "done"
        BY <2>2, <4>1, AtIs DEF timeout_proc, InHandler, Handler, IInv
      <4> QED BY <4>2 DEF AlarmOK, Quiet
    <3> QED BY <3>1, <3>2 DEF Blind
  <2>3. CASE handler_returns /\ main.pc = "idle" /\ main.in = "pause"
    <3>1. main'.pc = "idle"
      BY <1>0, <2>3 DEF handler_returns, TypeOK, Programs
    <3> QED BY <2>3, <3>1 DEF Blind
  <2>4. main' = main \/ timeout_proc \/ (handler_returns /\ main.pc = "idle" /\ main.in = "pause")
    BY DEF virtual_wakeup_call, free_timer, handler_returns, DeliverVirtual, restart_timers, MoveTo
  <2> QED BY <2>1, <2>2, <2>3, <2>4
<1> QED
  BY <1>0, <1>1, <1>2, <1>3 DEF Calm

\* stop_timers() takes the alarm back, then the signal.
LEMMA StopAlarm ==
  ASSUME IInv, AlarmOK, stop_timers, ListStays, MainMoves
  PROVE  AlarmOK'
<1>0. FirstTwoStay /\ now \in Int
  BY StayFirst, TimesAre
<1>h. frames = <<>> /\ frames' = frames /\ now' = now /\ Handler = "none" /\ Handler' = "none"
  BY AtNone DEF stop_timers, InMain, Handler
<1>1. CASE InMain("stop") /\ alarm' = Null /\ Goto("ignore") /\ pend' = pend
  <2>1. main'.pc = "ignore"
    BY <1>1, MainGoes DEF IInv
  <2>2. pend => FirstBy(now)
    BY DEF AlarmOK
  <2>3. FirstBy(now)' <=> FirstBy(now)
    BY <1>0, <1>h DEF FirstBy, FirstTwoStay
  <2>4. ~Blind'
    BY <2>1 DEF Blind
  <2> QED BY <1>h, <1>1, <2>1, <2>2, <2>3, <2>4 DEF AlarmOK, Freeing
<1>2. CASE /\ InMain("ignore") /\ pend' = FALSE /\ alarm' = alarm
           /\ Goto(IF Call.op = "setv" THEN "test" ELSE "edit")
  <2>1. main.pc = "ignore" /\ main'.pc \in {"test", "edit"}
    BY <1>2, MainGoes DEF IInv, InMain
  <2>2. alarm # Null => /\ alarm \in Int /\ alarm > now /\ active # Null /\ data[active].when = alarm
                        /\ FirstBy(alarm)
    BY <2>1 DEF AlarmOK
  <2>3. FirstBy(alarm)' <=> FirstBy(alarm)
    BY <1>0, <1>2 DEF FirstBy, FirstTwoStay
  <2>4. Quiet'
    BY <1>2, <1>h DEF Quiet
  <2>5. alarm' # Null => alarm' > now' /\ active' # Null /\ data'[active'].when = alarm'
    BY <1>0, <1>2, <1>h, <2>2 DEF FirstTwoStay
  <2> QED BY <1>h, <1>2, <2>1, <2>2, <2>3, <2>4, <2>5 DEF AlarmOK, Freeing
<1> QED
  BY <1>1, <1>2 DEF stop_timers

\* Between stop_timers() and restart_timers() no SIGALRM comes.
LEMMA EditAlarm ==
  ASSUME IInv, Sorted, AlarmOK, MainMoves, ListMoves,
         \/ insert_timer \/ remove_timer
         \/ fill_timer /\ Call.op = "setv" /\ ListStays
  PROVE  AlarmOK'
<1>0. TypeOK /\ Flow /\ now \in Int
  BY TimesAre DEF IInv
<1>h. /\ frames = <<>> /\ frames' = frames /\ now' = now /\ Handler' = "none"
      /\ alarm' = alarm /\ pend' = pend
  BY AtNone DEF insert_timer, remove_timer, fill_timer, InMain, Handler, Then, signals
<1>1. Blind /\ main'.pc = "alarm"
  <2>1. CASE insert_timer \/ remove_timer
    BY <1>0, <2>1, MainGoes DEF insert_timer, remove_timer, InMain, Then, Blind
  <2>2. CASE fill_timer /\ Call.op = "setv"
    BY <1>0, <2>2, MainGoes DEF fill_timer, InMain, Then, Blind, Flow
  <2> QED BY <2>1, <2>2
<1>2. /\ ~pend
      /\ alarm # Null => alarm \in Int /\ alarm > now /\ active # Null /\ data[active].when = alarm
  BY <1>1 DEF AlarmOK, Quiet
<1>3. ASSUME alarm # Null
      PROVE  active' = Null \/ data'[active'].when > now \/ SecondBy(alarm)'
  <2>0. active # Null /\ data[active].when = alarm /\ alarm > now /\ alarm \in Int
    BY <1>2, <1>3
  <2>1. CASE ListStays
    <3>1. active' = active /\ data'[active].when = data[active].when
      BY <2>0, <2>1, StayFirst DEF FirstTwoStay
    <3> QED BY <2>0, <3>1
  <2>2. CASE insert_timer /\ Inserted(main.this)
    <3>1. data' = data
      BY <2>2 DEF Inserted
    <3>2. CASE active' = active
      BY <2>0, <3>1, <3>2
    <3>3. CASE active' = main.this /\ next'[main.this] = active
      <4>1. SecondBy(alarm)'
        BY <1>h, <2>0, <3>1, <3>3 DEF SecondBy
      <4> QED BY <4>1
    <3> QED BY <2>2, <3>2, <3>3 DEF Inserted
  <2>3. CASE \E n \in Listed : Unlinked(n)
    <3>1. data' = data
      BY <2>3 DEF Unlinked
    <3>2. CASE active' = active
      BY <2>0, <3>1, <3>2
    <3>3. CASE active' = next[active]
      <4>1. SUFFICES ASSUME next[active] # Null PROVE data[next[active]].when > now
        BY <3>1, <3>3
      <4>2. active \in Listed
        BY <2>0, ListIs
      <4>3. data[active].when <= data[next[active]].when
        BY <4>1, <4>2 DEF Sorted
      <4>4. data[next[active]].when \in Int
        BY <2>0, <4>1, TimesAre
      <4> QED BY <1>0, <2>0, <4>3, <4>4
    <3> QED BY <2>3, <3>2, <3>3 DEF Unlinked
  <2>4. ListStays \/ (insert_timer /\ Inserted(main.this)) \/ \E n \in Listed : Unlinked(n)
    <3>1. ~Wakes
      BY <1>h DEF Wakes, InHandler
    <3> QED BY <3>1 DEF ListMoves
  <2> QED BY <2>1, <2>2, <2>3, <2>4
<1>4. Quiet'
  BY <1>2, <1>h DEF Quiet
<1>5. ~Blind'
  BY <1>1 DEF Blind
<1> QED
  BY <1>1, <1>2, <1>3, <1>4, <1>5, <1>h DEF AlarmOK, Freeing

\* restart_timers() asks for SIGALRM when the first timer is due, or at once.
LEMMA RestartAlarm ==
  ASSUME IInv, IInv', AlarmOK, restart_timers, ~Crash, MainMoves, ListStays,
         \/ frames = <<>> /\ main.pc = "alarm"
         \/ frames # <<>> /\ Handler = "alarm"
  PROVE  AlarmOK'
<1>0. TypeOK /\ FramesOK /\ FirstTwoStay /\ now \in Int
  BY StayFirst, TimesAre DEF IInv
<1>i. In("alarm") /\ MoveTo("vtest") /\ UNCHANGED <<lists, now>>
      /\ \/ active = Null /\ UNCHANGED <<alarm, pend>>
         \/ active # Null /\ now < data[active].when /\ alarm' = data[active].when /\ UNCHANGED pend
         \/ active # Null /\ now >= data[active].when /\ pend' = TRUE /\ UNCHANGED alarm
  <2>1. ~In("vtest") /\ ~In("varm")
    <3>1. CASE frames = <<>>
      BY <3>1 DEF In, InMain, InHandler
    <3>2. CASE frames # <<>> /\ Handler = "alarm"
      <4>1. SUFFICES ASSUME NEW pc, InHandler("alrm", pc) PROVE pc = "alarm"
        BY <3>2 DEF In, InMain
      <4>2. PICK k \in DOMAIN frames : k = Len(frames) /\ Top = frames[k]
        BY <1>0, <3>2, TopIs
      <4> QED BY <1>0, <3>2, <4>1, <4>2, AtIs DEF InHandler, Handler
    <3> QED BY <3>1, <3>2
  <2> QED BY <2>1 DEF restart_timers
<1>l. active' = active /\ next' = next /\ data' = data /\ now' = now
  BY <1>i DEF lists
<1>h. /\ Handler \in {"none", "alarm"} /\ Handler' \in {"none", "vtest"}
      /\ main'.pc # "alarm" /\ ~Blind'
      /\ main'.pc = "ignore" => main.pc = "ignore" /\ Freeing
      /\ main.pc = "alarm" \/ Freeing
  <2>1. CASE frames = <<>>
    <3>1. main.pc = "alarm" /\ Goto("vtest") /\ frames' = <<>>
      BY <1>i, <2>1 DEF MoveTo
    <3>2. main'.pc = "vtest"
      BY <1>0, <3>1, MainGoes
    <3>3. ~Blind'
      BY <3>2 DEF Blind
    <3> QED BY <2>1, <3>1, <3>2, <3>3, AtNone DEF Handler
  <2>2. CASE frames # <<>>
    <3>1. InHandler("alrm", "alarm") /\ TopGoto("vtest") /\ main' = main
      BY <1>i, <2>2 DEF In, InMain, MoveTo
    <3>2. Handler = "alarm" /\ Handler' = "vtest"
      BY <2>2, <3>1, AtGoto DEF InHandler, Handler
    <3>3. ~Quiet /\ Freeing
      BY <3>2 DEF Quiet, Freeing
    <3>4. main.pc # "alarm" /\ ~Blind
      BY <3>3 DEF AlarmOK
    <3>5. ~Blind'
      BY <3>1, <3>4 DEF Blind, Call
    <3> QED BY <3>1, <3>2, <3>3, <3>4, <3>5
  <2> QED BY <2>1, <2>2
<1>n. ~Freeing' /\ Handler' # "pop"
  BY <1>h DEF Freeing
<1>t. active # Null => data[active].when \in Int
  BY TimesAre
<1>p. pend => FirstBy(now)
  BY DEF AlarmOK
<1>1. CASE active = Null /\ UNCHANGED <<alarm, pend>>
  <2>1. \A t : (active' = Null \/ data'[active'].when <= t)
    BY <1>1, <1>l
  <2>2. FirstBy(now)' /\ FirstBy(alarm)' /\ SecondBy(alarm)'
    BY <1>1, <1>l DEF FirstBy, SecondBy
  <2>3. alarm' # Null => alarm' \in Int
    BY <1>1 DEF AlarmOK
  <2>4. main'.pc = "ignore" => alarm = Null
    <3>1. SUFFICES ASSUME main'.pc = "ignore", alarm # Null PROVE FALSE
      OBVIOUS
    <3> QED BY <1>h, <3>1 DEF AlarmOK
  <2> QED BY <1>1, <1>h, <1>n, <2>2, <2>3, <2>4 DEF AlarmOK
<1>2. CASE active # Null /\ now < data[active].when /\ alarm' = data[active].when /\ UNCHANGED pend
  <2>1. ~pend
    BY <1>0, <1>2, <1>p, <1>t DEF FirstBy
  <2>2. alarm' \in Int /\ alarm' > now' /\ data'[active'].when = alarm' /\ active' # Null
    BY <1>0, <1>2, <1>l, <1>t
  <2>3. FirstBy(alarm)'
    BY <2>2 DEF FirstBy
  <2> QED BY <1>2, <1>h, <1>n, <2>1, <2>2, <2>3 DEF AlarmOK
<1>3. CASE active # Null /\ now >= data[active].when /\ pend' = TRUE /\ UNCHANGED alarm
  <2>1. FirstBy(now)'
    BY <1>0, <1>3, <1>l, <1>t DEF FirstBy
  <2>2. ASSUME alarm # Null
        PROVE  alarm \in Int /\ FirstBy(alarm)' /\ SecondBy(alarm)' /\ main'.pc # "ignore"
    <3>0. alarm \in Int
      BY <2>2 DEF AlarmOK
    <3>1. CASE main.pc = "alarm"
      <4>1. alarm > now /\ (data[active].when > now \/ SecondBy(alarm))
        BY <1>3, <2>2, <3>1 DEF AlarmOK
      <4>2. SecondBy(alarm) /\ data[active].when <= alarm
        BY <1>0, <1>3, <1>t, <3>0, <4>1
      <4>3. SecondBy(alarm)' /\ FirstBy(alarm)'
        BY <1>3, <1>l, <4>2 DEF SecondBy, FirstBy
      <4> QED BY <1>h, <3>0, <3>1, <4>3
    <3>2. CASE main.pc # "alarm"
      <4>1. Freeing
        BY <1>h, <3>2
      <4>2. FirstBy(alarm) /\ (active = Null \/ next[active] = Null) /\ main.pc # "ignore"
        BY <2>2, <3>2, <4>1 DEF AlarmOK
      <4>3. SecondBy(alarm)' /\ FirstBy(alarm)'
        BY <1>3, <1>l, <4>2 DEF SecondBy, FirstBy
      <4> QED BY <1>h, <3>0, <4>2, <4>3
    <3> QED BY <3>1, <3>2
  <2> QED BY <1>3, <1>h, <1>n, <2>1, <2>2 DEF AlarmOK
<1> QED
  BY <1>i, <1>1, <1>2, <1>3

\* The handler takes the first timer, which is due; another SIGALRM is for the second.
LEMMA WakeAlarm ==
  ASSUME IInv, AlarmOK, AtMostTwo, Wakes, Handler = "pop", Handler' = "link"
  PROVE  AlarmOK'
<1>0. /\ active # Null /\ active' = next[active] /\ next' = next /\ data' = data
      /\ alarm' = alarm /\ pend' = pend /\ now' = now /\ main' = main
  BY DEF Wakes, Unlinked, signals
<1>1. ~Quiet /\ ~Blind /\ main.pc # "alarm" /\ ~Blind'
  <2>1. ~Quiet
    BY DEF Quiet
  <2>2. ~Blind /\ main.pc # "alarm"
    BY <2>1 DEF AlarmOK
  <2> QED BY <1>0, <2>1, <2>2 DEF Blind, Call
<1>2. pend => alarm = Null /\ FirstBy(now)'
  <2>1. pend => alarm = Null /\ SecondBy(now)
    BY DEF AlarmOK
  <2> QED BY <1>0, <2>1 DEF SecondBy, FirstBy
<1>3. alarm # Null => alarm \in Int /\ FirstBy(alarm)' /\ main.pc # "ignore"
  <2>1. alarm # Null => alarm \in Int /\ SecondBy(alarm) /\ main.pc # "ignore"
    BY DEF AlarmOK
  <2> QED BY <1>0, <2>1 DEF SecondBy, FirstBy
<1>4. active' = Null \/ next'[active'] = Null
  <2>1. SUFFICES ASSUME next[active] # Null, next[next[active]] # Null PROVE FALSE
    BY <1>0
  <2>2. /\ active \in Listed /\ next[active] \in Listed /\ next[active] # active
        /\ next[next[active]] \in Listed /\ next[next[active]] # next[active]
    BY <1>0, <2>1, ListIs
  <2>3. next[next[active]] = active
    BY <2>2 DEF AtMostTwo
  <2>4. {active, next[active]} \in SUBSET Nodes /\ {active, next[active]} # {}
    BY <2>2, ListIs
  <2>5. \E n \in {active, next[active]} : next[n] \notin {active, next[active]}
    BY <2>4 DEF IInv, Acyclic
  <2> QED BY <2>3, <2>5
<1> QED
  BY <1>0, <1>1, <1>2, <1>3, <1>4 DEF AlarmOK

\* SIGALRM comes.
LEMMA DeliveredAlarm ==
  ASSUME IInv, AlarmOK, DeliverAlarm, ListStays, Handler = "none", Handler' = "pop"
  PROVE  AlarmOK'
<1>0. FirstTwoStay /\ pend /\ pend' = FALSE /\ now' = now /\ alarm' = alarm /\ main' = main
  BY StayFirst DEF DeliverAlarm
<1>1. ~Quiet /\ ~Blind /\ main.pc # "alarm" /\ ~Blind' /\ ~Freeing'
  <2>1. ~Quiet
    BY <1>0 DEF Quiet
  <2>2. ~Blind /\ main.pc # "alarm"
    BY <2>1 DEF AlarmOK
  <2> QED BY <1>0, <2>1, <2>2 DEF Blind, Call, Freeing
<1>2. /\ FirstBy(now)' <=> FirstBy(now)
      /\ FirstBy(alarm)' <=> FirstBy(alarm)
      /\ SecondBy(alarm)' <=> SecondBy(alarm)
  BY <1>0 DEF FirstBy, SecondBy, FirstTwoStay
<1> QED
  BY <1>0, <1>1, <1>2 DEF AlarmOK

\* A second passes, or the alarm is due.
LEMMA ClocksAlarm ==
  ASSUME IInv, AlarmOK, Tick \/ AlarmExpires, ListStays
  PROVE  AlarmOK'
<1>0. /\ FirstTwoStay /\ now \in Int /\ main' = main /\ Handler' = Handler /\ (Freeing' <=> Freeing)
      /\ active # Null => /\ data[active].when \in Int
                          /\ next[active] # Null => data[next[active]].when \in Int
  BY StayFirst, TimesAre, AloneStays DEF Tick, AlarmExpires
<1>b. Blind' <=> Blind
  BY <1>0 DEF Blind, Call
<1>1. CASE Tick
  <2>1. now' = now + 1 /\ alarm' = alarm /\ pend' = pend
    BY <1>1 DEF Tick, signals
  <2>2. main.pc \notin {"ignore", "edit", "alarm"} /\ ~Blind
    BY <1>1 DEF Tick, Prompt, Blind
  <2>3. /\ FirstBy(now) => FirstBy(now)'
        /\ FirstBy(alarm)' <=> FirstBy(alarm)
        /\ SecondBy(now) => SecondBy(now)'
        /\ SecondBy(alarm)' <=> SecondBy(alarm)
        /\ (active = Null \/ next[active] = Null) => (active' = Null \/ next'[active'] = Null)
    BY <1>0, <2>1 DEF FirstBy, SecondBy, FirstTwoStay
  <2> QED BY <1>0, <1>b, <2>1, <2>2, <2>3 DEF AlarmOK
<1>2. CASE AlarmExpires
  <2>1. alarm # Null /\ alarm <= now /\ alarm' = Null /\ pend' = TRUE /\ now' = now /\ alarm \in Int
    BY <1>2 DEF AlarmExpires, AlarmOK
  <2>2. ~Blind /\ main.pc # "alarm" /\ main.pc # "ignore"
    <3>1. ~(alarm > now)
      BY <1>0, <2>1
    <3> QED BY <2>1, <3>1 DEF AlarmOK
  <2>3. FirstBy(now)'
    <3>1. FirstBy(alarm)
      BY <2>1, <2>2 DEF AlarmOK
    <3> QED BY <1>0, <2>1, <3>1 DEF FirstBy, FirstTwoStay
  <2>4. Handler = "pop" => SecondBy(now)'
    <3>1. Handler = "pop" => SecondBy(alarm)
      BY <2>1 DEF AlarmOK
    <3> QED BY <1>0, <2>1, <3>1 DEF SecondBy, FirstTwoStay
  <2> QED BY <1>0, <1>b, <2>1, <2>2, <2>3, <2>4 DEF AlarmOK
<1> QED
  BY <1>1, <1>2

\* SIGALRM never comes before the first timer is due.
LEMMA AlarmStep ==
  ASSUME IInv, IInv', Sorted, AlarmOK, AtMostTwo, Next, ListMoves
  PROVE  AlarmOK'
<1>m. MainMoves /\ HandlersMove
  BY MainStep, HandlerStep
<1>1. CASE Crash /\ ListStays
  BY <1>1, MainIsCalm, CalmKeeps
<1>2. CASE insert_timer \/ remove_timer
  BY <1>2, <1>m, EditAlarm
<1>3. CASE Wakes
  <2>1. InHandler("alrm", "pop") /\ TopHolds("link", active) /\ active \in Nodes /\ TypeOK /\ frames # <<>>
    BY <1>3 DEF Wakes, InHandler, IInv, TypeOK, Ref
  <2>2. Handler = "pop" /\ Handler' = "link"
    BY <2>1, AtTakes DEF InHandler, Handler
  <2> QED BY <1>3, <2>2, WakeAlarm
<1>4. CASE Untouched /\ ListStays /\ ~Crash
  <2>1. CASE \/ Callers \/ allocate_timer \/ virtual_timer_is_set \/ Return \/ pause \/ reenable_timers
             \/ fill_timer /\ Call.op = "set"
             \/ restart_timers /\ frames = <<>> /\ main.pc # "alarm"
             \/ VirtualRuns
    BY <1>4, <2>1, MainIsCalm, CalmKeeps
  <2>2. CASE \/ virtual_wakeup_call \/ free_timer \/ timeout_proc \/ handler_returns \/ DeliverVirtual
             \/ restart_timers /\ frames # <<>> /\ Handler # "alarm"
    BY <1>4, <2>2, HandlerIsCalm, CalmKeeps
  <2>3. CASE fill_timer /\ Call.op # "set"
    <3>1. Call.op = "setv"
      <4>1. TypeOK /\ Flow /\ main.pc = "fill"
        BY <2>3 DEF fill_timer, InMain, IInv
      <4>2. main.todo # <<>> /\ main.pc \in Steps(Call.op) /\ Call.op \in Ops
        BY <4>1, CallIs DEF Flow, Requests
      <4> QED BY <2>3, <4>1, <4>2, StepsAre DEF Ops
    <3> QED BY <1>4, <1>m, <2>3, <3>1, EditAlarm
  <2>4. CASE stop_timers
    BY <1>4, <1>m, <2>4, StopAlarm
  <2>5. CASE \/ restart_timers /\ frames = <<>> /\ main.pc = "alarm"
             \/ restart_timers /\ frames # <<>> /\ Handler = "alarm"
    BY <1>4, <1>m, <2>5, RestartAlarm
  <2>6. CASE DeliverAlarm
    <3>1. "alrm" \notin mask /\ frames' = Append(frames, Frame("alrm"))
      BY <2>6 DEF DeliverAlarm
    <3>2. Handler = "none" /\ Handler' = "pop"
      BY <3>1, AtStarts DEF Handler
    <3> QED BY <1>4, <2>6, <3>2, DeliveredAlarm
  <2>7. CASE Tick \/ AlarmExpires
    BY <1>4, <2>7, ClocksAlarm
  <2> QED BY <1>4, <2>1, <2>2, <2>3, <2>4, <2>5, <2>6, <2>7 DEF Untouched, virtual_timer_is_null
<1> QED
  BY <1>1, <1>2, <1>3, <1>4 DEF ListMoves

-----------------------------------------------------------------------------
(* The timers are an alarm clock. *)

\* Before the first set_timer() nothing is set and nothing is due.
LEMMA InitClockInv == Init => CInv
<1>1. SUFFICES ASSUME Init PROVE CInv
  OBVIOUS
<1>2. IInv
  BY <1>1, InitInv
<1>3. Listed = {}
  BY <1>1, <1>2, ChainOfNull DEF Init, Listed, IInv, TypeOK
<1>4. active = Null /\ alarm = Null /\ pend = FALSE /\ frames = <<>>
  BY <1>1 DEF Init
<1>5. PICK s \in Intervals :
        main = [in |-> "loop", pc |-> "test", todo |-> <<set_timer(s, "checkpoint")>>, this |-> Null,
                ids |-> [p \in Procs |-> -1]]
  BY <1>1 DEF Init
<1>6. main.in = "loop" /\ main.pc = "test" /\ Len(main.todo) = 1 /\ Call.op = "set"
  BY <1>5 DEF set_timer, Call
<1>7. Sorted /\ AtMostTwo /\ AtMostOne
  BY <1>3 DEF Sorted, AtMostTwo, AtMostOne
<1>8. IdsGiven /\ CheckpointOK
  BY <1>3, <1>6 DEF IdsGiven, CheckpointOK
<1>9. NoneOK
  BY <1>3, <1>6, <1>7 DEF NoneOK, Sleeping, LastOne
<1>10. AlarmOK
  <2>1. Handler = "none"
    BY <1>4, AtNone DEF Handler
  <2>2. ~Blind
    BY <1>6 DEF Blind
  <2> QED BY <1>4, <1>6, <2>1, <2>2 DEF AlarmOK, Freeing
<1> QED
  BY <1>2, <1>7, <1>8, <1>9, <1>10 DEF CInv

\* Each step keeps the list in order, and SIGALRM for a timer that is due.
LEMMA NextClockInv ==
  ASSUME CInv, IInv', Next
  PROVE  CInv'
<1>0. IInv /\ Sorted /\ IdsGiven /\ CheckpointOK /\ NoneOK /\ AlarmOK
  BY DEF CInv
<1>1. Sorted' /\ ListMoves
  BY <1>0, ListStep
<1>2. IdsGiven' /\ CheckpointOK' /\ NoneOK'
  BY <1>0, <1>1, IdsGivenStep, CheckpointStep, NoneStep
<1>3. AlarmOK'
  <2>1. AtMostTwo
    BY <1>0, ListIsShort
  <2> QED BY <1>0, <1>1, <2>1, AlarmStep
<1> QED
  BY <1>1, <1>2, <1>3 DEF CInv

\* So does a step in which nothing happens.
LEMMA StutterClockInv ==
  ASSUME CInv, IInv', UNCHANGED vars
  PROVE  CInv'
<1>0. IInv /\ Sorted /\ IdsGiven /\ CheckpointOK /\ NoneOK /\ AlarmOK
  BY DEF CInv
<1>1. /\ UNCHANGED <<next, data, active>> /\ main' = main /\ frames' = frames
      /\ UNCHANGED <<now, alarm, pend>>
  BY DEF vars, lists, signals
<1>2. Listed' = Listed /\ Call' = Call /\ (Setting' <=> Setting)
  BY <1>1 DEF Listed, Call, Setting
<1>3. Sorted' /\ (AtMostOne' <=> AtMostOne) /\ (AtMostTwo' <=> AtMostTwo)
  BY <1>0, <1>1, <1>2 DEF Sorted, AtMostOne, AtMostTwo
<1>4. IdsGiven'
  BY <1>0, <1>1, <1>2 DEF IdsGiven
<1>5. CheckpointOK'
  BY <1>0, <1>1, <1>2 DEF CheckpointOK, NoCheckpoint, CheckpointId
<1>6. Handler' = Handler /\ At("vtalrm")' = At("vtalrm")
  BY <1>1, AloneStays, SameFrames DEF HandlersStay
<1>7. NoneOK'
  BY <1>0, <1>1, <1>2, <1>3, <1>6 DEF NoneOK, Sleeping, LastOne
<1>8. AlarmOK'
  <2>1. ListStays
    BY <1>1, <1>2 DEF ListStays
  <2>2. Calm
    BY <1>0, <1>1, <1>2, <1>6, <2>1, StayFirst DEF Calm, Blind, Freeing
  <2> QED BY <1>0, <2>2, CalmKeeps
<1> QED
  BY <1>3, <1>4, <1>5, <1>7, <1>8 DEF CInv

\* Every step is of a process that is up.
LEMMA StepsAreUp ==
  ASSUME IInv, Next
  PROVE  up /\ (Crash \/ up' = up) /\ (Tick \/ now' = now)
<1>1. CASE Callers
  <2>1. CallersBegin
    BY <1>1, CallersDo DEF IInv
  <2> QED BY <2>1 DEF CallersBegin
<1>2. CASE allocate_timer \/ fill_timer \/ virtual_timer_is_set \/ stop_timers \/ insert_timer \/ remove_timer
  BY <1>2 DEF allocate_timer, fill_timer, virtual_timer_is_set, stop_timers, insert_timer, remove_timer,
              InMain, Then
<1>3. CASE restart_timers
  BY <1>3 DEF restart_timers, In, InMain, InHandler, Crash
<1>4. CASE Return \/ pause \/ reenable_timers \/ timeout_proc \/ handler_returns \/ free_timer
           \/ virtual_timer_is_null
  BY <1>4 DEF Return, pause, InCaller, reenable_timers, virtual_timer_is_null, Crash, timeout_proc, handler_returns, free_timer, InMain, InHandler
<1>5. CASE wakeup_call \/ virtual_wakeup_call
  BY <1>5 DEF wakeup_call, virtual_wakeup_call, InHandler, Crash
<1>6. CASE DeliverAlarm \/ DeliverVirtual \/ Tick \/ AlarmExpires \/ VirtualRuns
  BY <1>6 DEF DeliverAlarm, DeliverVirtual, Tick, AlarmExpires, VirtualRuns
<1> QED
  BY <1>1, <1>2, <1>3, <1>4, <1>5, <1>6 DEF Next, Statements

Pending == {data[n] : n \in Reach(active)}

\* Two timers that are set are not the same.
LEMMA TimersDiffer ==
  ASSUME IInv, IdsGiven, NEW m \in Listed, NEW n \in Nodes, data[m].id = data[n].id
  PROVE  m = n
<1>1. IdsOK /\ m \in Nodes
  BY ListIs DEF IInv
<1>2. data[m].id >= 0
  BY DEF IdsGiven
<1> QED
  BY <1>1, <1>2 DEF IdsOK

\* Each step of the program, of a handler or of a clock is one of the alarm clock.
LEMMA ClockStep ==
  ASSUME CInv, IInv', Next
  PROVE  Clock!Next \/ UNCHANGED <<Pending, now, up>>
<1>0. IInv /\ Sorted /\ IdsGiven /\ AlarmOK /\ Listed \in SUBSET Nodes
  BY ListIs DEF CInv
<1>1. ListMoves
  BY <1>0, ListStep
<1>2. Pending = {data[n] : n \in Listed} /\ Pending' = {data'[n] : n \in Listed'}
  BY DEF Pending, Reach, Listed
<1>3. ListStays => Pending' = Pending
  BY <1>2 DEF ListStays
<1>4. ASSUME NEW n \in Listed, Unlinked(n) PROVE Pending' = Pending \ {data[n]} /\ data[n] \in Pending
  <2>1. data' = data /\ Listed' = Listed \ {n}
    BY <1>4 DEF Unlinked
  <2>2. \A m \in Listed : data[m] = data[n] => m = n
    BY <1>0, TimersDiffer
  <2> QED BY <1>2, <2>1, <2>2
<1>5. up /\ (Crash \/ up' = up) /\ (Tick \/ now' = now)
  BY <1>0, StepsAreUp
<1>6. CASE ListStays
  <2>1. CASE Crash
    <3>1. up /\ up' = FALSE /\ now' = now
      BY <1>5, <2>1 DEF Crash
    <3>2. Clock!Die
      BY <1>3, <1>6, <3>1 DEF Clock!Die, Pending
    <3> QED BY <3>2 DEF Clock!Next
  <2>2. CASE Tick
    <3>1. Clock!Tick
      BY <1>3, <1>6, <2>2 DEF Tick, Clock!Tick, Pending
    <3> QED BY <3>1 DEF Clock!Next
  <2>3. CASE ~Crash /\ ~Tick
    BY <1>3, <1>5, <1>6, <2>3
  <2> QED BY <2>1, <2>2, <2>3
<1>7. CASE insert_timer /\ Inserted(main.this)
  <2>1. data' = data /\ Listed' = Listed \cup {main.this} /\ main.this \in Nodes \ Listed
    BY <1>7 DEF Inserted
  <2>2. Pending' = Pending \cup {data[main.this]}
    BY <1>2, <2>1
  <2>3. data[main.this].id \notin {p.id : p \in Pending}
    <3>1. \A m \in Listed : data[m].id # data[main.this].id
      BY <1>0, <2>1, TimersDiffer
    <3> QED BY <1>2, <3>1
  <2>4. UNCHANGED <<now, up>>
    BY <1>7 DEF insert_timer, Then
  <2>5. data[main.this] \in Pending'
    BY <2>2
  <2>6. Clock!Set
    BY <2>2, <2>3, <2>4, <2>5 DEF Clock!Set, Pending
  <2> QED BY <2>6 DEF Clock!Next
<1>8. CASE remove_timer /\ \E n \in Listed : Unlinked(n)
  <2>1. PICK n \in Listed : Unlinked(n)
    BY <1>8
  <2>2. UNCHANGED <<now, up>>
    BY <1>8 DEF remove_timer, Then
  <2>3. Clock!Cancel
    BY <1>4, <2>1, <2>2 DEF Clock!Cancel, Pending
  <2> QED BY <2>3 DEF Clock!Next
<1>9. CASE Wakes
  <2>1. active \in Listed /\ active # Null /\ Unlinked(active) /\ UNCHANGED <<now, up>>
    BY <1>9 DEF Wakes, Unlinked
  <2>2. Handler = "pop"
    <3>1. InHandler("alrm", "pop") /\ TopHolds("link", active) /\ active \in Nodes /\ frames # <<>>
      BY <1>0, <1>9, <2>1 DEF Wakes, InHandler
    <3> QED BY <1>0, <3>1, AtTakes DEF InHandler, Handler
  <2>3. data[active].when <= now
    BY <2>1, <2>2, <1>0 DEF AlarmOK, FirstBy
  <2>4. \A n \in Listed : data[active].when <= data[n].when
    BY <1>0, <2>1, FirstIsLeast
  <2>5. \A p \in Pending : data[active].when <= p.when
    BY <1>2, <2>4
  <2>6. Clock!Fire
    BY <1>4, <1>5, <2>1, <2>3, <2>5 DEF Clock!Fire, Pending
  <2> QED BY <2>6 DEF Clock!Next
<1> QED
  BY <1>1, <1>6, <1>7, <1>8, <1>9 DEF ListMoves

\* timers.c implements the alarm clock that timers.h promises, up to the fairness of its
\* liveness: a timer that is set is there until it is cancelled or fires, nothing fires
\* before it is due or before one that is due earlier, and no handler, whatever it
\* interrupts, loses a timer or brings one back.
THEOREM ClockIsSafe == Spec => Clock!Safety
<1>1. Init => CInv /\ Clock!Init
  <2>1. SUFFICES ASSUME Init PROVE Clock!Init
    BY InitClockInv
  <2>2. Listed = {}
    BY <2>1, InitInv, ChainOfNull DEF Init, Listed, IInv, TypeOK
  <2> QED BY <2>1, <2>2 DEF Init, Clock!Init, Reach, Listed
<1>2. CInv /\ IInv' /\ [Next]_vars => CInv'
  BY NextClockInv, StutterClockInv
<1>3. CInv /\ IInv' /\ [Next]_vars => [Clock!Next]_(Clock!clock)
  <2>1. SUFFICES ASSUME CInv, IInv', [Next]_vars PROVE [Clock!Next]_(Clock!clock)
    OBVIOUS
  <2>2. CASE Next
    BY <2>1, <2>2, ClockStep DEF Clock!clock, Pending
  <2>3. CASE UNCHANGED vars
    <3>1. UNCHANGED <<next, data, active, now, up>>
      BY <2>3 DEF vars, lists
    <3> QED BY <3>1 DEF Clock!clock, Reach
  <2> QED BY <2>1, <2>2, <2>3
<1>4. Spec => []IInv
  BY TimersInvariant
<1> QED
  BY <1>1, <1>2, <1>3, <1>4, PTL DEF Spec, Clock!Safety
=============================================================================
