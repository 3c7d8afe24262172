------------------------------ MODULE QueueProofs ------------------------------
(***************************************************************************)
(* Proofs about the lists of task queues and the connections wired to      *)
(* them: every operator of TaskQueues keeps the lists apart and the active *)
(* list in order, keeps one queue for a player, and keeps every open       *)
(* connection on its own connected queue, whatever number it goes by.      *)
(***************************************************************************)
EXTENDS TaskProofs, TLAPS, FiniteSetTheorems, SequenceTheorems

-----------------------------------------------------------------------------
(* The invariant of a state. *)

\* The active list names no queue twice and is in order of usage.
Sorted(S) ==
  \A i, j \in 1..Len(S.active) : i < j =>
    /\ S.active[i] # S.active[j]
    /\ S.tq[S.active[i]].usage <= S.tq[S.active[j]].usage

\* Every queue is on its list, except that those of X are being moved: they may be on
\* none and hold something.
Linked(S, X) ==
  /\ IsFiniteSet(S.idle)
  /\ S.idle \cap Elems(S.active) = {}
  /\ Sorted(S)
  /\ \A q \in S.idle : S.tq[q].usage = NO_USAGE
  /\ \A q \in Elems(S.active) : S.tq[q].usage >= 0
  /\ \A q \in Queues \ (Live(S) \cup X) : S.tq[q] = NewTQueue

\* find_tqueue() has no choice.
Single(S) ==
  \A q, r \in Live(S) :
    q # r /\ S.tq[q].player = S.tq[r].player => S.tq[q].player = NOTHING

\* An open connection and its queue name the same player, which is the connection's
\* own number until it logs in; no queue serves two connections, and a queue without
\* one is not connected.
Wired(S) ==
  /\ \A h \in Handles : S.sh[h].open =>
       /\ S.sh[h].tasks \in Live(S)
       /\ S.tq[S.sh[h].tasks].connected
       /\ S.tq[S.sh[h].tasks].player = S.sh[h].player
       /\ S.sh[h].player \in Players \cup {ConnId(h)}
  /\ \A g, h \in Handles :
       S.sh[g].open /\ S.sh[h].open /\ S.sh[g].tasks = S.sh[h].tasks => g = h
  /\ \A q \in Live(S) : S.tq[q].connected =>
       \E h \in Handles : S.sh[h].open /\ S.sh[h].tasks = q

Sound(S) == S \in Good /\ Linked(S, {}) /\ Single(S) /\ Wired(S)

-----------------------------------------------------------------------------
(* Sequences. *)

\* The elements a list is searched past are its first ones.
LEMMA PrefixIsInterval ==
  ASSUME NEW n \in Nat, NEW B \in SUBSET (1..n), \A i \in B : 1..i \subseteq B
  PROVE  Cardinality(B) \in 0..n /\ B = 1..Cardinality(B)
<1> DEFINE k == Cardinality(B)
<1>1. k \in 0..n
  BY PrefixLength
<1>2. IsFiniteSet(B)
  <2>1. IsFiniteSet(1..n)
    BY FS_Interval
  <2> QED
    BY <2>1, FS_Subset
<1>3. ASSUME NEW i \in B
      PROVE  i \in 1..k
  <2>1. i \in Nat /\ i >= 1 /\ (1..i) \in SUBSET B
    OBVIOUS
  <2>2. Cardinality(1..i) = i
    BY <2>1, FS_Interval
  <2>3. Cardinality(1..i) <= Cardinality(B)
    BY <1>2, <2>1, FS_Subset
  <2> QED
    BY <1>1, <2>1, <2>2, <2>3
<1>4. IsFiniteSet(1..k) /\ Cardinality(1..k) = k
  BY <1>1, FS_Interval
<1> HIDE DEF k
<1>5. B \in SUBSET (1..k) /\ Cardinality(B) = k
  BY <1>3 DEF k
<1>6. B = 1..k
  BY <1>4, <1>5, FS_Subset
<1> QED
  BY <1>1, <1>6 DEF k

\* What InsertAfter() returns, element by element.
LEMMA InsertAfterElements ==
  ASSUME NEW T, NEW s \in Seq(T), NEW k \in 0..Len(s), NEW e \in T
  PROVE  /\ InsertAfter(s, k, e) \in Seq(T)
         /\ Len(InsertAfter(s, k, e)) = Len(s) + 1
         /\ \A i \in 1..Len(s) + 1 :
              InsertAfter(s, k, e)[i] =
                IF i <= k THEN s[i] ELSE IF i = k + 1 THEN e ELSE s[i - 1]
<1> DEFINE a == SubSeq(s, 1, k)
           b == <<e>>
           c == SubSeq(s, k + 1, Len(s))
<1>1. Len(s) \in Nat /\ \A i \in 1..Len(s) : s[i] \in T
  OBVIOUS
<1>2. a \in Seq(T) /\ Len(a) = k /\ \A i \in 1..k : a[i] = s[i]
  BY <1>1, SubSeqProperties
<1>3. b \in Seq(T) /\ Len(b) = 1 /\ b[1] = e
  OBVIOUS
<1>4. c \in Seq(T) /\ Len(c) = Len(s) - k /\ \A i \in 1..Len(s) - k : c[i] = s[k + i]
  BY <1>1, SubSeqProperties
<1> HIDE DEF a, b, c
<1>5. /\ a \o b \in Seq(T) /\ Len(a \o b) = k + 1
      /\ \A i \in 1..k + 1 : (a \o b)[i] = IF i <= k THEN s[i] ELSE e
  <2>1. /\ a \o b \in Seq(T) /\ Len(a \o b) = Len(a) + Len(b)
        /\ \A i \in 1..Len(a) + Len(b) :
             (a \o b)[i] = IF i <= Len(a) THEN a[i] ELSE b[i - Len(a)]
    BY <1>2, <1>3, ConcatProperties
  <2>2. \A i \in 1..k + 1 : i > k => i - k = 1
    BY <1>1
  <2> QED
    BY <1>1, <1>2, <1>3, <2>1, <2>2
<1>6. /\ (a \o b) \o c \in Seq(T) /\ Len((a \o b) \o c) = Len(s) + 1
      /\ \A i \in 1..Len(s) + 1 :
           ((a \o b) \o c)[i] = IF i <= k + 1 THEN (a \o b)[i] ELSE c[i - (k + 1)]
  <2>1. /\ (a \o b) \o c \in Seq(T) /\ Len((a \o b) \o c) = Len(a \o b) + Len(c)
        /\ \A i \in 1..Len(a \o b) + Len(c) :
             ((a \o b) \o c)[i] =
               IF i <= Len(a \o b) THEN (a \o b)[i] ELSE c[i - Len(a \o b)]
    BY <1>4, <1>5, ConcatProperties
  <2>2. Len(a \o b) + Len(c) = Len(s) + 1
    BY <1>1, <1>4, <1>5
  <2> QED
    BY <1>5, <2>1, <2>2
<1>7. InsertAfter(s, k, e) = (a \o b) \o c
  BY DEF InsertAfter, a, b, c
<1>8. ASSUME NEW i \in 1..Len(s) + 1
      PROVE  ((a \o b) \o c)[i] =
               IF i <= k THEN s[i] ELSE IF i = k + 1 THEN e ELSE s[i - 1]
  <2>1. CASE i <= k + 1
    BY <1>1, <1>5, <1>6, <2>1
  <2>2. CASE i > k + 1
    <3>1. i - (k + 1) \in 1..Len(s) - k /\ ~(i <= k) /\ i # k + 1 /\ ~(i <= k + 1)
      BY <1>1, <2>2
    <3>2. PICK j \in 1..Len(s) - k : j = i - (k + 1)
      BY <3>1
    <3>3. k + j = i - 1
      BY <1>1, <3>2
    <3>4. ((a \o b) \o c)[i] = c[j]
      BY <1>6, <3>1, <3>2
    <3>5. c[j] = s[k + j]
      BY <1>4, <3>2, Zenon
    <3>6. ((a \o b) \o c)[i] = s[i - 1]
      BY <3>3, <3>4, <3>5, Zenon
    <3> QED
      BY <3>1, <3>6
  <2>3. i <= k + 1 \/ i > k + 1
    BY <1>1
  <2> QED
    BY <2>1, <2>2, <2>3, Zenon
<1> QED
  BY <1>6, <1>7, <1>8

\* r is s with q after the k-th element.
Inserted(r, s, k, q) ==
  /\ Len(r) = Len(s) + 1
  /\ \A i \in 1..Len(s) + 1 :
       r[i] = IF i <= k THEN s[i] ELSE IF i = k + 1 THEN q ELSE s[i - 1]

\* That is what InsertAfter() returns.
LEMMA InsertAfterInserted ==
  ASSUME NEW T, NEW s \in Seq(T), NEW k \in 0..Len(s), NEW e \in T
  PROVE  InsertAfter(s, k, e) \in Seq(T) /\ Inserted(InsertAfter(s, k, e), s, k, e)
BY InsertAfterElements DEF Inserted

\* The list has one element more.
LEMMA InsertedElems ==
  ASSUME NEW T, NEW s \in Seq(T), NEW k \in 0..Len(s), NEW e, NEW r, Inserted(r, s, k, e)
  PROVE  Elems(r) = Elems(s) \cup {e}
<1>0. k \in Nat /\ Len(s) \in Nat /\ k <= Len(s)
  OBVIOUS
<1>1. /\ Len(r) = Len(s) + 1 /\ Len(s) \in Nat
      /\ \A i \in 1..Len(s) + 1 :
           r[i] = IF i <= k THEN s[i] ELSE IF i = k + 1 THEN e ELSE s[i - 1]
  BY <1>0 DEF Inserted
<1>2. Len(r) = Len(s) + 1
  BY <1>1
<1>3. ASSUME NEW i \in 1..Len(r)
      PROVE  r[i] \in Elems(s) \cup {e}
  <2>1. i > k + 1 => i - 1 \in 1..Len(s)
    BY <1>1
  <2>2. i <= k => i \in 1..Len(s)
    BY <1>0, <1>2
  <2> QED
    BY <1>1, <2>1, <2>2 DEF Elems
<1>4. ASSUME NEW i \in 1..Len(s)
      PROVE  s[i] \in Elems(r)
  <2>1. CASE i <= k
    <3>1. i \in 1..Len(r) /\ r[i] = s[i]
      BY <1>1, <2>1
    <3> QED
      BY <3>1 DEF Elems
  <2>2. CASE i > k
    <3>1. i + 1 \in 1..Len(r) /\ r[i + 1] = s[i]
      BY <1>1, <2>2
    <3> QED
      BY <3>1 DEF Elems
  <2> QED
    BY <1>1, <2>1, <2>2
<1>5. e \in Elems(r)
  <2>1. k + 1 \in 1..Len(r) /\ r[k + 1] = e
    BY <1>1
  <2> QED
    BY <2>1 DEF Elems
<1> QED
  BY <1>3, <1>4, <1>5 DEF Elems

LEMMA InsertAfterElems ==
  ASSUME NEW T, NEW s \in Seq(T), NEW k \in 0..Len(s), NEW e \in T
  PROVE  Elems(InsertAfter(s, k, e)) = Elems(s) \cup {e}
BY InsertAfterInserted, InsertedElems

-----------------------------------------------------------------------------
(* The lists. *)

\* A list that names nothing twice, in order of use
Ascending(s, use) ==
  \A i, j \in 1..Len(s) : i < j => s[i] # s[j] /\ use[s[i]] <= use[s[j]]

\* The first k elements of s are used no more than q, and the next one is used more.
Splits(s, use, q, k) ==
  /\ \A i \in 1..Len(s) : s[i] # q
  /\ \A i \in 1..k : use[s[i]] <= use[q]
  /\ k < Len(s) => use[s[k + 1]] > use[q]

\* A queue inserted behind the last one of no higher usage leaves a list in order.
LEMMA InsertSorted ==
  ASSUME NEW s \in Seq(Queues), NEW q \in Queues, NEW use \in [Queues -> Int],
         NEW k \in 0..Len(s), NEW r,
         Ascending(s, use), Splits(s, use, q, k), Inserted(r, s, k, q)
  PROVE  Ascending(r, use)
<1> DEFINE n == Len(s)
<1>0. /\ n \in Nat /\ k \in 0..n /\ Len(r) = n + 1
      /\ \A i \in 1..n : s[i] # q /\ s[i] \in Queues
      /\ \A i, j \in 1..n : i < j => s[i] # s[j] /\ use[s[i]] <= use[s[j]]
      /\ \A i \in 1..k : use[s[i]] <= use[q]
      /\ k < n => use[s[k + 1]] > use[q]
      /\ \A i \in 1..n + 1 : r[i] = IF i <= k THEN s[i] ELSE IF i = k + 1 THEN q ELSE s[i - 1]
  BY SMTT(40) DEF Ascending, Splits, Inserted
<1> HIDE DEF n
<1>1. \A i \in 1..n : s[i] \in Queues /\ use[s[i]] \in Int
  BY <1>0
<1>2. use[q] \in Int
  BY <1>0
<1>3. \A i \in 1..n : i > k => use[q] <= use[s[i]]
  <2> SUFFICES ASSUME NEW i \in 1..n, i > k
               PROVE  use[q] <= use[s[i]]
    BY <1>0
  <2>1. k + 1 \in 1..n /\ k < n
    BY <1>0
  <2>2. use[s[k + 1]] > use[q] /\ use[s[k + 1]] \in Int /\ use[s[i]] \in Int
    BY <1>0, <1>1, <2>1
  <2>3. CASE i = k + 1
    BY <1>0, <1>2, <2>2, <2>3
  <2>4. CASE i # k + 1
    <3>1. k + 1 < i
      BY <1>0, <2>4
    <3>2. use[s[k + 1]] <= use[s[i]]
      BY <1>0, <2>1, <3>1
    <3> QED
      BY <1>0, <1>2, <2>2, <3>2
  <2> QED
    BY <1>0, <2>3, <2>4
<1>4. ASSUME NEW i \in 1..n + 1, NEW j \in 1..n + 1, i < j
      PROVE  r[i] # r[j] /\ use[r[i]] <= use[r[j]]
  <2>1. CASE j <= k
    <3>1. i \in 1..n /\ j \in 1..n /\ i <= k
      BY <1>0, <1>4, <2>1
    <3>2. r[i] = s[i] /\ r[j] = s[j]
      BY <1>0, <2>1, <3>1
    <3> QED
      BY <1>0, <1>4, <3>1, <3>2
  <2>2. CASE j = k + 1
    <3>1. i \in 1..k /\ i \in 1..n /\ ~(j <= k)
      BY <1>0, <1>4, <2>2
    <3>2. r[i] = s[i] /\ r[j] = q
      BY <1>0, <2>2, <3>1
    <3> QED
      BY <1>0, <3>1, <3>2
  <2>3. CASE j > k + 1
    <3>1. j - 1 \in 1..n /\ j - 1 > k /\ ~(j <= k) /\ j # k + 1
      BY <1>0, <2>3
    <3>2. r[j] = s[j - 1]
      BY <1>0, <3>1
    <3>3. CASE i <= k
      <4>1. i \in 1..n /\ i < j - 1
        BY <1>0, <3>1, <3>3
      <4>2. r[i] = s[i]
        BY <1>0, <3>3, <4>1
      <4> QED
        BY <1>0, <3>1, <3>2, <4>1, <4>2
    <3>4. CASE i = k + 1
      <4>1. r[i] = q
        BY <1>0, <3>4
      <4> QED
        BY <1>0, <1>3, <3>1, <3>2, <4>1
    <3>5. CASE i > k + 1
      <4>1. i - 1 \in 1..n /\ i - 1 < j - 1 /\ ~(i <= k) /\ i # k + 1
        BY <1>0, <1>4, <3>1, <3>5
      <4>2. r[i] = s[i - 1]
        BY <1>0, <4>1
      <4> QED
        BY <1>0, <3>1, <3>2, <4>1, <4>2
    <3> QED
      BY <1>0, <3>3, <3>4, <3>5
  <2> QED
    BY <1>0, <2>1, <2>2, <2>3
<1> QED
  BY <1>0, <1>4 DEF Ascending

\* The parts of a state that the lists are made of.
LEMMA ListTypes ==
  ASSUME NEW S \in Good
  PROVE  /\ S.active \in Seq(Queues)
         /\ Len(S.active) \in Nat
         /\ S.idle \in SUBSET Queues
         /\ \A i \in 1..Len(S.active) : S.active[i] \in Queues
         /\ \A q \in Queues : S.tq[q].usage \in Int
         /\ Elems(S.active) \subseteq Queues
         /\ Live(S) \subseteq Queues
<1>1. S.active \in Seq(Queues) /\ S.idle \in SUBSET Queues
  BY DEF Good, States
<1> QED
  BY <1>1, LiveType, QueueType, ElemsType

\* activate_tqueue() puts a queue that is on no list behind every queue of no
\* higher usage, and the list stays in order.
LEMMA ActivateSorted ==
  ASSUME NEW S \in Good, NEW q \in Queues, q \notin Elems(S.active), Sorted(S)
  PROVE  /\ Sorted(activate_tqueue(S, q))
         /\ Elems(activate_tqueue(S, q).active) = Elems(S.active) \cup {q}
         /\ \E list \in Seq(Queues) : activate_tqueue(S, q) = [S EXCEPT !.active = list]
<1> DEFINE B == {i \in 1..Len(S.active) :
                   \A j \in 1..i : S.tq[S.active[j]].usage <= S.tq[q].usage}
<1>1. PICK use \in [Queues -> Int] : \A p \in Queues : use[p] = S.tq[p].usage
  <2> DEFINE f == [p \in Queues |-> S.tq[p].usage]
  <2>1. f \in [Queues -> Int] /\ \A p \in Queues : f[p] = S.tq[p].usage
    BY ListTypes
  <2> QED
    BY <2>1
<1>2. PICK s : s = S.active
  OBVIOUS
<1>3. s \in Seq(Queues) /\ \A i \in 1..Len(s) : s[i] \in Queues /\ s[i] # q
  BY <1>2, ListTypes DEF Elems
<1>4. PICK n \in Nat : n = Len(s)
  BY <1>3
<1>5. \A i, j \in 1..n : i < j => s[i] # s[j] /\ use[s[i]] <= use[s[j]]
  <2> SUFFICES ASSUME NEW i \in 1..n, NEW j \in 1..n, i < j
               PROVE  s[i] # s[j] /\ use[s[i]] <= use[s[j]]
    OBVIOUS
  <2>1. s[i] # s[j] /\ S.tq[s[i]].usage <= S.tq[s[j]].usage
    BY <1>2, <1>4 DEF Sorted
  <2>2. s[i] \in Queues /\ s[j] \in Queues
    BY <1>3, <1>4
  <2> QED
    BY <1>1, <2>1, <2>2
<1>6. B = {i \in 1..n : \A j \in 1..i : use[s[j]] <= use[q]}
  <2>1. \A i \in 1..n : \A j \in 1..i : S.tq[S.active[j]].usage = use[s[j]]
    <3> SUFFICES ASSUME NEW i \in 1..n, NEW j \in 1..i
                 PROVE  S.tq[S.active[j]].usage = use[s[j]]
      OBVIOUS
    <3>1. j \in 1..n
      OBVIOUS
    <3> QED
      BY <1>1, <1>2, <1>3, <1>4, <3>1
  <2> QED
    BY <1>1, <1>2, <1>4, <2>1
<1> HIDE DEF B
<1>7. PICK k \in 0..n : k = Cardinality(B) /\ B = 1..k
  <2>1. B \in SUBSET (1..n)
    BY <1>6
  <2>2. \A i \in B : 1..i \subseteq B
    <3> SUFFICES ASSUME NEW i \in B, NEW j \in 1..i
                 PROVE  j \in B
      OBVIOUS
    <3>1. i \in 1..n /\ \A m \in 1..i : use[s[m]] <= use[q]
      BY <1>6
    <3>2. j \in 1..n /\ \A m \in 1..j : m \in 1..i
      BY <3>1
    <3> QED
      BY <1>6, <3>1, <3>2
  <2> QED
    BY <1>4, <2>1, <2>2, PrefixIsInterval
<1>8. \A i \in 1..k : use[s[i]] <= use[q]
  <2> TAKE i \in 1..k
  <2>1. i \in B
    BY <1>7
  <2>2. i \in 1..i
    OBVIOUS
  <2> QED
    BY <1>6, <2>1, <2>2
<1>9. k < n => use[s[k + 1]] > use[q]
  <2> SUFFICES ASSUME k < n, ~(use[s[k + 1]] > use[q])
               PROVE  FALSE
    OBVIOUS
  <2>1. k + 1 \in 1..n /\ k + 1 \notin 1..k
    OBVIOUS
  <2>2. use[s[k + 1]] <= use[q]
    BY <1>1, <1>3, <1>4, <2>1
  <2>3. \A j \in 1..k + 1 : use[s[j]] <= use[q]
    <3> TAKE j \in 1..k + 1
    <3>1. j \in 1..k \/ j = k + 1
      OBVIOUS
    <3> QED
      BY <1>8, <2>2, <3>1
  <2>4. k + 1 \in B
    BY <1>6, <2>1, <2>3
  <2> QED
    BY <1>7, <2>1, <2>4
<1>10. PICK r : r = InsertAfter(s, k, q)
  OBVIOUS
<1>11. /\ r \in Seq(Queues)
       /\ Len(r) = n + 1
       /\ \A i \in 1..n + 1 : r[i] = IF i <= k THEN s[i] ELSE IF i = k + 1 THEN q ELSE s[i - 1]
  <2>1. s \in Seq(Queues) /\ k \in 0..Len(s)
    BY <1>3, <1>4
  <2>2. r \in Seq(Queues) /\ Inserted(r, s, k, q)
    BY <1>10, <2>1, InsertAfterInserted
  <2> QED
    BY <1>4, <2>2 DEF Inserted
<1>12. Elems(r) = Elems(s) \cup {q}
  <2>1. s \in Seq(Queues) /\ k \in 0..Len(s)
    BY <1>3, <1>4
  <2> QED
    BY <1>10, <2>1, InsertAfterElems
<1>13. \A i, j \in 1..n + 1 : i < j => r[i] # r[j] /\ use[r[i]] <= use[r[j]]
  <2>1. \A i \in 1..n : s[i] # q
    BY <1>3, <1>4
  <2>2. s \in Seq(Queues)
    BY <1>3
  <2>3. Ascending(s, use)
    BY <1>4, <1>5 DEF Ascending
  <2>4. Splits(s, use, q, k)
    BY <1>4, <1>8, <1>9, <2>1 DEF Splits
  <2>5. Inserted(r, s, k, q)
    BY <1>4, <1>11 DEF Inserted
  <2>6. k \in 0..Len(s)
    BY <1>4
  <2>7. Ascending(r, use)
    BY <2>2, <2>3, <2>4, <2>5, <2>6, InsertSorted, SMTT(40)
  <2> QED
    BY <1>11, <2>7 DEF Ascending
<1>14. activate_tqueue(S, q) = [S EXCEPT !.active = r]
  BY <1>2, <1>7, <1>10 DEF activate_tqueue, B
<1>15. [S EXCEPT !.active = r].active = r /\ [S EXCEPT !.active = r].tq = S.tq
  BY DEF Good, States
<1>16. \A i \in 1..Len(r) : r[i] \in Queues
  BY <1>11
<1>17. Sorted(activate_tqueue(S, q))
  BY <1>1, <1>11, <1>13, <1>14, <1>15, <1>16 DEF Sorted
<1> QED
  BY <1>2, <1>11, <1>12, <1>14, <1>15, <1>17

-----------------------------------------------------------------------------
(* Steps that leave the names and the connections of the queues alone. *)

\* No queue or connection of S is renamed, connected or closed, though a queue may be
\* made.  The server gets no further than before only when addresses run out.
Stays(S, T) ==
  /\ Live(S) \subseteq Live(T)
  /\ \A q \in Live(S) : /\ T.tq[q].player = S.tq[q].player
                        /\ T.tq[q].connected = S.tq[q].connected
  /\ \A h \in Handles : /\ T.sh[h].open = S.sh[h].open
                        /\ T.sh[h].player = S.sh[h].player
                        /\ T.sh[h].tasks = S.sh[h].tasks
  /\ IsFiniteSet(Queues) \/ T.panic = S.panic

\* No queue is made either.
Same(S, T) == Stays(S, T) /\ Live(T) = Live(S)

\* The lists stay as they are.
Lists(S, T) ==
  /\ T.idle = S.idle
  /\ T.active = S.active
  /\ \A q \in Queues : T.tq[q].usage = S.tq[q].usage
  /\ \A q \in Queues \ Live(S) : T.tq[q] = S.tq[q]

Edit(S, T) == Stays(S, T) /\ Lists(S, T)

\* Several such steps in a row are one.
LEMMA StaysTrans ==
  ASSUME NEW S, NEW T, NEW U, Stays(S, T), Stays(T, U)
  PROVE  Stays(S, U)
BY DEF Stays

\* Likewise when no queue is made,
LEMMA SameTrans ==
  ASSUME NEW S, NEW T, NEW U, Same(S, T), Same(T, U)
  PROVE  Same(S, U)
BY StaysTrans DEF Same

\* and when the lists stay as they are.
LEMMA EditTrans ==
  ASSUME NEW S, NEW T, NEW U, Edit(S, T), Edit(T, U)
  PROVE  Edit(S, U)
BY StaysTrans DEF Edit, Lists, Live

\* A step that leaves the lists alone makes no queue.
LEMMA EditSame ==
  ASSUME NEW S, NEW T, Edit(S, T)
  PROVE  Same(S, T)
BY DEF Edit, Lists, Same, Live

\* To do nothing is such a step.
LEMMA NoChange ==
  ASSUME NEW S
  PROVE  Edit(S, S) /\ Same(S, S) /\ Stays(S, S)
BY DEF Edit, Lists, Same, Stays

\* Names and connections depend on nothing else.
LEMMA SameServes ==
  ASSUME NEW S, NEW T, Same(S, T), Single(S), Wired(S)
  PROVE  Single(T) /\ Wired(T)
<1>1. Single(T)
  BY DEF Same, Stays, Single
<1>2. Wired(T)
  BY SMTT(40) DEF Same, Stays, Wired
<1> QED
  BY <1>1, <1>2

\* The order of the lists depends on nothing else either.
LEMMA ListsLinked ==
  ASSUME NEW S \in Good, NEW T \in Good, NEW X, Lists(S, T), Linked(S, X)
  PROVE  Linked(T, X) /\ Live(T) = Live(S)
<1>1. Live(T) = Live(S)
  BY DEF Lists, Live
<1>2. \A i \in 1..Len(S.active) : S.active[i] \in Queues
  BY ListTypes
<1>3. Sorted(T)
  BY <1>2, SMTT(40) DEF Lists, Linked, Sorted
<1> QED
  BY <1>1, <1>3, ListTypes DEF Lists, Linked

\* A step that leaves lists, names and connections alone keeps them right.
LEMMA SoundEdit ==
  ASSUME NEW S, Sound(S), NEW T \in Good, Edit(S, T)
  PROVE  Sound(T) /\ Same(S, T)
BY EditSame, ListsLinked, SameServes DEF Sound, Edit

\* A change to fields of one queue that the lists and the connections do not see.
LEMMA QueueEdit ==
  ASSUME NEW S \in Good, NEW q \in Live(S), NEW T \in Good,
         NEW f \in TQueues, T.tq = [S.tq EXCEPT ![q] = f],
         T.sh = S.sh, T.idle = S.idle, T.active = S.active, T.panic = S.panic,
         f.player = S.tq[q].player, f.connected = S.tq[q].connected, f.usage = S.tq[q].usage
  PROVE  Edit(S, T)
<1>1. q \in Queues
  BY LiveType
<1>2. \A r \in Queues : T.tq[r] = IF r = q THEN f ELSE S.tq[r]
  BY <1>1 DEF Good, States
<1>3. Live(T) = Live(S) /\ Live(S) \subseteq Queues
  BY LiveType DEF Live
<1> QED
  BY <1>1, <1>2, <1>3 DEF Edit, Lists, Stays

\* The same of one handle.
LEMMA HandleEdit ==
  ASSUME NEW S \in Good, NEW h \in Handles, NEW T \in Good,
         NEW f, T.sh = [S.sh EXCEPT ![h] = f],
         T.tq = S.tq, T.idle = S.idle, T.active = S.active, T.panic = S.panic,
         f.open = S.sh[h].open, f.player = S.sh[h].player, f.tasks = S.sh[h].tasks
  PROVE  Edit(S, T)
<1>1. \A g \in Handles : T.sh[g] = IF g = h THEN f ELSE S.sh[g]
  BY DEF Good, States
<1> QED
  BY <1>1 DEF Edit, Lists, Stays, Live

\* The lists change, and the usage of queues on them.
LEMMA ListSame ==
  ASSUME NEW S \in Good, NEW T \in Good, Live(T) = Live(S),
         T.sh = S.sh, T.panic = S.panic,
         \A q \in Queues : T.tq[q].player = S.tq[q].player
                             /\ T.tq[q].connected = S.tq[q].connected
  PROVE  Same(S, T)
BY LiveType DEF Same, Stays

-----------------------------------------------------------------------------
(* activate_tqueue(), deactivate_tqueue(), ensure_usage(). *)

\* A queue on no list goes onto the active one.
LEMMA ActivateLinked ==
  ASSUME NEW S \in Good, NEW q \in Queues \ Live(S), Linked(S, {q}), S.tq[q].usage >= 0
  PROVE  LET T == activate_tqueue(S, q)
         IN /\ T \in Good /\ Linked(T, {}) /\ Live(T) = Live(S) \cup {q}
            /\ T.tq = S.tq /\ T.sh = S.sh /\ T.panic = S.panic
<1>1. PICK T : T = activate_tqueue(S, q)
  OBVIOUS
<1>2. T \in Good
  BY <1>1, ActivateType
<1>3. q \notin Elems(S.active) /\ q \notin S.idle /\ Sorted(S)
  BY DEF Live, Linked
<1>4. /\ Sorted(T)
      /\ Elems(T.active) = Elems(S.active) \cup {q}
      /\ \E list \in Seq(Queues) : T = [S EXCEPT !.active = list]
  BY <1>1, <1>3, ActivateSorted
<1>5. T.idle = S.idle /\ T.tq = S.tq /\ T.sh = S.sh /\ T.panic = S.panic
  BY <1>4 DEF Good, States
<1>6. Live(T) = Live(S) \cup {q}
  BY <1>4, <1>5 DEF Live
<1>7. Linked(T, {})
  BY <1>3, <1>4, <1>5, <1>6 DEF Linked
<1> QED
  BY <1>1, <1>2, <1>5, <1>6, <1>7

\* A queue on no list goes onto the idle one.
LEMMA DeactivateLinked ==
  ASSUME NEW S \in Good, NEW q \in Queues \ Live(S), Linked(S, {q})
  PROVE  LET T == deactivate_tqueue(S, q)
         IN /\ T \in Good /\ Linked(T, {}) /\ Live(T) = Live(S) \cup {q}
            /\ T.tq = [S.tq EXCEPT ![q] = [S.tq[q] EXCEPT !.usage = NO_USAGE]]
            /\ T.sh = S.sh /\ T.panic = S.panic
<1>1. PICK T : T = deactivate_tqueue(S, q)
  OBVIOUS
<1>2. T \in Good
  BY <1>1, DeactivateType
<1>3. q \notin Elems(S.active) /\ q \notin S.idle /\ Sorted(S)
  BY DEF Live, Linked
<1>4. /\ T.idle = S.idle \cup {q} /\ T.active = S.active /\ T.sh = S.sh /\ T.panic = S.panic
      /\ T.tq = [S.tq EXCEPT ![q] = [S.tq[q] EXCEPT !.usage = NO_USAGE]]
  BY <1>1 DEF deactivate_tqueue, Good, States
<1>5. \A r \in Queues : r # q => T.tq[r] = S.tq[r]
  BY <1>4 DEF Good, States
<1>6. T.tq[q].usage = NO_USAGE
  BY <1>4 DEF Good, States, TQueues
<1>7. Live(T) = Live(S) \cup {q}
  BY <1>4 DEF Live
<1>8. \A i \in 1..Len(S.active) : S.active[i] \in Queues /\ S.active[i] # q
  BY <1>3, ListTypes DEF Elems
<1>9. Sorted(T)
  BY <1>3, <1>4, <1>5, <1>8 DEF Sorted
<1>10. IsFiniteSet(T.idle)
  BY <1>4, FS_AddElement DEF Linked
<1>11. \A r \in T.idle : T.tq[r].usage = NO_USAGE
  BY <1>4, <1>5, <1>6, ListTypes DEF Linked
<1>12. \A r \in Elems(T.active) : T.tq[r].usage >= 0
  BY <1>3, <1>4, <1>5, ListTypes DEF Linked
<1>13. \A r \in Queues \ Live(T) : T.tq[r] = NewTQueue
  BY <1>5, <1>7 DEF Linked
<1>14. Linked(T, {})
  BY <1>3, <1>4, <1>9, <1>10, <1>11, <1>12, <1>13 DEF Linked
<1> QED
  BY <1>1, <1>2, <1>4, <1>7, <1>14

\* The first active queue has been used for some time, or not at all.
LEMMA HeadUsage ==
  ASSUME NEW S \in Good, Linked(S, {}), S.active # <<>>
  PROVE  S.active[1] \in Elems(S.active) /\ S.tq[S.active[1]].usage >= 0
<1>1. 1 \in 1..Len(S.active)
  BY ListTypes
<1> QED
  BY <1>1 DEF Linked, Elems

\* ensure_usage() takes an idle queue off its list before it activates it.
LEMMA EnsureUsageLinked ==
  ASSUME NEW S \in Good, NEW q \in Live(S), Linked(S, {})
  PROVE  /\ ensure_usage(S, q) \in Good /\ Linked(ensure_usage(S, q), {})
         /\ Same(S, ensure_usage(S, q))
         /\ \A r \in Queues : /\ ensure_usage(S, q).tq[r].input = S.tq[r].input
                              /\ ensure_usage(S, q).tq[r].reader = S.tq[r].reader
         /\ ensure_usage(S, q).sh = S.sh
<1>1. CASE S.tq[q].usage # NO_USAGE
  BY <1>1, NoChange DEF ensure_usage
<1>2. CASE S.tq[q].usage = NO_USAGE
  <2> DEFINE u == IF S.active = <<>> THEN 0 ELSE S.tq[S.active[1]].usage
             C == [S EXCEPT !.tq[q].usage = u, !.idle = @ \ {q}]
  <2>1. q \in Queues /\ S.idle \in SUBSET Queues
    BY ListTypes
  <2>2. u \in Int /\ u >= 0
    BY HeadUsage, ListTypes
  <2>3. q \in S.idle /\ q \notin Elems(S.active)
    BY <1>2 DEF Linked, Live, NO_USAGE
  <2> HIDE DEF u
  <2>4. C \in Good
    BY <2>1, <2>2, SetUsageType
  <2>5. /\ C.idle = S.idle \ {q} /\ C.active = S.active /\ C.sh = S.sh /\ C.panic = S.panic
        /\ \A r \in Queues : r # q => C.tq[r] = S.tq[r]
        /\ C.tq[q] = [S.tq[q] EXCEPT !.usage = u]
    BY <2>1 DEF Good, States
  <2>6. C.tq[q].usage = u /\ C.tq[q].player = S.tq[q].player
          /\ C.tq[q].connected = S.tq[q].connected /\ C.tq[q].input = S.tq[q].input
          /\ C.tq[q].reader = S.tq[q].reader
    BY <2>1, <2>5 DEF Good, States, TQueues
  <2> HIDE DEF C
  <2>7. Live(C) = Live(S) \ {q}
    BY <2>3, <2>5 DEF Live
  <2>8. Linked(C, {q})
    <3>1. IsFiniteSet(C.idle)
      BY <2>5, FS_Subset DEF Linked
    <3>2. \A i \in 1..Len(S.active) : S.active[i] \in Queues /\ S.active[i] # q
      BY <2>3, ListTypes DEF Elems
    <3>3. Sorted(C)
      BY <2>5, <3>2 DEF Sorted, Linked
    <3>4. \A r \in C.idle : C.tq[r].usage = NO_USAGE
      BY <2>1, <2>5 DEF Linked
    <3>5. \A r \in Elems(C.active) : C.tq[r].usage >= 0
      BY <2>3, <2>5, ListTypes DEF Linked
    <3>6. \A r \in Queues \ (Live(C) \cup {q}) : C.tq[r] = NewTQueue
      BY <2>5, <2>7 DEF Linked
    <3>7. C.idle \cap Elems(C.active) = {}
      BY <2>5 DEF Linked
    <3> QED
      BY <3>1, <3>3, <3>4, <3>5, <3>6, <3>7 DEF Linked
  <2>9. PICK T : T = activate_tqueue(C, q)
    OBVIOUS
  <2>10. /\ T \in Good /\ Linked(T, {}) /\ Live(T) = Live(C) \cup {q}
         /\ T.tq = C.tq /\ T.sh = C.sh /\ T.panic = C.panic
    BY <2>1, <2>2, <2>4, <2>6, <2>7, <2>8, <2>9, ActivateLinked
  <2>11. ensure_usage(S, q) = T
    BY <1>2, <2>9 DEF ensure_usage, C, u
  <2>12. Live(T) = Live(S)
    BY <2>7, <2>10
  <2>13. \A r \in Queues : /\ T.tq[r].player = S.tq[r].player
                           /\ T.tq[r].connected = S.tq[r].connected
                           /\ T.tq[r].input = S.tq[r].input
                           /\ T.tq[r].reader = S.tq[r].reader
    BY <2>1, <2>5, <2>6, <2>10
  <2>14. Same(S, T)
    BY <2>5, <2>10, <2>12, <2>13, ListSame
  <2> QED
    BY <2>5, <2>10, <2>11, <2>13, <2>14, Zenon
<1> QED
  BY <1>1, <1>2

\* ensure_usage(), whose caller may be in the middle of any operation
LEMMA EnsureUsageSound ==
  ASSUME NEW S, Sound(S), NEW q \in Live(S)
  PROVE  Sound(ensure_usage(S, q)) /\ Same(S, ensure_usage(S, q))
BY EnsureUsageLinked, SameServes DEF Sound

-----------------------------------------------------------------------------
(* Input and its flow control. *)

\* find_shandle() finds the connection of a connected queue.
Known(S, q) == S.tq[q].connected => find_shandle(S, S.tq[q].player) # Null

\* find_shandle() finds a connection when there is one.
LEMMA FindShandle ==
  ASSUME NEW S, NEW p, NEW h \in Handles, S.sh[h].open, S.sh[h].player = p
  PROVE  /\ find_shandle(S, p) \in Handles /\ find_shandle(S, p) # Null
         /\ S.sh[find_shandle(S, p)].open /\ S.sh[find_shandle(S, p)].player = p
<1> DEFINE found == {g \in Handles : S.sh[g].open /\ S.sh[g].player = p}
<1>1. h \in found
  OBVIOUS
<1>2. find_shandle(S, p) = CHOOSE g \in found : TRUE
  BY <1>1 DEF find_shandle
<1>3. find_shandle(S, p) \in found
  BY <1>1, <1>2
<1> QED
  BY <1>3, NullIsNoQueue

\* Between operations find_shandle() finds the connection of every connected queue,
LEMMA WiredKnown ==
  ASSUME NEW S, Wired(S), NEW q \in Live(S)
  PROVE  Known(S, q)
<1> SUFFICES ASSUME S.tq[q].connected
             PROVE  find_shandle(S, S.tq[q].player) # Null
  BY DEF Known
<1>1. PICK h \in Handles : S.sh[h].open /\ S.sh[h].tasks = q
  BY DEF Wired
<1>2. S.sh[h].player = S.tq[q].player
  BY <1>1 DEF Wired
<1> QED
  BY <1>1, <1>2, FindShandle

\* and finds the same one after a step that renames nothing.
LEMMA StaysFinds ==
  ASSUME NEW S, NEW T, Stays(S, T), NEW p
  PROVE  find_shandle(T, p) = find_shandle(S, p)
<1>1. PICK A : A = {h \in Handles : S.sh[h].open /\ S.sh[h].player = p}
  OBVIOUS
<1>2. A = {h \in Handles : T.sh[h].open /\ T.sh[h].player = p}
  BY <1>1 DEF Stays
<1>3. PICK c : c = IF A = {} THEN Null ELSE CHOOSE h \in A : TRUE
  OBVIOUS
<1>4. find_shandle(S, p) = c
  BY <1>1, <1>3 DEF find_shandle
<1>5. find_shandle(T, p) = c
  BY <1>2, <1>3 DEF find_shandle
<1> QED
  BY <1>4, <1>5

\* So it does in the middle of an operation.
LEMMA StaysKnown ==
  ASSUME NEW S, NEW T, Stays(S, T), NEW q \in Live(S), Known(S, q)
  PROVE  Known(T, q)
BY StaysFinds DEF Stays, Known

\* A connection that is found is suspended or resumed, and nothing else.
LEMMA SetSuspendedEdit ==
  ASSUME NEW S \in Good, NEW p, NEW b \in BOOLEAN, find_shandle(S, p) # Null
  PROVE  Edit(S, set_suspended(S, p, b))
<1>1. PICK h \in Handles : h = find_shandle(S, p)
  BY FindShandleType
<1>2. set_suspended(S, p, b) = [S EXCEPT !.sh[h].suspended = b]
  BY <1>1 DEF set_suspended
<1> DEFINE T == [S EXCEPT !.sh[h].suspended = b]
           f == [S.sh[h] EXCEPT !.suspended = b]
<1>3. T \in Good
  BY <1>2, SetSuspendedType
<1>4. /\ T.sh = [S.sh EXCEPT ![h] = f]
      /\ T.tq = S.tq /\ T.idle = S.idle /\ T.active = S.active /\ T.panic = S.panic
  BY DEF Good, States
<1>5. f.open = S.sh[h].open /\ f.player = S.sh[h].player /\ f.tasks = S.sh[h].tasks
  BY DEF Good, States, SHandles
<1> HIDE DEF T, f
<1>6. Edit(S, T)
  BY <1>3, <1>4, <1>5, HandleEdit
<1> QED
  BY <1>2, <1>6 DEF T

\* The flag input_suspended of a queue
LEMMA SetInsuspEdit ==
  ASSUME NEW S \in Good, NEW q \in Live(S), NEW b \in BOOLEAN
  PROVE  Edit(S, [S EXCEPT !.tq[q].insusp = b])
<1> DEFINE T == [S EXCEPT !.tq[q].insusp = b]
           f == [S.tq[q] EXCEPT !.insusp = b]
<1>1. q \in Queues
  BY LiveType
<1>2. T \in Good
  BY <1>1, SetFlagType
<1>3. f \in TQueues /\ f.player = S.tq[q].player /\ f.connected = S.tq[q].connected
        /\ f.usage = S.tq[q].usage
  <2>1. S.tq[q] \in TQueues
    BY <1>1, QueueType
  <2> QED
    BY <2>1 DEF TQueues
<1>4. /\ T.tq = [S.tq EXCEPT ![q] = f]
      /\ T.sh = S.sh /\ T.idle = S.idle /\ T.active = S.active /\ T.panic = S.panic
  BY DEF Good, States
<1> HIDE DEF T, f
<1>5. Edit(S, T)
  BY <1>2, <1>3, <1>4, QueueEdit, SMTT(40)
<1> QED
  BY <1>5 DEF T

\* server_suspend_input() and server_resume_input() find the connection.
LEMMA SuspendEdit ==
  ASSUME NEW S \in Good, NEW q \in Live(S), find_shandle(S, S.tq[q].player) # Null
  PROVE  Edit(S, suspend_input(S, q)) /\ Edit(S, resume_input(S, q))
<1>1. ASSUME NEW b \in BOOLEAN
      PROVE  Edit(S, [set_suspended(S, S.tq[q].player, b) EXCEPT !.tq[q].insusp = b])
  <2>1. PICK C : C = set_suspended(S, S.tq[q].player, b)
    OBVIOUS
  <2>2. C \in Good /\ Edit(S, C)
    BY <2>1, SetSuspendedType, SetSuspendedEdit
  <2>3. q \in Live(C)
    BY <2>2, EditSame DEF Same
  <2>4. Edit(C, [C EXCEPT !.tq[q].insusp = b])
    BY <2>2, <2>3, SetInsuspEdit
  <2> QED
    BY <2>1, <2>2, <2>4, EditTrans
<1> QED
  BY <1>1 DEF suspend_input, resume_input

\* A connection whose queue has run low is read from again.
LEMMA ResumeBelowEdit ==
  ASSUME NEW S \in Good, NEW q \in Live(S), Known(S, q)
  PROVE  Edit(S, resume_below_lowat(S, q))
BY SuspendEdit, NoChange DEF resume_below_lowat, Known

\* The lines of a queue and the total of their lengths.
LEMMA SetInputEdit ==
  ASSUME NEW S \in Good, NEW q \in Live(S), NEW lines \in Seq(Lines), NEW n \in Int
  PROVE  LET T == [S EXCEPT !.tq[q].input = lines, !.tq[q].len = n]
         IN T \in Good /\ Edit(S, T)
<1> DEFINE T == [S EXCEPT !.tq[q].input = lines, !.tq[q].len = n]
           f == [S.tq[q] EXCEPT !.input = lines, !.len = n]
<1>1. q \in Queues
  BY LiveType
<1>2. T \in Good
  BY <1>1, SetInputType
<1>3. f \in TQueues /\ f.player = S.tq[q].player /\ f.connected = S.tq[q].connected
        /\ f.usage = S.tq[q].usage
  <2>1. S.tq[q] \in TQueues
    BY <1>1, QueueType
  <2> QED
    BY <2>1 DEF TQueues
<1>4. T.tq = [S.tq EXCEPT ![q] = f]
  BY <1>1 DEF Good, States
<1>5. T.sh = S.sh /\ T.idle = S.idle /\ T.active = S.active /\ T.panic = S.panic
  BY DEF Good, States
<1> HIDE DEF T, f
<1>6. Edit(S, T)
  BY <1>2, <1>3, <1>4, <1>5, QueueEdit
<1> QED
  BY <1>2, <1>6 DEF T

\* dequeue_input_task() finds the connection it resumes,
LEMMA DequeueInputEdit ==
  ASSUME NEW S \in Good, NEW q \in Live(S), Known(S, q), S.tq[q].input # <<>>
  PROVE  dequeue_input_task(S, q) \in Good /\ Edit(S, dequeue_input_task(S, q))
<1>1. q \in Queues
  BY LiveType
<1>2. PICK lines \in Seq(Lines) : lines = Tail(S.tq[q].input)
  BY <1>1, QueueType, HeadTailProperties
<1>3. PICK n \in Int : n = S.tq[q].len - Length(S.tq[q].input[1])
  BY <1>1, LengthType DEF Good, States, TQueues
<1>4. PICK C : C = [S EXCEPT !.tq[q].input = lines, !.tq[q].len = n]
  OBVIOUS
<1>5. C \in Good /\ Edit(S, C)
  BY <1>4, SetInputEdit
<1>6. q \in Live(C) /\ Known(C, q)
  BY <1>5, EditSame, StaysKnown DEF Same
<1>7. dequeue_input_task(S, q) = resume_below_lowat(C, q)
  BY <1>2, <1>3, <1>4 DEF dequeue_input_task
<1>8. Edit(C, resume_below_lowat(C, q)) /\ resume_below_lowat(C, q) \in Good
  BY <1>1, <1>5, <1>6, ResumeBelowEdit, ResumeBelowType
<1> QED
  BY <1>5, <1>7, <1>8, EditTrans

\* and so does flush_input(), even of a queue about to lose its name.
LEMMA FlushInputEdit ==
  ASSUME NEW S \in Good, NEW q \in Live(S), Known(S, q)
  PROVE  flush_input(S, q) \in Good /\ Edit(S, flush_input(S, q))
<1>1. q \in Queues
  BY LiveType
<1>2. PICK C : C = [S EXCEPT !.tq[q].input = <<>>, !.tq[q].len = 0]
  OBVIOUS
<1>3. <<>> \in Seq(Lines) /\ 0 \in Int
  OBVIOUS
<1>4. C \in Good /\ Edit(S, C)
  BY <1>2, <1>3, SetInputEdit
<1>5. q \in Live(C) /\ Known(C, q)
  BY <1>4, EditSame, StaysKnown DEF Same
<1>6. Edit(C, resume_below_lowat(C, q)) /\ resume_below_lowat(C, q) \in Good
  BY <1>1, <1>4, <1>5, ResumeBelowEdit, ResumeBelowType
<1>7. flush_input(S, q) \in {S, resume_below_lowat(C, q)}
  BY <1>2 DEF flush_input
<1> QED
  BY <1>4, <1>6, <1>7, EditTrans, NoChange

\* A line is queued: the queue is activated if it may run, the connection suspended if
\* it is full.
LEMMA EnqueueInputSound ==
  ASSUME NEW S, Sound(S), NEW q \in Live(S), NEW line \in Lines, NEW front \in BOOLEAN
  PROVE  /\ Sound(enqueue_input_task(S, q, line, front))
         /\ Same(S, enqueue_input_task(S, q, line, front))
<1>1. q \in Queues /\ S \in Good
  BY LiveType DEF Sound
<1>2. PICK lines \in Seq(Lines) :
        lines = IF front THEN <<line>> \o S.tq[q].input ELSE Append(S.tq[q].input, line)
  <2>1. (IF front THEN <<line>> \o S.tq[q].input ELSE Append(S.tq[q].input, line)) \in Seq(Lines)
    BY <1>1, QueueType
  <2> QED
    BY <2>1
<1>3. PICK n \in Int : n = S.tq[q].len + Length(line)
  BY <1>1, LengthType DEF Good, States, TQueues
<1>4. PICK C : C = [S EXCEPT !.tq[q].input = lines, !.tq[q].len = n]
  OBVIOUS
<1>5. C \in Good /\ Edit(S, C)
  BY <1>1, <1>4, SetInputEdit
<1>6. Sound(C) /\ Same(S, C)
  BY <1>5, SoundEdit
<1>7. PICK U : U = IF ~S.tq[q].hold \/ reading(S, q) THEN ensure_usage(C, q) ELSE C
  OBVIOUS
<1>8. q \in Live(C)
  BY <1>6 DEF Same
<1>9. Sound(U) /\ Same(S, U)
  BY <1>6, <1>7, <1>8, EnsureUsageSound, SameTrans
<1>10. q \in Live(U) /\ Known(U, q) /\ U \in Good /\ U.tq[q].connected = S.tq[q].connected
  BY <1>9, WiredKnown DEF Same, Stays, Sound
<1>11. ASSUME S.tq[q].connected
       PROVE  Sound(suspend_input(U, q)) /\ Same(S, suspend_input(U, q))
  <2>1. suspend_input(U, q) \in Good /\ Edit(U, suspend_input(U, q))
    BY <1>1, <1>10, <1>11, SuspendType, SuspendEdit, SMTT(40) DEF Known
  <2> QED
    BY <1>9, <2>1, SoundEdit, SameTrans
<1>12. \/ enqueue_input_task(S, q, line, front) = U
       \/ S.tq[q].connected /\ enqueue_input_task(S, q, line, front) = suspend_input(U, q)
  BY <1>2, <1>3, <1>4, <1>7 DEF enqueue_input_task
<1> QED
  BY <1>9, <1>11, <1>12

\* A new connection is not read from until its login line has run.
LEMMA TaskSuspendSound ==
  ASSUME NEW S, Sound(S), NEW q \in Live(S)
  PROVE  Sound(task_suspend_input(S, q)) /\ Same(S, task_suspend_input(S, q))
<1>1. q \in Queues /\ S \in Good /\ Known(S, q)
  BY LiveType, WiredKnown DEF Sound
<1>2. S.tq[q].connected => suspend_input(S, q) \in Good /\ Edit(S, suspend_input(S, q))
  BY <1>1, SuspendType, SuspendEdit DEF Known
<1> QED
  BY <1>2, SoundEdit, NoChange DEF task_suspend_input

\* A line is taken off its queue.
LEMMA DequeueInputSound ==
  ASSUME NEW S, Sound(S), NEW q \in Live(S), S.tq[q].input # <<>>
  PROVE  Sound(dequeue_input_task(S, q)) /\ Same(S, dequeue_input_task(S, q))
BY WiredKnown, DequeueInputEdit, SoundEdit DEF Sound

\* All lines are.
LEMMA FlushInputSound ==
  ASSUME NEW S, Sound(S), NEW q \in Live(S)
  PROVE  Sound(flush_input(S, q)) /\ Same(S, flush_input(S, q))
BY WiredKnown, FlushInputEdit, SoundEdit DEF Sound

\* hold-input, and a task that starts to read.
LEMMA SetHoldSound ==
  ASSUME NEW S, Sound(S), NEW q \in Live(S), NEW hold \in BOOLEAN
  PROVE  Sound(set_hold_input(S, q, hold)) /\ Same(S, set_hold_input(S, q, hold))
<1> DEFINE T == [S EXCEPT !.tq[q].hold = hold]
           f == [S.tq[q] EXCEPT !.hold = hold]
<1>1. q \in Queues /\ S \in Good
  BY LiveType DEF Sound
<1>2. T \in Good
  BY <1>1, SetFlagType
<1>3. f \in TQueues /\ f.player = S.tq[q].player /\ f.connected = S.tq[q].connected
        /\ f.usage = S.tq[q].usage
  <2>1. S.tq[q] \in TQueues
    BY <1>1, QueueType
  <2> QED
    BY <2>1 DEF TQueues
<1>4. /\ T.tq = [S.tq EXCEPT ![q] = f]
      /\ T.sh = S.sh /\ T.idle = S.idle /\ T.active = S.active /\ T.panic = S.panic
  BY <1>1 DEF Good, States
<1>5. set_hold_input(S, q, hold) \in {T, ensure_usage(T, q)}
  BY DEF set_hold_input
<1> HIDE DEF T, f
<1>6. Sound(T) /\ Same(S, T)
  BY <1>1, <1>2, <1>3, <1>4, QueueEdit, SoundEdit
<1>7. Sound(ensure_usage(T, q)) /\ Same(S, ensure_usage(T, q))
  BY <1>6, EnsureUsageSound, SameTrans DEF Same
<1> QED
  BY <1>5, <1>6, <1>7

\* A task that reads, or is killed while it does, is no part of the lists.
LEMMA SetReaderSound ==
  ASSUME NEW S, Sound(S), NEW q \in Live(S), NEW t \in Tasks
  PROVE  Sound([S EXCEPT !.tq[q].reader = t]) /\ Same(S, [S EXCEPT !.tq[q].reader = t])
<1> DEFINE T == [S EXCEPT !.tq[q].reader = t]
           f == [S.tq[q] EXCEPT !.reader = t]
<1>1. q \in Queues /\ S \in Good
  BY LiveType DEF Sound
<1>2. T \in Good
  BY <1>1, SetReaderType
<1>3. f \in TQueues /\ f.player = S.tq[q].player /\ f.connected = S.tq[q].connected
        /\ f.usage = S.tq[q].usage
  <2>1. S.tq[q] \in TQueues
    BY <1>1, QueueType
  <2> QED
    BY <2>1 DEF TQueues
<1>4. /\ T.tq = [S.tq EXCEPT ![q] = f]
      /\ T.sh = S.sh /\ T.idle = S.idle /\ T.active = S.active /\ T.panic = S.panic
  BY <1>1 DEF Good, States
<1> HIDE DEF T, f
<1>5. Sound(T) /\ Same(S, T)
  BY <1>1, <1>2, <1>3, <1>4, QueueEdit, SoundEdit
<1> QED
  BY <1>5 DEF T

\* read() activates the queue when a line waits.
LEMMA MakeReadingSound ==
  ASSUME NEW S, Sound(S), NEW q \in Live(S), NEW t \in Tasks
  PROVE  Sound(make_reading_task(S, q, t)) /\ Same(S, make_reading_task(S, q, t))
<1>1. PICK T : T = [S EXCEPT !.tq[q].reader = t]
  OBVIOUS
<1>2. Sound(T) /\ Same(S, T)
  BY <1>1, SetReaderSound
<1>3. Sound(ensure_usage(T, q)) /\ Same(S, ensure_usage(T, q))
  BY <1>2, EnsureUsageSound, SameTrans DEF Same
<1>4. make_reading_task(S, q, t) \in {T, ensure_usage(T, q)}
  BY <1>1 DEF make_reading_task
<1> QED
  BY <1>2, <1>3, <1>4

-----------------------------------------------------------------------------
(* Queues that are made for a player. *)

\* The lists are finite, so that an unbounded heap has an address left.
LEMMA LiveFinite ==
  ASSUME NEW S \in Good, NEW X, Linked(S, X)
  PROVE  IsFiniteSet(Live(S))
<1> DEFINE n == Len(S.active)
           f == [i \in 1..n |-> S.active[i]]
<1>1. IsFiniteSet(1..n)
  BY ListTypes, FS_Interval
<1>2. f \in Surjection(1..n, Elems(S.active))
  BY DEF Surjection, Elems
<1>3. IsFiniteSet(Elems(S.active))
  <2> HIDE DEF f, n
  <2> QED
    BY <1>1, <1>2, FS_Surjection
<1>4. IsFiniteSet(S.idle)
  BY DEF Linked
<1> QED
  BY <1>3, <1>4, FS_Union DEF Live

\* find_tqueue() misses no queue of either list.
LEMMA NotFound ==
  ASSUME NEW S \in Good, NEW p, find_tqueue(S, p) = Null
  PROVE  \A q \in Live(S) : S.tq[q].player # p
<1> SUFFICES ASSUME NEW q \in Live(S), S.tq[q].player = p
             PROVE  FALSE
  OBVIOUS
<1>1. q \in {r \in Live(S) : S.tq[r].player = p}
  OBVIOUS
<1>2. find_tqueue(S, p) \in Live(S)
  BY <1>1 DEF find_tqueue
<1> QED
  BY <1>2, LiveType, NullIsNoQueue

\* A queue is found or made, and is empty if it is made.
LEMMA WithTqueueMade ==
  ASSUME NEW S \in Good, Linked(S, {}), NEW p \in Objids
  PROVE  LET T == with_tqueue(S, p)
         IN /\ T \in Good /\ Linked(T, {}) /\ T.sh = S.sh /\ T.waiting = S.waiting
            /\ IsFiniteSet(Queues) \/ T.panic = S.panic
            /\ \/ Live(T) = Live(S) /\ T.tq = S.tq
               \/ /\ find_tqueue(S, p) = Null
                  /\ \E n \in Queues \ Live(S) :
                       /\ Live(T) = Live(S) \cup {n}
                       /\ T.tq = [S.tq EXCEPT ![n] = [NewTQueue EXCEPT !.player = p]]
<1>1. PICK T : T = with_tqueue(S, p)
  OBVIOUS
<1>2. T \in Good /\ T.waiting = S.waiting
  BY <1>1, WithTqueueType, WithTqueueWaiting
<1>3. CASE find_tqueue(S, p) # Null
  <2>1. T = S
    BY <1>1, <1>3 DEF with_tqueue
  <2> QED
    BY <1>1, <1>2, <2>1
<1>4. CASE find_tqueue(S, p) = Null /\ Queues \subseteq Live(S)
  <2>1. T = [S EXCEPT !.panic = TRUE]
    BY <1>1, <1>4 DEF with_tqueue
  <2>2. T.tq = S.tq /\ T.sh = S.sh /\ T.idle = S.idle /\ T.active = S.active
    BY <2>1 DEF Good, States
  <2>3. Linked(T, {}) /\ Live(T) = Live(S)
    BY <1>2, <2>2, ListsLinked DEF Lists
  <2>4. IsFiniteSet(Queues)
    BY <1>4, LiveFinite, FS_Subset
  <2> QED
    BY <1>1, <1>2, <2>2, <2>3, <2>4
<1>5. CASE find_tqueue(S, p) = Null /\ ~(Queues \subseteq Live(S))
  <2>1. PICK n : n = CHOOSE q \in Queues \ Live(S) : TRUE
    OBVIOUS
  <2>2. n \in Queues \ Live(S)
    BY <1>5, <2>1
  <2>3. PICK f \in TQueues : f = [NewTQueue EXCEPT !.player = p]
    BY NewTypes DEF TQueues
  <2>4. f.player = p /\ ~f.connected /\ [f EXCEPT !.usage = NO_USAGE] = f
    <3>1. f.player = p /\ ~f.connected /\ f.usage = NO_USAGE
      BY <2>3 DEF NewTQueue
    <3>2. [f EXCEPT !.usage = f.usage] = f
      BY <2>3 DEF TQueues
    <3> QED
      BY <3>1, <3>2
  <2>5. PICK C : C = [S EXCEPT !.tq[n] = f]
    OBVIOUS
  <2>6. C \in Good
    BY <2>2, <2>3, <2>5, UpdateQueue
  <2>7. /\ C.tq = [S.tq EXCEPT ![n] = f]
        /\ C.sh = S.sh /\ C.idle = S.idle /\ C.active = S.active /\ C.panic = S.panic
    BY <2>5 DEF Good, States
  <2>8. Live(C) = Live(S) /\ \A q \in Queues : q # n => C.tq[q] = S.tq[q]
    BY <2>7 DEF Live, Good, States
  <2>9. Linked(C, {n})
    <3>1. \A i \in 1..Len(S.active) : S.active[i] \in Queues /\ S.active[i] # n
      BY <2>2, ListTypes DEF Live, Elems
    <3>2. Sorted(C)
      BY <2>7, <2>8, <3>1 DEF Sorted, Linked
    <3>3. \A q \in C.idle : C.tq[q].usage = NO_USAGE
      BY <2>2, <2>7, <2>8, ListTypes DEF Linked, Live
    <3>4. \A q \in Elems(C.active) : C.tq[q].usage >= 0
      BY <2>2, <2>7, <2>8, ListTypes DEF Linked, Live
    <3>5. \A q \in Queues \ (Live(C) \cup {n}) : C.tq[q] = NewTQueue
      BY <2>8 DEF Linked
    <3> QED
      BY <2>7, <3>2, <3>3, <3>4, <3>5 DEF Linked
  <2>10. T = deactivate_tqueue(C, n)
    BY <1>1, <1>5, <2>1, <2>3, <2>5 DEF with_tqueue
  <2>11. /\ T \in Good /\ Linked(T, {}) /\ Live(T) = Live(C) \cup {n}
         /\ T.tq = [C.tq EXCEPT ![n] = [C.tq[n] EXCEPT !.usage = NO_USAGE]]
         /\ T.sh = C.sh /\ T.panic = C.panic
    BY <2>2, <2>6, <2>8, <2>9, <2>10, DeactivateLinked
  <2>12. C.tq[n] = f
    BY <2>2, <2>7 DEF Good, States
  <2>13. T.tq = [S.tq EXCEPT ![n] = f]
    BY <2>4, <2>7, <2>11, <2>12 DEF Good, States
  <2> QED
    BY <1>1, <1>2, <1>5, <2>2, <2>3, <2>7, <2>8, <2>11, <2>13
<1> QED
  BY <1>3, <1>4, <1>5

\* A queue made for a player is the only one of its name, and is connected to nothing.
LEMMA WithTqueueSound ==
  ASSUME NEW S, Sound(S), NEW p \in Objids
  PROVE  /\ Sound(with_tqueue(S, p)) /\ Stays(S, with_tqueue(S, p))
         /\ with_tqueue(S, p).sh = S.sh
         /\ \A q \in Live(with_tqueue(S, p)) : with_tqueue(S, p).tq[q].connected => q \in Live(S)
<1>1. PICK T : T = with_tqueue(S, p)
  OBVIOUS
<1>2. S \in Good /\ Linked(S, {}) /\ Single(S) /\ Wired(S)
  BY DEF Sound
<1>3. /\ T \in Good /\ Linked(T, {}) /\ T.sh = S.sh
      /\ IsFiniteSet(Queues) \/ T.panic = S.panic
      /\ \/ Live(T) = Live(S) /\ T.tq = S.tq
         \/ /\ find_tqueue(S, p) = Null
            /\ \E n \in Queues \ Live(S) :
                 /\ Live(T) = Live(S) \cup {n}
                 /\ T.tq = [S.tq EXCEPT ![n] = [NewTQueue EXCEPT !.player = p]]
  BY <1>1, <1>2, WithTqueueMade
<1>4. CASE Live(T) = Live(S) /\ T.tq = S.tq
  <2>1. Same(S, T)
    BY <1>3, <1>4 DEF Same, Stays
  <2> QED
    BY <1>1, <1>2, <1>3, <1>4, <2>1, SameServes DEF Sound, Same
<1>5. ASSUME find_tqueue(S, p) = Null,
             NEW n \in Queues \ Live(S), Live(T) = Live(S) \cup {n},
             T.tq = [S.tq EXCEPT ![n] = [NewTQueue EXCEPT !.player = p]]
      PROVE  Sound(T) /\ Stays(S, T) /\ \A q \in Live(T) : T.tq[q].connected => q \in Live(S)
  <2>1. \A q \in Live(S) : T.tq[q] = S.tq[q]
    BY <1>2, <1>5, LiveType DEF Good, States
  <2>2. T.tq[n] = [NewTQueue EXCEPT !.player = p]
    BY <1>2, <1>5 DEF Good, States
  <2>3. T.tq[n].player = p /\ ~T.tq[n].connected
    BY <2>2 DEF NewTQueue
  <2>4. \A q \in Live(S) : S.tq[q].player # p
    BY <1>2, <1>5, NotFound
  <2>5. Stays(S, T)
    BY <1>3, <1>5, <2>1 DEF Stays
  <2>6. Single(T)
    BY <1>2, <1>5, <2>1, <2>3, <2>4 DEF Single
  <2>7. Wired(T)
    BY <1>2, <1>3, <1>5, <2>1, <2>3 DEF Wired
  <2> QED
    BY <1>3, <1>5, <2>3, <2>5, <2>6, <2>7 DEF Sound
<1> QED
  BY <1>1, <1>3, <1>4, <1>5

\* bf_force_input() and bf_flush_input()
LEMMA ForceInputSound ==
  ASSUME NEW S, Sound(S), NEW p \in Objids, NEW line \in Lines, NEW front \in BOOLEAN
  PROVE  /\ Sound(force_input(S, p, line, front)) /\ Stays(S, force_input(S, p, line, front))
         /\ Sound(flush_player(S, p)) /\ Stays(S, flush_player(S, p))
<1>1. PICK M : M = with_tqueue(S, p)
  OBVIOUS
<1>2. PICK q : q = find_tqueue(M, p)
  OBVIOUS
<1>3. Sound(M) /\ Stays(S, M)
  BY <1>1, WithTqueueSound
<1>4. q # Null => q \in Live(M)
  BY <1>2, <1>3, FindTqueueType DEF Sound
<1>5. q # Null => /\ Sound(enqueue_input_task(M, q, line, front))
                  /\ Stays(M, enqueue_input_task(M, q, line, front))
                  /\ Sound(flush_input(M, q)) /\ Stays(M, flush_input(M, q))
  BY <1>3, <1>4, EnqueueInputSound, FlushInputSound DEF Same
<1>6. /\ force_input(S, p, line, front)
           = IF q = Null THEN M ELSE enqueue_input_task(M, q, line, front)
      /\ flush_player(S, p) = IF q = Null THEN M ELSE flush_input(M, q)
  BY <1>1, <1>2 DEF force_input, flush_player
<1> QED
  BY <1>3, <1>5, <1>6, StaysTrans

-----------------------------------------------------------------------------
(* Background tasks. *)

\* The ready tasks of a queue and their count, and the waiting list.
LEMMA SetBgEdit ==
  ASSUME NEW S \in Good, NEW q \in Live(S), NEW bg \in Seq(Tasks), NEW n \in Int
  PROVE  LET T == [S EXCEPT !.tq[q].bg = bg, !.tq[q].num = n]
         IN T \in Good /\ Edit(S, T)
<1> DEFINE T == [S EXCEPT !.tq[q].bg = bg, !.tq[q].num = n]
           f == [S.tq[q] EXCEPT !.bg = bg, !.num = n]
<1>1. q \in Queues
  BY LiveType
<1>2. T \in Good
  BY <1>1, SetBgNumType
<1>3. f \in TQueues /\ f.player = S.tq[q].player /\ f.connected = S.tq[q].connected
        /\ f.usage = S.tq[q].usage
  <2>1. S.tq[q] \in TQueues
    BY <1>1, QueueType
  <2> QED
    BY <2>1 DEF TQueues
<1>4. T.tq = [S.tq EXCEPT ![q] = f]
  BY <1>1 DEF Good, States
<1>5. T.sh = S.sh /\ T.idle = S.idle /\ T.active = S.active /\ T.panic = S.panic
  BY <1>1 DEF Good, States
<1> HIDE DEF T, f
<1>6. Edit(S, T)
  BY <1>1, <1>2, <1>3, <1>4, <1>5, QueueEdit
<1> QED
  BY <1>2, <1>6 DEF T

\* The background tasks of a queue are no part of the lists,
LEMMA SetBgSound ==
  ASSUME NEW S, Sound(S), NEW q \in Live(S), NEW bg \in Seq(Tasks), NEW n \in Int
  PROVE  LET T == [S EXCEPT !.tq[q].bg = bg, !.tq[q].num = n]
         IN Sound(T) /\ Same(S, T)
<1>1. PICK T : T = [S EXCEPT !.tq[q].bg = bg, !.tq[q].num = n]
  OBVIOUS
<1>2. S \in Good
  BY DEF Sound
<1>3. T \in Good /\ Edit(S, T)
  BY <1>1, <1>2, SetBgEdit
<1> QED
  BY <1>1, <1>3, SoundEdit

\* nor are those that wait,
LEMMA SetWaitingSound ==
  ASSUME NEW S, Sound(S), NEW w \in Seq(Tasks)
  PROVE  Sound([S EXCEPT !.waiting = w]) /\ Same(S, [S EXCEPT !.waiting = w])
<1> DEFINE T == [S EXCEPT !.waiting = w]
<1>1. S \in Good /\ T \in Good
  BY SetWaitingType DEF Sound
<1>2. T.tq = S.tq /\ T.sh = S.sh /\ T.idle = S.idle /\ T.active = S.active /\ T.panic = S.panic
  BY <1>1 DEF Good, States
<1> HIDE DEF T
<1>3. Edit(S, T)
  BY <1>2 DEF Edit, Lists, Stays, Live
<1> QED
  BY <1>1, <1>3, SoundEdit DEF T

\* One task queued, dequeued or killed.
LEMMA BgSound ==
  ASSUME NEW S, Sound(S), NEW q \in Live(S), NEW t \in Tasks
  PROVE  /\ Sound(enqueue_bg_task(S, q, t)) /\ Same(S, enqueue_bg_task(S, q, t))
         /\ S.tq[q].bg # <<>> => Sound(dequeue_bg_task(S, q)) /\ Same(S, dequeue_bg_task(S, q))
         /\ \A i \in 1..Len(S.tq[q].bg) : Sound(kill_bg(S, q, i)) /\ Same(S, kill_bg(S, q, i))
<1>1. q \in Queues /\ S \in Good
  BY LiveType DEF Sound
<1>2. PICK n \in Int : n = S.tq[q].num
  BY <1>1, NumType
<1>3. /\ Append(S.tq[q].bg, t) \in Seq(Tasks)
      /\ S.tq[q].bg # <<>> => Tail(S.tq[q].bg) \in Seq(Tasks)
      /\ \A i \in 1..Len(S.tq[q].bg) : RemoveIndex(S.tq[q].bg, i) \in Seq(Tasks)
  BY <1>1, QueueType, HeadTailProperties, RemoveIndexType
<1>4. enqueue_bg_task(S, q, t) = [S EXCEPT !.tq[q].bg = Append(S.tq[q].bg, t), !.tq[q].num = n]
  BY <1>1, <1>2 DEF enqueue_bg_task, Good, States, TQueues
<1>5. n - 1 \in Int
  BY <1>2
<1>6. dequeue_bg_task(S, q) = [S EXCEPT !.tq[q].bg = Tail(S.tq[q].bg), !.tq[q].num = n - 1]
  BY <1>2 DEF dequeue_bg_task
<1>7. \A i \in 1..Len(S.tq[q].bg) :
        kill_bg(S, q, i) = [S EXCEPT !.tq[q].bg = RemoveIndex(S.tq[q].bg, i), !.tq[q].num = n - 1]
  BY <1>2 DEF kill_bg
<1>8. ASSUME NEW bg \in Seq(Tasks), NEW m \in Int, NEW T,
             T = [S EXCEPT !.tq[q].bg = bg, !.tq[q].num = m]
      PROVE  Sound(T) /\ Same(S, T)
  BY <1>8, SetBgSound
<1>9. Sound(enqueue_bg_task(S, q, t)) /\ Same(S, enqueue_bg_task(S, q, t))
  <2>1. PICK bg \in Seq(Tasks) : bg = Append(S.tq[q].bg, t)
    BY <1>3
  <2> QED
    BY <1>2, <1>4, <1>8, <2>1
<1>10. S.tq[q].bg # <<>> => Sound(dequeue_bg_task(S, q)) /\ Same(S, dequeue_bg_task(S, q))
  <2> SUFFICES ASSUME S.tq[q].bg # <<>>
               PROVE  Sound(dequeue_bg_task(S, q)) /\ Same(S, dequeue_bg_task(S, q))
    OBVIOUS
  <2>1. PICK bg \in Seq(Tasks) : bg = Tail(S.tq[q].bg)
    BY <1>3
  <2> QED
    BY <1>5, <1>6, <1>8, <2>1
<1>11. \A i \in 1..Len(S.tq[q].bg) : Sound(kill_bg(S, q, i)) /\ Same(S, kill_bg(S, q, i))
  <2> TAKE i \in 1..Len(S.tq[q].bg)
  <2>1. PICK bg \in Seq(Tasks) : bg = RemoveIndex(S.tq[q].bg, i)
    BY <1>3
  <2>2. kill_bg(S, q, i) = [S EXCEPT !.tq[q].bg = bg, !.tq[q].num = n - 1]
    BY <1>7, <2>1
  <2> QED
    BY <1>5, <1>8, <2>2
<1> QED
  BY <1>9, <1>10, <1>11

\* nor is num_bg_tasks.
LEMMA SetNumSound ==
  ASSUME NEW S, Sound(S), NEW q \in Live(S), NEW n \in Int
  PROVE  Sound([S EXCEPT !.tq[q].num = n]) /\ Same(S, [S EXCEPT !.tq[q].num = n])
<1>1. q \in Queues /\ S \in Good
  BY LiveType DEF Sound
<1>2. S.tq[q].bg \in Seq(Tasks)
  BY <1>1, QueueType
<1>3. [S EXCEPT !.tq[q].num = n] = [S EXCEPT !.tq[q].bg = S.tq[q].bg, !.tq[q].num = n]
  BY <1>1 DEF Good, States, TQueues
<1> QED
  BY <1>2, <1>3, SetBgSound

\* fork() and suspend(): the programmer gets a queue if it has none.
LEMMA EnqueueWaitingSound ==
  ASSUME NEW S, Sound(S), NEW t \in Tasks
  PROVE  Sound(enqueue_waiting(S, t)) /\ Stays(S, enqueue_waiting(S, t))
<1>1. PICK M : M = with_tqueue(S, t.progr)
  OBVIOUS
<1>2. PICK q : q = find_tqueue(M, t.progr)
  OBVIOUS
<1>3. t.progr \in Objids
  BY DEF Tasks
<1>4. Sound(M) /\ Stays(S, M) /\ M.waiting = S.waiting
  BY <1>1, <1>3, WithTqueueSound, WithTqueueWaiting DEF Sound
<1>5. CASE q = Null
  BY <1>1, <1>2, <1>4, <1>5 DEF enqueue_waiting
<1>6. CASE q # Null
  <2>1. q \in Live(M) /\ q \in Queues /\ M \in Good /\ S \in Good
    BY <1>2, <1>4, <1>6, FindTqueueType, LiveType DEF Sound
  <2>2. PICK n \in Int : n = M.tq[q].num + 1
    BY <2>1, NumType
  <2>3. PICK N : N = [M EXCEPT !.tq[q].num = n]
    OBVIOUS
  <2>4. Sound(N) /\ Same(M, N) /\ N.waiting = S.waiting
    BY <1>4, <2>1, <2>3, SetNumSound DEF Good, States
  <2> DEFINE B == {i \in 1..Len(S.waiting) : \A j \in 1..i : S.waiting[j].start <= t.start}
  <2>5. Cardinality(B) \in 0..Len(S.waiting)
    BY <2>1, WaitingType, PrefixLength
  <2>6. PICK w \in Seq(Tasks) : w = InsertAfter(S.waiting, Cardinality(B), t)
    <3> HIDE DEF B
    <3> QED
      BY <2>1, <2>5, WaitingType, InsertAfterType
  <2>7. enqueue_waiting(S, t) = [M EXCEPT !.tq[q].num = n, !.waiting = w]
    BY <1>1, <1>2, <1>4, <1>6, <2>2, <2>6 DEF enqueue_waiting
  <2>8. enqueue_waiting(S, t) = [N EXCEPT !.waiting = w]
    BY <2>3, <2>7
  <2>9. Sound([N EXCEPT !.waiting = w]) /\ Same(N, [N EXCEPT !.waiting = w])
    BY <2>4, SetWaitingSound
  <2> QED
    BY <1>4, <2>4, <2>8, <2>9, StaysTrans DEF Same
<1> QED
  BY <1>5, <1>6

\* A task of the waiting list moves to the queue of its programmer.
LEMMA MoveWaitingSound ==
  ASSUME NEW M, Sound(M), NEW q \in Live(M), NEW w \in Seq(Tasks), NEW t \in Tasks
  PROVE  LET T == enqueue_bg_task(ensure_usage([M EXCEPT !.waiting = w], q), q, t)
         IN Sound(T) /\ Same(M, T)
<1>1. PICK C : C = [M EXCEPT !.waiting = w]
  OBVIOUS
<1>2. Sound(C) /\ Same(M, C)
  BY <1>1, SetWaitingSound
<1>3. PICK U : U = ensure_usage(C, q)
  OBVIOUS
<1>4. Sound(U) /\ Same(C, U)
  BY <1>2, <1>3, EnsureUsageSound DEF Same
<1>5. q \in Live(U)
  BY <1>2, <1>4 DEF Same
<1>6. Sound(enqueue_bg_task(U, q, t)) /\ Same(U, enqueue_bg_task(U, q, t))
  BY <1>4, <1>5, BgSound
<1> QED
  BY <1>1, <1>2, <1>3, <1>4, <1>6, SameTrans

\* A task that is due goes to the queue of its programmer.
LEMMA ReadyFirstSound ==
  ASSUME NEW S, Sound(S), S.waiting # <<>>
  PROVE  Sound(ready_first_waiting(S)) /\ Stays(S, ready_first_waiting(S))
<1>1. PICK t : t = S.waiting[1]
  OBVIOUS
<1>2. PICK M : M = with_tqueue(S, t.progr)
  OBVIOUS
<1>3. PICK q : q = find_tqueue(M, t.progr)
  OBVIOUS
<1>4. S \in Good /\ t \in Tasks /\ t.progr \in Objids /\ Tail(S.waiting) \in Seq(Tasks)
  BY <1>1, WaitingType, HeadTailProperties DEF Sound
<1>5. Sound(M) /\ Stays(S, M) /\ M.waiting = S.waiting
  BY <1>2, <1>4, WithTqueueSound, WithTqueueWaiting
<1>6. PICK T : T = enqueue_bg_task(ensure_usage([M EXCEPT !.waiting = Tail(S.waiting)], q), q, t)
  OBVIOUS
<1>7. q # Null => Sound(T) /\ Same(M, T)
  <2>1. q # Null => q \in Live(M)
    BY <1>3, <1>5, FindTqueueType DEF Sound
  <2> QED
    BY <1>4, <1>5, <1>6, <2>1, MoveWaitingSound
<1>8. ready_first_waiting(S) = IF q = Null THEN M ELSE T
  BY <1>1, <1>2, <1>3, <1>5, <1>6 DEF ready_first_waiting
<1> QED
  BY <1>5, <1>7, <1>8, StaysTrans DEF Same

\* So does one that another task resumes.
LEMMA ResumeWaitingSound ==
  ASSUME NEW S, Sound(S), NEW i \in 1..Len(S.waiting), NEW n \in Nat
  PROVE  Sound(resume_waiting(S, i, n)) /\ Stays(S, resume_waiting(S, i, n))
<1>1. PICK t : t = [S.waiting[i] EXCEPT !.start = n]
  OBVIOUS
<1>2. PICK M : M = with_tqueue(S, t.progr)
  OBVIOUS
<1>3. PICK q : q = find_tqueue(M, t.progr)
  OBVIOUS
<1>4. S \in Good /\ t \in Tasks /\ t.progr \in Objids /\ RemoveIndex(S.waiting, i) \in Seq(Tasks)
  BY <1>1, WaitingType, RemoveIndexType DEF Sound, Tasks
<1>5. Sound(M) /\ Stays(S, M) /\ M.waiting = S.waiting
  BY <1>2, <1>4, WithTqueueSound, WithTqueueWaiting
<1>6. PICK T : T = enqueue_bg_task(
                     ensure_usage([M EXCEPT !.waiting = RemoveIndex(S.waiting, i)], q), q, t)
  OBVIOUS
<1>7. q # Null => Sound(T) /\ Same(M, T)
  <2>1. q # Null => q \in Live(M)
    BY <1>3, <1>5, FindTqueueType DEF Sound
  <2> QED
    BY <1>4, <1>5, <1>6, <2>1, MoveWaitingSound
<1>8. resume_waiting(S, i, n) = IF q = Null THEN M ELSE T
  BY <1>1, <1>2, <1>3, <1>5, <1>6 DEF resume_waiting
<1> QED
  BY <1>5, <1>7, <1>8, StaysTrans DEF Same

\* A waiting task is killed.
LEMMA KillWaitingSound ==
  ASSUME NEW S, Sound(S), NEW i \in 1..Len(S.waiting)
  PROVE  Sound(kill_waiting(S, i)) /\ Same(S, kill_waiting(S, i))
<1>1. PICK q : q = find_tqueue(S, S.waiting[i].progr)
  OBVIOUS
<1>2. S \in Good /\ RemoveIndex(S.waiting, i) \in Seq(Tasks)
  BY WaitingType, RemoveIndexType DEF Sound
<1>3. PICK C : C = [S EXCEPT !.waiting = RemoveIndex(S.waiting, i)]
  OBVIOUS
<1>4. Sound(C) /\ Same(S, C)
  BY <1>2, <1>3, SetWaitingSound
<1>5. q # Null => q \in Live(C) /\ C.tq[q].num - 1 \in Int
  BY <1>1, <1>2, <1>4, FindTqueueType, LiveType, NumType DEF Same, Sound
<1>6. kill_waiting(S, i) = IF q = Null THEN C ELSE [C EXCEPT !.tq[q].num = C.tq[q].num - 1]
  BY <1>1, <1>3 DEF kill_waiting
<1> QED
  BY <1>4, <1>5, <1>6, SetNumSound, SameTrans

-----------------------------------------------------------------------------
(* Connections. *)

\* The numbers of connections are negative, are nobody's, and differ.
LEMMA ConnIdFacts ==
  ASSUME NEW g \in Handles, NEW h \in Handles
  PROVE  /\ ConnId(h) \in Objids /\ ConnId(h) \notin Players /\ ConnId(h) < 0 /\ ConnId(h) # NOTHING
         /\ ConnId(g) = ConnId(h) => g = h
<1>1. g \in Nat /\ h \in Nat /\ h > 0
  BY ConstantsAssumption
<1>2. ConnId(h) = -1 - h /\ ConnId(g) = -1 - g
  BY DEF ConnId, NOTHING
<1>3. ConnId(h) \in Objids
  BY DEF Objids, Progrs
<1>4. \A p \in Players : p >= 0
  BY ConstantsAssumption
<1> QED
  BY <1>1, <1>2, <1>3, <1>4 DEF NOTHING

\* What two states of a connection opening have in common with the ones around them:
\* the handle h is new, q is its queue, and no queue or handle changes otherwise.
LEMMA OpenedServes ==
  ASSUME NEW S, Single(S), Wired(S), NEW h \in Handles, ~S.sh[h].open,
         NEW q \in Live(S), S.tq[q].player = ConnId(h),
         NEW T, Live(T) = Live(S),
         \A r \in Live(S) : T.tq[r].player = S.tq[r].player,
         \A r \in Live(S) : r # q => T.tq[r].connected = S.tq[r].connected,
         T.tq[q].connected,
         \A g \in Handles : g # h => T.sh[g] = S.sh[g],
         T.sh[h].open, T.sh[h].player = ConnId(h), T.sh[h].tasks = q
  PROVE  Single(T) /\ Wired(T)
<1>1. \A g \in Handles : S.sh[g].open => g # h /\ S.sh[g].player # ConnId(h)
  BY ConnIdFacts DEF Wired
<1>2. \A g \in Handles : S.sh[g].open => S.sh[g].tasks # q
  BY <1>1 DEF Wired
<1>3. Single(T)
  BY DEF Single
<1>4. \A g \in Handles : T.sh[g].open =>
       /\ T.sh[g].tasks \in Live(T)
       /\ T.tq[T.sh[g].tasks].connected
       /\ T.tq[T.sh[g].tasks].player = T.sh[g].player
       /\ T.sh[g].player \in Players \cup {ConnId(g)}
  <2> SUFFICES ASSUME NEW g \in Handles, T.sh[g].open
               PROVE  /\ T.sh[g].tasks \in Live(T)
                      /\ T.tq[T.sh[g].tasks].connected
                      /\ T.tq[T.sh[g].tasks].player = T.sh[g].player
                      /\ T.sh[g].player \in Players \cup {ConnId(g)}
    OBVIOUS
  <2>1. CASE g = h
    BY <2>1
  <2>2. CASE g # h
    BY <1>2, <2>2, SMTT(40) DEF Wired
  <2> QED
    BY <2>1, <2>2
<1>5. \A f, g \in Handles : T.sh[f].open /\ T.sh[g].open /\ T.sh[f].tasks = T.sh[g].tasks => f = g
  BY <1>2 DEF Wired
<1>6. \A r \in Live(T) : T.tq[r].connected => \E g \in Handles : T.sh[g].open /\ T.sh[g].tasks = r
  <2> SUFFICES ASSUME NEW r \in Live(S), T.tq[r].connected
               PROVE  \E g \in Handles : T.sh[g].open /\ T.sh[g].tasks = r
    OBVIOUS
  <2>1. CASE r = q
    BY <2>1
  <2>2. CASE r # q
    <3>1. PICK g \in Handles : S.sh[g].open /\ S.sh[g].tasks = r
      BY <2>2 DEF Wired
    <3> QED
      BY <1>1, <3>1
  <2> QED
    BY <2>1, <2>2
<1> QED
  BY <1>3, <1>4, <1>5, <1>6 DEF Wired

\* The state in which connection h has the queue q
Opened(M, q, h, outbound) ==
  [M EXCEPT !.tq[q].connected = TRUE,
            !.sh[h] = [NoHandle EXCEPT !.open = TRUE,
                                       !.player = ConnId(h),
                                       !.tasks = q,
                                       !.outbound = outbound]]

\* Nothing else has changed.
OnlyOpened(M, O, q, h) ==
  /\ O.tq = [M.tq EXCEPT ![q] = [M.tq[q] EXCEPT !.connected = TRUE]]
  /\ O.idle = M.idle /\ O.active = M.active /\ O.panic = M.panic
  /\ O.waiting = M.waiting
  /\ \A g \in Handles : g # h => O.sh[g] = M.sh[g]
  /\ \A r \in Live(M) : O.tq[r].player = M.tq[r].player

LEMMA OpenedSound ==
  ASSUME NEW M, Sound(M), NEW h \in Handles, ~M.sh[h].open, NEW q \in Live(M),
         M.tq[q].player = ConnId(h), NEW outbound \in BOOLEAN
  PROVE  /\ Sound(Opened(M, q, h, outbound))
         /\ OnlyOpened(M, Opened(M, q, h, outbound), q, h)
<1>0. PICK O : O = Opened(M, q, h, outbound)
  OBVIOUS
<1>1. M \in Good /\ q \in Queues /\ Single(M) /\ Wired(M)
  BY LiveType DEF Sound
<1>2. PICK f \in TQueues : f = [M.tq[q] EXCEPT !.connected = TRUE]
  <2>1. M.tq[q] \in TQueues
    BY <1>1, QueueType
  <2>2. [M.tq[q] EXCEPT !.connected = TRUE] \in TQueues
    BY <2>1 DEF TQueues
  <2> QED
    BY <2>2
<1>3. f.connected /\ f.player = M.tq[q].player /\ f.usage = M.tq[q].usage
  BY <1>1, <1>2 DEF Good, States, TQueues
<1>4. PICK s \in SHandles : s = [NoHandle EXCEPT !.open = TRUE, !.player = ConnId(h),
                                                 !.tasks = q, !.outbound = outbound]
  <2>1. NoHandle \in SHandles
    BY NewTypes DEF NoHandle, SHandles
  <2> QED
    BY <1>1, <2>1, ConnIdFacts DEF SHandles
<1>5. s.open /\ s.player = ConnId(h) /\ s.tasks = q
  BY <1>4 DEF NoHandle
<1>6. /\ O.tq = [M.tq EXCEPT ![q] = f] /\ O.sh = [M.sh EXCEPT ![h] = s]
      /\ O.idle = M.idle /\ O.active = M.active /\ O.panic = M.panic
      /\ O.waiting = M.waiting /\ O \in States
  BY <1>0, <1>1, <1>2, <1>4 DEF Good, States, Opened
<1>7. /\ \A r \in Queues : r # q => O.tq[r] = M.tq[r]
      /\ O.tq[q] = f
      /\ \A g \in Handles : g # h => O.sh[g] = M.sh[g]
      /\ O.sh[h] = s
  BY <1>1, <1>6 DEF Good, States
<1>8. O \in Good
  BY <1>1, <1>5, <1>6, <1>7 DEF Good
<1>9. Lists(M, O)
  BY <1>1, <1>3, <1>6, <1>7 DEF Lists
<1>10. Linked(O, {}) /\ Live(O) = Live(M)
  BY <1>1, <1>8, <1>9, ListsLinked DEF Sound
<1>11. \A r \in Live(M) : r \in Queues
  BY <1>1, LiveType
<1>12. \A r \in Live(M) : O.tq[r].player = M.tq[r].player
  BY <1>3, <1>7, <1>11
<1>13. Single(O) /\ Wired(O)
  BY <1>1, <1>3, <1>5, <1>7, <1>10, <1>11, <1>12, OpenedServes
<1>14. OnlyOpened(M, O, q, h)
  BY <1>2, <1>6, <1>7, <1>12 DEF OnlyOpened
<1> QED
  BY <1>0, <1>8, <1>10, <1>13, <1>14 DEF Sound

\* server_new_connection() in a slot that is free: h is open now.
LEMMA NewConnectionSound ==
  ASSUME NEW S, Sound(S), NEW h \in Handles, ~S.sh[h].open, NEW outbound \in BOOLEAN
  PROVE  LET T == server_new_connection(S, h, outbound)
         IN /\ Sound(T)
            /\ IsFiniteSet(Queues) \/ T.panic = S.panic
            /\ \A g \in Handles : T.sh[g].open => S.sh[g].open \/ g = h
            /\ Live(S) \subseteq Live(T)
            /\ \A r \in Live(S) : T.tq[r].player = S.tq[r].player
<1>1. PICK M : M = with_tqueue(S, ConnId(h))
  OBVIOUS
<1>2. PICK q : q = find_tqueue(M, ConnId(h))
  OBVIOUS
<1>3. Sound(M) /\ Stays(S, M) /\ M.sh = S.sh /\ M \in Good
  BY <1>1, ConnIdFacts, WithTqueueSound DEF Sound
<1>4. CASE q = Null
  <2>1. server_new_connection(S, h, outbound) = M
    BY <1>1, <1>2, <1>4 DEF server_new_connection
  <2> QED
    BY <1>3, <2>1 DEF Stays
<1>5. CASE q # Null
  <2>1. q \in Live(M) /\ q \in Queues /\ M.tq[q].player = ConnId(h)
    BY <1>2, <1>3, <1>5, FindTqueueType, LiveType
  <2>2. PICK O : O = Opened(M, q, h, outbound)
    OBVIOUS
  <2>3. ~M.sh[h].open
    BY <1>3
  <2>4. /\ Sound(O)
        /\ O.idle = M.idle /\ O.active = M.active /\ O.panic = M.panic
        /\ \A g \in Handles : g # h => O.sh[g] = M.sh[g]
        /\ \A r \in Live(M) : O.tq[r].player = M.tq[r].player
    <3>1. Sound(O) /\ OnlyOpened(M, O, q, h)
      BY <1>3, <2>1, <2>2, <2>3, OpenedSound
    <3> QED
      BY <3>1 DEF OnlyOpened
  <2>5. Live(O) = Live(M)
    BY <2>4 DEF Live
  <2>6. PICK A : A = enqueue_input_task(O, q, "blank", FALSE)
    OBVIOUS
  <2>7. Sound(A) /\ Same(O, A)
    <3>1. "blank" \in Lines /\ FALSE \in BOOLEAN /\ q \in Live(O)
      BY <2>1, <2>5 DEF Lines
    <3> QED
      BY <2>4, <2>6, <3>1, EnqueueInputSound
  <2>8. Sound(task_suspend_input(A, q)) /\ Same(A, task_suspend_input(A, q))
    BY <2>1, <2>5, <2>7, TaskSuspendSound DEF Same
  <2>9. PICK T : T = server_new_connection(S, h, outbound)
    OBVIOUS
  <2>10. T = O \/ T = task_suspend_input(A, q)
    BY <1>1, <1>2, <1>5, <2>2, <2>6, <2>9 DEF server_new_connection, Opened
  <2>11. Sound(T) /\ Same(O, T)
    BY <2>4, <2>7, <2>8, <2>10, SameTrans, NoChange
  <2>12. IsFiniteSet(Queues) \/ T.panic = S.panic
    BY <1>3, <2>4, <2>11 DEF Same, Stays
  <2>13. \A g \in Handles : T.sh[g].open => S.sh[g].open \/ g = h
    BY <1>3, <2>4, <2>11 DEF Same, Stays
  <2>14. Live(S) \subseteq Live(T) /\ \A r \in Live(S) : T.tq[r].player = S.tq[r].player
    BY <1>3, <2>4, <2>5, <2>11 DEF Same, Stays
  <2> QED
    BY <2>9, <2>11, <2>12, <2>13, <2>14
<1> QED
  BY <1>4, <1>5

\* free_task_queue(): the queue is not connected any more, and its reader may run.
LEMMA FreeTaskQueueLinked ==
  ASSUME NEW S \in Good, NEW q \in Live(S), Linked(S, {})
  PROVE  LET T == free_task_queue(S, q)
         IN /\ T \in Good /\ Linked(T, {}) /\ Live(T) = Live(S)
            /\ \A r \in Live(S) : T.tq[r].player = S.tq[r].player
            /\ \A r \in Live(S) : r # q => T.tq[r].connected = S.tq[r].connected
            /\ ~T.tq[q].connected
            /\ \A h \in Handles : /\ T.sh[h].open = S.sh[h].open
                                  /\ T.sh[h].player = S.sh[h].player
                                  /\ T.sh[h].tasks = S.sh[h].tasks
            /\ IsFiniteSet(Queues) \/ T.panic = S.panic
<1>1. q \in Queues /\ \A r \in Live(S) : r \in Queues
  BY LiveType
<1>2. PICK C : C = [S EXCEPT !.tq[q].connected = FALSE]
  OBVIOUS
<1>3. C \in Good
  BY <1>1, <1>2, SetFlagType
<1>4. C.idle = S.idle /\ C.active = S.active /\ C.sh = S.sh /\ C.panic = S.panic
  BY <1>2 DEF Good, States
<1>5. \A r \in Queues : r # q => C.tq[r] = S.tq[r]
  BY <1>2 DEF Good, States
<1>6. ~C.tq[q].connected /\ C.tq[q].player = S.tq[q].player /\ C.tq[q].usage = S.tq[q].usage
  BY <1>1, <1>2 DEF Good, States, TQueues
<1>7. Lists(S, C)
  BY <1>1, <1>4, <1>5, <1>6 DEF Lists
<1>8. Linked(C, {}) /\ Live(C) = Live(S)
  BY <1>3, <1>7, ListsLinked
<1>9. \A r \in Live(S) : /\ C.tq[r].player = S.tq[r].player
                         /\ r # q => C.tq[r].connected = S.tq[r].connected
  BY <1>1, <1>5, <1>6
<1>10. PICK T : T = free_task_queue(S, q)
  OBVIOUS
<1>11. T \in {C, ensure_usage(C, q)}
  BY <1>2, <1>10 DEF free_task_queue
<1>12. T \in Good /\ Linked(T, {}) /\ Same(C, T)
  BY <1>3, <1>8, <1>11, EnsureUsageLinked, NoChange
<1> QED
  BY <1>4, <1>6, <1>8, <1>9, <1>10, <1>12 DEF Same, Stays

\* free_shandle() closes the connection and frees its queue.
LEMMA FreeShandleLinked ==
  ASSUME NEW S \in Good, Linked(S, {}), NEW h \in Handles, NEW q \in Live(S), q = S.sh[h].tasks
  PROVE  LET T == free_shandle(S, h)
         IN /\ T \in Good /\ Linked(T, {}) /\ Live(T) = Live(S)
            /\ \A r \in Live(S) : T.tq[r].player = S.tq[r].player
            /\ \A r \in Live(S) : r # q => T.tq[r].connected = S.tq[r].connected
            /\ ~T.tq[q].connected
            /\ \A g \in Handles : g # h => /\ T.sh[g].open = S.sh[g].open
                                           /\ T.sh[g].player = S.sh[g].player
                                           /\ T.sh[g].tasks = S.sh[g].tasks
            /\ ~T.sh[h].open
            /\ IsFiniteSet(Queues) \/ T.panic = S.panic
<1>1. PICK C : C = [S EXCEPT !.sh[h] = NoHandle]
  OBVIOUS
<1>2. NoHandle \in SHandles /\ ~NoHandle.open
  BY NewTypes DEF NoHandle, SHandles
<1>3. C \in Good
  BY <1>1, <1>2 DEF Good, States
<1>4. /\ C.idle = S.idle /\ C.active = S.active /\ C.tq = S.tq /\ C.panic = S.panic
      /\ \A g \in Handles : g # h => C.sh[g] = S.sh[g]
      /\ ~C.sh[h].open
  BY <1>1, <1>2 DEF Good, States
<1>5. Linked(C, {}) /\ Live(C) = Live(S)
  BY <1>3, <1>4, ListsLinked DEF Lists
<1>6. PICK T : T = free_shandle(S, h)
  OBVIOUS
<1>7. T = free_task_queue(C, q)
  BY <1>1, <1>6 DEF free_shandle
<1>8. /\ T \in Good /\ Linked(T, {}) /\ Live(T) = Live(C)
      /\ \A r \in Live(C) : T.tq[r].player = C.tq[r].player
      /\ \A r \in Live(C) : r # q => T.tq[r].connected = C.tq[r].connected
      /\ ~T.tq[q].connected
      /\ \A g \in Handles : /\ T.sh[g].open = C.sh[g].open
                            /\ T.sh[g].player = C.sh[g].player
                            /\ T.sh[g].tasks = C.sh[g].tasks
      /\ IsFiniteSet(Queues) \/ T.panic = C.panic
  BY <1>3, <1>5, <1>7, FreeTaskQueueLinked, SMTT(40)
<1> QED
  BY <1>4, <1>5, <1>6, <1>8

\* A closed connection leaves its queue behind, with what is still queued on it.
LEMMA FreeShandleSound ==
  ASSUME NEW S, Sound(S), NEW h \in Handles, S.sh[h].open
  PROVE  LET T == free_shandle(S, h)
         IN /\ Sound(T)
            /\ IsFiniteSet(Queues) \/ T.panic = S.panic
            /\ \A g \in Handles : T.sh[g].open => S.sh[g].open
<1>1. PICK q : q = S.sh[h].tasks
  OBVIOUS
<1>2. S \in Good /\ q \in Live(S) /\ Linked(S, {}) /\ Single(S) /\ Wired(S)
  BY <1>1 DEF Sound, Wired
<1>3. PICK T : T = free_shandle(S, h)
  OBVIOUS
<1>4. /\ T \in Good /\ Linked(T, {}) /\ Live(T) = Live(S)
      /\ \A r \in Live(S) : T.tq[r].player = S.tq[r].player
      /\ \A r \in Live(S) : r # q => T.tq[r].connected = S.tq[r].connected
      /\ ~T.tq[q].connected
      /\ \A g \in Handles : g # h => /\ T.sh[g].open = S.sh[g].open
                                     /\ T.sh[g].player = S.sh[g].player
                                     /\ T.sh[g].tasks = S.sh[g].tasks
      /\ ~T.sh[h].open
      /\ IsFiniteSet(Queues) \/ T.panic = S.panic
  BY <1>1, <1>2, <1>3, FreeShandleLinked
<1>5. Single(T)
  BY <1>2, <1>4 DEF Single
<1>6. \A g \in Handles : T.sh[g].open =>
        /\ g # h /\ S.sh[g].open
        /\ T.sh[g].player = S.sh[g].player /\ T.sh[g].tasks = S.sh[g].tasks
        /\ S.sh[g].tasks # q
  BY <1>1, <1>2, <1>4 DEF Wired
<1>7. \A g \in Handles : g # h /\ S.sh[g].open => T.sh[g].open /\ T.sh[g].tasks = S.sh[g].tasks
  BY <1>4
<1>8. \A r \in Live(T) : T.tq[r].connected => \E g \in Handles : T.sh[g].open /\ T.sh[g].tasks = r
  <2> SUFFICES ASSUME NEW r \in Live(T), T.tq[r].connected
               PROVE  \E g \in Handles : T.sh[g].open /\ T.sh[g].tasks = r
    OBVIOUS
  <2>1. r # q /\ r \in Live(S) /\ S.tq[r].connected
    BY <1>4
  <2>2. PICK g \in Handles : S.sh[g].open /\ S.sh[g].tasks = r
    BY <1>2, <2>1 DEF Wired
  <2> QED
    BY <1>1, <1>7, <2>1, <2>2
<1>9. Wired(T)
  BY <1>2, <1>4, <1>6, <1>8 DEF Wired
<1> QED
  BY <1>3, <1>4, <1>5, <1>6, <1>9 DEF Sound

-----------------------------------------------------------------------------
(* Logging in: the queue and the handle of the connection take the player's *)
(* number, the player's former queue loses it, and the player's former      *)
(* connection is closed.  In between the names do not fit, so that what the *)
(* steps of log_in() do to them is collected first.                         *)

\* move_bg_to_old_player() makes a queue for the old number, which no queue has, and
\* changes no other name.
LEMMA MoveBgLinked ==
  ASSUME NEW S \in Good, Linked(S, {}), NEW q \in Live(S), NEW old \in Objids,
         \A r \in Live(S) : S.tq[r].player # old
  PROVE  LET T == move_bg_to_old_player(S, q, old)
         IN /\ T \in Good /\ Linked(T, {}) /\ Live(S) \subseteq Live(T)
            /\ Stays(S, T)
            /\ \A r \in Live(T) \ Live(S) : T.tq[r].player = old /\ ~T.tq[r].connected
            /\ \A r, s \in Live(T) \ Live(S) : r = s
<1>1. PICK M : M = with_tqueue(S, old)
  OBVIOUS
<1>2. PICK o : o = find_tqueue(M, old)
  OBVIOUS
<1>3. PICK T : T = move_bg_to_old_player(S, q, old)
  OBVIOUS
<1>4. /\ M \in Good /\ Linked(M, {}) /\ M.sh = S.sh
      /\ IsFiniteSet(Queues) \/ M.panic = S.panic
      /\ \/ Live(M) = Live(S) /\ M.tq = S.tq
         \/ \E n \in Queues \ Live(S) :
              /\ Live(M) = Live(S) \cup {n}
              /\ M.tq = [S.tq EXCEPT ![n] = [NewTQueue EXCEPT !.player = old]]
  BY <1>1, WithTqueueMade
<1>5. /\ Stays(S, M)
      /\ \A r \in Live(M) \ Live(S) : M.tq[r].player = old /\ ~M.tq[r].connected
      /\ \A r, s \in Live(M) \ Live(S) : r = s
  <2>1. CASE Live(M) = Live(S) /\ M.tq = S.tq
    BY <1>4, <2>1 DEF Stays
  <2>2. ASSUME NEW n \in Queues \ Live(S), Live(M) = Live(S) \cup {n},
               M.tq = [S.tq EXCEPT ![n] = [NewTQueue EXCEPT !.player = old]]
        PROVE  /\ Stays(S, M)
               /\ \A r \in Live(M) \ Live(S) : M.tq[r].player = old /\ ~M.tq[r].connected
               /\ \A r, s \in Live(M) \ Live(S) : r = s
    <3>1. \A r \in Live(S) : M.tq[r] = S.tq[r]
      BY <2>2, LiveType DEF Good, States
    <3>2. M.tq[n] = [NewTQueue EXCEPT !.player = old]
      BY <2>2 DEF Good, States
    <3>3. M.tq[n].player = old /\ ~M.tq[n].connected
      BY <3>2 DEF NewTQueue
    <3>4. Stays(S, M)
      BY <1>4, <2>2, <3>1 DEF Stays
    <3> QED
      BY <2>2, <3>3, <3>4
  <2> QED
    BY <1>4, <2>1, <2>2
<1>6. Edit(M, T) \/ T = S
  <2>1. CASE S.tq[q].num = 0
    BY <1>3, <2>1 DEF move_bg_to_old_player
  <2>2. CASE S.tq[q].num # 0 /\ o = Null
    BY <1>1, <1>2, <1>3, <2>2, NoChange DEF move_bg_to_old_player
  <2>3. CASE S.tq[q].num # 0 /\ o # Null
    <3>1. o \in Live(M) /\ o \in Queues /\ q \in Live(M) /\ q \in Queues
      BY <1>2, <1>4, <1>5, <2>3, FindTqueueType, LiveType DEF Stays
    <3>2. PICK bg \in Seq(Tasks) : bg = M.tq[o].bg \o S.tq[q].bg
      <4>1. M.tq[o].bg \in Seq(Tasks) /\ S.tq[q].bg \in Seq(Tasks)
        BY <1>4, <3>1, QueueType
      <4>2. M.tq[o].bg \o S.tq[q].bg \in Seq(Tasks)
        BY <4>1, ConcatProperties
      <4> QED
        BY <4>2
    <3>3. PICK n \in Int : n = S.tq[q].num
      BY <3>1, NumType
    <3>4. PICK A : A = [M EXCEPT !.tq[o].bg = bg, !.tq[o].num = n]
      OBVIOUS
    <3>5. A \in Good /\ Edit(M, A)
      BY <1>4, <3>1, <3>4, SetBgEdit
    <3>6. q \in Live(A) /\ <<>> \in Seq(Tasks) /\ 0 \in Int
      BY <3>1, <3>5, EditSame, SMTT(40) DEF Same
    <3>7. T = [A EXCEPT !.tq[q].bg = <<>>, !.tq[q].num = 0]
      BY <1>1, <1>2, <1>3, <2>3, <3>2, <3>3, <3>4 DEF move_bg_to_old_player
    <3>8. Edit(A, T)
      BY <3>5, <3>6, <3>7, SetBgEdit
    <3> QED
      BY <3>5, <3>8, EditTrans
  <2> QED
    BY <2>1, <2>2, <2>3
<1>7. T \in Good
  BY <1>3, LiveType, MoveBgType
<1>8. CASE Edit(M, T)
  <2>1. Linked(T, {}) /\ Live(T) = Live(M)
    BY <1>4, <1>7, <1>8, ListsLinked DEF Edit
  <2>2. Stays(S, T)
    BY <1>5, <1>8, StaysTrans DEF Edit
  <2>3. \A r \in Live(M) : T.tq[r].player = M.tq[r].player /\ T.tq[r].connected = M.tq[r].connected
    BY <1>8 DEF Edit, Stays
  <2> QED
    BY <1>3, <1>5, <1>7, <2>1, <2>2, <2>3 DEF Stays
<1>9. CASE T = S
  BY <1>3, <1>9, NoChange
<1> QED
  BY <1>6, <1>8, <1>9

\* take_over_queue() takes the name of the player's former queue away.
LEMMA TakeOverLinked ==
  ASSUME NEW S \in Good, Linked(S, {}), NEW q \in Live(S), NEW dead \in Live(S) \cup {Null},
         dead # Null => Known(S, dead)
  PROVE  LET T == take_over_queue(S, q, dead)
         IN /\ T \in Good /\ Linked(T, {}) /\ Live(T) = Live(S)
            /\ \A r \in Live(S) :
                 /\ T.tq[r].player = IF r = dead THEN NOTHING ELSE S.tq[r].player
                 /\ T.tq[r].connected = S.tq[r].connected
            /\ \A h \in Handles : /\ T.sh[h].open = S.sh[h].open
                                  /\ T.sh[h].player = S.sh[h].player
                                  /\ T.sh[h].tasks = S.sh[h].tasks
            /\ IsFiniteSet(Queues) \/ T.panic = S.panic
<1>1. PICK T : T = take_over_queue(S, q, dead)
  OBVIOUS
<1>2. CASE dead = Null
  <2>1. T = S /\ dead \notin Live(S)
    BY <1>1, <1>2, LiveType, NullIsNoQueue DEF take_over_queue
  <2> QED
    BY <1>1, <2>1
<1>3. CASE dead # Null
  <2>1. dead \in Live(S) /\ dead \in Queues /\ q \in Queues /\ Known(S, dead)
    BY <1>3, LiveType
  <2>2. PICK F : F = flush_input(S, dead)
    OBVIOUS
  <2>3. F \in Good /\ Edit(S, F)
    BY <2>1, <2>2, FlushInputEdit
  <2>4. q \in Live(F) /\ dead \in Live(F) /\ Live(F) = Live(S)
    BY <2>1, <2>3, EditSame DEF Same
  <2>5. PICK bg \in Seq(Tasks) : bg = F.tq[q].bg \o S.tq[dead].bg
    <3>1. F.tq[q].bg \in Seq(Tasks) /\ S.tq[dead].bg \in Seq(Tasks)
      BY <2>1, <2>3, QueueType
    <3>2. F.tq[q].bg \o S.tq[dead].bg \in Seq(Tasks)
      BY <3>1, ConcatProperties
    <3> QED
      BY <3>2
  <2>6. PICK n \in Int : n = S.tq[dead].num
    BY <2>1, NumType
  <2>7. PICK A : A = [F EXCEPT !.tq[q].bg = bg, !.tq[q].num = n]
    OBVIOUS
  <2>8. A \in Good /\ Edit(F, A)
    BY <2>3, <2>4, <2>7, SetBgEdit
  <2>9. dead \in Live(A) /\ <<>> \in Seq(Tasks) /\ 0 \in Int
    BY <2>4, <2>8, EditSame DEF Same
  <2>10. PICK N : N = [A EXCEPT !.tq[dead].bg = <<>>, !.tq[dead].num = 0]
    OBVIOUS
  <2>11. N \in Good /\ Edit(A, N)
    BY <2>8, <2>9, <2>10, SetBgEdit
  <2>12. Edit(S, N)
    BY <2>3, <2>8, <2>11, EditTrans, SMTT(40)
  <2>13. T = [N EXCEPT !.tq[dead].player = NOTHING]
    BY <1>1, <1>3, <2>2, <2>5, <2>6, <2>7, <2>10 DEF take_over_queue
  <2>14. T \in Good
    BY <2>1, <2>11, <2>13, NewTypes, SetPlayerType
  <2>15. T.idle = N.idle /\ T.active = N.active /\ T.sh = N.sh /\ T.panic = N.panic
    BY <2>11, <2>13 DEF Good, States
  <2>16. \A r \in Queues : r # dead => T.tq[r] = N.tq[r]
    BY <2>11, <2>13 DEF Good, States
  <2>17. /\ T.tq[dead].player = NOTHING /\ T.tq[dead].usage = N.tq[dead].usage
         /\ T.tq[dead].connected = N.tq[dead].connected
    BY <2>1, <2>11, <2>13 DEF Good, States, TQueues
  <2>18. Linked(N, {}) /\ Live(N) = Live(S)
    BY <2>11, <2>12, ListsLinked DEF Edit
  <2>19. Lists(N, T)
    BY <2>1, <2>15, <2>16, <2>17, <2>18 DEF Lists
  <2>20. Linked(T, {}) /\ Live(T) = Live(S)
    BY <2>11, <2>14, <2>18, <2>19, ListsLinked
  <2>21. \A r \in Live(S) : /\ N.tq[r].player = S.tq[r].player
                            /\ N.tq[r].connected = S.tq[r].connected
                            /\ r \in Queues
    BY <2>12, LiveType DEF Edit, Stays
  <2>22. \A r \in Live(S) : /\ T.tq[r].player = IF r = dead THEN NOTHING ELSE S.tq[r].player
                            /\ T.tq[r].connected = S.tq[r].connected
    BY <2>16, <2>17, <2>21, SMTT(40)
  <2> QED
    BY <1>1, <2>12, <2>14, <2>15, <2>20, <2>22 DEF Edit, Stays
<1> QED
  BY <1>2, <1>3

\* What a login does to names and connections, all told: the queue of handle nh is
\* renamed with it, dead loses its name, ex is closed, and a queue for the old number
\* may be new.
Renames(S, T, nh, q, old, new, dead, ex) ==
  /\ S.sh[nh].open /\ q = S.sh[nh].tasks /\ old = S.tq[q].player
  /\ old # NOTHING /\ new # old /\ new # NOTHING
  /\ dead \in Live(S) => S.tq[dead].player = new
  /\ \A r \in Live(S) : S.tq[r].player = new => r = dead
  /\ ex \in Handles => S.sh[ex].open /\ S.sh[ex].player = new
  /\ \A h \in Handles : S.sh[h].open /\ S.sh[h].player = new => h = ex
  /\ Live(S) \subseteq Live(T)
  /\ \A r \in Live(T) \ Live(S) : T.tq[r].player = old /\ ~T.tq[r].connected
  /\ \A r, s \in Live(T) \ Live(S) : r = s
  /\ \A r \in Live(S) :
       T.tq[r].player = IF r = dead THEN NOTHING ELSE IF r = q THEN new ELSE S.tq[r].player
  /\ \A r \in Live(S) : T.tq[r].connected <=>
       S.tq[r].connected /\ (ex \in Handles => r # S.sh[ex].tasks)
  /\ \A h \in Handles : T.sh[h].open <=> S.sh[h].open /\ h # ex
  /\ \A h \in Handles : h # ex => T.sh[h].tasks = S.sh[h].tasks
  /\ \A h \in Handles : h # ex => T.sh[h].player = IF h = nh THEN new ELSE S.sh[h].player

\* Renamed so, every queue and every connection still belong together.
LEMMA LoginServes ==
  ASSUME NEW S, Single(S), Wired(S), NEW T, NEW nh \in Handles, NEW q, NEW old,
         NEW new \in Players, NEW dead, NEW ex, Renames(S, T, nh, q, old, new, dead, ex)
  PROVE  Single(T) /\ Wired(T)
<1> USE DEF Renames
<1>1. q \in Live(S) /\ S.tq[q].connected /\ S.sh[nh].player = old /\ q # dead /\ nh # ex
  BY DEF Wired
<1>2. Single(T)
  <2> SUFFICES ASSUME NEW r \in Live(T), NEW s \in Live(T), r # s,
                      T.tq[r].player = T.tq[s].player, T.tq[r].player # NOTHING
               PROVE  FALSE
    BY SMTT(40) DEF Single
  <2>1. \A x \in Live(S) : x # q => S.tq[x].player # old
    BY <1>1, SMTT(40) DEF Single
  <2>2. \A x \in Live(S) : T.tq[x].player # old
    BY <1>1, <2>1
  <2>3. r \in Live(S) /\ s \in Live(S)
    BY <2>2
  <2>4. r # dead /\ s # dead
    BY <2>3, SMTT(40)
  <2>5. CASE r = q
    BY <1>1, <2>3, <2>4, <2>5, SMTT(40)
  <2>6. CASE s = q
    BY <1>1, <2>3, <2>4, <2>6, SMTT(40)
  <2>7. CASE r # q /\ s # q
    BY <2>3, <2>4, <2>7, SMTT(40) DEF Single
  <2> QED
    BY <2>5, <2>6, <2>7
<1>3. ASSUME NEW h \in Handles, T.sh[h].open
      PROVE  /\ T.sh[h].tasks \in Live(T)
             /\ T.tq[T.sh[h].tasks].connected
             /\ T.tq[T.sh[h].tasks].player = T.sh[h].player
             /\ T.sh[h].player \in Players \cup {ConnId(h)}
  <2>1. S.sh[h].open /\ h # ex /\ T.sh[h].tasks = S.sh[h].tasks
    BY <1>3
  <2>2. PICK r : r = S.sh[h].tasks
    BY SMTT(40)
  <2>3. r \in Live(S) /\ S.tq[r].connected /\ S.tq[r].player = S.sh[h].player
          /\ S.sh[h].player \in Players \cup {ConnId(h)}
    BY <2>1, <2>2, SMTT(40) DEF Wired
  <2>4. ex \in Handles => r # S.sh[ex].tasks
    BY <2>1, <2>2 DEF Wired
  <2>5. r # dead
    BY <2>1, <2>3
  <2>6. T.tq[r].connected /\ r \in Live(T)
    BY <2>3, <2>4, SMTT(40)
  <2>7. CASE h = nh
    BY <1>1, <2>1, <2>2, <2>3, <2>5, <2>6, <2>7, SMTT(40)
  <2>8. CASE h # nh
    <3>1. r # q
      BY <2>1, <2>2, <2>8 DEF Wired
    <3> QED
      BY <2>1, <2>2, <2>3, <2>5, <2>6, <2>8, <3>1, SMTT(40)
  <2> QED
    BY <2>7, <2>8
<1>4. \A g, h \in Handles : T.sh[g].open /\ T.sh[h].open /\ T.sh[g].tasks = T.sh[h].tasks => g = h
  BY DEF Wired
<1>5. ASSUME NEW r \in Live(T), T.tq[r].connected
      PROVE  \E h \in Handles : T.sh[h].open /\ T.sh[h].tasks = r
  <2>1. r \in Live(S) /\ S.tq[r].connected /\ (ex \in Handles => r # S.sh[ex].tasks)
    BY <1>5
  <2>2. PICK h \in Handles : S.sh[h].open /\ S.sh[h].tasks = r
    BY <2>1 DEF Wired
  <2>3. h # ex
    BY <2>1, <2>2
  <2> QED
    BY <2>2, <2>3
<1> QED
  BY <1>2, <1>3, <1>4, <1>5, SMTT(40) DEF Wired

\* The queues a login leaves behind, before player_connected(): N has the queue renamed,
\* B has its tasks moved, and C has those of the player's former queue moved to it.
LoginMoves(S, q, new, old, dead, N, B, C) ==
  /\ old = S.tq[q].player
  /\ dead = find_tqueue(S, new)
  /\ N = [S EXCEPT !.tq[q].player = new]
  /\ B = move_bg_to_old_player(N, q, old)
  /\ C = take_over_queue(B, q, dead)

\* The names of the login, and its queues before the first step and after the last
LoginNames(S, q, new, old, dead) ==
  /\ old \in Objids /\ new \in Objids /\ new # NOTHING /\ new # old /\ old # NOTHING
  /\ \A h \in Handles : S.sh[h].open /\ S.sh[h].tasks = q => S.sh[h].player = old
  /\ dead \in Live(S) \cup {Null}
  /\ dead # Null => S.tq[dead].player = new
  /\ \A r \in Live(S) : S.tq[r].player = new => r = dead
  /\ q # dead

LoginQueues(S, C, q, new, old, dead) ==
  /\ C \in Good /\ Linked(C, {})
  /\ \A h \in Handles : /\ C.sh[h].open = S.sh[h].open
                        /\ C.sh[h].player = S.sh[h].player
                        /\ C.sh[h].tasks = S.sh[h].tasks
  /\ IsFiniteSet(Queues) \/ C.panic = S.panic
  /\ \A r \in Live(S) :
       /\ C.tq[r].player = IF r = dead THEN NOTHING ELSE IF r = q THEN new ELSE S.tq[r].player
       /\ C.tq[r].connected = S.tq[r].connected
  /\ Live(S) \subseteq Live(C)
  /\ \A r \in Live(C) \ Live(S) : C.tq[r].player = old /\ ~C.tq[r].connected
  /\ \A r, s \in Live(C) \ Live(S) : r = s

LEMMA LogInMoves ==
  ASSUME NEW S, Sound(S), NEW q \in Live(S), S.tq[q].connected, S.tq[q].player < 0,
         NEW new \in Players, NEW old, NEW dead, NEW N, NEW B, NEW C,
         LoginMoves(S, q, new, old, dead, N, B, C)
  PROVE  /\ LoginNames(S, q, new, old, dead)
         /\ N \in Good /\ Linked(N, {}) /\ Live(N) = Live(S)
         /\ \A r \in Live(N) : N.tq[r].player # old
         /\ B \in Good /\ Linked(B, {})
         /\ LoginQueues(S, C, q, new, old, dead)
<1>1. S \in Good /\ Linked(S, {}) /\ Single(S) /\ Wired(S) /\ q \in Queues
  BY LiveType DEF Sound
<1>2. PICK nh \in Handles : S.sh[nh].open /\ S.sh[nh].tasks = q
  BY <1>1 DEF Wired
<1>3. old \in Objids /\ old = S.tq[q].player
  BY <1>1, QueueType DEF LoginMoves
<1>4. new \in Objids /\ new # NOTHING /\ new # old
  BY <1>3, ConstantsAssumption DEF Objids, Progrs, NOTHING
<1>5. old # NOTHING /\ S.sh[nh].player = old
  <2>1. S.sh[nh].player = old /\ S.sh[nh].player \in Players \cup {ConnId(nh)}
    BY <1>1, <1>2, <1>3 DEF Wired
  <2> QED
    BY <1>3, <2>1, ConnIdFacts, ConstantsAssumption DEF NOTHING
<1>6. dead = find_tqueue(S, new)
  BY DEF LoginMoves
<1>7. /\ dead \in Live(S) \cup {Null}
      /\ dead # Null => S.tq[dead].player = new
      /\ \A r \in Live(S) : S.tq[r].player = new => r = dead
  <2>1. dead \in Live(S) \cup {Null} /\ (dead # Null => S.tq[dead].player = new)
    BY <1>1, <1>6, FindTqueueType
  <2>2. dead = Null => \A r \in Live(S) : S.tq[r].player # new
    BY <1>1, <1>6, NotFound
  <2> QED
    BY <1>1, <1>4, <2>1, <2>2 DEF Single
<1>8. q # dead
  BY <1>1, <1>3, <1>4, <1>7, NullIsNoQueue
\* The queue is renamed.
<1>9. N = [S EXCEPT !.tq[q].player = new]
  BY DEF LoginMoves
<1>10. N \in Good
  BY <1>1, <1>4, <1>9, SetPlayerType
<1>11. N.idle = S.idle /\ N.active = S.active /\ N.sh = S.sh /\ N.panic = S.panic
  BY <1>1, <1>9 DEF Good, States
<1>12. \A r \in Queues : r # q => N.tq[r] = S.tq[r]
  BY <1>1, <1>9 DEF Good, States
<1>13. N.tq[q].player = new /\ N.tq[q].usage = S.tq[q].usage /\ N.tq[q].connected = S.tq[q].connected
  BY <1>1, <1>9 DEF Good, States, TQueues
<1>14. Linked(N, {}) /\ Live(N) = Live(S)
  <2>1. Lists(S, N)
    BY <1>1, <1>11, <1>12, <1>13 DEF Lists
  <2> QED
    BY <1>1, <1>10, <2>1, ListsLinked
<1>15. \A r \in Live(S) : /\ N.tq[r].player = IF r = q THEN new ELSE S.tq[r].player
                          /\ N.tq[r].connected = S.tq[r].connected
  BY <1>1, <1>12, <1>13, LiveType
<1>16. \A r \in Live(N) : N.tq[r].player # old
  BY <1>1, <1>3, <1>4, <1>5, <1>14, <1>15 DEF Single
\* Its background tasks move.
<1>17. B = move_bg_to_old_player(N, q, old)
  BY DEF LoginMoves
<1>18. /\ B \in Good /\ Linked(B, {}) /\ Live(N) \subseteq Live(B) /\ Stays(N, B)
       /\ \A r \in Live(B) \ Live(N) : B.tq[r].player = old /\ ~B.tq[r].connected
       /\ \A r, s \in Live(B) \ Live(N) : r = s
  BY <1>3, <1>10, <1>14, <1>16, <1>17, MoveBgLinked
\* The player's former queue is taken over.
<1>19. C = take_over_queue(B, q, dead)
  BY DEF LoginMoves
<1>20. dead # Null => Known(B, dead)
  <2> SUFFICES ASSUME dead # Null, B.tq[dead].connected
               PROVE  find_shandle(B, B.tq[dead].player) # Null
    BY DEF Known
  <2>1. dead \in Live(S) /\ dead \in Live(N)
    BY <1>7, <1>14
  <2>2. B.tq[dead].player = new /\ S.tq[dead].connected
    BY <1>7, <1>8, <1>15, <1>18, <2>1 DEF Stays
  <2>3. PICK h \in Handles : S.sh[h].open /\ S.sh[h].tasks = dead
    BY <1>1, <2>1, <2>2 DEF Wired
  <2>4. S.sh[h].player = new
    BY <1>1, <1>7, <2>3 DEF Wired
  <2>5. B.sh[h].open /\ B.sh[h].player = new
    BY <1>11, <1>18, <2>3, <2>4 DEF Stays
  <2> QED
    BY <2>2, <2>5, FindShandle
<1>21. dead \in Live(B) \cup {Null} /\ q \in Live(B)
  BY <1>7, <1>14, <1>18
<1>22. /\ C \in Good /\ Linked(C, {}) /\ Live(C) = Live(B)
       /\ \A r \in Live(B) :
            /\ C.tq[r].player = IF r = dead THEN NOTHING ELSE B.tq[r].player
            /\ C.tq[r].connected = B.tq[r].connected
       /\ \A h \in Handles : /\ C.sh[h].open = B.sh[h].open
                             /\ C.sh[h].player = B.sh[h].player
                             /\ C.sh[h].tasks = B.sh[h].tasks
       /\ IsFiniteSet(Queues) \/ C.panic = B.panic
  BY <1>18, <1>19, <1>20, <1>21, TakeOverLinked
<1>23. \A h \in Handles : /\ C.sh[h].open = S.sh[h].open
                          /\ C.sh[h].player = S.sh[h].player
                          /\ C.sh[h].tasks = S.sh[h].tasks
  BY <1>11, <1>18, <1>22 DEF Stays
<1>24. IsFiniteSet(Queues) \/ C.panic = S.panic
  BY <1>11, <1>18, <1>22 DEF Stays
<1>25. \A r \in Live(S) :
         /\ C.tq[r].player = IF r = dead THEN NOTHING ELSE IF r = q THEN new ELSE S.tq[r].player
         /\ C.tq[r].connected = S.tq[r].connected
  BY <1>14, <1>15, <1>18, <1>22 DEF Stays
<1>26. /\ Live(S) \subseteq Live(C)
       /\ \A r \in Live(C) \ Live(S) : C.tq[r].player = old /\ ~C.tq[r].connected
       /\ \A r, s \in Live(C) \ Live(S) : r = s
  <2>1. dead \notin Live(C) \ Live(S)
    BY <1>7, <1>18, <1>22, NullIsNoQueue, LiveType
  <2> QED
    BY <1>14, <1>18, <1>22, <2>1
<1>27. LoginNames(S, q, new, old, dead)
  <2>1. \A h \in Handles : S.sh[h].open /\ S.sh[h].tasks = q => S.sh[h].player = old
    BY <1>1, <1>3 DEF Wired
  <2> QED
    BY <1>3, <1>4, <1>5, <1>7, <1>8, <2>1, Zenon DEF LoginNames
<1>28. LoginQueues(S, C, q, new, old, dead)
  BY <1>22, <1>23, <1>24, <1>25, <1>26, Zenon DEF LoginQueues
<1> QED
  BY <1>10, <1>14, <1>16, <1>18, <1>27, <1>28

\* player_connected() finds the handle it names: the connection was open when the
\* login command was typed, and nothing closes it while the task runs.
LEMMA LogInSound ==
  ASSUME NEW S, Sound(S), NEW q \in Live(S), S.tq[q].connected, S.tq[q].player < 0,
         NEW new \in Players
  PROVE  LET T == log_in(S, q, new)
         IN /\ Sound(T)
            /\ IsFiniteSet(Queues) \/ T.panic = S.panic
            /\ \A h \in Handles : T.sh[h].open => S.sh[h].open
<1>1. S \in Good /\ Linked(S, {}) /\ Single(S) /\ Wired(S) /\ q \in Queues
  BY LiveType DEF Sound
<1>2. PICK nh \in Handles : S.sh[nh].open /\ S.sh[nh].tasks = q
  BY <1>1 DEF Wired
<1>3. PICK old : old = S.tq[q].player
  OBVIOUS
<1>4. PICK dead : dead = find_tqueue(S, new)
  OBVIOUS
<1>5. PICK N : N = [S EXCEPT !.tq[q].player = new]
  OBVIOUS
<1>6. PICK B : B = move_bg_to_old_player(N, q, old)
  OBVIOUS
<1>7. PICK C : C = take_over_queue(B, q, dead)
  OBVIOUS
<1>8. LoginNames(S, q, new, old, dead) /\ LoginQueues(S, C, q, new, old, dead)
  <2>1. LoginMoves(S, q, new, old, dead, N, B, C)
    BY <1>3, <1>4, <1>5, <1>6, <1>7, Zenon DEF LoginMoves
  <2> QED
    BY <2>1, LogInMoves
<1>9. old \in Objids /\ new \in Objids /\ new # NOTHING /\ new # old
  BY <1>8 DEF LoginNames
<1>10. old # NOTHING /\ S.sh[nh].player = old
  BY <1>2, <1>8 DEF LoginNames
<1>11. /\ dead \in Live(S) \cup {Null}
       /\ dead # Null => S.tq[dead].player = new
       /\ \A r \in Live(S) : S.tq[r].player = new => r = dead
  BY <1>8 DEF LoginNames
<1>12. C \in Good /\ Linked(C, {})
  BY <1>8 DEF LoginQueues
<1>13. \A h \in Handles : /\ C.sh[h].open = S.sh[h].open
                          /\ C.sh[h].player = S.sh[h].player
                          /\ C.sh[h].tasks = S.sh[h].tasks
  BY <1>8 DEF LoginQueues
<1>14. IsFiniteSet(Queues) \/ C.panic = S.panic
  BY <1>8 DEF LoginQueues
<1>15. \A r \in Live(S) :
         /\ C.tq[r].player = IF r = dead THEN NOTHING ELSE IF r = q THEN new ELSE S.tq[r].player
         /\ C.tq[r].connected = S.tq[r].connected
  BY <1>8 DEF LoginQueues
<1>16. /\ Live(S) \subseteq Live(C)
       /\ \A r \in Live(C) \ Live(S) : C.tq[r].player = old /\ ~C.tq[r].connected
       /\ \A r, s \in Live(C) \ Live(S) : r = s
  BY <1>8 DEF LoginQueues
\* The handle of the connection is found.
<1>17. find_shandle(C, old) = nh
  <2>1. C.sh[nh].open /\ C.sh[nh].player = old
    BY <1>2, <1>10, <1>13
  <2>2. PICK g \in Handles : g = find_shandle(C, old) /\ C.sh[g].open /\ C.sh[g].player = old
    BY <2>1, FindShandle
  <2>3. S.sh[g].open /\ S.sh[g].player = old
    BY <1>13, <2>2
  <2>4. S.sh[g].tasks \in Live(S) /\ S.tq[S.sh[g].tasks].player = old
    BY <1>1, <2>3 DEF Wired
  <2>5. S.sh[g].tasks = q
    BY <1>1, <1>3, <1>10, <2>4 DEF Single
  <2>6. g = nh
    BY <1>1, <1>2, <2>3, <2>5 DEF Wired
  <2> QED
    BY <2>2, <2>6
<1>18. nh # Null
  BY NullIsNoQueue
<1>19. PICK ex : ex = find_shandle(C, new)
  OBVIOUS
<1>20. /\ ex \in Handles \cup {Null}
       /\ ex # Null => S.sh[ex].open /\ S.sh[ex].player = new
       /\ \A h \in Handles : S.sh[h].open /\ S.sh[h].player = new => h = ex
  <2>1. ex \in Handles \cup {Null} /\ (ex # Null => C.sh[ex].open)
    BY <1>12, <1>19, FindShandleType
  <2>2. \A h \in Handles : S.sh[h].open /\ S.sh[h].player = new =>
          ex \in Handles /\ S.sh[ex].open /\ S.sh[ex].player = new
    BY <1>13, <1>19, FindShandle
  <2>3. ex # Null => S.sh[ex].open /\ S.sh[ex].player = new
    <3> SUFFICES ASSUME ex # Null
                 PROVE  S.sh[ex].open /\ S.sh[ex].player = new
      OBVIOUS
    <3>1. ex \in {h \in Handles : C.sh[h].open /\ C.sh[h].player = new}
      BY <1>19 DEF find_shandle
    <3> QED
      BY <1>13, <3>1
  <2>4. \A h \in Handles : S.sh[h].open /\ S.sh[h].player = new => h = ex
    <3> SUFFICES ASSUME NEW h \in Handles, S.sh[h].open, S.sh[h].player = new
                 PROVE  h = ex
      OBVIOUS
    <3>1. ex \in Handles /\ S.sh[ex].open /\ S.sh[ex].player = new
      BY <2>2
    <3>2. \A g \in Handles : S.sh[g].open /\ S.sh[g].player = new => S.sh[g].tasks = dead
      <4>1. \A g \in Handles : S.sh[g].open =>
              S.sh[g].tasks \in Live(S) /\ S.tq[S.sh[g].tasks].player = S.sh[g].player
        BY <1>1 DEF Wired
      <4> QED
        BY <1>11, <4>1
    <3>3. S.sh[h].tasks = S.sh[ex].tasks
      BY <3>1, <3>2
    <3> QED
      BY <1>1, <3>1, <3>3 DEF Wired
  <2> QED
    BY <2>1, <2>3, <2>4
\* It takes the player's number.
<1>21. PICK D : D = [C EXCEPT !.sh[nh].player = new, !.sh[nh].login = TRUE]
  OBVIOUS
<1>22. /\ D.tq = C.tq /\ D.idle = C.idle /\ D.active = C.active /\ D.panic = C.panic
       /\ D.waiting = C.waiting
  BY <1>12, <1>21 DEF Good, States
<1>23. /\ \A h \in Handles : h # nh => D.sh[h] = C.sh[h]
       /\ D.sh[nh].open = C.sh[nh].open /\ D.sh[nh].tasks = C.sh[nh].tasks
       /\ D.sh[nh].player = new
  <2>1. D.sh = [C.sh EXCEPT ![nh] = [C.sh[nh] EXCEPT !.player = new, !.login = TRUE]]
    BY <1>12, <1>21 DEF Good, States
  <2> QED
    BY <1>12, <2>1 DEF Good, States, SHandles
<1>24. D \in Good
  <2>1. [C.sh[nh] EXCEPT !.player = new, !.login = TRUE] \in SHandles
    <3>1. C.sh[nh] \in SHandles
      BY <1>12 DEF Good, States
    <3> QED
      BY <1>9, <3>1 DEF SHandles
  <2>2. D = [C EXCEPT !.sh = [C.sh EXCEPT ![nh] = [C.sh[nh] EXCEPT !.player = new, !.login = TRUE]]]
    BY <1>12, <1>21 DEF Good, States
  <2>3. D \in States
    BY <1>12, <2>1, <2>2 DEF Good, States
  <2> QED
    BY <1>12, <1>23, <2>3 DEF Good
<1>25. Linked(D, {}) /\ Live(D) = Live(C)
  BY <1>12, <1>22, <1>24, ListsLinked DEF Lists
<1>26. PICK T : T = log_in(S, q, new)
  OBVIOUS
<1>27. T = IF ex = Null THEN D ELSE free_shandle(D, ex)
  <2>1. T = player_connected(C, old, new)
    BY <1>3, <1>4, <1>5, <1>6, <1>7, <1>26 DEF log_in
  <2> QED
    BY <1>17, <1>18, <1>19, <1>21, <2>1 DEF player_connected
<1>28. CASE ex = Null
  <2>1. T = D /\ ex \notin Handles
    BY <1>27, <1>28, NullIsNoQueue
  <2>2. \A h \in Handles : /\ D.sh[h].open <=> S.sh[h].open /\ h # ex
                           /\ D.sh[h].tasks = S.sh[h].tasks
                           /\ D.sh[h].player = IF h = nh THEN new ELSE S.sh[h].player
    BY <1>13, <1>23, <2>1
  <2>3. Renames(S, D, nh, q, old, new, dead, ex)
    <3>1. /\ dead \in Live(S) => S.tq[dead].player = new
          /\ ex \in Handles => S.sh[ex].open /\ S.sh[ex].player = new
          /\ S.sh[nh].open /\ q = S.sh[nh].tasks
      <4>1. dead \in Live(S) => dead # Null
        BY <1>1, NullIsNoQueue, LiveType
      <4>2. ex \in Handles => ex # Null
        BY NullIsNoQueue
      <4> QED
        BY <1>2, <1>11, <1>20, <4>1, <4>2
    <3>2. /\ Live(S) \subseteq Live(D)
          /\ \A r \in Live(D) \ Live(S) : D.tq[r].player = old /\ ~D.tq[r].connected
          /\ \A r, s \in Live(D) \ Live(S) : r = s
      BY <1>16, <1>22, <1>25
    <3>3. \A r \in Live(S) :
            D.tq[r].player = IF r = dead THEN NOTHING ELSE IF r = q THEN new ELSE S.tq[r].player
      BY <1>15, <1>22
    <3>4. \A r \in Live(S) : D.tq[r].connected <=>
            S.tq[r].connected /\ (ex \in Handles => r # S.sh[ex].tasks)
      BY <1>15, <1>22, <2>1
    <3> QED
      BY <1>3, <1>9, <1>10, <1>11, <1>20, <2>2, <3>1, <3>2, <3>3, <3>4, Zenon DEF Renames
  <2>4. Single(D) /\ Wired(D)
    BY <1>1, <2>3, LoginServes
  <2> QED
    BY <1>14, <1>22, <1>24, <1>25, <1>26, <2>1, <2>2, <2>4 DEF Sound
<1>29. CASE ex # Null
  <2>1. ex \in Handles /\ S.sh[ex].open /\ S.sh[ex].player = new /\ ex # nh
    BY <1>9, <1>10, <1>20, <1>29
  <2>2. PICK e : e = S.sh[ex].tasks
    OBVIOUS
  <2>3. e \in Live(S) /\ e \in Live(D) /\ e = D.sh[ex].tasks
    BY <1>1, <1>13, <1>16, <1>23, <1>25, <2>1, <2>2 DEF Wired
  <2>4. T = free_shandle(D, ex)
    BY <1>27, <1>29
  <2>5. /\ T \in Good /\ Linked(T, {}) /\ Live(T) = Live(D)
        /\ \A r \in Live(D) : T.tq[r].player = D.tq[r].player
        /\ \A r \in Live(D) : r # e => T.tq[r].connected = D.tq[r].connected
        /\ ~T.tq[e].connected
        /\ \A g \in Handles : g # ex => /\ T.sh[g].open = D.sh[g].open
                                        /\ T.sh[g].player = D.sh[g].player
                                        /\ T.sh[g].tasks = D.sh[g].tasks
        /\ ~T.sh[ex].open
        /\ IsFiniteSet(Queues) \/ T.panic = D.panic
    BY <1>24, <1>25, <2>1, <2>3, <2>4, FreeShandleLinked
  <2>6. \A h \in Handles : h # ex =>
          /\ T.sh[h].open = S.sh[h].open
          /\ T.sh[h].tasks = S.sh[h].tasks
          /\ T.sh[h].player = IF h = nh THEN new ELSE S.sh[h].player
    BY <1>13, <1>23, <2>5
  <2>7. \A h \in Handles : T.sh[h].open <=> S.sh[h].open /\ h # ex
    BY <2>5, <2>6
  <2>8. \A r \in Live(S) :
          T.tq[r].player = IF r = dead THEN NOTHING ELSE IF r = q THEN new ELSE S.tq[r].player
    BY <1>15, <1>16, <1>22, <1>25, <2>5
  <2>9. \A r \in Live(S) : T.tq[r].connected <=> S.tq[r].connected /\ r # S.sh[ex].tasks
    BY <1>15, <1>16, <1>22, <1>25, <2>2, <2>5
  <2>10. /\ Live(S) \subseteq Live(T)
         /\ \A r \in Live(T) \ Live(S) : T.tq[r].player = old /\ ~T.tq[r].connected
         /\ \A r, s \in Live(T) \ Live(S) : r = s
    BY <1>16, <1>22, <1>25, <2>3, <2>5
  <2>11. Renames(S, T, nh, q, old, new, dead, ex)
    <3>1. /\ dead \in Live(S) => S.tq[dead].player = new
          /\ ex \in Handles => S.sh[ex].open /\ S.sh[ex].player = new
          /\ S.sh[nh].open /\ q = S.sh[nh].tasks
      <4>1. dead \in Live(S) => dead # Null
        BY <1>1, NullIsNoQueue, LiveType
      <4>2. ex \in Handles => ex # Null
        BY NullIsNoQueue
      <4> QED
        BY <1>2, <1>11, <1>20, <4>1, <4>2
    <3>2. \A r \in Live(S) : T.tq[r].connected <=>
            S.tq[r].connected /\ (ex \in Handles => r # S.sh[ex].tasks)
      BY <2>1, <2>9
    <3>3. /\ \A h \in Handles : h # ex => T.sh[h].tasks = S.sh[h].tasks
          /\ \A h \in Handles : h # ex => T.sh[h].player = IF h = nh THEN new ELSE S.sh[h].player
      BY <2>6
    <3> QED
      BY <1>3, <1>9, <1>10, <1>11, <1>20, <2>7, <2>8, <2>10, <3>1, <3>2, <3>3, Zenon DEF Renames
  <2>12. Single(T) /\ Wired(T)
    BY <1>1, <2>11, LoginServes
  <2>13. IsFiniteSet(Queues) \/ T.panic = S.panic
    BY <1>14, <1>22, <2>5
  <2> QED
    BY <1>26, <2>5, <2>7, <2>12, <2>13 DEF Sound
<1> QED
  BY <1>28, <1>29

-----------------------------------------------------------------------------
(* The two ends of run_ready_tasks(). *)

\* The first active queue is unlinked.
LEMMA TailLinked ==
  ASSUME NEW S \in Good, Linked(S, {}), S.active # <<>>
  PROVE  LET q == S.active[1]
             T == [S EXCEPT !.active = Tail(S.active)]
         IN /\ T \in Good /\ Linked(T, {q})
            /\ q \in Queues \ Live(T) /\ Live(S) = Live(T) \cup {q}
            /\ T.tq = S.tq /\ T.sh = S.sh /\ T.panic = S.panic
            /\ T.idle = S.idle /\ T.active = Tail(S.active)
<1>1. PICK T : T = [S EXCEPT !.active = Tail(S.active)]
  OBVIOUS
<1>2. PICK q : q = S.active[1]
  OBVIOUS
<1>3. PICK s \in Seq(Queues) : s = S.active
  BY ListTypes
<1>4. PICK n \in Nat : n = Len(s)
  BY <1>3
<1>5. PICK r \in Seq(Queues) : /\ r = Tail(s) /\ Len(r) = n - 1
                               /\ \A i \in 1..Len(r) : r[i] = s[i + 1]
  <2>1. s # <<>>
    BY <1>3
  <2>2. PICK r : r = Tail(s)
    OBVIOUS
  <2>3. r \in Seq(Queues) /\ Len(r) = Len(s) - 1 /\ \A i \in 1..Len(r) : r[i] = s[i + 1]
    BY <1>3, <2>1, <2>2, HeadTailProperties
  <2> QED
    BY <1>4, <2>2, <2>3
<1>6. n >= 1 /\ \A i \in 1..n : s[i] \in Queues
  BY <1>3, <1>4, ListTypes
<1>7. q = s[1] /\ q \in Queues /\ q \in Elems(s)
  BY <1>2, <1>3, <1>4, <1>6 DEF Elems
<1>8. /\ T.active = r /\ T.idle = S.idle /\ T.tq = S.tq /\ T.sh = S.sh /\ T.panic = S.panic
      /\ T \in Good
  BY <1>1, <1>3, <1>5 DEF Good, States
<1>9. \A i \in 1..n - 1 : i + 1 \in 1..n /\ r[i] = s[i + 1] /\ s[i + 1] # q
  <2>1. \A i \in 1..n - 1 : i + 1 \in 1..n /\ 1 \in 1..n /\ 1 < i + 1
    BY <1>6
  <2>2. \A i \in 1..n - 1 : s[1] # s[i + 1]
    BY <1>3, <1>4, <2>1 DEF Linked, Sorted
  <2> QED
    BY <1>5, <1>7, <2>1, <2>2
<1>10. Elems(r) = Elems(s) \ {q}
  <2>1. \A e \in Elems(r) : e \in Elems(s) \ {q}
    BY <1>4, <1>5, <1>9 DEF Elems
  <2>2. ASSUME NEW e \in Elems(s), e # q
        PROVE  e \in Elems(r)
    <3>1. PICK i \in 1..n : s[i] = e
      BY <1>4 DEF Elems
    <3>2. i # 1
      BY <1>7, <2>2, <3>1
    <3>3. PICK j \in 1..n - 1 : i = j + 1
      BY <3>2
    <3>4. r[j] = e
      BY <1>9, <3>1, <3>3
    <3> QED
      BY <1>5, <3>4 DEF Elems
  <2> QED
    BY <2>1, <2>2
<1>11. q \notin S.idle
  BY <1>3, <1>7 DEF Linked
<1>12. q \notin Live(T) /\ Live(S) = Live(T) \cup {q}
  BY <1>3, <1>7, <1>8, <1>10, <1>11 DEF Live
<1>13. Sorted(T)
  <2> SUFFICES ASSUME NEW i \in 1..Len(r), NEW j \in 1..Len(r), i < j
               PROVE  r[i] # r[j] /\ S.tq[r[i]].usage <= S.tq[r[j]].usage
    BY <1>8 DEF Sorted
  <2>1. i + 1 \in 1..Len(s) /\ j + 1 \in 1..Len(s) /\ i + 1 < j + 1
    BY <1>4, <1>5
  <2>2. s[i + 1] # s[j + 1] /\ S.tq[s[i + 1]].usage <= S.tq[s[j + 1]].usage
    BY <1>3, <2>1 DEF Linked, Sorted
  <2> QED
    BY <1>5, <2>2
<1>14. Linked(T, {q})
  BY <1>3, <1>8, <1>10, <1>12, <1>13 DEF Linked
<1> QED
  BY <1>1, <1>2, <1>3, <1>5, <1>7, <1>8, <1>12, <1>14

\* Moving the first active queue to where it belongs changes no name or connection.
LEMMA MovedSame ==
  ASSUME NEW S, Sound(S), NEW T \in Good, Linked(T, {}), Live(T) = Live(S),
         T.sh = S.sh, T.panic = S.panic,
         \A r \in Queues : /\ T.tq[r].player = S.tq[r].player
                           /\ T.tq[r].connected = S.tq[r].connected
  PROVE  Sound(T) /\ Same(S, T)
BY ListSame, SameServes DEF Sound

\* A queue with nothing to do goes idle.
LEMMA GoIdleSound ==
  ASSUME NEW S, Sound(S), S.active # <<>>
  PROVE  LET T == deactivate_tqueue([S EXCEPT !.active = Tail(S.active)], S.active[1])
         IN Sound(T) /\ Same(S, T)
<1>1. PICK q : q = S.active[1]
  OBVIOUS
<1>2. PICK C : C = [S EXCEPT !.active = Tail(S.active)]
  OBVIOUS
<1>3. /\ C \in Good /\ Linked(C, {q}) /\ q \in Queues \ Live(C) /\ Live(S) = Live(C) \cup {q}
      /\ C.tq = S.tq /\ C.sh = S.sh /\ C.panic = S.panic
  BY <1>1, <1>2, TailLinked DEF Sound
<1>4. PICK T : T = deactivate_tqueue(C, q)
  OBVIOUS
<1>5. /\ T \in Good /\ Linked(T, {}) /\ Live(T) = Live(S)
      /\ T.tq = [S.tq EXCEPT ![q] = [S.tq[q] EXCEPT !.usage = NO_USAGE]]
      /\ T.sh = S.sh /\ T.panic = S.panic
  BY <1>3, <1>4, DeactivateLinked
<1>6. \A r \in Queues : /\ T.tq[r].player = S.tq[r].player
                        /\ T.tq[r].connected = S.tq[r].connected
  <2>1. \A r \in Queues : r # q => T.tq[r] = S.tq[r]
    BY <1>5 DEF Sound, Good, States
  <2>2. T.tq[q] = [S.tq[q] EXCEPT !.usage = NO_USAGE]
    BY <1>3, <1>5 DEF Sound, Good, States
  <2>3. T.tq[q].player = S.tq[q].player /\ T.tq[q].connected = S.tq[q].connected
    BY <1>3, <2>2 DEF Sound, Good, States, TQueues
  <2> QED
    BY <2>1, <2>3
<1>7. Sound(T) /\ Same(S, T)
  BY <1>5, <1>6, MovedSame
<1> QED
  BY <1>1, <1>2, <1>4, <1>7

\* The queue that ran is charged its time and put back in order.
LEMMA ChargeUsageSound ==
  ASSUME NEW S, Sound(S), S.active # <<>>, NEW n \in Nat
  PROVE  LET T == charge_usage(S, S.active[1], n)
         IN Sound(T) /\ Same(S, T)
<1>1. PICK q : q = S.active[1]
  OBVIOUS
<1>2. PICK s \in Seq(Queues) : s = S.active
  BY ListTypes DEF Sound
<1>3. AfterQueue(s, q) = Tail(s)
  <2>1. Len(s) \in Nat /\ 1 \in 1..Len(s) /\ s[1] = q
    BY <1>1, <1>2
  <2>2. \A i \in 1..Len(s) : s[i] = q => i = 1
    <3> SUFFICES ASSUME NEW i \in 1..Len(s), s[i] = q, i # 1
                 PROVE  FALSE
      OBVIOUS
    <3>1. 1 < i
      BY <2>1
    <3> QED
      BY <1>2, <2>1, <3>1 DEF Sound, Linked, Sorted
  <2>3. PICK k : k = CHOOSE i \in 1..Len(s) : s[i] = q
    OBVIOUS
  <2>4. k = 1
    BY <2>1, <2>2, <2>3
  <2>5. AfterQueue(s, q) = SubSeq(s, 2, Len(s))
    <3>1. AfterQueue(s, q) = SubSeq(s, k + 1, Len(s))
      BY <2>3 DEF AfterQueue
    <3>2. k + 1 = 2
      BY <2>4
    <3> QED
      BY <3>1, <3>2
  <2>6. Tail(s) = SubSeq(s, 2, Len(s))
    BY <1>2, TailIsSubSeq
  <2> QED
    BY <2>5, <2>6
<1>4. PICK C : C = [S EXCEPT !.active = Tail(S.active)]
  OBVIOUS
<1>5. /\ C \in Good /\ Linked(C, {q}) /\ q \in Queues \ Live(C) /\ Live(S) = Live(C) \cup {q}
      /\ C.tq = S.tq /\ C.sh = S.sh /\ C.panic = S.panic
  BY <1>1, <1>4, TailLinked DEF Sound
<1>6. PICK u \in Int : u = S.tq[q].usage + n /\ u >= 0
  <2>1. q \in Elems(S.active)
    BY <1>1, HeadUsage DEF Sound
  <2>2. S.tq[q].usage >= 0 /\ S.tq[q].usage \in Int
    BY <1>5, <2>1, ListTypes DEF Sound, Linked
  <2> QED
    BY <2>2
<1>7. PICK U : U = [C EXCEPT !.tq[q].usage = u]
  OBVIOUS
<1>8. U \in Good
  <2>1. C.idle \in SUBSET Queues
    BY <1>5, ListTypes
  <2>2. U = [C EXCEPT !.tq[q].usage = u, !.idle = C.idle]
    BY <1>5, <1>7 DEF Good, States
  <2> QED
    BY <1>5, <2>1, <2>2, SetUsageType
<1>9. /\ U.idle = C.idle /\ U.active = C.active /\ U.sh = C.sh /\ U.panic = C.panic
      /\ U.tq = [C.tq EXCEPT ![q] = [C.tq[q] EXCEPT !.usage = u]]
  BY <1>5, <1>7 DEF Good, States
<1>10. \A r \in Queues : r # q => U.tq[r] = S.tq[r]
  BY <1>5, <1>9 DEF Good, States
<1>11. /\ U.tq[q].usage = u /\ U.tq[q].player = S.tq[q].player
       /\ U.tq[q].connected = S.tq[q].connected
  <2>1. U.tq[q] = [S.tq[q] EXCEPT !.usage = u]
    BY <1>5, <1>9 DEF Good, States
  <2> QED
    BY <1>5, <2>1 DEF Sound, Good, States, TQueues
<1>12. Live(U) = Live(C)
  BY <1>9 DEF Live
<1>13. Linked(U, {q})
  <2>1. C.idle \subseteq Live(C) /\ Elems(C.active) \subseteq Live(C) /\ q \notin Live(C)
    BY <1>5 DEF Live
  <2>2. \A r \in Live(C) : r \in Queues /\ r # q
    BY <1>5, <2>1, LiveType
  <2>3. \A i \in 1..Len(C.active) : C.active[i] \in Queues /\ C.active[i] # q
    BY <1>5, <2>1, ListTypes DEF Elems
  <2>4. Sorted(U)
    BY <1>5, <1>9, <1>10, <2>3, SMTT(40) DEF Linked, Sorted
  <2>5. \A r \in U.idle : U.tq[r].usage = NO_USAGE
    BY <1>5, <1>9, <1>10, <2>1, <2>2 DEF Linked
  <2>6. \A r \in Elems(U.active) : U.tq[r].usage >= 0
    BY <1>5, <1>9, <1>10, <2>1, <2>2 DEF Linked
  <2> QED
    BY <1>5, <1>9, <1>10, <1>12, <2>4, <2>5, <2>6 DEF Linked
<1>14. charge_usage(S, q, n) = activate_tqueue(U, q)
  <2>1. S.tq[q].usage + n = u
    BY <1>6
  <2>2. [S EXCEPT !.active = AfterQueue(S.active, q), !.tq[q].usage = S.tq[q].usage + n] = U
    BY <1>2, <1>3, <1>4, <1>6, <1>7 DEF Sound, Good, States
  <2> QED
    BY <2>2 DEF charge_usage
<1>15. PICK T : T = activate_tqueue(U, q)
  OBVIOUS
<1>16. /\ T \in Good /\ Linked(T, {}) /\ Live(T) = Live(U) \cup {q}
       /\ T.tq = U.tq /\ T.sh = U.sh /\ T.panic = U.panic
  <2>1. U.tq[q].usage >= 0 /\ q \in Queues \ Live(U)
    BY <1>5, <1>6, <1>11, <1>12
  <2> QED
    BY <1>8, <1>13, <1>15, <2>1, ActivateLinked
<1>17. \A r \in Queues : /\ T.tq[r].player = S.tq[r].player
                         /\ T.tq[r].connected = S.tq[r].connected
  BY <1>10, <1>11, <1>16
<1>18. Sound(T) /\ Same(S, T)
  BY <1>5, <1>9, <1>12, <1>16, <1>17, MovedSame
<1> QED
  BY <1>1, <1>14, <1>15, <1>18

\* Only queues without a connection are freed.
LEMMA FreeIdleSound ==
  ASSUME NEW S, Sound(S)
  PROVE  LET T == free_idle_tqueues(S)
         IN /\ Sound(T)
            /\ T.panic = S.panic
            /\ T.sh = S.sh
<1>1. PICK dead : dead = {q \in S.idle : is_out_of_input(S, q) /\ S.tq[q].num = 0}
  OBVIOUS
<1>2. PICK T : T = free_idle_tqueues(S)
  OBVIOUS
<1>3. T = [S EXCEPT !.idle = S.idle \ dead,
                    !.tq = [q \in Queues |-> IF q \in dead THEN NewTQueue ELSE S.tq[q]]]
  BY <1>1, <1>2 DEF free_idle_tqueues
<1>4. S \in Good /\ Linked(S, {}) /\ Single(S) /\ Wired(S) /\ T \in Good
  BY <1>2, FreeIdleType, SMTT(40) DEF Sound
<1>5. /\ T.idle = S.idle \ dead /\ T.active = S.active /\ T.sh = S.sh /\ T.panic = S.panic
      /\ \A q \in Queues : T.tq[q] = IF q \in dead THEN NewTQueue ELSE S.tq[q]
  BY <1>3, <1>4 DEF Good, States
<1>6. dead \subseteq S.idle /\ \A q \in dead : ~S.tq[q].connected
  BY <1>1 DEF is_out_of_input
<1>7. dead \cap Elems(S.active) = {} /\ Live(T) = Live(S) \ dead /\ Live(S) \subseteq Queues
  BY <1>4, <1>5, <1>6, LiveType DEF Live, Linked
<1>8. \A q \in Live(T) : q \in Queues /\ q \in Live(S) /\ T.tq[q] = S.tq[q]
  BY <1>5, <1>7
<1>9. T.idle \subseteq Live(T) /\ Elems(T.active) \subseteq Live(T)
  BY DEF Live
<1>10. Linked(T, {})
  <2>1. IsFiniteSet(T.idle)
    BY <1>4, <1>5, FS_Subset DEF Linked
  <2>2. \A i \in 1..Len(T.active) : T.active[i] \in Live(T)
    BY <1>9 DEF Elems
  <2>3. Sorted(T)
    BY <1>4, <1>5, <1>8, <2>2 DEF Linked, Sorted
  <2>4. \A q \in T.idle : T.tq[q].usage = NO_USAGE
    BY <1>4, <1>5, <1>8, <1>9 DEF Linked
  <2>5. \A q \in Elems(T.active) : T.tq[q].usage >= 0
    BY <1>4, <1>5, <1>8, <1>9 DEF Linked
  <2>6. \A q \in Queues \ Live(T) : T.tq[q] = NewTQueue
    BY <1>4, <1>5, <1>7 DEF Linked
  <2> QED
    BY <1>4, <1>5, <2>1, <2>3, <2>4, <2>5, <2>6 DEF Linked
<1>11. Single(T)
  BY <1>4, <1>8 DEF Single
<1>12. Wired(T)
  <2>1. \A h \in Handles : T.sh[h].open => T.sh[h].tasks \in Live(T)
    BY <1>4, <1>5, <1>6, <1>7 DEF Wired
  <2> QED
    BY <1>4, <1>5, <1>8, <2>1 DEF Wired
<1> QED
  BY <1>2, <1>4, <1>5, <1>10, <1>11, <1>12 DEF Sound

-----------------------------------------------------------------------------
(* The inductive invariant of the server. *)

\* The connections that are open were numbered, and a queue on which a login command
\* runs goes by the number of its connection still.
Serves ==
  /\ IsFiniteSet(Queues) \/ ~ts.panic
  /\ start <= now
  /\ \A h \in Handles : ts.sh[h].open => h <= conns
  /\ pc = "task" /\ run.cont = "login" => ts.tq[run.q].player < 0

QueueInv == TaskInv /\ Sound(ts) /\ Serves

\* What a step of the server does to the state record, unless it opens a connection
Keeps(S, T) ==
  /\ Sound(T)
  /\ IsFiniteSet(Queues) \/ T.panic = S.panic
  /\ \A h \in Handles : T.sh[h].open => S.sh[h].open

\* A step that renames nothing is one.
LEMMA StaysKeeps ==
  ASSUME NEW S, NEW T, Sound(T), Stays(S, T)
  PROVE  Keeps(S, T)
BY DEF Keeps, Stays

\* Two steps in a row are one.
LEMMA KeepsTrans ==
  ASSUME NEW S, NEW T, NEW U, Keeps(S, T), Keeps(T, U)
  PROVE  Keeps(S, U)
BY DEF Keeps

\* A step keeps the invariant if it does not start a login command, and what it does to
\* the variables is in order.
LEMMA StepInv ==
  ASSUME QueueInv, TaskInv', Keeps(ts, ts'), start' <= now', UNCHANGED conns,
         ~(pc' = "task" /\ run'.cont = "login")
  PROVE  QueueInv'
<1>1. Sound(ts')
  BY DEF Keeps
<1>2. Serves'
  BY DEF QueueInv, Serves, Keeps
<1> QED
  BY <1>1, <1>2 DEF QueueInv

\* StartVerb(), of whatever follows the verb
LEMMA StartVerbQueues ==
  ASSUME QueueInv, TaskInv', NEW S, Keeps(ts, S), NEW cont, NEW q, NEW h,
         StartVerb(S, cont, q, h), cont = "login" => S.tq[q].player < 0,
         UNCHANGED <<conns, now, start>>
  PROVE  QueueInv'
<1>1. PICK progr \in Verbs : Start(S, new_task_id(IdsIn(S)), progr, cont, q, h)
  BY DEF StartVerb
<1>2. ts' = S /\ run'.cont = cont /\ run'.q = q
  BY <1>1 DEF Start
<1>3. Serves'
  BY <1>2 DEF QueueInv, Serves, Keeps
<1> QED
  BY <1>2, <1>3 DEF QueueInv, Keeps

\* A task that was queued is resumed.
LEMMA StartQueues ==
  ASSUME QueueInv, TaskInv', NEW S, Keeps(ts, S), NEW id, NEW progr, NEW q, NEW h,
         Start(S, id, progr, "loop", q, h), UNCHANGED <<conns, now, start>>
  PROVE  QueueInv'
<1>1. ts' = S /\ run'.cont = "loop"
  BY DEF Start
<1> QED
  BY <1>1, StepInv DEF QueueInv, Serves

\* run_ready_tasks() charges the queue at the front.
LEMMA ReturnQueues ==
  ASSUME QueueInv, TaskInv', NEW S, Keeps(ts, S), S.active # <<>>,
         Return(S, S.active[1]), UNCHANGED <<conns, now, start>>
  PROVE  QueueInv'
<1>1. now - start \in Nat
  BY DEF QueueInv, TaskInv, TypeOK, Serves
<1>2. PICK T : T = charge_usage(S, S.active[1], now - start)
  OBVIOUS
<1>3. Keeps(S, T)
  BY <1>1, <1>2, ChargeUsageSound, StaysKeeps DEF Keeps, Same
<1>4. ts' = T /\ pc' = "sweep"
  BY <1>2 DEF Return
<1> QED
  BY <1>3, <1>4, KeepsTrans, StepInv DEF QueueInv, Serves

\* A connection is closed.
LEMMA CloseKeeps ==
  ASSUME NEW S, Sound(S), NEW h \in Handles, S.sh[h].open
  PROVE  Keeps(S, free_shandle(S, h))
BY FreeShandleSound DEF Keeps

\* The running task gives control back.
LEMMA ResumeQueues ==
  ASSUME QueueInv, TaskInv', pc = "task", NEW S, Keeps(ts, S), Kept(ts, S), Resume(S),
         UNCHANGED Rest
  PROVE  QueueInv'
<1>1. RunOK(S, run)
  BY RunOKKept DEF QueueInv, TaskInv
<1>2. run.cont \in Conts
  BY RunType DEF QueueInv, TaskInv
<1>3. UNCHANGED <<conns, now, start>>
  BY DEF Rest
<1>4. CASE run.cont \in {"loop", "command", "login"}
  <2>1. Return(S, run.q)
    BY <1>4 DEF Resume
  <2>2. S.active # <<>> /\ S.active[1] = run.q
    BY <1>1, <1>4 DEF RunOK, OnQueue
  <2> QED
    BY <1>3, <2>1, <2>2, ReturnQueues
<1>5. CASE run.cont = "redirect"
  <2>1. StartVerb(S, "loop", run.q, Null)
    BY <1>5 DEF Resume
  <2> QED
    BY <1>3, <2>1, StartVerbQueues
<1>6. CASE run.cont \in {"close", "reap"}
  <2>1. run.h \in Handles /\ S.sh[run.h].open
    BY <1>1, <1>6 DEF RunOK, OnQueue
  <2>2. ts' = free_shandle(S, run.h) /\ pc' \in {"io", "reap"}
    BY <1>6 DEF Resume
  <2>3. Keeps(ts, ts')
    BY <2>1, <2>2, CloseKeeps, KeepsTrans DEF Keeps
  <2> QED
    BY <1>3, <2>2, <2>3, StepInv DEF QueueInv, Serves
<1> QED
  BY <1>2, <1>4, <1>5, <1>6 DEF Conts

\* A builtin that returns to the task that called it: the task may be a login command,
\* and the queue it runs on is on the active list.
LEMMA CallInv ==
  ASSUME QueueInv, TaskInv', pc = "task", Sound(ts'), UNCHANGED <<pc, run, now, start>>,
         IsFiniteSet(Queues) \/ ts'.panic = ts.panic,
         conns' \in {conns, conns + 1},
         \A h \in Handles : ts'.sh[h].open => ts.sh[h].open \/ h = conns',
         \A q \in Live(ts) : ts'.tq[q].player = ts.tq[q].player
  PROVE  QueueInv'
<1>1. run.cont = "login" => run.q \in Live(ts)
  <2> SUFFICES ASSUME run.cont = "login"
               PROVE  run.q \in Live(ts)
    OBVIOUS
  <2>1. ts.active # <<>> /\ ts.active[1] = run.q /\ ts \in Good
    BY DEF QueueInv, TaskInv, RunOK, OnQueue
  <2>2. 1 \in 1..Len(ts.active)
    BY <2>1, ListTypes
  <2> QED
    BY <2>1, <2>2 DEF Live, Elems
<1>2. run.cont = "login" => ts'.tq[run.q].player < 0
  BY <1>1 DEF QueueInv, Serves
<1>3. conns \in Nat /\ Handles \subseteq Nat
  BY ConstantsAssumption DEF QueueInv, TaskInv, TypeOK
<1>4. \A h \in Handles : ts'.sh[h].open => h <= conns'
  <2>1. PICK m \in Nat : m = conns' /\ conns <= m
    BY <1>3
  <2>2. \A h \in Handles : ts.sh[h].open => h <= conns
    BY DEF QueueInv, Serves
  <2>3. \A h \in Handles : h <= conns => h <= m
    BY <1>3, <2>1
  <2>4. \A h \in Handles : h = m => h <= m
    BY <1>3
  <2> QED
    BY <2>1, <2>2, <2>3, <2>4
<1>5. start' <= now' /\ (IsFiniteSet(Queues) \/ ~ts'.panic)
  BY DEF QueueInv, Serves
<1> QED
  BY <1>2, <1>4, <1>5 DEF QueueInv, Serves

\* A builtin that renames nothing and opens nothing
LEMMA StaysInv ==
  ASSUME QueueInv, TaskInv', pc = "task", Sound(ts'), Stays(ts, ts'), Keep
  PROVE  QueueInv'
BY CallInv DEF Keep, Stays

-----------------------------------------------------------------------------
(* One lemma for each disjunct of Next. *)

\* The handle's flag disconnect_me
LEMMA DiscSound ==
  ASSUME NEW S, Sound(S), NEW h \in Handles
  PROVE  LET T == [S EXCEPT !.sh[h].disc = TRUE]
         IN Sound(T) /\ Same(S, T)
<1>1. PICK T : T = [S EXCEPT !.sh[h].disc = TRUE]
  OBVIOUS
<1>2. PICK f : f = [S.sh[h] EXCEPT !.disc = TRUE]
  OBVIOUS
<1>3. S \in Good /\ T \in Good
  BY <1>1, HandleSet DEF Sound
<1>4. /\ T.sh = [S.sh EXCEPT ![h] = f]
      /\ T.tq = S.tq /\ T.idle = S.idle /\ T.active = S.active /\ T.panic = S.panic
  BY <1>1, <1>2, <1>3 DEF Good, States
<1>5. f.open = S.sh[h].open /\ f.player = S.sh[h].player /\ f.tasks = S.sh[h].tasks
  BY <1>2, <1>3 DEF Good, States, SHandles
<1>6. Edit(S, T)
  BY <1>3, <1>4, <1>5, HandleEdit
<1> QED
  BY <1>1, <1>3, <1>6, SoundEdit

\* A connection is numbered one higher than those before.
LEMMA OpenSound ==
  ASSUME QueueInv, conns + 1 \in Handles, NEW outbound \in BOOLEAN
  PROVE  LET T == server_new_connection(ts, conns + 1, outbound)
         IN /\ Sound(T)
            /\ IsFiniteSet(Queues) \/ T.panic = ts.panic
            /\ \A h \in Handles : T.sh[h].open => ts.sh[h].open \/ h = conns + 1
            /\ \A r \in Live(ts) : T.tq[r].player = ts.tq[r].player
<1>1. conns \in Nat /\ ~(conns + 1 <= conns)
  BY DEF QueueInv, TaskInv, TypeOK
<1>2. ~ts.sh[conns + 1].open
  BY <1>1 DEF QueueInv, Serves
<1> QED
  BY <1>2, NewConnectionSound DEF QueueInv

\* network_process_io(): every connection, line and hang-up
LEMMA NetworkQueues ==
  ASSUME QueueInv, Network
  PROVE  QueueInv'
<1>1. TaskInv' /\ Sound(ts)
  BY NetworkInv DEF QueueInv
<1>2. CASE Accept
  <2>1. /\ pc = "io" /\ conns + 1 \in Handles /\ conns' = conns + 1
        /\ ts' = server_new_connection(ts, conns + 1, FALSE)
        /\ UNCHANGED <<pc, run, now, start>>
    BY <1>2 DEF Accept
  <2>2. /\ Sound(ts')
        /\ IsFiniteSet(Queues) \/ ts'.panic = ts.panic
        /\ \A h \in Handles : ts'.sh[h].open => ts.sh[h].open \/ h = conns + 1
    BY <2>1, OpenSound
  <2>3. conns \in Nat /\ Handles \subseteq Nat
    BY ConstantsAssumption DEF QueueInv, TaskInv, TypeOK
  <2>4. \A h \in Handles : ts'.sh[h].open => h <= conns'
    <3>1. PICK m \in Nat : m = conns' /\ m = conns + 1 /\ conns <= m
      BY <2>1, <2>3
    <3>2. \A h \in Handles : ts.sh[h].open => h <= conns
      BY DEF QueueInv, Serves
    <3>3. \A h \in Handles : h <= conns => h <= m
      BY <2>3, <3>1
    <3>4. \A h \in Handles : h = m => h <= m
      BY <2>3
    <3> QED
      BY <2>2, <3>1, <3>2, <3>3, <3>4
  <2>5. Serves'
    BY <2>1, <2>2, <2>4 DEF QueueInv, Serves
  <2> QED
    BY <1>1, <2>2, <2>5 DEF QueueInv
<1>3. ASSUME NEW h \in Handles, NEW line \in Typed \cup {"flush"}, ReceiveLine(h, line)
      PROVE  QueueInv'
  <2>1. ts.sh[h].tasks \in Live(ts)
    BY <1>1, <1>3 DEF ReceiveLine, Sound, Wired
  <2>2. line # "flush" => line \in Lines
    BY BoundsAssumption
  <2>3. Sound(ts') /\ Same(ts, ts')
    BY <1>1, <1>3, <2>1, <2>2, FlushInputSound, EnqueueInputSound DEF ReceiveLine
  <2>4. pc' = "pull" /\ UNCHANGED <<conns, now, start>>
    BY <1>3 DEF ReceiveLine
  <2> QED
    BY <1>1, <2>3, <2>4, StaysKeeps, StepInv DEF Same, QueueInv, Serves
<1>4. CASE EndOfRead
  <2>1. pc' = "io" /\ UNCHANGED <<ts, conns, now, start>>
    BY <1>4 DEF EndOfRead
  <2> QED
    BY <1>1, <2>1, NoChange, StaysKeeps, StepInv DEF QueueInv, Serves
<1>5. ASSUME NEW h \in Handles, ClientGone(h)
      PROVE  QueueInv'
  <2>1. PICK S : S = [ts EXCEPT !.sh[h].disc = TRUE]
    OBVIOUS
  <2>2. Keeps(ts, S)
    BY <1>1, <2>1, DiscSound, StaysKeeps DEF Same
  <2>3. StartVerb(S, "close", Null, h) /\ UNCHANGED <<conns, now, start>>
    BY <1>5, <2>1 DEF ClientGone
  <2> QED
    BY <1>1, <2>2, <2>3, StartVerbQueues
<1> QED
  BY <1>2, <1>3, <1>4, <1>5 DEF Network

\* Time passes, and run_ready_tasks() notes it.
LEMMA ClockQueues ==
  ASSUME QueueInv, Tick \/ RunReadyTasks
  PROVE  QueueInv'
<1>1. TaskInv' /\ Sound(ts)
  BY ClockInv DEF QueueInv
<1>2. UNCHANGED <<ts, run, conns>> /\ pc' \in {pc, "ready"}
  BY DEF Tick, RunReadyTasks
<1>3. start' <= now'
  BY DEF Tick, RunReadyTasks, QueueInv, Serves, TaskInv, TypeOK
<1>4. Serves'
  BY <1>2, <1>3 DEF QueueInv, Serves
<1> QED
  BY <1>1, <1>2, <1>4 DEF QueueInv

\* The tasks that are due become ready.
LEMMA ReadyWaitingQueues ==
  ASSUME QueueInv, ReadyWaiting
  PROVE  QueueInv'
<1>1. TaskInv' /\ Sound(ts)
  BY ReadyWaitingInv DEF QueueInv
<1>2. pc' \in {"ready", "pick"} /\ UNCHANGED <<conns, now, start>>
  BY DEF ReadyWaiting
<1>3. Keeps(ts, ts')
  BY <1>1, ReadyFirstSound, NoChange, StaysKeeps DEF ReadyWaiting
<1> QED
  BY <1>1, <1>2, <1>3, StepInv DEF QueueInv, Serves

\* run_ready_tasks() looks for a queue with something to run.
LEMMA PickQueues ==
  ASSUME QueueInv, Pick
  PROVE  QueueInv'
<1>1. TaskInv' /\ Sound(ts) /\ ts \in Good
  BY PickInv DEF QueueInv, Sound
<1>2. Picking => head \in Live(ts) /\ head = ts.active[1] /\ ts.active # <<>>
  <2>1. Picking => ts.active # <<>> /\ 1 \in 1..Len(ts.active)
    BY <1>1, ListTypes DEF Picking
  <2> QED
    BY <2>1 DEF head, Live, Elems
<1>3. PICK D : D = dequeue_input_task(ts, head)
  OBVIOUS
<1>4. Picking /\ at_input => Sound(D) /\ Same(ts, D) /\ head \in Live(D)
                               /\ D.active # <<>> /\ D.active[1] = head
  <2> SUFFICES ASSUME Picking, at_input
               PROVE  Sound(D) /\ Same(ts, D) /\ head \in Live(D)
                        /\ D.active # <<>> /\ D.active[1] = head
    OBVIOUS
  <2>1. ts.tq[head].input # <<>> /\ head \in Live(ts) /\ head \in Queues
    BY <1>1, <1>2, LiveType DEF at_input
  <2>2. Sound(D) /\ Same(ts, D)
    BY <1>1, <1>3, <2>1, DequeueInputSound
  <2>3. Kept(ts, D)
    BY <1>1, <1>3, <2>1, DequeueInputKept
  <2> QED
    BY <1>2, <2>1, <2>2, <2>3 DEF Kept, HeadKept, Same
<1>5. Picking /\ at_input => Keeps(ts, D) /\ (ts.tq[head].player < 0 => D.tq[head].player < 0)
  BY <1>2, <1>4, StaysKeeps DEF Same, Stays
<1>6. CASE ResumeOrphan
  <2>1. PICK S : S = [ts EXCEPT !.tq[head].reader = NoTask]
    OBVIOUS
  <2>2. Picking /\ UNCHANGED <<conns, now, start>>
          /\ Start(S, ts.tq[head].reader.id, ts.tq[head].reader.progr, "loop", head, Null)
    BY <1>6, <2>1 DEF ResumeOrphan
  <2>3. Keeps(ts, S)
    BY <1>1, <1>2, <2>1, <2>2, NewTypes, SetReaderSound, StaysKeeps DEF Same
  <2> QED
    BY <1>1, <2>2, <2>3, StartQueues
<1>7. CASE RunOutOfBand
  <2>1. Picking /\ at_input /\ StartVerb(D, "loop", head, Null) /\ UNCHANGED <<conns, now, start>>
    BY <1>3, <1>7 DEF RunOutOfBand
  <2> QED
    BY <1>1, <1>5, <2>1, StartVerbQueues
<1>8. CASE ResumeReader
  <2>1. PICK S : S = [D EXCEPT !.tq[head].reader = NoTask]
    OBVIOUS
  <2>2. Picking /\ at_input /\ UNCHANGED <<conns, now, start>>
          /\ Start(S, ts.tq[head].reader.id, ts.tq[head].reader.progr, "loop", head, Null)
    BY <1>3, <1>8, <2>1 DEF ResumeReader
  <2>3. Keeps(D, S)
    BY <1>4, <2>1, <2>2, NewTypes, SetReaderSound, StaysKeeps DEF Same
  <2> QED
    BY <1>1, <1>5, <2>2, <2>3, KeepsTrans, StartQueues
<1>9. CASE RunLine
  <2>1. Picking /\ at_input /\ UNCHANGED <<conns, now, start>>
    BY <1>9 DEF RunLine
  <2>2. \/ StartVerb(D, "command", head, Null)
        \/ ts.tq[head].player < 0 /\ StartVerb(D, "login", head, Null)
    BY <1>3, <1>9 DEF RunLine
  <2> QED
    BY <1>1, <1>5, <2>1, <2>2, StartVerbQueues
<1>10. CASE BlankLine
  <2>1. Picking /\ at_input /\ ts' = D /\ UNCHANGED <<pc, conns, now, start>> /\ pc = "pick"
    BY <1>3, <1>10 DEF BlankLine, Picking
  <2> QED
    BY <1>1, <1>5, <2>1, StepInv DEF QueueInv, Serves
<1>11. CASE IntrinsicCommand
  <2>1. Picking /\ at_input /\ Return(D, head) /\ UNCHANGED <<conns, now, start>>
    BY <1>3, <1>11 DEF IntrinsicCommand
  <2> QED
    BY <1>1, <1>4, <1>5, <2>1, ReturnQueues
<1>12. CASE RunBackground
  <2>1. PICK S : S = dequeue_bg_task(ts, head)
    OBVIOUS
  <2>2. PICK t : t = ts.tq[head].bg[1]
    OBVIOUS
  <2>3. Picking /\ ts.tq[head].bg # <<>> /\ UNCHANGED <<conns, now, start>>
          /\ Start(S, t.id, t.progr, "loop", head, Null)
    BY <1>12, <2>1, <2>2 DEF RunBackground
  <2>4. Keeps(ts, S)
    BY <1>1, <1>2, <2>1, <2>3, NewTypes, BgSound, StaysKeeps DEF Same
  <2> QED
    BY <1>1, <2>3, <2>4, StartQueues
<1>13. CASE GoIdle
  <2>1. /\ Picking /\ UNCHANGED <<pc, conns, now, start>> /\ pc = "pick"
        /\ ts' = deactivate_tqueue([ts EXCEPT !.active = Tail(ts.active)], ts.active[1])
    BY <1>13 DEF GoIdle, Picking, head
  <2>2. Keeps(ts, ts')
    BY <1>1, <1>2, <2>1, GoIdleSound, StaysKeeps DEF Same
  <2> QED
    BY <1>1, <2>1, <2>2, StepInv DEF QueueInv, Serves
<1>14. CASE NothingToRun
  <2>1. pc' = "sweep" /\ UNCHANGED <<ts, conns, now, start>>
    BY <1>14 DEF NothingToRun
  <2> QED
    BY <1>1, <2>1, NoChange, StaysKeeps, StepInv DEF QueueInv, Serves
<1> QED
  BY <1>6, <1>7, <1>8, <1>9, <1>10, <1>11, <1>12, <1>13, <1>14 DEF Pick

\* It frees the idle queues that serve nobody.
LEMMA FreeIdleQueues ==
  ASSUME QueueInv, FreeIdle
  PROVE  QueueInv'
<1>1. TaskInv' /\ Sound(ts)
  BY FreeIdleInv DEF QueueInv
<1>2. pc' = "reap" /\ ts' = free_idle_tqueues(ts) /\ UNCHANGED <<conns, now, start>>
  BY DEF FreeIdle
<1>3. Keeps(ts, ts')
  BY <1>1, <1>2, FreeIdleSound DEF Keeps
<1> QED
  BY <1>1, <1>2, <1>3, StepInv DEF QueueInv, Serves

\* main_loop() looks for connections to close.
LEMMA SweepQueues ==
  ASSUME QueueInv, Sweep
  PROVE  QueueInv'
<1>1. TaskInv' /\ Sound(ts)
  BY SweepInv DEF QueueInv
<1>2. pc = "reap" /\ at > 0 => at \in Handles
  BY DEF QueueInv, TaskInv, TypeOK
<1>3. Keeps(ts, ts)
  BY <1>1, NoChange, StaysKeeps
<1>4. pc = "reap"
  BY DEF Sweep, ReapSkip, ReapRecycled, ReapNotify, ReapDone
<1>5. CASE ReapSkip
  BY <1>1, <1>3, <1>4, <1>5, StepInv DEF ReapSkip, ReapNext, QueueInv, Serves
<1>6. CASE ReapRecycled
  <2>1. at \in Handles /\ ts.sh[at].open /\ ts' = free_shandle(ts, at)
          /\ UNCHANGED <<pc, conns, now, start>>
    BY <1>2, <1>4, <1>6 DEF ReapRecycled, ReapNext
  <2>2. Keeps(ts, ts')
    BY <1>1, <2>1, CloseKeeps
  <2> QED
    BY <1>1, <1>4, <2>1, <2>2, StepInv DEF QueueInv, Serves
<1>7. CASE ReapNotify
  <2>1. StartVerb(ts, "reap", Null, at) /\ UNCHANGED <<conns, now, start>>
    BY <1>7 DEF ReapNotify
  <2> QED
    BY <1>1, <1>3, <2>1, StartVerbQueues
<1>8. CASE ReapDone
  <2>1. pc' = "io" /\ UNCHANGED <<ts, conns, now, start>>
    BY <1>8 DEF ReapDone
  <2> QED
    BY <1>1, <1>3, <2>1, StepInv DEF QueueInv, Serves
<1> QED
  BY <1>5, <1>6, <1>7, <1>8 DEF Sweep

\* The running task ends, or the login it was for takes place.
LEMMA TaskReturnsQueues ==
  ASSUME QueueInv, TaskReturns
  PROVE  QueueInv'
<1>1. TaskInv' /\ Sound(ts) /\ ts \in Good /\ TaskInv
  BY TaskReturnsInv DEF QueueInv, Sound
<1>2. Keeps(ts, ts) /\ Kept(ts, ts)
  BY <1>1, NoChange, StaysKeeps, KeptSame
<1>3. CASE EndTask
  <2>1. pc = "task" /\ Resume(ts) /\ UNCHANGED Rest
    BY <1>3 DEF EndTask, Rest
  <2> QED
    BY <1>1, <1>2, <2>1, ResumeQueues
<1>4. CASE CommandVerb
  <2>1. StartVerb(ts, "loop", run.q, Null) /\ UNCHANGED <<conns, now, start>>
    BY <1>4 DEF CommandVerb
  <2> QED
    BY <1>1, <1>2, <2>1, StartVerbQueues
<1>5. ASSUME NEW p \in Players, LogIn(p)
      PROVE  QueueInv'
  <2>1. PICK S : S = log_in(ts, run.q, p)
    OBVIOUS
  <2>2. run.q \in Live(ts)
    <3>1. ts.active # <<>> /\ ts.active[1] = run.q
      BY <1>1, <1>5 DEF LogIn, TaskInv, RunOK, OnQueue
    <3>2. 1 \in 1..Len(ts.active)
      BY <1>1, <3>1, ListTypes
    <3> QED
      BY <3>1, <3>2 DEF Live, Elems
  <2>3. ts.tq[run.q].connected /\ ts.tq[run.q].player < 0
    BY <1>5 DEF LogIn, QueueInv, Serves
  <2>4. Keeps(ts, S)
    BY <1>1, <2>1, <2>2, <2>3, LogInSound DEF Keeps
  <2>5. PICK cont \in {"loop", "redirect"} : StartVerb(S, cont, run.q, Null)
    BY <1>5, <2>1 DEF LogIn
  <2>6. UNCHANGED <<conns, now, start>>
    BY <1>5 DEF LogIn
  <2> QED
    BY <1>1, <2>4, <2>5, <2>6, StartVerbQueues
<1> QED
  BY <1>3, <1>4, <1>5 DEF TaskReturns

\* Every builtin the running task may call
LEMMA BuiltinQueues ==
  ASSUME QueueInv, Builtin
  PROVE  QueueInv'
<1>1. TaskInv' /\ TaskInv /\ Sound(ts) /\ ts \in Good
  BY BuiltinInv DEF QueueInv, Sound
<1>2. Progrs \subseteq Objids
  BY DEF Objids
<1>3. ASSUME NEW d \in Delays, Fork(d)
      PROVE  QueueInv'
  <2>1. PICK t : t = [id |-> new_task_id(IdsIn(ts) \cup {run.id}), kind |-> "forked",
                      progr |-> run.progr, start |-> AfterDelay(d)]
    OBVIOUS
  <2>2. new_task_id(IdsIn(ts) \cup {run.id}) \in Nat
    BY <1>3, BoundsAssumption DEF Fork, RoomForTask, new_task_id
  <2>3. t \in Tasks
    BY <1>1, <2>1, <2>2, RunType, AfterDelayType DEF TaskInv, Tasks, Kinds
  <2>4. ts' = enqueue_waiting(ts, t) /\ pc = "task" /\ Keep
    BY <1>3, <2>1 DEF Fork, Calls
  <2> QED
    BY <1>1, <2>3, <2>4, EnqueueWaitingSound, StaysInv
<1>4. ASSUME NEW d \in Delays, Suspend(d)
      PROVE  QueueInv'
  <2>1. PICK t \in Tasks : t = Suspended(AfterDelay(d))
    BY <1>1, SuspendedType, AfterDelayType
  <2>2. PICK S : S = enqueue_waiting(ts, t)
    OBVIOUS
  <2>3. Keeps(ts, S) /\ Kept(ts, S)
    BY <1>1, <2>2, EnqueueWaitingSound, EnqueueWaitingKept, StaysKeeps
  <2>4. pc = "task" /\ Resume(S) /\ UNCHANGED Rest
    BY <1>4, <2>1, <2>2 DEF Suspend, Calls, Rest
  <2> QED
    BY <1>1, <2>3, <2>4, ResumeQueues
<1>5. ASSUME NEW p \in Progrs, Read(p)
      PROVE  QueueInv'
  <2>1. PICK q : q = find_tqueue(ts, p)
    OBVIOUS
  <2>2. PICK t \in Tasks : t = Suspended(0)
    BY <1>1, SuspendedType
  <2>3. PICK S : S = make_reading_task(ts, q, t)
    OBVIOUS
  <2>4. q \in Live(ts) /\ q \in Queues
    BY <1>1, <1>5, <2>1, FindTqueueType DEF Read
  <2>5. Keeps(ts, S) /\ Kept(ts, S)
    BY <1>1, <2>3, <2>4, MakeReadingSound, MakeReadingKept, StaysKeeps DEF Same
  <2>6. pc = "task" /\ Resume(S) /\ UNCHANGED Rest
    BY <1>5, <2>1, <2>2, <2>3 DEF Read, Calls, Rest
  <2> QED
    BY <1>1, <2>5, <2>6, ResumeQueues
<1>6. ASSUME NEW p \in Progrs, ReadInputNow(p)
      PROVE  QueueInv'
  <2>1. PICK q : q = find_tqueue(ts, p)
    OBVIOUS
  <2>2. /\ q \in Live(ts)
        /\ ts.tq[q].input # <<>>
        /\ ts' = dequeue_input_task(ts, q)
        /\ pc = "task"
        /\ Keep
    BY <1>1, <1>6, <2>1, FindTqueueType DEF ReadInputNow, Calls
  <2> QED
    BY <1>1, <2>2, DequeueInputSound, StaysInv DEF Same
<1>7. ASSUME NEW p \in Progrs, FlushInput(p)
      PROVE  QueueInv'
  <2>1. ts' = flush_player(ts, p) /\ pc = "task" /\ Keep
    BY <1>7 DEF FlushInput, Calls
  <2>2. "cmd" \in Lines
    BY DEF Lines
  <2> QED
    BY <1>1, <1>2, <2>1, <2>2, ForceInputSound, StaysInv
<1>8. ASSUME NEW p \in Progrs, BootPlayer(p)
      PROVE  QueueInv'
  <2>1. PICK h : h = find_shandle(ts, p)
    OBVIOUS
  <2>2. h \in Handles /\ ts' = [ts EXCEPT !.sh[h].disc = TRUE] /\ pc = "task" /\ Keep
    BY <1>1, <1>8, <2>1, FindShandleType DEF BootPlayer, Calls
  <2> QED
    BY <1>1, <2>2, DiscSound, StaysInv DEF Same
<1>9. ASSUME NEW p \in Progrs, Recycle(p)
      PROVE  QueueInv'
  <2>1. pc = "task" /\ UNCHANGED <<ts, pc, run, conns, now, start>>
    BY <1>9 DEF Recycle, Calls
  <2> QED
    BY <1>1, <2>1, CallInv
<1>10. ASSUME NEW p \in Progrs, NEW line \in Typed, NEW f \in BOOLEAN, ForceInput(p, line, f)
       PROVE  QueueInv'
  <2>1. ts' = force_input(ts, p, line, f) /\ pc = "task" /\ Keep
    BY <1>10 DEF ForceInput, Calls
  <2>2. line \in Lines
    BY BoundsAssumption
  <2> QED
    BY <1>1, <1>2, <2>1, <2>2, ForceInputSound, StaysInv
<1>11. ASSUME NEW p \in Progrs, NEW hold \in BOOLEAN, SetHoldInput(p, hold)
       PROVE  QueueInv'
  <2>1. PICK h : h = find_shandle(ts, p)
    OBVIOUS
  <2>2. PICK q : q = ts.sh[h].tasks
    OBVIOUS
  <2>3. /\ h \in Handles
        /\ ts.sh[h].open
        /\ ts' = set_hold_input(ts, q, hold)
        /\ pc = "task"
        /\ Keep
    BY <1>1, <1>11, <2>1, <2>2, FindShandleType DEF SetHoldInput, Calls
  <2>4. q \in Live(ts)
    BY <1>1, <2>2, <2>3 DEF Sound, Wired
  <2> QED
    BY <1>1, <2>3, <2>4, SetHoldSound, StaysInv DEF Same
<1>12. ASSUME NEW i \in 1..Len(ts.waiting), KillWaiting(i)
       PROVE  QueueInv'
  <2>1. ts' = kill_waiting(ts, i) /\ pc = "task" /\ Keep
    BY <1>12 DEF KillWaiting, KillTask, Calls
  <2> QED
    BY <1>1, <2>1, KillWaitingSound, StaysInv DEF Same
<1>13. ASSUME NEW i \in 1..Len(ts.waiting), ResumeWaiting(i)
       PROVE  QueueInv'
  <2>1. ts' = resume_waiting(ts, i, now) /\ pc = "task" /\ Keep
    BY <1>13 DEF ResumeWaiting, Calls
  <2>2. now \in Nat
    BY <1>1 DEF TaskInv, TypeOK
  <2> QED
    BY <1>1, <2>1, <2>2, ResumeWaitingSound, StaysInv
<1>14. ASSUME NEW q \in Live(ts), KillReader(q)
       PROVE  QueueInv'
  <2>1. ts' = [ts EXCEPT !.tq[q].reader = NoTask] /\ pc = "task" /\ Keep
    BY <1>14 DEF KillReader, KillTask, Calls, kill_reader
  <2> QED
    BY <1>1, <2>1, NewTypes, SetReaderSound, StaysInv DEF Same
<1>15. ASSUME NEW q \in Elems(ts.active), NEW i \in 1..Len(ts.tq[q].bg), KillReady(q, i)
       PROVE  QueueInv'
  <2>1. ts' = kill_bg(ts, q, i) /\ pc = "task" /\ Keep
    BY <1>15 DEF KillReady, KillTask, Calls
  <2>2. q \in Live(ts)
    BY DEF Live
  <2> QED
    BY <1>1, <2>1, <2>2, NewTypes, BgSound, StaysInv DEF Same
<1>16. CASE OpenNetworkConnection
  <2>1. /\ pc = "task"
        /\ conns + 1 \in Handles
        /\ conns' = conns + 1
        /\ ts' = server_new_connection(ts, conns + 1, TRUE)
        /\ UNCHANGED <<pc, run, now, start>>
    BY <1>16 DEF OpenNetworkConnection, Calls
  <2>2. /\ Sound(ts')
        /\ IsFiniteSet(Queues) \/ ts'.panic = ts.panic
        /\ \A h \in Handles : ts'.sh[h].open => ts.sh[h].open \/ h = conns + 1
        /\ \A r \in Live(ts) : ts'.tq[r].player = ts.tq[r].player
    BY <2>1, OpenSound
  <2> QED
    BY <1>1, <2>1, <2>2, CallInv
<1> QED
  BY <1>3, <1>4, <1>5, <1>6, <1>7, <1>8, <1>9, <1>10, <1>11, <1>12, <1>13, <1>14, <1>15,
     <1>16 DEF Builtin

\* A server that starts has no queue and no connection.
LEMMA InitQueues ==
  ASSUME Init
  PROVE  QueueInv
<1>1. TaskInv /\ ts = EmptyState /\ ts \in Good
  BY InitInv DEF Init, TaskInv
<1>2. /\ ts.idle = {} /\ ts.active = <<>> /\ ~ts.panic
      /\ \A q \in Queues : ts.tq[q] = NewTQueue
      /\ \A h \in Handles : ~ts.sh[h].open
  BY <1>1 DEF EmptyState, NoHandle
<1>3. Live(ts) = {} /\ Elems(ts.active) = {}
  BY <1>2 DEF Live, Elems
<1>4. Linked(ts, {})
  <2>1. Sorted(ts)
    BY <1>2 DEF Sorted
  <2> QED
    BY <1>2, <1>3, <2>1, FS_EmptySet DEF Linked
<1>5. Single(ts) /\ Wired(ts)
  BY <1>2, <1>3 DEF Single, Wired
<1>6. Serves
  BY <1>2 DEF Init, Serves
<1> QED
  BY <1>1, <1>4, <1>5, <1>6 DEF QueueInv, Sound

\* Every step keeps the invariant.
LEMMA QueueStep ==
  ASSUME QueueInv, [Next]_vars
  PROVE  QueueInv'
<1>1. CASE UNCHANGED vars
  <2>1. UNCHANGED <<ts, pc, run, valid, conns, at, now, start>>
    BY <1>1 DEF vars
  <2>2. TaskInv'
    BY <2>1 DEF QueueInv, TaskInv, TypeOK
  <2>3. Serves'
    BY <2>1 DEF QueueInv, Serves
  <2> QED
    BY <2>1, <2>2, <2>3 DEF QueueInv
<1>2. CASE Next
  BY <1>2, NetworkQueues, ClockQueues, ReadyWaitingQueues, PickQueues, FreeIdleQueues,
     SweepQueues, TaskReturnsQueues, BuiltinQueues DEF Next
<1> QED
  BY <1>1, <1>2

-----------------------------------------------------------------------------
\* The inductive invariant: every queue is on its list, named after at most one player
\* and one connection, in every reachable state of the server.
THEOREM QueueInvariant == Spec => []QueueInv
<1>1. Init => QueueInv
  BY InitQueues
<1>2. QueueInv /\ [Next]_vars => QueueInv'
  BY QueueStep
<1> QED
  BY <1>1, <1>2, PTL DEF Spec

\* ensure_usage(), activate_tqueue() and deactivate_tqueue() keep every queue on exactly
\* one list, once, and the active list in order of usage; a queue that is freed is empty.
THEOREM QueueListsHold == Spec => []QueueLists
<1>1. QueueInv => QueueLists
  <2> SUFFICES ASSUME QueueInv PROVE QueueLists
    OBVIOUS
  <2>1. ts \in Good /\ Linked(ts, {})
    BY DEF QueueInv, Sound
  <2>2. \A q \in Live(ts) : q \in ts.idle <=> ts.tq[q].usage = NO_USAGE
    <3> SUFFICES ASSUME NEW q \in Live(ts), q \notin ts.idle, ts.tq[q].usage = NO_USAGE
                 PROVE  FALSE
      BY <2>1 DEF Linked
    <3>1. q \in Elems(ts.active)
      BY DEF Live
    <3>2. ts.tq[q].usage >= 0
      BY <2>1, <3>1 DEF Linked
    <3> QED
      BY <3>2 DEF NO_USAGE
  <2> QED
    BY <2>1, <2>2 DEF Linked, Sorted, QueueLists
<1> QED
  BY <1>1, QueueInvariant, PTL

\* find_tqueue() has at most one queue to find, through every login that renames one.
THEOREM QueuesAreUnique == Spec => []OneQueuePerPlayer
<1>1. QueueInv => OneQueuePerPlayer
  BY DEF QueueInv, Sound, Single, OneQueuePerPlayer
<1> QED
  BY <1>1, QueueInvariant, PTL

\* new_input_task() gives a line to the queue of the connection it was read from, and
\* free_tqueue() frees no queue that a connection points to.
THEOREM ConnectionsHaveTheirQueues == Spec => []ConnectionHasItsQueue
<1>1. QueueInv => ConnectionHasItsQueue
  <2> SUFFICES ASSUME QueueInv PROVE ConnectionHasItsQueue
    OBVIOUS
  <2>1. Wired(ts)
    BY DEF QueueInv, Sound
  <2>2. ASSUME NEW q \in Live(ts), ts.tq[q].connected
        PROVE  Cardinality({h \in Handles : ts.sh[h].open /\ ts.sh[h].tasks = q}) = 1
    <3>1. PICK h \in Handles : ts.sh[h].open /\ ts.sh[h].tasks = q
      BY <2>1, <2>2 DEF Wired
    <3>2. {g \in Handles : ts.sh[g].open /\ ts.sh[g].tasks = q} = {h}
      BY <2>1, <3>1 DEF Wired
    <3> QED
      BY <3>2, FS_Singleton
  <2> QED
    BY <2>1, <2>2 DEF Wired, ConnectionHasItsQueue
<1> QED
  BY <1>1, QueueInvariant, PTL

\* find_shandle() finds the connection that server_suspend_input(),
\* server_resume_input() and player_connected() ask for.  The heap is unbounded:
\* mymalloc() panics on its own when the machine has no more.
THEOREM ServerNeverPanics ==
  ASSUME ~IsFiniteSet(Queues)
  PROVE  Spec => []NoPanic
<1>1. QueueInv => NoPanic
  BY DEF QueueInv, Serves, NoPanic
<1> QED
  BY <1>1, QueueInvariant, PTL
=============================================================================
