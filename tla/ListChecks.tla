------------------------------ MODULE ListChecks ------------------------------
(***************************************************************************)
(* The functions of Lists against what they are for, on every list of up   *)
(* to four values of a few types and every string over a few characters.   *)
(***************************************************************************)
EXTENDS Lists, FiniteSets

SeqsUpTo(S, n) == UNION {[1..k -> S] : k \in 0..n}
MembersOf(s) == {s[i] : i \in DOMAIN s}
HowOften(s, x) == Cardinality({i \in DOMAIN s : s[i] = x})

SomeValues == {IntV(0), IntV(1), ObjV(1), StrV(<<97>>), StrV(<<97, 98>>), ListV(<<>>)}
SomeLists == SeqsUpTo(SomeValues, 3)
Numbers == SeqsUpTo({IntV(n) : n \in -1..2}, 4)

\* sort() gives its argument in order, equal values in the order they had, and
\* refuses what has two types, or two lists.
ASSUME SortSorts ==
  /\ \A l \in Numbers :
       LET s == bf_sort(<<ListV(l)>>).v.l
       IN /\ \A i \in 2..Len(s) : ~Less(s[i], s[i - 1])
          /\ \A x \in MembersOf(l) \cup MembersOf(s) : HowOften(l, x) = HowOften(s, x)
  /\ \A l \in SomeLists :
       (bf_sort(<<ListV(l)>>).err = E_TYPE) <=>
         \E i, j \in DOMAIN l : i # j /\ ~Comparable(l[i], l[j])

\* find_insert() is "index of first element in sortedlist > key".
ASSUME FindInsertIsFirstGreater ==
  \A l \in Numbers : \A key \in {IntV(n) : n \in -2..3} :
    (\A i \in 2..Len(l) : l[i - 1].n <= l[i].n) =>
      LET at == find_insert(l, key)
      IN /\ at \in 1..(Len(l) + 1)
         /\ \A i \in DOMAIN l : (i < at) <=> l[i].n <= key.n

\* remove_duplicates() keeps the first of equal values and their order.
ASSUME DuplicatesAreRemoved ==
  \A l \in SomeLists :
    LET r == bf_remove_duplicates(<<ListV(l)>>).v
        First(x) == ismember(x, ListV(l))
    IN /\ MembersOf(r.l) = MembersOf(l)
       /\ \A i, j \in DOMAIN r.l : i < j => First(r.l[i]) < First(r.l[j])

\* What is put in a list is where it was to be put and can be taken out again;
\* listappend() behind the greatest number puts it in front.
ASSUME InsertedIsDeleted ==
  \A l \in SeqsUpTo({IntV(0), IntV(1)}, 3) : \A pos \in {-1, 0, 1, 2, 3, 4, 5, INT_MAX} :
    LET list == ListV(l)
        put == bf_listinsert(<<list, ObjV(1), IntV(pos)>>).v
        at == ismember(ObjV(1), put)
        behind == bf_listappend(<<list, ObjV(1), IntV(pos)>>).v
    IN /\ bf_listdelete(<<put, IntV(at)>>).v = list
       /\ pos \in 1..Len(l) => at = pos
       /\ ismember(ObjV(1), behind) =
            (IF pos <= 0 \/ pos = INT_MAX THEN 1 ELSE IF pos > Len(l) THEN Len(l) + 1 ELSE pos + 1)
       /\ setremove(setadd(list, ObjV(1)), ObjV(1)) = list

\* assoc() and iassoc() find the same row.
ASSUME AssocAgrees ==
  \A rows \in SeqsUpTo({ListV(<<>>), ListV(<<IntV(1)>>), ListV(<<IntV(1), IntV(2)>>), IntV(1)}, 3) :
    \A target \in {IntV(1), IntV(2)} : \A index \in 1..3 :
      LET args == <<target, ListV(rows), IntV(index)>>
          at == bf_iassoc(args).v.n
      IN IF at = 0
         THEN /\ bf_assoc(args).v = ListV(<<>>)
              /\ \A i \in DOMAIN rows :
                   rows[i].t = "list" /\ index \in DOMAIN rows[i].l => rows[i].l[index] # target
         ELSE bf_assoc(args).v = rows[at] /\ rows[at].l[index] = target

SomeStrings(n) == SeqsUpTo({97, 98}, n)

\* index() and rindex() are the first and the last place; strsub() changes
\* nothing where there is no place, and everything that is counted from the left.
ASSUME SearchesFind ==
  \A source \in SomeStrings(4) : \A what \in SomeStrings(2) :
    LET places == {p \in 1..(Len(source) + 1) : Occurs(source, what, p)}
        s == strindex(source, what)
        r == strrindex(source, what)
    IN /\ IF places = {} THEN s = 0 /\ r = 0
          ELSE /\ {s, r} \subseteq places
               /\ \A p \in places : s <= p /\ p <= r
       /\ what # <<>> =>
            /\ strsub(source, what, what) = source
            /\ strsub(source, what, <<>>) = source <=> places = {}
            /\ places # {} =>
                 strsub(source, what, <<99>>) =
                   SubSeq(source, 1, s - 1) \o <<99>>
                     \o strsub(SubSeq(source, s + Len(what), Len(source)), what, <<99>>)

Bytes == {0, 9, 32, 48, 65, 102, 126, 127, 255}

\* encode_binary() and decode_binary() undo each other, and a binary string is
\* printable however it was made.
ASSUME BinaryRoundTrip ==
  /\ \A bytes \in SeqsUpTo(Bytes, 3) :
       LET s == raw_bytes_to_binary(bytes)
       IN /\ binary_to_raw_bytes(s) = bytes
          /\ \A c \in MembersOf(s) : isgraph(c) \/ c = 32
          /\ \A fully \in {0, 1} :
               bf_encode_binary(bf_decode_binary(<<StrV(s), IntV(fully)>>).v.l).v = StrV(s)
  /\ \A s \in SeqsUpTo({TILDE, 48, 65, 102, 103}, 4) :
       (bf_decode_binary(<<StrV(s)>>).err = E_NONE) <=> IsBinary(s)
=============================================================================
