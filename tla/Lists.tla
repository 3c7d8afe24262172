-------------------------------- MODULE Lists --------------------------------
(***************************************************************************)
(* The builtin functions on lists and strings that compute and do nothing  *)
(* else: src/src/list.c, utils.c and extensions.c.  bf_ functions take the *)
(* sequence of arguments a program gave, of the number and types that      *)
(* their registration demands, and give a value or an error.  Characters   *)
(* are their codes.                                                        *)
(***************************************************************************)
EXTENDS Values
LOCAL INSTANCE SequencesExt

Given(args, i, default) == IF Len(args) >= i THEN args[i].n ELSE default

-----------------------------------------------------------------------------
(* Lists *)

listappend(list, v) == ListV(Append(list.l, v))
doinsert(list, v, pos) == ListV(InsertAt(list.l, pos, v))
listinsert(list, v, pos) ==
  doinsert(list, v, IF pos <= 0 THEN 1 ELSE IF pos > Len(list.l) THEN Len(list.l) + 1 ELSE pos)
listdelete(list, pos) == ListV(RemoveAt(list.l, pos))
setadd(list, v) == IF ismember(v, list) # 0 THEN list ELSE listappend(list, v)
setremove(list, v) ==
  IF ismember(v, list) # 0 THEN listdelete(list, ismember(v, list)) ELSE list

\* Behind the position: the sum wraps.
bf_listappend(args) ==
  Ok(IF Len(args) = 2 THEN listappend(args[1], args[2])
     ELSE listinsert(args[1], args[2], Wrap(args[3].n + 1)))
bf_listinsert(args) == Ok(listinsert(args[1], args[2], Given(args, 3, 1)))
bf_listdelete(args) ==
  IF args[2].n \in DOMAIN args[1].l THEN Ok(listdelete(args[1], args[2].n)) ELSE Fail(E_RANGE)
bf_listset(args) ==
  IF args[3].n \in DOMAIN args[1].l
  THEN Ok(ListV([args[1].l EXCEPT ![args[3].n] = args[2]])) ELSE Fail(E_RANGE)

bf_make(args) ==
  IF args[1].n < 0 \/ args[1].n >= INT_MAX THEN Fail(E_INVARG)
  ELSE Ok(ListV([i \in 1..args[1].n |-> IF Len(args) = 2 THEN args[2] ELSE Zero]))

\* Column 0 is the length that each list keeps in front of its elements; what a
\* negative column reads is not in the list at all, and not modelled.
Column(row, c) == IF c = 0 THEN IntV(Len(row.l)) ELSE row.l[c]
bf_slice(args) ==
  LET c == Given(args, 2, 1)
      rows == args[1].l
  IN IF \E i \in DOMAIN rows : rows[i].t # "list" \/ Len(rows[i].l) < c THEN Fail(E_INVARG)
     ELSE Ok(ListV([i \in DOMAIN rows |-> Column(rows[i], c)]))

bf_remove_duplicates(args) == Ok(FoldLeft(setadd, ListV(<<>>), args[1].l))

list_iassoc(target, list, index) ==
  SelectInSeq(list.l, LAMBDA row : row.t = "list" /\ Len(row.l) >= index /\ row.l[index] = target)
list_assoc(target, list, index) ==
  LET at == list_iassoc(target, list, index) IN IF at = 0 THEN ListV(<<>>) ELSE list.l[at]
bf_assoc(args) ==
  LET index == Given(args, 3, 1)
  IN IF index < 1 THEN Fail(E_RANGE) ELSE Ok(list_assoc(args[1], args[2], index))
bf_iassoc(args) ==
  LET index == Given(args, 3, 1)
  IN IF index < 1 THEN Fail(E_RANGE) ELSE Ok(IntV(list_iassoc(args[1], args[2], index)))

Comparable(a, b) == a.t = b.t /\ a.t \in {"str", "int", "obj", "err"}

\* Halve l..r, where every element before l is at most the key and every one after r is greater.
NO_PLACE == -10
RECURSIVE Halve(_, _, _, _)
Halve(lst, key, l, r) ==
  LET i == (r + l) \div 2
  IN IF r < l THEN l
     ELSE IF ~Comparable(key, lst[i]) THEN NO_PLACE
     ELSE IF Less(key, lst[i]) THEN Halve(lst, key, l, i - 1) ELSE Halve(lst, key, i + 1, r)
find_insert(lst, key) == Halve(lst, key, 1, Len(lst))

RECURSIVE SortOnto(_, _)
SortOnto(sorted, rest) ==
  IF rest = <<>> THEN Ok(ListV(sorted))
  ELSE LET l == find_insert(sorted, Head(rest))
       IN IF l = NO_PLACE THEN Fail(E_TYPE)
          ELSE SortOnto(listinsert(ListV(sorted), Head(rest), l).l, Tail(rest))
bf_sort(args) == SortOnto(<<>>, args[1].l)

-----------------------------------------------------------------------------
(* Strings, as sequences of characters *)

\* strncmp() of what and the characters of source from s on
Occurs(source, what, s) ==
  s + Len(what) - 1 <= Len(source) /\ SubSeq(source, s, s + Len(what) - 1) = what

RECURSIVE FindFrom(_, _, _, _)
FindFrom(source, what, s, step) ==
  IF s \notin 1..(Len(source) - Len(what) + 1) THEN 0
  ELSE IF Occurs(source, what, s) THEN s
  ELSE FindFrom(source, what, s + step, step)
strindex(source, what) == FindFrom(source, what, 1, 1)
strrindex(source, what) == FindFrom(source, what, Len(source) - Len(what) + 1, -1)

RECURSIVE strsub(_, _, _)
strsub(source, what, with) ==
  IF source = <<>> THEN <<>>
  ELSE IF Occurs(source, what, 1)
  THEN with \o strsub(SubSeq(source, Len(what) + 1, Len(source)), what, with)
  ELSE <<Head(source)>> \o strsub(Tail(source), what, with)
bf_strsub(args) ==
  IF args[2].l = <<>> THEN Fail(E_INVARG)
  ELSE Ok(StrV(strsub(args[1].l, args[2].l, args[3].l)))

TILDE == 126
isgraph(c) == c \in 33..126
HexDigit(d) == IF d < 10 THEN 48 + d ELSE 97 + d - 10
NotHex == -1
\* toupper() first
HexValue(c) ==
  IF c \in 48..57 THEN c - 48
  ELSE IF c \in 65..70 THEN c - 65 + 10
  ELSE IF c \in 97..102 THEN c - 97 + 10
  ELSE NotHex

raw_bytes_to_binary(bytes) ==
  FoldLeft(LAMBDA s, c : s \o (IF c # TILDE /\ (isgraph(c) \/ c = 32) THEN <<c>>
                               ELSE <<TILDE, HexDigit(c \div 16), HexDigit(c % 16)>>),
           <<>>, bytes)

\* A tilde and two digits are a byte; NotHex if they are not two digits.
RECURSIVE binary_to_raw_bytes(_)
binary_to_raw_bytes(s) ==
  IF s = <<>> THEN <<>>
  ELSE IF Head(s) # TILDE THEN <<Head(s)>> \o binary_to_raw_bytes(Tail(s))
  ELSE IF Len(s) < 3 \/ HexValue(s[2]) = NotHex \/ HexValue(s[3]) = NotHex THEN <<NotHex>>
  ELSE <<16 * HexValue(s[2]) + HexValue(s[3])>> \o binary_to_raw_bytes(SubSeq(s, 4, Len(s)))
IsBinary(s) == NotHex \notin Range(binary_to_raw_bytes(s))

\* Runs of printable characters are strings, every other byte is a number.
Printable(c) == isgraph(c) \/ c \in {9, 32}
decode_bytes(bytes) ==
  FoldLeft(LAMBDA list, c :
             IF ~Printable(c) THEN Append(list, IntV(c))
             ELSE IF list # <<>> /\ Last(list).t = "str"
             THEN [list EXCEPT ![Len(list)].l = Append(@, c)]
             ELSE Append(list, StrV(<<c>>)),
           <<>>, bytes)
bf_decode_binary(args) ==
  LET bytes == binary_to_raw_bytes(args[1].l)
  IN IF ~IsBinary(args[1].l) THEN Fail(E_INVARG)
     ELSE IF Len(args) >= 2 /\ is_true(args[2])
     THEN Ok(ListV([i \in DOMAIN bytes |-> IntV(bytes[i])]))
     ELSE Ok(ListV(decode_bytes(bytes)))

RECURSIVE encode_binary(_), CanEncode(_)
CanEncode(v) ==
  CASE v.t = "int" -> v.n \in 0..255
    [] v.t = "str" -> TRUE
    [] v.t = "list" -> \A i \in DOMAIN v.l : CanEncode(v.l[i])
    [] OTHER -> FALSE
encode_binary(v) ==
  CASE v.t = "int" -> <<v.n>>
    [] v.t = "str" -> v.l
    [] v.t = "list" -> FlattenSeq([i \in DOMAIN v.l |-> encode_binary(v.l[i])])
bf_encode_binary(args) ==
  IF CanEncode(ListV(args)) THEN Ok(StrV(raw_bytes_to_binary(encode_binary(ListV(args)))))
  ELSE Fail(E_INVARG)
=============================================================================
