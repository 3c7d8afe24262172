-------------------------------- MODULE Values --------------------------------
(***************************************************************************)
(* The values of the language and what the operators make of them:         *)
(* src/src/list.c, numbers.c, utils.c and the cases of run() in execute.c  *)
(* that only compute.  Integers are those of an INT_MAX + 1 machine;       *)
(* strings are sequences of characters, whose case is already folded.      *)
(* There are no floats.                                                    *)
(***************************************************************************)
EXTENDS Integers, Sequences

CONSTANT INT_MAX

ASSUME IntAssumption == INT_MAX \in 1..32767

V(t, n, l) == [t |-> t, n |-> n, l |-> l]
IntV(n) == V("int", n, <<>>)
ObjV(n) == V("obj", n, <<>>)
ErrV(e) == V("err", e, <<>>)
StrV(chars) == V("str", 0, chars)
ListV(l) == V("list", 0, l)
NoneV == V("none", 0, <<>>)
Zero == IntV(0)

\* enum error
E_NONE == 0
E_TYPE == 1
E_DIV == 2
E_PERM == 3
E_PROPNF == 4
E_VERBNF == 5
E_VARNF == 6
E_INVIND == 7
E_MAXREC == 9
E_RANGE == 10
E_ARGS == 11
E_INVARG == 13
E_QUOTA == 14

\* What an operator gives: a value, or an error to be raised or pushed
Ok(v) == [err |-> E_NONE, v |-> v]
Fail(e) == [err |-> e, v |-> ErrV(e)]
Bool(b) == Ok(IntV(IF b THEN 1 ELSE 0))

is_true(v) == (v.t = "int" /\ v.n # 0) \/ (v.t \in {"str", "list"} /\ v.l # <<>>)

ismember(v, list) ==
  LET at == {i \in DOMAIN list.l : list.l[i] = v}
  IN IF at = {} THEN 0 ELSE CHOOSE i \in at : \A j \in at : i <= j

-----------------------------------------------------------------------------
(* Numbers *)

Wrap(n) == ((n + INT_MAX + 1) % (2 * (INT_MAX + 1))) - (INT_MAX + 1)

Abs(n) == IF n < 0 THEN -n ELSE n
\* C divides towards zero.
Quotient(a, b) == IF (a < 0) = (b < 0) THEN Abs(a) \div Abs(b) ELSE -(Abs(a) \div Abs(b))

\* do_power() with a natural exponent: r collects the squares that b asks for.
RECURSIVE Power(_, _, _)
Power(r, a, b) ==
  IF b = 0 THEN r
  ELSE Power(IF b % 2 = 1 THEN Wrap(r * a) ELSE r, Wrap(a * a), b \div 2)

DoPower(a, b) ==
  IF b >= 0 THEN Ok(IntV(Power(1, a, b)))
  ELSE CASE a = -1 -> Ok(IntV(IF b % 2 = 0 THEN 1 ELSE -1))
         [] a = 0 -> Fail(E_DIV)
         [] a = 1 -> Ok(IntV(1))
         [] OTHER -> Ok(Zero)

Arith(op, l, r) ==
  IF op = "ADD" /\ l.t = "str" /\ r.t = "str" THEN Ok(StrV(l.l \o r.l))
  ELSE IF l.t # "int" \/ r.t # "int" THEN Fail(E_TYPE)
  ELSE CASE op = "ADD" -> Ok(IntV(Wrap(l.n + r.n)))
         [] op = "MINUS" -> Ok(IntV(Wrap(l.n - r.n)))
         [] op = "MULT" -> Ok(IntV(Wrap(l.n * r.n)))
         [] op = "EXP" -> DoPower(l.n, r.n)
         [] r.n = 0 -> Fail(E_DIV)
         [] op = "DIV" -> Ok(IntV(Wrap(Quotient(l.n, r.n))))
         [] op = "MOD" -> Ok(IntV(l.n - r.n * Quotient(l.n, r.n)))

UnaryMinus(v) == IF v.t = "int" THEN Ok(IntV(Wrap(-v.n))) ELSE Fail(E_TYPE)
Not(v) == Bool(~is_true(v))

-----------------------------------------------------------------------------
(* Comparisons *)

\* mystrcasecmp()
RECURSIVE Before(_, _)
Before(s, t) ==
  /\ t # <<>>
  /\ \/ s = <<>>
     \/ Head(s) < Head(t)
     \/ Head(s) = Head(t) /\ Before(Tail(s), Tail(t))

Less(l, r) == IF l.t = "str" THEN Before(l.l, r.l) ELSE l.n < r.n

Compare(op, l, r) ==
  CASE op = "EQ" -> Bool(l = r)
    [] op = "NE" -> Bool(l # r)
    [] l.t # r.t \/ r.t = "list" -> Fail(E_TYPE)
    [] op = "LT" -> Bool(Less(l, r))
    [] op = "LE" -> Bool(~Less(r, l))
    [] op = "GT" -> Bool(Less(r, l))
    [] op = "GE" -> Bool(~Less(l, r))

In(l, r) == IF r.t = "list" THEN Ok(IntV(ismember(l, r))) ELSE Fail(E_TYPE)

-----------------------------------------------------------------------------
(* Lists and strings *)

Composite(v) == v.t \in {"list", "str"}

Element(base, i) == IF base.t = "str" THEN StrV(<<base.l[i]>>) ELSE base.l[i]

Ref(base, index) ==
  CASE index.t # "int" \/ ~Composite(base) -> Fail(E_TYPE)
    [] index.n \notin DOMAIN base.l -> Fail(E_RANGE)
    [] OTHER -> Ok(Element(base, index.n))

\* PUSH_REF does not go into a string.
PushRef(base, index) == IF base.t = "str" THEN Fail(E_TYPE) ELSE Ref(base, index)

RangeRef(base, from, to) ==
  CASE ~Composite(base) \/ to.t # "int" \/ from.t # "int" -> Fail(E_TYPE)
    [] from.n <= to.n /\ ~({from.n, to.n} \subseteq DOMAIN base.l) -> Fail(E_RANGE)
    [] OTHER -> Ok([base EXCEPT !.l = IF from.n > to.n THEN <<>> ELSE SubSeq(@, from.n, to.n)])

IndexSet(base, index, value) ==
  CASE \/ ~Composite(base)
       \/ index.t # "int"
       \/ base.t = "str" /\ value.t # "str" -> Fail(E_TYPE)
    [] index.n \notin DOMAIN base.l -> Fail(E_RANGE)
    [] base.t = "str" /\ Len(value.l) # 1 -> Fail(E_INVARG)
    [] OTHER -> Ok([base EXCEPT !.l[index.n] = IF base.t = "str" THEN value.l[1] ELSE value])

\* What is left of `from', the value, and what is right of `to': a range that ends before
\* it starts keeps what is between twice.
RangeSet(base, from, to, value) ==
  CASE \/ to.t # "int" \/ from.t # "int"
       \/ ~Composite(base) \/ base.t # value.t -> Fail(E_TYPE)
    [] from.n > Len(base.l) + 1 \/ to.n < 0 -> Fail(E_RANGE)
    [] OTHER ->
         Ok([base EXCEPT !.l = SubSeq(@, 1, from.n - 1) \o value.l
                                 \o SubSeq(@, to.n + 1, Len(@))])

Size(v) == IF Composite(v) THEN Ok(IntV(Len(v.l))) ELSE Fail(E_TYPE)

ListAddTail(list, tail) == IF list.t = "list" THEN Ok(ListV(Append(list.l, tail))) ELSE Fail(E_TYPE)
ListAppend(list, tail) ==
  IF list.t = "list" /\ tail.t = "list" THEN Ok(ListV(list.l \o tail.l)) ELSE Fail(E_TYPE)
CheckListForSplice(v) == IF v.t = "list" THEN Ok(v) ELSE Fail(E_TYPE)
=============================================================================
