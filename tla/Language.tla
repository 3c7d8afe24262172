-------------------------------- MODULE Language --------------------------------
(***************************************************************************)
(* What a program of the language means, by its parse tree, and that the   *)
(* compiled program does it.                                               *)
(*                                                                         *)
(* A completion is how an expression or a statement ends: k is "ok",       *)
(* "raise", "uncaught", "return", "passed" for a return that went through  *)
(* a `finally', "break", "continue", "kill", or "stop" where the answers   *)
(* from outside or the fuel end; v is the value, the exception, the        *)
(* traceback or the name of the loop; s is the state then: the variables,  *)
(* what was seen, the answers used, the fuel, the forks.                   *)
(*                                                                         *)
(* A context is where that happens: frames are the verbs being run, with   *)
(* the line each is at, handlers the codes that are caught, with the frame *)
(* that does.                                                              *)
(***************************************************************************)
EXTENDS Interpreter

End(k, v, s) == [k |-> k, v |-> v, s |-> s]
OK(v, s) == End("ok", v, s)
Then(r, F(_, _)) == IF r.k = "ok" THEN F(r.v, r.s) ELSE r

Frame(prog, debug, f, pc) == [prog |-> prog, debug |-> debug, f |-> f, pc |-> pc, line |-> 0]
Top(c) == LastOf(c.frames)
At(c, line) == [c EXCEPT !.frames[Len(c.frames)].line = line]
Dollar(c, v) == [c EXCEPT !.dollar = v]
Guarded(c, codes) ==
  [c EXCEPT !.handlers = Append(@, [depth |-> Len(c.frames), codes |-> codes])]

RECURSIVE Stack(_, _, _)
Stack(c, start, i) ==
  IF i < start THEN <<>>
  ELSE LET f == c.frames[i]
       IN <<ListV(<<IntV(f.prog), IntV(f.line)>>)>>
          \o (IF i # start /\ f.pc # 0 THEN <<ListV(<<IntV(-f.f), IntV(f.pc)>>)>> ELSE <<>>)
          \o Stack(c, start, i - 1)
StackFrom(c, start) == Stack(c, start, Len(c.frames))

SeenBy(s, what, v, stack) == [s EXCEPT !.seen = Append(@, Event(what, 0, 0, v, stack))]

\* An error is raised in a verb with the d bit, and a value in any other.
Raise(c, v, s) ==
  LET catching == {i \in DOMAIN c.handlers : Handles(c.handlers[i].codes, v)}
      depth == c.handlers[CHOOSE i \in catching : \A j \in catching : j <= i].depth
  IN CASE ~Top(c).debug -> OK(v, s)
       [] Top(c).debug /\ catching # {} ->
            End("raise", Exception(v, ListV(StackFrom(c, depth))), s)
       [] OTHER -> End("uncaught", Event("uncaught", 0, 0, v, StackFrom(c, 1)), s)
Give(c, r, s) == IF r.err = E_NONE THEN OK(r.v, s) ELSE Raise(c, ErrV(r.err), s)
Err(c, e, s) == Raise(c, ErrV(e), s)

\* The next answer from outside
Ask(c, s, F(_, _)) ==
  IF s.pos > Len(c.answers) THEN End("stop", NoneV, s)
  ELSE F(c.answers[s.pos], [s EXCEPT !.pos = @ + 1])
Burn(s, F(_)) == IF s.fuel = 0 THEN End("stop", NoneV, s) ELSE F([s EXCEPT !.fuel = @ - 1])

-----------------------------------------------------------------------------
(* Expressions *)

RECURSIVE Value(_, _, _), ArgValues(_, _, _, _, _), CallProgram(_, _, _, _, _, _, _)
RECURSIVE Place(_, _, _, _), Put(_, _, _, _, _), RunBlock(_, _, _, _, _), RunStmt(_, _, _, _)

\* Arguments, as a list
ArgValues(args, i, so_far, c, s) ==
  IF i > Len(args) THEN OK(so_far, s)
  ELSE Then(Value(args[i].kids[1], c, s),
         LAMBDA v, s1 :
           Then(Give(c, CASE args[i].op = "NORMAL" -> ListAddTail(so_far, v)
                          [] i = 1 -> CheckListForSplice(v)
                          [] OTHER -> ListAppend(so_far, v), s1),
                LAMBDA list, s2 : ArgValues(args, i + 1, list, c, s2)))
ArgList(args, c, s) == ArgValues(args, 1, ListV(<<>>), c, s)

CodesValue(codes, c, s) == IF codes.op = "ANY" THEN OK(Zero, s) ELSE ArgList(codes.kids, c, s)

\* Two values, one after the other
Both(a, b, ca, cb, s, F(_, _, _)) ==
  Then(Value(a, ca, s), LAMBDA v, s1 : Then(Value(b, cb, s1), LAMBDA w, s2 : F(v, w, s2)))

Operation(op, l, r) ==
  CASE op \in {"EQ", "NE", "LT", "LE", "GT", "GE"} -> Compare(op, l, r)
    [] op = "IN" -> In(l, r)
    [] op = "INDEX" -> Ref(l, r)
    [] OTHER -> Arith(CASE op = "PLUS" -> "ADD" [] op = "TIMES" -> "MULT"
                        [] op = "DIVIDE" -> "DIV" [] OTHER -> op, l, r)

Property(obj, name, c, s) ==
  IF PropCheck(obj, name) # E_NONE THEN Err(c, PropCheck(obj, name), s)
  ELSE Ask(c, SeenBy(s, "get", name, <<>>), LAMBDA r, s1 : Give(c, r, s1))

\* The verb n, called by function f at its step pc, or by a verb if pc is 0: the error, or
\* how the call ends.
CallProgram(n, args, debug, f, pc, c, s) ==
  Burn(s, LAMBDA s0 :
    LET c1 == [c EXCEPT !.frames = Append(@, Frame(n, debug, f, pc))]
        r == RunBlock(world[n].stmts, 1, 1, c1, [s0 EXCEPT !.env = NewEnv(args)])
        back(k, v) == End(k, v, [r.s EXCEPT !.env = s.env])
    IN CASE r.k = "ok" -> back("ok", Zero)
         [] r.k \in {"return", "passed"} -> back("ok", r.v)
         [] OTHER -> back(r.k, r.v))
Callable(n, c) ==
  IF ~Found(n) THEN E_VERBNF ELSE IF Len(c.frames) >= MAX_DEPTH THEN E_MAXREC ELSE E_NONE
CallOr(n, args, debug, f, pc, c, s) ==
  IF Callable(n, c) # E_NONE THEN Err(c, Callable(n, c), s)
  ELSE CallProgram(n, args, debug, f, pc, c, s)

\* CALLS is told how its calls ended, and zero if they did not return.
Back(s, pc, v) == [s EXCEPT !.seen = Append(@, Event("back", CALLS, pc, v, <<>>))]
AfterSecond(r) ==
  CASE r.k = "ok" -> OK(Zero, Back(r.s, 3, r.v))
    [] r.k = "stop" -> r
    [] OTHER -> [r EXCEPT !.s = Back(@, 3, Zero)]
AfterFirst(r, c) ==
  CASE r.k = "ok" ->
         AfterSecond(CallProgram(Len(world), ListV(<<>>), world[Len(world)].debug, CALLS, 3, c,
                                 Back(r.s, 2, r.v)))
    [] r.k = "stop" -> r
    [] OTHER -> [r EXCEPT !.s = Back(Back(@, 2, Zero), 3, Zero)]
TwoCalls(n, c, s) ==
  IF Callable(n, c) # E_NONE THEN Err(c, Callable(n, c), s)
  ELSE AfterFirst(CallProgram(n, ListV(<<>>), world[n].debug, CALLS, 2, c, s), c)

Function(f, args, c, s) ==
  LET x == args.l[1]
  IN CASE BadArgs(f, args) # E_NONE -> Err(c, BadArgs(f, args), s)
       [] f = EXT /\ BadArgs(f, args) = E_NONE ->
            Ask(c, SeenBy(s, "call", args, StackFrom(c, 1)), LAMBDA r, s1 : Give(c, r, s1))
       [] f = SUSPEND /\ BadArgs(f, args) = E_NONE -> Ask(c, s, LAMBDA r, s1 : Give(c, r, s1))
       [] f = RAISE /\ BadArgs(f, args) = E_NONE -> Raise(c, x, s)
       [] f = KILL /\ BadArgs(f, args) = E_NONE -> End("kill", NoneV, s)
       [] OTHER ->
            CASE x.t # "int" -> Err(c, E_TYPE, s)
              [] x.t = "int" /\ f = PASS ->
                   CallOr(x.n, ListV(<<>>), Found(x.n) /\ world[x.n].debug, 0, 0, c, s)
              [] x.t = "int" /\ f = CALLS -> TwoCalls(x.n, c, s)
              [] x.t = "int" /\ f = EVAL /\ ~Found(x.n) -> OK(ListV(<<Zero, ListV(<<>>)>>), s)
              [] OTHER ->
                   IF Callable(x.n, c) # E_NONE THEN Err(c, E_MAXREC, s)
                   ELSE Then(CallProgram(x.n, ListV(<<>>), TRUE, EVAL, 2, c, s),
                             LAMBDA v, s1 : OK(ListV(<<IntV(1), v>>), s1))

\* obj:verb(args)
Message(obj, verb, args, c, s) ==
  LET n == Len(verb.l)
  IN CASE args.t # "list" \/ verb.t # "str" \/ obj.t # "obj" -> Err(c, E_TYPE, s)
       [] obj.t = "obj" /\ ~Valid(obj) -> Err(c, E_INVIND, s)
       [] OTHER -> CallOr(n, args, Found(n) /\ world[n].debug, 0, 0, c, s)

\* `try ! codes => default'
TryValue(e, c, s) ==
  Then(CodesValue(e.kids[2], c, s),
       LAMBDA codes, s1 :
         LET r == Value(e.kids[1], Guarded(c, codes), s1)
         IN CASE r.k = "raise" /\ Handles(codes, r.v.l[1]) ->
                   IF Len(e.kids) = 3 THEN Value(e.kids[3], c, r.s) ELSE OK(r.v.l[1], r.s)
              [] OTHER -> r)

Value(e, c, s) ==
  CASE e.op = "VAR" -> OK(LiteralV(e), s)
    [] e.op = "ID" -> IF s.env[e.n] = NoneV THEN Err(c, E_VARNF, s) ELSE OK(s.env[e.n], s)
    [] e.op \in {"AND", "OR"} ->
         Then(Value(e.kids[1], c, s),
              LAMBDA v, s1 : IF is_true(v) = (e.op = "OR") THEN OK(v, s1) ELSE Value(e.kids[2], c, s1))
    [] e.op = "NEGATE" -> Then(Value(e.kids[1], c, s), LAMBDA v, s1 : Give(c, UnaryMinus(v), s1))
    [] e.op = "NOT" -> Then(Value(e.kids[1], c, s), LAMBDA v, s1 : Give(c, Not(v), s1))
    [] e.op = "PROP" -> Both(e.kids[1], e.kids[2], c, c, s, LAMBDA v, w, s1 : Property(v, w, c, s1))
    [] e.op = "LENGTH" -> Give(c, Size(c.dollar), s)
    [] e.op = "LIST" -> ArgList(e.kids, c, s)
    [] e.op = "CALL" ->
         Then(ArgList(e.kids, c, s),
              LAMBDA v, s1 : IF v.t = "list" THEN Function(e.n, v, c, s1) ELSE Err(c, E_TYPE, s1))
    [] e.op = "VERB" ->
         Both(e.kids[1], e.kids[2], c, c, s,
              LAMBDA obj, verb, s1 :
                Then(ArgList(Tail(Tail(e.kids)), c, s1),
                     LAMBDA args, s2 : Message(obj, verb, args, c, s2)))
    [] e.op = "COND" ->
         Then(Value(e.kids[1], c, s),
              LAMBDA v, s1 : Value(e.kids[IF is_true(v) THEN 2 ELSE 3], c, s1))
    [] e.op = "INDEX" ->
         Then(Value(e.kids[1], c, s),
              LAMBDA base, s1 : Then(Value(e.kids[2], Dollar(c, base), s1),
                                     LAMBDA i, s2 : Give(c, Ref(base, i), s2)))
    [] e.op = "RANGE" ->
         Then(Value(e.kids[1], c, s),
              LAMBDA base, s1 :
                Both(e.kids[2], e.kids[3], Dollar(c, base), Dollar(c, base), s1,
                     LAMBDA from, to, s2 : Give(c, RangeRef(base, from, to), s2)))
    [] e.op = "CATCH" -> TryValue(e, c, s)
    [] e.op = "ASGN" ->
         Then(Place(e.kids[1], FALSE, c, s),
              LAMBDA place, s1 :
                Then(Value(e.kids[2], c, s1),
                     LAMBDA v, s2 : Then(Put(e.kids[1], place, v, c, s2),
                                         LAMBDA w, s3 : OK(IF e.kids[1].op \in {"INDEX", "RANGE"}
                                                           THEN v ELSE w, s3))))
    [] OTHER -> Both(e.kids[1], e.kids[2], c, c, s,
                     LAMBDA v, w, s1 : Give(c, Operation(e.op, v, w), s1))

\* The values that name a place, from the outside in, and the value there if it is read
Place(l, read, c, s) ==
  CASE l.op = "ID" ->
         IF ~read THEN OK([parts |-> <<>>, at |-> NoneV], s)
         ELSE Then(Value(l, c, s), LAMBDA v, s1 : OK([parts |-> <<>>, at |-> v], s1))
    [] l.op = "PROP" ->
         Both(l.kids[1], l.kids[2], c, c, s,
              LAMBDA obj, name, s1 :
                IF ~read THEN OK([parts |-> <<<<obj, name>>>>, at |-> NoneV], s1)
                ELSE Then(Property(obj, name, c, s1),
                          LAMBDA v, s2 : OK([parts |-> <<<<obj, name>>>>, at |-> v], s2)))
    [] l.op = "INDEX" ->
         Then(Place(l.kids[1], TRUE, c, s),
              LAMBDA p, s1 :
                Then(Value(l.kids[2], Dollar(c, p.at), s1),
                     LAMBDA i, s2 :
                       LET parts == <<<<p.at, i>>>> \o p.parts
                       IN IF ~read THEN OK([parts |-> parts, at |-> NoneV], s2)
                          ELSE Then(Give(c, PushRef(p.at, i), s2),
                                    LAMBDA v, s3 : OK([parts |-> parts, at |-> v], s3))))
    [] l.op = "RANGE" ->
         Then(Place(l.kids[1], TRUE, c, s),
              LAMBDA p, s1 :
                Both(l.kids[2], l.kids[3], Dollar(c, p.at), Dollar(c, p.at), s1,
                     LAMBDA from, to, s2 :
                       OK([parts |-> <<<<p.at, from, to>>>> \o p.parts, at |-> NoneV], s2)))
    [] OTHER -> OK([parts |-> <<>>, at |-> NoneV], s)

Bind(slot, v, s) == [s EXCEPT !.env[slot] = v]

\* {a, ?b = e, @c} = list: the required targets share what there is first.
RECURSIVE Spread(_, _, _, _, _, _)
Spread(ts, i, rest, spare, c, s) ==
  IF i > Len(ts) THEN OK(Zero, s)
  ELSE LET t == ts[i]
           extra == Len(rest) - Cardinality({j \in i..Len(ts) : ts[j].op # "REST"})
           one == Spread(ts, i + 1, Tail(rest), spare, c, Bind(t.n, Head(rest), s))
       IN CASE t.op = "REQUIRED" -> one
            [] t.op = "OPTIONAL" /\ spare > 0 ->
                 Spread(ts, i + 1, Tail(rest), spare - 1, c, Bind(t.n, Head(rest), s))
            [] t.op = "OPTIONAL" /\ spare = 0 -> Spread(ts, i + 1, rest, spare, c, s)
            [] OTHER -> LET k == IF extra > 0 THEN extra ELSE 0
                        IN Spread(ts, i + 1, SubSeq(rest, k + 1, Len(rest)), spare, c,
                                  Bind(t.n, ListV(SubSeq(rest, 1, k)), s))
\* Those that are left without a value get their defaults, after all others.
RECURSIVE Defaults(_, _, _, _, _)
Defaults(ts, i, missing, c, s) ==
  IF i > Len(ts) THEN OK(Zero, s)
  ELSE IF i \in missing /\ ts[i].kids # <<>>
  THEN Then(Value(ts[i].kids[1], c, s),
            LAMBDA v, s1 : Defaults(ts, i + 1, missing, c, Bind(ts[i].n, v, s1)))
  ELSE Defaults(ts, i + 1, missing, c, s)

ScatterInto(ts, v, c, s) ==
  LET required == Cardinality({i \in DOMAIN ts : ts[i].op = "REQUIRED"})
      rest == \E i \in DOMAIN ts : ts[i].op = "REST"
      spare == Len(v.l) - required
      optional == {i \in DOMAIN ts : ts[i].op = "OPTIONAL"}
      missing == {i \in optional : Cardinality({j \in optional : j <= i}) > spare}
  IN CASE v.t # "list" -> Err(c, E_TYPE, s)
       [] v.t = "list" /\ (spare < 0 \/ (~rest /\ Len(v.l) > Len(ts))) -> Err(c, E_ARGS, s)
       [] OTHER -> LET some == IF spare < Cardinality(optional) THEN spare ELSE Cardinality(optional)
                   IN Then(Spread(ts, 1, v.l, some, c, s),
                           LAMBDA z, s1 : Then(Defaults(ts, 1, missing, c, s1), LAMBDA y, s2 : OK(v, s2)))

\* A value goes into its place, and the changed one into the place around.
Put(l, place, v, c, s) ==
  LET here == Head(place.parts)
      around == [place EXCEPT !.parts = Tail(@)]
  IN CASE l.op = "ID" -> OK(v, Bind(l.n, v, s))
       [] l.op = "PROP" ->
            IF PropCheck(here[1], here[2]) # E_NONE THEN Err(c, PropCheck(here[1], here[2]), s)
            ELSE Ask(c, s, LAMBDA r, s1 :
                   IF r.err # E_NONE THEN Err(c, r.err, s1)
                   ELSE OK(v, SeenBy(s1, "put", ListV(<<here[2], v>>), <<>>)))
       [] l.op = "INDEX" -> Then(Give(c, IndexSet(here[1], here[2], v), s),
                                 LAMBDA w, s1 : Put(l.kids[1], around, w, c, s1))
       [] l.op = "RANGE" -> Then(Give(c, RangeSet(here[1], here[2], here[3], v), s),
                                 LAMBDA w, s1 : Put(l.kids[1], around, w, c, s1))
       [] l.op = "SCATTER" -> ScatterInto(l.kids, v, c, s)

-----------------------------------------------------------------------------
(* Statements, and the lines of a listing they begin at *)

RECURSIVE LinesOf(_), LinesIn(_)
LinesIn(stmts) == IF stmts = <<>> THEN 0 ELSE LinesOf(Head(stmts)) + LinesIn(Tail(stmts))
BodyLines(node) == LinesIn(LastOf(node.kids).kids)
\* The lines of the first k parts of an IF or TRYEXCEPT, each with a line of its own before it
RECURSIVE PartLines(_, _)
PartLines(parts, k) == IF k = 0 THEN 0 ELSE 1 + BodyLines(parts[k]) + PartLines(parts, k - 1)

LinesOf(stmt) ==
  CASE stmt.op = "IF" ->
         LET otherwise == LastOf(stmt.kids).kids
         IN PartLines(Arms(stmt), Len(Arms(stmt)))
              + (IF otherwise = <<>> THEN 0 ELSE 1 + LinesIn(otherwise)) + 1
    [] stmt.op \in {"FORLIST", "FORRANGE", "WHILE", "FORK"} -> 2 + BodyLines(stmt)
    [] stmt.op = "TRYEXCEPT" ->
         2 + LinesIn(stmt.kids[1].kids) + PartLines(Excepts(stmt), Len(Excepts(stmt)))
    [] stmt.op = "TRYFINALLY" -> 3 + LinesIn(stmt.kids[1].kids) + BodyLines(stmt)
    [] OTHER -> 1

RunBlock(stmts, i, line, c, s) ==
  IF i > Len(stmts) THEN OK(Zero, s)
  ELSE Then(RunStmt(stmts[i], line, At(c, line), s),
            LAMBDA v, s1 : RunBlock(stmts, i + 1, line + LinesOf(stmts[i]), c, s1))

RECURSIVE RunArms(_, _, _, _, _)
RunArms(stmt, i, line, c, s) ==
  IF i > Len(Arms(stmt)) THEN RunBlock(LastOf(stmt.kids).kids, 1, line + 1, c, s)
  ELSE Then(Value(stmt.kids[i].kids[1], At(c, line), s),
            LAMBDA v, s1 :
              IF is_true(v) THEN RunBlock(stmt.kids[i].kids[2].kids, 1, line + 1, c, s1)
              ELSE RunArms(stmt, i + 1, line + 1 + BodyLines(stmt.kids[i]), c, s1))

\* A body, and what follows it; break and continue without a name or with that of the loop
\* go no further.
Mine(r, stmt) == r.v \in {NONE, stmt.n}
Round(stmt, line, c, s, Next_(_)) ==
  Burn(s, LAMBDA s1 :
    LET r == RunBlock(LastOf(stmt.kids).kids, 1, line + 1, c, s1)
    IN CASE r.k = "break" /\ Mine(r, stmt) -> OK(Zero, r.s)
         [] r.k = "ok" \/ (r.k = "continue" /\ Mine(r, stmt)) -> Next_(r.s)
         [] OTHER -> r)

RECURSIVE ForEach(_, _, _, _, _, _), ForRangeFrom(_, _, _, _, _, _), Loop(_, _, _, _)
ForEach(stmt, list, i, line, c, s) ==
  IF i > Len(list) THEN OK(Zero, s)
  ELSE Round(stmt, line, c, Bind(stmt.n, list[i], s),
             LAMBDA s1 : ForEach(stmt, list, i + 1, line, c, s1))
ForRangeFrom(stmt, from, to, line, c, s) ==
  IF from.n > to.n THEN OK(Zero, s)
  ELSE Round(stmt, line, c, Bind(stmt.n, from, s),
             LAMBDA s1 : ForRangeFrom(stmt, [from EXCEPT !.n = Wrap(@ + 1)], to, line, c, s1))
Loop(stmt, line, c, s) ==
  Then(Value(stmt.kids[1], At(c, line), s),
       LAMBDA v, s1 :
         LET s2 == IF stmt.n = NONE THEN s1 ELSE Bind(stmt.n, v, s1)
         IN IF is_true(v) THEN Round(stmt, line, c, s2, LAMBDA s3 : Loop(stmt, line, c, s3))
            ELSE OK(Zero, s2))

\* The codes of the arms, each at the line of its arm
RECURSIVE ArmCodes(_, _, _, _, _)
ArmCodes(stmt, i, codes, c, s) ==
  IF i > Len(Excepts(stmt)) THEN OK(codes, s)
  ELSE LET line == Top(c).line + 1 + LinesIn(stmt.kids[1].kids) + PartLines(Excepts(stmt), i - 1)
       IN Then(CodesValue(Excepts(stmt)[i].kids[1], At(c, line), s),
               LAMBDA v, s1 : ArmCodes(stmt, i + 1, Append(codes, v), c, s1))

RunTryExcept(stmt, line, c, s) ==
  Then(ArmCodes(stmt, 1, <<>>, c, s),
       LAMBDA codes, s1 :
         LET guarded == [c EXCEPT !.handlers =
                           @ \o [i \in DOMAIN codes |-> [depth |-> Len(c.frames), codes |-> codes[i]]]]
             r == RunBlock(stmt.kids[1].kids, 1, line + 1, guarded, s1)
             able == {i \in DOMAIN codes : r.k = "raise" /\ Handles(codes[i], r.v.l[1])}
             i == CHOOSE j \in able : \A k \in able : j <= k
             arm == Excepts(stmt)[i]
         IN IF able = {} THEN r
            ELSE RunBlock(arm.kids[2].kids, 1,
                          line + 2 + LinesIn(stmt.kids[1].kids) + PartLines(Excepts(stmt), i - 1), c,
                          IF arm.n = NONE THEN r.s ELSE Bind(arm.n, r.v, r.s)))

\* What the handler does not end in another way ends as the body did.
RunTryFinally(stmt, line, c, s) ==
  LET r == RunBlock(stmt.kids[1].kids, 1, line + 1, c, s)
  IN IF r.k \in {"kill", "stop"} THEN r
     ELSE Then(RunBlock(stmt.kids[2].kids, 1, line + 2 + LinesIn(stmt.kids[1].kids), c, r.s),
               LAMBDA v, s1 : [r EXCEPT !.s = s1, !.k = IF @ = "return" THEN "passed" ELSE @])

RunFork(stmt, time, line, c, s) ==
  LET skip == OK(Zero, s)
      orError(e) == IF Top(c).debug THEN Err(c, e, s) ELSE skip
      start(s1) ==
        LET s2 == IF stmt.n = NONE THEN s1 ELSE Bind(stmt.n, IntV(1), s1)
            seen == SeenBy(s2, "fork", time, <<>>)
        IN OK(Zero, [seen EXCEPT !.forks =
                       Append(@, [stmts |-> stmt.kids[2].kids, env |-> s2.env, line |-> line + 1,
                                  frame |-> Top(c)])])
  IN CASE time.t # "int" -> orError(E_TYPE)
       [] time.t = "int" /\ time.n < 0 -> orError(E_INVARG)
       [] OTHER -> Ask(c, s, LAMBDA r, s1 :
                     IF r.err = E_NONE THEN start(s1)
                     ELSE IF Top(c).debug THEN Err(c, E_QUOTA, s1) ELSE OK(Zero, s1))

\* c is at the line of the statement.
RunStmt(stmt, line, c, s) ==
  CASE stmt.op = "IF" -> RunArms(stmt, 1, line, c, s)
    [] stmt.op = "FORLIST" ->
         Then(Value(stmt.kids[1], c, s),
              LAMBDA v, s1 : CASE v.t = "list" -> ForEach(stmt, v.l, 1, line, c, s1)
                               [] OTHER -> IF Top(c).debug THEN Err(c, E_TYPE, s1) ELSE OK(Zero, s1))
    [] stmt.op = "FORRANGE" ->
         Both(stmt.kids[1], stmt.kids[2], c, c, s,
              LAMBDA from, to, s1 :
                IF from.t \in {"int", "obj"} /\ from.t = to.t
                THEN ForRangeFrom(stmt, from, to, line, c, s1)
                ELSE IF Top(c).debug THEN Err(c, E_TYPE, s1) ELSE OK(Zero, s1))
    [] stmt.op = "WHILE" -> Loop(stmt, line, c, s)
    [] stmt.op = "FORK" -> Then(Value(stmt.kids[1], c, s), LAMBDA v, s1 : RunFork(stmt, v, line, c, s1))
    [] stmt.op = "EXPR" -> Value(stmt.kids[1], c, s)
    [] stmt.op = "RETURN" ->
         IF stmt.kids = <<>> THEN End("return", Zero, s)
         ELSE Then(Value(stmt.kids[1], c, s), LAMBDA v, s1 : End("return", v, s1))
    [] stmt.op = "TRYEXCEPT" -> RunTryExcept(stmt, line, c, s)
    [] stmt.op = "TRYFINALLY" -> RunTryFinally(stmt, line, c, s)
    [] stmt.op = "BREAK" -> End("break", stmt.n, s)
    [] stmt.op = "CONTINUE" -> End("continue", stmt.n, s)

-----------------------------------------------------------------------------
(* Tasks *)

\* A task that was answered k times had its ticks at most k + 1 times, and every call and
\* every round of a loop takes one.
StateOf(env, k) == [env |-> env, seen |-> <<>>, pos |-> 1, fuel |-> TICKS * (k + 1), forks |-> <<>>]
ContextOf(frame, answers) ==
  [frames |-> <<frame>>, handlers |-> <<>>, dollar |-> NoneV, answers |-> answers]

RunTask(stmts, line, frame, env, answers) ==
  RunBlock(stmts, 1, line, ContextOf(frame, answers), StateOf(env, Len(answers)))
MainTask(answers) ==
  RunTask(world[1].stmts, 1, Frame(1, world[1].debug, 0, 0), NewEnv(ListV(<<>>)), answers)
ForkedTask(f) == RunTask(f.stmts, f.line, [f.frame EXCEPT !.f = 0, !.pc = 0], f.env, oracle)
MeantIn(main) == IF task = 0 THEN main ELSE ForkedTask(main.s.forks[task])
Meant == MeantIn(MainTask(IF task = 0 THEN oracle ELSE main_oracle))

\* A task that was killed for its ticks or seconds did the beginning of it; functions it was
\* in were told that their calls are over.
Limited == vm.seen # <<>> /\ LastOf(vm.seen).what \in {"ticks", "seconds"}
RECURSIVE DropBacks(_)
DropBacks(seen) == IF seen # <<>> /\ LastOf(seen).what = "back" THEN DropBacks(Front(seen)) ELSE seen
Begins(s, t) == Len(s) <= Len(t) /\ s = SubSeq(t, 1, Len(s))

RECURSIVE WithLines(_)
WithLines(v) ==
  CASE v.t = "line" -> LineOf(v)
    [] v.t = "list" -> ListV([i \in DOMAIN v.l |-> WithLines(v.l[i])])
    [] OTHER -> v
Log(seen) ==
  [i \in DOMAIN seen |-> [seen[i] EXCEPT !.v = WithLines(@), !.stack = WithLines(ListV(@)).l]]

\* seen is all a task did, if it was not limited.
AgreesWith(seen, r) ==
  CASE Limited -> Begins(DropBacks(Front(seen)), r.s.seen)
    [] ~Limited /\ r.k = "uncaught" -> vm.outcome = "aborted" /\ seen = Append(r.s.seen, r.v)
    [] ~Limited /\ r.k = "kill" -> vm.outcome = "aborted" /\ seen = r.s.seen
    [] ~Limited /\ r.k \in {"ok", "return"} ->
         vm.outcome = "done" /\ seen = r.s.seen /\ WithLines(vm.result) = r.v
    [] ~Limited /\ r.k = "passed" ->
         vm.outcome = "done" /\ seen = r.s.seen /\ vm.result = NoneV
    [] OTHER -> FALSE

\* The parts of a program
RECURSIVE Nodes(_)
Nodes(node) == {node} \cup UNION {Nodes(node.kids[i]) : i \in DOMAIN node.kids}
TreeOf(i) == Block(world[i].stmts)

\* A program, or a forked part of one, has a `while' as its first statement: its label is 0,
\* and no jump is made there.
FirstIsWhile ==
  \E i \in DOMAIN world : \E n \in Nodes(TreeOf(i)) :
    /\ n = TreeOf(i) \/ n.op = "FORK"
    /\ LET body == IF n.op = "FORK" THEN LastOf(n.kids).kids ELSE n.kids
       IN body # <<>> /\ Head(body).op = "WHILE"

\* A verb with the d bit assigns to an element of a property; decompile.c may take another
\* line for the one where that fails.
RECURSIVE BaseOf(_)
BaseOf(l) == IF l.op \in {"INDEX", "RANGE"} THEN BaseOf(l.kids[1]) ELSE l
AssignsInProperty ==
  \E i \in DOMAIN world : world[i].debug /\ \E n \in Nodes(TreeOf(i)) :
    n.op = "ASGN" /\ n.kids[1].op \in {"INDEX", "RANGE"} /\ BaseOf(n.kids[1]).op = "PROP"

(* A task does what its program says: every call, every property, every fork is asked for in *)
(* order, from a call stack with the lines of the listing; exceptions are caught by the       *)
(* handler in charge, with the traceback up to it; the result is the one returned.  However   *)
(* often it was suspended, and whether the server was restarted meanwhile.  Three things the  *)
(* code does not do as written: a value returned out of the body of a `try ... finally' is    *)
(* lost for who started the task (EOP_CONTINUE, execute.c, sets no *result), and of programs  *)
(* that begin with a `while', or whose tracebacks may come from an assignment to an element   *)
(* of a property, nothing is said here.                                                       *)
RunsAsWritten ==
  Stopped /\ ~FirstIsWhile /\ ~AssignsInProperty => AgreesWith(Log(vm.seen), Meant)

(* PUSH does not look whether there is room: an activation has as much as code_gen.c found its *)
(* program to need, which stmt_to_code() asserts to be nothing in the end.                    *)
StackFits ==
  \A i \in DOMAIN vm.activ_stack :
    LET a == vm.activ_stack[i]
        bc == BytecodesOf(code[a.prog].bytes, VectorOf(vm, i))
    IN Len(a.rt_stack) <= bc.max_stack /\ bc.rest = 0

(* No program brings the server down, by a panic of run() or unwind_stack() or by a value that *)
(* is taken for what it is not, and none is lost when the server is restarted.  But one that  *)
(* assigns to a range of what is neither string nor list does: EOP_RANGESET takes its         *)
(* strlen() before it looks.                                                                   *)
TaskSurvives ==
  /\ vm.outcome \notin {"panic", "lost"}
  /\ vm.outcome = "crashed" =>
       InstrAt(Bc(vm), RunActiv(vm).error_pc) = "RANGESET" /\ ~Composite(Nth(vm, 4))

(* What a restart reads is what was compiled before: decompile.c and the parser undo each     *)
(* other, so that the program counters of suspended tasks still mean the same.                *)
DecompileIsInverse == [][\A i \in DOMAIN code : code'[i].bytes = code[i].bytes]_code

\* Parts that no opcode that looks at the ticks comes from
Unchecked == {"BLOCK", "EXPR", "VAR", "ID", "EXP", "CONTINUE", "TRYFINALLY"}
\* A named `while' has such a part for its test, and a way round through such parts: up to
\* the end of its body, or a continue in it.  WHILE_ID itself is an extended opcode.
SpinsUnchecked ==
  \E i \in DOMAIN world : \E n \in Nodes(TreeOf(i)) :
    /\ n.op = "WHILE" /\ n.n # NONE
    /\ LET body == LastOf(n.kids).kids
           ops(e) == {m.op : m \in Nodes(e)}
       IN /\ ops(n.kids[1]) \subseteq Unchecked
          /\ \E k \in 0..Len(body) :
               /\ k = Len(body) \/ (k > 0 /\ "CONTINUE" \in ops(body[k]))
               /\ \A j \in 1..k : ops(body[j]) \subseteq Unchecked

(* A task does not hold the server for ever: it ends, waits, or is killed for its ticks.  (The *)
(* model has no answers for it beyond MAX_ANSWERS.)  But a program can with a named `while'    *)
(* whose rounds have no opcode that looks at the ticks, such as one without a body.            *)
EveryTaskStops ==
  vm.outcome = "running" ~>
    (vm.outcome # "running" \/ Len(oracle) = MAX_ANSWERS \/ SpinsUnchecked)
=============================================================================
