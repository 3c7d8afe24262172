-------------------------------- MODULE Syntax --------------------------------
(***************************************************************************)
(* Parse trees of MOO programs, as src/src/ast.c builds them.  A node has  *)
(* an operator, a number (a slot, a function, a literal; NONE where the C  *)
(* has -1), the type of a literal, and its children.                       *)
(*                                                                         *)
(*   statements   IF <<arm.., BLOCK>>   FORLIST <<e, BLOCK>>               *)
(*                FORRANGE <<e, e, BLOCK>>   WHILE <<e, BLOCK>>            *)
(*                FORK <<e, BLOCK>>   EXPR <<e>>   RETURN <<>> or <<e>>    *)
(*                TRYEXCEPT <<BLOCK, except..>>  TRYFINALLY <<BLOCK, BLOCK>> *)
(*                BREAK, CONTINUE                                          *)
(*   arms         ARM <<e, BLOCK>>, EXCEPT <<codes, BLOCK>>; the last child *)
(*                of an IF is its else part, empty if there is none        *)
(*   codes        ANY, or CODES with the arguments                         *)
(*   arguments    NORMAL <<e>>, SPLICE <<e>>                               *)
(*   targets      REQUIRED, REST, OPTIONAL <<>> or <<e>>                   *)
(*                                                                         *)
(* "hot" is not part of a program: decompile.c marks there what a program  *)
(* counter belongs to.                                                     *)
(***************************************************************************)
EXTENDS Integers, Sequences

NONE == -1

Node(op, n, kids) == [op |-> op, t |-> "", n |-> n, kids |-> kids, hot |-> "no"]

\* Expressions
Literal(t, n) == [Node("VAR", n, <<>>) EXCEPT !.t = t]
NumLit(n) == Literal("int", n)
Id(slot) == Node("ID", slot, <<>>)
Binary(op, l, r) == Node(op, NONE, <<l, r>>)
Unary(op, e) == Node(op, NONE, <<e>>)
Length == Node("LENGTH", NONE, <<>>)
Arg(e) == Node("NORMAL", NONE, <<e>>)
Splice(e) == Node("SPLICE", NONE, <<e>>)
List(args) == Node("LIST", NONE, args)
Call(func, args) == Node("CALL", func, args)
Verb(obj, verb, args) == Node("VERB", NONE, <<obj, verb>> \o args)
Cond(c, a, b) == Node("COND", NONE, <<c, a, b>>)
RangeOf(base, from, to) == Node("RANGE", NONE, <<base, from, to>>)
Assign(l, r) == Node("ASGN", NONE, <<l, r>>)
Scatter(targets) == Node("SCATTER", NONE, targets)
Target(kind, slot, default) == Node(kind, slot, default)
ANY == Node("ANY", NONE, <<>>)
Codes(args) == Node("CODES", NONE, args)
Catch(try, codes, default) == Node("CATCH", NONE, <<try, codes>> \o default)

\* Statements
Block(stmts) == Node("BLOCK", NONE, stmts)
Arm(c, body) == Node("ARM", NONE, <<c, Block(body)>>)
If(arms, otherwise) == Node("IF", NONE, Append(arms, Block(otherwise)))
ForList(id, e, body) == Node("FORLIST", id, <<e, Block(body)>>)
ForRange(id, from, to, body) == Node("FORRANGE", id, <<from, to, Block(body)>>)
While(id, c, body) == Node("WHILE", id, <<c, Block(body)>>)
Fork(id, time, body) == Node("FORK", id, <<time, Block(body)>>)
Expr(e) == Node("EXPR", NONE, <<e>>)
Return(e) == Node("RETURN", NONE, e)
Except(id, codes, body) == Node("EXCEPT", id, <<codes, Block(body)>>)
TryExcept(body, arms) == Node("TRYEXCEPT", NONE, <<Block(body)>> \o arms)
TryFinally(body, handler) == Node("TRYFINALLY", NONE, <<Block(body), Block(handler)>>)
Exit(kind, id) == Node(kind, id, <<>>)

BinaryOps == {"EQ", "NE", "GE", "GT", "LE", "LT", "IN", "PLUS", "MINUS", "TIMES",
              "DIVIDE", "MOD", "PROP"}

LastOf(kids) == kids[Len(kids)]
Arms(stmt) == SubSeq(stmt.kids, 1, Len(stmt.kids) - 1)      \* of an IF
Excepts(stmt) == Tail(stmt.kids)                           \* of a TRYEXCEPT

-----------------------------------------------------------------------------
(* What the actions of parser.y refuse.  "loops" are the names of the loops *)
(* around, up to the next fork; "dollar" says whether `$' has a meaning.   *)

RECURSIVE LegalExpr(_, _), LegalStmt(_, _)
LegalTargets(ts) ==
  /\ ts # <<>>
  /\ Len(ts) <= 255
  /\ \A i, j \in DOMAIN ts : ts[i].op = "REST" /\ ts[j].op = "REST" => i = j

\* A variable or a property, indexed any number of times and then cut at most once
RECURSIVE Indexed(_)
Indexed(l) == l.op \in {"ID", "PROP"} \/ (l.op = "INDEX" /\ Indexed(l.kids[1]))
LegalLeft(l) ==
  \/ Indexed(l)
  \/ l.op = "RANGE" /\ Indexed(l.kids[1])
  \/ l.op = "SCATTER" /\ LegalTargets(l.kids)

LegalExpr(e, dollar) ==
  /\ e.op = "LENGTH" => dollar
  /\ e.op = "ASGN" => LegalLeft(e.kids[1])
  /\ \A i \in DOMAIN e.kids :
        LegalExpr(e.kids[i], dollar \/ (e.op \in {"INDEX", "RANGE"} /\ i > 1))

LegalBlock(b, loops) == \A i \in DOMAIN b.kids : LegalStmt(b.kids[i], loops)
\* A clause is counted when the next one is seen.
LegalExcepts(arms) ==
  /\ arms # <<>>
  /\ Len(arms) <= 256
  /\ \A i \in DOMAIN arms : arms[i].kids[1].op = "ANY" => i = Len(arms)

LegalStmt(s, loops) ==
  /\ s.op \in {"BREAK", "CONTINUE"} =>
       /\ loops # <<>>
       /\ s.n = NONE \/ \E i \in DOMAIN loops : loops[i] = s.n
  /\ s.op = "TRYEXCEPT" => LegalExcepts(Excepts(s))
  /\ \A i \in DOMAIN s.kids :
       LET kid == s.kids[i]
       IN CASE kid.op = "BLOCK" ->
                 LegalBlock(kid, CASE s.op \in {"FORLIST", "FORRANGE", "WHILE"} -> Append(loops, s.n)
                                   [] s.op = "FORK" -> <<>>
                                   [] OTHER -> loops)
            [] kid.op \in {"ARM", "EXCEPT"} ->
                 LegalExpr(kid.kids[1], FALSE) /\ LegalBlock(kid.kids[2], loops)
            [] OTHER -> LegalExpr(kid, FALSE)

Legal(stmts) == LegalBlock(Block(stmts), <<>>)
=============================================================================
