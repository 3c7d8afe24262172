-------------------------------- MODULE CodeGen --------------------------------
(***************************************************************************)
(* src/src/code_gen.c: from a parse tree to a vector of bytes.  The code   *)
(* first writes one byte for every operand and a fixup that says what the  *)
(* operand is; stmt_to_code() then makes room for operands of the size     *)
(* they turned out to need.  A label is the byte it was defined at; as a   *)
(* fixup comes before what it counts, counting the fixups before a label   *)
(* again gives the prev_... fields of the C.  BYTECODE_REDUCE_REF is not   *)
(* defined in options.h.                                                   *)
(***************************************************************************)
EXTENDS Opcodes, Syntax, FiniteSets

UINT_MAX == -1

\* A GState, and a State over it
InitGState == [total_var_refs |-> 0, literals |-> <<>>, fork_vectors |-> <<>>]
InitState(g) == [bytes |-> <<>>, fixups |-> <<>>, cur_stack |-> 0, max_stack |-> 0,
                 saved_stack |-> UINT_MAX, loops |-> <<>>, g |-> g]

-----------------------------------------------------------------------------
(* Emitting *)

\* An operand of one byte is cut to it.
Emit(b, s) == [s EXCEPT !.bytes = Append(@, b % 256)]
EmitOp(name, s) == Emit(Op(name), s)
EmitEop(name, s) == Emit(Eop(name), EmitOp("EXTENDED", s))

Fixup(kind, value, s) ==
  Emit(0, [s EXCEPT !.fixups = Append(@, [kind |-> kind, pc |-> Len(s.bytes),
                                          value |-> value])])

\* The last fixup, and the byte to come
LastFixup(s) == {Len(s.fixups)}
Here(s) == Len(s.bytes)

Label(s) == Fixup("label", 0, s)
KnownLabel(value, s) == Fixup("label", value, s)
VarRef(slot, s) ==
  [Fixup("var", slot, s) EXCEPT !.g.total_var_refs = @ + 1]
StackRef(index, s) == Fixup("stack", index, s)

\* The labels of a chain all get the place of the byte to come.
DefineLabel(chain, s) ==
  [s EXCEPT !.fixups = [i \in DOMAIN @ |-> IF i \in chain
                                           THEN [@[i] EXCEPT !.value = Here(s)] ELSE @[i]]]

\* A literal is kept once.
AddLiteral(v, s) ==
  LET lits == s.g.literals
      known == {i \in DOMAIN lits : lits[i] = v}
  IN IF known # {}
     THEN Fixup("literal", (CHOOSE i \in known : TRUE) - 1, s)
     ELSE [Fixup("literal", Len(lits), s) EXCEPT !.g.literals = Append(@, v)]

AddFork(bc, s) ==
  [Fixup("fork", Len(s.g.fork_vectors), s) EXCEPT !.g.fork_vectors = Append(@, bc)]

PushStack(n, s) ==
  LET cur == s.cur_stack + n
  IN [s EXCEPT !.cur_stack = cur, !.max_stack = IF cur > @ THEN cur ELSE @]
PopStack(n, s) == [s EXCEPT !.cur_stack = @ - n]

SaveStackTop(s) == [s EXCEPT !.saved_stack = s.cur_stack - 1]
RestoreStackTop(before, s) == [s EXCEPT !.saved_stack = before.saved_stack]

EnterLoop(id, top, top_stack, bottom_stack, s) ==
  [s EXCEPT !.loops = Append(@, [id |-> id, top |-> top, top_stack |-> top_stack,
                                 bottom |-> LastFixup(s), bottom_stack |-> bottom_stack])]
Bottom(s) == LastOf(s.loops).bottom
ExitLoop(s) == [s EXCEPT !.loops = SubSeq(@, 1, Len(@) - 1)]

EmitVarOp(name, slot, s) ==
  LET op == IF name = "PUT" THEN OP_PUT ELSE OP_PUSH
  IN IF slot >= NUM_READY_VARS
     THEN VarRef(slot, Emit(op + NUM_READY_VARS, s))
     ELSE Emit(op + slot, s)

-----------------------------------------------------------------------------
(* Expressions *)

RECURSIVE GenExpr(_, _), GenArgs(_, _, _), GenTargets(_, _, _), GenDefaults(_, _, _, _)
RECURSIVE PushLvalue(_, _, _), StoreInto(_, _, _)

\* The first argument makes the list, the others are added to it.
GenArgs(args, i, s) ==
  IF args = <<>> THEN PushStack(1, EmitOp("MAKE_EMPTY_LIST", s))
  ELSE IF i > Len(args) THEN s
  ELSE LET arg == args[i]
           op == IF arg.op = "NORMAL"
                 THEN IF i = 1 THEN "MAKE_SINGLETON_LIST" ELSE "LIST_ADD_TAIL"
                 ELSE IF i = 1 THEN "CHECK_LIST_FOR_SPLICE" ELSE "LIST_APPEND"
       IN GenArgs(args, i + 1, PopStack(IF i = 1 THEN 0 ELSE 1,
                                        EmitOp(op, GenExpr(arg.kids[1], s))))

GenCodes(codes, s) ==
  IF codes.op = "ANY" THEN PushStack(1, Emit(OPTIM_NUM_TO_OPCODE(0), s))
                      ELSE GenArgs(codes.kids, 1, s)

\* What stands between the brackets sees the value it indexes on top of the stack.
InBrackets(e, s) == RestoreStackTop(s, GenExpr(e, SaveStackTop(s)))
InBrackets2(from, to, s) == RestoreStackTop(s, GenExpr(to, GenExpr(from, SaveStackTop(s))))

PushLvalue(e, above, s) ==
  CASE e.op = "RANGE" ->
         InBrackets2(e.kids[2], e.kids[3], PushLvalue(e.kids[1], TRUE, s))
    [] e.op = "INDEX" ->
         LET s1 == InBrackets(e.kids[2], PushLvalue(e.kids[1], TRUE, s))
         IN IF above THEN PushStack(1, EmitOp("PUSH_REF", s1)) ELSE s1
    [] e.op = "ID" -> IF above THEN PushStack(1, EmitVarOp("PUSH", e.n, s)) ELSE s
    [] e.op = "PROP" ->
         LET s1 == GenExpr(e.kids[2], GenExpr(e.kids[1], s))
         IN IF above THEN PushStack(1, EmitOp("PUSH_GET_PROP", s1)) ELSE s1

\* From the innermost bracket out, the changed value is put into the one around it.
StoreInto(e, indexed, s) ==
  LET end(s1) == IF indexed THEN EmitOp("PUSH_TEMP", EmitOp("POP", s1)) ELSE s1
  IN CASE e.op = "RANGE" -> StoreInto(e.kids[1], TRUE, PopStack(3, EmitEop("RANGESET", s)))
       [] e.op = "INDEX" -> StoreInto(e.kids[1], TRUE, PopStack(2, EmitOp("INDEXSET", s)))
       [] e.op = "ID" -> end(EmitVarOp("PUT", e.n, s))
       [] e.op = "PROP" -> end(PopStack(2, EmitOp("PUT_PROP", s)))

GenTargets(ts, i, s) ==
  IF i > Len(ts) THEN s
  ELSE LET s1 == VarRef(ts[i].n, s)
       IN GenTargets(ts, i + 1,
            CASE ts[i].op # "OPTIONAL" -> KnownLabel(0, s1)
              [] ts[i].kids = <<>> -> KnownLabel(1, s1)
              [] OTHER -> Label(s1))

\* first is the number of the fixup of the first target's slot.
GenDefaults(ts, i, first, s) ==
  IF i > Len(ts) THEN s
  ELSE IF ts[i].op = "OPTIONAL" /\ ts[i].kids # <<>>
  THEN LET s1 == GenExpr(ts[i].kids[1], DefineLabel({first + 2 * i - 1}, s))
       IN GenDefaults(ts, i + 1, first,
                      PopStack(1, EmitOp("POP", EmitVarOp("PUT", ts[i].n, s1))))
  ELSE GenDefaults(ts, i + 1, first, s)

GenScatter(ts, s) ==
  LET nreq == Cardinality({i \in DOMAIN ts : ts[i].op = "REQUIRED"})
      rest == IF \E i \in DOMAIN ts : ts[i].op = "REST"
              THEN CHOOSE i \in DOMAIN ts : ts[i].op = "REST" ELSE Len(ts) + 1
      s1 == Emit(rest, Emit(nreq, Emit(Len(ts), EmitEop("SCATTER", s))))
      s2 == Label(GenTargets(ts, 1, s1))
  IN DefineLabel(LastFixup(s2), GenDefaults(ts, 1, Len(s1.fixups) + 1, s2))

\* The other binary operators have the name of their opcode.
BinaryOpcode(op) ==
  CASE op = "PLUS" -> "ADD" [] op = "TIMES" -> "MULT" [] op = "DIVIDE" -> "DIV"
    [] op = "PROP" -> "GET_PROP" [] OTHER -> op

GenCond(e, s) ==
  LET s1 == Label(EmitOp("IF_QUES", GenExpr(e.kids[1], s)))
      s2 == Label(EmitOp("JUMP", GenExpr(e.kids[2], PopStack(1, s1))))
      s3 == GenExpr(e.kids[3], DefineLabel(LastFixup(s1), PopStack(1, s2)))
  IN DefineLabel(LastFixup(s2), s3)

\* Mutant: the marker takes no room.
GenCatchUnmarked(e, s) ==
  LET s1 == Label(EmitEop("PUSH_LABEL", GenCodes(e.kids[2], s)))
      s2 == EmitEop("CATCH", PushStack(1, s1))
      s3 == Label(EmitEop("END_CATCH", GenExpr(e.kids[1], s2)))
      s4 == DefineLabel(LastFixup(s1), PopStack(2, s3))
      s5 == IF Len(e.kids) = 3
            THEN GenExpr(e.kids[3], PopStack(1, EmitOp("POP", s4)))
            ELSE EmitOp("REF", Emit(OPTIM_NUM_TO_OPCODE(1), s4))
  IN DefineLabel(LastFixup(s3), s5)

\* Both ways to the end label leave one value: that of the expression, or that of
\* the default or the code, made from the exception that is on the stack.
GenCatch(e, s) ==
  LET s1 == Label(EmitEop("PUSH_LABEL", GenCodes(e.kids[2], s)))
      s2 == PushStack(1, EmitEop("CATCH", PushStack(1, s1)))
      s3 == Label(EmitEop("END_CATCH", GenExpr(e.kids[1], s2)))
      s4 == DefineLabel(LastFixup(s1), PopStack(3, s3))
      s5 == IF Len(e.kids) = 3
            THEN GenExpr(e.kids[3], PopStack(1, EmitOp("POP", s4)))
            ELSE EmitOp("REF", Emit(OPTIM_NUM_TO_OPCODE(1), s4))
  IN DefineLabel(LastFixup(s3), s5)

GenAssign(e, s) ==
  LET l == e.kids[1]
      s1 == GenExpr(e.kids[2], PushLvalue(l, FALSE, s))
  IN IF l.op = "SCATTER" THEN GenScatter(l.kids, GenExpr(e.kids[2], s))
     ELSE StoreInto(l, FALSE, IF l.op \in {"RANGE", "INDEX"} THEN EmitOp("PUT_TEMP", s1)
                              ELSE s1)

GenExpr(e, s) ==
  CASE e.op = "VAR" ->
         PushStack(1, IF e.t = "int" /\ IN_OPTIM_NUM_RANGE(e.n)
                      THEN Emit(OPTIM_NUM_TO_OPCODE(e.n), s)
                      ELSE AddLiteral(e, EmitOp("IMM", s)))
    [] e.op = "ID" -> PushStack(1, EmitVarOp("PUSH", e.n, s))
    [] e.op \in {"AND", "OR"} ->
         LET s1 == Label(EmitOp(e.op, GenExpr(e.kids[1], s)))
         IN DefineLabel(LastFixup(s1), GenExpr(e.kids[2], PopStack(1, s1)))
    [] e.op = "NEGATE" -> EmitOp("UNARY_MINUS", GenExpr(e.kids[1], s))
    [] e.op = "NOT" -> EmitOp("NOT", GenExpr(e.kids[1], s))
    [] e.op \in BinaryOps ->
         PopStack(1, EmitOp(BinaryOpcode(e.op), GenExpr(e.kids[2], GenExpr(e.kids[1], s))))
    [] e.op = "EXP" -> PopStack(1, EmitEop("EXP", GenExpr(e.kids[2], GenExpr(e.kids[1], s))))
    [] e.op = "INDEX" ->
         PopStack(1, EmitOp("REF", InBrackets(e.kids[2], GenExpr(e.kids[1], s))))
    [] e.op = "RANGE" ->
         PopStack(2, EmitOp("RANGE_REF",
                            InBrackets2(e.kids[2], e.kids[3], GenExpr(e.kids[1], s))))
    [] e.op = "LENGTH" -> PushStack(1, StackRef(s.saved_stack, EmitEop("LENGTH", s)))
    [] e.op = "LIST" -> GenArgs(e.kids, 1, s)
    [] e.op = "CALL" -> Emit(e.n, EmitOp("BI_FUNC_CALL", GenArgs(e.kids, 1, s)))
    [] e.op = "VERB" ->
         LET s1 == GenExpr(e.kids[2], GenExpr(e.kids[1], s))
         IN PopStack(2, EmitOp("CALL_VERB", GenArgs(Tail(Tail(e.kids)), 1, s1)))
    [] e.op = "COND" -> GenCond(e, s)
    [] e.op = "ASGN" -> GenAssign(e, s)
    [] e.op = "CATCH" -> GenCatch(e, s)

-----------------------------------------------------------------------------
(* Statements *)

RECURSIVE StmtToCode(_, _), GenStmt(_, _), GenStmts(_, _), GenArms(_, _, _, _), GenArm(_, _, _, _)
RECURSIVE GenCodeLabels(_, _, _, _), GenCodeLabel(_, _, _, _), GenHandlers(_, _, _, _, _)

\* op: IF for the first arm, EIF for the others; chain: the jumps to the end so far
GenArms(arms, i, chain, s) ==
  IF i >= Len(arms)
  THEN DefineLabel(chain, GenStmts(arms[i].kids, s))
  ELSE GenArm(arms, i, chain, Label(EmitOp(IF i = 1 THEN "IF" ELSE "EIF", GenExpr(arms[i].kids[1], s))))
GenArm(arms, i, chain, s) ==            \* s: the condition is tested
  LET s1 == Label(EmitOp("JUMP", GenStmts(arms[i].kids[2].kids, PopStack(1, s))))
  IN GenArms(arms, i + 1, chain \cup LastFixup(s1), DefineLabel(LastFixup(s), s1))

\* The end of a loop: the way back and, behind it, the way out.
CloseLoop(top, pop, s) ==
  PopStack(pop, DefineLabel(Bottom(s), KnownLabel(top, EmitOp("JUMP", ExitLoop(s)))))

GenFor(stmt, op, s) ==                  \* s: two values pushed
  LET s1 == Label(VarRef(stmt.n, EmitOp(op, s)))
      s2 == EnterLoop(stmt.n, Here(s), s.cur_stack, s.cur_stack - 2, s1)
  IN CloseLoop(Here(s), 2, GenStmts(LastOf(stmt.kids).kids, s2))

GenWhileBody(stmt, top, s) ==           \* s: the condition computed
  LET s1 == PopStack(1, Label(IF stmt.n = NONE THEN EmitOp("WHILE", s)
                              ELSE VarRef(stmt.n, EmitEop("WHILE_ID", s))))
      s2 == EnterLoop(stmt.n, top, s1.cur_stack, s1.cur_stack, s1)
  IN CloseLoop(top, 0, GenStmts(stmt.kids[2].kids, s2))
GenWhile(stmt, s) == GenWhileBody(stmt, Here(s), GenExpr(stmt.kids[1], s))

GenCodeLabels(arms, i, labels, s) ==
  IF i > Len(arms) THEN [s |-> s, labels |-> labels]
  ELSE GenCodeLabel(arms, i, labels, Label(EmitEop("PUSH_LABEL", GenCodes(arms[i].kids[1], s))))
GenCodeLabel(arms, i, labels, s) ==
  GenCodeLabels(arms, i + 1, Append(labels, Len(s.fixups)), PushStack(1, s))

\* labels[i]: the fixup of the i-th handler's label
GenHandlers(arms, i, labels, chain, s) ==
  LET s1 == PushStack(1, DefineLabel({labels[i]}, s))
      s2 == IF arms[i].n = NONE THEN s1 ELSE EmitVarOp("PUT", arms[i].n, s1)
      s3 == GenStmts(arms[i].kids[2].kids, PopStack(1, EmitOp("POP", s2)))
      s4 == Label(EmitOp("JUMP", s3))
  IN IF i = Len(arms) THEN DefineLabel(chain, s3)
     ELSE GenHandlers(arms, i + 1, labels, chain \cup LastFixup(s4), s4)

GenExcepts(stmt, r) ==                  \* r: what GenCodeLabels() gave
  LET arms == Excepts(stmt)
      s1 == PushStack(1, Emit(Len(arms), EmitEop("TRY_EXCEPT", r.s)))
      s2 == Label(EmitEop("END_EXCEPT", GenStmts(stmt.kids[1].kids, s1)))
  IN GenHandlers(arms, 1, r.labels, LastFixup(s2), PopStack(2 * Len(arms) + 1, s2))
GenTryExcept(stmt, s) == GenExcepts(stmt, GenCodeLabels(Excepts(stmt), 1, <<>>, s))

GenTryFinally(stmt, s) ==
  LET s1 == PushStack(1, Label(EmitEop("TRY_FINALLY", s)))
      s2 == PopStack(1, EmitEop("END_FINALLY", GenStmts(stmt.kids[1].kids, s1)))
      s3 == PushStack(2, DefineLabel(LastFixup(s1), s2))
  IN PopStack(2, EmitEop("CONTINUE", GenStmts(stmt.kids[2].kids, s3)))

\* break and continue, of the innermost loop or of the innermost one of that name
GenExit(stmt, s) ==
  LET s1 == IF stmt.n = NONE THEN EmitEop("EXIT", s)
            ELSE VarRef(stmt.n, EmitEop("EXIT_ID", s))
      named == {i \in DOMAIN s.loops : stmt.n = NONE \/ s.loops[i].id = stmt.n}
      at == CHOOSE i \in named : \A j \in named : j <= i
      loop == s.loops[at]
      s2 == Label(StackRef(loop.bottom_stack, s1))
  IN IF stmt.op = "CONTINUE"
     THEN KnownLabel(loop.top, StackRef(loop.top_stack, s1))
     ELSE [s2 EXCEPT !.loops[at].bottom = @ \cup LastFixup(s2)]

-----------------------------------------------------------------------------
(* stmt_to_code() *)

Greater(a, b) == IF a > b THEN a ELSE b
RefSize(max) == IF max <= 256 THEN 1 ELSE IF max <= 256 * 256 THEN 2 ELSE 4

Kinds == {"literal", "fork", "var", "label", "stack"}
OfKind(s, kind) == {i \in DOMAIN s.fixups : s.fixups[i].kind = kind}
MaxValue(s, kind) ==
  LET values == {0} \cup {s.fixups[i].value : i \in OfKind(s, kind)}
  IN CHOOSE v \in values : \A w \in values : w <= v

\* The global counts are those of the vectors made so far, not of this one.
Sizes(s) ==
  LET lit == RefSize(Greater(MaxValue(s, "literal"), Len(s.g.literals)))
      fork == RefSize(Greater(MaxValue(s, "fork"), Len(s.g.fork_vectors)))
      var == RefSize(Greater(MaxValue(s, "var"), s.g.total_var_refs))
      size == Len(s.bytes) + (lit - 1) * Cardinality(OfKind(s, "literal"))
                + (fork - 1) * Cardinality(OfKind(s, "fork"))
                + (var - 1) * Cardinality(OfKind(s, "var"))
      label == IF size <= 256 THEN 1
               ELSE IF size + Cardinality(OfKind(s, "label")) <= 256 * 256 THEN 2 ELSE 4
  IN [literal |-> lit, fork |-> fork, var |-> var, label |-> label,
      stack |-> RefSize(s.max_stack)]

\* Where an old byte comes to lie.  Operands that name a stack slot are not counted.
Moved(s, size, byte) ==
  LET before(kind) == Cardinality({i \in OfKind(s, kind) : s.fixups[i].pc < byte})
  IN byte + before("literal") * (size["literal"] - 1) + before("fork") * (size["fork"] - 1)
          + before("var") * (size["var"] - 1) + before("label") * (size["label"] - 1)

BigEndian(value, size) == [i \in 1..size |-> (value \div (256 ^ (size - i))) % 256]

\* The operand of fixup f and the bytes behind it
Laid(s, f, size) ==
  LET fixup == s.fixups[f]
      to == IF f < Len(s.fixups) THEN s.fixups[f + 1].pc ELSE Len(s.bytes)
      value == IF fixup.kind = "label" THEN Moved(s, size, fixup.value) ELSE fixup.value
  IN BigEndian(value, size[fixup.kind]) \o SubSeq(s.bytes, fixup.pc + 2, to)

\* Of the fixups from f to g
RECURSIVE Layout(_, _, _, _)
Layout(s, f, g, size) ==
  LET mid == (f + g) \div 2
  IN IF f = g THEN Laid(s, f, size)
     ELSE Layout(s, f, mid, size) \o Layout(s, mid + 1, g, size)

Vector(s, size) ==
  IF s.fixups = <<>> THEN s.bytes
  ELSE SubSeq(s.bytes, 1, s.fixups[1].pc) \o Layout(s, 1, Len(s.fixups), size)

\* The code of a block, and the global state after it.  rest is what is left on the
\* stack: stmt_to_code() panics unless it is nothing.
Assembled(s, size) ==
  [bc |-> [vector |-> Vector(s, size), numbytes |-> size, max_stack |-> s.max_stack,
           size |-> Moved(s, size, Len(s.bytes)), rest |-> s.cur_stack],
   g |-> s.g]
Finished(s) == Assembled(s, Sizes(s))
StmtToCode(block, g) == Finished(EmitOp("DONE", GenStmts(block.kids, InitState(g))))

EmitFork(stmt, body, s) ==
  LET s1 == AddFork(body.bc, [s EXCEPT !.g = body.g])
  IN PopStack(1, IF stmt.n = NONE THEN s1 ELSE VarRef(stmt.n, s1))
ForkBody(stmt, s) == EmitFork(stmt, StmtToCode(stmt.kids[2], s.g), s)
GenFork(stmt, s) ==
  ForkBody(stmt, EmitOp(IF stmt.n = NONE THEN "FORK" ELSE "FORK_WITH_ID", GenExpr(stmt.kids[1], s)))

GenStmt(stmt, s) ==
  CASE stmt.op = "IF" -> GenArms(stmt.kids, 1, {}, s)
    [] stmt.op = "FORLIST" ->
         GenFor(stmt, "FOR_LIST",
                PushStack(1, Emit(OPTIM_NUM_TO_OPCODE(1), GenExpr(stmt.kids[1], s))))
    [] stmt.op = "FORRANGE" ->
         GenFor(stmt, "FOR_RANGE", GenExpr(stmt.kids[2], GenExpr(stmt.kids[1], s)))
    [] stmt.op = "WHILE" -> GenWhile(stmt, s)
    [] stmt.op = "FORK" -> GenFork(stmt, s)
    [] stmt.op = "EXPR" -> PopStack(1, EmitOp("POP", GenExpr(stmt.kids[1], s)))
    [] stmt.op = "RETURN" ->
         IF stmt.kids = <<>> THEN EmitOp("RETURN0", s)
         ELSE PopStack(1, EmitOp("RETURN", GenExpr(stmt.kids[1], s)))
    [] stmt.op = "TRYEXCEPT" -> GenTryExcept(stmt, s)
    [] stmt.op = "TRYFINALLY" -> GenTryFinally(stmt, s)
    [] stmt.op \in {"BREAK", "CONTINUE"} -> GenExit(stmt, s)

\* In halves, and each statement after what precedes it, for TLC's stack
GenStmts(stmts, s) ==
  LET half == Len(stmts) \div 2
  IN CASE Len(stmts) = 0 -> s
       [] Len(stmts) = 1 -> CHOOSE r \in {GenStmt(stmts[1], s1) : s1 \in {s}} : TRUE
       [] OTHER -> GenStmts(SubSeq(stmts, half + 1, Len(stmts)), GenStmts(SubSeq(stmts, 1, half), s))

\* generate_code(): literals are values
Program(r) == [main |-> r.bc, forks |-> r.g.fork_vectors, literals |-> r.g.literals]
GenerateCode(stmts) == Program(StmtToCode(Block(stmts), InitGState))
=============================================================================
