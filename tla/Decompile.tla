------------------------------- MODULE Decompile -------------------------------
(***************************************************************************)
(* src/src/decompile.c: from bytes back to a parse tree, and from a        *)
(* program counter to a line of it.                                        *)
(*                                                                         *)
(* A context c is what the static variables of the C are while one vector  *)
(* is read: the program, the vector, its number, the vector and byte that  *)
(* are hot, and the room on expr_stack.  hot_node is the one node whose    *)
(* "hot" is not "no"; its value is hot_position.  server_panic() sets bad, *)
(* and nothing more is read.  What the C reads beyond a vector is 0 here.  *)
(***************************************************************************)
EXTENDS Opcodes, Syntax, TLC

MAIN_VECTOR == -1
BytecodesOf(prog, vec) == IF vec = MAIN_VECTOR THEN prog.main ELSE prog.forks[vec + 1]

ByteAt(bc, p) == IF p \in 0..(Len(bc.vector) - 1) THEN bc.vector[p + 1] ELSE 0

RECURSIVE ReadBytes(_, _, _)
ReadBytes(bc, p, n) ==
  IF n = 0 THEN 0 ELSE 256 * ReadBytes(bc, p, n - 1) + ByteAt(bc, p + n - 1)
Operand(bc, p, kind) == ReadBytes(bc, p, bc.numbytes[kind])

\* The instruction at p, and where its operands start
InstrAt(bc, p) ==
  IF ByteAt(bc, p) # Op("EXTENDED") THEN Mnemonic(ByteAt(bc, p))
  ELSE IF ByteAt(bc, p + 1) < Len(Extended) THEN Extended[ByteAt(bc, p + 1) + 1] ELSE "UNKNOWN"
OperandsAt(bc, p) == IF ByteAt(bc, p) = Op("EXTENDED") THEN p + 2 ELSE p + 1

-----------------------------------------------------------------------------
(* The expression stack *)

NoExpr == Node("MISSING", NONE, <<>>)
IsHot(n) == n.hot # "no"
Cold(n) == [n EXCEPT !.hot = "no"]

HotByte(c, p) == c.vec = c.hotvec /\ p = c.hotpc

Panic(st) == [st EXCEPT !.bad = TRUE]
PanicUnless(ok, st) == IF ok THEN st ELSE Panic(st)

\* The k topmost expressions, in the order they were pushed
Popped(st, k) ==
  LET n == Len(st.stk)
  IN [i \in 1..k |-> IF n >= k THEN st.stk[n - k + i] ELSE NoExpr]
Pop(st, k) ==
  IF Len(st.stk) >= k THEN [st EXCEPT !.stk = SubSeq(@, 1, Len(@) - k)] ELSE Panic(st)
PushExpr(c, st, e) ==
  PanicUnless(Len(st.stk) < c.room, [st EXCEPT !.stk = Append(@, e)])

\* HOT(): a node is hot when its byte is, or takes over from a part of it.
Heat(is_hot, parts, node) ==
  [node EXCEPT !.hot = IF is_hot \/ \E i \in DOMAIN parts : IsHot(parts[i]) THEN "TOP" ELSE @,
               !.kids = [i \in DOMAIN @ |-> IF \E j \in DOMAIN parts : parts[j] = @[i]
                                            THEN Cold(@[i]) ELSE @[i]]]
HeatAt(is_hot, position, node) == IF is_hot THEN [node EXCEPT !.hot = position] ELSE node

-----------------------------------------------------------------------------
(* Instructions that make one expression of some *)

Arity ==
  [m \in {"PUSH", "NUM", "IMM", "G_PUSH", "MAKE_EMPTY_LIST", "LENGTH", "PUSH_LABEL"} |-> 0]
  @@ [m \in {"PUT", "G_PUT", "UNARY_MINUS", "NOT", "MAKE_SINGLETON_LIST",
             "CHECK_LIST_FOR_SPLICE", "BI_FUNC_CALL"} |-> 1]
  @@ [m \in {"EQ", "NE", "LT", "LE", "GT", "GE", "IN", "ADD", "MINUS", "MULT", "DIV", "MOD",
             "EXP", "GET_PROP", "PUSH_GET_PROP", "REF", "PUSH_REF", "LIST_ADD_TAIL",
             "LIST_APPEND"} |-> 2]
  @@ [m \in {"RANGE_REF", "CALL_VERB", "PUT_PROP", "INDEXSET"} |-> 3]
  @@ [m \in {"RANGESET"} |-> 4]

OperandLen(bc, m) ==
  CASE m \in {"G_PUSH", "G_PUT"} -> bc.numbytes["var"]
    [] m = "IMM" -> bc.numbytes["literal"]
    [] m = "LENGTH" -> bc.numbytes["stack"]
    [] m = "PUSH_LABEL" -> bc.numbytes["label"]
    [] m = "BI_FUNC_CALL" -> 1
    [] OTHER -> 0

BinaryKind(m) ==
  CASE m = "ADD" -> "PLUS" [] m = "MULT" -> "TIMES" [] m = "DIV" -> "DIVIDE"
    [] m \in {"GET_PROP", "PUSH_GET_PROP"} -> "PROP" [] m \in {"REF", "PUSH_REF"} -> "INDEX"
    [] OTHER -> m

\* b: the byte of the opcode; p: its operands; k: the expressions
Build(c, m, b, p, k) ==
  CASE m = "PUSH" -> Id(b - OP_PUSH)
    [] m = "NUM" -> NumLit(OPCODE_TO_OPTIM_NUM(b))
    [] m = "IMM" -> c.prog.literals[Operand(c.bc, p, "literal") + 1]
    [] m = "G_PUSH" -> Id(Operand(c.bc, p, "var"))
    [] m = "MAKE_EMPTY_LIST" -> List(<<>>)
    [] m = "LENGTH" -> Length
    [] m = "PUSH_LABEL" -> NumLit(Operand(c.bc, p, "label"))
    [] m = "PUT" -> Assign(Id(b - OP_PUT), k[1])
    [] m = "G_PUT" -> Assign(Id(Operand(c.bc, p, "var")), k[1])
    [] m = "UNARY_MINUS" -> Unary("NEGATE", k[1])
    [] m = "NOT" -> Unary("NOT", k[1])
    [] m = "MAKE_SINGLETON_LIST" -> List(<<Arg(Cold(k[1]))>>)
    [] m = "CHECK_LIST_FOR_SPLICE" -> List(<<Splice(Cold(k[1]))>>)
    [] m = "LIST_ADD_TAIL" -> List(Append(k[1].kids, Arg(Cold(k[2]))))
    [] m = "LIST_APPEND" -> List(Append(k[1].kids, Splice(Cold(k[2]))))
    [] m = "BI_FUNC_CALL" -> Call(ByteAt(c.bc, p), k[1].kids)
    [] m = "CALL_VERB" -> Verb(k[1], k[2], k[3].kids)
    [] m = "RANGE_REF" -> RangeOf(k[1], k[2], k[3])
    [] m = "PUT_PROP" -> Assign(Binary("PROP", Cold(k[1]), Cold(k[2])), k[3])
    [] m = "INDEXSET" -> Assign(Binary("INDEX", Cold(k[1]), Cold(k[2])), k[3])
    [] m = "RANGESET" -> Assign(RangeOf(Cold(k[1]), Cold(k[2]), Cold(k[3])), k[4])
    [] OTHER -> Binary(BinaryKind(m), k[1], k[2])

Expected(m, k) ==
  CASE m = "BI_FUNC_CALL" -> k[1].op = "LIST"
    [] m = "CALL_VERB" -> k[3].op = "LIST"
    [] m \in {"LIST_ADD_TAIL", "LIST_APPEND"} -> k[1].op = "LIST" /\ k[1].kids # <<>>
    [] OTHER -> TRUE

\* finish_indexed_assignment: everything up to the next byte that looks like PUSH_TEMP is
\* passed over.  If the hot byte is in there, what expr_stack holds one place above its top,
\* the second part of the target, is taken for the assignment.
PushTempFrom(bc, p) ==
  LET at == {q \in p..(Len(bc.vector) - 1) : ByteAt(bc, q) = Op("PUSH_TEMP")}
  IN IF at = {} THEN Len(bc.vector) ELSE CHOOSE q \in at : \A r \in at : q <= r
SkipStores(c, st) ==
  LET q == PushTempFrom(c.bc, st.ptr)
      top == Len(st.stk)
      hot == \E p \in st.ptr..(q - 1) : HotByte(c, p)
  IN [st EXCEPT !.ptr = q + 1, !.asgn = FALSE,
                !.stk[top].kids[1].kids[2].hot = IF hot THEN "TOP" ELSE @]

Reduce(c, st, m) ==
  LET bc == c.bc
      p == OperandsAt(bc, st.ptr)
      k == Popped(st, Arity[m])
      indexed == m \in {"INDEXSET", "RANGESET"}
      s1 == PanicUnless(Expected(m, k), Pop([st EXCEPT !.ptr = p + OperandLen(bc, m)], Arity[m]))
      e == Heat(HotByte(c, st.ptr) \/ (indexed /\ st.asgn), k,
                Build(c, m, ByteAt(bc, st.ptr), p, k))
      s2 == PushExpr(c, s1, e)
  IN IF s1.bad THEN s1 ELSE IF indexed THEN SkipStores(c, s2) ELSE s2

-----------------------------------------------------------------------------
(* decompile(): from st.ptr to end, or to the end marker of a try *)

RECURSIVE Dec(_, _, _), DecDefaults(_, _, _, _, _), DecHandlers(_, _, _, _, _, _)

Sub(st, ptr) ==
  [st EXCEPT !.ptr = ptr, !.stmts = <<>>, !.arms = <<>>, !.start = ptr, !.asgn = FALSE]
After(st, sub, ptr) == [st EXCEPT !.ptr = ptr, !.stk = sub.stk, !.bad = sub.bad]
AddStmt(st, s) == [st EXCEPT !.stmts = Append(@, s), !.start = st.ptr]

\* The JUMP at p
JumpAt(c, p) ==
  [ok |-> ByteAt(c.bc, p) = Op("JUMP"), hot |-> HotByte(c, p),
   to |-> Operand(c.bc, p + 1, "label"), ptr |-> p + 1 + c.bc.numbytes["label"]]
JumpLen(c) == c.bc.numbytes["label"] + 1

\* IF and EIF: the arm, the jump behind it, and the state with the condition popped
ArmOf(c, st, b, j) ==                   \* b: the body, j: its end
  [arm |-> HeatAt(j.hot, "BOTTOM",
                  Heat(HotByte(c, st.ptr), Popped(st, 1), Arm(Popped(st, 1)[1], b.stmts))),
   to |-> j.to, st |-> PanicUnless(j.ok, After(Pop(st, 1), b, j.ptr))]
ArmUpTo(c, st, b) == ArmOf(c, st, b, JumpAt(c, b.ptr))
DecArm(c, st) ==
  ArmUpTo(c, st, Dec(c, Sub(Pop(st, 1), st.ptr + JumpLen(c)),
                     Operand(c.bc, st.ptr + 1, "label") - JumpLen(c)))

\* r: the other arms and the `else', up to the end of the IF
AddIf(a, r) == AddStmt(After(a.st, r, r.ptr), If(<<a.arm>> \o r.arms, r.stmts))
IfFrom(c, a) == AddIf(a, Dec(c, Sub(a.st, a.st.ptr), a.to))
DecIf(c, st) == IfFrom(c, DecArm(c, st))

AddArm(a, end) ==
  PanicUnless(a.to = end, [a.st EXCEPT !.arms = Append(@, a.arm), !.start = a.st.ptr])
DecElseIf(c, st, end) == AddArm(DecArm(c, st), end)

\* A loop: k expressions, the body from ptr, the jump back to top
DecLoop(c, st, k, ptr, done, top, Make(_, _)) ==
  LET e == Popped(st, k)
      s1 == Pop(st, k)
      b == Dec(c, Sub(s1, ptr), done - JumpLen(c))
      j == JumpAt(c, b.ptr)
      s == HeatAt(j.hot, "BOTTOM", Heat(HotByte(c, st.ptr), e, Make(e, b.stmts)))
  IN AddStmt(PanicUnless(j.ok /\ j.to = top, After(s1, b, j.ptr)), s)

DecFor(c, st, m) ==
  LET id == Operand(c.bc, st.ptr + 1, "var")
      lab == st.ptr + 1 + c.bc.numbytes["var"]
      make(e, body) == IF m = "FOR_LIST" THEN ForList(id, e[1], body)
                       ELSE ForRange(id, e[1], e[2], body)
  IN DecLoop(c, PanicUnless(m = "FOR_LIST" => Cold(Popped(st, 1)[1]) = NumLit(1), st), 2,
             lab + c.bc.numbytes["label"], Operand(c.bc, lab, "label"), st.ptr, make)

DecWhile(c, st, m) ==
  LET named == m = "WHILE_ID"
      p == OperandsAt(c.bc, st.ptr)
      id == IF named THEN Operand(c.bc, p, "var") ELSE NONE
      lab == p + (IF named THEN c.bc.numbytes["var"] ELSE 0)
      make(e, body) == While(id, e[1], body)
  IN DecLoop(c, st, 1, lab + c.bc.numbytes["label"], Operand(c.bc, lab, "label"), st.start, make)

DecFork(c, st, m) ==
  LET time == Popped(st, 1)
      p == st.ptr + 1 + c.bc.numbytes["fork"]
      f == Operand(c.bc, st.ptr + 1, "fork")
      fc == [c EXCEPT !.bc = c.prog.forks[f + 1], !.vec = f]
      s1 == Pop(st, 1)
      b == Dec(fc, Sub(s1, 0), fc.bc.size)
      id == IF m = "FORK" THEN NONE ELSE Operand(c.bc, p, "var")
      s == HeatAt(HotByte(fc, fc.bc.size - 1), "BOTTOM",
                  Heat(HotByte(c, st.ptr), time, Fork(id, time[1], b.stmts)))
  IN AddStmt(After(s1, b, IF m = "FORK" THEN p ELSE p + c.bc.numbytes["var"]), s)

DecShort(c, st, m) ==                   \* AND and OR
  LET done == Operand(c.bc, st.ptr + 1, "label")
      l == Popped(st, 1)
      s1 == Pop(st, 1)
      b == Dec(c, Sub(s1, st.ptr + JumpLen(c)), done)
      k == l \o Popped(b, 1)
      s2 == Pop(After(s1, b, b.ptr), 1)
  IN PushExpr(c, PanicUnless(b.ptr = done, s2),
              Heat(HotByte(c, st.ptr), k, Binary(m, k[1], k[2])))

AddCond(c, s, b, j, hot, k) ==
  PushExpr(c, PanicUnless(b.ptr = j.to, Pop(After(s, b, b.ptr), 1)),
           Heat(hot \/ j.hot, k, Cond(k[1], k[2], k[3])))
CondElse(c, s, j, hot, k, b) == AddCond(c, s, b, j, hot, k \o Popped(b, 1))
\* b: the consequent; s: the state behind its jump
CondThen(c, st, b, j, s) ==
  CondElse(c, s, j, HotByte(c, st.ptr), Popped(st, 1) \o Popped(b, 1), Dec(c, Sub(s, j.ptr), j.to))
CondUpTo(c, st, b, j) ==
  CondThen(c, st, b, j, PanicUnless(j.ok, Pop(After(Pop(st, 1), b, j.ptr), 1)))
CondFrom(c, st, b) == CondUpTo(c, st, b, JumpAt(c, b.ptr))
DecCond(c, st) ==
  CondFrom(c, st, Dec(c, Sub(Pop(st, 1), st.ptr + JumpLen(c)),
                      Operand(c.bc, st.ptr + 1, "label") - JumpLen(c)))

\* SCATTER: targets are [id, label]; a label greater than 1 is that of a default.
DecDefaults(c, st, targets, done, i) ==
  IF i > Len(targets) THEN [st |-> st, hot |-> FALSE, kids |-> <<>>]
  ELSE IF targets[i].label <= 1
  THEN LET r == DecDefaults(c, st, targets, done, i + 1) IN [r EXCEPT !.kids = <<<<>>>> \o @]
  ELSE LET later == {j \in (i + 1)..Len(targets) : targets[j].label > 1}
           next == IF later = {} THEN done
                   ELSE targets[CHOOSE j \in later : \A k \in later : j <= k].label
           b == Dec(c, Sub(st, st.ptr), next - 1)
           d == Popped(b, 1)[1]
           ok == /\ st.ptr = targets[i].label
                 /\ d.op = "ASGN"
                 /\ d.kids[1].op = "ID"
                 /\ d.kids[1].n = targets[i].id
                 /\ ByteAt(c.bc, b.ptr) = Op("POP")
           r == DecDefaults(c, PanicUnless(ok, Pop(After(st, b, b.ptr + 1), 1)),
                            targets, done, i + 1)
       IN IF ~ok THEN [st |-> Panic(st), hot |-> FALSE, kids |-> [j \in i..Len(targets) |-> <<>>]]
          ELSE [r EXCEPT !.kids = <<<<d.kids[2]>>>> \o @,
                         !.hot = @ \/ IsHot(d) \/ HotByte(c, b.ptr)]

AddScatter(c, hot, targets, kinds, done, d) ==
  LET rhs == Popped(d.st, 1)
      e == Assign(Scatter([i \in DOMAIN kinds |-> Target(kinds[i], targets[i].id, d.kids[i])]), rhs[1])
  IN IF d.st.bad THEN d.st
     ELSE PushExpr(c, PanicUnless(d.st.ptr = done, Pop(d.st, 1)), Heat(hot \/ d.hot, rhs, e))
DecScatter(c, st) ==
  LET p == OperandsAt(c.bc, st.ptr)
      n == ByteAt(c.bc, p)
      rest == ByteAt(c.bc, p + 2)
      size == c.bc.numbytes["var"] + c.bc.numbytes["label"]
      at(i) == p + 3 + size * (i - 1)
      targets == [i \in 1..n |-> [id |-> Operand(c.bc, at(i), "var"),
                                  label |-> Operand(c.bc, at(i) + c.bc.numbytes["var"], "label")]]
      done == Operand(c.bc, at(n + 1), "label")
      kind(i) == IF i = rest THEN "REST" ELSE IF targets[i].label = 0 THEN "REQUIRED" ELSE "OPTIONAL"
  IN AddScatter(c, HotByte(c, st.ptr), targets, [i \in 1..n |-> kind(i)], done,
                DecDefaults(c, [st EXCEPT !.ptr = at(n + 1) + c.bc.numbytes["label"]], targets, done, 1))

\* What precedes a CATCH or TRY_EXCEPT: codes and label
IsLabel(e) == e.op = "VAR" /\ e.t = "int"
IsCodes(e) == e.op = "LIST" \/ Cold(e) = NumLit(0)
CodesOf(e) == IF e.op = "LIST" THEN Codes(e.kids) ELSE ANY

\* k: codes and label; b: the expression; d: the default, if any; s: the state behind them
AddCatch(c, k, b, default, hot, done, s) ==
  LET try == Popped(b, 1)
  IN PushExpr(c, PanicUnless(s.ptr = done, s),
              Heat(hot \/ IsHot(k[1]), try \o default, Catch(try[1], CodesOf(k[1]), default)))
\* s: the state at the handler, which takes the code of the exception, or its default
CatchPlain(c, k, b, hot, done, s) ==
  AddCatch(c, k, b, <<>>, hot \/ HotByte(c, s.ptr + 1), done,
           PanicUnless(ByteAt(c.bc, s.ptr + 1) = Op("REF"), [s EXCEPT !.ptr = @ + 2]))
CatchDefault(c, k, b, hot, done, s, d) ==
  AddCatch(c, k, b, Popped(d, 1), hot, done,
           PanicUnless(ByteAt(c.bc, s.ptr) = Op("POP"), Pop(After(s, d, d.ptr), 1)))
CatchHandler(c, k, b, hot, done, s) ==
  IF ByteAt(c.bc, s.ptr) = OPTIM_NUM_TO_OPCODE(1) THEN CatchPlain(c, k, b, hot, done, s)
  ELSE CatchDefault(c, k, b, hot, done, s, Dec(c, Sub(s, s.ptr + 1), done))
CatchBody(c, st, k, s, b) ==
  LET handler == b.ptr + 2 + c.bc.numbytes["label"]
  IN CatchHandler(c, k, b, \E p \in {st.ptr, b.ptr, handler} : HotByte(c, p),
                  Operand(c.bc, b.ptr + 2, "label"),
                  PanicUnless(InstrAt(c.bc, b.ptr) = "END_CATCH" /\ handler = k[2].n,
                              Pop(After(s, b, handler), 1)))
CatchFrom(c, st, end, k, s) == CatchBody(c, st, k, s, Dec(c, Sub(s, st.ptr + 2), end))
DecCatch(c, st, end) ==
  LET k == Popped(st, 2)
  IN CatchFrom(c, st, end, k, PanicUnless(IsLabel(k[2]) /\ IsCodes(k[1]), Pop(st, 2)))

\* The handlers of a try, from the one with the given number on
DecHandlers(c, st, codes, labels, done, i) ==
  IF st.bad \/ i > Len(labels) THEN [st |-> st, arms |-> <<>>]
  ELSE LET m == InstrAt(c.bc, st.ptr)
           id == CASE m = "G_PUT" -> Operand(c.bc, st.ptr + 1, "var")
                   [] m = "PUT" -> ByteAt(c.bc, st.ptr) - OP_PUT
                   [] OTHER -> NONE
           pop == st.ptr + (CASE m = "G_PUT" -> 1 + c.bc.numbytes["var"] [] m = "PUT" -> 1
                              [] OTHER -> 0)
           last == i = Len(labels)
           b == Dec(c, Sub(st, pop + 1), IF last THEN done ELSE labels[i + 1] - JumpLen(c))
           j == JumpAt(c, b.ptr)
           ok == /\ st.ptr = labels[i]
                 /\ ByteAt(c.bc, pop) = Op("POP")
                 /\ ~last => j.ok /\ j.to = done
           hot == HotByte(c, st.ptr) \/ HotByte(c, pop) \/ IsHot(codes[i])
           arm == HeatAt(~last /\ j.hot, "BOTTOM",
                         HeatAt(hot, "TOP", Except(id, CodesOf(codes[i]), b.stmts)))
           r == DecHandlers(c, PanicUnless(ok, After(st, b, IF last THEN b.ptr ELSE j.ptr)),
                            codes, labels, done, i + 1)
       IN [r EXCEPT !.arms = <<arm>> \o @]

\* The body b ends at END_EXCEPT; behind it are the handlers, whose end it names.
AddTryExcept(c, st, b, done, h) ==
  AddStmt(PanicUnless(h.st.ptr = done, h.st),
          HeatAt(HotByte(c, b.ptr), "ENDBODY",
                 HeatAt(HotByte(c, st.ptr), "TOP", TryExcept(b.stmts, h.arms))))
DecExcepts(c, st, b, k) ==
  LET done == Operand(c.bc, b.ptr + 2, "label")
  IN AddTryExcept(c, st, b, done,
       DecHandlers(c, PanicUnless(InstrAt(c.bc, b.ptr) = "END_EXCEPT",
                                  After(st, b, b.ptr + 2 + c.bc.numbytes["label"])),
                   [i \in 1..(Len(k) \div 2) |-> k[2 * i - 1]],
                   [i \in 1..(Len(k) \div 2) |-> k[2 * i].n], done, 1))

DecTryExcept(c, st, end) ==
  LET n == ByteAt(c.bc, st.ptr + 2)
      k == Popped(st, 2 * n)
      s1 == PanicUnless(\A i \in 1..n : IsCodes(k[2 * i - 1]) /\ IsLabel(k[2 * i]),
                        Pop(st, 2 * n))
  IN DecExcepts(c, s1, Dec(c, Sub(s1, st.ptr + 3), end), k)

DecTryFinally(c, st, end) ==
  LET p == st.ptr + 2
      b == Dec(c, Sub(st, p + c.bc.numbytes["label"]), end)
      s1 == PanicUnless(/\ InstrAt(c.bc, b.ptr) = "END_FINALLY"
                        /\ b.ptr + 2 = Operand(c.bc, p, "label"), After(st, b, b.ptr + 2))
      h == Dec(c, Sub(s1, b.ptr + 2), end)
      s2 == PanicUnless(InstrAt(c.bc, h.ptr) = "CONTINUE", After(s1, h, h.ptr + 2))
  IN AddStmt(s2, HeatAt(HotByte(c, h.ptr), "BOTTOM",
                   HeatAt(HotByte(c, b.ptr), "ENDBODY",
                     HeatAt(HotByte(c, st.ptr), "TOP", TryFinally(b.stmts, h.stmts)))))

\* Mutant: a `continue' that ends a body is taken for a `break'.
DecExitForward(c, st, m) ==
  LET p == OperandsAt(c.bc, st.ptr)
      id == IF m = "EXIT_ID" THEN Operand(c.bc, p, "var") ELSE NONE
      lab == p + (IF m = "EXIT_ID" THEN c.bc.numbytes["var"] ELSE 0) + c.bc.numbytes["stack"]
      ptr == lab + c.bc.numbytes["label"]
  IN AddStmt([st EXCEPT !.ptr = ptr], Heat(HotByte(c, st.ptr), <<>>, Exit("BREAK", id)))

\* A jump back is a `continue'.
DecExit(c, st, m) ==
  LET p == OperandsAt(c.bc, st.ptr)
      id == IF m = "EXIT_ID" THEN Operand(c.bc, p, "var") ELSE NONE
      lab == p + (IF m = "EXIT_ID" THEN c.bc.numbytes["var"] ELSE 0) + c.bc.numbytes["stack"]
      ptr == lab + c.bc.numbytes["label"]
      kind == IF Operand(c.bc, lab, "label") < ptr THEN "CONTINUE" ELSE "BREAK"
  IN AddStmt([st EXCEPT !.ptr = ptr], Heat(HotByte(c, st.ptr), <<>>, Exit(kind, id)))

\* POP and RETURN
DecExpr(c, st, m) ==
  LET k == Popped(st, IF m = "RETURN0" THEN 0 ELSE 1)
      s == IF m = "POP" THEN Expr(k[1]) ELSE Return(k)
  IN AddStmt(Pop([st EXCEPT !.ptr = @ + 1], Len(k)), Heat(HotByte(c, st.ptr), k, s))

Instr(c, st, end, m) ==
  CASE m \in DOMAIN Arity -> Reduce(c, st, m)
    [] m = "IF" -> DecIf(c, st)
    [] m = "EIF" -> DecElseIf(c, st, end)
    [] m \in {"FOR_LIST", "FOR_RANGE"} -> DecFor(c, st, m)
    [] m \in {"WHILE", "WHILE_ID"} -> DecWhile(c, st, m)
    [] m \in {"FORK", "FORK_WITH_ID"} -> DecFork(c, st, m)
    [] m \in {"POP", "RETURN", "RETURN0"} -> DecExpr(c, st, m)
    [] m \in {"AND", "OR"} -> DecShort(c, st, m)
    [] m = "IF_QUES" -> DecCond(c, st)
    [] m = "PUT_TEMP" -> [st EXCEPT !.ptr = @ + 1, !.asgn = @ \/ HotByte(c, st.ptr)]
    [] m = "SCATTER" -> DecScatter(c, st)
    [] m = "CATCH" -> DecCatch(c, st, end)
    [] m = "TRY_EXCEPT" -> DecTryExcept(c, st, end)
    [] m = "TRY_FINALLY" -> DecTryFinally(c, st, end)
    [] m \in {"EXIT", "EXIT_ID"} -> DecExit(c, st, m)
    [] m = "DONE" -> PanicUnless(st.ptr + 1 = end, [st EXCEPT !.ptr = @ + 1])
    [] OTHER -> Panic(st)               \* PUSH_TEMP, JUMP and what is no instruction

EarlyExits == {"END_CATCH", "END_EXCEPT", "END_FINALLY", "CONTINUE"}

\* The set makes TLC evaluate one instruction before the next.
Dec(c, st, end) ==
  IF st.bad THEN st
  ELSE IF st.ptr >= end THEN PanicUnless(st.ptr = end, st)
  ELSE IF InstrAt(c.bc, st.ptr) \in EarlyExits THEN st
  ELSE CHOOSE r \in {Dec(c, s, end) : s \in {Instr(c, st, end, InstrAt(c.bc, st.ptr))}} : TRUE

-----------------------------------------------------------------------------
(* program_to_tree() *)

RECURSIVE SumOfStacks(_)
SumOfStacks(bcs) == IF bcs = <<>> THEN 0 ELSE Head(bcs).max_stack + SumOfStacks(Tail(bcs))

ProgramToTree(prog, vec, hotvec, hotpc) ==
  LET bc == BytecodesOf(prog, vec)
      c == [prog |-> prog, bc |-> bc, vec |-> vec, hotvec |-> hotvec, hotpc |-> hotpc,
            room |-> prog.main.max_stack + SumOfStacks(prog.forks)]
      st == [ptr |-> 0, stk |-> <<>>, stmts |-> <<>>, arms |-> <<>>, start |-> 0,
             asgn |-> FALSE, bad |-> FALSE]
  IN Dec(c, st, bc.size)

\* decompile_program(): [stmts, bad], no byte being hot
DecompileProgram(prog, vec) == ProgramToTree(prog, vec, MAIN_VECTOR, NONE)

-----------------------------------------------------------------------------
(* find_hot_node(): what the walk passes, in order.  A line is counted; at a mark that is   *)
(* hot the search is over, one line earlier if the last line of a body is to blame.         *)

Line == [kind |-> "line", found |-> FALSE, body |-> <<>>]
Mark(kind, node, position) == [kind |-> kind, found |-> node.hot = position, body |-> <<>>]
Within(stmts) == [kind |-> "body", found |-> FALSE, body |-> stmts]

RECURSIVE Concat(_)
Concat(ss) == IF ss = <<>> THEN <<>> ELSE Head(ss) \o Concat(Tail(ss))

WalkArm(arm) ==
  <<Mark("mark", arm, "TOP"), Line, Within(arm.kids[2].kids), Mark("last", arm, "BOTTOM")>>

Walk(s) ==
  LET body == LastOf(s.kids).kids
  IN <<Mark("mark", s, "TOP")>>
     \o (CASE s.op = "IF" ->
                Concat([i \in DOMAIN Arms(s) |-> WalkArm(Arms(s)[i])])
                  \o (IF body = <<>> THEN <<>> ELSE <<Line, Within(body)>>)
           [] s.op \in {"FORLIST", "FORRANGE", "WHILE", "FORK"} -> <<Line, Within(body)>>
           [] s.op = "TRYEXCEPT" ->
                <<Line, Within(s.kids[1].kids), Mark("last", s, "ENDBODY")>>
                  \o Concat([i \in DOMAIN Excepts(s) |-> WalkArm(Excepts(s)[i])])
           [] s.op = "TRYFINALLY" ->
                <<Line, Within(s.kids[1].kids), Mark("mark", s, "ENDBODY"), Line, Within(body)>>
           [] OTHER -> <<>>)
     \o <<Mark("mark", s, "BOTTOM"), Line>>

RECURSIVE FindHotNode(_, _), Search(_, _, _)
Search(walk, i, at) ==                  \* at: [found, line]
  IF at.found \/ i > Len(walk) THEN at
  ELSE LET w == walk[i]
       IN Search(walk, i + 1,
            CASE w.kind = "body" -> FindHotNode(w.body, at)
              [] w.kind = "line" -> [at EXCEPT !.line = @ + 1]
              [] OTHER -> [found |-> w.found,
                           line |-> at.line - (IF w.found /\ w.kind = "last" THEN 1 ELSE 0)])
FindHotNode(stmts, at) == Search(Concat([i \in DOMAIN stmts |-> Walk(stmts[i])]), 1, at)

RECURSIVE HotIn(_)
HotIn(node) == IsHot(node) \/ \E i \in DOMAIN node.kids : HotIn(node.kids[i])

\* The first line of a program is 1; a hot node the search does not come to gives the line
\* after the last, as the last byte of the main vector does.  0 is a panic: "Can't do job".
LineIn(tree, done) ==
  IF tree.bad \/ ~(done \/ HotIn(Block(tree.stmts))) THEN 0
  ELSE FindHotNode(tree.stmts, [found |-> FALSE, line |-> 1]).line
FindLineNumber(prog, vec, pc) ==
  LineIn(ProgramToTree(prog, MAIN_VECTOR, vec, pc), pc = BytecodesOf(prog, vec).size - 1)
=============================================================================
