------------------------------ MODULE Interpreter ------------------------------
(***************************************************************************)
(* src/src/execute.c: the virtual machine, one task at a time, from its    *)
(* first instruction to its end, through suspensions and restarts of the   *)
(* server in between.                                                      *)
(*                                                                         *)
(*   world    the programs as they were written                            *)
(*   code     the compiled ones; main task: the first, verbs: the others.  *)
(*            debug is the d bit of the verb                               *)
(*   vm       the globals of execute.c; seen is what the world outside saw *)
(*            of the task: calls with the call stack and its line numbers, *)
(*            properties, tracebacks; forked is the tasks it forked        *)
(*   oracle   what the world outside answered so far: the values of calls, *)
(*            of properties, of suspend()                                  *)
(*   task     0 for the task that was started first, or which of its       *)
(*            forked ones runs now; main_oracle is the oracle of the first *)
(*                                                                         *)
(* Slot 0 of a program holds `args', every other slot a variable of it.    *)
(* A verb is named by a string as long as its number; #0 is the only valid *)
(* object.  Left out: that find_line_number() remembers its last answer,   *)
(* and 1 for the first byte of a new program.                              *)
(***************************************************************************)
EXTENDS CodeGen, Decompile, Values

CONSTANTS
  Worlds,                  \* the sets of programs: [stmts, debug] of the task and its verbs
  Answers,                 \* what a function or a property can be worth
  Errors,                  \* what they, or suspend(), can fail with
  MAX_DEPTH,               \* max_stack_size
  TICKS,                   \* ticks of a task
  MAX_ANSWERS,             \* bound on the length of oracle
  MAX_RESTARTS             \* bound on the restarts of the server

ASSUME WorldsAreLegal == \A w \in Worlds : \A i \in DOMAIN w : Legal(w[i].stmts)

VARIABLES world, code, vm, oracle, task, main_oracle, restarts

vars == <<world, code, vm, oracle, task, main_oracle, restarts>>

NUM_SLOTS == 5

\* A program, and the d bit of the verb it belongs to
Compile(stmts, debug, first_lineno) ==
  [bytes |-> GenerateCode(stmts), debug |-> debug, first_lineno |-> first_lineno]

-----------------------------------------------------------------------------
(* Activations.  prog is a number of code, verb what a traceback says; bi_func_pc is that of *)
(* the function that called the activation, 0 if a verb did.                                 *)

Activation(prog, verb, debug, env) ==
  [prog |-> prog, verb |-> verb, debug |-> debug, pc |-> 0, error_pc |-> 0, rt_stack |-> <<>>, rt_env |-> env,
   temp |-> NoneV, bi_func_pc |-> 0, bi_func_id |-> 0]

NewEnv(args) == [slot \in 0..NUM_SLOTS |-> IF slot = 0 THEN args ELSE NoneV]

Front(s) == SubSeq(s, 1, Len(s) - 1)
RunActiv(v) == LastOf(v.activ_stack)
SetActiv(v, a) == [v EXCEPT !.activ_stack[Len(v.activ_stack)] = a]

VectorOf(v, frame) == IF frame = 1 THEN v.root_activ_vector ELSE MAIN_VECTOR
Bc(v) == BytecodesOf(code[RunActiv(v).prog].bytes, VectorOf(v, Len(v.activ_stack)))

Push(v, x) == [v EXCEPT !.activ_stack[Len(v.activ_stack)].rt_stack = Append(@, x)]
Drop(v, n) ==
  [v EXCEPT !.activ_stack[Len(v.activ_stack)].rt_stack = SubSeq(@, 1, Len(@) - n)]
\* The i-th value from the top
Nth(v, i) == LET s == RunActiv(v).rt_stack IN s[Len(s) - i + 1]
JumpTo(v, pc) == [v EXCEPT !.activ_stack[Len(v.activ_stack)].pc = pc]
SetVar(v, slot, x) == [v EXCEPT !.activ_stack[Len(v.activ_stack)].rt_env[slot] = x]

\* A line of a traceback is kept as the place it is the line of; find_line_number() is asked
\* when something looks at it.
LineV(prog, vec, pc) == V("line", pc, <<prog, vec>>)
LineFrom(line, first_lineno) == IF line = 0 THEN 0 ELSE line + first_lineno - 1
LineAt(prog, vec, pc, first_lineno) ==
  LineFrom(FindLineNumber(prog, vec, pc), first_lineno)
LineOf(l) ==
  IntV(LineAt(code[l.l[1]].bytes, l.l[2], l.n, code[l.l[1]].first_lineno))

\* make_stack_list(): the activations from the last one down to start, each but start
\* followed by the function that called it
RECURSIVE StackList(_, _, _)
StackList(v, start, frame) ==
  IF frame < start THEN <<>>
  ELSE LET a == v.activ_stack[frame]
       IN <<ListV(<<IntV(a.verb), LineV(a.prog, VectorOf(v, frame), a.error_pc)>>)>>
          \o (IF frame # start /\ a.bi_func_pc # 0
              THEN <<ListV(<<IntV(-a.bi_func_id), IntV(a.bi_func_pc)>>)>> ELSE <<>>)
          \o StackList(v, start, frame - 1)
MakeStackList(v, start) == ListV(StackList(v, start, Len(v.activ_stack)))

-----------------------------------------------------------------------------
(* Unwinding *)

FIN_FALL_THRU == 0
FIN_RAISE == 1
FIN_UNCAUGHT == 2
FIN_RETURN == 3
FIN_ABORT == 4
FIN_EXIT == 5

CatchV(n) == V("catch", n, <<>>)
FinallyV(pc) == V("finally", pc, <<>>)

\* ANY is no list.
Handles(codes, code_) == codes.t # "list" \/ ismember(code_, codes) # 0

\* find_handler_activ(): 0 if there is none
Handlers(rt_stack, code_) ==
  {i \in DOMAIN rt_stack :
     /\ rt_stack[i].t = "catch"
     /\ \E j \in 1..rt_stack[i].n : Handles(rt_stack[i - 2 * j], code_)}
FindHandlerActiv(v, code_) ==
  LET frames == {f \in DOMAIN v.activ_stack : Handlers(v.activ_stack[f].rt_stack, code_) # {}}
  IN IF frames = {} THEN 0 ELSE CHOOSE f \in frames : \A g \in frames : g <= f

(* The built-in functions that matter to the machine, each of one argument.  EXT stands for  *)
(* those that return or raise something, CALLS for move() and others that call two verbs one *)
(* after the other, EVAL for eval(), PASS for pass() and for those that call a verb in place *)
(* of themselves, KILL for kill_task() of the task itself.                                   *)
EXT == 0
RAISE == 1
SUSPEND == 2
EVAL == 3
PASS == 4
CALLS == 5
KILL == 6

Event(what, f, pc, v, stack) == [what |-> what, f |-> f, pc |-> pc, v |-> v, stack |-> stack]
NoHandler == Event("", 0, 0, NoneV, <<>>)
Seen(v, e) == [v EXCEPT !.seen = Append(@, e)]

Found(n) == n \in 2..Len(world)
CallVerb2(v, n, args) ==                \* [err, vm]
  CASE ~Found(n) -> [err |-> E_VERBNF, vm |-> v]
    [] Len(v.activ_stack) >= MAX_DEPTH -> [err |-> E_MAXREC, vm |-> v]
    [] OTHER -> [err |-> E_NONE,
                 vm |-> [v EXCEPT !.activ_stack =
                           Append(@, Activation(n, n, code[n].debug, NewEnv(args)))]]

Package(kind, v, x, pc) == [kind |-> kind, vm |-> v, v |-> x, pc |-> pc]
ErrorPack(v, e) == Package("raise", v, ErrV(e), 0)

CallPack(c, v, pc) ==
  IF c.err = E_NONE THEN Package("call", c.vm, NoneV, pc) ELSE ErrorPack(v, c.err)

\* setup_activ_for_eval(): text that cannot be parsed is no error.
Eval(v, n) ==
  LET c == CallVerb2(v, n, ListV(<<>>))
  IN IF Found(n)
     THEN CallPack([c EXCEPT !.vm.activ_stack[Len(c.vm.activ_stack)].debug = TRUE], v, 2)
     ELSE Package("return", v, ListV(<<Zero, ListV(<<>>)>>), 0)

\* call_bi_func() of a function that is called, with a list, or returned to, with a value
CallBiFunc(v, f, pc, x) ==
  CASE pc = 1 /\ Len(x.l) # 1 -> ErrorPack(v, E_ARGS)
    [] f = RAISE -> Package("raise", v, x.l[1], 0)
    [] f = KILL -> Package("kill", v, Zero, 0)
    [] f \in {EVAL, PASS, CALLS} /\ pc = 1 /\ x.l[1].t # "int" -> ErrorPack(v, E_TYPE)
    [] f = EVAL /\ pc = 1 -> Eval(v, x.l[1].n)
    [] f \in {PASS, CALLS} /\ pc = 1 ->
         CallPack(CallVerb2(v, x.l[1].n, ListV(<<>>)), v, IF f = PASS THEN 0 ELSE 2)
    [] f = CALLS /\ pc = 2 ->
         LET v1 == Seen(v, Event("back", f, pc, x, <<>>))
         IN CallPack(CallVerb2(v1, Len(world), ListV(<<>>)), v1, 3)
    [] f = CALLS /\ pc = 3 ->
         Package("return", Seen(v, Event("back", f, pc, x, <<>>)), Zero, 0)
    [] f = EVAL /\ pc = 2 ->
         Package("return", v, ListV(<<IntV(1), x>>), 0)

SetCaller(v, f, pc) ==
  [v EXCEPT !.activ_stack[Len(v.activ_stack)].bi_func_id = f,
            !.activ_stack[Len(v.activ_stack)].bi_func_pc = pc]

RECURSIVE Unwind(_, _, _), RaiseError(_, _), ShortCircuit(_, _, _)

\* Functions get zero for what they called, are not allowed to call more, and what they
\* return or raise is lost.
Refused(p, f) ==
  CASE p.kind # "call" -> p.vm
    [] p.kind = "call" /\ p.pc = 0 -> [p.vm EXCEPT !.activ_stack = Front(@)]
    [] OTHER -> ShortCircuit([p.vm EXCEPT !.activ_stack = Front(@)], f, p.pc)
ShortCircuit(v, f, pc) == Refused(CallBiFunc(v, f, pc, Zero), f)

\* run_interpreter() reports a task that was aborted with something to report.
Finish(v, why) ==
  IF why = FIN_RETURN THEN [v EXCEPT !.outcome = "done"]
  ELSE [IF v.handler.what = "" THEN v ELSE Seen(v, v.handler) EXCEPT !.outcome = "aborted"]

\* What a function that is returned to makes of it: no function that there is suspends
\* or kills its task then, bf_suspend(), bf_read() and bf_kill_task() do at once or never.
Continue(p, f) ==
  CASE p.kind = "return" -> Push(p.vm, p.v)
    [] p.kind = "call" -> SetCaller(p.vm, f, p.pc)
    [] p.kind = "raise" -> IF RunActiv(p.vm).debug THEN RaiseError(p.vm, p.v) ELSE Push(p.vm, p.v)

\* Activation a is left; v: without it.
LeaveTo(v, a, why, value) ==
  CASE v.activ_stack = <<>> -> Finish(v, why)
    [] v.activ_stack # <<>> /\ why # FIN_RETURN ->
         Unwind(IF a.bi_func_pc = 0 THEN v ELSE ShortCircuit(v, a.bi_func_id, a.bi_func_pc), why, value)
    [] OTHER -> IF a.bi_func_pc = 0 THEN Push(v, value)
                ELSE Continue(CallBiFunc(v, a.bi_func_id, a.bi_func_pc, value), a.bi_func_id)
Leave(v, why, value) == LeaveTo([v EXCEPT !.activ_stack = Front(@)], RunActiv(v), why, value)

\* The handler of a marker that takes the code: the first, if any
Match(below, n, code_) ==
  LET base == Len(below) - 2 * n
      at == {j \in 1..n : Handles(below[base + 2 * j - 1], code_)}
  IN [found |-> at # {}, base |-> base,
      pc |-> IF at = {} THEN 0 ELSE below[base + 2 * (CHOOSE j \in at : \A k \in at : j <= k)].n]

\* unwind_stack(): value is what is returned, what is raised, or where an exit goes
Unwind(v, why, value) ==
  LET a == RunActiv(v)
      goal == IF why = FIN_EXIT THEN value.l[1].n ELSE 0
      top == LastOf(a.rt_stack)
      below == Front(a.rt_stack)
      m == Match(below, top.n, value.l[1])
      handle(pc, rt_stack) == SetActiv(v, [a EXCEPT !.pc = pc, !.rt_stack = rt_stack])
  IN CASE Len(a.rt_stack) <= goal ->
            IF why = FIN_EXIT THEN JumpTo(v, value.l[2].n) ELSE Leave(v, why, value)
       [] Len(a.rt_stack) > goal /\ why # FIN_ABORT /\ top.t = "finally" ->
            handle(top.n, below \o <<IntV(why), value>>)
       [] Len(a.rt_stack) > goal /\ why = FIN_RAISE /\ top.t = "catch" ->
            IF m.found THEN handle(m.pc, Append(SubSeq(below, 1, m.base), value))
            ELSE Unwind(handle(a.pc, SubSeq(below, 1, m.base)), why, value)
       [] OTHER -> Unwind(handle(a.pc, below), why, value)

\* raise_error(): an exception is the list {code, message, value, traceback}
Exception(code_, stack) == ListV(<<code_, StrV(<<>>), Zero, stack>>)
RaiseTo(v, code_, caught, stack) ==
  Unwind(IF caught THEN v ELSE [v EXCEPT !.handler = Event("uncaught", 0, 0, code_, stack.l)],
         IF caught THEN FIN_RAISE ELSE FIN_UNCAUGHT,
         IF caught THEN Exception(code_, stack) ELSE Zero)
RaiseFrom(v, code_, frame) ==
  RaiseTo(v, code_, frame # 0, MakeStackList(v, IF frame = 0 THEN 1 ELSE frame))
RaiseError(v, code_) == RaiseFrom(v, code_, FindHandlerActiv(v, code_))

AbortTask(v, why) ==
  Unwind([v EXCEPT !.handler = Event(why, 0, 0, Zero, MakeStackList(v, 1).l)], FIN_ABORT, Zero)

\* RAISE_ERROR and PUSH_ERROR: without the d bit, an error is a value like any other.
RaiseOr(v, e, otherwise) == IF RunActiv(v).debug THEN RaiseError(v, ErrV(e)) ELSE otherwise
PushError(v, e) == RaiseOr(v, e, Push(v, ErrV(e)))
PushResult(v, r) == IF r.err = E_NONE THEN Push(v, r.v) ELSE PushError(v, r.err)

-----------------------------------------------------------------------------
(* Instructions *)

\* The operands of an instruction.  One without any that names a variable or a number does so
\* by its opcode.
Operands(m) ==
  CASE m \in {"IF", "EIF", "WHILE", "IF_QUES", "JUMP", "AND", "OR", "END_CATCH", "END_EXCEPT",
              "PUSH_LABEL", "TRY_FINALLY"} -> <<"label">>
    [] m \in {"FOR_LIST", "FOR_RANGE", "WHILE_ID"} -> <<"var", "label">>
    [] m \in {"G_PUT", "G_PUSH"} -> <<"var">>
    [] m = "IMM" -> <<"literal">>
    [] m = "LENGTH" -> <<"stack">>
    [] m = "FORK" -> <<"fork">>
    [] m = "FORK_WITH_ID" -> <<"fork", "var">>
    [] m = "EXIT" -> <<"stack", "label">>
    [] m = "EXIT_ID" -> <<"var", "stack", "label">>
    [] m \in {"BI_FUNC_CALL", "TRY_EXCEPT"} -> <<"byte">>
    [] OTHER -> <<>>

RECURSIVE ReadOperands(_, _, _)
ReadOperands(bc, p, kinds) ==           \* [args, pc]
  IF kinds = <<>> THEN [args |-> <<>>, pc |-> p]
  ELSE LET byte == Head(kinds) = "byte"
           r == ReadOperands(bc, p + (IF byte THEN 1 ELSE bc.numbytes[Head(kinds)]), Tail(kinds))
       IN [r EXCEPT !.args = <<IF byte THEN ByteAt(bc, p) ELSE Operand(bc, p, Head(kinds))>> \o @]

\* Fetching: [m, args, vm, counted]; b: the byte of the opcode, r: its operands
Fetched(v, a, b, m, r) ==
  LET args == CASE m = "PUT" -> <<b - OP_PUT>>
                [] m = "PUSH" -> <<b - OP_PUSH>>
                [] m = "NUM" -> <<OPCODE_TO_OPTIM_NUM(b)>>
                [] OTHER -> r.args
      tick == IF COUNT_TICK(b) \/ (m \in DOMAIN ExtendedIndex /\ COUNT_EOP_TICK(Eop(m))) THEN 1 ELSE 0
      v1 == [SetActiv(v, [a EXCEPT !.error_pc = a.pc, !.pc = r.pc]) EXCEPT
              !.ticks = IF @ <= 0 THEN 0 ELSE @ - tick]      \* it is as good as any below
  IN [m |-> m, args |-> args, vm |-> v1, counted |-> COUNT_TICK(b)]
FetchAs(v, a, bc, m) ==
  Fetched(v, a, ByteAt(bc, a.pc), m, ReadOperands(bc, OperandsAt(bc, a.pc), Operands(m)))

Running == vm.outcome = "running"
Instruction == InstrAt(Bc(vm), RunActiv(vm).pc)
Fetch == FetchAs(vm, RunActiv(vm), Bc(vm), Instruction)

\* Only ops that count a tick look whether there are any left.
OutOfTicks(f) == f.counted /\ f.vm.ticks <= 0
Executes(names, Do(_, _, _)) ==
  /\ Running
  /\ Instruction \in names
  /\ \E f \in {Fetch} : ~OutOfTicks(f) /\ vm' = Do(f.vm, f.m, f.args)

Machine == <<world, code, oracle, task, main_oracle, restarts>>

SetNth(v, i, x) ==
  LET a == RunActiv(v)
  IN SetActiv(v, [a EXCEPT !.rt_stack[Len(a.rt_stack) - i + 1] = x])

\* IF, EIF, WHILE and IF_QUES, and the test of a WHILE_ID.  A jump to 0 is none.
DoTest(v, m, args) ==
  LET label == LastOf(args)
      v1 == IF m = "WHILE_ID" THEN SetVar(v, args[1], Nth(v, 1)) ELSE v
  IN IF ~is_true(Nth(v, 1)) /\ label # 0 THEN JumpTo(Drop(v1, 1), label) ELSE Drop(v1, 1)
Test == Executes({"IF", "EIF", "WHILE", "IF_QUES", "WHILE_ID"}, DoTest) /\ UNCHANGED Machine

DoJump(v, m, args) == IF args[1] # 0 THEN JumpTo(v, args[1]) ELSE v
Jump == Executes({"JUMP"}, DoJump) /\ UNCHANGED Machine

DoShortCircuit(v, m, args) ==
  IF is_true(Nth(v, 1)) = (m = "OR") THEN JumpTo(v, args[1]) ELSE Drop(v, 1)
AndOr == Executes({"AND", "OR"}, DoShortCircuit) /\ UNCHANGED Machine

DoForList(v, m, args) ==
  LET count == Nth(v, 1).n
      list == Nth(v, 2)
      end == JumpTo(Drop(v, 2), args[2])
  IN CASE list.t # "list" -> RaiseOr(v, E_TYPE, end)
       [] list.t = "list" /\ count > Len(list.l) -> end
       [] OTHER -> SetNth(SetVar(v, args[1], list.l[count]), 1, IntV(Wrap(count + 1)))
ForListStep == Executes({"FOR_LIST"}, DoForList) /\ UNCHANGED Machine

DoForRange(v, m, args) ==
  LET to == Nth(v, 1)
      from == Nth(v, 2)
      end == JumpTo(Drop(v, 2), args[2])
  IN CASE to.t \notin {"int", "obj"} \/ to.t # from.t -> RaiseOr(v, E_TYPE, end)
       [] to.t \in {"int", "obj"} /\ to.t = from.t /\ from.n > to.n -> end
       [] OTHER -> SetNth(SetVar(v, args[1], from), 2, [from EXCEPT !.n = Wrap(@ + 1)])
ForRangeStep == Executes({"FOR_RANGE"}, DoForRange) /\ UNCHANGED Machine

\* Constants and the stack.  A literal that is popped at once is not pushed.
LiteralV(node) ==
  CASE node.t = "str" -> StrV([i \in 1..node.n |-> node.n])
    [] node.t = "list" -> ListV(<<>>)
    [] OTHER -> V(node.t, node.n, <<>>)
NextIsPop(v) == ByteAt(Bc(v), RunActiv(v).pc) = Op("POP")
SkipPop(v) == JumpTo(v, RunActiv(v).pc + 1)

DoImm(v, m, args) ==
  IF NextIsPop(v) THEN SkipPop(v)
  ELSE Push(v, LiteralV(code[RunActiv(v).prog].bytes.literals[args[1] + 1]))
DoStack(v, m, args) ==
  CASE m = "NUM" -> Push(v, IntV(args[1]))
    [] m = "POP" -> Drop(v, 1)
    [] m = "MAKE_EMPTY_LIST" -> Push(v, ListV(<<>>))
    [] m = "PUT_TEMP" -> SetActiv(v, [RunActiv(v) EXCEPT !.temp = Nth(v, 1)])
    [] m = "PUSH_TEMP" -> SetActiv(Push(v, RunActiv(v).temp),
                                   [RunActiv(Push(v, RunActiv(v).temp)) EXCEPT !.temp = NoneV])
Constant == Executes({"IMM"}, DoImm) /\ UNCHANGED Machine
StackStep ==
  Executes({"NUM", "POP", "MAKE_EMPTY_LIST", "PUT_TEMP", "PUSH_TEMP"}, DoStack) /\ UNCHANGED Machine

\* Operators: k values for one, or for an error
Binaries == {"EQ", "NE", "LT", "LE", "GT", "GE", "IN", "ADD", "MINUS", "MULT", "DIV", "MOD",
             "EXP", "REF", "LIST_ADD_TAIL", "LIST_APPEND"}
DoBinary(v, m, args) ==
  LET l == Nth(v, 2)
      r == Nth(v, 1)
      result == CASE m \in {"EQ", "NE", "LT", "LE", "GT", "GE"} -> Compare(m, l, r)
                  [] m = "IN" -> In(l, r)
                  [] m = "REF" -> Ref(l, r)
                  [] m = "LIST_ADD_TAIL" -> ListAddTail(l, r)
                  [] m = "LIST_APPEND" -> ListAppend(l, r)
                  [] OTHER -> Arith(m, l, r)
  IN PushResult(Drop(v, 2), result)
DoUnary(v, m, args) ==
  LET x == Nth(v, 1)
  IN PushResult(Drop(v, 1), CASE m = "NOT" -> Not(x)
                              [] m = "UNARY_MINUS" -> UnaryMinus(x)
                              [] m = "MAKE_SINGLETON_LIST" -> Ok(ListV(<<x>>))
                              [] m = "CHECK_LIST_FOR_SPLICE" -> CheckListForSplice(x))
Operator ==
  /\ \/ Executes(Binaries, DoBinary)
     \/ Executes({"NOT", "UNARY_MINUS", "MAKE_SINGLETON_LIST", "CHECK_LIST_FOR_SPLICE"}, DoUnary)
  /\ UNCHANGED Machine

DoIndexing(v, m, args) ==
  PushResult(IF m \in {"RANGE_REF", "INDEXSET"} THEN Drop(v, 3) ELSE v,
             CASE m = "PUSH_REF" -> PushRef(Nth(v, 2), Nth(v, 1))
               [] m = "RANGE_REF" -> RangeRef(Nth(v, 3), Nth(v, 2), Nth(v, 1))
               [] m = "INDEXSET" -> IndexSet(Nth(v, 3), Nth(v, 2), Nth(v, 1))
               [] m = "LENGTH" -> Size(RunActiv(v).rt_stack[args[1] + 1]))
Indexing == Executes({"PUSH_REF", "RANGE_REF", "INDEXSET", "LENGTH"}, DoIndexing) /\ UNCHANGED Machine

\* The length of the base is taken before its type is looked at.  Of what is no string and no
\* list, strlen() reads where the number points; a compiler may leave the call out.
DoRangeSet(v, m, args) ==
  PushResult(Drop(v, 4), RangeSet(Nth(v, 4), Nth(v, 3), Nth(v, 2), Nth(v, 1)))
RangeAssign ==
  /\ \E crash \in BOOLEAN :
       /\ Executes({"RANGESET"}, LAMBDA v, m, args :
                   IF crash THEN [v EXCEPT !.outcome = "crashed"] ELSE DoRangeSet(v, m, args))
       /\ crash => ~Composite(Nth(vm, 4))
  /\ UNCHANGED Machine

\* Variables
DoPush(v, m, args) ==
  LET x == RunActiv(v).rt_env[args[1]]
  IN IF x = NoneV THEN PushError(v, E_VARNF) ELSE Push(v, x)
DoPut(v, m, args) ==
  LET v1 == SetVar(v, args[1], Nth(v, 1))
  IN IF m = "PUT" /\ NextIsPop(v) THEN SkipPop(Drop(v1, 1)) ELSE v1
Variable ==
  /\ Executes({"PUSH", "G_PUSH"}, DoPush) \/ Executes({"PUT", "G_PUT"}, DoPut)
  /\ UNCHANGED Machine

\* SCATTER: what the first `done' of n targets leave, of a list of the right length: the
\* variables, how many optional ones can still be had, how far the list is ahead of the
\* targets, and the first default to compute.
\* Mutant: the first default that is wanted is passed over.
ScatterOneLastDefault(t, list, nrest, st) ==
  LET set(x) == [st.env EXCEPT ![t.id] = x]
      given == [st EXCEPT !.env = set(list[t.i + st.offset])]
  IN CASE t.i = t.rest ->
            [st EXCEPT !.env = set(ListV(SubSeq(list, t.i, t.i + nrest - 1))),
                       !.offset = @ + nrest - 1]
       [] t.i # t.rest /\ t.label = 0 -> given
       [] t.i # t.rest /\ t.label # 0 /\ st.avail > 0 -> [given EXCEPT !.avail = @ - 1]
       [] OTHER -> [st EXCEPT !.offset = @ - 1, !.where = IF t.label # 1 THEN t.label ELSE @]
ScatterOne(t, list, nrest, st) ==
  LET set(x) == [st.env EXCEPT ![t.id] = x]
      given == [st EXCEPT !.env = set(list[t.i + st.offset])]
  IN CASE t.i = t.rest ->
            [st EXCEPT !.env = set(ListV(SubSeq(list, t.i, t.i + nrest - 1))),
                       !.offset = @ + nrest - 1]
       [] t.i # t.rest /\ t.label = 0 -> given
       [] t.i # t.rest /\ t.label # 0 /\ st.avail > 0 -> [given EXCEPT !.avail = @ - 1]
       [] OTHER -> [st EXCEPT !.offset = @ - 1,
                              !.where = IF @ = 0 /\ t.label # 1 THEN t.label ELSE @]

RECURSIVE ScatterTo(_, _, _, _)
ScatterTo(targets, list, nrest, st) ==
  IF targets = <<>> THEN st
  ELSE ScatterTo(Tail(targets), list, nrest, ScatterOne(Head(targets), list, nrest, st))

DoScatter(v, m, args) ==
  LET bc == Bc(v)
      p == RunActiv(v).pc
      nargs == ByteAt(bc, p)
      nreq == ByteAt(bc, p + 1)
      rest == ByteAt(bc, p + 2)
      have_rest == rest <= nargs
      size == bc.numbytes["var"] + bc.numbytes["label"]
      at(i) == p + 3 + size * (i - 1)
      targets == [i \in 1..nargs |->
                    [i |-> i, id |-> Operand(bc, at(i), "var"), rest |-> rest,
                     label |-> Operand(bc, at(i) + bc.numbytes["var"], "label")]]
      done == Operand(bc, at(nargs + 1), "label")
      list == Nth(v, 1)
      len == Len(list.l)
      err == CASE list.t # "list" -> E_TYPE
               [] len < nreq \/ (~have_rest /\ len > nargs) -> E_ARGS
               [] OTHER -> E_NONE
      r == ScatterTo(targets, list.l, IF have_rest /\ len >= nargs THEN len - nargs + 1 ELSE 0,
                     [env |-> RunActiv(v).rt_env, avail |-> len - nreq, offset |-> 0, where |-> 0])
  IN IF err # E_NONE THEN RaiseOr(Drop(v, 1), err, JumpTo(Push(Drop(v, 1), ErrV(err)), done))
     ELSE JumpTo(SetActiv(v, [RunActiv(v) EXCEPT !.rt_env = r.env]),
                 IF r.where = 0 THEN done ELSE r.where)
ScatterStep == Executes({"SCATTER"}, DoScatter) /\ UNCHANGED Machine

-----------------------------------------------------------------------------
(* Handlers and exits *)

DoMarker(v, m, args) ==
  Push(v, CASE m = "PUSH_LABEL" -> IntV(args[1])
            [] m = "TRY_FINALLY" -> FinallyV(args[1])
            [] m = "CATCH" -> CatchV(1)
            [] m = "TRY_EXCEPT" -> CatchV(args[1]))
Marker == Executes({"PUSH_LABEL", "TRY_FINALLY", "CATCH", "TRY_EXCEPT"}, DoMarker) /\ UNCHANGED Machine

ServerPanic(v) == [v EXCEPT !.outcome = "panic"]

\* The value of a `try' expression is above the marker.
DoEndCatch(v, m, args) ==
  LET above == IF m = "END_CATCH" THEN 1 ELSE 0
      marker == Nth(v, 1 + above)
      v1 == Drop(v, above + 1 + 2 * marker.n)
      v2 == IF m = "END_CATCH" THEN Push(v1, Nth(v, 1)) ELSE v1
  IN IF marker.t # "catch" THEN ServerPanic(v)
     ELSE IF args[1] # 0 THEN JumpTo(v2, args[1]) ELSE v2
EndCatch == Executes({"END_CATCH", "END_EXCEPT"}, DoEndCatch) /\ UNCHANGED Machine

DoFinally(v, m, args) ==
  LET why == Nth(v, 2)
  IN CASE m = "END_FINALLY" /\ Nth(v, 1).t # "finally" -> ServerPanic(v)
       [] m = "END_FINALLY" /\ Nth(v, 1).t = "finally" ->
            Push(Push(Drop(v, 1), IntV(FIN_FALL_THRU)), Zero)
       [] m = "CONTINUE" /\ why = IntV(FIN_FALL_THRU) -> Drop(v, 2)
       [] m = "CONTINUE" /\ why.t = "int"
            /\ why.n \in {FIN_EXIT, FIN_RAISE, FIN_RETURN, FIN_UNCAUGHT} ->
            Unwind(Drop(v, 2), why.n, Nth(v, 1))
       [] OTHER -> ServerPanic(v)
FinallyStep == Executes({"END_FINALLY", "CONTINUE"}, DoFinally) /\ UNCHANGED Machine

DoExit(v, m, args) ==
  LET k == Len(args)
  IN Unwind(v, FIN_EXIT, ListV(<<IntV(args[k - 1]), IntV(args[k])>>))
LoopExit == Executes({"EXIT", "EXIT_ID"}, DoExit) /\ UNCHANGED Machine

\* The value is the result of the task if the frame was the last one and no `finally' held it
\* up: CONTINUE sets no result.
DoReturn(v, m, args) ==
  LET x == IF m = "RETURN" THEN Nth(v, 1) ELSE Zero
      v1 == Unwind(IF m = "RETURN" THEN Drop(v, 1) ELSE v, FIN_RETURN, x)
  IN IF v1.outcome = "done" THEN [v1 EXCEPT !.result = x] ELSE v1
ReturnStep == Executes({"RETURN", "RETURN0", "DONE"}, DoReturn) /\ UNCHANGED Machine

-----------------------------------------------------------------------------
(* The world outside *)

Replies == {Ok(x) : x \in Answers} \cup {Fail(e) : e \in Errors}

\* The instruction has an answer r from outside, if it comes to ask.
Consults(names, Asks(_, _), Do(_, _, _, _)) ==
  /\ Running
  /\ Instruction \in names
  /\ \E f \in {Fetch}, r \in Replies :
       /\ ~OutOfTicks(f)
       /\ IF Asks(f.vm, f.args) THEN Len(oracle) < MAX_ANSWERS /\ oracle' = Append(oracle, r)
                                ELSE UNCHANGED oracle
       /\ vm' = Do(f.vm, f.m, f.args, r)
  /\ UNCHANGED <<world, code, task, main_oracle, restarts>>

\* Only a function can look at the call stack.
Outside(v, what, x) == Seen(v, Event(what, 0, 0, x, <<>>))

Valid(obj) == obj = ObjV(0)
PropCheck(obj, name) ==
  CASE name.t # "str" \/ obj.t # "obj" -> E_TYPE
    [] name.t = "str" /\ obj.t = "obj" /\ ~Valid(obj) -> E_INVIND
    [] OTHER -> E_NONE

\* GET_PROP takes its operands from the stack, PUSH_GET_PROP leaves them there.
DoGetProp(v, m, args, r) ==
  LET name == Nth(v, 1)
      err == PropCheck(Nth(v, 2), name)
      v1 == IF m = "GET_PROP" THEN Drop(v, 2) ELSE v
  IN PushResult(IF err = E_NONE THEN Outside(v1, "get", name) ELSE v1,
                IF err = E_NONE THEN r ELSE Fail(err))
GetProp ==
  Consults({"GET_PROP", "PUSH_GET_PROP"},
           LAMBDA v, args : PropCheck(Nth(v, 2), Nth(v, 1)) = E_NONE, DoGetProp)

DoPutProp(v, m, args, r) ==
  LET name == Nth(v, 2)
      check == PropCheck(Nth(v, 3), name)
      err == IF check = E_NONE THEN r.err ELSE check
      v1 == Drop(v, 3)
  IN IF err # E_NONE THEN PushError(v1, err)
     ELSE Push(Outside(v1, "put", ListV(<<name, Nth(v, 1)>>)), Nth(v, 1))
PutProp ==
  Consults({"PUT_PROP"}, LAMBDA v, args : PropCheck(Nth(v, 3), Nth(v, 2)) = E_NONE, DoPutProp)

\* A verb that is called finds its arguments in slot 0.
DoCallVerb(v, m, args) ==
  LET call_args == Nth(v, 1)
      verb == Nth(v, 2)
      obj == Nth(v, 3)
      v1 == Drop(v, 3)
      c == CASE call_args.t # "list" \/ verb.t # "str" \/ obj.t # "obj" -> [err |-> E_TYPE, vm |-> v1]
             [] obj.t = "obj" /\ ~Valid(obj) -> [err |-> E_INVIND, vm |-> v1]
             [] OTHER -> CallVerb2(v1, Len(verb.l), call_args)
  IN IF c.err = E_NONE THEN c.vm ELSE PushError(v1, c.err)
CallVerb == Executes({"CALL_VERB"}, DoCallVerb) /\ UNCHANGED Machine

\* BI_FUNC_CALL: the functions that need nothing from outside, and the arguments of the others
BadArgs(f, x) ==
  CASE Len(x.l) # 1 -> E_ARGS
    [] f = SUSPEND /\ x.l[1].t # "int" -> E_TYPE
    [] f = SUSPEND /\ x.l[1].n < 0 -> E_INVARG
    [] OTHER -> E_NONE

FirstCall(v, f, x, r) ==                 \* v: without the arguments x
  CASE x.t # "list" -> ErrorPack(v, E_TYPE)
    [] x.t = "list" /\ f \notin {EXT, SUSPEND} -> CallBiFunc(v, f, 1, x)
    [] x.t = "list" /\ f \in {EXT, SUSPEND} /\ BadArgs(f, x) # E_NONE -> ErrorPack(v, BadArgs(f, x))
    [] OTHER ->
         LET v1 == Seen(v, Event("call", f, 0, x, MakeStackList(v, 1).l))
         IN IF r.err = E_NONE THEN Package("return", v1, r.v, 0) ELSE ErrorPack(v1, r.err)
CallFunction(p, f) ==
  IF p.kind = "kill" THEN Unwind(p.vm, FIN_ABORT, Zero) ELSE Continue(p, f)
DoFunction(v, m, args, r) ==
  CallFunction(FirstCall(Drop(v, 1), args[1], Nth(v, 1), r), args[1])

\* The functions that need something from outside
Calls(f, v, args) == args[1] = f /\ Nth(v, 1).t = "list" /\ BadArgs(f, Nth(v, 1)) = E_NONE
Suspending == \E f \in {Fetch} : Calls(SUSPEND, f.vm, f.args)

BiFuncCall ==
  /\ Consults({"BI_FUNC_CALL"}, LAMBDA v, args : Calls(EXT, v, args), DoFunction)
  /\ ~Suspending

\* The answer to suspend() is given when the task goes on; a refusal is one.
Suspend ==
  /\ Executes({"BI_FUNC_CALL"},
              LAMBDA v, m, args : [Drop(v, 1) EXCEPT !.outcome = "blocked"])
  /\ Suspending
  /\ UNCHANGED Machine
SuspendRefused ==
  /\ Executes({"BI_FUNC_CALL"}, LAMBDA v, m, args : PushError(Drop(v, 1), E_QUOTA))
  /\ Suspending
  /\ Len(oracle) < MAX_ANSWERS
  /\ oracle' = Append(oracle, Fail(E_QUOTA))
  /\ UNCHANGED <<world, code, task, main_oracle, restarts>>

\* resume_from_previous_vm(), and run() with an error to raise
Resume ==
  /\ vm.outcome = "blocked"
  /\ Len(oracle) < MAX_ANSWERS
  /\ \E r \in Replies :
       LET a == RunActiv(vm)
           v == [vm EXCEPT !.outcome = "running", !.ticks = TICKS, !.handler = NoHandler]
       IN /\ oracle' = Append(oracle, r)
          /\ vm' = PushResult(IF r.err = E_NONE THEN v ELSE SetActiv(v, [a EXCEPT !.error_pc = a.pc]), r)
  /\ UNCHANGED <<world, code, task, main_oracle, restarts>>

\* FORK: the task's number is in its variable before the environment is copied.
DoFork(v, m, args, r) ==
  LET time == Nth(v, 1)
      v1 == Drop(v, 1)
      v2 == IF m = "FORK" THEN v1 ELSE SetVar(v1, args[2], IntV(1))
      a == RunActiv(v2)
      v3 == [Outside(v2, "fork", time) EXCEPT
               !.forked = Append(@, [prog |-> a.prog, verb |-> a.verb, debug |-> a.debug, env |-> a.rt_env,
                                     f_index |-> args[1]])]
      err == CASE time.t # "int" -> E_TYPE
               [] time.t = "int" /\ time.n < 0 -> E_INVARG
               [] OTHER -> IF r.err # E_NONE THEN E_QUOTA ELSE E_NONE
  IN IF err = E_NONE THEN v3 ELSE RaiseOr(v1, err, v1)
ForkStep ==
  Consults({"FORK", "FORK_WITH_ID"},
           LAMBDA v, args : Nth(v, 1).t = "int" /\ Nth(v, 1).n >= 0, DoFork)

\* The ticks are used up or, as task_timeout() noted at any moment, the seconds: an op that
\* counts a tick notices it.
Timeout ==
  /\ Running
  /\ \E f \in {Fetch}, why \in {"ticks", "seconds"} :
       /\ f.counted
       /\ (why = "ticks") = (f.vm.ticks <= 0)
       /\ vm' = AbortTask(f.vm, why)
  /\ UNCHANGED Machine

-----------------------------------------------------------------------------
(* Tasks *)

\* do_task(): root is the vector the first activation runs.
NewVm(a, root, forked) ==
  [activ_stack |-> <<a>>, root_activ_vector |-> root, outcome |-> "running", result |-> NoneV,
   ticks |-> TICKS, handler |-> NoHandler, seen |-> <<>>, forked |-> forked]

Stopped == vm.outcome \in {"done", "aborted"}

\* do_forked_task(), once the first task is out of the way: they share nothing.
RunForked ==
  /\ Stopped
  /\ task = 0
  /\ \E k \in DOMAIN vm.forked :
       LET ft == vm.forked[k]
       IN /\ vm' = NewVm(Activation(ft.prog, ft.verb, ft.debug, ft.env), ft.f_index, <<>>)
          /\ task' = k
  /\ main_oracle' = oracle
  /\ oracle' = <<>>
  /\ UNCHANGED <<world, code, restarts>>

\* The server is stopped and started: programs are written as text and parsed again.  A forked
\* task is from then on a program of its own, which starts at the line it had.
Source(prog, vec, debug) ==
  [bytes |-> code[prog].bytes, vec |-> vec, debug |-> debug,
   line |-> IF vec = MAIN_VECTOR THEN 1 ELSE LineAt(code[prog].bytes, vec, 0, code[prog].first_lineno)]
Recompile(source) ==
  Compile(DecompileProgram(source.bytes, source.vec).stmts, source.debug, source.line)

\* Mutant: only verbs are called.
CheckPcAfterVerb(bc, pc) ==
  /\ pc < bc.size
  /\ ByteAt(bc, pc - 1) = Op("CALL_VERB")
\* read_activ(): the activation must be at a call.
CheckPcValidity(bc, pc) ==
  /\ pc < bc.size
  /\ ByteAt(bc, pc - 1) = Op("CALL_VERB") \/ ByteAt(bc, pc - 2) = Op("BI_FUNC_CALL")

\* sources: those of the programs that were there, and of those that forked tasks get
RestartFrom(sources) ==
  /\ code' = [i \in DOMAIN sources |-> Recompile(sources[i])]
  /\ vm' = [vm EXCEPT
              !.forked = [k \in DOMAIN @ |-> [@[k] EXCEPT !.prog = Len(code) + k, !.f_index = MAIN_VECTOR]],
              !.outcome = IF \A i \in DOMAIN vm.activ_stack :
                               LET a == vm.activ_stack[i]
                               IN CheckPcValidity(BytecodesOf(code'[a.prog].bytes, VectorOf(vm, i)), a.pc)
                          THEN @ ELSE "lost"]
Restart ==
  /\ restarts < MAX_RESTARTS
  /\ vm.outcome = "blocked" \/ Stopped
  /\ restarts' = restarts + 1
  /\ LET main(i) == [prog |-> i, f_index |-> MAIN_VECTOR, debug |-> code[i].debug]
         all == [i \in DOMAIN code |-> main(i)] \o vm.forked
     IN RestartFrom([i \in DOMAIN all |-> Source(all[i].prog, all[i].f_index, all[i].debug)])
  /\ UNCHANGED <<world, oracle, task, main_oracle>>

-----------------------------------------------------------------------------
Init ==
  /\ world \in Worlds
  /\ code = [i \in DOMAIN world |-> Compile(world[i].stmts, world[i].debug, 1)]
  /\ vm = NewVm(Activation(1, 1, world[1].debug, NewEnv(ListV(<<>>))), MAIN_VECTOR, <<>>)
  /\ oracle = <<>>
  /\ task = 0
  /\ main_oracle = <<>>
  /\ restarts = 0

Control == Test \/ Jump \/ AndOr \/ ForListStep \/ ForRangeStep \/ LoopExit \/ ReturnStep
Data == Constant \/ StackStep \/ Operator \/ Indexing \/ RangeAssign \/ Variable \/ ScatterStep
Handling == Marker \/ EndCatch \/ FinallyStep
Calling == GetProp \/ PutProp \/ CallVerb \/ BiFuncCall \/ ForkStep
Stopping == Suspend \/ SuspendRefused \/ Timeout

Instructions == Control \/ Data \/ Handling \/ Calling \/ Stopping
Next == Instructions \/ Resume \/ RunForked \/ Restart

Spec == Init /\ [][Next]_vars /\ WF_vars(Instructions)

\* The same, with ENABLED spelt out, which TLC is slow to evaluate: an instruction can be
\* executed unless it asks for one answer too many.
Going == Running /\ Len(oracle) < MAX_ANSWERS
PlainSpec == Init /\ [][Next]_vars /\ ([]<>~Going \/ []<><<Instructions>>_vars)
=============================================================================
