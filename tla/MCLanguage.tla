------------------------------- MODULE MCLanguage -------------------------------
(* Programs for Language: the task first, then the verbs it may call. *)
EXTENDS Language, ListChecks

N(n) == NumLit(n)
E(e) == Literal("err", e)
Str(n) == Literal("str", n)
System == Literal("obj", 0)
Ext(e) == Call(EXT, <<Arg(e)>>)
Say(n) == Expr(Ext(N(n)))
Tell(slot) == Expr(Ext(Id(slot)))
Set(slot, e) == Expr(Assign(Id(slot), e))
Do(f, n) == Call(f, <<Arg(N(n))>>)
DoErr(e) == Expr(Call(RAISE, <<Arg(E(e))>>))
ListOf(es) == List([i \in DOMAIN es |-> Arg(es[i])])
CallVerbN(n) == Verb(System, Str(n), <<>>)
PropOf(n) == Binary("PROP", System, Str(n))
At_(base, i) == Binary("INDEX", base, i)
OnPerm == Codes(<<Arg(E(E_PERM))>>)

Prog(stmts) == [stmts |-> stmts, debug |-> TRUE]
Plain(stmts) == [stmts |-> stmts, debug |-> FALSE]
Alone(stmts) == << Prog(stmts) >>

\* Ways to leave a body: in a loop, below an `except' for E_PERM and a `finally'
Bodies ==
  { Say(1), Return(<<N(7)>>), Exit("BREAK", NONE), Exit("CONTINUE", 1), DoErr(E_DIV),
    Expr(CallVerbN(2)), Expr(Do(EVAL, 2)), Expr(Do(CALLS, 2)), Expr(Do(PASS, 3)), Expr(Do(KILL, 1)) }
Ends == { Say(3), Return(<<N(8)>>), Exit("BREAK", 1), DoErr(E_PERM) }

Verbs == << Prog(<< TryFinally(<< Return(<<Ext(N(9))>>) >>, << Say(10) >>) >>),
            Plain(<< Expr(Binary("DIVIDE", N(1), N(0))),
                     Return(<<Catch(Do(RAISE, 5), ANY, <<>>)>>) >>) >>

Nested ==
  { << Prog(<< ForList(1, ListOf(<<N(1), N(2)>>),
                 << TryFinally(<< TryExcept(<< body >>,
                                            << Except(2, OnPerm, << Tell(2) >>) >>) >>,
                               << end >>) >>) >>) >> \o Verbs
    : body \in Bodies, end \in Ends }

\* Loops within loops, left by name and without, with values of theirs on the stack
Exits == {Exit(kind, id) : kind \in {"BREAK", "CONTINUE"}, id \in {NONE, 1, 2, 3}}
Loops ==
  { Alone(<< Set(1, N(3)),
             While(3, Binary("GT", Id(1), N(0)),
               << Set(1, Binary("MINUS", Id(1), N(1))),
                  ForRange(2, Id(1), N(1),
                    << If(<< Arm(Binary("EQ", Id(2), N(1)), << exit >>) >>, << Say(5) >>),
                       Expr(N(0)) >>),
                  ForList(1, ListOf(<<Id(1)>>), << Expr(Id(1)) >>),
                  If(<< Arm(Binary("EQ", Id(1), N(1)), << Tell(1) >>),
                        Arm(Id(1), << Exit("CONTINUE", NONE) >>) >>, <<>>) >>),
             Return(<<Id(1)>>) >>)
    : exit \in {e \in Exits : e.n # 1} }
  \cup
  { Alone(<< ForList(1, ListOf(<<N(1), N(2)>>),
               << ForRange(2, Literal("obj", 3), Literal("obj", 4),
                    << TryExcept(<< exit >>, << Except(NONE, ANY, <<>>) >>) >>),
                  Tell(1) >>),
             Tell(2) >>)
    : exit \in {e \in Exits : e.n # 3} }
  \cup
  { Alone(<< Set(1, N(1)), While(NONE, test, << TryFinally(<< Expr(Id(1)) >>, <<>>) >>) >>) :
    test \in {N(1), Binary("NE", Id(1), N(2))} }

\* Two statements around another
Around(kind, stmt) ==
  CASE kind = "if" -> If(<< Arm(Id(4), << Say(1) >>), Arm(N(1), << stmt >>) >>, << Say(2) >>)
    [] kind = "else" -> If(<< Arm(N(0), <<>>) >>, << stmt, Expr(N(300)) >>)
    [] kind = "while" -> While(4, Binary("LT", Id(3), N(1)), << Set(3, N(1)), stmt >>)
    [] kind = "except" -> TryExcept(<< Expr(Id(4)), stmt >>,
                                    << Except(3, Codes(<<Arg(E(E_VARNF)), Arg(E(E_DIV))>>), << stmt, Tell(3) >>) >>)
    [] kind = "guard" -> TryExcept(<< DoErr(E_PERM) >>,
                                   << Except(NONE, OnPerm, << stmt >>), Except(3, ANY, << Return(<<>>) >>) >>)
    [] kind = "finally" -> TryFinally(<< stmt >>, << Expr(Id(3)) >>)
    [] kind = "handler" -> TryFinally(<< DoErr(E_DIV) >>, << stmt >>)
Around_ == {"if", "else", "while", "except", "guard", "finally", "handler"}
Leaves == { Exit("CONTINUE", 1), Exit("BREAK", NONE), Return(<<N(300)>>), Expr(Binary("PLUS", Id(3), N(1))),
            Expr(Assign(Scatter(<<Target("OPTIONAL", 3, <<Id(4)>>), Target("REST", 2, <<>>)>>), List(<<>>))) }
Combined ==
  { Alone(<< Set(3, N(0)),
             ForList(1, ListOf(<<N(1), N(2)>>), << Around(outer, Around(inner, leaf)) >>),
             Return(<<ListOf(<<Id(1), Id(3)>>)>>) >>)
    : outer \in Around_, inner \in Around_, leaf \in Leaves }

\* Labels on either side of 256, where they get a second byte
Many(k, stmt) == [i \in 1..k |-> stmt]
Wide == Expr(Assign(Scatter([i \in 1..10 |-> Target("OPTIONAL", 3, <<>>)]), List(<<>>)))   \* 28 bytes
Long ==
  { Alone(<< ForRange(2, N(1), N(2),
               << If(<< Arm(Binary("EQ", Id(2), N(1)), Many(7, Wide) \o Many(k, Expr(Id(2)))) >>, << Exit("BREAK", NONE) >>) >>),
             Return(<<Catch(Id(4), ANY, <<Id(2)>>)>>) >>)
    : k \in 3..17 }

\* What a value can be computed from
Tries ==
  {Catch(e, codes, default) :
     e \in {Ext(N(1)), Id(4), At_(Id(1), N(3)), Do(CALLS, 2), Binary("PLUS", N(1), Do(RAISE, 2))},
     codes \in {OnPerm, ANY, Codes(<<Splice(Id(1))>>)},
     default \in {<<>>, <<Ext(N(2))>>}}
Catches ==
  { << Prog(<< Set(1, ListOf(<<E(E_RANGE), N(2)>>)),
               Return(<<List(<<Splice(Id(1)), Arg(try), Arg(Cond(try, N(1), Id(1)))>>)>>) >>) >> \o Verbs
    : try \in Tries }

\* Every shape of at most three targets, and lists of up to four
Shape(kinds) == [i \in DOMAIN kinds |->
                   CASE kinds[i] = "DEFAULT" -> Target("OPTIONAL", i, <<Ext(N(i))>>)
                     [] OTHER -> Target(kinds[i], i, <<>>)]
Kinds_ == {"REQUIRED", "OPTIONAL", "DEFAULT", "REST"}
Shapes == {s \in (Kinds_ \X Kinds_) \cup (Kinds_ \X Kinds_ \X Kinds_) : LegalTargets(Shape(s))}
Scatters ==
  { Alone(<< Set(3, N(9)),
             Set(0, Catch(Assign(Scatter(Shape(kinds)), ListOf([i \in 1..len |-> N(20 + i)])), ANY, <<>>)),
             Return(<<ListOf(<<Id(0), Catch(Id(1), ANY, <<>>), Catch(Id(2), ANY, <<>>), Id(3)>>)>>) >>)
    : kinds \in Shapes, len \in 0..4 }

\* Places: an index or a range of an index of a variable or a property, where $ is each time
\* the length of what is indexed
Indices_ == {Length, N(2), Binary("MINUS", Length, At_(Id(2), Length)), N(0)}
Bases == {Id(1), At_(Id(1), N(1)), At_(At_(Id(1), Length), Length)}
Assignments ==
  { Alone(<< Set(2, ListOf(<<N(0), N(1)>>)),
             Set(1, ListOf(<<ListOf(<<N(1), Str(2)>>), ListOf(<<Str(1), ListOf(<<Id(2), N(4), N(5)>>)>>)>>)),
             Set(2, Assign(place, value)),
             Return(<<ListOf(<<Id(1), Id(2)>>)>>) >>)
    : place \in { At_(b, i) : b \in Bases, i \in Indices_ } \cup { PropOf(2) },
      value \in { Str(1), Ext(N(1)) } }
  \cup
  { << Plain(<< Set(2, List(<<>>)), Set(1, Assign(place, Str(1))), Return(<<ListOf(<<Id(1), Id(2)>>)>>) >>) >>
    : place \in { At_(PropOf(2), i) : i \in Indices_ } }
  \cup
  { Alone(<< Set(2, ListOf(<<N(0), N(1)>>)),
             Set(1, ListOf(<<ListOf(<<N(1), Str(2)>>), ListOf(<<Str(1), ListOf(<<Id(2), N(4), N(5)>>)>>)>>)),
             Set(2, Assign(RangeOf(base, from, to), Binary("PLUS", Str(1), Str(1)))),
             Return(<<ListOf(<<Id(1), Id(2)>>)>>) >>)
    : base \in { At_(At_(Id(1), N(1)), Length), At_(Id(1), N(2)), Id(1) },
      from \in {N(0), Length, N(3)}, to \in {N(0), Length} }
  \cup
  { Alone(<< Set(1, Str(3)),
             Return(<<ListOf(<<Catch(e, ANY, <<>>), Id(1)>>)>>) >>)
    : e \in {RangeOf(Id(1), from, to) : from \in {N(0), N(2), Length}, to \in {N(1), Length, N(4)}}
            \cup {Assign(RangeOf(Id(1), N(4), Length), Str(2)), Assign(At_(Id(1), Length), Str(2)),
                  Binary("EXP", N(2), N(7)), Binary("EXP", N(0), N(-1)), Binary("MOD", N(-7), N(2)),
                  Binary("IN", N(1), Id(1)), Unary("NEGATE", Id(1)),
                  Unary("NOT", Binary("AND", Id(1), Binary("OR", N(0), Ext(N(1)))))} }

\* Tasks that stop on the way, in verbs of each kind, and lines of tracebacks after it
Waits == { Do(SUSPEND, 0), Do(EVAL, 2), Do(CALLS, 2), Do(PASS, 2), CallVerbN(2), Do(SUSPEND, -1) }
Sleepers == { Prog(<< Set(1, Do(SUSPEND, 0)), Return(<<Id(1)>>) >>),
              Plain(<< TryFinally(<< Set(1, Do(SUSPEND, 0)), DoErr(E_PERM) >>, << Say(2) >>),
                       Return(<<Catch(Ext(Id(1)), ANY, <<>>)>>) >>),
              Prog(<< Set(2, Str(3)),
                      If(<< Arm(N(0), <<>>), Arm(Do(SUSPEND, 0), << Say(4) >>) >>, << Return(<<Id(2)>>) >>) >>) }
Suspended ==
  { << Prog(<< ForList(1, ListOf(<<wait, N(300)>>),
                 << TryExcept(<< Expr(Binary("DIVIDE", Id(1), N(1))), Expr(wait) >>,
                              << Except(2, Codes(<<Arg(E(E_TYPE))>>), << Tell(2) >>),
                                 Except(2, OnPerm, << Tell(2), Expr(wait) >>) >>) >>),
               Return(<<wait>>) >>), verb >>
    : wait \in Waits, verb \in Sleepers }

\* Forked tasks: what they see, and where they are
Forked ==
  { << Prog(<< Set(1, N(1)),
               ForList(2, ListOf(<<N(5), N(6)>>),
                 << Fork(id, time, << Set(2, Ext(Id(2))), Expr(CallVerbN(2)), Return(<<Id(1)>>) >>),
                    Set(1, Id(1)) >>),
               Return(<<Id(1)>>) >>), verb >>
    : id \in {NONE, 1}, time \in {N(0), N(-1), Str(1)},
      verb \in {Prog(<< DoErr(E_PERM) >>), Plain(<< Fork(2, N(1), << Say(1) >>), Fork(NONE, Str(1), <<>>) >>)} }

\* What the code does not do as it says: the exceptions of the properties
FirstLoop ==
  { Alone(<< While(NONE, Binary("LT", k, N(3)), << Say(1) >>) >>) : k \in {Ext(N(2)), N(4)} }
NamedLoop == { Alone(<< Set(1, N(0)), While(1, N(1), <<>>) >>) }
FinalReturn == { Alone(<< TryFinally(<< Return(<<N(7)>>) >>, << Set(1, N(1)) >>) >>) }
RangeOfNumber == { Alone(<< Set(1, N(3)), Expr(Assign(RangeOf(Id(1), N(1), N(2)), Str(1))) >>) }
ElementOfProperty ==
  { Alone(<< Set(1, N(3)), Expr(Assign(At_(PropOf(2), N(1)), N(5))), Say(1), Say(2) >>) }

Exceptions == FirstLoop \cup NamedLoop \cup FinalReturn \cup RangeOfNumber \cup ElementOfProperty

MCWorlds == Nested \cup Loops \cup Long \cup Combined \cup Catches \cup Scatters \cup Assignments \cup Suspended
              \cup Forked \cup Exceptions
MCAnswers == {Zero, ListV(<<IntV(2), StrV(<<2, 2>>)>>)}
MCErrors == {E_PERM}
=============================================================================
