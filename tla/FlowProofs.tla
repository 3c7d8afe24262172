------------------------------ MODULE FlowProofs ------------------------------
(***************************************************************************)
(* Proofs about what flows through the queues.                             *)
(*                                                                         *)
(* Tasks: num_bg_tasks counts a player's tasks however they move between   *)
(* the waiting list and the queues, an idle queue has no input a task      *)
(* could take, and no task leaves the queues unless it runs or is killed   *)
(* by a task that controls it.                                             *)
(*                                                                         *)
(* Input: a connection and its queue agree on whether it is suspended, the *)
(* length of a queue is that of its lines, and a queue that is too full is *)
(* suspended until one of its lines is taken.                              *)
(***************************************************************************)
EXTENDS QueueProofs


-----------------------------------------------------------------------------
(* Queued tasks: the invariant of a state. *)

\* A queue is made for p.
Named(S, p) == \E q \in Queues : S.tq[q].player = p

\* The tasks of a list whose programmer is p
Count(w, p) == Cardinality({i \in 1..Len(w) : w[i].progr = p})

\* Every waiting task is counted on the queue of its programmer, every ready task is
\* on that queue, and every task has a programmer.
Counted(S) ==
  /\ \A t \in Elems(S.waiting) : t.progr \in Progrs /\ Named(S, t.progr)
  /\ \A q \in Queues : \A t \in Elems(S.tq[q].bg) :
       t.progr \in Progrs /\ t.progr = S.tq[q].player
  /\ \A q \in Queues :
       S.tq[q].num = Len(S.tq[q].bg) + Count(S.waiting, S.tq[q].player)
  /\ \A q \in Queues : S.tq[q].reader # NoTask => S.tq[q].reader.progr \in Progrs

\* An idle queue has nothing to run but what hold-input holds back, and no reader whose
\* connection is gone.
Rests(f) ==
  /\ f.input # <<>> => f.hold /\ f.reader = NoTask
  /\ f.reader # NoTask => f.connected

Awake(S) == \A q \in S.idle : Rests(S.tq[q])

\* Some queued task has this identifier.
Has(S, id) ==
  \/ \E t \in Elems(S.waiting) : t.id = id
  \/ \E q \in Queues : \E t \in Elems(S.tq[q].bg) : t.id = id
  \/ \E q \in Queues : S.tq[q].reader # NoTask /\ S.tq[q].reader.id = id

\* Only identifiers of D are lost.
Loses(S, T, D) == \A id \in Nat : Has(S, id) => Has(T, id) \/ id \in D

-----------------------------------------------------------------------------
(* Steps that move no task. *)

\* The queues and the waiting list hold the tasks they held.
Books(S, T) ==
  /\ T.waiting = S.waiting
  /\ \A q \in Queues : /\ T.tq[q].player = S.tq[q].player
                       /\ T.tq[q].bg = S.tq[q].bg
                       /\ T.tq[q].num = S.tq[q].num
                       /\ T.tq[q].reader = S.tq[q].reader

\* No queue goes idle, and none that is gets more to do.
Quiet(S, T) ==
  /\ T.idle \subseteq S.idle
  /\ \A q \in T.idle : /\ T.tq[q].input # <<>> => S.tq[q].input # <<>>
                       /\ T.tq[q].hold = S.tq[q].hold
                       /\ T.tq[q].connected = S.tq[q].connected

\* Several such steps in a row are one.
LEMMA BooksTrans ==
  ASSUME NEW S, NEW T, NEW U, Books(S, T), Books(T, U)
  PROVE  Books(S, U)
BY DEF Books

\* The count depends on nothing else,
LEMMA BooksCounted ==
  ASSUME NEW S, NEW T, Books(S, T), Counted(S)
  PROVE  Counted(T)
<1>1. \A p : Named(S, p) => Named(T, p)
  BY DEF Books, Named
<1> QED
  BY <1>1 DEF Books, Counted

\* nor do the tasks that are queued.
LEMMA BooksLoses ==
  ASSUME NEW S, NEW T, Books(S, T)
  PROVE  Loses(S, T, {})
BY DEF Books, Loses, Has

\* Likewise for the queues that rest.
LEMMA QuietAwake ==
  ASSUME NEW S \in Good, NEW T, Books(S, T), Quiet(S, T), Awake(S)
  PROVE  Awake(T)
<1>1. S.idle \subseteq Queues
  BY ListTypes
<1> QED
  BY <1>1 DEF Books, Quiet, Awake, Rests

\* What is lost in two steps
LEMMA LosesTrans ==
  ASSUME NEW S, NEW T, NEW U, NEW D, NEW E, Loses(S, T, D), Loses(T, U, E)
  PROVE  Loses(S, U, D \cup E)
BY DEF Loses

-----------------------------------------------------------------------------
(* Operators that move no task. *)

\* A change to the fields of one queue that no task depends on
LEMMA QueueBooks ==
  ASSUME NEW S \in Good, NEW T, NEW q \in Queues, NEW f, T.tq = [S.tq EXCEPT ![q] = f],
         T.waiting = S.waiting, f.player = S.tq[q].player, f.bg = S.tq[q].bg,
         f.num = S.tq[q].num, f.reader = S.tq[q].reader
  PROVE  Books(S, T)
<1>1. T.tq[q] = f /\ \A r \in Queues : r # q => T.tq[r] = S.tq[r]
  BY SMTT(40) DEF Good, States
<1> QED
  BY <1>1 DEF Books

\* server_suspend_input() and server_resume_input() change a handle and a flag.
LEMMA SuspendBooks ==
  ASSUME NEW S \in Good, NEW q \in Queues, NEW b \in BOOLEAN
  PROVE  LET T == [set_suspended(S, S.tq[q].player, b) EXCEPT !.tq[q].insusp = b]
         IN Books(S, T) /\ Quiet(S, T)
<1>1. PICK C : C = set_suspended(S, S.tq[q].player, b)
  OBVIOUS
<1>2. C \in Good
  BY <1>1, SetSuspendedType
<1>3. C.tq = S.tq /\ C.waiting = S.waiting /\ C.idle = S.idle
  BY <1>1 DEF set_suspended, Good, States
<1>4. PICK T : T = [C EXCEPT !.tq[q].insusp = b]
  OBVIOUS
<1>5. PICK f : f = [S.tq[q] EXCEPT !.insusp = b]
  OBVIOUS
<1>6. T.tq = [S.tq EXCEPT ![q] = f] /\ T.waiting = S.waiting /\ T.idle = S.idle
  BY <1>2, <1>3, <1>4, <1>5 DEF Good, States
<1>7. /\ f.player = S.tq[q].player /\ f.bg = S.tq[q].bg /\ f.num = S.tq[q].num
      /\ f.reader = S.tq[q].reader /\ f.input = S.tq[q].input /\ f.hold = S.tq[q].hold
      /\ f.connected = S.tq[q].connected
  BY <1>5 DEF Good, States, TQueues
<1>8. Books(S, T)
  BY <1>6, <1>7, QueueBooks
<1>9. T.tq[q] = f /\ \A r \in Queues : r # q => T.tq[r] = S.tq[r]
  BY <1>6 DEF Good, States
<1>10. Quiet(S, T)
  BY <1>6, <1>7, <1>9, ListTypes DEF Quiet
<1> QED
  BY <1>1, <1>4, <1>8, <1>10

LEMMA ResumeBelowBooks ==
  ASSUME NEW S \in Good, NEW q \in Queues
  PROVE  LET T == resume_below_lowat(S, q) IN Books(S, T) /\ Quiet(S, T)
<1>1. Books(S, S) /\ Quiet(S, S)
  BY DEF Books, Quiet
<1>2. Books(S, resume_input(S, q)) /\ Quiet(S, resume_input(S, q))
  BY SuspendBooks DEF resume_input
<1> QED
  BY <1>1, <1>2 DEF resume_below_lowat

\* Two quiet steps in a row
LEMMA QuietTrans ==
  ASSUME NEW S, NEW T, NEW U, Quiet(S, T), Quiet(T, U)
  PROVE  Quiet(S, U)
BY DEF Quiet

\* The lines of q are set, and nothing changes that a task depends on.
Fills(S, T, q, lines) ==
  /\ Books(S, T)
  /\ T.idle = S.idle /\ T.active = S.active
  /\ \A r \in Queues : T.tq[r].hold = S.tq[r].hold /\ T.tq[r].connected = S.tq[r].connected
  /\ \A r \in Queues : r # q => T.tq[r].input = S.tq[r].input
  /\ T.tq[q].input = lines

\* Lines are queued or taken.
LEMMA SetInputBooks ==
  ASSUME NEW S \in Good, NEW q \in Queues, NEW lines \in Seq(Lines), NEW n \in Int
  PROVE  Fills(S, [S EXCEPT !.tq[q].input = lines, !.tq[q].len = n], q, lines)
<1>1. PICK T : T = [S EXCEPT !.tq[q].input = lines, !.tq[q].len = n]
  OBVIOUS
<1>2. PICK f : f = [S.tq[q] EXCEPT !.input = lines, !.len = n]
  OBVIOUS
<1>3. /\ T.tq = [S.tq EXCEPT ![q] = f]
      /\ T.waiting = S.waiting /\ T.idle = S.idle /\ T.active = S.active
  BY <1>1, <1>2 DEF Good, States
<1>4. /\ f.player = S.tq[q].player /\ f.bg = S.tq[q].bg /\ f.num = S.tq[q].num
      /\ f.reader = S.tq[q].reader /\ f.input = lines /\ f.hold = S.tq[q].hold
      /\ f.connected = S.tq[q].connected
  BY <1>2 DEF Good, States, TQueues
<1>5. Books(S, T)
  BY <1>3, <1>4, QueueBooks
<1>6. T.tq[q] = f /\ \A r \in Queues : r # q => T.tq[r] = S.tq[r]
  BY <1>3 DEF Good, States
<1>7. Fills(S, T, q, lines)
  BY <1>3, <1>4, <1>5, <1>6 DEF Fills
<1> QED
  BY <1>1, <1>7

\* A step that moves no task and lets no queue rest on work
Frame(S, T) == Books(S, T) /\ (Awake(S) => Awake(T))

LEMMA FrameTrans ==
  ASSUME NEW S, NEW T, NEW U, Frame(S, T), Frame(T, U)
  PROVE  Frame(S, U)
BY BooksTrans DEF Frame

LEMMA QuietFrame ==
  ASSUME NEW S \in Good, NEW T, Books(S, T), Quiet(S, T)
  PROVE  Frame(S, T)
BY QuietAwake DEF Frame

LEMMA DequeueInputBooks ==
  ASSUME NEW S \in Good, NEW q \in Queues, S.tq[q].input # <<>>
  PROVE  Frame(S, dequeue_input_task(S, q))
<1>1. PICK lines \in Seq(Lines) : lines = Tail(S.tq[q].input)
  BY QueueType, HeadTailProperties
<1>2. PICK n \in Int : n = S.tq[q].len - Length(S.tq[q].input[1])
  BY LengthType DEF Good, States, TQueues
<1>3. PICK C : C = [S EXCEPT !.tq[q].input = lines, !.tq[q].len = n]
  OBVIOUS
<1>4. C \in Good
  BY <1>3, SetInputType
<1>5. Fills(S, C, q, lines)
  BY <1>3, SetInputBooks
<1>6. Books(S, C) /\ Quiet(S, C)
  BY <1>5, ListTypes DEF Fills, Quiet
<1>7. Frame(C, resume_below_lowat(C, q))
  BY <1>4, ResumeBelowBooks, QuietFrame
<1>8. dequeue_input_task(S, q) = resume_below_lowat(C, q)
  BY <1>1, <1>2, <1>3 DEF dequeue_input_task
<1> QED
  BY <1>6, <1>7, <1>8, QuietFrame, FrameTrans

LEMMA FlushInputBooks ==
  ASSUME NEW S \in Good, NEW q \in Queues
  PROVE  Frame(S, flush_input(S, q))
<1>1. PICK C : C = [S EXCEPT !.tq[q].input = <<>>, !.tq[q].len = 0]
  OBVIOUS
<1>2. <<>> \in Seq(Lines) /\ 0 \in Int
  OBVIOUS
<1>3. C \in Good
  BY <1>1, <1>2, SetInputType
<1>4. Fills(S, C, q, <<>>)
  BY <1>1, <1>2, SetInputBooks
<1>5. Books(S, C) /\ Quiet(S, C)
  BY <1>4, ListTypes DEF Fills, Quiet
<1>6. Frame(C, resume_below_lowat(C, q))
  BY <1>3, ResumeBelowBooks, QuietFrame
<1>7. flush_input(S, q) \in {S, resume_below_lowat(C, q)}
  BY <1>1 DEF flush_input
<1>8. Frame(S, S)
  BY DEF Frame, Books
<1> QED
  BY <1>5, <1>6, <1>7, <1>8, QuietFrame, FrameTrans

\* ensure_usage() wakes the queue that has more to do.
LEMMA EnsureUsageBooks ==
  ASSUME NEW S \in Good, NEW q \in Queues, Linked(S, {})
  PROVE  LET T == ensure_usage(S, q)
         IN /\ Books(S, T)
            /\ T.idle = S.idle \ {q}
            /\ \A r \in Queues : /\ T.tq[r].input = S.tq[r].input
                                 /\ T.tq[r].hold = S.tq[r].hold
                                 /\ T.tq[r].connected = S.tq[r].connected
<1>1. PICK T : T = ensure_usage(S, q)
  OBVIOUS
<1>2. CASE S.tq[q].usage # NO_USAGE
  <2>1. T = S /\ q \notin S.idle
    BY <1>1, <1>2 DEF ensure_usage, Linked
  <2> QED
    BY <1>1, <2>1 DEF Books
<1>3. CASE S.tq[q].usage = NO_USAGE
  <2>1. PICK u : u = IF S.active = <<>> THEN 0 ELSE S.tq[S.active[1]].usage
    OBVIOUS
  <2>2. PICK C : C = [S EXCEPT !.tq[q].usage = u, !.idle = @ \ {q}]
    OBVIOUS
  <2>3. PICK f : f = [S.tq[q] EXCEPT !.usage = u]
    OBVIOUS
  <2>4. C.tq = [S.tq EXCEPT ![q] = f] /\ C.waiting = S.waiting /\ C.idle = S.idle \ {q}
    BY <2>2, <2>3 DEF Good, States
  <2>5. /\ f.player = S.tq[q].player /\ f.bg = S.tq[q].bg /\ f.num = S.tq[q].num
        /\ f.reader = S.tq[q].reader /\ f.input = S.tq[q].input /\ f.hold = S.tq[q].hold
        /\ f.connected = S.tq[q].connected
    BY <2>3 DEF Good, States, TQueues
  <2>6. T = activate_tqueue(C, q)
    BY <1>1, <1>3, <2>1, <2>2 DEF ensure_usage
  <2>7. T.tq = C.tq /\ T.waiting = C.waiting /\ T.idle = C.idle
    BY <2>2, <2>6 DEF activate_tqueue, Good, States
  <2>8. Books(S, T)
    BY <2>4, <2>5, <2>7, QueueBooks
  <2>9. T.tq[q] = f /\ \A r \in Queues : r # q => T.tq[r] = S.tq[r]
    BY <2>4, <2>7 DEF Good, States
  <2> QED
    BY <1>1, <2>4, <2>5, <2>7, <2>8, <2>9
<1> QED
  BY <1>2, <1>3

\* Every idle queue rests, that is not about to be activated.
LEMMA EnsureUsageFrame ==
  ASSUME NEW S \in Good, NEW q \in Queues, Linked(S, {}),
         NEW R \in Good, Books(R, S), Awake(R) => \A r \in S.idle \ {q} : Rests(S.tq[r])
  PROVE  Frame(R, ensure_usage(S, q))
<1>1. PICK T : T = ensure_usage(S, q)
  OBVIOUS
<1>2. /\ Books(S, T)
      /\ T.idle = S.idle \ {q}
      /\ \A r \in Queues : /\ T.tq[r].input = S.tq[r].input
                           /\ T.tq[r].hold = S.tq[r].hold
                           /\ T.tq[r].connected = S.tq[r].connected
  BY <1>1, EnsureUsageBooks
<1>3. Awake(R) => Awake(T)
  BY <1>2, ListTypes DEF Awake, Rests, Books
<1> QED
  BY <1>1, <1>2, <1>3, BooksTrans DEF Frame

\* A line is queued: the queue is activated unless hold-input keeps it asleep.
LEMMA EnqueueInputBooks ==
  ASSUME NEW S, Sound(S), NEW q \in Live(S), NEW line \in Lines, NEW front \in BOOLEAN
  PROVE  Frame(S, enqueue_input_task(S, q, line, front))
<1>1. q \in Queues /\ S \in Good
  BY LiveType DEF Sound
<1>2. PICK lines \in Seq(Lines) :
        lines = IF front THEN <<line>> \o S.tq[q].input ELSE Append(S.tq[q].input, line)
  <2>1. (IF front THEN <<line>> \o S.tq[q].input ELSE Append(S.tq[q].input, line)) \in Seq(Lines)
    BY <1>1, QueueType
  <2> QED
    BY <2>1
<1>3. PICK n \in Int : n = S.tq[q].len + Length(line)
  BY <1>1, LengthType DEF Good, States, TQueues
<1>4. PICK C : C = [S EXCEPT !.tq[q].input = lines, !.tq[q].len = n]
  OBVIOUS
<1>5. C \in Good /\ Fills(S, C, q, lines)
  BY <1>1, <1>4, SetInputType, SetInputBooks
<1>6. Sound(C)
  BY <1>1, <1>4, <1>5, SetInputEdit, SoundEdit
<1>7. \A r \in C.idle : r # q /\ Awake(S) => Rests(C.tq[r])
  BY <1>5, ListTypes DEF Fills, Books, Awake, Rests
<1>8. PICK U : U = IF ~S.tq[q].hold \/ reading(S, q) THEN ensure_usage(C, q) ELSE C
  OBVIOUS
<1>9. U \in Good /\ Frame(S, U)
  <2>1. CASE ~S.tq[q].hold \/ reading(S, q)
    <3>1. U = ensure_usage(C, q)
      BY <1>8, <2>1
    <3>2. Frame(S, U)
      BY <1>1, <1>5, <1>6, <1>7, <3>1, EnsureUsageFrame DEF Fills, Sound
    <3> QED
      BY <1>1, <1>5, <3>1, <3>2, EnsureUsageType
  <2>2. CASE S.tq[q].hold /\ ~reading(S, q)
    <3>1. Rests(C.tq[q])
      BY <1>1, <1>5, <2>2 DEF Fills, Books, Rests, reading
    <3>2. Awake(S) => Awake(C)
      BY <1>7, <3>1 DEF Awake
    <3> QED
      BY <1>5, <1>8, <2>2, <3>2 DEF Frame, Fills
  <2> QED
    BY <2>1, <2>2
<1>10. Frame(U, suspend_input(U, q))
  BY <1>1, <1>9, SuspendBooks, QuietFrame DEF suspend_input
<1>11. enqueue_input_task(S, q, line, front) \in {U, suspend_input(U, q)}
  BY <1>2, <1>3, <1>4, <1>8 DEF enqueue_input_task
<1> QED
  BY <1>9, <1>10, <1>11, FrameTrans

\* To do nothing is to move no task.
LEMMA NoFrame ==
  ASSUME NEW S
  PROVE  Frame(S, S)
BY DEF Frame, Books

LEMMA TaskSuspendBooks ==
  ASSUME NEW S \in Good, NEW q \in Queues
  PROVE  Frame(S, task_suspend_input(S, q))
<1>1. Frame(S, suspend_input(S, q))
  BY SuspendBooks, QuietFrame DEF suspend_input
<1> QED
  BY <1>1, NoFrame DEF task_suspend_input

\* A queue that is let go of is activated when lines wait.
LEMMA SetHoldBooks ==
  ASSUME NEW S, Sound(S), NEW q \in Live(S), NEW hold \in BOOLEAN
  PROVE  Frame(S, set_hold_input(S, q, hold))
<1>1. q \in Queues /\ S \in Good
  BY LiveType DEF Sound
<1>2. PICK C : C = [S EXCEPT !.tq[q].hold = hold]
  OBVIOUS
<1>3. PICK f : f = [S.tq[q] EXCEPT !.hold = hold]
  OBVIOUS
<1>4. C \in Good
  BY <1>1, <1>2, SetFlagType
<1>5. /\ C.tq = [S.tq EXCEPT ![q] = f] /\ C.waiting = S.waiting
      /\ C.idle = S.idle /\ C.active = S.active
  BY <1>1, <1>2, <1>3 DEF Good, States
<1>6. /\ f.player = S.tq[q].player /\ f.bg = S.tq[q].bg /\ f.num = S.tq[q].num
      /\ f.reader = S.tq[q].reader /\ f.input = S.tq[q].input /\ f.hold = hold
      /\ f.connected = S.tq[q].connected /\ f.usage = S.tq[q].usage
  BY <1>1, <1>3 DEF Good, States, TQueues
<1>7. Books(S, C)
  BY <1>1, <1>5, <1>6, QueueBooks
<1>8. C.tq[q] = f /\ \A r \in Queues : r # q => C.tq[r] = S.tq[r]
  BY <1>1, <1>5 DEF Good, States
<1>9. Linked(C, {})
  <2>1. Lists(S, C)
    BY <1>1, <1>5, <1>6, <1>8 DEF Lists
  <2> QED
    BY <1>1, <1>4, <2>1, ListsLinked DEF Sound
<1>10. \A r \in C.idle : r # q /\ Awake(S) => Rests(C.tq[r])
  BY <1>1, <1>5, <1>8, ListTypes DEF Awake
<1>11. PICK T : T = set_hold_input(S, q, hold)
  OBVIOUS
<1>12. CASE ~hold /\ S.tq[q].input # <<>>
  <2>1. T = ensure_usage(C, q)
    BY <1>2, <1>11, <1>12 DEF set_hold_input
  <2> QED
    BY <1>1, <1>4, <1>7, <1>9, <1>10, <1>11, <2>1, EnsureUsageFrame
<1>13. CASE hold \/ S.tq[q].input = <<>>
  <2>1. T = C
    BY <1>2, <1>11, <1>13 DEF set_hold_input
  <2>2. Rests(S.tq[q]) => Rests(C.tq[q])
    BY <1>6, <1>8, <1>13 DEF Rests
  <2>3. Awake(S) => Awake(C)
    BY <1>5, <1>10, <2>2 DEF Awake
  <2> QED
    BY <1>7, <1>11, <2>1, <2>3 DEF Frame
<1> QED
  BY <1>12, <1>13

\* A connection is gone: the queue of its reader is activated.
LEMMA FreeTaskQueueBooks ==
  ASSUME NEW S \in Good, NEW q \in Queues, Linked(S, {})
  PROVE  Frame(S, free_task_queue(S, q))
<1>1. PICK C : C = [S EXCEPT !.tq[q].connected = FALSE]
  OBVIOUS
<1>2. PICK f : f = [S.tq[q] EXCEPT !.connected = FALSE]
  OBVIOUS
<1>3. C \in Good
  BY <1>1, SetFlagType
<1>4. /\ C.tq = [S.tq EXCEPT ![q] = f] /\ C.waiting = S.waiting
      /\ C.idle = S.idle /\ C.active = S.active
  BY <1>1, <1>2 DEF Good, States
<1>5. /\ f.player = S.tq[q].player /\ f.bg = S.tq[q].bg /\ f.num = S.tq[q].num
      /\ f.reader = S.tq[q].reader /\ f.input = S.tq[q].input /\ f.hold = S.tq[q].hold
      /\ f.connected = FALSE /\ f.usage = S.tq[q].usage
  BY <1>2 DEF Good, States, TQueues
<1>6. Books(S, C)
  BY <1>4, <1>5, QueueBooks
<1>7. C.tq[q] = f /\ \A r \in Queues : r # q => C.tq[r] = S.tq[r]
  BY <1>4 DEF Good, States
<1>8. \A r \in C.idle : r # q /\ Awake(S) => Rests(C.tq[r])
  BY <1>4, <1>7, ListTypes DEF Awake
<1>9. PICK T : T = free_task_queue(S, q)
  OBVIOUS
<1>10. CASE reading(S, q)
  <2>1. T = ensure_usage(C, q)
    BY <1>1, <1>9, <1>10 DEF free_task_queue
  <2>2. \A r \in Queues : C.tq[r].usage = S.tq[r].usage
    BY <1>5, <1>7
  <2>3. q \in Live(S)
    BY <1>10, NewTypes DEF Linked, reading, NewTQueue
  <2>4. Lists(S, C)
    BY <1>4, <1>7, <2>2, <2>3 DEF Lists
  <2>5. Linked(C, {})
    BY <1>3, <2>4, ListsLinked
  <2> QED
    BY <1>3, <1>6, <1>8, <1>9, <2>1, <2>5, EnsureUsageFrame
<1>11. CASE ~reading(S, q)
  <2>1. T = C
    BY <1>1, <1>9, <1>11 DEF free_task_queue
  <2>2. Rests(S.tq[q]) => Rests(C.tq[q])
    BY <1>5, <1>7, <1>11 DEF Rests, reading
  <2>3. Awake(S) => Awake(C)
    BY <1>4, <1>8, <2>2 DEF Awake
  <2> QED
    BY <1>6, <1>9, <2>1, <2>3 DEF Frame
<1> QED
  BY <1>10, <1>11

LEMMA FreeShandleBooks ==
  ASSUME NEW S \in Good, Linked(S, {}), NEW h \in Handles, S.sh[h].open
  PROVE  Frame(S, free_shandle(S, h))
<1>1. PICK C : C = [S EXCEPT !.sh[h] = NoHandle]
  OBVIOUS
<1>2. NoHandle \in SHandles /\ ~NoHandle.open
  BY NewTypes DEF NoHandle, SHandles
<1>3. C \in Good
  BY <1>1, <1>2 DEF Good, States
<1>4. /\ C.idle = S.idle /\ C.active = S.active /\ C.tq = S.tq /\ C.waiting = S.waiting
  BY <1>1, <1>2 DEF Good, States
<1>5. Linked(C, {})
  BY <1>3, <1>4, ListsLinked DEF Lists
<1>6. PICK q \in Queues : q = S.sh[h].tasks
  BY DEF Good
<1>7. free_shandle(S, h) = free_task_queue(C, q)
  BY <1>1, <1>6 DEF free_shandle
<1>8. Frame(S, C)
  BY <1>4 DEF Frame, Books, Awake
<1> QED
  BY <1>3, <1>5, <1>7, <1>8, FreeTaskQueueBooks, FrameTrans

-----------------------------------------------------------------------------
(* Lists with a task more or less. *)

\* The tasks of one programmer in a list that has one task more
LEMMA CountInserted ==
  ASSUME NEW w \in Seq(Tasks), NEW k \in 0..Len(w), NEW t, NEW r, Inserted(r, w, k, t),
         NEW p
  PROVE  /\ Count(w, p) \in Nat
         /\ Count(r, p) = Count(w, p) + (IF t.progr = p THEN 1 ELSE 0)
<1> DEFINE n == Len(w)
           A == {i \in 1..n : w[i].progr = p}
           R == {i \in 1..n + 1 : r[i].progr = p}
           B == R \ {k + 1}
           f == [i \in A |-> IF i <= k THEN i ELSE i + 1]
<1>1. n \in Nat /\ k \in Nat /\ k <= n
  OBVIOUS
<1>2. Count(w, p) = Cardinality(A)
  BY DEF Count
<1>3. Count(r, p) = Cardinality(R)
  <2>1. Len(r) = n + 1
    BY DEF Inserted
  <2> QED
    BY <2>1 DEF Count
<1>4. \A i \in 1..n + 1 : r[i] = IF i <= k THEN w[i] ELSE IF i = k + 1 THEN t ELSE w[i - 1]
  BY DEF Inserted
<1>5. IsFiniteSet(A) /\ Cardinality(A) \in Nat
  <2>1. IsFiniteSet(1..n)
    BY <1>1, FS_Interval
  <2>2. A \in SUBSET (1..n)
    OBVIOUS
  <2>3. IsFiniteSet(A)
    BY <2>1, <2>2, FS_Subset
  <2> QED
    BY <2>3, FS_CardinalityType
<1> HIDE DEF n
<1>6. f \in Bijection(A, B)
  <2>1. \A i \in A : f[i] \in B
    BY <1>1, <1>4, SMTT(40)
  <2>2. \A i, j \in A : f[i] = f[j] => i = j
    BY <1>1
  <2>3. \A j \in B : \E i \in A : f[i] = j
    <3> SUFFICES ASSUME NEW j \in B
                 PROVE  \E i \in A : f[i] = j
      OBVIOUS
    <3>0. j \in 1..n + 1 /\ j # k + 1
      OBVIOUS
    <3>1. CASE j <= k
      <4>1. j \in A /\ f[j] = j
        BY <1>1, <1>4, <3>1
      <4> QED
        BY <4>1
    <3>2. CASE j > k
      <4>1. PICK m \in 1..n : m = j - 1 /\ j = m + 1 /\ ~(m <= k) /\ j \in 1..n + 1
        BY <1>1, <3>2
      <4>2. r[j] = w[m] /\ r[j].progr = p
        BY <1>1, <1>4, <3>2, <4>1
      <4>3. m \in A /\ f[m] = j
        BY <4>1, <4>2
      <4> QED
        BY <4>3
    <3>3. j <= k \/ j > k
      BY <1>1, <3>0
    <3> QED
      BY <3>1, <3>2, <3>3
  <2>4. f \in [A -> B]
    BY <2>1
  <2> QED
    BY <2>2, <2>3, <2>4 DEF Bijection, Injection, Surjection, IsInjective
<1>7. IsFiniteSet(B) /\ Cardinality(B) = Cardinality(A)
  <2>1. ExistsBijection(A, B)
    BY <1>6 DEF ExistsBijection
  <2> QED
    BY <1>5, <2>1, FS_Bijection
<1>8. r[k + 1] = t /\ k + 1 \in 1..n + 1
  BY <1>1, <1>4
<1>9. CASE t.progr = p
  <2>1. R = B \cup {k + 1}
    BY <1>8, <1>9
  <2>2. Cardinality(R) = Cardinality(B) + 1
    BY <1>7, <2>1, FS_AddElement
  <2> QED
    BY <1>2, <1>3, <1>5, <1>7, <1>9, <2>2
<1>10. CASE t.progr # p
  <2>1. k + 1 \notin R
    BY <1>8, <1>10
  <2>2. R \subseteq B /\ B \subseteq R
    BY <2>1
  <2> HIDE DEF R, B
  <2>3. R = B
    BY <2>2
  <2> QED
    BY <1>2, <1>3, <1>5, <1>7, <1>10, <2>3
<1> QED
  BY <1>9, <1>10

\* A task taken out of a list could be put back.
LEMMA RemoveInserted ==
  ASSUME NEW w \in Seq(Tasks), NEW i \in 1..Len(w)
  PROVE  /\ RemoveIndex(w, i) \in Seq(Tasks)
         /\ i - 1 \in 0..Len(RemoveIndex(w, i))
         /\ Inserted(w, RemoveIndex(w, i), i - 1, w[i])
<1>1. RemoveIndex(w, i) \in Seq(Tasks) /\ Len(w) \in Nat
  BY RemoveIndexType
<1>2. PICK a : a = SubSeq(w, 1, i - 1)
  OBVIOUS
<1>3. PICK b : b = SubSeq(w, i + 1, Len(w))
  OBVIOUS
<1>4. \A j \in 1..Len(w) : w[j] \in Tasks
  BY ElementOfSeq
<1>5. a \in Seq(Tasks) /\ Len(a) = i - 1 /\ \A j \in 1..i - 1 : a[j] = w[j]
  BY <1>1, <1>2, <1>4, SubSeqProperties
<1>6. /\ b \in Seq(Tasks) /\ Len(b) = Len(w) - i
      /\ \A j \in 1..Len(w) - i : b[j] = w[i + j]
  BY <1>1, <1>3, <1>4, SubSeqProperties
<1>7. PICK r : r = a \o b
  OBVIOUS
<1>8. /\ Len(r) = Len(a) + Len(b)
      /\ \A j \in 1..Len(a) + Len(b) : r[j] = IF j <= Len(a) THEN a[j] ELSE b[j - Len(a)]
  BY <1>5, <1>6, <1>7, ConcatProperties
<1>9. r = RemoveIndex(w, i)
  BY <1>2, <1>3, <1>7 DEF RemoveIndex
<1>10. Len(r) = Len(w) - 1
  BY <1>1, <1>5, <1>6, <1>8
<1>11. \A j \in 1..Len(w) : w[j] = IF j <= i - 1 THEN r[j] ELSE IF j = i - 1 + 1 THEN w[i] ELSE r[j - 1]
  <2> SUFFICES ASSUME NEW j \in 1..Len(w)
               PROVE  w[j] = IF j <= i - 1 THEN r[j] ELSE IF j = i - 1 + 1 THEN w[i] ELSE r[j - 1]
    OBVIOUS
  <2>1. CASE j <= i - 1
    BY <1>1, <1>5, <1>6, <1>8, <2>1, SMTT(40)
  <2>2. CASE j = i
    BY <2>2
  <2>3. CASE j > i
    <3>1. j - 1 \in 1..Len(a) + Len(b) /\ ~(j - 1 <= Len(a)) /\ j - 1 - Len(a) = j - i
      BY <1>1, <1>5, <1>6, <2>3
    <3>2. r[j - 1] = b[j - i]
      BY <1>8, <3>1
    <3>3. b[j - i] = w[j]
      <4>1. j - i \in 1..Len(w) - i /\ i + (j - i) = j
        BY <1>1, <2>3
      <4> QED
        BY <1>6, <4>1
    <3> QED
      BY <2>3, <3>2, <3>3
  <2> QED
    BY <1>1, <2>1, <2>2, <2>3
<1>12. i - 1 \in 0..Len(r) /\ Len(w) = Len(r) + 1
  BY <1>1, <1>10
<1> QED
  BY <1>1, <1>9, <1>11, <1>12 DEF Inserted

\* The first one could go back to the front,
LEMMA TailInserted ==
  ASSUME NEW w \in Seq(Tasks), w # <<>>
  PROVE  /\ Tail(w) \in Seq(Tasks) /\ 0 \in 0..Len(Tail(w))
         /\ Inserted(w, Tail(w), 0, w[1])
<1>1. PICK r \in Seq(Tasks) : r = Tail(w)
  BY HeadTailProperties
<1>2. /\ Len(r) = Len(w) - 1 /\ Len(w) \in Nat \ {0}
      /\ \A i \in 1..Len(r) : r[i] = w[i + 1]
  BY <1>1, HeadTailProperties, EmptySeq
<1>3. \A i \in 1..Len(w) : i # 1 => w[i] = r[i - 1]
  <2> SUFFICES ASSUME NEW i \in 1..Len(w), i # 1
               PROVE  w[i] = r[i - 1]
    OBVIOUS
  <2>1. i - 1 \in 1..Len(r) /\ (i - 1) + 1 = i
    BY <1>2
  <2> QED
    BY <1>2, <2>1
<1>4. Len(w) = Len(r) + 1 /\ 0 \in 0..Len(r)
  BY <1>2
<1>5. Inserted(w, r, 0, w[1])
  BY <1>3, <1>4 DEF Inserted
<1> QED
  BY <1>1, <1>4, <1>5

\* and one that is appended is put behind the last one.
LEMMA AppendInserted ==
  ASSUME NEW w \in Seq(Tasks), NEW t \in Tasks
  PROVE  /\ Append(w, t) \in Seq(Tasks) /\ Len(w) \in 0..Len(w)
         /\ Inserted(Append(w, t), w, Len(w), t)
<1>1. PICK r : r = Append(w, t)
  OBVIOUS
<1>2. /\ r \in Seq(Tasks) /\ Len(w) \in Nat /\ Len(r) = Len(w) + 1
      /\ \A i \in 1..Len(w) : r[i] = w[i]
      /\ r[Len(w) + 1] = t
  BY <1>1, AppendProperties
<1>3. Inserted(r, w, Len(w), t)
  BY <1>2 DEF Inserted
<1> QED
  BY <1>1, <1>2, <1>3

-----------------------------------------------------------------------------
(* Tasks that are queued, readied, run and killed. *)

\* The tasks of one queue and the waiting list change, and nothing else that counts.
Moves(S, T, q) ==
  /\ \A r \in Queues : /\ T.tq[r].player = S.tq[r].player
                       /\ T.tq[r].reader = S.tq[r].reader
  /\ \A r \in Queues : r # q => /\ T.tq[r].bg = S.tq[r].bg
                                /\ T.tq[r].num = S.tq[r].num

\* The counts agree and the queues rest afterwards if they did before, and no
\* identifiers but those of D are lost.
Carries(S, T, D) ==
  Counted(S) /\ Awake(S) => Counted(T) /\ Awake(T) /\ Loses(S, T, D)

LEMMA CarriesTrans ==
  ASSUME NEW S, NEW T, NEW U, NEW D, NEW E, NEW F, Carries(S, T, D), Carries(T, U, E),
         D \cup E \subseteq F
  PROVE  Carries(S, U, F)
BY DEF Carries, Loses

LEMMA FrameCarries ==
  ASSUME NEW S, NEW T, NEW D, Frame(S, T)
  PROVE  Carries(S, T, D)
BY BooksCounted, BooksLoses DEF Frame, Carries, Loses

\* Nobody programs as nobody, and an address on no list holds nothing.
LEMMA ProgrsFacts ==
  /\ NOTHING \notin Progrs
  /\ NewTQueue.player = NOTHING /\ NewTQueue.bg = <<>> /\ NewTQueue.num = 0
  /\ NewTQueue.reader = NoTask /\ NewTQueue.input = <<>> /\ ~NewTQueue.connected
  /\ ~NewTQueue.hold
<1>1. NOTHING \notin Progrs
  BY ConstantsAssumption DEF Progrs, ConnId, NOTHING
<1> QED
  BY <1>1 DEF NewTQueue

\* No other queue is named after a programmer.
LEMMA OnlyQueue ==
  ASSUME NEW S, Sound(S), NEW q \in Live(S), NEW p \in Progrs, p = S.tq[q].player
  PROVE  \A r \in Queues : r # q => S.tq[r].player # p
<1> SUFFICES ASSUME NEW r \in Queues, r # q, S.tq[r].player = p
             PROVE  FALSE
  OBVIOUS
<1>1. Linked(S, {}) /\ Single(S) /\ p # NOTHING
  BY ProgrsFacts DEF Sound
<1>2. r \in Live(S)
  BY <1>1, ProgrsFacts DEF Linked
<1> QED
  BY <1>1, <1>2 DEF Single

\* The tasks of one programmer move, and the count of that queue agrees.
LEMMA MovesCounted ==
  ASSUME NEW S, Sound(S), Counted(S), NEW q \in Live(S), NEW p \in Progrs,
         p = S.tq[q].player, NEW T, Moves(S, T, q),
         \A t \in Elems(T.tq[q].bg) : t.progr = p,
         \A t \in Elems(T.waiting) : t.progr = p \/ t \in Elems(S.waiting),
         \A x : x # p => Count(T.waiting, x) = Count(S.waiting, x),
         T.tq[q].num = Len(T.tq[q].bg) + Count(T.waiting, p)
  PROVE  Counted(T)
<1>1. q \in Queues /\ \A r \in Queues : r # q => S.tq[r].player # p
  BY OnlyQueue, LiveType DEF Sound
<1>2. \A x : Named(S, x) => Named(T, x)
  BY DEF Moves, Named
<1>3. Named(T, p)
  BY <1>1 DEF Moves, Named
<1>4. \A t \in Elems(T.waiting) : t.progr \in Progrs /\ Named(T, t.progr)
  BY <1>2, <1>3 DEF Counted
<1>5. \A r \in Queues : \A t \in Elems(T.tq[r].bg) :
        t.progr \in Progrs /\ t.progr = T.tq[r].player
  BY DEF Counted, Moves
<1>6. \A r \in Queues : T.tq[r].num = Len(T.tq[r].bg) + Count(T.waiting, T.tq[r].player)
  <2> SUFFICES ASSUME NEW r \in Queues
               PROVE  T.tq[r].num = Len(T.tq[r].bg) + Count(T.waiting, T.tq[r].player)
    OBVIOUS
  <2>1. CASE r = q
    BY <2>1 DEF Moves
  <2>2. CASE r # q
    <3>1. /\ T.tq[r].player = S.tq[r].player /\ T.tq[r].bg = S.tq[r].bg
          /\ T.tq[r].num = S.tq[r].num /\ S.tq[r].player # p
      BY <1>1, <2>2 DEF Moves
    <3>2. Count(T.waiting, S.tq[r].player) = Count(S.waiting, S.tq[r].player)
      BY <3>1
    <3>3. S.tq[r].num = Len(S.tq[r].bg) + Count(S.waiting, S.tq[r].player)
      BY DEF Counted
    <3> QED
      BY <3>1, <3>2, <3>3
  <2> QED
    BY <2>1, <2>2
<1>7. \A r \in Queues : T.tq[r].reader # NoTask => T.tq[r].reader.progr \in Progrs
  BY DEF Counted, Moves
<1> QED
  BY <1>4, <1>5, <1>6, <1>7 DEF Counted

\* A task keeps its identifier when it becomes ready.
LEMMA MovesLoses ==
  ASSUME NEW S, NEW T, NEW q \in Queues, NEW D, Moves(S, T, q),
         \A t \in Elems(S.waiting) :
           \/ t \in Elems(T.waiting)
           \/ t.id \in D
           \/ \E u \in Elems(T.tq[q].bg) : u.id = t.id,
         \A t \in Elems(S.tq[q].bg) : t \in Elems(T.tq[q].bg) \/ t.id \in D
  PROVE  Loses(S, T, D)
<1> SUFFICES ASSUME NEW id \in Nat, Has(S, id), id \notin D
             PROVE  Has(T, id)
  BY DEF Loses
<1>1. ASSUME NEW t \in Elems(S.waiting), t.id = id
      PROVE  Has(T, id)
  BY <1>1 DEF Has
<1>2. ASSUME NEW r \in Queues, NEW t \in Elems(S.tq[r].bg), t.id = id
      PROVE  Has(T, id)
  <2>1. CASE r = q
    BY <1>2, <2>1 DEF Has
  <2>2. CASE r # q
    <3>1. t \in Elems(T.tq[r].bg)
      BY <1>2, <2>2 DEF Moves
    <3> QED
      BY <1>2, <3>1 DEF Has
  <2> QED
    BY <2>1, <2>2
<1>3. ASSUME NEW r \in Queues, S.tq[r].reader # NoTask, S.tq[r].reader.id = id
      PROVE  Has(T, id)
  BY <1>3 DEF Has, Moves
<1> QED
  BY <1>1, <1>2, <1>3 DEF Has

\* The fields of one queue that input does not depend on
LEMMA FieldMoves ==
  ASSUME NEW S \in Good, NEW T, NEW q \in Queues, NEW f, T.tq = [S.tq EXCEPT ![q] = f],
         T.idle = S.idle, f.player = S.tq[q].player, f.reader = S.tq[q].reader,
         f.input = S.tq[q].input, f.hold = S.tq[q].hold, f.connected = S.tq[q].connected
  PROVE  Moves(S, T, q) /\ T.tq[q] = f /\ (Awake(S) => Awake(T))
<1>1. T.tq[q] = f /\ \A r \in Queues : r # q => T.tq[r] = S.tq[r]
  BY DEF Good, States
<1>2. Moves(S, T, q)
  BY <1>1 DEF Moves
<1>3. Awake(S) => Awake(T)
  <2>1. \A r \in S.idle : Rests(S.tq[r]) => Rests(T.tq[r])
    BY <1>1, ListTypes DEF Rests
  <2> QED
    BY <2>1 DEF Awake
<1> QED
  BY <1>1, <1>2, <1>3

\* A count is a number.
LEMMA CountType ==
  ASSUME NEW w \in Seq(Tasks), NEW p
  PROVE  Count(w, p) \in Nat
<1>1. Len(w) \in 0..Len(w)
  OBVIOUS
<1>2. PICK r : r = Append(w, NoTask)
  OBVIOUS
<1>3. Inserted(r, w, Len(w), NoTask)
  BY <1>2, NewTypes, AppendInserted
<1> QED
  BY <1>1, <1>3, CountInserted

\* A ready task leaves its queue.
WithBg(S, q, bg) == [S EXCEPT !.tq[q].bg = bg, !.tq[q].num = S.tq[q].num - 1]

LEMMA BgRemoved ==
  ASSUME NEW S, Sound(S), NEW q \in Live(S), NEW bg \in Seq(Tasks), NEW k \in 0..Len(bg),
         NEW t, Inserted(S.tq[q].bg, bg, k, t)
  PROVE  Carries(S, WithBg(S, q, bg), {t.id})
<1>1. q \in Queues /\ S \in Good
  BY LiveType DEF Sound
<1>2. PICK T : T = WithBg(S, q, bg)
  OBVIOUS
<1>0. PICK n \in Int : n = S.tq[q].num
  BY <1>1, NumType
<1> SUFFICES ASSUME Counted(S), Awake(S)
             PROVE  Counted(T) /\ Awake(T) /\ Loses(S, T, {t.id})
  BY <1>2 DEF Carries
<1>3. PICK f : f = [S.tq[q] EXCEPT !.bg = bg, !.num = n - 1]
  OBVIOUS
<1>4. T.tq = [S.tq EXCEPT ![q] = f] /\ T.idle = S.idle /\ T.waiting = S.waiting
  BY <1>0, <1>1, <1>2, <1>3 DEF Good, States, WithBg
<1>5. /\ f.player = S.tq[q].player /\ f.reader = S.tq[q].reader
      /\ f.input = S.tq[q].input /\ f.hold = S.tq[q].hold
      /\ f.connected = S.tq[q].connected /\ f.bg = bg /\ f.num = n - 1
  BY <1>1, <1>3 DEF Good, States, TQueues
<1>6. Moves(S, T, q) /\ T.tq[q] = f /\ Awake(T)
  BY <1>1, <1>4, <1>5, FieldMoves
<1>7. Elems(S.tq[q].bg) = Elems(bg) \cup {t}
  BY InsertedElems
<1>8. PICK p \in Progrs : p = S.tq[q].player
  BY <1>1, <1>7 DEF Counted
<1>9. Counted(T)
  <2>1. \A u \in Elems(T.tq[q].bg) : u.progr = p
    BY <1>1, <1>5, <1>6, <1>7, <1>8 DEF Counted
  <2>2. T.tq[q].num = Len(T.tq[q].bg) + Count(T.waiting, p)
    <3>1. Count(S.waiting, p) \in Nat
      BY <1>1, CountType, WaitingType
    <3>2. Len(S.tq[q].bg) = Len(bg) + 1 /\ Len(bg) \in Nat
      BY DEF Inserted
    <3>3. S.tq[q].num = Len(S.tq[q].bg) + Count(S.waiting, p)
      BY <1>1, <1>8 DEF Counted
    <3> QED
      BY <1>0, <1>4, <1>5, <1>6, <3>1, <3>2, <3>3
  <2> QED
    BY <1>4, <1>6, <1>8, <2>1, <2>2, MovesCounted
<1>10. Loses(S, T, {t.id})
  <2>1. \A u \in Elems(S.tq[q].bg) : u \in Elems(T.tq[q].bg) \/ u.id \in {t.id}
    BY <1>5, <1>6, <1>7
  <2>2. \A u \in Elems(S.waiting) : u \in Elems(T.waiting)
    BY <1>4
  <2> QED
    BY <1>1, <1>6, <2>1, <2>2, MovesLoses
<1> QED
  BY <1>6, <1>9, <1>10

LEMMA DequeueBgCarries ==
  ASSUME NEW S, Sound(S), NEW q \in Live(S), S.tq[q].bg # <<>>
  PROVE  Carries(S, dequeue_bg_task(S, q), {S.tq[q].bg[1].id})
<1>1. S.tq[q].bg \in Seq(Tasks)
  BY LiveType, QueueType DEF Sound
<1>2. PICK bg : bg = Tail(S.tq[q].bg)
  OBVIOUS
<1>3. PICK t : t = S.tq[q].bg[1]
  OBVIOUS
<1>4. bg \in Seq(Tasks) /\ 0 \in 0..Len(bg) /\ Inserted(S.tq[q].bg, bg, 0, t)
  BY <1>1, <1>2, <1>3, TailInserted
<1>5. dequeue_bg_task(S, q) = WithBg(S, q, bg)
  BY <1>2 DEF dequeue_bg_task, WithBg
<1>6. Carries(S, WithBg(S, q, bg), {t.id})
  BY <1>4, BgRemoved
<1> QED
  BY <1>3, <1>5, <1>6

LEMMA KillBgCarries ==
  ASSUME NEW S, Sound(S), NEW q \in Live(S), NEW i \in 1..Len(S.tq[q].bg)
  PROVE  Carries(S, kill_bg(S, q, i), {S.tq[q].bg[i].id})
<1>1. S.tq[q].bg \in Seq(Tasks)
  BY LiveType, QueueType DEF Sound
<1>2. PICK bg : bg = RemoveIndex(S.tq[q].bg, i)
  OBVIOUS
<1>3. PICK t : t = S.tq[q].bg[i]
  OBVIOUS
<1>4. bg \in Seq(Tasks) /\ i - 1 \in 0..Len(bg) /\ Inserted(S.tq[q].bg, bg, i - 1, t)
  BY <1>1, <1>2, <1>3, RemoveInserted
<1>5. kill_bg(S, q, i) = WithBg(S, q, bg)
  BY <1>2 DEF kill_bg, WithBg
<1>6. Carries(S, WithBg(S, q, bg), {t.id})
  BY <1>4, BgRemoved
<1> QED
  BY <1>3, <1>5, <1>6

\* A waiting task leaves the list of those.
LEMMA WaitingRemoved ==
  ASSUME NEW S, Sound(S), Counted(S), NEW w \in Seq(Tasks), NEW k \in 0..Len(w), NEW t,
         Inserted(S.waiting, w, k, t)
  PROVE  /\ Elems(S.waiting) = Elems(w) \cup {t}
         /\ t.progr \in Progrs /\ Named(S, t.progr)
         /\ Count(w, t.progr) \in Nat
         /\ Count(S.waiting, t.progr) = Count(w, t.progr) + 1
         /\ \A x : x # t.progr => Count(S.waiting, x) = Count(w, x)
<1>1. Elems(S.waiting) = Elems(w) \cup {t}
  BY InsertedElems
<1>2. t.progr \in Progrs /\ Named(S, t.progr)
  BY <1>1 DEF Counted
<1>3. \A x : Count(w, x) \in Nat
             /\ Count(S.waiting, x) = Count(w, x) + (IF t.progr = x THEN 1 ELSE 0)
  BY CountInserted
<1> QED
  BY <1>1, <1>2, <1>3

\* The queue of a programmer is found.
LEMMA NamedFound ==
  ASSUME NEW S, Sound(S), NEW p \in Progrs, Named(S, p)
  PROVE  /\ find_tqueue(S, p) \in Live(S) /\ find_tqueue(S, p) # Null
         /\ S.tq[find_tqueue(S, p)].player = p
<1>1. S \in Good /\ Linked(S, {})
  BY DEF Sound
<1>2. PICK r \in Queues : S.tq[r].player = p
  BY DEF Named
<1>3. r \in Live(S)
  BY <1>1, <1>2, ProgrsFacts DEF Linked
<1>4. find_tqueue(S, p) # Null
  BY <1>1, <1>2, <1>3, NotFound
<1> QED
  BY <1>1, <1>4, FindTqueueType

\* A queue is made: no task waits for the player it is made for.
LEMMA MadeCarries ==
  ASSUME NEW S, Sound(S), NEW p \in Progrs, NEW D
  PROVE  Carries(S, with_tqueue(S, p), D)
<1>1. PICK M : M = with_tqueue(S, p)
  OBVIOUS
<1>2. S \in Good /\ Linked(S, {}) /\ p \in Objids
  BY DEF Sound, Objids
<1>3. /\ M \in Good /\ Linked(M, {}) /\ M.waiting = S.waiting
      /\ \/ Live(M) = Live(S) /\ M.tq = S.tq
         \/ /\ find_tqueue(S, p) = Null
            /\ \E n \in Queues \ Live(S) :
                 /\ Live(M) = Live(S) \cup {n}
                 /\ M.tq = [S.tq EXCEPT ![n] = [NewTQueue EXCEPT !.player = p]]
  BY <1>1, <1>2, WithTqueueMade
<1> SUFFICES ASSUME Counted(S), Awake(S)
             PROVE  Counted(M) /\ Awake(M) /\ Loses(S, M, D)
  BY <1>1 DEF Carries
<1>4. \A r \in Live(S) : r \in M.idle /\ M.tq[r] = S.tq[r] => r \in S.idle
  <2> SUFFICES ASSUME NEW r \in Live(S), r \in M.idle, M.tq[r] = S.tq[r], r \notin S.idle
               PROVE  FALSE
    OBVIOUS
  <2>1. r \in Elems(S.active)
    BY DEF Live
  <2>2. S.tq[r].usage >= 0 /\ M.tq[r].usage = NO_USAGE
    BY <1>2, <1>3, <2>1 DEF Linked
  <2> QED
    BY <2>2 DEF NO_USAGE
<1>5. M.idle \subseteq Live(M) /\ Live(S) \subseteq Queues
  BY <1>2, LiveType DEF Live
<1>6. CASE Live(M) = Live(S) /\ M.tq = S.tq
  <2>1. Books(S, M)
    BY <1>3, <1>6 DEF Books
  <2>2. Awake(M)
    BY <1>4, <1>5, <1>6 DEF Awake
  <2>3. Loses(S, M, D)
    BY <2>1, BooksLoses DEF Loses
  <2> QED
    BY <2>1, <2>2, <2>3, BooksCounted
<1>7. ASSUME find_tqueue(S, p) = Null, NEW n \in Queues \ Live(S),
             Live(M) = Live(S) \cup {n},
             M.tq = [S.tq EXCEPT ![n] = [NewTQueue EXCEPT !.player = p]]
      PROVE  Counted(M) /\ Awake(M) /\ Loses(S, M, D)
  <2>1. PICK f : f = [NewTQueue EXCEPT !.player = p]
    OBVIOUS
  <2>2. /\ f.player = p /\ f.bg = <<>> /\ f.num = 0 /\ f.reader = NoTask
        /\ f.input = <<>>
    BY <2>1 DEF NewTQueue
  <2>3. M.tq[n] = f /\ \A r \in Queues : r # n => M.tq[r] = S.tq[r]
    BY <1>2, <1>7, <2>1 DEF Good, States
  <2>4. S.tq[n] = NewTQueue
    BY <1>2 DEF Linked
  <2>5. ~Named(S, p)
    BY <1>7, NamedFound
  <2>6. Count(S.waiting, p) = 0
    <3>1. \A i \in 1..Len(S.waiting) : S.waiting[i].progr # p
      BY <2>5 DEF Counted, Elems
    <3>2. {i \in 1..Len(S.waiting) : S.waiting[i].progr = p} = {}
      BY <3>1
    <3> QED
      BY <3>2, FS_EmptySet DEF Count
  <2>7. \A t \in Elems(M.waiting) : t.progr \in Progrs /\ Named(M, t.progr)
    <3> SUFFICES ASSUME NEW t \in Elems(S.waiting)
                 PROVE  t.progr \in Progrs /\ Named(M, t.progr)
      BY <1>3
    <3>1. t.progr \in Progrs /\ t.progr # NOTHING
      BY ProgrsFacts DEF Counted
    <3>2. PICK r \in Queues : S.tq[r].player = t.progr
      BY DEF Counted, Named
    <3>3. r # n
      BY <2>4, <3>1, <3>2, ProgrsFacts
    <3> QED
      BY <2>3, <3>1, <3>2, <3>3 DEF Named
  <2>8. Elems(<<>>) = {}
    BY DEF Elems
  <2>9. \A r \in Queues : \A t \in Elems(M.tq[r].bg) :
          t.progr \in Progrs /\ t.progr = M.tq[r].player
    BY <2>2, <2>3, <2>8 DEF Counted
  <2>10. \A r \in Queues : M.tq[r].num = Len(M.tq[r].bg) + Count(M.waiting, M.tq[r].player)
    <3> SUFFICES ASSUME NEW r \in Queues
                 PROVE  M.tq[r].num = Len(M.tq[r].bg) + Count(S.waiting, M.tq[r].player)
      BY <1>3
    <3>1. CASE r = n
      BY <2>2, <2>3, <2>6, <3>1
    <3>2. CASE r # n
      BY <2>3, <3>2 DEF Counted
    <3> QED
      BY <3>1, <3>2
  <2>11. \A r \in Queues : M.tq[r].reader # NoTask => M.tq[r].reader.progr \in Progrs
    BY <2>2, <2>3 DEF Counted
  <2>12. Counted(M)
    BY <2>7, <2>9, <2>10, <2>11 DEF Counted
  <2>13. Awake(M)
    <3> SUFFICES ASSUME NEW r \in M.idle
                 PROVE  Rests(M.tq[r])
      BY DEF Awake
    <3>1. CASE r = n
      BY <2>2, <2>3, <3>1 DEF Rests
    <3>2. CASE r # n
      <4>1. r \in Live(S) /\ M.tq[r] = S.tq[r]
        BY <1>5, <1>7, <2>3, <3>2
      <4> QED
        BY <1>4, <4>1 DEF Awake
    <3> QED
      BY <3>1, <3>2
  <2>14. Loses(S, M, D)
    <3>1. Elems(S.tq[n].bg) = {} /\ S.tq[n].reader = NoTask
      BY <2>4, <2>8, ProgrsFacts
    <3> QED
      BY <1>3, <2>3, <3>1 DEF Loses, Has
  <2> QED
    BY <2>12, <2>13, <2>14
<1> QED
  BY <1>3, <1>6, <1>7

\* num_bg_tasks of one queue is set, and perhaps the waiting list.
NumSet(S, T, q, n) ==
  T.tq = [S.tq EXCEPT ![q] = [S.tq[q] EXCEPT !.num = n]] /\ T.idle = S.idle

LEMMA NumMoves ==
  ASSUME NEW S \in Good, NEW q \in Queues, NEW n \in Int, NEW T, NumSet(S, T, q, n)
  PROVE  /\ Moves(S, T, q) /\ (Awake(S) => Awake(T))
         /\ T.tq[q].num = n /\ T.tq[q].bg = S.tq[q].bg
<1>0. PICK f : f = [S.tq[q] EXCEPT !.num = n]
  OBVIOUS
<1>1. /\ f.player = S.tq[q].player /\ f.reader = S.tq[q].reader
      /\ f.input = S.tq[q].input /\ f.hold = S.tq[q].hold
      /\ f.connected = S.tq[q].connected /\ f.bg = S.tq[q].bg /\ f.num = n
  BY <1>0 DEF Good, States, TQueues
<1>2. T.tq = [S.tq EXCEPT ![q] = f] /\ T.idle = S.idle
  BY <1>0 DEF NumSet
<1>3. Moves(S, T, q) /\ T.tq[q] = f /\ (Awake(S) => Awake(T))
  BY <1>1, <1>2, FieldMoves
<1> QED
  BY <1>1, <1>3

\* A task is put on the waiting list, and counted on its programmer's queue.
LEMMA WaitingAdded ==
  ASSUME NEW S, Sound(S), NEW q \in Live(S), NEW t \in Tasks, t.progr \in Progrs,
         t.progr = S.tq[q].player, NEW k \in 0..Len(S.waiting), NEW T, NEW m \in Int,
         m = S.tq[q].num + 1, Inserted(T.waiting, S.waiting, k, t),
         NumSet(S, T, q, m), NEW D
  PROVE  Carries(S, T, D)
<1> SUFFICES ASSUME Counted(S), Awake(S)
             PROVE  Counted(T) /\ Awake(T) /\ Loses(S, T, D)
  BY DEF Carries
<1>1. q \in Queues /\ S \in Good
  BY LiveType DEF Sound
<1>2. S.waiting \in Seq(Tasks)
  BY <1>1, WaitingType
<1>6. Moves(S, T, q) /\ Awake(T) /\ T.tq[q].num = m /\ T.tq[q].bg = S.tq[q].bg
  BY <1>1, NumMoves
<1>7. Elems(T.waiting) = Elems(S.waiting) \cup {t}
  BY <1>2, InsertedElems
<1>8. /\ \A x : x # t.progr => Count(T.waiting, x) = Count(S.waiting, x)
      /\ Count(T.waiting, t.progr) = Count(S.waiting, t.progr) + 1
      /\ Count(S.waiting, t.progr) \in Nat
  <2>1. \A x : /\ Count(S.waiting, x) \in Nat
               /\ Count(T.waiting, x) = Count(S.waiting, x) + (IF t.progr = x THEN 1 ELSE 0)
    BY <1>2, CountInserted
  <2> QED
    BY <2>1
<1>9. Counted(T)
  <2>1. \A u \in Elems(T.tq[q].bg) : u.progr = t.progr
    BY <1>1, <1>6 DEF Counted
  <2>2. T.tq[q].num = Len(T.tq[q].bg) + Count(T.waiting, t.progr)
    <3>1. S.tq[q].num = Len(S.tq[q].bg) + Count(S.waiting, t.progr)
      BY <1>1 DEF Counted
    <3>2. Len(S.tq[q].bg) \in Nat
      BY <1>1, QueueType
    <3> QED
      BY <1>6, <1>8, <3>1, <3>2, SMTT(40)
  <2>3. \A u \in Elems(T.waiting) : u.progr = t.progr \/ u \in Elems(S.waiting)
    BY <1>7
  <2> QED
    BY <1>6, <1>8, <2>1, <2>2, <2>3, MovesCounted
<1>10. Loses(S, T, D)
  BY <1>1, <1>6, <1>7, MovesLoses
<1> QED
  BY <1>6, <1>9, <1>10

LEMMA EnqueueWaitingCarries ==
  ASSUME NEW S, Sound(S), NEW t \in Tasks, t.progr \in Progrs, NEW D
  PROVE  Carries(S, enqueue_waiting(S, t), D)
<1>1. PICK M : M = with_tqueue(S, t.progr)
  OBVIOUS
<1>2. PICK q : q = find_tqueue(M, t.progr)
  OBVIOUS
<1>3. t.progr \in Objids
  BY DEF Tasks
<1>4. Sound(M) /\ M.waiting = S.waiting /\ Carries(S, M, D)
  BY <1>1, <1>3, WithTqueueSound, WithTqueueWaiting, MadeCarries DEF Sound
<1>5. CASE q = Null
  BY <1>1, <1>2, <1>4, <1>5 DEF enqueue_waiting
<1>6. CASE q # Null
  <2>1. q \in Live(M) /\ q \in Queues /\ M \in Good /\ S \in Good /\ M.tq[q].player = t.progr
    BY <1>2, <1>4, <1>6, FindTqueueType, LiveType DEF Sound
  <2>2. PICK n \in Int : n = M.tq[q].num
    BY <2>1, NumType
  <2> DEFINE B == {i \in 1..Len(S.waiting) : \A j \in 1..i : S.waiting[j].start <= t.start}
  <2>3. PICK k \in 0..Len(S.waiting) : k = Cardinality(B)
    <3>1. Cardinality(B) \in 0..Len(S.waiting)
      BY <2>1, WaitingType, PrefixLength
    <3> HIDE DEF B
    <3> QED
      BY <3>1
  <2>4. PICK w : w = InsertAfter(S.waiting, k, t)
    OBVIOUS
  <2>5. Inserted(w, S.waiting, k, t)
    BY <2>1, <2>4, WaitingType, InsertAfterInserted
  <2>6. PICK T : T = enqueue_waiting(S, t)
    OBVIOUS
  <2>7. T = [M EXCEPT !.tq[q].num = n + 1, !.waiting = w]
    BY <1>1, <1>2, <1>4, <1>6, <2>2, <2>3, <2>4, <2>6 DEF enqueue_waiting
  <2>8. PICK m \in Int : m = n + 1
    OBVIOUS
  <2>9. NumSet(M, T, q, m) /\ T.waiting = w
    BY <2>1, <2>7, <2>8 DEF Good, States, NumSet
  <2>10. Inserted(T.waiting, M.waiting, k, t) /\ k \in 0..Len(M.waiting)
    BY <1>4, <2>5, <2>9
  <2>11. Carries(M, T, D)
    BY <1>4, <2>1, <2>2, <2>9, <2>10, <2>8, WaitingAdded
  <2> QED
    BY <1>4, <2>6, <2>11, CarriesTrans
<1> QED
  BY <1>5, <1>6

\* One task fewer
LEMMA OneLess ==
  ASSUME NEW n \in Int, NEW l \in Nat, NEW c \in Nat, n = l + (c + 1)
  PROVE  n - 1 = l + c
OBVIOUS

\* A waiting task is killed, and its programmer has one less.
LEMMA WaitingKilled ==
  ASSUME NEW S, Sound(S), NEW q \in Live(S), NEW w \in Seq(Tasks), NEW k \in 0..Len(w),
         NEW t, t.progr = S.tq[q].player, Inserted(S.waiting, w, k, t),
         NEW T, T.waiting = w, NEW m \in Int, m = S.tq[q].num - 1, NumSet(S, T, q, m)
  PROVE  Carries(S, T, {t.id})
<1> SUFFICES ASSUME Counted(S), Awake(S)
             PROVE  Counted(T) /\ Awake(T) /\ Loses(S, T, {t.id})
  BY DEF Carries
<1>1. q \in Queues /\ S \in Good
  BY LiveType DEF Sound
<1>2. /\ Elems(S.waiting) = Elems(w) \cup {t}
      /\ t.progr \in Progrs
      /\ Count(w, t.progr) \in Nat
      /\ Count(S.waiting, t.progr) = Count(w, t.progr) + 1
      /\ \A x : x # t.progr => Count(S.waiting, x) = Count(w, x)
  BY WaitingRemoved
<1>5. Moves(S, T, q) /\ Awake(T) /\ T.tq[q].num = m /\ T.tq[q].bg = S.tq[q].bg
  BY <1>1, NumMoves
<1>6. Counted(T)
  <2>1. \A u \in Elems(T.tq[q].bg) : u.progr = t.progr
    BY <1>1, <1>5 DEF Counted
  <2>2. T.tq[q].num = Len(T.tq[q].bg) + Count(T.waiting, t.progr)
    <3>1. S.tq[q].num = Len(S.tq[q].bg) + Count(S.waiting, t.progr)
      BY <1>1 DEF Counted
    <3>2. Len(S.tq[q].bg) \in Nat
      <4>1. S.tq[q].bg \in Seq(Tasks)
        BY <1>1, QueueType
      <4> QED
        BY <4>1, LenProperties
    <3>3. PICK l \in Nat, c \in Nat : l = Len(S.tq[q].bg) /\ c = Count(w, t.progr)
      BY <1>2, <3>2
    <3>4. PICK n \in Int : n = S.tq[q].num /\ n = l + (c + 1)
      BY <1>2, <3>1, <3>3, SMTT(40)
    <3>5. m = n - 1
      BY <3>4, Zenon
    <3>6. n - 1 = l + c
      BY <3>3, <3>4, OneLess, Zenon
    <3>7. T.tq[q].num = m /\ Len(T.tq[q].bg) = l /\ Count(T.waiting, t.progr) = c
      BY <1>5, <3>3, Zenon
    <3> QED
      BY <3>5, <3>6, <3>7, Zenon
  <2>3. \A u \in Elems(T.waiting) : u.progr = t.progr \/ u \in Elems(S.waiting)
    BY <1>2
  <2> QED
    BY <1>2, <1>5, <2>1, <2>2, <2>3, MovesCounted
<1>7. Loses(S, T, {t.id})
  BY <1>1, <1>2, <1>5, MovesLoses
<1> QED
  BY <1>5, <1>6, <1>7

LEMMA KillWaitingCarries ==
  ASSUME NEW S, Sound(S), NEW i \in 1..Len(S.waiting)
  PROVE  Carries(S, kill_waiting(S, i), {S.waiting[i].id})
<1> SUFFICES ASSUME Counted(S)
             PROVE  Carries(S, kill_waiting(S, i), {S.waiting[i].id})
  BY DEF Carries
<1>1. S \in Good /\ S.waiting \in Seq(Tasks)
  BY WaitingType DEF Sound
<1>2. PICK t : t = S.waiting[i]
  OBVIOUS
<1>3. PICK w : w = RemoveIndex(S.waiting, i)
  OBVIOUS
<1>4. w \in Seq(Tasks) /\ i - 1 \in 0..Len(w) /\ Inserted(S.waiting, w, i - 1, t)
  BY <1>1, <1>2, <1>3, RemoveInserted
<1>5. t.progr \in Progrs /\ Named(S, t.progr)
  BY <1>4, WaitingRemoved
<1>6. PICK q : q = find_tqueue(S, t.progr)
  OBVIOUS
<1>7. q \in Live(S) /\ q \in Queues /\ q # Null /\ S.tq[q].player = t.progr
  BY <1>1, <1>5, <1>6, NamedFound, LiveType
<1>8. PICK n \in Int : n = S.tq[q].num
  BY <1>1, <1>7, NumType
<1>9. PICK C : C = [S EXCEPT !.waiting = w]
  OBVIOUS
<1>10. C.tq = S.tq /\ C.idle = S.idle /\ C.waiting = w /\ C \in States
  BY <1>1, <1>4, <1>9 DEF Good, States
<1>11. PICK T : T = kill_waiting(S, i)
  OBVIOUS
<1>12. T = [C EXCEPT !.tq[q].num = n - 1]
  BY <1>2, <1>3, <1>6, <1>7, <1>8, <1>9, <1>10, <1>11 DEF kill_waiting
<1>13. PICK m \in Int : m = n - 1
  OBVIOUS
<1>14. NumSet(S, T, q, m) /\ T.waiting = w
  BY <1>7, <1>10, <1>12, <1>13 DEF States, NumSet
<1>15. Carries(S, T, {t.id})
  BY <1>4, <1>7, <1>8, <1>13, <1>14, WaitingKilled
<1> QED
  BY <1>2, <1>11, <1>15

\* A waiting task becomes ready: the counts agree,
LEMMA WaitingReadied ==
  ASSUME NEW S, Sound(S), NEW q \in Live(S), NEW w \in Seq(Tasks), NEW k \in 0..Len(w),
         NEW u, Inserted(S.waiting, w, k, u), NEW t \in Tasks, t.id = u.id, NEW p,
         t.progr = p, u.progr = p, S.tq[q].player = p, NEW T, Moves(S, T, q),
         T.tq[q].bg = Append(S.tq[q].bg, t), T.tq[q].num = S.tq[q].num, T.waiting = w,
         Awake(S) => Awake(T), NEW D
  PROVE  Carries(S, T, D)
<1> SUFFICES ASSUME Counted(S), Awake(S)
             PROVE  Counted(T) /\ Loses(S, T, D)
  BY DEF Carries
<1>1. q \in Queues /\ S.tq[q].bg \in Seq(Tasks)
  BY LiveType, QueueType DEF Sound
<1>0. PICK s \in Seq(Tasks) : s = S.tq[q].bg
  BY <1>1
<1>2. PICK b : b = Append(s, t)
  OBVIOUS
<1>3. /\ Len(b) = Len(s) + 1 /\ Len(s) \in Nat
      /\ Elems(b) = Elems(s) \cup {t}
  <2>1. Len(s) \in 0..Len(s) /\ Inserted(b, s, Len(s), t)
    BY <1>2, AppendInserted
  <2>2. Elems(b) = Elems(s) \cup {t}
    BY <2>1, InsertedElems, SMTT(40)
  <2>3. Len(b) = Len(s) + 1
    BY <2>1 DEF Inserted
  <2> QED
    BY <2>1, <2>2, <2>3
<1>4. /\ Elems(S.waiting) = Elems(w) \cup {u}
      /\ p \in Progrs
      /\ Count(w, p) \in Nat
      /\ Count(S.waiting, p) = Count(w, p) + 1
      /\ \A x : x # p => Count(S.waiting, x) = Count(w, x)
  BY WaitingRemoved
<1>5. Counted(T)
  <2>1. \A v \in Elems(T.tq[q].bg) : v.progr = p
    BY <1>0, <1>1, <1>2, <1>3 DEF Counted
  <2>2. T.tq[q].num = Len(T.tq[q].bg) + Count(T.waiting, p)
    <3>1. S.tq[q].num = Len(S.tq[q].bg) + Count(S.waiting, S.tq[q].player)
      BY <1>1 DEF Counted
    <3>2. S.tq[q].num = Len(s) + Count(S.waiting, p)
      BY <1>0, <3>1
    <3>3. T.tq[q].bg = b
      BY <1>0, <1>2, Zenon
    <3>4. S.tq[q].num = Len(b) + Count(w, p)
      BY <1>3, <1>4, <3>2
    <3> QED
      BY <3>3, <3>4, Zenon
  <2>3. \A v \in Elems(T.waiting) : v.progr = p \/ v \in Elems(S.waiting)
    BY <1>4
  <2>4. \A x : x # p => Count(T.waiting, x) = Count(S.waiting, x)
    BY <1>4
  <2> QED
    BY <1>4, <2>1, <2>2, <2>3, <2>4, MovesCounted
<1>6. Loses(S, T, D)
  <2>1. \A v \in Elems(S.waiting) :
          v \in Elems(T.waiting) \/ \E x \in Elems(T.tq[q].bg) : x.id = v.id
    BY <1>0, <1>2, <1>3, <1>4
  <2>2. \A v \in Elems(S.tq[q].bg) : v \in Elems(T.tq[q].bg)
    BY <1>0, <1>2, <1>3
  <2> QED
    BY <1>1, <2>1, <2>2, MovesLoses
<1> QED
  BY <1>5, <1>6

\* for it moves to the queue of its programmer, perhaps with another start time.
LEMMA MoveWaitingCarries ==
  ASSUME NEW S, Sound(S), NEW q \in Live(S), NEW w \in Seq(Tasks), NEW k \in 0..Len(w),
         NEW u, Inserted(S.waiting, w, k, u), NEW t \in Tasks, t.id = u.id, t.progr = u.progr,
         t.progr = S.tq[q].player, NEW D
  PROVE  Carries(S, enqueue_bg_task(ensure_usage([S EXCEPT !.waiting = w], q), q, t), D)
<1>1. q \in Queues /\ S \in Good /\ S.tq[q].bg \in Seq(Tasks)
  BY LiveType, QueueType DEF Sound
<1>2. PICK C : C = [S EXCEPT !.waiting = w]
  OBVIOUS
<1>3. Sound(C) /\ C \in Good
  BY <1>2, SetWaitingSound DEF Sound
<1>4. C.tq = S.tq /\ C.idle = S.idle /\ C.waiting = w
  BY <1>1, <1>2 DEF Good, States
<1>5. PICK U : U = ensure_usage(C, q)
  OBVIOUS
<1>6. U \in Good /\ Frame(C, U)
  <2>1. Linked(C, {})
    BY <1>3 DEF Sound
  <2>2. Books(C, C) /\ (Awake(C) => \A r \in C.idle \ {q} : Rests(C.tq[r]))
    BY DEF Books, Awake
  <2> QED
    BY <1>1, <1>3, <1>5, <2>1, <2>2, EnsureUsageFrame, EnsureUsageType
<1>7. PICK T : T = enqueue_bg_task(U, q, t)
  OBVIOUS
<1>8. PICK b : b = Append(U.tq[q].bg, t)
  OBVIOUS
<1>9. PICK f : f = [U.tq[q] EXCEPT !.bg = b]
  OBVIOUS
<1>10. T.tq = [U.tq EXCEPT ![q] = f] /\ T.idle = U.idle /\ T.waiting = U.waiting
  BY <1>1, <1>6, <1>7, <1>8, <1>9 DEF enqueue_bg_task, Good, States
<1>11. /\ f.player = U.tq[q].player /\ f.reader = U.tq[q].reader
       /\ f.input = U.tq[q].input /\ f.hold = U.tq[q].hold
       /\ f.connected = U.tq[q].connected /\ f.bg = b /\ f.num = U.tq[q].num
  BY <1>1, <1>6, <1>9 DEF Good, States, TQueues
<1>12. Moves(U, T, q) /\ T.tq[q] = f /\ (Awake(U) => Awake(T))
  BY <1>1, <1>6, <1>10, <1>11, FieldMoves
<1>13. Moves(S, T, q)
  BY <1>4, <1>6, <1>12 DEF Moves, Frame, Books
<1>14. b = Append(S.tq[q].bg, t) /\ T.tq[q].bg = b /\ T.tq[q].num = S.tq[q].num
  BY <1>1, <1>4, <1>6, <1>8, <1>11, <1>12 DEF Frame, Books
<1>15. T.waiting = w
  BY <1>4, <1>6, <1>10 DEF Frame, Books
<1>16. Awake(S) => Awake(T)
  BY <1>4, <1>6, <1>12 DEF Frame, Awake
<1>17. PICK p : p = t.progr
  BY SMTT(40)
<1>18. Carries(S, T, D)
  BY <1>13, <1>14, <1>15, <1>16, <1>17, WaitingReadied
<1> QED
  BY <1>2, <1>5, <1>7, <1>18

LEMMA ReadyFirstCarries ==
  ASSUME NEW S, Sound(S), S.waiting # <<>>, NEW D
  PROVE  Carries(S, ready_first_waiting(S), D)
<1>1. PICK t : t = S.waiting[1]
  OBVIOUS
<1>2. PICK w : w = Tail(S.waiting)
  OBVIOUS
<1>3. S \in Good /\ S.waiting \in Seq(Tasks) /\ t \in Tasks /\ t.progr \in Objids
  BY <1>1, WaitingType DEF Sound
<1>4. w \in Seq(Tasks) /\ 0 \in 0..Len(w) /\ Inserted(S.waiting, w, 0, t)
  BY <1>1, <1>2, <1>3, TailInserted
<1> SUFFICES ASSUME Counted(S)
             PROVE  Carries(S, ready_first_waiting(S), D)
  BY DEF Carries
<1>5. t.progr \in Progrs
  BY <1>4, WaitingRemoved
<1>6. PICK M : M = with_tqueue(S, t.progr)
  OBVIOUS
<1>7. PICK q : q = find_tqueue(M, t.progr)
  OBVIOUS
<1>8. Sound(M) /\ M.waiting = S.waiting /\ Carries(S, M, D)
  BY <1>3, <1>5, <1>6, WithTqueueSound, WithTqueueWaiting, MadeCarries
<1>9. PICK T : T = enqueue_bg_task(ensure_usage([M EXCEPT !.waiting = w], q), q, t)
  OBVIOUS
<1>10. q # Null => Carries(M, T, D)
  <2>1. q # Null => q \in Live(M) /\ M.tq[q].player = t.progr
    BY <1>7, <1>8, FindTqueueType DEF Sound
  <2>2. Inserted(M.waiting, w, 0, t)
    BY <1>4, <1>8
  <2> QED
    BY <1>3, <1>4, <1>8, <1>9, <2>1, <2>2, MoveWaitingCarries
<1>11. ready_first_waiting(S) = IF q = Null THEN M ELSE T
  BY <1>1, <1>2, <1>6, <1>7, <1>8, <1>9 DEF ready_first_waiting
<1> QED
  BY <1>8, <1>10, <1>11, CarriesTrans

LEMMA ResumeWaitingCarries ==
  ASSUME NEW S, Sound(S), NEW i \in 1..Len(S.waiting), NEW n \in Nat, NEW D
  PROVE  Carries(S, resume_waiting(S, i, n), D)
<1>1. PICK u : u = S.waiting[i]
  OBVIOUS
<1>2. PICK t : t = [u EXCEPT !.start = n]
  OBVIOUS
<1>3. PICK w : w = RemoveIndex(S.waiting, i)
  OBVIOUS
<1>4. S \in Good /\ S.waiting \in Seq(Tasks) /\ u \in Tasks
  BY <1>1, WaitingType DEF Sound
<1>5. t \in Tasks /\ t.progr \in Objids /\ t.id = u.id /\ t.progr = u.progr
  BY <1>2, <1>4 DEF Tasks
<1>6. w \in Seq(Tasks) /\ i - 1 \in 0..Len(w) /\ Inserted(S.waiting, w, i - 1, u)
  BY <1>1, <1>3, <1>4, RemoveInserted
<1> SUFFICES ASSUME Counted(S)
             PROVE  Carries(S, resume_waiting(S, i, n), D)
  BY DEF Carries
<1>7. t.progr \in Progrs
  BY <1>5, <1>6, WaitingRemoved
<1>8. PICK M : M = with_tqueue(S, t.progr)
  OBVIOUS
<1>9. PICK q : q = find_tqueue(M, t.progr)
  OBVIOUS
<1>10. Sound(M) /\ M.waiting = S.waiting /\ Carries(S, M, D)
  BY <1>4, <1>5, <1>7, <1>8, WithTqueueSound, WithTqueueWaiting, MadeCarries
<1>11. PICK T : T = enqueue_bg_task(ensure_usage([M EXCEPT !.waiting = w], q), q, t)
  OBVIOUS
<1>12. q # Null => Carries(M, T, D)
  <2>1. q # Null => q \in Live(M) /\ M.tq[q].player = t.progr
    BY <1>9, <1>10, FindTqueueType DEF Sound
  <2>2. Inserted(M.waiting, w, i - 1, u)
    BY <1>6, <1>10
  <2> QED
    BY <1>5, <1>6, <1>10, <1>11, <2>1, <2>2, MoveWaitingCarries
<1>13. resume_waiting(S, i, n) = IF q = Null THEN M ELSE T
  BY <1>1, <1>2, <1>3, <1>8, <1>9, <1>10, <1>11 DEF resume_waiting
<1> QED
  BY <1>10, <1>12, <1>13, CarriesTrans

\* force_input() and flush_input() make the queue they act on.
LEMMA ForceInputCarries ==
  ASSUME NEW S, Sound(S), NEW p \in Progrs, NEW line \in Lines, NEW front \in BOOLEAN, NEW D
  PROVE  Carries(S, force_input(S, p, line, front), D) /\ Carries(S, flush_player(S, p), D)
<1>1. PICK M : M = with_tqueue(S, p)
  OBVIOUS
<1>2. PICK q : q = find_tqueue(M, p)
  OBVIOUS
<1>3. p \in Objids
  BY DEF Objids
<1>4. Sound(M) /\ M \in Good /\ Carries(S, M, D)
  BY <1>1, <1>3, WithTqueueSound, MadeCarries DEF Sound
<1>5. PICK A : A = enqueue_input_task(M, q, line, front)
  OBVIOUS
<1>6. PICK F : F = flush_input(M, q)
  OBVIOUS
<1>7. q # Null => Carries(M, A, D) /\ Carries(M, F, D)
  <2>1. q # Null => q \in Live(M) /\ q \in Queues
    BY <1>2, <1>4, FindTqueueType, LiveType
  <2>2. q # Null => Frame(M, A)
    BY <1>4, <1>5, <2>1, EnqueueInputBooks
  <2>3. q # Null => Frame(M, F)
    BY <1>4, <1>6, <2>1, FlushInputBooks
  <2> QED
    BY <2>2, <2>3, FrameCarries
<1>8. force_input(S, p, line, front) = IF q = Null THEN M ELSE A
  BY <1>1, <1>2, <1>5 DEF force_input
<1>9. flush_player(S, p) = IF q = Null THEN M ELSE F
  BY <1>1, <1>2, <1>6 DEF flush_player
<1>10. q # Null => Carries(S, A, D) /\ Carries(S, F, D)
  BY <1>4, <1>7, CarriesTrans
<1> QED
  BY <1>4, <1>8, <1>9, <1>10

\* Only the reader of q changes.
OnlyReader(S, T, q, t) ==
  /\ T.waiting = S.waiting /\ T.idle = S.idle
  /\ \A r \in Queues : /\ T.tq[r].player = S.tq[r].player
                       /\ T.tq[r].bg = S.tq[r].bg
                       /\ T.tq[r].num = S.tq[r].num
                       /\ T.tq[r].input = S.tq[r].input
                       /\ T.tq[r].hold = S.tq[r].hold
                       /\ T.tq[r].connected = S.tq[r].connected
  /\ \A r \in Queues : r # q => T.tq[r].reader = S.tq[r].reader
  /\ T.tq[q].reader = t

LEMMA ReaderSet ==
  ASSUME NEW S \in Good, NEW q \in Queues, NEW t \in Tasks
  PROVE  OnlyReader(S, [S EXCEPT !.tq[q].reader = t], q, t)
<1>1. PICK T : T = [S EXCEPT !.tq[q].reader = t]
  OBVIOUS
<1>2. PICK f : f = [S.tq[q] EXCEPT !.reader = t]
  OBVIOUS
<1>3. T.tq = [S.tq EXCEPT ![q] = f] /\ T.waiting = S.waiting /\ T.idle = S.idle
  BY <1>1, <1>2 DEF Good, States
<1>4. /\ f.player = S.tq[q].player /\ f.bg = S.tq[q].bg /\ f.num = S.tq[q].num
      /\ f.reader = t /\ f.input = S.tq[q].input /\ f.hold = S.tq[q].hold
      /\ f.connected = S.tq[q].connected
  BY <1>2 DEF Good, States, TQueues
<1>5. T.tq[q] = f /\ \A r \in Queues : r # q => T.tq[r] = S.tq[r]
  BY <1>3 DEF Good, States
<1>6. OnlyReader(S, T, q, t)
  BY <1>3, <1>4, <1>5 DEF OnlyReader
<1> QED
  BY <1>1, <1>6

\* A task in read() is resumed or killed.
LEMMA ReaderTakenCarries ==
  ASSUME NEW S \in Good, NEW q \in Queues, NEW T, OnlyReader(S, T, q, NoTask)
  PROVE  Carries(S, T, {S.tq[q].reader.id})
<1> SUFFICES ASSUME Counted(S), Awake(S)
             PROVE  Counted(T) /\ Awake(T) /\ Loses(S, T, {S.tq[q].reader.id})
  BY DEF Carries
<1>1. \A p : Named(S, p) => Named(T, p)
  BY DEF OnlyReader, Named
<1>2. Counted(T)
  BY <1>1 DEF OnlyReader, Counted
<1>3. Awake(T)
  BY ListTypes DEF OnlyReader, Awake, Rests
<1>4. Loses(S, T, {S.tq[q].reader.id})
  BY DEF OnlyReader, Loses, Has
<1> QED
  BY <1>2, <1>3, <1>4

\* A task blocks in read(), on a queue that nobody reads yet.
LEMMA MakeReadingCarries ==
  ASSUME NEW S, Sound(S), NEW q \in Live(S), NEW t \in Tasks, t.progr \in Progrs,
         ~reading(S, q), ~is_out_of_input(S, q), NEW D
  PROVE  Carries(S, make_reading_task(S, q, t), D)
<1> SUFFICES ASSUME Counted(S), Awake(S)
             PROVE  Carries(S, make_reading_task(S, q, t), D)
  BY DEF Carries
<1>1. S \in Good /\ q \in Queues
  BY LiveType DEF Sound
<1>2. PICK C : C = [S EXCEPT !.tq[q].reader = t]
  OBVIOUS
<1>3. OnlyReader(S, C, q, t) /\ Sound(C) /\ C \in Good /\ Linked(C, {})
  BY <1>1, <1>2, ReaderSet, SetReaderSound DEF Sound
<1>4. \A p : Named(S, p) => Named(C, p)
  BY <1>3 DEF OnlyReader, Named
<1>5. Counted(C)
  BY <1>3, <1>4 DEF OnlyReader, Counted
<1>6. Loses(S, C, {})
  BY <1>3 DEF OnlyReader, Loses, Has, reading
<1>7. \A r \in C.idle \ {q} : Rests(C.tq[r])
  BY <1>1, <1>3, ListTypes DEF OnlyReader, Awake, Rests
<1>8. PICK T : T = make_reading_task(S, q, t)
  OBVIOUS
<1>9. CASE S.tq[q].input = <<>>
  <2>1. T = C
    BY <1>2, <1>8, <1>9 DEF make_reading_task
  <2>2. Rests(C.tq[q])
    BY <1>1, <1>3, <1>9 DEF OnlyReader, Rests, is_out_of_input
  <2>3. Awake(C)
    BY <1>7, <2>2 DEF Awake
  <2> QED
    BY <1>5, <1>6, <1>8, <2>1, <2>3 DEF Carries, Loses
<1>10. CASE S.tq[q].input # <<>>
  <2>1. T = ensure_usage(C, q)
    BY <1>2, <1>8, <1>10 DEF make_reading_task
  <2>2. /\ Books(C, T)
        /\ T.idle = C.idle \ {q}
        /\ \A r \in Queues : /\ T.tq[r].input = C.tq[r].input
                             /\ T.tq[r].hold = C.tq[r].hold
                             /\ T.tq[r].connected = C.tq[r].connected
    BY <1>1, <1>3, <2>1, EnsureUsageBooks
  <2>3. C.idle \subseteq Queues
    BY <1>3, ListTypes
  <2>4. Awake(T)
    BY <1>7, <2>2, <2>3 DEF Awake, Rests, Books
  <2>5. Counted(T) /\ Loses(C, T, {})
    BY <1>5, <2>2, BooksCounted, BooksLoses
  <2> QED
    BY <1>6, <1>8, <2>4, <2>5 DEF Carries, Loses
<1> QED
  BY <1>9, <1>10

-----------------------------------------------------------------------------
(* The ends of run_ready_tasks(), and connections that are opened. *)

\* run_ready_tasks() gives up on a queue that has nothing to do.
LEMMA GoIdleCarries ==
  ASSUME NEW S, Sound(S), S.active # <<>>, Rests(S.tq[S.active[1]]), NEW D
  PROVE  Carries(S, deactivate_tqueue([S EXCEPT !.active = Tail(S.active)], S.active[1]), D)
<1>1. PICK q : q = S.active[1]
  OBVIOUS
<1>2. PICK C : C = [S EXCEPT !.active = Tail(S.active)]
  OBVIOUS
<1>3. /\ S \in Good /\ C \in Good /\ q \in Queues
      /\ C.tq = S.tq /\ C.idle = S.idle
  BY <1>1, <1>2, TailLinked DEF Sound
<1>4. C.waiting = S.waiting
  BY <1>2, <1>3 DEF Good, States
<1>5. PICK T : T = deactivate_tqueue(C, q)
  OBVIOUS
<1>6. PICK f : f = [S.tq[q] EXCEPT !.usage = NO_USAGE]
  OBVIOUS
<1>7. T.tq = [S.tq EXCEPT ![q] = f] /\ T.waiting = S.waiting /\ T.idle = S.idle \cup {q}
  BY <1>3, <1>4, <1>5, <1>6 DEF deactivate_tqueue, Good, States
<1>8. /\ f.player = S.tq[q].player /\ f.bg = S.tq[q].bg /\ f.num = S.tq[q].num
      /\ f.reader = S.tq[q].reader /\ f.input = S.tq[q].input /\ f.hold = S.tq[q].hold
      /\ f.connected = S.tq[q].connected
  BY <1>3, <1>6 DEF Good, States, TQueues
<1>9. Books(S, T)
  BY <1>3, <1>7, <1>8, QueueBooks
<1>10. T.tq[q] = f /\ \A r \in Queues : r # q => T.tq[r] = S.tq[r]
  BY <1>3, <1>7 DEF Good, States
<1>11. Rests(T.tq[q])
  BY <1>1, <1>8, <1>10 DEF Rests
<1>12. Awake(S) => Awake(T)
  <2>1. S.idle \subseteq Queues
    BY <1>3, ListTypes
  <2> QED
    BY <1>7, <1>10, <1>11, <2>1 DEF Awake
<1>13. Carries(S, T, D)
  BY <1>9, <1>12, FrameCarries DEF Frame
<1> QED
  BY <1>1, <1>2, <1>5, <1>13

\* The queue that ran is charged.
LEMMA ChargeUsageFrame ==
  ASSUME NEW S \in Good, NEW q \in Queues, NEW n
  PROVE  Frame(S, charge_usage(S, q, n))
<1>1. PICK u : u = S.tq[q].usage + n
  OBVIOUS
<1>2. PICK f : f = [S.tq[q] EXCEPT !.usage = u]
  OBVIOUS
<1>3. PICK C : C = [S EXCEPT !.active = AfterQueue(S.active, q), !.tq[q].usage = u]
  OBVIOUS
<1>4. PICK T : T = charge_usage(S, q, n)
  OBVIOUS
<1>5. T = activate_tqueue(C, q)
  BY <1>1, <1>3, <1>4 DEF charge_usage, Good, States
<1>6. C.tq = [S.tq EXCEPT ![q] = f] /\ C.waiting = S.waiting /\ C.idle = S.idle
  BY <1>2, <1>3 DEF Good, States
<1>7. T.tq = C.tq /\ T.waiting = C.waiting /\ T.idle = C.idle
  BY <1>3, <1>5 DEF activate_tqueue, Good, States
<1>8. /\ f.player = S.tq[q].player /\ f.bg = S.tq[q].bg /\ f.num = S.tq[q].num
      /\ f.reader = S.tq[q].reader /\ f.input = S.tq[q].input /\ f.hold = S.tq[q].hold
      /\ f.connected = S.tq[q].connected
  BY <1>2 DEF Good, States, TQueues
<1>9. Books(S, T)
  BY <1>6, <1>7, <1>8, QueueBooks
<1>10. T.tq[q] = f /\ \A r \in Queues : r # q => T.tq[r] = S.tq[r]
  BY <1>6, <1>7 DEF Good, States
<1>11. Quiet(S, T)
  BY <1>6, <1>7, <1>8, <1>10, ListTypes DEF Quiet
<1>12. Frame(S, T)
  BY <1>9, <1>11, QuietFrame
<1> QED
  BY <1>4, <1>12

\* A programmer with no task counted has none.
LEMMA CountZero ==
  ASSUME NEW w \in Seq(Tasks), NEW p
  PROVE  Count(w, p) = 0 <=> \A t \in Elems(w) : t.progr # p
<1>1. PICK A : A = {i \in 1..Len(w) : w[i].progr = p}
  OBVIOUS
<1>2. IsFiniteSet(A)
  <2>1. IsFiniteSet(1..Len(w))
    BY FS_Interval
  <2>2. A \in SUBSET (1..Len(w))
    BY <1>1
  <2> QED
    BY <2>1, <2>2, FS_Subset
<1>3. Count(w, p) = 0 <=> A = {}
  BY <1>1, <1>2, FS_EmptySet DEF Count
<1>4. A = {} <=> \A i \in 1..Len(w) : w[i].progr # p
  BY <1>1
<1>5. (\A i \in 1..Len(w) : w[i].progr # p) <=> \A t \in Elems(w) : t.progr # p
  BY DEF Elems
<1> QED
  BY <1>3, <1>4, <1>5

\* A queue is freed only when none of its player's tasks is queued.
LEMMA FreeIdleCarries ==
  ASSUME NEW S, Sound(S), NEW D
  PROVE  Carries(S, free_idle_tqueues(S), D)
<1>1. PICK dead : dead = {q \in S.idle : is_out_of_input(S, q) /\ S.tq[q].num = 0}
  OBVIOUS
<1>2. PICK T : T = free_idle_tqueues(S)
  OBVIOUS
<1>3. T = [S EXCEPT !.idle = S.idle \ dead,
                    !.tq = [q \in Queues |-> IF q \in dead THEN NewTQueue ELSE S.tq[q]]]
  BY <1>1, <1>2 DEF free_idle_tqueues
<1>4. S \in Good /\ S.idle \subseteq Queues /\ S.waiting \in Seq(Tasks)
  BY ListTypes, WaitingType DEF Sound
<1>5. /\ T.idle = S.idle \ dead /\ T.waiting = S.waiting
      /\ \A q \in Queues : q \in dead => T.tq[q] = NewTQueue
      /\ \A q \in Queues : q \notin dead => T.tq[q] = S.tq[q]
  BY <1>3, <1>4 DEF Good, States
<1> SUFFICES ASSUME Counted(S), Awake(S)
             PROVE  Counted(T) /\ Awake(T) /\ Loses(S, T, D)
  BY <1>2 DEF Carries
<1>6. \A q \in dead : /\ q \in Queues /\ Elems(S.tq[q].bg) = {} /\ S.tq[q].reader = NoTask
                      /\ \A t \in Elems(S.waiting) : t.progr # S.tq[q].player
  <2> SUFFICES ASSUME NEW q \in dead
               PROVE  /\ q \in Queues /\ Elems(S.tq[q].bg) = {} /\ S.tq[q].reader = NoTask
                      /\ \A t \in Elems(S.waiting) : t.progr # S.tq[q].player
    OBVIOUS
  <2>1. q \in S.idle /\ q \in Queues /\ ~S.tq[q].connected /\ S.tq[q].num = 0
    BY <1>1, <1>4 DEF is_out_of_input
  <2>2. PICK bg \in Seq(Tasks) : bg = S.tq[q].bg
    BY <1>4, <2>1, QueueType
  <2>3. PICK p : p = S.tq[q].player
    OBVIOUS
  <2>4. Count(S.waiting, p) \in Nat /\ Len(bg) \in Nat
    BY <1>4, <2>2, CountType
  <2>5. 0 = Len(bg) + Count(S.waiting, p)
    BY <2>1, <2>2, <2>3 DEF Counted
  <2>6. Len(bg) = 0 /\ Count(S.waiting, p) = 0
    BY <2>4, <2>5
  <2>7. Elems(bg) = {}
    BY <2>6 DEF Elems
  <2>8. \A t \in Elems(S.waiting) : t.progr # p
    BY <1>4, <2>6, CountZero
  <2>9. S.tq[q].reader = NoTask
    BY <2>1 DEF Awake, Rests
  <2> QED
    BY <2>1, <2>2, <2>3, <2>7, <2>8, <2>9
<1>7. \A t \in Elems(S.waiting) : t.progr \in Progrs /\ Named(T, t.progr)
  <2> SUFFICES ASSUME NEW t \in Elems(S.waiting)
               PROVE  t.progr \in Progrs /\ Named(T, t.progr)
    OBVIOUS
  <2>1. PICK r \in Queues : S.tq[r].player = t.progr
    BY DEF Counted, Named
  <2>2. r \notin dead
    BY <1>6, <2>1
  <2>3. T.tq[r].player = t.progr
    BY <1>5, <2>1, <2>2
  <2> QED
    BY <2>1, <2>3 DEF Counted, Named
<1>8. Elems(<<>>) = {}
  BY DEF Elems
<1>9. Count(S.waiting, NOTHING) = 0
  BY <1>4, <1>7, CountZero, ProgrsFacts
<1>10. Counted(T)
  <2>1. \A q \in Queues : \A t \in Elems(T.tq[q].bg) :
          t.progr \in Progrs /\ t.progr = T.tq[q].player
    BY <1>5, <1>8, ProgrsFacts DEF Counted
  <2>2. \A q \in Queues : T.tq[q].num = Len(T.tq[q].bg) + Count(T.waiting, T.tq[q].player)
    <3> SUFFICES ASSUME NEW q \in Queues
                 PROVE  T.tq[q].num = Len(T.tq[q].bg) + Count(T.waiting, T.tq[q].player)
      OBVIOUS
    <3>1. CASE q \in dead
      BY <1>5, <1>9, <3>1, ProgrsFacts
    <3>2. CASE q \notin dead
      BY <1>5, <3>2 DEF Counted
    <3> QED
      BY <3>1, <3>2
  <2>3. \A q \in Queues : T.tq[q].reader # NoTask => T.tq[q].reader.progr \in Progrs
    BY <1>5, ProgrsFacts DEF Counted
  <2> QED
    BY <1>5, <1>7, <2>1, <2>2, <2>3 DEF Counted
<1>11. Awake(T)
  BY <1>4, <1>5 DEF Awake
<1>12. Loses(S, T, D)
  BY <1>5, <1>6 DEF Loses, Has
<1> QED
  BY <1>10, <1>11, <1>12

\* A connection is opened, on a queue that may be made for it.
LEMMA NewConnectionCarries ==
  ASSUME NEW S, Sound(S), NEW h \in Handles, ~S.sh[h].open, NEW outbound \in BOOLEAN, NEW D
  PROVE  Carries(S, server_new_connection(S, h, outbound), D)
<1>1. PICK M : M = with_tqueue(S, ConnId(h))
  OBVIOUS
<1>2. PICK q : q = find_tqueue(M, ConnId(h))
  OBVIOUS
<1>3. ConnId(h) \in Progrs /\ ConnId(h) \in Objids
  BY DEF Progrs, Objids
<1>4. Sound(M) /\ M.sh = S.sh /\ M \in Good /\ Carries(S, M, D)
  BY <1>1, <1>3, WithTqueueSound, MadeCarries DEF Sound
<1>5. CASE q = Null
  <2>1. server_new_connection(S, h, outbound) = M
    BY <1>1, <1>2, <1>5 DEF server_new_connection
  <2> QED
    BY <1>4, <2>1
<1>6. CASE q # Null
  <2>1. q \in Live(M) /\ q \in Queues /\ M.tq[q].player = ConnId(h)
    BY <1>2, <1>4, <1>6, FindTqueueType, LiveType
  <2>2. PICK O : O = Opened(M, q, h, outbound)
    OBVIOUS
  <2>3. ~M.sh[h].open
    BY <1>4
  <2>4. Sound(O) /\ O \in Good /\ OnlyOpened(M, O, q, h)
    BY <1>4, <2>1, <2>2, <2>3, OpenedSound DEF Sound
  <2>5. PICK f : f = [M.tq[q] EXCEPT !.connected = TRUE]
    OBVIOUS
  <2>6. /\ f.player = M.tq[q].player /\ f.bg = M.tq[q].bg /\ f.num = M.tq[q].num
        /\ f.reader = M.tq[q].reader /\ f.input = M.tq[q].input /\ f.hold = M.tq[q].hold
        /\ f.connected
    BY <1>4, <2>1, <2>5 DEF Good, States, TQueues
  <2>7. O.tq = [M.tq EXCEPT ![q] = f] /\ O.idle = M.idle /\ O.waiting = M.waiting
        /\ O.active = M.active
    BY <2>4, <2>5 DEF OnlyOpened
  <2>8. O.tq[q] = f /\ \A r \in Queues : r # q => O.tq[r] = M.tq[r]
    BY <1>4, <2>1, <2>7 DEF Good, States
  <2>9. Books(M, O)
    BY <1>4, <2>1, <2>6, <2>7, QueueBooks
  <2>10. M.idle \subseteq Queues
    BY <1>4, ListTypes
  <2>11. Rests(M.tq[q]) => Rests(O.tq[q])
    BY <2>6, <2>8 DEF Rests
  <2>12. Frame(M, O)
    BY <2>7, <2>8, <2>9, <2>10, <2>11 DEF Awake, Frame
  <2>13. q \in Live(O) /\ "blank" \in Lines /\ FALSE \in BOOLEAN
    BY <2>1, <2>7 DEF Live, Lines
  <2>14. PICK A : A = enqueue_input_task(O, q, "blank", FALSE)
    OBVIOUS
  <2>15. Sound(A) /\ A \in Good /\ Frame(O, A)
    BY <2>4, <2>13, <2>14, EnqueueInputSound, EnqueueInputBooks DEF Sound
  <2>16. Frame(A, task_suspend_input(A, q))
    BY <2>1, <2>15, TaskSuspendBooks
  <2>17. PICK T : T = server_new_connection(S, h, outbound)
    OBVIOUS
  <2>18. T = O \/ T = task_suspend_input(A, q)
    BY <1>1, <1>2, <1>6, <2>2, <2>14, <2>17 DEF server_new_connection, Opened
  <2>19. Frame(M, T)
    BY <2>12, <2>15, <2>16, <2>18, FrameTrans
  <2>20. Carries(M, T, D)
    BY <2>19, FrameCarries
  <2> QED
    BY <1>4, <2>17, <2>20, CarriesTrans
<1> QED
  BY <1>5, <1>6

-----------------------------------------------------------------------------
(* The tasks of a login. *)

\* The ready tasks of one queue and their count are set.
SetBg(S, q, bg, n) == [S EXCEPT !.tq[q].bg = bg, !.tq[q].num = n]

OnlyBg(S, T, q, bg, n) ==
  /\ T.waiting = S.waiting /\ T.idle = S.idle
  /\ \A r \in Queues : /\ T.tq[r].player = S.tq[r].player
                       /\ T.tq[r].reader = S.tq[r].reader
                       /\ T.tq[r].input = S.tq[r].input
                       /\ T.tq[r].hold = S.tq[r].hold
                       /\ T.tq[r].connected = S.tq[r].connected
  /\ \A r \in Queues : r # q => T.tq[r].bg = S.tq[r].bg /\ T.tq[r].num = S.tq[r].num
  /\ T.tq[q].bg = bg /\ T.tq[q].num = n

LEMMA BgSet ==
  ASSUME NEW S \in Good, NEW q \in Queues, NEW bg \in Seq(Tasks), NEW n \in Int
  PROVE  SetBg(S, q, bg, n) \in Good /\ OnlyBg(S, SetBg(S, q, bg, n), q, bg, n)
<1>1. PICK T : T = SetBg(S, q, bg, n)
  OBVIOUS
<1>2. T = [S EXCEPT !.tq[q].bg = bg, !.tq[q].num = n]
  BY <1>1 DEF SetBg
<1>3. T \in Good
  BY <1>2, SetBgNumType
<1>4. PICK f : f = [S.tq[q] EXCEPT !.bg = bg, !.num = n]
  OBVIOUS
<1>5. T.tq = [S.tq EXCEPT ![q] = f] /\ T.waiting = S.waiting /\ T.idle = S.idle
  BY <1>2, <1>4 DEF Good, States
<1>6. /\ f.player = S.tq[q].player /\ f.bg = bg /\ f.num = n
      /\ f.reader = S.tq[q].reader /\ f.input = S.tq[q].input /\ f.hold = S.tq[q].hold
      /\ f.connected = S.tq[q].connected
  BY <1>4 DEF Good, States, TQueues
<1>7. T.tq[q] = f /\ \A r \in Queues : r # q => T.tq[r] = S.tq[r]
  BY <1>5 DEF Good, States
<1>8. OnlyBg(S, T, q, bg, n)
  BY <1>5, <1>6, <1>7 DEF OnlyBg
<1> QED
  BY <1>1, <1>3, <1>8

\* A queue o is made for p.
MadeNew(S, T, o, p) ==
  /\ T.waiting = S.waiting
  /\ S.tq[o] = NewTQueue
  /\ \A r \in Queues : r # o => T.tq[r] = S.tq[r]
  /\ T.tq[o].player = p /\ T.tq[o].bg = <<>> /\ T.tq[o].num = 0
  /\ T.tq[o].reader = NoTask /\ T.tq[o].input = <<>>
  /\ Awake(S) => Awake(T)

LEMMA MadeNewQueue ==
  ASSUME NEW S \in Good, Linked(S, {}), NEW p \in Objids, \A r \in Live(S) : S.tq[r].player # p,
         ~IsFiniteSet(Queues), NEW T, T = with_tqueue(S, p), NEW o, o = find_tqueue(T, p)
  PROVE  o \in Queues \ Live(S) /\ T \in Good /\ MadeNew(S, T, o, p)
<1>1. find_tqueue(S, p) = Null
  BY FindTqueueType
<1>2. ~(Queues \subseteq Live(S))
  BY LiveFinite, FS_Subset
<1>3. PICK n \in Queues \ Live(S) : n = CHOOSE q \in Queues \ Live(S) : TRUE
  BY <1>2
<1>4. PICK f \in TQueues : f = [NewTQueue EXCEPT !.player = p]
  BY NewTypes DEF TQueues
<1>5. PICK C : C = [S EXCEPT !.tq[n] = f]
  OBVIOUS
<1>6. C \in Good
  BY <1>3, <1>4, <1>5, UpdateQueue
<1>7. T = deactivate_tqueue(C, n)
  BY <1>1, <1>2, <1>3, <1>4, <1>5 DEF with_tqueue
<1>8. /\ C.tq = [S.tq EXCEPT ![n] = f] /\ C.waiting = S.waiting
      /\ C.idle = S.idle /\ C.active = S.active
  BY <1>5 DEF Good, States
<1>9. C.tq[n] = f /\ \A r \in Queues : r # n => C.tq[r] = S.tq[r]
  BY <1>3, <1>8 DEF Good, States
<1>10. PICK g : g = [f EXCEPT !.usage = NO_USAGE]
  OBVIOUS
<1>11. /\ T.tq = [C.tq EXCEPT ![n] = g] /\ T.waiting = C.waiting
       /\ T.idle = C.idle \cup {n} /\ T.active = C.active
  BY <1>3, <1>6, <1>7, <1>9, <1>10 DEF deactivate_tqueue, Good, States
<1>12. T.tq[n] = g /\ \A r \in Queues : r # n => T.tq[r] = S.tq[r]
  BY <1>3, <1>6, <1>9, <1>11 DEF Good, States
<1>13. /\ f.player = p /\ f.bg = <<>> /\ f.num = 0 /\ f.reader = NoTask
       /\ f.input = <<>>
  BY <1>4 DEF NewTQueue
<1>14. /\ g.player = p /\ g.bg = <<>> /\ g.num = 0 /\ g.reader = NoTask
       /\ g.input = <<>>
  BY <1>4, <1>10, <1>13 DEF TQueues
<1>15. T \in Good
  BY <1>3, <1>6, <1>7, DeactivateType
<1>16. Awake(S) => Awake(T)
  <2>1. Rests(T.tq[n])
    BY <1>12, <1>14 DEF Rests
  <2>2. S.idle \subseteq Queues
    BY ListTypes
  <2> QED
    BY <1>8, <1>11, <1>12, <2>1, <2>2 DEF Awake
<1>17. S.tq[n] = NewTQueue
  BY <1>3 DEF Linked
<1>18. o = n
  <2>1. n \in Live(T) /\ T.tq[n].player = p
    BY <1>11, <1>12, <1>14 DEF Live
  <2>2. o # Null
    BY <1>15, <2>1, NotFound
  <2>3. o \in Live(T) /\ T.tq[o].player = p
    BY <1>15, <2>2, FindTqueueType
  <2>4. Live(T) = Live(S) \cup {n}
    BY <1>8, <1>11 DEF Live
  <2>5. o \in Live(S) => o \in Queues /\ S.tq[o].player # p
    BY LiveType
  <2> QED
    BY <1>3, <1>12, <2>3, <2>4, <2>5
<1>19. MadeNew(S, T, n, p)
  BY <1>8, <1>11, <1>12, <1>14, <1>16, <1>17 DEF MadeNew
<1> QED
  BY <1>3, <1>15, <1>18, <1>19

\* The counts of every queue but q,
Others(S, q) ==
  /\ \A t \in Elems(S.waiting) : t.progr \in Progrs
  /\ \A r \in Queues \ {q} : \A t \in Elems(S.tq[r].bg) :
       t.progr \in Progrs /\ t.progr = S.tq[r].player
  /\ \A r \in Queues \ {q} :
       S.tq[r].num = Len(S.tq[r].bg) + Count(S.waiting, S.tq[r].player)
  /\ \A r \in Queues : S.tq[r].reader # NoTask => S.tq[r].reader.progr \in Progrs

\* when the tasks of q are still those of old,
Renamed(S, q, old) ==
  /\ Others(S, q)
  /\ \A t \in Elems(S.waiting) :
       t.progr = old \/ \E r \in Queues \ {q} : S.tq[r].player = t.progr
  /\ \A t \in Elems(S.tq[q].bg) : t.progr = old
  /\ S.tq[q].num = Len(S.tq[q].bg) + Count(S.waiting, old)

\* and when q has none left.
Emptied(S, q) ==
  /\ Others(S, q)
  /\ \A t \in Elems(S.waiting) : \E r \in Queues \ {q} : S.tq[r].player = t.progr
  /\ S.tq[q].bg = <<>> /\ S.tq[q].num = 0

\* The queue of a connection that logs in is renamed.
LEMMA RenameCarries ==
  ASSUME NEW S, Sound(S), Counted(S), Awake(S), NEW q \in Live(S), NEW old \in Progrs,
         old = S.tq[q].player, NEW new, NEW N, N = [S EXCEPT !.tq[q].player = new]
  PROVE  Renamed(N, q, old) /\ Awake(N) /\ Loses(S, N, {})
<1>1. S \in Good /\ q \in Queues /\ S.idle \subseteq Queues
  BY LiveType, ListTypes DEF Sound
<1>2. PICK f : f = [S.tq[q] EXCEPT !.player = new]
  OBVIOUS
<1>3. N.tq = [S.tq EXCEPT ![q] = f] /\ N.waiting = S.waiting /\ N.idle = S.idle
  BY <1>1, <1>2 DEF Good, States
<1>4. /\ f.bg = S.tq[q].bg /\ f.num = S.tq[q].num
      /\ f.reader = S.tq[q].reader /\ f.input = S.tq[q].input /\ f.hold = S.tq[q].hold
      /\ f.connected = S.tq[q].connected
  BY <1>1, <1>2 DEF Good, States, TQueues
<1>5. N.tq[q] = f /\ \A r \in Queues : r # q => N.tq[r] = S.tq[r]
  BY <1>1, <1>3 DEF Good, States
<1>6. Others(N, q)
  BY <1>1, <1>3, <1>4, <1>5 DEF Counted, Others
<1>7. \A t \in Elems(N.waiting) :
        t.progr = old \/ \E r \in Queues \ {q} : N.tq[r].player = t.progr
  BY <1>3, <1>5 DEF Counted, Named
<1>8. \A t \in Elems(N.tq[q].bg) : t.progr = old
  BY <1>1, <1>4, <1>5 DEF Counted
<1>9. N.tq[q].num = Len(N.tq[q].bg) + Count(N.waiting, old)
  <2>1. S.tq[q].num = Len(S.tq[q].bg) + Count(S.waiting, S.tq[q].player)
    BY <1>1 DEF Counted
  <2> QED
    BY <1>3, <1>4, <1>5, <2>1
<1>10. Awake(N)
  BY <1>1, <1>3, <1>4, <1>5 DEF Awake, Rests
<1>11. Loses(S, N, {})
  <2>1. \A r \in Queues : N.tq[r].bg = S.tq[r].bg /\ N.tq[r].reader = S.tq[r].reader
    BY <1>4, <1>5
  <2> QED
    BY <1>3, <2>1 DEF Loses, Has
<1> QED
  BY <1>6, <1>7, <1>8, <1>9, <1>10, <1>11 DEF Renamed

\* The tasks it queued go to a queue made for the number of the connection.
LEMMA MoveBgCarries ==
  ASSUME NEW N \in Good, Linked(N, {}), NEW q \in Live(N), NEW old \in Progrs,
         \A r \in Live(N) : N.tq[r].player # old, ~IsFiniteSet(Queues),
         Renamed(N, q, old), Awake(N), NEW B, B = move_bg_to_old_player(N, q, old)
  PROVE  /\ Emptied(B, q) /\ Awake(B) /\ Loses(N, B, {})
         /\ \A r \in Queues : N.tq[r].player # NOTHING => B.tq[r].player = N.tq[r].player
         /\ \A r \in Queues : B.tq[r].player # old => B.tq[r].player = N.tq[r].player
<1>1. q \in Queues /\ old \in Objids
  BY LiveType DEF Objids
<1>2. PICK n \in Int : n = N.tq[q].num
  BY <1>1, NumType
<1>3. PICK bg \in Seq(Tasks) : bg = N.tq[q].bg
  BY <1>1, QueueType
<1>4. PICK w \in Seq(Tasks) : w = N.waiting
  BY WaitingType
<1>5. n = Len(bg) + Count(w, old) /\ Len(bg) \in Nat /\ Count(w, old) \in Nat
  BY <1>2, <1>3, <1>4, CountType DEF Renamed
<1>6. CASE n = 0
  <2>1. B = N
    BY <1>2, <1>6 DEF move_bg_to_old_player
  <2>2. Len(bg) = 0 /\ Count(w, old) = 0
    BY <1>5, <1>6
  <2>3. bg = <<>>
    BY <2>2, EmptySeq
  <2>4. \A t \in Elems(w) : t.progr # old
    BY <2>2, CountZero
  <2>5. Emptied(B, q)
    BY <1>2, <1>3, <1>4, <1>6, <2>1, <2>3, <2>4 DEF Renamed, Emptied
  <2> QED
    BY <2>1, <2>5 DEF Loses
<1>7. CASE n # 0
  <2>1. PICK M : M = with_tqueue(N, old)
    OBVIOUS
  <2>2. PICK o : o = find_tqueue(M, old)
    OBVIOUS
  <2>3. o \in Queues \ Live(N) /\ M \in Good /\ MadeNew(N, M, o, old)
    BY <1>1, <2>1, <2>2, MadeNewQueue
  <2>4. o # q /\ o # Null
    BY <2>3, NullIsNoQueue
  <2>5. M.tq[o].bg \o bg = bg
    BY <2>3, ConcatEmptySeq DEF MadeNew
  <2>6. PICK A : A = SetBg(M, o, bg, n)
    OBVIOUS
  <2>7. A \in Good /\ OnlyBg(M, A, o, bg, n)
    BY <2>3, <2>6, BgSet
  <2>8. <<>> \in Seq(Tasks) /\ 0 \in Int
    BY SMTT(40)
  <2>9. B = SetBg(A, q, <<>>, 0)
    BY <1>2, <1>3, <1>7, <2>1, <2>2, <2>4, <2>5, <2>6 DEF SetBg, move_bg_to_old_player
  <2>10. OnlyBg(A, B, q, <<>>, 0)
    BY <1>1, <2>7, <2>8, <2>9, BgSet
  \* All told:
  <2>11. B.waiting = w
    BY <1>4, <2>3, <2>7, <2>10 DEF MadeNew, OnlyBg
  <2>12. \A r \in Queues : r # o /\ r # q =>
           /\ B.tq[r].player = N.tq[r].player /\ B.tq[r].bg = N.tq[r].bg
           /\ B.tq[r].num = N.tq[r].num /\ B.tq[r].reader = N.tq[r].reader
    BY <2>3, <2>7, <2>10 DEF MadeNew, OnlyBg
  <2>13. /\ B.tq[o].player = old /\ B.tq[o].bg = bg /\ B.tq[o].num = n
         /\ B.tq[o].reader = NoTask
    BY <1>1, <2>3, <2>4, <2>7, <2>10 DEF MadeNew, OnlyBg
  <2>14. /\ B.tq[q].player = N.tq[q].player /\ B.tq[q].bg = <<>> /\ B.tq[q].num = 0
         /\ B.tq[q].reader = N.tq[q].reader
    BY <1>1, <2>3, <2>4, <2>7, <2>10 DEF MadeNew, OnlyBg
  <2>15. Awake(B)
    <3>1. Awake(M) /\ M.idle \subseteq Queues
      BY <2>3, ListTypes DEF MadeNew
    <3>2. B.idle = M.idle /\ \A r \in Queues : /\ B.tq[r].reader = M.tq[r].reader
                                               /\ B.tq[r].input = M.tq[r].input
                                               /\ B.tq[r].hold = M.tq[r].hold
                                               /\ B.tq[r].connected = M.tq[r].connected
      BY <2>7, <2>10 DEF OnlyBg
    <3> QED
      BY <3>1, <3>2 DEF Awake, Rests
  <2>16. /\ N.tq[o].player = NOTHING /\ N.tq[o].bg = <<>> /\ N.tq[o].reader = NoTask
    BY <2>3, ProgrsFacts DEF MadeNew
  <2>17. \A t \in Elems(B.waiting) : \E r \in Queues \ {q} : B.tq[r].player = t.progr
    <3> SUFFICES ASSUME NEW t \in Elems(w)
                 PROVE  \E r \in Queues \ {q} : B.tq[r].player = t.progr
      BY <2>11
    <3>1. CASE t.progr = old
      BY <2>3, <2>4, <2>13, <3>1
    <3>2. CASE t.progr # old
      <4>1. PICK r \in Queues \ {q} : N.tq[r].player = t.progr
        BY <1>4, <3>2 DEF Renamed
      <4>2. t.progr \in Progrs
        BY <1>4 DEF Renamed, Others
      <4>3. r # o
        BY <2>16, <4>1, <4>2, ProgrsFacts
      <4> QED
        BY <2>12, <4>1, <4>3
    <3> QED
      BY <3>1, <3>2
  <2>18. Others(B, q)
    <3>1. \A t \in Elems(B.waiting) : t.progr \in Progrs
      BY <1>4, <2>11 DEF Renamed, Others
    <3>2. \A r \in Queues \ {q} : \A t \in Elems(B.tq[r].bg) :
            t.progr \in Progrs /\ t.progr = B.tq[r].player
      BY <1>3, <2>12, <2>13 DEF Renamed, Others
    <3>3. \A r \in Queues \ {q} :
            B.tq[r].num = Len(B.tq[r].bg) + Count(B.waiting, B.tq[r].player)
      BY <1>4, <1>5, <2>11, <2>12, <2>13, SMTT(40) DEF Renamed, Others
    <3>4. \A r \in Queues : B.tq[r].reader # NoTask => B.tq[r].reader.progr \in Progrs
      BY <2>12, <2>13, <2>14 DEF Renamed, Others
    <3> QED
      BY <3>1, <3>2, <3>3, <3>4 DEF Others
  <2>19. Emptied(B, q)
    BY <2>14, <2>17, <2>18 DEF Emptied
  <2>20. Loses(N, B, {})
    <3> SUFFICES ASSUME NEW id \in Nat, Has(N, id)
                 PROVE  Has(B, id)
      BY DEF Loses
    <3>1. ASSUME NEW t \in Elems(N.waiting), t.id = id
          PROVE  Has(B, id)
      BY <1>4, <2>11, <3>1 DEF Has
    <3>2. ASSUME NEW r \in Queues, NEW t \in Elems(N.tq[r].bg), t.id = id
          PROVE  Has(B, id)
      <4>1. CASE r = q
        <5>1. t \in Elems(B.tq[o].bg)
          BY <1>3, <2>13, <3>2, <4>1
        <5> QED
          BY <2>3, <3>2, <5>1 DEF Has
      <4>2. r # o
        BY <2>16, <3>2 DEF Elems
      <4>3. CASE r # q
        <5>1. t \in Elems(B.tq[r].bg)
          BY <2>12, <3>2, <4>2, <4>3
        <5> QED
          BY <3>2, <5>1 DEF Has
      <4> QED
        BY <4>1, <4>3
    <3>3. ASSUME NEW r \in Queues, N.tq[r].reader # NoTask, N.tq[r].reader.id = id
          PROVE  Has(B, id)
      <4>1. B.tq[r].reader = N.tq[r].reader
        BY <2>12, <2>14, <2>16, <3>3
      <4> QED
        BY <3>3, <4>1 DEF Has
    <3> QED
      BY <3>1, <3>2, <3>3 DEF Has
  <2> QED
    BY <2>12, <2>13, <2>14, <2>15, <2>16, <2>19, <2>20
<1> QED
  BY <1>6, <1>7

\* Then the player's former queue hands over its own.
LEMMA TakeOverCarries ==
  ASSUME NEW B \in Good, NEW q \in Queues, NEW dead \in Queues \cup {Null}, q # dead,
         NEW new \in Progrs, B.tq[q].player = new,
         dead # Null => B.tq[dead].player = new,
         \A r \in Queues \ {q} : B.tq[r].player = new => r = dead,
         Emptied(B, q), Awake(B), NEW C, C = take_over_queue(B, q, dead)
  PROVE  Counted(C) /\ Awake(C) /\ Loses(B, C, {})
<1>1. PICK w \in Seq(Tasks) : w = B.waiting
  BY WaitingType
<1>2. CASE dead = Null
  <2>1. C = B
    BY <1>2 DEF take_over_queue
  <2>2. \A r \in Queues \ {q} : B.tq[r].player # new
    BY <1>2, NullIsNoQueue
  <2>3. \A t \in Elems(w) : t.progr # new
    BY <1>1, <2>2 DEF Emptied
  <2>4. Count(w, new) = 0 /\ Elems(<<>>) = {} /\ Len(<<>>) = 0
    BY <2>3, CountZero, EmptySeq DEF Elems
  <2>5. \A t \in Elems(B.waiting) : t.progr \in Progrs /\ Named(B, t.progr)
    BY DEF Emptied, Others, Named
  <2>6. \A r \in Queues : \A t \in Elems(B.tq[r].bg) :
          t.progr \in Progrs /\ t.progr = B.tq[r].player
    BY <2>4 DEF Emptied, Others
  <2>7. \A r \in Queues : B.tq[r].num = Len(B.tq[r].bg) + Count(B.waiting, B.tq[r].player)
    <3>1. B.tq[q].num = Len(B.tq[q].bg) + Count(B.waiting, B.tq[q].player)
      BY <1>1, <2>4 DEF Emptied
    <3> QED
      BY <3>1 DEF Emptied, Others
  <2>8. Counted(B)
    BY <2>5, <2>6, <2>7 DEF Counted, Emptied, Others
  <2> QED
    BY <2>1, <2>8 DEF Loses
<1>3. CASE dead # Null
  <2>1. dead \in Queues
    BY <1>3
  <2>2. PICK F : F = flush_input(B, dead)
    OBVIOUS
  <2>3. F \in Good /\ Books(B, F) /\ Awake(F)
    BY <2>1, <2>2, FlushInputType, FlushInputBooks DEF Frame
  <2>4. PICK n \in Int : n = B.tq[dead].num
    BY <2>1, NumType
  <2>5. PICK bg \in Seq(Tasks) : bg = B.tq[dead].bg
    BY <2>1, QueueType
  <2>6. F.tq[q].bg \o bg = bg
    BY <2>3, ConcatEmptySeq DEF Books, Emptied
  <2>7. PICK A : A = SetBg(F, q, bg, n)
    OBVIOUS
  <2>8. A \in Good /\ OnlyBg(F, A, q, bg, n)
    BY <2>3, <2>7, BgSet
  <2>9. <<>> \in Seq(Tasks) /\ 0 \in Int
    OBVIOUS
  <2>10. PICK G : G = SetBg(A, dead, <<>>, 0)
    OBVIOUS
  <2>11. G \in Good /\ OnlyBg(A, G, dead, <<>>, 0)
    BY <2>1, <2>8, <2>9, <2>10, BgSet
  <2>12. C = [G EXCEPT !.tq[dead].player = NOTHING]
    BY <1>3, <2>2, <2>4, <2>5, <2>6, <2>7, <2>10 DEF SetBg, take_over_queue
  <2>13. PICK f : f = [G.tq[dead] EXCEPT !.player = NOTHING]
    OBVIOUS
  <2>14. C.tq = [G.tq EXCEPT ![dead] = f] /\ C.waiting = G.waiting /\ C.idle = G.idle
    BY <2>1, <2>11, <2>12, <2>13 DEF Good, States
  <2>15. /\ f.player = NOTHING /\ f.bg = G.tq[dead].bg /\ f.num = G.tq[dead].num
         /\ f.reader = G.tq[dead].reader /\ f.input = G.tq[dead].input
         /\ f.hold = G.tq[dead].hold /\ f.connected = G.tq[dead].connected
    BY <2>1, <2>11, <2>13 DEF Good, States, TQueues
  <2>16. C.tq[dead] = f /\ \A r \in Queues : r # dead => C.tq[r] = G.tq[r]
    BY <2>1, <2>11, <2>14 DEF Good, States
  \* All told:
  <2>17. C.waiting = w
    BY <1>1, <2>3, <2>8, <2>11, <2>14 DEF Books, OnlyBg
  <2>18. \A r \in Queues : r # dead /\ r # q =>
           /\ C.tq[r].player = B.tq[r].player /\ C.tq[r].bg = B.tq[r].bg
           /\ C.tq[r].num = B.tq[r].num
    BY <2>3, <2>8, <2>11, <2>16 DEF Books, OnlyBg
  <2>19. C.tq[q].player = new /\ C.tq[q].bg = bg /\ C.tq[q].num = n
    BY <2>3, <2>8, <2>11, <2>16 DEF Books, OnlyBg
  <2>20. C.tq[dead].player = NOTHING /\ C.tq[dead].bg = <<>> /\ C.tq[dead].num = 0
    BY <2>1, <2>11, <2>15, <2>16 DEF OnlyBg
  <2>21. \A r \in Queues : C.tq[r].reader = B.tq[r].reader
    BY <2>1, <2>3, <2>8, <2>11, <2>15, <2>16 DEF Books, OnlyBg
  <2>22. Awake(C)
    <3>1. Awake(F) /\ F.idle \subseteq Queues
      BY <2>3, ListTypes
    <3>2. C.idle = F.idle /\ \A r \in Queues : /\ C.tq[r].reader = F.tq[r].reader
                                               /\ C.tq[r].input = F.tq[r].input
                                               /\ C.tq[r].hold = F.tq[r].hold
                                               /\ C.tq[r].connected = F.tq[r].connected
      BY <2>1, <2>8, <2>11, <2>14, <2>15, <2>16 DEF OnlyBg
    <3> QED
      BY <3>1, <3>2 DEF Awake, Rests
  <2>23. /\ \A t \in Elems(bg) : t.progr \in Progrs /\ t.progr = new
         /\ n = Len(bg) + Count(w, new)
    BY <1>1, <1>3, <2>1, <2>4, <2>5 DEF Emptied, Others
  <2>24. \A t \in Elems(C.waiting) : t.progr \in Progrs /\ Named(C, t.progr)
    <3> SUFFICES ASSUME NEW t \in Elems(w)
                 PROVE  t.progr \in Progrs /\ Named(C, t.progr)
      BY <2>17
    <3>1. PICK r \in Queues \ {q} : B.tq[r].player = t.progr
      BY <1>1 DEF Emptied
    <3>2. t.progr \in Progrs
      BY <1>1 DEF Emptied, Others
    <3>3. CASE r = dead
      BY <1>3, <2>19, <3>1, <3>2, <3>3 DEF Named
    <3>4. CASE r # dead
      BY <2>18, <3>1, <3>2, <3>4 DEF Named
    <3> QED
      BY <3>3, <3>4
  <2>25. Elems(<<>>) = {} /\ Len(<<>>) = 0 /\ Count(w, NOTHING) = 0
    <3>1. \A t \in Elems(w) : t.progr # NOTHING
      BY <2>17, <2>24, ProgrsFacts
    <3> QED
      BY <3>1, CountZero, EmptySeq DEF Elems
  <2>26. \A r \in Queues : \A t \in Elems(C.tq[r].bg) :
           t.progr \in Progrs /\ t.progr = C.tq[r].player
    <3> SUFFICES ASSUME NEW r \in Queues
                 PROVE  \A t \in Elems(C.tq[r].bg) : t.progr \in Progrs /\ t.progr = C.tq[r].player
      OBVIOUS
    <3>1. CASE r = q
      BY <2>19, <2>23, <3>1
    <3>2. CASE r = dead
      BY <2>20, <2>25, <3>2
    <3>3. CASE r # q /\ r # dead
      BY <2>18, <3>3 DEF Emptied, Others
    <3> QED
      BY <3>1, <3>2, <3>3
  <2>27. \A r \in Queues : C.tq[r].num = Len(C.tq[r].bg) + Count(C.waiting, C.tq[r].player)
    <3> SUFFICES ASSUME NEW r \in Queues
                 PROVE  C.tq[r].num = Len(C.tq[r].bg) + Count(w, C.tq[r].player)
      BY <2>17
    <3>1. CASE r = q
      BY <2>19, <2>23, <3>1
    <3>2. CASE r = dead
      BY <2>20, <2>25, <3>2
    <3>3. CASE r # q /\ r # dead
      BY <1>1, <2>18, <3>3 DEF Emptied, Others
    <3> QED
      BY <3>1, <3>2, <3>3
  <2>28. Counted(C)
    <3>1. \A r \in Queues : C.tq[r].reader # NoTask => C.tq[r].reader.progr \in Progrs
      BY <2>21 DEF Emptied, Others
    <3> QED
      BY <2>24, <2>26, <2>27, <3>1 DEF Counted
  <2>29. Loses(B, C, {})
    <3> SUFFICES ASSUME NEW id \in Nat, Has(B, id)
                 PROVE  Has(C, id)
      BY DEF Loses
    <3>1. ASSUME NEW t \in Elems(B.waiting), t.id = id
          PROVE  Has(C, id)
      BY <1>1, <2>17, <3>1 DEF Has
    <3>2. ASSUME NEW r \in Queues, NEW t \in Elems(B.tq[r].bg), t.id = id
          PROVE  Has(C, id)
      <4>1. r # q
        BY <2>25, <3>2 DEF Emptied
      <4>2. CASE r = dead
        <5>1. t \in Elems(C.tq[q].bg)
          BY <2>5, <2>19, <3>2, <4>2
        <5> QED
          BY <3>2, <5>1 DEF Has
      <4>3. CASE r # dead
        <5>1. t \in Elems(C.tq[r].bg)
          BY <2>18, <3>2, <4>1, <4>3
        <5> QED
          BY <3>2, <5>1 DEF Has
      <4> QED
        BY <4>2, <4>3
    <3>3. ASSUME NEW r \in Queues, B.tq[r].reader # NoTask, B.tq[r].reader.id = id
          PROVE  Has(C, id)
      BY <2>21, <3>3 DEF Has
    <3> QED
      BY <3>1, <3>2, <3>3 DEF Has
  <2> QED
    BY <2>22, <2>28, <2>29
<1> QED
  BY <1>2, <1>3

\* A login loses no task, though queues change their names.
LEMMA LogInCarries ==
  ASSUME NEW S, Sound(S), NEW q \in Live(S), S.tq[q].connected, S.tq[q].player < 0,
         NEW new \in Players, ~IsFiniteSet(Queues), NEW D
  PROVE  Carries(S, log_in(S, q, new), D)
<1> SUFFICES ASSUME Counted(S), Awake(S)
             PROVE  Carries(S, log_in(S, q, new), D)
  BY DEF Carries
<1>1. S \in Good /\ Linked(S, {}) /\ q \in Queues
  BY LiveType DEF Sound
<1>2. PICK old : old = S.tq[q].player
  OBVIOUS
<1>3. PICK dead : dead = find_tqueue(S, new)
  OBVIOUS
<1>4. PICK N : N = [S EXCEPT !.tq[q].player = new]
  OBVIOUS
<1>5. PICK B : B = move_bg_to_old_player(N, q, old)
  OBVIOUS
<1>6. PICK C : C = take_over_queue(B, q, dead)
  OBVIOUS
<1>7. /\ LoginNames(S, q, new, old, dead)
      /\ N \in Good /\ Linked(N, {}) /\ Live(N) = Live(S)
      /\ \A r \in Live(N) : N.tq[r].player # old
      /\ B \in Good
      /\ LoginQueues(S, C, q, new, old, dead)
  <2>1. LoginMoves(S, q, new, old, dead, N, B, C)
    BY <1>2, <1>3, <1>4, <1>5, <1>6, Zenon DEF LoginMoves
  <2> QED
    BY <2>1, LogInMoves
<1>8. /\ old \in Progrs /\ new \in Progrs /\ old # new /\ new # NOTHING
      /\ dead \in Queues \cup {Null} /\ q # dead
      /\ dead # Null => S.tq[dead].player = new
      /\ \A r \in Live(S) : S.tq[r].player = new => r = dead
  <2>1. dead \in Queues \cup {Null}
    BY <1>1, <1>7, LiveType DEF LoginNames
  <2>2. old \in Progrs /\ new \in Progrs
    BY <1>7 DEF LoginNames, Objids, Progrs
  <2> QED
    BY <1>7, <2>1, <2>2 DEF LoginNames
<1>9. Renamed(N, q, old) /\ Awake(N) /\ Loses(S, N, {})
  BY <1>2, <1>4, <1>8, RenameCarries
<1>10. /\ Emptied(B, q) /\ Awake(B) /\ Loses(N, B, {})
       /\ \A r \in Queues : N.tq[r].player # NOTHING => B.tq[r].player = N.tq[r].player
       /\ \A r \in Queues : B.tq[r].player # old => B.tq[r].player = N.tq[r].player
  BY <1>5, <1>7, <1>8, <1>9, MoveBgCarries
<1>11. N.tq[q].player = new /\ \A r \in Queues : r # q => N.tq[r].player = S.tq[r].player
  BY <1>1, <1>4 DEF Good, States, TQueues
<1>12. \A r \in Queues : S.tq[r].player = new => r = dead
  <2>1. \A r \in Queues : r \notin Live(S) => S.tq[r].player = NOTHING
    BY <1>1, ProgrsFacts DEF Linked
  <2> QED
    BY <1>8, <2>1
<1>13. /\ B.tq[q].player = new
       /\ dead # Null => B.tq[dead].player = new
       /\ \A r \in Queues \ {q} : B.tq[r].player = new => r = dead
  BY <1>1, <1>8, <1>10, <1>11, <1>12
<1>14. Counted(C) /\ Awake(C) /\ Loses(B, C, {})
  BY <1>1, <1>6, <1>7, <1>8, <1>10, <1>13, TakeOverCarries
<1>15. Carries(S, C, D)
  BY <1>9, <1>10, <1>14 DEF Carries, Loses
<1>16. C \in Good /\ Linked(C, {})
  BY <1>7 DEF LoginQueues
<1>17. PICK nh : nh = find_shandle(C, old)
  OBVIOUS
<1>18. PICK ex : ex = find_shandle(C, new)
  OBVIOUS
<1>19. PICK T : T = log_in(S, q, new)
  OBVIOUS
<1>20. T = player_connected(C, old, new)
  BY <1>2, <1>3, <1>4, <1>5, <1>6, <1>19 DEF log_in
<1>21. CASE nh = Null
  <2>1. T = [C EXCEPT !.panic = TRUE]
    BY <1>17, <1>20, <1>21 DEF player_connected
  <2>2. T.tq = C.tq /\ T.waiting = C.waiting /\ T.idle = C.idle
    BY <1>16, <2>1 DEF Good, States
  <2>3. Frame(C, T)
    BY <2>2 DEF Frame, Books, Awake
  <2> QED
    BY <1>15, <1>19, <2>3, FrameCarries, CarriesTrans
<1>22. CASE nh # Null
  <2>1. nh \in Handles /\ ex \in Handles \cup {Null} /\ (ex # Null => C.sh[ex].open)
    BY <1>16, <1>17, <1>18, <1>22, FindShandleType
  <2>2. PICK E : E = [C EXCEPT !.sh[nh].player = new, !.sh[nh].login = TRUE]
    OBVIOUS
  <2>3. PICK s : s = [C.sh[nh] EXCEPT !.player = new, !.login = TRUE]
    OBVIOUS
  <2>4. s \in SHandles /\ s.open = C.sh[nh].open /\ s.tasks = C.sh[nh].tasks
    <3>1. C.sh[nh] \in SHandles /\ new \in Objids
      BY <1>8, <1>16, <2>1 DEF Good, States, Objids
    <3> QED
      BY <2>3, <3>1 DEF SHandles
  <2>5. /\ E.sh = [C.sh EXCEPT ![nh] = s] /\ E.tq = C.tq /\ E.waiting = C.waiting
        /\ E.idle = C.idle /\ E.active = C.active /\ E \in States
    BY <1>16, <2>1, <2>2, <2>3, <2>4 DEF Good, States
  <2>6. E.sh[nh] = s /\ \A g \in Handles : g # nh => E.sh[g] = C.sh[g]
    BY <1>16, <2>1, <2>5 DEF Good, States
  <2>7. E \in Good
    BY <1>16, <2>4, <2>5, <2>6 DEF Good
  <2>8. Linked(E, {})
    BY <1>16, <2>5, <2>7, ListsLinked DEF Lists
  <2>9. Frame(C, E)
    BY <2>5 DEF Frame, Books, Awake
  <2>10. T = IF ex = Null THEN E ELSE free_shandle(E, ex)
    BY <1>17, <1>18, <1>20, <1>22, <2>2 DEF player_connected
  <2>11. CASE ex = Null
    BY <1>15, <1>19, <2>9, <2>10, <2>11, FrameCarries, CarriesTrans
  <2>12. CASE ex # Null
    <3>1. ex \in Handles /\ E.sh[ex].open
      BY <2>1, <2>4, <2>6, <2>12
    <3>2. Frame(E, T)
      BY <2>7, <2>8, <2>10, <2>12, <3>1, FreeShandleBooks
    <3>3. Frame(C, T)
      BY <2>9, <3>2, FrameTrans
    <3> QED
      BY <1>15, <1>19, <3>3, FrameCarries, CarriesTrans
  <2> QED
    BY <2>11, <2>12
<1> QED
  BY <1>21, <1>22

-----------------------------------------------------------------------------
(* The invariant of the server. *)

BackInv ==
  /\ QueueInv
  /\ Counted(ts)
  /\ Awake(ts)
  /\ pc = "task" => run.progr \in Progrs

\* A step loses no identifiers but those of D, and runs tasks that have a programmer.
Advances(D) == Carries(ts, ts', D) /\ (pc' = "task" => run'.progr \in Progrs)

\* The task that leaves is the one that runs now,
Starts(D) == pc' = "task" /\ D = {run'.id}

\* or one the running task may kill.
Kills(D) ==
  /\ pc = "task" /\ run' = run
  /\ \E id \in Nat : D = {id} /\ \E p \in OwnersOf(ts, id) : controls(run.progr, p)

Conserves == \E D \in SUBSET Nat : Advances(D) /\ (D = {} \/ Starts(D) \/ Kills(D))

\* A step that loses nothing is one.
LEMMA NoneLost ==
  ASSUME Advances({})
  PROVE  Conserves
BY DEF Conserves

\* StartVerb(), of whatever follows the verb
LEMMA StartVerbBack ==
  ASSUME NEW S, Carries(ts, S, {}), NEW cont, NEW q, NEW h, StartVerb(S, cont, q, h)
  PROVE  Conserves
<1>1. PICK progr \in Verbs : Start(S, new_task_id(IdsIn(S)), progr, cont, q, h)
  BY DEF StartVerb
<1>2. ts' = S /\ run'.progr = progr
  BY <1>1 DEF Start
<1>3. progr \in Progrs
  BY BoundsAssumption
<1> QED
  BY <1>2, <1>3, NoneLost DEF Advances

\* A task that was queued is resumed.
LEMMA StartBack ==
  ASSUME NEW S, NEW t \in Tasks, t.progr \in Progrs, Carries(ts, S, {t.id}), NEW q,
         Start(S, t.id, t.progr, "loop", q, Null)
  PROVE  Conserves
<1>1. ts' = S /\ pc' = "task" /\ run'.progr = t.progr /\ run'.id = t.id
  BY DEF Start
<1>2. {t.id} \in SUBSET Nat
  BY DEF Tasks
<1>3. Advances({t.id}) /\ Starts({t.id})
  BY <1>1 DEF Advances, Starts
<1> QED
  BY <1>2, <1>3 DEF Conserves

\* run_ready_tasks() charges the queue at the front.
LEMMA ReturnBack ==
  ASSUME NEW S \in Good, Carries(ts, S, {}), NEW q \in Queues, Return(S, q)
  PROVE  Conserves
<1>1. PICK T : T = charge_usage(S, q, now - start)
  OBVIOUS
<1>2. Carries(S, T, {})
  BY <1>1, ChargeUsageFrame, FrameCarries
<1>3. Carries(ts, T, {})
  BY <1>2, CarriesTrans
<1>4. ts' = T /\ pc' = "sweep"
  BY <1>1 DEF Return
<1> QED
  BY <1>3, <1>4, NoneLost DEF Advances

\* The running task gives control back.
LEMMA ResumeBack ==
  ASSUME QueueInv, pc = "task", NEW S, Sound(S), Kept(ts, S), Carries(ts, S, {}), Resume(S)
  PROVE  Conserves
<1>1. RunOK(S, run)
  BY RunOKKept DEF QueueInv, TaskInv
<1>2. run.cont \in Conts
  BY RunType DEF QueueInv, TaskInv
<1>3. S \in Good
  BY DEF Sound
<1>4. CASE run.cont \in {"loop", "command", "login"}
  <2>1. Return(S, run.q)
    BY <1>4 DEF Resume
  <2>2. S.active # <<>> /\ S.active[1] = run.q
    BY <1>1, <1>4 DEF RunOK, OnQueue
  <2>3. run.q \in Queues
    BY <1>3, <2>2, ListTypes
  <2> QED
    BY <1>3, <2>1, <2>3, ReturnBack
<1>5. CASE run.cont = "redirect"
  <2>1. StartVerb(S, "loop", run.q, Null)
    BY <1>5 DEF Resume
  <2> QED
    BY <2>1, StartVerbBack
<1>6. CASE run.cont \in {"close", "reap"}
  <2>1. run.h \in Handles /\ S.sh[run.h].open
    BY <1>1, <1>6 DEF RunOK, OnQueue
  <2>2. ts' = free_shandle(S, run.h) /\ pc' \in {"io", "reap"}
    BY <1>6 DEF Resume
  <2>3. Carries(S, ts', {})
    BY <1>3, <2>1, <2>2, FreeShandleBooks, FrameCarries DEF Sound
  <2>4. Carries(ts, ts', {})
    BY <2>3, CarriesTrans
  <2> QED
    BY <2>2, <2>4, NoneLost DEF Advances
<1> QED
  BY <1>2, <1>4, <1>5, <1>6 DEF Conts

\* A builtin that returns to the task that called it, and kills nothing
LEMMA CallBack ==
  ASSUME BackInv, pc = "task", UNCHANGED <<pc, run>>, Carries(ts, ts', {})
  PROVE  Conserves
BY NoneLost DEF BackInv, Advances

\* and one that kills a task
LEMMA KillBack ==
  ASSUME BackInv, pc = "task", UNCHANGED <<pc, run>>, NEW id \in Nat, Carries(ts, ts', {id}),
         NEW p \in OwnersOf(ts, id), controls(run.progr, p)
  PROVE  Conserves
<1>1. Advances({id}) /\ Kills({id}) /\ {id} \in SUBSET Nat
  BY DEF BackInv, Advances, Kills
<1> QED
  BY <1>1 DEF Conserves

-----------------------------------------------------------------------------
(* One lemma for each disjunct of Next. *)

\* A step that leaves the queues alone, and runs no new task
LEMMA SameBack ==
  ASSUME BackInv, UNCHANGED ts, pc' # "task" \/ UNCHANGED <<pc, run>>
  PROVE  Conserves
<1>1. Carries(ts, ts', {})
  BY NoFrame, FrameCarries
<1> QED
  BY <1>1, NoneLost DEF BackInv, Advances

\* The handle's flag disconnect_me
LEMMA DiscCarries ==
  ASSUME NEW S \in Good, NEW h \in Handles
  PROVE  Carries(S, [S EXCEPT !.sh[h].disc = TRUE], {})
<1>1. PICK T : T = [S EXCEPT !.sh[h].disc = TRUE]
  OBVIOUS
<1>2. T.tq = S.tq /\ T.waiting = S.waiting /\ T.idle = S.idle
  BY <1>1 DEF Good, States
<1>3. Frame(S, T)
  BY <1>2 DEF Frame, Books, Awake
<1> QED
  BY <1>1, <1>3, FrameCarries

\* A connection is numbered one higher than those before.
LEMMA OpenCarries ==
  ASSUME QueueInv, conns + 1 \in Handles, NEW outbound \in BOOLEAN
  PROVE  Carries(ts, server_new_connection(ts, conns + 1, outbound), {})
<1>1. conns \in Nat /\ ~(conns + 1 <= conns)
  BY DEF QueueInv, TaskInv, TypeOK
<1>2. ~ts.sh[conns + 1].open
  BY <1>1 DEF QueueInv, Serves
<1> QED
  BY <1>2, NewConnectionCarries DEF QueueInv

\* network_process_io(): every connection, line and hang-up
LEMMA NetworkBack ==
  ASSUME BackInv, Network
  PROVE  Conserves
<1>1. QueueInv /\ Sound(ts) /\ ts \in Good
  BY DEF BackInv, QueueInv, Sound
<1>2. CASE Accept
  <2>1. /\ conns + 1 \in Handles
        /\ ts' = server_new_connection(ts, conns + 1, FALSE)
        /\ pc' # "task"
    BY <1>2 DEF Accept
  <2> QED
    BY <1>1, <2>1, OpenCarries, NoneLost DEF Advances
<1>3. ASSUME NEW h \in Handles, NEW line \in Typed \cup {"flush"}, ReceiveLine(h, line)
      PROVE  Conserves
  <2>1. PICK q : q = ts.sh[h].tasks
    OBVIOUS
  <2>2. q \in Live(ts) /\ q \in Queues
    BY <1>1, <1>3, <2>1, LiveType DEF ReceiveLine, Sound, Wired
  <2>3. line # "flush" => line \in Lines
    BY BoundsAssumption
  <2>4. \/ ts' = flush_input(ts, q)
        \/ line \in Lines /\ ts' = enqueue_input_task(ts, q, line, FALSE)
    BY <1>3, <2>1, <2>3 DEF ReceiveLine
  <2>5. Frame(ts, ts')
    BY <1>1, <2>2, <2>4, FlushInputBooks, EnqueueInputBooks
  <2>6. pc' # "task"
    BY <1>3 DEF ReceiveLine
  <2> QED
    BY <2>5, <2>6, FrameCarries, NoneLost DEF Advances
<1>4. CASE EndOfRead
  BY <1>4, SameBack DEF EndOfRead
<1>5. ASSUME NEW h \in Handles, ClientGone(h)
      PROVE  Conserves
  <2>1. StartVerb([ts EXCEPT !.sh[h].disc = TRUE], "close", Null, h)
    BY <1>5 DEF ClientGone
  <2> QED
    BY <1>1, <2>1, DiscCarries, StartVerbBack
<1> QED
  BY <1>2, <1>3, <1>4, <1>5 DEF Network

\* Time passes, and run_ready_tasks() notes it.
LEMMA ClockBack ==
  ASSUME BackInv, Tick \/ RunReadyTasks
  PROVE  Conserves
BY SameBack DEF Tick, RunReadyTasks

\* The tasks that are due become ready.
LEMMA ReadyWaitingBack ==
  ASSUME BackInv, ReadyWaiting
  PROVE  Conserves
<1>1. Sound(ts)
  BY DEF BackInv, QueueInv
<1>2. pc' # "task"
  BY DEF ReadyWaiting
<1>3. \/ UNCHANGED ts
      \/ ts.waiting # <<>> /\ ts' = ready_first_waiting(ts)
  BY DEF ReadyWaiting
<1>4. Carries(ts, ts', {})
  BY <1>1, <1>3, ReadyFirstCarries, NoFrame, FrameCarries
<1> QED
  BY <1>2, <1>4, NoneLost DEF Advances

\* run_ready_tasks() looks for a queue with something to run.
LEMMA PickBack ==
  ASSUME BackInv, Pick
  PROVE  Conserves
<1>1. QueueInv /\ Sound(ts) /\ ts \in Good
  BY DEF BackInv, QueueInv, Sound
<1>2. Picking => head \in Live(ts) /\ head \in Queues
                  /\ head = ts.active[1] /\ ts.active # <<>>
  <2>1. Picking => ts.active # <<>> /\ 1 \in 1..Len(ts.active)
    BY <1>1, ListTypes DEF Picking
  <2>2. Picking => head \in Live(ts)
    BY <2>1 DEF head, Live, Elems
  <2> QED
    BY <1>1, <2>1, <2>2, LiveType DEF head
<1>3. Counted(ts)
  BY DEF BackInv
<1>4. PICK D : D = dequeue_input_task(ts, head)
  OBVIOUS
<1>5. Picking /\ at_input => Frame(ts, D) /\ Sound(D) /\ D.tq[head].reader = ts.tq[head].reader
  <2> SUFFICES ASSUME Picking, at_input
               PROVE  Frame(ts, D) /\ Sound(D) /\ D.tq[head].reader = ts.tq[head].reader
    OBVIOUS
  <2>1. ts.tq[head].input # <<>>
    BY DEF at_input
  <2>2. Frame(ts, D) /\ Sound(D)
    BY <1>1, <1>2, <1>4, <2>1, DequeueInputBooks, DequeueInputSound
  <2> QED
    BY <1>2, <2>2 DEF Frame, Books
<1>6. Picking /\ at_input => Carries(ts, D, {})
  BY <1>5, FrameCarries
<1>7. PICK t : t = ts.tq[head].reader
  OBVIOUS
<1>8. Picking /\ reading(ts, head) => t \in Tasks /\ t.progr \in Progrs
  BY <1>1, <1>2, <1>3, <1>7, QueueType DEF reading, Counted, TQueues
<1>9. CASE ResumeOrphan
  <2>1. PICK S : S = [ts EXCEPT !.tq[head].reader = NoTask]
    OBVIOUS
  <2>2. Picking /\ reading(ts, head) /\ Start(S, t.id, t.progr, "loop", head, Null)
    BY <1>7, <1>9, <2>1 DEF ResumeOrphan, orphaned
  <2>3. Carries(ts, S, {t.id})
    BY <1>1, <1>2, <1>7, <2>1, <2>2, NewTypes, ReaderSet, ReaderTakenCarries
  <2> QED
    BY <1>8, <2>2, <2>3, StartBack
<1>10. CASE RunOutOfBand
  <2>1. Picking /\ at_input /\ StartVerb(D, "loop", head, Null)
    BY <1>4, <1>10 DEF RunOutOfBand
  <2> QED
    BY <1>6, <2>1, StartVerbBack
<1>11. CASE ResumeReader
  <2>1. PICK S : S = [D EXCEPT !.tq[head].reader = NoTask]
    OBVIOUS
  <2>2. Picking /\ at_input /\ reading(ts, head) /\ Start(S, t.id, t.progr, "loop", head, Null)
    BY <1>4, <1>7, <1>11, <2>1 DEF ResumeReader
  <2>3. D \in Good /\ D.tq[head].reader = t
    BY <1>5, <1>7, <2>2 DEF Sound
  <2>4. Carries(D, S, {t.id})
    BY <1>2, <2>1, <2>2, <2>3, NewTypes, ReaderSet, ReaderTakenCarries
  <2>5. Carries(ts, S, {t.id})
    BY <1>6, <2>2, <2>4, CarriesTrans
  <2> QED
    BY <1>8, <2>2, <2>5, StartBack
<1>12. CASE RunLine
  <2>1. Picking /\ at_input
          /\ \E cont \in {"command", "login"} : StartVerb(D, cont, head, Null)
    BY <1>4, <1>12 DEF RunLine
  <2> QED
    BY <1>6, <2>1, StartVerbBack
<1>13. CASE BlankLine
  <2>1. Picking /\ at_input /\ ts' = D /\ pc' # "task"
    BY <1>4, <1>13 DEF BlankLine, Picking
  <2> QED
    BY <1>6, <2>1, NoneLost DEF Advances
<1>14. CASE IntrinsicCommand
  <2>1. Picking /\ at_input /\ Return(D, head)
    BY <1>4, <1>14 DEF IntrinsicCommand
  <2> QED
    BY <1>2, <1>5, <1>6, <2>1, ReturnBack DEF Sound
<1>15. CASE RunBackground
  <2>1. PICK S : S = dequeue_bg_task(ts, head)
    OBVIOUS
  <2>2. PICK u : u = ts.tq[head].bg[1]
    OBVIOUS
  <2>3. Picking /\ ts.tq[head].bg # <<>> /\ Start(S, u.id, u.progr, "loop", head, Null)
    BY <1>15, <2>1, <2>2 DEF RunBackground
  <2>4. ts.tq[head].bg \in Seq(Tasks)
    BY <1>1, <1>2, <2>3, QueueType DEF TQueues
  <2>5. 1 \in 1..Len(ts.tq[head].bg)
    BY <2>3, <2>4
  <2>6. u \in Tasks /\ u \in Elems(ts.tq[head].bg)
    BY <2>2, <2>4, <2>5 DEF Elems
  <2>7. u.progr \in Progrs
    BY <1>2, <1>3, <2>3, <2>6 DEF Counted
  <2>8. Carries(ts, S, {u.id})
    BY <1>1, <1>2, <2>1, <2>2, <2>3, DequeueBgCarries
  <2> QED
    BY <2>3, <2>6, <2>7, <2>8, StartBack
<1>16. CASE GoIdle
  <2>1. /\ Picking /\ ~orphaned /\ ~at_input
        /\ ts' = deactivate_tqueue([ts EXCEPT !.active = Tail(ts.active)], ts.active[1])
        /\ pc' # "task"
    BY <1>16 DEF GoIdle, Picking, head
  <2>2. Rests(ts.tq[head])
    BY <2>1 DEF Rests, orphaned, at_input, takes_input, reading, is_out_of_input
  <2>3. Carries(ts, ts', {})
    BY <1>1, <1>2, <2>1, <2>2, GoIdleCarries
  <2> QED
    BY <2>1, <2>3, NoneLost DEF Advances
<1>17. CASE NothingToRun
  BY <1>17, SameBack DEF NothingToRun
<1> QED
  BY <1>9, <1>10, <1>11, <1>12, <1>13, <1>14, <1>15, <1>16, <1>17 DEF Pick

\* It frees the idle queues that serve nobody.
LEMMA FreeIdleBack ==
  ASSUME BackInv, FreeIdle
  PROVE  Conserves
<1>1. Sound(ts)
  BY DEF BackInv, QueueInv
<1>2. pc' # "task" /\ ts' = free_idle_tqueues(ts)
  BY DEF FreeIdle
<1> QED
  BY <1>1, <1>2, FreeIdleCarries, NoneLost DEF Advances

\* main_loop() looks for connections to close.
LEMMA SweepBack ==
  ASSUME BackInv, Sweep
  PROVE  Conserves
<1>1. QueueInv /\ Sound(ts) /\ ts \in Good
  BY DEF BackInv, QueueInv, Sound
<1>2. pc = "reap" /\ (at > 0 => at \in Handles)
  BY <1>1 DEF Sweep, ReapSkip, ReapRecycled, ReapNotify, ReapDone, QueueInv, TaskInv, TypeOK
<1>3. CASE ReapSkip
  BY <1>3, SameBack DEF ReapSkip
<1>4. CASE ReapRecycled
  <2>1. at \in Handles /\ ts.sh[at].open /\ ts' = free_shandle(ts, at) /\ pc' # "task"
    BY <1>2, <1>4 DEF ReapRecycled
  <2>2. Frame(ts, ts')
    BY <1>1, <2>1, FreeShandleBooks DEF Sound
  <2> QED
    BY <2>1, <2>2, FrameCarries, NoneLost DEF Advances
<1>5. CASE ReapNotify
  <2>1. StartVerb(ts, "reap", Null, at)
    BY <1>5 DEF ReapNotify
  <2> QED
    BY <2>1, NoFrame, FrameCarries, StartVerbBack
<1>6. CASE ReapDone
  BY <1>6, SameBack DEF ReapDone
<1> QED
  BY <1>3, <1>4, <1>5, <1>6 DEF Sweep

\* The running task ends, or the login it was for takes place.
LEMMA TaskReturnsBack ==
  ASSUME BackInv, TaskReturns, ~IsFiniteSet(Queues)
  PROVE  Conserves
<1>1. QueueInv /\ TaskInv /\ Sound(ts) /\ ts \in Good
  BY DEF BackInv, QueueInv, Sound
<1>2. Carries(ts, ts, {}) /\ Kept(ts, ts)
  BY <1>1, NoFrame, FrameCarries, KeptSame
<1>3. CASE EndTask
  <2>1. pc = "task" /\ Resume(ts)
    BY <1>3 DEF EndTask
  <2> QED
    BY <1>1, <1>2, <2>1, ResumeBack
<1>4. CASE CommandVerb
  <2>1. StartVerb(ts, "loop", run.q, Null)
    BY <1>4 DEF CommandVerb
  <2> QED
    BY <1>2, <2>1, StartVerbBack
<1>5. ASSUME NEW p \in Players, LogIn(p)
      PROVE  Conserves
  <2>1. PICK S : S = log_in(ts, run.q, p)
    OBVIOUS
  <2>2. run.q \in Live(ts)
    <3>1. ts.active # <<>> /\ ts.active[1] = run.q
      BY <1>1, <1>5 DEF LogIn, TaskInv, RunOK, OnQueue
    <3>2. 1 \in 1..Len(ts.active)
      BY <1>1, <3>1, ListTypes
    <3> QED
      BY <3>1, <3>2 DEF Live, Elems
  <2>3. ts.tq[run.q].connected /\ ts.tq[run.q].player < 0
    BY <1>1, <1>5 DEF LogIn, QueueInv, Serves
  <2>4. Carries(ts, S, {})
    BY <1>1, <2>1, <2>2, <2>3, LogInCarries
  <2>5. \E cont \in {"loop", "redirect"} : StartVerb(S, cont, run.q, Null)
    BY <1>5, <2>1 DEF LogIn
  <2> QED
    BY <2>4, <2>5, StartVerbBack
<1> QED
  BY <1>3, <1>4, <1>5 DEF TaskReturns

\* The tasks a queue or the waiting list holds, as the sets of TaskServer have them
LEMMA OwnersFound ==
  ASSUME NEW S \in Good
  PROVE  /\ \A i \in 1..Len(S.waiting) :
              S.waiting[i].id \in Nat /\ S.waiting[i].progr \in OwnersOf(S, S.waiting[i].id)
         /\ \A q \in Live(S) : \A i \in 1..Len(S.tq[q].bg) :
              /\ S.tq[q].bg[i].id \in Nat
              /\ S.tq[q].bg[i].progr \in OwnersOf(S, S.tq[q].bg[i].id)
         /\ \A q \in Live(S) : /\ S.tq[q].reader.id \in Nat
                               /\ S.tq[q].player \in OwnersOf(S, S.tq[q].reader.id)
<1>1. /\ S.waiting \in Seq(Tasks)
      /\ \A q \in Live(S) : S.tq[q].bg \in Seq(Tasks) /\ S.tq[q].reader \in Tasks
  BY LiveType, QueueType, ListTypes DEF TQueues, Good, States
<1>2. \A t \in Tasks : t.id \in Nat
  BY DEF Tasks
<1>3. ASSUME NEW t \in TasksIn(S)
      PROVE  t.progr \in OwnersOf(S, t.id)
  BY DEF OwnersOf
<1>4. ASSUME NEW i \in 1..Len(S.waiting)
      PROVE  S.waiting[i] \in Tasks /\ S.waiting[i] \in TasksIn(S)
  BY <1>1 DEF TasksIn, Elems
<1>5. ASSUME NEW q \in Live(S), NEW i \in 1..Len(S.tq[q].bg)
      PROVE  S.tq[q].bg[i] \in Tasks /\ S.tq[q].bg[i] \in TasksIn(S)
  <2>1. S.tq[q].bg[i] \in Elems(S.tq[q].bg)
    BY DEF Elems
  <2> QED
    BY <1>1, <2>1 DEF TasksIn
<1>6. ASSUME NEW q \in Live(S)
      PROVE  S.tq[q].player \in OwnersOf(S, S.tq[q].reader.id)
  BY DEF OwnersOf
<1> QED
  BY <1>1, <1>2, <1>3, <1>4, <1>5, <1>6

\* Every builtin the running task may call
LEMMA BuiltinBack ==
  ASSUME BackInv, Builtin
  PROVE  Conserves
<1>1. QueueInv /\ TaskInv /\ Sound(ts) /\ ts \in Good /\ Counted(ts)
  BY DEF BackInv, QueueInv, Sound
<1>2. pc = "task" => run.progr \in Progrs
  BY DEF BackInv
<1>3. ASSUME NEW d \in Delays, Fork(d)
      PROVE  Conserves
  <2>1. PICK t : t = [id |-> new_task_id(IdsIn(ts) \cup {run.id}), kind |-> "forked",
                      progr |-> run.progr, start |-> AfterDelay(d)]
    OBVIOUS
  <2>2. new_task_id(IdsIn(ts) \cup {run.id}) \in Nat
    BY <1>3, BoundsAssumption DEF Fork, RoomForTask, new_task_id
  <2>3. t \in Tasks /\ t.progr = run.progr
    BY <1>1, <2>1, <2>2, RunType, AfterDelayType DEF TaskInv, Tasks, Kinds
  <2>4. ts' = enqueue_waiting(ts, t) /\ pc = "task" /\ UNCHANGED <<pc, run>>
    BY <1>3, <2>1 DEF Fork, Calls, Keep
  <2> QED
    BY <1>1, <1>2, <2>3, <2>4, EnqueueWaitingCarries, CallBack
<1>4. ASSUME NEW d \in Delays, Suspend(d)
      PROVE  Conserves
  <2>1. PICK t \in Tasks : t = Suspended(AfterDelay(d))
    BY <1>1, SuspendedType, AfterDelayType
  <2>2. PICK S : S = enqueue_waiting(ts, t)
    OBVIOUS
  <2>3. pc = "task" /\ Resume(S) /\ t.progr = run.progr
    BY <1>4, <2>1, <2>2 DEF Suspend, Calls, Suspended
  <2>4. Sound(S) /\ Kept(ts, S) /\ Carries(ts, S, {})
    BY <1>1, <1>2, <2>2, <2>3, EnqueueWaitingSound, EnqueueWaitingKept, EnqueueWaitingCarries
  <2> QED
    BY <1>1, <2>3, <2>4, ResumeBack
<1>5. ASSUME NEW p \in Progrs, Read(p)
      PROVE  Conserves
  <2>1. PICK q : q = find_tqueue(ts, p)
    OBVIOUS
  <2>2. PICK t \in Tasks : t = Suspended(0)
    BY <1>1, SuspendedType
  <2>3. PICK S : S = make_reading_task(ts, q, t)
    OBVIOUS
  <2>4. q \in Live(ts) /\ q \in Queues /\ ~reading(ts, q) /\ ~is_out_of_input(ts, q)
    BY <1>1, <1>5, <2>1, FindTqueueType DEF Read
  <2>5. pc = "task" /\ Resume(S) /\ t.progr = run.progr
    BY <1>5, <2>1, <2>2, <2>3 DEF Read, Calls, Suspended
  <2>6. Sound(S) /\ Kept(ts, S) /\ Carries(ts, S, {})
    BY <1>1, <1>2, <2>3, <2>4, <2>5, MakeReadingSound, MakeReadingKept, MakeReadingCarries
  <2> QED
    BY <1>1, <2>5, <2>6, ResumeBack
<1>6. ASSUME NEW p \in Progrs, ReadInputNow(p)
      PROVE  Conserves
  <2>1. PICK q : q = find_tqueue(ts, p)
    OBVIOUS
  <2>2. /\ q \in Queues
        /\ ts.tq[q].input # <<>>
        /\ ts' = dequeue_input_task(ts, q)
        /\ pc = "task" /\ UNCHANGED <<pc, run>>
    BY <1>1, <1>6, <2>1, FindTqueueType DEF ReadInputNow, Calls, Keep
  <2> QED
    BY <1>1, <2>2, DequeueInputBooks, FrameCarries, CallBack
<1>7. ASSUME NEW p \in Progrs, FlushInput(p)
      PROVE  Conserves
  <2>1. ts' = flush_player(ts, p) /\ pc = "task" /\ UNCHANGED <<pc, run>>
    BY <1>7 DEF FlushInput, Calls, Keep
  <2>2. "cmd" \in Lines
    BY DEF Lines
  <2> QED
    BY <1>1, <2>1, <2>2, ForceInputCarries, CallBack
<1>8. ASSUME NEW p \in Progrs, BootPlayer(p)
      PROVE  Conserves
  <2>1. PICK h : h = find_shandle(ts, p)
    OBVIOUS
  <2>2. h \in Handles /\ ts' = [ts EXCEPT !.sh[h].disc = TRUE]
          /\ pc = "task" /\ UNCHANGED <<pc, run>>
    BY <1>1, <1>8, <2>1, FindShandleType DEF BootPlayer, Calls, Keep
  <2> QED
    BY <1>1, <2>2, DiscCarries, CallBack
<1>9. ASSUME NEW p \in Progrs, Recycle(p)
      PROVE  Conserves
  BY <1>9, SameBack DEF Recycle, Calls
<1>10. ASSUME NEW p \in Progrs, NEW line \in Typed, NEW f \in BOOLEAN, ForceInput(p, line, f)
       PROVE  Conserves
  <2>1. ts' = force_input(ts, p, line, f) /\ pc = "task" /\ UNCHANGED <<pc, run>>
    BY <1>10 DEF ForceInput, Calls, Keep
  <2>2. line \in Lines
    BY BoundsAssumption
  <2> QED
    BY <1>1, <2>1, <2>2, ForceInputCarries, CallBack
<1>11. ASSUME NEW p \in Progrs, NEW hold \in BOOLEAN, SetHoldInput(p, hold)
       PROVE  Conserves
  <2>1. PICK h : h = find_shandle(ts, p)
    OBVIOUS
  <2>2. PICK q : q = ts.sh[h].tasks
    OBVIOUS
  <2>3. /\ h \in Handles
        /\ ts.sh[h].open
        /\ ts' = set_hold_input(ts, q, hold)
        /\ pc = "task" /\ UNCHANGED <<pc, run>>
    BY <1>1, <1>11, <2>1, <2>2, FindShandleType DEF SetHoldInput, Calls, Keep
  <2>4. q \in Live(ts)
    BY <1>1, <2>2, <2>3 DEF Sound, Wired
  <2> QED
    BY <1>1, <2>3, <2>4, SetHoldBooks, FrameCarries, CallBack
<1>12. ASSUME NEW i \in 1..Len(ts.waiting), KillWaiting(i)
       PROVE  Conserves
  <2>1. PICK t : t = ts.waiting[i]
    OBVIOUS
  <2>2. controls(run.progr, t.progr) /\ ts' = kill_waiting(ts, i)
          /\ pc = "task" /\ UNCHANGED <<pc, run>>
    BY <1>12, <2>1 DEF KillWaiting, KillTask, Calls, Keep
  <2>3. t.id \in Nat /\ t.progr \in OwnersOf(ts, t.id)
    BY <1>1, <2>1, OwnersFound
  <2>4. Carries(ts, ts', {t.id})
    BY <1>1, <2>1, <2>2, KillWaitingCarries
  <2> QED
    BY <2>2, <2>3, <2>4, KillBack
<1>13. ASSUME NEW i \in 1..Len(ts.waiting), ResumeWaiting(i)
       PROVE  Conserves
  <2>1. ts' = resume_waiting(ts, i, now) /\ pc = "task" /\ UNCHANGED <<pc, run>>
    BY <1>13 DEF ResumeWaiting, Calls, Keep
  <2>2. now \in Nat
    BY <1>1 DEF TaskInv, TypeOK
  <2> QED
    BY <1>1, <2>1, <2>2, ResumeWaitingCarries, CallBack
<1>14. ASSUME NEW q \in Live(ts), KillReader(q)
       PROVE  Conserves
  <2>1. PICK t : t = ts.tq[q].reader
    OBVIOUS
  <2>2. controls(run.progr, ts.tq[q].player) /\ ts' = [ts EXCEPT !.tq[q].reader = NoTask]
          /\ pc = "task" /\ UNCHANGED <<pc, run>>
    BY <1>14 DEF KillReader, KillTask, Calls, Keep, kill_reader
  <2>3. t.id \in Nat /\ ts.tq[q].player \in OwnersOf(ts, t.id)
    BY <1>1, <2>1, OwnersFound
  <2>4. Carries(ts, ts', {t.id})
    BY <1>1, <2>1, <2>2, LiveType, NewTypes, ReaderSet, ReaderTakenCarries
  <2> QED
    BY <2>2, <2>3, <2>4, KillBack
<1>15. ASSUME NEW q \in Elems(ts.active), NEW i \in 1..Len(ts.tq[q].bg), KillReady(q, i)
       PROVE  Conserves
  <2>1. PICK t : t = ts.tq[q].bg[i]
    OBVIOUS
  <2>2. controls(run.progr, ts.tq[q].player) /\ ts' = kill_bg(ts, q, i)
          /\ pc = "task" /\ UNCHANGED <<pc, run>>
    BY <1>15 DEF KillReady, KillTask, Calls, Keep
  <2>3. q \in Live(ts) /\ q \in Queues
    BY <1>1, LiveType DEF Live
  <2>4. t.id \in Nat /\ t.progr \in OwnersOf(ts, t.id)
    BY <1>1, <2>1, <2>3, OwnersFound
  <2>5. t \in Elems(ts.tq[q].bg)
    BY <2>1 DEF Elems
  <2>6. t.progr = ts.tq[q].player
    BY <1>1, <2>3, <2>5 DEF Counted
  <2>7. Carries(ts, ts', {t.id})
    BY <1>1, <2>1, <2>2, <2>3, KillBgCarries
  <2> QED
    BY <2>2, <2>4, <2>6, <2>7, KillBack
<1>16. CASE OpenNetworkConnection
  <2>1. /\ conns + 1 \in Handles
        /\ ts' = server_new_connection(ts, conns + 1, TRUE)
        /\ pc = "task" /\ UNCHANGED <<pc, run>>
    BY <1>16 DEF OpenNetworkConnection, Calls
  <2> QED
    BY <1>1, <2>1, OpenCarries, CallBack
<1> QED
  BY <1>3, <1>4, <1>5, <1>6, <1>7, <1>8, <1>9, <1>10, <1>11, <1>12, <1>13, <1>14, <1>15,
     <1>16 DEF Builtin

\* A server that starts has no task.
LEMMA InitBack ==
  ASSUME Init
  PROVE  BackInv
<1>1. QueueInv /\ ts = EmptyState /\ pc = "io"
  BY InitQueues DEF Init
<1>2. /\ ts.waiting = <<>> /\ ts.idle = {}
      /\ \A q \in Queues : ts.tq[q] = NewTQueue
  BY <1>1 DEF EmptyState
<1>3. Elems(<<>>) = {} /\ \A p : Count(<<>>, p) = 0
  <2>1. \A p : {i \in 1..Len(<<>>) : <<>>[i].progr = p} = {}
    OBVIOUS
  <2> QED
    BY <2>1, FS_EmptySet DEF Elems, Count
<1>4. Counted(ts)
  BY <1>2, <1>3, ProgrsFacts DEF Counted
<1>5. Awake(ts)
  BY <1>2 DEF Awake
<1> QED
  BY <1>1, <1>4, <1>5 DEF BackInv

\* Every step keeps the counts and the idle queues right, and accounts for the tasks
\* that leave.
LEMMA BackStep ==
  ASSUME BackInv, [Next]_vars, ~IsFiniteSet(Queues)
  PROVE  BackInv' /\ Conserves
<1>1. Conserves
  <2>1. CASE UNCHANGED vars
    BY <2>1, SameBack DEF vars
  <2>2. CASE Next
    BY <2>2, NetworkBack, ClockBack, ReadyWaitingBack, PickBack, FreeIdleBack, SweepBack,
       TaskReturnsBack, BuiltinBack DEF Next
  <2> QED
    BY <2>1, <2>2
<1>2. QueueInv'
  BY QueueStep DEF BackInv
<1>3. Counted(ts') /\ Awake(ts') /\ (pc' = "task" => run'.progr \in Progrs)
  BY <1>1 DEF BackInv, Conserves, Advances, Carries
<1> QED
  BY <1>1, <1>2, <1>3 DEF BackInv

\* The queued tasks are those of the queues on a list.
LEMMA QueuedIds ==
  ASSUME NEW S \in Good, Linked(S, {})
  PROVE  IdsIn(S) = {id \in Nat : Has(S, id)}
<1>1. Live(S) \subseteq Queues
  BY LiveType
<1>2. \A q \in Queues : q \notin Live(S) => S.tq[q].bg = <<>> /\ S.tq[q].reader = NoTask
  BY ProgrsFacts DEF Linked
<1>3. Elems(<<>>) = {}
  BY DEF Elems
<1>4. \A t : t \in TasksIn(S) <=>
        \/ t \in Elems(S.waiting)
        \/ \E q \in Live(S) : t \in Elems(S.tq[q].bg)
        \/ \E q \in Live(S) : S.tq[q].reader # NoTask /\ t = S.tq[q].reader
  BY DEF TasksIn
<1>5. \A t \in TasksIn(S) : t.id \in Nat
  <2>1. Elems(S.waiting) \subseteq Tasks
    BY ElemsType DEF Good, States
  <2>2. \A q \in Queues : Elems(S.tq[q].bg) \subseteq Tasks /\ S.tq[q].reader \in Tasks
    BY QueueType, ElemsType DEF TQueues
  <2>3. \A t \in TasksIn(S) : t \in Tasks
    BY <1>1, <1>4, <2>1, <2>2
  <2> QED
    BY <2>3 DEF Tasks
<1>6. ASSUME NEW id
      PROVE  (\E t \in TasksIn(S) : t.id = id) <=> Has(S, id)
  <2>1. ASSUME NEW t \in TasksIn(S), t.id = id
        PROVE  Has(S, id)
    BY <1>1, <1>4, <2>1 DEF Has
  <2>2. ASSUME Has(S, id)
        PROVE  \E t \in TasksIn(S) : t.id = id
    <3>1. CASE \E t \in Elems(S.waiting) : t.id = id
      BY <1>4, <3>1
    <3>2. CASE \E q \in Queues : \E t \in Elems(S.tq[q].bg) : t.id = id
      <4>1. PICK q \in Queues : \E t \in Elems(S.tq[q].bg) : t.id = id
        BY <3>2
      <4>2. q \in Live(S)
        BY <1>2, <1>3, <4>1
      <4> QED
        BY <1>4, <4>1, <4>2
    <3>3. CASE \E q \in Queues : S.tq[q].reader # NoTask /\ S.tq[q].reader.id = id
      <4>1. PICK q \in Queues : S.tq[q].reader # NoTask /\ S.tq[q].reader.id = id
        BY <3>3
      <4>2. q \in Live(S)
        BY <1>2, <4>1
      <4> QED
        BY <1>4, <4>1, <4>2
    <3> QED
      BY <2>2, <3>1, <3>2, <3>3 DEF Has
  <2> QED
    BY <2>1, <2>2
<1>7. \A id : id \in IdsIn(S) <=> \E t \in TasksIn(S) : t.id = id
  BY DEF IdsIn
<1>8. \A id : id \in IdsIn(S) <=> id \in Nat /\ Has(S, id)
  BY <1>5, <1>6, <1>7
<1> QED
  BY <1>8

-----------------------------------------------------------------------------
\* The inductive invariant: whatever forks, suspends, reads, is killed, logs in, takes a
\* connection over or hangs up, the queues agree with the tasks they hold and count.  The
\* heap is unbounded: a server whose mymalloc() fails panics and goes no further.
THEOREM BackInvariant ==
  ASSUME ~IsFiniteSet(Queues)
  PROVE  Spec => []BackInv
<1>1. Init => BackInv
  BY InitBack
<1>2. BackInv /\ [Next]_vars => BackInv'
  BY BackStep
<1> QED
  BY <1>1, <1>2, PTL DEF Spec

\* num_bg_tasks, which check_user_task_limit() and free_idle_tqueues() go by, is the
\* number of the player's tasks on the queue and on waiting_tasks, through every login
\* that moves them; find_tqueue() finds the queue of every task that waits.
THEOREM TasksAreCounted ==
  ASSUME ~IsFiniteSet(Queues)
  PROVE  Spec => []BgAccounting
<1>1. BackInv => BgAccounting
  <2> SUFFICES ASSUME BackInv PROVE BgAccounting
    OBVIOUS
  <2>1. Sound(ts) /\ ts \in Good /\ Counted(ts)
    BY DEF BackInv, QueueInv, Sound
  <2>2. Live(ts) \subseteq Queues
    BY <2>1, LiveType
  <2>3. ASSUME NEW q \in Live(ts), NEW i \in 1..Len(ts.tq[q].bg)
        PROVE  ts.tq[q].bg[i].progr = ts.tq[q].player
    <3>1. ts.tq[q].bg[i] \in Elems(ts.tq[q].bg)
      BY DEF Elems
    <3> QED
      BY <2>1, <2>2, <3>1 DEF Counted
  <2>4. ASSUME NEW q \in Live(ts)
        PROVE  ts.tq[q].num = Len(ts.tq[q].bg) + Cardinality(WaitingOf(ts.tq[q].player))
    BY <2>1, <2>2 DEF Counted, Count, WaitingOf
  <2>5. ASSUME NEW i \in 1..Len(ts.waiting)
        PROVE  find_tqueue(ts, ts.waiting[i].progr) # Null
    <3>1. ts.waiting[i] \in Elems(ts.waiting)
      BY DEF Elems
    <3>2. ts.waiting[i].progr \in Progrs /\ Named(ts, ts.waiting[i].progr)
      BY <2>1, <3>1 DEF Counted
    <3> QED
      BY <2>1, <3>2, NamedFound
  <2> QED
    BY <2>3, <2>4, <2>5 DEF BgAccounting
<1> QED
  BY <1>1, BackInvariant, PTL

\* An idle queue, which run_ready_tasks() does not look at, has no line a task could
\* take and no reader whose connection is gone.
THEOREM IdleQueuesRest ==
  ASSUME ~IsFiniteSet(Queues)
  PROVE  Spec => []IdleHasNoInput
<1>1. BackInv => IdleHasNoInput
  BY DEF BackInv, Awake, Rests, IdleHasNoInput, reading
<1> QED
  BY <1>1, BackInvariant, PTL

\* A task leaves the queues because run_ready_tasks() runs it or because a task that
\* controls it kills it; do_login_task(), free_task_queue() and free_tqueue() drop none.
THEOREM NoTaskIsLost ==
  ASSUME ~IsFiniteSet(Queues)
  PROVE  Spec => TasksAreConserved
<1> DEFINE Left == \A id \in Gone :
              \/ pc' = "task" /\ run'.id = id
              \/ /\ pc = "task" /\ run' = run
                 /\ Cardinality(Gone) = 1
                 /\ \E p \in OwnersOf(ts, id) : controls(run.progr, p)
<1>1. BackInv /\ [Next]_vars => [Left]_vars
  <2> SUFFICES ASSUME BackInv, [Next]_vars PROVE Left
    OBVIOUS
  <2>1. BackInv' /\ Conserves
    BY BackStep
  <2>2. PICK D \in SUBSET Nat : Advances(D) /\ (D = {} \/ Starts(D) \/ Kills(D))
    BY <2>1 DEF Conserves
  <2>3. IdsIn(ts) = {id \in Nat : Has(ts, id)} /\ IdsIn(ts') = {id \in Nat : Has(ts', id)}
    BY <2>1, QueuedIds DEF BackInv, QueueInv, Sound
  <2>4. Loses(ts, ts', D)
    BY <2>2 DEF Advances, Carries, BackInv
  <2>5. Gone \subseteq D
    BY <2>3, <2>4 DEF Gone, Loses
  <2>6. CASE D = {}
    BY <2>5, <2>6
  <2>7. CASE Starts(D)
    BY <2>5, <2>7 DEF Starts
  <2>8. CASE Kills(D)
    <3>1. PICK k \in Nat : D = {k} /\ \E p \in OwnersOf(ts, k) : controls(run.progr, p)
      BY <2>8 DEF Kills
    <3>2. ASSUME NEW id \in Gone
          PROVE  id = k /\ Cardinality(Gone) = 1
      <4>1. Gone = {k}
        BY <2>5, <3>1, <3>2
      <4> QED
        BY <3>2, <4>1, FS_Singleton
    <3> QED
      BY <2>8, <3>1, <3>2 DEF Kills
  <2> QED
    BY <2>2, <2>6, <2>7, <2>8
<1> QED
  BY <1>1, BackInvariant, PTL DEF Spec, TasksAreConserved

-----------------------------------------------------------------------------
(* The flow control of input: the invariant of a state. *)

\* The lines with something in them: total_input_length, for lines of length one.
Weight(lines) == Cardinality({i \in 1..Len(lines) : lines[i] # "blank"})

\* What holds of every queue and connection while the lines of queue q change: all but
\* that q has not too much of them, and that one is left if it is suspended.  The
\* connections up to n have been opened; a queue for a later one was never suspended.
FlowBut(S, n, q) ==
  /\ \A r \in Queues : S.tq[r].len = Weight(S.tq[r].input)
  /\ \A h \in Handles : S.sh[h].open => S.sh[h].suspended = S.tq[S.sh[h].tasks].insusp
  /\ \A h \in Handles : S.sh[h].open /\ S.sh[h].tasks # q /\ S.tq[S.sh[h].tasks].len > HiWat =>
       S.tq[S.sh[h].tasks].insusp \/ S.sh[h].outbound
  /\ \A r \in Queues : r # q /\ S.tq[r].connected /\ S.tq[r].insusp => S.tq[r].input # <<>>
  /\ \A r \in Queues : S.tq[r].insusp \/ S.tq[r].connected =>
       \A h \in Handles : S.tq[r].player = ConnId(h) => h <= n

\* What it takes of q
NotTooFull(S, q) ==
  \A h \in Handles : S.sh[h].open /\ S.sh[h].tasks = q /\ S.tq[q].len > HiWat =>
    S.tq[q].insusp \/ S.sh[h].outbound

Resumable(S, q) == S.tq[q].connected /\ S.tq[q].insusp => S.tq[q].input # <<>>

Flow(S, n) == \A q \in Queues : FlowBut(S, n, q) /\ NotTooFull(S, q) /\ Resumable(S, q)

Smooth(S, T) == \A n \in Nat : Flow(S, n) => Flow(T, n)

\* Smooth steps in a row are one.
LEMMA SmoothTrans ==
  ASSUME NEW S, NEW T, NEW U, Smooth(S, T), Smooth(T, U)
  PROVE  Smooth(S, U)
BY DEF Smooth

\* The queue that was left out is as it should be again.
LEMMA FlowAgain ==
  ASSUME NEW S, NEW n, NEW q \in Queues, FlowBut(S, n, q), NotTooFull(S, q),
         Resumable(S, q)
  PROVE  Flow(S, n)
BY DEF Flow, FlowBut, NotTooFull, Resumable

-----------------------------------------------------------------------------
(* Steps that leave lines and flags alone. *)

\* Connections may be closed, and queues renamed, if they are not suspended or
\* connected, or named after a player or nobody.
Aside(S, T) ==
  /\ \A q \in Queues : /\ T.tq[q].input = S.tq[q].input
                       /\ T.tq[q].len = S.tq[q].len
                       /\ T.tq[q].insusp = S.tq[q].insusp
                       /\ T.tq[q].connected => S.tq[q].connected
                       /\ \/ T.tq[q].player = S.tq[q].player
                          \/ ~T.tq[q].insusp /\ ~T.tq[q].connected
                          \/ T.tq[q].player \in Players \cup {NOTHING}
  /\ \A h \in Handles : T.sh[h].open => /\ S.sh[h].open
                                        /\ T.sh[h].tasks = S.sh[h].tasks
                                        /\ T.sh[h].outbound = S.sh[h].outbound
                                        /\ T.sh[h].suspended = S.sh[h].suspended

\* So are steps of this kind.
LEMMA AsideTrans ==
  ASSUME NEW S, NEW T, NEW U, Aside(S, T), Aside(T, U)
  PROVE  Aside(S, U)
BY DEF Aside

\* Such a step keeps what holds of the queues and connections.
LEMMA AsideKeeps ==
  ASSUME NEW S \in Good, NEW T, Aside(S, T), NEW n \in Nat, NEW q \in Queues
  PROVE  /\ FlowBut(S, n, q) => FlowBut(T, n, q)
         /\ NotTooFull(S, q) => NotTooFull(T, q)
         /\ Resumable(S, q) => Resumable(T, q)
<1>1. \A h \in Handles : S.sh[h].open => S.sh[h].tasks \in Queues
  BY DEF Good
<1>2. \A h \in Handles : ConnId(h) \notin Players \cup {NOTHING}
  BY ConnIdFacts
<1>3. ASSUME FlowBut(S, n, q)
      PROVE  FlowBut(T, n, q)
  <2>1. \A r \in Queues : T.tq[r].insusp \/ T.tq[r].connected =>
          \A h \in Handles : T.tq[r].player = ConnId(h) => h <= n
    BY <1>2, <1>3 DEF FlowBut, Aside
  <2> QED
    BY <1>1, <1>3, <2>1, SMTT(40) DEF FlowBut, Aside
<1> QED
  BY <1>3 DEF Aside, NotTooFull, Resumable

\* and the flow with it.
LEMMA AsideSmooth ==
  ASSUME NEW S \in Good, NEW T, Aside(S, T)
  PROVE  Smooth(S, T)
BY AsideKeeps DEF Smooth, Flow

-----------------------------------------------------------------------------
(* Lines. *)

\* The length of a queue that has one line more
LEMMA WeightInserted ==
  ASSUME NEW w \in Seq(Lines), NEW k \in 0..Len(w), NEW line, NEW r, Inserted(r, w, k, line)
  PROVE  /\ Weight(w) \in Nat
         /\ Weight(r) = Weight(w) + Length(line)
<1> DEFINE n == Len(w)
           A == {i \in 1..n : w[i] # "blank"}
           R == {i \in 1..n + 1 : r[i] # "blank"}
           B == R \ {k + 1}
           f == [i \in A |-> IF i <= k THEN i ELSE i + 1]
<1>1. n \in Nat /\ k \in Nat /\ k <= n
  OBVIOUS
<1>2. Weight(w) = Cardinality(A)
  BY DEF Weight
<1>3. Weight(r) = Cardinality(R)
  <2>1. Len(r) = n + 1
    BY DEF Inserted
  <2> QED
    BY <2>1 DEF Weight
<1>4. \A i \in 1..n + 1 : r[i] = IF i <= k THEN w[i] ELSE IF i = k + 1 THEN line ELSE w[i - 1]
  BY DEF Inserted
<1>5. IsFiniteSet(A) /\ Cardinality(A) \in Nat
  <2>1. IsFiniteSet(1..n)
    BY <1>1, FS_Interval
  <2>2. A \in SUBSET (1..n)
    OBVIOUS
  <2>3. IsFiniteSet(A)
    BY <2>1, <2>2, FS_Subset
  <2> QED
    BY <2>3, FS_CardinalityType
<1> HIDE DEF n
<1>6. f \in Bijection(A, B)
  <2>1. \A i \in A : f[i] \in B
    BY <1>1, <1>4
  <2>2. \A i, j \in A : f[i] = f[j] => i = j
    BY <1>1
  <2>3. \A j \in B : \E i \in A : f[i] = j
    <3> SUFFICES ASSUME NEW j \in B
                 PROVE  \E i \in A : f[i] = j
      OBVIOUS
    <3>0. j \in 1..n + 1 /\ j # k + 1
      OBVIOUS
    <3>1. CASE j <= k
      <4>1. j \in A /\ f[j] = j
        BY <1>1, <1>4, <3>1
      <4> QED
        BY <4>1
    <3>2. CASE j > k
      <4>1. PICK m \in 1..n : m = j - 1 /\ j = m + 1 /\ ~(m <= k) /\ j \in 1..n + 1
        BY <1>1, <3>2
      <4>2. r[j] = w[m] /\ r[j] # "blank"
        BY <1>1, <1>4, <3>2, <4>1
      <4>3. m \in A /\ f[m] = j
        BY <4>1, <4>2
      <4> QED
        BY <4>3
    <3>3. j <= k \/ j > k
      BY <1>1, <3>0
    <3> QED
      BY <3>1, <3>2, <3>3
  <2>4. f \in [A -> B]
    BY <2>1
  <2> QED
    BY <2>2, <2>3, <2>4 DEF Bijection, Injection, Surjection, IsInjective
<1>7. IsFiniteSet(B) /\ Cardinality(B) = Cardinality(A)
  <2>1. ExistsBijection(A, B)
    BY <1>6 DEF ExistsBijection
  <2> QED
    BY <1>5, <2>1, FS_Bijection
<1>8. r[k + 1] = line /\ k + 1 \in 1..n + 1
  BY <1>1, <1>4
<1>9. CASE line # "blank"
  <2>1. R = B \cup {k + 1}
    BY <1>8, <1>9
  <2>2. Cardinality(R) = Cardinality(B) + 1
    BY <1>7, <2>1, FS_AddElement
  <2>3. Length(line) = 1
    BY <1>9 DEF Length
  <2> QED
    BY <1>2, <1>3, <1>5, <1>7, <2>2, <2>3
<1>10. CASE line = "blank"
  <2>1. k + 1 \notin R
    BY <1>8, <1>10
  <2>2. R \subseteq B /\ B \subseteq R
    BY <2>1
  <2> HIDE DEF R, B
  <2>3. R = B
    BY <2>2
  <2>4. Length(line) = 0
    BY <1>10 DEF Length
  <2> QED
    BY <1>2, <1>3, <1>5, <1>7, <2>3, <2>4
<1> QED
  BY <1>9, <1>10

\* No lines have no length.
LEMMA WeightEmpty == Weight(<<>>) = 0
<1>1. {i \in 1..Len(<<>>) : <<>>[i] # "blank"} = {}
  OBVIOUS
<1> QED
  BY <1>1, FS_EmptySet DEF Weight

\* A line is queued at either end,
LEMMA WeightQueued ==
  ASSUME NEW w \in Seq(Lines), NEW line \in Lines
  PROVE  /\ Weight(<<line>> \o w) = Weight(w) + Length(line)
         /\ Weight(Append(w, line)) = Weight(w) + Length(line)
<1>1. PICK r : r = <<line>> \o w
  OBVIOUS
<1>2. Inserted(r, w, 0, line)
  <2>1. Len(r) = Len(w) + 1 /\ Len(w) \in Nat /\ r[1] = line
    BY <1>1
  <2>2. \A i \in 1..Len(w) + 1 : i # 1 => r[i] = w[i - 1]
    BY <1>1
  <2> QED
    BY <2>1, <2>2 DEF Inserted
<1>3. PICK a : a = Append(w, line)
  OBVIOUS
<1>4. Inserted(a, w, Len(w), line)
  <2>1. /\ Len(w) \in Nat /\ Len(a) = Len(w) + 1
        /\ \A i \in 1..Len(w) : a[i] = w[i]
        /\ a[Len(w) + 1] = line
    BY <1>3, AppendProperties
  <2> QED
    BY <2>1 DEF Inserted
<1>5. Len(w) \in Nat /\ 0 \in 0..Len(w) /\ Len(w) \in 0..Len(w)
  OBVIOUS
<1> QED
  BY <1>1, <1>2, <1>3, <1>4, <1>5, WeightInserted

\* or taken from the front.
LEMMA WeightTaken ==
  ASSUME NEW w \in Seq(Lines), w # <<>>
  PROVE  /\ Weight(w) \in Nat /\ Weight(Tail(w)) \in Nat
         /\ Weight(Tail(w)) = Weight(w) - Length(w[1])
         /\ Weight(Tail(w)) <= Weight(w)
<1>1. PICK r \in Seq(Lines) : r = Tail(w)
  BY HeadTailProperties
<1>2. /\ Len(r) = Len(w) - 1 /\ Len(w) \in Nat \ {0}
      /\ \A i \in 1..Len(r) : r[i] = w[i + 1]
  BY <1>1, HeadTailProperties, EmptySeq
<1>3. \A i \in 1..Len(w) : i # 1 => w[i] = r[i - 1]
  <2> SUFFICES ASSUME NEW i \in 1..Len(w), i # 1
               PROVE  w[i] = r[i - 1]
    OBVIOUS
  <2>1. i - 1 \in 1..Len(r) /\ (i - 1) + 1 = i
    BY <1>2
  <2> QED
    BY <1>2, <2>1
<1>4. Len(w) = Len(r) + 1 /\ 0 \in 0..Len(r)
  BY <1>2
<1>5. PICK line : line = w[1]
  OBVIOUS
<1>6. Inserted(w, r, 0, line)
  BY <1>3, <1>4, <1>5 DEF Inserted
<1>7. Weight(r) \in Nat /\ Weight(w) = Weight(r) + Length(line)
  BY <1>4, <1>6, WeightInserted
<1>8. Length(line) \in {0, 1}
  BY DEF Length
<1>9. /\ Weight(w) \in Nat
      /\ Weight(r) = Weight(w) - Length(line)
      /\ Weight(r) <= Weight(w)
  BY <1>7, <1>8
<1> QED
  BY <1>1, <1>5, <1>7, <1>9

\* A length is a number.
LEMMA WeightType ==
  ASSUME NEW w \in Seq(Lines)
  PROVE  Weight(w) \in Nat
BY WeightEmpty, WeightTaken

-----------------------------------------------------------------------------
(* Suspending and resuming a connection. *)

\* h is the connection that q and the name of q lead to.
Attends(S, q, h) ==
  /\ S.sh[h].open
  /\ \A g \in Handles : S.sh[g].open => /\ S.sh[g].player = S.tq[q].player <=> g = h
                                        /\ S.sh[g].tasks = q <=> g = h

Meets(S, q) == S.tq[q].connected => \E h \in Handles : Attends(S, q, h)

\* That is so between any two steps,
LEMMA SoundMeets ==
  ASSUME NEW S, Sound(S), NEW q \in Live(S)
  PROVE  Meets(S, q)
<1> SUFFICES ASSUME S.tq[q].connected
             PROVE  \E h \in Handles : Attends(S, q, h)
  BY DEF Meets
<1>1. Single(S) /\ Wired(S)
  BY DEF Sound
<1>2. PICK h \in Handles : S.sh[h].open /\ S.sh[h].tasks = q
  BY <1>1 DEF Wired
<1>3. S.tq[q].player = S.sh[h].player /\ S.tq[q].player # NOTHING
  <2>1. S.tq[q].player = S.sh[h].player /\ S.sh[h].player \in Players \cup {ConnId(h)}
    BY <1>1, <1>2 DEF Wired
  <2>2. NOTHING \notin Players /\ ConnId(h) # NOTHING
    BY ConnIdFacts, ConstantsAssumption DEF NOTHING
  <2> QED
    BY <2>1, <2>2
<1>4. ASSUME NEW g \in Handles, S.sh[g].open, S.sh[g].player = S.tq[q].player
      PROVE  g = h
  <2>1. S.sh[g].tasks \in Live(S) /\ S.tq[S.sh[g].tasks].player = S.sh[g].player
    BY <1>1, <1>4 DEF Wired
  <2>2. S.sh[g].tasks = q
    BY <1>1, <1>3, <1>4, <2>1 DEF Single
  <2> QED
    BY <1>1, <1>2, <1>4, <2>2 DEF Wired
<1>5. \A g \in Handles : S.sh[g].open /\ S.sh[g].tasks = q => g = h
  BY <1>1, <1>2 DEF Wired
<1> QED
  BY <1>2, <1>3, <1>4, <1>5 DEF Attends

\* and in the middle of one that leaves the queue its connection.
LEMMA MeetsKept ==
  ASSUME NEW S, NEW T, NEW q, T.sh = S.sh, T.tq[q].player = S.tq[q].player,
         T.tq[q].connected = S.tq[q].connected, Meets(S, q)
  PROVE  Meets(T, q)
BY DEF Meets, Attends

\* The flags of a queue and its connection are set to b, and nothing else changes.
Gated(S, T, q, h, b) ==
  /\ \A r \in Queues : /\ T.tq[r].input = S.tq[r].input
                       /\ T.tq[r].len = S.tq[r].len
                       /\ T.tq[r].connected = S.tq[r].connected
                       /\ T.tq[r].player = S.tq[r].player
                       /\ T.tq[r].insusp = IF r = q THEN b ELSE S.tq[r].insusp
  /\ \A g \in Handles : /\ T.sh[g].open = S.sh[g].open
                        /\ T.sh[g].tasks = S.sh[g].tasks
                        /\ T.sh[g].outbound = S.sh[g].outbound
                        /\ T.sh[g].suspended = IF g = h THEN b ELSE S.sh[g].suspended

\* server_suspend_input() and server_resume_input() do so.
LEMMA GateSet ==
  ASSUME NEW S \in Good, NEW q \in Queues, NEW h \in Handles, Attends(S, q, h),
         NEW b \in BOOLEAN
  PROVE  Gated(S, [set_suspended(S, S.tq[q].player, b) EXCEPT !.tq[q].insusp = b], q, h, b)
<1>1. find_shandle(S, S.tq[q].player) = h
  <2>1. {g \in Handles : S.sh[g].open /\ S.sh[g].player = S.tq[q].player} = {h}
    BY DEF Attends
  <2> QED
    BY <2>1 DEF find_shandle
<1>2. PICK C : C = set_suspended(S, S.tq[q].player, b)
  OBVIOUS
<1>3. C = [S EXCEPT !.sh[h].suspended = b]
  BY <1>1, <1>2, NullIsNoQueue DEF set_suspended
<1>4. PICK T : T = [C EXCEPT !.tq[q].insusp = b]
  OBVIOUS
<1>5. PICK f : f = [S.tq[q] EXCEPT !.insusp = b]
  OBVIOUS
<1>6. PICK d : d = [S.sh[h] EXCEPT !.suspended = b]
  OBVIOUS
<1>7. T.tq = [S.tq EXCEPT ![q] = f] /\ T.sh = [S.sh EXCEPT ![h] = d]
  BY <1>3, <1>4, <1>5, <1>6 DEF Good, States
<1>8. /\ f.input = S.tq[q].input /\ f.len = S.tq[q].len /\ f.player = S.tq[q].player
      /\ f.connected = S.tq[q].connected /\ f.insusp = b
  BY <1>5 DEF Good, States, TQueues
<1>9. /\ d.open = S.sh[h].open /\ d.tasks = S.sh[h].tasks /\ d.outbound = S.sh[h].outbound
      /\ d.suspended = b
  BY <1>6 DEF Good, States, SHandles
<1>10. T.tq[q] = f /\ \A r \in Queues : r # q => T.tq[r] = S.tq[r]
  BY <1>7 DEF Good, States
<1>11. T.sh[h] = d /\ \A g \in Handles : g # h => T.sh[g] = S.sh[g]
  BY <1>7 DEF Good, States
<1>12. Gated(S, T, q, h, b)
  BY <1>8, <1>9, <1>10, <1>11 DEF Gated
<1> QED
  BY <1>2, <1>4, <1>12

\* A connection may be suspended while there is a line, and resumed when it is not full.
LEMMA GateFlow ==
  ASSUME NEW S \in Good, NEW T, NEW q \in Queues, NEW h \in Handles, Attends(S, q, h),
         NEW b \in BOOLEAN, Gated(S, T, q, h, b), NEW n \in Nat, FlowBut(S, n, q),
         S.tq[q].connected, b => S.tq[q].input # <<>>, ~b => ~(S.tq[q].len > HiWat)
  PROVE  Flow(T, n)
<1>1. \A g \in Handles : S.sh[g].open => S.sh[g].tasks \in Queues /\ (S.sh[g].tasks = q <=> g = h)
  BY DEF Good, Attends
<1>2. FlowBut(T, n, q)
  BY <1>1, SMTT(40) DEF FlowBut, Gated
<1>3. NotTooFull(T, q)
  BY <1>1 DEF NotTooFull, Gated
<1>4. Resumable(T, q)
  BY DEF Resumable, Gated
<1> QED
  BY <1>2, <1>3, <1>4, FlowAgain

-----------------------------------------------------------------------------
(* Operators that change lines. *)

\* The lines of q are set, and their length with them.
LinesSet(S, T, q, lines) ==
  /\ \A r \in Queues : r # q => T.tq[r] = S.tq[r]
  /\ T.tq[q].input = lines /\ T.tq[q].len = Weight(lines)
  /\ T.tq[q].connected = S.tq[q].connected /\ T.tq[q].insusp = S.tq[q].insusp
  /\ T.tq[q].player = S.tq[q].player
  /\ T.sh = S.sh

\* An EXCEPT of the two fields does so.
LEMMA LinesAreSet ==
  ASSUME NEW S \in Good, NEW q \in Queues, NEW lines \in Seq(Lines), NEW m \in Int,
         m = Weight(lines)
  PROVE  LinesSet(S, [S EXCEPT !.tq[q].input = lines, !.tq[q].len = m], q, lines)
<1>1. PICK T : T = [S EXCEPT !.tq[q].input = lines, !.tq[q].len = m]
  OBVIOUS
<1>2. PICK f : f = [S.tq[q] EXCEPT !.input = lines, !.len = m]
  OBVIOUS
<1>3. T.tq = [S.tq EXCEPT ![q] = f] /\ T.sh = S.sh
  BY <1>1, <1>2 DEF Good, States
<1>4. /\ f.input = lines /\ f.len = m /\ f.player = S.tq[q].player
      /\ f.connected = S.tq[q].connected /\ f.insusp = S.tq[q].insusp
  BY <1>2 DEF Good, States, TQueues
<1>5. T.tq[q] = f /\ \A r \in Queues : r # q => T.tq[r] = S.tq[r]
  BY <1>3 DEF Good, States
<1>6. LinesSet(S, T, q, lines)
  BY <1>3, <1>4, <1>5 DEF LinesSet
<1> QED
  BY <1>1, <1>6

\* The other queues are as they were.
LEMMA LinesFlow ==
  ASSUME NEW S \in Good, NEW T, NEW q \in Queues, NEW lines, LinesSet(S, T, q, lines),
         NEW n, FlowBut(S, n, q)
  PROVE  FlowBut(T, n, q)
<1>1. \A h \in Handles : S.sh[h].open => S.sh[h].tasks \in Queues
  BY DEF Good
<1>2. \A h \in Handles : T.sh[h].open /\ T.sh[h].tasks # q /\ T.tq[T.sh[h].tasks].len > HiWat =>
        T.tq[T.sh[h].tasks].insusp \/ T.sh[h].outbound
  BY <1>1 DEF FlowBut, LinesSet
<1>3. \A r \in Queues : r # q /\ T.tq[r].connected /\ T.tq[r].insusp => T.tq[r].input # <<>>
  BY DEF FlowBut, LinesSet
<1>4. \A r \in Queues : T.tq[r].len = Weight(T.tq[r].input)
  BY DEF FlowBut, LinesSet
<1>5. \A h \in Handles : T.sh[h].open => T.sh[h].suspended = T.tq[T.sh[h].tasks].insusp
  BY <1>1 DEF FlowBut, LinesSet
<1>6. \A r \in Queues : T.tq[r].insusp \/ T.tq[r].connected =>
        \A h \in Handles : T.tq[r].player = ConnId(h) => h <= n
  BY DEF FlowBut, LinesSet
<1> QED
  BY <1>2, <1>3, <1>4, <1>5, <1>6 DEF FlowBut

\* A queue that is not too full any more is resumed, before its last line is gone.
LEMMA BelowFlow ==
  ASSUME NEW S \in Good, NEW q \in Queues, Meets(S, q), NEW n \in Nat, FlowBut(S, n, q),
         NotTooFull(S, q)
  PROVE  Flow(resume_below_lowat(S, q), n)
<1>1. S.tq[q].len = Weight(S.tq[q].input) /\ S.tq[q].len \in Int
  BY DEF FlowBut, Good, States, TQueues
<1>2. LoWat \in Nat /\ LoWat >= 1 /\ LoWat <= HiWat /\ HiWat \in Nat
  BY ConstantsAssumption DEF LoWat
<1>3. CASE S.tq[q].insusp /\ S.tq[q].connected /\ S.tq[q].len < LoWat
  <2>1. PICK h \in Handles : Attends(S, q, h)
    BY <1>3 DEF Meets
  <2>2. PICK T : T = resume_input(S, q)
    BY SMTT(40)
  <2>3. Gated(S, T, q, h, FALSE)
    BY <2>1, <2>2, GateSet DEF resume_input
  <2>4. ~(S.tq[q].len > HiWat)
    BY <1>1, <1>2, <1>3
  <2>5. Flow(T, n)
    BY <1>3, <2>1, <2>3, <2>4, GateFlow
  <2> QED
    BY <1>3, <2>2, <2>5 DEF resume_below_lowat
<1>4. CASE ~(S.tq[q].insusp /\ S.tq[q].connected /\ S.tq[q].len < LoWat)
  <2>1. Resumable(S, q)
    <3> SUFFICES ASSUME S.tq[q].connected, S.tq[q].insusp, S.tq[q].input = <<>>
                 PROVE  FALSE
      BY DEF Resumable
    <3>1. S.tq[q].len = 0
      BY <1>1, WeightEmpty
    <3> QED
      BY <1>2, <1>4, <3>1
  <2>2. Flow(S, n)
    BY <2>1, FlowAgain
  <2> QED
    BY <1>4, <2>2 DEF resume_below_lowat
<1> QED
  BY <1>3, <1>4

\* A line is taken.
LEMMA DequeueInputFlow ==
  ASSUME NEW S \in Good, NEW q \in Queues, Meets(S, q), S.tq[q].input # <<>>
  PROVE  Smooth(S, dequeue_input_task(S, q))
<1> SUFFICES ASSUME NEW n \in Nat, Flow(S, n)
             PROVE  Flow(dequeue_input_task(S, q), n)
  BY DEF Smooth
<1>1. PICK w \in Seq(Lines) : w = S.tq[q].input /\ w # <<>>
  BY QueueType
<1>2. PICK lines \in Seq(Lines) : lines = Tail(w)
  BY <1>1, HeadTailProperties
<1>3. S.tq[q].len = Weight(w) /\ NotTooFull(S, q)
  BY <1>1 DEF Flow, FlowBut
<1>4. PICK m \in Nat : m = Weight(w) - Length(w[1])
  BY <1>1, WeightTaken
<1>5. m = Weight(lines) /\ m <= Weight(w) /\ Weight(w) \in Nat
  BY <1>1, <1>2, <1>4, WeightTaken
<1>6. PICK C : C = [S EXCEPT !.tq[q].input = lines, !.tq[q].len = m]
  OBVIOUS
<1>7. C \in Good /\ LinesSet(S, C, q, lines)
  <2>1. m \in Int
    OBVIOUS
  <2>2. C \in Good
    BY <1>6, <2>1, SetInputType
  <2>3. LinesSet(S, C, q, lines)
    BY <1>5, <1>6, <2>1, LinesAreSet
  <2> QED
    BY <2>2, <2>3
<1>8. FlowBut(C, n, q)
  <2>1. FlowBut(S, n, q)
    BY DEF Flow
  <2> QED
    BY <1>7, <2>1, LinesFlow
<1>9. NotTooFull(C, q)
  <2>1. C.tq[q].len > HiWat => S.tq[q].len > HiWat
    BY <1>3, <1>5, <1>7, ConstantsAssumption DEF LinesSet
  <2> QED
    BY <1>3, <1>7, <2>1 DEF NotTooFull, LinesSet
<1>10. Meets(C, q)
  BY <1>7, MeetsKept DEF LinesSet
<1>11. dequeue_input_task(S, q) = resume_below_lowat(C, q)
  BY <1>1, <1>2, <1>3, <1>4, <1>6 DEF dequeue_input_task
<1>12. Flow(resume_below_lowat(C, q), n)
  BY <1>7, <1>8, <1>9, <1>10, BelowFlow
<1> QED
  BY <1>11, <1>12

\* All lines are.
LEMMA FlushInputFlow ==
  ASSUME NEW S \in Good, NEW q \in Queues, Meets(S, q)
  PROVE  Smooth(S, flush_input(S, q))
<1> SUFFICES ASSUME NEW n \in Nat, Flow(S, n), S.tq[q].input # <<>>
             PROVE  Flow(flush_input(S, q), n)
  BY DEF Smooth, flush_input
<1>1. PICK C : C = [S EXCEPT !.tq[q].input = <<>>, !.tq[q].len = 0]
  OBVIOUS
<1>2. <<>> \in Seq(Lines) /\ 0 \in Int /\ 0 = Weight(<<>>)
  BY WeightEmpty
<1>3. C \in Good /\ LinesSet(S, C, q, <<>>)
  BY <1>1, <1>2, SetInputType, LinesAreSet
<1>4. FlowBut(C, n, q)
  <2>1. FlowBut(S, n, q)
    BY DEF Flow
  <2> QED
    BY <1>3, <2>1, LinesFlow
<1>5. NotTooFull(C, q)
  <2>1. ~(C.tq[q].len > HiWat)
    BY <1>2, <1>3, ConstantsAssumption DEF LinesSet
  <2> QED
    BY <2>1 DEF NotTooFull
<1>6. Meets(C, q)
  BY <1>3, MeetsKept DEF LinesSet
<1>7. flush_input(S, q) = resume_below_lowat(C, q)
  BY <1>1 DEF flush_input
<1>8. Flow(resume_below_lowat(C, q), n)
  BY <1>3, <1>4, <1>5, <1>6, BelowFlow
<1> QED
  BY <1>7, <1>8

-----------------------------------------------------------------------------
(* Operators that change no line. *)

\* Lines, flags and names of the queues and all connections stay.
Plain(S, T) ==
  /\ \A r \in Queues : /\ T.tq[r].input = S.tq[r].input
                       /\ T.tq[r].len = S.tq[r].len
                       /\ T.tq[r].insusp = S.tq[r].insusp
                       /\ T.tq[r].connected = S.tq[r].connected
                       /\ T.tq[r].player = S.tq[r].player
  /\ T.sh = S.sh

\* Such steps in a row are one,
LEMMA PlainTrans ==
  ASSUME NEW S, NEW T, NEW U, Plain(S, T), Plain(T, U)
  PROVE  Plain(S, U)
BY DEF Plain

\* That is a case of a step aside.
LEMMA PlainAside ==
  ASSUME NEW S, NEW T, Plain(S, T)
  PROVE  Aside(S, T)
BY DEF Plain, Aside

\* and keeps the flow.
LEMMA PlainSmooth ==
  ASSUME NEW S \in Good, NEW T, Plain(S, T)
  PROVE  Smooth(S, T)
BY PlainAside, AsideSmooth

\* Fields of one queue change that the flow of input does not depend on.
LEMMA PlainQueue ==
  ASSUME NEW S \in Good, NEW q \in Queues, NEW T, NEW f, T.tq = [S.tq EXCEPT ![q] = f],
         T.sh = S.sh, f.input = S.tq[q].input, f.len = S.tq[q].len,
         f.insusp = S.tq[q].insusp, f.connected = S.tq[q].connected, f.player = S.tq[q].player
  PROVE  Plain(S, T)
<1>1. T.tq[q] = f /\ \A r \in Queues : r # q => T.tq[r] = S.tq[r]
  BY DEF Good, States
<1> QED
  BY <1>1 DEF Plain

\* So do the queue's place in the lists and its usage,
LEMMA ActivatePlain ==
  ASSUME NEW S \in Good, NEW q \in Queues
  PROVE  Plain(S, activate_tqueue(S, q)) /\ Plain(S, deactivate_tqueue(S, q))
<1>1. Plain(S, activate_tqueue(S, q))
  BY DEF activate_tqueue, Plain, Good, States
<1>2. PICK T : T = deactivate_tqueue(S, q)
  OBVIOUS
<1>3. PICK f : f = [S.tq[q] EXCEPT !.usage = NO_USAGE]
  OBVIOUS
<1>4. T.tq = [S.tq EXCEPT ![q] = f] /\ T.sh = S.sh
  BY <1>2, <1>3 DEF deactivate_tqueue, Good, States
<1>5. /\ f.input = S.tq[q].input /\ f.len = S.tq[q].len /\ f.insusp = S.tq[q].insusp
      /\ f.connected = S.tq[q].connected /\ f.player = S.tq[q].player
  BY <1>3 DEF Good, States, TQueues
<1>6. Plain(S, T)
  BY <1>4, <1>5, PlainQueue
<1> QED
  BY <1>1, <1>2, <1>6

\* ensure_usage() does no more than that.
LEMMA EnsureUsagePlain ==
  ASSUME NEW S \in Good, NEW q \in Queues
  PROVE  Plain(S, ensure_usage(S, q))
<1>1. PICK u : u = IF S.active = <<>> THEN 0 ELSE S.tq[S.active[1]].usage
  OBVIOUS
<1>2. PICK C : C = [S EXCEPT !.tq[q].usage = u, !.idle = @ \ {q}]
  OBVIOUS
<1>3. PICK f : f = [S.tq[q] EXCEPT !.usage = u]
  OBVIOUS
<1>4. C.tq = [S.tq EXCEPT ![q] = f] /\ C.sh = S.sh
  BY <1>2, <1>3 DEF Good, States
<1>5. /\ f.input = S.tq[q].input /\ f.len = S.tq[q].len /\ f.insusp = S.tq[q].insusp
      /\ f.connected = S.tq[q].connected /\ f.player = S.tq[q].player
  BY <1>3 DEF Good, States, TQueues
<1>6. Plain(S, C)
  BY <1>4, <1>5, PlainQueue
<1>7. PICK T : T = activate_tqueue(C, q)
  OBVIOUS
<1>8. T.tq = C.tq /\ T.sh = C.sh
  BY <1>2, <1>7 DEF activate_tqueue, Good, States
<1>9. ensure_usage(S, q) = S \/ ensure_usage(S, q) = T
  BY <1>1, <1>2, <1>7 DEF ensure_usage
<1> QED
  BY <1>6, <1>8, <1>9 DEF Plain

\* the fields of its tasks and the option hold-input,
LEMMA FieldPlain ==
  ASSUME NEW S \in Good, NEW q \in Queues, NEW x, NEW f,
         \/ f = [S.tq[q] EXCEPT !.bg = x]
         \/ f = [S.tq[q] EXCEPT !.num = x]
         \/ f = [S.tq[q] EXCEPT !.reader = x]
         \/ f = [S.tq[q] EXCEPT !.hold = x]
         \/ f = [S.tq[q] EXCEPT !.usage = x],
         NEW T, T.tq = [S.tq EXCEPT ![q] = f], T.sh = S.sh
  PROVE  Plain(S, T)
<1>1. PICK r \in TQueues : r = S.tq[q]
  BY QueueType
<1>2. /\ f.input = r.input /\ f.len = r.len /\ f.insusp = r.insusp
      /\ f.connected = r.connected /\ f.player = r.player
  <2>1. CASE f = [r EXCEPT !.bg = x]
    BY <1>1, <2>1 DEF TQueues
  <2>2. CASE f = [r EXCEPT !.num = x]
    BY <1>1, <2>2 DEF TQueues
  <2>3. CASE f = [r EXCEPT !.reader = x]
    BY <1>1, <2>3 DEF TQueues
  <2>4. CASE f = [r EXCEPT !.hold = x]
    BY <1>1, <2>4 DEF TQueues
  <2>5. CASE f = [r EXCEPT !.usage = x]
    BY <1>1, <2>5 DEF TQueues
  <2> QED
    BY <1>1, <2>1, <2>2, <2>3, <2>4, <2>5, Zenon
<1> QED
  BY <1>1, <1>2, PlainQueue

\* its ready tasks and their number,
LEMMA BgPlain ==
  ASSUME NEW S \in Good, NEW q \in Queues, NEW bg, NEW m
  PROVE  Plain(S, SetBg(S, q, bg, m))
<1>1. PICK T : T = SetBg(S, q, bg, m)
  OBVIOUS
<1>2. PICK f : f = [S.tq[q] EXCEPT !.bg = bg, !.num = m]
  OBVIOUS
<1>3. T.tq = [S.tq EXCEPT ![q] = f] /\ T.sh = S.sh
  BY <1>1, <1>2 DEF SetBg, Good, States
<1>4. /\ f.input = S.tq[q].input /\ f.len = S.tq[q].len /\ f.insusp = S.tq[q].insusp
      /\ f.connected = S.tq[q].connected /\ f.player = S.tq[q].player
  BY <1>2 DEF Good, States, TQueues
<1> QED
  BY <1>1, <1>3, <1>4, PlainQueue

\* or a queue that is made.
LEMMA WithTqueueAside ==
  ASSUME NEW S \in Good, Linked(S, {}), NEW p \in Objids
  PROVE  Aside(S, with_tqueue(S, p))
<1>1. PICK T : T = with_tqueue(S, p)
  OBVIOUS
<1>2. /\ T.sh = S.sh
      /\ \/ T.tq = S.tq
         \/ \E d \in Queues \ Live(S) :
              T.tq = [S.tq EXCEPT ![d] = [NewTQueue EXCEPT !.player = p]]
  BY <1>1, WithTqueueMade
<1>3. ASSUME NEW d \in Queues \ Live(S), T.tq = [S.tq EXCEPT ![d] = [NewTQueue EXCEPT !.player = p]]
      PROVE  Aside(S, T)
  <2>1. T.tq[d] = [NewTQueue EXCEPT !.player = p] /\ \A r \in Queues : r # d => T.tq[r] = S.tq[r]
    BY <1>3 DEF Good, States
  <2>2. S.tq[d] = NewTQueue
    BY DEF Linked
  <2>3. /\ T.tq[d].input = NewTQueue.input /\ T.tq[d].len = NewTQueue.len
        /\ T.tq[d].insusp = NewTQueue.insusp
        /\ ~T.tq[d].insusp /\ ~T.tq[d].connected
    BY <2>1 DEF NewTQueue
  <2> QED
    BY <1>2, <2>1, <2>2, <2>3 DEF Aside
<1>4. ASSUME T.tq = S.tq
      PROVE  Aside(S, T)
  BY <1>2, <1>4 DEF Aside
<1> QED
  BY <1>1, <1>2, <1>3, <1>4

\* free_task_queue() and free_shandle(): the queue is not connected any more.
LEMMA FreeTaskQueueAside ==
  ASSUME NEW S \in Good, NEW q \in Queues
  PROVE  Aside(S, free_task_queue(S, q))
<1>1. PICK C : C = [S EXCEPT !.tq[q].connected = FALSE]
  OBVIOUS
<1>2. PICK f : f = [S.tq[q] EXCEPT !.connected = FALSE]
  OBVIOUS
<1>3. C \in Good
  BY <1>1, SetFlagType
<1>4. C.tq = [S.tq EXCEPT ![q] = f] /\ C.sh = S.sh
  BY <1>1, <1>2 DEF Good, States
<1>5. /\ f.input = S.tq[q].input /\ f.len = S.tq[q].len /\ f.insusp = S.tq[q].insusp
      /\ f.connected = FALSE /\ f.player = S.tq[q].player
  BY <1>2 DEF Good, States, TQueues
<1>6. C.tq[q] = f /\ \A r \in Queues : r # q => C.tq[r] = S.tq[r]
  BY <1>4 DEF Good, States
<1>7. Aside(S, C)
  BY <1>4, <1>5, <1>6 DEF Aside
<1>8. Aside(C, ensure_usage(C, q))
  BY <1>3, EnsureUsagePlain, PlainAside
<1>9. free_task_queue(S, q) \in {C, ensure_usage(C, q)}
  BY <1>1 DEF free_task_queue
<1> QED
  BY <1>7, <1>8, <1>9, AsideTrans

\* free_shandle() closes the connection first.
LEMMA FreeShandleAside ==
  ASSUME NEW S \in Good, NEW h \in Handles, S.sh[h].open
  PROVE  Aside(S, free_shandle(S, h))
<1>1. PICK C : C = [S EXCEPT !.sh[h] = NoHandle]
  OBVIOUS
<1>2. NoHandle \in SHandles /\ ~NoHandle.open
  BY NewTypes DEF NoHandle, SHandles
<1>3. C \in Good
  BY <1>1, <1>2 DEF Good, States
<1>4. C.tq = S.tq /\ C.sh = [S.sh EXCEPT ![h] = NoHandle]
  BY <1>1 DEF Good, States
<1>5. C.sh[h] = NoHandle /\ \A g \in Handles : g # h => C.sh[g] = S.sh[g]
  BY <1>4 DEF Good, States
<1>6. Aside(S, C)
  BY <1>2, <1>4, <1>5 DEF Aside
<1>7. PICK q \in Queues : q = S.sh[h].tasks
  BY DEF Good
<1>8. Aside(C, free_task_queue(C, q))
  BY <1>3, FreeTaskQueueAside
<1>9. free_shandle(S, h) = free_task_queue(C, q)
  BY <1>1, <1>7 DEF free_shandle
<1> QED
  BY <1>6, <1>8, <1>9, AsideTrans

-----------------------------------------------------------------------------
(* Operators on lines, with all they call. *)

\* A line is queued: the connection is suspended if that is one too many.
LEMMA EnqueueInputQueued ==
  ASSUME NEW S, Sound(S), NEW q \in Live(S), NEW line \in Lines, NEW front \in BOOLEAN,
         NEW n \in Nat, FlowBut(S, n, q)
  PROVE  /\ Flow(enqueue_input_task(S, q, line, front), n)
         /\ enqueue_input_task(S, q, line, front).tq[q].input # <<>>
<1>1. q \in Queues /\ S \in Good /\ Meets(S, q)
  BY LiveType, SoundMeets DEF Sound
<1>2. PICK w \in Seq(Lines) : w = S.tq[q].input
  BY <1>1, QueueType
<1>3. PICK lines \in Seq(Lines) : lines = IF front THEN <<line>> \o w ELSE Append(w, line)
  <2>1. (IF front THEN <<line>> \o w ELSE Append(w, line)) \in Seq(Lines)
    BY <1>2
  <2> QED
    BY <2>1
<1>4. lines # <<>>
  BY <1>2, <1>3
<1>5. S.tq[q].len = Weight(w)
  BY <1>1, <1>2 DEF FlowBut
<1>6. PICK m \in Int : m = Weight(w) + Length(line)
  BY <1>2, LengthType, WeightType
<1>7. m = Weight(lines)
  BY <1>2, <1>3, <1>6, WeightQueued
<1>8. PICK C : C = [S EXCEPT !.tq[q].input = lines, !.tq[q].len = m]
  OBVIOUS
<1>9. C \in Good
  BY <1>1, <1>8, SetInputType
<1>10. LinesSet(S, C, q, lines)
  BY <1>1, <1>7, <1>8, LinesAreSet
<1>11. FlowBut(C, n, q)
  BY <1>1, <1>10, LinesFlow
<1>12. PICK U : U = IF ~S.tq[q].hold \/ reading(S, q) THEN ensure_usage(C, q) ELSE C
  OBVIOUS
<1>13. U \in Good
  BY <1>1, <1>9, <1>12, EnsureUsageType
<1>14. Plain(C, U)
  <2>1. Plain(C, ensure_usage(C, q))
    BY <1>1, <1>9, EnsureUsagePlain
  <2>2. Plain(C, C)
    BY DEF Plain
  <2> QED
    BY <1>12, <2>1, <2>2
<1>15. FlowBut(U, n, q)
  BY <1>1, <1>9, <1>11, <1>14, PlainAside, AsideKeeps
<1>16. /\ U.tq[q].input = lines /\ U.tq[q].len = m
       /\ U.tq[q].connected = S.tq[q].connected /\ U.tq[q].insusp = S.tq[q].insusp
       /\ U.tq[q].player = S.tq[q].player
       /\ U.sh = S.sh
  BY <1>1, <1>7, <1>10, <1>14 DEF Plain, LinesSet
<1>17. Meets(U, q)
  BY <1>1, <1>16, MeetsKept
<1>18. PICK T : T = enqueue_input_task(S, q, line, front)
  BY SMTT(40)
<1>19. T = IF ~S.tq[q].insusp /\ S.tq[q].connected /\ C.tq[q].len > HiWat
           THEN suspend_input(U, q) ELSE U
  BY <1>2, <1>3, <1>5, <1>6, <1>8, <1>12, <1>18 DEF enqueue_input_task
<1>20. C.tq[q].len = m
  BY <1>7, <1>10 DEF LinesSet
<1>21. CASE ~S.tq[q].insusp /\ S.tq[q].connected /\ m > HiWat
  <2>1. T = suspend_input(U, q)
    BY <1>19, <1>20, <1>21
  <2>2. PICK h \in Handles : Attends(U, q, h)
    BY <1>16, <1>17, <1>21, SMTT(40) DEF Meets
  <2>3. Gated(U, T, q, h, TRUE)
    BY <1>1, <1>13, <2>1, <2>2, GateSet DEF suspend_input
  <2>4. Flow(T, n)
    BY <1>1, <1>4, <1>13, <1>15, <1>16, <1>21, <2>2, <2>3, GateFlow
  <2>5. T.tq[q].input # <<>>
    BY <1>1, <1>4, <1>16, <2>3 DEF Gated
  <2> QED
    BY <1>18, <2>4, <2>5
<1>22. CASE ~(~S.tq[q].insusp /\ S.tq[q].connected /\ m > HiWat)
  <2>1. T = U
    BY <1>19, <1>20, <1>22
  <2>2. \A h \in Handles : S.sh[h].open /\ S.sh[h].tasks = q => S.tq[q].connected
    BY DEF Sound, Wired
  <2>3. NotTooFull(U, q)
    BY <1>16, <1>22, <2>2 DEF NotTooFull
  <2>4. Resumable(U, q)
    BY <1>4, <1>16 DEF Resumable
  <2>5. Flow(U, n)
    BY <1>1, <1>15, <2>3, <2>4, FlowAgain
  <2> QED
    BY <1>4, <1>16, <1>18, <2>1, <2>5
<1> QED
  BY <1>21, <1>22

\* What was in order stays so.
LEMMA EnqueueInputFlow ==
  ASSUME NEW S, Sound(S), NEW q \in Live(S), NEW line \in Lines, NEW front \in BOOLEAN
  PROVE  Smooth(S, enqueue_input_task(S, q, line, front))
<1> SUFFICES ASSUME NEW n \in Nat, Flow(S, n)
             PROVE  Flow(enqueue_input_task(S, q, line, front), n)
  BY DEF Smooth
<1>1. q \in Queues
  BY LiveType DEF Sound
<1>2. FlowBut(S, n, q)
  BY <1>1 DEF Flow
<1> QED
  BY <1>2, EnqueueInputQueued

\* bf_force_input() and bf_flush_input() make the queue they act on.
LEMMA ForceInputFlow ==
  ASSUME NEW S, Sound(S), NEW p \in Objids, NEW line \in Lines, NEW front \in BOOLEAN
  PROVE  Smooth(S, force_input(S, p, line, front)) /\ Smooth(S, flush_player(S, p))
<1>1. PICK M : M = with_tqueue(S, p)
  OBVIOUS
<1>2. PICK q : q = find_tqueue(M, p)
  OBVIOUS
<1>3. Sound(M) /\ M \in Good
  BY <1>1, WithTqueueSound DEF Sound
<1>4. Smooth(S, M)
  <2>1. Aside(S, with_tqueue(S, p)) /\ S \in Good
    BY WithTqueueAside DEF Sound
  <2> QED
    BY <1>1, <2>1, AsideSmooth
<1>5. PICK A : A = enqueue_input_task(M, q, line, front)
  OBVIOUS
<1>6. PICK F : F = flush_input(M, q)
  OBVIOUS
<1>7. ASSUME q # Null
      PROVE  Smooth(M, A) /\ Smooth(M, F)
  <2>1. q \in Live(M) /\ q \in Queues
    BY <1>2, <1>3, <1>7, FindTqueueType, LiveType
  <2>2. Meets(M, q)
    BY <1>3, <2>1, SoundMeets
  <2>3. Smooth(M, A)
    BY <1>3, <1>5, <2>1, EnqueueInputFlow
  <2>4. Smooth(M, F)
    BY <1>3, <1>6, <2>1, <2>2, FlushInputFlow
  <2> QED
    BY <2>3, <2>4
<1>8. force_input(S, p, line, front) = IF q = Null THEN M ELSE A
  BY <1>1, <1>2, <1>5 DEF force_input
<1>9. flush_player(S, p) = IF q = Null THEN M ELSE F
  BY <1>1, <1>2, <1>6 DEF flush_player
<1>10. q # Null => Smooth(S, A) /\ Smooth(S, F)
  BY <1>4, <1>7, SmoothTrans
<1> QED
  BY <1>4, <1>8, <1>9, <1>10

\* A connection is closed.
LEMMA FreeShandleFlow ==
  ASSUME NEW S \in Good, NEW h \in Handles, S.sh[h].open
  PROVE  Smooth(S, free_shandle(S, h))
BY FreeShandleAside, AsideSmooth

-----------------------------------------------------------------------------
(* Operators on tasks. *)

\* hold-input, and the flag disconnect_me
LEMMA SetHoldFlow ==
  ASSUME NEW S \in Good, NEW q \in Queues, NEW hold \in BOOLEAN
  PROVE  Smooth(S, set_hold_input(S, q, hold))
<1>1. PICK C : C = [S EXCEPT !.tq[q].hold = hold]
  OBVIOUS
<1>2. PICK f : f = [S.tq[q] EXCEPT !.hold = hold]
  OBVIOUS
<1>3. C.tq = [S.tq EXCEPT ![q] = f] /\ C.sh = S.sh
  BY <1>1, <1>2 DEF Good, States
<1>4. C \in Good
  BY <1>1, SetFlagType
<1>5. Plain(S, C)
  BY <1>2, <1>3, FieldPlain
<1>6. Plain(C, ensure_usage(C, q))
  BY <1>4, EnsureUsagePlain
<1>7. set_hold_input(S, q, hold) \in {C, ensure_usage(C, q)}
  BY <1>1 DEF set_hold_input
<1> QED
  BY <1>5, <1>6, <1>7, PlainTrans, PlainSmooth

\* boot_player() and a client that hangs up only set disconnect_me.
LEMMA DiscFlow ==
  ASSUME NEW S \in Good, NEW h \in Handles
  PROVE  Smooth(S, [S EXCEPT !.sh[h].disc = TRUE])
<1>1. PICK T : T = [S EXCEPT !.sh[h].disc = TRUE]
  OBVIOUS
<1>2. PICK d : d = [S.sh[h] EXCEPT !.disc = TRUE]
  OBVIOUS
<1>3. T.tq = S.tq /\ T.sh = [S.sh EXCEPT ![h] = d]
  BY <1>1, <1>2 DEF Good, States
<1>4. /\ d.open = S.sh[h].open /\ d.tasks = S.sh[h].tasks /\ d.outbound = S.sh[h].outbound
      /\ d.suspended = S.sh[h].suspended
  BY <1>2 DEF Good, States, SHandles
<1>5. T.sh[h] = d /\ \A g \in Handles : g # h => T.sh[g] = S.sh[g]
  BY <1>3 DEF Good, States
<1>6. Aside(S, T)
  BY <1>3, <1>4, <1>5 DEF Aside
<1> QED
  BY <1>1, <1>6, AsideSmooth

\* A task that reads, and one that does not any more
LEMMA ReaderPlain ==
  ASSUME NEW S \in Good, NEW q \in Queues, NEW t
  PROVE  Plain(S, [S EXCEPT !.tq[q].reader = t])
<1>1. PICK T : T = [S EXCEPT !.tq[q].reader = t]
  OBVIOUS
<1>2. PICK f : f = [S.tq[q] EXCEPT !.reader = t]
  OBVIOUS
<1>3. T.tq = [S.tq EXCEPT ![q] = f] /\ T.sh = S.sh
  BY <1>1, <1>2 DEF Good, States
<1>4. Plain(S, T)
  BY <1>2, <1>3, FieldPlain
<1> QED
  BY <1>1, <1>4

\* read() leaves the task with the queue.
LEMMA MakeReadingFlow ==
  ASSUME NEW S \in Good, NEW q \in Queues, NEW t \in Tasks
  PROVE  Smooth(S, make_reading_task(S, q, t))
<1>1. PICK C : C = [S EXCEPT !.tq[q].reader = t]
  OBVIOUS
<1>2. C \in Good /\ Plain(S, C)
  BY <1>1, SetReaderType, ReaderPlain
<1>3. Plain(C, ensure_usage(C, q))
  BY <1>2, EnsureUsagePlain
<1>4. make_reading_task(S, q, t) \in {C, ensure_usage(C, q)}
  BY <1>1 DEF make_reading_task
<1> QED
  BY <1>2, <1>3, <1>4, PlainTrans, PlainSmooth

\* A task that waits, until it is ready, and ready ones that are run or killed
LEMMA EnqueueWaitingFlow ==
  ASSUME NEW S, Sound(S), NEW t \in Tasks
  PROVE  Smooth(S, enqueue_waiting(S, t))
<1>1. PICK M : M = with_tqueue(S, t.progr)
  OBVIOUS
<1>2. PICK q : q = find_tqueue(M, t.progr)
  OBVIOUS
<1>3. t.progr \in Objids
  BY DEF Tasks
<1>4. M \in Good /\ Smooth(S, M)
  <2>1. Aside(S, with_tqueue(S, t.progr)) /\ S \in Good /\ Sound(with_tqueue(S, t.progr))
    BY <1>3, WithTqueueAside, WithTqueueSound DEF Sound
  <2> QED
    BY <1>1, <2>1, AsideSmooth DEF Sound
<1>5. PICK m : m = M.tq[q].num + 1
  OBVIOUS
<1>6. PICK w : w = InsertAfter(M.waiting, Cardinality({i \in 1..Len(S.waiting) :
                     \A j \in 1..i : S.waiting[j].start <= t.start}), t)
  OBVIOUS
<1>7. PICK T : T = [M EXCEPT !.tq[q].num = m, !.waiting = w]
  OBVIOUS
<1>8. ASSUME q # Null
      PROVE  Smooth(M, T)
  <2>1. q \in Queues
    BY <1>2, <1>4, <1>8, FindTqueueType
  <2>2. PICK f : f = [M.tq[q] EXCEPT !.num = m]
    OBVIOUS
  <2>3. T.tq = [M.tq EXCEPT ![q] = f] /\ T.sh = M.sh
    BY <1>4, <1>7, <2>2 DEF Good, States
  <2>4. Plain(M, T)
    BY <1>4, <2>1, <2>2, <2>3, FieldPlain
  <2> QED
    BY <1>4, <2>4, PlainSmooth
<1>9. enqueue_waiting(S, t) = IF q = Null THEN M ELSE T
  BY <1>1, <1>2, <1>4, <1>5, <1>6, <1>7 DEF enqueue_waiting, Good, States
<1> QED
  BY <1>4, <1>8, <1>9, SmoothTrans

\* enqueue_bg_task() adds a ready task.
LEMMA EnqueueBgPlain ==
  ASSUME NEW S \in Good, NEW q \in Queues, NEW t
  PROVE  Plain(S, enqueue_bg_task(S, q, t))
<1>1. PICK b : b = Append(S.tq[q].bg, t)
  OBVIOUS
<1>2. PICK T : T = [S EXCEPT !.tq[q].bg = b]
  OBVIOUS
<1>3. PICK f : f = [S.tq[q] EXCEPT !.bg = b]
  OBVIOUS
<1>4. T.tq = [S.tq EXCEPT ![q] = f] /\ T.sh = S.sh
  BY <1>2, <1>3 DEF Good, States
<1>5. Plain(S, T)
  BY <1>3, <1>4, FieldPlain
<1>6. enqueue_bg_task(S, q, t) = T
  BY <1>1, <1>2 DEF enqueue_bg_task
<1> QED
  BY <1>5, <1>6

\* ready_first_waiting() and resume_waiting(), w being what they leave of the list
LEMMA MoveWaitingFlow ==
  ASSUME NEW S, Sound(S), NEW t \in Tasks, NEW w \in Seq(Tasks), NEW M, NEW q,
         M = with_tqueue(S, t.progr), q = find_tqueue(M, t.progr)
  PROVE  /\ Smooth(S, M)
         /\ q # Null =>
              Smooth(S, enqueue_bg_task(ensure_usage([M EXCEPT !.waiting = w], q), q, t))
<1>1. t.progr \in Objids
  BY DEF Tasks
<1>2. M \in Good /\ Smooth(S, M)
  <2>1. Aside(S, with_tqueue(S, t.progr)) /\ S \in Good /\ Sound(with_tqueue(S, t.progr))
    BY <1>1, WithTqueueAside, WithTqueueSound DEF Sound
  <2> QED
    BY <2>1, AsideSmooth DEF Sound
<1>3. ASSUME q # Null
      PROVE  Smooth(S, enqueue_bg_task(ensure_usage([M EXCEPT !.waiting = w], q), q, t))
  <2>1. q \in Queues
    BY <1>2, <1>3, FindTqueueType
  <2>2. PICK C : C = [M EXCEPT !.waiting = w]
    OBVIOUS
  <2>3. C \in Good
    BY <1>2, <2>2, SetWaitingType
  <2>4. Plain(M, C)
    BY <1>2, <2>2 DEF Plain, Good, States
  <2>5. PICK U : U = ensure_usage(C, q)
    OBVIOUS
  <2>6. U \in Good /\ Plain(C, U)
    BY <2>1, <2>3, <2>5, EnsureUsageType, EnsureUsagePlain
  <2>7. PICK T : T = enqueue_bg_task(U, q, t)
    OBVIOUS
  <2>8. Plain(U, T)
    BY <2>1, <2>6, <2>7, EnqueueBgPlain
  <2>9. Plain(M, T)
    BY <2>4, <2>6, <2>8, PlainTrans
  <2>10. Smooth(S, T)
    BY <1>2, <2>9, PlainSmooth, SmoothTrans
  <2> QED
    BY <2>2, <2>5, <2>7, <2>10
<1> QED
  BY <1>2, <1>3

\* The first of waiting_tasks is due.
LEMMA ReadyFirstFlow ==
  ASSUME NEW S, Sound(S), S.waiting # <<>>
  PROVE  Smooth(S, ready_first_waiting(S))
<1>1. S.waiting \in Seq(Tasks)
  BY WaitingType DEF Sound
<1>2. PICK t : t = S.waiting[1]
  OBVIOUS
<1>3. PICK w : w = Tail(S.waiting)
  OBVIOUS
<1>4. t \in Tasks /\ w \in Seq(Tasks)
  BY <1>1, <1>2, <1>3, HeadTailProperties, EmptySeq
<1>5. PICK M : M = with_tqueue(S, t.progr)
  OBVIOUS
<1>6. PICK q : q = find_tqueue(M, t.progr)
  OBVIOUS
<1>7. M.waiting = S.waiting
  <2>1. S \in Good
    BY DEF Sound
  <2> QED
    BY <1>5, <2>1, WithTqueueWaiting
<1>8. PICK T : T = enqueue_bg_task(ensure_usage([M EXCEPT !.waiting = w], q), q, t)
  OBVIOUS
<1>9. Smooth(S, M) /\ (q # Null => Smooth(S, T))
  BY <1>4, <1>5, <1>6, <1>8, MoveWaitingFlow
<1>10. ready_first_waiting(S) = IF q = Null THEN M ELSE T
  BY <1>2, <1>3, <1>5, <1>6, <1>7, <1>8 DEF ready_first_waiting
<1> QED
  BY <1>9, <1>10

\* resume() makes a waiting task ready.
LEMMA ResumeWaitingFlow ==
  ASSUME NEW S, Sound(S), NEW i \in 1..Len(S.waiting), NEW n \in Nat
  PROVE  Smooth(S, resume_waiting(S, i, n))
<1>1. S.waiting \in Seq(Tasks) /\ S.waiting[i] \in Tasks
  BY WaitingType DEF Sound
<1>2. PICK t : t = [S.waiting[i] EXCEPT !.start = n]
  OBVIOUS
<1>3. PICK w : w = RemoveIndex(S.waiting, i)
  OBVIOUS
<1>4. t \in Tasks /\ w \in Seq(Tasks)
  BY <1>1, <1>2, <1>3, RemoveIndexType DEF Tasks
<1>5. PICK M : M = with_tqueue(S, t.progr)
  OBVIOUS
<1>6. PICK q : q = find_tqueue(M, t.progr)
  OBVIOUS
<1>7. M.waiting = S.waiting
  <2>1. S \in Good
    BY DEF Sound
  <2> QED
    BY <1>5, <2>1, WithTqueueWaiting
<1>8. PICK T : T = enqueue_bg_task(ensure_usage([M EXCEPT !.waiting = w], q), q, t)
  OBVIOUS
<1>9. Smooth(S, M) /\ (q # Null => Smooth(S, T))
  BY <1>4, <1>5, <1>6, <1>8, MoveWaitingFlow
<1>10. resume_waiting(S, i, n) = IF q = Null THEN M ELSE T
  BY <1>2, <1>3, <1>5, <1>6, <1>7, <1>8 DEF resume_waiting
<1> QED
  BY <1>9, <1>10

\* kill_task() takes a task off waiting_tasks,
LEMMA KillWaitingFlow ==
  ASSUME NEW S \in Good, NEW i
  PROVE  Smooth(S, kill_waiting(S, i))
<1>1. PICK q : q = find_tqueue(S, S.waiting[i].progr)
  OBVIOUS
<1>2. PICK C : C = [S EXCEPT !.waiting = RemoveIndex(S.waiting, i)]
  OBVIOUS
<1>3. C.tq = S.tq /\ C.sh = S.sh
  BY <1>2 DEF Good, States
<1>4. PICK m : m = S.tq[q].num - 1
  OBVIOUS
<1>5. PICK T : T = [C EXCEPT !.tq[q].num = m]
  OBVIOUS
<1>6. ASSUME q # Null
      PROVE  Plain(S, T)
  <2>1. q \in Queues
    BY <1>1, <1>6, FindTqueueType
  <2>2. PICK f : f = [S.tq[q] EXCEPT !.num = m]
    OBVIOUS
  <2>3. T.tq = [S.tq EXCEPT ![q] = f] /\ T.sh = S.sh
    BY <1>2, <1>3, <1>5, <2>2 DEF Good, States
  <2> QED
    BY <2>1, <2>2, <2>3, FieldPlain
<1>7. Plain(S, C)
  BY <1>3 DEF Plain
<1>8. kill_waiting(S, i) = IF q = Null THEN C ELSE T
  BY <1>1, <1>2, <1>3, <1>4, <1>5 DEF kill_waiting
<1> QED
  BY <1>6, <1>7, <1>8, PlainSmooth

\* and a ready task off its queue, as run_ready_tasks() does.
LEMMA BgFlow ==
  ASSUME NEW S \in Good, NEW q \in Queues, NEW i
  PROVE  Smooth(S, dequeue_bg_task(S, q)) /\ Smooth(S, kill_bg(S, q, i))
<1>1. PICK m : m = S.tq[q].num - 1
  OBVIOUS
<1>2. PICK tail : tail = Tail(S.tq[q].bg)
  OBVIOUS
<1>3. PICK rest : rest = RemoveIndex(S.tq[q].bg, i)
  OBVIOUS
<1>4. dequeue_bg_task(S, q) = SetBg(S, q, tail, m)
  BY <1>1, <1>2 DEF dequeue_bg_task, SetBg
<1>5. kill_bg(S, q, i) = SetBg(S, q, rest, m)
  BY <1>1, <1>3 DEF kill_bg, SetBg
<1>6. Plain(S, SetBg(S, q, tail, m)) /\ Plain(S, SetBg(S, q, rest, m))
  BY BgPlain
<1> QED
  BY <1>4, <1>5, <1>6, PlainSmooth

-----------------------------------------------------------------------------
(* The ends of run_ready_tasks(). *)

\* A queue that has nothing to do goes idle.
LEMMA GoIdleFlow ==
  ASSUME NEW S, Sound(S), S.active # <<>>
  PROVE  Smooth(S, deactivate_tqueue([S EXCEPT !.active = Tail(S.active)], S.active[1]))
<1>1. PICK q : q = S.active[1]
  OBVIOUS
<1>2. PICK C : C = [S EXCEPT !.active = Tail(S.active)]
  OBVIOUS
<1>3. S \in Good /\ C \in Good /\ q \in Queues /\ C.tq = S.tq /\ C.sh = S.sh
  BY <1>1, <1>2, TailLinked DEF Sound
<1>4. PICK T : T = deactivate_tqueue(C, q)
  OBVIOUS
<1>5. Plain(C, T)
  BY <1>3, <1>4, ActivatePlain
<1>6. Plain(S, T)
  BY <1>3, <1>5 DEF Plain
<1>7. Smooth(S, T)
  BY <1>3, <1>6, PlainSmooth
<1> QED
  BY <1>1, <1>2, <1>4, <1>7

\* The queue that ran is charged.
LEMMA ChargeUsageFlow ==
  ASSUME NEW S \in Good, NEW q \in Queues, NEW n
  PROVE  Smooth(S, charge_usage(S, q, n))
<1>1. PICK u : u = S.tq[q].usage + n
  OBVIOUS
<1>2. PICK f : f = [S.tq[q] EXCEPT !.usage = u]
  OBVIOUS
<1>3. PICK C : C = [S EXCEPT !.active = AfterQueue(S.active, q), !.tq[q].usage = u]
  OBVIOUS
<1>4. PICK T : T = charge_usage(S, q, n)
  OBVIOUS
<1>5. T = activate_tqueue(C, q)
  BY <1>1, <1>3, <1>4 DEF charge_usage, Good, States
<1>6. C.tq = [S.tq EXCEPT ![q] = f] /\ C.sh = S.sh
  BY <1>2, <1>3 DEF Good, States
<1>7. T.tq = C.tq /\ T.sh = C.sh
  BY <1>3, <1>5 DEF activate_tqueue, Good, States
<1>8. T.tq = [S.tq EXCEPT ![q] = f] /\ T.sh = S.sh
  BY <1>6, <1>7
<1>9. Plain(S, T)
  BY <1>2, <1>8, FieldPlain
<1> QED
  BY <1>4, <1>9, PlainSmooth

\* Queues that serve nobody are freed, and none of them is that of a connection.
LEMMA FreeIdleFlow ==
  ASSUME NEW S, Sound(S)
  PROVE  Smooth(S, free_idle_tqueues(S))
<1> SUFFICES ASSUME NEW n \in Nat, Flow(S, n), NEW o \in Queues
             PROVE  Flow(free_idle_tqueues(S), n)
  BY DEF Smooth, Flow
<1>1. PICK dead : dead = {q \in S.idle : is_out_of_input(S, q) /\ S.tq[q].num = 0}
  OBVIOUS
<1>2. PICK T : T = free_idle_tqueues(S)
  OBVIOUS
<1>3. /\ T.sh = S.sh
      /\ \A r \in Queues : T.tq[r] = IF r \in dead THEN NewTQueue ELSE S.tq[r]
  BY <1>1, <1>2 DEF free_idle_tqueues, Sound, Good, States
<1>4. \A h \in Handles : S.sh[h].open => S.sh[h].tasks \in Queues /\ S.sh[h].tasks \notin dead
  <2>1. \A q \in dead : ~S.tq[q].connected
    BY <1>1 DEF is_out_of_input
  <2> QED
    BY <2>1 DEF Sound, Wired, Good
<1>5. /\ NewTQueue.input = <<>> /\ NewTQueue.len = Weight(<<>>)
      /\ ~NewTQueue.insusp /\ ~NewTQueue.connected
  BY WeightEmpty DEF NewTQueue
<1>6. /\ \A r \in Queues : S.tq[r].len = Weight(S.tq[r].input)
      /\ \A h \in Handles : S.sh[h].open => S.sh[h].suspended = S.tq[S.sh[h].tasks].insusp
      /\ \A r \in Queues : S.tq[r].insusp \/ S.tq[r].connected =>
           \A h \in Handles : S.tq[r].player = ConnId(h) => h <= n
      /\ \A r \in Queues : NotTooFull(S, r) /\ Resumable(S, r)
  BY DEF Flow, FlowBut
<1>7. ASSUME NEW q \in Queues
      PROVE  NotTooFull(T, q) /\ Resumable(T, q)
  <2>1. NotTooFull(T, q)
    BY <1>3, <1>4, <1>6 DEF NotTooFull
  <2>2. Resumable(T, q)
    BY <1>3, <1>5, <1>6 DEF Resumable
  <2> QED
    BY <2>1, <2>2
<1>8. \A r \in Queues : T.tq[r].len = Weight(T.tq[r].input)
  BY <1>3, <1>5, <1>6
<1>9. \A h \in Handles : T.sh[h].open => T.sh[h].suspended = T.tq[T.sh[h].tasks].insusp
  BY <1>3, <1>4, <1>6
<1>10. \A r \in Queues : T.tq[r].insusp \/ T.tq[r].connected =>
         \A h \in Handles : T.tq[r].player = ConnId(h) => h <= n
  BY <1>3, <1>5, <1>6
<1>11. ASSUME NEW q \in Queues
       PROVE  FlowBut(T, n, q)
  <2>1. \A h \in Handles : T.sh[h].open /\ T.sh[h].tasks # q /\ T.tq[T.sh[h].tasks].len > HiWat =>
          T.tq[T.sh[h].tasks].insusp \/ T.sh[h].outbound
    BY <1>3, <1>4, <1>7 DEF NotTooFull
  <2>2. \A r \in Queues : r # q /\ T.tq[r].connected /\ T.tq[r].insusp => T.tq[r].input # <<>>
    BY <1>7 DEF Resumable
  <2> QED
    BY <1>8, <1>9, <1>10, <2>1, <2>2 DEF FlowBut
<1>12. Flow(T, n)
  BY <1>7, <1>11 DEF Flow
<1> QED
  BY <1>2, <1>12

-----------------------------------------------------------------------------
(* New connections. *)

\* task_suspend_input() of a connection whose blank line for do_login_task() is queued:
\* the connection is not read from until that line is taken.
LEMMA SuspendFlow ==
  ASSUME NEW S \in Good, NEW q \in Queues, NEW h \in Handles, Attends(S, q, h),
         S.tq[q].connected, S.tq[q].input # <<>>, ~S.tq[q].insusp,
         NEW n \in Nat, FlowBut(S, n, q)
  PROVE  Flow(task_suspend_input(S, q), n)
<1>1. PICK T : T = suspend_input(S, q)
  BY SMTT(40)
<1>2. Gated(S, T, q, h, TRUE)
  BY <1>1, GateSet DEF suspend_input
<1>3. Flow(T, n)
  BY <1>2, GateFlow
<1>4. task_suspend_input(S, q) = T
  BY <1>1 DEF task_suspend_input
<1> QED
  BY <1>3, <1>4

\* A connection is opened: the queue of its number, if force_input() made one, was never
\* suspended, and a queue that is too full is that of an outbound connection or suspended.
LEMMA NewConnectionFlow ==
  ASSUME NEW S, Sound(S), NEW h \in Handles, ~S.sh[h].open, NEW outbound \in BOOLEAN,
         NEW m \in Nat, NEW n \in Nat, Flow(S, m), m < h, h <= n
  PROVE  Flow(server_new_connection(S, h, outbound), n)
<1>1. PICK M : M = with_tqueue(S, ConnId(h))
  OBVIOUS
<1>2. PICK q : q = find_tqueue(M, ConnId(h))
  OBVIOUS
<1>3. Sound(M) /\ M.sh = S.sh /\ M \in Good /\ S \in Good
  BY <1>1, ConnIdFacts, WithTqueueSound DEF Sound
<1>4. Flow(M, m)
  <2>1. Linked(S, {}) /\ ConnId(h) \in Objids
    BY ConnIdFacts DEF Sound
  <2>2. Aside(S, M)
    BY <1>1, <1>3, <2>1, WithTqueueAside
  <2>3. Smooth(S, M)
    BY <1>3, <2>2, AsideSmooth
  <2> QED
    BY <2>3 DEF Smooth
<1>5. PICK T : T = server_new_connection(S, h, outbound)
  OBVIOUS
<1>6. CASE q = Null
  <2>1. T = M
    BY <1>1, <1>2, <1>5, <1>6 DEF server_new_connection
  <2>2. \A g \in Handles : g \in Nat
    BY ConstantsAssumption
  <2>3. \A g \in Handles : g <= m => g <= n
    BY <2>2, ConstantsAssumption, SMTT(40)
  <2>4. Flow(M, n)
    BY <1>4, <2>3 DEF Flow, FlowBut
  <2> QED
    BY <1>5, <2>1, <2>4
<1>7. CASE q # Null
  <2>1. q \in Live(M) /\ q \in Queues /\ M.tq[q].player = ConnId(h)
    BY <1>2, <1>3, <1>7, FindTqueueType, LiveType
  <2>2. PICK O : O = Opened(M, q, h, outbound)
    OBVIOUS
  <2>3. Sound(O) /\ O \in Good /\ OnlyOpened(M, O, q, h)
    BY <1>3, <2>1, <2>2, OpenedSound DEF Sound
  <2>4. ~M.tq[q].insusp
    <3>1. \A g \in Handles : M.tq[q].insusp /\ M.tq[q].player = ConnId(g) => g <= m
      BY <1>4, <2>1 DEF Flow, FlowBut
    <3>2. ~(h <= m)
      BY ConstantsAssumption
    <3> QED
      BY <2>1, <3>1, <3>2
  <2>5. PICK f : f = [M.tq[q] EXCEPT !.connected = TRUE]
    OBVIOUS
  <2>6. /\ f.player = M.tq[q].player /\ f.len = M.tq[q].len /\ f.input = M.tq[q].input
        /\ f.insusp = M.tq[q].insusp /\ f.connected
    BY <1>3, <2>1, <2>5 DEF Good, States, TQueues
  <2>7. O.tq = [M.tq EXCEPT ![q] = f]
    BY <2>3, <2>5 DEF OnlyOpened
  <2>8. O.tq[q] = f /\ \A r \in Queues : r # q => O.tq[r] = M.tq[r]
    BY <1>3, <2>1, <2>7 DEF Good, States
  <2>9. PICK s : s = [NoHandle EXCEPT !.open = TRUE, !.player = ConnId(h), !.tasks = q,
                                      !.outbound = outbound]
    OBVIOUS
  <2>10. s.open /\ s.tasks = q /\ s.outbound = outbound /\ s.suspended = FALSE
    BY <2>9 DEF NoHandle
  <2>11. O.sh[h] = s /\ \A g \in Handles : g # h => O.sh[g] = M.sh[g]
    <3>1. O.sh = [M.sh EXCEPT ![h] = s]
      BY <1>3, <2>2, <2>9 DEF Opened, Good, States
    <3> QED
      BY <1>3, <3>1 DEF Good, States
  <2>12. FlowBut(O, n, q)
    <3>1. \A g \in Handles : M.sh[g].open => M.sh[g].tasks \in Queues /\ g # h
      BY <1>3, SMTT(40) DEF Good
    <3>2. FlowBut(M, m, q) /\ M.tq[q].len = Weight(M.tq[q].input)
      BY <1>4, <2>1 DEF Flow, FlowBut
    <3>3. \A r \in Queues : O.tq[r].len = Weight(O.tq[r].input)
      BY <2>6, <2>8, <3>2 DEF FlowBut
    <3>4. \A g \in Handles : O.sh[g].open => O.sh[g].suspended = O.tq[O.sh[g].tasks].insusp
      <4>1. M.tq[q].insusp \in BOOLEAN
        BY <1>3, <2>1, QueueType DEF TQueues
      <4>2. O.tq[q].insusp = FALSE
        BY <2>4, <2>6, <2>8, <4>1
      <4>3. \A g \in Handles : g # h /\ O.sh[g].open =>
              O.sh[g].suspended = O.tq[O.sh[g].tasks].insusp
        <5> SUFFICES ASSUME NEW g \in Handles, g # h, O.sh[g].open
                     PROVE  O.sh[g].suspended = O.tq[O.sh[g].tasks].insusp
          OBVIOUS
        <5>1. PICK r \in Queues : r = M.sh[g].tasks /\ r = O.sh[g].tasks
          BY <2>11, <3>1
        <5>2. M.sh[g].suspended = M.tq[r].insusp /\ O.sh[g].suspended = M.sh[g].suspended
          BY <2>11, <3>2, <5>1 DEF FlowBut
        <5>3. O.tq[r].insusp = M.tq[r].insusp
          BY <2>6, <2>8
        <5> QED
          BY <5>1, <5>2, <5>3
      <4> QED
        BY <2>10, <2>11, <4>2, <4>3
    <3>5. \A g \in Handles : O.sh[g].open /\ O.sh[g].tasks # q /\ O.tq[O.sh[g].tasks].len > HiWat =>
            O.tq[O.sh[g].tasks].insusp \/ O.sh[g].outbound
      BY <2>8, <2>10, <2>11, <3>1, <3>2 DEF FlowBut
    <3>6. \A r \in Queues : r # q /\ O.tq[r].connected /\ O.tq[r].insusp => O.tq[r].input # <<>>
      BY <2>8, <3>2 DEF FlowBut
    <3>7. ASSUME NEW r \in Queues, O.tq[r].insusp \/ O.tq[r].connected,
                 NEW g \in Handles, O.tq[r].player = ConnId(g)
          PROVE  g <= n
      <4>1. CASE r = q
        <5>1. ConnId(g) = ConnId(h)
          BY <2>1, <2>6, <2>8, <3>7, <4>1
        <5>2. g = h
          BY <5>1, ConnIdFacts
        <5> QED
          BY <5>2
      <4>2. CASE r # q
        <5>1. g <= m /\ g \in Nat /\ h \in Nat
          BY <2>8, <3>2, <3>7, <4>2, ConstantsAssumption DEF FlowBut
        <5> QED
          BY <5>1
      <4> QED
        BY <4>1, <4>2
    <3> QED
      BY <3>3, <3>4, <3>5, <3>6, <3>7 DEF FlowBut
  <2>13. CASE outbound
    <3>1. NotTooFull(O, q)
      <4>1. \A g \in Handles : O.sh[g].open /\ O.sh[g].tasks = q => g = h
        BY <2>3, <2>10, <2>11 DEF Sound, Wired
      <4> QED
        BY <2>10, <2>11, <2>13, <4>1 DEF NotTooFull
    <3>2. Resumable(O, q)
      BY <2>4, <2>6, <2>8 DEF Resumable
    <3>3. Flow(O, n)
      BY <2>1, <2>12, <3>1, <3>2, FlowAgain
    <3>4. T = O
      BY <1>1, <1>2, <1>5, <1>7, <2>2, <2>13 DEF server_new_connection, Opened
    <3> QED
      BY <1>5, <3>3, <3>4
  <2>14. CASE ~outbound
    <3>1. PICK A : A = enqueue_input_task(O, q, "blank", FALSE)
      OBVIOUS
    <3>2. q \in Live(O) /\ "blank" \in Lines /\ FALSE \in BOOLEAN
      BY <2>1, <2>3 DEF Live, Lines, OnlyOpened
    <3>3. Sound(A) /\ A \in Good /\ Same(O, A)
      BY <2>3, <3>1, <3>2, EnqueueInputSound DEF Sound
    <3>4. Flow(A, n) /\ A.tq[q].input # <<>>
      BY <2>3, <2>12, <3>1, <3>2, EnqueueInputQueued
    <3>5. FlowBut(A, n, q)
      BY <2>1, <3>4 DEF Flow
    <3>6. q \in Live(A)
      BY <3>2, <3>3 DEF Same, Stays
    <3>7. Flow(task_suspend_input(A, q), n)
      <4>1. CASE ~A.tq[q].insusp /\ A.tq[q].connected
        <5>1. Meets(A, q)
          BY <3>3, <3>6, SoundMeets
        <5>2. PICK g \in Handles : Attends(A, q, g)
          BY <4>1, <5>1 DEF Meets
        <5> QED
          BY <2>1, <3>3, <3>4, <3>5, <4>1, <5>2, SuspendFlow
      <4>2. CASE ~(~A.tq[q].insusp /\ A.tq[q].connected)
        <5>1. task_suspend_input(A, q) = A
          BY <4>2 DEF task_suspend_input
        <5> QED
          BY <3>4, <5>1
      <4> QED
        BY <4>1, <4>2
    <3>8. T = task_suspend_input(A, q)
      BY <1>1, <1>2, <1>5, <1>7, <2>2, <2>14, <3>1 DEF server_new_connection, Opened
    <3> QED
      BY <1>5, <3>7, <3>8
  <2> QED
    BY <2>13, <2>14
<1> QED
  BY <1>6, <1>7

-----------------------------------------------------------------------------
(* A login. *)

\* A queue is renamed after a player or nobody.
LEMMA RenameAside ==
  ASSUME NEW S \in Good, NEW q \in Queues, NEW p \in Players \cup {NOTHING}
  PROVE  Aside(S, [S EXCEPT !.tq[q].player = p])
<1>1. PICK T : T = [S EXCEPT !.tq[q].player = p]
  OBVIOUS
<1>2. PICK f : f = [S.tq[q] EXCEPT !.player = p]
  OBVIOUS
<1>3. T.tq = [S.tq EXCEPT ![q] = f] /\ T.sh = S.sh
  BY <1>1, <1>2 DEF Good, States
<1>4. /\ f.player = p /\ f.input = S.tq[q].input /\ f.len = S.tq[q].len
      /\ f.insusp = S.tq[q].insusp /\ f.connected = S.tq[q].connected
  BY <1>2 DEF Good, States, TQueues
<1>5. T.tq[q] = f /\ \A r \in Queues : r # q => T.tq[r] = S.tq[r]
  BY <1>3 DEF Good, States
<1>6. Aside(S, T)
  BY <1>3, <1>4, <1>5 DEF Aside
<1> QED
  BY <1>1, <1>6

\* Ready tasks go from one queue to another.
LEMMA BgTwicePlain ==
  ASSUME NEW S \in Good, NEW a \in Queues, NEW b \in Queues, NEW bg \in Seq(Tasks), NEW n \in Int
  PROVE  /\ SetBg(SetBg(S, a, bg, n), b, <<>>, 0) \in Good
         /\ Plain(S, SetBg(SetBg(S, a, bg, n), b, <<>>, 0))
<1>1. PICK A : A = SetBg(S, a, bg, n)
  OBVIOUS
<1>2. A \in Good /\ Plain(S, A)
  BY <1>1, BgSet, BgPlain
<1>3. <<>> \in Seq(Tasks) /\ 0 \in Int
  OBVIOUS
<1>4. PICK B : B = SetBg(A, b, <<>>, 0)
  OBVIOUS
<1>5. B \in Good /\ Plain(A, B)
  BY <1>2, <1>3, <1>4, BgSet, BgPlain
<1>6. Plain(S, B)
  BY <1>2, <1>5, PlainTrans
<1> QED
  BY <1>1, <1>4, <1>5, <1>6

\* The former name of the queue keeps its tasks.
LEMMA MoveBgAside ==
  ASSUME NEW S \in Good, Linked(S, {}), NEW q \in Queues, NEW old \in Objids
  PROVE  Aside(S, move_bg_to_old_player(S, q, old))
<1>1. PICK B : B = move_bg_to_old_player(S, q, old)
  OBVIOUS
<1>2. PICK M : M = with_tqueue(S, old)
  OBVIOUS
<1>3. PICK o : o = find_tqueue(M, old)
  OBVIOUS
<1>4. M \in Good /\ Aside(S, M)
  BY <1>2, WithTqueueType, WithTqueueAside
<1>5. Aside(S, S)
  BY DEF Aside
<1>6. CASE S.tq[q].num = 0
  <2>1. B = S
    BY <1>1, <1>6 DEF move_bg_to_old_player
  <2> QED
    BY <1>1, <1>5, <2>1
<1>7. CASE S.tq[q].num # 0 /\ o = Null
  <2>1. B = M
    BY <1>1, <1>2, <1>3, <1>7 DEF move_bg_to_old_player
  <2> QED
    BY <1>1, <1>4, <2>1
<1>8. CASE S.tq[q].num # 0 /\ o # Null
  <2>1. o \in Queues
    BY <1>3, <1>4, <1>8, FindTqueueType
  <2>2. PICK n \in Int : n = S.tq[q].num
    BY NumType
  <2>3. PICK bg \in Seq(Tasks) : bg = M.tq[o].bg \o S.tq[q].bg
    <3>1. PICK x \in Seq(Tasks), y \in Seq(Tasks) : x = M.tq[o].bg /\ y = S.tq[q].bg
      BY <1>4, <2>1, QueueType
    <3>2. x \o y \in Seq(Tasks)
      BY <3>1, SMTT(40)
    <3> QED
      BY <3>1, <3>2, Zenon
  <2>4. B = SetBg(SetBg(M, o, bg, n), q, <<>>, 0)
    BY <1>1, <1>2, <1>3, <1>8, <2>2, <2>3 DEF SetBg, move_bg_to_old_player
  <2>5. Plain(M, SetBg(SetBg(M, o, bg, n), q, <<>>, 0))
    BY <1>4, <2>1, BgTwicePlain
  <2>6. Aside(M, B)
    BY <2>4, <2>5, PlainAside
  <2> QED
    BY <1>1, <1>4, <2>6, AsideTrans
<1> QED
  BY <1>6, <1>7, <1>8

\* The player's former queue loses its lines and is nobody's.
LEMMA TakeOverFlow ==
  ASSUME NEW S \in Good, NEW q \in Queues, NEW dead \in Queues \cup {Null},
         dead # Null => Meets(S, dead)
  PROVE  Smooth(S, take_over_queue(S, q, dead))
<1>1. PICK C : C = take_over_queue(S, q, dead)
  OBVIOUS
<1>2. CASE dead = Null
  <2>1. C = S
    BY <1>1, <1>2 DEF take_over_queue
  <2> QED
    BY <1>1, <2>1 DEF Smooth
<1>3. CASE dead # Null
  <2>1. dead \in Queues
    BY <1>3
  <2>2. PICK F : F = flush_input(S, dead)
    OBVIOUS
  <2>3. F \in Good
    BY <2>1, <2>2, FlushInputType
  <2>4. Smooth(S, F)
    BY <1>3, <2>1, <2>2, FlushInputFlow
  <2>5. PICK n \in Int : n = S.tq[dead].num
    BY <2>1, NumType
  <2>6. PICK bg \in Seq(Tasks) : bg = F.tq[q].bg \o S.tq[dead].bg
    <3>1. PICK x \in Seq(Tasks), y \in Seq(Tasks) : x = F.tq[q].bg /\ y = S.tq[dead].bg
      BY <2>1, <2>3, QueueType
    <3>2. x \o y \in Seq(Tasks)
      BY <3>1
    <3> QED
      BY <3>1, <3>2, Zenon
  <2>7. PICK G : G = SetBg(SetBg(F, q, bg, n), dead, <<>>, 0)
    OBVIOUS
  <2>8. G \in Good /\ Plain(F, G)
    BY <2>1, <2>3, <2>7, BgTwicePlain, SMTT(40)
  <2>9. C = [G EXCEPT !.tq[dead].player = NOTHING]
    BY <1>1, <1>3, <2>2, <2>5, <2>6, <2>7 DEF SetBg, take_over_queue
  <2>10. NOTHING \in Players \cup {NOTHING}
    OBVIOUS
  <2>11. Aside(G, [G EXCEPT !.tq[dead].player = NOTHING])
    BY <2>1, <2>8, <2>10, RenameAside
  <2>12. Aside(G, C)
    BY <2>9, <2>11
  <2>13. Smooth(F, G) /\ Smooth(G, C)
    BY <2>3, <2>8, <2>12, PlainSmooth, AsideSmooth
  <2>14. Smooth(F, C)
    BY <2>13, SmoothTrans
  <2>15. Smooth(S, C)
    BY <2>4, <2>14, SmoothTrans
  <2> QED
    BY <1>1, <2>15
<1> QED
  BY <1>2, <1>3

\* The handle takes the player's number, and the one that had it is closed.
LEMMA PlayerConnectedFlow ==
  ASSUME NEW C \in Good, NEW old \in Objids, NEW new \in Objids
  PROVE  Smooth(C, player_connected(C, old, new))
<1>1. PICK nh : nh = find_shandle(C, old)
  OBVIOUS
<1>2. PICK ex : ex = find_shandle(C, new)
  OBVIOUS
<1>3. PICK T : T = player_connected(C, old, new)
  OBVIOUS
<1>4. CASE nh = Null
  <2>1. T = [C EXCEPT !.panic = TRUE]
    BY <1>1, <1>3, <1>4 DEF player_connected
  <2>2. T.tq = C.tq /\ T.sh = C.sh
    BY <2>1 DEF Good, States
  <2>3. Aside(C, T)
    BY <2>2 DEF Aside
  <2> QED
    BY <1>3, <2>3, AsideSmooth
<1>5. CASE nh # Null
  <2>1. nh \in Handles /\ ex \in Handles \cup {Null} /\ (ex # Null => C.sh[ex].open)
    BY <1>1, <1>2, <1>5, FindShandleType
  <2>2. PICK E : E = [C EXCEPT !.sh[nh].player = new, !.sh[nh].login = TRUE]
    OBVIOUS
  <2>3. PICK s : s = [C.sh[nh] EXCEPT !.player = new, !.login = TRUE]
    OBVIOUS
  <2>4. /\ s \in SHandles /\ s.open = C.sh[nh].open /\ s.tasks = C.sh[nh].tasks
        /\ s.outbound = C.sh[nh].outbound /\ s.suspended = C.sh[nh].suspended
    <3>1. C.sh[nh] \in SHandles
      BY <2>1 DEF Good, States
    <3> QED
      BY <2>3, <3>1 DEF SHandles
  <2>5. E.sh = [C.sh EXCEPT ![nh] = s] /\ E.tq = C.tq /\ E \in States
    BY <2>1, <2>2, <2>3, <2>4 DEF Good, States
  <2>6. E.sh[nh] = s /\ \A g \in Handles : g # nh => E.sh[g] = C.sh[g]
    BY <2>1, <2>5 DEF Good, States
  <2>7. E \in Good
    BY <2>4, <2>5, <2>6 DEF Good
  <2>8. Aside(C, E)
    BY <2>4, <2>5, <2>6 DEF Aside
  <2>9. T = IF ex = Null THEN E ELSE free_shandle(E, ex)
    BY <1>1, <1>2, <1>3, <1>5, <2>2 DEF player_connected
  <2>10. CASE ex = Null
    BY <1>3, <2>8, <2>9, <2>10, AsideSmooth
  <2>11. CASE ex # Null
    <3>1. ex \in Handles /\ E.sh[ex].open
      BY <2>1, <2>4, <2>6, <2>11
    <3>2. Aside(E, free_shandle(E, ex))
      BY <2>7, <3>1, FreeShandleAside
    <3>3. Aside(C, T)
      BY <2>8, <2>9, <2>11, <3>2, AsideTrans
    <3> QED
      BY <1>3, <3>3, AsideSmooth
  <2> QED
    BY <2>10, <2>11
<1> QED
  BY <1>4, <1>5

\* All told:
LEMMA LogInFlow ==
  ASSUME NEW S, Sound(S), NEW q \in Live(S), S.tq[q].connected, S.tq[q].player < 0,
         NEW new \in Players
  PROVE  Smooth(S, log_in(S, q, new))
<1>1. S \in Good /\ Linked(S, {}) /\ q \in Queues
  BY LiveType DEF Sound
<1>2. PICK old : old = S.tq[q].player
  OBVIOUS
<1>3. PICK dead : dead = find_tqueue(S, new)
  OBVIOUS
<1>4. PICK N : N = [S EXCEPT !.tq[q].player = new]
  OBVIOUS
<1>5. PICK B : B = move_bg_to_old_player(N, q, old)
  OBVIOUS
<1>6. PICK C : C = take_over_queue(B, q, dead)
  OBVIOUS
<1>7. /\ LoginNames(S, q, new, old, dead)
      /\ N \in Good /\ Linked(N, {}) /\ Live(N) = Live(S)
      /\ \A r \in Live(N) : N.tq[r].player # old
      /\ B \in Good
      /\ LoginQueues(S, C, q, new, old, dead)
  <2>1. LoginMoves(S, q, new, old, dead, N, B, C)
    BY <1>2, <1>3, <1>4, <1>5, <1>6, Zenon DEF LoginMoves
  <2> QED
    BY <2>1, LogInMoves
<1>8. /\ old \in Objids /\ new \in Objids /\ q # dead
      /\ dead \in Live(S) \cup {Null} /\ dead \in Queues \cup {Null} /\ C \in Good
  <2>1. Live(S) \subseteq Queues
    BY <1>1, LiveType
  <2> QED
    BY <1>7, <2>1 DEF LoginNames, LoginQueues
<1>9. Aside(S, N)
  BY <1>1, <1>4, RenameAside
<1>10. Aside(N, B)
  BY <1>1, <1>5, <1>7, <1>8, MoveBgAside
<1>11. dead # Null => Meets(B, dead)
  <2> SUFFICES ASSUME dead # Null
               PROVE  Meets(B, dead)
    OBVIOUS
  <2>1. dead \in Live(S) /\ dead \in Live(N) /\ dead \in Queues
    BY <1>7, <1>8
  <2>2. Meets(S, dead)
    BY <2>1, SoundMeets
  <2>3. N.sh = S.sh /\ N.tq[dead] = S.tq[dead]
    BY <1>1, <1>4, <1>8, <2>1 DEF Good, States
  <2>4. Meets(N, dead)
    BY <2>2, <2>3, MeetsKept
  <2>5. Stays(N, B)
    BY <1>5, <1>7, <1>8, MoveBgLinked
  <2> QED
    BY <2>1, <2>4, <2>5 DEF Meets, Attends, Stays
<1>12. Smooth(B, C)
  BY <1>1, <1>6, <1>7, <1>8, <1>11, TakeOverFlow
<1>13. PICK T : T = log_in(S, q, new)
  OBVIOUS
<1>14. T = player_connected(C, old, new)
  BY <1>2, <1>3, <1>4, <1>5, <1>6, <1>13 DEF log_in
<1>15. Smooth(C, T)
  BY <1>8, <1>14, PlayerConnectedFlow
<1>16. Smooth(S, B)
  BY <1>1, <1>9, <1>10, AsideTrans, AsideSmooth
<1>17. Smooth(S, T)
  BY <1>12, <1>15, <1>16, SmoothTrans
<1> QED
  BY <1>13, <1>17

-----------------------------------------------------------------------------
(* The invariant of the server. *)

FlowInv == QueueInv /\ Flow(ts, conns)

\* A step keeps the flow of the connections there are, or opens one.
Flows == Smooth(ts, ts') \/ Flow(ts', conns')

\* A step that leaves the queues alone does.
LEMMA SameFlow ==
  ASSUME UNCHANGED ts
  PROVE  Flows
BY DEF Flows, Smooth

\* A task that starts, of whatever kind, changes nothing more.
LEMMA StartFlow ==
  ASSUME NEW S, Smooth(ts, S), NEW cont, NEW q, NEW h,
         \/ StartVerb(S, cont, q, h)
         \/ \E id, progr : Start(S, id, progr, cont, q, h)
  PROVE  Flows
<1>1. ts' = S
  BY DEF StartVerb, Start
<1> QED
  BY <1>1 DEF Flows

\* run_ready_tasks() charges the queue.
LEMMA ReturnFlow ==
  ASSUME NEW S \in Good, Smooth(ts, S), NEW q \in Queues, Return(S, q)
  PROVE  Flows
<1>1. PICK T : T = charge_usage(S, q, now - start)
  OBVIOUS
<1>2. Smooth(S, T)
  BY <1>1, ChargeUsageFlow
<1>3. Smooth(ts, T)
  BY <1>2, SmoothTrans
<1>4. ts' = T
  BY <1>1 DEF Return
<1> QED
  BY <1>3, <1>4 DEF Flows

\* The running task gives control back.
LEMMA ResumeFlow ==
  ASSUME QueueInv, pc = "task", NEW S, Sound(S), Kept(ts, S), Smooth(ts, S), Resume(S)
  PROVE  Flows
<1>1. RunOK(S, run)
  BY RunOKKept DEF QueueInv, TaskInv
<1>2. run.cont \in Conts
  BY RunType DEF QueueInv, TaskInv
<1>3. S \in Good
  BY DEF Sound
<1>4. CASE run.cont \in {"loop", "command", "login"}
  <2>1. Return(S, run.q)
    BY <1>4 DEF Resume
  <2>2. S.active # <<>> /\ S.active[1] = run.q
    BY <1>1, <1>4 DEF RunOK, OnQueue
  <2>3. run.q \in Queues
    BY <1>3, <2>2, ListTypes
  <2> QED
    BY <1>3, <2>1, <2>3, ReturnFlow
<1>5. CASE run.cont = "redirect"
  <2>1. StartVerb(S, "loop", run.q, Null)
    BY <1>5 DEF Resume
  <2> QED
    BY <2>1, StartFlow
<1>6. CASE run.cont \in {"close", "reap"}
  <2>1. run.h \in Handles /\ S.sh[run.h].open
    BY <1>1, <1>6 DEF RunOK, OnQueue
  <2>2. PICK T : T = free_shandle(S, run.h)
    OBVIOUS
  <2>3. ts' = T
    BY <1>6, <2>2 DEF Resume
  <2>4. Smooth(S, T)
    BY <1>3, <2>1, <2>2, FreeShandleFlow
  <2>5. Smooth(ts, T)
    BY <2>4, SmoothTrans
  <2> QED
    BY <2>3, <2>5 DEF Flows
<1> QED
  BY <1>2, <1>4, <1>5, <1>6 DEF Conts

-----------------------------------------------------------------------------
(* One lemma for each disjunct of Next. *)

\* A connection is numbered one higher than those before.
LEMMA OpenFlow ==
  ASSUME FlowInv, conns + 1 \in Handles, NEW outbound \in BOOLEAN, conns' = conns + 1,
         ts' = server_new_connection(ts, conns + 1, outbound)
  PROVE  Flows
<1>1. conns \in Nat /\ Sound(ts) /\ Flow(ts, conns)
  BY DEF FlowInv, QueueInv, TaskInv, TypeOK
<1>2. PICK h \in Handles : h = conns + 1
  OBVIOUS
<1>3. h \in Nat /\ conns < h /\ h <= h /\ ~(h <= conns)
  BY <1>1, <1>2
<1>4. ~ts.sh[h].open
  BY <1>3 DEF FlowInv, QueueInv, Serves
<1>5. Flow(server_new_connection(ts, h, outbound), h)
  BY <1>1, <1>3, <1>4, NewConnectionFlow
<1> QED
  BY <1>2, <1>5 DEF Flows

\* network_process_io(): every connection, line and hang-up
LEMMA NetworkFlow ==
  ASSUME FlowInv, Network
  PROVE  Flows
<1>1. QueueInv /\ Sound(ts) /\ ts \in Good
  BY DEF FlowInv, QueueInv, Sound
<1>2. CASE Accept
  BY <1>2, OpenFlow DEF Accept
<1>3. ASSUME NEW h \in Handles, NEW line \in Typed \cup {"flush"}, ReceiveLine(h, line)
      PROVE  Flows
  <2>1. PICK q : q = ts.sh[h].tasks
    OBVIOUS
  <2>2. q \in Live(ts) /\ q \in Queues
    BY <1>1, <1>3, <2>1, LiveType DEF ReceiveLine, Sound, Wired
  <2>3. line # "flush" => line \in Lines
    BY BoundsAssumption
  <2>4. \/ ts' = flush_input(ts, q)
        \/ line \in Lines /\ ts' = enqueue_input_task(ts, q, line, FALSE)
    BY <1>3, <2>1, <2>3 DEF ReceiveLine
  <2>5. Smooth(ts, flush_input(ts, q))
    BY <1>1, <2>2, SoundMeets, FlushInputFlow
  <2>6. line \in Lines => Smooth(ts, enqueue_input_task(ts, q, line, FALSE))
    BY <1>1, <2>2, EnqueueInputFlow
  <2> QED
    BY <2>4, <2>5, <2>6 DEF Flows
<1>4. CASE EndOfRead
  BY <1>4, SameFlow DEF EndOfRead
<1>5. ASSUME NEW h \in Handles, ClientGone(h)
      PROVE  Flows
  <2>1. StartVerb([ts EXCEPT !.sh[h].disc = TRUE], "close", Null, h)
    BY <1>5 DEF ClientGone
  <2>2. Smooth(ts, [ts EXCEPT !.sh[h].disc = TRUE])
    BY <1>1, DiscFlow
  <2> QED
    BY <2>1, <2>2, StartFlow
<1> QED
  BY <1>2, <1>3, <1>4, <1>5 DEF Network

\* Time passes, and run_ready_tasks() notes it.
LEMMA ClockFlow ==
  ASSUME Tick \/ RunReadyTasks
  PROVE  Flows
BY SameFlow DEF Tick, RunReadyTasks

\* The tasks that are due become ready.
LEMMA ReadyWaitingFlow ==
  ASSUME FlowInv, ReadyWaiting
  PROVE  Flows
<1>1. Sound(ts)
  BY DEF FlowInv, QueueInv
<1>2. \/ UNCHANGED ts
      \/ ts.waiting # <<>> /\ ts' = ready_first_waiting(ts)
  BY DEF ReadyWaiting
<1> QED
  BY <1>1, <1>2, ReadyFirstFlow, SameFlow DEF Flows

\* run_ready_tasks() looks for a queue with something to run.
LEMMA PickFlow ==
  ASSUME FlowInv, Pick
  PROVE  Flows
<1>1. QueueInv /\ Sound(ts) /\ ts \in Good
  BY DEF FlowInv, QueueInv, Sound
<1>2. Picking => head \in Live(ts) /\ head \in Queues
                  /\ head = ts.active[1] /\ ts.active # <<>>
  <2>1. Picking => ts.active # <<>> /\ 1 \in 1..Len(ts.active)
    BY <1>1, ListTypes DEF Picking
  <2>2. Picking => head \in Live(ts)
    BY <2>1 DEF head, Live, Elems
  <2> QED
    BY <1>1, <2>1, <2>2, LiveType DEF head
<1>3. PICK D : D = dequeue_input_task(ts, head)
  OBVIOUS
<1>4. Picking /\ at_input => Smooth(ts, D) /\ D \in Good
  <2> SUFFICES ASSUME Picking, at_input
               PROVE  Smooth(ts, D) /\ D \in Good
    OBVIOUS
  <2>1. ts.tq[head].input # <<>>
    BY DEF at_input
  <2>2. Meets(ts, head)
    BY <1>1, <1>2, SoundMeets
  <2>3. Smooth(ts, dequeue_input_task(ts, head))
    BY <1>1, <1>2, <2>1, <2>2, DequeueInputFlow
  <2>4. D \in Good
    BY <1>1, <1>2, <1>3, <2>1, DequeueInputSound DEF Sound
  <2> QED
    BY <1>3, <2>3, <2>4
<1>5. CASE ResumeOrphan
  <2>1. PICK S : S = [ts EXCEPT !.tq[head].reader = NoTask]
    OBVIOUS
  <2>2. Picking /\ \E id, progr : Start(S, id, progr, "loop", head, Null)
    BY <1>5, <2>1 DEF ResumeOrphan
  <2>3. Plain(ts, S)
    BY <1>1, <1>2, <2>1, <2>2, ReaderPlain
  <2> QED
    BY <1>1, <2>2, <2>3, PlainSmooth, StartFlow
<1>6. CASE RunOutOfBand
  <2>1. Picking /\ at_input /\ StartVerb(D, "loop", head, Null)
    BY <1>3, <1>6 DEF RunOutOfBand
  <2> QED
    BY <1>4, <2>1, StartFlow
<1>7. CASE ResumeReader
  <2>1. PICK S : S = [D EXCEPT !.tq[head].reader = NoTask]
    OBVIOUS
  <2>2. Picking /\ at_input /\ \E id, progr : Start(S, id, progr, "loop", head, Null)
    BY <1>3, <1>7, <2>1 DEF ResumeReader
  <2>3. Plain(D, S)
    BY <1>2, <1>4, <2>1, <2>2, ReaderPlain
  <2>4. Smooth(D, S)
    BY <1>4, <2>2, <2>3, PlainSmooth
  <2>5. Smooth(ts, S)
    BY <1>4, <2>2, <2>4, SmoothTrans
  <2> QED
    BY <2>2, <2>5, StartFlow
<1>8. CASE RunLine
  <2>1. Picking /\ at_input
          /\ \E cont \in {"command", "login"} : StartVerb(D, cont, head, Null)
    BY <1>3, <1>8 DEF RunLine
  <2> QED
    BY <1>4, <2>1, StartFlow
<1>9. CASE BlankLine
  <2>1. Picking /\ at_input /\ ts' = D
    BY <1>3, <1>9 DEF BlankLine
  <2> QED
    BY <1>4, <2>1 DEF Flows
<1>10. CASE IntrinsicCommand
  <2>1. Picking /\ at_input /\ Return(D, head)
    BY <1>3, <1>10 DEF IntrinsicCommand
  <2> QED
    BY <1>2, <1>4, <2>1, ReturnFlow
<1>11. CASE RunBackground
  <2>1. PICK S : S = dequeue_bg_task(ts, head)
    OBVIOUS
  <2>2. Picking /\ \E id, progr : Start(S, id, progr, "loop", head, Null)
    BY <1>11, <2>1 DEF RunBackground
  <2>3. Smooth(ts, S)
    BY <1>1, <1>2, <2>1, <2>2, BgFlow
  <2> QED
    BY <2>2, <2>3, StartFlow
<1>12. CASE GoIdle
  <2>1. /\ Picking
        /\ ts' = deactivate_tqueue([ts EXCEPT !.active = Tail(ts.active)], ts.active[1])
    BY <1>12 DEF GoIdle, head
  <2>2. Smooth(ts, deactivate_tqueue([ts EXCEPT !.active = Tail(ts.active)], ts.active[1]))
    BY <1>1, <1>2, <2>1, GoIdleFlow
  <2> QED
    BY <2>1, <2>2 DEF Flows
<1>13. CASE NothingToRun
  BY <1>13, SameFlow DEF NothingToRun
<1> QED
  BY <1>5, <1>6, <1>7, <1>8, <1>9, <1>10, <1>11, <1>12, <1>13 DEF Pick

\* main_loop() looks for connections to close.
LEMMA SweepFlow ==
  ASSUME FlowInv, Sweep
  PROVE  Flows
<1>1. QueueInv /\ ts \in Good
  BY DEF FlowInv, QueueInv, Sound
<1>2. pc = "reap" /\ (at > 0 => at \in Handles)
  BY <1>1 DEF Sweep, ReapSkip, ReapRecycled, ReapNotify, ReapDone, QueueInv, TaskInv, TypeOK
<1>3. CASE ReapSkip
  BY <1>3, SameFlow DEF ReapSkip
<1>4. CASE ReapRecycled
  <2>1. at \in Handles /\ ts.sh[at].open /\ ts' = free_shandle(ts, at)
    BY <1>2, <1>4 DEF ReapRecycled
  <2> QED
    BY <1>1, <2>1, FreeShandleFlow DEF Flows
<1>5. CASE ReapNotify
  <2>1. StartVerb(ts, "reap", Null, at)
    BY <1>5 DEF ReapNotify
  <2>2. Smooth(ts, ts)
    BY DEF Smooth
  <2> QED
    BY <2>1, <2>2, StartFlow
<1>6. CASE ReapDone
  BY <1>6, SameFlow DEF ReapDone
<1> QED
  BY <1>3, <1>4, <1>5, <1>6 DEF Sweep

\* The running task ends, or the login it was for takes place.
LEMMA TaskReturnsFlow ==
  ASSUME FlowInv, TaskReturns
  PROVE  Flows
<1>1. QueueInv /\ TaskInv /\ Sound(ts) /\ ts \in Good
  BY DEF FlowInv, QueueInv, Sound
<1>2. Smooth(ts, ts) /\ Kept(ts, ts)
  BY <1>1, KeptSame DEF Smooth
<1>3. CASE EndTask
  <2>1. pc = "task" /\ Resume(ts)
    BY <1>3 DEF EndTask
  <2> QED
    BY <1>1, <1>2, <2>1, ResumeFlow
<1>4. CASE CommandVerb
  <2>1. StartVerb(ts, "loop", run.q, Null)
    BY <1>4 DEF CommandVerb
  <2> QED
    BY <1>2, <2>1, StartFlow
<1>5. ASSUME NEW p \in Players, LogIn(p)
      PROVE  Flows
  <2>1. PICK S : S = log_in(ts, run.q, p)
    OBVIOUS
  <2>2. run.q \in Live(ts)
    <3>1. ts.active # <<>> /\ ts.active[1] = run.q
      BY <1>1, <1>5 DEF LogIn, TaskInv, RunOK, OnQueue
    <3>2. 1 \in 1..Len(ts.active)
      BY <1>1, <3>1, ListTypes
    <3> QED
      BY <3>1, <3>2 DEF Live, Elems
  <2>3. ts.tq[run.q].connected /\ ts.tq[run.q].player < 0
    BY <1>1, <1>5 DEF LogIn, QueueInv, Serves
  <2>4. Smooth(ts, S)
    BY <1>1, <2>1, <2>2, <2>3, LogInFlow
  <2>5. \E cont \in {"loop", "redirect"} : StartVerb(S, cont, run.q, Null)
    BY <1>5, <2>1 DEF LogIn
  <2> QED
    BY <2>4, <2>5, StartFlow
<1> QED
  BY <1>3, <1>4, <1>5 DEF TaskReturns

\* Every builtin the running task may call
LEMMA BuiltinFlow ==
  ASSUME FlowInv, Builtin
  PROVE  Flows
<1>1. QueueInv /\ TaskInv /\ Sound(ts) /\ ts \in Good
  BY DEF FlowInv, QueueInv, Sound
<1>2. ASSUME NEW d \in Delays, Fork(d)
      PROVE  Flows
  <2>1. PICK t : t = [id |-> new_task_id(IdsIn(ts) \cup {run.id}), kind |-> "forked",
                      progr |-> run.progr, start |-> AfterDelay(d)]
    OBVIOUS
  <2>2. new_task_id(IdsIn(ts) \cup {run.id}) \in Nat
    BY <1>2, BoundsAssumption DEF Fork, RoomForTask, new_task_id
  <2>3. t \in Tasks
    BY <1>1, <2>1, <2>2, RunType, AfterDelayType DEF TaskInv, Tasks, Kinds
  <2>4. ts' = enqueue_waiting(ts, t)
    BY <1>2, <2>1 DEF Fork
  <2> QED
    BY <1>1, <2>3, <2>4, EnqueueWaitingFlow DEF Flows
<1>3. ASSUME NEW d \in Delays, Suspend(d)
      PROVE  Flows
  <2>1. PICK t \in Tasks : t = Suspended(AfterDelay(d))
    BY <1>1, SuspendedType, AfterDelayType
  <2>2. PICK S : S = enqueue_waiting(ts, t)
    OBVIOUS
  <2>3. pc = "task" /\ Resume(S)
    BY <1>3, <2>1, <2>2 DEF Suspend, Calls
  <2>4. Sound(S) /\ Kept(ts, S) /\ Smooth(ts, S)
    BY <1>1, <2>2, EnqueueWaitingSound, EnqueueWaitingKept, EnqueueWaitingFlow
  <2> QED
    BY <1>1, <2>3, <2>4, ResumeFlow
<1>4. ASSUME NEW p \in Progrs, Read(p)
      PROVE  Flows
  <2>1. PICK q : q = find_tqueue(ts, p)
    OBVIOUS
  <2>2. PICK t \in Tasks : t = Suspended(0)
    BY <1>1, SuspendedType
  <2>3. PICK S : S = make_reading_task(ts, q, t)
    OBVIOUS
  <2>4. q \in Live(ts) /\ q \in Queues /\ ~reading(ts, q)
    BY <1>1, <1>4, <2>1, FindTqueueType DEF Read
  <2>5. pc = "task" /\ Resume(S)
    BY <1>4, <2>1, <2>2, <2>3 DEF Read, Calls
  <2>6. Sound(S) /\ Kept(ts, S) /\ Smooth(ts, S)
    BY <1>1, <2>3, <2>4, MakeReadingSound, MakeReadingKept, MakeReadingFlow
  <2> QED
    BY <1>1, <2>5, <2>6, ResumeFlow
<1>5. ASSUME NEW p \in Progrs, ReadInputNow(p)
      PROVE  Flows
  <2>1. PICK q : q = find_tqueue(ts, p)
    OBVIOUS
  <2>2. /\ q \in Queues /\ q \in Live(ts)
        /\ ts.tq[q].input # <<>>
        /\ ts' = dequeue_input_task(ts, q)
    BY <1>1, <1>5, <2>1, FindTqueueType DEF ReadInputNow
  <2>3. Smooth(ts, dequeue_input_task(ts, q))
    BY <1>1, <2>2, SoundMeets, DequeueInputFlow
  <2> QED
    BY <2>2, <2>3 DEF Flows
<1>6. ASSUME NEW p \in Progrs, FlushInput(p)
      PROVE  Flows
  <2>1. ts' = flush_player(ts, p)
    BY <1>6 DEF FlushInput
  <2>2. "cmd" \in Lines /\ FALSE \in BOOLEAN /\ p \in Objids
    BY DEF Lines, Progrs, Objids
  <2>3. Smooth(ts, flush_player(ts, p))
    BY <1>1, <2>2, ForceInputFlow
  <2> QED
    BY <2>1, <2>3 DEF Flows
<1>7. ASSUME NEW p \in Progrs, BootPlayer(p)
      PROVE  Flows
  <2>1. PICK h : h = find_shandle(ts, p)
    OBVIOUS
  <2>2. h \in Handles /\ ts' = [ts EXCEPT !.sh[h].disc = TRUE]
    BY <1>1, <1>7, <2>1, FindShandleType DEF BootPlayer
  <2> QED
    BY <1>1, <2>2, DiscFlow DEF Flows
<1>8. ASSUME NEW p \in Progrs, Recycle(p)
      PROVE  Flows
  BY <1>8, SameFlow DEF Recycle
<1>9. ASSUME NEW p \in Progrs, NEW line \in Typed, NEW f \in BOOLEAN, ForceInput(p, line, f)
      PROVE  Flows
  <2>1. ts' = force_input(ts, p, line, f)
    BY <1>9 DEF ForceInput
  <2>2. line \in Lines /\ p \in Objids
    BY BoundsAssumption DEF Progrs, Objids
  <2> QED
    BY <1>1, <2>1, <2>2, ForceInputFlow DEF Flows
<1>10. ASSUME NEW p \in Progrs, NEW hold \in BOOLEAN, SetHoldInput(p, hold)
       PROVE  Flows
  <2>1. PICK h : h = find_shandle(ts, p)
    OBVIOUS
  <2>2. PICK q : q = ts.sh[h].tasks
    OBVIOUS
  <2>3. h \in Handles /\ ts.sh[h].open /\ ts' = set_hold_input(ts, q, hold)
    BY <1>1, <1>10, <2>1, <2>2, FindShandleType DEF SetHoldInput
  <2>4. q \in Queues
    BY <1>1, <2>2, <2>3 DEF Good
  <2> QED
    BY <1>1, <2>3, <2>4, SetHoldFlow DEF Flows
<1>11. ASSUME NEW i \in 1..Len(ts.waiting), KillWaiting(i) \/ ResumeWaiting(i)
       PROVE  Flows
  <2>1. ts' = kill_waiting(ts, i) \/ ts' = resume_waiting(ts, i, now)
    BY <1>11 DEF KillWaiting, KillTask, ResumeWaiting
  <2>2. now \in Nat
    BY <1>1 DEF TaskInv, TypeOK
  <2>3. Smooth(ts, kill_waiting(ts, i)) /\ Smooth(ts, resume_waiting(ts, i, now))
    BY <1>1, <2>2, KillWaitingFlow, ResumeWaitingFlow
  <2> QED
    BY <2>1, <2>3 DEF Flows
<1>12. ASSUME NEW q \in Live(ts), KillReader(q)
       PROVE  Flows
  <2>1. ts' = [ts EXCEPT !.tq[q].reader = NoTask]
    BY <1>12 DEF KillReader, KillTask, kill_reader
  <2>2. q \in Queues
    BY <1>1, LiveType
  <2>3. Plain(ts, [ts EXCEPT !.tq[q].reader = NoTask])
    BY <1>1, <2>2, ReaderPlain
  <2> QED
    BY <1>1, <2>1, <2>3, PlainSmooth DEF Flows
<1>13. ASSUME NEW q \in Elems(ts.active), NEW i \in 1..Len(ts.tq[q].bg), KillReady(q, i)
       PROVE  Flows
  <2>1. ts' = kill_bg(ts, q, i)
    BY <1>13 DEF KillReady, KillTask
  <2>2. q \in Queues
    BY <1>1, LiveType DEF Live
  <2> QED
    BY <1>1, <2>1, <2>2, BgFlow DEF Flows
<1>14. CASE OpenNetworkConnection
  BY <1>14, OpenFlow DEF OpenNetworkConnection
<1> QED
  BY <1>2, <1>3, <1>4, <1>5, <1>6, <1>7, <1>8, <1>9, <1>10, <1>11, <1>12, <1>13, <1>14
  DEF Builtin

\* A server that starts has no lines and no connections.
LEMMA InitFlow ==
  ASSUME Init
  PROVE  FlowInv
<1>1. QueueInv /\ ts = EmptyState /\ conns = 0
  BY InitQueues DEF Init
<1>2. /\ \A q \in Queues : ts.tq[q] = NewTQueue
      /\ \A h \in Handles : ts.sh[h] = NoHandle
  BY <1>1 DEF EmptyState
<1>3. /\ NewTQueue.input = <<>> /\ NewTQueue.len = Weight(<<>>)
      /\ ~NewTQueue.insusp /\ ~NewTQueue.connected
      /\ ~NoHandle.open
  BY WeightEmpty DEF NewTQueue, NoHandle
<1>4. Flow(ts, conns)
  BY <1>2, <1>3 DEF Flow, FlowBut, NotTooFull, Resumable
<1> QED
  BY <1>1, <1>4 DEF FlowInv

\* Connections are only ever numbered higher.
LEMMA ConnsGrow ==
  ASSUME Next, conns \in Nat
  PROVE  conns' \in Nat /\ conns <= conns'
<1>1. CASE Network
  <2>1. CASE Accept
    BY <2>1 DEF Accept
  <2>2. ASSUME NEW h \in Handles, NEW line \in Typed \cup {"flush"}, ReceiveLine(h, line)
        PROVE  conns' = conns
    BY <2>2 DEF ReceiveLine
  <2>3. CASE EndOfRead
    BY <2>3 DEF EndOfRead
  <2>4. ASSUME NEW h \in Handles, ClientGone(h)
        PROVE  conns' = conns
    BY <2>4 DEF ClientGone
  <2> QED
    BY <1>1, <2>1, <2>2, <2>3, <2>4 DEF Network
<1>2. CASE Tick \/ RunReadyTasks \/ ReadyWaiting \/ FreeIdle
  BY <1>2 DEF Tick, RunReadyTasks, ReadyWaiting, FreeIdle
<1>3. CASE Pick
  BY <1>3 DEF Pick, ResumeOrphan, RunOutOfBand, ResumeReader, RunLine, BlankLine,
              IntrinsicCommand, RunBackground, GoIdle, NothingToRun
<1>4. CASE Sweep
  BY <1>4 DEF Sweep, ReapSkip, ReapRecycled, ReapNotify, ReapDone, ReapNext
<1>5. CASE TaskReturns
  BY <1>5 DEF TaskReturns, EndTask, CommandVerb, LogIn
<1>6. CASE Builtin
  <2>1. CASE OpenNetworkConnection
    BY <2>1 DEF OpenNetworkConnection
  <2>2. ASSUME NEW d \in Delays, Fork(d) \/ Suspend(d)
        PROVE  conns' = conns
    BY <2>2 DEF Fork, Suspend, Keep
  <2>3. ASSUME NEW p \in Progrs,
               \/ Read(p) \/ ReadInputNow(p) \/ FlushInput(p) \/ BootPlayer(p) \/ Recycle(p)
        PROVE  conns' = conns
    BY <2>3 DEF Read, ReadInputNow, FlushInput, BootPlayer, Recycle, Keep
  <2>4. ASSUME NEW p \in Progrs, NEW line \in Typed, NEW f \in BOOLEAN, ForceInput(p, line, f)
        PROVE  conns' = conns
    BY <2>4 DEF ForceInput, Keep
  <2>5. ASSUME NEW p \in Progrs, NEW hold \in BOOLEAN, SetHoldInput(p, hold)
        PROVE  conns' = conns
    BY <2>5 DEF SetHoldInput, Keep
  <2>6. ASSUME NEW i \in 1..Len(ts.waiting), KillWaiting(i) \/ ResumeWaiting(i)
        PROVE  conns' = conns
    BY <2>6 DEF KillWaiting, KillTask, ResumeWaiting, Keep
  <2>7. ASSUME NEW q \in Live(ts), KillReader(q)
        PROVE  conns' = conns
    BY <2>7 DEF KillReader, KillTask, Keep
  <2>8. ASSUME NEW q \in Elems(ts.active), NEW i \in 1..Len(ts.tq[q].bg), KillReady(q, i)
        PROVE  conns' = conns
    BY <2>8 DEF KillReady, KillTask, Keep
  <2> QED
    BY <1>6, <2>1, <2>2, <2>3, <2>4, <2>5, <2>6, <2>7, <2>8 DEF Builtin
<1> QED
  BY <1>1, <1>2, <1>3, <1>4, <1>5, <1>6 DEF Next

\* Every step keeps the flow.
LEMMA FlowStep ==
  ASSUME FlowInv, [Next]_vars
  PROVE  FlowInv'
<1>1. QueueInv'
  BY QueueStep DEF FlowInv
<1>2. Flow(ts, conns) /\ conns \in Nat
  BY DEF FlowInv, QueueInv, TaskInv, TypeOK
<1>3. CASE UNCHANGED vars
  <2>1. ts' = ts /\ conns' = conns
    BY <1>3 DEF vars
  <2>2. Flow(ts', conns')
    BY <1>2, <2>1
  <2> QED
    BY <1>1, <2>2, SMTT(40) DEF FlowInv
<1>4. CASE Next
  <2>1. Flows
    <3>1. CASE FreeIdle
      <4>1. ts' = free_idle_tqueues(ts) /\ Sound(ts)
        BY <3>1 DEF FreeIdle, FlowInv, QueueInv
      <4> QED
        BY <4>1, FreeIdleFlow DEF Flows
    <3> QED
      BY <1>4, <3>1, NetworkFlow, ClockFlow, ReadyWaitingFlow, PickFlow, SweepFlow,
         TaskReturnsFlow, BuiltinFlow DEF Next
  <2>2. conns' \in Nat /\ conns <= conns'
    BY <1>2, <1>4, ConnsGrow
  <2>3. Flow(ts', conns')
    <3>1. CASE Smooth(ts, ts')
      <4>1. Flow(ts', conns)
        BY <1>2, <3>1 DEF Smooth
      <4>2. \A h \in Handles : h <= conns => h <= conns'
        BY <1>2, <2>2, ConstantsAssumption
      <4> QED
        BY <4>1, <4>2 DEF Flow, FlowBut
    <3> QED
      BY <2>1, <3>1 DEF Flows
  <2> QED
    BY <1>1, <2>3 DEF FlowInv
<1> QED
  BY <1>3, <1>4

-----------------------------------------------------------------------------
\* The inductive invariant: through every login that moves queues and names, every
\* connection that is taken over, opened onto a queue or closed, and every line that is
\* queued, forced, read or flushed.
THEOREM FlowInvariant == Spec => []FlowInv
<1>1. Init => FlowInv
  BY InitFlow
<1>2. FlowInv /\ [Next]_vars => FlowInv'
  BY FlowStep
<1> QED
  BY <1>1, <1>2, PTL DEF Spec

\* A connection is not read from while more than MAX_QUEUED_INPUT waits, unless
\* open_network_connection() opened it; one that is suspended agrees with its queue and
\* has a line left, so that dequeue_input_task() or flush_input() comes to resume it; and
\* no idle queue, which run_ready_tasks() passes over, has a line that a task could take.
THEOREM InputFlows ==
  ASSUME ~IsFiniteSet(Queues)
  PROVE  Spec => []InputIsNeverStuck
<1>1. FlowInv => FlowControl
  <2> SUFFICES ASSUME FlowInv, NEW h \in Handles, ts.sh[h].open,
                      NEW q, q = ts.sh[h].tasks
               PROVE  /\ ts.sh[h].suspended = ts.tq[q].insusp
                      /\ ts.tq[q].len = Weight(ts.tq[q].input)
                      /\ ts.tq[q].len > HiWat => ts.tq[q].insusp \/ ts.sh[h].outbound
                      /\ ts.tq[q].insusp => ts.tq[q].input # <<>>
    BY DEF FlowControl, Weight
  <2>1. q \in Queues /\ ts.tq[q].connected
    BY DEF FlowInv, QueueInv, Sound, Wired, Good
  <2>2. FlowBut(ts, conns, q) /\ NotTooFull(ts, q) /\ Resumable(ts, q)
    BY <2>1 DEF FlowInv, Flow
  <2> QED
    BY <2>1, <2>2, SMTT(40) DEF FlowBut, NotTooFull, Resumable
<1>2. IdleHasNoInput /\ FlowControl => InputIsNeverStuck
  BY DEF InputIsNeverStuck
<1> QED
  BY <1>1, <1>2, IdleQueuesRest, FlowInvariant, PTL
=============================================================================
