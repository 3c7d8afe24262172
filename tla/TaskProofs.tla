------------------------------ MODULE TaskProofs ------------------------------
(***************************************************************************)
(* Proofs about the task queues: every operator of TaskQueues keeps the    *)
(* types of the state, and every step of TaskServer keeps the types of all *)
(* its variables, for any number of players, connections, queues and tasks.*)
(***************************************************************************)
EXTENDS TaskProperties, TLAPS, FiniteSetTheorems, SequenceTheorems

\* The states of the right type in which every open connection has a queue:
\* shandle.tasks is set once, before the handle can be found.
Good == {S \in States : \A h \in Handles : S.sh[h].open => S.sh[h].tasks \in Queues}

-----------------------------------------------------------------------------
(* Sequences. *)

\* The elements of a sequence over a set are in the set.
LEMMA ElemsType ==
  ASSUME NEW T, NEW s \in Seq(T)
  PROVE  Elems(s) \subseteq T
BY DEF Elems

\* Both lists are searched with a prefix of the indices.
LEMMA PrefixLength ==
  ASSUME NEW n \in Nat, NEW B \in SUBSET (1..n)
  PROVE  Cardinality(B) \in 0..n
<1>1. IsFiniteSet(1..n) /\ Cardinality(1..n) = n
  BY FS_Interval
<1>2. IsFiniteSet(B) /\ Cardinality(B) <= n
  BY <1>1, FS_Subset
<1> QED
  BY <1>2, FS_CardinalityType

\* Linking an element into a list keeps the list's type.
LEMMA InsertAfterType ==
  ASSUME NEW T, NEW s \in Seq(T), NEW k \in 0..Len(s), NEW e \in T
  PROVE  InsertAfter(s, k, e) \in Seq(T)
<1>1. SubSeq(s, 1, k) \in Seq(T)
  BY SubSeqProperties
<1>2. SubSeq(s, k + 1, Len(s)) \in Seq(T)
  BY SubSeqProperties
<1> QED
  BY <1>1, <1>2 DEF InsertAfter

\* So does unlinking one.
LEMMA RemoveIndexType ==
  ASSUME NEW T, NEW s \in Seq(T), NEW i \in 1..Len(s)
  PROVE  RemoveIndex(s, i) \in Seq(T)
<1>1. SubSeq(s, 1, i - 1) \in Seq(T)
  BY SubSeqProperties
<1>2. SubSeq(s, i + 1, Len(s)) \in Seq(T)
  BY SubSeqProperties
<1> QED
  BY <1>1, <1>2 DEF RemoveIndex

-----------------------------------------------------------------------------
(* Lookups. *)

LEMMA NullIsNoQueue == Null \notin Queues /\ Null \notin Handles
BY ConstantsAssumption DEF Null

LEMMA LiveType ==
  ASSUME NEW S \in Good
  PROVE  Live(S) \subseteq Queues
BY ElemsType DEF Live, Good, States

LEMMA FindTqueueType ==
  ASSUME NEW S \in Good, NEW p
  PROVE  /\ find_tqueue(S, p) \in Queues \cup {Null}
         /\ find_tqueue(S, p) # Null => find_tqueue(S, p) \in Live(S)
                                          /\ S.tq[find_tqueue(S, p)].player = p
BY LiveType DEF find_tqueue

LEMMA FindShandleType ==
  ASSUME NEW S \in Good, NEW p
  PROVE  /\ find_shandle(S, p) \in Handles \cup {Null}
         /\ find_shandle(S, p) # Null => S.sh[find_shandle(S, p)].open
BY DEF find_shandle

\* Changing one queue to another one of the right type keeps the types.
LEMMA UpdateQueue ==
  ASSUME NEW S \in Good, NEW q \in Queues, NEW r \in TQueues
  PROVE  [S EXCEPT !.tq[q] = r] \in Good
BY DEF Good, States

LEMMA QueueType ==
  ASSUME NEW S \in Good, NEW q \in Queues
  PROVE  /\ S.tq[q] \in TQueues
         /\ S.tq[q].player \in Objids
         /\ S.tq[q].input \in Seq(Lines)
         /\ S.tq[q].bg \in Seq(Tasks)
         /\ S.tq[q].usage \in Int
BY DEF Good, States, TQueues

-----------------------------------------------------------------------------
(* Lists of queues. *)

LEMMA NewTypes == NewTQueue \in TQueues /\ NoTask \in Tasks /\ NOTHING \in Objids
BY DEF NewTQueue, TQueues, NoTask, Tasks, Kinds, Objids, NOTHING, NO_USAGE

\* Moving a queue between the lists: its usage and the idle list change.
LEMMA SetUsageType ==
  ASSUME NEW S \in Good, NEW q \in Queues, NEW u \in Int, NEW I \in SUBSET Queues
  PROVE  [S EXCEPT !.tq[q].usage = u, !.idle = I] \in Good
<1>1. [S.tq[q] EXCEPT !.usage = u] \in TQueues
  BY QueueType, ZenonT(40) DEF TQueues
<1>2. [S.tq EXCEPT ![q].usage = u] \in [Queues -> TQueues]
  BY <1>1 DEF Good, States
<1>3. [S EXCEPT !.tq = [S.tq EXCEPT ![q].usage = u], !.idle = I] \in Good
  BY <1>2 DEF Good, States
<1> QED
  BY <1>3

LEMMA DeactivateType ==
  ASSUME NEW S \in Good, NEW q \in Queues
  PROVE  deactivate_tqueue(S, q) \in Good
<1>1. S.idle \cup {q} \in SUBSET Queues
  BY DEF Good, States
<1>2. NO_USAGE \in Int
  BY DEF NO_USAGE
<1>3. [S EXCEPT !.tq[q].usage = NO_USAGE, !.idle = S.idle \cup {q}] \in Good
  BY <1>1, <1>2, SetUsageType
<1> QED
  BY <1>3 DEF deactivate_tqueue

LEMMA ActivateType ==
  ASSUME NEW S \in Good, NEW q \in Queues
  PROVE  activate_tqueue(S, q) \in Good
<1> DEFINE B == {i \in 1..Len(S.active) :
                   \A j \in 1..i : S.tq[S.active[j]].usage <= S.tq[q].usage}
<1>1. S.active \in Seq(Queues) /\ Len(S.active) \in Nat
  BY DEF Good, States
<1>2. Cardinality(B) \in 0..Len(S.active)
  BY <1>1, PrefixLength
<1>3. InsertAfter(S.active, Cardinality(B), q) \in Seq(Queues)
  BY <1>1, <1>2, InsertAfterType
<1>4. activate_tqueue(S, q) = [S EXCEPT !.active = InsertAfter(S.active, Cardinality(B), q)]
  BY DEF activate_tqueue
<1> HIDE DEF B
<1> QED
  BY <1>3, <1>4 DEF Good, States

LEMMA EnsureUsageType ==
  ASSUME NEW S \in Good, NEW q \in Queues
  PROVE  ensure_usage(S, q) \in Good
<1> DEFINE u == IF S.active = <<>> THEN 0 ELSE S.tq[S.active[1]].usage
           T == [S EXCEPT !.tq[q].usage = u, !.idle = @ \ {q}]
<1>1. u \in Int
  <2>1. S.active \in Seq(Queues)
    BY DEF Good, States
  <2>2. CASE S.active # <<>>
    <3>1. S.active[1] \in Queues
      BY <2>1, <2>2
    <3> QED
      BY <2>2, <3>1, QueueType
  <2>3. CASE S.active = <<>>
    BY <2>3
  <2> QED
    BY <2>2, <2>3
<1>2. T \in Good
  <2>1. S.idle \ {q} \in SUBSET Queues
    BY DEF Good, States
  <2> HIDE DEF u
  <2> QED
    BY <1>1, <2>1, SetUsageType
<1>3. activate_tqueue(T, q) \in Good
  <2> HIDE DEF T
  <2> QED
    BY <1>2, ActivateType
<1> QED
  BY <1>3 DEF ensure_usage

LEMMA WithTqueueType ==
  ASSUME NEW S \in Good, NEW p \in Objids
  PROVE  with_tqueue(S, p) \in Good
<1>1. CASE find_tqueue(S, p) # Null
  BY <1>1 DEF with_tqueue
<1>2. CASE find_tqueue(S, p) = Null /\ Queues \subseteq Live(S)
  BY <1>2 DEF with_tqueue, Good, States
<1>3. CASE find_tqueue(S, p) = Null /\ ~(Queues \subseteq Live(S))
  <2> DEFINE q == CHOOSE q \in Queues \ Live(S) : TRUE
             T == [S EXCEPT !.tq[q] = [NewTQueue EXCEPT !.player = p]]
  <2>1. q \in Queues
    BY <1>3
  <2>2. [NewTQueue EXCEPT !.player = p] \in TQueues
    BY NewTypes DEF TQueues
  <2> HIDE DEF q
  <2>3. T \in Good
    BY <2>1, <2>2, UpdateQueue
  <2>4. with_tqueue(S, p) = deactivate_tqueue(T, q)
    BY <1>3 DEF with_tqueue, q
  <2> HIDE DEF T
  <2> QED
    BY <2>1, <2>3, <2>4, DeactivateType
<1> QED
  BY <1>1, <1>2, <1>3

-----------------------------------------------------------------------------
(* Input. *)

LEMMA SetLenType ==
  ASSUME NEW S \in Good, NEW q \in Queues, NEW n \in Int
  PROVE  [S EXCEPT !.tq[q].len = n] \in Good
<1>1. [S.tq EXCEPT ![q].len = n] \in [Queues -> TQueues]
  <2>1. S.tq \in [Queues -> TQueues] /\ S.tq[q] \in TQueues
    BY DEF Good, States
  <2>2. [S.tq[q] EXCEPT !.len = n] \in TQueues
    BY <2>1 DEF TQueues
  <2> QED
    BY <2>1, <2>2
<1> QED
  BY <1>1 DEF Good, States

LEMMA SetLinesType ==
  ASSUME NEW S \in Good, NEW q \in Queues, NEW lines \in Seq(Lines)
  PROVE  [S EXCEPT !.tq[q].input = lines] \in Good
<1>1. [S.tq EXCEPT ![q].input = lines] \in [Queues -> TQueues]
  <2>1. S.tq \in [Queues -> TQueues] /\ S.tq[q] \in TQueues
    BY DEF Good, States
  <2>2. [S.tq[q] EXCEPT !.input = lines] \in TQueues
    BY <2>1 DEF TQueues
  <2> QED
    BY <2>1, <2>2
<1> QED
  BY <1>1 DEF Good, States

\* Replacing the lines of a queue, the total of their lengths with them.
LEMMA SetInputType ==
  ASSUME NEW S \in Good, NEW q \in Queues, NEW lines \in Seq(Lines), NEW n \in Int
  PROVE  [S EXCEPT !.tq[q].input = lines, !.tq[q].len = n] \in Good
<1> DEFINE T == [S EXCEPT !.tq[q].input = lines]
<1>1. T \in Good
  BY SetLinesType
<1>2. [T EXCEPT !.tq[q].len = n] \in Good
  <2> HIDE DEF T
  <2> QED
    BY <1>1, SetLenType
<1> QED
  BY <1>2

\* Flags and counters of a queue, one at a time.
LEMMA SetFlagType ==
  ASSUME NEW S \in Good, NEW q \in Queues, NEW b \in BOOLEAN
  PROVE  /\ [S EXCEPT !.tq[q].insusp = b] \in Good
         /\ [S EXCEPT !.tq[q].connected = b] \in Good
         /\ [S EXCEPT !.tq[q].hold = b] \in Good
<1>1. /\ [S.tq EXCEPT ![q].insusp = b] \in [Queues -> TQueues]
      /\ [S.tq EXCEPT ![q].connected = b] \in [Queues -> TQueues]
      /\ [S.tq EXCEPT ![q].hold = b] \in [Queues -> TQueues]
  <2>1. S.tq \in [Queues -> TQueues] /\ S.tq[q] \in TQueues
    BY DEF Good, States
  <2>2. /\ [S.tq[q] EXCEPT !.insusp = b] \in TQueues
        /\ [S.tq[q] EXCEPT !.connected = b] \in TQueues
        /\ [S.tq[q] EXCEPT !.hold = b] \in TQueues
    BY <2>1 DEF TQueues
  <2> QED
    BY <2>1, <2>2
<1> QED
  BY <1>1 DEF Good, States

LEMMA SetSuspendedType ==
  ASSUME NEW S \in Good, NEW p, NEW b \in BOOLEAN
  PROVE  set_suspended(S, p, b) \in Good
<1> DEFINE h == find_shandle(S, p)
<1>1. CASE h = Null
  BY <1>1 DEF set_suspended, Good, States
<1>2. CASE h # Null
  <2>1. h \in Handles /\ S.sh[h].open
    BY <1>2, FindShandleType
  <2> HIDE DEF h
  <2>2. [S.sh EXCEPT ![h].suspended = b] \in [Handles -> SHandles]
    BY <2>1 DEF Good, States, SHandles
  <2>3. \A g \in Handles : /\ [S.sh EXCEPT ![h].suspended = b][g].open = S.sh[g].open
                           /\ [S.sh EXCEPT ![h].suspended = b][g].tasks = S.sh[g].tasks
    BY <2>1 DEF Good, States, SHandles
  <2>4. [S EXCEPT !.sh[h].suspended = b] \in Good
    BY <2>2, <2>3 DEF Good, States
  <2> QED
    BY <1>2, <2>4 DEF set_suspended, h
<1> QED
  BY <1>1, <1>2

LEMMA SuspendType ==
  ASSUME NEW S \in Good, NEW q \in Queues
  PROVE  suspend_input(S, q) \in Good /\ resume_input(S, q) \in Good
<1>1. /\ set_suspended(S, S.tq[q].player, TRUE) \in Good
      /\ set_suspended(S, S.tq[q].player, FALSE) \in Good
  BY SetSuspendedType
<1> QED
  BY <1>1, SetFlagType DEF suspend_input, resume_input

LEMMA ResumeBelowType ==
  ASSUME NEW S \in Good, NEW q \in Queues
  PROVE  resume_below_lowat(S, q) \in Good
BY SuspendType DEF resume_below_lowat

LEMMA LengthType ==
  ASSUME NEW line
  PROVE  Length(line) \in Int
BY DEF Length

LEMMA DequeueInputType ==
  ASSUME NEW S \in Good, NEW q \in Queues, S.tq[q].input # <<>>
  PROVE  dequeue_input_task(S, q) \in Good
<1>1. Tail(S.tq[q].input) \in Seq(Lines)
  BY QueueType, HeadTailProperties
<1>2. S.tq[q].len - Length(S.tq[q].input[1]) \in Int
  BY LengthType DEF Good, States, TQueues
<1> DEFINE T == [S EXCEPT !.tq[q].input = Tail(S.tq[q].input),
                          !.tq[q].len = S.tq[q].len - Length(S.tq[q].input[1])]
<1>3. T \in Good
  BY <1>1, <1>2, SetInputType
<1>4. dequeue_input_task(S, q) = resume_below_lowat(T, q)
  BY DEF dequeue_input_task
<1> HIDE DEF T
<1> QED
  BY <1>3, <1>4, ResumeBelowType

LEMMA FlushInputType ==
  ASSUME NEW S \in Good, NEW q \in Queues
  PROVE  flush_input(S, q) \in Good
<1>1. <<>> \in Seq(Lines) /\ 0 \in Int
  OBVIOUS
<1>2. [S EXCEPT !.tq[q].input = <<>>, !.tq[q].len = 0] \in Good
  BY <1>1, SetInputType
<1> QED
  BY <1>2, ResumeBelowType DEF flush_input

LEMMA EnqueueInputType ==
  ASSUME NEW S \in Good, NEW q \in Queues, NEW line \in Lines, NEW front \in BOOLEAN
  PROVE  enqueue_input_task(S, q, line, front) \in Good
<1> DEFINE lines == IF front THEN <<line>> \o S.tq[q].input ELSE Append(S.tq[q].input, line)
           T == [S EXCEPT !.tq[q].input = lines, !.tq[q].len = @ + Length(line)]
           U == IF ~S.tq[q].hold \/ reading(S, q) THEN ensure_usage(T, q) ELSE T
<1>1. lines \in Seq(Lines)
  BY QueueType
<1>2. S.tq[q].len + Length(line) \in Int
  BY LengthType DEF Good, States, TQueues
<1>3. T \in Good
  <2> HIDE DEF lines
  <2> QED
    BY <1>1, <1>2, SetInputType
<1>4. U \in Good
  <2> HIDE DEF T
  <2> QED
    BY <1>3, EnsureUsageType
<1>5. suspend_input(U, q) \in Good
  <2> HIDE DEF U
  <2> QED
    BY <1>4, SuspendType
<1>6. enqueue_input_task(S, q, line, front) \in {U, suspend_input(U, q)}
  BY DEF enqueue_input_task
<1> HIDE DEF U
<1> QED
  BY <1>4, <1>5, <1>6

LEMMA TaskSuspendInputType ==
  ASSUME NEW S \in Good, NEW q \in Queues
  PROVE  task_suspend_input(S, q) \in Good
BY SuspendType DEF task_suspend_input

LEMMA SetHoldInputType ==
  ASSUME NEW S \in Good, NEW q \in Queues, NEW hold \in BOOLEAN
  PROVE  set_hold_input(S, q, hold) \in Good
BY SetFlagType, EnsureUsageType DEF set_hold_input

-----------------------------------------------------------------------------
(* Background tasks. *)

LEMMA SetBgType ==
  ASSUME NEW S \in Good, NEW q \in Queues, NEW bg \in Seq(Tasks)
  PROVE  [S EXCEPT !.tq[q].bg = bg] \in Good
<1>1. [S.tq EXCEPT ![q].bg = bg] \in [Queues -> TQueues]
  <2>1. S.tq \in [Queues -> TQueues] /\ S.tq[q] \in TQueues
    BY DEF Good, States
  <2>2. [S.tq[q] EXCEPT !.bg = bg] \in TQueues
    BY <2>1 DEF TQueues
  <2> QED
    BY <2>1, <2>2
<1> QED
  BY <1>1 DEF Good, States

LEMMA SetNumType ==
  ASSUME NEW S \in Good, NEW q \in Queues, NEW n \in Int
  PROVE  [S EXCEPT !.tq[q].num = n] \in Good
<1>1. [S.tq EXCEPT ![q].num = n] \in [Queues -> TQueues]
  <2>1. S.tq \in [Queues -> TQueues] /\ S.tq[q] \in TQueues
    BY DEF Good, States
  <2>2. [S.tq[q] EXCEPT !.num = n] \in TQueues
    BY <2>1 DEF TQueues
  <2> QED
    BY <2>1, <2>2
<1> QED
  BY <1>1 DEF Good, States

LEMMA SetReaderType ==
  ASSUME NEW S \in Good, NEW q \in Queues, NEW t \in Tasks
  PROVE  [S EXCEPT !.tq[q].reader = t] \in Good
<1>1. [S.tq EXCEPT ![q].reader = t] \in [Queues -> TQueues]
  <2>1. S.tq \in [Queues -> TQueues] /\ S.tq[q] \in TQueues
    BY DEF Good, States
  <2>2. [S.tq[q] EXCEPT !.reader = t] \in TQueues
    BY <2>1 DEF TQueues
  <2> QED
    BY <2>1, <2>2
<1> QED
  BY <1>1 DEF Good, States

LEMMA SetPlayerType ==
  ASSUME NEW S \in Good, NEW q \in Queues, NEW p \in Objids
  PROVE  [S EXCEPT !.tq[q].player = p] \in Good
<1>1. [S.tq EXCEPT ![q].player = p] \in [Queues -> TQueues]
  <2>1. S.tq \in [Queues -> TQueues] /\ S.tq[q] \in TQueues
    BY DEF Good, States
  <2>2. [S.tq[q] EXCEPT !.player = p] \in TQueues
    BY <2>1 DEF TQueues
  <2> QED
    BY <2>1, <2>2
<1> QED
  BY <1>1 DEF Good, States

LEMMA SetWaitingType ==
  ASSUME NEW S \in Good, NEW w \in Seq(Tasks)
  PROVE  [S EXCEPT !.waiting = w] \in Good
BY DEF Good, States

LEMMA NumType ==
  ASSUME NEW S \in Good, NEW q \in Queues
  PROVE  S.tq[q].num \in Int
BY DEF Good, States, TQueues

LEMMA EnqueueBgType ==
  ASSUME NEW S \in Good, NEW q \in Queues, NEW t \in Tasks
  PROVE  enqueue_bg_task(S, q, t) \in Good
<1>1. Append(S.tq[q].bg, t) \in Seq(Tasks)
  BY QueueType
<1> QED
  BY <1>1, SetBgType DEF enqueue_bg_task

\* The two counted ways a task leaves a queue: dequeued, or killed.
LEMMA SetBgNumType ==
  ASSUME NEW S \in Good, NEW q \in Queues, NEW bg \in Seq(Tasks), NEW n \in Int
  PROVE  [S EXCEPT !.tq[q].bg = bg, !.tq[q].num = n] \in Good
<1> DEFINE T == [S EXCEPT !.tq[q].bg = bg]
<1>1. T \in Good
  BY SetBgType
<1>2. [T EXCEPT !.tq[q].num = n] \in Good
  <2> HIDE DEF T
  <2> QED
    BY <1>1, SetNumType
<1> QED
  BY <1>2

LEMMA DequeueBgType ==
  ASSUME NEW S \in Good, NEW q \in Queues, S.tq[q].bg # <<>>
  PROVE  dequeue_bg_task(S, q) \in Good
<1>1. Tail(S.tq[q].bg) \in Seq(Tasks)
  BY QueueType, HeadTailProperties
<1>2. S.tq[q].num - 1 \in Int
  BY NumType
<1>3. [S EXCEPT !.tq[q].bg = Tail(S.tq[q].bg), !.tq[q].num = S.tq[q].num - 1] \in Good
  BY <1>1, <1>2, SetBgNumType
<1> QED
  BY <1>3 DEF dequeue_bg_task

LEMMA KillBgType ==
  ASSUME NEW S \in Good, NEW q \in Queues, NEW i \in 1..Len(S.tq[q].bg)
  PROVE  kill_bg(S, q, i) \in Good
<1>1. RemoveIndex(S.tq[q].bg, i) \in Seq(Tasks)
  BY QueueType, RemoveIndexType
<1>2. S.tq[q].num - 1 \in Int
  BY NumType
<1>3. [S EXCEPT !.tq[q].bg = RemoveIndex(S.tq[q].bg, i), !.tq[q].num = S.tq[q].num - 1] \in Good
  BY <1>1, <1>2, SetBgNumType
<1> QED
  BY <1>3 DEF kill_bg

LEMMA KillReaderType ==
  ASSUME NEW S \in Good, NEW q \in Queues
  PROVE  kill_reader(S, q) \in Good
BY SetReaderType, NewTypes DEF kill_reader

LEMMA WaitingType ==
  ASSUME NEW S \in Good
  PROVE  /\ S.waiting \in Seq(Tasks)
         /\ \A i \in 1..Len(S.waiting) : S.waiting[i] \in Tasks
                                          /\ S.waiting[i].progr \in Objids
<1>1. S.waiting \in Seq(Tasks)
  BY DEF Good, States
<1>2. \A i \in 1..Len(S.waiting) : S.waiting[i] \in Tasks
  BY <1>1
<1>3. \A t \in Tasks : t.progr \in Objids
  BY DEF Tasks
<1> QED
  BY <1>1, <1>2, <1>3

\* The queue made for a player is there, or memory is exhausted.
LEMMA MadeType ==
  ASSUME NEW S \in Good, NEW p \in Objids
  PROVE  /\ with_tqueue(S, p) \in Good
         /\ find_tqueue(with_tqueue(S, p), p) \in Queues \cup {Null}
<1>1. with_tqueue(S, p) \in Good
  BY WithTqueueType
<1> QED
  BY <1>1, FindTqueueType

LEMMA EnqueueWaitingType ==
  ASSUME NEW S \in Good, NEW t \in Tasks
  PROVE  enqueue_waiting(S, t) \in Good
<1> DEFINE M == with_tqueue(S, t.progr)
           q == find_tqueue(M, t.progr)
           B == {i \in 1..Len(S.waiting) :
                   \A j \in 1..i : S.waiting[j].start <= t.start}
           w == InsertAfter(M.waiting, Cardinality(B), t)
<1>1. t.progr \in Objids
  BY DEF Tasks
<1>2. M \in Good /\ q \in Queues \cup {Null}
  BY <1>1, MadeType
<1>3. M.waiting = S.waiting
  BY DEF with_tqueue, deactivate_tqueue, Good, States
<1>4. Cardinality(B) \in 0..Len(S.waiting)
  BY WaitingType, PrefixLength
<1>5. w \in Seq(Tasks)
  <2> HIDE DEF B, M
  <2> QED
    BY <1>3, <1>4, WaitingType, InsertAfterType
<1>6. CASE q = Null
  BY <1>2, <1>6 DEF enqueue_waiting
<1>7. CASE q # Null
  <2>1. enqueue_waiting(S, t) = [M EXCEPT !.tq[q].num = M.tq[q].num + 1, !.waiting = w]
    BY <1>7 DEF enqueue_waiting
  <2> HIDE DEF M, q, w
  <2>2. q \in Queues
    BY <1>2, <1>7
  <2>3. M.tq[q].num + 1 \in Int
    BY <1>2, <2>2, NumType
  <2> DEFINE N == [M EXCEPT !.tq[q].num = M.tq[q].num + 1]
  <2>4. N \in Good
    BY <1>2, <2>2, <2>3, SetNumType
  <2>5. [N EXCEPT !.waiting = w] \in Good
    <3> HIDE DEF N
    <3> QED
      BY <1>5, <2>4, SetWaitingType
  <2> QED
    BY <2>1, <2>5
<1> QED
  BY <1>6, <1>7

\* A task of the waiting list moves to the queue of its programmer: the common
\* part of run_ready_tasks() and do_resume().
LEMMA MoveWaitingType ==
  ASSUME NEW M \in Good, NEW q \in Queues, NEW w \in Seq(Tasks), NEW t \in Tasks
  PROVE  enqueue_bg_task(ensure_usage([M EXCEPT !.waiting = w], q), q, t) \in Good
<1>1. [M EXCEPT !.waiting = w] \in Good
  BY SetWaitingType
<1>2. ensure_usage([M EXCEPT !.waiting = w], q) \in Good
  BY <1>1, EnsureUsageType
<1> QED
  BY <1>2, EnqueueBgType

LEMMA WithTqueueWaiting ==
  ASSUME NEW S \in Good, NEW p
  PROVE  with_tqueue(S, p).waiting = S.waiting
BY DEF with_tqueue, deactivate_tqueue, Good, States

LEMMA ReadyFirstWaitingType ==
  ASSUME NEW S \in Good, S.waiting # <<>>
  PROVE  ready_first_waiting(S) \in Good
<1> DEFINE t == S.waiting[1]
           M == with_tqueue(S, t.progr)
           q == find_tqueue(M, t.progr)
<1>1. t \in Tasks /\ t.progr \in Objids
  BY WaitingType
<1>2. M \in Good /\ q \in Queues \cup {Null}
  BY <1>1, MadeType
<1>3. Tail(M.waiting) \in Seq(Tasks)
  BY WithTqueueWaiting, WaitingType, HeadTailProperties
<1>4. ready_first_waiting(S) =
        IF q = Null THEN M
        ELSE enqueue_bg_task(ensure_usage([M EXCEPT !.waiting = Tail(M.waiting)], q), q, t)
  BY DEF ready_first_waiting
<1> HIDE DEF t, M, q
<1> QED
  BY <1>1, <1>2, <1>3, <1>4, MoveWaitingType

LEMMA KillWaitingType ==
  ASSUME NEW S \in Good, NEW i \in 1..Len(S.waiting)
  PROVE  kill_waiting(S, i) \in Good
<1> DEFINE q == find_tqueue(S, S.waiting[i].progr)
           C == [S EXCEPT !.waiting = RemoveIndex(S.waiting, i)]
<1>1. C \in Good
  BY WaitingType, RemoveIndexType, SetWaitingType
<1>2. q \in Queues \cup {Null}
  BY FindTqueueType
<1>3. kill_waiting(S, i) = IF q = Null THEN C ELSE [C EXCEPT !.tq[q].num = C.tq[q].num - 1]
  BY DEF kill_waiting
<1> HIDE DEF q, C
<1>4. q # Null => [C EXCEPT !.tq[q].num = C.tq[q].num - 1] \in Good
  BY <1>1, <1>2, NumType, SetNumType
<1> QED
  BY <1>1, <1>3, <1>4

LEMMA ResumeWaitingType ==
  ASSUME NEW S \in Good, NEW i \in 1..Len(S.waiting), NEW n \in Nat
  PROVE  resume_waiting(S, i, n) \in Good
<1> DEFINE t == [S.waiting[i] EXCEPT !.start = n]
           M == with_tqueue(S, t.progr)
           q == find_tqueue(M, t.progr)
<1>1. t \in Tasks /\ t.progr \in Objids
  BY WaitingType DEF Tasks
<1>2. M \in Good /\ q \in Queues \cup {Null}
  BY <1>1, MadeType
<1>3. RemoveIndex(M.waiting, i) \in Seq(Tasks)
  BY WithTqueueWaiting, WaitingType, RemoveIndexType
<1>4. resume_waiting(S, i, n) =
        IF q = Null THEN M
        ELSE enqueue_bg_task(
               ensure_usage([M EXCEPT !.waiting = RemoveIndex(M.waiting, i)], q), q, t)
  BY DEF resume_waiting
<1> HIDE DEF t, M, q
<1> QED
  BY <1>1, <1>2, <1>3, <1>4, MoveWaitingType

LEMMA MakeReadingType ==
  ASSUME NEW S \in Good, NEW q \in Queues, NEW t \in Tasks
  PROVE  make_reading_task(S, q, t) \in Good
BY SetReaderType, EnsureUsageType DEF make_reading_task

LEMMA ForceInputType ==
  ASSUME NEW S \in Good, NEW p \in Objids, NEW line \in Lines, NEW front \in BOOLEAN
  PROVE  force_input(S, p, line, front) \in Good /\ flush_player(S, p) \in Good
<1> DEFINE M == with_tqueue(S, p)
           q == find_tqueue(M, p)
<1>1. M \in Good /\ q \in Queues \cup {Null}
  BY MadeType
<1>2. /\ force_input(S, p, line, front) =
           IF q = Null THEN M ELSE enqueue_input_task(M, q, line, front)
      /\ flush_player(S, p) = IF q = Null THEN M ELSE flush_input(M, q)
  BY DEF force_input, flush_player
<1> HIDE DEF M, q
<1> QED
  BY <1>1, <1>2, EnqueueInputType, FlushInputType

-----------------------------------------------------------------------------
(* Connections. *)

LEMMA ConnIdType ==
  ASSUME NEW h \in Handles
  PROVE  ConnId(h) \in Objids
BY DEF Objids, Progrs

LEMMA NewConnectionType ==
  ASSUME NEW S \in Good, NEW h \in Handles, NEW outbound \in BOOLEAN
  PROVE  server_new_connection(S, h, outbound) \in Good
<1> DEFINE M == with_tqueue(S, ConnId(h))
           q == find_tqueue(M, ConnId(h))
           s == [NoHandle EXCEPT !.open = TRUE, !.player = ConnId(h), !.tasks = q,
                                 !.outbound = outbound]
           C == [M EXCEPT !.tq[q].connected = TRUE]
           O == [M EXCEPT !.tq[q].connected = TRUE, !.sh[h] = s]
           E == enqueue_input_task(O, q, "blank", FALSE)
<1>1. M \in Good /\ q \in Queues \cup {Null}
  BY ConnIdType, MadeType
<1>2. server_new_connection(S, h, outbound) =
        IF q = Null THEN M ELSE IF outbound THEN O ELSE task_suspend_input(E, q)
  BY DEF server_new_connection
<1>3. CASE q # Null
  <2>1. q \in Queues
    BY <1>1, <1>3
  <2>2. s \in SHandles /\ s.tasks = q
    <3> HIDE DEF M, q
    <3> QED
      BY <2>1, ConnIdType DEF SHandles, NoHandle
  <2>3. O \in Good
    <3> HIDE DEF M, q, s
    <3>1. C \in Good
      BY <1>1, <2>1, SetFlagType
    <3> HIDE DEF C
    <3>2. [C EXCEPT !.sh[h] = s] \in Good
      BY <3>1, <2>1, <2>2 DEF Good, States
    <3> QED
      BY <3>2 DEF C
  <2>4. E \in Good
    <3> HIDE DEF O, q
    <3> QED
      BY <2>1, <2>3, EnqueueInputType DEF Lines
  <2>5. task_suspend_input(E, q) \in Good
    <3> HIDE DEF E, q
    <3> QED
      BY <2>1, <2>4, TaskSuspendInputType
  <2> HIDE DEF M, q, O, E
  <2> QED
    BY <1>2, <1>3, <2>3, <2>5
<1> HIDE DEF M, q, O, E
<1> QED
  BY <1>1, <1>2, <1>3

LEMMA FreeTaskQueueType ==
  ASSUME NEW S \in Good, NEW q \in Queues
  PROVE  free_task_queue(S, q) \in Good
<1> DEFINE C == [S EXCEPT !.tq[q].connected = FALSE]
<1>1. C \in Good
  BY SetFlagType
<1> HIDE DEF C
<1>2. ensure_usage(C, q) \in Good
  BY <1>1, EnsureUsageType
<1> QED
  BY <1>1, <1>2 DEF free_task_queue, C

LEMMA FreeShandleType ==
  ASSUME NEW S \in Good, NEW h \in Handles, S.sh[h].open
  PROVE  free_shandle(S, h) \in Good
<1> DEFINE C == [S EXCEPT !.sh[h] = NoHandle]
<1>1. NoHandle \in SHandles /\ ~NoHandle.open
  BY NewTypes DEF NoHandle, SHandles
<1>2. C \in Good
  BY <1>1 DEF Good, States
<1>3. S.sh[h].tasks \in Queues
  BY DEF Good
<1> HIDE DEF C
<1> QED
  BY <1>2, <1>3, FreeTaskQueueType DEF free_shandle, C

LEMMA ConcatBgType ==
  ASSUME NEW S \in Good, NEW q \in Queues, NEW r \in Queues
  PROVE  S.tq[q].bg \o S.tq[r].bg \in Seq(Tasks)
BY QueueType

LEMMA MoveBgType ==
  ASSUME NEW S \in Good, NEW q \in Queues, NEW old \in Objids
  PROVE  move_bg_to_old_player(S, q, old) \in Good
<1> DEFINE M == with_tqueue(S, old)
           o == find_tqueue(M, old)
           b == M.tq[o].bg \o S.tq[q].bg
           A == [M EXCEPT !.tq[o].bg = b, !.tq[o].num = S.tq[q].num]
           N == [A EXCEPT !.tq[q].bg = <<>>, !.tq[q].num = 0]
<1>1. M \in Good /\ o \in Queues \cup {Null}
  BY MadeType
<1>2. move_bg_to_old_player(S, q, old) =
        IF S.tq[q].num = 0 THEN S
        ELSE IF o = Null THEN M
        ELSE [M EXCEPT !.tq[o].bg = b, !.tq[o].num = S.tq[q].num,
                       !.tq[q].bg = <<>>, !.tq[q].num = 0]
  BY DEF move_bg_to_old_player
<1>3. CASE o # Null
  <2>1. o \in Queues
    BY <1>1, <1>3
  <2>2. b \in Seq(Tasks)
    <3> HIDE DEF M, o
    <3> QED
      BY <1>1, <2>1, QueueType
  <2> HIDE DEF M, o, b
  <2>3. A \in Good
    BY <1>1, <2>1, <2>2, NumType, SetBgNumType
  <2>4. N \in Good
    <3> HIDE DEF A
    <3>1. <<>> \in Seq(Tasks) /\ 0 \in Int
      OBVIOUS
    <3> QED
      BY <2>3, <3>1, SetBgNumType
  <2> QED
    BY <1>2, <1>3, <2>4
<1> HIDE DEF M, o, b
<1> QED
  BY <1>1, <1>2, <1>3

LEMMA TakeOverType ==
  ASSUME NEW S \in Good, NEW q \in Queues, NEW dead \in Queues \cup {Null}
  PROVE  take_over_queue(S, q, dead) \in Good
<1> DEFINE F == flush_input(S, dead)
           b == F.tq[q].bg \o S.tq[dead].bg
           A == [F EXCEPT !.tq[q].bg = b, !.tq[q].num = S.tq[dead].num]
           N == [A EXCEPT !.tq[dead].bg = <<>>, !.tq[dead].num = 0]
           D == [N EXCEPT !.tq[dead].player = NOTHING]
<1>1. take_over_queue(S, q, dead) = IF dead = Null THEN S ELSE D
  BY DEF take_over_queue
<1>2. CASE dead # Null
  <2>1. dead \in Queues
    BY <1>2
  <2>2. F \in Good
    BY <2>1, FlushInputType
  <2>3. b \in Seq(Tasks)
    <3> HIDE DEF F
    <3> QED
      BY <2>1, <2>2, QueueType
  <2> HIDE DEF F, b
  <2>4. A \in Good
    BY <2>1, <2>2, <2>3, NumType, SetBgNumType
  <2> HIDE DEF A
  <2>5. <<>> \in Seq(Tasks) /\ 0 \in Int
    OBVIOUS
  <2>6. N \in Good
    BY <2>1, <2>4, <2>5, SetBgNumType
  <2> HIDE DEF N
  <2>7. D \in Good
    BY <2>1, <2>6, NewTypes, SetPlayerType
  <2> HIDE DEF D
  <2> QED
    BY <1>1, <1>2, <2>7
<1> HIDE DEF D
<1> QED
  BY <1>1, <1>2

LEMMA PlayerConnectedType ==
  ASSUME NEW S \in Good, NEW old \in Objids, NEW new \in Objids
  PROVE  player_connected(S, old, new) \in Good
<1> DEFINE g == find_shandle(S, new)
           nh == find_shandle(S, old)
           N == [S EXCEPT !.sh[nh].player = new, !.sh[nh].login = TRUE]
<1>1. player_connected(S, old, new) =
        IF nh = Null THEN [S EXCEPT !.panic = TRUE]
        ELSE IF g = Null THEN N ELSE free_shandle(N, g)
  BY DEF player_connected
<1>2. [S EXCEPT !.panic = TRUE] \in Good
  BY DEF Good, States
<1>3. CASE nh # Null
  <2>1. nh \in Handles /\ g \in Handles \cup {Null} /\ (g # Null => S.sh[g].open)
    BY <1>3, FindShandleType
  <2> HIDE DEF nh, g
  <2> DEFINE h1 == [S.sh EXCEPT ![nh].player = new]
             h2 == [h1 EXCEPT ![nh].login = TRUE]
  <2>2. h1 \in [Handles -> SHandles]
    BY <2>1, SMTT(40) DEF Good, States, SHandles
  <2>3. \A h \in Handles : h1[h].open = S.sh[h].open /\ h1[h].tasks = S.sh[h].tasks
    BY <2>1 DEF Good, States, SHandles
  <2> HIDE DEF h1
  <2>4. h2 \in [Handles -> SHandles]
    BY <2>1, <2>2 DEF SHandles
  <2>5. \A h \in Handles : h2[h].open = S.sh[h].open /\ h2[h].tasks = S.sh[h].tasks
    BY <2>1, <2>2, <2>3 DEF SHandles
  <2>6. N = [S EXCEPT !.sh = h2]
    BY DEF h1
  <2> HIDE DEF h2, N
  <2>7. N \in Good /\ N.sh = h2
    BY <2>4, <2>5, <2>6 DEF Good, States
  <2>8. g # Null => free_shandle(N, g) \in Good
    BY <2>1, <2>5, <2>7, FreeShandleType
  <2> QED
    BY <1>1, <1>3, <2>7, <2>8
<1> HIDE DEF N, nh, g
<1> QED
  BY <1>1, <1>2, <1>3

LEMMA LogInType ==
  ASSUME NEW S \in Good, NEW q \in Queues, NEW new \in Players
  PROVE  log_in(S, q, new) \in Good
<1> DEFINE old == S.tq[q].player
           dead == find_tqueue(S, new)
           N == [S EXCEPT !.tq[q].player = new]
           M == move_bg_to_old_player(N, q, old)
           T == take_over_queue(M, q, dead)
<1>1. old \in Objids /\ new \in Objids /\ dead \in Queues \cup {Null}
  BY QueueType, FindTqueueType DEF Objids, Progrs
<1>2. N \in Good
  BY <1>1, SetPlayerType
<1>3. M \in Good
  <2> HIDE DEF N, old
  <2> QED
    BY <1>1, <1>2, MoveBgType
<1>4. T \in Good
  <2> HIDE DEF M, dead
  <2> QED
    BY <1>1, <1>3, TakeOverType
<1>5. log_in(S, q, new) = player_connected(T, old, new)
  BY DEF log_in
<1> HIDE DEF T, old
<1> QED
  BY <1>1, <1>4, <1>5, PlayerConnectedType

-----------------------------------------------------------------------------
(* The two ends of run_ready_tasks(). *)

LEMMA ChargeUsageType ==
  ASSUME NEW S \in Good, NEW q \in Elems(S.active), NEW n \in Int
  PROVE  charge_usage(S, q, n) \in Good
<1> DEFINE a == AfterQueue(S.active, q)
           U == [S EXCEPT !.tq[q].usage = S.tq[q].usage + n]
           A == [U EXCEPT !.active = a]
<1>1. S.active \in Seq(Queues) /\ q \in Queues
  BY ElemsType DEF Good, States
<1>2. \E i \in 1..Len(S.active) : S.active[i] = q
  BY DEF Elems
<1>3. a \in Seq(Queues)
  <2>1. PICK i \in 1..Len(S.active) :
             a = SubSeq(S.active, i + 1, Len(S.active))
    BY <1>2 DEF AfterQueue
  <2>2. Len(S.active) \in Nat /\ i + 1 \in 1..Len(S.active) + 1
    BY <1>1
  <2> QED
    BY <1>1, <2>1, <2>2, SubSeqProperties
<1> HIDE DEF a
<1>4. S.tq[q].usage + n \in Int
  BY <1>1, QueueType
<1>5. U \in Good
  <2>1. [S.tq EXCEPT ![q].usage = S.tq[q].usage + n] \in [Queues -> TQueues]
    <3>1. S.tq \in [Queues -> TQueues] /\ S.tq[q] \in TQueues
      BY <1>1 DEF Good, States
    <3>2. [S.tq[q] EXCEPT !.usage = S.tq[q].usage + n] \in TQueues
      BY <1>4, <3>1 DEF TQueues
    <3> QED
      BY <3>1, <3>2
  <2> QED
    BY <2>1 DEF Good, States
<1>6. A \in Good
  <2> HIDE DEF U
  <2> QED
    BY <1>3, <1>5 DEF Good, States
<1>7. charge_usage(S, q, n) = activate_tqueue(A, q)
  BY DEF charge_usage, a, Good, States
<1> HIDE DEF A
<1> QED
  BY <1>1, <1>6, <1>7, ActivateType

LEMMA FreeIdleType ==
  ASSUME NEW S \in Good
  PROVE  free_idle_tqueues(S) \in Good
<1> DEFINE dead == {q \in S.idle : is_out_of_input(S, q) /\ S.tq[q].num = 0}
           f == [q \in Queues |-> IF q \in dead THEN NewTQueue ELSE S.tq[q]]
<1>1. f \in [Queues -> TQueues]
  BY NewTypes DEF Good, States
<1>2. S.idle \ dead \in SUBSET Queues
  BY DEF Good, States
<1>3. free_idle_tqueues(S) = [S EXCEPT !.idle = S.idle \ dead, !.tq = f]
  BY DEF free_idle_tqueues
<1> HIDE DEF dead, f
<1> QED
  BY <1>1, <1>2, <1>3 DEF Good, States

-----------------------------------------------------------------------------
(* What no builtin of the running task disturbs: the first active queue and  *)
(* the handles that are open.                                                *)

HeadKept(S, T) == S.active # <<>> => T.active # <<>> /\ T.active[1] = S.active[1]
OpenKept(S, T) == \A h \in Handles : S.sh[h].open => T.sh[h].open
Kept(S, T) == HeadKept(S, T) /\ OpenKept(S, T)

LEMMA KeptSame ==
  ASSUME NEW S, NEW T, T.active = S.active, T.sh = S.sh
  PROVE  Kept(S, T)
BY DEF Kept, HeadKept, OpenKept

LEMMA KeptTrans ==
  ASSUME NEW S, NEW T, NEW U, Kept(S, T), Kept(T, U)
  PROVE  Kept(S, U)
BY DEF Kept, HeadKept, OpenKept

\* Linking behind the first element leaves it the first.
LEMMA InsertAfterHead ==
  ASSUME NEW X, NEW s \in Seq(X), NEW k \in 1..Len(s), NEW e \in X
  PROVE  InsertAfter(s, k, e) # <<>> /\ InsertAfter(s, k, e)[1] = s[1]
<1> DEFINE a == SubSeq(s, 1, k)
           b == <<e>>
           c == SubSeq(s, k + 1, Len(s))
<1>1. a \in Seq(X) /\ Len(a) = k /\ a[1] = s[1]
  BY SubSeqProperties
<1>2. b \in Seq(X) /\ c \in Seq(X)
  BY SubSeqProperties
<1> HIDE DEF a, b, c
<1>3. \A x, y \in Seq(X) : Len(x) >= 1 =>
        x \o y \in Seq(X) /\ Len(x \o y) >= 1 /\ (x \o y)[1] = x[1]
  BY ConcatProperties, LenProperties
<1>4. a \o b \in Seq(X) /\ Len(a \o b) >= 1 /\ (a \o b)[1] = a[1]
  BY <1>1, <1>2, <1>3
<1>5. Len((a \o b) \o c) >= 1 /\ ((a \o b) \o c)[1] = a[1]
  BY <1>2, <1>3, <1>4
<1>6. (a \o b) \o c # <<>>
  BY <1>5
<1> QED
  BY <1>1, <1>5, <1>6 DEF InsertAfter, a, b, c

LEMMA ActivateKept ==
  ASSUME NEW S \in Good, NEW q \in Queues,
         S.active # <<>> => S.tq[S.active[1]].usage <= S.tq[q].usage
  PROVE  Kept(S, activate_tqueue(S, q))
<1> DEFINE B == {i \in 1..Len(S.active) :
                   \A j \in 1..i : S.tq[S.active[j]].usage <= S.tq[q].usage}
           k == Cardinality(B)
<1>1. S.active \in Seq(Queues) /\ Len(S.active) \in Nat
  BY DEF Good, States
<1>2. activate_tqueue(S, q) = [S EXCEPT !.active = InsertAfter(S.active, k, q)]
  BY DEF activate_tqueue
<1>3. k \in 0..Len(S.active)
  BY <1>1, PrefixLength
<1>4. CASE S.active # <<>>
  <2>1. 1 \in B
    BY <1>1, <1>4
  <2>2. IsFiniteSet(B)
    <3>1. IsFiniteSet(1..Len(S.active))
      BY <1>1, FS_Interval
    <3> QED
      BY <3>1, FS_Subset
  <2>3. k # 0
    <3> HIDE DEF B
    <3> QED
      BY <2>1, <2>2, FS_EmptySet
  <2> HIDE DEF k
  <2>4. k \in 1..Len(S.active)
    BY <1>1, <1>3, <2>3
  <2>5. InsertAfter(S.active, k, q) # <<>> /\ InsertAfter(S.active, k, q)[1] = S.active[1]
    BY <1>1, <2>4, InsertAfterHead
  <2> QED
    BY <1>2, <2>5 DEF Kept, HeadKept, OpenKept, Good, States
<1>5. CASE S.active = <<>>
  BY <1>2, <1>5 DEF Kept, HeadKept, OpenKept, Good, States
<1> QED
  BY <1>4, <1>5

\* A queue that wakes up gets the usage of the first active queue, so it never
\* goes in front of it.
LEMMA EnsureUsageKept ==
  ASSUME NEW S \in Good, NEW q \in Queues
  PROVE  Kept(S, ensure_usage(S, q))
<1> DEFINE u == IF S.active = <<>> THEN 0 ELSE S.tq[S.active[1]].usage
           T == [S EXCEPT !.tq[q].usage = u, !.idle = @ \ {q}]
<1>1. CASE S.tq[q].usage # NO_USAGE
  BY <1>1, KeptSame DEF ensure_usage
<1>2. CASE S.tq[q].usage = NO_USAGE
  <2>1. u \in Int
    <3>1. S.active \in Seq(Queues)
      BY DEF Good, States
    <3>2. S.active # <<>> => S.active[1] \in Queues
      BY <3>1
    <3> QED
      BY <3>2, QueueType
  <2>2. T \in Good
    <3>1. S.idle \ {q} \in SUBSET Queues
      BY DEF Good, States
    <3> HIDE DEF u
    <3> QED
      BY <2>1, <3>1, SetUsageType
  <2>3. T.active = S.active /\ T.sh = S.sh
    BY DEF Good, States
  <2>4. T.tq[q].usage = u
    <3> HIDE DEF u
    <3> QED
      BY <2>1 DEF Good, States, TQueues
  <2>5. S.active # <<>> => T.tq[S.active[1]].usage = u
    <3> SUFFICES ASSUME S.active # <<>> PROVE T.tq[S.active[1]].usage = u
      OBVIOUS
    <3>1. S.active \in Seq(Queues)
      BY DEF Good, States
    <3>2. S.active[1] \in Queues
      BY <3>1
    <3>3. u = S.tq[S.active[1]].usage
      OBVIOUS
    <3>4. CASE S.active[1] = q
      BY <2>4, <3>4
    <3>5. CASE S.active[1] # q
      <4>1. T.tq[S.active[1]] = S.tq[S.active[1]]
        BY <3>2, <3>5 DEF Good, States, TQueues
      <4> QED
        BY <3>3, <4>1
    <3> QED
      BY <3>4, <3>5
  <2> HIDE DEF u, T
  <2>6. T.active # <<>> => T.tq[T.active[1]].usage <= T.tq[q].usage
    BY <2>1, <2>3, <2>4, <2>5
  <2>7. Kept(T, activate_tqueue(T, q))
    BY <2>2, <2>6, ActivateKept
  <2>8. Kept(S, T)
    BY <2>3, KeptSame
  <2>9. ensure_usage(S, q) = activate_tqueue(T, q)
    BY <1>2 DEF ensure_usage, T, u
  <2> QED
    BY <2>7, <2>8, <2>9, KeptTrans
<1> QED
  BY <1>1, <1>2

LEMMA WithTqueueKept ==
  ASSUME NEW S \in Good, NEW p
  PROVE  Kept(S, with_tqueue(S, p))
<1>1. with_tqueue(S, p).active = S.active /\ with_tqueue(S, p).sh = S.sh
  BY DEF with_tqueue, deactivate_tqueue, Good, States
<1> QED
  BY <1>1, KeptSame

LEMMA SetSuspendedKept ==
  ASSUME NEW S \in Good, NEW p, NEW b \in BOOLEAN
  PROVE  Kept(S, set_suspended(S, p, b))
<1> DEFINE h == find_shandle(S, p)
<1>1. CASE h = Null
  <2>1. set_suspended(S, p, b) = [S EXCEPT !.panic = TRUE]
    BY <1>1 DEF set_suspended
  <2> QED
    BY <2>1, KeptSame DEF Good, States
<1>2. CASE h # Null
  <2>1. set_suspended(S, p, b) = [S EXCEPT !.sh[h].suspended = b]
    BY <1>2 DEF set_suspended
  <2>2. h \in Handles
    BY <1>2, FindShandleType
  <2> HIDE DEF h
  <2>3. \A g \in Handles : [S.sh EXCEPT ![h].suspended = b][g].open = S.sh[g].open
    BY <2>2 DEF Good, States, SHandles
  <2>4. OpenKept(S, set_suspended(S, p, b))
    BY <2>1, <2>3 DEF OpenKept, Good, States
  <2>5. set_suspended(S, p, b).active = S.active
    BY <2>1, SMTT(40) DEF Good, States
  <2> QED
    BY <2>4, <2>5 DEF Kept, HeadKept
<1> QED
  BY <1>1, <1>2

LEMMA SuspendKept ==
  ASSUME NEW S \in Good, NEW q \in Queues
  PROVE  Kept(S, suspend_input(S, q)) /\ Kept(S, resume_input(S, q))
<1>1. ASSUME NEW b \in BOOLEAN, NEW c \in BOOLEAN
      PROVE  Kept(S, [set_suspended(S, S.tq[q].player, b) EXCEPT !.tq[q].insusp = c])
  <2> DEFINE T == set_suspended(S, S.tq[q].player, b)
  <2>1. T \in Good /\ Kept(S, T)
    BY SetSuspendedType, SetSuspendedKept
  <2> HIDE DEF T
  <2>2. Kept(T, [T EXCEPT !.tq[q].insusp = c])
    <3> DEFINE U == [T EXCEPT !.tq[q].insusp = c]
    <3>1. U.active = T.active /\ U.sh = T.sh
      BY <2>1 DEF Good, States
    <3> HIDE DEF U
    <3>2. Kept(T, U)
      BY <3>1, KeptSame
    <3> QED
      BY <3>2 DEF U
  <2>3. Kept(S, [T EXCEPT !.tq[q].insusp = c])
    BY <2>1, <2>2, KeptTrans
  <2> QED
    BY <2>3 DEF T
<1> QED
  BY <1>1 DEF suspend_input, resume_input

LEMMA ResumeBelowKept ==
  ASSUME NEW S \in Good, NEW q \in Queues
  PROVE  Kept(S, resume_below_lowat(S, q))
BY SuspendKept, KeptSame DEF resume_below_lowat

\* The lines of a queue are replaced, then its connection perhaps resumed.
LEMMA DequeuedKept ==
  ASSUME NEW S \in Good, NEW q \in Queues, NEW lines \in Seq(Lines), NEW n \in Int
  PROVE  Kept(S, resume_below_lowat([S EXCEPT !.tq[q].input = lines, !.tq[q].len = n], q))
<1> DEFINE T == [S EXCEPT !.tq[q].input = lines, !.tq[q].len = n]
<1>1. T \in Good
  BY SetInputType
<1>2. Kept(S, T)
  <2>1. T.active = S.active /\ T.sh = S.sh
    BY DEF Good, States
  <2> QED
    BY <2>1, KeptSame
<1> HIDE DEF T
<1>3. Kept(T, resume_below_lowat(T, q))
  BY <1>1, ResumeBelowKept
<1>4. Kept(S, resume_below_lowat(T, q))
  BY <1>2, <1>3, KeptTrans
<1> QED
  BY <1>4 DEF T

LEMMA DequeueInputKept ==
  ASSUME NEW S \in Good, NEW q \in Queues, S.tq[q].input # <<>>
  PROVE  Kept(S, dequeue_input_task(S, q))
<1>1. Tail(S.tq[q].input) \in Seq(Lines)
  BY QueueType, HeadTailProperties
<1>2. S.tq[q].len - Length(S.tq[q].input[1]) \in Int
  BY LengthType DEF Good, States, TQueues
<1>3. Kept(S, resume_below_lowat(
                [S EXCEPT !.tq[q].input = Tail(S.tq[q].input),
                          !.tq[q].len = S.tq[q].len - Length(S.tq[q].input[1])], q))
  BY <1>1, <1>2, DequeuedKept
<1> QED
  BY <1>3 DEF dequeue_input_task

LEMMA FlushInputKept ==
  ASSUME NEW S \in Good, NEW q \in Queues
  PROVE  Kept(S, flush_input(S, q))
<1>1. <<>> \in Seq(Lines) /\ 0 \in Int
  OBVIOUS
<1>2. Kept(S, resume_below_lowat([S EXCEPT !.tq[q].input = <<>>, !.tq[q].len = 0], q))
  BY <1>1, DequeuedKept
<1> QED
  BY <1>2, KeptSame DEF flush_input

LEMMA EnqueueInputKept ==
  ASSUME NEW S \in Good, NEW q \in Queues, NEW line \in Lines, NEW front \in BOOLEAN
  PROVE  Kept(S, enqueue_input_task(S, q, line, front))
<1> DEFINE lines == IF front THEN <<line>> \o S.tq[q].input ELSE Append(S.tq[q].input, line)
           n == S.tq[q].len + Length(line)
           T == [S EXCEPT !.tq[q].input = lines, !.tq[q].len = n]
           U == IF ~S.tq[q].hold \/ reading(S, q) THEN ensure_usage(T, q) ELSE T
<1>1. lines \in Seq(Lines) /\ n \in Int
  BY QueueType, LengthType DEF Good, States, TQueues
<1>2. T \in Good /\ Kept(S, T)
  <2> HIDE DEF lines, n
  <2>1. T \in Good
    BY <1>1, SetInputType
  <2>2. T.active = S.active /\ T.sh = S.sh
    BY DEF Good, States
  <2> QED
    BY <2>1, <2>2, KeptSame
<1>3. U \in Good /\ Kept(S, U)
  <2> HIDE DEF T
  <2> QED
    BY <1>2, EnsureUsageType, EnsureUsageKept, KeptTrans
<1>4. enqueue_input_task(S, q, line, front) \in {U, suspend_input(U, q)}
  BY DEF enqueue_input_task
<1> HIDE DEF U
<1> QED
  BY <1>3, <1>4, SuspendKept, KeptTrans

LEMMA TaskSuspendInputKept ==
  ASSUME NEW S \in Good, NEW q \in Queues
  PROVE  Kept(S, task_suspend_input(S, q))
BY SuspendKept, KeptSame DEF task_suspend_input

LEMMA SetHoldInputKept ==
  ASSUME NEW S \in Good, NEW q \in Queues, NEW hold \in BOOLEAN
  PROVE  Kept(S, set_hold_input(S, q, hold))
<1> DEFINE T == [S EXCEPT !.tq[q].hold = hold]
<1>1. T \in Good
  BY SetFlagType
<1>2. Kept(S, T)
  <2>1. T.active = S.active /\ T.sh = S.sh
    BY DEF Good, States
  <2> QED
    BY <2>1, KeptSame
<1> HIDE DEF T
<1>3. Kept(S, ensure_usage(T, q))
  BY <1>1, <1>2, EnsureUsageKept, KeptTrans
<1>4. set_hold_input(S, q, hold) \in {T, ensure_usage(T, q)}
  BY DEF set_hold_input, T
<1> QED
  BY <1>2, <1>3, <1>4

LEMMA ForceInputKept ==
  ASSUME NEW S \in Good, NEW p \in Objids, NEW line \in Lines, NEW front \in BOOLEAN
  PROVE  Kept(S, force_input(S, p, line, front)) /\ Kept(S, flush_player(S, p))
<1> DEFINE M == with_tqueue(S, p)
           q == find_tqueue(M, p)
<1>1. M \in Good /\ q \in Queues \cup {Null} /\ Kept(S, M)
  BY MadeType, WithTqueueKept
<1>2. /\ force_input(S, p, line, front) =
           IF q = Null THEN M ELSE enqueue_input_task(M, q, line, front)
      /\ flush_player(S, p) = IF q = Null THEN M ELSE flush_input(M, q)
  BY DEF force_input, flush_player
<1> HIDE DEF M, q
<1>3. q # Null => /\ Kept(S, enqueue_input_task(M, q, line, front))
                  /\ Kept(S, flush_input(M, q))
  BY <1>1, EnqueueInputKept, FlushInputKept, KeptTrans
<1> QED
  BY <1>1, <1>2, <1>3

LEMMA EnqueueWaitingKept ==
  ASSUME NEW S \in Good, NEW t \in Tasks
  PROVE  Kept(S, enqueue_waiting(S, t))
<1> DEFINE M == with_tqueue(S, t.progr)
           q == find_tqueue(M, t.progr)
           before == {i \in 1..Len(S.waiting) :
                        \A j \in 1..i : S.waiting[j].start <= t.start}
           w == InsertAfter(M.waiting, Cardinality(before), t)
<1>1. M \in Good /\ Kept(S, M)
  BY MadeType, WithTqueueKept DEF Tasks
<1>2. /\ enqueue_waiting(S, t).active = M.active
      /\ enqueue_waiting(S, t).sh = M.sh
  <2>1. \A r : /\ [M EXCEPT !.tq[r].num = @ + 1, !.waiting = w].active = M.active
               /\ [M EXCEPT !.tq[r].num = @ + 1, !.waiting = w].sh = M.sh
    <3> HIDE DEF M, w
    <3> QED
      BY <1>1 DEF Good, States
  <2>2. enqueue_waiting(S, t) = IF q = Null THEN M
                                ELSE [M EXCEPT !.tq[q].num = @ + 1, !.waiting = w]
    BY DEF enqueue_waiting
  <2> HIDE DEF M, q, w
  <2> QED
    BY <2>1, <2>2
<1> HIDE DEF M
<1> QED
  BY <1>1, <1>2 DEF Kept, HeadKept, OpenKept

LEMMA KillKept ==
  ASSUME NEW S \in Good
  PROVE  /\ \A i \in 1..Len(S.waiting) : Kept(S, kill_waiting(S, i))
         /\ \A q \in Queues : Kept(S, kill_reader(S, q))
         /\ \A q \in Queues : \A i \in 1..Len(S.tq[q].bg) : Kept(S, kill_bg(S, q, i))
         /\ \A q \in Queues : Kept(S, dequeue_bg_task(S, q))
<1>1. \A i \in 1..Len(S.waiting) :
        kill_waiting(S, i).active = S.active /\ kill_waiting(S, i).sh = S.sh
  BY DEF kill_waiting, Good, States
<1>2. \A q \in Queues : kill_reader(S, q).active = S.active /\ kill_reader(S, q).sh = S.sh
  BY DEF kill_reader, Good, States
<1>3. \A q \in Queues : \A i \in 1..Len(S.tq[q].bg) :
        kill_bg(S, q, i).active = S.active /\ kill_bg(S, q, i).sh = S.sh
  BY DEF kill_bg, Good, States
<1>4. \A q \in Queues :
        dequeue_bg_task(S, q).active = S.active /\ dequeue_bg_task(S, q).sh = S.sh
  BY DEF dequeue_bg_task, Good, States
<1> QED
  BY <1>1, <1>2, <1>3, <1>4, KeptSame

LEMMA ResumeWaitingKept ==
  ASSUME NEW S \in Good, NEW i \in 1..Len(S.waiting), NEW n \in Nat
  PROVE  Kept(S, resume_waiting(S, i, n))
<1> DEFINE t == [S.waiting[i] EXCEPT !.start = n]
           M == with_tqueue(S, t.progr)
           q == find_tqueue(M, t.progr)
           W == [M EXCEPT !.waiting = RemoveIndex(M.waiting, i)]
           E == ensure_usage(W, q)
<1>1. t.progr \in Objids
  BY WaitingType DEF Tasks
<1>2. M \in Good /\ q \in Queues \cup {Null} /\ Kept(S, M)
  BY <1>1, MadeType, WithTqueueKept
<1>3. RemoveIndex(M.waiting, i) \in Seq(Tasks)
  BY WithTqueueWaiting, WaitingType, RemoveIndexType
<1>4. resume_waiting(S, i, n) = IF q = Null THEN M ELSE enqueue_bg_task(E, q, t)
  BY DEF resume_waiting
<1> HIDE DEF t, M, q
<1>5. W \in Good /\ Kept(S, W)
  <2>1. Kept(M, W)
    BY <1>2, KeptSame DEF Good, States
  <2> QED
    BY <1>2, <1>3, <2>1, SetWaitingType, KeptTrans
<1> HIDE DEF W
<1>6. q # Null => E \in Good /\ Kept(S, E)
  BY <1>2, <1>5, EnsureUsageType, EnsureUsageKept, KeptTrans
<1> HIDE DEF E
<1>7. q # Null => Kept(E, enqueue_bg_task(E, q, t))
  <2>1. q # Null => /\ enqueue_bg_task(E, q, t).active = E.active
                    /\ enqueue_bg_task(E, q, t).sh = E.sh
    BY <1>6 DEF enqueue_bg_task, Good, States
  <2> QED
    BY <2>1, KeptSame
<1> QED
  BY <1>2, <1>4, <1>6, <1>7, KeptTrans

LEMMA MakeReadingKept ==
  ASSUME NEW S \in Good, NEW q \in Queues, NEW t \in Tasks
  PROVE  Kept(S, make_reading_task(S, q, t))
<1> DEFINE T == [S EXCEPT !.tq[q].reader = t]
<1>1. T \in Good
  BY SetReaderType
<1>2. Kept(S, T)
  <2>1. T.active = S.active /\ T.sh = S.sh
    BY DEF Good, States
  <2> QED
    BY <2>1, KeptSame
<1> HIDE DEF T
<1>3. Kept(S, ensure_usage(T, q))
  BY <1>1, <1>2, EnsureUsageKept, KeptTrans
<1>4. make_reading_task(S, q, t) \in {T, ensure_usage(T, q)}
  BY DEF make_reading_task, T
<1> QED
  BY <1>2, <1>3, <1>4

LEMMA NewConnectionKept ==
  ASSUME NEW S \in Good, NEW h \in Handles, NEW outbound \in BOOLEAN
  PROVE  Kept(S, server_new_connection(S, h, outbound))
<1> DEFINE M == with_tqueue(S, ConnId(h))
           q == find_tqueue(M, ConnId(h))
           s == [NoHandle EXCEPT !.open = TRUE, !.player = ConnId(h), !.tasks = q,
                                 !.outbound = outbound]
           C == [M EXCEPT !.tq[q].connected = TRUE]
           O == [M EXCEPT !.tq[q].connected = TRUE, !.sh[h] = s]
           E == enqueue_input_task(O, q, "blank", FALSE)
<1>1. M \in Good /\ q \in Queues \cup {Null} /\ Kept(S, M)
  BY ConnIdType, MadeType, WithTqueueKept
<1>2. server_new_connection(S, h, outbound) =
        IF q = Null THEN M ELSE IF outbound THEN O ELSE task_suspend_input(E, q)
  BY DEF server_new_connection
<1>3. CASE q # Null
  <2>1. q \in Queues
    BY <1>1, <1>3
  <2>2. s \in SHandles /\ s.tasks = q /\ s.open
    <3> HIDE DEF M, q
    <3> QED
      BY <2>1, ConnIdType DEF SHandles, NoHandle
  <2> HIDE DEF M, q, s
  <2>3. C \in Good
    BY <1>1, <2>1, SetFlagType
  <2>4. O \in Good
    <3> HIDE DEF C
    <3>1. [C EXCEPT !.sh[h] = s] \in Good
      BY <2>1, <2>2, <2>3 DEF Good, States
    <3> QED
      BY <3>1 DEF C
  <2>5. O.active = M.active /\ O.sh = [M.sh EXCEPT ![h] = s]
    BY <1>1 DEF Good, States
  <2>6. Kept(S, O)
    <3> HIDE DEF O
    <3>1. M.sh \in [Handles -> SHandles]
      BY <1>1 DEF Good, States
    <3>2. Kept(M, O)
      BY <2>2, <2>5, <3>1 DEF Kept, HeadKept, OpenKept
    <3> QED
      BY <1>1, <3>2, KeptTrans
  <2> HIDE DEF O
  <2>7. E \in Good /\ Kept(S, E)
    <3>1. E \in Good /\ Kept(O, E)
      BY <2>1, <2>4, EnqueueInputType, EnqueueInputKept DEF Lines
    <3> QED
      BY <2>6, <3>1, KeptTrans
  <2> HIDE DEF E
  <2>8. Kept(S, task_suspend_input(E, q))
    BY <2>1, <2>7, TaskSuspendInputKept, KeptTrans
  <2> QED
    BY <1>2, <1>3, <2>6, <2>8
<1> HIDE DEF M, q, O, E
<1> QED
  BY <1>1, <1>2, <1>3

LEMMA MoveBgKept ==
  ASSUME NEW S \in Good, NEW q \in Queues, NEW old \in Objids
  PROVE  Kept(S, move_bg_to_old_player(S, q, old))
<1> DEFINE M == with_tqueue(S, old)
           o == find_tqueue(M, old)
           N == [M EXCEPT !.tq[o].bg = @ \o S.tq[q].bg, !.tq[o].num = S.tq[q].num,
                          !.tq[q].bg = <<>>, !.tq[q].num = 0]
<1>1. M \in Good /\ Kept(S, M)
  BY MadeType, WithTqueueKept
<1>2. N.active = M.active /\ N.sh = M.sh
  <2> HIDE DEF M, o
  <2> QED
    BY <1>1 DEF Good, States
<1>3. move_bg_to_old_player(S, q, old) =
        IF S.tq[q].num = 0 THEN S ELSE IF o = Null THEN M ELSE N
  BY DEF move_bg_to_old_player
<1> HIDE DEF M, o, N
<1>4. Kept(M, N) /\ Kept(S, S)
  BY <1>2, KeptSame
<1> QED
  BY <1>1, <1>3, <1>4, KeptTrans

LEMMA TakeOverKept ==
  ASSUME NEW S \in Good, NEW q \in Queues, NEW dead \in Queues \cup {Null}
  PROVE  Kept(S, take_over_queue(S, q, dead))
<1> DEFINE F == flush_input(S, dead)
           N == [F EXCEPT !.tq[q].bg = @ \o S.tq[dead].bg, !.tq[q].num = S.tq[dead].num,
                          !.tq[dead].bg = <<>>, !.tq[dead].num = 0,
                          !.tq[dead].player = NOTHING]
<1>1. take_over_queue(S, q, dead) = IF dead = Null THEN S ELSE N
  BY DEF take_over_queue
<1>2. CASE dead # Null
  <2>1. F \in Good /\ Kept(S, F)
    BY <1>2, FlushInputType, FlushInputKept
  <2>2. N.active = F.active /\ N.sh = F.sh
    <3> HIDE DEF F
    <3> QED
      BY <2>1 DEF Good, States
  <2> HIDE DEF F, N
  <2> QED
    BY <1>1, <1>2, <2>1, <2>2, KeptSame, KeptTrans
<1> HIDE DEF N
<1> QED
  BY <1>1, <1>2, KeptSame

LEMMA FreeShandleHead ==
  ASSUME NEW S \in Good, NEW h \in Handles, S.sh[h].open
  PROVE  HeadKept(S, free_shandle(S, h))
<1> DEFINE q == S.sh[h].tasks
           C == [S EXCEPT !.sh[h] = NoHandle]
           D == [C EXCEPT !.tq[q].connected = FALSE]
<1>1. NoHandle \in SHandles /\ ~NoHandle.open
  BY NewTypes DEF NoHandle, SHandles
<1>2. C \in Good /\ C.active = S.active
  BY <1>1 DEF Good, States
<1>3. q \in Queues
  BY DEF Good
<1> HIDE DEF q, C
<1>4. D \in Good /\ D.active = C.active
  <2>1. D \in Good
    BY <1>2, <1>3, SetFlagType
  <2> QED
    BY <1>2, <2>1 DEF Good, States
<1>5. free_shandle(S, h) = IF reading(C, q) THEN ensure_usage(D, q) ELSE D
  BY DEF free_shandle, free_task_queue, q, C
<1> HIDE DEF D
<1> QED
  BY <1>2, <1>3, <1>4, <1>5, EnsureUsageKept DEF Kept, HeadKept

LEMMA PlayerConnectedHead ==
  ASSUME NEW S \in Good, NEW old \in Objids, NEW new \in Objids
  PROVE  HeadKept(S, player_connected(S, old, new))
<1> DEFINE g == find_shandle(S, new)
           nh == find_shandle(S, old)
           h2 == [S.sh EXCEPT ![nh].player = new, ![nh].login = TRUE]
           N == [S EXCEPT !.sh[nh].player = new, !.sh[nh].login = TRUE]
<1>1. player_connected(S, old, new) =
        IF nh = Null THEN [S EXCEPT !.panic = TRUE]
        ELSE IF g = Null THEN N ELSE free_shandle(N, g)
  BY DEF player_connected
<1>2. [S EXCEPT !.panic = TRUE].active = S.active
  BY DEF Good, States
<1>3. g \in Handles \cup {Null} /\ nh \in Handles \cup {Null}
      /\ (g # Null => S.sh[g].open)
  BY FindShandleType
<1> HIDE DEF nh, g
<1>4. CASE nh # Null
  <2> DEFINE h1 == [S.sh EXCEPT ![nh].player = new]
             k2 == [h1 EXCEPT ![nh].login = TRUE]
  <2>1. nh \in Handles
    BY <1>3, <1>4
  <2>2. /\ h1 \in [Handles -> SHandles]
        /\ \A h \in Handles : h1[h].open = S.sh[h].open /\ h1[h].tasks = S.sh[h].tasks
    BY <2>1, SMTT(40) DEF Good, States, SHandles
  <2> HIDE DEF h1
  <2>3. k2 \in [Handles -> SHandles]
    BY <2>1, <2>2, ZenonT(40) DEF SHandles
  <2>4. \A h \in Handles : k2[h].open = S.sh[h].open /\ k2[h].tasks = S.sh[h].tasks
    BY <2>1, <2>2 DEF SHandles
  <2>5. N = [S EXCEPT !.sh = k2]
    BY DEF h1
  <2> HIDE DEF k2, N
  <2>6. N \in Good /\ N.sh = k2 /\ N.active = S.active
    BY <2>3, <2>4, <2>5 DEF Good, States
  <2>7. g # Null => HeadKept(N, free_shandle(N, g))
    BY <1>3, <2>4, <2>6, FreeShandleHead
  <2> QED
    BY <1>1, <1>4, <2>6, <2>7 DEF HeadKept
<1> HIDE DEF N
<1> QED
  BY <1>1, <1>2, <1>4 DEF HeadKept

\* A login never moves the queue that logs in from the front, whatever it wakes.
LEMMA LogInHead ==
  ASSUME NEW S \in Good, NEW q \in Queues, NEW new \in Players
  PROVE  HeadKept(S, log_in(S, q, new))
<1> DEFINE old == S.tq[q].player
           dead == find_tqueue(S, new)
           N == [S EXCEPT !.tq[q].player = new]
           M == move_bg_to_old_player(N, q, old)
           T == take_over_queue(M, q, dead)
<1>1. old \in Objids /\ new \in Objids /\ dead \in Queues \cup {Null}
  BY QueueType, FindTqueueType DEF Objids, Progrs
<1>2. N \in Good /\ HeadKept(S, N)
  <2>1. N \in Good
    BY <1>1, SetPlayerType
  <2>2. N.active = S.active
    BY DEF Good, States
  <2> QED
    BY <2>1, <2>2 DEF HeadKept
<1> HIDE DEF N, old, dead
<1>3. M \in Good /\ HeadKept(N, M)
  BY <1>1, <1>2, MoveBgType, MoveBgKept DEF Kept
<1> HIDE DEF M
<1>4. T \in Good /\ HeadKept(M, T)
  BY <1>1, <1>3, TakeOverType, TakeOverKept DEF Kept
<1>5. log_in(S, q, new) = player_connected(T, old, new)
  BY DEF log_in, T, M, N, old, dead
<1> HIDE DEF T
<1>6. HeadKept(T, player_connected(T, old, new))
  BY <1>1, <1>4, PlayerConnectedHead
<1> QED
  BY <1>2, <1>3, <1>4, <1>5, <1>6 DEF HeadKept

-----------------------------------------------------------------------------
(* The inductive invariant.  TypeOK is not inductive alone: charge_usage()   *)
(* only cuts the active list where it should when the queue it charges is on *)
(* it, and a closed handle has no queue to free.                             *)

OnQueue == {"loop", "command", "login", "redirect"}

\* What a task owes the C code that waits for it
RunOK(S, r) ==
  /\ r.cont \in OnQueue => r.q \in Queues /\ S.active # <<>> /\ S.active[1] = r.q
  /\ r.cont \notin OnQueue => r.q = Null /\ r.h \in Handles /\ S.sh[r.h].open

TaskInv ==
  /\ TypeOK
  /\ ts \in Good
  /\ 1..conns \subseteq Handles
  /\ pc # "pull" => at \in 0..conns
  /\ pc = "task" => RunOK(ts, run)
  /\ pc = "task" /\ run.cont = "reap" => at > 0

Rest == <<valid, conns, now, start>>

LEMMA RunType ==
  ASSUME TypeOK
  PROVE  run.id \in Nat /\ run.progr \in Objids /\ run.cont \in Conts
BY DEF TypeOK, Runs

LEMMA RunOKKept ==
  ASSUME NEW S, NEW T, NEW r, RunOK(S, r), Kept(S, T)
  PROVE  RunOK(T, r)
BY DEF RunOK, Kept, HeadKept, OpenKept

LEMMA InitInv ==
  ASSUME Init
  PROVE  TaskInv
<1>1. NoHandle \in SHandles /\ ~NoHandle.open
  BY NewTypes DEF NoHandle, SHandles
<1>2. EmptyState \in Good
  BY <1>1, NewTypes DEF EmptyState, Good, States
<1>3. Idle \in Runs
  BY NewTypes DEF Idle, Runs, Conts
<1> QED
  BY <1>2, <1>3 DEF Init, TaskInv, TypeOK, PCs, Good

\* Starting a task whose C caller gets what it needs.
LEMMA StartInv ==
  ASSUME TaskInv, NEW S \in Good, NEW id \in Nat, NEW progr \in Objids, NEW cont \in Conts,
         NEW q \in Queues \cup {Null}, NEW h \in Handles \cup {Null},
         RunOK(S, [id |-> id, progr |-> progr, cont |-> cont, q |-> q, h |-> h]),
         Start(S, id, progr, cont, q, h), pc # "pull", cont = "reap" => at > 0,
         UNCHANGED <<valid, conns, at, now, start>>
  PROVE  TaskInv'
<1> DEFINE r == [id |-> id, progr |-> progr, cont |-> cont, q |-> q, h |-> h]
<1>1. r \in Runs /\ r.cont = cont
  BY DEF Runs
<1>2. ts' = S /\ pc' = "task" /\ run' = r
  BY DEF Start
<1> HIDE DEF r
<1>3. RunOK(ts', run')
  BY <1>2 DEF r
<1>4. S \in States
  BY DEF Good
<1> QED
  BY <1>1, <1>2, <1>3, <1>4 DEF TaskInv, TypeOK, PCs

LEMMA StartVerbInv ==
  ASSUME TaskInv, NEW S \in Good, NEW cont \in Conts,
         NEW q \in Queues \cup {Null}, NEW h \in Handles \cup {Null},
         cont \in OnQueue => q \in Queues /\ S.active # <<>> /\ S.active[1] = q,
         cont \notin OnQueue => q = Null /\ h \in Handles /\ S.sh[h].open,
         StartVerb(S, cont, q, h), pc # "pull", cont = "reap" => at > 0,
         UNCHANGED <<valid, conns, at, now, start>>
  PROVE  TaskInv'
<1>1. new_task_id(IdsIn(S)) \in Nat
  BY BoundsAssumption DEF StartVerb, new_task_id
<1>2. PICK progr \in Verbs : Start(S, new_task_id(IdsIn(S)), progr, cont, q, h)
  BY DEF StartVerb
<1>3. progr \in Objids
  BY BoundsAssumption DEF Objids
<1> DEFINE id == new_task_id(IdsIn(S))
<1>4. RunOK(S, [id |-> id, progr |-> progr, cont |-> cont, q |-> q, h |-> h])
  <2> HIDE DEF id
  <2> QED
    BY DEF RunOK
<1> QED
  BY <1>1, <1>2, <1>3, <1>4, StartInv

\* run_ready_tasks() charges the queue at the front.
LEMMA ReturnInv ==
  ASSUME TaskInv, NEW S \in Good, NEW q \in Queues, S.active # <<>>, S.active[1] = q,
         Return(S, q), pc # "pull", UNCHANGED at, UNCHANGED Rest
  PROVE  TaskInv'
<1>1. q \in Elems(S.active)
  <2>1. S.active \in Seq(Queues)
    BY DEF Good, States
  <2>2. 1 \in 1..Len(S.active)
    BY <2>1
  <2> QED
    BY <2>2 DEF Elems
<1>2. now - start \in Int
  BY DEF TaskInv, TypeOK
<1>3. charge_usage(S, q, now - start) \in Good
  BY <1>1, <1>2, ChargeUsageType
<1>4. Idle \in Runs
  BY NewTypes DEF Idle, Runs, Conts
<1>5. ts' \in Good /\ pc' = "sweep" /\ run' = Idle
  BY <1>3 DEF Return
<1> QED
  BY <1>4, <1>5 DEF TaskInv, TypeOK, PCs, Rest, Good

\* The running task gives control back, having kept what its caller relies on.
LEMMA ResumeInv ==
  ASSUME TaskInv, pc = "task", NEW S \in Good, Kept(ts, S), Resume(S), UNCHANGED Rest
  PROVE  TaskInv'
<1>1. RunOK(S, run)
  BY RunOKKept DEF TaskInv
<1>2. run.cont \in Conts
  BY RunType DEF TaskInv
<1>3. CASE run.cont \in {"loop", "command", "login"}
  <2>1. Return(S, run.q) /\ UNCHANGED at
    BY <1>3 DEF Resume
  <2>2. run.q \in Queues /\ S.active # <<>> /\ S.active[1] = run.q
    BY <1>1, <1>3 DEF RunOK, OnQueue
  <2> QED
    BY <2>1, <2>2, ReturnInv
<1>4. CASE run.cont = "redirect"
  <2>1. StartVerb(S, "loop", run.q, Null) /\ UNCHANGED at
    BY <1>4 DEF Resume
  <2>2. run.q \in Queues /\ S.active # <<>> /\ S.active[1] = run.q
    BY <1>1, <1>4 DEF RunOK, OnQueue
  <2> QED
    BY <2>1, <2>2, StartVerbInv DEF OnQueue, Conts, Rest
<1>5. CASE run.cont \in {"close", "reap"}
  <2>1. run.h \in Handles /\ S.sh[run.h].open
    BY <1>1, <1>5 DEF RunOK, OnQueue
  <2>2. free_shandle(S, run.h) \in Good
    BY <2>1, FreeShandleType
  <2>3. Idle \in Runs
    BY NewTypes DEF Idle, Runs, Conts
  <2>4. /\ ts' = free_shandle(S, run.h)
        /\ pc' \in {"io", "reap"}
        /\ run' = Idle
        /\ at' = at \/ (run.cont = "reap" /\ at' = at - 1)
    BY <1>5 DEF Resume
  <2>5. ts' \in Good
    BY <2>2, <2>4
  <2>6. at \in 0..conns /\ (run.cont = "reap" => at > 0)
    BY DEF TaskInv
  <2>7. at' \in 0..conns
    BY <2>4, <2>6 DEF TaskInv, TypeOK
  <2> QED
    BY <2>3, <2>4, <2>5, <2>7 DEF TaskInv, TypeOK, PCs, Rest, Good
<1> QED
  BY <1>2, <1>3, <1>4, <1>5 DEF Conts

-----------------------------------------------------------------------------
(* One lemma for each disjunct of Next. *)

LEMMA HandleSet ==
  ASSUME NEW S \in Good, NEW h \in Handles, NEW d \in BOOLEAN
  PROVE  [S EXCEPT !.sh[h].disc = d] \in Good /\ Kept(S, [S EXCEPT !.sh[h].disc = d])
<1> DEFINE f == [S.sh EXCEPT ![h].disc = d]
           T == [S EXCEPT !.sh[h].disc = d]
<1>1. /\ f \in [Handles -> SHandles]
      /\ \A g \in Handles : f[g].open = S.sh[g].open /\ f[g].tasks = S.sh[g].tasks
  BY DEF Good, States, SHandles
<1>2. T = [S EXCEPT !.sh = f]
  OBVIOUS
<1> HIDE DEF f, T
<1>3. T \in Good
  BY <1>1, <1>2 DEF Good, States
<1>4. T.active = S.active /\ T.sh = f
  BY <1>2 DEF Good, States
<1>5. Kept(S, T)
  BY <1>1, <1>4 DEF Kept, HeadKept, OpenKept
<1> QED
  BY <1>3, <1>5 DEF T

LEMMA NetworkInv ==
  ASSUME TaskInv, Network
  PROVE  TaskInv'
<1>1. CASE Accept
  <2>1. conns + 1 \in Handles /\ conns' = conns + 1 /\ conns \in Nat
    BY <1>1 DEF Accept, TaskInv, TypeOK
  <2>2. ts' \in Good
    BY <1>1, <2>1, NewConnectionType DEF Accept, TaskInv
  <2>3. 1..conns' \subseteq Handles
    BY <2>1 DEF TaskInv
  <2>4. at \in 0..conns /\ pc = "io"
    BY <1>1 DEF Accept, TaskInv
  <2>5. at' \in 0..conns'
    <3>1. at' = at
      BY <1>1 DEF Accept
    <3> QED
      BY <2>1, <2>4, <3>1
  <2>6. UNCHANGED <<pc, run, valid, at, now, start>> /\ conns' \in Nat /\ ts' \in States
    <3>1. UNCHANGED <<pc, run, valid, at, now, start>>
      BY <1>1 DEF Accept
    <3>2. conns' \in Nat
      BY <2>1
    <3>3. ts' \in States
      BY <2>2 DEF Good
    <3> QED
      BY <3>1, <3>2, <3>3
  <2>7. TypeOK'
    <3>1. TypeOK
      BY SMTT(40) DEF TaskInv
    <3> QED
      BY <2>6, <3>1 DEF TypeOK
  <2> QED
    BY <2>2, <2>3, <2>4, <2>5, <2>6, <2>7 DEF TaskInv
<1>2. ASSUME NEW h \in Handles, NEW line \in Typed \cup {"flush"}, ReceiveLine(h, line)
      PROVE  TaskInv'
  <2>1. ts \in Good /\ ts.sh[h].tasks \in Queues
    BY <1>2 DEF ReceiveLine, TaskInv, Good
  <2>2. line # "flush" => line \in Lines
    BY BoundsAssumption
  <2>3. ts' \in Good
    BY <1>2, <2>1, <2>2, FlushInputType, EnqueueInputType DEF ReceiveLine
  <2>4. at' \in Nat /\ pc' = "pull"
    BY <1>2, ConstantsAssumption DEF ReceiveLine
  <2> QED
    BY <1>2, <2>3, <2>4 DEF ReceiveLine, TaskInv, TypeOK, PCs, Good
<1>3. CASE EndOfRead
  BY <1>3 DEF EndOfRead, TaskInv, TypeOK, PCs
<1>4. ASSUME NEW h \in Handles, ClientGone(h)
      PROVE  TaskInv'
  <2> DEFINE S == [ts EXCEPT !.sh[h].disc = TRUE]
  <2>1. ts \in Good /\ ts.sh[h].open
    BY <1>4 DEF ClientGone, TaskInv
  <2>2. S \in Good /\ Kept(ts, S)
    BY <2>1, HandleSet
  <2>3. S.sh[h].open
    <3> HIDE DEF S
    <3> QED
      BY <2>1, <2>2 DEF Kept, OpenKept
  <2>4. StartVerb(S, "close", Null, h) /\ UNCHANGED <<valid, conns, at, now, start>> /\ pc = "io"
    BY <1>4 DEF ClientGone
  <2> HIDE DEF S
  <2> QED
    BY <2>2, <2>3, <2>4, StartVerbInv DEF OnQueue, Conts
<1> QED
  BY <1>1, <1>2, <1>3, <1>4 DEF Network

LEMMA ClockInv ==
  ASSUME TaskInv, Tick \/ RunReadyTasks
  PROVE  TaskInv'
BY DEF Tick, RunReadyTasks, TaskInv, TypeOK, PCs

LEMMA ReadyWaitingInv ==
  ASSUME TaskInv, ReadyWaiting
  PROVE  TaskInv'
<1>1. ts' \in Good /\ pc' \in {"ready", "pick"} /\ pc = "ready"
  BY ReadyFirstWaitingType DEF ReadyWaiting, TaskInv, TypeOK
<1> QED
  BY <1>1 DEF ReadyWaiting, TaskInv, TypeOK, PCs, Good

\* Every task run_ready_tasks() starts is on the first active queue.
LEMMA PickInv ==
  ASSUME TaskInv, Pick
  PROVE  TaskInv'
<1>1. ts \in Good /\ ts.active \in Seq(Queues)
  BY DEF TaskInv, Good, States
<1>2. Picking => head \in Queues
  BY <1>1 DEF Picking, head
<1>3. Picking => pc = "pick"
  BY DEF Picking
<1> DEFINE D == dequeue_input_task(ts, head)
<1>4. Picking /\ at_input =>
        D \in Good /\ D.active # <<>> /\ D.active[1] = head
  <2> SUFFICES ASSUME Picking, at_input
               PROVE  D \in Good /\ D.active # <<>> /\ D.active[1] = head
    OBVIOUS
  <2>1. ts.tq[head].input # <<>> /\ ts.active # <<>>
    BY DEF at_input, Picking
  <2>2. D \in Good /\ Kept(ts, D)
    BY <1>1, <1>2, <2>1, DequeueInputType, DequeueInputKept
  <2> HIDE DEF D
  <2> QED
    BY <2>1, <2>2 DEF Kept, HeadKept, head
<1> HIDE DEF D
<1>5. \A S \in Good : Picking =>
        LET T == [S EXCEPT !.tq[head].reader = NoTask]
        IN T \in Good /\ T.active = S.active
  <2> TAKE S \in Good
  <2> HAVE Picking
  <2>1. head \in Queues
    BY <1>2
  <2> DEFINE T == [S EXCEPT !.tq[head].reader = NoTask]
  <2>2. T \in Good
    BY <2>1, NewTypes, SetReaderType
  <2>3. T.active = S.active
    BY DEF Good, States
  <2> QED
    BY <2>2, <2>3
<1>6. Picking => ts.tq[head].reader.id \in Nat /\ ts.tq[head].reader.progr \in Objids
  BY <1>1, <1>2 DEF Good, States, TQueues, Tasks
<1>7. CASE ResumeOrphan
  <2> DEFINE t == ts.tq[head].reader
             S == [ts EXCEPT !.tq[head].reader = NoTask]
  <2>1. Picking /\ Start(S, t.id, t.progr, "loop", head, Null)
    BY <1>7 DEF ResumeOrphan
  <2>2. S \in Good /\ S.active # <<>> /\ S.active[1] = head
    BY <1>1, <1>5, <2>1 DEF Picking, head
  <2>3. RunOK(S, [id |-> t.id, progr |-> t.progr, cont |-> "loop", q |-> head, h |-> Null])
    <3> HIDE DEF S, t
    <3> QED
      BY <1>2, <2>1, <2>2 DEF RunOK, OnQueue
  <2>4. UNCHANGED <<valid, conns, at, now, start>>
    BY <1>7 DEF ResumeOrphan
  <2>5. t.id \in Nat /\ t.progr \in Objids
    BY <1>6, <2>1
  <2> HIDE DEF S, t
  <2> QED
    BY <1>2, <1>3, <2>1, <2>2, <2>3, <2>4, <2>5, StartInv DEF Conts
<1>8. CASE RunOutOfBand
  BY <1>2, <1>3, <1>4, <1>8, StartVerbInv DEF RunOutOfBand, D, Conts, OnQueue
<1>9. CASE ResumeReader
  <2> DEFINE t == ts.tq[head].reader
             S == [D EXCEPT !.tq[head].reader = NoTask]
  <2>1. Picking /\ at_input /\ Start(S, t.id, t.progr, "loop", head, Null)
    BY <1>9 DEF ResumeReader, D
  <2>2. S \in Good /\ S.active # <<>> /\ S.active[1] = head
    BY <1>4, <1>5, <2>1
  <2>3. RunOK(S, [id |-> t.id, progr |-> t.progr, cont |-> "loop", q |-> head, h |-> Null])
    <3> HIDE DEF S, t
    <3> QED
      BY <1>2, <2>1, <2>2 DEF RunOK, OnQueue
  <2>4. UNCHANGED <<valid, conns, at, now, start>>
    BY <1>9 DEF ResumeReader
  <2>5. t.id \in Nat /\ t.progr \in Objids
    BY <1>6, <2>1
  <2> HIDE DEF S, t
  <2> QED
    BY <1>2, <1>3, <2>1, <2>2, <2>3, <2>4, <2>5, StartInv DEF Conts
<1>10. CASE RunLine
  BY <1>2, <1>3, <1>4, <1>10, StartVerbInv DEF RunLine, D, Conts, OnQueue
<1>11. CASE BlankLine
  BY <1>4, <1>11 DEF BlankLine, D, Picking, TaskInv, TypeOK, Good
<1>12. CASE IntrinsicCommand
  BY <1>2, <1>3, <1>4, <1>12, ReturnInv DEF IntrinsicCommand, D, Rest
<1>13. CASE RunBackground
  <2> DEFINE t == ts.tq[head].bg[1]
             S == dequeue_bg_task(ts, head)
  <2>1. Picking /\ ts.tq[head].bg # <<>> /\ Start(S, t.id, t.progr, "loop", head, Null)
    BY <1>13 DEF RunBackground
  <2>2. S \in Good /\ Kept(ts, S)
    BY <1>1, <1>2, <2>1, DequeueBgType, KillKept
  <2>3. t \in Tasks
    <3>1. ts.tq[head].bg \in Seq(Tasks)
      BY <1>1, <1>2, <2>1, QueueType
    <3> QED
      BY <2>1, <3>1
  <2>4. t.id \in Nat /\ t.progr \in Objids
    BY <2>3 DEF Tasks
  <2> HIDE DEF S, t
  <2>5. S.active # <<>> /\ S.active[1] = head
    BY <2>1, <2>2 DEF Picking, head, Kept, HeadKept
  <2>6. RunOK(S, [id |-> t.id, progr |-> t.progr, cont |-> "loop", q |-> head, h |-> Null])
    BY <1>2, <2>1, <2>5 DEF RunOK, OnQueue
  <2>7. UNCHANGED <<valid, conns, at, now, start>>
    BY <1>13 DEF RunBackground
  <2> QED
    BY <1>2, <1>3, <2>1, <2>2, <2>4, <2>6, <2>7, StartInv DEF Conts
<1>14. CASE GoIdle
  <2> DEFINE S == [ts EXCEPT !.active = Tail(ts.active)]
  <2>1. Picking /\ ts' = deactivate_tqueue(S, head)
    BY <1>14 DEF GoIdle
  <2>2. Tail(ts.active) \in Seq(Queues)
    BY <1>1, <2>1, HeadTailProperties DEF Picking
  <2>3. S \in Good
    BY <1>1, <2>2 DEF Good, States
  <2> HIDE DEF S
  <2>4. ts' \in Good
    BY <1>2, <2>1, <2>3, DeactivateType
  <2> QED
    BY <1>14, <2>4 DEF GoIdle, Picking, TaskInv, TypeOK, Good
<1>15. CASE NothingToRun
  BY <1>15 DEF NothingToRun, TaskInv, TypeOK, PCs
<1> QED
  BY <1>7, <1>8, <1>9, <1>10, <1>11, <1>12, <1>13, <1>14, <1>15 DEF Pick

LEMMA FreeIdleInv ==
  ASSUME TaskInv, FreeIdle
  PROVE  TaskInv'
<1>1. ts' \in Good
  BY FreeIdleType DEF FreeIdle, TaskInv
<1>2. at' = conns /\ conns \in Nat
  BY DEF FreeIdle, TaskInv, TypeOK
<1> QED
  BY <1>1, <1>2 DEF FreeIdle, TaskInv, TypeOK, PCs, Good

LEMMA SweepInv ==
  ASSUME TaskInv, Sweep
  PROVE  TaskInv'
<1>1. pc = "reap" => at \in 0..conns
  BY DEF TaskInv
<1>2. pc = "reap" /\ at > 0 => at \in Handles
  BY <1>1 DEF TaskInv, TypeOK
<1>3. CASE ReapSkip
  BY <1>1, <1>3 DEF ReapSkip, ReapNext, TaskInv, TypeOK
<1>4. CASE ReapRecycled
  <2>1. ts' \in Good
    BY <1>2, <1>4, FreeShandleType DEF ReapRecycled, TaskInv
  <2>2. pc = "reap" /\ at > 0 /\ at' = at - 1 /\ UNCHANGED <<pc, run>> /\ UNCHANGED Rest
    BY <1>4 DEF ReapRecycled, ReapNext, Rest
  <2> QED
    BY <1>1, <2>1, <2>2 DEF Rest, TaskInv, TypeOK, Good
<1>5. CASE ReapNotify
  <2>1. pc = "reap" /\ at > 0 /\ at \in Handles /\ ts.sh[at].open /\ ts \in Good
    BY <1>2, <1>5 DEF ReapNotify, TaskInv
  <2>2. StartVerb(ts, "reap", Null, at) /\ UNCHANGED <<valid, conns, at, now, start>>
    BY <1>5 DEF ReapNotify
  <2> QED
    BY <2>1, <2>2, StartVerbInv DEF OnQueue, Conts
<1>6. CASE ReapDone
  BY <1>6 DEF ReapDone, TaskInv, TypeOK, PCs
<1> QED
  BY <1>3, <1>4, <1>5, <1>6 DEF Sweep

LEMMA TaskReturnsInv ==
  ASSUME TaskInv, TaskReturns
  PROVE  TaskInv'
<1>1. CASE EndTask
  <2>1. pc = "task" /\ Resume(ts) /\ UNCHANGED Rest
    BY <1>1 DEF EndTask, Rest
  <2>2. Kept(ts, ts) /\ ts \in Good
    BY KeptSame DEF TaskInv
  <2> QED
    BY <2>1, <2>2, ResumeInv
<1>2. CASE CommandVerb
  <2>1. run.q \in Queues /\ ts.active # <<>> /\ ts.active[1] = run.q /\ ts \in Good
    BY <1>2 DEF CommandVerb, TaskInv, RunOK, OnQueue
  <2>2. /\ StartVerb(ts, "loop", run.q, Null)
        /\ pc = "task"
        /\ UNCHANGED <<valid, conns, at, now, start>>
    BY <1>2 DEF CommandVerb
  <2> QED
    BY <2>1, <2>2, StartVerbInv DEF OnQueue, Conts
<1>3. ASSUME NEW p \in Players, LogIn(p)
      PROVE  TaskInv'
  <2> DEFINE S == log_in(ts, run.q, p)
  <2>1. run.q \in Queues /\ ts.active # <<>> /\ ts.active[1] = run.q /\ ts \in Good
    BY <1>3 DEF LogIn, TaskInv, RunOK, OnQueue
  <2>2. S \in Good /\ HeadKept(ts, S)
    BY <2>1, LogInType, LogInHead
  <2>3. PICK cont \in {"loop", "redirect"} : StartVerb(S, cont, run.q, Null)
    BY <1>3 DEF LogIn
  <2>4. pc = "task" /\ UNCHANGED <<valid, conns, at, now, start>>
    BY <1>3 DEF LogIn
  <2> HIDE DEF S
  <2>5. S.active # <<>> /\ S.active[1] = run.q
    BY <2>1, <2>2 DEF HeadKept
  <2> QED
    BY <2>1, <2>2, <2>3, <2>4, <2>5, StartVerbInv DEF OnQueue, Conts
<1> QED
  BY <1>1, <1>2, <1>3 DEF TaskReturns

\* A builtin that returns to the task that called it.
LEMMA KeepInv ==
  ASSUME TaskInv, pc = "task", ts' \in Good, Kept(ts, ts'), UNCHANGED <<pc, run, at>>,
         valid' \subseteq Players, UNCHANGED <<now, start>>,
         conns' \in {conns, conns + 1}, 1..conns' \subseteq Handles
  PROVE  TaskInv'
<1>1. RunOK(ts', run)
  BY RunOKKept DEF TaskInv
<1>2. at \in 0..conns /\ conns \in Nat
  BY DEF TaskInv, TypeOK
<1>3. at' \in 0..conns' /\ conns' \in Nat
  BY <1>2
<1>4. TypeOK'
  BY <1>3 DEF TaskInv, TypeOK, Good
<1> QED
  BY <1>1, <1>3, <1>4 DEF TaskInv

LEMMA SuspendedType ==
  ASSUME TaskInv, NEW when \in Nat
  PROVE  Suspended(when) \in Tasks
BY RunType DEF Suspended, Tasks, Kinds, TaskInv

LEMMA AfterDelayType ==
  ASSUME TaskInv, NEW d \in Delays
  PROVE  AfterDelay(d) \in Nat
BY BoundsAssumption, ConstantsAssumption DEF AfterDelay, TaskInv, TypeOK

LEMMA BuiltinInv ==
  ASSUME TaskInv, Builtin
  PROVE  TaskInv'
<1>1. ts \in Good
  BY DEF TaskInv
<1>2. ASSUME ts' \in Good, Kept(ts, ts'), pc = "task", Keep
      PROVE  TaskInv'
  BY <1>2, KeepInv DEF Keep, TaskInv, TypeOK
<1>3. Progrs \subseteq Objids
  BY DEF Objids
<1>4. ASSUME NEW d \in Delays, Fork(d)
      PROVE  TaskInv'
  <2> DEFINE id == new_task_id(IdsIn(ts) \cup {run.id})
             t == [id |-> id, kind |-> "forked", progr |-> run.progr, start |-> AfterDelay(d)]
  <2>1. id \in Nat
    BY <1>4, BoundsAssumption DEF Fork, RoomForTask, new_task_id
  <2>2. t \in Tasks
    <3> HIDE DEF id
    <3> QED
      BY <2>1, RunType, AfterDelayType DEF TaskInv, Tasks, Kinds
  <2>3. ts' = enqueue_waiting(ts, t) /\ pc = "task" /\ Keep
    BY <1>4 DEF Fork, Calls
  <2> HIDE DEF t
  <2> QED
    BY <1>1, <1>2, <2>2, <2>3, EnqueueWaitingType, EnqueueWaitingKept
<1>5. ASSUME NEW d \in Delays, Suspend(d)
      PROVE  TaskInv'
  <2> DEFINE S == enqueue_waiting(ts, Suspended(AfterDelay(d)))
  <2>1. S \in Good /\ Kept(ts, S)
    BY <1>1, SuspendedType, AfterDelayType, EnqueueWaitingType, EnqueueWaitingKept
  <2>2. pc = "task" /\ Resume(S) /\ UNCHANGED Rest
    BY <1>5 DEF Suspend, Calls, Rest
  <2> HIDE DEF S
  <2> QED
    BY <2>1, <2>2, ResumeInv
<1>6. ASSUME NEW p \in Progrs, Read(p)
      PROVE  TaskInv'
  <2> DEFINE q == find_tqueue(ts, p)
             S == make_reading_task(ts, q, Suspended(0))
  <2>1. q \in Queues
    BY <1>1, <1>6, FindTqueueType DEF Read
  <2>2. S \in Good /\ Kept(ts, S)
    BY <1>1, <2>1, SuspendedType, MakeReadingType, MakeReadingKept
  <2>3. pc = "task" /\ Resume(S) /\ UNCHANGED Rest
    BY <1>6 DEF Read, Calls, Rest
  <2> HIDE DEF S
  <2> QED
    BY <2>2, <2>3, ResumeInv
<1>7. ASSUME NEW p \in Progrs, ReadInputNow(p)
      PROVE  TaskInv'
  <2> DEFINE q == find_tqueue(ts, p)
  <2>1. /\ q \in Queues
        /\ ts.tq[q].input # <<>>
        /\ ts' = dequeue_input_task(ts, q)
        /\ pc = "task"
        /\ Keep
    BY <1>1, <1>7, FindTqueueType DEF ReadInputNow, Calls
  <2> HIDE DEF q
  <2> QED
    BY <1>1, <1>2, <2>1, DequeueInputType, DequeueInputKept
<1>8. ASSUME NEW p \in Progrs, FlushInput(p)
      PROVE  TaskInv'
  <2>1. ts' = flush_player(ts, p) /\ pc = "task" /\ Keep
    BY <1>8 DEF FlushInput, Calls
  <2>2. flush_player(ts, p) \in Good /\ Kept(ts, flush_player(ts, p))
    BY <1>1, <1>3, ForceInputType, ForceInputKept DEF Lines
  <2> QED
    BY <1>2, <2>1, <2>2
<1>9. ASSUME NEW p \in Progrs, BootPlayer(p)
      PROVE  TaskInv'
  <2> DEFINE h == find_shandle(ts, p)
  <2>1. h \in Handles /\ ts' = [ts EXCEPT !.sh[h].disc = TRUE] /\ pc = "task" /\ Keep
    BY <1>1, <1>9, FindShandleType DEF BootPlayer, Calls
  <2> HIDE DEF h
  <2> QED
    BY <1>1, <1>2, <2>1, HandleSet
<1>10. ASSUME NEW p \in Progrs, Recycle(p)
       PROVE  TaskInv'
  <2>1. /\ pc = "task"
        /\ valid' = valid \ {p}
        /\ UNCHANGED <<ts, pc, run, conns, at, now, start>>
    BY <1>10 DEF Recycle, Calls
  <2>2. Kept(ts, ts') /\ valid' \subseteq Players
    BY <2>1, KeptSame DEF TaskInv, TypeOK
  <2> QED
    BY <1>1, <2>1, <2>2, KeepInv DEF TaskInv
<1>11. ASSUME NEW p \in Progrs, NEW line \in Typed, NEW f \in BOOLEAN, ForceInput(p, line, f)
       PROVE  TaskInv'
  <2>1. ts' = force_input(ts, p, line, f) /\ pc = "task" /\ Keep
    BY <1>11 DEF ForceInput, Calls
  <2>2. line \in Lines
    BY BoundsAssumption
  <2>3. force_input(ts, p, line, f) \in Good /\ Kept(ts, force_input(ts, p, line, f))
    BY <1>1, <1>3, <2>2, ForceInputType, ForceInputKept
  <2> QED
    BY <1>2, <2>1, <2>3
<1>12. ASSUME NEW p \in Progrs, NEW hold \in BOOLEAN, SetHoldInput(p, hold)
       PROVE  TaskInv'
  <2> DEFINE h == find_shandle(ts, p)
             q == ts.sh[h].tasks
  <2>1. /\ h \in Handles
        /\ ts.sh[h].open
        /\ ts' = set_hold_input(ts, q, hold)
        /\ pc = "task"
        /\ Keep
    BY <1>1, <1>12, FindShandleType DEF SetHoldInput, Calls
  <2>2. q \in Queues
    BY <1>1, <2>1 DEF Good
  <2> HIDE DEF q
  <2> QED
    BY <1>1, <1>2, <2>1, <2>2, SetHoldInputType, SetHoldInputKept
<1>13. ASSUME NEW i \in 1..Len(ts.waiting), KillWaiting(i)
       PROVE  TaskInv'
  <2>1. ts' = kill_waiting(ts, i) /\ pc = "task" /\ Keep
    BY <1>13 DEF KillWaiting, KillTask, Calls
  <2> QED
    BY <1>1, <1>2, <2>1, KillWaitingType, KillKept
<1>14. ASSUME NEW i \in 1..Len(ts.waiting), ResumeWaiting(i)
       PROVE  TaskInv'
  <2>1. ts' = resume_waiting(ts, i, now) /\ pc = "task" /\ Keep
    BY <1>14 DEF ResumeWaiting, Calls
  <2>2. now \in Nat
    BY DEF TaskInv, TypeOK
  <2> QED
    BY <1>1, <1>2, <2>1, <2>2, ResumeWaitingType, ResumeWaitingKept
<1>15. ASSUME NEW q \in Live(ts), KillReader(q)
       PROVE  TaskInv'
  <2>1. ts' = kill_reader(ts, q) /\ pc = "task" /\ Keep
    BY <1>15 DEF KillReader, KillTask, Calls
  <2>2. q \in Queues
    BY <1>1, LiveType
  <2> QED
    BY <1>1, <1>2, <2>1, <2>2, KillReaderType, KillKept
<1>16. ASSUME NEW q \in Elems(ts.active), NEW i \in 1..Len(ts.tq[q].bg), KillReady(q, i)
       PROVE  TaskInv'
  <2>1. ts' = kill_bg(ts, q, i) /\ pc = "task" /\ Keep
    BY <1>16 DEF KillReady, KillTask, Calls
  <2>2. q \in Queues
    BY <1>1, LiveType DEF Live
  <2> QED
    BY <1>1, <1>2, <2>1, <2>2, KillBgType, KillKept
<1>17. CASE OpenNetworkConnection
  <2>1. /\ pc = "task"
        /\ conns + 1 \in Handles
        /\ conns' = conns + 1
        /\ ts' = server_new_connection(ts, conns + 1, TRUE)
        /\ UNCHANGED <<pc, run, valid, at, now, start>>
    BY <1>17 DEF OpenNetworkConnection, Calls
  <2>2. ts' \in Good /\ Kept(ts, ts')
    BY <1>1, <2>1, NewConnectionType, NewConnectionKept
  <2>3. conns \in Nat /\ valid \subseteq Players
    BY DEF TaskInv, TypeOK
  <2>4. 1..conns' \subseteq Handles
    BY <2>1, <2>3 DEF TaskInv
  <2> QED
    BY <2>1, <2>2, <2>3, <2>4, KeepInv
<1> QED
  BY <1>4, <1>5, <1>6, <1>7, <1>8, <1>9, <1>10, <1>11, <1>12, <1>13, <1>14, <1>15,
     <1>16, <1>17 DEF Builtin

-----------------------------------------------------------------------------
\* The inductive invariant holds in every reachable state of the server.
THEOREM TaskInvariant == Spec => []TaskInv
<1>1. Init => TaskInv
  BY InitInv
<1>2. TaskInv /\ [Next]_vars => TaskInv'
  <2> SUFFICES ASSUME TaskInv, [Next]_vars PROVE TaskInv'
    OBVIOUS
  <2>1. CASE UNCHANGED vars
    BY <2>1 DEF vars, TaskInv, TypeOK
  <2>2. CASE Next
    BY <2>2, NetworkInv, ClockInv, ReadyWaitingInv, PickInv, FreeIdleInv, SweepInv,
       TaskReturnsInv, BuiltinInv DEF Next
  <2> QED
    BY <2>1, <2>2
<1> QED
  BY <1>1, <1>2, PTL DEF Spec

\* Type correctness: whatever is typed, forked, killed or closed, every queue,
\* handle and task keeps the shape its C declaration gives it.
THEOREM TypeCorrect == Spec => []TypeOK
<1>1. TaskInv => TypeOK
  BY DEF TaskInv
<1> QED
  BY <1>1, TaskInvariant, PTL

\* `active_tqueues = tq->next' in run_ready_tasks() unlinks the queue that ran and
\* no other: no builtin, login or redirect puts a queue in front of it.
THEOREM RunningQueueStaysFirst == Spec => []RunningQueueIsFirst
<1>1. TaskInv => RunningQueueIsFirst
  <2> SUFFICES ASSUME TaskInv, pc = "task", run.q # Null
               PROVE  ts.active # <<>> /\ ts.active[1] = run.q
    BY DEF RunningQueueIsFirst
  <2>1. RunOK(ts, run)
    BY DEF TaskInv
  <2>2. run.cont \in OnQueue
    BY <2>1 DEF RunOK
  <2> QED
    BY <2>1, <2>2 DEF RunOK
<1> QED
  BY <1>1, TaskInvariant, PTL
=============================================================================
