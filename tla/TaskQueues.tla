------------------------------ MODULE TaskQueues ------------------------------
(***************************************************************************)
(* The data structure of src/src/tasks.c and the part of the connection    *)
(* table of src/src/server.c it calls into: task queues, the idle list,    *)
(* the active list, the waiting list, and the handles of open connections. *)
(*                                                                         *)
(* Every static function of tasks.c that changes a queue is an operator    *)
(* from a state record S to the next one, so that a caller composes them   *)
(* in the order the C code calls them.  Module TaskServer makes the steps  *)
(* of the server out of them.                                              *)
(***************************************************************************)
EXTENDS Integers, Sequences, FiniteSets

CONSTANTS
  Players,        \* object numbers of users
  Wizards,        \* the players with the wizard bit
  Handles,        \* connections (shandles), numbered in order of arrival
  Queues,         \* addresses mymalloc() can give to a tqueue
  HiWat,          \* MAX_QUEUED_INPUT, in lines of length one
  TaskLimit,      \* queued_task_limit; -1 is "no limit"
  Forever         \* INT_MAX, the start time of a task suspended for good

ASSUME ConstantsAssumption ==
  /\ Players \subseteq Nat
  /\ Wizards \subseteq Players
  /\ Handles \subseteq Nat \ {0}
  /\ IsFiniteSet(Handles)
  /\ Queues \subseteq Nat \ {0}
  /\ HiWat \in Nat \ {0, 1}
  /\ TaskLimit \in Nat \cup {-1}
  /\ Forever \in Nat

NOTHING == -1
NO_USAGE == -1
Null == 0
LoWat == HiWat \div 2

\* next_unconnected_player-- : the h-th connection of the run is player -1-h.
ConnId(h) == NOTHING - h
Progrs == Players \cup {ConnId(h) : h \in Handles}
Objids == Progrs \cup {NOTHING}

\* Lines as server_receive_line() delivers them: a command, a line with the
\* out-of-band prefix, an empty line.  A flush command is never queued.
Lines == {"cmd", "oob", "blank"}
Length(line) == IF line = "blank" THEN 0 ELSE 1

Kinds == {"forked", "suspended", "none"}
Tasks == [id : Nat, kind : Kinds, progr : Objids, start : Nat]
NoTask == [id |-> 0, kind |-> "none", progr |-> NOTHING, start |-> 0]

\* num is num_bg_tasks, hold is hold_input, and reader is the vm of the task in
\* read(), or NoTask when the flag `reading' is off.
TQueues == [player : Objids, connected : BOOLEAN, input : Seq(Lines), len : Int,
            insusp : BOOLEAN, bg : Seq(Tasks), usage : Int, num : Int,
            hold : BOOLEAN, reader : Tasks]
NewTQueue == [player |-> NOTHING, connected |-> FALSE, input |-> <<>>, len |-> 0,
              insusp |-> FALSE, bg |-> <<>>, usage |-> NO_USAGE, num |-> 0,
              hold |-> FALSE, reader |-> NoTask]

\* suspended belongs to the network handle behind the shandle; login is
\* connection_time # 0; disc is disconnect_me.
SHandles == [open : BOOLEAN, player : Objids, tasks : Queues \cup {Null},
             disc : BOOLEAN, login : BOOLEAN, outbound : BOOLEAN,
             suspended : BOOLEAN]
NoHandle == [open |-> FALSE, player |-> NOTHING, tasks |-> Null, disc |-> FALSE,
             login |-> FALSE, outbound |-> FALSE, suspended |-> FALSE]

\* panic: the server dereferenced a null handle, or ran out of memory.
States == [tq : [Queues -> TQueues], idle : SUBSET Queues, active : Seq(Queues),
           waiting : Seq(Tasks), sh : [Handles -> SHandles], panic : BOOLEAN]
EmptyState == [tq |-> [q \in Queues |-> NewTQueue], idle |-> {}, active |-> <<>>,
               waiting |-> <<>>, sh |-> [h \in Handles |-> NoHandle],
               panic |-> FALSE]

-----------------------------------------------------------------------------
(* Finding handles and queues. *)

Elems(s) == {s[i] : i \in 1..Len(s)}
Live(S) == S.idle \cup Elems(S.active)

find_shandle(S, p) ==
  LET found == {h \in Handles : S.sh[h].open /\ S.sh[h].player = p}
  IN IF found = {} THEN Null ELSE CHOOSE h \in found : TRUE

find_tqueue(S, p) ==
  LET found == {q \in Live(S) : S.tq[q].player = p}
  IN IF found = {} THEN Null ELSE CHOOSE q \in found : TRUE

reading(S, q) == S.tq[q].reader # NoTask
is_out_of_input(S, q) == ~S.tq[q].connected /\ S.tq[q].input = <<>>

-----------------------------------------------------------------------------
(* The idle list and the active list. *)

deactivate_tqueue(S, q) ==
  [S EXCEPT !.tq[q].usage = NO_USAGE, !.idle = @ \cup {q}]

InsertAfter(s, k, e) == SubSeq(s, 1, k) \o <<e>> \o SubSeq(s, k + 1, Len(s))

\* Mutant: ties are LIFO.
Bug_activate_tqueue(S, q) ==
  LET before == {i \in 1..Len(S.active) :
                   \A j \in 1..i : S.tq[S.active[j]].usage < S.tq[q].usage}
  IN [S EXCEPT !.active = InsertAfter(@, Cardinality(before), q)]

\* Behind every queue of no higher usage: the list is sorted, ties are FIFO.
activate_tqueue(S, q) ==
  LET before == {i \in 1..Len(S.active) :
                   \A j \in 1..i : S.tq[S.active[j]].usage <= S.tq[q].usage}
  IN [S EXCEPT !.active = InsertAfter(@, Cardinality(before), q)]

\* Mutant: the queue stays on idle_tqueues.
Bug_ensure_usage(S, q) ==
  IF S.tq[q].usage # NO_USAGE THEN S
  ELSE LET u == IF S.active = <<>> THEN 0 ELSE S.tq[S.active[1]].usage
       IN activate_tqueue([S EXCEPT !.tq[q].usage = u], q)

ensure_usage(S, q) ==
  IF S.tq[q].usage # NO_USAGE THEN S
  ELSE LET u == IF S.active = <<>> THEN 0 ELSE S.tq[S.active[1]].usage
       IN activate_tqueue([S EXCEPT !.tq[q].usage = u, !.idle = @ \ {q}], q)

\* find_tqueue(p, 1): the state in which p has a queue.
with_tqueue(S, p) ==
  IF find_tqueue(S, p) # Null THEN S
  ELSE IF Queues \subseteq Live(S) THEN [S EXCEPT !.panic = TRUE]
  ELSE LET q == CHOOSE q \in Queues \ Live(S) : TRUE
       IN deactivate_tqueue([S EXCEPT !.tq[q] = [NewTQueue EXCEPT !.player = p]], q)

-----------------------------------------------------------------------------
(* Input and its flow control. *)

set_suspended(S, p, b) ==
  LET h == find_shandle(S, p)
  IN IF h = Null THEN [S EXCEPT !.panic = TRUE]
     ELSE [S EXCEPT !.sh[h].suspended = b]

\* server_suspend_input() with the flag its two callers set
suspend_input(S, q) ==
  [set_suspended(S, S.tq[q].player, TRUE) EXCEPT !.tq[q].insusp = TRUE]

\* server_resume_input() with the flag dequeue_input_task() clears
resume_input(S, q) ==
  [set_suspended(S, S.tq[q].player, FALSE) EXCEPT !.tq[q].insusp = FALSE]

resume_below_lowat(S, q) ==
  IF S.tq[q].insusp /\ S.tq[q].connected /\ S.tq[q].len < LoWat
  THEN resume_input(S, q) ELSE S

dequeue_input_task(S, q) ==
  resume_below_lowat(
    [S EXCEPT !.tq[q].input = Tail(@),
              !.tq[q].len = @ - Length(S.tq[q].input[1])], q)

\* Mutant: the suspended connection is not resumed.
Bug_flush_input(S, q) == [S EXCEPT !.tq[q].input = <<>>, !.tq[q].len = 0]

\* The loop of flush_input(): what is left once the last line is dequeued.
flush_input(S, q) ==
  IF S.tq[q].input = <<>> THEN S
  ELSE resume_below_lowat([S EXCEPT !.tq[q].input = <<>>, !.tq[q].len = 0], q)

enqueue_input_task(S, q, line, at_front) ==
  LET queued == [S EXCEPT !.tq[q].input = IF at_front THEN <<line>> \o @
                                          ELSE Append(@, line),
                          !.tq[q].len = @ + Length(line)]
      awake == IF ~S.tq[q].hold \/ reading(S, q)
               THEN ensure_usage(queued, q) ELSE queued
      full == /\ ~S.tq[q].insusp
              /\ S.tq[q].connected
              /\ queued.tq[q].len > HiWat
  IN IF full THEN suspend_input(awake, q) ELSE awake

task_suspend_input(S, q) ==
  IF ~S.tq[q].insusp /\ S.tq[q].connected THEN suspend_input(S, q) ELSE S

\* bf_force_input() and bf_flush_input() make the queue they act on.
force_input(S, p, line, at_front) ==
  LET made == with_tqueue(S, p)
      q == find_tqueue(made, p)
  IN IF q = Null THEN made ELSE enqueue_input_task(made, q, line, at_front)

flush_player(S, p) ==
  LET made == with_tqueue(S, p)
      q == find_tqueue(made, p)
  IN IF q = Null THEN made ELSE flush_input(made, q)

set_hold_input(S, q, hold) ==
  LET set == [S EXCEPT !.tq[q].hold = hold]
  IN IF ~hold /\ S.tq[q].input # <<>> THEN ensure_usage(set, q) ELSE set

-----------------------------------------------------------------------------
(* Background tasks: forked and suspended, waiting or ready to run. *)

enqueue_bg_task(S, q, t) == [S EXCEPT !.tq[q].bg = Append(@, t)]

dequeue_bg_task(S, q) ==
  [S EXCEPT !.tq[q].bg = Tail(@), !.tq[q].num = @ - 1]

\* The waiting list is sorted by start time, and equal times are FIFO.
enqueue_waiting(S, t) ==
  LET made == with_tqueue(S, t.progr)
      q == find_tqueue(made, t.progr)
      before == {i \in 1..Len(S.waiting) :
                   \A j \in 1..i : S.waiting[j].start <= t.start}
  IN IF q = Null THEN made
     ELSE [made EXCEPT !.tq[q].num = @ + 1,
                       !.waiting = InsertAfter(@, Cardinality(before), t)]

RemoveIndex(s, i) == SubSeq(s, 1, i - 1) \o SubSeq(s, i + 1, Len(s))

\* One turn of the loop of run_ready_tasks() over the due waiting tasks.
ready_first_waiting(S) ==
  LET t == S.waiting[1]
      made == with_tqueue(S, t.progr)
      q == find_tqueue(made, t.progr)
  IN IF q = Null THEN made
     ELSE enqueue_bg_task(ensure_usage([made EXCEPT !.waiting = Tail(@)], q), q, t)

\* check_user_task_limit(), for a user with no queued_task_limit of its own
under_task_limit(S, p) ==
  LET q == find_tqueue(S, p)
  IN TaskLimit < 0 \/ (IF q = Null THEN 0 ELSE S.tq[q].num) < TaskLimit

make_reading_task(S, q, t) ==
  LET set == [S EXCEPT !.tq[q].reader = t]
  IN IF S.tq[q].input # <<>> THEN ensure_usage(set, q) ELSE set

controls(owner, p) == owner \in Wizards \/ owner = p

kill_waiting(S, i) ==
  LET q == find_tqueue(S, S.waiting[i].progr)
      cut == [S EXCEPT !.waiting = RemoveIndex(@, i)]
  IN IF q = Null THEN cut ELSE [cut EXCEPT !.tq[q].num = @ - 1]

kill_reader(S, q) == [S EXCEPT !.tq[q].reader = NoTask]

kill_bg(S, q, i) ==
  [S EXCEPT !.tq[q].bg = RemoveIndex(@, i), !.tq[q].num = @ - 1]

\* do_resume() of a waiting task; one that is ready only gets a new value.
resume_waiting(S, i, now) ==
  LET t == [S.waiting[i] EXCEPT !.start = now]
      made == with_tqueue(S, t.progr)
      q == find_tqueue(made, t.progr)
  IN IF q = Null THEN made
     ELSE enqueue_bg_task(
            ensure_usage([made EXCEPT !.waiting = RemoveIndex(@, i)], q), q, t)

-----------------------------------------------------------------------------
(* Connections: opening, logging in, closing. *)

\* server_new_connection(), its handle in slot h
server_new_connection(S, h, outbound) ==
  LET made == with_tqueue(S, ConnId(h))
      q == find_tqueue(made, ConnId(h))
      opened == [made EXCEPT !.tq[q].connected = TRUE,
                             !.sh[h] = [NoHandle EXCEPT !.open = TRUE,
                                                        !.player = ConnId(h),
                                                        !.tasks = q,
                                                        !.outbound = outbound]]
  IN IF q = Null THEN made
     ELSE IF outbound THEN opened
     ELSE task_suspend_input(enqueue_input_task(opened, q, "blank", FALSE), q)

\* Mutants: the reader is left on an idle queue; the queue stays connected.
Bug_free_task_queue(S, q) == [S EXCEPT !.tq[q].connected = FALSE]
Bug2_free_task_queue(S, q) == IF reading(S, q) THEN ensure_usage(S, q) ELSE S

free_task_queue(S, q) ==
  LET closed == [S EXCEPT !.tq[q].connected = FALSE]
  IN IF reading(S, q) THEN ensure_usage(closed, q) ELSE closed

free_shandle(S, h) ==
  free_task_queue([S EXCEPT !.sh[h] = NoHandle], S.sh[h].tasks)

\* Mutant: the count of the connection's queue is not reset.
Bug_move_bg_to_old_player(S, q, old) ==
  IF S.tq[q].num = 0 THEN S
  ELSE LET made == with_tqueue(S, old)
           o == find_tqueue(made, old)
       IN IF o = Null THEN made
          ELSE [made EXCEPT !.tq[o].num = S.tq[q].num,
                            !.tq[o].bg = @ \o S.tq[q].bg,
                            !.tq[q].bg = <<>>]

\* The background tasks of a connection that logs in go to a new queue for the
\* connection's old number.
move_bg_to_old_player(S, q, old) ==
  IF S.tq[q].num = 0 THEN S
  ELSE LET made == with_tqueue(S, old)
           o == find_tqueue(made, old)
       IN IF o = Null THEN made
          ELSE [made EXCEPT !.tq[o].bg = @ \o S.tq[q].bg,
                            !.tq[o].num = S.tq[q].num,
                            !.tq[q].bg = <<>>,
                            !.tq[q].num = 0]

\* Mutant: the old queue keeps the player's number.
Bug_take_over_queue(S, q, dead) ==
  IF dead = Null THEN S
  ELSE LET flushed == flush_input(S, dead)
       IN [flushed EXCEPT !.tq[q].bg = @ \o S.tq[dead].bg,
                          !.tq[q].num = S.tq[dead].num,
                          !.tq[dead].bg = <<>>,
                          !.tq[dead].num = 0]

\* The queue the new player already had hands over its background tasks, loses
\* its input and its name, and is left for run_ready_tasks() to free.
take_over_queue(S, q, dead) ==
  IF dead = Null THEN S
  ELSE LET flushed == flush_input(S, dead)
       IN [flushed EXCEPT !.tq[q].bg = @ \o S.tq[dead].bg,
                          !.tq[q].num = S.tq[dead].num,
                          !.tq[dead].bg = <<>>,
                          !.tq[dead].num = 0,
                          !.tq[dead].player = NOTHING]

\* player_connected() up to its first notifier
player_connected(S, old, new) ==
  LET existing == find_shandle(S, new)
      nh == find_shandle(S, old)
      named == [S EXCEPT !.sh[nh].player = new, !.sh[nh].login = TRUE]
  IN IF nh = Null THEN [S EXCEPT !.panic = TRUE]
     ELSE IF existing = Null THEN named
     ELSE free_shandle(named, existing)

\* do_login_task() once do_login_command has returned the player new
log_in(S, q, new) ==
  LET old == S.tq[q].player
      dead == find_tqueue(S, new)
      named == [S EXCEPT !.tq[q].player = new]
  IN player_connected(
       take_over_queue(move_bg_to_old_player(named, q, old), q, dead), old, new)

-----------------------------------------------------------------------------
(* The two ends of run_ready_tasks(). *)

\* active_tqueues = tq->next
AfterQueue(s, q) ==
  LET i == CHOOSE i \in 1..Len(s) : s[i] = q IN SubSeq(s, i + 1, Len(s))

charge_usage(S, q, seconds) ==
  activate_tqueue([S EXCEPT !.active = AfterQueue(@, q),
                            !.tq[q].usage = @ + seconds], q)

\* Mutants: a queue is freed with an open connection, or with tasks on it.
Bug_free_idle_tqueues(S) ==
  LET dead == {q \in S.idle : S.tq[q].input = <<>> /\ S.tq[q].num = 0}
  IN [S EXCEPT !.idle = @ \ dead,
               !.tq = [q \in Queues |-> IF q \in dead THEN NewTQueue ELSE S.tq[q]]]
Bug2_free_idle_tqueues(S) ==
  LET dead == {q \in S.idle : is_out_of_input(S, q)}
  IN [S EXCEPT !.idle = @ \ dead,
               !.tq = [q \in Queues |-> IF q \in dead THEN NewTQueue ELSE S.tq[q]]]

free_idle_tqueues(S) ==
  LET dead == {q \in S.idle : /\ is_out_of_input(S, q)
                              /\ S.tq[q].num = 0}
  IN [S EXCEPT !.idle = @ \ dead,
               !.tq = [q \in Queues |-> IF q \in dead THEN NewTQueue ELSE S.tq[q]]]
=============================================================================
