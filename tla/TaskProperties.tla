---------------------------- MODULE TaskProperties ----------------------------
(***************************************************************************)
(* What the task queues of TaskServer promise.                             *)
(***************************************************************************)
EXTENDS TaskServer

\* Types of every variable: each live structure of tasks.c and server.c keeps
\* the shape its declaration gives it.
TypeOK ==
  /\ ts \in States
  /\ pc \in PCs
  /\ run \in Runs
  /\ valid \subseteq Players
  /\ conns \in Nat
  /\ at \in Nat
  /\ now \in Nat
  /\ start \in Nat

\* No lookup of a connection fails (server_suspend_input() and
\* server_resume_input() do not test what find_shandle() returns, and
\* player_connected() panics), through every login, redirect and hang-up.
NoPanic == ~ts.panic

\* The task that runs belongs to the first active queue, which
\* run_ready_tasks() relies on when it unlinks with `active_tqueues = tq->next'
\* after arbitrary MOO code has activated other queues.
RunningQueueIsFirst ==
  pc = "task" /\ run.q # Null => ts.active # <<>> /\ ts.active[1] = run.q

\* Each queue is on exactly one list, once; the active list is in order of
\* usage; an address that is on no list holds nothing.
QueueLists ==
  /\ ts.idle \cap Elems(ts.active) = {}
  /\ \A i, j \in 1..Len(ts.active) : i < j =>
       /\ ts.active[i] # ts.active[j]
       /\ ts.tq[ts.active[i]].usage <= ts.tq[ts.active[j]].usage
  /\ \A q \in Live(ts) : q \in ts.idle <=> ts.tq[q].usage = NO_USAGE
  /\ \A q \in Queues \ Live(ts) : ts.tq[q] = NewTQueue

\* find_tqueue() returns the first match: there is never a second queue for a
\* player, though logins rename queues.
OneQueuePerPlayer ==
  \A q, r \in Live(ts) :
    q # r /\ ts.tq[q].player = ts.tq[r].player => ts.tq[q].player = NOTHING

\* A connected queue is the queue of one open connection, and the connection
\* and the queue name the same player: free_tqueue() never frees a queue a
\* shandle points to, and input goes to the connection it is read from.
ConnectionHasItsQueue ==
  /\ \A h \in Handles : ts.sh[h].open =>
       LET q == ts.sh[h].tasks
       IN q \in Live(ts) /\ ts.tq[q].connected /\ ts.tq[q].player = ts.sh[h].player
  /\ \A q \in Live(ts) : ts.tq[q].connected =>
       Cardinality({h \in Handles : ts.sh[h].open /\ ts.sh[h].tasks = q}) = 1

WaitingOf(p) == {i \in 1..Len(ts.waiting) : ts.waiting[i].progr = p}

\* num_bg_tasks, which the task limit and the freeing of queues go by, is the
\* number of a player's tasks "in either here or waiting_tasks"; a ready task is on
\* the queue of its programmer, so that kill_task() and do_resume(), which ask for
\* control of the queue, ask for the right one.
BgAccounting ==
  /\ \A q \in Live(ts) : \A i \in 1..Len(ts.tq[q].bg) : ts.tq[q].bg[i].progr = ts.tq[q].player
  /\ \A q \in Live(ts) :
       ts.tq[q].num = Len(ts.tq[q].bg) + Cardinality(WaitingOf(ts.tq[q].player))
  /\ \A i \in 1..Len(ts.waiting) : find_tqueue(ts, ts.waiting[i].progr) # Null

IdleHasNoInput ==
  \A q \in ts.idle :
    /\ ts.tq[q].input # <<>> => ts.tq[q].hold /\ ~reading(ts, q)
    /\ reading(ts, q) => ts.tq[q].connected

FlowControl ==
  \A h \in Handles : ts.sh[h].open =>
    LET q == ts.tq[ts.sh[h].tasks]
    IN /\ ts.sh[h].suspended = q.insusp
       /\ q.len = Cardinality({i \in 1..Len(q.input) : q.input[i] # "blank"})
       /\ q.len > HiWat => q.insusp \/ ts.sh[h].outbound
       /\ q.insusp => q.input # <<>>

\* Input is never stuck.  An idle queue has no line a task could take and no
\* reader whose connection is gone, for run_ready_tasks() looks at active queues
\* only; a connection that came in is not read from while more than
\* MAX_QUEUED_INPUT waits (one that open_network_connection() opened onto a queue
\* that force_input() had filled is, up to its first line); and one that is
\* suspended has a line left whose removal resumes it.
InputIsNeverStuck == IdleHasNoInput /\ FlowControl

Gone == IdsIn(ts) \ IdsIn(ts')
OwnersOf(S, id) ==
  {t.progr : t \in {u \in TasksIn(S) : u.id = id}}
    \cup {S.tq[q].player : q \in {r \in Live(S) : S.tq[r].reader.id = id}}

\* A queued task leaves its queue because the server runs it, or because a task
\* that controls its programmer (or the connection it reads) kills it; never in
\* a login, a redirect, a disconnection or when queues are freed.
TasksAreConserved ==
  [][\A id \in Gone :
       \/ pc' = "task" /\ run'.id = id
       \/ /\ pc = "task" /\ run' = run
          /\ Cardinality(Gone) = 1
          /\ \E p \in OwnersOf(ts, id) : controls(run.progr, p)]_vars

\* A booted connection is closed in the end.
BootedIsClosed ==
  \A h \in Handles : ts.sh[h].open /\ ts.sh[h].disc ~> ~ts.sh[h].open

\* A task in read() that nobody kills is resumed once its connection is gone and
\* the input typed ahead is used up: its queue is not freed under it.
OrphanIsResumed ==
  \A id \in Ids :
    (\E q \in Live(ts) : ts.tq[q].reader.id = id /\ is_out_of_input(ts, q))
      ~> (pc = "task" /\ run.id = id)

BgIds(S) == {t.id : t \in UNION {Elems(S.tq[q].bg) : q \in Live(S)}}

\* Ready tasks of a connection that has logged in: the login makes a new queue for
\* them that it does not activate (do_login_task(), tasks.c:556).
Stranded(id) ==
  \E q \in ts.idle, h \in Handles :
    /\ ts.tq[q].player = ConnId(h) /\ find_shandle(ts, ConnId(h)) = Null
    /\ id \in {t.id : t \in Elems(ts.tq[q].bg)}

\* Once users stop typing (dequeue_any_task() prefers their lines), a task that is
\* ready to run leaves its queue: every queue's turn comes.  Not that of a Stranded
\* task: nothing activates its queue, and it may wait for ever.
ReadyTaskRuns ==
  <>[](\A q \in Live(ts) : ts.tq[q].input = <<>>) =>
  (\A id \in Ids : id \in BgIds(ts) ~> id \notin BgIds(ts) \/ Stranded(id))
=============================================================================
