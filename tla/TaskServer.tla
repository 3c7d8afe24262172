------------------------------ MODULE TaskServer ------------------------------
(***************************************************************************)
(* The main loop of the server as the task queues see it: the loop of      *)
(* main_loop() in src/src/server.c around run_ready_tasks() in             *)
(* src/src/tasks.c.  One MOO task runs at a time; while it runs it may     *)
(* call any builtin of Builtins, and when it is done, aborted or blocked   *)
(* control returns to the C code that started it (run.cont).               *)
(***************************************************************************)
EXTENDS TaskQueues

CONSTANTS
  Verbs,          \* programmers a verb may run as: owners and task perms
  Builtins,       \* the builtins the MOO programs of an instance call
  Typed,          \* the lines users type and programs force
  Delays,         \* fork and suspend delays, in seconds
  MaxTime,        \* bound on the clock
  Ids,            \* task identifiers; bounds the number of queued tasks
  MaxInput        \* bound on the lines of one queue

ASSUME BoundsAssumption ==
  /\ Verbs \subseteq Progrs
  /\ Typed \subseteq Lines
  /\ Ids \subseteq Nat \ {0}
  /\ Delays \subseteq Nat \cup {-1}

VARIABLES
  ts,             \* the state record of TaskQueues
  pc,             \* where the server is in its main loop
  run,            \* the MOO task it runs and the C code waiting for it
  valid,          \* players not recycled
  conns,          \* connections accepted or opened so far
  at,             \* handle that network_process_io() reads, or the sweep is at
  now,            \* time(0)
  start           \* `start' of run_ready_tasks()

vars == <<ts, pc, run, valid, conns, at, now, start>>

\* What the C code does after the task: go on with the loop of
\* run_ready_tasks(), look for a command verb, log the connection in, call the
\* second notifier of a redirect, or free the handle of a closed connection.
Conts == {"loop", "command", "login", "redirect", "close", "reap"}
Idle == [id |-> 0, progr |-> NOTHING, cont |-> "loop", q |-> Null, h |-> Null]
Runs == [id : Nat, progr : Objids, cont : Conts, q : Queues \cup {Null},
         h : Handles \cup {Null}]
PCs == {"io", "pull", "ready", "pick", "task", "sweep", "reap"}

Init ==
  /\ ts = EmptyState
  /\ pc = "io"
  /\ run = Idle
  /\ valid = Players
  /\ conns = 0
  /\ at = 0
  /\ now = 0
  /\ start = 0

-----------------------------------------------------------------------------
(* Identifiers of tasks.  new_task_id() draws them at random; the model takes *)
(* one that no queued task has.                                               *)

TasksIn(S) ==
  Elems(S.waiting) \cup (UNION {Elems(S.tq[q].bg) : q \in Live(S)})
    \cup ({S.tq[q].reader : q \in Live(S)} \ {NoTask})
IdsIn(S) == {t.id : t \in TasksIn(S)}

new_task_id(used) == CHOOSE i \in Ids : i \notin used

Start(S, id, progr, cont, q, h) ==
  /\ ts' = S
  /\ pc' = "task"
  /\ run' = [id |-> id, progr |-> progr, cont |-> cont, q |-> q, h |-> h]

\* run_server_task() and do_input_task(): a task of a verb some programmer owns
StartVerb(S, cont, q, h) ==
  /\ ~(Ids \subseteq IdsIn(S))
  /\ \E progr \in Verbs : Start(S, new_task_id(IdsIn(S)), progr, cont, q, h)

-----------------------------------------------------------------------------
(* network_process_io(): connections arrive, lines are read, peers go away. *)

Accept ==
  /\ pc = "io"
  /\ conns + 1 \in Handles
  /\ conns' = conns + 1
  /\ ts' = server_new_connection(ts, conns', FALSE)
  /\ UNCHANGED <<pc, run, valid, at, now, start>>

\* pull_input() delivers every line of one read(), even when the first of them
\* suspends the connection.
ReceiveLine(h, line) ==
  /\ \/ pc = "io" /\ ~ts.sh[h].suspended
     \/ pc = "pull" /\ at = h
  /\ ts.sh[h].open
  /\ Len(ts.tq[ts.sh[h].tasks].input) < MaxInput
  /\ ts' = IF line = "flush" THEN flush_input(ts, ts.sh[h].tasks)
           ELSE enqueue_input_task(ts, ts.sh[h].tasks, line, FALSE)
  /\ pc' = "pull"
  /\ at' = h
  /\ UNCHANGED <<run, valid, conns, now, start>>

EndOfRead ==
  /\ pc = "pull"
  /\ pc' = "io"
  /\ at' = 0
  /\ UNCHANGED <<ts, run, valid, conns, now, start>>

\* server_close(): the handle stays until its notifier returns.
ClientGone(h) ==
  /\ pc = "io"
  /\ ts.sh[h].open
  /\ StartVerb([ts EXCEPT !.sh[h].disc = TRUE], "close", Null, h)
  /\ UNCHANGED <<valid, conns, at, now, start>>

Tick ==
  /\ pc \in {"io", "task"}
  /\ now < MaxTime
  /\ now' = now + 1
  /\ UNCHANGED <<ts, pc, run, valid, conns, at, start>>

-----------------------------------------------------------------------------
(* run_ready_tasks() *)

RunReadyTasks ==
  /\ pc = "io"
  /\ pc' = "ready"
  /\ start' = now
  /\ UNCHANGED <<ts, run, valid, conns, at, now>>

ReadyWaiting ==
  /\ pc = "ready"
  /\ IF ts.waiting # <<>> /\ ts.waiting[1].start <= start
     THEN ts' = ready_first_waiting(ts) /\ UNCHANGED pc
     ELSE pc' = "pick" /\ UNCHANGED ts
  /\ UNCHANGED <<run, valid, conns, at, now, start>>

head == ts.active[1]
orphaned == reading(ts, head) /\ is_out_of_input(ts, head)
takes_input == reading(ts, head) \/ ~ts.tq[head].hold
at_input == takes_input /\ ts.tq[head].input # <<>>

Picking == pc = "pick" /\ ts.active # <<>>

\* read() raises E_INVARG: the connection closed with no input left.
ResumeOrphan ==
  /\ Picking
  /\ orphaned
  /\ LET t == ts.tq[head].reader
     IN Start([ts EXCEPT !.tq[head].reader = NoTask], t.id, t.progr, "loop", head, Null)
  /\ UNCHANGED <<valid, conns, at, now, start>>

\* An out-of-band line runs do_out_of_band_command, whoever is reading.
RunOutOfBand ==
  /\ Picking
  /\ ~orphaned
  /\ at_input
  /\ ts.tq[head].input[1] = "oob"
  /\ StartVerb(dequeue_input_task(ts, head), "loop", head, Null)
  /\ UNCHANGED <<valid, conns, at, now, start>>

ResumeReader ==
  /\ Picking
  /\ at_input
  /\ ts.tq[head].input[1] # "oob"
  /\ reading(ts, head)
  /\ LET t == ts.tq[head].reader
     IN Start([dequeue_input_task(ts, head) EXCEPT !.tq[head].reader = NoTask],
              t.id, t.progr, "loop", head, Null)
  /\ UNCHANGED <<valid, conns, at, now, start>>

\* do_command_task() and do_login_task(), which call a server verb first.  A
\* line of words only runs no verb when it is .program, PREFIX or SUFFIX, or a
\* line of the program being typed in (IntrinsicCommand).
RunLine ==
  /\ Picking
  /\ at_input
  /\ ~reading(ts, head)
  /\ \/ /\ ts.tq[head].player >= 0
        /\ ts.tq[head].input[1] = "cmd"
        /\ StartVerb(dequeue_input_task(ts, head), "command", head, Null)
     \/ /\ ts.tq[head].player < 0
        /\ ts.tq[head].input[1] # "oob"
        /\ StartVerb(dequeue_input_task(ts, head), "login", head, Null)
  /\ UNCHANGED <<valid, conns, at, now, start>>

\* A line with no words in it is dropped and the loop goes on.
BlankLine ==
  /\ Picking
  /\ at_input
  /\ ~reading(ts, head)
  /\ ts.tq[head].player >= 0
  /\ ts.tq[head].input[1] = "blank"
  /\ ts' = dequeue_input_task(ts, head)
  /\ UNCHANGED <<pc, run, valid, conns, at, now, start>>

\* The queue has run a task: charge it, put it back, leave the loop.
Return(S, q) ==
  /\ ts' = charge_usage(S, q, now - start)
  /\ pc' = "sweep"
  /\ run' = Idle

IntrinsicCommand ==
  /\ Picking
  /\ at_input
  /\ ~reading(ts, head)
  /\ ts.tq[head].player >= 0
  /\ ts.tq[head].input[1] # "oob"
  /\ Return(dequeue_input_task(ts, head), head)
  /\ UNCHANGED <<valid, conns, at, now, start>>

RunBackground ==
  /\ Picking
  /\ ~orphaned
  /\ ~at_input
  /\ ts.tq[head].bg # <<>>
  /\ LET t == ts.tq[head].bg[1]
     IN Start(dequeue_bg_task(ts, head), t.id, t.progr, "loop", head, Null)
  /\ UNCHANGED <<valid, conns, at, now, start>>

\* Nothing to do on this queue: it goes idle and the next one is tried.
GoIdle ==
  /\ Picking
  /\ ~orphaned
  /\ ~at_input
  /\ ts.tq[head].bg = <<>>
  /\ ts' = deactivate_tqueue([ts EXCEPT !.active = Tail(@)], head)
  /\ UNCHANGED <<pc, run, valid, conns, at, now, start>>

NothingToRun ==
  /\ pc = "pick"
  /\ ts.active = <<>>
  /\ pc' = "sweep"
  /\ UNCHANGED <<ts, run, valid, conns, at, now, start>>

FreeIdle ==
  /\ pc = "sweep"
  /\ ts' = free_idle_tqueues(ts)
  /\ pc' = "reap"
  /\ at' = conns
  /\ UNCHANGED <<run, valid, conns, now, start>>

-----------------------------------------------------------------------------
(* The sweep of main_loop() over all_shandles, newest first. *)

timed_out(s) == ~s.outbound /\ ~s.login
recycled(s) == s.login /\ s.player \notin valid

ReapNext == at' = at - 1 /\ UNCHANGED <<valid, conns, now, start>>

\* A connection that has not logged in may have timed out or not.
ReapSkip ==
  /\ pc = "reap"
  /\ at > 0
  /\ LET s == ts.sh[at] IN ~s.open \/ ~(recycled(s) \/ s.disc)
  /\ UNCHANGED <<ts, pc, run>>
  /\ ReapNext

ReapRecycled ==
  /\ pc = "reap"
  /\ at > 0
  /\ ts.sh[at].open
  /\ recycled(ts.sh[at])
  /\ ts' = free_shandle(ts, at)
  /\ UNCHANGED <<pc, run>>
  /\ ReapNext

\* Mutant: disconnect_me is looked at only before the login.
Bug_ReapNotify ==
  /\ pc = "reap"
  /\ at > 0
  /\ ts.sh[at].open
  /\ timed_out(ts.sh[at])
  /\ StartVerb(ts, "reap", Null, at)
  /\ UNCHANGED <<valid, conns, at, now, start>>

ReapNotify ==
  /\ pc = "reap"
  /\ at > 0
  /\ LET s == ts.sh[at]
     IN s.open /\ (timed_out(s) \/ (s.disc /\ ~recycled(s)))
  /\ StartVerb(ts, "reap", Null, at)
  /\ UNCHANGED <<valid, conns, at, now, start>>

ReapDone ==
  /\ pc = "reap"
  /\ at = 0
  /\ pc' = "io"
  /\ UNCHANGED <<ts, run, valid, conns, at, now, start>>

-----------------------------------------------------------------------------
(* The end of the running task.  Resume(S) is what the C code does when the   *)
(* task gives it no result: it blocked, was aborted, or returned a false one. *)

Resume(S) ==
  CASE run.cont \in {"loop", "command", "login"} ->
         Return(S, run.q) /\ UNCHANGED at
    [] run.cont = "redirect" ->
         StartVerb(S, "loop", run.q, Null) /\ UNCHANGED at
    [] run.cont = "close" ->
         ts' = free_shandle(S, run.h) /\ pc' = "io" /\ run' = Idle /\ UNCHANGED at
    [] run.cont = "reap" ->
         ts' = free_shandle(S, run.h) /\ pc' = "reap" /\ run' = Idle /\ at' = at - 1

EndTask ==
  /\ pc = "task"
  /\ Resume(ts)
  /\ UNCHANGED <<valid, conns, now, start>>

\* do_command returned false, and a command verb or `huh' matches.
CommandVerb ==
  /\ pc = "task"
  /\ run.cont = "command"
  /\ StartVerb(ts, "loop", run.q, Null)
  /\ UNCHANGED <<valid, conns, at, now, start>>

\* do_login_command returned a player.  A redirect calls two notifiers when the
\* listeners differ; player_connected() compares them after it has freed the old
\* handle, so either number may be called.
LogIn(p) ==
  /\ pc = "task"
  /\ run.cont = "login"
  /\ ts.tq[run.q].connected
  /\ p \in valid
  /\ \/ StartVerb(log_in(ts, run.q, p), "loop", run.q, Null)
     \/ /\ find_shandle(ts, p) # Null
        /\ StartVerb(log_in(ts, run.q, p), "redirect", run.q, Null)
  /\ UNCHANGED <<valid, conns, at, now, start>>

-----------------------------------------------------------------------------
(* The builtins a running task calls.  A call that only returns an error      *)
(* changes nothing and is not an action.                                      *)

Calls(name) == pc = "task" /\ name \in Builtins
wizardly == run.progr \in Wizards
Keep == UNCHANGED <<pc, run, valid, conns, at, now, start>>

\* Mutant: no test for overflow, and -1 is one second ago.
Bug_AfterDelay(d) == now + d
AfterDelay(d) == IF d < 0 THEN Forever ELSE now + d
RoomForTask == ~(Ids \subseteq IdsIn(ts) \cup {run.id})

\* enqueue_forked_task2(); a forked task has no result to wait for.
Fork(d) ==
  /\ Calls("fork")
  /\ d >= 0
  /\ RoomForTask
  /\ under_task_limit(ts, run.progr)
  /\ ts' = enqueue_waiting(ts, [id |-> new_task_id(IdsIn(ts) \cup {run.id}),
                                kind |-> "forked", progr |-> run.progr,
                                start |-> AfterDelay(d)])
  /\ Keep

\* The task as suspend_task() packs it into a vm
Suspended(when) ==
  [id |-> run.id, kind |-> "suspended", progr |-> run.progr, start |-> when]

Suspend(d) ==
  /\ Calls("suspend")
  /\ RoomForTask
  /\ under_task_limit(ts, run.progr)
  /\ Resume(enqueue_waiting(ts, Suspended(AfterDelay(d))))
  /\ UNCHANGED <<valid, conns, now, start>>

\* A player owns itself, so its programs may read its lines.
MayRead(p) == wizardly \/ (p \in valid /\ run.progr = p)

Read(p) ==
  /\ Calls("read")
  /\ MayRead(p)
  /\ RoomForTask
  /\ LET q == find_tqueue(ts, p)
     IN /\ q # Null
        /\ ~reading(ts, q)
        /\ ~is_out_of_input(ts, q)
        /\ Resume(make_reading_task(ts, q, Suspended(0)))
  /\ UNCHANGED <<valid, conns, now, start>>

\* read(p, 1)
ReadInputNow(p) ==
  /\ Calls("read_now")
  /\ MayRead(p)
  /\ LET q == find_tqueue(ts, p)
     IN /\ q # Null
        /\ ts.tq[q].input # <<>>
        /\ ts' = dequeue_input_task(ts, q)
  /\ Keep

\* kill_task() of a task that is not the running one
KillTask(S) ==
  /\ Calls("kill_task")
  /\ ts' = S
  /\ Keep

KillWaiting(i) ==
  /\ controls(run.progr, ts.waiting[i].progr)
  /\ KillTask(kill_waiting(ts, i))

KillReader(q) ==
  /\ reading(ts, q)
  /\ controls(run.progr, ts.tq[q].player)
  /\ KillTask(kill_reader(ts, q))

KillReady(q, i) ==
  /\ controls(run.progr, ts.tq[q].player)
  /\ KillTask(kill_bg(ts, q, i))

\* do_resume() of a task still waiting
ResumeWaiting(i) ==
  /\ Calls("resume")
  /\ ts.waiting[i].kind = "suspended"
  /\ controls(run.progr, ts.waiting[i].progr)
  /\ ts' = resume_waiting(ts, i, now)
  /\ Keep

ForceInput(p, line, at_front) ==
  /\ Calls("force_input")
  /\ controls(run.progr, p)
  /\ LET q == find_tqueue(ts, p) IN q # Null => Len(ts.tq[q].input) < MaxInput
  /\ ts' = force_input(ts, p, line, at_front)
  /\ Keep

FlushInput(p) ==
  /\ Calls("flush_input")
  /\ controls(run.progr, p)
  /\ ts' = flush_player(ts, p)
  /\ Keep

\* set_connection_option(p, "hold-input", hold)
SetHoldInput(p, hold) ==
  /\ Calls("hold_input")
  /\ controls(run.progr, p)
  /\ LET h == find_shandle(ts, p)
     IN /\ h # Null
        /\ ~ts.sh[h].disc
        /\ ts' = set_hold_input(ts, ts.sh[h].tasks, hold)
  /\ Keep

BootPlayer(p) ==
  /\ Calls("boot_player")
  /\ controls(run.progr, p)
  /\ LET h == find_shandle(ts, p)
     IN h # Null /\ ts' = [ts EXCEPT !.sh[h].disc = TRUE]
  /\ Keep

OpenNetworkConnection ==
  /\ Calls("open_network_connection")
  /\ wizardly
  /\ conns + 1 \in Handles
  /\ conns' = conns + 1
  /\ ts' = server_new_connection(ts, conns', TRUE)
  /\ UNCHANGED <<pc, run, valid, at, now, start>>

\* A recycled player is no longer valid; its connection and queue stay.
Recycle(p) ==
  /\ Calls("recycle")
  /\ controls(run.progr, p)
  /\ p \in valid \ Wizards
  /\ valid' = valid \ {p}
  /\ UNCHANGED <<ts, pc, run, conns, at, now, start>>

-----------------------------------------------------------------------------
Network ==
  \/ Accept
  \/ \E h \in Handles, line \in Typed \cup {"flush"} : ReceiveLine(h, line)
  \/ EndOfRead
  \/ \E h \in Handles : ClientGone(h)

Pick ==
  \/ ResumeOrphan
  \/ RunOutOfBand
  \/ ResumeReader
  \/ RunLine
  \/ BlankLine
  \/ IntrinsicCommand
  \/ RunBackground
  \/ GoIdle
  \/ NothingToRun

Sweep == ReapSkip \/ ReapRecycled \/ ReapNotify \/ ReapDone

TaskReturns == EndTask \/ CommandVerb \/ \E p \in Players : LogIn(p)

Builtin ==
  \/ \E d \in Delays : Fork(d) \/ Suspend(d)
  \/ \E p \in Progrs : \/ Read(p)
                       \/ ReadInputNow(p)
                       \/ FlushInput(p)
                       \/ BootPlayer(p)
                       \/ Recycle(p)
  \/ \E p \in Progrs, line \in Typed, f \in BOOLEAN : ForceInput(p, line, f)
  \/ \E p \in Progrs, hold \in BOOLEAN : SetHoldInput(p, hold)
  \/ \E i \in 1..Len(ts.waiting) : KillWaiting(i) \/ ResumeWaiting(i)
  \/ \E q \in Live(ts) : KillReader(q)
  \/ \E q \in Elems(ts.active) : \E i \in 1..Len(ts.tq[q].bg) : KillReady(q, i)
  \/ OpenNetworkConnection

Next ==
  \/ Network
  \/ Tick
  \/ RunReadyTasks
  \/ ReadyWaiting
  \/ Pick
  \/ FreeIdle
  \/ Sweep
  \/ TaskReturns
  \/ Builtin

Spec == Init /\ [][Next]_vars

\* A task ends: ticks and seconds run out.  network_process_io() visits each
\* connection once and returns, so the loop comes round however much is typed.
Fairness ==
  /\ SF_vars(RunReadyTasks)
  /\ WF_vars(EndOfRead)
  /\ WF_vars(ReadyWaiting)
  /\ WF_vars(Pick)
  /\ WF_vars(FreeIdle)
  /\ WF_vars(Sweep)
  /\ WF_vars(EndTask)

FairSpec == Spec /\ Fairness
=============================================================================
