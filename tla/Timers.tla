-------------------------------- MODULE Timers --------------------------------
(***************************************************************************)
(* The timers of timers.c, one statement at a time, and those who set      *)
(* them: main_loop(), run_interpreter(), tcp_open() and a failed dump.     *)
(* Timer_Entry nodes are linked by pointers, and SIGALRM and SIGVTALRM     *)
(* interrupt the program, and each other's handlers, between any two       *)
(* statements.                                                             *)
(*                                                                         *)
(* Bounds: MaxTime seconds, MaxIds timers set, Nodes to malloc().          *)
(* Assumption: stop_timers() to restart_timers() takes less than the       *)
(* second that alarm() counts in (Prompt).                                 *)
(***************************************************************************)
EXTENDS Integers, Sequences, FiniteSets, SequencesExt

CONSTANTS
  Nodes, Null,
  Intervals,   \* #0.dump_interval
  Timeouts,    \* outbound_connect_timeout, seconds of connect()
  Limits,      \* fg_seconds and bg_seconds
  Retry,       \* seconds between two tries of a dump at shutdown
  MaxTime, MaxIds

ASSUME TimersAssumption ==
  /\ IsFiniteSet(Nodes) /\ Null \notin Nodes
  /\ Intervals \cup Timeouts \cup {Retry} \subseteq Nat /\ Limits \subseteq Int

VARIABLES
  next, data,              \* the fields of each Timer_Entry
  active, free, virt,      \* active_timers, free_timers, virtual_timer
  heap,                    \* the nodes malloc() may return
  next_id,
  now,                     \* time(0)
  alarm, pend,             \* when SIGALRM is due; whether it waits
  vt, pendv,               \* CPU seconds until SIGVTALRM; whether it waits
  mask,                    \* signals blocked
  frames,                  \* signal handlers running, the innermost last
  main,                    \* the program they interrupt
  up

lists == <<next, data, active, free, virt, heap, next_id>>
signals == <<alarm, pend, vt, pendv, mask>>
vars == <<lists, now, signals, frames, main, up>>

Ref == Nodes \cup {Null}
Procs == {"checkpoint", "connect", "task", "none"}
NoTimer == [id |-> -1, when |-> 0, proc |-> "none"]

(* Calls of the interface, done one after the other *)
set_timer(seconds, proc) == [op |-> "set", sec |-> seconds, proc |-> proc, id |-> -1]
set_virtual_timer(seconds, proc) == [op |-> "setv", sec |-> seconds, proc |-> proc, id |-> -1]
cancel_timer(id) == [op |-> "cancel", sec |-> 0, proc |-> "none", id |-> id]

Begin(op) == IF op = "set" THEN "test" ELSE IF op = "setv" THEN "check" ELSE "stop"
Busy(calls) == [main EXCEPT !.todo = calls, !.pc = Begin(Head(calls).op)]
Call == Head(main.todo)

Init ==
  /\ next = [n \in Nodes |-> Null] /\ data = [n \in Nodes |-> NoTimer]
  /\ active = Null /\ free = Null /\ virt = Null /\ heap = Nodes /\ next_id = 0
  /\ now = 0 /\ alarm = Null /\ pend = FALSE /\ vt = 0 /\ pendv = FALSE /\ mask = {}
  /\ frames = <<>> /\ up = TRUE
  /\ \E s \in Intervals :
       main = [in |-> "loop", pc |-> "test", todo |-> <<set_timer(s, "checkpoint")>>, this |-> Null,
               ids |-> [p \in Procs |-> -1]]

InMain(pc) == up /\ frames = <<>> /\ main.pc = pc
Goto(pc) == main' = [main EXCEPT !.pc = pc]

(* Who calls *)
InCaller(in) == InMain("idle") /\ main.in = in
CallFrom(in, calls) ==
  /\ main' = [Busy(calls) EXCEPT !.in = in]
  /\ UNCHANGED <<lists, now, signals, frames, up>>
MoreIds == next_id < MaxIds

set_checkpoint_timer ==
  /\ InCaller("loop") /\ MoreIds
  /\ \E s \in Intervals :
       CallFrom("loop", <<cancel_timer(main.ids["checkpoint"]), set_timer(s, "checkpoint")>>)
setup_task_execution_limits ==
  /\ InCaller("loop") /\ MoreIds
  /\ \E s \in Limits : CallFrom("task", <<set_virtual_timer(IF s < 1 THEN 1 ELSE s, "task")>>)
run_returns == InCaller("task") /\ CallFrom("loop", <<cancel_timer(main.ids["task"])>>)
tcp_open ==
  /\ InCaller("task") /\ MoreIds
  /\ \E s \in Timeouts : CallFrom("connect", <<set_timer(s, "connect")>>)
connect_returns ==
  InCaller("connect") /\ CallFrom("connected", <<cancel_timer(main.ids["connect"])>>)
timer_sleep ==
  /\ InCaller("loop") \/ InCaller("down")
  /\ MoreIds /\ CallFrom("sleep", <<set_timer(Retry, "none")>>)
\* pause() waits for a handler to return: a SIGALRM that comes before it is no
\* help, and it may then wait for ever.
pause ==
  /\ InCaller("sleep") /\ main' = [main EXCEPT !.in = "pause"]
  /\ UNCHANGED <<lists, now, signals, frames, up>>

(* timers.c *)
Then(pc) == Goto(pc) /\ UNCHANGED <<now, signals, frames, up>>

malloc == CHOOSE n \in heap : TRUE

allocate_timer ==
  \/ /\ InMain("test")
     /\ \/ /\ free # Null
           /\ main' = [main EXCEPT !.pc = "take", !.this = free] /\ UNCHANGED heap
        \/ /\ free = Null
           /\ heap # {} /\ heap' = heap \ {malloc}
           /\ main' = [main EXCEPT !.pc = "fill", !.this = malloc]
     /\ UNCHANGED <<next, data, active, free, virt, next_id, now, signals, frames, up>>
  \/ /\ InMain("take")
     /\ free' = next[main.this]
     /\ Then("fill") /\ UNCHANGED <<next, data, active, virt, heap, next_id>>

fill_timer ==
  /\ InMain("fill")
  /\ data' = [data EXCEPT ![main.this] =
       [id |-> next_id, proc |-> Call.proc,
        when |-> IF Call.op = "set" THEN now + Call.sec ELSE Call.sec]]
  /\ next_id' = next_id + 1
  /\ IF Call.op = "set" THEN virt' = virt /\ Then("stop") ELSE virt' = main.this /\ Then("alarm")
  /\ UNCHANGED <<next, active, free, heap>>

virtual_timer_is_set ==
  /\ InMain("check")
  /\ IF virt = Null THEN Then("stop") ELSE Then("vfull")
  /\ UNCHANGED lists

Left == {vt} \cup ({vt - 1} \cap Nat)    \* tv_sec is rounded down

stop_timers ==
  \/ /\ InMain("stop")
     /\ alarm' = Null /\ Goto("ignore")
     /\ UNCHANGED <<lists, now, pend, vt, pendv, mask, frames, up>>
  \/ /\ InMain("ignore")
     /\ pend' = FALSE /\ pendv' = FALSE /\ vt' = 0
     /\ IF virt = Null THEN data' = data ELSE \E s \in Left : data' = [data EXCEPT ![virt].when = s]
     /\ Goto(IF Call.op = "setv" THEN "test" ELSE "edit")
     /\ UNCHANGED <<next, active, free, virt, heap, next_id, now, alarm, mask, frames, up>>

\* The nodes that pointers lead to from a node
Chain(succ, start) ==
  LET follow == [n \in Ref |-> IF n = Null THEN Null ELSE succ[n]]
      nth[i \in 0..Cardinality(Nodes)] == IF i = 0 THEN start ELSE follow[nth[i - 1]]
  IN {nth[i] : i \in 0..Cardinality(Nodes)} \ {Null}
Reach(start) == Chain(next, start)

\* The pointer that p sees, or active_timers itself: next of Null
Link(p, n) ==
  IF p = Null THEN active' = n /\ next' = next
  ELSE next' = [next EXCEPT ![p] = n] /\ active' = active
LinkOf(p) == IF p = Null THEN active ELSE next[p]

\* Behind every timer that is not later
Behind(this) ==
  LET before == {n \in Reach(active) : data[n].when <= data[this].when}
  IN IF before = {} THEN Null ELSE CHOOSE n \in before : next[n] \notin before

insert_timer ==
  /\ InMain("edit") /\ Call.op = "set"
  /\ LET this == main.this
         p == Behind(this)
     IN IF p = Null
        THEN next' = [next EXCEPT ![this] = active] /\ active' = this
        ELSE next' = [next EXCEPT ![this] = next[p], ![p] = this] /\ active' = active
  /\ Then("alarm") /\ UNCHANGED <<data, free, virt, heap, next_id>>

IsVirtual(id) == virt # Null /\ data[virt].id = id

remove_timer ==
  /\ InMain("edit") /\ Call.op = "cancel"
  /\ \/ /\ IsVirtual(Call.id)
        /\ virt' = Null /\ heap' = heap \cup {virt} /\ UNCHANGED <<next, active>>
     \/ /\ ~IsVirtual(Call.id)
        /\ UNCHANGED virt
        /\ \/ \E p \in Reach(active) \cup {Null} :
                /\ LinkOf(p) # Null /\ data[LinkOf(p)].id = Call.id
                /\ Link(p, next[LinkOf(p)]) /\ heap' = heap \cup {LinkOf(p)}
           \/ /\ \A n \in Reach(active) : data[n].id # Call.id
              /\ UNCHANGED <<next, active, heap>>
  /\ Then("alarm") /\ UNCHANGED <<data, free, next_id>>

(* restart_timers(), which set_timer() and the like call, and the handler of SIGALRM *)
Top == Last(frames)
InHandler(sig, pc) == up /\ frames # <<>> /\ Top.sig = sig /\ Top.pc = pc
TopGoto(pc) == frames' = [frames EXCEPT ![Len(frames)].pc = pc]
In(pc) == InMain(pc) \/ InHandler("alrm", pc)
MoveTo(pc) ==
  IF frames = <<>> THEN Goto(pc) /\ UNCHANGED frames ELSE TopGoto(pc) /\ UNCHANGED main
Crash == up' = FALSE /\ UNCHANGED <<lists, now, signals, frames, main>>

restart_timers ==
  \/ /\ In("alarm")
     /\ \/ active = Null /\ UNCHANGED <<alarm, pend>>
        \/ /\ active # Null /\ now < data[active].when
           /\ alarm' = data[active].when /\ UNCHANGED pend
        \/ active # Null /\ now >= data[active].when /\ pend' = TRUE /\ UNCHANGED alarm
     /\ MoveTo("vtest") /\ UNCHANGED <<lists, now, vt, pendv, mask, up>>
  \/ /\ In("vtest")
     /\ MoveTo(IF virt = Null THEN "done" ELSE "varm")
     /\ UNCHANGED <<lists, now, signals, up>>
  \/ /\ In("varm") /\ virt # Null
     /\ IF data[virt].when > 0 THEN vt' = data[virt].when /\ UNCHANGED pendv
                               ELSE pendv' = TRUE /\ UNCHANGED vt
     /\ MoveTo("done") /\ UNCHANGED <<lists, now, alarm, pend, mask, up>>
  \/ In("varm") /\ virt = Null /\ Crash

\* A call returns its id to the variable its caller keeps it in.
\* set_virtual_timer() reads it through virtual_timer, null once the limit has passed.
Return ==
  /\ up /\ frames = <<>> /\ main.pc \in {"done", "vfull"}
  /\ main.pc = "done" /\ Call.op = "setv" => virt # Null
  /\ LET rest == Tail(main.todo)
         entry == IF Call.op = "setv" THEN virt ELSE main.this
         id == IF main.pc = "vfull" THEN -1 ELSE data[entry].id
         ids == IF Call.op = "cancel" THEN main.ids ELSE [main.ids EXCEPT ![Call.proc] = id]
     IN main' = [main EXCEPT !.todo = rest, !.this = Null, !.ids = ids,
                   !.pc = IF rest = <<>> THEN "idle" ELSE Begin(Head(rest).op),
                   !.in = IF rest = <<>> /\ @ = "connected" THEN "task" ELSE @]
  /\ UNCHANGED <<lists, now, signals, frames, up>>
virtual_timer_is_null == InMain("done") /\ Call.op = "setv" /\ virt = Null /\ Crash
\* Control returns to the task with SIGALRM still blocked.
reenable_timers_Not ==
  /\ InMain("except") /\ Goto("idle")
  /\ UNCHANGED <<lists, now, signals, frames, up>>

reenable_timers ==
  /\ InMain("except")
  /\ mask' = mask \ {"alrm"} /\ Goto("idle")
  /\ UNCHANGED <<lists, now, alarm, pend, vt, pendv, frames, up>>

(* The handlers *)
Frame(sig) == [sig |-> sig, pc |-> "pop", this |-> Null, proc |-> "none"]
DeliverAlarm ==
  /\ up /\ pend /\ "alrm" \notin mask
  /\ pend' = FALSE /\ mask' = mask \cup {"alrm"} /\ frames' = Append(frames, Frame("alrm"))
  /\ UNCHANGED <<lists, now, alarm, vt, pendv, main, up>>
DeliverVirtual ==
  /\ up /\ pendv /\ "vtalrm" \notin mask
  /\ pendv' = FALSE /\ mask' = mask \cup {"vtalrm"} /\ frames' = Append(frames, Frame("vtalrm"))
  /\ UNCHANGED <<lists, now, alarm, pend, vt, main, up>>

TopHolds(pc, n) ==
  frames' = [frames EXCEPT ![Len(frames)] = [@ EXCEPT !.pc = pc, !.this = n, !.proc = data[n].proc]]

\* The timer is linked to free_timers before its next is read.
wakeup_call_FreesFirst ==
  /\ InHandler("alrm", "pop")
  /\ active # Null
  /\ TopHolds("push", active)
  /\ next' = [next EXCEPT ![active] = free] /\ active' = free
  /\ UNCHANGED <<data, free, virt, heap, next_id, now, signals, main, up>>

wakeup_call ==
  /\ InHandler("alrm", "pop")
  /\ \/ active = Null /\ Crash
     \/ /\ active # Null
        /\ TopHolds("link", active) /\ active' = next[active]
        /\ UNCHANGED <<next, data, free, virt, heap, next_id, now, signals, main, up>>
virtual_wakeup_call ==
  /\ InHandler("vtalrm", "pop")
  /\ \/ virt = Null /\ Crash
     \/ /\ virt # Null
        /\ TopHolds("link", virt) /\ virt' = Null
        /\ UNCHANGED <<next, data, active, free, heap, next_id, now, signals, main, up>>

free_timer ==
  \/ /\ up /\ frames # <<>> /\ Top.pc = "link"
     /\ next' = [next EXCEPT ![Top.this] = free] /\ TopGoto("push")
     /\ UNCHANGED <<data, active, free, virt, heap, next_id, now, signals, main, up>>
  \/ /\ up /\ frames # <<>> /\ Top.pc = "push"
     /\ free' = Top.this /\ TopGoto(IF Top.sig = "alrm" THEN "alarm" ELSE "done")
     /\ UNCHANGED <<next, data, active, virt, heap, next_id, now, signals, main, up>>

\* longjmp() from the handler: it and whatever it interrupted end here, the
\* signals they block stay blocked.
timeout_proc ==
  /\ InHandler("alrm", "done") /\ Top.proc = "connect"
  /\ frames' = <<>>
  /\ main' = [main EXCEPT !.in = "task", !.pc = "except", !.todo = <<>>, !.this = Null]
  /\ UNCHANGED <<lists, now, signals, up>>
\* checkpoint_timer(), task_timeout() and no procedure at all
handler_returns ==
  /\ up /\ frames # <<>> /\ Top.pc = "done" /\ Top.proc # "connect"
  /\ mask' = mask \ {Top.sig} /\ frames' = Front(frames)
  /\ main' = IF main.in = "pause" /\ main.pc = "idle" THEN [main EXCEPT !.in = "down"] ELSE main
  /\ UNCHANGED <<lists, now, alarm, pend, vt, pendv, up>>

(* The clocks *)
Prompt ==
  /\ main.pc \notin {"ignore", "edit", "alarm"}
  /\ main.pc \in {"test", "take", "fill"} => Call.op = "set"

Tick ==
  /\ up /\ now < MaxTime /\ Prompt
  /\ now' = now + 1
  /\ UNCHANGED <<lists, signals, frames, main, up>>
AlarmExpires ==
  /\ up /\ alarm # Null /\ alarm <= now
  /\ alarm' = Null /\ pend' = TRUE
  /\ UNCHANGED <<lists, now, vt, pendv, mask, frames, main, up>>
VirtualRuns ==
  /\ up /\ vt > 0
  /\ vt' = vt - 1 /\ pendv' = (pendv \/ vt = 1)
  /\ UNCHANGED <<lists, now, alarm, pend, mask, frames, main, up>>

Callers ==
  \/ set_checkpoint_timer
  \/ setup_task_execution_limits
  \/ run_returns
  \/ tcp_open
  \/ connect_returns
  \/ timer_sleep

Statements ==
  \/ allocate_timer
  \/ fill_timer
  \/ virtual_timer_is_set
  \/ stop_timers
  \/ insert_timer
  \/ remove_timer
  \/ restart_timers
  \/ Return
  \/ virtual_timer_is_null
  \/ pause
  \/ reenable_timers
  \/ wakeup_call
  \/ virtual_wakeup_call
  \/ free_timer
  \/ timeout_proc
  \/ handler_returns

Next ==
  \/ Callers
  \/ Statements
  \/ DeliverAlarm
  \/ DeliverVirtual
  \/ Tick
  \/ AlarmExpires
  \/ VirtualRuns

Spec ==
  /\ Init /\ [][Next]_vars
  /\ WF_vars(Statements) /\ WF_vars(DeliverAlarm) /\ WF_vars(AlarmExpires)

\* The timers that active_timers leads to are those of an alarm clock: nothing
\* but set_timer(), cancel_timer() and the time a timer is due adds or removes
\* one, whatever a handler interrupts, and one that is due fires.
Clock == INSTANCE AlarmClock WITH
  pending <- {data[n] : n \in Reach(active)},
  Ids <- 0..(MaxIds - 1)
ClockSpec == Clock!ClockSpec

TimeoutsAreCaught ==
  /\ InHandler("alrm", "done") /\ Top.proc = "connect" => main.in \in {"connect", "connected"}
  /\ main.in = "loop" /\ main.pc = "idle" => virt = Null

NodesAreNotShared ==
  /\ Reach(active) \cap Reach(free) = {}
  /\ virt \notin Reach(active) \cup Reach(free)
  /\ Reach(active) \cup Reach(free) \subseteq Nodes \ heap

\* timeout_proc() raises an exception that nobody but tcp_open() catches
\* ("Unhandled exception!") and longjmp()s over whatever runs: it never runs once
\* cancel_timer() has returned.  No limit is left for the next task.  A timer in
\* use is on no other list, nor in the hands of malloc(), though the handlers push
\* nodes on free_timers while allocate_timer() takes one off.
SignalsAreSafe == TimeoutsAreCaught /\ NodesAreNotShared
=============================================================================
