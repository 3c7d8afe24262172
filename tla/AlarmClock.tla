------------------------------ MODULE AlarmClock ------------------------------
(***************************************************************************)
(* What timers.h promises: a timer that is set stays pending until it is   *)
(* cancelled or fires; timers fire in the order of their times, never      *)
(* early, and while the process is up a timer that is due does fire.       *)
(***************************************************************************)
EXTENDS Integers

CONSTANTS Ids, MaxTime

\* pending: records with an id, a time `when` and a procedure
VARIABLES pending, now, up

clock == <<pending, now, up>>

Init == pending = {} /\ now = 0 /\ up = TRUE

Set ==
  /\ \E t \in pending' :
       /\ t.id \notin {p.id : p \in pending}
       /\ pending' = pending \cup {t}
  /\ UNCHANGED <<now, up>>

Cancel ==
  /\ \E t \in pending : pending' = pending \ {t}
  /\ UNCHANGED <<now, up>>

Fire ==
  /\ up
  /\ \E t \in pending :
       /\ t.when <= now
       /\ \A p \in pending : t.when <= p.when
       /\ pending' = pending \ {t}
  /\ UNCHANGED <<now, up>>

Tick == now < MaxTime /\ now' = now + 1 /\ UNCHANGED <<pending, up>>

Die == up /\ up' = FALSE /\ UNCHANGED <<pending, now>>

Next == Set \/ Cancel \/ Fire \/ Tick \/ Die

IsDue(id) == up /\ \E t \in pending : t.id = id /\ t.when <= now
\* A timer that is due fires, or is cancelled.
DueTimersFire == \A id \in Ids : IsDue(id) ~> ~IsDue(id)

\* Timers go when they are cancelled or fire, none early, and in the order of their times.
Safety == Init /\ [][Next]_clock
\* What src/include/timers.h is for
ClockSpec == Safety /\ DueTimersFire
=============================================================================
