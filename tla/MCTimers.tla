------------------------------- MODULE MCTimers -------------------------------
(* Timers with the values that MCTimers.cfg uses. *)
EXTENDS Timers

CONSTANTS n1, n2, n3, n4
=============================================================================
