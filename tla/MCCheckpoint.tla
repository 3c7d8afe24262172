---------------------------- MODULE MCCheckpoint ----------------------------
(* Checkpoint with the values that MCCheckpoint.cfg and MCShutdownDump.cfg use. *)
EXTENDS Checkpoint

AllFailures == {"fork", "open", "write"}
Everybody == {"server", "child"}
Nothing == {}
=============================================================================
