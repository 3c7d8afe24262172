----------------------------- MODULE Checkpoint -----------------------------
(***************************************************************************)
(* src/src/db_file.c (dump_database) and the checkpointing half of         *)
(* src/src/server.c: the server forks a checkpointer that writes its copy  *)
(* of the database to a temporary file and swaps it into place, and hears  *)
(* of its end by SIGCHLD; it dumps the database itself when it shuts down  *)
(* or panics.  scripts/restart.sh starts the next server.                  *)
(*                                                                         *)
(* A database is its version: a step is one system call, with what is      *)
(* computed around it.  Checkpointers that outlive their server end before *)
(* the next one is started.                                                *)
(***************************************************************************)
EXTENDS Integers

CONSTANTS
  MaxGeneration,            \* bound on dump_generation
  MaxVersion,               \* bound on the versions of the database
  MaxRestarts,              \* bound on the servers started after the first
  Failures,                 \* what can fail: "fork", "open", "write", "close"
  Kills,                    \* who can be killed or panic: "server", "child"
  None                      \* no file

ASSUME CheckpointAssumption ==
  /\ MaxGeneration \in Nat \ {0}
  /\ MaxVersion \in Nat
  /\ MaxRestarts \in Nat
  /\ None \notin [version : 0..MaxVersion, whole : BOOLEAN]
  /\ None \notin {"unset", "0", "1"}

VARIABLES
  file,                     \* what is on the disk
  server,                   \* what the server does next, and why it dumps
  version,                  \* the database in the server's memory
  dump_generation,
  child,                    \* the checkpointers, each with its generation
  checkpoint_requested,
  shutdown_message,
  sigchld,                  \* a SIGCHLD is pending
  status,                   \* child_completed_signal()'s local, or None
  checkpoint_finished,      \* 1 = failure, 2 = success
  restarts,
  loaded,                   \* history: the version the server was started with
  saved,                    \* history: the version last swapped into place
  disturbed                 \* history: a dump began before the last checkpointer
                            \* was waited for, or a process died in its swap

vars == <<file, server, version, dump_generation, child, checkpoint_requested,
          shutdown_message, sigchld, status, checkpoint_finished, restarts,
          loaded, saved, disturbed>>
signals == <<sigchld, status, checkpoint_finished>>
history == <<restarts, loaded>>

Generations == 0..MaxGeneration
Versions == 0..MaxVersion
\* Names are numbers: that of dump_db_name.#generation# is its generation.
input_db_name == -1
dump_db_name == -2
PANIC_name == -3
FileNames == {input_db_name, dump_db_name, PANIC_name} \cup Generations
Files == [version : Versions, whole : BOOLEAN]
Stopped == {"exited", "failed", "killed"}
Dumping == {"begin", "open", "write", "remove", "rename"}

NoChild == [at |-> "none", version |-> 0, ok |-> FALSE]

Init ==
  /\ file = [f \in FileNames |->
               IF f = input_db_name THEN [version |-> 0, whole |-> TRUE] ELSE None]
  /\ server = [at |-> "loop", reason |-> "shutdown"]
  /\ version = 0
  /\ dump_generation = 0
  /\ child = [g \in Generations |-> NoChild]
  /\ checkpoint_requested = FALSE
  /\ shutdown_message = FALSE
  /\ sigchld = FALSE
  /\ status = None
  /\ checkpoint_finished = 0
  /\ restarts = 0
  /\ loaded = 0
  /\ saved = 0
  /\ disturbed = FALSE

-----------------------------------------------------------------------------
(* The disk. *)

removed(f) == [file EXCEPT ![f] = None]
begun(f, v) == [file EXCEPT ![f] = [version |-> v, whole |-> FALSE]]

\* A writer whose file was removed goes on writing what has no name.
completed(f) == IF file[f] = None THEN file ELSE [file EXCEPT ![f].whole = TRUE]

\* What fclose() leaves, whose result dump_database() does not look at: when the
\* disk is full only now, the end of the database is missing.
closed(f) == {completed(f)} \cup IF "close" \in Failures THEN {file} ELSE {}

renamed(f) == [file EXCEPT ![dump_db_name] = file[f], ![f] = None]

\* The file that scripts/restart.sh starts the next server with.
Loadable == IF file[dump_db_name] # None THEN file[dump_db_name] ELSE file[input_db_name]

-----------------------------------------------------------------------------
(* The server: the parts of main_loop() that concern its database. *)

Alive == server.at \notin Stopped
InLoop == server.at = "loop" /\ status = None
Running(g) == child[g].at \in Dumping
Busy == \E g \in Generations : child[g].at # "none"

\* run_ready_tasks(): tasks change the database.
Change ==
  /\ InLoop
  /\ version < MaxVersion
  /\ version' = version + 1
  /\ UNCHANGED <<file, server, dump_generation, child, checkpoint_requested,
                 shutdown_message, signals, history, saved, disturbed>>

\* dump_database(), the timer, SIGUSR2.  The bound leaves a generation for the
\* dump at shutdown.
Request ==
  /\ Alive
  /\ ~checkpoint_requested
  /\ dump_generation < MaxGeneration - 1
  /\ checkpoint_requested' = TRUE
  /\ UNCHANGED <<file, server, version, dump_generation, child, shutdown_message,
                 signals, history, saved, disturbed>>

\* shutdown(), SIGINT, SIGTERM, SIGUSR1
Shutdown ==
  /\ Alive
  /\ ~shutdown_message
  /\ shutdown_message' = TRUE
  /\ UNCHANGED <<file, server, version, dump_generation, child,
                 checkpoint_requested, signals, history, saved, disturbed>>

\* db_flush(FLUSH_ALL_NOW), up to the fork()
checkpoint ==
  /\ InLoop
  /\ ~shutdown_message
  /\ checkpoint_requested
  /\ dump_generation < MaxGeneration - 1
  /\ checkpoint_requested' = FALSE
  /\ file' = removed(dump_generation)
  /\ dump_generation' = dump_generation + 1
  /\ disturbed' = (disturbed \/ Busy)

Fork ==
  /\ checkpoint
  /\ child' = [child EXCEPT ![dump_generation + 1] =
                 [at |-> "open", version |-> version, ok |-> FALSE]]
  /\ UNCHANGED <<server, version, shutdown_message, signals, history, saved>>

\* The notifier runs at once, with 0.
ForkFails ==
  /\ "fork" \in Failures
  /\ checkpoint
  /\ UNCHANGED <<server, version, child, shutdown_message, signals, history, saved>>

\* Signals are still handled while #0:checkpoint_finished() runs.
NotifyBegins ==
  /\ InLoop
  /\ checkpoint_finished # 0
  /\ server' = [server EXCEPT !.at = "notify"]
  /\ UNCHANGED <<file, version, dump_generation, child, checkpoint_requested,
                 shutdown_message, signals, history, saved, disturbed>>

NotifyEnds ==
  /\ server.at = "notify" /\ status = None
  /\ server' = [server EXCEPT !.at = "loop"]
  /\ checkpoint_finished' = 0
  /\ UNCHANGED <<file, version, dump_generation, child, checkpoint_requested,
                 shutdown_message, sigchld, status, history, saved, disturbed>>

-----------------------------------------------------------------------------
(* child_completed_signal(): it interrupts the server anywhere. *)

HandlerBegins ==
  /\ Alive
  /\ sigchld
  /\ status = None
  /\ sigchld' = FALSE
  /\ status' = "unset"
  /\ UNCHANGED <<file, server, version, dump_generation, child,
                 checkpoint_requested, shutdown_message, checkpoint_finished,
                 history, saved, disturbed>>

Waitpid(g) ==
  /\ Alive
  /\ status # None
  /\ child[g].at = "zombie"
  /\ status' = IF child[g].ok THEN "0" ELSE "1"
  /\ child' = [child EXCEPT ![g] = NoChild]
  /\ UNCHANGED <<file, server, version, dump_generation, checkpoint_requested,
                 shutdown_message, sigchld, checkpoint_finished, history, saved,
                 disturbed>>

\* Mutant: an if instead of the while around waitpid().
Bug_all_reaped == status = "unset" => \A g \in Generations : child[g].at # "zombie"

all_reaped == \A g \in Generations : child[g].at # "zombie"

\* Mutant: (status != 0) + 1.
Bug_reported == CASE status = "0" -> {1}
                  [] status = "1" -> {2}
                  [] OTHER        -> {1, 2}

\* A second SIGCHLD, pending while the first handler ran, may find no child left:
\* the status is then what the stack held.
reported == CASE status = "0" -> {2}
              [] status = "1" -> {1}
              [] OTHER        -> {1, 2}

HandlerReturns ==
  /\ Alive
  /\ status # None
  /\ all_reaped
  /\ checkpoint_finished' \in reported
  /\ status' = None
  /\ UNCHANGED <<file, server, version, dump_generation, child,
                 checkpoint_requested, shutdown_message, sigchld, history, saved,
                 disturbed>>

-----------------------------------------------------------------------------
(* dump_database() in a checkpointer: child g writes generation g.  The child *)
(* of a server that is gone is waited for by init.                           *)

Ends(g, ok) ==
  /\ child' = [child EXCEPT ![g] = IF Alive THEN [@ EXCEPT !.at = "zombie", !.ok = ok]
                                   ELSE NoChild]
  /\ sigchld' = Alive

Goes(g, at) ==
  /\ child' = [child EXCEPT ![g].at = at]
  /\ UNCHANGED sigchld

ChildStep(g, at) ==
  /\ child[g].at = at
  /\ UNCHANGED <<server, version, dump_generation, checkpoint_requested, status,
                 checkpoint_finished, history>>

ChildOpens(g) ==
  /\ ChildStep(g, "open")
  /\ file' = begun(g, child[g].version)
  /\ Goes(g, "write")
  /\ UNCHANGED <<shutdown_message, saved, disturbed>>

ChildOpenFails(g) ==
  /\ "open" \in Failures
  /\ ChildStep(g, "open")
  /\ Ends(g, FALSE)
  /\ UNCHANGED <<file, shutdown_message, saved, disturbed>>

ChildWrites(g) ==
  /\ ChildStep(g, "write")
  /\ file' \in closed(g)
  /\ Goes(g, "remove")
  /\ UNCHANGED <<shutdown_message, saved, disturbed>>

\* Mutant: the checkpoint is not abandoned.
Bug_ChildWriteFails(g) ==
  /\ "write" \in Failures
  /\ ChildStep(g, "write")
  /\ Goes(g, "remove")
  /\ UNCHANGED <<file, shutdown_message, saved, disturbed>>

ChildWriteFails(g) ==
  /\ "write" \in Failures
  /\ ChildStep(g, "write")
  /\ file' = removed(g)
  /\ Ends(g, FALSE)
  /\ UNCHANGED <<shutdown_message, saved, disturbed>>

\* Mutant: the temporary file is removed.
Bug_ChildRemoves(g) ==
  /\ ChildStep(g, "remove")
  /\ file' = removed(g)
  /\ Goes(g, "rename")
  /\ UNCHANGED <<shutdown_message, saved, disturbed>>

ChildRemoves(g) ==
  /\ ChildStep(g, "remove")
  /\ file' = removed(dump_db_name)
  /\ Goes(g, "rename")
  /\ UNCHANGED <<shutdown_message, saved, disturbed>>

ChildRenames(g) ==
  /\ ChildStep(g, "rename")
  /\ file[g] # None
  /\ file' = renamed(g)
  /\ saved' = child[g].version
  /\ Ends(g, TRUE)
  /\ UNCHANGED <<shutdown_message, disturbed>>

ChildRenameFails(g) ==
  /\ ChildStep(g, "rename")
  /\ file[g] = None
  /\ Ends(g, FALSE)
  /\ UNCHANGED <<file, shutdown_message, saved, disturbed>>

\* Killed, or server_panic() in the child, which shuts its parent down.
ChildDies(g) ==
  /\ "child" \in Kills
  /\ Running(g)
  /\ ChildStep(g, child[g].at)
  /\ disturbed' = (disturbed \/ child[g].at = "rename")
  /\ Ends(g, FALSE)
  /\ shutdown_message' \in {shutdown_message, Alive \/ shutdown_message}
  /\ UNCHANGED <<file, saved>>

-----------------------------------------------------------------------------
(* dump_database() in the server itself *)

temp_name == IF server.reason = "panic" THEN PANIC_name ELSE dump_generation

DumpStep(at) ==
  /\ server.at = at
  /\ status = None
  /\ UNCHANGED <<version, checkpoint_requested, status, checkpoint_finished, history>>

\* The server is gone: nobody waits for its children any more.
Stops(how) ==
  /\ server' = [server EXCEPT !.at = how]
  /\ child' = [g \in Generations |->
                 IF child[g].at = "zombie" THEN NoChild ELSE child[g]]
  /\ sigchld' = FALSE

Continues(at) ==
  /\ server' = [server EXCEPT !.at = at]
  /\ UNCHANGED <<child, sigchld>>

\* main_loop() returns, and main() calls db_shutdown().
LoopEnds ==
  /\ shutdown_message
  /\ DumpStep("loop")
  /\ Continues("begin")
  /\ UNCHANGED <<file, dump_generation, shutdown_message, saved, disturbed>>

\* server_panic() in the main loop
Panic ==
  /\ "server" \in Kills
  /\ DumpStep("loop")
  /\ server' = [at |-> "begin", reason |-> "panic"]
  /\ UNCHANGED <<file, dump_generation, child, sigchld, shutdown_message, saved,
                 disturbed>>

\* From retryDumping to fopen()
DumpBegins ==
  /\ DumpStep("begin")
  /\ file' = removed(dump_generation)
  /\ dump_generation' = IF server.reason = "panic" THEN dump_generation
                        ELSE dump_generation + 1
  /\ disturbed' = (disturbed \/ Busy)
  /\ Continues("open")
  /\ UNCHANGED <<shutdown_message, saved>>

DumpOpens ==
  /\ DumpStep("open")
  /\ file' = begun(temp_name, version)
  /\ Continues("write")
  /\ UNCHANGED <<dump_generation, shutdown_message, saved, disturbed>>

DumpOpenFails ==
  /\ "open" \in Failures
  /\ DumpStep("open")
  /\ Stops("failed")
  /\ UNCHANGED <<file, dump_generation, shutdown_message, saved, disturbed>>

\* A panic dump is left where it is.
DumpWrites ==
  /\ DumpStep("write")
  /\ file' \in closed(temp_name)
  /\ IF server.reason = "panic" THEN Stops("failed") ELSE Continues("remove")
  /\ UNCHANGED <<dump_generation, shutdown_message, saved, disturbed>>

\* Mutant: the dump is given up.
Bug_DumpWriteFails ==
  /\ "write" \in Failures
  /\ dump_generation < MaxGeneration
  /\ DumpStep("write")
  /\ file' = removed(temp_name)
  /\ Stops("exited")
  /\ UNCHANGED <<dump_generation, shutdown_message, saved, disturbed>>

\* Retried after a minute; the bound leaves a generation for the last try.
DumpWriteFails ==
  /\ "write" \in Failures
  /\ dump_generation < MaxGeneration
  /\ DumpStep("write")
  /\ file' = removed(temp_name)
  /\ Continues("begin")
  /\ UNCHANGED <<dump_generation, shutdown_message, saved, disturbed>>

DumpRemoves ==
  /\ DumpStep("remove")
  /\ file' = removed(dump_db_name)
  /\ Continues("rename")
  /\ UNCHANGED <<dump_generation, shutdown_message, saved, disturbed>>

\* Nobody else removes this file.
DumpRenames ==
  /\ DumpStep("rename")
  /\ file' = renamed(dump_generation)
  /\ saved' = version
  /\ Stops("exited")
  /\ UNCHANGED <<dump_generation, shutdown_message, disturbed>>

\* kill -9, a second panic, a machine that stops
Killed ==
  /\ "server" \in Kills
  /\ Alive
  /\ Stops("killed")
  /\ disturbed' = (disturbed \/ server.at = "rename")
  /\ UNCHANGED <<file, version, dump_generation, checkpoint_requested,
                 shutdown_message, status, checkpoint_finished, history, saved>>

\* scripts/restart.sh, db_initialize() and db_load(), when no checkpointer of the
\* last server is left.
Restart ==
  /\ ~Alive
  /\ ~Busy
  /\ restarts < MaxRestarts
  /\ Loadable.whole
  /\ restarts' = restarts + 1
  /\ file' = [file EXCEPT ![input_db_name] = Loadable, ![dump_db_name] = None]
  /\ version' = Loadable.version
  /\ loaded' = Loadable.version
  /\ saved' = Loadable.version
  /\ disturbed' = FALSE
  /\ server' = [at |-> "loop", reason |-> "shutdown"]
  /\ dump_generation' = 0
  /\ child' = [g \in Generations |-> NoChild]
  /\ checkpoint_requested' = FALSE
  /\ shutdown_message' = FALSE
  /\ sigchld' = FALSE
  /\ status' = None
  /\ checkpoint_finished' = 0

-----------------------------------------------------------------------------
ChildNext(g) ==
  \/ ChildOpens(g) \/ ChildOpenFails(g)
  \/ ChildWrites(g) \/ ChildWriteFails(g)
  \/ ChildRemoves(g)
  \/ ChildRenames(g) \/ ChildRenameFails(g)
  \/ ChildDies(g)

Next ==
  \/ Change \/ Request \/ Shutdown
  \/ Fork \/ ForkFails
  \/ NotifyBegins \/ NotifyEnds
  \/ HandlerBegins \/ HandlerReturns
  \/ LoopEnds \/ Panic
  \/ DumpBegins \/ DumpOpens \/ DumpOpenFails \/ DumpWrites \/ DumpWriteFails
  \/ DumpRemoves \/ DumpRenames
  \/ Killed \/ Restart
  \/ \E g \in Generations : Waitpid(g) \/ ChildNext(g)

Spec == Init /\ [][Next]_vars

-----------------------------------------------------------------------------
(* Properties *)

\* Every variable has its type (db_file.c and server.c).
TypeOK ==
  /\ file \in [FileNames -> Files \cup {None}]
  /\ server \in [at : Dumping \cup Stopped \cup {"loop", "notify"},
                 reason : {"shutdown", "panic"}]
  /\ version \in Versions
  /\ dump_generation \in Generations
  /\ child \in [Generations -> [at : Dumping \cup {"none", "zombie"},
                                version : Versions, ok : BOOLEAN]]
  /\ checkpoint_requested \in BOOLEAN
  /\ shutdown_message \in BOOLEAN
  /\ sigchld \in BOOLEAN
  /\ status \in {None, "unset", "0", "1"}
  /\ checkpoint_finished \in 0..2
  /\ restarts \in 0..MaxRestarts
  /\ loaded \in Versions
  /\ saved \in Versions
  /\ disturbed \in BOOLEAN

\* The write-then-rename of dump_database(): whenever the server stops, however
\* many checkpointers ran at once or died, the file restart.sh would load is a
\* whole database, and none older than the one this server was started with.
RestartLoads == Loadable # None /\ Loadable.whole /\ Loadable.version >= loaded

Swapping == server.at = "rename" \/ \E g \in Generations : child[g].at = "rename"

\* dump_database(): as long as dumps do not overlap and none dies in its swap,
\* what restart.sh would load is the last dump that was swapped into place, and in
\* the middle of a swap a whole newer database is there beside the old input.
SavedIsLoaded ==
  ~disturbed =>
    IF Swapping
    THEN \E f \in Generations : file[f] # None /\ file[f].whole /\ file[f].version >= saved
    ELSE Loadable = [version |-> saved, whole |-> TRUE]

\* child_completed_signal(): as long as dumps do not overlap, success is reported
\* only when this server did put a dump into place, or is putting the next one.
SuccessIsTrue ==
  ~disturbed /\ Alive /\ checkpoint_finished = 2 => file[dump_db_name] # None \/ Swapping

\* db_shutdown(): as long as dumps do not overlap, main() returns from it with the
\* server's last state in the file the next server is started with.
ShutdownSaves ==
  ~disturbed /\ server.at = "exited" => Loadable = [version |-> version, whole |-> TRUE]

\* child_completed_signal()'s loop: SIGCHLDs merge, yet no checkpointer that ended
\* is forgotten: a signal is pending for it or the handler has not left its loop.
ZombiesAreReaped ==
  Alive /\ (\E g \in Generations : child[g].at = "zombie") => sigchld \/ status # None

\* What include/db.h:98-102 says of db_shutdown(): all pending changes are flushed
\* to disk when it returns.
DbShutdownFlushesAll ==
  server.at = "exited" => Loadable.version = version
=============================================================================
