-------------------------- MODULE CheckpointProofs --------------------------
(***************************************************************************)
(* Proofs about Checkpoint.                                                *)
(*                                                                         *)
(* Checkpointers that overlap, fail or are killed share three names on the *)
(* disk.  The inductive invariant says who owns each temporary file        *)
(* (Owners) and what is in it (ChildWritten, ServerWritten), how old the   *)
(* databases are (Ordered), what is under the two names restart.sh looks   *)
(* at (OnDisk), and, for as long as dumps do not overlap, that there is    *)
(* one dump at most (OneDump), how far it is (Calm) and what the signal    *)
(* handler has heard of it (Heard).                                        *)
(***************************************************************************)
EXTENDS Checkpoint, TLAPS

\* The file f holds version v, to the end unless fclose() can fail.
Holds(f, v) ==
  /\ file[f] # None
  /\ file[f].version = v
  /\ "close" \notin Failures => file[f].whole

ServerDumps == server.at \in Dumping \ {"begin"}

\* A temporary file is written by the checkpointer of its generation, or by the
\* server once it has taken the last generation or PANIC_name.
Owners ==
  /\ \A g \in Generations : child[g].at # "none" => g <= dump_generation
  /\ \A g \in Generations : child[g].at # "begin"
  /\ ServerDumps /\ server.reason = "shutdown" =>
       \A g \in Generations : child[g].at # "none" => g < dump_generation
  /\ server.at \in {"loop", "notify", "remove", "rename", "exited"} =>
       server.reason = "shutdown"
  /\ server.at \in {"loop", "notify", "begin"} /\ server.reason = "shutdown" =>
       dump_generation < MaxGeneration

\* What a checkpointer finds in its temporary file, if the next dump has not removed
\* it.
ChildWritten ==
  /\ \A g \in Generations : child[g].at = "write" /\ file[g] # None =>
       file[g].version = child[g].version
  /\ \A g \in Generations : child[g].at \in {"remove", "rename"} /\ file[g] # None =>
       Holds(g, child[g].version)

\* What the server finds in its own, which nobody else touches.
ServerWritten ==
  /\ server.at = "write" => file[temp_name] # None /\ file[temp_name].version = version
  /\ server.at \in {"remove", "rename"} => Holds(dump_generation, version)

\* Nothing that this server dumps is older than what it was started with.
Ordered ==
  /\ loaded <= saved
  /\ saved <= version
  /\ \A g \in Generations : Running(g) =>
       loaded <= child[g].version /\ child[g].version <= version

\* The two files that restart.sh may load.
OnDisk ==
  /\ file[input_db_name] = [version |-> loaded, whole |-> TRUE]
  /\ file[dump_db_name] # None =>
       /\ file[dump_db_name].version >= loaded
       /\ "close" \notin Failures => file[dump_db_name].whole

\* Until dumps overlap there is one checkpointer at most, and none beside a dump of
\* the server's own.
OneDump ==
  ~disturbed =>
    /\ \A g, h \in Generations : child[g].at # "none" /\ child[h].at # "none" => g = h
    /\ ServerDumps \/ server.at = "exited" => ~Busy

\* Until dumps overlap the temporary file stays where it is, and outside a swap the
\* last dump is in its place.
Calm ==
  ~disturbed =>
    /\ \A g \in Generations : child[g].at = "write" => file[g] # None
    /\ \A g \in Generations : child[g].at \in {"remove", "rename"} => file[g] # None
    /\ \A g \in Generations : Running(g) => saved <= child[g].version
    /\ ~Swapping => \/ Holds(dump_db_name, saved)
                    \/ file[dump_db_name] = None /\ saved = loaded
    /\ server.at = "exited" => saved = version

\* There is a dump in place, or one is being put there.
InPlace == file[dump_db_name] # None \/ Swapping

\* Until dumps overlap there is one SIGCHLD to a checkpointer, so that the handler
\* always finds a child; and what it reports as a success is one.
Heard ==
  ~disturbed /\ Alive =>
    /\ sigchld => status = None /\ \E g \in Generations : child[g].at = "zombie"
    /\ status = "unset" => \E g \in Generations : child[g].at = "zombie"
    /\ status \in {"0", "1"} => ~Busy
    /\ \A g \in Generations : child[g].at = "zombie" /\ child[g].ok => InPlace
    /\ status = "0" => InPlace
    /\ checkpoint_finished = 2 => InPlace

\* The inductive invariant.
CheckpointInv ==
  /\ TypeOK
  /\ Owners
  /\ ChildWritten
  /\ ServerWritten
  /\ Ordered
  /\ OnDisk
  /\ OneDump
  /\ Calm
  /\ Heard
  /\ ZombiesAreReaped

-----------------------------------------------------------------------------
(* The disk. *)

\* No two of the names that dump_database() makes, and restart.sh knows, are the
\* same.
LEMMA Names ==
  /\ {input_db_name, dump_db_name, PANIC_name} \subseteq FileNames
  /\ Generations \subseteq FileNames
  /\ input_db_name # dump_db_name /\ input_db_name # PANIC_name
  /\ dump_db_name # PANIC_name
  /\ {input_db_name, dump_db_name, PANIC_name} \cap Generations = {}
BY CheckpointAssumption
   DEF FileNames, Generations, input_db_name, dump_db_name, PANIC_name

\* A file is not the absence of one.
LEMMA NoneIsNoFile == None \notin Files
BY CheckpointAssumption DEF Files, Versions

\* remove()
LEMMA Removed ==
  ASSUME TypeOK, NEW f \in FileNames, file' = removed(f)
  PROVE  /\ file' \in [FileNames -> Files \cup {None}]
         /\ file'[f] = None
         /\ \A e \in FileNames \ {f} : file'[e] = file[e]
         /\ \A e \in FileNames : file'[e] \in {file[e], None}
BY DEF TypeOK, removed

\* fopen() for writing
LEMMA Begun ==
  ASSUME TypeOK, NEW f \in FileNames, NEW v \in Versions, file' = begun(f, v)
  PROVE  /\ file' \in [FileNames -> Files \cup {None}]
         /\ file'[f] # None /\ file'[f].version = v
         /\ \A e \in FileNames \ {f} : file'[e] = file[e]
<1> DEFINE r == [version |-> v, whole |-> FALSE]
<1>1. r \in Files /\ r.version = v
  BY DEF Files
<1>2. file' = [file EXCEPT ![f] = r]
  BY DEF begun
<1> HIDE DEF r
<1> QED
  BY <1>1, <1>2, NoneIsNoFile DEF TypeOK

\* fclose() of what was written: no version changes, and without a failure of
\* fclose() the file is whole.
LEMMA Closed ==
  ASSUME TypeOK, NEW f \in FileNames, file' \in closed(f)
  PROVE  /\ file' \in [FileNames -> Files \cup {None}]
         /\ file[f] = None => file'[f] = None
         /\ file[f] # None =>
              /\ file'[f] # None
              /\ file'[f].version = file[f].version
              /\ "close" \notin Failures => file'[f].whole
         /\ \A e \in FileNames \ {f} : file'[e] = file[e]
<1>1. CASE file' = file /\ "close" \in Failures
  BY <1>1 DEF TypeOK
<1>2. CASE file' = completed(f)
  <2>1. CASE file[f] = None
    BY <1>2, <2>1 DEF completed, TypeOK
  <2>2. CASE file[f] # None
    <3> DEFINE r == [file[f] EXCEPT !.whole = TRUE]
    <3>1. file[f] \in Files
      BY <2>2 DEF TypeOK
    <3>2. r \in Files /\ r.version = file[f].version /\ r.whole
      BY <3>1 DEF Files
    <3>3. file' = [file EXCEPT ![f] = r]
      BY <1>2, <2>2 DEF completed
    <3> HIDE DEF r
    <3>4. file'[f] = r /\ r # None
      BY <3>2, <3>3, NoneIsNoFile DEF TypeOK
    <3> QED
      BY <2>2, <3>2, <3>3, <3>4 DEF TypeOK
  <2> QED
    BY <2>1, <2>2
<1> QED
  BY <1>1, <1>2 DEF closed

\* rename() of a temporary file to dump_db_name
LEMMA Renamed ==
  ASSUME TypeOK, NEW f \in FileNames, f # dump_db_name, file' = renamed(f)
  PROVE  /\ file' \in [FileNames -> Files \cup {None}]
         /\ file'[f] = None
         /\ file'[dump_db_name] = file[f]
         /\ \A e \in FileNames \ {f, dump_db_name} : file'[e] = file[e]
BY Names DEF TypeOK, renamed

-----------------------------------------------------------------------------
(* The processes. *)

ChildRecords == [at : Dumping \cup {"none", "zombie"}, version : Versions, ok : BOOLEAN]

\* There is always a slot for no checkpointer.
LEMMA NoChildIsOne == NoChild \in ChildRecords
BY CheckpointAssumption DEF NoChild, ChildRecords, Versions

\* A checkpointer that ends is a zombie of the server, if there is still one: no
\* other changes.
LEMMA Ended ==
  ASSUME TypeOK, NEW g \in Generations, NEW ok \in BOOLEAN, Ends(g, ok)
  PROVE  /\ child' \in [Generations -> ChildRecords]
         /\ child'[g].at = (IF Alive THEN "zombie" ELSE "none")
         /\ Alive => child'[g].ok = ok
         /\ \A h \in Generations \ {g} : child'[h] = child[h]
         /\ sigchld' = Alive /\ sigchld' \in BOOLEAN
<1> DEFINE r == [child[g] EXCEPT !.at = "zombie", !.ok = ok]
<1>1. child[g] \in ChildRecords
  BY DEF TypeOK, ChildRecords
<1>2. r \in ChildRecords /\ r.at = "zombie" /\ r.ok = ok
  BY <1>1 DEF ChildRecords
<1>3. NoChild.at = "none"
  BY DEF NoChild
<1>4. child' = [child EXCEPT ![g] = IF Alive THEN r ELSE NoChild]
  BY DEF Ends
<1>5. child \in [Generations -> ChildRecords]
  BY DEF TypeOK, ChildRecords
<1>6. sigchld' = Alive /\ sigchld' \in BOOLEAN
  BY DEF Ends, Alive
<1> HIDE DEF r
<1> QED
  BY <1>2, <1>3, <1>4, <1>5, <1>6, NoChildIsOne

\* A checkpointer goes on.
LEMMA Gone ==
  ASSUME TypeOK, NEW g \in Generations, NEW at \in Dumping, Goes(g, at)
  PROVE  /\ child' \in [Generations -> ChildRecords]
         /\ child'[g].at = at /\ child'[g].version = child[g].version
         /\ \A h \in Generations \ {g} : child'[h] = child[h]
         /\ UNCHANGED sigchld
<1> DEFINE r == [child[g] EXCEPT !.at = at]
<1>1. child \in [Generations -> ChildRecords]
  BY DEF TypeOK, ChildRecords
<1>2. r \in ChildRecords /\ r.at = at /\ r.version = child[g].version
  BY <1>1 DEF ChildRecords
<1>3. child' = [child EXCEPT ![g] = r] /\ UNCHANGED sigchld
  BY DEF Goes
<1> HIDE DEF r
<1>4. child'[g] = r /\ child' \in [Generations -> ChildRecords]
  BY <1>1, <1>2, <1>3
<1> QED
  BY <1>1, <1>2, <1>3, <1>4

\* A server that stops leaves its zombies to init, and its other checkpointers
\* running.
LEMMA Stopping ==
  ASSUME TypeOK, NEW how \in Stopped, Stops(how)
  PROVE  /\ child' \in [Generations -> ChildRecords]
         /\ \A h \in Generations : child'[h].at # "zombie"
         /\ \A h \in Generations :
              child'[h] = IF child[h].at = "zombie" THEN NoChild ELSE child[h]
         /\ server'.at = how /\ server'.reason = server.reason
         /\ server' \in [at : Dumping \cup Stopped \cup {"loop", "notify"},
                         reason : {"shutdown", "panic"}]
         /\ sigchld' = FALSE
<1>1. child \in [Generations -> ChildRecords]
  BY DEF TypeOK, ChildRecords
<1>2. \A h \in Generations :
        child'[h] = IF child[h].at = "zombie" THEN NoChild ELSE child[h]
  BY DEF Stops
<1>3. NoChild.at = "none"
  BY DEF NoChild
<1>4. child' = [h \in Generations |->
                  IF child[h].at = "zombie" THEN NoChild ELSE child[h]]
  BY DEF Stops
<1>5. child' \in [Generations -> ChildRecords]
  BY <1>1, <1>4, NoChildIsOne
<1>6. /\ server'.at = how /\ server'.reason = server.reason
      /\ server' \in [at : Dumping \cup Stopped \cup {"loop", "notify"},
                      reason : {"shutdown", "panic"}]
      /\ sigchld' = FALSE
  BY DEF Stops, TypeOK
<1> QED
  BY <1>2, <1>3, <1>5, <1>6

-----------------------------------------------------------------------------
(* The temporary files. *)

\* While the server dumps, its temporary file is neither a checkpointer's nor one of
\* those that restart.sh knows.
LEMMA OwnFile ==
  ASSUME TypeOK, Owners, ServerDumps
  PROVE  /\ temp_name \in FileNames \ {input_db_name, dump_db_name}
         /\ \A g \in Generations : child[g].at # "none" => temp_name # g
<1>1. CASE server.reason = "panic"
  BY <1>1, Names DEF temp_name
<1>2. CASE server.reason = "shutdown"
  <2>1. temp_name = dump_generation /\ dump_generation \in Generations
    BY <1>2 DEF temp_name, TypeOK
  <2>2. \A g \in Generations : child[g].at # "none" => dump_generation # g
    BY <1>2 DEF Owners, Generations
  <2> QED
    BY <2>1, <2>2, Names
<1> QED
  BY <1>1, <1>2 DEF TypeOK

\* The server's temporary file is as it was when nobody wrote it and the server did
\* not go on.
LEMMA ServerFileKept ==
  ASSUME TypeOK, Owners, ServerWritten, UNCHANGED <<server, version, dump_generation>>,
         ServerDumps => file'[temp_name] = file[temp_name]
  PROVE  ServerWritten'
<1>1. temp_name' = temp_name
  BY DEF temp_name
<1>2. server.at \in {"remove", "rename"} => temp_name = dump_generation
  BY DEF Owners, temp_name
<1> QED
  BY <1>1, <1>2 DEF ServerWritten, ServerDumps, Dumping, Holds

\* So are the checkpointers', when they did not go on and their files were left alone
\* or removed.
LEMMA ChildFilesKept ==
  ASSUME ChildWritten,
         \A h \in Generations :
           child'[h].at \in {"write", "remove", "rename"} =>
             child'[h] = child[h] /\ file'[h] \in {file[h], None}
  PROVE  ChildWritten'
BY DEF ChildWritten, Holds

\* The database the server was started with is a database.
LEMMA InputIsFile ==
  ASSUME NEW v \in Versions
  PROVE  [version |-> v, whole |-> TRUE] \in Files
BY DEF Files

-----------------------------------------------------------------------------
(* The steps. *)

\* The server changes its database: the new version is the newest.
LEMMA ChangeInv ==
  ASSUME CheckpointInv, Change
  PROVE  CheckpointInv'
<1> USE DEF CheckpointInv
<1>1. TypeOK'
  BY CheckpointAssumption, Names
  DEF Change, Dumping, Files, Generations, InLoop, Owners, ServerDumps, Stopped,
      TypeOK, Versions, history, signals
<1>2. Owners'
  BY DEF Change, Dumping, InLoop, Owners, ServerDumps, history, signals
<1>3. ChildWritten'
  BY DEF Change, ChildWritten, Holds, InLoop, history, signals
<1>4. ServerWritten'
  BY DEF Change, Holds, InLoop, ServerWritten, history, signals, temp_name
<1>5. Ordered'
  BY DEF Change, Dumping, Files, InLoop, Ordered, Owners, Running, ServerDumps,
         Stopped, TypeOK, Versions, history, signals
<1>6. OnDisk'
  BY DEF Change, InLoop, OnDisk, history, signals
<1>7. OneDump'
  BY DEF Busy, Change, Dumping, InLoop, OneDump, ServerDumps, history, signals
<1>8. Calm'
  BY DEF Calm, Change, Dumping, Holds, InLoop, Running, Swapping, history, signals
<1>9. Heard'
  BY DEF Alive, Busy, Change, Heard, InLoop, InPlace, Stopped, Swapping, history,
         signals
<1>10. ZombiesAreReaped'
  BY DEF Alive, Change, InLoop, Stopped, ZombiesAreReaped, history, signals
<1> QED
  BY <1>1, <1>2, <1>3, <1>4, <1>5, <1>6, <1>7, <1>8, <1>9, <1>10

\* A checkpoint is asked for.
LEMMA RequestInv ==
  ASSUME CheckpointInv, Request
  PROVE  CheckpointInv'
<1> USE DEF CheckpointInv
<1>1. TypeOK'
  BY DEF Alive, Dumping, Generations, Request, Stopped, TypeOK, history, signals
<1>2. Owners'
  BY DEF Alive, Dumping, Owners, Request, ServerDumps, Stopped, history, signals
<1>3. ChildWritten'
  BY DEF Alive, ChildWritten, Holds, Request, Stopped, history, signals
<1>4. ServerWritten'
  BY DEF Alive, Holds, Request, ServerWritten, Stopped, history, signals, temp_name
<1>5. Ordered'
  BY DEF Alive, Dumping, Ordered, Request, Running, Stopped, history, signals
<1>6. OnDisk'
  BY DEF Alive, OnDisk, Request, Stopped, history, signals
<1>7. OneDump'
  BY DEF Alive, Busy, Dumping, OneDump, Request, ServerDumps, Stopped, history,
         signals
<1>8. Calm'
  BY DEF Alive, Calm, Dumping, Holds, Request, Running, Stopped, Swapping, history,
         signals
<1>9. Heard'
  BY DEF Alive, Busy, Heard, InPlace, Request, Stopped, Swapping, history, signals
<1>10. ZombiesAreReaped'
  BY DEF Alive, Request, Stopped, ZombiesAreReaped, history, signals
<1> QED
  BY <1>1, <1>2, <1>3, <1>4, <1>5, <1>6, <1>7, <1>8, <1>9, <1>10

\* A shutdown is asked for.
LEMMA ShutdownInv ==
  ASSUME CheckpointInv, Shutdown
  PROVE  CheckpointInv'
<1> USE DEF CheckpointInv
<1>1. TypeOK'
  BY DEF Alive, Dumping, Generations, Shutdown, Stopped, TypeOK, history, signals
<1>2. Owners'
  BY DEF Alive, Dumping, Owners, ServerDumps, Shutdown, Stopped, history, signals
<1>3. ChildWritten'
  BY DEF Alive, ChildWritten, Holds, Shutdown, Stopped, history, signals
<1>4. ServerWritten'
  BY DEF Alive, Holds, ServerWritten, Shutdown, Stopped, history, signals, temp_name
<1>5. Ordered'
  BY DEF Alive, Dumping, Ordered, Running, Shutdown, Stopped, history, signals
<1>6. OnDisk'
  BY DEF Alive, OnDisk, Shutdown, Stopped, history, signals
<1>7. OneDump'
  BY DEF Alive, Busy, Dumping, OneDump, ServerDumps, Shutdown, Stopped, history,
         signals
<1>8. Calm'
  BY DEF Alive, Calm, Dumping, Holds, Running, Shutdown, Stopped, Swapping, history,
         signals
<1>9. Heard'
  BY DEF Alive, Busy, Heard, InPlace, Shutdown, Stopped, Swapping, history, signals
<1>10. ZombiesAreReaped'
  BY DEF Alive, Shutdown, Stopped, ZombiesAreReaped, history, signals
<1> QED
  BY <1>1, <1>2, <1>3, <1>4, <1>5, <1>6, <1>7, <1>8, <1>9, <1>10

\* A checkpointer is forked: its version is the server's, and its temporary name is
\* that of the new generation, which nobody has used.
LEMMA ForkInv ==
  ASSUME CheckpointInv, Fork
  PROVE  CheckpointInv'
<1> USE DEF CheckpointInv
<1>1. /\ file' \in [FileNames -> Files \cup {None}]
      /\ file'[dump_generation] = None
      /\ \A e \in FileNames \ {dump_generation} : file'[e] = file[e]
      /\ \A e \in FileNames : file'[e] \in {file[e], None}
  BY Removed, Names, CheckpointAssumption
  DEF Fork, Generations, InLoop, Owners, TypeOK, checkpoint
<1>2. /\ dump_generation + 1 \in Generations
      /\ child' \in [Generations -> ChildRecords]
      /\ child'[dump_generation + 1].at = "open"
      /\ child'[dump_generation + 1].version = version
      /\ \A h \in Generations \ {dump_generation + 1} : child'[h] = child[h]
  BY CheckpointAssumption
  DEF ChildRecords, Dumping, Fork, Generations, InLoop, Owners, TypeOK,
      checkpoint
<1>3. TypeOK'
  BY <1>1, <1>2
  DEF Busy, ChildRecords, Dumping, Fork, Generations, InLoop, Stopped, TypeOK,
      checkpoint, history, signals
<1>4. Owners'
  BY CheckpointAssumption, Names, <1>1, <1>2
  DEF Busy, ChildRecords, Dumping, Files, Fork, Generations, InLoop, Owners,
      ServerDumps, Stopped, TypeOK, Versions, checkpoint, history, signals
<1>5. ChildWritten'
  <2>1. \A h \in Generations : h # dump_generation + 1 => child'[h] = child[h]
    BY <1>2
  <2>2. \A h \in Generations : file'[h] \in {file[h], None}
    BY <1>1, Names
  <2> QED
    BY <1>2, <2>1, <2>2, ChildFilesKept
<1>6. ServerWritten'
  BY <1>1, <1>2
  DEF Busy, ChildRecords, Dumping, Fork, Holds, InLoop, ServerWritten,
      checkpoint, history, signals, temp_name
<1>7. Ordered'
  BY <1>1, <1>2
  DEF Busy, ChildRecords, Dumping, Files, Fork, Generations, InLoop, Ordered,
      Owners, Running, ServerDumps, Stopped, TypeOK, Versions, checkpoint,
      history, signals
<1>8. OnDisk'
  BY CheckpointAssumption, Names, <1>1, <1>2
  DEF Busy, ChildRecords, ChildWritten, Dumping, Files, Fork, Generations, Holds,
      InLoop, OnDisk, Ordered, Owners, Running, ServerDumps, ServerWritten,
      Stopped, TypeOK, Versions, checkpoint, history, signals, temp_name
<1>9. OneDump'
  <2> SUFFICES ASSUME ~disturbed'
               PROVE  OneDump'
    BY DEF OneDump
  <2>1. \A h \in Generations : h # dump_generation + 1 => child'[h].at = "none"
    BY <1>2 DEF Fork, checkpoint, Busy
  <2>2. server'.at = "loop"
    BY DEF Fork, checkpoint, InLoop
  <2> QED
    BY <2>1, <2>2 DEF OneDump, ServerDumps, Dumping
<1>10. Calm'
  <2> SUFFICES ASSUME ~disturbed'
               PROVE  Calm'
    BY DEF Calm
  <2>1. ~disturbed /\ ~Busy
    BY DEF Fork, checkpoint
  <2>2. \A h \in Generations : child'[h].at # "none" =>
          child'[h].at = "open" /\ child'[h].version = version
    BY <1>2, <2>1 DEF Busy
  <2>3. file'[dump_db_name] = file[dump_db_name] /\ saved <= version
    BY <1>1, Names DEF Ordered, TypeOK
  <2>4. ~Swapping
    BY <2>1 DEF Busy, Swapping, Fork, checkpoint, InLoop
  <2>5. saved' = saved /\ loaded' = loaded
    BY DEF Fork, history
  <2>7. \/ Holds(dump_db_name, saved)
        \/ file[dump_db_name] = None /\ saved = loaded
    BY <2>1, <2>4 DEF Calm
  <2>8. \/ Holds(dump_db_name, saved)'
        \/ file'[dump_db_name] = None /\ saved' = loaded'
    BY <2>3, <2>5, <2>7 DEF Holds
  <2>6. server'.at = "loop"
    BY DEF Fork, checkpoint, InLoop
  <2> QED
    BY <2>2, <2>3, <2>5, <2>6, <2>8 DEF Calm, Running, Dumping
<1>11. Heard'
  <2> SUFFICES ASSUME ~disturbed'
               PROVE  Heard'
    BY DEF Heard
  <2>1. ~disturbed /\ ~Busy /\ status = None /\ server.at = "loop"
    BY DEF Fork, checkpoint, InLoop
  <2>2. \A h \in Generations : child'[h].at # "zombie"
    BY <1>2, <2>1 DEF Busy
  <2>3. file'[dump_db_name] = file[dump_db_name]
    BY <1>1, Names DEF TypeOK
  <2>4. ~sigchld /\ (checkpoint_finished = 2 => file[dump_db_name] # None)
    BY <2>1 DEF Heard, InPlace, Swapping, Busy, Alive, Stopped
  <2>5. status' = None /\ sigchld' = sigchld /\ checkpoint_finished' = checkpoint_finished
    BY <2>1 DEF Fork, signals
  <2>6. None \notin {"unset", "0", "1"}
    BY CheckpointAssumption
  <2> QED
    BY <2>2, <2>3, <2>4, <2>5, <2>6 DEF Heard, InPlace
<1>12. ZombiesAreReaped'
  BY <1>1, <1>2
  DEF Alive, Busy, ChildRecords, Dumping, Fork, InLoop, Stopped,
      ZombiesAreReaped, checkpoint, history, signals
<1> QED
  BY <1>3, <1>4, <1>5, <1>6, <1>7, <1>8, <1>9, <1>10, <1>11, <1>12

\* No process for the checkpointer: only the last temporary file is gone.
LEMMA ForkFailsInv ==
  ASSUME CheckpointInv, ForkFails
  PROVE  CheckpointInv'
<1> USE DEF CheckpointInv
<1>1. /\ file' \in [FileNames -> Files \cup {None}]
      /\ file'[dump_generation] = None
      /\ \A e \in FileNames \ {dump_generation} : file'[e] = file[e]
      /\ \A e \in FileNames : file'[e] \in {file[e], None}
  BY Removed, Names, CheckpointAssumption
  DEF ForkFails, Generations, InLoop, Owners, TypeOK, checkpoint
<1>2. TypeOK'
  <2>1. disturbed' \in BOOLEAN /\ checkpoint_requested' \in BOOLEAN
    BY DEF ForkFails, checkpoint, TypeOK
  <2>2. dump_generation' \in Generations
    BY CheckpointAssumption DEF TypeOK, Generations, ForkFails, checkpoint
  <2> QED
    BY <1>1, <2>1, <2>2 DEF TypeOK, ForkFails, checkpoint, signals, history
<1>3. Owners'
  BY CheckpointAssumption, Names, <1>1
  DEF Busy, Dumping, Files, ForkFails, Generations, InLoop, Owners, ServerDumps,
      Stopped, TypeOK, Versions, checkpoint, history, signals
<1>4. ChildWritten'
  <2>1. \A h \in Generations : file'[h] \in {file[h], None}
    BY <1>1, Names
  <2> QED
    BY <2>1, ChildFilesKept DEF ForkFails
<1>5. ServerWritten'
  BY <1>1
  DEF Busy, ForkFails, Holds, InLoop, ServerWritten, checkpoint, history,
      signals, temp_name
<1>6. Ordered'
  BY <1>1
  DEF Busy, Dumping, ForkFails, InLoop, Ordered, Running, checkpoint, history,
      signals
<1>7. OnDisk'
  BY CheckpointAssumption, Names, <1>1
  DEF Busy, ChildWritten, Dumping, Files, ForkFails, Generations, Holds, InLoop,
      OnDisk, Ordered, Owners, Running, ServerDumps, ServerWritten, Stopped,
      TypeOK, Versions, checkpoint, history, signals, temp_name
<1>8. OneDump'
  BY <1>1
  DEF Busy, Dumping, ForkFails, InLoop, OneDump, ServerDumps, checkpoint,
      history, signals
<1>9. Calm'
  BY CheckpointAssumption, Names, <1>1, ZenonT(40)
  DEF Busy, Calm, ChildWritten, Dumping, Files, ForkFails, Generations, Holds,
      InLoop, OnDisk, OneDump, Ordered, Owners, Running, ServerDumps,
      ServerWritten, Stopped, Swapping, TypeOK, Versions, checkpoint, history,
      signals, temp_name
<1>10. Heard'
  BY CheckpointAssumption, Names, <1>1
  DEF Alive, Busy, Calm, ChildWritten, Dumping, Files, ForkFails, Generations,
      Heard, Holds, InLoop, InPlace, OneDump, Owners, Running, ServerDumps,
      Stopped, Swapping, TypeOK, Versions, checkpoint, history, signals
<1>11. ZombiesAreReaped'
  BY <1>1
  DEF Alive, Busy, ForkFails, InLoop, Stopped, ZombiesAreReaped, checkpoint,
      history, signals
<1> QED
  BY <1>2, <1>3, <1>4, <1>5, <1>6, <1>7, <1>8, <1>9, <1>10, <1>11

\* The database is told of the checkpoint.
LEMMA NotifyBeginsInv ==
  ASSUME CheckpointInv, NotifyBegins
  PROVE  CheckpointInv'
<1> USE DEF CheckpointInv
<1>1. TypeOK'
  BY DEF Dumping, Generations, InLoop, NotifyBegins, Stopped, TypeOK, history,
         signals
<1>2. Owners'
  BY DEF Dumping, InLoop, NotifyBegins, Owners, ServerDumps, history, signals
<1>3. ChildWritten'
  BY DEF ChildWritten, Holds, InLoop, NotifyBegins, history, signals
<1>4. ServerWritten'
  BY DEF Holds, InLoop, NotifyBegins, ServerWritten, history, signals, temp_name
<1>5. Ordered'
  BY DEF Dumping, InLoop, NotifyBegins, Ordered, Running, history, signals
<1>6. OnDisk'
  BY DEF InLoop, NotifyBegins, OnDisk, history, signals
<1>7. OneDump'
  BY DEF Busy, Dumping, InLoop, NotifyBegins, OneDump, ServerDumps, history, signals
<1>8. Calm'
  BY DEF Calm, Dumping, Holds, InLoop, NotifyBegins, Running, Swapping, history,
         signals
<1>9. Heard'
  BY DEF Alive, Busy, Heard, InLoop, InPlace, NotifyBegins, Stopped, Swapping,
         history, signals
<1>10. ZombiesAreReaped'
  BY DEF Alive, InLoop, NotifyBegins, Stopped, ZombiesAreReaped, history, signals
<1> QED
  BY <1>1, <1>2, <1>3, <1>4, <1>5, <1>6, <1>7, <1>8, <1>9, <1>10

\* The database was told of the checkpoint.
LEMMA NotifyEndsInv ==
  ASSUME CheckpointInv, NotifyEnds
  PROVE  CheckpointInv'
<1> USE DEF CheckpointInv
<1>1. TypeOK'
  BY DEF Dumping, Generations, NotifyEnds, Stopped, TypeOK, history
<1>2. Owners'
  BY DEF Dumping, NotifyEnds, Owners, ServerDumps, history
<1>3. ChildWritten'
  BY DEF ChildWritten, Holds, NotifyEnds, history
<1>4. ServerWritten'
  BY DEF Holds, NotifyEnds, ServerWritten, history, temp_name
<1>5. Ordered'
  BY DEF Dumping, NotifyEnds, Ordered, Running, history
<1>6. OnDisk'
  BY DEF NotifyEnds, OnDisk, history
<1>7. OneDump'
  BY DEF Busy, Dumping, NotifyEnds, OneDump, ServerDumps, history
<1>8. Calm'
  BY DEF Calm, Dumping, Holds, NotifyEnds, Running, Swapping, history
<1>9. Heard'
  BY DEF Alive, Busy, Heard, InPlace, NotifyEnds, Stopped, Swapping, history
<1>10. ZombiesAreReaped'
  BY DEF Alive, NotifyEnds, Stopped, ZombiesAreReaped, history
<1> QED
  BY <1>1, <1>2, <1>3, <1>4, <1>5, <1>6, <1>7, <1>8, <1>9, <1>10

\* child_completed_signal() begins: its status is not set yet.
LEMMA HandlerBeginsInv ==
  ASSUME CheckpointInv, HandlerBegins
  PROVE  CheckpointInv'
<1> USE DEF CheckpointInv
<1>1. TypeOK'
  BY DEF Alive, Dumping, Generations, HandlerBegins, Stopped, TypeOK, history
<1>2. Owners'
  BY DEF Alive, Dumping, HandlerBegins, Owners, ServerDumps, Stopped, history
<1>3. ChildWritten'
  BY DEF Alive, ChildWritten, HandlerBegins, Holds, Stopped, history
<1>4. ServerWritten'
  BY DEF Alive, HandlerBegins, Holds, ServerWritten, Stopped, history, temp_name
<1>5. Ordered'
  BY DEF Alive, Dumping, HandlerBegins, Ordered, Running, Stopped, history
<1>6. OnDisk'
  BY DEF Alive, HandlerBegins, OnDisk, Stopped, history
<1>7. OneDump'
  BY DEF Alive, Busy, Dumping, HandlerBegins, OneDump, ServerDumps, Stopped, history
<1>8. Calm'
  BY DEF Alive, Calm, Dumping, HandlerBegins, Holds, Running, Stopped, Swapping,
         history
<1>9. Heard'
  BY DEF Alive, Busy, HandlerBegins, Heard, InPlace, Stopped, Swapping, history
<1>10. ZombiesAreReaped'
  BY CheckpointAssumption, Names
  DEF Alive, Dumping, Files, HandlerBegins, Stopped, TypeOK, Versions,
      ZombiesAreReaped, history
<1> QED
  BY <1>1, <1>2, <1>3, <1>4, <1>5, <1>6, <1>7, <1>8, <1>9, <1>10

\* child_completed_signal() returns when no zombie is left.
LEMMA HandlerReturnsInv ==
  ASSUME CheckpointInv, HandlerReturns
  PROVE  CheckpointInv'
<1> USE DEF CheckpointInv
<1>1. TypeOK'
  BY DEF Alive, Dumping, Generations, HandlerReturns, Stopped, TypeOK, all_reaped,
         history, reported
<1>2. Owners'
  BY DEF Alive, Dumping, HandlerReturns, Owners, ServerDumps, Stopped, all_reaped,
         history, reported
<1>3. ChildWritten'
  BY DEF Alive, ChildWritten, HandlerReturns, Holds, Stopped, all_reaped, history,
         reported
<1>4. ServerWritten'
  BY DEF Alive, HandlerReturns, Holds, ServerWritten, Stopped, all_reaped, history,
         reported, temp_name
<1>5. Ordered'
  BY DEF Alive, Dumping, HandlerReturns, Ordered, Running, Stopped, all_reaped,
         history, reported
<1>6. OnDisk'
  BY DEF Alive, HandlerReturns, OnDisk, Stopped, all_reaped, history, reported
<1>7. OneDump'
  BY DEF Alive, Busy, Dumping, HandlerReturns, OneDump, ServerDumps, Stopped,
         all_reaped, history, reported
<1>8. Calm'
  BY DEF Alive, Calm, Dumping, HandlerReturns, Holds, Running, Stopped, Swapping,
         all_reaped, history, reported
<1>9. Heard'
  BY CheckpointAssumption, Names
  DEF Alive, Busy, Calm, ChildWritten, Dumping, Files, HandlerReturns, Heard,
      Holds, InPlace, OneDump, Owners, Running, ServerDumps, Stopped, Swapping,
      TypeOK, Versions, all_reaped, history, reported
<1>10. ZombiesAreReaped'
  BY DEF Alive, HandlerReturns, Stopped, ZombiesAreReaped, all_reaped, history,
         reported
<1> QED
  BY <1>1, <1>2, <1>3, <1>4, <1>5, <1>6, <1>7, <1>8, <1>9, <1>10

\* main_loop() returns.
LEMMA LoopEndsInv ==
  ASSUME CheckpointInv, LoopEnds
  PROVE  CheckpointInv'
<1> USE DEF CheckpointInv
<1>1. TypeOK'
  BY DEF Continues, DumpStep, Dumping, Generations, LoopEnds, Stopped, TypeOK,
         history
<1>2. Owners'
  BY DEF Continues, DumpStep, Dumping, LoopEnds, Owners, ServerDumps, history
<1>3. ChildWritten'
  BY DEF ChildWritten, Continues, DumpStep, Holds, LoopEnds, history
<1>4. ServerWritten'
  BY DEF Continues, DumpStep, Holds, LoopEnds, ServerWritten, history, temp_name
<1>5. Ordered'
  BY DEF Continues, DumpStep, Dumping, LoopEnds, Ordered, Running, history
<1>6. OnDisk'
  BY DEF Continues, DumpStep, LoopEnds, OnDisk, history
<1>7. OneDump'
  BY DEF Busy, Continues, DumpStep, Dumping, LoopEnds, OneDump, ServerDumps, history
<1>8. Calm'
  BY DEF Calm, Continues, DumpStep, Dumping, Holds, LoopEnds, Running, Swapping,
         history
<1>9. Heard'
  BY DEF Alive, Busy, Continues, DumpStep, Heard, InPlace, LoopEnds, Stopped,
         Swapping, history
<1>10. ZombiesAreReaped'
  BY DEF Alive, Continues, DumpStep, LoopEnds, Stopped, ZombiesAreReaped, history
<1> QED
  BY <1>1, <1>2, <1>3, <1>4, <1>5, <1>6, <1>7, <1>8, <1>9, <1>10

\* server_panic() in the main loop.
LEMMA PanicInv ==
  ASSUME CheckpointInv, Panic
  PROVE  CheckpointInv'
<1> USE DEF CheckpointInv
<1>1. TypeOK'
  BY DEF DumpStep, Dumping, Generations, Panic, Stopped, TypeOK, history
<1>2. Owners'
  BY DEF DumpStep, Dumping, Owners, Panic, ServerDumps, history
<1>3. ChildWritten'
  BY DEF ChildWritten, DumpStep, Holds, Panic, history
<1>4. ServerWritten'
  BY DEF DumpStep, Holds, Panic, ServerWritten, history, temp_name
<1>5. Ordered'
  BY DEF DumpStep, Dumping, Ordered, Panic, Running, history
<1>6. OnDisk'
  BY DEF DumpStep, OnDisk, Panic, history
<1>7. OneDump'
  BY DEF Busy, DumpStep, Dumping, OneDump, Panic, ServerDumps, history
<1>8. Calm'
  BY DEF Calm, DumpStep, Dumping, Holds, Panic, Running, Swapping, history
<1>9. Heard'
  BY DEF Alive, Busy, DumpStep, Heard, InPlace, Panic, Stopped, Swapping, history
<1>10. ZombiesAreReaped'
  BY DEF Alive, DumpStep, Panic, Stopped, ZombiesAreReaped, history
<1> QED
  BY <1>1, <1>2, <1>3, <1>4, <1>5, <1>6, <1>7, <1>8, <1>9, <1>10

\* The server takes the next generation for its own dump: beside a checkpointer the
\* dumps overlap.
LEMMA DumpBeginsInv ==
  ASSUME CheckpointInv, DumpBegins
  PROVE  CheckpointInv'
<1> USE DEF CheckpointInv
<1>1. /\ file' \in [FileNames -> Files \cup {None}]
      /\ file'[dump_generation] = None
      /\ \A e \in FileNames \ {dump_generation} : file'[e] = file[e]
      /\ \A e \in FileNames : file'[e] \in {file[e], None}
  BY Removed, Names, CheckpointAssumption
  DEF Continues, DumpBegins, DumpStep, Generations, Owners, TypeOK
<1>2. TypeOK'
  <2>1. dump_generation' \in Generations
    BY CheckpointAssumption DEF TypeOK, Owners, Generations, DumpBegins, DumpStep
  <2>2. server' \in [at : Dumping \cup Stopped \cup {"loop", "notify"},
                    reason : {"shutdown", "panic"}]
    BY DEF TypeOK, DumpBegins, Continues, Dumping
  <2>3. disturbed' \in BOOLEAN
    BY DEF DumpBegins, TypeOK
  <2> QED
    BY <1>1, <2>1, <2>2, <2>3 DEF TypeOK, DumpBegins, DumpStep, Continues, history
<1>3. Owners'
  BY <1>1, SMTT(40)
  DEF Busy, Continues, DumpBegins, DumpStep, Dumping, Files, Generations, Owners,
      ServerDumps, Stopped, TypeOK, Versions, history
<1>4. ChildWritten'
  <2>1. \A h \in Generations : file'[h] \in {file[h], None}
    BY <1>1, Names
  <2> QED
    BY <2>1, ChildFilesKept DEF DumpBegins, Continues
<1>5. ServerWritten'
  BY <1>1
  DEF Busy, Continues, DumpBegins, DumpStep, Holds, ServerWritten, history,
      temp_name
<1>6. Ordered'
  BY <1>1
  DEF Busy, Continues, DumpBegins, DumpStep, Dumping, Ordered, Running, history
<1>7. OnDisk'
  BY CheckpointAssumption, Names, <1>1
  DEF Busy, ChildWritten, Continues, DumpBegins, DumpStep, Dumping, Files,
      Generations, Holds, OnDisk, Ordered, Owners, Running, ServerDumps,
      ServerWritten, Stopped, TypeOK, Versions, history, temp_name
<1>8. OneDump'
  BY <1>1
  DEF Busy, Continues, DumpBegins, DumpStep, Dumping, OneDump, ServerDumps,
      history
<1>9. Calm'
  BY CheckpointAssumption, Names, <1>1
  DEF Busy, Calm, ChildWritten, Continues, DumpBegins, DumpStep, Dumping, Files,
      Generations, Holds, OnDisk, OneDump, Ordered, Owners, Running, ServerDumps,
      ServerWritten, Stopped, Swapping, TypeOK, Versions, history, temp_name
<1>10. Heard'
  BY CheckpointAssumption, Names, <1>1
  DEF Alive, Busy, Calm, ChildWritten, Continues, DumpBegins, DumpStep, Dumping,
      Files, Generations, Heard, Holds, InPlace, OneDump, Owners, Running,
      ServerDumps, Stopped, Swapping, TypeOK, Versions, history
<1>11. ZombiesAreReaped'
  BY <1>1
  DEF Alive, Busy, Continues, DumpBegins, DumpStep, Stopped, ZombiesAreReaped,
      history
<1> QED
  BY <1>2, <1>3, <1>4, <1>5, <1>6, <1>7, <1>8, <1>9, <1>10, <1>11

\* The server opens its temporary file.
LEMMA DumpOpensInv ==
  ASSUME CheckpointInv, DumpOpens
  PROVE  CheckpointInv'
<1> USE DEF CheckpointInv
<1>1. temp_name \in FileNames \ {input_db_name, dump_db_name}
  BY Names, CheckpointAssumption
  DEF Continues, DumpStep, Generations, TypeOK, temp_name
<1>2. /\ file' \in [FileNames -> Files \cup {None}]
      /\ file'[temp_name] # None /\ file'[temp_name].version = version
      /\ \A e \in FileNames \ {temp_name} : file'[e] = file[e]
  BY Begun, <1>1 DEF Continues, DumpOpens, DumpStep, TypeOK
<1>3. TypeOK'
  BY <1>1, <1>2
  DEF Continues, DumpOpens, DumpStep, Dumping, Generations, Stopped, TypeOK,
      history
<1>4. Owners'
  BY <1>1, <1>2
  DEF Continues, DumpOpens, DumpStep, Dumping, Owners, ServerDumps, history
<1>5. ChildWritten'
  <2>1. \A h \in Generations : child[h].at # "none" => file'[h] = file[h]
    BY <1>2, OwnFile, Names DEF DumpOpens, DumpStep, ServerDumps, Dumping
  <2> QED
    BY <2>1, ChildFilesKept DEF DumpOpens, DumpStep, Continues
<1>6. ServerWritten'
  BY <1>1, <1>2
  DEF Continues, DumpOpens, DumpStep, Holds, ServerWritten, history, temp_name
<1>7. Ordered'
  BY <1>1, <1>2
  DEF Continues, DumpOpens, DumpStep, Dumping, Ordered, Running, history
<1>8. OnDisk'
  BY CheckpointAssumption, Names, <1>1, <1>2
  DEF ChildWritten, Continues, DumpOpens, DumpStep, Dumping, Files, Holds,
      OnDisk, Ordered, Owners, Running, ServerDumps, ServerWritten, Stopped,
      TypeOK, Versions, history, temp_name
<1>9. OneDump'
  BY <1>1, <1>2
  DEF Busy, Continues, DumpOpens, DumpStep, Dumping, OneDump, ServerDumps,
      history
<1>10. Calm'
  BY CheckpointAssumption, Names, <1>1, <1>2
  DEF Busy, Calm, ChildWritten, Continues, DumpOpens, DumpStep, Dumping, Files,
      Holds, OnDisk, OneDump, Ordered, Owners, Running, ServerDumps,
      ServerWritten, Stopped, Swapping, TypeOK, Versions, history, temp_name
<1>11. Heard'
  BY CheckpointAssumption, Names, <1>1, <1>2
  DEF Alive, Busy, Calm, ChildWritten, Continues, DumpOpens, DumpStep, Dumping,
      Files, Heard, Holds, InPlace, OneDump, Owners, Running, ServerDumps,
      Stopped, Swapping, TypeOK, Versions, history, temp_name
<1>12. ZombiesAreReaped'
  BY <1>1, <1>2
  DEF Alive, Continues, DumpOpens, DumpStep, Stopped, ZombiesAreReaped, history
<1> QED
  BY <1>3, <1>4, <1>5, <1>6, <1>7, <1>8, <1>9, <1>10, <1>11, <1>12

\* The server cannot open its temporary file, and gives up.
LEMMA DumpOpenFailsInv ==
  ASSUME CheckpointInv, DumpOpenFails
  PROVE  CheckpointInv'
<1> USE DEF CheckpointInv
<1>1. /\ child' \in [Generations -> ChildRecords]
      /\ \A h \in Generations : child'[h].at # "zombie"
      /\ \A h \in Generations :
           child'[h] = IF child[h].at = "zombie" THEN NoChild ELSE child[h]
      /\ server'.at = "failed" /\ server'.reason = server.reason
      /\ server' \in [at : Dumping \cup Stopped \cup {"loop", "notify"},
                      reason : {"shutdown", "panic"}]
      /\ sigchld' = FALSE
  BY Stopping DEF DumpOpenFails, DumpStep, Stopped
<1>2. TypeOK'
  BY <1>1
  DEF ChildRecords, DumpOpenFails, DumpStep, Dumping, Generations, NoChild,
      Stopped, TypeOK, history
<1>3. Owners'
  BY <1>1
  DEF ChildRecords, DumpOpenFails, DumpStep, Dumping, NoChild, Owners,
      ServerDumps, Stopped, history
<1>4. ChildWritten'
  BY <1>1
  DEF ChildRecords, ChildWritten, DumpOpenFails, DumpStep, Dumping, Holds,
      NoChild, Stopped, history
<1>5. ServerWritten'
  BY <1>1
  DEF ChildRecords, DumpOpenFails, DumpStep, Dumping, Holds, NoChild,
      ServerWritten, Stopped, history, temp_name
<1>6. Ordered'
  BY <1>1
  DEF ChildRecords, DumpOpenFails, DumpStep, Dumping, NoChild, Ordered, Running,
      Stopped, history
<1>7. OnDisk'
  BY <1>1
  DEF ChildRecords, DumpOpenFails, DumpStep, Dumping, NoChild, OnDisk, Stopped,
      history
<1>8. OneDump'
  BY <1>1
  DEF Busy, ChildRecords, DumpOpenFails, DumpStep, Dumping, NoChild, OneDump,
      ServerDumps, Stopped, history
<1>9. Calm'
  BY <1>1
  DEF Calm, ChildRecords, DumpOpenFails, DumpStep, Dumping, Holds, NoChild,
      Running, Stopped, Swapping, history
<1>10. Heard'
  BY <1>1
  DEF Alive, Busy, ChildRecords, DumpOpenFails, DumpStep, Dumping, Heard,
      InPlace, NoChild, Stopped, Swapping, history
<1>11. ZombiesAreReaped'
  BY <1>1
  DEF Alive, ChildRecords, DumpOpenFails, DumpStep, Dumping, NoChild, Stopped,
      ZombiesAreReaped, history
<1> QED
  BY <1>2, <1>3, <1>4, <1>5, <1>6, <1>7, <1>8, <1>9, <1>10, <1>11

\* The server has written its temporary file: a panic dump stays there.
LEMMA DumpWritesInv ==
  ASSUME CheckpointInv, DumpWrites
  PROVE  CheckpointInv'
<1> USE DEF CheckpointInv
<1>1. temp_name \in FileNames \ {input_db_name, dump_db_name}
  BY OwnFile DEF DumpWrites, DumpStep, ServerDumps, Dumping
<1>2. \A g \in Generations : child[g].at # "none" => temp_name # g
  BY OwnFile DEF DumpWrites, DumpStep, ServerDumps, Dumping
<1>3. /\ file' \in [FileNames -> Files \cup {None}]
      /\ file[temp_name] = None => file'[temp_name] = None
      /\ file[temp_name] # None =>
           /\ file'[temp_name] # None
           /\ file'[temp_name].version = file[temp_name].version
           /\ "close" \notin Failures => file'[temp_name].whole
      /\ \A e \in FileNames \ {temp_name} : file'[e] = file[e]
  BY <1>1, Closed DEF DumpWrites
<1>4. \A g \in Generations : child[g].at # "none" => file'[g] = file[g]
  BY <1>2, <1>3, Names
<1>5. /\ file'[input_db_name] = file[input_db_name]
      /\ file'[dump_db_name] = file[dump_db_name]
  BY <1>1, <1>3, Names
<1>6. /\ server.at = "write" /\ status = None
      /\ UNCHANGED <<version, dump_generation, checkpoint_requested, shutdown_message,
                     status, checkpoint_finished, restarts, loaded, saved, disturbed>>
  BY DEF DumpWrites, DumpStep, history
<1>7. /\ server' \in [at : Dumping \cup Stopped \cup {"loop", "notify"},
                      reason : {"shutdown", "panic"}]
      /\ server'.reason = server.reason
      /\ IF server.reason = "panic" THEN server'.at = "failed" ELSE server'.at = "remove"
  <2>1. CASE server.reason = "panic"
    BY <2>1, Stopping DEF DumpWrites, Stopped
  <2>2. CASE server.reason # "panic"
    BY <2>2 DEF DumpWrites, Continues, TypeOK, Dumping
  <2> QED
    BY <2>1, <2>2
<1>8. /\ child' \in [Generations -> ChildRecords]
      /\ \A g \in Generations : child'[g] = NoChild \/ child'[g] = child[g]
      /\ sigchld' \in BOOLEAN
      /\ IF server.reason = "panic"
         THEN ~sigchld' /\ \A g \in Generations : child'[g].at # "zombie"
         ELSE UNCHANGED <<child, sigchld>>
  <2>1. CASE server.reason = "panic"
    BY <2>1, Stopping DEF DumpWrites, Stopped
  <2>2. CASE server.reason # "panic"
    BY <2>2 DEF DumpWrites, Continues, TypeOK, ChildRecords
  <2> QED
    BY <2>1, <2>2
<1>9. TypeOK'
  BY <1>3, <1>6, <1>7, <1>8 DEF TypeOK, ChildRecords
<1>10. Owners'
  BY <1>6, <1>7, <1>8 DEF Owners, ServerDumps, Dumping, NoChild
<1>11. ChildWritten'
  BY <1>4, <1>8, ChildFilesKept DEF NoChild
<1>12. ServerWritten'
  <2>1. CASE server.reason = "panic"
    BY <1>7, <2>1 DEF ServerWritten
  <2>2. CASE server.reason = "shutdown"
    BY <1>3, <1>6, <1>7, <2>2 DEF ServerWritten, Holds, temp_name
  <2> QED
    BY <2>1, <2>2 DEF TypeOK
<1>13. Ordered'
  BY <1>6, <1>8 DEF Ordered, Running, Dumping, NoChild
<1>14. OnDisk'
  BY <1>5, <1>6 DEF OnDisk
<1>15. OneDump'
  BY <1>6, <1>7, <1>8 DEF OneDump, ServerDumps, Busy, Dumping, NoChild
<1>16. ~disturbed => ~Swapping
  BY <1>6, <1>8 DEF OneDump, Swapping, ServerDumps, Busy, Dumping, NoChild
<1>17. Calm'
  BY <1>4, <1>5, <1>6, <1>7, <1>8, <1>16
     DEF Calm, OneDump, ServerDumps, Busy, Running, Dumping, Holds, NoChild
<1>18. Heard'
  BY <1>5, <1>6, <1>7, <1>8 DEF Heard, Alive, Stopped, InPlace, Swapping, Busy, NoChild
<1>19. ZombiesAreReaped'
  BY <1>6, <1>7, <1>8 DEF ZombiesAreReaped, Alive, Stopped
<1> QED
  BY <1>9, <1>10, <1>11, <1>12, <1>13, <1>14, <1>15, <1>17, <1>18, <1>19

\* The server could not write, and tries again.
LEMMA DumpWriteFailsInv ==
  ASSUME CheckpointInv, DumpWriteFails
  PROVE  CheckpointInv'
<1> USE DEF CheckpointInv
<1>1. temp_name \in FileNames \ {input_db_name, dump_db_name}
  BY Names, CheckpointAssumption
  DEF Continues, DumpStep, Generations, TypeOK, temp_name
<1>2. /\ file' \in [FileNames -> Files \cup {None}]
      /\ file'[temp_name] = None
      /\ \A e \in FileNames \ {temp_name} : file'[e] = file[e]
      /\ \A e \in FileNames : file'[e] \in {file[e], None}
  BY Removed, <1>1 DEF Continues, DumpStep, DumpWriteFails
<1>3. TypeOK'
  BY <1>1, <1>2
  DEF Continues, DumpStep, DumpWriteFails, Dumping, Generations, Stopped, TypeOK,
      history
<1>4. Owners'
  BY <1>1, <1>2
  DEF Continues, DumpStep, DumpWriteFails, Dumping, Owners, ServerDumps, history
<1>5. ChildWritten'
  <2>1. \A h \in Generations : file'[h] \in {file[h], None}
    BY <1>2, Names
  <2> QED
    BY <2>1, ChildFilesKept DEF DumpWriteFails, Continues
<1>6. ServerWritten'
  BY <1>1, <1>2
  DEF Continues, DumpStep, DumpWriteFails, Holds, ServerWritten, history,
      temp_name
<1>7. Ordered'
  BY <1>1, <1>2
  DEF Continues, DumpStep, DumpWriteFails, Dumping, Ordered, Running, history
<1>8. OnDisk'
  BY CheckpointAssumption, Names, <1>1, <1>2, ZenonT(40)
  DEF ChildWritten, Continues, DumpStep, DumpWriteFails, Dumping, Files,
      Generations, Holds, OnDisk, Ordered, Owners, Running, ServerDumps,
      ServerWritten, Stopped, TypeOK, Versions, history, temp_name
<1>9. OneDump'
  BY <1>1, <1>2
  DEF Busy, Continues, DumpStep, DumpWriteFails, Dumping, OneDump, ServerDumps,
      history
<1>10. Calm'
  BY CheckpointAssumption, Names, <1>1, <1>2
  DEF Busy, Calm, ChildWritten, Continues, DumpStep, DumpWriteFails, Dumping,
      Files, Generations, Holds, OnDisk, OneDump, Ordered, Owners, Running,
      ServerDumps, ServerWritten, Stopped, Swapping, TypeOK, Versions, history,
      temp_name
<1>11. Heard'
  BY CheckpointAssumption, Names, <1>1, <1>2
  DEF Alive, Busy, Calm, ChildWritten, Continues, DumpStep, DumpWriteFails,
      Dumping, Files, Generations, Heard, Holds, InPlace, OneDump, Owners,
      Running, ServerDumps, Stopped, Swapping, TypeOK, Versions, history,
      temp_name
<1>12. ZombiesAreReaped'
  BY <1>1, <1>2
  DEF Alive, Continues, DumpStep, DumpWriteFails, Stopped, ZombiesAreReaped,
      history
<1> QED
  BY <1>3, <1>4, <1>5, <1>6, <1>7, <1>8, <1>9, <1>10, <1>11, <1>12

\* The server removes the last dump: its own is complete.
LEMMA DumpRemovesInv ==
  ASSUME CheckpointInv, DumpRemoves
  PROVE  CheckpointInv'
<1> USE DEF CheckpointInv
<1>1. /\ file' \in [FileNames -> Files \cup {None}]
      /\ file'[dump_db_name] = None
      /\ \A e \in FileNames \ {dump_db_name} : file'[e] = file[e]
  BY Removed, Names DEF Continues, DumpRemoves, DumpStep
<1>2. TypeOK'
  BY <1>1
  DEF Continues, DumpRemoves, DumpStep, Dumping, Generations, Stopped, TypeOK,
      history
<1>3. Owners'
  BY <1>1
  DEF Continues, DumpRemoves, DumpStep, Dumping, Owners, ServerDumps, history
<1>4. ChildWritten'
  BY CheckpointAssumption, Names, <1>1
  DEF ChildWritten, Continues, DumpRemoves, DumpStep, Dumping, Files, Holds,
      Owners, ServerDumps, Stopped, TypeOK, Versions, history
<1>5. ServerWritten'
  BY CheckpointAssumption, Names, <1>1
  DEF Continues, DumpRemoves, DumpStep, Dumping, Files, Holds, Owners,
      ServerDumps, ServerWritten, Stopped, TypeOK, Versions, history, temp_name
<1>6. Ordered'
  BY <1>1 DEF Continues, DumpRemoves, DumpStep, Dumping, Ordered, Running, history
<1>7. OnDisk'
  BY CheckpointAssumption, Names, <1>1
  DEF ChildWritten, Continues, DumpRemoves, DumpStep, Dumping, Files, Holds,
      OnDisk, Ordered, Owners, Running, ServerDumps, ServerWritten, Stopped,
      TypeOK, Versions, history, temp_name
<1>8. OneDump'
  BY <1>1
  DEF Busy, Continues, DumpRemoves, DumpStep, Dumping, OneDump, ServerDumps,
      history
<1>9. Calm'
  BY <1>1
  DEF Busy, Calm, ChildWritten, Continues, DumpRemoves, DumpStep, Dumping, Files,
      Holds, OnDisk, OneDump, Ordered, Owners, Running, ServerDumps,
      ServerWritten, Stopped, Swapping, TypeOK, Versions, history, temp_name
<1>10. Heard'
  BY <1>1
  DEF Alive, Busy, Continues, DumpRemoves, DumpStep, Heard, InPlace, Stopped,
      Swapping, history
<1>11. ZombiesAreReaped'
  BY <1>1
  DEF Alive, Continues, DumpRemoves, DumpStep, Stopped, ZombiesAreReaped, history
<1> QED
  BY <1>2, <1>3, <1>4, <1>5, <1>6, <1>7, <1>8, <1>9, <1>10, <1>11

\* The server puts its dump into place.
LEMMA DumpRenamesInv ==
  ASSUME CheckpointInv, DumpRenames
  PROVE  CheckpointInv'
<1> USE DEF CheckpointInv
<1>1. /\ file' \in [FileNames -> Files \cup {None}]
      /\ file'[dump_generation] = None
      /\ file'[dump_db_name] = file[dump_generation]
      /\ \A e \in FileNames \ {dump_generation, dump_db_name} : file'[e] = file[e]
  BY Renamed, Names, CheckpointAssumption
  DEF DumpRenames, DumpStep, Generations, Owners, TypeOK
<1>2. /\ child' \in [Generations -> ChildRecords]
      /\ \A h \in Generations : child'[h].at # "zombie"
      /\ \A h \in Generations :
           child'[h] = IF child[h].at = "zombie" THEN NoChild ELSE child[h]
      /\ server'.at = "exited" /\ server'.reason = server.reason
      /\ server' \in [at : Dumping \cup Stopped \cup {"loop", "notify"},
                      reason : {"shutdown", "panic"}]
      /\ sigchld' = FALSE
  BY Stopping, CheckpointAssumption
  DEF DumpRenames, DumpStep, Generations, Owners, Stopped
<1>3. TypeOK'
  BY <1>1, <1>2
  DEF ChildRecords, DumpRenames, DumpStep, Dumping, Generations, NoChild,
      Stopped, TypeOK, history
<1>4. Owners'
  BY <1>1, <1>2
  DEF ChildRecords, DumpRenames, DumpStep, Dumping, NoChild, Owners, ServerDumps,
      Stopped, history
<1>5. ChildWritten'
  <2>1. \A h \in Generations : file'[h] \in {file[h], None}
    BY <1>1, Names
  <2> QED
    BY <1>2, <2>1, ChildFilesKept DEF NoChild
<1>6. ServerWritten'
  BY <1>1, <1>2
  DEF ChildRecords, DumpRenames, DumpStep, Dumping, Holds, NoChild,
      ServerWritten, Stopped, history, temp_name
<1>7. Ordered'
  BY <1>1, <1>2
  DEF ChildRecords, DumpRenames, DumpStep, Dumping, Files, Generations, NoChild,
      Ordered, Owners, Running, ServerDumps, Stopped, TypeOK, Versions, history
<1>8. OnDisk'
  <2>1. Holds(dump_generation, version)
    BY DEF ServerWritten, DumpRenames, DumpStep
  <2>2. loaded <= version
    BY DEF Ordered, TypeOK, Versions
  <2>3. file'[input_db_name] = file[input_db_name]
    BY <1>1, Names DEF Owners, DumpRenames, DumpStep, TypeOK
  <2>4. loaded' = loaded
    BY DEF DumpRenames, DumpStep, history
  <2> QED
    BY <1>1, <2>1, <2>2, <2>3, <2>4 DEF OnDisk, Holds
<1>9. OneDump'
  BY <1>1, <1>2
  DEF Busy, ChildRecords, DumpRenames, DumpStep, Dumping, NoChild, OneDump,
      ServerDumps, Stopped, history
<1>10. Calm'
  <2> SUFFICES ASSUME ~disturbed'
               PROVE  Calm'
    BY DEF Calm
  <2>1. ~disturbed
    BY DEF DumpRenames
  <2>2. \A h \in Generations : child'[h].at = "none"
    BY <1>2, <2>1 DEF OneDump, ServerDumps, Busy, Dumping, NoChild, DumpRenames, DumpStep
  <2>3. Holds(dump_generation, version)
    BY DEF ServerWritten, DumpRenames, DumpStep
  <2>4. saved' = version /\ version' = version
    BY DEF DumpRenames, DumpStep
  <2>5. Holds(dump_db_name, saved)'
    BY <1>1, <2>3, <2>4 DEF Holds
  <2> QED
    BY <2>2, <2>4, <2>5 DEF Calm, Running, Dumping
<1>11. Heard'
  BY <1>1, <1>2
  DEF Alive, Busy, ChildRecords, DumpRenames, DumpStep, Dumping, Heard, InPlace,
      NoChild, Stopped, Swapping, history
<1>12. ZombiesAreReaped'
  BY <1>1, <1>2
  DEF Alive, ChildRecords, DumpRenames, DumpStep, Dumping, NoChild, Stopped,
      ZombiesAreReaped, history
<1> QED
  BY <1>3, <1>4, <1>5, <1>6, <1>7, <1>8, <1>9, <1>10, <1>11, <1>12

\* The server is killed: in the middle of its swap that is a disturbance.
LEMMA KilledInv ==
  ASSUME CheckpointInv, Killed
  PROVE  CheckpointInv'
<1> USE DEF CheckpointInv
<1>1. /\ child' \in [Generations -> ChildRecords]
      /\ \A h \in Generations : child'[h].at # "zombie"
      /\ \A h \in Generations :
           child'[h] = IF child[h].at = "zombie" THEN NoChild ELSE child[h]
      /\ server'.at = "killed" /\ server'.reason = server.reason
      /\ server' \in [at : Dumping \cup Stopped \cup {"loop", "notify"},
                      reason : {"shutdown", "panic"}]
      /\ sigchld' = FALSE
  BY Stopping DEF Killed, Stopped
<1>2. TypeOK'
  BY <1>1
  DEF Alive, ChildRecords, Dumping, Generations, Killed, NoChild, Stopped,
      TypeOK, history
<1>3. Owners'
  BY <1>1
  DEF Alive, ChildRecords, Dumping, Killed, NoChild, Owners, ServerDumps,
      Stopped, history
<1>4. ChildWritten'
  BY <1>1
  DEF Alive, ChildRecords, ChildWritten, Dumping, Holds, Killed, NoChild,
      Stopped, history
<1>5. ServerWritten'
  BY <1>1
  DEF Alive, ChildRecords, Dumping, Holds, Killed, NoChild, ServerWritten,
      Stopped, history, temp_name
<1>6. Ordered'
  BY <1>1
  DEF Alive, ChildRecords, Dumping, Killed, NoChild, Ordered, Running, Stopped,
      history
<1>7. OnDisk'
  BY <1>1
  DEF Alive, ChildRecords, Dumping, Killed, NoChild, OnDisk, Stopped, history
<1>8. OneDump'
  BY <1>1
  DEF Alive, Busy, ChildRecords, Dumping, Killed, NoChild, OneDump, ServerDumps,
      Stopped, TypeOK, history
<1>9. Calm'
  <2> SUFFICES ASSUME ~disturbed'
               PROVE  Calm'
    BY DEF Calm
  <2>1. ~disturbed /\ server.at # "rename"
    BY DEF Killed
  <2>2. \A h \in Generations : child[h].at \in Dumping => child'[h] = child[h]
    BY <1>1 DEF Dumping
  <2>3. \A h \in Generations : child'[h].at \in Dumping => child'[h] = child[h]
    BY <1>1 DEF Dumping, NoChild
  <2>4. Swapping' <=> Swapping
    BY <1>1, <2>1, <2>2, <2>3 DEF Swapping, Dumping
  <2>5. UNCHANGED <<file, saved, loaded, version>>
    BY DEF Killed, history
  <2> QED
    BY <1>1, <2>1, <2>3, <2>4, <2>5 DEF Calm, Running, Dumping, Holds
<1>10. Heard'
  BY <1>1
  DEF Alive, Busy, ChildRecords, Dumping, Heard, InPlace, Killed, NoChild,
      Stopped, Swapping, history
<1>11. ZombiesAreReaped'
  BY <1>1
  DEF Alive, ChildRecords, Dumping, Killed, NoChild, Stopped, ZombiesAreReaped,
      history
<1> QED
  BY <1>2, <1>3, <1>4, <1>5, <1>6, <1>7, <1>8, <1>9, <1>10, <1>11

\* The next server is started with what is on the disk.
LEMMA RestartInv ==
  ASSUME CheckpointInv, Restart
  PROVE  CheckpointInv'
<1> USE DEF CheckpointInv
<1>1. file[input_db_name] # None /\ file[input_db_name] \in Files
  BY NoneIsNoFile, InputIsFile DEF OnDisk, TypeOK
<1>2. TypeOK'
  <2>1. Loadable \in Files
    BY <1>1, Names DEF TypeOK, Loadable
  <2>2. Loadable.version \in Versions
    BY <2>1 DEF Files
  <2>3. file' \in [FileNames -> Files \cup {None}]
    BY <2>1, Names DEF TypeOK, Restart
  <2>4. child' \in [Generations -> ChildRecords]
    BY NoChildIsOne DEF Restart
  <2>5. restarts' \in 0..MaxRestarts
    BY CheckpointAssumption DEF TypeOK, Restart
  <2>6. 0 \in Generations
    BY CheckpointAssumption DEF Generations
  <2>7. dump_generation' \in Generations
    BY <2>6 DEF Restart
  <2>8. server' \in [at : Dumping \cup Stopped \cup {"loop", "notify"},
                    reason : {"shutdown", "panic"}]
    BY DEF Restart
  <2>9. /\ version' \in Versions /\ loaded' \in Versions /\ saved' \in Versions
        /\ checkpoint_requested' \in BOOLEAN /\ shutdown_message' \in BOOLEAN
        /\ sigchld' \in BOOLEAN /\ disturbed' \in BOOLEAN
    BY <2>2 DEF Restart
  <2>10. status' = None /\ checkpoint_finished' = 0
    BY DEF Restart
  <2> QED
    BY <2>3, <2>4, <2>5, <2>7, <2>8, <2>9, <2>10 DEF TypeOK, ChildRecords
<1>3. Owners'
  BY CheckpointAssumption, Names, <1>1
  DEF Alive, Busy, Dumping, Files, Loadable, NoChild, Owners, Restart,
      ServerDumps, Stopped, TypeOK, Versions
<1>4. ChildWritten'
  BY <1>1 DEF Alive, Busy, ChildWritten, Holds, Loadable, NoChild, Restart, Stopped
<1>5. ServerWritten'
  BY <1>1
  DEF Alive, Busy, Holds, Loadable, NoChild, Restart, ServerWritten, Stopped,
      temp_name
<1>6. Ordered'
  BY <1>1
  DEF Alive, Busy, Dumping, Files, Loadable, NoChild, Ordered, Owners, Restart,
      Running, ServerDumps, Stopped, TypeOK, Versions
<1>7. OnDisk'
  BY CheckpointAssumption, Names, <1>1, ZenonT(40)
  DEF Alive, Busy, ChildWritten, Dumping, Files, Holds, Loadable, NoChild,
      OnDisk, Ordered, Owners, Restart, Running, ServerDumps, ServerWritten,
      Stopped, TypeOK, Versions, temp_name
<1>8. OneDump'
  BY <1>1
  DEF Alive, Busy, Dumping, Loadable, NoChild, OneDump, Restart, ServerDumps,
      Stopped
<1>9. Calm'
  BY CheckpointAssumption, Names, <1>1
  DEF Alive, Busy, Calm, ChildWritten, Dumping, Files, Holds, Loadable, NoChild,
      OnDisk, OneDump, Ordered, Owners, Restart, Running, ServerDumps,
      ServerWritten, Stopped, Swapping, TypeOK, Versions, temp_name
<1>10. Heard'
  BY CheckpointAssumption, Names, <1>1
  DEF Alive, Busy, Calm, ChildWritten, Dumping, Files, Heard, Holds, InPlace,
      Loadable, NoChild, OneDump, Owners, Restart, Running, ServerDumps, Stopped,
      Swapping, TypeOK, Versions
<1>11. ZombiesAreReaped'
  BY <1>1 DEF Alive, Busy, Loadable, NoChild, Restart, Stopped, ZombiesAreReaped
<1> QED
  BY <1>2, <1>3, <1>4, <1>5, <1>6, <1>7, <1>8, <1>9, <1>10, <1>11

\* A zombie is waited for.
LEMMA WaitpidInv ==
  ASSUME NEW g \in Generations, CheckpointInv, Waitpid(g)
  PROVE  CheckpointInv'
<1> USE DEF CheckpointInv
<1>1. TypeOK'
  BY CheckpointAssumption, Names
  DEF Alive, Dumping, Files, Generations, NoChild, Owners, ServerDumps, Stopped,
      TypeOK, Versions, Waitpid, history
<1>2. Owners'
  BY DEF Alive, Dumping, NoChild, Owners, ServerDumps, Stopped, Waitpid, history
<1>3. ChildWritten'
  BY DEF Alive, ChildWritten, Holds, NoChild, Stopped, Waitpid, history
<1>4. ServerWritten'
  BY DEF Alive, Holds, NoChild, ServerWritten, Stopped, Waitpid, history, temp_name
<1>5. Ordered'
  BY DEF Alive, Dumping, NoChild, Ordered, Running, Stopped, Waitpid, history
<1>6. OnDisk'
  BY DEF Alive, NoChild, OnDisk, Stopped, Waitpid, history
<1>7. OneDump'
  BY DEF Alive, Busy, Dumping, NoChild, OneDump, ServerDumps, Stopped, Waitpid,
         history
<1>8. Calm'
  BY DEF Alive, Calm, Dumping, Holds, NoChild, Running, Stopped, Swapping, Waitpid,
         history
<1>9. Heard'
  BY DEF Alive, Busy, Calm, ChildWritten, Dumping, Files, Heard, Holds, InPlace,
         NoChild, OneDump, Owners, Running, ServerDumps, Stopped, Swapping, TypeOK,
         Versions, Waitpid, history
<1>10. ZombiesAreReaped'
  BY CheckpointAssumption, Names
  DEF Alive, Dumping, Files, NoChild, Stopped, TypeOK, Versions, Waitpid,
      ZombiesAreReaped, history
<1> QED
  BY <1>1, <1>2, <1>3, <1>4, <1>5, <1>6, <1>7, <1>8, <1>9, <1>10

\* A checkpointer opens its temporary file.
LEMMA ChildOpensInv ==
  ASSUME NEW g \in Generations, CheckpointInv, ChildOpens(g)
  PROVE  CheckpointInv'
<1> USE DEF CheckpointInv
<1>1. /\ file' \in [FileNames -> Files \cup {None}]
      /\ file'[g] # None /\ file'[g].version = child[g].version
      /\ \A e \in FileNames \ {g} : file'[e] = file[e]
  BY Begun, Names DEF ChildOpens, ChildStep, TypeOK
<1>2. /\ child' \in [Generations -> ChildRecords]
      /\ child'[g].at = "write" /\ child'[g].version = child[g].version
      /\ \A h \in Generations \ {g} : child'[h] = child[h]
      /\ UNCHANGED sigchld
  BY Gone DEF ChildOpens, ChildRecords, ChildStep, Dumping, TypeOK
<1>3. TypeOK'
  BY <1>1, <1>2
  DEF ChildOpens, ChildRecords, ChildStep, Dumping, Generations, Stopped, TypeOK,
      history
<1>4. Owners'
  BY <1>1, <1>2
  DEF ChildOpens, ChildRecords, ChildStep, Dumping, Owners, ServerDumps, history
<1>5. ChildWritten'
  BY CheckpointAssumption, Names, <1>1, <1>2, SMTT(40)
  DEF ChildOpens, ChildRecords, ChildStep, ChildWritten, Dumping, Files, Holds,
      Owners, ServerDumps, Stopped, TypeOK, Versions, history
<1>6. ServerWritten'
  <2>1. ServerDumps => file'[temp_name] = file[temp_name]
    BY OwnFile, Names, <1>1 DEF ChildOpens, ChildStep, TypeOK
  <2> QED
    BY <2>1, ServerFileKept DEF ChildOpens, ChildStep, history
<1>7. Ordered'
  BY <1>1, <1>2
  DEF ChildOpens, ChildRecords, ChildStep, Dumping, Ordered, Running, history
<1>8. OnDisk'
  BY CheckpointAssumption, Names, <1>1, <1>2, ZenonT(40)
  DEF ChildOpens, ChildRecords, ChildStep, ChildWritten, Dumping, Files, Holds,
      OnDisk, Ordered, Owners, Running, ServerDumps, ServerWritten, Stopped,
      TypeOK, Versions, history, temp_name
<1>9. OneDump'
  BY <1>1, <1>2
  DEF Busy, ChildOpens, ChildRecords, ChildStep, Dumping, OneDump, ServerDumps,
      history
<1>10. Calm'
  <2> SUFFICES ASSUME ~disturbed'
               PROVE  Calm'
    BY DEF Calm
  <2>1. ~disturbed
    BY DEF ChildOpens
  <2>2. \A h \in Generations : child'[h].at # "none" => h = g
    BY <1>2, <2>1 DEF OneDump, ChildOpens, ChildStep
  <2>4. file'[g] # None
    BY <1>1
  <2>5. saved' <= child'[g].version
    BY <1>2, <2>1 DEF Calm, ChildOpens, ChildStep, Running, Dumping
  <2>6. ~Swapping' => ~Swapping
    BY <1>2, Names DEF Swapping, ChildOpens, ChildStep, TypeOK
  <2>7. file'[dump_db_name] = file[dump_db_name]
    BY <1>1, Names
  <2>8. ~Swapping' =>
          \/ Holds(dump_db_name, saved)'
          \/ file'[dump_db_name] = None /\ saved' = loaded'
    BY <2>1, <2>6, <2>7 DEF Calm, Holds, ChildOpens, ChildStep, history
  <2>9. server'.at = "exited" => saved' = version'
    BY <2>1 DEF Calm, ChildOpens, ChildStep
  <2> QED
    BY <1>2, <2>2, <2>4, <2>5, <2>8, <2>9 DEF Calm, Running, Dumping
<1>11. Heard'
  BY CheckpointAssumption, Names, <1>1, <1>2, SMTT(40)
  DEF Alive, Busy, Calm, ChildOpens, ChildRecords, ChildStep, ChildWritten,
      Dumping, Files, Heard, Holds, InPlace, OneDump, Owners, Running,
      ServerDumps, Stopped, Swapping, TypeOK, Versions, history
<1>12. ZombiesAreReaped'
  BY <1>1, <1>2
  DEF Alive, ChildOpens, ChildRecords, ChildStep, Dumping, Stopped,
      ZombiesAreReaped, history
<1> QED
  BY <1>3, <1>4, <1>5, <1>6, <1>7, <1>8, <1>9, <1>10, <1>11, <1>12

\* A checkpointer cannot open its temporary file.
LEMMA ChildOpenFailsInv ==
  ASSUME NEW g \in Generations, CheckpointInv, ChildOpenFails(g)
  PROVE  CheckpointInv'
<1> USE DEF CheckpointInv
<1>1. /\ child' \in [Generations -> ChildRecords]
      /\ child'[g].at = (IF Alive THEN "zombie" ELSE "none")
      /\ Alive => child'[g].ok = FALSE
      /\ \A h \in Generations \ {g} : child'[h] = child[h]
      /\ sigchld' = Alive /\ sigchld' \in BOOLEAN
  BY Ended DEF ChildOpenFails, ChildStep
<1>2. TypeOK'
  BY <1>1
  DEF Alive, ChildOpenFails, ChildRecords, ChildStep, Dumping, Generations,
      Stopped, TypeOK, history
<1>3. Owners'
  BY <1>1
  DEF Alive, ChildOpenFails, ChildRecords, ChildStep, Dumping, Owners,
      ServerDumps, Stopped, history
<1>4. ChildWritten'
  BY <1>1
  DEF Alive, ChildOpenFails, ChildRecords, ChildStep, ChildWritten, Dumping,
      Holds, Stopped, history
<1>5. ServerWritten'
  BY <1>1
  DEF Alive, ChildOpenFails, ChildRecords, ChildStep, Dumping, Holds,
      ServerWritten, Stopped, history, temp_name
<1>6. Ordered'
  BY <1>1
  DEF Alive, ChildOpenFails, ChildRecords, ChildStep, Dumping, Ordered, Running,
      Stopped, history
<1>7. OnDisk'
  BY <1>1
  DEF Alive, ChildOpenFails, ChildRecords, ChildStep, Dumping, OnDisk, Stopped,
      history
<1>8. OneDump'
  BY <1>1
  DEF Alive, Busy, ChildOpenFails, ChildRecords, ChildStep, Dumping, OneDump,
      ServerDumps, Stopped, history
<1>9. Calm'
  BY <1>1
  DEF Alive, Calm, ChildOpenFails, ChildRecords, ChildStep, Dumping, Holds,
      Running, Stopped, Swapping, history
<1>10. Heard'
  BY <1>1, SMTT(40)
  DEF Alive, Busy, Calm, ChildOpenFails, ChildRecords, ChildStep, ChildWritten,
      Dumping, Files, Heard, Holds, InPlace, OneDump, Owners, Running,
      ServerDumps, Stopped, Swapping, TypeOK, Versions, history
<1>11. ZombiesAreReaped'
  BY <1>1
  DEF Alive, ChildOpenFails, ChildRecords, ChildStep, Dumping, Stopped,
      ZombiesAreReaped, history
<1> QED
  BY <1>2, <1>3, <1>4, <1>5, <1>6, <1>7, <1>8, <1>9, <1>10, <1>11

\* A checkpointer has written its temporary file, if that still has a name.
LEMMA ChildWritesInv ==
  ASSUME NEW g \in Generations, CheckpointInv, ChildWrites(g)
  PROVE  CheckpointInv'
<1> USE DEF CheckpointInv
<1>1. /\ file' \in [FileNames -> Files \cup {None}]
      /\ file[g] = None => file'[g] = None
      /\ file[g] # None =>
           /\ file'[g] # None
           /\ file'[g].version = file[g].version
           /\ "close" \notin Failures => file'[g].whole
      /\ \A e \in FileNames \ {g} : file'[e] = file[e]
  BY Closed, Names DEF ChildStep, ChildWrites
<1>2. /\ child' \in [Generations -> ChildRecords]
      /\ child'[g].at = "remove" /\ child'[g].version = child[g].version
      /\ \A h \in Generations \ {g} : child'[h] = child[h]
      /\ UNCHANGED sigchld
  BY Gone DEF ChildRecords, ChildStep, ChildWrites, Dumping, TypeOK
<1>3. TypeOK'
  BY <1>1, <1>2
  DEF ChildRecords, ChildStep, ChildWrites, Dumping, Generations, Stopped,
      TypeOK, history
<1>4. Owners'
  BY <1>1, <1>2
  DEF ChildRecords, ChildStep, ChildWrites, Dumping, Owners, ServerDumps, history
<1>5. ChildWritten'
  <2> SUFFICES ASSUME NEW h \in Generations, h # g
               PROVE  /\ child'[h] = child[h] /\ file'[h] = file[h]
    BY <1>1, <1>2 DEF ChildWritten, Holds, ChildStep, ChildWrites
  <2> QED
    BY <1>1, <1>2, Names
<1>6. ServerWritten'
  <2>1. ServerDumps => file'[temp_name] = file[temp_name]
    BY OwnFile, Names, <1>1 DEF ChildWrites, ChildStep, TypeOK
  <2> QED
    BY <2>1, ServerFileKept DEF ChildWrites, ChildStep, history
<1>7. Ordered'
  BY <1>1, <1>2
  DEF ChildRecords, ChildStep, ChildWrites, Dumping, Ordered, Running, history
<1>8. OnDisk'
  BY CheckpointAssumption, Names, <1>1, <1>2
  DEF ChildRecords, ChildStep, ChildWrites, ChildWritten, Dumping, Files, Holds,
      OnDisk, Ordered, Owners, Running, ServerDumps, ServerWritten, Stopped,
      TypeOK, Versions, history, temp_name
<1>9. OneDump'
  BY <1>1, <1>2
  DEF Busy, ChildRecords, ChildStep, ChildWrites, Dumping, OneDump, ServerDumps,
      history
<1>10. Calm'
  <2> SUFFICES ASSUME ~disturbed'
               PROVE  Calm'
    BY DEF Calm
  <2>1. ~disturbed
    BY DEF ChildWrites
  <2>2. \A h \in Generations : child'[h].at # "none" => h = g
    BY <1>2, <2>1 DEF OneDump, ChildWrites, ChildStep
  <2>3. file[g] # None
    BY <2>1 DEF Calm, ChildWrites, ChildStep
  <2>4. file'[g] # None
    BY <1>1, <2>3 DEF Holds
  <2>5. saved' <= child'[g].version
    BY <1>2, <2>1 DEF Calm, ChildWrites, ChildStep, Running, Dumping
  <2>6. ~Swapping' => ~Swapping
    BY <1>2, Names DEF Swapping, ChildWrites, ChildStep, TypeOK
  <2>7. file'[dump_db_name] = file[dump_db_name]
    BY <1>1, Names
  <2>8. ~Swapping' =>
          \/ Holds(dump_db_name, saved)'
          \/ file'[dump_db_name] = None /\ saved' = loaded'
    BY <2>1, <2>6, <2>7 DEF Calm, Holds, ChildWrites, ChildStep, history
  <2>9. server'.at = "exited" => saved' = version'
    BY <2>1 DEF Calm, ChildWrites, ChildStep
  <2> QED
    BY <1>2, <2>2, <2>4, <2>5, <2>8, <2>9 DEF Calm, Running, Dumping
<1>11. Heard'
  <2> SUFFICES ASSUME ~disturbed', Alive'
               PROVE  Heard'
    BY DEF Heard
  <2>1. ~disturbed /\ Alive
    BY DEF ChildWrites, ChildStep, Alive
  <2>2. \A h \in Generations : child[h].at # "zombie"
    BY <2>1 DEF OneDump, ChildWrites, ChildStep
  <2>3. \A h \in Generations : child'[h].at # "zombie"
    BY <1>2, <2>2
  <2>4. ~sigchld /\ status # "unset" /\ status \notin {"0", "1"}
    BY <2>1, <2>2 DEF Heard, Busy, ChildWrites, ChildStep
  <2>5. InPlace => InPlace'
    BY <1>1, <1>2, Names DEF InPlace, Swapping, ChildWrites, ChildStep
  <2>6. checkpoint_finished = 2 => InPlace
    BY <2>1 DEF Heard
  <2>7. /\ sigchld' = sigchld /\ status' = status
        /\ checkpoint_finished' = checkpoint_finished
    BY <1>2 DEF ChildWrites, ChildStep
  <2> QED
    BY <2>3, <2>4, <2>5, <2>6, <2>7 DEF Heard
<1>12. ZombiesAreReaped'
  BY <1>1, <1>2
  DEF Alive, ChildRecords, ChildStep, ChildWrites, Dumping, Stopped,
      ZombiesAreReaped, history
<1> QED
  BY <1>3, <1>4, <1>5, <1>6, <1>7, <1>8, <1>9, <1>10, <1>11, <1>12

\* A checkpointer could not write.
LEMMA ChildWriteFailsInv ==
  ASSUME NEW g \in Generations, CheckpointInv, ChildWriteFails(g)
  PROVE  CheckpointInv'
<1> USE DEF CheckpointInv
<1>1. /\ file' \in [FileNames -> Files \cup {None}]
      /\ file'[g] = None
      /\ \A e \in FileNames \ {g} : file'[e] = file[e]
  BY Removed, Names DEF ChildStep, ChildWriteFails
<1>2. /\ child' \in [Generations -> ChildRecords]
      /\ child'[g].at = (IF Alive THEN "zombie" ELSE "none")
      /\ Alive => child'[g].ok = FALSE
      /\ \A h \in Generations \ {g} : child'[h] = child[h]
      /\ sigchld' = Alive /\ sigchld' \in BOOLEAN
  BY Ended DEF ChildStep, ChildWriteFails
<1>3. TypeOK'
  BY <1>1, <1>2
  DEF Alive, ChildRecords, ChildStep, ChildWriteFails, Dumping, Generations,
      Stopped, TypeOK, history
<1>4. Owners'
  BY <1>1, <1>2
  DEF Alive, ChildRecords, ChildStep, ChildWriteFails, Dumping, Owners,
      ServerDumps, Stopped, history
<1>5. ChildWritten'
  BY CheckpointAssumption, Names, <1>1, <1>2
  DEF Alive, ChildRecords, ChildStep, ChildWriteFails, ChildWritten, Dumping,
      Files, Holds, Owners, ServerDumps, Stopped, TypeOK, Versions, history
<1>6. ServerWritten'
  <2>1. ServerDumps => file'[temp_name] = file[temp_name]
    BY OwnFile, Names, <1>1 DEF ChildWriteFails, ChildStep, TypeOK
  <2> QED
    BY <2>1, ServerFileKept DEF ChildWriteFails, ChildStep, history
<1>7. Ordered'
  BY <1>1, <1>2
  DEF Alive, ChildRecords, ChildStep, ChildWriteFails, Dumping, Ordered, Running,
      Stopped, history
<1>8. OnDisk'
  BY CheckpointAssumption, Names, <1>1, <1>2
  DEF Alive, ChildRecords, ChildStep, ChildWriteFails, ChildWritten, Dumping,
      Files, Holds, OnDisk, Ordered, Owners, Running, ServerDumps, ServerWritten,
      Stopped, TypeOK, Versions, history, temp_name
<1>9. OneDump'
  BY <1>1, <1>2
  DEF Alive, Busy, ChildRecords, ChildStep, ChildWriteFails, Dumping, OneDump,
      ServerDumps, Stopped, history
<1>10. Calm'
  <2> SUFFICES ASSUME ~disturbed'
               PROVE  Calm'
    BY DEF Calm
  <2>1. ~disturbed
    BY DEF ChildWriteFails
  <2>2. \A h \in Generations : child'[h].at \in {"none", "zombie"}
    BY <1>2, <2>1 DEF OneDump, ChildWriteFails, ChildStep
  <2>3. ~Swapping' => ~Swapping
    BY <1>2, Names DEF Swapping, ChildWriteFails, ChildStep, TypeOK
  <2>4. file'[dump_db_name] = file[dump_db_name]
    BY <1>1, Names
  <2>5. saved' = saved /\ loaded' = loaded
    BY DEF ChildWriteFails, ChildStep, history
  <2>6. ~Swapping' => \/ Holds(dump_db_name, saved)
                      \/ file[dump_db_name] = None /\ saved = loaded
    BY <2>1, <2>3 DEF Calm
  <2>7. ~Swapping' =>
          \/ Holds(dump_db_name, saved)'
          \/ file'[dump_db_name] = None /\ saved' = loaded'
    BY <2>4, <2>5, <2>6 DEF Holds
  <2>8. server'.at = "exited" => saved' = version'
    BY <2>1 DEF Calm, ChildWriteFails, ChildStep
  <2> QED
    BY <2>2, <2>7, <2>8 DEF Calm, Running, Dumping
<1>11. Heard'
  BY CheckpointAssumption, Names, <1>1, <1>2
  DEF Alive, Busy, Calm, ChildRecords, ChildStep, ChildWriteFails, ChildWritten,
      Dumping, Files, Heard, Holds, InPlace, OneDump, Owners, Running,
      ServerDumps, Stopped, Swapping, TypeOK, Versions, history
<1>12. ZombiesAreReaped'
  BY <1>1, <1>2
  DEF Alive, ChildRecords, ChildStep, ChildWriteFails, Dumping, Stopped,
      ZombiesAreReaped, history
<1> QED
  BY <1>3, <1>4, <1>5, <1>6, <1>7, <1>8, <1>9, <1>10, <1>11, <1>12

\* A checkpointer removes the last dump.
LEMMA ChildRemovesInv ==
  ASSUME NEW g \in Generations, CheckpointInv, ChildRemoves(g)
  PROVE  CheckpointInv'
<1> USE DEF CheckpointInv
<1>1. /\ file' \in [FileNames -> Files \cup {None}]
      /\ file'[dump_db_name] = None
      /\ \A e \in FileNames \ {dump_db_name} : file'[e] = file[e]
  BY Removed, Names DEF ChildRemoves, ChildStep
<1>2. /\ child' \in [Generations -> ChildRecords]
      /\ child'[g].at = "rename" /\ child'[g].version = child[g].version
      /\ \A h \in Generations \ {g} : child'[h] = child[h]
      /\ UNCHANGED sigchld
  BY Gone DEF ChildRecords, ChildRemoves, ChildStep, Dumping, TypeOK
<1>3. TypeOK'
  BY <1>1, <1>2
  DEF ChildRecords, ChildRemoves, ChildStep, Dumping, Generations, Stopped,
      TypeOK, history
<1>4. Owners'
  BY <1>1, <1>2
  DEF ChildRecords, ChildRemoves, ChildStep, Dumping, Owners, ServerDumps,
      history
<1>5. ChildWritten'
  BY CheckpointAssumption, Names, <1>1, <1>2, SMTT(40)
  DEF ChildRecords, ChildRemoves, ChildStep, ChildWritten, Dumping, Files, Holds,
      Owners, ServerDumps, Stopped, TypeOK, Versions, history
<1>6. ServerWritten'
  <2>1. ServerDumps => file'[temp_name] = file[temp_name]
    BY OwnFile, Names, <1>1 DEF ChildRemoves, ChildStep, TypeOK
  <2> QED
    BY <2>1, ServerFileKept DEF ChildRemoves, ChildStep, history
<1>7. Ordered'
  BY <1>1, <1>2
  DEF ChildRecords, ChildRemoves, ChildStep, Dumping, Ordered, Running, history
<1>8. OnDisk'
  BY CheckpointAssumption, Names, <1>1, <1>2
  DEF ChildRecords, ChildRemoves, ChildStep, ChildWritten, Dumping, Files, Holds,
      OnDisk, Ordered, Owners, Running, ServerDumps, ServerWritten, Stopped,
      TypeOK, Versions, history, temp_name
<1>9. OneDump'
  BY <1>1, <1>2
  DEF Busy, ChildRecords, ChildRemoves, ChildStep, Dumping, OneDump, ServerDumps,
      history
<1>10. Calm'
  <2> SUFFICES ASSUME ~disturbed'
               PROVE  Calm'
    BY DEF Calm
  <2>1. ~disturbed
    BY DEF ChildRemoves
  <2>2. \A h \in Generations : child'[h].at # "none" => h = g
    BY <1>2, <2>1 DEF OneDump, ChildRemoves, ChildStep
  <2>3. file[g] # None
    BY <2>1 DEF Calm, ChildRemoves, ChildStep
  <2>4. file'[g] # None
    BY <1>1, <2>3, Names
  <2>5. saved' <= child'[g].version
    BY <1>2, <2>1 DEF Calm, ChildRemoves, ChildStep, Running, Dumping
  <2>6. Swapping'
    BY <1>2 DEF Swapping
  <2>7. server'.at = "exited" => saved' = version'
    BY <2>1 DEF Calm, ChildRemoves, ChildStep
  <2> QED
    BY <1>2, <2>2, <2>4, <2>5, <2>6, <2>7 DEF Calm, Running, Dumping
<1>11. Heard'
  BY <1>1, <1>2
  DEF Alive, Busy, ChildRecords, ChildRemoves, ChildStep, Dumping, Heard,
      InPlace, Stopped, Swapping, history
<1>12. ZombiesAreReaped'
  BY <1>1, <1>2
  DEF Alive, ChildRecords, ChildRemoves, ChildStep, Dumping, Stopped,
      ZombiesAreReaped, history
<1> QED
  BY <1>3, <1>4, <1>5, <1>6, <1>7, <1>8, <1>9, <1>10, <1>11, <1>12

\* A checkpointer puts its dump into place.
LEMMA ChildRenamesInv ==
  ASSUME NEW g \in Generations, CheckpointInv, ChildRenames(g)
  PROVE  CheckpointInv'
<1> USE DEF CheckpointInv
<1>1. /\ file' \in [FileNames -> Files \cup {None}]
      /\ file'[g] = None
      /\ file'[dump_db_name] = file[g]
      /\ \A e \in FileNames \ {g, dump_db_name} : file'[e] = file[e]
  BY Renamed, Names DEF ChildRenames, ChildStep
<1>2. /\ child' \in [Generations -> ChildRecords]
      /\ child'[g].at = (IF Alive THEN "zombie" ELSE "none")
      /\ Alive => child'[g].ok = TRUE
      /\ \A h \in Generations \ {g} : child'[h] = child[h]
      /\ sigchld' = Alive /\ sigchld' \in BOOLEAN
  BY Ended DEF ChildRenames, ChildStep
<1>3. TypeOK'
  BY <1>1, <1>2
  DEF Alive, ChildRecords, ChildRenames, ChildStep, Dumping, Generations,
      Stopped, TypeOK, history
<1>4. Owners'
  BY <1>1, <1>2, SMTT(40)
  DEF Alive, ChildRecords, ChildRenames, ChildStep, Dumping, Owners, ServerDumps,
      Stopped, history
<1>5. ChildWritten'
  BY CheckpointAssumption, Names, <1>1, <1>2, SMTT(40)
  DEF Alive, ChildRecords, ChildRenames, ChildStep, ChildWritten, Dumping, Files,
      Holds, Owners, ServerDumps, Stopped, TypeOK, Versions, history
<1>6. ServerWritten'
  <2>1. ServerDumps => file'[temp_name] = file[temp_name]
    BY OwnFile, Names, <1>1 DEF ChildRenames, ChildStep, TypeOK
  <2> QED
    BY <2>1, ServerFileKept DEF ChildRenames, ChildStep, history
<1>7. Ordered'
  BY <1>1, <1>2
  DEF Alive, ChildRecords, ChildRenames, ChildStep, Dumping, Ordered, Running,
      Stopped, history
<1>8. OnDisk'
  BY CheckpointAssumption, Names, <1>1, <1>2
  DEF Alive, ChildRecords, ChildRenames, ChildStep, ChildWritten, Dumping, Files,
      Holds, OnDisk, Ordered, Owners, Running, ServerDumps, ServerWritten,
      Stopped, TypeOK, Versions, history, temp_name
<1>9. OneDump'
  BY <1>1, <1>2
  DEF Alive, Busy, ChildRecords, ChildRenames, ChildStep, Dumping, OneDump,
      ServerDumps, Stopped, history
<1>10. Calm'
  <2> SUFFICES ASSUME ~disturbed'
               PROVE  Calm'
    BY DEF Calm
  <2>1. ~disturbed /\ child[g].at = "rename"
    BY DEF ChildRenames, ChildStep
  <2>2. \A h \in Generations : child'[h].at \notin Dumping
    BY <1>2, <2>1 DEF OneDump, Dumping
  <2>3. Holds(g, child[g].version)
    BY <2>1 DEF ChildWritten, Calm
  <2>4. saved' = child[g].version
    BY DEF ChildRenames
  <2>5. Holds(dump_db_name, saved)'
    BY <1>1, <2>3, <2>4 DEF Holds
  <2>6. server'.at # "exited"
    BY <2>1 DEF OneDump, Busy, ChildRenames, ChildStep
  <2> QED
    BY <2>2, <2>5, <2>6 DEF Calm, Running, Dumping
<1>11. Heard'
  BY <1>1, <1>2
  DEF Alive, Busy, Calm, ChildRecords, ChildRenames, ChildStep, ChildWritten,
      Dumping, Files, Heard, Holds, InPlace, OneDump, Owners, Running,
      ServerDumps, Stopped, Swapping, TypeOK, Versions, history
<1>12. ZombiesAreReaped'
  BY <1>1, <1>2
  DEF Alive, ChildRecords, ChildRenames, ChildStep, Dumping, Stopped,
      ZombiesAreReaped, history
<1> QED
  BY <1>3, <1>4, <1>5, <1>6, <1>7, <1>8, <1>9, <1>10, <1>11, <1>12

\* A checkpointer's temporary file was removed by the next dump.
LEMMA ChildRenameFailsInv ==
  ASSUME NEW g \in Generations, CheckpointInv, ChildRenameFails(g)
  PROVE  CheckpointInv'
<1> USE DEF CheckpointInv
<1>1. /\ child' \in [Generations -> ChildRecords]
      /\ child'[g].at = (IF Alive THEN "zombie" ELSE "none")
      /\ Alive => child'[g].ok = FALSE
      /\ \A h \in Generations \ {g} : child'[h] = child[h]
      /\ sigchld' = Alive /\ sigchld' \in BOOLEAN
  BY Ended DEF ChildRenameFails, ChildStep
<1>2. TypeOK'
  BY <1>1
  DEF Alive, ChildRecords, ChildRenameFails, ChildStep, Dumping, Generations,
      Stopped, TypeOK, history
<1>3. Owners'
  BY <1>1
  DEF Alive, ChildRecords, ChildRenameFails, ChildStep, Dumping, Owners,
      ServerDumps, Stopped, history
<1>4. ChildWritten'
  BY <1>1
  DEF Alive, ChildRecords, ChildRenameFails, ChildStep, ChildWritten, Dumping,
      Holds, Stopped, history
<1>5. ServerWritten'
  BY <1>1
  DEF Alive, ChildRecords, ChildRenameFails, ChildStep, Dumping, Holds,
      ServerWritten, Stopped, history, temp_name
<1>6. Ordered'
  BY <1>1
  DEF Alive, ChildRecords, ChildRenameFails, ChildStep, Dumping, Ordered,
      Running, Stopped, history
<1>7. OnDisk'
  BY <1>1
  DEF Alive, ChildRecords, ChildRenameFails, ChildStep, Dumping, OnDisk, Stopped,
      history
<1>8. OneDump'
  BY <1>1
  DEF Alive, Busy, ChildRecords, ChildRenameFails, ChildStep, Dumping, OneDump,
      ServerDumps, Stopped, history
<1>9. Calm'
  BY <1>1
  DEF Alive, Calm, ChildRecords, ChildRenameFails, ChildStep, Dumping, Holds,
      Running, Stopped, Swapping, history
<1>10. Heard'
  BY <1>1
  DEF Alive, Busy, Calm, ChildRecords, ChildRenameFails, ChildStep, ChildWritten,
      Dumping, Files, Heard, Holds, InPlace, OneDump, Owners, Running,
      ServerDumps, Stopped, Swapping, TypeOK, Versions, history
<1>11. ZombiesAreReaped'
  BY <1>1
  DEF Alive, ChildRecords, ChildRenameFails, ChildStep, Dumping, Stopped,
      ZombiesAreReaped, history
<1> QED
  BY <1>2, <1>3, <1>4, <1>5, <1>6, <1>7, <1>8, <1>9, <1>10, <1>11

\* A checkpointer is killed, or panics: in the middle of its swap that is a
\* disturbance.
LEMMA ChildDiesInv ==
  ASSUME NEW g \in Generations, CheckpointInv, ChildDies(g)
  PROVE  CheckpointInv'
<1> USE DEF CheckpointInv
<1>1. /\ child' \in [Generations -> ChildRecords]
      /\ child'[g].at = (IF Alive THEN "zombie" ELSE "none")
      /\ Alive => child'[g].ok = FALSE
      /\ \A h \in Generations \ {g} : child'[h] = child[h]
      /\ sigchld' = Alive /\ sigchld' \in BOOLEAN
  BY Ended DEF ChildDies, ChildStep
<1>2. TypeOK'
  BY <1>1, ZenonT(40)
  DEF Alive, ChildDies, ChildRecords, ChildStep, Dumping, Generations, Running,
      Stopped, TypeOK, history
<1>3. Owners'
  BY <1>1
  DEF Alive, ChildDies, ChildRecords, ChildStep, Dumping, Owners, Running,
      ServerDumps, Stopped, history
<1>4. ChildWritten'
  BY <1>1
  DEF Alive, ChildDies, ChildRecords, ChildStep, ChildWritten, Dumping, Holds,
      Running, Stopped, history
<1>5. ServerWritten'
  BY <1>1
  DEF Alive, ChildDies, ChildRecords, ChildStep, Dumping, Holds, Running,
      ServerWritten, Stopped, history, temp_name
<1>6. Ordered'
  BY <1>1
  DEF Alive, ChildDies, ChildRecords, ChildStep, Dumping, Ordered, Running,
      Stopped, history
<1>7. OnDisk'
  BY <1>1
  DEF Alive, ChildDies, ChildRecords, ChildStep, Dumping, OnDisk, Running,
      Stopped, history
<1>8. OneDump'
  BY <1>1, ZenonT(40)
  DEF Alive, Busy, ChildDies, ChildRecords, ChildStep, Dumping, OneDump, Running,
      ServerDumps, Stopped, history
<1>9. Calm'
  BY <1>1
  DEF Alive, Calm, ChildDies, ChildRecords, ChildStep, Dumping, Holds, Running,
      Stopped, Swapping, history
<1>10. Heard'
  BY <1>1, ZenonT(40)
  DEF Alive, Busy, Calm, ChildDies, ChildRecords, ChildStep, ChildWritten,
      Dumping, Files, Heard, Holds, InPlace, OneDump, Owners, Running,
      ServerDumps, Stopped, Swapping, TypeOK, Versions, history
<1>11. ZombiesAreReaped'
  BY <1>1
  DEF Alive, ChildDies, ChildRecords, ChildStep, Dumping, Running, Stopped,
      ZombiesAreReaped, history
<1> QED
  BY <1>2, <1>3, <1>4, <1>5, <1>6, <1>7, <1>8, <1>9, <1>10, <1>11

-----------------------------------------------------------------------------
(* The theorems. *)

\* The first server has loaded a whole database, and no process dumps one.
LEMMA InitCheckpointInv == Init => CheckpointInv
<1> SUFFICES ASSUME Init
             PROVE  CheckpointInv
  OBVIOUS
<1>1. 0 \in Versions /\ 0 \in Generations /\ 0 \in 0..MaxRestarts
  BY CheckpointAssumption DEF Versions, Generations
<1>2. \A f \in FileNames :
        file[f] = IF f = input_db_name THEN [version |-> 0, whole |-> TRUE] ELSE None
  BY DEF Init
<1>3. file[input_db_name] = [version |-> 0, whole |-> TRUE] /\ file[dump_db_name] = None
  BY <1>2, Names
<1>4. \A g \in Generations : child[g] = NoChild
  BY DEF Init
<1>5. file \in [FileNames -> Files \cup {None}]
  <2>1. [version |-> 0, whole |-> TRUE] \in Files
    BY <1>1, InputIsFile
  <2> QED
    BY <2>1 DEF Init
<1>6. child \in [Generations -> ChildRecords]
  BY NoChildIsOne DEF Init
<1>7. server \in [at : Dumping \cup Stopped \cup {"loop", "notify"},
                  reason : {"shutdown", "panic"}]
  BY DEF Init
<1>8. TypeOK
  <2>1. /\ version \in Versions /\ loaded \in Versions /\ saved \in Versions
        /\ dump_generation \in Generations /\ restarts \in 0..MaxRestarts
    BY <1>1 DEF Init
  <2>2. /\ checkpoint_requested \in BOOLEAN /\ shutdown_message \in BOOLEAN
        /\ sigchld \in BOOLEAN /\ disturbed \in BOOLEAN
    BY DEF Init
  <2>3. status = None /\ checkpoint_finished = 0
    BY DEF Init
  <2> QED
    BY <1>5, <1>6, <1>7, <2>1, <2>2, <2>3 DEF TypeOK, ChildRecords
<1>9. Owners /\ ChildWritten /\ ServerWritten
  BY <1>4, CheckpointAssumption
     DEF Init, Owners, ChildWritten, ServerWritten, NoChild, ServerDumps, Dumping
<1>10. Ordered /\ OnDisk
  BY <1>3, <1>4 DEF Init, Ordered, OnDisk, Running, Dumping, NoChild
<1>11. OneDump /\ Calm
  BY <1>3, <1>4
     DEF Init, OneDump, Calm, Swapping, Running, Dumping, ServerDumps, NoChild
<1>12. Heard /\ ZombiesAreReaped
  BY <1>4, CheckpointAssumption DEF Init, Heard, ZombiesAreReaped, NoChild
<1> QED
  BY <1>8, <1>9, <1>10, <1>11, <1>12 DEF CheckpointInv

\* Every step keeps the invariant.
LEMMA NextCheckpointInv == CheckpointInv /\ [Next]_vars => CheckpointInv'
<1> SUFFICES ASSUME CheckpointInv, [Next]_vars
             PROVE  CheckpointInv'
  OBVIOUS
<1>1. CASE Change \/ Request \/ Shutdown \/ Fork \/ ForkFails
  BY <1>1, ChangeInv, RequestInv, ShutdownInv, ForkInv, ForkFailsInv
<1>2. CASE NotifyBegins \/ NotifyEnds \/ HandlerBegins \/ HandlerReturns
  BY <1>2, NotifyBeginsInv, NotifyEndsInv, HandlerBeginsInv, HandlerReturnsInv
<1>3. CASE LoopEnds \/ Panic \/ Killed \/ Restart
  BY <1>3, LoopEndsInv, PanicInv, KilledInv, RestartInv
<1>4. CASE DumpBegins \/ DumpOpens \/ DumpOpenFails \/ DumpWrites \/ DumpWriteFails
           \/ DumpRemoves \/ DumpRenames
  BY <1>4, DumpBeginsInv, DumpOpensInv, DumpOpenFailsInv, DumpWritesInv,
     DumpWriteFailsInv, DumpRemovesInv, DumpRenamesInv
<1>5. ASSUME NEW g \in Generations, Waitpid(g) \/ ChildNext(g)
      PROVE  CheckpointInv'
  BY <1>5, WaitpidInv, ChildOpensInv, ChildOpenFailsInv, ChildWritesInv,
     ChildWriteFailsInv, ChildRemovesInv, ChildRenamesInv, ChildRenameFailsInv,
     ChildDiesInv
     DEF ChildNext
<1>6. CASE UNCHANGED vars
  <2> USE <1>6 DEF CheckpointInv, vars
  <2>1. TypeOK'
    BY DEF TypeOK
  <2>2. Owners' /\ ChildWritten' /\ ServerWritten'
    BY DEF Owners, ChildWritten, ServerWritten, ServerDumps, Holds, temp_name
  <2>3. Ordered' /\ OnDisk' /\ OneDump'
    BY DEF Ordered, OnDisk, OneDump, Running, ServerDumps, Busy
  <2>4. Calm'
    BY DEF Calm, Running, Holds, Swapping
  <2>5. Heard' /\ ZombiesAreReaped'
    BY DEF Heard, ZombiesAreReaped, Alive, Busy, InPlace, Swapping
  <2> QED
    BY <2>1, <2>2, <2>3, <2>4, <2>5
<1> QED
  BY <1>1, <1>2, <1>3, <1>4, <1>5, <1>6 DEF Next

\* The invariant of dump_database() and its checkpointers, for any number of
\* generations, versions and restarts, and any choice of what fails and who dies.
THEOREM CheckpointInvariant == Spec => []CheckpointInv
BY InitCheckpointInv, NextCheckpointInv, PTL DEF Spec

\* Every variable of the checkpoints has its type (db_file.c and server.c).
THEOREM CheckpointTypeCorrect == Spec => []TypeOK
<1>1. CheckpointInv => TypeOK
  BY DEF CheckpointInv
<1> QED
  BY <1>1, CheckpointInvariant, PTL

\* No checkpointer that ended is forgotten (child_completed_signal()).
THEOREM ZombiesAreAlwaysReaped == Spec => []ZombiesAreReaped
<1>1. CheckpointInv => ZombiesAreReaped
  BY DEF CheckpointInv
<1> QED
  BY <1>1, CheckpointInvariant, PTL

\* As long as dumps do not overlap a success that is reported is one
\* (child_completed_signal()).
THEOREM SuccessIsAlwaysTrue == Spec => []SuccessIsTrue
<1>1. CheckpointInv => SuccessIsTrue
  BY DEF CheckpointInv, Heard, InPlace, SuccessIsTrue
<1> QED
  BY <1>1, CheckpointInvariant, PTL

\* What restart.sh would load is whole and not older than what was loaded, as long as
\* fclose() does not lose what was written (dump_database()).
THEOREM RestartAlwaysLoads ==
  ASSUME "close" \notin Failures
  PROVE  Spec => []RestartLoads
<1>1. CheckpointInv => RestartLoads
  <2> SUFFICES ASSUME CheckpointInv
               PROVE  RestartLoads
    OBVIOUS
  <2>1. loaded \in Versions /\ OnDisk
    BY DEF CheckpointInv, TypeOK
  <2>2. file[input_db_name] \in Files
    BY <2>1, InputIsFile DEF OnDisk
  <2>3. CASE file[dump_db_name] = None
    <3>1. Loadable = [version |-> loaded, whole |-> TRUE] /\ Loadable \in Files
      BY <2>1, <2>2, <2>3 DEF Loadable, OnDisk
    <3>2. Loadable # None
      BY <3>1, NoneIsNoFile
    <3>3. loaded \in Int
      BY <2>1 DEF Versions
    <3>4. Loadable.whole /\ Loadable.version >= loaded
      BY <3>1, <3>3
    <3> QED
      BY <3>2, <3>4 DEF RestartLoads
  <2>4. CASE file[dump_db_name] # None
    BY <2>1, <2>4 DEF RestartLoads, Loadable, OnDisk
  <2> QED
    BY <2>3, <2>4
<1> QED
  BY <1>1, CheckpointInvariant, PTL

\* As long as dumps do not overlap, what restart.sh would load is the last dump that
\* was put into place, and in the middle of a swap a whole newer one is there
\* (dump_database()); fclose() does not lose what was written.
THEOREM SavedIsAlwaysLoaded ==
  ASSUME "close" \notin Failures
  PROVE  Spec => []SavedIsLoaded
<1>1. CheckpointInv => SavedIsLoaded
  <2> SUFFICES ASSUME CheckpointInv, ~disturbed
               PROVE  IF Swapping
                      THEN \E f \in Generations : /\ file[f] # None /\ file[f].whole
                                                  /\ file[f].version >= saved
                      ELSE Loadable = [version |-> saved, whole |-> TRUE]
    BY DEF SavedIsLoaded
  <2> USE DEF CheckpointInv
  <2>1. CASE server.at = "rename"
    <3>1. Holds(dump_generation, version) /\ saved <= version
      BY <2>1 DEF ServerWritten, Ordered
    <3> QED
      BY <2>1, <3>1 DEF Swapping, Holds, TypeOK, Versions
  <2>2. ASSUME NEW g \in Generations, child[g].at = "rename"
        PROVE  file[g] # None /\ file[g].whole /\ file[g].version >= saved
    <3>1. Holds(g, child[g].version)
      BY <2>2 DEF ChildWritten, Calm
    <3>2. saved <= child[g].version
      BY <2>2 DEF Calm, Running, Dumping
    <3> QED
      BY <3>1, <3>2 DEF Holds, TypeOK, Versions
  <2>3. CASE ~Swapping
    <3>1. CASE Holds(dump_db_name, saved)
      <4>1. file[dump_db_name] \in Files
        BY <3>1, Names DEF Holds, TypeOK
      <4>2. file[dump_db_name] = [version |-> saved, whole |-> TRUE]
        BY <3>1, <4>1 DEF Holds, Files
      <4> QED
        BY <2>3, <3>1, <4>2 DEF Loadable, Holds
    <3>2. CASE file[dump_db_name] = None /\ saved = loaded
      BY <2>3, <3>2 DEF Loadable, OnDisk
    <3> QED
      BY <2>3, <3>1, <3>2 DEF Calm
  <2> QED
    BY <2>1, <2>2, <2>3 DEF Swapping
<1> QED
  BY <1>1, CheckpointInvariant, PTL

\* As long as dumps do not overlap, the server's last state is what the next one is
\* started with when main() has returned from db_shutdown(); fclose() does not lose
\* what was written.
THEOREM ShutdownAlwaysSaves ==
  ASSUME "close" \notin Failures
  PROVE  Spec => []ShutdownSaves
<1>1. CheckpointInv => ShutdownSaves
  <2> SUFFICES ASSUME CheckpointInv, ~disturbed, server.at = "exited"
               PROVE  Loadable = [version |-> version, whole |-> TRUE]
    BY DEF ShutdownSaves
  <2> USE DEF CheckpointInv
  <2>1. ~Swapping
    BY DEF OneDump, Busy, Swapping
  <2>2. saved = version
    BY DEF Calm
  <2>3. CASE Holds(dump_db_name, saved)
    <3>1. file[dump_db_name] \in Files
      BY <2>3, Names DEF Holds, TypeOK
    <3>2. file[dump_db_name] = [version |-> saved, whole |-> TRUE]
      BY <2>3, <3>1 DEF Holds, Files
    <3> QED
      BY <2>2, <2>3, <3>2 DEF Loadable, Holds
  <2>4. CASE file[dump_db_name] = None /\ saved = loaded
    BY <2>2, <2>4 DEF Loadable, OnDisk
  <2> QED
    BY <2>1, <2>3, <2>4 DEF Calm
<1> QED
  BY <1>1, CheckpointInvariant, PTL

=============================================================================
