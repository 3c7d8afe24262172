# A TLA+ development for the MOO server

`src/` is a LambdaMOO-derived server in C: one process keeps a database of
objects, players connect over TCP, and what they type runs programs (verbs)
written in the MOO language. MOO tasks do not preempt each other, which makes the
server look sequential; it is not. A task may suspend, fork, read input, boot,
recycle or log out anybody between two lines of C code; checkpoints are forked
processes; their ends and timers arrive as signals; name lookups run on threads
that may outlive the lookup. The sequential parts have their own hazards: the same
fact is kept twice (links and lists, searches and their cache, property slots and
what they depend on, a program's text and its byte codes), and the copies have to
agree after any sequence of calls. This development models those parts, checks them
with TLC and proves the central invariants with TLAPS.

Paths below are relative to the repository: `tasks.c` is `src/src/tasks.c`.

## Inventory

| Component | State | Operations | Interacts with | What is hard | What makes it correct |
|---|---|---|---|---|---|
| Task queues and scheduler (`tasks.c`) | a queue per player or connection: input lines, ready background tasks, a reader, usage; the lists idle, active, waiting | typing, forcing, flushing, reading, fork, suspend, resume, kill, login, `run_ready_tasks()` | connections (suspending input), VM (running, packing tasks), database (writing tasks) | every task runs MOO code that changes the lists under `run_ready_tasks()`; logins rename and merge queues | lists stay lists, one queue per player, no task lost or miscounted, ready tasks run |
| Connections and main loop (`server.c`) | a handle per connection: player, queue, flags | connect, log in, redirect, boot, hang up, sweep | task queues, network, checkpoint | notifiers run MOO code in the middle of a sweep or a redirect | a connection and its queue belong together; booted connections close |
| Checkpoint, dump, restart (`server.c`, `db_file.c`, `scripts/restart.sh`) | files, generation, forked checkpointers, `checkpoint_requested`, `checkpoint_finished` | request, fork, write, swap, SIGCHLD, shutdown, panic, restart | scheduler (tasks in the file), signals | overlapping dumps, crashes between steps, merged signals | there is always a whole database to load, the right one; ends are reported truthfully |
| Name lookup (`name_lookup.c`) | counted contexts shared with worker threads; a cap on threads | look up, give up at the deadline, finish late | network (`open_network_connection()`, accepting) | the deadline races the answer; who frees | no use after free, no leak, no mixed-up answer, the cap |
| Network I/O (`network.c`) | handles with output queues, suspended input | accept, read lines, queue and flush output | task queues, main loop | limits of output queues and descriptors | lines in order, nothing dropped unannounced |
| Object hierarchy (`db_objects.c`, `objects.c`) | parent, children, location, contents; object numbers | create, recycle, move, chparent, renumber | VM: `accept`, `exitfunc`, `enterfunc`, `initialize`, `recycle` verbs are called between their steps | what was checked before a verb is stale after it | lists and links agree, no loops, nothing points at a recycled object |
| Properties, quota (`db_properties.c`, `property.c`, `quota.c`) | an array of slots per object: its own properties, then its parent's, and so on | add, delete, rename, clear, assign, chparent | object hierarchy | every place in every descendant's array moves with a change of parent or property | the arrays are a table by name |
| Verbs (`db_verbs.c`, `verbs.c`) | verb lists, a cache of lookups, the o flag | add, delete, rename, look up | object hierarchy | a stale cache entry; three walks that protect a verb | the cache answers what a search would; a protected verb stays in charge |
| Timers (`timers.c`) | sorted list of timers, a free list, a virtual timer | set, cancel, SIGALRM, SIGVTALRM | main loop, VM (task time-outs), connecting, dumping | the handlers interrupt the lists' own code and leave by `longjmp` | each timer fires once, in order, none is lost |
| Compiler, decompiler (`code_gen.c`, `decompile.c`) | byte codes, operands of 1, 2 or 4 bytes, the depth of the stack | compile, decompile, line of a program counter | VM, database file | a suspended task is a program counter into code that is compiled again from text | the same bytes come out |
| Virtual machine (`execute.c`) | activations, their stacks and markers, ticks | run, raise, unwind, call, suspend, resume, fork | tasks, builtins, database file | errors, returns, breaks and kills cross handlers, finally blocks and half-done calls on one stack | a program does what it says, stops, and never takes the server with it |
| Values (`list.c`, `numbers.c`, `utils.c`, part of `extensions.c`) | – | lists, strings, arithmetic | VM | bounds, wrap-around | each builtin is what it is for |
| Files of programs (`extensions.c`) | a table of open files; files edited by line | open, read, write, seek, close; insert, cut, append | checkpointers inherit the buffers | crashes and checkpointers between a write and its flush; `fgets()` at the end of a file | what is read and written is what the file holds |
| Commands, file format, matching, hashes, registry | – | – | – | see *Not modelled* | |

`PROJECT.json` lists every component with its sources, and under `hazards` what
can go wrong at which line and which property would notice.

## Modules

| Module | Models | Theorems |
|---|---|---|
| `TaskQueues` | the data structures of `tasks.c` and the connection table of `server.c`; each C function that changes a queue is an operator from state to state, composed in the order the C code calls them | `TaskProofs`, `QueueProofs`, `FlowProofs` |
| `TaskServer` | the main loop around `run_ready_tasks()`: one action per step between two points where MOO code or input can intervene; each builtin a running task may call | `TaskProofs`, `QueueProofs`, `FlowProofs` |
| `TaskProperties` | what the two promise | `TaskProofs`, `QueueProofs`, `FlowProofs` |
| `NameLookup` | `name_lookup.c`: the server thread, the workers, their shared contexts | `NameLookupProofs` |
| `Checkpoint` | `dump_database()` in the server and in its checkpointers, SIGCHLD, shutdown, panic, kill, restart | `CheckpointProofs` |
| `Timers` | `timers.c` statement by statement, its signals and its callers | `TimersProofs` |
| `AlarmClock` | abstract: what `timers.h` promises; `Timers` implements it | `TimersProofs` |
| `ObjectHierarchy` | the object table of `db_objects.c` and the builtins of `objects.c` and `server.c` that change parents, places and numbers | `DatabaseProofs` |
| `Ancestry` | lines of ancestors, shared by the next two | – |
| `VerbNames`, `Verbs` | names with stars; `db_verbs.c` and `verbs.c` | `DatabaseProofs` |
| `Properties` | `db_properties.c`, `property.c`, `quota.c` | `PropertyProofs` |
| `Database` | `ObjectHierarchy`, `Verbs` and `Properties` composed, as the builtins of `objects.c` do | `DatabaseProofs`, `PropertyProofs` |
| `VerbSearch`, `PropertyTable` | abstract: a search without a cache, slots with names instead of places; `Database` implements both | `DatabaseProofs`, `PropertyProofs` |
| `Syntax`, `Opcodes`, `CodeGen`, `Decompile` | parse trees, byte codes and the way there and back | – |
| `Values`, `Lists` | values, operators, builtins on lists and strings; `ListChecks` compares them with what they are for | – |
| `Interpreter` | `run()` and what it calls, restarts included | – |
| `Language` | what a program means, from its tree, and that the machine does it | – |
| `Texts`, `FileHandles`, `FileEdits`, `Files` | `extensions.c`: handles, edits, and both in one process | – |
| `MC...` | constants of the instances TLC checks | |

### Task queues and server

`ts` is the state record: `tq[q]` is the tqueue at address `q`, `idle`, `active`
and `waiting` are the three lists (the idle list is a set because nothing depends
on its order; the other two are sequences), `sh[h]` is the shandle of the h-th
connection. Queue fields carry the C names shortened: `num` is `num_bg_tasks`,
`len` is `total_input_length`, `insusp` is `input_suspended`, `reader` is
`reading_vm` together with `reading`. Addresses come from a finite set and are
reused after they are freed, so a dangling reference would be seen as a wrong
queue. A connection that has not logged in is the player `-1 - h`, as in
`server_new_connection()`.

`pc` says where the server is: in `network_process_io()` (`io`, or `pull` in the
middle of one `read()`), moving due tasks (`ready`), picking one (`pick`), in a
MOO task (`task`), freeing queues (`sweep`), sweeping handles (`reap`). While `pc`
is `task` the running task may call any of the builtins of the instance, in any
order and number; it ends when it returns, suspends, or reads, and `run.cont` is
the C code that is waiting for it: the loop of `run_ready_tasks()`,
`do_command_task()` looking for a verb, `do_login_task()` waiting for a player,
the second notifier of a redirect, `server_close()`, or the sweep. A builtin that
only returns an error changes nothing and has no action.

Task identifiers are random in the code (`new_task_id()`); the model takes one
that is free. `start` and `now` are `time(0)`; the clock does not go back. The
notifier a redirect may run twice depends on a comparison with freed memory
(`player_connected()`, `server.c:1056`): both outcomes are allowed.

### Name lookup

A step is one atomic operation, one critical section of the context's mutex, or
code that touches nothing shared. The server thread does one lookup at a time;
the workers of those it gave up run on. A worker's resolver answers with the right
answer or none, after any time or never. A name is its own answer, so an answer to
another question shows.

### Checkpoint

A database is a version number and whether its file is whole. Checkpointers have
the number of their generation, which is also the name of their temporary file.
Every system call that touches a file is one step, so deaths fall between any two.
`fork`, `open` and `write` can fail, processes can be killed, the server can panic.
The retry of a failed shutdown dump, the merging of SIGCHLDs and the uninitialized
`status` of a handler that finds no child (either report) are modelled.

Two assumptions: the restart script runs when no checkpointer of the last server
is left (one that outlives it would share a temporary file with the next server's
first checkpoint), and `fclose()` does not fail. The second one matters: its result
is not looked at (`db_file.c:586`), so a disk that fills up in the last buffer gives
a truncated database that is swapped in and reported as a success. Add `"close"` to
`AllFailures` and TLC shows `SavedIsLoaded` and `ShutdownSaves` violated.

### Object hierarchy

`objects` is the set of numbers whose entry in the table is not null, `family` and
`place` are the two hierarchies: `up` is the `parent` or the `location`, `down` is
the list that starts at `child` or `contents`, kept as a set because nothing depends
on its order. That the links and the lists are two copies of one fact is the point:
`LL_REMOVE`, `LL_APPEND` and `db_set_object_number()` change them separately.

`calls` holds the calls of `move()` and `recycle()` that wait for a verb (`accept`,
`recycle`, `exitfunc`). Such a verb is MOO code and may suspend, so any number of calls
can be half done, and between two steps of one anything else may happen, its number
being recycled or given to another object included. A call that needs no verb goes on
at once, which is one of these orders. `initialize`, `enterfunc` and the `exitfunc` of
`move()` come after the last change and have no step. The loops of `recycle()` over
contents without an `exitfunc`, and over children, are one step each, as no MOO code
runs in them; that moving one after the other, from a list in any order, comes to that
step is an assumption of `MCDatabase` (`BelowIsMovedOneByOne`) that TLC evaluates for
every hierarchy of five objects. Permissions, quota, and the conflicts of verbs and properties that refuse
a `chparent()` are not in this module: any builtin may be permitted or refused.
`Database` adds the last three.

The initial state is a database of one object; everything else is made by the
builtins. `panic` is where the code would end in `server_panic()` (`"assertion"`) or
follow a null pointer (`"null"`); nothing happens after either.

### Timers

The nodes of `timers.c` are linked by pointers (`next`), and the model goes by
statements: `stop_timers()`, the edit of the list and `restart_timers()` are several
steps, as are the handlers, so that `SIGALRM` can come in `allocate_timer()`, between
`alarm(0)` and `signal(SIGALRM, SIG_IGN)`, or in the handler of `SIGVTALRM`. `frames`
is the stack of handlers; the kernel's part is `alarm`, `vt`, the pending signals and
the mask. `main` is the program that is interrupted: the main loop with its checkpoint
timer, a task with its limit (`setup_task_execution_limits`), a `connect()` with its
timeout inside the task, and a shutdown that sleeps between two tries of a dump.
`timeout_proc()` leaves by `longjmp`: the frames end and what they blocked stays
blocked until `reenable_timers()`, which unblocks `SIGALRM` only. `timer_sleep()` is two
steps, its `set_timer()` and its `pause()`: only a handler that returns while `main` is in
`pause` wakes it.

One assumption (`Prompt`): `stop_timers()` to `restart_timers()` takes less than a
second. Without it an alarm that was pending at `stop_timers()` and has been started
again by its handler could expire in the middle of the edit.

`AlarmClock` is a set of pending timers; `ClockSpec` maps `pending` to the data of the
nodes that `active_timers` leads to. Its liveness, that a due timer fires or is
cancelled, needs the statements to go on, signals that are pending and not blocked to be
delivered, and `alarm()` to expire (`Spec`). `Die` is there because the code can crash:
see *Where code and documentation disagree*.

### Verbs, properties and the database

`verbs[x]` is the list of verbs of `x`; a pointer to a verb is an object and a place.
`vc_table` says what was remembered for a word under a first ancestor with verbs, and
`answer` is what the last call found, which is what `VerbSearch` sees. The comparison of
two names with stars (`VerbNames`) is translated loop by loop, its overlaps that are
missed and its endless loop included: `check_verbs_before_chparent()` may answer
`"forever"`, which ends the run of the model as `panic = "loop"`.

`propval[x]` is the array of slots of `x`. Every operation computes places as the C does
(`Before`, `LengthOf`), and `db_find_property()` finds a name by walking the ancestors and
counting. `named`, a history variable, holds the same slots under their names, and is
what `PropertyTable` sees: there every object has one slot per property of its
ancestors, a change of parents keeps the slots whose definition is kept, and a clear slot
shows the parent's value. `decr_quota()` and `incr_quota()` go through the property
`quota_name` as in `quota.c`.

`Database` joins the three: one step of the builtin changes the hierarchy, the verbs,
the slots and the owners together, since each search depends on all of them.

### The language

A program is a tree (`Syntax`, after `ast.c`). `CodeGen` compiles it as `code_gen.c` does:
one byte per operand and a fixup, widths chosen at the end, the depth of the stack counted
on the way. `Decompile` reads bytes back to a tree and finds the line of a program
counter. `Interpreter` is the machine: an action per group of opcodes, `Fetch` taking the
tick, and `RaiseError`, `UnwindStack` and the rest as operators on `vm`. What is outside, a
builtin, a property, `suspend()`, answers anything from `Answers` or fails with one of
`Errors`; `oracle` is what it answered and `seen` what it was asked, with the call stack and
the lines a traceback would show.

`Language` says what the tree means, by recursion over it and without any stack or byte
code: a completion is a value, an exception, a return, a break, a continue or a kill, or a
return that has passed a `finally` (`"passed"`), whose value the code keeps from whoever
started the task. `RunsAsWritten` compares the two when the task stops: asked the same in
the same order, with the same lines, and the same result, or none where the return has
passed. What the code does not do as written is named in the properties themselves
(`FirstIsWhile`, `AssignsInProperty`, `SpinsUnchecked`), and the run has programs that meet
each (`Exceptions` in `MCLanguage`). `fuel` ends a program in the meaning where ticks
would in the machine; a task that was killed for its ticks did a beginning of what is meant.
Line numbers in `seen` are kept as where they come from and turned into numbers when compared
(`WithLines`), because each one costs a decompilation.

A restart (`Restart`) writes every program as text, that is as its decompiled tree, and
compiles it again; activations keep their program counters and have to pass
`check_pc_validity()`. A builtin that is returned to neither suspends nor kills its task
(`Continue`): those that do, `suspend()`, `read()` and `kill_task()`, do so when first called.

`Values` and `Lists` are pure functions. `ListChecks` states, as named assumptions that TLC
evaluates, what sorting, inserting, slicing, set operations, ranges and string functions
are for, on every list of up to three or four values and every string over a few
characters. Integers wrap at `INT_MAX`.

### Files of programs

`FileHandles` is FIO: `file_table` by handle, `file_allocate_next_handle()` with its static
variable, and below it stdio: the text of an inode, the offset of an open description (which
checkpointers share), and the buffer of a stream (which each of them copies). A buffer is
written when it is full or flushed, by `fclose()`, by the `exit()` of a checkpointer
(`ChildFlushes`), and not at all by a crash. A checkpoint does not wait for the one before
it, so there may be several checkpointers with buffers (`child`). The disk may be full
(`disk_full`): then only a beginning of what is written arrives, `fputs()` and `fwrite()`
tell, and what `fflush()` and `fclose()` tell is not looked at.

Of the characters four are told apart: the end of a line, NUL (`HOLE`), others that are not
printed (`CTRL`), and the rest. `file_read_line()` finds the length of a buffer with
`strlen()`, so a NUL ends the line there; a buffer that begins with one makes it look at
`buffer[-1]`, after which the server may go on or die (`GoesBeyond`). Handles of type text
drop what is not printed (`clean`), those of type binary keep it, and `fputs()` cuts at a NUL
what is written through them (`c_string`). `FileEdits` is FUP: each call reads a file to its end in lines of
`fgets()`, writes a new one and renames it. `Files` puts both in one process, so that an edit
that panics loses the buffers of the open files.

## Runs

| Run | Shows | Bounds, and why they are enough |
|---|---|---|
| `task_login` | `OneQueuePerPlayer`, `ConnectionHasItsQueue`, `BgAccounting`, `TasksAreConserved`: logins and redirects rename, merge and free queues without losing or misfiling anything, whatever reads, or is killed | two connections and one player: a redirect needs two; three tasks: one running, one on each of the merged queues, or one that reads; five queues: one more than can be live, so an address is reused |
| `task_input` | `NoPanic`, `InputIsNeverStuck`: input is suspended and resumed at its marks; no line or reader waits on a queue nobody looks at | marks at two and one lines, up to three queued: above, between and below |
| `task_kill` | `TypeOK`, `RunningQueueIsFirst`, `QueueLists`: the lists survive whatever the running task kills, resumes, forks or recycles | two programmers, three tasks, a limit of one task each, a clock that ticks once |
| `task_fair` | `BootedIsClosed`, `OrphanIsResumed`, `ReadyTaskRuns` | as above with one connection; verbs run as a wizard or as the connection, so that tasks of a connection that logs in are stranded; every temporal property needs only two queues that compete |
| `name_lookup` | `LiveWhileHeld`, `ThreadsBounded`, `SlotsReturned`, `AnswerIsForTheQuestion`, `LookupReturns` | two contexts, a cap of one: an abandoned worker beside a new lookup, a refused one, a reused address |
| `checkpoint` | `RestartLoads`, `SavedIsLoaded`, `SuccessIsTrue`, `ShutdownSaves`, `ZombiesAreReaped` | three generations: two checkpointers that overlap and the dump at shutdown; one restart: a dump beside the input it came from |
| `timers` | `SignalsAreSafe`, and `ClockSpec`: the lists implement an alarm clock | four nodes and four timers set in all: the three kinds at once and one on the free list to be taken again; intervals of one and two seconds on either side of a timeout of one; time stops at two, when all are due |
| `objects` | `ListsAgree`, `NoLoops`, `NoAssertionFails`, `AncestryIsKept`: nothing that verbs do between the steps of `move()` and `recycle()` puts the hierarchies out of order | three numbers: an object, what is above it and what is below it, and reuse of a number as soon as one is free; two waiting calls: one that interferes with the other; the theorems cover the rest |
| `database` | `CacheIsTransparent`, `SlotsAreATable`, `ProtectedStayProtected` | from two databases that are already deep enough (four objects with verbs, five with properties, in chains and siblings), a budget of steps of each kind (`left`): two searches around a change of verbs and one of objects; two changes of objects and one of properties. A step that goes wrong does so at once, as every operation is one step; words of one letter and names with stars in every place |
| `language` | `RunsAsWritten`, `StackFits`, `TaskSurvives`, `DecompileIsInverse`, `EveryTaskStops` | families of programs that put every statement in every other, every way out of a body in a loop, a handler and a finally block, every shape of two or three scatter targets, places of assignments three deep, labels on both sides of 256, and the programs that meet the exceptions of the properties; three activations, three answers, thirty ticks, one restart at any suspension. `NUM_READY_VARS` is 2, so that short and long forms of variables both occur |
| `files` | `FlushedFilesAreExact`, `RefusedTwiceIsFull`, `ReadsWholeLines`, `EditsKeepTheRest` | buffers of two and three characters, and every text of up to five: lines shorter, as long as and longer than a buffer, with and without an end; with NULs every text of up to four, with other characters that are not printed of up to three; two handles; a budget of calls per start: five opens; or two opens and two writes, with two checkpointers and a crash, with a change of directory and a checkpointer, or on a disk that fills up, with a checkpointer; or two reads; or an edit, beside an open file or on a full disk |
| `shutdown_dump` | a violation, see below | |

`PROJECT.json` names for each property a change of the model, of the kind a bug in that
code would be, that the run's bounds are large enough to notice.

`CHECK_DEADLOCK FALSE` appears where the system really stops: the servers of `Checkpoint`,
crashes in `ObjectHierarchy`, `Database` and `Timers`, and a `pause()` that missed its signal, tasks that end in `Language`, and where
the budget of a start is used up (`Files`, `Database`).

### Where code and documentation disagree

Checked as a run that TLC refutes:

- `shutdown_dump`: `db.h:98` promises that `db_shutdown()` flushes all changes; a
  checkpointer that is still at work removes the database the server has just
  written (`db_file.c:589`) and cannot replace it, since the server removed its
  temporary file (`db_file.c:536`). The next server starts from the old input.

In the models. Where a property would be false for one of these, its formula or its comment
names the exception:

- A ready task of a connection that logs in is moved to a queue made for the
  connection's old number (`tasks.c:556`). That queue is idle and nothing activates
  it: the task does not run until something else wakes the queue, and as
  `write_task_queue()` looks at active queues only, no checkpoint has it either.
  `ReadyTaskRuns` excepts such tasks (`Stranded`).
- The comment at `name_lookup.c:363` promises that numeric addresses work after a
  resolution failure; a worker that finishes without an answer counts as a result,
  and `inet_addr()` is not called.
- `db.h:118` promises -1 for a number in use and the object otherwise.
  `db_create_object_with_num()` accepts the number after the last (`db_objects.c:179`)
  and has `db_set_object_number()` move it from there to there: the entry is set to
  null and then used (`db_objects.c:258`).
- `stop_timers()` calls `alarm(0)` before it ignores the signal (`timers.c:119`). A
  pending SIGALRM runs `wakeup_call()` in between, which starts the alarm again; if what
  follows cancels the last timer, that alarm finds an empty list and a null pointer. Also
  there: `restart_timers()` in a SIGALRM handler tests `virtual_timer` and then uses it,
  and SIGVTALRM may come in between; the rest of a virtual timer loses its fraction of a
  second, so a task with less than one left times out when it connects; after a
  `longjmp` over `virtual_wakeup_call()` SIGVTALRM stays blocked; `set_virtual_timer()`
  reads its id through `virtual_timer` (`timers.c:211`), which is null when the limit has
  passed by then; and a SIGALRM between the return of `set_timer()` and `pause()` does not
  wake `timer_sleep()` (`timers.c:250`), so that the retry of a failed dump may never come.
- `set_verb_info()` compares names with a `mystrcasecmp()` whose sense is reversed
  (`verbs.c:596`, `verbs.c:605`): a protected verb that is renamed is not looked at
  (`RenamesProtected` in `ProtectedStayProtected`). The comparison of two names with stars
  never ends for some pairs (`verbs.c:276`) and misses words that two have in common: `a*a`
  and `a*b` both answer to `a`, and pass as different (`verbs.c:289`), so that one below
  answers in place of a protected one above.
- `bf_recycle()` does not look whether `db_change_parent()` did anything (`objects.c:627`).
- `EOP_RANGESET` takes a `strlen()` before it looks at the type (`execute.c:1656`; excepted
  in `TaskSurvives`); a named `while` with an empty body costs no ticks (`opcode.h:187`;
  `SpinsUnchecked` in `EveryTaskStops`); a `return` out of a `finally`'s body loses its value
  for whoever started the task, against the comment of `run()` that it "is the value returned
  by the top frame" (`execute.c:1846`; `"passed"` in `RunsAsWritten`); a jump to byte 0 is not
  taken (`execute.c:815`), so a first loop whose label lies there runs on (`FirstIsWhile`); the
  line of a traceback in an assignment to an element of a property may be wrong
  (`AssignsInProperty`).
- `file_allocate_next_handle()` says that the table is full once when it is not
  (`extensions.c:741`); a last line without an end loses its last character, though the
  comment at `extensions.c:1143` calls it an error; a checkpointer writes inherited buffers
  again (`db_file.c:606`); what `fflush()` answers is not looked at, so that a flushed write to
  a full disk succeeds and is lost (`extensions.c:1348`, `extensions.c:1529`); a NUL in a file
  cuts the line that has it, and at the start of a buffer makes `file_read_line()` look, and
  perhaps write, before the buffer (`extensions.c:1162`); the edits look at no result of their
  writes, and answer that all is well when a full disk has cut the file
  (`extensions.c:2377`); `wrapped_fgets()` (`extensions.c:1112`) panics the server on any
  file that ends with its last line, so the edits work on other files only; with two
  arguments `filecut()` and with three `filewrite()` read behind their arguments.
- `listappend(list, value, INT_MAX)` wraps and inserts at the front (`list.c:491`).

`SavedIsLoaded`, `SuccessIsTrue` and `ShutdownSaves` therefore say what holds as
long as dumps do not overlap and no process dies between the two calls of its swap
(the history variable `disturbed`). `RestartLoads` and `ZombiesAreReaped` have no
such condition.

### Fairness

`task_fair` assumes that each step of the main loop that is enabled for ever is
taken, and that a task ends: ticks and seconds run out, and every builtin returns.
`RunReadyTasks` has strong fairness because `network_process_io()` visits each
connection once and returns, however much is typed; as steps of the model, lines
may come for ever. Nobody is assumed to type, connect or hang up, and no builtin is
assumed to be called. `ReadyTaskRuns` also assumes that typing stops at some point:
`dequeue_any_task()` prefers lines to background tasks. It does not speak of tasks that a
login has stranded, which the run reaches.

`name_lookup` assumes that a deadline comes and that a thread that left its resolver
goes on. A resolver may hang for ever.

`timers` assumes that statements follow each other, that a signal that is pending and not
blocked is delivered, and that an alarm comes when it is due. No caller is assumed to call.

`language` assumes that the machine goes on as long as it can: the interpreter is a loop.
TLC is slow to evaluate `ENABLED` of the machine's next step, so the run uses `PlainSpec`,
which spells the weak fairness of `Spec` out: the machine stops (`Going` is false
infinitely often) or steps infinitely often. Nobody is assumed to resume a task.

## Proofs

TLC checks small instances; the theorems hold for every value of the constants
that satisfies the assumptions the modules state (`ConstantsAssumption`,
`BoundsAssumption`, `LookupAssumption`, `ObjectAssumption`, `CheckpointAssumption`,
`TimersAssumption`, `VerbAssumption`, `PropertyAssumption`, `DatabaseAssumption`).

`TaskProofs`. `TypeOK` is not inductive: `charge_usage()` cuts the active list
where it should only if the queue it charges is on it, and a handle that is closed
has no queue to free. So `TaskInv` adds that every open connection has a queue
(`Good`), that the sweep stays among the handles there are, and what a running task
owes the C code that waits for it (`RunOK`: its queue is the first active one, or
the handle to be closed is still open). The argument: no builtin changes the head
of the active list (`HeadKept`), because `ensure_usage()` starts a queue with the
usage of the first one and ties go behind; and none closes the handle a notifier
works for (`OpenKept`), except a login, which ends the task. The module proves,
bottom up, that each operator of `TaskQueues` keeps the types, that each operator a
builtin is made of keeps those two (`Kept`), and then each action of `TaskServer`.

`QueueProofs`. A call of the C code passes through states in which nothing is right:
a queue is on no list, or renamed while its connection is not. So the module has
relations for what an operator leaves alone, and shows of each operator which one it
is: `Edit` (lists, names and connections), `Same` (names and connections, though queues
move between the lists), `Stays` (the same, though a queue may be made). `Linked(S, X)`
says that the lists of `S` are lists but for the queues `X` that are being moved;
`Single` that no two queues have a name in common; `Wired` that connections and
connected queues are paired, with equal names. `Wired` is why `find_shandle()` always
finds something, and `Known` is what is left of it in the middle of a login, when the
queue has its new name and the connection the old one. A login is the hard case:
`Renames` describes what it does to names and connections all told, from the two queues
and the two handles involved, and `LoginServes` shows that this keeps `Single` and
`Wired`. It needs to know that the queue still has the number of its connection when
`do_login_command` returns, which is a clause of the invariant `QueueInv`: nothing
renames a queue but a login, and one task runs at a time. `NoPanic` has a hypothesis:
the addresses `Queues` are infinite. With finitely many, `mymalloc()` panics when they
are used up, which is not what the property is about.

`FlowProofs`. Its first part is about tasks. `BackInv` adds to `QueueInv` that every task has a programmer, that
each queue's `num_bg_tasks` is the length of its list plus the waiting tasks of its
player (`Counted`), and that an idle queue has nothing to do (`Awake`). Both are about
all addresses, live or not, so that they hold in the middle of a call. `BgAccounting`
rests on `OneQueuePerPlayer` all through: a task that is counted on one of two queues
of a name could be uncounted on the other. Of each operator the module shows what it
`Carries`: both clauses, and all queued tasks but those with identifiers in a given
set. Those that move no task are a `Frame`; a task that enters or leaves a list is
described by `Inserted`, forwards or backwards, with `CountInserted` for the number of a
programmer's tasks. In a login (`LogInCarries`) the queue is renamed first, so that
both its own count and that of the queue it takes over are wrong until
`move_bg_to_old_player()` and `take_over_queue()` are done. Then `Conserves` says of each
step of the server that the set is empty, or the task that starts to run, or one that
`kill_task()` removes; `TasksAreConserved` follows, as `IdsIn` is what `Has` says. Here
too the addresses are infinite: a task whose queue cannot be made is lost, in a server
that has panicked.

Its second part is about lines. `FlowControl` is about open connections, and is not inductive: a queue has
lines before and after it has one, and `resume_below_lowat()` relies on a length that
was kept all along. `Flow` says of every address that its length is that of its lines
(`Weight`), of every connection that it is suspended when its queue is, and of every
queue that one too full is suspended unless its connection is outbound (`NotTooFull`),
and that one connected and suspended has a line left (`Resumable`). The last clause of
`FlowBut` is why an outbound connection starts unsuspended: a queue made by
`force_input()` for a number no connection has had was never suspended. `FlowBut` is
what holds while the lines of one queue are taken or added (`LinesFlow`) and its
connection is suspended or resumed (`GateFlow`), which needs the handle that
`find_shandle()` finds by the queue's name to be that of the queue (`Meets`); that is
`Wired` between two steps, and is carried through a login, where `take_over_queue()`
flushes and may resume the former queue after others have been renamed. All other
operators are `Plain`, or steps `Aside` that only close or rename.

`CheckpointProofs`. `CheckpointInv` says who owns each temporary file (`Owners`), how
far a dump has got and what that means for its file (`ChildWritten`, `ServerWritten`),
that versions grow in the order of loading, dumping and memory (`Ordered`), what is on
the disk in every step of a swap (`OnDisk`), and, while nothing has been `disturbed`,
that there is one dump at a time (`OneDump`), that its file stays and the last dump is
in place (`Calm`), and that a report that waits to be given is of a dump in place
(`Heard`). `RestartLoads`, `SavedIsLoaded` and `ShutdownSaves` have the hypothesis
`"close" \notin Failures`, the second assumption made under *Checkpoint* above;
without it they are false, as TLC shows.

`NameLookupProofs`. `LiveWhileHeld` needs `RefInv` (the count is the number of
references held; who frees is alone) and `SlotsReturned` needs `SlotInv` (the
counter is the threads holding a slot plus the caller between its two atomic
operations). `AnswerInv` says that what a context holds is about the name it was
made for. Their conjunction `LookupInv` is inductive and yields the four theorems.

`DatabaseProofs`, first part, about `ObjectHierarchy`. `ObjectInv` says of both hierarchies (`GoodTree`) that they have the
right type, that lists and links agree (`Agree`) and that there is no loop
(`Acyclic`). A loop is a non-empty set of objects that all have their parent in the
set, which needs no induction over chains. The module shows of each operator on a
hierarchy that it keeps `GoodTree`: moving an object (`MovedGood`) because what was
tested on the way up is tested again after `accept`; handing the children of a
recycled object to its parent (`BequeathedGood`) because a loop of new links, with
the object put back in, would be a loop of old ones; renumbering (`RenamedGood`)
because a loop can be renumbered back. That no assertion fails follows: an object that
has been emptied and moved out is barren (`BarrenGood`), and an object with a parent is
on its list. `AncestryIsKept` is about `Above`, the least set of objects that is closed
under links up, and so needs no induction over chains either: each closed set of the
tree after a step is shown to have a counterpart that is closed in the tree before it,
and the other way round (`AboveCarried`, used by `AboveNew`, `AboveRenamed` and
`AboveRecycled`). The bound `MaxObject` is any natural number, and there may be any set
of waiting calls.

`DatabaseProofs`, second part, about `Database`. `DatabaseAssumption` says of the databases
to start from what `validate_hierarchies()` (`db_file.c:230`) makes sure of, that parents are
objects and there is no loop, and how `write_object()` (`db_file.c:178`) left objects: verbs
and properties belong to objects, an object has as many slots as
`dbpriv_count_properties()` counts, with a value where it defines the property, and no
property has the name of another that it or an ancestor defines (loading does not check the
names; the builtins keep them so, `PropInv`). It also says that those
who call builtins have objects' numbers. `DbInv` adds to `ObjectInv` that only objects have
verbs (`OwnVerbs`) and what the cache holds (`CacheOK`): an entry is what a search would
find now (`Finding`), and its key has verbs. The second half is what
`db_change_parent()` relies on when it keeps the cache for an object without verbs and
children: that object is no key, and on the way up from none, as `Unmoved` puts it.
The ways up, the search of `bf_find_verb()` and the ancestors of `VerbSearch` are recursive
functions on numbers; that they exist, and agree, is proved by an induction on the way up
(`UpInduction`): a set of numbers that has a number when it has its parent has all, as
otherwise what is left would be a loop. `Nearest` is what the three have in common.
Each step is `Sought`, `Cleared`, or `Unmoved`, and so a step of `VerbSearch`.
`ProtectionHolds` has a hypothesis, `CompareIsSound`: verbs that share a word are not
found different. It is false of some names, as said above; TLC checks it of the names of
the instance (`ComparesWell` in `MCDatabase`), and the theorem says that the three walks
that look for conflicts (above, below, and from all below to all above) miss no pair.
It is proved of what answers for what (`Overridden`) in two states: a change of parents
gives an object only those new ancestors that its new parent has (`AboveMoved`), and
`recycle()` none (`KinKept`).

`PropertyProofs`. `SlotsAreATable`: the arrays that `db_properties.c` cuts, joins and shifts
implement `PropertyTable`, where slots have names. The invariant `PropInv` says that arrays
fit the shape (`Fits`): the array of an object is as long as the properties on its way up
are many, no two of these have the same name, and a slot of the object's own is not clear.
The place of what an ancestor defines (`Place`) is a sum over the objects before it on the
way up (`Before`), and almost every step of the proof is about what becomes of such sums.
That the sums exist (`SumsExist`) is an induction on numbers, and what they are for whole
ways an induction on the way up. `db_find_property()`, which counts in its own way, is shown to find that
place (`FoundHere`). Then, for each operation, a lemma about the arrays and one
about the table: a property more or less moves what comes after it by one in all that are
below (`AddCells`, `RemoveCells`); another name moves nothing; a change of parents replaces
the part of the array that the old way up has alone by what the new one has alone, in all
that are below, because what two ways share is at their ends (`CommonPart`, `ThreeParts`,
`TurningFits`); `recycle()` is that for each child (`RecycledFits`), with the quota of the
owner written besides (`QuotaReturned`); a new number changes the owners of slots and the
numbers on ways up, and no place (`SlotsRelabelled`, `NumberedFits`). The last lemma,
`NextPropInv`, says that every step keeps `PropInv` and is a step of the table or none.

`TimersProofs`. What a list holds is found by following pointers (`Chain`), and here
induction is needed: over sets (`SetInduction`, from the library's theorem that every
set of naturals has a least element), which gives that a chain ends, that it is the least
set closed under pointers that has the first node (`ChainLeast`), and that none of its
nodes is pointed at twice. From then on chains are only known by that. `OneOwner` of the
invariant `IInv` says that a node is on one list, in the hands of `main` or of a handler,
or with `malloc()`; it counts what comes behind a node that `allocate_timer()` takes, or
`free_timer()` pushes, to the free list, which is why a handler may run in the middle of
either. `Flow` says which calls `main` makes for whom, and `ConnectOK` that a timer of a
`connect()` is on the list, or with a handler, only where `tcp_open()` can still catch
its exception: it rests on ids being used once, on `cancel_timer()` finding the timer if
it is there, and on handlers being done before the program goes on. `VirtualOK` needs
that in turn, as `timeout_proc()` goes back to a task that has its limit. The proof is
for any finite set of nodes and any times.

`ClockIsSafe` is the refinement of `AlarmClock` but for its liveness: no signal makes the
list lose a timer or get one back, and timers go in the order of their times and not early.
`wakeup_call()` takes the first timer without a look at its time, so that all depends on
SIGALRM coming only when the first timer is due. `CInv` adds to `IInv` that the list is in
the order of times (`Sorted`) and when SIGALRM may be on its way, or `alarm()` set
(`AlarmOK`). The difficulty is in `stop_timers()`: a handler that runs between `alarm(0)` and
`SIG_IGN` starts the alarm again, for the timer behind the one it has taken, and
`restart_timers()` leaves that alarm on where it finds no timer, or a late one and sends
SIGALRM itself: one signal too many. It fires no timer early only because none is then left
that is not due (it may find an empty list, which is `Die`). At most two are listed: the checkpoint's,
which is there exactly from when `main_loop()` sets it to when it cancels it
(`CheckpointOK`), and that of a `connect()`, or that of `timer_sleep()`, which sets its own
where at most one is left (`NoneOK`). With a third the argument fails. The proof needs `Prompt`.

Only model-checked: liveness (out of the prover's reach), and with it that half of
`ClockSpec` (`DueTimersFire`); `DbShutdownFlushesAll`, which is false; everything about the language, which is
recursion over data; and the files of programs.

## Not modelled

- Of `tasks.c`: the text of a `.program` in progress, external task queues (nothing
  registers one), the listing builtins, which only read.
- Of `server.c`: listening points, connection names, the emergency wizard mode, options.
- Of `network.c`: output queues and the shortage of descriptors (planned); sockets.
- Of the objects: flags, names, the list of users, the order of lists. A clock that is set
  back, `all_users` handed out by reference, checkpointers that outlive their server, and
  signals that arrive in threads of the resolver.
- Of the virtual machine: permissions, floats, reference counts and memory, the registers of
  verbs, and builtins with a state of their own. That `find_line_number()` remembers its last
  answer.
- The text of programs: `parser.y` but for its checks of scatter targets, `unparse.c`,
  `keywords.gperf`, and `disassemble.c`; a restart is modelled from tree to tree, so
  that what is printed is taken to be read back.
- The text format of the database, matching and patterns, hashes, the registry, logging:
  formatting, or pure functions on strings where tests say more than a bounded instance.
- Of `extensions.c`: paths, permissions, `file_stat`, directories, listings, and builtins that
  format or ask the operating system. Strings for a binary handle are good code: of one that
  is not `binary_to_raw_bytes()` makes null, which `fputs()` and `fwrite()` are given. Files
  that are edited have no NULs, as no edit writes one. What is left of a buffer that does not
  fit a full disk is dropped, as glibc does.

## Plan

`Output`: the queue of a connection's output, its limit and its flushing; blocks of
one or two bytes and a limit of three.
