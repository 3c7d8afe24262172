----------------------------- MODULE NameLookup -----------------------------
(***************************************************************************)
(* src/src/name_lookup.c: host name lookups on detached worker threads.    *)
(* The server thread waits for a worker up to a deadline and then gives it *)
(* up, so a lookup_ctx is shared, counted, and freed by whoever is last.   *)
(*                                                                         *)
(* A step is one atomic operation, one critical section of ctx->mutex, or  *)
(* code that touches nothing the other thread can see.  The server looks   *)
(* up one name at a time; the workers of lookups it gave up run on.        *)
(***************************************************************************)
EXTENDS Integers, FiniteSets

CONSTANTS
  Contexts,                 \* addresses malloc() can give to a lookup_ctx
  Names,                    \* what is looked up; a name is also its own answer
  Numeric,                  \* names that inet_addr() can read
  MAX_OUTSTANDING_LOOKUPS,
  None                      \* no context, no answer

ASSUME LookupAssumption ==
  /\ Numeric \subseteq Names
  /\ MAX_OUTSTANDING_LOOKUPS \in Nat
  /\ IsFiniteSet(Contexts)
  /\ None \notin Contexts
  /\ None \notin Names

VARIABLES
  ctx,                      \* the memory of the contexts
  worker,                   \* what the thread of each context does next
  outstanding_lookups,
  caller,                   \* the lookup the server thread is in
  returned                  \* what the last lookup returned

vars == <<ctx, worker, outstanding_lookups, caller, returned>>

Kinds == {"name_from_addr", "addr_from_name"}
Answers == Names \cup {None}
Ctxs == [live : BOOLEAN, refcount : 0..2, done : BOOLEAN, name : Answers, result : Answers]
WorkerPCs == {"none", "resolve", "finish", "sub", "release", "free"}
CallerPCs == {"idle", "count", "spawn", "wait", "refuse", "drop", "use", "release", "free"}
Callers == [at : CallerPCs, c : Contexts \cup {None}, kind : Kinds, name : Answers,
            finished : BOOLEAN, value : Answers]

NoLookup == [at |-> "idle", c |-> None, kind |-> "name_from_addr", name |-> None,
             finished |-> FALSE, value |-> None]

Init ==
  /\ ctx = [c \in Contexts |->
              [live |-> FALSE, refcount |-> 0, done |-> FALSE, name |-> None, result |-> None]]
  /\ worker = [c \in Contexts |-> "none"]
  /\ outstanding_lookups = 0
  /\ caller = NoLookup
  /\ returned = [kind |-> "name_from_addr", name |-> None, value |-> None]

-----------------------------------------------------------------------------
(* The memory of a context. *)

\* Mutant: done and the result keep what the memory held before.
Bug_new_ctx(c, name) ==
  [ctx[c] EXCEPT !.live = TRUE, !.refcount = 2, !.name = name]

\* One reference for the caller, one for the worker.
new_ctx(c, name) ==
  [live |-> TRUE, refcount |-> 2, done |-> FALSE, name |-> name, result |-> None]

released(c) == [ctx EXCEPT ![c].refcount = @ - 1]
is_last(c) == ctx[c].refcount = 1
free_ctx(c) == [ctx EXCEPT ![c].live = FALSE]

-----------------------------------------------------------------------------
(* The server thread. *)

\* What a lookup returns when it has no answer: the dotted-decimal notation of
\* the address it was given, or what inet_addr() makes of the name.
fallback == IF caller.kind = "name_from_addr" \/ caller.name \in Numeric
            THEN caller.name ELSE None

Return(kind, name, value) ==
  /\ returned' = [kind |-> kind, name |-> name, value |-> value]
  /\ caller' = NoLookup

\* The caller's answer from what it read and whether it read anything.
lookup_value ==
  CASE ~caller.finished                   -> fallback
    [] caller.kind = "addr_from_name"     -> caller.value
    [] OTHER -> IF caller.value = None THEN fallback ELSE caller.value

Lookup(kind, name, c) ==
  /\ caller.at = "idle"
  /\ ~ctx[c].live
  /\ ctx' = [ctx EXCEPT ![c] = new_ctx(c, name)]
  /\ caller' = [NoLookup EXCEPT !.at = "count", !.c = c, !.kind = kind, !.name = name]
  /\ UNCHANGED <<worker, outstanding_lookups, returned>>

\* malloc() or strdup() fails: the caller falls back at once.
LookupFails(kind, name) ==
  /\ caller.at = "idle"
  /\ returned' = [kind |-> kind, name |-> name,
                  value |-> IF kind = "name_from_addr" \/ name \in Numeric
                            THEN name ELSE None]
  /\ UNCHANGED <<ctx, worker, outstanding_lookups, caller>>

Goto(at) == caller' = [caller EXCEPT !.at = at]

\* Mutant: one thread too many.
Bug_Count ==
  /\ caller.at = "count"
  /\ outstanding_lookups' = outstanding_lookups + 1
  /\ Goto(IF outstanding_lookups > MAX_OUTSTANDING_LOOKUPS THEN "refuse" ELSE "spawn")
  /\ UNCHANGED <<ctx, worker, returned>>

\* atomic_fetch_add() and the test of what it returned
Count ==
  /\ caller.at = "count"
  /\ outstanding_lookups' = outstanding_lookups + 1
  /\ Goto(IF outstanding_lookups >= MAX_OUTSTANDING_LOOKUPS THEN "refuse" ELSE "spawn")
  /\ UNCHANGED <<ctx, worker, returned>>

Spawn ==
  /\ caller.at = "spawn"
  /\ \/ worker' = [worker EXCEPT ![caller.c] = "resolve"] /\ Goto("wait")
     \/ Goto("refuse") /\ UNCHANGED worker
  /\ UNCHANGED <<ctx, outstanding_lookups, returned>>

\* Mutant: the slot is given back only after a refusal that came from the cap.
Bug_Refuse ==
  /\ caller.at = "refuse"
  /\ outstanding_lookups' = IF outstanding_lookups > MAX_OUTSTANDING_LOOKUPS
                            THEN outstanding_lookups - 1 ELSE outstanding_lookups
  /\ Goto("drop")
  /\ UNCHANGED <<ctx, worker, returned>>

\* Over the cap, or pthread_create() failed: give the slot back, ...
Refuse ==
  /\ caller.at = "refuse"
  /\ outstanding_lookups' = outstanding_lookups - 1
  /\ Goto("drop")
  /\ UNCHANGED <<ctx, worker, returned>>

\* ... and drop the worker's reference, which there is no worker to drop.
Drop ==
  /\ caller.at = "drop"
  /\ ctx' = released(caller.c)
  /\ Goto("release")
  /\ UNCHANGED <<worker, outstanding_lookups, returned>>

\* Mutant: the wait has no deadline.
Bug_Wake ==
  /\ caller.at = "wait"
  /\ ctx[caller.c].done
  /\ caller' = [caller EXCEPT !.at = "use", !.finished = TRUE]
  /\ UNCHANGED <<ctx, worker, outstanding_lookups, returned>>

\* pthread_cond_timedwait() ends, signalled or at the deadline, and done is read
\* under the mutex: an answer that came with the deadline is used.
Wake ==
  /\ caller.at = "wait"
  /\ caller' = [caller EXCEPT !.at = IF ctx[caller.c].done THEN "use" ELSE "release",
                              !.finished = ctx[caller.c].done]
  /\ UNCHANGED <<ctx, worker, outstanding_lookups, returned>>

\* Mutant: the caller frees what it no longer needs.
Bug_Release ==
  /\ caller.at = "release"
  /\ ctx' = released(caller.c)
  /\ Goto("free")
  /\ UNCHANGED <<worker, outstanding_lookups, returned>>

Use ==
  /\ caller.at = "use"
  /\ caller' = [caller EXCEPT !.at = "release", !.value = ctx[caller.c].result]
  /\ UNCHANGED <<ctx, worker, outstanding_lookups, returned>>

Release ==
  /\ caller.at = "release"
  /\ ctx' = released(caller.c)
  /\ IF is_last(caller.c)
     THEN Goto("free") /\ UNCHANGED returned
     ELSE Return(caller.kind, caller.name, lookup_value)
  /\ UNCHANGED <<worker, outstanding_lookups>>

Free ==
  /\ caller.at = "free"
  /\ ctx' = free_ctx(caller.c)
  /\ Return(caller.kind, caller.name, lookup_value)
  /\ UNCHANGED <<worker, outstanding_lookups>>

-----------------------------------------------------------------------------
(* lookup_worker() *)

WorkerGoto(c, at) == worker' = [worker EXCEPT ![c] = at]

\* getaddrinfo() or getnameinfo(), which may take any time, or fail
Resolve(c) ==
  /\ worker[c] = "resolve"
  /\ \E answer \in {ctx[c].name, None} : ctx' = [ctx EXCEPT ![c].result = answer]
  /\ WorkerGoto(c, "finish")
  /\ UNCHANGED <<outstanding_lookups, caller, returned>>

Finish(c) ==
  /\ worker[c] = "finish"
  /\ ctx' = [ctx EXCEPT ![c].done = TRUE]
  /\ WorkerGoto(c, "sub")
  /\ UNCHANGED <<outstanding_lookups, caller, returned>>

WorkerSub(c) ==
  /\ worker[c] = "sub"
  /\ outstanding_lookups' = outstanding_lookups - 1
  /\ WorkerGoto(c, "release")
  /\ UNCHANGED <<ctx, caller, returned>>

WorkerRelease(c) ==
  /\ worker[c] = "release"
  /\ ctx' = released(c)
  /\ WorkerGoto(c, IF is_last(c) THEN "free" ELSE "none")
  /\ UNCHANGED <<outstanding_lookups, caller, returned>>

WorkerFree(c) ==
  /\ worker[c] = "free"
  /\ ctx' = free_ctx(c)
  /\ WorkerGoto(c, "none")
  /\ UNCHANGED <<outstanding_lookups, caller, returned>>

-----------------------------------------------------------------------------
Begin ==
  \E kind \in Kinds, name \in Names :
    LookupFails(kind, name) \/ \E c \in Contexts : Lookup(kind, name, c)

RunLookup == Count \/ Spawn \/ Refuse \/ Drop \/ Wake \/ Use \/ Release \/ Free

Ending(c) == Finish(c) \/ WorkerSub(c) \/ WorkerRelease(c) \/ WorkerFree(c)

Next == Begin \/ RunLookup \/ \E c \in Contexts : Resolve(c) \/ Ending(c)

Spec == Init /\ [][Next]_vars

\* The deadline comes and threads are scheduled; a resolver may hang for ever.
FairSpec == Spec /\ WF_vars(RunLookup) /\ \A c \in Contexts : WF_vars(Ending(c))

-----------------------------------------------------------------------------
(* What lookups promise. *)

\* Types of the variables; refcount stays within the two references there are.
TypeOK ==
  /\ ctx \in [Contexts -> Ctxs]
  /\ worker \in [Contexts -> WorkerPCs]
  /\ outstanding_lookups \in Nat
  /\ caller \in Callers
  /\ returned \in [kind : Kinds, name : Answers, value : Answers]

CallerHolds(c) == caller.at # "idle" /\ caller.c = c
WorkerHolds(c) == worker[c] # "none"

\* A context is live exactly as long as a thread will touch it: no thread uses it
\* after it is freed, it is freed once, and none is leaked, whichever of the
\* caller's deadline and the worker's answer comes first.
LiveWhileHeld == \A c \in Contexts : ctx[c].live <=> CallerHolds(c) \/ WorkerHolds(c)

Resolving == {c \in Contexts : worker[c] \in {"resolve", "finish", "sub"}}

\* The cap: never more than MAX_OUTSTANDING_LOOKUPS threads are in the resolver,
\* though lookups are given up while their threads run.
ThreadsBounded == Cardinality(Resolving) <= MAX_OUTSTANDING_LOOKUPS

\* No slot of the cap is lost: once the server thread is out of run_lookup(), the
\* counter is the number of threads that still have to give theirs back.
SlotsReturned ==
  caller.at = "idle" => outstanding_lookups = Cardinality(Resolving)

\* A lookup never returns the answer to another one, nor one half written: the
\* result is read only after the worker published it with done.
AnswerIsForTheQuestion ==
  /\ returned.value \in {returned.name, None}
  /\ caller.at = "use" => worker[caller.c] \notin {"resolve", "finish"}

\* A lookup returns, however long its resolver takes.
LookupReturns == caller.at # "idle" ~> caller.at = "idle"
=============================================================================
