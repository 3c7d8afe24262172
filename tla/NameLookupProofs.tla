--------------------------- MODULE NameLookupProofs ---------------------------
(***************************************************************************)
(* Proofs about NameLookup: for any number of contexts and any cap, no     *)
(* context is used after it is freed or leaked, the cap is kept, and no    *)
(* lookup returns the answer to another.                                   *)
(***************************************************************************)
EXTENDS NameLookup, TLAPS, FiniteSetTheorems

\* Before the thread is spawned the caller has both references; a thread that is
\* about to free has none.
Unspawned == {"count", "spawn", "refuse", "drop"}
CallerRef(c) == CallerHolds(c) /\ caller.at # "free"
WorkerRef(c) == \/ worker[c] \notin {"none", "free"}
                \/ CallerHolds(c) /\ caller.at \in Unspawned

\* The counted references are the ones held, and only one thread is left when
\* one frees.
RefInv ==
  \A c \in Contexts :
    /\ ctx[c].refcount = (IF CallerRef(c) THEN 1 ELSE 0) + (IF WorkerRef(c) THEN 1 ELSE 0)
    /\ CallerHolds(c) /\ caller.at \in Unspawned \cup {"free"} => worker[c] = "none"
    /\ worker[c] = "free" => ~CallerHolds(c)

\* The counter is the threads that hold a slot, and the caller between its two
\* atomic operations.
Reserved == IF caller.at \in {"spawn", "refuse"} THEN 1 ELSE 0
SlotInv ==
  /\ outstanding_lookups = Cardinality(Resolving) + Reserved
  /\ Cardinality(Resolving) <= MAX_OUTSTANDING_LOOKUPS
  /\ caller.at = "spawn" => Cardinality(Resolving) < MAX_OUTSTANDING_LOOKUPS

\* What a context says is about the name it was made for.
AnswerInv ==
  /\ \A c \in Contexts :
       /\ ctx[c].result \in {ctx[c].name, None}
       /\ CallerHolds(c) => ctx[c].name = caller.name
       /\ CallerHolds(c) /\ ctx[c].done => worker[c] \notin {"resolve", "finish"}
       /\ CallerHolds(c) /\ caller.at = "use" => ctx[c].done
       /\ worker[c] \in {"resolve", "finish"} => ~ctx[c].done
       /\ CallerHolds(c) /\ caller.at \in Unspawned => ~ctx[c].done
  /\ caller.value \in {caller.name, None}
  /\ returned.value \in {returned.name, None}

LookupInv ==
  /\ TypeOK
  /\ caller.at # "idle" => caller.c \in Contexts
  /\ LiveWhileHeld
  /\ RefInv
  /\ SlotInv
  /\ AnswerInv

-----------------------------------------------------------------------------
(* The threads that hold a slot. *)

LEMMA ResolvingSize ==
  /\ IsFiniteSet(Resolving)
  /\ Cardinality(Resolving) \in Nat
  /\ \A c \in Resolving : Cardinality(Resolving) >= 1
<1>1. Resolving \subseteq Contexts
  BY DEF Resolving
<1>2. IsFiniteSet(Resolving)
  BY <1>1, LookupAssumption, FS_Subset
<1>3. Cardinality(Resolving) \in Nat
  BY <1>2, FS_CardinalityType
<1>4. Resolving # {} => Cardinality(Resolving) # 0
  BY <1>2, FS_EmptySet
<1> QED
  BY <1>2, <1>3, <1>4

\* The parts of TypeOK one at a time
TypeOfCtx == ctx \in [Contexts -> Ctxs]
TypeOfCaller == caller \in Callers /\ (caller.at # "idle" => caller.c \in Contexts)
TypeOfRest ==
  /\ worker \in [Contexts -> WorkerPCs]
  /\ outstanding_lookups \in Nat
  /\ returned \in [kind : Kinds, name : Answers, value : Answers]

LEMMA CtxFields ==
  ASSUME NEW r \in Ctxs, NEW b \in BOOLEAN
  PROVE  [r EXCEPT !.live = b] \in Ctxs /\ [r EXCEPT !.done = b] \in Ctxs
BY DEF Ctxs

LEMMA NoLookupType == NoLookup \in Callers /\ NoLookup.at = "idle"
BY DEF NoLookup, Callers, CallerPCs, Kinds, Answers

-----------------------------------------------------------------------------
(* Each part of the invariant is kept by every step. *)

\* A count never leaves 0..2: who drops a reference holds one.
LEMMA CtxStep ==
  ASSUME LookupInv, Next
  PROVE  TypeOfCtx'
<1> USE DEF TypeOfCtx, LookupInv, TypeOK, Ctxs, Answers, RefInv, CallerRef, WorkerRef, CallerHolds, Unspawned
<1>1. ASSUME NEW kind \in Kinds, NEW name \in Names, LookupFails(kind, name)
      PROVE  TypeOfCtx'
  BY <1>1 DEF LookupFails
<1>2. ASSUME NEW kind \in Kinds, NEW name \in Names, NEW c \in Contexts, Lookup(kind, name, c)
      PROVE  TypeOfCtx'
  BY <1>2 DEF Lookup, new_ctx, NoLookup
<1>3. CASE Count
  BY <1>3 DEF Count, Goto
<1>4. CASE Spawn
  BY <1>4 DEF Spawn, Goto
<1>5. CASE Refuse
  BY <1>5 DEF Refuse, Goto
<1>6. CASE Drop
  BY <1>6 DEF Drop, Goto, released
<1>7. CASE Wake
  BY <1>7 DEF Wake
<1>8. CASE Use
  BY <1>8 DEF Use
<1>9. CASE Release
  BY <1>9, SMTT(40) DEF Release, Goto, Return, NoLookup, released, is_last, lookup_value, fallback
<1>10. CASE Free
  <2>1. caller.c \in Contexts /\ ctx' = [ctx EXCEPT ![caller.c].live = FALSE]
    BY <1>10 DEF Free, free_ctx
  <2>2. [ctx[caller.c] EXCEPT !.live = FALSE] \in Ctxs
    <3>1. ctx[caller.c] \in Ctxs
      BY <2>1 DEF LookupInv, TypeOK
    <3> HIDE DEF Ctxs
    <3> QED
      BY <3>1, CtxFields
  <2> QED
    BY <2>1, <2>2
<1>11. ASSUME NEW c \in Contexts, Resolve(c)
       PROVE  TypeOfCtx'
  BY <1>11 DEF Resolve, WorkerGoto
<1>12. ASSUME NEW c \in Contexts, Finish(c)
       PROVE  TypeOfCtx'
  <2>1. c \in Contexts /\ ctx' = [ctx EXCEPT ![c].done = TRUE]
    BY <1>12 DEF Finish
  <2>2. [ctx[c] EXCEPT !.done = TRUE] \in Ctxs
    <3>1. ctx[c] \in Ctxs
      BY <2>1 DEF LookupInv, TypeOK
    <3> HIDE DEF Ctxs
    <3> QED
      BY <3>1, CtxFields
  <2> QED
    BY <2>1, <2>2
<1>13. ASSUME NEW c \in Contexts, WorkerSub(c)
       PROVE  TypeOfCtx'
  BY <1>13 DEF WorkerSub, WorkerGoto
<1>14. ASSUME NEW c \in Contexts, WorkerRelease(c)
       PROVE  TypeOfCtx'
  BY <1>14, SMTT(40) DEF WorkerRelease, WorkerGoto, released, is_last
<1>15. ASSUME NEW c \in Contexts, WorkerFree(c)
       PROVE  TypeOfCtx'
  <2>1. c \in Contexts /\ ctx' = [ctx EXCEPT ![c].live = FALSE]
    BY <1>15 DEF WorkerFree, free_ctx
  <2>2. [ctx[c] EXCEPT !.live = FALSE] \in Ctxs
    <3>1. ctx[c] \in Ctxs
      BY <2>1 DEF LookupInv, TypeOK
    <3> HIDE DEF Ctxs
    <3> QED
      BY <3>1, CtxFields
  <2> QED
    BY <2>1, <2>2
<1> HIDE DEF LookupInv
<1> QED
  BY <1>1, <1>2, <1>3, <1>4, <1>5, <1>6, <1>7, <1>8,
     <1>9, <1>10, <1>11, <1>12, <1>13, <1>14, <1>15 DEF Next, Begin, RunLookup, Ending

\* The server thread always has the context of its lookup.
LEMMA CallerStep ==
  ASSUME LookupInv, Next
  PROVE  TypeOfCaller'
<1> USE DEF TypeOfCaller, LookupInv, TypeOK, Callers, CallerPCs, Ctxs, Answers
<1>1. ASSUME NEW kind \in Kinds, NEW name \in Names, LookupFails(kind, name)
      PROVE  TypeOfCaller'
  BY <1>1 DEF LookupFails
<1>2. ASSUME NEW kind \in Kinds, NEW name \in Names, NEW c \in Contexts, Lookup(kind, name, c)
      PROVE  TypeOfCaller'
  BY <1>2 DEF Lookup, new_ctx, NoLookup
<1>3. CASE Count
  BY <1>3 DEF Count, Goto
<1>4. CASE Spawn
  BY <1>4 DEF Spawn, Goto
<1>5. CASE Refuse
  BY <1>5 DEF Refuse, Goto
<1>6. CASE Drop
  BY <1>6 DEF Drop, Goto, released
<1>7. CASE Wake
  BY <1>7 DEF Wake
<1>8. CASE Use
  BY <1>8 DEF Use
<1>9. CASE Release
  BY <1>9, NoLookupType DEF Release, Goto, Return
<1>10. CASE Free
  BY <1>10, NoLookupType DEF Free, Return
<1>11. ASSUME NEW c \in Contexts, Resolve(c)
       PROVE  TypeOfCaller'
  BY <1>11 DEF Resolve, WorkerGoto
<1>12. ASSUME NEW c \in Contexts, Finish(c)
       PROVE  TypeOfCaller'
  BY <1>12 DEF Finish, WorkerGoto
<1>13. ASSUME NEW c \in Contexts, WorkerSub(c)
       PROVE  TypeOfCaller'
  BY <1>13 DEF WorkerSub, WorkerGoto
<1>14. ASSUME NEW c \in Contexts, WorkerRelease(c)
       PROVE  TypeOfCaller'
  BY <1>14 DEF WorkerRelease, WorkerGoto, released, is_last
<1>15. ASSUME NEW c \in Contexts, WorkerFree(c)
       PROVE  TypeOfCaller'
  BY <1>15 DEF WorkerFree, WorkerGoto, free_ctx
<1> HIDE DEF LookupInv
<1> QED
  BY <1>1, <1>2, <1>3, <1>4, <1>5, <1>6, <1>7, <1>8,
     <1>9, <1>10, <1>11, <1>12, <1>13, <1>14, <1>15 DEF Next, Begin, RunLookup, Ending

\* The counter never goes below zero: who gives a slot back has one.
LEMMA RestStep ==
  ASSUME LookupInv, Next
  PROVE  TypeOfRest'
<1>0. caller.at # "idle" => caller.kind \in Kinds /\ caller.name \in Answers /\ lookup_value \in Answers
  BY DEF LookupInv, TypeOK, Callers, Answers, lookup_value, fallback
<1> USE ResolvingSize, LookupAssumption DEF TypeOfRest, LookupInv, TypeOK, Callers, WorkerPCs, Answers, SlotInv, Reserved, Resolving
<1>1. ASSUME NEW kind \in Kinds, NEW name \in Names, LookupFails(kind, name)
      PROVE  TypeOfRest'
  BY <1>1 DEF LookupFails
<1>2. ASSUME NEW kind \in Kinds, NEW name \in Names, NEW c \in Contexts, Lookup(kind, name, c)
      PROVE  TypeOfRest'
  BY <1>2 DEF Lookup, new_ctx, NoLookup
<1>3. CASE Count
  BY <1>3 DEF Count, Goto
<1>4. CASE Spawn
  BY <1>4 DEF Spawn, Goto
<1>5. CASE Refuse
  BY <1>5 DEF Refuse, Goto
<1>6. CASE Drop
  BY <1>6 DEF Drop, Goto, released
<1>7. CASE Wake
  BY <1>7 DEF Wake
<1>8. CASE Use
  BY <1>8 DEF Use
<1>9. CASE Release
  BY <1>0, <1>9 DEF Release, Return
<1>10. CASE Free
  BY <1>0, <1>10 DEF Free, Return
<1>11. ASSUME NEW c \in Contexts, Resolve(c)
       PROVE  TypeOfRest'
  BY <1>11 DEF Resolve, WorkerGoto
<1>12. ASSUME NEW c \in Contexts, Finish(c)
       PROVE  TypeOfRest'
  BY <1>12 DEF Finish, WorkerGoto
<1>13. ASSUME NEW c \in Contexts, WorkerSub(c)
       PROVE  TypeOfRest'
  <2>1. c \in Resolving
    BY <1>13 DEF WorkerSub
  <2>2. outstanding_lookups - 1 \in Nat
    BY <2>1
  <2> QED
    BY <1>13, <2>2 DEF WorkerSub, WorkerGoto
<1>14. ASSUME NEW c \in Contexts, WorkerRelease(c)
       PROVE  TypeOfRest'
  BY <1>14 DEF WorkerRelease, WorkerGoto, released, is_last
<1>15. ASSUME NEW c \in Contexts, WorkerFree(c)
       PROVE  TypeOfRest'
  BY <1>15 DEF WorkerFree, WorkerGoto, free_ctx
<1> HIDE DEF LookupInv
<1> QED
  BY <1>1, <1>2, <1>3, <1>4, <1>5, <1>6, <1>7, <1>8,
     <1>9, <1>10, <1>11, <1>12, <1>13, <1>14, <1>15 DEF Next, Begin, RunLookup, Ending

\* A context is freed by the last thread that holds it, and by no other.
LEMMA HoldStep ==
  ASSUME LookupInv, Next
  PROVE  LiveWhileHeld' /\ RefInv'
<1> USE LookupAssumption DEF LookupInv, TypeOK, Ctxs, Callers, LiveWhileHeld, RefInv, CallerRef, WorkerRef, CallerHolds, WorkerHolds, Unspawned
<1>1. ASSUME NEW kind \in Kinds, NEW name \in Names, LookupFails(kind, name)
      PROVE  LiveWhileHeld' /\ RefInv'
  BY <1>1 DEF LookupFails
<1>2. ASSUME NEW kind \in Kinds, NEW name \in Names, NEW c \in Contexts, Lookup(kind, name, c)
      PROVE  LiveWhileHeld' /\ RefInv'
  BY <1>2 DEF Lookup, new_ctx, NoLookup
<1>3. CASE Count
  BY <1>3 DEF Count, Goto
<1>4. CASE Spawn
  BY <1>4 DEF Spawn, Goto
<1>5. CASE Refuse
  BY <1>5 DEF Refuse, Goto
<1>6. CASE Drop
  BY <1>6 DEF Drop, Goto, released
<1>7. CASE Wake
  BY <1>7 DEF Wake
<1>8. CASE Use
  BY <1>8 DEF Use
<1>9. CASE Release
  BY <1>9 DEF Release, Goto, Return, NoLookup, released, is_last, lookup_value, fallback
<1>10. CASE Free
  BY <1>10 DEF Free, Return, NoLookup, free_ctx, lookup_value, fallback
<1>11. ASSUME NEW c \in Contexts, Resolve(c)
       PROVE  LiveWhileHeld' /\ RefInv'
  BY <1>11 DEF Resolve, WorkerGoto
<1>12. ASSUME NEW c \in Contexts, Finish(c)
       PROVE  LiveWhileHeld' /\ RefInv'
  BY <1>12 DEF Finish, WorkerGoto
<1>13. ASSUME NEW c \in Contexts, WorkerSub(c)
       PROVE  LiveWhileHeld' /\ RefInv'
  BY <1>13 DEF WorkerSub, WorkerGoto
<1>14. ASSUME NEW c \in Contexts, WorkerRelease(c)
       PROVE  LiveWhileHeld' /\ RefInv'
  BY <1>14 DEF WorkerRelease, WorkerGoto, released, is_last
<1>15. ASSUME NEW c \in Contexts, WorkerFree(c)
       PROVE  LiveWhileHeld' /\ RefInv'
  BY <1>15 DEF WorkerFree, WorkerGoto, free_ctx
<1> HIDE DEF LookupInv
<1> QED
  BY <1>1, <1>2, <1>3, <1>4, <1>5, <1>6, <1>7, <1>8,
     <1>9, <1>10, <1>11, <1>12, <1>13, <1>14, <1>15 DEF Next, Begin, RunLookup, Ending

\* Results are written before done, and read after it.
LEMMA AnswerStep ==
  ASSUME LookupInv, Next
  PROVE  AnswerInv'
<1> USE LookupAssumption DEF LookupInv, TypeOK, Ctxs, Callers, AnswerInv, RefInv, CallerHolds, Unspawned, LiveWhileHeld, WorkerHolds
<1>1. ASSUME NEW kind \in Kinds, NEW name \in Names, LookupFails(kind, name)
      PROVE  AnswerInv'
  BY <1>1 DEF LookupFails
<1>2. ASSUME NEW kind \in Kinds, NEW name \in Names, NEW c \in Contexts, Lookup(kind, name, c)
      PROVE  AnswerInv'
  BY <1>2 DEF Lookup, new_ctx, NoLookup
<1>3. CASE Count
  BY <1>3 DEF Count, Goto
<1>4. CASE Spawn
  <2>1. /\ ctx' = ctx /\ returned' = returned
        /\ \A c \in Contexts : c # caller.c => worker'[c] = worker[c]
        /\ caller'.at \in {"wait", "refuse"} /\ caller'.c = caller.c
        /\ caller'.name = caller.name /\ caller'.value = caller.value
    BY <1>4 DEF Spawn, Goto
  <2>2. caller.at = "spawn" /\ ~ctx[caller.c].done
    BY <1>4 DEF Spawn
  <2> QED
    BY <2>1, <2>2
<1>5. CASE Refuse
  BY <1>5 DEF Refuse, Goto
<1>6. CASE Drop
  BY <1>6 DEF Drop, Goto, released
<1>7. CASE Wake
  BY <1>7 DEF Wake
<1>8. CASE Use
  BY <1>8 DEF Use
<1>9. CASE Release
  BY <1>9 DEF Release, Goto, Return, NoLookup, released, is_last, lookup_value, fallback
<1>10. CASE Free
  BY <1>10 DEF Free, Return, NoLookup, free_ctx, lookup_value, fallback
<1>11. ASSUME NEW c \in Contexts, Resolve(c)
       PROVE  AnswerInv'
  BY <1>11 DEF Resolve, WorkerGoto
<1>12. ASSUME NEW c \in Contexts, Finish(c)
       PROVE  AnswerInv'
  BY <1>12 DEF Finish, WorkerGoto
<1>13. ASSUME NEW c \in Contexts, WorkerSub(c)
       PROVE  AnswerInv'
  BY <1>13 DEF WorkerSub, WorkerGoto
<1>14. ASSUME NEW c \in Contexts, WorkerRelease(c)
       PROVE  AnswerInv'
  BY <1>14 DEF WorkerRelease, WorkerGoto, released, is_last
<1>15. ASSUME NEW c \in Contexts, WorkerFree(c)
       PROVE  AnswerInv'
  BY <1>15 DEF WorkerFree, WorkerGoto, free_ctx
<1> HIDE DEF LookupInv
<1> QED
  BY <1>1, <1>2, <1>3, <1>4, <1>5, <1>6, <1>7, <1>8,
     <1>9, <1>10, <1>11, <1>12, <1>13, <1>14, <1>15 DEF Next, Begin, RunLookup, Ending

\* The cap is tested after the counter was raised, so the caller's own slot is
\* never the one too many.
LEMMA SlotStep ==
  ASSUME LookupInv, Next
  PROVE  SlotInv'
<1> DEFINE n == Cardinality(Resolving)
<1>1. n \in Nat /\ IsFiniteSet(Resolving) /\ outstanding_lookups \in Nat
  BY ResolvingSize DEF LookupInv, TypeOK
<1>2. /\ outstanding_lookups = n + Reserved
      /\ n <= MAX_OUTSTANDING_LOOKUPS
      /\ caller.at = "spawn" => n < MAX_OUTSTANDING_LOOKUPS
  BY DEF LookupInv, SlotInv
<1>3. worker \in [Contexts -> WorkerPCs] /\ caller \in Callers
  BY DEF LookupInv, TypeOK
<1> USE LookupAssumption
\* Steps that leave the workers, or move one within the three states.
<1>4. ASSUME Resolving' = Resolving, Reserved' = Reserved, UNCHANGED outstanding_lookups,
             caller'.at = "spawn" => caller.at = "spawn"
      PROVE  SlotInv'
  BY <1>2, <1>4 DEF SlotInv
<1>5. ASSUME NEW kind \in Kinds, NEW name \in Names, LookupFails(kind, name)
      PROVE  SlotInv'
  BY <1>4, <1>5 DEF LookupFails, Resolving, Reserved
<1>6. ASSUME NEW kind \in Kinds, NEW name \in Names, NEW c \in Contexts, Lookup(kind, name, c)
      PROVE  SlotInv'
  BY <1>4, <1>6 DEF Lookup, NoLookup, Resolving, Reserved
<1>7. CASE Count
  <2>1. Resolving' = Resolving /\ Reserved = 0 /\ Reserved' = 1
    BY <1>3, <1>7 DEF Count, Goto, Resolving, Reserved, Callers
  <2>2. outstanding_lookups' = n + 1
    BY <1>1, <1>2, <1>7, <2>1 DEF Count
  <2>3. caller'.at = "spawn" => n < MAX_OUTSTANDING_LOOKUPS
    BY <1>1, <1>2, <1>3, <1>7, <2>1 DEF Count, Goto, Callers
  <2> HIDE DEF n
  <2>4. Cardinality(Resolving)' = n
    BY <2>1 DEF n
  <2> QED
    BY <1>2, <2>1, <2>2, <2>3, <2>4 DEF SlotInv
<1>8. CASE Spawn
  <2>1. CASE worker' = [worker EXCEPT ![caller.c] = "resolve"] /\ Goto("wait")
    <3>1. caller.c \in Contexts /\ caller.at = "spawn"
      BY <1>8 DEF Spawn, LookupInv
    <3>2. worker[caller.c] = "none"
      BY <3>1 DEF LookupInv, RefInv, CallerHolds, Unspawned
    <3>3. Resolving' = Resolving \cup {caller.c} /\ caller.c \notin Resolving
      BY <1>3, <2>1, <3>1, <3>2 DEF Resolving
    <3>4. Cardinality(Resolving)' = n + 1
      BY <1>1, <3>3, FS_AddElement
    <3>5. Reserved = 1 /\ Reserved' = 0 /\ caller'.at = "wait"
      BY <1>3, <2>1, <3>1 DEF Goto, Reserved, Callers
    <3>6. UNCHANGED outstanding_lookups
      BY <1>8 DEF Spawn
    <3> HIDE DEF n
    <3> QED
      BY <1>1, <1>2, <3>1, <3>4, <3>5, <3>6 DEF SlotInv
  <2>2. CASE Goto("refuse") /\ UNCHANGED worker
    BY <1>3, <1>4, <1>8, <2>2 DEF Spawn, Goto, Resolving, Reserved, Callers
  <2> QED
    BY <1>8, <2>1, <2>2 DEF Spawn
<1>9. CASE Refuse
  <2>1. Resolving' = Resolving /\ Reserved = 1 /\ Reserved' = 0 /\ caller'.at = "drop"
    BY <1>3, <1>9 DEF Refuse, Goto, Resolving, Reserved, Callers
  <2>2. outstanding_lookups' = n
    BY <1>1, <1>2, <1>9, <2>1 DEF Refuse
  <2> HIDE DEF n
  <2>3. Cardinality(Resolving)' = n
    BY <2>1 DEF n
  <2> QED
    BY <1>1, <1>2, <2>1, <2>2, <2>3 DEF SlotInv
<1>10. CASE Drop
  BY <1>3, <1>4, <1>10 DEF Drop, Goto, Resolving, Reserved, Callers
<1>11. CASE Wake
  BY <1>3, <1>4, <1>11 DEF Wake, Resolving, Reserved, Callers
<1>12. CASE Use
  BY <1>3, <1>4, <1>12 DEF Use, Resolving, Reserved, Callers
<1>13. CASE Release
  BY <1>3, <1>4, <1>13, NoLookupType DEF Release, Goto, Return, Resolving, Reserved, Callers
<1>14. CASE Free
  BY <1>3, <1>4, <1>14, NoLookupType DEF Free, Return, Resolving, Reserved
<1>15. ASSUME NEW c \in Contexts, Resolve(c)
       PROVE  SlotInv'
  BY <1>3, <1>4, <1>15 DEF Resolve, WorkerGoto, Resolving, Reserved
<1>16. ASSUME NEW c \in Contexts, Finish(c)
       PROVE  SlotInv'
  BY <1>3, <1>4, <1>16 DEF Finish, WorkerGoto, Resolving, Reserved
<1>17. ASSUME NEW c \in Contexts, WorkerSub(c)
       PROVE  SlotInv'
  <2>1. c \in Resolving /\ Resolving' = Resolving \ {c}
    BY <1>3, <1>17 DEF WorkerSub, WorkerGoto, Resolving
  <2>2. Cardinality(Resolving)' = n - 1
    BY <1>1, <2>1, FS_RemoveElement
  <2>3. UNCHANGED caller /\ outstanding_lookups' = outstanding_lookups - 1
    BY <1>17 DEF WorkerSub
  <2>4. Reserved' = Reserved /\ Reserved \in {0, 1}
    BY <2>3 DEF Reserved
  <2> HIDE DEF n
  <2> QED
    BY <1>1, <1>2, <2>2, <2>3, <2>4 DEF SlotInv
<1>18. ASSUME NEW c \in Contexts, WorkerRelease(c)
       PROVE  SlotInv'
  BY <1>3, <1>4, <1>18 DEF WorkerRelease, WorkerGoto, Resolving, Reserved
<1>19. ASSUME NEW c \in Contexts, WorkerFree(c)
       PROVE  SlotInv'
  BY <1>3, <1>4, <1>19 DEF WorkerFree, WorkerGoto, Resolving, Reserved
<1> QED
  BY <1>5, <1>6, <1>7, <1>8, <1>9, <1>10, <1>11, <1>12, <1>13, <1>14, <1>15, <1>16,
     <1>17, <1>18, <1>19 DEF Next, Begin, RunLookup, Ending

-----------------------------------------------------------------------------
LEMMA LookupInit ==
  ASSUME Init
  PROVE  LookupInv
<1> USE LookupAssumption DEF Init, NoLookup
<1>1. TypeOK
  BY DEF TypeOK, Ctxs, WorkerPCs, Callers, CallerPCs, Kinds, Answers
<1>2. LiveWhileHeld /\ RefInv
  BY DEF LiveWhileHeld, RefInv, CallerRef, WorkerRef, CallerHolds, WorkerHolds, Unspawned
<1>3. Resolving = {}
  BY DEF Resolving
<1>4. SlotInv
  BY <1>3, FS_EmptySet DEF SlotInv, Reserved
<1>5. AnswerInv
  BY DEF AnswerInv, CallerHolds, Unspawned
<1> QED
  BY <1>1, <1>2, <1>4, <1>5 DEF LookupInv

\* The inductive invariant of name lookups.
THEOREM LookupInvariant == Spec => []LookupInv
<1>1. LookupInv /\ [Next]_vars => LookupInv'
  <2> SUFFICES ASSUME LookupInv, [Next]_vars PROVE LookupInv'
    OBVIOUS
  <2>1. CASE Next
    <3>1. TypeOfCtx' /\ TypeOfCaller' /\ TypeOfRest'
      BY <2>1, CtxStep, CallerStep, RestStep
    <3>2. TypeOK' /\ (caller'.at # "idle" => caller'.c \in Contexts)
      BY <3>1 DEF TypeOfCtx, TypeOfCaller, TypeOfRest, TypeOK
    <3> QED
      BY <2>1, <3>2, HoldStep, SlotStep, AnswerStep DEF LookupInv
  <2>2. CASE UNCHANGED vars
    BY <2>2 DEF vars, LookupInv, TypeOK, LiveWhileHeld, RefInv, SlotInv, AnswerInv, Resolving,
                Reserved, CallerRef, WorkerRef, CallerHolds, WorkerHolds
  <2> QED
    BY <2>1, <2>2
<1> QED
  BY <1>1, LookupInit, PTL DEF Spec

\* A lookup_ctx is freed exactly when neither the server thread nor the worker
\* will touch it again, however the deadline and the answer race.
THEOREM LiveExactlyWhileHeld == Spec => []LiveWhileHeld
<1>1. LookupInv => LiveWhileHeld
  BY DEF LookupInv
<1> QED
  BY <1>1, LookupInvariant, PTL

\* At most MAX_OUTSTANDING_LOOKUPS threads are in the resolver, for any cap.
THEOREM ThreadsAreBounded == Spec => []ThreadsBounded
<1>1. LookupInv => ThreadsBounded
  BY DEF LookupInv, SlotInv, ThreadsBounded
<1> QED
  BY <1>1, LookupInvariant, PTL

\* Between lookups the counter is the number of threads still running.
THEOREM SlotsAreReturned == Spec => []SlotsReturned
<1>1. LookupInv => SlotsReturned
  BY ResolvingSize DEF LookupInv, SlotInv, Reserved, SlotsReturned
<1> QED
  BY <1>1, LookupInvariant, PTL

\* No lookup returns another's answer or one that is still being written.
THEOREM AnswersAreRight == Spec => []AnswerIsForTheQuestion
<1>1. LookupInv => AnswerIsForTheQuestion
  BY DEF LookupInv, AnswerInv, AnswerIsForTheQuestion, CallerHolds
<1> QED
  BY <1>1, LookupInvariant, PTL
=============================================================================
