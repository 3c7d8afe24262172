--------------------------------- MODULE Verbs ---------------------------------
(***************************************************************************)
(* The verbs of objects (src/src/db_verbs.c and verbs.c): lists of verbs,  *)
(* the search for a callable verb through a cache of the searches made     *)
(* before, and the protection of verbs without the "o" flag from verbs of  *)
(* the same name on objects below.                                         *)
(*                                                                         *)
(* Permissions that depend on who calls are left out: any builtin may be   *)
(* permitted or not.  The cache is a table by key and word; that entries   *)
(* share buckets is not seen.  A pointer to a verb is its object and its   *)
(* place in the list.                                                      *)
(***************************************************************************)
EXTENDS Ancestry, VerbNames

CONSTANTS
  Words,                    \* words that verbs are looked for with
  Namings,                  \* the names a verb may have, with stars
  Kinds,                    \* [names, exec, not_o]: what verbs are made as
  MAX_VERBS                 \* bound on the verbs of one object

Verbdefs == [names : Namings, owner : Nums \cup {NOTHING}, exec : BOOLEAN, not_o : BOOLEAN]

ASSUME VerbAssumption ==
  /\ Namings \subseteq SUBSET Seq(STRING)
  /\ Kinds \subseteq [names : Namings, exec : BOOLEAN, not_o : BOOLEAN]

VARIABLES
  wizards,                  \* the objects with FLAG_WIZARD
  verbs,                    \* verbdefs
  vc_table,                 \* what the cache says of a word on a first parent with verbs
  answer                    \* what the last search found; NoAnswer after anything else

verb_vars == <<wizards, verbs, vc_table, answer>>

VerbOf(kind, owner) ==
  [names |-> kind.names, owner |-> owner, exec |-> kind.exec, not_o |-> kind.not_o]

NotFound == [definer |-> NOTHING, index |-> 0]
Unknown == [definer |-> NOTHING, index |-> -1]
NoAnswer == [from |-> NOTHING, word |-> <<>>, handle |-> NotFound]

EmptyCache == [key \in (Nums \cup {NOTHING}) \X Words |-> Unknown]

-----------------------------------------------------------------------------
(* Looking for a verb *)

find_verbdef_by_name(x, word) ==
  SelectInSeq(verbs[x], LAMBDA v : v.exec /\ verbcasecmp(v.names, word))

\* The loop of db_find_callable_verb() behind the cache
search(line, word) ==
  LET at == SelectInSeq(line, LAMBDA x : find_verbdef_by_name(x, word) # 0)
  IN IF at = 0 THEN NotFound
     ELSE [definer |-> line[at], index |-> find_verbdef_by_name(line[at], word)]

\* Mutant: the key is the object itself only as far as its parent has no verbs.
Bug_first_parent_with_verbs(x) ==
  LET line == Line(family, x)
      at == SelectLastInSeq(line, LAMBDA y : verbs[y] # <<>>)
  IN IF at = 0 THEN NOTHING ELSE line[at]

first_parent_with_verbs(x) ==
  LET line == Line(family, x)
      at == SelectInSeq(line, LAMBDA y : verbs[y] # <<>>)
  IN IF at = 0 THEN NOTHING ELSE line[at]

\* A search that fails is remembered, too.
db_find_callable_verb(x, word) ==
  LET key == first_parent_with_verbs(x)
      known == vc_table[<<key, word>>]
      found == IF known # Unknown THEN known ELSE search(Line(family, key), word)
  IN /\ vc_table' = [vc_table EXCEPT ![<<key, word>>] = found]
     /\ answer' = [from |-> x, word |-> word, handle |-> found]

\* find_verb() goes its own way, from parent to parent and past the cache.
bf_find_verb(x, word, check_x_bit) ==
  LET index(y) == SelectInSeq(verbs[y], LAMBDA v : verbcasecmp(v.names, word) /\ (check_x_bit => v.exec))
      from[y \in Nums \cup {NOTHING}] ==
        IF y = NOTHING THEN NotFound
        ELSE IF index(y) # 0 THEN [definer |-> y, index |-> index(y)]
        ELSE from[family.up[y]]
  IN from[x]

db_priv_affected_callable_verb_lookup ==
  /\ vc_table' = EmptyCache
  /\ answer' = NoAnswer

\* The change of parents need not clear the cache when the object has no children
\* and no verbs: its own searches are kept under the number of an ancestor.
db_change_parent_clears(x) ==
  IF family.down[x] = {} /\ verbs[x] = <<>> THEN UNCHANGED vc_table /\ answer' = NoAnswer
  ELSE db_priv_affected_callable_verb_lookup

Call(x, word) ==
  /\ Running
  /\ x \in objects
  /\ db_find_callable_verb(x, word)
  /\ UNCHANGED <<wizards, verbs>>

FindVerb(x, word) ==
  /\ Running
  /\ x \in objects
  /\ answer' = [from |-> x, word |-> word, handle |-> bf_find_verb(x, word, TRUE)]
  /\ UNCHANGED <<wizards, verbs, vc_table>>

-----------------------------------------------------------------------------
(* The protection of verbs.  The result is the set of what the comparisons may *)
(* end with: "forever" hangs the server, otherwise a "yes" is a conflict.      *)

is_wizard(x) == x \in wizards

name_conflict_with_ancestor(x, owner, names) ==
  UNION {verbnames_share_namespace(names, v.names) :
           v \in {v \in UNION {ToSet(verbs[y]) : y \in ToSet(Line(family, x))} :
                    v.not_o /\ v.owner # owner}}

name_conflict_with_descendants(x, owner, names) ==
  UNION {verbnames_share_namespace(names, v.names) :
           v \in {v \in UNION {ToSet(verbs[y]) :
                                 y \in {y \in objects \ {x} : IsAtOrBelow(family, y, x)}} :
                    ~is_wizard(v.owner) /\ v.owner # owner}}

\* Mutant: only the object itself is looked at, not those below it.
Bug_check_verbs_before_chparent(parent, x) ==
  UNION {name_conflict_with_ancestor(parent, v.owner, v.names) :
           v \in {v \in ToSet(verbs[x]) : ~is_wizard(v.owner)}}

check_verbs_before_chparent(parent, x) ==
  UNION {name_conflict_with_ancestor(parent, v.owner, v.names) :
           v \in {v \in UNION {ToSet(verbs[y]) :
                                 y \in {y \in objects : IsAtOrBelow(family, y, x)}} :
                    ~is_wizard(v.owner)}}

\* Two checks are made before a change of verbs, one after the other, and a change
\* that conflicts is refused.
Checked(first, second, Change) ==
  LET hangs == \/ "forever" \in first
               \/ "yes" \notin first /\ "forever" \in second
  IN \/ first \cup second \subseteq {"no"} /\ Change
     \/ hangs /\ Panics("loop") /\ UNCHANGED verb_vars

-----------------------------------------------------------------------------
(* add_verb(), delete_verb(), set_verb_info() and set_verb_args() *)

VerbsBecome(x, list) ==
  /\ verbs' = [verbs EXCEPT ![x] = list]
  /\ db_priv_affected_callable_verb_lookup
  /\ UNCHANGED <<objects, num_objects, family, place, calls, panic, wizards>>

AddVerb(x, kind, owner) ==
  /\ Running
  /\ {x, owner} \subseteq objects
  /\ Len(verbs[x]) < MAX_VERBS
  /\ Checked(IF is_wizard(owner) THEN {}
             ELSE name_conflict_with_ancestor(family.up[x], owner, kind.names),
             IF kind.not_o THEN name_conflict_with_descendants(x, owner, kind.names) ELSE {},
             VerbsBecome(x, Append(verbs[x], VerbOf(kind, owner))))

DeleteVerb(x, i) ==
  /\ Running
  /\ x \in objects
  /\ i \in DOMAIN verbs[x]
  /\ VerbsBecome(x, RemoveAt(verbs[x], i))

\* The verbs below are not looked at again when a protected verb gets other names.
SetVerbInfo(x, i, kind, owner) ==
  /\ Running
  /\ {x, owner} \subseteq objects
  /\ i \in DOMAIN verbs[x]
  /\ LET old == verbs[x][i]
         new_names == kind.names # old.names
         new_owner == owner # old.owner
     IN Checked(IF (new_owner \/ new_names) /\ ~is_wizard(owner)
                THEN name_conflict_with_ancestor(family.up[x], owner, kind.names) ELSE {},
                IF kind.not_o /\ (new_owner \/ ~old.not_o \/ ~new_names)
                THEN name_conflict_with_descendants(x, owner, kind.names) ELSE {},
                VerbsBecome(x, [verbs[x] EXCEPT ![i] = VerbOf(kind, owner)]))

\* Arguments are for commands, which are looked for without the cache.
SetVerbArgs(x, i) ==
  /\ Running
  /\ x \in objects
  /\ i \in DOMAIN verbs[x]
  /\ VerbsBecome(x, verbs[x])

-----------------------------------------------------------------------------
(* What happens to verbs when objects come, go and get other numbers *)

VerbsRenumbered(old, new) ==
  LET renumbered(list) ==
        [i \in DOMAIN list |-> [list[i] EXCEPT !.owner = OwnerAfter(@, old, new)]]
  IN /\ verbs' = [x \in Nums |-> IF x = old THEN <<>>
                                 ELSE IF x # new THEN renumbered(verbs[x])
                                 ELSE IF old \in Nums THEN renumbered(verbs[old]) ELSE <<>>]
     /\ wizards' = IF old \in wizards THEN (wizards \ {old}) \cup {new} ELSE wizards
     /\ db_priv_affected_callable_verb_lookup

VerbsDestroyed(x) ==
  /\ verbs' = [verbs EXCEPT ![x] = <<>>]
  /\ wizards' = wizards \ {x}
  /\ db_priv_affected_callable_verb_lookup
=============================================================================
