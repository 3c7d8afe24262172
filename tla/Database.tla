------------------------------- MODULE Database -------------------------------
(***************************************************************************)
(* Objects with their verbs and properties: ObjectHierarchy, Verbs and     *)
(* Properties put together, as the builtins of objects.c do.  A change of  *)
(* parents or numbers is one step in which the three have to agree, since  *)
(* both the searches for verbs that are remembered and the places of       *)
(* property slots depend on who is whose ancestor.                         *)
(*                                                                         *)
(* The locations of objects play no part here, so nothing is moved, and    *)
(* recycle() has no contents to move out.                                  *)
(***************************************************************************)
EXTENDS Verbs, Properties

CONSTANTS
  Owners,                   \* those that own verbs and properties: a bound
  Databases                 \* databases to start from, with what may be done to each

\* No two properties of an object have the same name, whether it or an ancestor defines
\* them; there is a slot for each, and a value where it is defined.
PropertiesFit(t, slots) ==
  \A x \in Nums :
    /\ \A y, z \in ToSet(Line(t, x)) : \A i \in DOMAIN t.defs[y], j \in DOMAIN t.defs[z] :
         t.defs[y][i] = t.defs[z][j] => y = z /\ i = j
    /\ Len(slots[x]) = dbpriv_count_properties(t, x)
    /\ \A i \in DOMAIN t.defs[x] : slots[x][i].value # CLEAR

\* What validate_hierarchies() makes sure of on loading: parents are objects, and there
\* are no loops.  Verbs and properties belong to objects, and the server wrote as many
\* slots as dbpriv_count_properties() counts (write_object()).
IsDatabase(db) ==
  /\ db.num_objects \in 0..(MaxObject + 1)
  /\ db.objects \subseteq 0..(db.num_objects - 1)
  /\ db.up \in [Nums -> db.objects \cup {NOTHING}]
  /\ db.verbs \in [Nums -> Seq(Verbdefs)]
  /\ db.owner \in [Nums -> Nums \cup {NOTHING}]
  /\ db.propdefs \in [Nums -> Seq(Names)]
  /\ db.propval \in [Nums -> Seq(SlotRecords)]
  /\ \A x \in Nums \ db.objects :
       db.up[x] = NOTHING /\ db.verbs[x] = <<>> /\ db.propdefs[x] = <<>>
  /\ PropertiesFit(Shape(db, db.propdefs), db.propval)
  /\ \A Z \in SUBSET db.objects : Z # {} => \E x \in Z : db.up[x] \notin Z

ASSUME DatabaseAssumption == Owners \subseteq Nums /\ \A db \in Databases : IsDatabase(db)

VARIABLES
  left,                     \* how many steps of each kind may still be made: a bound
  named                     \* the slots and their values under their names: says no more
                            \* than the arrays do, and is here for SlotsAreATable

db_vars == <<objects, num_objects, family, place, calls, panic, verb_vars, prop_vars, left, named>>

NamedSlots(t, all, slots) ==
  [x \in Nums |->
     IF x \notin all THEN <<>>
     ELSE [name \in UNION {ToSet(t.defs[y]) : y \in ToSet(Line(t, x))} |->
             slots[x][db_find_property(t, x, name).n]]]
Named(t, all, slots) ==
  [slots |-> NamedSlots(t, all, slots),
   values |-> [x \in Nums |-> [name \in DOMAIN NamedSlots(t, all, slots)[x] |->
                                property_value(t, slots, x, name)]]]

DbInit ==
  \E db \in Databases :
    /\ objects = db.objects
    /\ num_objects = db.num_objects
    /\ family = [up |-> db.up,
                 down |-> [x \in Nums |-> {y \in db.objects : db.up[y] = x}]]
    /\ place = Barren
    /\ calls = [i \in Slots |-> NoCall]
    /\ panic = "none"
    /\ wizards = db.wizards
    /\ verbs = db.verbs
    /\ vc_table = EmptyCache
    /\ answer = NoAnswer
    /\ owner = db.owner
    /\ propdefs = db.propdefs
    /\ propval = db.propval
    /\ left = db.left
    /\ named = Named(Here, objects, propval)

One(kind) == left[kind] > 0 /\ left' = [left EXCEPT ![kind] = @ - 1]

VerbsStay == answer' = NoAnswer /\ UNCHANGED <<wizards, verbs, vc_table>>
PropertiesStay == UNCHANGED prop_vars

-----------------------------------------------------------------------------
(* Steps of one of the components *)

Search(x, word) ==
  /\ One("calls")
  /\ Call(x, word)
  /\ UNCHANGED <<objects, num_objects, family, place, calls, panic>>
  /\ PropertiesStay

\* It changes nothing, so that what may come after it comes without it: the bound ends here.
Find(x, word) ==
  /\ left.calls > 0
  /\ left' = [kind \in DOMAIN left |-> 0]
  /\ FindVerb(x, word)
  /\ UNCHANGED <<objects, num_objects, family, place, calls, panic>>
  /\ PropertiesStay

ChangeVerbs ==
  /\ One("verbs")
  /\ \E x \in Nums, i \in 1..MAX_VERBS :
       \/ DeleteVerb(x, i)
       \/ SetVerbArgs(x, i)
       \/ \E kind \in Kinds, who \in Owners : SetVerbInfo(x, i, kind, who)
  /\ PropertiesStay

MakeVerb ==
  /\ One("verbs")
  /\ \E x \in Nums, kind \in Kinds, who \in Owners : AddVerb(x, kind, who)
  /\ PropertiesStay

ChangeProperties ==
  /\ One("props")
  /\ \E x \in Nums, name \in Names :
       \/ DeleteProperty(x, name)
       \/ ClearProperty(x, name)
       \/ \E value \in Values : SetProperty(x, name, value)
       \/ \E who \in Owners, chown \in BOOLEAN :
            \/ \E value \in Values : AddProperty(x, name, value, who, chown)
            \/ SetPropertyInfo(x, name, who, chown)
            \/ \E new \in Names : RenameProperty(x, name, new, who, chown)
  /\ VerbsStay

-----------------------------------------------------------------------------
(* Steps of all *)

CreateObject(parent, who) ==
  /\ One("objects")
  /\ MayCreate(who)
  /\ Create(parent)
  /\ Born(num_objects, parent, who, owner, decr_quota(who))
  /\ VerbsStay

\* The object is made behind the last number, and gets the number x.
BornAndRenumbered(x, parent, who) ==
  /\ Born(x, parent, who, OwnersRenumbered(num_objects, x),
          SlotsRenumbered(decr_quota(who), num_objects, x))
  /\ VerbsRenumbered(num_objects, x)

\* Among the free numbers it is the lowest that is given; with none free this is create().
CreateObjectAndRenumber(parent, who) ==
  /\ One("objects")
  /\ MayCreate(who)
  /\ CreateAndRenumber(parent)
  /\ \E x \in objects' \ objects :
       IF x = num_objects THEN Born(x, parent, who, owner, decr_quota(who)) /\ VerbsStay
       ELSE BornAndRenumbered(x, parent, who)

\* As ObjectHierarchy says, the number after the last is the end of the server.
CreateObjectWithId(num, parent, who) ==
  /\ One("objects")
  /\ MayCreate(who)
  /\ CreateWithId(num, parent)
  /\ IF num \in objects' THEN BornAndRenumbered(num, parent, who)
     ELSE VerbsStay /\ PropertiesStay

\* The number is in use or too high: E_NACC, and the quota is gone.
CreateWithIdRefused(who) ==
  /\ Running
  /\ One("objects")
  /\ MayCreate(who)
  /\ propval' = decr_quota(who)
  /\ VerbsStay
  /\ UNCHANGED <<objects, num_objects, family, place, calls, panic, owner, propdefs>>

ChangeParent(what, parent) ==
  /\ One("objects")
  /\ Running
  /\ what \in objects
  /\ parent \in objects \cup {NOTHING}
  /\ what \notin ToSet(Line(family, parent))
  /\ \/ /\ check_verbs_before_chparent(parent, what) \subseteq {"no"}
        /\ dbpriv_check_properties_for_chparent(what, parent)
        /\ Chparent(what, parent)
        /\ Reparented(what, parent)
        /\ db_change_parent_clears(what)
        /\ UNCHANGED <<wizards, verbs>>
     \/ /\ "forever" \in check_verbs_before_chparent(parent, what)
        /\ Panics("loop")
        /\ VerbsStay
        /\ PropertiesStay

RenumberObject(old) ==
  /\ One("objects")
  /\ Renumber(old)
  /\ \E new \in objects' \ objects : VerbsRenumbered(old, new) /\ PropertiesRenumbered(old, new)

\* A change of parents that is refused is asked for again, for ever.
RecycleObject(i) ==
  LET x == calls[i].what
  IN /\ Returns(i, "recycle")
     /\ IF \A c \in family.down[x] : dbpriv_check_properties_for_chparent(c, family.up[x])
        THEN RecycleDestroys(i) /\ VerbsDestroyed(x) /\ PropertiesDestroyed(x)
        ELSE Panics("loop") /\ VerbsStay /\ PropertiesStay
     /\ UNCHANGED left

\* What else ObjectHierarchy does concerns neither verbs nor properties.
NumbersAndCalls ==
  /\ \/ One("objects") /\ (ResetMaxObject \/ \E x \in Nums : Recycle(x))
     \/ UNCHANGED left /\ \E i \in Slots : GiveUp(i)
  /\ VerbsStay
  /\ PropertiesStay

DbStep ==
  \/ \E x \in Nums, word \in Words : Search(x, word) \/ Find(x, word)
  \/ MakeVerb
  \/ ChangeVerbs
  \/ ChangeProperties
  \/ \E parent \in Nums \cup {NOTHING}, who \in Owners \cup {NOTHING} :
       \/ CreateObject(parent, who)
       \/ CreateObjectAndRenumber(parent, who)
       \/ \E num \in Nums : CreateObjectWithId(num, parent, who)
  \/ \E who \in Owners : CreateWithIdRefused(who)
  \/ \E what \in Nums, parent \in Nums \cup {NOTHING} : ChangeParent(what, parent)
  \/ \E old \in Nums : RenumberObject(old)
  \/ \E i \in Slots : RecycleObject(i)
  \/ NumbersAndCalls

DbNext == DbStep /\ named' = Named(Shape(family', propdefs'), objects', propval')

DbSpec == DbInit /\ [][DbNext]_db_vars

-----------------------------------------------------------------------------
(* Properties *)

\* What calls of verbs find through the cache is what a search of the objects as they
\* are now would find, and find_verb() finds the same (db_verbs.c, db_find_callable_verb(),
\* and the exception that db_change_parent() makes for objects without verbs and children).
Lookup == INSTANCE VerbSearch WITH up <- family.up
CacheIsTransparent == Lookup!Spec

\* The arrays of slots, which every change of properties and parents moves about, hold one
\* slot for each property inherited, found under its name, and what they hold comes and
\* goes with the parents and stays with the object (db_properties.c).
Table == INSTANCE PropertyTable WITH
           up <- family.up,
           defined <- [x \in Nums |-> ToSet(propdefs[x])],
           slots <- named.slots,
           values <- named.values
SlotsAreATable == Table!Spec

Below(x) == {y \in objects \ {x} : verbs[y] # <<>> /\ IsAtOrBelow(family, y, x)}

\* The comparison of names notices every word that answers to both.  It does not for all
\* names: a*a and a*b both answer to "a", and single_names_share_namespace() sees where
\* they differ.
CompareIsSound ==
  \A names, others \in Namings :
    (\E word \in Words : verbcasecmp(names, word) /\ verbcasecmp(others, word))
      => ~(verbnames_share_namespace(names, others) \subseteq {"no"})

\* w, of an owner who is no wizard and does not own v, would answer for v, which has no
\* "o" flag: they have a word in common.
InPlaceOf(w, v) ==
  /\ v.not_o
  /\ w.owner \notin wizards \cup {v.owner}
  /\ \E word \in Words : verbcasecmp(v.names, word) /\ verbcasecmp(w.names, word)

\* Verbs of x that one of y, below it, answers in place of
OverridesAt(x, y) ==
  {<<x, p[1].names, p[1].owner, y, p[2].names, p[2].owner>> :
     p \in {p \in ToSet(verbs[x]) \X ToSet(verbs[y]) : InPlaceOf(p[2], p[1])}}

Overrides == UNION {UNION {OverridesAt(x, y) : y \in Below(x)} : x \in objects}

\* set_verb_info() gives other names to a verb that is and stays protected.
RenamesProtected ==
  \E x \in objects : \E i \in DOMAIN verbs[x] :
    /\ i \in DOMAIN verbs'[x]
    /\ verbs[x][i].not_o /\ verbs'[x][i].not_o
    /\ verbs'[x][i].owner = verbs[x][i].owner
    /\ verbs'[x][i].names # verbs[x][i].names

\* No other call, of add_verb(), set_verb_info(), chparent() or recycle(), lets a verb
\* answer in place of one that is protected, though each looks at the ancestors and the
\* descendants of its own object only (the -o_Verbs patch of verbs.c).
ProtectedStayProtected ==
  [][objects' \subseteq objects /\ wizards' = wizards /\ ~RenamesProtected
       => Overrides' \subseteq Overrides]_db_vars
=============================================================================
