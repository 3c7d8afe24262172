------------------------------ MODULE Properties ------------------------------
(***************************************************************************)
(* The properties of objects (src/src/db_properties.c, property.c and      *)
(* quota.c).  An object defines properties, and has a slot for each one    *)
(* defined by it or by an ancestor: an array, first its own, then its      *)
(* parent's, and so on.  All of these arrays are moved about when a        *)
(* property or a parent changes, and who reads them computes the place.    *)
(*                                                                         *)
(* Of the permissions only PF_CHOWN is kept.  Built-in properties are      *)
(* fields of the object, kept by other modules.                            *)
(***************************************************************************)
EXTENDS Ancestry

CONSTANTS
  Names,                    \* names of properties
  Values,                   \* a set of numbers
  CLEAR,                    \* the type TYPE_CLEAR of a slot that inherits its value
  quota_name,               \* "ownership_quota", one of the names
  MAX_PROPS                 \* bound on the properties defined by one object

ASSUME PropertyAssumption ==
  Values \subseteq Int /\ CLEAR \notin Int /\ quota_name \in Names

VARIABLES
  owner,                    \* of objects
  propdefs,                 \* the names that an object defines, in order
  propval                   \* its slots, [value, owner, chown]

prop_vars == <<owner, propdefs, propval>>

-----------------------------------------------------------------------------
(* Places in the arrays *)

\* What the places depend on: parents, and what each object defines
Shape(f, defs) == [up |-> f.up, defs |-> defs]
Here == Shape(family, propdefs)

LengthOf(t, line) ==
  LET upto[n \in 0..Len(line)] == IF n = 0 THEN 0 ELSE upto[n - 1] + Len(t.defs[line[n]])
  IN upto[Len(line)]

dbpriv_count_properties(t, x) == LengthOf(t, Line(t, x))

\* How many slots of y come before those for the properties that x defines
Before(t, y, x) ==
  LET line == Line(t, y)
  IN LengthOf(t, SubSeq(line, 1, SelectInSeq(line, LAMBDA z : z = x) - 1))

property_defined_at_or_below(name, x) ==
  \E y \in objects : IsAtOrBelow(family, y, x) /\ name \in ToSet(propdefs[y])

NoSlot == [definer |-> NOTHING, n |-> 0]

db_find_property(t, x, name) ==
  LET line == Line(t, x)
      at == SelectInSeq(line, LAMBDA y : name \in ToSet(t.defs[y]))
  IN IF at = 0 THEN NoSlot
     ELSE [definer |-> line[at],
           n |-> LengthOf(t, SubSeq(line, 1, at - 1))
                 + SelectInSeq(t.defs[line[at]], LAMBDA p : p = name)]

\* Its value: as long as the slot is clear, the one of the parent, which comes as many
\* places earlier as the object defines properties.
property_value(t, slots, x, name) ==
  LET line == Line(t, x)
      n == db_find_property(t, x, name).n
      slot(k) == slots[line[k]][n - LengthOf(t, SubSeq(line, 1, k - 1))]
      first == CHOOSE k \in DOMAIN line :
                 /\ slot(k).value # CLEAR
                 /\ \A j \in 1..(k - 1) : slot(j).value = CLEAR
  IN slot(first).value

-----------------------------------------------------------------------------
(* Adding, removing, and changing parents.  t is the shape to count by, and     *)
(* slots the arrays.                                                            *)

SlotRecords ==
  [value : Int \cup {CLEAR}, owner : Nums \cup {NOTHING}, chown : BOOLEAN]
Slot(value, who, chown) == [value |-> value, owner |-> who, chown |-> chown]

\* A slot as an object of this owner inherits it
Inherited(slot, who) == Slot(CLEAR, IF slot.chown THEN who ELSE slot.owner, slot.chown)

\* All objects at or below x get the slot; only x gets the value.
insert_prop_recursively(x, pos, slot) ==
  [y \in Nums |->
     IF ~(y \in objects /\ IsAtOrBelow(family, y, x)) THEN propval[y]
     ELSE InsertAt(propval[y], Before(Here, y, x) + pos,
                   IF y = x THEN [slot EXCEPT !.owner = Inherited(slot, owner[x]).owner]
                   ELSE Inherited(slot, owner[y]))]

remove_prop_recursively(x, pos) ==
  [y \in Nums |->
     IF ~(y \in objects /\ IsAtOrBelow(family, y, x)) THEN propval[y]
     ELSE RemoveAt(propval[y], Before(Here, y, x) + pos)]

dbpriv_check_properties_for_chparent(x, parent) ==
  \A y \in ToSet(Line(family, parent)) : \A name \in ToSet(propdefs[y]) :
    ~property_defined_at_or_below(name, x)

\* The part of the array behind the own properties and those of the parents that moved
\* along is replaced: the slots for what only the old parent had go, those for what only
\* the new one has come, and those for what they have in common stay.
dbpriv_fix_properties_after_chparent(t, slots, owners, x, old_parent, new_parent) ==
  LET both == SelectInSeq(Line(t, new_parent), LAMBDA y : y \in ToSet(Line(t, old_parent)))
      common == IF both = 0 THEN 0 ELSE dbpriv_count_properties(t, Line(t, new_parent)[both])
      old == dbpriv_count_properties(t, old_parent) - common
      new == dbpriv_count_properties(t, new_parent) - common
      fixed(y) ==
        LET local == Before(t, y, x) + Len(t.defs[x])
        IN SubSeq(slots[y], 1, local)
           \o [i \in 1..new |-> Inherited(slots[new_parent][i], owners[y])]
           \o SubSeq(slots[y], local + old + 1, local + old + common)
  IN [y \in Nums |-> IF IsAtOrBelow(t, y, x) THEN fixed(y) ELSE slots[y]]

\* decr_quota() and incr_quota() write the slot of the owner, also when the number is
\* inherited.
quota(t, slots, x) == property_value(t, slots, x, quota_name)
HasQuota(t, x) == x \in objects /\ db_find_property(t, x, quota_name) # NoSlot
WithQuota(t, slots, x, number) ==
  [slots EXCEPT ![x][db_find_property(t, x, quota_name).n].value = number]

decr_quota(x) ==
  IF HasQuota(Here, x)
  THEN WithQuota(Here, propval, x, quota(Here, propval, x) - 1) ELSE propval

incr_quota(t, slots, x) ==
  IF HasQuota(t, x) THEN WithQuota(t, slots, x, quota(t, slots, x) + 1) ELSE slots

-----------------------------------------------------------------------------
(* The builtins, and the assignment of a value *)

SlotsBecome(slots) ==
  /\ propval' = slots
  /\ UNCHANGED <<objects, num_objects, family, place, calls, panic, owner>>

AddProperty(x, name, value, who, chown) ==
  /\ Running
  /\ {x, who} \subseteq objects
  /\ Len(propdefs[x]) < MAX_PROPS
  /\ db_find_property(Here, x, name) = NoSlot
  /\ ~property_defined_at_or_below(name, x)
  /\ propdefs' = [propdefs EXCEPT ![x] = Append(@, name)]
  /\ SlotsBecome(insert_prop_recursively(x, Len(propdefs[x]) + 1, Slot(value, who, chown)))

DeleteProperty(x, name) ==
  /\ Running
  /\ x \in objects
  /\ name \in ToSet(propdefs[x])
  /\ LET pos == SelectInSeq(propdefs[x], LAMBDA p : p = name)
     IN /\ propdefs' = [propdefs EXCEPT ![x] = RemoveAt(@, pos)]
        /\ SlotsBecome(remove_prop_recursively(x, pos))

SetProperty(x, name, value) ==
  /\ Running
  /\ x \in objects
  /\ db_find_property(Here, x, name) # NoSlot
  /\ SlotsBecome([propval EXCEPT ![x][db_find_property(Here, x, name).n].value = value])
  /\ UNCHANGED propdefs

ClearProperty(x, name) ==
  /\ Running
  /\ x \in objects
  /\ db_find_property(Here, x, name).definer \notin {x, NOTHING}
  /\ SlotsBecome([propval EXCEPT ![x][db_find_property(Here, x, name).n].value = CLEAR])
  /\ UNCHANGED propdefs

\* Owner and permissions are the slot's; a new name is given where the old one is defined.
SetPropertyInfo(x, name, who, chown) ==
  /\ Running
  /\ {x, who} \subseteq objects
  /\ db_find_property(Here, x, name) # NoSlot
  /\ SlotsBecome([propval EXCEPT ![x][db_find_property(Here, x, name).n] =
                    Slot(@.value, who, chown)])
  /\ UNCHANGED propdefs

\* Mutant: descendants are not asked.
Bug_MayRename(x, new) == db_find_property(Here, x, new) = NoSlot

MayRename(x, new) ==
  db_find_property(Here, x, new) = NoSlot /\ ~property_defined_at_or_below(new, x)

RenameProperty(x, old, new, who, chown) ==
  /\ Running
  /\ {x, who} \subseteq objects
  /\ old # new
  /\ MayRename(x, new)
  /\ \E pos \in DOMAIN propdefs[x] :
       /\ propdefs[x][pos] = old
       /\ propdefs' = [propdefs EXCEPT ![x][pos] = new]
       /\ SlotsBecome([propval EXCEPT ![x][pos] = Slot(@.value, who, chown)])

-----------------------------------------------------------------------------
(* What happens to properties when objects come, go and get other numbers *)

MayCreate(who) == HasQuota(Here, who) => quota(Here, propval, who) > 0

\* The number "old" becomes "new".
OwnersRenumbered(old, new) == [x \in Nums |-> OwnerAfter(owner[x], old, new)]
SlotsRenumbered(slots, old, new) ==
  [x \in Nums |-> [i \in DOMAIN slots[x] |->
                     [slots[x][i] EXCEPT !.owner = OwnerAfter(@, old, new)]]]

\* x is new, and a child of parent.
Born(x, parent, who, owners, slots) ==
  /\ owner' = [owners EXCEPT ![x] = IF who = NOTHING THEN x ELSE who]
  /\ propval' = dbpriv_fix_properties_after_chparent(Shape(family', propdefs), slots, owner', x, NOTHING, parent)
  /\ UNCHANGED propdefs

Reparented(x, parent) ==
  /\ propval' = dbpriv_fix_properties_after_chparent(Shape(family', propdefs), propval, owner, x, family.up[x], parent)
  /\ UNCHANGED <<owner, propdefs>>

PropertiesRenumbered(old, new) ==
  LET moved(f, none) == [x \in Nums |-> IF x = old THEN none ELSE f[IF x = new THEN old ELSE x]]
  IN /\ owner' = moved(OwnersRenumbered(old, new), NOTHING)
     /\ propdefs' = moved(propdefs, <<>>)
     /\ propval' = moved(SlotsRenumbered(propval, old, new), <<>>)

\* The children have gone to the parent of x; its owner gets the quota back.
PropertiesDestroyed(x) ==
  LET above == family.up[x]
      orphans == Shape(Bequeathed(family, x), propdefs)
      slots == [y \in Nums |->
                  IF \E c \in family.down[x] : IsAtOrBelow(family, y, c)
                  THEN dbpriv_fix_properties_after_chparent(orphans, propval, owner,
                         CHOOSE c \in family.down[x] : IsAtOrBelow(family, y, c), x, above)[y]
                  ELSE propval[y]]
  IN /\ propval' = [incr_quota(Shape(family', propdefs), slots, owner[x]) EXCEPT ![x] = <<>>]
     /\ propdefs' = [propdefs EXCEPT ![x] = <<>>]
     /\ owner' = [owner EXCEPT ![x] = NOTHING]
=============================================================================
