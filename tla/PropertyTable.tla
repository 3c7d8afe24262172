----------------------------- MODULE PropertyTable -----------------------------
(***************************************************************************)
(* What db_properties.c promises (src/include/db.h): every object has one  *)
(* slot for each property that it or an ancestor defines, and the value of *)
(* a clear one is the parent's.  There are no arrays: slots have names.    *)
(***************************************************************************)
CONSTANTS Nums, NOTHING, CLEAR

VARIABLES
  objects, up, owner,
  defined,                  \* the names that an object defines
  slots,                    \* its slots, by name
  values                    \* the value it has for each name

vars == <<objects, up, owner, defined, slots, values>>

\* x, its parent, its parent's parent, and so on
Ancestors ==
  LET above[x \in objects] == {x} \cup IF up[x] = NOTHING THEN {} ELSE above[up[x]]
  IN above

\* Who defines the name for x; slots are compared as far as the definition is the same.
Definitions ==
  [x \in objects |->
     [name \in UNION {defined[a] : a \in Ancestors[x]} |->
        {a \in Ancestors[x] : name \in defined[a]}]]

\* One definition for each name, and one slot
OneOfEach ==
  \A x \in objects :
    /\ DOMAIN slots[x] = DOMAIN Definitions[x]
    /\ \A name \in DOMAIN slots[x] : \E a \in objects : Definitions[x][name] = {a}

\* The value is that of the nearest slot that is not clear.
ValuesAreInherited ==
  \A x \in objects : \A name \in DOMAIN slots[x] :
    IF slots[x][name].value # CLEAR THEN values[x][name] = slots[x][name].value
    ELSE /\ up[x] # NOTHING
         /\ name \in DOMAIN slots[up[x]]
         /\ values[x][name] = values[up[x]][name]

ClearCopy(slot, who) ==
  [slot EXCEPT !.value = CLEAR, !.owner = IF slot.chown THEN who ELSE slot.owner]

-----------------------------------------------------------------------------
(* Steps *)

\* One slot is written.
Write ==
  /\ UNCHANGED <<objects, up, owner, defined>>
  /\ \E x \in objects : \E name \in DOMAIN slots[x] :
       slots' = [slots EXCEPT ![x][name] = slots'[x][name]]

\* x defines a property more: those below inherit it.
Define ==
  /\ UNCHANGED <<objects, up, owner>>
  /\ \E x \in objects : \E name \in defined'[x] :
       /\ defined' = [defined EXCEPT ![x] = @ \cup {name}]
       /\ slots'[x][name].value # CLEAR
       /\ \A y \in objects :
            IF x \notin Ancestors[y] THEN slots'[y] = slots[y]
            ELSE \A n \in DOMAIN slots'[y] :
                   IF n # name THEN slots'[y][n] = slots[y][n]
                   ELSE y = x \/ slots'[y][n] = ClearCopy(slots'[x][n], owner[y])

\* x defines a property less.
Undefine ==
  /\ UNCHANGED <<objects, up, owner>>
  /\ \E x \in objects : \E name \in defined[x] : defined' = [defined EXCEPT ![x] = @ \ {name}]
  /\ \A y \in objects : \A n \in DOMAIN slots'[y] : slots'[y][n] = slots[y][n]

\* x calls a property by another name, and sets its own slot.
Rename ==
  /\ UNCHANGED <<objects, up, owner>>
  /\ \E x \in objects : \E old \in defined[x], new \in defined'[x] \ defined[x] :
       /\ defined' = [defined EXCEPT ![x] = (@ \ {old}) \cup {new}]
       /\ \A y \in objects : \A n \in DOMAIN slots'[y] :
            IF n # new \/ x \notin Ancestors[y] THEN slots'[y][n] = slots[y][n]
            ELSE IF y # x THEN slots'[y][n] = slots[y][old]
            ELSE slots'[y][n].value = slots[y][old].value

\* What belonged to an object that is gone may change hands.
Same(slot, old) ==
  /\ slot.value = old.value
  /\ slot.chown = old.chown
  /\ old.owner \in objects => slot.owner = old.owner

\* What is still inherited is kept, and what is newly inherited is a clear copy.
Kept(now) ==
  \A x \in objects \cap objects' : \A n \in DOMAIN now[x] :
    IF n \in DOMAIN slots[x] /\ Definitions[x][n] = Definitions'[x][n]
    THEN Same(now[x][n], slots[x][n])
    ELSE Same(now[x][n], ClearCopy(now[up'[x]][n], owner'[x]))

\* Objects come, go, or get another parent, and a quota, the number in one slot, changes.
Reparent ==
  /\ \A x \in objects \cap objects' :
       /\ defined'[x] = defined[x]
       /\ owner[x] \in objects => owner'[x] = owner[x]
  /\ \A x \in objects' \ objects :
       /\ defined'[x] = {}
       /\ \A n \in DOMAIN slots'[x] : slots'[x][n] = ClearCopy(slots'[up'[x]][n], owner'[x])
  /\ \/ Kept(slots')
     \/ \E q \in objects \cap objects' : \E n \in DOMAIN slots[q] \cap DOMAIN slots'[q] :
          Kept([slots' EXCEPT ![q][n].value = slots[q][n].value])

\* An object gets another number, and is the same.
Renumber ==
  \E old \in objects \ objects', new \in objects' \ objects :
    LET number(x) == IF x = old THEN new ELSE x
    IN /\ objects' = {number(x) : x \in objects}
       /\ \A x \in objects :
            /\ up'[number(x)] = number(up[x])
            /\ defined'[number(x)] = defined[x]
            /\ owner[x] \in objects => owner'[number(x)] = number(owner[x])
            /\ \A n \in DOMAIN slots[x] :
                 LET slot == slots'[number(x)][n]
                 IN /\ slot.value = slots[x][n].value
                    /\ slot.chown = slots[x][n].chown
                    /\ slots[x][n].owner \in objects => slot.owner = number(slots[x][n].owner)

Consistent == OneOfEach /\ ValuesAreInherited

Init == Consistent
Next ==
  /\ Consistent'
  /\ \/ Write
     \/ Define
     \/ Undefine
     \/ Rename
     \/ Reparent
     \/ Renumber
Spec == Init /\ [][Next]_vars
=============================================================================
