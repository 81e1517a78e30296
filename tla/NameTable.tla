----------------------------- MODULE NameTable -----------------------------
(***************************************************************************)
(* What symtable.h promises: a map from names to elements.                 *)
(***************************************************************************)
EXTENDS FiniteSets

CONSTANTS
    Name,       \* texts of keys
    Element,
    NULL        \* what hash_map_get returns for a name it does not find

VARIABLES
    contents,   \* a function from the names in the table to elements
    call,       \* the last operation and its key
    returned    \* its result

vars == <<contents, call, returned>>

Called(op, name, result) ==
    /\ call' = [op |-> op, name |-> name]
    /\ returned' = result

Init ==
    /\ contents = [name \in {} |-> NULL]
    /\ call = [op |-> "init", name |-> NULL]
    /\ returned = NULL

\* A name that is in the table gets a new element, always; a new one unless there is no
\* memory.
Put(name, element) ==
    \/ /\ Called("put", name, TRUE)
       /\ contents' = [n \in DOMAIN contents \cup {name} |->
                         IF n = name THEN element ELSE contents[n]]
    \/ /\ name \notin DOMAIN contents
       /\ Called("put", name, FALSE)
       /\ UNCHANGED contents

Has(name) == Called("has", name, name \in DOMAIN contents) /\ UNCHANGED contents

Get(name) ==
    /\ Called("get", name, IF name \in DOMAIN contents THEN contents[name] ELSE NULL)
    /\ UNCHANGED contents

IsEmpty == Called("clear", NULL, DOMAIN contents = {}) /\ UNCHANGED contents

Delete(name) ==
    /\ Called("delete_item", name, NULL)
    /\ contents' = [n \in DOMAIN contents \ {name} |-> contents[n]]

Destroy ==
    /\ Called("destroy", NULL, NULL)
    /\ contents' = [name \in {} |-> NULL]

Next ==
    \/ \E name \in Name :
         \/ \E element \in Element : Put(name, element)
         \/ Has(name) \/ Get(name) \/ Delete(name)
    \/ IsEmpty \/ Destroy

Spec == Init /\ [][Next]_vars
=============================================================================
