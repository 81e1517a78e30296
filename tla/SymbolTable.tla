---------------------------- MODULE SymbolTable ----------------------------
(***************************************************************************)
(* symtable.c: a table of chains of items.  An item keeps the caller's key *)
(* and not a copy, so the caller's buffers are part of the state: a freed  *)
(* buffer may be read through an item, and holds anything until malloc     *)
(* gives it to another string.  An element is in the table once.           *)
(***************************************************************************)
EXTENDS Integers, FiniteSets

CONSTANTS
    Address,    \* places where malloc may put an item
    Buffer,     \* places where it may put a string
    Name,       \* texts of keys
    Element,
    BUCKET_SIZE,
    hash_code,  \* the bucket of a name
    NULL,
    Garbage     \* what freed memory holds

Bucket == 0..BUCKET_SIZE - 1

ASSUME SymbolTableAssumption ==
    /\ BUCKET_SIZE \in Nat \ {0}
    /\ hash_code \in [Name -> Bucket]
    /\ IsFiniteSet(Address)
    /\ NULL \notin Address \cup Element \cup Name \cup BOOLEAN
    /\ Garbage \notin Address \cup Name \cup {NULL}

VARIABLES
    hash_map,   \* the first item of each bucket
    item,       \* the heap: the item at each address
    buffer,     \* the heap: the string in each buffer
    call, returned, \* history: the last operation and its result
    dangling,   \* history: the caller freed a key that was in the table
    doubleFree  \* history: hash_map_destroy freed a key that was free

table == <<hash_map, item>>
vars == <<hash_map, item, buffer, call, returned, dangling, doubleFree>>

Item == [key : Buffer, data : Element, ptrnext : Address \cup {NULL}]
FreedItem == [key |-> Garbage, data |-> Garbage, ptrnext |-> Garbage]

TypeOK ==
    /\ hash_map \in [Bucket -> Address \cup {NULL}]
    /\ item \in [Address -> Item \cup {FreedItem}]
    /\ buffer \in [Buffer -> [text : Name \cup {Garbage}, live : BOOLEAN]]
    /\ call \in [op : {"init", "put", "has", "get", "clear", "delete_item", "destroy"},
                 name : Name \cup {NULL}]
    /\ returned \in Element \cup {NULL} \cup BOOLEAN
    /\ dangling \in BOOLEAN
    /\ doubleFree \in BOOLEAN

Live == {a \in Address : item[a] # FreedItem}

Elements == {item[a].data : a \in Live}

\* Where a loop over a bucket comes: to its items in turn, and then to NULL.
Walk(i) ==
    LET at[n \in 1..Cardinality(Address)] ==
          IF n = 1 THEN hash_map[i]
          ELSE IF at[n - 1] \in Address THEN item[at[n - 1]].ptrnext ELSE NULL
    IN at

\* A place of the table is a bucket and a number of steps that lead to an item.
At(place) == Walk(place[1])[place[2]]

Places == {place \in Bucket \X (1..Cardinality(Address)) : At(place) \in Address}

\* What strcmp reads at the key of an item.
Text(a) == buffer[item[a].key].text

Found(name) == {place \in Places : Text(At(place)) = name}

\* The place the loops over buckets and items find first.
Earliest(places) ==
    CHOOSE p \in places : \A q \in places : p[1] < q[1] \/ (p[1] = q[1] /\ p[2] <= q[2])

\* Mutant of hash_search: only the heads of the chains.
hash_search_Heads(name) ==
    LET heads == {place \in Found(name) : place[2] = 1}
    IN IF heads = {} THEN NULL ELSE At(Earliest(heads))

\* Every bucket is searched: an item is found also when its key is not what it was.
hash_search(name) ==
    IF Found(name) = {} THEN NULL ELSE At(Earliest(Found(name)))
-----------------------------------------------------------------------------
Init ==
    /\ hash_map = [i \in Bucket |-> NULL]
    /\ item = [a \in Address |-> FreedItem]
    /\ buffer = [b \in Buffer |-> [text |-> Garbage, live |-> FALSE]]
    /\ call = [op |-> "init", name |-> NULL]
    /\ returned = NULL
    /\ dangling = FALSE
    /\ doubleFree = FALSE

Called(op, name, result) ==
    /\ call' = [op |-> op, name |-> name]
    /\ returned' = result

\* A string of the caller; malloc reuses what was freed.
NewKey(b, name) ==
    /\ ~buffer[b].live
    /\ buffer' = [buffer EXCEPT ![b] = [text |-> name, live |-> TRUE]]
    /\ UNCHANGED <<table, call, returned, dangling, doubleFree>>

\* free by the caller, as after each put in scope.c and semantic_analyser.c.
FreeKey(b) ==
    /\ buffer[b].live
    /\ LET inTable == \E a \in Live : item[a].key = b
       IN /\ \E text \in IF inTable THEN Name \cup {Garbage} ELSE {Garbage} :
               buffer' = [buffer EXCEPT ![b] = [text |-> text, live |-> FALSE]]
          /\ dangling' = (dangling \/ inTable)
    /\ UNCHANGED <<table, call, returned, doubleFree>>

hash_map_put(key, element) ==
    LET name == buffer[key].text
        foundItem == hash_search(name)
        id == hash_code[name]
    IN /\ element \notin Elements
       /\ \/ /\ foundItem # NULL
             /\ item' = [item EXCEPT ![foundItem].data = element]
             /\ Called("put", name, TRUE)
             /\ UNCHANGED hash_map
          \/ /\ foundItem = NULL
             /\ Called("put", name, FALSE)
             /\ UNCHANGED table
          \/ /\ foundItem = NULL
             /\ \E new \in Address \ Live :
                  /\ item' = [item EXCEPT ![new] =
                       [key |-> key, data |-> element, ptrnext |-> hash_map[id]]]
                  /\ hash_map' = [hash_map EXCEPT ![id] = new]
             /\ Called("put", name, TRUE)
       /\ UNCHANGED <<buffer, dangling, doubleFree>>

Query(op, name, result) ==
    /\ Called(op, name, result)
    /\ UNCHANGED <<table, buffer, dangling, doubleFree>>

hash_map_has(name) == Query("has", name, hash_search(name) # NULL)

hash_map_get(name) ==
    LET found_item == hash_search(name)
    IN Query("get", name, IF found_item # NULL THEN item[found_item].data ELSE NULL)

hash_map_clear == Query("clear", NULL, \A i \in Bucket : hash_map[i] = NULL)

\* Mutant of Unlink: the head is replaced after it was freed.
Unlink_ReadsFreed(place) ==
    /\ item' = [item EXCEPT ![At(place)] = FreedItem]
    /\ hash_map' = [hash_map EXCEPT ![place[1]] =
                     IF place[2] = 1 THEN item'[At(place)].ptrnext ELSE @]

\* Mutant of Unlink: previous stays at the head of the bucket.
Unlink_FromHead(place) ==
    LET actual == At(place)
        next == item[actual].ptrnext
    IN IF place[2] = 1
       THEN /\ hash_map' = [hash_map EXCEPT ![place[1]] = next]
            /\ item' = [item EXCEPT ![actual] = FreedItem]
       ELSE /\ item' = [item EXCEPT ![hash_map[place[1]]].ptrnext = next,
                                    ![actual] = FreedItem]
            /\ UNCHANGED hash_map

\* The chain goes around the item; neither key nor element is freed.
Unlink(place) ==
    LET actual == At(place)
        next == item[actual].ptrnext
    IN \/ /\ place[2] = 1
          /\ hash_map' = [hash_map EXCEPT ![place[1]] = next]
          /\ item' = [item EXCEPT ![actual] = FreedItem]
       \/ /\ place[2] > 1
          /\ LET previous == At(<<place[1], place[2] - 1>>)
             IN item' = [item EXCEPT ![previous].ptrnext = next, ![actual] = FreedItem]
          /\ UNCHANGED hash_map

hash_map_delete_item(name) ==
    /\ IF Found(name) = {} THEN UNCHANGED table ELSE Unlink(Earliest(Found(name)))
    /\ Called("delete_item", name, NULL)
    /\ UNCHANGED <<buffer, dangling, doubleFree>>

\* Items, elements and keys are freed, chain by chain.
hash_map_destroy ==
    LET key(place) == item[At(place)].key
    IN /\ hash_map' = [i \in Bucket |-> NULL]
       /\ item' = [a \in Address |->
            IF \E p \in Places : At(p) = a THEN FreedItem ELSE item[a]]
       /\ buffer' = [b \in Buffer |->
            IF \E p \in Places : key(p) = b THEN [text |-> Garbage, live |-> FALSE] ELSE buffer[b]]
       /\ doubleFree' = \/ doubleFree
                        \/ \E p \in Places : ~buffer[key(p)].live
                        \/ \E p, q \in Places : p # q /\ key(p) = key(q)
       /\ Called("destroy", NULL, NULL)
       /\ UNCHANGED dangling

Next ==
    \/ \E b \in Buffer :
         \/ \E name \in Name : NewKey(b, name)
         \/ FreeKey(b)
         \/ /\ buffer[b].live
            /\ \/ \E element \in Element : hash_map_put(b, element)
               \/ hash_map_has(buffer[b].text)
               \/ hash_map_get(buffer[b].text)
               \/ hash_map_delete_item(buffer[b].text)
    \/ hash_map_clear
    \/ hash_map_destroy

Spec == Init /\ [][Next]_vars
-----------------------------------------------------------------------------
(* Properties                                                              *)

\* Whatever is put, deleted and freed, every item that is not freed is in one chain,
\* once, and no other is.  While the table's keys live, an item is in the bucket of its
\* name, which no other item has, and then no key is freed twice.
Chained ==
    /\ {At(p) : p \in Places} = Live
    /\ \A p, q \in Places : At(p) = At(q) => p = q
    /\ ~dangling =>
         /\ \A a \in Live : buffer[item[a].key].live
         /\ \A p \in Places : hash_code[Text(At(p))] = p[1]
         /\ \A a1, a2 \in Live : Text(a1) = Text(a2) => a1 = a2
         /\ ~doubleFree

\* The table is a map from names to elements as long as the caller frees no key in it,
\* whatever else it does with its strings.
Map == INSTANCE NameTable WITH
    contents <- [name \in {Text(a) : a \in Live} |->
                   item[CHOOSE a \in Live : Text(a) = name].data]

Implements == Map!Init /\ [][dangling' \/ Map!Next]_(Map!vars)
=============================================================================
