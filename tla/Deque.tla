------------------------------- MODULE Deque -------------------------------
(***************************************************************************)
(* deque.c: the doubly linked list under the stacks and queues of the      *)
(* compiler, with the iterators of iterator.c.  A client uses an iterator  *)
(* only while the list is not changed, does not move it past deque_end nor *)
(* back from there, and does not use a list that it has destroyed.         *)
(***************************************************************************)
EXTENDS Integers, Sequences

CONSTANTS
    Address,    \* places where calloc may put an item
    Value,      \* elements
    NULL,
    Garbage     \* what a freed item holds

ASSUME DequeAssumption ==
    /\ NULL \notin Address \cup Value
    /\ Garbage \notin Address \cup Value \cup {NULL}

VARIABLES
    item,       \* the heap: the deque_item at each address
    first, last, size,
    phase,      \* "none" before deque_init, "live", "destroying"
    current,    \* next item that deque_destroy frees
    call,       \* history: name of the last operation
    returned,   \* its result
    ite,        \* an iterator
    released,   \* history: the values freed by deque_destroy
    order       \* history: the items of the list, as pushed and popped

deque == <<item, first, last, size>>
vars == <<deque, phase, current, call, returned, ite, released, order>>

Item == [next : Address \cup {NULL}, prev : Address \cup {NULL}, value : Value]
FreedItem == [next |-> Garbage, prev |-> Garbage, value |-> Garbage]

Call == {"none", "init", "push_back", "push_front", "pop_back", "pop_front", "front",
         "back", "value", "begin", "rbegin", "next", "prev", "destroy"}

\* No iterator is in use.
NoIterator == [current_element |-> NULL, position |-> -2]

TypeOK ==
    /\ item \in [Address -> Item \cup {FreedItem}]
    /\ first \in Address \cup {NULL}
    /\ last \in Address \cup {NULL}
    /\ size \in Nat
    /\ phase \in {"none", "live", "destroying"}
    /\ current \in Address \cup {NULL}
    /\ call \in Call
    /\ returned \in Value \cup {NULL} \cup BOOLEAN
    /\ ite \in [current_element : Address \cup {NULL}, position : Int]
    /\ released \in Seq(Value)
    /\ order \in Seq(Address)

Live == {a \in Address : item[a] # FreedItem}
-----------------------------------------------------------------------------
Init ==
    /\ item = [a \in Address |-> FreedItem]
    /\ first = NULL /\ last = NULL /\ size = 0
    /\ phase = "none"
    /\ current = NULL
    /\ call = "none"
    /\ returned = NULL
    /\ ite = NoIterator
    /\ released = <<>>
    /\ order = <<>>

deque_init ==
    /\ phase = "none"
    /\ phase' = "live"
    /\ call' = "init"
    /\ first' = NULL /\ last' = NULL /\ size' = 0
    /\ released' = <<>>
    /\ UNCHANGED <<item, current, returned, ite, order>>

\* The list is changed by a client that has done with its iterators.
Change(name, result) ==
    /\ phase = "live"
    /\ call' = name
    /\ returned' = result
    /\ ite' = NoIterator
    /\ UNCHANGED <<phase, current, released>>

\* calloc finds no memory.
PushFails ==
    /\ \E name \in {"push_back", "push_front"} : Change(name, FALSE)
    /\ UNCHANGED <<deque, order>>

Node(v, next, prev) == [next |-> next, prev |-> prev, value |-> v]

\* Either push on the empty list.
PushFirst(node, v) ==
    /\ size = 0
    /\ \E name \in {"push_back", "push_front"} : Change(name, TRUE)
    /\ item' = [item EXCEPT ![node] = Node(v, NULL, NULL)]
    /\ first' = node /\ last' = node
    /\ size' = size + 1
    /\ order' = Append(order, node)

deque_push_back(node, v) ==
    /\ size # 0
    /\ Change("push_back", TRUE)
    /\ item' = [item EXCEPT ![node] = Node(v, NULL, last), ![last].next = node]
    /\ last' = node
    /\ size' = size + 1
    /\ order' = Append(order, node)
    /\ UNCHANGED first

\* Mutant of deque_push_front: the old first item does not point back.
deque_push_front_NoPrev(node, v) ==
    /\ size # 0
    /\ Change("push_front", TRUE)
    /\ item' = [item EXCEPT ![node] = Node(v, first, NULL)]
    /\ first' = node
    /\ size' = size + 1
    /\ order' = <<node>> \o order
    /\ UNCHANGED last

deque_push_front(node, v) ==
    /\ size # 0
    /\ Change("push_front", TRUE)
    /\ item' = [item EXCEPT ![node] = Node(v, first, NULL), ![first].prev = node]
    /\ first' = node
    /\ size' = size + 1
    /\ order' = <<node>> \o order
    /\ UNCHANGED last

PopEmpty ==
    /\ size = 0
    /\ \E name \in {"pop_back", "pop_front"} : Change(name, NULL)
    /\ UNCHANGED <<deque, order>>

\* Either pop of the only element.
PopOnly ==
    /\ size = 1
    /\ Change("pop_back", item[last].value) \/ Change("pop_front", item[first].value)
    /\ item' = [item EXCEPT ![first] = FreedItem]
    /\ first' = NULL /\ last' = NULL
    /\ size' = size - 1
    /\ order' = <<>>

deque_pop_back ==
    /\ size > 1
    /\ Change("pop_back", item[last].value)
    /\ LET prev == item[last].prev
       IN /\ item' = [item EXCEPT ![prev].next = NULL, ![last] = FreedItem]
          /\ last' = prev
    /\ size' = size - 1
    /\ order' = SubSeq(order, 1, Len(order) - 1)
    /\ UNCHANGED first

\* Mutant of deque_pop_front: the value is read after its item was freed.
deque_pop_front_ReadsFreed ==
    /\ size > 1
    /\ LET next == item[first].next
       IN /\ item' = [item EXCEPT ![next].prev = NULL, ![first] = FreedItem]
          /\ first' = next
    /\ Change("pop_front", item'[first].value)
    /\ size' = size - 1
    /\ order' = Tail(order)
    /\ UNCHANGED last

deque_pop_front ==
    /\ size > 1
    /\ Change("pop_front", item[first].value)
    /\ LET next == item[first].next
       IN /\ item' = [item EXCEPT ![next].prev = NULL, ![first] = FreedItem]
          /\ first' = next
    /\ size' = size - 1
    /\ order' = Tail(order)
    /\ UNCHANGED last

Read(name, result) ==
    /\ phase = "live"
    /\ call' = name
    /\ returned' = result
    /\ UNCHANGED <<deque, phase, current, ite, released, order>>

deque_front == Read("front", IF first # NULL THEN item[first].value ELSE NULL)
\* Mutant of deque_back: the value of the first item.
deque_back_First == Read("back", IF last # NULL THEN item[first].value ELSE NULL)

deque_back == Read("back", IF last # NULL THEN item[last].value ELSE NULL)
-----------------------------------------------------------------------------
(* Iterators                                                               *)

Move(name, element, position) ==
    /\ phase = "live"
    /\ call' = name
    /\ ite' = [current_element |-> element, position |-> position]
    /\ UNCHANGED <<deque, phase, current, returned, released, order>>

deque_begin == Move("begin", first, 0)
deque_rbegin == Move("rbegin", last, size - 1)

\* ite is an iterator at an element: neither deque_end nor deque_rend.
AtElement == ite.position \in 0..size - 1

deque_iterator_value == AtElement /\ Read("value", item[ite.current_element].value)

iterator_next ==
    /\ AtElement
    /\ Move("next", item[ite.current_element].next, ite.position + 1)

\* advance by -1 returns an iterator at the first element as it is.
iterator_prev ==
    /\ AtElement
    /\ IF ite.position < 1
       THEN Move("prev", ite.current_element, ite.position)
       ELSE Move("prev", item[ite.current_element].prev, ite.position - 1)
-----------------------------------------------------------------------------
deque_destroy ==
    /\ phase = "live"
    /\ phase' = "destroying"
    /\ call' = "destroy"
    /\ current' = first
    /\ ite' = NoIterator
    /\ UNCHANGED <<deque, returned, released, order>>

\* One round of its loop.
FreeItem ==
    /\ phase = "destroying"
    /\ current # NULL
    /\ current' = item[current].next
    /\ released' = Append(released, item[current].value)
    /\ item' = [item EXCEPT ![current] = FreedItem]
    /\ order' = Tail(order)
    /\ UNCHANGED <<first, last, size, phase, call, returned, ite>>

FreeDeque ==
    /\ phase = "destroying"
    /\ current = NULL
    /\ phase' = "none"
    /\ returned' = TRUE
    /\ UNCHANGED <<deque, current, call, ite, released, order>>

DestroyStep == FreeItem \/ FreeDeque

Push == \E node \in Address \ Live, v \in Value :
            PushFirst(node, v) \/ deque_push_back(node, v) \/ deque_push_front(node, v)

Pop == PopEmpty \/ PopOnly \/ deque_pop_back \/ deque_pop_front

Iterate == deque_begin \/ deque_rbegin \/ deque_iterator_value \/ iterator_next \/ iterator_prev

Next ==
    \/ deque_init \/ PushFails \/ Push \/ Pop \/ deque_front \/ deque_back
    \/ Iterate \/ deque_destroy \/ DestroyStep

Safety == Init /\ [][Next]_vars

\* deque_destroy runs to its end.
Spec == Safety /\ WF_vars(DestroyStep)
-----------------------------------------------------------------------------
(* Properties                                                              *)

\* The items not yet freed are those of the list, each once.
OrderIsLive ==
    /\ Live = {order[i] : i \in 1..Len(order)}
    /\ \A i, j \in 1..Len(order) : order[i] = order[j] => i = j

\* Each item points to its neighbours in the list.
NextLinked ==
    \A i \in 1..Len(order) :
      item[order[i]].next = IF i < Len(order) THEN order[i + 1] ELSE NULL

PrevLinked ==
    phase = "live" =>
      \A i \in 1..Len(order) :
        item[order[i]].prev = IF i > 1 THEN order[i - 1] ELSE NULL

FirstOf(s) == IF s = <<>> THEN NULL ELSE s[1]
LastOf(s) == IF s = <<>> THEN NULL ELSE s[Len(s)]

EndsLinked ==
    /\ phase = "none" => order = <<>>
    /\ phase = "live" =>
         size = Len(order) /\ first = FirstOf(order) /\ last = LastOf(order)
    /\ phase = "destroying" => current = FirstOf(order)

IteratorAtPosition ==
    ite # NoIterator =>
      /\ phase = "live"
      /\ ite.position \in -1..Len(order)
      /\ ite.current_element =
           IF ite.position \in 0..Len(order) - 1 THEN order[ite.position + 1] ELSE NULL

\* After any sequence of pushes and pops at both ends, and failed ones, the links in
\* both directions, first, last, size and the iterators describe one list, in which
\* no item is freed and outside which none is lost.
Linked ==
    OrderIsLive /\ NextLinked /\ PrevLinked /\ EndsLinked /\ IteratorAtPosition

\* The elements of the list.
Contents == [i \in 1..Len(order) |-> item[order[i]].value]

\* The collection that deque.h describes.
Abstract == INSTANCE DoubleEndedQueue WITH
    contents <- Contents,
    cursor <- ite.position

\* The one step of the list that deque.h does not describe: an iterator at the first
\* element that is moved back keeps its place (deque.c:184-187).
StaysAtFirst ==
    /\ Abstract!AtElement
    /\ ite.position = 0
    /\ Abstract!Move("prev", 0)

CollectionButRend == Abstract!Init /\ [][Abstract!Next \/ StaysAtFirst]_(Abstract!vars)

\* The list implements a sequence with access at both ends: every result, every
\* element under an iterator, and the release of all elements when it is destroyed.
\* Only an iterator that is moved back from the first element is not where deque.h
\* has it.
Implements == CollectionButRend /\ Abstract!Fairness

\* "Returns reversed iterator to last element", "iterator to end" (deque.h:89-91): the
\* list is the collection without exception, so moving back from the first element
\* leads to deque_rend, for which tests/deque.cpp:129 waits.
ImplementsCollection == Abstract!Safety
=============================================================================
