-------------------------- MODULE DoubleEndedQueue --------------------------
(***************************************************************************)
(* What the collection of deque.h promises: a sequence that grows and      *)
(* shrinks at both ends, a cursor that passes it from either end to the    *)
(* other, and the release of all elements when it is destroyed.  stack.c   *)
(* and queue.c are this collection used at one end and at two.             *)
(***************************************************************************)
EXTENDS Integers, Sequences

CONSTANTS
    Value,      \* elements
    NULL        \* what a pop of the empty collection returns

VARIABLES
    contents,   \* the elements, front first
    phase,      \* "none", "live" or "destroying"
    call,       \* name of the last operation
    returned,   \* its result
    released,   \* the elements released by the destruction under way
    cursor      \* position of an iterator, from 0, or NoCursor

vars == <<contents, phase, call, returned, released, cursor>>

NoCursor == -2

Init ==
    /\ contents = <<>>
    /\ phase = "none"
    /\ call = "none"
    /\ returned = NULL
    /\ released = <<>>
    /\ cursor = NoCursor

New ==
    /\ phase = "none"
    /\ phase' = "live"
    /\ call' = "init"
    /\ released' = <<>>
    /\ UNCHANGED <<contents, returned, cursor>>

\* An operation that changes the collection ends all iteration.
Change(name, result, after) ==
    /\ phase = "live"
    /\ call' = name
    /\ returned' = result
    /\ contents' = after
    /\ cursor' = NoCursor
    /\ UNCHANGED <<phase, released>>

PushBack(v) == Change("push_back", TRUE, Append(contents, v))
PushFront(v) == Change("push_front", TRUE, <<v>> \o contents)

\* A push that finds no memory leaves the collection as it was.
PushFails == \E name \in {"push_back", "push_front"} : Change(name, FALSE, contents)

PopBack ==
    IF contents = <<>>
    THEN Change("pop_back", NULL, <<>>)
    ELSE Change("pop_back", contents[Len(contents)], SubSeq(contents, 1, Len(contents) - 1))

PopFront ==
    IF contents = <<>>
    THEN Change("pop_front", NULL, <<>>)
    ELSE Change("pop_front", Head(contents), Tail(contents))

Read(name, result) ==
    /\ phase = "live"
    /\ call' = name
    /\ returned' = result
    /\ UNCHANGED <<contents, phase, released, cursor>>

Front == Read("front", IF contents = <<>> THEN NULL ELSE contents[1])
Back == Read("back", IF contents = <<>> THEN NULL ELSE contents[Len(contents)])

AtElement == cursor \in 0..Len(contents) - 1

ReadCursor == AtElement /\ Read("value", contents[cursor + 1])

Move(name, position) ==
    /\ phase = "live"
    /\ call' = name
    /\ cursor' = position
    /\ UNCHANGED <<contents, phase, returned, released>>

\* A cursor starts at the element of one end, begin or rbegin, and passes all
\* elements to the other: to end, behind the last, or to rend, before the first.
Rend == -1

MoveCursor ==
    \/ Move("begin", 0)
    \/ Move("rbegin", Len(contents) - 1)
    \/ AtElement /\ Move("next", cursor + 1)
    \/ AtElement /\ Move("prev", IF cursor = 0 THEN Rend ELSE cursor - 1)

Destroy ==
    /\ phase = "live"
    /\ phase' = "destroying"
    /\ call' = "destroy"
    /\ cursor' = NoCursor
    /\ UNCHANGED <<contents, returned, released>>

Release ==
    /\ phase = "destroying"
    /\ IF contents = <<>>
       THEN /\ phase' = "none"
            /\ returned' = TRUE
            /\ UNCHANGED <<contents, released>>
       ELSE /\ released' = Append(released, Head(contents))
            /\ contents' = Tail(contents)
            /\ UNCHANGED <<phase, returned>>
    /\ UNCHANGED <<call, cursor>>

Next ==
    \/ New \/ PushFails \/ (\E v \in Value : PushBack(v) \/ PushFront(v))
    \/ PopBack \/ PopFront \/ Front \/ Back \/ ReadCursor \/ MoveCursor \/ Destroy \/ Release

Safety == Init /\ [][Next]_vars

Fairness == WF_vars(Release)

Spec == Safety /\ Fairness
=============================================================================
