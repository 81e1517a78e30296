---------------------------- MODULE DequeProofs ----------------------------
(***************************************************************************)
(* Theorems about Deque for every heap and every set of elements: the list *)
(* stays linked, and implements the sequence of DoubleEndedQueue: every    *)
(* step of the list is a step of the sequence of its elements, but for an  *)
(* iterator that is moved back from the first element.                     *)
(***************************************************************************)
EXTENDS Deque, SequenceTheorems, TLAPS

\* The links describe the list, with the types they need: inductive.
Inv == TypeOK /\ Linked

-----------------------------------------------------------------------------
(* Items *)

LEMMA NodeType ==
  ASSUME NEW v \in Value, NEW next \in Address \cup {NULL}, NEW prev \in Address \cup {NULL}
  PROVE  /\ Node(v, next, prev) \in Item
         /\ Node(v, next, prev).next = next
         /\ Node(v, next, prev).prev = prev
         /\ Node(v, next, prev).value = v
BY DEF Node, Item

LEMMA ItemNotFreed ==
  ASSUME NEW it \in Item
  PROVE  it # FreedItem
BY DequeAssumption DEF Item, FreedItem

\* The items of the list are live, and a place malloc may use is none of them.
LEMMA ListFacts ==
  ASSUME TypeOK, OrderIsLive
  PROVE  /\ order \in Seq(Address)
         /\ Len(order) \in Nat
         /\ \A i \in 1..Len(order) :
              order[i] \in Address /\ order[i] # NULL /\ item[order[i]] \in Item
         /\ \A node \in Address \ Live : \A i \in 1..Len(order) : order[i] # node
<1>1. order \in Seq(Address) /\ Len(order) \in Nat
  BY LenProperties DEF TypeOK
<1>2. \A i \in 1..Len(order) : order[i] \in Live
  BY DEF OrderIsLive
<1>3. \A a \in Live : a \in Address /\ a # NULL /\ item[a] \in Item
  BY DequeAssumption DEF Live, TypeOK
<1>4. QED
  BY <1>1, <1>2, <1>3

\* A live list and its ends.
LEMMA EndFacts ==
  ASSUME Inv, phase = "live"
  PROVE  /\ size = Len(order)
         /\ size # 0 => first = order[1] /\ last = order[size] /\ order # <<>>
         /\ size = 0 => first = NULL /\ last = NULL /\ order = <<>>
<1>1. order \in Seq(Address) /\ Len(order) \in Nat
  BY ListFacts DEF Inv, Linked
<1>2. order = <<>> <=> Len(order) = 0
  BY <1>1, EmptySeq
<1>3. QED
  BY <1>1, <1>2 DEF Inv, Linked, EndsLinked, FirstOf, LastOf
-----------------------------------------------------------------------------
(* Sequences *)

LEMMA AppendFacts ==
  ASSUME NEW S, NEW s \in Seq(S), NEW e \in S
  PROVE  /\ Append(s, e) \in Seq(S)
         /\ Len(s) \in Nat
         /\ Len(Append(s, e)) = Len(s) + 1
         /\ Append(s, e) # <<>>
         /\ \A i \in 1..Len(s) : Append(s, e)[i] = s[i]
         /\ Append(s, e)[Len(s) + 1] = e
<1>1. /\ Append(s, e) \in Seq(S)
      /\ Len(Append(s, e)) = Len(s) + 1
      /\ \A i \in 1..Len(s) : Append(s, e)[i] = s[i]
      /\ Append(s, e)[Len(s) + 1] = e
  BY AppendProperties
<1>2. Len(s) \in Nat
  BY LenProperties
<1>3. QED
  BY <1>1, <1>2, EmptySeq

LEMMA ConsFacts ==
  ASSUME NEW S, NEW s \in Seq(S), NEW e \in S
  PROVE  /\ <<e>> \o s \in Seq(S)
         /\ Len(s) \in Nat
         /\ Len(<<e>> \o s) = Len(s) + 1
         /\ <<e>> \o s # <<>>
         /\ (<<e>> \o s)[1] = e
         /\ \A i \in 2..Len(s) + 1 : (<<e>> \o s)[i] = s[i - 1]
<1>1. <<e>> \in Seq(S) /\ Len(<<e>>) = 1 /\ <<e>>[1] = e
  OBVIOUS
<1>2. Len(s) \in Nat
  BY LenProperties
<1>3. /\ <<e>> \o s \in Seq(S)
      /\ Len(<<e>> \o s) = 1 + Len(s)
      /\ \A i \in 1..1 + Len(s) : (<<e>> \o s)[i] = IF i <= 1 THEN <<e>>[i] ELSE s[i - 1]
  BY <1>1, ConcatProperties
<1>4. QED
  BY <1>1, <1>2, <1>3, EmptySeq

LEMMA TailFacts ==
  ASSUME NEW S, NEW s \in Seq(S), s # <<>>
  PROVE  /\ Tail(s) \in Seq(S)
         /\ Len(s) \in Nat \ {0}
         /\ Len(Tail(s)) = Len(s) - 1
         /\ Head(s) = s[1]
         /\ \A i \in 1..Len(s) - 1 : Tail(s)[i] = s[i + 1]
BY HeadTailProperties, EmptySeq, LenProperties

LEMMA FrontFacts ==
  ASSUME NEW S, NEW s \in Seq(S), s # <<>>
  PROVE  /\ SubSeq(s, 1, Len(s) - 1) \in Seq(S)
         /\ Len(s) \in Nat \ {0}
         /\ Len(SubSeq(s, 1, Len(s) - 1)) = Len(s) - 1
         /\ \A i \in 1..Len(s) - 1 : SubSeq(s, 1, Len(s) - 1)[i] = s[i]
<1>1. Len(s) \in Nat \ {0} /\ \A i \in 1..Len(s) : s[i] \in S
  BY EmptySeq, LenProperties
<1> DEFINE n == Len(s) - 1
<1>2. n \in Nat /\ \A i \in 1..n : s[i] \in S
  BY <1>1
<1> HIDE DEF n
<1>3. /\ SubSeq(s, 1, n) \in Seq(S)
      /\ Len(SubSeq(s, 1, n)) = IF 1 <= n THEN n - 1 + 1 ELSE 0
      /\ \A i \in 1..n - 1 + 1 : SubSeq(s, 1, n)[i] = s[1 + i - 1]
  BY <1>2, SubSeqProperties
<1>4. SubSeq(s, 1, n) \in Seq(S) /\ Len(SubSeq(s, 1, n)) = n
  BY <1>2, <1>3
<1>5. ASSUME NEW i \in 1..n
      PROVE  SubSeq(s, 1, n)[i] = s[i]
  <2>1. i \in 1..n - 1 + 1 /\ 1 + i - 1 = i
    BY <1>2
  <2>2. QED
    BY <1>3, <2>1
<1>6. QED
  BY <1>1, <1>4, <1>5 DEF n
-----------------------------------------------------------------------------
(* Each operation keeps the list linked *)

LEMMA InitInv == Init => Inv
<1> SUFFICES ASSUME Init PROVE Inv
  OBVIOUS
<1>1. TypeOK
  BY DEF Init, TypeOK, Call, NoIterator
<1>2. Live = {} /\ Len(order) = 0
  BY DEF Init, Live
<1>3. Linked
  BY <1>2 DEF Init, Linked, OrderIsLive, NextLinked, PrevLinked, EndsLinked, IteratorAtPosition,
              NoIterator
<1>4. QED
  BY <1>1, <1>3 DEF Inv

\* Operations that leave the heap and the list as they are.
LEMMA ListUnchanged ==
  ASSUME Inv, UNCHANGED <<deque, phase, current, order>>, IteratorAtPosition'
  PROVE  Linked'
<1>1. OrderIsLive' /\ NextLinked' /\ PrevLinked' /\ EndsLinked'
  BY DEF Inv, Linked, deque, OrderIsLive, Live, NextLinked, PrevLinked, EndsLinked, FirstOf, LastOf
<1>2. QED
  BY <1>1 DEF Linked

LEMMA PushFailsInv == ASSUME Inv, PushFails PROVE Inv'
<1>1. UNCHANGED <<deque, phase, current, order, released>> /\ ite' = NoIterator
  BY DEF PushFails, Change
<1>2. call' \in Call /\ returned' \in BOOLEAN
  BY DEF PushFails, Change, Call
<1>3. TypeOK'
  BY <1>1, <1>2 DEF Inv, TypeOK, deque, NoIterator
<1>4. IteratorAtPosition'
  BY <1>1 DEF IteratorAtPosition
<1>5. QED
  BY <1>1, <1>3, <1>4, ListUnchanged DEF Inv

LEMMA PopEmptyInv == ASSUME Inv, PopEmpty PROVE Inv'
<1>1. UNCHANGED <<deque, phase, current, order, released>> /\ ite' = NoIterator
  BY DEF PopEmpty, Change
<1>2. call' \in Call /\ returned' = NULL
  BY DEF PopEmpty, Change, Call
<1>3. TypeOK'
  BY <1>1, <1>2 DEF Inv, TypeOK, deque, NoIterator
<1>4. IteratorAtPosition'
  BY <1>1 DEF IteratorAtPosition
<1>5. QED
  BY <1>1, <1>3, <1>4, ListUnchanged DEF Inv

LEMMA InitDequeInv == ASSUME Inv, deque_init PROVE Inv'
<1>1. order = <<>> /\ Len(order) = 0
  BY EmptySeq DEF Inv, Linked, EndsLinked, deque_init
<1>2. ite = NoIterator
  BY DEF Inv, Linked, IteratorAtPosition, deque_init
<1>3. TypeOK'
  BY <1>1 DEF Inv, TypeOK, deque_init, Call
<1>4. OrderIsLive' /\ NextLinked'
  BY DEF Inv, Linked, OrderIsLive, NextLinked, Live, deque_init
<1>5. PrevLinked' /\ EndsLinked' /\ IteratorAtPosition'
  BY <1>1, <1>2 DEF PrevLinked, EndsLinked, FirstOf, LastOf, IteratorAtPosition, deque_init
<1>6. QED
  BY <1>3, <1>4, <1>5 DEF Inv, Linked

LEMMA PushFirstInv ==
  ASSUME Inv, NEW node \in Address \ Live, NEW v \in Value, PushFirst(node, v)
  PROVE  Inv'
<1> DEFINE new == Node(v, NULL, NULL)
<1>1. phase = "live" /\ phase' = "live" /\ ite' = NoIterator /\ UNCHANGED <<current, released>>
  BY DEF PushFirst, Change
<1>2. order = <<>> /\ size = 0
  BY <1>1, EndFacts DEF PushFirst
<1>3. order' = <<node>> /\ size' = 1 /\ first' = node /\ last' = node
  BY <1>2 DEF PushFirst
<1>4. item' = [item EXCEPT ![node] = new] /\ item \in [Address -> Item \cup {FreedItem}]
  BY DEF PushFirst, Inv, TypeOK
<1>5. new \in Item /\ new.next = NULL /\ new.prev = NULL /\ new # FreedItem
  BY NodeType, ItemNotFreed
<1>6. TypeOK'
  <2>1. call' \in Call /\ returned' = TRUE
    BY DEF PushFirst, Change, Call
  <2>2. order' \in Seq(Address)
    BY <1>3
  <2>3. QED
    BY <1>1, <1>3, <1>4, <1>5, <2>1, <2>2 DEF Inv, TypeOK, NoIterator
<1>7. Live = {}
  BY <1>2 DEF Inv, Linked, OrderIsLive
<1>8. Live' = {node}
  BY <1>4, <1>5, <1>7 DEF Live
<1>9. Len(order') = 1 /\ order'[1] = node
  BY <1>3
<1>10. OrderIsLive' /\ NextLinked' /\ PrevLinked'
  BY <1>4, <1>5, <1>8, <1>9 DEF OrderIsLive, NextLinked, PrevLinked
<1>11. EndsLinked' /\ IteratorAtPosition'
  BY <1>1, <1>3, <1>9 DEF EndsLinked, FirstOf, LastOf, IteratorAtPosition
<1>12. QED
  BY <1>6, <1>10, <1>11 DEF Inv, Linked

LEMMA PushBackInv ==
  ASSUME Inv, NEW node \in Address \ Live, NEW v \in Value, deque_push_back(node, v)
  PROVE  Inv'
<1> DEFINE n == Len(order)
           new == Node(v, NULL, last)
<1>1. /\ phase = "live" /\ phase' = "live" /\ ite' = NoIterator
      /\ UNCHANGED <<current, released, first>>
  BY DEF deque_push_back, Change
<1>2. /\ order \in Seq(Address)
      /\ \A i \in 1..n : order[i] \in Address /\ item[order[i]] \in Item /\ order[i] # node
  BY ListFacts DEF Inv, Linked
<1>3. n \in Nat \ {0} /\ size = n /\ first = order[1] /\ last = order[n]
  BY <1>1, <1>2, EndFacts, LenProperties DEF deque_push_back
<1>4. /\ order' \in Seq(Address) /\ Len(order') = n + 1 /\ order' # <<>>
      /\ \A i \in 1..n : order'[i] = order[i]
      /\ order'[n + 1] = node
  BY <1>2, AppendFacts DEF deque_push_back
<1>5. last \in Address /\ last # node /\ item[last] \in Item
  BY <1>2, <1>3
<1>6. new \in Item /\ new.next = NULL /\ new.prev = last
  BY <1>5, NodeType
<1>7. item \in [Address -> Item \cup {FreedItem}]
  BY DEF Inv, TypeOK
<1>8. item' = [item EXCEPT ![node] = new, ![last].next = node]
  BY DEF deque_push_back
<1>9. /\ item'[node] = new
      /\ item'[last] = [item[last] EXCEPT !.next = node]
      /\ \A a \in Address \ {node, last} : item'[a] = item[a]
  BY <1>5, <1>7, <1>8
<1>10. item'[last] \in Item /\ item'[last].next = node /\ item'[last].prev = item[last].prev
  BY <1>5, <1>9 DEF Item
<1>11. item' \in [Address -> Item \cup {FreedItem}]
  <2>1. \A a \in Address : item'[a] \in Item \cup {FreedItem}
    BY <1>6, <1>7, <1>9, <1>10
  <2>2. item' = [a \in Address |-> item'[a]]
    BY <1>7, <1>8
  <2>3. QED
    BY <2>1, <2>2
<1>12. TypeOK'
  <2>1. call' \in Call /\ returned' = TRUE
    BY DEF deque_push_back, Change, Call
  <2>2. last' \in Address /\ size' \in Nat
    BY <1>3 DEF deque_push_back
  <2>3. QED
    BY <1>1, <1>4, <1>11, <2>1, <2>2 DEF Inv, TypeOK, NoIterator
<1>13. OrderIsLive'
  <2>1. Live' = Live \cup {node}
    BY <1>5, <1>6, <1>9, <1>10, ItemNotFreed DEF Live
  <2>2. Live = {order[i] : i \in 1..n} /\ \A i, j \in 1..n : order[i] = order[j] => i = j
    BY DEF Inv, Linked, OrderIsLive
  <2>3. Live' = {order'[i] : i \in 1..n + 1}
    BY <1>3, <1>4, <2>1, <2>2
  <2>4. \A i, j \in 1..n + 1 : order'[i] = order'[j] => i = j
    BY <1>2, <1>3, <1>4, <2>2
  <2>5. QED
    BY <1>4, <2>3, <2>4 DEF OrderIsLive
<1>14. NextLinked'
  <2>1. \A i \in 1..n : item[order[i]].next = IF i < n THEN order[i + 1] ELSE NULL
    BY DEF Inv, Linked, NextLinked
  <2>2. ASSUME NEW i \in 1..n - 1
        PROVE  item'[order'[i]].next = order'[i + 1]
    <3>1. i \in 1..n /\ n \in 1..n /\ i # n /\ i + 1 \in 1..n
      BY <1>3
    <3>2. order[i] # last
      BY <1>3, <3>1 DEF Inv, Linked, OrderIsLive
    <3>3. QED
      BY <1>2, <1>4, <1>9, <2>1, <3>1, <3>2
  <2>3. item'[order'[n]].next = order'[n + 1]
    BY <1>3, <1>4, <1>10
  <2>4. item'[order'[n + 1]].next = NULL
    BY <1>4, <1>6, <1>9
  <2>5. ASSUME NEW i \in 1..n + 1
        PROVE  item'[order'[i]].next = IF i < n + 1 THEN order'[i + 1] ELSE NULL
    <3>1. i \in 1..n - 1 \/ i = n \/ i = n + 1
      BY <1>3
    <3>2. QED
      BY <1>3, <2>2, <2>3, <2>4, <3>1
  <2>6. QED
    BY <1>4, <2>5 DEF NextLinked
<1>15. PrevLinked'
  <2>1. \A i \in 1..n : item[order[i]].prev = IF i > 1 THEN order[i - 1] ELSE NULL
    BY <1>1 DEF Inv, Linked, PrevLinked
  <2>2. ASSUME NEW i \in 1..n
        PROVE  item'[order'[i]].prev = item[order[i]].prev
    BY <1>2, <1>4, <1>9, <1>10
  <2>3. \A i \in 1..n : i > 1 => order'[i - 1] = order[i - 1]
    BY <1>3, <1>4
  <2>4. item'[order'[n + 1]].prev = order'[n]
    BY <1>3, <1>4, <1>6, <1>9
  <2>5. ASSUME NEW i \in 1..n + 1
        PROVE  item'[order'[i]].prev = IF i > 1 THEN order'[i - 1] ELSE NULL
    <3>1. i \in 1..n \/ i = n + 1
      BY <1>3
    <3>2. CASE i \in 1..n
      BY <2>1, <2>2, <2>3, <3>2
    <3>3. CASE i = n + 1
      BY <1>3, <2>4, <3>3
    <3>4. QED
      BY <3>1, <3>2, <3>3
  <2>6. QED
    BY <1>4, <2>5 DEF PrevLinked
<1>16. EndsLinked'
  <2>1. size' = n + 1 /\ last' = node /\ first' = order[1]
    BY <1>1, <1>3 DEF deque_push_back
  <2>2. order'[1] = order[1]
    BY <1>3, <1>4
  <2>3. QED
    BY <1>1, <1>4, <2>1, <2>2 DEF EndsLinked, FirstOf, LastOf
<1>17. QED
  BY <1>1, <1>12, <1>13, <1>14, <1>15, <1>16 DEF Inv, Linked, IteratorAtPosition

LEMMA PushFrontInv ==
  ASSUME Inv, NEW node \in Address \ Live, NEW v \in Value, deque_push_front(node, v)
  PROVE  Inv'
<1> DEFINE n == Len(order)
           new == Node(v, first, NULL)
<1>1. /\ phase = "live" /\ phase' = "live" /\ ite' = NoIterator
      /\ UNCHANGED <<current, released, last>>
  BY DEF deque_push_front, Change
<1>2. /\ order \in Seq(Address)
      /\ \A i \in 1..n : order[i] \in Address /\ item[order[i]] \in Item /\ order[i] # node
  BY ListFacts DEF Inv, Linked
<1>3. n \in Nat \ {0} /\ size = n /\ first = order[1] /\ last = order[n]
  BY <1>1, <1>2, EndFacts, LenProperties DEF deque_push_front
<1>4. /\ order' \in Seq(Address) /\ Len(order') = n + 1 /\ order' # <<>>
      /\ \A i \in 2..n + 1 : order'[i] = order[i - 1]
      /\ order'[1] = node
  BY <1>2, ConsFacts DEF deque_push_front
<1>5. first \in Address /\ first # node /\ item[first] \in Item
  BY <1>2, <1>3
<1>6. new \in Item /\ new.next = first /\ new.prev = NULL
  BY <1>5, NodeType
<1>7. item \in [Address -> Item \cup {FreedItem}]
  BY DEF Inv, TypeOK
<1>8. item' = [item EXCEPT ![node] = new, ![first].prev = node]
  BY DEF deque_push_front
<1>9. /\ item'[node] = new
      /\ item'[first] = [item[first] EXCEPT !.prev = node]
      /\ \A a \in Address \ {node, first} : item'[a] = item[a]
  BY <1>5, <1>7, <1>8
<1>10. item'[first] \in Item /\ item'[first].prev = node /\ item'[first].next = item[first].next
  BY <1>5, <1>9 DEF Item
<1>11. item' \in [Address -> Item \cup {FreedItem}]
  <2>1. \A a \in Address : item'[a] \in Item \cup {FreedItem}
    BY <1>6, <1>7, <1>9, <1>10
  <2>2. item' = [a \in Address |-> item'[a]]
    BY <1>7, <1>8
  <2>3. QED
    BY <2>1, <2>2
<1>12. TypeOK'
  <2>1. call' \in Call /\ returned' = TRUE
    BY DEF deque_push_front, Change, Call
  <2>2. first' \in Address /\ size' \in Nat
    BY <1>3 DEF deque_push_front
  <2>3. QED
    BY <1>1, <1>4, <1>11, <2>1, <2>2 DEF Inv, TypeOK, NoIterator
\* An item of the new list is the new one, or was one place nearer to the front.
<1>13. ASSUME NEW i \in 1..n + 1
       PROVE  i = 1 \/ (i - 1 \in 1..n /\ i # 1 /\ order'[i] = order[i - 1])
  BY <1>3, <1>4
<1>14. OrderIsLive'
  <2>1. Live' = Live \cup {node}
    BY <1>5, <1>6, <1>9, <1>10, ItemNotFreed DEF Live
  <2>2. Live = {order[i] : i \in 1..n} /\ \A i, j \in 1..n : order[i] = order[j] => i = j
    BY DEF Inv, Linked, OrderIsLive
  <2>3. \A a \in Live' : \E i \in 1..n + 1 : order'[i] = a
    <3>1. ASSUME NEW i \in 1..n
          PROVE  i + 1 \in 1..n + 1 /\ order'[i + 1] = order[i]
      <4>1. i + 1 \in 2..n + 1 /\ (i + 1) - 1 = i
        BY <1>3
      <4>2. QED
        BY <1>3, <1>4, <4>1
    <3>2. 1 \in 1..n + 1
      BY <1>3
    <3>3. QED
      BY <1>4, <2>1, <2>2, <3>1, <3>2
  <2>4. \A i \in 1..n + 1 : order'[i] \in Live'
    BY <1>4, <1>13, <2>1, <2>2
  <2>5. \A i, j \in 1..n + 1 : order'[i] = order'[j] => i = j
    <3> SUFFICES ASSUME NEW i \in 1..n + 1, NEW j \in 1..n + 1, order'[i] = order'[j]
                 PROVE  i = j
      OBVIOUS
    <3>1. CASE i = 1 \/ j = 1
      BY <1>2, <1>4, <1>13, <3>1
    <3>2. CASE i # 1 /\ j # 1
      <4>1. i - 1 = j - 1
        BY <1>13, <2>2, <3>2
      <4>2. QED
        BY <4>1, <1>3
    <3>3. QED
      BY <3>1, <3>2
  <2>6. QED
    BY <1>4, <2>3, <2>4, <2>5 DEF OrderIsLive
<1>15. NextLinked'
  <2>1. \A i \in 1..n : item[order[i]].next = IF i < n THEN order[i + 1] ELSE NULL
    BY DEF Inv, Linked, NextLinked
  <2>2. \A i \in 1..n : item'[order[i]].next = item[order[i]].next
    BY <1>2, <1>9, <1>10
  <2>3. ASSUME NEW i \in 1..n + 1
        PROVE  item'[order'[i]].next = IF i < n + 1 THEN order'[i + 1] ELSE NULL
    <3>1. CASE i = 1
      <4>1. order'[2] = order[1]
        BY <1>3, <1>4
      <4>2. QED
        BY <1>3, <1>4, <1>6, <1>9, <3>1, <4>1
    <3>2. CASE i # 1
      <4>1. i - 1 \in 1..n /\ order'[i] = order[i - 1]
        BY <1>13, <3>2
      <4>2. item'[order'[i]].next = IF i - 1 < n THEN order[(i - 1) + 1] ELSE NULL
        BY <2>1, <2>2, <4>1
      <4>3. (i - 1) + 1 = i /\ (i - 1 < n <=> i < n + 1)
        BY <1>3
      <4>4. i < n + 1 => order'[i + 1] = order[i]
        <5>1. i < n + 1 => i + 1 \in 2..n + 1 /\ (i + 1) - 1 = i
          BY <1>3
        <5>2. QED
          BY <1>4, <5>1
      <4>5. QED
        BY <4>2, <4>3, <4>4
    <3>3. QED
      BY <3>1, <3>2
  <2>4. QED
    BY <1>4, <2>3 DEF NextLinked
<1>16. PrevLinked'
  <2>1. \A i \in 1..n : item[order[i]].prev = IF i > 1 THEN order[i - 1] ELSE NULL
    BY <1>1 DEF Inv, Linked, PrevLinked
  <2>2. ASSUME NEW i \in 1..n + 1
        PROVE  item'[order'[i]].prev = IF i > 1 THEN order'[i - 1] ELSE NULL
    <3>1. CASE i = 1
      BY <1>4, <1>6, <1>9, <3>1
    <3>2. CASE i = 2
      <4>1. order'[2] = first /\ 2 - 1 = 1
        BY <1>3, <1>4
      <4>2. QED
        BY <1>4, <1>10, <3>2, <4>1
    <3>3. CASE i > 2
      <4>1. /\ i - 1 \in 1..n /\ i - 1 > 1 /\ (i - 1) - 1 \in 1..n
            /\ i - 1 \in 1..n + 1 /\ i - 1 # 1 /\ order'[i] = order[i - 1]
        BY <1>3, <1>13, <3>3
      <4>2. order'[i - 1] = order[(i - 1) - 1]
        BY <1>13, <4>1
      <4>3. order[i - 1] # first
        <5>1. 1 \in 1..n
          BY <1>3
        <5>2. QED
          BY <1>3, <4>1, <5>1 DEF Inv, Linked, OrderIsLive
      <4>4. item'[order[i - 1]] = item[order[i - 1]]
        BY <1>2, <1>9, <4>1, <4>3
      <4>5. QED
        BY <2>1, <3>3, <4>1, <4>2, <4>4
    <3>4. QED
      BY <1>3, <3>1, <3>2, <3>3
  <2>3. QED
    BY <1>4, <2>2 DEF PrevLinked
<1>17. EndsLinked'
  <2>1. size' = n + 1 /\ first' = node /\ last' = order[n]
    BY <1>1, <1>3 DEF deque_push_front
  <2>2. order'[n + 1] = order[n]
    <3>1. n + 1 \in 2..n + 1 /\ (n + 1) - 1 = n
      BY <1>3
    <3>2. QED
      BY <1>4, <3>1
  <2>3. QED
    BY <1>1, <1>4, <2>1, <2>2 DEF EndsLinked, FirstOf, LastOf
<1>18. QED
  BY <1>1, <1>12, <1>14, <1>15, <1>16, <1>17 DEF Inv, Linked, IteratorAtPosition

LEMMA PopOnlyInv == ASSUME Inv, PopOnly PROVE Inv'
<1>1. /\ phase = "live" /\ phase' = "live" /\ ite' = NoIterator
      /\ UNCHANGED <<current, released>>
      /\ call' \in Call
      /\ returned' \in {item[first].value, item[last].value}
  BY DEF PopOnly, Change, Call
<1>2. /\ order \in Seq(Address) /\ Len(order) = 1
      /\ first = order[1] /\ last = order[1]
      /\ order[1] \in Address /\ item[order[1]] \in Item
  BY <1>1, EndFacts, ListFacts DEF PopOnly, Inv, Linked
<1>3. first' = NULL /\ last' = NULL /\ size' = 0 /\ order' = <<>> /\ Len(order') = 0
  BY <1>1, <1>2, EndFacts DEF PopOnly
<1>4. item \in [Address -> Item \cup {FreedItem}] /\ item' = [item EXCEPT ![first] = FreedItem]
  BY DEF PopOnly, Inv, TypeOK
<1>5. TypeOK'
  <2>1. returned' \in Value
    BY <1>1, <1>2 DEF Item
  <2>2. order' \in Seq(Address)
    BY <1>3, EmptySeq
  <2>3. item' \in [Address -> Item \cup {FreedItem}]
    BY <1>2, <1>4
  <2>4. QED
    BY <1>1, <1>3, <2>1, <2>2, <2>3 DEF Inv, TypeOK, NoIterator
<1>6. Live = {order[1]}
  BY <1>2 DEF Inv, Linked, OrderIsLive
<1>7. Live' = {}
  BY <1>2, <1>4, <1>6 DEF Live
<1>8. OrderIsLive' /\ NextLinked' /\ PrevLinked'
  BY <1>3, <1>7 DEF OrderIsLive, NextLinked, PrevLinked
<1>9. EndsLinked' /\ IteratorAtPosition'
  BY <1>1, <1>3 DEF EndsLinked, FirstOf, LastOf, IteratorAtPosition
<1>10. QED
  BY <1>5, <1>8, <1>9 DEF Inv, Linked

LEMMA PopBackInv == ASSUME Inv, deque_pop_back PROVE Inv'
<1> DEFINE n == Len(order)
           prev == item[last].prev
<1>1. /\ phase = "live" /\ phase' = "live" /\ ite' = NoIterator
      /\ UNCHANGED <<current, released, first>>
      /\ call' \in Call /\ returned' = item[last].value
  BY DEF deque_pop_back, Change, Call
<1>2. /\ order \in Seq(Address) /\ order # <<>>
      /\ \A i \in 1..n : order[i] \in Address /\ item[order[i]] \in Item
  BY <1>1, EndFacts, ListFacts DEF Inv, Linked, deque_pop_back
<1>3. n \in Nat /\ n > 1 /\ size = n /\ first = order[1] /\ last = order[n]
  BY <1>1, <1>2, EndFacts, LenProperties DEF deque_pop_back
<1>4. /\ order' \in Seq(Address) /\ Len(order') = n - 1
      /\ \A i \in 1..n - 1 : order'[i] = order[i]
  BY <1>2, FrontFacts DEF deque_pop_back
<1>5. /\ last \in Address /\ item[last] \in Item
      /\ prev = order[n - 1] /\ prev \in Address /\ item[prev] \in Item
  <2>1. n \in 1..n /\ n - 1 \in 1..n
    BY <1>3
  <2>2. item[order[n]].prev = order[n - 1]
    BY <1>1, <1>3, <2>1 DEF Inv, Linked, PrevLinked
  <2>3. QED
    BY <1>2, <1>3, <2>1, <2>2
<1>6. \A i, j \in 1..n : order[i] = order[j] => i = j
  BY DEF Inv, Linked, OrderIsLive
<1>7. prev # last
  BY <1>3, <1>5, <1>6
<1>8. item \in [Address -> Item \cup {FreedItem}]
  BY DEF Inv, TypeOK
<1>9. item' = [item EXCEPT ![prev].next = NULL, ![last] = FreedItem]
  BY DEF deque_pop_back
<1>10. /\ item'[last] = FreedItem
       /\ item'[prev] = [item[prev] EXCEPT !.next = NULL]
       /\ \A a \in Address \ {prev, last} : item'[a] = item[a]
  BY <1>5, <1>7, <1>8, <1>9
<1>11. item'[prev] \in Item /\ item'[prev].next = NULL /\ item'[prev].prev = item[prev].prev
  BY <1>5, <1>10 DEF Item
<1>12. item' \in [Address -> Item \cup {FreedItem}]
  <2>1. \A a \in Address : item'[a] \in Item \cup {FreedItem}
    BY <1>8, <1>10, <1>11
  <2>2. item' = [a \in Address |-> item'[a]]
    BY <1>8, <1>9
  <2>3. QED
    BY <2>1, <2>2
<1>13. TypeOK'
  <2>1. returned' \in Value
    BY <1>1, <1>5 DEF Item
  <2>2. last' \in Address /\ size' \in Nat
    BY <1>3, <1>5 DEF deque_pop_back
  <2>3. QED
    BY <1>1, <1>4, <1>12, <2>1, <2>2 DEF Inv, TypeOK, NoIterator
<1>14. OrderIsLive'
  <2>1. Live = {order[i] : i \in 1..n}
    BY DEF Inv, Linked, OrderIsLive
  <2>2. Live' = Live \ {last}
    BY <1>5, <1>8, <1>10, <1>11, ItemNotFreed DEF Live
  <2>3. Live' = {order'[i] : i \in 1..n - 1}
    <3>1. \A a \in Live' : \E i \in 1..n - 1 : a = order'[i]
      <4>1. \A i \in 1..n : i # n => i \in 1..n - 1
        BY <1>3
      <4>2. QED
        BY <1>3, <1>4, <2>1, <2>2, <4>1
    <3>2. \A i \in 1..n - 1 : order'[i] \in Live'
      <4>1. \A i \in 1..n - 1 : i \in 1..n /\ n \in 1..n /\ i # n
        BY <1>3
      <4>2. QED
        BY <1>3, <1>4, <1>6, <2>1, <2>2, <4>1
    <3>3. QED
      BY <3>1, <3>2
  <2>4. \A i, j \in 1..n - 1 : order'[i] = order'[j] => i = j
    BY <1>3, <1>4, <1>6
  <2>5. QED
    BY <1>4, <2>3, <2>4 DEF OrderIsLive
<1>15. NextLinked'
  <2>1. \A i \in 1..n : item[order[i]].next = IF i < n THEN order[i + 1] ELSE NULL
    BY DEF Inv, Linked, NextLinked
  <2>2. ASSUME NEW i \in 1..n - 1
        PROVE  item'[order'[i]].next = IF i < n - 1 THEN order'[i + 1] ELSE NULL
    <3>1. CASE i = n - 1
      BY <1>4, <1>5, <1>11, <3>1
    <3>2. CASE i # n - 1
      <4>1. i < n - 1 /\ i \in 1..n /\ i + 1 \in 1..n - 1 /\ n \in 1..n /\ n - 1 \in 1..n /\ i # n
        BY <1>3, <3>2
      <4>2. order[i] # last /\ order[i] # prev
        BY <1>3, <1>5, <1>6, <3>2, <4>1
      <4>3. item'[order[i]] = item[order[i]]
        BY <1>2, <1>10, <4>1, <4>2
      <4>4. item[order[i]].next = order[i + 1]
        BY <1>3, <2>1, <4>1
      <4>5. QED
        BY <1>4, <4>1, <4>3, <4>4
    <3>3. QED
      BY <3>1, <3>2
  <2>3. QED
    BY <1>4, <2>2 DEF NextLinked
<1>16. PrevLinked'
  <2>1. \A i \in 1..n : item[order[i]].prev = IF i > 1 THEN order[i - 1] ELSE NULL
    BY <1>1 DEF Inv, Linked, PrevLinked
  <2>2. ASSUME NEW i \in 1..n - 1
        PROVE  item'[order'[i]].prev = IF i > 1 THEN order'[i - 1] ELSE NULL
    <3>1. i \in 1..n /\ n \in 1..n /\ i # n
      BY <1>3
    <3>2. order[i] # last
      BY <1>3, <1>6, <3>1
    <3>3. item'[order[i]].prev = item[order[i]].prev
      BY <1>2, <1>10, <1>11, <3>1, <3>2
    <3>4. i > 1 => i - 1 \in 1..n - 1
      BY <1>3
    <3>5. QED
      BY <1>4, <2>1, <3>1, <3>3, <3>4
  <2>3. QED
    BY <1>4, <2>2 DEF PrevLinked
<1>17. EndsLinked'
  <2>1. size' = n - 1 /\ first' = order[1] /\ last' = order[n - 1]
    BY <1>1, <1>3, <1>5 DEF deque_pop_back
  <2>2. order'[1] = order[1] /\ order'[n - 1] = order[n - 1] /\ order' # <<>>
    BY <1>3, <1>4, EmptySeq
  <2>3. QED
    BY <1>1, <1>4, <2>1, <2>2 DEF EndsLinked, FirstOf, LastOf
<1>18. QED
  BY <1>1, <1>13, <1>14, <1>15, <1>16, <1>17 DEF Inv, Linked, IteratorAtPosition

\* Both pop_front and a round of deque_destroy take the first item away.
LEMMA TailLinked ==
  ASSUME Inv, order # <<>>, order' = Tail(order),
         item' \in [Address -> Item \cup {FreedItem}],
         item'[order[1]] = FreedItem,
         \A i \in 2..Len(order) :
           item'[order[i]] \in Item /\ item'[order[i]].next = item[order[i]].next,
         \A a \in Address \ Live : item'[a] = item[a]
  PROVE  OrderIsLive' /\ NextLinked'
<1> DEFINE n == Len(order)
<1>1. order \in Seq(Address) /\ \A i \in 1..n : order[i] \in Address
  BY ListFacts DEF Inv, Linked
<1>2. /\ n \in Nat \ {0} /\ Len(order') = n - 1
      /\ \A i \in 1..n - 1 : order'[i] = order[i + 1]
  BY <1>1, TailFacts
<1>3. \A i \in 1..n - 1 : i + 1 \in 2..n /\ i + 1 \in 1..n
  BY <1>2
<1>4. /\ Live = {order[i] : i \in 1..n}
      /\ \A i, j \in 1..n : order[i] = order[j] => i = j
  BY DEF Inv, Linked, OrderIsLive
<1>5. OrderIsLive'
  <2>1. \A i \in 1..n - 1 : order'[i] \in Live'
    BY <1>1, <1>2, <1>3, ItemNotFreed DEF Live
  <2>2. \A a \in Live' : \E i \in 1..n - 1 : a = order'[i]
    <3> SUFFICES ASSUME NEW a \in Live' PROVE \E i \in 1..n - 1 : a = order'[i]
      OBVIOUS
    <3>1. a \in Live
      BY DEF Live
    <3>2. PICK j \in 1..n : a = order[j]
      BY <1>4, <3>1
    <3>3. j # 1
      BY <3>2 DEF Live
    <3>4. j - 1 \in 1..n - 1 /\ (j - 1) + 1 = j
      BY <1>2, <3>3
    <3>5. order'[j - 1] = order[j]
      BY <1>2, <3>4
    <3>6. QED
      BY <3>2, <3>4, <3>5
  <2>3. \A i, j \in 1..n - 1 : order'[i] = order'[j] => i = j
    <3> SUFFICES ASSUME NEW i \in 1..n - 1, NEW j \in 1..n - 1, order'[i] = order'[j]
                 PROVE  i = j
      OBVIOUS
    <3>1. order[i + 1] = order[j + 1]
      BY <1>2
    <3>2. i + 1 = j + 1
      BY <1>3, <1>4, <3>1
    <3>3. QED
      BY <3>2
  <2>4. Live' = {order'[i] : i \in 1..n - 1}
    BY <2>1, <2>2
  <2>5. QED
    BY <1>2, <2>3, <2>4 DEF OrderIsLive
<1>6. NextLinked'
  <2>1. \A i \in 1..n : item[order[i]].next = IF i < n THEN order[i + 1] ELSE NULL
    BY DEF Inv, Linked, NextLinked
  <2>2. ASSUME NEW i \in 1..n - 1
        PROVE  item'[order'[i]].next = IF i < n - 1 THEN order'[i + 1] ELSE NULL
    <3>1. item'[order'[i]].next = IF i + 1 < n THEN order[(i + 1) + 1] ELSE NULL
      BY <1>2, <1>3, <2>1
    <3>2. i + 1 < n <=> i < n - 1
      BY <1>2
    <3>3. i < n - 1 => i + 1 \in 1..n - 1
      BY <1>2
    <3>4. i < n - 1 => order'[i + 1] = order[(i + 1) + 1]
      BY <1>2, <3>3
    <3>5. QED
      BY <3>1, <3>2, <3>4
  <2>3. QED
    BY <1>2, <2>2 DEF NextLinked
<1>7. QED
  BY <1>5, <1>6

LEMMA PopFrontInv == ASSUME Inv, deque_pop_front PROVE Inv'
<1> DEFINE n == Len(order)
           next == item[first].next
<1>1. /\ phase = "live" /\ phase' = "live" /\ ite' = NoIterator
      /\ UNCHANGED <<current, released, last>>
      /\ call' \in Call /\ returned' = item[first].value
  BY DEF deque_pop_front, Change, Call
<1>2. /\ order \in Seq(Address) /\ order # <<>>
      /\ \A i \in 1..n : order[i] \in Address /\ item[order[i]] \in Item
  BY <1>1, EndFacts, ListFacts DEF Inv, Linked, deque_pop_front
<1>3. n \in Nat /\ n > 1 /\ size = n /\ first = order[1] /\ last = order[n]
  BY <1>1, <1>2, EndFacts, LenProperties DEF deque_pop_front
<1>4. /\ order' = Tail(order) /\ order' \in Seq(Address) /\ Len(order') = n - 1
      /\ \A i \in 1..n - 1 : order'[i] = order[i + 1]
  BY <1>2, TailFacts DEF deque_pop_front
<1>5. /\ first \in Address /\ item[first] \in Item
      /\ next = order[2] /\ next \in Address /\ item[next] \in Item
  <2>1. 1 \in 1..n /\ 2 \in 1..n
    BY <1>3
  <2>2. item[order[1]].next = order[2]
    BY <1>3, <2>1 DEF Inv, Linked, NextLinked
  <2>3. QED
    BY <1>2, <1>3, <2>1, <2>2
<1>6. \A i, j \in 1..n : order[i] = order[j] => i = j
  BY DEF Inv, Linked, OrderIsLive
<1>7. next # first
  BY <1>3, <1>5, <1>6
<1>8. item \in [Address -> Item \cup {FreedItem}]
  BY DEF Inv, TypeOK
<1>9. item' = [item EXCEPT ![next].prev = NULL, ![first] = FreedItem]
  BY DEF deque_pop_front
<1>10. /\ item'[first] = FreedItem
       /\ item'[next] = [item[next] EXCEPT !.prev = NULL]
       /\ \A a \in Address \ {next, first} : item'[a] = item[a]
  BY <1>5, <1>7, <1>8, <1>9
<1>11. item'[next] \in Item /\ item'[next].prev = NULL /\ item'[next].next = item[next].next
  BY <1>5, <1>10 DEF Item
<1>12. item' \in [Address -> Item \cup {FreedItem}]
  <2>1. \A a \in Address : item'[a] \in Item \cup {FreedItem}
    BY <1>8, <1>10, <1>11
  <2>2. item' = [a \in Address |-> item'[a]]
    BY <1>8, <1>9
  <2>3. QED
    BY <2>1, <2>2
<1>13. TypeOK'
  <2>1. returned' \in Value
    BY <1>1, <1>5 DEF Item
  <2>2. first' \in Address /\ size' \in Nat
    BY <1>3, <1>5 DEF deque_pop_front
  <2>3. QED
    BY <1>1, <1>4, <1>12, <2>1, <2>2 DEF Inv, TypeOK, NoIterator
<1>14. \A i \in 2..n : i \in 1..n /\ order[i] # first
  <2>1. \A i \in 2..n : i \in 1..n /\ 1 \in 1..n /\ i # 1
    BY <1>3
  <2>2. QED
    BY <1>3, <1>6, <2>1
<1>15. OrderIsLive' /\ NextLinked'
  <2>1. \A i \in 2..n :
          item'[order[i]] \in Item /\ item'[order[i]].next = item[order[i]].next
    BY <1>2, <1>10, <1>11, <1>14
  <2>2. \A a \in Address \ Live : item'[a] = item[a]
    <3>1. first \in Live /\ next \in Live
      BY <1>5, ItemNotFreed DEF Live
    <3>2. QED
      BY <1>10, <3>1
  <2>3. QED
    BY <1>2, <1>3, <1>4, <1>10, <1>12, <2>1, <2>2, TailLinked
<1>16. PrevLinked'
  <2>1. \A i \in 1..n : item[order[i]].prev = IF i > 1 THEN order[i - 1] ELSE NULL
    BY <1>1 DEF Inv, Linked, PrevLinked
  <2>2. ASSUME NEW i \in 1..n - 1
        PROVE  item'[order'[i]].prev = IF i > 1 THEN order'[i - 1] ELSE NULL
    <3>1. CASE i = 1
      BY <1>3, <1>4, <1>5, <1>11, <3>1
    <3>2. CASE i # 1
      <4>1. /\ i > 1 /\ i + 1 \in 1..n /\ i + 1 \in 2..n /\ 2 \in 1..n /\ i + 1 # 2
            /\ i - 1 \in 1..n - 1 /\ (i - 1) + 1 = i /\ (i + 1) - 1 = i /\ i + 1 > 1
        BY <1>3, <3>2
      <4>2. order[i + 1] # next /\ order[i + 1] # first
        BY <1>5, <1>6, <1>14, <4>1
      <4>3. item'[order[i + 1]].prev = order[i]
        <5>1. order[i + 1] \in Address \ {next, first}
          BY <1>2, <4>1, <4>2
        <5>2. item'[order[i + 1]] = item[order[i + 1]]
          BY <1>10, <5>1
        <5>3. item[order[i + 1]].prev = order[(i + 1) - 1]
          BY <2>1, <4>1
        <5>4. QED
          BY <4>1, <5>2, <5>3
      <4>4. order'[i - 1] = order[i]
        BY <1>4, <4>1
      <4>5. QED
        BY <1>4, <4>1, <4>3, <4>4
    <3>3. QED
      BY <3>1, <3>2
  <2>3. QED
    BY <1>4, <2>2 DEF PrevLinked
<1>17. EndsLinked'
  <2>1. size' = n - 1 /\ first' = order[2] /\ last' = order[n]
    BY <1>1, <1>3, <1>5 DEF deque_pop_front
  <2>2. order'[1] = order[2] /\ order'[n - 1] = order[n] /\ order' # <<>>
    <3>1. 1 \in 1..n - 1 /\ n - 1 \in 1..n - 1 /\ (n - 1) + 1 = n
      BY <1>3
    <3>2. order'[1] = order[2]
      BY <1>4, <3>1
    <3>3. order'[n - 1] = order[n]
      BY <1>4, <3>1
    <3>4. Len(order') # 0
      BY <1>3, <1>4
    <3>5. order' # <<>>
      BY <3>4, EmptySeq
    <3>6. QED
      BY <3>2, <3>3, <3>5
  <2>3. QED
    BY <1>1, <1>4, <2>1, <2>2 DEF EndsLinked, FirstOf, LastOf
<1>18. QED
  BY <1>1, <1>13, <1>15, <1>16, <1>17 DEF Inv, Linked, IteratorAtPosition

\* The two ends are read only if there are any.
LEMMA ReadInv ==
  ASSUME Inv, deque_front \/ deque_back \/ deque_iterator_value
  PROVE  Inv'
<1>1. UNCHANGED <<deque, phase, current, ite, released, order>> /\ phase = "live"
  BY DEF deque_front, deque_back, deque_iterator_value, Read
<1>2. \A i \in 1..Len(order) : item[order[i]].value \in Value
  BY ListFacts DEF Inv, Linked, Item
<1>3. Len(order) \in Nat /\ (order # <<>> => 1 \in 1..Len(order) /\ Len(order) \in 1..Len(order))
  BY ListFacts, EmptySeq DEF Inv, Linked
<1>4. call' \in Call /\ returned' \in Value \cup {NULL}
  <2>1. CASE deque_front
    BY <1>1, <1>2, <1>3, <2>1, EndFacts DEF deque_front, Read, Call
  <2>2. CASE deque_back
    BY <1>1, <1>2, <1>3, <2>2, EndFacts DEF deque_back, Read, Call
  <2>3. CASE deque_iterator_value
    <3>1. ite.position \in 0..Len(order) - 1 /\ ite # NoIterator
      BY <1>1, <2>3, EndFacts DEF deque_iterator_value, AtElement, NoIterator
    <3>2. ite.position + 1 \in 1..Len(order) /\ ite.current_element = order[ite.position + 1]
      BY <1>3, <3>1 DEF Inv, Linked, IteratorAtPosition
    <3>3. QED
      BY <1>2, <2>3, <3>2 DEF deque_iterator_value, Read, Call
  <2>4. QED
    BY <2>1, <2>2, <2>3
<1>5. TypeOK'
  BY <1>1, <1>4 DEF Inv, TypeOK, deque
<1>6. IteratorAtPosition'
  BY <1>1 DEF Inv, Linked, IteratorAtPosition, deque
<1>7. QED
  BY <1>1, <1>5, <1>6, ListUnchanged DEF Inv

\* An iterator that is set to a place of the list, or just outside.
LEMMA MoveInv ==
  ASSUME Inv, NEW name \in Call, NEW element \in Address \cup {NULL}, NEW position \in Int,
         Move(name, element, position),
         position \in -1..Len(order),
         element = IF position \in 0..Len(order) - 1 THEN order[position + 1] ELSE NULL
  PROVE  Inv'
<1>1. /\ UNCHANGED <<deque, phase, current, returned, released, order>> /\ phase = "live"
      /\ call' = name /\ ite' = [current_element |-> element, position |-> position]
  BY DEF Move
<1>2. TypeOK'
  BY <1>1 DEF Inv, TypeOK, deque
<1>3. IteratorAtPosition'
  BY <1>1 DEF IteratorAtPosition
<1>4. QED
  BY <1>1, <1>2, <1>3, ListUnchanged DEF Inv

LEMMA IterateInv ==
  ASSUME Inv, Iterate
  PROVE  Inv'
<1> DEFINE n == Len(order)
<1>1. phase = "live"
  BY DEF Iterate, deque_begin, deque_rbegin, deque_iterator_value, iterator_next, iterator_prev,
         Move, Read
<1>2. /\ n \in Nat /\ size = n
      /\ n > 0 => first = order[1] /\ last = order[n]
      /\ n = 0 => first = NULL /\ last = NULL
      /\ \A i \in 1..n : order[i] \in Address
  BY <1>1, EndFacts, ListFacts DEF Inv, Linked
<1>3. CASE deque_begin
  <2>1. Move("begin", first, 0)
    BY <1>3 DEF deque_begin
  <2>2. /\ "begin" \in Call /\ first \in Address \cup {NULL} /\ 0 \in -1..n
        /\ first = IF 0 \in 0..n - 1 THEN order[0 + 1] ELSE NULL
    BY <1>2 DEF Call
  <2>3. QED
    BY <2>1, <2>2, MoveInv
<1>4. CASE deque_rbegin
  <2>1. Move("rbegin", last, n - 1)
    BY <1>2, <1>4 DEF deque_rbegin
  <2>2. /\ "rbegin" \in Call /\ last \in Address \cup {NULL} /\ n - 1 \in -1..n
        /\ last = IF n - 1 \in 0..n - 1 THEN order[(n - 1) + 1] ELSE NULL
    BY <1>2 DEF Call
  <2>3. QED
    BY <2>1, <2>2, MoveInv
<1>5. CASE deque_iterator_value
  BY <1>5, ReadInv
<1> DEFINE p == ite.position
<1>6. ASSUME AtElement
      PROVE  /\ p \in 0..n - 1 /\ p + 1 \in 1..n
             /\ ite.current_element = order[p + 1]
             /\ item[order[p + 1]].next = IF p + 1 < n THEN order[(p + 1) + 1] ELSE NULL
             /\ item[order[p + 1]].prev = IF p + 1 > 1 THEN order[(p + 1) - 1] ELSE NULL
  <2>1. p \in 0..n - 1 /\ p + 1 \in 1..n
    BY <1>2, <1>6 DEF AtElement
  <2>2. ite # NoIterator
    BY <2>1 DEF NoIterator
  <2>3. QED
    BY <1>1, <2>1, <2>2 DEF Inv, Linked, IteratorAtPosition, NextLinked, PrevLinked
<1>7. CASE iterator_next
  <2>1. AtElement /\ Move("next", item[order[p + 1]].next, p + 1)
    BY <1>6, <1>7 DEF iterator_next
  <2>2. /\ "next" \in Call /\ p + 1 \in -1..n /\ p + 1 \in Int
        /\ p + 1 < n <=> p + 1 \in 0..n - 1
        /\ p + 1 < n => (p + 1) + 1 \in 1..n
    BY <1>2, <1>6, <2>1 DEF Call
  <2>3. /\ item[order[p + 1]].next \in Address \cup {NULL}
        /\ item[order[p + 1]].next = IF p + 1 \in 0..n - 1 THEN order[(p + 1) + 1] ELSE NULL
    BY <1>2, <1>6, <2>1, <2>2
  <2>4. QED
    BY <2>1, <2>2, <2>3, MoveInv
<1>8. CASE iterator_prev
  <2>1. AtElement
    BY <1>8 DEF iterator_prev
  <2>2. CASE p < 1
    <3>1. Move("prev", order[p + 1], p)
      BY <1>6, <1>8, <2>1, <2>2 DEF iterator_prev
    <3>2. "prev" \in Call /\ p \in Int /\ p \in -1..n /\ order[p + 1] \in Address
      BY <1>2, <1>6, <2>1 DEF Call
    <3>3. QED
      BY <1>6, <2>1, <3>1, <3>2, MoveInv
  <2>3. CASE ~(p < 1)
    <3>1. Move("prev", item[order[p + 1]].prev, p - 1)
      BY <1>6, <1>8, <2>1, <2>3 DEF iterator_prev
    <3>2. /\ "prev" \in Call /\ p - 1 \in Int /\ p - 1 \in -1..n /\ p - 1 \in 0..n - 1
          /\ (p + 1) - 1 = (p - 1) + 1 /\ (p - 1) + 1 \in 1..n /\ p + 1 > 1
      BY <1>2, <1>6, <2>1, <2>3 DEF Call
    <3>3. item[order[p + 1]].prev = order[(p - 1) + 1]
      BY <1>6, <2>1, <3>2
    <3>4. QED
      BY <1>2, <3>1, <3>2, <3>3, MoveInv
  <2>4. QED
    BY <2>2, <2>3
<1>9. QED
  BY <1>3, <1>4, <1>5, <1>7, <1>8 DEF Iterate

LEMMA DestroyInv == ASSUME Inv, deque_destroy PROVE Inv'
<1>1. /\ UNCHANGED <<deque, returned, released, order>>
      /\ phase = "live" /\ phase' = "destroying" /\ call' \in Call
      /\ current' = first /\ ite' = NoIterator
  BY DEF deque_destroy, Call
<1>2. TypeOK'
  BY <1>1 DEF Inv, TypeOK, deque, NoIterator
<1>3. OrderIsLive' /\ NextLinked'
  BY <1>1 DEF Inv, Linked, deque, OrderIsLive, Live, NextLinked
<1>4. PrevLinked' /\ EndsLinked' /\ IteratorAtPosition'
  BY <1>1 DEF Inv, Linked, deque, PrevLinked, EndsLinked, FirstOf, IteratorAtPosition
<1>5. QED
  BY <1>2, <1>3, <1>4 DEF Inv, Linked

LEMMA FreeDequeInv == ASSUME Inv, FreeDeque PROVE Inv'
<1>1. /\ UNCHANGED <<deque, current, call, ite, released, order>>
      /\ phase = "destroying" /\ current = NULL /\ phase' = "none" /\ returned' = TRUE
  BY DEF FreeDeque
<1>2. order = <<>>
  <2>1. order # <<>> => 1 \in 1..Len(order)
    BY ListFacts, EmptySeq DEF Inv, Linked
  <2>2. order # <<>> => order[1] # NULL
    BY <2>1, ListFacts DEF Inv, Linked
  <2>3. QED
    BY <1>1, <2>2 DEF Inv, Linked, EndsLinked, FirstOf
<1>3. ite = NoIterator
  BY <1>1 DEF Inv, Linked, IteratorAtPosition
<1>4. TypeOK'
  BY <1>1 DEF Inv, TypeOK, deque
<1>5. OrderIsLive' /\ NextLinked'
  BY <1>1 DEF Inv, Linked, deque, OrderIsLive, Live, NextLinked
<1>6. PrevLinked' /\ EndsLinked' /\ IteratorAtPosition'
  BY <1>1, <1>2, <1>3 DEF PrevLinked, EndsLinked, IteratorAtPosition
<1>7. QED
  BY <1>4, <1>5, <1>6 DEF Inv, Linked

LEMMA FreeItemInv == ASSUME Inv, FreeItem PROVE Inv'
<1> DEFINE n == Len(order)
<1>1. /\ UNCHANGED <<first, last, size, phase, call, returned, ite>>
      /\ phase = "destroying" /\ current # NULL
      /\ current' = item[current].next
      /\ released' = Append(released, item[current].value)
      /\ item' = [item EXCEPT ![current] = FreedItem]
      /\ order' = Tail(order)
  BY DEF FreeItem
<1>2. order # <<>> /\ current = order[1]
  BY <1>1 DEF Inv, Linked, EndsLinked, FirstOf
<1>3. /\ order \in Seq(Address) /\ n \in Nat \ {0} /\ 1 \in 1..n
      /\ \A i \in 1..n : order[i] \in Address /\ item[order[i]] \in Item
  BY <1>2, ListFacts, EmptySeq DEF Inv, Linked
<1>4. /\ order' \in Seq(Address) /\ Len(order') = n - 1
      /\ \A i \in 1..n - 1 : order'[i] = order[i + 1]
  BY <1>1, <1>2, <1>3, TailFacts
<1>5. /\ item \in [Address -> Item \cup {FreedItem}]
      /\ item' \in [Address -> Item \cup {FreedItem}]
      /\ item'[current] = FreedItem
      /\ \A a \in Address \ {current} : item'[a] = item[a]
  BY <1>1, <1>2, <1>3 DEF Inv, TypeOK
<1>6. \A i \in 2..n : i \in 1..n /\ order[i] # current
  <2>1. \A i \in 2..n : i \in 1..n /\ i # 1
    BY <1>3
  <2>2. QED
    BY <1>2, <1>3, <2>1 DEF Inv, Linked, OrderIsLive
<1>7. OrderIsLive' /\ NextLinked'
  <2>1. \A i \in 2..n :
          item'[order[i]] \in Item /\ item'[order[i]].next = item[order[i]].next
    BY <1>3, <1>5, <1>6
  <2>2. \A a \in Address \ Live : item'[a] = item[a]
    <3>1. current \in Live
      BY <1>2, <1>3, ItemNotFreed DEF Live
    <3>2. QED
      BY <1>5, <3>1
  <2>3. QED
    BY <1>1, <1>2, <1>5, <2>1, <2>2, TailLinked
<1>8. TypeOK'
  <2>1. item[current].value \in Value /\ item[current].next \in Address \cup {NULL}
    BY <1>2, <1>3 DEF Item
  <2>2. released' \in Seq(Value)
    BY <1>1, <2>1, AppendFacts DEF Inv, TypeOK
  <2>3. QED
    BY <1>1, <1>4, <1>5, <2>1, <2>2 DEF Inv, TypeOK
<1>9. EndsLinked'
  <2>1. current' = IF 1 < n THEN order[2] ELSE NULL
    BY <1>1, <1>2, <1>3 DEF Inv, Linked, NextLinked
  <2>2. CASE n = 1
    BY <1>1, <1>4, <2>1, <2>2, EmptySeq DEF EndsLinked, FirstOf
  <2>3. CASE n > 1
    <3>1. 1 \in 1..n - 1 /\ Len(order') # 0
      BY <1>3, <1>4, <2>3
    <3>2. order' # <<>>
      BY <3>1, EmptySeq
    <3>3. order'[1] = order[2]
      BY <1>4, <3>1
    <3>4. QED
      BY <1>1, <2>1, <2>3, <3>2, <3>3 DEF EndsLinked, FirstOf
  <2>4. n = 1 \/ n > 1
    <3>1. n \in Nat /\ n # 0
      BY <1>3
    <3> HIDE DEF n
    <3>2. QED
      BY <3>1
  <2>5. QED
    BY <2>2, <2>3, <2>4
<1>10. PrevLinked' /\ IteratorAtPosition'
  BY <1>1 DEF Inv, Linked, PrevLinked, IteratorAtPosition
<1>11. QED
  BY <1>7, <1>8, <1>9, <1>10 DEF Inv, Linked

LEMMA StutterInv == ASSUME Inv, UNCHANGED vars PROVE Inv'
<1>1. UNCHANGED <<deque, phase, current, call, returned, ite, released, order>>
  BY DEF vars
<1>2. TypeOK'
  BY <1>1 DEF Inv, TypeOK, deque
<1>3. IteratorAtPosition'
  BY <1>1 DEF Inv, Linked, IteratorAtPosition, deque
<1>4. QED
  BY <1>1, <1>2, <1>3, ListUnchanged DEF Inv
-----------------------------------------------------------------------------
(* The invariant *)

\* Every step of the list, of an iterator or of the destruction keeps it.
LEMMA StepInv == Inv /\ [Next]_vars => Inv'
<1> SUFFICES ASSUME Inv, [Next]_vars PROVE Inv'
  OBVIOUS
<1>1. CASE deque_init
  BY <1>1, InitDequeInv
<1>2. CASE PushFails
  BY <1>2, PushFailsInv
<1>3. CASE Push
  BY <1>3, PushFirstInv, PushBackInv, PushFrontInv DEF Push
<1>4. CASE Pop
  BY <1>4, PopEmptyInv, PopOnlyInv, PopBackInv, PopFrontInv DEF Pop
<1>5. CASE deque_front \/ deque_back
  BY <1>5, ReadInv
<1>6. CASE Iterate
  BY <1>6, IterateInv
<1>7. CASE deque_destroy
  BY <1>7, DestroyInv
<1>8. CASE DestroyStep
  BY <1>8, FreeItemInv, FreeDequeInv DEF DestroyStep
<1>9. CASE UNCHANGED vars
  BY <1>9, StutterInv
<1>10. QED
  BY <1>1, <1>2, <1>3, <1>4, <1>5, <1>6, <1>7, <1>8, <1>9 DEF Next

LEMMA InvAlways == Spec => []Inv
<1>1. Init => Inv
  BY InitInv
<1>2. Inv /\ [Next]_vars => Inv'
  BY StepInv
<1>3. QED
  BY <1>1, <1>2, PTL DEF Spec, Safety

\* All variables keep their types; no operation returns what a freed item holds.
THEOREM TypeCorrect == Spec => []TypeOK
<1>1. Inv => TypeOK
  BY DEF Inv
<1>2. QED
  BY <1>1, InvAlways, PTL

\* The links, first, last, size and the iterators always describe one list.
THEOREM ListLinked == Spec => []Linked
<1>1. Inv => Linked
  BY DEF Inv
<1>2. QED
  BY <1>1, InvAlways, PTL

-----------------------------------------------------------------------------
(* The elements of the list *)

\* One element for each item of the list, in its order.
Elements ==
  /\ order \in Seq(Address) /\ Len(order) \in Nat
  /\ \A i \in 1..Len(order) : order[i] \in Address /\ item[order[i]].value \in Value
  /\ Contents \in Seq(Value)
  /\ Len(Contents) = Len(order)
  /\ \A i \in 1..Len(order) : Contents[i] = item[order[i]].value

LEMMA ContentsFacts == Inv => Elements
<1> SUFFICES ASSUME Inv PROVE Elements
  OBVIOUS
<1>1. /\ order \in Seq(Address) /\ Len(order) \in Nat
      /\ \A i \in 1..Len(order) : order[i] \in Address /\ item[order[i]] \in Item
  BY ListFacts DEF Inv, Linked
<1>2. \A i \in 1..Len(order) : item[order[i]].value \in Value
  BY <1>1 DEF Item
<1>3. Contents \in [1..Len(order) -> Value]
  BY <1>2 DEF Contents
<1>4. Contents \in Seq(Value) /\ Len(Contents) = Len(order)
  BY <1>1, <1>3
<1>5. \A i \in 1..Len(order) : Contents[i] = item[order[i]].value
  BY DEF Contents
<1>6. QED
  BY <1>1, <1>2, <1>4, <1>5 DEF Elements

\* The same in the next state.
LEMMA ContentsFactsNext == Inv' => Elements'
BY ContentsFacts, PTL

LEMMA ContentsEmpty ==
  ASSUME Inv
  PROVE  Contents = <<>> <=> order = <<>>
<1>1. Contents \in Seq(Value) /\ order \in Seq(Address) /\ Len(Contents) = Len(order)
  BY ContentsFacts DEF Elements
<1>2. QED
  BY <1>1, EmptySeq

\* What an operation that changes the order of the items does to the elements, if the
\* items that stay keep their values.
LEMMA ContentsAppend ==
  ASSUME Inv, Inv', NEW node \in Address, NEW v \in Value,
         order' = Append(order, node),
         item'[node].value = v,
         \A i \in 1..Len(order) : item'[order[i]].value = item[order[i]].value
  PROVE  Contents' = Append(Contents, v)
<1> DEFINE n == Len(order)
<1>1. /\ n \in Nat /\ order \in Seq(Address)
      /\ Contents \in Seq(Value) /\ Len(Contents) = n
      /\ \A i \in 1..n : Contents[i] = item[order[i]].value
  BY ContentsFacts DEF Elements
<1>2. /\ Len(order') = n + 1 /\ order'[n + 1] = node
      /\ \A i \in 1..n : order'[i] = order[i]
  BY <1>1, AppendFacts
<1>3. /\ Contents' \in Seq(Value) /\ Len(Contents') = n + 1
      /\ \A i \in 1..n + 1 : Contents'[i] = item'[order'[i]].value
  BY <1>2, ContentsFactsNext DEF Elements
<1> DEFINE after == Append(Contents, v)
<1>4. /\ after \in Seq(Value) /\ Len(after) = n + 1 /\ after[n + 1] = v
      /\ \A i \in 1..n : after[i] = Contents[i]
  BY <1>1, AppendFacts
<1> HIDE DEF after
<1>5. ASSUME NEW i \in 1..n + 1
      PROVE  Contents'[i] = after[i]
  <2>1. CASE i = n + 1
    BY <1>2, <1>3, <1>4, <2>1
  <2>2. CASE i # n + 1
    <3>1. i \in 1..n
      BY <1>1, <2>2
    <3>2. after[i] = item[order[i]].value
      BY <1>1, <1>4, <3>1
    <3>3. Contents'[i] = item'[order[i]].value
      BY <1>2, <1>3, <3>1
    <3>4. QED
      BY <3>1, <3>2, <3>3
  <2>3. QED
    BY <2>1, <2>2
<1>6. Contents' = after
  BY <1>3, <1>4, <1>5, SeqEqual
<1>7. QED
  BY <1>6 DEF after

LEMMA ContentsCons ==
  ASSUME Inv, Inv', NEW node \in Address, NEW v \in Value,
         order' = <<node>> \o order,
         item'[node].value = v,
         \A i \in 1..Len(order) : item'[order[i]].value = item[order[i]].value
  PROVE  Contents' = <<v>> \o Contents
<1> DEFINE n == Len(order)
<1>1. /\ n \in Nat /\ order \in Seq(Address)
      /\ Contents \in Seq(Value) /\ Len(Contents) = n
      /\ \A i \in 1..n : Contents[i] = item[order[i]].value
  BY ContentsFacts DEF Elements
<1>2. /\ Len(order') = n + 1 /\ order'[1] = node
      /\ \A i \in 2..n + 1 : order'[i] = order[i - 1]
  BY <1>1, ConsFacts
<1>3. /\ Contents' \in Seq(Value) /\ Len(Contents') = n + 1
      /\ \A i \in 1..n + 1 : Contents'[i] = item'[order'[i]].value
  BY <1>2, ContentsFactsNext DEF Elements
<1> DEFINE after == <<v>> \o Contents
<1>4. /\ after \in Seq(Value) /\ Len(after) = n + 1 /\ after[1] = v
      /\ \A i \in 2..n + 1 : after[i] = Contents[i - 1]
  BY <1>1, ConsFacts
<1> HIDE DEF after
<1>5. ASSUME NEW i \in 1..n + 1
      PROVE  Contents'[i] = after[i]
  <2>1. CASE i = 1
    BY <1>2, <1>3, <1>4, <2>1
  <2>2. CASE i # 1
    <3>1. i \in 2..n + 1 /\ i - 1 \in 1..n
      BY <1>1, <2>2
    <3>2. QED
      BY <1>1, <1>2, <1>3, <1>4, <3>1
  <2>3. QED
    BY <2>1, <2>2
<1>6. Contents' = after
  BY <1>3, <1>4, <1>5, SeqEqual
<1>7. QED
  BY <1>6 DEF after

LEMMA ContentsTail ==
  ASSUME Inv, Inv', order # <<>>, order' = Tail(order),
         \A i \in 2..Len(order) : item'[order[i]].value = item[order[i]].value
  PROVE  /\ Contents # <<>>
         /\ Head(Contents) = item[order[1]].value
         /\ Contents' = Tail(Contents)
<1> DEFINE n == Len(order)
           after == Tail(Contents)
<1>1. /\ order \in Seq(Address)
      /\ Contents \in Seq(Value) /\ Len(Contents) = n /\ Contents # <<>>
      /\ \A i \in 1..n : Contents[i] = item[order[i]].value
  BY ContentsFacts, ContentsEmpty DEF Elements
<1>2. /\ n \in Nat \ {0} /\ Len(order') = n - 1
      /\ \A i \in 1..n - 1 : order'[i] = order[i + 1]
  BY <1>1, TailFacts
<1>3. /\ Contents' \in Seq(Value) /\ Len(Contents') = n - 1
      /\ \A i \in 1..n - 1 : Contents'[i] = item'[order'[i]].value
  BY <1>2, ContentsFactsNext DEF Elements
<1>4. /\ after \in Seq(Value) /\ Len(after) = n - 1 /\ Head(Contents) = Contents[1]
      /\ \A i \in 1..n - 1 : after[i] = Contents[i + 1]
  BY <1>1, TailFacts
<1> HIDE DEF after
<1>5. ASSUME NEW i \in 1..n - 1
      PROVE  Contents'[i] = after[i]
  <2>1. i + 1 \in 2..n /\ i + 1 \in 1..n
    BY <1>2
  <2>2. Contents'[i] = item'[order[i + 1]].value
    BY <1>2, <1>3
  <2>3. after[i] = item[order[i + 1]].value
    BY <1>1, <1>4, <2>1
  <2>4. QED
    BY <2>1, <2>2, <2>3
<1>6. Contents' = after
  BY <1>3, <1>4, <1>5, SeqEqual
<1>7. Head(Contents) = item[order[1]].value
  <2>1. 1 \in 1..n
    BY <1>2
  <2>2. QED
    BY <1>1, <1>4, <2>1
<1>8. QED
  BY <1>1, <1>6, <1>7 DEF after

LEMMA ContentsFront ==
  ASSUME Inv, Inv', order # <<>>, order' = SubSeq(order, 1, Len(order) - 1),
         \A i \in 1..Len(order) - 1 : item'[order[i]].value = item[order[i]].value
  PROVE  /\ Contents # <<>>
         /\ Contents[Len(Contents)] = item[order[Len(order)]].value
         /\ Contents' = SubSeq(Contents, 1, Len(Contents) - 1)
<1> DEFINE n == Len(order)
           after == SubSeq(Contents, 1, Len(Contents) - 1)
<1>1. /\ order \in Seq(Address)
      /\ Contents \in Seq(Value) /\ Len(Contents) = n /\ Contents # <<>>
      /\ \A i \in 1..n : Contents[i] = item[order[i]].value
  BY ContentsFacts, ContentsEmpty DEF Elements
<1>2. /\ n \in Nat \ {0} /\ Len(order') = n - 1
      /\ \A i \in 1..n - 1 : order'[i] = order[i]
  BY <1>1, FrontFacts
<1>3. /\ Contents' \in Seq(Value) /\ Len(Contents') = n - 1
      /\ \A i \in 1..n - 1 : Contents'[i] = item'[order'[i]].value
  BY <1>2, ContentsFactsNext DEF Elements
<1>4. /\ after \in Seq(Value) /\ Len(after) = n - 1
      /\ \A i \in 1..n - 1 : after[i] = Contents[i]
  BY <1>1, FrontFacts
<1> HIDE DEF after
<1>5. ASSUME NEW i \in 1..n - 1
      PROVE  Contents'[i] = after[i]
  <2>1. i \in 1..n
    BY <1>2
  <2>2. after[i] = item[order[i]].value
    BY <1>1, <1>4, <2>1
  <2>3. Contents'[i] = item'[order[i]].value
    BY <1>2, <1>3, <2>1
  <2>4. QED
    BY <1>1, <2>1, <2>2, <2>3
<1>6. Contents' = after
  BY <1>3, <1>4, <1>5, SeqEqual
<1>7. Contents[Len(Contents)] = item[order[n]].value
  <2>1. n \in 1..n
    BY <1>2
  <2>2. QED
    BY <1>1, <2>1
<1>8. QED
  BY <1>1, <1>6, <1>7 DEF after
-----------------------------------------------------------------------------
(* Each operation is one of the sequence *)

LEMMA ContentsSame ==
  ASSUME UNCHANGED <<item, order>>
  PROVE  Contents' = Contents
BY DEF Contents

LEMMA InitMaps == Init => Abstract!Init
<1> SUFFICES ASSUME Init PROVE Abstract!Init
  OBVIOUS
<1>1. Contents \in Seq(Value) /\ Len(Contents) = 0
  <2>1. Inv
    BY InitInv
  <2>2. order = <<>> /\ Len(order) = 0
    BY DEF Init
  <2>3. QED
    BY <2>1, <2>2, ContentsFacts DEF Elements
<1>2. Contents = <<>>
  BY <1>1, EmptySeq
<1>3. ite.position = -2
  BY DEF Init, NoIterator
<1>4. QED
  BY <1>2, <1>3 DEF Init, Abstract!Init, Abstract!NoCursor

\* A client's change of the list, where the elements become what the sequence says.
LEMMA ChangeMaps ==
  ASSUME NEW name, NEW result, NEW after, Change(name, result), Contents' = after
  PROVE  Abstract!Change(name, result, after)
<1>1. ite'.position = -2
  BY DEF Change, NoIterator
<1>2. QED
  BY <1>1 DEF Change, Abstract!Change, Abstract!NoCursor

LEMMA InitDequeMaps ==
  ASSUME deque_init
  PROVE  Abstract!New
BY ContentsSame DEF deque_init, Abstract!New

LEMMA PushFailsMaps ==
  ASSUME PushFails
  PROVE  Abstract!PushFails
<1>1. Contents' = Contents
  BY ContentsSame DEF PushFails, deque
<1>2. PICK name \in {"push_back", "push_front"} : Change(name, FALSE)
  BY DEF PushFails
<1>3. QED
  BY <1>1, <1>2, ChangeMaps DEF Abstract!PushFails

LEMMA PushFirstMaps ==
  ASSUME Inv, Inv', NEW node \in Address \ Live, NEW v \in Value, PushFirst(node, v)
  PROVE  Abstract!PushBack(v) \/ Abstract!PushFront(v)
<1>1. PICK name \in {"push_back", "push_front"} : Change(name, TRUE)
  BY DEF PushFirst
<1>2. order = <<>>
  BY <1>1, EndFacts DEF PushFirst, Change
<1>3. Contents = <<>>
  BY <1>2, ContentsEmpty
<1>4. item'[node].value = v
  <2>1. item \in [Address -> Item \cup {FreedItem}]
    BY DEF Inv, TypeOK
  <2>2. QED
    BY <2>1 DEF PushFirst, Node
<1>5. order' = Append(order, node)
  BY DEF PushFirst
<1>6. \A i \in 1..Len(order) : item'[order[i]].value = item[order[i]].value
  BY <1>2
<1>7. Contents' = Append(Contents, v)
  BY <1>4, <1>5, <1>6, ContentsAppend
<1>8. Contents' = <<v>> \o Contents
  BY <1>3, <1>7
<1>9. CASE name = "push_back"
  BY <1>1, <1>7, <1>9, ChangeMaps DEF Abstract!PushBack
<1>10. CASE name = "push_front"
  BY <1>1, <1>8, <1>10, ChangeMaps DEF Abstract!PushFront
<1>11. QED
  BY <1>1, <1>9, <1>10

LEMMA PushBackMaps ==
  ASSUME Inv, Inv', NEW node \in Address \ Live, NEW v \in Value, deque_push_back(node, v)
  PROVE  Abstract!PushBack(v)
<1>1. /\ item \in [Address -> Item \cup {FreedItem}]
      /\ \A i \in 1..Len(order) :
           order[i] \in Address /\ order[i] # node /\ item[order[i]] \in Item
  BY ListFacts DEF Inv, Linked, TypeOK
<1>2. phase = "live" /\ size # 0
  BY DEF deque_push_back, Change
<1>3. last \in Address /\ last # node
  <2>1. size = Len(order) /\ last = order[size] /\ Len(order) \in Nat
    BY <1>2, EndFacts, ListFacts DEF Inv, Linked
  <2>2. Len(order) \in 1..Len(order)
    BY <1>2, <2>1
  <2>3. QED
    BY <1>1, <2>1, <2>2
<1>4. item' = [item EXCEPT ![node] = Node(v, NULL, last), ![last].next = node]
  BY DEF deque_push_back
<1>5. item'[node].value = v
  BY <1>1, <1>3, <1>4 DEF Node
<1>6. ASSUME NEW i \in 1..Len(order)
      PROVE  item'[order[i]].value = item[order[i]].value
  BY <1>1, <1>3, <1>4 DEF Item
<1>7. Contents' = Append(Contents, v)
  BY <1>5, <1>6, ContentsAppend DEF deque_push_back
<1>8. QED
  BY <1>7, ChangeMaps DEF deque_push_back, Abstract!PushBack

LEMMA PushFrontMaps ==
  ASSUME Inv, Inv', NEW node \in Address \ Live, NEW v \in Value, deque_push_front(node, v)
  PROVE  Abstract!PushFront(v)
<1>1. /\ item \in [Address -> Item \cup {FreedItem}]
      /\ \A i \in 1..Len(order) :
           order[i] \in Address /\ order[i] # node /\ item[order[i]] \in Item
  BY ListFacts DEF Inv, Linked, TypeOK
<1>2. phase = "live" /\ size # 0
  BY DEF deque_push_front, Change
<1>3. first \in Address /\ first # node
  <2>1. size = Len(order) /\ first = order[1] /\ Len(order) \in Nat
    BY <1>2, EndFacts, ListFacts DEF Inv, Linked
  <2>2. 1 \in 1..Len(order)
    BY <1>2, <2>1
  <2>3. QED
    BY <1>1, <2>1, <2>2
<1>4. item' = [item EXCEPT ![node] = Node(v, first, NULL), ![first].prev = node]
  BY DEF deque_push_front
<1>5. item'[node].value = v
  BY <1>1, <1>3, <1>4 DEF Node
<1>6. ASSUME NEW i \in 1..Len(order)
      PROVE  item'[order[i]].value = item[order[i]].value
  BY <1>1, <1>3, <1>4 DEF Item
<1>7. Contents' = <<v>> \o Contents
  BY <1>5, <1>6, ContentsCons DEF deque_push_front
<1>8. QED
  BY <1>7, ChangeMaps DEF deque_push_front, Abstract!PushFront

LEMMA PopEmptyMaps ==
  ASSUME Inv, PopEmpty
  PROVE  Abstract!PopBack \/ Abstract!PopFront
<1>1. PICK name \in {"pop_back", "pop_front"} : Change(name, NULL)
  BY DEF PopEmpty
<1>2. order = <<>>
  BY <1>1, EndFacts DEF PopEmpty, Change
<1>3. Contents = <<>> /\ Contents' = <<>>
  <2>1. Contents = <<>>
    BY <1>2, ContentsEmpty
  <2>2. Contents' = Contents
    BY ContentsSame DEF PopEmpty, deque
  <2>3. QED
    BY <2>1, <2>2
<1>4. Abstract!Change(name, NULL, <<>>)
  BY <1>1, <1>3, ChangeMaps
<1>5. QED
  BY <1>1, <1>3, <1>4 DEF Abstract!PopBack, Abstract!PopFront

LEMMA PopOnlyMaps ==
  ASSUME Inv, Inv', PopOnly
  PROVE  Abstract!PopBack \/ Abstract!PopFront
<1>1. phase = "live" /\ size = 1
  BY DEF PopOnly, Change
<1>2. /\ order # <<>> /\ first = order[1] /\ last = order[1]
      /\ order \in Seq(Address) /\ Len(order) = 1
  BY <1>1, EndFacts, ListFacts DEF Inv, Linked
<1>3. order' = Tail(order) /\ order' = SubSeq(order, 1, Len(order) - 1)
  <2>1. order' = <<>>
    BY DEF PopOnly
  <2>2. Len(Tail(order)) = 0 /\ Tail(order) \in Seq(Address)
    BY <1>2, TailFacts
  <2>3. /\ Len(SubSeq(order, 1, Len(order) - 1)) = 0
        /\ SubSeq(order, 1, Len(order) - 1) \in Seq(Address)
    BY <1>2, FrontFacts
  <2>4. Tail(order) = <<>>
    BY <2>2, EmptySeq
  <2>5. SubSeq(order, 1, Len(order) - 1) = <<>>
    BY <2>3, EmptySeq
  <2>6. QED
    BY <2>1, <2>4, <2>5
<1>4. CASE Change("pop_back", item[last].value)
  <2>1. /\ Contents # <<>> /\ Contents[Len(Contents)] = item[order[Len(order)]].value
        /\ Contents' = SubSeq(Contents, 1, Len(Contents) - 1)
    BY <1>2, <1>3, ContentsFront
  <2>2. Abstract!Change("pop_back", Contents[Len(Contents)],
                        SubSeq(Contents, 1, Len(Contents) - 1))
    BY <1>2, <1>4, <2>1, ChangeMaps
  <2>3. QED
    BY <2>1, <2>2 DEF Abstract!PopBack
<1>5. CASE Change("pop_front", item[first].value)
  <2>1. /\ Contents # <<>> /\ Head(Contents) = item[order[1]].value
        /\ Contents' = Tail(Contents)
    BY <1>2, <1>3, ContentsTail
  <2>2. Abstract!Change("pop_front", Head(Contents), Tail(Contents))
    BY <1>2, <1>5, <2>1, ChangeMaps
  <2>3. QED
    BY <2>1, <2>2 DEF Abstract!PopFront
<1>6. QED
  BY <1>4, <1>5 DEF PopOnly

LEMMA PopBackMaps ==
  ASSUME Inv, Inv', deque_pop_back
  PROVE  Abstract!PopBack
<1> DEFINE n == Len(order)
           prev == item[last].prev
<1>1. phase = "live" /\ size > 1
  BY DEF deque_pop_back, Change
<1>2. /\ item \in [Address -> Item \cup {FreedItem}]
      /\ order # <<>> /\ n \in Nat /\ n > 1 /\ last = order[n]
      /\ \A i \in 1..n : order[i] \in Address /\ item[order[i]] \in Item
  BY <1>1, EndFacts, ListFacts DEF Inv, Linked, TypeOK
<1>3. prev = order[n - 1]
  <2>1. n \in 1..n
    BY <1>2
  <2>2. QED
    BY <1>1, <1>2, <2>1 DEF Inv, Linked, PrevLinked
<1>4. item' = [item EXCEPT ![prev].next = NULL, ![last] = FreedItem]
  BY DEF deque_pop_back
<1>5. ASSUME NEW i \in 1..n - 1
      PROVE  item'[order[i]].value = item[order[i]].value
  <2>1. i \in 1..n /\ n \in 1..n /\ i # n
    BY <1>2
  <2>2. order[i] # last
    BY <1>2, <2>1 DEF Inv, Linked, OrderIsLive
  <2>3. order[i] \in Address /\ item[order[i]] \in Item
    BY <1>2, <2>1
  <2>4. QED
    BY <1>2, <1>4, <2>2, <2>3 DEF Item
<1>6. /\ Contents # <<>> /\ Contents[Len(Contents)] = item[last].value
      /\ Contents' = SubSeq(Contents, 1, Len(Contents) - 1)
  BY <1>2, <1>5, ContentsFront DEF deque_pop_back
<1>7. Abstract!Change("pop_back", Contents[Len(Contents)],
                      SubSeq(Contents, 1, Len(Contents) - 1))
  BY <1>6, ChangeMaps DEF deque_pop_back
<1>8. QED
  BY <1>6, <1>7 DEF Abstract!PopBack

LEMMA PopFrontMaps ==
  ASSUME Inv, Inv', deque_pop_front
  PROVE  Abstract!PopFront
<1> DEFINE n == Len(order)
           next == item[first].next
<1>1. phase = "live" /\ size > 1
  BY DEF deque_pop_front, Change
<1>2. /\ item \in [Address -> Item \cup {FreedItem}]
      /\ order # <<>> /\ n \in Nat /\ n > 1 /\ first = order[1]
      /\ \A i \in 1..n : order[i] \in Address /\ item[order[i]] \in Item
  BY <1>1, EndFacts, ListFacts DEF Inv, Linked, TypeOK
<1>3. item' = [item EXCEPT ![next].prev = NULL, ![first] = FreedItem]
  BY DEF deque_pop_front
<1>4. ASSUME NEW i \in 2..n
      PROVE  item'[order[i]].value = item[order[i]].value
  <2>1. i \in 1..n /\ 1 \in 1..n /\ i # 1
    BY <1>2
  <2>2. order[i] # first
    BY <1>2, <2>1 DEF Inv, Linked, OrderIsLive
  <2>3. order[i] \in Address /\ item[order[i]] \in Item
    BY <1>2, <2>1
  <2>4. QED
    BY <1>2, <1>3, <2>2, <2>3 DEF Item
<1>5. /\ Contents # <<>> /\ Head(Contents) = item[first].value
      /\ Contents' = Tail(Contents)
  BY <1>2, <1>4, ContentsTail DEF deque_pop_front
<1>6. Abstract!Change("pop_front", Head(Contents), Tail(Contents))
  BY <1>5, ChangeMaps DEF deque_pop_front
<1>7. QED
  BY <1>5, <1>6 DEF Abstract!PopFront

LEMMA ReadMaps ==
  ASSUME Inv, deque_front \/ deque_back
  PROVE  Abstract!Front \/ Abstract!Back
<1> DEFINE n == Len(order)
<1>1. phase = "live" /\ Contents' = Contents
  BY ContentsSame DEF deque_front, deque_back, Read, deque
<1>2. CASE order = <<>>
  <2>1. first = NULL /\ last = NULL /\ Contents = <<>>
    BY <1>1, <1>2, ContentsEmpty DEF Inv, Linked, EndsLinked, FirstOf, LastOf
  <2>2. QED
    BY <1>1, <2>1 DEF deque_front, deque_back, Read, deque,
                      Abstract!Front, Abstract!Back, Abstract!Read
<1>3. CASE order # <<>>
  <2>1. /\ n \in Nat /\ n # 0 /\ \A i \in 1..n : order[i] # NULL
        /\ first = order[1] /\ last = order[n]
    BY <1>1, <1>3, EndFacts, ListFacts DEF Inv, Linked
  <2>2. 1 \in 1..n /\ n \in 1..n
    BY <2>1
  <2>3. /\ Contents # <<>>
        /\ Contents[1] = item[first].value /\ Contents[Len(Contents)] = item[last].value
    BY <1>3, <2>1, <2>2, ContentsEmpty, ContentsFacts DEF Elements
  <2>4. first # NULL /\ last # NULL
    BY <2>1, <2>2
  <2>5. QED
    BY <1>1, <2>3, <2>4 DEF deque_front, deque_back, Read, deque,
                            Abstract!Front, Abstract!Back, Abstract!Read
<1>4. QED
  BY <1>2, <1>3

LEMMA MoveMaps ==
  ASSUME NEW name, NEW element, NEW position, Move(name, element, position)
  PROVE  Abstract!Move(name, position)
<1>1. Contents' = Contents
  BY ContentsSame DEF Move, deque
<1>2. QED
  BY <1>1 DEF Move, Abstract!Move

LEMMA IterateMaps ==
  ASSUME Inv, Iterate
  PROVE  Abstract!ReadCursor \/ Abstract!MoveCursor \/ StaysAtFirst
<1>1. phase = "live"
  BY DEF Iterate, deque_begin, deque_rbegin, deque_iterator_value, iterator_next, iterator_prev,
         Move, Read
<1>2. size = Len(order) /\ Len(Contents) = Len(order) /\ Len(order) \in Nat
  BY <1>1, EndFacts, ContentsFacts DEF Elements
<1>3. CASE deque_begin
  BY <1>3, MoveMaps DEF deque_begin, Abstract!MoveCursor
<1>4. CASE deque_rbegin
  <2>1. Abstract!Move("rbegin", Len(Contents) - 1)
    BY <1>2, <1>4, MoveMaps DEF deque_rbegin
  <2>2. QED
    BY <2>1 DEF Abstract!MoveCursor
<1>5. CASE deque_iterator_value
  <2>1. ite.position \in 0..Len(order) - 1
    BY <1>2, <1>5 DEF deque_iterator_value, AtElement
  <2>2. ite # NoIterator
    BY <1>2, <2>1 DEF NoIterator
  <2>3. ite.current_element = order[ite.position + 1]
    BY <2>1, <2>2 DEF Inv, Linked, IteratorAtPosition
  <2>4. Contents[ite.position + 1] = item[ite.current_element].value
    <3>1. ite.position + 1 \in 1..Len(order)
      BY <1>2, <2>1
    <3>2. QED
      BY <2>3, <3>1, ContentsFacts DEF Elements
  <2>5. Contents' = Contents
    BY <1>5, ContentsSame DEF deque_iterator_value, Read, deque
  <2>6. Abstract!AtElement
    BY <1>2, <2>1 DEF Abstract!AtElement
  <2>7. Abstract!Read("value", Contents[ite.position + 1])
    BY <1>5, <2>4, <2>5 DEF deque_iterator_value, Read, Abstract!Read
  <2>8. QED
    BY <2>6, <2>7 DEF Abstract!ReadCursor
<1>6. CASE iterator_next
  <2>1. Abstract!AtElement
    BY <1>2, <1>6 DEF iterator_next, AtElement, Abstract!AtElement
  <2>2. Abstract!Move("next", ite.position + 1)
    BY <1>6, MoveMaps DEF iterator_next
  <2>3. QED
    BY <2>1, <2>2 DEF Abstract!MoveCursor
<1>7. CASE iterator_prev
  <2>1. Abstract!AtElement /\ ite.position \in Nat
    BY <1>2, <1>7 DEF iterator_prev, AtElement, Abstract!AtElement
  <2>2. CASE ite.position < 1
    <3>1. Abstract!Move("prev", ite.position)
      BY <1>7, <2>2, MoveMaps DEF iterator_prev
    <3>2. ite.position = 0
      BY <2>1, <2>2
    <3>3. QED
      BY <2>1, <3>1, <3>2 DEF StaysAtFirst
  <2>3. CASE ~ (ite.position < 1)
    <3>1. Abstract!Move("prev", ite.position - 1)
      BY <1>7, <2>3, MoveMaps DEF iterator_prev
    <3>2. ite.position # 0
      BY <2>3
    <3>3. QED
      BY <2>1, <3>1, <3>2 DEF Abstract!MoveCursor
  <2>4. QED
    BY <2>2, <2>3
<1>8. QED
  BY <1>3, <1>4, <1>5, <1>6, <1>7 DEF Iterate

LEMMA DestroyMaps ==
  ASSUME deque_destroy
  PROVE  Abstract!Destroy
<1>1. Contents' = Contents /\ ite'.position = -2
  BY ContentsSame DEF deque_destroy, deque, NoIterator
<1>2. QED
  BY <1>1 DEF deque_destroy, Abstract!Destroy, Abstract!NoCursor

\* Freeing the structure of the list is the last step of the release.
LEMMA FreeMaps ==
  ASSUME Inv, Inv', DestroyStep
  PROVE  Abstract!Release
<1> DEFINE n == Len(order)
<1>1. phase = "destroying" /\ current = FirstOf(order)
  BY DEF DestroyStep, FreeItem, FreeDeque, Inv, Linked, EndsLinked
<1>2. /\ item \in [Address -> Item \cup {FreedItem}] /\ n \in Nat
      /\ \A i \in 1..n :
           order[i] \in Address /\ order[i] # NULL /\ item[order[i]] \in Item
      /\ order \in Seq(Address) /\ (order = <<>> <=> n = 0)
  BY ListFacts, EmptySeq DEF Inv, Linked, TypeOK
<1>3. CASE FreeItem
  <2>1. order # <<>> /\ current = order[1]
    BY <1>1, <1>3 DEF FreeItem, FirstOf
  <2>2. item' = [item EXCEPT ![current] = FreedItem]
    BY <1>3 DEF FreeItem
  <2>3. ASSUME NEW i \in 2..n
        PROVE  item'[order[i]].value = item[order[i]].value
    <3>1. i \in 1..n /\ 1 \in 1..n /\ i # 1
      BY <1>2
    <3>2. order[i] # current
      BY <2>1, <3>1 DEF Inv, Linked, OrderIsLive
    <3>3. QED
      BY <1>2, <2>2, <3>1, <3>2
  <2>4. /\ Contents # <<>> /\ Head(Contents) = item[current].value
        /\ Contents' = Tail(Contents)
    BY <1>3, <2>1, <2>3, ContentsTail DEF FreeItem
  <2>5. QED
    BY <1>3, <2>4 DEF FreeItem, Abstract!Release
<1>4. CASE FreeDeque
  <2>1. order = <<>>
    <3>1. SUFFICES ASSUME order # <<>> PROVE FALSE
      OBVIOUS
    <3>2. order[1] = NULL
      BY <1>1, <1>4, <3>1 DEF FreeDeque, FirstOf
    <3>3. 1 \in 1..n
      BY <1>2, <3>1
    <3>4. QED
      BY <1>2, <3>2, <3>3
  <2>2. Contents = <<>> /\ Contents' = Contents
    BY <1>4, <2>1, ContentsEmpty, ContentsSame DEF FreeDeque, deque
  <2>3. QED
    BY <1>4, <2>2 DEF FreeDeque, Abstract!Release
<1>5. QED
  BY <1>3, <1>4 DEF DestroyStep
-----------------------------------------------------------------------------
(* The refinement *)

\* Every step of the list is a step of the sequence, keeps an iterator at the first
\* element, or is none.
LEMMA StepMaps ==
  Inv /\ Inv' /\ [Next]_vars => [Abstract!Next \/ StaysAtFirst]_(Abstract!vars)
<1> SUFFICES ASSUME Inv, Inv', [Next]_vars
             PROVE  Abstract!Next \/ StaysAtFirst \/ UNCHANGED Abstract!vars
  OBVIOUS
<1>1. CASE deque_init
  BY <1>1, InitDequeMaps DEF Abstract!Next
<1>2. CASE PushFails
  BY <1>2, PushFailsMaps DEF Abstract!Next
<1>3. CASE Push
  BY <1>3, PushFirstMaps, PushBackMaps, PushFrontMaps DEF Push, Abstract!Next
<1>4. CASE Pop
  BY <1>4, PopEmptyMaps, PopOnlyMaps, PopBackMaps, PopFrontMaps DEF Pop, Abstract!Next
<1>5. CASE deque_front \/ deque_back
  BY <1>5, ReadMaps DEF Abstract!Next
<1>6. CASE Iterate
  BY <1>6, IterateMaps DEF Abstract!Next
<1>7. CASE deque_destroy
  BY <1>7, DestroyMaps DEF Abstract!Next
<1>8. CASE DestroyStep
  BY <1>8, FreeMaps DEF Abstract!Next
<1>9. CASE UNCHANGED vars
  BY <1>9, ContentsSame DEF vars, deque, Abstract!vars
<1>10. QED
  BY <1>1, <1>2, <1>3, <1>4, <1>5, <1>6, <1>7, <1>8, <1>9 DEF Next

\* Whatever the heap and the elements: results, iterators and the release of the
\* elements are those of the collection of deque.h, but for an iterator that is moved
\* back from the first element.  (That the release ends is checked by TLC.)
THEOREM ListImplementsSequence == Spec => CollectionButRend
<1>1. Init => Abstract!Init
  BY InitMaps
<1>2. Inv /\ Inv' /\ [Next]_vars => [Abstract!Next \/ StaysAtFirst]_(Abstract!vars)
  BY StepMaps
<1>3. QED
  BY <1>1, <1>2, InvAlways, PTL DEF Spec, Safety, CollectionButRend
=============================================================================
