------------------------- MODULE SymbolTableProofs -------------------------
(***************************************************************************)
(* Theorems about SymbolTable for every heap, hash function and number of  *)
(* buckets: the chains stay sound whatever is put, deleted and freed, and  *)
(* the table is a map until the caller frees a key it holds.               *)
(*                                                                         *)
(* The invariant says that there are chains, a sequence for each bucket,   *)
(* and places every live item in them.  What the loops of symtable.c come  *)
(* to by following the pointers is shown to be these sequences.            *)
(***************************************************************************)
EXTENDS SymbolTable, FiniteSetTheorems, SequenceTheorems, WellFoundedInduction, TLAPS

\* The pointers follow these sequences, which hold every live item once.
Linked(c) ==
    /\ c \in [Bucket -> Seq(Address)]
    /\ \A i \in Bucket : hash_map[i] = IF c[i] = <<>> THEN NULL ELSE c[i][1]
    /\ \A i \in Bucket : \A k \in 1..Len(c[i]) :
          /\ c[i][k] \in Live
          /\ item[c[i][k]].ptrnext = IF k = Len(c[i]) THEN NULL ELSE c[i][k + 1]
    /\ \A a \in Live : \E i \in Bucket : \E k \in 1..Len(c[i]) : c[i][k] = a
    /\ \A i, j \in Bucket : \A k \in 1..Len(c[i]), l \in 1..Len(c[j]) :
          c[i][k] = c[j][l] => i = j /\ k = l

\* Strings of the caller hold names; items are in the bucket of a name of their own as
\* long as their keys are such strings.
NamesInv(c) ==
    /\ \A b \in Buffer : buffer[b].live => buffer[b].text \in Name
    /\ ~dangling =>
         /\ \A a \in Live : buffer[item[a].key].live
         /\ \A i \in Bucket : \A k \in 1..Len(c[i]) : hash_code[Text(c[i][k])] = i
         /\ \A a1, a2 \in Live : Text(a1) = Text(a2) => a1 = a2
         /\ ~doubleFree

Inv == TypeOK /\ \E c \in [Bucket -> Seq(Address)] : Linked(c) /\ NamesInv(c)
-----------------------------------------------------------------------------
(* The loops of symtable.c *)

\* Least numbers.
LEMMA Least ==
  ASSUME NEW S, S \subseteq Nat, S # {}
  PROVE  \E n \in S : \A m \in S : n <= m
<1>1. \E n \in S : \A m \in S : ~(<<m, n>> \in OpToRel(<, Nat))
  BY NatLessThanWellFounded, WFMin, Zenon
<1>2. \A m, n \in S : ~(<<m, n>> \in OpToRel(<, Nat)) => n <= m
  BY DEF OpToRel
<1>3. QED
  BY <1>1, <1>2

\* A loop comes to the items of the bucket's sequence.
LEMMA WalkFollows ==
  ASSUME TypeOK, NEW c, Linked(c), NEW i \in Bucket
  PROVE  /\ Len(c[i]) <= Cardinality(Address)
         /\ \A n \in 1..Cardinality(Address) :
              Walk(i)[n] = IF n <= Len(c[i]) THEN c[i][n] ELSE NULL
<1> DEFINE N == Cardinality(Address)
           s == c[i]
           F == [n \in 1..N |-> IF n <= Len(s) THEN s[n] ELSE NULL]
           Round(at) == [n \in 1..N |->
             IF n = 1 THEN hash_map[i]
             ELSE IF at[n - 1] \in Address THEN item[at[n - 1]].ptrnext ELSE NULL]
<1>1. /\ N \in Nat /\ s \in Seq(Address) /\ NULL \notin Address
      /\ Len(s) \in Nat /\ \A k \in 1..Len(s) : s[k] \in Address
  BY FS_CardinalityType, SymbolTableAssumption DEF Linked
<1>2. Len(s) <= N
  <2>1. s \in Injection(1..Len(s), Address)
    <3>1. s \in [1..Len(s) -> Address]
      BY <1>1
    <3>2. \A k, l \in 1..Len(s) : s[k] = s[l] => k = l
      BY DEF Linked
    <3>3. QED
      BY <3>1, <3>2 DEF Injection, IsInjective
  <2>2. Cardinality(1..Len(s)) <= N
    BY <2>1, FS_Injection, SymbolTableAssumption
  <2>3. Cardinality(1..Len(s)) = Len(s)
    BY <1>1, FS_Interval
  <2>4. QED
    BY <2>2, <2>3
<1>3. Walk(i) = CHOOSE at : at = Round(at)
  BY DEF Walk
<1>4. /\ hash_map[i] = IF Len(s) >= 1 THEN s[1] ELSE NULL
      /\ \A k \in 1..Len(s) : item[s[k]].ptrnext = IF k + 1 <= Len(s) THEN s[k + 1] ELSE NULL
  BY <1>1 DEF Linked
<1> HIDE DEF N, s
<1>5. F = Round(F)
  <2>1. ASSUME NEW n \in 1..N
        PROVE  F[n] = IF n = 1 THEN hash_map[i]
                      ELSE IF F[n - 1] \in Address THEN item[F[n - 1]].ptrnext ELSE NULL
    <3>1. CASE n = 1
      BY <1>1, <1>4, <3>1
    <3>2. CASE n > 1
      <4>1. n - 1 \in 1..N /\ (n - 1) + 1 = n
        BY <1>1, <3>2
      <4>2. F[n - 1] = IF n - 1 <= Len(s) THEN s[n - 1] ELSE NULL
        BY <4>1
      <4>3. F[n] = IF n <= Len(s) THEN s[n] ELSE NULL
        OBVIOUS
      <4> HIDE DEF F
      <4>4. CASE n - 1 <= Len(s)
        <5>1. n - 1 \in 1..Len(s)
          BY <1>1, <4>1, <4>4
        <5>2. F[n - 1] \in Address
          BY <1>1, <4>2, <4>4, <5>1
        <5>3. item[F[n - 1]].ptrnext = IF n <= Len(s) THEN s[n] ELSE NULL
          BY <1>4, <4>1, <4>2, <4>4, <5>1
        <5>4. QED
          BY <3>2, <4>3, <5>2, <5>3
      <4>5. CASE ~(n - 1 <= Len(s))
        BY <1>1, <3>2, <4>1, <4>2, <4>3, <4>5
      <4>6. QED
        BY <4>4, <4>5
    <3>3. QED
      BY <1>1, <3>1, <3>2
  <2>2. QED
    BY <2>1
<1>6. Walk(i) = Round(Walk(i))
  BY <1>3, <1>5
<1>7. \A n \in 1..N : Walk(i)[n] = F[n]
  <2> DEFINE W == Walk(i)
             Wrong == {n \in 1..N : W[n] # F[n]}
  <2>1. \A n \in 1..N : W[n] = Round(W)[n] /\ F[n] = Round(F)[n]
    BY <1>5, <1>6
  <2> HIDE DEF F, W
  <2>2. SUFFICES ASSUME Wrong # {} PROVE FALSE
    BY DEF W
  <2>3. PICK n \in Wrong : \A m \in Wrong : n <= m
    <3>1. Wrong \subseteq Nat
      BY <1>1
    <3>2. QED
      BY <2>2, <3>1, Least
  <2>4. CASE n = 1
    BY <2>1, <2>3, <2>4
  <2>5. CASE n # 1
    <3>1. n - 1 \in 1..N /\ n - 1 \notin Wrong
      BY <1>1, <2>3, <2>5
    <3>2. W[n - 1] = F[n - 1]
      BY <3>1
    <3>3. QED
      BY <2>1, <2>3, <2>5, <3>2
  <2>6. QED
    BY <2>4, <2>5
<1>8. QED
  BY <1>2, <1>7 DEF N, s

\* The places are those of the sequences.
LEMMA PlacesAre ==
  ASSUME TypeOK, NEW c, Linked(c)
  PROVE  /\ \A i \in Bucket : \A k \in 1..Len(c[i]) : <<i, k>> \in Places
         /\ \A p \in Places : /\ p = <<p[1], p[2]>> /\ p[1] \in Bucket
                              /\ p[2] \in 1..Len(c[p[1]])
                              /\ At(p) = c[p[1]][p[2]] /\ At(p) \in Live
<1> DEFINE N == Cardinality(Address)
<1>1. N \in Nat /\ NULL \notin Address
  BY FS_CardinalityType, SymbolTableAssumption
<1>2. ASSUME NEW i \in Bucket
      PROVE  /\ Len(c[i]) \in Nat /\ Len(c[i]) <= N
             /\ \A n \in 1..N : At(<<i, n>>) = IF n <= Len(c[i]) THEN c[i][n] ELSE NULL
             /\ \A n \in 1..Len(c[i]) : c[i][n] \in Address /\ c[i][n] \in Live
  <2>1. Len(c[i]) \in Nat /\ \A n \in 1..Len(c[i]) : c[i][n] \in Address /\ c[i][n] \in Live
    BY DEF Linked
  <2>2. \A n : At(<<i, n>>) = Walk(i)[n]
    BY DEF At
  <2>3. QED
    BY <2>1, <2>2, WalkFollows
<1> HIDE DEF N
<1>3. Places = {p \in Bucket \X (1..N) : At(p) \in Address}
  BY DEF Places, N
<1>4. ASSUME NEW i \in Bucket, NEW k \in 1..Len(c[i])
      PROVE  <<i, k>> \in Places
  <2>1. k \in 1..N /\ At(<<i, k>>) \in Address
    BY <1>1, <1>2
  <2>2. QED
    BY <1>3, <2>1
<1>5. ASSUME NEW p \in Places
      PROVE  /\ p = <<p[1], p[2]>> /\ p[1] \in Bucket /\ p[2] \in 1..Len(c[p[1]])
             /\ At(p) = c[p[1]][p[2]] /\ At(p) \in Live
  <2>1. p \in Bucket \X (1..N) /\ At(p) \in Address
    BY <1>3
  <2>2. PICK i \in Bucket, k \in 1..N : p = <<i, k>>
    BY <2>1
  <2>3. p[1] = i /\ p[2] = k
    BY <2>2
  <2>4. k <= Len(c[i])
    BY <1>1, <1>2, <2>1, <2>2
  <2>5. k \in 1..Len(c[i])
    BY <1>1, <1>2, <2>4
  <2>6. QED
    BY <1>2, <2>2, <2>3, <2>4, <2>5
<1>6. QED
  BY <1>4, <1>5

LEMMA BucketDef == Bucket \subseteq Nat /\ BUCKET_SIZE \in Nat \ {0}
BY SymbolTableAssumption DEF Bucket

\* The loops find some place first.
LEMMA EarliestIn ==
  ASSUME NEW S, S # {}, \A p \in S : p = <<p[1], p[2]>> /\ p[1] \in Nat /\ p[2] \in Nat
  PROVE  Earliest(S) \in S
<1>1. PICK i \in {p[1] : p \in S} : \A j \in {p[1] : p \in S} : i <= j
  <2> DEFINE T == {p[1] : p \in S}
  <2>1. T \subseteq Nat /\ T # {}
    OBVIOUS
  <2> HIDE DEF T
  <2>2. \E n \in T : \A m \in T : n <= m
    BY <2>1, Least
  <2>3. QED
    BY <2>2 DEF T
<1>2. PICK k \in {p[2] : p \in {q \in S : q[1] = i}} :
        \A l \in {p[2] : p \in {q \in S : q[1] = i}} : k <= l
  <2> DEFINE T == {p[2] : p \in {q \in S : q[1] = i}}
  <2>1. T \subseteq Nat /\ T # {}
    BY <1>1
  <2> HIDE DEF T
  <2>2. \E n \in T : \A m \in T : n <= m
    BY <2>1, Least
  <2>3. QED
    BY <2>2 DEF T
<1>3. PICK p \in S : p[1] = i /\ p[2] = k
  BY <1>2
<1>4. \A q \in S : p[1] < q[1] \/ (p[1] = q[1] /\ p[2] <= q[2])
  <2>1. ASSUME NEW q \in S PROVE p[1] < q[1] \/ (p[1] = q[1] /\ p[2] <= q[2])
    <3>1. i <= q[1] /\ i \in Nat /\ q[1] \in Nat
      BY <1>1
    <3>2. CASE q[1] = i
      BY <1>2, <1>3, <3>2
    <3>3. CASE q[1] # i
      BY <1>3, <3>1, <3>3
    <3>4. QED
      BY <3>2, <3>3
  <2>2. QED
    BY <2>1
<1>5. QED
  BY <1>4 DEF Earliest

\* The search finds an item of the name if there is one.
LEMMA Search ==
  ASSUME TypeOK, NEW c, Linked(c), NEW name
  PROVE  IF Found(name) = {}
         THEN hash_search(name) = NULL /\ \A a \in Live : Text(a) # name
         ELSE LET p == Earliest(Found(name))
              IN /\ p \in Places /\ hash_search(name) = At(p) /\ At(p) # NULL
                 /\ At(p) \in Live /\ Text(At(p)) = name
<1>1. CASE Found(name) = {}
  <2>1. ASSUME NEW a \in Live PROVE Text(a) # name
    <3>1. PICK i \in Bucket : \E k \in 1..Len(c[i]) : c[i][k] = a
      BY DEF Linked
    <3>2. PICK k \in 1..Len(c[i]) : c[i][k] = a
      BY <3>1
    <3>3. <<i, k>> \in Places /\ At(<<i, k>>) = c[i][k]
      <4>1. <<i, k>> \in Places
        BY PlacesAre
      <4>2. At(<<i, k>>) = c[<<i, k>>[1]][<<i, k>>[2]]
        BY <4>1, PlacesAre
      <4>3. QED
        BY <4>1, <4>2
    <3>4. QED
      BY <1>1, <3>2, <3>3 DEF Found
  <2>2. QED
    BY <1>1, <2>1 DEF hash_search
<1>2. CASE Found(name) # {}
  <2>1. \A p \in Found(name) : p = <<p[1], p[2]>> /\ p[1] \in Nat /\ p[2] \in Nat
    <3>1. \A i \in Bucket : Len(c[i]) \in Nat
      BY DEF Linked
    <3>2. QED
      BY <3>1, PlacesAre, BucketDef DEF Found
  <2>2. Earliest(Found(name)) \in Found(name)
    BY <1>2, <2>1, EarliestIn
  <2> DEFINE p == Earliest(Found(name))
  <2>3. p \in Places /\ Text(At(p)) = name
    BY <2>2 DEF Found
  <2>4. At(p) \in Live /\ At(p) # NULL
    <3>1. At(p) \in Live
      BY <2>3, PlacesAre
    <3>2. QED
      BY <3>1, SymbolTableAssumption DEF Live
  <2>5. QED
    BY <1>2, <2>3, <2>4 DEF hash_search
<1>3. QED
  BY <1>1, <1>2

\* What the run checks follows from the invariant.
LEMMA InvChained == Inv => Chained
<1> SUFFICES ASSUME Inv PROVE Chained
  OBVIOUS
<1>1. PICK c \in [Bucket -> Seq(Address)] : Linked(c) /\ NamesInv(c)
  BY DEF Inv
<1>2. TypeOK
  BY DEF Inv
<1>3. \A p \in Places : /\ p = <<p[1], p[2]>> /\ p[1] \in Bucket
                        /\ p[2] \in 1..Len(c[p[1]])
                        /\ At(p) = c[p[1]][p[2]] /\ At(p) \in Live
  BY <1>1, <1>2, PlacesAre
<1>4. ASSUME NEW a \in Live PROVE \E p \in Places : At(p) = a
  <2>1. PICK i \in Bucket : \E k \in 1..Len(c[i]) : c[i][k] = a
    BY <1>1 DEF Linked
  <2>2. PICK k \in 1..Len(c[i]) : c[i][k] = a
    BY <2>1
  <2>3. <<i, k>> \in Places
    BY <1>1, <1>2, PlacesAre
  <2>4. At(<<i, k>>) = c[<<i, k>>[1]][<<i, k>>[2]]
    BY <1>3, <2>3
  <2>5. QED
    BY <2>2, <2>3, <2>4
<1>5. {At(p) : p \in Places} = Live
  BY <1>3, <1>4
<1>6. ASSUME NEW p \in Places, NEW q \in Places, At(p) = At(q) PROVE p = q
  <2>1. p[1] = q[1] /\ p[2] = q[2]
    BY <1>1, <1>3, <1>6 DEF Linked
  <2>2. p = <<p[1], p[2]>> /\ q = <<q[1], q[2]>>
    BY <1>3
  <2>3. QED
    BY <2>1, <2>2, Zenon
<1>7. ~dangling => /\ \A a \in Live : buffer[item[a].key].live
                   /\ \A p \in Places : hash_code[Text(At(p))] = p[1]
                   /\ \A a1, a2 \in Live : Text(a1) = Text(a2) => a1 = a2
                   /\ ~doubleFree
  BY <1>1, <1>3 DEF NamesInv
<1>8. QED
  BY <1>5, <1>6, <1>7 DEF Chained
-----------------------------------------------------------------------------
(* What the operations make of the chains *)

LEMMA FreedIsNoItem == FreedItem \notin Item
BY SymbolTableAssumption DEF FreedItem, Item

LEMMA LiveItem ==
  ASSUME TypeOK, NEW a \in Live
  PROVE  /\ a \in Address /\ item[a] \in Item /\ item[a].key \in Buffer
         /\ item[a].data \in Element /\ item[a].ptrnext \in Address \cup {NULL}
<1>1. a \in Address /\ item[a] \in Item
  BY DEF TypeOK, Live
<1>2. QED
  BY <1>1 DEF Item

\* Nothing changes in the chains, and not in the strings of their keys.
LEMMA Undisturbed ==
  ASSUME TypeOK, NEW c, Linked(c), NamesInv(c),
         hash_map' = hash_map, item' = item, ~dangling' => ~dangling, doubleFree' = doubleFree,
         \A b \in Buffer : buffer'[b].live => buffer'[b].text \in Name,
         ~dangling' => \A a \in Live : buffer'[item[a].key] = buffer[item[a].key]
  PROVE  Linked(c)' /\ NamesInv(c)'
<1>1. Live' = Live
  BY DEF Live
<1>2. Linked(c)'
  BY <1>1 DEF Linked
<1>3. ASSUME ~dangling'
      PROVE  /\ \A a \in Live : buffer'[item[a].key].live /\ Text(a)' = Text(a)
             /\ \A i \in Bucket : \A k \in 1..Len(c[i]) : c[i][k] \in Live
  BY <1>3 DEF NamesInv, Text, Linked
<1>4. QED
  BY <1>1, <1>2, <1>3 DEF NamesInv

\* Another element is put in an item.
LEMMA ReplacedData ==
  ASSUME TypeOK, NEW c, Linked(c), NamesInv(c), NEW found \in Live, NEW element \in Element,
         item' = [item EXCEPT ![found].data = element], hash_map' = hash_map,
         buffer' = buffer, dangling' = dangling, doubleFree' = doubleFree
  PROVE  /\ item' \in [Address -> Item \cup {FreedItem}]
         /\ Live' = Live
         /\ \A a \in Live : /\ item'[a].key = item[a].key
                            /\ item'[a].data = IF a = found THEN element ELSE item[a].data
         /\ Linked(c)' /\ NamesInv(c)'
<1>1. /\ found \in Address /\ item[found] \in Item
      /\ item \in [Address -> Item \cup {FreedItem}]
  BY LiveItem DEF TypeOK
<1>2. item'[found] = [item[found] EXCEPT !.data = element]
  BY <1>1
<1>3. /\ item'[found] \in Item
      /\ item'[found].key = item[found].key /\ item'[found].data = element
      /\ item'[found].ptrnext = item[found].ptrnext
  BY <1>1, <1>2 DEF Item
<1>4. \A a \in Address : a # found => item'[a] = item[a]
  BY <1>1
<1>5. item' \in [Address -> Item \cup {FreedItem}]
  <2>1. DOMAIN item' = Address
    BY <1>1
  <2>2. \A a \in Address : item'[a] \in Item \cup {FreedItem}
    BY <1>1, <1>3, <1>4
  <2>3. item' = [a \in Address |-> item'[a]]
    BY <1>1
  <2>4. QED
    BY <2>2, <2>3
<1>6. Live' = Live
  BY <1>1, <1>3, <1>4, FreedIsNoItem DEF Live
<1>7. \A a \in Live : /\ item'[a].key = item[a].key
                      /\ item'[a].ptrnext = item[a].ptrnext
                      /\ item'[a].data = IF a = found THEN element ELSE item[a].data
  BY <1>3, <1>4, LiveItem
<1>8. Linked(c)'
  BY <1>6, <1>7 DEF Linked
<1>9. NamesInv(c)'
  <2>1. \A a \in Live : Text(a)' = Text(a)
    BY <1>7 DEF Text
  <2>2. \A i \in Bucket : \A k \in 1..Len(c[i]) : c[i][k] \in Live
    BY DEF Linked
  <2>3. QED
    BY <1>6, <1>7, <2>1, <2>2 DEF NamesInv
<1>10. QED
  BY <1>5, <1>6, <1>7, <1>8, <1>9

LEMMA Cons ==
  ASSUME NEW S, NEW s \in Seq(S), NEW x \in S
  PROVE  LET t == <<x>> \o s
         IN /\ t \in Seq(S) /\ t # <<>> /\ Len(t) = Len(s) + 1 /\ t[1] = x
            /\ \A k \in 2..Len(t) : k - 1 \in 1..Len(s) /\ t[k] = s[k - 1]
OBVIOUS

\* A new item is at the head of the bucket of its name.
LEMMA PutAtHead ==
  ASSUME TypeOK, NEW c, Linked(c), NamesInv(c),
         NEW key \in Buffer, buffer[key].live, NEW element \in Element,
         \A a \in Live : Text(a) # buffer[key].text,
         NEW new \in Address \ Live,
         item' = [item EXCEPT ![new] =
                    [key |-> key, data |-> element,
                     ptrnext |-> hash_map[hash_code[buffer[key].text]]]],
         hash_map' = [hash_map EXCEPT ![hash_code[buffer[key].text]] = new],
         buffer' = buffer, dangling' = dangling, doubleFree' = doubleFree
  PROVE  /\ item' \in [Address -> Item \cup {FreedItem}]
         /\ hash_map' \in [Bucket -> Address \cup {NULL}]
         /\ Live' = Live \cup {new}
         /\ \A a \in Live : item'[a] = item[a]
         /\ item'[new].key = key /\ item'[new].data = element
         /\ \E d \in [Bucket -> Seq(Address)] : Linked(d)' /\ NamesInv(d)'
<1> DEFINE name == buffer[key].text
           id == hash_code[name]
<1>1. name \in Name /\ id \in Bucket /\ hash_map \in [Bucket -> Address \cup {NULL}]
      /\ item \in [Address -> Item \cup {FreedItem}] /\ c \in [Bucket -> Seq(Address)]
  BY SymbolTableAssumption DEF NamesInv, TypeOK, Linked
<1>2. item'[new] = [key |-> key, data |-> element, ptrnext |-> hash_map[id]]
  BY <1>1
<1>3. item'[new] \in Item /\ item'[new].key = key /\ item'[new].data = element
      /\ item'[new].ptrnext = hash_map[id]
  BY <1>1, <1>2 DEF Item
<1>4. \A a \in Address : a # new => item'[a] = item[a]
  BY <1>1
<1>5. item' \in [Address -> Item \cup {FreedItem}]
  BY <1>1, <1>3, <1>2
<1>6. hash_map' \in [Bucket -> Address \cup {NULL}] /\ hash_map'[id] = new
      /\ \A i \in Bucket : i # id => hash_map'[i] = hash_map[i]
  BY <1>1
<1>7. Live' = Live \cup {new}
  BY <1>3, <1>4, FreedIsNoItem DEF Live
<1>8. \A a \in Live : a \in Address /\ a # new /\ item'[a] = item[a]
  BY <1>4 DEF Live
<1> HIDE DEF name, id
<1>9. PICK d \in [Bucket -> Seq(Address)] :
        /\ \A i \in Bucket : i # id => d[i] = c[i]
        /\ d[id] # <<>> /\ Len(d[id]) = Len(c[id]) + 1 /\ d[id][1] = new
        /\ \A k \in 2..Len(d[id]) : k - 1 \in 1..Len(c[id]) /\ d[id][k] = c[id][k - 1]
  <2> DEFINE e == [c EXCEPT ![id] = <<new>> \o c[id]]
  <2>1. e[id] = <<new>> \o c[id] /\ c[id] \in Seq(Address)
    BY <1>1
  <2>2. e[id] \in Seq(Address)
    BY <2>1, Cons
  <2>3. e \in [Bucket -> Seq(Address)] /\ \A i \in Bucket : i # id => e[i] = c[i]
    BY <1>1, <2>1, <2>2
  <2> HIDE DEF e
  <2>4. /\ e[id] # <<>> /\ Len(e[id]) = Len(c[id]) + 1 /\ e[id][1] = new
        /\ \A k \in 2..Len(e[id]) : k - 1 \in 1..Len(c[id]) /\ e[id][k] = c[id][k - 1]
    BY <2>1, Cons
  <2>5. QED
    BY <2>3, <2>4
<1>10. \A i \in Bucket : Len(c[i]) \in Nat /\ Len(d[i]) \in Nat
  BY <1>1, <1>9
<1>11. \A i \in Bucket : \A k \in 1..Len(c[i]) :
          c[i][k] \in Live /\ c[i][k] # new /\ item'[c[i][k]] = item[c[i][k]]
  BY <1>8 DEF Linked
<1>12. ASSUME NEW i \in Bucket, NEW k \in 1..Len(d[i])
       PROVE  \/ i = id /\ k = 1 /\ d[i][k] = new
              \/ i = id /\ k > 1 /\ k - 1 \in 1..Len(c[i]) /\ d[i][k] = c[i][k - 1]
              \/ i # id /\ k \in 1..Len(c[i]) /\ d[i][k] = c[i][k]
  <2>1. CASE i # id
    BY <1>9, <2>1
  <2>2. CASE i = id /\ k = 1
    BY <1>9, <2>2
  <2>3. CASE i = id /\ k # 1
    <3>1. k \in 2..Len(d[id]) /\ k > 1
      BY <1>10, <2>3
    <3>2. QED
      BY <1>9, <2>3, <3>1
  <2>4. QED
    BY <2>1, <2>2, <2>3
<1>13. Linked(d)'
  <2>1. ASSUME NEW i \in Bucket
        PROVE  hash_map'[i] = IF d[i] = <<>> THEN NULL ELSE d[i][1]
    BY <1>6, <1>9 DEF Linked
  <2>2. ASSUME NEW i \in Bucket, NEW k \in 1..Len(d[i])
        PROVE  /\ d[i][k] \in Live'
               /\ item'[d[i][k]].ptrnext = IF k = Len(d[i]) THEN NULL ELSE d[i][k + 1]
    <3>1. CASE i # id
      BY <1>7, <1>9, <1>11, <3>1 DEF Linked
    <3>2. CASE i = id /\ k = 1
      <4>1. item'[d[i][k]].ptrnext = IF c[id] = <<>> THEN NULL ELSE c[id][1]
        BY <1>1, <1>3, <1>9, <3>2 DEF Linked
      <4>2. CASE c[id] = <<>>
        BY <1>7, <1>9, <3>2, <4>1, <4>2
      <4>3. CASE c[id] # <<>>
        <5>1. Len(c[id]) >= 1
          BY <1>1, <4>3
        <5>2. 2 \in 2..Len(d[id]) /\ k # Len(d[id])
          BY <1>9, <1>10, <3>2, <5>1
        <5>3. d[id][2] = c[id][2 - 1]
          BY <1>9, <5>2
        <5>4. QED
          BY <1>7, <1>9, <3>2, <4>1, <4>3, <5>2, <5>3
      <4>4. QED
        BY <4>2, <4>3
    <3>3. CASE i = id /\ k # 1
      <4>1. k - 1 \in 1..Len(c[id]) /\ d[id][k] = c[id][k - 1]
        BY <1>12, <3>3
      <4>2. d[id][k] \in Live /\ item'[d[id][k]].ptrnext
              = IF k - 1 = Len(c[id]) THEN NULL ELSE c[id][(k - 1) + 1]
        BY <1>1, <1>11, <4>1 DEF Linked
      <4>3. CASE k - 1 = Len(c[id])
        BY <1>7, <1>9, <1>10, <3>3, <4>2, <4>3
      <4>4. CASE k - 1 # Len(c[id])
        <5>1. k + 1 \in 2..Len(d[id]) /\ k # Len(d[id])
          BY <1>9, <1>10, <3>3, <4>1, <4>4
        <5>2. d[id][k + 1] = c[id][(k + 1) - 1]
          BY <1>9, <5>1
        <5>3. (k + 1) - 1 = k /\ (k - 1) + 1 = k
          OBVIOUS
        <5>4. QED
          BY <1>7, <3>3, <4>2, <4>4, <5>1, <5>2, <5>3
      <4>5. QED
        BY <4>3, <4>4
    <3>4. QED
      BY <3>1, <3>2, <3>3
  <2>3. ASSUME NEW a \in Live'
        PROVE  \E i \in Bucket : \E k \in 1..Len(d[i]) : d[i][k] = a
    <3>1. CASE a = new
      <4>1. 1 \in 1..Len(d[id])
        BY <1>1, <1>9, <1>10
      <4>2. d[id][1] = a
        BY <1>9, <3>1
      <4>3. \E k \in 1..Len(d[id]) : d[id][k] = a
        BY <4>1, <4>2, Zenon
      <4>4. id \in Bucket
        BY <1>1
      <4>5. QED
        BY <4>3, <4>4
    <3>2. CASE a \in Live
      <4>1. PICK i \in Bucket : \E k \in 1..Len(c[i]) : c[i][k] = a
        BY <3>2 DEF Linked
      <4>2. PICK k \in 1..Len(c[i]) : c[i][k] = a
        BY <4>1
      <4>3. CASE i # id
        BY <1>9, <4>2, <4>3
      <4>4. CASE i = id
        <5>1. k + 1 \in 2..Len(d[id]) /\ (k + 1) - 1 = k /\ k + 1 \in 1..Len(d[id])
          BY <1>9, <1>10, <4>4
        <5>2. d[id][k + 1] = a
          BY <1>9, <4>2, <4>4, <5>1
        <5>3. QED
          BY <1>1, <5>1, <5>2
      <4>5. QED
        BY <4>3, <4>4
    <3>3. QED
      BY <1>7, <3>1, <3>2
  <2>4. ASSUME NEW i \in Bucket, NEW j \in Bucket, NEW k \in 1..Len(d[i]), NEW l \in 1..Len(d[j]),
               d[i][k] = d[j][l]
        PROVE  i = j /\ k = l
    <3>1. CASE d[i][k] = new
      <4>1. i = id /\ k = 1
        BY <1>11, <1>12, <3>1
      <4>2. d[j][l] = new
        BY <2>4, <3>1
      <4>3. j = id /\ l = 1
        BY <1>11, <1>12, <4>2
      <4>4. QED
        BY <4>1, <4>3
    <3>2. CASE d[i][k] # new
      <4>1. \/ i = id /\ k - 1 \in 1..Len(c[i]) /\ d[i][k] = c[i][k - 1]
            \/ i # id /\ k \in 1..Len(c[i]) /\ d[i][k] = c[i][k]
        BY <1>12, <3>2
      <4>2. \/ j = id /\ l - 1 \in 1..Len(c[j]) /\ d[j][l] = c[j][l - 1]
            \/ j # id /\ l \in 1..Len(c[j]) /\ d[j][l] = c[j][l]
        BY <1>12, <2>4, <3>2
      <4>3. i = j
        BY <2>4, <4>1, <4>2 DEF Linked
      <4>4. CASE i = id
        <5>1. k - 1 = l - 1
          BY <2>4, <4>1, <4>2, <4>3, <4>4 DEF Linked
        <5>2. QED
          BY <4>3, <5>1
      <4>5. CASE i # id
        BY <2>4, <4>1, <4>2, <4>3, <4>5 DEF Linked
      <4>6. QED
        BY <4>4, <4>5
    <3>3. QED
      BY <3>1, <3>2
  <2>5. QED
    BY <1>9, <2>1, <2>2, <2>3, <2>4 DEF Linked
<1> DEFINE TextNext(a) == buffer[item'[a].key].text
<1>14. NamesInv(d)'
  <2>1. /\ \A a \in Live : item'[a].key = item[a].key /\ TextNext(a) = Text(a)
        /\ TextNext(new) = name /\ item'[new].key = key
        /\ \A a \in Live : TextNext(a) # name
    BY <1>3, <1>8 DEF Text, name
  <2>2. ASSUME ~dangling
        PROVE  /\ \A a \in Live' : buffer[item'[a].key].live
               /\ \A i \in Bucket : \A k \in 1..Len(d[i]) : hash_code[TextNext(d[i][k])] = i
               /\ \A a1, a2 \in Live' : TextNext(a1) = TextNext(a2) => a1 = a2
               /\ ~doubleFree
    <3> HIDE DEF TextNext
    <3>1. /\ \A a \in Live : buffer[item[a].key].live
          /\ \A i \in Bucket : \A k \in 1..Len(c[i]) : hash_code[Text(c[i][k])] = i
          /\ \A a1, a2 \in Live : Text(a1) = Text(a2) => a1 = a2
          /\ ~doubleFree
      BY <2>2 DEF NamesInv
    <3>2. \A a \in Live' : buffer[item'[a].key].live
      BY <1>7, <2>1, <3>1
    <3>3. ASSUME NEW i \in Bucket, NEW k \in 1..Len(d[i])
          PROVE  hash_code[TextNext(d[i][k])] = i
      <4>1. \A j \in Bucket : \A l \in 1..Len(c[j]) : hash_code[TextNext(c[j][l])] = j
        BY <1>11, <2>1, <3>1
      <4>2. hash_code[TextNext(new)] = id
        BY <2>1 DEF id
      <4>3. QED
        BY <1>12, <4>1, <4>2
    <3>4. ASSUME NEW a1 \in Live', NEW a2 \in Live', TextNext(a1) = TextNext(a2) PROVE a1 = a2
      BY <1>7, <2>1, <3>1, <3>4
    <3>5. QED
      BY <3>1, <3>2, <3>3, <3>4
  <2>3. \A b \in Buffer : buffer[b].live => buffer[b].text \in Name
    BY DEF NamesInv
  <2>4. QED
    BY <2>2, <2>3 DEF NamesInv, Text
<1>15. QED
  BY <1>3, <1>5, <1>6, <1>7, <1>8, <1>9, <1>13, <1>14

LEMMA WithoutOne ==
  ASSUME NEW S, NEW s \in Seq(S), NEW n \in 1..Len(s)
  PROVE  LET t == [k \in 1..Len(s) - 1 |-> IF k < n THEN s[k] ELSE s[k + 1]]
         IN /\ t \in Seq(S) /\ Len(t) = Len(s) - 1
            /\ \A k \in 1..Len(t) : t[k] = IF k < n THEN s[k] ELSE s[k + 1]
<1> DEFINE t == [k \in 1..Len(s) - 1 |-> IF k < n THEN s[k] ELSE s[k + 1]]
<1>1. Len(s) - 1 \in Nat
  OBVIOUS
<1>2. \A k \in 1..Len(s) - 1 : t[k] \in S
  <2>1. ASSUME NEW k \in 1..Len(s) - 1 PROVE k \in 1..Len(s) /\ k + 1 \in 1..Len(s)
    OBVIOUS
  <2>2. QED
    BY <2>1
<1>3. t \in [1..Len(s) - 1 -> S]
  BY <1>2
<1>4. t \in Seq(S) /\ Len(t) = Len(s) - 1
  BY <1>1, <1>3
<1>5. QED
  BY <1>4

\* An item is taken out of its chain.
LEMMA Unlinked ==
  ASSUME TypeOK, NEW c, Linked(c), NamesInv(c),
         NEW place \in Places, Unlink(place),
         buffer' = buffer, dangling' = dangling, doubleFree' = doubleFree
  PROVE  /\ item' \in [Address -> Item \cup {FreedItem}]
         /\ hash_map' \in [Bucket -> Address \cup {NULL}]
         /\ Live' = Live \ {At(place)}
         /\ \A a \in Live' : item'[a].key = item[a].key /\ item'[a].data = item[a].data
         /\ \E d \in [Bucket -> Seq(Address)] : Linked(d)' /\ NamesInv(d)'
<1> DEFINE b == place[1]
           n == place[2]
<1>1. /\ b \in Bucket /\ n \in 1..Len(c[b]) /\ At(place) = c[b][n] /\ c[b][n] \in Live
  BY PlacesAre
<1>2. /\ hash_map \in [Bucket -> Address \cup {NULL}]
      /\ item \in [Address -> Item \cup {FreedItem}] /\ c \in [Bucket -> Seq(Address)]
      /\ \A i \in Bucket : Len(c[i]) \in Nat
  BY DEF TypeOK, Linked
<1>3. PICK actual \in Live : actual = At(place) /\ actual = c[b][n]
  BY <1>1
<1>4. /\ \A i \in Bucket : \A k \in 1..Len(c[i]) :
           /\ c[i][k] \in Live
           /\ item[c[i][k]].ptrnext = IF k = Len(c[i]) THEN NULL ELSE c[i][k + 1]
           /\ c[i][k] = actual => i = b /\ k = n
      /\ \A i \in Bucket : hash_map[i] = IF c[i] = <<>> THEN NULL ELSE c[i][1]
  BY <1>1, <1>3 DEF Linked
<1>5. actual \in Address /\ item[actual] \in Item /\ item[actual].ptrnext \in Address \cup {NULL}
  BY LiveItem
<1>6. n > 1 => n - 1 \in 1..Len(c[b]) /\ At(<<b, n - 1>>) = c[b][n - 1] /\ c[b][n - 1] # actual
  <2>1. ASSUME n > 1 PROVE n - 1 \in 1..Len(c[b])
    BY <1>1, <1>2, <2>1
  <2>2. ASSUME n > 1 PROVE <<b, n - 1>> \in Places
    BY <1>1, <2>1, <2>2, PlacesAre
  <2>3. ASSUME n > 1 PROVE At(<<b, n - 1>>) = c[<<b, n - 1>>[1]][<<b, n - 1>>[2]]
    BY <2>2, <2>3, PlacesAre
  <2>4. QED
    BY <1>1, <1>2, <1>4, <2>1, <2>3
<1>7. \/ /\ n = 1
         /\ hash_map' = [hash_map EXCEPT ![b] = item[actual].ptrnext]
         /\ item' = [item EXCEPT ![actual] = FreedItem]
      \/ /\ n > 1
         /\ item' = [item EXCEPT ![c[b][n - 1]].ptrnext = item[actual].ptrnext,
                                 ![actual] = FreedItem]
         /\ hash_map' = hash_map
  BY <1>3, <1>6 DEF Unlink
<1> HIDE DEF b, n
<1>8. /\ hash_map' \in [Bucket -> Address \cup {NULL}]
      /\ \A i \in Bucket :
           hash_map'[i] = IF i = b /\ n = 1 THEN item[actual].ptrnext ELSE hash_map[i]
  BY <1>1, <1>2, <1>5, <1>7
<1>9. /\ item' \in [Address -> Item \cup {FreedItem}]
      /\ item'[actual] = FreedItem
      /\ \A a \in Address : item[a] = FreedItem => item'[a] = FreedItem
      /\ \A a \in Live : a # actual =>
           /\ item'[a] # FreedItem
           /\ item'[a].key = item[a].key /\ item'[a].data = item[a].data
           /\ item'[a].ptrnext = IF n > 1 /\ a = c[b][n - 1] THEN item[actual].ptrnext
                                 ELSE item[a].ptrnext
  <2>1. CASE n = 1
    <3>1. item'[actual] = FreedItem /\ \A a \in Address : a # actual => item'[a] = item[a]
      BY <1>2, <1>5, <1>7, <2>1
    <3>2. item' \in [Address -> Item \cup {FreedItem}]
      BY <1>2, <1>5, <1>7, <2>1
    <3>3. QED
      BY <2>1, <3>1, <3>2 DEF Live
  <2>2. CASE n > 1
    <3>1. PICK previous \in Live : previous = c[b][n - 1] /\ previous # actual
      BY <1>1, <1>4, <1>6, <2>2
    <3>2. previous \in Address /\ item[previous] \in Item
      BY LiveItem
    <3>3. /\ item'[actual] = FreedItem
          /\ item'[previous] = [item[previous] EXCEPT !.ptrnext = item[actual].ptrnext]
          /\ \A a \in Address : a # actual /\ a # previous => item'[a] = item[a]
          /\ item' = [a \in Address |-> item'[a]]
      BY <1>2, <1>5, <1>7, <2>2, <3>1, <3>2
    <3>4. /\ item'[previous] \in Item /\ item'[previous].ptrnext = item[actual].ptrnext
          /\ item'[previous].key = item[previous].key
          /\ item'[previous].data = item[previous].data
      BY <1>5, <3>2, <3>3 DEF Item
    <3>5. \A a \in Address : item'[a] \in Item \cup {FreedItem}
      BY <1>2, <3>3, <3>4
    <3>6. item' \in [Address -> Item \cup {FreedItem}]
      BY <3>3, <3>5
    <3>7. item'[previous] # FreedItem /\ item[previous] # FreedItem
      BY <3>2, <3>4, FreedIsNoItem
    <3>8. QED
      BY <2>2, <3>1, <3>2, <3>3, <3>4, <3>6, <3>7 DEF Live
  <2>3. QED
    BY <1>1, <1>2, <2>1, <2>2
<1>10. Live' = Live \ {actual}
  BY <1>9 DEF Live
<1>11. PICK d \in [Bucket -> Seq(Address)] :
         /\ \A i \in Bucket : i # b => d[i] = c[i]
         /\ Len(d[b]) = Len(c[b]) - 1
         /\ \A k \in 1..Len(d[b]) : d[b][k] = IF k < n THEN c[b][k] ELSE c[b][k + 1]
  <2> DEFINE t == [k \in 1..Len(c[b]) - 1 |-> IF k < n THEN c[b][k] ELSE c[b][k + 1]]
             e == [c EXCEPT ![b] = t]
  <2>1. c[b] \in Seq(Address)
    BY <1>1, <1>2
  <2>2. /\ t \in Seq(Address) /\ Len(t) = Len(c[b]) - 1
        /\ \A k \in 1..Len(t) : t[k] = IF k < n THEN c[b][k] ELSE c[b][k + 1]
    BY <1>1, <2>1, WithoutOne
  <2> HIDE DEF t
  <2>3. /\ e \in [Bucket -> Seq(Address)] /\ e[b] = t
        /\ \A i \in Bucket : i # b => e[i] = c[i]
    BY <1>1, <1>2, <2>2
  <2> HIDE DEF e
  <2>4. QED
    BY <2>2, <2>3
<1>12. \A i \in Bucket : Len(d[i]) \in Nat
  OBVIOUS
<1> DEFINE from(i, k) == IF i = b /\ ~(k < n) THEN k + 1 ELSE k
<1>13. ASSUME NEW i \in Bucket, NEW k \in 1..Len(d[i])
       PROVE  /\ from(i, k) \in 1..Len(c[i]) /\ d[i][k] = c[i][from(i, k)]
              /\ i = b => from(i, k) # n
  BY <1>1, <1>2, <1>11, <1>12, <1>13
<1>14. ASSUME NEW i \in Bucket, NEW k \in 1..Len(d[i])
       PROVE  d[i][k] \in Live /\ d[i][k] # actual
  BY <1>4, <1>13
<1>15. Linked(d)'
  <2>1. ASSUME NEW i \in Bucket
        PROVE  hash_map'[i] = IF d[i] = <<>> THEN NULL ELSE d[i][1]
    <3>1. CASE i # b
      BY <1>4, <1>8, <1>11, <3>1
    <3>2. CASE i = b /\ n = 1
      <4>1. hash_map'[b] = IF Len(c[b]) = 1 THEN NULL ELSE c[b][2]
        <5>1. hash_map'[b] = item[actual].ptrnext
          BY <1>1, <1>8, <3>2
        <5>2. item[c[b][n]].ptrnext = IF n = Len(c[b]) THEN NULL ELSE c[b][n + 1]
          BY <1>1, <1>4
        <5>3. QED
          BY <1>3, <3>2, <5>1, <5>2
      <4>2. Len(c[b]) = 1 => d[b] = <<>>
        BY <1>1, <1>11
      <4>3. Len(c[b]) # 1 => d[b] # <<>> /\ d[b][1] = c[b][2]
        BY <1>1, <1>2, <1>11, <3>2
      <4>4. QED
        BY <3>2, <4>1, <4>2, <4>3
    <3>3. CASE i = b /\ n # 1
      <4>1. n > 1 /\ 1 < n /\ Len(c[b]) > 1
        BY <1>1, <1>2, <3>3
      <4>2. d[b] # <<>> /\ 1 \in 1..Len(d[b]) /\ c[b] # <<>>
        BY <1>1, <1>2, <1>11, <4>1
      <4>3. d[b][1] = c[b][1]
        BY <1>11, <4>1, <4>2
      <4>4. QED
        BY <1>1, <1>4, <1>8, <3>3, <4>2, <4>3
    <3>4. QED
      BY <3>1, <3>2, <3>3
  <2>2. ASSUME NEW i \in Bucket, NEW k \in 1..Len(d[i])
        PROVE  /\ d[i][k] \in Live'
               /\ item'[d[i][k]].ptrnext = IF k = Len(d[i]) THEN NULL ELSE d[i][k + 1]
    <3> DEFINE m == from(i, k)
    <3>1. m \in 1..Len(c[i]) /\ d[i][k] = c[i][m]
      BY <1>13
    <3>2. d[i][k] \in Live' /\ d[i][k] \in Live /\ d[i][k] # actual
      BY <1>10, <1>14
    <3>3. item[d[i][k]].ptrnext = IF m = Len(c[i]) THEN NULL ELSE c[i][m + 1]
      BY <1>4, <3>1
    <3>4. n > 1 /\ d[i][k] = c[b][n - 1] => i = b /\ m = n - 1
      <4>1. ASSUME n > 1 PROVE n - 1 \in 1..Len(c[b])
        BY <1>6, <4>1 DEF b, n
      <4> HIDE DEF m
      <4>2. ASSUME n > 1, c[i][m] = c[b][n - 1] PROVE i = b /\ m = n - 1
        BY <1>1, <3>1, <4>1, <4>2 DEF Linked
      <4>3. QED
        BY <3>1, <4>2
    <3>5. CASE i # b
      <4>1. m = k /\ d[i] = c[i]
        BY <1>11, <3>5
      <4>2. item'[d[i][k]].ptrnext = item[d[i][k]].ptrnext
        BY <1>9, <3>2, <3>4, <3>5
      <4>3. QED
        BY <3>2, <3>3, <4>1, <4>2
    <3>6. CASE i = b /\ k = n - 1
      <4>1. m = k /\ n > 1 /\ d[i][k] = c[b][n - 1]
        BY <1>1, <1>2, <1>12, <3>1, <3>6
      <4>2. item'[d[i][k]].ptrnext = IF n = Len(c[b]) THEN NULL ELSE c[b][n + 1]
        <5>1. item'[d[i][k]].ptrnext = item[actual].ptrnext
          BY <1>9, <3>2, <4>1
        <5>2. item[c[b][n]].ptrnext = IF n = Len(c[b]) THEN NULL ELSE c[b][n + 1]
          BY <1>1, <1>4
        <5>3. QED
          BY <1>3, <5>1, <5>2
      <4>3. CASE n = Len(c[b])
        BY <1>1, <1>2, <1>11, <3>2, <3>6, <4>2, <4>3
      <4>4. CASE n # Len(c[b])
        <5>1. n \in 1..Len(d[b]) /\ k # Len(d[b]) /\ k + 1 = n /\ ~(n < n)
          BY <1>1, <1>2, <1>11, <1>12, <3>6, <4>4
        <5>2. d[b][n] = c[b][n + 1]
          BY <1>11, <5>1
        <5>3. QED
          BY <3>2, <3>6, <4>2, <4>4, <5>1, <5>2
      <4>5. QED
        BY <4>3, <4>4
    <3>7. CASE i = b /\ k # n - 1
      <4>1. m # n - 1
        BY <1>1, <1>2, <1>12, <3>7
      <4>2. item'[d[i][k]].ptrnext = item[d[i][k]].ptrnext
        BY <1>9, <3>2, <3>4, <4>1
      <4>3. CASE k = Len(d[i])
        <5>1. m = Len(c[i])
          BY <1>1, <1>2, <1>11, <1>12, <3>1, <3>7, <4>3
        <5>2. QED
          BY <3>2, <3>3, <4>2, <4>3, <5>1
      <4>4. CASE k # Len(d[i])
        <5>1. k + 1 \in 1..Len(d[i]) /\ from(i, k + 1) = m + 1 /\ m # Len(c[i])
          BY <1>1, <1>2, <1>11, <1>12, <3>1, <3>7, <4>4
        <5>2. d[i][k + 1] = c[i][m + 1]
          BY <1>13, <5>1
        <5>3. QED
          BY <3>2, <3>3, <4>2, <4>4, <5>1, <5>2
      <4>5. QED
        BY <4>3, <4>4
    <3>8. QED
      BY <3>5, <3>6, <3>7
  <2>3. ASSUME NEW a \in Live'
        PROVE  \E i \in Bucket : \E k \in 1..Len(d[i]) : d[i][k] = a
    <3>1. a \in Live /\ a # actual
      BY <1>10
    <3>2. PICK i \in Bucket : \E k \in 1..Len(c[i]) : c[i][k] = a
      BY <3>1 DEF Linked
    <3>3. PICK m \in 1..Len(c[i]) : c[i][m] = a
      BY <3>2
    <3> SUFFICES \E k \in 1..Len(d[i]) : d[i][k] = a
      OBVIOUS
    <3>4. CASE i # b
      BY <1>11, <3>3, <3>4
    <3>5. CASE i = b /\ m < n
      <4>1. m \in 1..Len(d[b])
        BY <1>1, <1>2, <1>11, <3>5
      <4>2. d[b][m] = c[b][m]
        BY <1>11, <3>5, <4>1
      <4>3. QED
        BY <3>3, <3>5, <4>1, <4>2
    <3>6. CASE i = b /\ ~(m < n)
      <4>1. m # n
        BY <1>3, <3>1, <3>3, <3>6
      <4>2. m - 1 \in 1..Len(d[b]) /\ ~(m - 1 < n) /\ (m - 1) + 1 = m
        BY <1>1, <1>2, <1>11, <3>6, <4>1
      <4>3. d[b][m - 1] = c[b][m]
        BY <1>11, <4>2
      <4>4. QED
        BY <3>3, <3>6, <4>2, <4>3
    <3>7. QED
      BY <3>4, <3>5, <3>6
  <2>4. ASSUME NEW i \in Bucket, NEW j \in Bucket, NEW k \in 1..Len(d[i]), NEW l \in 1..Len(d[j]),
               d[i][k] = d[j][l]
        PROVE  i = j /\ k = l
    <3>1. from(i, k) \in 1..Len(c[i]) /\ d[i][k] = c[i][from(i, k)]
      BY <1>13
    <3>2. from(j, l) \in 1..Len(c[j]) /\ d[j][l] = c[j][from(j, l)]
      BY <1>13
    <3>3. i = j /\ from(i, k) = from(j, l)
      <4> HIDE DEF from
      <4>1. c[i][from(i, k)] = c[j][from(j, l)]
        BY <2>4, <3>1, <3>2
      <4>2. QED
        BY <3>1, <3>2, <4>1 DEF Linked
    <3>4. QED
      BY <1>1, <1>2, <1>12, <3>3
  <2>5. QED
    BY <2>1, <2>2, <2>3, <2>4 DEF Linked
<1> DEFINE TextNext(a) == buffer[item'[a].key].text
<1>16. NamesInv(d)'
  <2>1. \A a \in Live : a # actual => item'[a].key = item[a].key /\ TextNext(a) = Text(a)
    BY <1>9 DEF Text
  <2>2. ASSUME ~dangling
        PROVE  /\ \A a \in Live' : buffer[item'[a].key].live
               /\ \A i \in Bucket : \A k \in 1..Len(d[i]) : hash_code[TextNext(d[i][k])] = i
               /\ \A a1, a2 \in Live' : TextNext(a1) = TextNext(a2) => a1 = a2
               /\ ~doubleFree
    <3> HIDE DEF TextNext
    <3>1. /\ \A a \in Live : buffer[item[a].key].live
          /\ \A i \in Bucket : \A k \in 1..Len(c[i]) : hash_code[Text(c[i][k])] = i
          /\ \A a1, a2 \in Live : Text(a1) = Text(a2) => a1 = a2
          /\ ~doubleFree
      BY <2>2 DEF NamesInv
    <3>2. \A a \in Live' : buffer[item'[a].key].live
      BY <1>10, <2>1, <3>1
    <3>3. ASSUME NEW i \in Bucket, NEW k \in 1..Len(d[i])
          PROVE  hash_code[TextNext(d[i][k])] = i
      <4>1. TextNext(d[i][k]) = Text(d[i][k])
        BY <1>14, <2>1
      <4>2. hash_code[Text(c[i][from(i, k)])] = i
        BY <1>13, <3>1
      <4>3. d[i][k] = c[i][from(i, k)]
        BY <1>13
      <4>4. Text(d[i][k]) = Text(c[i][from(i, k)])
        BY <4>3 DEF Text
      <4>5. QED
        BY <4>1, <4>2, <4>4
    <3>4. ASSUME NEW a1 \in Live', NEW a2 \in Live', TextNext(a1) = TextNext(a2) PROVE a1 = a2
      BY <1>10, <2>1, <3>1, <3>4
    <3>5. QED
      BY <3>1, <3>2, <3>3, <3>4
  <2>3. \A e \in Buffer : buffer[e].live => buffer[e].text \in Name
    BY DEF NamesInv
  <2>4. QED
    BY <2>2, <2>3 DEF NamesInv, Text
<1>17. QED
  BY <1>3, <1>8, <1>9, <1>10, <1>15, <1>16

\* Nothing is left, and no key is freed twice unless one was free.
LEMMA Destroyed ==
  ASSUME Inv, hash_map_destroy
  PROVE  /\ item' = [a \in Address |-> FreedItem] /\ Live' = {}
         /\ \E d \in [Bucket -> Seq(Address)] : Linked(d)' /\ NamesInv(d)'
<1>1. PICK c \in [Bucket -> Seq(Address)] : Linked(c) /\ NamesInv(c)
  BY DEF Inv
<1>2. TypeOK /\ Chained
  BY InvChained DEF Inv
<1>3. \A a \in Address : (\E p \in Places : At(p) = a) \/ item[a] = FreedItem
  BY <1>2 DEF Chained, Live
<1>4. item' = [a \in Address |-> FreedItem]
  BY <1>3 DEF hash_map_destroy
<1>5. Live' = {}
  BY <1>4 DEF Live
<1> DEFINE d == [i \in Bucket |-> <<>>]
<1>6. d \in [Bucket -> Seq(Address)] /\ \A i \in Bucket : d[i] = <<>> /\ Len(d[i]) = 0
  OBVIOUS
<1>7. hash_map' = [i \in Bucket |-> NULL]
  BY DEF hash_map_destroy
<1> HIDE DEF d
<1>8. \A i \in Bucket : 1..Len(d[i]) = {}
  BY <1>6
<1>9. Linked(d)'
  BY <1>5, <1>6, <1>7, <1>8 DEF Linked
<1>10. \A b \in Buffer : buffer'[b].live => buffer'[b].text \in Name
  BY <1>1 DEF hash_map_destroy, NamesInv
<1>11. ASSUME ~dangling' PROVE ~doubleFree'
  <2>1. ~dangling
    BY <1>11 DEF hash_map_destroy
  <2>2. /\ \A p \in Places : At(p) \in Live
        /\ \A p, q \in Places : At(p) = At(q) => p = q
        /\ \A a \in Live : buffer[item[a].key].live
        /\ \A a1, a2 \in Live : Text(a1) = Text(a2) => a1 = a2
        /\ ~doubleFree
    BY <1>2, <2>1 DEF Chained
  <2>3. \A p, q \in Places : p # q => item[At(p)].key # item[At(q)].key
    BY <2>2 DEF Text
  <2>4. QED
    BY <2>2, <2>3 DEF hash_map_destroy
<1>12. NamesInv(d)'
  BY <1>5, <1>8, <1>10, <1>11 DEF NamesInv
<1>13. QED
  BY <1>4, <1>5, <1>6, <1>9, <1>12
-----------------------------------------------------------------------------
(* The invariant *)

LEMMA InitInv == Init => Inv
<1> SUFFICES ASSUME Init PROVE Inv
  OBVIOUS
<1>1. TypeOK
  BY SymbolTableAssumption DEF Init, TypeOK
<1> DEFINE c == [i \in Bucket |-> <<>>]
<1>2. c \in [Bucket -> Seq(Address)] /\ \A i \in Bucket : c[i] = <<>> /\ Len(c[i]) = 0
  OBVIOUS
<1>3. Live = {}
  BY DEF Init, Live
<1> HIDE DEF c
<1>4. \A i \in Bucket : 1..Len(c[i]) = {}
  BY <1>2
<1>5. Linked(c)
  BY <1>2, <1>3, <1>4 DEF Linked, Init
<1>6. NamesInv(c)
  BY <1>3, <1>4 DEF NamesInv, Init
<1>7. QED
  BY <1>1, <1>2, <1>5, <1>6 DEF Inv

LEMMA NewKeyInv ==
  ASSUME Inv, NEW b \in Buffer, NEW name \in Name, NewKey(b, name)
  PROVE  /\ Inv'
         /\ ~dangling => \A a \in Live : buffer'[item[a].key] = buffer[item[a].key]
<1>1. PICK c \in [Bucket -> Seq(Address)] : Linked(c) /\ NamesInv(c)
  BY DEF Inv
<1>2. TypeOK /\ buffer \in [Buffer -> [text : Name \cup {Garbage}, live : BOOLEAN]]
  BY DEF Inv, TypeOK
<1>3. /\ buffer' \in [Buffer -> [text : Name \cup {Garbage}, live : BOOLEAN]]
      /\ buffer'[b].text = name
      /\ \A e \in Buffer : e # b => buffer'[e] = buffer[e]
  BY <1>2 DEF NewKey
<1>4. ASSUME ~dangling PROVE \A a \in Live : buffer'[item[a].key] = buffer[item[a].key]
  <2>1. \A a \in Live : item[a].key # b /\ item[a].key \in Buffer
    BY <1>1, <1>2, <1>4, LiveItem DEF NamesInv, NewKey
  <2>2. QED
    BY <1>3, <2>1
<1>5. \A e \in Buffer : buffer'[e].live => buffer'[e].text \in Name
  BY <1>1, <1>3 DEF NamesInv
<1>6. Linked(c)' /\ NamesInv(c)'
  BY <1>1, <1>2, <1>4, <1>5, Undisturbed DEF NewKey, table
<1>7. TypeOK'
  BY <1>2, <1>3 DEF TypeOK, NewKey, table
<1>8. QED
  BY <1>4, <1>6, <1>7 DEF Inv

LEMMA FreeKeyInv ==
  ASSUME Inv, NEW b \in Buffer, FreeKey(b)
  PROVE  /\ Inv'
         /\ ~dangling' =>
              ~dangling /\ \A a \in Live : buffer'[item[a].key] = buffer[item[a].key]
<1>1. PICK c \in [Bucket -> Seq(Address)] : Linked(c) /\ NamesInv(c)
  BY DEF Inv
<1>2. /\ TypeOK /\ dangling \in BOOLEAN
      /\ buffer \in [Buffer -> [text : Name \cup {Garbage}, live : BOOLEAN]]
  BY DEF Inv, TypeOK
<1>3. PICK text \in Name \cup {Garbage} :
        buffer' = [buffer EXCEPT ![b] = [text |-> text, live |-> FALSE]]
  BY DEF FreeKey
<1>4. /\ buffer' \in [Buffer -> [text : Name \cup {Garbage}, live : BOOLEAN]]
      /\ ~buffer'[b].live
      /\ \A e \in Buffer : e # b => buffer'[e] = buffer[e]
  BY <1>2, <1>3
<1>5. dangling' = (dangling \/ \E a \in Live : item[a].key = b)
  BY DEF FreeKey
<1>6. dangling' \in BOOLEAN /\ (~dangling' => ~dangling)
  BY <1>5
<1>7. ASSUME ~dangling' PROVE \A a \in Live : buffer'[item[a].key] = buffer[item[a].key]
  <2>1. \A a \in Live : item[a].key # b /\ item[a].key \in Buffer
    BY <1>2, <1>5, <1>7, LiveItem
  <2>2. QED
    BY <1>4, <2>1
<1>8. \A e \in Buffer : buffer'[e].live => buffer'[e].text \in Name
  BY <1>1, <1>4 DEF NamesInv
<1>9. Linked(c)' /\ NamesInv(c)'
  BY <1>1, <1>2, <1>6, <1>7, <1>8, Undisturbed DEF FreeKey, table
<1>10. TypeOK'
  BY <1>2, <1>4, <1>6 DEF TypeOK, FreeKey, table
<1>11. QED
  BY <1>6, <1>7, <1>9, <1>10 DEF Inv

\* What hash_map_put does: an item of the name gets the element, nothing happens, or
\* there is a new item, the only one of the name.
LEMMA PutCases ==
  ASSUME Inv, NEW key \in Buffer, NEW element \in Element, buffer[key].live,
         hash_map_put(key, element)
  PROVE  LET name == buffer[key].text IN
         /\ name \in Name
         /\ \/ \E found \in Live :
                 /\ Text(found) = name
                 /\ item' = [item EXCEPT ![found].data = element] /\ hash_map' = hash_map
                 /\ Called("put", name, TRUE)
            \/ /\ \A a \in Live : Text(a) # name
               /\ UNCHANGED table
               /\ Called("put", name, FALSE)
            \/ /\ \A a \in Live : Text(a) # name
               /\ \E new \in Address \ Live :
                    /\ item' = [item EXCEPT ![new] =
                         [key |-> key, data |-> element, ptrnext |-> hash_map[hash_code[name]]]]
                    /\ hash_map' = [hash_map EXCEPT ![hash_code[name]] = new]
               /\ Called("put", name, TRUE)
<1> DEFINE name == buffer[key].text
<1>1. PICK c \in [Bucket -> Seq(Address)] : Linked(c) /\ NamesInv(c)
  BY DEF Inv
<1>2. TypeOK /\ name \in Name
  BY <1>1 DEF Inv, NamesInv
<1> HIDE DEF name
<1>3. hash_search(name) # NULL => hash_search(name) \in Live /\ Text(hash_search(name)) = name
  BY <1>1, <1>2, Search
<1>4. hash_search(name) = NULL => \A a \in Live : Text(a) # name
  BY <1>1, <1>2, Search
<1>5. CASE hash_search(name) # NULL
  BY <1>2, <1>3, <1>5 DEF hash_map_put, name
<1>6. CASE hash_search(name) = NULL
  BY <1>2, <1>4, <1>6 DEF hash_map_put, name
<1>7. QED
  BY <1>5, <1>6

LEMMA PutInv ==
  ASSUME Inv, NEW key \in Buffer, NEW element \in Element, buffer[key].live,
         hash_map_put(key, element)
  PROVE  Inv'
<1> DEFINE name == buffer[key].text
<1>1. PICK c \in [Bucket -> Seq(Address)] : Linked(c) /\ NamesInv(c)
  BY DEF Inv
<1>2. TypeOK /\ name \in Name
  BY PutCases DEF Inv
<1>3. buffer' = buffer /\ dangling' = dangling /\ doubleFree' = doubleFree
  BY DEF hash_map_put
<1>4. \E result \in BOOLEAN : Called("put", name, result)
  BY PutCases
<1>5. call' \in [op : {"init", "put", "has", "get", "clear", "delete_item", "destroy"},
                 name : Name \cup {NULL}]
      /\ returned' \in Element \cup {NULL} \cup BOOLEAN
  BY <1>2, <1>4 DEF Called
<1>6. CASE UNCHANGED table
  <2>1. hash_map' = hash_map /\ item' = item
    BY <1>6 DEF table
  <2>2. Linked(c)' /\ NamesInv(c)'
    BY <1>1, <1>2, <1>3, <2>1, Undisturbed DEF NamesInv
  <2>3. TypeOK'
    BY <1>2, <1>3, <1>5, <2>1 DEF TypeOK
  <2>4. QED
    BY <2>2, <2>3 DEF Inv
<1>7. ASSUME NEW found \in Live, item' = [item EXCEPT ![found].data = element],
             hash_map' = hash_map
      PROVE  Inv'
  <2>1. item' \in [Address -> Item \cup {FreedItem}] /\ Linked(c)' /\ NamesInv(c)'
    BY <1>1, <1>2, <1>3, <1>7, ReplacedData
  <2>2. TypeOK'
    BY <1>2, <1>3, <1>5, <1>7, <2>1 DEF TypeOK
  <2>3. QED
    BY <2>1, <2>2 DEF Inv
<1>8. ASSUME \A a \in Live : Text(a) # name, NEW new \in Address \ Live,
             item' = [item EXCEPT ![new] =
                        [key |-> key, data |-> element, ptrnext |-> hash_map[hash_code[name]]]],
             hash_map' = [hash_map EXCEPT ![hash_code[name]] = new]
      PROVE  Inv'
  <2>1. /\ item' \in [Address -> Item \cup {FreedItem}]
        /\ hash_map' \in [Bucket -> Address \cup {NULL}]
        /\ \E d \in [Bucket -> Seq(Address)] : Linked(d)' /\ NamesInv(d)'
    BY <1>1, <1>2, <1>3, <1>8, PutAtHead
  <2>2. TypeOK'
    BY <1>2, <1>3, <1>5, <2>1 DEF TypeOK
  <2>3. QED
    BY <2>1, <2>2 DEF Inv
<1>9. QED
  BY <1>6, <1>7, <1>8, PutCases

LEMMA QueryInv ==
  ASSUME Inv, NEW op \in {"has", "get", "clear"}, NEW name \in Name \cup {NULL},
         NEW result \in Element \cup {NULL} \cup BOOLEAN, Query(op, name, result)
  PROVE  Inv'
<1>1. PICK c \in [Bucket -> Seq(Address)] : Linked(c) /\ NamesInv(c)
  BY DEF Inv
<1>2. TypeOK /\ UNCHANGED <<hash_map, item, buffer, dangling, doubleFree>>
  BY DEF Inv, Query, table
<1>3. Linked(c)' /\ NamesInv(c)'
  BY <1>1, <1>2, Undisturbed DEF NamesInv
<1>4. TypeOK'
  BY <1>2 DEF TypeOK, Query, Called
<1>5. QED
  BY <1>3, <1>4 DEF Inv

LEMMA GetResult ==
  ASSUME Inv, NEW name \in Name
  PROVE  (IF hash_search(name) # NULL THEN item[hash_search(name)].data ELSE NULL)
            \in Element \cup {NULL}
<1>1. PICK c \in [Bucket -> Seq(Address)] : Linked(c) /\ NamesInv(c)
  BY DEF Inv
<1>2. hash_search(name) # NULL => hash_search(name) \in Live
  BY <1>1, Search DEF Inv
<1>3. QED
  BY <1>2, LiveItem DEF Inv

\* What hash_map_delete_item does: an item of the name is taken out, if there is one.
LEMMA DeleteCases ==
  ASSUME Inv, NEW name \in Name, hash_map_delete_item(name)
  PROVE  /\ UNCHANGED <<buffer, dangling, doubleFree>> /\ Called("delete_item", name, NULL)
         /\ \/ (\A a \in Live : Text(a) # name) /\ UNCHANGED table
            \/ \E place \in Places : At(place) \in Live /\ Text(At(place)) = name /\ Unlink(place)
<1>1. PICK c \in [Bucket -> Seq(Address)] : Linked(c) /\ NamesInv(c)
  BY DEF Inv
<1>2. CASE Found(name) = {}
  <2>1. \A a \in Live : Text(a) # name
    BY <1>1, <1>2, Search DEF Inv
  <2>2. QED
    BY <1>2, <2>1 DEF hash_map_delete_item
<1>3. CASE Found(name) # {}
  <2> DEFINE p == Earliest(Found(name))
  <2>1. p \in Places /\ At(p) \in Live /\ Text(At(p)) = name
    BY <1>1, <1>3, Search DEF Inv
  <2>2. Unlink(p)
    BY <1>3 DEF hash_map_delete_item
  <2> HIDE DEF p
  <2>3. QED
    BY <2>1, <2>2 DEF hash_map_delete_item
<1>4. QED
  BY <1>2, <1>3

LEMMA DeleteInv ==
  ASSUME Inv, NEW name \in Name, hash_map_delete_item(name)
  PROVE  Inv'
<1>1. PICK c \in [Bucket -> Seq(Address)] : Linked(c) /\ NamesInv(c)
  BY DEF Inv
<1>2. TypeOK /\ UNCHANGED <<buffer, dangling, doubleFree>> /\ Called("delete_item", name, NULL)
  BY DeleteCases DEF Inv
<1>3. CASE UNCHANGED table
  <2>1. hash_map' = hash_map /\ item' = item
    BY <1>3 DEF table
  <2>2. Linked(c)' /\ NamesInv(c)'
    BY <1>1, <1>2, <2>1, Undisturbed DEF NamesInv
  <2>3. TypeOK'
    BY <1>2, <2>1 DEF TypeOK, Called
  <2>4. QED
    BY <2>2, <2>3 DEF Inv
<1>4. ASSUME NEW place \in Places, Unlink(place) PROVE Inv'
  <2>1. /\ item' \in [Address -> Item \cup {FreedItem}]
        /\ hash_map' \in [Bucket -> Address \cup {NULL}]
        /\ \E d \in [Bucket -> Seq(Address)] : Linked(d)' /\ NamesInv(d)'
    BY <1>1, <1>2, <1>4, Unlinked
  <2>2. TypeOK'
    BY <1>2, <2>1 DEF TypeOK, Called
  <2>3. QED
    BY <2>1, <2>2 DEF Inv
<1>5. QED
  BY <1>3, <1>4, DeleteCases

LEMMA DestroyInv ==
  ASSUME Inv, hash_map_destroy
  PROVE  Inv'
<1>1. TypeOK
  BY DEF Inv
<1>2. item' = [a \in Address |-> FreedItem] /\ hash_map' = [i \in Bucket |-> NULL]
  BY Destroyed DEF hash_map_destroy
<1>3. buffer' \in [Buffer -> [text : Name \cup {Garbage}, live : BOOLEAN]]
  BY <1>1 DEF hash_map_destroy, TypeOK
<1>4. doubleFree' \in BOOLEAN
  BY <1>1 DEF hash_map_destroy, TypeOK
<1>5. TypeOK'
  BY <1>1, <1>2, <1>3, <1>4 DEF TypeOK, hash_map_destroy, Called
<1>6. QED
  BY <1>5, Destroyed DEF Inv

LEMMA NextInv == Inv /\ [Next]_vars => Inv'
<1> SUFFICES ASSUME Inv, [Next]_vars PROVE Inv'
  OBVIOUS
<1>1. PICK c \in [Bucket -> Seq(Address)] : Linked(c) /\ NamesInv(c)
  BY DEF Inv
<1>2. \A b \in Buffer : buffer[b].live => buffer[b].text \in Name
  BY <1>1 DEF NamesInv
<1>3. ASSUME NEW b \in Buffer, NEW name \in Name, NewKey(b, name) PROVE Inv'
  BY <1>3, NewKeyInv
<1>4. ASSUME NEW b \in Buffer, FreeKey(b) PROVE Inv'
  BY <1>4, FreeKeyInv
<1>5. ASSUME NEW b \in Buffer, buffer[b].live, NEW element \in Element, hash_map_put(b, element)
      PROVE  Inv'
  BY <1>5, PutInv
<1>6. ASSUME NEW name \in Name, hash_map_has(name) PROVE Inv'
  <2>1. (hash_search(name) # NULL) \in BOOLEAN
    OBVIOUS
  <2>2. QED
    BY <1>6, <2>1, QueryInv DEF hash_map_has
<1>7. ASSUME NEW name \in Name, hash_map_get(name) PROVE Inv'
  BY <1>7, QueryInv, GetResult DEF hash_map_get
<1>8. ASSUME NEW name \in Name, hash_map_delete_item(name) PROVE Inv'
  BY <1>8, DeleteInv
<1>9. CASE hash_map_clear
  <2>1. (\A i \in Bucket : hash_map[i] = NULL) \in BOOLEAN
    OBVIOUS
  <2>2. QED
    BY <1>9, <2>1, QueryInv DEF hash_map_clear
<1>10. CASE hash_map_destroy
  BY <1>10, DestroyInv
<1>11. CASE UNCHANGED vars
  <2>1. UNCHANGED <<hash_map, item, buffer, call, returned, dangling, doubleFree>>
    BY <1>11 DEF vars
  <2>2. TypeOK /\ TypeOK'
    BY <2>1 DEF Inv, TypeOK
  <2>3. Linked(c)' /\ NamesInv(c)'
    BY <1>1, <1>2, <2>1, <2>2, Undisturbed
  <2>4. QED
    BY <2>2, <2>3 DEF Inv
<1>12. QED
  BY <1>2, <1>3, <1>4, <1>5, <1>6, <1>7, <1>8, <1>9, <1>10, <1>11 DEF Next
-----------------------------------------------------------------------------
(* The map that the table is *)

\* What stands for contents in Map.
Contents ==
  [name \in {Text(a) : a \in Live} |-> item[CHOOSE a \in Live : Text(a) = name].data]

NamesOwn == \A a1, a2 \in Live : Text(a1) = Text(a2) => a1 = a2

\* The element of each item is under the item's name, and nothing else is in the map.
ContentsSpec ==
  /\ Contents = [name \in DOMAIN Contents |-> Contents[name]]
  /\ DOMAIN Contents = {Text(a) : a \in Live}
  /\ \A a \in Live : Contents[Text(a)] = item[a].data

LEMMA ContentsAre == Inv /\ ~dangling => NamesOwn /\ ContentsSpec
<1> SUFFICES ASSUME Inv, ~dangling PROVE NamesOwn /\ ContentsSpec
  OBVIOUS
<1>1. NamesOwn
  BY DEF NamesOwn, Inv, NamesInv
<1>2. ASSUME NEW a \in Live PROVE Contents[Text(a)] = item[a].data
  <2>1. (CHOOSE e \in Live : Text(e) = Text(a)) = a
    BY <1>1 DEF NamesOwn
  <2>2. Contents[Text(a)] = item[CHOOSE e \in Live : Text(e) = Text(a)].data
    BY DEF Contents
  <2>3. QED
    BY <2>1, <2>2
<1>3. DOMAIN Contents = {Text(a) : a \in Live} /\ Contents = [name \in DOMAIN Contents |-> Contents[name]]
  BY DEF Contents
<1>4. QED
  BY <1>1, <1>2, <1>3 DEF ContentsSpec

\* The same in the next state.
LEMMA ContentsAreNext == Inv' /\ ~dangling' => NamesOwn' /\ ContentsSpec'
BY ContentsAre, PTL

LEMMA FunctionsEqual ==
  ASSUME NEW f, NEW g, f = [x \in DOMAIN f |-> f[x]], g = [x \in DOMAIN g |-> g[x]],
         DOMAIN f = DOMAIN g, \A x \in DOMAIN f : f[x] = g[x]
  PROVE  f = g
OBVIOUS

\* Nothing changes in the items and the strings of their keys.
LEMMA SameContents ==
  ASSUME Inv, Inv', ~dangling, ~dangling', item' = item,
         \A a \in Live : buffer'[item[a].key] = buffer[item[a].key]
  PROVE  Contents' = Contents
<1>1. Live' = Live /\ \A a \in Live : buffer'[item'[a].key].text = Text(a)
  BY DEF Live, Text
<1>2. ContentsSpec /\ ContentsSpec'
  BY ContentsAre, ContentsAreNext
<1>3. DOMAIN Contents' = {buffer'[item'[a].key].text : a \in Live'}
  BY <1>2 DEF ContentsSpec, Text
<1>4. DOMAIN Contents' = DOMAIN Contents
  <2>1. \A n \in DOMAIN Contents' : \E a \in Live : n = Text(a)
    BY <1>1, <1>3
  <2>2. \A a \in Live : Text(a) \in DOMAIN Contents'
    BY <1>1, <1>3
  <2>3. DOMAIN Contents = {Text(a) : a \in Live}
    BY <1>2 DEF ContentsSpec
  <2>4. QED
    BY <2>1, <2>2, <2>3
<1>5. \A a \in Live : Contents'[Text(a)] = item[a].data /\ Contents[Text(a)] = item[a].data
  BY <1>1, <1>2 DEF ContentsSpec, Text
<1>6. \A name \in DOMAIN Contents : Contents'[name] = Contents[name]
  BY <1>2, <1>5 DEF ContentsSpec
<1>7. QED
  BY <1>2, <1>4, <1>6, FunctionsEqual DEF ContentsSpec

LEMMA PutMaps ==
  ASSUME Inv, Inv', ~dangling, NEW key \in Buffer, NEW element \in Element, buffer[key].live,
         hash_map_put(key, element), NEW name, name = buffer[key].text
  PROVE  Map!Put(name, element)
<1> DEFINE after == [n \in DOMAIN Contents \cup {name} |-> IF n = name THEN element ELSE Contents[n]]
<1>1. PICK c \in [Bucket -> Seq(Address)] : Linked(c) /\ NamesInv(c)
  BY DEF Inv
<1>2. TypeOK /\ name \in Name
  BY PutCases DEF Inv
<1>3. buffer' = buffer /\ dangling' = dangling /\ doubleFree' = doubleFree
  BY DEF hash_map_put
<1>4. ContentsSpec /\ ContentsSpec' /\ NamesOwn
  BY <1>3, ContentsAre, ContentsAreNext
<1>5. /\ DOMAIN Contents' = {buffer[item'[a].key].text : a \in Live'}
      /\ \A a \in Live' : Contents'[buffer[item'[a].key].text] = item'[a].data
      /\ Contents' = [n \in DOMAIN Contents' |-> Contents'[n]]
  BY <1>3, <1>4 DEF ContentsSpec, Text
<1>6. /\ DOMAIN Contents = {Text(a) : a \in Live}
      /\ \A a \in Live : Contents[Text(a)] = item[a].data
  BY <1>4 DEF ContentsSpec
<1>7. ASSUME NEW found \in Live, Text(found) = name,
             item' = [item EXCEPT ![found].data = element], hash_map' = hash_map
      PROVE  Contents' = after
  <2>1. /\ Live' = Live
        /\ \A a \in Live : /\ item'[a].key = item[a].key
                           /\ item'[a].data = IF a = found THEN element ELSE item[a].data
    BY <1>1, <1>2, <1>3, <1>7, ReplacedData
  <2>2. DOMAIN Contents' = DOMAIN Contents /\ name \in DOMAIN Contents
    <3>1. \A a \in Live : buffer[item'[a].key].text = Text(a)
      BY <2>1 DEF Text
    <3>2. \A n \in DOMAIN Contents' : \E a \in Live : n = Text(a)
      BY <1>5, <2>1, <3>1
    <3>3. \A a \in Live : Text(a) \in DOMAIN Contents'
      BY <1>5, <2>1, <3>1
    <3>4. QED
      BY <1>6, <1>7, <3>2, <3>3
  <2>3. ASSUME NEW a \in Live PROVE Contents'[Text(a)] = after[Text(a)]
    <3>1. Contents'[Text(a)] = IF a = found THEN element ELSE item[a].data
      BY <1>5, <2>1 DEF Text
    <3>2. Text(a) = name <=> a = found
      BY <1>4, <1>7 DEF NamesOwn
    <3>3. QED
      BY <1>6, <3>1, <3>2
  <2>4. \A n \in DOMAIN Contents : Contents'[n] = after[n]
    BY <1>6, <2>3
  <2>5. DOMAIN after = DOMAIN Contents
    BY <2>2
  <2>6. after = [n \in DOMAIN after |-> after[n]]
    OBVIOUS
  <2> HIDE DEF after
  <2>7. QED
    BY <1>5, <2>2, <2>4, <2>5, <2>6, FunctionsEqual
<1>8. ASSUME \A a \in Live : Text(a) # name, NEW new \in Address \ Live,
             item' = [item EXCEPT ![new] =
                        [key |-> key, data |-> element, ptrnext |-> hash_map[hash_code[name]]]],
             hash_map' = [hash_map EXCEPT ![hash_code[name]] = new]
      PROVE  Contents' = after
  <2>1. /\ Live' = Live \cup {new}
        /\ \A a \in Live : item'[a] = item[a]
        /\ item'[new].key = key /\ item'[new].data = element
    BY <1>1, <1>2, <1>3, <1>8, PutAtHead
  <2>2. /\ \A a \in Live : buffer[item'[a].key].text = Text(a)
        /\ buffer[item'[new].key].text = name
    BY <2>1 DEF Text
  <2>3. DOMAIN Contents' = DOMAIN Contents \cup {name}
    BY <1>5, <1>6, <2>1, <2>2
  <2>4. \A a \in Live : Contents'[Text(a)] = after[Text(a)]
    BY <1>5, <1>6, <1>8, <2>1, <2>2
  <2>5. Contents'[name] = after[name]
    BY <1>5, <2>1, <2>2
  <2>6. \A n \in DOMAIN Contents \cup {name} : Contents'[n] = after[n]
    BY <1>6, <2>4, <2>5
  <2>7. after = [n \in DOMAIN after |-> after[n]] /\ DOMAIN after = DOMAIN Contents \cup {name}
    OBVIOUS
  <2> HIDE DEF after
  <2>8. QED
    BY <1>5, <2>3, <2>6, <2>7, FunctionsEqual
<1>9. ASSUME UNCHANGED table PROVE Contents' = Contents
  BY <1>3, <1>9, SameContents DEF table
<1>10. (\A a \in Live : Text(a) # name) => name \notin DOMAIN Contents
  BY <1>6
<1>11. \/ Called("put", name, TRUE) /\ Contents' = after
       \/ name \notin DOMAIN Contents /\ Called("put", name, FALSE) /\ Contents' = Contents
  BY <1>7, <1>8, <1>9, <1>10, PutCases
<1>12. QED
  BY <1>11 DEF Map!Put, Map!Called, Called, Contents

LEMMA QueryKeeps ==
  ASSUME Inv, Inv', ~dangling, NEW op, NEW key, NEW result, Query(op, key, result)
  PROVE  Contents' = Contents /\ call' = [op |-> op, name |-> key] /\ returned' = result
<1>1. item' = item /\ buffer' = buffer /\ dangling' = dangling
  BY DEF Query, table
<1>2. QED
  BY <1>1, SameContents DEF Query, Called

LEMMA QueryMaps ==
  ASSUME Inv, Inv', ~dangling, NEW name \in Name
  PROVE  /\ hash_map_has(name) => Map!Has(name)
         /\ hash_map_get(name) => Map!Get(name)
<1>1. PICK c \in [Bucket -> Seq(Address)] : Linked(c) /\ NamesInv(c)
  BY DEF Inv
<1>2. /\ DOMAIN Contents = {Text(a) : a \in Live}
      /\ \A a \in Live : Contents[Text(a)] = item[a].data
  BY ContentsAre DEF ContentsSpec
<1>3. \/ hash_search(name) = NULL /\ name \notin DOMAIN Contents
      \/ /\ hash_search(name) # NULL /\ name \in DOMAIN Contents
         /\ Contents[name] = item[hash_search(name)].data
  <2>1. CASE Found(name) = {}
    BY <1>1, <1>2, <2>1, Search DEF Inv
  <2>2. CASE Found(name) # {}
    <3>1. hash_search(name) # NULL /\ hash_search(name) \in Live /\ Text(hash_search(name)) = name
      BY <1>1, <2>2, Search DEF Inv
    <3>2. QED
      BY <1>2, <3>1
  <2>3. QED
    BY <2>1, <2>2
<1>5. ASSUME hash_map_has(name) PROVE Map!Has(name)
  <2>1. /\ Contents' = Contents /\ call' = [op |-> "has", name |-> name]
        /\ returned' = (hash_search(name) # NULL)
    BY <1>5, QueryKeeps DEF hash_map_has
  <2>2. (hash_search(name) # NULL) = (name \in DOMAIN Contents)
    BY <1>3
  <2>3. QED
    BY <2>1, <2>2 DEF Map!Has, Map!Called, Contents
<1>6. ASSUME hash_map_get(name) PROVE Map!Get(name)
  <2>1. /\ Contents' = Contents /\ call' = [op |-> "get", name |-> name]
        /\ returned' = IF hash_search(name) # NULL THEN item[hash_search(name)].data ELSE NULL
    BY <1>6, QueryKeeps DEF hash_map_get
  <2>2. returned' = IF name \in DOMAIN Contents THEN Contents[name] ELSE NULL
    BY <1>3, <2>1
  <2>3. QED
    BY <2>1, <2>2 DEF Map!Get, Map!Called, Contents
<1>7. QED
  BY <1>5, <1>6

LEMMA ClearMaps ==
  ASSUME Inv, Inv', ~dangling, hash_map_clear
  PROVE  Map!IsEmpty
<1>1. PICK c \in [Bucket -> Seq(Address)] : Linked(c) /\ NamesInv(c)
  BY DEF Inv
<1>2. DOMAIN Contents = {Text(a) : a \in Live}
  BY ContentsAre DEF ContentsSpec
<1>3. /\ Contents' = Contents /\ call' = [op |-> "clear", name |-> NULL]
      /\ returned' = (\A i \in Bucket : hash_map[i] = NULL)
  BY QueryKeeps DEF hash_map_clear
<1>4. ASSUME NEW i \in Bucket, hash_map[i] # NULL PROVE Live # {}
  <2>1. c[i] # <<>> /\ c[i] \in Seq(Address)
    BY <1>1, <1>4 DEF Linked
  <2>2. 1 \in 1..Len(c[i])
    BY <2>1
  <2>3. QED
    BY <1>1, <2>2 DEF Linked
<1>5. ASSUME NEW a \in Live PROVE \E i \in Bucket : hash_map[i] # NULL
  <2>1. PICK i \in Bucket : \E k \in 1..Len(c[i]) : c[i][k] = a
    BY <1>1 DEF Linked
  <2>2. c[i] # <<>> /\ c[i] \in Seq(Address)
    BY <1>1, <2>1 DEF Linked
  <2>3. c[i][1] \in Address
    BY <2>2
  <2>4. hash_map[i] = c[i][1]
    BY <1>1, <2>2 DEF Linked
  <2>5. QED
    BY <2>3, <2>4, SymbolTableAssumption
<1>6. (\A i \in Bucket : hash_map[i] = NULL) = (Live = {})
  BY <1>4, <1>5
<1>7. (Live = {}) = (DOMAIN Contents = {})
  BY <1>2
<1>8. QED
  BY <1>3, <1>6, <1>7 DEF Map!IsEmpty, Map!Called, Contents

LEMMA DeleteMaps ==
  ASSUME Inv, Inv', ~dangling, NEW name \in Name, hash_map_delete_item(name)
  PROVE  Map!Delete(name)
<1> DEFINE after == [n \in DOMAIN Contents \ {name} |-> Contents[n]]
<1>1. PICK c \in [Bucket -> Seq(Address)] : Linked(c) /\ NamesInv(c)
  BY DEF Inv
<1>2. /\ buffer' = buffer /\ dangling' = dangling /\ doubleFree' = doubleFree
      /\ Called("delete_item", name, NULL)
  BY DeleteCases
<1>3. ContentsSpec /\ ContentsSpec' /\ NamesOwn
  BY <1>2, ContentsAre, ContentsAreNext
<1>4. /\ DOMAIN Contents' = {buffer[item'[a].key].text : a \in Live'}
      /\ \A a \in Live' : Contents'[buffer[item'[a].key].text] = item'[a].data
      /\ Contents' = [n \in DOMAIN Contents' |-> Contents'[n]]
  BY <1>2, <1>3 DEF ContentsSpec, Text
<1>5. /\ DOMAIN Contents = {Text(a) : a \in Live}
      /\ \A a \in Live : Contents[Text(a)] = item[a].data
      /\ Contents = [n \in DOMAIN Contents |-> Contents[n]]
  BY <1>3 DEF ContentsSpec
<1>6. after = [n \in DOMAIN after |-> after[n]] /\ DOMAIN after = DOMAIN Contents \ {name}
  OBVIOUS
<1>7. ASSUME UNCHANGED table, \A a \in Live : Text(a) # name PROVE Contents' = after
  <2>1. Contents' = Contents
    BY <1>2, <1>7, SameContents DEF table
  <2>2. name \notin DOMAIN Contents
    BY <1>5, <1>7
  <2>3. \A n \in DOMAIN Contents : Contents[n] = after[n]
    BY <2>2
  <2>4. DOMAIN after = DOMAIN Contents
    BY <2>2
  <2> HIDE DEF after
  <2>5. QED
    BY <1>5, <1>6, <2>1, <2>3, <2>4, FunctionsEqual
<1>8. ASSUME NEW place \in Places, At(place) \in Live, Text(At(place)) = name, Unlink(place)
      PROVE  Contents' = after
  <2>1. /\ Live' = Live \ {At(place)}
        /\ \A a \in Live' : item'[a].key = item[a].key /\ item'[a].data = item[a].data
    BY <1>1, <1>2, <1>8, Unlinked DEF Inv
  <2>2. /\ \A a \in Live' : buffer[item'[a].key].text = Text(a)
        /\ \A a \in Live : Text(a) # name <=> a \in Live'
    BY <1>3, <1>8, <2>1 DEF Text, NamesOwn
  <2>3. DOMAIN Contents' = DOMAIN Contents \ {name}
    BY <1>4, <1>5, <2>1, <2>2
  <2>4. \A a \in Live' : Contents'[Text(a)] = Contents[Text(a)]
    BY <1>4, <1>5, <2>1, <2>2
  <2>5. ASSUME NEW n \in DOMAIN Contents' PROVE Contents'[n] = after[n]
    <3>1. PICK a \in Live' : n = Text(a)
      BY <1>4, <2>2
    <3>2. after[n] = Contents[n]
      BY <2>3
    <3>3. QED
      BY <2>4, <3>1, <3>2
  <2> HIDE DEF after
  <2>6. QED
    BY <1>4, <1>6, <2>3, <2>5, FunctionsEqual
<1>9. Contents' = after
  BY <1>7, <1>8, DeleteCases
<1>10. QED
  BY <1>2, <1>9 DEF Map!Delete, Map!Called, Called, Contents

LEMMA DestroyMaps ==
  ASSUME Inv, hash_map_destroy
  PROVE  Map!Destroy
<1>1. Live' = {}
  BY Destroyed
<1>2. Contents' = [name \in {} |-> NULL]
  BY <1>1 DEF Contents
<1>3. QED
  BY <1>2 DEF Map!Destroy, Map!Called, hash_map_destroy, Called, Contents

\* As long as the caller frees no key in the table, a step is one of the map or none.
LEMMA StepMaps == Inv /\ Inv' /\ [Next]_vars => [dangling' \/ Map!Next]_(Map!vars)
<1> SUFFICES ASSUME Inv, Inv', [Next]_vars, ~dangling' PROVE Map!Next \/ UNCHANGED Map!vars
  OBVIOUS
<1>1. PICK c \in [Bucket -> Seq(Address)] : Linked(c) /\ NamesInv(c)
  BY DEF Inv
<1>2. \A b \in Buffer : buffer[b].live => buffer[b].text \in Name
  BY <1>1 DEF NamesInv
<1>3. dangling' = dangling => ~dangling
  OBVIOUS
<1>4. ASSUME NEW b \in Buffer, NEW name \in Name, NewKey(b, name) PROVE UNCHANGED Map!vars
  <2>1. /\ dangling' = dangling /\ call' = call /\ returned' = returned /\ item' = item
    BY <1>4 DEF NewKey, table
  <2>2. \A a \in Live : buffer'[item[a].key] = buffer[item[a].key]
    BY <1>3, <1>4, <2>1, NewKeyInv
  <2>3. Contents' = Contents
    BY <1>3, <2>1, <2>2, SameContents
  <2>4. QED
    BY <2>1, <2>3 DEF Map!vars, Contents
<1>5. ASSUME NEW b \in Buffer, FreeKey(b) PROVE UNCHANGED Map!vars
  <2>1. call' = call /\ returned' = returned /\ item' = item
    BY <1>5 DEF FreeKey, table
  <2>2. ~dangling /\ \A a \in Live : buffer'[item[a].key] = buffer[item[a].key]
    BY <1>5, FreeKeyInv
  <2>3. Contents' = Contents
    BY <2>1, <2>2, SameContents
  <2>4. QED
    BY <2>1, <2>3 DEF Map!vars, Contents
<1>6. ASSUME NEW b \in Buffer, buffer[b].live, NEW element \in Element, hash_map_put(b, element)
      PROVE  Map!Next
  <2>1. dangling' = dangling
    BY <1>6 DEF hash_map_put
  <2>2. PICK name \in Name : name = buffer[b].text
    BY <1>2, <1>6
  <2>3. Map!Put(name, element)
    BY <1>3, <1>6, <2>1, <2>2, PutMaps
  <2>4. QED
    BY <2>3 DEF Map!Next
<1>7. ASSUME NEW name \in Name, hash_map_has(name) \/ hash_map_get(name) PROVE Map!Next
  <2>1. ~dangling
    BY <1>3, <1>7 DEF hash_map_has, hash_map_get, Query
  <2>2. Map!Has(name) \/ Map!Get(name)
    BY <1>7, <2>1, QueryMaps
  <2>3. QED
    BY <2>2 DEF Map!Next
<1>8. ASSUME NEW name \in Name, hash_map_delete_item(name) PROVE Map!Next
  <2>1. ~dangling
    BY <1>3, <1>8 DEF hash_map_delete_item
  <2>2. Map!Delete(name)
    BY <1>8, <2>1, DeleteMaps
  <2>3. QED
    BY <2>2 DEF Map!Next
<1>9. CASE hash_map_clear
  <2>1. ~dangling
    BY <1>3, <1>9 DEF hash_map_clear, Query
  <2>2. QED
    BY <1>9, <2>1, ClearMaps DEF Map!Next
<1>10. CASE hash_map_destroy
  BY <1>10, DestroyMaps DEF Map!Next
<1>11. CASE UNCHANGED vars
  <2>1. call' = call /\ returned' = returned /\ item' = item /\ buffer' = buffer
        /\ dangling' = dangling
    BY <1>11 DEF vars
  <2>2. Contents' = Contents
    BY <1>3, <2>1, SameContents
  <2>3. QED
    BY <2>1, <2>2 DEF Map!vars, Contents
<1>12. QED
  BY <1>2, <1>4, <1>5, <1>6, <1>7, <1>8, <1>9, <1>10, <1>11 DEF Next

LEMMA InitMaps == Init => Map!Init
<1> SUFFICES ASSUME Init PROVE Map!Init
  OBVIOUS
<1>1. Live = {}
  BY DEF Init, Live
<1>2. Contents = [name \in {} |-> NULL]
  BY <1>1 DEF Contents
<1>3. QED
  BY <1>2 DEF Map!Init, Init, Contents
-----------------------------------------------------------------------------
(* The theorems *)

THEOREM Invariance == Spec => []Inv
<1>1. Init => Inv
  BY InitInv
<1>2. Inv /\ [Next]_vars => Inv'
  BY NextInv
<1>3. QED
  BY <1>1, <1>2, PTL DEF Spec

\* The table and the heaps of items and strings keep their types: no operation takes what
\* a freed item holds for an address or returns it.
THEOREM TypeCorrect == Spec => []TypeOK
<1>1. Inv => TypeOK
  BY DEF Inv
<1>2. QED
  BY <1>1, Invariance, PTL

\* Every item that is not freed is in one chain, once; while the keys in the table live,
\* it is in the bucket of its name, which no other item has, and no key is freed twice.
THEOREM ChainsSound == Spec => []Chained
<1>1. Inv => Chained
  BY InvChained
<1>2. QED
  BY <1>1, Invariance, PTL

\* The table is a map from names to elements until the caller frees a key it holds.
THEOREM TableIsMap == Spec => Implements
<1>1. Init => Map!Init
  BY InitMaps
<1>2. Inv /\ Inv' /\ [Next]_vars => [dangling' \/ Map!Next]_(Map!vars)
  BY StepMaps
<1>3. QED
  BY <1>1, <1>2, Invariance, PTL DEF Spec, Implements
=============================================================================
