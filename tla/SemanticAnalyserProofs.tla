----------------------- MODULE SemanticAnalyserProofs -----------------------
(***************************************************************************)
(* Theorems about SemanticAnalyser for every tree: a node is handled in    *)
(* the scopes that enclose it, in its order in the source and as often as  *)
(* it is listed, and the verdict on it depends on its place alone.         *)
(*                                                                         *)
(* A step of the traversal is either the discovery of a node (Reveal) or a *)
(* handler, which takes the top of the deque away and pushes what the node *)
(* lists in reverse; the proof shows once for all handlers what that does. *)
(***************************************************************************)
EXTENDS SemanticAnalyser, SequenceTheorems, FiniteSetTheorems, WellFoundedInduction, TLAPS

-----------------------------------------------------------------------------
(* Shapes *)

\* How many children a node of this type has.
Arities(type) ==
    IF type \in {"RETURN", "ASSIGN", "ELSE", "FUNCTION_DEFINITION"} THEN {1}
    ELSE IF type \in {"WHILE", "IF", "ELIF"} THEN {2, 3}
    ELSE IF type = "CONSEQUENT" THEN Nat
    ELSE {0}

\* What every shape that the grammar allows at a place has in common.
ShapeOK(place, shape) ==
    /\ shape.type \in NodeType \ {"unknown", "NONE"}
    /\ place = "root" => shape.type = "CONSEQUENT"
    /\ shape.children \in Seq(Places \cup {"again"})
    /\ Len(shape.children) \in Arities(shape.type)
    /\ \A i \in DOMAIN shape.children :
          /\ shape.children[i] = "again" => shape.type = "WHILE" /\ i = 3
          /\ shape.children[i] = "none" => shape.type = "RETURN"

LEMMA LeafShape ==
  ASSUME NEW types, NEW shape \in Leaves(types)
  PROVE  shape.type \in types /\ shape.children = <<>>
BY DEF Leaves

LEMMA NodeShape ==
  ASSUME NEW type, NEW children, NEW shape \in Nodes(type, children)
  PROVE  shape.type = type /\ shape.children \in children
BY DEF Nodes

LEMMA BlockShape ==
  ASSUME NEW places \in SUBSET (Places \ {"none"}), NEW shape \in Block(places)
  PROVE  ShapeOK("root", shape)
<1>1. PICK n \in 1..MaxStatements : shape \in Nodes("CONSEQUENT", [1..n -> places])
  BY DEF Block
<1>2. shape.type = "CONSEQUENT" /\ shape.children \in [1..n -> places] /\ n \in Nat
  BY <1>1, NodeShape, TreeAssumption
<1>3. /\ shape.children \in Seq(Places \cup {"again"})
      /\ Len(shape.children) = n
      /\ \A i \in DOMAIN shape.children : shape.children[i] \in places
  BY <1>2
<1>4. "again" \notin Places
  BY DEF Places
<1>5. QED
  BY <1>2, <1>3, <1>4 DEF ShapeOK, Arities, NodeType

LEMMA SimpleShape ==
  ASSUME NEW place, place # "root", NEW shape \in SimpleShapes
  PROVE  ShapeOK(place, shape)
<1>1. CASE shape \in Leaves(Simple \ {"RETURN"})
  <2>1. shape.type \in Simple \ {"RETURN"} /\ shape.children = <<>>
    BY <1>1, LeafShape
  <2>2. <<>> \in Seq(Places \cup {"again"}) /\ Len(<<>>) = 0
    OBVIOUS
  <2>3. QED
    BY <2>1, <2>2 DEF ShapeOK, Arities, NodeType, Simple, Flow
<1>2. CASE shape \in ReturnShapes
  <2>1. shape.type = "RETURN" /\ shape.children \in {<<"none">>, <<"expression">>}
    BY <1>2, NodeShape DEF ReturnShapes
  <2>2. PICK p \in {"none", "expression"} : shape.children = <<p>>
    BY <2>1
  <2>3. <<p>> \in Seq(Places \cup {"again"}) /\ Len(<<p>>) = 1 /\ \A i \in DOMAIN <<p>> : <<p>>[i] = p
    BY DEF Places
  <2>4. QED
    BY <2>1, <2>2, <2>3 DEF ShapeOK, Arities, NodeType, Simple, Flow
<1>3. QED
  BY <1>1, <1>2 DEF SimpleShapes

\* One child, two children, and two with a third one.
LEMMA Lists ==
  ASSUME NEW S, NEW x \in S, NEW y \in S, NEW z \in S
  PROVE  /\ <<x>> \in Seq(S) /\ Len(<<x>>) = 1 /\ <<x>>[1] = x /\ DOMAIN <<x>> = {1}
         /\ <<x, y>> \in Seq(S) /\ Len(<<x, y>>) = 2 /\ <<x, y>>[1] = x /\ <<x, y>>[2] = y
         /\ DOMAIN <<x, y>> = {1, 2}
         /\ <<x, y, z>> \in Seq(S) /\ Len(<<x, y, z>>) = 3
         /\ <<x, y, z>>[1] = x /\ <<x, y, z>>[2] = y /\ <<x, y, z>>[3] = z
         /\ DOMAIN <<x, y, z>> = {1, 2, 3}
<1>1. 1..1 = {1} /\ 1..2 = {1, 2} /\ 1..3 = {1, 2, 3}
  OBVIOUS
<1>2. QED
  BY <1>1

LEMMA BranchShape ==
  ASSUME NEW place, place # "root", NEW type \in {"IF", "ELIF"},
         NEW shape \in BranchShapes(type)
  PROVE  ShapeOK(place, shape)
<1>1. /\ shape.type = type
      /\ shape.children \in {<<"expression", b>> : b \in Bodies} \cup
                            {<<"expression", b, "elif">> : b \in Bodies}
  BY NodeShape DEF BranchShapes
<1>2. PICK b \in Bodies : shape.children \in {<<"expression", b>>, <<"expression", b, "elif">>}
  BY <1>1
<1>3. /\ "expression" \in Places \cup {"again"} /\ b \in Places \cup {"again"}
      /\ "elif" \in Places \cup {"again"}
      /\ b # "again" /\ b # "none"
  BY DEF Bodies, Places
<1>4. /\ shape.children \in Seq(Places \cup {"again"}) /\ Len(shape.children) \in {2, 3}
      /\ \A i \in DOMAIN shape.children : shape.children[i] # "again" /\ shape.children[i] # "none"
  <2>1. CASE shape.children = <<"expression", b>>
    BY <1>3, <2>1, Lists
  <2>2. CASE shape.children = <<"expression", b, "elif">>
    BY <1>3, <2>2, Lists
  <2>3. QED
    BY <1>2, <2>1, <2>2
<1>5. QED
  BY <1>1, <1>4 DEF ShapeOK, Arities, NodeType

LEMMA StatementShape ==
  ASSUME NEW place, place # "root", NEW shape \in StatementShapes
  PROVE  ShapeOK(place, shape)
<1>0. /\ \A b \in Bodies : b \in Places \cup {"again"} /\ b # "again" /\ b # "none"
      /\ "expression" \in Places \cup {"again"} /\ "value" \in Places \cup {"again"}
      /\ "again" \in Places \cup {"again"}
  BY DEF Bodies, Places
<1>1. CASE shape \in SimpleShapes
  BY <1>1, SimpleShape
<1>2. CASE shape \in FunctionShapes \cup ElseShapes \cup AssignShapes
  <2>1. /\ shape.type \in {"FUNCTION_DEFINITION", "ELSE", "ASSIGN"}
        /\ \E p \in Bodies \cup {"value"} : shape.children = <<p>>
    BY <1>2, NodeShape DEF FunctionShapes, ElseShapes, AssignShapes
  <2>2. PICK p \in Bodies \cup {"value"} : shape.children = <<p>>
    BY <2>1
  <2>3. p \in Places \cup {"again"} /\ p # "again" /\ p # "none"
    BY <1>0, <2>2
  <2>4. /\ shape.children \in Seq(Places \cup {"again"}) /\ Len(shape.children) = 1
        /\ \A i \in DOMAIN shape.children : shape.children[i] = p
    BY <2>2, <2>3, Lists
  <2>5. QED
    BY <2>1, <2>3, <2>4 DEF ShapeOK, Arities, NodeType, Definition
<1>3. CASE shape \in BranchShapes("IF")
  BY <1>3, BranchShape
<1>4. CASE shape \in WhileShapes
  <2>1. /\ shape.type = "WHILE"
        /\ shape.children \in {<<"expression", b>> : b \in Bodies} \cup
                              {<<"expression", b, "again">> : b \in Bodies}
    BY <1>4, NodeShape DEF WhileShapes
  <2>2. PICK b \in Bodies :
          shape.children \in {<<"expression", b>>, <<"expression", b, "again">>}
    BY <2>1
  <2>3. /\ shape.children \in Seq(Places \cup {"again"}) /\ Len(shape.children) \in {2, 3}
        /\ \A i \in DOMAIN shape.children :
              /\ shape.children[i] = "again" => i = 3
              /\ shape.children[i] # "none"
    <3>1. CASE shape.children = <<"expression", b>>
      BY <1>0, <3>1, Lists
    <3>2. CASE shape.children = <<"expression", b, "again">>
      BY <1>0, <3>2, Lists
    <3>3. QED
      BY <2>2, <3>1, <3>2
  <2>4. QED
    BY <2>1, <2>3 DEF ShapeOK, Arities, NodeType
<1>5. QED
  BY <1>1, <1>2, <1>3, <1>4 DEF StatementShapes

LEMMA ShapesOK ==
  ASSUME NEW place \in Places \ {"none"}, NEW shape \in Shapes(place)
  PROVE  ShapeOK(place, shape)
<1>0. ASSUME NEW types \in SUBSET {"CONSEQUENT", "NULL", "EXPRESSION", "FUNCTION_CALL"},
             shape \in Leaves(types), place = "root" => types = {"CONSEQUENT"}
      PROVE  ShapeOK(place, shape)
  <2>1. shape.type \in types /\ shape.children = <<>>
    BY <1>0, LeafShape
  <2>2. <<>> \in Seq(Places \cup {"again"}) /\ Len(<<>>) = 0 /\ DOMAIN <<>> = {}
    OBVIOUS
  <2>3. /\ shape.type \in {"CONSEQUENT", "NULL", "EXPRESSION", "FUNCTION_CALL"}
        /\ place = "root" => shape.type = "CONSEQUENT"
    BY <1>0, <2>1
  <2>4. 0 \in Arities(shape.type) /\ shape.type \in NodeType \ {"unknown", "NONE"}
    BY <2>3 DEF Arities, NodeType, Simple
  <2>5. QED
    BY <2>1, <2>2, <2>3, <2>4 DEF ShapeOK
<1>1. CASE place = "root"
  <2>1. shape \in Block({"statement"}) \/ shape \in Leaves({"CONSEQUENT"})
    BY <1>1 DEF Shapes
  <2>2. {"statement"} \in SUBSET (Places \ {"none"})
    BY DEF Places
  <2>3. QED
    BY <1>0, <1>1, <2>1, <2>2, BlockShape
<1>2. CASE place = "block"
  <2>1. shape \in Block({"suite"}) /\ {"suite"} \in SUBSET (Places \ {"none"})
    BY <1>2 DEF Shapes, Places
  <2>2. ShapeOK("root", shape)
    BY <2>1, BlockShape
  <2>3. QED
    BY <1>2, <2>2 DEF ShapeOK
<1>3. CASE place = "simple"
  BY <1>3, SimpleShape DEF Shapes
<1>4. CASE place = "statement"
  BY <1>4, StatementShape DEF Shapes
<1>5. CASE place = "suite"
  BY <1>0, <1>5, StatementShape DEF Shapes
<1>6. CASE place = "elif"
  BY <1>6, BranchShape DEF Shapes
<1>7. CASE place = "expression"
  BY <1>0, <1>7 DEF Shapes
<1>8. CASE place = "value"
  BY <1>0, <1>8 DEF Shapes
<1>9. QED
  BY <1>1, <1>2, <1>3, <1>4, <1>5, <1>6, <1>7, <1>8 DEF Places
-----------------------------------------------------------------------------
(* The invariant *)

Known(n) == ast[n].type # "unknown"

\* The node is of a type its place and its children allow, and lies in scopes of
\* nodes that are known.
NodeInv(n) ==
    /\ Len(ast[n].nodes) \in Arities(ast[n].type)
    /\ ast[n].place = "none" <=> ast[n].type = "NONE"
    /\ ast[n].place = "root" => ast[n].type \in {"unknown", "CONSEQUENT"}
    /\ ast[n].within # <<>>
    /\ \A i \in DOMAIN ast[n].within :
          /\ ast[n].within[i] \in DOMAIN ast
          /\ ast[n].within[i] = 1 \/ Known(ast[n].within[i])

\* The children of a node, in their order; the one that is listed again is the child
\* of a while.
ChildrenInv(n) ==
    /\ \A i \in DOMAIN ast[n].nodes :
          LET c == ast[n].nodes[i]
          IN /\ c \in DOMAIN ast /\ c > n
             /\ ast[c].within = IF Opens(ast[n].type, i)
                                THEN Append(ast[n].within, n) ELSE ast[n].within
             /\ ast[n].type # "RETURN" => ast[c].type # "NONE"
    /\ \A i, j \in DOMAIN ast[n].nodes : i < j =>
           /\ ast[n].nodes[i] <= ast[n].nodes[j]
           /\ ast[n].type # "WHILE" => ast[n].nodes[i] # ast[n].nodes[j]

OneParent ==
    \A n, m \in DOMAIN ast : n # m =>
      \A i \in DOMAIN ast[n].nodes, j \in DOMAIN ast[m].nodes : ast[n].nodes[i] # ast[m].nodes[j]

TreeInv ==
    /\ 1 \in DOMAIN ast /\ ast[1].place = "root" /\ ast[1].within = <<1>>
    /\ \A n \in DOMAIN ast : NodeInv(n) /\ ChildrenInv(n)
    /\ OneParent

ItemInv(item) ==
    /\ item.within # <<>>
    /\ IsNode(item) => item.node \in DOMAIN ast /\ item.within = ast[item.node].within

\* Each of these items is handled in the scopes the one on it leaves open: the last
\* one in these roots, and the first one leaves those below.
Link(items, roots, below) ==
    IF items = <<>> THEN roots = below
    ELSE /\ Last(items).within = roots
         /\ \A k \in 1..(Len(items) - 1) : items[k].within = After(items[k + 1])
         /\ After(items[1]) = below

TraversalInv ==
    /\ \A k \in DOMAIN tree_traversing_deque : ItemInv(tree_traversing_deque[k])
    /\ pc = "analysis" => Link(tree_traversing_deque, Roots, <<1>>)
    /\ pc \in {"done", "exited"} => tree_traversing_deque = <<>>

Bad == {"ERROR_SYNTAX", "ERROR_INTERNAL"}

ReportInv ==
    /\ status \in Bad <=> \E k \in DOMAIN reported : reported[k][2] \in Bad
    /\ \A k \in DOMAIN reported :
         LET n == reported[k][1]
         IN IF n = 0 THEN reported[k][2] = "ERROR_OK"
            ELSE /\ n \in DOMAIN ast /\ Known(n)
                 /\ reported[k][2] \in Bad <=> Misplaced(n) \/ NotImplemented(n)

\* A node becomes known as it is handled.
HandledInv ==
    \A n \in DOMAIN ast : Known(n) /\ ast[n].type # "NONE" =>
      \/ HandledAt(n) # {}
      \/ tree_traversing_deque # <<>> /\ Top.node = n

OrderInv ==
    \A n \in DOMAIN ast : \A i, j \in DOMAIN ast[n].nodes :
      i < j /\ ast[n].nodes[i] # ast[n].nodes[j] =>
        \A p \in DOMAIN tree_traversing_deque :
          tree_traversing_deque[p].node = ast[n].nodes[j] =>
            \/ HandledAt(ast[n].nodes[i]) # {}
            \/ \E q \in DOMAIN tree_traversing_deque :
                  q > p /\ tree_traversing_deque[q].node = ast[n].nodes[i]

PendingAt(n) == {k \in DOMAIN tree_traversing_deque : tree_traversing_deque[k].node = n}

Rejected(n) ==
    /\ ast[n].type = "FUNCTION_DEFINITION"
    /\ \E k \in HandledAt(n) : reported[k][2] \in {"ERROR_SYNTAX", "ERROR_SEM"}

ListedAt(n, child) == {j \in DOMAIN ast[n].nodes : ast[n].nodes[j] = child}

CountInv ==
    \A n \in DOMAIN ast : \A i \in DOMAIN ast[n].nodes :
      LET c == ast[n].nodes[i]
      IN \/ ast[c].type = "NONE"
         \/ Rejected(n)
         \/ Cardinality(HandledAt(c)) + Cardinality(PendingAt(c))
              = Cardinality(HandledAt(n)) * Cardinality(ListedAt(n, c))

NoDefinitions == \A n \in DOMAIN ast : ast[n].type \notin Definition \cup {"NULL"}

SafeInv ==
    NoDefinitions =>
      /\ \A i \in DOMAIN current_scope : current_scope[i].local_table = <<>>
      /\ pc # "aborted"
      /\ pc \in {"analysis", "done"} => ~doubleFree
      /\ doubleFree \/ pc = "crashed" =>
            tree_traversing_deque = <<>> /\ \E n \in DOMAIN ast : ElseIsBody(n)

ScopeInv == \A i \in DOMAIN current_scope : current_scope[i].root \in DOMAIN ast

Inv ==
    /\ TypeOK /\ TreeInv /\ TraversalInv /\ ReportInv /\ HandledInv
    /\ HandledInSourceOrder /\ OrderInv /\ CountInv
    /\ ScopeInv /\ NamesInFunctionScopes /\ SafeInv /\ BubblesUp
-----------------------------------------------------------------------------
(* The discovery of a node *)

\* The node t turns out to be of this type and to list k children, m of them new.
Revealed(t, type, k, m) ==
    /\ ast' \in Seq(Node) /\ Len(ast') = Len(ast) + m
    /\ \A x \in DOMAIN ast : x # t => ast'[x] = ast[x]
    /\ ast'[t].type = type /\ ast'[t].place = ast[t].place /\ ast'[t].within = ast[t].within
    /\ Len(ast'[t].nodes) = k
    /\ \A i \in 1..k : ast'[t].nodes[i] = Len(ast) + IF i <= m THEN i ELSE m
    /\ \A i \in 1..m :
          LET c == ast'[Len(ast) + i]
          IN /\ c.nodes = <<>> /\ c.type \in {"unknown", "NONE"}
             /\ c.place = "none" <=> c.type = "NONE"
             /\ c.type = "NONE" => type = "RETURN"
             /\ c.within = IF Opens(type, i) THEN Append(ast[t].within, t)
                                             ELSE ast[t].within
    /\ m = k \/ (type = "WHILE" /\ k = 3 /\ m = 2)
    /\ k \in Arities(type) /\ k \in Nat
    /\ type \in NodeType \ {"unknown", "NONE"}
    /\ ast[t].place = "root" => type = "CONSEQUENT"

LEMMA RevealFacts ==
  ASSUME TypeOK, TreeInv, Reveal, Top.node \in DOMAIN ast
  PROVE  \E type \in NodeType, k, m \in Nat : Revealed(Top.node, type, k, m)
<1> DEFINE t == Top.node
           n == Len(ast)
           within == ast[t].within
<1>1. /\ ast \in Seq(Node) /\ n \in Nat /\ DOMAIN ast = 1..n /\ t \in 1..n
      /\ ast[t] \in Node
  BY DEF TypeOK
<1>2. /\ ast[t].type = "unknown" /\ ast[t].place \in Places \ {"none"}
      /\ within \in Seq(Nat)
  BY <1>1 DEF Reveal, TreeInv, NodeInv, Node
<1> DEFINE fresh(shape) == IF "again" \in Range(shape.children) THEN Front(shape.children)
                                                                ELSE shape.children
           child(shape, i) ==
              [type |-> IF fresh(shape)[i] = "none" THEN "NONE" ELSE "unknown",
               place |-> fresh(shape)[i], nodes |-> <<>>,
               within |-> IF Opens(shape.type, i) THEN Append(within, t) ELSE within]
           nodes(shape) == [i \in DOMAIN shape.children |->
                              n + IF i <= Len(fresh(shape)) THEN i ELSE Len(fresh(shape))]
<1>3. PICK shape \in Shapes(ast[t].place) :
        ast' = [ast EXCEPT ![t].type = shape.type, ![t].nodes = nodes(shape)]
                 \o [i \in DOMAIN fresh(shape) |-> child(shape, i)]
  BY DEF Reveal
<1>4. ShapeOK(ast[t].place, shape)
  BY <1>2, ShapesOK
<1> DEFINE C == shape.children
           F == fresh(shape)
           k == Len(C)
           m == Len(F)
<1>5. /\ C \in Seq(Places \cup {"again"}) /\ k \in Nat /\ DOMAIN C = 1..k
      /\ k \in Arities(shape.type)
  BY <1>4 DEF ShapeOK
<1>6. /\ F \in Seq(Places) /\ m \in Nat /\ m <= k /\ DOMAIN F = 1..m
      /\ \A i \in 1..m : F[i] = C[i]
      /\ m = k \/ (shape.type = "WHILE" /\ k = 3 /\ m = 2)
  <2>1. CASE "again" \in Range(C)
    <3>1. PICK i \in DOMAIN C : C[i] = "again"
      BY <2>1 DEF Range
    <3>2. shape.type = "WHILE" /\ i = 3 /\ k >= 3
      BY <1>4, <1>5, <3>1 DEF ShapeOK
    <3>3. k = 3
      <4>1. Arities("WHILE") = {2, 3}
        BY DEF Arities
      <4> HIDE DEF k
      <4>2. k \in {2, 3}
        BY <1>5, <3>2, <4>1
      <4>3. QED
        BY <3>2, <4>2
    <3>4. F = SubSeq(C, 1, 2)
      BY <2>1, <3>3 DEF Front
    <3>5. SubSeq(C, 1, 2) \in Seq(Places \cup {"again"}) /\ Len(SubSeq(C, 1, 2)) = 2
          /\ \A j \in 1..2 : SubSeq(C, 1, 2)[j] = C[j]
      BY <1>5, <3>3
    <3>6. \A j \in 1..2 : C[j] \in Places
      BY <1>4, <1>5, <3>3 DEF ShapeOK
    <3> HIDE DEF F, C
    <3>7. F \in Seq(Places) /\ m = 2 /\ \A j \in 1..2 : F[j] = C[j]
      BY <3>4, <3>5, <3>6
    <3>8. QED
      BY <3>2, <3>3, <3>7
  <2>2. CASE "again" \notin Range(C)
    <3>1. F = C
      BY <2>2
    <3>2. \A j \in 1..k : C[j] \in Places
      BY <1>5, <2>2 DEF Range
    <3> HIDE DEF F, C
    <3>3. C \in Seq(Places)
      BY <1>5, <3>2
    <3>4. QED
      BY <1>5, <3>1, <3>3
  <2>3. QED
    BY <2>1, <2>2
<1> DEFINE old == [ast EXCEPT ![t].type = shape.type, ![t].nodes = nodes(shape)]
           new == [i \in DOMAIN F |-> child(shape, i)]
<1>7. /\ shape.type \in NodeType \ {"unknown", "NONE"}
      /\ ast[t].place = "root" => shape.type = "CONSEQUENT"
      /\ \A i \in 1..m : F[i] = "none" => shape.type = "RETURN"
  BY <1>4, <1>5, <1>6 DEF ShapeOK
<1>8. /\ nodes(shape) \in Seq(Nat \ {0}) /\ Len(nodes(shape)) = k
      /\ \A i \in 1..k : nodes(shape)[i] = n + IF i <= m THEN i ELSE m
  <2>1. nodes(shape) = [i \in 1..k |-> n + IF i <= m THEN i ELSE m]
    BY <1>5
  <2> HIDE DEF F, C, n, k, m, nodes
  <2>2. \A i \in 1..k : n + (IF i <= m THEN i ELSE m) \in Nat \ {0}
    BY <1>1, <1>5, <1>6
  <2>3. nodes(shape) \in [1..k -> Nat \ {0}]
    BY <2>1, <2>2
  <2>4. QED
    BY <1>5, <2>1, <2>3
<1>9. /\ old \in Seq(Node) /\ Len(old) = n
      /\ \A x \in DOMAIN ast : x # t => old[x] = ast[x]
      /\ old[t].type = shape.type /\ old[t].nodes = nodes(shape)
      /\ old[t].place = ast[t].place /\ old[t].within = within
  <2> DEFINE node == [ast[t] EXCEPT !.type = shape.type, !.nodes = nodes(shape)]
  <2>1. old = [ast EXCEPT ![t] = node]
    BY <1>1
  <2>2. node \in Node /\ node.type = shape.type /\ node.nodes = nodes(shape)
        /\ node.place = ast[t].place /\ node.within = within
    <3> HIDE DEF nodes
    <3>1. QED
      BY <1>1, <1>7, <1>8 DEF Node
  <2> HIDE DEF node, old
  <2>3. QED
    BY <1>1, <2>1, <2>2
<1>10. /\ new \in Seq(Node) /\ Len(new) = m
       /\ \A i \in 1..m : new[i] = child(shape, i)
  <2>1. ASSUME NEW i \in 1..m PROVE child(shape, i) \in Node
    <3>1. F[i] \in Places
      BY <1>6, <2>1
    <3>2. (IF F[i] = "none" THEN "NONE" ELSE "unknown") \in NodeType
      BY DEF NodeType
    <3>3. (IF Opens(shape.type, i) THEN Append(within, t) ELSE within) \in Seq(Nat)
      BY <1>1, <1>2
    <3>4. <<>> \in Seq(Nat \ {0})
      OBVIOUS
    <3>5. QED
      BY <3>1, <3>2, <3>3, <3>4 DEF Node
  <2> HIDE DEF child, F
  <2>2. QED
    BY <1>6, <2>1
<1>11. ast' = old \o new
  BY <1>3
<1> HIDE DEF old, new
<1>12. /\ ast' \in Seq(Node) /\ Len(ast') = n + m
       /\ \A x \in 1..n : ast'[x] = old[x]
       /\ \A i \in 1..m : ast'[n + i] = new[i]
  <2> HIDE DEF n, m, within, fresh, child, nodes, C, F, k, t
  <2>1. /\ old \o new \in Seq(Node) /\ Len(old \o new) = n + m
        /\ \A x \in 1..n + m : (old \o new)[x] = IF x <= n THEN old[x] ELSE new[x - n]
    BY <1>9, <1>10
  <2>2. /\ \A x \in 1..n : x \in 1..n + m /\ x <= n
        /\ \A i \in 1..m : n + i \in 1..n + m /\ ~(n + i <= n) /\ (n + i) - n = i
    BY <1>1, <1>6
  <2>3. QED
    BY <1>11, <2>1, <2>2
<1>13. \A i \in 1..m :
          LET c == ast'[n + i]
          IN /\ c.nodes = <<>> /\ c.type \in {"unknown", "NONE"}
             /\ c.place = "none" <=> c.type = "NONE"
             /\ c.type = "NONE" => shape.type = "RETURN"
             /\ c.within = IF Opens(shape.type, i) THEN Append(within, t) ELSE within
  <2> SUFFICES ASSUME NEW i \in 1..m
               PROVE  LET c == ast'[n + i]
                      IN /\ c.nodes = <<>> /\ c.type \in {"unknown", "NONE"}
                         /\ c.place = "none" <=> c.type = "NONE"
                         /\ c.type = "NONE" => shape.type = "RETURN"
                         /\ c.within = IF Opens(shape.type, i) THEN Append(within, t)
                                                               ELSE within
    OBVIOUS
  <2>1. ast'[n + i] = child(shape, i)
    BY <1>10, <1>12
  <2>2. /\ child(shape, i).nodes = <<>> /\ child(shape, i).place = F[i]
        /\ child(shape, i).type = IF F[i] = "none" THEN "NONE" ELSE "unknown"
        /\ child(shape, i).within = IF Opens(shape.type, i) THEN Append(within, t) ELSE within
    <3> HIDE DEF fresh
    <3>1. QED
      OBVIOUS
  <2> HIDE DEF child, F, m
  <2>3. QED
    BY <1>7, <2>1, <2>2
<1>14. Revealed(t, shape.type, k, m)
  <2> HIDE DEF nodes, C, F, k, m, fresh, child
  <2>1. /\ \A x \in DOMAIN ast : x # t => ast'[x] = ast[x]
        /\ ast'[t].type = shape.type /\ ast'[t].nodes = nodes(shape)
        /\ ast'[t].place = ast[t].place /\ ast'[t].within = ast[t].within
    BY <1>1, <1>9, <1>12
  <2>2. QED
    BY <1>5, <1>6, <1>7, <1>8, <1>12, <1>13, <2>1 DEF Revealed
<1>15. QED
  <2> HIDE DEF C, F, k, m
  <2>1. QED
    BY <1>5, <1>6, <1>7, <1>14

LEMMA NodesTyped ==
  ASSUME NEW s \in Seq(Node)
  PROVE  /\ Len(s) \in Nat /\ DOMAIN s = 1..Len(s)
         /\ \A x \in 1..Len(s) : /\ s[x] \in Node /\ s[x].type \in NodeType
                                 /\ s[x].place \in Places
                                 /\ s[x].nodes \in Seq(Nat \ {0})
                                 /\ s[x].within \in Seq(Nat)
<1>1. Len(s) \in Nat /\ DOMAIN s = 1..Len(s)
  OBVIOUS
<1>2. \A x \in 1..Len(s) : s[x] \in Node
  BY <1>1
<1>3. ASSUME NEW v \in Node
      PROVE  /\ v.type \in NodeType /\ v.place \in Places
             /\ v.nodes \in Seq(Nat \ {0}) /\ v.within \in Seq(Nat)
  BY DEF Node
<1>4. QED
  BY <1>1, <1>2, <1>3

\* What the discovery of t leaves of the tree.
LEMMA RevealedTree ==
  ASSUME TypeOK, TreeInv, NEW t \in DOMAIN ast, ast[t].type = "unknown",
         NEW type \in NodeType, NEW k \in Nat, NEW m \in Nat, Revealed(t, type, k, m)
  PROVE  /\ TreeInv'
         /\ DOMAIN ast \subseteq DOMAIN ast'
         /\ \A x \in DOMAIN ast : Known(x) => ast'[x] = ast[x]
         /\ \A x \in DOMAIN ast : ast'[x].within = ast[x].within
<1> DEFINE n == Len(ast)
<1>1. /\ ast \in Seq(Node) /\ n \in Nat /\ DOMAIN ast = 1..n /\ t \in 1..n
      /\ \A x \in 1..n : ast[x] \in Node /\ ast[x].nodes \in Seq(Nat \ {0})
                         /\ ast[x].within \in Seq(Nat)
  <2>1. ast \in Seq(Node)
    BY DEF TypeOK
  <2>2. QED
    BY <2>1, NodesTyped
<1>2. /\ ast' \in Seq(Node) /\ DOMAIN ast' = 1..(n + m) /\ 1..n \subseteq 1..(n + m)
      /\ \A x \in 1..(n + m) : ast'[x] \in Node /\ ast'[x].nodes \in Seq(Nat \ {0})
  <2>1. ast' \in Seq(Node) /\ Len(ast') = n + m
    BY DEF Revealed
  <2>2. 1..n \subseteq 1..(n + m)
    BY <1>1
  <2>3. QED
    BY <2>1, <2>2, NodesTyped
<1>3. \A x \in 1..n : x # t => ast'[x] = ast[x]
  BY <1>1 DEF Revealed
<1>4. /\ ast'[t].type = type /\ ast'[t].place = ast[t].place /\ ast'[t].within = ast[t].within
      /\ type \notin {"unknown", "NONE"} /\ ast[t].place # "none"
      /\ \A x \in 1..n : ast'[x].within = ast[x].within
  BY <1>1, <1>3 DEF Revealed, TreeInv, NodeInv
<1>5. \A x \in 1..(n + m) : x \in 1..n \/ \E i \in 1..m : x = n + i
  <2> SUFFICES ASSUME NEW x \in 1..(n + m), x \notin 1..n
               PROVE  \E i \in 1..m : x = n + i
    OBVIOUS
  <2>1. x - n \in 1..m /\ x = n + (x - n)
    BY <1>1
  <2>2. QED
    BY <2>1
<1> DEFINE Good(w) == w \in DOMAIN ast' /\ (w = 1 \/ ast'[w].type # "unknown")
<1>6. /\ \A w \in 1..n : w = 1 \/ Known(w) => Good(w)
      /\ Good(t)
  BY <1>1, <1>2, <1>3, <1>4 DEF Known
<1>7. ASSUME NEW x \in 1..(n + m)
      PROVE  NodeInv(x)'
  <2>1. ASSUME NEW y \in 1..n
        PROVE  /\ NodeInv(y) /\ ast[y].within \in Seq(Nat)
               /\ \A i \in DOMAIN ast[y].within : Good(ast[y].within[i])
    <3>1. NodeInv(y) /\ ast[y].within \in Seq(Nat)
      BY <1>1 DEF TreeInv
    <3>2. \A i \in DOMAIN ast[y].within :
            /\ ast[y].within[i] \in 1..n
            /\ ast[y].within[i] = 1 \/ Known(ast[y].within[i])
      BY <1>1, <3>1 DEF NodeInv
    <3> HIDE DEF Good
    <3>3. QED
      BY <1>6, <3>1, <3>2
  <2> SUFFICES /\ Len(ast'[x].nodes) \in Arities(ast'[x].type)
               /\ ast'[x].place = "none" <=> ast'[x].type = "NONE"
               /\ ast'[x].place = "root" => ast'[x].type \in {"unknown", "CONSEQUENT"}
               /\ ast'[x].within # <<>>
               /\ \A i \in DOMAIN ast'[x].within : Good(ast'[x].within[i])
    BY DEF NodeInv, Known
  <2>2. CASE x \in 1..n /\ x # t
    <3>1. ast'[x] = ast[x] /\ NodeInv(x)
      BY <1>3, <2>1, <2>2
    <3> HIDE DEF Good
    <3>2. QED
      BY <2>1, <2>2, <3>1 DEF NodeInv
  <2>3. CASE x = t
    <3>1. NodeInv(t) /\ ast[t].within # <<>> /\ \A i \in DOMAIN ast[t].within : Good(ast[t].within[i])
      BY <1>1, <2>1 DEF NodeInv
    <3>2. Len(ast'[t].nodes) \in Arities(ast'[t].type)
          /\ (ast'[t].place = "root" => ast'[t].type = "CONSEQUENT")
      BY <1>4 DEF Revealed
    <3> HIDE DEF Good
    <3>3. QED
      BY <1>4, <2>3, <3>1, <3>2
  <2>4. CASE x \notin 1..n
    <3>1. PICK i \in 1..m : x = n + i
      BY <1>5, <2>4
    <3> DEFINE c == ast'[x]
    <3>2. /\ c.nodes = <<>> /\ c.type \in {"unknown", "NONE"} /\ (c.place = "none" <=> c.type = "NONE")
          /\ c.within = IF Opens(type, i) THEN Append(ast[t].within, t) ELSE ast[t].within
      BY <3>1 DEF Revealed
    <3>3. Len(c.nodes) \in Arities(c.type) /\ (c.place = "root" => c.type = "unknown")
      <4>1. Arities("unknown") = {0} /\ Arities("NONE") = {0}
        BY DEF Arities
      <4>2. QED
        BY <3>2, <4>1
    <3> HIDE DEF c, Good
    <3>4. /\ ast[t].within \in Seq(Nat) /\ ast[t].within # <<>> /\ t \in Nat
          /\ \A j \in DOMAIN ast[t].within : Good(ast[t].within[j])
      BY <1>1, <2>1 DEF NodeInv
    <3>5. c.within # <<>> /\ \A j \in DOMAIN c.within : Good(c.within[j])
      <4>1. CASE c.within = ast[t].within
        BY <3>4, <4>1
      <4>2. CASE c.within = Append(ast[t].within, t)
        <5> DEFINE w == ast[t].within
        <5>1. w \in Seq(Nat) /\ t \in Nat /\ \A j \in DOMAIN w : Good(w[j])
          BY <3>4
        <5> HIDE DEF w
        <5>2. /\ Append(w, t) # <<>>
              /\ \A j \in DOMAIN Append(w, t) :
                   (j \in DOMAIN w /\ Append(w, t)[j] = w[j]) \/ Append(w, t)[j] = t
          BY <5>1
        <5>3. c.within = Append(w, t)
          BY <4>2 DEF w
        <5>4. QED
          BY <1>6, <5>1, <5>2, <5>3
      <4>3. QED
        BY <3>2, <4>1, <4>2
    <3>6. QED
      BY <3>2, <3>3, <3>5 DEF c
  <2>5. QED
    BY <2>2, <2>3, <2>4
<1>8. ASSUME NEW x \in 1..(n + m)
      PROVE  ChildrenInv(x)'
  <2>1. CASE x \in 1..n /\ x # t
    <3>1. ChildrenInv(x) /\ ast'[x] = ast[x] /\ ast[x].nodes \in Seq(Nat \ {0})
      BY <1>1, <1>3, <2>1 DEF TreeInv
    <3>2. ASSUME NEW c \in 1..n
          PROVE  /\ c \in DOMAIN ast' /\ ast'[c].within = ast[c].within
                 /\ ast[c].type # "NONE" => ast'[c].type # "NONE"
      BY <1>2, <1>3, <1>4
    <3>3. ASSUME NEW i \in DOMAIN ast[x].nodes, NEW c, c = ast[x].nodes[i]
          PROVE  /\ c \in DOMAIN ast' /\ c > x
                 /\ ast'[c].within = IF Opens(ast[x].type, i)
                                     THEN Append(ast[x].within, x) ELSE ast[x].within
                 /\ ast[x].type # "RETURN" => ast'[c].type # "NONE"
      <4>1. /\ c \in DOMAIN ast /\ c > x
            /\ ast[c].within = IF Opens(ast[x].type, i)
                               THEN Append(ast[x].within, x) ELSE ast[x].within
            /\ ast[x].type # "RETURN" => ast[c].type # "NONE"
        BY <3>1, <3>3 DEF ChildrenInv
      <4>2. c \in 1..n
        BY <1>1, <4>1
      <4>3. QED
        BY <3>2, <4>1, <4>2
    <3>4. /\ \A i \in DOMAIN ast[x].nodes :
               LET c == ast[x].nodes[i]
               IN /\ c \in DOMAIN ast' /\ c > x
                  /\ ast'[c].within = IF Opens(ast[x].type, i)
                                      THEN Append(ast[x].within, x) ELSE ast[x].within
                  /\ ast[x].type # "RETURN" => ast'[c].type # "NONE"
          /\ \A i, j \in DOMAIN ast[x].nodes : i < j =>
                /\ ast[x].nodes[i] <= ast[x].nodes[j]
                /\ ast[x].type # "WHILE" => ast[x].nodes[i] # ast[x].nodes[j]
      BY <3>1, <3>3 DEF ChildrenInv
    <3>5. QED
      BY <3>1, <3>4, SMTT(30) DEF ChildrenInv
  <2>2. CASE x = t
    <3>1. /\ DOMAIN ast'[t].nodes = 1..k
          /\ \A i \in 1..k : ast'[t].nodes[i] = n + IF i <= m THEN i ELSE m
          /\ m = k \/ (type = "WHILE" /\ k = 3 /\ m = 2)
      BY <1>1, <1>2 DEF Revealed
    <3>2. ASSUME NEW i \in 1..k
          PROVE  LET c == ast'[t].nodes[i]
                 IN /\ c \in DOMAIN ast' /\ c > t
                    /\ ast'[c].within = IF Opens(type, i)
                                        THEN Append(ast'[t].within, t) ELSE ast'[t].within
                    /\ type # "RETURN" => ast'[c].type # "NONE"
      <4> DEFINE j == IF i <= m THEN i ELSE m
      <4>1. j \in 1..m /\ ast'[t].nodes[i] = n + j /\ (j = i \/ type = "WHILE")
        BY <3>1
      <4>2. n + j \in 1..(n + m) /\ n + j > t
        BY <1>1, <4>1
      <4>3. Opens(type, i) = Opens(type, j)
        BY <4>1 DEF Opens
      <4>4. /\ ast'[n + j].within = IF Opens(type, j) THEN Append(ast[t].within, t)
                                                     ELSE ast[t].within
            /\ ast'[n + j].type = "NONE" => type = "RETURN"
        BY <4>1 DEF Revealed
      <4> HIDE DEF j
      <4>5. QED
        BY <1>2, <1>4, <4>1, <4>2, <4>3, <4>4
    <3>3. ASSUME NEW i \in 1..k, NEW j \in 1..k, i < j
          PROVE  /\ ast'[t].nodes[i] <= ast'[t].nodes[j]
                 /\ type # "WHILE" => ast'[t].nodes[i] # ast'[t].nodes[j]
      <4>1. n \in Nat /\ i \in Nat /\ j \in Nat
        BY <1>1
      <4> HIDE DEF n
      <4>2. /\ ast'[t].nodes[i] = n + IF i <= m THEN i ELSE m
            /\ ast'[t].nodes[j] = n + IF j <= m THEN j ELSE m
        BY <3>1
      <4>3. CASE m = k
        <5>1. ast'[t].nodes[i] = n + i /\ ast'[t].nodes[j] = n + j
          BY <4>2, <4>3
        <5>2. QED
          BY <3>3, <4>1, <5>1
      <4>4. CASE type = "WHILE"
        <5>1. (IF i <= m THEN i ELSE m) <= (IF j <= m THEN j ELSE m)
          BY <3>3, <4>1
        <5> DEFINE a == IF i <= m THEN i ELSE m
                   b == IF j <= m THEN j ELSE m
        <5>2. a \in Nat /\ b \in Nat
          BY <4>1
        <5> HIDE DEF a, b
        <5>3. n + a <= n + b
          BY <4>1, <5>1, <5>2 DEF a, b
        <5>4. QED
          BY <4>2, <4>4, <5>3 DEF a, b
      <4>5. QED
        BY <3>1, <4>3, <4>4
    <3>4. /\ \A i \in DOMAIN ast'[t].nodes :
                LET c == ast'[t].nodes[i]
                IN /\ c \in DOMAIN ast' /\ c > t
                   /\ ast'[c].within = IF Opens(ast'[t].type, i)
                                       THEN Append(ast'[t].within, t) ELSE ast'[t].within
                   /\ ast'[t].type # "RETURN" => ast'[c].type # "NONE"
          /\ \A i, j \in DOMAIN ast'[t].nodes : i < j =>
                 /\ ast'[t].nodes[i] <= ast'[t].nodes[j]
                 /\ ast'[t].type # "WHILE" => ast'[t].nodes[i] # ast'[t].nodes[j]
      BY <1>4, <3>1, <3>2, <3>3
    <3>5. ChildrenInv(t)'
      BY <3>4, Zenon DEF ChildrenInv
    <3>6. QED
      BY <2>2, <3>5
  <2>3. CASE x \notin 1..n
    <3>1. PICK i \in 1..m : x = n + i
      BY <1>5, <2>3
    <3>2. ast'[n + i].nodes = <<>> /\ DOMAIN <<>> = {}
      <4>1. \A j \in 1..m : ast'[n + j].nodes = <<>>
        BY Zenon DEF Revealed
      <4>2. ast'[n + i].nodes = <<>>
        BY <3>1, <4>1, Zenon
      <4>3. DOMAIN <<>> = {}
        OBVIOUS
      <4>4. QED
        BY <4>2, <4>3
    <3>3. ast'[x].nodes = <<>> /\ DOMAIN ast'[x].nodes = {}
      BY <3>1, <3>2
    <3>4. QED
      BY <3>3 DEF ChildrenInv
  <2>4. QED
    BY <2>1, <2>2, <2>3
<1>9. OneParent'
  <2>1. \A x \in 1..n : x # t => \A i \in DOMAIN ast'[x].nodes : ast'[x].nodes[i] \in 1..n
    BY <1>1, <1>3 DEF TreeInv, ChildrenInv
  <2>2. \A i \in DOMAIN ast'[t].nodes : ast'[t].nodes[i] > n
    <3>1. /\ DOMAIN ast'[t].nodes = 1..k
          /\ \A i \in 1..k : ast'[t].nodes[i] = n + IF i <= m THEN i ELSE m
          /\ m = k \/ (type = "WHILE" /\ k = 3 /\ m = 2)
      BY <1>1, <1>2 DEF Revealed
    <3>2. \A i \in 1..k : (IF i <= m THEN i ELSE m) \in Nat \ {0}
      BY <3>1
    <3>3. \A j \in Nat \ {0} : n + j > n
      BY <1>1
    <3> HIDE DEF n
    <3>4. QED
      BY <3>1, <3>2, <3>3
  <2>3. ASSUME NEW x \in 1..(n + m), x \notin 1..n
        PROVE  DOMAIN ast'[x].nodes = {}
    <3>1. PICK i \in 1..m : x = n + i
      BY <1>5, <2>3
    <3>2. ast'[n + i].nodes = <<>>
      BY DEF Revealed
    <3>3. DOMAIN <<>> = {}
      OBVIOUS
    <3>4. QED
      BY <3>1, <3>2, <3>3
  <2>4. ASSUME NEW x \in 1..(n + m), NEW y \in 1..(n + m), x # y,
               NEW i \in DOMAIN ast'[x].nodes, NEW j \in DOMAIN ast'[y].nodes
        PROVE  ast'[x].nodes[i] # ast'[y].nodes[j]
    <3>1. x \in 1..n /\ y \in 1..n
      BY <2>3
    <3>2. CASE x # t /\ y # t
      <4>1. ast'[x] = ast[x] /\ ast'[y] = ast[y] /\ x \in DOMAIN ast /\ y \in DOMAIN ast
        BY <1>1, <1>3, <3>1, <3>2
      <4>2. OneParent
        BY DEF TreeInv
      <4>3. QED
        BY <2>4, <4>1, <4>2 DEF OneParent
    <3>3. CASE x = t \/ y = t
      BY <1>1, <2>1, <2>2, <2>4, <3>1, <3>3
    <3>4. QED
      BY <3>2, <3>3
  <2>5. QED
    BY <1>2, <2>4 DEF OneParent
<1>10. 1 \in DOMAIN ast' /\ ast'[1].place = "root" /\ ast'[1].within = <<1>>
  BY <1>1, <1>2, <1>3, <1>4 DEF TreeInv
<1>11. QED
  BY <1>1, <1>2, <1>3, <1>4, <1>7, <1>8, <1>9, <1>10 DEF TreeInv, Known
-----------------------------------------------------------------------------
(* What a handler does *)

\* The children are pushed from the last to the first, and no other node.
InReverse(pushed) ==
    \E at \in [DOMAIN Children -> DOMAIN pushed] :
      /\ \A i \in DOMAIN Children : pushed[at[i]] = Child(i)
      /\ \A i, j \in DOMAIN Children : i < j => at[i] > at[j]
      /\ \A k \in DOMAIN pushed : IsNode(pushed[k]) => \E i \in DOMAIN Children : at[i] = k

\* The children need no visit: there is none but NONE, or a function is rejected.
Skipped(code) ==
    \/ \A i \in DOMAIN Children : ast[Children[i]].type = "NONE"
    \/ ast[Top.node].type = "FUNCTION_DEFINITION" /\ code \in {"ERROR_SYNTAX", "ERROR_SEM"}

VisitsNode(code, pushed) ==
    /\ Top.node \in DOMAIN ast /\ Known(Top.node)
    /\ code \in Bad <=> Misplaced(Top.node) \/ NotImplemented(Top.node)
    /\ InReverse(pushed) \/ (pushed = <<>> /\ Skipped(code))

\* All that the handlers have in common.
Visit(code, pushed) ==
    /\ pc = "analysis"
    /\ tree_traversing_deque # <<>>
    /\ code \in Codes
    /\ pushed \in Seq(Item)
    /\ \A k \in DOMAIN pushed : ItemInv(pushed[k])
    /\ Link(pushed, Roots', After(Top))
    /\ \/ IsNode(Top) /\ VisitsNode(code, pushed)
       \/ ~IsNode(Top) /\ pushed = <<>> /\ code = "ERROR_OK"
    /\ Return(code, pushed)

LEMMA FrontAndLast ==
  ASSUME NEW S, NEW s \in Seq(S), s # <<>>
  PROVE  /\ Front(s) \in Seq(S) /\ Len(s) \in Nat \ {0} /\ Len(Front(s)) = Len(s) - 1
         /\ DOMAIN s = 1..Len(s) /\ DOMAIN Front(s) = 1..(Len(s) - 1)
         /\ \A i \in 1..(Len(s) - 1) : Front(s)[i] = s[i]
         /\ Last(s) = s[Len(s)] /\ Last(s) \in S
<1>1. Len(s) \in Nat \ {0} /\ DOMAIN s = 1..Len(s)
  BY EmptySeq
<1>2. Front(s) = SubSeq(s, 1, Len(s) - 1) /\ Last(s) = s[Len(s)]
  BY DEF Front, Last
<1> DEFINE m == Len(s) - 1
<1>3. m \in Nat /\ m <= Len(s)
  BY <1>1
<1> HIDE DEF m
<1>4. /\ SubSeq(s, 1, m) \in Seq(S) /\ Len(SubSeq(s, 1, m)) = m
      /\ \A i \in 1..m : SubSeq(s, 1, m)[i] = s[i]
  BY <1>1, <1>3
<1>5. Front(s) \in Seq(S) /\ Len(Front(s)) = m /\ \A i \in 1..m : Front(s)[i] = s[i]
  BY <1>2, <1>4 DEF m
<1>6. Last(s) \in S
  BY <1>1, <1>2
<1>7. DOMAIN Front(s) = 1..m
  BY <1>5
<1>8. QED
  BY <1>1, <1>2, <1>5, <1>6, <1>7 DEF m

LEMMA FrontOfAppend ==
  ASSUME NEW S, NEW s \in Seq(S), NEW x \in S
  PROVE  Front(Append(s, x)) = s
<1>1. Append(s, x) \in Seq(S) /\ Len(Append(s, x)) = Len(s) + 1 /\ Append(s, x) # <<>>
      /\ \A i \in 1..Len(s) : Append(s, x)[i] = s[i]
  BY AppendProperties
<1>2. Front(Append(s, x)) \in Seq(S) /\ Len(Front(Append(s, x))) = Len(s)
      /\ \A i \in 1..Len(s) : Front(Append(s, x))[i] = s[i]
  <2> DEFINE a == Append(s, x)
  <2>1. /\ Front(a) \in Seq(S) /\ Len(Front(a)) = Len(a) - 1
        /\ \A i \in 1..(Len(a) - 1) : Front(a)[i] = a[i]
    BY <1>1, FrontAndLast
  <2>2. Len(a) - 1 = Len(s)
    BY <1>1
  <2> HIDE DEF a
  <2>3. QED
    BY <1>1, <2>1, <2>2 DEF a
<1>3. QED
  BY <1>2, SeqEqual

\* The deque once its top is replaced.
LEMMA Replaced ==
  ASSUME NEW S, NEW s \in Seq(S), s # <<>>, NEW p \in Seq(S)
  PROVE  LET d == Len(s) - 1
             r == Front(s) \o p
         IN /\ d \in Nat /\ r \in Seq(S) /\ Len(r) = d + Len(p) /\ DOMAIN r = 1..(d + Len(p))
            /\ \A k \in 1..d : r[k] = s[k]
            /\ \A k \in 1..Len(p) : r[d + k] = p[k]
            /\ \A k \in DOMAIN r : k \in 1..d \/ \E i \in 1..Len(p) : k = d + i
<1> DEFINE d == Len(s) - 1
           f == Front(s)
<1>1. /\ f \in Seq(S) /\ Len(f) = d /\ d \in Nat
      /\ \A k \in 1..d : f[k] = s[k]
  BY FrontAndLast
<1> HIDE DEF f, d
<1>2. Len(p) \in Nat
  OBVIOUS
<1>3. /\ f \o p \in Seq(S) /\ Len(f \o p) = d + Len(p)
      /\ \A k \in 1..(d + Len(p)) : (f \o p)[k] = IF k <= d THEN f[k] ELSE p[k - d]
  BY <1>1, ConcatProperties
<1>4. /\ \A k \in 1..d : k \in 1..(d + Len(p)) /\ k <= d
      /\ \A k \in 1..Len(p) : d + k \in 1..(d + Len(p)) /\ ~(d + k <= d) /\ (d + k) - d = k
      /\ \A k \in 1..(d + Len(p)) : k \notin 1..d => k - d \in 1..Len(p) /\ k = d + (k - d)
  BY <1>1, <1>2
<1>5. DOMAIN (f \o p) = 1..(d + Len(p))
  BY <1>3
<1>6. \A k \in 1..(d + Len(p)) : k \in 1..d \/ \E i \in 1..Len(p) : k = d + i
  BY <1>4
<1>7. QED
  BY <1>1, <1>3, <1>4, <1>5, <1>6 DEF f, d

\* What is pushed in place of the top fits on what is below it.
LEMMA LinkReplaced ==
  ASSUME NEW s \in Seq(Item), s # <<>>, NEW p \in Seq(Item), NEW roots, NEW new, NEW below,
         Link(s, roots, below), Link(p, new, After(Last(s)))
  PROVE  Link(Front(s) \o p, new, below)
<1> DEFINE d == Len(s) - 1
           r == Front(s) \o p
<1>1. /\ d \in Nat /\ r \in Seq(Item) /\ Len(r) = d + Len(p) /\ DOMAIN r = 1..(d + Len(p))
      /\ \A k \in 1..d : r[k] = s[k]
      /\ \A k \in 1..Len(p) : r[d + k] = p[k]
  BY Replaced
<1>2. /\ Len(s) = d + 1 /\ Len(p) \in Nat
      /\ Last(s) = s[d + 1]
      /\ \A k \in 1..d : s[k].within = After(s[k + 1])
      /\ After(s[1]) = below
  <2>1. Len(s) \in Nat /\ Last(s) = s[Len(s)]
    BY FrontAndLast
  <2>2. d + 1 = Len(s)
    BY <2>1
  <2>3. QED
    BY <2>1, <2>2 DEF Link
<1> HIDE DEF r, d
<1>3. CASE p = <<>>
  <2>1. Len(p) = 0 /\ new = After(s[d + 1])
    BY <1>2, <1>3 DEF Link
  <2>2. CASE d = 0
    <3>1. Len(r) = 0 /\ s[d + 1] = s[1]
      BY <1>1, <2>1, <2>2
    <3>2. r = <<>>
      BY <1>1, <3>1, EmptySeq
    <3>3. QED
      BY <1>2, <2>1, <3>1, <3>2 DEF Link, r
  <2>3. CASE d # 0
    <3>1. Len(r) = d /\ d \in 1..d /\ 1 \in 1..d /\ r # <<>>
      BY <1>1, <2>1, <2>3
    <3>2. Last(r) = s[d] /\ r[1] = s[1]
      BY <1>1, <3>1 DEF Last
    <3>3. \A k \in 1..(d - 1) : k \in 1..d /\ k + 1 \in 1..d
      BY <1>1
    <3>4. \A k \in 1..(Len(r) - 1) : r[k].within = After(r[k + 1])
      BY <1>1, <1>2, <3>1, <3>3
    <3>5. QED
      BY <1>2, <2>1, <3>1, <3>2, <3>4 DEF Link, r
  <2>4. QED
    BY <2>2, <2>3
<1>4. CASE p # <<>>
  <2> DEFINE m == Len(p)
  <2>1. /\ m \in Nat \ {0} /\ p[m].within = new
        /\ \A k \in 1..(m - 1) : p[k].within = After(p[k + 1])
        /\ After(p[1]) = After(s[d + 1])
    <3>1. m \in Nat \ {0} /\ Last(p) = p[m]
      BY <1>4, FrontAndLast
    <3>2. QED
      BY <1>2, <1>4, <3>1 DEF Link
  <2>2. Len(r) = d + m /\ r # <<>> /\ \A k \in 1..m : r[d + k] = p[k]
    BY <1>1, <2>1
  <2> HIDE DEF m
  <2>3. Last(r).within = new
    BY <2>1, <2>2 DEF Last
  <2>4. ASSUME NEW k \in 1..(d + m - 1)
        PROVE  r[k].within = After(r[k + 1])
    <3>1. CASE k < d
      <4>1. k \in 1..d /\ k + 1 \in 1..d
        BY <1>1, <2>1, <3>1
      <4>2. QED
        BY <1>1, <1>2, <4>1
    <3>2. CASE k = d
      <4>1. k \in 1..d /\ 1 \in 1..m
        BY <1>1, <2>1, <3>2
      <4>2. r[k] = s[d] /\ r[k + 1] = p[1]
        BY <1>1, <2>2, <3>2, <4>1
      <4>3. QED
        BY <1>2, <2>1, <3>2, <4>1, <4>2
    <3>3. CASE k > d
      <4>1. k - d \in 1..(m - 1) /\ k - d \in 1..m /\ (k - d) + 1 \in 1..m
            /\ k = d + (k - d) /\ k + 1 = d + ((k - d) + 1)
        BY <1>1, <2>1, <3>3
      <4>2. r[k] = p[k - d] /\ r[k + 1] = p[(k - d) + 1]
        BY <2>2, <4>1
      <4>3. QED
        BY <2>1, <4>1, <4>2
    <3>4. QED
      BY <1>1, <2>1, <3>1, <3>2, <3>3
  <2>5. After(r[1]) = below
    <3>1. CASE d = 0
      <4>1. d + 1 = 1 /\ 1 \in 1..m
        BY <2>1, <3>1
      <4>2. r[1] = p[1]
        BY <2>2, <4>1
      <4>3. QED
        BY <1>2, <2>1, <4>1, <4>2
    <3>2. CASE d # 0
      BY <1>1, <1>2, <3>2
    <3>3. QED
      BY <3>1, <3>2
  <2>6. \A k \in 1..(Len(r) - 1) : r[k].within = After(r[k + 1])
    <3>1. d \in Nat /\ m \in Nat /\ Len(r) = d + m
      BY <1>1, <2>1, <2>2
    <3>2. (d + m) - 1 = d + m - 1
      BY <3>1
    <3>3. Len(r) - 1 = d + m - 1
      BY <3>1, <3>2, Zenon
    <3>4. QED
      BY <2>4, <3>3
  <2>7. Link(r, new, below)
    BY <2>2, <2>3, <2>5, <2>6 DEF Link
  <2>8. QED
    BY <2>7 DEF r
<1>5. QED
  BY <1>3, <1>4

\* The deque and the history before and after a visit.
LEMMA VisitFacts ==
  ASSUME TypeOK, NEW code, NEW pushed, Visit(code, pushed)
  PROVE  LET d == Len(tree_traversing_deque) - 1
             r == Len(reported)
         IN /\ ast' = ast /\ pc' = pc
            /\ d \in Nat /\ DOMAIN tree_traversing_deque = 1..(d + 1)
            /\ Top = tree_traversing_deque[d + 1] /\ Top \in Item
            /\ tree_traversing_deque' \in Seq(Item)
            /\ DOMAIN tree_traversing_deque' = 1..(d + Len(pushed))
            /\ \A k \in 1..d : tree_traversing_deque'[k] = tree_traversing_deque[k]
            /\ \A k \in 1..Len(pushed) : tree_traversing_deque'[d + k] = pushed[k]
            /\ \A k \in DOMAIN tree_traversing_deque' :
                 k \in 1..d \/ \E i \in 1..Len(pushed) : k = d + i
            /\ r \in Nat /\ DOMAIN reported = 1..r
            /\ reported' \in Seq(Nat \X Codes) /\ DOMAIN reported' = 1..(r + 1)
            /\ \A k \in 1..r : reported'[k] = reported[k]
            /\ reported'[r + 1] = <<Top.node, code>>
<1> DEFINE d == Len(tree_traversing_deque) - 1
           r == Len(reported)
<1>1. /\ tree_traversing_deque \in Seq(Item) /\ tree_traversing_deque # <<>>
      /\ pushed \in Seq(Item) /\ code \in Codes
      /\ tree_traversing_deque' = Front(tree_traversing_deque) \o pushed
      /\ reported' = Append(reported, <<Top.node, code>>)
      /\ ast' = ast /\ pc' = pc
  BY DEF TypeOK, Visit, Return
<1>2. /\ Len(tree_traversing_deque) = d + 1 /\ d \in Nat
      /\ DOMAIN tree_traversing_deque = 1..(d + 1)
      /\ Top = tree_traversing_deque[d + 1] /\ Top \in Item
  <2>1. Len(tree_traversing_deque) \in Nat \ {0} /\ DOMAIN tree_traversing_deque = 1..Len(tree_traversing_deque)
        /\ Top = tree_traversing_deque[Len(tree_traversing_deque)] /\ Top \in Item
    BY <1>1, FrontAndLast DEF Top
  <2>2. Len(tree_traversing_deque) = d + 1 /\ d \in Nat
    BY <2>1
  <2> HIDE DEF d
  <2>3. QED
    BY <2>1, <2>2
<1>3. /\ tree_traversing_deque' \in Seq(Item)
      /\ DOMAIN tree_traversing_deque' = 1..(d + Len(pushed))
      /\ \A k \in 1..d : tree_traversing_deque'[k] = tree_traversing_deque[k]
      /\ \A k \in 1..Len(pushed) : tree_traversing_deque'[d + k] = pushed[k]
      /\ \A k \in DOMAIN tree_traversing_deque' :
           k \in 1..d \/ \E i \in 1..Len(pushed) : k = d + i
  BY <1>1, Replaced, SMTT(30)
<1>4. /\ r \in Nat /\ DOMAIN reported = 1..r
      /\ reported' \in Seq(Nat \X Codes) /\ DOMAIN reported' = 1..(r + 1)
      /\ \A k \in 1..r : reported'[k] = reported[k]
      /\ reported'[r + 1] = <<Top.node, code>>
  <2>1. reported \in Seq(Nat \X Codes) /\ Top.node \in Nat /\ code \in Codes
    BY <1>1, <1>2 DEF TypeOK, Item
  <2> DEFINE x == <<Top.node, code>>
  <2>2. x \in Nat \X Codes
    BY <2>1
  <2> HIDE DEF x
  <2>3. /\ Append(reported, x) \in Seq(Nat \X Codes) /\ Len(Append(reported, x)) = Len(reported) + 1
        /\ \A k \in 1..Len(reported) : Append(reported, x)[k] = reported[k]
        /\ Append(reported, x)[Len(reported) + 1] = x
    BY <2>1, <2>2, AppendProperties
  <2>4. Len(reported) \in Nat /\ DOMAIN reported = 1..Len(reported)
        /\ DOMAIN Append(reported, x) = 1..(Len(reported) + 1)
    BY <2>1, <2>3
  <2>5. reported' = Append(reported, x)
    BY <1>1 DEF x
  <2>6. QED
    BY <2>3, <2>4, <2>5 DEF x
<1>5. QED
  BY <1>1, <1>2, <1>3, <1>4

\* Only the node visited is handled once more.
LEMMA VisitHandles ==
  ASSUME TypeOK, NEW code, NEW pushed, Visit(code, pushed), NEW n
  PROVE  /\ HandledAt(n) \subseteq 1..Len(reported) /\ Len(reported) \in Nat
         /\ HandledAt(n)' = HandledAt(n) \cup (IF n = Top.node THEN {Len(reported) + 1} ELSE {})
<1> DEFINE r == Len(reported)
<1>1. /\ r \in Nat /\ DOMAIN reported = 1..r /\ DOMAIN reported' = 1..(r + 1)
      /\ \A k \in 1..r : reported'[k] = reported[k]
      /\ reported'[r + 1] = <<Top.node, code>>
  BY VisitFacts
<1> HIDE DEF r
<1>2. /\ 1..(r + 1) = 1..r \cup {r + 1} /\ <<Top.node, code>>[1] = Top.node
      /\ r + 1 \notin 1..r
  BY <1>1
<1>3. HandledAt(n) = {k \in 1..r : reported[k][1] = n}
  BY <1>1 DEF HandledAt
<1>4. HandledAt(n)' = {k \in 1..(r + 1) : reported'[k][1] = n}
  BY <1>1 DEF HandledAt
<1>5. HandledAt(n)' = {k \in 1..r : reported[k][1] = n} \cup
                      (IF n = Top.node THEN {r + 1} ELSE {})
  BY <1>1, <1>2, <1>4
<1>6. QED
  BY <1>1, <1>3, <1>5 DEF r

LEMMA VisitTraversal ==
  ASSUME TypeOK, TreeInv, TraversalInv, NEW code, NEW pushed, Visit(code, pushed)
  PROVE  TraversalInv'
<1> DEFINE d == Len(tree_traversing_deque) - 1
<1>1. /\ ast' = ast /\ pc' = pc /\ pc = "analysis"
      /\ DOMAIN tree_traversing_deque = 1..(d + 1) /\ d \in Nat
      /\ \A k \in 1..d : tree_traversing_deque'[k] = tree_traversing_deque[k]
      /\ \A k \in 1..Len(pushed) : tree_traversing_deque'[d + k] = pushed[k]
      /\ \A k \in DOMAIN tree_traversing_deque' :
           k \in 1..d \/ \E i \in 1..Len(pushed) : k = d + i
      /\ pushed \in Seq(Item)
  BY VisitFacts DEF Visit
<1> HIDE DEF d
<1>2. 1..d \subseteq 1..(d + 1)
  BY <1>1
<1>3. ASSUME NEW k \in DOMAIN tree_traversing_deque'
      PROVE  ItemInv(tree_traversing_deque'[k])
  <2>1. CASE k \in 1..d
    BY <1>1, <1>2, <2>1 DEF TraversalInv
  <2>2. CASE \E i \in 1..Len(pushed) : k = d + i
    <3>1. PICK i \in 1..Len(pushed) : k = d + i
      BY <2>2
    <3>2. i \in DOMAIN pushed /\ tree_traversing_deque'[k] = pushed[i]
      BY <1>1, <3>1
    <3>3. QED
      BY <3>2 DEF Visit
  <2>3. QED
    BY <1>1, <2>1, <2>2
<1>4. Link(tree_traversing_deque', Roots', <<1>>)
  <2>1. /\ tree_traversing_deque \in Seq(Item) /\ tree_traversing_deque # <<>>
        /\ Link(tree_traversing_deque, Roots, <<1>>)
        /\ Link(pushed, Roots', After(Last(tree_traversing_deque)))
        /\ tree_traversing_deque' = Front(tree_traversing_deque) \o pushed
    BY DEF TypeOK, Visit, Return, TraversalInv, Top
  <2> DEFINE new == Roots'
             old == Roots
             below == <<1>>
  <2>2. /\ Link(tree_traversing_deque, old, below)
        /\ Link(pushed, new, After(Last(tree_traversing_deque)))
    BY <2>1
  <2> HIDE DEF new, old, below
  <2>3. Link(Front(tree_traversing_deque) \o pushed, new, below)
    BY <1>1, <2>1, <2>2, LinkReplaced
  <2>4. QED
    BY <2>1, <2>3 DEF new, below
<1>5. QED
  BY <1>1, <1>3, <1>4 DEF TraversalInv, ItemInv, Link, After

\* The code of a visit is judged by the place of the node.
LEMMA VisitReport ==
  ASSUME TypeOK, ReportInv, NEW code, NEW pushed, Visit(code, pushed)
  PROVE  ReportInv'
<1> DEFINE r == Len(reported)
           t == Top.node
<1>1. /\ ast' = ast /\ r \in Nat /\ DOMAIN reported = 1..r /\ DOMAIN reported' = 1..(r + 1)
      /\ \A k \in 1..r : reported'[k] = reported[k]
      /\ reported'[r + 1] = <<t, code>>
  BY VisitFacts
<1>2. reported'[r + 1][1] = t /\ reported'[r + 1][2] = code
  BY <1>1
<1>3. /\ status' = IF status \in {"ERROR_SYNTAX", "ERROR_INTERNAL"} THEN status ELSE code
      /\ status \in Bad <=> \E k \in 1..r : reported[k][2] \in Bad
      /\ \A k \in 1..r :
           LET n == reported[k][1]
           IN IF n = 0 THEN reported[k][2] = "ERROR_OK"
              ELSE /\ n \in DOMAIN ast /\ Known(n)
                   /\ reported[k][2] \in Bad <=> Misplaced(n) \/ NotImplemented(n)
  BY <1>1 DEF Visit, Return, ReportInv
<1>4. IF t = 0 THEN code = "ERROR_OK"
      ELSE /\ t \in DOMAIN ast /\ Known(t)
           /\ code \in Bad <=> Misplaced(t) \/ NotImplemented(t)
  BY DEF Visit, VisitsNode, IsNode
<1> HIDE DEF r, t
<1>5. 1..(r + 1) = 1..r \cup {r + 1}
  BY <1>1
<1>6. status' \in Bad <=> \E k \in 1..(r + 1) : reported'[k][2] \in Bad
  <2>1. status' \in Bad <=> status \in Bad \/ code \in Bad
    BY <1>3 DEF Bad
  <2>2. (\E k \in 1..(r + 1) : reported'[k][2] \in Bad)
           <=> (\E k \in 1..r : reported[k][2] \in Bad) \/ code \in Bad
    BY <1>1, <1>2, <1>5
  <2>3. QED
    BY <1>3, <2>1, <2>2
<1>7. \A k \in 1..(r + 1) :
           LET n == reported'[k][1]
           IN IF n = 0 THEN reported'[k][2] = "ERROR_OK"
              ELSE /\ n \in DOMAIN ast /\ Known(n)
                   /\ reported'[k][2] \in Bad <=> Misplaced(n) \/ NotImplemented(n)
  BY <1>1, <1>2, <1>3, <1>4, <1>5
<1>8. \A n : Known(n) = (ast'[n].type # "unknown")
  BY <1>1 DEF Known
<1>9. QED
  BY <1>1, <1>6, <1>7, ZenonT(60) DEF ReportInv, Known, Misplaced, NotImplemented, Encloses

LEMMA VisitHandled ==
  ASSUME TypeOK, HandledInv, NEW code, NEW pushed, Visit(code, pushed)
  PROVE  HandledInv'
<1>1. ast' = ast
  BY VisitFacts
<1>2. ASSUME NEW n \in DOMAIN ast, Known(n), ast[n].type # "NONE"
      PROVE  HandledAt(n)' # {}
  <2>1. HandledAt(n)' = HandledAt(n) \cup (IF n = Top.node THEN {Len(reported) + 1} ELSE {})
    BY VisitHandles
  <2>2. HandledAt(n) # {} \/ n = Top.node
    BY <1>2 DEF HandledInv
  <2>3. QED
    BY <2>1, <2>2
<1>3. QED
  BY <1>1, <1>2 DEF HandledInv, Known, HandledAt

\* A node that is still to be visited, and where it was pushed.
LEMMA VisitPending ==
  ASSUME TypeOK, TreeInv, NEW code, NEW pushed, Visit(code, pushed),
         NEW n \in DOMAIN ast, NEW i \in DOMAIN ast[n].nodes
  PROVE  LET d == Len(tree_traversing_deque) - 1
         IN \A p \in DOMAIN tree_traversing_deque' :
              tree_traversing_deque'[p].node = ast[n].nodes[i] =>
                \/ p \in 1..d /\ tree_traversing_deque[p].node = ast[n].nodes[i]
                \/ /\ n = Top.node /\ p \notin 1..d /\ p - d \in DOMAIN pushed
                   /\ IsNode(Top) /\ InReverse(pushed) /\ pushed # <<>>
<1> DEFINE d == Len(tree_traversing_deque) - 1
           c == ast[n].nodes[i]
<1> SUFFICES ASSUME NEW p \in DOMAIN tree_traversing_deque',
                    tree_traversing_deque'[p].node = c
             PROVE  \/ p \in 1..d /\ tree_traversing_deque[p].node = c
                    \/ /\ n = Top.node /\ p \notin 1..d /\ p - d \in DOMAIN pushed
                       /\ IsNode(Top) /\ InReverse(pushed) /\ pushed # <<>>
  OBVIOUS
<1>1. /\ d \in Nat /\ (p \in 1..d \/ \E q \in 1..Len(pushed) : p = d + q)
      /\ \A k \in 1..d : tree_traversing_deque'[k] = tree_traversing_deque[k]
      /\ \A k \in 1..Len(pushed) : tree_traversing_deque'[d + k] = pushed[k]
      /\ pushed \in Seq(Item)
  BY VisitFacts DEF Visit
<1>2. d \in Nat
  BY VisitFacts
<1>3. CASE p \in 1..d
  BY <1>1, <1>3
<1>4. CASE p \notin 1..d
  <2>1. PICK q \in 1..Len(pushed) : p = d + q
    BY <1>1, <1>4
  <2> HIDE DEF d
  <2>2. p - d = q /\ q \in DOMAIN pushed /\ pushed[q].node = c /\ pushed # <<>>
    BY <1>1, <1>2, <2>1
  <2>3. VisitsNode(code, pushed) /\ InReverse(pushed) /\ IsNode(Top)
    BY <2>2 DEF Visit, VisitsNode
  <2>4. c \in Nat \ {0}
    <3>1. ast[n].nodes \in Seq(Nat \ {0})
      BY NodesTyped DEF TypeOK
    <3>2. QED
      BY <3>1
  <2>5. IsNode(pushed[q])
    BY <2>2, <2>4 DEF IsNode
  <2>6. PICK at \in [DOMAIN Children -> DOMAIN pushed] :
          /\ \A j \in DOMAIN Children : pushed[at[j]] = Child(j)
          /\ \A k \in DOMAIN pushed : IsNode(pushed[k]) => \E j \in DOMAIN Children : at[j] = k
    BY <2>3 DEF InReverse
  <2>7. PICK j \in DOMAIN Children : at[j] = q
    BY <2>2, <2>5, <2>6
  <2>8. c = ast[Top.node].nodes[j] /\ j \in DOMAIN ast[Top.node].nodes
    <3>1. pushed[q] = Child(j)
      BY <2>6, <2>7
    <3>2. Child(j).node = Children[j]
      BY DEF Child
    <3>3. QED
      BY <2>2, <3>1, <3>2 DEF Children
  <2>9. n = Top.node
    BY <2>3, <2>8 DEF TreeInv, OneParent, VisitsNode
  <2>10. QED
    BY <1>4, <2>2, <2>3, <2>9
<1>5. QED
  BY <1>3, <1>4

\* What lies above a child on the deque, or was handled, is what the source puts before it.
LEMMA VisitOrder ==
  ASSUME TypeOK, TreeInv, OrderInv, HandledInSourceOrder, NEW code, NEW pushed,
         Visit(code, pushed)
  PROVE  OrderInv' /\ HandledInSourceOrder'
<1> DEFINE d == Len(tree_traversing_deque) - 1
           r == Len(reported)
<1>1. /\ ast' = ast /\ d \in Nat /\ DOMAIN tree_traversing_deque = 1..(d + 1)
      /\ Top = tree_traversing_deque[d + 1]
      /\ \A k \in 1..d : tree_traversing_deque'[k] = tree_traversing_deque[k]
      /\ \A k \in 1..Len(pushed) : tree_traversing_deque'[d + k] = pushed[k]
      /\ DOMAIN tree_traversing_deque' = 1..(d + Len(pushed))
      /\ r \in Nat /\ pushed \in Seq(Item)
  <2>1. pushed \in Seq(Item)
    BY DEF Visit
  <2>2. QED
    BY <2>1, VisitFacts
<1>2. \A n : /\ HandledAt(n) \subseteq 1..r
             /\ HandledAt(n)' = HandledAt(n) \cup (IF n = Top.node THEN {r + 1} ELSE {})
  BY VisitHandles
<1> HIDE DEF r
<1>3. Len(pushed) \in Nat
  BY <1>1
<1>4. ASSUME NEW n \in DOMAIN ast, NEW i \in DOMAIN ast[n].nodes, NEW j \in DOMAIN ast[n].nodes,
             NEW x, x = ast[n].nodes[i], NEW y, y = ast[n].nodes[j],
             i < j, x # y
      PROVE  /\ \A p \in DOMAIN tree_traversing_deque' :
                  tree_traversing_deque'[p].node = y =>
                    \/ HandledAt(x)' # {}
                    \/ \E q \in DOMAIN tree_traversing_deque' :
                          q > p /\ tree_traversing_deque'[q].node = x
             /\ \A b \in HandledAt(y)' :
                   \/ ast[x].type = "NONE"
                   \/ \E a \in HandledAt(x)' : a < b
  <2>1. ASSUME NEW p \in 1..d, tree_traversing_deque[p].node = y
        PROVE  \/ HandledAt(x)' # {}
               \/ \E q \in DOMAIN tree_traversing_deque' :
                     q > p /\ tree_traversing_deque'[q].node = x
    <3>1. p \in DOMAIN tree_traversing_deque
      BY <1>1
    <3>2. \/ HandledAt(x) # {}
          \/ \E q \in DOMAIN tree_traversing_deque :
                q > p /\ tree_traversing_deque[q].node = x
      BY <1>4, <2>1, <3>1 DEF OrderInv
    <3>3. CASE HandledAt(x) # {}
      BY <1>2, <3>3
    <3>4. ASSUME NEW q \in DOMAIN tree_traversing_deque,
                 q > p, tree_traversing_deque[q].node = x
          PROVE  \/ HandledAt(x)' # {}
                 \/ \E s \in DOMAIN tree_traversing_deque' :
                       s > p /\ tree_traversing_deque'[s].node = x
      <4> HIDE DEF d
      <4>1. q \in 1..d \/ q = d + 1
        <5>1. d \in Nat /\ q \in 1..(d + 1)
          BY <1>1
        <5>2. QED
          BY <5>1
      <4>2. CASE q \in 1..d
        <5>1. q \in 1..(d + Len(pushed))
          BY <1>1, <1>3, <4>2
        <5>2. QED
          BY <1>1, <3>4, <4>2, <5>1
      <4>3. CASE q = d + 1
        <5>1. Top.node = x
          BY <1>1, <3>4, <4>3
        <5>2. QED
          BY <1>2, <5>1
      <4>4. QED
        BY <4>1, <4>2, <4>3
    <3>5. QED
      BY <3>2, <3>3, <3>4
  <2>2. ASSUME NEW p \in DOMAIN tree_traversing_deque', p \notin 1..d, n = Top.node,
               p - d \in DOMAIN pushed, IsNode(Top), InReverse(pushed),
               tree_traversing_deque'[p].node = y
        PROVE  \E q \in DOMAIN tree_traversing_deque' :
                  q > p /\ tree_traversing_deque'[q].node = x
    <3>1. PICK at \in [DOMAIN Children -> DOMAIN pushed] :
            /\ \A k \in DOMAIN Children : pushed[at[k]] = Child(k)
            /\ \A k, l \in DOMAIN Children : k < l => at[k] > at[l]
            /\ \A k \in DOMAIN pushed : IsNode(pushed[k]) => \E l \in DOMAIN Children : at[l] = k
      BY <2>2 DEF InReverse
    <3>2. /\ Children = ast[n].nodes
          /\ ast[n].nodes \in Seq(Nat \ {0}) /\ ChildrenInv(n)
      BY <2>2, NodesTyped DEF Children, TypeOK, TreeInv
    <3>3. /\ p \in Nat /\ p - d \in 1..Len(pushed) /\ d + (p - d) = p
      BY <1>1, <1>3, <2>2
    <3>4. pushed[p - d].node = y /\ y # 0
      <4>1. tree_traversing_deque'[d + (p - d)] = pushed[p - d]
        BY <1>1, <3>3
      <4>2. y # 0
        BY <1>4, <3>2
      <4>3. QED
        BY <2>2, <3>3, <4>1, <4>2
    <3>5. PICK l \in DOMAIN Children : at[l] = p - d
      BY <2>2, <3>1, <3>4 DEF IsNode
    <3>6. \A k \in DOMAIN Children : pushed[at[k]].node = ast[n].nodes[k]
      <4>1. \A k \in DOMAIN Children : Child(k).node = Children[k]
        BY DEF Child
      <4>2. QED
        BY <3>1, <3>2, <4>1
    <3>7. ast[n].nodes[l] = y
      BY <1>4, <3>4, <3>5, <3>6
    <3>8. i < l
      <4>1. /\ \A k \in DOMAIN ast[n].nodes : ast[n].nodes[k] \in Nat /\ k \in Nat
        BY <3>2
      <4>2. \A k, m \in DOMAIN ast[n].nodes : k < m => ast[n].nodes[k] <= ast[n].nodes[m]
        BY <3>2 DEF ChildrenInv
      <4>3. l \in DOMAIN ast[n].nodes /\ x \in Nat /\ y \in Nat /\ x <= y
        BY <1>4, <3>2, <4>1, <4>2
      <4>4. CASE l < i
        <5>1. y <= x
          BY <1>4, <3>7, <4>2, <4>3, <4>4
        <5>2. QED
          BY <1>4, <4>3, <5>1
      <4>5. l # i
        BY <1>4, <3>7
      <4>6. QED
        BY <4>1, <4>3, <4>4, <4>5
    <3>9. at[i] > at[l] /\ at[i] \in 1..Len(pushed) /\ pushed[at[i]].node = x
      <4>1. i \in DOMAIN Children
        BY <3>2
      <4>2. at[i] > at[l] /\ at[i] \in DOMAIN pushed /\ pushed[at[i]].node = x
        BY <1>4, <3>1, <3>5, <3>6, <3>8, <4>1
      <4>3. DOMAIN pushed = 1..Len(pushed)
        BY <1>1
      <4>4. QED
        BY <4>2, <4>3
    <3> DEFINE q == d + at[i]
    <3> HIDE DEF d
    <3>10. q \in 1..(d + Len(pushed)) /\ q > p
      BY <1>1, <1>3, <3>3, <3>5, <3>9
    <3>11. tree_traversing_deque'[q].node = x
      BY <1>1, <3>9
    <3>12. QED
      BY <1>1, <3>10, <3>11
  <2>3. \A p \in DOMAIN tree_traversing_deque' :
                  tree_traversing_deque'[p].node = y =>
                    \/ HandledAt(x)' # {}
                    \/ \E q \in DOMAIN tree_traversing_deque' :
                          q > p /\ tree_traversing_deque'[q].node = x
    <3>1. \A p \in DOMAIN tree_traversing_deque' : tree_traversing_deque'[p].node = y =>
                \/ p \in 1..d /\ tree_traversing_deque[p].node = y
                \/ /\ n = Top.node /\ p \notin 1..d /\ p - d \in DOMAIN pushed
                   /\ IsNode(Top) /\ InReverse(pushed) /\ pushed # <<>>
      BY <1>4, VisitPending
    <3> HIDE DEF d
    <3>2. QED
      BY <2>1, <2>2, <3>1
  <2>4. ASSUME NEW b \in HandledAt(y)'
        PROVE  \/ ast[x].type = "NONE"
               \/ \E a \in HandledAt(x)' : a < b
    <3>1. CASE b \in HandledAt(y)
      <4>1. \/ ast[x].type = "NONE"
            \/ \E a \in HandledAt(x) : a < b
        BY <1>4, <3>1 DEF HandledInSourceOrder
      <4>2. QED
        BY <1>2, <4>1
    <3>2. CASE b = r + 1 /\ Top.node = y
      <4>1. d + 1 \in DOMAIN tree_traversing_deque /\ tree_traversing_deque[d + 1].node = y
        BY <1>1, <3>2
      <4>2. \/ HandledAt(x) # {}
            \/ \E q \in DOMAIN tree_traversing_deque :
                  q > d + 1 /\ tree_traversing_deque[q].node = x
        BY <1>4, <4>1 DEF OrderInv
      <4> HIDE DEF d
      <4>3. \A q \in DOMAIN tree_traversing_deque : ~(q > d + 1)
        BY <1>1
      <4>4. PICK a \in HandledAt(x) : TRUE
        BY <4>2, <4>3
      <4>5. a \in 1..r /\ a \in HandledAt(x)'
        BY <1>2
      <4>6. a < b
        BY <1>1, <3>2, <4>5
      <4>7. QED
        BY <4>5, <4>6
    <3>3. b \in HandledAt(y) \/ (b = r + 1 /\ Top.node = y)
      <4>1. HandledAt(y)' = HandledAt(y) \cup (IF y = Top.node THEN {r + 1} ELSE {})
        BY <1>2
      <4>2. QED
        BY <2>4, <4>1
    <3>4. QED
      BY <3>1, <3>2, <3>3
  <2>5. QED
    BY <2>3, <2>4
<1> DEFINE Handled(n) == {k \in DOMAIN reported' : reported'[k][1] = n}
<1>5. \A n \in DOMAIN ast : \A i, j \in DOMAIN ast[n].nodes :
        i < j /\ ast[n].nodes[i] # ast[n].nodes[j] =>
          /\ \A p \in DOMAIN tree_traversing_deque' :
               tree_traversing_deque'[p].node = ast[n].nodes[j] =>
                 \/ Handled(ast[n].nodes[i]) # {}
                 \/ \E q \in DOMAIN tree_traversing_deque' :
                       q > p /\ tree_traversing_deque'[q].node = ast[n].nodes[i]
          /\ \A b \in Handled(ast[n].nodes[j]) :
               \/ ast[ast[n].nodes[i]].type = "NONE"
               \/ \E a \in Handled(ast[n].nodes[i]) : a < b
  <2>1. \A n : HandledAt(n)' = Handled(n)
    BY DEF HandledAt
  <2> HIDE DEF Handled
  <2>2. \A n \in DOMAIN ast : \A i, j \in DOMAIN ast[n].nodes : \A x, y :
        x = ast[n].nodes[i] /\ y = ast[n].nodes[j] /\ i < j /\ x # y =>
          /\ \A p \in DOMAIN tree_traversing_deque' :
               tree_traversing_deque'[p].node = y =>
                 \/ Handled(x) # {}
                 \/ \E q \in DOMAIN tree_traversing_deque' :
                       q > p /\ tree_traversing_deque'[q].node = x
          /\ \A b \in Handled(y) :
               \/ ast[x].type = "NONE"
               \/ \E a \in Handled(x) : a < b
    BY <1>4, <2>1
  <2>3. QED
    BY <2>2
<1>6. OrderInv'
  BY <1>1, <1>5 DEF OrderInv, HandledAt
<1>7. HandledInSourceOrder'
  <2>1. SUFFICES ASSUME NEW n \in DOMAIN ast,
                        NEW i \in DOMAIN ast[n].nodes, NEW j \in DOMAIN ast[n].nodes,
                        i < j, ast[n].nodes[i] # ast[n].nodes[j],
                        NEW b \in Handled(ast[n].nodes[j])
                 PROVE  \/ ast[ast[n].nodes[i]].type = "NONE"
                        \/ \E a \in Handled(ast[n].nodes[i]) : a < b
    BY <1>1, SMTT(30) DEF HandledInSourceOrder, HandledAt
  <2> HIDE DEF Handled
  <2>2. QED
    BY <1>5, <2>1
<1>8. QED
  BY <1>6, <1>7

ItemsOf(items, n) == {k \in DOMAIN items : items[k].node = n}

LEMMA FiniteSets ==
  ASSUME TypeOK
  PROVE  \A n : /\ IsFiniteSet(HandledAt(n)) /\ Cardinality(HandledAt(n)) \in Nat
                /\ IsFiniteSet(PendingAt(n)) /\ Cardinality(PendingAt(n)) \in Nat
<1> TAKE n
<1>1. /\ Len(reported) \in Nat /\ DOMAIN reported = 1..Len(reported)
      /\ Len(tree_traversing_deque) \in Nat
      /\ DOMAIN tree_traversing_deque = 1..Len(tree_traversing_deque)
  <2>1. ASSUME NEW S, NEW s \in Seq(S) PROVE Len(s) \in Nat /\ DOMAIN s = 1..Len(s)
    OBVIOUS
  <2>2. QED
    BY <2>1 DEF TypeOK
<1>2. IsFiniteSet(1..Len(reported)) /\ IsFiniteSet(1..Len(tree_traversing_deque))
  BY <1>1, FS_Interval
<1>3. HandledAt(n) \in SUBSET (1..Len(reported))
      /\ PendingAt(n) \in SUBSET (1..Len(tree_traversing_deque))
  BY <1>1 DEF HandledAt, PendingAt
<1>4. IsFiniteSet(HandledAt(n)) /\ IsFiniteSet(PendingAt(n))
  BY <1>2, <1>3, FS_Subset
<1>5. QED
  BY <1>4, FS_CardinalityType

\* As many items are pushed for a child as it is listed.
LEMMA PushedAsListed ==
  ASSUME TypeOK, TreeInv, NEW code, NEW pushed, Visit(code, pushed), IsNode(Top),
         InReverse(pushed), NEW c \in Nat \ {0}
  PROVE  LET these == ItemsOf(pushed, c)
         IN /\ IsFiniteSet(ListedAt(Top.node, c)) /\ IsFiniteSet(these)
            /\ Cardinality(these) = Cardinality(ListedAt(Top.node, c))
<1> DEFINE these == ItemsOf(pushed, c)
           listed == ListedAt(Top.node, c)
<1>1. PICK at \in [DOMAIN Children -> DOMAIN pushed] :
        /\ \A i \in DOMAIN Children : pushed[at[i]] = Child(i)
        /\ \A i, j \in DOMAIN Children : i < j => at[i] > at[j]
        /\ \A k \in DOMAIN pushed : IsNode(pushed[k]) => \E i \in DOMAIN Children : at[i] = k
  BY DEF InReverse
<1>2. /\ Children \in Seq(Nat \ {0}) /\ Len(Children) \in Nat /\ DOMAIN Children = 1..Len(Children)
      /\ listed = {i \in DOMAIN Children : Children[i] = c}
  <2>1. Children \in Seq(Nat \ {0})
    BY NodesTyped DEF Visit, VisitsNode, TypeOK, Children
  <2>2. listed = {i \in DOMAIN Children : Children[i] = c}
    BY DEF ListedAt, Children
  <2>3. QED
    BY <2>1, <2>2
<1>3. DOMAIN pushed \subseteq Nat
  BY DEF Visit
<1>4. \A i \in DOMAIN Children : pushed[at[i]].node = Children[i] /\ at[i] \in Nat /\ i \in Nat
  <2>1. \A i \in DOMAIN Children : Child(i).node = Children[i]
    BY DEF Child
  <2>2. QED
    BY <1>1, <1>2, <1>3, <2>1
<1> HIDE DEF these, listed
<1>5. IsFiniteSet(listed)
  <2>1. IsFiniteSet(1..Len(Children)) /\ listed \in SUBSET (1..Len(Children))
    BY <1>2, FS_Interval
  <2>2. QED
    BY <2>1, FS_Subset
<1> DEFINE f == [i \in listed |-> at[i]]
<1>6. f \in Bijection(listed, these)
  <2>1. f \in [listed -> these]
    BY <1>1, <1>2, <1>4 DEF these, ItemsOf
  <2>2. \A i, j \in listed : f[i] = f[j] => i = j
    <3> SUFFICES ASSUME NEW i \in listed, NEW j \in listed, at[i] = at[j], i # j PROVE FALSE
      OBVIOUS
    <3>1. i \in DOMAIN Children /\ j \in DOMAIN Children
      BY <1>2
    <3>2. at[i] \in Nat /\ at[j] \in Nat /\ i \in Nat /\ j \in Nat
      BY <1>4, <3>1
    <3>3. i < j \/ j < i
      BY <3>2
    <3>4. at[i] > at[j] \/ at[j] > at[i]
      BY <1>1, <3>1, <3>3
    <3>5. QED
      BY <3>2, <3>4
  <2>3. \A k \in these : \E i \in listed : f[i] = k
    <3> SUFFICES ASSUME NEW k \in these PROVE \E i \in listed : at[i] = k
      OBVIOUS
    <3>1. k \in DOMAIN pushed /\ pushed[k].node = c /\ IsNode(pushed[k])
      BY DEF these, ItemsOf, IsNode
    <3>2. PICK i \in DOMAIN Children : at[i] = k
      BY <1>1, <3>1
    <3>3. QED
      BY <1>2, <1>4, <3>1, <3>2
  <2> HIDE DEF f
  <2>4. QED
    BY <2>1, <2>2, <2>3 DEF Bijection, Injection, Surjection, IsInjective
<1>7. ExistsBijection(listed, these)
  BY <1>6 DEF ExistsBijection
<1>8. QED
  BY <1>5, <1>7, FS_Bijection DEF these, listed

\* What a visit changes of the two counts of a node.
LEMMA VisitCounts ==
  ASSUME TypeOK, NEW code, NEW pushed, Visit(code, pushed), NEW c,
         IsFiniteSet(ItemsOf(pushed, c))
  PROVE  LET one == IF c = Top.node THEN 1 ELSE 0
             these == ItemsOf(pushed, c)
         IN /\ Cardinality(HandledAt(c)') = Cardinality(HandledAt(c)) + one
            /\ Cardinality(PendingAt(c)') + one = Cardinality(PendingAt(c)) + Cardinality(these)
            /\ Cardinality(PendingAt(c)') \in Nat
<1> DEFINE one == IF c = Top.node THEN 1 ELSE 0
           these == ItemsOf(pushed, c)
           d == Len(tree_traversing_deque) - 1
           r == Len(reported)
           low == {k \in 1..d : tree_traversing_deque[k].node = c}
           high == {d + k : k \in these}
<1>1. /\ d \in Nat /\ DOMAIN tree_traversing_deque = 1..(d + 1)
      /\ Top = tree_traversing_deque[d + 1]
      /\ DOMAIN tree_traversing_deque' = 1..(d + Len(pushed))
      /\ \A k \in 1..d : tree_traversing_deque'[k] = tree_traversing_deque[k]
      /\ \A k \in 1..Len(pushed) : tree_traversing_deque'[d + k] = pushed[k]
      /\ \A k \in DOMAIN tree_traversing_deque' :
           k \in 1..d \/ \E i \in 1..Len(pushed) : k = d + i
  BY VisitFacts
<1>2. Len(pushed) \in Nat /\ DOMAIN pushed = 1..Len(pushed)
  BY DEF Visit
<1> HIDE DEF d
<1>3. /\ IsFiniteSet(low) /\ IsFiniteSet(these)
      /\ IsFiniteSet(HandledAt(c)) /\ Cardinality(HandledAt(c)) \in Nat
      /\ HandledAt(c) \subseteq 1..r /\ r \in Nat
      /\ HandledAt(c)' = HandledAt(c) \cup (IF c = Top.node THEN {r + 1} ELSE {})
  <2>1. IsFiniteSet(1..d)
    <3>1. d \in Int /\ 1 \in Int
      BY <1>1
    <3>2. QED
      BY <3>1, FS_Interval
  <2>2. IsFiniteSet(low)
    <3>1. low \in SUBSET (1..d)
      OBVIOUS
    <3>2. QED
      BY <2>1, <3>1, FS_Subset
  <2>3. QED
    BY <2>2, FiniteSets, VisitHandles
<1>4. PendingAt(c) = low \cup (IF c = Top.node THEN {d + 1} ELSE {})
  <2>1. PendingAt(c) = {k \in 1..(d + 1) : tree_traversing_deque[k].node = c}
    BY <1>1 DEF PendingAt
  <2>2. 1..(d + 1) = 1..d \cup {d + 1}
    BY <1>1
  <2>3. QED
    BY <1>1, <2>1, <2>2
<1>5. PendingAt(c)' = low \cup high
  <2>1. PendingAt(c)' = {k \in 1..(d + Len(pushed)) : tree_traversing_deque'[k].node = c}
    BY <1>1 DEF PendingAt
  <2>2. ASSUME NEW k, k \in low \cup high
        PROVE  k \in 1..(d + Len(pushed)) /\ tree_traversing_deque'[k].node = c
    <3>1. CASE k \in low
      BY <1>1, <1>2, <3>1
    <3>2. CASE k \in high
      <4>1. PICK i \in these : k = d + i
        BY <3>2
      <4>2. i \in 1..Len(pushed) /\ pushed[i].node = c
        BY <1>2, <4>1 DEF ItemsOf
      <4>3. d + i \in 1..(d + Len(pushed))
        BY <1>1, <1>2, <4>2
      <4>4. QED
        BY <1>1, <4>1, <4>2, <4>3
    <3>3. QED
      BY <2>2, <3>1, <3>2
  <2>3. ASSUME NEW k \in 1..(d + Len(pushed)), tree_traversing_deque'[k].node = c
        PROVE  k \in low \cup high
    <3>1. CASE k \in 1..d
      BY <1>1, <2>3, <3>1
    <3>2. CASE k \notin 1..d
      <4>1. PICK i \in 1..Len(pushed) : k = d + i
        BY <1>1, <3>2
      <4>2. pushed[i].node = c /\ i \in DOMAIN pushed
        BY <1>1, <1>2, <2>3, <4>1
      <4>3. QED
        BY <4>1, <4>2 DEF ItemsOf
    <3>3. QED
      BY <3>1, <3>2
  <2> HIDE DEF low, high
  <2>4. QED
    BY <2>1, <2>2, <2>3
<1>6. IsFiniteSet(high) /\ Cardinality(high) = Cardinality(these) /\ low \cap high = {}
  <2> DEFINE f == [k \in these |-> d + k]
  <2>1. \A k \in these : k \in Nat \ {0}
    BY <1>2 DEF ItemsOf
  <2>2. f \in [these -> high] /\ \A k \in high : \E i \in these : f[i] = k
    <3> HIDE DEF these
    <3>1. QED
      OBVIOUS
  <2>3. \A i, j \in these : f[i] = f[j] => i = j
    <3> HIDE DEF these
    <3>1. SUFFICES ASSUME NEW i \in these, NEW j \in these, d + i = d + j PROVE i = j
      OBVIOUS
    <3>2. i \in Nat /\ j \in Nat
      BY <2>1
    <3>3. QED
      BY <1>1, <3>1, <3>2
  <2>4. low \cap high = {}
    <3> SUFFICES ASSUME NEW k \in 1..d, NEW i \in these, k = d + i PROVE FALSE
      OBVIOUS
    <3> HIDE DEF these
    <3>1. i \in Nat \ {0}
      BY <2>1
    <3>2. QED
      BY <1>1, <3>1
  <2> HIDE DEF f, these, high, low
  <2>5. f \in Bijection(these, high)
    BY <2>2, <2>3 DEF Bijection, Injection, Surjection, IsInjective
  <2>6. ExistsBijection(these, high)
    BY <2>5 DEF ExistsBijection
  <2>7. QED
    BY <1>3, <2>4, <2>6, FS_Bijection
<1> HIDE DEF these, high
<1>7. /\ Cardinality(low) \in Nat /\ Cardinality(these) \in Nat
      /\ Cardinality(PendingAt(c)') = Cardinality(low) + Cardinality(these)
  <2> HIDE DEF low
  <2>1. /\ IsFiniteSet(low \cup high)
        /\ Cardinality(low \cup high) = Cardinality(low) + Cardinality(high) - Cardinality(low \cap high)
    BY <1>3, <1>6, FS_Union
  <2>2. Cardinality(low \cap high) = 0
    BY <1>6, FS_EmptySet
  <2>3. Cardinality(low) \in Nat /\ Cardinality(high) \in Nat
    BY <1>3, <1>6, FS_CardinalityType
  <2>4. QED
    BY <1>5, <1>6, <2>1, <2>2, <2>3
<1>8. Cardinality(PendingAt(c)) = Cardinality(low) + one
  <2>1. d + 1 \notin low
    BY <1>1
  <2> HIDE DEF low
  <2>2. CASE c = Top.node
    <3>1. Cardinality(low \cup {d + 1}) = Cardinality(low) + 1
      BY <1>3, <2>1, FS_AddElement
    <3>2. QED
      BY <1>4, <2>2, <3>1
  <2>3. CASE c # Top.node
    BY <1>4, <1>7, <2>3
  <2>4. QED
    BY <2>2, <2>3
<1>9. Cardinality(HandledAt(c)') = Cardinality(HandledAt(c)) + one
  <2>1. r + 1 \notin HandledAt(c)
    BY <1>3
  <2>2. CASE c = Top.node
    <3>1. Cardinality(HandledAt(c) \cup {r + 1}) = Cardinality(HandledAt(c)) + 1
      BY <1>3, <2>1, FS_AddElement
    <3>2. QED
      BY <1>3, <2>2, <3>1
  <2>3. CASE c # Top.node
    BY <1>3, <2>3
  <2>4. QED
    BY <2>2, <2>3
<1>10. one \in Nat
  OBVIOUS
<1> HIDE DEF low, one
<1>11. QED
  BY <1>7, <1>8, <1>9, <1>10 DEF these, one

LEMMA VisitCount ==
  ASSUME TypeOK, TreeInv, CountInv, NEW code, NEW pushed, Visit(code, pushed)
  PROVE  CountInv'
<1> DEFINE r == Len(reported)
<1>1. /\ ast' = ast /\ r \in Nat /\ DOMAIN reported = 1..r /\ DOMAIN reported' = 1..(r + 1)
      /\ \A k \in 1..r : reported'[k] = reported[k]
      /\ reported'[r + 1] = <<Top.node, code>>
      /\ pushed \in Seq(Item)
  BY VisitFacts DEF Visit
<1> DEFINE RejectedNext(n) ==
             /\ ast[n].type = "FUNCTION_DEFINITION"
             /\ \E k \in DOMAIN reported' : reported'[k][1] = n /\ reported'[k][2] \in {"ERROR_SYNTAX", "ERROR_SEM"}
<1>2. ASSUME NEW n \in DOMAIN ast, NEW i \in DOMAIN ast[n].nodes, NEW c, c = ast[n].nodes[i],
             ast[c].type # "NONE", ~RejectedNext(n)
      PROVE  Cardinality(HandledAt(c)') + Cardinality(PendingAt(c)')
               = Cardinality(HandledAt(n)') * Cardinality(ListedAt(n, c))
  <2> DEFINE these == ItemsOf(pushed, c)
             t == Top.node
  <2>1. ~Rejected(n)
    <3> SUFFICES ASSUME Rejected(n) PROVE FALSE
      OBVIOUS
    <3>1. PICK k \in DOMAIN reported : reported[k][1] = n /\ reported[k][2] \in {"ERROR_SYNTAX", "ERROR_SEM"}
      BY DEF Rejected, HandledAt
    <3>2. k \in DOMAIN reported' /\ reported'[k] = reported[k]
      BY <1>1, <3>1
    <3>3. QED
      BY <1>2, <3>1, <3>2 DEF Rejected
  <2>2. Cardinality(HandledAt(c)) + Cardinality(PendingAt(c))
          = Cardinality(HandledAt(n)) * Cardinality(ListedAt(n, c))
    BY <1>2, <2>1 DEF CountInv
  <2>3. ast[n].nodes \in Seq(Nat \ {0}) /\ c \in Nat \ {0} /\ n \in Nat \ {0}
    <3>1. ast[n].nodes \in Seq(Nat \ {0}) /\ DOMAIN ast = 1..Len(ast)
      BY NodesTyped DEF TypeOK
    <3>2. c \in Nat \ {0}
      BY <1>2, <3>1
    <3>3. QED
      BY <3>1, <3>2
  <2>4. c > n
    BY <1>2 DEF TreeInv, ChildrenInv
  <2>5. /\ Cardinality(HandledAt(c)) \in Nat /\ Cardinality(PendingAt(c)) \in Nat
        /\ Cardinality(HandledAt(n)) \in Nat
    BY FiniteSets
  <2>6. CASE n = t
    <3>1. IsNode(Top) /\ VisitsNode(code, pushed)
      BY <2>3, <2>6 DEF Visit, IsNode
    <3>2. InReverse(pushed)
      <4> SUFFICES ASSUME Skipped(code) PROVE FALSE
        BY <3>1 DEF VisitsNode
      <4>1. CASE \A j \in DOMAIN Children : ast[Children[j]].type = "NONE"
        BY <1>2, <2>6, <4>1 DEF Children
      <4>2. CASE ast[n].type = "FUNCTION_DEFINITION" /\ code \in {"ERROR_SYNTAX", "ERROR_SEM"}
        <5>1. r + 1 \in DOMAIN reported' /\ reported'[r + 1][1] = n /\ reported'[r + 1][2] = code
          BY <1>1, <2>6
        <5>2. QED
          BY <1>2, <4>2, <5>1
      <4>3. QED
        BY <2>6, <4>1, <4>2 DEF Skipped
    <3>3. IsFiniteSet(ListedAt(n, c)) /\ IsFiniteSet(these)
          /\ Cardinality(these) = Cardinality(ListedAt(n, c))
      <4>1. /\ IsFiniteSet(ListedAt(Top.node, c)) /\ IsFiniteSet(these)
            /\ Cardinality(these) = Cardinality(ListedAt(Top.node, c))
        BY <2>3, <3>1, <3>2, PushedAsListed
      <4>2. ListedAt(Top.node, c) = ListedAt(n, c)
        BY <2>6 DEF ListedAt
      <4>3. QED
        BY <4>1, <4>2
    <3>4. c # t
      BY <2>3, <2>4, <2>6
    <3>5. /\ Cardinality(HandledAt(c)') = Cardinality(HandledAt(c))
          /\ Cardinality(PendingAt(c)') = Cardinality(PendingAt(c)) + Cardinality(these)
      <4> DEFINE one == IF c = t THEN 1 ELSE 0
      <4>1. /\ Cardinality(HandledAt(c)') = Cardinality(HandledAt(c)) + one
            /\ Cardinality(PendingAt(c)') + one = Cardinality(PendingAt(c)) + Cardinality(these)
            /\ Cardinality(PendingAt(c)') \in Nat
        BY <3>3, VisitCounts
      <4>2. one = 0
        BY <3>4
      <4>3. Cardinality(these) \in Nat
        BY <3>3, FS_CardinalityType
      <4> HIDE DEF one, these
      <4>4. QED
        BY <2>5, <4>1, <4>2, <4>3
    <3>6. Cardinality(HandledAt(n)') = Cardinality(HandledAt(n)) + 1
      <4>1. HandledAt(n)' = HandledAt(n) \cup {r + 1} /\ r + 1 \notin HandledAt(n)
        <5>1. /\ HandledAt(n) \subseteq 1..r
              /\ HandledAt(n)' = HandledAt(n) \cup (IF n = Top.node THEN {r + 1} ELSE {})
          BY VisitHandles
        <5>2. r + 1 \notin 1..r
          BY <1>1
        <5>3. QED
          BY <2>6, <5>1, <5>2
      <4>2. IsFiniteSet(HandledAt(n))
        BY FiniteSets
      <4>3. QED
        BY <4>1, <4>2, FS_AddElement
    <3>7. Cardinality(ListedAt(n, c)) \in Nat
      BY <3>3, FS_CardinalityType
    <3>8. \A h, l, a, b \in Nat : a + b = h * l => a + (b + l) = (h + 1) * l
      OBVIOUS
    <3>9. QED
      BY <2>2, <2>5, <3>3, <3>5, <3>6, <3>7, <3>8
  <2>7. CASE n # t
    <3>1. these = {}
      <4> SUFFICES ASSUME NEW k \in DOMAIN pushed, pushed[k].node = c PROVE FALSE
        BY DEF ItemsOf
      <4>1. VisitsNode(code, pushed) /\ InReverse(pushed) /\ IsNode(pushed[k])
        BY <2>3 DEF Visit, VisitsNode, IsNode
      <4>2. PICK at \in [DOMAIN Children -> DOMAIN pushed] :
              /\ \A j \in DOMAIN Children : pushed[at[j]] = Child(j)
              /\ \A l \in DOMAIN pushed : IsNode(pushed[l]) => \E j \in DOMAIN Children : at[j] = l
        BY <4>1 DEF InReverse
      <4>3. PICK j \in DOMAIN Children : at[j] = k
        BY <4>1, <4>2
      <4>4. pushed[k] = Child(j) /\ Child(j).node = Children[j]
        BY <4>2, <4>3 DEF Child
      <4>5. c = ast[t].nodes[j] /\ j \in DOMAIN ast[t].nodes /\ t \in DOMAIN ast
        BY <4>1, <4>4 DEF Children, VisitsNode
      <4>6. QED
        BY <1>2, <2>7, <4>5 DEF TreeInv, OneParent
    <3>2. IsFiniteSet(these) /\ Cardinality(these) = 0
      BY <3>1, FS_EmptySet
    <3> DEFINE one == IF c = t THEN 1 ELSE 0
    <3>3. /\ Cardinality(HandledAt(c)') = Cardinality(HandledAt(c)) + one
          /\ Cardinality(PendingAt(c)') + one = Cardinality(PendingAt(c)) + 0
          /\ Cardinality(PendingAt(c)') \in Nat
      BY <3>2, VisitCounts
    <3>4. HandledAt(n)' = HandledAt(n)
      BY <2>7, VisitHandles
    <3>5. one \in Nat
      OBVIOUS
    <3> HIDE DEF one
    <3>6. Cardinality(HandledAt(c)') + Cardinality(PendingAt(c)')
            = Cardinality(HandledAt(c)) + Cardinality(PendingAt(c))
      BY <2>5, <3>3, <3>5
    <3>7. QED
      BY <2>2, <3>4, <3>6
  <2>8. QED
    BY <2>6, <2>7
<1> DEFINE Handled(n) == {k \in DOMAIN reported' : reported'[k][1] = n}
           Pending(n) == {k \in DOMAIN tree_traversing_deque' : tree_traversing_deque'[k].node = n}
<1>3. \A n \in DOMAIN ast : \A i \in DOMAIN ast[n].nodes :
        \/ ast[ast[n].nodes[i]].type = "NONE"
        \/ RejectedNext(n)
        \/ Cardinality(Handled(ast[n].nodes[i])) + Cardinality(Pending(ast[n].nodes[i]))
             = Cardinality(Handled(n)) * Cardinality(ListedAt(n, ast[n].nodes[i]))
  <2>1. \A n : HandledAt(n)' = Handled(n) /\ PendingAt(n)' = Pending(n)
    BY DEF HandledAt, PendingAt
  <2> HIDE DEF Handled, Pending, RejectedNext
  <2>2. \A n \in DOMAIN ast : \A i \in DOMAIN ast[n].nodes : \A c :
          c = ast[n].nodes[i] /\ ast[c].type # "NONE" /\ ~RejectedNext(n) =>
            Cardinality(Handled(c)) + Cardinality(Pending(c))
              = Cardinality(Handled(n)) * Cardinality(ListedAt(n, c))
    BY <1>2, <2>1
  <2>3. QED
    BY <2>2
<1> DEFINE Listed(n, c) == {j \in DOMAIN ast'[n].nodes : ast'[n].nodes[j] = c}
           RejectedThen(n) == /\ ast'[n].type = "FUNCTION_DEFINITION"
                              /\ \E k \in Handled(n) : reported'[k][2] \in {"ERROR_SYNTAX", "ERROR_SEM"}
<1>4. \A n \in DOMAIN ast' : \A i \in DOMAIN ast'[n].nodes :
        \/ ast'[ast'[n].nodes[i]].type = "NONE"
        \/ RejectedThen(n)
        \/ Cardinality(Handled(ast'[n].nodes[i])) + Cardinality(Pending(ast'[n].nodes[i]))
             = Cardinality(Handled(n)) * Cardinality(Listed(n, ast'[n].nodes[i]))
  <2>1. \A n, c : Listed(n, c) = ListedAt(n, c)
    BY <1>1 DEF ListedAt
  <2>2. \A n : RejectedNext(n) => RejectedThen(n)
    BY <1>1
  <2> HIDE DEF Handled, Pending, RejectedNext, RejectedThen, Listed
  <2>3. QED
    BY <1>1, <1>3, <2>1, <2>2
<1>5. QED
  BY <1>4, Zenon DEF CountInv, Rejected, HandledAt, PendingAt, ListedAt
-----------------------------------------------------------------------------
(* The handlers *)

LEMMA GreatestNumber ==
  ASSUME NEW n \in Nat, NEW T \in SUBSET (1..n), T # {}
  PROVE  \E x \in T : \A y \in T : y <= x
<1> DEFINE U == {n - x : x \in T}
<1>1. U \in SUBSET Nat /\ U # {}
  <2>1. \A x \in 1..n : n - x \in Nat
    OBVIOUS
  <2>2. \A x \in T : n - x \in Nat
    BY <2>1
  <2>3. PICK x \in T : TRUE
    OBVIOUS
  <2>4. n - x \in U
    OBVIOUS
  <2>5. QED
    BY <2>2, <2>4
<1>2. PICK u \in U : \A v \in U : <<v, u>> \notin OpToRel(<, Nat)
  <2> HIDE DEF U
  <2>1. QED
    BY <1>1, NatLessThanWellFounded, WFMin, Zenon
<1>3. OpToRel(<, Nat) = {ss \in Nat \X Nat : ss[1] < ss[2]}
  BY Zenon DEF OpToRel
<1>4. ASSUME NEW v \in U PROVE u <= v
  <2>1. <<v, u>> \notin {ss \in Nat \X Nat : ss[1] < ss[2]}
    BY <1>2, <1>3
  <2> HIDE DEF U
  <2>2. <<v, u>> \in Nat \X Nat /\ <<v, u>>[1] = v /\ <<v, u>>[2] = u
    BY <1>1
  <2>3. ~(v < u) /\ v \in Nat /\ u \in Nat
    BY <2>1, <2>2
  <2>4. QED
    BY <2>3
<1>5. PICK x \in T : u = n - x
  OBVIOUS
<1>6. ASSUME NEW y \in T PROVE y <= x
  <2>1. n - x <= n - y
    BY <1>4, <1>5
  <2>2. x \in Nat /\ y \in Nat
    OBVIOUS
  <2>3. QED
    BY <2>1, <2>2
<1>7. QED
  BY <1>6

\* find_first_node_type_in_scope finds a scope if there is one of the type.
LEMMA FirstScope ==
  ASSUME TypeOK, NEW type
  PROVE  LET found == find_first_node_type_in_scope(current_scope, type)
         IN IF \E i \in DOMAIN current_scope : ast[current_scope[i].root].type = type
            THEN found \in DOMAIN current_scope /\ ast[current_scope[found].root].type = type
            ELSE found = 0
<1> DEFINE T == {i \in DOMAIN current_scope : ast[current_scope[i].root].type = type}
           found == find_first_node_type_in_scope(current_scope, type)
<1>1. found = IF T = {} THEN 0 ELSE CHOOSE i \in T : \A j \in T : j <= i
  BY DEF find_first_node_type_in_scope
<1>2. CASE T = {}
  BY <1>1, <1>2
<1>3. CASE T # {}
  <2>1. Len(current_scope) \in Nat /\ T \in SUBSET (1..Len(current_scope))
    BY DEF TypeOK
  <2>2. \E i \in T : \A j \in T : j <= i
    <3> HIDE DEF T
    <3>1. QED
      BY <1>3, <2>1, GreatestNumber
  <2>3. found \in T
    <3> HIDE DEF T, found
    <3>1. QED
      BY <1>1, <1>3, <2>2
  <2>4. QED
    BY <1>3, <2>3
<1>4. QED
  BY <1>2, <1>3

LEMMA RootsFacts ==
  ASSUME TypeOK
  PROVE  /\ Roots \in Seq(Nat) /\ Len(Roots) = Len(current_scope)
         /\ Len(current_scope) \in Nat
         /\ DOMAIN Roots = 1..Len(current_scope) /\ DOMAIN current_scope = 1..Len(current_scope)
         /\ \A i \in DOMAIN current_scope :
              /\ Roots[i] = current_scope[i].root
              /\ current_scope[i] \in Scope /\ current_scope[i].root \in Nat
              /\ current_scope[i].local_table \in Seq({"ID", "FUNCTION_DEFINITION"})
<1>1. /\ Len(current_scope) \in Nat /\ DOMAIN current_scope = 1..Len(current_scope)
      /\ \A i \in DOMAIN current_scope : current_scope[i] \in Scope
  <2>1. current_scope \in Seq(Scope)
    BY DEF TypeOK
  <2>2. QED
    BY <2>1
<1>2. \A s \in Scope : s.root \in Nat /\ s.local_table \in Seq({"ID", "FUNCTION_DEFINITION"})
  BY DEF Scope
<1>3. Roots = [i \in 1..Len(current_scope) |-> current_scope[i].root]
  BY <1>1 DEF Roots
<1>4. Roots \in [1..Len(current_scope) -> Nat]
  BY <1>1, <1>2, <1>3
<1>5. QED
  BY <1>1, <1>2, <1>3, <1>4

\* The node at the top of the deque lies in the scopes that are open.
LEMMA AtTop ==
  ASSUME TypeOK, TreeInv, TraversalInv, pc = "analysis", tree_traversing_deque # <<>>,
         IsNode(Top)
  PROVE  /\ Top.node \in DOMAIN ast /\ Top.node \in Nat \ {0} /\ Top \in Item
         /\ ast[Top.node] \in Node /\ ast[Top.node].type \in NodeType
         /\ NodeInv(Top.node) /\ ChildrenInv(Top.node)
         /\ ast[Top.node].within \in Seq(Nat) /\ ast[Top.node].within # <<>>
         /\ Roots = ast[Top.node].within /\ After(Top) = ast[Top.node].within
         /\ Children = ast[Top.node].nodes
         /\ Children \in Seq(Nat \ {0}) /\ Len(Children) \in Nat
         /\ DOMAIN Children = 1..Len(Children)
<1>1. /\ Len(tree_traversing_deque) \in DOMAIN tree_traversing_deque
      /\ Top = tree_traversing_deque[Len(tree_traversing_deque)] /\ Top \in Item
  <2>1. tree_traversing_deque \in Seq(Item)
    BY DEF TypeOK
  <2>2. /\ DOMAIN tree_traversing_deque = 1..Len(tree_traversing_deque)
        /\ Len(tree_traversing_deque) \in Nat \ {0}
        /\ Top = tree_traversing_deque[Len(tree_traversing_deque)] /\ Top \in Item
    BY <2>1, FrontAndLast DEF Top
  <2>3. QED
    BY <2>2
<1>2. /\ ItemInv(Top)
      /\ Link(tree_traversing_deque, Roots, <<1>>)
  BY <1>1 DEF TraversalInv
<1>3. Top.node \in DOMAIN ast /\ Top.within = ast[Top.node].within /\ Top.within = Roots
      /\ After(Top) = Top.within
  BY <1>2 DEF ItemInv, Link, Top, After
<1>4. /\ DOMAIN ast = 1..Len(ast) /\ ast[Top.node] \in Node /\ ast[Top.node].type \in NodeType
      /\ ast[Top.node].nodes \in Seq(Nat \ {0}) /\ ast[Top.node].within \in Seq(Nat)
  BY <1>3, NodesTyped DEF TypeOK
<1>5. NodeInv(Top.node) /\ ChildrenInv(Top.node)
  BY <1>3 DEF TreeInv
<1>6. Top.node \in Nat \ {0}
  BY <1>3, <1>4
<1>7. Children = ast[Top.node].nodes /\ Children \in Seq(Nat \ {0})
  BY <1>4 DEF Children
<1>8. Len(Children) \in Nat /\ DOMAIN Children = 1..Len(Children)
  BY <1>7
<1>9. QED
  BY <1>1, <1>3, <1>4, <1>5, <1>6, <1>7, <1>8 DEF NodeInv

\* The scopes looked through are those that enclose the node by its place.
LEMMA LexicalScope ==
  ASSUME TypeOK, TreeInv, TraversalInv, pc = "analysis", tree_traversing_deque # <<>>,
         IsNode(Top)
  PROVE  /\ \A type : find_first_node_type_in_scope(current_scope, type) = 0
                        <=> ~Encloses(type, Top.node)
         /\ Len(current_scope) = Len(ast[Top.node].within)
<1>1. Roots = ast[Top.node].within
  BY AtTop
<1>2. /\ Len(Roots) = Len(current_scope) /\ Len(current_scope) \in Nat
      /\ DOMAIN Roots = 1..Len(current_scope) /\ DOMAIN current_scope = 1..Len(current_scope)
      /\ \A i \in DOMAIN current_scope : Roots[i] = current_scope[i].root
  BY RootsFacts
<1>3. ASSUME NEW type
      PROVE  find_first_node_type_in_scope(current_scope, type) = 0 <=> ~Encloses(type, Top.node)
  <2>1. Encloses(type, Top.node) <=>
          \E i \in DOMAIN current_scope : ast[current_scope[i].root].type = type
    BY <1>1, <1>2 DEF Encloses
  <2>2. 0 \notin DOMAIN current_scope
    BY <1>2
  <2>3. QED
    BY <2>1, <2>2, FirstScope
<1>4. QED
  BY <1>1, <1>2, <1>3

\* A child as an item of the deque.
LEMMA ChildItem ==
  ASSUME TypeOK, TreeInv, TraversalInv, pc = "analysis", tree_traversing_deque # <<>>,
         IsNode(Top), NEW i \in DOMAIN Children
  PROVE  LET within == ast[Top.node].within
         IN /\ Child(i) \in Item /\ ItemInv(Child(i)) /\ IsNode(Child(i))
            /\ Child(i).within = IF Opens(ast[Top.node].type, i)
                                 THEN Append(within, Top.node) ELSE within
            /\ After(Child(i)) = Child(i).within
<1> DEFINE c == Children[i]
<1>1. /\ Top.node \in DOMAIN ast /\ ChildrenInv(Top.node)
      /\ Children = ast[Top.node].nodes /\ Children \in Seq(Nat \ {0})
  BY AtTop
<1>2. /\ c \in DOMAIN ast /\ c \in Nat \ {0}
      /\ ast[c].within = IF Opens(ast[Top.node].type, i)
                         THEN Append(ast[Top.node].within, Top.node) ELSE ast[Top.node].within
  BY <1>1 DEF ChildrenInv
<1>3. ast[c].within \in Seq(Nat) /\ ast[c].within # <<>>
  <2>1. NodeInv(c)
    BY <1>2 DEF TreeInv
  <2>2. ast[c].within \in Seq(Nat)
    BY <1>2, NodesTyped DEF TypeOK
  <2>3. QED
    BY <2>1, <2>2 DEF NodeInv
<1>4. Child(i) = [node |-> c, within |-> ast[c].within]
  BY DEF Child
<1> HIDE DEF c
<1>5. Child(i).node = c /\ Child(i).within = ast[c].within /\ Child(i) \in Item
  BY <1>2, <1>3, <1>4 DEF Item
<1>6. QED
  BY <1>2, <1>3, <1>5 DEF ItemInv, IsNode, After

LEMMA LeaveItem ==
  ASSUME TypeOK, TreeInv, TraversalInv, pc = "analysis", tree_traversing_deque # <<>>,
         IsNode(Top)
  PROVE  /\ Leave \in Item /\ ItemInv(Leave) /\ ~IsNode(Leave)
         /\ Leave.within = Append(ast[Top.node].within, Top.node)
         /\ After(Leave) = ast[Top.node].within
<1> DEFINE w == ast[Top.node].within
           t == Top.node
<1>1. w \in Seq(Nat) /\ t \in Nat
  BY AtTop
<1>2. Leave = [node |-> 0, within |-> Append(w, t)]
  BY DEF Leave
<1> HIDE DEF w, t
<1>3. Append(w, t) \in Seq(Nat) /\ Append(w, t) # <<>>
  BY <1>1, AppendProperties
<1>4. Leave.node = 0 /\ Leave.within = Append(w, t) /\ Leave \in Item
  BY <1>2, <1>3 DEF Item
<1>5. Front(Append(w, t)) = w
  BY <1>1, FrontOfAppend
<1>6. QED
  BY <1>3, <1>4, <1>5 DEF ItemInv, IsNode, After, w, t

\* Nodes of one level fit on each other.
LEMMA Level ==
  ASSUME NEW items \in Seq(Item), NEW w,
         \A k \in DOMAIN items : IsNode(items[k]) /\ items[k].within = w
  PROVE  Link(items, w, w)
<1>1. CASE items = <<>>
  BY <1>1 DEF Link
<1>2. CASE items # <<>>
  <2>1. Len(items) \in Nat \ {0} /\ DOMAIN items = 1..Len(items) /\ Last(items) = items[Len(items)]
    BY <1>2, FrontAndLast
  <2>2. \A k \in 1..Len(items) : items[k].within = w /\ After(items[k]) = w
    BY <2>1 DEF After
  <2>3. Len(items) \in 1..Len(items) /\ 1 \in 1..Len(items)
        /\ \A k \in 1..(Len(items) - 1) : k \in 1..Len(items) /\ k + 1 \in 1..Len(items)
    BY <2>1
  <2>4. QED
    BY <1>2, <2>1, <2>2, <2>3 DEF Link
<1>3. QED
  BY <1>1, <1>2

\* The sequence of what is pushed, from the last child to the first.
Reversed == [i \in DOMAIN Children |-> Child(Len(Children) + 1 - i)]

LEMMA ReversedFacts ==
  ASSUME TypeOK, TreeInv, TraversalInv, pc = "analysis", tree_traversing_deque # <<>>,
         IsNode(Top)
  PROVE  /\ Reversed \in Seq(Item) /\ Len(Reversed) = Len(Children)
         /\ DOMAIN Reversed = 1..Len(Children)
         /\ \A i \in 1..Len(Children) :
              /\ Len(Children) + 1 - i \in 1..Len(Children)
              /\ Reversed[i] = Child(Len(Children) + 1 - i)
              /\ Reversed[i] \in Item /\ ItemInv(Reversed[i]) /\ IsNode(Reversed[i])
<1> DEFINE m == Len(Children)
<1>1. m \in Nat /\ DOMAIN Children = 1..m
  BY AtTop
<1> HIDE DEF m
<1>2. \A i \in 1..m : m + 1 - i \in 1..m
  BY <1>1
<1>3. \A i \in 1..m : Child(i) \in Item /\ ItemInv(Child(i)) /\ IsNode(Child(i))
  BY <1>1, ChildItem
<1>4. Reversed = [i \in 1..m |-> Child(m + 1 - i)]
  BY <1>1 DEF Reversed, m
<1>5. Reversed \in [1..m -> Item] /\ \A i \in 1..m : Reversed[i] = Child(m + 1 - i)
  BY <1>2, <1>3, <1>4
<1>6. Reversed \in Seq(Item) /\ Len(Reversed) = m /\ DOMAIN Reversed = 1..m
  BY <1>1, <1>5
<1>7. QED
  BY <1>2, <1>3, <1>5, <1>6 DEF m

LEMMA OneItem ==
  ASSUME NEW S, NEW x \in S
  PROVE  /\ <<x>> \in Seq(S) /\ Len(<<x>>) = 1 /\ <<x>>[1] = x /\ DOMAIN <<x>> = {1}
         /\ <<x>> # <<>>
<1>1. /\ <<x>> \in Seq(S) /\ Len(<<x>>) = 1 /\ <<x>>[1] = x /\ DOMAIN <<x>> = {1}
  BY Lists
<1>2. QED
  BY <1>1

\* What fits on a marker fits on what the marker leaves.
LEMMA LinkOnItem ==
  ASSUME NEW x \in Item, NEW q \in Seq(Item), NEW roots, Link(q, roots, x.within)
  PROVE  /\ <<x>> \o q \in Seq(Item) /\ Len(<<x>> \o q) = Len(q) + 1
         /\ DOMAIN (<<x>> \o q) = 1..(Len(q) + 1)
         /\ (<<x>> \o q)[1] = x
         /\ \A k \in 1..Len(q) : (<<x>> \o q)[k + 1] = q[k]
         /\ Link(<<x>> \o q, roots, After(x))
<1> DEFINE s == <<x>> \o q
           m == Len(q)
<1>1. /\ s \in Seq(Item) /\ Len(s) = 1 + m /\ m \in Nat
      /\ \A k \in 1..(1 + m) : s[k] = IF k <= 1 THEN <<x>>[k] ELSE q[k - 1]
  BY OneItem, ConcatProperties
<1>2. <<x>>[1] = x
  BY OneItem
<1>3. Len(q) \in Nat /\ DOMAIN q = 1..m
  OBVIOUS
<1> HIDE DEF s, m
<1>4. /\ DOMAIN s = 1..(m + 1) /\ Len(s) = m + 1 /\ s[1] = x
      /\ \A k \in 1..m : s[k + 1] = q[k]
  <2>1. 1 \in 1..(1 + m) /\ \A k \in 1..m : k + 1 \in 1..(1 + m) /\ ~(k + 1 <= 1) /\ (k + 1) - 1 = k
    BY <1>1
  <2>2. s[1] = x /\ \A k \in 1..m : s[k + 1] = q[k]
    BY <1>1, <1>2, <2>1
  <2>3. QED
    BY <1>1, <2>2
<1>5. s # <<>> /\ Last(s) = s[m + 1]
  BY <1>1, <1>4 DEF Last
<1>6. CASE q = <<>>
  <2>1. m = 0 /\ roots = x.within
    BY <1>6 DEF Link, m
  <2>2. Last(s) = x /\ 1..(Len(s) - 1) = {}
    BY <1>1, <1>4, <1>5, <2>1
  <2>3. Link(s, roots, After(x))
    BY <1>4, <1>5, <2>1, <2>2 DEF Link
  <2>4. QED
    BY <1>1, <1>4, <2>3 DEF s, m
<1>7. CASE q # <<>>
  <2>1. /\ m \in Nat \ {0} /\ q[m].within = roots
        /\ \A k \in 1..(m - 1) : q[k].within = After(q[k + 1])
        /\ After(q[1]) = x.within
    <3>1. m \in Nat \ {0} /\ Last(q) = q[m]
      BY <1>7, FrontAndLast DEF m
    <3>2. QED
      BY <1>7, <3>1 DEF Link, m
  <2>2. Last(s).within = roots
    BY <1>4, <1>5, <2>1
  <2>3. ASSUME NEW k \in 1..m
        PROVE  s[k].within = After(s[k + 1])
    <3>1. s[k + 1] = q[k]
      BY <1>4
    <3>2. CASE k = 1
      BY <1>4, <2>1, <3>1, <3>2
    <3>3. CASE k # 1
      <4>1. k - 1 \in 1..(m - 1) /\ k - 1 \in 1..m /\ (k - 1) + 1 = k
        BY <2>1, <3>3
      <4>2. s[k] = q[k - 1]
        BY <1>4, <4>1
      <4>3. QED
        BY <2>1, <3>1, <4>1, <4>2
    <3>4. QED
      BY <3>2, <3>3
  <2>4. Len(s) - 1 = m
    BY <1>1, <1>4
  <2>5. Link(s, roots, After(x))
    BY <1>4, <1>5, <2>2, <2>3, <2>4 DEF Link
  <2>6. QED
    BY <1>1, <1>4, <2>5 DEF s, m
<1>8. QED
  BY <1>6, <1>7

\* A handler that pushes nothing.
LEMMA VisitLeaf ==
  ASSUME TypeOK, TreeInv, TraversalInv, pc = "analysis", tree_traversing_deque # <<>>,
         IsNode(Top), Known(Top.node), NEW code \in Codes,
         code \in Bad <=> Misplaced(Top.node) \/ NotImplemented(Top.node),
         Roots' = Roots, Return(code, <<>>), Len(Children) = 0 \/ Skipped(code)
  PROVE  Visit(code, <<>>)
<1>1. /\ Top.node \in DOMAIN ast /\ Roots = After(Top)
      /\ Len(Children) \in Nat /\ DOMAIN Children = 1..Len(Children)
  BY AtTop
<1>2. <<>> \in Seq(Item) /\ DOMAIN <<>> = {}
  OBVIOUS
<1>3. Link(<<>>, Roots', After(Top))
  BY <1>1 DEF Link
<1>4. ASSUME Len(Children) = 0 PROVE InReverse(<<>>)
  <2>1. DOMAIN Children = {}
    BY <1>1, <1>4
  <2> DEFINE at == [i \in {} |-> 0]
  <2>2. at \in [{} -> {}]
    OBVIOUS
  <2>3. QED
    BY <1>2, <2>1, <2>2 DEF InReverse
<1>5. VisitsNode(code, <<>>)
  BY <1>1, <1>4 DEF VisitsNode
<1>6. QED
  BY <1>2, <1>3, <1>5 DEF Visit

\* A handler that pushes the children on the level of the node.
LEMMA VisitReversed ==
  ASSUME TypeOK, TreeInv, TraversalInv, pc = "analysis", tree_traversing_deque # <<>>,
         IsNode(Top), Known(Top.node), NEW code \in Codes,
         code \in Bad <=> Misplaced(Top.node) \/ NotImplemented(Top.node),
         Roots' = Roots, Return(code, Reversed),
         \A i : ~Opens(ast[Top.node].type, i)
  PROVE  Visit(code, Reversed)
<1> DEFINE m == Len(Children)
           w == ast[Top.node].within
<1>1. /\ Top.node \in DOMAIN ast /\ Roots = w /\ After(Top) = w
      /\ m \in Nat /\ DOMAIN Children = 1..m
  BY AtTop
<1>2. /\ Reversed \in Seq(Item) /\ DOMAIN Reversed = 1..m
      /\ \A i \in 1..m : /\ m + 1 - i \in 1..m
                         /\ Reversed[i] = Child(m + 1 - i)
                         /\ ItemInv(Reversed[i]) /\ IsNode(Reversed[i])
  BY ReversedFacts
<1>3. \A i \in 1..m : Child(i).within = w
  BY <1>1, ChildItem
<1> HIDE DEF m, w
<1>4. Link(Reversed, w, w)
  BY <1>2, <1>3, Level
<1>5. InReverse(Reversed)
  <2> DEFINE at == [i \in 1..m |-> m + 1 - i]
  <2>1. at \in [DOMAIN Children -> DOMAIN Reversed]
    BY <1>1, <1>2
  <2>2. \A i \in 1..m : Reversed[at[i]] = Child(i)
    <3>1. \A i \in 1..m : m + 1 - (m + 1 - i) = i
      BY <1>1
    <3>2. QED
      BY <1>2, <3>1
  <2>3. \A i, j \in 1..m : i < j => at[i] > at[j]
    BY <1>1
  <2>4. \A k \in 1..m : at[m + 1 - k] = k
    <3>1. \A k \in 1..m : m + 1 - k \in 1..m /\ m + 1 - (m + 1 - k) = k
      BY <1>1
    <3>2. QED
      BY <3>1
  <2> HIDE DEF at
  <2>5. \A i \in DOMAIN Children : Reversed[at[i]] = Child(i)
    BY <1>1, <2>2
  <2>6. \A i, j \in DOMAIN Children : i < j => at[i] > at[j]
    BY <1>1, <2>3
  <2>7. \A k \in DOMAIN Reversed : \E i \in DOMAIN Children : at[i] = k
    BY <1>1, <1>2, <2>4
  <2>8. QED
    BY <2>1, <2>5, <2>6, <2>7, Zenon DEF InReverse
<1>6. VisitsNode(code, Reversed)
  BY <1>1, <1>5 DEF VisitsNode
<1>7. QED
  BY <1>1, <1>2, <1>4, <1>6 DEF Visit

\* A handler that opens a scope for all children.
LEMMA VisitScope ==
  ASSUME TypeOK, TreeInv, TraversalInv, pc = "analysis", tree_traversing_deque # <<>>,
         IsNode(Top), Known(Top.node), NEW code \in Codes,
         code \in Bad <=> Misplaced(Top.node) \/ NotImplemented(Top.node),
         Roots' = Append(Roots, Top.node), Return(code, <<Leave>> \o Reversed),
         \A i \in DOMAIN Children : Opens(ast[Top.node].type, i)
  PROVE  Visit(code, <<Leave>> \o Reversed)
<1> DEFINE m == Len(Children)
           w == ast[Top.node].within
           new == Append(w, Top.node)
           pushed == <<Leave>> \o Reversed
<1>1. /\ Top.node \in DOMAIN ast /\ Roots' = new /\ After(Top) = w
      /\ m \in Nat /\ DOMAIN Children = 1..m
  BY AtTop
<1>2. /\ Reversed \in Seq(Item) /\ DOMAIN Reversed = 1..m /\ Len(Reversed) = m
      /\ \A i \in 1..m : /\ m + 1 - i \in 1..m
                         /\ Reversed[i] = Child(m + 1 - i)
                         /\ ItemInv(Reversed[i]) /\ IsNode(Reversed[i])
  BY ReversedFacts
<1>3. \A i \in 1..m : Child(i).within = new
  BY <1>1, ChildItem
<1>4. /\ Leave \in Item /\ ItemInv(Leave) /\ ~IsNode(Leave)
      /\ Leave.within = new /\ After(Leave) = w
  BY LeaveItem
<1> HIDE DEF m, w, new
<1>5. Link(Reversed, new, new)
  <2>1. \A k \in DOMAIN Reversed : IsNode(Reversed[k]) /\ Reversed[k].within = new
    BY <1>2, <1>3
  <2>2. QED
    BY <1>2, <2>1, Level
<1>6. /\ pushed \in Seq(Item) /\ DOMAIN pushed = 1..(m + 1)
      /\ pushed[1] = Leave /\ \A k \in 1..m : pushed[k + 1] = Reversed[k]
      /\ Link(pushed, new, w)
  BY <1>2, <1>4, <1>5, LinkOnItem
<1> HIDE DEF pushed
<1>7. \A k \in 1..(m + 1) : k = 1 \/ (k - 1 \in 1..m /\ pushed[k] = Reversed[k - 1])
  <2> SUFFICES ASSUME NEW k \in 1..(m + 1), k # 1
               PROVE  k - 1 \in 1..m /\ pushed[k] = Reversed[k - 1]
    OBVIOUS
  <2>1. k - 1 \in 1..m /\ (k - 1) + 1 = k
    BY <1>1
  <2>2. QED
    BY <1>6, <2>1
<1>8. \A k \in DOMAIN pushed : ItemInv(pushed[k])
  BY <1>2, <1>4, <1>6, <1>7
<1>9. InReverse(pushed)
  <2> DEFINE at == [i \in 1..m |-> m + 1 - i + 1]
  <2>1. \A i \in 1..m : m + 1 - i + 1 \in 1..(m + 1)
    BY <1>1
  <2>2. at \in [DOMAIN Children -> DOMAIN pushed]
    BY <1>1, <1>6, <2>1
  <2>3. \A i \in 1..m : pushed[at[i]] = Child(i)
    <3>1. \A i \in 1..m : m + 1 - (m + 1 - i) = i
      BY <1>1
    <3>2. \A i \in 1..m : pushed[at[i]] = Reversed[m + 1 - i]
      BY <1>2, <1>6
    <3>3. QED
      BY <1>2, <3>1, <3>2
  <2>4. \A i, j \in 1..m : i < j => at[i] > at[j]
    BY <1>1
  <2>5. \A k \in 1..(m + 1) : k # 1 => m + 2 - k \in 1..m /\ at[m + 2 - k] = k
    BY <1>1
  <2> HIDE DEF at
  <2>6. \A k \in DOMAIN pushed : IsNode(pushed[k]) => \E i \in DOMAIN Children : at[i] = k
    BY <1>1, <1>4, <1>6, <2>5
  <2>7. QED
    BY <1>1, <2>2, <2>3, <2>4, <2>6 DEF InReverse
<1>10. VisitsNode(code, pushed)
  BY <1>1, <1>9 DEF VisitsNode
<1>11. Return(code, pushed)
  BY DEF pushed
<1>12. Visit(code, pushed)
  BY <1>1, <1>6, <1>8, <1>10, <1>11 DEF Visit
<1>13. QED
  BY <1>12 DEF pushed

LEMMA Pairs ==
  ASSUME NEW S, NEW x \in S, NEW y \in S, NEW z \in S
  PROVE  /\ <<x>> \o <<y>> = <<x, y>>
         /\ <<x>> \o <<y, z>> = <<x, y, z>>
<1> DEFINE one == <<x>>
           a == <<y>>
           b == <<y, z>>
           ra == <<x, y>>
           rb == <<x, y, z>>
<1>1. /\ one \in Seq(S) /\ Len(one) = 1 /\ one[1] = x
      /\ a \in Seq(S) /\ Len(a) = 1 /\ a[1] = y
      /\ b \in Seq(S) /\ Len(b) = 2 /\ b[1] = y /\ b[2] = z
      /\ ra \in Seq(S) /\ Len(ra) = 2 /\ ra[1] = x /\ ra[2] = y
      /\ rb \in Seq(S) /\ Len(rb) = 3 /\ rb[1] = x /\ rb[2] = y /\ rb[3] = z
  BY Lists
<1> HIDE DEF one, a, b, ra, rb
<1>2. one \o a = ra
  <2>1. /\ one \o a \in Seq(S) /\ Len(one \o a) = 2
        /\ (one \o a)[1] = x /\ (one \o a)[2] = y
    <3>1. /\ one \o a \in Seq(S) /\ Len(one \o a) = Len(one) + Len(a)
          /\ \A i \in 1..Len(one) + Len(a) :
               (one \o a)[i] = IF i <= Len(one) THEN one[i] ELSE a[i - Len(one)]
      BY <1>1, ConcatProperties
    <3>2. /\ Len(one \o a) = 2
          /\ \A i \in 1..2 : (one \o a)[i] = IF i <= 1 THEN one[i] ELSE a[i - 1]
      BY <1>1, <3>1
    <3>3. QED
      BY <1>1, <3>1, <3>2
  <2>2. \A i \in 1..2 : (one \o a)[i] = ra[i]
    <3>1. \A i \in 1..2 : i = 1 \/ i = 2
      OBVIOUS
    <3>2. QED
      BY <1>1, <2>1, <3>1
  <2>3. QED
    BY <1>1, <2>1, <2>2, SeqEqual
<1>3. one \o b = rb
  <2>1. /\ one \o b \in Seq(S) /\ Len(one \o b) = 3
        /\ (one \o b)[1] = x /\ (one \o b)[2] = y /\ (one \o b)[3] = z
    <3>1. /\ one \o b \in Seq(S) /\ Len(one \o b) = Len(one) + Len(b)
          /\ \A i \in 1..Len(one) + Len(b) :
               (one \o b)[i] = IF i <= Len(one) THEN one[i] ELSE b[i - Len(one)]
      BY <1>1, ConcatProperties
    <3>2. /\ Len(one \o b) = 3
          /\ \A i \in 1..3 : (one \o b)[i] = IF i <= 1 THEN one[i] ELSE b[i - 1]
      BY <1>1, <3>1
    <3>3. QED
      BY <1>1, <3>1, <3>2
  <2>2. \A i \in 1..3 : (one \o b)[i] = rb[i]
    <3>1. \A i \in 1..3 : i = 1 \/ i = 2 \/ i = 3
      OBVIOUS
    <3>2. QED
      BY <1>1, <2>1, <3>1
  <2>3. QED
    BY <1>1, <2>1, <2>2, SeqEqual
<1>4. QED
  BY <1>2, <1>3 DEF one, a, b, ra, rb

\* handle_if with an alternate, which stays outside of the scope.
LEMMA VisitAlternate ==
  ASSUME TypeOK, TreeInv, TraversalInv, pc = "analysis", tree_traversing_deque # <<>>,
         IsNode(Top), Known(Top.node), NEW code \in Codes,
         code \in Bad <=> Misplaced(Top.node) \/ NotImplemented(Top.node),
         Roots' = Append(Roots, Top.node), Len(Children) = 3,
         ast[Top.node].type \in {"IF", "ELIF"},
         Return(code, <<Child(3)>> \o <<Leave, Child(2), Child(1)>>)
  PROVE  Visit(code, <<Child(3)>> \o <<Leave, Child(2), Child(1)>>)
<1> DEFINE w == ast[Top.node].within
           new == Append(w, Top.node)
           two == <<Child(2), Child(1)>>
           three == <<Leave>> \o two
           pushed == <<Child(3)>> \o three
<1>1. /\ Top.node \in DOMAIN ast /\ Roots' = new /\ After(Top) = w
      /\ DOMAIN Children = {1, 2, 3}
  <2>1. /\ Top.node \in DOMAIN ast /\ Roots' = new /\ After(Top) = w
        /\ DOMAIN Children = 1..3
    BY AtTop
  <2>2. QED
    BY <2>1
<1>2. \A i \in {1, 2, 3} : /\ Child(i) \in Item /\ ItemInv(Child(i)) /\ IsNode(Child(i))
                           /\ After(Child(i)) = Child(i).within
                           /\ Child(i).within = IF i <= 2 THEN new ELSE w
  <2>1. \A i \in {1, 2, 3} : Opens(ast[Top.node].type, i) <=> i <= 2
    BY DEF Opens
  <2>2. QED
    BY <1>1, <2>1, ChildItem
<1>3. /\ Leave \in Item /\ ItemInv(Leave) /\ ~IsNode(Leave)
      /\ Leave.within = new /\ After(Leave) = w
  BY LeaveItem
<1>4. /\ Child(1) \in Item /\ Child(2) \in Item /\ Child(3) \in Item
      /\ Child(1).within = new /\ Child(2).within = new /\ After(Child(3)) = w
      /\ Child(3).within = w
  <2> HIDE DEF w, new
  <2>1. Child(1) \in Item /\ Child(1).within = new
    BY <1>2
  <2>2. Child(2) \in Item /\ Child(2).within = new
    BY <1>2
  <2>3. Child(3) \in Item /\ After(Child(3)) = Child(3).within /\ Child(3).within = w
    BY <1>2
  <2>4. QED
    BY <2>1, <2>2, <2>3
<1> HIDE DEF w, new
<1>5. two \in Seq(Item) /\ Len(two) = 2 /\ two[1] = Child(2) /\ two[2] = Child(1)
      /\ DOMAIN two = {1, 2}
  BY <1>4, Lists
<1> HIDE DEF two
<1>6. Link(two, new, new)
  <2>1. \A k \in DOMAIN two : IsNode(two[k]) /\ two[k].within = new
    BY <1>2, <1>4, <1>5
  <2>2. QED
    BY <1>5, <2>1, Level
<1>7. /\ three \in Seq(Item) /\ Len(three) = 2 + 1
      /\ three[1] = Leave /\ \A k \in 1..2 : three[k + 1] = two[k]
      /\ Link(three, new, w)
  <2>1. Link(two, new, Leave.within)
    BY <1>3, <1>6
  <2>2. /\ three \in Seq(Item) /\ Len(three) = Len(two) + 1
        /\ three[1] = Leave /\ \A k \in 1..Len(two) : three[k + 1] = two[k]
        /\ Link(three, new, After(Leave))
    BY <1>3, <1>5, <2>1, LinkOnItem
  <2>3. QED
    BY <1>3, <1>5, <2>2
<1> HIDE DEF three
<1>8. three[1] = Leave /\ three[2] = Child(2) /\ three[3] = Child(1) /\ Len(three) = 3
  <2>1. 1 \in 1..2 /\ 2 \in 1..2 /\ 1 + 1 = 2 /\ 2 + 1 = 3
    OBVIOUS
  <2>2. QED
    BY <1>5, <1>7, <2>1
<1>9. /\ pushed \in Seq(Item) /\ DOMAIN pushed = 1..(3 + 1)
      /\ pushed[1] = Child(3) /\ \A k \in 1..3 : pushed[k + 1] = three[k]
      /\ Link(pushed, new, w)
  <2> DEFINE c == Child(3)
  <2>1. Link(three, new, c.within) /\ c \in Item
    BY <1>4, <1>7
  <2> HIDE DEF c
  <2>2. /\ <<c>> \o three \in Seq(Item) /\ DOMAIN (<<c>> \o three) = 1..(Len(three) + 1)
        /\ (<<c>> \o three)[1] = c /\ \A k \in 1..Len(three) : (<<c>> \o three)[k + 1] = three[k]
        /\ Link(<<c>> \o three, new, After(c))
    BY <1>7, <2>1, LinkOnItem
  <2>3. QED
    BY <1>4, <1>8, <2>2 DEF c
<1> HIDE DEF pushed
<1>10. /\ DOMAIN pushed = {1, 2, 3, 4}
       /\ pushed[1] = Child(3) /\ pushed[2] = Leave /\ pushed[3] = Child(2) /\ pushed[4] = Child(1)
  <2>1. 1..(3 + 1) = {1, 2, 3, 4} /\ 1 \in 1..3 /\ 2 \in 1..3 /\ 3 \in 1..3
        /\ 1 + 1 = 2 /\ 2 + 1 = 3 /\ 3 + 1 = 4
    OBVIOUS
  <2>2. QED
    BY <1>8, <1>9, <2>1
<1>11. \A k \in DOMAIN pushed : ItemInv(pushed[k])
  BY <1>2, <1>3, <1>10
<1>12. InReverse(pushed)
  <2> DEFINE at == [i \in {1, 2, 3} |-> IF i = 3 THEN 1 ELSE 5 - i]
  <2>1. at \in [DOMAIN Children -> DOMAIN pushed]
    BY <1>1, <1>10
  <2>2. at[1] = 4 /\ at[2] = 3 /\ at[3] = 1
    OBVIOUS
  <2> HIDE DEF at
  <2>3. \A i \in {1, 2, 3} : pushed[at[i]] = Child(i)
    BY <1>10, <2>2
  <2>4. \A i, j \in {1, 2, 3} : i < j => at[i] > at[j]
    BY <2>2
  <2>5. \A k \in {1, 2, 3, 4} : IsNode(pushed[k]) => \E i \in {1, 2, 3} : at[i] = k
    BY <1>3, <1>10, <2>2
  <2>6. QED
    BY <1>1, <1>10, <2>1, <2>3, <2>4, <2>5 DEF InReverse
<1>13. VisitsNode(code, pushed)
  BY <1>1, <1>12 DEF VisitsNode
<1>14. pushed = <<Child(3)>> \o <<Leave, Child(2), Child(1)>>
  <2>1. <<Leave>> \o <<Child(2), Child(1)>> = <<Leave, Child(2), Child(1)>>
    BY <1>3, <1>4, Pairs
  <2>2. QED
    BY <2>1 DEF pushed, three, two
<1>15. Visit(code, pushed)
  BY <1>1, <1>9, <1>11, <1>13, <1>14 DEF Visit
<1>16. QED
  BY <1>14, <1>15

\* The sequences that the other handlers write out.
LEMMA WrittenOut ==
  ASSUME TypeOK, TreeInv, TraversalInv, pc = "analysis", tree_traversing_deque # <<>>,
         IsNode(Top)
  PROVE  /\ Len(Children) = 1 =>
              /\ <<Child(1)>> = Reversed
              /\ <<Leave, Child(1)>> = <<Leave>> \o Reversed
         /\ Len(Children) = 2 => <<Leave, Child(2), Child(1)>> = <<Leave>> \o Reversed
<1>1. /\ Reversed \in Seq(Item) /\ Len(Reversed) = Len(Children)
      /\ \A i \in 1..Len(Children) : Reversed[i] = Child(Len(Children) + 1 - i)
  BY ReversedFacts
<1>2. Leave \in Item /\ \A i \in DOMAIN Children : Child(i) \in Item
  BY LeaveItem, ChildItem
<1>3. DOMAIN Children = 1..Len(Children)
  BY AtTop
<1>4. ASSUME Len(Children) = 1
      PROVE  <<Child(1)>> = Reversed /\ Child(1) \in Item
  <2>1. Child(1) \in Item
    BY <1>2, <1>3, <1>4
  <2>2. Len(Reversed) = 1 /\ Reversed[1] = Child(1)
    BY <1>1, <1>4
  <2>3. <<Child(1)>> \in Seq(Item) /\ Len(<<Child(1)>>) = 1 /\ <<Child(1)>>[1] = Child(1)
    BY <2>1, OneItem
  <2>4. \A i \in 1..1 : <<Child(1)>>[i] = Reversed[i]
    BY <2>2, <2>3
  <2>5. QED
    BY <1>1, <2>1, <2>2, <2>3, <2>4, SeqEqual
<1>5. ASSUME Len(Children) = 2
      PROVE  <<Child(2), Child(1)>> = Reversed /\ Child(1) \in Item /\ Child(2) \in Item
  <2>1. Child(1) \in Item /\ Child(2) \in Item
    BY <1>2, <1>3, <1>5
  <2>2. Len(Reversed) = 2 /\ Reversed[1] = Child(2) /\ Reversed[2] = Child(1)
    BY <1>1, <1>5
  <2> DEFINE two == <<Child(2), Child(1)>>
  <2>3. two \in Seq(Item) /\ Len(two) = 2 /\ two[1] = Child(2) /\ two[2] = Child(1)
    BY <2>1, Lists
  <2> HIDE DEF two
  <2>4. \A i \in 1..2 : two[i] = Reversed[i]
    <3>1. \A i \in 1..2 : i = 1 \/ i = 2
      OBVIOUS
    <3>2. QED
      BY <2>2, <2>3, <3>1
  <2>5. two = Reversed
    BY <1>1, <2>2, <2>3, <2>4, SeqEqual
  <2>6. QED
    BY <2>1, <2>5 DEF two
<1>6. Len(Children) = 1 => <<Leave, Child(1)>> = <<Leave>> \o Reversed
  <2> SUFFICES ASSUME Len(Children) = 1 PROVE <<Leave, Child(1)>> = <<Leave>> \o Reversed
    OBVIOUS
  <2>1. <<Leave>> \o <<Child(1)>> = <<Leave, Child(1)>>
    BY <1>2, <1>4, Pairs
  <2>2. QED
    BY <1>4, <2>1
<1>7. Len(Children) = 2 => <<Leave, Child(2), Child(1)>> = <<Leave>> \o Reversed
  <2> SUFFICES ASSUME Len(Children) = 2
               PROVE <<Leave, Child(2), Child(1)>> = <<Leave>> \o Reversed
    OBVIOUS
  <2>1. <<Leave>> \o <<Child(2), Child(1)>> = <<Leave, Child(2), Child(1)>>
    BY <1>2, <1>5, Pairs
  <2>2. QED
    BY <1>5, <2>1
<1>8. QED
  BY <1>4, <1>6, <1>7
-----------------------------------------------------------------------------
(* What handlers make of the scopes *)

RootsOf(chain) == [i \in DOMAIN chain |-> chain[i].root]

\* What is true of every chain of scopes.
ChainOK(chain) ==
    /\ chain \in Seq(Scope)
    /\ \A i \in DOMAIN chain :
         /\ chain[i].root \in DOMAIN ast
         /\ chain[i].local_table # <<>> =>
              i = 1 \/ ast[chain[i].root].type = "FUNCTION_DEFINITION"
         /\ "FUNCTION_DEFINITION" \in Range(chain[i].local_table) => i = 1

EmptyTables(chain) == \A i \in DOMAIN chain : chain[i].local_table = <<>>

LEMMA ScopeFields ==
  ASSUME NEW s \in Scope
  PROVE  s.root \in Nat /\ s.local_table \in Seq({"ID", "FUNCTION_DEFINITION"})
BY DEF Scope

LEMMA RootsOfAppend ==
  ASSUME NEW chain \in Seq(Scope), NEW s \in Scope
  PROVE  RootsOf(Append(chain, s)) = Append(RootsOf(chain), s.root)
<1> DEFINE n == Len(chain)
           longer == Append(chain, s)
           a == RootsOf(longer)
           b == Append(RootsOf(chain), s.root)
<1>1. /\ n \in Nat /\ longer \in Seq(Scope) /\ Len(longer) = n + 1
      /\ \A i \in 1..n : longer[i] = chain[i]
      /\ longer[n + 1] = s
      /\ DOMAIN chain = 1..n /\ \A i \in 1..n : chain[i] \in Scope
  BY AppendProperties
<1> HIDE DEF n, longer
<1>2. DOMAIN longer = 1..(n + 1) /\ 1..(n + 1) = 1..n \cup {n + 1}
  BY <1>1
<1>3. RootsOf(chain) \in Seq(Nat) /\ Len(RootsOf(chain)) = n
      /\ \A i \in 1..n : RootsOf(chain)[i] = chain[i].root
  <2>1. RootsOf(chain) = [i \in 1..n |-> chain[i].root]
    BY <1>1 DEF RootsOf
  <2>2. \A i \in 1..n : chain[i].root \in Nat
    BY <1>1, ScopeFields
  <2>3. QED
    BY <1>1, <2>1, <2>2
<1>4. s.root \in Nat
  BY ScopeFields
<1>5. b \in Seq(Nat) /\ Len(b) = n + 1 /\ (\A i \in 1..n : b[i] = chain[i].root)
      /\ b[n + 1] = s.root
  <2> DEFINE roots == RootsOf(chain)
  <2> HIDE DEF roots
  <2>1. /\ Append(roots, s.root) \in Seq(Nat) /\ Len(Append(roots, s.root)) = Len(roots) + 1
        /\ \A i \in 1..Len(roots) : Append(roots, s.root)[i] = roots[i]
        /\ Append(roots, s.root)[Len(roots) + 1] = s.root
    BY <1>3, <1>4, AppendProperties DEF roots
  <2>2. QED
    BY <1>3, <2>1 DEF roots
<1>6. a = [i \in 1..(n + 1) |-> longer[i].root]
  BY <1>2 DEF RootsOf
<1>7. \A i \in 1..(n + 1) : longer[i].root \in Nat /\ longer[i].root = b[i]
  BY <1>1, <1>2, <1>4, <1>5, ScopeFields
<1>8. a \in Seq(Nat) /\ Len(a) = n + 1 /\ \A i \in 1..(n + 1) : a[i] = b[i]
  <2> HIDE DEF a, b
  <2>1. QED
    BY <1>1, <1>6, <1>7
<1> HIDE DEF a, b
<1>9. a = b
  BY <1>5, <1>8, SeqEqual
<1>10. QED
  BY <1>9 DEF a, b, longer

LEMMA RootsOfFront ==
  ASSUME NEW chain \in Seq(Scope), chain # <<>>
  PROVE  RootsOf(Front(chain)) = Front(RootsOf(chain))
<1> DEFINE n == Len(chain) - 1
           roots == RootsOf(chain)
<1>1. /\ n \in Nat /\ Len(chain) = n + 1 /\ DOMAIN chain = 1..(n + 1)
      /\ Front(chain) \in Seq(Scope) /\ Len(Front(chain)) = n /\ DOMAIN Front(chain) = 1..n
      /\ \A i \in 1..n : Front(chain)[i] = chain[i]
      /\ \A i \in 1..(n + 1) : chain[i] \in Scope
  BY FrontAndLast
<1> HIDE DEF n
<1>2. roots \in Seq(Nat) /\ Len(roots) = n + 1 /\ \A i \in 1..(n + 1) : roots[i] = chain[i].root
  <2>1. roots = [i \in 1..(n + 1) |-> chain[i].root]
    BY <1>1 DEF RootsOf
  <2>2. \A i \in 1..(n + 1) : chain[i].root \in Nat
    BY <1>1, ScopeFields
  <2> HIDE DEF roots
  <2>3. QED
    BY <1>1, <2>1, <2>2
<1> HIDE DEF roots
<1>3. /\ Front(roots) \in Seq(Nat) /\ Len(Front(roots)) = n
      /\ \A i \in 1..n : Front(roots)[i] = roots[i]
  <2>1. roots # <<>> /\ Len(roots) - 1 = n
    BY <1>1, <1>2
  <2>2. /\ Front(roots) \in Seq(Nat) /\ Len(Front(roots)) = Len(roots) - 1
        /\ \A i \in 1..(Len(roots) - 1) : Front(roots)[i] = roots[i]
    BY <1>2, <2>1, FrontAndLast
  <2>3. QED
    BY <2>1, <2>2
<1>4. RootsOf(Front(chain)) = [i \in 1..n |-> chain[i].root]
  BY <1>1 DEF RootsOf
<1>5. \A i \in 1..n : i \in 1..(n + 1) /\ chain[i].root \in Nat
  BY <1>1, <1>2, ScopeFields
<1>6. RootsOf(Front(chain)) \in Seq(Nat) /\ Len(RootsOf(Front(chain))) = n
      /\ \A i \in 1..n : RootsOf(Front(chain))[i] = Front(roots)[i]
  BY <1>1, <1>2, <1>3, <1>4, <1>5
<1>7. QED
  BY <1>3, <1>6, SeqEqual DEF roots

\* A new scope has an empty table.
LEMMA OpenScope ==
  ASSUME NEW chain, ChainOK(chain), NEW n \in DOMAIN ast, n \in Nat
  PROVE  /\ ChainOK(Append(chain, NewScope(n)))
         /\ RootsOf(Append(chain, NewScope(n))) = Append(RootsOf(chain), n)
         /\ EmptyTables(chain) => EmptyTables(Append(chain, NewScope(n)))
<1> DEFINE s == NewScope(n)
           longer == Append(chain, s)
           m == Len(chain)
<1>1. s.root = n /\ s.local_table = <<>> /\ s \in Scope
  <2>1. <<>> \in Seq({"ID", "FUNCTION_DEFINITION"})
    OBVIOUS
  <2>2. QED
    BY <2>1 DEF NewScope, Scope
<1> HIDE DEF s
<1>2. chain \in Seq(Scope)
  BY DEF ChainOK
<1>3. /\ longer \in Seq(Scope) /\ Len(longer) = m + 1 /\ m \in Nat
      /\ \A i \in 1..m : longer[i] = chain[i]
      /\ longer[m + 1] = s
      /\ DOMAIN chain = 1..m
  BY <1>1, <1>2, AppendProperties
<1> HIDE DEF longer, m
<1>4. DOMAIN longer = 1..(m + 1) /\ \A i \in 1..(m + 1) : i \in 1..m \/ i = m + 1
  BY <1>3
<1>5. "FUNCTION_DEFINITION" \notin Range(<<>>)
  BY DEF Range
<1>6. ChainOK(longer)
  BY <1>1, <1>3, <1>4, <1>5 DEF ChainOK
<1>7. EmptyTables(chain) => EmptyTables(longer)
  BY <1>1, <1>3, <1>4 DEF EmptyTables
<1>8. RootsOf(longer) = Append(RootsOf(chain), n)
  BY <1>1, <1>2, RootsOfAppend DEF longer
<1>9. QED
  BY <1>6, <1>7, <1>8 DEF longer, s

LEMMA CloseScope ==
  ASSUME NEW chain, ChainOK(chain), chain # <<>>
  PROVE  /\ ChainOK(Front(chain))
         /\ RootsOf(Front(chain)) = Front(RootsOf(chain))
         /\ EmptyTables(chain) => EmptyTables(Front(chain)) /\ Last(chain).local_table = <<>>
<1>1. chain \in Seq(Scope)
  BY DEF ChainOK
<1>2. /\ Front(chain) \in Seq(Scope) /\ DOMAIN chain = 1..Len(chain) /\ Len(chain) \in Nat \ {0}
      /\ DOMAIN Front(chain) = 1..(Len(chain) - 1)
      /\ \A i \in 1..(Len(chain) - 1) : Front(chain)[i] = chain[i]
      /\ Last(chain) = chain[Len(chain)]
  BY <1>1, FrontAndLast
<1>3. Len(chain) \in DOMAIN chain /\ \A i \in 1..(Len(chain) - 1) : i \in DOMAIN chain
  BY <1>2
<1>4. ChainOK(Front(chain))
  BY <1>2, <1>3 DEF ChainOK
<1>5. EmptyTables(chain) => EmptyTables(Front(chain)) /\ Last(chain).local_table = <<>>
  BY <1>2, <1>3 DEF EmptyTables
<1>6. QED
  BY <1>1, <1>4, <1>5, RootsOfFront

\* A table with one more name, or with another node in place of one of its own.
LEMMA PutFacts ==
  ASSUME NEW table \in Seq({"ID", "FUNCTION_DEFINITION"}),
         NEW data \in {"ID", "FUNCTION_DEFINITION"}, NEW new \in Put(table, data)
  PROVE  /\ new \in Seq({"ID", "FUNCTION_DEFINITION"})
         /\ \A x \in Range(new) : x = data \/ x \in Range(table)
<1> DEFINE T == {"ID", "FUNCTION_DEFINITION"}
<1>1. CASE new = Append(table, data)
  <2> HIDE DEF T
  <2>1. /\ new \in Seq(T) /\ DOMAIN new = 1..(Len(table) + 1)
        /\ \A i \in 1..Len(table) : new[i] = table[i]
        /\ new[Len(table) + 1] = data /\ Len(table) \in Nat /\ DOMAIN table = 1..Len(table)
    BY <1>1, AppendProperties DEF T
  <2>2. \A i \in DOMAIN new : i \in DOMAIN table \/ i = Len(table) + 1
    BY <2>1
  <2>3. \A i \in DOMAIN new : new[i] = data \/ \E j \in DOMAIN table : new[i] = table[j]
    BY <2>1, <2>2
  <2>4. QED
    BY <2>1, <2>3 DEF Range, T
<1>2. CASE new # Append(table, data)
  <2>1. PICK i \in DOMAIN table : new = [table EXCEPT ![i] = data]
    BY <1>2 DEF Put
  <2>2. new \in Seq(T) /\ DOMAIN new = DOMAIN table
        /\ \A j \in DOMAIN table : new[j] = data \/ new[j] = table[j]
    BY <2>1
  <2>3. QED
    BY <2>2 DEF Range
<1>3. QED
  BY <1>1, <1>2

\* One table of the chain is replaced.
LEMMA StoreName ==
  ASSUME NEW chain, ChainOK(chain), NEW s \in DOMAIN chain,
         NEW new \in Put(chain[s].local_table, "ID"),
         s = 1 \/ ast[chain[s].root].type = "FUNCTION_DEFINITION"
  PROVE  LET changed == [chain EXCEPT ![s].local_table = new]
         IN ChainOK(changed) /\ RootsOf(changed) = RootsOf(chain)
<1> DEFINE scope == [chain[s] EXCEPT !.local_table = new]
           changed == [chain EXCEPT ![s].local_table = new]
<1>1. chain \in Seq(Scope) /\ chain[s] \in Scope
  BY DEF ChainOK
<1>2. /\ new \in Seq({"ID", "FUNCTION_DEFINITION"})
      /\ "FUNCTION_DEFINITION" \in Range(new) =>
            "FUNCTION_DEFINITION" \in Range(chain[s].local_table)
  <2>1. chain[s].local_table \in Seq({"ID", "FUNCTION_DEFINITION"})
    BY <1>1, ScopeFields
  <2>2. QED
    BY <2>1, PutFacts
<1>3. scope \in Scope /\ scope.root = chain[s].root /\ scope.local_table = new
  BY <1>1, <1>2 DEF Scope
<1>4. changed = [chain EXCEPT ![s] = scope]
  BY <1>1
<1> HIDE DEF scope, changed
<1>5. /\ changed \in Seq(Scope) /\ DOMAIN changed = DOMAIN chain
      /\ changed[s] = scope /\ \A i \in DOMAIN chain : i # s => changed[i] = chain[i]
  BY <1>1, <1>3, <1>4
<1>6. \A i \in DOMAIN chain : changed[i].root = chain[i].root
  BY <1>3, <1>5
<1>7. RootsOf(changed) = RootsOf(chain)
  BY <1>5, <1>6 DEF RootsOf
<1>8. ASSUME NEW i \in DOMAIN chain
      PROVE  /\ changed[i].root \in DOMAIN ast
             /\ changed[i].local_table # <<>> =>
                  i = 1 \/ ast[changed[i].root].type = "FUNCTION_DEFINITION"
             /\ "FUNCTION_DEFINITION" \in Range(changed[i].local_table) => i = 1
  <2>1. CASE i = s
    BY <1>2, <1>3, <1>5, <2>1 DEF ChainOK
  <2>2. CASE i # s
    BY <1>5, <2>2 DEF ChainOK
  <2>3. QED
    BY <2>1, <2>2
<1>9. ChainOK(changed)
  BY <1>5, <1>8 DEF ChainOK
<1>10. QED
  BY <1>7, <1>9 DEF changed

LEMMA ParametersFacts ==
  ASSUME NEW n \in 1..MaxParameters, NEW parameters \in Parameters(n)
  PROVE  /\ parameters[1] \in Seq({"ID", "FUNCTION_DEFINITION"})
         /\ "FUNCTION_DEFINITION" \notin Range(parameters[1])
         /\ parameters[2] \in {"ERROR_OK", "ERROR_SEM"}
<1>1. n \in Nat
  BY TreeAssumption
<1>2. \E k \in Nat, code \in {"ERROR_OK", "ERROR_SEM"} :
         parameters = <<[i \in 1..k |-> "ID"], code>>
  <2>1. CASE parameters = <<[i \in 1..n |-> "ID"], "ERROR_OK">>
    BY <1>1, <2>1
  <2>2. CASE \E k \in 1..(n - 1) : parameters = <<[i \in 1..k |-> "ID"], "ERROR_SEM">>
    BY <2>2
  <2>3. QED
    BY <2>1, <2>2 DEF Parameters
<1>3. PICK k \in Nat, code \in {"ERROR_OK", "ERROR_SEM"} :
         parameters = <<[i \in 1..k |-> "ID"], code>>
  BY <1>2
<1> DEFINE table == [i \in 1..k |-> "ID"]
<1>4. table \in Seq({"ID", "FUNCTION_DEFINITION"}) /\ \A i \in DOMAIN table : table[i] = "ID"
  OBVIOUS
<1>5. parameters[1] = table /\ parameters[2] = code
  BY <1>3
<1> HIDE DEF table
<1>6. QED
  BY <1>4, <1>5 DEF Range

LEMMA OfLength ==
  ASSUME NEW S, NEW n \in Nat, NEW f \in [1..n -> S]
  PROVE  f \in Seq(S) /\ Len(f) = n
OBVIOUS

LEMMA FirstOfOne ==
  ASSUME NEW S, NEW s \in Seq(S), Len(s) = 1
  PROVE  DOMAIN s = {1} /\ s[1] \in S
<1>1. DOMAIN s = 1..Len(s) /\ 1..1 = {1}
  OBVIOUS
<1>2. 1 \in 1..Len(s)
  OBVIOUS
<1>3. s[1] \in S
  BY <1>2, ElementOfSeq
<1>4. QED
  BY <1>1, <1>3

LEMMA AppendToOne ==
  ASSUME NEW S, NEW s \in Seq(S), Len(s) = 1, NEW x \in S
  PROVE  /\ Append(s, x) \in Seq(S) /\ Len(Append(s, x)) = 2
         /\ Append(s, x)[1] = s[1] /\ Append(s, x)[2] = x
<1>1. Append(s, x) \in Seq(S) /\ Len(Append(s, x)) = Len(s) + 1
  BY AppendProperties
<1>2. \A i \in 1..Len(s) : Append(s, x)[i] = s[i]
  BY AppendProperties
<1>3. Append(s, x)[Len(s) + 1] = x
  BY AppendProperties
<1>4. 1 \in 1..Len(s) /\ Len(s) + 1 = 2
  OBVIOUS
<1>5. QED
  BY <1>1, <1>2, <1>3, <1>4

\* The scopes that handle_fuction_definition leaves.
LEMMA EnterFunction ==
  ASSUME NEW chain, ChainOK(chain), Len(chain) = 1, NEW t \in DOMAIN ast, t \in Nat,
         ast[t].type = "FUNCTION_DEFINITION",
         NEW new \in Put(chain[1].local_table, "FUNCTION_DEFINITION"),
         NEW n \in 1..MaxParameters, NEW parameters \in Parameters(n)
  PROVE  LET changed == <<[chain[1] EXCEPT !.local_table = new],
                          [root |-> t, local_table |-> parameters[1]]>>
         IN ChainOK(changed) /\ RootsOf(changed) = Append(RootsOf(chain), t)
<1> DEFINE first == [chain[1] EXCEPT !.local_table = new]
           second == [root |-> t, local_table |-> parameters[1]]
           changed == <<first, second>>
<1>1. chain \in Seq(Scope) /\ DOMAIN chain = {1} /\ chain[1] \in Scope
  <2>1. chain \in Seq(Scope)
    BY DEF ChainOK
  <2>2. QED
    BY <2>1, FirstOfOne
<1>2. new \in Seq({"ID", "FUNCTION_DEFINITION"})
  <2>1. chain[1].local_table \in Seq({"ID", "FUNCTION_DEFINITION"})
    BY <1>1, ScopeFields
  <2>2. QED
    BY <2>1, PutFacts
<1>3. first \in Scope /\ first.root = chain[1].root /\ first.local_table = new
  BY <1>1, <1>2 DEF Scope
<1>4. second \in Scope /\ second.root = t /\ second.local_table = parameters[1]
      /\ "FUNCTION_DEFINITION" \notin Range(parameters[1])
  BY ParametersFacts DEF Scope
<1> HIDE DEF first, second
<1>5. /\ changed \in Seq(Scope) /\ Len(changed) = 2 /\ DOMAIN changed = {1, 2}
      /\ changed[1] = first /\ changed[2] = second
  BY <1>3, <1>4, Lists
<1> HIDE DEF changed
<1>6. ChainOK(changed)
  BY <1>1, <1>3, <1>4, <1>5 DEF ChainOK
<1>7. RootsOf(changed) = Append(RootsOf(chain), t)
  <2> DEFINE roots == RootsOf(chain)
  <2>1. /\ roots \in Seq(Nat) /\ Len(roots) = 1 /\ roots[1] = chain[1].root
    <3>1. roots = [i \in 1..1 |-> chain[i].root]
      BY <1>1 DEF RootsOf
    <3>2. \A i \in 1..1 : chain[i].root \in Nat
      BY <1>1, ScopeFields
    <3> HIDE DEF roots
    <3>3. QED
      BY <3>1, <3>2
  <2> HIDE DEF roots
  <2>2. /\ Append(roots, t) \in Seq(Nat) /\ Len(Append(roots, t)) = 2
        /\ Append(roots, t)[1] = chain[1].root /\ Append(roots, t)[2] = t
    <3>1. t \in Nat
      OBVIOUS
    <3>2. /\ Append(roots, t) \in Seq(Nat) /\ Len(Append(roots, t)) = 2
          /\ Append(roots, t)[1] = roots[1] /\ Append(roots, t)[2] = t
      BY <2>1, <3>1, AppendToOne, ZenonT(30)
    <3>3. QED
      BY <2>1, <3>2, Zenon
  <2>3. RootsOf(changed) = [i \in 1..2 |-> changed[i].root] /\ 1..2 = {1, 2}
    BY <1>5 DEF RootsOf
  <2>4. \A i \in 1..2 : i = 1 \/ i = 2
    OBVIOUS
  <2>5. \A i \in 1..2 : changed[i].root \in Nat /\ changed[i].root = Append(roots, t)[i]
    BY <1>1, <1>3, <1>4, <1>5, <2>2, <2>4, ScopeFields
  <2>6. /\ RootsOf(changed) \in Seq(Nat) /\ Len(RootsOf(changed)) = 2
        /\ \A i \in 1..2 : RootsOf(changed)[i] = Append(roots, t)[i]
    <3>1. \A i \in 1..2 : RootsOf(changed)[i] = changed[i].root
      BY <2>3
    <3>2. RootsOf(changed) \in [1..2 -> Nat]
      BY <2>3, <2>5
    <3>3. RootsOf(changed) \in Seq(Nat) /\ Len(RootsOf(changed)) = 2
      BY <3>2, OfLength
    <3>4. QED
      BY <2>5, <3>1, <3>3
  <2>7. QED
    BY <2>2, <2>6, SeqEqual DEF roots
<1>8. QED
  BY <1>6, <1>7 DEF changed, first, second
-----------------------------------------------------------------------------
(* The handlers, one by one *)

\* What the steps of the traversal do, but for the discovery of a node.
Handler ==
    /\ \E code \in Codes, pushed \in Seq(Item) : Visit(code, pushed)
    /\ ChainOK(current_scope')
    /\ doubleFree' \in BOOLEAN
    /\ NoDefinitions /\ EmptyTables(current_scope) =>
          EmptyTables(current_scope') /\ doubleFree' = doubleFree

LEMMA ScopesKept ==
  ASSUME TypeOK, ChainOK(current_scope), UNCHANGED <<current_scope, doubleFree>>,
         NEW code, NEW pushed, Visit(code, pushed)
  PROVE  Handler
<1>1. code \in Codes /\ pushed \in Seq(Item)
  BY DEF Visit
<1>2. \E c \in Codes, p \in Seq(Item) : Visit(c, p)
  BY <1>1
<1>3. QED
  BY <1>2 DEF Handler, TypeOK

LEMMA RootsAreRoots == Roots = RootsOf(current_scope) /\ Roots' = RootsOf(current_scope')
BY DEF Roots, RootsOf

LEMMA ScopeOpened ==
  ASSUME TypeOK, TreeInv, TraversalInv, ChainOK(current_scope), pc = "analysis",
         tree_traversing_deque # <<>>, IsNode(Top),
         current_scope' = Append(current_scope, NewScope(Top.node)), UNCHANGED doubleFree
  PROVE  /\ Roots' = Append(Roots, Top.node)
         /\ \A code \in Codes, pushed \in Seq(Item) : Visit(code, pushed) => Handler
<1>1. Top.node \in DOMAIN ast /\ Top.node \in Nat
  BY AtTop
<1>2. /\ ChainOK(Append(current_scope, NewScope(Top.node)))
      /\ RootsOf(Append(current_scope, NewScope(Top.node))) = Append(RootsOf(current_scope), Top.node)
      /\ EmptyTables(current_scope) => EmptyTables(Append(current_scope, NewScope(Top.node)))
  BY <1>1, OpenScope
<1>3. Roots' = Append(Roots, Top.node)
  BY <1>2, RootsAreRoots
<1>4. doubleFree' = doubleFree /\ doubleFree' \in BOOLEAN
  BY DEF TypeOK
<1>5. ASSUME NEW code \in Codes, NEW pushed \in Seq(Item), Visit(code, pushed)
      PROVE  Handler
  <2>1. \E c \in Codes, p \in Seq(Item) : Visit(c, p)
    BY <1>5
  <2>2. QED
    BY <1>2, <1>4, <2>1 DEF Handler
<1>6. QED
  BY <1>3, <1>5

\* A node that is handled is known, and has the children of its type.
LEMMA AtHandler ==
  ASSUME TypeOK, TreeInv, TraversalInv, NEW types, "unknown" \notin types, Handle(types)
  PROVE  /\ pc = "analysis" /\ tree_traversing_deque # <<>> /\ IsNode(Top)
         /\ Known(Top.node) /\ ast[Top.node].type \in types
         /\ Len(Children) \in Arities(ast[Top.node].type)
         /\ DOMAIN Children = 1..Len(Children)
<1>1. pc = "analysis" /\ tree_traversing_deque # <<>> /\ IsNode(Top)
      /\ ast[Top.node].type \in types
  BY DEF Handle
<1>2. NodeInv(Top.node) /\ Children = ast[Top.node].nodes /\ DOMAIN Children = 1..Len(Children)
  BY <1>1, AtTop
<1>3. QED
  BY <1>1, <1>2 DEF NodeInv, Known

LEMMA PassHandled ==
  ASSUME TypeOK, TreeInv, TraversalInv, ChainOK(current_scope), Pass
  PROVE  Handler
<1>1. /\ pc = "analysis" /\ tree_traversing_deque # <<>> /\ IsNode(Top) /\ Known(Top.node)
      /\ ast[Top.node].type \in {"PASS", "NONE"}
      /\ Len(Children) \in Arities(ast[Top.node].type)
  <2>1. Handle({"PASS", "NONE"}) /\ "unknown" \notin {"PASS", "NONE"}
    BY DEF Pass
  <2>2. QED
    BY <2>1, AtHandler
<1>2. Return("ERROR_OK", <<>>) /\ UNCHANGED <<current_scope, doubleFree>> /\ Roots' = Roots
  BY DEF Pass, Roots
<1>3. /\ "ERROR_OK" \in Codes
      /\ "ERROR_OK" \in Bad <=> Misplaced(Top.node) \/ NotImplemented(Top.node)
  BY <1>1 DEF Codes, Bad, Misplaced, NotImplemented
<1>4. Len(Children) = 0
  BY <1>1 DEF Arities
<1>5. Visit("ERROR_OK", <<>>)
  BY <1>1, <1>2, <1>3, <1>4, VisitLeaf
<1>6. QED
  BY <1>2, <1>5, ScopesKept

LEMMA UnsupportedHandled ==
  ASSUME TypeOK, TreeInv, TraversalInv, ChainOK(current_scope), Unsupported
  PROVE  Handler
<1>1. /\ pc = "analysis" /\ tree_traversing_deque # <<>> /\ IsNode(Top) /\ Known(Top.node)
      /\ ast[Top.node].type \in {"EXPRESSION", "FUNCTION_CALL"}
      /\ Len(Children) \in Arities(ast[Top.node].type)
  <2>1. Handle({"EXPRESSION", "FUNCTION_CALL"}) /\ "unknown" \notin {"EXPRESSION", "FUNCTION_CALL"}
    BY DEF Unsupported
  <2>2. QED
    BY <2>1, AtHandler
<1>2. Return("ERROR_INTERNAL", <<>>) /\ UNCHANGED <<current_scope, doubleFree>> /\ Roots' = Roots
  BY DEF Unsupported, Roots
<1>3. /\ "ERROR_INTERNAL" \in Codes
      /\ "ERROR_INTERNAL" \in Bad <=> Misplaced(Top.node) \/ NotImplemented(Top.node)
  BY <1>1 DEF Codes, Bad, NotImplemented
<1>4. Len(Children) = 0
  BY <1>1 DEF Arities
<1>5. Visit("ERROR_INTERNAL", <<>>)
  BY <1>1, <1>2, <1>3, <1>4, VisitLeaf
<1>6. QED
  BY <1>2, <1>5, ScopesKept

LEMMA BreakContinueHandled ==
  ASSUME TypeOK, TreeInv, TraversalInv, ChainOK(current_scope), HandleBreakContinue
  PROVE  Handler
<1>1. /\ pc = "analysis" /\ tree_traversing_deque # <<>> /\ IsNode(Top) /\ Known(Top.node)
      /\ ast[Top.node].type \in {"BREAK", "CONTINUE"}
      /\ Len(Children) \in Arities(ast[Top.node].type)
  <2>1. Handle({"BREAK", "CONTINUE"}) /\ "unknown" \notin {"BREAK", "CONTINUE"}
    BY DEF HandleBreakContinue
  <2>2. QED
    BY <2>1, AtHandler
<1> DEFINE code == IF find_first_node_type_in_scope(current_scope, "WHILE") = 0
                   THEN "ERROR_SYNTAX" ELSE "ERROR_OK"
<1>2. Return(code, <<>>) /\ UNCHANGED <<current_scope, doubleFree>> /\ Roots' = Roots
  BY DEF HandleBreakContinue, Roots
<1>3. find_first_node_type_in_scope(current_scope, "WHILE") = 0 <=> ~Encloses("WHILE", Top.node)
  BY <1>1, LexicalScope
<1>4. /\ code \in Codes
      /\ code \in Bad <=> Misplaced(Top.node) \/ NotImplemented(Top.node)
  BY <1>1, <1>3 DEF Codes, Bad, Misplaced, NotImplemented
<1>5. Len(Children) = 0
  BY <1>1 DEF Arities
<1> HIDE DEF code
<1>6. Visit(code, <<>>)
  BY <1>1, <1>2, <1>4, <1>5, VisitLeaf
<1>7. QED
  BY <1>2, <1>6, ScopesKept

LEMMA ReturnHandled ==
  ASSUME TypeOK, TreeInv, TraversalInv, ChainOK(current_scope), HandleReturn
  PROVE  Handler
<1>1. /\ pc = "analysis" /\ tree_traversing_deque # <<>> /\ IsNode(Top) /\ Known(Top.node)
      /\ ast[Top.node].type = "RETURN"
      /\ Len(Children) \in Arities(ast[Top.node].type)
      /\ DOMAIN Children = 1..Len(Children)
  <2>1. Handle({"RETURN"}) /\ "unknown" \notin {"RETURN"}
    BY DEF HandleReturn
  <2>2. QED
    BY <2>1, AtHandler
<1> DEFINE code == IF find_first_node_type_in_scope(current_scope, "FUNCTION_DEFINITION") = 0
                   THEN "ERROR_SYNTAX" ELSE "ERROR_OK"
<1>2. /\ Return(code, IF ast[Children[1]].type = "NONE" THEN <<>> ELSE <<Child(1)>>)
      /\ UNCHANGED <<current_scope, doubleFree>> /\ Roots' = Roots
  BY DEF HandleReturn, Roots
<1>3. find_first_node_type_in_scope(current_scope, "FUNCTION_DEFINITION") = 0
        <=> ~Encloses("FUNCTION_DEFINITION", Top.node)
  BY <1>1, LexicalScope
<1>4. /\ code \in Codes
      /\ code \in Bad <=> Misplaced(Top.node) \/ NotImplemented(Top.node)
  BY <1>1, <1>3 DEF Codes, Bad, Misplaced, NotImplemented
<1>5. Len(Children) = 1 /\ DOMAIN Children = {1}
  <2>1. Len(Children) = 1 /\ 1..1 = {1}
    BY <1>1 DEF Arities
  <2>2. QED
    BY <1>1, <2>1
<1> HIDE DEF code
<1>6. CASE ast[Children[1]].type = "NONE"
  <2>1. Skipped(code) /\ Return(code, <<>>)
    BY <1>2, <1>5, <1>6 DEF Skipped
  <2>2. Visit(code, <<>>)
    BY <1>1, <1>2, <1>4, <2>1, VisitLeaf
  <2>3. QED
    BY <1>2, <2>2, ScopesKept
<1>7. CASE ast[Children[1]].type # "NONE"
  <2>1. <<Child(1)>> = Reversed
    BY <1>1, <1>5, WrittenOut
  <2>2. Return(code, Reversed)
    BY <1>2, <1>7, <2>1
  <2>3. \A i : ~Opens(ast[Top.node].type, i)
    BY <1>1 DEF Opens
  <2>4. Visit(code, Reversed)
    BY <1>1, <1>2, <1>4, <2>2, <2>3, VisitReversed
  <2>5. QED
    BY <1>2, <2>4, ScopesKept
<1>8. QED
  BY <1>6, <1>7

LEMMA ConsequentHandled ==
  ASSUME TypeOK, TreeInv, TraversalInv, ChainOK(current_scope), HandleConsequent
  PROVE  Handler
<1>1. /\ pc = "analysis" /\ tree_traversing_deque # <<>> /\ IsNode(Top) /\ Known(Top.node)
      /\ ast[Top.node].type = "CONSEQUENT"
  <2>1. Handle({"CONSEQUENT"}) /\ "unknown" \notin {"CONSEQUENT"}
    BY DEF HandleConsequent
  <2>2. QED
    BY <2>1, AtHandler
<1>2. Return("ERROR_OK", Reversed) /\ UNCHANGED <<current_scope, doubleFree>> /\ Roots' = Roots
  BY DEF HandleConsequent, Roots, Reversed
<1>3. /\ "ERROR_OK" \in Codes
      /\ "ERROR_OK" \in Bad <=> Misplaced(Top.node) \/ NotImplemented(Top.node)
  BY <1>1 DEF Codes, Bad, Misplaced, NotImplemented
<1>4. \A i : ~Opens(ast[Top.node].type, i)
  BY <1>1 DEF Opens
<1>5. Visit("ERROR_OK", Reversed)
  BY <1>1, <1>2, <1>3, <1>4, VisitReversed
<1>6. QED
  BY <1>2, <1>5, ScopesKept

LEMMA WhileHandled ==
  ASSUME TypeOK, TreeInv, TraversalInv, ChainOK(current_scope), HandleWhile
  PROVE  Handler
<1>1. /\ pc = "analysis" /\ tree_traversing_deque # <<>> /\ IsNode(Top) /\ Known(Top.node)
      /\ ast[Top.node].type = "WHILE"
  <2>1. Handle({"WHILE"}) /\ "unknown" \notin {"WHILE"}
    BY DEF HandleWhile
  <2>2. QED
    BY <2>1, AtHandler
<1>2. /\ Return("ERROR_OK", <<Leave>> \o Reversed)
      /\ current_scope' = Append(current_scope, NewScope(Top.node)) /\ UNCHANGED doubleFree
  BY DEF HandleWhile, Reversed
<1>3. /\ "ERROR_OK" \in Codes
      /\ "ERROR_OK" \in Bad <=> Misplaced(Top.node) \/ NotImplemented(Top.node)
  BY <1>1 DEF Codes, Bad, Misplaced, NotImplemented
<1>4. \A i \in DOMAIN Children : Opens(ast[Top.node].type, i)
  BY <1>1 DEF Opens
<1>5. /\ Roots' = Append(Roots, Top.node)
      /\ \A code \in Codes, pushed \in Seq(Item) : Visit(code, pushed) => Handler
  BY <1>1, <1>2, ScopeOpened
<1>6. Visit("ERROR_OK", <<Leave>> \o Reversed)
  BY <1>1, <1>2, <1>3, <1>4, <1>5, VisitScope
<1>7. <<Leave>> \o Reversed \in Seq(Item)
  BY <1>6 DEF Visit
<1>8. QED
  BY <1>3, <1>5, <1>6, <1>7

LEMMA ElseHandled ==
  ASSUME TypeOK, TreeInv, TraversalInv, ChainOK(current_scope), HandleElse
  PROVE  Handler
<1>1. /\ pc = "analysis" /\ tree_traversing_deque # <<>> /\ IsNode(Top) /\ Known(Top.node)
      /\ ast[Top.node].type = "ELSE"
      /\ Len(Children) \in Arities(ast[Top.node].type)
  <2>1. Handle({"ELSE"}) /\ "unknown" \notin {"ELSE"}
    BY DEF HandleElse
  <2>2. QED
    BY <2>1, AtHandler
<1>2. Len(Children) = 1
  BY <1>1 DEF Arities
<1>3. <<Leave, Child(1)>> = <<Leave>> \o Reversed
  BY <1>1, <1>2, WrittenOut
<1>4. /\ Return("ERROR_OK", <<Leave>> \o Reversed)
      /\ current_scope' = Append(current_scope, NewScope(Top.node)) /\ UNCHANGED doubleFree
  BY <1>3 DEF HandleElse
<1>5. /\ "ERROR_OK" \in Codes
      /\ "ERROR_OK" \in Bad <=> Misplaced(Top.node) \/ NotImplemented(Top.node)
  BY <1>1 DEF Codes, Bad, Misplaced, NotImplemented
<1>6. \A i \in DOMAIN Children : Opens(ast[Top.node].type, i)
  BY <1>1 DEF Opens
<1>7. /\ Roots' = Append(Roots, Top.node)
      /\ \A code \in Codes, pushed \in Seq(Item) : Visit(code, pushed) => Handler
  BY <1>1, <1>4, ScopeOpened
<1>8. Visit("ERROR_OK", <<Leave>> \o Reversed)
  BY <1>1, <1>4, <1>5, <1>6, <1>7, VisitScope
<1>9. <<Leave>> \o Reversed \in Seq(Item)
  BY <1>8 DEF Visit
<1>10. QED
  BY <1>5, <1>7, <1>8, <1>9

LEMMA IfHandled ==
  ASSUME TypeOK, TreeInv, TraversalInv, ChainOK(current_scope), HandleIf
  PROVE  Handler
<1>1. /\ pc = "analysis" /\ tree_traversing_deque # <<>> /\ IsNode(Top) /\ Known(Top.node)
      /\ ast[Top.node].type \in {"IF", "ELIF"}
      /\ Len(Children) \in Arities(ast[Top.node].type)
      /\ DOMAIN Children = 1..Len(Children)
  <2>1. Handle({"IF", "ELIF"}) /\ "unknown" \notin {"IF", "ELIF"}
    BY DEF HandleIf
  <2>2. QED
    BY <2>1, AtHandler
<1>2. Len(Children) = 2 \/ Len(Children) = 3
  BY <1>1 DEF Arities
<1>3. /\ Return("ERROR_OK", (IF Len(Children) = 3 THEN <<Child(3)>> ELSE <<>>) \o
                            <<Leave, Child(2), Child(1)>>)
      /\ current_scope' = Append(current_scope, NewScope(Top.node)) /\ UNCHANGED doubleFree
  BY DEF HandleIf
<1>4. /\ "ERROR_OK" \in Codes
      /\ "ERROR_OK" \in Bad <=> Misplaced(Top.node) \/ NotImplemented(Top.node)
  BY <1>1 DEF Codes, Bad, Misplaced, NotImplemented
<1>5. /\ Roots' = Append(Roots, Top.node)
      /\ \A code \in Codes, pushed \in Seq(Item) : Visit(code, pushed) => Handler
  BY <1>1, <1>3, ScopeOpened
<1>6. CASE Len(Children) = 2
  <2> DEFINE pushed == <<Leave>> \o Reversed
  <2>1. <<Leave, Child(2), Child(1)>> = pushed
    BY <1>1, <1>6, WrittenOut
  <2>2. pushed \in Seq(Item)
    <3>1. DOMAIN Children = {1, 2}
      <4>1. 1..2 = {1, 2}
        OBVIOUS
      <4>2. QED
        BY <1>1, <1>6, <4>1
    <3>2. Leave \in Item /\ Child(1) \in Item /\ Child(2) \in Item
      BY <1>1, <3>1, ChildItem, LeaveItem
    <3>3. <<Leave, Child(2), Child(1)>> \in Seq(Item)
      BY <3>2, Lists
    <3>4. QED
      BY <2>1, <3>3
  <2>3. Return("ERROR_OK", <<>> \o pushed)
    <3>1. Len(Children) # 3
      BY <1>6
    <3>2. Return("ERROR_OK", <<>> \o <<Leave, Child(2), Child(1)>>)
      BY <1>3, <3>1, Zenon
    <3>3. QED
      BY <2>1, <3>2, Zenon
  <2> HIDE DEF pushed
  <2>4. <<>> \o pushed = pushed
    BY <2>2, ConcatEmptySeq
  <2>5. Return("ERROR_OK", <<Leave>> \o Reversed)
    BY <2>3, <2>4 DEF pushed
  <2>6. \A i \in DOMAIN Children : Opens(ast[Top.node].type, i)
    BY <1>1, <1>6 DEF Opens
  <2>7. Visit("ERROR_OK", <<Leave>> \o Reversed)
    BY <1>1, <1>4, <1>5, <2>5, <2>6, VisitScope
  <2>8. QED
    BY <1>4, <1>5, <2>2, <2>7 DEF pushed
<1>7. CASE Len(Children) = 3
  <2> DEFINE pushed == <<Child(3)>> \o <<Leave, Child(2), Child(1)>>
  <2>1. Return("ERROR_OK", pushed)
    BY <1>3, <1>7
  <2>2. Visit("ERROR_OK", pushed)
    BY <1>1, <1>4, <1>5, <1>7, <2>1, VisitAlternate
  <2>3. pushed \in Seq(Item)
    BY <2>2 DEF Visit
  <2>4. QED
    BY <1>4, <1>5, <2>2, <2>3
<1>8. QED
  BY <1>2, <1>6, <1>7

\* The marker closes the scope it was left for.
LEMMA LeaveHandled ==
  ASSUME TypeOK, TreeInv, TraversalInv, ChainOK(current_scope), LeaveScope
  PROVE  Handler
<1>1. /\ pc = "analysis" /\ tree_traversing_deque # <<>> /\ ~IsNode(Top)
      /\ doubleFree' = (doubleFree \/ Last(current_scope).local_table # <<>>)
      /\ current_scope' = Front(current_scope)
      /\ Return("ERROR_OK", <<>>)
  BY DEF LeaveScope
<1>2. Top.within = Roots /\ Top.within # <<>>
  <2>1. /\ Len(tree_traversing_deque) \in DOMAIN tree_traversing_deque
        /\ Top = tree_traversing_deque[Len(tree_traversing_deque)]
    <3>1. tree_traversing_deque \in Seq(Item)
      BY DEF TypeOK
    <3>2. /\ DOMAIN tree_traversing_deque = 1..Len(tree_traversing_deque)
          /\ Len(tree_traversing_deque) \in Nat \ {0}
          /\ Top = tree_traversing_deque[Len(tree_traversing_deque)]
      BY <1>1, <3>1, FrontAndLast DEF Top
    <3>3. QED
      BY <3>2
  <2>2. ItemInv(Top) /\ Link(tree_traversing_deque, Roots, <<1>>)
    BY <1>1, <2>1 DEF TraversalInv
  <2>3. QED
    BY <1>1, <2>2 DEF ItemInv, Link, Top
<1>3. current_scope # <<>>
  <2>1. Roots \in Seq(Nat) /\ Len(Roots) = Len(current_scope)
    BY RootsFacts
  <2>2. Len(Roots) # 0
    BY <1>2, <2>1, EmptySeq
  <2>3. QED
    BY <2>1, <2>2
<1>4. /\ ChainOK(Front(current_scope))
      /\ RootsOf(Front(current_scope)) = Front(RootsOf(current_scope))
      /\ EmptyTables(current_scope) =>
            EmptyTables(Front(current_scope)) /\ Last(current_scope).local_table = <<>>
  BY <1>3, CloseScope
<1>5. Roots' = After(Top)
  <2>1. Roots' = Front(Roots)
    BY <1>1, <1>4, RootsAreRoots
  <2>2. QED
    BY <1>1, <1>2, <2>1 DEF After
<1>6. Visit("ERROR_OK", <<>>)
  <2>1. <<>> \in Seq(Item) /\ DOMAIN <<>> = {}
    OBVIOUS
  <2>2. Link(<<>>, Roots', After(Top))
    BY <1>5 DEF Link
  <2>3. "ERROR_OK" \in Codes
    BY DEF Codes
  <2>4. QED
    BY <1>1, <2>1, <2>2, <2>3 DEF Visit
<1>7. \E code \in Codes, pushed \in Seq(Item) : Visit(code, pushed)
  BY <1>6 DEF Visit
<1>8. doubleFree' \in BOOLEAN /\ (EmptyTables(current_scope) => doubleFree' = doubleFree)
  BY <1>1, <1>4 DEF TypeOK
<1>9. QED
  BY <1>1, <1>4, <1>7, <1>8 DEF Handler

\* What holds at an assignment, whatever is found.
LEMMA AssignFacts ==
  ASSUME TypeOK, TreeInv, TraversalInv, Handle({"ASSIGN"})
  PROVE  /\ pc = "analysis" /\ tree_traversing_deque # <<>> /\ IsNode(Top) /\ Known(Top.node)
         /\ Top.node \in DOMAIN ast /\ ast[Top.node].type = "ASSIGN"
         /\ <<Child(1)>> = Reversed
         /\ ~(Misplaced(Top.node) \/ NotImplemented(Top.node))
         /\ \A i : ~Opens(ast[Top.node].type, i)
<1>1. /\ pc = "analysis" /\ tree_traversing_deque # <<>> /\ IsNode(Top) /\ Known(Top.node)
      /\ ast[Top.node].type = "ASSIGN"
      /\ Len(Children) \in Arities(ast[Top.node].type)
  <2>1. "unknown" \notin {"ASSIGN"}
    OBVIOUS
  <2>2. QED
    BY <2>1, AtHandler
<1>2. Len(Children) = 1
  BY <1>1 DEF Arities
<1>3. <<Child(1)>> = Reversed
  BY <1>1, <1>2, WrittenOut
<1>4. Top.node \in DOMAIN ast
  BY <1>1, AtTop
<1>5. QED
  BY <1>1, <1>3, <1>4 DEF Misplaced, NotImplemented, Opens

LEMMA DefineVariableHandled ==
  ASSUME TypeOK, TreeInv, TraversalInv, ChainOK(current_scope), DefineVariable
  PROVE  Handler
<1> DEFINE s == VariableScope(current_scope)
<1>1. /\ pc = "analysis" /\ tree_traversing_deque # <<>> /\ IsNode(Top) /\ Known(Top.node)
      /\ Top.node \in DOMAIN ast /\ ast[Top.node].type = "ASSIGN"
      /\ <<Child(1)>> = Reversed
      /\ ~(Misplaced(Top.node) \/ NotImplemented(Top.node))
      /\ \A i : ~Opens(ast[Top.node].type, i)
  <2>1. Handle({"ASSIGN"})
    BY DEF DefineVariable
  <2>2. QED
    BY <2>1, AssignFacts
<1>2. PICK new \in Put(current_scope[s].local_table, "ID") :
        current_scope' = [current_scope EXCEPT ![s].local_table = new]
  BY DEF DefineVariable
<1>3. Return("ERROR_OK", Reversed) /\ UNCHANGED doubleFree
  BY <1>1 DEF DefineVariable
<1>4. 1 \in DOMAIN current_scope
  <2>1. Roots = ast[Top.node].within /\ ast[Top.node].within # <<>>
    BY <1>1, AtTop
  <2>2. /\ Roots \in Seq(Nat) /\ Len(Roots) = Len(current_scope) /\ Len(current_scope) \in Nat
        /\ DOMAIN current_scope = 1..Len(current_scope)
    BY RootsFacts
  <2>3. Len(Roots) # 0
    BY <2>1, <2>2, EmptySeq
  <2>4. QED
    BY <2>2, <2>3
<1>5. /\ s \in DOMAIN current_scope
      /\ s = 1 \/ ast[current_scope[s].root].type = "FUNCTION_DEFINITION"
  <2> DEFINE found == find_first_node_type_in_scope(current_scope, "FUNCTION_DEFINITION")
  <2>1. found = 0 \/ (found \in DOMAIN current_scope
                      /\ ast[current_scope[found].root].type = "FUNCTION_DEFINITION")
    BY FirstScope
  <2>2. s = IF found = 0 THEN 1 ELSE found
    BY DEF VariableScope
  <2> HIDE DEF s, found
  <2>3. QED
    BY <1>4, <2>1, <2>2
<1> HIDE DEF s
<1>6. ChainOK(current_scope') /\ RootsOf(current_scope') = RootsOf(current_scope)
  BY <1>2, <1>5, StoreName
<1>7. Roots' = Roots
  BY <1>6, RootsAreRoots
<1>8. "ERROR_OK" \in Codes /\ "ERROR_OK" \notin Bad
  BY DEF Codes, Bad
<1>9. Visit("ERROR_OK", Reversed)
  BY <1>1, <1>3, <1>7, <1>8, VisitReversed
<1>10. \E code \in Codes, pushed \in Seq(Item) : Visit(code, pushed)
  BY <1>9 DEF Visit
<1>11. ~NoDefinitions
  BY <1>1 DEF NoDefinitions, Definition
<1>12. QED
  BY <1>3, <1>6, <1>10, <1>11 DEF Handler, TypeOK

LEMMA AssignAgainHandled ==
  ASSUME TypeOK, TreeInv, TraversalInv, ChainOK(current_scope), AssignAgain
  PROVE  Handler
<1>1. /\ pc = "analysis" /\ tree_traversing_deque # <<>> /\ IsNode(Top) /\ Known(Top.node)
      /\ <<Child(1)>> = Reversed
      /\ ~(Misplaced(Top.node) \/ NotImplemented(Top.node))
      /\ \A i : ~Opens(ast[Top.node].type, i)
  <2>1. Handle({"ASSIGN"})
    BY DEF AssignAgain
  <2>2. QED
    BY <2>1, AssignFacts
<1>2. PICK code \in {"ERROR_SEM", "ERROR_OK"} : Return(code, <<Child(1)>>)
  BY DEF AssignAgain
<1>3. Return(code, Reversed) /\ UNCHANGED <<current_scope, doubleFree>> /\ Roots' = Roots
  BY <1>1, <1>2 DEF AssignAgain, Roots
<1>4. code \in Codes /\ code \notin Bad
  BY DEF Codes, Bad
<1>5. Visit(code, Reversed)
  BY <1>1, <1>3, <1>4, VisitReversed
<1>6. QED
  BY <1>3, <1>5, ScopesKept

\* What holds at the definition of a function.
LEMMA FunctionFacts ==
  ASSUME TypeOK, TreeInv, TraversalInv, Handle({"FUNCTION_DEFINITION"})
  PROVE  /\ pc = "analysis" /\ tree_traversing_deque # <<>> /\ IsNode(Top) /\ Known(Top.node)
         /\ Top.node \in DOMAIN ast /\ Top.node \in Nat
         /\ ast[Top.node].type = "FUNCTION_DEFINITION"
         /\ <<Leave, Child(1)>> = <<Leave>> \o Reversed
         /\ Misplaced(Top.node) \/ NotImplemented(Top.node) <=> Len(current_scope) > 1
         /\ \A i : Opens(ast[Top.node].type, i)
         /\ ~NoDefinitions
<1>1. /\ pc = "analysis" /\ tree_traversing_deque # <<>> /\ IsNode(Top) /\ Known(Top.node)
      /\ ast[Top.node].type = "FUNCTION_DEFINITION"
      /\ Len(Children) \in Arities(ast[Top.node].type)
  <2>1. "unknown" \notin {"FUNCTION_DEFINITION"}
    OBVIOUS
  <2>2. QED
    BY <2>1, AtHandler
<1>2. Len(Children) = 1
  BY <1>1 DEF Arities
<1>3. <<Leave, Child(1)>> = <<Leave>> \o Reversed
  BY <1>1, <1>2, WrittenOut
<1>4. Top.node \in DOMAIN ast /\ Top.node \in Nat
  BY <1>1, AtTop
<1>5. Len(current_scope) = Len(ast[Top.node].within)
  BY <1>1, LexicalScope
<1>6. Misplaced(Top.node) \/ NotImplemented(Top.node) <=> Len(current_scope) > 1
  BY <1>1, <1>5 DEF Misplaced, NotImplemented
<1>7. QED
  BY <1>1, <1>3, <1>4, <1>6 DEF Opens, NoDefinitions, Definition

LEMMA NestedFunctionHandled ==
  ASSUME TypeOK, TreeInv, TraversalInv, ChainOK(current_scope), NestedFunction
  PROVE  Handler
<1>1. /\ pc = "analysis" /\ tree_traversing_deque # <<>> /\ IsNode(Top) /\ Known(Top.node)
      /\ ast[Top.node].type = "FUNCTION_DEFINITION"
      /\ Misplaced(Top.node) \/ NotImplemented(Top.node) <=> Len(current_scope) > 1
  <2>1. Handle({"FUNCTION_DEFINITION"})
    BY DEF NestedFunction
  <2>2. QED
    BY <2>1, FunctionFacts
<1>2. /\ Return("ERROR_SYNTAX", <<>>) /\ UNCHANGED <<current_scope, doubleFree>> /\ Roots' = Roots
      /\ Len(current_scope) > 1
  BY DEF NestedFunction, Roots
<1>3. "ERROR_SYNTAX" \in Codes /\ "ERROR_SYNTAX" \in Bad
  BY DEF Codes, Bad
<1>4. Skipped("ERROR_SYNTAX")
  BY <1>1 DEF Skipped
<1>5. Visit("ERROR_SYNTAX", <<>>)
  BY <1>1, <1>2, <1>3, <1>4, VisitLeaf
<1>6. QED
  BY <1>2, <1>5, ScopesKept

LEMMA RedefinedFunctionHandled ==
  ASSUME TypeOK, TreeInv, TraversalInv, ChainOK(current_scope), RedefinedFunction
  PROVE  Handler
<1>1. /\ pc = "analysis" /\ tree_traversing_deque # <<>> /\ IsNode(Top) /\ Known(Top.node)
      /\ ast[Top.node].type = "FUNCTION_DEFINITION"
      /\ Misplaced(Top.node) \/ NotImplemented(Top.node) <=> Len(current_scope) > 1
  <2>1. Handle({"FUNCTION_DEFINITION"})
    BY DEF RedefinedFunction
  <2>2. QED
    BY <2>1, FunctionFacts
<1>2. /\ Return("ERROR_SEM", <<>>) /\ UNCHANGED <<current_scope, doubleFree>> /\ Roots' = Roots
      /\ ~(Len(current_scope) > 1)
  BY DEF RedefinedFunction, Roots
<1>3. "ERROR_SEM" \in Codes /\ "ERROR_SEM" \notin Bad
  BY DEF Codes, Bad
<1>4. Skipped("ERROR_SEM")
  BY <1>1 DEF Skipped
<1>5. Visit("ERROR_SEM", <<>>)
  BY <1>1, <1>2, <1>3, <1>4, VisitLeaf
<1>6. QED
  BY <1>2, <1>5, ScopesKept

LEMMA NewFunctionHandled ==
  ASSUME TypeOK, TreeInv, TraversalInv, ChainOK(current_scope), NewFunction
  PROVE  Handler
<1>1. /\ pc = "analysis" /\ tree_traversing_deque # <<>> /\ IsNode(Top) /\ Known(Top.node)
      /\ Top.node \in DOMAIN ast /\ Top.node \in Nat
      /\ ast[Top.node].type = "FUNCTION_DEFINITION"
      /\ <<Leave, Child(1)>> = <<Leave>> \o Reversed
      /\ Misplaced(Top.node) \/ NotImplemented(Top.node) <=> Len(current_scope) > 1
      /\ \A i : Opens(ast[Top.node].type, i)
      /\ ~NoDefinitions
  <2>1. Handle({"FUNCTION_DEFINITION"})
    BY DEF NewFunction
  <2>2. QED
    BY <2>1, FunctionFacts
<1>2. Len(current_scope) = 1 /\ ~(Len(current_scope) > 1) /\ doubleFree' = doubleFree
  BY DEF NewFunction
<1>3. PICK n \in 1..MaxParameters,
           new \in Put(current_scope[1].local_table, "FUNCTION_DEFINITION") :
        \E parameters \in Parameters(n) :
           /\ current_scope' =
                <<[current_scope[1] EXCEPT !.local_table = new],
                  [root |-> Top.node, local_table |-> parameters[1]]>>
           /\ Return(parameters[2], <<Leave, Child(1)>>)
  BY DEF NewFunction
<1>4. PICK parameters \in Parameters(n) :
        /\ current_scope' =
             <<[current_scope[1] EXCEPT !.local_table = new],
               [root |-> Top.node, local_table |-> parameters[1]]>>
        /\ Return(parameters[2], <<Leave, Child(1)>>)
  BY <1>3
<1> DEFINE code == parameters[2]
<1>5. ChainOK(current_scope') /\ RootsOf(current_scope') = Append(RootsOf(current_scope), Top.node)
  BY <1>1, <1>2, <1>4, EnterFunction
<1>6. Roots' = Append(Roots, Top.node)
  BY <1>5, RootsAreRoots
<1>7. code \in Codes /\ code \notin Bad
  BY ParametersFacts DEF Codes, Bad
<1>8. Return(code, <<Leave>> \o Reversed)
  BY <1>1, <1>4
<1> HIDE DEF code
<1>9. Visit(code, <<Leave>> \o Reversed)
  BY <1>1, <1>2, <1>6, <1>7, <1>8, VisitScope
<1>10. \E c \in Codes, p \in Seq(Item) : Visit(c, p)
  BY <1>9 DEF Visit
<1>11. doubleFree' \in BOOLEAN
  BY <1>2 DEF TypeOK
<1>12. QED
  BY <1>1, <1>5, <1>10, <1>11 DEF Handler
-----------------------------------------------------------------------------
(* Preservation of the invariant *)

LEMMA ChainFromInv ==
  ASSUME TypeOK, ScopeInv, NamesInFunctionScopes
  PROVE  ChainOK(current_scope)
BY DEF TypeOK, ScopeInv, NamesInFunctionScopes, ChainOK

LEMMA SameTree ==
  ASSUME TreeInv, ast' = ast
  PROVE  TreeInv'
BY DEF TreeInv, NodeInv, ChildrenInv, OneParent, Known

LEMMA HandlerKeeps ==
  ASSUME Inv, Handler
  PROVE  Inv'
<1>1. PICK code \in Codes, pushed \in Seq(Item) : Visit(code, pushed)
  BY DEF Handler
<1>2. TypeOK /\ TreeInv /\ TraversalInv /\ ReportInv /\ HandledInv /\ OrderInv
      /\ HandledInSourceOrder /\ CountInv
  BY DEF Inv
<1>3. /\ ast' = ast /\ pc' = pc /\ pc = "analysis"
      /\ tree_traversing_deque' \in Seq(Item)
      /\ reported' \in Seq(Nat \X Codes)
  BY <1>1, <1>2, VisitFacts DEF Visit
<1>4. ChainOK(current_scope') /\ doubleFree' \in BOOLEAN
  BY DEF Handler
<1>5. TypeOK'
  <2>1. status' \in Codes
    BY <1>1, <1>2 DEF Visit, Return, TypeOK
  <2>2. QED
    BY <1>2, <1>3, <1>4, <2>1 DEF TypeOK, ChainOK
<1>6. TreeInv'
  BY <1>2, <1>3, SameTree
<1>7. TraversalInv' /\ ReportInv' /\ HandledInv' /\ CountInv'
  BY <1>1, <1>2, VisitTraversal, VisitReport, VisitHandled, VisitCount
<1>8. HandledInSourceOrder' /\ OrderInv'
  BY <1>1, <1>2, VisitOrder
<1>9. ScopeInv' /\ NamesInFunctionScopes'
  BY <1>3, <1>4 DEF ScopeInv, NamesInFunctionScopes, ChainOK
<1>10. SafeInv'
  <2>1. NoDefinitions' <=> NoDefinitions
    BY <1>3 DEF NoDefinitions
  <2>2. NoDefinitions => EmptyTables(current_scope) /\ doubleFree = FALSE
    BY <1>2, <1>3 DEF Inv, SafeInv, EmptyTables, TypeOK
  <2>3. NoDefinitions' => EmptyTables(current_scope') /\ ~doubleFree'
    BY <2>1, <2>2 DEF Handler
  <2>4. QED
    BY <1>3, <2>3 DEF SafeInv, EmptyTables
<1>11. BubblesUp'
  BY <1>3 DEF BubblesUp
<1>12. QED
  BY <1>5, <1>6, <1>7, <1>8, <1>9, <1>10, <1>11 DEF Inv

\* What the discovery of the node t changes and leaves.
Discovered(t) ==
    /\ pc = "analysis" /\ tree_traversing_deque # <<>> /\ Top.node = t
    /\ UNCHANGED <<tree_traversing_deque, current_scope, status, reported, doubleFree, pc>>
    /\ t \in DOMAIN ast /\ ast[t].type = "unknown" /\ ast[t].nodes = <<>>
    /\ ast' \in Seq(Node) /\ TreeInv' /\ DOMAIN ast \subseteq DOMAIN ast'
    /\ \A x \in DOMAIN ast : x # t => ast'[x] = ast[x]
    /\ \A x \in DOMAIN ast : ast'[x].within = ast[x].within
    /\ ast'[t].type \notin {"unknown", "NONE"}
    /\ t = 1 => ast'[t].type = "CONSEQUENT"
    /\ \A i \in DOMAIN ast'[t].nodes : ast'[t].nodes[i] \notin DOMAIN ast
    /\ \A x \in DOMAIN ast' : x \notin DOMAIN ast =>
          ast'[x].nodes = <<>> /\ ast'[x].type \in {"unknown", "NONE"}

LEMMA RevealDiscovers ==
  ASSUME TypeOK, TreeInv, TraversalInv, Reveal
  PROVE  Discovered(Top.node)
<1> DEFINE t == Top.node
<1>1. /\ pc = "analysis" /\ tree_traversing_deque # <<>> /\ IsNode(Top)
      /\ ast[t].type = "unknown"
      /\ UNCHANGED <<tree_traversing_deque, current_scope, status, reported, doubleFree, pc>>
  BY DEF Reveal
<1>2. t \in DOMAIN ast /\ NodeInv(t)
  BY <1>1, AtTop
<1>3. ast[t].nodes = <<>>
  <2>1. Arities("unknown") = {0}
    BY DEF Arities
  <2>2. Len(ast[t].nodes) = 0
    BY <1>1, <1>2, <2>1 DEF NodeInv
  <2>3. ast[t].nodes \in Seq(Nat \ {0})
    BY <1>2, NodesTyped DEF TypeOK
  <2>4. QED
    BY <2>2, <2>3, EmptySeq
<1>4. \E type \in NodeType, k, m \in Nat : Revealed(t, type, k, m)
  BY <1>2, RevealFacts
<1>5. PICK type \in NodeType, k \in Nat, m \in Nat : Revealed(t, type, k, m)
  BY <1>4
<1> HIDE DEF t
<1>6. /\ TreeInv'
      /\ DOMAIN ast \subseteq DOMAIN ast'
      /\ \A x \in DOMAIN ast : ast'[x].within = ast[x].within
  BY <1>1, <1>2, <1>5, RevealedTree DEF t
<1> DEFINE n == Len(ast)
<1>7. n \in Nat /\ DOMAIN ast = 1..n /\ ast \in Seq(Node)
  BY DEF TypeOK
<1>8. /\ ast' \in Seq(Node) /\ Len(ast') = n + m
      /\ \A x \in DOMAIN ast : x # t => ast'[x] = ast[x]
      /\ ast'[t].type = type /\ type \notin {"unknown", "NONE"}
      /\ ast[t].place = "root" => type = "CONSEQUENT"
  BY <1>5 DEF Revealed
<1>9. t = 1 => ast'[t].type = "CONSEQUENT"
  BY <1>8 DEF TreeInv
<1>10. \A i \in DOMAIN ast'[t].nodes : ast'[t].nodes[i] \notin DOMAIN ast
  <2>1. /\ Len(ast'[t].nodes) = k /\ \A i \in 1..k : ast'[t].nodes[i] = n + IF i <= m THEN i ELSE m
        /\ m = k \/ (k = 3 /\ m = 2)
    BY <1>5 DEF Revealed
  <2>2. DOMAIN ast'[t].nodes = 1..k
    <3>1. t \in 1..Len(ast')
      BY <1>2, <1>6, <1>8
    <3>2. ast'[t].nodes \in Seq(Nat \ {0})
      BY <1>8, <3>1, NodesTyped
    <3>3. QED
      BY <2>1, <3>2
  <2>3. \A i \in 1..k : (IF i <= m THEN i ELSE m) \in Nat \ {0}
    BY <2>1
  <2>4. \A j \in Nat \ {0} : n + j \notin 1..n
    BY <1>7
  <2> HIDE DEF n
  <2>5. QED
    BY <1>7, <2>1, <2>2, <2>3, <2>4
<1>11. ASSUME NEW x \in DOMAIN ast', x \notin DOMAIN ast
       PROVE  ast'[x].nodes = <<>> /\ ast'[x].type \in {"unknown", "NONE"}
  <2>1. DOMAIN ast' = 1..(n + m)
    BY <1>8
  <2>2. x - n \in 1..m /\ x = n + (x - n)
    BY <1>7, <1>11, <2>1
  <2>3. \A i \in 1..m : ast'[n + i].nodes = <<>> /\ ast'[n + i].type \in {"unknown", "NONE"}
    BY <1>5 DEF Revealed
  <2> HIDE DEF n
  <2>4. QED
    BY <2>2, <2>3
<1>12. QED
  BY <1>1, <1>2, <1>3, <1>6, <1>8, <1>9, <1>10, <1>11 DEF Discovered, t

\* Nothing was done yet with a node that is unknown or new.
LEMMA Untouched ==
  ASSUME TypeOK, TraversalInv, ReportInv, NEW c \in Nat \ {0}
  PROVE  /\ c \notin DOMAIN ast \/ ~Known(c) => HandledAt(c) = {}
         /\ c \notin DOMAIN ast => PendingAt(c) = {}
<1>1. ASSUME c \notin DOMAIN ast \/ ~Known(c) PROVE HandledAt(c) = {}
  BY <1>1 DEF HandledAt, ReportInv
<1>2. ASSUME c \notin DOMAIN ast PROVE PendingAt(c) = {}
  <2> SUFFICES ASSUME NEW k \in DOMAIN tree_traversing_deque, tree_traversing_deque[k].node = c
               PROVE  FALSE
    BY DEF PendingAt
  <2>1. ItemInv(tree_traversing_deque[k])
    BY DEF TraversalInv
  <2>2. QED
    BY <1>2, <2>1 DEF ItemInv, IsNode
<1>3. QED
  BY <1>1, <1>2

LEMMA DiscoveredReport ==
  ASSUME TypeOK, TreeInv, ReportInv, NEW t, Discovered(t)
  PROVE  ReportInv'
<1>1. /\ reported' = reported /\ status' = status
      /\ ast[t].type = "unknown"
      /\ \A x \in DOMAIN ast : x # t => ast'[x] = ast[x]
      /\ \A x \in DOMAIN ast : ast'[x].within = ast[x].within
      /\ DOMAIN ast \subseteq DOMAIN ast'
      /\ t = 1 => ast'[t].type = "CONSEQUENT"
  BY DEF Discovered
<1>2. ASSUME NEW n \in DOMAIN ast, Known(n), NEW type \in {"FUNCTION_DEFINITION", "WHILE"}
      PROVE  Encloses(type, n)' <=> Encloses(type, n)
  <2>1. ast'[n] = ast[n]
    BY <1>1, <1>2 DEF Known
  <2>2. ASSUME NEW i \in DOMAIN ast[n].within
        PROVE  ast'[ast[n].within[i]].type = type <=> ast[ast[n].within[i]].type = type
    <3> DEFINE w == ast[n].within[i]
    <3>1. w \in DOMAIN ast /\ (w = 1 \/ Known(w))
      BY DEF TreeInv, NodeInv
    <3> HIDE DEF w
    <3>2. CASE w = t
      <4>1. w = 1
        BY <1>1, <3>1, <3>2 DEF Known
      <4>2. ast'[w].type # type /\ ast[w].type # type
        BY <1>1, <1>2, <3>2, <4>1
      <4>3. QED
        BY <4>2 DEF w
    <3>3. CASE w # t
      <4>1. ast'[w] = ast[w]
        BY <1>1, <3>1, <3>3
      <4>2. QED
        BY <4>1 DEF w
    <3>4. QED
      BY <3>2, <3>3
  <2>3. QED
    BY <2>1, <2>2 DEF Encloses
<1>3. ASSUME NEW n \in DOMAIN ast, Known(n)
      PROVE  /\ n \in DOMAIN ast' /\ Known(n)'
             /\ Misplaced(n)' <=> Misplaced(n)
             /\ NotImplemented(n)' <=> NotImplemented(n)
  <2>1. ast'[n] = ast[n] /\ n \in DOMAIN ast'
    BY <1>1, <1>3 DEF Known
  <2>2. /\ Encloses("FUNCTION_DEFINITION", n)' <=> Encloses("FUNCTION_DEFINITION", n)
        /\ Encloses("WHILE", n)' <=> Encloses("WHILE", n)
    BY <1>2, <1>3
  <2>3. QED
    BY <1>3, <2>1, <2>2 DEF Misplaced, NotImplemented, Known
<1>4. ASSUME NEW k \in DOMAIN reported, NEW n, n = reported[k][1], n # 0
      PROVE  n \in DOMAIN ast' /\ Known(n)'
             /\ (reported[k][2] \in Bad <=> Misplaced(n)' \/ NotImplemented(n)')
  <2>1. n \in DOMAIN ast /\ Known(n) /\ (reported[k][2] \in Bad <=> Misplaced(n) \/ NotImplemented(n))
    BY <1>4 DEF ReportInv
  <2>2. QED
    BY <1>3, <2>1
<1> DEFINE EnclosesNext(type, n) ==
             \E i \in DOMAIN ast'[n].within : ast'[ast'[n].within[i]].type = type
           BadNext(n) == \/ ast'[n].type = "RETURN" /\ ~EnclosesNext("FUNCTION_DEFINITION", n)
                         \/ ast'[n].type \in {"BREAK", "CONTINUE"} /\ ~EnclosesNext("WHILE", n)
                         \/ ast'[n].type = "FUNCTION_DEFINITION" /\ Len(ast'[n].within) > 1
                         \/ ast'[n].type \in {"EXPRESSION", "FUNCTION_CALL"}
<1>5. \A k \in DOMAIN reported : reported[k][1] # 0 =>
          /\ reported[k][1] \in DOMAIN ast' /\ ast'[reported[k][1]].type # "unknown"
          /\ reported[k][2] \in Bad <=> BadNext(reported[k][1])
  <2>1. ASSUME NEW n PROVE /\ Known(n)' <=> ast'[n].type # "unknown"
                           /\ Misplaced(n)' \/ NotImplemented(n)' <=> BadNext(n)
    BY DEF Known, Misplaced, NotImplemented, Encloses
  <2>2. \A k \in DOMAIN reported : \A n : n = reported[k][1] /\ n # 0 =>
          n \in DOMAIN ast' /\ Known(n)'
          /\ (reported[k][2] \in Bad <=> Misplaced(n)' \/ NotImplemented(n)')
    BY <1>4
  <2> HIDE DEF BadNext
  <2>3. \A k \in DOMAIN reported : \A n : n = reported[k][1] /\ n # 0 =>
          n \in DOMAIN ast' /\ ast'[n].type # "unknown"
          /\ (reported[k][2] \in Bad <=> BadNext(n))
    BY <2>1, <2>2
  <2>4. QED
    BY <2>3
<1>6. /\ status \in Bad <=> \E k \in DOMAIN reported : reported[k][2] \in Bad
      /\ \A k \in DOMAIN reported : reported[k][1] = 0 => reported[k][2] = "ERROR_OK"
  BY DEF ReportInv
<1>7. \A k \in DOMAIN reported :
         LET n == reported[k][1]
         IN IF n = 0 THEN reported[k][2] = "ERROR_OK"
            ELSE /\ n \in DOMAIN ast' /\ ast'[n].type # "unknown"
                 /\ reported[k][2] \in Bad <=> BadNext(n)
  <2> HIDE DEF BadNext
  <2>1. QED
    BY <1>5, <1>6
<1>8. \A k \in DOMAIN reported' :
         LET n == reported'[k][1]
         IN IF n = 0 THEN reported'[k][2] = "ERROR_OK"
            ELSE /\ n \in DOMAIN ast' /\ ast'[n].type # "unknown"
                 /\ reported'[k][2] \in Bad <=> BadNext(n)
  <2> HIDE DEF BadNext
  <2>1. QED
    BY <1>1, <1>7
<1>9. status' \in Bad <=> \E k \in DOMAIN reported' : reported'[k][2] \in Bad
  BY <1>1, <1>6
<1>10. QED
  BY <1>8, <1>9, Zenon DEF ReportInv, Known, Misplaced, NotImplemented, Encloses

LEMMA DiscoveredTraversal ==
  ASSUME TypeOK, TraversalInv, NEW t, Discovered(t)
  PROVE  TraversalInv'
<1>1. /\ tree_traversing_deque' = tree_traversing_deque /\ pc' = pc /\ Roots' = Roots
      /\ DOMAIN ast \subseteq DOMAIN ast'
      /\ \A x \in DOMAIN ast : ast'[x].within = ast[x].within
  BY DEF Discovered, Roots
<1>2. ASSUME NEW k \in DOMAIN tree_traversing_deque, NEW item, item = tree_traversing_deque[k]
      PROVE  /\ item.within # <<>>
             /\ IsNode(item) => item.node \in DOMAIN ast' /\ item.within = ast'[item.node].within
  <2>1. ItemInv(item)
    BY <1>2 DEF TraversalInv
  <2>2. QED
    BY <1>1, <2>1 DEF ItemInv
<1>3. \A k \in DOMAIN tree_traversing_deque :
        LET item == tree_traversing_deque[k]
        IN /\ item.within # <<>>
           /\ IsNode(item) => item.node \in DOMAIN ast' /\ item.within = ast'[item.node].within
  BY <1>2
<1>4. pc = "analysis" => Link(tree_traversing_deque, Roots', <<1>>)
  BY <1>1 DEF TraversalInv
<1>5. pc \in {"done", "exited"} => tree_traversing_deque = <<>>
  BY DEF TraversalInv
<1>6. QED
  BY <1>1, <1>3, <1>4, <1>5 DEF TraversalInv, ItemInv, Link, After, IsNode

LEMMA DiscoveredHandled ==
  ASSUME TypeOK, HandledInv, NEW t, Discovered(t)
  PROVE  HandledInv'
<1>1. /\ tree_traversing_deque' = tree_traversing_deque /\ reported' = reported
      /\ Top' = Top /\ Top.node = t /\ tree_traversing_deque # <<>>
      /\ \A x \in DOMAIN ast : x # t => ast'[x] = ast[x]
      /\ \A x \in DOMAIN ast' : x \notin DOMAIN ast => ast'[x].type \in {"unknown", "NONE"}
  BY DEF Discovered, Top
<1>2. ASSUME NEW n \in DOMAIN ast', ast'[n].type # "unknown", ast'[n].type # "NONE"
      PROVE  HandledAt(n)' # {} \/ Top.node = n
  <2>1. CASE n = t
    BY <1>1, <2>1
  <2>2. CASE n # t
    <3>1. n \in DOMAIN ast /\ ast'[n] = ast[n]
      BY <1>1, <1>2, <2>2
    <3>2. HandledAt(n) # {}
      BY <1>1, <1>2, <2>2, <3>1 DEF HandledInv, Known
    <3>3. HandledAt(n)' = HandledAt(n)
      BY <1>1 DEF HandledAt
    <3>4. QED
      BY <3>2, <3>3
  <2>3. QED
    BY <2>1, <2>2
<1>3. QED
  BY <1>1, <1>2 DEF HandledInv, Known, HandledAt, Top

\* The lists of all nodes but t are the old ones, and t lists new nodes.
LEMMA DiscoveredChild ==
  ASSUME TypeOK, TreeInv, NEW t, Discovered(t),
         NEW n \in DOMAIN ast', NEW i \in DOMAIN ast'[n].nodes, NEW c, c = ast'[n].nodes[i]
  PROVE  /\ n \in DOMAIN ast /\ c \in Nat \ {0}
         /\ \/ n = t /\ c \notin DOMAIN ast
            \/ n # t /\ ast'[n] = ast[n] /\ c \in DOMAIN ast /\ i \in DOMAIN ast[n].nodes
<1>1. /\ \A x \in DOMAIN ast' : x \notin DOMAIN ast => ast'[x].nodes = <<>>
      /\ \A x \in DOMAIN ast : x # t => ast'[x] = ast[x]
      /\ \A j \in DOMAIN ast'[t].nodes : ast'[t].nodes[j] \notin DOMAIN ast
      /\ ast' \in Seq(Node)
  BY DEF Discovered
<1>2. n \in DOMAIN ast
  BY <1>1
<1>3. c \in Nat \ {0}
  <2>1. n \in 1..Len(ast')
    BY <1>1
  <2>2. ast'[n].nodes \in Seq(Nat \ {0})
    BY <1>1, <2>1, NodesTyped
  <2>3. QED
    BY <2>2
<1>4. CASE n = t
  BY <1>1, <1>2, <1>3, <1>4
<1>5. CASE n # t
  <2>1. ast'[n] = ast[n]
    BY <1>1, <1>2, <1>5
  <2>2. c \in DOMAIN ast
    BY <1>2, <2>1 DEF TreeInv, ChildrenInv
  <2>3. QED
    BY <1>2, <1>3, <1>5, <2>1, <2>2
<1>6. QED
  BY <1>4, <1>5

LEMMA DiscoveredOrder ==
  ASSUME TypeOK, TreeInv, TraversalInv, ReportInv, OrderInv, HandledInSourceOrder,
         NEW t, Discovered(t)
  PROVE  OrderInv' /\ HandledInSourceOrder'
<1>1. /\ tree_traversing_deque' = tree_traversing_deque /\ reported' = reported
      /\ ast[t].type = "unknown"
      /\ \A x \in DOMAIN ast : x # t => ast'[x] = ast[x]
  BY DEF Discovered
<1>2. ASSUME NEW n \in DOMAIN ast', NEW i \in DOMAIN ast'[n].nodes, NEW j \in DOMAIN ast'[n].nodes,
             NEW x, x = ast'[n].nodes[i], NEW y, y = ast'[n].nodes[j], i < j, x # y
      PROVE  /\ \A p \in DOMAIN tree_traversing_deque : tree_traversing_deque[p].node = y =>
                   \/ HandledAt(x) # {}
                   \/ \E q \in DOMAIN tree_traversing_deque :
                         q > p /\ tree_traversing_deque[q].node = x
             /\ \A b \in HandledAt(y) :
                   \/ ast'[x].type = "NONE"
                   \/ \E a \in HandledAt(x) : a < b
  <2>1. CASE n = t
    <3>1. y \in Nat \ {0} /\ y \notin DOMAIN ast
      BY <1>2, <2>1, DiscoveredChild
    <3>2. HandledAt(y) = {} /\ PendingAt(y) = {}
      BY <3>1, Untouched
    <3>3. QED
      BY <3>2 DEF PendingAt
  <2>2. CASE n # t
    <3>1. ast'[n] = ast[n] /\ n \in DOMAIN ast /\ x \in DOMAIN ast
      BY <1>2, <2>2, DiscoveredChild
    <3>2. x = ast[n].nodes[i] /\ y = ast[n].nodes[j] /\ i \in DOMAIN ast[n].nodes
          /\ j \in DOMAIN ast[n].nodes
      BY <1>2, <3>1
    <3>3. \A p \in DOMAIN tree_traversing_deque : tree_traversing_deque[p].node = y =>
             \/ HandledAt(x) # {}
             \/ \E q \in DOMAIN tree_traversing_deque :
                   q > p /\ tree_traversing_deque[q].node = x
      BY <1>2, <3>1, <3>2 DEF OrderInv
    <3>4. \A b \in HandledAt(y) :
             \/ ast[x].type = "NONE"
             \/ \E a \in HandledAt(x) : a < b
      BY <1>2, <3>1, <3>2 DEF HandledInSourceOrder
    <3>5. ast[x].type = "NONE" => ast'[x].type = "NONE"
      BY <1>1, <3>1
    <3>6. QED
      BY <3>3, <3>4, <3>5
  <2>3. QED
    BY <2>1, <2>2
<1> DEFINE Handled(n) == {k \in DOMAIN reported : reported[k][1] = n}
<1>3. \A n \in DOMAIN ast' : \A i, j \in DOMAIN ast'[n].nodes :
        i < j /\ ast'[n].nodes[i] # ast'[n].nodes[j] =>
          /\ \A p \in DOMAIN tree_traversing_deque :
               tree_traversing_deque[p].node = ast'[n].nodes[j] =>
                 \/ Handled(ast'[n].nodes[i]) # {}
                 \/ \E q \in DOMAIN tree_traversing_deque :
                       q > p /\ tree_traversing_deque[q].node = ast'[n].nodes[i]
          /\ \A b \in Handled(ast'[n].nodes[j]) :
               \/ ast'[ast'[n].nodes[i]].type = "NONE"
               \/ \E a \in Handled(ast'[n].nodes[i]) : a < b
  <2>1. \A n : HandledAt(n) = Handled(n)
    BY DEF HandledAt
  <2> HIDE DEF Handled
  <2>2. \A n \in DOMAIN ast' : \A i, j \in DOMAIN ast'[n].nodes : \A x, y :
        x = ast'[n].nodes[i] /\ y = ast'[n].nodes[j] /\ i < j /\ x # y =>
          /\ \A p \in DOMAIN tree_traversing_deque :
               tree_traversing_deque[p].node = y =>
                 \/ Handled(x) # {}
                 \/ \E q \in DOMAIN tree_traversing_deque :
                       q > p /\ tree_traversing_deque[q].node = x
          /\ \A b \in Handled(y) :
               \/ ast'[x].type = "NONE"
               \/ \E a \in Handled(x) : a < b
    BY <1>2, <2>1
  <2>3. QED
    BY <2>2
<1>4. OrderInv'
  BY <1>1, <1>3 DEF OrderInv, HandledAt
<1>5. HandledInSourceOrder'
  <2>1. SUFFICES ASSUME NEW n \in DOMAIN ast',
                        NEW i \in DOMAIN ast'[n].nodes, NEW j \in DOMAIN ast'[n].nodes,
                        i < j, ast'[n].nodes[i] # ast'[n].nodes[j],
                        NEW b \in Handled(ast'[n].nodes[j])
                 PROVE  \/ ast'[ast'[n].nodes[i]].type = "NONE"
                        \/ \E a \in Handled(ast'[n].nodes[i]) : a < b
    BY <1>1, SMTT(30) DEF HandledInSourceOrder, HandledAt
  <2> HIDE DEF Handled
  <2>2. QED
    BY <1>3, <2>1
<1>6. QED
  BY <1>4, <1>5

LEMMA DiscoveredCount ==
  ASSUME TypeOK, TreeInv, TraversalInv, ReportInv, CountInv, NEW t, Discovered(t)
  PROVE  CountInv'
<1>1. /\ tree_traversing_deque' = tree_traversing_deque /\ reported' = reported
      /\ ast[t].type = "unknown" /\ t \in DOMAIN ast /\ t \in Nat \ {0}
      /\ \A x \in DOMAIN ast : x # t => ast'[x] = ast[x]
      /\ ast' \in Seq(Node)
  BY DEF Discovered, TypeOK
<1> DEFINE Handled(n) == {k \in DOMAIN reported : reported[k][1] = n}
           Pending(n) == {k \in DOMAIN tree_traversing_deque : tree_traversing_deque[k].node = n}
           Listed(n, c) == {j \in DOMAIN ast'[n].nodes : ast'[n].nodes[j] = c}
           RejectedNext(n) == /\ ast'[n].type = "FUNCTION_DEFINITION"
                              /\ \E k \in Handled(n) : reported[k][2] \in {"ERROR_SYNTAX", "ERROR_SEM"}
<1>2. \A n : Handled(n) = HandledAt(n) /\ Pending(n) = PendingAt(n)
  BY DEF HandledAt, PendingAt
<1>3. ASSUME NEW n \in DOMAIN ast', NEW i \in DOMAIN ast'[n].nodes, NEW c, c = ast'[n].nodes[i]
      PROVE  \/ ast'[c].type = "NONE"
             \/ RejectedNext(n)
             \/ Cardinality(Handled(c)) + Cardinality(Pending(c))
                  = Cardinality(Handled(n)) * Cardinality(Listed(n, c))
  <2>1. CASE n = t
    <3>1. c \in Nat \ {0} /\ c \notin DOMAIN ast
      BY <1>3, <2>1, DiscoveredChild
    <3>2. Handled(c) = {} /\ Pending(c) = {} /\ Handled(n) = {}
      <4>1. HandledAt(c) = {} /\ PendingAt(c) = {}
        BY <3>1, Untouched
      <4>2. HandledAt(t) = {}
        BY <1>1, Untouched DEF Known
      <4> HIDE DEF Handled, Pending
      <4>3. QED
        BY <1>2, <2>1, <4>1, <4>2
    <3>3. Cardinality(Listed(n, c)) \in Nat
      <4>1. n \in 1..Len(ast')
        BY <1>1
      <4>2. ast'[n].nodes \in Seq(Nat \ {0})
        BY <1>1, <4>1, NodesTyped
      <4>3. DOMAIN ast'[n].nodes = 1..Len(ast'[n].nodes) /\ Len(ast'[n].nodes) \in Nat
        BY <4>2
      <4>4. IsFiniteSet(1..Len(ast'[n].nodes))
        BY <4>3, FS_Interval
      <4>5. Listed(n, c) \in SUBSET (1..Len(ast'[n].nodes))
        BY <4>3
      <4> HIDE DEF Listed
      <4>6. IsFiniteSet(Listed(n, c))
        BY <4>4, <4>5, FS_Subset
      <4>7. QED
        BY <4>6, FS_CardinalityType
    <3>4. Cardinality({}) = 0
      BY FS_EmptySet
    <3>5. \A l \in Nat : 0 + 0 = 0 * l
      OBVIOUS
    <3> HIDE DEF Handled, Pending, Listed, RejectedNext
    <3>6. QED
      BY <3>2, <3>3, <3>4, <3>5
  <2>2. CASE n # t
    <3>1. ast'[n] = ast[n] /\ n \in DOMAIN ast /\ c \in DOMAIN ast /\ i \in DOMAIN ast[n].nodes
          /\ c = ast[n].nodes[i]
      BY <1>3, <2>2, DiscoveredChild
    <3>2. Listed(n, c) = ListedAt(n, c) /\ (Rejected(n) => RejectedNext(n))
      BY <1>2, <3>1 DEF ListedAt, Rejected
    <3>3. ast[c].type = "NONE" => ast'[c].type = "NONE"
      BY <1>1, <3>1
    <3>4. \/ ast[c].type = "NONE"
          \/ Rejected(n)
          \/ Cardinality(HandledAt(c)) + Cardinality(PendingAt(c))
               = Cardinality(HandledAt(n)) * Cardinality(ListedAt(n, c))
      BY <3>1 DEF CountInv
    <3> HIDE DEF Handled, Pending, Listed, RejectedNext
    <3>5. QED
      BY <1>2, <3>2, <3>3, <3>4
  <2>3. QED
    BY <2>1, <2>2
<1>4. \A n \in DOMAIN ast' : \A i \in DOMAIN ast'[n].nodes :
        \/ ast'[ast'[n].nodes[i]].type = "NONE"
        \/ RejectedNext(n)
        \/ Cardinality(Handled(ast'[n].nodes[i])) + Cardinality(Pending(ast'[n].nodes[i]))
             = Cardinality(Handled(n)) * Cardinality(Listed(n, ast'[n].nodes[i]))
  <2> HIDE DEF Handled, Pending, Listed, RejectedNext
  <2>1. \A n \in DOMAIN ast' : \A i \in DOMAIN ast'[n].nodes : \A c : c = ast'[n].nodes[i] =>
          \/ ast'[c].type = "NONE"
          \/ RejectedNext(n)
          \/ Cardinality(Handled(c)) + Cardinality(Pending(c))
               = Cardinality(Handled(n)) * Cardinality(Listed(n, c))
    BY <1>3
  <2>2. QED
    BY <2>1
<1> DEFINE HandledNext(n) == {k \in DOMAIN reported' : reported'[k][1] = n}
           PendingNext(n) == {k \in DOMAIN tree_traversing_deque' : tree_traversing_deque'[k].node = n}
           RejectedThen(n) == /\ ast'[n].type = "FUNCTION_DEFINITION"
                              /\ \E k \in HandledNext(n) : reported'[k][2] \in {"ERROR_SYNTAX", "ERROR_SEM"}
<1>5. \A n \in DOMAIN ast' : \A i \in DOMAIN ast'[n].nodes :
        \/ ast'[ast'[n].nodes[i]].type = "NONE"
        \/ RejectedThen(n)
        \/ Cardinality(HandledNext(ast'[n].nodes[i])) + Cardinality(PendingNext(ast'[n].nodes[i]))
             = Cardinality(HandledNext(n)) * Cardinality(Listed(n, ast'[n].nodes[i]))
  <2>1. \A n : HandledNext(n) = Handled(n) /\ PendingNext(n) = Pending(n)
               /\ RejectedThen(n) = RejectedNext(n)
    BY <1>1
  <2> HIDE DEF Handled, Pending, Listed, RejectedNext, HandledNext, PendingNext, RejectedThen
  <2>2. QED
    BY <1>4, <2>1
<1>6. QED
  BY <1>5, Zenon DEF CountInv, Rejected, HandledAt, PendingAt, ListedAt

LEMMA RevealKeeps ==
  ASSUME Inv, Reveal
  PROVE  Inv'
<1> DEFINE t == Top.node
<1>1. TypeOK /\ TreeInv /\ TraversalInv /\ ReportInv /\ HandledInv /\ OrderInv
      /\ HandledInSourceOrder /\ CountInv /\ ScopeInv /\ NamesInFunctionScopes /\ SafeInv
  BY DEF Inv
<1>2. Discovered(t)
  BY <1>1, RevealDiscovers
<1> HIDE DEF t
<1>3. /\ ast' \in Seq(Node) /\ TreeInv' /\ DOMAIN ast \subseteq DOMAIN ast'
      /\ UNCHANGED <<tree_traversing_deque, current_scope, status, reported, doubleFree, pc>>
      /\ pc = "analysis" /\ ast[t].type = "unknown"
      /\ \A x \in DOMAIN ast : x # t => ast'[x] = ast[x]
  BY <1>2 DEF Discovered
<1>4. TypeOK'
  BY <1>1, <1>3 DEF TypeOK
<1>5. TraversalInv' /\ ReportInv' /\ HandledInv' /\ CountInv' /\ OrderInv' /\ HandledInSourceOrder'
  BY <1>1, <1>2, DiscoveredTraversal, DiscoveredReport, DiscoveredHandled, DiscoveredCount,
     DiscoveredOrder
<1>6. ScopeInv'
  BY <1>1, <1>3 DEF ScopeInv
<1>7. NamesInFunctionScopes'
  BY <1>1, <1>3 DEF ScopeInv, NamesInFunctionScopes
<1>8. SafeInv'
  <2>1. NoDefinitions' => NoDefinitions
    BY <1>3 DEF NoDefinitions, Definition
  <2>2. QED
    BY <1>1, <1>3, <2>1 DEF SafeInv
<1>9. BubblesUp'
  BY <1>3 DEF BubblesUp
<1>10. QED
  BY <1>3, <1>4, <1>5, <1>6, <1>7, <1>8, <1>9 DEF Inv

\* Most of the invariant is about the tree, the deque and the history alone.
LEMMA TreeKept ==
  ASSUME Inv, UNCHANGED <<ast, tree_traversing_deque, status, reported>>
  PROVE  /\ TreeInv' /\ ReportInv' /\ HandledInv' /\ HandledInSourceOrder' /\ OrderInv' /\ CountInv'
         /\ (NoDefinitions' <=> NoDefinitions)
<1>1. /\ ast' = ast /\ tree_traversing_deque' = tree_traversing_deque
      /\ status' = status /\ reported' = reported
  OBVIOUS
<1>2. TreeInv'
  BY <1>1, SameTree DEF Inv
<1>3. ReportInv'
  BY <1>1 DEF Inv, ReportInv, Known, Misplaced, NotImplemented, Encloses
<1>4. HandledInv'
  BY <1>1 DEF Inv, HandledInv, HandledAt, Known, Top
<1>5. HandledInSourceOrder'
  BY <1>1 DEF Inv, HandledInSourceOrder, HandledAt
<1>6. OrderInv'
  BY <1>1 DEF Inv, OrderInv, HandledAt
<1>7. CountInv'
  BY <1>1 DEF Inv, CountInv, Rejected, HandledAt, PendingAt, ListedAt
<1>8. NoDefinitions' <=> NoDefinitions
  BY <1>1 DEF NoDefinitions
<1>9. QED
  BY <1>2, <1>3, <1>4, <1>5, <1>6, <1>7, <1>8

\* The process ends inside a handler.
LEMMA StopKeeps ==
  ASSUME Inv, NEW how \in {"crashed", "aborted"}, Stop(how),
         NoDefinitions => how = "crashed" /\ tree_traversing_deque = <<>>
                          /\ \E n \in DOMAIN ast : ElseIsBody(n),
         how = "aborted" => tree_traversing_deque # <<>>
                            /\ ast[Top.node].type = "FUNCTION_DEFINITION"
  PROVE  Inv'
<1>1. /\ pc' = how /\ ast' = ast /\ tree_traversing_deque' = tree_traversing_deque
      /\ current_scope' = current_scope /\ status' = status /\ reported' = reported
      /\ doubleFree' = doubleFree
  BY DEF Stop
<1>2. /\ TreeInv' /\ ReportInv' /\ HandledInv' /\ HandledInSourceOrder' /\ OrderInv' /\ CountInv'
      /\ (NoDefinitions' <=> NoDefinitions)
  BY <1>1, TreeKept
<1>3. TypeOK'
  BY <1>1 DEF Inv, TypeOK
<1>4. TraversalInv'
  BY <1>1 DEF Inv, TraversalInv, ItemInv, IsNode
<1>5. ScopeInv' /\ NamesInFunctionScopes'
  BY <1>1 DEF Inv, ScopeInv, NamesInFunctionScopes
<1>6. SafeInv'
  BY <1>1, <1>2 DEF Inv, SafeInv, ElseIsBody
<1>7. BubblesUp'
  BY <1>1 DEF Inv, BubblesUp, Top
<1>8. QED
  BY <1>2, <1>3, <1>4, <1>5, <1>6, <1>7 DEF Inv

LEMMA BodyAssertionKeeps ==
  ASSUME Inv, BodyAssertion
  PROVE  Inv'
<1>1. /\ Stop("aborted") /\ tree_traversing_deque # <<>>
      /\ pc = "analysis" /\ IsNode(Top) /\ ast[Top.node].type = "FUNCTION_DEFINITION"
  BY DEF BodyAssertion, Handle
<1>2. Top.node \in DOMAIN ast
  BY <1>1, AtTop DEF Inv
<1>3. ~NoDefinitions
  BY <1>1, <1>2 DEF NoDefinitions, Definition
<1>4. QED
  BY <1>1, <1>3, StopKeeps

LEMMA NullPointerKeeps ==
  ASSUME Inv, NullPointer
  PROVE  Inv'
<1>1. /\ Stop("crashed") /\ tree_traversing_deque # <<>>
      /\ pc = "analysis" /\ IsNode(Top)
      /\ ast[Top.node].type \in {"FUNCTION_DEFINITION", "ASSIGN", "NULL"}
  BY DEF NullPointer, Handle
<1>2. Top.node \in DOMAIN ast
  BY <1>1, AtTop DEF Inv
<1>3. ~NoDefinitions
  BY <1>1, <1>2 DEF NoDefinitions, Definition
<1>4. QED
  BY <1>1, <1>3, StopKeeps

LEMMA TableFreedTwiceKeeps ==
  ASSUME Inv, TableFreedTwice
  PROVE  Inv'
<1>1. Stop("crashed") /\ current_scope # <<>> /\ Last(current_scope).local_table # <<>>
  BY DEF TableFreedTwice
<1>2. Len(current_scope) \in DOMAIN current_scope /\ Last(current_scope) = current_scope[Len(current_scope)]
  <2>1. current_scope \in Seq(Scope)
    BY DEF Inv, TypeOK
  <2>2. /\ DOMAIN current_scope = 1..Len(current_scope) /\ Len(current_scope) \in Nat \ {0}
        /\ Last(current_scope) = current_scope[Len(current_scope)]
    BY <1>1, <2>1, FrontAndLast
  <2>3. QED
    BY <2>2
<1>3. ~NoDefinitions
  BY <1>1, <1>2 DEF Inv, SafeInv
<1>4. QED
  BY <1>1, <1>3, StopKeeps

\* Only a while lists a child twice.
LEMMA ListedTwice ==
  ASSUME TypeOK, TreeInv, NEW n \in DOMAIN ast, ~IsInjective(ast[n].nodes)
  PROVE  ElseIsBody(n)
<1>1. PICK i \in DOMAIN ast[n].nodes, j \in DOMAIN ast[n].nodes :
        ast[n].nodes[i] = ast[n].nodes[j] /\ i # j
  BY DEF IsInjective
<1>2. ast[n].nodes \in Seq(Nat \ {0})
  BY NodesTyped DEF TypeOK
<1>3. i \in Nat /\ j \in Nat
  BY <1>2
<1>4. i < j \/ j < i
  BY <1>1, <1>3
<1>5. ast[n].type = "WHILE"
  BY <1>1, <1>4 DEF TreeInv, ChildrenInv
<1>6. QED
  BY <1>5 DEF ElseIsBody

LEMMA DeletionFacts ==
  ASSUME Inv, pc = "done"
  PROVE  /\ tree_traversing_deque = <<>>
         /\ NoDefinitions => ~doubleFree
         /\ NoDefinitions /\ DeletedTwice => \E n \in DOMAIN ast : ElseIsBody(n)
<1>1. tree_traversing_deque = <<>> /\ (NoDefinitions => ~doubleFree)
  BY DEF Inv, TraversalInv, SafeInv
<1>2. ASSUME NoDefinitions, DeletedTwice
      PROVE  \E n \in DOMAIN ast : ElseIsBody(n)
  <2>1. PICK n \in DOMAIN ast : ~IsInjective(ast[n].nodes)
    BY <1>1, <1>2 DEF DeletedTwice
  <2>2. ElseIsBody(n)
    BY <2>1, ListedTwice DEF Inv
  <2>3. QED
    BY <2>2
<1>3. QED
  BY <1>1, <1>2

LEMMA DeletionCrashesKeeps ==
  ASSUME Inv, DeletionCrashes
  PROVE  Inv'
<1>1. Stop("crashed") /\ pc = "done" /\ DeletedTwice
  BY DEF DeletionCrashes
<1>2. /\ tree_traversing_deque = <<>>
      /\ NoDefinitions /\ DeletedTwice => \E n \in DOMAIN ast : ElseIsBody(n)
  BY <1>1, DeletionFacts
<1>3. QED
  BY <1>1, <1>2, StopKeeps

LEMMA MainReturnsKeeps ==
  ASSUME Inv, MainReturns
  PROVE  Inv'
<1>1. /\ pc = "done" /\ pc' = "exited" /\ ast' = ast
      /\ tree_traversing_deque' = tree_traversing_deque
      /\ current_scope' = current_scope /\ status' = status /\ reported' = reported
      /\ doubleFree' = IF status = "ERROR_OK" THEN doubleFree ELSE DeletedTwice
  BY DEF MainReturns
<1>2. /\ TreeInv' /\ ReportInv' /\ HandledInv' /\ HandledInSourceOrder' /\ OrderInv' /\ CountInv'
      /\ (NoDefinitions' <=> NoDefinitions)
  BY <1>1, TreeKept
<1>3. /\ tree_traversing_deque = <<>>
      /\ NoDefinitions => ~doubleFree
      /\ NoDefinitions /\ DeletedTwice => \E n \in DOMAIN ast : ElseIsBody(n)
  BY <1>1, DeletionFacts
<1>4. TypeOK'
  <2>1. DeletedTwice \in BOOLEAN
    BY DEF Inv, TypeOK, DeletedTwice
  <2>2. doubleFree' \in BOOLEAN
    BY <1>1, <2>1 DEF Inv, TypeOK
  <2>3. QED
    BY <1>1, <2>2 DEF Inv, TypeOK
<1>5. TraversalInv'
  BY <1>1, <1>3 DEF TraversalInv
<1>6. ScopeInv' /\ NamesInFunctionScopes'
  BY <1>1 DEF Inv, ScopeInv, NamesInFunctionScopes
<1>7. SafeInv'
  <2>1. NoDefinitions /\ doubleFree' => \E n \in DOMAIN ast : ElseIsBody(n)
    BY <1>1, <1>3
  <2>2. QED
    BY <1>1, <1>2, <1>3, <2>1 DEF Inv, SafeInv, ElseIsBody
<1>8. BubblesUp'
  BY <1>1 DEF BubblesUp
<1>9. QED
  BY <1>2, <1>4, <1>5, <1>6, <1>7, <1>8 DEF Inv

\* At the end of the loop the root scope alone is open: the assertion holds.
LEMMA FinishKeeps ==
  ASSUME Inv, Finish
  PROVE  Inv'
<1>1. /\ pc = "analysis" /\ tree_traversing_deque = <<>> /\ ast' = ast
      /\ tree_traversing_deque' = tree_traversing_deque
      /\ status' = status /\ reported' = reported
  BY DEF Finish
<1>2. ChainOK(current_scope)
  BY ChainFromInv DEF Inv
<1>3. current_scope # <<>> /\ Last(current_scope).root = 1
  <2>1. Roots = <<1>>
    BY <1>1 DEF Inv, TraversalInv, Link
  <2>2. /\ Len(Roots) = Len(current_scope) /\ DOMAIN current_scope = 1..Len(current_scope)
        /\ \A i \in DOMAIN current_scope : Roots[i] = current_scope[i].root
    BY RootsFacts DEF Inv
  <2>3. Len(<<1>>) = 1 /\ <<1>>[1] = 1 /\ 1 \in 1..1
    OBVIOUS
  <2>4. Len(current_scope) = 1
    BY <2>1, <2>2, <2>3
  <2>5. current_scope[1].root = 1
    BY <2>1, <2>2, <2>3, <2>4
  <2>6. Last(current_scope) = current_scope[1]
    BY <2>4 DEF Last
  <2>7. current_scope # <<>>
    BY <2>4
  <2>8. QED
    BY <2>5, <2>6, <2>7
<1>4. /\ pc' = "done" /\ current_scope' = Front(current_scope)
      /\ doubleFree' = (doubleFree \/ Last(current_scope).local_table # <<>>)
  BY <1>3 DEF Finish
<1>5. /\ ChainOK(current_scope')
      /\ EmptyTables(current_scope) =>
            EmptyTables(current_scope') /\ Last(current_scope).local_table = <<>>
  BY <1>2, <1>3, <1>4, CloseScope
<1>6. /\ TreeInv' /\ ReportInv' /\ HandledInv' /\ HandledInSourceOrder' /\ OrderInv' /\ CountInv'
      /\ (NoDefinitions' <=> NoDefinitions)
  BY <1>1, TreeKept
<1>7. TypeOK'
  BY <1>1, <1>4, <1>5 DEF Inv, TypeOK, ChainOK
<1>8. TraversalInv'
  BY <1>1, <1>4 DEF TraversalInv
<1>9. ScopeInv' /\ NamesInFunctionScopes'
  BY <1>1, <1>5 DEF ScopeInv, NamesInFunctionScopes, ChainOK
<1>10. SafeInv'
  <2>1. NoDefinitions => EmptyTables(current_scope) /\ ~doubleFree
    BY <1>1 DEF Inv, SafeInv, EmptyTables
  <2>2. NoDefinitions => EmptyTables(current_scope') /\ ~doubleFree'
    BY <1>4, <1>5, <2>1
  <2>3. QED
    BY <1>4, <1>6, <2>2 DEF SafeInv, EmptyTables
<1>11. BubblesUp'
  BY <1>4 DEF BubblesUp
<1>12. QED
  BY <1>6, <1>7, <1>8, <1>9, <1>10, <1>11 DEF Inv

LEMMA StutterKeeps ==
  ASSUME Inv, UNCHANGED vars
  PROVE  Inv'
<1>1. /\ ast' = ast /\ tree_traversing_deque' = tree_traversing_deque
      /\ current_scope' = current_scope /\ status' = status /\ reported' = reported
      /\ doubleFree' = doubleFree /\ pc' = pc
  BY DEF vars
<1>2. /\ TreeInv' /\ ReportInv' /\ HandledInv' /\ HandledInSourceOrder' /\ OrderInv' /\ CountInv'
      /\ (NoDefinitions' <=> NoDefinitions)
  BY <1>1, TreeKept
<1>3. TypeOK'
  BY <1>1 DEF Inv, TypeOK
<1>4. TraversalInv'
  BY <1>1 DEF Inv, TraversalInv, ItemInv, IsNode, Link, After, Roots
<1>5. ScopeInv' /\ NamesInFunctionScopes'
  BY <1>1 DEF Inv, ScopeInv, NamesInFunctionScopes
<1>6. SafeInv'
  BY <1>1, <1>2 DEF Inv, SafeInv, ElseIsBody
<1>7. BubblesUp'
  BY <1>1 DEF Inv, BubblesUp, Top
<1>8. QED
  BY <1>2, <1>3, <1>4, <1>5, <1>6, <1>7 DEF Inv

LEMMA InitHolds ==
  ASSUME Init
  PROVE  Inv
<1> DEFINE root == [type |-> "unknown", place |-> "root", nodes |-> <<>>, within |-> <<1>>]
           item == [node |-> 1, within |-> <<1>>]
           scope == NewScope(1)
<1>1. /\ ast = <<root>> /\ tree_traversing_deque = <<item>> /\ current_scope = <<scope>>
      /\ status = "ERROR_OK" /\ reported = <<>> /\ doubleFree = FALSE /\ pc = "analysis"
  BY DEF Init
<1>2. /\ <<1>> \in Seq(Nat) /\ Len(<<1>>) = 1 /\ <<1>>[1] = 1 /\ DOMAIN <<1>> = {1} /\ <<1>> # <<>>
  BY OneItem
<1>3. /\ root \in Node /\ root.type = "unknown" /\ root.place = "root" /\ root.nodes = <<>>
      /\ root.within = <<1>>
  <2>1. <<>> \in Seq(Nat \ {0})
    OBVIOUS
  <2>2. QED
    BY <1>2, <2>1 DEF Node, NodeType, Places
<1>4. item \in Item /\ item.node = 1 /\ item.within = <<1>>
  BY <1>2 DEF Item
<1>5. scope \in Scope /\ scope.root = 1 /\ scope.local_table = <<>>
  <2>1. <<>> \in Seq({"ID", "FUNCTION_DEFINITION"})
    OBVIOUS
  <2>2. QED
    BY <2>1 DEF NewScope, Scope
<1> HIDE DEF root, item, scope
<1>6. /\ ast \in Seq(Node) /\ DOMAIN ast = {1} /\ ast[1] = root
      /\ tree_traversing_deque \in Seq(Item) /\ Len(tree_traversing_deque) = 1
      /\ DOMAIN tree_traversing_deque = {1}
      /\ tree_traversing_deque[1] = item /\ tree_traversing_deque # <<>>
      /\ current_scope \in Seq(Scope) /\ DOMAIN current_scope = {1} /\ current_scope[1] = scope
  BY <1>1, <1>3, <1>4, <1>5, OneItem
<1>7. reported = <<>> /\ DOMAIN reported = {} /\ reported \in Seq(Nat \X Codes)
  BY <1>1
<1>8. TypeOK
  BY <1>1, <1>6, <1>7 DEF TypeOK, Codes
<1>9. ast[1].nodes = <<>> /\ DOMAIN ast[1].nodes = {} /\ Len(ast[1].nodes) = 0
  BY <1>3, <1>6
<1>10. TreeInv
  <2>1. NodeInv(1)
    <3>1. Len(ast[1].nodes) \in Arities(ast[1].type)
      BY <1>3, <1>6, <1>9 DEF Arities
    <3>2. QED
      BY <1>2, <1>3, <1>6, <3>1 DEF NodeInv
  <2>2. ChildrenInv(1)
    BY <1>9 DEF ChildrenInv
  <2>3. OneParent
    BY <1>6 DEF OneParent
  <2>4. QED
    BY <1>3, <1>6, <2>1, <2>2, <2>3 DEF TreeInv
<1>11. TraversalInv
  <2>1. ItemInv(tree_traversing_deque[1])
    BY <1>2, <1>3, <1>4, <1>6 DEF ItemInv
  <2>2. Roots = <<1>>
    <3>1. Roots \in Seq(Nat) /\ Len(Roots) = Len(current_scope)
          /\ \A i \in DOMAIN current_scope : Roots[i] = current_scope[i].root
      BY <1>8, RootsFacts
    <3>2. Len(current_scope) = 1
      BY <1>1
    <3>3. Roots[1] = 1
      BY <1>5, <1>6, <3>1
    <3>4. \A i \in 1..1 : Roots[i] = <<1>>[i]
      BY <1>2, <3>3
    <3>5. QED
      BY <1>2, <3>1, <3>2, <3>4, SeqEqual
  <2>3. Last(tree_traversing_deque) = item
    BY <1>6 DEF Last
  <2>4. After(item) = <<1>>
    BY <1>4 DEF After, IsNode
  <2>5. 1..(Len(tree_traversing_deque) - 1) = {}
    BY <1>6
  <2>6. Link(tree_traversing_deque, Roots, <<1>>)
    BY <1>4, <1>6, <2>2, <2>3, <2>4, <2>5 DEF Link
  <2>7. QED
    BY <1>1, <1>6, <2>1, <2>6 DEF TraversalInv
<1>12. ReportInv
  BY <1>1, <1>7 DEF ReportInv, Bad
<1>13. HandledInv
  BY <1>3, <1>6 DEF HandledInv, Known
<1>14. HandledInSourceOrder /\ OrderInv /\ CountInv
  BY <1>6, <1>9 DEF HandledInSourceOrder, OrderInv, CountInv
<1>15. ScopeInv /\ NamesInFunctionScopes
  <2>1. "FUNCTION_DEFINITION" \notin Range(<<>>)
    BY DEF Range
  <2>2. QED
    BY <1>5, <1>6, <2>1 DEF ScopeInv, NamesInFunctionScopes
<1>16. SafeInv
  BY <1>1, <1>5, <1>6 DEF SafeInv
<1>17. BubblesUp
  BY <1>1 DEF BubblesUp
<1>18. QED
  BY <1>8, <1>10, <1>11, <1>12, <1>13, <1>14, <1>15, <1>16, <1>17 DEF Inv

LEMMA NextKeeps ==
  ASSUME Inv, [Next]_vars
  PROVE  Inv'
<1>1. /\ TypeOK /\ TreeInv /\ TraversalInv /\ ChainOK(current_scope)
  BY ChainFromInv DEF Inv
<1>2. CASE Reveal
  BY <1>2, RevealKeeps
<1>3. CASE LeaveScope
  BY <1>1, <1>3, LeaveHandled, HandlerKeeps
<1>4. CASE Pass
  BY <1>1, <1>4, PassHandled, HandlerKeeps
<1>5. CASE Unsupported
  BY <1>1, <1>5, UnsupportedHandled, HandlerKeeps
<1>6. CASE HandleReturn
  BY <1>1, <1>6, ReturnHandled, HandlerKeeps
<1>7. CASE HandleBreakContinue
  BY <1>1, <1>7, BreakContinueHandled, HandlerKeeps
<1>8. CASE HandleConsequent
  BY <1>1, <1>8, ConsequentHandled, HandlerKeeps
<1>9. CASE HandleWhile
  BY <1>1, <1>9, WhileHandled, HandlerKeeps
<1>10. CASE HandleIf
  BY <1>1, <1>10, IfHandled, HandlerKeeps
<1>11. CASE HandleElse
  BY <1>1, <1>11, ElseHandled, HandlerKeeps
<1>12. CASE DefineVariable
  BY <1>1, <1>12, DefineVariableHandled, HandlerKeeps
<1>13. CASE AssignAgain
  BY <1>1, <1>13, AssignAgainHandled, HandlerKeeps
<1>14. CASE NestedFunction
  BY <1>1, <1>14, NestedFunctionHandled, HandlerKeeps
<1>15. CASE RedefinedFunction
  BY <1>1, <1>15, RedefinedFunctionHandled, HandlerKeeps
<1>16. CASE NewFunction
  BY <1>1, <1>16, NewFunctionHandled, HandlerKeeps
<1>17. CASE BodyAssertion
  BY <1>17, BodyAssertionKeeps
<1>18. CASE NullPointer
  BY <1>18, NullPointerKeeps
<1>19. CASE TableFreedTwice
  BY <1>19, TableFreedTwiceKeeps
<1>20. CASE Finish
  BY <1>20, FinishKeeps
<1>21. CASE MainReturns
  BY <1>21, MainReturnsKeeps
<1>22. CASE DeletionCrashes
  BY <1>22, DeletionCrashesKeeps
<1>23. CASE Stopped \/ UNCHANGED vars
  BY <1>23, StutterKeeps DEF Stopped
<1>24. QED
  BY <1>2, <1>3, <1>4, <1>5, <1>6, <1>7, <1>8, <1>9, <1>10, <1>11, <1>12, <1>13, <1>14,
     <1>15, <1>16, <1>17, <1>18, <1>19, <1>20, <1>21, <1>22, <1>23 DEF Next, Step
-----------------------------------------------------------------------------
(* The theorems *)

LEMMA InvFollows ==
  ASSUME Inv
  PROVE  ScopesFollowTree /\ SafeWithoutDefinitions
<1>1. ScopesFollowTree
  BY DEF Inv, TraversalInv, Link, ScopesFollowTree
<1>2. SafeWithoutDefinitions
  BY DEF Inv, SafeInv, NoDefinitions, SafeWithoutDefinitions
<1>3. QED
  BY <1>1, <1>2

LEMMA InvVerdict ==
  ASSUME Inv
  PROVE  VerdictIsLexical
<1>1. ASSUME NEW k \in DOMAIN reported, reported[k][1] # 0
      PROVE  reported[k][2] \in Bad
               <=> Misplaced(reported[k][1]) \/ NotImplemented(reported[k][1])
  BY <1>1 DEF Inv, ReportInv
<1> SUFFICES ASSUME pc = "done"
             PROVE  status \in Bad <=>
                      \E n \in DOMAIN ast : Known(n) /\ (Misplaced(n) \/ NotImplemented(n))
  BY <1>1 DEF VerdictIsLexical, Known, Bad
<1>2. /\ tree_traversing_deque = <<>>
      /\ status \in Bad <=> \E k \in DOMAIN reported : reported[k][2] \in Bad
      /\ ReportInv /\ HandledInv /\ TypeOK
  BY DEF Inv, TraversalInv, ReportInv
<1>3. ASSUME NEW k \in DOMAIN reported, reported[k][2] \in Bad
      PROVE  \E n \in DOMAIN ast : Known(n) /\ (Misplaced(n) \/ NotImplemented(n))
  <2>1. reported[k][2] # "ERROR_OK"
    BY <1>3 DEF Bad
  <2>2. LET n == reported[k][1]
        IN n \in DOMAIN ast /\ Known(n) /\ (Misplaced(n) \/ NotImplemented(n))
    BY <1>2, <1>3, <2>1 DEF ReportInv
  <2>3. QED
    BY <2>2
<1>4. ASSUME NEW n \in DOMAIN ast, Known(n), Misplaced(n) \/ NotImplemented(n)
      PROVE  \E k \in DOMAIN reported : reported[k][2] \in Bad
  <2>1. ast[n].type # "NONE"
    BY <1>4 DEF Misplaced, NotImplemented
  <2>2. HandledAt(n) # {}
    BY <1>2, <1>4, <2>1 DEF HandledInv
  <2>3. PICK k \in DOMAIN reported : reported[k][1] = n
    BY <2>2 DEF HandledAt
  <2>4. n # 0
    BY <1>2 DEF TypeOK
  <2>5. reported[k][2] \in Bad
    BY <1>2, <1>4, <2>3, <2>4 DEF ReportInv
  <2>6. QED
    BY <2>5
<1>5. QED
  BY <1>2, <1>3, <1>4

LEMMA InvCounts ==
  ASSUME Inv
  PROVE  EveryNodeHandled
<1> SUFFICES ASSUME pc = "done",
                    NEW n \in DOMAIN ast, NEW i \in DOMAIN ast[n].nodes,
                    NEW c, c = ast[n].nodes[i], ast[c].type # "NONE", ~Rejected(n)
             PROVE  Cardinality(HandledAt(c)) = Cardinality(HandledAt(n)) * Cardinality(ListedAt(n, c))
  BY DEF EveryNodeHandled, Rejected, ListedAt
<1>1. Cardinality(HandledAt(c)) + Cardinality(PendingAt(c))
        = Cardinality(HandledAt(n)) * Cardinality(ListedAt(n, c))
  BY DEF Inv, CountInv
<1>2. tree_traversing_deque = <<>>
  BY DEF Inv, TraversalInv
<1>3. PendingAt(c) = {} /\ Cardinality({}) = 0
  BY <1>2, FS_EmptySet DEF PendingAt
<1>4. Cardinality(HandledAt(c)) \in Nat
  BY FiniteSets DEF Inv
<1>5. QED
  BY <1>1, <1>3, <1>4

\* Inv is inductive: the traversal keeps the tree, the deque, the scopes and the
\* history in step.
THEOREM Invariance == Spec => []Inv
<1>1. Init => Inv
  BY InitHolds
<1>2. Inv /\ [Next]_vars => Inv'
  BY NextKeeps
<1>3. QED
  BY <1>1, <1>2, PTL DEF Spec

\* The fields of scopes, deque items and nodes keep their types.
THEOREM TypeCorrect == Spec => []TypeOK
<1>1. Inv => TypeOK
  BY DEF Inv
<1>2. QED
  BY <1>1, Invariance, PTL

\* Every node is handled in exactly the scopes that enclose it in the tree, and every
\* LEAVE_SCOPE closes the scope it was left for, whatever lies in between.
THEOREM LexicalScopes == Spec => []ScopesFollowTree
<1>1. Inv => ScopesFollowTree
  BY InvFollows
<1>2. QED
  BY <1>1, Invariance, PTL

\* Each node is judged by its place and type alone, and the analysis ends with a syntax
\* or internal error exactly if a node of the tree is misplaced or not implemented: no
\* later status hides the error.
THEOREM LexicalVerdict == Spec => []VerdictIsLexical
<1>1. Inv => VerdictIsLexical
  BY InvVerdict
<1>2. QED
  BY <1>1, Invariance, PTL

\* The children of a node are handled from left to right.
THEOREM SourceOrder == Spec => []HandledInSourceOrder
<1>1. Inv => HandledInSourceOrder
  BY DEF Inv
<1>2. QED
  BY <1>1, Invariance, PTL

\* Once the analysis has ended, each node was handled once for each time it is listed.
THEOREM NothingSkipped == Spec => []EveryNodeHandled
<1>1. Inv => EveryNodeHandled
  BY InvCounts
<1>2. QED
  BY <1>1, Invariance, PTL

\* The scopes of while, if and else never hold a name, that of a function no function.
THEOREM NamesStay == Spec => []NamesInFunctionScopes
<1>1. Inv => NamesInFunctionScopes
  BY DEF Inv
<1>2. QED
  BY <1>1, Invariance, PTL

\* A tree without definitions and NULL children is analysed and deleted safely, unless the
\* else branch of a while is its body.
THEOREM Safe == Spec => []SafeWithoutDefinitions
<1>1. Inv => SafeWithoutDefinitions
  BY InvFollows
<1>2. QED
  BY <1>1, Invariance, PTL

\* The assertion after the loop never fails: the traversal ends in the root scope.
THEOREM BackAtRoot == Spec => []BubblesUp
<1>1. Inv => BubblesUp
  BY DEF Inv
<1>2. QED
  BY <1>1, Invariance, PTL
=============================================================================
