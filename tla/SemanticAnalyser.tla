-------------------------- MODULE SemanticAnalyser --------------------------
(***************************************************************************)
(* semantic_analysis of semantic_analyser.c with the scopes of scope.c: an *)
(* explicit traversal of the AST, on a deque used as a stack, that opens   *)
(* and closes scopes by LEAVE_SCOPE markers left on the deque.             *)
(*                                                                         *)
(* The tree is any tree the constructors of parser.c can build; the shape  *)
(* of a node is chosen when the traversal first looks at it.  "within" is  *)
(* the lexical scope of a node: the nodes whose scopes enclose it by its   *)
(* place in the tree, outermost first.                                     *)
(*                                                                         *)
(* Every caller of hash_map_put frees the key the table keeps, so a lookup *)
(* compares freed strings: in a table with entries it may find any of them *)
(* or none, and a second lookup agrees with the first only if it uses the  *)
(* same copy of the name.  Names therefore do not appear; a table is a     *)
(* sequence of the types of the nodes stored in it.                        *)
(***************************************************************************)
EXTENDS Naturals, FiniteSets, SequencesExt

CONSTANTS
    MaxNodes,       \* a tree grows to this size, then by what its nodes still need
    MaxStatements,  \* bound on the statements of one CONSEQUENT
    MaxParameters   \* bound on the parameters of one function

ASSUME TreeAssumption ==
    /\ MaxNodes \in Nat \ {0}
    /\ MaxStatements \in Nat \ {0}
    /\ MaxParameters \in Nat

VARIABLES
    ast,                    \* nodes of the tree, by number; 1 is the root
    tree_traversing_deque,
    current_scope,          \* the chain of scopes, root scope first
    status,                 \* status of semantic_analysis
    reported,               \* history: the nodes handled, with the codes returned
    doubleFree,             \* a key of a table or a node was freed again
    pc

vars == <<ast, tree_traversing_deque, current_scope, status, reported,
          doubleFree, pc>>

Flow == {"PASS", "BREAK", "CONTINUE", "RETURN"}
Definition == {"FUNCTION_DEFINITION", "ASSIGN"}
Simple == Flow \cup {"EXPRESSION", "FUNCTION_CALL"}
NodeType == Simple \cup Definition \cup
            {"WHILE", "IF", "ELIF", "ELSE", "NONE", "CONSEQUENT", "NULL", "unknown"}

Codes == {"ERROR_OK", "ERROR_SYNTAX", "ERROR_SEM", "ERROR_INTERNAL"}

\* What a node can be, by its place under its parent.
Places == {"root", "block", "simple", "statement", "suite", "expression", "value",
           "none", "elif"}

Node == [type : NodeType, place : Places, nodes : Seq(Nat \ {0}), within : Seq(Nat)]
Item == [node : Nat, within : Seq(Nat)]
Scope == [root : Nat, local_table : Seq({"ID", "FUNCTION_DEFINITION"})]

TypeOK ==
    /\ ast \in Seq(Node)
    /\ tree_traversing_deque \in Seq(Item)
    /\ current_scope \in Seq(Scope)
    /\ status \in Codes
    /\ reported \in Seq(Nat \X Codes)
    /\ doubleFree \in BOOLEAN
    /\ pc \in {"analysis", "done", "exited", "crashed", "aborted"}
-----------------------------------------------------------------------------
(* The tree                                                                *)

Leaves(types) == {[type |-> t, children |-> <<>>] : t \in types}

Nodes(type, children) == {[type |-> type, children |-> c] : c \in children}

\* suite: a CONSEQUENT of statements, or the simple statement as it is.
Block(places) ==
    UNION {Nodes("CONSEQUENT", [1..n -> places]) : n \in 1..MaxStatements}

Bodies == {"block", "simple"}

\* flow_statement: a return has a value or NONE.
ReturnShapes == Nodes("RETURN", {<<"none">>, <<"expression">>})

\* assign_statemnt; the ID is looked at with the assignment itself.
AssignShapes == Nodes("ASSIGN", {<<"value">>})

\* if_and_elif, and the elif that if_statement adds to the one before it.
BranchShapes(type) ==
    Nodes(type, {<<"expression", b>> : b \in Bodies} \cup
                {<<"expression", b, "elif">> : b \in Bodies})

\* if_statement with an else returns the else node alone.
ElseShapes == Nodes("ELSE", {<<b>> : b \in Bodies})

\* while_statement adds the body a second time as its else branch.
WhileShapes ==
    Nodes("WHILE", {<<"expression", b>> : b \in Bodies} \cup
                   {<<"expression", b, "again">> : b \in Bodies})

\* function_def; the parameters are looked at with the definition itself.
FunctionShapes == Nodes("FUNCTION_DEFINITION", {<<b>> : b \in Bodies})

SimpleShapes == Leaves(Simple \ {"RETURN"}) \cup ReturnShapes

StatementShapes ==
    SimpleShapes \cup FunctionShapes \cup AssignShapes \cup BranchShapes("IF")
      \cup ElseShapes \cup WhileShapes

\* Types and children of a node, by place.  A statement of a suite that parse met
\* an error in may be a NULL child.
Shapes(place) ==
    CASE place = "root" -> Block({"statement"}) \cup Leaves({"CONSEQUENT"})
      [] place = "block" -> Block({"suite"})
      [] place = "simple" -> SimpleShapes
      [] place = "statement" -> StatementShapes
      [] place = "suite" -> StatementShapes \cup Leaves({"NULL"})
      [] place = "elif" -> BranchShapes("ELIF")
      [] place = "expression" -> Leaves({"EXPRESSION"})
      [] place = "value" -> Leaves({"EXPRESSION", "FUNCTION_CALL"})

\* The i-th child of a node of this type lies in the scope the node opens: all
\* of a function, a while and an else, the condition and body of an if.
Opens(type, i) ==
    \/ type \in {"FUNCTION_DEFINITION", "WHILE", "ELSE"}
    \/ type \in {"IF", "ELIF"} /\ i <= 2

Top == Last(tree_traversing_deque)

\* The marker LEAVE_SCOPE is item 0.
IsNode(item) == item.node # 0

\* The shape of the next node becomes known, and its children with it.
Reveal ==
    /\ pc = "analysis"
    /\ tree_traversing_deque # <<>>
    /\ IsNode(Top)
    /\ ast[Top.node].type = "unknown"
    /\ \E shape \in Shapes(ast[Top.node].place) :
         LET fresh == IF "again" \in Range(shape.children) THEN Front(shape.children)
                                                           ELSE shape.children
             n == Len(ast)
             within == ast[Top.node].within
             child(i) == [type |-> IF fresh[i] = "none" THEN "NONE" ELSE "unknown",
                          place |-> fresh[i], nodes |-> <<>>,
                          within |-> IF Opens(shape.type, i)
                                     THEN Append(within, Top.node) ELSE within]
         IN /\ \/ n + Len(fresh) <= MaxNodes
               \/ \A other \in Shapes(ast[Top.node].place) :
                    Len(shape.children) <= Len(other.children)
            /\ ast' = [ast EXCEPT
                          ![Top.node].type = shape.type,
                          ![Top.node].nodes =
                             [i \in DOMAIN shape.children |->
                                 n + IF i <= Len(fresh) THEN i ELSE Len(fresh)]]
                      \o [i \in DOMAIN fresh |-> child(i)]
    /\ UNCHANGED <<tree_traversing_deque, current_scope, status, reported,
                   doubleFree, pc>>
-----------------------------------------------------------------------------
(* Scopes and their tables                                                 *)

NewScope(n) == [root |-> n, local_table |-> <<>>]

\* What hash_map_put may make of a table: the stale keys match one entry, whose
\* data is replaced, or none.
Put(table, data) ==
    {Append(table, data)} \cup {[table EXCEPT ![i] = data] : i \in DOMAIN table}

\* Mutant: only the innermost scope is looked at.
find_first_node_type_in_scope_Innermost(chain, type) ==
    IF ast[Last(chain).root].type = type THEN Len(chain) ELSE 0

\* find_first_node_type_in_scope: place in the chain of the innermost scope that
\* a node of this type opened, 0 if there is none.
find_first_node_type_in_scope(chain, type) ==
    LET found == {i \in DOMAIN chain : ast[chain[i].root].type = type}
    IN IF found = {} THEN 0 ELSE CHOOSE i \in found : \A j \in found : j <= i

\* Where find_scope_with_defined_variable may stop, if it does not return NULL.
ScopesWithEntries(chain) == {i \in DOMAIN chain : chain[i].local_table # <<>>}

\* Mutant: the variable goes into the current scope.
VariableScope_Current(chain) == Len(chain)

\* set_variable_in_scope: the function's scope, or the root scope.
VariableScope(chain) ==
    LET function == find_first_node_type_in_scope(chain, "FUNCTION_DEFINITION")
    IN IF function = 0 THEN 1 ELSE function
-----------------------------------------------------------------------------
(* Handlers                                                                *)

\* handle_node is called for a node of one of these types.
Handle(types) ==
    /\ pc = "analysis"
    /\ tree_traversing_deque # <<>>
    /\ IsNode(Top)
    /\ ast[Top.node].type \in types

Children == ast[Top.node].nodes

Child(i) == [node |-> Children[i], within |-> ast[Children[i]].within]

Leave == [node |-> 0, within |-> Append(ast[Top.node].within, Top.node)]

\* A handler returns this code having pushed these items: a syntax or internal
\* error is kept, any other status replaced.
Return(code, pushed) ==
    /\ tree_traversing_deque' = Front(tree_traversing_deque) \o pushed
    /\ status' = IF status \in {"ERROR_SYNTAX", "ERROR_INTERNAL"}
                 THEN status ELSE code
    /\ reported' = Append(reported, <<Top.node, code>>)
    /\ UNCHANGED <<ast, pc>>

\* The process ends inside a handler, at a NULL pointer or an assertion.
Stop(how) ==
    /\ pc' = how
    /\ UNCHANGED <<ast, tree_traversing_deque, current_scope, status, reported,
                   doubleFree>>

\* delete_scope: hash_map_destroy frees the keys, which their callers freed.
LeaveScope ==
    /\ pc = "analysis"
    /\ tree_traversing_deque # <<>>
    /\ ~IsNode(Top)
    /\ doubleFree' = (doubleFree \/ Last(current_scope).local_table # <<>>)
    /\ current_scope' = Front(current_scope)
    /\ Return("ERROR_OK", <<>>)

Pass ==
    /\ Handle({"PASS", "NONE"})
    /\ Return("ERROR_OK", <<>>)
    /\ UNCHANGED <<current_scope, doubleFree>>

\* EXPRESSION, and every type handle_node has no case for.
Unsupported ==
    /\ Handle({"EXPRESSION", "FUNCTION_CALL"})
    /\ Return("ERROR_INTERNAL", <<>>)
    /\ UNCHANGED <<current_scope, doubleFree>>

\* A return belongs into a function; its value is visited unless it is NONE.
HandleReturn ==
    /\ Handle({"RETURN"})
    /\ Return(IF find_first_node_type_in_scope(current_scope, "FUNCTION_DEFINITION") = 0
              THEN "ERROR_SYNTAX" ELSE "ERROR_OK",
              IF ast[Children[1]].type = "NONE" THEN <<>> ELSE <<Child(1)>>)
    /\ UNCHANGED <<current_scope, doubleFree>>

\* Mutant: status is not initialised to ERROR_OK.
HandleBreakContinue_NoStatus ==
    /\ Handle({"BREAK", "CONTINUE"})
    /\ Return(IF find_first_node_type_in_scope(current_scope, "WHILE") = 0
              THEN "ERROR_SYNTAX" ELSE "uninitialised", <<>>)
    /\ UNCHANGED <<current_scope, doubleFree>>

HandleBreakContinue ==
    /\ Handle({"BREAK", "CONTINUE"})
    /\ Return(IF find_first_node_type_in_scope(current_scope, "WHILE") = 0
              THEN "ERROR_SYNTAX" ELSE "ERROR_OK", <<>>)
    /\ UNCHANGED <<current_scope, doubleFree>>

\* Mutant: statements are pushed first to last.
HandleConsequent_Forwards ==
    /\ Handle({"CONSEQUENT"})
    /\ Return("ERROR_OK", [i \in DOMAIN Children |-> Child(i)])
    /\ UNCHANGED <<current_scope, doubleFree>>

\* Statements are pushed last to first.
HandleConsequent ==
    /\ Handle({"CONSEQUENT"})
    /\ Return("ERROR_OK", [i \in DOMAIN Children |-> Child(Len(Children) + 1 - i)])
    /\ UNCHANGED <<current_scope, doubleFree>>

\* Mutant: the else branch is left out.
HandleWhile_NoElse ==
    /\ Handle({"WHILE"})
    /\ Return("ERROR_OK", <<Leave, Child(2), Child(1)>>)
    /\ current_scope' = Append(current_scope, NewScope(Top.node))
    /\ UNCHANGED doubleFree

\* Mutant: the marker is pushed, but no scope is opened.
HandleWhile_NoScope ==
    /\ Handle({"WHILE"})
    /\ Return("ERROR_OK", <<Leave>> \o
              [i \in DOMAIN Children |-> Child(Len(Children) + 1 - i)])
    /\ UNCHANGED <<current_scope, doubleFree>>

\* Condition, body and else branch all run inside the scope of the while.
HandleWhile ==
    /\ Handle({"WHILE"})
    /\ Return("ERROR_OK", <<Leave>> \o
              [i \in DOMAIN Children |-> Child(Len(Children) + 1 - i)])
    /\ current_scope' = Append(current_scope, NewScope(Top.node))
    /\ UNCHANGED doubleFree

\* Mutant: the marker is pushed below the alternate.
HandleIf_MarkerFirst ==
    /\ Handle({"IF", "ELIF"})
    /\ Return("ERROR_OK", <<Leave>> \o
              [i \in DOMAIN Children |-> Child(Len(Children) + 1 - i)])
    /\ current_scope' = Append(current_scope, NewScope(Top.node))
    /\ UNCHANGED doubleFree

\* The alternate is pushed below the marker: it runs outside the if's scope.
HandleIf ==
    /\ Handle({"IF", "ELIF"})
    /\ Return("ERROR_OK", (IF Len(Children) = 3 THEN <<Child(3)>> ELSE <<>>) \o
                          <<Leave, Child(2), Child(1)>>)
    /\ current_scope' = Append(current_scope, NewScope(Top.node))
    /\ UNCHANGED doubleFree

\* Mutant: no marker is pushed.
HandleElse_NoMarker ==
    /\ Handle({"ELSE"})
    /\ Return("ERROR_OK", <<Child(1)>>)
    /\ current_scope' = Append(current_scope, NewScope(Top.node))
    /\ UNCHANGED doubleFree

HandleElse ==
    /\ Handle({"ELSE"})
    /\ Return("ERROR_OK", <<Leave, Child(1)>>)
    /\ current_scope' = Append(current_scope, NewScope(Top.node))
    /\ UNCHANGED doubleFree

\* handle_assign, with a name found in no scope: defined in the function's scope.
DefineVariable ==
    /\ Handle({"ASSIGN"})
    /\ LET scope == VariableScope(current_scope)
       IN \E new \in Put(current_scope[scope].local_table, "ID") :
            current_scope' = [current_scope EXCEPT ![scope].local_table = new]
    /\ Return("ERROR_OK", <<Child(1)>>)
    /\ UNCHANGED doubleFree

\* handle_assign, with a name found: another variable's node is replaced by this
\* one's, a function must not be assigned to.
AssignAgain ==
    /\ Handle({"ASSIGN"})
    /\ \E i \in ScopesWithEntries(current_scope) :
         \E found \in Range(current_scope[i].local_table) :
            Return(IF found = "FUNCTION_DEFINITION" THEN "ERROR_SEM" ELSE "ERROR_OK",
                   <<Child(1)>>)
    /\ UNCHANGED <<current_scope, doubleFree>>

\* handle_fuction_definition, outside the root scope.
NestedFunction ==
    /\ Handle({"FUNCTION_DEFINITION"})
    /\ Len(current_scope) > 1
    /\ Return("ERROR_SYNTAX", <<>>)
    /\ UNCHANGED <<current_scope, doubleFree>>

\* The name is found in the root scope: the function is a redefinition.
RedefinedFunction ==
    /\ Handle({"FUNCTION_DEFINITION"})
    /\ Len(current_scope) = 1
    /\ current_scope[1].local_table # <<>>
    /\ Return("ERROR_SEM", <<>>)
    /\ UNCHANGED <<current_scope, doubleFree>>

\* The tables n parameters may leave, with the code: each one is put unless it is
\* found to be there already.
Parameters(n) ==
    {<<[i \in 1..n |-> "ID"], "ERROR_OK">>} \cup
    {<<[i \in 1..k |-> "ID"], "ERROR_SEM">> : k \in 1..(n - 1)}

\* A new function: its scope with the parameters, its name in the root scope,
\* its body to be visited.
NewFunction ==
    /\ Handle({"FUNCTION_DEFINITION"})
    /\ Len(current_scope) = 1
    /\ ast[Children[1]].place = "block"
    /\ \E n \in 1..MaxParameters, new \in Put(current_scope[1].local_table,
                                              "FUNCTION_DEFINITION") :
         \E parameters \in Parameters(n) :
           /\ current_scope' =
                <<[current_scope[1] EXCEPT !.local_table = new],
                  [root |-> Top.node, local_table |-> parameters[1]]>>
           /\ Return(parameters[2], <<Leave, Child(1)>>)
    /\ UNCHANGED doubleFree

\* assert(body->node_type == CONSEQUENT): a body of one simple statement is not.
BodyAssertion ==
    /\ Handle({"FUNCTION_DEFINITION"})
    /\ Len(current_scope) = 1
    /\ ast[Children[1]].place # "block"
    /\ Stop("aborted")

\* NULL is dereferenced: for a function without parameters, whose list holds one
\* NULL; as the second lookup of a name fails, after the first found it; for a
\* statement of a suite that is NULL.
NullPointer ==
    /\ \/ /\ Handle({"FUNCTION_DEFINITION"})
          /\ Len(current_scope) = 1
          /\ \/ ast[Children[1]].place = "block"
             \/ current_scope[1].local_table # <<>>
       \/ /\ Handle({"ASSIGN"})
          /\ ScopesWithEntries(current_scope) # {}
       \/ Handle({"NULL"})
    /\ Stop("crashed")

\* free meets a key that was freed before; it aborts, unless the heap hides it.
TableFreedTwice ==
    /\ pc = "analysis"
    /\ tree_traversing_deque # <<>> => ~IsNode(Top)
    /\ current_scope # <<>>
    /\ Last(current_scope).local_table # <<>>
    /\ Stop("crashed")

\* The loop ends; the assertion after it, and the deletion of the last scope.
Finish ==
    /\ pc = "analysis"
    /\ tree_traversing_deque = <<>>
    /\ IF current_scope # <<>> /\ Last(current_scope).root = 1
       THEN /\ pc' = "done"
            /\ doubleFree' = (doubleFree \/ Last(current_scope).local_table # <<>>)
            /\ current_scope' = Front(current_scope)
       ELSE pc' = "aborted" /\ UNCHANGED <<doubleFree, current_scope>>
    /\ UNCHANGED <<ast, tree_traversing_deque, status, reported>>

\* ast_delete visits a node once for each time it is listed, and also those that
\* the tables have freed with their entries.
DeletedTwice ==
    \/ doubleFree
    \/ \E n \in DOMAIN ast : ~IsInjective(ast[n].nodes)

\* main: the tree of a program with an error is deleted.
MainReturns ==
    /\ pc = "done"
    /\ pc' = "exited"
    /\ doubleFree' = IF status = "ERROR_OK" THEN doubleFree ELSE DeletedTwice
    /\ UNCHANGED <<ast, tree_traversing_deque, current_scope, status, reported>>

\* It reads a node it has freed.
DeletionCrashes ==
    /\ pc = "done"
    /\ status # "ERROR_OK"
    /\ DeletedTwice
    /\ Stop("crashed")

Stopped == pc \notin {"analysis", "done"} /\ UNCHANGED vars
-----------------------------------------------------------------------------
Init ==
    /\ ast = <<[type |-> "unknown", place |-> "root", nodes |-> <<>>,
                within |-> <<1>>]>>
    /\ tree_traversing_deque = <<[node |-> 1, within |-> <<1>>]>>
    /\ current_scope = <<NewScope(1)>>
    /\ status = "ERROR_OK"
    /\ reported = <<>>
    /\ doubleFree = FALSE
    /\ pc = "analysis"

Step ==
    \/ Reveal \/ LeaveScope \/ Pass \/ Unsupported \/ HandleReturn
    \/ HandleBreakContinue \/ HandleConsequent \/ HandleWhile \/ HandleIf
    \/ HandleElse \/ DefineVariable \/ AssignAgain \/ NestedFunction \/ RedefinedFunction
    \/ NewFunction \/ BodyAssertion \/ NullPointer
    \/ TableFreedTwice \/ Finish \/ MainReturns \/ DeletionCrashes

Next == Step \/ Stopped

Spec == Init /\ [][Next]_vars
-----------------------------------------------------------------------------
(* Properties                                                              *)

Roots == [i \in DOMAIN current_scope |-> current_scope[i].root]

\* The scopes open once an item has been handled with all it pushes.
After(item) == IF IsNode(item) THEN item.within ELSE Front(item.within)

\* The chain of scopes is the lexical one: every node is handled in exactly the
\* scopes that enclose it in the tree, every marker closes the scope it was left
\* for, whatever was pushed in between (the LEAVE_SCOPE protocol of
\* handle_while, handle_if, handle_else and handle_fuction_definition).
ScopesFollowTree ==
    pc = "analysis" =>
      LET deque == tree_traversing_deque
      IN IF deque = <<>> THEN Roots = <<1>>
         ELSE /\ Last(deque).within = Roots
              /\ \A k \in 1..(Len(deque) - 1) : deque[k].within = After(deque[k + 1])
              /\ After(deque[1]) = <<1>>

Encloses(type, n) == \E i \in DOMAIN ast[n].within : ast[ast[n].within[i]].type = type

Misplaced(n) ==
    \/ ast[n].type = "RETURN" /\ ~Encloses("FUNCTION_DEFINITION", n)
    \/ ast[n].type \in {"BREAK", "CONTINUE"} /\ ~Encloses("WHILE", n)
    \/ ast[n].type = "FUNCTION_DEFINITION" /\ Len(ast[n].within) > 1

NotImplemented(n) == ast[n].type \in {"EXPRESSION", "FUNCTION_CALL"}

\* A node is a syntax or internal error exactly if it is misplaced or of a type
\* handle_node rejects: return, break, continue and def are judged by their place in
\* the tree alone, whatever else is wrong in it.  Once ended, the status is such an
\* error exactly if some node of the tree is one: no later result hides it.  Neither
\* the order of the scopes nor a stale lookup matters.
VerdictIsLexical ==
    LET Wrong(n) == Misplaced(n) \/ NotImplemented(n)
        IsError(code) == code \in {"ERROR_SYNTAX", "ERROR_INTERNAL"}
    IN /\ \A k \in DOMAIN reported :
            reported[k][1] # 0 => (IsError(reported[k][2]) <=> Wrong(reported[k][1]))
       /\ pc = "done" =>
            (IsError(status) <=>
               \E n \in DOMAIN ast : ast[n].type # "unknown" /\ Wrong(n))

HandledAt(n) == {k \in DOMAIN reported : reported[k][1] = n}

\* Before in the source: the children of one node, and all they hold, are handled
\* from left to right.  The deque is a stack, so every handler has to push what
\* it found in reverse.
HandledInSourceOrder ==
    \A n \in DOMAIN ast : \A i, j \in DOMAIN ast[n].nodes :
      i < j /\ ast[n].nodes[i] # ast[n].nodes[j] =>
        \A b \in HandledAt(ast[n].nodes[j]) :
           \/ ast[ast[n].nodes[i]].type = "NONE"
           \/ \E a \in HandledAt(ast[n].nodes[i]) : a < b

\* Nothing is skipped or repeated: once ended, each node that a handled node lists
\* has been handled once for each time it is listed, but for the body of a
\* rejected definition and the NONE of a bare return.
EveryNodeHandled ==
    pc = "done" =>
      \A n \in DOMAIN ast : \A i \in DOMAIN ast[n].nodes :
        LET child == ast[n].nodes[i]
            listed == {j \in DOMAIN ast[n].nodes : ast[n].nodes[j] = child}
        IN \/ ast[child].type = "NONE"
           \/ /\ ast[n].type = "FUNCTION_DEFINITION"
              /\ \E k \in HandledAt(n) : reported[k][2] \in {"ERROR_SYNTAX", "ERROR_SEM"}
           \/ Cardinality(HandledAt(child)) =
                 Cardinality(HandledAt(n)) * Cardinality(listed)

\* Names live in the scope of a function or in the root scope, those of functions
\* in the root scope alone: scopes of while, if and else stay empty, however
\* deep the assignment, so that closing them loses no variable.
NamesInFunctionScopes ==
    \A i \in DOMAIN current_scope :
      LET scope == current_scope[i]
      IN /\ scope.local_table # <<>> =>
              i = 1 \/ ast[scope.root].type = "FUNCTION_DEFINITION"
         /\ "FUNCTION_DEFINITION" \in Range(scope.local_table) => i = 1

ElseIsBody(n) == ast[n].type = "WHILE" /\ ~IsInjective(ast[n].nodes)

\* Of a tree without definitions and NULL children, as all trees are that parse
\* really builds, the analysis frees nothing twice, follows no NULL pointer and
\* fails no assertion, and nor does the deletion of the tree in main after an error,
\* unless the else branch of a while is its body.
SafeWithoutDefinitions ==
    (\A n \in DOMAIN ast : ast[n].type \notin Definition \cup {"NULL"}) =>
       /\ pc # "aborted"
       /\ doubleFree \/ pc = "crashed" =>
            tree_traversing_deque = <<>> /\ \E n \in DOMAIN ast : ElseIsBody(n)

\* "we should bubble up to root" (semantic_analyser.c:323): only a function whose
\* body is no CONSEQUENT ends in a failed assertion, the last one never fails.
BubblesUp ==
    pc = "aborted" => tree_traversing_deque # <<>> /\ ast[Top.node].type = "FUNCTION_DEFINITION"

\* "semantic error -> ..." of error.h:26 as the result of the analysis.
\* The status of a later node replaces it.
SemErrorReported ==
    pc = "done" /\ (\E k \in DOMAIN reported : reported[k][2] = "ERROR_SEM") =>
       status # "ERROR_OK"
=============================================================================
