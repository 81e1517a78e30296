------------------------------- MODULE Parser -------------------------------
(***************************************************************************)
(* The recursive descent parser of parser.c with its main loop, and the    *)
(* part of main.c that disposes of what it returns.                        *)
(*                                                                         *)
(* The tokens and parse_expression are ExpressionParser's; every step here *)
(* is a step of that module or leaves its variables alone.  The C call     *)
(* stack is never deeper than one statement: "pc" is the place in it, and  *)
(* "caller" who called parse_expression.  Code no run can reach ends in a  *)
(* pc of Unreached, where the model stops.                                 *)
(***************************************************************************)
EXTENDS TokenWindow

VARIABLES
    parser, expression_stack, postfix, consumed, analysing, result,
    pc,             \* what the parser does next
    caller,         \* the statement that waits for an expression
    stmt,           \* the parser_result_t of the current statement
    program,        \* children of the root CONSEQUENT
    building_tree,  \* FALSE once the program tree was deleted
    status,         \* error_code of the result
    freed,          \* places of tokens whose value was freed
    staleRead,      \* a freed value was compared with a keyword
    doubleFree,     \* a freed value was freed again
    pastEnd         \* get_token was called after the end of the source

E == INSTANCE ExpressionParser

expressionVars == <<expression_stack, postfix, consumed, analysing, result>>
windowVars == <<parser, expressionVars>>
parserVars == <<pc, caller, stmt, program, building_tree, status, freed,
                staleRead, doubleFree, pastEnd>>
vars == <<windowVars, parserVars>>

Status == {"ERROR_OK", "ERROR_LEX", "ERROR_SYNTAX", "ERROR_INTERNAL"}

\* An AST node: its type, the place of the token that owns its data (0 when
\* data is NULL), and the type of its only child.
NodeType == {"PASS", "BREAK", "CONTINUE", "RETURN", "EXPRESSION"}
Node == [type : NodeType, data : Nat, child : {"none", "NONE", "EXPRESSION"}]

\* ast and error of a parser_result_t: at most one node is attached to either.
Statement == [error : BOOLEAN, nodes : Seq(Node)]
NoStatement == [error |-> FALSE, nodes |-> <<>>]
\* Mutant of Error: the ast field is left out.
Error_NoAst(nodes) == [error |-> TRUE]

Error(nodes) == [error |-> TRUE, nodes |-> nodes]
Ast(type, data, child) ==
    [error |-> FALSE,
     nodes |-> <<[type |-> type, data |-> data, child |-> child]>>]

Flow == [pass |-> "PASS", break |-> "BREAK", continue |-> "CONTINUE"]

Unreached == {"suite", "function_paramaters", "function_def"}

PC == {"statement", "begin", "expression", "newline", "function_call",
       "compound", "function_name", "loop", "done", "exited", "aborted"} \cup Unreached

TypeOK ==
    /\ pc \in PC
    /\ caller \in {"none", "small", "return", "if", "while"}
    /\ stmt \in Statement
    /\ program \in Seq(Node)
    /\ building_tree \in BOOLEAN
    /\ status \in Status
    /\ freed \subseteq Nat
    /\ staleRead \in BOOLEAN
    /\ doubleFree \in BOOLEAN
    /\ pastEnd \in BOOLEAN
-----------------------------------------------------------------------------
(* Keywords: the type of the current token and the value of the previous   *)
(* one are tested.  A value that was freed, or was never initialised       *)
(* (place 0), compares as the heap has it.                                 *)

Dangling(t) == t.text # "NULL" /\ t.at \in freed \cup {0}

MayAccept(keyword) ==
    /\ parser.token.type = "TKEYWORD"
    /\ parser.previousToken.text = keyword \/ Dangling(parser.previousToken)

MayRefuse(keyword) ==
    \/ parser.token.type # "TKEYWORD"
    \/ parser.previousToken.text # keyword
    \/ Dangling(parser.previousToken)

\* The comparisons of a step touch freed memory.
Compares ==
    staleRead' = (\/ staleRead
                  \/ /\ parser.token.type = "TKEYWORD"
                     /\ parser.previousToken.text # "NULL"
                     /\ parser.previousToken.at \in freed)

Go(place) == pc' = place

Statements(s) == stmt' = s /\ UNCHANGED <<program, building_tree, status>>

Advance == parser' \in parser_next(parser) /\ UNCHANGED expressionVars

Memory == <<freed, staleRead, doubleFree, pastEnd>>
-----------------------------------------------------------------------------
Init ==
    /\ E!Init
    /\ pc = "statement"
    /\ caller = "none"
    /\ stmt = NoStatement
    /\ program = <<>>
    /\ building_tree = TRUE
    /\ status = "ERROR_OK"
    /\ freed = {}
    /\ staleRead = FALSE
    /\ doubleFree = FALSE
    /\ pastEnd = FALSE

\* small_statement and flow_statement: pass, break, continue.  accept_keyword
\* moves on first, so the node's data is the value of the current token.
FlowStatement ==
    /\ pc = "statement"
    /\ \E keyword \in DOMAIN Flow :
          /\ MayAccept(keyword)
          /\ Statements(Ast(Flow[keyword], parser.token.at, "none"))
    /\ Compares
    /\ Advance
    /\ Go("newline")
    /\ UNCHANGED <<caller, freed, doubleFree, pastEnd>>

\* flow_statement: return, which tries to get an expression.
ReturnKeyword ==
    /\ pc = "statement"
    /\ MayAccept("return")
    /\ Statements(Ast("RETURN", parser.token.at, "NONE"))
    /\ Compares
    /\ Advance
    /\ caller' = "return"
    /\ Go("begin")
    /\ UNCHANGED <<freed, doubleFree, pastEnd>>

\* Mutant of SmallExpression: the call is tried before the expression.
SmallExpression_CallFirst ==
    /\ pc = "statement"
    /\ \A keyword \in {"pass", "break", "continue", "return"} : MayRefuse(keyword)
    /\ Compares
    /\ Statements(NoStatement)
    /\ caller' = "small"
    /\ Go("function_call")
    /\ UNCHANGED <<windowVars, freed, doubleFree, pastEnd>>

\* small_statement: no keyword was accepted, an expression is tried.
SmallExpression ==
    /\ pc = "statement"
    /\ \A keyword \in {"pass", "break", "continue", "return"} : MayRefuse(keyword)
    /\ Compares
    /\ Statements(NoStatement)
    /\ caller' = "small"
    /\ Go("begin")
    /\ UNCHANGED <<windowVars, freed, doubleFree, pastEnd>>

BeginExpression ==
    /\ pc = "begin"
    /\ E!BeginExpression
    /\ Go("expression")
    /\ UNCHANGED <<caller, stmt, program, building_tree, status, Memory>>

\* The end of an expression is the end of the source: parse_expression reads on,
\* and get_token destroys the stack of indents that it destroyed before.
ReadsPastEnd ==
    /\ E!Analyse("#")
    /\ parser.token.type = "TENDOFFILE"
    /\ parser.returned_tokens = <<>>

Analyse ==
    /\ pc = "expression"
    /\ E!ExpressionStep
    /\ pastEnd' = (pastEnd \/ ReadsPastEnd)
    /\ UNCHANGED <<pc, caller, stmt, program, building_tree, status, freed,
                   staleRead, doubleFree>>

\* The second deque_destroy aborts, unless the heap hides it.
Abort ==
    /\ pc = "expression"
    /\ ReadsPastEnd
    /\ Go("aborted")
    /\ pastEnd' = TRUE
    /\ UNCHANGED <<windowVars, caller, stmt, program, building_tree, status,
                   freed, staleRead, doubleFree>>

\* parse_expression has returned to the given caller.
Returned(who) == pc = "expression" /\ ~analysing /\ caller = who

\* flow_statement: what return makes of the expression; an error drops the node.
ReturnStatement ==
    /\ Returned("return")
    /\ LET data == stmt.nodes[1].data
       IN CASE result = "error" -> Statements(Error(<<>>)) /\ Go("loop")
            [] result = "null"  -> Statements(stmt) /\ Go("newline")
            [] OTHER -> /\ Statements(Ast("RETURN", data, "EXPRESSION"))
                        /\ Go("newline")
    /\ UNCHANGED <<windowVars, caller, Memory>>

\* small_statement after its expression.
ExpressionStatement ==
    /\ Returned("small")
    /\ CASE result = "error" -> Statements(Error(<<>>)) /\ Go("loop")
         [] result = "null"  -> Statements(stmt) /\ Go("function_call")
         [] OTHER -> Statements(Ast("EXPRESSION", 0, "none")) /\ Go("newline")
    /\ UNCHANGED <<windowVars, caller, Memory>>

\* simple_statement: a small statement ends with a newline; without one the
\* node goes with the error.
Newline ==
    /\ pc = "newline"
    /\ IF parser.token.type = "TNEWLINE"
       THEN Advance /\ Statements(stmt)
       ELSE UNCHANGED windowVars /\ Statements(Error(stmt.nodes))
    /\ Go("loop")
    /\ UNCHANGED <<caller, Memory>>

\* function_call: an identifier not followed by "(" is returned.
FunctionCall ==
    /\ pc = "function_call"
    /\ IF parser.token.type = "TIDENTIFICATOR"
       THEN \E p \in parser_next(parser) :
              /\ UNCHANGED expressionVars
              /\ IF p.token.type = "TLEFTPAR"
                 THEN parser' = p /\ Go("function_paramaters")
                 ELSE /\ parser' = parser_return_back(p, p.previousToken)
                      /\ Go("compound")
       ELSE UNCHANGED windowVars /\ Go("compound")
    /\ UNCHANGED <<caller, stmt, program, building_tree, status, Memory>>

\* if_and_elif("if") and while_statement: the keyword, then a condition.
ConditionKeyword ==
    /\ pc = "compound"
    /\ \E keyword \in {"if", "while"} :
          MayAccept(keyword) /\ caller' = keyword
    /\ Compares
    /\ Advance
    /\ Go("begin")
    /\ UNCHANGED <<stmt, program, building_tree, status, freed, doubleFree, pastEnd>>

\* An error in the condition, or no condition, is an error of the statement;
\* its own node has no data to free.
Condition ==
    /\ \E keyword \in {"if", "while"} : Returned(keyword)
    /\ IF result = "expression"
       THEN Statements(stmt) /\ Go("suite")
       ELSE Statements(Error(<<>>)) /\ Go("loop")
    /\ UNCHANGED <<windowVars, caller, Memory>>

\* function_def: the keyword, and the name that must follow it.
DefKeyword ==
    /\ pc = "compound"
    /\ MayAccept("def")
    /\ Compares
    /\ Advance
    /\ Go("function_name")
    /\ UNCHANGED <<caller, stmt, program, building_tree, status, freed, doubleFree, pastEnd>>

FunctionName ==
    /\ pc = "function_name"
    /\ IF parser.token.type = "TIDENTIFICATOR"
       THEN Statements(stmt) /\ Go("function_def")
       ELSE Statements(Error(<<>>)) /\ Go("loop")
    /\ UNCHANGED <<windowVars, caller, Memory>>

\* statement: neither a simple nor a compound statement was found.
NoCompound ==
    /\ pc = "compound"
    /\ \A keyword \in {"if", "while", "def"} : MayRefuse(keyword)
    /\ Compares
    /\ Statements(NoStatement)
    /\ Go("loop")
    /\ UNCHANGED <<windowVars, caller, freed, doubleFree, pastEnd>>
-----------------------------------------------------------------------------
(* The loop of parse(), entered after each statement.                      *)

\* Mutant of Raise: only a lexical error is remembered.
Raise_OnlyLexical(code) ==
    status' = IF code = "ERROR_LEX" THEN code ELSE status

Raise(code) == status' = IF status = "ERROR_OK" THEN code ELSE status

\* ast_delete of the given nodes frees the values their data points to.
Owned(nodes) == {nodes[i].data : i \in DOMAIN nodes} \ {0}

Dispose(nodes) ==
    /\ freed' = freed \cup Owned(nodes)
    /\ doubleFree' = (\/ doubleFree
                      \/ Owned(nodes) \cap freed # {}
                      \/ \E i, j \in DOMAIN nodes :
                            /\ i # j
                            /\ nodes[i].data = nodes[j].data
                            /\ nodes[i].data # 0)

\* A token that reports a failure of the scanner is skipped with its code.
ScannerError ==
    /\ pc = "loop"
    /\ \/ parser.token.type = "TLEXERR" /\ Raise("ERROR_LEX")
       \/ parser.token.type = "TERR" /\ Raise("ERROR_INTERNAL")
    /\ Advance
    /\ Go("statement")
    /\ UNCHANGED <<caller, stmt, program, building_tree, Memory>>

\* Mutant of SyntaxError: the deleted tree is still pointed to.
SyntaxError_KeepsProgram ==
    /\ pc = "loop"
    /\ parser.token.type \notin {"TENDOFFILE", "TLEXERR", "TERR"}
    /\ stmt.error
    /\ Dispose(stmt.nodes \o program)
    /\ Raise("ERROR_SYNTAX")
    /\ building_tree' = FALSE
    /\ Go("statement")
    /\ UNCHANGED <<windowVars, caller, stmt, staleRead, pastEnd, program>>

\* An error deletes the statement's node and the tree, and reads no token.
SyntaxError ==
    /\ pc = "loop"
    /\ parser.token.type \notin {"TENDOFFILE", "TLEXERR", "TERR"}
    /\ stmt.error
    /\ Dispose(stmt.nodes \o program)
    /\ Raise("ERROR_SYNTAX")
    /\ building_tree' = FALSE
    /\ program' = <<>>
    /\ Go("statement")
    /\ UNCHANGED <<windowVars, caller, stmt, staleRead, pastEnd>>

\* Mutant of Skip: the token stays.
Skip_Stays ==
    /\ pc = "loop"
    /\ parser.token.type \notin {"TENDOFFILE", "TLEXERR", "TERR"}
    /\ stmt = NoStatement
    /\ Go("statement")
    /\ UNCHANGED <<windowVars, caller, stmt, program, building_tree, status, Memory>>

\* No statement was found: the token is skipped.
Skip ==
    /\ pc = "loop"
    /\ parser.token.type \notin {"TENDOFFILE", "TLEXERR", "TERR"}
    /\ stmt = NoStatement
    /\ Advance
    /\ Go("statement")
    /\ UNCHANGED <<caller, stmt, program, building_tree, status, Memory>>

\* Mutant of AddStatement: a statement is added in front.
AddStatement_Prepends ==
    /\ pc = "loop"
    /\ parser.token.type \notin {"TENDOFFILE", "TLEXERR", "TERR"}
    /\ ~stmt.error /\ stmt.nodes # <<>>
    /\ program' = IF building_tree THEN stmt.nodes \o program ELSE program
    /\ Go("statement")
    /\ UNCHANGED <<windowVars, caller, stmt, building_tree, status, Memory>>

\* A statement joins the tree, as long as one is being built.
AddStatement ==
    /\ pc = "loop"
    /\ parser.token.type \notin {"TENDOFFILE", "TLEXERR", "TERR"}
    /\ ~stmt.error /\ stmt.nodes # <<>>
    /\ program' = IF building_tree THEN program \o stmt.nodes ELSE program
    /\ Go("statement")
    /\ UNCHANGED <<windowVars, caller, stmt, building_tree, status, Memory>>

\* The condition of the loop is tested first: at the end of the source the
\* statement just parsed is looked at no more.
EndOfFile ==
    /\ pc = "loop"
    /\ parser.token.type = "TENDOFFILE"
    /\ Go("done")
    /\ UNCHANGED <<windowVars, caller, stmt, program, building_tree, status, Memory>>

\* main: a result with an error is disposed of, any other one analysed.
Main ==
    /\ pc = "done"
    /\ IF status # "ERROR_OK" /\ building_tree
       THEN Dispose(program) /\ program' = <<>>
       ELSE UNCHANGED <<freed, doubleFree, program>>
    /\ Go("exited")
    /\ UNCHANGED <<windowVars, caller, stmt, building_tree, status, staleRead, pastEnd>>
-----------------------------------------------------------------------------
StatementStep ==
    \/ FlowStatement \/ ReturnKeyword \/ SmallExpression
    \/ BeginExpression \/ Analyse \/ Abort
    \/ ReturnStatement \/ ExpressionStatement \/ Newline \/ FunctionCall
    \/ ConditionKeyword \/ Condition \/ DefKeyword \/ FunctionName \/ NoCompound

LoopStep ==
    ScannerError \/ SyntaxError \/ Skip \/ AddStatement \/ EndOfFile \/ Main

\* After main has returned, or the process was aborted, nothing happens.
Exited == pc \in {"exited", "aborted"} /\ UNCHANGED vars

Next == StatementStep \/ LoopStep \/ Exited

\* One sequential program: as long as it can take a step it does.
Spec == Init /\ [][Next]_vars /\ WF_vars(StatementStep \/ LoopStep)
-----------------------------------------------------------------------------
\* The parser keeps to the discipline under which ExpressionParser is correct:
\* it accepts, skips and peeks between expressions and never touches their
\* state, and it returns a token only while the queue holds its copy.
RefinesExpressionParser == E!Safety

\* main goes on with a tree only if none of it was freed, nothing was freed
\* twice and no keyword test on the way there read freed memory.
AcceptedTreeIsLive ==
    pc \in {"done", "exited"} /\ status = "ERROR_OK" =>
        /\ building_tree
        /\ Owned(program) \cap freed = {}
        /\ ~staleRead

\* The deletions of trees are right by themselves: a value is freed twice only
\* after a keyword test was answered by freed memory.
DoubleFreeNeedsStaleRead == doubleFree => staleRead

\* The children of the tree are in source order, each on a token of its own.
TreeInSourceOrder ==
    \A i, j \in DOMAIN program : i < j => program[i].data < program[j].data

\* No expression, assignment, call or compound statement ever gets into the
\* tree: what is accepted is made of pass, break, continue and bare return.
OnlyFlowStatements ==
    /\ pc \notin Unreached
    /\ \A i \in DOMAIN program : /\ program[i].type # "EXPRESSION"
                                 /\ program[i].child # "EXPRESSION"

\* The only source on which parse() fails to end is one that meets a ")" no
\* expression takes: every other error leaves a token behind it.
EndsOrRightParenthesis ==
    <>(pc \in {"exited", "aborted"}) \/ <>[](parser.token.type = "TRIGHTPAR")

\* "ERROR_OK = 0, code compiled without any error", "ERROR_LEX = 1, lexical error"
\* (error.h:23-24): once the parser has moved past a lexical error, its status is
\* not ERROR_OK.
ErrorsReported ==
    [][parser.token.type = "TLEXERR" /\ parser'.token # parser.token
         => status' # "ERROR_OK"]_vars
=============================================================================
