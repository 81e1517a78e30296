---------------------------- MODULE ParserProofs ----------------------------
(***************************************************************************)
(* Theorems about Parser for every alphabet and every length of the        *)
(* source: it implements the caller that ExpressionParser assumes, and     *)
(* what it accepts is a tree in source order with no freed token in it.    *)
(*                                                                         *)
(* The places of the source carry the proof.  Everything the tree points   *)
(* to lies before the current token, everything freed no later than the    *)
(* previous one, so a statement can only point to a freed token when the   *)
(* two tokens of the window are copies of one.                             *)
(***************************************************************************)
EXTENDS Parser, TokenWindowProofs

\* The previous token never lies behind the current one, and two tokens at
\* one place are copies of one.
WindowInv ==
    /\ parser \in Window
    /\ InOrder(parser)
    /\ parser.previousToken.at <= parser.token.at
    /\ parser.previousToken.at = parser.token.at =>
          parser.previousToken = parser.token

\* parse_expression runs only where it was called, its result is never an
\* expression, and with no expression it leaves the current token's copy in
\* the queue, which function_call needs to peek.
ExpressionInv ==
    /\ analysing \in BOOLEAN
    /\ analysing => pc \in {"expression", "aborted"}
    /\ result \in {"none", "null", "error"}
    /\ pc = "expression" /\ ~analysing => result \in {"null", "error"}
    /\ \/ pc = "expression" /\ ~analysing /\ result = "null"
       \/ pc \in {"function_call", "compound"}
       => parser.returned_tokens = <<parser.token>>

\* What the statement holds at each place of the call stack.
CallInv ==
    /\ pc \in {"begin", "expression"} =>
          \/ caller = "return" /\ stmt = Ast("RETURN", stmt.nodes[1].data, "NONE")
          \/ caller \in {"small", "if", "while"} /\ stmt = NoStatement
    /\ pc = "newline" => Len(stmt.nodes) = 1 /\ ~stmt.error
    /\ pc \in {"function_call", "compound", "function_name"} => stmt = NoStatement
    /\ pc = "function_name" => parser.token.type = "TKEYWORD"
    /\ pc \notin Unreached

NoExpression(nodes) ==
    \A i \in DOMAIN nodes : /\ nodes[i].type # "EXPRESSION"
                            /\ nodes[i].child # "EXPRESSION"

\* The parser is inside the statement that stmt describes.
Active == pc \notin {"statement", "done", "exited", "aborted"}

\* A node of the statement lies behind the tree; the token after its keyword
\* may still be a copy of it, but never once the statement was ended.
PlaceInv ==
    /\ TreeInSourceOrder
    /\ \A i \in DOMAIN program : /\ program[i].data <= parser.previousToken.at
                                 /\ program[i].data < parser.token.at
    /\ \A n \in freed : n <= parser.previousToken.at
    /\ Active => \A j \in DOMAIN stmt.nodes :
          /\ stmt.nodes[j].data <= parser.previousToken.at
          /\ \A i \in DOMAIN program : program[i].data < stmt.nodes[j].data
          /\ pc \in {"begin", "expression", "newline"} =>
                \/ stmt.nodes[j].data < parser.token.at
                \/ parser.token.type = "TKEYWORD"
          /\ pc = "loop" /\ ~stmt.error => stmt.nodes[j].data < parser.token.at

\* Until freed memory answers a keyword test the tree and the statement are
\* live; without an error nothing was freed at all.
MemoryInv ==
    /\ ~staleRead =>
          /\ ~doubleFree
          /\ \A i \in DOMAIN program : program[i].data \notin freed
          /\ Active => \A j \in DOMAIN stmt.nodes : stmt.nodes[j].data \notin freed
    /\ status = "ERROR_OK" => freed = {} /\ building_tree /\ ~staleRead
    /\ ~building_tree => program = <<>>

TreeInv ==
    /\ Len(stmt.nodes) <= 1
    /\ NoExpression(stmt.nodes)
    /\ NoExpression(program)

Inv == TypeOK /\ WindowInv /\ ExpressionInv /\ CallInv /\ TreeInv /\ PlaceInv /\ MemoryInv

-----------------------------------------------------------------------------
(* The window *)

\* The instance of ExpressionParser reads the same window.
LEMMA SameNext == ASSUME NEW p PROVE E!parser_next(p) = parser_next(p)
<1>1. \A l, n : E!TokenOf(l, n) = TokenOf(l, n)
  BY DEF E!TokenOf, TokenOf, E!Keyword, Keyword, E!Valueless, Valueless
<1>2. E!get_token(p) = get_token(p)
  BY <1>1 DEF E!get_token, get_token
<1>3. QED
  BY <1>2 DEF E!parser_next, parser_next

\* A step leaves the window alone, or moves it on by one token.
Moves(p, q) ==
    \/ q = p
    \/ /\ q.previousToken = p.token
       /\ q.token = p.token \/ q.token.at = p.token.at + 1

\* What a call of parser_next, with or without a return of the token it read,
\* makes of the window.
LEMMA NextMoves ==
  ASSUME NEW p \in Window, InOrder(p), NEW q \in parser_next(p)
  PROVE  /\ q \in Window /\ InOrder(q) /\ Moves(p, q)
         /\ parser_return_back(q, q.token) \in Window
         /\ InOrder(parser_return_back(q, q.token))
         /\ Moves(p, parser_return_back(q, q.token))
         /\ parser_return_back(q, q.token).token = q.token
         /\ parser_return_back(q, q.token).returned_tokens = <<q.token>>
<1>1. q \in Window
  BY NextWindow
<1>2. q.token.at = q.scanned /\ q.returned_tokens = <<>>
  BY NextInOrder
<1>3. q.previousToken = p.token /\ (q.token = p.token \/ q.token.at = p.token.at + 1)
  BY NextToken
<1>4. /\ parser_return_back(q, q.token) \in Window
      /\ InOrder(parser_return_back(q, q.token))
      /\ parser_return_back(q, q.token).token = q.token
  BY <1>1, <1>2, ReturnBackInOrder
<1>5. parser_return_back(q, q.token).previousToken = q.previousToken
  BY <1>1 DEF parser_return_back, Window
<1>6. parser_return_back(q, q.token).returned_tokens = <<q.token>>
  <2>1. q.token \in Token
    BY <1>1 DEF Window
  <2>2. Append(<<>>, q.token) = <<q.token>>
    BY <2>1
  <2>3. QED
    BY <1>1, <1>2, <2>2 DEF parser_return_back, Window
<1>7. QED
  BY <1>1, <1>2, <1>3, <1>4, <1>5, <1>6 DEF InOrder, Moves

LEMMA AdvanceMoves ==
  ASSUME parser \in Window, InOrder(parser), Advance
  PROVE  parser' \in Window /\ InOrder(parser') /\ Moves(parser, parser')
BY NextMoves DEF Advance

\* The end of an expression is answered for a token no expression has, so
\* parse_expression finds no operand before the window and never returns a
\* postfix queue.
LEMMA FinishMoves ==
  ASSUME parser \in Window, InOrder(parser), E!Finish
  PROVE  /\ parser' \in Window /\ InOrder(parser') /\ Moves(parser, parser')
         /\ parser'.returned_tokens = <<parser'.token>>
         /\ result' \in {"null", "error"}
         /\ analysing' = FALSE
<1>1. PICK p \in parser_next(parser) :
        /\ parser' = E!parser_return_back(p, p.token)
        /\ E!Return(E!Outcome(p))
  BY SameNext DEF E!Finish
<1>2. parser' = parser_return_back(p, p.token)
  BY <1>1 DEF E!parser_return_back, parser_return_back
<1>3. p.previousToken = parser.token
  BY NextToken
<1>4. E!Element(parser.token) = "Pend"
  <2>1. \A t : E!Element(t) \in E!Elements
    BY DEF E!Element, E!token_to_precedent_elem, E!Elements
  <2>2. \A a, b \in E!Elements : E!precedent_table[a][b] = "#" => b = "Pend"
    BY DEF E!Elements, E!precedent_table, E!Row, E!err
  <2>3. E!precedent_table[E!Element(E!Last(expression_stack))][E!Element(parser.token)] = "#"
    BY DEF E!Finish, E!Analyse, E!Operation
  <2>4. QED
    BY <2>1, <2>2, <2>3
<1>5. E!Outcome(p) \in {"null", "error"}
  BY <1>3, <1>4 DEF E!Outcome
<1>6. result' \in {"null", "error"} /\ analysing' = FALSE
  BY <1>1, <1>5 DEF E!Return
<1>7. QED
  BY <1>2, <1>6, NextMoves

LEMMA ExpressionMoves ==
  ASSUME parser \in Window, InOrder(parser), E!ExpressionStep
  PROVE  parser' \in Window /\ InOrder(parser') /\ Moves(parser, parser')
<1>1. CASE E!Reduce
  BY <1>1 DEF E!Reduce, Moves
<1>2. CASE E!Shift
  BY <1>2, SameNext, NextMoves DEF E!Shift
<1>3. CASE E!Reject
  BY <1>3 DEF E!Reject, Moves
<1>4. CASE E!Finish
  BY <1>4, FinishMoves
<1>5. QED
  BY <1>1, <1>2, <1>3, <1>4 DEF E!ExpressionStep

\* function_call is only reached with a copy of the current token in the queue:
\* the token it peeks at is that copy, which is no "(" .
LEMMA PeekMoves ==
  ASSUME parser \in Window, parser.returned_tokens = <<parser.token>>,
         parser.token.type = "TIDENTIFICATOR", NEW p \in parser_next(parser)
  PROVE  /\ p.token = parser.token /\ p.previousToken = p.token
         /\ p.token.type # "TLEFTPAR"
BY NextFromQueue

LEMMA FunctionCallMoves ==
  ASSUME Inv, FunctionCall
  PROVE  /\ parser' \in Window /\ InOrder(parser') /\ Moves(parser, parser')
         /\ parser'.returned_tokens = <<parser'.token>>
         /\ pc' = "compound" /\ UNCHANGED expressionVars
<1>1. /\ parser \in Window /\ InOrder(parser) /\ parser.returned_tokens = <<parser.token>>
  BY DEF Inv, WindowInv, ExpressionInv, FunctionCall
<1>2. CASE parser.token.type = "TIDENTIFICATOR"
  <2>1. PICK p \in parser_next(parser) :
          /\ UNCHANGED expressionVars
          /\ IF p.token.type = "TLEFTPAR"
             THEN parser' = p /\ Go("function_paramaters")
             ELSE /\ parser' = parser_return_back(p, p.previousToken)
                  /\ Go("compound")
    BY <1>2 DEF FunctionCall
  <2>2. /\ p.token.type # "TLEFTPAR" /\ p.previousToken = p.token
    BY <1>1, <1>2, PeekMoves
  <2>3. parser' = parser_return_back(p, p.token) /\ pc' = "compound"
    BY <2>1, <2>2 DEF Go
  <2>4. QED
    BY <1>1, <2>1, <2>3, NextMoves
<1>3. CASE parser.token.type # "TIDENTIFICATOR"
  BY <1>1, <1>3 DEF FunctionCall, windowVars, Go, Moves
<1>4. QED
  BY <1>2, <1>3

\* Every step moves the window on by at most one token.
LEMMA StepMoves ==
  ASSUME Inv, [Next]_vars
  PROVE  parser' \in Window /\ InOrder(parser') /\ Moves(parser, parser')
<1> DEFINE P == parser' \in Window /\ InOrder(parser') /\ Moves(parser, parser')
<1>1. parser \in Window /\ InOrder(parser)
  BY DEF Inv, WindowInv
<1>2. ASSUME UNCHANGED parser PROVE P
  BY <1>1, <1>2 DEF Moves
<1>3. ASSUME Advance PROVE P
  BY <1>1, <1>3, AdvanceMoves
<1>4. ASSUME Analyse PROVE P
  BY <1>1, <1>4, ExpressionMoves DEF Analyse
<1>5. ASSUME FunctionCall PROVE P
  BY <1>5, FunctionCallMoves
<1>6. FlowStatement \/ ReturnKeyword \/ ConditionKeyword \/ DefKeyword \/ ScannerError \/ Skip
        => Advance
  BY DEF FlowStatement, ReturnKeyword, ConditionKeyword, DefKeyword, ScannerError, Skip
<1>7. Newline => Advance \/ UNCHANGED parser
  BY DEF Newline, windowVars
<1>8. SmallExpression \/ BeginExpression \/ Abort \/ ReturnStatement \/ ExpressionStatement
        \/ Condition \/ FunctionName \/ NoCompound
        => UNCHANGED parser
  BY DEF SmallExpression, BeginExpression, E!BeginExpression, Abort, ReturnStatement,
         ExpressionStatement, Condition, FunctionName, NoCompound, windowVars
<1>9. SyntaxError \/ AddStatement \/ EndOfFile \/ Main \/ Exited \/ UNCHANGED vars
        => UNCHANGED parser
  BY DEF SyntaxError, AddStatement, EndOfFile, Main, Exited, vars, windowVars
<1> HIDE DEF P
<1>10. P
  BY <1>2, <1>3, <1>4, <1>5, <1>6, <1>7, <1>8, <1>9 DEF Next, StatementStep, LoopStep
<1>11. QED
  BY <1>10 DEF P

LEMMA StepWindow ==
  ASSUME Inv, [Next]_vars
  PROVE  WindowInv'
<1>1. parser' \in Window /\ InOrder(parser') /\ Moves(parser, parser')
  BY StepMoves
<1>2. parser.token.at \in Nat
  BY DEF Inv, WindowInv, Window, Token
<1>3. parser'.previousToken.at <= parser'.token.at
  BY <1>1, <1>2 DEF Inv, WindowInv, Moves
<1>4. parser'.previousToken.at = parser'.token.at => parser'.previousToken = parser'.token
  BY <1>1, <1>2 DEF Inv, WindowInv, Moves
<1>5. QED
  BY <1>1, <1>3, <1>4 DEF WindowInv, InOrder
-----------------------------------------------------------------------------
(* One lemma for each part of the invariant *)

LEMMA StepExpression ==
  ASSUME Inv, [Next]_vars
  PROVE  ExpressionInv'
<1> USE DEF Inv, ExpressionInv, CallInv, Unreached
<1>1. ASSUME FlowStatement \/ ReturnKeyword \/ SmallExpression \/ ConditionKeyword
               \/ DefKeyword \/ FunctionName \/ Newline
      PROVE  ExpressionInv'
  BY <1>1 DEF FlowStatement, ReturnKeyword, SmallExpression, ConditionKeyword, DefKeyword,
              FunctionName, Newline, Advance, expressionVars, windowVars, Go
<1>2. ASSUME ScannerError \/ SyntaxError \/ Skip \/ AddStatement \/ EndOfFile \/ Main
      PROVE  ExpressionInv'
  BY <1>2 DEF ScannerError, SyntaxError, Skip, AddStatement, EndOfFile, Main, Advance,
              expressionVars, windowVars, Go
<1>3. CASE BeginExpression
  BY <1>3 DEF BeginExpression, E!BeginExpression, Go
<1>4. CASE Analyse
  <2>1. parser \in Window /\ InOrder(parser)
    BY DEF WindowInv
  <2>2. pc = "expression" /\ pc' = pc /\ E!ExpressionStep
    BY <1>4 DEF Analyse
  <2>3. CASE E!Reduce
    BY <2>2, <2>3 DEF E!Reduce, E!Analyse
  <2>4. CASE E!Shift
    BY <2>2, <2>4 DEF E!Shift, E!Analyse
  <2>5. CASE E!Reject
    BY <2>2, <2>5 DEF E!Reject, E!Return
  <2>6. CASE E!Finish
    BY <2>1, <2>2, <2>6, FinishMoves
  <2>7. QED
    BY <2>2, <2>3, <2>4, <2>5, <2>6 DEF E!ExpressionStep
<1>5. CASE Abort
  BY <1>5 DEF Abort, windowVars, expressionVars, Go
<1>6. ASSUME ReturnStatement \/ ExpressionStatement \/ Condition
      PROVE  ExpressionInv'
  BY <1>6 DEF ReturnStatement, ExpressionStatement, Condition, Returned, windowVars,
              expressionVars, Go
<1>7. CASE FunctionCall
  BY <1>7, FunctionCallMoves DEF expressionVars, FunctionCall
<1>8. CASE NoCompound \/ Exited \/ UNCHANGED vars
  BY <1>8 DEF NoCompound, Exited, vars, windowVars, expressionVars, parserVars, Go
<1>9. QED
  BY <1>1, <1>2, <1>3, <1>4, <1>5, <1>6, <1>7, <1>8 DEF Next, StatementStep, LoopStep

LEMMA AstStatement ==
  ASSUME NEW type \in NodeType, NEW data \in Nat, NEW child \in {"none", "NONE"}
  PROVE  /\ Ast(type, data, child) \in Statement
         /\ Len(Ast(type, data, child).nodes) = 1
         /\ DOMAIN Ast(type, data, child).nodes = {1}
         /\ Ast(type, data, child).nodes[1] = [type |-> type, data |-> data, child |-> child]
         /\ ~Ast(type, data, child).error
BY DEF Ast, Statement, Node

LEMMA NoStatementType ==
  /\ NoStatement \in Statement /\ Error(<<>>) \in Statement
  /\ DOMAIN NoStatement.nodes = {} /\ DOMAIN Error(<<>>).nodes = {}
  /\ Len(NoStatement.nodes) = 0 /\ Len(Error(<<>>).nodes) = 0
BY DEF NoStatement, Error, Statement

\* The statement after the step of an action that begins or ends one.
LEMMA StatementTypes ==
  ASSUME TypeOK, parser \in Window
  PROVE  /\ \A keyword \in DOMAIN Flow : Flow[keyword] \in NodeType \ {"EXPRESSION"}
         /\ parser.token.at \in Nat
         /\ Error(stmt.nodes) \in Statement
BY DEF TypeOK, Flow, NodeType, Window, Token, Error, Statement

LEMMA StepCall ==
  ASSUME Inv, [Next]_vars
  PROVE  CallInv'
<1> USE DEF Inv, CallInv, Unreached
<1>1. CASE FlowStatement
  <2>1. PICK keyword \in DOMAIN Flow : stmt' = Ast(Flow[keyword], parser.token.at, "none")
    BY <1>1 DEF FlowStatement, Statements
  <2>2. Len(stmt'.nodes) = 1 /\ ~stmt'.error
    BY <2>1, AstStatement, StatementTypes DEF WindowInv
  <2>3. QED
    BY <1>1, <2>2 DEF FlowStatement, Go
<1>2. CASE ReturnKeyword
  <2>1. stmt' = Ast("RETURN", parser.token.at, "NONE")
    BY <1>2 DEF ReturnKeyword, Statements
  <2>2. stmt' = Ast("RETURN", stmt'.nodes[1].data, "NONE")
    BY <2>1 DEF Ast
  <2>3. QED
    BY <1>2, <2>2 DEF ReturnKeyword, Go
<1>3. CASE SmallExpression
  BY <1>3 DEF SmallExpression, Go, Statements
<1>4. CASE BeginExpression \/ Analyse \/ Abort
  BY <1>4 DEF BeginExpression, Analyse, Abort, Go, TypeOK
<1>5. CASE ReturnStatement
  <2>1. caller = "return" /\ stmt = Ast("RETURN", stmt.nodes[1].data, "NONE")
    BY <1>5 DEF ReturnStatement, Returned
  <2>2. result \in {"error", "null"}
    BY <1>5 DEF ReturnStatement, Returned, ExpressionInv
  <2>3. Len(stmt.nodes) = 1 /\ ~stmt.error
    BY <2>1 DEF Ast
  <2>4. QED
    BY <1>5, <2>2, <2>3 DEF ReturnStatement, Statements, Go
<1>6. CASE ExpressionStatement
  <2>1. result \in {"error", "null"} /\ stmt = NoStatement
    BY <1>6 DEF ExpressionStatement, Returned, ExpressionInv
  <2>2. QED
    BY <1>6, <2>1 DEF ExpressionStatement, Statements, Go
<1>7. CASE Newline \/ NoCompound \/ FunctionName
  BY <1>7 DEF Newline, NoCompound, FunctionName, Go
<1>8. CASE FunctionCall
  BY <1>8, FunctionCallMoves DEF FunctionCall
<1>9. CASE ConditionKeyword
  BY <1>9 DEF ConditionKeyword, Go
<1>10. CASE Condition
  BY <1>10 DEF Condition, Returned, ExpressionInv, Go
<1>11. CASE DefKeyword
  <2>1. parser.token.type = "TKEYWORD" /\ parser.returned_tokens = <<parser.token>>
    BY <1>11 DEF DefKeyword, MayAccept, ExpressionInv
  <2>2. parser'.token = parser.token
    BY <1>11, <2>1, NextFromQueue DEF DefKeyword, Advance, WindowInv
  <2>3. QED
    BY <1>11, <2>1, <2>2 DEF DefKeyword, Go
<1>12. CASE ScannerError \/ SyntaxError \/ Skip \/ AddStatement \/ EndOfFile \/ Main
  BY <1>12 DEF ScannerError, SyntaxError, Skip, AddStatement, EndOfFile, Main, Go
<1>13. CASE Exited \/ UNCHANGED vars
  BY <1>13 DEF Exited, vars, windowVars, parserVars
<1>14. QED
  BY <1>1, <1>2, <1>3, <1>4, <1>5, <1>6, <1>7, <1>8, <1>9, <1>10, <1>11, <1>12, <1>13
  DEF Next, StatementStep, LoopStep

\* What a step may do to the statement: leave it, add the error of a missing
\* newline, drop its node, or begin it with the token of an accepted keyword.
StmtKept ==
    /\ stmt' = stmt
    /\ Active' => Active
    /\ pc' \in {"begin", "expression", "newline"} =>
          pc \in {"begin", "expression", "newline"} \/ stmt = NoStatement
    /\ pc' = "loop" =>
          \/ pc = "loop"
          \/ pc = "newline" /\ parser.token.type = "TNEWLINE"
          \/ stmt = NoStatement

StmtFailed ==
    pc = "newline" /\ pc' = "loop" /\ stmt' = Error(stmt.nodes)

StmtBegun ==
    \E type \in NodeType \ {"EXPRESSION"}, child \in {"none", "NONE"} :
        /\ pc = "statement" /\ parser.token.type = "TKEYWORD"
        /\ pc' \in {"newline", "begin"}
        /\ Advance
        /\ parser.previousToken.text # "NULL" /\ Compares
        /\ stmt' = Ast(type, parser.token.at, child)

StmtAfter ==
    StmtKept \/ StmtFailed \/ StmtBegun \/ stmt' \in {NoStatement, Error(<<>>)}

\* The tree is left alone, but by the loop of parse() and by main.
ProgramAfter ==
    \/ program' = program
    \/ program' = <<>> /\ ~Active'
    \/ /\ AddStatement /\ building_tree /\ ~Active'
       /\ program' = program \o stmt.nodes

LEMMA StepTreeAfter ==
  ASSUME Inv, [Next]_vars
  PROVE  StmtAfter /\ ProgramAfter
<1> USE DEF StmtAfter, ProgramAfter
<1>1. CASE FlowStatement
  <2>1. PICK keyword \in DOMAIN Flow : /\ stmt' = Ast(Flow[keyword], parser.token.at, "none")
                                       /\ MayAccept(keyword)
    BY <1>1 DEF FlowStatement, Statements
  <2>2. Flow[keyword] \in NodeType \ {"EXPRESSION"} /\ keyword # "NULL"
    BY StatementTypes DEF Inv, WindowInv, Flow
  <2>3. StmtBegun
    BY <1>1, <2>1, <2>2 DEF FlowStatement, Go, MayAccept, Dangling, StmtBegun
  <2>4. QED
    BY <1>1, <2>3 DEF FlowStatement, Statements
<1>2. CASE ReturnKeyword
  <2>1. StmtBegun
    BY <1>2 DEF ReturnKeyword, Statements, Go, MayAccept, Dangling, StmtBegun, NodeType
  <2>2. QED
    BY <1>2, <2>1 DEF ReturnKeyword, Statements
<1>3. CASE SmallExpression \/ BeginExpression \/ Analyse \/ Abort
  BY <1>3 DEF SmallExpression, BeginExpression, Analyse, Abort, Statements, Go, StmtKept, Active
<1>4. CASE ReturnStatement \/ ExpressionStatement \/ Condition
  BY <1>4 DEF ReturnStatement, ExpressionStatement, Condition, Returned, Statements, Go,
              StmtKept, Active, Inv, ExpressionInv, CallInv
<1>5. CASE Newline
  BY <1>5 DEF Newline, Statements, Go, StmtKept, StmtFailed, Active
<1>6. CASE FunctionCall
  BY <1>6, FunctionCallMoves DEF FunctionCall, StmtKept, Active
<1>7. CASE ConditionKeyword \/ DefKeyword \/ FunctionName \/ NoCompound
  BY <1>7 DEF ConditionKeyword, DefKeyword, FunctionName, NoCompound, Statements, Go,
              StmtKept, Active, Inv, CallInv
<1>8. CASE ScannerError \/ SyntaxError \/ Skip \/ AddStatement \/ EndOfFile \/ Main
  BY <1>8 DEF ScannerError, SyntaxError, Skip, AddStatement, EndOfFile, Main, Go, StmtKept,
              Active
<1>9. CASE Exited \/ UNCHANGED vars
  BY <1>9 DEF Exited, vars, parserVars, StmtKept, Active
<1>10. QED
  BY <1>1, <1>2, <1>3, <1>4, <1>5, <1>6, <1>7, <1>8, <1>9 DEF Next, StatementStep, LoopStep

\* Only the error of a statement and main delete trees.
LEMMA OnlyDisposals ==
  ASSUME [Next]_vars
  PROVE  SyntaxError \/ Main \/ UNCHANGED <<freed, doubleFree>>
<1>1. FlowStatement \/ ReturnKeyword \/ SmallExpression \/ BeginExpression \/ Analyse \/ Abort
        => UNCHANGED <<freed, doubleFree>>
  BY DEF FlowStatement, ReturnKeyword, SmallExpression, BeginExpression, Analyse, Abort, Memory
<1>2. ReturnStatement \/ ExpressionStatement \/ Newline \/ FunctionCall \/ Condition
        => UNCHANGED <<freed, doubleFree>>
  BY DEF ReturnStatement, ExpressionStatement, Newline, FunctionCall, Condition, Memory
<1>3. ConditionKeyword \/ DefKeyword \/ FunctionName \/ NoCompound
        => UNCHANGED <<freed, doubleFree>>
  BY DEF ConditionKeyword, DefKeyword, FunctionName, NoCompound, Memory
<1>4. ScannerError \/ Skip \/ AddStatement \/ EndOfFile \/ Exited \/ UNCHANGED vars
        => UNCHANGED <<freed, doubleFree>>
  BY DEF ScannerError, Skip, AddStatement, EndOfFile, Exited, vars, parserVars, Memory
<1>5. QED
  BY <1>1, <1>2, <1>3, <1>4 DEF Next, StatementStep, LoopStep

LEMMA StepType ==
  ASSUME Inv, [Next]_vars
  PROVE  TypeOK'
<1>1. parser.token.at \in Nat /\ Error(stmt.nodes) \in Statement
  BY StatementTypes DEF Inv, WindowInv
<1>2. stmt' \in Statement
  <2>1. CASE stmt' = stmt \/ stmt' = Error(stmt.nodes) \/ stmt' \in {NoStatement, Error(<<>>)}
    BY <1>1, <2>1, NoStatementType DEF Inv, TypeOK
  <2>2. CASE \E type \in NodeType \ {"EXPRESSION"}, child \in {"none", "NONE"} :
               stmt' = Ast(type, parser.token.at, child)
    <3>1. PICK type \in NodeType, child \in {"none", "NONE"} :
            stmt' = Ast(type, parser.token.at, child)
      BY <2>2
    <3>2. QED
      BY <1>1, <3>1, AstStatement
  <2>3. QED
    BY <2>1, <2>2, StepTreeAfter DEF StmtAfter, StmtKept, StmtFailed, StmtBegun
<1>3. program' \in Seq(Node)
  <2>1. program \in Seq(Node) /\ stmt.nodes \in Seq(Node)
    BY DEF Inv, TypeOK, Statement
  <2>2. program \o stmt.nodes \in Seq(Node) /\ <<>> \in Seq(Node)
    BY <2>1
  <2>3. QED
    BY <2>1, <2>2, StepTreeAfter DEF ProgramAfter
<1>4. ASSUME NEW nodes \in Seq(Node) PROVE Owned(nodes) \subseteq Nat
  <2>1. \A i \in DOMAIN nodes : nodes[i] \in Node
    OBVIOUS
  <2>2. QED
    BY <2>1 DEF Owned, Node
<1>5. /\ pc' \in PC
      /\ caller' \in {"none", "small", "return", "if", "while"}
      /\ building_tree' \in BOOLEAN
      /\ status' \in Status
      /\ staleRead' \in BOOLEAN
      /\ pastEnd' \in BOOLEAN
  <2> USE DEF Inv, TypeOK, PC, Unreached, Status
  <2>1. CASE FlowStatement \/ ReturnKeyword \/ SmallExpression
    BY <2>1 DEF FlowStatement, ReturnKeyword, SmallExpression, Statements, Compares, Go
  <2>2. CASE BeginExpression \/ Analyse \/ Abort
    BY <2>2 DEF BeginExpression, Analyse, Abort, ReadsPastEnd, Memory, Go
  <2>3. CASE ReturnStatement \/ ExpressionStatement \/ Condition
    BY <2>3 DEF ReturnStatement, ExpressionStatement, Condition, Statements, Memory, Go
  <2>4. CASE Newline \/ FunctionName
    BY <2>4 DEF Newline, FunctionName, Statements, Memory, Go
  <2>5. CASE FunctionCall
    BY <2>5 DEF FunctionCall, Memory, Go
  <2>6. CASE ConditionKeyword \/ DefKeyword \/ NoCompound
    BY <2>6 DEF ConditionKeyword, DefKeyword, NoCompound, Statements, Compares, Go
  <2>7. CASE ScannerError \/ SyntaxError \/ Skip
    BY <2>7 DEF ScannerError, SyntaxError, Skip, Raise, Memory, Go
  <2>8. CASE AddStatement \/ EndOfFile \/ Main
    BY <2>8 DEF AddStatement, EndOfFile, Main, Memory, Go
  <2>9. CASE Exited \/ UNCHANGED vars
    BY <2>9 DEF Exited, vars, parserVars
  <2>10. QED
    BY <2>1, <2>2, <2>3, <2>4, <2>5, <2>6, <2>7, <2>8, <2>9 DEF Next, StatementStep, LoopStep
<1>6. freed' \subseteq Nat /\ doubleFree' \in BOOLEAN
  <2>1. program \in Seq(Node) /\ stmt.nodes \o program \in Seq(Node)
    BY DEF Inv, TypeOK, Statement
  <2>2. CASE SyntaxError
    BY <1>4, <2>1, <2>2 DEF SyntaxError, Dispose, Inv, TypeOK
  <2>3. CASE Main
    BY <1>4, <2>1, <2>3 DEF Main, Dispose, Inv, TypeOK
  <2>4. ASSUME UNCHANGED <<freed, doubleFree>> PROVE freed' \subseteq Nat /\ doubleFree' \in BOOLEAN
    BY <2>4 DEF Inv, TypeOK
  <2>5. QED
    BY <2>2, <2>3, <2>4, OnlyDisposals
<1>7. QED
  BY <1>2, <1>3, <1>5, <1>6 DEF TypeOK

\* The nodes of a tree after a statement, which has one at most, joined it.
LEMMA JoinedNodes ==
  ASSUME NEW a \in Seq(Node), NEW b \in Seq(Node), Len(a) <= 1 \/ Len(b) <= 1,
         NEW i \in DOMAIN (a \o b)
  PROVE  \/ i \in DOMAIN a /\ (a \o b)[i] = a[i]
         \/ /\ i - Len(a) \in DOMAIN b /\ (a \o b)[i] = b[i - Len(a)]
            /\ \A j \in DOMAIN a : j < i
            /\ i > Len(a)
OBVIOUS

LEMMA StepTree ==
  ASSUME Inv, [Next]_vars
  PROVE  TreeInv'
<1>1. /\ program \in Seq(Node) /\ stmt.nodes \in Seq(Node)
      /\ Len(stmt.nodes) <= 1 /\ NoExpression(stmt.nodes) /\ NoExpression(program)
  BY DEF Inv, TypeOK, Statement, TreeInv
<1>2. Len(stmt'.nodes) <= 1 /\ NoExpression(stmt'.nodes)
  <2>1. CASE StmtKept \/ StmtFailed
    BY <1>1, <2>1 DEF StmtKept, StmtFailed, Error
  <2>2. CASE stmt' \in {NoStatement, Error(<<>>)}
    BY <2>2, NoStatementType DEF NoExpression
  <2>3. CASE StmtBegun
    <3>1. PICK type \in NodeType \ {"EXPRESSION"}, child \in {"none", "NONE"} :
            stmt' = Ast(type, parser.token.at, child)
      BY <2>3 DEF StmtBegun
    <3>2. parser.token.at \in Nat
      BY DEF Inv, WindowInv, Window, Token
    <3>3. /\ Len(stmt'.nodes) = 1 /\ DOMAIN stmt'.nodes = {1}
          /\ stmt'.nodes[1] = [type |-> type, data |-> parser.token.at, child |-> child]
      BY <3>1 DEF Ast
    <3>4. QED
      BY <3>3 DEF NoExpression
  <2>4. QED
    BY <2>1, <2>2, <2>3, StepTreeAfter DEF StmtAfter
<1>3. NoExpression(program')
  <2>1. CASE program' = program \o stmt.nodes
    BY <1>1, <2>1, JoinedNodes DEF NoExpression
  <2>2. CASE program' = program \/ program' = <<>>
    BY <1>1, <2>2 DEF NoExpression
  <2>3. QED
    BY <2>1, <2>2, StepTreeAfter DEF ProgramAfter
<1>4. QED
  BY <1>2, <1>3 DEF TreeInv, NoExpression

\* What the window's move means for the places of the source.
LEMMA StepOrder ==
  ASSUME Inv, [Next]_vars
  PROVE  /\ parser.token.at \in Nat /\ parser.previousToken.at \in Nat
         /\ parser'.token.at \in Nat /\ parser'.previousToken.at \in Nat
         /\ parser.previousToken.at <= parser.token.at
         /\ \/ parser' = parser
            \/ /\ parser'.previousToken = parser.token
               /\ parser'.token = parser.token \/ parser'.token.at = parser.token.at + 1
         /\ parser.previousToken.at <= parser'.previousToken.at
         /\ parser.token.at <= parser'.token.at
BY StepMoves DEF Inv, WindowInv, Window, Token, Moves

LEMMA NodesTyped ==
  ASSUME TypeOK
  PROVE  /\ program \in Seq(Node) /\ stmt.nodes \in Seq(Node)
         /\ \A i \in DOMAIN program : program[i].data \in Nat
         /\ \A j \in DOMAIN stmt.nodes : stmt.nodes[j].data \in Nat
<1>1. program \in Seq(Node) /\ stmt.nodes \in Seq(Node)
  BY DEF TypeOK, Statement
<1>2. ASSUME NEW s \in Seq(Node), NEW i \in DOMAIN s PROVE s[i].data \in Nat
  <2>1. s[i] \in Node
    OBVIOUS
  <2>2. QED
    BY <2>1 DEF Node
<1>3. QED
  BY <1>1, <1>2

\* The part of PlaceInv about the node of the statement.
StmtPlaced ==
    Active => \A j \in DOMAIN stmt.nodes :
        /\ stmt.nodes[j].data <= parser.previousToken.at
        /\ \A i \in DOMAIN program : program[i].data < stmt.nodes[j].data
        /\ pc \in {"begin", "expression", "newline"} =>
              \/ stmt.nodes[j].data < parser.token.at
              \/ parser.token.type = "TKEYWORD"
        /\ pc = "loop" /\ ~stmt.error => stmt.nodes[j].data < parser.token.at

LEMMA StepStmtPlaced ==
  ASSUME Inv, [Next]_vars
  PROVE  StmtPlaced'
<1>1. SUFFICES ASSUME Active', program' = program PROVE StmtPlaced'
  BY StepTreeAfter DEF ProgramAfter, StmtPlaced
<1>2. /\ \A j \in DOMAIN stmt.nodes : stmt.nodes[j].data \in Nat
      /\ \A i \in DOMAIN program : program[i].data \in Nat
  BY NodesTyped DEF Inv
<1>3. StmtPlaced
  BY DEF Inv, PlaceInv, StmtPlaced
<1>4. CASE StmtKept
  <2>1. stmt' = stmt /\ Active
    BY <1>1, <1>4 DEF StmtKept
  <2>2. ASSUME NEW j \in DOMAIN stmt.nodes
        PROVE  /\ stmt.nodes[j].data <= parser'.previousToken.at
               /\ \A i \in DOMAIN program : program[i].data < stmt.nodes[j].data
    BY <1>2, <1>3, <2>1, StepOrder DEF StmtPlaced
  <2>3. ASSUME NEW j \in DOMAIN stmt.nodes, pc' \in {"begin", "expression", "newline"}
        PROVE  \/ stmt.nodes[j].data < parser'.token.at
               \/ parser'.token.type = "TKEYWORD"
    <3>1. pc \in {"begin", "expression", "newline"}
      BY <1>4, <2>3, NoStatementType DEF StmtKept
    <3>2. /\ stmt.nodes[j].data \in Nat /\ stmt.nodes[j].data <= parser.previousToken.at
          /\ stmt.nodes[j].data < parser.token.at \/ parser.token.type = "TKEYWORD"
      BY <1>2, <1>3, <2>1, <2>3, <3>1 DEF StmtPlaced
    <3>3. QED
      BY <3>2, StepOrder
  <2>4. ASSUME NEW j \in DOMAIN stmt.nodes, pc' = "loop", ~stmt.error
        PROVE  stmt.nodes[j].data < parser'.token.at
    <3>1. pc = "loop" \/ (pc = "newline" /\ parser.token.type = "TNEWLINE")
      BY <1>4, <2>4, NoStatementType DEF StmtKept
    <3>2. stmt.nodes[j].data \in Nat /\ stmt.nodes[j].data < parser.token.at
      BY <1>2, <1>3, <2>1, <2>4, <3>1 DEF StmtPlaced
    <3>3. QED
      BY <3>2, StepOrder
  <2>5. QED
    BY <1>1, <2>1, <2>2, <2>3, <2>4 DEF StmtPlaced
<1>5. CASE StmtFailed
  <2>1. Active /\ pc' = "loop" /\ stmt'.error /\ stmt'.nodes = stmt.nodes
    BY <1>5 DEF StmtFailed, Active, Error
  <2>2. QED
    BY <1>1, <1>2, <1>3, <2>1, StepOrder DEF StmtPlaced
<1>6. CASE stmt' \in {NoStatement, Error(<<>>)}
  BY <1>6, NoStatementType DEF StmtPlaced
<1>7. CASE StmtBegun
  <2>1. PICK type \in NodeType \ {"EXPRESSION"}, child \in {"none", "NONE"} :
          /\ pc' \in {"newline", "begin"} /\ Advance
          /\ parser.token.type = "TKEYWORD"
          /\ stmt' = Ast(type, parser.token.at, child)
    BY <1>7 DEF StmtBegun
  <2>2. DOMAIN stmt'.nodes = {1} /\ stmt'.nodes[1].data = parser.token.at
    BY <2>1 DEF Ast
  <2>3. /\ parser'.previousToken = parser.token
        /\ parser'.token = parser.token \/ parser'.token.at = parser.token.at + 1
    BY <2>1, NextToken DEF Advance, Inv, WindowInv
  <2>4. \A i \in DOMAIN program : program[i].data < parser.token.at
    BY DEF Inv, PlaceInv
  <2>5. QED
    BY <1>1, <2>1, <2>2, <2>3, <2>4, StepOrder DEF StmtPlaced
<1>8. QED
  BY <1>4, <1>5, <1>6, <1>7, StepTreeAfter DEF StmtAfter

\* The tokens that deleting the nodes frees.
LEMMA OwnedJoined ==
  ASSUME NEW a \in Seq(Node), NEW b \in Seq(Node), Len(a) <= 1 \/ Len(b) <= 1,
         NEW n \in Owned(a \o b)
  PROVE  (\E i \in DOMAIN a : n = a[i].data) \/ (\E i \in DOMAIN b : n = b[i].data)
BY JoinedNodes DEF Owned

LEMMA StepPlace ==
  ASSUME Inv, [Next]_vars
  PROVE  PlaceInv'
<1>1. /\ program \in Seq(Node) /\ stmt.nodes \in Seq(Node) /\ freed \subseteq Nat
      /\ Len(stmt.nodes) <= 1
      /\ \A i \in DOMAIN program : program[i].data \in Nat
      /\ \A i \in DOMAIN stmt.nodes : stmt.nodes[i].data \in Nat
  BY NodesTyped DEF Inv, TypeOK, TreeInv
<1>2. PlaceInv
  BY DEF Inv
<1>3. CASE AddStatement /\ program' = program \o stmt.nodes
  <2>1. /\ UNCHANGED parser
        /\ Active /\ pc = "loop" /\ ~stmt.error
    BY <1>3 DEF AddStatement, windowVars, Active
  <2>2. ASSUME NEW j \in DOMAIN stmt.nodes
        PROVE  /\ stmt.nodes[j].data <= parser.previousToken.at
               /\ stmt.nodes[j].data < parser.token.at
               /\ \A i \in DOMAIN program : program[i].data < stmt.nodes[j].data
    BY <1>2, <2>1 DEF PlaceInv
  <2>3. \A i \in DOMAIN program' : /\ program'[i].data <= parser'.previousToken.at
                                   /\ program'[i].data < parser'.token.at
    BY <1>1, <1>2, <1>3, <2>1, <2>2, JoinedNodes DEF PlaceInv
  <2>4. ASSUME NEW i \in DOMAIN program', NEW j \in DOMAIN program', i < j
        PROVE  program'[i].data < program'[j].data
    <3>1. CASE j \in DOMAIN program /\ program'[j] = program[j]
      <4>1. i \in DOMAIN program /\ program'[i] = program[i]
        BY <1>1, <1>3, <2>4, <3>1
      <4>2. QED
        BY <1>2, <2>4, <3>1, <4>1 DEF PlaceInv, TreeInSourceOrder
    <3>2. CASE /\ j - Len(program) \in DOMAIN stmt.nodes
               /\ program'[j] = stmt.nodes[j - Len(program)] /\ j > Len(program)
      <4>1. i \in DOMAIN program /\ program'[i] = program[i]
        BY <1>1, <1>3, <2>4, <3>2
      <4>2. QED
        BY <2>2, <3>2, <4>1
    <3>3. QED
      BY <1>1, <1>3, <3>1, <3>2, JoinedNodes
  <2>5. \A n \in freed' : n <= parser'.previousToken.at
    BY <1>2, <1>3, <2>1 DEF AddStatement, Memory, PlaceInv
  <2>6. QED
    BY <2>3, <2>4, <2>5, StepStmtPlaced DEF PlaceInv, TreeInSourceOrder, StmtPlaced
<1>4. CASE program' = program \/ program' = <<>>
  <2>1. /\ TreeInSourceOrder'
        /\ \A i \in DOMAIN program' : /\ program'[i].data <= parser'.previousToken.at
                                      /\ program'[i].data < parser'.token.at
    <3>1. CASE program' = program
      BY <1>1, <1>2, <3>1, StepOrder DEF PlaceInv, TreeInSourceOrder
    <3>2. CASE program' = <<>>
      BY <3>2 DEF TreeInSourceOrder
    <3>3. QED
      BY <1>4, <3>1, <3>2
  <2>2. \A n \in freed' : n <= parser'.previousToken.at
    <3>1. CASE SyntaxError
      <4>1. /\ freed' = freed \cup Owned(stmt.nodes \o program)
            /\ UNCHANGED parser /\ Active
        BY <3>1 DEF SyntaxError, Dispose, windowVars, Active
      <4>2. QED
        BY <1>1, <1>2, <4>1, OwnedJoined DEF PlaceInv
    <3>2. CASE Main
      <4>1. /\ freed' \subseteq freed \cup Owned(program)
            /\ UNCHANGED parser
        BY <3>2 DEF Main, Dispose, windowVars
      <4>2. QED
        BY <1>1, <1>2, <4>1 DEF PlaceInv, Owned
    <3>3. CASE UNCHANGED <<freed, doubleFree>>
      <4>1. \A n \in freed : n \in Nat /\ n <= parser.previousToken.at
        BY <1>1, <1>2 DEF PlaceInv
      <4>2. QED
        BY <3>3, <4>1, StepOrder
    <3>4. QED
      BY <3>1, <3>2, <3>3, OnlyDisposals
  <2>3. QED
    BY <2>1, <2>2, StepStmtPlaced DEF PlaceInv, StmtPlaced
<1>5. QED
  BY <1>3, <1>4, StepTreeAfter DEF ProgramAfter

\* A keyword test never clears the marks, and only one that reads freed
\* memory sets staleRead.
LEMMA StepMarks ==
  ASSUME Inv, [Next]_vars
  PROVE  /\ staleRead => staleRead'
         /\ freed = {} /\ staleRead' => staleRead
         /\ status' = "ERROR_OK" => status = "ERROR_OK" /\ ~SyntaxError
         /\ building_tree => building_tree' \/ SyntaxError
<1> USE DEF Inv, TypeOK
<1>1. CASE FlowStatement \/ ReturnKeyword \/ SmallExpression
  BY <1>1 DEF FlowStatement, ReturnKeyword, SmallExpression, SyntaxError, Statements, Compares
<1>2. CASE BeginExpression \/ Analyse \/ Abort
  BY <1>2 DEF BeginExpression, Analyse, Abort, SyntaxError, Memory
<1>3. CASE ReturnStatement \/ ExpressionStatement \/ Condition \/ Newline \/ FunctionName
  BY <1>3 DEF ReturnStatement, ExpressionStatement, Condition, Newline, FunctionName,
              Returned, SyntaxError, Statements, Memory
<1>4. CASE FunctionCall
  BY <1>4 DEF FunctionCall, SyntaxError, Memory
<1>5. CASE ConditionKeyword \/ DefKeyword \/ NoCompound
  BY <1>5 DEF ConditionKeyword, DefKeyword, NoCompound, SyntaxError, Statements, Compares
<1>6. CASE ScannerError
  BY <1>6 DEF ScannerError, SyntaxError, Raise, Memory
<1>7. CASE SyntaxError
  BY <1>7 DEF SyntaxError, Raise
<1>8. CASE Skip \/ AddStatement \/ EndOfFile \/ Main
  <2>1. ~SyntaxError
    BY <1>8, NoStatementType DEF Skip, AddStatement, EndOfFile, Main, SyntaxError, NoStatement
  <2>2. QED
    BY <1>8, <2>1 DEF Skip, AddStatement, EndOfFile, Main, Memory
<1>9. CASE Exited \/ UNCHANGED vars
  <2>1. UNCHANGED vars
    BY <1>9 DEF Exited
  <2>2. ~SyntaxError
    BY <2>1 DEF vars, parserVars, SyntaxError, Go
  <2>3. QED
    BY <2>1, <2>2 DEF vars, parserVars
<1>10. QED
  BY <1>1, <1>2, <1>3, <1>4, <1>5, <1>6, <1>7, <1>8, <1>9 DEF Next, StatementStep, LoopStep

\* The deletions free each token of the tree and of the statement once.
LEMMA DisposedOnce ==
  ASSUME Inv, ~staleRead, NEW nodes \in {program, stmt.nodes \o program},
         Active \/ nodes = program, Dispose(nodes)
  PROVE  ~doubleFree'
<1>1. /\ program \in Seq(Node) /\ stmt.nodes \in Seq(Node) /\ Len(stmt.nodes) <= 1
      /\ \A i \in DOMAIN program : program[i].data \in Nat
      /\ \A i \in DOMAIN stmt.nodes : stmt.nodes[i].data \in Nat
  BY NodesTyped DEF Inv, TypeOK, TreeInv
<1>2. /\ ~doubleFree
      /\ \A i \in DOMAIN program : program[i].data \notin freed
      /\ Active => \A j \in DOMAIN stmt.nodes : stmt.nodes[j].data \notin freed
  BY DEF Inv, MemoryInv
<1>3. Owned(nodes) \cap freed = {}
  <2>1. CASE nodes = program
    BY <1>2, <2>1 DEF Owned
  <2>2. CASE nodes = stmt.nodes \o program /\ Active
    <3>1. SUFFICES ASSUME NEW n \in Owned(stmt.nodes \o program) PROVE n \notin freed
      BY <2>2
    <3>2. \/ \E i \in DOMAIN stmt.nodes : n = stmt.nodes[i].data
          \/ \E i \in DOMAIN program : n = program[i].data
      BY <1>1, OwnedJoined
    <3>3. QED
      BY <1>2, <2>2, <3>2
  <2>3. QED
    BY <2>1, <2>2
<1>4. ASSUME NEW i \in DOMAIN nodes, NEW j \in DOMAIN nodes, i < j
      PROVE  nodes[i].data # nodes[j].data
  <2>1. CASE nodes = program
    BY <1>1, <1>4, <2>1 DEF Inv, PlaceInv, TreeInSourceOrder
  <2>2. CASE nodes = stmt.nodes \o program /\ Active
    <3>1. \A k \in DOMAIN nodes :
             \/ k \in DOMAIN stmt.nodes /\ nodes[k] = stmt.nodes[k]
             \/ /\ k - Len(stmt.nodes) \in DOMAIN program
                /\ nodes[k] = program[k - Len(stmt.nodes)]
      BY <1>1, <2>2, JoinedNodes
    <3>2. ~(i \in DOMAIN stmt.nodes /\ j \in DOMAIN stmt.nodes)
      BY <1>1, <1>4
    <3>3. CASE i \in DOMAIN stmt.nodes /\ nodes[i] = stmt.nodes[i]
      <4>1. PICK k \in DOMAIN program : nodes[j] = program[k]
        BY <3>1, <3>2, <3>3
      <4>2. program[k].data < stmt.nodes[i].data
        BY <2>2, <3>3 DEF Inv, PlaceInv
      <4>3. QED
        BY <1>1, <3>3, <4>1, <4>2
    <3>4. CASE ~(i \in DOMAIN stmt.nodes)
      <4>1. ~(j \in DOMAIN stmt.nodes)
        BY <1>1, <1>4, <2>2, <3>4
      <4>2. /\ i - Len(stmt.nodes) \in DOMAIN program
            /\ j - Len(stmt.nodes) \in DOMAIN program
            /\ nodes[i] = program[i - Len(stmt.nodes)]
            /\ nodes[j] = program[j - Len(stmt.nodes)]
        BY <3>1, <3>4, <4>1
      <4>3. i - Len(stmt.nodes) < j - Len(stmt.nodes)
        BY <1>1, <1>4, <2>2
      <4>4. program[i - Len(stmt.nodes)].data < program[j - Len(stmt.nodes)].data
        BY <4>2, <4>3 DEF Inv, PlaceInv, TreeInSourceOrder
      <4>5. QED
        BY <1>1, <4>2, <4>4
    <3>5. QED
      BY <1>1, <1>4, <2>2, <3>1, <3>3, <3>4
  <2>3. QED
    BY <2>1, <2>2
<1>5. ASSUME NEW i \in DOMAIN nodes, NEW j \in DOMAIN nodes, i # j
      PROVE  nodes[i].data # nodes[j].data
  <2>1. i \in Int /\ j \in Int
    BY <1>1
  <2>2. i < j \/ j < i
    BY <1>5, <2>1
  <2>3. QED
    BY <1>4, <2>2
<1>6. QED
  BY <1>2, <1>3, <1>5 DEF Dispose

LEMMA StepMemory ==
  ASSUME Inv, [Next]_vars
  PROVE  MemoryInv'
<1>1. MemoryInv
  BY DEF Inv
<1>2. status' = "ERROR_OK" => freed' = {} /\ building_tree' /\ ~staleRead'
  <2>1. SUFFICES ASSUME status' = "ERROR_OK"
                 PROVE  freed' = {} /\ building_tree' /\ ~staleRead'
    OBVIOUS
  <2>2. status = "ERROR_OK" /\ ~SyntaxError
    BY <2>1, StepMarks
  <2>3. freed = {} /\ building_tree /\ ~staleRead
    BY <1>1, <2>2 DEF MemoryInv
  <2>4. building_tree' /\ ~staleRead'
    BY <2>2, <2>3, StepMarks DEF Inv, TypeOK
  <2>5. freed' = freed
    BY <2>2, OnlyDisposals DEF Main
  <2>6. QED
    BY <2>3, <2>4, <2>5
<1>3. ~building_tree' => program' = <<>>
  <2>1. CASE SyntaxError
    BY <2>1 DEF SyntaxError
  <2>2. CASE building_tree => building_tree'
    BY <1>1, <2>2, StepTreeAfter DEF MemoryInv, ProgramAfter
  <2>3. QED
    BY <2>1, <2>2, StepMarks
<1>4. ASSUME ~staleRead'
      PROVE  /\ ~doubleFree'
             /\ \A i \in DOMAIN program' : program'[i].data \notin freed'
             /\ Active' => \A j \in DOMAIN stmt'.nodes : stmt'.nodes[j].data \notin freed'
  <2>1. /\ ~staleRead /\ ~doubleFree
        /\ \A i \in DOMAIN program : program[i].data \notin freed
        /\ Active => \A j \in DOMAIN stmt.nodes : stmt.nodes[j].data \notin freed
    BY <1>1, <1>4, StepMarks DEF MemoryInv
  <2>2. CASE SyntaxError
    <3>1. ~doubleFree'
      BY <2>1, <2>2, DisposedOnce DEF SyntaxError, Active
    <3>2. program' = <<>> /\ ~Active'
      BY <2>2 DEF SyntaxError, Go, Active
    <3>3. QED
      BY <3>1, <3>2
  <2>3. CASE Main
    <3>1. ~Active'
      BY <2>3 DEF Main, Go, Active
    <3>2. CASE Dispose(program) /\ program' = <<>>
      BY <2>1, <3>1, <3>2, DisposedOnce
    <3>3. CASE UNCHANGED <<freed, doubleFree, program>>
      BY <2>1, <3>1, <3>3
    <3>4. QED
      BY <2>3, <3>2, <3>3 DEF Main
  <2>4. CASE UNCHANGED <<freed, doubleFree>>
    <3>1. \A i \in DOMAIN program' : program'[i].data \notin freed'
      <4>1. CASE program' = program \o stmt.nodes /\ AddStatement
        <5>1. Active /\ program \in Seq(Node) /\ stmt.nodes \in Seq(Node) /\ Len(stmt.nodes) <= 1
          BY <4>1, NodesTyped DEF AddStatement, Active, Inv, TreeInv
        <5>2. QED
          BY <2>1, <2>4, <4>1, <5>1, JoinedNodes
      <4>2. CASE program' = program \/ program' = <<>>
        BY <2>1, <2>4, <4>2
      <4>3. QED
        BY <4>1, <4>2, StepTreeAfter DEF ProgramAfter
    <3>2. ASSUME Active', NEW j \in DOMAIN stmt'.nodes PROVE stmt'.nodes[j].data \notin freed
      <4>1. CASE StmtKept
        BY <2>1, <3>2, <4>1 DEF StmtKept
      <4>2. CASE StmtFailed
        BY <2>1, <3>2, <4>2 DEF StmtFailed, Active, Error
      <4>3. CASE stmt' \in {NoStatement, Error(<<>>)}
        BY <3>2, <4>3, NoStatementType
      <4>4. CASE StmtBegun
        <5>1. PICK type \in NodeType \ {"EXPRESSION"}, child \in {"none", "NONE"} :
                /\ parser.token.type = "TKEYWORD"
                /\ parser.previousToken.text # "NULL" /\ Compares
                /\ stmt' = Ast(type, parser.token.at, child)
          BY <4>4 DEF StmtBegun
        <5>2. stmt'.nodes[j].data = parser.token.at
          BY <3>2, <5>1 DEF Ast
        <5>3. parser.previousToken.at \notin freed
          BY <1>4, <5>1 DEF Compares
        <5>4. parser.token.at \notin freed
          <6>1. SUFFICES ASSUME parser.token.at \in freed PROVE FALSE
            OBVIOUS
          <6>2. parser.token.at <= parser.previousToken.at
            BY <6>1 DEF Inv, PlaceInv
          <6>3. parser.previousToken = parser.token
            BY <6>2, StepOrder DEF Inv, WindowInv
          <6>4. QED
            BY <5>3, <6>1, <6>3
        <5>5. QED
          BY <5>2, <5>4
      <4>5. QED
        BY <4>1, <4>2, <4>3, <4>4, StepTreeAfter DEF StmtAfter
    <3>3. QED
      BY <2>1, <2>4, <3>1, <3>2
  <2>5. QED
    BY <2>2, <2>3, <2>4, OnlyDisposals
<1>5. QED
  BY <1>2, <1>3, <1>4 DEF MemoryInv, Active
-----------------------------------------------------------------------------
(* The invariant *)

LEMMA InitInv == Init => Inv
<1> SUFFICES ASSUME Init PROVE Inv
  OBVIOUS
<1>1. /\ parser \in E!parser_init /\ ~analysing /\ analysing = FALSE /\ result = "none"
      /\ pc = "statement" /\ caller = "none" /\ stmt = NoStatement /\ program = <<>>
      /\ building_tree = TRUE /\ status = "ERROR_OK" /\ freed = {}
      /\ staleRead = FALSE /\ doubleFree = FALSE /\ pastEnd = FALSE
  BY DEF Init, E!Init, E!ExpressionInit
<1>2. PICK l \in Lexeme \cup {"TENDOFFILE"}, g \in Garbage :
        parser = [token |-> TokenOf(l, 1), previousToken |-> g,
                  returned_tokens |-> <<>>, scanned |-> 1]
  <2>1. \A l, n : E!TokenOf(l, n) = TokenOf(l, n)
    BY DEF E!TokenOf, TokenOf, E!Keyword, Keyword, E!Valueless, Valueless
  <2>2. QED
    BY <1>1, <2>1, WindowAssumption DEF E!parser_init, E!Garbage, Garbage
<1>3. TokenOf(l, 1) \in Token /\ TokenOf(l, 1).at = 1
  BY TokenOfType
<1>4. g \in Token /\ g.at = 0
  BY DEF Garbage, Token, TokenType, Text
<1>5. WindowInv
  BY <1>2, <1>3, <1>4 DEF WindowInv, Window, InOrder
<1>6. TypeOK
  <2>1. <<>> \in Seq(Node)
    OBVIOUS
  <2>2. program \in Seq(Node) /\ stmt \in Statement
    BY <1>1, <2>1, NoStatementType
  <2>3. QED
    BY <1>1, <2>2 DEF TypeOK, PC, Status
<1>7. ExpressionInv /\ CallInv
  BY <1>1 DEF ExpressionInv, CallInv, Unreached
<1>8. TreeInv /\ PlaceInv /\ MemoryInv
  BY <1>1, NoStatementType
  DEF TreeInv, PlaceInv, MemoryInv, NoExpression, TreeInSourceOrder, Active
<1>9. QED
  BY <1>5, <1>6, <1>7, <1>8 DEF Inv

LEMMA NextInv == Inv /\ [Next]_vars => Inv'
BY StepType, StepWindow, StepExpression, StepCall, StepTree, StepPlace, StepMemory DEF Inv

THEOREM Invariance == Spec => []Inv
BY InitInv, NextInv, PTL DEF Spec

\* Every variable of the parser keeps its type, in whatever order it is called back.
THEOREM TypeCorrect == Spec => []TypeOK
<1>1. Inv => TypeOK
  BY DEF Inv
<1>2. QED
  BY <1>1, Invariance, PTL

\* What is accepted is made of pass, break, continue and bare return, and the code
\* behind a colon or a call's parenthesis is never reached.
THEOREM FlowOnly == Spec => []OnlyFlowStatements
<1>1. Inv => OnlyFlowStatements
  BY DEF Inv, CallInv, TreeInv, NoExpression, OnlyFlowStatements
<1>2. QED
  BY <1>1, Invariance, PTL

\* The statements of the tree are in the order of the source.
THEOREM SourceOrder == Spec => []TreeInSourceOrder
<1>1. Inv => TreeInSourceOrder
  BY DEF Inv, PlaceInv
<1>2. QED
  BY <1>1, Invariance, PTL

\* main is handed no tree with a freed token in it.
THEOREM AcceptedLive == Spec => []AcceptedTreeIsLive
<1>1. Inv => AcceptedTreeIsLive
  BY DEF Inv, MemoryInv, AcceptedTreeIsLive
<1>2. QED
  BY <1>1, Invariance, PTL

\* A token is freed twice only after freed memory answered a keyword test.
THEOREM NoDoubleFree == Spec => []DoubleFreeNeedsStaleRead
<1>1. Inv => DoubleFreeNeedsStaleRead
  BY DEF Inv, MemoryInv, DoubleFreeNeedsStaleRead
<1>2. QED
  BY <1>1, Invariance, PTL
-----------------------------------------------------------------------------
(* Refinement *)

\* Between expressions the parser only calls parser_next, peeks with a copy
\* of its token in the queue, or calls parse_expression.
LEMMA StepRefines ==
  ASSUME Inv, [Next]_vars
  PROVE  [E!Next]_E!vars
<1> USE DEF E!Next, E!vars, E!expressionVars
<1>1. ASSUME Advance, pc \notin {"expression", "aborted"} PROVE [E!Next]_E!vars
  <2>1. ~analysing
    BY <1>1 DEF Inv, ExpressionInv
  <2>2. E!CallerNext
    BY <1>1, <2>1, SameNext DEF Advance, E!CallerNext, expressionVars
  <2>3. QED
    BY <2>2
<1>2. CASE UNCHANGED windowVars
  BY <1>2 DEF windowVars, expressionVars
<1>3. CASE BeginExpression
  BY <1>3 DEF BeginExpression
<1>4. CASE Analyse
  BY <1>4 DEF Analyse
<1>5. CASE FunctionCall
  <2>1. /\ parser \in Window /\ parser.returned_tokens = <<parser.token>> /\ ~analysing
    BY <1>5 DEF FunctionCall, Inv, WindowInv, ExpressionInv
  <2>2. CASE parser.token.type = "TIDENTIFICATOR"
    <3>1. PICK p \in parser_next(parser) :
            /\ UNCHANGED expressionVars
            /\ p.token.type # "TLEFTPAR" => parser' = parser_return_back(p, p.previousToken)
      BY <1>5, <2>2 DEF FunctionCall
    <3>2. p.token.type # "TLEFTPAR"
      BY <2>1, <2>2, PeekMoves
    <3>3. parser' = E!parser_return_back(p, p.previousToken)
      BY <3>1, <3>2 DEF parser_return_back, E!parser_return_back
    <3>4. parser.returned_tokens # <<>>
      <4>1. <<parser.token>> # <<>>
        OBVIOUS
      <4>2. QED
        BY <2>1, <4>1
    <3>5. E!CallerPeek
      BY <2>1, <3>1, <3>3, <3>4, SameNext DEF E!CallerPeek, expressionVars
    <3>6. QED
      BY <3>5
  <2>3. CASE parser.token.type # "TIDENTIFICATOR"
    BY <1>2, <1>5, <2>3 DEF FunctionCall
  <2>4. QED
    BY <2>2, <2>3
<1>6. CASE FlowStatement \/ ReturnKeyword \/ ConditionKeyword \/ DefKeyword \/ ScannerError \/ Skip
  BY <1>1, <1>6 DEF FlowStatement, ReturnKeyword, ConditionKeyword, DefKeyword, ScannerError,
                    Skip
<1>7. CASE Newline
  BY <1>1, <1>2, <1>7 DEF Newline
<1>8. CASE SmallExpression \/ Abort \/ ReturnStatement \/ ExpressionStatement \/ Condition
             \/ FunctionName \/ NoCompound
  BY <1>2, <1>8 DEF SmallExpression, Abort, ReturnStatement, ExpressionStatement, Condition,
                    FunctionName, NoCompound
<1>9. CASE SyntaxError \/ AddStatement \/ EndOfFile \/ Main \/ Exited \/ UNCHANGED vars
  BY <1>2, <1>9 DEF SyntaxError, AddStatement, EndOfFile, Main, Exited, vars
<1>10. QED
  BY <1>3, <1>4, <1>5, <1>6, <1>7, <1>8, <1>9 DEF Next, StatementStep, LoopStep

\* The parser is a caller as ExpressionParser assumes it: the theorems about
\* that module hold of the composed program.
THEOREM Refinement == Spec => RefinesExpressionParser
<1>1. Init => E!Init
  BY DEF Init
<1>2. Inv /\ [Next]_vars => [E!Next]_E!vars
  BY StepRefines
<1>3. QED
  BY <1>1, <1>2, Invariance, PTL DEF Spec, RefinesExpressionParser, E!Safety
=============================================================================
