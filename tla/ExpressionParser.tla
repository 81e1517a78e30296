-------------------------- MODULE ExpressionParser --------------------------
(***************************************************************************)
(* parse_expression of expression_parser.c: a table driven precedence      *)
(* parser that turns infix tokens into a postfix queue.                    *)
(*                                                                         *)
(* The stack holds tokens; the element the code stores beside a token is   *)
(* always token_to_precedent_elem of its type, so it is computed here.     *)
(* One step is one answer of the precedence table.  Around it the caller   *)
(* (parser.c) either advances the window or asks for an expression.        *)
(***************************************************************************)
EXTENDS PrecedenceTable, SequencesExt

VARIABLES
    parser,             \* the struct parser
    expression_stack,   \* tokens, bottom first
    postfix,            \* output queue
    consumed,           \* history: tokens taken since parse_expression began
    analysing,          \* parse_expression is running
    result              \* what the last call returned

expressionVars == <<expression_stack, postfix, consumed, analysing, result>>
vars == <<parser, expressionVars>>

\* Mutant of EndOfStack: its value is never set.
EndOfStack_NoValue == [type |-> "TNOTHING", at |-> 0]

\* The token expression_stack_init puts below the expression.
EndOfStack == [type |-> "TNOTHING", text |-> "NULL", at |-> 0]

Results == {"none", "null", "expression", "error"}

TypeOK ==
    /\ parser \in Window
    /\ expression_stack \in Seq(Token)
    /\ postfix \in Seq(Token)
    /\ consumed \in Seq(Token)
    /\ analysing \in BOOLEAN
    /\ result \in Results
-----------------------------------------------------------------------------
\* No expression is being parsed and none has been.
ExpressionInit ==
    /\ expression_stack = <<>>
    /\ postfix = <<>>
    /\ consumed = <<>>
    /\ analysing = FALSE
    /\ result = "none"

\* Entry of parse_expression.
BeginExpression ==
    /\ ~analysing
    /\ analysing' = TRUE
    /\ expression_stack' = <<EndOfStack>>
    /\ postfix' = <<>>
    /\ consumed' = <<>>
    /\ result' = "none"
    /\ UNCHANGED parser

\* Mutant of EmptyParentheses: the previous token is not looked at.
EmptyParentheses_AnyClosing == parser.token.type = "TRIGHTPAR"

\* "()": the one pair the loop head refuses before it asks the table.
EmptyParentheses ==
    /\ parser.token.type = "TRIGHTPAR"
    /\ parser.previousToken.type = "TLEFTPAR"

\* The table's answer for the top of the stack and the current token.
Operation == precedent_table[Element(Last(expression_stack))][Element(parser.token)]

\* precedent_analyze is asked for the current token and answers op.
Analyse(op) ==
    /\ analysing
    /\ ~EmptyParentheses
    /\ Operation = op

\* Mutant of Popped: the token below goes too, whatever was on top.
Popped_Twice(stack) == Front(Front(stack))

\* Mutant of Popped: a ")" is looked at but stays.
Popped_KeepsClosing(stack) ==
    IF Element(Last(stack)) = "Prp" THEN stack ELSE Front(stack)

\* The pop of expression_stack_top_destoy: a ")" takes the "(" below it along.
Popped(stack) ==
    LET below == Front(stack)
    IN IF Element(Last(stack)) = "Prp" /\ Element(Last(below)) = "Plp"
       THEN Front(below)
       ELSE below

\* Mutant of Reduce: only operands reach the output.
Reduce_LosesOperator ==
    /\ Analyse(">")
    /\ postfix' = IF Element(Last(expression_stack)) # "Po"
                  THEN postfix
                  ELSE Append(postfix, Last(expression_stack))
    /\ expression_stack' = Popped(expression_stack)
    /\ UNCHANGED <<parser, consumed, analysing, result>>

\* '>': the top of the stack is complete; an operand or operator is output.
Reduce ==
    /\ Analyse(">")
    /\ postfix' = IF Parenthesis(Last(expression_stack))
                  THEN postfix
                  ELSE Append(postfix, Last(expression_stack))
    /\ expression_stack' = Popped(expression_stack)
    /\ UNCHANGED <<parser, consumed, analysing, result>>

\* '<' and '=': the token is pushed and the next one read.
Shift ==
    /\ Analyse("<") \/ Analyse("=")
    /\ expression_stack' = Append(expression_stack, parser.token)
    /\ consumed' = Append(consumed, parser.token)
    /\ parser' \in parser_next(parser)
    /\ UNCHANGED <<postfix, analysing, result>>

\* parse_expression returns r; stack and, but for an expression, queue go.
Return(r) ==
    /\ analysing' = FALSE
    /\ result' = r
    /\ expression_stack' = <<>>
    /\ postfix' = IF r = "expression" THEN postfix ELSE <<>>
    /\ consumed' = <<>>

\* The table has no entry, or the expression is "()": the token stays.
Reject ==
    /\ analysing
    /\ EmptyParentheses \/ Operation = err
    /\ Return("error")
    /\ UNCHANGED parser

\* Mutant of Outcome: the token that ends the expression is looked at.
Outcome_LastOfExpression(p) ==
    IF postfix = <<>> THEN "null"
    ELSE IF Element(postfix[Len(postfix)]) # "Plp" THEN "expression"
    ELSE "error"

\* What the code makes of a complete analysis, by the token before the window.
Outcome(p) ==
    IF postfix = <<>> THEN "null"
    ELSE IF Element(p.previousToken) \in {"Prp", "Po"} THEN "expression"
    ELSE "error"

\* '#': the loop still reads past the end, then returns that token.
Finish ==
    /\ Analyse("#")
    /\ \E p \in parser_next(parser) :
          /\ parser' = parser_return_back(p, p.token)
          /\ Return(Outcome(p))

\* The caller accepts or skips a token between two expressions.
CallerNext ==
    /\ ~analysing
    /\ parser' \in parser_next(parser)
    /\ UNCHANGED expressionVars

\* function_call: with a copy of the current token in the queue, the caller
\* accepts the token, looks at the next one and returns the accepted one.
CallerPeek ==
    /\ ~analysing
    /\ parser.returned_tokens # <<>>
    /\ \E p \in parser_next(parser) :
          parser' = parser_return_back(p, p.previousToken)
    /\ UNCHANGED expressionVars
-----------------------------------------------------------------------------
Init == parser \in parser_init /\ ExpressionInit

ExpressionStep == Reduce \/ Shift \/ Reject \/ Finish

Next == BeginExpression \/ ExpressionStep \/ CallerNext \/ CallerPeek

\* What every caller of parse_expression keeps to.
Safety == Init /\ [][Next]_vars

\* parse_expression is a plain loop: once called it runs.
Fairness == WF_vars(ExpressionStep)

Spec == Safety /\ Fairness
-----------------------------------------------------------------------------
\* Neighbours a < b or a = b on the stack, and the bottom marker only below
\* them: no pop of precedent_analyze ever meets an empty stack, every ")"
\* on the stack lies on the "(" it closes and nothing lies on a ")".
Linked(stack) ==
    /\ stack # <<>>
    /\ stack[1] = EndOfStack
    /\ \A i \in 1..(Len(stack) - 1) :
          precedent_table[Element(stack[i])][Element(stack[i + 1])] \in {"<", "="}

StackLinked == analysing => Linked(expression_stack)

\* The queue of returned tokens never holds more than the copy of the current
\* token, so a token returned by parse_expression can never overtake another.
WindowInOrder == InOrder(parser)

\* Tokens reach the parser in source order: none skipped, none delivered
\* after its successor, however often one is pushed back.
DeliveredInOrder ==
    [][parser'.token.at \in {parser.token.at, parser.token.at + 1}]_vars

\* How often t occurs in s.
Copies(s, t) == Cardinality({i \in DOMAIN s : s[i] = t})

\* Every operand and operator taken is, exactly once, on the stack or in the
\* queue, and each keeps its copy: nothing is lost and, with the tokens freed
\* by expression_stack_destroy and the queue kept, nothing is owned twice.
\* No parenthesis reaches the queue.
Ownership ==
    analysing =>
      LET pending == Tail(expression_stack)
      IN /\ \A t \in Range(postfix) : ~Parenthesis(t)
         /\ \A t \in Range(postfix) \cup Range(pending) \cup Range(consumed) :
               \/ Parenthesis(t)
               \/ Copies(postfix, t) + Copies(pending, t) = Copies(consumed, t)

\* Every call of parse_expression returns.
Returns == analysing ~> ~analysing
=============================================================================
