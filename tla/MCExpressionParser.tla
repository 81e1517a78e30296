------------------------- MODULE MCExpressionParser -------------------------
(***************************************************************************)
(* Model checking of ExpressionParser against the reference notation.      *)
(***************************************************************************)
EXTENDS ExpressionParser, InfixNotation

\* The table has been asked about the end of the expression and the stack is
\* back at its bottom: the queue holds the whole output.
Complete ==
    /\ analysing
    /\ Len(expression_stack) = 1
    /\ Element(parser.token) = "Pend"

\* The queue built by the precedence table for a well formed expression is
\* its postfix: precedence, left associativity and parentheses are respected.
PostfixIsReference ==
    Complete /\ WellFormed(consumed) => postfix = Postfix(consumed)

\* parse_expression rejects only what no expression continues: a refused token
\* extends no viable prefix, a refused end follows no well formed expression.
RejectsOnlyMalformed ==
    [][Reject => IF Element(parser.token) = "Pend"
                 THEN ~WellFormed(consumed)
                 ELSE ~ViablePrefix(Append(consumed, parser.token))]_vars

\* "@return postfix expression or NULL if parse error occurred": a well formed
\* expression is returned as one.
ExpressionReturned ==
    [][Finish /\ WellFormed(consumed) => result' = "expression"]_vars
=============================================================================
