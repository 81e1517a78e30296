--------------------------- MODULE InfixNotation ---------------------------
(***************************************************************************)
(* A reference for expressions that knows nothing of stacks or tables:     *)
(* which token sequences are infix expressions, and the postfix of one,    *)
(* by splitting it at its last, loosest binding operator.                  *)
(***************************************************************************)
EXTENDS PrecedenceTable, FiniteSets

Operators == {"P1", "P2", "P3"}

\* "(" minus ")" among s[i..j], counted so that a deficit shows as 0 < closed.
Opened(s, i, j) == Cardinality({k \in i..j : Element(s[k]) = "Plp"})
Closed(s, i, j) == Cardinality({k \in i..j : Element(s[k]) = "Prp"})

\* s can be continued to an infix expression: an operand or "(" stands where
\* an operand is due, an operator or ")" behind a complete operand, and no
\* prefix closes more than it opens.
ViablePrefix(s) ==
    \A i \in DOMAIN s :
        LET operandDue == i = 1 \/ Element(s[i - 1]) \in Operators \cup {"Plp"}
        IN /\ Element(s[i]) # "Pend"
           /\ operandDue <=> Element(s[i]) \in {"Po", "Plp"}
           /\ Closed(s, 1, i) <= Opened(s, 1, i)

WellFormed(s) ==
    /\ s # <<>>
    /\ ViablePrefix(s)
    /\ Element(s[Len(s)]) \in {"Po", "Prp"}
    /\ Closed(s, 1, Len(s)) = Opened(s, 1, Len(s))

Binding(e) == CASE e = "P1" -> 1 [] e = "P2" -> 2 [] e = "P3" -> 3

\* Operators of s[i..j] outside every parenthesis of it.
TopLevel(s, i, j) ==
    {k \in i..j : /\ Element(s[k]) \in Operators
                  /\ Opened(s, i, k) = Closed(s, i, k)}

\* Binding rises P1, P2, P3; operators of one level associate to the left.
SplitPoint(s, i, j) ==
    CHOOSE k \in TopLevel(s, i, j) :
        \A l \in TopLevel(s, i, j) \ {k} :
            LET bk == Binding(Element(s[k]))
                bl == Binding(Element(s[l]))
            IN bk < bl \/ (bk = bl /\ l < k)

\* The postfix of s[i..j], for all i and j.  What lacks an operand beside an
\* operator is no expression; the missing operand counts as empty.
Postfixes(s) ==
    LET of[i \in 1..(Len(s) + 1)] ==
          [j \in 0..Len(s) |->
             IF j < i THEN <<>>
             ELSE IF i = j THEN <<s[i]>>
             ELSE IF TopLevel(s, i, j) = {} THEN of[i + 1][j - 1]
             ELSE LET k == SplitPoint(s, i, j)
                  IN of[i][k - 1] \o of[k + 1][j] \o <<s[k]>>]
    IN of

Postfix(s) == Postfixes(s)[1][Len(s)]
=============================================================================
