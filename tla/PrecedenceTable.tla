-------------------------- MODULE PrecedenceTable --------------------------
(***************************************************************************)
(* The operator precedence table of expression_parser.c.  A row is the     *)
(* element on top of the stack, a column the element of the input token.   *)
(***************************************************************************)
EXTENDS TokenWindow

Elements == {"P1", "P2", "P3", "Plp", "Prp", "Po", "Pend"}

Row(p1, p2, p3, lp, rp, o, end) ==
    [P1 |-> p1, P2 |-> p2, P3 |-> p3, Plp |-> lp, Prp |-> rp, Po |-> o,
     Pend |-> end]

err == "error"

\* Mutant of precedent_table: "+" and "-" associate to the right.
precedent_table_RightAssociative ==
    [P1   |-> Row(">", "<", "<", "<", ">", "<", ">"),
     P2   |-> Row(">", "<", "<", "<", ">", "<", ">"),
     P3   |-> Row(">", ">", ">", "<", ">", "<", ">"),
     Plp  |-> Row("<", "<", "<", "<", "=", "<", err),
     Prp  |-> Row(">", ">", ">", err, ">", err, ">"),
     Po   |-> Row(">", ">", ">", err, ">", err, ">"),
     Pend |-> Row("<", "<", "<", "<", err, "<", "#")]

\* The answer " " of the table (no such pair in an expression) is err.
precedent_table ==
    [P1   |-> Row(">", "<", "<", "<", ">", "<", ">"),
     P2   |-> Row(">", ">", "<", "<", ">", "<", ">"),
     P3   |-> Row(">", ">", ">", "<", ">", "<", ">"),
     Plp  |-> Row("<", "<", "<", "<", "=", "<", err),
     Prp  |-> Row(">", ">", ">", err, ">", err, ">"),
     Po   |-> Row(">", ">", ">", err, ">", err, ">"),
     Pend |-> Row("<", "<", "<", "<", err, "<", "#")]

token_to_precedent_elem(type) ==
    CASE type \in {"TINT", "TFLOAT", "TIDENTIFICATOR", "TSTRING",
                   "TBLOCKCOMMENTORLITERAL"} -> "Po"
      [] type \in {"TLT", "TGT", "TLTE", "TGTE", "TEQ", "TNE"} -> "P1"
      [] type \in {"TADD", "TSUB"} -> "P2"
      [] type \in {"TMUL", "TDIV", "TFLOORDIV"} -> "P3"
      [] type = "TLEFTPAR" -> "Plp"
      [] type = "TRIGHTPAR" -> "Prp"
      [] OTHER -> "Pend"

Element(t) == token_to_precedent_elem(t.type)

Parenthesis(t) == Element(t) \in {"Plp", "Prp"}
=============================================================================
