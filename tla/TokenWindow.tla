---------------------------- MODULE TokenWindow ----------------------------
(***************************************************************************)
(* The parser's view of the token stream (parser.c, parser.h): the current *)
(* token, the previous one, and the queue of tokens that were read too     *)
(* far and returned.  The scanner is the environment: it hands out at most *)
(* MaxTokens lexemes drawn from Alphabet and then TENDOFFILE for ever.     *)
(***************************************************************************)
EXTENDS Naturals, Sequences

CONSTANTS
    Alphabet,   \* lexemes the scanner may produce: token types and keywords
    MaxTokens   \* bound on the length of the source, in tokens

Keyword == {"def", "else", "if", "None", "pass", "return", "while", "break",
            "continue"}

TokenType ==
    {"TNEWLINE", "TINDENT", "TDEDENT", "TINT", "TFLOAT", "TSTRING", "TKEYWORD",
     "TIDENTIFICATOR", "TBLOCKCOMMENTORLITERAL", "TADD", "TSUB", "TMUL",
     "TDIV", "TLT", "TGT", "TFLOORDIV", "TLTE", "TGTE", "TEQ", "TNE",
     "TLEFTPAR", "TRIGHTPAR", "TCOLON", "TCOMMA", "TASSIGN", "TENDOFFILE",
     "TERR", "TLEXERR", "TNOTHING"}

\* Types whose tokens carry no value: token_fill and indent_counter leave NULL.
Valueless == {"TNEWLINE", "TINDENT", "TDEDENT", "TLEXERR", "TENDOFFILE",
              "TNOTHING"}

Lexeme == Keyword \cup (TokenType \ {"TKEYWORD", "TENDOFFILE", "TNOTHING"})

ASSUME WindowAssumption ==
    /\ Alphabet \subseteq Lexeme
    /\ MaxTokens \in Nat

(***************************************************************************)
(* A token.  "text" is what a comparison of its value can tell apart: NULL *)
(* when there is none, the keyword of a TKEYWORD, "other" for the rest.    *)
(* "at" is the token's place in the source; two copies of one token share  *)
(* it, as they share the heap buffer of the value.                         *)
(***************************************************************************)
Text == Keyword \cup {"NULL", "other"}

Token == [type : TokenType, text : Text, at : Nat]

TokenOf(lexeme, n) ==
    IF lexeme \in Keyword
    THEN [type |-> "TKEYWORD", text |-> lexeme, at |-> n]
    ELSE [type |-> lexeme, at |-> n,
          text |-> IF lexeme \in Valueless THEN "NULL" ELSE "other"]

\* The struct parser, with the scanner's place in the source.
Window == [token : Token, previousToken : Token,
           returned_tokens : Seq(Token), scanned : Nat]

\* The tokens a call of get_token may return.
get_token(p) ==
    IF p.token.type = "TENDOFFILE"
    THEN {p.token}
    ELSE {TokenOf(l, p.scanned + 1) :
            l \in {"TENDOFFILE"} \cup
                  (IF p.scanned < MaxTokens THEN Alphabet ELSE {})}

\* Mutant of parser_next: the returned token is looked at but never popped.
parser_next_KeepsQueue(p) ==
    IF p.returned_tokens = <<>>
    THEN {[p EXCEPT !.previousToken = p.token, !.token = t, !.scanned = t.at] :
            t \in get_token(p)}
    ELSE {[p EXCEPT !.previousToken = p.token,
                    !.token = Head(p.returned_tokens)]}

\* The parsers that one call of parser_next may leave.
parser_next(p) ==
    IF p.returned_tokens = <<>>
    THEN {[p EXCEPT !.previousToken = p.token, !.token = t, !.scanned = t.at] :
            t \in get_token(p)}
    ELSE {[p EXCEPT !.previousToken = p.token,
                    !.token = Head(p.returned_tokens),
                    !.returned_tokens = Tail(@)]}

\* Mutant of parser_return_back: the token before the given one goes back.
parser_return_back_Previous(p, t) ==
    [p EXCEPT !.returned_tokens = Append(@, p.previousToken)]

parser_return_back(p, t) == [p EXCEPT !.returned_tokens = Append(@, t)]

\* The first parser_next moves the uninitialised token of a fresh parser into
\* previousToken: whether it looks like a "(" is up to the heap.
Garbage == {[type |-> ty, text |-> tx, at |-> 0] :
              ty \in {"TNOTHING", "TLEFTPAR"}, tx \in {"NULL", "other"}}

parser_init ==
    {[token |-> TokenOf(l, 1), previousToken |-> g, returned_tokens |-> <<>>,
      scanned |-> 1] :
        l \in {"TENDOFFILE"} \cup (IF MaxTokens > 0 THEN Alphabet ELSE {}),
        g \in Garbage}

\* The current token is the last one scanned; the queue is empty or holds its
\* copy.
InOrder(p) ==
    /\ p.token.at = p.scanned
    /\ p.returned_tokens \in {<<>>, <<p.token>>}
=============================================================================
