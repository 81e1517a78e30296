------------------------------ MODULE Scanner ------------------------------
(***************************************************************************)
(* get_token of scaner.c: the automaton over the characters of stdin and   *)
(* the stack of indents that turns the blanks at the start of a line into  *)
(* TINDENT and TDEDENT.  Both read ahead and put back.                     *)
(*                                                                         *)
(* A character stands for its class: "a" for a letter, "1" for a digit but *)
(* zero, "k" for the text of a keyword; "blank" and "quote" are the space  *)
(* and the double quote; "0xFF" is the byte that equals EOF once it was    *)
(* converted to a (signed) char.  A source is a concatenation of Pieces,   *)
(* chosen as it is read.                                                   *)
(***************************************************************************)
EXTENDS Naturals, SequencesExt

CONSTANTS
    Pieces,     \* sequences of characters a source is made of
    MaxPieces   \* bound on their number

Char == {"a", "k", "x", "e", "0", "1", ".", "+", "-", "*", "/", "<", ">", "=",
         "!", "(", ")", ",", ":", "'", "\\", "quote", "#", "blank", "\n", "$", "0xFF"}

ASSUME SourceAssumption ==
    /\ Pieces \subseteq Seq(Char) \ {<<>>}
    /\ MaxPieces \in Nat

VARIABLES
    stdin,              \* characters to be read next, as far as they are known
    source,             \* history: all characters that ever were on stdin
    pieces,             \* number of pieces in it
    taken,              \* history: places in it of the characters read and not put back
    indents,            \* the stack, bottom first
    stack,              \* "none", "live" or "destroyed"
    last_token_type,
    pc,                 \* "idle", in indent_counter, in the automaton or "aborted"
    counter,            \* blanks counted by indent_counter
    state,              \* state of the automaton
    string,             \* the token's text so far
    lexeme,             \* history: the characters taken for the token
    stray,              \* history: sStart took a byte 0xFF for the end of the source
    token               \* the token returned last

inputVars == <<stdin, source, pieces, taken>>
indentVars == <<indents, stack>>
automatonVars == <<state, string, lexeme, stray>>
vars == <<inputVars, indentVars, automatonVars, last_token_type, pc, counter, token>>

EOF == "EOF"
Digit == {"0", "1"}
Hex == Digit \cup {"a", "e"}
Letter == {"a", "k", "x", "e"}
-----------------------------------------------------------------------------
(* The automaton                                                           *)

\* Tokens of one character.
Single == [c \in {"+", "-", "*", ":", "(", ")", ","} |->
             CASE c = "+" -> "TADD" [] c = "-" -> "TSUB" [] c = "*" -> "TMUL"
               [] c = ":" -> "TCOLON" [] c = "(" -> "TLEFTPAR"
               [] c = ")" -> "TRIGHTPAR" [] c = "," -> "TCOMMA"]

Rule(from, chars, to) == [from |-> from, chars |-> chars, to |-> to]

\* start_state, which is given its character as a char.
StartRules ==
    {Rule("sStart", {c}, Single[c]) : c \in DOMAIN Single} \cup
    {Rule("sStart", {"1"}, "sInteger"),
     Rule("sStart", {"0"}, "sInteger0"),
     Rule("sStart", {"'"}, "sString"),
     Rule("sStart", {"quote"}, "sBlockCommentStart1"),
     Rule("sStart", {"#"}, "sLineComment"),
     Rule("sStart", {"/"}, "sDivOrFloorDiv"),
     Rule("sStart", {"<"}, "sLtOrLte"),
     Rule("sStart", {">"}, "sGtOrGte"),
     Rule("sStart", {"="}, "sAssignOrEqual"),
     Rule("sStart", {"!"}, "sExclMark"),
     Rule("sStart", Letter, "sIdentificatorOrKeyWord"),
     Rule("sStart", {"\n"}, "sNewLine"),
     Rule("sStart", {"blank", EOF, "0xFF"}, "sStart")}

\* Mutant of NumberRules: a zero may begin any number.
NumberRules_Octal ==
    {Rule("sInteger0", Digit, "sInteger"),
     Rule("sInteger", Digit, "sInteger"),
     Rule("sInteger", {"."}, "sIntWithDot"),
     Rule("sIntWithDot", Digit, "sFloat"),
     Rule("sFloat", Digit, "sFloat")}

NumberRules ==
    {Rule("sInteger0", {"."}, "sIntWithDot"),
     Rule("sInteger0", {"e"}, "sExponent"),
     Rule("sInteger0", Digit, "TLEXERR"),
     Rule("sInteger", Digit, "sInteger"),
     Rule("sInteger", {"."}, "sIntWithDot"),
     Rule("sInteger", {"e"}, "sExponent"),
     Rule("sIntWithDot", Digit, "sFloat"),
     Rule("sFloat", Digit, "sFloat"),
     Rule("sFloat", {"e"}, "sExponent"),
     Rule("sExponent", Digit, "sExponentNumber"),
     Rule("sExponent", {"+", "-"}, "sExponentOperator"),
     Rule("sExponentOperator", Digit, "sExponentNumber"),
     Rule("sExponentNumber", Digit, "sExponentNumber")}

CommentRules ==
    {Rule("sLineComment", {"\n"}, "sNewLine"),
     Rule("sBlockCommentStart1", {"quote"}, "sBlockCommentStart2"),
     Rule("sBlockCommentStart2", {"quote"}, "sBlockComment"),
     Rule("sBlockComment", {"quote"}, "sBlockCommentEnd1"),
     Rule("sBlockCommentEnd1", {"quote"}, "sBlockCommentEnd2"),
     Rule("sBlockCommentEnd2", {"quote"}, "TBLOCKCOMMENTORLITERAL")} \cup
    {Rule(s, {EOF}, "TLEXERR") :
       s \in {"sBlockComment", "sBlockCommentEnd1", "sBlockCommentEnd2"}}

WordRules ==
    {Rule("sIdentificatorOrKeyWord", Letter \cup Digit, "sIdentificatorOrKeyWord"),
     Rule("sDivOrFloorDiv", {"/"}, "TFLOORDIV"),
     Rule("sAssignOrEqual", {"="}, "TEQ"),
     Rule("sLtOrLte", {"="}, "TLTE"),
     Rule("sGtOrGte", {"="}, "TGTE"),
     Rule("sExclMark", {"="}, "TNE")}

StringRules ==
    {Rule("sString", {"\\"}, "sStringEscape"),
     Rule("sString", {"'"}, "TSTRING"),
     Rule("sString", {"\n", EOF}, "TLEXERR"),
     Rule("sStringEscape", {"x"}, "sStringEscapeNumber"),
     Rule("sStringEscapeNumber", Hex, "sStringEscapeNumber1"),
     Rule("sStringEscapeNumber1", Hex, "sString")}

Rules == StartRules \cup NumberRules \cup CommentRules \cup WordRules \cup StringRules

\* Where any other character leads: a token, an error, or a state.
Otherwise ==
    [sStart |-> "TLEXERR", sNewLine |-> "TNEWLINE",
     sInteger0 |-> "TINT", sInteger |-> "TINT", sIntWithDot |-> "TLEXERR",
     sFloat |-> "TFLOAT", sExponent |-> "TLEXERR", sExponentOperator |-> "TLEXERR",
     sExponentNumber |-> "TFLOAT",
     sLineComment |-> "sLineComment", sBlockCommentStart1 |-> "TLEXERR",
     sBlockCommentStart2 |-> "TLEXERR", sBlockComment |-> "sBlockComment",
     sBlockCommentEnd1 |-> "sBlockComment", sBlockCommentEnd2 |-> "sBlockComment",
     sIdentificatorOrKeyWord |-> "TIDENTIFICATOR",
     sDivOrFloorDiv |-> "TDIV", sAssignOrEqual |-> "TASSIGN", sLtOrLte |-> "TLT",
     sGtOrGte |-> "TGT", sExclMark |-> "TLEXERR",
     sString |-> "sString", sStringEscape |-> "sString",
     sStringEscapeNumber |-> "TLEXERR", sStringEscapeNumber1 |-> "TLEXERR"]

State == DOMAIN Otherwise

\* A keyword is told from an identifier when it is complete; the value of a
\* number with an exponent may be too large.
Targets(s, c) ==
    LET rules == {r \in Rules : r.from = s /\ c \in r.chars}
    IN IF rules # {} THEN {r.to : r \in rules}
       ELSE IF s = "sExponentNumber" THEN {"TFLOAT", "TERR"}
       ELSE IF s = "sIdentificatorOrKeyWord" /\ string = <<"k">> THEN {"TKEYWORD"}
       ELSE {Otherwise[s]}

\* Tokens that end with their last character; all others are known to be complete
\* by the character after them, which is put back.
Closed == {"TFLOORDIV", "TLTE", "TGTE", "TEQ", "TNE", "TSTRING",
           "TBLOCKCOMMENTORLITERAL"}

\* Mutant of TakesLast: an error takes the character, the end of the source included.
TakesLast_Error(s, type) == s = "sStart" \/ type \in Closed \cup {"TLEXERR"}

TakesLast(s, type) == s = "sStart" \/ type \in Closed

TokenType == Range(Single) \cup (Range(Otherwise) \ State) \cup Closed \cup
             {"TKEYWORD", "TERR", "TINDENT", "TDEDENT", "TENDOFFILE"}
-----------------------------------------------------------------------------
(* Text of a token                                                         *)

DeleteLast(text) == IF text = <<>> THEN <<>> ELSE Front(text)

\* sprintf("%lf", atof(...)): the number rounded to six decimals.
Printed == <<"all but the last digit", "last digit">>

\* ptr_string_append, and what a state deletes again.
Appended(s, c) ==
    IF \/ s = "sStart" /\ c \in {"blank", "\n", "'", "quote"}
       \/ s \in {"sBlockCommentStart1", "sBlockCommentStart2"} /\ c = "quote"
    THEN string
    ELSE IF s = "sLineComment" /\ c = "\n" THEN <<>>
    ELSE Append(string, c)

\* Mutant of Value: the character put back is not deleted.
Value_NotDeleted(s, type, c) ==
    IF type \in {"TLEXERR", "TNEWLINE"} THEN <<>>
    ELSE IF type \in {"TIDENTIFICATOR", "TKEYWORD"} THEN string
    ELSE Appended(s, c)

\* token_fill: the value of a token of this type.
Value(s, type, c) ==
    CASE type \in {"TLEXERR", "TNEWLINE"} -> <<>>
      [] type \in {"TIDENTIFICATOR", "TKEYWORD"} -> string
      [] type = "TBLOCKCOMMENTORLITERAL" -> DeleteLast(DeleteLast(string))
      [] type \in Closed \ {"TSTRING", "TBLOCKCOMMENTORLITERAL"} -> Append(string, c)
      [] type = "TFLOAT" /\ s = "sExponentNumber" -> DeleteLast(Printed)
      [] OTHER -> DeleteLast(Appended(s, c))

TypeOK ==
    /\ stdin \in Seq(Char)
    /\ source \in Seq(Char)
    /\ pieces \in 0..MaxPieces
    /\ taken \in Seq(Nat)
    /\ indents \in Seq(Nat)
    /\ stack \in {"none", "live", "destroyed"}
    /\ last_token_type \in TokenType \cup {"TFIRSTINDENT", "TNOTHING"}
    /\ pc \in {"idle", "indent_counter", "automaton", "aborted"}
    /\ counter \in Nat
    /\ state \in State
    /\ string \in Seq(Char \cup {EOF})
    /\ lexeme \in Seq(Char)
    /\ stray \in BOOLEAN
    /\ token.type \in TokenType \cup {"TNOTHING"}
    /\ token.value \in Seq(Char \cup {EOF}) \cup {DeleteLast(Printed)}
-----------------------------------------------------------------------------
(* stdin                                                                   *)

\* What getchar may return: the source goes on, or ends, when it is asked for more.
Readable ==
    IF stdin # <<>> THEN {Head(stdin)}
    ELSE {EOF} \cup (IF last_token_type # "TENDOFFILE" /\ pieces < MaxPieces
                     THEN {Head(piece) : piece \in Pieces} ELSE {})

\* getchar has returned c, and these characters are put back after it.
Getchar(c, back) ==
    \/ /\ stdin # <<>>
       /\ stdin' = back \o Tail(stdin)
       /\ UNCHANGED <<source, pieces>>
    \/ /\ stdin = <<>>
       /\ c # EOF
       /\ \E piece \in {p \in Pieces : Head(p) = c} :
            /\ stdin' = back \o Tail(piece)
            /\ source' = source \o piece
       /\ pieces' = pieces + 1
    \/ /\ stdin = <<>>
       /\ c = EOF
       /\ stdin' = back
       /\ pieces' = MaxPieces
       /\ UNCHANGED source

\* ungetc of EOF does nothing.
Ungetc(c) == IF c = EOF THEN <<>> ELSE <<c>>

\* Mutant of UngetcChar: a blank behind a token, which sStart skips, is not put back.
UngetcChar_NotBlank(c) == IF c \in {EOF, "0xFF", "blank"} THEN <<>> ELSE <<c>>

\* token_fill puts back a char that is not -1, which the byte 0xFF is.
UngetcChar(c) == IF c \in {EOF, "0xFF"} THEN <<>> ELSE <<c>>

\* The character read last is not put back.
Take == taken' = Append(taken, Len(source') - Len(stdin'))

Blanks(n) == [i \in 1..n |-> "blank"]
-----------------------------------------------------------------------------
Return(type, value) ==
    /\ token' = [type |-> type, value |-> value]
    /\ last_token_type' = type
    /\ pc' = "idle"

EnterAutomaton ==
    /\ pc' = "automaton"
    /\ last_token_type' = "TNOTHING"
    /\ state' = "sStart"
    /\ string' = <<>>
    /\ lexeme' = <<>>
    /\ stray' = FALSE

\* Mutant of LineStart: blanks are not counted again for a further TDEDENT.
LineStart_NoDedent == {"TNEWLINE", "TFIRSTINDENT"}

\* The tokens after which indent_counter counts.
LineStart == {"TNEWLINE", "TDEDENT", "TFIRSTINDENT"}

\* get_token is called; the first call makes the stack.
Call ==
    /\ pc = "idle"
    /\ IF last_token_type \in LineStart
       THEN /\ pc' = "indent_counter"
            /\ counter' = 0
            /\ UNCHANGED <<last_token_type, automatonVars>>
       ELSE EnterAutomaton /\ UNCHANGED counter
    /\ IF last_token_type = "TFIRSTINDENT"
       THEN indents' = <<0>> /\ stack' = "live"
       ELSE UNCHANGED <<indents, stack>>
    /\ UNCHANGED <<inputVars, token>>

CountBlank ==
    /\ pc = "indent_counter"
    /\ "blank" \in Readable
    /\ Getchar("blank", <<>>)
    /\ Take
    /\ counter' = counter + 1
    /\ UNCHANGED <<indentVars, automatonVars, last_token_type, pc, token>>

\* The first other character of a line is read, and these are put back.
Counted(c, back) ==
    /\ pc = "indent_counter"
    /\ c # "blank"
    /\ Getchar(c, back)
    /\ UNCHANGED <<counter, stack>>

\* Lines that begin with these have no indentation.
Transparent == {"#", "quote", "\n"}

SameIndent ==
    /\ \E c \in Readable :
         /\ Counted(c, Ungetc(c))
         /\ c \in Transparent \/ counter = Last(indents)
    /\ EnterAutomaton
    /\ UNCHANGED <<indents, taken, token>>

\* Mutant of Indent: a line with the indent of its block opens another one.
Indent_SameIndent ==
    /\ \E c \in Readable \ Transparent : Counted(c, Ungetc(c))
    /\ Last(indents) <= counter
    /\ indents' = Append(indents, counter)
    /\ Return("TINDENT", <<>>)
    /\ UNCHANGED <<taken, automatonVars>>

Indent ==
    /\ \E c \in Readable \ Transparent : Counted(c, Ungetc(c))
    /\ Last(indents) < counter
    /\ indents' = Append(indents, counter)
    /\ Return("TINDENT", <<>>)
    /\ UNCHANGED <<taken, automatonVars>>

\* Mutant of Dedent: the blanks are not put back.
Dedent_KeepsBlanks ==
    /\ \E c \in Readable \ Transparent : Counted(c, Ungetc(c))
    /\ Last(indents) > counter
    /\ indents' = Front(indents)
    /\ Return(IF Last(Front(indents)) < counter THEN "TLEXERR" ELSE "TDEDENT", <<>>)
    /\ UNCHANGED <<taken, automatonVars>>

\* One level is closed; the blanks are put back for the next call to count.
Dedent ==
    /\ \E c \in Readable \ Transparent : Counted(c, Blanks(counter) \o Ungetc(c))
    /\ Last(indents) > counter
    /\ indents' = Front(indents)
    /\ taken' = SubSeq(taken, 1, Len(taken) - counter)
    /\ Return(IF Last(Front(indents)) < counter THEN "TLEXERR" ELSE "TDEDENT", <<>>)
    /\ UNCHANGED automatonVars

\* The automaton goes on to another state.
Move ==
    /\ pc = "automaton"
    /\ \E c \in Readable \ {EOF} :
         /\ Getchar(c, <<>>)
         /\ \E next \in Targets(state, c) \cap State : state' = next
         /\ string' = Appended(state, c)
         /\ lexeme' = IF state' = "sStart" THEN <<>> ELSE Append(lexeme, c)
         /\ stray' = (stray \/ (state = "sStart" /\ c = "0xFF"))
    /\ Take
    /\ UNCHANGED <<indentVars, last_token_type, pc, counter, token>>

\* The automaton returns a token, with or without the character just read.
Emit ==
    /\ pc = "automaton"
    /\ \E c \in Readable : \E type \in Targets(state, c) \ State :
         /\ Getchar(c, IF TakesLast(state, type) THEN <<>> ELSE UngetcChar(c))
         /\ Return(type, Value(state, type, c))
         /\ IF TakesLast(state, type)
            THEN Take /\ lexeme' = Append(lexeme, c)
            ELSE UNCHANGED <<taken, lexeme>>
    /\ UNCHANGED <<indentVars, counter, state, string, stray>>

\* Mutant of AtEnd: the loop ends with the source in its start state only.
AtEnd_Start ==
    /\ pc = "automaton"
    /\ EOF \in Readable
    /\ state = "sStart"

AtEnd ==
    /\ pc = "automaton"
    /\ EOF \in Readable
    /\ Targets(state, EOF) \subseteq State

\* The loop ends with the source, in whatever state does not end there.
EndOfFile ==
    /\ AtEnd
    /\ Getchar(EOF, <<>>)
    /\ Return("TENDOFFILE", <<>>)
    /\ stack' = "destroyed"
    /\ UNCHANGED <<indents, taken, counter, automatonVars>>

\* Called again at the end, get_token destroys the stack again: free may abort.
Abort ==
    /\ AtEnd
    /\ stack = "destroyed"
    /\ pc' = "aborted"
    /\ UNCHANGED <<inputVars, indentVars, automatonVars, last_token_type, counter, token>>
-----------------------------------------------------------------------------
Init ==
    /\ stdin = <<>>
    /\ source = <<>>
    /\ pieces = 0
    /\ taken = <<>>
    /\ indents = <<>>
    /\ stack = "none"
    /\ last_token_type = "TFIRSTINDENT"
    /\ pc = "idle"
    /\ counter = 0
    /\ state = "sStart"
    /\ string = <<>>
    /\ lexeme = <<>>
    /\ stray = FALSE
    /\ token = [type |-> "TNOTHING", value |-> <<>>]

GetToken == CountBlank \/ SameIndent \/ Indent \/ Dedent \/ Move \/ Emit \/ EndOfFile \/ Abort

Next == Call \/ GetToken

\* get_token does not wait for anything but characters of stdin.
Spec == Init /\ [][Next]_vars /\ WF_vars(GetToken)
-----------------------------------------------------------------------------
(* Properties                                                              *)

\* The characters read and not put back, in the order they were taken.
Consumed == [i \in 1..Len(taken) |-> source[taken[i]]]

\* The blanks that end a text, and the text before them.
TrailingBlanks(text) ==
    CHOOSE n \in 0..Len(text) :
      /\ \A i \in (Len(text) - n + 1)..Len(text) : text[i] = "blank"
      /\ n = Len(text) \/ text[Len(text) - n] # "blank"

BeginsLine(text) ==
    LET before == SubSeq(text, 1, Len(text) - TrailingBlanks(text))
    IN before = <<>> \/ Last(before) = "\n"

\* What is put back is put back in its order, and every character is taken once, after
\* those before it: the characters still to be read are the end of the source, and of
\* those before them none was passed over but a byte 0xFF, which token_fill does not put
\* back (the ungetc calls of indent_counter and token_fill, scaner.c:115-163).
NothingLost ==
    LET read == Len(source) - Len(stdin)
    IN /\ IsSuffix(stdin, source)
       /\ \A i \in 1..Len(taken) : taken[i] \in 1..read
       /\ \A i \in 1..Len(taken) - 1 : taken[i] < taken[i + 1]
       /\ \A place \in 1..read : place \in Range(taken) \/ source[place] = "0xFF"

\* Whenever indent_counter counts, it has counted all blanks since the line began,
\* though they may have been read before, and the stack it compares with is live.
CountsFromLineStart ==
    pc = "indent_counter" =>
      /\ stack = "live"
      /\ BeginsLine(Consumed)
      /\ counter = TrailingBlanks(Consumed)

\* The stack of indents rises strictly from its bottom 0, so that a line is compared
\* with the innermost block and closing blocks always comes to an end.
IndentsRise ==
    stack # "none" =>
      /\ indents # <<>> /\ indents[1] = 0
      /\ \A i \in 1..Len(indents) - 1 : indents[i] < indents[i + 1]

\* When the first token of a line is read, all TINDENT or TDEDENTs of the line were
\* delivered: the innermost block has the indent of the line, unless an error was
\* reported (the one level per call of indent_counter).
LineInItsBlock ==
    LET before == SubSeq(Consumed, 1, Len(Consumed) - Len(lexeme))
    IN /\ pc = "automaton"
       /\ lexeme # <<>>
       /\ BeginsLine(before)
       /\ lexeme[1] \notin Transparent
       /\ token.type # "TLEXERR"
       => Last(indents) = TrailingBlanks(before)

\* The language of each kind of token, independent of the automaton.
Digits(w) == w # <<>> /\ Range(w) \subseteq Digit
IsInteger(w) == Digits(w) /\ (w[1] = "0" => Len(w) = 1)
IsFraction(w) == w # <<>> /\ w[1] = "." /\ Digits(Tail(w))
IsExponent(w) ==
    /\ w # <<>> /\ w[1] = "e"
    /\ \/ Digits(Tail(w))
       \/ Len(w) > 2 /\ w[2] \in {"+", "-"} /\ Digits(Tail(Tail(w)))

IsFloat(w) ==
    \E i, j \in 1..Len(w) :
      /\ i <= j
      /\ IsInteger(SubSeq(w, 1, i))
      /\ j > i => IsFraction(SubSeq(w, i + 1, j))
      /\ j < Len(w) => IsExponent(SubSeq(w, j + 1, Len(w)))
      /\ i < Len(w)

IsName(w) == w # <<>> /\ w[1] \in Letter /\ Range(w) \subseteq Letter \cup Digit

Operators ==
    [TDIV |-> <<"/">>, TASSIGN |-> <<"=">>, TLT |-> <<"<">>, TGT |-> <<">">>,
     TFLOORDIV |-> <<"/", "/">>, TEQ |-> <<"=", "=">>, TLTE |-> <<"<", "=">>,
     TGTE |-> <<">", "=">>, TNE |-> <<"!", "=">>]

InLanguage(type, w) ==
    CASE type = "TINT" -> IsInteger(w)
      [] type = "TFLOAT" -> IsFloat(w)
      [] type = "TKEYWORD" -> w = <<"k">>
      [] type = "TIDENTIFICATOR" -> IsName(w) /\ w # <<"k">>
      [] OTHER -> w = Operators[type]

Lexical == {"TINT", "TFLOAT", "TKEYWORD", "TIDENTIFICATOR"} \cup DOMAIN Operators

\* A number, a name or an operator is a word of its language, and the longest one: the
\* character that follows in the source would not have continued it.  Behind a byte 0xFF
\* that start_state took for the end of the source a keyword is an identifier.
LongestMatch ==
    LET next == Last(taken) + 1
    IN pc = "idle" /\ token.type \in Lexical =>
         /\ \/ InLanguage(token.type, lexeme)
            \/ stray /\ token.type = "TIDENTIFICATOR" /\ InLanguage("TKEYWORD", lexeme)
         /\ next <= Len(source) =>
              \A type \in Lexical : ~InLanguage(type, Append(lexeme, source[next]))

\* What a block comment or literal begins and ends with.
Quotes == <<"quote", "quote", "quote">>

\* The value is the text of the token, also where the automaton has appended the
\* character after it and token_fill deletes it (scaner.c:154), save for the float that
\* is converted and operators that need none.  A byte 0xFF that start_state took for the
\* end of the source is still in the value of the next token.
ValueIsText ==
    pc = "idle" /\ ~stray =>
      /\ token.type \in {"TINT", "TKEYWORD", "TIDENTIFICATOR"} => token.value = lexeme
      /\ token.type = "TFLOAT" /\ token.value # DeleteLast(Printed) => token.value = lexeme
      /\ token.type = "TSTRING" => lexeme = <<"'">> \o token.value \o <<"'">>
      /\ token.type = "TBLOCKCOMMENTORLITERAL" =>
           lexeme = Quotes \o token.value \o Quotes

\* Every call of get_token returns: no state of the automaton and no depth of indents
\* goes round without reading on.
Returns == pc # "idle" ~> pc \in {"idle", "aborted"}
=============================================================================
