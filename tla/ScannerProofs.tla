---------------------------- MODULE ScannerProofs ----------------------------
(***************************************************************************)
(* Theorems about Scanner for every source: no character but the byte 0xFF *)
(* is lost or put back in a wrong place, indentation is counted from the   *)
(* start of a line, the stack of indents rises and agrees with the line    *)
(* that is read, the value of a token is its text, and a token is the      *)
(* longest word of its language.                                           *)
(*                                                                         *)
(* The proof reads the automaton once, as a table of its steps (Targets),  *)
(* and places everything on the text of the characters that were taken.    *)
(***************************************************************************)
EXTENDS Scanner, SequenceTheorems, WellFoundedInduction, TLAPS

-----------------------------------------------------------------------------
(* The steps of the automaton *)

LEMMA StateDef == State =
   {"sStart", "sNewLine", "sInteger0", "sInteger", "sIntWithDot", "sFloat", "sExponent",
    "sExponentOperator", "sExponentNumber", "sLineComment", "sBlockCommentStart1",
    "sBlockCommentStart2", "sBlockComment", "sBlockCommentEnd1", "sBlockCommentEnd2",
    "sIdentificatorOrKeyWord", "sDivOrFloorDiv", "sAssignOrEqual", "sLtOrLte", "sGtOrGte",
    "sExclMark", "sString", "sStringEscape", "sStringEscapeNumber", "sStringEscapeNumber1"}
BY DEF State, Otherwise

SingleToken == {"TADD", "TSUB", "TMUL", "TCOLON", "TLEFTPAR", "TRIGHTPAR", "TCOMMA"}

LEMMA SingleType ==
  ASSUME NEW c \in DOMAIN Single
  PROVE  /\ Single[c] \in SingleToken
         /\ c # "blank" /\ c # "\n" /\ c # "quote" /\ c # "'" /\ c # EOF
<1>1. DOMAIN Single = {"+", "-", "*", ":", "(", ")", ","}
  BY Zenon DEF Single
<1>2. c # "blank" /\ c # "\n" /\ c # "quote" /\ c # "'" /\ c # EOF
  BY <1>1, Zenon DEF EOF
<1>3. Single[c] \in SingleToken
  BY <1>1, Zenon DEF Single, SingleToken
<1>4. QED
  BY <1>2, <1>3

LEMMA RuleFields ==
  \A from, chars, to : /\ Rule(from, chars, to).from = from
                       /\ Rule(from, chars, to).chars = chars
                       /\ Rule(from, chars, to).to = to
BY DEF Rule

\* From state s the rules lead to t on character c.
StartStep(s, c, t) ==
    /\ s = "sStart"
    /\ \/ c \in DOMAIN Single /\ t = Single[c]
       \/ c = "1" /\ t = "sInteger"
       \/ c = "0" /\ t = "sInteger0"
       \/ c = "'" /\ t = "sString"
       \/ c = "quote" /\ t = "sBlockCommentStart1"
       \/ c = "#" /\ t = "sLineComment"
       \/ c = "/" /\ t = "sDivOrFloorDiv"
       \/ c = "<" /\ t = "sLtOrLte"
       \/ c = ">" /\ t = "sGtOrGte"
       \/ c = "=" /\ t = "sAssignOrEqual"
       \/ c = "!" /\ t = "sExclMark"
       \/ c \in {"a", "k", "x", "e"} /\ t = "sIdentificatorOrKeyWord"
       \/ c = "\n" /\ t = "sNewLine"
       \/ c \in {"blank", "EOF", "0xFF"} /\ t = "sStart"

NumberStep(s, c, t) ==
    \/ s = "sInteger0" /\ c = "." /\ t = "sIntWithDot"
    \/ s = "sInteger0" /\ c = "e" /\ t = "sExponent"
    \/ s = "sInteger0" /\ c \in {"0", "1"} /\ t = "TLEXERR"
    \/ s = "sInteger" /\ c \in {"0", "1"} /\ t = "sInteger"
    \/ s = "sInteger" /\ c = "." /\ t = "sIntWithDot"
    \/ s = "sInteger" /\ c = "e" /\ t = "sExponent"
    \/ s = "sIntWithDot" /\ c \in {"0", "1"} /\ t = "sFloat"
    \/ s = "sFloat" /\ c \in {"0", "1"} /\ t = "sFloat"
    \/ s = "sFloat" /\ c = "e" /\ t = "sExponent"
    \/ s = "sExponent" /\ c \in {"0", "1"} /\ t = "sExponentNumber"
    \/ s = "sExponent" /\ c \in {"+", "-"} /\ t = "sExponentOperator"
    \/ s = "sExponentOperator" /\ c \in {"0", "1"} /\ t = "sExponentNumber"
    \/ s = "sExponentNumber" /\ c \in {"0", "1"} /\ t = "sExponentNumber"

CommentStep(s, c, t) ==
    \/ s = "sLineComment" /\ c = "\n" /\ t = "sNewLine"
    \/ s = "sBlockCommentStart1" /\ c = "quote" /\ t = "sBlockCommentStart2"
    \/ s = "sBlockCommentStart2" /\ c = "quote" /\ t = "sBlockComment"
    \/ s = "sBlockComment" /\ c = "quote" /\ t = "sBlockCommentEnd1"
    \/ s = "sBlockCommentEnd1" /\ c = "quote" /\ t = "sBlockCommentEnd2"
    \/ s = "sBlockCommentEnd2" /\ c = "quote" /\ t = "TBLOCKCOMMENTORLITERAL"
    \/ /\ s \in {"sBlockComment", "sBlockCommentEnd1", "sBlockCommentEnd2"}
       /\ c = "EOF" /\ t = "TLEXERR"

WordStep(s, c, t) ==
    \/ /\ s = "sIdentificatorOrKeyWord" /\ t = "sIdentificatorOrKeyWord"
       /\ c \in {"a", "k", "x", "e", "0", "1"}
    \/ s = "sDivOrFloorDiv" /\ c = "/" /\ t = "TFLOORDIV"
    \/ s = "sAssignOrEqual" /\ c = "=" /\ t = "TEQ"
    \/ s = "sLtOrLte" /\ c = "=" /\ t = "TLTE"
    \/ s = "sGtOrGte" /\ c = "=" /\ t = "TGTE"
    \/ s = "sExclMark" /\ c = "=" /\ t = "TNE"

StringStep(s, c, t) ==
    \/ s = "sString" /\ c = "\\" /\ t = "sStringEscape"
    \/ s = "sString" /\ c = "'" /\ t = "TSTRING"
    \/ s = "sString" /\ c \in {"\n", "EOF"} /\ t = "TLEXERR"
    \/ s = "sStringEscape" /\ c = "x" /\ t = "sStringEscapeNumber"
    \/ s = "sStringEscapeNumber" /\ c \in {"0", "1", "a", "e"} /\ t = "sStringEscapeNumber1"
    \/ s = "sStringEscapeNumber1" /\ c \in {"0", "1", "a", "e"} /\ t = "sString"

LEMMA StartRulesTable ==
  ASSUME NEW r \in StartRules, NEW c \in r.chars
  PROVE  StartStep(r.from, c, r.to)
<1>1. CASE r \in {Rule("sStart", {x}, Single[x]) : x \in DOMAIN Single}
  <2>1. PICK x \in DOMAIN Single : r = Rule("sStart", {x}, Single[x])
    BY <1>1
  <2>2. r.from = "sStart" /\ r.chars = {x} /\ r.to = Single[x]
    BY <2>1, RuleFields
  <2>3. QED
    BY <2>2, SingleType DEF StartStep
<1>2. CASE r \notin {Rule("sStart", {x}, Single[x]) : x \in DOMAIN Single}
  <2>1. r \in {Rule("sStart", {"1"}, "sInteger"), Rule("sStart", {"0"}, "sInteger0"),
               Rule("sStart", {"'"}, "sString"),
               Rule("sStart", {"quote"}, "sBlockCommentStart1"),
               Rule("sStart", {"#"}, "sLineComment"),
               Rule("sStart", {"/"}, "sDivOrFloorDiv"),
               Rule("sStart", {"<"}, "sLtOrLte"), Rule("sStart", {">"}, "sGtOrGte"),
               Rule("sStart", {"="}, "sAssignOrEqual"), Rule("sStart", {"!"}, "sExclMark"),
               Rule("sStart", Letter, "sIdentificatorOrKeyWord"),
               Rule("sStart", {"\n"}, "sNewLine"),
               Rule("sStart", {"blank", EOF, "0xFF"}, "sStart")}
    BY <1>2 DEF StartRules
  <2>2. QED
    BY <2>1, RuleFields DEF StartStep, Letter, EOF
<1>3. QED
  BY <1>1, <1>2

LEMMA NumberRulesTable ==
  ASSUME NEW r \in NumberRules, NEW c \in r.chars
  PROVE  NumberStep(r.from, c, r.to)
BY RuleFields DEF NumberRules, NumberStep, Digit

LEMMA CommentRulesTable ==
  ASSUME NEW r \in CommentRules, NEW c \in r.chars
  PROVE  CommentStep(r.from, c, r.to)
<1>1. CASE r \in {Rule(s, {EOF}, "TLEXERR") :
                    s \in {"sBlockComment", "sBlockCommentEnd1", "sBlockCommentEnd2"}}
  BY <1>1, RuleFields DEF CommentStep, EOF
<1>2. CASE r \notin {Rule(s, {EOF}, "TLEXERR") :
                    s \in {"sBlockComment", "sBlockCommentEnd1", "sBlockCommentEnd2"}}
  BY <1>2, RuleFields DEF CommentRules, CommentStep
<1>3. QED
  BY <1>1, <1>2

LEMMA WordRulesTable ==
  ASSUME NEW r \in WordRules, NEW c \in r.chars
  PROVE  WordStep(r.from, c, r.to)
BY RuleFields DEF WordRules, WordStep, Digit, Letter

LEMMA StringRulesTable ==
  ASSUME NEW r \in StringRules, NEW c \in r.chars
  PROVE  StringStep(r.from, c, r.to)
BY RuleFields DEF StringRules, StringStep, Hex, Digit, EOF

\* A table of the automaton: where the rules lead, or what any other character does.
RuleStep(s, c, t) ==
    \/ StartStep(s, c, t) \/ NumberStep(s, c, t) \/ CommentStep(s, c, t)
    \/ WordStep(s, c, t) \/ StringStep(s, c, t)

NoRule(s, c) == \A r \in Rules : r.from = s => c \notin r.chars

OtherStep(s, c, t) ==
    /\ NoRule(s, c)
    /\ \/ t = Otherwise[s]
       \/ s = "sExponentNumber" /\ t = "TERR"
       \/ s = "sIdentificatorOrKeyWord" /\ t = "TKEYWORD" /\ string = <<"k">>

LEMMA TargetsTable ==
  ASSUME NEW s, NEW c, NEW t \in Targets(s, c)
  PROVE  RuleStep(s, c, t) \/ OtherStep(s, c, t)
<1> DEFINE rules == {r \in Rules : r.from = s /\ c \in r.chars}
<1>1. CASE rules # {}
  <2>1. t \in {r.to : r \in rules}
    BY <1>1 DEF Targets
  <2>2. PICK r \in Rules : r.from = s /\ c \in r.chars /\ t = r.to
    BY <2>1
  <2>3. QED
    BY <2>2, StartRulesTable, NumberRulesTable, CommentRulesTable, WordRulesTable,
       StringRulesTable
    DEF Rules, RuleStep
<1>2. CASE rules = {}
  <2>1. NoRule(s, c)
    BY <1>2 DEF NoRule
  <2>2. \/ s = "sExponentNumber" /\ t \in {"TFLOAT", "TERR"}
        \/ /\ s = "sIdentificatorOrKeyWord" /\ string = <<"k">>
           /\ t = "TKEYWORD"
        \/ t = Otherwise[s]
    BY <1>2 DEF Targets
  <2>3. Otherwise["sExponentNumber"] = "TFLOAT"
    BY DEF Otherwise
  <2>4. QED
    BY <2>1, <2>2, <2>3 DEF OtherStep
<1>3. QED
  BY <1>1, <1>2

\* Where a character without a rule leads.
OtherwiseStep(s, t) ==
    \/ /\ s \in {"sStart", "sIntWithDot", "sExponent", "sExponentOperator", "sExclMark",
                 "sBlockCommentStart1", "sBlockCommentStart2", "sStringEscapeNumber",
                 "sStringEscapeNumber1"}
       /\ t = "TLEXERR"
    \/ s = "sNewLine" /\ t = "TNEWLINE"
    \/ s \in {"sInteger0", "sInteger"} /\ t = "TINT"
    \/ s \in {"sFloat", "sExponentNumber"} /\ t = "TFLOAT"
    \/ s = "sLineComment" /\ t = "sLineComment"
    \/ s \in {"sBlockComment", "sBlockCommentEnd1", "sBlockCommentEnd2"} /\ t = "sBlockComment"
    \/ s = "sIdentificatorOrKeyWord" /\ t = "TIDENTIFICATOR"
    \/ s = "sDivOrFloorDiv" /\ t = "TDIV"
    \/ s = "sAssignOrEqual" /\ t = "TASSIGN"
    \/ s = "sLtOrLte" /\ t = "TLT"
    \/ s = "sGtOrGte" /\ t = "TGT"
    \/ s \in {"sString", "sStringEscape"} /\ t = "sString"

LEMMA OtherwiseTable == ASSUME NEW s \in State PROVE OtherwiseStep(s, Otherwise[s])
BY StateDef DEF Otherwise, OtherwiseStep

LEMMA NoRuleStart == ASSUME NEW c, NoRule("sStart", c) PROVE c # EOF
<1>1. Rule("sStart", {"blank", EOF, "0xFF"}, "sStart") \in Rules
  BY DEF Rules, StartRules
<1>2. QED
  BY <1>1, RuleFields DEF NoRule

\* States in which the text is the lexeme, inside a string, inside a block.
Raw == {"sInteger0", "sInteger", "sIntWithDot", "sFloat", "sExponent", "sExponentOperator",
        "sExponentNumber", "sIdentificatorOrKeyWord", "sDivOrFloorDiv", "sAssignOrEqual",
        "sLtOrLte", "sGtOrGte", "sExclMark"}
InString == {"sString", "sStringEscape", "sStringEscapeNumber", "sStringEscapeNumber1"}
InBlock == {"sBlockComment", "sBlockCommentEnd1", "sBlockCommentEnd2"}

\* States in which a token that keeps its last character may be complete.
Plain == {"sInteger0", "sInteger", "sFloat", "sExponentNumber", "sIdentificatorOrKeyWord",
          "sDivOrFloorDiv", "sAssignOrEqual", "sLtOrLte", "sGtOrGte"}

\* A step to another state.
LEMMA StateStep ==
  ASSUME NEW s \in State, NEW c, NEW t \in Targets(s, c) \cap State
  PROVE  /\ t = "sStart" => s = "sStart" /\ c \in {"blank", EOF, "0xFF"}
         /\ s = "sStart" /\ c \in {"blank", "0xFF"} => t = "sStart"
         /\ t = "sNewLine" => c = "\n"
         /\ t \in Raw => /\ s \in Raw \cup {"sStart"}
                         /\ c # "blank" /\ c # "\n" /\ c # "'" /\ c # "quote" /\ c # EOF
         /\ t \in InString => s \in InString \/ (s = "sStart" /\ c = "'")
         /\ t = "sBlockCommentStart1" => s = "sStart" /\ c = "quote"
         /\ t = "sBlockCommentStart2" => s = "sBlockCommentStart1" /\ c = "quote"
         /\ t \in InBlock => s \in InBlock \/ (s = "sBlockCommentStart2" /\ c = "quote")
         /\ t = "sBlockCommentEnd1" => s = "sBlockComment" /\ c = "quote"
         /\ t = "sBlockCommentEnd2" => s = "sBlockCommentEnd1" /\ c = "quote"
<1>1. RuleStep(s, c, t) \/ OtherStep(s, c, t)
  BY TargetsTable
<1> USE DEF Raw, InString, InBlock
<1>2. t # "TERR" /\ t # "TKEYWORD" /\ t \notin SingleToken
  BY StateDef DEF SingleToken
<1>3. CASE StartStep(s, c, t)
  BY <1>2, <1>3, SingleType DEF StartStep, EOF
<1>4. CASE NumberStep(s, c, t)
  BY <1>4 DEF NumberStep, EOF
<1>5. CASE CommentStep(s, c, t)
  BY <1>5 DEF CommentStep
<1>6. CASE WordStep(s, c, t)
  BY <1>6 DEF WordStep, EOF
<1>7. CASE StringStep(s, c, t)
  BY <1>7 DEF StringStep
<1>8. CASE OtherStep(s, c, t)
  <2>1. NoRule(s, c) /\ OtherwiseStep(s, t)
    BY <1>2, <1>8, OtherwiseTable DEF OtherStep
  <2>2. t \in {"sLineComment", "sBlockComment", "sString"} /\ s # "sStart"
    BY <2>1, StateDef DEF OtherwiseStep
  <2>3. QED
    BY <2>1, <2>2 DEF OtherwiseStep
<1>9. QED
  BY <1>1, <1>3, <1>4, <1>5, <1>6, <1>7, <1>8 DEF RuleStep

\* A step that returns a token.
LEMMA TokenStep ==
  ASSUME NEW s \in State, NEW c, NEW t \in Targets(s, c) \ State
  PROVE  /\ t \notin {"TLEXERR", "TNEWLINE"} =>
              \/ /\ TakesLast(s, t)
                 /\ c # "blank" /\ c # "\n" /\ c # EOF
              \/ ~TakesLast(s, t) /\ s \in Plain
         /\ TakesLast(s, t) => c # EOF
         /\ t = "TNEWLINE" => s = "sNewLine" /\ ~TakesLast(s, t)
         /\ t = "TINT" => s \in {"sInteger0", "sInteger"}
         /\ t = "TFLOAT" => s \in {"sFloat", "sExponentNumber"}
         /\ t \in {"TKEYWORD", "TIDENTIFICATOR"} => s = "sIdentificatorOrKeyWord"
         /\ t = "TSTRING" => s = "sString" /\ c = "'"
         /\ t = "TBLOCKCOMMENTORLITERAL" => s = "sBlockCommentEnd2" /\ c = "quote"
         /\ t \notin {"TDEDENT", "TFIRSTINDENT", "TINDENT", "TENDOFFILE"}
         /\ t \in TokenType
<1>1. RuleStep(s, c, t) \/ OtherStep(s, c, t)
  BY TargetsTable
<1> USE DEF TakesLast, Closed, Plain
<1>9. /\ {"TLEXERR", "TERR", "TKEYWORD"} \cup Closed \subseteq TokenType
      /\ Otherwise[s] \in State \cup TokenType
  <2>1. s \in DOMAIN Otherwise
    BY DEF State
  <2>2. Otherwise[s] \in Range(Otherwise)
    BY <2>1 DEF Range
  <2>3. "sStart" \in DOMAIN Otherwise /\ Otherwise["sStart"] = "TLEXERR"
    BY DEF Otherwise
  <2>4. "TLEXERR" \in Range(Otherwise) \ State
    BY <2>3, StateDef DEF Range
  <2>5. QED
    BY <2>2, <2>4 DEF TokenType
<1>2. CASE StartStep(s, c, t)
  <2>1. t \in SingleToken /\ c \in DOMAIN Single /\ s = "sStart"
    BY <1>2, StateDef, SingleType DEF StartStep
  <2>2. t = Single[c] /\ t \in TokenType
    BY <1>2, <2>1, StateDef DEF StartStep, TokenType, Range
  <2>3. QED
    BY <2>1, <2>2, SingleType DEF SingleToken
<1>3. CASE NumberStep(s, c, t)
  BY <1>3, <1>9, StateDef DEF NumberStep
<1>4. CASE CommentStep(s, c, t)
  BY <1>4, <1>9, StateDef DEF CommentStep, EOF
<1>5. CASE WordStep(s, c, t)
  BY <1>5, <1>9, StateDef DEF WordStep, EOF
<1>6. CASE StringStep(s, c, t)
  BY <1>6, <1>9, StateDef DEF StringStep, EOF
<1>7. CASE OtherStep(s, c, t)
  <2>1. \/ OtherwiseStep(s, t)
        \/ s = "sExponentNumber" /\ t = "TERR"
        \/ s = "sIdentificatorOrKeyWord" /\ t = "TKEYWORD"
    BY <1>7, OtherwiseTable DEF OtherStep
  <2>2. s = "sStart" => c # EOF
    BY <1>7, NoRuleStart DEF OtherStep
  <2>3. t \in TokenType
    BY <1>7, <1>9 DEF OtherStep
  <2>4. QED
    BY <2>1, <2>2, <2>3, StateDef DEF OtherwiseStep
<1>8. QED
  BY <1>1, <1>2, <1>3, <1>4, <1>5, <1>6, <1>7 DEF RuleStep
-----------------------------------------------------------------------------
(* stdin and the source *)

\* The place of the character of the source read last and not put back.
Read == Len(source) - Len(stdin)

StdinType ==
    /\ stdin \in Seq(Char)
    /\ source \in Seq(Char)
    /\ pieces \in 0..MaxPieces

\* What is still to be read is the end of the source.
StdinInv ==
    /\ Len(stdin) <= Len(source)
    /\ \A i \in 1..Len(stdin) : stdin[i] = source[Read + i]

\* Nothing is left to be read.
Ended == stdin = <<>> /\ pieces = MaxPieces

LEMMA CharFacts == EOF \notin Char /\ "blank" \in Char
<1>1. EOF \notin Char
  BY Zenon DEF EOF, Char
<1>2. "blank" \in Char
  BY Zenon DEF Char
<1>3. QED
  BY <1>1, <1>2

LEMMA PieceType ==
  ASSUME NEW piece \in Pieces
  PROVE  piece \in Seq(Char) /\ piece # <<>> /\ Head(piece) = piece[1] /\ piece[1] \in Char
BY SourceAssumption

\* The source as it was before the step, and what may follow it.
Grows ==
    /\ Len(source) <= Len(source')
    /\ \A i \in 1..Len(source) : source'[i] = source[i]

\* rest is the new source from place n on.
Remains(rest, n) ==
    /\ Len(rest) = Len(source') - n
    /\ \A i \in 1..Len(rest) : rest[i] = source'[n + i]

\* A character was read: it stands in the source where reading had stopped.
LEMMA ReadChar ==
  ASSUME StdinType, StdinInv, NEW c \in Readable, c # EOF, NEW back \in Seq(Char),
         Getchar(c, back)
  PROVE  /\ source' \in Seq(Char) /\ pieces' \in 0..MaxPieces
         /\ Grows
         /\ Read \in Nat /\ Read + 1 <= Len(source') /\ source'[Read + 1] = c /\ c \in Char
         /\ ~Ended
         /\ stdin # <<>> => stdin[1] = c
         /\ \E rest \in Seq(Char) : stdin' = back \o rest /\ Remains(rest, Read + 1)
<1> USE DEF StdinType, StdinInv, Read
<1>1. Read \in Nat
  OBVIOUS
<1>2. CASE stdin # <<>>
  <2>1. /\ c = Head(stdin) /\ stdin' = back \o Tail(stdin)
        /\ UNCHANGED <<source, pieces>>
    BY <1>2 DEF Getchar, Readable
  <2>2. /\ Tail(stdin) \in Seq(Char) /\ Len(Tail(stdin)) = Len(stdin) - 1
        /\ \A i \in 1..Len(Tail(stdin)) : Tail(stdin)[i] = stdin[i + 1]
        /\ Head(stdin) = stdin[1] /\ stdin[1] \in Char /\ Len(stdin) >= 1
    BY <1>2
  <2>3. \A i \in 1..Len(Tail(stdin)) : Tail(stdin)[i] = source[Read + 1 + i]
    BY <2>2
  <2>4. source[Read + 1] = c /\ Read + 1 <= Len(source)
    BY <2>1, <2>2
  <2>5. Remains(Tail(stdin), Read + 1)
    BY <2>1, <2>2, <2>3 DEF Remains
  <2>6. \E rest \in Seq(Char) : stdin' = back \o rest /\ Remains(rest, Read + 1)
    BY <2>1, <2>2, <2>5
  <2>7. /\ source' = source /\ pieces' = pieces
        /\ Grows /\ ~Ended
    BY <1>2, <2>1 DEF Grows, Ended
  <2>8. QED
    BY <1>1, <1>2, <2>1, <2>2, <2>4, <2>6, <2>7
<1>3. CASE stdin = <<>>
  <2>1. PICK piece \in Pieces :
          /\ Head(piece) = c
          /\ stdin' = back \o Tail(piece)
          /\ source' = source \o piece
          /\ pieces' = pieces + 1
    BY <1>3 DEF Getchar
  <2>2. pieces < MaxPieces
    BY <1>3 DEF Readable
  <2>3. /\ piece \in Seq(Char) /\ piece # <<>> /\ Head(piece) = piece[1] /\ piece[1] \in Char
    BY PieceType
  <2>4. /\ Tail(piece) \in Seq(Char) /\ Len(Tail(piece)) = Len(piece) - 1 /\ Len(piece) >= 1
        /\ \A i \in 1..Len(Tail(piece)) : Tail(piece)[i] = piece[i + 1]
    BY <2>3
  <2>5. /\ source' \in Seq(Char) /\ Len(source') = Len(source) + Len(piece)
        /\ \A i \in 1..Len(source) : source'[i] = source[i]
        /\ \A i \in 1..Len(piece) : source'[Len(source) + i] = piece[i]
    BY <2>1, <2>3
  <2>6. Read = Len(source) /\ Len(stdin) = 0
    BY <1>3
  <2>7. \A i \in 1..Len(Tail(piece)) : Tail(piece)[i] = source'[Read + 1 + i]
    BY <2>4, <2>5, <2>6
  <2>8. source'[Read + 1] = c /\ Read + 1 <= Len(source')
    BY <2>1, <2>3, <2>4, <2>5, <2>6
  <2>9. pieces' \in 0..MaxPieces /\ ~Ended
    BY <2>1, <2>2, SourceAssumption DEF Ended
  <2>10. Remains(Tail(piece), Read + 1)
    BY <2>4, <2>5, <2>6, <2>7 DEF Remains
  <2>11. \E rest \in Seq(Char) : stdin' = back \o rest /\ Remains(rest, Read + 1)
    BY <2>1, <2>4, <2>10
  <2>12. Grows
    BY <2>5 DEF Grows
  <2>13. QED
    BY <1>1, <1>3, <2>1, <2>3, <2>5, <2>8, <2>9, <2>11, <2>12
<1>4. QED
  BY <1>2, <1>3

\* The end of the source was read.
LEMMA ReadEnd ==
  ASSUME StdinType, NEW back, EOF \in Readable, Getchar(EOF, back)
  PROVE  /\ stdin = <<>> /\ stdin' = back
         /\ pieces' = MaxPieces /\ UNCHANGED source
         /\ Read = Len(source)
<1>1. stdin = <<>>
  <2>1. SUFFICES ASSUME stdin # <<>> PROVE FALSE
    OBVIOUS
  <2>2. Head(stdin) \in Char
    BY <2>1 DEF StdinType
  <2>3. QED
    BY <2>1, <2>2, CharFacts DEF Readable
<1>2. QED
  BY <1>1 DEF Getchar, Read, StdinType

\* text is what s has before its place n + 1.
Ends(text, s, n) ==
    /\ Len(text) <= n
    /\ \A i \in 1..Len(text) : text[i] = s[n - Len(text) + i]

\* Characters that end where reading goes on may be put back.
LEMMA PutBack ==
  ASSUME NEW back \in Seq(Char), NEW rest \in Seq(Char), NEW n \in Nat,
         stdin' = back \o rest, source' \in Seq(Char), n <= Len(source'),
         Remains(rest, n), Ends(back, source', n)
  PROVE  stdin' \in Seq(Char) /\ StdinInv' /\ Read' = n - Len(back)
<1>1. /\ stdin' \in Seq(Char) /\ Len(stdin') = Len(back) + Len(rest)
      /\ \A i \in 1..Len(stdin') :
            stdin'[i] = IF i <= Len(back) THEN back[i] ELSE rest[i - Len(back)]
  OBVIOUS
<1>2. Len(rest) = Len(source') - n /\ Len(back) \in Nat /\ Len(rest) \in Nat
  BY DEF Remains
<1>3. Read' = n - Len(back) /\ Len(stdin') <= Len(source')
  BY <1>1, <1>2 DEF Read, Ends
<1>4. ASSUME NEW i \in 1..Len(stdin') PROVE stdin'[i] = source'[Read' + i]
  <2>1. CASE i <= Len(back)
    BY <1>1, <1>2, <1>3, <2>1 DEF Ends
  <2>2. CASE i > Len(back)
    <3>1. i - Len(back) \in 1..Len(rest)
      BY <1>1, <1>2, <2>2
    <3>2. n + (i - Len(back)) = Read' + i
      BY <1>2, <1>3
    <3>3. rest[i - Len(back)] = source'[n + (i - Len(back))]
      BY <3>1 DEF Remains
    <3>4. stdin'[i] = rest[i - Len(back)]
      BY <1>1, <1>2, <2>2
    <3>5. QED
      BY <3>2, <3>3, <3>4
  <2>3. QED
    BY <1>2, <2>1, <2>2
<1>5. QED
  BY <1>1, <1>3, <1>4 DEF StdinInv

LEMMA SuffixOfSource ==
  ASSUME StdinType, StdinInv
  PROVE  Read \in Nat /\ Read <= Len(source)
BY DEF StdinType, StdinInv, Read

\* The step read one character and kept it.
LEMMA ReadKept ==
  ASSUME StdinType, StdinInv, NEW c \in Readable, c # EOF, Getchar(c, <<>>)
  PROVE  StdinType' /\ StdinInv' /\ Read' = Read + 1
<1>1. <<>> \in Seq(Char) /\ Read \in Nat
  BY SuffixOfSource
<1>2. PICK rest \in Seq(Char) : stdin' = <<>> \o rest /\ Remains(rest, Read + 1)
  BY <1>1, ReadChar
<1>3. /\ source' \in Seq(Char) /\ pieces' \in 0..MaxPieces
      /\ Read + 1 <= Len(source')
  BY <1>1, ReadChar
<1>4. Ends(<<>>, source', Read + 1)
  BY <1>1, <1>3 DEF Ends
<1>5. stdin' \in Seq(Char) /\ StdinInv' /\ Read' = (Read + 1) - Len(<<>>)
  <2>1. Read + 1 \in Nat
    BY <1>1
  <2>2. QED
    BY <1>1, <1>2, <1>3, <1>4, <2>1, PutBack
<1>6. QED
  BY <1>1, <1>3, <1>5 DEF StdinType

\* The step read a character and put it back, behind n blanks it had read before.
LEMMA ReadBlanks ==
  ASSUME StdinType, StdinInv, NEW c \in Readable, NEW n \in Nat, n <= Read,
         \A i \in Read - n + 1..Read : source[i] = "blank",
         Getchar(c, Blanks(n) \o Ungetc(c))
  PROVE  StdinType' /\ StdinInv' /\ Read' = Read - n /\ Grows
<1> DEFINE blanks == Blanks(n)
<1>1. /\ blanks \in Seq(Char) /\ Len(blanks) = n
      /\ \A i \in 1..n : blanks[i] = "blank"
  BY CharFacts DEF Blanks
<1>2. Read \in Nat /\ Read <= Len(source)
  BY SuffixOfSource
<1> HIDE DEF blanks
<1>3. CASE c # EOF
  <2>1. c \in Char
    BY <1>3, CharFacts, PieceType DEF Readable, StdinType
  <2>2. Ungetc(c) = <<c>> /\ <<c>> \in Seq(Char) /\ blanks \o <<c>> \in Seq(Char)
    BY <1>1, <1>3, <2>1 DEF Ungetc
  <2>3. Getchar(c, blanks \o <<c>>)
    BY <2>2 DEF blanks
  <2>4. PICK rest \in Seq(Char) :
          stdin' = (blanks \o <<c>>) \o rest /\ Remains(rest, Read + 1)
    BY <1>3, <2>2, <2>3, ReadChar
  <2>5. /\ source' \in Seq(Char) /\ pieces' \in 0..MaxPieces /\ Grows
        /\ Read + 1 \in Nat /\ Read + 1 <= Len(source') /\ source'[Read + 1] = c
    <3>1. /\ source' \in Seq(Char) /\ pieces' \in 0..MaxPieces /\ Grows
          /\ Read + 1 <= Len(source') /\ source'[Read + 1] = c
      BY <1>3, <2>2, <2>3, ReadChar
    <3>2. QED
      BY <1>2, <3>1
  <2>6. /\ Len(blanks \o <<c>>) = n + 1
        /\ \A i \in 1..n : (blanks \o <<c>>)[i] = "blank"
        /\ (blanks \o <<c>>)[n + 1] = c
    BY <1>1, <2>1
  <2>7. \A i \in 1..n : source'[Read - n + i] = "blank"
    BY <1>2, <2>5 DEF Grows
  <2>8. Ends(blanks \o <<c>>, source', Read + 1)
    <3>1. Len(blanks \o <<c>>) <= Read + 1
      BY <1>2, <2>6
    <3>2. ASSUME NEW i \in 1..n + 1
          PROVE  (blanks \o <<c>>)[i] = source'[(Read + 1) - (n + 1) + i]
      <4>1. CASE i = n + 1
        BY <1>2, <2>5, <2>6, <4>1
      <4>2. CASE i # n + 1
        <5>1. i \in 1..n /\ (Read + 1) - (n + 1) + i = Read - n + i
          BY <1>2, <4>2
        <5>2. QED
          BY <2>6, <2>7, <5>1
      <4>3. QED
        BY <4>1, <4>2
    <3>3. QED
      BY <2>6, <3>1, <3>2 DEF Ends
  <2>9. stdin' \in Seq(Char) /\ StdinInv' /\ Read' = (Read + 1) - (n + 1)
    BY <2>2, <2>4, <2>5, <2>6, <2>8, PutBack
  <2>10. QED
    BY <1>2, <2>5, <2>9 DEF StdinType
<1>4. CASE c = EOF
  <2>1. Ungetc(c) = <<>> /\ blanks \o <<>> = blanks
    BY <1>1, <1>4, ConcatEmptySeq DEF Ungetc
  <2>2. /\ stdin = <<>> /\ stdin' = blanks
        /\ pieces' = MaxPieces /\ UNCHANGED source /\ Read = Len(source)
    BY <1>4, <2>1, ReadEnd DEF blanks
  <2>3. stdin' = blanks \o <<>> /\ <<>> \in Seq(Char)
    BY <2>1, <2>2
  <2>4. Remains(<<>>, Read) /\ source' \in Seq(Char) /\ Read <= Len(source')
    BY <2>2 DEF Remains, StdinType
  <2>5. \A i \in 1..n : source'[Read - n + i] = "blank"
    BY <1>2, <2>2
  <2>6. Ends(blanks, source', Read)
    BY <1>1, <1>2, <2>2, <2>5 DEF Ends
  <2>7. stdin' \in Seq(Char) /\ StdinInv' /\ Read' = Read - n
    BY <1>1, <1>2, <2>3, <2>4, <2>6, PutBack
  <2>8. QED
    BY <2>2, <2>4, <2>7, SourceAssumption DEF StdinType, Grows
<1>5. QED
  BY <1>3, <1>4

\* The step read a character, or the end, and put it back.
LEMMA ReadReturned ==
  ASSUME StdinType, StdinInv, NEW c \in Readable, Getchar(c, Ungetc(c))
  PROVE  /\ StdinType' /\ StdinInv' /\ Read' = Read /\ Grows
         /\ c = EOF => Ended'
         /\ c # EOF => stdin' # <<>> /\ stdin'[1] = c
<1>1. Ungetc(c) \in Seq(Char)
  BY CharFacts, PieceType DEF Readable, StdinType, Ungetc
<1>2. Blanks(0) = <<>> /\ Blanks(0) \o Ungetc(c) = Ungetc(c)
  BY <1>1, ConcatEmptySeq DEF Blanks
<1>3. Read \in Nat
  BY SuffixOfSource
<1>4. 0 \in Nat /\ 0 <= Read /\ \A i \in Read - 0 + 1..Read : source[i] = "blank"
  BY <1>3
<1>5. StdinType' /\ StdinInv' /\ Read' = Read - 0 /\ Grows
  <2>1. Getchar(c, Blanks(0) \o Ungetc(c))
    BY <1>2
  <2>2. QED
    BY <1>4, <2>1, ReadBlanks
<1>6. CASE c = EOF
  BY <1>3, <1>5, <1>6, ReadEnd DEF Ungetc, Ended
<1>7. CASE c # EOF
  <2>1. Ungetc(c) = <<c>> /\ c \in Char
    BY <1>7, ReadChar, <1>1 DEF Ungetc
  <2>2. PICK rest \in Seq(Char) : stdin' = <<c>> \o rest
    BY <1>1, <1>7, <2>1, ReadChar
  <2>3. stdin' # <<>> /\ stdin'[1] = c
    BY <2>1, <2>2
  <2>4. QED
    BY <1>3, <1>5, <1>7, <2>3
<1>8. QED
  BY <1>6, <1>7
-----------------------------------------------------------------------------
(* The characters that were taken *)

\* Their number.
At == Len(taken)

InputType == StdinType /\ taken \in Seq(Nat)

\* They were taken in the order of the source, and nothing but 0xFF was passed over.
InputInv ==
    /\ StdinInv
    /\ \A i \in 1..At : taken[i] \in 1..Read
    /\ \A i, j \in 1..At : i < j => taken[i] < taken[j]
    /\ \A place \in 1..Read :
         (\E i \in 1..At : taken[i] = place) \/ source[place] = "0xFF"

\* The last n of them stand side by side, where reading goes on.
JustRead(n) == n \in 0..At /\ \A k \in 0..n - 1 : taken[At - k] = Read - k

\* What was taken before the step and is still taken is the same text.
Continues == \A i \in 1..At : i <= At' => Consumed'[i] = Consumed[i]

LEMMA ConsumedText ==
  ASSUME InputType, InputInv
  PROVE  /\ At \in Nat /\ Consumed \in Seq(Char) /\ Len(Consumed) = At
         /\ \A i \in 1..At : Consumed[i] = source[taken[i]]
         /\ \A i \in 1..At : taken[i] \in 1..Read /\ taken[i] \in 1..Len(source)
         /\ Read \in Nat /\ Read <= Len(source)
<1>1. Read \in Nat /\ Read <= Len(source) /\ source \in Seq(Char)
  BY SuffixOfSource DEF InputType, InputInv, StdinType
<1>2. At \in Nat /\ \A i \in 1..At : taken[i] \in 1..Read
  BY DEF InputType, InputInv, At
<1>3. \A i \in 1..At : taken[i] \in 1..Len(source) /\ source[taken[i]] \in Char
  BY <1>1, <1>2
<1>4. QED
  BY <1>1, <1>2, <1>3 DEF Consumed, At

\* The text after a step that took away nothing from the source.
LEMMA ConsumedNext ==
  ASSUME InputType, InputInv, InputType', InputInv', Grows,
         \A i \in 1..At : i <= At' => taken'[i] = taken[i]
  PROVE  Continues
<1>1. ASSUME NEW i \in 1..At, i <= At' PROVE Consumed'[i] = Consumed[i]
  <2>1. /\ Consumed[i] = source[taken[i]] /\ taken[i] \in 1..Len(source)
        /\ At \in Nat
    BY ConsumedText
  <2>2. \A k \in 1..At' : Consumed'[k] = source'[taken'[k]]
    BY DEF Consumed, At
  <2>3. At' \in Nat
    BY DEF InputType, At
  <2>4. Consumed'[i] = source'[taken[i]]
    BY <1>1, <2>1, <2>2, <2>3
  <2>5. QED
    BY <2>1, <2>4 DEF Grows
<1>2. QED
  BY <1>1 DEF Continues

\* The step took one character.
LEMMA Taking ==
  ASSUME InputType, InputInv, NEW c \in Readable, c # EOF, Getchar(c, <<>>), Take
  PROVE  /\ InputType' /\ InputInv' /\ Continues
         /\ At \in Nat /\ At' = At + 1 /\ Read \in Nat /\ Read' = Read + 1
         /\ Consumed'[At + 1] = c /\ c \in Char
         /\ taken'[At + 1] = Read'
         /\ \A i \in 1..At : taken'[i] = taken[i]
         /\ ~Ended
         /\ stdin # <<>> => stdin[1] = c
<1>1. StdinType /\ StdinInv /\ taken \in Seq(Nat) /\ <<>> \in Seq(Char)
  BY DEF InputType, InputInv
<1>2. /\ StdinType' /\ StdinInv' /\ Read' = Read + 1
      /\ Read \in Nat /\ Read <= Len(source)
  BY <1>1, ReadKept, SuffixOfSource
<1>3. /\ Grows /\ source'[Read + 1] = c /\ c \in Char /\ ~Ended
      /\ Read + 1 <= Len(source')
      /\ stdin # <<>> => stdin[1] = c
  BY <1>1, ReadChar
<1>4. taken' = Append(taken, Read')
  BY DEF Take, Read
<1>5. /\ taken' \in Seq(Nat) /\ At \in Nat /\ At' = At + 1
      /\ taken'[At + 1] = Read' /\ \A i \in 1..At : taken'[i] = taken[i]
  BY <1>1, <1>2, <1>4 DEF At
<1>6. InputInv'
  <2>1. \A i \in 1..At : taken[i] \in 1..Read
    BY DEF InputInv
  <2>2. ASSUME NEW i \in 1..At' PROVE taken'[i] \in 1..Read'
    BY <1>2, <1>5, <2>1, <2>2
  <2>3. ASSUME NEW i \in 1..At', NEW j \in 1..At', i < j PROVE taken'[i] < taken'[j]
    <3>1. CASE j = At + 1
      BY <1>2, <1>5, <2>1, <2>3, <3>1
    <3>2. CASE j # At + 1
      <4>1. i \in 1..At /\ j \in 1..At
        BY <1>5, <2>3, <3>2
      <4>2. QED
        BY <1>5, <2>3, <4>1 DEF InputInv
    <3>3. QED
      BY <3>1, <3>2
  <2>4. ASSUME NEW place \in 1..Read'
        PROVE  (\E i \in 1..At' : taken'[i] = place) \/ source'[place] = "0xFF"
    <3>1. CASE place = Read + 1
      BY <1>2, <1>5, <3>1
    <3>2. CASE place # Read + 1
      <4>1. place \in 1..Read /\ place \in 1..Len(source)
        BY <1>2, <3>2
      <4>2. source'[place] = source[place]
        BY <1>3, <4>1 DEF Grows
      <4>3. (\E i \in 1..At : taken[i] = place) \/ source[place] = "0xFF"
        BY <4>1 DEF InputInv
      <4>4. CASE source[place] = "0xFF"
        BY <4>2, <4>4
      <4>5. ASSUME NEW i \in 1..At, taken[i] = place PROVE \E k \in 1..At' : taken'[k] = place
        <5>1. i \in 1..At' /\ taken'[i] = place
          BY <1>5, <4>5
        <5>2. QED
          BY <5>1
      <4>6. QED
        BY <4>3, <4>4, <4>5
    <3>3. QED
      BY <3>1, <3>2
  <2>5. QED
    BY <1>2, <2>2, <2>3, <2>4 DEF InputInv
<1>7. InputType'
  BY <1>2, <1>5 DEF InputType
<1>8. Continues
  BY <1>3, <1>5, <1>6, <1>7, ConsumedNext
<1>9. Consumed'[At + 1] = c
  <2>1. \A k \in 1..At' : Consumed'[k] = source'[taken'[k]]
    BY DEF Consumed, At
  <2>2. QED
    BY <1>2, <1>3, <1>5, <2>1
<1>10. QED
  BY <1>2, <1>3, <1>5, <1>6, <1>7, <1>8, <1>9

\* The step read on, but took nothing: at most it passed over a byte 0xFF.
LEMMA PassingOver ==
  ASSUME InputType, InputInv, StdinType', StdinInv', Grows, UNCHANGED taken,
         \/ Read' = Read
         \/ Read' = Read + 1 /\ source'[Read + 1] = "0xFF"
  PROVE  InputType' /\ InputInv' /\ At' = At /\ Continues
<1>1. /\ Read \in Nat /\ Read <= Len(source) /\ At \in Nat /\ At' = At
      /\ \A i \in 1..At : taken'[i] = taken[i]
  BY ConsumedText DEF At
<1>2. InputType'
  BY DEF InputType
<1>3. InputInv'
  <2>1. \A i \in 1..At' : taken'[i] \in 1..Read'
    BY <1>1 DEF InputInv
  <2>2. \A i, j \in 1..At' : i < j => taken'[i] < taken'[j]
    BY <1>1 DEF InputInv
  <2>3. ASSUME NEW place \in 1..Read'
        PROVE  (\E i \in 1..At' : taken'[i] = place) \/ source'[place] = "0xFF"
    <3>1. CASE place \in 1..Read
      <4>1. source'[place] = source[place]
        BY <1>1, <3>1 DEF Grows
      <4>2. (\E i \in 1..At : taken[i] = place) \/ source[place] = "0xFF"
        BY <3>1 DEF InputInv
      <4>3. QED
        BY <1>1, <4>1, <4>2
    <3>2. CASE place \notin 1..Read
      BY <1>1, <3>2
    <3>3. QED
      BY <3>1, <3>2
  <2>4. QED
    BY <2>1, <2>2, <2>3 DEF InputInv
<1>4. QED
  BY <1>1, <1>2, <1>3, ConsumedNext

\* The step read a character, or the end, and put it back.
LEMMA Returning ==
  ASSUME InputType, InputInv, NEW c \in Readable, Getchar(c, Ungetc(c)), UNCHANGED taken
  PROVE  /\ InputType' /\ InputInv' /\ At' = At /\ Continues
         /\ c = EOF => Ended'
         /\ c # EOF => stdin' # <<>> /\ stdin'[1] = c
<1>1. StdinType /\ StdinInv
  BY DEF InputType, InputInv
<1>2. /\ StdinType' /\ StdinInv' /\ Read' = Read /\ Grows
      /\ c = EOF => Ended'
      /\ c # EOF => stdin' # <<>> /\ stdin'[1] = c
  BY <1>1, ReadReturned
<1>3. QED
  BY <1>2, PassingOver

\* The step read the character behind a token: token_fill put it back, or lost it.
LEMMA ReturningChar ==
  ASSUME InputType, InputInv, NEW c \in Readable, Getchar(c, UngetcChar(c)), UNCHANGED taken
  PROVE  /\ InputType' /\ InputInv' /\ At' = At /\ Continues
         /\ Read + 1 <= Len(source') => c \in Char /\ source'[Read + 1] = c
<1>1. StdinType /\ StdinInv /\ <<>> \in Seq(Char) /\ Read \in Nat
  BY ConsumedText DEF InputType, InputInv
<1>2. CASE c = EOF
  <2>1. UngetcChar(c) = Ungetc(c)
    BY <1>2 DEF UngetcChar, Ungetc
  <2>2. StdinType' /\ StdinInv' /\ Read' = Read /\ Grows
    BY <1>1, <2>1, ReadReturned
  <2>3. UNCHANGED source /\ Read = Len(source)
    BY <1>1, <1>2, ReadEnd
  <2>4. QED
    BY <1>1, <2>2, <2>3, PassingOver
<1>3. CASE c = "0xFF"
  <2>1. UngetcChar(c) = <<>> /\ c # EOF
    BY <1>3 DEF UngetcChar, EOF
  <2>2. StdinType' /\ StdinInv' /\ Read' = Read + 1
    BY <1>1, <2>1, ReadKept
  <2>3. Grows /\ source'[Read + 1] = c /\ c \in Char
    BY <1>1, <2>1, ReadChar
  <2>4. QED
    BY <1>3, <2>2, <2>3, PassingOver
<1>4. CASE c # EOF /\ c # "0xFF"
  <2>1. UngetcChar(c) = Ungetc(c) /\ Ungetc(c) = <<c>>
    BY <1>4 DEF UngetcChar, Ungetc
  <2>2. StdinType' /\ StdinInv' /\ Read' = Read /\ Grows
    BY <1>1, <2>1, ReadReturned
  <2>3. c \in Char
    BY <1>1, <1>4, CharFacts, PieceType DEF Readable, StdinType
  <2>4. <<c>> \in Seq(Char) /\ Getchar(c, <<c>>)
    BY <2>1, <2>3
  <2>5. source'[Read + 1] = c
    BY <1>1, <1>4, <2>4, ReadChar
  <2>6. QED
    BY <2>2, <2>3, <2>5, PassingOver
<1>5. QED
  BY <1>2, <1>3, <1>4

\* The step read a character and put it back, behind the n blanks taken last.
LEMMA ReturningBlanks ==
  ASSUME InputType, InputInv, NEW c \in Readable, NEW n \in Nat, JustRead(n),
         \A i \in At - n + 1..At : Consumed[i] = "blank",
         Getchar(c, Blanks(n) \o Ungetc(c)), taken' = SubSeq(taken, 1, At - n)
  PROVE  InputType' /\ InputInv' /\ At' = At - n /\ Continues
<1>1. /\ At \in Nat /\ Read \in Nat /\ n <= At /\ StdinType /\ StdinInv /\ taken \in Seq(Nat)
      /\ \A i \in 1..At : taken[i] \in 1..Read /\ Consumed[i] = source[taken[i]]
      /\ Read <= Len(source)
  BY ConsumedText DEF InputType, InputInv, JustRead
<1>2. \A i \in At - n + 1..At : taken[i] = Read - (At - i)
  <2>1. ASSUME NEW i \in At - n + 1..At PROVE taken[i] = Read - (At - i)
    <3>1. At - i \in 0..n - 1 /\ At - (At - i) = i
      BY <1>1
    <3>2. QED
      BY <3>1 DEF JustRead
  <2>2. QED
    BY <2>1
<1>3. n <= Read /\ \A place \in Read - n + 1..Read : source[place] = "blank"
  <2>1. ASSUME NEW k \in 0..n - 1 PROVE Read - k >= 1 /\ source[Read - k] = "blank"
    <3>1. At - k \in At - n + 1..At /\ At - k \in 1..At /\ At - (At - k) = k
      BY <1>1
    <3>2. taken[At - k] = Read - k
      BY <1>2, <3>1
    <3>3. Read - k \in 1..Read /\ Consumed[At - k] = source[Read - k]
      BY <1>1, <3>1, <3>2
    <3>4. QED
      BY <3>1, <3>3
  <2>2. n <= Read
    <3>1. n = 0 \/ n - 1 \in 0..n - 1
      OBVIOUS
    <3>2. QED
      BY <1>1, <2>1, <3>1
  <2>3. ASSUME NEW place \in Read - n + 1..Read PROVE source[place] = "blank"
    <3>1. Read - place \in 0..n - 1 /\ Read - (Read - place) = place
      BY <1>1
    <3>2. QED
      BY <2>1, <3>1
  <2>4. QED
    BY <2>2, <2>3
<1>4. StdinType' /\ StdinInv' /\ Read' = Read - n /\ Grows
  BY <1>1, <1>3, ReadBlanks
<1>5. /\ taken' \in Seq(Nat) /\ At' = At - n
      /\ \A i \in 1..At - n : taken'[i] = taken[i]
  <2> DEFINE m == At - n
  <2>1. m \in Nat /\ m <= Len(taken)
    BY <1>1 DEF At
  <2> HIDE DEF m
  <2>2. /\ SubSeq(taken, 1, m) \in Seq(Nat) /\ Len(SubSeq(taken, 1, m)) = m
        /\ \A i \in 1..m : SubSeq(taken, 1, m)[i] = taken[i]
    BY <1>1, <2>1
  <2>3. taken' = SubSeq(taken, 1, m)
    BY DEF m
  <2>4. /\ taken' \in Seq(Nat) /\ At' = m
        /\ \A i \in 1..m : taken'[i] = taken[i]
    BY <2>2, <2>3 DEF At
  <2>5. QED
    BY <2>4 DEF m
<1>6. InputInv'
  <2>1. ASSUME NEW i \in 1..At - n PROVE taken[i] \in 1..Read - n
    <3>1. CASE n = 0
      BY <1>1, <3>1
    <3>2. CASE n # 0
      <4>1. At - n + 1 \in At - n + 1..At /\ At - n + 1 \in 1..At /\ i \in 1..At
            /\ i < At - n + 1
        BY <1>1, <3>2
      <4>2. taken[At - n + 1] = Read - (At - (At - n + 1))
        BY <1>2, <4>1
      <4>3. taken[i] < taken[At - n + 1] /\ taken[i] \in 1..Read
        BY <1>1, <4>1 DEF InputInv
      <4>4. QED
        BY <1>1, <4>2, <4>3
    <3>3. QED
      BY <3>1, <3>2
  <2>2. \A i \in 1..At' : taken'[i] \in 1..Read'
    BY <1>4, <1>5, <2>1
  <2>3. ASSUME NEW i \in 1..At', NEW j \in 1..At', i < j PROVE taken'[i] < taken'[j]
    <3>1. i \in 1..At /\ j \in 1..At /\ taken'[i] = taken[i] /\ taken'[j] = taken[j]
      BY <1>1, <1>5
    <3>2. QED
      BY <2>3, <3>1 DEF InputInv
  <2>4. ASSUME NEW place \in 1..Read'
        PROVE  (\E i \in 1..At' : taken'[i] = place) \/ source'[place] = "0xFF"
    <3>1. place \in 1..Read /\ place <= Read - n /\ place \in 1..Len(source)
      BY <1>1, <1>4
    <3>2. source'[place] = source[place]
      BY <1>4, <3>1 DEF Grows
    <3>3. ASSUME NEW i \in 1..At, taken[i] = place PROVE i \in 1..At'
      <4>1. SUFFICES ASSUME i \notin 1..At - n PROVE FALSE
        BY <1>5
      <4>2. i \in At - n + 1..At
        BY <1>1, <4>1
      <4>3. taken[i] = Read - (At - i)
        BY <1>2, <4>2
      <4>4. QED
        BY <1>1, <3>1, <3>3, <4>2, <4>3
    <3>4. (\E i \in 1..At : taken[i] = place) \/ source[place] = "0xFF"
      BY <3>1 DEF InputInv
    <3>5. QED
      BY <1>5, <3>2, <3>3, <3>4
  <2>5. QED
    BY <1>4, <2>2, <2>3, <2>4 DEF InputInv
<1>7. InputType'
  BY <1>4, <1>5 DEF InputType
<1>8. Continues
  <2>1. \A i \in 1..At : i <= At' => taken'[i] = taken[i]
    BY <1>1, <1>5
  <2>2. QED
    BY <1>4, <1>6, <1>7, <2>1, ConsumedNext
<1>9. QED
  BY <1>5, <1>6, <1>7, <1>8
-----------------------------------------------------------------------------
(* The invariant *)

LineBegins(s, p) == p = 0 \/ s[p] = "\n"

\* Between the start of a line of s and place p lie n blanks and nothing else.
BlanksTo(s, p, n) ==
    /\ n \in 0..p
    /\ \A i \in p - n + 1..p : s[i] = "blank"
    /\ LineBegins(s, p - n)

\* The stack lives from the first call to the end of the source, where nothing
\* but the end is read again.
StackInv ==
    /\ stack = "none" => pc = "idle" /\ last_token_type = "TFIRSTINDENT" /\ At = 0
    /\ pc = "idle" /\ last_token_type = "TFIRSTINDENT" => stack = "none"
    /\ stack = "destroyed" =>
          /\ Ended
          /\ \/ pc = "aborted"
             \/ pc = "idle" /\ last_token_type = "TENDOFFILE"
             \/ pc = "automaton" /\ state = "sStart"
    /\ IndentsRise

\* indent_counter is called at the start of a line.
LineInv ==
    /\ pc = "indent_counter" => BlanksTo(Consumed, At, counter) /\ JustRead(counter)
    /\ pc = "idle" /\ last_token_type \in LineStart => LineBegins(Consumed, At)
    /\ pc = "idle" /\ last_token_type # "TFIRSTINDENT" => token.type = last_token_type

\* The lexeme is what was read last.
LexemeInv ==
    pc = "automaton" =>
      /\ Len(lexeme) <= At
      /\ \A i \in 1..Len(lexeme) : lexeme[i] = Consumed[At - Len(lexeme) + i]
      /\ lexeme # <<>> => taken[At] = Read
      /\ state = "sStart" <=> lexeme = <<>>
      /\ state = "sNewLine" => lexeme[Len(lexeme)] = "\n"
      /\ state \in Plain => lexeme[Len(lexeme)] \notin {"blank", "\n"}

\* If place p ends the blanks of a line, no blank follows, and the innermost
\* block has the indent of the line unless it needs none.
Fits(p) ==
    \A n \in 0..p : BlanksTo(Consumed, p, n) =>
        \/ Ended
        \/ /\ stdin # <<>> /\ stdin[1] # "blank"
           /\ stdin[1] \in Transparent \/ Last(indents) = n

\* indent_counter is done with the line the automaton begins to read.
BlockInv ==
    token.type # "TLEXERR" =>
      /\ pc = "idle" /\ last_token_type \notin LineStart => Fits(At)
      /\ pc = "automaton" /\ lexeme = <<>> => Fits(At)
      /\ pc = "automaton" /\ lexeme # <<>> /\ lexeme[1] \notin Transparent =>
           \A n \in 0..At : BlanksTo(Consumed, At - Len(lexeme), n) => Last(indents) = n

\* The text of the token, and the lexeme with what opens it.
StringIsText ==
    /\ state = "sStart" => string = <<>>
    /\ state \in Raw => string = lexeme
    /\ state \in InString => lexeme = <<"'">> \o string
    /\ state = "sBlockCommentStart1" => string = <<>> /\ lexeme = <<"quote">>
    /\ state = "sBlockCommentStart2" => string = <<>> /\ lexeme = <<"quote", "quote">>
    /\ state \in InBlock => lexeme = Quotes \o string
    /\ state = "sBlockCommentEnd1" =>
         Len(string) >= 1 /\ string[Len(string)] = "quote"
    /\ state = "sBlockCommentEnd2" =>
         /\ Len(string) >= 2
         /\ string[Len(string)] = "quote" /\ string[Len(string) - 1] = "quote"

StringInv == pc = "automaton" /\ ~stray => StringIsText

\* A stray byte 0xFF is in front of the text.
StrayInv ==
    pc = "automaton" /\ stray /\ state \in Raw \cup {"sStart"} =>
      string # <<>> /\ string[1] = "0xFF"

Inv ==
    /\ TypeOK /\ InputInv /\ StackInv /\ LineInv /\ LexemeInv /\ BlockInv
    /\ StringInv /\ StrayInv /\ ValueIsText

\* The part of the type invariant that is not about stdin.
ControlType ==
    /\ indents \in Seq(Nat)
    /\ stack \in {"none", "live", "destroyed"}
    /\ last_token_type \in TokenType \cup {"TFIRSTINDENT", "TNOTHING"}
    /\ pc \in {"idle", "indent_counter", "automaton", "aborted"}
    /\ counter \in Nat

TextType ==
    /\ state \in State
    /\ string \in Seq(Char \cup {EOF})
    /\ lexeme \in Seq(Char)
    /\ stray \in BOOLEAN

TokenOK ==
    /\ token.type \in TokenType \cup {"TNOTHING"}
    /\ token.value \in Seq(Char \cup {EOF}) \cup {DeleteLast(Printed)}

LEMMA TypeParts == TypeOK <=> InputType /\ ControlType /\ TextType /\ TokenOK
BY DEF TypeOK, InputType, StdinType, ControlType, TextType, TokenOK

-----------------------------------------------------------------------------
(* Lines and blanks *)

\* A line has one number of blanks.
LEMMA BlanksUnique ==
  ASSUME NEW s, NEW p \in Nat, NEW n, BlanksTo(s, p, n), NEW m, BlanksTo(s, p, m)
  PROVE  n = m
<1>1. n \in Nat /\ m \in Nat /\ n <= p /\ m <= p
  BY DEF BlanksTo
<1>2. ASSUME NEW x \in Nat, NEW y \in Nat, BlanksTo(s, p, x), BlanksTo(s, p, y), x < y
      PROVE  FALSE
  <2>1. y <= p /\ s[p - x] = "blank"
    <3>1. y <= p
      BY <1>2 DEF BlanksTo
    <3>2. p - x \in p - y + 1..p
      BY <1>2, <3>1
    <3>3. QED
      BY <1>2, <3>1, <3>2 DEF BlanksTo
  <2>2. LineBegins(s, p - x) /\ p - x # 0
    BY <1>2, <2>1 DEF BlanksTo
  <2>3. QED
    BY <2>1, <2>2 DEF LineBegins
<1>3. QED
  BY <1>1, <1>2

\* What follows does not change the lines that were read.
LEMMA BlanksStable ==
  ASSUME Continues, NEW p \in Nat, p <= At, p <= At', NEW n
  PROVE  /\ BlanksTo(Consumed', p, n) <=> BlanksTo(Consumed, p, n)
         /\ LineBegins(Consumed', p) <=> LineBegins(Consumed, p)
<1>1. \A i \in 1..p : Consumed'[i] = Consumed[i]
  BY DEF Continues, At
<1>2. LineBegins(Consumed', p) <=> LineBegins(Consumed, p)
  BY <1>1 DEF LineBegins
<1>3. ASSUME n \in 0..p PROVE LineBegins(Consumed', p - n) <=> LineBegins(Consumed, p - n)
  BY <1>1, <1>3 DEF LineBegins
<1>4. ASSUME n \in 0..p
      PROVE  \A i \in p - n + 1..p : Consumed'[i] = Consumed[i]
  BY <1>1, <1>4
<1>5. QED
  BY <1>2, <1>3, <1>4 DEF BlanksTo

\* A blank is one more.
LEMMA OneBlankMore ==
  ASSUME NEW s, NEW p \in Nat, s[p + 1] = "blank", NEW n
  PROVE  /\ BlanksTo(s, p, n) => BlanksTo(s, p + 1, n + 1)
         /\ BlanksTo(s, p + 1, n) => n \in Nat /\ n - 1 \in 0..p /\ BlanksTo(s, p, n - 1)
<1>1. ASSUME BlanksTo(s, p, n) PROVE BlanksTo(s, p + 1, n + 1)
  <2>1. n \in 0..p /\ n + 1 \in 0..p + 1 /\ p + 1 - (n + 1) = p - n
    BY <1>1 DEF BlanksTo
  <2>2. ASSUME NEW i \in p - n + 1..p + 1 PROVE s[i] = "blank"
    <3>1. i = p + 1 \/ i \in p - n + 1..p
      BY <2>1
    <3>2. QED
      BY <1>1, <3>1 DEF BlanksTo
  <2>3. QED
    BY <1>1, <2>1, <2>2 DEF BlanksTo
<1>2. ASSUME BlanksTo(s, p + 1, n)
      PROVE  n \in Nat /\ n - 1 \in 0..p /\ BlanksTo(s, p, n - 1)
  <2>1. n \in 0..p + 1
    BY <1>2 DEF BlanksTo
  <2>2. n # 0
    BY <1>2 DEF BlanksTo, LineBegins
  <2>3. n - 1 \in 0..p /\ p - (n - 1) = p + 1 - n
    BY <2>1, <2>2
  <2>4. \A i \in p - (n - 1) + 1..p : s[i] = "blank"
    BY <1>2, <2>1, <2>3 DEF BlanksTo
  <2>5. QED
    BY <1>2, <2>1, <2>3, <2>4 DEF BlanksTo
<1>3. QED
  BY <1>1, <1>2

\* After another character there is no place for the blanks of a line.
LEMMA NoBlanks ==
  ASSUME NEW s, NEW p \in Nat, p # 0, s[p] # "blank", s[p] # "\n", NEW n
  PROVE  ~BlanksTo(s, p, n)
<1>1. SUFFICES ASSUME BlanksTo(s, p, n) PROVE FALSE
  OBVIOUS
<1>2. n \in 0..p
  BY <1>1 DEF BlanksTo
<1>3. n = 0
  BY <1>1, <1>2 DEF BlanksTo
<1>4. QED
  BY <1>1, <1>3 DEF BlanksTo, LineBegins

LEMMA NoBlanksYet ==
  ASSUME NEW s, NEW p \in Nat, LineBegins(s, p)
  PROVE  BlanksTo(s, p, 0)
BY DEF BlanksTo
-----------------------------------------------------------------------------
(* Calls, and the indent of a line *)

LEMMA NextType ==
  ASSUME InputType', ControlType', TextType', TokenOK'
  PROVE  TypeOK'
BY DEF TypeOK, InputType, StdinType, ControlType, TextType, TokenOK

\* The automaton begins with no character.
LEMMA Entered ==
  ASSUME EnterAutomaton, At' \in Nat
  PROVE  TextType' /\ LineInv' /\ LexemeInv' /\ StringInv' /\ StrayInv' /\ ValueIsText'
<1>1. /\ pc' = "automaton" /\ state' = "sStart" /\ string' = <<>> /\ lexeme' = <<>>
      /\ stray' = FALSE
      /\ "sStart" \in State
  BY StateDef DEF EnterAutomaton
<1>2. TextType'
  <2>1. stray' \in BOOLEAN
    BY <1>1, Zenon
  <2>2. QED
    BY <1>1, <2>1 DEF TextType
<1>3. LineInv' /\ ValueIsText'
  <2>1. LineInv'
    BY <1>1 DEF LineInv
  <2>2. pc' # "idle"
    BY <1>1
  <2>3. QED
    BY <2>1, <2>2, Zenon DEF ValueIsText
<1>4. LexemeInv'
  BY <1>1 DEF LexemeInv, Plain
<1>5. StringInv' /\ StrayInv'
  BY <1>1 DEF StringInv, StringIsText, StrayInv, Raw, InString, InBlock
<1>6. QED
  BY <1>2, <1>3, <1>4, <1>5

LEMMA CallStep ==
  ASSUME Inv, Call
  PROVE  Inv'
<1>1. /\ UNCHANGED <<stdin, source, pieces, taken>> /\ UNCHANGED token /\ pc = "idle"
      /\ InputType /\ ControlType /\ TextType /\ TokenOK
      /\ InputInv /\ StackInv /\ LineInv /\ BlockInv
  BY TypeParts DEF Call, inputVars, Inv
<1>2. /\ InputType' /\ InputInv' /\ TokenOK' /\ At' = At /\ At \in Nat /\ (Ended' <=> Ended)
      /\ Consumed' = Consumed
  BY <1>1, ConsumedText
  DEF InputType, InputInv, StdinType, StdinInv, TokenOK, At, Read, Ended, Consumed
<1>3. CASE last_token_type \in LineStart
  <2>1. /\ pc' = "indent_counter" /\ counter' = 0
        /\ UNCHANGED <<last_token_type, state, string, lexeme, stray>>
        /\ \/ last_token_type = "TFIRSTINDENT" /\ indents' = <<0>> /\ stack' = "live"
           \/ last_token_type # "TFIRSTINDENT" /\ UNCHANGED <<indents, stack>>
    BY <1>3 DEF Call, automatonVars
  <2>2. TypeOK'
    <3>1. <<0>> \in Seq(Nat)
      OBVIOUS
    <3>2. ControlType' /\ TextType'
      BY <1>1, <2>1, <3>1 DEF ControlType, TextType
    <3>3. QED
      BY <1>2, <3>2, NextType
  <2>3. stack' = "live" /\ IndentsRise'
    <3>1. CASE last_token_type = "TFIRSTINDENT"
      <4>1. Len(indents') = 1 /\ indents' # <<>> /\ indents'[1] = 0
        BY <2>1, <3>1
      <4>2. IndentsRise'
        <5>1. \A i \in 1..Len(indents') - 1 : indents'[i] < indents'[i + 1]
          BY <4>1
        <5>2. QED
          BY <4>1, <5>1 DEF IndentsRise
      <4>3. QED
        BY <2>1, <3>1, <4>2
    <3>2. CASE last_token_type # "TFIRSTINDENT"
      <4>1. stack # "none" /\ stack # "destroyed"
        BY <1>1, <1>3, <3>2 DEF StackInv, LineStart
      <4>2. QED
        BY <1>1, <2>1, <3>2, <4>1 DEF StackInv, IndentsRise, ControlType
    <3>3. QED
      BY <3>1, <3>2
  <2>4. StackInv'
    BY <2>1, <2>3 DEF StackInv
  <2>5. LineInv'
    <3>1. BlanksTo(Consumed, At, 0)
      BY <1>1, <1>2, <1>3, NoBlanksYet DEF LineInv
    <3>2. JustRead(0)'
      BY <1>2 DEF JustRead
    <3>3. QED
      BY <1>1, <1>2, <2>1, <3>1, <3>2 DEF LineInv, BlanksTo, LineBegins
  <2>6. LexemeInv' /\ BlockInv' /\ StringInv' /\ StrayInv' /\ ValueIsText'
    BY <2>1 DEF LexemeInv, BlockInv, StringInv, StrayInv, ValueIsText
  <2>7. QED
    BY <1>2, <2>2, <2>4, <2>5, <2>6 DEF Inv
<1>4. CASE last_token_type \notin LineStart
  <2>1. EnterAutomaton /\ UNCHANGED <<counter, indents, stack>>
    BY <1>4 DEF Call, LineStart
  <2>2. /\ pc' = "automaton" /\ last_token_type' = "TNOTHING"
        /\ state' = "sStart" /\ lexeme' = <<>>
    BY <2>1 DEF EnterAutomaton
  <2>3. TextType' /\ LineInv' /\ LexemeInv' /\ StringInv' /\ StrayInv' /\ ValueIsText'
    BY <1>2, <2>1, Entered
  <2>4. TypeOK'
    <3>1. ControlType'
      BY <1>1, <2>1, <2>2 DEF ControlType
    <3>2. QED
      BY <1>2, <2>3, <3>1, NextType
  <2>5. StackInv'
    <3>1. stack # "none"
      BY <1>1, <1>4 DEF StackInv, LineStart
    <3>2. IndentsRise'
      BY <1>1, <2>1 DEF StackInv, IndentsRise
    <3>3. stack = "destroyed" => Ended
      BY <1>1 DEF StackInv
    <3>4. QED
      BY <1>2, <2>1, <2>2, <3>1, <3>2, <3>3 DEF StackInv
  <2>6. BlockInv'
    <3>1. token.type # "TLEXERR" => Fits(At)
      BY <1>1, <1>4 DEF BlockInv
    <3>2. Fits(At) => Fits(At)'
      BY <1>1, <1>2, <2>1 DEF Fits, BlanksTo, LineBegins
    <3>3. QED
      BY <1>1, <2>2, <3>1, <3>2 DEF BlockInv
  <2>7. QED
    BY <1>2, <2>3, <2>4, <2>5, <2>6 DEF Inv
<1>5. QED
  BY <1>3, <1>4

LEMMA CountBlankStep ==
  ASSUME Inv, CountBlank
  PROVE  Inv'
<1>1. /\ pc = "indent_counter" /\ "blank" \in Readable /\ Getchar("blank", <<>>) /\ Take
      /\ counter' = counter + 1
      /\ UNCHANGED <<indents, stack>> /\ UNCHANGED <<state, string, lexeme, stray>>
      /\ UNCHANGED <<last_token_type, pc, token>>
      /\ InputType /\ ControlType /\ TextType /\ TokenOK
      /\ InputInv /\ StackInv /\ LineInv
  BY TypeParts DEF CountBlank, indentVars, automatonVars, Inv
<1>2. "blank" # EOF
  BY CharFacts
<1>3. InputType' /\ InputInv' /\ At' = At + 1 /\ At \in Nat
  BY <1>1, <1>2, Taking
<1>4. /\ Continues /\ Consumed'[At + 1] = "blank" /\ Read \in Nat /\ Read' = Read + 1
      /\ taken'[At + 1] = Read' /\ \A i \in 1..At : taken'[i] = taken[i]
  BY <1>1, <1>2, Taking
<1>5. TypeOK'
  <2>1. ControlType' /\ TextType' /\ TokenOK'
    BY <1>1 DEF ControlType, TextType, TokenOK
  <2>2. QED
    BY <1>3, <2>1, NextType
<1>6. StackInv'
  <2>1. stack # "none" /\ stack # "destroyed"
    BY <1>1 DEF StackInv
  <2>2. IndentsRise'
    BY <1>1 DEF StackInv, IndentsRise
  <2>3. QED
    BY <1>1, <2>1, <2>2 DEF StackInv
<1>7. LineInv'
  <2>1. BlanksTo(Consumed, At, counter)
    BY <1>1 DEF LineInv
  <2>2. BlanksTo(Consumed', At, counter)
    BY <1>3, <1>4, <2>1, BlanksStable
  <2>3. BlanksTo(Consumed', At + 1, counter + 1)
    BY <1>3, <1>4, <2>2, OneBlankMore
  <2>4. BlanksTo(Consumed, At, counter)'
    BY <1>1, <1>3, <2>3 DEF BlanksTo, LineBegins
  <2>5. JustRead(counter)'
    <3>1. counter \in 0..At /\ \A k \in 0..counter - 1 : taken[At - k] = Read - k
      BY <1>1 DEF LineInv, JustRead
    <3>2. ASSUME NEW k \in 0..counter PROVE taken'[At' - k] = Read' - k
      <4>1. CASE k = 0
        BY <1>3, <1>4, <4>1
      <4>2. CASE k # 0
        <5>1. k - 1 \in 0..counter - 1 /\ At - (k - 1) \in 1..At /\ At' - k = At - (k - 1)
          BY <1>3, <3>1, <4>2
        <5>2. QED
          BY <1>4, <3>1, <5>1
      <4>3. QED
        BY <4>1, <4>2
    <3>3. counter + 1 \in 0..At' /\ (counter + 1) - 1 = counter
      BY <1>3, <3>1
    <3>4. counter' \in 0..At' /\ counter' - 1 = counter
      BY <1>1, <3>1, <3>3
    <3>5. QED
      BY <3>2, <3>4 DEF JustRead
  <2>6. QED
    BY <1>1, <2>4, <2>5 DEF LineInv
<1>8. LexemeInv' /\ BlockInv' /\ StringInv' /\ StrayInv' /\ ValueIsText'
  BY <1>1 DEF LexemeInv, BlockInv, StringInv, StrayInv, ValueIsText
<1>9. QED
  BY <1>3, <1>5, <1>6, <1>7, <1>8 DEF Inv

\* The blanks of a line are counted, and c follows them.
LEMMA LineRead ==
  ASSUME InputType, InputInv, BlanksTo(Consumed, At, counter),
         NEW c \in Readable, c # "blank", Getchar(c, Ungetc(c)), UNCHANGED taken,
         c = EOF \/ c \in Transparent \/ counter = Last(indents')
  PROVE  Fits(At)'
<1>1. /\ At' = At /\ At \in Nat /\ Continues
      /\ c = EOF => Ended'
      /\ c # EOF => stdin' # <<>> /\ stdin'[1] = c
  BY Returning, ConsumedText
<1>2. ASSUME NEW n \in 0..At, BlanksTo(Consumed', At, n) PROVE n = counter
  BY <1>1, <1>2, BlanksStable, BlanksUnique
<1>3. ASSUME NEW n \in 0..At', BlanksTo(Consumed, At, n)'
      PROVE  \/ Ended'
             \/ /\ stdin' # <<>> /\ stdin'[1] # "blank"
                /\ stdin'[1] \in Transparent \/ Last(indents') = n
  <2>1. BlanksTo(Consumed', At, n) /\ n \in 0..At
    BY <1>1, <1>3 DEF BlanksTo, LineBegins
  <2>2. n = counter
    BY <1>2, <2>1
  <2>3. QED
    BY <1>1, <2>2
<1>4. QED
  BY <1>3 DEF Fits

LEMMA SameIndentStep ==
  ASSUME Inv, SameIndent
  PROVE  Inv'
<1>1. /\ pc = "indent_counter" /\ EnterAutomaton
      /\ UNCHANGED <<counter, stack, indents, taken, token>>
      /\ InputType /\ ControlType /\ TextType /\ TokenOK
      /\ InputInv /\ StackInv /\ LineInv
  BY TypeParts DEF SameIndent, Counted, Inv
<1>2. PICK c \in Readable : /\ c # "blank" /\ Getchar(c, Ungetc(c))
                            /\ c \in Transparent \/ counter = Last(indents)
  BY DEF SameIndent, Counted
<1>3. InputType' /\ InputInv' /\ At' \in Nat
  BY <1>1, <1>2, Returning, ConsumedText
<1>4. TextType' /\ LineInv' /\ LexemeInv' /\ StringInv' /\ StrayInv' /\ ValueIsText'
  BY <1>1, <1>3, Entered
<1>5. pc' = "automaton" /\ last_token_type' = "TNOTHING" /\ state' = "sStart" /\ lexeme' = <<>>
  BY <1>1 DEF EnterAutomaton
<1>6. TypeOK'
  <2>1. ControlType' /\ TokenOK'
    BY <1>1, <1>5 DEF ControlType, TokenOK
  <2>2. QED
    BY <1>3, <1>4, <2>1, NextType
<1>7. StackInv'
  <2>1. stack # "none" /\ stack # "destroyed"
    BY <1>1 DEF StackInv
  <2>2. IndentsRise'
    BY <1>1 DEF StackInv, IndentsRise
  <2>3. QED
    BY <1>1, <1>5, <2>1, <2>2 DEF StackInv
<1>8. BlockInv'
  <2>1. BlanksTo(Consumed, At, counter)
    BY <1>1 DEF LineInv
  <2>2. Fits(At)'
    BY <1>1, <1>2, <2>1, LineRead
  <2>3. QED
    BY <1>5, <2>2 DEF BlockInv
<1>9. QED
  BY <1>3, <1>4, <1>6, <1>7, <1>8 DEF Inv

LEMMA IndentStep ==
  ASSUME Inv, Indent
  PROVE  Inv'
<1>1. /\ pc = "indent_counter" /\ Last(indents) < counter
      /\ indents' = Append(indents, counter)
      /\ UNCHANGED <<counter, stack, taken>> /\ UNCHANGED <<state, string, lexeme, stray>>
      /\ InputType /\ ControlType /\ TextType /\ TokenOK
      /\ InputInv /\ StackInv /\ LineInv
  BY TypeParts DEF Indent, Counted, automatonVars, Inv
<1>2. PICK c \in Readable : c # "blank" /\ Getchar(c, Ungetc(c))
  BY DEF Indent, Counted
<1>3. InputType' /\ InputInv'
  BY <1>1, <1>2, Returning
<1>4. /\ pc' = "idle" /\ last_token_type' = "TINDENT"
      /\ token' = [type |-> "TINDENT", value |-> <<>>]
  BY DEF Indent, Return
<1>5. TypeOK'
  <2>1. "TINDENT" \in TokenType /\ <<>> \in Seq(Char \cup {EOF})
    BY DEF TokenType
  <2>2. ControlType' /\ TextType' /\ TokenOK'
    BY <1>1, <1>4, <2>1 DEF ControlType, TextType, TokenOK
  <2>3. QED
    BY <1>3, <2>2, NextType
<1>6. StackInv'
  <2>1. stack # "none" /\ stack # "destroyed"
    BY <1>1 DEF StackInv
  <2>2. IndentsRise'
    BY <1>1, <2>1 DEF StackInv, IndentsRise, ControlType, Last
  <2>3. QED
    BY <1>1, <1>4, <2>1, <2>2 DEF StackInv
<1>7. LineInv'
  BY <1>4 DEF LineInv, LineStart
<1>8. BlockInv'
  <2>1. BlanksTo(Consumed, At, counter) /\ Last(indents') = counter
    BY <1>1 DEF LineInv, Last, ControlType
  <2>2. Fits(At)'
    BY <1>1, <1>2, <2>1, LineRead
  <2>3. QED
    BY <1>4, <2>2 DEF BlockInv
<1>9. LexemeInv' /\ StringInv' /\ StrayInv' /\ ValueIsText'
  BY <1>4 DEF LexemeInv, StringInv, StrayInv, ValueIsText
<1>10. QED
  BY <1>3, <1>5, <1>6, <1>7, <1>8, <1>9 DEF Inv

LEMMA DedentStep ==
  ASSUME Inv, Dedent
  PROVE  Inv'
<1>1. /\ pc = "indent_counter" /\ Last(indents) > counter
      /\ indents' = Front(indents)
      /\ taken' = SubSeq(taken, 1, At - counter)
      /\ UNCHANGED <<counter, stack>> /\ UNCHANGED <<state, string, lexeme, stray>>
      /\ InputType /\ ControlType /\ TextType /\ TokenOK
      /\ InputInv /\ StackInv /\ LineInv
  BY TypeParts DEF Dedent, Counted, automatonVars, Inv, At
<1>2. PICK c \in Readable : Getchar(c, Blanks(counter) \o Ungetc(c))
  BY DEF Dedent, Counted
<1>3. /\ BlanksTo(Consumed, At, counter) /\ counter \in Nat /\ counter <= At /\ At \in Nat
      /\ JustRead(counter)
  BY <1>1, ConsumedText DEF LineInv, BlanksTo, ControlType
<1>4. InputType' /\ InputInv' /\ At' = At - counter /\ Continues
  BY <1>1, <1>2, <1>3, ReturningBlanks DEF BlanksTo
<1>5. PICK type \in {"TLEXERR", "TDEDENT"} :
        /\ pc' = "idle" /\ last_token_type' = type
        /\ token' = [type |-> type, value |-> <<>>]
  BY DEF Dedent, Return
<1>6. TypeOK'
  <2>1. type \in TokenType /\ <<>> \in Seq(Char \cup {EOF})
    <3>1. "sStart" \in DOMAIN Otherwise /\ Otherwise["sStart"] = "TLEXERR"
      BY DEF Otherwise
    <3>2. "TLEXERR" \in Range(Otherwise) \ State
      BY <3>1, StateDef DEF Range
    <3>3. QED
      BY <1>5, <3>2 DEF TokenType
  <2>2. indents' \in Seq(Nat)
    BY <1>1 DEF ControlType, StackInv, IndentsRise, Front
  <2>3. ControlType' /\ TextType' /\ TokenOK'
    BY <1>1, <1>5, <2>1, <2>2 DEF ControlType, TextType, TokenOK
  <2>4. QED
    BY <1>4, <2>3, NextType
<1>7. StackInv'
  <2>1. stack # "none" /\ stack # "destroyed"
    BY <1>1 DEF StackInv
  <2>2. /\ indents \in Seq(Nat) /\ indents # <<>> /\ indents[1] = 0
        /\ \A i \in 1..Len(indents) - 1 : indents[i] < indents[i + 1]
    BY <1>1, <2>1 DEF StackInv, IndentsRise, ControlType
  <2>3. Len(indents) \in Nat /\ Len(indents) > 1
    BY <1>1, <1>3, <2>2 DEF Last
  <2>4. /\ Len(indents') = Len(indents) - 1
        /\ \A i \in 1..Len(indents) - 1 : indents'[i] = indents[i]
    BY <1>1, <2>2, <2>3 DEF Front
  <2>5. IndentsRise'
    <3>1. indents' # <<>> /\ indents'[1] = 0
      BY <2>2, <2>3, <2>4
    <3>2. ASSUME NEW i \in 1..Len(indents') - 1 PROVE indents'[i] < indents'[i + 1]
      <4>1. i \in 1..Len(indents) - 1 /\ i + 1 \in 1..Len(indents) - 1
        BY <2>3, <2>4
      <4>2. QED
        BY <2>2, <2>4, <4>1
    <3>3. QED
      BY <3>1, <3>2 DEF IndentsRise
  <2>6. QED
    BY <1>1, <1>5, <2>1, <2>5 DEF StackInv
<1>8. LineInv'
  <2>1. LineBegins(Consumed, At - counter)
    BY <1>3 DEF BlanksTo
  <2>2. At - counter \in Nat /\ At - counter <= At
    BY <1>3
  <2>3. LineBegins(Consumed', At - counter)
    BY <1>4, <2>1, <2>2, BlanksStable
  <2>4. LineBegins(Consumed, At)'
    BY <1>4, <2>3 DEF LineBegins
  <2>5. QED
    BY <1>5, <2>4 DEF LineInv
<1>9. BlockInv'
  BY <1>5 DEF BlockInv, LineStart
<1>10. LexemeInv' /\ StringInv' /\ StrayInv' /\ ValueIsText'
  BY <1>5 DEF LexemeInv, StringInv, StrayInv, ValueIsText
<1>11. QED
  BY <1>4, <1>6, <1>7, <1>8, <1>9, <1>10 DEF Inv
-----------------------------------------------------------------------------
(* The automaton *)

LEMMA AppendedCases ==
  ASSUME TextType, NEW s \in State, NEW c \in Char \cup {EOF}
  PROVE  /\ s \in Raw \cup InString \cup InBlock => Appended(s, c) = Append(string, c)
         /\ s = "sStart" /\ c \in {"blank", "\n", "'", "quote"} => Appended(s, c) = string
         /\ s = "sStart" /\ c \notin {"blank", "\n", "'", "quote"} =>
              Appended(s, c) = Append(string, c)
         /\ s \in {"sBlockCommentStart1", "sBlockCommentStart2"} /\ c = "quote" =>
              Appended(s, c) = string
         /\ Appended(s, c) \in Seq(Char \cup {EOF})
<1>1. /\ s \in Raw \cup InString \cup InBlock =>
           s \notin {"sStart", "sBlockCommentStart1", "sBlockCommentStart2", "sLineComment"}
      /\ s \in {"sStart", "sBlockCommentStart1", "sBlockCommentStart2"} => s # "sLineComment"
  BY DEF Raw, InString, InBlock
<1>2. Append(string, c) \in Seq(Char \cup {EOF}) /\ <<>> \in Seq(Char \cup {EOF})
  BY DEF TextType
<1>3. Appended(s, c) \in Seq(Char \cup {EOF})
  BY <1>2 DEF Appended, TextType
<1>4. QED
  BY <1>1, <1>3 DEF Appended

\* What opens a string and a block.
LEMMA Opening ==
  <<"'">> \in Seq(Char \cup {EOF}) /\ Quotes \in Seq(Char \cup {EOF})
<1>1. "'" \in Char /\ "quote" \in Char
  BY Zenon DEF Char
<1>2. QED
  BY <1>1 DEF Quotes

LEMMA ShortText ==
  ASSUME NEW S, NEW x \in S, NEW y \in S, NEW z \in S
  PROVE  /\ Append(<<>>, x) = <<x>>
         /\ Append(<<x>>, y) = <<x, y>>
         /\ Append(<<x, y>>, z) = <<x, y, z>>
<1>1. /\ <<x>> \in Seq(S) /\ Append(<<>>, x) = <<x>>
      /\ Append(<<x>>, y) \in Seq(S) /\ <<x, y>> \in Seq(S)
      /\ Append(<<x, y>>, z) \in Seq(S) /\ <<x, y, z>> \in Seq(S)
  OBVIOUS
<1>2. Append(<<x>>, y) = <<x, y>>
  <2>1. /\ Len(Append(<<x>>, y)) = 2 /\ Len(<<x, y>>) = 2
        /\ Append(<<x>>, y)[1] = <<x, y>>[1] /\ Append(<<x>>, y)[2] = <<x, y>>[2]
    BY <1>1
  <2>2. \A i \in 1..2 : Append(<<x>>, y)[i] = <<x, y>>[i]
    <3>1. \A i \in 1..2 : i = 1 \/ i = 2
      OBVIOUS
    <3>2. QED
      BY <2>1, <3>1
  <2>3. QED
    BY <1>1, <2>1, <2>2, SeqEqual
<1>3. Append(<<x, y>>, z) = <<x, y, z>>
  <2>1. /\ Len(Append(<<x, y>>, z)) = 3 /\ Len(<<x, y, z>>) = 3
        /\ Append(<<x, y>>, z)[1] = <<x, y, z>>[1]
        /\ Append(<<x, y>>, z)[2] = <<x, y, z>>[2]
        /\ Append(<<x, y>>, z)[3] = <<x, y, z>>[3]
    BY <1>1
  <2>2. \A i \in 1..3 : Append(<<x, y>>, z)[i] = <<x, y, z>>[i]
    <3>1. \A i \in 1..3 : i = 1 \/ i = 2 \/ i = 3
      OBVIOUS
    <3>2. QED
      BY <2>1, <3>1
  <2>3. QED
    BY <1>1, <2>1, <2>2, SeqEqual
<1>4. QED
  BY <1>1, <1>2, <1>3

\* What opens a text stays in front of it.
LEMMA AppendBehind ==
  ASSUME NEW S, NEW front \in Seq(S), NEW text \in Seq(S), NEW c \in S
  PROVE  Append(front \o text, c) = front \o Append(text, c)
OBVIOUS

LEMMA MoveString ==
  ASSUME TextType, StringIsText, state = "sStart" => lexeme = <<>>,
         NEW c \in Char, state' \in Targets(state, c) \cap State,
         string' = Appended(state, c),
         lexeme' = IF state' = "sStart" THEN <<>> ELSE Append(lexeme, c),
         ~(state = "sStart" /\ c = "0xFF")
  PROVE  StringIsText'
<1>1. c # EOF /\ state \in State /\ string \in Seq(Char \cup {EOF}) /\ c \in Char \cup {EOF}
  BY CharFacts DEF TextType
<1>2. \/ state' \in Raw \/ state' \in InString \/ state' \in InBlock
      \/ state' = "sBlockCommentStart1" \/ state' = "sBlockCommentStart2"
      => lexeme' = Append(lexeme, c)
  BY DEF Raw, InString, InBlock
<1>3. state' = "sStart" => string' = <<>>
  BY <1>1, StateStep, AppendedCases DEF StringIsText
<1>4. state' \in Raw => string' = lexeme'
  <2>1. SUFFICES ASSUME state' \in Raw PROVE string' = lexeme'
    OBVIOUS
  <2>2. state \in Raw \cup {"sStart"} /\ c \notin {"blank", "\n", "'", "quote"}
    BY <1>1, <2>1, StateStep
  <2>3. string' = Append(string, c)
    BY <1>1, <2>2, AppendedCases
  <2>4. string = lexeme
    BY <2>2 DEF StringIsText
  <2>5. QED
    BY <1>2, <2>1, <2>2, <2>3, <2>4
<1>5. state' \in InString => lexeme' = <<"'">> \o string'
  <2>1. SUFFICES ASSUME state' \in InString PROVE lexeme' = <<"'">> \o string'
    OBVIOUS
  <2>2. state \in InString \/ (state = "sStart" /\ c = "'")
    BY <1>1, <2>1, StateStep
  <2>3. CASE state \in InString
    <3>1. string' = Append(string, c) /\ lexeme = <<"'">> \o string
      BY <1>1, <2>3, AppendedCases DEF StringIsText
    <3>2. state # "sStart"
      BY <2>3 DEF InString
    <3>3. <<"'">> \in Seq(Char \cup {EOF})
      BY Opening
    <3>4. lexeme' = <<"'">> \o Append(string, c)
      BY <1>1, <1>2, <2>1, <3>1, <3>2, <3>3, AppendBehind
    <3>5. QED
      BY <3>1, <3>4
  <2>4. CASE state = "sStart" /\ c = "'"
    <3>1. string' = <<>> /\ lexeme' = Append(<<>>, "'")
      BY <1>1, <1>2, <2>1, <2>4, AppendedCases DEF StringIsText
    <3>2. string' = <<>> /\ lexeme' = <<"'">> /\ <<"'">> \in Seq(Char \cup {EOF})
      BY <3>1, Opening, ShortText
    <3>3. QED
      BY <3>2, ConcatEmptySeq
  <2>5. QED
    BY <2>2, <2>3, <2>4
<1>6. state' = "sBlockCommentStart1" => string' = <<>> /\ lexeme' = <<"quote">>
  <2>1. SUFFICES ASSUME state' = "sBlockCommentStart1"
                 PROVE  string' = <<>> /\ lexeme' = <<"quote">>
    OBVIOUS
  <2>2. state = "sStart" /\ c = "quote"
    BY <1>1, <2>1, StateStep
  <2>3. string' = <<>> /\ lexeme' = Append(<<>>, "quote")
    BY <1>1, <1>2, <2>1, <2>2, AppendedCases DEF StringIsText
  <2>4. QED
    BY <2>3, ShortText
<1>7. state' = "sBlockCommentStart2" => string' = <<>> /\ lexeme' = <<"quote", "quote">>
  <2>1. SUFFICES ASSUME state' = "sBlockCommentStart2"
                 PROVE  string' = <<>> /\ lexeme' = <<"quote", "quote">>
    OBVIOUS
  <2>2. state = "sBlockCommentStart1" /\ c = "quote"
    BY <1>1, <2>1, StateStep
  <2>3. string' = <<>> /\ lexeme' = Append(<<"quote">>, "quote")
    BY <1>1, <1>2, <2>1, <2>2, AppendedCases DEF StringIsText
  <2>4. QED
    BY <2>3, ShortText
<1>8. state' \in InBlock => lexeme' = Quotes \o string'
  <2>1. SUFFICES ASSUME state' \in InBlock PROVE lexeme' = Quotes \o string'
    OBVIOUS
  <2>2. state \in InBlock \/ (state = "sBlockCommentStart2" /\ c = "quote")
    BY <1>1, <2>1, StateStep
  <2>3. CASE state \in InBlock
    <3>1. string' = Append(string, c) /\ lexeme = Quotes \o string
      BY <1>1, <2>3, AppendedCases DEF StringIsText
    <3>2. lexeme' = Append(lexeme, c)
      BY <1>2, <2>1
    <3>3. Append(Quotes \o string, c) = Quotes \o Append(string, c)
      <4>1. ASSUME NEW front \in Seq(Char \cup {EOF})
            PROVE  Append(front \o string, c) = front \o Append(string, c)
        BY <1>1
      <4>2. QED
        BY <4>1, Opening
    <3>4. QED
      BY <3>1, <3>2, <3>3
  <2>4. CASE state = "sBlockCommentStart2" /\ c = "quote"
    <3>1. string' = <<>> /\ lexeme' = Append(<<"quote", "quote">>, "quote")
      BY <1>1, <1>2, <2>1, <2>4, AppendedCases DEF StringIsText
    <3>2. string' = <<>> /\ lexeme' = Quotes
      BY <3>1, ShortText DEF Quotes
    <3>3. QED
      BY <3>2, Opening, ConcatEmptySeq
  <2>5. QED
    BY <2>2, <2>3, <2>4
<1>9. state' = "sBlockCommentEnd1" => Len(string') >= 1 /\ string'[Len(string')] = "quote"
  <2>1. SUFFICES ASSUME state' = "sBlockCommentEnd1"
                 PROVE  Len(string') >= 1 /\ string'[Len(string')] = "quote"
    OBVIOUS
  <2>2. state = "sBlockComment" /\ c = "quote"
    BY <1>1, <2>1, StateStep
  <2>3. string' = Append(string, "quote")
    BY <1>1, <2>2, AppendedCases DEF InBlock
  <2>4. QED
    BY <1>1, <2>3
<1>10. state' = "sBlockCommentEnd2" =>
        /\ Len(string') >= 2
        /\ string'[Len(string')] = "quote" /\ string'[Len(string') - 1] = "quote"
  <2>1. SUFFICES ASSUME state' = "sBlockCommentEnd2"
                 PROVE  /\ Len(string') >= 2
                        /\ string'[Len(string')] = "quote"
                        /\ string'[Len(string') - 1] = "quote"
    OBVIOUS
  <2>2. state = "sBlockCommentEnd1" /\ c = "quote"
    BY <1>1, <2>1, StateStep
  <2>3. string' = Append(string, "quote") /\ Len(string) >= 1 /\ string[Len(string)] = "quote"
    BY <1>1, <2>2, AppendedCases DEF InBlock, StringIsText
  <2>4. QED
    BY <1>1, <2>3
<1>11. QED
  BY <1>3, <1>4, <1>5, <1>6, <1>7, <1>8, <1>9, <1>10 DEF StringIsText

LEMMA MoveStray ==
  ASSUME TextType, StrayInv, pc = "automaton",
         NEW c \in Char, state' \in Targets(state, c) \cap State,
         string' = Appended(state, c),
         stray \/ (state = "sStart" /\ c = "0xFF"), StringInv
  PROVE  StrayInv'
<1>1. c # EOF /\ state \in State /\ string \in Seq(Char \cup {EOF}) /\ c \in Char \cup {EOF}
  BY CharFacts DEF TextType
<1>2. SUFFICES ASSUME state' \in Raw \cup {"sStart"}
               PROVE  string' # <<>> /\ string'[1] = "0xFF"
  BY DEF StrayInv
<1>3. state \in Raw \cup {"sStart"} /\ c # "'" /\ c # "quote" /\ c # "\n"
  BY <1>1, <1>2, StateStep
<1>4. string' = string \/ string' = Append(string, c)
  BY <1>1, <1>3, AppendedCases
<1>5. CASE stray
  <2>1. string # <<>> /\ string[1] = "0xFF"
    BY <1>3, <1>5 DEF StrayInv
  <2>2. QED
    BY <1>1, <1>4, <2>1
<1>6. CASE ~stray
  <2>1. state = "sStart" /\ c = "0xFF" /\ string = <<>>
    BY <1>6 DEF StringInv, StringIsText
  <2>2. string' = Append(<<>>, c)
    BY <1>1, <2>1, AppendedCases
  <2>3. QED
    BY <2>1, <2>2
<1>7. QED
  BY <1>5, <1>6

LEMMA MoveStep ==
  ASSUME Inv, Move
  PROVE  Inv'
<1>1. /\ pc = "automaton" /\ Take
      /\ UNCHANGED <<indents, stack>> /\ UNCHANGED <<last_token_type, pc, counter, token>>
      /\ InputType /\ ControlType /\ TextType /\ TokenOK
      /\ InputInv /\ StackInv /\ LexemeInv /\ BlockInv /\ StringInv /\ StrayInv
  BY TypeParts DEF Move, indentVars, Inv
<1>2. PICK c \in Readable \ {EOF} :
        /\ Getchar(c, <<>>)
        /\ state' \in Targets(state, c) \cap State
        /\ string' = Appended(state, c)
        /\ lexeme' = IF state' = "sStart" THEN <<>> ELSE Append(lexeme, c)
        /\ stray' = (stray \/ (state = "sStart" /\ c = "0xFF"))
  BY DEF Move
<1>3. InputType' /\ InputInv' /\ At' = At + 1 /\ At \in Nat /\ taken'[At'] = Read'
  BY <1>1, <1>2, Taking
<1>4. /\ Continues /\ Consumed'[At + 1] = c /\ c \in Char /\ ~Ended
      /\ stdin # <<>> => stdin[1] = c
  BY <1>1, <1>2, Taking
<1>5. state \in State /\ c # EOF /\ lexeme \in Seq(Char) /\ c \in Char \cup {EOF}
  BY <1>1, <1>4, CharFacts DEF TextType
<1>6. TypeOK'
  <2>1. ControlType' /\ TokenOK'
    BY <1>1 DEF ControlType, TokenOK
  <2>2. lexeme' \in Seq(Char)
    BY <1>2, <1>4, <1>5
  <2>3. string' \in Seq(Char \cup {EOF})
    BY <1>1, <1>2, <1>5, AppendedCases
  <2>4. TextType'
    BY <1>2, <2>2, <2>3 DEF TextType
  <2>5. QED
    BY <1>3, <2>1, <2>4, NextType
<1>7. StackInv'
  <2>1. stack # "none" /\ stack # "destroyed"
    BY <1>1, <1>4 DEF StackInv
  <2>2. IndentsRise'
    BY <1>1 DEF StackInv, IndentsRise
  <2>3. QED
    BY <1>1, <2>1, <2>2 DEF StackInv
<1>8. StringInv' /\ StrayInv'
  <2>1. state = "sStart" => lexeme = <<>>
    BY <1>1 DEF LexemeInv
  <2>2. CASE stray'
    <3>1. stray \/ (state = "sStart" /\ c = "0xFF")
      BY <1>2, <2>2
    <3>2. StrayInv'
      BY <1>1, <1>2, <1>4, <3>1, MoveStray
    <3>3. QED
      BY <2>2, <3>2 DEF StringInv
  <2>3. CASE ~stray'
    <3>1. ~stray /\ ~(state = "sStart" /\ c = "0xFF")
      BY <1>1, <1>2, <2>3 DEF TextType
    <3>2. StringIsText
      BY <1>1, <3>1 DEF StringInv
    <3>3. StringIsText'
      BY <1>1, <1>2, <1>4, <2>1, <3>1, <3>2, MoveString
    <3>4. QED
      BY <2>3, <3>3 DEF StringInv, StrayInv
  <2>4. QED
    BY <2>2, <2>3
<1>9. CASE state' = "sStart"
  <2>1. state = "sStart" /\ c \in {"blank", "0xFF"} /\ lexeme' = <<>> /\ lexeme = <<>>
    BY <1>1, <1>2, <1>5, <1>9, StateStep DEF LexemeInv
  <2>2. LexemeInv'
    BY <1>3, <1>9, <2>1 DEF LexemeInv, Plain
  <2>3. ASSUME token.type # "TLEXERR" PROVE Fits(At)'
    <3>1. SUFFICES ASSUME NEW n \in 0..At', BlanksTo(Consumed, At, n)' PROVE FALSE
      BY DEF Fits
    <3>2. BlanksTo(Consumed', At + 1, n)
      BY <1>3, <3>1 DEF BlanksTo, LineBegins
    <3>3. c = "blank" /\ n - 1 \in 0..At /\ BlanksTo(Consumed', At, n - 1)
      <4>1. c # "0xFF"
        BY <1>3, <1>4, <3>2, NoBlanks
      <4>2. QED
        BY <1>3, <1>4, <2>1, <3>2, <4>1, OneBlankMore
    <3>4. BlanksTo(Consumed, At, n - 1)
      BY <1>3, <1>4, <3>3, BlanksStable
    <3>5. Fits(At)
      BY <1>1, <2>1, <2>3 DEF BlockInv
    <3>6. stdin # <<>> /\ stdin[1] # "blank"
      BY <1>4, <3>3, <3>4, <3>5 DEF Fits
    <3>7. QED
      BY <1>4, <3>3, <3>6
  <2>4. BlockInv'
    BY <1>1, <2>1, <2>3 DEF BlockInv
  <2>5. LineInv' /\ ValueIsText'
    BY <1>1 DEF LineInv, ValueIsText
  <2>6. QED
    BY <1>3, <1>6, <1>7, <1>8, <2>2, <2>4, <2>5 DEF Inv
<1>10. CASE state' # "sStart"
  <2>1. lexeme' = Append(lexeme, c)
    BY <1>2, <1>10
  <2>2. /\ Len(lexeme) \in Nat /\ Len(lexeme') = Len(lexeme) + 1 /\ lexeme' # <<>>
        /\ lexeme'[Len(lexeme')] = c
        /\ \A i \in 1..Len(lexeme) : lexeme'[i] = lexeme[i]
    BY <1>4, <1>5, <2>1
  <2>3. /\ Len(lexeme) <= At
        /\ \A i \in 1..Len(lexeme) : lexeme[i] = Consumed[At - Len(lexeme) + i]
    BY <1>1 DEF LexemeInv
  <2>4. LexemeInv'
    <3>1. Len(lexeme') <= At'
      BY <1>3, <2>2, <2>3
    <3>2. ASSUME NEW i \in 1..Len(lexeme') 
          PROVE  lexeme'[i] = Consumed'[At' - Len(lexeme') + i]
      <4>1. At' - Len(lexeme') + i = At - Len(lexeme) + i
        BY <1>3, <2>2
      <4>2. CASE i \in 1..Len(lexeme)
        <5>1. At - Len(lexeme) + i \in 1..At /\ At - Len(lexeme) + i <= At'
          BY <1>3, <2>2, <2>3, <4>2
        <5>2. QED
          BY <1>4, <2>2, <2>3, <4>1, <4>2, <5>1 DEF Continues
      <4>3. CASE i = Len(lexeme) + 1
        BY <1>3, <1>4, <2>2, <4>1, <4>3
      <4>4. QED
        BY <2>2, <4>2, <4>3
    <3>3. taken'[At'] = Read'
      BY <1>3
    <3>4. state' = "sNewLine" => c = "\n"
      BY <1>2, <1>5, StateStep
    <3>5. state' \in Plain => c \notin {"blank", "\n"}
      <4>1. Plain \subseteq Raw
        BY DEF Plain, Raw
      <4>2. state' \in Raw => c # "blank" /\ c # "\n"
        BY <1>2, <1>5, StateStep
      <4>3. QED
        BY <4>1, <4>2
    <3>6. QED
      BY <1>10, <2>2, <3>1, <3>2, <3>3, <3>4, <3>5 DEF LexemeInv
  <2>5. ASSUME token.type # "TLEXERR", lexeme'[1] \notin Transparent,
               NEW n \in 0..At', BlanksTo(Consumed, At - Len(lexeme), n)'
        PROVE  Last(indents) = n
    <3> DEFINE p == At - Len(lexeme)
    <3>1. p \in Nat /\ p <= At /\ At' - Len(lexeme') = p
      BY <1>3, <2>2, <2>3
    <3>2. BlanksTo(Consumed', p, n)
      BY <2>5, <3>1 DEF BlanksTo, LineBegins
    <3>3. BlanksTo(Consumed, p, n) /\ n \in 0..At
      <4>1. BlanksTo(Consumed, p, n)
        BY <1>3, <1>4, <3>1, <3>2, BlanksStable
      <4>2. n \in 0..p
        BY <3>2 DEF BlanksTo
      <4>3. QED
        BY <1>3, <3>1, <4>1, <4>2
    <3>4. CASE lexeme = <<>>
      <4>1. p = At /\ lexeme'[1] = c
        BY <1>3, <2>2, <3>4
      <4>2. Fits(At)
        BY <1>1, <2>5, <3>4 DEF BlockInv
      <4>3. \/ Ended
            \/ stdin # <<>> /\ (stdin[1] \in Transparent \/ Last(indents) = n)
        BY <3>3, <4>1, <4>2 DEF Fits
      <4>4. QED
        BY <1>4, <2>5, <4>1, <4>3
    <3>5. CASE lexeme # <<>>
      <4>1. lexeme[1] = lexeme'[1]
        BY <1>5, <2>2, <3>5
      <4>2. QED
        BY <1>1, <2>5, <3>3, <3>5, <4>1 DEF BlockInv
    <3>6. QED
      BY <3>4, <3>5
  <2>6. BlockInv'
    BY <1>1, <2>2, <2>5 DEF BlockInv
  <2>7. LineInv' /\ ValueIsText'
    BY <1>1 DEF LineInv, ValueIsText
  <2>8. QED
    BY <1>3, <1>6, <1>7, <1>8, <2>4, <2>6, <2>7 DEF Inv
<1>11. QED
  BY <1>9, <1>10
-----------------------------------------------------------------------------
(* Tokens *)

LEMMA ReadableType ==
  ASSUME InputType, NEW c \in Readable
  PROVE  c \in Char \cup {EOF}
BY PieceType DEF InputType, StdinType, Readable

LEMMA DeleteLastType ==
  ASSUME NEW S, NEW text \in Seq(S)
  PROVE  /\ DeleteLast(text) \in Seq(S)
         /\ text # <<>> =>
              /\ Len(text) >= 1
              /\ Len(DeleteLast(text)) = Len(text) - 1
              /\ \A i \in 1..Len(text) - 1 : DeleteLast(text)[i] = text[i]
<1>1. CASE text = <<>>
  BY <1>1 DEF DeleteLast
<1>2. CASE text # <<>>
  <2>1. DeleteLast(text) = SubSeq(text, 1, Len(text) - 1) /\ Len(text) >= 1
    BY <1>2 DEF DeleteLast, Front
  <2>2. /\ SubSeq(text, 1, Len(text) - 1) \in Seq(S)
        /\ Len(SubSeq(text, 1, Len(text) - 1)) = Len(text) - 1
        /\ \A i \in 1..Len(text) - 1 : SubSeq(text, 1, Len(text) - 1)[i] = text[i]
    <3> DEFINE m == Len(text) - 1
    <3>1. m \in Nat /\ m <= Len(text)
      BY <2>1
    <3> HIDE DEF m
    <3>2. /\ SubSeq(text, 1, m) \in Seq(S) /\ Len(SubSeq(text, 1, m)) = m
          /\ \A i \in 1..m : SubSeq(text, 1, m)[i] = text[i]
      BY <3>1
    <3>3. QED
      BY <3>2 DEF m
  <2>3. QED
    BY <2>1, <2>2
<1>3. QED
  BY <1>1, <1>2

LEMMA DeleteAppended ==
  ASSUME NEW S, NEW text \in Seq(S), NEW c \in S
  PROVE  DeleteLast(Append(text, c)) = text
<1>1. /\ Append(text, c) \in Seq(S) /\ Append(text, c) # <<>>
      /\ Len(Append(text, c)) = Len(text) + 1 /\ Len(text) \in Nat
      /\ \A i \in 1..Len(text) : Append(text, c)[i] = text[i]
  OBVIOUS
<1>2. /\ DeleteLast(Append(text, c)) \in Seq(S)
      /\ Len(DeleteLast(Append(text, c))) = Len(text)
      /\ \A i \in 1..Len(text) : DeleteLast(Append(text, c))[i] = Append(text, c)[i]
  <2> DEFINE longer == Append(text, c)
  <2>1. Len(longer) - 1 = Len(text)
    BY <1>1
  <2>2. /\ DeleteLast(longer) \in Seq(S) /\ Len(DeleteLast(longer)) = Len(longer) - 1
        /\ \A i \in 1..Len(longer) - 1 : DeleteLast(longer)[i] = longer[i]
    <3> HIDE DEF longer
    <3>1. longer \in Seq(S) /\ longer # <<>>
      BY <1>1 DEF longer
    <3>2. QED
      BY <3>1, DeleteLastType
  <2>3. QED
    BY <2>1, <2>2
<1>3. QED
  BY <1>1, <1>2, SeqEqual

\* A string ends with the quote that opened it.
LEMMA StringText ==
  ASSUME NEW S, NEW text \in Seq(S), NEW q \in S
  PROVE  Append(<<q>> \o text, q) = <<q>> \o text \o <<q>>
OBVIOUS

LEMMA Rejoined ==
  ASSUME NEW S, NEW text \in Seq(S), text # <<>>
  PROVE  /\ DeleteLast(text) \in Seq(S) /\ text[Len(text)] \in S
         /\ Append(DeleteLast(text), text[Len(text)]) = text
<1>1. /\ DeleteLast(text) \in Seq(S) /\ Len(DeleteLast(text)) = Len(text) - 1
      /\ \A i \in 1..Len(text) - 1 : DeleteLast(text)[i] = text[i]
      /\ Len(text) >= 1 /\ Len(text) \in Nat
  BY DeleteLastType
<1> DEFINE whole == Append(DeleteLast(text), text[Len(text)])
<1>2. text[Len(text)] \in S
  BY <1>1
<1>3. /\ whole \in Seq(S) /\ Len(whole) = Len(text)
      /\ \A i \in 1..Len(text) - 1 : whole[i] = DeleteLast(text)[i]
      /\ whole[Len(text)] = text[Len(text)]
  BY <1>1, <1>2
<1>4. \A i \in 1..Len(text) : whole[i] = text[i]
  <2>1. \A i \in 1..Len(text) : i \in 1..Len(text) - 1 \/ i = Len(text)
    BY <1>1
  <2>2. QED
    BY <1>1, <1>3, <2>1
<1>5. whole = text
  BY <1>3, <1>4, SeqEqual
<1>6. QED
  BY <1>1, <1>2, <1>5

\* The text of a block has the first two of the quotes that end it.
LEMMA BlockText ==
  ASSUME NEW S, NEW text \in Seq(S), NEW q \in S,
         Len(text) >= 2, text[Len(text)] = q, text[Len(text) - 1] = q
  PROVE  Append(<<q, q, q>> \o text, q)
           = <<q, q, q>> \o DeleteLast(DeleteLast(text)) \o <<q, q, q>>
<1> DEFINE one == DeleteLast(text)
           two == DeleteLast(one)
<1>1. one \in Seq(S) /\ text = Append(one, q) /\ Len(one) = Len(text) - 1 /\ one # <<>>
      /\ one[Len(one)] = q
  <2>1. text # <<>>
    OBVIOUS
  <2>2. one \in Seq(S) /\ text = Append(one, q)
    BY <2>1, Rejoined
  <2>3. Len(one) = Len(text) - 1 /\ \A i \in 1..Len(text) - 1 : one[i] = text[i]
    BY <2>1, DeleteLastType
  <2>4. QED
    BY <2>2, <2>3
<1>2. two \in Seq(S) /\ one = Append(two, q)
  BY <1>1, Rejoined
<1> HIDE DEF one, two
<1>3. /\ <<q>> \in Seq(S) /\ <<q, q>> \in Seq(S) /\ <<q, q, q>> \in Seq(S)
      /\ Append(<<q>>, q) = <<q, q>> /\ Append(<<q, q>>, q) = <<q, q, q>>
  BY ShortText
<1>4. two \o <<q>> = Append(two, q)
  BY <1>2
<1>5. two \o <<q, q>> = Append(Append(two, q), q)
  BY <1>2, <1>3, <1>4, AppendBehind, SMTT(30)
<1>6. two \o <<q, q, q>> = Append(Append(Append(two, q), q), q)
  BY <1>2, <1>3, <1>5, AppendBehind, SMTT(30)
<1>7. Append(text, q) = two \o <<q, q, q>>
  BY <1>1, <1>2, <1>6
<1>8. Append(<<q, q, q>> \o text, q) = <<q, q, q>> \o (two \o <<q, q, q>>)
  <2>1. Append(<<q, q, q>> \o text, q) = <<q, q, q>> \o Append(text, q)
    BY <1>3
  <2>2. QED
    BY <1>7, <2>1
<1>9. <<q, q, q>> \o (two \o <<q, q, q>>) = (<<q, q, q>> \o two) \o <<q, q, q>>
  <2> DEFINE quotes == <<q, q, q>>
  <2>1. quotes \in Seq(S) /\ two \in Seq(S)
    BY <1>2, <1>3
  <2> HIDE DEF quotes
  <2>2. quotes \o (two \o quotes) = (quotes \o two) \o quotes
    BY <2>1
  <2>3. QED
    BY <2>2 DEF quotes
<1>10. QED
  BY <1>8, <1>9 DEF one, two

\* The value of each kind of token.
LEMMA ValueCases ==
  ASSUME TextType, NEW type, NEW c \in Char \cup {EOF}
  PROVE  /\ type = "TINT" /\ state \in Raw => Value(state, type, c) = string
         /\ type = "TFLOAT" /\ state = "sFloat" => Value(state, type, c) = string
         /\ type = "TFLOAT" /\ state = "sExponentNumber" =>
              Value(state, type, c) = DeleteLast(Printed)
         /\ type \in {"TKEYWORD", "TIDENTIFICATOR"} => Value(state, type, c) = string
         /\ type = "TSTRING" /\ state = "sString" => Value(state, type, c) = string
         /\ type = "TBLOCKCOMMENTORLITERAL" =>
              Value(state, type, c) = DeleteLast(DeleteLast(string))
         /\ Value(state, type, c) \in Seq(Char \cup {EOF}) \cup {DeleteLast(Printed)}
<1>1. /\ string \in Seq(Char \cup {EOF}) /\ state \in State
      /\ Append(string, c) \in Seq(Char \cup {EOF}) /\ <<>> \in Seq(Char \cup {EOF})
  BY DEF TextType
<1>2. Appended(state, c) \in Seq(Char \cup {EOF})
  BY <1>1, AppendedCases
<1>3. state \in Raw \cup InString => DeleteLast(Appended(state, c)) = string
  <2>1. state \in Raw \cup InString => Appended(state, c) = Append(string, c)
    BY <1>1, AppendedCases
  <2>2. DeleteLast(Append(string, c)) = string
    BY <1>1, DeleteAppended
  <2>3. QED
    BY <2>1, <2>2
<1>4. "sFloat" \in Raw /\ "sString" \in InString
  BY DEF Raw, InString
<1>5. /\ DeleteLast(DeleteLast(string)) \in Seq(Char \cup {EOF})
      /\ DeleteLast(Appended(state, c)) \in Seq(Char \cup {EOF})
  BY <1>1, <1>2, DeleteLastType
<1>6. type \in {"TKEYWORD", "TIDENTIFICATOR"} => Value(state, type, c) = string
  BY DEF Value, Closed
<1>7. type = "TBLOCKCOMMENTORLITERAL" =>
        Value(state, type, c) = DeleteLast(DeleteLast(string))
  BY DEF Value
<1>8. type = "TFLOAT" /\ state = "sExponentNumber" =>
        Value(state, type, c) = DeleteLast(Printed)
  BY DEF Value, Closed
<1>9. \/ type \in {"TINT", "TSTRING"}
      \/ type = "TFLOAT" /\ state # "sExponentNumber"
      => Value(state, type, c) = DeleteLast(Appended(state, c))
  BY DEF Value, Closed
<1>10. Value(state, type, c) \in {<<>>, string, DeleteLast(DeleteLast(string)),
          Append(string, c), DeleteLast(Printed), DeleteLast(Appended(state, c))}
  BY DEF Value
<1>11. Value(state, type, c) \in Seq(Char \cup {EOF}) \cup {DeleteLast(Printed)}
  BY <1>1, <1>5, <1>10
<1>12. QED
  BY <1>3, <1>4, <1>6, <1>7, <1>8, <1>9, <1>11

LEMMA EmitValue ==
  ASSUME TextType, StringIsText, pc = "automaton", ~stray, NEW c \in Char \cup {EOF},
         NEW type \in Targets(state, c) \ State,
         token' = [type |-> type, value |-> Value(state, type, c)],
         lexeme' = IF TakesLast(state, type) THEN Append(lexeme, c) ELSE lexeme
  PROVE  ValueIsText'
<1>1. state \in State /\ string \in Seq(Char \cup {EOF}) /\ lexeme \in Seq(Char)
  BY DEF TextType
<1>2. token'.type = type /\ token'.value = Value(state, type, c)
  OBVIOUS
<1>3. ASSUME type \in {"TINT", "TKEYWORD", "TIDENTIFICATOR"}
      PROVE  token'.value = lexeme'
  <2>1. state \in {"sInteger0", "sInteger", "sIdentificatorOrKeyWord"}
    BY <1>1, <1>3, TokenStep
  <2>2. state \in Raw /\ ~TakesLast(state, type)
    BY <1>3, <2>1 DEF Raw, TakesLast, Closed
  <2>3. Value(state, type, c) = string
    BY <1>3, <2>2, ValueCases
  <2>4. QED
    BY <1>2, <2>2, <2>3 DEF StringIsText
<1>4. ASSUME type = "TFLOAT", token'.value # DeleteLast(Printed)
      PROVE  token'.value = lexeme'
  <2>1. state \in {"sFloat", "sExponentNumber"}
    BY <1>1, <1>4, TokenStep
  <2>2. state = "sFloat"
    BY <1>2, <1>4, <2>1, ValueCases
  <2>3. state \in Raw /\ ~TakesLast(state, type)
    BY <1>4, <2>2 DEF Raw, TakesLast, Closed
  <2>4. Value(state, type, c) = string
    BY <1>4, <2>2, ValueCases
  <2>5. QED
    BY <1>2, <2>3, <2>4 DEF StringIsText
<1>5. ASSUME type = "TSTRING"
      PROVE  lexeme' = <<"'">> \o token'.value \o <<"'">>
  <2>1. state = "sString" /\ c = "'"
    BY <1>1, <1>5, TokenStep
  <2>2. TakesLast(state, type) /\ state \in InString
    BY <1>5, <2>1 DEF TakesLast, Closed, InString
  <2>3. lexeme' = Append(<<"'">> \o string, "'")
    BY <2>1, <2>2 DEF StringIsText
  <2>4. token'.value = string
    BY <1>2, <1>5, <2>1, ValueCases
  <2>5. Append(<<"'">> \o string, "'") = <<"'">> \o string \o <<"'">>
    BY <1>1, <2>1, StringText
  <2>6. QED
    BY <2>3, <2>4, <2>5
<1>6. ASSUME type = "TBLOCKCOMMENTORLITERAL"
      PROVE  lexeme' = Quotes \o token'.value \o Quotes
  <2>1. state = "sBlockCommentEnd2" /\ c = "quote"
    BY <1>1, <1>6, TokenStep
  <2>2. TakesLast(state, type) /\ state \in InBlock
    BY <1>6, <2>1 DEF TakesLast, Closed, InBlock
  <2>3. lexeme' = Append(Quotes \o string, "quote")
    BY <2>1, <2>2 DEF StringIsText
  <2>4. token'.value = DeleteLast(DeleteLast(string))
    BY <1>2, <1>6, ValueCases
  <2>5. /\ Len(string) >= 2
        /\ string[Len(string)] = "quote" /\ string[Len(string) - 1] = "quote"
    BY <2>1 DEF StringIsText
  <2>6. Append(Quotes \o string, "quote") = Quotes \o DeleteLast(DeleteLast(string)) \o Quotes
    BY <1>1, <2>1, <2>5, BlockText DEF Quotes
  <2>7. QED
    BY <2>3, <2>4, <2>6
<1>7. QED
  BY <1>2, <1>3, <1>4, <1>5, <1>6 DEF ValueIsText

LEMMA EmitStep ==
  ASSUME Inv, Emit
  PROVE  Inv'
<1>1. /\ pc = "automaton"
      /\ UNCHANGED <<indents, stack>> /\ UNCHANGED <<counter, state, string, stray>>
      /\ InputType /\ ControlType /\ TextType /\ TokenOK
      /\ InputInv /\ StackInv /\ LexemeInv /\ BlockInv /\ StringInv
  BY TypeParts DEF Emit, indentVars, Inv
<1>2. PICK c \in Readable, type \in TokenType :
        /\ type \in Targets(state, c) \ State
        /\ Getchar(c, IF TakesLast(state, type) THEN <<>> ELSE UngetcChar(c))
        /\ Return(type, Value(state, type, c))
        /\ lexeme' = IF TakesLast(state, type) THEN Append(lexeme, c) ELSE lexeme
        /\ IF TakesLast(state, type) THEN Take ELSE UNCHANGED taken
  <2>1. PICK c \in Readable : \E type \in Targets(state, c) \ State :
          /\ Getchar(c, IF TakesLast(state, type) THEN <<>> ELSE UngetcChar(c))
          /\ Return(type, Value(state, type, c))
          /\ lexeme' = IF TakesLast(state, type) THEN Append(lexeme, c) ELSE lexeme
          /\ IF TakesLast(state, type) THEN Take ELSE UNCHANGED taken
    BY DEF Emit
  <2>2. \A type \in Targets(state, c) \ State : type \in TokenType
    BY <1>1, TokenStep DEF TextType
  <2>3. QED
    BY <2>1, <2>2
<1>3. /\ pc' = "idle" /\ last_token_type' = type
      /\ token' = [type |-> type, value |-> Value(state, type, c)]
      /\ state \in State /\ c \in Char \cup {EOF} /\ lexeme \in Seq(Char)
      /\ At \in Nat
  BY <1>1, <1>2, ReadableType, ConsumedText DEF Return, TextType
<1>4. /\ type \notin {"TLEXERR", "TNEWLINE"} =>
              \/ /\ TakesLast(state, type)
                 /\ c # "blank" /\ c # "\n" /\ c # EOF
              \/ ~TakesLast(state, type) /\ state \in Plain
      /\ TakesLast(state, type) => c # EOF
      /\ type = "TNEWLINE" => state = "sNewLine" /\ ~TakesLast(state, type)
      /\ type \notin {"TDEDENT", "TFIRSTINDENT", "TINDENT", "TENDOFFILE"}
  BY <1>2, <1>3, TokenStep
<1>5. /\ InputType' /\ InputInv' /\ Continues
      /\ TakesLast(state, type) => /\ At' = At + 1 /\ Consumed'[At + 1] = c /\ c \in Char
      /\ ~TakesLast(state, type) => At' = At
  <2>1. CASE TakesLast(state, type)
    <3>1. Getchar(c, <<>>) /\ Take /\ c # EOF
      BY <1>2, <1>4, <2>1
    <3>2. InputType' /\ InputInv' /\ Continues /\ At' = At + 1
      BY <1>1, <1>2, <3>1, Taking
    <3>3. Consumed'[At + 1] = c /\ c \in Char
      BY <1>1, <1>2, <3>1, Taking
    <3>4. QED
      BY <2>1, <3>2, <3>3
  <2>2. CASE ~TakesLast(state, type)
    BY <1>1, <1>2, <2>2, ReturningChar
  <2>3. QED
    BY <2>1, <2>2
<1>6. TypeOK'
  <2>1. ControlType'
    BY <1>1, <1>2, <1>3 DEF ControlType
  <2>2. lexeme' \in Seq(Char)
    BY <1>2, <1>3, <1>5
  <2>3. TextType'
    BY <1>1, <2>2 DEF TextType
  <2>4. Value(state, type, c) \in Seq(Char \cup {EOF}) \cup {DeleteLast(Printed)}
    BY <1>1, <1>3, ValueCases
  <2>5. TokenOK'
    BY <1>2, <1>3, <2>4 DEF TokenOK
  <2>6. QED
    BY <1>5, <2>1, <2>3, <2>5, NextType
<1>7. StackInv'
  <2>1. stack # "none"
    BY <1>1 DEF StackInv
  <2>2. stack # "destroyed"
    <3>1. SUFFICES ASSUME Ended, state = "sStart" PROVE FALSE
      BY <1>1 DEF StackInv
    <3>2. Readable = {EOF}
      BY <1>1, <3>1, SourceAssumption DEF Readable, Ended
    <3>3. TakesLast(state, type)
      BY <3>1 DEF TakesLast
    <3>4. QED
      BY <1>2, <1>4, <3>2, <3>3
  <2>3. IndentsRise'
    BY <1>1 DEF StackInv, IndentsRise
  <2>4. QED
    BY <1>1, <1>3, <1>4, <2>1, <2>2, <2>3 DEF StackInv
<1>8. state \in Plain \cup {"sNewLine"} =>
        At # 0 /\ Consumed'[At] = lexeme[Len(lexeme)]
  <2>1. SUFFICES ASSUME lexeme # <<>> PROVE At # 0 /\ Consumed'[At] = lexeme[Len(lexeme)]
    BY <1>1 DEF LexemeInv, Plain
  <2>2. Len(lexeme) \in 1..Len(lexeme) /\ Len(lexeme) <= At /\ Len(lexeme) \in Nat
    BY <1>1, <1>3, <2>1 DEF LexemeInv
  <2>3. lexeme[Len(lexeme)] = Consumed[At - Len(lexeme) + Len(lexeme)]
    BY <1>1, <2>2 DEF LexemeInv
  <2>4. At - Len(lexeme) + Len(lexeme) = At /\ At \in 1..At /\ (At' = At \/ At' = At + 1)
    BY <1>3, <1>5, <2>2
  <2>5. QED
    BY <1>3, <1>5, <2>3, <2>4 DEF Continues
<1>9. LineInv'
  <2>1. type = "TNEWLINE" => LineBegins(Consumed, At)'
    BY <1>1, <1>4, <1>5, <1>8 DEF LineBegins, LexemeInv
  <2>2. type \in LineStart => type = "TNEWLINE"
    BY <1>4 DEF LineStart
  <2>3. QED
    BY <1>3, <2>1, <2>2 DEF LineInv
<1>10. BlockInv'
  <2>1. SUFFICES ASSUME type # "TLEXERR", type \notin LineStart PROVE Fits(At)'
    BY <1>3 DEF BlockInv
  <2>2. type # "TNEWLINE"
    BY <2>1 DEF LineStart
  <2>3. At' \in Nat /\ At' # 0 /\ Consumed'[At'] # "blank" /\ Consumed'[At'] # "\n"
    <3>1. CASE TakesLast(state, type) /\ c # "blank" /\ c # "\n"
      BY <1>3, <1>5, <3>1
    <3>2. CASE ~TakesLast(state, type) /\ state \in Plain
      BY <1>1, <1>3, <1>5, <1>8, <3>2 DEF LexemeInv
    <3>3. QED
      BY <1>4, <2>1, <2>2, <3>1, <3>2
  <2>4. \A n : ~BlanksTo(Consumed', At', n)
    BY <2>3, NoBlanks
  <2>5. \A n : ~BlanksTo(Consumed, At, n)'
    BY <2>4 DEF BlanksTo, LineBegins
  <2>6. QED
    BY <2>5 DEF Fits
<1>11. ValueIsText'
  <2>1. CASE stray
    BY <1>1, <2>1 DEF ValueIsText
  <2>2. CASE ~stray
    <3>1. StringIsText
      BY <1>1, <2>2 DEF StringInv
    <3>2. QED
      BY <1>1, <1>2, <1>3, <2>2, <3>1, EmitValue
  <2>3. QED
    BY <2>1, <2>2
<1>12. LexemeInv' /\ StringInv' /\ StrayInv'
  BY <1>3 DEF LexemeInv, StringInv, StrayInv
<1>13. QED
  BY <1>5, <1>6, <1>7, <1>9, <1>10, <1>11, <1>12 DEF Inv

LEMMA EndOfFileStep ==
  ASSUME Inv, EndOfFile
  PROVE  Inv'
<1>1. /\ pc = "automaton" /\ EOF \in Readable /\ Getchar(EOF, <<>>)
      /\ stack' = "destroyed" /\ UNCHANGED <<indents, taken>>
      /\ UNCHANGED <<counter, state, string, lexeme, stray>>
      /\ pc' = "idle" /\ last_token_type' = "TENDOFFILE"
      /\ token' = [type |-> "TENDOFFILE", value |-> <<>>]
      /\ InputType /\ ControlType /\ TextType /\ InputInv /\ StackInv
  BY TypeParts DEF EndOfFile, AtEnd, Return, automatonVars, Inv
<1>2. stdin = <<>> /\ stdin' = <<>> /\ pieces' = MaxPieces /\ UNCHANGED source
  BY <1>1, ReadEnd DEF InputType
<1>3. InputType' /\ InputInv' /\ Ended'
  BY <1>1, <1>2, SourceAssumption
  DEF InputType, InputInv, StdinType, StdinInv, Ended, At, Read
<1>4. TypeOK'
  <2>1. "TENDOFFILE" \in TokenType /\ <<>> \in Seq(Char \cup {EOF})
    BY DEF TokenType
  <2>2. ControlType' /\ TextType' /\ TokenOK'
    BY <1>1, <2>1 DEF ControlType, TextType, TokenOK
  <2>3. QED
    BY <1>3, <2>2, NextType
<1>5. StackInv'
  <2>1. IndentsRise'
    BY <1>1 DEF StackInv, IndentsRise
  <2>2. QED
    BY <1>1, <1>3, <2>1 DEF StackInv
<1>6. LineInv'
  BY <1>1 DEF LineInv, LineStart
<1>7. BlockInv'
  BY <1>1, <1>3 DEF BlockInv, Fits
<1>8. LexemeInv' /\ StringInv' /\ StrayInv' /\ ValueIsText'
  BY <1>1 DEF LexemeInv, StringInv, StrayInv, ValueIsText
<1>9. QED
  BY <1>3, <1>4, <1>5, <1>6, <1>7, <1>8 DEF Inv

LEMMA AbortStep ==
  ASSUME Inv, Abort
  PROVE  Inv'
<1>1. /\ pc = "automaton" /\ pc' = "aborted" /\ stack = "destroyed"
      /\ UNCHANGED <<stdin, source, pieces, taken>> /\ UNCHANGED <<indents, stack>>
      /\ UNCHANGED <<state, string, lexeme, stray>>
      /\ UNCHANGED <<last_token_type, counter, token>>
      /\ InputType /\ ControlType /\ TextType /\ TokenOK /\ InputInv /\ StackInv
  BY TypeParts DEF Abort, AtEnd, inputVars, indentVars, automatonVars, Inv
<1>2. InputType' /\ InputInv' /\ (Ended' <=> Ended)
  BY <1>1 DEF InputType, InputInv, StdinType, StdinInv, Ended, At, Read
<1>3. TypeOK'
  <2>1. ControlType' /\ TextType' /\ TokenOK'
    BY <1>1 DEF ControlType, TextType, TokenOK
  <2>2. QED
    BY <1>2, <2>1, NextType
<1>4. StackInv'
  <2>1. IndentsRise'
    BY <1>1 DEF StackInv, IndentsRise
  <2>2. QED
    BY <1>1, <1>2, <2>1 DEF StackInv
<1>5. LineInv' /\ LexemeInv' /\ BlockInv' /\ StringInv' /\ StrayInv' /\ ValueIsText'
  BY <1>1 DEF LineInv, LexemeInv, BlockInv, StringInv, StrayInv, ValueIsText
<1>6. QED
  BY <1>2, <1>3, <1>4, <1>5 DEF Inv
-----------------------------------------------------------------------------
(* The theorems *)

LEMMA InitInv == ASSUME Init PROVE Inv
<1> USE DEF Init
<1>1. TypeOK
  <2>1. /\ <<>> \in Seq(Char) /\ <<>> \in Seq(Nat) /\ <<>> \in Seq(Char \cup {EOF})
        /\ 0 \in 0..MaxPieces
    BY SourceAssumption
  <2>2. "sStart" \in State
    BY StateDef
  <2>3. QED
    BY <2>1, <2>2 DEF TypeOK
<1>2. InputInv /\ At = 0
  BY DEF InputInv, StdinInv, At, Read
<1>3. StackInv
  BY <1>2 DEF StackInv, IndentsRise
<1>4. LineInv
  BY <1>2 DEF LineInv, LineBegins
<1>5. BlockInv
  BY DEF BlockInv, LineStart
<1>6. LexemeInv /\ StringInv /\ StrayInv /\ ValueIsText
  BY DEF LexemeInv, StringInv, StrayInv, ValueIsText
<1>7. QED
  BY <1>1, <1>2, <1>3, <1>4, <1>5, <1>6 DEF Inv

LEMMA NextInv == ASSUME Inv, [Next]_vars PROVE Inv'
<1>1. CASE Call
  BY <1>1, CallStep
<1>2. CASE CountBlank
  BY <1>2, CountBlankStep
<1>3. CASE SameIndent
  BY <1>3, SameIndentStep
<1>4. CASE Indent
  BY <1>4, IndentStep
<1>5. CASE Dedent
  BY <1>5, DedentStep
<1>6. CASE Move
  BY <1>6, MoveStep
<1>7. CASE Emit
  BY <1>7, EmitStep
<1>8. CASE EndOfFile
  BY <1>8, EndOfFileStep
<1>9. CASE Abort
  BY <1>9, AbortStep
<1>10. CASE UNCHANGED vars
  <2>1. /\ UNCHANGED <<stdin, source, pieces, taken>> /\ UNCHANGED <<indents, stack>>
        /\ UNCHANGED <<state, string, lexeme, stray>>
        /\ UNCHANGED <<last_token_type, pc, counter, token>>
    BY <1>10 DEF vars, inputVars, indentVars, automatonVars
  <2>2. At' = At /\ Read' = Read /\ Consumed' = Consumed /\ (Ended' <=> Ended)
    BY <2>1 DEF At, Read, Consumed, Ended
  <2>3. TypeOK' /\ InputInv' /\ StackInv' /\ LineInv'
    BY <2>1, <2>2 DEF Inv, TypeOK, InputInv, StdinInv, StackInv, IndentsRise, LineInv, JustRead,
       BlanksTo, LineBegins
  <2>4. LexemeInv' /\ BlockInv' /\ StringInv' /\ StrayInv' /\ ValueIsText'
    BY <2>1, <2>2 DEF Inv, LexemeInv, BlockInv, StringInv, StringIsText, StrayInv, ValueIsText,
       Fits, BlanksTo, LineBegins
  <2>5. QED
    BY <2>3, <2>4 DEF Inv
<1>11. QED
  BY <1>1, <1>2, <1>3, <1>4, <1>5, <1>6, <1>7, <1>8, <1>9, <1>10 DEF Next, GetToken

\* In every reachable state the parts of the invariant hold together.
THEOREM Invariance == Spec => []Inv
<1>1. Init => Inv
  BY InitInv
<1>2. Inv /\ [Next]_vars => Inv'
  BY NextInv
<1>3. QED
  BY <1>1, <1>2, PTL DEF Spec

\* Every variable keeps its type: get_token returns tokens of TokenType only, and the
\* automaton stays in its states.
THEOREM TypeCorrect == Spec => []TypeOK
<1>1. Inv => TypeOK
  BY DEF Inv
<1>2. QED
  BY <1>1, Invariance, PTL

\* The stack of indents rises strictly from 0 (indent_counter pushes larger indents only
\* and pops until the indent is found or passed).
THEOREM IndentsAlwaysRise == Spec => []IndentsRise
<1>1. Inv => IndentsRise
  BY DEF Inv, StackInv
<1>2. QED
  BY <1>1, Invariance, PTL

\* The value of a token is its text whatever was appended and deleted again
\* (token_fill and the states that append the character behind the token).
THEOREM ValueIsAlwaysText == Spec => []ValueIsText
<1>1. Inv => ValueIsText
  BY DEF Inv
<1>2. QED
  BY <1>1, Invariance, PTL
-----------------------------------------------------------------------------
(* The properties that look at texts *)

LEMMA LeastNumber ==
  ASSUME NEW T \in SUBSET Nat, T # {}
  PROVE  \E x \in T : \A y \in T : x <= y
<1>1. OpToRel(<, Nat) = {ss \in Nat \X Nat : ss[1] < ss[2]}
  BY Zenon DEF OpToRel
<1>2. PICK x \in T : \A y \in T : <<y, x>> \notin OpToRel(<, Nat)
  BY NatLessThanWellFounded, WFMin, Zenon
<1>3. ASSUME NEW y \in T PROVE x <= y
  <2>1. <<y, x>> \notin {ss \in Nat \X Nat : ss[1] < ss[2]}
    BY <1>1, <1>2
  <2>2. <<y, x>> \in Nat \X Nat /\ <<y, x>>[1] = y /\ <<y, x>>[2] = x
    OBVIOUS
  <2>3. QED
    BY <2>1, <2>2
<1>4. QED
  BY <1>3

\* The first n characters.
LEMMA Beginning ==
  ASSUME NEW S, NEW text \in Seq(S), NEW n \in Nat, n <= Len(text)
  PROVE  /\ SubSeq(text, 1, n) \in Seq(S) /\ Len(SubSeq(text, 1, n)) = n
         /\ \A i \in 1..n : SubSeq(text, 1, n)[i] = text[i]
OBVIOUS

\* n is what TrailingBlanks chooses.
BlankTail(text, n) ==
    /\ n \in 0..Len(text)
    /\ \A i \in (Len(text) - n + 1)..Len(text) : text[i] = "blank"
    /\ n = Len(text) \/ text[Len(text) - n] # "blank"

\* There is one number of blanks at the end of a text.
LEMMA TrailingBlanksTail ==
  ASSUME NEW S, NEW text \in Seq(S)
  PROVE  /\ BlankTail(text, TrailingBlanks(text))
         /\ \A n : BlankTail(text, n) => n = TrailingBlanks(text)
<1> DEFINE Blank(k) == k \in 0..Len(text) /\ \A i \in k + 1..Len(text) : text[i] = "blank"
           T == {k \in Nat : Blank(k)}
<1>1. Len(text) \in Nat
  OBVIOUS
<1>2. PICK k \in T : \A y \in T : k <= y
  <2>1. Len(text) \in T /\ T \in SUBSET Nat
    BY <1>1
  <2>2. QED
    <3> HIDE DEF T
    <3>1. QED
      BY <2>1, LeastNumber
<1>3. BlankTail(text, Len(text) - k)
  <2>1. k \in 0..Len(text) /\ \A i \in k + 1..Len(text) : text[i] = "blank"
    BY <1>2
  <2>2. Len(text) - k \in 0..Len(text) /\ Len(text) - (Len(text) - k) = k
    BY <1>1, <2>1
  <2>3. ASSUME k # 0 PROVE text[k] # "blank"
    <3>1. SUFFICES ASSUME text[k] = "blank" PROVE FALSE
      OBVIOUS
    <3>2. k - 1 \in 0..Len(text) /\ k - 1 + 1 = k
      BY <1>1, <2>1, <2>3
    <3>3. \A i \in k..Len(text) : text[i] = "blank"
      BY <1>1, <2>1, <3>1
    <3>4. k - 1 \in T
      BY <3>2, <3>3
    <3>5. QED
      BY <1>2, <2>1, <3>4
  <2>4. QED
    BY <1>1, <2>1, <2>2, <2>3 DEF BlankTail
<1>4. ASSUME NEW n, NEW m, BlankTail(text, n), BlankTail(text, m), n < m PROVE FALSE
  <2>1. n \in 0..Len(text) /\ m \in 0..Len(text) /\ n # Len(text)
    BY <1>1, <1>4 DEF BlankTail
  <2>2. Len(text) - n \in Len(text) - m + 1..Len(text)
    BY <1>1, <1>4, <2>1
  <2>3. QED
    BY <1>4, <2>1, <2>2 DEF BlankTail
<1>5. ASSUME NEW n, NEW m, BlankTail(text, n), BlankTail(text, m) PROVE n = m
  <2>1. n \in Nat /\ m \in Nat
    BY <1>1, <1>5 DEF BlankTail
  <2>2. ~(n < m) /\ ~(m < n)
    BY <1>4, <1>5
  <2>3. QED
    BY <2>1, <2>2
<1>6. TrailingBlanks(text) = CHOOSE n \in 0..Len(text) : BlankTail(text, n)
  BY DEF TrailingBlanks, BlankTail
<1>7. BlankTail(text, TrailingBlanks(text))
  <2>1. \E n \in 0..Len(text) : BlankTail(text, n)
    BY <1>3 DEF BlankTail
  <2>2. QED
    BY <1>6, <2>1
<1>8. QED
  BY <1>5, <1>7

\* A text that ends where a line has n blanks, and the other way round.
LEMMA BlanksOfText ==
  ASSUME NEW S, NEW text \in Seq(S), NEW n
  PROVE  BlanksTo(text, Len(text), n) <=> BeginsLine(text) /\ n = TrailingBlanks(text)
<1> DEFINE t == TrailingBlanks(text)
<1>1. Len(text) \in Nat /\ BlankTail(text, t)
  BY TrailingBlanksTail
<1>2. BlanksTo(text, Len(text), n) => n = t
  <2>1. SUFFICES ASSUME BlanksTo(text, Len(text), n) PROVE BlankTail(text, n)
    BY TrailingBlanksTail
  <2>2. n \in 0..Len(text) /\ (Len(text) - n = 0 \/ text[Len(text) - n] = "\n")
    BY <2>1 DEF BlanksTo, LineBegins
  <2>3. QED
    BY <1>1, <2>1, <2>2 DEF BlanksTo, BlankTail
<1> HIDE DEF t
<1>3. t \in 0..Len(text) /\ Len(text) - t \in Nat /\ Len(text) - t <= Len(text)
  BY <1>1 DEF BlankTail
<1>4. BeginsLine(text) <=> LineBegins(text, Len(text) - t)
  <2> DEFINE before == SubSeq(text, 1, Len(text) - t)
  <2>1. /\ before \in Seq(S) /\ Len(before) = Len(text) - t
        /\ \A i \in 1..Len(text) - t : before[i] = text[i]
    BY <1>3, Beginning
  <2>2. BeginsLine(text) <=> before = <<>> \/ Last(before) = "\n"
    BY DEF BeginsLine, t
  <2> HIDE DEF before
  <2>3. before = <<>> <=> Len(text) - t = 0
    BY <2>1
  <2>4. Len(text) - t # 0 => Last(before) = text[Len(text) - t]
    BY <1>3, <2>1 DEF Last
  <2>5. QED
    BY <2>2, <2>3, <2>4 DEF LineBegins
<1>5. BlanksTo(text, Len(text), t) <=> LineBegins(text, Len(text) - t)
  BY <1>1, <1>3 DEF BlanksTo, BlankTail
<1>6. QED
  BY <1>2, <1>4, <1>5 DEF t

\* Only what was read matters.
LEMMA BlanksOfBeginning ==
  ASSUME NEW S, NEW s \in Seq(S), NEW p \in Nat, p <= Len(s), NEW n
  PROVE  BlanksTo(s, p, n) <=> BlanksTo(SubSeq(s, 1, p), Len(SubSeq(s, 1, p)), n)
<1> DEFINE text == SubSeq(s, 1, p)
<1>1. Len(text) = p /\ \A i \in 1..p : text[i] = s[i]
  BY Beginning
<1> HIDE DEF text
<1>2. n \in 0..p => (LineBegins(s, p - n) <=> LineBegins(text, p - n))
  BY <1>1 DEF LineBegins
<1>3. n \in 0..p => \A i \in p - n + 1..p : s[i] = text[i]
  BY <1>1
<1>4. BlanksTo(s, p, n) <=> BlanksTo(text, p, n)
  BY <1>2, <1>3 DEF BlanksTo
<1>5. QED
  BY <1>1, <1>4 DEF text

\* Every character before the end of the source still to be read was taken once and in
\* its order, unless it is a byte 0xFF: ungetc, and the blanks indent_counter puts back,
\* restore the order, and token_fill puts back what is not -1 (scaner.c:115-160).
THEOREM NothingEverLost == Spec => []NothingLost
<1>1. Inv => NothingLost
  <2>1. SUFFICES ASSUME Inv PROVE NothingLost
    OBVIOUS
  <2> DEFINE n == Len(stdin)
             rest == Reverse(stdin)
             all == Reverse(source)
  <2>2. /\ stdin \in Seq(Char) /\ source \in Seq(Char) /\ n \in Nat /\ Len(source) \in Nat
        /\ n <= Len(source) /\ Read = Len(source) - n
        /\ \A i \in 1..n : stdin[i] = source[Read + i]
    BY <2>1 DEF Inv, TypeOK, InputInv, StdinInv, Read
  <2>3. /\ rest \in Seq(Char) /\ Len(rest) = n
        /\ \A i \in 1..n : rest[i] = stdin[n - i + 1]
    BY <2>2 DEF Reverse
  <2>4. /\ all \in Seq(Char) /\ Len(all) = Len(source)
        /\ \A i \in 1..Len(source) : all[i] = source[Len(source) - i + 1]
    BY <2>2 DEF Reverse
  <2> HIDE DEF n, rest, all
  <2>5. ASSUME NEW i \in 1..n PROVE rest[i] = all[i]
    <3>1. n - i + 1 \in 1..n /\ Read + (n - i + 1) = Len(source) - i + 1 /\ i \in 1..Len(source)
      BY <2>2
    <3>2. rest[i] = stdin[n - i + 1]
      BY <2>3
    <3>3. stdin[n - i + 1] = source[Read + (n - i + 1)]
      BY <2>2, <3>1
    <3>4. all[i] = source[Len(source) - i + 1]
      BY <2>4, <3>1
    <3>5. QED
      BY <3>1, <3>2, <3>3, <3>4
  <2>6. SubSeq(rest, 1, n) = SubSeq(all, 1, n)
    <3>1. /\ SubSeq(rest, 1, n) \in Seq(Char) /\ Len(SubSeq(rest, 1, n)) = n
          /\ \A i \in 1..n : SubSeq(rest, 1, n)[i] = rest[i]
      BY <2>2, <2>3, Beginning
    <3>2. /\ SubSeq(all, 1, n) \in Seq(Char) /\ Len(SubSeq(all, 1, n)) = n
          /\ \A i \in 1..n : SubSeq(all, 1, n)[i] = all[i]
      BY <2>2, <2>4, Beginning
    <3>3. QED
      BY <2>5, <3>1, <3>2, SeqEqual
  <2>7. IsSuffix(stdin, source)
    BY <2>2, <2>3, <2>4, <2>6 DEF IsSuffix, IsPrefix, rest, all
  <2>8. /\ \A i \in 1..Len(taken) : taken[i] \in 1..Read
        /\ \A i \in 1..Len(taken) - 1 : taken[i] < taken[i + 1]
    <3>1. Len(taken) \in Nat /\ Len(taken) = At /\ InputInv
      BY <2>1 DEF Inv, TypeOK, At
    <3>2. QED
      BY <3>1 DEF InputInv
  <2>9. \A place \in 1..Read : place \in Range(taken) \/ source[place] = "0xFF"
    <3>1. /\ Len(taken) = At /\ DOMAIN taken = 1..Len(taken) /\ InputInv
      BY <2>1 DEF Inv, TypeOK, At
    <3>2. QED
      BY <3>1 DEF InputInv, Range
  <2>10. QED
    BY <2>7, <2>8, <2>9 DEF NothingLost, Read
<1>2. QED
  BY <1>1, Invariance, PTL

\* Whenever indent_counter counts, it counts from the start of a line: also blanks read
\* and put back by an earlier call, of which TDEDENT has reset the count.
THEOREM CountsAlwaysFromLineStart == Spec => []CountsFromLineStart
<1>1. Inv => CountsFromLineStart
  <2>1. SUFFICES ASSUME Inv, pc = "indent_counter"
                 PROVE  /\ stack = "live" /\ BeginsLine(Consumed)
                        /\ counter = TrailingBlanks(Consumed)
    BY DEF CountsFromLineStart
  <2>2. BlanksTo(Consumed, At, counter) /\ stack = "live"
    BY <2>1, TypeParts DEF Inv, LineInv, StackInv, ControlType
  <2>3. Consumed \in Seq(Char) /\ Len(Consumed) = At
    BY <2>1, ConsumedText, TypeParts DEF Inv
  <2>4. BlanksTo(Consumed, Len(Consumed), counter)
    BY <2>2, <2>3
  <2>5. QED
    BY <2>2, <2>3, <2>4, BlanksOfText
<1>2. QED
  BY <1>1, Invariance, PTL

\* When the first token of a line is read, the innermost block has the indent of the
\* line: one call of indent_counter closes one block only, but get_token calls it again
\* after every TDEDENT.
THEOREM LineAlwaysInItsBlock == Spec => []LineInItsBlock
<1>1. Inv => LineInItsBlock
  <2> DEFINE before == SubSeq(Consumed, 1, Len(Consumed) - Len(lexeme))
             p == At - Len(lexeme)
             n == TrailingBlanks(before)
  <2>1. SUFFICES ASSUME Inv, pc = "automaton", lexeme # <<>>, BeginsLine(before),
                        lexeme[1] \notin Transparent, token.type # "TLEXERR"
                 PROVE  Last(indents) = n
    BY DEF LineInItsBlock
  <2>2. Consumed \in Seq(Char) /\ Len(Consumed) = At /\ At \in Nat
    BY <2>1, ConsumedText, TypeParts DEF Inv
  <2>3. p \in Nat /\ p <= At
    BY <2>1, <2>2, TypeParts DEF Inv, LexemeInv, TextType
  <2>4. before = SubSeq(Consumed, 1, p) /\ before \in Seq(Char) /\ Len(before) = p
    <3>1. before = SubSeq(Consumed, 1, p)
      BY <2>2
    <3>2. SubSeq(Consumed, 1, p) \in Seq(Char) /\ Len(SubSeq(Consumed, 1, p)) = p
      BY <2>2, <2>3, Beginning
    <3>3. QED
      BY <3>1, <3>2
  <2> HIDE DEF before, p, n
  <2>5. BlanksTo(before, Len(before), n)
    BY <2>1, <2>4, BlanksOfText DEF n
  <2>6. BlanksTo(Consumed, p, n)
    BY <2>2, <2>3, <2>4, <2>5, BlanksOfBeginning
  <2>7. n \in 0..At
    BY <2>2, <2>3, <2>6 DEF BlanksTo
  <2>8. QED
    BY <2>1, <2>6, <2>7 DEF Inv, BlockInv, p
<1>2. QED
  BY <1>1, Invariance, PTL
-----------------------------------------------------------------------------
(* Words *)

\* The words of the automaton's states, by place.
DigitsIn(w, i, j) == \A k \in i..j : w[k] \in Digit

IntegerTo(w, i) == i \in 1..Len(w) /\ DigitsIn(w, 1, i) /\ (w[1] = "0" => i = 1)

FractionFrom(w, i, j) == i + 1 < j /\ w[i + 1] = "." /\ DigitsIn(w, i + 2, j)

MantissaTo(w, j) ==
    /\ j \in 1..Len(w)
    /\ \E i \in 1..j : IntegerTo(w, i) /\ (i = j \/ FractionFrom(w, i, j))

ExponentFrom(w, j, n) ==
    /\ j + 1 < n /\ w[j + 1] = "e"
    /\ \/ DigitsIn(w, j + 2, n)
       \/ j + 2 < n /\ w[j + 2] \in {"+", "-"} /\ DigitsIn(w, j + 3, n)

NameTo(w, n) == n >= 1 /\ w[1] \in Letter /\ \A k \in 1..n : w[k] \in Letter \cup Digit

WordIn(s, w) ==
    LET n == Len(w)
    IN /\ s = "sInteger0" => w = <<"0">>
       /\ s = "sInteger" => IntegerTo(w, n) /\ w[1] # "0"
       /\ s = "sIntWithDot" => n >= 2 /\ IntegerTo(w, n - 1) /\ w[n] = "."
       /\ s = "sFloat" => \E i \in 1..n : IntegerTo(w, i) /\ FractionFrom(w, i, n)
       /\ s = "sExponent" => n >= 2 /\ MantissaTo(w, n - 1) /\ w[n] = "e"
       /\ s = "sExponentOperator" =>
            n >= 3 /\ MantissaTo(w, n - 2) /\ w[n - 1] = "e" /\ w[n] \in {"+", "-"}
       /\ s = "sExponentNumber" => \E j \in 1..n : MantissaTo(w, j) /\ ExponentFrom(w, j, n)
       /\ s = "sIdentificatorOrKeyWord" => NameTo(w, n)
       /\ s = "sDivOrFloorDiv" => w = <<"/">>
       /\ s = "sAssignOrEqual" => w = <<"=">>
       /\ s = "sLtOrLte" => w = <<"<">>
       /\ s = "sGtOrGte" => w = <<">">>
       /\ s = "sExclMark" => w = <<"!">>

\* What the automaton has read leads to its state.
WordInv == pc = "automaton" => WordIn(state, lexeme)

\* One more character.
LEMMA Longer ==
  ASSUME NEW S, NEW w \in Seq(S), NEW c \in S
  PROVE  LET v == Append(w, c) n == Len(w)
         IN /\ v \in Seq(S) /\ n \in Nat /\ Len(v) = n + 1 /\ v[n + 1] = c
            /\ \A k \in 1..n : v[k] = w[k]
OBVIOUS

LEMMA Pair ==
  ASSUME NEW S, NEW a \in S, NEW b \in S, NEW w, w = <<a>>
  PROVE  Append(w, b) = <<a, b>>
<1> DEFINE v == Append(w, b)
<1>1. w \in Seq(S) /\ Len(w) = 1
  OBVIOUS
<1>2. v \in Seq(S) /\ Len(v) = 2 /\ v[1] = a /\ v[2] = b
  BY <1>1
<1> HIDE DEF v
<1>3. v = <<a, b>>
  BY <1>2
<1>4. QED
  BY <1>3 DEF v

LEMMA LongerParts ==
  ASSUME NEW w \in Seq(Char), NEW c \in Char, NEW v, v = Append(w, c)
  PROVE  /\ \A i, j \in Nat : i >= 1 /\ j <= Len(w) /\ DigitsIn(w, i, j) => DigitsIn(v, i, j)
         /\ \A i \in Nat : IntegerTo(w, i) => IntegerTo(v, i)
         /\ \A i, j \in Nat : j <= Len(w) /\ FractionFrom(w, i, j) => FractionFrom(v, i, j)
         /\ \A j \in Nat : MantissaTo(w, j) => MantissaTo(v, j)
<1>1. /\ Len(w) \in Nat /\ Len(v) = Len(w) + 1
      /\ \A k \in 1..Len(w) : v[k] = w[k]
  BY Longer
<1>2. ASSUME NEW i \in Nat, NEW j \in Nat, i >= 1, j <= Len(w), DigitsIn(w, i, j)
      PROVE  DigitsIn(v, i, j)
  BY <1>1, <1>2 DEF DigitsIn
<1>3. ASSUME NEW i \in Nat, IntegerTo(w, i) PROVE IntegerTo(v, i)
  <2>1. i \in 1..Len(w) /\ DigitsIn(w, 1, i) /\ (w[1] = "0" => i = 1)
    BY <1>3 DEF IntegerTo
  <2>2. DigitsIn(v, 1, i) /\ i \in 1..Len(v) /\ v[1] = w[1]
    BY <1>1, <1>2, <2>1
  <2>3. QED
    BY <2>1, <2>2 DEF IntegerTo
<1>4. ASSUME NEW i \in Nat, NEW j \in Nat, j <= Len(w), FractionFrom(w, i, j)
      PROVE  FractionFrom(v, i, j)
  <2>1. i + 1 < j /\ w[i + 1] = "." /\ DigitsIn(w, i + 2, j)
    BY <1>4 DEF FractionFrom
  <2>2. i + 1 \in 1..Len(w) /\ i + 2 \in Nat /\ i + 2 >= 1
    BY <1>1, <1>4, <2>1
  <2>3. DigitsIn(v, i + 2, j) /\ v[i + 1] = "."
    BY <1>1, <1>2, <1>4, <2>1, <2>2
  <2>4. QED
    BY <2>1, <2>3 DEF FractionFrom
<1>5. ASSUME NEW j \in Nat, MantissaTo(w, j) PROVE MantissaTo(v, j)
  <2>1. j \in 1..Len(w)
    BY <1>5 DEF MantissaTo
  <2>2. PICK i \in 1..j : IntegerTo(w, i) /\ (i = j \/ FractionFrom(w, i, j))
    BY <1>5 DEF MantissaTo
  <2>3. IntegerTo(v, i) /\ (i = j \/ FractionFrom(v, i, j)) /\ j \in 1..Len(v)
    BY <1>1, <1>3, <1>4, <2>1, <2>2
  <2>4. QED
    BY <2>3 DEF MantissaTo
<1>6. QED
  BY <1>2, <1>3, <1>4, <1>5

\* What a state that reads words is entered by.
LEMMA WordEntry ==
  ASSUME NEW s \in State, NEW c, NEW t \in Targets(s, c) \cap State, t \in Raw
  PROVE  \/ /\ s = "sStart"
            /\ \/ c = "1" /\ t = "sInteger"
               \/ c = "0" /\ t = "sInteger0"
               \/ c = "/" /\ t = "sDivOrFloorDiv"
               \/ c = "<" /\ t = "sLtOrLte"
               \/ c = ">" /\ t = "sGtOrGte"
               \/ c = "=" /\ t = "sAssignOrEqual"
               \/ c = "!" /\ t = "sExclMark"
               \/ c \in Letter /\ t = "sIdentificatorOrKeyWord"
         \/ NumberStep(s, c, t)
         \/ s = "sIdentificatorOrKeyWord" /\ t = s /\ c \in Letter \cup Digit
<1>1. RuleStep(s, c, t) \/ OtherStep(s, c, t)
  BY TargetsTable
<1> USE DEF Raw
<1>2. t # "TERR" /\ t # "TKEYWORD" /\ t \notin SingleToken
  BY StateDef DEF SingleToken
<1>3. CASE StartStep(s, c, t)
  BY <1>2, <1>3, SingleType DEF StartStep, Letter
<1>4. CASE NumberStep(s, c, t)
  BY <1>4
<1>5. CASE CommentStep(s, c, t)
  BY <1>5 DEF CommentStep
<1>6. CASE WordStep(s, c, t)
  BY <1>6 DEF WordStep, Letter, Digit
<1>7. CASE StringStep(s, c, t)
  BY <1>7 DEF StringStep
<1>8. CASE OtherStep(s, c, t)
  <2>1. OtherwiseStep(s, t)
    BY <1>2, <1>8, OtherwiseTable DEF OtherStep
  <2>2. QED
    BY <2>1, StateDef DEF OtherwiseStep
<1>9. QED
  BY <1>1, <1>3, <1>4, <1>5, <1>6, <1>7, <1>8 DEF RuleStep

\* The first character of a word.
LEMMA WordBegins ==
  ASSUME NEW t, NEW c,
         \/ c = "1" /\ t = "sInteger"
         \/ c = "0" /\ t = "sInteger0"
         \/ c = "/" /\ t = "sDivOrFloorDiv"
         \/ c = "<" /\ t = "sLtOrLte"
         \/ c = ">" /\ t = "sGtOrGte"
         \/ c = "=" /\ t = "sAssignOrEqual"
         \/ c = "!" /\ t = "sExclMark"
         \/ c \in Letter /\ t = "sIdentificatorOrKeyWord"
  PROVE  WordIn(t, <<c>>)
<1>1. Len(<<c>>) = 1 /\ <<c>>[1] = c
  OBVIOUS
<1>2. c = "1" => IntegerTo(<<c>>, 1)
  BY <1>1 DEF IntegerTo, DigitsIn, Digit
<1>3. c \in Letter => NameTo(<<c>>, 1)
  BY <1>1 DEF NameTo
<1>4. QED
  BY <1>1, <1>2, <1>3 DEF WordIn

\* One more character of a number.
LEMMA NumberGrows ==
  ASSUME NEW w \in Seq(Char), NEW c \in Char, NEW s, NEW t \in Raw,
         WordIn(s, w), NumberStep(s, c, t)
  PROVE  WordIn(t, Append(w, c))
<1> DEFINE v == Append(w, c)
           n == Len(w)
<1>1. /\ n \in Nat /\ v \in Seq(Char) /\ Len(v) = n + 1 /\ v[n + 1] = c
      /\ \A k \in 1..n : v[k] = w[k]
  BY Longer
<1>2. /\ \A i, j \in Nat : i >= 1 /\ j <= n /\ DigitsIn(w, i, j) => DigitsIn(v, i, j)
      /\ \A i \in Nat : IntegerTo(w, i) => IntegerTo(v, i)
      /\ \A i, j \in Nat : j <= n /\ FractionFrom(w, i, j) => FractionFrom(v, i, j)
      /\ \A j \in Nat : MantissaTo(w, j) => MantissaTo(v, j)
  BY LongerParts
<1> HIDE DEF v
<1>3. ASSUME NEW i \in Nat, i >= 1, i <= n + 1, DigitsIn(w, i, n), c \in {"0", "1"}
      PROVE  DigitsIn(v, i, n + 1)
  BY <1>1, <1>3 DEF DigitsIn, Digit
<1>4. CASE s = "sInteger0" /\ c = "." /\ t = "sIntWithDot"
  <2>1. w = <<"0">> /\ n = 1
    BY <1>4 DEF WordIn
  <2>2. IntegerTo(w, 1)
    BY <2>1 DEF IntegerTo, DigitsIn, Digit
  <2>3. QED
    BY <1>1, <1>2, <1>4, <2>1, <2>2 DEF WordIn, v
<1>5. CASE s = "sInteger0" /\ c = "e" /\ t = "sExponent"
  <2>1. w = <<"0">> /\ n = 1
    BY <1>5 DEF WordIn
  <2>2. IntegerTo(w, 1)
    BY <2>1 DEF IntegerTo, DigitsIn, Digit
  <2>3. MantissaTo(w, 1)
    BY <2>1, <2>2 DEF MantissaTo
  <2>4. QED
    BY <1>1, <1>2, <1>5, <2>1, <2>3 DEF WordIn, v
<1>6. CASE s = "sInteger" /\ c \in {"0", "1"} /\ t = "sInteger"
  <2>1. IntegerTo(w, n) /\ w[1] # "0"
    BY <1>6 DEF WordIn
  <2>2. n >= 1 /\ DigitsIn(w, 1, n) /\ v[1] = w[1]
    BY <1>1, <2>1 DEF IntegerTo
  <2>3. IntegerTo(v, n + 1)
    BY <1>1, <1>3, <1>6, <2>1, <2>2 DEF IntegerTo
  <2>4. QED
    BY <1>1, <1>6, <2>1, <2>2, <2>3 DEF WordIn, v
<1>7. CASE s = "sInteger" /\ c = "." /\ t = "sIntWithDot"
  <2>1. IntegerTo(w, n) /\ n >= 1
    BY <1>1, <1>7 DEF WordIn, IntegerTo
  <2>2. QED
    BY <1>1, <1>2, <1>7, <2>1 DEF WordIn, v
<1>8. CASE s = "sInteger" /\ c = "e" /\ t = "sExponent"
  <2>1. IntegerTo(w, n) /\ n >= 1
    BY <1>1, <1>8 DEF WordIn, IntegerTo
  <2>2. MantissaTo(w, n)
    BY <1>1, <2>1 DEF MantissaTo
  <2>3. QED
    BY <1>1, <1>2, <1>8, <2>1, <2>2 DEF WordIn, v
<1>9. CASE s = "sIntWithDot" /\ c \in {"0", "1"} /\ t = "sFloat"
  <2>1. n >= 2 /\ IntegerTo(w, n - 1) /\ w[n] = "."
    BY <1>9 DEF WordIn
  <2>2. n - 1 \in Nat /\ n - 1 \in 1..n + 1 /\ (n - 1) + 1 = n /\ (n - 1) + 2 = n + 1
    BY <1>1, <2>1
  <2>3. IntegerTo(v, n - 1) /\ v[n] = "."
    BY <1>1, <1>2, <2>1, <2>2
  <2>4. DigitsIn(v, n + 1, n + 1)
    BY <1>1, <1>9 DEF DigitsIn, Digit
  <2>5. FractionFrom(v, n - 1, n + 1)
    BY <1>1, <2>2, <2>3, <2>4 DEF FractionFrom
  <2>6. QED
    BY <1>1, <1>9, <2>2, <2>3, <2>5 DEF WordIn, v
<1>10. CASE s = "sFloat" /\ c \in {"0", "1"} /\ t = "sFloat"
  <2>1. PICK i \in 1..n : IntegerTo(w, i) /\ FractionFrom(w, i, n)
    BY <1>10 DEF WordIn
  <2>2. i + 1 < n /\ w[i + 1] = "." /\ DigitsIn(w, i + 2, n) /\ i + 2 \in Nat /\ i + 2 >= 1
        /\ i + 1 \in 1..n /\ i + 2 <= n + 1 /\ i \in Nat
    BY <1>1, <2>1 DEF FractionFrom
  <2>3. DigitsIn(v, i + 2, n + 1)
    BY <1>3, <1>10, <2>2
  <2>4. v[i + 1] = "."
    BY <1>1, <2>2
  <2>5. FractionFrom(v, i, n + 1) /\ IntegerTo(v, i)
    BY <1>1, <1>2, <2>1, <2>2, <2>3, <2>4 DEF FractionFrom
  <2>6. i \in 1..n + 1
    BY <1>1
  <2>7. QED
    BY <1>1, <1>10, <2>5, <2>6 DEF WordIn, v
<1>11. CASE s = "sFloat" /\ c = "e" /\ t = "sExponent"
  <2>1. PICK i \in 1..n : IntegerTo(w, i) /\ FractionFrom(w, i, n)
    BY <1>11 DEF WordIn
  <2>2. MantissaTo(w, n) /\ n >= 1
    BY <1>1, <2>1 DEF MantissaTo
  <2>3. QED
    BY <1>1, <1>2, <1>11, <2>2 DEF WordIn, v
<1>12. CASE s = "sExponent" /\ c \in {"0", "1"} /\ t = "sExponentNumber"
  <2>1. n >= 2 /\ MantissaTo(w, n - 1) /\ w[n] = "e"
    BY <1>12 DEF WordIn
  <2>2. n - 1 \in Nat /\ n - 1 \in 1..n + 1 /\ (n - 1) + 1 = n /\ (n - 1) + 2 = n + 1
    BY <1>1, <2>1
  <2>3. MantissaTo(v, n - 1) /\ v[n] = "e"
    BY <1>1, <1>2, <2>1, <2>2
  <2>4. DigitsIn(v, n + 1, n + 1)
    BY <1>1, <1>12 DEF DigitsIn, Digit
  <2>5. ExponentFrom(v, n - 1, n + 1)
    BY <1>1, <2>2, <2>3, <2>4 DEF ExponentFrom
  <2>6. QED
    BY <1>1, <1>12, <2>2, <2>3, <2>5 DEF WordIn, v
<1>13. CASE s = "sExponent" /\ c \in {"+", "-"} /\ t = "sExponentOperator"
  <2>1. n >= 2 /\ MantissaTo(w, n - 1) /\ w[n] = "e"
    BY <1>13 DEF WordIn
  <2>2. n - 1 \in Nat /\ (n + 1) - 2 = n - 1 /\ (n + 1) - 1 = n /\ n + 1 >= 3
    BY <1>1, <2>1
  <2>3. MantissaTo(v, n - 1) /\ v[n] = "e"
    BY <1>1, <1>2, <2>1, <2>2
  <2>4. QED
    BY <1>1, <1>13, <2>2, <2>3 DEF WordIn, v
<1>14. CASE s = "sExponentOperator" /\ c \in {"0", "1"} /\ t = "sExponentNumber"
  <2>1. n >= 3 /\ MantissaTo(w, n - 2) /\ w[n - 1] = "e" /\ w[n] \in {"+", "-"}
    BY <1>14 DEF WordIn
  <2>2. /\ n - 2 \in Nat /\ n - 2 \in 1..n + 1
        /\ (n - 2) + 1 = n - 1 /\ (n - 2) + 2 = n /\ (n - 2) + 3 = n + 1
    BY <1>1, <2>1
  <2>3. MantissaTo(v, n - 2) /\ v[n - 1] = "e" /\ v[n] \in {"+", "-"}
    BY <1>1, <1>2, <2>1, <2>2
  <2>4. DigitsIn(v, n + 1, n + 1)
    BY <1>1, <1>14 DEF DigitsIn, Digit
  <2>5. ExponentFrom(v, n - 2, n + 1)
    BY <1>1, <2>2, <2>3, <2>4 DEF ExponentFrom
  <2>6. QED
    BY <1>1, <1>14, <2>2, <2>3, <2>5 DEF WordIn, v
<1>15. CASE s = "sExponentNumber" /\ c \in {"0", "1"} /\ t = "sExponentNumber"
  <2>1. PICK j \in 1..n : MantissaTo(w, j) /\ ExponentFrom(w, j, n)
    BY <1>15 DEF WordIn
  <2>2. j + 1 < n /\ w[j + 1] = "e" /\ j \in Nat /\ j \in 1..n + 1 /\ j + 1 \in 1..n
        /\ j + 2 \in 1..n /\ j + 2 \in Nat /\ j + 3 \in Nat /\ j + 3 <= n + 1
    BY <1>1, <2>1 DEF ExponentFrom
  <2>3. MantissaTo(v, j) /\ v[j + 1] = "e" /\ v[j + 2] = w[j + 2]
    BY <1>1, <1>2, <2>1, <2>2
  <2>4. \/ DigitsIn(w, j + 2, n)
        \/ j + 2 < n /\ w[j + 2] \in {"+", "-"} /\ DigitsIn(w, j + 3, n)
    BY <2>1 DEF ExponentFrom
  <2>5. DigitsIn(w, j + 2, n) => DigitsIn(v, j + 2, n + 1)
    BY <1>1, <1>3, <1>15, <2>2
  <2>6. DigitsIn(w, j + 3, n) => DigitsIn(v, j + 3, n + 1)
    BY <1>1, <1>3, <1>15, <2>2
  <2>7. j + 1 < n + 1 /\ (j + 2 < n => j + 2 < n + 1)
    BY <1>1, <2>2
  <2>8. ExponentFrom(v, j, n + 1)
    BY <2>3, <2>4, <2>5, <2>6, <2>7 DEF ExponentFrom
  <2>9. QED
    BY <1>1, <1>15, <2>2, <2>3, <2>8 DEF WordIn, v
<1>16. t # "TLEXERR"
  BY DEF Raw
<1>17. QED
  BY <1>4, <1>5, <1>6, <1>7, <1>8, <1>9, <1>10, <1>11, <1>12, <1>13, <1>14, <1>15, <1>16
  DEF NumberStep

\* The words of a state as words of a language.
LEMMA PartOf ==
  ASSUME NEW w \in Seq(Char), NEW m \in 1..Len(w), NEW n \in m..Len(w)
  PROVE  /\ SubSeq(w, m, n) \in Seq(Char) /\ Len(SubSeq(w, m, n)) = n - m + 1
         /\ SubSeq(w, m, n) # <<>>
         /\ \A k \in 1..n - m + 1 : SubSeq(w, m, n)[k] = w[m + k - 1]
OBVIOUS

LEMMA TailOf ==
  ASSUME NEW u \in Seq(Char), u # <<>>
  PROVE  /\ Tail(u) \in Seq(Char) /\ Len(Tail(u)) = Len(u) - 1
         /\ \A k \in 1..Len(u) - 1 : Tail(u)[k] = u[k + 1]
OBVIOUS

LEMMA DigitsAre ==
  ASSUME NEW u \in Seq(Char)
  PROVE  Digits(u) <=> Len(u) >= 1 /\ DigitsIn(u, 1, Len(u))
BY DEF Digits, DigitsIn, Range

LEMMA IntegersAre ==
  ASSUME NEW w \in Seq(Char), NEW i \in 1..Len(w)
  PROVE  IsInteger(SubSeq(w, 1, i)) <=> IntegerTo(w, i)
<1> DEFINE u == SubSeq(w, 1, i)
<1>1. u \in Seq(Char) /\ Len(u) = i /\ \A k \in 1..i : u[k] = w[k]
  OBVIOUS
<1> HIDE DEF u
<1>2. Digits(u) <=> DigitsIn(w, 1, i)
  BY <1>1, DigitsAre DEF DigitsIn
<1>3. u[1] = w[1]
  BY <1>1
<1>4. IsInteger(u) <=> IntegerTo(w, i)
  BY <1>1, <1>2, <1>3 DEF IsInteger, IntegerTo
<1>5. QED
  BY <1>4 DEF u

LEMMA FractionsAre ==
  ASSUME NEW w \in Seq(Char), NEW i \in 1..Len(w), NEW j \in i + 1..Len(w)
  PROVE  IsFraction(SubSeq(w, i + 1, j)) <=> FractionFrom(w, i, j)
<1> DEFINE u == SubSeq(w, i + 1, j)
<1>1. i + 1 \in 1..Len(w) /\ Len(w) \in Nat
  OBVIOUS
<1>2. /\ u \in Seq(Char) /\ Len(u) = j - i /\ u # <<>>
      /\ \A k \in 1..j - i : u[k] = w[i + k]
  OBVIOUS
<1> HIDE DEF u
<1>3. /\ Tail(u) \in Seq(Char) /\ Len(Tail(u)) = j - i - 1
      /\ \A k \in 1..j - i - 1 : Tail(u)[k] = w[i + k + 1]
  <2>1. \A k \in 1..j - i - 1 : k + 1 \in 1..j - i /\ i + (k + 1) = i + k + 1
    OBVIOUS
  <2>2. Tail(u) \in Seq(Char) /\ Len(Tail(u)) = j - i - 1
        /\ \A k \in 1..j - i - 1 : Tail(u)[k] = u[k + 1]
    BY <1>2, TailOf
  <2>3. QED
    BY <1>2, <2>1, <2>2
<1>4. Digits(Tail(u)) <=> i + 1 < j /\ DigitsIn(w, i + 2, j)
  <2>1. Digits(Tail(u)) <=> j - i - 1 >= 1 /\ DigitsIn(Tail(u), 1, j - i - 1)
    BY <1>3, DigitsAre
  <2>2. ASSUME DigitsIn(Tail(u), 1, j - i - 1) PROVE DigitsIn(w, i + 2, j)
    <3>1. ASSUME NEW m \in i + 2..j PROVE w[m] \in Digit
      <4>1. m - i - 1 \in 1..j - i - 1 /\ i + (m - i - 1) + 1 = m
        OBVIOUS
      <4>2. QED
        BY <1>3, <2>2, <4>1 DEF DigitsIn
    <3>2. QED
      BY <3>1 DEF DigitsIn
  <2>3. ASSUME DigitsIn(w, i + 2, j) PROVE DigitsIn(Tail(u), 1, j - i - 1)
    <3>1. ASSUME NEW m \in 1..j - i - 1 PROVE Tail(u)[m] \in Digit
      <4>1. i + m + 1 \in i + 2..j
        OBVIOUS
      <4>2. QED
        BY <1>3, <2>3, <4>1 DEF DigitsIn
    <3>2. QED
      BY <3>1 DEF DigitsIn
  <2>4. QED
    BY <2>1, <2>2, <2>3
<1>5. 1 \in 1..j - i /\ u[1] = w[i + 1]
  BY <1>2
<1>6. IsFraction(u) <=> FractionFrom(w, i, j)
  BY <1>2, <1>4, <1>5 DEF IsFraction, FractionFrom
<1>7. QED
  BY <1>6 DEF u

LEMMA ExponentsAre ==
  ASSUME NEW w \in Seq(Char), NEW j \in 1..Len(w) - 1
  PROVE  IsExponent(SubSeq(w, j + 1, Len(w))) <=> ExponentFrom(w, j, Len(w))
<1> DEFINE n == Len(w)
           u == SubSeq(w, j + 1, n)
<1>1. n \in Nat /\ j \in Nat /\ j < n
  OBVIOUS
<1>2. /\ u \in Seq(Char) /\ Len(u) = n - j /\ u # <<>>
      /\ \A k \in 1..n - j : u[k] = w[j + k]
  <2>1. /\ j + 1 \in 1..n /\ n \in j + 1..n /\ n - (j + 1) + 1 = n - j
        /\ \A k \in 1..n - j : (j + 1) + k - 1 = j + k
    BY <1>1
  <2>2. /\ u \in Seq(Char) /\ Len(u) = n - (j + 1) + 1 /\ u # <<>>
        /\ \A k \in 1..n - (j + 1) + 1 : u[k] = w[(j + 1) + k - 1]
    BY <2>1, PartOf
  <2> HIDE DEF u, n
  <2>3. QED
    BY <2>1, <2>2
<1> HIDE DEF u, n
<1>3. /\ Tail(u) \in Seq(Char) /\ Len(Tail(u)) = n - j - 1
      /\ \A k \in 1..n - j - 1 : Tail(u)[k] = w[j + k + 1]
  <2>1. \A k \in 1..n - j - 1 : k + 1 \in 1..n - j /\ j + (k + 1) = j + k + 1
    BY <1>1
  <2>2. Tail(u) \in Seq(Char) /\ Len(Tail(u)) = n - j - 1
        /\ \A k \in 1..n - j - 1 : Tail(u)[k] = u[k + 1]
    BY <1>2, TailOf
  <2>3. QED
    BY <1>2, <2>1, <2>2
<1>4. Digits(Tail(u)) <=> j + 1 < n /\ DigitsIn(w, j + 2, n)
  <2>1. Digits(Tail(u)) <=> n - j - 1 >= 1 /\ DigitsIn(Tail(u), 1, n - j - 1)
    BY <1>3, DigitsAre
  <2>2. ASSUME DigitsIn(Tail(u), 1, n - j - 1) PROVE DigitsIn(w, j + 2, n)
    <3>1. ASSUME NEW m \in j + 2..n PROVE w[m] \in Digit
      <4>1. m - j - 1 \in 1..n - j - 1 /\ j + (m - j - 1) + 1 = m
        BY <1>1
      <4>2. QED
        BY <1>3, <2>2, <4>1 DEF DigitsIn
    <3>2. QED
      BY <3>1 DEF DigitsIn
  <2>3. ASSUME DigitsIn(w, j + 2, n) PROVE DigitsIn(Tail(u), 1, n - j - 1)
    <3>1. ASSUME NEW m \in 1..n - j - 1 PROVE Tail(u)[m] \in Digit
      <4>1. j + m + 1 \in j + 2..n
        BY <1>1
      <4>2. QED
        BY <1>3, <2>3, <4>1 DEF DigitsIn
    <3>2. QED
      BY <3>1 DEF DigitsIn
  <2>4. QED
    BY <1>1, <2>1, <2>2, <2>3
<1>5. u[1] = w[j + 1] /\ (n - j > 1 => u[2] = w[j + 2])
  BY <1>1, <1>2
<1>6. ASSUME n - j > 2
      PROVE  Digits(Tail(Tail(u))) <=> DigitsIn(w, j + 3, n)
  <2> DEFINE v == Tail(Tail(u))
  <2>1. /\ v \in Seq(Char) /\ Len(v) = n - j - 2
        /\ \A k \in 1..n - j - 2 : v[k] = w[j + k + 2]
    <3>1. Tail(u) # <<>>
      <4>1. n - j - 1 # 0
        BY <1>1, <1>6
      <4>2. QED
        BY <1>3, <4>1
    <3>2. /\ v \in Seq(Char) /\ Len(v) = (n - j - 1) - 1
          /\ \A k \in 1..(n - j - 1) - 1 : v[k] = Tail(u)[k + 1]
      BY <1>3, <3>1, TailOf
    <3>3. /\ (n - j - 1) - 1 = n - j - 2
          /\ \A k \in 1..n - j - 2 : k + 1 \in 1..n - j - 1 /\ j + (k + 1) + 1 = j + k + 2
      BY <1>1
    <3>4. QED
      BY <1>3, <3>2, <3>3
  <2> HIDE DEF v
  <2>2. Digits(v) <=> DigitsIn(v, 1, n - j - 2)
    BY <1>1, <1>6, <2>1, DigitsAre
  <2>3. ASSUME DigitsIn(v, 1, n - j - 2) PROVE DigitsIn(w, j + 3, n)
    <3>1. ASSUME NEW m \in j + 3..n PROVE w[m] \in Digit
      <4>1. m - j - 2 \in 1..n - j - 2 /\ j + (m - j - 2) + 2 = m
        BY <1>1
      <4>2. QED
        BY <2>1, <2>3, <4>1 DEF DigitsIn
    <3>2. QED
      BY <3>1 DEF DigitsIn
  <2>4. ASSUME DigitsIn(w, j + 3, n) PROVE DigitsIn(v, 1, n - j - 2)
    <3>1. ASSUME NEW m \in 1..n - j - 2 PROVE v[m] \in Digit
      <4>1. j + m + 2 \in j + 3..n
        BY <1>1
      <4>2. QED
        BY <2>1, <2>4, <4>1 DEF DigitsIn
    <3>2. QED
      BY <3>1 DEF DigitsIn
  <2>5. QED
    BY <2>2, <2>3, <2>4 DEF v
<1>7. (n - j > 2 <=> j + 2 < n) /\ (n - j > 2 => n - j > 1 /\ j + 1 < n)
  BY <1>1
<1>8. IsExponent(u) <=>
        /\ w[j + 1] = "e"
        /\ \/ j + 1 < n /\ DigitsIn(w, j + 2, n)
           \/ j + 2 < n /\ w[j + 2] \in {"+", "-"} /\ DigitsIn(w, j + 3, n)
  BY <1>2, <1>4, <1>5, <1>6, <1>7 DEF IsExponent
<1>9. IsExponent(u) <=> ExponentFrom(w, j, n)
  BY <1>7, <1>8 DEF ExponentFrom
<1>10. QED
  BY <1>9 DEF u, n

LEMMA WholeOf == ASSUME NEW w \in Seq(Char), w # <<>> PROVE SubSeq(w, 1, Len(w)) = w
OBVIOUS

LEMMA FloatsAre ==
  ASSUME NEW w \in Seq(Char)
  PROVE  IsFloat(w) <=>
           \E i, j \in 1..Len(w) :
             /\ i <= j /\ i < Len(w) /\ IntegerTo(w, i)
             /\ i = j \/ FractionFrom(w, i, j)
             /\ j = Len(w) \/ ExponentFrom(w, j, Len(w))
<1>1. ASSUME NEW i \in 1..Len(w), NEW j \in 1..Len(w), i <= j, i < Len(w)
      PROVE  /\ IsInteger(SubSeq(w, 1, i))
             /\ j > i => IsFraction(SubSeq(w, i + 1, j))
             /\ j < Len(w) => IsExponent(SubSeq(w, j + 1, Len(w)))
             <=>
             /\ IntegerTo(w, i)
             /\ i = j \/ FractionFrom(w, i, j)
             /\ j = Len(w) \/ ExponentFrom(w, j, Len(w))
  <2>1. IsInteger(SubSeq(w, 1, i)) <=> IntegerTo(w, i)
    BY IntegersAre
  <2>2. ASSUME j > i PROVE IsFraction(SubSeq(w, i + 1, j)) <=> FractionFrom(w, i, j)
    <3>1. j \in i + 1..Len(w)
      BY <2>2
    <3>2. QED
      BY <3>1, FractionsAre
  <2>3. ASSUME j < Len(w)
        PROVE  IsExponent(SubSeq(w, j + 1, Len(w))) <=> ExponentFrom(w, j, Len(w))
    <3>1. j \in 1..Len(w) - 1
      BY <2>3
    <3>2. QED
      BY <3>1, ExponentsAre
  <2>4. ~(i < i) /\ (FractionFrom(w, i, j) => j > i) /\ (ExponentFrom(w, j, Len(w)) => j < Len(w))
        /\ (i = j \/ j > i) /\ (j = Len(w) \/ j < Len(w)) /\ ~(Len(w) < Len(w))
    BY <1>1 DEF FractionFrom, ExponentFrom
  <2>5. QED
    BY <1>1, <2>1, <2>2, <2>3, <2>4
<1>2. QED
  BY <1>1 DEF IsFloat

\* A number begins and ends with a digit.
LEMMA NumberEnds ==
  ASSUME NEW w \in Seq(Char), IsInteger(w) \/ IsFloat(w)
  PROVE  Len(w) >= 1 /\ w[1] \in Digit /\ w[Len(w)] \in Digit
<1>1. CASE IsInteger(w)
  <2>1. Len(w) >= 1 /\ DigitsIn(w, 1, Len(w))
    BY <1>1, DigitsAre DEF IsInteger
  <2>2. Len(w) \in 1..Len(w) /\ 1 \in 1..Len(w)
    BY <2>1
  <2>3. QED
    BY <2>1, <2>2 DEF DigitsIn
<1>2. CASE IsFloat(w)
  <2>1. PICK i \in 1..Len(w), j \in 1..Len(w) :
          /\ i <= j /\ i < Len(w) /\ IntegerTo(w, i)
          /\ i = j \/ FractionFrom(w, i, j)
          /\ j = Len(w) \/ ExponentFrom(w, j, Len(w))
    BY <1>2, FloatsAre
  <2>2. w[1] \in Digit
    BY <2>1 DEF IntegerTo, DigitsIn
  <2>3. CASE j = Len(w)
    <3>1. i + 1 < j /\ DigitsIn(w, i + 2, j)
      BY <2>1, <2>3 DEF FractionFrom
    <3>2. j \in i + 2..j
      BY <3>1
    <3>3. QED
      BY <2>2, <2>3, <3>1, <3>2 DEF DigitsIn
  <2>4. CASE ExponentFrom(w, j, Len(w))
    <3>1. Len(w) \in Nat /\ Len(w) \in j + 2..Len(w)
      BY <2>4 DEF ExponentFrom
    <3>2. j + 2 < Len(w) => Len(w) \in j + 3..Len(w)
      BY <3>1
    <3>3. QED
      BY <2>2, <2>4, <3>1, <3>2 DEF ExponentFrom, DigitsIn
  <2>5. QED
    BY <2>1, <2>3, <2>4
<1>3. QED
  BY <1>1, <1>2

LEMMA NamesAre ==
  ASSUME NEW w \in Seq(Char)
  PROVE  IsName(w) <=> NameTo(w, Len(w))
BY DEF IsName, NameTo, Range

OperatorChar == {"/", "=", "<", ">", "!"}

\* What a word of any language is.
LEMMA Languages ==
  ASSUME NEW type \in Lexical, NEW w \in Seq(Char), InLanguage(type, w)
  PROVE  \/ IsInteger(w) \/ IsFloat(w) \/ IsName(w)
         \/ /\ w \in {<<"/">>, <<"=">>, <<"<">>, <<">">>, <<"/", "/">>, <<"=", "=">>,
                      <<"<", "=">>, <<">", "=">>, <<"!", "=">>}
<1>1. CASE type = "TKEYWORD"
  <2>1. w = <<"k">> /\ Len(w) = 1 /\ w[1] = "k"
    BY <1>1 DEF InLanguage
  <2>2. NameTo(w, 1)
    BY <2>1 DEF NameTo, Letter
  <2>3. QED
    BY <2>1, <2>2, NamesAre
<1>2. CASE type \in {"TINT", "TFLOAT", "TIDENTIFICATOR"}
  BY <1>2 DEF InLanguage
<1>3. CASE type \in DOMAIN Operators
  <2>1. type \in {"TDIV", "TASSIGN", "TLT", "TGT", "TFLOORDIV", "TEQ", "TLTE", "TGTE", "TNE"}
    BY <1>3 DEF Operators
  <2>2. w = Operators[type]
    BY <2>1 DEF InLanguage
  <2>3. QED
    BY <2>1, <2>2 DEF Operators
<1>4. QED
  BY <1>1, <1>2, <1>3 DEF Lexical

\* A word is in the language of its state's token.
LEMMA WordsBelong ==
  ASSUME NEW w \in Seq(Char), NEW s, WordIn(s, w)
  PROVE  /\ s \in {"sInteger0", "sInteger"} => IsInteger(w)
         /\ s \in {"sFloat", "sExponentNumber"} => IsFloat(w)
         /\ s = "sIdentificatorOrKeyWord" => IsName(w)
<1> DEFINE n == Len(w)
<1>1. n \in Nat
  OBVIOUS
<1>2. ASSUME IntegerTo(w, n) PROVE IsInteger(w)
  <2>1. w # <<>> /\ n \in 1..n
    BY <1>2 DEF IntegerTo
  <2>2. QED
    BY <1>2, <2>1, IntegersAre, WholeOf
<1>3. CASE s = "sInteger0"
  <2>1. w = <<"0">>
    BY <1>3 DEF WordIn
  <2>2. IntegerTo(w, n)
    BY <2>1 DEF IntegerTo, DigitsIn, Digit
  <2>3. QED
    BY <1>2, <1>3, <2>2
<1>4. CASE s = "sInteger"
  BY <1>2, <1>4 DEF WordIn
<1>5. CASE s = "sFloat"
  <2>1. PICK i \in 1..n : IntegerTo(w, i) /\ FractionFrom(w, i, n)
    BY <1>5 DEF WordIn
  <2>2. i < n /\ i <= n /\ n \in 1..n
    BY <1>1, <2>1 DEF FractionFrom
  <2>3. QED
    BY <1>5, <2>1, <2>2, FloatsAre
<1>6. CASE s = "sExponentNumber"
  <2>1. PICK j \in 1..n : MantissaTo(w, j) /\ ExponentFrom(w, j, n)
    BY <1>6 DEF WordIn
  <2>2. PICK i \in 1..j : IntegerTo(w, i) /\ (i = j \/ FractionFrom(w, i, j))
    BY <2>1 DEF MantissaTo
  <2>3. i \in 1..n /\ i <= j /\ i < n
    BY <1>1, <2>1, <2>2 DEF ExponentFrom
  <2>4. QED
    BY <1>6, <2>1, <2>2, <2>3, FloatsAre
<1>7. CASE s = "sIdentificatorOrKeyWord"
  BY <1>7, NamesAre DEF WordIn
<1>8. QED
  BY <1>3, <1>4, <1>5, <1>6, <1>7

LEMMA NoRuleWords ==
  ASSUME NEW s, NEW c, NoRule(s, c)
  PROVE  /\ s \in {"sInteger0", "sInteger", "sFloat", "sExponentNumber"} => c \notin Digit
         /\ s = "sIdentificatorOrKeyWord" => c \notin Letter \cup Digit
         /\ s = "sDivOrFloorDiv" => c # "/"
         /\ s \in {"sAssignOrEqual", "sLtOrLte", "sGtOrGte", "sExclMark"} => c # "="
<1>1. {Rule("sInteger0", Digit, "TLEXERR"), Rule("sInteger", Digit, "sInteger"),
       Rule("sFloat", Digit, "sFloat"), Rule("sExponentNumber", Digit, "sExponentNumber"),
       Rule("sIdentificatorOrKeyWord", Letter \cup Digit, "sIdentificatorOrKeyWord"),
       Rule("sDivOrFloorDiv", {"/"}, "TFLOORDIV"), Rule("sAssignOrEqual", {"="}, "TEQ"),
       Rule("sLtOrLte", {"="}, "TLTE"), Rule("sGtOrGte", {"="}, "TGTE"),
       Rule("sExclMark", {"="}, "TNE")} \subseteq Rules
  BY DEF Rules, NumberRules, WordRules
<1>2. QED
  BY <1>1, RuleFields DEF NoRule

\* The state and the character that a number, a name or an operator is returned for.
LEMMA LexicalStep ==
  ASSUME NEW s \in State, NEW c, NEW t \in Targets(s, c) \ State, t \in Lexical
  PROVE  \/ t = "TINT" /\ s \in {"sInteger0", "sInteger"} /\ c \notin Digit
         \/ t = "TFLOAT" /\ s \in {"sFloat", "sExponentNumber"} /\ c \notin Digit
         \/ /\ t = "TKEYWORD" /\ s = "sIdentificatorOrKeyWord" /\ string = <<"k">>
            /\ c \notin Letter \cup Digit
         \/ /\ t = "TIDENTIFICATOR" /\ s = "sIdentificatorOrKeyWord" /\ string # <<"k">>
            /\ c \notin Letter \cup Digit
         \/ t = "TDIV" /\ s = "sDivOrFloorDiv" /\ c # "/"
         \/ t = "TASSIGN" /\ s = "sAssignOrEqual" /\ c # "="
         \/ t = "TLT" /\ s = "sLtOrLte" /\ c # "="
         \/ t = "TGT" /\ s = "sGtOrGte" /\ c # "="
         \/ t = "TFLOORDIV" /\ s = "sDivOrFloorDiv" /\ c = "/"
         \/ t = "TEQ" /\ s = "sAssignOrEqual" /\ c = "="
         \/ t = "TLTE" /\ s = "sLtOrLte" /\ c = "="
         \/ t = "TGTE" /\ s = "sGtOrGte" /\ c = "="
         \/ t = "TNE" /\ s = "sExclMark" /\ c = "="
<1>1. RuleStep(s, c, t) \/ OtherStep(s, c, t)
  BY TargetsTable
<1>2. t \in {"TINT", "TFLOAT", "TKEYWORD", "TIDENTIFICATOR", "TDIV", "TASSIGN", "TLT", "TGT",
             "TFLOORDIV", "TEQ", "TLTE", "TGTE", "TNE"}
  BY DEF Lexical, Operators
<1>3. CASE StartStep(s, c, t)
  BY <1>2, <1>3, SingleType DEF StartStep, SingleToken
<1>4. CASE NumberStep(s, c, t)
  BY <1>2, <1>4 DEF NumberStep
<1>5. CASE CommentStep(s, c, t)
  BY <1>2, <1>5 DEF CommentStep
<1>6. CASE WordStep(s, c, t)
  BY <1>2, <1>6 DEF WordStep
<1>7. CASE StringStep(s, c, t)
  BY <1>2, <1>7 DEF StringStep
<1>8. CASE OtherStep(s, c, t)
  <2>1. NoRule(s, c)
    BY <1>8 DEF OtherStep
  <2>2. \/ OtherwiseStep(s, t)
        \/ s = "sIdentificatorOrKeyWord" /\ t = "TKEYWORD" /\ string = <<"k">>
    BY <1>2, <1>8, OtherwiseTable DEF OtherStep
  <2>3. ASSUME t = "TIDENTIFICATOR", s = "sIdentificatorOrKeyWord" PROVE string # <<"k">>
    <3>1. {r \in Rules : r.from = s /\ c \in r.chars} = {}
      BY <2>1 DEF NoRule
    <3>2. Targets(s, c) = IF string = <<"k">> THEN {"TKEYWORD"} ELSE {Otherwise[s]}
      BY <2>3, <3>1 DEF Targets
    <3>3. QED
      BY <2>3, <3>2
  <2>4. QED
    BY <1>2, <2>1, <2>2, <2>3, NoRuleWords DEF OtherwiseStep
<1>9. QED
  BY <1>1, <1>3, <1>4, <1>5, <1>6, <1>7, <1>8 DEF RuleStep

\* Texts that are in no language: a number with something that does not end one behind
\* it, a name with something that is not in one, and what is no operator.
LEMMA NoWord ==
  ASSUME NEW u \in Seq(Char), Len(u) >= 2,
         \/ u[1] \in Digit /\ u[Len(u)] \notin Digit
         \/ u[1] \in Letter /\ u[Len(u)] \notin Letter \cup Digit
         \/ u[1] \in OperatorChar /\ (Len(u) > 2 \/ (u[1] = "/" /\ u[2] # "/")
                                                 \/ (u[1] # "/" /\ u[2] # "="))
  PROVE  \A type \in Lexical : ~InLanguage(type, u)
<1>1. /\ \A c \in OperatorChar : c \notin Digit /\ c \notin Letter
      /\ \A c \in Letter : c \notin Digit
  BY DEF OperatorChar, Digit, Letter
<1>2. IsInteger(u) \/ IsFloat(u) => u[1] \in Digit /\ u[Len(u)] \in Digit
  BY NumberEnds
<1>3. IsName(u) => u[1] \in Letter /\ u[Len(u)] \in Letter \cup Digit
  <2>1. Len(u) \in 1..Len(u)
    OBVIOUS
  <2>2. QED
    BY <2>1, NamesAre DEF NameTo
<1>4. ASSUME u \in {<<"/">>, <<"=">>, <<"<">>, <<">">>, <<"/", "/">>, <<"=", "=">>,
                    <<"<", "=">>, <<">", "=">>, <<"!", "=">>}
      PROVE  /\ Len(u) = 2 /\ u[1] \in OperatorChar
             /\ u[2] = IF u[1] = "/" THEN "/" ELSE "="
  BY <1>4 DEF OperatorChar
<1>5. SUFFICES ASSUME NEW type \in Lexical, InLanguage(type, u) PROVE FALSE
  OBVIOUS
<1>6. CASE IsInteger(u) \/ IsFloat(u)
  BY <1>1, <1>2, <1>6
<1>7. CASE IsName(u)
  BY <1>1, <1>3, <1>7
<1>8. CASE u \in {<<"/">>, <<"=">>, <<"<">>, <<">">>, <<"/", "/">>, <<"=", "=">>,
                 <<"<", "=">>, <<">", "=">>, <<"!", "=">>}
  <2>1. u[1] \notin Digit /\ u[1] \notin Letter /\ Len(u) = 2
    BY <1>1, <1>4, <1>8
  <2>2. u[2] = IF u[1] = "/" THEN "/" ELSE "="
    BY <1>4, <1>8
  <2>3. QED
    BY <2>1, <2>2
<1>9. QED
  BY <1>5, <1>6, <1>7, <1>8, Languages

-----------------------------------------------------------------------------
(* Words while they are read *)

LEMMA MoveWord ==
  ASSUME Inv, Move, WordInv
  PROVE  WordInv'
<1>1. pc = "automaton" /\ pc' = "automaton"
      /\ state \in State /\ lexeme \in Seq(Char) /\ LexemeInv
  BY DEF Move, Inv, TypeOK
<1>2. PICK c \in Readable \ {EOF} :
        /\ Getchar(c, <<>>)
        /\ state' \in Targets(state, c) \cap State
        /\ lexeme' = IF state' = "sStart" THEN <<>> ELSE Append(lexeme, c)
  BY DEF Move
<1>3. c \in Char
  BY <1>2, ReadableType, TypeParts DEF Inv
<1>4. CASE state' \notin Raw
  BY <1>4 DEF WordInv, WordIn, Raw
<1>5. CASE state' \in Raw
  <2>1. WordIn(state, lexeme)
    BY <1>1 DEF WordInv
  <2>2. state' # "sStart"
    BY <1>5 DEF Raw
  <2>3. lexeme' = Append(lexeme, c)
    BY <1>2, <2>2
  <2>4. CASE state = "sStart"
    <3>1. lexeme = <<>>
      BY <1>1, <2>4 DEF LexemeInv
    <3>2. lexeme' = <<c>>
      BY <2>3, <3>1
    <3>3. WordIn(state', <<c>>)
      <4>1. PICK t \in Targets(state, c) \cap State : t = state'
        BY <1>2
      <4>2. ~NumberStep("sStart", c, t)
        BY DEF NumberStep
      <4>3. WordIn(t, <<c>>)
        BY <1>1, <1>5, <2>4, <4>1, <4>2, WordEntry, WordBegins
      <4>4. QED
        BY <4>1, <4>3
    <3>4. QED
      BY <3>2, <3>3 DEF WordInv
  <2>5. CASE NumberStep(state, c, state')
    <3>1. WordIn(state', Append(lexeme, c))
      <4>1. PICK t \in Raw : t = state' /\ NumberStep(state, c, t)
        BY <1>5, <2>5
      <4>2. WordIn(t, Append(lexeme, c))
        BY <1>1, <1>3, <2>1, <4>1, NumberGrows
      <4>3. QED
        BY <4>1, <4>2
    <3>2. QED
      BY <2>3, <3>1 DEF WordInv
  <2>6. CASE /\ state = "sIdentificatorOrKeyWord" /\ state' = state
             /\ c \in Letter \cup Digit
    <3>1. NameTo(lexeme, Len(lexeme))
      BY <2>1, <2>6 DEF WordIn
    <3>2. /\ Len(lexeme) \in Nat /\ Len(lexeme') = Len(lexeme) + 1
          /\ lexeme'[Len(lexeme) + 1] = c /\ \A k \in 1..Len(lexeme) : lexeme'[k] = lexeme[k]
      BY <1>1, <1>3, <2>3, Longer
    <3>3. NameTo(lexeme', Len(lexeme'))
      BY <2>6, <3>1, <3>2 DEF NameTo
    <3>4. QED
      BY <2>6, <3>3 DEF WordInv, WordIn
  <2>7. QED
    BY <1>1, <1>2, <1>5, <2>4, <2>5, <2>6, WordEntry
<1>6. QED
  BY <1>4, <1>5

\* A word is returned when the character that follows does not continue it.
LEMMA EmitWord ==
  ASSUME Inv, Inv', Emit, WordInv
  PROVE  LongestMatch'
<1>1. /\ pc = "automaton" /\ WordIn(state, lexeme) /\ InputType /\ InputInv
      /\ state \in State /\ lexeme \in Seq(Char) /\ stray \in BOOLEAN
      /\ string \in Seq(Char \cup {EOF})
      /\ source' \in Seq(Char) /\ taken' \in Seq(Nat) /\ stdin' \in Seq(Char)
  BY TypeParts DEF Emit, Inv, TypeOK, WordInv
<1>2. PICK c \in Readable : \E type \in Targets(state, c) \ State :
        /\ Getchar(c, IF TakesLast(state, type) THEN <<>> ELSE UngetcChar(c))
        /\ Return(type, Value(state, type, c))
        /\ IF TakesLast(state, type)
           THEN Take /\ lexeme' = Append(lexeme, c)
           ELSE UNCHANGED <<taken, lexeme>>
  BY DEF Emit
<1>3. PICK t \in Targets(state, c) \ State :
        /\ Getchar(c, IF TakesLast(state, t) THEN <<>> ELSE UngetcChar(c))
        /\ Return(t, Value(state, t, c))
        /\ IF TakesLast(state, t)
           THEN Take /\ lexeme' = Append(lexeme, c)
           ELSE UNCHANGED <<taken, lexeme>>
  BY <1>2
<1>4. pc' = "idle" /\ token'.type = t /\ stray' = stray
  BY <1>3 DEF Return, Emit
<1> DEFINE next == Last(taken') + 1
<1>5. SUFFICES ASSUME t \in Lexical
               PROVE  /\ \/ InLanguage(t, lexeme')
                         \/ stray /\ t = "TIDENTIFICATOR" /\ InLanguage("TKEYWORD", lexeme')
                      /\ next <= Len(source') =>
                           \A type \in Lexical :
                             ~InLanguage(type, Append(lexeme', source'[next]))
  BY <1>4 DEF LongestMatch
<1>6. /\ ~stray /\ state \in Raw => string = lexeme
      /\ stray /\ state \in Raw => string # <<"k">>
  <2>1. StringInv /\ StrayInv
    BY DEF Inv
  <2>2. <<"k">> # <<>> /\ <<"k">>[1] = "k"
    OBVIOUS
  <2>3. QED
    BY <1>1, <2>1, <2>2 DEF StringInv, StringIsText, StrayInv
<1>7. ASSUME state # "sStart", UNCHANGED taken PROVE next = Read + 1
  <2>1. lexeme # <<>> /\ taken[At] = Read /\ Len(lexeme) <= At
    BY <1>1, <1>7 DEF Inv, LexemeInv
  <2>2. taken # <<>>
    BY <1>1, <2>1 DEF At
  <2>3. Last(taken) = taken[At]
    BY <2>2 DEF Last, At
  <2>4. QED
    BY <1>7, <2>1, <2>3
<1> HIDE DEF next
<1>8. ASSUME UNCHANGED taken, state # "sStart", Getchar(c, UngetcChar(c)),
              next <= Len(source')
       PROVE  source'[next] = c /\ c \in Char
  BY <1>1, <1>7, <1>8, ReturningChar
<1>9. CASE t \in {"TINT", "TFLOAT", "TKEYWORD", "TIDENTIFICATOR"}
  <2>1. \/ t = "TINT" /\ state \in {"sInteger0", "sInteger"} /\ c \notin Digit
        \/ t = "TFLOAT" /\ state \in {"sFloat", "sExponentNumber"} /\ c \notin Digit
        \/ /\ t = "TKEYWORD" /\ state = "sIdentificatorOrKeyWord" /\ lexeme = <<"k">>
           /\ c \notin Letter \cup Digit
        \/ /\ t = "TIDENTIFICATOR" /\ state = "sIdentificatorOrKeyWord"
           /\ stray \/ lexeme # <<"k">>
           /\ c \notin Letter \cup Digit
    BY <1>1, <1>3, <1>5, <1>6, <1>9, LexicalStep DEF Raw
  <2>2. lexeme' = lexeme /\ Getchar(c, UngetcChar(c)) /\ UNCHANGED taken /\ state # "sStart"
    BY <1>3, <1>9, <2>1 DEF TakesLast, Closed
  <2>3. /\ state \in {"sInteger0", "sInteger"} => IsInteger(lexeme)
        /\ state \in {"sFloat", "sExponentNumber"} => IsFloat(lexeme)
        /\ state = "sIdentificatorOrKeyWord" => IsName(lexeme)
    BY <1>1, WordsBelong
  <2>4. \/ InLanguage(t, lexeme)
        \/ stray /\ t = "TIDENTIFICATOR" /\ InLanguage("TKEYWORD", lexeme)
    BY <2>1, <2>3 DEF InLanguage
  <2>5. ASSUME next <= Len(source')
        PROVE  \A type \in Lexical : ~InLanguage(type, Append(lexeme, source'[next]))
    <3> DEFINE u == Append(lexeme, c)
    <3>1. source'[next] = c /\ c \in Char
      BY <1>8, <2>2, <2>5
    <3>2. /\ Len(lexeme) \in Nat /\ u \in Seq(Char) /\ Len(u) = Len(lexeme) + 1 /\ u[Len(u)] = c
          /\ \A k \in 1..Len(lexeme) : u[k] = lexeme[k]
      BY <1>1, <3>1, Longer
    <3> HIDE DEF u
    <3>3. /\ Len(lexeme) >= 1
          /\ \/ lexeme[1] \in Digit /\ c \notin Digit
             \/ lexeme[1] \in Letter /\ c \notin Letter \cup Digit
      <4>1. IsName(lexeme) => Len(lexeme) >= 1 /\ lexeme[1] \in Letter
        BY <1>1, NamesAre DEF NameTo
      <4>2. QED
        BY <1>1, <2>1, <2>3, <4>1, NumberEnds
    <3>4. \/ u[1] \in Digit /\ u[Len(u)] \notin Digit
          \/ u[1] \in Letter /\ u[Len(u)] \notin Letter \cup Digit
      BY <3>2, <3>3
    <3>5. \A type \in Lexical : ~InLanguage(type, u)
      <4>1. Len(u) >= 2
        BY <3>2, <3>3
      <4>2. QED
        BY <3>2, <3>4, <4>1, NoWord
    <3>6. QED
      BY <3>1, <3>5 DEF u
  <2>6. QED
    BY <2>2, <2>4, <2>5
<1>10. CASE t \in {"TDIV", "TASSIGN", "TLT", "TGT"}
  <2>1. \/ t = "TDIV" /\ state = "sDivOrFloorDiv" /\ c # "/"
        \/ t = "TASSIGN" /\ state = "sAssignOrEqual" /\ c # "="
        \/ t = "TLT" /\ state = "sLtOrLte" /\ c # "="
        \/ t = "TGT" /\ state = "sGtOrGte" /\ c # "="
    BY <1>1, <1>3, <1>5, <1>10, LexicalStep
  <2>2. lexeme' = lexeme /\ Getchar(c, UngetcChar(c)) /\ UNCHANGED taken /\ state # "sStart"
    BY <1>3, <1>10, <2>1 DEF TakesLast, Closed
  <2>3. /\ t = "TDIV" => lexeme = <<"/">> /\ c # "/"
        /\ t = "TASSIGN" => lexeme = <<"=">> /\ c # "="
        /\ t = "TLT" => lexeme = <<"<">> /\ c # "="
        /\ t = "TGT" => lexeme = <<">">> /\ c # "="
    BY <1>1, <2>1 DEF WordIn
  <2>4. InLanguage(t, lexeme)
    BY <1>10, <2>3 DEF InLanguage, Operators
  <2>5. ASSUME next <= Len(source')
        PROVE  \A type \in Lexical : ~InLanguage(type, Append(lexeme, source'[next]))
    <3> DEFINE u == Append(lexeme, c)
    <3>1. source'[next] = c /\ c \in Char
      BY <1>8, <2>2, <2>5
    <3>2. Len(lexeme) = 1 /\ lexeme[1] \in OperatorChar
          /\ (lexeme[1] = "/" => c # "/") /\ (lexeme[1] # "/" => c # "=")
      BY <1>10, <2>3 DEF OperatorChar
    <3>3. /\ u \in Seq(Char) /\ Len(u) = Len(lexeme) + 1 /\ u[Len(lexeme) + 1] = c
          /\ \A k \in 1..Len(lexeme) : u[k] = lexeme[k]
      BY <1>1, <3>1, Longer
    <3> HIDE DEF u
    <3>4. \A type \in Lexical : ~InLanguage(type, u)
      <4>1. Len(u) = 2 /\ u[2] = c /\ u[1] = lexeme[1]
        BY <3>2, <3>3
      <4>2. /\ u[1] \in OperatorChar /\ Len(u) >= 2
            /\ (u[1] = "/" /\ u[2] # "/") \/ (u[1] # "/" /\ u[2] # "=")
        BY <3>2, <4>1
      <4>3. QED
        BY <3>3, <4>2, NoWord
    <3>5. QED
      BY <3>1, <3>4 DEF u
  <2>6. QED
    BY <2>2, <2>4, <2>5
<1>11. CASE t \in {"TFLOORDIV", "TEQ", "TLTE", "TGTE", "TNE"}
  <2>1. \/ t = "TFLOORDIV" /\ state = "sDivOrFloorDiv" /\ c = "/"
        \/ t = "TEQ" /\ state = "sAssignOrEqual" /\ c = "="
        \/ t = "TLTE" /\ state = "sLtOrLte" /\ c = "="
        \/ t = "TGTE" /\ state = "sGtOrGte" /\ c = "="
        \/ t = "TNE" /\ state = "sExclMark" /\ c = "="
    BY <1>1, <1>3, <1>5, <1>11, LexicalStep
  <2>2. lexeme' = Append(lexeme, c)
    BY <1>3, <1>11 DEF TakesLast, Closed
  <2>3. /\ t = "TFLOORDIV" => lexeme = <<"/">>
        /\ t = "TEQ" => lexeme = <<"=">>
        /\ t = "TLTE" => lexeme = <<"<">>
        /\ t = "TGTE" => lexeme = <<">">>
        /\ t = "TNE" => lexeme = <<"!">>
    BY <1>1, <2>1 DEF WordIn
  <2>4. /\ t = "TFLOORDIV" => lexeme' = <<"/", "/">>
        /\ t = "TEQ" => lexeme' = <<"=", "=">>
        /\ t = "TLTE" => lexeme' = <<"<", "=">>
        /\ t = "TGTE" => lexeme' = <<">", "=">>
        /\ t = "TNE" => lexeme' = <<"!", "=">>
    <3>1. \A a, b \in OperatorChar : \A w : w = <<a>> => Append(w, b) = <<a, b>>
      BY Pair
    <3>2. CASE t = "TFLOORDIV"
      BY <2>1, <2>2, <2>3, <3>1, <3>2 DEF OperatorChar
    <3>3. CASE t = "TEQ"
      BY <2>1, <2>2, <2>3, <3>1, <3>3 DEF OperatorChar
    <3>4. CASE t = "TLTE"
      BY <2>1, <2>2, <2>3, <3>1, <3>4 DEF OperatorChar
    <3>5. CASE t = "TGTE"
      BY <2>1, <2>2, <2>3, <3>1, <3>5 DEF OperatorChar
    <3>6. CASE t = "TNE"
      BY <2>1, <2>2, <2>3, <3>1, <3>6 DEF OperatorChar
    <3>7. QED
      BY <1>11, <3>2, <3>3, <3>4, <3>5, <3>6
  <2>5. InLanguage(t, lexeme')
    <3>1. lexeme' = Operators[t]
      BY <1>11, <2>4 DEF Operators
    <3>2. t \notin {"TINT", "TFLOAT", "TKEYWORD", "TIDENTIFICATOR"}
      BY <1>11
    <3>3. QED
      BY <3>1, <3>2 DEF InLanguage
  <2>6. ASSUME next <= Len(source')
        PROVE  \A type \in Lexical : ~InLanguage(type, Append(lexeme', source'[next]))
    <3>1. source'[next] \in Char /\ lexeme' \in Seq(Char)
      <4>1. taken' # <<>> /\ Last(taken') \in Nat
        <5>1. Take
          BY <1>3, <1>11 DEF TakesLast, Closed
        <5>2. taken' = Append(taken, Len(source') - Len(stdin')) /\ taken \in Seq(Nat)
          BY <1>1, <5>1 DEF Take, InputType
        <5>3. Len(taken') \in Nat /\ Len(taken') >= 1
          BY <1>1, <5>2
        <5>4. QED
          BY <1>1, <5>3 DEF Last
      <4>2. next \in 1..Len(source')
        BY <1>1, <2>6, <4>1 DEF next
      <4>3. QED
        BY <1>1, <4>2 DEF Inv, TypeOK
    <3>2. PICK w \in Seq(Char), d \in Char : w = lexeme' /\ d = source'[next]
      BY <3>1
    <3>3. Len(w) = 2 /\ w[1] \in OperatorChar
      <4>1. w \in {<<"/", "/">>, <<"=", "=">>, <<"<", "=">>, <<">", "=">>, <<"!", "=">>}
        BY <1>11, <2>4, <3>2
      <4>2. QED
        BY <4>1 DEF OperatorChar
    <3> DEFINE u == Append(w, d)
    <3>4. /\ u \in Seq(Char) /\ Len(u) = Len(w) + 1
          /\ \A k \in 1..Len(w) : u[k] = w[k]
      BY Longer
    <3> HIDE DEF u
    <3>5. \A type \in Lexical : ~InLanguage(type, u)
      <4>1. Len(u) > 2 /\ u[1] \in OperatorChar
        BY <3>3, <3>4
      <4>2. QED
        BY <3>4, <4>1, NoWord
    <3>6. QED
      BY <3>2, <3>5 DEF u
  <2>7. QED
    BY <2>5, <2>6
<1>12. QED
  BY <1>5, <1>9, <1>10, <1>11 DEF Lexical, Operators

LEMMA WordsNext ==
  ASSUME Inv, Inv', WordInv /\ LongestMatch, [Next]_vars
  PROVE  WordInv' /\ LongestMatch'
<1>1. ASSUME EnterAutomaton PROVE WordInv' /\ LongestMatch'
  BY <1>1 DEF EnterAutomaton, WordInv, WordIn, LongestMatch
<1>2. CASE Call
  <2>1. CASE last_token_type \in LineStart
    BY <1>2, <2>1 DEF Call, WordInv, LongestMatch
  <2>2. CASE last_token_type \notin LineStart
    BY <1>1, <1>2, <2>2 DEF Call
  <2>3. QED
    BY <2>1, <2>2
<1>3. CASE CountBlank
  BY <1>3 DEF CountBlank, WordInv, LongestMatch
<1>4. CASE SameIndent
  BY <1>1, <1>4 DEF SameIndent
<1>5. CASE Indent \/ Dedent
  <2>1. pc' = "idle" /\ token'.type \in {"TINDENT", "TDEDENT", "TLEXERR"}
    BY <1>5 DEF Indent, Dedent, Return
  <2>2. QED
    BY <2>1 DEF WordInv, LongestMatch, Lexical, Operators
<1>6. CASE Move
  BY <1>6, MoveWord DEF Move, LongestMatch
<1>7. CASE Emit
  BY <1>7, EmitWord DEF Emit, Return, WordInv
<1>8. CASE EndOfFile
  <2>1. pc' = "idle" /\ token'.type = "TENDOFFILE"
    BY <1>8 DEF EndOfFile, Return
  <2>2. QED
    BY <2>1 DEF WordInv, LongestMatch, Lexical, Operators
<1>9. CASE Abort
  BY <1>9 DEF Abort, WordInv, LongestMatch
<1>10. CASE UNCHANGED vars
  BY <1>10 DEF vars, inputVars, indentVars, automatonVars, WordInv, LongestMatch
<1>11. QED
  BY <1>2, <1>3, <1>4, <1>5, <1>6, <1>7, <1>8, <1>9, <1>10 DEF Next, GetToken

\* A number, a name or an operator is a word of its language, and the longest one: with
\* the character that follows in the source it is in no language.
THEOREM AlwaysLongestMatch == Spec => []LongestMatch
<1>1. Init => WordInv /\ LongestMatch
  BY DEF Init, WordInv, LongestMatch, Lexical, Operators
<1>2. Inv /\ Inv' /\ (WordInv /\ LongestMatch) /\ [Next]_vars => (WordInv /\ LongestMatch)'
  BY WordsNext
<1>3. QED
  BY <1>1, <1>2, Invariance, PTL DEF Spec
=============================================================================
