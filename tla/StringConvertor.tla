-------------------------- MODULE StringConvertor --------------------------
(***************************************************************************)
(* ifj_string_to_code_string of string_convertor.c: a string literal, as   *)
(* the scanner hands it out, becomes a string of IFJcode19.  First its     *)
(* escapes are replaced (ifj_string_to_string), then the characters that   *)
(* IFJcode19 does not allow.  Characters are ASCII codes.                  *)
(***************************************************************************)
EXTENDS PtrString

Backslash == 92
Hash == 35
Zero == 48

\* "0" to "9", "A" to "F" and "a" to "f".
Hex == 48..57 \cup 65..70 \cup 97..102

\* Where the units of a text start, when one that starts at k has size[k] characters.
Starts(size) ==
    LET last == Len(size)
        start[n \in 1..last + 1] ==
          IF n = 1 THEN 1
          ELSE LET k == start[n - 1] IN IF k > last THEN k ELSE k + size[k]
    IN [n \in {m \in 1..last : start[m] <= last} |-> start[n]]

\* The units of a literal are characters written out and escapes.
UnitSize(w, k) ==
    IF w[k] # Backslash \/ k = Len(w) THEN 1
    ELSE CASE w[k + 1] \in {34, 39, 92, 110, 116} -> 2
           [] w[k + 1] = 120 -> 4
           [] OTHER -> 1

UnitStarts(w) == Starts([k \in 1..Len(w) |-> UnitSize(w, k)])

\* A literal as the states sString and sStringEscape of the scanner accept it: something
\* follows every backslash, two hexadecimal digits follow "\x".
Scanned(w) ==
    \A k \in Range(UnitStarts(w)) :
      w[k] = Backslash =>
        /\ k < Len(w)
        /\ w[k + 1] = 120 => k + 3 <= Len(w) /\ w[k + 2] \in Hex /\ w[k + 3] \in Hex

CONSTANT Literals   \* values of TSTRING

ASSUME LiteralsAssumption == Literals \subseteq {w \in Seq(Char) : Scanned(w)}

VARIABLES
    ifj_string, \* the literal
    pc,         \* "escapes", "codes", "done" or "aborted" by an assertion
    index_start,
    string,     \* result of ifj_string_to_string, as far as it is known
    tmp,        \* the last text between escapes, or NoString
    i,          \* characters already coded
    code        \* string of IFJcode19

vars == <<ifj_string, pc, index_start, string, tmp, i, code>>

NoString == [text |-> <<>>, capacity |-> -1]

\* What a char keeps of an int.
ToChar(n) == IF n > 127 THEN n - 256 ELSE n

\* Of a digit or a letter.
hex_to_decimal(c) ==
    IF c \in 48..57 THEN c - 48 ELSE (IF c \in 97..122 THEN c - 32 ELSE c) - 55

InRange(index) == index < ptr_string_length(ifj_string)
At(index) == ptr_string_get_char(ifj_string, index)

NextEscape == ptr_string_find_char_from_index(ifj_string, Backslash, index_start)

\* special_char: the character for the escape at this place, and the length of it.
special_char(escape) ==
    LET after_escape == At(escape + 1)
    IN CASE after_escape \in {34, 39, 92} -> [char |-> after_escape, read |-> 2]
         [] after_escape = 110 -> [char |-> 10, read |-> 2]
         [] after_escape = 116 -> [char |-> 9, read |-> 2]
         [] after_escape = 120 ->
              [char |-> ToChar(16 * hex_to_decimal(At(escape + 2)) + hex_to_decimal(At(escape + 3))),
               read |-> 4]
         [] OTHER -> [char |-> Backslash, read |-> 1]

\* The assertions of ptr_string_get_char and ptr_string_append.
Asserted(escape) ==
    /\ InRange(escape + 1)
    /\ At(escape + 1) = 120 => InRange(escape + 3)
    /\ special_char(escape).char # 0

\* Among the types: every string lies in its buffer.
TypeOK ==
    /\ ifj_string \in PtrString
    /\ pc \in {"escapes", "codes", "done", "aborted"}
    /\ index_start \in 0..ptr_string_length(ifj_string)
    /\ string \in PtrString
    /\ tmp \in PtrString \cup {NoString}
    /\ i \in 0..ptr_string_length(string)
    /\ code \in PtrString
-----------------------------------------------------------------------------
Init ==
    /\ \E literal \in Literals : ifj_string = ptr_string(literal)
    /\ pc = "escapes"
    /\ index_start = 0
    /\ string = ptr_string_new
    /\ tmp = NoString
    /\ i = 0
    /\ code = ptr_string_new

\* The text before the next escape, if there is any.
Escape ==
    /\ pc = "escapes"
    /\ NextEscape # -1
    /\ Asserted(NextEscape)
    /\ LET text == ptr_string_substring(ifj_string, index_start, NextEscape)
           special == special_char(NextEscape)
       IN IF index_start # NextEscape
          THEN /\ tmp' = text
               /\ string' = ptr_string_append(ptr_string_concat(string, text), special.char)
          ELSE /\ string' = ptr_string_append(string, special.char)
               /\ UNCHANGED tmp
    /\ index_start' = NextEscape + special_char(NextEscape).read
    /\ UNCHANGED <<ifj_string, pc, i, code>>

Abort ==
    /\ pc = "escapes"
    /\ NextEscape # -1
    /\ ~Asserted(NextEscape)
    /\ pc' = "aborted"
    /\ UNCHANGED <<ifj_string, index_start, string, tmp, i, code>>

\* Mutant of Rest: the text after the last escape is forgotten.
Rest_NoText ==
    /\ pc = "escapes"
    /\ NextEscape = -1
    /\ string' = IF tmp = NoString THEN ptr_string_clone(ifj_string) ELSE string
    /\ pc' = "codes"
    /\ code' = ptr_string_new
    /\ UNCHANGED <<ifj_string, index_start, tmp, i>>

\* No more escapes: the rest is text.  Without text between escapes the literal is
\* taken as it is.
Rest ==
    /\ pc = "escapes"
    /\ NextEscape = -1
    /\ string' =
         IF tmp = NoString THEN ptr_string_clone(ifj_string)
         ELSE IF index_start # ptr_string_length(ifj_string)
         THEN ptr_string_concat(string,
                ptr_string_substring(ifj_string, index_start, ptr_string_length(ifj_string)))
         ELSE string
    /\ pc' = "codes"
    /\ code' = ptr_string_new
    /\ UNCHANGED <<ifj_string, index_start, tmp, i>>

\* sprintf("%d") of at most two digits.
Decimal(c) == IF c < 10 THEN <<Zero + c>> ELSE <<Zero + (c \div 10), Zero + (c % 10)>>

\* Mutant of char_code: two zeros before every number.
char_code_TwoZeros(c) ==
    IF c = Hash THEN ptr_string(<<Backslash, Zero, 51, 53>>)
    ELSE IF c = Backslash THEN ptr_string(<<Backslash, Zero, 57, 50>>)
    ELSE ptr_string_insert(ptr_string(Decimal(c)), ptr_string(<<Backslash, Zero, Zero>>))

\* A backslash and three digits.
char_code(c) ==
    IF c = Hash THEN ptr_string(<<Backslash, Zero, 51, 53>>)
    ELSE IF c = Backslash THEN ptr_string(<<Backslash, Zero, 57, 50>>)
    ELSE ptr_string_insert(ptr_string(Decimal(c)),
           ptr_string(IF c < 10 THEN <<Backslash, Zero, Zero>> ELSE <<Backslash, Zero>>))

Encode ==
    /\ pc = "codes"
    /\ i < ptr_string_length(string)
    /\ LET c == ptr_string_get_char(string, i)
       IN code' = IF c \in {Hash, Backslash} \cup 0..32
                  THEN ptr_string_concat(code, char_code(c))
                  ELSE ptr_string_append(code, c)
    /\ i' = i + 1
    /\ UNCHANGED <<ifj_string, pc, index_start, string, tmp>>

Return ==
    /\ pc = "codes"
    /\ i = ptr_string_length(string)
    /\ pc' = "done"
    /\ UNCHANGED <<ifj_string, index_start, string, tmp, i, code>>

Next == Escape \/ Abort \/ Rest \/ Encode \/ Return

Spec == Init /\ [][Next]_vars
-----------------------------------------------------------------------------
(* Properties                                                              *)

\* The number a hexadecimal digit stands for.
Value(h) == CHOOSE n \in 0..15 : IF n < 10 THEN h = Zero + n ELSE h \in {55 + n, 87 + n}

\* What the unit at a place means.  A backslash before a character that makes no escape
\* stands for itself.
UnitChar(w, k) ==
    IF w[k] # Backslash THEN w[k]
    ELSE CASE w[k + 1] \in {34, 39, 92} -> w[k + 1]
           [] w[k + 1] = 110 -> 10
           [] w[k + 1] = 116 -> 9
           [] w[k + 1] = 120 -> ToChar(16 * Value(w[k + 2]) + Value(w[k + 3]))
           [] OTHER -> Backslash

Meaning(w) == LET start == UnitStarts(w) IN [n \in DOMAIN start |-> UnitChar(w, start[n])]

Escapes(w) == LET start == UnitStarts(w) IN {n \in DOMAIN start : w[start[n]] = Backslash}

\* Some escape follows a written character.
TextBeforeEscape(w) == \E k \in Escapes(w) : k > 1 /\ k - 1 \notin Escapes(w)

Converted == pc \in {"codes", "done"}

\* A literal with text before some escape, or with no escape, gets its meaning: the
\* loop over the escapes loses and repeats no character between them.  The only literal
\* that breaks an assertion of ptr_string.c has the escape of the character 0.
ConvertsAfterText ==
    LET w == ifj_string.text
    IN /\ Converted /\ (Escapes(w) = {} \/ TextBeforeEscape(w)) => string.text = Meaning(w)
       /\ pc = "aborted" => \E k \in Escapes(w) : Meaning(w)[k] = 0

\* What a reader of IFJcode19 makes of a string: a backslash and three digits are one
\* character.
CodeStarts(w) == Starts([k \in 1..Len(w) |-> IF w[k] = Backslash THEN 4 ELSE 1])

CodeChar(w, k) ==
    IF w[k] # Backslash THEN w[k]
    ELSE 100 * (w[k + 1] - Zero) + 10 * (w[k + 2] - Zero) + (w[k + 3] - Zero)

Decoded(w) == LET start == CodeStarts(w) IN [n \in DOMAIN start |-> CodeChar(w, start[n])]

\* The code has no character IFJcode19 does not allow, and denotes the string.
CodeDenotesString ==
    pc = "done" =>
      /\ Decoded(code.text) = string.text
      /\ Range(code.text) \cap ({Hash} \cup 0..32) = {}

\* "@return string without special characters" (string_convertor.c:83): every literal
\* gets its meaning.
EscapesConverted == Converted => string.text = Meaning(ifj_string.text)
=============================================================================
