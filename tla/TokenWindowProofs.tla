-------------------------- MODULE TokenWindowProofs --------------------------
(***************************************************************************)
(* Lemmas about the token window for every alphabet and every length of    *)
(* the source, on which the proofs about its two clients rest.             *)
(***************************************************************************)
EXTENDS TokenWindow, SequenceTheorems, TLAPS

LEMMA TokenOfType ==
  ASSUME NEW l \in Lexeme \cup {"TENDOFFILE"}, NEW n \in Nat
  PROVE  TokenOf(l, n) \in Token /\ TokenOf(l, n).at = n
BY DEF TokenOf, Token, TokenType, Text, Lexeme, Keyword

\* The scanner's next token is the next of the source, or the end again.
LEMMA GetTokenType ==
  ASSUME NEW p \in Window, NEW t \in get_token(p)
  PROVE  /\ t \in Token
         /\ t.at \in {p.token.at, p.scanned + 1}
<1>1. p.token \in Token /\ p.scanned \in Nat
  BY DEF Window
<1>2. CASE p.token.type = "TENDOFFILE"
  BY <1>1, <1>2 DEF get_token
<1>3. CASE p.token.type # "TENDOFFILE"
  <2>1. PICK l \in Lexeme \cup {"TENDOFFILE"} : t = TokenOf(l, p.scanned + 1)
    BY <1>3, WindowAssumption DEF get_token
  <2>2. p.scanned + 1 \in Nat
    BY <1>1
  <2>3. TokenOf(l, p.scanned + 1) \in Token /\ TokenOf(l, p.scanned + 1).at = p.scanned + 1
    BY <2>2, TokenOfType
  <2>4. QED
    BY <2>1, <2>3
<1>4. QED
  BY <1>2, <1>3

\* parser_next keeps the types of the window, whatever the queue holds.
LEMMA NextWindow ==
  ASSUME NEW p \in Window, NEW q \in parser_next(p)
  PROVE  q \in Window
<1>1. /\ p.token \in Token /\ p.previousToken \in Token
      /\ p.returned_tokens \in Seq(Token) /\ p.scanned \in Nat
  BY DEF Window
<1>2. CASE p.returned_tokens = <<>>
  <2>1. PICK t \in get_token(p) :
          q = [p EXCEPT !.previousToken = p.token, !.token = t, !.scanned = t.at]
    BY <1>2 DEF parser_next
  <2>2. t \in Token /\ t.at \in Nat
    BY GetTokenType DEF Token
  <2>3. QED
    BY <2>1, <2>2, <1>1 DEF Window
<1>3. CASE p.returned_tokens # <<>>
  <2>1. q = [p EXCEPT !.previousToken = p.token,
                      !.token = Head(p.returned_tokens),
                      !.returned_tokens = Tail(@)]
    BY <1>3 DEF parser_next
  <2>2. /\ Head(p.returned_tokens) \in Token
        /\ Tail(p.returned_tokens) \in Seq(Token)
    BY <1>1, <1>3, HeadTailProperties
  <2>3. QED
    BY <2>1, <2>2, <1>1 DEF Window
<1>4. QED
  BY <1>2, <1>3

\* From a window in order, parser_next empties the queue and moves to the same
\* or to the next place of the source.
LEMMA NextInOrder ==
  ASSUME NEW p \in Window, InOrder(p), NEW q \in parser_next(p)
  PROVE  /\ q.token.at = q.scanned
         /\ q.returned_tokens = <<>>
         /\ q.token.at \in {p.token.at, p.token.at + 1}
<1>1. /\ p.token \in Token /\ p.scanned \in Nat
  BY DEF Window
<1>2. CASE p.returned_tokens = <<>>
  <2>1. PICK t \in get_token(p) :
          q = [p EXCEPT !.previousToken = p.token, !.token = t, !.scanned = t.at]
    BY <1>2 DEF parser_next
  <2>2. t \in Token /\ t.at \in {p.token.at, p.scanned + 1}
    BY GetTokenType
  <2>3. q.token = t /\ q.scanned = t.at /\ q.returned_tokens = <<>>
    BY <2>1, <1>2 DEF Window
  <2>4. QED
    BY <2>2, <2>3 DEF InOrder
<1>3. CASE p.returned_tokens # <<>>
  <2>1. p.returned_tokens = <<p.token>>
    BY <1>3 DEF InOrder
  <2>2. q = [p EXCEPT !.previousToken = p.token,
                      !.token = Head(p.returned_tokens),
                      !.returned_tokens = Tail(@)]
    BY <1>3 DEF parser_next
  <2>3. Head(<<p.token>>) = p.token /\ Tail(<<p.token>>) = <<>>
    BY <1>1
  <2>4. q.token = p.token /\ q.scanned = p.scanned /\ q.returned_tokens = <<>>
    BY <2>1, <2>2, <2>3 DEF Window
  <2>5. QED
    BY <2>4 DEF InOrder
<1>4. QED
  BY <1>2, <1>3

\* The token parse_expression returns after reading past the end is the current
\* one, alone in the queue.
LEMMA ReturnBackInOrder ==
  ASSUME NEW p \in Window, p.token.at = p.scanned, p.returned_tokens = <<>>
  PROVE  /\ parser_return_back(p, p.token) \in Window
         /\ InOrder(parser_return_back(p, p.token))
         /\ parser_return_back(p, p.token).token = p.token
<1>1. /\ p.token \in Token /\ p.returned_tokens \in Seq(Token)
  BY DEF Window
<1>2. Append(p.returned_tokens, p.token) = <<p.token>>
  BY <1>1
<1>3. <<p.token>> \in Seq(Token)
  BY <1>1
<1>4. QED
  BY <1>2, <1>3 DEF parser_return_back, Window, InOrder

\* A returned token is delivered before the scanner is asked for another one.
LEMMA NextFromQueue ==
  ASSUME NEW p \in Window, p.returned_tokens = <<p.token>>, NEW q \in parser_next(p)
  PROVE  q.token = p.token /\ q.previousToken = p.token
<1>1. p.token \in Token
  BY DEF Window
<1>2. Head(<<p.token>>) = p.token /\ <<p.token>> # <<>>
  BY <1>1
<1>3. q = [p EXCEPT !.previousToken = p.token,
                    !.token = Head(p.returned_tokens),
                    !.returned_tokens = Tail(@)]
  BY <1>2 DEF parser_next
<1>4. QED
  BY <1>2, <1>3 DEF Window

\* parser_next moves the window by one token, to the next place of the source unless
\* the current token is delivered once more.
LEMMA NextToken ==
  ASSUME NEW p \in Window, InOrder(p), NEW q \in parser_next(p)
  PROVE  /\ q.previousToken = p.token
         /\ q.token = p.token \/ q.token.at = p.token.at + 1
<1>1. CASE p.returned_tokens = <<>>
  <2>1. PICK t \in get_token(p) :
          q = [p EXCEPT !.previousToken = p.token, !.token = t, !.scanned = t.at]
    BY <1>1 DEF parser_next
  <2>2. q.token = t /\ q.previousToken = p.token
    BY <2>1 DEF Window
  <2>3. CASE p.token.type = "TENDOFFILE"
    BY <2>2, <2>3 DEF get_token
  <2>4. CASE p.token.type # "TENDOFFILE"
    <3>1. PICK l \in Lexeme \cup {"TENDOFFILE"} : t = TokenOf(l, p.scanned + 1)
      BY <2>4, WindowAssumption DEF get_token
    <3>2. p.scanned + 1 \in Nat /\ p.scanned = p.token.at
      BY DEF Window, InOrder
    <3>3. t.at = p.token.at + 1
      BY <3>1, <3>2, TokenOfType
    <3>4. QED
      BY <2>2, <3>3
  <2>5. QED
    BY <2>3, <2>4
<1>2. CASE p.returned_tokens # <<>>
  <2>1. p.returned_tokens = <<p.token>>
    BY <1>2 DEF InOrder
  <2>2. QED
    BY <2>1, NextFromQueue
<1>3. QED
  BY <1>1, <1>2
=============================================================================
