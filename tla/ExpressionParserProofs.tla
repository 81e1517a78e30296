----------------------- MODULE ExpressionParserProofs -----------------------
(***************************************************************************)
(* Theorems about ExpressionParser for every alphabet and every length of  *)
(* the source: type correctness, the shape of the precedence stack, the    *)
(* order in which pushed back tokens reach the parser, that no token is    *)
(* lost, and that the queue is the postfix of what was read.               *)
(***************************************************************************)
EXTENDS MCExpressionParser, TokenWindowProofs, FiniteSetTheorems,
        WellFoundedInduction

\* Every token has a row and a column in the table.
LEMMA ElementType == ASSUME NEW t PROVE Element(t) \in Elements
BY DEF Element, token_to_precedent_elem, Elements

\* The facts about precedent_table the stack depends on: the bottom is never
\* reduced, ")" is only pushed on "(", and the end marker is never pushed.
LEMMA TableFacts ==
  ASSUME NEW a \in Elements
  PROVE  /\ precedent_table["Pend"][a] # ">"
         /\ precedent_table[a]["Prp"] \in {"<", "="} => a = "Plp"
         /\ precedent_table[a]["Pend"] \notin {"<", "="}
BY DEF Elements, precedent_table, Row, err

LEMMA EndOfStackType ==
  /\ EndOfStack \in Token
  /\ Element(EndOfStack) = "Pend"
BY DEF EndOfStack, Token, TokenType, Text, Element, token_to_precedent_elem

-----------------------------------------------------------------------------
(* The precedence stack *)

LEMMA FrontLinked ==
  ASSUME NEW s \in Seq(Token), Linked(s), Len(s) > 1
  PROVE  /\ Front(s) \in Seq(Token)
         /\ Linked(Front(s))
         /\ Len(Front(s)) = Len(s) - 1
         /\ Last(Front(s)) = s[Len(s) - 1]
<1>1. Len(s) \in Nat /\ \A i \in 1..Len(s) : s[i] \in Token
  BY ElementOfSeq, LenProperties
<1>2. /\ SubSeq(s, 1, Len(s) - 1) \in Seq(Token)
      /\ Len(SubSeq(s, 1, Len(s) - 1)) = Len(s) - 1
      /\ \A i \in 1..(Len(s) - 1) : SubSeq(s, 1, Len(s) - 1)[i] = s[i]
  <2>1. \A i \in 1..(Len(s) - 1) : s[i] \in Token
    BY <1>1
  <2>2. Len(s) - 1 \in Int /\ 1 <= Len(s) - 1
    BY <1>1
  <2>3. QED
    BY <2>1, <2>2, SubSeqProperties
<1>3. /\ Front(s) \in Seq(Token) /\ Len(Front(s)) = Len(s) - 1
      /\ \A i \in 1..(Len(s) - 1) : Front(s)[i] = s[i]
  BY <1>2 DEF Front
<1>4. Front(s) # <<>> /\ Front(s)[1] = EndOfStack
  BY <1>1, <1>3, EmptySeq DEF Linked
<1>5. ASSUME NEW i \in 1..(Len(Front(s)) - 1)
      PROVE  precedent_table[Element(Front(s)[i])][Element(Front(s)[i + 1])]
               \in {"<", "="}
  <2>1. i \in 1..(Len(s) - 1) /\ i + 1 \in 1..(Len(s) - 1)
    BY <1>1, <1>3
  <2>2. Front(s)[i] = s[i] /\ Front(s)[i + 1] = s[i + 1]
    BY <2>1, <1>3
  <2>3. QED
    BY <2>1, <2>2 DEF Linked
<1>6. Last(Front(s)) = s[Len(s) - 1]
  BY <1>1, <1>3 DEF Last
<1>7. QED
  BY <1>3, <1>4, <1>5, <1>6 DEF Linked

\* A reduction pops one token, or a ")" with its "(", and never the bottom.
LEMMA PoppedLinked ==
  ASSUME NEW s \in Seq(Token), Linked(s), Element(Last(s)) # "Pend"
  PROVE  /\ Popped(s) \in Seq(Token)
         /\ Linked(Popped(s))
<1>1. Len(s) \in Nat /\ Len(s) >= 1
  BY LenProperties, EmptySeq DEF Linked
<1>2. Len(s) > 1
  BY <1>1, EndOfStackType DEF Linked, Last
<1>3. /\ Front(s) \in Seq(Token) /\ Linked(Front(s))
      /\ Len(Front(s)) = Len(s) - 1 /\ Last(Front(s)) = s[Len(s) - 1]
  BY <1>2, FrontLinked
<1>4. CASE Element(Last(s)) = "Prp" /\ Element(Last(Front(s))) = "Plp"
  <2>1. Len(Front(s)) > 1
    <3>1. Front(s)[1] = EndOfStack
      BY <1>3 DEF Linked
    <3>2. Len(Front(s)) # 1
      BY <3>1, <1>4, EndOfStackType DEF Last
    <3>3. QED
      BY <3>2, <1>2, <1>3, <1>1
  <2>2. Front(Front(s)) \in Seq(Token) /\ Linked(Front(Front(s)))
    BY <1>3, <2>1, FrontLinked
  <2>3. QED
    BY <1>4, <2>2 DEF Popped
<1>5. CASE ~(Element(Last(s)) = "Prp" /\ Element(Last(Front(s))) = "Plp")
  BY <1>5, <1>3 DEF Popped
<1>6. QED
  BY <1>4, <1>5

LEMMA PushedLinked ==
  ASSUME NEW s \in Seq(Token), Linked(s), NEW t \in Token,
         precedent_table[Element(Last(s))][Element(t)] \in {"<", "="}
  PROVE  /\ Append(s, t) \in Seq(Token)
         /\ Linked(Append(s, t))
<1>1. /\ Append(s, t) \in Seq(Token) /\ Append(s, t) # <<>>
      /\ Len(Append(s, t)) = Len(s) + 1
      /\ \A i \in 1..Len(s) : Append(s, t)[i] = s[i]
      /\ Append(s, t)[Len(s) + 1] = t
  BY AppendProperties
<1>2. Len(s) \in Nat /\ Len(s) >= 1
  BY LenProperties, EmptySeq DEF Linked
<1>3. ASSUME NEW i \in 1..(Len(Append(s, t)) - 1)
      PROVE  precedent_table[Element(Append(s, t)[i])]
                            [Element(Append(s, t)[i + 1])] \in {"<", "="}
  <2>1. CASE i = Len(s)
    <3>1. Append(s, t)[i] = Last(s) /\ Append(s, t)[i + 1] = t
      BY <2>1, <1>1, <1>2 DEF Last
    <3>2. QED
      BY <3>1
  <2>2. CASE i # Len(s)
    <3>1. i \in 1..(Len(s) - 1)
      BY <2>2, <1>1, <1>2
    <3>2. Append(s, t)[i] = s[i] /\ Append(s, t)[i + 1] = s[i + 1]
      BY <3>1, <1>1, <1>2
    <3>3. QED
      BY <3>1, <3>2 DEF Linked
  <2>3. QED
    BY <2>1, <2>2
<1>4. Append(s, t)[1] = EndOfStack
  BY <1>1, <1>2 DEF Linked
<1>5. QED
  BY <1>1, <1>3, <1>4 DEF Linked
-----------------------------------------------------------------------------
(* The invariant *)

Inv == TypeOK /\ StackLinked /\ WindowInOrder

LEMMA InitInv == Init => Inv
<1> SUFFICES ASSUME Init PROVE Inv
  OBVIOUS
<1>1. PICK l \in Lexeme \cup {"TENDOFFILE"}, g \in Garbage :
        parser = [token |-> TokenOf(l, 1), previousToken |-> g,
                  returned_tokens |-> <<>>, scanned |-> 1]
  BY WindowAssumption DEF Init, parser_init
<1>2. TokenOf(l, 1) \in Token /\ TokenOf(l, 1).at = 1
  BY TokenOfType
<1>3. g \in Token
  BY DEF Garbage, Token, TokenType, Text
<1>4. <<>> \in Seq(Token)
  BY EmptySeq
<1>5. parser \in Window /\ WindowInOrder
  BY <1>1, <1>2, <1>3, <1>4 DEF Window, WindowInOrder, InOrder
<1>6. QED
  BY <1>4, <1>5 DEF Init, ExpressionInit, Inv, TypeOK, StackLinked, Results

LEMMA BeginInv == Inv /\ BeginExpression => Inv'
<1> SUFFICES ASSUME Inv, BeginExpression PROVE Inv'
  OBVIOUS
<1>1. <<EndOfStack>> \in Seq(Token) /\ <<>> \in Seq(Token)
  BY EndOfStackType, EmptySeq
<1>2. Linked(<<EndOfStack>>)
  BY DEF Linked
<1>3. QED
  BY <1>1, <1>2
  DEF Inv, BeginExpression, TypeOK, StackLinked, WindowInOrder, Results

LEMMA ReduceInv == Inv /\ Reduce => Inv'
<1> SUFFICES ASSUME Inv, Reduce PROVE Inv'
  OBVIOUS
<1> DEFINE top == Last(expression_stack)
<1>1. expression_stack \in Seq(Token) /\ Linked(expression_stack)
  BY DEF Inv, TypeOK, StackLinked, Reduce, Analyse
<1>2. top \in Token
  <2>1. Len(expression_stack) \in 1..Len(expression_stack)
    BY <1>1, EmptySeq DEF Linked
  <2>2. QED
    BY <1>1, <2>1, ElementOfSeq DEF Last
<1>3. Element(top) # "Pend"
  BY TableFacts, ElementType DEF Reduce, Analyse, Operation
<1>4. Popped(expression_stack) \in Seq(Token) /\ Linked(Popped(expression_stack))
  BY <1>1, <1>3, PoppedLinked
<1>5. Append(postfix, top) \in Seq(Token)
  BY <1>2, AppendProperties DEF Inv, TypeOK
<1>6. postfix' \in Seq(Token)
  BY <1>5 DEF Reduce, Inv, TypeOK
<1>7. QED
  BY <1>4, <1>6 DEF Reduce, Inv, TypeOK, StackLinked, WindowInOrder

LEMMA ShiftInv == Inv /\ Shift => Inv'
<1> SUFFICES ASSUME Inv, Shift PROVE Inv'
  OBVIOUS
<1>1. /\ expression_stack \in Seq(Token) /\ Linked(expression_stack)
      /\ consumed \in Seq(Token) /\ parser \in Window /\ InOrder(parser)
      /\ parser.token \in Token
  BY DEF Inv, TypeOK, StackLinked, WindowInOrder, Window, Shift, Analyse
<1>2. precedent_table[Element(Last(expression_stack))][Element(parser.token)]
        \in {"<", "="}
  BY DEF Shift, Analyse, Operation
<1>3. /\ Append(expression_stack, parser.token) \in Seq(Token)
      /\ Linked(Append(expression_stack, parser.token))
  BY <1>1, <1>2, PushedLinked
<1>4. Append(consumed, parser.token) \in Seq(Token)
  BY <1>1, AppendProperties
<1>5. parser' \in Window /\ InOrder(parser')
  BY <1>1, NextWindow, NextInOrder DEF Shift, InOrder
<1>6. QED
  BY <1>3, <1>4, <1>5 DEF Shift, Inv, TypeOK, StackLinked, WindowInOrder

LEMMA RejectInv == Inv /\ Reject => Inv'
<1> SUFFICES ASSUME Inv, Reject PROVE Inv'
  OBVIOUS
<1>1. <<>> \in Seq(Token)
  BY EmptySeq
<1>2. QED
  BY <1>1 DEF Reject, Return, Inv, TypeOK, StackLinked, WindowInOrder, Results

LEMMA FinishInv == Inv /\ Finish => Inv'
<1> SUFFICES ASSUME Inv, Finish PROVE Inv'
  OBVIOUS
<1>1. parser \in Window /\ InOrder(parser) /\ postfix \in Seq(Token)
  BY DEF Inv, TypeOK, WindowInOrder
<1>2. PICK p \in parser_next(parser) :
        /\ parser' = parser_return_back(p, p.token)
        /\ Return(Outcome(p))
  BY DEF Finish
<1>3. p \in Window /\ p.token.at = p.scanned /\ p.returned_tokens = <<>>
  BY <1>1, NextWindow, NextInOrder
<1>4. parser' \in Window /\ InOrder(parser')
  BY <1>2, <1>3, ReturnBackInOrder
<1>5. Outcome(p) \in Results
  BY DEF Outcome, Results
<1>6. <<>> \in Seq(Token)
  BY EmptySeq
<1>7. QED
  BY <1>1, <1>2, <1>4, <1>5, <1>6
  DEF Return, Inv, TypeOK, StackLinked, WindowInOrder

LEMMA CallerInv == Inv /\ CallerNext => Inv'
<1> SUFFICES ASSUME Inv, CallerNext PROVE Inv'
  OBVIOUS
<1>1. parser' \in Window /\ InOrder(parser')
  BY NextWindow, NextInOrder
  DEF Inv, TypeOK, WindowInOrder, InOrder, CallerNext
<1>2. QED
  BY <1>1
  DEF CallerNext, expressionVars, Inv, TypeOK, StackLinked, WindowInOrder

LEMMA PeekInv == Inv /\ CallerPeek => Inv' /\ parser'.token.at = parser.token.at
<1> SUFFICES ASSUME Inv, CallerPeek
             PROVE  Inv' /\ parser'.token.at = parser.token.at
  OBVIOUS
<1>1. /\ parser \in Window /\ InOrder(parser) /\ parser.token \in Token
      /\ parser.returned_tokens = <<parser.token>>
  BY DEF Inv, TypeOK, WindowInOrder, InOrder, Window, CallerPeek
<1>2. PICK p \in parser_next(parser) :
        parser' = parser_return_back(p, p.previousToken)
  BY DEF CallerPeek
<1>3. p \in Window /\ p.token.at = p.scanned /\ p.returned_tokens = <<>>
  BY <1>1, NextWindow, NextInOrder
<1>4. p.token = parser.token /\ p.previousToken = parser.token
  <2>1. Head(<<parser.token>>) = parser.token /\ <<parser.token>> # <<>>
    BY <1>1
  <2>2. p = [parser EXCEPT !.previousToken = parser.token,
                           !.token = Head(parser.returned_tokens),
                           !.returned_tokens = Tail(@)]
    BY <1>1, <2>1 DEF parser_next
  <2>3. p.token = Head(parser.returned_tokens) /\ p.previousToken = parser.token
    BY <1>1, <2>2 DEF Window
  <2>4. QED
    BY <1>1, <2>1, <2>3
<1>5. /\ parser' \in Window /\ InOrder(parser')
      /\ parser'.token = parser.token
  BY <1>2, <1>3, <1>4, ReturnBackInOrder
<1>6. QED
  BY <1>5
  DEF CallerPeek, expressionVars, Inv, TypeOK, StackLinked, WindowInOrder

LEMMA StutterInv == Inv /\ UNCHANGED vars => Inv'
BY DEF vars, expressionVars, Inv, TypeOK, StackLinked, WindowInOrder

LEMMA NextInv == Inv /\ [Next]_vars => Inv'
BY BeginInv, ReduceInv, ShiftInv, RejectInv, FinishInv, CallerInv,
   PeekInv, StutterInv
DEF Next, ExpressionStep

-----------------------------------------------------------------------------
(* The theorems *)

\* The invariant is inductive; it needs the window in order for the queue, and
\* the links of the stack for every pop.
THEOREM Invariance == Safety => []Inv
BY InitInv, NextInv, PTL DEF Safety

\* Every variable keeps its type: no reduction takes a token from an empty
\* stack, no window holds anything but tokens.
THEOREM TypeCorrect == Spec => []TypeOK
<1>1. Inv => TypeOK
  BY DEF Inv
<1>2. QED
  BY <1>1, Invariance, PTL DEF Spec

\* For every source, precedent_analyze never pops the bottom of its stack and
\* a ")" on the stack always lies on the "(" it closes.
THEOREM StackSafe == Spec => []StackLinked
<1>1. Inv => StackLinked
  BY DEF Inv
<1>2. QED
  BY <1>1, Invariance, PTL DEF Spec

\* The queue of returned tokens is bounded by one and agrees with the window.
THEOREM QueueBounded == Spec => []WindowInOrder
<1>1. Inv => WindowInOrder
  BY DEF Inv
<1>2. QED
  BY <1>1, Invariance, PTL DEF Spec

\* A step from the invariant moves the current token at most one place on.
LEMMA StepInOrder ==
  Inv /\ [Next]_vars =>
      parser'.token.at \in {parser.token.at, parser.token.at + 1}
<1> SUFFICES ASSUME Inv, [Next]_vars
             PROVE  parser'.token.at \in {parser.token.at, parser.token.at + 1}
  OBVIOUS
<1>1. parser \in Window /\ InOrder(parser)
  BY DEF Inv, TypeOK, WindowInOrder
<1>2. CASE parser' = parser
  BY <1>2
<1>3. CASE parser' \in parser_next(parser)
  BY <1>1, <1>3, NextInOrder
<1>4. CASE Finish
  <2>1. PICK p \in parser_next(parser) : parser' = parser_return_back(p, p.token)
    BY <1>4 DEF Finish
  <2>2. /\ p \in Window /\ p.token.at = p.scanned /\ p.returned_tokens = <<>>
        /\ p.token.at \in {parser.token.at, parser.token.at + 1}
    BY <1>1, NextWindow, NextInOrder
  <2>3. parser'.token = p.token
    BY <2>1, <2>2, ReturnBackInOrder
  <2>4. QED
    BY <2>2, <2>3
<1>5. CASE CallerPeek
  BY <1>5, PeekInv
<1>6. QED
  BY <1>2, <1>3, <1>4, <1>5
  DEF Next, ExpressionStep, BeginExpression, Reduce, Shift, Reject, CallerNext, vars

\* Tokens reach parse_expression and its caller in source order, for every
\* source and every sequence of their calls.
THEOREM InOrderDelivery == Spec => DeliveredInOrder
<1>1. Inv /\ [Next]_vars =>
        [parser'.token.at \in {parser.token.at, parser.token.at + 1}]_vars
  BY StepInOrder
<1>2. QED
  BY <1>1, Invariance, PTL DEF Spec, Safety, DeliveredInOrder
-----------------------------------------------------------------------------
(* Ownership: how often a token occurs in the stack and in the queue *)

LEMMA CopiesAppend ==
  ASSUME NEW s \in Seq(Token), NEW x \in Token, NEW t \in Token
  PROVE  /\ Copies(s, t) \in Nat
         /\ x = t => Copies(Append(s, x), t) = Copies(s, t) + 1
         /\ x # t => Copies(Append(s, x), t) = Copies(s, t)
<1> DEFINE at == {i \in DOMAIN s : s[i] = t}
           ax == {i \in DOMAIN Append(s, x) : Append(s, x)[i] = t}
           n == Len(s)
<1>1. n \in Nat /\ DOMAIN s = 1..n
  BY LenProperties
<1>2. /\ DOMAIN Append(s, x) = 1..(n + 1)
      /\ \A i \in 1..n : Append(s, x)[i] = s[i]
      /\ Append(s, x)[n + 1] = x
  <2>1. Append(s, x) \in Seq(Token) /\ Len(Append(s, x)) = n + 1
    BY AppendProperties
  <2>2. QED
    BY <2>1, AppendProperties, LenProperties
<1>3. IsFiniteSet(at) /\ Cardinality(at) \in Nat
  <2>1. IsFiniteSet(1..n)
    BY <1>1, FS_Interval
  <2>2. at \in SUBSET (1..n)
    BY <1>1
  <2>3. QED
    BY <2>1, <2>2, FS_Subset, FS_CardinalityType
<1>4. CASE x = t
  <2>1. ax = at \cup {n + 1} /\ n + 1 \notin at
    BY <1>1, <1>2, <1>4
  <2>2. QED
    BY <2>1, <1>3, <1>4, FS_AddElement DEF Copies
<1>5. CASE x # t
  <2>1. ax = at
    BY <1>1, <1>2, <1>5
  <2>2. Copies(s, t) = Cardinality(at) /\ Copies(Append(s, x), t) = Cardinality(ax)
    BY DEF Copies
  <2>3. QED
    BY <2>1, <2>2, <1>3, <1>5
<1>6. QED
  BY <1>4, <1>5

\* A sequence is its front with its last element.
LEMMA FrontLast ==
  ASSUME NEW s \in Seq(Token), s # <<>>
  PROVE  /\ Front(s) \in Seq(Token)
         /\ Last(s) \in Token
         /\ s = Append(Front(s), Last(s))
<1>1. PICK u \in Seq(Token), x \in Token : s = Append(u, x)
  BY SequenceEmptyOrAppend
<1>2. /\ Len(s) = Len(u) + 1 /\ Len(u) \in Nat
      /\ \A i \in 1..Len(u) : s[i] = u[i] /\ u[i] \in Token
      /\ s[Len(u) + 1] = x
  BY <1>1, AppendProperties, LenProperties, ElementOfSeq
<1>3. Last(s) = x
  BY <1>2 DEF Last
<1>4. /\ Front(s) \in Seq(Token) /\ Len(Front(s)) = Len(u)
      /\ \A i \in 1..Len(u) : Front(s)[i] = s[i]
  <2>1. Front(s) = SubSeq(s, 1, Len(u))
    BY <1>2 DEF Front
  <2>2. \A i \in 1..Len(u) : s[i] \in Token
    BY <1>2
  <2>3. QED
    BY <1>2, <2>1, <2>2, SubSeqProperties
<1>5. Front(s) = u
  BY <1>2, <1>4, SeqEqual
<1>6. QED
  BY <1>1, <1>3, <1>4, <1>5

\* What leaves the stack in a reduction: the top, and below a ")" its "(".
LEMMA PoppedCopies ==
  ASSUME NEW s \in Seq(Token), Linked(s), Element(Last(s)) # "Pend",
         NEW t \in Token, ~Parenthesis(t)
  PROVE  /\ Copies(Tail(Popped(s)), t) \in Nat
         /\ Last(s) = t => Copies(Tail(s), t) = Copies(Tail(Popped(s)), t) + 1
         /\ Last(s) # t => Copies(Tail(s), t) = Copies(Tail(Popped(s)), t)
<1>1. Len(s) \in Nat /\ s # <<>> /\ Len(s) # 1
  BY LenProperties, EndOfStackType DEF Linked, Last
<1>2. /\ Front(s) \in Seq(Token) /\ Last(s) \in Token
      /\ s = Append(Front(s), Last(s))
  BY <1>1, FrontLast
<1>3. Front(s) # <<>>
  BY <1>1, <1>2, AppendProperties, EmptySeq
<1>4. /\ Tail(Front(s)) \in Seq(Token)
      /\ Tail(s) = Append(Tail(Front(s)), Last(s))
  <2>1. Tail(Front(s)) \in Seq(Token)
    BY <1>2, <1>3, HeadTailProperties
  <2>2. Tail(Append(Front(s), Last(s))) = Append(Tail(Front(s)), Last(s))
    BY <1>2, <1>3, HeadTailAppend
  <2>3. QED
    BY <1>2, <2>1, <2>2
<1>5. /\ Copies(Tail(Front(s)), t) \in Nat
      /\ Last(s) = t => Copies(Tail(s), t) = Copies(Tail(Front(s)), t) + 1
      /\ Last(s) # t => Copies(Tail(s), t) = Copies(Tail(Front(s)), t)
  <2> DEFINE u == Tail(Front(s))
             y == Last(s)
  <2>1. u \in Seq(Token) /\ y \in Token
    BY <1>2, <1>4
  <2> HIDE DEF u, y
  <2>2. /\ Copies(u, t) \in Nat
        /\ y = t => Copies(Append(u, y), t) = Copies(u, t) + 1
        /\ y # t => Copies(Append(u, y), t) = Copies(u, t)
    BY <2>1, CopiesAppend
  <2>3. QED
    BY <1>4, <2>2 DEF u, y
<1>6. CASE Element(Last(s)) = "Prp" /\ Element(Last(Front(s))) = "Plp"
  <2> DEFINE u == Front(s)
  <2>1. /\ Front(u) \in Seq(Token) /\ Last(u) \in Token
        /\ u = Append(Front(u), Last(u))
    BY <1>2, <1>3, FrontLast
  <2>2. Front(u) # <<>>
    <3> SUFFICES ASSUME Front(u) = <<>> PROVE FALSE
      OBVIOUS
    <3>1. Len(u) = 1
      BY <2>1, AppendProperties, EmptySeq
    <3>2. u[1] = s[1]
      BY <3>1, <1>2, AppendProperties
    <3>3. QED
      BY <3>1, <3>2, <1>6, EndOfStackType DEF Linked, Last
  <2>3. /\ Tail(Front(u)) \in Seq(Token)
        /\ Tail(u) = Append(Tail(Front(u)), Last(u))
    <3>1. Tail(Front(u)) \in Seq(Token)
      BY <2>1, <2>2, HeadTailProperties
    <3>2. Tail(Append(Front(u), Last(u))) = Append(Tail(Front(u)), Last(u))
      BY <2>1, <2>2, HeadTailAppend
    <3>3. QED
      BY <2>1, <3>1, <3>2
  <2>4. Last(u) # t
    BY <1>6 DEF Parenthesis
  <2>5. /\ Copies(Tail(Front(u)), t) \in Nat
        /\ Copies(Tail(u), t) = Copies(Tail(Front(u)), t)
    <3> DEFINE v == Tail(Front(u))
               y == Last(u)
    <3>1. v \in Seq(Token) /\ y \in Token /\ y # t
      BY <2>1, <2>3, <2>4
    <3> HIDE DEF v, y
    <3>2. Copies(v, t) \in Nat /\ Copies(Append(v, y), t) = Copies(v, t)
      BY <3>1, CopiesAppend
    <3>3. QED
      BY <2>3, <3>2 DEF v, y
  <2>6. Popped(s) = Front(u)
    BY <1>6 DEF Popped
  <2>7. QED
    BY <1>5, <2>5, <2>6
<1>7. CASE ~(Element(Last(s)) = "Prp" /\ Element(Last(Front(s))) = "Plp")
  <2>1. Popped(s) = Front(s)
    BY <1>7 DEF Popped
  <2>2. QED
    BY <1>5, <2>1
<1>8. QED
  BY <1>6, <1>7

\* The balance for every token there is, not only for those in hand.
Owned ==
    analysing =>
      /\ \A t \in Range(postfix) : ~Parenthesis(t)
      /\ \A t \in Token :
            ~Parenthesis(t) =>
              Copies(postfix, t) + Copies(Tail(expression_stack), t)
                = Copies(consumed, t)

LEMMA OwnedImplies == Inv /\ Owned => Ownership
<1> SUFFICES ASSUME Inv, Owned, analysing PROVE Ownership
  BY DEF Ownership
<1>1. /\ postfix \in Seq(Token) /\ consumed \in Seq(Token)
      /\ expression_stack \in Seq(Token) /\ expression_stack # <<>>
  BY DEF Inv, TypeOK, StackLinked, Linked
<1>2. Tail(expression_stack) \in Seq(Token)
  BY <1>1, HeadTailProperties
<1>3. \A t \in Range(postfix) \cup Range(Tail(expression_stack)) \cup Range(consumed) :
        t \in Token
  BY <1>1, <1>2, RangeOfSeq
<1>4. QED
  BY <1>3 DEF Ownership, Owned

LEMMA CopiesEmpty == ASSUME NEW t PROVE Copies(<<>>, t) = 0
<1>1. {i \in DOMAIN <<>> : <<>>[i] = t} = {}
  OBVIOUS
<1>2. QED
  BY <1>1, FS_EmptySet DEF Copies

LEMMA BeginOwned == Inv /\ BeginExpression => Owned'
<1> SUFFICES ASSUME Inv, BeginExpression PROVE Owned'
  OBVIOUS
<1>1. /\ postfix' = <<>> /\ consumed' = <<>>
      /\ expression_stack' = <<EndOfStack>>
  BY DEF BeginExpression
<1>2. Tail(<<EndOfStack>>) = <<>>
  OBVIOUS
<1>3. Range(<<>>) = {}
  BY DEF Range
<1>4. QED
  BY <1>1, <1>2, <1>3, CopiesEmpty DEF Owned

LEMMA ReduceOwned == Inv /\ Owned /\ Reduce => Owned'
<1> SUFFICES ASSUME Inv, Owned, Reduce PROVE Owned'
  OBVIOUS
<1> DEFINE s == expression_stack
           top == Last(s)
<1>1. /\ s \in Seq(Token) /\ Linked(s) /\ postfix \in Seq(Token)
      /\ consumed' = consumed /\ s' = Popped(s)
      /\ postfix' = IF Parenthesis(top) THEN postfix ELSE Append(postfix, top)
      /\ analysing
  BY DEF Inv, TypeOK, StackLinked, Reduce, Analyse
<1>2. Element(top) # "Pend"
  BY TableFacts, ElementType DEF Reduce, Analyse, Operation
<1>3. top \in Token
  BY <1>1, FrontLast DEF Linked
<1>4. \A t \in Range(postfix') : ~Parenthesis(t)
  <2>1. CASE Parenthesis(top)
    BY <2>1, <1>1 DEF Owned
  <2>2. CASE ~Parenthesis(top)
    <3>1. Range(postfix') = Range(postfix) \cup {top}
      <4>1. postfix' = postfix \o <<top>> /\ <<top>> \in Seq(Token)
        BY <1>1, <1>3, <2>2, AppendIsConcat
      <4>2. Range(<<top>>) = {top}
        BY DEF Range
      <4>3. Range(postfix \o <<top>>) = Range(postfix) \cup Range(<<top>>)
        <5> DEFINE y == <<top>>
        <5>1. postfix \in Seq(Token) /\ y \in Seq(Token)
          BY <1>1, <4>1
        <5> HIDE DEF y
        <5>2. Range(postfix \o y) = Range(postfix) \cup Range(y)
          BY <5>1, RangeConcatenation
        <5>3. QED
          BY <5>2 DEF y
      <4>4. QED
        BY <4>1, <4>2, <4>3
    <3>2. QED
      BY <3>1, <2>2, <1>1 DEF Owned
  <2>3. QED
    BY <2>1, <2>2
<1>5. ASSUME NEW t \in Token, ~Parenthesis(t)
      PROVE  Copies(postfix', t) + Copies(Tail(s'), t) = Copies(consumed', t)
  <2>1. /\ Copies(Tail(Popped(s)), t) \in Nat
        /\ top = t => Copies(Tail(s), t) = Copies(Tail(Popped(s)), t) + 1
        /\ top # t => Copies(Tail(s), t) = Copies(Tail(Popped(s)), t)
    BY <1>1, <1>2, <1>5, PoppedCopies
  <2>2. Copies(postfix, t) + Copies(Tail(s), t) = Copies(consumed, t)
    BY <1>1, <1>5 DEF Owned
  <2>3. /\ Copies(postfix, t) \in Nat
        /\ top = t => Copies(postfix', t) = Copies(postfix, t) + 1
        /\ top # t => Copies(postfix', t) = Copies(postfix, t)
    <3>1. CASE Parenthesis(top)
      <4>1. top # t
        BY <3>1, <1>5
      <4>2. QED
        BY <4>1, <3>1, <1>1, <1>3, CopiesAppend
    <3>2. CASE ~Parenthesis(top)
      BY <3>2, <1>1, <1>3, CopiesAppend
    <3>3. QED
      BY <3>1, <3>2
  <2>4. QED
    BY <2>1, <2>2, <2>3, <1>1
<1>6. QED
  BY <1>4, <1>5 DEF Owned

LEMMA ShiftOwned == Inv /\ Owned /\ Shift => Owned'
<1> SUFFICES ASSUME Inv, Owned, Shift PROVE Owned'
  OBVIOUS
<1> DEFINE s == expression_stack
           x == parser.token
<1>1. /\ s \in Seq(Token) /\ s # <<>> /\ consumed \in Seq(Token) /\ x \in Token
      /\ postfix \in Seq(Token) /\ postfix' = postfix
      /\ consumed' = Append(consumed, x) /\ s' = Append(s, x) /\ analysing
  BY DEF Inv, TypeOK, StackLinked, Linked, Shift, Analyse, Window
<1>2. Tail(s') = Append(Tail(s), x) /\ Tail(s) \in Seq(Token)
  BY <1>1, HeadTailAppend, HeadTailProperties
<1>3. ASSUME NEW t \in Token, ~Parenthesis(t)
      PROVE  Copies(postfix', t) + Copies(Tail(s'), t) = Copies(consumed', t)
  <2>1. Copies(postfix, t) \in Nat
    BY <1>1, CopiesAppend
  <2>2. /\ Copies(Tail(s), t) \in Nat
        /\ x = t => Copies(Tail(s'), t) = Copies(Tail(s), t) + 1
        /\ x # t => Copies(Tail(s'), t) = Copies(Tail(s), t)
    <3>1. /\ Copies(Tail(s), t) \in Nat
          /\ x = t => Copies(Append(Tail(s), x), t) = Copies(Tail(s), t) + 1
          /\ x # t => Copies(Append(Tail(s), x), t) = Copies(Tail(s), t)
      <4>1. Tail(s) \in Seq(Token) /\ x \in Token
        BY <1>1, <1>2
      <4>2. QED
        BY <4>1, CopiesAppend
    <3>2. QED
      BY <3>1, <1>2
  <2>3. /\ Copies(consumed, t) \in Nat
        /\ x = t => Copies(consumed', t) = Copies(consumed, t) + 1
        /\ x # t => Copies(consumed', t) = Copies(consumed, t)
    BY <1>1, CopiesAppend
  <2>4. Copies(postfix, t) + Copies(Tail(s), t) = Copies(consumed, t)
    BY <1>1, <1>3 DEF Owned
  <2>5. QED
    BY <2>1, <2>2, <2>3, <2>4, <1>1
<1>4. QED
  BY <1>1, <1>3 DEF Owned

LEMMA NextOwned == Inv /\ Owned /\ [Next]_vars => Owned'
<1>1. Reject \/ Finish => ~analysing'
  BY DEF Reject, Finish, Return
<1>2. CallerNext \/ CallerPeek \/ UNCHANGED vars => UNCHANGED expressionVars
  BY DEF CallerNext, CallerPeek, vars
<1>3. Owned /\ UNCHANGED expressionVars => Owned'
  BY DEF Owned, expressionVars
<1>4. ~analysing' => Owned'
  BY DEF Owned
<1>5. QED
  BY BeginOwned, ReduceOwned, ShiftOwned, <1>1, <1>2, <1>3, <1>4
  DEF Next, ExpressionStep

\* For every source, every operand and operator is on the stack and in the queue
\* together as often as it was taken, and no parenthesis is in the queue.
THEOREM NothingLost == Spec => []Ownership
<1>1. Init => Owned
  BY DEF Init, ExpressionInit, Owned
<1>2. QED
  BY <1>1, NextOwned, OwnedImplies, Invariance, PTL DEF Spec, Safety

-----------------------------------------------------------------------------
(* Counting parentheses *)

LEMMA CountType ==
  ASSUME NEW s, NEW i \in Int, NEW j \in Int
  PROVE  Opened(s, i, j) \in Nat /\ Closed(s, i, j) \in Nat
<1> DEFINE o == {k \in i..j : Element(s[k]) = "Plp"}
           c == {k \in i..j : Element(s[k]) = "Prp"}
<1>1. IsFiniteSet(i..j)
  BY FS_Interval
<1>2. o \in SUBSET (i..j) /\ c \in SUBSET (i..j)
  OBVIOUS
<1>3. IsFiniteSet(o) /\ IsFiniteSet(c)
  BY <1>1, <1>2, FS_Subset
<1>4. Cardinality(o) \in Nat /\ Cardinality(c) \in Nat
  BY <1>3, FS_CardinalityType
<1>5. QED
  BY <1>4 DEF Opened, Closed

\* What lies between i and j lies before m or from m on.
LEMMA CountSplit ==
  ASSUME NEW s, NEW i \in Int, NEW j \in Int, NEW m \in Int, NEW l \in Int,
         l = m - 1, i <= m, m <= j + 1
  PROVE  /\ Opened(s, i, j) = Opened(s, i, l) + Opened(s, m, j)
         /\ Closed(s, i, j) = Closed(s, i, l) + Closed(s, m, j)
<1>1. ASSUME NEW e
      PROVE  LET all == {k \in i..j : Element(s[k]) = e}
                 low == {k \in i..l : Element(s[k]) = e}
                 high == {k \in m..j : Element(s[k]) = e}
             IN Cardinality(all) = Cardinality(low) + Cardinality(high)
  <2> DEFINE all == {k \in i..j : Element(s[k]) = e}
             low == {k \in i..l : Element(s[k]) = e}
             high == {k \in m..j : Element(s[k]) = e}
  <2>1. IsFiniteSet(i..l) /\ IsFiniteSet(m..j)
    BY FS_Interval
  <2>2. low \in SUBSET (i..l) /\ high \in SUBSET (m..j)
    OBVIOUS
  <2>3. IsFiniteSet(low) /\ IsFiniteSet(high)
    BY <2>1, <2>2, FS_Subset
  <2>4. all = low \cup high /\ low \cap high = {}
    OBVIOUS
  <2> HIDE DEF all, low, high
  <2>5. Cardinality(low) \in Nat /\ Cardinality(high) \in Nat
    BY <2>3, FS_CardinalityType
  <2>6. Cardinality(all) = Cardinality(low) + Cardinality(high) - Cardinality({})
    BY <2>3, <2>4, FS_Union
  <2>7. Cardinality(all) = Cardinality(low) + Cardinality(high)
    BY <2>5, <2>6, FS_EmptySet
  <2>8. QED
    BY <2>7 DEF all, low, high
<1>2. QED
  BY <1>1 DEF Opened, Closed

LEMMA CountHead ==
  ASSUME NEW s, NEW i \in Int, NEW j \in Int, i <= j
  PROVE  /\ Opened(s, i, j) = Opened(s, i, i) + Opened(s, i + 1, j)
         /\ Closed(s, i, j) = Closed(s, i, i) + Closed(s, i + 1, j)
<1> DEFINE m == i + 1
<1>1. m \in Int /\ i = m - 1 /\ i <= m /\ m <= j + 1
  OBVIOUS
<1> HIDE DEF m
<1>2. /\ Opened(s, i, j) = Opened(s, i, i) + Opened(s, m, j)
      /\ Closed(s, i, j) = Closed(s, i, i) + Closed(s, m, j)
  BY <1>1, CountSplit
<1>3. QED
  BY <1>2 DEF m

LEMMA CountNone ==
  ASSUME NEW s, NEW i \in Int, NEW j \in Int, j < i
  PROVE  Opened(s, i, j) = 0 /\ Closed(s, i, j) = 0
<1>1. i..j = {}
  OBVIOUS
<1>2. /\ {k \in i..j : Element(s[k]) = "Plp"} = {}
      /\ {k \in i..j : Element(s[k]) = "Prp"} = {}
  BY <1>1
<1>3. QED
  BY <1>2, FS_EmptySet DEF Opened, Closed

LEMMA CountOne ==
  ASSUME NEW s, NEW i \in Int
  PROVE  /\ Element(s[i]) = "Plp" => Opened(s, i, i) = 1 /\ Closed(s, i, i) = 0
         /\ Element(s[i]) = "Prp" => Opened(s, i, i) = 0 /\ Closed(s, i, i) = 1
         /\ Element(s[i]) \notin {"Plp", "Prp"} =>
              Opened(s, i, i) = 0 /\ Closed(s, i, i) = 0
<1> DEFINE o == {k \in i..i : Element(s[k]) = "Plp"}
           c == {k \in i..i : Element(s[k]) = "Prp"}
<1>1. /\ Element(s[i]) = "Plp" => o = {i} /\ c = {}
      /\ Element(s[i]) = "Prp" => o = {} /\ c = {i}
      /\ Element(s[i]) \notin {"Plp", "Prp"} => o = {} /\ c = {}
  OBVIOUS
<1>2. Opened(s, i, i) = Cardinality(o) /\ Closed(s, i, i) = Cardinality(c)
  BY DEF Opened, Closed
<1>3. Cardinality({}) = 0 /\ Cardinality({i}) = 1
  BY FS_EmptySet, FS_Singleton
<1> HIDE DEF o, c
<1>4. QED
  BY <1>1, <1>2, <1>3

LEMMA CountSame ==
  ASSUME NEW s, NEW t, NEW i \in Int, NEW j \in Int, \A k \in i..j : s[k] = t[k]
  PROVE  Opened(s, i, j) = Opened(t, i, j) /\ Closed(s, i, j) = Closed(t, i, j)
<1>1. /\ {k \in i..j : Element(s[k]) = "Plp"} = {k \in i..j : Element(t[k]) = "Plp"}
      /\ {k \in i..j : Element(s[k]) = "Prp"} = {k \in i..j : Element(t[k]) = "Prp"}
  OBVIOUS
<1>2. QED
  BY <1>1 DEF Opened, Closed

-----------------------------------------------------------------------------
(* The reference: its operators, its split points and its postfix *)

LEMMA BindingFacts ==
  ASSUME NEW a \in Operators, NEW b \in Operators
  PROVE  /\ Binding(a) \in Int
         /\ precedent_table[a][b] = ">" => Binding(b) <= Binding(a)
         /\ precedent_table[a][b] \in {"<", "="} => Binding(a) < Binding(b)
BY DEF Operators, Binding, precedent_table, Row

LEMMA TopLevelSame ==
  ASSUME NEW s, NEW t, NEW i \in Int, NEW j \in Int, \A k \in i..j : s[k] = t[k]
  PROVE  TopLevel(s, i, j) = TopLevel(t, i, j)
<1>1. ASSUME NEW k \in i..j
      PROVE  Opened(s, i, k) = Opened(t, i, k) /\ Closed(s, i, k) = Closed(t, i, k)
  <2>1. k \in Int /\ \A l \in i..k : s[l] = t[l]
    OBVIOUS
  <2>2. QED
    BY <2>1, CountSame
<1>2. QED
  BY <1>1 DEF TopLevel

\* k is the loosest operator of s[i..j], and the last of these.
Loosest(s, i, j, k) ==
    \A l \in TopLevel(s, i, j) \ {k} :
        LET bk == Binding(Element(s[k]))
            bl == Binding(Element(s[l]))
        IN bk < bl \/ (bk = bl /\ l < k)

\* Least numbers.
LEMMA Least ==
  ASSUME NEW S, S \subseteq Nat, S # {}
  PROVE  \E n \in S : \A m \in S : n <= m
<1>1. \E n \in S : \A m \in S : ~(<<m, n>> \in OpToRel(<, Nat))
  BY NatLessThanWellFounded, WFMin, Zenon
<1>2. \A m, n \in S : ~(<<m, n>> \in OpToRel(<, Nat)) => n <= m
  BY DEF OpToRel
<1>3. QED
  BY <1>1, <1>2

LEMMA SplitExists ==
  ASSUME NEW s, NEW i \in Nat, NEW j \in Nat, TopLevel(s, i, j) # {}
  PROVE  \E k \in TopLevel(s, i, j) : Loosest(s, i, j, k)
<1> DEFINE T == TopLevel(s, i, j)
           b(k) == Binding(Element(s[k]))
           rank(k) == b(k) * (j + 1) + (j - k)
           Ranks == {rank(k) : k \in T}
<1>1. \A k \in T : k \in i..j /\ b(k) \in 1..3
  BY DEF TopLevel, Operators, Binding
<1> HIDE DEF T, b
<1>2. \A k \in T : rank(k) \in Nat
  BY <1>1
<1>3. PICK n \in Ranks : \A m \in Ranks : n <= m
  <2>1. Ranks \subseteq Nat /\ Ranks # {}
    BY <1>2 DEF T
  <2> HIDE DEF Ranks
  <2>2. QED
    BY <2>1, Least
<1>4. PICK k \in T : n = rank(k)
  BY <1>3
<1>5. ASSUME NEW l \in T \ {k} PROVE b(k) < b(l) \/ (b(k) = b(l) /\ l < k)
  <2>1. rank(k) <= rank(l)
    BY <1>3, <1>4
  <2>2. b(k) \in 1..3 /\ b(l) \in 1..3 /\ k \in 0..j /\ l \in 0..j /\ l # k
    BY <1>1, <1>5
  <2>3. CASE b(k) = b(l)
    BY <2>1, <2>2, <2>3
  <2>4. CASE b(k) > b(l)
    <3>1. CASE b(k) = 2
      <4>1. b(l) = 1
        BY <2>2, <2>4, <3>1
      <4>2. rank(k) = 2 * (j + 1) + (j - k) /\ rank(l) = (j + 1) + (j - l)
        BY <2>2, <3>1, <4>1
      <4>3. QED
        BY <2>1, <2>2, <4>2
    <3>2. CASE b(k) = 3
      <4>1. \/ b(l) = 1 /\ rank(l) = (j + 1) + (j - l)
            \/ b(l) = 2 /\ rank(l) = 2 * (j + 1) + (j - l)
        BY <2>2, <2>4, <3>2
      <4>2. rank(k) = 3 * (j + 1) + (j - k)
        BY <2>2, <3>2
      <4>3. QED
        BY <2>1, <2>2, <4>1, <4>2
    <3>3. QED
      BY <2>2, <2>4, <3>1, <3>2
  <2>5. QED
    BY <2>2, <2>3, <2>4
<1>6. QED
  BY <1>5 DEF T, b, Loosest

LEMMA SplitFacts ==
  ASSUME NEW s, NEW i \in Nat, NEW j \in Nat, TopLevel(s, i, j) # {}
  PROVE  /\ SplitPoint(s, i, j) \in TopLevel(s, i, j)
         /\ Loosest(s, i, j, SplitPoint(s, i, j))
         /\ SplitPoint(s, i, j) \in i..j
<1>1. SplitPoint(s, i, j) =
        CHOOSE k \in TopLevel(s, i, j) : Loosest(s, i, j, k)
  BY DEF SplitPoint, Loosest
<1>2. QED
  BY <1>1, SplitExists DEF TopLevel

\* There is one such operator.
LEMMA SplitIs ==
  ASSUME NEW s, NEW i \in Nat, NEW j \in Nat,
         NEW k \in TopLevel(s, i, j), Loosest(s, i, j, k)
  PROVE  SplitPoint(s, i, j) = k
<1> DEFINE m == SplitPoint(s, i, j)
<1>1. m \in TopLevel(s, i, j) /\ Loosest(s, i, j, m)
  BY SplitFacts
<1>2. ASSUME NEW l \in TopLevel(s, i, j)
      PROVE  l \in Int /\ Binding(Element(s[l])) \in Int
  BY DEF TopLevel, Operators, Binding
<1> HIDE DEF m
<1>3. m = k
  BY <1>1, <1>2 DEF Loosest
<1>4. QED
  BY <1>3 DEF m

LEMMA SplitSame ==
  ASSUME NEW s, NEW t, NEW i \in Nat, NEW j \in Nat,
         \A k \in i..j : s[k] = t[k], TopLevel(s, i, j) # {}
  PROVE  SplitPoint(t, i, j) = SplitPoint(s, i, j)
<1> DEFINE k == SplitPoint(s, i, j)
<1>1. TopLevel(s, i, j) = TopLevel(t, i, j)
  BY TopLevelSame
<1>2. k \in TopLevel(s, i, j) /\ Loosest(s, i, j, k)
  BY SplitFacts
<1>3. \A l \in TopLevel(s, i, j) : s[l] = t[l]
  BY DEF TopLevel
<1> HIDE DEF k
<1>4. k \in TopLevel(t, i, j) /\ Loosest(t, i, j, k)
  BY <1>1, <1>2, <1>3 DEF Loosest
<1>5. SplitPoint(t, i, j) = k
  BY <1>4, SplitIs
<1>6. QED
  BY <1>5 DEF k

-----------------------------------------------------------------------------
(* The recursive function of the reference is met in PostfixesAre only *)

\* The postfix of s[i..j] from those of shorter spans.
Span(s, f, i, j) ==
    IF j < i THEN <<>>
    ELSE IF i = j THEN <<s[i]>>
    ELSE IF TopLevel(s, i, j) = {} THEN f[i + 1][j - 1]
    ELSE f[i][SplitPoint(s, i, j) - 1] \o f[SplitPoint(s, i, j) + 1][j]
           \o <<s[SplitPoint(s, i, j)]>>

LEMMA SpanShorter ==
  ASSUME NEW n \in Nat, NEW s, NEW f, NEW g,
         NEW i \in 1..(n + 1), NEW j \in 0..n,
         \A a \in 1..(n + 1), b \in 0..n : b - a < j - i => f[a][b] = g[a][b]
  PROVE  Span(s, f, i, j) = Span(s, g, i, j)
<1>1. CASE j <= i
  BY <1>1 DEF Span
<1>2. CASE i < j /\ TopLevel(s, i, j) = {}
  <2>1. /\ i + 1 \in 1..(n + 1) /\ j - 1 \in 0..n
        /\ (j - 1) - (i + 1) < j - i
    BY <1>2
  <2>2. f[i + 1][j - 1] = g[i + 1][j - 1]
    BY <2>1
  <2>3. QED
    BY <1>2, <2>2 DEF Span
<1>3. CASE i < j /\ TopLevel(s, i, j) # {}
  <2> DEFINE k == SplitPoint(s, i, j)
  <2>1. k \in i..j
    <3>1. i \in Nat /\ j \in Nat
      OBVIOUS
    <3>2. QED
      BY <3>1, <1>3, SplitFacts
  <2> HIDE DEF k
  <2>2. /\ k - 1 \in 0..n /\ (k - 1) - i < j - i
        /\ k + 1 \in 1..(n + 1) /\ j - (k + 1) < j - i
    BY <2>1
  <2>3. f[i][k - 1] = g[i][k - 1] /\ f[k + 1][j] = g[k + 1][j]
    BY <2>2
  <2>4. QED
    BY <1>3, <2>3 DEF Span, k
<1>4. QED
  BY <1>1, <1>2, <1>3

LEMMA SpansExist ==
  ASSUME NEW n \in Nat, NEW s
  PROVE  \E f : \A i \in 1..(n + 1), j \in 0..n : f[i][j] = Span(s, f, i, j)
<1> DEFINE Upto(N) == \E f : \A i \in 1..(n + 1), j \in 0..n :
                        j - i < N => f[i][j] = Span(s, f, i, j)
           Wrong == {N \in Nat : ~Upto(N)}
<1>1. Wrong = {}
  <2> SUFFICES ASSUME Wrong # {} PROVE FALSE
    OBVIOUS
  <2>1. PICK N \in Wrong : \A M \in Wrong : N <= M
    <3>1. Wrong \subseteq Nat
      OBVIOUS
    <3> HIDE DEF Wrong
    <3>2. QED
      BY <3>1, Least
  <2>2. N \in Nat /\ ~Upto(N)
    BY <2>1
  <2>3. CASE N = 0
    <3> DEFINE f == [i \in 1..(n + 1) |-> [j \in 0..n |-> <<>>]]
    <3>1. ASSUME NEW i \in 1..(n + 1), NEW j \in 0..n, j - i < 0
          PROVE  f[i][j] = Span(s, f, i, j)
      <4>1. f[i][j] = <<>>
        OBVIOUS
      <4> HIDE DEF f
      <4>2. j < i
        BY <3>1
      <4>3. Span(s, f, i, j) = <<>>
        BY <4>2 DEF Span
      <4>4. QED
        BY <4>1, <4>3
    <3> HIDE DEF f
    <3>2. Upto(0)
      BY <3>1
    <3>3. QED
      BY <2>2, <2>3, <3>2
  <2>4. CASE N > 0
    <3>1. Upto(N - 1)
      <4>1. N - 1 \in Nat /\ ~(N <= N - 1)
        BY <2>2, <2>4
      <4>2. N - 1 \notin Wrong
        <5> HIDE DEF Wrong
        <5>1. QED
          BY <2>1, <4>1
      <4> HIDE DEF Upto
      <4>3. QED
        BY <4>1, <4>2
    <3>2. PICK g : \A i \in 1..(n + 1), j \in 0..n :
                     j - i < N - 1 => g[i][j] = Span(s, g, i, j)
      BY <3>1
    <3> DEFINE f == [i \in 1..(n + 1) |-> [j \in 0..n |-> Span(s, g, i, j)]]
    <3>3. ASSUME NEW i \in 1..(n + 1), NEW j \in 0..n
          PROVE  f[i][j] = Span(s, g, i, j)
      <4>1. f[i] = [b \in 0..n |-> Span(s, g, i, b)]
        OBVIOUS
      <4> HIDE DEF f
      <4>2. QED
        BY <4>1
    <3> HIDE DEF f
    <3>4. ASSUME NEW i \in 1..(n + 1), NEW j \in 0..n, j - i < N
          PROVE  f[i][j] = Span(s, f, i, j)
      <4>1. ASSUME NEW a \in 1..(n + 1), NEW b \in 0..n, b - a < j - i
            PROVE  f[a][b] = g[a][b]
        <5>1. b - a < N - 1
          BY <2>2, <3>4, <4>1
        <5>2. QED
          BY <3>2, <3>3, <5>1
      <4>2. Span(s, f, i, j) = Span(s, g, i, j)
        <5> HIDE DEF Upto, Wrong
        <5>1. \A a \in 1..(n + 1), b \in 0..n : b - a < j - i => f[a][b] = g[a][b]
          BY <4>1
        <5>2. QED
          BY <5>1, SpanShorter
      <4>3. QED
        BY <3>3, <4>2
    <3>5. Upto(N)
      BY <3>4
    <3>6. QED
      BY <2>2, <3>5
  <2>5. QED
    BY <2>2, <2>3, <2>4
<1>2. Upto(n + 1)
  <2> HIDE DEF Upto
  <2>1. n + 1 \in Nat
    OBVIOUS
  <2>2. QED
    BY <1>1, <2>1
<1>3. \A i \in 1..(n + 1), j \in 0..n : j - i < n + 1
  OBVIOUS
<1>4. QED
  BY <1>2, <1>3

\* The postfix of every span is made of those of its parts.
LEMMA PostfixesAre ==
  ASSUME NEW s \in Seq(Token)
  PROVE  \A i \in 1..(Len(s) + 1), j \in 0..Len(s) :
           Postfixes(s)[i][j] = Span(s, Postfixes(s), i, j)
<1> DEFINE n == Len(s)
           Round(f) == [i \in 1..(n + 1) |-> [j \in 0..n |-> Span(s, f, i, j)]]
           p == CHOOSE f : f = Round(f)
<1>1. n \in Nat
  BY LenProperties
<1>2. Postfixes(s) = p
  BY DEF Postfixes, Span
<1> HIDE DEF n
<1>3. \E f : f = Round(f)
  <2>1. PICK g : \A i \in 1..(n + 1), j \in 0..n : g[i][j] = Span(s, g, i, j)
    BY <1>1, SpansExist
  <2> DEFINE f == Round(g)
  <2>2. ASSUME NEW i \in 1..(n + 1), NEW j \in 0..n
        PROVE  f[i][j] = g[i][j]
    <3>1. f[i] = [b \in 0..n |-> Span(s, g, i, b)]
      OBVIOUS
    <3> HIDE DEF f
    <3>2. QED
      BY <2>1, <3>1
  <2>3. ASSUME NEW i \in 1..(n + 1), NEW j \in 0..n
        PROVE  Span(s, f, i, j) = Span(s, g, i, j)
    <3> HIDE DEF f
    <3>1. QED
      BY <1>1, <2>2, SpanShorter
  <2>4. ASSUME NEW i \in 1..(n + 1)
        PROVE  [j \in 0..n |-> Span(s, f, i, j)] = [j \in 0..n |-> Span(s, g, i, j)]
    <3> HIDE DEF f
    <3>1. QED
      BY <2>3
  <2>5. Round(f) = f
    <3>1. \A h : Round(h) = [i \in 1..(n + 1) |-> [j \in 0..n |-> Span(s, h, i, j)]]
      OBVIOUS
    <3> HIDE DEF f
    <3>2. Round(f) = Round(g)
      BY <2>4
    <3>3. QED
      BY <3>2 DEF f
  <2>6. QED
    BY <2>5
<1>4. p = Round(p)
  BY <1>3
<1> HIDE DEF p
<1>5. ASSUME NEW i \in 1..(n + 1), NEW j \in 0..n
      PROVE  p[i][j] = Span(s, p, i, j)
  <2>1. p[i] = [b \in 0..n |-> Span(s, p, i, b)]
    BY <1>4
  <2>2. QED
    BY <2>1
<1>6. QED
  BY <1>2, <1>5 DEF n

LEMMA ShorterEmpty ==
  ASSUME NEW a \in Int, NEW b \in Int, NEW c \in Int, NEW d \in Int,
         b < a, d - c < b - a
  PROVE  d < c
OBVIOUS

\* A token read later changes the postfix of no span before it.
LEMMA PostfixesAppend ==
  ASSUME NEW s \in Seq(Token), NEW x \in Token,
         NEW i \in 1..(Len(s) + 1), NEW j \in 0..Len(s)
  PROVE  Postfixes(Append(s, x))[i][j] = Postfixes(s)[i][j]
<1> DEFINE n == Len(s)
           t == Append(s, x)
           p == Postfixes(s)
           q == Postfixes(t)
<1>1. n \in Nat /\ t \in Seq(Token) /\ Len(t) = n + 1
  BY LenProperties, AppendProperties
<1>2. \A k \in 1..n : s[k] = t[k]
  BY AppendProperties
<1>3. \A a \in 1..(n + 1), b \in 0..n : p[a][b] = Span(s, p, a, b)
  BY PostfixesAre
<1>4. \A a \in 1..(n + 1), b \in 0..n : q[a][b] = Span(t, q, a, b)
  <2>1. \A a \in 1..(Len(t) + 1), b \in 0..Len(t) : q[a][b] = Span(t, q, a, b)
    BY <1>1, PostfixesAre
  <2> HIDE DEF q, t, n
  <2>2. QED
    BY <1>1, <2>1
<1>5. i \in 1..(n + 1) /\ j \in 0..n
  OBVIOUS
<1> HIDE DEF n, t, p, q
<1>6. ASSUME NEW a \in 1..(n + 1), NEW b \in 0..n
      PROVE  Span(s, p, a, b) = Span(t, p, a, b)
  <2>1. \A k \in a..b : s[k] = t[k]
    BY <1>1, <1>2
  <2>2. a \in Nat /\ b \in Nat
    BY <1>1
  <2>3. TopLevel(s, a, b) = TopLevel(t, a, b)
    BY <2>1, <2>2, TopLevelSame
  <2>4. CASE TopLevel(s, a, b) = {}
    <3>1. a = b => s[a] = t[a]
      BY <2>1, <2>2
    <3>2. QED
      BY <2>3, <2>4, <3>1 DEF Span
  <2>5. CASE TopLevel(s, a, b) # {}
    <3> DEFINE k == SplitPoint(s, a, b)
    <3>1. k = SplitPoint(t, a, b) /\ k \in a..b
      BY <2>1, <2>2, <2>5, SplitSame, SplitFacts
    <3>2. s[k] = t[k]
      BY <2>1, <3>1
    <3>3. a = b => s[a] = t[a]
      BY <2>1, <2>2
    <3> HIDE DEF k
    <3>4. SplitPoint(s, a, b) = k /\ SplitPoint(t, a, b) = k
      BY <3>1 DEF k
    <3>5. QED
      BY <2>3, <2>5, <3>2, <3>3, <3>4 DEF Span
  <2>6. QED
    BY <2>4, <2>5
<1> DEFINE Wrong == {N \in Nat : \E a \in 1..(n + 1), b \in 0..n :
                                    b - a < N /\ q[a][b] # p[a][b]}
<1>7. Wrong = {}
  <2> SUFFICES ASSUME Wrong # {} PROVE FALSE
    OBVIOUS
  <2>1. PICK N \in Wrong : \A M \in Wrong : N <= M
    <3>1. Wrong \subseteq Nat
      OBVIOUS
    <3> HIDE DEF Wrong
    <3>2. QED
      BY <3>1, Least
  <2>2. PICK a \in 1..(n + 1), b \in 0..n : b - a < N /\ q[a][b] # p[a][b]
    BY <2>1
  <2>3. ASSUME NEW c \in 1..(n + 1), NEW d \in 0..n, d - c < b - a
        PROVE  q[c][d] = p[c][d]
    <3> SUFFICES ASSUME q[c][d] # p[c][d] PROVE FALSE
      OBVIOUS
    <3>1. CASE b < a
      <4>1. d < c
        <5>1. a \in Int /\ b \in Int /\ c \in Int /\ d \in Int /\ d - c < b - a
          BY <1>1, <2>3
        <5>2. QED
          BY <3>1, <5>1, ShorterEmpty
      <4>2. Span(s, p, c, d) = <<>> /\ Span(t, q, c, d) = <<>>
        BY <4>1 DEF Span
      <4>3. QED
        BY <1>3, <1>4, <4>2
    <3>2. CASE a <= b
      <4>1. /\ b - a \in Nat /\ ~(N <= b - a)
        BY <1>1, <2>1, <2>2, <3>2
      <4>2. b - a \in Wrong
        BY <2>3, <4>1
      <4> HIDE DEF Wrong
      <4>3. QED
        BY <2>1, <4>1, <4>2
    <3>3. QED
      BY <1>1, <3>1, <3>2
  <2>4. Span(t, q, a, b) = Span(t, p, a, b)
    <3> HIDE DEF Wrong
    <3>1. n \in Nat /\ a \in 1..(n + 1) /\ b \in 0..n
      BY <1>1, <2>2
    <3>2. ASSUME NEW c \in 1..(n + 1), NEW d \in 0..n, d - c < b - a
          PROVE  q[c][d] = p[c][d]
      BY <2>3, <3>2
    <3>3. QED
      BY <3>1, <3>2, SpanShorter
  <2>5. QED
    BY <1>3, <1>4, <1>6, <2>2, <2>4
<1>8. q[i][j] = p[i][j]
  <2> SUFFICES ASSUME q[i][j] # p[i][j] PROVE FALSE
    OBVIOUS
  <2>1. n + 1 \in Nat /\ j - i < n + 1
    BY <1>1, <1>5
  <2>2. n + 1 \in Wrong
    BY <1>5, <2>1
  <2>3. QED
    BY <1>7, <2>2
<1>9. QED
  BY <1>8 DEF p, q, t

-----------------------------------------------------------------------------
(* Complete spans, and how they grow *)

\* s[i..j] closes what it opens, and only that.
Balanced(s, i, j) ==
    /\ Closed(s, i, j) = Opened(s, i, j)
    /\ \A k \in i..j : Closed(s, i, k) <= Opened(s, i, k)

LEMMA EmptySpan ==
  ASSUME NEW s \in Seq(Token), NEW j \in 0..Len(s)
  PROVE  /\ Postfixes(s)[j + 1][j] = <<>>
         /\ Balanced(s, j + 1, j)
         /\ TopLevel(s, j + 1, j) = {}
<1>1. Len(s) \in Nat
  BY LenProperties
<1>2. j + 1 \in 1..(Len(s) + 1) /\ j < j + 1 /\ (j + 1)..j = {}
  BY <1>1
<1>3. Span(s, Postfixes(s), j + 1, j) = <<>>
  BY <1>2 DEF Span
<1>4. Balanced(s, j + 1, j)
  BY <1>2, CountNone DEF Balanced
<1>5. QED
  BY <1>2, <1>3, <1>4, PostfixesAre DEF TopLevel

\* An operand is a span of its own.
LEMMA OperandSpan ==
  ASSUME NEW s \in Seq(Token), NEW i \in 1..Len(s), Element(s[i]) = "Po"
  PROVE  /\ Postfixes(s)[i][i] = <<s[i]>>
         /\ Balanced(s, i, i)
         /\ TopLevel(s, i, i) = {}
<1>1. Len(s) \in Nat
  BY LenProperties
<1>2. i \in 1..(Len(s) + 1) /\ i \in 0..Len(s) /\ i..i = {i} /\ i \in Int
  BY <1>1
<1>3. Span(s, Postfixes(s), i, i) = <<s[i]>>
  BY <1>2 DEF Span
<1>4. Opened(s, i, i) = 0 /\ Closed(s, i, i) = 0
  BY <1>2, CountOne
<1>5. Balanced(s, i, i)
  BY <1>2, <1>4 DEF Balanced
<1>6. QED
  BY <1>2, <1>3, <1>5, PostfixesAre DEF TopLevel, Operators

\* Parentheses around a complete span leave its postfix.
LEMMA ParenthesesSpan ==
  ASSUME NEW s \in Seq(Token), NEW i \in 1..Len(s), NEW j \in 1..Len(s), i < j,
         Element(s[i]) = "Plp", Element(s[j]) = "Prp", Balanced(s, i + 1, j - 1)
  PROVE  /\ Postfixes(s)[i][j] = Postfixes(s)[i + 1][j - 1]
         /\ Balanced(s, i, j)
         /\ TopLevel(s, i, j) = {}
<1>1. Len(s) \in Nat /\ i \in Int /\ j \in Int
  BY LenProperties
<1>2. ASSUME NEW k \in i..(j - 1)
      PROVE  Closed(s, i, k) < Opened(s, i, k)
  <2>1. /\ Opened(s, i, k) = Opened(s, i, i) + Opened(s, i + 1, k)
        /\ Closed(s, i, k) = Closed(s, i, i) + Closed(s, i + 1, k)
    BY <1>1, CountHead
  <2>2. Opened(s, i, i) = 1 /\ Closed(s, i, i) = 0
    BY <1>1, CountOne
  <2>3. Closed(s, i + 1, k) <= Opened(s, i + 1, k)
    <3>1. CASE k = i
      BY <1>1, <3>1, CountNone
    <3>2. CASE k # i
      <4>1. k \in (i + 1)..(j - 1)
        BY <1>1, <3>2
      <4>2. QED
        BY <4>1 DEF Balanced
    <3>3. QED
      BY <3>1, <3>2
  <2>4. Opened(s, i + 1, k) \in Nat /\ Closed(s, i + 1, k) \in Nat
    BY <1>1, CountType
  <2>5. QED
    BY <2>1, <2>2, <2>3, <2>4
<1>3. Closed(s, i, j) = Opened(s, i, j)
  <2>1. /\ Opened(s, i, j) = Opened(s, i, j - 1) + Opened(s, j, j)
        /\ Closed(s, i, j) = Closed(s, i, j - 1) + Closed(s, j, j)
    BY <1>1, CountSplit
  <2>2. /\ Opened(s, i, j - 1) = Opened(s, i, i) + Opened(s, i + 1, j - 1)
        /\ Closed(s, i, j - 1) = Closed(s, i, i) + Closed(s, i + 1, j - 1)
    BY <1>1, CountHead
  <2>3. /\ Opened(s, i, i) = 1 /\ Closed(s, i, i) = 0
        /\ Opened(s, j, j) = 0 /\ Closed(s, j, j) = 1
    BY <1>1, CountOne
  <2>4. Closed(s, i + 1, j - 1) = Opened(s, i + 1, j - 1)
    BY DEF Balanced
  <2>5. Opened(s, i + 1, j - 1) \in Nat
    BY <1>1, CountType
  <2>6. QED
    BY <2>1, <2>2, <2>3, <2>4, <2>5
<1>4. Balanced(s, i, j)
  <2>1. ASSUME NEW k \in i..j PROVE Closed(s, i, k) <= Opened(s, i, k)
    <3>1. Opened(s, i, k) \in Nat /\ Closed(s, i, k) \in Nat
      BY <1>1, CountType
    <3>2. k = j \/ k \in i..(j - 1)
      BY <1>1
    <3>3. QED
      BY <1>2, <1>3, <3>1, <3>2
  <2>2. QED
    BY <1>3, <2>1 DEF Balanced
<1>5. TopLevel(s, i, j) = {}
  <2>1. ASSUME NEW k \in TopLevel(s, i, j) PROVE FALSE
    <3>1. /\ k \in i..j /\ Element(s[k]) \in Operators
          /\ Opened(s, i, k) = Closed(s, i, k)
      BY DEF TopLevel
    <3>2. k # j
      BY <3>1 DEF Operators
    <3>3. k \in i..(j - 1)
      BY <1>1, <3>1, <3>2
    <3>4. Opened(s, i, k) \in Nat /\ Closed(s, i, k) \in Nat
      BY <1>1, <3>3, CountType
    <3>5. QED
      BY <1>2, <3>1, <3>3, <3>4
  <2>2. QED
    BY <2>1
<1>6. Postfixes(s)[i][j] = Postfixes(s)[i + 1][j - 1]
  <2>1. i \in 1..(Len(s) + 1) /\ j \in 0..Len(s) /\ ~(j < i) /\ i # j
    BY <1>1
  <2>2. Span(s, Postfixes(s), i, j) = Postfixes(s)[i + 1][j - 1]
    BY <1>5, <2>1 DEF Span
  <2>3. QED
    BY <2>1, <2>2, PostfixesAre
<1>7. QED
  BY <1>4, <1>5, <1>6

Binds(t) == Binding(Element(t))

\* s[i..j], between l and r on the stack or the current token, is complete;
\* its operators wait for neither; beside an operand, before "(" and behind
\* ")" there is nothing.
Segment(s, l, r, i, j) ==
    /\ Balanced(s, i, j)
    /\ \A m \in TopLevel(s, i, j) :
         /\ Element(l) \in Operators => Binds(l) < Binds(s[m])
         /\ Element(r) \in Operators => Binds(r) <= Binds(s[m])
    /\ Element(l) \in {"Po", "Prp"} \/ Element(r) \in {"Po", "Plp"} => i = j + 1

\* An operator between spans whose operators do not wait for it is where the
\* whole is split.
LEMMA OperatorSpan ==
  ASSUME NEW s \in Seq(Token), NEW k \in 1..Len(s), NEW i \in 1..k, NEW j \in k..Len(s),
         NEW y, NEW z, Element(s[k]) \in Operators,
         Segment(s, y, s[k], i, k - 1), Segment(s, s[k], z, k + 1, j)
  PROVE  /\ Postfixes(s)[i][j] =
              Postfixes(s)[i][k - 1] \o Postfixes(s)[k + 1][j] \o <<s[k]>>
         /\ Balanced(s, i, j)
         /\ \A m \in TopLevel(s, i, j) :
              m \in TopLevel(s, i, k - 1) \/ m = k \/ m \in TopLevel(s, k + 1, j)
<1>0. /\ Balanced(s, i, k - 1) /\ Balanced(s, k + 1, j)
      /\ \A m \in TopLevel(s, i, k - 1) : Binds(s[k]) <= Binds(s[m])
      /\ \A m \in TopLevel(s, k + 1, j) : Binds(s[k]) < Binds(s[m])
  BY DEF Segment
<1>1. Len(s) \in Nat /\ i \in Nat /\ j \in Nat /\ k \in Nat /\ i <= k /\ k <= j
  BY LenProperties
<1>2. Opened(s, k, k) = 0 /\ Closed(s, k, k) = 0
  BY <1>1, CountOne DEF Operators
<1>3. Closed(s, i, k - 1) = Opened(s, i, k - 1) /\ Opened(s, i, k - 1) \in Nat
  BY <1>0, <1>1, CountType DEF Balanced
<1>4. ASSUME NEW l \in k..j
      PROVE  /\ Opened(s, i, l) = Opened(s, i, k - 1) + Opened(s, k + 1, l)
             /\ Closed(s, i, l) = Closed(s, i, k - 1) + Closed(s, k + 1, l)
             /\ Opened(s, k + 1, l) \in Nat /\ Closed(s, k + 1, l) \in Nat
  <2>1. /\ Opened(s, i, l) = Opened(s, i, k - 1) + Opened(s, k, l)
        /\ Closed(s, i, l) = Closed(s, i, k - 1) + Closed(s, k, l)
    BY <1>1, CountSplit
  <2>2. /\ Opened(s, k, l) = Opened(s, k, k) + Opened(s, k + 1, l)
        /\ Closed(s, k, l) = Closed(s, k, k) + Closed(s, k + 1, l)
    BY <1>1, CountHead
  <2>3. Opened(s, k + 1, l) \in Nat /\ Closed(s, k + 1, l) \in Nat
    BY <1>1, CountType
  <2>4. QED
    BY <1>2, <2>1, <2>2, <2>3
<1>5. /\ Opened(s, k + 1, k) = 0 /\ Closed(s, k + 1, k) = 0
  BY <1>1, CountNone
<1>6. Balanced(s, i, j)
  <2>1. Closed(s, i, j) = Opened(s, i, j)
    <3>1. j \in k..j
      BY <1>1
    <3>2. Closed(s, k + 1, j) = Opened(s, k + 1, j)
      BY <1>0 DEF Balanced
    <3>3. QED
      BY <1>3, <1>4, <3>1, <3>2
  <2>2. ASSUME NEW l \in i..j PROVE Closed(s, i, l) <= Opened(s, i, l)
    <3>1. CASE l \in i..(k - 1)
      BY <1>0, <3>1 DEF Balanced
    <3>2. CASE l = k
      BY <1>1, <1>3, <1>4, <1>5, <3>2
    <3>3. CASE l \in (k + 1)..j
      <4>1. Closed(s, k + 1, l) <= Opened(s, k + 1, l)
        BY <1>0, <3>3 DEF Balanced
      <4>2. l \in k..j
        BY <1>1, <3>3
      <4>3. QED
        BY <1>3, <1>4, <4>1, <4>2
    <3>4. QED
      BY <1>1, <3>1, <3>2, <3>3
  <2>3. QED
    BY <2>1, <2>2 DEF Balanced
<1>7. TopLevel(s, i, j) = TopLevel(s, i, k - 1) \cup {k} \cup TopLevel(s, k + 1, j)
  <2>1. ASSUME NEW l \in k..j
        PROVE  Opened(s, i, l) = Closed(s, i, l)
                 <=> Opened(s, k + 1, l) = Closed(s, k + 1, l)
    <3>1. /\ Opened(s, i, l) = Opened(s, i, k - 1) + Opened(s, k + 1, l)
          /\ Closed(s, i, l) = Opened(s, i, k - 1) + Closed(s, k + 1, l)
      BY <1>3, <1>4
    <3>2. Opened(s, k + 1, l) \in Nat /\ Closed(s, k + 1, l) \in Nat
      BY <1>4
    <3>3. CASE Opened(s, k + 1, l) = Closed(s, k + 1, l)
      BY <3>1, <3>3
    <3>4. CASE Opened(s, k + 1, l) # Closed(s, k + 1, l)
      BY <1>3, <3>1, <3>2, <3>4
    <3>5. QED
      BY <3>3, <3>4
  <2>2. k \in k..j /\ i..j = (i..(k - 1)) \cup {k} \cup ((k + 1)..j) /\ (k + 1)..j \subseteq k..j
    BY <1>1
  <2>3. Opened(s, i, k) = Closed(s, i, k)
    BY <1>5, <2>1, <2>2
  <2>4. ASSUME NEW l
        PROVE  l \in TopLevel(s, i, j) <=>
                 l \in TopLevel(s, i, k - 1) \/ l = k \/ l \in TopLevel(s, k + 1, j)
    BY <2>1, <2>2, <2>3 DEF TopLevel
  <2>5. QED
    BY <2>4
<1>8. SplitPoint(s, i, j) = k
  <2>1. k \in TopLevel(s, i, j)
    BY <1>7
  <2>2. ASSUME NEW l \in TopLevel(s, i, j) \ {k}
        PROVE  \/ Binds(s[k]) < Binds(s[l])
               \/ Binds(s[k]) = Binds(s[l]) /\ l < k
    <3>1. CASE l \in TopLevel(s, k + 1, j)
      BY <1>0, <3>1
    <3>2. CASE l \in TopLevel(s, i, k - 1)
      <4>1. l < k /\ Element(s[l]) \in Operators
        BY <1>1, <3>2 DEF TopLevel
      <4>2. Binds(s[k]) \in Int /\ Binds(s[l]) \in Int
        BY <4>1, BindingFacts DEF Binds
      <4>3. Binds(s[k]) <= Binds(s[l])
        BY <1>0, <3>2
      <4>4. QED
        BY <4>1, <4>2, <4>3
    <3>3. QED
      BY <1>7, <3>1, <3>2
  <2>3. Loosest(s, i, j, k)
    BY <2>2 DEF Loosest, Binds
  <2>4. QED
    BY <1>1, <2>1, <2>3, SplitIs
<1>9. /\ i \in 1..(Len(s) + 1) /\ j \in 0..Len(s) /\ ~(j < i)
      /\ k + 1 \in 1..(Len(s) + 1) /\ k - 1 \in 0..Len(s)
  BY <1>1
<1>10. Postfixes(s)[i][j] =
         Postfixes(s)[i][k - 1] \o Postfixes(s)[k + 1][j] \o <<s[k]>>
  <2>1. Postfixes(s)[i][j] = Span(s, Postfixes(s), i, j)
    BY <1>9, PostfixesAre
  <2>2. CASE i = j
    <3>1. k = i /\ k = j
      BY <1>1, <2>2
    <3>2. Postfixes(s)[i][k - 1] = <<>> /\ Postfixes(s)[k + 1][j] = <<>>
      <4>1. Postfixes(s)[(k - 1) + 1][k - 1] = <<>> /\ Postfixes(s)[k + 1][k] = <<>>
        <5>1. k \in 0..Len(s)
          BY <1>1
        <5>2. QED
          BY <1>9, <5>1, EmptySpan
      <4>2. (k - 1) + 1 = k
        BY <1>1
      <4>3. QED
        BY <3>1, <4>1, <4>2
    <3>3. <<s[k]>> \in Seq(Token)
      BY ElementOfSeq
    <3>4. <<>> \o <<>> \o <<s[k]>> = <<s[k]>>
      BY <3>3
    <3>5. Span(s, Postfixes(s), i, j) = <<s[k]>>
      BY <1>9, <2>2, <3>1 DEF Span
    <3>6. QED
      BY <2>1, <3>2, <3>4, <3>5
  <2>3. CASE i # j
    <3>1. TopLevel(s, i, j) # {}
      BY <1>7
    <3>2. QED
      BY <1>8, <1>9, <2>1, <2>3, <3>1 DEF Span
  <2>4. QED
    BY <2>2, <2>3
<1>11. QED
  BY <1>6, <1>7, <1>10

LEMMA BalancedSame ==
  ASSUME NEW s, NEW t, NEW i \in Int, NEW j \in Int, \A k \in i..j : s[k] = t[k],
         i <= j + 1, Balanced(s, i, j)
  PROVE  Balanced(t, i, j)
<1>1. ASSUME NEW k \in Int, k <= j
      PROVE  Opened(s, i, k) = Opened(t, i, k) /\ Closed(s, i, k) = Closed(t, i, k)
  <2>1. \A l \in i..k : s[l] = t[l]
    BY <1>1
  <2>2. QED
    BY <1>1, <2>1, CountSame
<1>2. Opened(s, i, j) = Opened(t, i, j) /\ Closed(s, i, j) = Closed(t, i, j)
  BY <1>1
<1>3. QED
  BY <1>1, <1>2 DEF Balanced

-----------------------------------------------------------------------------
(* The arrangement of stack and queue *)

\* p from behind a up to b is the postfix of c[i..j].
Output(p, a, b, c, i, j) == SubSeq(p, a + 1, b) = Postfixes(c)[i][j]

\* q goes on where p ends.
Extends(q, p) == Len(p) <= Len(q) /\ \A k \in 1..Len(p) : q[k] = p[k]

\* Between the places at[k] in c of neighbours w[k] on the stack, the last of
\* which is the current token, lie complete spans of c; their postfixes, cut
\* at cut[k], are the queue p.
Arranged(w, c, p, at, cut) ==
    LET last == Len(w) IN
    /\ at \in [1..last -> 0..Len(c) + 1] /\ cut \in [1..last -> 0..Len(p)]
    /\ at[1] = 0 /\ at[last] = Len(c) + 1
    /\ cut[1] = 0 /\ cut[last] = Len(p)
    /\ \A k \in 2..last - 1 : c[at[k]] = w[k]
    /\ \A k \in 1..last - 1 :
         /\ at[k] < at[k + 1] /\ cut[k] <= cut[k + 1]
         /\ Segment(c, w[k], w[k + 1], at[k] + 1, at[k + 1] - 1)
         /\ Output(p, cut[k], cut[k + 1], c, at[k] + 1, at[k + 1] - 1)

LEMMA SegmentEmpty ==
  ASSUME NEW s \in Seq(Token), NEW j \in 0..Len(s), NEW l, NEW r
  PROVE  Segment(s, l, r, j + 1, j)
BY EmptySpan DEF Segment

LEMMA SegmentAppend ==
  ASSUME NEW s \in Seq(Token), NEW x \in Token, NEW l, NEW r,
         NEW i \in 1..(Len(s) + 1), NEW j \in 0..Len(s), i <= j + 1,
         Segment(s, l, r, i, j)
  PROVE  Segment(Append(s, x), l, r, i, j)
<1> DEFINE t == Append(s, x)
<1>1. \A k \in 1..Len(s) : s[k] = t[k]
  BY AppendProperties
<1>2. \A k \in i..j : s[k] = t[k] /\ i \in Int /\ j \in Int
  BY <1>1, LenProperties
<1> HIDE DEF t
<1>3. i \in Int /\ j \in Int
  BY LenProperties
<1>4. Balanced(t, i, j)
  BY <1>2, <1>3, BalancedSame DEF Segment
<1>5. TopLevel(s, i, j) = TopLevel(t, i, j)
  BY <1>2, <1>3, TopLevelSame
<1>6. \A m \in TopLevel(s, i, j) : s[m] = t[m]
  BY <1>2 DEF TopLevel
<1>7. Segment(t, l, r, i, j)
  BY <1>4, <1>5, <1>6 DEF Segment
<1>8. QED
  BY <1>7 DEF t

LEMMA SubSeqSame ==
  ASSUME NEW p \in Seq(Token), NEW q \in Seq(Token), Extends(q, p),
         NEW a \in Nat, NEW b \in 0..Len(p)
  PROVE  SubSeq(q, a + 1, b) = SubSeq(p, a + 1, b)
<1>1. Len(p) \in Nat /\ Len(q) \in Nat
  BY LenProperties
<1>2. \A k \in (a + 1)..b : p[k] \in Token /\ q[k] = p[k]
  BY <1>1, ElementOfSeq DEF Extends
<1>3. a + 1 \in Int /\ b \in Int
  BY <1>1
<1>4. /\ SubSeq(p, a + 1, b) \in Seq(Token) /\ SubSeq(q, a + 1, b) \in Seq(Token)
      /\ Len(SubSeq(p, a + 1, b)) = Len(SubSeq(q, a + 1, b))
      /\ Len(SubSeq(p, a + 1, b)) = IF a + 1 <= b THEN b - (a + 1) + 1 ELSE 0
      /\ \A i \in 1..b - (a + 1) + 1 : SubSeq(p, a + 1, b)[i] = p[(a + 1) + i - 1]
      /\ \A i \in 1..b - (a + 1) + 1 : SubSeq(q, a + 1, b)[i] = q[(a + 1) + i - 1]
  <2>1. \A k \in (a + 1)..b : p[k] \in Token
    BY <1>2
  <2>2. \A k \in (a + 1)..b : q[k] \in Token
    BY <1>2
  <2>3. QED
    BY <1>3, <2>1, <2>2, SubSeqProperties
<1>5. ASSUME NEW i \in 1..Len(SubSeq(p, a + 1, b))
      PROVE  SubSeq(p, a + 1, b)[i] = SubSeq(q, a + 1, b)[i]
  <2>1. i \in 1..b - (a + 1) + 1 /\ (a + 1) + i - 1 \in (a + 1)..b
    BY <1>3, <1>4
  <2>2. QED
    BY <1>2, <1>4, <2>1
<1>6. QED
  BY <1>4, <1>5, SeqEqual

\* Nothing is the postfix of nothing.
LEMMA OutputEmpty ==
  ASSUME NEW c \in Seq(Token), NEW j \in 0..Len(c), NEW p, NEW a \in Int
  PROVE  Output(p, a, a, c, j + 1, j)
<1>1. SubSeq(p, a + 1, a) = <<>>
  BY SubSeqEmpty
<1>2. QED
  BY <1>1, EmptySpan DEF Output

LEMMA OutputAppend ==
  ASSUME NEW c \in Seq(Token), NEW x \in Token, NEW p, NEW a, NEW b,
         NEW i \in 1..(Len(c) + 1), NEW j \in 0..Len(c), Output(p, a, b, c, i, j)
  PROVE  Output(p, a, b, Append(c, x), i, j)
BY PostfixesAppend DEF Output

LEMMA OutputExtends ==
  ASSUME NEW p \in Seq(Token), NEW q \in Seq(Token), Extends(q, p),
         NEW a \in Nat, NEW b \in 0..Len(p), NEW c, NEW i, NEW j,
         Output(p, a, b, c, i, j)
  PROVE  Output(q, a, b, c, i, j)
BY SubSeqSame DEF Output

\* What is cut off behind a, with x behind it, in two pieces and x.
LEMMA Pieces ==
  ASSUME NEW p \in Seq(Token), NEW x \in Token,
         NEW b \in 0..Len(p), NEW a \in 0..b
  PROVE  SubSeq(Append(p, x), a + 1, Len(p) + 1)
           = SubSeq(p, a + 1, b) \o SubSeq(p, b + 1, Len(p)) \o <<x>>
<1> DEFINE q == Append(p, x)
           n == Len(p)
<1>1. /\ n \in Nat /\ q \in Seq(Token) /\ Len(q) = n + 1
      /\ \A k \in 1..n : q[k] = p[k]
      /\ q[n + 1] = x
  BY LenProperties, AppendProperties
<1>2. b \in 0..n /\ a \in 0..b
  OBVIOUS
<1> HIDE DEF q, n
<1>3. /\ a + 1 \in 1..n + 2 /\ n + 1 \in (a + 1) - 1..n + 1 /\ n \in (a + 1) - 1..n + 1
      /\ n + 1 \in n..n + 1 /\ b \in (a + 1) - 1..n /\ n \in b..n /\ n \in b..n + 1
  BY <1>1, <1>2
<1>4. SubSeq(q, a + 1, n) \o SubSeq(q, n + 1, n + 1) = SubSeq(q, a + 1, n + 1)
  BY <1>1, <1>3, ConcatAdjacentSubSeq
<1>5. SubSeq(q, a + 1, b) \o SubSeq(q, b + 1, n) = SubSeq(q, a + 1, n)
  BY <1>1, <1>3, ConcatAdjacentSubSeq
<1>6. SubSeq(q, n + 1, n + 1) = <<x>>
  <2>1. SubSeq(q, n + 1, n + 1) = <<q[n + 1]>> \o SubSeq(q, n + 2, n + 1)
    <3>1. n + 1 \in 1..Len(q) /\ n + 1 \in n + 1..Len(q) /\ (n + 1) + 1 = n + 2
      BY <1>1
    <3>2. SubSeq(q, n + 1, n + 1) = <<q[n + 1]>> \o SubSeq(q, (n + 1) + 1, n + 1)
      BY <1>1, <3>1, SubSeqRecursiveFirst
    <3>3. QED
      BY <3>1, <3>2
  <2>2. SubSeq(q, n + 2, n + 1) = <<>>
    BY <1>1, SubSeqEmpty
  <2>3. <<x>> \in Seq(Token)
    OBVIOUS
  <2>4. QED
    BY <1>1, <2>1, <2>2, <2>3, ConcatEmptySeq
<1>7. SubSeq(q, a + 1, b) = SubSeq(p, a + 1, b) /\ SubSeq(q, b + 1, n) = SubSeq(p, b + 1, n)
  <2>1. Extends(q, p)
    BY <1>1 DEF n, Extends
  <2>2. a \in Nat /\ b \in Nat /\ b \in 0..Len(p) /\ n \in 0..Len(p)
    BY <1>1, <1>2 DEF n
  <2>3. QED
    BY <1>1, <2>1, <2>2, SubSeqSame
<1>8. QED
  BY <1>4, <1>5, <1>6, <1>7 DEF q, n

\* An empty expression: nothing read, nothing put out.
LEMMA BeginArranged ==
  ASSUME NEW b \in Token, NEW x \in Token
  PROVE  \E at, cut : Arranged(<<b, x>>, <<>>, <<>>, at, cut)
<1> DEFINE w == <<b, x>>
           at == [k \in 1..2 |-> IF k = 1 THEN 0 ELSE 1]
           cut == [k \in 1..2 |-> 0]
<1>1. Len(w) = 2 /\ w[1] = b /\ w[2] = x
  OBVIOUS
<1>2. <<>> \in Seq(Token) /\ Len(<<>>) = 0
  BY EmptySeq
<1>3. Segment(<<>>, w[1], w[2], 1, 0) /\ Output(<<>>, 0, 0, <<>>, 1, 0)
  <2> DEFINE e == <<>>
             z == 0
  <2>1. e \in Seq(Token) /\ z \in 0..Len(e) /\ z + 1 = 1 /\ z = 0 /\ z \in Int
    BY <1>2
  <2> HIDE DEF w, e, z
  <2>2. Segment(e, w[1], w[2], z + 1, z) /\ Output(e, z, z, e, z + 1, z)
    BY <2>1, SegmentEmpty, OutputEmpty
  <2>3. QED
    BY <2>1, <2>2 DEF e
<1>5. /\ at[1] = 0 /\ at[2] = 1 /\ cut[1] = 0 /\ cut[2] = 0
      /\ at \in [1..2 -> 0..1] /\ cut \in [1..2 -> 0..0]
  OBVIOUS
<1> HIDE DEF w, at, cut
<1>6. ASSUME NEW k \in 1..2 - 1
      PROVE  /\ at[k] < at[k + 1] /\ cut[k] <= cut[k + 1]
             /\ Segment(<<>>, w[k], w[k + 1], at[k] + 1, at[k + 1] - 1)
             /\ Output(<<>>, cut[k], cut[k + 1], <<>>, at[k] + 1, at[k + 1] - 1)
  <2>1. k = 1 /\ k + 1 = 2
    OBVIOUS
  <2>2. /\ at[k] + 1 = 1 /\ at[k + 1] - 1 = 0 /\ cut[k] = 0 /\ cut[k + 1] = 0
        /\ w[k] = w[1] /\ w[k + 1] = w[2]
        /\ at[k] < at[k + 1] /\ cut[k] <= cut[k + 1]
    BY <1>5, <2>1
  <2>3. QED
    BY <1>3, <2>2, Zenon
<1>7. Arranged(w, <<>>, <<>>, at, cut)
  <2>1. 2..2 - 1 = {}
    OBVIOUS
  <2>2. Len(<<>>) + 1 = 1
    BY <1>2
  <2>3. QED
    BY <1>1, <1>2, <1>5, <1>6, <2>1, <2>2 DEF Arranged
<1>8. QED
  BY <1>7 DEF w

\* Between two places lies a span.
LEMMA Between ==
  ASSUME NEW n \in Nat, NEW x \in 0..n + 1, NEW y \in 0..n + 1, x < y
  PROVE  x + 1 \in 1..(n + 1) /\ y - 1 \in 0..n /\ x + 1 <= (y - 1) + 1
OBVIOUS

\* The current token is pushed: behind it nothing has been read.
LEMMA ShiftArranged ==
  ASSUME NEW w \in Seq(Token), NEW c \in Seq(Token), NEW p \in Seq(Token),
         Len(w) >= 2, NEW at, NEW cut, Arranged(w, c, p, at, cut), NEW x \in Token
  PROVE  \E a, b : Arranged(Append(w, x), Append(c, w[Len(w)]), p, a, b)
<1> DEFINE last == Len(w)
           n == Len(c)
           v == Append(w, x)
           y == w[last]
           d == Append(c, y)
           a == [k \in 1..last + 1 |-> IF k = last + 1 THEN n + 2 ELSE at[k]]
           b == [k \in 1..last + 1 |-> IF k = last + 1 THEN Len(p) ELSE cut[k]]
<1>1. last \in Nat /\ n \in Nat /\ Len(p) \in Nat /\ last >= 2 /\ y \in Token
  BY LenProperties, ElementOfSeq
<1>2. /\ Len(v) = last + 1 /\ \A k \in 1..last : v[k] = w[k]
      /\ v[last + 1] = x
  BY AppendProperties
<1>3. /\ d \in Seq(Token) /\ Len(d) = n + 1 /\ d[n + 1] = y
      /\ \A k \in 1..n : d[k] = c[k]
  BY <1>1, AppendProperties
<1>4. /\ at \in [1..last -> 0..n + 1] /\ cut \in [1..last -> 0..Len(p)]
      /\ at[1] = 0 /\ at[last] = n + 1
      /\ cut[1] = 0 /\ cut[last] = Len(p)
      /\ \A k \in 2..last - 1 : c[at[k]] = w[k]
      /\ \A k \in 1..last - 1 :
           /\ at[k] < at[k + 1] /\ cut[k] <= cut[k + 1]
           /\ Segment(c, w[k], w[k + 1], at[k] + 1, at[k + 1] - 1)
           /\ Output(p, cut[k], cut[k + 1], c, at[k] + 1, at[k + 1] - 1)
  BY DEF Arranged
<1>5. /\ a \in [1..last + 1 -> 0..n + 2] /\ b \in [1..last + 1 -> 0..Len(p)]
      /\ \A k \in 1..last : a[k] = at[k] /\ b[k] = cut[k]
      /\ a[last + 1] = n + 2 /\ b[last + 1] = Len(p)
  BY <1>1, <1>4
<1> HIDE DEF a, b
<1>10. ASSUME NEW k \in 1..last - 1
      PROVE  /\ k \in 1..last /\ k + 1 \in 1..last
             /\ at[k] \in 0..n + 1 /\ at[k + 1] \in 0..n + 1 /\ at[k] < at[k + 1]
  <2>1. k \in 1..last /\ k + 1 \in 1..last
    BY <1>1
  <2>2. at[k] < at[k + 1]
    BY <1>4
  <2> HIDE DEF n, last
  <2>3. QED
    BY <1>4, <2>1, <2>2
<1>6. ASSUME NEW k \in 2..last PROVE d[a[k]] = v[k]
  <2>1. CASE k = last
    BY <1>1, <1>2, <1>3, <1>4, <1>5, <2>1
  <2>2. CASE k # last
    <3>1. k \in 2..last - 1 /\ k \in 1..last /\ k - 1 \in 1..last - 1 /\ (k - 1) + 1 = k
      BY <1>1, <2>2
    <3>2. at[k - 1] < at[k] /\ at[k] < at[k + 1] /\ at[k - 1] \in Nat
          /\ at[k] \in Nat /\ at[k + 1] \in 0..n + 1
      <4>1. at[k - 1] < at[(k - 1) + 1] /\ at[k - 1] \in 0..n + 1
        BY <3>1, <1>10
      <4>2. at[k] \in 0..n + 1 /\ at[k + 1] \in 0..n + 1 /\ at[k] < at[k + 1]
        BY <3>1, <1>10
      <4>3. QED
        BY <3>1, <4>1, <4>2
    <3>3. at[k] \in 1..n
      BY <1>1, <3>2
    <3>4. QED
      BY <1>2, <1>3, <1>4, <1>5, <3>1, <3>3
  <2>3. QED
    BY <2>1, <2>2
<1>7. ASSUME NEW k \in 1..last
      PROVE  /\ a[k] < a[k + 1] /\ b[k] <= b[k + 1]
             /\ Segment(d, v[k], v[k + 1], a[k] + 1, a[k + 1] - 1)
             /\ Output(p, b[k], b[k + 1], d, a[k] + 1, a[k + 1] - 1)
  <2>1. CASE k = last
    <3>1. /\ a[k] = n + 1 /\ a[k + 1] = n + 2 /\ b[k] = Len(p) /\ b[k + 1] = Len(p)
          /\ a[k] + 1 = (n + 1) + 1 /\ a[k + 1] - 1 = n + 1
      BY <1>1, <1>4, <1>5, <2>1
    <3>2. n + 1 \in 0..Len(d)
      BY <1>1, <1>3
    <3>3. /\ Segment(d, v[k], v[k + 1], (n + 1) + 1, n + 1)
          /\ Output(p, Len(p), Len(p), d, (n + 1) + 1, n + 1)
      <4> DEFINE z == n + 1
      <4>1. z \in 0..Len(d) /\ Len(p) \in Int
        BY <1>1, <3>2
      <4> HIDE DEF z, d, n, v
      <4>2. Segment(d, v[k], v[k + 1], z + 1, z) /\ Output(p, Len(p), Len(p), d, z + 1, z)
        BY <1>3, <4>1, SegmentEmpty, OutputEmpty
      <4>3. QED
        BY <4>2 DEF z
    <3>4. a[k] < a[k + 1] /\ b[k] <= b[k + 1]
      BY <1>1, <3>1
    <3>5. QED
      BY <3>1, <3>3, <3>4, Zenon
  <2>2. CASE k # last
    <3>1. k \in 1..last - 1 /\ k + 1 \in 1..last
      BY <1>1, <2>2
    <3>2. /\ a[k] = at[k] /\ a[k + 1] = at[k + 1] /\ b[k] = cut[k] /\ b[k + 1] = cut[k + 1]
          /\ v[k] = w[k] /\ v[k + 1] = w[k + 1]
      BY <1>2, <1>5, <3>1
    <3>3. /\ at[k] < at[k + 1] /\ cut[k] <= cut[k + 1]
          /\ Segment(c, w[k], w[k + 1], at[k] + 1, at[k + 1] - 1)
          /\ Output(p, cut[k], cut[k + 1], c, at[k] + 1, at[k + 1] - 1)
      BY <1>4, <3>1
    <3> DEFINE i == at[k] + 1
               j == at[k + 1] - 1
    <3>4. at[k] \in 0..n + 1 /\ at[k + 1] \in 0..n + 1 /\ at[k] < at[k + 1]
      BY <1>10, <3>1
    <3>5. i \in 1..(n + 1) /\ j \in 0..n /\ i <= j + 1
      <4> HIDE DEF n
      <4>1. QED
        BY <1>1, <3>4, Between
    <3> HIDE DEF i, j
    <3>6. Segment(c, w[k], w[k + 1], i, j)
      BY <3>3 DEF i, j
    <3>7. Segment(d, w[k], w[k + 1], i, j)
      BY <1>1, <3>5, <3>6, SegmentAppend
    <3>8. Output(p, cut[k], cut[k + 1], d, i, j)
      <4>1. Output(p, cut[k], cut[k + 1], c, i, j)
        BY <3>3 DEF i, j
      <4>2. QED
        BY <1>1, <3>5, <4>1, OutputAppend
    <3>9. QED
      BY <3>2, <3>3, <3>7, <3>8, Zenon DEF i, j
  <2>3. QED
    BY <2>1, <2>2
<1>8. Arranged(v, d, p, a, b)
  <2>1. (last + 1) - 1 = last /\ (n + 1) + 1 = n + 2 /\ 1 \in 1..last
    BY <1>1
  <2>2. a[1] = 0 /\ b[1] = 0
    BY <1>4, <1>5, <2>1
  <2> HIDE DEF v, d, last, n
  <2>3. QED
    BY <1>2, <1>3, <1>5, <1>6, <1>7, <2>1, <2>2 DEF Arranged
<1>9. QED
  BY <1>8

\* One neighbour pair of an arrangement.
LEMMA ArrangedAt ==
  ASSUME NEW w \in Seq(Token), NEW c \in Seq(Token), NEW p \in Seq(Token),
         NEW at, NEW cut, Arranged(w, c, p, at, cut), NEW k \in 1..Len(w) - 1
  PROVE  /\ k \in 1..Len(w) /\ k + 1 \in 1..Len(w)
         /\ at[k] \in 0..Len(c) + 1 /\ at[k + 1] \in 0..Len(c) + 1 /\ at[k] < at[k + 1]
         /\ cut[k] \in 0..Len(p) /\ cut[k + 1] \in 0..Len(p) /\ cut[k] <= cut[k + 1]
         /\ Segment(c, w[k], w[k + 1], at[k] + 1, at[k + 1] - 1)
         /\ Output(p, cut[k], cut[k + 1], c, at[k] + 1, at[k + 1] - 1)
<1> DEFINE last == Len(w)
           n == Len(c) + 1
           o == Len(p)
<1>1. last \in Nat /\ n \in Nat /\ o \in Nat
  BY LenProperties
<1>2. k \in 1..last - 1
  OBVIOUS
<1>3. /\ at \in [1..last -> 0..n] /\ cut \in [1..last -> 0..o]
      /\ \A l \in 1..last - 1 :
           /\ at[l] < at[l + 1] /\ cut[l] <= cut[l + 1]
           /\ Segment(c, w[l], w[l + 1], at[l] + 1, at[l + 1] - 1)
           /\ Output(p, cut[l], cut[l + 1], c, at[l] + 1, at[l + 1] - 1)
  BY DEF Arranged
<1> HIDE DEF last, n, o
<1>4. k \in 1..last /\ k + 1 \in 1..last
  BY <1>1, <1>2
<1>5. at[k] \in 0..n /\ at[k + 1] \in 0..n /\ cut[k] \in 0..o /\ cut[k + 1] \in 0..o
  BY <1>3, <1>4
<1>6. QED
  BY <1>2, <1>3, <1>4, <1>5 DEF last, n, o

LEMMA Inside ==
  ASSUME NEW n \in Nat, NEW x \in 0..n + 1, NEW y \in 0..n + 1, NEW z \in 0..n + 1,
         x < y, y < z
  PROVE  y \in 1..n
OBVIOUS

\* The places of what lies on the stack, and the ends of an arrangement.
LEMMA ArrangedEnds ==
  ASSUME NEW w \in Seq(Token), NEW c \in Seq(Token), NEW p \in Seq(Token),
         NEW at, NEW cut, Arranged(w, c, p, at, cut)
  PROVE  /\ at[1] = 0 /\ at[Len(w)] = Len(c) + 1
         /\ cut[1] = 0 /\ cut[Len(w)] = Len(p)
         /\ \A k \in 2..Len(w) - 1 : at[k] \in 1..Len(c) /\ c[at[k]] = w[k]
<1>1. ASSUME NEW k \in 2..Len(w) - 1 PROVE at[k] \in 1..Len(c)
  <2> DEFINE h == k - 1
             n == Len(c)
  <2>1. h \in 1..Len(w) - 1 /\ k \in 1..Len(w) - 1 /\ h + 1 = k /\ n \in Nat
    BY LenProperties
  <2> HIDE DEF h
  <2>2. at[h] \in 0..n + 1 /\ at[h] < at[h + 1]
    BY <2>1, ArrangedAt
  <2>3. at[k] \in 0..n + 1 /\ at[k + 1] \in 0..n + 1 /\ at[k] < at[k + 1]
    BY <2>1, ArrangedAt
  <2> HIDE DEF n
  <2>4. at[k] \in 1..n
    <3>1. at[h] < at[k]
      BY <2>1, <2>2
    <3>2. QED
      BY <2>1, <2>2, <2>3, <3>1, Inside
  <2>5. QED
    BY <2>4 DEF n
<1>2. QED
  BY <1>1 DEF Arranged

LEMMA Within ==
  ASSUME NEW n \in Nat, NEW x \in 0..n, NEW o \in Nat, n <= o
  PROVE  x \in 0..o /\ x <= o
OBVIOUS

LEMMA BelowTop ==
  ASSUME NEW n \in Nat, NEW x \in 0..n + 1, NEW y \in 0..n + 1, x < y
  PROVE  x < n + 1
OBVIOUS

\* The m lowest of the stack stay, the rest has gone into the last span.
LEMMA KeepArranged ==
  ASSUME NEW w \in Seq(Token), NEW c \in Seq(Token), NEW p \in Seq(Token),
         NEW at, NEW cut, Arranged(w, c, p, at, cut), NEW m \in 1..Len(w) - 2,
         NEW v \in Seq(Token), Len(v) = m + 1,
         \A k \in 1..m : v[k] = w[k], v[m + 1] = w[Len(w)],
         NEW q \in Seq(Token), Extends(q, p),
         Segment(c, w[m], w[Len(w)], at[m] + 1, Len(c)),
         Output(q, cut[m], Len(q), c, at[m] + 1, Len(c))
  PROVE  \E a, b : Arranged(v, c, q, a, b)
<1> DEFINE last == Len(w)
           n == Len(c)
           o == Len(q)
           a == [k \in 1..m + 1 |-> IF k = m + 1 THEN n + 1 ELSE at[k]]
           b == [k \in 1..m + 1 |-> IF k = m + 1 THEN o ELSE cut[k]]
<1>1. last \in Nat /\ n \in Nat /\ Len(p) \in Nat /\ o \in Nat /\ m \in 1..last - 2
  BY LenProperties
<1>2. ASSUME NEW k \in 1..m
      PROVE  /\ k \in 1..last - 1
             /\ at[k] \in 0..n + 1 /\ at[k + 1] \in 0..n + 1 /\ at[k] < at[k + 1]
             /\ cut[k] \in 0..Len(p) /\ cut[k + 1] \in 0..Len(p) /\ cut[k] <= cut[k + 1]
             /\ Segment(c, w[k], w[k + 1], at[k] + 1, at[k + 1] - 1)
             /\ Output(p, cut[k], cut[k + 1], c, at[k] + 1, at[k + 1] - 1)
  <2>1. k \in 1..Len(w) - 1
    BY <1>1
  <2>2. QED
    BY <2>1, ArrangedAt
<1>3. \A k \in 1..m : a[k] = at[k] /\ b[k] = cut[k]
  BY <1>1
<1>4. a[m + 1] = n + 1 /\ b[m + 1] = o
  BY <1>1
<1>5. a \in [1..m + 1 -> 0..n + 1] /\ b \in [1..m + 1 -> 0..o]
  <2>1. \A k \in 1..m : at[k] \in 0..n + 1 /\ cut[k] \in 0..Len(p)
    BY <1>2
  <2> HIDE DEF n, o
  <2>2. \A k \in 1..m : cut[k] \in 0..o
    <3>1. Len(p) <= o
      BY DEF o, Extends
    <3>2. QED
      BY <1>1, <2>1, <3>1, Within
  <2>3. QED
    BY <1>1, <2>1, <2>2
<1> HIDE DEF a, b
<1>6. ASSUME NEW k \in 2..m PROVE c[a[k]] = v[k]
  <2>1. k \in 2..Len(w) - 1 /\ k \in 1..m
    BY <1>1
  <2>2. QED
    BY <1>3, <2>1, ArrangedEnds
<1>7. ASSUME NEW k \in 1..m
      PROVE  /\ a[k] < a[k + 1] /\ b[k] <= b[k + 1]
             /\ Segment(c, v[k], v[k + 1], a[k] + 1, a[k + 1] - 1)
             /\ Output(q, b[k], b[k + 1], c, a[k] + 1, a[k + 1] - 1)
  <2>1. CASE k = m
    <3>1. /\ a[k] = at[m] /\ a[k + 1] = n + 1 /\ b[k] = cut[m] /\ b[k + 1] = o
          /\ v[k] = w[m] /\ v[k + 1] = w[last]
      BY <1>1, <1>3, <1>4, <2>1
    <3>2. a[k] + 1 = at[m] + 1 /\ a[k + 1] - 1 = n
      BY <1>1, <3>1
    <3>3. a[k] < a[k + 1] /\ b[k] <= b[k + 1]
      <4>1. /\ at[m] \in 0..n + 1 /\ at[m + 1] \in 0..n + 1 /\ at[m] < at[m + 1]
            /\ cut[m] \in 0..Len(p)
        BY <1>2, <2>1
      <4>2. Len(p) <= o
        BY DEF Extends
      <4> HIDE DEF n, o
      <4>3. at[m] < n + 1 /\ cut[m] <= o
        BY <1>1, <4>1, <4>2, Within, BelowTop
      <4>4. QED
        BY <3>1, <4>3
    <3>4. /\ Segment(c, v[k], v[k + 1], a[k] + 1, a[k + 1] - 1)
          /\ Output(q, b[k], b[k + 1], c, a[k] + 1, a[k + 1] - 1)
      BY <3>1, <3>2, Zenon
    <3>5. QED
      BY <3>1, <3>3, <3>4
  <2>2. CASE k # m
    <3>1. k \in 1..m /\ k + 1 \in 1..m
      BY <1>1, <2>2
    <3>2. /\ a[k] = at[k] /\ a[k + 1] = at[k + 1] /\ b[k] = cut[k] /\ b[k + 1] = cut[k + 1]
          /\ v[k] = w[k] /\ v[k + 1] = w[k + 1]
      BY <1>3, <3>1
    <3>3. Output(q, cut[k], cut[k + 1], c, at[k] + 1, at[k + 1] - 1)
      <4>1. cut[k] \in Nat /\ cut[k + 1] \in 0..Len(p)
        <5>1. cut[k] \in 0..Len(p) /\ cut[k + 1] \in 0..Len(p)
          BY <1>2, <3>1
        <5>2. QED
          BY <5>1
      <4>2. Output(p, cut[k], cut[k + 1], c, at[k] + 1, at[k + 1] - 1)
        BY <1>2, <3>1
      <4>3. QED
        BY <4>1, <4>2, OutputExtends
    <3>4. QED
      BY <1>2, <3>1, <3>2, <3>3
  <2>3. QED
    BY <2>1, <2>2
<1>8. Arranged(v, c, q, a, b)
  <2>1. (m + 1) - 1 = m /\ 1 \in 1..m
    BY <1>1
  <2>2. a[1] = 0 /\ b[1] = 0
    <3>1. at[1] = 0 /\ cut[1] = 0
      BY ArrangedEnds
    <3>2. QED
      BY <1>3, <2>1, <3>1
  <2> HIDE DEF last, n, o
  <2>3. Len(c) = n /\ Len(q) = o
    BY DEF n, o
  <2>4. QED
    BY <1>4, <1>5, <1>6, <1>7, <2>1, <2>2, <2>3 DEF Arranged
<1>9. QED
  BY <1>8

\* Where a span is empty, nothing of it is in the queue.
LEMMA EmptyPiece ==
  ASSUME NEW c \in Seq(Token), NEW p \in Seq(Token), NEW j \in 0..Len(c),
         NEW a \in 0..Len(p), NEW b \in 0..Len(p), a <= b,
         Output(p, a, b, c, j + 1, j)
  PROVE  a = b
<1>1. SubSeq(p, a + 1, b) = <<>>
  BY EmptySpan DEF Output
<1>2. Len(p) \in Nat /\ a \in Int /\ b \in Int
  BY LenProperties
<1>3. \A k \in (a + 1)..b : p[k] \in Token
  BY <1>2, ElementOfSeq
<1>4. Len(SubSeq(p, a + 1, b)) = IF a + 1 <= b THEN b - (a + 1) + 1 ELSE 0
  BY <1>2, <1>3, SubSeqProperties
<1>5. Len(<<>>) = 0
  OBVIOUS
<1>6. ~(a + 1 <= b)
  BY <1>1, <1>2, <1>4, <1>5
<1>7. QED
  BY <1>2, <1>6

-----------------------------------------------------------------------------
(* What a reduction joins *)

\* The operand s[k] behind and before empty spans.
LEMMA JoinOperand ==
  ASSUME NEW s \in Seq(Token), NEW p \in Seq(Token), NEW k \in 1..Len(s), NEW i \in 1..k,
         NEW b \in 0..Len(p), NEW a \in 0..b, NEW l, NEW r,
         Element(s[k]) = "Po",
         Element(l) \notin {"Po", "Prp"}, Element(r) \notin {"Po", "Plp"},
         Segment(s, l, s[k], i, k - 1), Output(p, a, b, s, i, k - 1),
         Segment(s, s[k], r, k + 1, Len(s)), Output(p, b, Len(p), s, k + 1, Len(s))
  PROVE  /\ Segment(s, l, r, i, Len(s))
         /\ Output(Append(p, s[k]), a, Len(p) + 1, s, i, Len(s))
<1>1. Len(s) \in Nat /\ Len(p) \in Nat /\ s[k] \in Token
  BY LenProperties, ElementOfSeq
<1>2. i = (k - 1) + 1 /\ k + 1 = Len(s) + 1
  BY DEF Segment
<1>3. i = k /\ Len(s) = k
  BY <1>1, <1>2
<1>4. Postfixes(s)[k][k] = <<s[k]>> /\ Balanced(s, k, k) /\ TopLevel(s, k, k) = {}
  BY OperandSpan
<1>5. Segment(s, l, r, k, k)
  BY <1>4 DEF Segment
<1>6. SubSeq(Append(p, s[k]), a + 1, Len(p) + 1)
        = SubSeq(p, a + 1, b) \o SubSeq(p, b + 1, Len(p)) \o <<s[k]>>
  BY <1>1, Pieces
<1>7. SubSeq(p, a + 1, b) = <<>>
  <2> DEFINE z == k - 1
  <2>1. z \in 0..Len(s) /\ i = z + 1
    BY <1>1, <1>3
  <2>2. SubSeq(p, a + 1, b) = Postfixes(s)[i][z]
    BY DEF Output
  <2> HIDE DEF z
  <2>3. QED
    BY <2>1, <2>2, EmptySpan
<1>8. SubSeq(p, b + 1, Len(p)) = <<>>
  <2>1. k \in 0..Len(s)
    BY <1>1
  <2>2. SubSeq(p, b + 1, Len(p)) = Postfixes(s)[k + 1][k]
    BY <1>3 DEF Output
  <2>3. QED
    BY <2>1, <2>2, EmptySpan
<1>9. <<>> \o <<>> \o <<s[k]>> = <<s[k]>>
  <2>1. <<s[k]>> \in Seq(Token)
    BY <1>1
  <2>2. QED
    BY <2>1
<1>10. SubSeq(Append(p, s[k]), a + 1, Len(p) + 1) = Postfixes(s)[k][k]
  BY <1>4, <1>6, <1>7, <1>8, <1>9
<1>11. QED
  BY <1>3, <1>5, <1>10 DEF Output

\* The operator s[k] between its operands: those around wait for it.
LEMMA JoinOperator ==
  ASSUME NEW s \in Seq(Token), NEW p \in Seq(Token), NEW k \in 1..Len(s), NEW i \in 1..k,
         NEW b \in 0..Len(p), NEW a \in 0..b, NEW l, NEW r,
         Element(s[k]) \in Operators,
         Element(l) \notin {"Po", "Prp"}, Element(r) \notin {"Po", "Plp"},
         Element(l) \in Operators => Binds(l) < Binds(s[k]),
         Element(r) \in Operators => Binds(r) <= Binds(s[k]),
         Segment(s, l, s[k], i, k - 1), Output(p, a, b, s, i, k - 1),
         Segment(s, s[k], r, k + 1, Len(s)), Output(p, b, Len(p), s, k + 1, Len(s))
  PROVE  /\ Segment(s, l, r, i, Len(s))
         /\ Output(Append(p, s[k]), a, Len(p) + 1, s, i, Len(s))
<1>1. Len(s) \in Nat /\ Len(p) \in Nat /\ s[k] \in Token /\ Len(s) \in k..Len(s)
  BY LenProperties, ElementOfSeq
<1>2. /\ Balanced(s, i, k - 1) /\ Balanced(s, k + 1, Len(s))
      /\ \A t \in TopLevel(s, i, k - 1) : Binds(s[k]) <= Binds(s[t])
      /\ \A t \in TopLevel(s, k + 1, Len(s)) : Binds(s[k]) < Binds(s[t])
  BY DEF Segment
<1>3. /\ Postfixes(s)[i][Len(s)] =
           Postfixes(s)[i][k - 1] \o Postfixes(s)[k + 1][Len(s)] \o <<s[k]>>
      /\ Balanced(s, i, Len(s))
      /\ \A m \in TopLevel(s, i, Len(s)) :
           m \in TopLevel(s, i, k - 1) \/ m = k \/ m \in TopLevel(s, k + 1, Len(s))
  BY <1>1, OperatorSpan
<1>4. ASSUME NEW t \in TopLevel(s, i, Len(s))
      PROVE  /\ Element(l) \in Operators => Binds(l) < Binds(s[t])
             /\ Element(r) \in Operators => Binds(r) <= Binds(s[t])
  <2>1. \A u : Element(u) \in Operators => Binds(u) \in Int
    BY BindingFacts DEF Binds
  <2>2. Element(s[t]) \in Operators
    BY DEF TopLevel
  <2>3. Binds(s[k]) \in Int /\ Binds(s[t]) \in Int
    BY <2>1, <2>2
  <2>4. CASE t = k
    BY <2>4
  <2>5. CASE t \in TopLevel(s, i, k - 1)
    <3>1. Element(l) \in Operators => Binds(l) < Binds(s[t])
      BY <2>5 DEF Segment
    <3>2. Binds(s[k]) <= Binds(s[t])
      BY <1>2, <2>5
    <3>3. QED
      BY <2>1, <2>3, <3>1, <3>2
  <2>6. CASE t \in TopLevel(s, k + 1, Len(s))
    <3>1. Element(r) \in Operators => Binds(r) <= Binds(s[t])
      BY <2>6 DEF Segment
    <3>2. Binds(s[k]) < Binds(s[t])
      BY <1>2, <2>6
    <3>3. QED
      BY <2>1, <2>3, <3>1, <3>2
  <2>7. QED
    BY <1>3, <2>4, <2>5, <2>6
<1>5. Segment(s, l, r, i, Len(s))
  BY <1>3, <1>4 DEF Segment
<1>6. SubSeq(Append(p, s[k]), a + 1, Len(p) + 1)
        = SubSeq(p, a + 1, b) \o SubSeq(p, b + 1, Len(p)) \o <<s[k]>>
  BY <1>1, Pieces
<1>7. Output(Append(p, s[k]), a, Len(p) + 1, s, i, Len(s))
  BY <1>3, <1>6 DEF Output
<1>8. QED
  BY <1>5, <1>7

\* The parentheses s[i] and s[k] around what lies between them.
LEMMA JoinParentheses ==
  ASSUME NEW s \in Seq(Token), NEW p \in Seq(Token), NEW k \in 1..Len(s),
         NEW i \in 1..Len(s), i < k, NEW f \in Int, NEW l, NEW r,
         NEW a \in 0..Len(p), NEW g \in 0..Len(p), NEW h \in 0..Len(p), a <= g, h <= Len(p),
         Element(s[i]) = "Plp", Element(s[k]) = "Prp",
         Element(l) \notin {"Po", "Prp"}, Element(r) \notin {"Po", "Plp"},
         Segment(s, l, s[i], f, i - 1), Output(p, a, g, s, f, i - 1),
         Segment(s, s[i], s[k], i + 1, k - 1), Output(p, g, h, s, i + 1, k - 1),
         Segment(s, s[k], r, k + 1, Len(s)), Output(p, h, Len(p), s, k + 1, Len(s))
  PROVE  /\ Segment(s, l, r, f, Len(s))
         /\ Output(p, a, Len(p), s, f, Len(s))
<1>1. Len(s) \in Nat /\ Len(p) \in Nat
  BY LenProperties
<1>2. f = (i - 1) + 1 /\ k + 1 = Len(s) + 1
  BY DEF Segment
<1>3. f = i /\ Len(s) = k
  BY <1>1, <1>2
<1>4. a = g
  <2> DEFINE z == i - 1
  <2>1. z \in 0..Len(s) /\ f = z + 1
    BY <1>1, <1>3
  <2> HIDE DEF z
  <2>2. Output(p, a, g, s, z + 1, z)
    BY <2>1 DEF z
  <2>3. QED
    BY <2>1, <2>2, EmptyPiece
<1>5. h = Len(p)
  <2>1. k \in 0..Len(s) /\ Len(p) \in 0..Len(p)
    BY <1>1
  <2>2. Output(p, h, Len(p), s, k + 1, k)
    BY <1>3
  <2>3. QED
    BY <2>1, <2>2, EmptyPiece
<1>6. Balanced(s, i + 1, k - 1)
  BY DEF Segment
<1>7. /\ Postfixes(s)[i][k] = Postfixes(s)[i + 1][k - 1]
      /\ Balanced(s, i, k) /\ TopLevel(s, i, k) = {}
  BY <1>6, ParenthesesSpan
<1>8. Segment(s, l, r, i, k)
  BY <1>7 DEF Segment
<1>9. Output(p, a, Len(p), s, i, k)
  BY <1>4, <1>5, <1>7 DEF Output
<1>10. QED
  BY <1>3, <1>8, <1>9

\* The spans below and above the top w[m + 1] of the stack, the top between them.
AtTop(w, c, p, at, cut, m) ==
    /\ at[m] \in 0..Len(c) /\ at[m + 1] \in 1..Len(c) /\ at[m] < at[m + 1]
    /\ cut[m] \in 0..Len(p) /\ cut[m + 1] \in 0..Len(p) /\ cut[m] <= cut[m + 1]
    /\ c[at[m + 1]] = w[m + 1]
    /\ Segment(c, w[m], c[at[m + 1]], at[m] + 1, at[m + 1] - 1)
    /\ Segment(c, c[at[m + 1]], w[m + 2], at[m + 1] + 1, Len(c))
    /\ Output(p, cut[m], cut[m + 1], c, at[m] + 1, at[m + 1] - 1)
    /\ Output(p, cut[m + 1], Len(p), c, at[m + 1] + 1, Len(c))

LEMMA TopArranged ==
  ASSUME NEW w \in Seq(Token), NEW c \in Seq(Token), NEW p \in Seq(Token),
         NEW at, NEW cut, Arranged(w, c, p, at, cut),
         NEW m \in 1..Len(w), m + 2 = Len(w)
  PROVE  AtTop(w, c, p, at, cut, m)
<1> DEFINE k == m + 1
           n == Len(c)
           last == Len(w)
<1>1. last \in Nat /\ n \in Nat /\ Len(p) \in Nat /\ m \in 1..last /\ m + 2 = last
  BY LenProperties
<1>2. m \in 1..Len(w) - 1 /\ k \in 1..Len(w) - 1 /\ k \in 2..Len(w) - 1
  BY <1>1
<1>3. /\ at[m] \in 0..n + 1 /\ at[m] < at[k]
      /\ cut[m] \in 0..Len(p) /\ cut[m] <= cut[k]
      /\ Segment(c, w[m], w[k], at[m] + 1, at[k] - 1)
      /\ Output(p, cut[m], cut[k], c, at[m] + 1, at[k] - 1)
  BY <1>2, ArrangedAt
<1>4. at[k] \in 1..n /\ c[at[k]] = w[k]
  BY <1>1, <1>2, ArrangedEnds
<1>5. at[last] = n + 1 /\ cut[last] = Len(p)
  BY ArrangedEnds
<1> HIDE DEF k
<1>6. /\ cut[k] \in 0..Len(p)
      /\ Segment(c, w[k], w[k + 1], at[k] + 1, at[k + 1] - 1)
      /\ Output(p, cut[k], cut[k + 1], c, at[k] + 1, at[k + 1] - 1)
  BY <1>2, ArrangedAt
<1>7. k + 1 = last /\ k = m + 1 /\ m + 2 = last
  BY <1>1 DEF k
<1>8. w[k] \in Token
  BY <1>1, <1>7, ElementOfSeq
<1> HIDE DEF n, last
<1>9. at[k + 1] - 1 = n /\ cut[k + 1] = Len(p)
  <2>1. at[k + 1] = n + 1 /\ cut[k + 1] = Len(p)
    BY <1>5, <1>7
  <2>2. QED
    BY <1>1, <2>1
<1>10. at[m] \in 0..n
  BY <1>1, <1>3, <1>4
<1>11. /\ Segment(c, w[k], w[last], at[k] + 1, n)
       /\ Output(p, cut[k], Len(p), c, at[k] + 1, n)
  BY <1>6, <1>7, <1>9, Zenon
<1>12. w[m + 2] = w[last]
  BY <1>7
<1>13. /\ Segment(c, w[m], c[at[k]], at[m] + 1, at[k] - 1)
       /\ Segment(c, c[at[k]], w[m + 2], at[k] + 1, n)
  BY <1>3, <1>4, <1>11, <1>12, Zenon
<1>14. QED
  BY <1>3, <1>4, <1>6, <1>8, <1>10, <1>11, <1>12, <1>13 DEF k, n, AtTop

-----------------------------------------------------------------------------
(* The table and the stack in a reduction *)

\* What can be reduced, before what; on what and what can be pushed.
LEMMA TableOperations ==
  ASSUME NEW a \in Elements, NEW b \in Elements
  PROVE  /\ precedent_table[a][b] = ">" =>
              /\ a \in Operators \cup {"Po", "Prp"}
              /\ b \notin {"Po", "Plp"}
         /\ precedent_table[a][b] \in {"<", "="} => a \notin {"Po", "Prp"}
BY DEF Elements, Operators, precedent_table, Row, err

\* Comparing what binds.
LEMMA TableBinds ==
  ASSUME NEW x, NEW y, Element(x) \in Operators, Element(y) \in Operators
  PROVE  /\ precedent_table[Element(x)][Element(y)] = ">" => Binds(y) <= Binds(x)
         /\ precedent_table[Element(x)][Element(y)] \in {"<", "="} => Binds(x) < Binds(y)
BY BindingFacts DEF Binds

LEMMA FrontPlaces ==
  ASSUME NEW s \in Seq(Token), Len(s) > 1
  PROVE  /\ Front(s) \in Seq(Token) /\ Len(Front(s)) = Len(s) - 1
         /\ \A k \in 1..Len(s) - 1 : Front(s)[k] = s[k]
<1>1. Len(s) \in Nat /\ \A k \in 1..Len(s) - 1 : s[k] \in Token
  BY LenProperties, ElementOfSeq
<1>2. 1 \in Int /\ Len(s) - 1 \in Int /\ 1 <= Len(s) - 1
  BY <1>1
<1>3. Front(s) = SubSeq(s, 1, Len(s) - 1)
  BY DEF Front
<1>4. QED
  BY <1>1, <1>2, <1>3, SubSeqProperties

\* A reduction keeps the m lowest of the stack and the token behind it.
LEMMA PoppedPlaces ==
  ASSUME NEW s \in Seq(Token), Linked(s), NEW x \in Token, Element(Last(s)) # "Pend"
  PROVE  \E m \in Nat :
           /\ m \in 1..Len(s) - 1 /\ Len(Append(Popped(s), x)) = m + 1
           /\ \A k \in 1..m : Append(Popped(s), x)[k] = Append(s, x)[k]
           /\ Append(Popped(s), x)[m + 1] = x
           /\ IF Element(Last(s)) = "Prp"
              THEN m = Len(s) - 2 /\ Element(s[m + 1]) = "Plp"
              ELSE m = Len(s) - 1
<1> DEFINE n == Len(s)
           z == n - 1
<1>1. n \in Nat /\ n > 1 /\ Last(s) = s[n]
  <2>1. Len(s) \in Nat /\ Len(s) >= 1
    BY LenProperties, EmptySeq DEF Linked
  <2>2. Len(s) # 1
    BY EndOfStackType DEF Linked, Last
  <2>3. Last(s) = s[n]
    BY DEF Last
  <2>4. n \in Nat /\ n >= 1 /\ n # 1
    BY <2>1, <2>2
  <2> HIDE DEF n
  <2>5. n > 1
    BY <2>4
  <2>6. QED
    BY <2>3, <2>4, <2>5
<1>2. /\ Front(s) \in Seq(Token) /\ Len(Front(s)) = z
      /\ \A k \in 1..z : Front(s)[k] = s[k]
  BY <1>1, FrontPlaces
<1>3. \A k \in 1..n : Append(s, x)[k] = s[k]
  BY AppendProperties
<1>4. Popped(s) \in Seq(Token)
  BY PoppedLinked
<1>5. /\ Len(Append(Popped(s), x)) = Len(Popped(s)) + 1
      /\ \A k \in 1..Len(Popped(s)) : Append(Popped(s), x)[k] = Popped(s)[k]
      /\ Append(Popped(s), x)[Len(Popped(s)) + 1] = x
  BY <1>4, AppendProperties
<1>6. z \in 1..n - 1 /\ z + 1 = n
  BY <1>1
<1>7. Element(Last(s)) = "Prp" => Element(s[z]) = "Plp"
  <2>1. z \in 1..Len(s) - 1
    BY <1>6
  <2>2. precedent_table[Element(s[z])][Element(s[z + 1])] \in {"<", "="}
    BY <2>1 DEF Linked
  <2>3. Last(s) = s[z + 1]
    BY <1>1, <1>6
  <2>4. QED
    BY <2>2, <2>3, ElementType, TableFacts
<1>8. Last(Front(s)) = s[z]
  <2>1. z \in 1..z
    BY <1>1
  <2>2. QED
    BY <1>2, <2>1 DEF Last
<1>9. CASE Element(Last(s)) # "Prp"
  <2>1. Popped(s) = Front(s)
    BY <1>9 DEF Popped
  <2>2. \A k \in 1..z : k \in 1..n
    BY <1>1
  <2> HIDE DEF z
  <2>3. /\ Len(Append(Popped(s), x)) = z + 1
        /\ \A k \in 1..z : Append(Popped(s), x)[k] = Append(s, x)[k]
        /\ Append(Popped(s), x)[z + 1] = x
    BY <1>2, <1>3, <1>5, <2>1, <2>2
  <2>4. z \in Nat /\ z \in 1..Len(s) - 1 /\ z = Len(s) - 1
    BY <1>6 DEF z
  <2>5. QED
    BY <1>9, <2>3, <2>4
<1>10. CASE Element(Last(s)) = "Prp"
  <2> DEFINE y == z - 1
  <2>1. Popped(s) = Front(Front(s))
    BY <1>7, <1>8, <1>10 DEF Popped
  <2>2. z # 1
    BY <1>7, <1>10, EndOfStackType DEF Linked
  <2>3. Len(Front(s)) > 1
    BY <1>2, <1>6, <2>2
  <2>4. /\ Len(Popped(s)) = y
        /\ \A k \in 1..y : Popped(s)[k] = Front(s)[k]
    BY <1>2, <2>1, <2>3, FrontPlaces
  <2>5. \A k \in 1..y : k \in 1..z /\ k \in 1..n
    BY <1>1
  <2>6. y \in Nat /\ y \in 1..Len(s) - 1 /\ y = Len(s) - 2 /\ y + 1 = z
    <3>1. n \in Nat /\ n > 1 /\ n # 2
      BY <1>1, <2>2
    <3> HIDE DEF n
    <3>2. y \in Nat /\ y \in 1..n - 1 /\ y = n - 2 /\ y + 1 = z
      BY <3>1
    <3>3. QED
      BY <3>2 DEF n
  <2> HIDE DEF y, z
  <2>7. /\ Len(Append(Popped(s), x)) = y + 1
        /\ \A k \in 1..y : Append(Popped(s), x)[k] = Append(s, x)[k]
        /\ Append(Popped(s), x)[y + 1] = x
    BY <1>2, <1>3, <1>5, <2>4, <2>5
  <2>8. Element(s[y + 1]) = "Plp"
    BY <1>7, <1>10, <2>6
  <2>9. QED
    BY <1>10, <2>6, <2>7, <2>8
<1>11. QED
  BY <1>9, <1>10

LEMMA FromTo ==
  ASSUME NEW n \in Nat, NEW x \in 0..n + 1, NEW y \in 1..n, x < y
  PROVE  x + 1 \in 1..y /\ x + 1 \in Int
OBVIOUS

LEMMA UpTo ==
  ASSUME NEW n \in Nat, NEW x \in 0..n, NEW y \in 0..n, x <= y
  PROVE  x \in 0..y /\ y <= n
OBVIOUS

\* The queue goes on in a reduction.
LEMMA AppendExtends ==
  ASSUME NEW p \in Seq(Token), NEW x \in Token
  PROVE  Append(p, x) \in Seq(Token) /\ Len(Append(p, x)) = Len(p) + 1
         /\ Extends(Append(p, x), p) /\ Extends(p, p)
<1>1. /\ Append(p, x) \in Seq(Token) /\ Len(Append(p, x)) = Len(p) + 1
      /\ \A k \in 1..Len(p) : Append(p, x)[k] = p[k]
  BY AppendProperties
<1>2. Len(p) \in Nat
  BY LenProperties
<1>3. Len(p) <= Len(Append(p, x)) /\ Len(p) <= Len(p)
  BY <1>1, <1>2
<1>4. QED
  BY <1>1, <1>3 DEF Extends

\* The top of the stack is complete.
LEMMA ReduceArranged ==
  ASSUME NEW s \in Seq(Token), Linked(s), NEW x \in Token,
         precedent_table[Element(Last(s))][Element(x)] = ">",
         NEW c \in Seq(Token), NEW p \in Seq(Token), NEW at, NEW cut,
         Arranged(Append(s, x), c, p, at, cut)
  PROVE  \E a, b :
           Arranged(Append(Popped(s), x), c,
                    IF Parenthesis(Last(s)) THEN p ELSE Append(p, Last(s)), a, b)
<1> DEFINE w == Append(s, x)
           v == Append(Popped(s), x)
           top == Last(s)
           n == Len(s)
<1>1. /\ Element(top) \in Operators \cup {"Po", "Prp"} /\ Element(top) # "Pend"
      /\ Element(x) \notin {"Po", "Plp"}
  BY ElementType, TableOperations DEF Operators
<1>2. PICK m \in Nat :
           /\ m \in 1..n - 1 /\ Len(v) = m + 1
           /\ \A k \in 1..m : v[k] = w[k]
           /\ v[m + 1] = x
           /\ IF Element(top) = "Prp"
              THEN m = n - 2 /\ Element(s[m + 1]) = "Plp"
              ELSE m = n - 1
  <2>1. Element(Last(s)) # "Pend"
    BY <1>1
  <2>2. QED
    BY <2>1, PoppedPlaces
<1>3. /\ w \in Seq(Token) /\ Len(w) = n + 1 /\ n \in Nat
      /\ w[n + 1] = x /\ \A k \in 1..n : w[k] = s[k]
  BY AppendProperties, LenProperties
<1>4. w[n] = top /\ top = s[n]
  <2>1. n \in 1..n
    BY <1>2, <1>3
  <2>2. top = s[n]
    BY DEF Last
  <2>3. QED
    BY <1>3, <2>1, <2>2
<1>5. v \in Seq(Token)
  <2>1. Popped(s) \in Seq(Token)
    BY <1>1, PoppedLinked
  <2>2. QED
    BY <2>1, AppendProperties
<1>6. top \in Token
  BY <1>2, <1>3, <1>4, ElementOfSeq
<1>7. Arranged(w, c, p, at, cut)
  OBVIOUS
<1>8. \A k \in 1..n - 1 : precedent_table[Element(s[k])][Element(s[k + 1])] \in {"<", "="}
  BY DEF Linked
<1>9. precedent_table[Element(top)][Element(x)] = ">"
  OBVIOUS
<1> HIDE DEF w, v, top, n
<1>10. /\ m \in 1..Len(w) /\ m \in 1..Len(w) - 2 /\ m + 1 \in 1..n /\ m \in 1..n
       /\ Len(w) = n + 1 /\ w[m] = s[m] /\ w[m + 1] = s[m + 1] /\ v[m + 1] = w[Len(w)]
  <2>1. m \in 1..n + 1 /\ m \in 1..(n + 1) - 2 /\ m + 1 \in 1..n /\ m \in 1..n
    BY <1>2, <1>3
  <2>2. QED
    BY <1>2, <1>3, <2>1
<1>11. Element(w[m]) \notin {"Po", "Prp"} /\ Element(w[Len(w)]) \notin {"Po", "Plp"}
  <2>1. precedent_table[Element(s[m])][Element(s[m + 1])] \in {"<", "="}
    BY <1>2, <1>8
  <2>2. QED
    BY <1>1, <1>3, <1>10, <2>1, ElementType, TableOperations
<1>12. CASE Element(top) = "Prp"
  <2>1. m + 2 = n /\ Element(s[m + 1]) = "Plp"
    BY <1>2, <1>3, <1>12
  <2> DEFINE h == m + 1
  <2>2. h \in 1..Len(w) /\ h + 2 = Len(w) /\ h \in 2..Len(w) - 1 /\ h + 1 = n
        /\ m \in 1..Len(w) - 1
    BY <1>3, <1>10, <2>1
  <2>3. /\ at[m] \in 0..Len(c) + 1 /\ at[m] < at[m + 1]
        /\ cut[m] \in 0..Len(p) /\ cut[m] <= cut[m + 1]
        /\ Segment(c, w[m], w[m + 1], at[m] + 1, at[m + 1] - 1)
        /\ Output(p, cut[m], cut[m + 1], c, at[m] + 1, at[m + 1] - 1)
    BY <1>3, <1>7, <2>2, ArrangedAt
  <2> HIDE DEF h
  <2>4. at[h] \in 1..Len(c) /\ c[at[h]] = w[h]
    <3>1. \A k \in 2..Len(w) - 1 : at[k] \in 1..Len(c) /\ c[at[k]] = w[k]
      BY <1>3, <1>7, ArrangedEnds
    <3>2. QED
      BY <2>2, <3>1
  <2>5. /\ at[h + 1] \in 1..Len(c) /\ at[h] < at[h + 1]
        /\ cut[h] \in 0..Len(p) /\ cut[h + 1] \in 0..Len(p)
        /\ c[at[h + 1]] = w[h + 1]
        /\ Segment(c, w[h], c[at[h + 1]], at[h] + 1, at[h + 1] - 1)
        /\ Segment(c, c[at[h + 1]], w[h + 2], at[h + 1] + 1, Len(c))
        /\ Output(p, cut[h], cut[h + 1], c, at[h] + 1, at[h + 1] - 1)
        /\ Output(p, cut[h + 1], Len(p), c, at[h + 1] + 1, Len(c))
    <3>1. AtTop(w, c, p, at, cut, h)
      BY <1>3, <1>7, <2>2, TopArranged
    <3>2. QED
      BY <2>2, <3>1 DEF AtTop
  <2> DEFINE l == w[m]
             r == w[Len(w)]
             i == at[h]
             k == at[h + 1]
             f == at[m] + 1
             a == cut[m]
             g == cut[h]
             e == cut[h + 1]
  <2>6. /\ i \in 1..Len(c) /\ k \in 1..Len(c) /\ i < k
        /\ g \in 0..Len(p) /\ e \in 0..Len(p) /\ a \in 0..Len(p) /\ a <= g
        /\ Segment(c, c[i], c[k], i + 1, k - 1)
        /\ Segment(c, c[k], r, k + 1, Len(c))
        /\ Output(p, g, e, c, i + 1, k - 1)
        /\ Output(p, e, Len(p), c, k + 1, Len(c))
    <3>1. w[h + 2] = r
      BY <2>2
    <3>2. a <= g
      BY <2>3 DEF h
    <3>3. QED
      BY <2>3, <2>4, <2>5, <3>1, <3>2, Zenon
  <2>7. Segment(c, l, c[i], f, i - 1) /\ Output(p, a, g, c, f, i - 1)
    <3>1. m + 1 = h
      BY DEF h
    <3>2. QED
      BY <2>3, <2>4, <3>1
  <2>8. f \in Int /\ e <= Len(p)
    <3>1. Len(c) \in Nat /\ Len(p) \in Nat /\ Len(p) \in 0..Len(p)
      BY LenProperties
    <3>2. at[m + 1] \in 1..Len(c)
      BY <2>4 DEF h
    <3>3. cut[h + 1] <= Len(p)
      BY <2>5, <3>1
    <3>4. QED
      BY <2>3, <3>1, <3>2, <3>3, FromTo
  <2>9. Element(c[i]) = "Plp" /\ Element(c[k]) = "Prp"
    <3>1. w[h + 1] = top
      BY <1>4, <2>2
    <3>2. w[h] = s[m + 1]
      BY <1>10 DEF h
    <3>3. QED
      BY <1>12, <2>1, <2>4, <2>5, <3>1, <3>2
  <2>10. Element(l) \notin {"Po", "Prp"} /\ Element(r) \notin {"Po", "Plp"}
    BY <1>11
  <2> HIDE DEF l, r, i, k, f, a, g, e
  <2>11. Segment(c, l, r, f, Len(c)) /\ Output(p, a, Len(p), c, f, Len(c))
    BY <2>6, <2>7, <2>8, <2>9, <2>10, JoinParentheses
  <2>12. Segment(c, w[m], w[Len(w)], at[m] + 1, Len(c))
         /\ Output(p, cut[m], Len(p), c, at[m] + 1, Len(c))
    BY <2>11 DEF l, r, f, a
  <2>13. Extends(p, p)
    BY <1>6, AppendExtends
  <2>14. \E a1, b1 : Arranged(v, c, p, a1, b1)
    BY <1>2, <1>3, <1>5, <1>7, <1>10, <2>12, <2>13, KeepArranged
  <2>15. Parenthesis(Last(s))
    BY <1>12 DEF Parenthesis, top
  <2>16. QED
    BY <2>14, <2>15 DEF v
<1>13. CASE Element(top) # "Prp"
  <2> DEFINE k == at[m + 1]
             i == at[m] + 1
             a == cut[m]
             b == cut[m + 1]
             l == w[m]
             r == w[Len(w)]
             q == Append(p, top)
  <2>1. m + 1 = n /\ m + 2 = Len(w)
    BY <1>2, <1>3, <1>13
  <2>2. /\ at[m] \in 0..Len(c) /\ at[m + 1] \in 1..Len(c) /\ at[m] < at[m + 1]
        /\ cut[m] \in 0..Len(p) /\ cut[m + 1] \in 0..Len(p) /\ cut[m] <= cut[m + 1]
        /\ c[at[m + 1]] = w[m + 1]
        /\ Segment(c, w[m], c[at[m + 1]], at[m] + 1, at[m + 1] - 1)
        /\ Segment(c, c[at[m + 1]], w[m + 2], at[m + 1] + 1, Len(c))
        /\ Output(p, cut[m], cut[m + 1], c, at[m] + 1, at[m + 1] - 1)
        /\ Output(p, cut[m + 1], Len(p), c, at[m + 1] + 1, Len(c))
    <3>1. AtTop(w, c, p, at, cut, m)
      BY <1>3, <1>7, <1>10, <2>1, TopArranged
    <3>2. QED
      BY <3>1 DEF AtTop
  <2>3. /\ k \in 1..Len(c) /\ b \in 0..Len(p)
        /\ Segment(c, l, c[k], i, k - 1) /\ Output(p, a, b, c, i, k - 1)
        /\ Segment(c, c[k], r, k + 1, Len(c)) /\ Output(p, b, Len(p), c, k + 1, Len(c))
    BY <2>1, <2>2, Zenon
  <2>4. i \in 1..k /\ a \in 0..b
    <3>1. Len(c) \in Nat /\ Len(p) \in Nat
      BY LenProperties
    <3>2. at[m] \in 0..Len(c) + 1
      BY <2>2, <3>1
    <3>3. at[m] + 1 \in 1..at[m + 1]
      BY <2>2, <3>1, <3>2, FromTo
    <3>4. cut[m] \in 0..cut[m + 1]
      BY <2>2, <3>1, UpTo
    <3>5. QED
      BY <3>3, <3>4
  <2>5. c[k] = top /\ Element(c[k]) \in Operators \cup {"Po"}
    BY <1>1, <1>4, <1>13, <2>1, <2>2
  <2>6. Element(l) \notin {"Po", "Prp"} /\ Element(r) \notin {"Po", "Plp"}
    BY <1>11
  <2>7. precedent_table[Element(l)][Element(c[k])] \in {"<", "="}
    <3>1. precedent_table[Element(s[m])][Element(s[m + 1])] \in {"<", "="}
      BY <1>2, <1>8
    <3>2. l = s[m] /\ c[k] = s[m + 1]
      BY <1>10, <2>2
    <3>3. QED
      BY <3>1, <3>2
  <2>8. precedent_table[Element(c[k])][Element(r)] = ">"
    <3>1. r = x
      BY <1>2, <1>10
    <3>2. QED
      BY <1>9, <2>5, <3>1
  <2> HIDE DEF k, i, a, b, l, r
  <2>9. /\ Segment(c, l, r, i, Len(c))
        /\ Output(Append(p, c[k]), a, Len(p) + 1, c, i, Len(c))
    <3>1. CASE Element(c[k]) = "Po"
      BY <2>3, <2>4, <2>6, <3>1, JoinOperand
    <3>2. CASE Element(c[k]) \in Operators
      <4>1. /\ Element(l) \in Operators => Binds(l) < Binds(c[k])
            /\ Element(r) \in Operators => Binds(r) <= Binds(c[k])
        BY <2>7, <2>8, <3>2, TableBinds
      <4>2. QED
        BY <2>3, <2>4, <2>6, <3>2, <4>1, JoinOperator
    <3>3. QED
      BY <2>5, <3>1, <3>2
  <2>10. q \in Seq(Token) /\ Extends(q, p) /\ Len(q) = Len(p) + 1
    BY <1>6, AppendExtends
  <2>11. /\ Segment(c, w[m], w[Len(w)], at[m] + 1, Len(c))
         /\ Output(q, cut[m], Len(q), c, at[m] + 1, Len(c))
    BY <2>5, <2>9, <2>10 DEF l, r, i, a
  <2> HIDE DEF q
  <2>12. \E a1, b1 : Arranged(v, c, q, a1, b1)
    BY <1>2, <1>3, <1>5, <1>7, <1>10, <2>10, <2>11, KeepArranged
  <2>13. ~Parenthesis(Last(s))
    BY <1>1, <1>13 DEF Parenthesis, Operators, top
  <2>14. QED
    BY <2>12, <2>13 DEF v, q, top
<1>14. QED
  BY <1>12, <1>13

-----------------------------------------------------------------------------
(* The arrangement is invariant *)

\* Stack, current token and queue are an arrangement of what has been read.
Arrangement ==
    analysing =>
      \E at, cut :
        Arranged(Append(expression_stack, parser.token), consumed, postfix, at, cut)

LEMMA AppendOne ==
  ASSUME NEW x \in Token, NEW y \in Token
  PROVE  Append(<<x>>, y) = <<x, y>>
<1>1. <<x>> \in Seq(Token) /\ Len(<<x>>) = 1 /\ <<x>>[1] = x
  OBVIOUS
<1>2. /\ Append(<<x>>, y) \in Seq(Token) /\ Len(Append(<<x>>, y)) = 2
      /\ Append(<<x>>, y)[1] = x /\ Append(<<x>>, y)[2] = y
  BY <1>1, AppendProperties
<1>3. <<x, y>> \in Seq(Token) /\ Len(<<x, y>>) = 2 /\ <<x, y>>[1] = x /\ <<x, y>>[2] = y
  OBVIOUS
<1>4. \A k \in 1..2 : Append(<<x>>, y)[k] = <<x, y>>[k]
  <2>1. \A k \in 1..2 : k = 1 \/ k = 2
    OBVIOUS
  <2>2. QED
    BY <1>2, <1>3, <2>1
<1>5. QED
  BY <1>2, <1>3, <1>4, SeqEqual

LEMMA BeginArrangement == Inv /\ BeginExpression => Arrangement'
<1> SUFFICES ASSUME Inv, BeginExpression PROVE Arrangement'
  OBVIOUS
<1>1. /\ postfix' = <<>> /\ consumed' = <<>> /\ expression_stack' = <<EndOfStack>>
      /\ parser'.token = parser.token /\ parser.token \in Token
  BY DEF Inv, TypeOK, Window, BeginExpression
<1>2. Append(<<EndOfStack>>, parser.token) = <<EndOfStack, parser.token>>
  BY <1>1, EndOfStackType, AppendOne
<1>3. \E at, cut : Arranged(<<EndOfStack, parser.token>>, <<>>, <<>>, at, cut)
  BY <1>1, EndOfStackType, BeginArranged
<1>4. QED
  BY <1>1, <1>2, <1>3 DEF Arrangement

LEMMA ReduceArrangement == Inv /\ Arrangement /\ Reduce => Arrangement'
<1> SUFFICES ASSUME Inv, Arrangement, Reduce PROVE Arrangement'
  OBVIOUS
<1> DEFINE s == expression_stack
           x == parser.token
           p == postfix
           c == consumed
<1>1. /\ s \in Seq(Token) /\ Linked(s) /\ x \in Token /\ p \in Seq(Token)
      /\ c \in Seq(Token) /\ precedent_table[Element(Last(s))][Element(x)] = ">"
  BY DEF Inv, TypeOK, Window, StackLinked, Reduce, Analyse, Operation
<1>2. PICK at, cut : Arranged(Append(s, x), c, p, at, cut)
  BY DEF Arrangement, Reduce, Analyse
<1>3. /\ s' = Popped(s) /\ c' = c /\ x' = x
      /\ p' = IF Parenthesis(Last(s)) THEN p ELSE Append(p, Last(s))
  BY DEF Reduce
<1> HIDE DEF s, x, p, c
<1>4. \E a, b :
        Arranged(Append(Popped(s), x), c,
                 IF Parenthesis(Last(s)) THEN p ELSE Append(p, Last(s)), a, b)
  BY <1>1, <1>2, ReduceArranged
<1>5. \E a, b : Arranged(Append(s', x'), c', p', a, b)
  BY <1>3, <1>4
<1>6. QED
  BY <1>5 DEF Arrangement, s, x, p, c

LEMMA ShiftArrangement == Inv /\ Arrangement /\ Shift => Arrangement'
<1> SUFFICES ASSUME Inv, Arrangement, Shift PROVE Arrangement'
  OBVIOUS
<1> DEFINE s == expression_stack
           x == parser.token
           y == parser'.token
           w == Append(s, x)
<1>1. Inv'
  BY ShiftInv
<1>2. y \in Token
  BY <1>1 DEF Inv, TypeOK, Window
<1>3. /\ s \in Seq(Token) /\ s # <<>> /\ x \in Token /\ postfix \in Seq(Token)
      /\ consumed \in Seq(Token)
  BY DEF Inv, TypeOK, Window, StackLinked, Linked, Shift, Analyse
<1>4. PICK at, cut : Arranged(w, consumed, postfix, at, cut)
  BY DEF Arrangement, Shift, Analyse
<1>5. /\ w \in Seq(Token) /\ Len(w) = Len(s) + 1 /\ w[Len(s) + 1] = x
  BY <1>3, AppendProperties
<1>6. Len(s) \in Nat /\ Len(s) # 0
  BY <1>3, LenProperties, EmptySeq
<1>7. Len(w) >= 2 /\ w[Len(w)] = x
  BY <1>5, <1>6
<1>8. /\ expression_stack' = w /\ consumed' = Append(consumed, x) /\ postfix' = postfix
  BY DEF Shift
<1> HIDE DEF s, x, y, w
<1>9. \E a, b : Arranged(Append(w, y), Append(consumed, w[Len(w)]), postfix, a, b)
  BY <1>2, <1>3, <1>4, <1>5, <1>7, ShiftArranged
<1>10. QED
  BY <1>7, <1>8, <1>9 DEF Arrangement, y

LEMMA NextArrangement == Inv /\ Arrangement /\ [Next]_vars => Arrangement'
<1> SUFFICES ASSUME Inv, Arrangement, [Next]_vars PROVE Arrangement'
  OBVIOUS
<1>1. CASE Reject \/ Finish
  BY <1>1 DEF Reject, Finish, Return, Arrangement
<1>2. CASE CallerNext \/ CallerPeek
  <2>1. ~analysing'
    BY <1>2 DEF CallerNext, CallerPeek, expressionVars
  <2>2. QED
    BY <2>1 DEF Arrangement
<1>3. CASE UNCHANGED vars
  BY <1>3 DEF Arrangement, vars, expressionVars
<1>4. QED
  BY BeginArrangement, ReduceArrangement, ShiftArrangement, <1>1, <1>2, <1>3
  DEF Next, ExpressionStep

\* With only the bottom on the stack there is one span.
LEMMA BottomArranged ==
  ASSUME NEW s \in Seq(Token), NEW x \in Token,
         NEW c \in Seq(Token), NEW p \in Seq(Token), NEW at, NEW cut,
         Arranged(Append(s, x), c, p, at, cut)
  PROVE  Len(s) = 1 =>
           Segment(c, s[1], x, 1, Len(c)) /\ Output(p, 0, Len(p), c, 1, Len(c))
<1> DEFINE w == Append(s, x)
           n == Len(s)
<1>1. w \in Seq(Token) /\ Len(w) = n + 1 /\ w[n + 1] = x /\ \A k \in 1..n : w[k] = s[k]
  BY AppendProperties
<1>2. Len(c) \in Nat /\ Len(p) \in Nat
  BY LenProperties
<1>3. Arranged(w, c, p, at, cut)
  OBVIOUS
<1> HIDE DEF w
<1>4. /\ at[1] = 0 /\ at[Len(w)] = Len(c) + 1
      /\ cut[1] = 0 /\ cut[Len(w)] = Len(p)
  BY <1>1, <1>3, ArrangedEnds
<1>5. ASSUME NEW k \in 1..Len(w) - 1
      PROVE  /\ Segment(c, w[k], w[k + 1], at[k] + 1, at[k + 1] - 1)
             /\ Output(p, cut[k], cut[k + 1], c, at[k] + 1, at[k + 1] - 1)
  BY <1>1, <1>3, ArrangedAt
<1> HIDE DEF n
<1>6. CASE n = 1
  <2>1. w[n] = s[n] /\ n \in 1..Len(w) - 1
    BY <1>1, <1>6
  <2>2. /\ Segment(c, w[n], w[n + 1], at[n] + 1, at[n + 1] - 1)
        /\ Output(p, cut[n], cut[n + 1], c, at[n] + 1, at[n + 1] - 1)
    BY <1>5, <2>1
  <2>3. /\ at[n] + 1 = 1 /\ at[n + 1] - 1 = Len(c) /\ cut[n] = 0
        /\ cut[n + 1] = Len(p)
    BY <1>1, <1>2, <1>4, <1>6
  <2>4. Segment(c, s[n], x, 1, Len(c)) /\ Output(p, 0, Len(p), c, 1, Len(c))
    BY <1>1, <2>1, <2>2, <2>3
  <2>5. QED
    BY <1>6, <2>4
<1>7. QED
  BY <1>6 DEF n

\* With the stack at its bottom one span is left, and the queue is its postfix.
LEMMA ArrangementImplies == Inv /\ Arrangement => PostfixIsReference
<1> SUFFICES ASSUME Inv, Arrangement, Complete PROVE postfix = Postfix(consumed)
  BY DEF PostfixIsReference
<1>1. /\ expression_stack \in Seq(Token) /\ parser.token \in Token
      /\ postfix \in Seq(Token) /\ consumed \in Seq(Token)
  BY DEF Inv, TypeOK, Window
<1>2. PICK at, cut :
        Arranged(Append(expression_stack, parser.token), consumed, postfix, at, cut)
  BY DEF Arrangement, Complete
<1>3. Len(expression_stack) = 1
  BY DEF Complete
<1>4. Output(postfix, 0, Len(postfix), consumed, 1, Len(consumed))
  <2>1. Len(expression_stack) = 1 =>
          Output(postfix, 0, Len(postfix), consumed, 1, Len(consumed))
    BY <1>1, <1>2, BottomArranged
  <2>2. QED
    BY <1>3, <2>1
<1>5. SubSeq(postfix, 1, Len(postfix)) = Postfix(consumed)
  BY <1>4 DEF Output, Postfix
<1>6. SubSeq(postfix, 1, Len(postfix)) = postfix
  BY <1>1, SubSeqFull
<1>7. QED
  BY <1>5, <1>6

\* For every source, the queue of a complete analysis is the postfix of what
\* was read: precedence, left associativity and parentheses are respected.
THEOREM PrecedenceRespected == Spec => []PostfixIsReference
<1>1. Init => Arrangement
  BY DEF Init, ExpressionInit, Arrangement
<1>2. QED
  BY <1>1, NextArrangement, ArrangementImplies, Invariance, PTL DEF Spec, Safety

-----------------------------------------------------------------------------
(* What is rejected *)

\* Where the table has no answer.
LEMMA TableErrors ==
  ASSUME NEW a \in Elements, NEW b \in Elements, precedent_table[a][b] = err
  PROVE  \/ a \in {"Po", "Prp"} /\ b \in {"Po", "Plp"}
         \/ a = "Plp" /\ b = "Pend"
         \/ a = "Pend" /\ b = "Prp"
BY DEF Elements, precedent_table, Row, err

\* Behind a token of an expression stands what may stand there.
LEMMA ViableAppend ==
  ASSUME NEW c \in Seq(Token), NEW x \in Token, ViablePrefix(Append(c, x))
  PROVE  /\ Element(x) \in {"Po", "Plp"} =>
              c = <<>> \/ Element(c[Len(c)]) \in Operators \cup {"Plp"}
         /\ Element(x) \notin {"Po", "Plp"} =>
              c # <<>> /\ Element(c[Len(c)]) \notin Operators \cup {"Plp"}
         /\ Closed(Append(c, x), 1, Len(c) + 1) <= Opened(Append(c, x), 1, Len(c) + 1)
<1> DEFINE d == Append(c, x)
           n == Len(c)
           i == n + 1
<1>1. n \in Nat /\ (n = 0 <=> c = <<>>)
  BY LenProperties, EmptySeq
<1>2. d \in Seq(Token) /\ Len(d) = i /\ d[i] = x /\ \A k \in 1..n : d[k] = c[k]
  BY AppendProperties
<1>3. DOMAIN d = 1..i
  BY <1>2, LenProperties
<1>4. i \in 1..i /\ i - 1 = n /\ (i = 1 <=> n = 0)
  BY <1>1
<1> HIDE DEF d, i
<1>5. /\ i = 1 \/ Element(d[i - 1]) \in Operators \cup {"Plp"}
           <=> Element(d[i]) \in {"Po", "Plp"}
      /\ Closed(d, 1, i) <= Opened(d, 1, i)
  <2>1. i \in DOMAIN d /\ ViablePrefix(d)
    BY <1>3, <1>4 DEF d
  <2>2. QED
    BY <2>1 DEF ViablePrefix
<1>6. n # 0 => d[i - 1] = c[n]
  BY <1>1, <1>2, <1>4
<1>7. /\ Element(x) \in {"Po", "Plp"} =>
           c = <<>> \/ Element(c[n]) \in Operators \cup {"Plp"}
      /\ Element(x) \notin {"Po", "Plp"} =>
           c # <<>> /\ Element(c[n]) \notin Operators \cup {"Plp"}
  BY <1>1, <1>2, <1>4, <1>5, <1>6
<1>8. QED
  BY <1>5, <1>7 DEF d, i

LEMMA LastTwo ==
  ASSUME NEW n \in Nat, n # 0, n # 1
  PROVE  n - 1 \in 1..n - 1 /\ n - 1 \in 1..n + 1 /\ (n - 1) + 1 = n /\ (n - 1) + 2 = n + 1 /\ n \in 1..n
OBVIOUS

\* The top of the stack has been read, and behind it a complete span.
LEMMA TopPlace ==
  ASSUME NEW s \in Seq(Token), Linked(s), NEW x \in Token, Element(Last(s)) # "Pend",
         NEW c \in Seq(Token), NEW p \in Seq(Token), NEW at, NEW cut,
         Arranged(Append(s, x), c, p, at, cut)
  PROVE  \E k \in 1..Len(c) : c[k] = Last(s) /\ Segment(c, Last(s), x, k + 1, Len(c))
<1> DEFINE w == Append(s, x)
           n == Len(s)
           m == n - 1
<1>1. n \in Nat /\ s # <<>> /\ n # 0 /\ n # 1
  BY LenProperties, EmptySeq, EndOfStackType DEF Linked, Last
<1>2. w \in Seq(Token) /\ Len(w) = n + 1 /\ w[n + 1] = x /\ \A k \in 1..n : w[k] = s[k]
  BY AppendProperties
<1>3. Arranged(w, c, p, at, cut) /\ Last(s) = s[n]
  BY DEF Last
<1> HIDE DEF w, n
<1>4. m \in 1..n + 1 /\ m + 1 = n /\ m + 2 = n + 1 /\ n \in 1..n
  BY <1>1, LastTwo
<1> HIDE DEF m
<1>5. m \in 1..Len(w) /\ m + 2 = Len(w) /\ w[m + 1] = Last(s) /\ w[m + 2] = x
  BY <1>2, <1>3, <1>4
<1>6. AtTop(w, c, p, at, cut, m)
  BY <1>2, <1>3, <1>5, TopArranged
<1> DEFINE k == at[m + 1]
<1>7. k \in 1..Len(c) /\ c[k] = Last(s) /\ Segment(c, c[k], x, k + 1, Len(c))
  BY <1>5, <1>6 DEF AtTop
<1>8. QED
  BY <1>7

\* What has been read ends in the operand or ")" on top of the stack.
LEMMA TopIsRead ==
  ASSUME NEW s \in Seq(Token), Linked(s), NEW x \in Token, Element(Last(s)) \in {"Po", "Prp"},
         NEW c \in Seq(Token), NEW p \in Seq(Token), NEW at, NEW cut,
         Arranged(Append(s, x), c, p, at, cut)
  PROVE  c # <<>> /\ c[Len(c)] = Last(s)
<1>1. PICK k \in 1..Len(c) : c[k] = Last(s) /\ Segment(c, Last(s), x, k + 1, Len(c))
  BY TopPlace
<1>2. k + 1 = Len(c) + 1
  BY <1>1 DEF Segment
<1>3. Len(c) \in Nat
  BY LenProperties
<1>4. k = Len(c) /\ Len(c) # 0
  BY <1>2, <1>3
<1>5. QED
  BY <1>1, <1>4, EmptySeq

\* Behind a "(" on top of the stack as much is closed as opened, before it no
\* more: it is still open.
LEMMA TopOpens ==
  ASSUME NEW s \in Seq(Token), Linked(s), NEW x \in Token, Element(Last(s)) = "Plp",
         NEW c \in Seq(Token), NEW p \in Seq(Token), NEW at, NEW cut,
         Arranged(Append(s, x), c, p, at, cut), ViablePrefix(c)
  PROVE  Opened(c, 1, Len(c)) # Closed(c, 1, Len(c))
<1>1. PICK k \in 1..Len(c) : c[k] = Last(s) /\ Segment(c, Last(s), x, k + 1, Len(c))
  BY TopPlace
<1> DEFINE h == k - 1
           j == Len(c)
<1>2. Element(c[k]) = "Plp" /\ Balanced(c, k + 1, j)
  BY <1>1 DEF Segment
<1>3. j \in Nat /\ DOMAIN c = 1..j /\ k \in 1..j
  BY LenProperties
<1> HIDE DEF j
<1>4. /\ k \in Int /\ 1 <= k /\ k <= j + 1 /\ k <= j /\ h \in Int /\ h = k - 1
      /\ (h = 0 \/ h \in 1..j)
  BY <1>3
<1> HIDE DEF h
<1>5. /\ Opened(c, 1, j) = Opened(c, 1, h) + Opened(c, k, j)
      /\ Closed(c, 1, j) = Closed(c, 1, h) + Closed(c, k, j)
  BY <1>3, <1>4, CountSplit
<1>6. /\ Opened(c, k, j) = Opened(c, k, k) + Opened(c, k + 1, j)
      /\ Closed(c, k, j) = Closed(c, k, k) + Closed(c, k + 1, j)
  BY <1>3, <1>4, CountHead
<1>7. Opened(c, k, k) = 1 /\ Closed(c, k, k) = 0
  BY <1>2, <1>4, CountOne
<1>8. Closed(c, k + 1, j) = Opened(c, k + 1, j)
  BY <1>2 DEF Balanced
<1>9. Closed(c, 1, h) <= Opened(c, 1, h)
  <2>1. CASE h = 0
    BY <2>1, CountNone
  <2>2. CASE h \in 1..j
    BY <1>3, <2>2 DEF ViablePrefix
  <2>3. QED
    BY <1>4, <2>1, <2>2
<1>10. /\ Opened(c, 1, h) \in Nat /\ Closed(c, 1, h) \in Nat
       /\ Opened(c, k + 1, j) \in Nat /\ Closed(c, k + 1, j) \in Nat
  BY <1>3, <1>4, CountType
<1>11. Opened(c, 1, j) # Closed(c, 1, j)
  BY <1>5, <1>6, <1>7, <1>8, <1>9, <1>10
<1>12. QED
  BY <1>11 DEF j

\* With the bottom on top of the stack everything opened has been closed: a
\* ")" closes too much.
LEMMA BottomCloses ==
  ASSUME NEW s \in Seq(Token), Linked(s), NEW x \in Token, Element(Last(s)) = "Pend",
         Element(x) = "Prp",
         NEW c \in Seq(Token), NEW p \in Seq(Token), NEW at, NEW cut,
         Arranged(Append(s, x), c, p, at, cut)
  PROVE  ~(Closed(Append(c, x), 1, Len(c) + 1) <= Opened(Append(c, x), 1, Len(c) + 1))
<1> DEFINE n == Len(s)
           j == Len(c)
           d == Append(c, x)
           m == j + 1
<1>1. n \in Nat /\ n # 0 /\ Last(s) = s[n]
  BY LenProperties, EmptySeq DEF Linked, Last
<1>2. n = 1
  <2> SUFFICES ASSUME n # 1 PROVE FALSE
    OBVIOUS
  <2> DEFINE h == n - 1
  <2>1. \A k \in 1..n - 1 : precedent_table[Element(s[k])][Element(s[k + 1])] \in {"<", "="}
    BY DEF Linked
  <2> HIDE DEF n
  <2>2. h \in 1..n - 1 /\ h + 1 = n
    BY <1>1, LastTwo
  <2> HIDE DEF h
  <2>3. Element(s[h + 1]) = "Pend"
    BY <1>1, <2>2
  <2>4. QED
    BY <2>1, <2>2, <2>3, ElementType, TableFacts
<1>3. Segment(c, s[1], x, 1, j)
  BY <1>2, BottomArranged
<1>4. j \in Nat
  BY LenProperties
<1>5. d[m] = x /\ \A k \in 1..j : d[k] = c[k]
  BY AppendProperties
<1> HIDE DEF j, d
<1>6. Closed(c, 1, j) = Opened(c, 1, j)
  BY <1>3 DEF Segment, Balanced
<1>7. Opened(d, 1, j) = Opened(c, 1, j) /\ Closed(d, 1, j) = Closed(c, 1, j)
  BY <1>4, <1>5, CountSame
<1>8. m \in Int /\ j = m - 1 /\ 1 <= m /\ m <= m + 1
  BY <1>4
<1> HIDE DEF m
<1>9. /\ Opened(d, 1, m) = Opened(d, 1, j) + Opened(d, m, m)
       /\ Closed(d, 1, m) = Closed(d, 1, j) + Closed(d, m, m)
  BY <1>4, <1>8, CountSplit
<1>10. Opened(d, m, m) = 0 /\ Closed(d, m, m) = 1
  BY <1>5, <1>8, CountOne
<1>11. Opened(d, 1, j) \in Nat /\ Closed(d, 1, j) \in Nat
  BY <1>4, CountType
<1>12. ~(Closed(d, 1, m) <= Opened(d, 1, m))
  BY <1>6, <1>7, <1>9, <1>10, <1>11
<1>13. QED
  BY <1>12 DEF d, m, j

\* The token before the current one is the last that was read.
PreviousRead ==
    analysing /\ consumed # <<>> => parser.previousToken = Last(consumed)

LEMMA NextPrevious == Inv /\ PreviousRead /\ [Next]_vars => PreviousRead'
<1> SUFFICES ASSUME Inv, PreviousRead, [Next]_vars PROVE PreviousRead'
  OBVIOUS
<1>1. CASE BeginExpression
  BY <1>1 DEF BeginExpression, PreviousRead
<1>2. CASE Reduce
  BY <1>2 DEF Reduce, Analyse, PreviousRead
<1>3. CASE Shift
  <2>1. consumed' = Append(consumed, parser.token) /\ parser' \in parser_next(parser)
    BY <1>3 DEF Shift
  <2>2. parser \in Window /\ consumed \in Seq(Token) /\ parser.token \in Token
    BY DEF Inv, TypeOK, Window
  <2>3. Last(consumed') = parser.token
    <3>1. /\ Len(consumed') = Len(consumed) + 1
          /\ consumed'[Len(consumed) + 1] = parser.token
      BY <2>1, <2>2, AppendProperties
    <3>2. QED
      BY <3>1 DEF Last
  <2>4. parser'.previousToken = parser.token
    BY <2>1, <2>2 DEF parser_next, Window
  <2>5. QED
    BY <2>3, <2>4 DEF PreviousRead
<1>4. CASE Reject \/ Finish
  BY <1>4 DEF Reject, Finish, Return, PreviousRead
<1>5. CASE CallerNext \/ CallerPeek
  BY <1>5 DEF CallerNext, CallerPeek, expressionVars, PreviousRead
<1>6. CASE UNCHANGED vars
  BY <1>6 DEF vars, expressionVars, PreviousRead
<1>7. QED
  BY <1>1, <1>2, <1>3, <1>4, <1>5, <1>6 DEF Next, ExpressionStep

\* "()" is no expression, nor is anything for which the table has no answer.
LEMMA RejectMalformed ==
  Inv /\ Arrangement /\ PreviousRead /\ Reject =>
    IF Element(parser.token) = "Pend"
    THEN ~WellFormed(consumed)
    ELSE ~ViablePrefix(Append(consumed, parser.token))
<1> SUFFICES ASSUME Inv, Arrangement, PreviousRead, Reject
             PROVE  IF Element(parser.token) = "Pend"
                    THEN ~WellFormed(consumed)
                    ELSE ~ViablePrefix(Append(consumed, parser.token))
  OBVIOUS
<1> DEFINE s == expression_stack
           x == parser.token
           c == consumed
           top == Last(s)
<1>1. /\ s \in Seq(Token) /\ Linked(s) /\ x \in Token /\ c \in Seq(Token)
      /\ postfix \in Seq(Token)
  BY DEF Inv, TypeOK, Window, StackLinked, Reject
<1>2. PICK at, cut : Arranged(Append(s, x), c, postfix, at, cut)
  BY DEF Arrangement, Reject
<1>3. c # <<>> => parser.previousToken = c[Len(c)]
  BY DEF PreviousRead, Reject, Last
<1>4. EmptyParentheses \/ precedent_table[Element(top)][Element(x)] = err
  BY DEF Reject, Operation
<1>5. EmptyParentheses => Element(x) = "Prp" /\ Element(parser.previousToken) = "Plp"
  BY DEF EmptyParentheses, Element, token_to_precedent_elem
<1> HIDE DEF s, x, c, top
<1>6. CASE EmptyParentheses
  <2>1. Element(x) = "Prp" /\ Element(parser.previousToken) = "Plp"
    BY <1>5, <1>6
  <2>2. ~ViablePrefix(Append(c, x))
    <3> SUFFICES ASSUME ViablePrefix(Append(c, x)) PROVE FALSE
      OBVIOUS
    <3>1. c # <<>> /\ Element(c[Len(c)]) \notin Operators \cup {"Plp"}
      BY <1>1, <2>1, ViableAppend
    <3>2. QED
      BY <1>3, <2>1, <3>1
  <2>3. QED
    BY <2>1, <2>2 DEF x, c
<1>7. CASE Element(top) \in {"Po", "Prp"} /\ Element(x) \in {"Po", "Plp"}
  <2>1. ~ViablePrefix(Append(c, x))
    <3> SUFFICES ASSUME ViablePrefix(Append(c, x)) PROVE FALSE
      OBVIOUS
    <3>1. c = <<>> \/ Element(c[Len(c)]) \in Operators \cup {"Plp"}
      BY <1>1, <1>7, ViableAppend
    <3>2. c # <<>> /\ c[Len(c)] = top
      BY <1>1, <1>2, <1>7, TopIsRead DEF top
    <3>3. QED
      BY <1>7, <3>1, <3>2 DEF Operators
  <2>2. QED
    BY <1>7, <2>1 DEF x, c
<1>8. CASE Element(top) = "Plp" /\ Element(x) = "Pend"
  <2>1. ~WellFormed(c)
    <3> SUFFICES ASSUME WellFormed(c) PROVE FALSE
      OBVIOUS
    <3>1. ViablePrefix(c) /\ Closed(c, 1, Len(c)) = Opened(c, 1, Len(c))
      BY DEF WellFormed
    <3>2. Opened(c, 1, Len(c)) # Closed(c, 1, Len(c))
      BY <1>1, <1>2, <1>8, <3>1, TopOpens DEF top
    <3>3. QED
      BY <3>1, <3>2
  <2>2. QED
    BY <1>8, <2>1 DEF x, c
<1>9. CASE Element(top) = "Pend" /\ Element(x) = "Prp"
  <2>1. ~ViablePrefix(Append(c, x))
    <3> SUFFICES ASSUME ViablePrefix(Append(c, x)) PROVE FALSE
      OBVIOUS
    <3>1. Closed(Append(c, x), 1, Len(c) + 1) <= Opened(Append(c, x), 1, Len(c) + 1)
      BY <1>1, ViableAppend
    <3>2. QED
      BY <1>1, <1>2, <1>9, <3>1, BottomCloses DEF top
  <2>2. QED
    BY <1>9, <2>1 DEF x, c
<1>10. QED
  BY <1>4, <1>6, <1>7, <1>8, <1>9, ElementType, TableErrors

\* For every source, parse_expression refuses only a token that continues no
\* expression, and an end only where no expression ends.
THEOREM OnlyMalformedRejected == Spec => RejectsOnlyMalformed
<1>1. Init => Arrangement /\ PreviousRead
  BY DEF Init, ExpressionInit, Arrangement, PreviousRead
<1>2. Inv /\ Arrangement /\ PreviousRead /\ [Next]_vars =>
        [Reject => IF Element(parser.token) = "Pend"
                   THEN ~WellFormed(consumed)
                   ELSE ~ViablePrefix(Append(consumed, parser.token))]_vars
  BY RejectMalformed
<1>3. QED
  BY <1>1, <1>2, NextArrangement, NextPrevious, Invariance, PTL
  DEF Spec, Safety, RejectsOnlyMalformed
=============================================================================
