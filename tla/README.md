# A formal model of the ifj19 compiler front end

The repository is a compiler front end for IFJ19, a subset of Python, in C: a
scanner, a recursive descent parser with a precedence parser for expressions, a
semantic analyser with scopes and symbol tables, and the containers below them.
It is one sequential program, `main.c`: `parse()` builds a tree,
`semantic_analysis()` walks it. What makes it hard to test is not concurrency
but *protocol*: one token of lookahead that is given back through a queue,
several owners of one heap value, errors half way through a statement, and an
explicit stack that has to open and close scopes in step with a tree.

The source as committed does not build (`symtable.c:52` has `i++0`,
`builtin_functions.c:86` lacks a semicolon, `hash_map_t` is declared in two ways,
the Makefile leaves files out). The modules model the evident intent of those
lines and nothing else is repaired.

## Inventory

| component | state | operations | talks to | what is hard | what makes it correct |
|---|---|---|---|---|---|
| scanner `scaner.c` | `stack` of indents, `last_token_type`, row and column, stdin with its put-back characters | `get_token`, `indent_counter`, `token_fill`, `start_state` | called by `parser_next` | several dedents by putting spaces back; calls after the end of the file | blocks follow the indents of lines; put-back keeps the order; tokens are the longest matches; every call returns |
| token window `parser.c` | `token`, `previousToken`, `returned_tokens` | `parser_next`, `accept`, `accept_keyword`, `parser_return_back` | scanner, all parsers | giving back in the right order; the first, uninitialised token | each token is seen, in source order |
| expression parser `expression_parser.c` | `expression_stack`, `postfix` | `parse_expression`, `precedent_analyze`, `expression_stack_top_destoy` | token window, stack, queue | a table of 49 entries; pops without a test; owners of the stack's records | no pop of an empty stack; the postfix of the source expression; malformed expressions rejected; returns |
| recursive descent parser `parser.c`, `parser_result.c` | the C stack, `program`, `building_tree`, `status` | `statement` and all below it, `suite`, `parse` | token window, expression parser, AST | errors that consume nothing; values owned by token and node; trees deleted while parsing goes on | ends; errors reach the exit code; the tree handed on is live and in source order |
| AST `parser_ast.c`, `array_nodes.c` | nodes, child arrays that grow by six | `ast_node_init`, `ast_add_node`, `ast_delete`, `array_nodes_*` | parser, semantic analyser | shared children, freed data | each node and datum freed once |
| semantic analyser `semantic_analyser.c` | `tree_traversing_deque`, `current_scope`, `status` | one handler per node type, the loop of `semantic_analysis` | scopes, deque, AST | markers pushed by hand; statuses that replace one another | scopes follow the tree; every node once, in order; errors kept |
| scopes `scope.c`, symbol table `symtable.c` | chain of scopes, buckets of items | `new_scope`, `delete_scope`, `find_*`, `set_*`, `hash_map_*` | semantic analyser | keys freed by the caller, data freed by the table | a name is found where it was defined |
| deque, stack, queue, iterator | doubly linked list, `first`, `last`, `size` | push, pop at both ends, `advance` | everybody | the one element list, reverse iteration | behaves as a sequence |
| strings, literal conversion | buffer, length, capacity | `ptr_string_*`, `convert_to_ifjcode_*` | scanner, parser | growth, escapes | conversion of every escape |
| builtin functions, error reporting | none | print text | nobody, stderr | - | - |

## Plan

Done:

1. `TokenWindow`, `PrecedenceTable`, `ExpressionParser` - the core: every tree
   starts as tokens delivered by the window, and nearly every statement calls
   `parse_expression`.
2. `InfixNotation` - the abstract specification of expressions, a reference
   definition of "well formed" and "postfix"; `MCExpressionParser` compares.
3. `ExpressionParserProofs` - the invariants of 1 for every source.
4. `Parser` - the whole parser over 1, as a refinement of `ExpressionParser`.
5. `SemanticAnalyser` - the traversal over all trees `parser.c` can construct.
6. `Scanner` - the automaton over classes of characters, the stack of indents and
   stdin with put-back, over all short sources.

7. `Deque` - the linked list on a heap of items, as a refinement of
   `DoubleEndedQueue`; `DequeProofs` proves it for every heap.
8. `SymbolTable` - buckets of items whose keys are references to buffers that the
   caller may free, as a refinement of the map `NameTable` while he does not.
9. The deletion of the tree by main, in `SemanticAnalyser`.
10. `PtrString`, `StringConvertor` - the conversion of string literals on strings with
   capacities.
11. `TokenWindowProofs` - the lemmas on the window that both parsers need.
12. `ParserProofs` - `RefinesExpressionParser` step by step, and the invariants of `Parser`.
13. `ScannerProofs` - the automaton as a table of its steps, and what is put back.
14. `SemanticAnalyserProofs` - every invariant of the traversal, for trees of any size.
15. `SymbolTableProofs` - the chains, and the refinement of `NameTable`.
16. `StringConvertorProofs` - buffers, escapes and code of literals of any length.
17. `LongestMatch` in `ScannerProofs`; `Ownership`, `PostfixIsReference` and `RejectsOnlyMalformed` in
   `ExpressionParserProofs`, which now covers every invariant and action property of the core.

Left for TLC: liveness.

## Modules

`TokenWindow` - the struct `parser`. `parser_next(p)` is the *set* of windows a call
may leave, since the scanner is the environment: any lexeme of `Alphabet`, at most
`MaxTokens` of them, then `TENDOFFILE` for ever. A token is its type, what a
comparison of its value can see (`text`) and its place in the source (`at`), which
two copies of a token share as they share the value's buffer. The uninitialised
first `previousToken` is any of `Garbage`; those are the outcomes that the tests
made on it can distinguish.

`PrecedenceTable`, `ExpressionParser` - one action per answer of the table: `Shift`
for `<` and `=`, `Reduce` for `>` (the recursion of `precedent_analyze` is the
repetition of the action), `Finish` for `#`, `Reject` for a blank. `consumed` is a
history variable. `Ownership` counts the copies of each token (`Copies`), since two tokens of
the window may be copies of one. `CallerNext` and `CallerPeek` are all that a caller may do
between two expressions; `CallerPeek` is `function_call`, which accepts a token,
looks at the next one and gives the accepted one back.

`InfixNotation` - what is well formed, by counting parentheses, and the postfix of any part
`s[i..j]` of a sequence (`Postfixes`), by splitting it at its last, loosest operator outside parentheses. It is
total: what is missing beside an operator counts as empty, so that it says what a malformed
expression becomes as well.

`Parser` - the places of the C program are values of `pc`. The six variables of
`ExpressionParser` appear in it under their own names and
`E == INSTANCE ExpressionParser` gives the actions; `RefinesExpressionParser`
(`E!Safety`) says that every step of `Parser` is one of them or a stutter. `freed` holds
the places of freed values. A keyword test that reads a freed or uninitialised
value may go either way (`Dangling`); `staleRead` remembers that one did.
What follows a successful `def`, `if`, `while` or call is `Unreached`: the run
shows that no source gets there, because `accept_keyword` (`parser.c:79`) tests the
type of the current and the value of the previous token, so that a keyword is
only accepted when it was delivered twice, and the second copy stands where a
name, colon or condition is expected. The model deadlocks there, so a source that
did get there would be reported.

At the end of the source a `#` reads on (`expression_parser.c:220`), so that the scanner is called
after `TENDOFFILE` and destroys its stack again (`scaner.c:573`). `free` may abort
then (`Abort`) or not; `pastEnd` remembers it.

`Scanner` - `get_token`. A call is `Call`, the steps of `indent_counter` if the last token was one
after which it counts, and those of the automaton: `Move` from state to state, `Emit`
when a token is complete, `EndOfFile` when the loop ends. `Rules` are the tests on `c` in
the `switch` and `Otherwise` its `else` branches. A character stands for its class, "blank" and "quote" for the space and
the double quote, "k" for the whole text of a keyword; whether a number with an exponent is `inf` is open. `stdin` holds
the characters known so far: what was put back, and the rest of a piece; when it is
empty and the program asks for more the source goes on with any piece or ends. "0xFF" is the byte that
is -1 as a `char`: `token_fill` does not put it back (`UngetcChar`, while `indent_counter` puts back an `int`, `Ungetc`), and `start_state` takes it
for the end of the source (`scaner.c:254`), so that it stays in the string of the next token (`stray`). Several characters
are put back in a row, as glibc allows. `source`, `lexeme`, `stray` and `taken`, the places in the
source of the characters read and not put back, are history variables. The value of a float with exponent is `Printed` without its last
digit, which `token_fill` deletes.

`SemanticAnalyser` - one action per handler. The tree is revealed while it is
walked: `Reveal` gives the next node any type and children its place allows, and
the shapes are those of the constructors in `parser.c`, including bodies that are a
single statement, a `while` whose else branch is its body, an `else` that has
lost its `if`, and the NULL child of a statement that failed inside a suite. Most of them are
what the parser *would* build if it reached the code; the analyser is checked for
all of them. `within` of a node is its lexical scope by its place in the tree and is never
read by an action. Names do not appear: every caller of `hash_map_put` frees the key the
table keeps, so that a lookup in a table with entries can have any result. Two
lookups with one copy of the name agree, two with different copies need not, as
the second copy may be allocated over the first key. `symtable.c:125` frees the
keys again when a table with entries is destroyed, which may abort
(`TableFreedTwice`) or go on (`doubleFree`).

When the analysis ends with an error, `main` deletes the tree, although the tables have
deleted nodes of it: `DeletedTwice` is the second `free` of a node, which may abort
(`DeletionCrashes`) or go on, and `ElseIsBody` the tree that holds one node twice.

`DoubleEndedQueue` - what `deque.h` promises: a sequence that grows and shrinks at both ends, a
cursor that passes it from either end to the other, `deque_end` or `deque_rend`, and the release of its elements. `stack.c` and `queue.c` rename its operations.
`Deque` - `deque.c` and `iterator.c`. `item` is the heap: an address holds an item, or what is
left when it is freed. A push takes any address not in use, or finds no memory
(`PushFails`). Pushes on the empty list are `PushFirst`, pops of the last element
`PopOnly`, since these are branches of their own in the code. An iterator is its element and its
position; the client uses it as the code requires, only while the list is not
changed. `deque_destroy` is a loop, one round of which is `FreeItem`. `call`, `returned`, `released` and
`order` are history variables. `Abstract == INSTANCE DoubleEndedQueue WITH contents <- Contents,
cursor <- ite.position` is the refinement; the contents are the values of the items of `order`. The position
of `deque_rend` is -1, in the code the largest `size_t`. One step of the list is not of the collection: moved back from
the first element an iterator keeps its place (`StaysAtFirst`, `deque.c:184-187`). Nothing in the compiler iterates in reverse.

`NameTable` - a map from names to elements. `SymbolTable` - `symtable.c`. A key is a buffer,
which the table keeps by reference; `buffer` says what name is in it. The caller allocates, fills and
frees buffers, also those that the table holds, which sets `dangling`. Until then the table is
shown to be a `NameTable`; the chains stay sound (`Chained`) ever after. The hash function is
a constant. `Walk` is a loop over a bucket: the items in turn, then NULL. What a search finds is the
earliest of the `Places`, buckets and numbers of steps, that have an item of that name.
Replaced elements are not freed by `hash_map_put`.
`hash_map_set_hash_function` is declared but nowhere defined.

`PtrString`, `StringConvertor` - `ptr_string.c` as far as the conversion calls it, as functions on
strings with a length and a capacity, assertions included, and the two loops of
`string_convertor.c`: escapes of the literal to characters, and these to IFJcode19, as actions.
The reference, `Meaning`, splits a literal into units, characters and escapes; `UnitStarts` are
the places where they start. Literals are such as the scanner accepts (`Scanned`): after a backslash
something follows, after `\x` two hexadecimal digits.
Characters are signed bytes, as comparisons with 32 see them; an assertion that fails is `Abort`.

External to the models: `malloc`, except where `Deque` lets it fail, and stderr.

## Runs

| run | question | result |
|---|---|---|
| `expression_parser` | all 7-token sources over an operand, one operator of each level, parentheses and a terminator | stack linked, tokens owned once, reference postfix, rejects only malformed input, returns |
| `expression_returned` | does a well formed expression come back as one? (`expression_parser.h:27`) | no: the check of the last element reads the token after it |
| `parser` | all 6-token sources over ten lexemes | the properties below hold |
| `errors_reported` | does the status show a lexical error? (`error.h:23-24`) | not a lexical error that begins a statement |
| `scanner` | all sources of 3 pieces: characters and line starts | the properties below hold |
| `semantic_analyser` | all trees of 7 nodes, with up to 3 statements in a block and 2 parameters, and the larger trees that complete them | the properties below hold |
| `sem_error_reported` | is `ERROR_SEM` the result of a semantic error? (`error.h:26`) | no: the next `ERROR_OK` replaces it |
| `deque` | all sequences of operations on lists of up to 4 items | linked both ways, implements the collection of `deque.h` but for a move back from the first element, its destruction ends |
| `deque_reversed` | is the list that collection without exception? (`deque.h:89-91`, `tests/deque.cpp:129`) | no: an iterator moved back from the first element stays there and never is `deque_rend` |
| `symbol_table` | all sequences of operations on 3 items, 3 key buffers and 3 names, two of which collide | chains sound whatever happens to the keys; a map until a key is freed |
| `string_convertor` | all literals of 4 pieces | buffers large enough, escapes after text converted, the code denotes the string |
| `escapes_converted` | does the result have no escapes? (`string_convertor.c:83`) | no, if all escapes come before any text |

Met on the way, and left as they are in the models: `+` alone is accepted as an expression;
the end of the source after a backslash in a string is no error. A `)` that starts a statement is retried for ever:
`parser.c:777` consumes nothing after an error, although `parser.c:800-801` says "so skip them"; the passing property
`EndsOrRightParenthesis` shows that this is the only way in which `parse` fails to end. When the last statement of a
source fails, the loop ends before its error is looked at (`parser.c:759`), and the status stays `ERROR_OK`; no property
is about it. A byte 0xFF behind a token is lost, although `scaner.c:147` says "Put the last char back to stdin":
`NothingLost` allows this one loss. `tests/deque.cpp` does not agree with `deque.h`: a pop of the empty list is
expected to be `ERROR_INTERNAL` (`:37`, `:41`) and a push to be 0 (`:46`, `:52`), while the code returns NULL
and true, as `deque.h:30` has it ("true if operation was successful"). The model follows the code and `deque.h`.

Properties of `expression_parser`: `StackLinked` (neighbours on the stack are related
by `<` or `=`, the bottom marker is below them: no unguarded pop goes wrong),
`WindowInOrder` (the queue is empty or the copy of the current token),
`DeliveredInOrder`, `Ownership`, `PostfixIsReference`, `RejectsOnlyMalformed`, `Returns`.

Properties of `parser`: `RefinesExpressionParser`; `AcceptedTreeIsLive` (a tree main
analyses holds no freed value, and no keyword test on the way read one);
`DoubleFreeNeedsStaleRead` (all double frees come from one cause, the keyword test
that reads the value of a deleted node); `TreeInSourceOrder`; `OnlyFlowStatements`;
`EndsOrRightParenthesis` (the infinite loop has only one cause; `parse` ends or is aborted).

Properties of `scanner`: `NothingLost` (what is to be read is the end of the source, and each
character before it was taken once and in order, whatever was put back, or is a byte 0xFF behind a
token), `CountsFromLineStart` (the blanks counted are all
blanks of the line, also when they are counted again after a `TDEDENT`, and the stack is live),
`IndentsRise`, `LineInItsBlock` (the first token of a line comes when the innermost block has
the indent of its line), `LongestMatch` (each token is a word of a language defined without
the automaton, and the character after it would not have continued it), `ValueIsText`,
`Returns`. INDENT and DEDENT do not balance at the end of the file: a source may
end within a block, and a last line of blanks may open one.

Properties of `semantic_analyser`: `ScopesFollowTree`, `BubblesUp` (the assertion at
`semantic_analyser.c:324`), `VerdictIsLexical`, `HandledInSourceOrder`,
`EveryNodeHandled`, `NamesInFunctionScopes`, `SafeWithoutDefinitions` (a tree without definitions
in which no statement failed is analysed and deleted without a double free or a crash, but for a `while` whose else
branch is its body). `VerdictIsLexical` judges each node as well as the final status, since every tree with an `if` or `while` holds an
expression, which `handle_node` does not implement (`ERROR_INTERNAL`): the final status alone could not tell a misplaced
`break` there. `SafeWithoutDefinitions` claims nothing of trees with definitions, whose tables free keys and nodes
twice, nor of NULL children, which the analyser follows.
That the traversal ends is not a property of its own: every step but `Stopped` reveals
a node or adds to `reported`, and the run, which explores every behaviour without a
constraint and checks deadlock, ends.

Properties of `deque`: `Linked` (the links in both directions, `first`, `last`, `size` and the
iterators describe one list, and no item outside it is lost), `Implements` (every step is one of
`DoubleEndedQueue` or the exception `StaysAtFirst`). `ImplementsCollection`, without the exception, is what `deque_reversed` refutes.

Properties of `symbol_table`: `Chained` (the chains hold every item that is not freed, once; while no key
is freed by the caller, each item is in the bucket of its name, names are unique and no key is freed twice),
`Implements` (`NameTable` until a key is freed: the callers in `scope.c` free every key after the put, so that
this is what the table would give to callers that do not).

Properties of `string_convertor`: `TypeOK` (no string is longer than its buffer),
`ConvertsAfterText` (a literal with text before some escape, or with none, gets its meaning; only the
escape of the character 0 breaks an assertion), `CodeDenotesString` (reading the IFJcode19 back gives the converted string).

Bounds. `MaxTokens` = 7 admits `(a+a)*a` followed by its terminator, hence every pair
of neighbours of the table at every depth a parenthesis can change, and a second
expression after a first one; TINT, TLT, TADD, TMUL stand for their rows, as the code sees a token
only through `token_to_precedent_elem`. `Parser` needs two statements after a failed one
to reuse a freed value, which six tokens give; its ten lexemes are one of each kind that
`parse` treats differently (a flow keyword, `return`, a keyword with a condition, `def`,
newline, identifier, both parentheses and the two scanner failures). In
`SemanticAnalyser` seven nodes hold a scope in a scope with a statement after each;
once a tree has `MaxNodes` nodes the remaining places get the least they may hold, so no
behaviour is cut off. In `Scanner` three pieces are enough as a piece may be a
whole line start, the beginning of two nested lines, the three quotes of a comment or
an escape: sources close two levels at once, close to an indent that no block has,
and end in each state of the automaton. In `Deque` four addresses give a list with two inner items
and freed addresses to reuse, two values tell elements apart. In `SymbolTable` a chain of
three has a head, a middle and an end; only two names collide, but three items come into one
chain when a freed key is reused. Symmetry is used there, as all its properties are safety properties.
In `StringConvertor` strings grow by `PTR_STRING_CHUNK` = 2, so that four pieces grow a buffer
by one byte and by a whole string.

Fairness. The program is one thread of straight loops: whenever it can take a step
it does, hence weak fairness of the parser's own steps (`ExpressionStep`;
`StatementStep \/ LoopStep`; `GetToken`, one call of the scanner; `DestroyStep`, the loop of `deque_destroy`). No fairness is assumed of the scanner or of the caller of
`parse_expression`.

## Proofs

Every theorem `Spec => []P` below has the same three parts: the invariant `Inv` of its
module holds initially, every step keeps it, and it implies `P`. TLC checked `Inv` on the
component's run, or on a smaller instance of it; where `Inv` asks for a function that
TLC cannot enumerate (`Linked`, `Codes`, `Arranged`), with the values that come into question.

The reference definitions are recursive functions. `f[n \in S] == ...` is a `CHOOSE`, so nothing is
known of it until some function is shown to satisfy the equation. The theorems of the library on that, and on induction, take
an operator as a parameter and cannot be used; the proofs take the least element of the set of
counterexamples instead (`Least`, and `PostfixesAre`, `StartsAre`, for the functions), or carry
the values along as witnesses in the invariant.

`ExpressionParserProofs` (with the lemmas of `TokenWindowProofs`) proves, for every `Alphabet` and `MaxTokens`
that satisfy `WindowAssumption` (lexemes are lexemes; the bound is a natural number):

* `TypeCorrect`: `Spec => []TypeOK`;
* `StackSafe`: `Spec => []StackLinked`;
* `QueueBounded`: `Spec => []WindowInOrder`;
* `InOrderDelivery`: `Spec => DeliveredInOrder`;
* `NothingLost`: `Spec => []Ownership`;
* `PrecedenceRespected`: `Spec => []PostfixIsReference`, for expressions of any length and depth;
* `OnlyMalformedRejected`: `Spec => RejectsOnlyMalformed`.

The inductive invariant of the first four is `Inv == TypeOK /\ StackLinked /\ WindowInOrder`. `StackLinked`
is what makes `Reduce` safe: from `a < b` or `a = b` for all neighbours it follows that
an element below a `)` is a `(`, so that popping both leaves the bottom marker
(`PoppedLinked`, from the facts of the table in `TableFacts`, proved by cases), and that the bottom
marker itself is never reduced, because its row has no `>`. `WindowInOrder` is inductive
because `Finish` and `CallerPeek` read on before they give back (`NextInOrder`,
`ReturnBackInOrder`); `DeliveredInOrder` follows from it for each step (`StepInOrder`).

The others say what is on the stack and in the queue. `Owned` is `Ownership` for all tokens there are:
a shift adds a copy to stack and `consumed`, a reduction moves one to the queue or drops a
pair of parentheses. `PostfixIsReference` is about the end only, and needs `Arrangement`: the tokens of the stack
stand at rising places of `consumed`; between the places of neighbours lie complete
`Segment`s, none of whose operators still waits for a neighbour; and the postfixes of
these segments, one behind the other, are the queue. A shift adds an empty segment
(`ShiftArranged`), a reduction joins the segments beside the popped operator, at which the
reference splits the joined one (`OperatorSpan`, `ReduceArranged`). When only the bottom marker is left, the one segment
is the expression. This needs no `WellFormed`: a
missing operand is an empty segment, as it is empty for the reference. That a rejected sequence
cannot be continued follows from the same arrangement, a case for each blank of the table
(`TableErrors`): an operand or `(` right behind an operand or `)` (`TopIsRead`), an end where a `(` is still open
(`TopOpens`), a `)` where none is (`BottomCloses`). Empty parentheses are refused before the table is
asked, by the previous token, which is the last that was read (`PreviousRead`).

`DequeProofs` proves, for every `Address` and `Value` that satisfy
`DequeAssumption` (`NULL` and `Garbage` are neither):

* `TypeCorrect`: `Spec => []TypeOK`;
* `ListLinked`: `Spec => []Linked`;
* `ListImplementsSequence`: `Spec => CollectionButRend`, the safety part of `Implements`.

The inductive invariant is `TypeOK /\ Linked`. `Linked` is stated over the history variable
`order`, the items as they were pushed and popped, and not over what following the pointers
yields, so that no induction over the list is needed: each operation changes `order` at one
end, and the links of at most two items, which `OrderIsLive` (each item is there once)
separates from the others. During `deque_destroy` the list is the part not yet freed, from
`current` on, and the links back are no longer claimed. The refinement shows for each operation what
it makes of `Contents`; the lemmas `ContentsAppend`, `ContentsCons`, `ContentsTail` and
`ContentsFront` are the four ways to change it, and every action of `Deque` is one of
`DoubleEndedQueue` or `StaysAtFirst`.

`ParserProofs` proves, for every `Alphabet` and `MaxTokens`:

* `Refinement`: `Spec => RefinesExpressionParser`, so that what `ExpressionParserProofs` shows
  holds of the whole parser;
* `TypeCorrect`, `FlowOnly`, `SourceOrder`, `AcceptedLive`, `NoDoubleFree`: all five invariants of the run.

The places of the source carry the proof (`PlaceInv`): all the tree points to lies before the current
token, all that was freed no later than the previous one. So a statement can point to a
freed token only when the two tokens of the window are copies of one, and then a keyword
test has read freed memory (`MemoryInv`). `CallInv` says what the statement holds
at each place of the call stack; it excludes the places of `Unreached` because a keyword that is
accepted at the start of a statement still stands in the window as the current token
(`WindowInv`: tokens at one place are copies of one). `ExpressionInv` is what the refinement needs:
`parse_expression` never returns an expression, and with none it leaves the current token's copy in the
queue, as `function_call` requires.

`ScannerProofs` proves, for every set of `Pieces` and every `MaxPieces`, that is for sources of any length:

* `TypeCorrect`, `IndentsAlwaysRise`, `ValueIsAlwaysText`;
* `NothingEverLost`, `CountsAlwaysFromLineStart`, `LineAlwaysInItsBlock`;
* `AlwaysLongestMatch`: `Spec => []LongestMatch`.

`NothingEverLost` holds of sources with bytes 0xFF too; it allows no loss but theirs. The properties speak of
what was taken, the places in `taken`; the invariant places everything by their number (`At`), so that a character
taken adds one, one put back at once adds none and `indent_counter` takes its blanks away in one step. The automaton is
read once, as a table (`Targets`, the lemmas `...RulesTable`): which state follows
which on which character. From it come the shape of the text in each state and, for `ValueIsText`, that of the
quotes around a block and the text of a string. `LongestMatch` compares with a
language defined without the automaton; `WordInv` says what words lead to each state, by what stands
at which place of them, and each step out of a state then yields a word and shows that no
longer one begins so.

`SymbolTableProofs` proves, for every `Address`, `Buffer`, `Name`, `Element`, `BUCKET_SIZE` and `hash_code` that
satisfy `SymbolTableAssumption` (finitely many addresses, at least one bucket):

* `TypeCorrect`: `Spec => []TypeOK`;
* `ChainsSound`: `Spec => []Chained`;
* `TableIsMap`: `Spec => Implements`, the refinement of `NameTable`.

The invariant says that *there are* sequences, one for each bucket, that the pointers follow and
that hold every live item once (`Linked`), and, as long as no key was freed by the caller, that each
item is in the bucket of its name (`NamesInv`). Each operation gives the sequences it leaves.
What the loops come to by following the pointers is shown once to be these sequences
(the lemmas on `Walk`); the length of a chain is at most the number of addresses, so that the loops reach
all of it. For the refinement `ContentsAre` says that the contents are the elements of the items under
their names; it holds until a key is freed.

`StringConvertorProofs` proves, for every set of `Literals` the scanner can accept and every positive `PTR_STRING_CHUNK`:

* `TypeCorrect`: `Spec => []TypeOK`, that is no string outgrows its buffer;
* `AlwaysConvertsAfterText`: `Spec => []ConvertsAfterText`;
* `CodeAlwaysDenotesString`: `Spec => []CodeDenotesString`.

`EscapesInv` says that the string is the meaning of the first units of the literal, which end at
`index_start` (`Means`); text between escapes is as many units as it has characters, and where the
code finds a backslash a unit starts, since no unit is passed in the middle. While there was no text, all units were
escapes, which is the case in which the code forgets them. `CodesInv` says that the code
is cut into the codes of the characters before `i` (`Codes`). `Decoded` reads the
code by a recursion of its own, which comes to the same places.

`SemanticAnalyserProofs` proves all eight invariants of the run, for every `MaxNodes`,
`MaxStatements` and `MaxParameters`, that is for trees of any size and depth:

* `TypeCorrect`, `LexicalScopes` (`ScopesFollowTree`), `BackAtRoot` (`BubblesUp`);
* `LexicalVerdict`, `SourceOrder`, `NothingSkipped` (`EveryNodeHandled`);
* `NamesStay` (`NamesInFunctionScopes`), `Safe` (`SafeWithoutDefinitions`).

None of these is inductive alone. `ScopesFollowTree` compares the scopes with the item on top
of the deque; popping it exposes the next one, so the invariant must link all neighbours
(`Link` in `TraversalInv`): each item is handled in the scopes the one above it leaves open, and the bottom one
leaves the root scope, which is `BubblesUp`. `VerdictIsLexical` needs a verdict for each report
already made (`ReportInv`), and a verdict must not change while the tree is still being revealed:
what encloses a known node is known (`NodeInv` in `TreeInv`). `OrderInv` says that what lies
on the deque above a child, or has been handled, is what the source puts before it, and
`CountInv` that reports and items of a child add up to the reports of its parent, once for each
time it is listed; it needs that a node has one parent (`OneParent`). `SafeInv` needs that no scope has names
where nothing is defined.

The handlers are many but differ in little. Each is shown to be a `Visit`: a report for the top
item that is right for its node, and its children pushed in reverse, with `Leave` below those for which a scope was opened
(lemmas `VisitReversed`, `VisitAlternate` and so on). Each part of the invariant is then proved once for `Visit`
and once for the discovery of a node (`Discovered`).

Only model-checked:

* liveness, which is beyond the provers: `Returns` of the expression parser and of the scanner,
  `EndsOrRightParenthesis` of `Parser`, and the fairness in `Implements` of `Deque` (its initial state and
  steps are `ListImplementsSequence`);
* that the models deadlock only where the program stops.

The runs that expect a violation have no theorem: their counterexamples are what they show.

## Not modelled

Line and column numbers; failing allocations of anything but list items; comparisons, `set_char` and
`code_data` of `ptr_string.c`, which the conversion does not call; the growth of `array_nodes`; the
bodies of compound statements, assignments and parameter lists in `parser.c`, which no
source reaches (the trees they construct are the input of `SemanticAnalyser`); the text
of messages and the IFJcode19 of `builtin_functions.c`, which nothing calls.
