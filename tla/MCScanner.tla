----------------------------- MODULE MCScanner -----------------------------
(***************************************************************************)
(* Every source of up to MaxPieces pieces: all characters, line starts at  *)
(* three depths, the quotes of a block comment, and an escape in a string. *)
(***************************************************************************)
EXTENDS Scanner

LineStarts == {<<"\n", "a">>, <<"\n", "blank", "a">>, <<"\n", "blank", "blank", "a">>,
               <<"blank", "blank", "a", "\n", "blank", "a">>,
               <<"\n", "blank", "a", "\n", "blank", "blank", "a">>}

MCPieces == {<<c>> : c \in Char} \cup LineStarts \cup
            {Quotes, <<"'", "\\">>, <<"'", "\\", "x", "1">>}
=============================================================================
