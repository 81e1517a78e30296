------------------------- MODULE MCStringConvertor -------------------------
(***************************************************************************)
(* All literals of up to MaxPieces pieces: written characters (a letter,   *)
(* one that is also an escape, "#", a blank, a byte over 127), and escapes *)
(* of each kind, with the values 0, 31, 92 and 160 in hexadecimal.         *)
(***************************************************************************)
EXTENDS StringConvertor

CONSTANT MaxPieces

Pieces == {<<97>>, <<110>>, <<35>>, <<32>>, <<-61>>,
           <<92, 110>>, <<92, 39>>, <<92, 92>>, <<92, 113>>,
           <<92, 120, 48, 48>>, <<92, 120, 49, 102>>, <<92, 120, 53, 67>>, <<92, 120, 65, 48>>}

MCLiterals == {FlattenSeq(pieces) : pieces \in UNION {[1..n -> Pieces] : n \in 0..MaxPieces}}
=============================================================================
