------------------------------ MODULE MCBuffer ------------------------------
(* Buffer with chunks of every length from zero to four.                   *)
EXTENDS Buffer

MCChunks == {<<>>, <<1>>, <<2>>, <<1, 2>>, <<2, 1, 1>>, <<1, 2, 2, 1>>}
=============================================================================
