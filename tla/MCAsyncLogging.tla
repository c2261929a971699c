--------------------------- MODULE MCAsyncLogging ---------------------------
(* AsyncLogging with four lines: three that share a buffer two by two or   *)
(* not at all, and one that no buffer can hold.                            *)
EXTENDS AsyncLogging

CONSTANTS a, b, c, d, long

MCLines == {a, b, c, d, long}
MCSize == [l \in MCLines |-> CASE l = long -> 4 [] l = c -> 2 [] OTHER -> 1]
=============================================================================
