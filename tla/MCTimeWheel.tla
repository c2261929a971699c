---------------------------- MODULE MCTimeWheel ----------------------------
(* TimeWheel with three slots.  The timeouts are negative, short of a turn  *)
(* of the wheel, and exactly one turn, which is also the largest int.  A    *)
(* timeout of zero, with which user code can keep one tick going for ever,  *)
(* is left to the proofs.  times_ is garbage of each kind that tick() tells *)
(* apart.                                                                   *)
EXTENDS TimeWheel
MCTimeouts == {-1, 2, 3}
MCGarbage == {-1, 0, 2}
=============================================================================
