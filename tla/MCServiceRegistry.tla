-------------------------- MODULE MCServiceRegistry --------------------------
(***************************************************************************)
(* A buffer for two lines: two long ones do not fit, a long and a short    *)
(* one fill it, and two short ones leave room for a piece of a third.      *)
(***************************************************************************)
EXTENDS ServiceRegistry

MCCapacity == 5
MCSize == [r \in Runs |-> IF r = CHOOSE q \in Runs : TRUE THEN 3 ELSE 2]
=============================================================================
