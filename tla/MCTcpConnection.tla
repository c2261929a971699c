-------------------------- MODULE MCTcpConnection --------------------------
(* TcpConnection with two messages, so that one may wait behind a partly    *)
(* written other, and one thread besides the loop's.                       *)
EXTENDS TcpConnection
=============================================================================
