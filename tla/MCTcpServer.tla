---------------------------- MODULE MCTcpServer ----------------------------
\* Up to two threads in the pool and three clients: one of the loops gets two.
EXTENDS TcpServer
=============================================================================
