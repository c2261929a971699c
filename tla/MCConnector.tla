---------------------------- MODULE MCConnector ----------------------------
(* Connector with one connect() and one stop().                            *)
EXTENDS Connector
=============================================================================
