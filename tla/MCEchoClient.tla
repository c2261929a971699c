---------------------------- MODULE MCEchoClient ----------------------------
(* EchoClient with three messages, one loss and one surplus connection.      *)
EXTENDS EchoClient
=============================================================================
