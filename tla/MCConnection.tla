---------------------------- MODULE MCConnection ----------------------------
(* Connection on small instances: an answer that always fits the socket's  *)
(* empty buffer (1) and one that never does (3), a buffer of two units,    *)
(* chunks of up to two messages and three messages in all.                 *)
EXTENDS Connection

MCSizes == {1, 3}
=============================================================================
