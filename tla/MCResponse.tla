----------------------------- MODULE MCResponse -----------------------------
(* Payloads that are empty, one below, at and one above the limit.          *)
EXTENDS Response
=============================================================================
