----------------------------- MODULE MCProcess -----------------------------
(* Process on a small instance: a family of three.                          *)
EXTENDS Process

MCKilled == -1
=============================================================================
