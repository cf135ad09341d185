---------------------------- MODULE MCEscSession ----------------------------
(* Instances of EscSession for TLC.                                          *)
EXTENDS EscSession

CONSTANTS c1, c2
=============================================================================
