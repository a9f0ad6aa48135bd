----------------------------- MODULE MCTeleinfo -----------------------------
(* Teleinfo for TLC.                                                       *)
EXTENDS Teleinfo
=============================================================================
