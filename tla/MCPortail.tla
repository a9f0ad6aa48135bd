------------------------------ MODULE MCPortail ------------------------------
(* Portail for TLC.                                                        *)
EXTENDS Portail
=============================================================================
