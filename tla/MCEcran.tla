------------------------------- MODULE MCEcran -------------------------------
(* Ecran for TLC.                                                          *)
EXTENDS Ecran
=============================================================================
