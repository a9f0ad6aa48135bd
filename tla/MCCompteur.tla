----------------------------- MODULE MCCompteur -----------------------------
(* Compteur for TLC: in base 3 the count passes to two digits at 3.        *)
EXTENDS Compteur
=============================================================================
