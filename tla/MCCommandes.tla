----------------------------- MODULE MCCommandes -----------------------------
(* Commandes for TLC: which keys are pressed and which requests are made.   *)
EXTENDS Commandes

TemperaturesMC == {0, 20}
ToutesTouches == {"P", "E", "L", "Q"}
ToutesUrls == Appareils \X {0, 1}
UrlsVerrou == {<<"electrolyse", 1>>, <<"pompe", 0>>}
TouchesAucune == {}
=============================================================================
