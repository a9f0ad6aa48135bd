--------------------------- MODULE MCBouclePlages ---------------------------
(* BouclePlages for TLC: three windows in a shortened day.  Twelve degrees  *)
(* give windows of two hours that do not touch, thirty degrees windows of   *)
(* five hours of which the first two overlap and the third crosses          *)
(* midnight, a failed reading (0) empty ones.                               *)
EXTENDS BouclePlages

DebutMC == <<2, 5, 8>>
DebutReduit == <<0, 2, 4>>
SansTouche == {}
SansUrl == {}
EauVariable == {0, 12, 30}
EauFraiche == {0, 12}
=============================================================================
