-------------------------------- MODULE Canal --------------------------------
(***************************************************************************)
(* What one direction of the MQTT connection promises to its two ends, at  *)
(* quality of service 0: messages may be lost, but what arrives arrives    *)
(* once and in the order of publication.  Messages are named by their rank.*)
(***************************************************************************)
EXTENDS Naturals

VARIABLES
    publies,    \* how many messages have been published
    recu        \* the last one that has arrived, 0 before the first

varsCanal == <<publies, recu>>

Init == publies = 0 /\ recu = 0

Publier == publies' = publies + 1 /\ UNCHANGED recu

(* What lies between recu and n is lost.                                   *)
Livrer ==
    /\ \E n \in (recu + 1)..publies : recu' = n
    /\ UNCHANGED publies

Next == Publier \/ Livrer

Spec == Init /\ [][Next]_varsCanal
=============================================================================
