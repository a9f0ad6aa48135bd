-------------------------------- MODULE Ecran --------------------------------
(***************************************************************************)
(* The Nextion touch screen, a process of its own.  Its buttons keep their *)
(* state in the display; lecture turns presses into HTTP requests, ecriture*)
(* polls /status every second and overwrites the buttons.  Button 3 shows  *)
(* the state of the gate lamp, and commands the pool-house lamp.           *)
(*                                                                         *)
(* The requests are one step each at the controller (modules Commandes and *)
(* Portail have their accesses); keys and windows are AutreCommande.       *)
(***************************************************************************)
EXTENDS Integers, Sequences

CONSTANTS
    Boutons,        \* the buttons that the instance looks at, a subset of 0..3
    MaxAppuis       \* bound: presses not yet read from the serial port

Appareils == {"pompe", "electrolyse", "lampe", "lampePortail"}

ASSUME EcranAssumption ==
    /\ Boutons \subseteq 0..3
    /\ MaxAppuis \in Nat \ {0}

VARIABLES
    serveur,    \* does the controller answer requests?
    sortie,     \* its state variables of the four devices, as /status has them
    affiche,    \* bt<b>.val, the state of each button on the screen
    appuis,     \* presses on their way to lecture: button and value
    vue,        \* the answer of /status that ecriture works with
    ronde,      \* ecriture: "pause"; "question": it waits for the answer;
                \* "ecriture"; "mort": the process does not run
    aEcrire     \* the buttons it has still to write

vars == <<serveur, sortie, affiche, appuis, vue, ronde, aEcrire>>

(* What a button shows, and what it commands.                              *)
Montre(b) == CASE b = 0 -> "pompe"
               [] b = 1 -> "electrolyse"
               [] b = 2 -> "lampe"
               [] b = 3 -> "lampePortail"

Commande(b) == CASE b = 0 -> "pompe" [] b = 1 -> "electrolyse" [] b \in {2, 3} -> "lampe"

Eteint == [a \in Appareils |-> 0]

Init ==
    /\ serveur = FALSE
    /\ sortie = Eteint
    /\ affiche = [b \in Boutons |-> 0]
    /\ appuis = <<>>
    /\ vue = [b \in Boutons |-> 0]
    /\ ronde = "mort"
    /\ aEcrire = {}

Vit == ronde # "mort"

-----------------------------------------------------------------------------

(* A finger: the button turns over and the display reports its new state.  *)
Appuyer(b) ==
    /\ Vit
    /\ Len(appuis) < MaxAppuis
    /\ affiche' = [affiche EXCEPT ![b] = 1 - @]
    /\ appuis' = Append(appuis, <<b, affiche'[b]>>)
    /\ UNCHANGED <<serveur, sortie, vue, ronde, aEcrire>>

(* What a request does to the state variables.  /electro/1 is refused      *)
(* without the pump and, inside electrolyseOn, in cold water.              *)
Effet(a, v, s) ==
    IF a = "pompe" /\ v = 0 THEN {[s EXCEPT !["pompe"] = 0, !["electrolyse"] = 0]}
    ELSE IF a = "electrolyse" /\ v = 1
         THEN {s} \cup (IF s["pompe"] = 1 THEN {[s EXCEPT !["electrolyse"] = 1]} ELSE {})
         ELSE {[s EXCEPT ![a] = v]}

(* lecture takes a press and waits for the answer to its request.          *)
Envoyer ==
    /\ Vit
    /\ appuis # <<>>
    /\ serveur
    /\ sortie' \in Effet(Commande(Head(appuis)[1]), Head(appuis)[2], sortie)
    /\ appuis' = Tail(appuis)
    /\ UNCHANGED <<serveur, affiche, vue, ronde, aEcrire>>

(* ecriture polls; the answer is what the variables are when it is made.   *)
Demander ==
    /\ ronde = "pause"
    /\ serveur
    /\ vue' = [b \in Boutons |-> sortie[Montre(b)]]
    /\ ronde' = "question"
    /\ UNCHANGED <<serveur, sortie, affiche, appuis, aEcrire>>

Repondre ==
    /\ ronde = "question"
    /\ ronde' = "ecriture"
    /\ aEcrire' = Boutons
    /\ UNCHANGED <<serveur, sortie, affiche, appuis, vue>>

(* Mutant: the button is only ever switched on. *)
Afficher_SansZero(b) ==
    /\ ronde = "ecriture"
    /\ b \in aEcrire
    /\ \A c \in aEcrire : b <= c
    /\ affiche' = [affiche EXCEPT ![b] = IF vue[b] = 1 THEN 1 ELSE @]
    /\ aEcrire' = aEcrire \ {b}
    /\ UNCHANGED <<serveur, sortie, appuis, vue, ronde>>

(* The buttons are written one after the other, bt0 first.                 *)
Afficher(b) ==
    /\ ronde = "ecriture"
    /\ b \in aEcrire
    /\ \A c \in aEcrire : b <= c
    /\ affiche' = [affiche EXCEPT ![b] = vue[b]]
    /\ aEcrire' = aEcrire \ {b}
    /\ UNCHANGED <<serveur, sortie, appuis, vue, ronde>>

Dormir ==
    /\ ronde = "ecriture"
    /\ aEcrire = {}
    /\ ronde' = "pause"
    /\ UNCHANGED <<serveur, sortie, affiche, appuis, vue, aEcrire>>

(* Mutant: the other goroutine goes on writing. *)
Mourir_EcritureContinue ==
    /\ ~serveur
    /\ \/ ronde = "pause"
       \/ Vit /\ appuis # <<>>
    /\ ronde' = "mort"
    /\ UNCHANGED <<serveur, sortie, affiche, appuis, vue, aEcrire>>

(* A request that gets no connection gives a nil response, which is used.  *)
Mourir ==
    /\ ~serveur
    /\ \/ ronde = "pause"
       \/ Vit /\ appuis # <<>>
    /\ ronde' = "mort"
    /\ aEcrire' = {}
    /\ UNCHANGED <<serveur, sortie, affiche, appuis, vue>>

(* The screen's program is started, for the first time or again; the       *)
(* display still shows what it showed.                                     *)
Demarrer ==
    /\ ~Vit
    /\ ronde' = "pause"
    /\ appuis' = <<>>
    /\ UNCHANGED <<serveur, sortie, affiche, vue, aEcrire>>

(* Keys and filtration windows.                                            *)
AutreCommande ==
    /\ serveur
    /\ \E a \in Appareils, v \in {0, 1} : sortie' \in Effet(a, v, sortie)
    /\ UNCHANGED <<serveur, affiche, appuis, vue, ronde, aEcrire>>

(* The controller starts with fresh variables, and may end at any point.   *)
Lancement ==
    /\ ~serveur
    /\ serveur' = TRUE
    /\ sortie' = Eteint
    /\ UNCHANGED <<affiche, appuis, vue, ronde, aEcrire>>

Panne ==
    /\ serveur
    /\ serveur' = FALSE
    /\ UNCHANGED <<sortie, affiche, appuis, vue, ronde, aEcrire>>

Next ==
    \/ Lancement \/ Panne
    \/ \E b \in Boutons : Appuyer(b)
    \/ \E b \in Boutons : Afficher(b)
    \/ Envoyer \/ Demander \/ Repondre \/ Dormir
    \/ Mourir \/ Demarrer \/ AutreCommande

(* The two goroutines of the screen go on.                                 *)
Equite ==
    /\ WF_vars(Envoyer)
    /\ WF_vars(Demander \/ Repondre \/ Dormir \/ \E b \in Boutons : Afficher(b))

Spec == Init /\ [][Next]_vars /\ Equite

-----------------------------------------------------------------------------
(* Properties.                                                             *)

(* The screen's variables keep their types; a round that writes has read.  *)
TypeOK ==
    /\ serveur \in BOOLEAN
    /\ sortie \in [Appareils -> {0, 1}]
    /\ affiche \in [Boutons -> {0, 1}]
    /\ appuis \in Seq(Boutons \X {0, 1})
    /\ vue \in [Boutons -> {0, 1}]
    /\ ronde \in {"pause", "question", "ecriture", "mort"}
    /\ aEcrire \subseteq Boutons
    /\ aEcrire # {} => ronde = "ecriture"

(* Nothing moves the state variables and no button is pressed any more,    *)
(* and the controller runs.                                                *)
Calme ==
    /\ <>[]serveur
    /\ <>[][UNCHANGED sortie /\ Len(appuis') <= Len(appuis)]_vars

(* Once commands and fingers are quiet the screen shows the state in the   *)
(* end, whatever answers and presses have overtaken each other before: a   *)
(* refused command, a button turned back by an answer that was older than  *)
(* the press, button 3 which commands another lamp than it shows.          *)
AfficheSuit == Calme => <>[](Vit => \A b \in Boutons : affiche[b] = sortie[Montre(b)])
=============================================================================
