----------------------------- MODULE EcranProofs -----------------------------
(***************************************************************************)
(* What TLAPS proves of Ecran: the types, and the half of AfficheSuit that *)
(* needs no fairness: a screen that shows the state goes on showing it for *)
(* as long as nothing moves the state and nobody presses.                  *)
(***************************************************************************)
EXTENDS Ecran, Files, TLAPS

-----------------------------------------------------------------------------
(* Types.                                                                  *)

(* A button shows and commands a device.                                   *)
LEMMA BoutonsTypes ==
    ASSUME NEW b \in Boutons
    PROVE  Montre(b) \in Appareils /\ Commande(b) \in Appareils
<1>1. b \in {0, 1, 2, 3}
  BY EcranAssumption
<1> QED
  BY <1>1 DEF Montre, Commande, Appareils

(* A request leaves every device on or off.                                *)
LEMMA EffetType ==
    ASSUME NEW a \in Appareils, NEW v \in {0, 1}, NEW s \in [Appareils -> {0, 1}],
           NEW r \in Effet(a, v, s)
    PROVE  r \in [Appareils -> {0, 1}]
BY DEF Effet, Appareils

LEMMA TypeAuDepart == Init => TypeOK
BY Vide DEF Init, TypeOK, Eteint

LEMMA TypeConserve == TypeOK /\ [Next]_vars => TypeOK'
<1> SUFFICES ASSUME TypeOK, [Next]_vars
             PROVE  TypeOK'
  OBVIOUS
<1> USE DEF TypeOK
<1>1. CASE Lancement
  BY <1>1 DEF Lancement, Eteint
<1>2. CASE Panne
  BY <1>2 DEF Panne
<1>3. ASSUME NEW b \in Boutons, Appuyer(b)
      PROVE  TypeOK'
  <2>1. affiche' = [affiche EXCEPT ![b] = 1 - affiche[b]] /\ affiche[b] \in {0, 1}
    BY <1>3 DEF Appuyer
  <2>2. affiche' \in [Boutons -> {0, 1}] /\ affiche'[b] \in {0, 1}
    BY <2>1
  <2>3. <<b, affiche'[b]>> \in Boutons \X {0, 1}
    BY <2>2
  <2>4. appuis' \in Seq(Boutons \X {0, 1})
    BY <1>3, <2>3, Ajout DEF Appuyer
  <2> QED
    BY <1>3, <2>2, <2>4 DEF Appuyer
<1>4. ASSUME NEW b \in Boutons, Afficher(b)
      PROVE  TypeOK'
  BY <1>4 DEF Afficher
<1>5. CASE Envoyer
  <2>1. Head(appuis) \in Boutons \X {0, 1} /\ Tail(appuis) \in Seq(Boutons \X {0, 1})
    BY <1>5, Queue DEF Envoyer
  <2>2. Head(appuis)[1] \in Boutons /\ Head(appuis)[2] \in {0, 1}
    BY <2>1
  <2>3. sortie' \in [Appareils -> {0, 1}]
    BY <1>5, <2>2, BoutonsTypes, EffetType DEF Envoyer
  <2> QED
    BY <1>5, <2>1, <2>3 DEF Envoyer
<1>6. CASE Demander
  BY <1>6, BoutonsTypes DEF Demander
<1>7. CASE Repondre
  BY <1>7 DEF Repondre
<1>8. CASE Dormir
  BY <1>8 DEF Dormir
<1>9. CASE Mourir
  BY <1>9 DEF Mourir
<1>10. CASE Demarrer
  BY <1>10, Vide DEF Demarrer, Vit
<1>11. CASE AutreCommande
  <2>1. sortie' \in [Appareils -> {0, 1}]
    BY <1>11, EffetType DEF AutreCommande
  <2> QED
    BY <1>11, <2>1 DEF AutreCommande
<1>12. CASE UNCHANGED vars
  BY <1>12 DEF vars
<1> QED
  BY <1>1, <1>2, <1>3, <1>4, <1>5, <1>6, <1>7, <1>8, <1>9, <1>10, <1>11, <1>12 DEF Next

(* For any set of buttons and any number of presses under way, buttons and *)
(* state variables stay 0 or 1, and ecriture has buttons to write only in  *)
(* the round whose answer it has read, also when the process dies.         *)
THEOREM TypesTenus == Spec => []TypeOK
BY TypeAuDepart, TypeConserve, PTL DEF Spec

-----------------------------------------------------------------------------
(* What is shown stays shown.                                              *)

(* The buttons show the state, and so does the answer that ecriture may    *)
(* still be writing.                                                       *)
Suit ==
    /\ \A b \in Boutons : affiche[b] = sortie[Montre(b)]
    /\ ronde \in {"question", "ecriture"} => \A b \in Boutons : vue[b] = sortie[Montre(b)]

(* Nothing moves the state and no button is pressed.                       *)
Repos == UNCHANGED sortie /\ Len(appuis') <= Len(appuis)

LEMMA SuitConserve == TypeOK /\ Suit /\ [Next]_vars /\ [Repos]_vars => Suit'
<1> SUFFICES ASSUME TypeOK, Suit, Next, Repos
             PROVE  Suit'
  BY DEF vars, Suit
<1>1. sortie' = sortie
  BY DEF Repos
<1>2. CASE Lancement \/ Panne \/ Envoyer \/ AutreCommande
  BY <1>1, <1>2 DEF Lancement, Panne, Envoyer, AutreCommande, Suit
<1>3. ASSUME NEW b \in Boutons, Appuyer(b)
      PROVE  FALSE
  <2>1. Len(appuis') = Len(appuis) + 1 /\ Len(appuis) \in Nat
    BY <1>3 DEF Appuyer, TypeOK
  <2> QED
    BY <2>1 DEF Repos
<1>4. ASSUME NEW b \in Boutons, Afficher(b)
      PROVE  Suit'
  <2>1. vue[b] = sortie[Montre(b)] /\ vue' = vue /\ ronde' = ronde
    BY <1>4 DEF Afficher, Suit
  <2>2. ASSUME NEW c \in Boutons
        PROVE  affiche'[c] = sortie[Montre(c)]
    BY <1>4, <2>1 DEF Afficher, Suit, TypeOK
  <2> QED
    BY <1>1, <2>1, <2>2 DEF Suit
<1>5. CASE Demander
  BY <1>1, <1>5 DEF Demander, Suit
<1>6. CASE Repondre \/ Dormir \/ Mourir \/ Demarrer
  BY <1>1, <1>6 DEF Repondre, Dormir, Mourir, Demarrer, Suit
<1> QED
  BY <1>2, <1>3, <1>4, <1>5, <1>6 DEF Next

(* Once nothing moves the state and nobody presses, the screen does not    *)
(* flicker: it shows the state for good, or it never settles on it at all. *)
(* That it is the former, whatever answers and presses are under way, is   *)
(* AfficheSuit, which needs the fairness of the two goroutines.            *)
THEOREM ResteAffiche ==
    Spec => (<>[][UNCHANGED sortie /\ Len(appuis') <= Len(appuis)]_vars
                => <>[]Suit \/ <>[]~Suit)
<1>1. TypeOK /\ Suit /\ [Next]_vars /\ [UNCHANGED sortie /\ Len(appuis') <= Len(appuis)]_vars
          => Suit'
  BY SuitConserve DEF Repos
<1> QED
  BY <1>1, TypesTenus, PTL DEF Spec
=============================================================================
