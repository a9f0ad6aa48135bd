---------------------------- MODULE PortailProofs ----------------------------
(***************************************************************************)
(* What TLAPS proves of Portail: when the program knows what the gate's    *)
(* lamp does, and what key A then orders, for any number of requests,      *)
(* messages, losses and restarts.                                          *)
(***************************************************************************)
EXTENDS Portail, Files, TLAPS

-----------------------------------------------------------------------------
(* Types.                                                                  *)

LEMMA TypeAuDepart == Init => TypeOK
<1> SUFFICES ASSUME Init
             PROVE  TypeOK
  OBVIOUS
<1>0. publies = 0 /\ recu = 0
  BY DEF Init, C!Init
<1>1. <<>> \in Seq(Ordres) /\ Len(<<>>) = 0
  BY Vide
<1>2. "libre" \in Etapes /\ <<"lampe", 0>> \in Ordres
  BY DEF Etapes, Ordres
<1>3. contenu \in Seq(Ordres) /\ Len(contenu) = 0
  BY <1>1 DEF Init
<1>4. /\ phase = "arret" /\ etat \in {0, 1} /\ lampe \in {0, 1}
      /\ perdu \in BOOLEAN /\ croise \in BOOLEAN
      /\ etape \in [Acteurs -> Etapes] /\ ordre \in [Acteurs -> Ordres]
  BY <1>2 DEF Init
<1>5. publies \in Nat /\ recu \in 0..publies /\ Len(contenu) = publies
  BY <1>0, <1>3
<1> QED
  BY <1>3, <1>4, <1>5 DEF TypeOK

LEMMA TypeLance ==
    ASSUME TypeOK, NEW t \in Acteurs, NEW e \in Etapes, NEW o \in Ordres, Lance(t, e, o)
    PROVE  TypeOK'
BY DEF TypeOK, Lance

LEMMA TypePublier ==
    ASSUME TypeOK, NEW t \in Acteurs, Publier(t)
    PROVE  TypeOK'
<1>1. ordre[t] \in Ordres
  BY DEF TypeOK
<1>2. contenu' \in Seq(Ordres) /\ Len(contenu') = publies'
  BY <1>1, Ajout DEF TypeOK, Publier, C!Publier
<1>3. publies' \in Nat /\ recu' \in 0..publies'
  BY DEF TypeOK, Publier, C!Publier
<1>4. etape' \in [Acteurs -> Etapes] /\ phase' = "marche"
  BY DEF TypeOK, Publier, Etapes
<1> QED
  BY <1>2, <1>3, <1>4 DEF TypeOK, Publier

LEMMA TypeLivrer ==
    ASSUME TypeOK, Livrer
    PROVE  TypeOK'
<1>1. recu' \in 1..publies /\ publies' = publies
  BY DEF TypeOK, Livrer, C!Livrer
<1>2. contenu[recu'] \in Ordres
  BY <1>1 DEF TypeOK
<1>3. lampe' \in {0, 1}
  BY <1>2 DEF TypeOK, Livrer, Ordres
<1> QED
  BY <1>1, <1>3 DEF TypeOK, Livrer

LEMMA TypeConserve == TypeOK /\ [Next]_varsPortail => TypeOK'
<1> SUFFICES ASSUME TypeOK, [Next]_varsPortail
             PROVE  TypeOK'
  OBVIOUS
<1> USE PortailAssumption
<1>1. CASE Lancement
  <2>1. <<>> \in Seq(Ordres) /\ Len(<<>>) = 0
    BY Vide
  <2>2. "stocker-publier" \in Etapes /\ <<"demarrage", 0>> \in Ordres
    BY DEF Etapes, Ordres
  <2>3. /\ phase' = "init" /\ etat' = 0 /\ lampe' = lampe
        /\ etape' \in [Acteurs -> Etapes] /\ ordre' \in [Acteurs -> Ordres]
        /\ perdu' = FALSE /\ croise' = FALSE
    BY <1>1, <2>2 DEF Lancement, TypeOK
  <2>4. publies' = 0 /\ recu' = 0 /\ contenu' = <<>>
    BY <1>1 DEF Lancement
  <2>5. contenu' \in Seq(Ordres) /\ Len(contenu') = 0
    BY <2>1, <2>4
  <2>6. publies' \in Nat /\ recu' \in 0..publies'
    BY <2>4
  <2> QED
    BY <2>3, <2>4, <2>5, <2>6 DEF TypeOK
<1>2. CASE Panne
  BY <1>2 DEF Panne, TypeOK, Etapes
<1>3. CASE ToucheA
  <2>1. Clavier \in Acteurs /\ "publier-stocker" \in Etapes /\ <<"lampe", 1 - etat>> \in Ordres
    BY DEF TypeOK, Acteurs, Etapes, Ordres
  <2> QED
    BY <1>3, <2>1, TypeLance DEF ToucheA
<1>4. ASSUME NEW r \in Requetes, HttpPortail(r)
      PROVE  TypeOK'
  <2>1. PICK s \in Sujets, v \in {0, 1} : Lance(r, "stocker-publier", <<s, v>>)
    BY <1>4 DEF HttpPortail
  <2>2. r \in Acteurs /\ "stocker-publier" \in Etapes /\ <<s, v>> \in Ordres
    BY DEF Acteurs, Etapes, Ordres
  <2> QED
    BY <2>1, <2>2, TypeLance
<1>5. ASSUME NEW t \in Acteurs, Stocker(t)
      PROVE  TypeOK'
  <2>1. ordre[t] \in Ordres
    BY DEF TypeOK
  <2>2. etat' \in {0, 1}
    BY <1>5, <2>1 DEF Stocker, Ordres
  <2> QED
    BY <1>5, <2>2 DEF Stocker, TypeOK, Etapes
<1>6. ASSUME NEW t \in Acteurs, Publier(t)
      PROVE  TypeOK'
  BY <1>6, TypePublier
<1>7. CASE Livrer
  BY <1>7, TypeLivrer
<1>8. CASE UNCHANGED varsPortail
  BY <1>8 DEF varsPortail, TypeOK
<1> QED
  BY <1>1, <1>2, <1>3, <1>4, <1>5, <1>6, <1>7, <1>8 DEF Next

(* Every variable keeps its type; every published message has a content.   *)
THEOREM TypePortail == Spec => []TypeOK
BY TypeAuDepart, TypeConserve, PTL DEF Spec

-----------------------------------------------------------------------------
(* What the program knows of the lamp.                                     *)

Actif(t) == etape[t] # "libre"

(* Commands that have not overlapped are at most one at a time, and only   *)
(* init() runs before the process has published.                           *)
UnSeul ==
    /\ phase = "arret" => \A t \in Acteurs : ~Actif(t)
    /\ phase = "init" => \A t \in Acteurs : Actif(t) => t = Boucle
    /\ phase = "marche" => publies > 0
    /\ ~croise => \A t, u \in Acteurs : Actif(t) /\ Actif(u) => t = u

(* The variable is what the last message says, but for the one command     *)
(* that is between its two accesses.                                       *)
Accord ==
    phase # "arret" /\ ~croise =>
        /\ \A t \in Acteurs : /\ etape[t] = "publier" => etat = ordre[t][2]
                              /\ etape[t] = "stocker" => /\ publies > 0
                                                         /\ contenu[publies] = ordre[t]
        /\ phase = "marche"
           /\ (\A t \in Acteurs : etape[t] \in {"libre", "publier-stocker", "stocker-publier"})
              => contenu[publies][2] = etat

(* The lamp does what the last message that has arrived says.              *)
LampeSuit ==
    phase # "arret" /\ recu > 0 /\ contenu[recu][1] = "lampe" => lampe = contenu[recu][2]

IInv == TypeOK /\ UnSeul /\ Accord /\ LampeSuit

LEMMA IInvAuDepart == Init => IInv
BY TypeAuDepart DEF Init, IInv, UnSeul, Accord, LampeSuit, Actif

LEMMA LanceConserve ==
    ASSUME IInv, NEW t \in Acteurs, NEW e \in {"stocker-publier", "publier-stocker"},
           NEW o, Lance(t, e, o)
    PROVE  UnSeul' /\ Accord' /\ LampeSuit'
<1> USE DEF Lance, IInv, TypeOK
<1>1. UnSeul'
  BY DEF UnSeul, Actif
<1>2. LampeSuit'
  BY DEF LampeSuit
<1>3. \A u \in Acteurs : u # t => etape'[u] = etape[u] /\ ordre'[u] = ordre[u]
  OBVIOUS
<1>4. etape'[t] = e
  OBVIOUS
<1>5. ~croise' => \A u \in Acteurs : etape[u] = "libre"
  OBVIOUS
<1>6. Accord'
  BY <1>3, <1>4, <1>5 DEF Accord
<1> QED
  BY <1>1, <1>2, <1>6

LEMMA StockerConserve ==
    ASSUME IInv, NEW t \in Acteurs, Stocker(t)
    PROVE  UnSeul' /\ Accord' /\ LampeSuit'
<1> USE DEF Stocker, IInv, TypeOK
<1>1. \A u \in Acteurs : Actif(u)' => Actif(u)
  BY DEF Actif
<1>2. UnSeul'
  BY <1>1 DEF UnSeul
<1>3. LampeSuit'
  BY DEF LampeSuit
<1>4. ASSUME phase # "arret", ~croise
      PROVE  \A u \in Acteurs : u # t => etape[u] = "libre" /\ etape'[u] = "libre"
  BY <1>4 DEF UnSeul, Actif
<1>5. CASE etape[t] = "stocker"
  <2>1. etape'[t] = "libre" /\ etat' = ordre[t][2]
    BY <1>5
  <2> QED
    BY <1>2, <1>3, <1>4, <1>5, <2>1 DEF Accord
<1>6. CASE etape[t] = "stocker-publier"
  <2>1. etape'[t] = "publier" /\ etat' = ordre[t][2]
    BY <1>6
  <2> QED
    BY <1>2, <1>3, <1>4, <1>6, <2>1 DEF Accord
<1> QED
  BY <1>5, <1>6

LEMMA PublierConserve ==
    ASSUME IInv, NEW t \in Acteurs, Publier(t)
    PROVE  UnSeul' /\ Accord' /\ LampeSuit'
<1>1. /\ publies' = publies + 1
      /\ recu' = recu
      /\ contenu'[publies'] = ordre[t]
      /\ \A i \in 1..publies : contenu'[i] = contenu[i]
  <2>1. ordre[t] \in Ordres /\ contenu \in Seq(Ordres) /\ Len(contenu) = publies
    BY DEF IInv, TypeOK
  <2> QED
    BY <2>1, Ajout DEF Publier, C!Publier
<1>2. UnSeul'
  BY <1>1 DEF UnSeul, Actif, Publier, IInv, TypeOK
<1>3. LampeSuit'
  <2>1. recu \in 0..publies /\ publies \in Nat
    BY DEF IInv, TypeOK
  <2>2. recu > 0 => contenu'[recu] = contenu[recu]
    BY <1>1, <2>1
  <2>3. phase # "arret"
    BY DEF Publier, IInv, UnSeul, Actif
  <2> QED
    BY <1>1, <2>2, <2>3 DEF IInv, LampeSuit, Publier
<1>4. Accord'
  <2> SUFFICES ASSUME ~croise
               PROVE  Accord'
    BY DEF Accord, Publier
  <2>1. phase # "arret"
    BY DEF Publier, IInv, UnSeul, Actif
  <2>2. \A u \in Acteurs : u # t => etape[u] = "libre" /\ etape'[u] = "libre"
    BY DEF IInv, TypeOK, UnSeul, Actif, Publier
  <2>3. publies' > 0
    BY <1>1 DEF IInv, TypeOK
  <2>4. CASE etape[t] = "publier"
    <3>1. etape'[t] = "libre" /\ etat' = etat /\ etat = ordre[t][2] /\ ordre' = ordre
      BY <2>1, <2>4 DEF IInv, TypeOK, Accord, Publier
    <3> QED
      BY <1>1, <2>2, <2>3, <3>1 DEF Accord
  <2>5. CASE etape[t] = "publier-stocker"
    <3>1. etape'[t] = "stocker" /\ ordre' = ordre
      BY <2>5 DEF IInv, TypeOK, Publier
    <3> QED
      BY <1>1, <2>2, <2>3, <3>1 DEF Accord
  <2> QED
    BY <2>4, <2>5 DEF Publier
<1> QED
  BY <1>2, <1>3, <1>4

LEMMA IInvConserve == IInv /\ [Next]_varsPortail => IInv'
<1> SUFFICES ASSUME IInv, [Next]_varsPortail
             PROVE  UnSeul' /\ Accord' /\ LampeSuit'
  BY TypeConserve DEF IInv
<1>1. CASE Lancement
  <2>1. recu' = 0 /\ phase' = "init"
    BY <1>1 DEF Lancement
  <2>2. \A t \in Acteurs : etape'[t] = IF t = Boucle THEN "stocker-publier" ELSE "libre"
    BY <1>1 DEF Lancement, IInv, TypeOK, UnSeul, Actif
  <2> QED
    BY <2>1, <2>2 DEF UnSeul, Accord, LampeSuit, Actif
<1>2. CASE Panne
  BY <1>2 DEF Panne, UnSeul, Accord, LampeSuit, Actif
<1>3. CASE ToucheA
  BY <1>3, LanceConserve DEF ToucheA, Acteurs
<1>4. ASSUME NEW r \in Requetes, HttpPortail(r)
      PROVE  UnSeul' /\ Accord' /\ LampeSuit'
  BY <1>4, LanceConserve DEF HttpPortail, Acteurs
<1>5. ASSUME NEW t \in Acteurs, Stocker(t)
      PROVE  UnSeul' /\ Accord' /\ LampeSuit'
  BY <1>5, StockerConserve
<1>6. ASSUME NEW t \in Acteurs, Publier(t)
      PROVE  UnSeul' /\ Accord' /\ LampeSuit'
  BY <1>6, PublierConserve
<1>7. CASE Livrer
  <2>1. recu' \in 1..publies /\ publies' = publies
    BY <1>7 DEF IInv, TypeOK, Livrer, C!Livrer
  <2>2. LampeSuit'
    BY <1>7, <2>1 DEF Livrer, LampeSuit
  <2>3. UnSeul' /\ Accord'
    BY <1>7, <2>1 DEF Livrer, UnSeul, Accord, Actif, IInv
  <2> QED
    BY <2>2, <2>3
<1>8. CASE UNCHANGED varsPortail
  BY <1>8 DEF varsPortail, IInv, UnSeul, Accord, LampeSuit, Actif
<1> QED
  BY <1>1, <1>2, <1>3, <1>4, <1>5, <1>6, <1>7, <1>8 DEF Next

LEMMA IInvConnue == IInv => LampeConnue
<1> SUFFICES ASSUME IInv, AuRepos, ~croise, contenu[publies][1] = "lampe"
             PROVE  etat = lampe
  BY DEF LampeConnue
<1>1. publies > 0 /\ recu = publies /\ phase = "marche"
  BY DEF IInv, UnSeul, AuRepos
<1>2. contenu[publies][2] = etat
  BY <1>1 DEF IInv, Accord, AuRepos
<1>3. lampe = contenu[recu][2]
  BY <1>1 DEF IInv, LampeSuit
<1> QED
  BY <1>1, <1>2, <1>3

(* At rest, after commands one at a time of which the last was for the     *)
(* lamp, the variable says what the lamp does.                             *)
THEOREM LampeToujoursConnue == Spec => []LampeConnue
BY IInvAuDepart, IInvConserve, IInvConnue, PTL DEF Spec

LEMMA ToucheAOrdonne ==
    ASSUME IInv, [Next]_varsPortail, AuRepos, ~croise,
           contenu[publies][1] = "lampe", etape'[Clavier] = "publier-stocker"
    PROVE  ordre'[Clavier] = <<"lampe", 1 - lampe>>
<1>1. etape[Clavier] = "libre" /\ Clavier \in Acteurs
  BY DEF AuRepos, Acteurs
<1>2. etat = lampe
  BY IInvConnue DEF LampeConnue
<1>3. CASE ToucheA
  BY <1>1, <1>2, <1>3 DEF ToucheA, Lance, IInv, TypeOK
<1>4. ~ \E r \in Requetes : HttpPortail(r)
  BY <1>1, PortailAssumption DEF HttpPortail, Lance, IInv, TypeOK
<1>5. ~ \E t \in Acteurs : Stocker(t) \/ Publier(t)
  BY DEF AuRepos, Stocker, Publier
<1>6. ~Lancement /\ ~Panne /\ ~Livrer /\ ~(UNCHANGED varsPortail)
  BY <1>1 DEF Lancement, Panne, Livrer, varsPortail, AuRepos
<1> QED
  BY <1>3, <1>4, <1>5, <1>6 DEF Next

(* From there key A orders the lamp to do the opposite of what it does.    *)
THEOREM ToucheAToujoursBascule == Spec => ToucheABascule
<1>1. IInv /\ [Next]_varsPortail =>
        [ AuRepos /\ ~croise /\ contenu[publies][1] = "lampe"
          /\ etape'[Clavier] = "publier-stocker"
            => ordre'[Clavier] = <<"lampe", 1 - lampe>> ]_varsPortail
  BY ToucheAOrdonne
<1> QED
  BY <1>1, IInvAuDepart, IInvConserve, PTL DEF Spec, ToucheABascule
=============================================================================
