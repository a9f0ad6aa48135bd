-------------------------- MODULE ClientMqttProofs --------------------------
(***************************************************************************)
(* What TLAPS proves of ClientMqtt: no publisher waits for a message that  *)
(* nobody has, no worker is missing unnoticed, and each direction of the   *)
(* connection implements the channel of module Canal, for any number of    *)
(* publishers and messages and any depth of the channels.                  *)
(***************************************************************************)
EXTENDS ClientMqtt, Files, TLAPS

-----------------------------------------------------------------------------
(* Types.  Only the three groups of variables are typed apart; a step of   *)
(* one group mostly leaves the others alone.                               *)

TypeClient ==
    /\ perte \in {"non", "appelee", "attend", "reconnexion", "relance"}
    /\ vivants \subseteq Travailleurs
    /\ erreur \in BOOLEAN
    /\ ping \in {"repos", "envoye", "repondu", "expire"}
    /\ conn \in {"vive", "muette", "rompue"}
    /\ abonne \in BOOLEAN

TypeSortie ==
    /\ publies \in Nat
    /\ attente \in [Publieurs -> Nat \cup {Admis}]
    /\ obound \in Seq(Nat \ {0})
    /\ enMain \in Nat
    /\ fil \in Seq(Nat \ {0})
    /\ recu \in Nat

TypeEntree ==
    /\ emis \in 0..MaxEmis
    /\ arrivee \in Seq((1..MaxEmis) \cup {Pong})
    /\ lu \in Pong..MaxEmis
    /\ enLogique \in 0..MaxEmis
    /\ aTraiter \in Seq(1..MaxEmis)
    /\ traite \in 0..MaxEmis

LEMMA TypesParts == TypeOK <=> TypeClient /\ TypeSortie /\ TypeEntree
BY DEF TypeOK, TypeClient, TypeSortie, TypeEntree

(* The steps that touch a group of variables.                              *)
LEMMA PasClient == [Next]_vars /\ TypeClient => TypeClient'
<1> SUFFICES ASSUME [Next]_vars, TypeClient
             PROVE  TypeClient'
  OBVIOUS
<1> USE DEF TypeClient, Travailleurs, varsClient
<1>1. ASSUME NEW p \in Publieurs, Publish(p) \/ Deposer(p)
      PROVE  TypeClient'
  BY <1>1 DEF Publish, Deposer
<1>2. CASE Prendre \/ Ecrire \/ EcrireEchoue
  BY <1>2 DEF Prendre, Ecrire, EcrireEchoue
<1>3. CASE Lire \/ LireEchoue \/ LaisserLu \/ Transmettre \/ Empiler \/ Traiter
  BY <1>3 DEF Lire, LireEchoue, LaisserLu, Transmettre, Empiler, Traiter, StopFerme
<1>4. CASE Ping \/ Expirer \/ Signaler
  BY <1>4 DEF Ping, Expirer, Signaler
<1>5. ASSUME NEW w \in Travailleurs, Arret(w)
      PROVE  TypeClient'
  BY <1>5 DEF Arret
<1>6. CASE Alerter \/ Couper \/ PerteTraitee \/ Connecter \/ Relancer
  BY <1>6 DEF Alerter, Couper, PerteTraitee, Connecter, Relancer
<1>7. CASE Recevoir \/ Emettre \/ RepondrePing \/ Rompre
  BY <1>7 DEF Recevoir, Emettre, RepondrePing, Rompre
<1>8. CASE UNCHANGED vars
  BY <1>8 DEF vars
<1> QED
  BY <1>1, <1>2, <1>3, <1>4, <1>5, <1>6, <1>7, <1>8 DEF Next

(* What a step may do to the outgoing side, and to what its steps look at. *)
LEMMA PasSortie ==
    ASSUME [Next]_vars
    PROVE  \/ \E p \in Publieurs : Publish(p) \/ Deposer(p)
           \/ Prendre \/ Ecrire \/ EcrireEchoue \/ Recevoir
           \/ fil' = <<>> /\ UNCHANGED <<publies, attente, obound, enMain, recu>>
           \/ UNCHANGED varsSortie
<1> USE DEF varsSortie
<1>1. CASE Lire \/ LireEchoue \/ LaisserLu \/ Transmettre \/ Empiler \/ Traiter
  BY <1>1 DEF Lire, LireEchoue, LaisserLu, Transmettre, Empiler, Traiter
<1>2. CASE Ping \/ Expirer \/ Signaler \/ Emettre \/ RepondrePing \/ Rompre
  BY <1>2 DEF Ping, Expirer, Signaler, Emettre, RepondrePing, Rompre
<1>3. ASSUME NEW w \in Travailleurs, Arret(w)
      PROVE  UNCHANGED varsSortie
  BY <1>3 DEF Arret
<1>4. CASE Alerter \/ Couper \/ PerteTraitee \/ Connecter \/ Relancer
  BY <1>4 DEF Alerter, Couper, PerteTraitee, Connecter, Relancer
<1>5. CASE UNCHANGED vars
  BY <1>5 DEF vars
<1> QED
  BY <1>1, <1>2, <1>3, <1>4, <1>5 DEF Next

(* The same for the incoming side.                                         *)
LEMMA PasEntree ==
    ASSUME [Next]_vars
    PROVE  \/ Lire \/ LaisserLu \/ Transmettre \/ Empiler \/ Traiter
           \/ Emettre \/ RepondrePing
           \/ arrivee' = <<>> /\ UNCHANGED <<emis, lu, enLogique, aTraiter, traite>>
           \/ UNCHANGED varsEntree
<1> USE DEF varsEntree
<1>1. ASSUME NEW p \in Publieurs, Publish(p) \/ Deposer(p)
      PROVE  UNCHANGED varsEntree
  BY <1>1 DEF Publish, Deposer
<1>2. CASE Prendre \/ Ecrire \/ EcrireEchoue \/ LireEchoue \/ Recevoir \/ Rompre
  BY <1>2 DEF Prendre, Ecrire, EcrireEchoue, LireEchoue, Recevoir, Rompre
<1>3. CASE Ping \/ Expirer \/ Signaler
  BY <1>3 DEF Ping, Expirer, Signaler
<1>4. ASSUME NEW w \in Travailleurs, Arret(w)
      PROVE  UNCHANGED varsEntree
  BY <1>4 DEF Arret
<1>5. CASE Alerter \/ Couper \/ PerteTraitee \/ Connecter \/ Relancer
  BY <1>5 DEF Alerter, Couper, PerteTraitee, Connecter, Relancer
<1>6. CASE UNCHANGED vars
  BY <1>6 DEF vars
<1> QED
  BY <1>1, <1>2, <1>3, <1>4, <1>5, <1>6 DEF Next

LEMMA TypeSortieConserve == TypeSortie /\ [Next]_vars => TypeSortie'
<1> SUFFICES ASSUME TypeSortie, [Next]_vars
             PROVE  TypeSortie'
  OBVIOUS
<1> USE ClientAssumption DEF Admis, Libre, Rien
<1>1. ASSUME NEW p \in Publieurs, Publish(p)
      PROVE  TypeSortie'
  BY <1>1 DEF Publish, TypeSortie
<1>2. ASSUME NEW p \in Publieurs, Deposer(p)
      PROVE  TypeSortie'
  <2>1. publies' \in Nat \ {0}
    BY <1>2 DEF Deposer, TypeSortie
  <2>2. obound' \in Seq(Nat \ {0})
    BY <1>2, <2>1, Ajout DEF Deposer, TypeSortie
  <2>3. attente' \in [Publieurs -> Nat \cup {Admis}]
    BY <1>2, <2>1 DEF Deposer, TypeSortie
  <2> QED
    BY <1>2, <2>1, <2>2, <2>3 DEF Deposer, TypeSortie
<1>3. CASE Prendre
  <2>1. Head(obound) \in Nat \ {0} /\ Tail(obound) \in Seq(Nat \ {0})
    BY <1>3, Queue DEF Prendre, TypeSortie
  <2> QED
    BY <1>3, <2>1 DEF Prendre, TypeSortie
<1>4. CASE Ecrire
  <2>1. enMain \in Nat \ {0}
    BY <1>4 DEF Ecrire, TypeSortie
  <2>2. Append(fil, enMain) \in Seq(Nat \ {0})
    BY <2>1, Ajout DEF TypeSortie
  <2>3. attente' \in [Publieurs -> Nat \cup {Admis}]
    BY <1>4 DEF Ecrire, Rendre, TypeSortie
  <2>4. fil' \in Seq(Nat \ {0})
    BY <1>4, <2>2 DEF Ecrire, TypeSortie
  <2> QED
    BY <1>4, <2>3, <2>4 DEF Ecrire, TypeSortie
<1>5. CASE EcrireEchoue
  BY <1>5 DEF EcrireEchoue, Rendre, TypeSortie
<1>6. CASE Recevoir
  <2>1. Head(fil) \in Nat \ {0} /\ Tail(fil) \in Seq(Nat \ {0})
    BY <1>6, Queue DEF Recevoir, TypeSortie
  <2> QED
    BY <1>6, <2>1 DEF Recevoir, TypeSortie
<1>7. CASE fil' = <<>> /\ UNCHANGED <<publies, attente, obound, enMain, recu>>
  <2>1. fil' \in Seq(Nat \ {0})
    BY <1>7, Vide
  <2> QED
    BY <1>7, <2>1 DEF TypeSortie
<1>8. CASE UNCHANGED varsSortie
  BY <1>8 DEF varsSortie, TypeSortie
<1> QED
  BY <1>1, <1>2, <1>3, <1>4, <1>5, <1>6, <1>7, <1>8, PasSortie

LEMMA TypeEntreeConserve == TypeEntree /\ [Next]_vars => TypeEntree'
<1> SUFFICES ASSUME TypeEntree, [Next]_vars
             PROVE  TypeEntree'
  OBVIOUS
<1> USE ClientAssumption DEF Pong, Rien
<1>1. CASE Lire
  <2>1. Head(arrivee) \in (1..MaxEmis) \cup {Pong} /\ arrivee' \in Seq((1..MaxEmis) \cup {Pong})
    BY <1>1, Queue DEF Lire, TypeEntree
  <2> QED
    BY <1>1, <2>1 DEF Lire, TypeEntree
<1>2. CASE LaisserLu
  BY <1>2 DEF LaisserLu, TypeEntree
<1>3. CASE Transmettre
  BY <1>3 DEF Transmettre, TypeEntree
<1>4. CASE Empiler
  <2>1. enLogique \in 1..MaxEmis
    BY <1>4 DEF Empiler, TypeEntree
  <2>2. Append(aTraiter, enLogique) \in Seq(1..MaxEmis)
    BY <2>1, Ajout DEF TypeEntree
  <2>3. aTraiter' \in Seq(1..MaxEmis)
    BY <1>4, <2>2 DEF Empiler, TypeEntree
  <2> QED
    BY <1>4, <2>3 DEF Empiler, TypeEntree
<1>5. CASE Traiter
  <2>1. Head(aTraiter) \in 1..MaxEmis /\ Tail(aTraiter) \in Seq(1..MaxEmis)
    BY <1>5, Queue DEF Traiter, TypeEntree
  <2> QED
    BY <1>5, <2>1 DEF Traiter, TypeEntree
<1>6. CASE Emettre
  <2>1. emis' \in 1..MaxEmis
    BY <1>6 DEF Emettre, TypeEntree
  <2>2. Append(arrivee, emis') \in Seq((1..MaxEmis) \cup {Pong})
    BY <2>1, Ajout DEF TypeEntree
  <2> QED
    BY <1>6, <2>1, <2>2 DEF Emettre, TypeEntree
<1>7. CASE RepondrePing
  <2>1. Append(arrivee, Pong) \in Seq((1..MaxEmis) \cup {Pong})
    BY Ajout DEF TypeEntree
  <2> QED
    BY <1>7, <2>1 DEF RepondrePing, TypeEntree
<1>8. CASE arrivee' = <<>> /\ UNCHANGED <<emis, lu, enLogique, aTraiter, traite>>
  <2>1. arrivee' \in Seq((1..MaxEmis) \cup {Pong})
    BY <1>8, Vide
  <2> QED
    BY <1>8, <2>1 DEF TypeEntree
<1>9. CASE UNCHANGED varsEntree
  BY <1>9 DEF varsEntree, TypeEntree
<1> QED
  BY <1>1, <1>2, <1>3, <1>4, <1>5, <1>6, <1>7, <1>8, <1>9, PasEntree

LEMMA TypeAuDepart == Init => TypeOK
<1> SUFFICES ASSUME Init
             PROVE  TypeOK
  OBVIOUS
<1> USE ClientAssumption DEF Admis, Libre, Rien, Pong
<1>1. TypeClient
  BY DEF Init, TypeClient
<1>2. obound \in Seq(Nat \ {0}) /\ fil \in Seq(Nat \ {0})
      /\ arrivee \in Seq((1..MaxEmis) \cup {Pong}) /\ aTraiter \in Seq(1..MaxEmis)
  BY Vide DEF Init
<1>3. /\ publies \in Nat /\ attente \in [Publieurs -> Nat \cup {Admis}]
      /\ enMain \in Nat /\ recu \in Nat
      /\ emis \in 0..MaxEmis /\ lu \in Pong..MaxEmis /\ enLogique \in 0..MaxEmis
      /\ traite \in 0..MaxEmis
  BY DEF Init
<1> QED
  BY <1>1, <1>2, <1>3, TypesParts DEF TypeSortie, TypeEntree

LEMMA TypeConserve == TypeOK /\ [Next]_vars => TypeOK'
<1>1. TypeOK' <=> TypeClient' /\ TypeSortie' /\ TypeEntree'
  BY DEF TypeOK, TypeClient, TypeSortie, TypeEntree
<1> QED
  BY <1>1, TypesParts, PasClient, TypeSortieConserve, TypeEntreeConserve

(* Channels and hands hold messages, the workers are in states they can    *)
(* be in.                                                                  *)
THEOREM TypeClientMqtt == Spec => []TypeOK
BY TypeAuDepart, TypeConserve, PTL DEF Spec

-----------------------------------------------------------------------------
(* Nobody waits for nothing, and no worker is missing unnoticed.           *)

LEMMA AttenteConservee == TypeOK /\ AttenteFondee /\ [Next]_vars => AttenteFondee'
<1> SUFFICES ASSUME TypeOK, AttenteFondee, [Next]_vars
             PROVE  AttenteFondee'
  OBVIOUS
<1> USE DEF Libre, Admis, Rien
<1>0. TypeSortie
  BY TypesParts
<1>1. ASSUME NEW p \in Publieurs, Publish(p)
      PROVE  AttenteFondee'
  BY <1>0, <1>1 DEF Publish, AttenteFondee, TypeSortie
<1>2. ASSUME NEW p \in Publieurs, Deposer(p)
      PROVE  AttenteFondee'
  <2>1. /\ publies' \in Nat \ {0}
        /\ obound' = Append(obound, publies') /\ enMain' = enMain
        /\ attente' = [attente EXCEPT ![p] = publies']
    <3>1. publies' = publies + 1 /\ publies \in Nat
      BY <1>0, <1>2 DEF Deposer, TypeSortie
    <3> QED
      BY <1>2, <3>1 DEF Deposer
  <2>2. /\ DOMAIN obound = 1..Len(obound) /\ DOMAIN obound' = 1..(Len(obound) + 1)
        /\ Len(obound) \in Nat
        /\ \A i \in 1..Len(obound) : obound'[i] = obound[i]
        /\ obound'[Len(obound) + 1] = publies'
    BY <1>0, <2>1, Ajout DEF TypeSortie
  <2>3. ASSUME NEW q \in Publieurs, attente'[q] > 0
        PROVE  attente'[q] = enMain' \/ \E i \in DOMAIN obound' : obound'[i] = attente'[q]
    <3>1. CASE q = p
      <4>1. attente'[q] = publies'
        BY <1>0, <2>1, <3>1 DEF TypeSortie
      <4>2. Len(obound) + 1 \in DOMAIN obound'
        BY <2>2
      <4> QED
        BY <2>2, <4>1, <4>2
    <3>2. CASE q # p
      BY <1>0, <2>1, <2>2, <2>3, <3>2 DEF TypeSortie, AttenteFondee
    <3> QED
      BY <3>1, <3>2
  <2> QED
    BY <2>3 DEF AttenteFondee
<1>3. CASE Prendre
  <2>1. enMain' = obound[1] /\ obound' = Tail(obound) /\ attente' = attente /\ enMain = 0
    BY <1>0, <1>3, Queue DEF Prendre, TypeSortie
  <2>2. /\ Len(obound) \in Nat /\ DOMAIN obound = 1..Len(obound)
        /\ DOMAIN obound' = 1..(Len(obound) - 1)
        /\ \A i \in 1..(Len(obound) - 1) : obound'[i] = obound[i + 1]
    BY <1>0, <1>3, <2>1, Queue DEF Prendre, TypeSortie
  <2>3. ASSUME NEW q \in Publieurs, attente[q] > 0
        PROVE  attente[q] = enMain' \/ \E i \in DOMAIN obound' : obound'[i] = attente[q]
    <3>1. PICK i \in 1..Len(obound) : obound[i] = attente[q]
      BY <2>1, <2>2, <2>3 DEF AttenteFondee
    <3>2. CASE i = 1
      BY <2>1, <3>1, <3>2
    <3>3. CASE i # 1
      <4>1. i - 1 \in 1..(Len(obound) - 1) /\ obound'[i - 1] = obound[i]
        BY <2>2, <3>3
      <4> QED
        BY <2>2, <3>1, <4>1
    <3> QED
      BY <3>2, <3>3
  <2> QED
    BY <2>1, <2>3 DEF AttenteFondee
<1>4. CASE Ecrire \/ EcrireEchoue
  <2>1. /\ obound' = obound
        /\ attente' = [p \in Publieurs |-> IF attente[p] = enMain THEN 0 ELSE attente[p]]
    BY <1>4 DEF Ecrire, EcrireEchoue, Rendre
  <2> QED
    BY <2>1 DEF AttenteFondee
<1>5. CASE Recevoir
  BY <1>5 DEF Recevoir, AttenteFondee
<1>6. CASE UNCHANGED <<publies, attente, obound, enMain, recu>>
  BY <1>6 DEF AttenteFondee
<1> QED
  BY <1>1, <1>2, <1>3, <1>4, <1>5, <1>6, PasSortie DEF varsSortie

(* No publisher is left waiting for a message that nobody has, however the *)
(* connection is lost.                                                     *)
THEOREM AttenteToujoursFondee == Spec => []AttenteFondee
<1>1. Init => AttenteFondee
  BY DEF Init, AttenteFondee, Libre
<1> QED
  BY <1>1, TypeAuDepart, TypeConserve, AttenteConservee, PTL DEF Spec

LEMMA PerteConservee == TypeOK /\ PerteSignalee /\ [Next]_vars => PerteSignalee'
<1> SUFFICES ASSUME TypeOK, PerteSignalee, [Next]_vars
             PROVE  PerteSignalee'
  OBVIOUS
<1> USE DEF PerteSignalee
<1>1. ASSUME NEW p \in Publieurs, Publish(p) \/ Deposer(p)
      PROVE  PerteSignalee'
  BY <1>1 DEF Publish, Deposer, varsClient
<1>2. CASE Prendre \/ Ecrire
  BY <1>2 DEF Prendre, Ecrire, varsClient
<1>3. CASE EcrireEchoue
  BY <1>3 DEF EcrireEchoue
<1>4. CASE Lire \/ LaisserLu \/ Transmettre \/ Empiler \/ Traiter
  BY <1>4 DEF Lire, LaisserLu, Transmettre, Empiler, Traiter, varsClient
<1>5. CASE LireEchoue
  BY <1>5 DEF LireEchoue, StopFerme
<1>6. CASE Ping \/ Expirer \/ Signaler
  BY <1>6 DEF Ping, Expirer, Signaler
<1>7. ASSUME NEW w \in Travailleurs, Arret(w)
      PROVE  PerteSignalee'
  BY <1>7 DEF Arret, StopFerme
<1>8. CASE Alerter \/ Couper \/ PerteTraitee \/ Connecter
  BY <1>8 DEF Alerter, Couper, PerteTraitee, Connecter
<1>9. CASE Relancer
  BY <1>9 DEF Relancer
<1>10. CASE Recevoir \/ Emettre \/ RepondrePing \/ Rompre
  BY <1>10 DEF Recevoir, Emettre, RepondrePing, Rompre, varsClient
<1>11. CASE UNCHANGED vars
  BY <1>11 DEF vars, varsClient
<1> QED
  BY <1>1, <1>2, <1>3, <1>4, <1>5, <1>6, <1>7, <1>8, <1>9, <1>10, <1>11 DEF Next

(* A connection that is taken to be good has its workers, or an error is   *)
(* on its way to errorWatch.                                               *)
THEOREM PerteToujoursSignalee == Spec => []PerteSignalee
<1>1. Init => PerteSignalee
  BY DEF Init, PerteSignalee
<1> QED
  BY <1>1, TypeAuDepart, TypeConserve, PerteConservee, PTL DEF Spec

-----------------------------------------------------------------------------
(* The outgoing direction.                                                 *)

Croit(s) == \A i, j \in 1..Len(s) : i < j => s[i] < s[j]

LEMMA QueueCroit ==
    ASSUME NEW s, NEW r, NEW n \in Nat, Len(s) = n + 1, Len(r) = n, Croit(s),
           \A i \in 1..n : r[i] = s[i + 1]
    PROVE  Croit(r) /\ \A j \in 1..n : s[1] < r[j]
<1>1. ASSUME NEW i \in 1..n, NEW j \in 1..n, i < j
      PROVE  r[i] < r[j]
  <2>1. i + 1 \in 1..Len(s) /\ j + 1 \in 1..Len(s) /\ i + 1 < j + 1
    BY <1>1
  <2>2. s[i + 1] < s[j + 1]
    BY <2>1 DEF Croit
  <2> QED
    BY <1>1, <2>2
<1>2. ASSUME NEW j \in 1..n
      PROVE  s[1] < r[j]
  <2>1. 1 \in 1..Len(s) /\ j + 1 \in 1..Len(s) /\ 1 < j + 1
    BY <1>2
  <2>2. s[1] < s[j + 1]
    BY <2>1 DEF Croit
  <2> QED
    BY <1>2, <2>2
<1> QED
  BY <1>1, <1>2 DEF Croit

(* What is on the wire comes before what outgoing holds, and that before   *)
(* what is in obound; all of it is later than what has arrived.            *)
OrdreSortie ==
    /\ recu <= publies
    /\ Croit(fil) /\ Croit(obound)
    /\ \A i \in 1..Len(fil) : recu < fil[i] /\ fil[i] <= publies
    /\ \A j \in 1..Len(obound) : recu < obound[j] /\ obound[j] <= publies
    /\ \A i \in 1..Len(fil), j \in 1..Len(obound) : fil[i] < obound[j]
    /\ enMain # Rien =>
          /\ recu < enMain /\ enMain <= publies
          /\ \A i \in 1..Len(fil) : fil[i] < enMain
          /\ \A j \in 1..Len(obound) : enMain < obound[j]

LEMMA RangsSortie ==
    ASSUME TypeSortie
    PROVE  /\ publies \in Nat /\ recu \in Nat /\ enMain \in Nat
           /\ Len(fil) \in Nat /\ Len(obound) \in Nat
           /\ \A i \in 1..Len(fil) : fil[i] \in Nat /\ fil[i] > 0
           /\ \A i \in 1..Len(obound) : obound[i] \in Nat /\ obound[i] > 0
BY ClientAssumption DEF TypeSortie

LEMMA PasOrdreSortie ==
    ASSUME TypeSortie, OrdreSortie, [Next]_vars
    PROVE  OrdreSortie' /\ [Sortie!Next]_(Sortie!varsCanal)
<1> USE RangsSortie DEF Rien, Sortie!varsCanal
<1>1. ASSUME NEW p \in Publieurs, Deposer(p)
      PROVE  OrdreSortie' /\ Sortie!Publier
  <2>1. /\ publies' = publies + 1 /\ recu' = recu /\ fil' = fil /\ enMain' = enMain
        /\ publies' \in Nat \ {0}
        /\ obound' = Append(obound, publies')
    BY <1>1, ClientAssumption DEF Deposer, TypeSortie
  <2>2. /\ Len(obound') = Len(obound) + 1
        /\ \A i \in 1..Len(obound) : obound'[i] = obound[i]
        /\ obound'[Len(obound) + 1] = publies'
    BY <2>1, Ajout DEF TypeSortie
  <2>3. \A i \in 1..Len(obound') : \/ i \in 1..Len(obound) /\ obound'[i] = obound[i]
                                   \/ i = Len(obound) + 1 /\ obound'[i] = publies + 1
    BY <2>1, <2>2
  <2>4. Croit(obound')
    <3> SUFFICES ASSUME NEW i \in 1..Len(obound'), NEW j \in 1..Len(obound'), i < j
                 PROVE  obound'[i] < obound'[j]
      BY DEF Croit
    <3>1. i \in 1..Len(obound) /\ obound'[i] = obound[i] /\ obound[i] <= publies
      BY <2>2, <2>3 DEF OrdreSortie
    <3>2. CASE j = Len(obound) + 1
      BY <2>1, <2>2, <3>1, <3>2
    <3>3. CASE j \in 1..Len(obound)
      <4>1. obound[i] < obound[j]
        BY <3>1, <3>3 DEF OrdreSortie, Croit
      <4> QED
        BY <2>2, <3>1, <3>3, <4>1
    <3> QED
      BY <2>3, <3>2, <3>3
  <2>5. OrdreSortie'
    BY <2>1, <2>3, <2>4 DEF OrdreSortie, Croit
  <2> QED
    BY <2>1, <2>5 DEF Sortie!Publier
<1>2. ASSUME NEW p \in Publieurs, Publish(p)
      PROVE  OrdreSortie' /\ UNCHANGED Sortie!varsCanal
  BY <1>2 DEF Publish, OrdreSortie
<1>3. CASE Prendre
  <2>1. /\ publies' = publies /\ recu' = recu /\ fil' = fil /\ enMain = 0
        /\ enMain' = obound[1]
        /\ Len(obound) > 0 /\ Len(obound') = Len(obound) - 1
        /\ \A i \in 1..Len(obound') : i + 1 \in 1..Len(obound) /\ obound'[i] = obound[i + 1]
    BY <1>3, Queue DEF Prendre, TypeSortie
  <2>2. Croit(obound') /\ \A j \in 1..Len(obound') : obound[1] < obound'[j]
    <3>1. Len(obound') \in Nat /\ Len(obound) = Len(obound') + 1
      BY <2>1
    <3>2. Croit(obound) /\ \A i \in 1..Len(obound') : obound'[i] = obound[i + 1]
      BY <2>1 DEF OrdreSortie
    <3> QED
      BY ONLY <3>1, <3>2, QueueCroit
  <2>3. \A j \in 1..Len(obound') : \E k \in 1..Len(obound) : obound'[j] = obound[k]
    BY <2>1
  <2>4. 1 \in 1..Len(obound)
    BY <2>1
  <2>5. OrdreSortie'
    BY <2>1, <2>2, <2>3, <2>4 DEF OrdreSortie
  <2> QED
    BY <2>1, <2>5
<1>4. CASE Ecrire
  <2>1. /\ publies' = publies /\ recu' = recu /\ obound' = obound /\ enMain' = 0
        /\ enMain # 0 /\ enMain \in Nat \ {0}
        /\ fil' = Append(fil, enMain) \/ fil' = fil
    BY <1>4 DEF Ecrire, TypeSortie
  <2>2. CASE fil' = Append(fil, enMain)
    <3>1. /\ Len(fil') = Len(fil) + 1
          /\ \A i \in 1..Len(fil) : fil'[i] = fil[i]
          /\ fil'[Len(fil) + 1] = enMain
      BY <2>1, <2>2, Ajout DEF TypeSortie
    <3>2. \A i \in 1..Len(fil') : \/ i \in 1..Len(fil) /\ fil'[i] = fil[i]
                                  \/ i = Len(fil) + 1 /\ fil'[i] = enMain
      BY <3>1
    <3>3. Croit(fil')
      BY <2>1, <3>2 DEF Croit, OrdreSortie
    <3> QED
      BY <2>1, <3>2, <3>3 DEF OrdreSortie, Croit
  <2>3. CASE fil' = fil
    BY <2>1, <2>3 DEF OrdreSortie
  <2> QED
    BY <2>1, <2>2, <2>3
<1>5. CASE EcrireEchoue
  BY <1>5 DEF EcrireEchoue, OrdreSortie
<1>6. CASE Recevoir
  <2>1. /\ publies' = publies /\ obound' = obound /\ enMain' = enMain
        /\ recu' = fil[1]
        /\ Len(fil) > 0 /\ Len(fil') = Len(fil) - 1
        /\ \A i \in 1..Len(fil') : i + 1 \in 1..Len(fil) /\ fil'[i] = fil[i + 1]
    BY <1>6, Queue DEF Recevoir, TypeSortie
  <2>2. Croit(fil') /\ \A j \in 1..Len(fil') : fil[1] < fil'[j]
    <3>1. Len(fil') \in Nat /\ Len(fil) = Len(fil') + 1
      BY <2>1
    <3>2. Croit(fil) /\ \A i \in 1..Len(fil') : fil'[i] = fil[i + 1]
      BY <2>1 DEF OrdreSortie
    <3> QED
      BY ONLY <3>1, <3>2, QueueCroit
  <2>3. \A j \in 1..Len(fil') : \E k \in 1..Len(fil) : fil'[j] = fil[k]
    BY <2>1
  <2>4. 1 \in 1..Len(fil)
    BY <2>1
  <2>5. OrdreSortie'
    BY <2>1, <2>2, <2>3, <2>4 DEF OrdreSortie
  <2>6. recu' \in (recu + 1)..publies
    BY <2>1, <2>4 DEF OrdreSortie
  <2> QED
    BY <2>1, <2>5, <2>6 DEF Sortie!Next, Sortie!Livrer
<1>7. CASE fil' = <<>> /\ UNCHANGED <<publies, attente, obound, enMain, recu>>
  <2>1. Len(fil') = 0
    BY <1>7, Vide
  <2>2. OrdreSortie'
    BY <1>7, <2>1 DEF OrdreSortie, Croit
  <2> QED
    BY <1>7, <2>2
<1>8. CASE UNCHANGED varsSortie
  BY <1>8 DEF varsSortie, OrdreSortie, Croit
<1> QED
  BY <1>1, <1>2, <1>3, <1>4, <1>5, <1>6, <1>7, <1>8, PasSortie DEF Sortie!Next

LEMMA OrdreSortieAuDepart == Init => OrdreSortie /\ Sortie!Init
<1> SUFFICES ASSUME Init
             PROVE  OrdreSortie /\ Sortie!Init
  OBVIOUS
<1>1. Len(fil) = 0 /\ Len(obound) = 0
  BY Vide DEF Init
<1>2. publies = 0 /\ recu = 0 /\ enMain = Rien
  BY DEF Init
<1> QED
  BY <1>1, <1>2 DEF OrdreSortie, Croit, Sortie!Init

(* What the program publishes reaches the broker in order and at most once.*)
THEOREM SortieToujoursOrdonnee == Spec => SortieOrdonnee
<1>1. TypeOK /\ OrdreSortie /\ [Next]_vars
        => OrdreSortie' /\ [Sortie!Next]_(Sortie!varsCanal)
  BY PasOrdreSortie, TypesParts
<1> QED
  BY <1>1, OrdreSortieAuDepart, TypeAuDepart, TypeConserve, PTL
  DEF Spec, SortieOrdonnee, Sortie!Spec

-----------------------------------------------------------------------------
(* The incoming direction.                                                 *)

(* The messages among the packets that are still to be read.               *)
CroitMessages(s) == \A i, j \in 1..Len(s) : i < j /\ s[i] > 0 /\ s[j] > 0 => s[i] < s[j]

(* What f has handled comes before incomingPubChan, that before what       *)
(* alllogic holds, that before what incoming holds, that before the rest.  *)
OrdreEntree ==
    /\ traite <= emis
    /\ Croit(aTraiter) /\ CroitMessages(arrivee)
    /\ \A i \in 1..Len(aTraiter) : traite < aTraiter[i] /\ aTraiter[i] <= emis
    /\ enLogique > 0 => /\ traite < enLogique /\ enLogique <= emis
                        /\ \A i \in 1..Len(aTraiter) : aTraiter[i] < enLogique
    /\ lu > 0 => /\ traite < lu /\ lu <= emis
                 /\ \A i \in 1..Len(aTraiter) : aTraiter[i] < lu
                 /\ enLogique > 0 => enLogique < lu
    /\ \A j \in 1..Len(arrivee) : arrivee[j] > 0 =>
                 /\ traite < arrivee[j] /\ arrivee[j] <= emis
                 /\ \A i \in 1..Len(aTraiter) : aTraiter[i] < arrivee[j]
                 /\ enLogique > 0 => enLogique < arrivee[j]
                 /\ lu > 0 => lu < arrivee[j]

LEMMA RangsEntree ==
    ASSUME TypeEntree
    PROVE  /\ emis \in Nat /\ traite \in Nat /\ enLogique \in Nat /\ lu \in Int
           /\ Len(arrivee) \in Nat /\ Len(aTraiter) \in Nat
           /\ \A i \in 1..Len(arrivee) : arrivee[i] \in Int
           /\ \A i \in 1..Len(aTraiter) : aTraiter[i] \in Nat /\ aTraiter[i] > 0
BY ClientAssumption DEF TypeEntree, Pong

LEMMA QueueMessages ==
    ASSUME NEW s, NEW r, NEW n \in Nat, Len(s) = n + 1, Len(r) = n, CroitMessages(s),
           \A i \in 1..n : r[i] = s[i + 1]
    PROVE  CroitMessages(r) /\ \A j \in 1..n : s[1] > 0 /\ r[j] > 0 => s[1] < r[j]
<1>1. ASSUME NEW i \in 1..n, NEW j \in 1..n, i < j, r[i] > 0, r[j] > 0
      PROVE  r[i] < r[j]
  <2>1. i + 1 \in 1..Len(s) /\ j + 1 \in 1..Len(s) /\ i + 1 < j + 1
    BY <1>1
  <2>2. r[i] = s[i + 1] /\ r[j] = s[j + 1]
    OBVIOUS
  <2> QED
    BY <1>1, <2>1, <2>2 DEF CroitMessages
<1>2. ASSUME NEW j \in 1..n, s[1] > 0, r[j] > 0
      PROVE  s[1] < r[j]
  <2>1. 1 \in 1..Len(s) /\ j + 1 \in 1..Len(s) /\ 1 < j + 1
    BY <1>2
  <2>2. r[j] = s[j + 1]
    OBVIOUS
  <2> QED
    BY <1>2, <2>1, <2>2 DEF CroitMessages
<1> QED
  BY <1>1, <1>2 DEF CroitMessages

(* A message or an answer is appended to what is still to be read.         *)
LEMMA AjoutArrivee ==
    ASSUME TypeEntree, OrdreEntree, NEW m \in (1..MaxEmis) \cup {Pong},
           arrivee' = Append(arrivee, m), m > 0 => m = emis' /\ emis' = emis + 1,
           emis' \in {emis, emis + 1}, UNCHANGED <<lu, enLogique, aTraiter, traite>>
    PROVE  OrdreEntree'
<1> USE RangsEntree, ClientAssumption
<1>1. m \in Int
  BY DEF Pong
<1>2. /\ Len(arrivee') = Len(arrivee) + 1
      /\ \A i \in 1..Len(arrivee) : arrivee'[i] = arrivee[i]
      /\ arrivee'[Len(arrivee) + 1] = m
  BY Ajout DEF TypeEntree
<1>3. \A i \in 1..Len(arrivee') : \/ i \in 1..Len(arrivee) /\ arrivee'[i] = arrivee[i]
                                  \/ i = Len(arrivee) + 1 /\ arrivee'[i] = m
  BY <1>2
<1>4. CroitMessages(arrivee')
  BY <1>1, <1>3 DEF CroitMessages, OrdreEntree
<1> QED
  BY <1>1, <1>3, <1>4 DEF OrdreEntree, Croit

LEMMA PasOrdreEntree ==
    ASSUME TypeEntree, OrdreEntree, [Next]_vars
    PROVE  OrdreEntree' /\ [Entree!Next]_(Entree!varsCanal)
<1> USE RangsEntree DEF Rien, Entree!varsCanal
<1>1. CASE Lire
  <2>1. /\ UNCHANGED <<emis, enLogique, aTraiter, traite>>
        /\ lu = 0 /\ lu' = arrivee[1]
        /\ Len(arrivee) > 0 /\ Len(arrivee') = Len(arrivee) - 1
        /\ \A i \in 1..Len(arrivee') : i + 1 \in 1..Len(arrivee) /\ arrivee'[i] = arrivee[i + 1]
    BY <1>1, Queue DEF Lire, TypeEntree
  <2>2. CroitMessages(arrivee') /\ \A j \in 1..Len(arrivee') :
                                      arrivee[1] > 0 /\ arrivee'[j] > 0 => arrivee[1] < arrivee'[j]
    <3>1. Len(arrivee') \in Nat /\ Len(arrivee) = Len(arrivee') + 1
      BY <2>1
    <3>2. CroitMessages(arrivee) /\ \A i \in 1..Len(arrivee') : arrivee'[i] = arrivee[i + 1]
      BY <2>1 DEF OrdreEntree
    <3> QED
      BY ONLY <3>1, <3>2, QueueMessages
  <2>3. \A j \in 1..Len(arrivee') : \E k \in 1..Len(arrivee) : arrivee'[j] = arrivee[k]
    BY <2>1
  <2>4. 1 \in 1..Len(arrivee)
    BY <2>1
  <2> QED
    BY <2>1, <2>2, <2>3, <2>4 DEF OrdreEntree
<1>2. CASE LaisserLu
  BY <1>2 DEF LaisserLu, OrdreEntree
<1>3. CASE Transmettre
  BY <1>3 DEF Transmettre, OrdreEntree, Pong
<1>4. CASE Empiler
  <2>1. /\ UNCHANGED <<emis, arrivee, lu, traite>> /\ enLogique # 0 /\ enLogique' = 0
        /\ enLogique \in 1..MaxEmis
        /\ aTraiter' = Append(aTraiter, enLogique) \/ aTraiter' = aTraiter
    BY <1>4 DEF Empiler, TypeEntree
  <2>2. CASE aTraiter' = Append(aTraiter, enLogique)
    <3>1. /\ Len(aTraiter') = Len(aTraiter) + 1
          /\ \A i \in 1..Len(aTraiter) : aTraiter'[i] = aTraiter[i]
          /\ aTraiter'[Len(aTraiter) + 1] = enLogique
      BY <2>1, <2>2, Ajout DEF TypeEntree
    <3>2. \A i \in 1..Len(aTraiter') :
             \/ i \in 1..Len(aTraiter) /\ aTraiter'[i] = aTraiter[i]
             \/ i = Len(aTraiter) + 1 /\ aTraiter'[i] = enLogique
      BY <3>1
    <3>3. Croit(aTraiter')
      BY <2>1, <3>2 DEF Croit, OrdreEntree
    <3>4. /\ enLogique > 0 /\ traite < enLogique /\ enLogique <= emis
          /\ lu > 0 => enLogique < lu
          /\ \A j \in 1..Len(arrivee) : arrivee[j] > 0 => enLogique < arrivee[j]
      BY <2>1 DEF OrdreEntree
    <3>5. \A i \in 1..Len(aTraiter') :
             /\ traite < aTraiter'[i] /\ aTraiter'[i] <= emis
             /\ lu > 0 => aTraiter'[i] < lu
      BY <3>2, <3>4 DEF OrdreEntree
    <3>6. \A i \in 1..Len(aTraiter'), j \in 1..Len(arrivee) :
             arrivee[j] > 0 => aTraiter'[i] < arrivee[j]
      BY <3>2, <3>4 DEF OrdreEntree
    <3> QED
      BY <2>1, <3>3, <3>5, <3>6 DEF OrdreEntree
  <2>3. CASE aTraiter' = aTraiter
    BY <2>1, <2>3 DEF OrdreEntree
  <2> QED
    BY <2>1, <2>2, <2>3
<1>5. CASE Traiter
  <2>1. /\ UNCHANGED <<emis, arrivee, lu, enLogique>>
        /\ traite' = aTraiter[1]
        /\ Len(aTraiter) > 0 /\ Len(aTraiter') = Len(aTraiter) - 1
        /\ \A i \in 1..Len(aTraiter') : i + 1 \in 1..Len(aTraiter) /\ aTraiter'[i] = aTraiter[i + 1]
    BY <1>5, Queue DEF Traiter, TypeEntree
  <2>2. Croit(aTraiter') /\ \A j \in 1..Len(aTraiter') : aTraiter[1] < aTraiter'[j]
    <3>1. Len(aTraiter') \in Nat /\ Len(aTraiter) = Len(aTraiter') + 1
      BY <2>1
    <3>2. Croit(aTraiter) /\ \A i \in 1..Len(aTraiter') : aTraiter'[i] = aTraiter[i + 1]
      BY <2>1 DEF OrdreEntree
    <3> QED
      BY ONLY <3>1, <3>2, QueueCroit
  <2>3. \A j \in 1..Len(aTraiter') : \E k \in 1..Len(aTraiter) : aTraiter'[j] = aTraiter[k]
    BY <2>1
  <2>4. 1 \in 1..Len(aTraiter)
    BY <2>1
  <2>5. OrdreEntree'
    BY <2>1, <2>2, <2>3, <2>4 DEF OrdreEntree
  <2>6. traite' \in (traite + 1)..emis
    BY <2>1, <2>4 DEF OrdreEntree
  <2> QED
    BY <2>1, <2>5, <2>6 DEF Entree!Next, Entree!Livrer
<1>6. CASE Emettre
  <2>1. /\ emis' = emis + 1 /\ emis' \in 1..MaxEmis
        /\ arrivee' = Append(arrivee, emis') /\ UNCHANGED <<lu, enLogique, aTraiter, traite>>
    BY <1>6, ClientAssumption DEF Emettre, TypeEntree
  <2>2. OrdreEntree'
    BY <2>1, AjoutArrivee
  <2> QED
    BY <2>1, <2>2 DEF Entree!Next, Entree!Publier
<1>7. CASE RepondrePing
  <2>1. arrivee' = Append(arrivee, Pong) /\ UNCHANGED <<emis, lu, enLogique, aTraiter, traite>>
    BY <1>7 DEF RepondrePing
  <2>2. OrdreEntree'
    BY <2>1, AjoutArrivee DEF Pong
  <2> QED
    BY <2>1, <2>2
<1>8. CASE arrivee' = <<>> /\ UNCHANGED <<emis, lu, enLogique, aTraiter, traite>>
  <2>1. Len(arrivee') = 0
    BY <1>8, Vide
  <2>2. OrdreEntree'
    BY <1>8, <2>1 DEF OrdreEntree, Croit, CroitMessages
  <2> QED
    BY <1>8, <2>2
<1>9. CASE UNCHANGED varsEntree
  BY <1>9 DEF varsEntree, OrdreEntree, Croit, CroitMessages
<1> QED
  BY <1>1, <1>2, <1>3, <1>4, <1>5, <1>6, <1>7, <1>8, <1>9, PasEntree

LEMMA OrdreEntreeAuDepart == Init => OrdreEntree /\ Entree!Init
<1> SUFFICES ASSUME Init
             PROVE  OrdreEntree /\ Entree!Init
  OBVIOUS
<1>1. Len(arrivee) = 0 /\ Len(aTraiter) = 0
  BY Vide DEF Init
<1>2. emis = 0 /\ traite = 0 /\ enLogique = 0 /\ lu = 0
  BY DEF Init, Rien
<1> QED
  BY <1>1, <1>2 DEF OrdreEntree, Croit, CroitMessages, Entree!Init

(* What the broker sends reaches f in order and at most once.              *)
THEOREM EntreeToujoursOrdonnee == Spec => EntreeOrdonnee
<1>1. TypeOK /\ OrdreEntree /\ [Next]_vars
        => OrdreEntree' /\ [Entree!Next]_(Entree!varsCanal)
  BY PasOrdreEntree, TypesParts
<1> QED
  BY <1>1, OrdreEntreeAuDepart, TypeAuDepart, TypeConserve, PTL
  DEF Spec, EntreeOrdonnee, Entree!Spec
=============================================================================
