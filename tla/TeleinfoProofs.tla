--------------------------- MODULE TeleinfoProofs ---------------------------
(***************************************************************************)
(* What TLAPS proves of Teleinfo: decoded frames are whole but for what the*)
(* line has lost, no value is given twice, and a value keeps its key, for  *)
(* any number of groups, frames and losses and any size of the queue.      *)
(***************************************************************************)
EXTENDS Teleinfo, Files, TLAPS

Reels == (1..MaxTrames) \X (0..(NbGroupes + 1))

-----------------------------------------------------------------------------
(* The invariant.                                                          *)

(* The order in which the meter sends.                                     *)
Avant(a, b) == \/ a[1] < b[1]
               \/ a[1] = b[1] /\ a[2] < b[2]

Courant == <<emis, place>>

Envoye(e) == e = Courant \/ Avant(e, Courant)

(* The items of s that are not noise.                                      *)
Vus(s) == {s[i] : i \in 1..Len(s)} \ {Bruit}

Ordonne(s) ==
    \A i, j \in 1..Len(s) : i < j /\ s[i] # Bruit /\ s[j] # Bruit => Avant(s[i], s[j])

Precede(S, R) == \A a \in S, b \in R : Avant(a, b)

(* Items are read in the order in which they were sent, and all that are   *)
(* still to be decoded come after the last frame given.                    *)
Ordre ==
    /\ Ordonne(brut) /\ Ordonne(tampon) /\ Ordonne(flux)
    /\ Precede(Vus(brut), Vus(tampon) \cup Vus(flux)) /\ Precede(Vus(tampon), Vus(flux))
    /\ \A e \in Vus(brut) \cup Vus(tampon) \cup Vus(flux) : Avant(Fin(recu), e) /\ Envoye(e)
    /\ Envoye(Fin(recu))

(* What was sent after d has been lost or is in the set S.                 *)
Connu(d, S) == \A e \in Reels : Avant(d, e) /\ Envoye(e) => e \in manque \cup S

(* Nothing is missing unnoticed behind an item that is still to be read,   *)
(* nor behind the start mark of the frame that is being collected.         *)
Continu ==
    /\ \A d \in Vus(flux) : Connu(d, Vus(flux))
    /\ \A d \in Vus(tampon) : Connu(d, Vus(tampon) \cup Vus(flux))
    /\ etape = "fin" => \E n \in 1..MaxTrames :
          /\ Connu(Debut(n), Vus(brut) \cup Vus(tampon) \cup Vus(flux))
          /\ Precede({Debut(n)}, Vus(brut) \cup Vus(tampon) \cup Vus(flux))
          /\ Envoye(Debut(n))

-----------------------------------------------------------------------------
(* Types.                                                                  *)

LEMMA Noms ==
    /\ Cles \subseteq Nat /\ AutreNom \notin Cles
    /\ Bruit \in Elements
    /\ \A e \in Elements : EstGroupe(e) => e # Bruit /\ <<e[2], e[1]>> \in Valeurs
    /\ \A e \in Elements : e # Bruit => e \in Reels
    /\ Reels \subseteq Elements
BY TeleinfoAssumption DEF Cles, AutreNom, Bruit, Elements, EstGroupe, Valeurs, Reels

LEMMA TrameTypee ==
    ASSUME NEW r \in Seq(Elements)
    PROVE  /\ decodeFrame(r) \subseteq Valeurs
           /\ \A c \in decodeFrame(r) : \E i \in 1..Len(r) : c = <<r[i][2], r[i][1]>>
           /\ decodeFrame(r) # {} => /\ Len(r) \in 1..Len(r)
                                     /\ \A i \in 1..Len(r) : EstGroupe(r[i])
<1>1. \A i \in 1..Len(r) : r[i] \in Elements
  OBVIOUS
<1>2. Len(r) \in Nat
  OBVIOUS
<1>3. \A c \in decodeFrame(r) : /\ \A i \in 1..Len(r) : EstGroupe(r[i])
                                /\ \E i \in 1..Len(r) : c = <<r[i][2], r[i][1]>>
  BY DEF decodeFrame
<1>4. decodeFrame(r) \subseteq Valeurs
  BY <1>1, <1>3, Noms
<1> QED
  BY <1>2, <1>3, <1>4

LEMMA EmissionTypee ==
    ASSUME TypeOK, Emettre
    PROVE  /\ emis' \in 0..MaxTrames /\ place' \in 0..(NbGroupes + 1)
           /\ <<emis', place'>> \in Elements
           /\ <<emis', place'>> # Bruit
           /\ emis' = 0 => place' = NbGroupes + 1
           /\ emis \in Nat /\ place \in Nat
           /\ emis' > emis \/ (emis' = emis /\ place' = place + 1)
<1>1. /\ emis \in 0..MaxTrames /\ place \in 0..(NbGroupes + 1)
      /\ NbGroupes \in Nat /\ MaxTrames \in Nat /\ NbGroupes > 0
      /\ emis = 0 => place = NbGroupes + 1
  BY TeleinfoAssumption DEF TypeOK
<1>2. CASE place <= NbGroupes /\ place' = place + 1 /\ UNCHANGED emis
  BY <1>1, <1>2 DEF Elements, Bruit
<1>3. CASE place = NbGroupes + 1 /\ emis < MaxTrames /\ emis' = emis + 1 /\ place' = 0
  BY <1>1, <1>3 DEF Elements, Bruit
<1> QED
  BY <1>2, <1>3 DEF Emettre

LEMMA TypeAuDepart == Init => TypeOK
<1> SUFFICES ASSUME Init
             PROVE  TypeOK
  OBVIOUS
<1>1. /\ flux \in Seq(Elements) /\ tampon \in Seq(Elements) /\ brut \in Seq(Elements)
      /\ Len(flux) = 0
  BY Vide DEF Init
<1>2. emis = 0 /\ place = NbGroupes + 1 /\ recu = 0 /\ emis \in 0..MaxTrames
      /\ place \in 0..(NbGroupes + 1) /\ recu \in 0..MaxTrames /\ Len(flux) <= Capacite
  BY <1>1, TeleinfoAssumption DEF Init
<1>3. /\ manque \subseteq Elements /\ etape = "debut"
      /\ reste \subseteq frame /\ frame \subseteq Valeurs
      /\ groupe \in Valeurs \cup {Mesure}
      /\ data \in Cles \cup {AutreNom} /\ autre \in BOOLEAN
      /\ point \in (Cles \cup {AutreNom}) \X (Valeurs \cup {Mesure})
  BY DEF Init
<1> QED
  BY <1>1, <1>2, <1>3 DEF TypeOK

LEMMA TypeConserve == TypeOK /\ [Next]_vars => TypeOK'
<1> SUFFICES ASSUME TypeOK, [Next]_vars
             PROVE  TypeOK'
  OBVIOUS
<1> USE DEF varsLigne, varsTampons, varsFrame, varsPoint
<1>1. CASE Emettre
  <2>0. /\ emis' \in 0..MaxTrames /\ place' \in 0..(NbGroupes + 1)
        /\ emis' = 0 => place' = NbGroupes + 1
        /\ <<emis', place'>> \in Elements
        /\ UNCHANGED <<tampon, varsFrame, varsPoint>>
    BY <1>1, EmissionTypee DEF Emettre
  <2>1. CASE Len(flux) < Capacite /\ flux' = Append(flux, <<emis', place'>>) /\ UNCHANGED manque
    <3>1. flux' \in Seq(Elements) /\ Len(flux') <= Capacite
      BY <1>1, <2>1, EmissionTypee, Ajout, TeleinfoAssumption DEF TypeOK
    <3> QED
      BY <2>0, <2>1, <3>1 DEF TypeOK
  <2>2. CASE manque' = manque \cup {<<emis', place'>>} /\ UNCHANGED flux
    <3>1. manque' \subseteq Elements
      BY <2>0, <2>2 DEF TypeOK
    <3> QED
      BY <2>0, <2>2, <3>1 DEF TypeOK
  <2>3. CASE /\ manque' = manque \cup {<<emis', place'>>}
             /\ Len(flux) < Capacite /\ flux' = Append(flux, Bruit)
    <3>1. flux' \in Seq(Elements) /\ Len(flux') <= Capacite
      BY <2>3, Noms, Ajout, TeleinfoAssumption DEF TypeOK
    <3>2. manque' \subseteq Elements
      BY <2>0, <2>3 DEF TypeOK
    <3> QED
      BY <2>0, <2>3, <3>1, <3>2 DEF TypeOK
  <2> QED
    BY <1>1, <2>1, <2>2, <2>3 DEF Emettre, Transmettre
<1>2. CASE Remplir
  <2>1. flux' \in Seq(Elements) /\ Len(flux') = 0
    BY <1>2, Vide DEF Remplir
  <2> QED
    BY <1>2, <2>1, TeleinfoAssumption DEF Remplir, TypeOK
<1>3. CASE ReadSlice
  <2>1. brut' \in Seq(Elements) /\ tampon' \in Seq(Elements)
    BY <1>3, Vide, Queue DEF ReadSlice, TypeOK
  <2> QED
    BY <1>3, <2>1 DEF ReadSlice, TypeOK
<1>4. CASE ReadBytes
  <2>1. brut' \in Seq(Elements) /\ tampon' \in Seq(Elements)
    BY <1>4, Ajout, Queue DEF ReadBytes, TypeOK
  <2> QED
    BY <1>4, <2>1 DEF ReadBytes, TypeOK
<1>5. ASSUME NEW f, NEW n, Prendre(f, n), f \subseteq Valeurs, n \in 0..MaxTrames,
             tampon' \in Seq(Elements)
      PROVE  TypeOK'
  <2>1. brut' \in Seq(Elements)
    BY <1>5, Vide DEF Prendre
  <2> QED
    BY <1>5, <2>1 DEF Prendre, TypeOK
<1>6. CASE ReadFrame
  <2>1. tampon' \in Seq(Elements)
    BY <1>6, Queue DEF ReadFrame, TypeOK
  <2>2. CASE decodeFrame(brut) = {} /\ Prendre({}, recu)
    BY <1>5, <2>1, <2>2 DEF TypeOK
  <2>3. CASE decodeFrame(brut) # {} /\ Prendre(decodeFrame(brut), brut[Len(brut)][1])
    <3>0. brut \in Seq(Elements)
      BY DEF TypeOK
    <3>1. decodeFrame(brut) \subseteq Valeurs
      BY <3>0, TrameTypee
    <3>2. brut[Len(brut)] \in Elements /\ EstGroupe(brut[Len(brut)])
      BY <2>3, <3>0, TrameTypee
    <3>3. brut[Len(brut)] \in Reels
      BY <3>2, Noms
    <3>4. brut[Len(brut)][1] \in 0..MaxTrames
      BY <3>3, TeleinfoAssumption DEF Reels
    <3> QED
      BY <1>5, <2>1, <2>3, <3>1, <3>4
  <2> QED
    BY <1>6, <2>2, <2>3 DEF ReadFrame
<1>7. CASE Echouer
  BY <1>5, <1>7 DEF Echouer, TypeOK
<1>8. CASE Nommer
  BY <1>8 DEF Nommer, TypeOK, Valeurs
<1>9. CASE Poster
  BY <1>9 DEF Poster, TypeOK
<1>10. CASE NewReader
  <2>1. tampon' \in Seq(Elements)
    BY <1>10, Vide DEF NewReader
  <2> QED
    BY <1>10, <2>1 DEF NewReader, TypeOK
<1>11. CASE NommerAutre
  BY <1>11 DEF NommerAutre, TypeOK
<1>12. CASE PosterAutre
  BY <1>12 DEF PosterAutre, TypeOK
<1>13. CASE UNCHANGED vars
  BY <1>13 DEF vars, TypeOK
<1> QED
  BY <1>1, <1>2, <1>3, <1>4, <1>6, <1>7, <1>8, <1>9, <1>10, <1>11, <1>12, <1>13
  DEF Next, Lecture

(* Every variable keeps its type; the groups to send are of the frame that *)
(* was decoded.                                                            *)
THEOREM TypeTeleinfo == Spec => []TypeOK
BY TypeAuDepart, TypeConserve, PTL DEF Spec

-----------------------------------------------------------------------------
(* Keys.                                                                   *)

(* When lectureFrame is about to send, data is its own or another's name.  *)
NomDonne == CleJuste /\ (etape = "point" => data \in {AutreNom, groupe[1]})

LEMMA NomDonneConserve == TypeOK /\ NomDonne /\ [Next]_vars => NomDonne'
<1> SUFFICES ASSUME TypeOK, NomDonne, [Next]_vars
             PROVE  NomDonne'
  OBVIOUS
<1> USE DEF NomDonne, CleJuste, varsPoint, varsFrame
<1>1. CASE Emettre \/ Remplir
  BY <1>1 DEF Emettre, Remplir
<1>2. CASE ReadSlice \/ ReadBytes
  BY <1>2 DEF ReadSlice, ReadBytes
<1>3. CASE ReadFrame \/ Echouer
  BY <1>3 DEF ReadFrame, Echouer, Prendre
<1>4. CASE Nommer
  BY <1>4 DEF Nommer
<1>5. CASE Poster
  <2>1. point' = <<data, groupe>> /\ etape' = "trame" /\ etape = "point"
    BY <1>5 DEF Poster
  <2> QED
    BY <2>1
<1>6. CASE NewReader
  BY <1>6 DEF NewReader
<1>7. CASE NommerAutre
  BY <1>7 DEF NommerAutre
<1>8. CASE PosterAutre
  BY <1>8 DEF PosterAutre
<1>9. CASE UNCHANGED vars
  BY <1>9 DEF vars
<1> QED
  BY <1>1, <1>2, <1>3, <1>4, <1>5, <1>6, <1>7, <1>8, <1>9 DEF Next, Lecture

(* A value of the meter is stored under its own key or under the name of   *)
(* another measure, never under another key of the meter.                  *)
THEOREM CleToujoursJuste == Spec => []CleJuste
<1>1. Init => NomDonne
  BY DEF Init, NomDonne, CleJuste
<1>2. NomDonne => CleJuste
  BY DEF NomDonne
<1> QED
  BY <1>1, <1>2, TypeAuDepart, TypeConserve, NomDonneConserve, PTL DEF Spec

-----------------------------------------------------------------------------
(* The order of the items.                                                 *)

LEMMA VusReels ==
    ASSUME NEW s \in Seq(Elements)
    PROVE  Vus(s) \subseteq Reels
<1>1. \A i \in 1..Len(s) : s[i] \in Elements
  OBVIOUS
<1> QED
  BY <1>1, Noms DEF Vus

LEMMA VusVide == Vus(<<>>) = {} /\ Ordonne(<<>>)
BY DEF Vus, Ordonne

LEMMA VusAjout ==
    ASSUME NEW s \in Seq(Elements), NEW e \in Elements
    PROVE  Vus(Append(s, e)) = Vus(s) \cup ({e} \ {Bruit})
<1> DEFINE t == Append(s, e)
<1>1. /\ Len(s) \in Nat /\ Len(t) = Len(s) + 1
      /\ \A i \in 1..Len(s) : t[i] = s[i]
      /\ t[Len(s) + 1] = e
  BY Ajout
<1> HIDE DEF t
<1>2. \A x \in Vus(t) : x \in Vus(s) \cup ({e} \ {Bruit})
  BY <1>1 DEF Vus
<1>3. \A x \in Vus(s) : x \in Vus(t)
  BY <1>1 DEF Vus
<1>4. \A x \in {e} \ {Bruit} : x \in Vus(t)
  BY <1>1 DEF Vus
<1>5. Vus(t) = Vus(s) \cup ({e} \ {Bruit})
  BY <1>2, <1>3, <1>4
<1> QED
  BY <1>5 DEF t

LEMMA VusQueue ==
    ASSUME NEW s \in Seq(Elements), s # <<>>
    PROVE  /\ Vus(s) = ({Head(s)} \ {Bruit}) \cup Vus(Tail(s))
           /\ Head(s) \in Elements /\ Tail(s) \in Seq(Elements)
<1> DEFINE t == Tail(s)
<1>1. /\ Len(s) \in Nat /\ Len(s) > 0 /\ Len(t) = Len(s) - 1
      /\ Head(s) = s[1] /\ Head(s) \in Elements /\ t \in Seq(Elements)
      /\ \A i \in 1..Len(t) : i + 1 \in 1..Len(s) /\ t[i] = s[i + 1]
  BY Queue
<1> HIDE DEF t
<1>2. \A x \in Vus(t) \cup ({Head(s)} \ {Bruit}) : x \in Vus(s)
  BY <1>1 DEF Vus
<1>3. ASSUME NEW i \in 1..Len(s), s[i] # Bruit
      PROVE  s[i] \in Vus(t) \cup ({Head(s)} \ {Bruit})
  <2>1. CASE i = 1
    BY <1>1, <1>3, <2>1
  <2>2. CASE i # 1
    <3>1. i - 1 \in 1..Len(t) /\ t[i - 1] = s[i]
      BY <1>1, <2>2
    <3> QED
      BY <1>3, <3>1 DEF Vus
  <2> QED
    BY <2>1, <2>2
<1>4. Vus(s) = ({Head(s)} \ {Bruit}) \cup Vus(t)
  BY <1>2, <1>3 DEF Vus
<1> QED
  BY <1>1, <1>4 DEF t

LEMMA OrdonneAjout ==
    ASSUME NEW s \in Seq(Elements), NEW e \in Elements,
           Ordonne(s), Precede(Vus(s), {e} \ {Bruit})
    PROVE  Ordonne(Append(s, e))
<1> DEFINE t == Append(s, e)
<1>1. /\ Len(s) \in Nat /\ Len(t) = Len(s) + 1
      /\ \A i \in 1..Len(s) : t[i] = s[i]
      /\ t[Len(s) + 1] = e
  BY Ajout
<1> HIDE DEF t
<1>2. ASSUME NEW i \in 1..Len(t), NEW j \in 1..Len(t), i < j, t[i] # Bruit, t[j] # Bruit
      PROVE  Avant(t[i], t[j])
  <2>1. i \in 1..Len(s) /\ t[i] = s[i] /\ s[i] \in Vus(s)
    BY <1>1, <1>2 DEF Vus
  <2>2. CASE j = Len(s) + 1
    BY <1>1, <1>2, <2>1, <2>2 DEF Precede
  <2>3. CASE j \in 1..Len(s)
    BY <1>1, <1>2, <2>1, <2>3 DEF Ordonne
  <2> QED
    BY <1>1, <2>2, <2>3
<1>3. Ordonne(t)
  BY <1>2 DEF Ordonne
<1> QED
  BY <1>3 DEF t

LEMMA OrdonneQueue ==
    ASSUME NEW s \in Seq(Elements), s # <<>>, Ordonne(s)
    PROVE  /\ Ordonne(Tail(s))
           /\ Precede({Head(s)} \ {Bruit}, Vus(Tail(s)))
<1> DEFINE t == Tail(s)
<1>1. /\ Len(s) \in Nat /\ Len(s) > 0 /\ Len(t) = Len(s) - 1
      /\ Head(s) = s[1]
      /\ \A i \in 1..Len(t) : i + 1 \in 1..Len(s) /\ t[i] = s[i + 1]
  BY Queue
<1> HIDE DEF t
<1>2. Ordonne(t)
  <2> SUFFICES ASSUME NEW i \in 1..Len(t), NEW j \in 1..Len(t), i < j,
                      t[i] # Bruit, t[j] # Bruit
               PROVE  Avant(t[i], t[j])
    BY DEF Ordonne
  <2>1. /\ i + 1 \in 1..Len(s) /\ j + 1 \in 1..Len(s) /\ i + 1 < j + 1
        /\ t[i] = s[i + 1] /\ t[j] = s[j + 1]
    BY <1>1
  <2> QED
    BY <2>1 DEF Ordonne
<1>3. \A i \in 1..Len(t) : s[1] # Bruit /\ t[i] # Bruit => Avant(s[1], t[i])
  BY <1>1 DEF Ordonne
<1>4. Precede({Head(s)} \ {Bruit}, Vus(t))
  BY <1>1, <1>3 DEF Precede, Vus
<1> QED
  BY <1>2, <1>4 DEF t

Points == Nat \X Nat

LEMMA AvantOrdre ==
    /\ \A a, b, c \in Points : Avant(a, b) /\ Avant(b, c) => Avant(a, c)
    /\ \A a, b \in Points : Avant(a, b) => ~Avant(b, a) /\ a # b
    /\ \A a, b \in Points : Avant(a, b) \/ Avant(b, a) \/ a = b
BY DEF Avant, Points

LEMMA LesPoints ==
    /\ Reels \subseteq Points /\ Elements \subseteq Points
    /\ \A n \in Nat : Debut(n) \in Points /\ Fin(n) \in Points
    /\ \A e \in Reels : EstDebut(e) => e[1] \in 1..MaxTrames /\ e = Debut(e[1])
    /\ \A e \in Reels : EstFin(e) => e[1] \in 1..MaxTrames /\ e = Fin(e[1])
BY TeleinfoAssumption DEF Reels, Elements, Points, Debut, Fin, EstDebut, EstFin, Bruit

(* What an item that goes out changes: it comes after all the others.      *)
LEMMA EmissionOrdre ==
    ASSUME TypeOK, Emettre
    PROVE  /\ Courant' \in Reels /\ Courant' \in Elements /\ Courant' # Bruit
           /\ \A e \in Points : Envoye(e) => Avant(e, Courant') /\ Envoye(e)'
           /\ \A e \in Reels : Envoye(e)' => Envoye(e) \/ e = Courant'
           /\ manque \subseteq manque'
           /\ \/ flux' = flux /\ Courant' \in manque'
              \/ flux' = Append(flux, Courant')
              \/ flux' = Append(flux, Bruit) /\ Courant' \in manque'
<1>1. /\ emis' \in 0..MaxTrames /\ place' \in 0..(NbGroupes + 1)
      /\ <<emis', place'>> \in Elements /\ <<emis', place'>> # Bruit
  BY EmissionTypee
<1>2. Courant' \in Reels /\ Courant' \in Elements /\ Courant' # Bruit
  BY <1>1, Noms DEF Courant
<1>3. emis \in Nat /\ place \in Nat /\ emis' \in Nat /\ place' \in Nat
  BY <1>1, TeleinfoAssumption DEF TypeOK
<1>4. \/ emis' = emis /\ place' = place + 1
      \/ emis' = emis + 1 /\ place' = 0 /\ place = NbGroupes + 1
  BY DEF Emettre
<1>5. Courant \in Points /\ Courant' \in Points /\ Avant(Courant, Courant')
  BY <1>3, <1>4 DEF Courant, Points, Avant
<1>6. \A e \in Points : Envoye(e) => Avant(e, Courant') /\ Envoye(e)'
  BY <1>5, AvantOrdre DEF Envoye
<1>7. \A e \in Reels : Envoye(e)' => Envoye(e) \/ e = Courant'
  <2> SUFFICES ASSUME NEW e \in Reels, Avant(e, Courant')
               PROVE  e = Courant \/ Avant(e, Courant)
    BY DEF Envoye
  <2>1. /\ e[1] \in Nat /\ e[2] \in Nat /\ e[2] <= NbGroupes + 1 /\ e = <<e[1], e[2]>>
        /\ NbGroupes \in Nat
    BY TeleinfoAssumption DEF Reels
  <2>2. e[1] < emis' \/ (e[1] = emis' /\ e[2] < place')
    BY DEF Avant, Courant
  <2>3. (e[1] = emis /\ e[2] = place) \/ e[1] < emis \/ (e[1] = emis /\ e[2] < place)
    BY <1>3, <1>4, <2>1, <2>2
  <2> QED
    BY <2>1, <2>3 DEF Avant, Courant
<1>8. /\ manque \subseteq manque'
      /\ \/ flux' = flux /\ Courant' \in manque'
         \/ flux' = Append(flux, Courant')
         \/ flux' = Append(flux, Bruit) /\ Courant' \in manque'
  BY DEF Emettre, Transmettre, Courant
<1> QED
  BY <1>2, <1>6, <1>7, <1>8

LEMMA EmissionFlux ==
    ASSUME TypeOK, Ordre, Emettre
    PROVE  /\ Ordonne(flux)'
           /\ Vus(flux)' \subseteq Vus(flux) \cup {Courant'}
           /\ Vus(flux) \subseteq Vus(flux)'
           /\ Courant' \in manque' \cup Vus(flux)'
<1>1. flux \in Seq(Elements) /\ Ordonne(flux) /\ Vus(flux) \subseteq Points
  BY VusReels, LesPoints DEF TypeOK, Ordre
<1>2. Courant' \in Elements /\ Courant' # Bruit
  BY EmissionOrdre
<1>3. Precede(Vus(flux), {Courant'} \ {Bruit})
  BY <1>1, EmissionOrdre DEF Precede, Ordre
<1>4. CASE flux' = flux /\ Courant' \in manque'
  BY <1>1, <1>4
<1>5. CASE flux' = Append(flux, Courant')
  <2>1. Ordonne(flux') /\ Vus(flux') = Vus(flux) \cup ({Courant'} \ {Bruit})
    BY <1>1, <1>2, <1>3, <1>5, OrdonneAjout, VusAjout
  <2> QED
    BY <1>2, <2>1
<1>6. CASE flux' = Append(flux, Bruit) /\ Courant' \in manque'
  <2>1. Precede(Vus(flux), {Bruit} \ {Bruit})
    BY DEF Precede
  <2>2. Ordonne(flux') /\ Vus(flux') = Vus(flux) \cup ({Bruit} \ {Bruit})
    BY <1>1, <1>6, <2>1, Noms, OrdonneAjout, VusAjout
  <2> QED
    BY <1>6, <2>2
<1> QED
  BY <1>4, <1>5, <1>6, EmissionOrdre

LEMMA Lus ==
    ASSUME TypeOK
    PROVE  /\ Vus(brut) \subseteq Points /\ Vus(tampon) \subseteq Points
           /\ Vus(flux) \subseteq Points /\ Fin(recu) \in Points
           /\ Vus(brut) \subseteq Reels /\ Vus(tampon) \subseteq Reels
           /\ Vus(flux) \subseteq Reels
BY VusReels, LesPoints, TeleinfoAssumption DEF TypeOK

(* The item that is read is the first of all that are still to be read.    *)
LEMMA Lecture1 ==
    ASSUME TypeOK, Ordre, tampon # <<>>
    PROVE  /\ Vus(tampon) = ({Head(tampon)} \ {Bruit}) \cup Vus(Tail(tampon))
           /\ Head(tampon) \in Elements /\ Tail(tampon) \in Seq(Elements)
           /\ Ordonne(Tail(tampon))
           /\ Precede({Head(tampon)} \ {Bruit}, Vus(Tail(tampon)) \cup Vus(flux))
<1>1. tampon \in Seq(Elements) /\ Ordonne(tampon) /\ Precede(Vus(tampon), Vus(flux))
  BY DEF TypeOK, Ordre
<1>2. Vus(tampon) = ({Head(tampon)} \ {Bruit}) \cup Vus(Tail(tampon))
  BY <1>1, VusQueue
<1>3. Precede({Head(tampon)} \ {Bruit}, Vus(flux))
  BY <1>1, <1>2 DEF Precede
<1>4. Precede({Head(tampon)} \ {Bruit}, Vus(Tail(tampon)))
  BY <1>1, OrdonneQueue
<1>5. Precede({Head(tampon)} \ {Bruit}, Vus(Tail(tampon)) \cup Vus(flux))
  BY <1>3, <1>4 DEF Precede
<1> QED
  BY <1>1, <1>2, <1>5, VusQueue, OrdonneQueue

(* The frame that is given ends no later than the end mark just read.      *)
LEMMA FinDeTrame ==
    ASSUME TypeOK, Ordre, ReadFrame, decodeFrame(brut) # {}
    PROVE  LET h == Head(tampon)
               n == brut[Len(brut)][1]
           IN  /\ h \in Vus(tampon) /\ h \in Points
               /\ n \in Nat
               /\ Fin(n) = h \/ Avant(Fin(n), h)
<1> DEFINE h == Head(tampon)
           d == brut[Len(brut)]
<1>1. tampon # <<>> /\ EstFin(h)
  BY DEF ReadFrame
<1>2. h \in Elements /\ Vus(tampon) = ({h} \ {Bruit}) \cup Vus(Tail(tampon))
  BY <1>1, Lecture1
<1>3. h # Bruit
  BY <1>1, TeleinfoAssumption DEF EstFin, Bruit
<1>4. h \in Vus(tampon) /\ h \in Reels
  BY <1>2, <1>3, Noms
<1>5. h \in Points /\ h[1] \in Nat /\ h = Fin(h[1])
  BY <1>1, <1>4, LesPoints, TeleinfoAssumption
<1>6. Len(brut) \in 1..Len(brut) /\ EstGroupe(d) /\ d \in Elements
  BY TrameTypee DEF TypeOK
<1>7. d \in Vus(brut) /\ d \in Reels
  BY <1>6, Noms DEF Vus
<1>8. Avant(d, h)
  BY <1>4, <1>7 DEF Ordre, Precede
<1>9. d[1] \in Nat /\ d[2] \in Nat /\ d[2] <= NbGroupes
  BY <1>6, <1>7, TeleinfoAssumption DEF Reels, EstGroupe, Cles
<1>10. Fin(d[1]) = h \/ Avant(Fin(d[1]), h)
  <2>1. h[1] >= d[1]
    BY <1>5, <1>8, <1>9, TeleinfoAssumption DEF Avant
  <2>2. CASE h[1] = d[1]
    BY <1>5, <2>2
  <2>3. CASE h[1] > d[1]
    BY <1>5, <1>9, <2>3 DEF Avant, Fin
  <2> QED
    BY <1>5, <1>9, <2>1, <2>2, <2>3
<1> QED
  BY <1>4, <1>5, <1>9, <1>10

LEMMA OrdreConserve == TypeOK /\ Ordre /\ [Next]_vars => Ordre'
<1> SUFFICES ASSUME TypeOK, Ordre, [Next]_vars
             PROVE  Ordre'
  OBVIOUS
<1> USE DEF varsLigne, varsTampons, varsFrame, varsPoint
<1>0. \A e \in Points, x \in Points : Envoye(x) /\ Avant(e, x) => Envoye(e)
  <2>1. Courant \in Points
    BY TeleinfoAssumption DEF TypeOK, Courant, Points
  <2> QED
    BY <2>1, AvantOrdre DEF Envoye
<1>1. CASE Emettre
  <2> DEFINE Puis(e) == e = Courant' \/ Avant(e, Courant')
  <2>1. /\ Ordonne(flux') /\ Vus(flux') \subseteq Vus(flux) \cup {Courant'}
        /\ UNCHANGED <<brut, tampon, recu>>
    BY <1>1, EmissionFlux DEF Emettre
  <2>2. \A e \in Points : Envoye(e) => Avant(e, Courant')
    BY <1>1, EmissionOrdre
  <2>3. \A e \in Vus(brut) \cup Vus(tampon) \cup Vus(flux) : Avant(e, Courant') /\ Puis(e)
    BY <2>2, Lus DEF Ordre
  <2>4. Avant(Fin(recu), Courant') /\ Puis(Fin(recu)) /\ Puis(Courant')
    BY <2>2, Lus DEF Ordre
  <2>5. /\ Precede(Vus(brut), Vus(tampon) \cup Vus(flux'))
        /\ Precede(Vus(tampon), Vus(flux'))
    BY <2>1, <2>3 DEF Precede, Ordre
  <2> HIDE DEF Puis
  <2>6. \A e \in Vus(brut) \cup Vus(tampon) \cup Vus(flux') : Avant(Fin(recu), e) /\ Puis(e)
    BY <2>1, <2>3, <2>4 DEF Ordre
  <2>7. Fin(recu)' = Fin(recu) /\ brut' = brut /\ tampon' = tampon
    BY <2>1 DEF Fin
  <2>8. \A e \in Vus(brut') \cup Vus(tampon') \cup Vus(flux') : Avant(Fin(recu'), e) /\ Puis(e)
    BY <2>6, <2>7
  <2>9. Puis(Fin(recu'))
    BY <2>4, <2>7
  <2>10. Ordonne(brut') /\ Ordonne(tampon')
    BY <2>7 DEF Ordre
  <2> QED
    BY <2>1, <2>5, <2>7, <2>8, <2>9, <2>10 DEF Ordre, Envoye, Puis
<1> DEFINE Fixe == emis' = emis /\ place' = place
<1>2. Fixe => \A e : Envoye(e)' <=> Envoye(e)
  BY DEF Envoye, Courant
<1>3. CASE Remplir
  <2>1. /\ tampon = <<>> /\ tampon' = flux /\ flux' = <<>>
        /\ UNCHANGED <<brut, recu>> /\ Fixe
    BY <1>3 DEF Remplir
  <2>2. Vus(flux') = {} /\ Ordonne(flux')
    BY <2>1, VusVide
  <2> QED
    BY <1>2, <2>1, <2>2 DEF Ordre, Precede
<1>4. CASE ReadSlice
  <2>1. /\ tampon # <<>> /\ tampon' = Tail(tampon) /\ brut' = <<>>
        /\ UNCHANGED <<flux, recu>> /\ Fixe
    BY <1>4 DEF ReadSlice
  <2>2. /\ Vus(brut') = {} /\ Ordonne(brut') /\ Ordonne(tampon')
        /\ Vus(tampon') \subseteq Vus(tampon)
    BY <2>1, VusVide, Lecture1
  <2> QED
    BY <1>2, <2>1, <2>2 DEF Ordre, Precede
<1>5. CASE ReadBytes
  <2> DEFINE h == Head(tampon)
  <2>1. /\ tampon # <<>> /\ tampon' = Tail(tampon) /\ brut' = Append(brut, h)
        /\ UNCHANGED <<flux, recu>> /\ Fixe
    BY <1>5 DEF ReadBytes
  <2>2. /\ h \in Elements
        /\ Vus(tampon) = ({h} \ {Bruit}) \cup Vus(tampon')
        /\ Ordonne(tampon')
        /\ Precede({h} \ {Bruit}, Vus(tampon') \cup Vus(flux))
    BY <2>1, Lecture1
  <2>3. Precede(Vus(brut), {h} \ {Bruit})
    BY <2>2 DEF Ordre, Precede
  <2>4. /\ Ordonne(brut')
        /\ Vus(brut') = Vus(brut) \cup ({h} \ {Bruit})
    BY <2>1, <2>2, <2>3, OrdonneAjout, VusAjout DEF TypeOK, Ordre
  <2> HIDE DEF h
  <2> QED
    BY <1>2, <2>1, <2>2, <2>4 DEF Ordre, Precede
<1>6. ASSUME NEW f, NEW n, Prendre(f, n), Ordonne(tampon'), Vus(tampon') \subseteq Vus(tampon),
             \A e \in Vus(tampon') \cup Vus(flux) : Avant(Fin(n), e),
             Envoye(Fin(n))
      PROVE  Ordre'
  <2>1. brut' = <<>> /\ recu' = n /\ flux' = flux /\ Fixe
    BY <1>6 DEF Prendre
  <2>2. Vus(brut') = {} /\ Ordonne(brut')
    BY <2>1, VusVide
  <2>3. Fin(recu') = Fin(n) /\ Fin(recu)' = Fin(n)
    BY <2>1 DEF Fin
  <2> QED
    BY <1>2, <1>6, <2>1, <2>2, <2>3 DEF Ordre, Precede
<1>7. CASE ReadFrame
  <2> DEFINE h == Head(tampon)
             n == brut[Len(brut)][1]
  <2>1. tampon # <<>> /\ tampon' = Tail(tampon)
    BY <1>7 DEF ReadFrame
  <2>2. /\ Vus(tampon') \subseteq Vus(tampon) /\ Ordonne(tampon')
        /\ Precede({h} \ {Bruit}, Vus(tampon') \cup Vus(flux))
    BY <2>1, Lecture1
  <2>3. CASE decodeFrame(brut) = {} /\ Prendre({}, recu)
    BY <1>6, <2>2, <2>3 DEF Ordre
  <2>4. CASE decodeFrame(brut) # {} /\ Prendre(decodeFrame(brut), n)
    <3>1. /\ h \in Vus(tampon) /\ h \in Points
          /\ n \in Nat
          /\ Fin(n) = h \/ Avant(Fin(n), h)
      BY <1>7, <2>4, FinDeTrame
    <3>2. h # Bruit
      BY <3>1 DEF Vus
    <3>3. Fin(n) \in Points
      BY <3>1, LesPoints
    <3>4. Envoye(h)
      BY <3>1 DEF Ordre
    <3>5. Envoye(Fin(n))
      BY <1>0, <3>1, <3>3, <3>4
    <3>6. \A e \in Vus(tampon') \cup Vus(flux) : Avant(h, e) /\ e \in Points
      BY <2>2, <3>2, Lus DEF Precede
    <3> HIDE DEF h, n
    <3>7. \A e \in Vus(tampon') \cup Vus(flux) : Avant(Fin(n), e)
      BY <3>1, <3>3, <3>6, AvantOrdre
    <3> QED
      BY <1>6, <2>2, <2>4, <3>5, <3>7
  <2> QED
    BY <1>7, <2>3, <2>4 DEF ReadFrame
<1>8. CASE Echouer
  BY <1>6, <1>8 DEF Echouer, Ordre
<1>9. CASE NewReader
  <2>1. /\ tampon' = <<>> /\ Vus(tampon') = {} /\ Ordonne(tampon')
        /\ UNCHANGED <<brut, flux, recu>> /\ Fixe
    BY <1>9, VusVide DEF NewReader
  <2> QED
    BY <1>2, <2>1 DEF Ordre, Precede
<1>10. CASE Nommer \/ Poster \/ NommerAutre \/ PosterAutre \/ UNCHANGED vars
  <2>1. UNCHANGED <<brut, tampon, flux, recu>> /\ Fixe
    BY <1>10 DEF Nommer, Poster, NommerAutre, PosterAutre, vars
  <2> QED
    BY <1>2, <2>1 DEF Ordre
<1> QED
  BY <1>1, <1>3, <1>4, <1>5, <1>7, <1>8, <1>9, <1>10 DEF Next, Lecture

LEMMA OrdreAuDepart == Init => Ordre
<1> SUFFICES ASSUME Init
             PROVE  Ordre
  OBVIOUS
<1>1. /\ Vus(brut) = {} /\ Vus(tampon) = {} /\ Vus(flux) = {}
      /\ Ordonne(brut) /\ Ordonne(tampon) /\ Ordonne(flux)
  BY VusVide DEF Init
<1>2. Fin(recu) = Courant
  BY DEF Init, Fin, Courant
<1> QED
  BY <1>1, <1>2 DEF Ordre, Precede, Envoye

(* However items are lost and whenever the reader looks, no round gives a  *)
(* frame that an earlier round has given, nor one sent before it.          *)
THEOREM TramesToujoursNouvelles == Spec => TramesNouvelles
<1>1. ASSUME TypeOK, Ordre, ReadFrame, decodeFrame(brut) # {}, NEW c \in decodeFrame(brut)
      PROVE  c[2] > recu
  <2>1. PICK i \in 1..Len(brut) : c = <<brut[i][2], brut[i][1]>> /\ EstGroupe(brut[i])
    BY <1>1, TrameTypee DEF TypeOK
  <2>2. brut[i] \in Elements
    BY <1>1 DEF TypeOK
  <2>3. brut[i] \in Vus(brut) /\ brut[i] \in Reels
    BY <2>1, <2>2, Noms DEF Vus
  <2>4. Avant(Fin(recu), brut[i])
    BY <1>1, <2>3 DEF Ordre
  <2>5. brut[i][1] \in Nat /\ brut[i][2] \in Nat /\ brut[i][2] <= NbGroupes
    BY <2>1, <2>3, TeleinfoAssumption DEF EstGroupe, Cles, Reels
  <2>6. recu \in Nat /\ NbGroupes \in Nat
    BY <1>1, TeleinfoAssumption DEF TypeOK
  <2>7. brut[i][1] > recu
    BY <2>4, <2>5, <2>6 DEF Avant, Fin
  <2> QED
    BY <2>1, <2>7
<1>2. ASSUME TypeOK, Ordre, [Next]_vars
      PROVE  [ etape' = "trame" /\ etape \in {"debut", "fin"} =>
                  \A c \in frame' : c[2] > recu ]_vars
  <2> SUFFICES ASSUME Next, etape' = "trame", etape \in {"debut", "fin"}, NEW c \in frame'
               PROVE  c[2] > recu
    BY <1>2
  <2>1. ReadFrame \/ Echouer
    BY DEF Next, Lecture, Emettre, Remplir, ReadSlice, ReadBytes, Nommer, Poster, NewReader,
           NommerAutre, PosterAutre, varsFrame
  <2>2. CASE ReadFrame
    BY <1>1, <1>2, <2>2 DEF ReadFrame, Prendre
  <2>3. CASE Echouer
    BY <2>3 DEF Echouer, Prendre
  <2> QED
    BY <2>1, <2>2, <2>3
<1> QED
  BY <1>2, TypeAuDepart, TypeConserve, OrdreAuDepart, OrdreConserve, PTL
  DEF Spec, TramesNouvelles

-----------------------------------------------------------------------------
(* Nothing is missing unnoticed.                                           *)

LEMMA ContinuAuDepart == Init => Continu
<1> SUFFICES ASSUME Init
             PROVE  Continu
  OBVIOUS
<1>1. Vus(tampon) = {} /\ Vus(flux) = {}
  BY VusVide DEF Init
<1> QED
  BY <1>1 DEF Continu, Init

LEMMA ContinuConserve == TypeOK /\ Ordre /\ Continu /\ [Next]_vars => Continu'
<1> SUFFICES ASSUME TypeOK, Ordre, Continu, [Next]_vars
             PROVE  Continu'
  OBVIOUS
<1> USE DEF varsLigne, varsTampons, varsFrame, varsPoint
<1>1. CASE Emettre
  <2> DEFINE P(d, S) ==
          \A e \in Reels : Avant(d, e) /\ (e = Courant' \/ Avant(e, Courant'))
                              => e \in manque' \cup S
  <2>1. /\ Vus(flux') \subseteq Vus(flux) \cup {Courant'} /\ Vus(flux) \subseteq Vus(flux')
        /\ Courant' \in manque' \cup Vus(flux')
        /\ brut' = brut /\ tampon' = tampon /\ etape' = etape
    BY <1>1, EmissionFlux DEF Emettre
  <2>2. /\ \A e \in Reels : e = Courant' \/ Avant(e, Courant') => Envoye(e) \/ e = Courant'
        /\ manque \subseteq manque'
        /\ Courant' \in Reels
    BY <1>1, EmissionOrdre DEF Envoye
  <2>3. ASSUME NEW d, NEW S, Connu(d, S)
        PROVE  P(d, S \cup Vus(flux'))
    BY <2>1, <2>2, <2>3 DEF Connu
  <2>4. Courant' \in Vus(flux') => P(Courant', Vus(flux'))
    <3>1. Courant' \in Points
      BY <2>2, LesPoints
    <3>2. \A e \in Points : Avant(Courant', e) => e # Courant' /\ ~Avant(e, Courant')
      BY <3>1, AvantOrdre
    <3> QED
      BY <3>2, LesPoints
  <2>5. \A d \in Vus(flux') : P(d, Vus(flux'))
    <3>1. \A d \in Vus(flux) : P(d, Vus(flux) \cup Vus(flux'))
      BY <2>3 DEF Continu
    <3> QED
      BY <2>1, <2>4, <3>1
  <2>6. \A d \in Vus(tampon') : P(d, Vus(tampon') \cup Vus(flux'))
    <3>1. \A d \in Vus(tampon) : P(d, (Vus(tampon) \cup Vus(flux)) \cup Vus(flux'))
      BY <2>3 DEF Continu
    <3> QED
      BY <2>1, <3>1
  <2> DEFINE Puis(e) == e = Courant' \/ Avant(e, Courant')
  <2>7. \A e \in Points : Envoye(e) => Avant(e, Courant') /\ Puis(e)
    BY <1>1, EmissionOrdre
  <2> HIDE DEF P, Puis
  <2>8. etape' = "fin" => \E n \in 1..MaxTrames :
              /\ P(Debut(n), Vus(brut') \cup Vus(tampon') \cup Vus(flux'))
              /\ Precede({Debut(n)}, Vus(brut') \cup Vus(tampon') \cup Vus(flux'))
              /\ Puis(Debut(n))
    <3> SUFFICES ASSUME etape = "fin"
                 PROVE  \E n \in 1..MaxTrames :
                           /\ P(Debut(n), Vus(brut') \cup Vus(tampon') \cup Vus(flux'))
                           /\ Precede({Debut(n)}, Vus(brut') \cup Vus(tampon') \cup Vus(flux'))
                           /\ Puis(Debut(n))
      BY <2>1
    <3>1. PICK n \in 1..MaxTrames :
             /\ Connu(Debut(n), Vus(brut) \cup Vus(tampon) \cup Vus(flux))
             /\ Precede({Debut(n)}, Vus(brut) \cup Vus(tampon) \cup Vus(flux))
             /\ Envoye(Debut(n))
      BY DEF Continu
    <3>2. P(Debut(n), (Vus(brut) \cup Vus(tampon) \cup Vus(flux)) \cup Vus(flux'))
      BY <2>3, <3>1
    <3>3. P(Debut(n), Vus(brut') \cup Vus(tampon') \cup Vus(flux'))
      <4>1. (Vus(brut) \cup Vus(tampon) \cup Vus(flux)) \cup Vus(flux')
              = Vus(brut') \cup Vus(tampon') \cup Vus(flux')
        BY <2>1
      <4> QED
        BY <3>2, <4>1
    <3>4. Avant(Debut(n), Courant') /\ Puis(Debut(n))
      BY <2>7, <3>1, LesPoints, TeleinfoAssumption
    <3>5. Precede({Debut(n)}, Vus(brut') \cup Vus(tampon') \cup Vus(flux'))
      BY <2>1, <3>1, <3>4 DEF Precede
    <3> QED
      BY <3>3, <3>4, <3>5
  <2> QED
    BY <2>1, <2>5, <2>6, <2>8 DEF Continu, Connu, Envoye, Debut, P, Puis
<1> DEFINE Fixe == emis' = emis /\ place' = place /\ manque' = manque
<1>2. Fixe => /\ \A d, S : Connu(d, S)' <=> Connu(d, S)
              /\ \A e : Envoye(e)' <=> Envoye(e)
  BY DEF Connu, Envoye, Courant
<1>3. \A e \in Reels : ~Avant(e, e)
  BY AvantOrdre, LesPoints
<1>4. CASE Remplir
  <2>1. tampon = <<>> /\ tampon' = flux /\ flux' = <<>> /\ etape' = etape /\ brut' = brut /\ Fixe
    BY <1>4 DEF Remplir
  <2>2. Vus(flux') = {} /\ Vus(tampon) = {}
    BY <2>1, VusVide
  <2>3. \A n : Debut(n)' = Debut(n)
    BY DEF Debut
  <2> QED
    BY <1>2, <2>1, <2>2, <2>3 DEF Continu
(* What a step of the reader leaves behind the item that it takes.         *)
<1>5. ASSUME tampon # <<>>
      PROVE  \A d \in Vus(Tail(tampon)) : Connu(d, Vus(Tail(tampon)) \cup Vus(flux))
  <2> DEFINE h == Head(tampon)
  <2>1. /\ Vus(tampon) = ({h} \ {Bruit}) \cup Vus(Tail(tampon))
        /\ Precede({h} \ {Bruit}, Vus(Tail(tampon)) \cup Vus(flux))
    BY <1>5, Lecture1
  <2> SUFFICES ASSUME NEW d \in Vus(Tail(tampon)), NEW e \in Reels, Avant(d, e), Envoye(e)
               PROVE  e \in manque \cup (Vus(Tail(tampon)) \cup Vus(flux))
    BY DEF Connu
  <2>2. e \in manque \cup (Vus(tampon) \cup Vus(flux))
    BY <2>1 DEF Continu, Connu
  <2>3. CASE e = h /\ h # Bruit
    <3>1. Avant(e, d)
      BY <2>1, <2>3 DEF Precede
    <3>2. d \in Points /\ e \in Points
      BY <2>1, Lus, LesPoints
    <3> QED
      BY <3>1, <3>2, AvantOrdre
  <2> QED
    BY <2>1, <2>2, <2>3
<1>6. CASE ReadSlice
  <2> DEFINE h == Head(tampon)
  <2>1. /\ tampon # <<>> /\ tampon' = Tail(tampon) /\ brut' = <<>> /\ flux' = flux
        /\ etape' = "fin" => EstDebut(h)
        /\ Fixe
    BY <1>6 DEF ReadSlice
  <2>2. /\ Vus(tampon) = ({h} \ {Bruit}) \cup Vus(tampon')
        /\ h \in Elements
    BY <2>1, Lecture1
  <2>3. Vus(brut') = {}
    BY <2>1, VusVide
  <2>4. Precede({h} \ {Bruit}, Vus(tampon') \cup Vus(flux'))
    BY <2>1, Lecture1
  <2>5. ASSUME EstDebut(h)
        PROVE  \E n \in 1..MaxTrames :
                  /\ Connu(Debut(n), Vus(brut') \cup Vus(tampon') \cup Vus(flux'))
                  /\ Precede({Debut(n)}, Vus(brut') \cup Vus(tampon') \cup Vus(flux'))
                  /\ Envoye(Debut(n))
    <3>1. h # Bruit /\ h \in Vus(tampon) /\ h \in Reels
      BY <2>2, <2>5, Noms DEF EstDebut
    <3>2. h[1] \in 1..MaxTrames /\ h = Debut(h[1])
      BY <2>5, <3>1, LesPoints
    <3>3. Connu(h, Vus(tampon) \cup Vus(flux)) /\ Envoye(h)
      BY <3>1 DEF Continu, Ordre
    <3>4. Connu(h, Vus(brut') \cup Vus(tampon') \cup Vus(flux'))
      BY <1>3, <2>1, <2>2, <3>1, <3>3 DEF Connu
    <3>5. Precede({h}, Vus(brut') \cup Vus(tampon') \cup Vus(flux'))
      BY <2>3, <2>4, <3>1 DEF Precede
    <3> HIDE DEF h
    <3> QED
      BY <3>2, <3>3, <3>4, <3>5
  <2>6. \A n : Debut(n)' = Debut(n)
    BY DEF Debut
  <2>7. \A d \in Vus(flux') : Connu(d, Vus(flux'))
    BY <2>1 DEF Continu
  <2>8. \A d \in Vus(tampon') : Connu(d, Vus(tampon') \cup Vus(flux'))
    BY <1>5, <2>1
  <2> HIDE DEF h
  <2> QED
    BY <1>2, <2>1, <2>5, <2>6, <2>7, <2>8 DEF Continu
<1>7. CASE ReadBytes
  <2> DEFINE h == Head(tampon)
  <2>1. /\ tampon # <<>> /\ tampon' = Tail(tampon) /\ brut' = Append(brut, h)
        /\ flux' = flux /\ etape = "fin" /\ Fixe
    BY <1>7 DEF ReadBytes
  <2>2. /\ Vus(tampon) = ({h} \ {Bruit}) \cup Vus(tampon')
        /\ h \in Elements
    BY <2>1, Lecture1
  <2>3. Vus(brut') = Vus(brut) \cup ({h} \ {Bruit})
    BY <2>1, <2>2, VusAjout DEF TypeOK
  <2>4. Vus(brut') \cup Vus(tampon') \cup Vus(flux') = Vus(brut) \cup Vus(tampon) \cup Vus(flux)
    BY <2>1, <2>2, <2>3
  <2>5. \E n \in 1..MaxTrames :
           /\ Connu(Debut(n), Vus(brut') \cup Vus(tampon') \cup Vus(flux'))
           /\ Precede({Debut(n)}, Vus(brut') \cup Vus(tampon') \cup Vus(flux'))
           /\ Envoye(Debut(n))
    BY <2>1, <2>4 DEF Continu
  <2>6. \A n : Debut(n)' = Debut(n)
    BY DEF Debut
  <2>7. \A d \in Vus(flux') : Connu(d, Vus(flux'))
    BY <2>1 DEF Continu
  <2>8. \A d \in Vus(tampon') : Connu(d, Vus(tampon') \cup Vus(flux'))
    BY <1>5, <2>1
  <2>9. etape' = "fin"
    BY <1>7 DEF ReadBytes
  <2> HIDE DEF h
  <2> QED
    BY <1>2, <2>1, <2>5, <2>6, <2>7, <2>8, <2>9 DEF Continu
<1>8. ASSUME tampon' = <<>> \/ (tampon # <<>> /\ tampon' = Tail(tampon)),
             flux' = flux, Fixe, etape' # "fin"
      PROVE  Continu'
  <2>1. \A d \in Vus(flux') : Connu(d, Vus(flux'))
    BY <1>8 DEF Continu
  <2>2. \A d \in Vus(tampon') : Connu(d, Vus(tampon') \cup Vus(flux'))
    BY <1>5, <1>8, VusVide
  <2> QED
    BY <1>2, <1>8, <2>1, <2>2 DEF Continu
<1>9. CASE ReadFrame
  BY <1>8, <1>9 DEF ReadFrame, Prendre
<1>10. CASE Echouer
  BY <1>8, <1>10 DEF Echouer, Prendre
<1>11. CASE NewReader
  BY <1>8, <1>11 DEF NewReader
<1>12. CASE Nommer \/ Poster \/ NommerAutre \/ PosterAutre \/ UNCHANGED vars
  <2>1. /\ UNCHANGED <<tampon, flux, brut>> /\ Fixe
        /\ etape' = "fin" <=> etape = "fin"
    BY <1>12 DEF Nommer, Poster, NommerAutre, PosterAutre, vars
  <2>2. \A n : Debut(n)' = Debut(n)
    BY DEF Debut
  <2> QED
    BY <1>2, <2>1, <2>2 DEF Continu
<1> QED
  BY <1>1, <1>4, <1>6, <1>7, <1>9, <1>10, <1>11, <1>12 DEF Next, Lecture

-----------------------------------------------------------------------------
(* Whole frames.                                                           *)

LEMMA TrameComplete ==
    ASSUME TypeOK, Ordre, Continu, ReadFrame,
           NEW c \in decodeFrame(brut), NEW d \in decodeFrame(brut)
    PROVE  /\ \A k \in Cles : \/ \E b \in decodeFrame(brut) : b[1] = k
                              \/ Groupe(c[2], k) \in manque
           /\ \A n \in c[2]..(d[2] - 1) : Fin(n) \in manque /\ Debut(n + 1) \in manque
<1> DEFINE h == Head(tampon)
<1>1. tampon # <<>> /\ EstFin(h) /\ etape = "fin"
  BY DEF ReadFrame
<1>2. /\ Vus(tampon) = ({h} \ {Bruit}) \cup Vus(Tail(tampon))
      /\ Precede({h} \ {Bruit}, Vus(Tail(tampon)) \cup Vus(flux))
      /\ h \in Elements
  BY <1>1, Lecture1
<1>3. h # Bruit
  BY <1>1, TeleinfoAssumption DEF EstFin, Bruit
<1>4. h \in Vus(tampon) /\ h \in Reels /\ h \in Points /\ Envoye(h)
  BY <1>2, <1>3, Lus DEF Ordre
<1>5. h[1] \in 1..MaxTrames /\ h = Fin(h[1])
  BY <1>1, <1>4, LesPoints
<1>6. PICK m \in 1..MaxTrames :
         /\ Connu(Debut(m), Vus(brut) \cup Vus(tampon) \cup Vus(flux))
         /\ Precede({Debut(m)}, Vus(brut) \cup Vus(tampon) \cup Vus(flux))
  BY <1>1 DEF Continu
<1> HIDE DEF h
<1>7. ASSUME NEW e \in Reels, Avant(Debut(m), e), Avant(e, h)
      PROVE  e \in manque \cup Vus(brut)
  <2>0. Courant \in Points
    BY TeleinfoAssumption DEF TypeOK, Courant, Points
  <2>1. e \in Points /\ Courant \in Points
    BY <2>0, LesPoints
  <2>2. Envoye(e)
    BY <1>4, <1>7, <2>1, AvantOrdre DEF Envoye
  <2>3. e # h /\ ~Avant(h, e)
    BY <1>4, <1>7, <2>1, AvantOrdre
  <2>4. e \notin Vus(tampon) \cup Vus(flux)
    BY <1>2, <1>3, <2>3 DEF Precede
  <2> QED
    BY <1>6, <1>7, <2>2, <2>4 DEF Connu
<1>8. /\ Len(brut) \in Nat
      /\ \A i \in 1..Len(brut) : /\ EstGroupe(brut[i]) /\ brut[i] \in Vus(brut)
                                 /\ brut[i] \in Reels
                                 /\ brut[i][1] \in m..h[1]
  <2>0. brut \in Seq(Elements)
    BY DEF TypeOK
  <2>1. \A i \in 1..Len(brut) : EstGroupe(brut[i]) /\ brut[i] \in Elements
    BY <2>0, TrameTypee
  <2>2. \A i \in 1..Len(brut) : brut[i] \in Vus(brut) /\ brut[i] \in Reels
    BY <2>1, Noms DEF Vus
  <2>3. \A i \in 1..Len(brut) : Avant(Debut(m), brut[i]) /\ Avant(brut[i], h)
    BY <1>4, <1>6, <2>2 DEF Precede, Ordre
  <2>4. ASSUME NEW i \in 1..Len(brut)
        PROVE  brut[i][1] \in m..h[1]
    <3>1. brut[i][1] \in Nat
      BY <2>2, TeleinfoAssumption DEF Reels
    <3> QED
      BY <1>5, <2>3, <3>1, TeleinfoAssumption DEF Avant, Debut
  <2>5. Len(brut) \in Nat
    BY DEF TypeOK
  <2> QED
    BY <2>1, <2>2, <2>4, <2>5
<1>9. PICK i \in 1..Len(brut) : c = <<brut[i][2], brut[i][1]>>
  BY TrameTypee DEF TypeOK
<1>10. PICK j \in 1..Len(brut) : d = <<brut[j][2], brut[j][1]>>
  BY TrameTypee DEF TypeOK
<1>11. /\ c[2] \in m..h[1] /\ d[2] \in m..h[1] /\ m \in 1..MaxTrames /\ h[1] \in 1..MaxTrames
       /\ MaxTrames \in Nat /\ NbGroupes \in Nat /\ NbGroupes > 0
  BY <1>5, <1>8, <1>9, <1>10, TeleinfoAssumption
<1>12. ASSUME NEW k \in Cles, Groupe(c[2], k) \notin manque
       PROVE  \E b \in decodeFrame(brut) : b[1] = k
  <2>1. k \in 1..NbGroupes /\ h = <<h[1], NbGroupes + 1>> /\ Groupe(c[2], k) = <<c[2], k>>
        /\ Debut(m) = <<m, 0>>
    BY <1>5 DEF Cles, Fin, Groupe, Debut
  <2>2. Groupe(c[2], k) \in Reels
    BY <1>11, <2>1 DEF Reels
  <2>3. Avant(Debut(m), Groupe(c[2], k))
    BY <1>11, <2>1 DEF Avant
  <2>4. Avant(Groupe(c[2], k), h)
    BY <1>11, <2>1 DEF Avant
  <2>5. Groupe(c[2], k) \in Vus(brut)
    BY <1>7, <1>12, <2>2, <2>3, <2>4
  <2>6. PICK l \in 1..Len(brut) : brut[l] = Groupe(c[2], k)
    BY <2>5 DEF Vus
  <2>7. brut[l][2] = k
    BY <2>1, <2>6
  <2> DEFINE T == {Len(brut) - x : x \in {y \in 1..Len(brut) : brut[y][2] = k}}
  <2>8. T \subseteq Nat /\ T # {}
    BY <1>8, <2>7
  <2>9. PICK t \in T : \A u \in T : t <= u
    BY <2>8, PlusPetit
  <2>10. PICK x \in 1..Len(brut) : t = Len(brut) - x /\ brut[x][2] = k
    BY <2>9
  <2>11. \A y \in (x + 1)..Len(brut) : brut[y][2] # k
    <3> SUFFICES ASSUME NEW y \in (x + 1)..Len(brut), brut[y][2] = k
                 PROVE  FALSE
      OBVIOUS
    <3>1. y \in 1..Len(brut) /\ Len(brut) - y \in T
      BY <1>8
    <3>2. t <= Len(brut) - y
      BY <2>9, <3>1
    <3> HIDE DEF T
    <3> QED
      BY <1>8, <2>10, <3>2
  <2>12. <<brut[x][2], brut[x][1]>> \in decodeFrame(brut)
    BY <1>8, <2>10, <2>11 DEF decodeFrame
  <2> QED
    BY <2>10, <2>12
<1>13. ASSUME NEW n \in c[2]..(d[2] - 1)
       PROVE  Fin(n) \in manque /\ Debut(n + 1) \in manque
  <2>1. n \in Nat /\ n + 1 \in Nat /\ m <= n /\ n < h[1] /\ n + 1 <= MaxTrames /\ n >= 1
    BY <1>11
  <2>2. /\ h = <<h[1], NbGroupes + 1>> /\ Fin(n) = <<n, NbGroupes + 1>>
        /\ Debut(n + 1) = <<n + 1, 0>> /\ Debut(m) = <<m, 0>>
    BY <1>5 DEF Fin, Debut
  <2>3. Fin(n) \in Reels /\ Debut(n + 1) \in Reels
    <3>1. /\ n \in 1..MaxTrames /\ n + 1 \in 1..MaxTrames
          /\ NbGroupes + 1 \in 0..(NbGroupes + 1) /\ 0 \in 0..(NbGroupes + 1)
      BY <1>11, <2>1
    <3> QED
      BY <2>2, <3>1 DEF Reels
  <2>4. Avant(Debut(m), Fin(n)) /\ Avant(Fin(n), h)
    BY <1>11, <2>1, <2>2 DEF Avant
  <2>5. Avant(Debut(m), Debut(n + 1)) /\ Avant(Debut(n + 1), h)
    BY <1>11, <2>1, <2>2 DEF Avant
  <2>6. \A e \in Vus(brut) : e[2] \in 1..NbGroupes
    BY <1>8 DEF Vus, EstGroupe, Cles
  <2>7. Fin(n) \notin Vus(brut) /\ Debut(n + 1) \notin Vus(brut)
    BY <1>11, <2>2, <2>6
  <2> QED
    BY <1>7, <2>3, <2>4, <2>5, <2>7
<1> QED
  BY <1>12, <1>13

LEMMA EntiereConserve == TypeOK /\ Ordre /\ Continu /\ TrameEntiere /\ [Next]_vars => TrameEntiere'
<1> SUFFICES ASSUME TypeOK, Ordre, Continu, TrameEntiere, [Next]_vars
             PROVE  TrameEntiere'
  OBVIOUS
<1> USE DEF varsLigne, varsTampons, varsFrame, varsPoint
<1>1. CASE UNCHANGED frame /\ manque \subseteq manque'
  BY <1>1 DEF TrameEntiere, Groupe, Fin, Debut
<1>2. CASE ReadFrame
  <2>1. manque' = manque /\ (frame' = {} \/ frame' = decodeFrame(brut))
    BY <1>2 DEF ReadFrame, Prendre
  <2>2. CASE frame' = {}
    BY <2>2 DEF TrameEntiere
  <2>3. CASE frame' = decodeFrame(brut)
    BY <1>2, <2>1, <2>3, TrameComplete DEF TrameEntiere, Groupe, Fin, Debut
  <2> QED
    BY <2>1, <2>2, <2>3
<1>3. CASE Echouer
  BY <1>3 DEF Echouer, Prendre, TrameEntiere
<1>4. CASE Emettre
  BY <1>1, <1>4, EmissionOrdre DEF Emettre
<1>5. CASE Remplir \/ ReadSlice \/ ReadBytes \/ NewReader
  BY <1>1, <1>5 DEF Remplir, ReadSlice, ReadBytes, NewReader
<1>6. CASE Nommer \/ Poster \/ NommerAutre \/ PosterAutre \/ UNCHANGED vars
  BY <1>1, <1>6 DEF Nommer, Poster, NommerAutre, PosterAutre, vars
<1> QED
  BY <1>2, <1>3, <1>4, <1>5, <1>6 DEF Next, Lecture

(* A decoded frame lacks only groups that the line has lost or altered, and*)
(* joins two frames only when the line has lost every mark between them;   *)
(* the bytes a discarded reader takes with it never cut a frame short.     *)
THEOREM TrameToujoursEntiere == Spec => []TrameEntiere
<1>1. Init => TrameEntiere
  BY DEF Init, TrameEntiere
<1> QED
  BY <1>1, TypeAuDepart, TypeConserve, OrdreAuDepart, OrdreConserve,
     ContinuAuDepart, ContinuConserve, EntiereConserve, PTL DEF Spec
=============================================================================
