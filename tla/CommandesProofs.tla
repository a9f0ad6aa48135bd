--------------------------- MODULE CommandesProofs ---------------------------
(***************************************************************************)
(* What TLAPS proves of Commandes, for every set of goroutines, keys,      *)
(* requests and temperatures: type correctness; that only a death of the   *)
(* process or a late rise of the cell's line can expose the cell; and how  *)
(* lines, state variables and the counter's flag stand to each other while *)
(* commands do not overlap.                                                *)
(***************************************************************************)
EXTENDS Commandes, TLAPS

-----------------------------------------------------------------------------
(* The accesses and the programs are well typed.                           *)

LEMMA AccesTypes ==
    /\ \A a \in Appareils, v \in {0, 1} : Etat(a, v) \in Operations
    /\ \A a \in Appareils, v \in {0, 1} : Pin(a, v) \in Operations
    /\ \A v \in {0, 1} : Flag(v) \in Operations
    /\ GraphiteCnx \in Operations /\ TestPompe \in Operations
    /\ Garde \in Operations /\ Ouvrir \in Operations
    /\ Servir \in Operations /\ Exit \in Operations
BY DEF Operations, Appareils, Etat, Pin, Flag, GraphiteCnx, TestPompe, Garde,
       Ouvrir, Servir, Exit

LEMMA Concatenation ==
    ASSUME NEW S, NEW p \in Seq(S), NEW q \in Seq(S)
    PROVE  p \o q \in Seq(S)
OBVIOUS

LEMMA ProgrammesTypes ==
    /\ debutPlage \in Seq(Operations) /\ finPlage \in Seq(Operations)
    /\ demarrage \in Seq(Operations) /\ quitter \in Seq(Operations)
    /\ pompeOn \in Seq(Operations)
    /\ pompeOff \o electrolyseOff \in Seq(Operations)
    /\ <<TestPompe>> \o electrolyseOn \in Seq(Operations)
    /\ electrolyseOn \in Seq(Operations) /\ electrolyseOff \in Seq(Operations)
    /\ httpPompeOn \in Seq(Operations) /\ httpPompeOff \in Seq(Operations)
    /\ httpElectrolyseOff \in Seq(Operations)
    /\ \A v \in {0, 1} : lampe(v) \in Seq(Operations)
<1>1. pompeOn \in Seq(Operations) /\ pompeOff \in Seq(Operations)
  BY AccesTypes DEF pompeOn, pompeOff, Appareils
<1>2. electrolyseOn \in Seq(Operations) /\ electrolyseOff \in Seq(Operations)
  BY AccesTypes DEF electrolyseOn, electrolyseOff, Appareils
<1>3. /\ pompeOff \o electrolyseOff \in Seq(Operations)
      /\ pompeOn \o electrolyseOn \in Seq(Operations)
  BY <1>1, <1>2, Concatenation
<1>4. <<TestPompe>> \o electrolyseOn \in Seq(Operations)
  <2>1. <<TestPompe>> \in Seq(Operations)
    BY AccesTypes
  <2> QED
    BY <2>1, <1>2, Concatenation
<1>5. quitter \in Seq(Operations)
  <2>1. <<Pin("lampe", 0), Exit>> \in Seq(Operations)
    BY AccesTypes DEF Appareils
  <2> QED
    BY <2>1, <1>3, Concatenation DEF quitter, finPlage
<1>6. demarrage \in Seq(Operations)
  BY AccesTypes DEF demarrage, Appareils
<1>7. /\ httpPompeOn \in Seq(Operations) /\ httpPompeOff \in Seq(Operations)
      /\ httpElectrolyseOff \in Seq(Operations)
  BY AccesTypes DEF httpPompeOn, httpPompeOff, httpElectrolyseOff, Appareils
<1>8. \A v \in {0, 1} : lampe(v) \in Seq(Operations)
  BY AccesTypes DEF lampe, Appareils
<1> QED
  BY <1>1, <1>2, <1>3, <1>4, <1>5, <1>6, <1>7, <1>8 DEF debutPlage, finPlage

-----------------------------------------------------------------------------
(* What the actions that start a command have in common.                   *)

(* Started: the programs that some action passes to Lance.                 *)
Programmes ==
    {debutPlage, finPlage, pompeOn, pompeOff \o electrolyseOff,
     <<TestPompe>> \o electrolyseOn, electrolyseOn, electrolyseOff, quitter,
     httpPompeOn, httpPompeOff, httpElectrolyseOff, lampe(0), lampe(1)}

Commande ==
    \/ DebutPlage \/ FinPlage
    \/ ToucheP \/ ToucheE \/ ToucheL \/ ToucheQ
    \/ \E r \in Requetes : HttpPompe(r) \/ HttpElectro(r) \/ HttpLampe(r)

LEMMA CommandeLance ==
    Commande => \E t \in Acteurs, p \in Programmes : Lance(t, p)
<1>1. DebutPlage \/ FinPlage => \E t \in Acteurs, p \in Programmes : Lance(t, p)
  BY DEF DebutPlage, FinPlage, Programmes, Acteurs
<1>2. ToucheP \/ ToucheQ => \E t \in Acteurs, p \in Programmes : Lance(t, p)
  BY DEF ToucheP, ToucheQ, Programmes, Acteurs
<1>3. ToucheE => \E t \in Acteurs, p \in Programmes : Lance(t, p)
  BY DEF ToucheE, Programmes, Acteurs
<1>4. ToucheL => \E t \in Acteurs, p \in Programmes : Lance(t, p)
  BY DEF ToucheL, Programmes, Acteurs
<1>5. ASSUME NEW r \in Requetes, HttpPompe(r) \/ HttpElectro(r)
      PROVE  \E t \in Acteurs, p \in Programmes : Lance(t, p)
  BY <1>5 DEF HttpPompe, HttpElectro, Programmes, Acteurs
<1>6. ASSUME NEW r \in Requetes, HttpLampe(r)
      PROVE  \E t \in Acteurs, p \in Programmes : Lance(t, p)
  BY <1>6 DEF HttpLampe, Programmes, Acteurs
<1> QED
  BY <1>1, <1>2, <1>3, <1>4, <1>5, <1>6 DEF Commande

LEMMA ProgrammesSeq == Programmes \subseteq Seq(Operations)
BY ProgrammesTypes DEF Programmes

(* A step of Next, sorted by what it does to the pending accesses.         *)
LEMMA Etapes ==
    Next => \/ Lancement \/ Panne
            \/ \E t \in Acteurs, p \in Programmes : Lance(t, p)
            \/ \E t \in Acteurs : Pas(t)
            \/ Sonde \/ PanneGraphite \/ RetourGraphite
BY CommandeLance DEF Next, Commande

-----------------------------------------------------------------------------
(* Every variable keeps its type: the type invariant is inductive, because *)
(* whatever a command assigns comes from a well-typed access.              *)

LEMMA QueueTypee ==
    ASSUME NEW s \in Seq(Operations), s # <<>>
    PROVE  Head(s) \in Operations /\ Tail(s) \in Seq(Operations)
OBVIOUS

LEMMA TypeMort == TypeOK /\ Mort => TypeOK'
BY DEF TypeOK, Mort

LEMMA TypePas ==
    ASSUME TypeOK, NEW t \in Acteurs, Pas(t)
    PROVE  TypeOK'
<1>1. CASE (PasPin(t) /\ phase = "ferme") \/ PasExit(t)
  BY <1>1, TypeMort DEF PasPin, PasExit
<1> SUFFICES ASSUME ~(PasPin(t) /\ phase = "ferme"), ~PasExit(t)
             PROVE  TypeOK'
  BY <1>1
<1>2. reste[t] # <<>> /\ phase # "arret"
  BY DEF Pas, PasEtat, PasPin, PasFlag, PasGraphite, PasTest, PasGarde,
         PasOuvrir, PasServir, PasExit, EnTete, TypeOK
<1>3. reste[t] \in Seq(Operations)
  BY DEF TypeOK
<1>4. Head(reste[t]) \in Operations /\ Tail(reste[t]) \in Seq(Operations)
  BY <1>2, <1>3, QueueTypee
<1>5. Head(reste[t]).sur \in Appareils /\ Head(reste[t]).val \in {0, 1}
  BY <1>4 DEF Operations
<1>6. Suite(t) \/ Abandon(t)
  BY DEF Pas, PasEtat, PasPin, PasFlag, PasGraphite, PasTest, PasGarde,
         PasOuvrir, PasServir
<1>7. reste' \in [Acteurs -> Seq(Operations)]
  <2>1. <<>> \in Seq(Operations)
    OBVIOUS
  <2> QED
    BY <1>4, <1>6, <2>1 DEF TypeOK, Suite, Abandon
<1>8. phase' \in {"ferme", "gpio", "marche"}
  BY <1>2 DEF TypeOK, Pas, PasEtat, PasPin, PasFlag, PasGraphite, PasTest,
         PasGarde, PasOuvrir, PasServir
<1>9. etat' \in [Appareils -> {0, 1}] /\ pin' \in [Appareils -> {0, 1}]
  <2>1. CASE PasEtat(t)
    BY <1>5, <2>1 DEF TypeOK, PasEtat
  <2>2. CASE PasPin(t)
    BY <1>5, <2>2 DEF TypeOK, PasPin
  <2>3. CASE ~PasEtat(t) /\ ~PasPin(t)
    BY <2>3 DEF TypeOK, Pas, PasFlag, PasGraphite, PasTest, PasGarde,
           PasOuvrir, PasServir
  <2> QED
    BY <2>1, <2>2, <2>3
<1>10. /\ msFlag' \in {0, 1} /\ tEau' \in Temperatures
       /\ graphite' \in BOOLEAN /\ croise' \in BOOLEAN
  BY <1>5 DEF TypeOK, Pas, PasEtat, PasPin, PasFlag, PasGraphite, PasTest,
         PasGarde, PasOuvrir, PasServir
<1> QED
  BY <1>7, <1>8, <1>9, <1>10 DEF TypeOK

LEMMA TypeNext == TypeOK /\ [Next]_vars => TypeOK'
<1> SUFFICES ASSUME TypeOK, [Next]_vars
             PROVE  TypeOK'
  OBVIOUS
<1>1. CASE Lancement
  BY <1>1, ProgrammesTypes, TemperaturesAssumption DEF TypeOK, Lancement, Acteurs
<1>2. CASE Panne
  BY <1>2, TypeMort DEF Panne
<1>3. ASSUME NEW t \in Acteurs, NEW p \in Programmes, Lance(t, p)
      PROVE  TypeOK'
  BY <1>3, ProgrammesSeq DEF TypeOK, Lance
<1>4. ASSUME NEW t \in Acteurs, Pas(t)
      PROVE  TypeOK'
  BY <1>4, TypePas
<1>5. CASE Sonde
  BY <1>5 DEF TypeOK, Sonde
<1>6. CASE PanneGraphite \/ RetourGraphite
  BY <1>6 DEF TypeOK, PanneGraphite, RetourGraphite
<1>7. CASE UNCHANGED vars
  BY <1>7 DEF TypeOK, vars
<1> QED
  BY <1>1, <1>2, <1>3, <1>4, <1>5, <1>6, <1>7, Etapes

LEMMA TypeInit == Init => TypeOK
<1> SUFFICES ASSUME Init
             PROVE  TypeOK
  OBVIOUS
<1>1. <<>> \in Seq(Operations)
  OBVIOUS
<1>2. reste \in [Acteurs -> Seq(Operations)] /\ \A t \in Acteurs : reste[t] = <<>>
  BY <1>1 DEF Init
<1>3. etat \in [Appareils -> {0, 1}] /\ pin \in [Appareils -> {0, 1}]
  BY DEF Init
<1> QED
  BY <1>2, <1>3, TemperaturesAssumption DEF Init, TypeOK

(* Whatever goroutines, keys and requests there are, every variable of the *)
(* commands keeps a value the program can give it, and a stopped process   *)
(* has nothing left to do.                                                 *)
THEOREM TypeCorrect == Spec => []TypeOK
BY TypeInit, TypeNext, PTL DEF Spec

-----------------------------------------------------------------------------
(* What every pending sequence of accesses looks like: a fall of the pump's*)
(* line is followed by a fall of the cell's, and a condition that may drop *)
(* the rest of the sequence never drops a fall of the cell's line.         *)

Contient(s, o) == \E i \in DOMAIN s : s[i] = o

ChuteSuivie(s) ==
    \A i \in DOMAIN s : s[i] = Pin("pompe", 0) =>
        \E j \in DOMAIN s : j > i /\ s[j] = Pin("electrolyse", 0)

ConditionSansChute(s) ==
    (\E i \in DOMAIN s : s[i].op \in {"test", "garde"}) =>
        ~Contient(s, Pin("electrolyse", 0))

Sure(s) == ChuteSuivie(s) /\ ConditionSansChute(s)

IInv == TypeOK /\ \A t \in Acteurs : Sure(reste[t])

LEMMA QueueContient ==
    ASSUME NEW s \in Seq(Operations), s # <<>>,
           NEW o, Contient(s, o), Head(s) # o
    PROVE  Contient(Tail(s), o)
<1>1. PICK i \in 1..Len(s) : s[i] = o
  BY DEF Contient
<1>2. Tail(s)[i - 1] = o /\ i - 1 \in DOMAIN Tail(s)
  BY <1>1
<1> QED
  BY <1>2 DEF Contient

LEMMA QueueSure ==
    ASSUME NEW s \in Seq(Operations), s # <<>>, Sure(s)
    PROVE  Sure(Tail(s))
<1>1. ASSUME NEW i \in DOMAIN Tail(s)
      PROVE  i + 1 \in DOMAIN s /\ Tail(s)[i] = s[i + 1]
  OBVIOUS
<1>2. ChuteSuivie(Tail(s))
  <2> SUFFICES ASSUME NEW i \in DOMAIN Tail(s), Tail(s)[i] = Pin("pompe", 0)
               PROVE  \E j \in DOMAIN Tail(s) :
                         j > i /\ Tail(s)[j] = Pin("electrolyse", 0)
    BY DEF ChuteSuivie
  <2>1. PICK k \in DOMAIN s : k > i + 1 /\ s[k] = Pin("electrolyse", 0)
    BY <1>1 DEF Sure, ChuteSuivie
  <2>2. k - 1 \in DOMAIN Tail(s) /\ k - 1 > i /\ Tail(s)[k - 1] = s[k]
    BY <2>1
  <2> QED
    BY <2>1, <2>2
<1>3. ConditionSansChute(Tail(s))
  <2> SUFFICES ASSUME NEW i \in DOMAIN Tail(s),
                      Tail(s)[i].op \in {"test", "garde"},
                      NEW j \in DOMAIN Tail(s),
                      Tail(s)[j] = Pin("electrolyse", 0)
               PROVE  FALSE
    BY DEF ConditionSansChute, Contient
  <2>1. i + 1 \in DOMAIN s /\ s[i + 1].op \in {"test", "garde"}
    BY <1>1
  <2>2. j + 1 \in DOMAIN s /\ s[j + 1] = Pin("electrolyse", 0)
    BY <1>1
  <2> QED
    BY <2>1, <2>2 DEF Sure, ConditionSansChute, Contient
<1> QED
  BY <1>2, <1>3 DEF Sure

LEMMA TeteChute ==
    ASSUME NEW s \in Seq(Operations), s # <<>>, Sure(s),
           Head(s) = Pin("pompe", 0)
    PROVE  Contient(Tail(s), Pin("electrolyse", 0))
<1>1. 1 \in DOMAIN s /\ s[1] = Pin("pompe", 0)
  OBVIOUS
<1>2. PICK k \in DOMAIN s : k > 1 /\ s[k] = Pin("electrolyse", 0)
  BY <1>1 DEF Sure, ChuteSuivie
<1>3. k - 1 \in DOMAIN Tail(s) /\ Tail(s)[k - 1] = s[k]
  BY <1>2
<1> QED
  BY <1>2, <1>3 DEF Contient

LEMMA TeteCondition ==
    ASSUME NEW s \in Seq(Operations), s # <<>>, Sure(s),
           Head(s).op \in {"test", "garde"}
    PROVE  ~Contient(s, Pin("electrolyse", 0))
<1>1. 1 \in DOMAIN s /\ s[1].op \in {"test", "garde"}
  OBVIOUS
<1> QED
  BY <1>1 DEF Sure, ConditionSansChute

(* The programs are safe in this sense when they start.                    *)

LEMMA SureVide == Sure(<<>>)
BY DEF Sure, ChuteSuivie, ConditionSansChute, Contient

(* Neither a condition nor a fall of a line.                               *)
SansCondition(s) == \A i \in DOMAIN s : s[i].op \notin {"test", "garde"}

LEMMA ElementsConcatenation ==
    ASSUME NEW p \in Seq(Operations), NEW q \in Seq(Operations)
    PROVE  /\ \A i \in DOMAIN p : i \in DOMAIN (p \o q) /\ (p \o q)[i] = p[i]
           /\ \A i \in DOMAIN q : /\ i + Len(p) \in DOMAIN (p \o q)
                                  /\ (p \o q)[i + Len(p)] = q[i]
                                  /\ \A k \in DOMAIN p : k < i + Len(p)
           /\ \A i \in DOMAIN (p \o q) :
                 \/ i \in DOMAIN p
                 \/ i - Len(p) \in DOMAIN q /\ i = (i - Len(p)) + Len(p)
OBVIOUS

(* What falls of the pump's line the first part has, the fall of the cell's*)
(* line in the second part follows.                                        *)
LEMMA SureSuivieDe ==
    ASSUME NEW p \in Seq(Operations), NEW q \in Seq(Operations),
           SansCondition(p), SansCondition(q),
           ChuteSuivie(q), Contient(q, Pin("electrolyse", 0))
    PROVE  Sure(p \o q) /\ SansCondition(p \o q)
           /\ Contient(p \o q, Pin("electrolyse", 0))
<1>1. PICK k \in DOMAIN q : q[k] = Pin("electrolyse", 0)
  BY DEF Contient
<1>2. /\ k + Len(p) \in DOMAIN (p \o q)
      /\ (p \o q)[k + Len(p)] = Pin("electrolyse", 0)
      /\ \A i \in DOMAIN p : k + Len(p) > i
  <2>1. k \in 1..Len(q) /\ Len(p) \in Nat /\ DOMAIN p = 1..Len(p)
    OBVIOUS
  <2> QED
    BY <1>1, <2>1, ElementsConcatenation
<1>3. SansCondition(p \o q)
  BY ElementsConcatenation DEF SansCondition
<1>4. ChuteSuivie(p \o q)
  <2> SUFFICES ASSUME NEW i \in DOMAIN (p \o q), (p \o q)[i] = Pin("pompe", 0)
               PROVE  \E j \in DOMAIN (p \o q) :
                         j > i /\ (p \o q)[j] = Pin("electrolyse", 0)
    BY DEF ChuteSuivie
  <2>1. CASE i \in DOMAIN p
    BY <1>2, <2>1
  <2>2. CASE i - Len(p) \in DOMAIN q /\ i = (i - Len(p)) + Len(p)
    <3>1. q[i - Len(p)] = Pin("pompe", 0)
      BY <2>2, ElementsConcatenation
    <3>2. PICK j \in DOMAIN q : j > i - Len(p) /\ q[j] = Pin("electrolyse", 0)
      BY <2>2, <3>1 DEF ChuteSuivie
    <3>3. /\ j + Len(p) \in DOMAIN (p \o q)
          /\ (p \o q)[j + Len(p)] = Pin("electrolyse", 0)
      BY <3>2, ElementsConcatenation
    <3>4. i \in Int /\ j \in Int /\ Len(p) \in Int
      OBVIOUS
    <3>5. j + Len(p) > i
      BY <3>2, <3>4
    <3> QED
      BY <3>3, <3>5
  <2> QED
    BY <2>1, <2>2, ElementsConcatenation
<1>5. Contient(p \o q, Pin("electrolyse", 0))
  BY <1>2 DEF Contient
<1> QED
  BY <1>3, <1>4, <1>5 DEF Sure, ConditionSansChute, SansCondition

(* A program with no fall of either line.                                  *)
SansChute(s) == ~Contient(s, Pin("pompe", 0)) /\ ~Contient(s, Pin("electrolyse", 0))

LEMMA SureSansChute ==
    ASSUME NEW s, SansChute(s)
    PROVE  Sure(s)
BY DEF SansChute, Sure, ChuteSuivie, ConditionSansChute, Contient

LEMMA SansChuteConcatenation ==
    ASSUME NEW p \in Seq(Operations), NEW q \in Seq(Operations),
           SansChute(p), SansChute(q)
    PROVE  SansChute(p \o q)
BY ElementsConcatenation DEF SansChute, Contient

(* What follows a safe program may be anything without conditions and falls.*)
LEMMA SureAvant ==
    ASSUME NEW p \in Seq(Operations), NEW q \in Seq(Operations),
           SansCondition(p), SansCondition(q), ChuteSuivie(p), SansChute(q)
    PROVE  Sure(p \o q)
<1>1. SansCondition(p \o q)
  BY ElementsConcatenation DEF SansCondition
<1>2. ChuteSuivie(p \o q)
  <2> SUFFICES ASSUME NEW i \in DOMAIN (p \o q), (p \o q)[i] = Pin("pompe", 0)
               PROVE  \E j \in DOMAIN (p \o q) :
                         j > i /\ (p \o q)[j] = Pin("electrolyse", 0)
    BY DEF ChuteSuivie
  <2>1. i \in DOMAIN p /\ p[i] = Pin("pompe", 0)
    BY ElementsConcatenation DEF SansChute, Contient
  <2>2. PICK j \in DOMAIN p : j > i /\ p[j] = Pin("electrolyse", 0)
    BY <2>1 DEF ChuteSuivie
  <2> QED
    BY <2>2, ElementsConcatenation
<1> QED
  BY <1>1, <1>2 DEF Sure, ConditionSansChute, SansCondition

LEMMA ProgrammesSurs ==
    /\ \A p \in Programmes : Sure(p)
    /\ Sure(demarrage)
<1> USE DEF Etat, Pin, Flag, GraphiteCnx, TestPompe, Garde, Ouvrir, Servir, Exit
<1>1. /\ SansCondition(pompeOff) /\ SansCondition(electrolyseOff)
      /\ Sure(electrolyseOff) /\ Contient(electrolyseOff, Pin("electrolyse", 0))
  BY DEF pompeOff, electrolyseOff, SansCondition, Sure, ChuteSuivie,
         ConditionSansChute, Contient
<1>2. /\ SansChute(pompeOn) /\ SansChute(electrolyseOn) /\ SansChute(httpPompeOn)
      /\ SansChute(<<TestPompe>>) /\ SansChute(lampe(0)) /\ SansChute(lampe(1))
  BY DEF pompeOn, electrolyseOn, httpPompeOn, lampe, SansChute, Contient
<1>3. pompeOff \in Seq(Operations) /\ electrolyseOff \in Seq(Operations)
      /\ pompeOn \in Seq(Operations) /\ electrolyseOn \in Seq(Operations)
      /\ <<TestPompe>> \in Seq(Operations)
      /\ <<Pin("lampe", 0), Exit>> \in Seq(Operations)
      /\ finPlage \in Seq(Operations)
  <2>1. pompeOff \in Seq(Operations)
    BY AccesTypes DEF pompeOff, Appareils
  <2>2. <<TestPompe>> \in Seq(Operations)
    BY AccesTypes
  <2>3. <<Pin("lampe", 0), Exit>> \in Seq(Operations)
    BY AccesTypes DEF Appareils
  <2> QED
    BY <2>1, <2>2, <2>3, ProgrammesTypes
<1>4. /\ Sure(pompeOff \o electrolyseOff) /\ Sure(finPlage)
      /\ SansCondition(finPlage) /\ Contient(finPlage, Pin("electrolyse", 0))
  BY <1>1, <1>3, SureSuivieDe DEF finPlage, Sure
<1>5. Sure(httpElectrolyseOff) /\ Sure(httpPompeOff) /\ Sure(demarrage)
  BY DEF httpElectrolyseOff, httpPompeOff, demarrage,
         Sure, ChuteSuivie, ConditionSansChute, Contient
<1>6. /\ SansChute(debutPlage) /\ SansChute(<<TestPompe>> \o electrolyseOn)
  BY <1>2, <1>3, SansChuteConcatenation DEF debutPlage
<1>7. Sure(quitter)
  <2>1. /\ SansCondition(<<Pin("lampe", 0), Exit>>)
        /\ SansChute(<<Pin("lampe", 0), Exit>>)
    BY DEF SansCondition, SansChute, Contient
  <2> QED
    BY <1>3, <1>4, <2>1, SureAvant DEF quitter, Sure
<1> QED
  BY <1>1, <1>2, <1>4, <1>5, <1>6, <1>7, SureSansChute DEF Programmes

-----------------------------------------------------------------------------
(* The invariant is inductive.                                             *)

LEMMA IInvInit == Init => IInv
BY TypeInit, SureVide DEF Init, IInv

LEMMA SureMort == Mort => \A t \in Acteurs : Sure(reste'[t])
BY SureVide DEF Mort

LEMMA SurePas ==
    ASSUME IInv, NEW t \in Acteurs, Pas(t)
    PROVE  \A u \in Acteurs : Sure(reste'[u])
<1>1. CASE (PasPin(t) /\ phase = "ferme") \/ PasExit(t)
  BY <1>1, SureMort DEF PasPin, PasExit
<1>2. CASE ~(PasPin(t) /\ phase = "ferme") /\ ~PasExit(t)
  <2>1. Suite(t) \/ Abandon(t)
    BY <1>2 DEF Pas, PasEtat, PasPin, PasFlag, PasGraphite, PasTest, PasGarde,
           PasOuvrir, PasServir
  <2>2. reste[t] # <<>> /\ reste[t] \in Seq(Operations) /\ Sure(reste[t])
    BY DEF IInv, TypeOK, Pas, PasEtat, PasPin, PasFlag, PasGraphite, PasTest,
           PasGarde, PasOuvrir, PasServir, PasExit, EnTete
  <2>3. Sure(Tail(reste[t]))
    BY <2>2, QueueSure
  <2> QED
    BY <2>1, <2>3, SureVide DEF IInv, TypeOK, Suite, Abandon
<1> QED
  BY <1>1, <1>2

LEMMA IInvNext == IInv /\ [Next]_vars => IInv'
<1> SUFFICES ASSUME IInv, [Next]_vars
             PROVE  IInv'
  OBVIOUS
<1>1. TypeOK'
  BY TypeNext DEF IInv
<1>2. \A t \in Acteurs : Sure(reste'[t])
  <2>1. CASE Lancement
    BY <2>1, ProgrammesSurs DEF Lancement, IInv, TypeOK
  <2>2. CASE Panne
    BY <2>2, SureMort DEF Panne
  <2>3. ASSUME NEW t \in Acteurs, NEW p \in Programmes, Lance(t, p)
        PROVE  \A u \in Acteurs : Sure(reste'[u])
    BY <2>3, ProgrammesSurs DEF Lance, IInv, TypeOK
  <2>4. ASSUME NEW t \in Acteurs, Pas(t)
        PROVE  \A u \in Acteurs : Sure(reste'[u])
    BY <2>4, SurePas
  <2>5. CASE Sonde \/ PanneGraphite \/ RetourGraphite
    BY <2>5 DEF Sonde, PanneGraphite, RetourGraphite, IInv
  <2>6. CASE UNCHANGED vars
    BY <2>6 DEF vars, IInv
  <2> QED
    BY <2>1, <2>2, <2>3, <2>4, <2>5, <2>6, Etapes
<1> QED
  BY <1>1, <1>2 DEF IInv

(* The invariant does not depend on fairness: it is stated without it, for *)
(* the modules that refine this one under a fairness of their own.         *)
THEOREM SuiteSure == Init /\ [][Next]_vars => []IInv
BY IInvInit, IInvNext, PTL

-----------------------------------------------------------------------------
(* One step, and the exposure of the cell.                                 *)

(* A fall of the cell's line that some goroutine has still to make is still*)
(* to be made after a step of the same process, unless it is that step.    *)
LEMMA ChuteReste ==
    ASSUME IInv, NEW t \in Acteurs, Pas(t), phase' # "arret",
           Head(reste[t]) # Pin("electrolyse", 0),
           NEW u \in Acteurs, Attend(u, Pin("electrolyse", 0))
    PROVE  Attend(u, Pin("electrolyse", 0))'
<1>1. reste[t] # <<>> /\ reste[t] \in Seq(Operations) /\ Sure(reste[t])
  BY DEF IInv, TypeOK, Pas, PasEtat, PasPin, PasFlag, PasGraphite, PasTest,
         PasGarde, PasOuvrir, PasServir, PasExit, EnTete
<1>2. \/ Suite(t)
      \/ Abandon(t) /\ Head(reste[t]).op \in {"test", "garde"}
  <2>1. CASE PasTest(t)
    BY <2>1 DEF PasTest, EnTete
  <2>2. CASE PasGarde(t)
    BY <2>2 DEF PasGarde, EnTete
  <2>3. CASE ~PasTest(t) /\ ~PasGarde(t)
    BY <2>3 DEF Pas, PasEtat, PasPin, PasFlag, PasGraphite, PasOuvrir,
           PasServir, PasExit, Mort
  <2> QED
    BY <2>1, <2>2, <2>3
<1>3. CASE u # t
  BY <1>2, <1>3 DEF Suite, Abandon, Attend, IInv, TypeOK
<1>4. CASE u = t
  <2>1. Contient(reste[t], Pin("electrolyse", 0))
    BY <1>4 DEF Attend, Contient
  <2>2. Suite(t)
    BY <1>1, <1>2, <2>1, TeteCondition
  <2>3. Contient(Tail(reste[t]), Pin("electrolyse", 0))
    BY <1>1, <2>1, QueueContient
  <2>4. reste'[t] = Tail(reste[t])
    BY <2>2 DEF Suite, IInv, TypeOK
  <2> QED
    BY <1>4, <2>3, <2>4 DEF Attend, Contient
<1> QED
  BY <1>3, <1>4

(* Starting a command takes no pending access away.                        *)
LEMMA LanceGarde ==
    ASSUME IInv, NEW t \in Acteurs, NEW p, Lance(t, p),
           NEW u \in Acteurs, NEW o, Attend(u, o)
    PROVE  Attend(u, o)'
<1>1. u # t
  BY DEF Lance, Attend
<1> QED
  BY <1>1 DEF Lance, Attend, IInv, TypeOK

Exposition ==
    ~Expose /\ Expose' =>
        \/ phase' = "arret"
        \/ \E t \in Acteurs : /\ reste[t] # <<>>
                              /\ Head(reste[t]) = Pin("electrolyse", 1)

LEMMA ExpositionPas ==
    ASSUME IInv, NEW t \in Acteurs, Pas(t)
    PROVE  Exposition
<1> SUFFICES ASSUME ~Expose, Expose', phase' # "arret",
                    Head(reste[t]) # Pin("electrolyse", 1)
             PROVE  FALSE
  <2>1. reste[t] # <<>>
    BY DEF Pas, PasEtat, PasPin, PasFlag, PasGraphite, PasTest, PasGarde,
           PasOuvrir, PasServir, PasExit, EnTete
  <2> QED
    BY <2>1 DEF Exposition
<1>1. reste[t] # <<>> /\ reste[t] \in Seq(Operations) /\ Sure(reste[t])
  BY DEF IInv, TypeOK, Pas, PasEtat, PasPin, PasFlag, PasGraphite, PasTest,
         PasGarde, PasOuvrir, PasServir, PasExit, EnTete
<1>2. Head(reste[t]) \in Operations
  BY <1>1, QueueTypee
<1>3. CASE PasPin(t)
  <2>1. /\ pin' = [pin EXCEPT ![Head(reste[t]).sur] = Head(reste[t]).val]
        /\ reste' = [reste EXCEPT ![t] = Tail(@)]
        /\ Head(reste[t]).op = "pin"
    BY <1>3 DEF PasPin, Mort, Suite, EnTete
  <2>2. CASE Head(reste[t]).sur = "electrolyse"
    <3>1. Head(reste[t]).val = 0
      BY <1>2, <2>1, <2>2 DEF Operations, Pin
    <3> QED
      BY <2>1, <2>2, <3>1 DEF Expose, SansCirculation, IInv, TypeOK, Appareils
  <2>3. CASE Head(reste[t]).sur = "pompe"
    <3>1. Head(reste[t]).val = 0
      BY <1>2, <2>1, <2>3 DEF Expose, SansCirculation, IInv, TypeOK, Appareils,
                             Operations
    <3>2. Head(reste[t]) = Pin("pompe", 0)
      BY <1>2, <2>1, <2>3, <3>1 DEF Operations, Pin
    <3>3. Contient(Tail(reste[t]), Pin("electrolyse", 0))
      BY <1>1, <3>2, TeteChute
    <3>4. Attend(t, Pin("electrolyse", 0))'
      BY <2>1, <3>3 DEF Attend, Contient, IInv, TypeOK
    <3> QED
      BY <3>4 DEF Expose
  <2>4. CASE Head(reste[t]).sur = "lampe"
    <3>1. SansCirculation
      BY <2>1, <2>4 DEF Expose, SansCirculation, IInv, TypeOK, Appareils
    <3>2. PICK u \in Acteurs : Attend(u, Pin("electrolyse", 0))
      BY <3>1 DEF Expose
    <3>3. Head(reste[t]) # Pin("electrolyse", 0)
      BY <2>4 DEF Pin
    <3>4. Attend(u, Pin("electrolyse", 0))'
      BY <3>2, <3>3, ChuteReste
    <3> QED
      BY <3>4 DEF Expose
  <2> QED
    BY <1>2, <2>2, <2>3, <2>4 DEF Operations, Appareils
<1>4. CASE ~PasPin(t)
  <2>1. pin' = pin /\ Head(reste[t]).op # "pin"
    BY <1>4 DEF Pas, PasEtat, PasFlag, PasGraphite, PasTest, PasGarde,
           PasOuvrir, PasServir, PasExit, Mort, EnTete
  <2>2. PICK u \in Acteurs : Attend(u, Pin("electrolyse", 0))
    BY <2>1 DEF Expose, SansCirculation
  <2>3. Head(reste[t]) # Pin("electrolyse", 0)
    BY <2>1 DEF Pin
  <2>4. Attend(u, Pin("electrolyse", 0))'
    BY <2>2, <2>3, ChuteReste
  <2> QED
    BY <2>4 DEF Expose
<1> QED
  BY <1>3, <1>4

LEMMA ExpositionNext == IInv /\ [Next]_vars => Exposition
<1> SUFFICES ASSUME IInv, [Next]_vars
             PROVE  Exposition
  OBVIOUS
<1>1. CASE Lancement
  <2>1. Attend(Boucle, Pin("electrolyse", 0))'
    BY <1>1 DEF Lancement, IInv, TypeOK, Attend, demarrage, Acteurs
  <2> QED
    BY <2>1 DEF Exposition, Expose, Acteurs
<1>2. CASE Panne
  BY <1>2 DEF Panne, Mort, Exposition
<1>3. ASSUME NEW t \in Acteurs, NEW p \in Programmes, Lance(t, p)
      PROVE  Exposition
  <2>1. pin' = pin
    BY <1>3 DEF Lance
  <2> QED
    BY <1>3, <2>1, LanceGarde DEF Exposition, Expose, SansCirculation
<1>4. ASSUME NEW t \in Acteurs, Pas(t)
      PROVE  Exposition
  BY <1>4, ExpositionPas
<1>5. CASE Sonde \/ PanneGraphite \/ RetourGraphite \/ UNCHANGED vars
  BY <1>5 DEF Sonde, PanneGraphite, RetourGraphite, vars, Exposition, Expose,
              SansCirculation, Attend
<1> QED
  BY <1>1, <1>2, <1>3, <1>4, <1>5, Etapes

(* The same without fairness.                                              *)
THEOREM ExplicationSansEquite == Init /\ [][Next]_vars => ExpositionExpliquee
<1>1. IInv /\ [Next]_vars => [Exposition]_vars
  BY ExpositionNext
<1> QED
  BY SuiteSure, <1>1, PTL DEF ExpositionExpliquee, Exposition

(* For every number of goroutines and every interleaving: the cell is newly*)
(* left on without the pump, and without anybody about to switch it off,   *)
(* only by the end of the process or by a goroutine that raises the cell's *)
(* line.                                                                   *)
THEOREM Explication == Spec => ExpositionExpliquee
BY ExplicationSansEquite, PTL DEF Spec

-----------------------------------------------------------------------------
(***************************************************************************)
(* While commands do not overlap, through boots, crashes and outages: lines*)
(* and state variables agree at rest, the cell is never left without the   *)
(* pump, and the counter's flag moves with it.                             *)
(***************************************************************************)

-----------------------------------------------------------------------------
(* The shape of a pending sequence.                                        *)

EstPin(o, a, v) == o.op = "pin" /\ o.sur = a /\ o.val = v

EstFlag(o, v) == o.op = "flag" /\ o.sur = "pompe" /\ o.val = v

EstCondition(o) == o.op \in {"test", "garde"}

(* It ends with the process.                                               *)
Finit(s) == \E i \in DOMAIN s : s[i].op = "exit"

(* A state variable and its line are written together, the line second;    *)
(* only the sequence of Q lowers a line alone.                             *)
Couples(s) ==
    /\ \A i \in DOMAIN s : s[i].op = "etat" =>
          i + 1 \in DOMAIN s /\ EstPin(s[i + 1], s[i].sur, s[i].val)
    /\ \A i \in DOMAIN s : i > 1 /\ s[i].op = "pin" =>
          \/ Finit(s)
          \/ s[i - 1].op = "etat" /\ s[i - 1].sur = s[i].sur /\ s[i - 1].val = s[i].val

(* Conditions come before what depends on them and after all the rest.     *)
Conditions(s) ==
    /\ \A i \in DOMAIN s : s[i].op \notin {"ouvrir", "servir"}
    /\ Finit(s) => \A i \in DOMAIN s : ~EstCondition(s[i])
    /\ \A i, j \in DOMAIN s : EstPin(s[i], "electrolyse", 1) =>
          ~EstPin(s[j], "pompe", 0) /\ (s[j].op = "garde" => j < i)
    /\ \A i, j \in DOMAIN s :
          EstCondition(s[i]) /\ (s[j].op = "flag" \/ EstPin(s[j], "pompe", s[j].val)) => j < i

(* The flag of the counter is written right after the pump's line.         *)
Drapeaux(s) ==
    \A i \in DOMAIN s : i > 1 /\ s[i].op = "flag" => EstPin(s[i - 1], "pompe", s[i].val)

Forme(s) == Couples(s) /\ Conditions(s) /\ Drapeaux(s)

(* Every write of the pump's line is followed by one of the flag.          *)
PompeSuivie(s) ==
    \A i \in DOMAIN s : EstPin(s[i], "pompe", s[i].val) =>
        \E j \in DOMAIN s : j > i /\ EstFlag(s[j], s[i].val)

(* How a command starts.                                                   *)
Depart(s) ==
    /\ s[1].op \notin {"pin", "flag"}
    /\ \A i \in DOMAIN s : EstPin(s[i], "electrolyse", 1) =>
          \E j \in DOMAIN s : s[j].op = "garde"

(* What is left of the boot: lines to lower, and Servir at its end.        *)
Amorce(s) ==
    /\ s # <<>>
    /\ \A i \in DOMAIN s : s[i].op = "servir" <=> i = Len(s)
    /\ \A i \in DOMAIN s :
          s[i].op \in {"ouvrir", "servir"} \/ EstPin(s[i], s[i].sur, 0)

-----------------------------------------------------------------------------
(* The invariant.                                                          *)

Formes ==
    /\ phase \in {"ferme", "gpio"} => Amorce(reste[Boucle])
    /\ phase \notin {"ferme", "gpio"} => Forme(reste[Boucle]) /\ PompeSuivie(reste[Boucle])
    /\ \A t \in Acteurs \ {Boucle} : Forme(reste[t])
    /\ \A t \in Acteurs \ {Boucle} : t \notin Requetes => PompeSuivie(reste[t])

(* The boot has still to lower every line that is up.                      *)
AuDemarrage ==
    /\ \A t \in Acteurs \ {Boucle} : reste[t] = <<>>
    /\ msFlag = 0
    /\ \A a \in Appareils :
          /\ etat[a] = 0
          /\ pin[a] = 0 \/ \E i \in DOMAIN reste[Boucle] : EstPin(reste[Boucle][i], a, 0)

(* s is all that is left of the only command in progress.                  *)
EnMarche(s) ==
    /\ \A a \in Appareils :
          \/ pin[a] = etat[a]
          \/ s # <<>> /\ EstPin(s[1], a, etat[a])
          \/ Finit(s)
    /\ s # <<>> /\ s[1].op = "pin" => Finit(s) \/ s[1].val = etat[s[1].sur]
    /\ SansCirculation => \E i \in DOMAIN s : EstPin(s[i], "electrolyse", 0)
    /\ \A i \in DOMAIN s :
          EstPin(s[i], "electrolyse", 1) /\ (\A j \in DOMAIN s : s[j].op # "garde")
              => pin["pompe"] = 1
    /\ s # <<>> /\ s[1].op = "flag" => s[1].val = pin["pompe"]

Seul ==
    ~croise =>
        /\ phase \in {"ferme", "gpio"} => AuDemarrage
        /\ phase = "marche" => \E t \in Acteurs :
              /\ \A u \in Acteurs \ {t} : reste[u] = <<>>
              /\ EnMarche(reste[t])

JInv == IInv /\ Formes /\ Seul

-----------------------------------------------------------------------------
(* The programs have that shape.                                           *)

LEMMA Table ==
    /\ \A a \in Appareils, v \in {0, 1} :
          /\ Etat(a, v).op = "etat" /\ Etat(a, v).sur = a /\ Etat(a, v).val = v
          /\ Pin(a, v).op = "pin" /\ Pin(a, v).sur = a /\ Pin(a, v).val = v
    /\ \A v \in {0, 1} : Flag(v).op = "flag" /\ Flag(v).sur = "pompe" /\ Flag(v).val = v
    /\ GraphiteCnx.op = "graphite" /\ TestPompe.op = "test" /\ Garde.op = "garde"
    /\ Ouvrir.op = "ouvrir" /\ Servir.op = "servir" /\ Exit.op = "exit"
    /\ {"pompe", "electrolyse", "lampe"} = Appareils
BY DEF Etat, Pin, Flag, GraphiteCnx, TestPompe, Garde, Ouvrir, Servir, Exit, Appareils

LEMMA FormeDebutPlage ==
    Forme(debutPlage) /\ PompeSuivie(debutPlage) /\ Depart(debutPlage)
<1> DEFINE s == debutPlage
<1>1. /\ DOMAIN s = 1..8
      /\ s[1] = Etat("pompe", 1) /\ s[2] = Pin("pompe", 1) /\ s[3] = Flag(1)
      /\ s[4] = GraphiteCnx /\ s[5] = Garde /\ s[6] = Etat("electrolyse", 1)
      /\ s[7] = Pin("electrolyse", 1) /\ s[8] = GraphiteCnx
  BY DEF debutPlage, pompeOn, electrolyseOn
<1> HIDE DEF s
<1>2. /\ s[1].op = "etat" /\ s[1].sur = "pompe" /\ s[1].val = 1
      /\ s[2].op = "pin" /\ s[2].sur = "pompe" /\ s[2].val = 1
      /\ s[3].op = "flag" /\ s[3].sur = "pompe" /\ s[3].val = 1
      /\ s[4].op = "graphite"
      /\ s[5].op = "garde"
      /\ s[6].op = "etat" /\ s[6].sur = "electrolyse" /\ s[6].val = 1
      /\ s[7].op = "pin" /\ s[7].sur = "electrolyse" /\ s[7].val = 1
      /\ s[8].op = "graphite"
  BY <1>1, Table DEF Appareils
<1>3. Couples(s)
  BY <1>1, <1>2 DEF Couples, EstPin
<1>4. Drapeaux(s) /\ PompeSuivie(s) /\ Depart(s)
  BY <1>1, <1>2 DEF Drapeaux, PompeSuivie, Depart, EstPin, EstFlag
<1>5. Conditions(s)
  <2>1. \A i \in 1..8 : s[i].op \notin {"ouvrir", "servir", "exit"}
    BY <1>2
  <2>2. \A i \in 1..8 : /\ EstPin(s[i], "electrolyse", 1) => i = 7
                        /\ ~EstPin(s[i], "pompe", 0)
    BY <1>2 DEF EstPin
  <2>3. \A i \in 1..8 : /\ EstCondition(s[i]) => i = 5
                        /\ s[i].op = "garde" => i = 5
    BY <1>2 DEF EstCondition
  <2>4. \A i \in 1..8 : s[i].op = "flag" \/ EstPin(s[i], "pompe", s[i].val) => i = 2 \/ i = 3
    BY <1>2 DEF EstPin
  <2>5. ASSUME NEW i \in 1..8, NEW j \in 1..8, EstPin(s[i], "electrolyse", 1), s[j].op = "garde"
        PROVE  j < i
    <3>1. i = 7 /\ j = 5
      BY <2>2, <2>3, <2>5
    <3> QED
      BY <3>1
  <2>6. ASSUME NEW i \in 1..8, NEW j \in 1..8,
               EstCondition(s[i]), s[j].op = "flag" \/ EstPin(s[j], "pompe", s[j].val)
        PROVE  j < i
    <3>1. i = 5 /\ (j = 2 \/ j = 3)
      BY <2>3, <2>4, <2>6
    <3> QED
      BY <3>1
  <2>7. ~Finit(s) /\ \A i \in 1..8 : s[i].op \notin {"ouvrir", "servir"}
    BY <1>1, <2>1 DEF Finit
  <2> QED
    BY <1>1, <2>2, <2>5, <2>6, <2>7 DEF Conditions
<1>6. Forme(s) /\ PompeSuivie(s) /\ Depart(s)
  BY <1>3, <1>4, <1>5 DEF Forme
<1> QED
  BY <1>6 DEF s

LEMMA FormeFinPlage ==
    Forme(finPlage) /\ PompeSuivie(finPlage) /\ Depart(finPlage)
<1> DEFINE s == finPlage
<1>1. /\ DOMAIN s = 1..7
      /\ s[1] = Etat("pompe", 0) /\ s[2] = Pin("pompe", 0) /\ s[3] = Flag(0)
      /\ s[4] = GraphiteCnx /\ s[5] = Etat("electrolyse", 0)
      /\ s[6] = Pin("electrolyse", 0) /\ s[7] = GraphiteCnx
  BY DEF finPlage, pompeOff, electrolyseOff
<1> HIDE DEF s
<1>2. /\ s[1].op = "etat" /\ s[1].sur = "pompe" /\ s[1].val = 0
      /\ s[2].op = "pin" /\ s[2].sur = "pompe" /\ s[2].val = 0
      /\ s[3].op = "flag" /\ s[3].sur = "pompe" /\ s[3].val = 0
      /\ s[4].op = "graphite"
      /\ s[5].op = "etat" /\ s[5].sur = "electrolyse" /\ s[5].val = 0
      /\ s[6].op = "pin" /\ s[6].sur = "electrolyse" /\ s[6].val = 0
      /\ s[7].op = "graphite"
  BY <1>1, Table DEF Appareils
<1>3. Couples(s)
  BY <1>1, <1>2 DEF Couples, EstPin
<1>4. Drapeaux(s) /\ PompeSuivie(s) /\ Depart(s)
  BY <1>1, <1>2 DEF Drapeaux, PompeSuivie, Depart, EstPin, EstFlag
<1>5. Conditions(s)
  <2>1. \A i \in 1..7 : /\ s[i].op \notin {"ouvrir", "servir"}
                        /\ ~EstCondition(s[i])
                        /\ ~EstPin(s[i], "electrolyse", 1)
    BY <1>2 DEF EstPin, EstCondition
  <2> QED
    BY <1>1, <2>1 DEF Conditions
<1>6. Forme(s) /\ PompeSuivie(s) /\ Depart(s)
  BY <1>3, <1>4, <1>5 DEF Forme
<1> QED
  BY <1>6 DEF s

LEMMA FormePompeOn ==
    Forme(pompeOn) /\ PompeSuivie(pompeOn) /\ Depart(pompeOn)
<1> DEFINE s == pompeOn
<1>1. /\ DOMAIN s = 1..4
      /\ s[1] = Etat("pompe", 1) /\ s[2] = Pin("pompe", 1) /\ s[3] = Flag(1)
      /\ s[4] = GraphiteCnx
  BY DEF pompeOn
<1> HIDE DEF s
<1>2. /\ s[1].op = "etat" /\ s[1].sur = "pompe" /\ s[1].val = 1
      /\ s[2].op = "pin" /\ s[2].sur = "pompe" /\ s[2].val = 1
      /\ s[3].op = "flag" /\ s[3].sur = "pompe" /\ s[3].val = 1
      /\ s[4].op = "graphite"
  BY <1>1, Table DEF Appareils
<1>3. Couples(s)
  BY <1>1, <1>2 DEF Couples, EstPin
<1>4. Drapeaux(s) /\ PompeSuivie(s) /\ Depart(s)
  BY <1>1, <1>2 DEF Drapeaux, PompeSuivie, Depart, EstPin, EstFlag
<1>5. Conditions(s)
  BY <1>1, <1>2 DEF Conditions, EstPin, EstCondition, Finit
<1>6. Forme(s) /\ PompeSuivie(s) /\ Depart(s)
  BY <1>3, <1>4, <1>5 DEF Forme
<1> QED
  BY <1>6 DEF s

LEMMA FormeTestPuisOn ==
    Forme(<<TestPompe>> \o electrolyseOn) /\ PompeSuivie(<<TestPompe>> \o electrolyseOn) /\ Depart(<<TestPompe>> \o electrolyseOn)
<1> DEFINE s == <<TestPompe>> \o electrolyseOn
<1>1. /\ DOMAIN s = 1..5
      /\ s[1] = TestPompe /\ s[2] = Garde /\ s[3] = Etat("electrolyse", 1)
      /\ s[4] = Pin("electrolyse", 1) /\ s[5] = GraphiteCnx
  BY DEF electrolyseOn
<1> HIDE DEF s
<1>2. /\ s[1].op = "test"
      /\ s[2].op = "garde"
      /\ s[3].op = "etat" /\ s[3].sur = "electrolyse" /\ s[3].val = 1
      /\ s[4].op = "pin" /\ s[4].sur = "electrolyse" /\ s[4].val = 1
      /\ s[5].op = "graphite"
  BY <1>1, Table DEF Appareils
<1>3. Couples(s)
  BY <1>1, <1>2 DEF Couples, EstPin
<1>4. Drapeaux(s) /\ PompeSuivie(s) /\ Depart(s)
  BY <1>1, <1>2 DEF Drapeaux, PompeSuivie, Depart, EstPin, EstFlag
<1>5. Conditions(s)
  BY <1>1, <1>2 DEF Conditions, EstPin, EstCondition, Finit
<1>6. Forme(s) /\ PompeSuivie(s) /\ Depart(s)
  BY <1>3, <1>4, <1>5 DEF Forme
<1> QED
  BY <1>6 DEF s

LEMMA FormeElectrolyseOn ==
    Forme(electrolyseOn) /\ PompeSuivie(electrolyseOn) /\ Depart(electrolyseOn)
<1> DEFINE s == electrolyseOn
<1>1. /\ DOMAIN s = 1..4
      /\ s[1] = Garde /\ s[2] = Etat("electrolyse", 1)
      /\ s[3] = Pin("electrolyse", 1) /\ s[4] = GraphiteCnx
  BY DEF electrolyseOn
<1> HIDE DEF s
<1>2. /\ s[1].op = "garde"
      /\ s[2].op = "etat" /\ s[2].sur = "electrolyse" /\ s[2].val = 1
      /\ s[3].op = "pin" /\ s[3].sur = "electrolyse" /\ s[3].val = 1
      /\ s[4].op = "graphite"
  BY <1>1, Table DEF Appareils
<1>3. Couples(s)
  BY <1>1, <1>2 DEF Couples, EstPin
<1>4. Drapeaux(s) /\ PompeSuivie(s) /\ Depart(s)
  BY <1>1, <1>2 DEF Drapeaux, PompeSuivie, Depart, EstPin, EstFlag
<1>5. Conditions(s)
  BY <1>1, <1>2 DEF Conditions, EstPin, EstCondition, Finit
<1>6. Forme(s) /\ PompeSuivie(s) /\ Depart(s)
  BY <1>3, <1>4, <1>5 DEF Forme
<1> QED
  BY <1>6 DEF s

LEMMA FormeElectrolyseOff ==
    Forme(electrolyseOff) /\ PompeSuivie(electrolyseOff) /\ Depart(electrolyseOff)
<1> DEFINE s == electrolyseOff
<1>1. /\ DOMAIN s = 1..3
      /\ s[1] = Etat("electrolyse", 0) /\ s[2] = Pin("electrolyse", 0)
      /\ s[3] = GraphiteCnx
  BY DEF electrolyseOff
<1> HIDE DEF s
<1>2. /\ s[1].op = "etat" /\ s[1].sur = "electrolyse" /\ s[1].val = 0
      /\ s[2].op = "pin" /\ s[2].sur = "electrolyse" /\ s[2].val = 0
      /\ s[3].op = "graphite"
  BY <1>1, Table DEF Appareils
<1>3. Couples(s)
  BY <1>1, <1>2 DEF Couples, EstPin
<1>4. Drapeaux(s) /\ PompeSuivie(s) /\ Depart(s)
  BY <1>1, <1>2 DEF Drapeaux, PompeSuivie, Depart, EstPin, EstFlag
<1>5. Conditions(s)
  BY <1>1, <1>2 DEF Conditions, EstPin, EstCondition, Finit
<1>6. Forme(s) /\ PompeSuivie(s) /\ Depart(s)
  BY <1>3, <1>4, <1>5 DEF Forme
<1> QED
  BY <1>6 DEF s

LEMMA FormeQuitter ==
    Forme(quitter) /\ PompeSuivie(quitter) /\ Depart(quitter)
<1> DEFINE s == quitter
<1>1. /\ DOMAIN s = 1..9
      /\ s[1] = Etat("pompe", 0) /\ s[2] = Pin("pompe", 0) /\ s[3] = Flag(0)
      /\ s[4] = GraphiteCnx /\ s[5] = Etat("electrolyse", 0)
      /\ s[6] = Pin("electrolyse", 0) /\ s[7] = GraphiteCnx
      /\ s[8] = Pin("lampe", 0) /\ s[9] = Exit
  BY DEF quitter, finPlage, pompeOff, electrolyseOff
<1> HIDE DEF s
<1>2. /\ s[1].op = "etat" /\ s[1].sur = "pompe" /\ s[1].val = 0
      /\ s[2].op = "pin" /\ s[2].sur = "pompe" /\ s[2].val = 0
      /\ s[3].op = "flag" /\ s[3].sur = "pompe" /\ s[3].val = 0
      /\ s[4].op = "graphite"
      /\ s[5].op = "etat" /\ s[5].sur = "electrolyse" /\ s[5].val = 0
      /\ s[6].op = "pin" /\ s[6].sur = "electrolyse" /\ s[6].val = 0
      /\ s[7].op = "graphite"
      /\ s[8].op = "pin" /\ s[8].sur = "lampe" /\ s[8].val = 0
      /\ s[9].op = "exit"
  BY <1>1, Table DEF Appareils
<1>3. Couples(s)
  <2>1. \A i \in 1..9 : s[i].op = "etat" => i = 1 \/ i = 5
    BY <1>2
  <2>2. Finit(s)
    BY <1>1, <1>2 DEF Finit
  <2>3. \A i \in 1..9 : s[i].op = "etat" =>
           i + 1 \in 1..9 /\ EstPin(s[i + 1], s[i].sur, s[i].val)
    BY <1>2, <2>1 DEF EstPin
  <2> QED
    BY <1>1, <2>2, <2>3 DEF Couples
<1>4. Drapeaux(s) /\ PompeSuivie(s) /\ Depart(s)
  <2>1. \A i \in 1..9 : /\ s[i].op = "flag" => i = 3
                        /\ EstPin(s[i], "pompe", s[i].val) => i = 2
                        /\ ~EstPin(s[i], "electrolyse", 1)
    BY <1>2 DEF EstPin
  <2>2. EstPin(s[2], "pompe", s[3].val) /\ EstFlag(s[3], s[2].val)
    BY <1>2 DEF EstPin, EstFlag
  <2>3. Drapeaux(s)
    <3>1. ASSUME NEW i \in 1..9, s[i].op = "flag"
          PROVE  i - 1 = 2 /\ i = 3
      BY <2>1, <3>1
    <3> QED
      BY <1>1, <2>2, <3>1 DEF Drapeaux
  <2>4. PompeSuivie(s)
    BY <1>1, <2>1, <2>2 DEF PompeSuivie, EstPin, EstFlag
  <2>5. Depart(s)
    BY <1>1, <1>2, <2>1 DEF Depart, EstPin
  <2> QED
    BY <2>3, <2>4, <2>5
<1>5. Conditions(s)
  <2>1. \A i \in 1..9 : /\ s[i].op \notin {"ouvrir", "servir"}
                        /\ ~EstCondition(s[i])
                        /\ ~EstPin(s[i], "electrolyse", 1)
    BY <1>2 DEF EstPin, EstCondition
  <2> QED
    BY <1>1, <2>1 DEF Conditions
<1>6. Forme(s) /\ PompeSuivie(s) /\ Depart(s)
  BY <1>3, <1>4, <1>5 DEF Forme
<1> QED
  BY <1>6 DEF s

LEMMA FormeHttpPompeOn ==
    Forme(httpPompeOn) /\ Depart(httpPompeOn)
<1> DEFINE s == httpPompeOn
<1>1. /\ DOMAIN s = 1..2
      /\ s[1] = Etat("pompe", 1) /\ s[2] = Pin("pompe", 1)
  BY DEF httpPompeOn
<1> HIDE DEF s
<1>2. /\ s[1].op = "etat" /\ s[1].sur = "pompe" /\ s[1].val = 1
      /\ s[2].op = "pin" /\ s[2].sur = "pompe" /\ s[2].val = 1
  BY <1>1, Table DEF Appareils
<1>3. Couples(s)
  BY <1>1, <1>2 DEF Couples, EstPin
<1>4. Drapeaux(s) /\ Depart(s)
  BY <1>1, <1>2 DEF Drapeaux, PompeSuivie, Depart, EstPin, EstFlag
<1>5. Conditions(s)
  BY <1>1, <1>2 DEF Conditions, EstPin, EstCondition, Finit
<1>6. Forme(s) /\ Depart(s)
  BY <1>3, <1>4, <1>5 DEF Forme
<1> QED
  BY <1>6 DEF s

LEMMA FormeHttpPompeOff ==
    Forme(httpPompeOff) /\ Depart(httpPompeOff)
<1> DEFINE s == httpPompeOff
<1>1. /\ DOMAIN s = 1..4
      /\ s[1] = Etat("pompe", 0) /\ s[2] = Pin("pompe", 0)
      /\ s[3] = Etat("electrolyse", 0) /\ s[4] = Pin("electrolyse", 0)
  BY DEF httpPompeOff
<1> HIDE DEF s
<1>2. /\ s[1].op = "etat" /\ s[1].sur = "pompe" /\ s[1].val = 0
      /\ s[2].op = "pin" /\ s[2].sur = "pompe" /\ s[2].val = 0
      /\ s[3].op = "etat" /\ s[3].sur = "electrolyse" /\ s[3].val = 0
      /\ s[4].op = "pin" /\ s[4].sur = "electrolyse" /\ s[4].val = 0
  BY <1>1, Table DEF Appareils
<1>3. Couples(s)
  BY <1>1, <1>2 DEF Couples, EstPin
<1>4. Drapeaux(s) /\ Depart(s)
  BY <1>1, <1>2 DEF Drapeaux, PompeSuivie, Depart, EstPin, EstFlag
<1>5. Conditions(s)
  BY <1>1, <1>2 DEF Conditions, EstPin, EstCondition, Finit
<1>6. Forme(s) /\ Depart(s)
  BY <1>3, <1>4, <1>5 DEF Forme
<1> QED
  BY <1>6 DEF s

LEMMA FormeHttpElectrolyseOff ==
    Forme(httpElectrolyseOff) /\ PompeSuivie(httpElectrolyseOff) /\ Depart(httpElectrolyseOff)
<1> DEFINE s == httpElectrolyseOff
<1>1. /\ DOMAIN s = 1..2
      /\ s[1] = Etat("electrolyse", 0) /\ s[2] = Pin("electrolyse", 0)
  BY DEF httpElectrolyseOff
<1> HIDE DEF s
<1>2. /\ s[1].op = "etat" /\ s[1].sur = "electrolyse" /\ s[1].val = 0
      /\ s[2].op = "pin" /\ s[2].sur = "electrolyse" /\ s[2].val = 0
  BY <1>1, Table DEF Appareils
<1>3. Couples(s)
  BY <1>1, <1>2 DEF Couples, EstPin
<1>4. Drapeaux(s) /\ PompeSuivie(s) /\ Depart(s)
  BY <1>1, <1>2 DEF Drapeaux, PompeSuivie, Depart, EstPin, EstFlag
<1>5. Conditions(s)
  BY <1>1, <1>2 DEF Conditions, EstPin, EstCondition, Finit
<1>6. Forme(s) /\ PompeSuivie(s) /\ Depart(s)
  BY <1>3, <1>4, <1>5 DEF Forme
<1> QED
  BY <1>6 DEF s

LEMMA FormeLampe ==
    ASSUME NEW v \in {0, 1}
    PROVE  Forme(lampe(v)) /\ PompeSuivie(lampe(v)) /\ Depart(lampe(v))
<1> DEFINE s == lampe(v)
<1>1. DOMAIN s = 1..2 /\ s[1] = Etat("lampe", v) /\ s[2] = Pin("lampe", v)
  BY DEF lampe
<1> HIDE DEF s
<1>2. /\ s[1].op = "etat" /\ s[1].sur = "lampe" /\ s[1].val = v
      /\ s[2].op = "pin" /\ s[2].sur = "lampe" /\ s[2].val = v
  BY <1>1, Table DEF Appareils
<1>3. Couples(s)
  BY <1>1, <1>2 DEF Couples, EstPin
<1>4. Drapeaux(s) /\ PompeSuivie(s) /\ Depart(s)
  BY <1>1, <1>2 DEF Drapeaux, PompeSuivie, Depart, EstPin, EstFlag
<1>5. Conditions(s)
  BY <1>1, <1>2 DEF Conditions, EstPin, EstCondition, Finit
<1>6. Forme(s) /\ PompeSuivie(s) /\ Depart(s)
  BY <1>3, <1>4, <1>5 DEF Forme
<1> QED
  BY <1>6 DEF s

LEMMA FormeVide ==
    Forme(<<>>) /\ PompeSuivie(<<>>)
BY DEF Forme, Couples, Conditions, Drapeaux, PompeSuivie, Finit

LEMMA AmorceDemarrage ==
    /\ Amorce(demarrage)
    /\ \A a \in Appareils : \E i \in DOMAIN demarrage : EstPin(demarrage[i], a, 0)
<1> DEFINE s == demarrage
<1>1. /\ DOMAIN s = 1..5 /\ Len(s) = 5 /\ s # <<>>
      /\ s[1] = Ouvrir /\ s[2] = Pin("pompe", 0) /\ s[3] = Pin("electrolyse", 0)
      /\ s[4] = Pin("lampe", 0) /\ s[5] = Servir
  BY DEF demarrage
<1> HIDE DEF s
<1>2. /\ s[1].op = "ouvrir"
      /\ s[2].op = "pin" /\ s[2].sur = "pompe" /\ s[2].val = 0
      /\ s[3].op = "pin" /\ s[3].sur = "electrolyse" /\ s[3].val = 0
      /\ s[4].op = "pin" /\ s[4].sur = "lampe" /\ s[4].val = 0
      /\ s[5].op = "servir"
  BY <1>1, Table DEF Appareils
<1>3. Amorce(s)
  BY <1>1, <1>2 DEF Amorce, EstPin
<1>4. \A a \in Appareils : \E i \in DOMAIN s : EstPin(s[i], a, 0)
  BY <1>1, <1>2 DEF EstPin, Appareils
<1> QED
  BY <1>3, <1>4 DEF s

-----------------------------------------------------------------------------
(* Commands start with a program of that shape.                            *)

Demandes == {httpPompeOn, httpPompeOff}

LEMMA ProgrammesFormes ==
    \A p \in Programmes : /\ Forme(p) /\ Depart(p)
                          /\ p \notin Demandes => PompeSuivie(p)
BY FormeDebutPlage, FormeFinPlage, FormePompeOn, FormeTestPuisOn, FormeElectrolyseOn,
   FormeElectrolyseOff, FormeQuitter, FormeHttpPompeOn, FormeHttpPompeOff,
   FormeHttpElectrolyseOff, FormeLampe
DEF Programmes, Demandes, finPlage

(* Only a request starts what a request for the pump does.                 *)
LEMMA CommandeSure ==
    Commande => \E t \in Acteurs, p \in Programmes :
                   Lance(t, p) /\ (t \notin Requetes => PompeSuivie(p))
<1> DEFINE But == \E t \in Acteurs, p \in Programmes :
                     Lance(t, p) /\ (t \notin Requetes => PompeSuivie(p))
<1>1. ASSUME NEW t \in Acteurs, NEW p \in Programmes, Lance(t, p), t \in Requetes \/ PompeSuivie(p)
      PROVE  But
  BY <1>1
<1>2. /\ \A r \in Requetes : r \in Acteurs
      /\ Boucle \in Acteurs /\ Clavier \in Acteurs
  BY DEF Acteurs
<1>3. /\ pompeOff \o electrolyseOff \in Programmes /\ debutPlage \in Programmes
      /\ finPlage \in Programmes /\ pompeOn \in Programmes
      /\ <<TestPompe>> \o electrolyseOn \in Programmes /\ electrolyseOn \in Programmes
      /\ electrolyseOff \in Programmes /\ quitter \in Programmes
      /\ httpPompeOn \in Programmes /\ httpPompeOff \in Programmes
      /\ httpElectrolyseOff \in Programmes /\ lampe(0) \in Programmes /\ lampe(1) \in Programmes
  BY DEF Programmes
<1> HIDE DEF But
<1>4. DebutPlage \/ FinPlage => But
  BY <1>1, <1>2, <1>3, FormeDebutPlage, FormeFinPlage DEF DebutPlage, FinPlage
<1>5. ToucheP \/ ToucheQ => But
  BY <1>1, <1>2, <1>3, FormePompeOn, FormeFinPlage, FormeQuitter
  DEF ToucheP, ToucheQ, finPlage
<1>6. ToucheE => But
  BY <1>1, <1>2, <1>3, FormeTestPuisOn, FormeElectrolyseOff DEF ToucheE
<1>7. ToucheL => But
  BY <1>1, <1>2, <1>3, FormeLampe DEF ToucheL
<1>8. ASSUME NEW r \in Requetes, HttpPompe(r) \/ HttpElectro(r) \/ HttpLampe(r)
      PROVE  But
  BY <1>1, <1>2, <1>3, <1>8 DEF HttpPompe, HttpElectro, HttpLampe
<1> QED
  BY <1>4, <1>5, <1>6, <1>7, <1>8 DEF Commande, But

LEMMA EtapesSures ==
    Next => \/ Lancement \/ Panne
            \/ \E t \in Acteurs, p \in Programmes :
                  Lance(t, p) /\ (t \notin Requetes => PompeSuivie(p))
            \/ \E t \in Acteurs : Pas(t)
            \/ Sonde \/ PanneGraphite \/ RetourGraphite
BY CommandeSure DEF Next, Commande

-----------------------------------------------------------------------------
(* Tails.                                                                  *)

LEMMA QueuePlaces ==
    ASSUME NEW s \in Seq(Operations), s # <<>>
    PROVE  /\ Len(s) \in Nat /\ Len(s) > 0 /\ DOMAIN s = 1..Len(s)
           /\ Tail(s) \in Seq(Operations)
           /\ Len(Tail(s)) = Len(s) - 1 /\ DOMAIN Tail(s) = 1..(Len(s) - 1)
           /\ Head(s) = s[1] /\ s[1] \in Operations
           /\ \A i \in 1..(Len(s) - 1) : Tail(s)[i] = s[i + 1]
           /\ Len(s) = 1 => Tail(s) = <<>>
           /\ Len(s) # 1 => Tail(s) # <<>>
<1>1. /\ Len(s) \in Nat /\ Len(s) > 0 /\ DOMAIN s = 1..Len(s)
      /\ Tail(s) \in Seq(Operations)
      /\ Len(Tail(s)) = Len(s) - 1 /\ DOMAIN Tail(s) = 1..(Len(s) - 1)
      /\ Head(s) = s[1] /\ s[1] \in Operations
      /\ \A i \in 1..(Len(s) - 1) : Tail(s)[i] = s[i + 1]
  OBVIOUS
<1>2. Len(s) = 1 => Tail(s) = <<>>
  BY <1>1
<1>3. Len(s) # 1 => Tail(s) # <<>>
  BY <1>1
<1> QED
  BY <1>1, <1>2, <1>3

LEMMA QueueFinit ==
    ASSUME NEW s \in Seq(Operations), s # <<>>, s[1].op # "exit", Finit(s)
    PROVE  Finit(Tail(s))
<1>1. PICK i \in 1..Len(s) : s[i].op = "exit"
  BY QueuePlaces DEF Finit
<1>2. i - 1 \in DOMAIN Tail(s) /\ Tail(s)[i - 1] = s[i]
  BY <1>1, QueuePlaces
<1> QED
  BY <1>1, <1>2 DEF Finit

LEMMA QueueFinitAvant ==
    ASSUME NEW s \in Seq(Operations), s # <<>>, Finit(Tail(s))
    PROVE  Finit(s)
BY QueuePlaces DEF Finit

LEMMA QueueForme ==
    ASSUME NEW s \in Seq(Operations), s # <<>>, s[1].op # "exit", Forme(s)
    PROVE  Forme(Tail(s))
<1> DEFINE r == Tail(s)
           n == Len(s) - 1
<1>1. /\ DOMAIN s = 1..(n + 1) /\ n \in Nat /\ DOMAIN r = 1..n
      /\ \A i \in 1..n : r[i] = s[i + 1]
      /\ Finit(s) <=> Finit(r)
  BY QueuePlaces, QueueFinit, QueueFinitAvant
<1> HIDE DEF r, n
<1>2. \A i \in 1..n : /\ i + 1 \in 1..(n + 1)
                      /\ i > 1 => i - 1 \in 1..n /\ r[i - 1] = s[i]
  BY <1>1
<1>3. Couples(r)
  <2>1. ASSUME NEW i \in 1..n, r[i].op = "etat"
        PROVE  i + 1 \in 1..n /\ EstPin(r[i + 1], r[i].sur, r[i].val)
    <3>1. (i + 1) + 1 \in 1..(n + 1) /\ EstPin(s[(i + 1) + 1], s[i + 1].sur, s[i + 1].val)
      BY <1>1, <1>2, <2>1 DEF Forme, Couples
    <3> QED
      BY <1>1, <3>1
  <2>2. ASSUME NEW i \in 1..n, i > 1, r[i].op = "pin"
        PROVE  \/ Finit(r)
               \/ r[i - 1].op = "etat" /\ r[i - 1].sur = r[i].sur /\ r[i - 1].val = r[i].val
    <3>1. \/ Finit(s)
          \/ s[i].op = "etat" /\ s[i].sur = s[i + 1].sur /\ s[i].val = s[i + 1].val
      <4>1. (i + 1) - 1 = i /\ i + 1 > 1 /\ s[i + 1].op = "pin"
        BY <1>1, <2>2
      <4> QED
        <5>1. \A k \in DOMAIN s : k > 1 /\ s[k].op = "pin" =>
                 \/ Finit(s)
                 \/ s[k - 1].op = "etat" /\ s[k - 1].sur = s[k].sur /\ s[k - 1].val = s[k].val
          BY DEF Forme, Couples
        <5>2. i + 1 \in DOMAIN s
          BY <1>1, <1>2
        <5> QED
          BY <4>1, <5>1, <5>2
    <3> QED
      BY <1>1, <1>2, <2>2, <3>1
  <2> QED
    BY <1>1, <2>1, <2>2 DEF Couples
<1>4. Conditions(r)
  <2>1. Conditions(s) /\ \A i \in 1..n : i + 1 \in DOMAIN s /\ r[i] = s[i + 1]
    BY <1>1, <1>2 DEF Forme
  <2>2. \A i \in 1..n : r[i].op \notin {"ouvrir", "servir"}
    BY <2>1 DEF Conditions
  <2>3. Finit(r) => \A i \in 1..n : ~EstCondition(r[i])
    BY <1>1, <2>1 DEF Conditions
  <2>4. ASSUME NEW i \in 1..n, NEW j \in 1..n, EstPin(r[i], "electrolyse", 1)
        PROVE  ~EstPin(r[j], "pompe", 0) /\ (r[j].op = "garde" => j < i)
    <3>1. ~EstPin(s[j + 1], "pompe", 0) /\ (s[j + 1].op = "garde" => j + 1 < i + 1)
      BY <2>1, <2>4 DEF Conditions
    <3> QED
      BY <2>1, <3>1
  <2>5. ASSUME NEW i \in 1..n, NEW j \in 1..n,
               EstCondition(r[i]), r[j].op = "flag" \/ EstPin(r[j], "pompe", r[j].val)
        PROVE  j < i
    <3>1. j + 1 < i + 1
      BY <2>1, <2>5 DEF Conditions
    <3> QED
      BY <3>1
  <2> QED
    BY <1>1, <2>2, <2>3, <2>4, <2>5 DEF Conditions
<1>5. Drapeaux(r)
  <2>1. ASSUME NEW i \in 1..n, i > 1, r[i].op = "flag"
        PROVE  EstPin(r[i - 1], "pompe", r[i].val)
    <3>1. (i + 1) - 1 = i /\ i + 1 > 1 /\ s[i + 1].op = "flag"
      BY <1>1, <2>1
    <3>2. EstPin(s[i], "pompe", s[i + 1].val)
      BY <1>1, <1>2, <3>1 DEF Forme, Drapeaux
    <3> QED
      BY <1>1, <1>2, <2>1, <3>2
  <2> QED
    BY <1>1, <2>1 DEF Drapeaux
<1>6. Forme(r)
  BY <1>3, <1>4, <1>5 DEF Forme
<1> QED
  BY <1>6 DEF r

LEMMA QueuePompeSuivie ==
    ASSUME NEW s \in Seq(Operations), s # <<>>, PompeSuivie(s)
    PROVE  PompeSuivie(Tail(s))
<1> DEFINE r == Tail(s)
           n == Len(s) - 1
<1>1. /\ DOMAIN s = 1..(n + 1) /\ n \in Nat /\ DOMAIN r = 1..n
      /\ \A i \in 1..n : r[i] = s[i + 1]
  BY QueuePlaces
<1> HIDE DEF r, n
<1>2. ASSUME NEW i \in 1..n, EstPin(r[i], "pompe", r[i].val)
      PROVE  \E j \in 1..n : j > i /\ EstFlag(r[j], r[i].val)
  <2>1. i + 1 \in 1..(n + 1) /\ EstPin(s[i + 1], "pompe", s[i + 1].val)
    BY <1>1, <1>2
  <2>2. PICK k \in 1..(n + 1) : k > i + 1 /\ EstFlag(s[k], s[i + 1].val)
    BY <1>1, <2>1 DEF PompeSuivie
  <2>3. k - 1 \in 1..n /\ k - 1 > i /\ r[k - 1] = s[(k - 1) + 1] /\ (k - 1) + 1 = k
    BY <1>1, <2>2
  <2> QED
    BY <1>1, <2>2, <2>3
<1>3. PompeSuivie(r)
  BY <1>1, <1>2 DEF PompeSuivie
<1> QED
  BY <1>3 DEF r

LEMMA QueueAmorce ==
    ASSUME NEW s \in Seq(Operations), s # <<>>, Amorce(s)
    PROVE  /\ s[1].op # "servir" => Amorce(Tail(s))
           /\ s[1].op = "servir" => Tail(s) = <<>> /\ DOMAIN s = 1..1
<1>1. s[1].op = "servir" <=> Len(s) = 1
  BY QueuePlaces DEF Amorce
<1>2. s[1].op = "servir" => Tail(s) = <<>> /\ DOMAIN s = 1..1
  BY <1>1, QueuePlaces
<1>3. ASSUME Len(s) # 1
      PROVE  Amorce(Tail(s))
  <2> DEFINE r == Tail(s)
             n == Len(s) - 1
  <2>1. /\ DOMAIN s = 1..(n + 1) /\ n \in Nat /\ DOMAIN r = 1..n /\ r # <<>>
        /\ \A i \in 1..n : r[i] = s[i + 1]
        /\ Len(s) = n + 1 /\ Len(r) = n
    BY <1>3, QueuePlaces
  <2> HIDE DEF r, n
  <2>2. \A i \in 1..n : i + 1 \in DOMAIN s /\ (i = n <=> i + 1 = Len(s))
    BY <2>1
  <2>3. \A i \in DOMAIN s : s[i].op = "servir" <=> i = Len(s)
    BY DEF Amorce
  <2>4. \A i \in 1..n : r[i].op = "servir" <=> i = n
    BY <2>1, <2>2, <2>3
  <2>5. \A i \in 1..n : r[i].op \in {"ouvrir", "servir"} \/ EstPin(r[i], r[i].sur, 0)
    BY <2>1, <2>2 DEF Amorce
  <2>6. Amorce(r)
    BY <2>1, <2>4, <2>5 DEF Amorce
  <2> QED
    BY <2>6 DEF r
<1> QED
  BY <1>1, <1>2, <1>3

(* A pending access other than the first is still pending in the tail.     *)
LEMMA QueueReste ==
    ASSUME NEW s \in Seq(Operations), s # <<>>
    PROVE  /\ \A i \in DOMAIN s : i # 1 =>
                 i - 1 \in DOMAIN Tail(s) /\ Tail(s)[i - 1] = s[i]
           /\ \A i \in DOMAIN Tail(s) : i + 1 \in DOMAIN s /\ Tail(s)[i] = s[i + 1]
           /\ Tail(s) # <<>> => 1 \in DOMAIN Tail(s) /\ 2 \in DOMAIN s /\ Tail(s)[1] = s[2]
           /\ 2 \in DOMAIN s => Tail(s) # <<>> /\ Tail(s)[1] = s[2]
           /\ 1 \in DOMAIN s
<1>1. /\ Len(s) \in Nat /\ Len(s) > 0 /\ DOMAIN s = 1..Len(s)
      /\ DOMAIN Tail(s) = 1..(Len(s) - 1)
      /\ \A i \in 1..(Len(s) - 1) : Tail(s)[i] = s[i + 1]
      /\ Tail(s) # <<>> => Len(s) # 1
  BY QueuePlaces
<1>2. \A i \in DOMAIN s : i # 1 => i - 1 \in 1..(Len(s) - 1) /\ (i - 1) + 1 = i
  BY <1>1
<1>3. 2 \in DOMAIN s => Len(Tail(s)) > 0 /\ Tail(s)[1] = s[2]
  BY <1>1, QueuePlaces
<1>4. Len(<<>>) = 0
  OBVIOUS
<1> QED
  BY <1>1, <1>2, <1>3, <1>4

(* An access is known by its three parts.                                  *)
LEMMA Egalites ==
    ASSUME NEW o \in Operations, NEW a \in Appareils, NEW v \in {0, 1}
    PROVE  /\ EstPin(o, a, v) <=> o = Pin(a, v)
           /\ EstFlag(o, v) <=> o = Flag(v)
BY DEF Operations, EstPin, EstFlag, Pin, Flag

-----------------------------------------------------------------------------
(* One step of the only command in progress.                               *)

EnCours(t) ==
    /\ JInv /\ t \in Acteurs /\ reste[t] # <<>> /\ reste[t][1].op # "exit"
    /\ Forme(reste[t]) /\ EnMarche(reste[t])

LEMMA FaitsEnCours ==
    ASSUME NEW t, EnCours(t)
    PROVE  /\ reste[t] \in Seq(Operations) /\ Tail(reste[t]) \in Seq(Operations)
           /\ Head(reste[t]) = reste[t][1] /\ reste[t][1] \in Operations
           /\ reste[t][1].sur \in Appareils /\ reste[t][1].val \in {0, 1}
           /\ Forme(Tail(reste[t]))
           /\ Finit(reste[t]) => Finit(Tail(reste[t]))
           /\ Suite(t) => reste'[t] = Tail(reste[t])
           /\ Abandon(t) => reste'[t] = <<>>
<1>1. reste[t] \in Seq(Operations) /\ reste[t] # <<>>
  BY DEF EnCours, JInv, IInv, TypeOK
<1>2. reste[t][1] \in Operations /\ Head(reste[t]) = reste[t][1] /\ Tail(reste[t]) \in Seq(Operations)
  BY <1>1, QueuePlaces
<1>3. reste[t][1].sur \in Appareils /\ reste[t][1].val \in {0, 1}
  BY <1>2 DEF Operations
<1>4. Forme(Tail(reste[t])) /\ (Finit(reste[t]) => Finit(Tail(reste[t])))
  BY <1>1, QueueForme, QueueFinit DEF EnCours
<1>5. (Suite(t) => reste'[t] = Tail(reste[t])) /\ (Abandon(t) => reste'[t] = <<>>)
  BY DEF EnCours, JInv, IInv, TypeOK, Suite, Abandon
<1> QED
  BY <1>1, <1>2, <1>3, <1>4, <1>5

(* A state variable changes; its line is next.                             *)
LEMMA MarcheEtat ==
    ASSUME NEW t, EnCours(t), PasEtat(t)
    PROVE  EnMarche(reste[t])'
<1> DEFINE s == reste[t]
           r == Tail(s)
           a == s[1].sur
           v == s[1].val
<1>1. /\ s \in Seq(Operations) /\ s # <<>> /\ s[1].op = "etat"
      /\ a \in Appareils /\ v \in {0, 1} /\ Forme(s)
      /\ Finit(s) => Finit(r)
      /\ reste'[t] = r /\ pin' = pin /\ etat' = [etat EXCEPT ![a] = v]
      /\ etat \in [Appareils -> {0, 1}]
  BY FaitsEnCours DEF EnCours, PasEtat, EnTete, JInv, IInv, TypeOK
<1>2. /\ \A i \in DOMAIN s : i # 1 => i - 1 \in DOMAIN r /\ r[i - 1] = s[i]
      /\ \A i \in DOMAIN r : i + 1 \in DOMAIN s /\ r[i] = s[i + 1]
      /\ 1 \in DOMAIN s /\ (2 \in DOMAIN s => r # <<>> /\ r[1] = s[2])
  BY <1>1, QueueReste
<1>3. 2 \in DOMAIN s /\ EstPin(s[2], a, v)
  BY <1>1, <1>2 DEF Forme, Couples
<1>4. r # <<>> /\ r[1] = s[2] /\ EstPin(r[1], a, v)
  BY <1>2, <1>3
<1>5. EnMarche(s)
  BY DEF EnCours
<1> HIDE DEF r, a, v, s
<1>6. ASSUME NEW b \in Appareils
      PROVE  \/ pin'[b] = etat'[b]
             \/ r # <<>> /\ EstPin(r[1], b, etat'[b])
             \/ Finit(r)
  <2>1. CASE b = a
    BY <1>1, <1>4, <2>1
  <2>2. CASE b # a
    BY <1>1, <1>5, <2>2 DEF EnMarche, EstPin
  <2> QED
    BY <2>1, <2>2
<1>7. r[1].op = "pin" /\ r[1].val = etat'[r[1].sur]
  BY <1>1, <1>4 DEF EstPin
<1>8. SansCirculation' => \E i \in DOMAIN r : EstPin(r[i], "electrolyse", 0)
  <2> SUFFICES ASSUME SansCirculation
               PROVE  \E i \in DOMAIN r : EstPin(r[i], "electrolyse", 0)
    BY <1>1 DEF SansCirculation
  <2>1. PICK i \in DOMAIN s : EstPin(s[i], "electrolyse", 0)
    BY <1>5 DEF EnMarche
  <2>2. i # 1
    BY <1>1, <2>1 DEF EstPin
  <2> QED
    BY <1>2, <2>1, <2>2
<1>9. ASSUME NEW i \in DOMAIN r, EstPin(r[i], "electrolyse", 1), \A j \in DOMAIN r : r[j].op # "garde"
      PROVE  pin'["pompe"] = 1
  <2>1. \A j \in DOMAIN s : s[j].op # "garde"
    BY <1>1, <1>2, <1>9
  <2> QED
    BY <1>1, <1>2, <1>5, <1>9, <2>1 DEF EnMarche
<1>10. r[1].op # "flag"
  BY <1>7
<1>11. reste'[t] = r
  BY <1>1
<1> QED
  BY <1>6, <1>7, <1>8, <1>9, <1>10, <1>11 DEF EnMarche

(* A line is written.                                                      *)
LEMMA MarchePin ==
    ASSUME NEW t, EnCours(t), PasPin(t), phase = "marche"
    PROVE  EnMarche(reste[t])'
<1> DEFINE s == reste[t]
           r == Tail(s)
           a == s[1].sur
           v == s[1].val
<1>1. /\ s \in Seq(Operations) /\ s # <<>> /\ s[1].op = "pin" /\ s[1] \in Operations
      /\ a \in Appareils /\ v \in {0, 1} /\ Forme(s) /\ Sure(s)
      /\ Finit(s) => Finit(r)
      /\ reste'[t] = r /\ pin' = [pin EXCEPT ![a] = v] /\ etat' = etat
      /\ pin \in [Appareils -> {0, 1}]
      /\ Head(s) = s[1]
  BY FaitsEnCours DEF EnCours, PasPin, EnTete, JInv, IInv, TypeOK
<1>2. /\ \A i \in DOMAIN s : i # 1 => i - 1 \in DOMAIN r /\ r[i - 1] = s[i]
      /\ \A i \in DOMAIN r : i + 1 \in DOMAIN s /\ r[i] = s[i + 1]
      /\ 1 \in DOMAIN s
      /\ r # <<>> => 2 \in DOMAIN s /\ r[1] = s[2]
  BY <1>1, QueueReste
<1>3. EnMarche(s) /\ EstPin(s[1], a, v)
  BY <1>1 DEF EnCours, EstPin
<1>4. a = "pompe" /\ v = 0 => \E i \in DOMAIN r : EstPin(r[i], "electrolyse", 0)
  <2> SUFFICES ASSUME a = "pompe", v = 0
               PROVE  \E i \in DOMAIN r : EstPin(r[i], "electrolyse", 0)
    OBVIOUS
  <2>1. s[1] = Pin("pompe", 0)
    BY <1>1, <1>3, Egalites
  <2>2. PICK i \in DOMAIN r : r[i] = Pin("electrolyse", 0)
    BY <1>1, <2>1, TeteChute DEF Contient
  <2> QED
    BY <2>2, Table DEF EstPin
<1> HIDE DEF r, a, v, s
<1>5. EstPin(s[1], "electrolyse", 1) => pin["pompe"] = 1
  <2>1. ASSUME EstPin(s[1], "electrolyse", 1), NEW j \in DOMAIN s, s[j].op = "garde"
        PROVE  FALSE
    <3>1. j < 1
      BY <1>1, <1>2, <2>1 DEF Forme, Conditions
    <3> QED
      BY <1>1, <2>1, <3>1, QueuePlaces
  <2> QED
    BY <1>2, <1>3, <2>1 DEF EnMarche
<1>6. ASSUME NEW b \in Appareils
      PROVE  \/ pin'[b] = etat'[b]
             \/ r # <<>> /\ EstPin(r[1], b, etat'[b])
             \/ Finit(r)
  <2>1. CASE b = a
    <3>1. Finit(s) \/ v = etat[a]
      BY <1>1, <1>3 DEF EnMarche, EstPin
    <3> QED
      BY <1>1, <2>1, <3>1
  <2>2. CASE b # a
    BY <1>1, <1>3, <2>2 DEF EnMarche, EstPin
  <2> QED
    BY <2>1, <2>2
<1>7. ASSUME r # <<>>, r[1].op = "pin"
      PROVE  Finit(r)
  <2>1. 2 \in DOMAIN s /\ s[2].op = "pin" /\ 2 - 1 = 1 /\ 2 > 1
    BY <1>2, <1>7
  <2>2. Finit(s) \/ s[1].op = "etat"
    <3>1. \A i \in DOMAIN s : i > 1 /\ s[i].op = "pin" => Finit(s) \/ s[i - 1].op = "etat"
      BY <1>1 DEF Forme, Couples
    <3> QED
      BY <2>1, <3>1
  <2> QED
    BY <1>1, <2>2
<1>8. SansCirculation' => \E i \in DOMAIN r : EstPin(r[i], "electrolyse", 0)
  <2> SUFFICES ASSUME pin'["electrolyse"] = 1, pin'["pompe"] = 0
               PROVE  \E i \in DOMAIN r : EstPin(r[i], "electrolyse", 0)
    BY DEF SansCirculation
  <2>1. CASE a = "pompe"
    <3>1. v = 0
      BY <1>1, <2>1
    <3> QED
      BY <1>4, <2>1, <3>1
  <2>2. CASE a = "electrolyse"
    <3>1. v = 1 /\ pin["pompe"] = 0
      BY <1>1, <2>2 DEF Appareils
    <3> QED
      BY <1>3, <1>5, <2>2, <3>1
  <2>3. CASE a = "lampe"
    <3>1. SansCirculation
      BY <1>1, <2>3 DEF SansCirculation, Appareils
    <3>2. PICK i \in DOMAIN s : EstPin(s[i], "electrolyse", 0)
      BY <1>3, <3>1 DEF EnMarche
    <3>3. i # 1
      BY <1>3, <2>3, <3>2 DEF EstPin
    <3> QED
      BY <1>2, <3>2, <3>3
  <2> QED
    BY <1>1, <2>1, <2>2, <2>3 DEF Appareils
<1>9. ASSUME NEW i \in DOMAIN r, EstPin(r[i], "electrolyse", 1), \A j \in DOMAIN r : r[j].op # "garde"
      PROVE  pin'["pompe"] = 1
  <2>1. \A j \in DOMAIN s : s[j].op # "garde"
    BY <1>1, <1>2, <1>9
  <2>2. pin["pompe"] = 1
    BY <1>2, <1>3, <1>9, <2>1 DEF EnMarche
  <2>3. ~EstPin(s[1], "pompe", 0)
    BY <1>1, <1>2, <1>9 DEF Forme, Conditions
  <2> QED
    BY <1>1, <1>3, <2>2, <2>3 DEF EstPin, Appareils
<1>10. ASSUME r # <<>>, r[1].op = "flag"
       PROVE  r[1].val = pin'["pompe"]
  <2>1. 2 \in DOMAIN s /\ s[2].op = "flag" /\ 2 - 1 = 1 /\ 2 > 1
    BY <1>2, <1>10
  <2>2. EstPin(s[1], "pompe", s[2].val)
    <3>1. \A i \in DOMAIN s : i > 1 /\ s[i].op = "flag" => EstPin(s[i - 1], "pompe", s[i].val)
      BY <1>1 DEF Forme, Drapeaux
    <3> QED
      BY <2>1, <3>1
  <2> QED
    BY <1>1, <1>2, <1>3, <1>10, <2>2 DEF EstPin
<1>11. reste'[t] = r /\ etat' = etat
  BY <1>1
<1>12. (r # <<>> /\ r[1].op = "pin") => (Finit(r) \/ r[1].val = etat'[r[1].sur])
  BY <1>7
<1>13. (r # <<>> /\ r[1].op = "flag") => r[1].val = pin'["pompe"]
  BY <1>10
<1> QED
  BY <1>6, <1>8, <1>9, <1>11, <1>12, <1>13 DEF EnMarche

(* Neither a state variable nor a line is written, and the rest goes on.   *)
LEMMA MarcheNeutre ==
    ASSUME NEW t, EnCours(t), Suite(t), UNCHANGED <<etat, pin>>,
           reste[t][1].op \notin {"etat", "pin"},
           reste[t][1].op = "garde" => etat["pompe"] = 1
    PROVE  EnMarche(reste[t])'
<1> DEFINE s == reste[t]
           r == Tail(s)
<1>1. /\ s \in Seq(Operations) /\ s # <<>> /\ s[1].op \notin {"etat", "pin"}
      /\ Forme(s)
      /\ Finit(s) => Finit(r)
      /\ reste'[t] = r /\ pin' = pin /\ etat' = etat
  BY FaitsEnCours DEF EnCours
<1>2. /\ \A i \in DOMAIN s : i # 1 => i - 1 \in DOMAIN r /\ r[i - 1] = s[i]
      /\ \A i \in DOMAIN r : i + 1 \in DOMAIN s /\ r[i] = s[i + 1]
      /\ 1 \in DOMAIN s
      /\ r # <<>> => 2 \in DOMAIN s /\ r[1] = s[2]
  BY <1>1, QueueReste
<1>3. EnMarche(s) /\ (s[1].op = "garde" => etat["pompe"] = 1)
  BY DEF EnCours
<1> HIDE DEF r, s
<1>4. \A b \in Appareils : pin[b] = etat[b] \/ Finit(r)
  BY <1>1, <1>3 DEF EnMarche, EstPin
<1>5. ASSUME r # <<>>, r[1].op \in {"pin", "flag"}
      PROVE  Finit(r) /\ r[1].op # "flag"
  <2>1. 2 \in DOMAIN s /\ s[2].op = r[1].op /\ 2 - 1 = 1 /\ 2 > 1
    BY <1>2, <1>5
  <2>2. s[2].op # "flag"
    <3>1. \A i \in DOMAIN s : i > 1 /\ s[i].op = "flag" => s[i - 1].op = "pin"
      BY <1>1 DEF Forme, Drapeaux, EstPin
    <3> QED
      BY <1>1, <2>1, <3>1
  <2>3. s[2].op = "pin" => Finit(s)
    <3>1. \A i \in DOMAIN s : i > 1 /\ s[i].op = "pin" => Finit(s) \/ s[i - 1].op = "etat"
      BY <1>1 DEF Forme, Couples
    <3> QED
      BY <1>1, <2>1, <3>1
  <2> QED
    BY <1>1, <1>5, <2>1, <2>2, <2>3
<1>6. SansCirculation' => \E i \in DOMAIN r : EstPin(r[i], "electrolyse", 0)
  <2> SUFFICES ASSUME SansCirculation
               PROVE  \E i \in DOMAIN r : EstPin(r[i], "electrolyse", 0)
    BY <1>1 DEF SansCirculation
  <2>1. PICK i \in DOMAIN s : EstPin(s[i], "electrolyse", 0)
    BY <1>3 DEF EnMarche
  <2>2. i # 1
    BY <1>1, <2>1 DEF EstPin
  <2> QED
    BY <1>2, <2>1, <2>2
<1>7. ASSUME NEW i \in DOMAIN r, EstPin(r[i], "electrolyse", 1), \A j \in DOMAIN r : r[j].op # "garde"
      PROVE  pin["pompe"] = 1
  <2>1. CASE s[1].op = "garde"
    <3>1. ~Finit(s)
      BY <1>1, <1>2, <2>1 DEF Forme, Conditions, EstCondition
    <3>2. pin["pompe"] = etat["pompe"]
      BY <1>1, <1>3, <3>1 DEF EnMarche, EstPin, Appareils
    <3> QED
      BY <1>3, <2>1, <3>2
  <2>2. CASE s[1].op # "garde"
    <3>1. \A j \in DOMAIN s : s[j].op # "garde"
      BY <1>2, <1>7, <2>2
    <3> QED
      BY <1>2, <1>3, <1>7, <3>1 DEF EnMarche
  <2> QED
    BY <2>1, <2>2
<1>8. /\ reste'[t] = r /\ pin' = pin /\ etat' = etat
      /\ (r # <<>> /\ r[1].op = "pin") => (Finit(r) \/ r[1].val = etat[r[1].sur])
      /\ (r # <<>> /\ r[1].op = "flag") => r[1].val = pin["pompe"]
  BY <1>1, <1>5
<1> QED
  BY <1>4, <1>6, <1>7, <1>8 DEF EnMarche

(* A condition drops the rest.                                             *)
LEMMA MarcheAbandon ==
    ASSUME NEW t, EnCours(t), Abandon(t), UNCHANGED <<etat, pin>>,
           reste[t][1].op \in {"test", "garde"}
    PROVE  EnMarche(reste[t])'
<1> DEFINE s == reste[t]
<1>1. /\ s \in Seq(Operations) /\ s # <<>> /\ Forme(s) /\ Sure(s) /\ 1 \in DOMAIN s
      /\ Head(s) = s[1] /\ s[1].op \in {"test", "garde"} /\ EnMarche(s)
      /\ reste'[t] = <<>> /\ pin' = pin /\ etat' = etat
  BY FaitsEnCours, QueueReste DEF EnCours, JInv, IInv
<1>2. ~Finit(s)
  BY <1>1 DEF Forme, Conditions, EstCondition
<1>3. ~SansCirculation
  <2> SUFFICES ASSUME SansCirculation
               PROVE  FALSE
    OBVIOUS
  <2>1. PICK i \in DOMAIN s : EstPin(s[i], "electrolyse", 0)
    BY <1>1 DEF EnMarche
  <2>2. s[i] \in Operations
    BY <1>1, <2>1
  <2>3. s[i] = Pin("electrolyse", 0)
    BY <2>1, <2>2, Egalites DEF Appareils
  <2> QED
    BY <1>1, <2>3, TeteCondition DEF Contient
<1>4. \A b \in Appareils : pin[b] = etat[b]
  BY <1>1, <1>2 DEF EnMarche, EstPin
<1> QED
  BY <1>1, <1>3, <1>4 DEF EnMarche, SansCirculation

-----------------------------------------------------------------------------
(* The steps of a process, by what its goroutine has still to do.          *)

EnDemarrage == phase \in {"ferme", "gpio"}

LEMMA PasTrie ==
    ASSUME JInv, NEW t \in Acteurs, Pas(t)
    PROVE  \/ Mort
           \/ /\ EnDemarrage /\ t = Boucle /\ Suite(t) /\ Amorce(reste[t])
              /\ etat' = etat /\ msFlag' = msFlag /\ croise' = croise
              /\ \/ /\ reste[t][1].op = "servir" /\ phase' = "marche" /\ pin' = pin
                 \/ /\ reste[t][1].op = "ouvrir" /\ phase' = "gpio" /\ pin' = pin
                 \/ /\ reste[t][1].op = "pin" /\ phase' = phase
                    /\ pin' = [pin EXCEPT ![reste[t][1].sur] = 0]
           \/ /\ ~EnDemarrage \/ t # Boucle
              /\ phase' = phase /\ croise' = croise
              /\ Forme(reste[t]) /\ reste[t][1].op # "exit"
              /\ Suite(t) \/ (Abandon(t) /\ reste[t][1].op \in {"test", "garde"})
<1>1. /\ reste[t] # <<>> /\ reste[t] \in Seq(Operations) /\ Head(reste[t]) = reste[t][1]
      /\ phase # "arret"
  BY QueuePlaces DEF JInv, IInv, TypeOK, Pas, PasEtat, PasPin, PasFlag, PasGraphite,
     PasTest, PasGarde, PasOuvrir, PasServir, PasExit, EnTete
<1>2. 1 \in DOMAIN reste[t]
  BY <1>1, QueueReste
<1>3. CASE EnDemarrage /\ t = Boucle
  <2>1. Amorce(reste[t])
    BY <1>3 DEF EnDemarrage, JInv, Formes
  <2>2. reste[t][1].op \in {"ouvrir", "servir"} \/ EstPin(reste[t][1], reste[t][1].sur, 0)
    BY <1>2, <2>1 DEF Amorce
  <2> QED
    BY <1>1, <1>3, <2>1, <2>2 DEF Pas, PasEtat, PasPin, PasFlag, PasGraphite, PasTest,
       PasGarde, PasOuvrir, PasServir, PasExit, EnTete, EstPin, EnDemarrage
<1>4. CASE ~(EnDemarrage /\ t = Boucle)
  <2>1. Forme(reste[t])
    BY <1>4 DEF EnDemarrage, JInv, Formes
  <2>2. reste[t][1].op \notin {"ouvrir", "servir"}
    BY <1>2, <2>1 DEF Forme, Conditions
  <2> QED
    BY <1>1, <1>4, <2>1, <2>2 DEF Pas, PasEtat, PasPin, PasFlag, PasGraphite, PasTest,
       PasGarde, PasOuvrir, PasServir, PasExit, EnTete
<1> QED
  BY <1>3, <1>4

-----------------------------------------------------------------------------
(* The shapes last.                                                        *)

LEMMA FormesInit == Init => Formes
BY FormeVide DEF Init, Formes, Acteurs

LEMMA FormesMort == TypeOK /\ Mort => Formes'
BY FormeVide DEF Mort, Formes, Acteurs, TypeOK

LEMMA FormesPas ==
    ASSUME JInv, NEW t \in Acteurs, Pas(t)
    PROVE  Formes'
<1>1. /\ reste[t] # <<>> /\ reste[t] \in Seq(Operations)
      /\ reste \in [Acteurs -> Seq(Operations)]
      /\ Boucle \in Acteurs
  BY DEF JInv, IInv, TypeOK, Pas, PasEtat, PasPin, PasFlag, PasGraphite,
     PasTest, PasGarde, PasOuvrir, PasServir, PasExit, EnTete, Acteurs
<1>2. CASE Mort
  BY <1>2, FormesMort DEF JInv, IInv
<1>3. CASE /\ EnDemarrage /\ t = Boucle /\ Suite(t) /\ Amorce(reste[t])
           /\ \/ reste[t][1].op = "servir" /\ phase' = "marche"
              \/ reste[t][1].op # "servir" /\ phase' \in {"ferme", "gpio"}
  <2>1. /\ reste'[Boucle] = Tail(reste[Boucle])
        /\ \A u \in Acteurs \ {Boucle} : reste'[u] = reste[u]
    BY <1>1, <1>3 DEF Suite
  <2>2. /\ reste[t][1].op = "servir" => Tail(reste[t]) = <<>>
        /\ reste[t][1].op # "servir" => Amorce(Tail(reste[t]))
    BY <1>1, <1>3, QueueAmorce
  <2>3. /\ \A u \in Acteurs \ {Boucle} : Forme(reste[u])
        /\ \A u \in Acteurs \ {Boucle} : u \notin Requetes => PompeSuivie(reste[u])
    BY DEF JInv, Formes
  <2>4. phase' = "marche" => reste'[Boucle] = <<>>
    BY <1>3, <2>1, <2>2
  <2>5. phase' \in {"ferme", "gpio"} => Amorce(reste'[Boucle])
    BY <1>3, <2>1, <2>2
  <2> QED
    BY <1>3, <2>1, <2>3, <2>4, <2>5, FormeVide DEF Formes
<1>4. CASE /\ ~EnDemarrage \/ t # Boucle
           /\ phase' = phase
           /\ Forme(reste[t]) /\ reste[t][1].op # "exit"
           /\ Suite(t) \/ Abandon(t)
  <2>1. /\ reste'[t] = Tail(reste[t]) \/ reste'[t] = <<>>
        /\ \A u \in Acteurs \ {t} : reste'[u] = reste[u]
    BY <1>1, <1>4 DEF Suite, Abandon
  <2>2. Forme(reste'[t])
    BY <1>1, <1>4, <2>1, QueueForme, FormeVide
  <2>3. PompeSuivie(reste[t]) => PompeSuivie(reste'[t])
    BY <1>1, <2>1, QueuePompeSuivie, FormeVide
  <2>4. CASE t = Boucle
    BY <1>4, <2>1, <2>2, <2>3, <2>4 DEF JInv, Formes, EnDemarrage
  <2>5. CASE t # Boucle
    BY <1>1, <1>4, <2>1, <2>2, <2>3, <2>5 DEF JInv, Formes
  <2> QED
    BY <2>4, <2>5
<1> QED
  BY <1>2, <1>3, <1>4, PasTrie DEF EnDemarrage

LEMMA FormesNext == JInv /\ [Next]_vars => Formes'
<1> SUFFICES ASSUME JInv, [Next]_vars
             PROVE  Formes'
  OBVIOUS
<1>1. TypeOK /\ Formes /\ Boucle \in Acteurs /\ reste \in [Acteurs -> Seq(Operations)]
  BY DEF JInv, IInv, TypeOK, Acteurs
<1>2. CASE Lancement
  BY <1>1, <1>2, AmorceDemarrage, FormeVide DEF Lancement, Formes, TypeOK
<1>3. CASE Panne
  BY <1>1, <1>3, FormesMort DEF Panne
<1>4. ASSUME NEW t \in Acteurs, NEW p \in Programmes, Lance(t, p),
             t \notin Requetes => PompeSuivie(p)
      PROVE  Formes'
  <2>1. /\ reste'[t] = p /\ Forme(p) /\ phase' = phase /\ reste[t] = <<>>
        /\ \A u \in Acteurs \ {t} : reste'[u] = reste[u]
    BY <1>1, <1>4, ProgrammesFormes DEF Lance
  <2>2. CASE t = Boucle
    <3>1. Boucle \notin Requetes
      BY ActeursAssumption
    <3>2. phase \notin {"ferme", "gpio"}
      BY <1>1, <2>1, <2>2 DEF Formes, Amorce
    <3> QED
      BY <1>1, <1>4, <2>1, <2>2, <3>1, <3>2 DEF Formes
  <2>3. CASE t # Boucle
    BY <1>1, <1>4, <2>1, <2>3 DEF Formes
  <2> QED
    BY <2>2, <2>3
<1>5. ASSUME NEW t \in Acteurs, Pas(t)
      PROVE  Formes'
  BY <1>5, FormesPas
<1>6. CASE Sonde \/ PanneGraphite \/ RetourGraphite \/ UNCHANGED vars
  BY <1>1, <1>6 DEF Sonde, PanneGraphite, RetourGraphite, vars, Formes
<1> QED
  BY <1>2, <1>3, <1>4, <1>5, <1>6, EtapesSures

-----------------------------------------------------------------------------
(* And so does what is known of the only command in progress.              *)

LEMMA SeulInit == Init => Seul
BY DEF Init, Seul

LEMMA SeulLancement ==
    ASSUME JInv, Lancement
    PROVE  Seul'
<1>1. /\ \A t \in Acteurs \ {Boucle} : reste'[t] = <<>>
      /\ reste'[Boucle] = demarrage /\ phase' = "ferme" /\ msFlag' = 0
      /\ \A a \in Appareils : etat'[a] = 0
  BY DEF JInv, IInv, TypeOK, Lancement, Acteurs
<1>2. \A a \in Appareils : \E i \in DOMAIN reste'[Boucle] : EstPin(reste'[Boucle][i], a, 0)
  BY <1>1, AmorceDemarrage
<1> QED
  BY <1>1, <1>2 DEF Seul, AuDemarrage

LEMMA SeulLance ==
    ASSUME JInv, NEW t \in Acteurs, NEW p \in Programmes, Lance(t, p)
    PROVE  Seul'
<1> SUFFICES ASSUME ~croise'
             PROVE  Seul'
  BY DEF Seul
<1>1. /\ ~croise /\ \A u \in Acteurs \ {t} : reste[u] = <<>>
      /\ reste[t] = <<>> /\ phase # "arret" /\ phase' = phase
      /\ pin' = pin /\ etat' = etat
      /\ reste'[t] = p /\ \A u \in Acteurs \ {t} : reste'[u] = <<>>
      /\ Boucle \in Acteurs
  BY DEF Lance, JInv, IInv, TypeOK, Acteurs
<1>2. phase = "marche"
  <2>1. reste[Boucle] = <<>>
    BY <1>1
  <2>2. phase \notin {"ferme", "gpio"}
    BY <2>1 DEF JInv, Formes, Amorce
  <2> QED
    BY <1>1, <2>2 DEF JInv, IInv, TypeOK
<1>3. PICK v \in Acteurs : EnMarche(reste[v])
  BY <1>1, <1>2 DEF JInv, Seul
<1>4. reste[v] = <<>>
  BY <1>1
<1>5. (\A a \in Appareils : pin[a] = etat[a]) /\ ~SansCirculation
  BY <1>3, <1>4 DEF EnMarche, Finit
<1>6. Depart(p)
  BY ProgrammesFormes
<1>7. EnMarche(reste[t])'
  <2>1. ~SansCirculation'
    BY <1>1, <1>5 DEF SansCirculation
  <2>2. \A a \in Appareils : pin'[a] = etat'[a]
    BY <1>1, <1>5
  <2>3. p[1].op \notin {"pin", "flag"}
    BY <1>6 DEF Depart
  <2>4. ASSUME NEW i \in DOMAIN p, EstPin(p[i], "electrolyse", 1), \A j \in DOMAIN p : p[j].op # "garde"
        PROVE  FALSE
    BY <1>6, <2>4 DEF Depart
  <2> QED
    BY <1>1, <2>1, <2>2, <2>3, <2>4 DEF EnMarche
<1> QED
  BY <1>1, <1>2, <1>7 DEF Seul

(* A step of the boot: lines are lowered, and when it ends they all are.   *)
LEMMA SeulBoot ==
    ASSUME JInv, ~croise, EnDemarrage, Suite(Boucle), reste[Boucle] # <<>>,
           UNCHANGED <<etat, msFlag>>,
           \/ /\ reste[Boucle][1].op = "servir" /\ phase' = "marche" /\ pin' = pin
           \/ /\ reste[Boucle][1].op = "ouvrir" /\ phase' = "gpio" /\ pin' = pin
           \/ /\ reste[Boucle][1].op = "pin" /\ phase' = phase
              /\ pin' = [pin EXCEPT ![reste[Boucle][1].sur] = 0]
    PROVE  Seul' /\ (phase' = "marche" => msFlag' = pin'["pompe"])
<1> DEFINE s == reste[Boucle]
           r == Tail(s)
<1>1. /\ AuDemarrage /\ Amorce(s) /\ s # <<>> /\ s \in Seq(Operations)
      /\ Boucle \in Acteurs /\ pin \in [Appareils -> {0, 1}]
  BY DEF JInv, Seul, Formes, IInv, TypeOK, Acteurs, EnDemarrage
<1>2. /\ reste'[Boucle] = r
      /\ \A u \in Acteurs \ {Boucle} : reste'[u] = <<>>
  BY <1>1 DEF Suite, AuDemarrage, JInv, IInv, TypeOK
<1>3. \A i \in DOMAIN s : i # 1 => i - 1 \in DOMAIN r /\ r[i - 1] = s[i]
  BY <1>1, QueueReste
<1>4. CASE s[1].op = "servir"
  <2>1. r = <<>> /\ DOMAIN s = 1..1
    BY <1>1, <1>4, QueueAmorce
  <2>2. \A a \in Appareils : ~ \E i \in DOMAIN s : EstPin(s[i], a, 0)
    BY <1>4, <2>1 DEF EstPin
  <2>3. \A a \in Appareils : pin[a] = 0 /\ etat[a] = 0
    BY <1>1, <2>2 DEF AuDemarrage
  <2>4. /\ phase' = "marche" /\ pin' = pin /\ etat' = etat /\ msFlag' = 0
        /\ reste'[Boucle] = <<>>
    BY <1>1, <1>2, <1>4, <2>1 DEF AuDemarrage
  <2>5. EnMarche(reste[Boucle])'
    BY <2>3, <2>4 DEF EnMarche, SansCirculation, Appareils
  <2> QED
    BY <1>1, <1>2, <2>3, <2>4, <2>5 DEF Seul, Appareils
<1>5. CASE s[1].op # "servir"
  <2>1. phase' # "marche"
    BY <1>5 DEF EnDemarrage
  <2>2. ASSUME NEW a \in Appareils
        PROVE  pin'[a] = 0 \/ \E i \in DOMAIN r : EstPin(r[i], a, 0)
    <3>1. CASE pin[a] = 0
      BY <1>1, <1>5, <3>1
    <3>2. CASE pin[a] # 0
      <4>1. PICK i \in DOMAIN s : EstPin(s[i], a, 0)
        BY <1>1, <3>2 DEF AuDemarrage
      <4>2. CASE i = 1
        BY <1>1, <4>1, <4>2 DEF EstPin
      <4>3. CASE i # 1
        BY <1>3, <4>1, <4>3
      <4> QED
        BY <4>2, <4>3
    <3> QED
      BY <3>1, <3>2
  <2>3. \A a \in Appareils : etat'[a] = 0
    BY <1>1 DEF AuDemarrage
  <2>4. msFlag' = 0
    BY <1>1 DEF AuDemarrage
  <2>5. AuDemarrage'
    BY <1>2, <2>2, <2>3, <2>4 DEF AuDemarrage
  <2> QED
    BY <2>1, <2>5 DEF Seul
<1> QED
  BY <1>4, <1>5

LEMMA EnCoursSeul ==
    ASSUME JInv, ~croise, phase = "marche", NEW t \in Acteurs, reste[t] # <<>>
    PROVE  EnMarche(reste[t]) /\ \A u \in Acteurs \ {t} : reste[u] = <<>>
BY DEF JInv, Seul

LEMMA MarchePas ==
    ASSUME NEW t, EnCours(t), Pas(t), phase = "marche", phase' = phase,
           Suite(t) \/ (Abandon(t) /\ reste[t][1].op \in {"test", "garde"})
    PROVE  EnMarche(reste[t])'
<1>1. Head(reste[t]) = reste[t][1] /\ reste[t] # <<>>
  BY FaitsEnCours DEF EnCours
<1>2. CASE PasEtat(t)
  BY <1>2, MarcheEtat
<1>3. CASE PasPin(t)
  BY <1>3, MarchePin
<1>4. CASE ~PasEtat(t) /\ ~PasPin(t)
  <2>1. UNCHANGED <<etat, pin>> /\ reste[t][1].op \notin {"etat", "pin"}
    BY <1>1, <1>4 DEF Pas, PasFlag, PasGraphite, PasTest,
       PasGarde, PasOuvrir, PasServir, PasExit, EnTete, Mort
  <2>2. CASE Abandon(t) /\ reste[t][1].op \in {"test", "garde"}
    BY <2>1, <2>2, MarcheAbandon
  <2>3. CASE Suite(t) /\ ~(Abandon(t) /\ reste[t][1].op \in {"test", "garde"})
    <3>1. reste[t][1].op = "garde" => etat["pompe"] = 1
      BY <1>1, <1>4, <2>3 DEF Pas, PasFlag, PasGraphite, PasTest,
         PasGarde, PasOuvrir, PasServir, PasExit, EnTete
    <3> QED
      BY <2>1, <2>3, <3>1, MarcheNeutre
  <2> QED
    BY <2>2, <2>3
<1> QED
  BY <1>2, <1>3, <1>4

LEMMA SeulPas ==
    ASSUME JInv, NEW t \in Acteurs, Pas(t)
    PROVE  Seul'
<1>1. reste[t] # <<>> /\ reste \in [Acteurs -> Seq(Operations)]
  BY DEF JInv, IInv, TypeOK, Pas, PasEtat, PasPin, PasFlag, PasGraphite,
     PasTest, PasGarde, PasOuvrir, PasServir, PasExit, EnTete
<1>2. CASE Mort
  BY <1>2 DEF Mort, Seul
<1>3. CASE /\ EnDemarrage /\ t = Boucle /\ Suite(t)
           /\ etat' = etat /\ msFlag' = msFlag /\ croise' = croise
           /\ \/ /\ reste[t][1].op = "servir" /\ phase' = "marche" /\ pin' = pin
              \/ /\ reste[t][1].op = "ouvrir" /\ phase' = "gpio" /\ pin' = pin
              \/ /\ reste[t][1].op = "pin" /\ phase' = phase
                 /\ pin' = [pin EXCEPT ![reste[t][1].sur] = 0]
  <2>1. CASE croise
    BY <1>3, <2>1 DEF Seul
  <2>2. CASE ~croise
    BY <1>1, <1>3, <2>2, SeulBoot
  <2> QED
    BY <2>1, <2>2
<1>4. CASE /\ ~EnDemarrage \/ t # Boucle
           /\ phase' = phase /\ croise' = croise
           /\ Forme(reste[t]) /\ reste[t][1].op # "exit"
           /\ Suite(t) \/ (Abandon(t) /\ reste[t][1].op \in {"test", "garde"})
  <2> SUFFICES ASSUME ~croise
               PROVE  Seul'
    BY <1>4 DEF Seul
  <2>1. phase = "marche"
    <3>1. phase # "arret"
      BY <1>1 DEF JInv, IInv, TypeOK
    <3>2. ASSUME EnDemarrage, t # Boucle
          PROVE  FALSE
      BY <1>1, <3>2 DEF EnDemarrage, JInv, Seul, AuDemarrage
    <3> QED
      BY <1>4, <3>1, <3>2 DEF EnDemarrage, JInv, IInv, TypeOK
  <2>2. EnMarche(reste[t]) /\ \A u \in Acteurs \ {t} : reste[u] = <<>>
    BY <1>1, <2>1, EnCoursSeul
  <2>3. EnCours(t)
    BY <1>1, <1>4, <2>2 DEF EnCours
  <2>4. EnMarche(reste[t])'
    BY <1>4, <2>1, <2>3, MarchePas
  <2>5. \A u \in Acteurs \ {t} : reste'[u] = <<>>
    BY <1>1, <1>4, <2>2 DEF Suite, Abandon
  <2> QED
    BY <1>4, <2>1, <2>4, <2>5 DEF Seul
<1> QED
  BY <1>2, <1>3, <1>4, PasTrie

LEMMA SeulNext == JInv /\ [Next]_vars => Seul'
<1> SUFFICES ASSUME JInv, [Next]_vars
             PROVE  Seul'
  OBVIOUS
<1>1. CASE Lancement
  BY <1>1, SeulLancement
<1>2. CASE Panne
  BY <1>2 DEF Panne, Mort, Seul
<1>3. ASSUME NEW t \in Acteurs, NEW p \in Programmes, Lance(t, p)
      PROVE  Seul'
  BY <1>3, SeulLance
<1>4. ASSUME NEW t \in Acteurs, Pas(t)
      PROVE  Seul'
  BY <1>4, SeulPas
<1>5. CASE Sonde \/ PanneGraphite \/ RetourGraphite \/ UNCHANGED vars
  BY <1>5 DEF Sonde, PanneGraphite, RetourGraphite, vars, JInv, Seul,
     AuDemarrage, EnMarche, SansCirculation
<1> QED
  BY <1>1, <1>2, <1>3, <1>4, <1>5, EtapesSures

(* The invariant without fairness, as for SuiteSure.                       *)
THEOREM SuiteCoherente == Init /\ [][Next]_vars => []JInv
<1>1. Init => JInv
  BY IInvInit, FormesInit, SeulInit DEF JInv
<1>2. JInv /\ [Next]_vars => JInv'
  BY IInvNext, FormesNext, SeulNext DEF JInv
<1> QED
  BY <1>1, <1>2, PTL

-----------------------------------------------------------------------------
(* What it gives.                                                          *)

(* A cell that runs without the pump has its stop pending.                 *)
LEMMA CelluleSure == JInv => ElectrolyseProtegee
<1> SUFFICES ASSUME JInv, phase # "arret", ~croise, SansCirculation
             PROVE  \E t \in Acteurs : Attend(t, Pin("electrolyse", 0))
  BY DEF ElectrolyseProtegee, Expose
<1>1. \E t \in Acteurs : \E i \in DOMAIN reste[t] : EstPin(reste[t][i], "electrolyse", 0)
  <2>1. CASE phase \in {"ferme", "gpio"}
    BY <2>1 DEF JInv, Seul, AuDemarrage, SansCirculation, Acteurs, Appareils
  <2>2. CASE phase = "marche"
    BY <2>2 DEF JInv, Seul, EnMarche
  <2> QED
    BY <2>1, <2>2 DEF JInv, IInv, TypeOK
<1>2. PICK t \in Acteurs : \E i \in DOMAIN reste[t] : EstPin(reste[t][i], "electrolyse", 0)
  BY <1>1
<1>3. PICK i \in DOMAIN reste[t] : EstPin(reste[t][i], "electrolyse", 0)
  BY <1>2
<1>4. reste[t][i] \in Operations
  BY <1>3 DEF JInv, IInv, TypeOK
<1>5. reste[t][i] = Pin("electrolyse", 0)
  BY <1>3, <1>4, Egalites DEF Appareils
<1> QED
  BY <1>3, <1>5 DEF Attend

(* For every set of goroutines, keys and requests: with no two commands    *)
(* overlapping, the cell never runs without the pump unless the command in *)
(* progress, or the boot, has still to switch it off.                      *)
THEOREM CelluleProtegee == Spec => []ElectrolyseProtegee
BY SuiteCoherente, CelluleSure, PTL DEF Spec

(* At rest the only command is done, and its lines are written.            *)
LEMMA ReposSur == JInv => CoherentAuRepos
<1> SUFFICES ASSUME JInv, AuRepos, ~croise
             PROVE  pin = etat
  BY DEF CoherentAuRepos
<1>1. PICK t \in Acteurs : EnMarche(reste[t]) /\ reste[t] = <<>>
  BY DEF JInv, Seul, AuRepos
<1>2. \A a \in Appareils : pin[a] = etat[a]
  BY <1>1 DEF EnMarche, Finit
<1> QED
  BY <1>2 DEF JInv, IInv, TypeOK

(* For every set of goroutines, keys and requests: with no two commands    *)
(* overlapping, the lines at rest are what the state variables say, also   *)
(* after a crash and a restart.                                            *)
THEOREM ReposCoherent == Spec => []CoherentAuRepos
BY SuiteCoherente, ReposSur, PTL DEF Spec

(* What a goroutine has still to do is still to be done after its step,    *)
(* but for the access the step makes.                                      *)
LEMMA AttendReste ==
    ASSUME JInv, NEW t \in Acteurs, Suite(t), reste[t] # <<>>,
           NEW u \in Acteurs, NEW o, Attend(u, o), reste[t][1] # o
    PROVE  Attend(u, o)'
<1>1. /\ reste[t] \in Seq(Operations) /\ Head(reste[t]) = reste[t][1]
      /\ reste'[t] = Tail(reste[t])
      /\ \A v \in Acteurs \ {t} : reste'[v] = reste[v]
  BY QueuePlaces DEF JInv, IInv, TypeOK, Suite
<1>2. CASE u = t
  <2>1. Contient(reste[t], o)
    BY <1>2 DEF Attend, Contient
  <2>2. Contient(Tail(reste[t]), o)
    BY <1>1, <2>1, QueueContient
  <2> QED
    BY <1>1, <1>2, <2>2 DEF Attend, Contient
<1>3. CASE u # t
  BY <1>1, <1>3 DEF Attend
<1> QED
  BY <1>2, <1>3

Explique ==
    ~CompteurFaux /\ CompteurFaux' =>
        \E r \in Requetes : /\ reste[r] # <<>>
                            /\ Head(reste[r]) = Pin("pompe", pin'["pompe"])

LEMMA ExpliquePas ==
    ASSUME JInv, NEW t \in Acteurs, Pas(t)
    PROVE  Explique
<1> SUFFICES ASSUME ~CompteurFaux, CompteurFaux'
             PROVE  \E r \in Requetes : /\ reste[r] # <<>>
                                        /\ Head(reste[r]) = Pin("pompe", pin'["pompe"])
  BY DEF Explique
<1>1. /\ phase' = "marche" /\ ~croise' /\ msFlag' # pin'["pompe"]
      /\ \A u \in Acteurs, v \in {0, 1} :
            /\ v # msFlag' => ~Attend(u, Flag(v))'
            /\ v = msFlag' => ~Attend(u, Pin("pompe", v))'
  <2>1. /\ phase' = "marche" /\ ~croise' /\ msFlag' # pin'["pompe"]
        /\ \A u \in Acteurs :
              /\ ~ \E i \in DOMAIN reste'[u] : reste'[u][i] = Flag(1 - msFlag')
              /\ ~ \E i \in DOMAIN reste'[u] : reste'[u][i] = Pin("pompe", msFlag')
    BY DEF CompteurFaux, Attend
  <2>2. msFlag' = 0 \/ msFlag' = 1
    BY TypePas DEF JInv, IInv, TypeOK
  <2>3. \A v \in {0, 1} : v # msFlag' => v = 1 - msFlag'
    <3>1. 1 - 0 = 1 /\ 1 - 1 = 0
      OBVIOUS
    <3> QED
      BY <2>2, <3>1
  <2> QED
    BY <2>1, <2>3 DEF Attend
<1>2. /\ reste[t] # <<>> /\ reste[t] \in Seq(Operations)
      /\ reste[t][1] \in Operations /\ Head(reste[t]) = reste[t][1]
      /\ pin \in [Appareils -> {0, 1}] /\ msFlag \in {0, 1}
      /\ Boucle \in Acteurs
  BY QueuePlaces DEF JInv, IInv, TypeOK, Pas, PasEtat, PasPin, PasFlag, PasGraphite,
     PasTest, PasGarde, PasOuvrir, PasServir, PasExit, EnTete, Acteurs
<1>3. croise' = croise
  BY DEF Pas, PasEtat, PasPin, PasFlag, PasGraphite,
     PasTest, PasGarde, PasOuvrir, PasServir, PasExit, Mort
<1>4. phase = "marche"
  <2>1. ASSUME EnDemarrage, t = Boucle
        PROVE  FALSE
    <3>1. phase' = "marche" => msFlag' = pin'["pompe"]
      BY <1>1, <1>2, <1>3, <2>1, PasTrie, SeulBoot DEF Mort
    <3> QED
      BY <1>1, <3>1
  <2>2. ASSUME EnDemarrage, t # Boucle
        PROVE  FALSE
    BY <1>1, <1>2, <1>3, <2>2 DEF EnDemarrage, JInv, Seul, AuDemarrage
  <2>3. phase # "arret"
    BY <1>2 DEF JInv, IInv, TypeOK
  <2> QED
    BY <2>1, <2>2, <2>3 DEF EnDemarrage, JInv, IInv, TypeOK
<1>5. EnMarche(reste[t]) /\ \A u \in Acteurs \ {t} : reste[u] = <<>>
  BY <1>1, <1>2, <1>3, <1>4, EnCoursSeul
<1>6. /\ Forme(reste[t])
      /\ Suite(t) \/ (Abandon(t) /\ reste[t][1].op \in {"test", "garde"})
  BY <1>1, <1>4, PasTrie DEF Mort, EnDemarrage
<1>7. CASE PasPin(t) /\ reste[t][1].sur = "pompe"
  <2>1. /\ Suite(t) /\ pin'["pompe"] = reste[t][1].val /\ msFlag' = msFlag
        /\ EstPin(reste[t][1], "pompe", reste[t][1].val)
        /\ reste[t][1].val \in {0, 1}
    BY <1>2, <1>4, <1>7 DEF PasPin, EnTete, EstPin, Appareils, Operations
  <2>2. reste[t][1] = Pin("pompe", pin'["pompe"])
    BY <1>2, <2>1, Egalites DEF Appareils
  <2>3. CASE t \in Requetes
    BY <1>2, <2>2, <2>3
  <2>4. CASE t \notin Requetes
    <3>1. PompeSuivie(reste[t])
      BY <1>4, <2>4 DEF JInv, Formes
    <3>2. PICK j \in DOMAIN reste[t] : EstFlag(reste[t][j], reste[t][1].val)
      BY <1>2, <2>1, <3>1, QueueReste DEF PompeSuivie
    <3>3. reste[t][j] \in Operations
      BY <1>2, <3>2
    <3>4. reste[t][j] = Flag(pin'["pompe"])
      BY <2>1, <3>2, <3>3, Egalites DEF Appareils
    <3>5. PICK v \in {0, 1} : v = pin'["pompe"]
      BY <2>1
    <3>6. v # msFlag' /\ Attend(t, Flag(v)) /\ reste[t][1] # Flag(v)
      BY <1>1, <2>1, <3>4, <3>5 DEF Attend, EstPin, Flag
    <3>7. Attend(t, Flag(v))'
      BY <1>2, <2>1, <3>6, AttendReste
    <3> QED
      BY <1>1, <3>6, <3>7
  <2> QED
    BY <2>3, <2>4
<1>8. CASE PasFlag(t)
  BY <1>1, <1>2, <1>5, <1>8 DEF PasFlag, EnTete, EnMarche
<1>9. CASE ~PasFlag(t) /\ ~(PasPin(t) /\ reste[t][1].sur = "pompe")
  <2>1. /\ msFlag' = msFlag /\ pin'["pompe"] = pin["pompe"]
        /\ reste[t][1].op # "flag"
        /\ ~EstPin(reste[t][1], "pompe", reste[t][1].val)
    <3>1. CASE PasPin(t)
      <4>1. /\ pin' = [pin EXCEPT ![reste[t][1].sur] = reste[t][1].val]
            /\ msFlag' = msFlag /\ reste[t][1].op = "pin"
        BY <1>1, <1>2, <1>4, <3>1 DEF PasPin, EnTete
      <4>2. reste[t][1].sur # "pompe"
        BY <1>9, <3>1
      <4> QED
        BY <1>2, <4>1, <4>2 DEF EstPin, Appareils
    <3>2. CASE ~PasPin(t)
      BY <1>1, <1>2, <1>9, <3>2 DEF Pas, PasEtat, PasGraphite,
         PasTest, PasGarde, PasOuvrir, PasServir, PasExit, Mort, EnTete, EstPin
    <3> QED
      BY <3>1, <3>2
  <2>2. PICK v \in {0, 1} : v = msFlag'
    BY <1>2, <2>1
  <2>3. 1 - v \in {0, 1} /\ 1 - v # msFlag' /\ v = msFlag
    BY <2>1, <2>2
  <2>4. PICK u \in Acteurs : Attend(u, Flag(1 - v)) \/ Attend(u, Pin("pompe", v))
    BY <1>1, <1>3, <1>4, <2>1, <2>3 DEF CompteurFaux
  <2>5. PICK o \in {Flag(1 - v), Pin("pompe", v)} : Attend(u, o)
    BY <2>4
  <2>6. /\ reste[t][1] # o
        /\ o.op = "flag" \/ EstPin(o, "pompe", o.val)
    BY <2>1, <2>5 DEF EstPin, Flag, Pin
  <2>7. Suite(t)
    <3> SUFFICES ASSUME reste[t][1].op \in {"test", "garde"}
                 PROVE  FALSE
      BY <1>6
    <3>1. u = t
      BY <1>5, <2>5 DEF Attend
    <3>2. PICK j \in DOMAIN reste[t] : reste[t][j] = o
      BY <2>5, <3>1 DEF Attend
    <3>3. 1 \in DOMAIN reste[t]
      BY <1>2, QueueReste
    <3>4. j < 1
      BY <1>6, <2>6, <3>2, <3>3 DEF Forme, Conditions, EstCondition
    <3> QED
      BY <1>2, <3>2, <3>4, QueuePlaces
  <2>8. Attend(u, o)'
    BY <1>2, <2>5, <2>6, <2>7, AttendReste
  <2>9. ~Attend(u, Flag(1 - v))' /\ ~Attend(u, Pin("pompe", v))'
    BY <1>1, <2>2, <2>3
  <2> QED
    BY <2>5, <2>8, <2>9
<1> QED
  BY <1>7, <1>8, <1>9

LEMMA ExpliqueNext == JInv /\ [Next]_vars => [Explique]_vars
<1> SUFFICES ASSUME JInv, [Next]_vars, ~ UNCHANGED vars
             PROVE  Explique
  OBVIOUS
<1>1. CASE Lancement
  BY <1>1 DEF Lancement, Explique, CompteurFaux
<1>2. CASE Panne
  BY <1>2 DEF Panne, Mort, Explique, CompteurFaux
<1>3. ASSUME NEW t \in Acteurs, NEW p \in Programmes, Lance(t, p)
      PROVE  Explique
  <2>1. /\ phase' = phase /\ (~croise' => ~croise) /\ msFlag' = msFlag /\ pin' = pin
    BY <1>3 DEF Lance
  <2>2. \A u \in Acteurs : \A i \in DOMAIN reste[u] :
           \E j \in DOMAIN reste'[u] : reste'[u][j] = reste[u][i]
    BY <1>3 DEF Lance, JInv, IInv, TypeOK
  <2> QED
    BY <2>1, <2>2 DEF Explique, CompteurFaux, Attend
<1>4. ASSUME NEW t \in Acteurs, Pas(t)
      PROVE  Explique
  BY <1>4, ExpliquePas
<1>5. CASE Sonde \/ PanneGraphite \/ RetourGraphite
  BY <1>5 DEF Sonde, PanneGraphite, RetourGraphite, Explique, CompteurFaux, Attend
<1> QED
  BY <1>1, <1>2, <1>3, <1>4, <1>5, EtapesSures

(* ... under whatever fairness.                                            *)
LEMMA CompteurSansEquite == Init /\ [][Next]_vars => CompteurExplique
<1>1. JInv /\ [Next]_vars =>
        [~CompteurFaux /\ CompteurFaux' =>
            \E r \in Requetes : /\ reste[r] # <<>>
                               /\ Head(reste[r]) = Pin("pompe", pin'["pompe"])]_vars
  BY ExpliqueNext DEF Explique
<1> QED
  BY SuiteCoherente, <1>1, PTL DEF CompteurExplique

(* For every set of goroutines, keys and requests: while commands do not   *)
(* overlap, only a request for the pump sets the flag of the duration      *)
(* counter at odds with the pump for good.                                 *)
THEOREM CompteurJuste == Spec => CompteurExplique
BY CompteurSansEquite, PTL DEF Spec
=============================================================================
