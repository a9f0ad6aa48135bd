------------------------- MODULE BouclePlagesProofs -------------------------
(***************************************************************************)
(* What TLAPS proves of BouclePlages: that it only makes the steps of      *)
(* Commandes, so that what is proved there carries over; that its variables*)
(* keep their types and two windows are never open at once; that the pump  *)
(* follows the windows when only the loop commands it; and, when the loop  *)
(* also keeps up with the clock, that it follows the clock.                *)
(***************************************************************************)
EXTENDS BouclePlages, CommandesProofs

-----------------------------------------------------------------------------
(* Refinement: every step is a step of Commandes or leaves its variables.  *)

LEMMA PasBoucleNext == PasBoucle => [Next]_vars
<1>1. LireHeure \/ Sommeil => UNCHANGED vars
  BY DEF LireHeure, Sommeil
<1>2. ASSUME NEW i \in Plages, CalculPlage(i)
      PROVE  UNCHANGED vars
  BY <1>2 DEF CalculPlage
<1>3. ASSUME NEW i \in Plages,
             MarquerOuverte(i) \/ SauterDebut(i) \/ MarquerFermee(i) \/ SauterFin(i)
      PROVE  UNCHANGED vars
  BY <1>3 DEF MarquerOuverte, SauterDebut, MarquerFermee, SauterFin
<1>4. ASSUME NEW i \in Plages, OuvrirPlage(i) \/ FermerPlage(i)
      PROVE  Next
  BY <1>4 DEF OuvrirPlage, FermerPlage, Next
<1> QED
  BY <1>1, <1>2, <1>3, <1>4 DEF PasBoucle

LEMMA NextBNext == [NextB]_varsB => [Next]_vars
<1> SUFFICES ASSUME [NextB]_varsB
             PROVE  [Next]_vars
  OBVIOUS
<1>1. CASE LancementB
  BY <1>1 DEF LancementB, Next
<1>2. CASE PasBoucle
  BY <1>2, PasBoucleNext
<1>3. CASE Tic \/ MajDuree
  BY <1>3 DEF Tic, MajDuree
<1>4. CASE AutresCommandes
  BY <1>4 DEF AutresCommandes, Next
<1>5. CASE UNCHANGED varsB
  BY <1>5 DEF varsB
<1> QED
  BY <1>1, <1>2, <1>3, <1>4, <1>5 DEF NextB

(* The loop never touches the relays, the state variables or the pending   *)
(* accesses except by the commands that Commandes describes.               *)
THEOREM Raffinement == SpecB => CommandesRespectees
<1>1. InitB => Init
  BY DEF InitB
<1> QED
  BY <1>1, NextBNext, PTL DEF SpecB, CommandesRespectees

(* So the explanation of every exposure of the cell holds of the program   *)
(* with its clock and its windows.                                         *)
THEOREM ExplicationB == SpecB => ExpositionExpliquee
BY Raffinement, ExplicationSansEquite, PTL DEF CommandesRespectees

(* So does what holds while commands do not overlap: the program with its  *)
(* clock and its windows keeps the cell's interlock, its state variables   *)
(* and its counter's flag.                                                 *)
THEOREM CoherenceB ==
    SpecB => []ElectrolyseProtegee /\ []CoherentAuRepos /\ CompteurExplique
BY Raffinement, SuiteCoherente, CelluleSure, ReposSur, CompteurSansEquite, PTL
   DEF CommandesRespectees

-----------------------------------------------------------------------------
(* Types.                                                                  *)

LEMMA ModBorne ==
    ASSUME NEW x \in Int, NEW n \in Nat \ {0}
    PROVE  x % n \in 0..(n - 1)
OBVIOUS

LEMMA Produit ==
    ASSUME NEW x \in Int, NEW y \in Int
    PROVE  x * y \in Int
OBVIOUS

LEMMA JourPositif == Jour \in Nat \ {0}
<1>1. HeuresJour \in Nat /\ HeuresJour > 0 /\ ParHeure \in Nat /\ ParHeure > 0
  BY HorlogeAssumption
<1>2. \A x, y \in Nat : x > 0 /\ y > 0 => x * y \in Nat /\ x * y > 0
  OBVIOUS
<1> QED
  BY <1>1, <1>2 DEF Jour

LEMMA OuvertureDansLeJour == \A i \in Plages : Ouverture(i) \in 0..(Jour - 1)
BY HorlogeAssumption DEF Ouverture

LEMMA OuvertureEntiere == \A i \in Plages : Ouverture(i) \in Int
BY OuvertureDansLeJour, JourPositif

LEMMA FinDansLeJour ==
    ASSUME NEW i \in Plages, NEW d \in Int
    PROVE  FinPlageHeure(i, d) \in 0..(Jour - 1)
<1>1. Ouverture(i) + d * ParHeure \in Int
  BY OuvertureEntiere, HorlogeAssumption, Produit
<1> QED
  BY <1>1, JourPositif, ModBorne DEF FinPlageHeure

LEMMA DureeEntiere ==
    ASSUME NEW x \in Int
    PROVE  calculDuree(x) \in Int
BY DEF calculDuree

LEMMA TypeInitB == InitB => TypeOKB
BY JourPositif, OuvertureDansLeJour DEF InitB, TypeOKB, Plages

Positions ==
    {"lecture", "calcul", "debut", "ouverte", "fin", "fermee", "sommeil"} \X Plages

LEMMA TypePasBoucle == TypeOKB /\ PasBoucle => TypeOKB'
<1> SUFFICES ASSUME TypeOKB, PasBoucle
             PROVE  TypeOKB'
  OBVIOUS
<1>1. CASE LireHeure \/ Sommeil
  BY <1>1 DEF LireHeure, Sommeil, TypeOKB, Plages
<1>2. ASSUME NEW i \in Plages, CalculPlage(i)
      PROVE  TypeOKB'
  <2>1. FinPlageHeure(i, duree) \in 0..(Jour - 1)
    BY FinDansLeJour DEF TypeOKB
  <2>2. pos' \in Positions
    BY <1>2 DEF CalculPlage, Positions, Plages
  <2> QED
    BY <1>2, <2>1, <2>2 DEF CalculPlage, TypeOKB, Positions
<1>3. ASSUME NEW i \in Plages
      PROVE  <<"ouverte", i>> \in Positions /\ <<"fin", i>> \in Positions
             /\ <<"fermee", i>> \in Positions /\ Suivante(i) \in Positions
  BY DEF Positions, Suivante, Plages
<1>4. ASSUME NEW i \in Plages, OuvrirPlage(i) \/ SauterDebut(i)
      PROVE  TypeOKB'
  BY <1>3, <1>4 DEF OuvrirPlage, SauterDebut, TypeOKB, Positions
<1>5. ASSUME NEW i \in Plages, FermerPlage(i) \/ SauterFin(i)
      PROVE  TypeOKB'
  BY <1>3, <1>5 DEF FermerPlage, SauterFin, TypeOKB, Positions
<1>6. ASSUME NEW i \in Plages, MarquerOuverte(i) \/ MarquerFermee(i)
      PROVE  TypeOKB'
  BY <1>3, <1>6 DEF MarquerOuverte, MarquerFermee, TypeOKB, Positions
<1> QED
  BY <1>1, <1>2, <1>4, <1>5, <1>6 DEF PasBoucle

LEMMA TypeNextB == TypeOK /\ TypeOKB /\ [NextB]_varsB => TypeOKB'
<1> SUFFICES ASSUME TypeOK, TypeOKB, [NextB]_varsB
             PROVE  TypeOKB'
  OBVIOUS
<1>1. CASE LancementB
  BY <1>1, OuvertureDansLeJour DEF LancementB, TypeOKB, Plages
<1>2. CASE PasBoucle
  BY <1>2, TypePasBoucle
<1>3. CASE Tic
  <2>1. (heure + 1) % Jour \in 0..(Jour - 1)
    BY JourPositif, ModBorne DEF TypeOKB
  <2> QED
    BY <1>3, <2>1 DEF Tic, TypeOKB
<1>4. CASE MajDuree
  <2>1. tEau \in Int
    BY TemperaturesAssumption DEF TypeOK
  <2> QED
    BY <1>4, <2>1, DureeEntiere DEF MajDuree, TypeOKB
<1>5. CASE UNCHANGED varsBoucle
  BY <1>5 DEF varsBoucle, TypeOKB
<1> QED
  BY <1>1, <1>2, <1>3, <1>4, <1>5 DEF NextB, varsB

(* Whatever the windows, the clock and the temperatures are, the loop's    *)
(* variables keep values the code can give them; in particular the end of a*)
(* window is a time of the day, also when the window passes midnight.      *)
THEOREM TypeCorrectB == SpecB => []TypeOKB
<1>1. IInv => TypeOK
  BY DEF IInv
<1> QED
  BY TypeInitB, TypeNextB, Raffinement, SuiteSure, <1>1, PTL
     DEF SpecB, CommandesRespectees

-----------------------------------------------------------------------------
(* At most one open window.                                                *)

LEMMA PlagesNext == TypeOKB /\ UneSeulePlage /\ [NextB]_varsB => UneSeulePlage'
<1> SUFFICES ASSUME TypeOKB, UneSeulePlage, [NextB]_varsB
             PROVE  UneSeulePlage'
  OBVIOUS
<1>1. CASE LancementB
  BY <1>1 DEF LancementB, UneSeulePlage
<1>2. ASSUME NEW i \in Plages, MarquerOuverte(i)
      PROVE  UneSeulePlage'
  BY <1>2 DEF MarquerOuverte, UneSeulePlage
<1>3. ASSUME NEW i \in Plages, MarquerFermee(i)
      PROVE  UneSeulePlage'
  BY <1>3 DEF MarquerFermee, UneSeulePlage, TypeOKB
<1>4. CASE flag' = flag
  BY <1>4 DEF UneSeulePlage
<1> QED
  BY <1>1, <1>2, <1>3, <1>4
     DEF NextB, PasBoucle, LireHeure, Sommeil, CalculPlage, OuvrirPlage,
         SauterDebut, FermerPlage, SauterFin, Tic, MajDuree, varsBoucle, varsB

(* For every choice of windows, and however long Graphite delays the loop: *)
(* no two windows are marked open, so no closing stops the pump under      *)
(* another window.                                                         *)
THEOREM PlagesExclusives == SpecB => []UneSeulePlage
<1>1. InitB => UneSeulePlage
  BY DEF InitB, UneSeulePlage
<1> QED
  BY <1>1, PlagesNext, TypeCorrectB, PTL DEF SpecB

-----------------------------------------------------------------------------
(* The pump follows the windows, when nobody else commands it.             *)

(* No key and no request of the instance is for the pump; the cell and the *)
(* lamp may be commanded, and everything may crash.                        *)
SansCommandePompe ==
    /\ "P" \notin Touches /\ "Q" \notin Touches
    /\ \A v \in {0, 1} : <<"pompe", v>> \notin Urls

SansPompe(s) == \A i \in DOMAIN s : \A v \in {0, 1} : ~EstPin(s[i], "pompe", v)

(* The line is at p and what is left of the command, s, takes it to v.     *)
PompeVers(s, p, v) ==
    /\ \A i \in DOMAIN s : ~EstPin(s[i], "pompe", 1 - v)
    /\ p = v \/ \E i \in DOMAIN s : EstPin(s[i], "pompe", v)

BoucleSeule == \A t \in Acteurs \ {Boucle} : SansPompe(reste[t])

UneOuverte == \E i \in Plages : ~flag[i]

(* Where the pump is, or is going, at each position of the loop.           *)
PompeSuit ==
    /\ phase \in {"ferme", "gpio"} =>
          /\ pos = <<"lecture", 1>>
          /\ PompeVers(reste[Boucle], pin["pompe"], 0)
          /\ ~UneOuverte
    /\ phase = "marche" =>
          /\ pos[1] = "ouverte" => PompeVers(reste[Boucle], pin["pompe"], 1)
          /\ pos[1] = "fermee" => /\ PompeVers(reste[Boucle], pin["pompe"], 0)
                                  /\ ~flag[pos[2]]
          /\ pos[1] \notin {"ouverte", "fermee"} =>
                /\ reste[Boucle] = <<>>
                /\ pin["pompe"] = 1 <=> UneOuverte

KInv == JInv /\ TypeOKB /\ UneSeulePlage /\ BoucleSeule /\ PompeSuit

(* The programs: which of them move the pump, and where to.                *)
LEMMA SansPompeProgrammes ==
    /\ SansPompe(<<>>)
    /\ SansPompe(electrolyseOn) /\ SansPompe(electrolyseOff)
    /\ SansPompe(<<TestPompe>> \o electrolyseOn)
    /\ SansPompe(httpElectrolyseOff)
    /\ \A v \in {0, 1} : SansPompe(lampe(v))
<1> USE DEF SansPompe, EstPin
<1>1. SansPompe(<<>>)
  OBVIOUS
<1>2. SansPompe(electrolyseOn)
  BY DEF electrolyseOn, Garde, Etat, Pin, GraphiteCnx
<1>3. SansPompe(electrolyseOff)
  BY DEF electrolyseOff, Etat, Pin, GraphiteCnx
<1>4. SansPompe(<<TestPompe>> \o electrolyseOn)
  BY DEF electrolyseOn, TestPompe, Garde, Etat, Pin, GraphiteCnx
<1>5. SansPompe(httpElectrolyseOff)
  BY DEF httpElectrolyseOff, Etat, Pin
<1>6. \A v \in {0, 1} : SansPompe(lampe(v))
  BY DEF lampe, Etat, Pin
<1> QED
  BY <1>1, <1>2, <1>3, <1>4, <1>5, <1>6

LEMMA PompeProgrammes ==
    ASSUME NEW p
    PROVE  /\ PompeVers(demarrage, p, 0)
           /\ PompeVers(finPlage, p, 0)
           /\ PompeVers(debutPlage, p, 1)
<1>1. /\ DOMAIN demarrage = 1..5 /\ demarrage[1] = Ouvrir
      /\ demarrage[2] = Pin("pompe", 0) /\ demarrage[3] = Pin("electrolyse", 0)
      /\ demarrage[4] = Pin("lampe", 0) /\ demarrage[5] = Servir
  BY DEF demarrage
<1>2. /\ DOMAIN finPlage = 1..7 /\ finPlage[1] = Etat("pompe", 0)
      /\ finPlage[2] = Pin("pompe", 0) /\ finPlage[3] = Flag(0)
      /\ finPlage[4] = GraphiteCnx /\ finPlage[5] = Etat("electrolyse", 0)
      /\ finPlage[6] = Pin("electrolyse", 0) /\ finPlage[7] = GraphiteCnx
  BY DEF finPlage, pompeOff, electrolyseOff
<1>3. /\ DOMAIN debutPlage = 1..8 /\ debutPlage[1] = Etat("pompe", 1)
      /\ debutPlage[2] = Pin("pompe", 1) /\ debutPlage[3] = Flag(1)
      /\ debutPlage[4] = GraphiteCnx /\ debutPlage[5] = Garde
      /\ debutPlage[6] = Etat("electrolyse", 1)
      /\ debutPlage[7] = Pin("electrolyse", 1) /\ debutPlage[8] = GraphiteCnx
  BY DEF debutPlage, pompeOn, electrolyseOn
<1>4. PompeVers(demarrage, p, 0)
  BY <1>1 DEF PompeVers, EstPin, Ouvrir, Servir, Pin
<1>5. PompeVers(finPlage, p, 0)
  BY <1>2 DEF PompeVers, EstPin, Etat, Pin, Flag, GraphiteCnx
<1>6. PompeVers(debutPlage, p, 1)
  BY <1>3 DEF PompeVers, EstPin, Etat, Pin, Flag, GraphiteCnx, Garde
<1> QED
  BY <1>4, <1>5, <1>6

(* One access: the command still takes the pump where it was going.        *)
LEMMA QueueVers ==
    ASSUME NEW s \in Seq(Operations), s # <<>>, NEW p, NEW q, NEW v \in {0, 1},
           PompeVers(s, p, v),
           IF s[1].op = "pin" /\ s[1].sur = "pompe" THEN q = s[1].val ELSE q = p
    PROVE  PompeVers(Tail(s), q, v)
<1>1. /\ Len(s) \in Nat /\ Len(s) > 0 /\ DOMAIN s = 1..Len(s)
      /\ DOMAIN Tail(s) = 1..(Len(s) - 1)
      /\ s[1] \in Operations
      /\ \A i \in 1..(Len(s) - 1) : Tail(s)[i] = s[i + 1]
  BY QueuePlaces
<1>2. s[1].val \in {0, 1}
  BY <1>1 DEF Operations
<1>3. \A i \in DOMAIN Tail(s) : ~EstPin(Tail(s)[i], "pompe", 1 - v)
  BY <1>1 DEF PompeVers
<1>4. CASE EstPin(s[1], "pompe", v)
  BY <1>3, <1>4 DEF PompeVers, EstPin
<1>5. CASE ~EstPin(s[1], "pompe", v)
  <2>1. ~EstPin(s[1], "pompe", 1 - v)
    BY <1>1 DEF PompeVers
  <2>2. q = p
    BY <1>2, <1>5, <2>1 DEF EstPin
  <2>3. ASSUME NEW i \in DOMAIN s, EstPin(s[i], "pompe", v)
        PROVE  \E j \in DOMAIN Tail(s) : EstPin(Tail(s)[j], "pompe", v)
    <3>1. i # 1 /\ i - 1 \in DOMAIN Tail(s) /\ Tail(s)[i - 1] = s[i]
      BY <1>1, <1>5, <2>3
    <3> QED
      BY <2>3, <3>1
  <2> QED
    BY <1>3, <2>2, <2>3 DEF PompeVers
<1> QED
  BY <1>4, <1>5

LEMMA QueueSansPompe ==
    ASSUME NEW s \in Seq(Operations), s # <<>>, SansPompe(s)
    PROVE  SansPompe(Tail(s)) /\ ~(s[1].op = "pin" /\ s[1].sur = "pompe")
<1>1. /\ Len(s) \in Nat /\ Len(s) > 0 /\ DOMAIN s = 1..Len(s)
      /\ DOMAIN Tail(s) = 1..(Len(s) - 1)
      /\ s[1] \in Operations
      /\ \A i \in 1..(Len(s) - 1) : Tail(s)[i] = s[i + 1]
  BY QueuePlaces
<1>2. s[1].val \in {0, 1} /\ 1 \in DOMAIN s
  BY <1>1 DEF Operations
<1> QED
  BY <1>1, <1>2 DEF SansPompe, EstPin

(* A condition that fails drops no access to the pump's line.              *)
LEMMA AbandonVers ==
    ASSUME NEW s \in Seq(Operations), s # <<>>, NEW p, NEW v \in {0, 1},
           PompeVers(s, p, v), Forme(s), s[1].op \in {"test", "garde"}
    PROVE  PompeVers(<<>>, p, v)
<1>1. 1 \in DOMAIN s /\ \A i \in DOMAIN s : i >= 1
  BY QueuePlaces
<1>2. \A i \in DOMAIN s : ~EstPin(s[i], "pompe", v)
  BY <1>1 DEF Forme, Conditions, EstCondition, EstPin
<1> QED
  BY <1>2 DEF PompeVers

(* What an access does to the pump's line.                                 *)
LEMMA PasPompe ==
    ASSUME JInv, NEW t \in Acteurs, Pas(t), ~Mort
    PROVE  IF reste[t][1].op = "pin" /\ reste[t][1].sur = "pompe"
           THEN pin'["pompe"] = reste[t][1].val
           ELSE pin'["pompe"] = pin["pompe"]
<1>1. /\ reste[t] # <<>> /\ Head(reste[t]) = reste[t][1] /\ reste[t][1] \in Operations
      /\ pin \in [Appareils -> {0, 1}] /\ "pompe" \in Appareils
  BY QueuePlaces DEF JInv, IInv, TypeOK, Pas, PasEtat, PasPin, PasFlag, PasGraphite,
     PasTest, PasGarde, PasOuvrir, PasServir, PasExit, EnTete, Appareils
<1>2. reste[t][1].sur \in Appareils
  BY <1>1 DEF Operations
<1> QED
  BY <1>1, <1>2 DEF Pas, PasEtat, PasPin, PasFlag, PasGraphite,
     PasTest, PasGarde, PasOuvrir, PasServir, PasExit, EnTete

(* A step of the loop finds the program running and its own command done.  *)
LEMMA EtapeFacile ==
    ASSUME PompeSuit, NEW e, NEW i, Etape(e, i)
    PROVE  /\ phase = "marche" /\ reste[Boucle] = <<>> /\ pos = <<e, i>>
           /\ pos[1] = e /\ pos[2] = i
           /\ e = "ouverte" => pin["pompe"] = 1
           /\ e = "fermee" => pin["pompe"] = 0 /\ ~flag[i]
           /\ e \notin {"ouverte", "fermee"} => (pin["pompe"] = 1 <=> UneOuverte)
BY DEF Etape, PompeSuit, PompeVers

LEMMA SuitPasBoucle ==
    ASSUME TypeOK, TypeOKB, UneSeulePlage, BoucleSeule, PompeSuit, PasBoucle
    PROVE  BoucleSeule' /\ PompeSuit'
<1> USE DEF Plages
<1>1. CASE LireHeure \/ Sommeil
  <2>1. pos' \in {<<"calcul", 1>>, <<"lecture", 1>>} /\ UNCHANGED <<vars, flag>>
    BY <1>1 DEF LireHeure, Sommeil
  <2>2. pos'[1] \in {"calcul", "lecture"}
    BY <2>1
  <2>3. phase = "marche" /\ reste[Boucle] = <<>> /\ (pin["pompe"] = 1 <=> UneOuverte)
    BY <1>1, EtapeFacile DEF LireHeure, Sommeil
  <2> QED
    BY <2>1, <2>2, <2>3 DEF PompeSuit, BoucleSeule, UneOuverte, vars
<1>2. ASSUME NEW i \in Plages, CalculPlage(i) \/ SauterDebut(i) \/ SauterFin(i)
      PROVE  BoucleSeule' /\ PompeSuit'
  <2>1. pos'[1] \in {"calcul", "debut", "fin", "sommeil"} /\ UNCHANGED <<vars, flag>>
    BY <1>2 DEF CalculPlage, SauterDebut, SauterFin, Suivante
  <2>2. phase = "marche" /\ reste[Boucle] = <<>> /\ (pin["pompe"] = 1 <=> UneOuverte)
    BY <1>2, EtapeFacile DEF CalculPlage, SauterDebut, SauterFin
  <2> QED
    BY <2>1, <2>2 DEF PompeSuit, BoucleSeule, UneOuverte, vars
<1>3. ASSUME NEW i \in Plages, OuvrirPlage(i) \/ FermerPlage(i)
      PROVE  BoucleSeule' /\ PompeSuit'
  <2>1. /\ UNCHANGED <<phase, pin, flag>>
        /\ \A u \in Acteurs \ {Boucle} : reste'[u] = reste[u]
    BY <1>3 DEF OuvrirPlage, FermerPlage, DebutPlage, FinPlage, Lance, TypeOK, Acteurs
  <2>2. phase = "marche"
    BY <1>3, EtapeFacile DEF OuvrirPlage, FermerPlage
  <2>3. CASE OuvrirPlage(i)
    <3>1. reste'[Boucle] = debutPlage /\ pos'[1] = "ouverte"
      BY <2>3 DEF OuvrirPlage, DebutPlage, Lance, TypeOK, Acteurs
    <3> QED
      BY <2>1, <2>2, <3>1, PompeProgrammes DEF PompeSuit, BoucleSeule
  <2>4. CASE FermerPlage(i)
    <3>1. reste'[Boucle] = finPlage /\ pos'[1] = "fermee" /\ pos'[2] = i /\ ~flag[i]
      BY <2>4 DEF FermerPlage, AFermer, FinPlage, Lance, TypeOK, Acteurs
    <3> QED
      BY <2>1, <2>2, <3>1, PompeProgrammes DEF PompeSuit, BoucleSeule
  <2> QED
    BY <1>3, <2>3, <2>4
<1>4. ASSUME NEW i \in Plages, MarquerOuverte(i)
      PROVE  BoucleSeule' /\ PompeSuit'
  <2>1. phase = "marche" /\ reste[Boucle] = <<>> /\ pin["pompe"] = 1
    BY <1>4, EtapeFacile DEF MarquerOuverte
  <2>2. UneOuverte' /\ pos'[1] = "fin"
    BY <1>4 DEF MarquerOuverte, UneOuverte
  <2> QED
    BY <1>4, <2>1, <2>2 DEF MarquerOuverte, PompeSuit, BoucleSeule, vars
<1>5. ASSUME NEW i \in Plages, MarquerFermee(i)
      PROVE  BoucleSeule' /\ PompeSuit'
  <2>1. phase = "marche" /\ reste[Boucle] = <<>> /\ pin["pompe"] = 0 /\ ~flag[i]
    BY <1>5, EtapeFacile DEF MarquerFermee
  <2>2. ~UneOuverte'
    BY <1>5, <2>1 DEF MarquerFermee, UneOuverte, UneSeulePlage, TypeOKB
  <2>3. pos'[1] \in {"debut", "sommeil"}
    BY <1>5 DEF MarquerFermee, Suivante
  <2> QED
    BY <1>5, <2>1, <2>2, <2>3 DEF MarquerFermee, PompeSuit, BoucleSeule, vars
<1> QED
  BY <1>1, <1>2, <1>3, <1>4, <1>5 DEF PasBoucle

(* The commands that are left to the others do not touch the pump.         *)
LEMMA SuitCommande ==
    ASSUME SansCommandePompe, TypeOK, BoucleSeule, PompeSuit,
           \/ ToucheP \/ ToucheE \/ ToucheL \/ ToucheQ
           \/ \E r \in Requetes : HttpPompe(r) \/ HttpElectro(r) \/ HttpLampe(r),
           UNCHANGED varsBoucle
    PROVE  BoucleSeule' /\ PompeSuit'
<1>1. ASSUME NEW t \in Acteurs \ {Boucle}, NEW p, SansPompe(p), Lance(t, p)
      PROVE  BoucleSeule' /\ PompeSuit'
  <2>1. /\ reste'[t] = p /\ \A u \in Acteurs \ {t} : reste'[u] = reste[u]
        /\ UNCHANGED <<phase, pin, pos, flag>>
    BY <1>1 DEF Lance, TypeOK, varsBoucle
  <2>2. Boucle \in Acteurs /\ Boucle # t
    BY <1>1 DEF Acteurs
  <2>3. reste'[Boucle] = reste[Boucle]
    BY <2>1, <2>2
  <2> QED
    BY <1>1, <2>1, <2>3 DEF BoucleSeule, PompeSuit, UneOuverte
<1>2. Clavier \in Acteurs \ {Boucle} /\ Requetes \subseteq Acteurs \ {Boucle}
  BY ActeursAssumption DEF Acteurs
<1>3. ~ToucheP /\ ~ToucheQ /\ \A r \in Requetes : ~HttpPompe(r)
  BY DEF SansCommandePompe, ToucheP, ToucheQ, HttpPompe
<1>4. CASE ToucheE \/ ToucheL
  BY <1>1, <1>2, <1>4, SansPompeProgrammes DEF ToucheE, ToucheL
<1>5. ASSUME NEW r \in Requetes, HttpElectro(r) \/ HttpLampe(r)
      PROVE  BoucleSeule' /\ PompeSuit'
  BY <1>1, <1>2, <1>5, SansPompeProgrammes DEF HttpElectro, HttpLampe
<1> QED
  BY <1>3, <1>4, <1>5

LEMMA SuitMort == Mort => BoucleSeule' /\ PompeSuit'
BY SansPompeProgrammes DEF Mort, BoucleSeule, PompeSuit

LEMMA SuitPas ==
    ASSUME JInv, BoucleSeule, PompeSuit, UNCHANGED varsBoucle,
           NEW t \in Acteurs, Pas(t)
    PROVE  BoucleSeule' /\ PompeSuit'
<1> SUFFICES ASSUME ~Mort
             PROVE  BoucleSeule' /\ PompeSuit'
  BY SuitMort
<1>1. /\ reste[t] # <<>> /\ reste[t] \in Seq(Operations)
      /\ reste \in [Acteurs -> Seq(Operations)]
      /\ Boucle \in Acteurs
      /\ UNCHANGED <<pos, flag>>
  BY DEF JInv, IInv, TypeOK, Pas, PasEtat, PasPin, PasFlag, PasGraphite,
     PasTest, PasGarde, PasOuvrir, PasServir, PasExit, EnTete, Acteurs, varsBoucle
<1>2. /\ reste'[t] = Tail(reste[t]) \/ reste'[t] = <<>>
      /\ \A u \in Acteurs \ {t} : reste'[u] = reste[u]
  BY <1>1, PasTrie DEF Suite, Abandon
<1>3. UneOuverte' <=> UneOuverte
  BY <1>1 DEF UneOuverte
<1>4. CASE t # Boucle
  <2>1. SansPompe(reste[t])
    BY <1>4 DEF BoucleSeule
  <2>2. BoucleSeule'
    BY <1>1, <1>2, <2>1, QueueSansPompe, SansPompeProgrammes DEF BoucleSeule
  <2>3. pin'["pompe"] = pin["pompe"]
    BY <1>1, <2>1, QueueSansPompe, PasPompe
  <2>4. phase' = phase
    BY <1>4, PasTrie
  <2>5. reste'[Boucle] = reste[Boucle]
    BY <1>1, <1>2, <1>4
  <2> QED
    BY <1>1, <1>3, <2>2, <2>3, <2>4, <2>5 DEF PompeSuit
<1>5. CASE t = Boucle
  <2>1. BoucleSeule'
    BY <1>2, <1>5 DEF BoucleSeule
  <2>2. ASSUME NEW v \in {0, 1}, PompeVers(reste[Boucle], pin["pompe"], v)
        PROVE  PompeVers(Tail(reste[Boucle]), pin'["pompe"], v)
    BY <1>1, <1>5, <2>2, QueueVers, PasPompe
  <2>3. CASE EnDemarrage
    <3>1. /\ reste'[Boucle] = Tail(reste[Boucle]) /\ Amorce(reste[Boucle])
          /\ \/ reste[Boucle][1].op = "servir" /\ phase' = "marche"
             \/ reste[Boucle][1].op # "servir" /\ phase' \in {"ferme", "gpio"}
      BY <1>1, <1>5, <2>3, PasTrie DEF Suite, EnDemarrage
    <3>2. PompeVers(reste'[Boucle], pin'["pompe"], 0) /\ pos = <<"lecture", 1>> /\ ~UneOuverte
      BY <2>2, <2>3, <3>1 DEF PompeSuit, EnDemarrage
    <3>3. CASE phase' = "marche"
      <4>1. reste'[Boucle] = <<>>
        BY <1>1, <1>5, <3>1, <3>3, QueueAmorce
      <4>2. pin'["pompe"] = 0
        BY <3>2, <4>1 DEF PompeVers
      <4> QED
        BY <1>1, <1>3, <2>1, <3>2, <3>3, <4>1, <4>2 DEF PompeSuit
    <3>4. CASE phase' \in {"ferme", "gpio"}
      BY <1>1, <1>3, <2>1, <3>2, <3>4 DEF PompeSuit
    <3> QED
      BY <3>1, <3>3, <3>4
  <2>4. CASE ~EnDemarrage
    <3>1. /\ phase' = phase /\ Forme(reste[Boucle])
          /\ \/ reste'[Boucle] = Tail(reste[Boucle])
             \/ reste'[Boucle] = <<>> /\ reste[Boucle][1].op \in {"test", "garde"}
      BY <1>1, <1>5, <2>4, PasTrie DEF Suite, Abandon
    <3>2. ASSUME NEW v \in {0, 1}, PompeVers(reste[Boucle], pin["pompe"], v)
          PROVE  PompeVers(reste'[Boucle], pin'["pompe"], v)
      <4>1. CASE reste'[Boucle] = Tail(reste[Boucle])
        BY <2>2, <3>2, <4>1
      <4>2. CASE reste'[Boucle] = <<>> /\ reste[Boucle][1].op \in {"test", "garde"}
        <5>1. pin'["pompe"] = pin["pompe"]
          BY <1>5, <4>2, PasPompe
        <5> QED
          BY <1>1, <1>5, <3>1, <3>2, <4>2, <5>1, AbandonVers
      <4> QED
        BY <3>1, <4>1, <4>2
    <3>3. CASE pos[1] \in {"ouverte", "fermee"}
      BY <1>1, <2>1, <2>4, <3>1, <3>2, <3>3 DEF PompeSuit, EnDemarrage
    <3>4. CASE phase = "marche" /\ pos[1] \notin {"ouverte", "fermee"}
      BY <1>1, <1>5, <3>4 DEF PompeSuit
    <3>5. CASE phase # "marche"
      BY <2>1, <2>4, <3>1, <3>5 DEF PompeSuit, EnDemarrage
    <3> QED
      BY <3>3, <3>4, <3>5
  <2> QED
    BY <2>3, <2>4
<1> QED
  BY <1>4, <1>5

LEMMA SuitNext ==
    ASSUME SansCommandePompe
    PROVE  JInv /\ TypeOKB /\ UneSeulePlage /\ BoucleSeule /\ PompeSuit /\ [NextB]_varsB
               => BoucleSeule' /\ PompeSuit'
<1> SUFFICES ASSUME JInv, TypeOKB, UneSeulePlage, BoucleSeule, PompeSuit, [NextB]_varsB
             PROVE  BoucleSeule' /\ PompeSuit'
  OBVIOUS
<1> TypeOK
  BY DEF JInv, IInv
<1>1. CASE LancementB
  <2>1. /\ phase = "arret" /\ phase' = "ferme" /\ pos' = <<"lecture", 1>>
        /\ \A i \in Plages : flag'[i]
        /\ reste'[Boucle] = demarrage
        /\ \A u \in Acteurs \ {Boucle} : reste'[u] = <<>>
    BY <1>1 DEF LancementB, Lancement, TypeOK, Acteurs
  <2> QED
    BY <2>1, PompeProgrammes, SansPompeProgrammes DEF BoucleSeule, PompeSuit, UneOuverte
<1>2. CASE PasBoucle
  BY <1>2, SuitPasBoucle
<1>3. CASE Tic \/ MajDuree
  BY <1>3 DEF Tic, MajDuree, BoucleSeule, PompeSuit, UneOuverte, vars
<1>4. CASE AutresCommandes /\ UNCHANGED varsBoucle
  <2>1. CASE Panne
    BY <2>1, SuitMort DEF Panne
  <2>2. ASSUME NEW t \in Acteurs, Pas(t)
        PROVE  BoucleSeule' /\ PompeSuit'
    BY <1>4, <2>2, SuitPas
  <2>3. CASE Sonde \/ PanneGraphite \/ RetourGraphite
    BY <1>4, <2>3 DEF Sonde, PanneGraphite, RetourGraphite, BoucleSeule, PompeSuit,
       UneOuverte, varsBoucle
  <2> QED
    BY <1>4, <2>1, <2>2, <2>3, SuitCommande DEF AutresCommandes
<1>5. CASE UNCHANGED varsB
  BY <1>5 DEF varsB, vars, varsBoucle, BoucleSeule, PompeSuit, UneOuverte
<1> QED
  BY <1>1, <1>2, <1>3, <1>4, <1>5 DEF NextB

(* The inductive invariant behind what follows: where the pump is or is    *)
(* going at each position of the loop, through boots, crashes and outages  *)
(* of Graphite in the middle of an opening or a closing.                   *)
THEOREM PompeSuitLaBoucle ==
    ASSUME SansCommandePompe
    PROVE  SpecB => []KInv
<1>1. InitB => BoucleSeule /\ PompeSuit
  BY SansPompeProgrammes DEF InitB, Init, BoucleSeule, PompeSuit
<1>2. JInv /\ TypeOKB /\ UneSeulePlage /\ BoucleSeule /\ PompeSuit /\ [NextB]_varsB
         => BoucleSeule' /\ PompeSuit'
  BY SuitNext
<1>3. KInv <=> JInv /\ TypeOKB /\ UneSeulePlage /\ BoucleSeule /\ PompeSuit
  BY DEF KInv
<1> QED
  BY <1>1, <1>2, <1>3, Raffinement, SuiteCoherente, TypeCorrectB, PlagesExclusives, PTL
     DEF SpecB, CommandesRespectees

(* For every choice of windows and temperatures, however long Graphite     *)
(* keeps the loop waiting and wherever the process dies: when no key and no*)
(* request is for the pump, it runs at the end of a round exactly when a   *)
(* window is marked open.                                                  *)
THEOREM PompeToujoursSelonDrapeaux ==
    ASSUME SansCommandePompe
    PROVE  SpecB => []PompeSelonDrapeaux
<1>1. KInv => PompeSelonDrapeaux
  BY EtapeFacile DEF KInv, PompeSelonDrapeaux, EnSommeil, UneOuverte
<1> QED
  BY <1>1, PompeSuitLaBoucle, PTL

-----------------------------------------------------------------------------
(* The pump follows the clock, when the loop keeps up with it.             *)

Durees == {calculDuree(t) : t \in Temperatures}

(* No window that these temperatures give ends in the last step of the day,*)
(* so that the loop sees the clock pass its end before midnight.           *)
AvantMinuit == \A i \in Plages, d \in Durees : FinPlageHeure(i, d) < Jour - 1

Dedans(i) == hc > Ouverture(i) /\ hc < fin[i]

(* This round has decided whether window i opens, and whether it closes.   *)
Examinee(i) ==
    \/ pos[1] = "sommeil"
    \/ pos[1] \in {"debut", "ouverte"} /\ i < pos[2]
    \/ pos[1] \in {"fin", "fermee"} /\ i <= pos[2]

Rendue(i) ==
    \/ pos[1] \in {"sommeil", "lecture"}
    \/ pos[1] \in {"debut", "ouverte", "fin", "fermee"} /\ i < pos[2]

(* The clock is at most one step ahead of the loop, and only between two   *)
(* rounds.                                                                 *)
Horloge ==
    /\ duree \in Durees
    /\ \A i \in Plages : fin[i] < Jour - 1
    /\ phase # "arret" =>
          \/ heure = hc
          \/ pos \in {<<"sommeil", 1>>, <<"lecture", 1>>} /\ heure = (hc + 1) % Jour

Fenetres ==
    phase # "arret" =>
        /\ \A i \in Plages : ~flag[i] => hc > Ouverture(i) /\ (Rendue(i) => hc <= fin[i])
        /\ pos[1] = "ouverte" => Dedans(pos[2])
        /\ pos[1] = "fermee" => \A i \in Plages : Examinee(i) => ~Dedans(i)
        /\ pos[1] # "fermee" =>
              \A i \in Plages : Examinee(i) /\ Dedans(i)
                                   => \E j \in Plages : ~flag[j] /\ hc <= fin[j]

HInv == Horloge /\ Fenetres

LEMMA ModPetit ==
    ASSUME NEW x \in Nat, NEW n \in Nat, x < n
    PROVE  x % n = x
OBVIOUS

LEMMA DureeAuDepart == 0 \in Durees
<1>1. calculDuree(0) = 0
  BY DEF calculDuree
<1> QED
  BY <1>1, TemperaturesAssumption DEF Durees

LEMMA OuvertureAvantMinuit ==
    ASSUME AvantMinuit
    PROVE  \A i \in Plages : Ouverture(i) < Jour - 1
<1> SUFFICES ASSUME NEW i \in Plages
             PROVE  Ouverture(i) < Jour - 1
  OBVIOUS
<1>1. Ouverture(i) \in Nat /\ Ouverture(i) < Jour /\ Jour \in Nat
  BY OuvertureDansLeJour, JourPositif
<1>2. Ouverture(i) % Jour = Ouverture(i)
  BY <1>1, ModPetit
<1>3. Ouverture(i) + 0 * ParHeure = Ouverture(i)
  BY <1>1, HorlogeAssumption
<1>4. FinPlageHeure(i, 0) = Ouverture(i)
  BY <1>2, <1>3 DEF FinPlageHeure
<1> QED
  BY <1>4, DureeAuDepart DEF AvantMinuit

LEMMA ResteArrete ==
    ASSUME TypeOK, AutresCommandes, phase = "arret"
    PROVE  phase' = "arret"
<1>1. ~Panne
  BY DEF Panne
<1>2. \A t, p : ~Lance(t, p)
  BY DEF Lance
<1>3. ~(ToucheP \/ ToucheE \/ ToucheL \/ ToucheQ)
  BY <1>2 DEF ToucheP, ToucheE, ToucheL, ToucheQ
<1>4. \A r \in Requetes : ~(HttpPompe(r) \/ HttpElectro(r) \/ HttpLampe(r))
  BY <1>2 DEF HttpPompe, HttpElectro, HttpLampe
<1>5. \A t \in Acteurs : ~Pas(t)
  BY DEF TypeOK, Pas, PasEtat, PasPin, PasFlag, PasGraphite,
     PasTest, PasGarde, PasOuvrir, PasServir, PasExit, EnTete
<1>6. Sonde \/ PanneGraphite \/ RetourGraphite => phase' = phase
  BY DEF Sonde, PanneGraphite, RetourGraphite
<1> QED
  BY <1>1, <1>3, <1>4, <1>5, <1>6 DEF AutresCommandes

LEMMA HorlogeNext ==
    ASSUME AvantMinuit, ~PannesLongues
    PROVE  TypeOK /\ TypeOKB /\ Horloge /\ [NextB]_varsB => Horloge'
<1> SUFFICES ASSUME TypeOK, TypeOKB, Horloge, [NextB]_varsB
             PROVE  Horloge'
  OBVIOUS
<1>1. CASE LancementB
  <2>1. \A i \in Plages : fin'[i] = Ouverture(i)
    BY <1>1 DEF LancementB
  <2> QED
    BY <1>1, <2>1, DureeAuDepart, OuvertureAvantMinuit DEF LancementB, Horloge
<1>2. CASE LireHeure \/ Sommeil
  BY <1>2 DEF LireHeure, Sommeil, Etape, Horloge, vars
<1>3. ASSUME NEW i \in Plages, CalculPlage(i)
      PROVE  Horloge'
  <2>1. /\ fin \in [Plages -> 0..(Jour - 1)]
        /\ fin' = [fin EXCEPT ![i] = FinPlageHeure(i, duree)]
    BY <1>3 DEF CalculPlage, TypeOKB
  <2>2. FinPlageHeure(i, duree) < Jour - 1
    BY DEF AvantMinuit, Horloge
  <2>3. ASSUME NEW j \in Plages
        PROVE  fin'[j] < Jour - 1
    <3>1. CASE j = i
      <4>1. fin'[j] = FinPlageHeure(i, duree)
        BY <2>1, <3>1
      <4> QED
        BY <2>2, <4>1
    <3>2. CASE j # i
      <4>1. fin'[j] = fin[j]
        BY <2>1, <3>2
      <4> QED
        BY <4>1 DEF Horloge
    <3> QED
      BY <3>1, <3>2
  <2>4. pos[1] = "calcul" /\ pos # <<"sommeil", 1>> /\ pos # <<"lecture", 1>>
    BY <1>3 DEF CalculPlage, Etape
  <2> QED
    BY <1>3, <2>3, <2>4 DEF CalculPlage, Horloge, vars
<1>4. ASSUME NEW i \in Plages,
             \/ OuvrirPlage(i) \/ MarquerOuverte(i) \/ SauterDebut(i)
             \/ FermerPlage(i) \/ MarquerFermee(i) \/ SauterFin(i)
      PROVE  Horloge'
  <2>1. pos # <<"sommeil", 1>> /\ pos # <<"lecture", 1>> /\ phase = "marche"
    BY <1>4 DEF OuvrirPlage, MarquerOuverte, SauterDebut, FermerPlage, MarquerFermee,
       SauterFin, Etape
  <2>2. UNCHANGED <<heure, hc, duree, fin>>
    BY <1>4 DEF OuvrirPlage, MarquerOuverte, SauterDebut, FermerPlage, MarquerFermee,
       SauterFin
  <2> QED
    BY <2>1, <2>2 DEF Horloge
<1>5. CASE Tic
  BY <1>5 DEF Tic, Etape, Horloge, vars
<1>6. CASE MajDuree
  BY <1>6 DEF MajDuree, Horloge, Durees, TypeOK, vars
<1>7. CASE AutresCommandes /\ UNCHANGED varsBoucle
  BY <1>7, ResteArrete DEF Horloge, varsBoucle
<1>8. CASE UNCHANGED varsB
  BY <1>8 DEF varsB, vars, varsBoucle, Horloge
<1> QED
  BY <1>1, <1>2, <1>3, <1>4, <1>5, <1>6, <1>7, <1>8 DEF NextB, PasBoucle

LEMMA DivisionUnique ==
    ASSUME NEW n \in Nat \ {0}, NEW q \in Int, NEW r \in Int, 0 <= r, r < n
    PROVE  (n * q + r) % n = r
<1> DEFINE x == n * q + r
           k == x \div n
           s == x % n
<1>1. x \in Int
  BY Produit
<1>2. k \in Int /\ s \in Int /\ x = n * k + s /\ 0 <= s /\ s < n
  <2> HIDE DEF x
  <2> QED
    BY <1>1
<1>3. n * (q - k) = s - r
  BY <1>2
<1> HIDE DEF k, s, x
<1>4. CASE q - k >= 1
  <2>1. n * (q - k) >= n
    BY <1>2, <1>4
  <2> QED
    BY <1>2, <1>3, <2>1
<1>5. CASE q - k <= -1
  <2>1. n * (q - k) <= -n
    BY <1>2, <1>5
  <2> QED
    BY <1>2, <1>3, <2>1
<1>6. CASE q - k = 0
  <2>1. n * (q - k) = 0
    BY <1>6
  <2> QED
    BY <1>2, <1>3, <2>1 DEF s, x
<1> QED
  BY <1>2, <1>4, <1>5, <1>6

(* The windows last full hours, so that a window which begins before the   *)
(* last clock step of its hour does not end in the last one of the day.    *)
LEMMA MinutesAvantMinuit ==
    ASSUME \A i \in Plages : Debut[i] % ParHeure < ParHeure - 1
    PROVE  AvantMinuit
<1> SUFFICES ASSUME NEW i \in Plages, NEW d \in Int
             PROVE  FinPlageHeure(i, d) < Jour - 1
  BY TemperaturesAssumption, DureeEntiere DEF AvantMinuit, Durees
<1> DEFINE H == HeuresJour
           P == ParHeure
           h == Debut[i] \div P
           m == Debut[i] % P
           a == h + d
           q == a \div H
           r == a % H
<1>1. H \in Nat /\ H > 0 /\ P \in Nat /\ P > 0 /\ Debut[i] \in Nat
  BY OuvertureDansLeJour, JourPositif, HorlogeAssumption DEF Ouverture
<1>2. h \in Int /\ m \in Int /\ Debut[i] = P * h + m /\ 0 <= m /\ m < P - 1
  <2> HIDE DEF P
  <2>1. m < P - 1
    BY DEF P
  <2> QED
    BY <1>1, <2>1
<1> HIDE DEF h, m
<1>3. q \in Int /\ r \in Int /\ a \in Int /\ a = H * q + r /\ 0 <= r /\ r < H
  <2>1. a \in Int
    BY <1>2
  <2> HIDE DEF a, H
  <2> QED
    BY <1>1, <2>1
<1> HIDE DEF a, H, P, q, r
<1> DEFINE n == H * P
           s == r * P + m
<1>4. Debut[i] + d * P = n * q + s
  <2>1. Debut[i] + d * P = a * P + m
    BY <1>1, <1>2 DEF a
  <2>2. (H * q + r) * P = n * q + r * P
    BY <1>1, <1>3
  <2> QED
    BY <1>1, <1>2, <1>3, <2>1, <2>2
<1>5. n \in Nat \ {0} /\ s \in Int /\ 0 <= s /\ s < n - 1
  <2>1. \A u, v \in Nat : u * v >= 0 /\ u * v \in Nat /\ (u > 0 /\ v > 0 => u * v > 0)
    OBVIOUS
  <2>2. n \in Nat /\ n > 0 /\ r * P \in Int /\ 0 <= r * P
    BY <1>1, <1>3, <2>1
  <2>3. (H - 1 - r) * P >= 0
    BY <1>1, <1>3, <2>1
  <2>4. (H - 1 - r) * P = n - P - r * P
    BY <1>1, <1>3
  <2> HIDE DEF n
  <2> QED
    BY <1>1, <1>2, <2>2, <2>3, <2>4
<1>6. (n * q + s) % n = s
  <2> HIDE DEF n, s
  <2> QED
    BY <1>3, <1>5, DivisionUnique
<1>7. FinPlageHeure(i, d) = s
  BY <1>4, <1>6 DEF FinPlageHeure, Ouverture, Jour, H, P
<1> HIDE DEF s
<1> QED
  BY <1>5, <1>7 DEF Jour, H, P

(* What the loop's times are.                                              *)
LEMMA Heures ==
    ASSUME TypeOKB
    PROVE  /\ hc \in Nat /\ heure \in Nat /\ Jour \in Nat /\ hc < Jour
           /\ \A i \in Plages : Ouverture(i) \in Int /\ fin[i] \in Int
<1>1. Jour \in Nat
  BY JourPositif
<1> QED
  BY <1>1, OuvertureEntiere DEF TypeOKB

LEMMA FenetresLireHeure ==
    ASSUME TypeOKB, Horloge, Fenetres, LireHeure
    PROVE  Fenetres'
<1>1. /\ phase = "marche" /\ pos = <<"lecture", 1>> /\ pos' = <<"calcul", 1>>
      /\ UNCHANGED <<phase, fin, flag>> /\ hc' = heure
  BY DEF LireHeure, Etape, vars
<1>2. ASSUME NEW i \in Plages, ~flag[i]
      PROVE  hc' > Ouverture(i)
  <2>1. hc > Ouverture(i) /\ hc <= fin[i] /\ fin[i] < Jour - 1
    BY <1>1, <1>2 DEF Fenetres, Rendue, Horloge
  <2>2. hc + 1 < Jour /\ hc + 1 \in Nat
    BY <2>1, Heures
  <2>3. (hc + 1) % Jour = hc + 1
    BY <2>2, Heures, ModPetit
  <2>4. heure = hc \/ heure = hc + 1
    BY <1>1, <2>3 DEF Horloge
  <2> QED
    BY <1>1, <2>1, <2>4, Heures
<1> QED
  BY <1>1, <1>2 DEF Fenetres, Rendue, Examinee

LEMMA FenetresCalcul ==
    ASSUME TypeOKB, Fenetres, NEW i \in Plages, CalculPlage(i)
    PROVE  Fenetres'
<1>1. /\ phase = "marche" /\ pos[1] = "calcul" /\ UNCHANGED <<phase, hc, flag>>
      /\ pos' = <<"debut", 1>> \/ pos'[1] = "calcul"
  BY DEF CalculPlage, Etape, vars
<1>2. \A j \in Plages : ~Rendue(j)' /\ ~Examinee(j)'
  BY <1>1 DEF Rendue, Examinee, Plages
<1>3. pos'[1] \notin {"ouverte", "fermee"}
  BY <1>1
<1> QED
  BY <1>1, <1>2, <1>3 DEF Fenetres

LEMMA FenetresOuvrir ==
    ASSUME TypeOKB, Fenetres, NEW i \in Plages, OuvrirPlage(i)
    PROVE  Fenetres'
<1>1. /\ phase = "marche" /\ pos = <<"debut", i>> /\ pos' = <<"ouverte", i>>
      /\ UNCHANGED <<phase, hc, fin, flag>>
      /\ Dedans(i)
  BY DEF OuvrirPlage, DebutPlage, Lance, Etape, AOuvrir, Dedans
<1>2. \A j \in Plages : Rendue(j)' = Rendue(j) /\ Examinee(j)' = Examinee(j)
                        /\ Dedans(j)' = Dedans(j)
  BY <1>1 DEF Rendue, Examinee, Dedans, Ouverture
<1> QED
  BY <1>1, <1>2 DEF Fenetres

LEMMA FenetresSauterDebut ==
    ASSUME TypeOKB, Fenetres, NEW i \in Plages, SauterDebut(i)
    PROVE  Fenetres'
<1>1. /\ phase = "marche" /\ pos = <<"debut", i>> /\ pos' = <<"fin", i>>
      /\ UNCHANGED <<phase, hc, fin, flag>>
      /\ Dedans(i) => ~flag[i]
  BY DEF SauterDebut, Etape, AOuvrir, Dedans, vars
<1>2. \A j \in Plages : /\ Rendue(j)' = Rendue(j) /\ Dedans(j)' = Dedans(j)
                        /\ Examinee(j)' => Examinee(j) \/ j = i
  BY <1>1 DEF Rendue, Examinee, Dedans, Ouverture, Plages
<1>3. Dedans(i) => ~flag[i] /\ hc <= fin[i]
  BY <1>1, Heures DEF Dedans
<1> QED
  BY <1>1, <1>2, <1>3 DEF Fenetres

LEMMA FenetresMarquerOuverte ==
    ASSUME TypeOKB, Fenetres, NEW i \in Plages, MarquerOuverte(i)
    PROVE  Fenetres'
<1>1. /\ phase = "marche" /\ pos = <<"ouverte", i>> /\ pos' = <<"fin", i>>
      /\ UNCHANGED <<phase, hc, fin>> /\ flag' = [j \in Plages |-> j # i]
  BY DEF MarquerOuverte, Etape, vars
<1>2. Dedans(i)
  BY <1>1 DEF Fenetres
<1>3. ~flag'[i] /\ hc > Ouverture(i) /\ hc <= fin[i]
  <2>1. ~flag'[i]
    BY <1>1
  <2>2. hc > Ouverture(i) /\ hc <= fin[i]
    BY <1>2, Heures DEF Dedans
  <2> QED
    BY <2>1, <2>2
<1>4. \A j \in Plages : ~flag'[j] => j = i
  BY <1>1
<1> QED
  BY <1>1, <1>3, <1>4 DEF Fenetres

LEMMA FenetresFermer ==
    ASSUME TypeOKB, UneSeulePlage, Fenetres, NEW i \in Plages, FermerPlage(i)
    PROVE  Fenetres'
<1>1. /\ phase = "marche" /\ pos = <<"fin", i>> /\ pos' = <<"fermee", i>>
      /\ UNCHANGED <<phase, hc, fin, flag>>
      /\ hc > fin[i] /\ ~flag[i]
  BY DEF FermerPlage, FinPlage, Lance, Etape, AFermer
<1>2. \A j \in Plages : Rendue(j)' = Rendue(j) /\ Examinee(j)' = Examinee(j)
                        /\ Dedans(j)' = Dedans(j)
  BY <1>1 DEF Rendue, Examinee, Dedans, Ouverture
<1>3. \A j \in Plages : ~(~flag[j] /\ hc <= fin[j])
  BY <1>1, Heures DEF UneSeulePlage
<1> QED
  BY <1>1, <1>2, <1>3 DEF Fenetres

LEMMA FenetresSuivante ==
    ASSUME TypeOKB, Fenetres, NEW i \in Plages, SauterFin(i) \/ MarquerFermee(i)
    PROVE  Fenetres'
<1>1. /\ phase = "marche" /\ pos' = Suivante(i) /\ UNCHANGED <<phase, hc, fin>>
      /\ \A j \in Plages : ~flag'[j] => ~flag[j]
  BY DEF SauterFin, MarquerFermee, Etape, vars, TypeOKB
<1>2. pos = <<"fin", i>> \/ pos = <<"fermee", i>>
  BY DEF SauterFin, MarquerFermee, Etape
<1>3. pos'[1] \in {"debut", "sommeil"}
  BY <1>1 DEF Suivante
<1>4. \A j \in Plages : /\ Dedans(j)' = Dedans(j)
                        /\ Examinee(j)' => Examinee(j)
                        /\ Rendue(j)' => Rendue(j) \/ j = i
  BY <1>1, <1>2 DEF Rendue, Examinee, Dedans, Ouverture, Plages, Suivante
<1>5. ~flag'[i] => hc <= fin[i]
  BY Heures DEF SauterFin, MarquerFermee, AFermer, TypeOKB
<1>6. \A j \in Plages : ~flag'[j] => hc > Ouverture(j) /\ (Rendue(j)' => hc <= fin[j])
  BY <1>1, <1>4, <1>5 DEF Fenetres
<1>7. ASSUME NEW j \in Plages, Examinee(j)', Dedans(j)'
      PROVE  \E k \in Plages : ~flag'[k] /\ hc <= fin[k]
  <2>1. Examinee(j) /\ Dedans(j)
    BY <1>4, <1>7
  <2>2. pos[1] # "fermee"
    BY <1>1, <2>1 DEF Fenetres
  <2>3. flag' = flag
    BY <2>2 DEF SauterFin, MarquerFermee, Etape
  <2>4. PICK k \in Plages : ~flag[k] /\ hc <= fin[k]
    BY <1>1, <2>1, <2>2 DEF Fenetres
  <2> QED
    BY <2>3, <2>4
<1> QED
  BY <1>1, <1>3, <1>6, <1>7 DEF Fenetres

LEMMA FenetresSommeil ==
    ASSUME TypeOKB, Fenetres, Sommeil
    PROVE  Fenetres'
<1>1. /\ phase = "marche" /\ pos[1] = "sommeil" /\ pos'[1] = "lecture"
      /\ UNCHANGED <<phase, hc, fin, flag>>
  BY DEF Sommeil, Etape, vars
<1>2. \A j \in Plages : Rendue(j) /\ ~Examinee(j)'
  BY <1>1 DEF Rendue, Examinee
<1> QED
  BY <1>1, <1>2 DEF Fenetres

LEMMA FenetresNext ==
    ASSUME AvantMinuit, ~PannesLongues
    PROVE  TypeOK /\ TypeOKB /\ UneSeulePlage /\ Horloge /\ Fenetres /\ [NextB]_varsB
               => Fenetres'
<1> SUFFICES ASSUME TypeOK, TypeOKB, UneSeulePlage, Horloge, Fenetres, [NextB]_varsB
             PROVE  Fenetres'
  OBVIOUS
<1>1. CASE LancementB
  <2>1. \A i \in Plages : flag'[i] /\ ~Examinee(i)'
    BY <1>1 DEF LancementB, Examinee
  <2> QED
    BY <1>1, <2>1 DEF LancementB, Fenetres
<1>2. CASE LireHeure
  BY <1>2, FenetresLireHeure
<1>3. CASE Sommeil
  BY <1>3, FenetresSommeil
<1>4. ASSUME NEW i \in Plages,
             \/ CalculPlage(i)
             \/ OuvrirPlage(i) \/ MarquerOuverte(i) \/ SauterDebut(i)
             \/ FermerPlage(i) \/ MarquerFermee(i) \/ SauterFin(i)
      PROVE  Fenetres'
  BY <1>4, FenetresCalcul, FenetresOuvrir, FenetresMarquerOuverte, FenetresSauterDebut,
     FenetresFermer, FenetresSuivante
<1>5. ASSUME UNCHANGED <<hc, fin, flag, pos>>, phase = "arret" => phase' = "arret"
      PROVE  Fenetres'
  BY <1>5 DEF Fenetres, Rendue, Examinee, Dedans, Ouverture
<1>6. CASE Tic \/ MajDuree
  BY <1>5, <1>6 DEF Tic, MajDuree, vars
<1>7. CASE AutresCommandes /\ UNCHANGED varsBoucle
  BY <1>5, <1>7, ResteArrete DEF varsBoucle
<1>8. CASE UNCHANGED varsB
  BY <1>5, <1>8 DEF varsB, vars, varsBoucle
<1> QED
  BY <1>1, <1>2, <1>3, <1>4, <1>6, <1>7, <1>8 DEF NextB, PasBoucle

(* The inductive invariant behind what follows: which windows this round   *)
(* has still to open and to close, and that every open one has begun, by   *)
(* the clock the loop works with, which never runs ahead past midnight.    *)
THEOREM FenetresTenues ==
    ASSUME AvantMinuit, ~PannesLongues
    PROVE  SpecB => []HInv
<1>1. InitB => HInv
  <2> SUFFICES ASSUME InitB
               PROVE  HInv
    OBVIOUS
  <2>1. \A i \in Plages : fin[i] = Ouverture(i)
    BY DEF InitB
  <2> QED
    BY <2>1, DureeAuDepart, OuvertureAvantMinuit DEF InitB, Init, HInv, Horloge, Fenetres
<1>2. TypeOK /\ TypeOKB /\ Horloge /\ [NextB]_varsB => Horloge'
  BY HorlogeNext
<1>3. TypeOK /\ TypeOKB /\ UneSeulePlage /\ Horloge /\ Fenetres /\ [NextB]_varsB => Fenetres'
  BY FenetresNext
<1>4. HInv <=> Horloge /\ Fenetres
  BY DEF HInv
<1>5. IInv => TypeOK
  BY DEF IInv
<1> QED
  BY <1>1, <1>2, <1>3, <1>4, <1>5, Raffinement, SuiteSure, TypeCorrectB, PlagesExclusives,
     PTL DEF SpecB, CommandesRespectees

(* For every choice of windows and temperatures, through every crash and   *)
(* restart: when the loop keeps up with the clock and nobody else commands *)
(* the pump, it runs inside the windows and only there.                    *)
THEOREM PompeToujoursSelonPlages ==
    ASSUME SansCommandePompe, AvantMinuit, ~PannesLongues
    PROVE  SpecB => []PompeSelonPlages
<1>1. ASSUME KInv, HInv
      PROVE  PompeSelonPlages
  <2> SUFFICES ASSUME EnSommeil
               PROVE  /\ (\E i \in Plages : Dedans(i)) => pin["pompe"] = 1
                      /\ pin["pompe"] = 1 =>
                            \E i \in Plages : hc > Ouverture(i) /\ hc <= fin[i]
    BY DEF PompeSelonPlages, Dedans
  <2>1. phase = "marche" /\ pos[1] = "sommeil" /\ (pin["pompe"] = 1 <=> UneOuverte)
    BY <1>1, EtapeFacile DEF EnSommeil, KInv
  <2>2. \A i \in Plages : Rendue(i) /\ Examinee(i)
    BY <2>1 DEF Rendue, Examinee
  <2>3. (\E i \in Plages : Dedans(i)) => UneOuverte
    BY <1>1, <2>1, <2>2 DEF HInv, Fenetres, UneOuverte
  <2>4. UneOuverte => \E i \in Plages : hc > Ouverture(i) /\ hc <= fin[i]
    BY <1>1, <2>1, <2>2 DEF HInv, Fenetres, UneOuverte
  <2> QED
    BY <2>1, <2>3, <2>4
<1> QED
  BY <1>1, PompeSuitLaBoucle, FenetresTenues, PTL

(* Under the same conditions no window is opened on a pump that runs, but  *)
(* for the two cases the property names: no round opens it a second time.  *)
THEOREM OuvertureToujoursUnique ==
    ASSUME SansCommandePompe, AvantMinuit, ~PannesLongues
    PROVE  SpecB => OuvertureUnique
<1> DEFINE Unique ==
      \A i \in Plages :
          pos = <<"debut", i>> /\ pos' = <<"ouverte", i>> =>
             \/ pin["pompe"] = 0
             \/ \E j \in Plages \ {i} : ~flag[j] /\ hc > Ouverture(j) /\ (hc <= fin[j] \/ i < j)
<1>1. KInv /\ HInv /\ [NextB]_varsB => [Unique]_varsB
  <2> SUFFICES ASSUME KInv, HInv, NextB, NEW i \in Plages,
                      pos = <<"debut", i>>, pos' = <<"ouverte", i>>, pin["pompe"] # 0
               PROVE  \E j \in Plages \ {i} :
                         ~flag[j] /\ hc > Ouverture(j) /\ (hc <= fin[j] \/ i < j)
    OBVIOUS
  <2>1. OuvrirPlage(i)
    <3>1. ~LancementB /\ ~LireHeure /\ ~Sommeil
      BY DEF LancementB, LireHeure, Sommeil, Etape
    <3>2. \A j \in Plages : /\ ~CalculPlage(j) /\ ~MarquerOuverte(j) /\ ~SauterDebut(j)
                            /\ ~FermerPlage(j) /\ ~MarquerFermee(j) /\ ~SauterFin(j)
                            /\ OuvrirPlage(j) => j = i
      BY DEF CalculPlage, MarquerOuverte, SauterDebut, FermerPlage, MarquerFermee,
         SauterFin, OuvrirPlage, Etape
    <3>3. ~Tic /\ ~MajDuree /\ ~UNCHANGED varsBoucle
      BY DEF Tic, MajDuree, varsBoucle
    <3> QED
      BY <3>1, <3>2, <3>3 DEF NextB, PasBoucle
  <2>2. Etape("debut", i) /\ AOuvrir(i)
    BY <2>1 DEF OuvrirPlage
  <2>3. phase = "marche" /\ UneOuverte
    <3>1. phase = "marche" /\ (pin["pompe"] = 1 <=> UneOuverte)
      BY <2>2, EtapeFacile DEF KInv
    <3>2. pin["pompe"] \in {0, 1}
      BY DEF KInv, JInv, IInv, TypeOK, Appareils
    <3> QED
      BY <3>1, <3>2
  <2>4. PICK j \in Plages : ~flag[j]
    BY <2>3 DEF UneOuverte
  <2>5. j # i
    BY <2>2, <2>4 DEF AOuvrir
  <2>6. hc > Ouverture(j) /\ (Rendue(j) => hc <= fin[j])
    BY <2>3, <2>4 DEF HInv, Fenetres
  <2>7. j < i => Rendue(j)
    BY DEF Rendue
  <2>8. j < i \/ i < j
    BY <2>5 DEF Plages
  <2> QED
    BY <2>4, <2>5, <2>6, <2>7, <2>8
<1> QED
  BY <1>1, PompeSuitLaBoucle, FenetresTenues, PTL DEF SpecB, OuvertureUnique
=============================================================================
