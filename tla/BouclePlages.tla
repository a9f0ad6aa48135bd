---------------------------- MODULE BouclePlages ----------------------------
(***************************************************************************)
(* The endless loop of main(): it reads the clock, recomputes the ends of  *)
(* the three filtration windows from the duration that LectureSondes       *)
(* derives from the water temperature, then opens and closes windows with  *)
(* the commands of module Commandes.  The module refines Commandes: what   *)
(* that module lets the loop do at any time happens here when the code     *)
(* does it.                                                                *)
(*                                                                         *)
(* The clock is cyclic and counts in steps of 1/ParHeure hour; the "%H:%M" *)
(* strings the code compares are ordered as these numbers are.             *)
(***************************************************************************)
EXTENDS Commandes

CONSTANTS
    HeuresJour,     \* hours in a day: 24, or fewer to scale an instance down
    ParHeure,       \* clock steps in an hour
    Debut,          \* Debut[i]: the time at which window i begins (Plage<i>)
    PannesLongues   \* may the clock advance while the loop waits for Graphite?

Plages == 1..3
Jour == HeuresJour * ParHeure

ASSUME HorlogeAssumption ==
    /\ HeuresJour \in Nat \ {0}
    /\ ParHeure \in Nat \ {0}
    /\ Debut \in [Plages -> 0..(Jour - 1)]
    /\ PannesLongues \in BOOLEAN

VARIABLES
    heure,      \* the time of day
    hc,         \* heureCourante, the loop's copy of it
    duree,      \* dureeFiltration, in hours
    fin,        \* fin[i]: formattedPlage<i>Fin
    flag,       \* flag[i]: flagPlage<i>, FALSE while window i is open
    pos         \* what the loop does next: a stage and the window it is about

varsBoucle == <<heure, hc, duree, fin, flag, pos>>
varsB == <<vars, varsBoucle>>

-----------------------------------------------------------------------------

(* Round(t / 2 / 3): half away from zero, as Round does it.                *)
calculDuree(t) == IF t < 0 THEN -((3 - t) \div 6) ELSE (t + 3) \div 6

(* formattedPlage<i>: the time of day that config.ini gives, in hours and  *)
(* minutes.                                                                *)
Ouverture(i) == Debut[i]

(* Mutant: the end is not brought back into the day. *)
FinPlageHeure_SansMinuit(i, d) == Ouverture(i) + d * ParHeure

(* TPlage<i>.Add(duration), formatted without its date: it wraps at        *)
(* midnight.                                                               *)
FinPlageHeure(i, d) == (Ouverture(i) + d * ParHeure) % Jour

InitB ==
    /\ Init
    /\ heure \in 0..(Jour - 1)
    /\ hc = heure
    /\ duree = 0
    /\ fin = [i \in Plages |-> Ouverture(i)]
    /\ flag = [i \in Plages |-> TRUE]
    /\ pos = <<"lecture", 1>>

(* A new process: duree, flag and the position are fresh; hc and fin are   *)
(* written before they are read, so the values they get here do not count. *)
LancementB ==
    /\ Lancement
    /\ hc' = heure
    /\ duree' = 0
    /\ fin' = [i \in Plages |-> Ouverture(i)]
    /\ flag' = [i \in Plages |-> TRUE]
    /\ pos' = <<"lecture", 1>>
    /\ UNCHANGED heure

-----------------------------------------------------------------------------
(* The loop.  It goes on when its last command has returned.               *)

Etape(e, i) == phase = "marche" /\ reste[Boucle] = <<>> /\ pos = <<e, i>>

(* Mutant: the clock was read once, before the loop. *)
LireHeure_UneFois ==
    /\ Etape("lecture", 1)
    /\ pos' = <<"calcul", 1>>
    /\ UNCHANGED <<vars, heure, hc, duree, fin, flag>>

LireHeure ==
    /\ Etape("lecture", 1)
    /\ hc' = heure
    /\ pos' = <<"calcul", 1>>
    /\ UNCHANGED <<vars, heure, duree, fin, flag>>

(* calculPlages reads dureeFiltration afresh for each window.              *)
CalculPlage(i) ==
    /\ Etape("calcul", i)
    /\ fin' = [fin EXCEPT ![i] = FinPlageHeure(i, duree)]
    /\ pos' = IF i = 3 THEN <<"debut", 1>> ELSE <<"calcul", i + 1>>
    /\ UNCHANGED <<vars, heure, hc, duree, flag>>

AOuvrir(i) == hc > Ouverture(i) /\ hc < fin[i] /\ flag[i]

(* Mutant: the opening starts the cell and forgets the pump. *)
OuvrirPlage_SansPompe(i) ==
    /\ Etape("debut", i)
    /\ AOuvrir(i)
    /\ Lance(Boucle, electrolyseOn)
    /\ pos' = <<"ouverte", i>>
    /\ UNCHANGED <<heure, hc, duree, fin, flag>>

OuvrirPlage(i) ==
    /\ Etape("debut", i)
    /\ AOuvrir(i)
    /\ DebutPlage
    /\ pos' = <<"ouverte", i>>
    /\ UNCHANGED <<heure, hc, duree, fin, flag>>

(* Mutant: the opening is not recorded. *)
MarquerOuverte_SansMarque(i) ==
    /\ Etape("ouverte", i)
    /\ pos' = <<"fin", i>>
    /\ UNCHANGED <<vars, heure, hc, duree, fin, flag>>

(* Mutant: the flags of the other windows are left as they are. *)
MarquerOuverte_AutresInchangees(i) ==
    /\ Etape("ouverte", i)
    /\ flag' = [flag EXCEPT ![i] = FALSE]
    /\ pos' = <<"fin", i>>
    /\ UNCHANGED <<vars, heure, hc, duree, fin>>

MarquerOuverte(i) ==
    /\ Etape("ouverte", i)
    /\ flag' = [j \in Plages |-> j # i]
    /\ pos' = <<"fin", i>>
    /\ UNCHANGED <<vars, heure, hc, duree, fin>>

SauterDebut(i) ==
    /\ Etape("debut", i)
    /\ ~AOuvrir(i)
    /\ pos' = <<"fin", i>>
    /\ UNCHANGED <<vars, heure, hc, duree, fin, flag>>

(* Mutant: a window is closed whether or not it is the open one. *)
AFermer_SansDrapeau(i) == hc > fin[i]

AFermer(i) == hc > fin[i] /\ ~flag[i]

FermerPlage(i) ==
    /\ Etape("fin", i)
    /\ AFermer(i)
    /\ FinPlage
    /\ pos' = <<"fermee", i>>
    /\ UNCHANGED <<heure, hc, duree, fin, flag>>

Suivante(i) == IF i = 3 THEN <<"sommeil", 1>> ELSE <<"debut", i + 1>>

(* Mutant: the closing is not recorded. *)
MarquerFermee_SansMarque(i) ==
    /\ Etape("fermee", i)
    /\ pos' = Suivante(i)
    /\ UNCHANGED <<vars, heure, hc, duree, fin, flag>>

MarquerFermee(i) ==
    /\ Etape("fermee", i)
    /\ flag' = [flag EXCEPT ![i] = TRUE]
    /\ pos' = Suivante(i)
    /\ UNCHANGED <<vars, heure, hc, duree, fin>>

SauterFin(i) ==
    /\ Etape("fin", i)
    /\ ~AFermer(i)
    /\ pos' = Suivante(i)
    /\ UNCHANGED <<vars, heure, hc, duree, fin, flag>>

(* time.Sleep(500 ms), then the next round.                                *)
Sommeil ==
    /\ Etape("sommeil", 1)
    /\ pos' = <<"lecture", 1>>
    /\ UNCHANGED <<vars, heure, hc, duree, fin, flag>>

PasBoucle ==
    \/ LireHeure \/ Sommeil
    \/ \E i \in Plages :
          \/ CalculPlage(i)
          \/ OuvrirPlage(i) \/ MarquerOuverte(i) \/ SauterDebut(i)
          \/ FermerPlage(i) \/ MarquerFermee(i) \/ SauterFin(i)

-----------------------------------------------------------------------------
(* The surroundings.                                                       *)

(* Two rounds a second: the clock does not advance before the loop has     *)
(* made a round at the current time, unless there is no process or, when   *)
(* PannesLongues, the loop waits for Graphite.                             *)
Tic ==
    /\ \/ phase = "arret"
       \/ Etape("sommeil", 1) /\ hc = heure
       \/ PannesLongues /\ ~graphite /\ EnTete(Boucle, "graphite")
    /\ heure' = (heure + 1) % Jour
    /\ UNCHANGED <<vars, hc, duree, fin, flag, pos>>

(* LectureSondes computes the duration some time after it has stored the   *)
(* temperature: it reads two other sensors in between.                     *)
MajDuree ==
    /\ phase = "marche"
    /\ duree' = calculDuree(tEau)
    /\ UNCHANGED <<vars, heure, hc, fin, flag, pos>>

(* The commands of the other goroutines, and the accesses of all of them.  *)
AutresCommandes ==
    \/ Panne
    \/ ToucheP \/ ToucheE \/ ToucheL \/ ToucheQ
    \/ \E r \in Requetes : HttpPompe(r) \/ HttpElectro(r) \/ HttpLampe(r)
    \/ \E t \in Acteurs : Pas(t)
    \/ Sonde \/ PanneGraphite \/ RetourGraphite

NextB ==
    \/ LancementB
    \/ PasBoucle
    \/ Tic
    \/ MajDuree
    \/ AutresCommandes /\ UNCHANGED varsBoucle

(* The loop and the clock go on; Graphite comes back.                      *)
EquiteB ==
    /\ \A t \in Acteurs : SF_varsB(Pas(t) /\ UNCHANGED varsBoucle)
    /\ WF_varsB(PasBoucle)
    /\ SF_varsB(Tic)
    /\ WF_varsB(RetourGraphite /\ UNCHANGED varsBoucle)

SpecB == InitB /\ [][NextB]_varsB /\ EquiteB

-----------------------------------------------------------------------------
(* Properties.                                                             *)

(* The loop's variables have values the code can give them.                *)
TypeOKB ==
    /\ heure \in 0..(Jour - 1)
    /\ hc \in 0..(Jour - 1)
    /\ duree \in Int
    /\ fin \in [Plages -> 0..(Jour - 1)]
    /\ flag \in [Plages -> BOOLEAN]
    /\ pos \in {"lecture", "calcul", "debut", "ouverte", "fin", "fermee", "sommeil"}
               \X Plages

EnSommeil == Etape("sommeil", 1)

(* At the end of every round the pump follows the windows, when nobody     *)
(* commands it by hand: it runs strictly inside a window, and never outside*)
(* one, the minute of its end included, whatever the temperature did       *)
(* meanwhile and wherever a crash and a restart fell.                      *)
PompeSelonPlages ==
    EnSommeil =>
        /\ (\E i \in Plages : hc > Ouverture(i) /\ hc < fin[i]) => pin["pompe"] = 1
        /\ pin["pompe"] = 1 => \E i \in Plages : hc > Ouverture(i) /\ hc <= fin[i]

(* At the end of every round the pump runs exactly when a window is marked *)
(* open: no order of openings, closings and re-marked flags makes the two  *)
(* drift apart.                                                            *)
PompeSelonDrapeaux ==
    EnSommeil => (pin["pompe"] = 1 <=> \E i \in Plages : ~flag[i])

(* At most one window is marked open, so a closing never stops the pump    *)
(* under another window.                                                   *)
UneSeulePlage == \A i, j \in Plages : flag[i] \/ flag[j] \/ i = j

(* A window opens with the pump stopped: no later round opens it a second  *)
(* time.  Only a window that is open and overlaps it (six hours from 33    *)
(* degrees on) may have the pump running, or a later one whose end has just*)
(* been moved back and which this round has still to close.                *)
OuvertureUnique ==
    [][ \A i \in Plages :
          pos = <<"debut", i>> /\ pos' = <<"ouverte", i>> =>
             \/ pin["pompe"] = 0
             \/ \E j \in Plages \ {i} : ~flag[j] /\ hc > Ouverture(j) /\ (hc <= fin[j] \/ i < j) ]_varsB

(* The loop and its surroundings only ever make the steps that module      *)
(* Commandes describes, so what is shown there holds here.                 *)
CommandesRespectees == Init /\ [][Next]_vars

(* A window that is marked open is closed in the end, or the process ends: *)
(* also when Graphite keeps the loop waiting past the end of the window or *)
(* past midnight, and when the temperature moves the end.                  *)
FermetureAssuree ==
    \A i \in Plages : ~flag[i] ~> (flag[i] \/ phase = "arret")
=============================================================================
