------------------------------ MODULE Commandes ------------------------------
(***************************************************************************)
(* The commands of domos/main.go that switch the pool pump, the            *)
(* electrolysis cell and the pool-house lamp, interleaved the way the Go   *)
(* program interleaves them: the main loop, the keyboard goroutine and one *)
(* goroutine per HTTP request run the same unsynchronised functions on the *)
(* same global variables and the same GPIO lines.                          *)
(*                                                                         *)
(* A goroutine is the sequence of accesses to shared state it still has to *)
(* make; each access is one step.  What cannot change the relays or the    *)
(* state variables (printing, date strings, Telegram and Pushbullet        *)
(* messages) is left out, except that any of it may kill the process,      *)
(* which Panne allows at every point.                                      *)
(***************************************************************************)
EXTENDS Integers, Sequences

CONSTANTS
    Boucle,         \* the goroutine of main() and its endless loop
    Clavier,        \* the goroutine of clavier()
    Requetes,       \* the goroutines that serve HTTP requests
    Touches,        \* the keys that get pressed, a subset of {"P","E","L","Q"}
    Urls,           \* the requests that are made, pairs <<appareil, 0 or 1>>
    Temperatures,   \* the water temperatures that the sensor may report
    Seuil           \* TemperatureElectrolyseInt of config.ini

Appareils == {"pompe", "electrolyse", "lampe"}
Acteurs   == {Boucle, Clavier} \cup Requetes

ASSUME ActeursAssumption ==
    /\ Boucle # Clavier
    /\ Boucle \notin Requetes
    /\ Clavier \notin Requetes
ASSUME TemperaturesAssumption ==
    /\ Temperatures \subseteq Int
    /\ 0 \in Temperatures       \* the zero value of tEauFloat
    /\ Seuil \in Int
ASSUME UrlsAssumption == Urls \subseteq (Appareils \X {0, 1})

VARIABLES
    phase,      \* "arret": no process; "ferme": main() runs, GPIO not mapped;
                \* "gpio": GPIO mapped; "marche": server and loop started
    etat,       \* etatPompe, etatElectrolyse, etatLampe
    pin,        \* the level of the three GPIO lines; survives the process
    msFlag,     \* ms.Flag, what the duration counter looks at
    tEau,       \* tEauFloat
    graphite,   \* does the Graphite server accept connections?
    reste,      \* for each goroutine, the accesses it has still to make
    croise      \* history: two commands have overlapped in this process

vars == <<phase, etat, pin, msFlag, tEau, graphite, reste, croise>>

-----------------------------------------------------------------------------
(* The accesses a command is made of.                                      *)

Etat(a, v)  == [op |-> "etat", sur |-> a, val |-> v]
Pin(a, v)   == [op |-> "pin", sur |-> a, val |-> v]
Flag(v)     == [op |-> "flag", sur |-> "pompe", val |-> v]
GraphiteCnx == [op |-> "graphite", sur |-> "pompe", val |-> 0]
TestPompe   == [op |-> "test", sur |-> "pompe", val |-> 1]
Garde       == [op |-> "garde", sur |-> "pompe", val |-> 1]
Ouvrir      == [op |-> "ouvrir", sur |-> "pompe", val |-> 0]
Servir      == [op |-> "servir", sur |-> "pompe", val |-> 0]
Exit        == [op |-> "exit", sur |-> "pompe", val |-> 1]

Operations ==
    [op : {"etat", "pin", "flag", "graphite", "test", "garde",
           "ouvrir", "servir", "exit"},
     sur : Appareils, val : {0, 1}]

(* The functions of the program, as the accesses they make, in order.      *)

pompeOn  == <<Etat("pompe", 1), Pin("pompe", 1), Flag(1), GraphiteCnx>>
(* Mutant: the flag of the duration counter stays up. *)
pompeOff_SansFlag == <<Etat("pompe", 0), Pin("pompe", 0), GraphiteCnx>>
pompeOff == <<Etat("pompe", 0), Pin("pompe", 0), Flag(0), GraphiteCnx>>

electrolyseOn ==
    <<Garde, Etat("electrolyse", 1), Pin("electrolyse", 1), GraphiteCnx>>
electrolyseOff ==
    <<Etat("electrolyse", 0), Pin("electrolyse", 0), GraphiteCnx>>

debutPlage == pompeOn \o electrolyseOn
(* Mutant: the end of a window stops the pump only. *)
finPlage_PompeSeule == pompeOff
finPlage   == pompeOff \o electrolyseOff

(* Mutant: the boot does not lower the cell's line. *)
demarrage_SansCellule == <<Ouvrir, Pin("pompe", 0), Pin("lampe", 0), Servir>>
demarrage ==
    <<Ouvrir, Pin("pompe", 0), Pin("electrolyse", 0), Pin("lampe", 0), Servir>>

quitter == finPlage \o <<Pin("lampe", 0), Exit>>

httpPompeOn == <<Etat("pompe", 1), Pin("pompe", 1)>>
(* Mutant: /pompe/0 forgets the cell. *)
httpPompeOff_PompeSeule == <<Etat("pompe", 0), Pin("pompe", 0)>>
httpPompeOff ==
    <<Etat("pompe", 0), Pin("pompe", 0),
      Etat("electrolyse", 0), Pin("electrolyse", 0)>>
httpElectrolyseOff == <<Etat("electrolyse", 0), Pin("electrolyse", 0)>>
lampe(v) == <<Etat("lampe", v), Pin("lampe", v)>>

-----------------------------------------------------------------------------

Init ==
    /\ phase = "arret"
    /\ etat = [a \in Appareils |-> 0]
    /\ pin = [a \in Appareils |-> 0]
    /\ msFlag = 0
    /\ tEau = 0
    /\ graphite = TRUE
    /\ reste = [t \in Acteurs |-> <<>>]
    /\ croise = FALSE

(* A goroutine that waits for its next event starts on a command.          *)
Lance(t, programme) ==
    /\ phase # "arret"
    /\ reste[t] = <<>>
    /\ reste' = [reste EXCEPT ![t] = programme]
    /\ croise' = (croise \/ \E u \in Acteurs \ {t} : reste[u] # <<>>)
    /\ UNCHANGED <<phase, etat, pin, msFlag, tEau, graphite>>

(* The process starts: memory is fresh, the GPIO lines are as they were.   *)
Lancement ==
    /\ phase = "arret"
    /\ phase' = "ferme"
    /\ etat' = [a \in Appareils |-> 0]
    /\ msFlag' = 0
    /\ tEau' = 0
    /\ reste' = [reste EXCEPT ![Boucle] = demarrage]
    /\ croise' = FALSE
    /\ UNCHANGED <<pin, graphite>>

(* Mutant: the other goroutines survive the end of main(). *)
Mort_Survivants ==
    /\ phase' = "arret"
    /\ reste' = [reste EXCEPT ![Boucle] = <<>>]
    /\ UNCHANGED <<etat, pin, msFlag, tEau, graphite, croise>>

(* The process ends: nothing it had still to do will be done.              *)
Mort ==
    /\ phase' = "arret"
    /\ reste' = [t \in Acteurs |-> <<>>]
    /\ UNCHANGED <<etat, pin, msFlag, tEau, graphite, croise>>

(* A panic or a fatal error in any goroutine ends the process at any point:*)
(* http.Get or NewBotAPI fails and the nil result is used, the broker is   *)
(* away, two goroutines write mapDate at once.                             *)
Panne == phase # "arret" /\ Mort

-----------------------------------------------------------------------------
(* The main loop opens and closes a filtration window.                     *)

DebutPlage == phase = "marche" /\ Lance(Boucle, debutPlage)
FinPlage   == phase = "marche" /\ Lance(Boucle, finPlage)

(* The keyboard, from the moment main() starts clavier().                  *)

ToucheP ==
    /\ "P" \in Touches
    /\ \/ etat["pompe"] = 0 /\ Lance(Clavier, pompeOn)
       \/ etat["pompe"] # 0 /\ Lance(Clavier, pompeOff \o electrolyseOff)

ToucheE ==
    /\ "E" \in Touches
    /\ \/ etat["electrolyse"] = 0 /\ Lance(Clavier, <<TestPompe>> \o electrolyseOn)
       \/ etat["electrolyse"] # 0 /\ Lance(Clavier, electrolyseOff)

ToucheL ==
    /\ "L" \in Touches
    /\ \/ etat["lampe"] = 0 /\ Lance(Clavier, lampe(1))
       \/ etat["lampe"] # 0 /\ Lance(Clavier, lampe(0))

ToucheQ == "Q" \in Touches /\ Lance(Clavier, quitter)

(* The HTTP requests, once the server is started.                          *)

HttpPompe(r) ==
    /\ phase = "marche"
    /\ \/ <<"pompe", 1>> \in Urls /\ Lance(r, httpPompeOn)
       \/ <<"pompe", 0>> \in Urls /\ Lance(r, httpPompeOff)

HttpElectro(r) ==
    /\ phase = "marche"
    /\ \/ /\ <<"electrolyse", 1>> \in Urls
          /\ etat["pompe"] = 1
          /\ Lance(r, electrolyseOn)
       \/ <<"electrolyse", 0>> \in Urls /\ Lance(r, httpElectrolyseOff)

HttpLampe(r) ==
    /\ phase = "marche"
    /\ \E v \in {0, 1} : <<"lampe", v>> \in Urls /\ Lance(r, lampe(v))

-----------------------------------------------------------------------------
(* One access of a goroutine.                                              *)

EnTete(t, op) == reste[t] # <<>> /\ Head(reste[t]).op = op
Suite(t)      == reste' = [reste EXCEPT ![t] = Tail(@)]
Abandon(t)    == reste' = [reste EXCEPT ![t] = <<>>]

PasEtat(t) ==
    /\ EnTete(t, "etat")
    /\ etat' = [etat EXCEPT ![Head(reste[t]).sur] = Head(reste[t]).val]
    /\ Suite(t)
    /\ UNCHANGED <<phase, pin, msFlag, tEau, graphite, croise>>

(* rpio.WritePin is atomic under its memlock; before rpio.Open the mapped  *)
(* memory is a nil slice and the write panics.                             *)
PasPin(t) ==
    /\ EnTete(t, "pin")
    /\ \/ /\ phase # "ferme"
          /\ pin' = [pin EXCEPT ![Head(reste[t]).sur] = Head(reste[t]).val]
          /\ Suite(t)
          /\ UNCHANGED <<phase, etat, msFlag, tEau, graphite, croise>>
       \/ phase = "ferme" /\ Mort

PasFlag(t) ==
    /\ EnTete(t, "flag")
    /\ msFlag' = Head(reste[t]).val
    /\ Suite(t)
    /\ UNCHANGED <<phase, etat, pin, tEau, graphite, croise>>

(* GraphiteCnx tries again every five seconds until it gets a connection,  *)
(* and its caller waits.                                                   *)
PasGraphite(t) ==
    /\ EnTete(t, "graphite")
    /\ graphite
    /\ Suite(t)
    /\ UNCHANGED <<phase, etat, pin, msFlag, tEau, graphite, croise>>

(* if etatPompe == 1 around the call of electrolyseOn: nothing follows it. *)
PasTest(t) ==
    /\ EnTete(t, "test")
    /\ \/ etat["pompe"] = 1 /\ Suite(t)
       \/ etat["pompe"] # 1 /\ Abandon(t)
    /\ UNCHANGED <<phase, etat, pin, msFlag, tEau, graphite, croise>>

(* The condition inside electrolyseOn: nothing follows it either.          *)
PasGarde(t) ==
    /\ EnTete(t, "garde")
    /\ \/ etat["pompe"] = 1 /\ tEau > Seuil /\ Suite(t)
       \/ ~(etat["pompe"] = 1 /\ tEau > Seuil) /\ Abandon(t)
    /\ UNCHANGED <<phase, etat, pin, msFlag, tEau, graphite, croise>>

PasOuvrir(t) ==
    /\ EnTete(t, "ouvrir")
    /\ phase' = "gpio"
    /\ Suite(t)
    /\ UNCHANGED <<etat, pin, msFlag, tEau, graphite, croise>>

PasServir(t) ==
    /\ EnTete(t, "servir")
    /\ phase' = "marche"
    /\ Suite(t)
    /\ UNCHANGED <<etat, pin, msFlag, tEau, graphite, croise>>

PasExit(t) == EnTete(t, "exit") /\ Mort

Pas(t) ==
    \/ PasEtat(t) \/ PasPin(t) \/ PasFlag(t) \/ PasGraphite(t) \/ PasTest(t)
    \/ PasGarde(t) \/ PasOuvrir(t) \/ PasServir(t) \/ PasExit(t)

-----------------------------------------------------------------------------
(* The surroundings.                                                       *)

(* LectureSondes stores a new water temperature.                           *)
Sonde ==
    /\ phase = "marche"
    /\ tEau' \in Temperatures
    /\ UNCHANGED <<phase, etat, pin, msFlag, graphite, reste, croise>>

PanneGraphite ==
    /\ graphite
    /\ graphite' = FALSE
    /\ UNCHANGED <<phase, etat, pin, msFlag, tEau, reste, croise>>

RetourGraphite ==
    /\ ~graphite
    /\ graphite' = TRUE
    /\ UNCHANGED <<phase, etat, pin, msFlag, tEau, reste, croise>>

Next ==
    \/ Lancement \/ Panne
    \/ DebutPlage \/ FinPlage
    \/ ToucheP \/ ToucheE \/ ToucheL \/ ToucheQ
    \/ \E r \in Requetes : HttpPompe(r) \/ HttpElectro(r) \/ HttpLampe(r)
    \/ \E t \in Acteurs : Pas(t)
    \/ Sonde \/ PanneGraphite \/ RetourGraphite

(* The Go scheduler runs every runnable goroutine; the retry of GraphiteCnx*)
(* is a poll, so a goroutine whose connection is possible again and again  *)
(* gets one (strong fairness).                                             *)
EquiteGoroutines == \A t \in Acteurs : SF_vars(Pas(t))

Spec == Init /\ [][Next]_vars /\ EquiteGoroutines

-----------------------------------------------------------------------------
(* Properties.                                                             *)

(* Every variable has a value the program can give it, and a process that  *)
(* is stopped has nothing left to do.                                      *)
TypeOK ==
    /\ phase \in {"arret", "ferme", "gpio", "marche"}
    /\ etat \in [Appareils -> {0, 1}]
    /\ pin \in [Appareils -> {0, 1}]
    /\ msFlag \in {0, 1}
    /\ tEau \in Temperatures
    /\ graphite \in BOOLEAN
    /\ reste \in [Acteurs -> Seq(Operations)]
    /\ croise \in BOOLEAN
    /\ phase = "arret" => \A t \in Acteurs : reste[t] = <<>>

AuRepos == phase = "marche" /\ \A t \in Acteurs : reste[t] = <<>>

(* Goroutine t has still to make access o.                                 *)
Attend(t, o) == \E i \in DOMAIN reste[t] : reste[t][i] = o

(* The cell produces chlorine in water that does not move.                 *)
SansCirculation == pin["electrolyse"] = 1 /\ pin["pompe"] = 0

(* ... and no goroutine is on its way to switch it off.                    *)
Expose ==
    /\ SansCirculation
    /\ \A t \in Acteurs : ~Attend(t, Pin("electrolyse", 0))

(* While the process lives and no two commands have overlapped, the cell   *)
(* never runs without the pump unless the command in progress is about to  *)
(* switch it off: every function that lowers the pump line also lowers the *)
(* cell's, and starting the program repairs what a crash left behind.      *)
ElectrolyseProtegee == phase # "arret" /\ ~croise => ~Expose

(* Whatever the interleaving, only two kinds of step can newly leave the   *)
(* cell running without the pump and nobody about to stop it: the end of   *)
(* the process, and electrolyseOn raising the cell's line on the strength  *)
(* of a condition that is no longer true.                                  *)
ExpositionExpliquee ==
    [][ ~Expose /\ Expose' =>
          \/ phase' = "arret"
          \/ \E t \in Acteurs : /\ reste[t] # <<>>
                                /\ Head(reste[t]) = Pin("electrolyse", 1) ]_vars

(* With no overlap, whenever all goroutines wait for their next event the  *)
(* three lines are what the state variables (and so /status, the keyboard  *)
(* toggles and the display) say, also after a crash and a restart.         *)
CoherentAuRepos == AuRepos /\ ~croise => pin = etat

(* The flag that the duration counter looks at is not what the pump does, *)
(* and no goroutine is about to move either.                               *)
CompteurFaux ==
    /\ phase = "marche"
    /\ ~croise
    /\ msFlag # pin["pompe"]
    /\ \A t \in Acteurs : ~Attend(t, Flag(1 - msFlag)) /\ ~Attend(t, Pin("pompe", msFlag))

(* While commands do not overlap, only a request for the pump can set the  *)
(* counter at odds with the pump: keys, windows, boots and crashes move the*)
(* flag with the line.                                                     *)
CompteurExplique ==
    [][ ~CompteurFaux /\ CompteurFaux' =>
          \E r \in Requetes : /\ reste[r] # <<>>
                             /\ Head(reste[r]) = Pin("pompe", pin'["pompe"]) ]_vars

(* "Impossible de lancer electrolyse, pompe Off": with all commands        *)
(* finished, the cell does not run without the pump.                       *)
VerrouAuRepos == AuRepos => ~SansCirculation
=============================================================================
