------------------------------ MODULE Compteur ------------------------------
(***************************************************************************)
(* The duration of filtration: the goroutine ms.counter() counts seconds   *)
(* while ms.Flag is set, writeFichierDurationFiltration() saves the count  *)
(* in a file at long intervals, key Q saves it once more before it ends    *)
(* the program, and the next process starts from what LireFichier reads.   *)
(*                                                                         *)
(* ms.Flag is moved by the commands (module Commandes); here it changes    *)
(* freely.  The file is the sequence of digits that it holds; the errors of*)
(* creating and of writing it are not looked at.                           *)
(***************************************************************************)
EXTENDS Integers, Sequences, SequencesExt

CONSTANTS
    Periodique,     \* the goroutine writeFichierDurationFiltration()
    Clavier,        \* the goroutine clavier(), when Q is pressed
    Ecrivains,      \* which of them run: Periodique always, Clavier or not
    Depart,         \* what the file holds when the program is first started
    DisqueFaillible,\* can operations on the file fail?
    Base,           \* 10; smaller to let counts gain a digit early
    MaxCompteur     \* bound on the count

ASSUME CompteurAssumption ==
    /\ Periodique # Clavier
    /\ Ecrivains \in {{Periodique}, {Periodique, Clavier}}
    /\ Depart \in Nat
    /\ MaxCompteur \in Nat /\ Depart <= MaxCompteur
    /\ DisqueFaillible \in BOOLEAN
    /\ Base \in Nat /\ Base > 1

VARIABLES
    vif,        \* is there a process?
    Flag,       \* ms.Flag
    compteur,   \* ms.compteur
    t,          \* ms.t, in seconds
    pc,         \* where counter() is: "test", "incr" or "dort"
    ecriture,   \* where each call is: "repos", "creer", "vider", "sortir"
    donnees,    \* the argument of each call
    fichier,    \* the digits in the file; survives the process
    sauve,      \* history: the count that Lancement read, or the last one
                \* that a call has written to its last digit
    entame,     \* history: the count given to the last call that has truncated
                \* the file, if no call has written all its digits since
    mele        \* history: Q has begun to write, next to the periodic writer

vars == <<vif, Flag, compteur, t, pc, ecriture, donnees, fichier, sauve, entame, mele>>

(* No count: nothing has been cut short.                                   *)
Aucun == -1

-----------------------------------------------------------------------------
(* strconv.FormatInt(n, Base) and back.                                      *)
FormatInt[n \in Nat] ==
    IF n < Base THEN <<n>> ELSE Append(FormatInt[n \div Base], n % Base)

(* Mutant: the scanner splits by runes and the first one is taken. *)
LireFichier_UnChiffre(contenu) == IF contenu = <<>> THEN 0 ELSE contenu[1]

(* An empty file has no line to parse, and the count stays 0.              *)
LireFichier(contenu) == FoldLeft(LAMBDA v, c : Base * v + c, 0, contenu)

(* Each call writes at the start of the file it opened: what is longer     *)
(* shows behind what is shorter.                                           *)
Ecraser(contenu, texte) ==
    texte \o SubSeq(contenu, Len(texte) + 1, Len(contenu))

Init ==
    /\ vif = FALSE
    /\ Flag = FALSE
    /\ compteur = 0
    /\ t = 0
    /\ pc = "test"
    /\ ecriture = [w \in Ecrivains |-> "repos"]
    /\ donnees = [w \in Ecrivains |-> 0]
    /\ fichier = FormatInt[Depart]
    /\ sauve = Depart
    /\ entame = Aucun
    /\ mele = FALSE

(* main() starts the goroutines with the count that init() has read.       *)
Demarrer(n) ==
    /\ ~vif
    /\ vif' = TRUE
    /\ Flag' = FALSE
    /\ compteur' = n
    /\ t' = n
    /\ pc' = "test"
    /\ ecriture' = [w \in Ecrivains |-> "repos"]
    /\ UNCHANGED <<donnees, fichier>>

(* init() reads the file ...                                               *)
Lancement ==
    /\ Demarrer(LireFichier(fichier))
    /\ sauve' = compteur'
    /\ entame' = Aucun
    /\ mele' = FALSE

(* ... or cannot open it; the error is dropped, and nothing is read.       *)
LancementIllisible ==
    /\ DisqueFaillible
    /\ Demarrer(0)
    /\ UNCHANGED <<sauve, entame, mele>>

(* The process ends, and its memory with it.                               *)
Mort ==
    /\ vif' = FALSE
    /\ Flag' = FALSE /\ compteur' = 0 /\ t' = 0 /\ pc' = "test"
    /\ ecriture' = [w \in Ecrivains |-> "repos"]
    /\ donnees' = [w \in Ecrivains |-> 0]
    /\ UNCHANGED <<fichier, sauve, entame, mele>>

(* It dies wherever it is.                                                 *)
Panne == vif /\ Mort

(* A command moves ms.Flag.                                                *)
Commande ==
    /\ vif
    /\ Flag' \in BOOLEAN
    /\ UNCHANGED <<vif, compteur, t, pc, ecriture, donnees, fichier, sauve, entame, mele>>

-----------------------------------------------------------------------------
(* func (ms *MyStruct) counter()                                           *)

TesterFlag ==
    /\ vif /\ pc = "test"
    /\ pc' = IF Flag THEN "incr" ELSE "dort"
    /\ UNCHANGED <<vif, Flag, compteur, t, ecriture, donnees, fichier, sauve, entame, mele>>

Incrementer ==
    /\ vif /\ pc = "incr"
    /\ compteur < MaxCompteur
    /\ compteur' = compteur + 1
    /\ pc' = "dort"
    /\ UNCHANGED <<vif, Flag, t, ecriture, donnees, fichier, sauve, entame, mele>>

(* Mutant: only a second that was counted is shown. *)
MajDuree_SiFlag ==
    /\ vif /\ pc = "dort"
    /\ t' = IF Flag THEN compteur ELSE t
    /\ pc' = "test"
    /\ UNCHANGED <<vif, Flag, compteur, ecriture, donnees, fichier, sauve, entame, mele>>

(* ... after the sleep of one second.                                      *)
MajDuree ==
    /\ vif /\ pc = "dort"
    /\ t' = compteur
    /\ pc' = "test"
    /\ UNCHANGED <<vif, Flag, compteur, ecriture, donnees, fichier, sauve, entame, mele>>

-----------------------------------------------------------------------------
(* WriteFichier(ms.compteur)                                               *)

Appeler(w) ==
    /\ vif /\ ecriture[w] = "repos"
    /\ donnees' = [donnees EXCEPT ![w] = compteur]
    /\ ecriture' = [ecriture EXCEPT ![w] = "creer"]
    /\ mele' = (mele \/ w = Clavier)
    /\ UNCHANGED <<vif, Flag, compteur, t, pc, fichier, sauve, entame>>

(* What follows the call: for key Q the end of the program, for the        *)
(* periodic writer its sleep.                                              *)
Rendre(w) ==
    ecriture' = [ecriture EXCEPT ![w] = IF w = Clavier THEN "sortir" ELSE "repos"]

(* os.Create truncates the file ...                                        *)
Creer(w) ==
    /\ vif /\ ecriture[w] = "creer"
    /\ fichier' = <<>>
    /\ entame' = donnees[w]
    /\ ecriture' = [ecriture EXCEPT ![w] = "vider"]
    /\ UNCHANGED <<vif, Flag, compteur, t, pc, donnees, sauve, mele>>

(* ... or fails; gestionErr prints, and nothing of what the call still does*)
(* with its nil handle reaches the file.                                   *)
CreerEchoue(w) ==
    /\ DisqueFaillible
    /\ vif /\ ecriture[w] = "creer"
    /\ Rendre(w)
    /\ UNCHANGED <<vif, Flag, compteur, t, pc, donnees, fichier, sauve, entame, mele>>

(* Mutant: the periodic writer stops after its first call. *)
Vider_UneFois(w) ==
    /\ vif /\ ecriture[w] = "vider"
    /\ fichier' = Ecraser(fichier, FormatInt[donnees[w]])
    /\ sauve' = donnees[w]
    /\ entame' = Aucun
    /\ ecriture' = [ecriture EXCEPT ![w] = "fini"]
    /\ UNCHANGED <<vif, Flag, compteur, t, pc, donnees, mele>>

(* Flush writes the digits ...                                             *)
Vider(w) ==
    /\ vif /\ ecriture[w] = "vider"
    /\ fichier' = Ecraser(fichier, FormatInt[donnees[w]])
    /\ sauve' = donnees[w]
    /\ entame' = Aucun
    /\ Rendre(w)
    /\ UNCHANGED <<vif, Flag, compteur, t, pc, donnees, mele>>

(* What a write that fails can leave: not all of the digits of n.          *)
Morceaux(n) ==
    {SubSeq(FormatInt[n], 1, k) : k \in 0..(Len(FormatInt[n]) - 1)}

(* ... or fails after some of them; its error is dropped.                  *)
ViderEchoue(w) ==
    /\ DisqueFaillible
    /\ vif /\ ecriture[w] = "vider"
    /\ \E s \in Morceaux(donnees[w]) : fichier' = Ecraser(fichier, s)
    /\ Rendre(w)
    /\ UNCHANGED <<vif, Flag, compteur, t, pc, donnees, sauve, entame, mele>>

(* os.Exit(1), after the call of key Q.                                    *)
Sortir(w) ==
    /\ vif /\ ecriture[w] = "sortir"
    /\ Mort

Compter == TesterFlag \/ Incrementer \/ MajDuree
Ecrire(w) ==
    \/ Appeler(w)
    \/ Creer(w) \/ CreerEchoue(w)
    \/ Vider(w) \/ ViderEchoue(w)
    \/ Sortir(w)

Next ==
    \/ Lancement \/ LancementIllisible \/ Panne \/ Commande
    \/ Compter
    \/ \E w \in Ecrivains : Ecrire(w)

(* Goroutines that sleep wake up, and file operations end, one way or the  *)
(* other; nobody has to press Q.                                           *)
Spec == Init /\ [][Next]_vars /\ WF_vars(Compter) /\ WF_vars(Ecrire(Periodique))

-----------------------------------------------------------------------------
(* Properties.                                                             *)

(* Every variable has a value the program can give it.                     *)
TypeOK ==
    /\ vif \in BOOLEAN /\ Flag \in BOOLEAN
    /\ compteur \in Nat /\ t \in Nat
    /\ pc \in {"test", "incr", "dort"}
    /\ ecriture \in [Ecrivains -> {"repos", "creer", "vider", "sortir"}]
    /\ donnees \in [Ecrivains -> Nat]
    /\ fichier \in Seq(0..(Base - 1))
    /\ sauve \in Nat /\ entame \in Nat \cup {Aucun}
    /\ mele \in BOOLEAN

(* The duration that /status and key T show is never ahead of the count and*)
(* at most one second behind it, from the first instant of a process on.   *)
AffichageProche == vif => compteur \in {t, t + 1}

(* What WriteFichier saves of the count: unless Q interfered, a process    *)
(* that can read the file starts from the last count that was written to   *)
(* its last digit, through any number of creations that failed; or, when a *)
(* later call has truncated the file and a crash or an error then kept it  *)
(* from writing all, from the first digits of that call's count, in the    *)
(* worst case from 0.                                                      *)
RepriseExacte ==
    [][ Lancement /\ ~mele =>
            IF entame = Aucun
            THEN compteur' = sauve
            ELSE compteur' \in {LireFichier(s) : s \in Morceaux(entame)} ]_vars

(* From some time on no operation on the file fails.                       *)
DisqueSain ==
    <>[][\A w \in Ecrivains : ~CreerEchoue(w) /\ ~ViderEchoue(w)]_vars

(* A count is in the file sooner or later, unless the process ends before: *)
(* neither an error nor a call of Q stops the periodic writer for good.    *)
SauvegardeAssuree ==
    DisqueSain =>
        \A n \in 1..MaxCompteur :
            vif /\ compteur = n ~> (~vif \/ LireFichier(fichier) >= n)

(* "Permet de quitter proprement le programme": when Q ends the program,   *)
(* the file holds the count that one of the two calls was given.           *)
QuitterSauve ==
    [][ \A w \in Ecrivains : Sortir(w) =>
            \E u \in Ecrivains : LireFichier(fichier) = donnees[u] ]_vars
=============================================================================
