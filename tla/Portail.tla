------------------------------- MODULE Portail -------------------------------
(***************************************************************************)
(* The gate and its lamp.  Both are commanded by messages over MQTT and    *)
(* share one variable of the program, etatLampePortail; nothing tells the  *)
(* program what the lamp really does.  Key A and the HTTP requests run     *)
(* unsynchronised, one goroutine each; their messages go through the       *)
(* channel of module Canal.                                                *)
(***************************************************************************)
EXTENDS Integers, Sequences

CONSTANTS
    Boucle,         \* the goroutine of init() and main()
    Clavier,        \* the goroutine of clavier()
    Requetes,       \* the goroutines that serve HTTP requests
    Sujets,         \* what is commanded over HTTP, a subset of {"lampe", "portail"}
    MaxOrdres       \* bound: messages published by one process

Acteurs == {Boucle, Clavier} \cup Requetes

ASSUME PortailAssumption ==
    /\ Boucle # Clavier
    /\ Boucle \notin Requetes
    /\ Clavier \notin Requetes
    /\ Sujets \subseteq {"lampe", "portail"}
    /\ MaxOrdres \in Nat

VARIABLES
    phase,      \* "arret": no process; "init": in init(); "marche"
    etat,       \* etatLampePortail
    lampe,      \* what the lamp does; it outlives the process
    etape,      \* for each goroutine the accesses still to make, in order
    ordre,      \* for each goroutine the message it publishes
    publies,    \* Canal: messages published by this process
    recu,       \* Canal: the last one that has arrived
    contenu,    \* what the published messages say
    perdu,      \* history: a message of this process was lost
    croise      \* history: two commands have overlapped in this process

varsPortail == <<phase, etat, lampe, etape, ordre, publies, recu, contenu, perdu, croise>>

C == INSTANCE Canal

Etapes == {"libre", "stocker-publier", "publier", "publier-stocker", "stocker"}
Ordres == {"lampe", "portail", "demarrage"} \X {0, 1}

Init ==
    /\ phase = "arret"
    /\ etat = 0
    /\ lampe \in {0, 1}
    /\ etape = [t \in Acteurs |-> "libre"]
    /\ ordre = [t \in Acteurs |-> <<"lampe", 0>>]
    /\ C!Init
    /\ contenu = <<>>
    /\ perdu = FALSE
    /\ croise = FALSE

(* The process starts and connects: a new channel.  init() stores OFF and  *)
(* publishes OFF1 to "/domos/portail/light/cmd/", which is not the topic of*)
(* the lamp's switch.                                                      *)
Lancement ==
    /\ phase = "arret"
    /\ phase' = "init"
    /\ etat' = 0
    /\ etape' = [etape EXCEPT ![Boucle] = "stocker-publier"]
    /\ ordre' = [ordre EXCEPT ![Boucle] = <<"demarrage", 0>>]
    /\ publies' = 0
    /\ recu' = 0
    /\ contenu' = <<>>
    /\ perdu' = FALSE
    /\ croise' = FALSE
    /\ UNCHANGED lampe

(* Any panic ends the process; key Q ends it too and leaves the lamp alone.*)
Panne ==
    /\ phase # "arret"
    /\ phase' = "arret"
    /\ etape' = [t \in Acteurs |-> "libre"]
    /\ UNCHANGED <<etat, lampe, ordre, publies, recu, contenu, perdu, croise>>

-----------------------------------------------------------------------------
(* The commands.                                                           *)

Lance(t, e, o) ==
    /\ phase = "marche"
    /\ etape[t] = "libre"
    /\ etape' = [etape EXCEPT ![t] = e]
    /\ ordre' = [ordre EXCEPT ![t] = o]
    /\ croise' = (croise \/ \E u \in Acteurs \ {t} : etape[u] # "libre")
    /\ UNCHANGED <<phase, etat, lampe, publies, recu, contenu, perdu>>

(* Mutant: the key orders what the variable says already. *)
ToucheA_Repete == Lance(Clavier, "publier-stocker", <<"lampe", etat>>)

(* Key A orders the opposite of the state, and stores it at the end.       *)
ToucheA == Lance(Clavier, "publier-stocker", <<"lampe", 1 - etat>>)

(* /lampePortail/v and /Portail/v store first.                             *)
HttpPortail(r) ==
    \E s \in Sujets, v \in {0, 1} : Lance(r, "stocker-publier", <<s, v>>)

(* Mutant: the branch that switches off stores nothing. *)
Stocker_PasZero(t) ==
    /\ etape[t] \in {"stocker-publier", "stocker"}
    /\ etat' = IF ordre[t][2] = 1 THEN 1 ELSE etat
    /\ etape' = [etape EXCEPT ![t] = IF @ = "stocker" THEN "libre" ELSE "publier"]
    /\ UNCHANGED <<phase, lampe, ordre, publies, recu, contenu, perdu, croise>>

Stocker(t) ==
    /\ etape[t] \in {"stocker-publier", "stocker"}
    /\ etat' = ordre[t][2]
    /\ etape' = [etape EXCEPT ![t] = IF @ = "stocker" THEN "libre" ELSE "publier"]
    /\ UNCHANGED <<phase, lampe, ordre, publies, recu, contenu, perdu, croise>>

(* Mutant: init() publishes nothing. *)
Publier_PasAuDepart(t) ==
    /\ etape[t] \in {"publier-stocker", "publier"}
    /\ publies < MaxOrdres
    /\ C!Publier
    /\ contenu' = IF phase = "init" THEN contenu ELSE Append(contenu, ordre[t])
    /\ etape' = [etape EXCEPT ![t] = IF @ = "publier" THEN "libre" ELSE "stocker"]
    /\ phase' = "marche"
    /\ UNCHANGED <<etat, lampe, ordre, perdu, croise>>

(* publishMqtt; init() is over with its publication.                       *)
Publier(t) ==
    /\ etape[t] \in {"publier-stocker", "publier"}
    /\ publies < MaxOrdres
    /\ C!Publier
    /\ contenu' = Append(contenu, ordre[t])
    /\ etape' = [etape EXCEPT ![t] = IF @ = "publier" THEN "libre" ELSE "stocker"]
    /\ phase' = "marche"
    /\ UNCHANGED <<etat, lampe, ordre, perdu, croise>>

(* The broker passes a message on; only the lamp's switch is modelled.     *)
Livrer ==
    /\ phase # "arret"
    /\ C!Livrer
    /\ lampe' = IF contenu[recu'][1] = "lampe" THEN contenu[recu'][2] ELSE lampe
    /\ perdu' = (perdu \/ recu' # recu + 1)
    /\ UNCHANGED <<phase, etat, etape, ordre, contenu, croise>>

Next ==
    \/ Lancement \/ Panne
    \/ ToucheA \/ \E r \in Requetes : HttpPortail(r)
    \/ \E t \in Acteurs : Stocker(t) \/ Publier(t)
    \/ Livrer

Spec == Init /\ [][Next]_varsPortail

-----------------------------------------------------------------------------
(* Properties.                                                             *)

(* Every variable has a value the program can give it; there is a content  *)
(* for every published message.                                            *)
TypeOK ==
    /\ phase \in {"arret", "init", "marche"}
    /\ etat \in {0, 1}
    /\ lampe \in {0, 1}
    /\ etape \in [Acteurs -> Etapes]
    /\ ordre \in [Acteurs -> Ordres]
    /\ publies \in Nat
    /\ recu \in 0..publies
    /\ contenu \in Seq(Ordres)
    /\ Len(contenu) = publies
    /\ perdu \in BOOLEAN
    /\ croise \in BOOLEAN

(* No command is under way and everything published has arrived.           *)
AuRepos ==
    /\ phase = "marche"
    /\ \A t \in Acteurs : etape[t] = "libre"
    /\ recu = publies
    /\ ~perdu

(* After commands that did not overlap the variable, which the next key A  *)
(* negates and which is shown at /status, says what the lamp does, provided*)
(* that the last command of this process was for the lamp: a command for   *)
(* the gate, a lost message or a restart makes the two differ.             *)
LampeConnue ==
    AuRepos /\ ~croise /\ contenu[publies][1] = "lampe" => etat = lampe

(* From such a rest key A orders the lamp to do the opposite of what it    *)
(* does: the one key never has to be pressed twice.                        *)
ToucheABascule ==
    [][ AuRepos /\ ~croise /\ contenu[publies][1] = "lampe"
        /\ etape'[Clavier] = "publier-stocker"
          => ordre'[Clavier] = <<"lampe", 1 - lampe>> ]_varsPortail

(* "Etre certains que la lampe portail soit sur OFF": when init() is over  *)
(* and its message has arrived, the lamp is off.                           *)
LampeEteinteAuDepart ==
    AuRepos /\ publies = 1 /\ contenu[1][1] = "demarrage" => lampe = 0
=============================================================================
