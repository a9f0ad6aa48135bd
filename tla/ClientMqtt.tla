----------------------------- MODULE ClientMqtt -----------------------------
(***************************************************************************)
(* The connection to the MQTT broker: the client library as the program    *)
(* uses it, from the moment mqttSubscribe has returned.  publishMqtt sends *)
(* at quality of service 0 and waits for its token; everything the broker  *)
(* sends comes to the handler f, in the one goroutine of the router; the   *)
(* options are the library's (clean session, automatic reconnection) with  *)
(* a short keepalive and no OnConnect handler.                             *)
(*                                                                         *)
(* Five worker goroutines live as long as one connection; internalConnLost *)
(* waits for them to end and reconnect starts new ones.  Messages are named*)
(* by their rank, each direction by its own.                               *)
(***************************************************************************)
EXTENDS Integers, Sequences, FiniteSets

CONSTANTS
    Publieurs,      \* goroutines that call publishMqtt
    Profondeur,     \* MessageChannelDepth
    MaxPublies,     \* bound: messages published by the program
    MaxEmis         \* bound: messages the broker sends

ASSUME ClientAssumption ==
    /\ Profondeur \in Nat \ {0}
    /\ MaxPublies \in Nat
    /\ MaxEmis \in Nat

Travailleurs == {"incoming", "outgoing", "alllogic", "errorWatch", "keepalive"}

(* Besides the rank of a message: no message, the answer to a ping, and    *)
(* for a publisher: not in publishMqtt, or past the checks of Publish.     *)
Rien  == 0
Pong  == -1
Libre == 0
Admis == -1

VARIABLES
    perte,      \* handling of a lost connection: "non"; "appelee":
                \* internalConnLost is started; "attend": it waits for the
                \* workers; "reconnexion", "relance": the halves of reconnect
    vivants,    \* the workers that run
    erreur,     \* c.errors, a channel for one error, holds one
    ping,       \* "repos", "envoye", "repondu": the answer is on its way;
                \* "expire": keepalive is in its blocking send to c.errors
    conn,       \* the TCP connection: "vive"; "muette": lost, unnoticed;
                \* "rompue": reads and writes fail
    abonne,     \* the broker's session holds the subscription to "#"
    publies,    \* messages put into obound so far
    attente,    \* for each publisher Libre, Admis or the message it waits for
    obound,     \* the channel of that name
    enMain,     \* the message that outgoing has taken and not yet written
    fil,        \* written and not yet received by the broker
    recu,       \* the last message that the broker has received
    emis,       \* messages the broker has sent so far
    arrivee,    \* sent by the broker and not yet read
    lu,         \* the packet that incoming offers on ibound
    enLogique,  \* the message that alllogic puts into incomingPubChan
    aTraiter,   \* incomingPubChan
    traite      \* the last message that f has handled

varsClient == <<perte, vivants, erreur, ping, conn, abonne>>
varsSortie == <<publies, attente, obound, enMain, fil, recu>>
varsEntree == <<emis, arrivee, lu, enLogique, aTraiter, traite>>
vars == <<varsClient, varsSortie, varsEntree>>

(* c.stop is closed; c.status is reconnecting.                             *)
StopFerme     == perte \in {"attend", "reconnexion", "relance"}
Reconnectant  == perte \in {"reconnexion", "relance"}

Init ==
    /\ perte = "non"
    /\ vivants = Travailleurs
    /\ erreur = FALSE
    /\ ping = "repos"
    /\ conn = "vive"
    /\ abonne = TRUE
    /\ publies = 0
    /\ attente = [p \in Publieurs |-> Libre]
    /\ obound = <<>>
    /\ enMain = Rien
    /\ fil = <<>>
    /\ recu = 0
    /\ emis = 0
    /\ arrivee = <<>>
    /\ lu = Rien
    /\ enLogique = Rien
    /\ aTraiter = <<>>
    /\ traite = 0

-----------------------------------------------------------------------------
(* publishMqtt.                                                            *)

(* Publish looks at the status ...  While the client reconnects the token  *)
(* is completed at once and the message dropped.  The bound counts the     *)
(* messages already admitted, so that each of them can be put into obound. *)
Publish(p) ==
    /\ attente[p] = Libre
    /\ ~Reconnectant
    /\ publies + Cardinality({q \in Publieurs : attente[q] = Admis}) < MaxPublies
    /\ attente' = [attente EXCEPT ![p] = Admis]
    /\ UNCHANGED <<publies, obound, enMain, fil, recu, varsClient, varsEntree>>

(* ... and puts the message into obound, whatever the status is by then.   *)
Deposer(p) ==
    /\ attente[p] = Admis
    /\ Len(obound) < Profondeur
    /\ publies' = publies + 1
    /\ obound' = Append(obound, publies')
    /\ attente' = [attente EXCEPT ![p] = publies']
    /\ UNCHANGED <<enMain, fil, recu, varsClient, varsEntree>>

(* A token is completed: its publisher goes on.                            *)
Rendre(m) ==
    attente' = [p \in Publieurs |-> IF attente[p] = m THEN Libre ELSE attente[p]]

-----------------------------------------------------------------------------
(* The goroutine outgoing.  Its select may prefer obound to a closed stop. *)

Prendre ==
    /\ "outgoing" \in vivants
    /\ enMain = Rien
    /\ obound # <<>>
    /\ enMain' = Head(obound)
    /\ obound' = Tail(obound)
    /\ UNCHANGED <<publies, attente, fil, recu, varsClient, varsEntree>>

(* A write into a connection whose loss is not yet known succeeds.         *)
Ecrire ==
    /\ enMain # Rien
    /\ conn # "rompue"
    /\ fil' = IF conn = "vive" THEN Append(fil, enMain) ELSE fil
    /\ enMain' = Rien
    /\ Rendre(enMain)
    /\ UNCHANGED <<publies, obound, recu, varsClient, varsEntree>>

(* Mutant: a message that could not be written goes back to the channel. *)
EcrireEchoue_Remet ==
    /\ enMain # Rien
    /\ conn = "rompue"
    /\ obound' = Append(obound, enMain)
    /\ enMain' = Rien
    /\ erreur' = TRUE
    /\ vivants' = vivants \ {"outgoing"}
    /\ UNCHANGED <<publies, attente, fil, recu, perte, ping, conn, abonne, varsEntree>>

(* Mutant: the token of a message that could not be written is forgotten. *)
EcrireEchoue_SansJeton ==
    /\ enMain # Rien
    /\ conn = "rompue"
    /\ enMain' = Rien
    /\ erreur' = TRUE
    /\ vivants' = vivants \ {"outgoing"}
    /\ UNCHANGED <<publies, attente, obound, fil, recu, perte, ping, conn, abonne, varsEntree>>

(* Mutant: the error is sent as keepalive sends its own, waiting for room. *)
EcrireEchoue_Bloquant ==
    /\ enMain # Rien
    /\ conn = "rompue"
    /\ ~erreur
    /\ enMain' = Rien
    /\ Rendre(enMain)
    /\ erreur' = TRUE
    /\ vivants' = vivants \ {"outgoing"}
    /\ UNCHANGED <<publies, obound, fil, recu, perte, ping, conn, abonne, varsEntree>>

(* setError completes the token, signalError does not wait.                *)
EcrireEchoue ==
    /\ enMain # Rien
    /\ conn = "rompue"
    /\ enMain' = Rien
    /\ Rendre(enMain)
    /\ erreur' = TRUE
    /\ vivants' = vivants \ {"outgoing"}
    /\ UNCHANGED <<publies, obound, fil, recu, perte, ping, conn, abonne, varsEntree>>

-----------------------------------------------------------------------------
(* The goroutines incoming, alllogic and that of the router.               *)

Lire ==
    /\ "incoming" \in vivants
    /\ lu = Rien
    /\ arrivee # <<>>
    /\ lu' = Head(arrivee)
    /\ arrivee' = Tail(arrivee)
    /\ UNCHANGED <<varsClient, varsSortie, emis, enLogique, aTraiter, traite>>

(* Mutant: incoming ends without a word. *)
LireEchoue_SansErreur ==
    /\ "incoming" \in vivants
    /\ lu = Rien
    /\ conn = "rompue"
    /\ vivants' = vivants \ {"incoming"}
    /\ UNCHANGED <<perte, erreur, ping, conn, abonne, varsSortie, varsEntree>>

(* After a closed stop the error is swallowed.                             *)
LireEchoue ==
    /\ "incoming" \in vivants
    /\ lu = Rien
    /\ conn = "rompue"
    /\ vivants' = vivants \ {"incoming"}
    /\ erreur' = (erreur \/ ~StopFerme)
    /\ UNCHANGED <<perte, ping, conn, abonne, varsSortie, varsEntree>>

(* The break of the second case leaves the select and not the loop.        *)
LaisserLu ==
    /\ lu # Rien
    /\ StopFerme
    /\ lu' = Rien
    /\ UNCHANGED <<varsClient, varsSortie, emis, arrivee, enLogique, aTraiter, traite>>

(* Mutant: the answer to a ping is handled like a message. *)
Transmettre_SansPingresp ==
    /\ lu # Rien
    /\ "alllogic" \in vivants
    /\ enLogique = Rien
    /\ lu' = Rien
    /\ enLogique' = lu
    /\ UNCHANGED <<varsClient, varsSortie, emis, arrivee, aTraiter, traite>>

(* ibound has no buffer: alllogic takes what incoming offers.              *)
Transmettre ==
    /\ lu # Rien
    /\ "alllogic" \in vivants
    /\ enLogique = Rien
    /\ lu' = Rien
    /\ \/ /\ lu = Pong
          /\ ping' = IF ping = "repondu" THEN "repos" ELSE ping
          /\ UNCHANGED enLogique
       \/ /\ lu # Pong
          /\ enLogique' = lu
          /\ UNCHANGED ping
    /\ UNCHANGED <<perte, vivants, erreur, conn, abonne, varsSortie, emis, arrivee,
                   aTraiter, traite>>

(* Mutant: a message that finds the channel full is given to f at once, in *)
(* a goroutine of its own. *)
Empiler_SansAttendre ==
    /\ enLogique # Rien
    /\ \/ /\ Len(aTraiter) < Profondeur
          /\ aTraiter' = Append(aTraiter, enLogique)
          /\ UNCHANGED traite
       \/ /\ Len(aTraiter) = Profondeur
          /\ traite' = enLogique
          /\ UNCHANGED aTraiter
       \/ StopFerme /\ UNCHANGED <<aTraiter, traite>>
    /\ enLogique' = Rien
    /\ UNCHANGED <<varsClient, varsSortie, emis, arrivee, lu>>

(* incomingPubChan <- m, or stop.                                          *)
Empiler ==
    /\ enLogique # Rien
    /\ \/ /\ Len(aTraiter) < Profondeur
          /\ aTraiter' = Append(aTraiter, enLogique)
       \/ StopFerme /\ UNCHANGED aTraiter
    /\ enLogique' = Rien
    /\ UNCHANGED <<varsClient, varsSortie, emis, arrivee, lu, traite>>

(* The router calls f and waits for it; for some topics f goes through     *)
(* GraphiteCnx, so the step may be late, or never come.                    *)
Traiter ==
    /\ aTraiter # <<>>
    /\ traite' = Head(aTraiter)
    /\ aTraiter' = Tail(aTraiter)
    /\ UNCHANGED <<varsClient, varsSortie, emis, arrivee, lu, enLogique>>

-----------------------------------------------------------------------------
(* The goroutine keepalive.                                                *)

(* An error of ping.Write is not looked at.                                *)
Ping ==
    /\ "keepalive" \in vivants
    /\ ping = "repos"
    /\ ping' = "envoye"
    /\ UNCHANGED <<perte, vivants, erreur, conn, abonne, varsSortie, varsEntree>>

Expirer ==
    /\ "keepalive" \in vivants
    /\ ping \in {"envoye", "repondu"}
    /\ ping' = "expire"
    /\ UNCHANGED <<perte, vivants, erreur, conn, abonne, varsSortie, varsEntree>>

(* c.errors <- err waits for room, and no longer for stop.                 *)
Signaler ==
    /\ ping = "expire"
    /\ ~erreur
    /\ erreur' = TRUE
    /\ ping' = "repos"
    /\ vivants' = vivants \ {"keepalive"}
    /\ UNCHANGED <<perte, conn, abonne, varsSortie, varsEntree>>

(* Any worker that finds stop closed where it waits for something else     *)
(* ends; in incoming only LireEchoue gets out of the loop.                 *)
Arret(w) ==
    /\ StopFerme
    /\ w \in vivants
    /\ \/ w = "outgoing" /\ enMain = Rien
       \/ w = "alllogic" /\ enLogique = Rien
       \/ w = "keepalive" /\ ping # "expire"
    /\ vivants' = vivants \ {w}
    /\ UNCHANGED <<perte, erreur, ping, conn, abonne, varsSortie, varsEntree>>

-----------------------------------------------------------------------------
(* The loss of a connection and the next one.                              *)

(* errorWatch takes one error, starts internalConnLost and ends.           *)
Alerter ==
    /\ "errorWatch" \in vivants
    /\ erreur
    /\ erreur' = FALSE
    /\ vivants' = vivants \ {"errorWatch"}
    /\ perte' = "appelee"
    /\ UNCHANGED <<ping, conn, abonne, varsSortie, varsEntree>>

(* closeStop and conn.Close; what was written may still get through.       *)
Couper ==
    /\ perte = "appelee"
    /\ perte' = "attend"
    /\ conn' = "rompue"
    /\ arrivee' = <<>>
    /\ UNCHANGED <<vivants, erreur, ping, abonne, varsSortie, emis, lu, enLogique,
                   aTraiter, traite>>

(* workers.Wait, then status reconnecting and go reconnect.                *)
PerteTraitee ==
    /\ perte = "attend"
    /\ vivants = {}
    /\ perte' = "reconnexion"
    /\ UNCHANGED <<vivants, erreur, ping, conn, abonne, varsSortie, varsEntree>>

(* A new connection and a clean session; keepalive is started, and until   *)
(* Relancer it finds the stop channel of the connection before.            *)
Connecter ==
    /\ perte = "reconnexion"
    /\ perte' = "relance"
    /\ conn' = "vive"
    /\ ping' = "repos"
    /\ vivants' = {"keepalive"}
    /\ abonne' = FALSE
    /\ fil' = <<>>
    /\ UNCHANGED <<erreur, publies, attente, obound, enMain, recu, varsEntree>>

(* A new stop, status connected, the four other workers.                   *)
Relancer ==
    /\ perte = "relance"
    /\ perte' = "non"
    /\ vivants' = vivants \cup (Travailleurs \ {"keepalive"})
    /\ UNCHANGED <<erreur, ping, conn, abonne, varsSortie, varsEntree>>

-----------------------------------------------------------------------------
(* The network and the broker.                                             *)

Recevoir ==
    /\ fil # <<>>
    /\ recu' = Head(fil)
    /\ fil' = Tail(fil)
    /\ UNCHANGED <<publies, attente, obound, enMain, varsClient, varsEntree>>

Emettre ==
    /\ conn = "vive"
    /\ abonne
    /\ emis < MaxEmis
    /\ emis' = emis + 1
    /\ arrivee' = Append(arrivee, emis')
    /\ UNCHANGED <<varsClient, varsSortie, lu, enLogique, aTraiter, traite>>

RepondrePing ==
    /\ conn = "vive"
    /\ ping = "envoye"
    /\ ping' = "repondu"
    /\ arrivee' = Append(arrivee, Pong)
    /\ UNCHANGED <<perte, vivants, erreur, conn, abonne, varsSortie, emis, lu, enLogique,
                   aTraiter, traite>>

(* The connection falls silent, or both ends learn that it is broken; what *)
(* was under way is lost.                                                  *)
Rompre ==
    /\ \/ conn = "vive" /\ conn' \in {"muette", "rompue"}
       \/ conn = "muette" /\ conn' = "rompue"
    /\ fil' = <<>>
    /\ arrivee' = <<>>
    /\ UNCHANGED <<perte, vivants, erreur, ping, abonne, publies, attente, obound, enMain,
                   recu, emis, lu, enLogique, aTraiter, traite>>

Next ==
    \/ \E p \in Publieurs : Publish(p) \/ Deposer(p)
    \/ Prendre \/ Ecrire \/ EcrireEchoue
    \/ Lire \/ LireEchoue \/ LaisserLu \/ Transmettre \/ Empiler
    \/ Traiter
    \/ Ping \/ Expirer \/ Signaler
    \/ \E w \in Travailleurs : Arret(w)
    \/ Alerter \/ Couper \/ PerteTraitee \/ Connecter \/ Relancer
    \/ Recevoir \/ Emettre \/ RepondrePing \/ Rompre

(* Every runnable goroutine goes on, and the broker can be reached again.  *)
(* Strong fairness where others can take what a goroutine waits for: select*)
(* chooses at random among what is ready, and the senders that wait for    *)
(* room in a channel are served in the order of their coming.  Nothing is  *)
(* asked of the handler f, which Graphite may hold up for ever.            *)
Equite ==
    /\ \A p \in Publieurs : SF_vars(Deposer(p))
    /\ SF_vars(Prendre)
    /\ WF_vars(Ecrire \/ EcrireEchoue)
    /\ WF_vars(LireEchoue)
    /\ WF_vars(LaisserLu \/ Transmettre)
    /\ WF_vars(Empiler)
    /\ WF_vars(Signaler)
    /\ \A w \in Travailleurs : WF_vars(Arret(w))
    /\ WF_vars(Alerter)
    /\ WF_vars(Couper)
    /\ WF_vars(PerteTraitee)
    /\ WF_vars(Connecter)
    /\ WF_vars(Relancer)

Spec == Init /\ [][Next]_vars /\ Equite

-----------------------------------------------------------------------------
(* Properties.                                                             *)

(* Channels and hands hold messages, the state of the workers is one the   *)
(* library can be in.                                                      *)
TypeOK ==
    /\ perte \in {"non", "appelee", "attend", "reconnexion", "relance"}
    /\ vivants \subseteq Travailleurs
    /\ erreur \in BOOLEAN
    /\ ping \in {"repos", "envoye", "repondu", "expire"}
    /\ conn \in {"vive", "muette", "rompue"}
    /\ abonne \in BOOLEAN
    /\ publies \in Nat
    /\ attente \in [Publieurs -> Nat \cup {Admis}]
    /\ obound \in Seq(Nat \ {0})
    /\ enMain \in Nat
    /\ fil \in Seq(Nat \ {0})
    /\ recu \in Nat
    /\ emis \in 0..MaxEmis
    /\ arrivee \in Seq((1..MaxEmis) \cup {Pong})
    /\ lu \in Pong..MaxEmis
    /\ enLogique \in 0..MaxEmis
    /\ aTraiter \in Seq(1..MaxEmis)
    /\ traite \in 0..MaxEmis

(* A publisher only waits for a message that outgoing has still to write:  *)
(* no lost connection takes a message with it whose token is still awaited,*)
(* so publishMqtt is never left waiting for something nobody has.          *)
AttenteFondee ==
    \A p \in Publieurs :
        attente[p] > 0 => \/ attente[p] = enMain
                          \/ \E i \in DOMAIN obound : obound[i] = attente[p]

(* No worker is missing unnoticed: when the connection is taken to be good *)
(* and one of the workers has ended, an error waits for errorWatch.  Only  *)
(* keepalive may miss, stopped by the channel of the connection before.    *)
PerteSignalee ==
    perte = "non" /\ ~(Travailleurs \ {"keepalive"} \subseteq vivants) => erreur

Sortie == INSTANCE Canal
Entree == INSTANCE Canal WITH publies <- emis, recu <- traite

(* What the program publishes reaches the broker in the order of obound and*)
(* at most once, across losses of the connection and messages kept over    *)
(* them.                                                                   *)
SortieOrdonnee == Sortie!Spec

(* The same for what the broker sends and f is called with.                *)
EntreeOrdonnee == Entree!Spec

(* keepalive waits for room in c.errors, internalConnLost for keepalive:   *)
(* two goroutines fill the channel after errorWatch has ended.             *)
Fige == ping = "expire" /\ erreur /\ perte = "attend"

(* A call of publishMqtt returns, be it waiting for room in a full obound  *)
(* or for its token, however the connection fails meanwhile and although f *)
(* may hang in Graphite until incomingPubChan is full and alllogic blocked,*)
(* unless the client is stuck for ever in the deadlock above.              *)
PublicationRend ==
    \A p \in Publieurs : attente[p] # Libre ~> (attente[p] = Libre \/ Fige)

(* "Permet d'ecouter MQTT": while the connection works, the program hears  *)
(* the topics it has subscribed to.                                        *)
Ecoute == perte = "non" /\ conn = "vive" => abonne
=============================================================================
