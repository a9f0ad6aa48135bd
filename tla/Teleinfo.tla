------------------------------ MODULE Teleinfo ------------------------------
(***************************************************************************)
(* The electricity meter's serial line and its reader.  The meter repeats  *)
(* a frame: a start mark, its groups, an end mark; every round of          *)
(* lectureFrame looks for a frame through a buffered reader of its own and *)
(* sends the groups to Graphite, each under a name that goes through the   *)
(* global variable data, which other goroutines write too.                 *)
(*                                                                         *)
(* A group is one item of the stream.  What the line does to it -- altered,*)
(* cut short -- shows in its checksum or its shape and makes it noise.     *)
(***************************************************************************)
EXTENDS Integers, Sequences, FiniteSets

CONSTANTS
    NbGroupes,      \* groups of a frame, each with a key of its own
    Capacite,       \* items that the system keeps for a reader that is late
    MaxTrames,      \* bound: frames the meter sends
    MaxPertes       \* bound: items lost or altered

ASSUME TeleinfoAssumption ==
    /\ NbGroupes \in Nat \ {0}
    /\ Capacite \in Nat \ {0}
    /\ MaxTrames \in Nat
    /\ MaxPertes \in Nat

VARIABLES
    emis,       \* the frame that the meter is sending, its rank
    place,      \* the place in it of the next item
    manque,     \* the items that did not arrive as they were sent
    flux,       \* what the system has received and nobody has read
    tampon,     \* what the buffered reader has read ahead
    etape,      \* lectureFrame: "debut", "fin": it looks for that mark;
                \* "trame": it goes through the groups; "point": it has
                \* assigned data and is about to call GraphiteCnx
    brut,       \* what ReadBytes has collected
    frame,      \* the decoded groups, key and value
    reste,      \* those still to send, the current one included
    groupe,     \* the current one
    recu,       \* the last frame a decoded group came from
    data,       \* the global variable: a key, or AutreNom
    autre,      \* another goroutine has assigned data for its own point
    point       \* the last point sent to Graphite: its name and its value

varsLigne == <<emis, place, manque>>
varsTampons == <<flux, tampon>>
varsFrame == <<etape, brut, frame, reste, groupe, recu>>
varsPoint == <<data, autre, point>>
vars == <<varsLigne, varsTampons, varsFrame, varsPoint>>

Cles == 1..NbGroupes
AutreNom == 0

(* The value of key k in frame n is the pair <<k, n>>.                     *)
Valeurs == Cles \X (1..MaxTrames)
Mesure == <<AutreNom, 0>>

(* An item is known by its frame and its place; noise has no frame.        *)
Debut(n) == <<n, 0>>
Groupe(n, k) == <<n, k>>
Fin(n) == <<n, NbGroupes + 1>>
Bruit == <<0, 0>>
Elements == ((1..MaxTrames) \X (0..(NbGroupes + 1))) \cup {Bruit}

EstDebut(e) == e # Bruit /\ e[2] = 0
EstFin(e) == e[2] = NbGroupes + 1
EstGroupe(e) == e[2] \in Cles

Init ==
    /\ emis = 0 /\ place = NbGroupes + 1 /\ manque = {}
    /\ flux = <<>> /\ tampon = <<>>
    /\ etape = "debut" /\ brut = <<>>
    /\ frame = {} /\ reste = {} /\ groupe = Mesure /\ recu = 0
    /\ data = AutreNom /\ autre = FALSE /\ point = <<AutreNom, Mesure>>

-----------------------------------------------------------------------------
(* The meter and the line.                                                 *)

(* An item goes out.  It arrives, or does not -- the line drops it or the  *)
(* system has no room -- or is altered.                                    *)
Transmettre(e) ==
    \/ Len(flux) < Capacite /\ flux' = Append(flux, e) /\ UNCHANGED manque
    \/ /\ Cardinality(manque) < MaxPertes
       /\ manque' = manque \cup {e}
       /\ \/ UNCHANGED flux
          \/ Len(flux) < Capacite /\ flux' = Append(flux, Bruit)

(* The next item of the frame, or the start of the next frame.             *)
Emettre ==
    /\ \/ /\ place <= NbGroupes
          /\ place' = place + 1
          /\ UNCHANGED emis
       \/ /\ place = NbGroupes + 1
          /\ emis < MaxTrames
          /\ emis' = emis + 1
          /\ place' = 0
    /\ Transmettre(<<emis', place'>>)
    /\ UNCHANGED <<tampon, varsFrame, varsPoint>>

-----------------------------------------------------------------------------
(* ReadFrame.                                                              *)

(* bufio reads when it has nothing left, as much as there is.              *)
Remplir ==
    /\ etape \in {"debut", "fin"}
    /\ tampon = <<>>
    /\ flux # <<>>
    /\ tampon' = flux
    /\ flux' = <<>>
    /\ UNCHANGED <<varsLigne, varsFrame, varsPoint>>

(* Mutant: no start mark is looked for. *)
ReadSlice_Aussitot ==
    /\ etape = "debut"
    /\ tampon # <<>>
    /\ etape' = "fin"
    /\ brut' = <<>>
    /\ UNCHANGED <<varsLigne, varsTampons, frame, reste, groupe, recu, varsPoint>>

(* buffer.ReadSlice(FrameStart), one item of it.                           *)
ReadSlice ==
    /\ etape = "debut"
    /\ tampon # <<>>
    /\ tampon' = Tail(tampon)
    /\ etape' = IF EstDebut(Head(tampon)) THEN "fin" ELSE etape
    /\ brut' = <<>>
    /\ UNCHANGED <<varsLigne, flux, frame, reste, groupe, recu, varsPoint>>

(* buffer.ReadBytes(FrameEnd), one item of it.                             *)
ReadBytes ==
    /\ etape = "fin"
    /\ tampon # <<>>
    /\ ~EstFin(Head(tampon))
    /\ tampon' = Tail(tampon)
    /\ brut' = Append(brut, Head(tampon))
    /\ UNCHANGED <<varsLigne, flux, etape, frame, reste, groupe, recu, varsPoint>>

(* The last group with a key gives its value; no frame comes of an empty   *)
(* one, nor of one with noise or a start mark in it, which fails the tests *)
(* of number, length or checksum.                                          *)
decodeFrame(r) ==
    IF \A i \in 1..Len(r) : EstGroupe(r[i])
    THEN {<<r[i][2], r[i][1]>> : i \in {k \in 1..Len(r) :
              \A j \in (k + 1)..Len(r) : r[j][2] # r[k][2]}}
    ELSE {}

(* lectureFrame has the frame f to go through, empty after an error, whose *)
(* last group comes from the meter's frame n.                              *)
Prendre(f, n) ==
    /\ etape' = "trame"
    /\ brut' = <<>>
    /\ frame' = f
    /\ reste' = f
    /\ recu' = n
    /\ UNCHANGED <<varsLigne, flux, groupe, varsPoint>>

ReadFrame ==
    /\ etape = "fin"
    /\ tampon # <<>>
    /\ EstFin(Head(tampon))
    /\ tampon' = Tail(tampon)
    /\ \/ decodeFrame(brut) = {} /\ Prendre({}, recu)
       \/ decodeFrame(brut) # {} /\ Prendre(decodeFrame(brut), brut[Len(brut)][1])

(* Mutant: after an error the frame of the last round is still there. *)
Echouer_TrameAvant ==
    /\ etape \in {"debut", "fin"}
    /\ tampon = <<>>
    /\ Prendre(frame, recu)
    /\ UNCHANGED tampon

(* A read from the port fails.                                             *)
Echouer ==
    /\ etape \in {"debut", "fin"}
    /\ tampon = <<>>
    /\ Prendre({}, recu)
    /\ UNCHANGED tampon

-----------------------------------------------------------------------------
(* lectureFrame.                                                           *)

(* Mutant: the name is assigned before the loop. *)
Nommer_UneFois ==
    /\ etape = "trame"
    /\ groupe' \in reste
    /\ data' = IF reste = frame THEN groupe'[1] ELSE data
    /\ etape' = "point"
    /\ UNCHANGED <<varsLigne, varsTampons, brut, frame, reste, recu, autre, point>>

(* The groups come in any order: the frame is a map.                       *)
Nommer ==
    /\ etape = "trame"
    /\ groupe' \in reste
    /\ data' = groupe'[1]
    /\ etape' = "point"
    /\ UNCHANGED <<varsLigne, varsTampons, brut, frame, reste, recu, autre, point>>

(* Mutant: the group stays to be sent. *)
Poster_Encore ==
    /\ etape = "point"
    /\ point' = <<data, groupe>>
    /\ frame' = frame \ {groupe}
    /\ etape' = "trame"
    /\ UNCHANGED <<varsLigne, varsTampons, brut, reste, groupe, recu, data, autre>>

(* GraphiteCnx takes the name out of data; how long it then takes is open. *)
Poster ==
    /\ etape = "point"
    /\ point' = <<data, groupe>>
    /\ reste' = reste \ {groupe}
    /\ etape' = "trame"
    /\ UNCHANGED <<varsLigne, varsTampons, brut, frame, groupe, recu, data, autre>>

(* After the sleep the next round makes a new reader: what the last one had*)
(* read ahead is gone.                                                     *)
NewReader ==
    /\ etape = "trame"
    /\ reste = {}
    /\ tampon' = <<>>
    /\ etape' = "debut"
    /\ UNCHANGED <<varsLigne, flux, brut, frame, reste, groupe, recu, varsPoint>>

(* Another goroutine sends a metric of its own through data, as pompeOn, f *)
(* and LectureSondes do.                                                   *)
NommerAutre ==
    /\ ~autre
    /\ autre' = TRUE
    /\ data' = AutreNom
    /\ UNCHANGED <<varsLigne, varsTampons, varsFrame, point>>

PosterAutre ==
    /\ autre
    /\ autre' = FALSE
    /\ point' = <<data, Mesure>>
    /\ UNCHANGED <<varsLigne, varsTampons, varsFrame, data>>

Lecture == Remplir \/ ReadSlice \/ ReadBytes \/ ReadFrame \/ Echouer

Next ==
    \/ Emettre
    \/ Lecture
    \/ Nommer \/ Poster \/ NewReader
    \/ NommerAutre \/ PosterAutre

Spec == Init /\ [][Next]_vars

-----------------------------------------------------------------------------
(* Properties.                                                             *)

(* Every variable has a value the program can give it; lectureFrame sends  *)
(* groups of the frame that it has decoded.                                *)
TypeOK ==
    /\ emis \in 0..MaxTrames
    /\ place \in 0..(NbGroupes + 1)
    /\ emis = 0 => place = NbGroupes + 1
    /\ manque \subseteq Elements
    /\ flux \in Seq(Elements) /\ tampon \in Seq(Elements) /\ brut \in Seq(Elements)
    /\ Len(flux) <= Capacite
    /\ etape \in {"debut", "fin", "trame", "point"}
    /\ reste \subseteq frame /\ frame \subseteq Valeurs
    /\ groupe \in Valeurs \cup {Mesure}
    /\ etape = "point" => groupe \in reste
    /\ recu \in 0..MaxTrames
    /\ data \in Cles \cup {AutreNom}
    /\ autre \in BOOLEAN
    /\ point \in (Cles \cup {AutreNom}) \X (Valeurs \cup {Mesure})

(* A decoded frame is a frame of the meter but for what the line has lost: *)
(* a key that is not in it did not arrive, and values of two frames come   *)
(* together only when every mark between them was lost.  The bytes that a  *)
(* discarded reader takes with it never cut a frame short.                 *)
TrameEntiere ==
    \A c, d \in frame :
        /\ \A k \in Cles : \/ \E b \in frame : b[1] = k
                           \/ Groupe(c[2], k) \in manque
        /\ \A n \in c[2]..(d[2] - 1) : Fin(n) \in manque /\ Debut(n + 1) \in manque

(* Another goroutine's name may be put on a value of the meter, but never  *)
(* the key of another value of the meter.                                  *)
CleJuste == point[2] = Mesure \/ point[1] \in {AutreNom, point[2][1]}

(* Read-ahead, late reading, losses and errors skip values of the meter,   *)
(* but no round gives one again: all it has decoded is from frames later   *)
(* than those of every round before.                                       *)
TramesNouvelles ==
    [][ etape' = "trame" /\ etape \in {"debut", "fin"} =>
            \A c \in frame' : c[2] > recu ]_vars
=============================================================================
