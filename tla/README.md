# Domos: a TLA+ model of the pool controller

Domos is a set of Go programs on a Raspberry Pi. The main one drives the filtration pump, the
electrolysis cell and the pool-house lamp of a swimming pool through GPIO relays, commands the
gate and its lamp over MQTT, reads the electricity meter and temperature micro-services, sends
metrics to Graphite, and takes commands from a keyboard, from HTTP and from a clock. A second
one runs a touch screen. This directory models the parts whose correctness depends on the order
in which things happen. Names are the programs' own, hence French.

Line numbers are those of `src/Domos/src/github.com/alexis/domos/main.go` unless another file is
named; `net.go`, `client.go`, `ping.go`, `router.go`, `token.go` and `options.go` are those of
the vendored `github.com/eclipse/paho.mqtt.golang`.

## 1. The system

### Components, their state, their operations

| Component | State | Operations | Module |
|---|---|---|---|
| Commands for pump, cell, lamp | `etatPompe`, `etatElectrolyse`, `etatLampe`, GPIO lines, `ms.Flag` | `pompeOn/Off`, `electrolyseOn/Off`, keys P E L Q, `/pompe`, `/electro`, `/lampe`, boot | `Commandes` |
| Filtration windows | `flagPlage1..3`, `formattedPlageNFin`, `dureeFiltration`, `heureCourante` | endless loop of `main()`, `calculPlages`, `calculDuree` | `BouclePlages` |
| Duration counter and its file | `ms.compteur`, `ms.t`, the file | `counter`, `WriteFichier`, `LireFichier`, `writeFichierDurationFiltration`, Q | `Compteur` |
| Gate and gate lamp | `etatLampePortail`, the lamp behind the broker | key A, `/lampePortail`, `/Portail`, boot | `Portail`, over `Canal` |
| MQTT connection | channels, workers and status of the client, the broker's session | `publishMqtt`, `mqttSubscribe`, the client's goroutines, loss and reconnection | `ClientMqtt`, which implements `Canal` |
| MQTT message handler | `datamqtt`, the global `data` | `f` | partly: the step `Traiter` of `ClientMqtt`, `NommerAutre` of `Teleinfo` |
| Teleinfo reader (`reader.go`) | serial stream, read-ahead, the frame, the global `data` | `ReadFrame`, `readRawFrame`, `decodeFrame`, `lectureFrame` | `Teleinfo` |
| Nextion display (`DomosV2/src/nextion.go`) | buttons on a screen, the last answer of `/status` | `lecture`, `ecriture`, `httpTemperature`, `httpStatus`, requests to the controller | `Ecran` |
| Temperature sensors (client) | `tEauFloat`, `dureeFiltration` | `LectureSondes`, `httpTemperature` | partly: `Sonde`, `MajDuree` |
| Metrics | globals `data`, `value` | `GraphiteCnx`, `statCPU`, `metriquesGolang`, `Netatmo` | partly: the blocking retry, the name of a point |
| Temperature, statistics and Netatmo micro-services, Live Objects, configuration, notifications, web pages | - | input and output | not modelled (section 6) |

### How they interact

All goroutines of the controller share unprotected globals. The main loop, the keyboard
goroutine and one goroutine per HTTP request call the same functions, without a lock. A GPIO
line is written through `rpio.WritePin` of the vendored `go-rpio`, which holds a lock while it
writes and panics before `rpio.Open`; the line keeps its level when the process ends. `pompeOn`, `pompeOff`, `electrolyseOn`, `electrolyseOff`, the MQTT handler `f` and
`lectureFrame` call `GraphiteCnx`, which tries every five seconds, without limit, until the
server accepts a connection (`utilitaires.go` 108-118): an outage stops the caller in the middle
of what it does. `LectureSondes` derives `dureeFiltration` from the water temperature and the
loop derives from it the end of each window. `ms.Flag`, set by the pump commands, drives the
duration counter, whose file is the only state that the program itself saves. `publishMqtt`
waits for the token of its message, so key A and the handlers of the gate depend on the
goroutines of the MQTT client; the client calls `f` in its single router goroutine, so a slow
`f` holds up the answers to pings. The screen's program polls `/status` and sends requests like
any HTTP client.

### What is hard, and what correct means

* *Commands.* Conditions are checked and used without exclusion; a state variable and its line
  are written in two steps; a stop of pump and cell is two calls with a wait in between; a
  process may die anywhere (nil results that are used, the broker away, concurrent writes of
  `mapDate`) and leaves the lines as they are. Correct: the cell never runs without the pump,
  the state variables say what the lines are, the counter's flag follows the pump.
* *Windows.* The loop works on a clock value it read before it waited; ends move with the
  temperature and wrap at midnight; three flags encode which window is open. Correct: the pump
  runs inside the windows and only there, none opens on a running pump, every open window is
  closed, at most one is marked open.
* *Counter.* The file is truncated before it is written, two goroutines may write it, a process
  may die in between; creating, writing and opening the file may fail, and the program goes on
  as if they had not (`utilitaires.go` 235-241, 254). Correct: the display is within a second of
  the count, a restart finds what was last written and never more, and an error that passes does
  not keep later counts from being saved.
* *Gate lamp.* One variable stands for the gate and for its lamp; key A publishes and then
  stores, the handlers store and then publish; messages are lost; a restart forgets. Correct:
  the variable says what the lamp does, so that key A switches it over.
* *MQTT.* Five goroutines live as long as one connection, signal each other through channels of
  one, and may all find the connection dead, in any order. Correct: what is published arrives
  in order and at most once, the same for what is received, no loss goes unnoticed, every caller
  of `publishMqtt` returns, the program hears its topics.
* *Teleinfo.* Each round starts a new buffered reader and throws away what the last one had read
  ahead; the line and the input queue lose items; the name of a point goes through a global that
  others write. Correct: a decoded frame is one the meter sent, none is given twice, values keep
  their keys.
* *Screen.* A press changes the button before the command is carried out or refused; an answer
  asked for before the press may overwrite it; one button shows another lamp than it commands.
  Correct: when everything is quiet the screen shows the state.

The full list of hazards, each at its line, is in `PROJECT.json`.

## 2. Modules

`Commandes` (core). A goroutine is the sequence `reste[t]` of accesses to shared state it has
still to make. The functions of the program are such sequences: `pompeOff` is *store etatPompe,
lower the line, clear ms.Flag, wait for Graphite*. An action `Touche*`, `Http*`, `DebutPlage` or
`FinPlage` puts the sequence of a handler into `reste[t]` (the first read of the handler decides
which), and one `Pas*` action executes one access. `PasGarde` and `PasTest` are the conditions
inside `electrolyseOn` and around it; both drop the rest of the command when they fail.
`Lancement` starts a process with fresh variables and old lines; the keyboard works from that
moment on (line 273), the server and the loop only from `phase = "marche"`. A line written
before `rpio.Open` panics. `Panne` ends the process at any point; `PasExit` is `os.Exit` of Q.
`croise` is a history variable: two commands have overlapped in the current process. Left out:
printing, date strings, Pushbullet and Telegram messages, which change nothing but may crash
(`Panne`); `mapDate`, which is display text; the lines for the LED and the second lamp, which
nothing ever raises or reads back. The two reads in the condition of `electrolyseOn` are one
step; the temperature may change just before it.

`BouclePlages` EXTENDS `Commandes` and adds clock, window ends, flags and the position of the
loop. `DebutPlage` and `FinPlage` happen when the code does them; everything else is a step of
`Commandes` with the loop's variables unchanged, or a step that leaves `Commandes` alone.
`calculPlages` is three steps, since it reads `dureeFiltration` three times. The clock is cyclic;
it may not leave a time of day before the loop has made a round at it (two rounds a second),
except without a process and, when `PannesLongues`, while the loop waits for Graphite.

`Compteur` models the count, its display and its file, a sequence of digits; each call of
`WriteFichier` takes its argument, truncates (`Creer`), writes at the start of the file
(`Vider`). With `DisqueFaillible` each of these may fail: after `CreerEchoue` the file is as it
was, `gestionErr` prints and the rest of the call, with its nil handle, does nothing;
`ViderEchoue` leaves any first part of the digits, down to none. In both cases the call returns
as if it had succeeded. `LancementIllisible` is a start whose `os.Open` fails: the count begins
at 0. `ms.Flag` moves freely here. `Base` scales the decimal system down so that counts gain a
digit early. `sauve` (the last count written to its last digit), `entame` (the one whose write
was begun since and did not get there) and `mele` (Q has begun to write) are history variables.

`Canal` is the abstract specification of one direction of the MQTT connection: messages, named
by their rank, may be lost, and what arrives arrives once and in order.

`ClientMqtt` is the client library as the program uses it (quality of service 0, clean session,
automatic reconnection, no `OnConnect` handler), from the end of `mqttSubscribe` on. A publisher
passes the status check of `Publish` and then puts its message into `obound`, two steps between
which the connection may be lost. `vivants` are the workers of the connection (`incoming`,
`outgoing`, `alllogic`, `errorWatch`, `keepalive`); each ends in `Arret` when it sees the closed
`stop`, or earlier with an error. `internalConnLost` is `Couper` and `PerteTraitee`, `reconnect`
is `Connecter` and `Relancer`: in that order, so that `keepalive` may see the old `stop`. A lost
connection is first `muette` (nobody knows; writes succeed into nothing) and may then be
`rompue`. `f` is the step `Traiter` and may take for ever. `Sortie` and `Entree` are instances
of `Canal`, one for each direction.

`Portail` is the layer above: `etatLampePortail`, its four writers, each two steps in the
program's order, and the lamp's switch at the other end of an instance of `Canal`. A new process
has a new channel: what the old one had under way is taken as lost. `perdu` and `croise` are
history variables.

`Ecran` models the screen's two goroutines and the controller's answers. A request is one step
at the controller, with the effects the handlers have (`/electro/1` is refused without the pump;
`/pompe/0` also stops the cell); keys and windows are `AutreCommande`. `ecriture` writes the
buttons one by one from an answer that may be old. A request without a server is a nil response
that is used: the screen's program dies (`Mourir`) and may be started again.

`Teleinfo` has a stream of items: start marks, groups and end marks. An item may be lost or
altered on the way, or dropped by the full input queue; an altered group fails one of the tests
of `decodeFrame` and makes the whole frame an error. `Remplir` is bufio's read of all there is;
`ReadSlice` and `ReadBytes` consume item by item; `NewReader` starts the next round and drops the
read-ahead. The decoded frame is a map, so its groups are sent in any order, each through
`data`, which `NommerAutre` (pompeOn, `f`, `LectureSondes`) may overwrite between the assignment
and the call. An altered group is assumed to fail the checksum; two alterations that cancel in
the six-bit sum are not modelled.

`Files` holds lemmas about sequences. `*Proofs` modules hold the proofs. `MC*` modules hold the
values of constants. Definitions marked *Mutant* are plausible bugs, used to check that each
property can fail; no action uses them.

## 3. Runs

| Run | Shows |
|---|---|
| `commandes_toutes` | All keys and requests, boots, crashes: `ElectrolyseProtegee` (without overlap the cell never runs without the pump unless the command in progress is about to stop it); `CoherentAuRepos` (state variables = lines when all is quiet, also after a crash); `ExpositionExpliquee` (which steps can expose the cell, under any overlap); `CompteurExplique` (only a request for the pump sets the counter's flag at odds with the pump) |
| `commandes_verrou` | violation: `/electro/1` crossed by `/pompe/0`, or a window opening crossed by it, leaves the cell on and the pump off |
| `plages_journee` | a day whose water turns from cool to hot and back: `PompeSelonPlages`, `OuvertureUnique`, and every step is one of `Commandes` (`CommandesRespectees`) |
| `plages_pannes` | delays past windows and midnight: `UneSeulePlage`, `PompeSelonDrapeaux`, `FermetureAssuree` |
| `compteur_sauvegarde` | with crashes, Q and a disk that fails: `AffichageProche`; `RepriseExacte` (a process starts from the last count written whole or, if a later write was cut short, from the first digits of that one); `SauvegardeAssuree` (once operations on the file succeed, every count gets there) |
| `compteur_quitter` | violation: the periodic writer empties or garbles the file that Q saved |
| `mqtt_client` | `SortieOrdonnee`, `EntreeOrdonnee` (both directions implement `Canal`), `AttenteFondee` (nobody waits for a message nobody has), `PerteSignalee` (no worker is missing unnoticed), `PublicationRend` (callers return, from a full `obound` as from waiting for a token, though `f` hangs; but for the deadlock `Fige`) |
| `mqtt_abonnement` | violation: after a reconnection there is no subscription any more |
| `portail_lampe` | `LampeConnue`, `ToucheABascule`: when the variable can be trusted, and that key A then does the opposite of what the lamp does |
| `portail_demarrage` | violation: the boot does not switch the lamp off |
| `ecran` | `AfficheSuit`: once commands and fingers are quiet the screen shows the state |
| `teleinfo` | `TrameEntiere`, `CleJuste`, `TramesNouvelles` |

The four violations are disagreements between the code and what it says of itself;
`PROJECT.json` ("findings") quotes the lines. `Fige` is a deadlock of the vendored library that
`PublicationRend` makes room for: `keepalive` sends its error to a channel that is full and that
nobody reads any more (`ping.go` 61), and `internalConnLost` waits for `keepalive`. Nothing in
this repository promises its absence, so it is not listed as a finding.

What the code does *not* give is as telling: `LampeConnue` holds only when commands did not
cross, nothing was lost and the last command was for the lamp; `ElectrolyseProtegee` and
`CoherentAuRepos` only while commands did not overlap; `CleJuste` has to admit that a value of
the meter appears under another measure's name; `TrameEntiere` that losing an end mark and the
next start mark joins two frames.

### Bounds

* `commandes_*`: one HTTP goroutine, next to keyboard and loop: three commands in flight, which
  is enough for a race between any two of them and a third bystander. Two temperatures, one on
  each side of the electrolysis threshold. All these properties are also proved, for any number.
* `plages_journee`: a day of twelve hours with windows at 2, 5 and 8. Twelve degrees give windows
  of two hours that do not touch; thirty degrees windows of five, of which the first two overlap
  and the third crosses midnight; zero (a failed reading) empty ones. Every hour strictly inside,
  at the edge of and outside a window occurs.
* `plages_pannes`: a day of six hours with windows of two at 0, 2 and 4, enough for a delay to
  span a window, the next one, and midnight. The third window ends at hour 0 of the next day and
  never opens, as the code has it (line 1179).
* Both have no manual commands: with those for the pump it need not follow the windows. The
  refinement of `Commandes` is proved with all of them, the pump's properties with those for the
  cell and the lamp.
* `compteur_*`: the count goes to 4 in base 3: it passes from one digit to two, so a write that
  fails can leave none or the first of two. The disk fails in `compteur_sauvegarde`
  only: the violation of `compteur_quitter` needs no failing disk.
* `mqtt_client`: two publishers, channels of one, three messages of the program and two of the
  broker. So channels do block: with the message of one publisher in `obound`, the call of the other
  waits in `Publish` for room, also while the connection is lost and `outgoing` gone; with `f` hanging, one message fills `incomingPubChan`, `alllogic` is stuck with the next,
  `incoming` with the answer to a ping, and `keepalive` gives a working connection up. What one
  loss left over meets the next: losses are not bounded. The bound on the program's
  messages is in `Publish` and counts those admitted: no publisher is ever held up by it in the
  middle of a call. `mqtt_abonnement` has channels of two and two messages each way, more than
  its short trace needs.
* `portail_*`: keyboard, boot and two requests; four messages per process: the boot's and three
  commands, of which any two may cross.
* `ecran`: three buttons, among them the one that shows another lamp than it commands (button 2
  behaves as 0 does), two presses under way.
* `teleinfo`: three frames of two groups, a queue of five items (a frame and the next start
  mark), three losses: the loss of both marks between two frames and of one item more.

Deadlock is checked but for `mqtt_*`, `portail_*` and `teleinfo`, where the bounds on messages
and frames let the instance come to its end.

### Fairness

Goroutines are scheduled. In `Commandes` strong fairness of each goroutine's next access; it is
strong only for `GraphiteCnx`: a poll that is possible again and again succeeds. `EquiteB` also
assumes that an outage of Graphite ends and that the clock goes on. In `Compteur` the counter
and the periodic writer only ever sleep, so they go on, and operations on the file end, one way
or the other; nobody has to press Q. That they succeed is not part of the fairness: it is the
premise `DisqueSain` of `SauvegardeAssuree`, that from some time on none fails. In `ClientMqtt`
every library step that waits for nobody outside is weakly fair. `Prendre` is strongly fair,
because `select` chooses at random among ready channels and so takes a message that is ready
again and again; so is `Deposer`, because Go serves the senders that wait for room in a channel
in the order of their coming, and none can be overtaken for ever. No fairness for `f` (it may hang in Graphite), for the network, the broker, or
for noticing a silent loss, but reconnection succeeds in the end (`Connecter` polls). In `Ecran`
the two goroutines go on; `Calme` states what the environment must do for the screen to settle.
No fairness is assumed of commands, crashes, restarts, presses or temperature changes, and none
is needed for the safety of `Portail` and `Teleinfo`.

## 4. Proofs

All theorems hold for every value of the constants that satisfies the named assumptions of the
modules (distinct actors, a positive capacity, windows that start within a day, and so on).

`CommandesProofs`. `TypeCorrect`; and `Explication`, which is `ExpositionExpliquee`: a single
step says too little about what is still pending, so the invariant `IInv` adds for each pending
sequence that a fall of the pump's line is followed by a fall of the cell's (`ChuteSuivie`) and
that a sequence with a condition contains no fall of the cell's line (`ConditionSansChute`).
Both hold of every program and of tails. Then only raising the cell's line, or losing the
sequences with the process, can expose the cell.

The module's second half has `CelluleProtegee`, `ReposCoherent` and `CompteurJuste`, that is
`ElectrolyseProtegee`, `CoherentAuRepos` and `CompteurExplique`. The invariant `JInv` adds to
`IInv` the shape of pending sequences (`Formes`: a state variable is written just before its
line, the flag just after the pump's line, conditions before what depends on them, the boot's
sequence) and, while no commands have overlapped, the position of the only one in progress
(`Seul`): lines and state variables agree except for the line that is written next; when the
cell runs without the pump a fall of its line is still to come; past its condition a rise of the
cell's line finds the pump running. Shapes are shown for each program and for tails, `Seul` by
one lemma per kind of access (`MarcheEtat`, `MarchePin`, `MarcheNeutre`, `MarcheAbandon`,
`SeulBoot`).

`BouclePlagesProofs`. `Raffinement`: every step of the loop is a step of `Commandes` or leaves
its variables alone. Hence `ExplicationB` and `CoherenceB`: what is proved of commands holds of
the program with its clock and windows. Then, of the loop itself, `TypeCorrectB`, whose point is
that a window end stays inside the day; `PlagesExclusives`, which is `UneSeulePlage`; and three
theorems about the pump, each under hypotheses that it names:

* `PompeToujoursSelonDrapeaux` is `PompeSelonDrapeaux`, assuming `SansCommandePompe`: no key and
  no request is for the pump (those for the cell and the lamp may come at any time). Its
  invariant `KInv` says that only the loop has commands for the pump pending (`BoucleSeule`) and,
  for each position of the loop, where the pump is once what is pending there has been made
  (`PompeSuit`). Crashes in the middle of an opening and endless waits for Graphite are included.
* `PompeToujoursSelonPlages` is `PompeSelonPlages` and `OuvertureToujoursUnique` is
  `OuvertureUnique`, assuming also that the loop keeps up with the clock (`~PannesLongues`) and
  that no window ends in the last clock step of the day, 23:59 in the code (`AvantMinuit`). The second is not a
  convenience: the loop compares times of day, so a window that ends in that step may never be
  seen to be over. `MinutesAvantMinuit` shows that it follows when no window begins in the last
  step of an hour: windows last whole hours, so in the code only one that begins at a minute 59
  (`lectureIni` takes any "HH:mm") could end at 23:59. Those of `config.ini` begin on the hour.
  The invariant `HInv` adds what the clock may do between two
  rounds (`Horloge`) and which windows the round has still to open or to close, those marked open
  being the ones that have begun (`Fenetres`).

`CompteurProofs`. `AffichageToujoursProche`, from an invariant that relates count and display to
the position of `counter()`, whatever the file holds. `TypesTenus`, which is `TypeOK`,
`RepriseToujoursExacte`, which is `RepriseExacte`, and `JamaisEnAvance`, that a process never
starts ahead of the count last given to the file, hold whether the disk fails or not. They need what `FormatInt` and `LireFichier` give
for every number. Both are defined by recursion (the second by the fold of the community
modules); the library's induction takes an operator as a parameter and cannot be used, so each
such fact is proved from its least counterexample (`PlusPetit` of `Files`): first that the
recursion has a solution, piece by piece from initial segments, then its equation
(`FormatIntEquation`, `LireAjout`), then `LuCommeEcrit`, that a number is read back as it was
written, and `LireDebut`, that the first digits of a number never say more than all of them. The
invariant `FichierJuste`, until Q writes: the file is the last count written whole, or a part of
the one whose write was begun since (`entame`), and it is empty whenever the periodic writer is
about to write; so nothing longer is left behind what it writes, nor behind the part that it
writes when it fails.

`EcranProofs`. `TypesTenus`, which is `TypeOK`; and `ResteAffiche`, the half of `AfficheSuit`
that needs no fairness: once nothing moves the state and nobody presses, a screen that shows the
state goes on showing it (`Suit` adds that an answer which is still being written is up to
date), so it does not flicker between the two.

`PortailProofs`. `TypePortail`, `LampeToujoursConnue`, `ToucheAToujoursBascule`. The invariant
says, for commands that did not cross, which of store and publication the only command in
progress has made, and that without losses the lamp does what the last message for it that has
arrived says.

`ClientMqttProofs`. `TypeClientMqtt`, `AttenteToujoursFondee`, `PerteToujoursSignalee`, and the
refinements `SortieToujoursOrdonnee` and `EntreeToujoursOrdonnee`: each step of the client maps
to a step of `Canal` or to a stutter. The invariant lines up the messages of a direction (last
received, on the wire, in hand, in the channel) in increasing order, and says which workers may
be missing in which state of the connection.

`TeleinfoProofs`. `TypeTeleinfo`, `CleToujoursJuste`, `TramesToujoursNouvelles`,
`TrameToujoursEntiere`. The invariant lines up what has been given, collected, read ahead and
received in the order of the stream, and says that between two neighbours in it, unless a round
has thrown read-ahead away there, every item is in `manque`. Two neighbouring groups of one raw
frame are then joined by marks that were lost; `WFMin` picks the least key that is missing.

`Files` holds the facts about queues and numbers that several of these modules cite.

Only model-checked: the liveness properties `FermetureAssuree`, `SauvegardeAssuree`,
`PublicationRend`, `AfficheSuit` (out of the prover's reach, but for the half above); and, since
TLC refutes them, the properties of the four violations. Every invariant and every action
property of the passing runs is proved.

## 5. How the modules fit

`BouclePlages` refines `Commandes` (checked and proved), so what is shown of commands holds of
the program with its clock. `ClientMqtt` implements `Canal` in both directions (checked and
proved), and `Portail` is built on `Canal`, so its results hold over the real client, with one
difference named in section 2: a new process starts a new channel. `Ecran` takes the commands of
the controller as single steps; `Commandes` shows what they are made of. `Compteur` lets
`ms.Flag` move freely and so covers every behaviour `Commandes` gives it.

Work that remains: the fields `f` picks out of a JSON message, once the sensors' formats are
known; and the safety half of the other liveness properties, as `ResteAffiche` is for the screen.

## 6. Not modelled

* *Temperature micro-service* (`DomosV2/src/temperature.go`): each request reads one sensor
  file. Its counters are incremented and read by concurrent requests, but the controller, its
  only client in the repository, asks for one sensor after the other.
* *Statistics and Netatmo micro-services*: figures of the system or one remote call, formatted
  as JSON; no state but a request counter.
* *Live Objects*: a connection, a publication and a disconnection per measure; nothing is kept.
  Its panic when the broker is away is `Panne`.
* *Configuration*: read once at the start; its values are CONSTANTS.
* *Notifications* (Pushbullet, Telegram, IFTTT): nothing comes back; their crash is `Panne`.
* *The JSON of `f`* and the list of metrics: the payloads come from sensors outside the
  repository, and the metrics are output without state.
* *Web pages and the other vendored libraries* (HTTP/2, protobuf, YAML, system calls, ...), by
  far the largest part of `src/`: third-party code, of which the program uses plain calls. The
  MQTT client is the exception, because its goroutines decide whether the program's own calls
  return.
