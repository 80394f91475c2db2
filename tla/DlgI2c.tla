------------------------------- MODULE DlgI2c -------------------------------
(***************************************************************************)
(* The driver of the i2c dialogue with the PowerCam board (driver linux,   *)
(* exemple/stim_drivers/dlgi2c.c).  The board pulls a line down when it    *)
(* has events to report: the interrupt queues a work that reads the        *)
(* board's status, stores one message per event in a ring for the          *)
(* application and clears on the board the events it could store.  The     *)
(* same work sends the commands that the application has put in a second   *)
(* ring: the shared variable mode says which of the two it does.  Every    *)
(* second a frame of life is exchanged with the board.                     *)
(*                                                                         *)
(* The kernel runs on one processor and does not preempt a task that does  *)
(* not sleep: a task runs from one point where it sleeps (the semaphore    *)
(* Monlock, an i2c transfer, a wait) to the next; interrupts and timers    *)
(* come at any point.                                                      *)
(***************************************************************************)
EXTENDS Integers, FiniteSets, SequencesExt

CONSTANTS
  Bits,        \* the events the board reports, as bit numbers
  TAILLE_BUF,  \* slots of a ring
  MaxActivations, \* bound on how often the frame of life is enabled
  SeuilZero,   \* frames of life with the line low before it is cleared
  CharSigne    \* whether char is signed: it is not on ARM

ASSUME DlgI2cAssumption ==
  /\ Bits \subseteq 0..6
  /\ TAILLE_BUF \in Nat \ {0, 1} /\ SeuilZero \in Nat \ {0, 1}
  /\ MaxActivations \in Nat
  /\ CharSigne \in BOOLEAN

\* A ring has room for all the events of a status: 7 and 10 in the code.
ASSUME StatutAssumption == \A b \in Bits : b < TAILLE_BUF

VARIABLES
  pic,      \* the events the board reports and that nobody has cleared
  irq,      \* whether the falling edge of its line is still to be handled
  mode,     \* client_i2c->mode
  Monlock,  \* the task that holds the semaphore
  tache,    \* I2c_interrupt_task: queued, where it is, ucStatusInt
  vie,      \* the frame of life: timer pending, work queued, pc, ucCpt, err
  zero,     \* ucNbIntZero, and whether uiCptClear is still uiOldCptClear
  bufr,     \* buf_read and index_bufr
  data_on,
  bufw,     \* buf_write and index_bufw
  activations, \* how often the application has enabled the frame of life
  ub        \* whether add_timer has found its timer pending

carte == <<pic, irq>>
lire  == <<bufr, data_on>>
trame == <<vie, zero, activations, ub>>
vars  == <<carte, mode, Monlock, tache, trame, lire, bufw>>

Slots == 0..(TAILLE_BUF - 1)
Vide       == <<"vide", 0>>
SetInt(b)  == <<"SET_INT", b>>
PbTrameVie == <<"ALARME_HARD", 0>>
Commande   == <<"I2C_SET_CMD", 0>>
Message    == {SetInt(b) : b \in Bits} \cup {PbTrameVie, Commande}

\* index [0] is the last slot written (e), index [1] the last slot read (l),
\* both -1 at first.  A slot whose message has been read is Vide; perdu, which
\* the code does not have, says that a message not read was written over.
Anneau == [e : Slots \cup {-1}, l : Slots \cup {-1}, perdu : BOOLEAN,
           buf : [Slots -> Message \cup {Vide}]]
AnneauVide == [e |-> -1, l |-> -1, perdu |-> FALSE, buf |-> [i \in Slots |-> Vide]]

\* The variables hold values of the kinds the code gives them.
TypeOK ==
  /\ pic \subseteq Bits /\ irq \in BOOLEAN
  /\ mode \in {"zero", "I2C_READ", "I2C_WRITE"}
  /\ Monlock \in {"libre", "tache", "vie", "lecteur"}
  /\ tache \in [file : BOOLEAN, pc : {"repos", "down", "statut", "clear"},
                statut : SUBSET Bits]
  /\ vie \in [timer : BOOLEAN, file : BOOLEAN, pc : {"repos", "down", "essai"},
              ucCpt : 0..3, err : BOOLEAN]
  /\ zero \in [nb : 0..(SeuilZero - 1), egal : BOOLEAN]
  /\ bufr \in Anneau /\ data_on \in BOOLEAN /\ bufw \in Anneau
  /\ activations \in 0..MaxActivations /\ ub \in {"aucun", "timer"}

-----------------------------------------------------------------------------
(***************************************************************************)
(* The rings.                                                              *)
(***************************************************************************)

Apres(i) == IF i >= TAILLE_BUF - 1 THEN 0 ELSE i + 1

\* There is room when the next slot to write is not the last slot read.
Place(a) == Apres(a.e) # a.l

Stocker(a, m) ==
  [e |-> Apres(a.e), l |-> a.l, buf |-> [a.buf EXCEPT ![Apres(a.e)] = m],
   perdu |-> a.perdu \/ a.buf[Apres(a.e)] # Vide]

\* Mutant of Ajouter: a full ring is not recognised.
AjouterToujours(a, m) == Stocker(a, m)

\* DataIn and i2c_PowerCam_Send: the message is stored, or refused and the
\* ring left as it was.
Ajouter(a, m) ==
  IF Place(a) THEN Stocker(a, m) ELSE a

\* Mutant of Prendre: the index does not come back to 0.
PrendreSansFin(a) == [a EXCEPT !.l = @ + 1, !.buf[a.l + 1] = Vide]

\* The oldest message is taken.
Prendre(a) ==
  [e |-> a.e, l |-> Apres(a.l), buf |-> [a.buf EXCEPT ![Apres(a.l)] = Vide],
   perdu |-> a.perdu]

Occupes(a) == {i \in Slots : a.buf[i] # Vide}

\* The slots from the one after the last read to the last written.
Entre(a) ==
  IF a.e = a.l THEN {}
  ELSE IF a.l < a.e THEN (a.l + 1)..a.e
  ELSE ((a.l + 1)..(TAILLE_BUF - 1)) \cup (0..a.e)

-----------------------------------------------------------------------------
(***************************************************************************)
(* The board.                                                              *)
(***************************************************************************)

\* The line is low as long as there are events.
Ligne == pic # {}

\* An event: the line goes down if it was up.
Evenement(b) ==
  /\ b \notin pic
  /\ pic' = pic \cup {b} /\ irq' = (irq \/ ~Ligne)
  /\ UNCHANGED <<mode, Monlock, tache, trame, lire, bufw>>

\* ClearIntPowerCam: CLEAR_INT drops the events named and releases the line,
\* which goes down again when events are left.  A transfer that fails goes
\* unnoticed, as PowerCam_write_i2c keeps the result in an unsigned char and
\* compares it with 0.
ClearIntPowerCam(bits, transmis) ==
  /\ pic' = IF transmis THEN pic \ bits ELSE pic
  /\ irq' = (irq \/ (transmis /\ pic' # {}))

\* I2c_irq.
I2c_irq ==
  /\ irq /\ irq' = FALSE
  /\ mode' = "I2C_READ" /\ tache' = [tache EXCEPT !.file = TRUE]
  /\ UNCHANGED <<pic, Monlock, trame, lire, bufw>>

-----------------------------------------------------------------------------
(***************************************************************************)
(* I2c_interrupt_task.                                                     *)
(***************************************************************************)

\* The work leaves the queue; it can be queued again from here on.
TacheDebut ==
  /\ tache.file /\ tache.pc = "repos"
  /\ tache' = [tache EXCEPT !.file = FALSE, !.pc = "down"]
  /\ UNCHANGED <<carte, mode, Monlock, trame, lire, bufw>>

\* down (&Monlock), to read
TacheLit ==
  /\ tache.pc = "down" /\ Monlock = "libre" /\ mode = "I2C_READ"
  /\ Monlock' = "tache" /\ tache' = [tache EXCEPT !.pc = "statut"]
  /\ UNCHANGED <<carte, mode, trame, lire, bufw>>

\* Mutant of TacheEcrit: the index moves on when there is nothing to send.
TacheEcritToujours ==
  /\ tache.pc = "down" /\ Monlock = "libre" /\ mode # "I2C_READ"
  /\ bufw' = Prendre(bufw)
  /\ tache' = [tache EXCEPT !.pc = "repos"]
  /\ UNCHANGED <<carte, mode, Monlock, trame, lire>>

\* down (&Monlock), to write: one command is sent, and is taken out of the
\* ring whether the transfer succeeds or not; nothing when there is none.
TacheEcrit ==
  /\ tache.pc = "down" /\ Monlock = "libre" /\ mode # "I2C_READ"
  /\ bufw' = IF bufw.e # bufw.l THEN Prendre(bufw) ELSE bufw
  /\ tache' = [tache EXCEPT !.pc = "repos"]
  /\ UNCHANGED <<carte, mode, Monlock, trame, lire>>

\* One event is stored; one that is refused is not to be cleared.
NoterUn(n, b) ==
  IF Place(n.a) THEN [n EXCEPT !.a = Ajouter(n.a, SetInt(b))]
  ELSE [n EXCEPT !.statut = @ \ {b}]

\* Mutant of Noter: an event that is refused is cleared all the same.
NoterEtEffacer(a, statut) ==
  [a |-> FoldLeft(Ajouter, a, SetToSeq({SetInt(b) : b \in statut})), statut |-> statut]

\* The events of statut, from the highest bit to the lowest: apres[b] is what
\* the loop has come to once it has looked at the bits b to 6.
Noter(a, statut) ==
  LET apres[b \in 0..7] ==
        IF b = 7 THEN [a |-> a, statut |-> statut]
        ELSE IF b \in statut THEN NoterUn(apres[b + 1], b)
        ELSE apres[b + 1]
  IN  apres[0]

\* The status is read and its events are stored.  When three reads in a row
\* have failed, the -1 is not recognised in an unsigned char and ucStatusInt
\* is used though nothing was written to it.
LireStatut(lu) ==
  /\ tache.pc = "statut"
  /\ \E statut \in IF lu THEN {pic} ELSE SUBSET Bits :
       LET n == Noter(bufr, statut) IN
       /\ bufr' = n.a /\ data_on' = (data_on \/ n.statut # {})
       /\ tache' = [tache EXCEPT !.pc = "clear", !.statut = n.statut]
  /\ UNCHANGED <<carte, mode, Monlock, trame, bufw>>

\* The events that were stored are cleared, up (&Monlock).  The wake up finds
\* no reader, as a reader that sleeps holds Monlock.
Effacer(transmis) ==
  /\ tache.pc = "clear" /\ ClearIntPowerCam(tache.statut, transmis)
  /\ Monlock' = "libre" /\ tache' = [tache EXCEPT !.pc = "repos", !.statut = {}]
  /\ zero' = [zero EXCEPT !.egal = FALSE]
  /\ UNCHANGED <<mode, vie, activations, ub, lire, bufw>>

-----------------------------------------------------------------------------
(***************************************************************************)
(* I2c_TrameVie_task.                                                      *)
(***************************************************************************)

\* Mutant of fctTimerTrameVie: the timer is periodic.
fctTimerTrameViePeriodique ==
  /\ vie.timer /\ vie' = [vie EXCEPT !.file = TRUE]
  /\ UNCHANGED <<carte, mode, Monlock, tache, zero, activations, ub, lire, bufw>>

\* The kernel timer runs out.
fctTimerTrameVie ==
  /\ vie.timer /\ vie' = [vie EXCEPT !.timer = FALSE, !.file = TRUE]
  /\ UNCHANGED <<carte, mode, Monlock, tache, zero, activations, ub, lire, bufw>>

VieDebut ==
  /\ vie.file /\ vie.pc = "repos"
  /\ vie' = [vie EXCEPT !.file = FALSE, !.pc = "down"]
  /\ UNCHANGED <<carte, mode, Monlock, tache, zero, activations, ub, lire, bufw>>

\* down (&Monlock)
VieVerrou ==
  /\ vie.pc = "down" /\ Monlock = "libre" /\ Monlock' = "vie"
  /\ vie' = [vie EXCEPT !.pc = "essai", !.ucCpt = 3]
  /\ UNCHANGED <<carte, mode, tache, zero, activations, ub, lire, bufw>>

\* The end of an exchange.  While err is set there are three, as it is never
\* put back to 0.  Then the application is told of a failure, if a char can be
\* negative, and the timer is added again, which it must not be while pending.
FinEssai(rate) ==
  LET err == vie.err \/ rate IN
  IF err /\ vie.ucCpt > 1
  THEN /\ vie' = [vie EXCEPT !.ucCpt = @ - 1, !.err = TRUE]
       /\ UNCHANGED <<Monlock, lire, ub>>
  ELSE /\ vie' = [vie EXCEPT !.pc = "repos", !.timer = TRUE, !.ucCpt = 0, !.err = FALSE]
       /\ Monlock' = "libre"
       /\ IF err /\ CharSigne
          THEN bufr' = Ajouter(bufr, PbTrameVie) /\ data_on' = (data_on \/ Place(bufr))
          ELSE UNCHANGED lire
       /\ ub' = IF vie.timer THEN "timer" ELSE ub

\* The frame is refused or lost, or its answer is.
TrameRatee ==
  /\ vie.pc = "essai" /\ FinEssai(TRUE)
  /\ UNCHANGED <<carte, mode, tache, zero, activations, bufw>>

\* Mutant of TrameRecue: the line found low is not counted.
TrameRecueSansCompte(transmis) ==
  /\ transmis /\ vie.pc = "essai" /\ FinEssai(FALSE)
  /\ UNCHANGED <<carte, mode, tache, zero, activations, bufw>>

\* The answer is right, and says whether the line is low: found low SeuilZero
\* times in a row without a clear in between, it is cleared.
TrameRecue(transmis) ==
  LET bloquee == Ligne /\ zero.nb # 0 /\ zero.egal /\ zero.nb + 1 >= SeuilZero IN
  /\ vie.pc = "essai" /\ FinEssai(FALSE)
  /\ IF bloquee THEN ClearIntPowerCam({}, transmis) ELSE transmis /\ UNCHANGED carte
  /\ zero' = IF bloquee \/ ~Ligne \/ (zero.nb # 0 /\ ~zero.egal)
             THEN [nb |-> 0, egal |-> FALSE] ELSE [nb |-> zero.nb + 1, egal |-> TRUE]
  /\ UNCHANGED <<mode, tache, activations, bufw>>

-----------------------------------------------------------------------------
(***************************************************************************)
(* The application: read, write and ioctl.                                 *)
(***************************************************************************)

\* Mutant of Prise: data_on is put back to 0 after every message.
PriseUnique(copie) ==
  /\ bufr' = IF copie /\ bufr.e # bufr.l THEN Prendre(bufr) ELSE bufr
  /\ data_on' = FALSE

\* With data: the oldest message is taken, and the last one puts data_on back
\* to 0; it stays when copy_to_user fails (-EIO), nothing is taken from an
\* empty ring (-ENOSPC).
Prise(copie) ==
  /\ bufr' = IF copie /\ bufr.e # bufr.l THEN Prendre(bufr) ELSE bufr
  /\ data_on' = ~(copie /\ bufr.e # bufr.l /\ bufr'.e = bufr'.l)

\* i2c_PowerCam_read has taken Monlock and there are data.
Lire(copie) ==
  /\ Monlock = "libre" /\ data_on /\ Prise(copie)
  /\ UNCHANGED <<carte, mode, Monlock, tache, trame, bufw>>

\* Without data the reader sleeps and keeps the semaphore.
LireDort ==
  /\ Monlock = "libre" /\ ~data_on /\ Monlock' = "lecteur"
  /\ UNCHANGED <<carte, mode, tache, trame, lire, bufw>>

\* Three sleeps of 20 s without data end the read, which returns as if it had
\* read.
LireReveil ==
  /\ Monlock = "lecteur" /\ Monlock' = "libre"
  /\ UNCHANGED <<carte, mode, tache, trame, lire, bufw>>

\* i2c_PowerCam_Send, by write, which does not take Monlock, or by ioctl.
Ecrire ==
  /\ bufw' = Ajouter(bufw, Commande)
  /\ IF Place(bufw) THEN mode' = "I2C_WRITE" /\ tache' = [tache EXCEPT !.file = TRUE]
     ELSE UNCHANGED <<mode, tache>>
  /\ UNCHANGED <<carte, Monlock, trame, lire>>

\* I2C_SET_EN_TRAME_VIE: add_timer must not find the timer pending.
EnTrameVie(en) ==
  /\ Monlock = "libre" /\ (en => activations < MaxActivations)
  /\ vie' = [vie EXCEPT !.timer = en]
  /\ activations' = IF en THEN activations + 1 ELSE activations
  /\ ub' = IF en /\ vie.timer THEN "timer" ELSE ub
  /\ UNCHANGED <<carte, mode, Monlock, tache, zero, lire, bufw>>

-----------------------------------------------------------------------------
\* i2cPowerCam_attach is over.
Init ==
  /\ pic = {} /\ irq = FALSE
  /\ mode = "zero" /\ Monlock = "libre"
  /\ tache = [file |-> FALSE, pc |-> "repos", statut |-> {}]
  /\ vie = [timer |-> FALSE, file |-> FALSE, pc |-> "repos", ucCpt |-> 0, err |-> FALSE]
  /\ zero = [nb |-> 0, egal |-> FALSE]
  /\ bufr = AnneauVide /\ data_on = FALSE /\ bufw = AnneauVide
  /\ activations = 0 /\ ub = "aucun"

\* After a message has been written over only the reads and the work under way
\* go on; nothing is modelled after undefined behaviour.
Vivant == ub = "aucun" /\ ~bufr.perdu /\ ~bufw.perdu

Tache == TacheDebut \/ TacheLit \/ TacheEcrit \/ LireStatut(TRUE) \/ Effacer(TRUE)
Vie   == fctTimerTrameVie \/ VieDebut \/ VieVerrou \/ TrameRecue(TRUE)
Lecture == Lire(TRUE) \/ LireReveil

\* Transfers and copies that fail.
Pannes ==
  LireStatut(FALSE) \/ Effacer(FALSE) \/ TrameRatee \/ TrameRecue(FALSE) \/ Lire(FALSE)

Next ==
  \/ Vivant /\ (I2c_irq \/ Tache \/ Vie \/ Lecture)
  \/ Vivant /\ (LireDort \/ Ecrire \/ Pannes \/ \E en \in BOOLEAN : EnTrameVie(en))
  \/ Vivant /\ \E b \in Bits : Evenement(b)
  \/ ~Vivant /\ ub = "aucun" /\ (Lire(TRUE) \/ Effacer(TRUE))
  \/ ~Vivant /\ UNCHANGED vars

Spec == Init /\ [][Next]_vars

\* Works, timers and interrupts run, and the application reads what poll
\* announces.  down serves the tasks in the order of their calls, so that no
\* one waits for Monlock for ever.
FairSpec ==
  Spec /\ WF_vars(Vivant /\ I2c_irq) /\ SF_vars(Vivant /\ Tache) /\ SF_vars(Vivant /\ Vie)
       /\ SF_vars(Vivant /\ Lecture)

-----------------------------------------------------------------------------
(***************************************************************************)
(* Properties.                                                             *)
(***************************************************************************)

\* An event leaves the board only when its message is in the ring, not read
\* yet: nothing that Monlock does not order comes between storing it and
\* clearing it, whatever the status read and the room left (dlgi2c.c:305-341).
EffaceApresStockage ==
  [][\A b \in pic \ pic' : \E i \in Slots : bufr.buf[i] = SetInt(b)]_vars

\* The messages between the two indices are the messages not read, in both
\* rings, until one is written over; and that happens only while nothing was
\* ever read and index [1] is still -1 (dlgi2c.c:208-222, 656-671, 710-740).
AnneauxExacts ==
  \A a \in {bufr, bufw} : a.perdu \/ Occupes(a) = Entre(a)

PerteAvantLecture ==
  [][/\ bufr'.perdu /\ ~bufr.perdu => bufr.l = -1
     /\ bufw'.perdu /\ ~bufw.perdu => bufw.l = -1]_vars

\* poll announces data exactly when read finds some (dlgi2c.c:656-674, 1064).
DonneePresente == data_on <=> bufr.e # bufr.l

\* What carries the frame of life on: its timer, its work in the queue, its
\* work under way.
Maillons ==
  {m \in {"timer", "file", "pc"} :
     \/ m = "timer" /\ vie.timer
     \/ m = "file" /\ vie.file
     \/ m = "pc" /\ vie.pc # "repos"}

\* An application that enables the frame of life once may disable it at any
\* moment: one timer or one work carries it on, and the timer is never added
\* while it is pending (dlgi2c.c:296-297, 957-962).
ChaineUnique ==
  activations <= 1 => (\A m1, m2 \in Maillons : m1 = m2) /\ ub = "aucun"

\* What fails, when the same step is not also one that succeeds: a read that
\* fails may leave any status, the right one among others.
Echec == Pannes /\ ~(Tache \/ Vie \/ Lecture)

\* An event whose interrupt was lost, because a command changed mode before
\* the work ran or a transfer failed, is cleared in the end by way of the
\* frame of life, if it stays enabled, if commands and failures stop, and if no
\* higher event comes back for ever: that one is stored first and may fill the
\* ring each time the application has made room, so that the lower one is
\* refused for ever.  The highest event needs no such condition
\* (dlgi2c.c:252-268, 306, 316-336, 404, 726).
Servi ==
  \A b \in Bits :
    \/ []<><<Ecrire \/ Echec \/ \E c \in Bits : c > b /\ Evenement(c)>>_vars
    \/ []<>(Maillons = {} \/ ~Vivant)
    \/ b \in pic ~> b \notin pic

\* "tout a ete lu" (dlgi2c.c:671): data_on is 0 only when every message that
\* was accepted has been read.
ToutLu == data_on \/ Occupes(bufr) = {}
=============================================================================
