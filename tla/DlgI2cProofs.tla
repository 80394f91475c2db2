---------------------------- MODULE DlgI2cProofs ----------------------------
(***************************************************************************)
(* What the driver guarantees whatever the events, the size of the rings   *)
(* and the transfers that fail.  An application that enables the frame of  *)
(* life at most once never makes the driver add a timer that is pending,   *)
(* however often the frame is disabled.  The two rings keep their messages *)
(* between their indices, poll announces what read finds, and an event is  *)
(* cleared on the board only while its message waits in the ring.          *)
(***************************************************************************)
EXTENDS DlgI2c, TLAPS

\* The inductive invariant of the frame of life: nothing carries the frame of life on before it is
\* enabled, and one thing at most afterwards.
ChaineInv ==
  /\ vie \in [timer : BOOLEAN, file : BOOLEAN, pc : {"repos", "down", "essai"},
              ucCpt : 0..3, err : BOOLEAN]
  /\ activations \in Nat
  /\ activations = 0 => ~vie.timer /\ ~vie.file /\ vie.pc = "repos"
  /\ activations = 1 =>
       /\ ~(vie.timer /\ vie.file)
       /\ vie.timer \/ vie.file => vie.pc = "repos"
  /\ activations <= 1 => ub = "aucun"

\* ChaineInv is about the frame of life only.
Inchange == UNCHANGED <<vie, activations, ub>>

LEMMA InitChaineInv == Init => ChaineInv
  BY SMT DEF Init, ChaineInv

LEMMA InchangeChaineInv == ChaineInv /\ Inchange => ChaineInv'
  BY DEF ChaineInv, Inchange

\* The end of an exchange hands the frame of life back to its timer, which
\* only a second activation can have added.
LEMMA FinEssaiChaineInv ==
  ASSUME NEW rate \in BOOLEAN, ChaineInv, vie.pc = "essai", FinEssai(rate),
         UNCHANGED activations
  PROVE  ChaineInv'
<1> DEFINE err == vie.err \/ rate
<1> USE DEF ChaineInv
<1>0. vie.ucCpt \in 0..3 /\ vie.err \in BOOLEAN /\ activations # 0
  OBVIOUS
<1>1. CASE err /\ vie.ucCpt > 1
  <2>1. vie' = [vie EXCEPT !.ucCpt = vie.ucCpt - 1, !.err = TRUE] /\ ub' = ub
    BY <1>1 DEF FinEssai, err
  <2>2. vie.ucCpt - 1 \in 0..3
    BY <1>0, <1>1, SMT
  <2>3. vie' = [timer |-> vie.timer, file |-> vie.file, pc |-> vie.pc,
                ucCpt |-> vie.ucCpt - 1, err |-> TRUE]
    BY <2>1
  <2> QED
    BY <2>1, <2>2, <2>3
<1>2. CASE ~(err /\ vie.ucCpt > 1)
  <2>1. /\ vie' = [vie EXCEPT !.pc = "repos", !.timer = TRUE, !.ucCpt = 0, !.err = FALSE]
        /\ ub' = IF vie.timer THEN "timer" ELSE ub
    BY <1>2 DEF FinEssai, err
  <2>2. activations = 1 => ~vie.timer /\ ~vie.file
    OBVIOUS
  <2>3. activations <= 1 => activations = 1
    BY <1>0, SMT
  <2>4. vie' \in [timer : BOOLEAN, file : BOOLEAN, pc : {"repos", "down", "essai"},
                  ucCpt : 0..3, err : BOOLEAN]
    <3>1. vie' = [timer |-> TRUE, file |-> vie.file, pc |-> "repos",
                  ucCpt |-> 0, err |-> FALSE]
      BY <2>1
    <3>2. 0 \in 0..3
      BY SMT
    <3> QED
      BY <3>1, <3>2
  <2>5. vie'.timer /\ vie'.file = vie.file /\ vie'.pc = "repos"
    BY <2>1
  <2> QED
    BY <1>0, <2>1, <2>2, <2>3, <2>4, <2>5
<1> QED
  BY <1>1, <1>2

\* The frame of life itself: its timer, its work, its exchanges.
LEMMA TrameChaineInv ==
  ASSUME ChaineInv,
         \/ fctTimerTrameVie \/ VieDebut \/ VieVerrou
         \/ TrameRatee \/ \E t \in BOOLEAN : TrameRecue(t)
  PROVE  ChaineInv'
<1>1. CASE fctTimerTrameVie
  BY <1>1 DEF fctTimerTrameVie, ChaineInv
<1>2. CASE VieDebut
  BY <1>2 DEF VieDebut, ChaineInv
<1>3. CASE VieVerrou
  <2> USE DEF ChaineInv
  <2>1. /\ vie' = [timer |-> vie.timer, file |-> vie.file, pc |-> "essai",
                   ucCpt |-> 3, err |-> vie.err]
        /\ vie.pc = "down" /\ UNCHANGED <<activations, ub>>
    BY <1>3 DEF VieVerrou
  <2>2. 3 \in 0..3
    BY SMT
  <2> QED
    BY <2>1, <2>2
<1>4. CASE TrameRatee
  BY <1>4, FinEssaiChaineInv DEF TrameRatee
<1>5. CASE \E t \in BOOLEAN : TrameRecue(t)
  BY <1>5, FinEssaiChaineInv DEF TrameRecue
<1> QED
  BY <1>1, <1>2, <1>3, <1>4, <1>5

\* The application enables or disables the frame of life.
LEMMA EnTrameVieChaineInv ==
  ASSUME ChaineInv, NEW en \in BOOLEAN, EnTrameVie(en)
  PROVE  ChaineInv'
<1> USE DEF ChaineInv
<1>0. /\ vie' = [vie EXCEPT !.timer = en]
      /\ activations' = IF en THEN activations + 1 ELSE activations
      /\ ub' = IF en /\ vie.timer THEN "timer" ELSE ub
  BY DEF EnTrameVie
<1>1. CASE en
  <2>1. activations' \in Nat /\ activations' # 0
    BY <1>0, <1>1, SMT
  <2>2. activations' <= 1 => activations = 0
    BY <1>0, <1>1, SMT
  <2>3. activations' = 1 => activations' <= 1
    BY SMT
  <2>4. activations = 0 => activations <= 1
    BY SMT
  <2> QED
    BY <1>0, <1>1, <2>1, <2>2, <2>3, <2>4
<1>2. CASE ~en
  BY <1>0, <1>2
<1> QED
  BY <1>1, <1>2

LEMMA NextChaineInv == ChaineInv /\ [Next]_vars => ChaineInv'
<1> SUFFICES ASSUME ChaineInv, [Next]_vars PROVE ChaineInv'
  OBVIOUS
<1>1. CASE I2c_irq \/ Tache \/ LireStatut(FALSE) \/ Effacer(FALSE)
  BY <1>1, InchangeChaineInv
  DEF I2c_irq, Tache, TacheDebut, TacheLit, TacheEcrit, LireStatut, Effacer, trame, Inchange
<1>2. CASE Vie \/ TrameRatee \/ TrameRecue(FALSE)
  BY <1>2, TrameChaineInv DEF Vie
<1>3. CASE Lecture \/ Lire(FALSE) \/ LireDort \/ Ecrire
  BY <1>3, InchangeChaineInv DEF Lecture, Lire, LireReveil, LireDort, Ecrire, trame, Inchange
<1>4. CASE \E en \in BOOLEAN : EnTrameVie(en)
  BY <1>4, EnTrameVieChaineInv
<1>5. CASE \E b \in Bits : Evenement(b)
  BY <1>5, InchangeChaineInv DEF Evenement, trame, Inchange
<1>6. CASE Lire(TRUE) \/ Effacer(TRUE)
  BY <1>6, InchangeChaineInv DEF Lire, Effacer, trame, Inchange
<1>7. CASE UNCHANGED vars
  BY <1>7, InchangeChaineInv DEF vars, trame, Inchange
<1> QED
  BY <1>1, <1>2, <1>3, <1>4, <1>5, <1>6, <1>7 DEF Next, Pannes

\* At most one timer or work carries the frame of life on, and add_timer finds
\* its timer free (dlgi2c.c:296-297, 957-962).
THEOREM DlgI2cChaineUnique == Spec => []ChaineUnique
<1>1. ChaineInv => ChaineUnique
  <2> SUFFICES ASSUME ChaineInv, activations <= 1
               PROVE  (\A m1, m2 \in Maillons : m1 = m2) /\ ub = "aucun"
    BY DEF ChaineUnique
  <2>1. activations = 0 \/ activations = 1
    BY SMT DEF ChaineInv
  <2> QED
    BY <2>1 DEF ChaineInv, Maillons
<1> QED
  BY <1>1, InitChaineInv, NextChaineInv, PTL DEF Spec

-----------------------------------------------------------------------------
(***************************************************************************)
(* The rings: lemmas about the operators that store and take a message.    *)
(***************************************************************************)

\* The indices are integers below the size of the ring.
LEMMA IndiceFait ==
  ASSUME NEW i \in Slots \cup {-1}
  PROVE  i \in Int /\ -1 <= i /\ i < TAILLE_BUF /\ Apres(i) \in Slots
  BY DlgI2cAssumption, SMT DEF Slots, Apres

\* A message is not an empty slot.
LEMMA MessageFait == Vide \notin Message
  BY DEF Vide, Message, SetInt, PbTrameVie, Commande

LEMMA AnneauFait ==
  ASSUME NEW a \in Anneau
  PROVE  /\ a.e \in Slots \cup {-1} /\ a.l \in Slots \cup {-1}
         /\ a.perdu \in BOOLEAN /\ a.buf \in [Slots -> Message \cup {Vide}]
         /\ a = [e |-> a.e, l |-> a.l, perdu |-> a.perdu, buf |-> a.buf]
  BY DEF Anneau

LEMMA StockerFait ==
  ASSUME NEW a \in Anneau, NEW m \in Message
  PROVE  /\ Stocker(a, m) \in Anneau
         /\ Stocker(a, m).e = Apres(a.e) /\ Stocker(a, m).l = a.l
         /\ Stocker(a, m).buf = [a.buf EXCEPT ![Apres(a.e)] = m]
         /\ Stocker(a, m).perdu = (a.perdu \/ a.buf[Apres(a.e)] # Vide)
<1>1. /\ a.e \in Slots \cup {-1} /\ a.l \in Slots \cup {-1}
      /\ a.perdu \in BOOLEAN /\ a.buf \in [Slots -> Message \cup {Vide}]
      /\ a = [e |-> a.e, l |-> a.l, perdu |-> a.perdu, buf |-> a.buf]
  BY AnneauFait
<1>2. Apres(a.e) \in Slots
  BY <1>1, IndiceFait
<1>3. Stocker(a, m) = [e |-> Apres(a.e), l |-> a.l,
                       perdu |-> (a.perdu \/ a.buf[Apres(a.e)] # Vide),
                       buf |-> [a.buf EXCEPT ![Apres(a.e)] = m]]
  BY DEF Stocker
<1>4. [a.buf EXCEPT ![Apres(a.e)] = m] \in [Slots -> Message \cup {Vide}]
  BY <1>1, <1>2
<1>5. (a.perdu \/ a.buf[Apres(a.e)] # Vide) \in BOOLEAN
  OBVIOUS
<1>6. Stocker(a, m) \in Anneau
  BY <1>1, <1>2, <1>3, <1>4, <1>5 DEF Anneau
<1> QED
  BY <1>3, <1>6

LEMMA PrendreFait ==
  ASSUME NEW a \in Anneau
  PROVE  /\ Prendre(a) \in Anneau
         /\ Prendre(a).e = a.e /\ Prendre(a).l = Apres(a.l)
         /\ Prendre(a).buf = [a.buf EXCEPT ![Apres(a.l)] = Vide]
         /\ Prendre(a).perdu = a.perdu
<1>1. /\ a.e \in Slots \cup {-1} /\ a.l \in Slots \cup {-1}
      /\ a.perdu \in BOOLEAN /\ a.buf \in [Slots -> Message \cup {Vide}]
      /\ a = [e |-> a.e, l |-> a.l, perdu |-> a.perdu, buf |-> a.buf]
  BY AnneauFait
<1>2. Apres(a.l) \in Slots
  BY <1>1, IndiceFait
<1>3. Prendre(a) = [e |-> a.e, l |-> Apres(a.l), perdu |-> a.perdu,
                    buf |-> [a.buf EXCEPT ![Apres(a.l)] = Vide]]
  BY DEF Prendre
<1>4. [a.buf EXCEPT ![Apres(a.l)] = Vide] \in [Slots -> Message \cup {Vide}]
  BY <1>1, <1>2
<1>5. Prendre(a) \in Anneau
  BY <1>1, <1>2, <1>3, <1>4 DEF Anneau
<1> QED
  BY <1>3, <1>5

\* What holds of a ring at any time: index [1] follows index [0], and until
\* a message is written over the messages lie between the two.
AnneauInv(a) ==
  /\ a \in Anneau
  /\ a.e = -1 => a.l = -1
  /\ a.perdu \/ Occupes(a) = Entre(a)

\* The two kinds of step of the indices, for the slots between them.
LEMMA EntreStocker ==
  ASSUME NEW a \in Anneau, a.e = -1 => a.l = -1, Place(a),
         Apres(a.e) \notin Entre(a),
         NEW b \in Anneau, b.e = Apres(a.e), b.l = a.l
  PROVE  Entre(b) = Entre(a) \cup {Apres(a.e)}
<1> DEFINE e == a.e
           l == a.l
<1>1. e \in Slots \cup {-1} /\ l \in Slots \cup {-1} /\ (e = -1 => l = -1)
  BY AnneauFait
<1>2. Apres(e) # l /\ b.e = Apres(e) /\ b.l = l
  BY DEF Place
<1>3. Entre(a) = IF e = l THEN {}
                 ELSE IF l < e THEN (l + 1)..e
                 ELSE ((l + 1)..(TAILLE_BUF - 1)) \cup (0..e)
  BY DEF Entre
<1>4. Entre(b) = IF Apres(e) = l THEN {}
                 ELSE IF l < Apres(e) THEN (l + 1)..Apres(e)
                 ELSE ((l + 1)..(TAILLE_BUF - 1)) \cup (0..Apres(e))
  BY <1>2 DEF Entre
<1>5. Apres(e) \notin Entre(a)
  OBVIOUS
<1> HIDE DEF e, l
<1>6. /\ e \in Int /\ -1 <= e /\ e < TAILLE_BUF /\ l \in Int /\ -1 <= l /\ l < TAILLE_BUF
      /\ TAILLE_BUF \in Int /\ TAILLE_BUF >= 2
  BY <1>1, IndiceFait, DlgI2cAssumption, SMT
<1>7. CASE e < TAILLE_BUF - 1
  <2>1. Apres(e) = e + 1
    BY <1>6, <1>7, SMT DEF Apres
  <2> QED
    BY <1>1, <1>2, <1>3, <1>4, <1>5, <1>6, <1>7, <2>1, SMT
<1>8. CASE e >= TAILLE_BUF - 1
  <2>1. Apres(e) = 0 /\ e = TAILLE_BUF - 1
    BY <1>6, <1>8, SMT DEF Apres
  <2> QED
    BY <1>1, <1>2, <1>3, <1>4, <1>5, <1>6, <2>1, SMT
<1> QED
  BY <1>6, <1>7, <1>8, SMT

LEMMA EntrePrendre ==
  ASSUME NEW a \in Anneau, a.e = -1 => a.l = -1, a.e # a.l,
         NEW b \in Anneau, b.e = a.e, b.l = Apres(a.l)
  PROVE  Entre(b) = Entre(a) \ {Apres(a.l)}
<1> DEFINE e == a.e
           l == a.l
<1>1. e \in Slots \cup {-1} /\ l \in Slots \cup {-1} /\ e # l /\ (e = -1 => l = -1)
  BY AnneauFait
<1>3. Entre(a) = IF e = l THEN {}
                 ELSE IF l < e THEN (l + 1)..e
                 ELSE ((l + 1)..(TAILLE_BUF - 1)) \cup (0..e)
  BY DEF Entre
<1>4. Entre(b) = IF e = Apres(l) THEN {}
                 ELSE IF Apres(l) < e THEN (Apres(l) + 1)..e
                 ELSE ((Apres(l) + 1)..(TAILLE_BUF - 1)) \cup (0..e)
  BY DEF Entre
<1> HIDE DEF e, l
<1>6. /\ e \in Int /\ 0 <= e /\ e < TAILLE_BUF /\ l \in Int /\ -1 <= l /\ l < TAILLE_BUF
      /\ TAILLE_BUF \in Int /\ TAILLE_BUF >= 2
  BY <1>1, IndiceFait, DlgI2cAssumption, SMT
<1>7. CASE l < TAILLE_BUF - 1
  <2>1. Apres(l) = l + 1
    BY <1>6, <1>7, SMT DEF Apres
  <2> QED
    BY <1>1, <1>3, <1>4, <1>6, <1>7, <2>1, SMT DEF e, l
<1>8. CASE l >= TAILLE_BUF - 1
  <2>1. Apres(l) = 0 /\ l = TAILLE_BUF - 1
    BY <1>6, <1>8, SMT DEF Apres
  <2> QED
    BY <1>1, <1>3, <1>4, <1>6, <2>1, SMT DEF e, l
<1> QED
  BY <1>6, <1>7, <1>8, SMT

\* While nothing was read the ring is never full; afterwards the slot that is
\* written next is free.
LEMMA ApresLibre ==
  ASSUME NEW a \in Anneau, a.e = -1 => a.l = -1, Place(a), a.l # -1
  PROVE  Apres(a.e) \notin Entre(a)
<1> DEFINE e == a.e
           l == a.l
<1>1. /\ e \in Slots \cup {-1} /\ l \in Slots \cup {-1} /\ e # -1 /\ l # -1
      /\ Apres(e) # l
  BY AnneauFait DEF Place
<1>2. Entre(a) = IF e = l THEN {}
                 ELSE IF l < e THEN (l + 1)..e
                 ELSE ((l + 1)..(TAILLE_BUF - 1)) \cup (0..e)
  BY DEF Entre
<1> HIDE DEF e, l
<1>3. /\ e \in Int /\ 0 <= e /\ e < TAILLE_BUF /\ l \in Int /\ 0 <= l /\ l < TAILLE_BUF
      /\ TAILLE_BUF \in Int /\ TAILLE_BUF >= 2
  BY <1>1, IndiceFait, DlgI2cAssumption, SMT
<1>4. Apres(e) \notin Entre(a)
  BY <1>1, <1>2, <1>3, SMT DEF Apres
<1> QED
  BY <1>4 DEF e

LEMMA OccupesStocker ==
  ASSUME NEW a \in Anneau, NEW m \in Message
  PROVE  Occupes(Stocker(a, m)) = Occupes(a) \cup {Apres(a.e)}
<1>1. a.buf \in [Slots -> Message \cup {Vide}] /\ Apres(a.e) \in Slots
  BY AnneauFait, IndiceFait
<1>2. m # Vide
  BY MessageFait
<1>3. Stocker(a, m).buf = [a.buf EXCEPT ![Apres(a.e)] = m]
  BY StockerFait
<1> QED
  BY <1>1, <1>2, <1>3 DEF Occupes

LEMMA OccupesPrendre ==
  ASSUME NEW a \in Anneau
  PROVE  Occupes(Prendre(a)) = Occupes(a) \ {Apres(a.l)}
<1>1. a.buf \in [Slots -> Message \cup {Vide}] /\ Apres(a.l) \in Slots
  BY AnneauFait, IndiceFait
<1>2. Prendre(a).buf = [a.buf EXCEPT ![Apres(a.l)] = Vide]
  BY PrendreFait
<1> QED
  BY <1>1, <1>2 DEF Occupes

\* What storing a message does to a ring.
LEMMA AjouterFait ==
  ASSUME NEW a, AnneauInv(a), NEW m \in Message
  PROVE  /\ AnneauInv(Ajouter(a, m)) /\ Ajouter(a, m).l = a.l
         /\ Place(a) => Ajouter(a, m).e # a.l
         /\ ~Place(a) => Ajouter(a, m) = a
         /\ Ajouter(a, m).perdu /\ ~a.perdu => a.l = -1
<1>1. a \in Anneau /\ (a.e = -1 => a.l = -1) /\ (a.perdu \/ Occupes(a) = Entre(a))
  BY DEF AnneauInv
<1>2. CASE ~Place(a)
  <2>1. Ajouter(a, m) = a
    BY <1>2 DEF Ajouter
  <2> QED
    BY <1>2, <2>1
<1>3. CASE Place(a)
  <2> DEFINE b == Stocker(a, m)
  <2>1. Ajouter(a, m) = b
    BY <1>3 DEF Ajouter
  <2>2. /\ b \in Anneau /\ b.e = Apres(a.e) /\ b.l = a.l
        /\ b.perdu = (a.perdu \/ a.buf[Apres(a.e)] # Vide)
        /\ Occupes(b) = Occupes(a) \cup {Apres(a.e)}
    BY <1>1, StockerFait, OccupesStocker
  <2> HIDE DEF b
  <2>3. Apres(a.e) \in Slots /\ Apres(a.e) # a.l
    BY <1>1, <1>3, AnneauFait, IndiceFait DEF Place
  <2>4. Apres(a.e) # -1
    BY <2>3, SMT DEF Slots
  <2>5. b.perdu \/ Occupes(b) = Entre(b)
    <3>1. SUFFICES ASSUME ~b.perdu PROVE Occupes(b) = Entre(b)
      OBVIOUS
    <3>2. ~a.perdu /\ a.buf[Apres(a.e)] = Vide
      BY <2>2, <3>1
    <3>3. Occupes(a) = Entre(a) /\ Apres(a.e) \notin Entre(a)
      BY <1>1, <3>2 DEF Occupes
    <3> QED
      BY <1>1, <1>3, <2>2, <3>3, EntreStocker
  <2>6. b.perdu /\ ~a.perdu => a.l = -1
    <3>1. SUFFICES ASSUME b.perdu, ~a.perdu, a.l # -1 PROVE FALSE
      OBVIOUS
    <3>2. a.buf[Apres(a.e)] # Vide /\ Occupes(a) = Entre(a)
      BY <1>1, <2>2, <3>1
    <3>3. Apres(a.e) \in Entre(a)
      BY <2>3, <3>2 DEF Occupes
    <3> QED
      BY <1>1, <1>3, <3>1, <3>3, ApresLibre
  <2> QED
    BY <1>3, <2>1, <2>2, <2>3, <2>4, <2>5, <2>6 DEF AnneauInv
<1> QED
  BY <1>2, <1>3

\* What taking a message does to a ring that has one.
LEMMA PrendreInv ==
  ASSUME NEW a, AnneauInv(a), a.e # a.l
  PROVE  AnneauInv(Prendre(a)) /\ Prendre(a).perdu = a.perdu
<1> DEFINE b == Prendre(a)
<1>1. a \in Anneau /\ (a.e = -1 => a.l = -1) /\ (a.perdu \/ Occupes(a) = Entre(a))
  BY DEF AnneauInv
<1>2. /\ b \in Anneau /\ b.e = a.e /\ b.l = Apres(a.l) /\ b.perdu = a.perdu
      /\ Occupes(b) = Occupes(a) \ {Apres(a.l)}
  BY <1>1, PrendreFait, OccupesPrendre
<1> HIDE DEF b
<1>3. Entre(b) = Entre(a) \ {Apres(a.l)}
  BY <1>1, <1>2, EntrePrendre
<1>4. AnneauInv(b)
  BY <1>1, <1>2, <1>3 DEF AnneauInv
<1> QED
  BY <1>2, <1>4 DEF b

-----------------------------------------------------------------------------
(***************************************************************************)
(* The loop that stores the events of a status.                            *)
(***************************************************************************)

\* What the loop has come to after each bit is a function that satisfies the
\* equations of its recursive definition: there is one.
LEMMA NoterDefini ==
  ASSUME NEW a, NEW statut
  PROVE  \E f : /\ f[7] = [a |-> a, statut |-> statut]
                /\ \A b \in 0..6 : f[b] = IF b \in statut THEN NoterUn(f[b + 1], b)
                                          ELSE f[b + 1]
                /\ Noter(a, statut) = f[0]
<1> DEFINE Pas(n, b) == IF b \in statut THEN NoterUn(n, b) ELSE n
           F(g) == [b \in 0..7 |->
                      IF b = 7 THEN [a |-> a, statut |-> statut]
                      ELSE IF b \in statut THEN NoterUn(g[b + 1], b)
                      ELSE g[b + 1]]
           e7 == [a |-> a, statut |-> statut]
           e6 == Pas(e7, 6)
           e5 == Pas(e6, 5)
           e4 == Pas(e5, 4)
           e3 == Pas(e4, 3)
           e2 == Pas(e3, 2)
           e1 == Pas(e2, 1)
           e0 == Pas(e1, 0)
<1>0. \A b \in 0..7 : b = 0 \/ b = 1 \/ b = 2 \/ b = 3 \/ b = 4 \/ b = 5 \/ b = 6 \/ b = 7
  BY SMT
<1>1. \E g : g = F(g)
  <2> HIDE DEF e6, e5, e4, e3, e2, e1, e0
  <2> DEFINE g == [b \in 0..7 |->
        CASE b = 0 -> e0 [] b = 1 -> e1 [] b = 2 -> e2 [] b = 3 -> e3
          [] b = 4 -> e4 [] b = 5 -> e5 [] b = 6 -> e6 [] b = 7 -> e7]
  <2>1. /\ g[0] = e0 /\ g[1] = e1 /\ g[2] = e2 /\ g[3] = e3
        /\ g[4] = e4 /\ g[5] = e5 /\ g[6] = e6 /\ g[7] = e7
    BY SMT
  <2>2. /\ g[6] = Pas(g[7], 6) /\ g[5] = Pas(g[6], 5) /\ g[4] = Pas(g[5], 4)
        /\ g[3] = Pas(g[4], 3) /\ g[2] = Pas(g[3], 2) /\ g[1] = Pas(g[2], 1)
        /\ g[0] = Pas(g[1], 0)
    <3> HIDE DEF g, Pas
    <3> QED
      BY <2>1 DEF e6, e5, e4, e3, e2, e1, e0
  <2>3. g = [b \in 0..7 |-> g[b]]
    OBVIOUS
  <2> HIDE DEF g
  <2>4. ASSUME NEW b \in 0..7
        PROVE  g[b] = IF b = 7 THEN [a |-> a, statut |-> statut]
                      ELSE IF b \in statut THEN NoterUn(g[b + 1], b)
                      ELSE g[b + 1]
    BY <1>0, <2>1, <2>2, SMT
  <2>5. F(g) = [b \in 0..7 |-> g[b]]
    BY <2>4, Zenon
  <2>6. g = F(g)
    BY <2>3, <2>5
  <2> QED
    BY <2>6
<1> DEFINE f == CHOOSE g : g = F(g)
<1>2. f = F(f)
  BY <1>1
<1>3. Noter(a, statut) = f[0]
  BY DEF Noter
<1> HIDE DEF f
<1>4. f[7] = [a |-> a, statut |-> statut]
  <2>1. F(f)[7] = [a |-> a, statut |-> statut]
    BY SMT
  <2> QED
    BY <1>2, <2>1
<1>5. ASSUME NEW b \in 0..6
      PROVE  f[b] = IF b \in statut THEN NoterUn(f[b + 1], b) ELSE f[b + 1]
  <2>1. b \in 0..7 /\ b # 7
    BY SMT
  <2>2. F(f)[b] = IF b \in statut THEN NoterUn(f[b + 1], b) ELSE f[b + 1]
    BY <2>1
  <2> QED
    BY <1>2, <2>2
<1> QED
  BY <1>3, <1>4, <1>5

\* The loop goes from bit 6 down to bit 0.
LEMMA Descente ==
  ASSUME NEW S, 7 \in S, \A b \in 0..6 : b + 1 \in S => b \in S
  PROVE  0 \in S
<1>1. \A b \in 0..6 : b + 1 \in S => b \in S
  OBVIOUS
<1>2. /\ 6 \in S /\ 5 \in S /\ 4 \in S /\ 3 \in S /\ 2 \in S /\ 1 \in S /\ 0 \in S
  BY <1>1, SMT
<1> QED
  BY <1>2

\* How many messages were stored after slot s when e is the last one written.
Recul(s, e) == IF s <= e THEN e - s ELSE e - s + TAILLE_BUF

\* Storing a message moves every slot but the one written one step back.
LEMMA ReculFait ==
  ASSUME NEW s \in Slots, NEW e \in Slots \cup {-1}
  PROVE  /\ Recul(s, e) \in Nat
         /\ s = Apres(e) => Recul(s, e) = TAILLE_BUF - 1 /\ Recul(s, Apres(e)) = 0
         /\ s # Apres(e) => Recul(s, Apres(e)) = Recul(s, e) + 1
  BY DlgI2cAssumption, IndiceFait, SMT DEF Recul, Slots, Apres

\* What holds of n when the loop, started with the ring a and the status
\* statut, has looked at the bits b to 6.
BoucleInv(n, b, a, statut) ==
  /\ n \in [a : Anneau, statut : SUBSET statut]
  /\ AnneauInv(n.a) /\ n.a.l = a.l
  /\ n.a.e # a.l <=> a.e # a.l \/ \E x \in n.statut : x >= b
  /\ n.a.perdu /\ ~a.perdu => a.l = -1
  /\ \A x \in statut : x < b => x \in n.statut
  /\ \A x \in n.statut : x >= b =>
       \E s \in Slots : n.a.buf[s] = SetInt(x) /\ Recul(s, n.a.e) <= x - b

LEMMA BoucleDebut ==
  ASSUME NEW a, AnneauInv(a), NEW statut \in SUBSET Bits
  PROVE  BoucleInv([a |-> a, statut |-> statut], 7, a, statut)
<1>1. \A x \in statut : x < 7 /\ ~(x >= 7)
  BY DlgI2cAssumption, SMT
<1>2. a \in Anneau
  BY DEF AnneauInv
<1> DEFINE n == [a |-> a, statut |-> statut]
<1>3. n \in [a : Anneau, statut : SUBSET statut] /\ n.a = a /\ n.statut = statut
  BY <1>2
<1> HIDE DEF n
<1>4. BoucleInv(n, 7, a, statut)
  BY <1>1, <1>3 DEF BoucleInv
<1> QED
  BY <1>4 DEF n

LEMMA BoucleSaute ==
  ASSUME NEW a, NEW statut \in SUBSET Bits, NEW n, NEW b \in 0..6, b \notin statut,
         BoucleInv(n, b + 1, a, statut)
  PROVE  BoucleInv(n, b, a, statut)
<1>1. n.statut \subseteq statut /\ n \in [a : Anneau, statut : SUBSET statut]
  BY DEF BoucleInv
<1>2. \A x \in statut : x \in Int /\ (x >= b <=> x >= b + 1) /\ (x < b => x < b + 1)
                        /\ x - (b + 1) <= x - b
  <2>1. \A x \in statut : x \in Int /\ x # b
    BY DlgI2cAssumption, SMT
  <2> QED
    BY <2>1, SMT
<1>3. ASSUME NEW x \in n.statut, x >= b
      PROVE  \E s \in Slots : n.a.buf[s] = SetInt(x) /\ Recul(s, n.a.e) <= x - b
  <2>1. PICK s \in Slots : n.a.buf[s] = SetInt(x) /\ Recul(s, n.a.e) <= x - (b + 1)
    BY <1>1, <1>2, <1>3 DEF BoucleInv
  <2>2. Recul(s, n.a.e) \in Nat
    BY <1>1, AnneauFait, ReculFait
  <2>3. Recul(s, n.a.e) <= x - b
    BY <1>1, <1>2, <2>1, <2>2, SMT
  <2> QED
    BY <2>1, <2>3
<1> QED
  BY <1>1, <1>2, <1>3 DEF BoucleInv

LEMMA BoucleNote ==
  ASSUME NEW a, NEW statut \in SUBSET Bits, NEW n, NEW b \in 0..6, b \in statut,
         BoucleInv(n, b + 1, a, statut)
  PROVE  BoucleInv(NoterUn(n, b), b, a, statut)
<1> DEFINE r == Ajouter(n.a, SetInt(b))
<1>1. /\ n.statut \subseteq statut /\ n \in [a : Anneau, statut : SUBSET statut]
      /\ n = [a |-> n.a, statut |-> n.statut]
      /\ AnneauInv(n.a) /\ n.a.l = a.l
      /\ n.a.e # a.l <=> a.e # a.l \/ \E x \in n.statut : x >= b + 1
      /\ n.a.perdu /\ ~a.perdu => a.l = -1
  BY DEF BoucleInv
<1>2. \A x \in statut : /\ x \in Int /\ x < TAILLE_BUF
                        /\ (x >= b <=> x >= b + 1 \/ x = b)
                        /\ (x < b => x < b + 1 /\ x # b) /\ (x >= b + 1 => x # b)
  <2>1. \A x \in statut : x \in Int /\ x < TAILLE_BUF
    BY DlgI2cAssumption, StatutAssumption, SMT
  <2> QED
    BY <2>1, SMT
<1>3. b \in n.statut /\ \A x \in statut : x < b + 1 => x \in n.statut
  <2>1. b < b + 1
    BY SMT
  <2> QED
    BY <2>1 DEF BoucleInv
<1>4. SetInt(b) \in Message
  BY DEF Message
<1>5. CASE ~Place(n.a)
  <2> DEFINE m == NoterUn(n, b)
  <2>1. m = [a |-> n.a, statut |-> n.statut \ {b}]
    BY <1>1, <1>5 DEF NoterUn
  <2>2. m.a = n.a /\ m.statut = n.statut \ {b} /\ m \in [a : Anneau, statut : SUBSET statut]
    BY <1>1, <2>1
  <2> HIDE DEF m
  <2>3. ASSUME NEW x \in m.statut, x >= b
        PROVE  \E s \in Slots : m.a.buf[s] = SetInt(x) /\ Recul(s, m.a.e) <= x - b
    <3>1. x \in n.statut /\ x \in statut /\ x >= b + 1
      BY <1>1, <1>2, <2>2, <2>3
    <3>2. PICK s \in Slots : n.a.buf[s] = SetInt(x) /\ Recul(s, n.a.e) <= x - (b + 1)
      BY <3>1 DEF BoucleInv
    <3>3. Recul(s, n.a.e) \in Nat
      BY <1>1, AnneauFait, ReculFait
    <3>4. x \in Int
      BY <1>2, <3>1
    <3>5. Recul(s, n.a.e) <= x - b
      BY <3>2, <3>3, <3>4, SMT
    <3> QED
      BY <2>2, <3>2, <3>5
  <2>4. BoucleInv(m, b, a, statut)
    BY <1>1, <1>2, <1>3, <2>2, <2>3 DEF BoucleInv
  <2> QED
    BY <2>4 DEF m
<1>6. CASE Place(n.a)
  <2> DEFINE m == NoterUn(n, b)
  <2>1. m = [a |-> r, statut |-> n.statut]
    BY <1>1, <1>6 DEF NoterUn
  <2>2. /\ AnneauInv(r) /\ r.l = n.a.l /\ r.e # n.a.l
        /\ r.perdu /\ ~n.a.perdu => n.a.l = -1
    BY <1>1, <1>4, <1>6, AjouterFait
  <2>3. r = Stocker(n.a, SetInt(b)) /\ n.a \in Anneau
    BY <1>1, <1>6 DEF Ajouter
  <2>4. r.e = Apres(n.a.e) /\ r.buf = [n.a.buf EXCEPT ![Apres(n.a.e)] = SetInt(b)]
    BY <1>4, <2>3, StockerFait
  <2>5. m.a = r /\ m.statut = n.statut /\ m \in [a : Anneau, statut : SUBSET statut]
    BY <1>1, <2>1, <2>2 DEF AnneauInv
  <2> HIDE DEF m, r
  <2>6. n.a.e \in Slots \cup {-1} /\ Apres(n.a.e) \in Slots /\ DOMAIN n.a.buf = Slots
    BY <2>3, AnneauFait, IndiceFait
  <2>7. ASSUME NEW x \in m.statut, x >= b
        PROVE  \E s \in Slots : m.a.buf[s] = SetInt(x) /\ Recul(s, m.a.e) <= x - b
    <3>1. CASE x = b
      <4>1. Recul(Apres(n.a.e), Apres(n.a.e)) = 0
        BY <2>6, ReculFait
      <4>2. Recul(Apres(n.a.e), m.a.e) <= x - b
        BY <2>4, <2>5, <3>1, <4>1, SMT
      <4> QED
        BY <2>4, <2>5, <2>6, <3>1, <4>2
    <3>2. CASE x # b
      <4>1. x \in n.statut /\ x \in statut /\ x >= b + 1
        BY <1>1, <1>2, <2>5, <2>7, <3>2
      <4>2. PICK s \in Slots : n.a.buf[s] = SetInt(x) /\ Recul(s, n.a.e) <= x - (b + 1)
        BY <4>1 DEF BoucleInv
      <4>3. /\ Recul(s, n.a.e) \in Nat
            /\ s = Apres(n.a.e) => Recul(s, n.a.e) = TAILLE_BUF - 1
            /\ s # Apres(n.a.e) => Recul(s, Apres(n.a.e)) = Recul(s, n.a.e) + 1
        BY <2>6, ReculFait
      <4>4. x \in Int /\ x < TAILLE_BUF /\ TAILLE_BUF \in Int
        BY <1>2, <4>1, DlgI2cAssumption, SMT
      <4>5. s # Apres(n.a.e)
        BY <4>2, <4>3, <4>4, SMT
      <4>6. Recul(s, m.a.e) <= x - b
        BY <2>4, <2>5, <4>2, <4>3, <4>4, <4>5, SMT
      <4>7. m.a.buf[s] = SetInt(x)
        BY <2>4, <2>5, <2>6, <4>2, <4>5
      <4> QED
        BY <4>6, <4>7
    <3> QED
      BY <3>1, <3>2
  <2>8. \E x \in m.statut : x >= b
    <3>1. b >= b
      BY SMT
    <3> QED
      BY <1>3, <2>5, <3>1
  <2>9. BoucleInv(m, b, a, statut)
    BY <1>1, <1>2, <1>3, <2>2, <2>5, <2>7, <2>8 DEF BoucleInv
  <2> QED
    BY <2>9 DEF m
<1> QED
  BY <1>5, <1>6

\* What the loop makes of a ring: it stays exact, each event that it says is
\* stored is in the ring, and it has stored one if and only if it says so.
LEMMA NoterFait ==
  ASSUME NEW a, AnneauInv(a), NEW statut \in SUBSET Bits
  PROVE  LET n == Noter(a, statut) IN
         /\ AnneauInv(n.a) /\ n.a.l = a.l /\ n.statut \subseteq statut
         /\ n.a.e # a.l <=> a.e # a.l \/ n.statut # {}
         /\ n.a.perdu /\ ~a.perdu => a.l = -1
         /\ \A x \in n.statut : \E s \in Slots : n.a.buf[s] = SetInt(x)
<1>1. PICK f : /\ f[7] = [a |-> a, statut |-> statut]
               /\ \A b \in 0..6 : f[b] = IF b \in statut THEN NoterUn(f[b + 1], b)
                                         ELSE f[b + 1]
               /\ Noter(a, statut) = f[0]
  BY NoterDefini
<1> DEFINE S == {b \in 0..7 : BoucleInv(f[b], b, a, statut)}
<1>2. 7 \in S
  <2>1. 7 \in 0..7
    BY SMT
  <2> QED
    BY <1>1, <2>1, BoucleDebut
<1>3. ASSUME NEW b \in 0..6, b + 1 \in S PROVE b \in S
  <2>1. b \in 0..7
    BY SMT
  <2>2. BoucleInv(f[b + 1], b + 1, a, statut)
    BY <1>3
  <2>3. CASE b \in statut
    BY <1>1, <2>1, <2>2, <2>3, BoucleNote
  <2>4. CASE b \notin statut
    BY <1>1, <2>1, <2>2, <2>4, BoucleSaute
  <2> QED
    BY <2>3, <2>4
<1>4. 0 \in S
  <2> HIDE DEF S
  <2> QED
    BY <1>2, <1>3, Descente
<1> DEFINE n == Noter(a, statut)
<1>5. BoucleInv(n, 0, a, statut)
  BY <1>1, <1>4
<1> HIDE DEF n
<1>6. n.statut \subseteq statut
  BY <1>5 DEF BoucleInv
<1>7. \A x \in n.statut : x >= 0
  <2>1. \A x \in statut : x >= 0
    BY DlgI2cAssumption, SMT
  <2> QED
    BY <1>6, <2>1
<1> QED
  BY <1>5, <1>6, <1>7 DEF BoucleInv, n

-----------------------------------------------------------------------------
(***************************************************************************)
(* The dialogue as a whole: the rings, what poll announces, and the events *)
(* that are cleared.                                                       *)
(***************************************************************************)

AnneauxInv == AnneauInv(bufr) /\ AnneauInv(bufw) /\ DonneePresente

\* Who holds Monlock.
Verrou ==
  /\ Monlock = "tache" <=> tache.pc \in {"statut", "clear"}
  /\ Monlock = "vie" <=> vie.pc = "essai"

\* From the moment the events are stored until they are cleared their messages
\* stay in the ring: nobody else may touch it, as its readers and the frame of
\* life need Monlock.
Stockes ==
  tache.pc = "clear" =>
    \A b \in tache.statut : \E i \in Slots : bufr.buf[i] = SetInt(b)

\* The inductive invariant.
DialogueInv == TypeOK /\ AnneauxInv /\ Verrou /\ Stockes

\* What a step may do to the events of the board and to the rings.
PasSur ==
  /\ \A b \in pic \ pic' : \E i \in Slots : bufr.buf[i] = SetInt(b)
  /\ bufr'.perdu /\ ~bufr.perdu => bufr.l = -1
  /\ bufw'.perdu /\ ~bufw.perdu => bufw.l = -1

LEMMA AnneauVideInv == AnneauInv(AnneauVide)
<1> DEFINE a == AnneauVide
<1>1. a.e = -1 /\ a.l = -1 /\ a.perdu = FALSE /\ a.buf = [i \in Slots |-> Vide]
  BY DEF AnneauVide
<1>2. a \in Anneau
  BY DEF AnneauVide, Anneau
<1>3. Occupes(a) = {}
  BY <1>1 DEF Occupes
<1>4. Entre(a) = {}
  BY <1>1 DEF Entre
<1> QED
  BY <1>1, <1>2, <1>3, <1>4 DEF AnneauInv

LEMMA InitDialogueInv == Init => DialogueInv
<1> SUFFICES ASSUME Init PROVE DialogueInv
  OBVIOUS
<1>1. AnneauxInv
  BY AnneauVideInv DEF Init, AnneauxInv, DonneePresente, AnneauVide
<1>2. TypeOK
  <2>1. zero \in [nb : 0..(SeuilZero - 1), egal : BOOLEAN]
    BY DlgI2cAssumption, SMT DEF Init
  <2>2. activations \in 0..MaxActivations
    BY DlgI2cAssumption, SMT DEF Init
  <2>3. vie \in [timer : BOOLEAN, file : BOOLEAN, pc : {"repos", "down", "essai"},
                 ucCpt : 0..3, err : BOOLEAN]
    BY SMT DEF Init
  <2> QED
    BY <1>1, <2>1, <2>2, <2>3 DEF Init, TypeOK, AnneauxInv, AnneauInv
<1> QED
  BY <1>1, <1>2 DEF Init, DialogueInv, Verrou, Stockes

\* A step that leaves the rings and the events of the board alone.
LEMMA SansAnneau ==
  ASSUME DialogueInv, TypeOK', Verrou', UNCHANGED <<bufr, bufw, data_on>>,
         pic \subseteq pic',
         UNCHANGED tache \/ tache'.pc # "clear" \/ tache' = [tache EXCEPT !.file = tache'.file]
  PROVE  DialogueInv' /\ PasSur
<1>1. AnneauxInv'
  BY DEF DialogueInv, AnneauxInv, DonneePresente, AnneauInv, Anneau, Occupes, Entre
<1>2. Stockes'
  <2>1. tache \in [file : BOOLEAN, pc : {"repos", "down", "statut", "clear"},
                   statut : SUBSET Bits]
    BY DEF DialogueInv, TypeOK
  <2>2. tache'.pc = "clear" => tache.pc = "clear" /\ tache'.statut = tache.statut
    BY <2>1
  <2> QED
    BY <2>2 DEF DialogueInv, Stockes
<1> QED
  BY <1>1, <1>2 DEF DialogueInv, PasSur

\* The events of the board, and the interrupt.
LEMMA CarteDialogue ==
  ASSUME DialogueInv, I2c_irq \/ \E b \in Bits : Evenement(b)
  PROVE  DialogueInv' /\ PasSur
<1>1. CASE I2c_irq
  <2>1. TypeOK'
    BY <1>1 DEF DialogueInv, TypeOK, I2c_irq, trame, lire
  <2>2. Verrou'
    BY <1>1 DEF DialogueInv, TypeOK, Verrou, I2c_irq, trame, lire
  <2> QED
    BY <1>1, <2>1, <2>2, SansAnneau DEF I2c_irq, lire, trame, DialogueInv, TypeOK
<1>2. CASE \E b \in Bits : Evenement(b)
  <2>1. TypeOK'
    BY <1>2 DEF DialogueInv, TypeOK, Evenement, trame, lire, Ligne
  <2>2. Verrou'
    BY <1>2 DEF DialogueInv, TypeOK, Verrou, Evenement, trame, lire
  <2> QED
    BY <1>2, <2>1, <2>2, SansAnneau DEF Evenement, lire
<1> QED
  BY <1>1, <1>2

\* The work starts, and takes Monlock to read.
LEMMA TacheDialogue ==
  ASSUME DialogueInv, TacheDebut \/ TacheLit
  PROVE  DialogueInv' /\ PasSur
<1>1. TypeOK'
  BY DEF DialogueInv, TypeOK, TacheDebut, TacheLit, carte, trame, lire
<1>2. Verrou'
  BY DEF DialogueInv, TypeOK, Verrou, TacheDebut, TacheLit, trame
<1>3. tache'.pc # "clear"
  BY DEF DialogueInv, TypeOK, TacheDebut, TacheLit
<1> QED
  BY <1>1, <1>2, <1>3, SansAnneau DEF TacheDebut, TacheLit, carte, lire

\* A command is sent.
LEMMA TacheEcritDialogue ==
  ASSUME DialogueInv, TacheEcrit
  PROVE  DialogueInv' /\ PasSur
<1>1. AnneauInv(bufw') /\ bufw'.perdu = bufw.perdu
  BY PrendreInv DEF TacheEcrit, DialogueInv, AnneauxInv
<1>2. AnneauxInv'
  BY <1>1 DEF TacheEcrit, DialogueInv, AnneauxInv, DonneePresente, AnneauInv, Anneau,
              Occupes, Entre, lire
<1>3. tache'.pc = "repos" /\ tache' \in [file : BOOLEAN,
        pc : {"repos", "down", "statut", "clear"}, statut : SUBSET Bits]
  BY DEF TacheEcrit, DialogueInv, TypeOK
<1>4. TypeOK'
  BY <1>1, <1>3 DEF TacheEcrit, DialogueInv, TypeOK, AnneauInv, carte, trame, lire
<1>5. Verrou' /\ Stockes'
  BY <1>3 DEF TacheEcrit, DialogueInv, Verrou, Stockes, trame
<1>6. PasSur
  BY <1>1 DEF TacheEcrit, PasSur, carte, lire
<1> QED
  BY <1>2, <1>4, <1>5, <1>6 DEF DialogueInv

\* The status is read, whether or not the read succeeds, and stored.
LEMMA LireStatutDialogue ==
  ASSUME DialogueInv, NEW lu \in BOOLEAN, LireStatut(lu)
  PROVE  DialogueInv' /\ PasSur
<1>1. PICK statut \in SUBSET Bits :
        /\ bufr' = Noter(bufr, statut).a
        /\ data_on' = (data_on \/ Noter(bufr, statut).statut # {})
        /\ tache' = [tache EXCEPT !.pc = "clear", !.statut = Noter(bufr, statut).statut]
  BY DEF LireStatut, DialogueInv, TypeOK
<1> DEFINE n == Noter(bufr, statut)
<1>2. /\ AnneauInv(n.a) /\ n.a.l = bufr.l /\ n.statut \subseteq statut
      /\ n.a.e # bufr.l <=> bufr.e # bufr.l \/ n.statut # {}
      /\ n.a.perdu /\ ~bufr.perdu => bufr.l = -1
      /\ \A x \in n.statut : \E s \in Slots : n.a.buf[s] = SetInt(x)
  BY NoterFait DEF DialogueInv, AnneauxInv
<1>3. bufr' = n.a /\ data_on' = (data_on \/ n.statut # {})
      /\ tache' = [tache EXCEPT !.pc = "clear", !.statut = n.statut]
  BY <1>1
<1> HIDE DEF n
<1>4. UNCHANGED <<carte, mode, Monlock, trame, bufw>> /\ tache.pc = "statut"
  BY DEF LireStatut
<1>5. AnneauxInv'
  <2>1. AnneauInv(bufr') /\ AnneauInv(bufw')
    BY <1>2, <1>3, <1>4 DEF DialogueInv, AnneauxInv
  <2>2. DonneePresente'
    BY <1>2, <1>3 DEF DialogueInv, AnneauxInv, DonneePresente
  <2> QED
    BY <2>1, <2>2 DEF AnneauxInv
<1>6. /\ tache' \in [file : BOOLEAN, pc : {"repos", "down", "statut", "clear"},
                     statut : SUBSET Bits]
      /\ tache'.pc = "clear" /\ tache'.statut = n.statut
  BY <1>2, <1>3 DEF DialogueInv, TypeOK
<1>7. data_on' \in BOOLEAN
  BY <1>3
<1>8. TypeOK'
  BY <1>2, <1>3, <1>4, <1>6, <1>7 DEF DialogueInv, TypeOK, AnneauInv, carte, trame
<1>9. Verrou' /\ Stockes'
  BY <1>2, <1>3, <1>4, <1>6 DEF DialogueInv, Verrou, Stockes, trame
<1>10. PasSur
  BY <1>2, <1>3, <1>4 DEF PasSur, carte
<1> QED
  BY <1>5, <1>8, <1>9, <1>10 DEF DialogueInv

\* The events that were stored are cleared.
LEMMA EffacerDialogue ==
  ASSUME DialogueInv, NEW transmis \in BOOLEAN, Effacer(transmis)
  PROVE  DialogueInv' /\ PasSur
<1>1. AnneauxInv'
  BY DEF Effacer, DialogueInv, AnneauxInv, DonneePresente, AnneauInv, Anneau,
         Occupes, Entre, lire
<1>2. /\ tache' \in [file : BOOLEAN, pc : {"repos", "down", "statut", "clear"},
                     statut : SUBSET Bits]
      /\ tache'.pc = "repos" /\ tache.pc = "clear"
  BY DEF Effacer, DialogueInv, TypeOK
<1>3. pic' \subseteq pic /\ pic \ pic' \subseteq tache.statut /\ irq' \in BOOLEAN
  BY DEF Effacer, ClearIntPowerCam, DialogueInv, TypeOK
<1>4. TypeOK'
  BY <1>2, <1>3 DEF Effacer, DialogueInv, TypeOK, lire
<1>5. Verrou' /\ Stockes'
  BY <1>2 DEF Effacer, DialogueInv, Verrou, Stockes
<1>6. PasSur
  BY <1>2, <1>3 DEF Effacer, DialogueInv, Stockes, PasSur, lire
<1> QED
  BY <1>1, <1>4, <1>5, <1>6 DEF DialogueInv

\* The application writes a command.
LEMMA EcrireDialogue ==
  ASSUME DialogueInv, Ecrire
  PROVE  DialogueInv' /\ PasSur
<1>1. /\ AnneauInv(bufw')
      /\ bufw'.perdu /\ ~bufw.perdu => bufw.l = -1
  <2>1. Commande \in Message
    BY DEF Message
  <2> QED
    BY <2>1, AjouterFait DEF Ecrire, DialogueInv, AnneauxInv
<1>2. AnneauxInv'
  BY <1>1 DEF Ecrire, DialogueInv, AnneauxInv, DonneePresente, AnneauInv, Anneau,
              Occupes, Entre, lire
<1>3. /\ tache' \in [file : BOOLEAN, pc : {"repos", "down", "statut", "clear"},
                     statut : SUBSET Bits]
      /\ tache'.pc = tache.pc /\ tache'.statut = tache.statut
  BY DEF Ecrire, DialogueInv, TypeOK
<1>4. TypeOK'
  BY <1>1, <1>2, <1>3 DEF Ecrire, DialogueInv, TypeOK, AnneauxInv, AnneauInv, carte, trame, lire
<1>5. Verrou' /\ Stockes'
  BY <1>3 DEF Ecrire, DialogueInv, Verrou, Stockes, trame, lire
<1>6. PasSur
  BY <1>1 DEF Ecrire, PasSur, carte, lire
<1> QED
  BY <1>2, <1>4, <1>5, <1>6 DEF DialogueInv

\* The application reads: a reader holds Monlock while it sleeps.
LEMMA LireDialogue ==
  ASSUME DialogueInv, LireDort \/ LireReveil \/ \E copie \in BOOLEAN : Lire(copie)
  PROVE  DialogueInv' /\ PasSur
<1>1. CASE LireDort \/ LireReveil
  <2>1. TypeOK' /\ Verrou'
    BY <1>1 DEF DialogueInv, TypeOK, Verrou, LireDort, LireReveil, carte, trame, lire
  <2> QED
    BY <1>1, <2>1, SansAnneau DEF LireDort, LireReveil, carte, lire
<1>2. ASSUME NEW copie \in BOOLEAN, Lire(copie) PROVE DialogueInv' /\ PasSur
  <2>1. bufr.e # bufr.l /\ AnneauInv(bufr)
    BY <1>2 DEF Lire, DialogueInv, AnneauxInv, DonneePresente
  <2>2. /\ AnneauInv(bufr') /\ bufr'.perdu = bufr.perdu /\ data_on' \in BOOLEAN
        /\ data_on' <=> bufr'.e # bufr'.l
    BY <1>2, <2>1, PrendreInv DEF Lire, Prise
  <2>3. tache.pc # "clear"
    BY <1>2 DEF Lire, DialogueInv, Verrou
  <2>4. UNCHANGED <<carte, mode, Monlock, tache, trame, bufw>>
    BY <1>2 DEF Lire
  <2>5. AnneauxInv'
    BY <2>2, <2>4 DEF DialogueInv, AnneauxInv, DonneePresente, AnneauInv, Anneau,
       Occupes, Entre
  <2>6. TypeOK'
    BY <2>2, <2>4 DEF DialogueInv, TypeOK, AnneauInv, carte, trame
  <2>7. Verrou' /\ Stockes'
    BY <2>3, <2>4 DEF DialogueInv, Verrou, Stockes, trame
  <2> QED
    BY <2>2, <2>4, <2>5, <2>6, <2>7 DEF DialogueInv, PasSur, carte
<1> QED
  BY <1>1, <1>2

\* The types of the variables of the frame of life.
VieType ==
  vie \in [timer : BOOLEAN, file : BOOLEAN, pc : {"repos", "down", "essai"},
           ucCpt : 0..3, err : BOOLEAN]

\* The end of an exchange, which may tell the application of a failure.
LEMMA FinEssaiDialogue ==
  ASSUME DialogueInv, NEW rate \in BOOLEAN, FinEssai(rate), vie.pc = "essai",
         UNCHANGED <<pic, tache, bufw>>
  PROVE  AnneauxInv' /\ VieType' /\ Verrou' /\ Stockes' /\ PasSur
         /\ Monlock' \in {"vie", "libre"} /\ ub' \in {"aucun", "timer"}
<1> DEFINE err == vie.err \/ rate
<1>1. /\ AnneauInv(bufr) /\ AnneauInv(bufw) /\ DonneePresente /\ VieType
      /\ Monlock = "vie" /\ tache.pc \notin {"statut", "clear"}
      /\ ub \in {"aucun", "timer"} /\ data_on \in BOOLEAN
  BY DEF DialogueInv, AnneauxInv, TypeOK, VieType, Verrou
<1>2. Stockes'
  BY <1>1 DEF Stockes
<1>3. CASE err /\ vie.ucCpt > 1
  <2>1. vie' = [vie EXCEPT !.ucCpt = vie.ucCpt - 1, !.err = TRUE]
        /\ UNCHANGED <<Monlock, lire, ub>>
    BY <1>3 DEF FinEssai, err
  <2>2. vie.ucCpt \in 0..3 /\ vie.ucCpt - 1 \in 0..3
    BY <1>1, <1>3, SMT DEF VieType
  <2>3. VieType' /\ vie'.pc = "essai"
    <3>1. vie' = [timer |-> vie.timer, file |-> vie.file, pc |-> vie.pc,
                  ucCpt |-> vie.ucCpt - 1, err |-> TRUE]
      BY <1>1, <2>1 DEF VieType
    <3> QED
      BY <1>1, <2>2, <3>1 DEF VieType
  <2>4. AnneauxInv'
    BY <1>1, <2>1 DEF AnneauxInv, DonneePresente, AnneauInv, Anneau, Occupes, Entre, lire
  <2> QED
    BY <1>1, <1>2, <2>1, <2>3, <2>4 DEF Verrou, PasSur, lire
<1>4. CASE ~(err /\ vie.ucCpt > 1)
  <2>1. /\ vie' = [vie EXCEPT !.pc = "repos", !.timer = TRUE, !.ucCpt = 0, !.err = FALSE]
        /\ Monlock' = "libre" /\ ub' = (IF vie.timer THEN "timer" ELSE ub)
        /\ IF err /\ CharSigne
           THEN bufr' = Ajouter(bufr, PbTrameVie) /\ data_on' = (data_on \/ Place(bufr))
           ELSE UNCHANGED lire
    BY <1>4 DEF FinEssai, err
  <2>2. VieType' /\ vie'.pc = "repos"
    <3>1. vie' = [timer |-> TRUE, file |-> vie.file, pc |-> "repos",
                  ucCpt |-> 0, err |-> FALSE]
      BY <1>1, <2>1 DEF VieType
    <3>2. 0 \in 0..3
      BY SMT
    <3> QED
      BY <1>1, <3>1, <3>2 DEF VieType
  <2>3. /\ AnneauInv(bufr') /\ data_on' \in BOOLEAN
        /\ data_on' <=> bufr'.e # bufr'.l
        /\ bufr'.perdu /\ ~bufr.perdu => bufr.l = -1
    <3>1. CASE err /\ CharSigne
      <4>1. PbTrameVie \in Message
        BY DEF Message
      <4>2. bufr' = Ajouter(bufr, PbTrameVie) /\ data_on' = (data_on \/ Place(bufr))
        BY <2>1, <3>1
      <4> QED
        BY <1>1, <4>1, <4>2, AjouterFait DEF DonneePresente
    <3>2. CASE ~(err /\ CharSigne)
      BY <1>1, <2>1, <3>2 DEF lire, DonneePresente
    <3> QED
      BY <3>1, <3>2
  <2>4. AnneauxInv'
    BY <1>1, <2>3 DEF AnneauxInv, DonneePresente, AnneauInv, Anneau, Occupes, Entre
  <2> QED
    BY <1>1, <1>2, <2>1, <2>2, <2>3, <2>4 DEF Verrou, PasSur
<1> QED
  BY <1>3, <1>4

\* The exchanges of the frame of life.
LEMMA TrameDialogue ==
  ASSUME DialogueInv, TrameRatee \/ \E t \in BOOLEAN : TrameRecue(t)
  PROVE  DialogueInv' /\ PasSur
<1>1. CASE TrameRatee
  <2>1. AnneauxInv' /\ VieType' /\ Verrou' /\ Stockes' /\ PasSur
        /\ Monlock' \in {"vie", "libre"} /\ ub' \in {"aucun", "timer"}
    BY <1>1, FinEssaiDialogue DEF TrameRatee, carte
  <2>2. bufr' \in Anneau /\ data_on' \in BOOLEAN
    BY <1>1, <2>1 DEF AnneauxInv, AnneauInv, TrameRatee, FinEssai, lire, DialogueInv, TypeOK
  <2>3. TypeOK'
    BY <1>1, <2>1, <2>2 DEF TrameRatee, DialogueInv, TypeOK, VieType, carte
  <2> QED
    BY <2>1, <2>3 DEF DialogueInv
<1>2. ASSUME NEW t \in BOOLEAN, TrameRecue(t)
      PROVE  DialogueInv' /\ PasSur
  <2>0. pic' = pic /\ irq' \in BOOLEAN
    BY <1>2 DEF TrameRecue, ClearIntPowerCam, carte, DialogueInv, TypeOK
  <2>1. AnneauxInv' /\ VieType' /\ Verrou' /\ Stockes' /\ PasSur
        /\ Monlock' \in {"vie", "libre"} /\ ub' \in {"aucun", "timer"}
    BY <1>2, <2>0, FinEssaiDialogue DEF TrameRecue
  <2>2. bufr' \in Anneau /\ data_on' \in BOOLEAN
    BY <1>2, <2>1 DEF AnneauxInv, AnneauInv, TrameRecue, FinEssai, lire, DialogueInv, TypeOK
  <2>3. zero' \in [nb : 0..(SeuilZero - 1), egal : BOOLEAN]
    <3>1. zero \in [nb : 0..(SeuilZero - 1), egal : BOOLEAN]
      BY DEF DialogueInv, TypeOK
    <3>2. \/ zero' = [nb |-> 0, egal |-> FALSE]
          \/ /\ zero' = [nb |-> zero.nb + 1, egal |-> TRUE]
             /\ zero.nb = 0 \/ ~(zero.nb + 1 >= SeuilZero)
      BY <1>2 DEF TrameRecue
    <3>3. 0 \in 0..(SeuilZero - 1)
      BY DlgI2cAssumption, SMT
    <3>4. ~(zero.nb + 1 >= SeuilZero) \/ zero.nb = 0 => zero.nb + 1 \in 0..(SeuilZero - 1)
      BY <3>1, DlgI2cAssumption, SMT
    <3>5. CASE zero' = [nb |-> 0, egal |-> FALSE]
      BY <3>3, <3>5
    <3>6. CASE /\ zero' = [nb |-> zero.nb + 1, egal |-> TRUE]
               /\ zero.nb = 0 \/ ~(zero.nb + 1 >= SeuilZero)
      <4>1. zero.nb + 1 \in 0..(SeuilZero - 1)
        BY <3>4, <3>6
      <4> QED
        BY <3>6, <4>1
    <3> QED
      BY <3>2, <3>5, <3>6
  <2>4. TypeOK'
    BY <1>2, <2>0, <2>1, <2>2, <2>3 DEF TrameRecue, DialogueInv, TypeOK, VieType
  <2> QED
    BY <2>1, <2>4 DEF DialogueInv
<1> QED
  BY <1>1, <1>2

\* The timer of the frame of life, its work, and the application that enables
\* or disables it.
LEMMA VieDialogue ==
  ASSUME DialogueInv,
         \/ fctTimerTrameVie \/ VieDebut \/ VieVerrou
         \/ \E en \in BOOLEAN : EnTrameVie(en)
  PROVE  DialogueInv' /\ PasSur
<1>0. TypeOK /\ VieType /\ Verrou
  BY DEF DialogueInv, TypeOK, VieType
<1>1. /\ UNCHANGED <<carte, mode, tache, zero, bufr, bufw, data_on>>
      /\ VieType'
      /\ ub' \in {"aucun", "timer"} /\ Monlock' \in {"libre", "tache", "vie", "lecteur"}
      /\ Verrou' /\ activations' \in 0..MaxActivations
  <2>1. CASE fctTimerTrameVie
    BY <1>0, <2>1 DEF fctTimerTrameVie, TypeOK, VieType, Verrou, lire
  <2>2. CASE VieDebut
    BY <1>0, <2>2 DEF VieDebut, TypeOK, VieType, Verrou, lire
  <2>3. CASE VieVerrou
    <3>1. vie' = [timer |-> vie.timer, file |-> vie.file, pc |-> "essai",
                  ucCpt |-> 3, err |-> vie.err]
      BY <1>0, <2>3 DEF VieVerrou, VieType
    <3>2. 3 \in 0..3
      BY SMT
    <3> QED
      BY <1>0, <2>3, <3>1, <3>2 DEF VieVerrou, TypeOK, VieType, Verrou, lire
  <2>4. ASSUME NEW en \in BOOLEAN, EnTrameVie(en)
        PROVE  <1>1!:
    <3>1. activations' \in 0..MaxActivations
      BY <1>0, <2>4, DlgI2cAssumption, SMT DEF EnTrameVie, TypeOK
    <3> QED
      BY <1>0, <2>4, <3>1 DEF EnTrameVie, TypeOK, VieType, Verrou, lire
  <2> QED
    BY <2>1, <2>2, <2>3, <2>4
<1>2. TypeOK'
  BY <1>0, <1>1 DEF TypeOK, VieType, carte
<1> QED
  BY <1>1, <1>2, SansAnneau DEF carte

LEMMA NextDialogueInv == DialogueInv /\ [Next]_vars => DialogueInv' /\ PasSur
<1> SUFFICES ASSUME DialogueInv, [Next]_vars PROVE DialogueInv' /\ PasSur
  OBVIOUS
<1>1. CASE I2c_irq \/ \E b \in Bits : Evenement(b)
  BY <1>1, CarteDialogue
<1>2. CASE TacheDebut \/ TacheLit
  BY <1>2, TacheDialogue
<1>3. CASE TacheEcrit
  BY <1>3, TacheEcritDialogue
<1>4. CASE LireStatut(TRUE) \/ LireStatut(FALSE)
  BY <1>4, LireStatutDialogue
<1>5. CASE Effacer(TRUE) \/ Effacer(FALSE)
  BY <1>5, EffacerDialogue
<1>6. CASE TrameRatee \/ TrameRecue(TRUE) \/ TrameRecue(FALSE)
  BY <1>6, TrameDialogue
<1>7. CASE fctTimerTrameVie \/ VieDebut \/ VieVerrou \/ \E en \in BOOLEAN : EnTrameVie(en)
  BY <1>7, VieDialogue
<1>8. CASE LireDort \/ LireReveil \/ Lire(TRUE) \/ Lire(FALSE)
  BY <1>8, LireDialogue
<1>9. CASE Ecrire
  BY <1>9, EcrireDialogue
<1>10. CASE UNCHANGED vars
  <2>1. TypeOK' /\ Verrou'
    BY <1>10 DEF vars, carte, trame, lire, DialogueInv, TypeOK, Verrou
  <2> QED
    BY <1>10, <2>1, SansAnneau DEF vars, carte, lire
<1> QED
  BY <1>1, <1>2, <1>3, <1>4, <1>5, <1>6, <1>7, <1>8, <1>9, <1>10
  DEF Next, Tache, Vie, Lecture, Pannes

\* The variables keep the kinds of values the code gives them: the indices stay
\* in the rings, the counters of the frame of life in their bounds, whatever
\* fails.
THEOREM DlgI2cTypeOK == Spec => []TypeOK
<1>1. DialogueInv => TypeOK
  BY DEF DialogueInv
<1> QED
  BY <1>1, InitDialogueInv, NextDialogueInv, PTL DEF Spec

\* The messages between the two indices of a ring are the messages not read,
\* until one is written over (dlgi2c.c:208-222, 656-671, 710-740).
THEOREM DlgI2cAnneauxExacts == Spec => []AnneauxExacts
<1>1. DialogueInv => AnneauxExacts
  BY DEF DialogueInv, AnneauxInv, AnneauInv, AnneauxExacts
<1> QED
  BY <1>1, InitDialogueInv, NextDialogueInv, PTL DEF Spec

\* poll announces data exactly when read finds some (dlgi2c.c:656-674, 1064).
THEOREM DlgI2cDonneePresente == Spec => []DonneePresente
<1>1. DialogueInv => DonneePresente
  BY DEF DialogueInv, AnneauxInv
<1> QED
  BY <1>1, InitDialogueInv, NextDialogueInv, PTL DEF Spec

\* A message is written over only while nothing was ever read
\* (dlgi2c.c:208-222, 710-740).
THEOREM DlgI2cPerteAvantLecture == Spec => PerteAvantLecture
<1>1. PasSur => [/\ bufr'.perdu /\ ~bufr.perdu => bufr.l = -1
                 /\ bufw'.perdu /\ ~bufw.perdu => bufw.l = -1]_vars
  BY DEF PasSur
<1> QED
  BY <1>1, InitDialogueInv, NextDialogueInv, PTL DEF Spec, PerteAvantLecture

\* An event leaves the board only while its message is in the ring
\* (dlgi2c.c:305-341).
THEOREM DlgI2cEffaceApresStockage == Spec => EffaceApresStockage
<1>1. PasSur => [\A b \in pic \ pic' : \E i \in Slots : bufr.buf[i] = SetInt(b)]_vars
  BY DEF PasSur
<1> QED
  BY <1>1, InitDialogueInv, NextDialogueInv, PTL DEF Spec, EffaceApresStockage
=============================================================================
