------------------------------ MODULE PwmGpio ------------------------------
(***************************************************************************)
(* CPwmGpio (PwmGpio.cpp): a periodic timer toggles a pin, and the sun's   *)
(* thread changes the timer's duration through SetRapportCyclique while    *)
(* the timer's thread reads it.  The duration is a uint64_t: on the 32-bit *)
(* board it is written and read as two words, and only the reader takes    *)
(* the mutex (Timer.h:19, Timer.cpp:62-65).                                *)
(***************************************************************************)
EXTENDS Integers

CONSTANTS
  MICRO_SEC,   \* microseconds in a second
  FreqMax,     \* 10 * KHz
  FreqDefaut,  \* 1 * KHz
  Freqs,       \* frequencies asked for
  Rapports,    \* duty cycles asked for, in per cent
  Mot          \* 2^32: the values of one word of a uint64_t

ASSUME PwmAssumption ==
  /\ MICRO_SEC \in Nat /\ FreqMax \in Nat /\ FreqDefaut \in 1..FreqMax
  /\ FreqMax <= MICRO_SEC
  /\ Freqs \subseteq Int /\ Rapports \subseteq Int
  /\ Mot \in Nat /\ MICRO_SEC < Mot

VARIABLES
  ui64_usec_Period,
  dRapportCyclique, ui64_usecEtatHaut, ui64_usecEtatBas,
  reglage,   \* SetRapportCyclique: "repos", "bas" or "haut" word to be written
  duree,     \* the timer's ui64TpsUsec, as two words
  tpc,       \* the timer's thread
  lu,        \* what it has read of the duration
  ucEtat, broche,   \* the level wanted and the level of the pin
  phase      \* length of the last complete wait at each level, 0 for unknown

rapport == <<dRapportCyclique, ui64_usecEtatHaut, ui64_usecEtatBas, reglage>>
minuteur == <<tpc, lu>>
sortie  == <<ucEtat, broche, phase>>
vars    == <<ui64_usec_Period, rapport, duree, minuteur, sortie>>

Valeur(d) == d.haut * Mot + d.bas

\* Mutant of Mots: the duration is kept in units that need both words.
MotsLongs(v) == [haut |-> (v * MICRO_SEC) \div Mot, bas |-> (v * MICRO_SEC) % Mot]

\* A uint64_t as it is stored.
Mots(v) == [haut |-> v \div Mot, bas |-> v % Mot]

Periodes == 0..MICRO_SEC
Usec64   == [haut : 0..(Mot - 1), bas : 0..(Mot - 1)]

\* The variables hold values of the kinds the code gives them.
TypeOK ==
  /\ ui64_usec_Period \in Periodes /\ dRapportCyclique \in 1..99
  /\ ui64_usecEtatHaut \in Periodes /\ ui64_usecEtatBas \in Periodes
  /\ reglage \in {"repos", "bas", "haut"}
  /\ duree \in Usec64 /\ lu \in Usec64
  /\ tpc \in {"off", "lire", "lire2", "select", "ecrire", "fin"}
  /\ ucEtat \in {0, 1} /\ broche \in {0, 1} /\ phase \in [{0, 1} -> Nat]

\* Mutant of Rapport: a duty cycle out of range is kept.
RapportBrut(r) == r

\* 50 unless 0 < dRapport < 100
Rapport(r) == IF 0 < r /\ r < 100 THEN r ELSE 50

EtatHaut(period, r) == (period * r) \div 100

\* CPwmGpio::iInit, with the SetDuree of its SetRapportCyclique; no timer runs.
Init ==
  \E f \in Freqs, r \in Rapports :
    /\ ui64_usec_Period = MICRO_SEC \div (IF 0 < f /\ f <= FreqMax THEN f ELSE FreqDefaut)
    /\ dRapportCyclique = Rapport(r)
    /\ ui64_usecEtatHaut = EtatHaut(ui64_usec_Period, Rapport(r))
    /\ ui64_usecEtatBas = ui64_usec_Period - ui64_usecEtatHaut
    /\ reglage = "repos" /\ duree = Mots(ui64_usecEtatHaut)
    /\ tpc = "off" /\ lu = Mots(0)
    /\ ucEtat = 0 /\ broche = 0 /\ phase = [n \in {0, 1} |-> 0]

-----------------------------------------------------------------------------
(***************************************************************************)
(* The sun's thread.                                                       *)
(***************************************************************************)

\* iStart: Start (ui64_usecEtatHaut,this,TIME_PERIODIC), refused if 0
iStart ==
  /\ tpc = "off" /\ reglage = "repos" /\ ui64_usecEtatHaut # 0
  /\ duree' = Mots(ui64_usecEtatHaut) /\ tpc' = "lire"
  /\ UNCHANGED <<ui64_usec_Period, rapport, lu, sortie>>

\* SetRapportCyclique up to m_TimerPwm.SetDuree
SetRapportCyclique ==
  /\ reglage = "repos" /\ tpc # "fin" /\ reglage' = "bas"
  /\ \E r \in Rapports :
       /\ dRapportCyclique' = Rapport(r)
       /\ ui64_usecEtatHaut' = EtatHaut(ui64_usec_Period, dRapportCyclique')
       /\ ui64_usecEtatBas' = ui64_usec_Period - ui64_usecEtatHaut'
  /\ phase' = [n \in {0, 1} |-> 0]
  /\ UNCHANGED <<ui64_usec_Period, duree, minuteur, ucEtat, broche>>

\* SetDuree stores the two words one after the other, without the mutex.
SetDureeBas ==
  /\ reglage = "bas" /\ reglage' = "haut"
  /\ duree' = [duree EXCEPT !.bas = Mots(ui64_usecEtatHaut).bas]
  /\ UNCHANGED <<ui64_usec_Period, dRapportCyclique, ui64_usecEtatHaut,
                 ui64_usecEtatBas, minuteur, sortie>>

SetDureeHaut ==
  /\ reglage = "haut" /\ reglage' = "repos"
  /\ duree' = [duree EXCEPT !.haut = Mots(ui64_usecEtatHaut).haut]
  /\ UNCHANGED <<ui64_usec_Period, dRapportCyclique, ui64_usecEtatHaut,
                 ui64_usecEtatBas, minuteur, sortie>>

\* iStop: m_TimerPwm.Stop () returns when the timer's thread is over; it may
\* be seen at the next wait only.  The pin keeps its level.
iStop ==
  /\ tpc = "select" /\ reglage = "repos" /\ tpc' = "fin"
  /\ UNCHANGED <<ui64_usec_Period, rapport, duree, lu, sortie>>

-----------------------------------------------------------------------------
(***************************************************************************)
(* The timer's thread.                                                     *)
(***************************************************************************)

\* Tv is made from ui64TpsUsec, of which the two words are read in turn.
LireBas ==
  /\ tpc = "lire" /\ tpc' = "lire2" /\ lu' = [lu EXCEPT !.bas = duree.bas]
  /\ UNCHANGED <<ui64_usec_Period, rapport, duree, sortie>>

LireHaut ==
  /\ tpc = "lire2" /\ tpc' = "select" /\ lu' = [lu EXCEPT !.haut = duree.haut]
  /\ UNCHANGED <<ui64_usec_Period, rapport, duree, sortie>>

\* The wait has run out: GestionPwm, ucEtat=ucEtat?0:1.  A wait counts for its
\* level when the duty cycle has not changed since the one before.
GestionPwm ==
  /\ tpc = "select" /\ tpc' = "ecrire"
  /\ ucEtat' = 1 - ucEtat
  /\ phase' = IF reglage = "repos" /\ lu = duree
              THEN [phase EXCEPT ![ucEtat] = Valeur(lu)] ELSE phase
  /\ UNCHANGED <<ui64_usec_Period, rapport, duree, lu, broche>>

\* GPIO_WRITE( G_BANK (ucGpio),G_PIN (ucGpio),ucEtat)
GpioWrite ==
  /\ tpc = "ecrire" /\ tpc' = "lire" /\ broche' = ucEtat
  /\ UNCHANGED <<ui64_usec_Period, rapport, duree, lu, ucEtat, phase>>

Repos == (tpc = "fin" \/ ui64_usecEtatHaut = 0) /\ UNCHANGED vars

Soleil == iStart \/ SetRapportCyclique \/ SetDureeBas \/ SetDureeHaut \/ iStop
Minuteur == LireBas \/ LireHaut \/ GestionPwm \/ GpioWrite

Next == Soleil \/ Minuteur \/ Repos

Spec == Init /\ [][Next]_vars

-----------------------------------------------------------------------------
\* The duration the timer waits for is one that was asked for: a read in the
\* middle of an unlocked SetDuree never gives a mixture of two durations,
\* because every duration fits in the low word (Timer.h:19, Timer.cpp:62-65).
DureeEntiere ==
  tpc \in {"select", "ecrire"} =>
    \E r \in Rapports : Valeur(lu) = EtatHaut(ui64_usec_Period, Rapport(r))

\* dRapportCyclique is the "rapport en pourcentage du niveau haut"
\* (PwmGpio.h:93): once both levels have been held for a whole wait since the
\* last change, the high one lasted that share of the time.
RapportNiveauHaut ==
  (phase[0] # 0 /\ phase[1] # 0) =>
    phase[1] = ((phase[0] + phase[1]) * dRapportCyclique) \div 100
=============================================================================
