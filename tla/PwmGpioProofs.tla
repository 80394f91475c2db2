--------------------------- MODULE PwmGpioProofs ---------------------------
(***************************************************************************)
(* For every frequency, duty cycle and word size above MICRO_SEC, the      *)
(* duration that the timer's thread waits for is one that was asked for,   *)
(* although the words of the duration are written without the mutex: all   *)
(* durations are below MICRO_SEC, so their high word is always 0.          *)
(***************************************************************************)
EXTENDS PwmGpio, TLAPS

\* v is the high time of a duty cycle that may be asked for.
Demandee(v) == \E r \in Rapports : v = EtatHaut(ui64_usec_Period, Rapport(r))

\* The inductive invariant: durations that were asked for, in low words.
PwmInv ==
  /\ ui64_usec_Period \in Periodes
  /\ Demandee(ui64_usecEtatHaut)
  /\ duree = [haut |-> 0, bas |-> duree.bas] /\ Demandee(duree.bas)
  /\ lu = [haut |-> 0, bas |-> lu.bas] /\ lu.bas \in Nat
  /\ tpc \in {"lire2", "select", "ecrire"} => Demandee(lu.bas)

\* A value below 2^32 is stored in the low word.
LEMMA MotsPetit ==
  ASSUME NEW v \in Nat, v < Mot
  PROVE  Mots(v) = [haut |-> 0, bas |-> v]
<1>1. v \div Mot = 0 /\ v % Mot = v
  BY PwmAssumption, SMT
<1> QED
  BY <1>1 DEF Mots

\* The period is at most a second.
LEMMA PeriodeBornee ==
  ASSUME NEW f \in Nat \ {0}
  PROVE  MICRO_SEC \div f \in Periodes
  BY PwmAssumption, SMT DEF Periodes

\* The high time is at most the period.
LEMMA EtatHautBorne ==
  ASSUME NEW p \in Periodes, NEW r \in Int
  PROVE  EtatHaut(p, Rapport(r)) \in Nat /\ EtatHaut(p, Rapport(r)) < Mot
<1>1. Rapport(r) \in 1..99
  BY SMT DEF Rapport
<1>2. ASSUME NEW k \in 1..99
      PROVE  EtatHaut(p, k) \in 0..p
  BY PwmAssumption, SMT DEF EtatHaut, Periodes
<1>3. EtatHaut(p, Rapport(r)) \in 0..p
  BY <1>1, <1>2
<1> QED
  BY <1>3, PwmAssumption, SMT DEF Periodes

\* Whatever was asked for is stored in the low word.
LEMMA MotsDemandee ==
  ASSUME NEW v, ui64_usec_Period \in Periodes, Demandee(v)
  PROVE  v \in Nat /\ Mots(v) = [haut |-> 0, bas |-> v]
<1>1. PICK r \in Rapports : v = EtatHaut(ui64_usec_Period, Rapport(r))
  BY DEF Demandee
<1>2. r \in Int
  BY PwmAssumption
<1>3. v \in Nat /\ v < Mot
  BY <1>1, <1>2, EtatHautBorne
<1> QED
  BY <1>3, MotsPetit

LEMMA InitPwmInv == Init => PwmInv
<1> SUFFICES ASSUME Init PROVE PwmInv
  OBVIOUS
<1>1. PICK f \in Freqs, r \in Rapports :
        /\ ui64_usec_Period = MICRO_SEC \div (IF 0 < f /\ f <= FreqMax THEN f ELSE FreqDefaut)
        /\ ui64_usecEtatHaut = EtatHaut(ui64_usec_Period, Rapport(r))
        /\ duree = Mots(ui64_usecEtatHaut)
        /\ tpc = "off" /\ lu = Mots(0)
  BY DEF Init
<1>2. ui64_usec_Period \in Periodes
  <2>1. (IF 0 < f /\ f <= FreqMax THEN f ELSE FreqDefaut) \in Nat \ {0}
    BY PwmAssumption, SMT
  <2> QED
    BY <1>1, <2>1, PeriodeBornee
<1>3. Demandee(ui64_usecEtatHaut)
  BY <1>1 DEF Demandee
<1>4. duree = [haut |-> 0, bas |-> ui64_usecEtatHaut]
  BY <1>1, <1>2, <1>3, MotsDemandee
<1>5. lu = [haut |-> 0, bas |-> 0]
  <2>1. 0 \in Nat /\ 0 < Mot
    BY PwmAssumption, SMT
  <2> QED
    BY <1>1, <2>1, MotsPetit
<1> QED
  BY <1>1, <1>2, <1>3, <1>4, <1>5 DEF PwmInv

LEMMA NextPwmInv == PwmInv /\ [Next]_vars => PwmInv'
<1> SUFFICES ASSUME PwmInv, [Next]_vars PROVE PwmInv'
  OBVIOUS
<1> USE DEF PwmInv
<1>0. /\ Mots(ui64_usecEtatHaut) = [haut |-> 0, bas |-> ui64_usecEtatHaut]
      /\ duree.bas \in Nat
  BY MotsDemandee
<1>1. CASE iStart
  BY <1>0, <1>1 DEF iStart, rapport, sortie, Demandee
<1>2. CASE SetRapportCyclique
  <2>1. Demandee(ui64_usecEtatHaut)'
    BY <1>2 DEF SetRapportCyclique, Demandee
  <2> QED
    BY <1>2, <2>1 DEF SetRapportCyclique, minuteur, Demandee
<1>3. CASE SetDureeBas
  BY <1>0, <1>3 DEF SetDureeBas, minuteur, Demandee
<1>4. CASE SetDureeHaut
  BY <1>0, <1>4 DEF SetDureeHaut, minuteur, Demandee
<1>5. CASE iStop
  BY <1>5 DEF iStop, rapport, Demandee
<1>6. CASE LireBas
  BY <1>0, <1>6 DEF LireBas, rapport, Demandee
<1>7. CASE LireHaut
  BY <1>0, <1>7 DEF LireHaut, rapport, Demandee
<1>8. CASE GestionPwm
  BY <1>8 DEF GestionPwm, rapport, Demandee
<1>9. CASE GpioWrite
  BY <1>9 DEF GpioWrite, rapport, Demandee
<1>10. CASE Repos \/ UNCHANGED vars
  BY <1>10 DEF Repos, vars, rapport, minuteur, Demandee
<1> QED
  BY <1>1, <1>2, <1>3, <1>4, <1>5, <1>6, <1>7, <1>8, <1>9, <1>10
  DEF Next, Soleil, Minuteur

\* The settings of the PWM, and the waits and levels of its thread.
PwmInvariant == TypeOK /\ PwmInv

\* The low time takes what the high time leaves of the period.
LEMMA EtatBasBorne ==
  ASSUME NEW p \in Periodes, NEW r \in Int
  PROVE  /\ Rapport(r) \in 1..99
         /\ EtatHaut(p, Rapport(r)) \in Periodes
         /\ p - EtatHaut(p, Rapport(r)) \in Periodes
<1>1. Rapport(r) \in 1..99
  BY SMT DEF Rapport
<1>2. ASSUME NEW k \in 1..99
      PROVE  EtatHaut(p, k) \in Periodes /\ p - EtatHaut(p, k) \in Periodes
  BY PwmAssumption, SMT DEF EtatHaut, Periodes
<1> QED
  BY <1>1, <1>2

\* A wait that can be stored is one that can be read.
LEMMA MotsType ==
  ASSUME ui64_usec_Period \in Periodes, NEW v, Demandee(v)
  PROVE  Mots(v) \in Usec64 /\ v \in 0..(Mot - 1)
<1>1. PICK r \in Rapports : v = EtatHaut(ui64_usec_Period, Rapport(r))
  BY DEF Demandee
<1>2. v \in Nat /\ v < Mot
  BY <1>1, EtatHautBorne, PwmAssumption
<1>3. Mots(v) = [haut |-> 0, bas |-> v]
  BY <1>2, MotsPetit
<1>4. 0 \in 0..(Mot - 1) /\ v \in 0..(Mot - 1)
  BY <1>2, PwmAssumption, SMT
<1> QED
  BY <1>3, <1>4 DEF Usec64

\* The duration the timer waits for is never a mixture of two durations
\* (Timer.h:19, Timer.cpp:62-65).
THEOREM PwmDureeEntiere == Spec => []DureeEntiere
<1>1. PwmInv => DureeEntiere
  <2> SUFFICES ASSUME PwmInv, tpc \in {"select", "ecrire"}
               PROVE  Demandee(Valeur(lu))
    BY DEF DureeEntiere, Demandee
  <2>1. lu = [haut |-> 0, bas |-> lu.bas] /\ lu.bas \in Nat /\ Demandee(lu.bas)
    BY DEF PwmInv
  <2>2. Valeur(lu) = lu.bas
    BY <2>1, PwmAssumption, SMT DEF Valeur
  <2> QED
    BY <2>1, <2>2
<1> QED
  BY <1>1, InitPwmInv, NextPwmInv, PTL DEF Spec

LEMMA InitPwmTypeOK == Init => TypeOK
<1> SUFFICES ASSUME Init PROVE TypeOK
  OBVIOUS
<1>1. PICK f \in Freqs, r \in Rapports :
        /\ dRapportCyclique = Rapport(r)
        /\ ui64_usecEtatHaut = EtatHaut(ui64_usec_Period, Rapport(r))
        /\ ui64_usecEtatBas = ui64_usec_Period - ui64_usecEtatHaut
        /\ reglage = "repos" /\ duree = Mots(ui64_usecEtatHaut)
        /\ tpc = "off" /\ lu = Mots(0)
        /\ ucEtat = 0 /\ broche = 0 /\ phase = [n \in {0, 1} |-> 0]
  BY DEF Init
<1>2. PwmInv
  BY InitPwmInv
<1>3. ui64_usec_Period \in Periodes /\ Demandee(ui64_usecEtatHaut)
  BY <1>2 DEF PwmInv
<1>4. duree \in Usec64
  BY <1>1, <1>3, MotsType
<1>5. lu \in Usec64
  <2>1. 0 \in Nat /\ 0 < Mot /\ 0 \in 0..(Mot - 1)
    BY PwmAssumption, SMT
  <2> QED
    BY <1>1, <2>1, MotsPetit DEF Usec64
<1>6. /\ dRapportCyclique \in 1..99
      /\ ui64_usecEtatHaut \in Periodes /\ ui64_usecEtatBas \in Periodes
  BY <1>1, <1>3, EtatBasBorne, PwmAssumption
<1> QED
  BY <1>1, <1>3, <1>4, <1>5, <1>6 DEF TypeOK

LEMMA NextPwmTypeOK == PwmInvariant /\ [Next]_vars => TypeOK'
<1> SUFFICES ASSUME TypeOK, PwmInv, [Next]_vars PROVE TypeOK'
  BY DEF PwmInvariant
<1> USE DEF TypeOK
<1>0. Mots(ui64_usecEtatHaut) \in Usec64
  BY MotsType DEF PwmInv
<1>1. CASE iStart
  BY <1>0, <1>1 DEF iStart, rapport, sortie
<1>2. CASE SetRapportCyclique
  <2>1. PICK r \in Rapports :
          /\ dRapportCyclique' = Rapport(r)
          /\ ui64_usecEtatHaut' = EtatHaut(ui64_usec_Period, Rapport(r))
          /\ ui64_usecEtatBas' = ui64_usec_Period - EtatHaut(ui64_usec_Period, Rapport(r))
    BY <1>2 DEF SetRapportCyclique
  <2>2. /\ dRapportCyclique' \in 1..99
        /\ ui64_usecEtatHaut' \in Periodes /\ ui64_usecEtatBas' \in Periodes
    BY <2>1, EtatBasBorne, PwmAssumption
  <2> QED
    BY <1>2, <2>2 DEF SetRapportCyclique, minuteur
<1>3. CASE SetDureeBas
  <2>1. Mots(ui64_usecEtatHaut).bas \in 0..(Mot - 1)
    BY <1>0 DEF Usec64
  <2>2. duree' \in Usec64
    BY <1>3, <2>1 DEF SetDureeBas, Usec64
  <2> QED
    BY <1>3, <2>2 DEF SetDureeBas, minuteur, sortie
<1>4. CASE SetDureeHaut
  <2>1. Mots(ui64_usecEtatHaut).haut \in 0..(Mot - 1)
    BY <1>0 DEF Usec64
  <2>2. duree' \in Usec64
    BY <1>4, <2>1 DEF SetDureeHaut, Usec64
  <2> QED
    BY <1>4, <2>2 DEF SetDureeHaut, minuteur, sortie
<1>5. CASE iStop
  BY <1>5 DEF iStop, rapport, sortie
<1>6. CASE LireBas
  <2>1. lu' \in Usec64
    BY <1>6 DEF LireBas, Usec64
  <2> QED
    BY <1>6, <2>1 DEF LireBas, rapport, sortie
<1>7. CASE LireHaut
  <2>1. lu' \in Usec64
    BY <1>7 DEF LireHaut, Usec64
  <2> QED
    BY <1>7, <2>1 DEF LireHaut, rapport, sortie
<1>8. CASE GestionPwm
  <2>1. Valeur(lu) \in Nat
    <3>1. lu.haut \in Nat /\ lu.bas \in Nat
      BY PwmAssumption, SMT DEF Usec64
    <3>2. ASSUME NEW h \in Nat, NEW b \in Nat PROVE h * Mot + b \in Nat
      BY PwmAssumption, SMT
    <3> QED
      BY <3>1, <3>2 DEF Valeur
  <2>2. phase' \in [{0, 1} -> Nat]
    BY <1>8, <2>1 DEF GestionPwm
  <2>3. ucEtat' \in {0, 1}
    BY <1>8, SMT DEF GestionPwm
  <2> QED
    BY <1>8, <2>2, <2>3 DEF GestionPwm, rapport
<1>9. CASE GpioWrite
  BY <1>9 DEF GpioWrite, rapport
<1>10. CASE Repos \/ UNCHANGED vars
  BY <1>10 DEF Repos, vars, rapport, minuteur, sortie
<1> QED
  BY <1>1, <1>2, <1>3, <1>4, <1>5, <1>6, <1>7, <1>8, <1>9, <1>10
  DEF Next, Soleil, Minuteur

\* For all settings, the times stay within a period and the words within a word
\* (PwmGpio.cpp:58-67).
THEOREM PwmTypeOK == Spec => []TypeOK
<1>1. Init => PwmInvariant
  BY InitPwmInv, InitPwmTypeOK DEF PwmInvariant
<1>2. PwmInvariant /\ [Next]_vars => PwmInvariant'
  BY NextPwmInv, NextPwmTypeOK DEF PwmInvariant
<1>3. PwmInvariant => TypeOK
  BY DEF PwmInvariant
<1> QED
  BY <1>1, <1>2, <1>3, PTL DEF Spec
=============================================================================
