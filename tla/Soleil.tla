------------------------------- MODULE Soleil -------------------------------
(***************************************************************************)
(* CSoleil (Soleil.cpp): the thread that follows the sun curve of profile  *)
(* 1.  It sleeps usIntervalleX seconds in select, finds the segment of the *)
(* curve that the time of day falls in, keeps its index for the next times *)
(* and gives the curve's value to the PWM as its duty cycle.               *)
(*                                                                         *)
(* Values of the curve are exact: y stands for 7200 y, which is            *)
(* 2 dA s + 3600 (2 dB) at s seconds from the start of the curve.          *)
(***************************************************************************)
EXTENDS Parametres, FiniteSetsExt

CONSTANTS
  Depart,   \* times of day at which the thread may begin
  Retard    \* bound on the seconds by which the thread wakes up late

ASSUME SoleilAssumption == Depart \subseteq 0..(JOUR - 1) /\ Retard \in Nat

VARIABLES
  off,             \* tGetOffsetFromMidnight () when the thread last woke up
  pc,              \* "debut", "select" (first sleep), "suit" or "fin"
  sIndexlSegment,  \* the segment kept for the next time, 0 for none (-1)
  usIntervalleX,   \* seconds to sleep
  seg,             \* the segment last used, 0 when there was none
  y,               \* the value last computed
  rapport, haut    \* dRapportCyclique and ui64_usecEtatHaut of the PWM

courbe == <<sIndexlSegment, usIntervalleX, seg, y, rapport, haut>>
vars   == <<off, pc, courbe>>

Segments == DOMAIN lSegment
Fin(i)   == lSegment[i].debut + lSegment[i].period
PerCent  == 7200                       \* one per cent, in the unit of y
Period   == 1000                       \* us: the PWM runs at 1 kHz

\* The variables hold values of the kinds the code gives them.
TypeOK ==
  /\ off \in 0..(JOUR + 60 + Retard) /\ pc \in {"debut", "select", "suit", "fin"}
  /\ sIndexlSegment \in 0..Len(Droites) /\ seg \in 0..Len(Droites)
  /\ usIntervalleX \in {1, 30, 60}
  /\ y \in Int /\ rapport \in 0..(100 * PerCent) /\ haut \in 0..Period

\* The segment the time t falls in, 0 if none.
Chercher(t) ==
  LET ici == {i \in Segments : lSegment[i].debut <= t /\ t < Fin(i)}
  IN  IF ici = {} THEN 0 ELSE Min(ici)

\* dA * dX + dB on segment i at time t
Affine(i, t) ==
  lSegment[i].a * (t - stEphemeride.debut) + 3600 * lSegment[i].b

\* Mutant of SetRapportCyclique: the percentage is taken for a fraction.
SetRapportCycliqueCent(v) ==
  /\ rapport' = IF 0 < v /\ v < 100 * PerCent THEN v ELSE 50 * PerCent
  /\ haut' = (Period * rapport') \div PerCent

\* CPwmGpio::SetRapportCyclique: 50 unless 0 < dRapport < 100
SetRapportCyclique(v) ==
  /\ rapport' = IF 0 < v /\ v < 100 * PerCent THEN v ELSE 50 * PerCent
  /\ haut' = (Period * rapport') \div (100 * PerCent)

\* Mutant of iGererCourbe: the segment is kept when its end has been reached.
iGererCourbeFige(t) ==
  LET i == IF sIndexlSegment = 0 THEN Chercher(t) ELSE sIndexlSegment IN
  /\ seg' = i
  /\ usIntervalleX' = IF i # 0 THEN lSegment[i].x ELSE usIntervalleX
  /\ IF i = 0 THEN UNCHANGED <<y, rapport, haut>>
              ELSE y' = Affine(i, t) /\ SetRapportCyclique(y')
  /\ sIndexlSegment' = i

\* Mutant of iGererCourbe: the duty cycle is not given to the PWM.
iGererCourbeMuet(t) ==
  LET i == IF sIndexlSegment = 0 THEN Chercher(t) ELSE sIndexlSegment IN
  /\ seg' = i
  /\ usIntervalleX' = IF sIndexlSegment = 0 /\ i # 0 THEN lSegment[i].x ELSE usIntervalleX
  /\ y' = IF i = 0 THEN y ELSE Affine(i, t)
  /\ sIndexlSegment' = IF i = 0 \/ t + lSegment[i].x >= Fin(i) THEN 0 ELSE i
  /\ UNCHANGED <<rapport, haut>>

\* CSoleil::iGererCourbe at time t
iGererCourbe(t) ==
  LET i == IF sIndexlSegment = 0 THEN Chercher(t) ELSE sIndexlSegment IN
  /\ seg' = i
  /\ usIntervalleX' = IF sIndexlSegment = 0 /\ i # 0 THEN lSegment[i].x ELSE usIntervalleX
  /\ IF i = 0 THEN UNCHANGED <<y, rapport, haut>>
              ELSE y' = Affine(i, t) /\ SetRapportCyclique(y')
  /\ sIndexlSegment' = IF i = 0 \/ t + lSegment[i].x >= Fin(i) THEN 0 ELSE i

\* CSoleil::CSoleil: the PWM is given 1 per cent
Init ==
  /\ off \in Depart /\ pc = "debut"
  /\ sIndexlSegment = 0 /\ usIntervalleX = 1 /\ seg = 0 /\ y = 0
  /\ rapport = 1 * PerCent /\ haut = Period \div 100

\* GestionCourbeSolaire.iStart ()
Demarrer == pc = "debut" /\ pc' = "select" /\ UNCHANGED <<off, courbe>>

\* select times out; the thread may be woken up late.
Reveil ==
  /\ pc \in {"select", "suit"} /\ pc' = "suit" /\ off < JOUR
  /\ \E r \in 0..Retard :
       off' = off + usIntervalleX + r /\ iGererCourbe(off')

\* SetArretThread (1) makes the pipe readable, or select fails: iStop ().
Arreter == pc \in {"select", "suit"} /\ pc' = "fin" /\ UNCHANGED <<off, courbe>>

Repos == pc = "fin" /\ UNCHANGED vars

Next == Demarrer \/ Reveil \/ Arreter \/ Repos

Spec == Init /\ [][Next]_vars

-----------------------------------------------------------------------------
\* The eight straight lines of the curve are those that bound it from above
\* ("courbe eclairage.wxm" draws them): at any time its value is the least of
\* theirs, whatever the segments' times say.
Courbe(t) == Min({Affine(i, t) : i \in Segments})

DansCourbe == pc = "suit" /\ off \in lSegment[1].debut .. (Fin(Len(Droites)) - 1)

\* From the first time the thread wakes up, each value it computes is on the
\* curve: a segment is found again after each one that ends, and an index kept
\* from the last time does no harm up to Retard seconds after the end of its
\* segment (Soleil.cpp:66-90).
CourbeSuivie == DansCourbe => seg # 0 /\ y = Courbe(off)

\* The PWM follows: its high time is never zero, on which the timer would
\* refuse to start or would spin, nor the whole period, and it is the curve's
\* except at the very top (PwmGpio.cpp:58-68).
HautSuivi ==
  DansCourbe =>
    /\ haut \in 1..(Period - 1)
    /\ y < 100 * PerCent => haut = (Period * Courbe(off)) \div (100 * PerCent)
=============================================================================
