------------------------------ MODULE Journee ------------------------------
(***************************************************************************)
(* What the planner promises of a day: a profile is lit in one of its      *)
(* plannings only, stays lit until that planning is over, and is put out   *)
(* at most Lag ticks after its end.                                        *)
(***************************************************************************)
EXTENDS Integers

CONSTANTS
  Planifs,   \* number -> [profil, debut, period]
  Jour,      \* ticks in a day
  Lag        \* ticks by which the planner may be late

VARIABLES
  heure,     \* the time of day
  allumes    \* the profiles that are lit

vars == <<heure, allumes>>

\* The profiles with a planning under way at t or over for less than r ticks;
\* the planning began today, or the day before.
Permis(t, r) ==
  {Planifs[n].profil : n \in {m \in DOMAIN Planifs : \E u \in {t, t + Jour} :
     u \in Planifs[m].debut .. (Planifs[m].debut + Planifs[m].period - 1 + r)}}

Init == heure \in 0..(Jour - 1) /\ allumes = {}

Allumer(k)  == k \in Permis(heure, 0) \ allumes /\ allumes' = allumes \cup {k}
Eteindre(k) == k \in allumes \ Permis(heure, 0) /\ allumes' = allumes \ {k}

Avancer ==
  /\ allumes \subseteq Permis(heure, Lag)
  /\ heure' = (heure + 1) % Jour /\ UNCHANGED allumes

Next ==
  \/ Avancer
  \/ \E k \in Permis(heure, 0) \cup allumes : (Allumer(k) \/ Eteindre(k)) /\ UNCHANGED heure

Spec == Init /\ [][Next]_vars
=============================================================================
