----------------------------- MODULE Parametres -----------------------------
(***************************************************************************)
(* The parameters that CParametreApplication (BaseSqlite.cpp) gives to the *)
(* program: the table of plannings and the sun curve of profile 1.  Times  *)
(* are in seconds.  The coefficients of the curve are multiples of one     *)
(* half, and are kept doubled.                                             *)
(***************************************************************************)
EXTENDS Integers, Sequences

HEURE == 3600
JOUR  == 24 * HEURE

\* stPlanifProfil; entry i has ucNumeroPlanif i
sInitPlanification ==
  << [profil |-> 1, debut |-> 8 * HEURE,  period |-> 12 * HEURE],
     [profil |-> 2, debut |-> 20 * HEURE, period |-> 12 * HEURE] >>

\* stEphemeride of the sun of profile 1
stEphemeride == [debut |-> 8 * HEURE, period |-> 12 * HEURE]

\* Hours, usIntervalleX in seconds, 2 * dA and 2 * dB of each segment
Droites ==
  << [h |-> 1, x |-> 1,  a |-> 75,  b |-> 25],
     [h |-> 2, x |-> 1,  a |-> 30,  b |-> 70],
     [h |-> 2, x |-> 60, a |-> 15,  b |-> 115],
     [h |-> 1, x |-> 30, a |-> 10,  b |-> 140],
     [h |-> 1, x |-> 30, a |-> -10, b |-> 260],
     [h |-> 2, x |-> 60, a |-> -15, b |-> 295],
     [h |-> 2, x |-> 1,  a |-> -30, b |-> 430],
     [h |-> 1, x |-> 1,  a |-> -75, b |-> 925] >>

\* Each segment begins where the one before it ends.
Debuts[i \in 1..Len(Droites)] ==
  IF i = 1 THEN stEphemeride.debut ELSE Debuts[i - 1] + Droites[i - 1].h * HEURE

\* lSegment of the profile's stCourbeSolaire, numbered from 1
lSegment ==
  [i \in 1..Len(Droites) |->
     [debut |-> Debuts[i], period |-> Droites[i].h * HEURE,
      x |-> Droites[i].x, a |-> Droites[i].a, b |-> Droites[i].b]]
=============================================================================
