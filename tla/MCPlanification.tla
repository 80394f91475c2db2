-------------------------- MODULE MCPlanification --------------------------
(***************************************************************************)
(* Instances of Planification with the table that sInitPlanification       *)
(* fills, in ticks of one hour or of four.  UsecTick and Largeur are in    *)
(* units of 2^10 us for the first and 2^12 us for the second, which makes  *)
(* an hour, or four, exactly 3 515 625 units.                              *)
(***************************************************************************)
EXTENDS Planification, Parametres

Table(h) ==
  [n \in DOMAIN sInitPlanification |->
     [profil |-> sInitPlanification[n].profil,
      debut  |-> sInitPlanification[n].debut \div (h * HEURE),
      period |-> sInitPlanification[n].period \div (h * HEURE)]]

Table1h == Table(1)
Table4h == Table(4)

\* A start in the last hour of planning 1, or in the last hour before midnight,
\* during planning 2, is left to runs without lateness.
DepartSansBord == 0..18 \cup 20..22

\* With the clock put forward by up to two hours in between.
DepartSaut == 0..17 \cup 20..21

DepartTous == 0..(Jour - 1)

\* The clock is corrected by whole days, as on a board that booted with a wrong
\* date.
Reglage == {Jour}
=============================================================================
