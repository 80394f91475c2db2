----------------------------- MODULE MCPartage -----------------------------
(***************************************************************************)
(* Partage with the table that sInitPlanification fills, in ticks of one   *)
(* hour; profile 1 has a sun.                                              *)
(***************************************************************************)
EXTENDS Partage, Parametres

Table1h ==
  [n \in DOMAIN sInitPlanification |->
     [profil |-> sInitPlanification[n].profil,
      debut  |-> sInitPlanification[n].debut \div HEURE,
      period |-> sInitPlanification[n].period \div HEURE]]
=============================================================================
