-------------------------- MODULE MCPlanifNominal --------------------------
(***************************************************************************)
(* The day without surprises: a steady clock, in each of three time zones. *)
(* The table, the zones and the starts leave the margins under which       *)
(* PlanifHoraireProofs proves the properties that this instance checks.    *)
(***************************************************************************)
EXTENDS MCPlanification, PlanifHoraireProofs

ASSUME DansLesMarges == Marges
=============================================================================
