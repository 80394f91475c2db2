------------------------------ MODULE MCSoleil ------------------------------
(* The thread begins just before, at and during the curve of profile 1. *)
EXTENDS Soleil

Departs == {8 * HEURE - 1, 8 * HEURE, 10 * HEURE + 59, 14 * HEURE - 31}
=============================================================================
