---------------------------- MODULE TimerContrat ----------------------------
(***************************************************************************)
(* What a CTimer promises to the code that uses it, without its thread,    *)
(* pipe and flags: once started it may call back; once a stop has been     *)
(* taken into account it calls back at most once more, when its wait had   *)
(* already run out at that moment, and it ends.                            *)
(***************************************************************************)
VARIABLES
  etat,     \* "repos", "arme" (waiting), "rappel" (calling back), "fini"
  arrete,   \* a stop has been taken into account
  tardif    \* the wait had run out when it was: one call back is still due

vars == <<etat, arrete, tardif>>

Init == etat = "repos" /\ arrete = FALSE /\ tardif = FALSE

Demarrer ==
  /\ etat = "repos" /\ etat' = "arme"
  /\ UNCHANGED <<arrete, tardif>>

Arreter ==
  /\ ~arrete /\ arrete' = TRUE
  /\ tardif' \in (IF etat = "arme" THEN BOOLEAN ELSE {FALSE})
  /\ UNCHANGED etat

Rappeler ==
  /\ etat = "arme" /\ (arrete => tardif)
  /\ etat' = "rappel" /\ tardif' = FALSE
  /\ UNCHANGED arrete

Reprendre ==
  /\ etat = "rappel" /\ etat' = "arme"
  /\ UNCHANGED <<arrete, tardif>>

Finir ==
  /\ etat \in {"arme", "rappel"} /\ etat' = "fini"
  /\ tardif' = FALSE
  /\ UNCHANGED arrete

Next == Demarrer \/ Arreter \/ Rappeler \/ Reprendre \/ Finir

\* A stopped timer ends: nothing may keep it waiting or calling back for ever.
Spec == Init /\ [][Next]_vars /\ WF_vars(arrete /\ Finir)
=============================================================================
