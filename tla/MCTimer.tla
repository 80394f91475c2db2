------------------------------ MODULE MCTimer ------------------------------
(* Model checking of Timer with the three usages of the program. *)
EXTENDS Timer

AllUsages == {"pwm", "auto", "plain"}
=============================================================================
