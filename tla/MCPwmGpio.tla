----------------------------- MODULE MCPwmGpio -----------------------------
(* A second of 100 units, words of 7 bits. *)
EXTENDS PwmGpio

QuelquesFreqs    == {-1, 0, 1, 2, 5, 6}
QuelquesRapports == {0, 1, 25, 50, 99, 100}
=============================================================================
