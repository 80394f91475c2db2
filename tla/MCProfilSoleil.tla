--------------------------- MODULE MCProfilSoleil ---------------------------
(* One profile, with and without a sun. *)
EXTENDS ProfilSoleil
=============================================================================
