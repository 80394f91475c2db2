CONSTANTS
  Planifs <- Table4h
  Jour = 6
  Annee = 2
  Fuseaux = {0}
  Depart = {2}
  Bascule = 1
  Sauts <- Reglage
  MaxSauts = 1
  Lag = 0
  UsecTick = 3515625
  Largeur = 1073741824
  ErreurSelect = FALSE
  NbTimers = 6
  NbProfils = 4
SPECIFICATION Spec
INVARIANT UnSeulParProfil
