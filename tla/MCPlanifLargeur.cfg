CONSTANTS
  Planifs <- Table4h
  Jour = 6
  Annee = 2
  Fuseaux = {0}
  Depart <- DepartTous
  Bascule = 1
  Sauts = {}
  MaxSauts = 0
  Lag = 0
  UsecTick = 3515625
  Largeur = 1048576
  ErreurSelect = FALSE
  NbTimers = 6
  NbProfils = 4
SPECIFICATION Spec
INVARIANT DoitEtreLance
