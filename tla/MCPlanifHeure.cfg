CONSTANTS
  Planifs <- Table1h
  Jour = 24
  Annee = 2
  Fuseaux = {1, 2}
  Depart <- DepartSaut
  Bascule = 1
  Sauts = {1}
  MaxSauts = 2
  Lag = 0
  UsecTick = 3515625
  Largeur = 1073741824
  ErreurSelect = TRUE
  NbTimers = 5
  NbProfils = 3
SPECIFICATION Spec
INVARIANT IndefiniSeulementCourse
INVARIANT UnSeulParProfil
INVARIANT StopPrevu
INVARIANT UnLanceurParPlanif
INVARIANT StopPropre
