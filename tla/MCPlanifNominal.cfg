CONSTANTS
  Planifs <- Table1h
  Jour = 24
  Annee = 2
  Fuseaux = {0, 1, 2}
  Depart <- DepartSansBord
  Bascule = 1
  Sauts = {}
  MaxSauts = 0
  Lag = 1
  UsecTick = 3515625
  Largeur = 1073741824
  ErreurSelect = FALSE
  NbTimers = 5
  NbProfils = 3
SPECIFICATION FairSpec
INVARIANT TypeOK
INVARIANT IndefiniSeulementCourse
INVARIANT UnLanceurParPlanif
INVARIANT StopPrevu
INVARIANT DoitEtreLance
INVARIANT ArreteALaFin
PROPERTY LanceEtArrete
PROPERTY UneFoisParPlanif
