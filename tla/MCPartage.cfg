CONSTANTS
  Planifs <- Table1h
  Eclaires = {1}
  Jour = 24
  Fuseaux = {0, 1, 2}
  Etes = {0, 1}
  Duree = 49
SPECIFICATION Spec
INVARIANT TypeOK
INVARIANT HeureDuPlan
INVARIANT EcartBorne
INVARIANT ParametresEntiers
PROPERTY JourUtc
