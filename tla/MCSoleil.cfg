CONSTANTS
  Depart <- Departs
  Retard = 1
SPECIFICATION Spec
INVARIANT TypeOK
INVARIANT CourbeSuivie
INVARIANT HautSuivi
