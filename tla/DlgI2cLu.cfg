CONSTANTS
  Bits = {0, 1}
  TAILLE_BUF = 3
  MaxActivations = 1
  SeuilZero = 2
  CharSigne = FALSE
SPECIFICATION Spec
INVARIANT ToutLu
