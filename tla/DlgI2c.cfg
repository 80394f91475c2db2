CONSTANTS
  Bits = {0, 1}
  TAILLE_BUF = 2
  MaxActivations = 1
  SeuilZero = 2
  CharSigne = FALSE
SPECIFICATION FairSpec
INVARIANT TypeOK
INVARIANT AnneauxExacts
INVARIANT DonneePresente
INVARIANT ChaineUnique
PROPERTY EffaceApresStockage
PROPERTY PerteAvantLecture
PROPERTY Servi
