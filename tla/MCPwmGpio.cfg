CONSTANTS
  MICRO_SEC = 100
  FreqMax = 5
  FreqDefaut = 2
  Freqs <- QuelquesFreqs
  Rapports <- QuelquesRapports
  Mot = 128
SPECIFICATION Spec
INVARIANT TypeOK
INVARIANT DureeEntiere
