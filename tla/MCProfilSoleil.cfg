CONSTANT Echecs = TRUE
SPECIFICATION FairSpec
INVARIANT TypeOK
INVARIANT SuppressionSure
INVARIANT ProfilAttendStop
PROPERTY ArretAbouti
