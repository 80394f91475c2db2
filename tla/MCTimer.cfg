CONSTANT Usages <- AllUsages
SPECIFICATION FairSpec
INVARIANT TypeOK
INVARIANT StopSynchrone
INVARIANT UafOnlyAutoOrLost
INVARIANT OneShotOnce
PROPERTY StopRevient
PROPERTY TimerImplementsContrat
