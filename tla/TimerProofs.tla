---------------------------- MODULE TimerProofs ----------------------------
(***************************************************************************)
(* Proofs about Timer: its type invariant, the properties of Stop and of   *)
(* the deletion of the object, and that it implements the safety part of   *)
(* TimerContrat, for every set of usages.                                  *)
(***************************************************************************)
EXTENDS Timer, TLAPS

\* m_bStarted holds exactly while CTimer::Thread is in its loop, and nobody
\* sets ArretThread between the two SetArretThread of FctThread.
StartedInv ==
  /\ started <=> tpc \in {"loop", "select", "check", "cb", "exit"}
  /\ tpc \in {"entry", "loop", "select", "check", "cb", "exit", "ended"} => arret = "0"

\* What the owner's program counter says of the object and of the thread.
OwnerInv ==
  /\ opc = "new" => tpc = "none" /\ ~demande
  /\ Periodic => ~autoDel
  /\ deleting => Periodic /\ opc \notin {"new", "held", "stopped"}
  /\ opc \in {"dtor", "free", "gone"} => deleting
  /\ opc = "clear" /\ ~autoDel => tpc = "done"
  /\ deleting /\ ~lost => ~Running

\* Who may have deleted the object, and what Stop leaves in the pipe.
ObjetInv ==
  /\ ~alive => opc = "gone" \/ (autoDel /\ tpc = "done")
  /\ demande => pipe \in {"full", "closed"}

\* A one-shot timer that has called back is on its way out.
OneShotInv ==
  ~Periodic => \/ fired = 0
               \/ fired = 1 /\ tpc \in {"cb", "exit", "ended", "auto", "done"}

\* The inductive invariant.
TimerInv ==
  /\ TypeOK
  /\ StartedInv
  /\ OwnerInv
  /\ ObjetInv
  /\ OneShotInv
  /\ StopSynchrone
  /\ UafOnlyAutoOrLost

-----------------------------------------------------------------------------
\* The constructor establishes the invariant.
LEMMA InitTimerInv == Init => TimerInv
<1> SUFFICES ASSUME Init PROVE TimerInv
  OBVIOUS
<1> USE DEF Init, Running, Periodic
<1>1. TypeOK
  <2>1. autoDel \in BOOLEAN
    BY Zenon
  <2>2. fired \in 0..FiredCap
    BY DEF FiredCap
  <2> QED
    BY <2>1, <2>2, Zenon DEF TypeOK, OwnerPc, ThreadPc
<1>2. StartedInv /\ OwnerInv
  BY DEF StartedInv, OwnerInv
<1>3. ObjetInv /\ OneShotInv
  BY DEF ObjetInv, OneShotInv
<1>4. StopSynchrone /\ UafOnlyAutoOrLost
  BY DEF StopSynchrone, UafOnlyAutoOrLost
<1> QED
  BY <1>1, <1>2, <1>3, <1>4 DEF TimerInv

\* Every step of the owner and of the thread keeps it.
LEMMA NextTimerInv == TimerInv /\ [Next]_vars => TimerInv'
<1> SUFFICES ASSUME TimerInv, [Next]_vars PROVE TimerInv'
  OBVIOUS
<1> USE DEF TimerInv, TypeOK, StartedInv, OwnerInv, ObjetInv, OneShotInv,
            StopSynchrone, UafOnlyAutoOrLost, Running, Periodic, OwnerPc,
            ThreadPc, FiredCap, owner, link, obj, hist
<1>1. CASE Start
  <2>1. TypeOK'
    BY <1>1 DEF Start, Create, OwnerGoes
  <2>2. StartedInv'
    BY <1>1 DEF Start, Create, OwnerGoes
  <2>3. OwnerInv'
    BY <1>1 DEF Start, Create, OwnerGoes
  <2>4. ObjetInv'
    BY <1>1 DEF Start, Create, OwnerGoes
  <2>5. OneShotInv'
    BY <1>1 DEF Start, Create, OwnerGoes
  <2>6. StopSynchrone'
    BY <1>1 DEF Start, Create, OwnerGoes
  <2>7. UafOnlyAutoOrLost'
    BY <1>1 DEF Start, Create, OwnerGoes
  <2> QED
    BY <2>1, <2>2, <2>3, <2>4, <2>5, <2>6, <2>7
<1>2. CASE CallStop
  BY <1>2 DEF CallStop, OwnerGoes, Reachable
<1>3. CASE CallAutoDeleteStop
  BY <1>3 DEF CallAutoDeleteStop, OwnerGoes, Reachable
<1>4. CASE StopCheck
  <2>1. TypeOK'
    BY <1>4 DEF StopCheck, OwnerGoes, Retour
  <2>2. StartedInv'
    BY <1>4 DEF StopCheck, OwnerGoes, Retour
  <2>3. OwnerInv'
    BY <1>4 DEF StopCheck, OwnerGoes, Retour
  <2>4. ObjetInv'
    BY <1>4 DEF StopCheck, OwnerGoes, Retour
  <2>5. OneShotInv'
    BY <1>4 DEF StopCheck, OwnerGoes, Retour
  <2>6. StopSynchrone'
    BY <1>4 DEF StopCheck, OwnerGoes, Retour
  <2>7. UafOnlyAutoOrLost'
    BY <1>4 DEF StopCheck, OwnerGoes, Retour
  <2> QED
    BY <2>1, <2>2, <2>3, <2>4, <2>5, <2>6, <2>7
<1>5. CASE StopWrite
  BY <1>5 DEF StopWrite, OwnerGoes
<1>6. CASE StopAfter
  BY <1>6 DEF StopAfter, OwnerGoes
<1>7. CASE StopJoin
  BY <1>7 DEF StopJoin, OwnerGoes
<1>8. CASE StopClear
  <2>1. TypeOK'
    BY <1>8 DEF StopClear, OwnerGoes, Retour
  <2>2. StartedInv'
    BY <1>8 DEF StopClear, OwnerGoes, Retour
  <2>3. OwnerInv'
    BY <1>8 DEF StopClear, OwnerGoes, Retour
  <2>4. ObjetInv'
    BY <1>8 DEF StopClear, OwnerGoes, Retour
  <2>5. OneShotInv'
    BY <1>8 DEF StopClear, OwnerGoes, Retour
  <2>6. StopSynchrone'
    BY <1>8 DEF StopClear, OwnerGoes, Retour
  <2>7. UafOnlyAutoOrLost'
    BY <1>8 DEF StopClear, OwnerGoes, Retour
  <2> QED
    BY <2>1, <2>2, <2>3, <2>4, <2>5, <2>6, <2>7
<1>9. CASE Delete
  BY <1>9 DEF Delete, OwnerGoes
<1>10. CASE DtorCheck
  BY <1>10 DEF DtorCheck, OwnerGoes
<1>11. CASE DtorFree
  BY <1>11 DEF DtorFree, OwnerGoes
<1>12. CASE OwnerUaf
  BY <1>12 DEF OwnerUaf, Reachable
<1>13. CASE FctReset
  BY <1>13 DEF FctReset, ThreadGoes
<1>14. CASE ThreadEntry
  <2>1. TypeOK'
    BY <1>14 DEF ThreadEntry, ThreadGoes
  <2>2. StartedInv'
    BY <1>14 DEF ThreadEntry, ThreadGoes
  <2>3. OwnerInv'
    BY <1>14 DEF ThreadEntry, ThreadGoes
  <2>4. ObjetInv'
    BY <1>14 DEF ThreadEntry, ThreadGoes
  <2>5. OneShotInv'
    BY <1>14 DEF ThreadEntry, ThreadGoes
  <2>6. StopSynchrone'
    BY <1>14 DEF ThreadEntry, ThreadGoes
  <2>7. UafOnlyAutoOrLost'
    BY <1>14 DEF ThreadEntry, ThreadGoes
  <2> QED
    BY <2>1, <2>2, <2>3, <2>4, <2>5, <2>6, <2>7
<1>15. CASE LoopCheck
  BY <1>15 DEF LoopCheck, ThreadGoes
<1>16. CASE SelectReadable
  BY <1>16 DEF SelectReadable, ThreadGoes
<1>17. CASE SelectTimeout
  BY <1>17 DEF SelectTimeout, ThreadGoes
<1>18. CASE SelectError
  BY <1>18 DEF SelectError, ThreadGoes
<1>19. CASE Callback
  BY <1>19 DEF Callback, ThreadGoes
<1>20. CASE CallbackReturn
  BY <1>20 DEF CallbackReturn, ThreadGoes
<1>21. CASE ThreadExit
  <2>1. TypeOK'
    BY <1>21 DEF ThreadExit, ThreadGoes
  <2>2. StartedInv'
    BY <1>21 DEF ThreadExit, ThreadGoes
  <2>3. OwnerInv'
    BY <1>21 DEF ThreadExit, ThreadGoes
  <2>4. ObjetInv'
    BY <1>21 DEF ThreadExit, ThreadGoes
  <2>5. OneShotInv'
    BY <1>21 DEF ThreadExit, ThreadGoes
  <2>6. StopSynchrone'
    BY <1>21 DEF ThreadExit, ThreadGoes
  <2>7. UafOnlyAutoOrLost'
    BY <1>21 DEF ThreadExit, ThreadGoes
  <2> QED
    BY <2>1, <2>2, <2>3, <2>4, <2>5, <2>6, <2>7
<1>22. CASE FctEnd
  BY <1>22 DEF FctEnd, ThreadGoes
<1>23. CASE FctAutoDelete
  BY <1>23 DEF FctAutoDelete, ThreadGoes
<1>24. CASE ThreadUaf
  BY <1>24 DEF ThreadUaf
<1>25. CASE UNCHANGED vars
  BY <1>25 DEF vars
<1> QED
  BY <1>1, <1>2, <1>3, <1>4, <1>5, <1>6, <1>7, <1>8, <1>9, <1>10, <1>11, <1>12, <1>13, <1>14, <1>15, <1>16, <1>17, <1>18, <1>19, <1>20, <1>21, <1>22, <1>23, <1>24, <1>25
  DEF Next, Owner, Thread, Stop, Repos

-----------------------------------------------------------------------------
\* TimerInv holds throughout: in particular the variables keep their types.
THEOREM TimerInvariant == Spec => []TimerInv
  BY InitTimerInv, NextTimerInv, PTL DEF Spec

\* CTimer keeps its variables well typed, whatever the usages.
THEOREM TimerTypeOK == Spec => []TypeOK
<1>1. TimerInv => TypeOK
  BY DEF TimerInv
<1> QED
  BY <1>1, TimerInvariant, PTL

\* When CTimer::Stop has returned, was not ignored and the timer does not
\* delete itself, the timer's thread is over (Timer.cpp:89-105).
THEOREM TimerStopSynchrone == Spec => []StopSynchrone
<1>1. TimerInv => StopSynchrone
  BY DEF TimerInv
<1> QED
  BY <1>1, TimerInvariant, PTL

\* The object is touched after its deletion only by a timer that deletes
\* itself or after an ignored Stop (Timer.cpp:16-19, Thread.cpp:33-38).
THEOREM TimerUafOnlyAutoOrLost == Spec => []UafOnlyAutoOrLost
<1>1. TimerInv => UafOnlyAutoOrLost
  BY DEF TimerInv
<1> QED
  BY <1>1, TimerInvariant, PTL

\* A one-shot timer calls back at most once (Timer.cpp:75-77).
THEOREM TimerOneShotOnce == Spec => []OneShotOnce
<1>1. TimerInv => OneShotOnce
  BY DEF TimerInv, OneShotInv, OneShotOnce
<1> QED
  BY <1>1, TimerInvariant, PTL

-----------------------------------------------------------------------------
(***************************************************************************)
(* Refinement.                                                             *)
(***************************************************************************)

\* A step that changes nothing a user of the timer can tell.
LEMMA EtatInchange ==
  ASSUME tpc' = tpc, alive' = alive, demande' = demande
  PROVE  UNCHANGED Contrat!vars
  BY DEF Contrat!vars, Etat, Tardif

\* Every step of the timer is a step of the contract, or changes nothing.
LEMMA PasContrat ==
  TimerInv /\ [Next]_vars => Contrat!Next \/ UNCHANGED Contrat!vars
<1> SUFFICES ASSUME TimerInv, [Next]_vars
             PROVE  Contrat!Next \/ UNCHANGED Contrat!vars
  OBVIOUS
<1>t. demande \in BOOLEAN /\ alive \in BOOLEAN
  BY DEF TimerInv, TypeOK
<1>1. CASE Start
  <2>1. tpc = "none" /\ ~demande /\ demande' = demande /\ tpc' \in {"none", "born"}
    BY <1>1 DEF Start, Create, OwnerGoes, hist, TimerInv, OwnerInv
  <2>2. alive /\ alive'
    BY <1>1 DEF Start, Create, OwnerGoes
  <2>3. Etat = "repos" /\ Etat' \in {"repos", "arme"}
    BY <2>1, <2>2 DEF Etat
  <2>4. Tardif = FALSE /\ Tardif' = FALSE
    BY <2>1 DEF Tardif
  <2> QED
    BY <2>1, <2>3, <2>4 DEF Contrat!Next, Contrat!Demarrer, Contrat!vars
<1>2. CASE CallStop \/ CallAutoDeleteStop \/ StopCheck \/ StopAfter \/ StopJoin
           \/ StopClear \/ Delete \/ DtorCheck \/ OwnerUaf \/ ThreadUaf
  BY <1>2, EtatInchange
  DEF CallStop, CallAutoDeleteStop, StopCheck, StopAfter, StopJoin, StopClear,
      Delete, DtorCheck, OwnerUaf, ThreadUaf, OwnerGoes, obj, hist
<1>3. CASE StopWrite
  <2>1. tpc' = tpc /\ alive' = alive /\ demande'
    BY <1>3 DEF StopWrite, OwnerGoes, obj
  <2>2. CASE demande
    BY <2>1, <2>2, EtatInchange, <1>3 DEF StopWrite
  <2>3. CASE ~demande
    <3>1. Etat' = Etat
      BY <2>1 DEF Etat
    <3>2. Tardif' => Etat = "arme"
      BY <2>1 DEF Etat, Tardif
    <3>3. Tardif' \in BOOLEAN
      BY DEF Tardif
    <3>4. Tardif' \in (IF Etat = "arme" THEN BOOLEAN ELSE {FALSE})
      BY <3>2, <3>3
    <3> QED
      BY <1>3, <2>3, <3>1, <3>4 DEF Contrat!Next, Contrat!Arreter, StopWrite
  <2> QED
    BY <2>2, <2>3
<1>4. CASE DtorFree
  <2>1. tpc' = tpc /\ demande' = demande /\ ~alive'
    BY <1>4 DEF DtorFree, hist
  <2>2. Etat' = IF tpc = "none" THEN "repos" ELSE "fini"
    BY <2>1 DEF Etat
  <2>3. Tardif' = FALSE
    BY <2>1 DEF Tardif
  <2>4. CASE Etat \in {"arme", "rappel"}
    <3>1. tpc # "none"
      BY <2>4 DEF Etat
    <3> QED
      BY <2>1, <2>2, <2>3, <2>4, <3>1 DEF Contrat!Next, Contrat!Finir
  <2>5. CASE Etat \notin {"arme", "rappel"}
    <3>1. Etat' = Etat
      BY <2>2, <2>5 DEF Etat
    <3>2. Tardif = FALSE
      BY <2>5 DEF Etat, Tardif
    <3> QED
      BY <2>1, <2>3, <3>1, <3>2 DEF Contrat!vars
  <2> QED
    BY <2>4, <2>5
<1>5. CASE FctReset \/ ThreadEntry \/ CallbackReturn \/ SelectReadable
           \/ ThreadExit \/ FctEnd
  <2>1. demande' = demande /\ alive /\ alive'
    BY <1>5 DEF FctReset, ThreadEntry, CallbackReturn, SelectReadable, ThreadExit,
       FctEnd, ThreadGoes, obj, hist
  <2>2. \/ Etat' = Etat
        \/ Etat \in {"arme", "rappel"} /\ Etat' = "fini"
        \/ Etat = "rappel" /\ Etat' = "arme"
    BY <1>5, <2>1 DEF FctReset, ThreadEntry, CallbackReturn, SelectReadable,
       ThreadExit, FctEnd, ThreadGoes, Etat
  <2>3. Tardif = FALSE /\ Tardif' = FALSE
    BY <1>5, <2>1 DEF FctReset, ThreadEntry, CallbackReturn, SelectReadable,
       ThreadExit, FctEnd, ThreadGoes, Tardif
  <2> QED
    BY <2>1, <2>2, <2>3 DEF Contrat!Next, Contrat!Finir, Contrat!Reprendre, Contrat!vars
<1>6. CASE LoopCheck \/ SelectError
  <2>1. demande' = demande /\ alive /\ alive'
    BY <1>6 DEF LoopCheck, SelectError, ThreadGoes, obj, hist
  <2>2. Etat = "arme" /\ Etat' \in {"arme", "fini"}
    BY <1>6, <2>1 DEF LoopCheck, SelectError, ThreadGoes, Etat
  <2>3. Tardif = FALSE /\ Tardif' = FALSE
    BY <1>6, <2>1 DEF LoopCheck, SelectError, ThreadGoes, Tardif
  <2> QED
    BY <2>1, <2>2, <2>3 DEF Contrat!Next, Contrat!Finir, Contrat!vars
<1>7. CASE SelectTimeout
  <2>1. demande' = demande /\ ~demande /\ alive /\ alive'
    BY <1>7 DEF SelectTimeout, ThreadGoes, obj, hist, TimerInv, ObjetInv
  <2>2. Etat = "arme" /\ Etat' = "arme"
    BY <1>7, <2>1 DEF SelectTimeout, ThreadGoes, Etat
  <2>3. Tardif = FALSE /\ Tardif' = FALSE
    BY <1>7, <2>1 DEF SelectTimeout, ThreadGoes, Tardif
  <2> QED
    BY <2>1, <2>2, <2>3 DEF Contrat!vars
<1>8. CASE Callback
  <2>1. demande' = demande /\ alive /\ alive' /\ tpc = "check" /\ tpc' = "cb"
    <3>1. arret = "0"
      BY <1>8 DEF Callback, ThreadGoes, TimerInv, StartedInv
    <3> QED
      BY <1>8, <3>1 DEF Callback, ThreadGoes, obj
  <2>2. Etat = "arme" /\ Etat' = "rappel" /\ Tardif' = FALSE /\ (demande => Tardif)
    BY <2>1 DEF Etat, Tardif
  <2> QED
    BY <2>1, <2>2 DEF Contrat!Next, Contrat!Rappeler
<1>9. CASE FctAutoDelete
  <2>1. demande' = demande /\ alive /\ tpc = "auto" /\ tpc' = "done"
    BY <1>9 DEF FctAutoDelete, ThreadGoes, hist
  <2>2. Etat = "fini" /\ Etat' = "fini"
    BY <2>1 DEF Etat
  <2>3. Tardif = FALSE /\ Tardif' = FALSE
    BY <2>1 DEF Tardif
  <2> QED
    BY <2>1, <2>2, <2>3 DEF Contrat!vars
<1>10. CASE Repos \/ UNCHANGED vars
  BY <1>10, EtatInchange DEF Repos, vars, obj, hist
<1> QED
  BY <1>1, <1>2, <1>3, <1>4, <1>5, <1>6, <1>7, <1>8, <1>9, <1>10
  DEF Next, Owner, Thread, Stop

\* The safety part of TimerImplementsContrat: the timer does nothing that its
\* contract does not allow, in particular at most one callback after a stop
\* has been written to its pipe (Timer.cpp:59-79, 89-105).
THEOREM TimerRefinesContrat ==
  Spec => Contrat!Init /\ [][Contrat!Next]_(Contrat!vars)
<1>1. Init => Contrat!Init
  BY DEF Init, Contrat!Init, Etat, Tardif
<1> QED
  BY <1>1, PasContrat, TimerInvariant, PTL DEF Spec
=============================================================================
