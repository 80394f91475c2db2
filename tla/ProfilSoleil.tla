---------------------------- MODULE ProfilSoleil ----------------------------
(***************************************************************************)
(* The life of one CProfil (Profil.cpp), from its creation by a launcher's *)
(* callback to its automatic deletion, with the CSoleil it owns and the    *)
(* timer of that CSoleil's PWM.  Three threads run: the profile's, the     *)
(* sun's and the PWM timer's; the launcher starts the profile and a stop   *)
(* timer, or the main task when it ends, asks it to end.                   *)
(*                                                                         *)
(* The profile deletes its CSoleil after pthread_join (thread_id), where   *)
(* thread_id is its own: the call returns at once (Profil.cpp:77-82).      *)
(* The timer's Stop is in detail in Timer; here it is a check that the     *)
(* thread has started, a write to its pipe, and a join.                    *)
(***************************************************************************)
EXTENDS Naturals

CONSTANT Echecs   \* whether pipe, pthread_create and select may fail

ASSUME EchecsAssumption == Echecs \in BOOLEAN

VARIABLES
  valide,          \* stParamSoleil.ucValide
  lance,           \* CProfil::Start has been called
  demande,         \* SetArretThread (1): "non", "tot" before Create, or "oui"
  profil, ppc,     \* the CProfil and its thread
  soleil, spc,     \* its CSoleil and the sun's thread
  tpipe, tpc,      \* the PWM's timer: stop written to its pipe; its thread
  ub,              \* what made the behaviour undefined
  erreur,          \* history: the profile's select has failed
  attendu,         \* history: the sun's thread was over when the join returned
  perdu            \* history: a Stop came before the timer's m_bStarted, or
                   \* after its select failed

demandeurs == <<valide, lance, demande>>
minuteur   == <<tpipe, tpc>>
hist       == <<erreur, attendu, perdu>>
vars       == <<demandeurs, profil, ppc, soleil, spc, minuteur, ub, hist>>

CThread == [vivant : BOOLEAN, arret : {"indet", "0", "1", "2"},
            pipe : {"aucun", "vide", "plein"}]

ProfilPc == {"aucun", "ne", "entree", "creer", "boucle", "select", "sortie",
             "joindre", "dtor", "dtorjoin", "liberer", "fin", "fini"}
SoleilPc == {"aucun", "ne", "entree", "boucle", "select", "stop", "stopjoin",
             "fin", "fini"}
TimerPc  == {"aucun", "ne", "arme", "sort", "fini"}

\* The variables hold values of the kinds the code gives them; a profile whose
\* sun is not valid neither makes nor ends one.
TypeOK ==
  /\ valide \in BOOLEAN /\ lance \in BOOLEAN /\ demande \in {"non", "tot", "oui"}
  /\ profil \in CThread /\ ppc \in ProfilPc
  /\ soleil \in CThread /\ spc \in SoleilPc
  /\ ppc \in {"creer", "joindre", "dtor", "dtorjoin", "liberer"} => valide
  /\ tpipe \in BOOLEAN /\ tpc \in TimerPc
  /\ ub \in {"aucun", "profil", "soleil", "minuteur", "join"}
  /\ erreur \in BOOLEAN /\ attendu \in BOOLEAN /\ perdu \in BOOLEAN

-----------------------------------------------------------------------------
(***************************************************************************)
(* CThread.                                                                *)
(***************************************************************************)

Absent == [vivant |-> FALSE, arret |-> "indet", pipe |-> "aucun"]

\* CThread::CThread
Neuf == [Absent EXCEPT !.vivant = TRUE]

\* Mutant of SetArretThread: the pipe is not written to.
SetArretThreadSansPipe(o, v) == [o EXCEPT !.arret = v]

\* SetArretThread (v): the flag, and for a stop a write to the pipe if there
\* is one.
SetArretThread(o, v) ==
  [o EXCEPT !.arret = v,
            !.pipe = IF v # "0" /\ @ = "vide" THEN "plein" ELSE @]

\* CThread::Create makes the pipe, then the thread; either may fail.
Create(o) ==
  {[objet |-> [o EXCEPT !.pipe = "vide"], fil |-> "ne"]}
    \cup IF Echecs THEN [objet : {o, [o EXCEPT !.pipe = "vide"]}, fil : {"aucun"}]
         ELSE {}

-----------------------------------------------------------------------------
(***************************************************************************)
(* The launcher and the one that asks the profile to end.                  *)
(***************************************************************************)

Init ==
  /\ valide \in BOOLEAN /\ lance = FALSE /\ demande = "non"
  /\ profil = Neuf /\ ppc = "aucun"
  /\ soleil = Absent /\ spc = "aucun"
  /\ tpipe = FALSE /\ tpc = "aucun"
  /\ ub = "aucun" /\ erreur = FALSE /\ attendu = FALSE /\ perdu = FALSE

\* pTaskProfil->Start ()
Start ==
  /\ ~lance /\ lance' = TRUE
  /\ \E c \in Create(profil) : profil' = c.objet /\ ppc' = c.fil
  /\ UNCHANGED <<valide, demande, soleil, spc, minuteur, ub, hist>>

\* iStopProfil, or the end of the main task: SetArretThread (1) on a profile
\* that may have deleted itself
iStopProfil ==
  /\ demande = "non"
  /\ demande' = IF lance THEN "oui" ELSE "tot"
  /\ profil' = IF profil.vivant THEN SetArretThread(profil, "1") ELSE profil
  /\ ub' = IF profil.vivant THEN ub ELSE "profil"
  /\ UNCHANGED <<valide, lance, ppc, soleil, spc, minuteur, hist>>

-----------------------------------------------------------------------------
(***************************************************************************)
(* The profile's thread.                                                   *)
(***************************************************************************)

ProfilVa(de, a) == ppc = de /\ ppc' = a /\ UNCHANGED demandeurs

\* FctThread: SetArretThread (0)
PReset ==
  /\ ProfilVa("ne", "entree")
  /\ profil' = SetArretThread(profil, "0")
  /\ UNCHANGED <<soleil, spc, minuteur, ub, hist>>

\* Mutant of iStartProfil: ucValide is not looked at.
iStartProfilToujours ==
  /\ ProfilVa("entree", "creer")
  /\ soleil' = Neuf
  /\ UNCHANGED <<profil, spc, minuteur, ub, hist>>

\* iStartProfil: if (stParam.stParamSoleil.ucValide) pSoleil=new CSoleil (..)
iStartProfil ==
  /\ ProfilVa("entree", IF valide THEN "creer" ELSE "boucle")
  /\ soleil' = IF valide THEN Neuf ELSE soleil
  /\ UNCHANGED <<profil, spc, minuteur, ub, hist>>

\* pSoleil->Create()
CreerSoleil ==
  /\ ProfilVa("creer", "boucle")
  /\ \E c \in Create(soleil) : soleil' = c.objet /\ spc' = c.fil
  /\ UNCHANGED <<profil, minuteur, ub, hist>>

\* while(!cGetArretThread())
PBoucle ==
  /\ ProfilVa("boucle", IF profil.arret = "0" THEN "select" ELSE "sortie")
  /\ UNCHANGED <<profil, soleil, spc, minuteur, ub, hist>>

\* Mutant of PSelect: the loop is left after the first timeout.
PSelectUneFois ==
  /\ ProfilVa("select", "sortie")
  /\ UNCHANGED <<profil, soleil, spc, minuteur, ub, hist>>

\* select: the pipe is readable, or it times out, or it fails
PSelect ==
  /\ \/ profil.pipe = "plein" /\ ProfilVa("select", "sortie") /\ UNCHANGED erreur
     \/ profil.pipe = "vide" /\ ProfilVa("select", "boucle") /\ UNCHANGED erreur
     \/ Echecs /\ ProfilVa("select", "sortie") /\ erreur' = TRUE
  /\ UNCHANGED <<profil, soleil, spc, minuteur, ub, attendu, perdu>>

\* if (pSoleil) pSoleil->SetArretThread (1);
Prevenir ==
  /\ ProfilVa("sortie", IF soleil.vivant THEN "joindre" ELSE "fin")
  /\ soleil' = IF soleil.vivant THEN SetArretThread(soleil, "1") ELSE soleil
  /\ UNCHANGED <<profil, spc, minuteur, ub, hist>>

\* pthread_join(thread_id,NULL) by the thread thread_id, which is detached:
\* it returns an error at once.
Joindre ==
  /\ ProfilVa("joindre", "dtor")
  /\ attendu' = (spc \in {"aucun", "fini"})
  /\ UNCHANGED <<profil, soleil, spc, minuteur, ub, erreur, perdu>>

\* delete pSoleil: ~CTimer of its PWM, if (IsStarted()) Stop();
DtorTimer ==
  /\ ProfilVa("dtor", IF tpc = "arme" THEN "dtorjoin" ELSE "liberer")
  /\ tpipe' = IF tpc = "arme" THEN TRUE ELSE tpipe
  /\ perdu' = IF tpc \in {"ne", "sort"} /\ ~tpipe THEN TRUE ELSE perdu
  /\ UNCHANGED <<profil, soleil, spc, tpc, ub, erreur, attendu>>

\* pthread_join in the Stop of ~CTimer
DtorJoin ==
  /\ ProfilVa("dtorjoin", "liberer")
  /\ tpc = "fini"
  /\ UNCHANGED <<profil, soleil, spc, minuteur, ub, hist>>

\* The rest of delete pSoleil: its CThreads and its memory are gone.
Liberer ==
  /\ ProfilVa("liberer", "fin")
  /\ soleil' = [soleil EXCEPT !.vivant = FALSE, !.pipe = "aucun"]
  /\ UNCHANGED <<profil, spc, minuteur, ub, hist>>

\* FctThread: SetArretThread (2), then delete, as cAutoDelete is 1
PFin ==
  /\ ProfilVa("fin", "fini")
  /\ profil' = [SetArretThread(profil, "2") EXCEPT !.vivant = FALSE, !.pipe = "aucun"]
  /\ UNCHANGED <<soleil, spc, minuteur, ub, hist>>

-----------------------------------------------------------------------------
(***************************************************************************)
(* The sun's thread.                                                       *)
(***************************************************************************)

SoleilVa(de, a) ==
  soleil.vivant /\ spc = de /\ spc' = a /\ UNCHANGED <<demandeurs, profil, ppc>>

\* FctThread: SetArretThread (0)
SReset ==
  /\ SoleilVa("ne", "entree")
  /\ soleil' = SetArretThread(soleil, "0")
  /\ UNCHANGED <<minuteur, ub, hist>>

\* GestionCourbeSolaire.iStart (): the timer's Create
iStart ==
  /\ SoleilVa("entree", "boucle")
  /\ tpc' \in {"ne"} \cup IF Echecs THEN {tpc} ELSE {}
  /\ UNCHANGED <<soleil, tpipe, ub, hist>>

\* while(!cGetArretThread())
SBoucle ==
  /\ SoleilVa("boucle", IF soleil.arret = "0" THEN "select" ELSE "stop")
  /\ UNCHANGED <<soleil, minuteur, ub, hist>>

\* select: the pipe is readable; it times out and iGererCourbe () sets the
\* PWM; it fails
SSelect ==
  /\ \/ soleil.pipe = "plein" /\ SoleilVa("select", "stop")
     \/ soleil.pipe = "vide" /\ SoleilVa("select", "boucle")
     \/ Echecs /\ SoleilVa("select", "stop")
  /\ UNCHANGED <<soleil, minuteur, ub, hist>>

\* GestionCourbeSolaire.iStop (): m_TimerPwm.Stop ()
iStop ==
  /\ SoleilVa("stop", IF tpc = "arme" THEN "stopjoin" ELSE "fin")
  /\ tpipe' = IF tpc = "arme" THEN TRUE ELSE tpipe
  /\ perdu' = IF tpc \in {"ne", "sort"} /\ ~tpipe THEN TRUE ELSE perdu
  /\ UNCHANGED <<soleil, tpc, ub, erreur, attendu>>

\* Mutant of StopJoin: the timer's thread is not waited for.
StopJoinSans ==
  /\ SoleilVa("stopjoin", "fin")
  /\ UNCHANGED <<soleil, minuteur, ub, hist>>

\* pthread_join in Stop
StopJoin ==
  /\ SoleilVa("stopjoin", "fin")
  /\ tpc = "fini"
  /\ UNCHANGED <<soleil, minuteur, ub, hist>>

\* FctThread: SetArretThread (2); the CSoleil is not to delete itself
SFin ==
  /\ SoleilVa("fin", "fini")
  /\ soleil' = SetArretThread(soleil, "2")
  /\ UNCHANGED <<minuteur, ub, hist>>

-----------------------------------------------------------------------------
(***************************************************************************)
(* The timer's thread.                                                     *)
(***************************************************************************)

TimerVa(de, a) ==
  /\ soleil.vivant /\ tpc = de /\ tpc' = a
  /\ UNCHANGED <<demandeurs, profil, ppc, soleil, spc, tpipe, ub, hist>>

\* m_bStarted=true
TDebut == TimerVa("ne", "arme")

\* The pipe is readable, or select fails; m_bStarted = false
TSortie == (tpipe \/ Echecs) /\ TimerVa("arme", "sort")

\* FctThread: SetArretThread (2), pthread_exit
TFin == TimerVa("sort", "fini")

-----------------------------------------------------------------------------
(***************************************************************************)
(* Undefined behaviour: a thread goes on in what has been deleted; two     *)
(* threads join the same one.                                              *)
(***************************************************************************)
Perime ==
  /\ ~soleil.vivant
  /\ \/ spc \notin {"aucun", "fini"} /\ ub' = "soleil"
     \/ tpc \notin {"aucun", "fini"} /\ ub' = "minuteur"
  /\ UNCHANGED <<demandeurs, profil, ppc, soleil, spc, minuteur, hist>>

DoubleJoin ==
  /\ ppc = "dtorjoin" /\ spc = "stopjoin" /\ ub' = "join"
  /\ UNCHANGED <<demandeurs, profil, ppc, soleil, spc, minuteur, hist>>

ThreadProfil ==
  \/ PReset \/ iStartProfil \/ CreerSoleil \/ PBoucle \/ PSelect
  \/ Prevenir \/ Joindre \/ DtorTimer \/ DtorJoin \/ Liberer \/ PFin

ThreadSoleil ==
  SReset \/ iStart \/ SBoucle \/ SSelect \/ iStop \/ StopJoin \/ SFin

ThreadTimer == TDebut \/ TSortie \/ TFin

Defini == ub = "aucun"

\* Nothing is left to do, or nothing is modelled any more.
Repos ==
  /\ \/ ~Defini
     \/ lance /\ ppc \in {"aucun", "fini"} /\ demande # "non"
  /\ UNCHANGED vars

Next ==
  \/ Defini /\ Start
  \/ Defini /\ iStopProfil
  \/ Defini /\ ThreadProfil
  \/ Defini /\ ThreadSoleil
  \/ Defini /\ ThreadTimer
  \/ Defini /\ Perime
  \/ Defini /\ DoubleJoin
  \/ Repos

Spec == Init /\ [][Next]_vars

\* Every thread is scheduled; one that has gone astray does go on.
FairSpec ==
  /\ Spec
  /\ WF_vars(Defini /\ ThreadProfil) /\ WF_vars(Defini /\ ThreadSoleil)
  /\ WF_vars(Defini /\ ThreadTimer) /\ WF_vars(Defini /\ Perime)

-----------------------------------------------------------------------------
(***************************************************************************)
(* Properties.                                                             *)
(***************************************************************************)

\* When the sun's thread is over by the time the useless join returns, and no
\* Stop of the PWM's timer was ignored, the deletion of the CSoleil is sound:
\* no thread is left in it and none is joined twice.  It is the join alone
\* that is wrong (Profil.cpp:76-82, Timer.cpp:16-19, 89-105).
SuppressionSure ==
  ub \in {"soleil", "minuteur", "join"} => ~attendu \/ perdu

\* The profile deletes itself only after it was asked to end, so that the
\* stop timer, which keeps a pointer to it, does not call a deleted object,
\* unless select has failed (Profil.cpp:57-72, MainTache.cpp:246, 279-280).
ProfilAttendStop == ub = "profil" => erreur

\* A stop that comes once Create has made the pipe is never lost, even before
\* FctThread sets ArretThread to 0: the profile and the threads it owns end,
\* or its behaviour becomes undefined (Thread.h:33-40, Thread.cpp:29).
ArretAbouti ==
  demande = "oui" /\ ppc # "aucun" ~>
    \/ ~profil.vivant /\ spc \in {"aucun", "fini"} /\ tpc \in {"aucun", "fini"}
    \/ ~Defini
=============================================================================
