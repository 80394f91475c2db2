-------------------------- MODULE ProfilSoleilProofs --------------------------
(***************************************************************************)
(* Proofs about ProfilSoleil: the deletion of the sun is sound but for the *)
(* wrong join, and a profile ends only when it is asked to, whether or not *)
(* the system's calls fail.                                                *)
(***************************************************************************)
EXTENDS ProfilSoleil, TLAPS

\* The profile's thread has left its loop.
Sortis == {"sortie", "joindre", "dtor", "dtorjoin", "liberer", "fin", "fini"}

\* It has passed the join, and the Stop of the timer's destructor.
Joints   == {"dtor", "dtorjoin", "liberer", "fin", "fini"}
Detruits == {"dtorjoin", "liberer", "fin", "fini"}

Calme == {"aucun", "fini"}

\* A stop is seen by the profile only after it was asked for, and the profile
\* leaves its loop only then or because select failed.
DemandeInv ==
  /\ ~lance => ppc = "aucun"
  /\ profil.arret = "1" \/ profil.pipe = "plein" => demande # "non"
  /\ ppc \notin {"aucun", "ne", "fini"} => profil.arret \in {"0", "1"}
  /\ profil.arret = "2" => ppc = "fini"
  /\ ppc \in Sortis => demande # "non" \/ erreur
  /\ ~profil.vivant => ppc = "fini"

\* Only a valid sun is made; where its and the timer's threads can be.
SoleilInv ==
  /\ soleil.vivant => valide
  /\ ppc \in {"aucun", "ne", "entree", "creer"} => spc = "aucun"
  /\ spc \in {"aucun", "ne", "entree"} => tpc = "aucun"
  /\ attendu => spc \in Calme /\ ppc \in Joints
  /\ tpipe => spc \in {"stopjoin", "fin", "fini"} \/ ppc \in Detruits

\* The sun's Stop, when it was not ignored, has left nothing of the timer; this
\* still holds when the sun was over before the profile went on to delete it.
TimerInv ==
  /\ spc \in {"fin", "fini"} /\ ppc \notin Detruits /\ ~perdu => tpc \in Calme
  /\ attendu /\ ~perdu => tpc \in Calme

\* The inductive invariant.
ProfilInv ==
  /\ TypeOK
  /\ DemandeInv
  /\ SoleilInv
  /\ TimerInv
  /\ SuppressionSure
  /\ ProfilAttendStop

-----------------------------------------------------------------------------
\* The constructor of the profile establishes the invariant.
LEMMA InitProfilInv == Init => ProfilInv
<1> SUFFICES ASSUME Init PROVE ProfilInv
  OBVIOUS
<1> USE DEF Init, Neuf, Absent
<1>1. TypeOK
  BY DEF TypeOK, CThread, ProfilPc, SoleilPc, TimerPc
<1>2. DemandeInv
  BY DEF DemandeInv, Sortis
<1>3. SoleilInv /\ TimerInv
  BY DEF SoleilInv, TimerInv, Detruits, Joints, Calme
<1>4. SuppressionSure /\ ProfilAttendStop
  BY DEF SuppressionSure, ProfilAttendStop
<1> QED
  BY <1>1, <1>2, <1>3, <1>4 DEF ProfilInv

\* What SetArretThread does to a CThread.
LEMMA SetArretFait ==
  ASSUME NEW o \in CThread, NEW v \in {"0", "1", "2"}
  PROVE  /\ SetArretThread(o, v) \in CThread
         /\ SetArretThread(o, v).vivant = o.vivant
         /\ SetArretThread(o, v).arret = v
         /\ SetArretThread(o, v).pipe = "plein" => o.pipe = "plein" \/ v # "0"
  BY DEF SetArretThread, CThread

\* What Create may give.
LEMMA CreateFait ==
  ASSUME NEW o \in CThread, NEW c \in Create(o)
  PROVE  /\ c.objet \in CThread /\ c.fil \in {"aucun", "ne"}
         /\ c.objet.vivant = o.vivant /\ c.objet.arret = o.arret
         /\ c.objet.pipe = "plein" => o.pipe = "plein"
  BY DEF Create, CThread

\* The steps of the launcher and of the stop timer keep it.
LEMMA DemandeursInv == ProfilInv /\ Defini /\ (Start \/ iStopProfil) => ProfilInv'
<1> SUFFICES ASSUME ProfilInv, Defini, (Start \/ iStopProfil) PROVE ProfilInv'
  OBVIOUS
<1> USE DEF ProfilInv, TypeOK, DemandeInv, SoleilInv, TimerInv, SuppressionSure,
            ProfilAttendStop, Defini, Sortis, Joints, Detruits, Calme, CThread,
            ProfilPc, SoleilPc, TimerPc, demandeurs, minuteur, hist
<1>1. CASE Start
  <2>0. PICK c \in Create(profil) : profil' = c.objet /\ ppc' = c.fil
    BY <1>1 DEF Start
  <2>00. /\ c.objet \in CThread /\ c.fil \in {"aucun", "ne"}
         /\ c.objet.vivant = profil.vivant /\ c.objet.arret = profil.arret
         /\ c.objet.pipe = "plein" => profil.pipe = "plein"
    BY CreateFait DEF TypeOK
  <2>1. TypeOK'
    BY <2>0, <2>00, <1>1 DEF Start
  <2>2. DemandeInv'
    BY <2>0, <2>00, <1>1 DEF Start
  <2>3. SoleilInv'
    BY <2>0, <2>00, <1>1 DEF Start
  <2>4. TimerInv'
    BY <2>0, <2>00, <1>1 DEF Start
  <2>5. SuppressionSure' /\ ProfilAttendStop'
    BY <2>0, <2>00, <1>1 DEF Start
  <2> QED
    BY <2>1, <2>2, <2>3, <2>4, <2>5
<1>2. CASE iStopProfil
  <2>0. /\ SetArretThread(profil, "1") \in CThread
        /\ SetArretThread(profil, "1").vivant = profil.vivant
        /\ SetArretThread(profil, "1").arret = "1"
    BY SetArretFait DEF TypeOK
  <2>1. TypeOK'
    BY <2>0, <1>2 DEF iStopProfil
  <2>2. DemandeInv'
    BY <2>0, <1>2 DEF iStopProfil
  <2>3. SoleilInv'
    BY <2>0, <1>2 DEF iStopProfil
  <2>4. TimerInv'
    BY <2>0, <1>2 DEF iStopProfil
  <2>5. SuppressionSure' /\ ProfilAttendStop'
    BY <2>0, <1>2 DEF iStopProfil
  <2> QED
    BY <2>1, <2>2, <2>3, <2>4, <2>5
<1> QED
  BY <1>1, <1>2

\* The steps of the profile's thread keep it.
LEMMA ThreadProfilInv == ProfilInv /\ Defini /\ ThreadProfil => ProfilInv'
<1> SUFFICES ASSUME ProfilInv, Defini, ThreadProfil PROVE ProfilInv'
  OBVIOUS
<1> USE DEF ProfilInv, TypeOK, DemandeInv, SoleilInv, TimerInv, SuppressionSure,
            ProfilAttendStop, Defini, Sortis, Joints, Detruits, Calme, CThread,
            ProfilPc, SoleilPc, TimerPc, demandeurs, minuteur, hist
<1>1. CASE PReset
  <2>0. /\ SetArretThread(profil, "0") \in CThread
        /\ SetArretThread(profil, "0").vivant = profil.vivant
        /\ SetArretThread(profil, "0").arret = "0"
        /\ SetArretThread(profil, "0").pipe = "plein" => profil.pipe = "plein"
    BY SetArretFait DEF TypeOK
  <2>1. TypeOK'
    BY <2>0, <1>1 DEF PReset, ProfilVa
  <2>2. DemandeInv'
    BY <2>0, <1>1 DEF PReset, ProfilVa
  <2>3. SoleilInv'
    BY <2>0, <1>1 DEF PReset, ProfilVa
  <2>4. TimerInv'
    BY <2>0, <1>1 DEF PReset, ProfilVa
  <2>5. SuppressionSure' /\ ProfilAttendStop'
    BY <2>0, <1>1 DEF PReset, ProfilVa
  <2> QED
    BY <2>1, <2>2, <2>3, <2>4, <2>5
<1>2. CASE iStartProfil
  <2>1. TypeOK'
    BY <1>2 DEF iStartProfil, ProfilVa, Neuf, Absent
  <2>2. DemandeInv'
    BY <1>2 DEF iStartProfil, ProfilVa, Neuf, Absent
  <2>3. SoleilInv'
    BY <1>2 DEF iStartProfil, ProfilVa, Neuf, Absent
  <2>4. TimerInv'
    BY <1>2 DEF iStartProfil, ProfilVa, Neuf, Absent
  <2>5. SuppressionSure' /\ ProfilAttendStop'
    BY <1>2 DEF iStartProfil, ProfilVa, Neuf, Absent
  <2> QED
    BY <2>1, <2>2, <2>3, <2>4, <2>5
<1>3. CASE CreerSoleil
  <2>0. PICK c \in Create(soleil) : soleil' = c.objet /\ spc' = c.fil
    BY <1>3 DEF CreerSoleil
  <2>00. /\ c.objet \in CThread /\ c.fil \in {"aucun", "ne"}
         /\ c.objet.vivant = soleil.vivant /\ c.objet.arret = soleil.arret
         /\ c.objet.pipe = "plein" => soleil.pipe = "plein"
    BY CreateFait DEF TypeOK
  <2>1. TypeOK'
    BY <2>0, <2>00, <1>3 DEF CreerSoleil, ProfilVa
  <2>2. DemandeInv'
    BY <2>0, <2>00, <1>3 DEF CreerSoleil, ProfilVa
  <2>3. SoleilInv'
    BY <2>0, <2>00, <1>3 DEF CreerSoleil, ProfilVa
  <2>4. TimerInv'
    BY <2>0, <2>00, <1>3 DEF CreerSoleil, ProfilVa
  <2>5. SuppressionSure' /\ ProfilAttendStop'
    BY <2>0, <2>00, <1>3 DEF CreerSoleil, ProfilVa
  <2> QED
    BY <2>1, <2>2, <2>3, <2>4, <2>5
<1>4. CASE PBoucle
  BY <1>4 DEF PBoucle, ProfilVa
<1>5. CASE PSelect
  <2>1. TypeOK'
    <3>1. erreur' \in BOOLEAN
      BY <1>5 DEF PSelect
    <3> QED
      BY <3>1, <1>5 DEF PSelect, ProfilVa
  <2>2. DemandeInv'
    BY <1>5 DEF PSelect, ProfilVa
  <2>3. SoleilInv'
    BY <1>5 DEF PSelect, ProfilVa
  <2>4. TimerInv'
    BY <1>5 DEF PSelect, ProfilVa
  <2>5. SuppressionSure' /\ ProfilAttendStop'
    BY <1>5 DEF PSelect, ProfilVa
  <2> QED
    BY <2>1, <2>2, <2>3, <2>4, <2>5
<1>6. CASE Prevenir
  <2>0. /\ SetArretThread(soleil, "1") \in CThread
        /\ SetArretThread(soleil, "1").vivant = soleil.vivant
        /\ SetArretThread(soleil, "1").arret = "1"
    BY SetArretFait DEF TypeOK
  <2>1. TypeOK'
    <3>1. soleil' \in CThread
      BY <2>0, <1>6 DEF Prevenir
    <3>2. ppc' \in ProfilPc
      BY <2>0, <1>6 DEF Prevenir, ProfilVa
    <3>3. ppc' \in {"creer", "joindre", "dtor", "dtorjoin", "liberer"} => valide
      BY <2>0, <1>6 DEF Prevenir, ProfilVa
    <3>4. UNCHANGED <<valide, lance, demande, profil, spc, tpipe, tpc, ub,
                     erreur, attendu, perdu>>
      BY <2>0, <1>6 DEF Prevenir, ProfilVa
    <3> QED
      BY <3>1, <3>2, <3>3, <3>4
  <2>2. DemandeInv'
    BY <2>0, <1>6 DEF Prevenir, ProfilVa
  <2>3. SoleilInv'
    BY <2>0, <1>6 DEF Prevenir, ProfilVa
  <2>4. TimerInv'
    BY <2>0, <1>6 DEF Prevenir, ProfilVa
  <2>5. SuppressionSure' /\ ProfilAttendStop'
    BY <2>0, <1>6 DEF Prevenir, ProfilVa
  <2> QED
    BY <2>1, <2>2, <2>3, <2>4, <2>5
<1>7. CASE Joindre
  <2>1. TypeOK'
    BY <1>7 DEF Joindre, ProfilVa
  <2>2. DemandeInv'
    BY <1>7 DEF Joindre, ProfilVa
  <2>3. SoleilInv'
    BY <1>7 DEF Joindre, ProfilVa
  <2>4. TimerInv'
    BY <1>7 DEF Joindre, ProfilVa
  <2>5. SuppressionSure' /\ ProfilAttendStop'
    BY <1>7 DEF Joindre, ProfilVa
  <2> QED
    BY <2>1, <2>2, <2>3, <2>4, <2>5
<1>8. CASE DtorTimer
  <2>1. TypeOK'
    <3>1. perdu' \in BOOLEAN /\ tpipe' \in BOOLEAN
      BY <1>8, Zenon DEF DtorTimer
    <3>2. ppc' \in ProfilPc /\ (ppc' \in {"creer", "joindre", "dtor", "dtorjoin", "liberer"} => valide)
      BY <1>8 DEF DtorTimer, ProfilVa
    <3>3. UNCHANGED <<valide, lance, demande, profil, soleil, spc, tpc, ub,
                     erreur, attendu>>
      BY <1>8 DEF DtorTimer, ProfilVa
    <3> QED
      BY <3>1, <3>2, <3>3
  <2>2. DemandeInv'
    BY <1>8 DEF DtorTimer, ProfilVa
  <2>3. SoleilInv'
    BY <1>8 DEF DtorTimer, ProfilVa
  <2>4. TimerInv'
    BY <1>8 DEF DtorTimer, ProfilVa
  <2>5. SuppressionSure' /\ ProfilAttendStop'
    BY <1>8 DEF DtorTimer, ProfilVa
  <2> QED
    BY <2>1, <2>2, <2>3, <2>4, <2>5
<1>9. CASE DtorJoin
  BY <1>9 DEF DtorJoin, ProfilVa
<1>10. CASE Liberer
  <2>1. TypeOK'
    <3>1. soleil' \in CThread
      BY <1>10 DEF Liberer
    <3> QED
      BY <3>1, <1>10 DEF Liberer, ProfilVa
  <2>2. DemandeInv'
    BY <1>10 DEF Liberer, ProfilVa
  <2>3. SoleilInv'
    BY <1>10 DEF Liberer, ProfilVa
  <2>4. TimerInv'
    BY <1>10 DEF Liberer, ProfilVa
  <2>5. SuppressionSure' /\ ProfilAttendStop'
    BY <1>10 DEF Liberer, ProfilVa
  <2> QED
    BY <2>1, <2>2, <2>3, <2>4, <2>5
<1>11. CASE PFin
  <2>0. /\ SetArretThread(profil, "2") \in CThread
        /\ SetArretThread(profil, "2").vivant = profil.vivant
        /\ SetArretThread(profil, "2").arret = "2"
    BY SetArretFait DEF TypeOK
  <2>1. TypeOK'
    <3>1. profil' \in CThread
      BY <2>0, <1>11 DEF PFin
    <3> QED
      BY <2>0, <3>1, <1>11 DEF PFin, ProfilVa
  <2>2. DemandeInv'
    BY <2>0, <1>11 DEF PFin, ProfilVa
  <2>3. SoleilInv'
    BY <2>0, <1>11 DEF PFin, ProfilVa
  <2>4. TimerInv'
    BY <2>0, <1>11 DEF PFin, ProfilVa
  <2>5. SuppressionSure' /\ ProfilAttendStop'
    BY <2>0, <1>11 DEF PFin, ProfilVa
  <2> QED
    BY <2>1, <2>2, <2>3, <2>4, <2>5
<1> QED
  BY <1>1, <1>2, <1>3, <1>4, <1>5, <1>6, <1>7, <1>8, <1>9, <1>10, <1>11 DEF ThreadProfil

\* The steps of the sun's thread keep it.
LEMMA ThreadSoleilInv == ProfilInv /\ Defini /\ ThreadSoleil => ProfilInv'
<1> SUFFICES ASSUME ProfilInv, Defini, ThreadSoleil PROVE ProfilInv'
  OBVIOUS
<1> USE DEF ProfilInv, TypeOK, DemandeInv, SoleilInv, TimerInv, SuppressionSure,
            ProfilAttendStop, Defini, Sortis, Joints, Detruits, Calme, CThread,
            ProfilPc, SoleilPc, TimerPc, demandeurs, minuteur, hist
<1>1. CASE SReset
  <2>0. /\ SetArretThread(soleil, "0") \in CThread
        /\ SetArretThread(soleil, "0").vivant = soleil.vivant
        /\ SetArretThread(soleil, "0").arret = "0"
        /\ SetArretThread(soleil, "0").pipe = "plein" => soleil.pipe = "plein"
    BY SetArretFait DEF TypeOK
  <2>1. TypeOK'
    BY <2>0, <1>1 DEF SReset, SoleilVa
  <2>2. DemandeInv'
    BY <2>0, <1>1 DEF SReset, SoleilVa
  <2>3. SoleilInv'
    BY <2>0, <1>1 DEF SReset, SoleilVa
  <2>4. TimerInv'
    BY <2>0, <1>1 DEF SReset, SoleilVa
  <2>5. SuppressionSure' /\ ProfilAttendStop'
    BY <2>0, <1>1 DEF SReset, SoleilVa
  <2> QED
    BY <2>1, <2>2, <2>3, <2>4, <2>5
<1>2. CASE iStart
  BY <1>2 DEF iStart, SoleilVa
<1>3. CASE SBoucle
  BY <1>3 DEF SBoucle, SoleilVa
<1>4. CASE SSelect
  BY <1>4 DEF SSelect, SoleilVa
<1>5. CASE iStop
  <2>1. TypeOK'
    <3>1. perdu' \in BOOLEAN /\ tpipe' \in BOOLEAN
      BY <1>5, Zenon DEF iStop
    <3>2. spc' \in SoleilPc
      BY <1>5 DEF iStop, SoleilVa
    <3>3. UNCHANGED <<valide, lance, demande, profil, ppc, soleil, tpc, ub,
                     erreur, attendu>>
      BY <1>5 DEF iStop, SoleilVa
    <3> QED
      BY <3>1, <3>2, <3>3
  <2>2. DemandeInv'
    BY <1>5 DEF iStop, SoleilVa
  <2>3. SoleilInv'
    BY <1>5 DEF iStop, SoleilVa
  <2>4. TimerInv'
    BY <1>5 DEF iStop, SoleilVa
  <2>5. SuppressionSure' /\ ProfilAttendStop'
    BY <1>5 DEF iStop, SoleilVa
  <2> QED
    BY <2>1, <2>2, <2>3, <2>4, <2>5
<1>6. CASE StopJoin
  BY <1>6 DEF StopJoin, SoleilVa
<1>7. CASE SFin
  <2>0. /\ SetArretThread(soleil, "2") \in CThread
        /\ SetArretThread(soleil, "2").vivant = soleil.vivant
        /\ SetArretThread(soleil, "2").arret = "2"
    BY SetArretFait DEF TypeOK
  <2>1. TypeOK'
    BY <2>0, <1>7 DEF SFin, SoleilVa
  <2>2. DemandeInv'
    BY <2>0, <1>7 DEF SFin, SoleilVa
  <2>3. SoleilInv'
    BY <2>0, <1>7 DEF SFin, SoleilVa
  <2>4. TimerInv'
    BY <2>0, <1>7 DEF SFin, SoleilVa
  <2>5. SuppressionSure' /\ ProfilAttendStop'
    BY <2>0, <1>7 DEF SFin, SoleilVa
  <2> QED
    BY <2>1, <2>2, <2>3, <2>4, <2>5
<1> QED
  BY <1>1, <1>2, <1>3, <1>4, <1>5, <1>6, <1>7 DEF ThreadSoleil

\* The steps of the timer's thread keep it.
LEMMA ThreadTimerInv == ProfilInv /\ Defini /\ ThreadTimer => ProfilInv'
<1> SUFFICES ASSUME ProfilInv, Defini, ThreadTimer PROVE ProfilInv'
  OBVIOUS
<1> USE DEF ProfilInv, TypeOK, DemandeInv, SoleilInv, TimerInv, SuppressionSure,
            ProfilAttendStop, Defini, Sortis, Joints, Detruits, Calme, CThread,
            ProfilPc, SoleilPc, TimerPc, demandeurs, minuteur, hist
<1>1. CASE TDebut
  BY <1>1 DEF TDebut, TimerVa
<1>2. CASE TSortie
  BY <1>2 DEF TSortie, TimerVa
<1>3. CASE TFin
  BY <1>3 DEF TFin, TimerVa
<1> QED
  BY <1>1, <1>2, <1>3 DEF ThreadTimer

\* Every step keeps it.
LEMMA NextProfilInv == ProfilInv /\ [Next]_vars => ProfilInv'
<1> SUFFICES ASSUME ProfilInv, [Next]_vars PROVE ProfilInv'
  OBVIOUS
<1> USE DEF ProfilInv, TypeOK, DemandeInv, SoleilInv, TimerInv, SuppressionSure,
            ProfilAttendStop, Sortis, Joints, Detruits, Calme, CThread,
            ProfilPc, SoleilPc, TimerPc, demandeurs, minuteur, hist
<1>1. CASE Defini /\ Start
  BY <1>1, DemandeursInv
<1>2. CASE Defini /\ iStopProfil
  BY <1>2, DemandeursInv
<1>3. CASE Defini /\ ThreadProfil
  BY <1>3, ThreadProfilInv
<1>4. CASE Defini /\ ThreadSoleil
  BY <1>4, ThreadSoleilInv
<1>5. CASE Defini /\ ThreadTimer
  BY <1>5, ThreadTimerInv
<1>6. CASE Defini /\ Perime
  BY <1>6 DEF Perime
<1>7. CASE Defini /\ DoubleJoin
  BY <1>7 DEF DoubleJoin
<1>8. CASE UNCHANGED vars
  BY <1>8 DEF vars
<1> QED
  BY <1>1, <1>2, <1>3, <1>4, <1>5, <1>6, <1>7, <1>8 DEF Next, Repos

-----------------------------------------------------------------------------
\* ProfilInv holds throughout.
THEOREM ProfilInvariant == Spec => []ProfilInv
  BY InitProfilInv, NextProfilInv, PTL DEF Spec

\* The two objects, the three threads and the history keep their types.
THEOREM ProfilTypeOK == Spec => []TypeOK
<1>1. ProfilInv => TypeOK
  BY DEF ProfilInv
<1> QED
  BY <1>1, ProfilInvariant, PTL

\* Had the profile waited for the sun's thread, the deletion of the CSoleil
\* would be sound unless a Stop is ignored (Profil.cpp:76-82).
THEOREM ProfilSuppressionSure == Spec => []SuppressionSure
<1>1. ProfilInv => SuppressionSure
  BY DEF ProfilInv
<1> QED
  BY <1>1, ProfilInvariant, PTL

\* No stop timer calls a profile that has deleted itself, unless that one's
\* select failed (Profil.cpp:57-72).
THEOREM ProfilAttendLeStop == Spec => []ProfilAttendStop
<1>1. ProfilInv => ProfilAttendStop
  BY DEF ProfilInv
<1> QED
  BY <1>1, ProfilInvariant, PTL
=============================================================================
