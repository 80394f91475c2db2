--------------------------- MODULE Planification ---------------------------
(***************************************************************************)
(* The planner, CMainTask (MainTache.cpp).  Once a UTC day its thread      *)
(* reads the table of plannings and starts, for each of them, a timer      *)
(* that will launch its profile: at the planning's start time, or at once  *)
(* when the planning is already under way.  The launcher's callback        *)
(* creates the CProfil, starts the timer that will stop it and starts the  *)
(* profile; that second timer's callback asks the profile to end.  Main    *)
(* thread and callbacks share two maps without a lock.                     *)
(*                                                                         *)
(* Time goes by in ticks.  select waits on the monotonic clock, time()     *)
(* reads the wall clock, gmtime gives the day and localtime the offset     *)
(* from midnight.  A thread with something to do may be late by Lag ticks. *)
(***************************************************************************)
EXTENDS Integers, FiniteSets

CONSTANTS
  Planifs,     \* stPlanifProfil: number -> [profil, debut, period]
  Jour,        \* ticks in a day
  Annee,       \* days after which tm_yday comes back to 0
  Fuseaux,     \* offsets of local time from UTC, in ticks
  Depart,      \* offsets from midnight at which the program may be started
  Bascule,     \* UTC time of day at which summer time begins and ends
  Sauts,       \* steps the wall clock may make (settimeofday, NTP)
  MaxSauts,    \* bound on clock steps and changes of time zone (DST)
  Lag,         \* bound on the ticks during which due work may wait
  UsecTick,    \* a tick in the unit of CTimer::Start's duration
  Largeur,     \* 2^w for the w-bit time_t product of MainTache.cpp:251
  ErreurSelect,\* whether the select of the main task or of a profile may fail
  NbTimers,    \* bound on the CTimer objects alive at once
  NbProfils    \* bound on the CProfil objects alive at once

Aucun == 0
Nums  == DOMAIN Planifs
Numeros == {Planifs[n].profil : n \in Nums}     \* ucNumeroProfil
Timers  == 1..NbTimers
Profils == 1..NbProfils
Siecle  == 0..(Annee * Jour - 1)

ASSUME PlanifsAssumption ==
  /\ IsFiniteSet(Nums) /\ Nums = 1..Cardinality(Nums) /\ Nums # {}
  /\ \A n \in Nums : /\ Planifs[n].profil \in Nat \ {0}
                     /\ Planifs[n].debut \in 0..(Jour - 1)
                     /\ Planifs[n].period \in 1..Jour
ASSUME TempsAssumption ==
  /\ Jour \in Nat \ {0} /\ Annee \in Nat \ {0, 1}
  /\ Fuseaux \subseteq 0..(Jour - 1) /\ Depart \subseteq 0..(Jour - 1)
  /\ Bascule \in 0..(Jour - 1) /\ Sauts \subseteq Int /\ MaxSauts \in Nat /\ Lag \in Nat
  /\ UsecTick \in Nat \ {0} /\ Largeur \in Nat \ {0}
  /\ ErreurSelect \in BOOLEAN
  /\ NbTimers \in Nat \ {0} /\ NbProfils \in Nat \ {0}

VARIABLES
  wall,            \* time (NULL)
  tz,              \* what localtime adds to it
  sauts,           \* clock steps and zone changes so far
  retard,          \* ticks for which due work has waited
  sLastDay,        \* CMainTask::sLastDay
  pc, num, off,    \* the main task: where it is, iNumPlanif, tOffsetMidnight;
                   \* num is the iterator's profile number while it cleans up
  neuf,            \* the launcher it has started and not yet put in the map,
                   \* then the stop timer that it is about to stop
  timers,          \* the CTimer objects
  mLanceurProfil,  \* planning number -> its launcher
  mStopProfil,     \* profile number -> its stop timer
  profils,         \* the CProfil objects
  ub               \* what made the program's behaviour undefined

horloge == <<wall, tz, sauts, retard>>
tache   == <<sLastDay, pc, num, off, neuf>>
maps    == <<mLanceurProfil, mStopProfil>>
vars    == <<horloge, tache, maps, timers, profils, ub>>

\* A timer is unused or over ("libre"; with auto, it has deleted itself),
\* waits, has run out (its callback is due), or is in the middle of the
\* launcher's callback.  "inerte": Start returned at once on 0 us;
\* "eternel": its duration is out of range and never runs out.
EtatTimer == {"libre", "arme", "expire", "rappel", "inerte", "eternel"}

Vierge == [etat |-> "libre", type |-> "start", num |-> 0, prof |-> Aucun,
           stop |-> Aucun, rem |-> 0, auto |-> FALSE]

Timer == [etat : EtatTimer, type : {"start", "stop"},
          num : {0} \cup Nums \cup Numeros, prof : Profils \cup {Aucun},
          stop : Timers \cup {Aucun}, rem : Nat, auto : BOOLEAN]

\* A CProfil is created, runs once its thread has started, has been told to
\* end, or has deleted itself without being told, because its select failed:
\* its stop timer still refers to it ("echoue").
EtatProfil == {"libre", "cree", "actif", "arret", "echoue"}

\* Why the behaviour is undefined: a callback erases an entry that is not in
\* its map; a deleted timer, profile or parameter block is used; two threads
\* are in one map at once.
Indefini == {"erase_lanceur", "erase_stop", "timer", "profil", "param", "course"}

\* The variables hold values of the kinds the code gives them.
TypeOK ==
  /\ wall \in Siecle /\ tz \in Fuseaux /\ sauts \in 0..MaxSauts
  /\ retard \in 0..Lag
  /\ sLastDay \in -1..(Annee - 1)
  /\ pc \in {"select", "offset", "plan", "insert",
              "fin", "fin2", "fin3", "sortie", "sorti"}
  /\ num \in {0} \cup Nums \cup Numeros /\ off \in 0..(Jour - 1)
  /\ neuf \in Timers \cup {Aucun}
  /\ timers \in [Timers -> Timer]
  /\ mLanceurProfil \in [Nums -> Timers \cup {Aucun}]
  /\ mStopProfil \in [Numeros -> Timers \cup {Aucun}]
  /\ profils \in [Profils -> [etat : EtatProfil, num : Numeros \cup {0}]]
  /\ ub \in Indefini \cup {"aucun"}

-----------------------------------------------------------------------------
(***************************************************************************)
(* Time.                                                                   *)
(***************************************************************************)

YDay == wall \div Jour                             \* gmtime (..)->tm_yday

tGetOffsetFromMidnight == (wall + tz) % Jour

DansFenetre(n, t) ==
  t \in Planifs[n].debut .. (Planifs[n].debut + Planifs[n].period - 1)

\* Mutant of DureeStop: the time already gone by is not taken off.
DureeStopEntiere(n) == [etat |-> "arme", rem |-> Planifs[n].period]

\* Mutant of DureeStop: it is added.
DureeStopSigne(n) ==
  [etat |-> "arme",
   rem |-> Planifs[n].period + (tGetOffsetFromMidnight - Planifs[n].debut)]

\* The time after which Start ((period - (offset - debut)) * MICRO_SEC) runs
\* out: the product is made in time_t, then converted to uint64_t.
DureeStop(n) ==
  LET us == ((Planifs[n].period - (tGetOffsetFromMidnight - Planifs[n].debut))
               * UsecTick) % Largeur
  IN  IF us = 0 THEN [etat |-> "inerte", rem |-> 0]
      ELSE IF us >= Largeur \div 2 THEN [etat |-> "eternel", rem |-> 0]
      ELSE IF us < UsecTick THEN [etat |-> "expire", rem |-> 0]
      ELSE [etat |-> "arme", rem |-> us \div UsecTick]

Fini(t) == [Vierge EXCEPT !.auto = timers[t].auto]

\* new CTimer () and new CProfil (..) give an object that nothing refers to.
Connus  == {mLanceurProfil[n] : n \in Nums} \cup {mStopProfil[k] : k \in Numeros}
           \cup {timers[t].stop : t \in Timers} \cup {neuf}
Libres  == {t \in Timers : timers[t].etat = "libre"} \ Connus
Libre   == CHOOSE t \in Libres : TRUE
PLibres == {q \in Profils : profils[q].etat = "libre"} \ {timers[t].prof : t \in Timers}
PLibre  == CHOOSE q \in PLibres : TRUE

\* Some thread has something to do now.
EnCours ==
  \/ pc \notin {"select", "sorti"}
  \/ pc = "select" /\ YDay # sLastDay
  \/ \E t \in Timers : timers[t].etat \in {"expire", "rappel"}
  \/ \E q \in Profils : profils[q].etat \in {"cree", "arret"}

Init ==
  /\ wall \in Siecle /\ tz \in Fuseaux /\ tGetOffsetFromMidnight \in Depart
  /\ sauts = 0 /\ retard = 0
  /\ sLastDay = -1 /\ pc = "select" /\ num = 0 /\ off = 0 /\ neuf = Aucun
  /\ timers = [t \in Timers |-> Vierge]
  /\ mLanceurProfil = [n \in Nums |-> Aucun]
  /\ mStopProfil = [k \in Numeros |-> Aucun]
  /\ profils = [q \in Profils |-> [etat |-> "libre", num |-> 0]]
  /\ ub = "aucun"

\* A tick goes by for the wall clock and for every wait.
Tick ==
  /\ EnCours => retard < Lag
  /\ retard' = IF EnCours THEN retard + 1 ELSE 0
  /\ wall' = (wall + 1) % (Annee * Jour)
  /\ timers' = [t \in Timers |->
       IF timers[t].etat # "arme" THEN timers[t]
       ELSE [timers[t] EXCEPT !.rem = @ - 1,
                              !.etat = IF timers[t].rem = 1 THEN "expire" ELSE "arme"]]
  /\ UNCHANGED <<tz, sauts, tache, maps, profils, ub>>

\* The wall clock is stepped; waits in select do not see it.
Saut ==
  /\ sauts < MaxSauts /\ sauts' = sauts + 1
  /\ \E d \in Sauts : wall' = (wall + d) % (Annee * Jour)
  /\ UNCHANGED <<tz, retard, tache, maps, timers, profils, ub>>

\* Summer time begins or ends.
ChangerHeure ==
  /\ sauts < MaxSauts /\ sauts' = sauts + 1
  /\ wall % Jour = Bascule /\ tz' \in Fuseaux \ {tz}
  /\ UNCHANGED <<wall, retard, tache, maps, timers, profils, ub>>

-----------------------------------------------------------------------------
(***************************************************************************)
(* CMainTask::Thread and iInitPlanification.                               *)
(***************************************************************************)

\* Mutant of ChangementDeJour: the plannings are made at the start only.
ChangementDeJourUnique ==
  /\ pc = "select" /\ sLastDay = -1
  /\ sLastDay' = YDay /\ pc' = "offset"
  /\ UNCHANGED <<num, off, neuf, horloge, maps, timers, profils, ub>>

\* if (stTmCourant->tm_yday!=sLastDay) sLastDay=stTmCourant->tm_yday;
ChangementDeJour ==
  /\ pc = "select" /\ YDay # sLastDay
  /\ sLastDay' = YDay /\ pc' = "offset"
  /\ UNCHANGED <<num, off, neuf, horloge, maps, timers, profils, ub>>

\* Mutant of LireOffset: the time is not taken from midnight.
LireOffsetBrut ==
  /\ pc = "offset" /\ pc' = "plan"
  /\ off' = wall + tz /\ num' = 1
  /\ UNCHANGED <<sLastDay, neuf, horloge, maps, timers, profils, ub>>

\* tOffsetMidnight=tGetOffsetFromMidnight (), read once for all plannings
LireOffset ==
  /\ pc = "offset" /\ pc' = "plan"
  /\ off' = tGetOffsetFromMidnight /\ num' = 1
  /\ UNCHANGED <<sLastDay, neuf, horloge, maps, timers, profils, ub>>

\* On to the next planning, or back to select after the last one.
Suivant ==
  /\ num' = IF num + 1 \in Nums THEN num + 1 ELSE 0
  /\ pc' = IF num + 1 \in Nums THEN "plan" ELSE "select"

Lanceur(n, duree, auto) ==
  [Vierge EXCEPT !.etat = IF duree = 0 THEN "expire" ELSE "arme",
                 !.type = "start", !.num = n, !.rem = duree, !.auto = auto]

\* What pOldTimer->Stop () leaves of a launcher found in the map.  One that
\* deletes itself is not joined: its thread may have deleted it before Stop
\* reads cAutoDelete and writes m_hObjetAttache; when it has run out already
\* it may also call back still, unless it sees the pipe or the NULL that Stop
\* leaves it.  A plain one is joined: if it calls back meanwhile, it erases the
\* entry that the planner is about to erase.  One that is over is left alone,
\* if it has not deleted itself.
ApresStop(t) ==
  CASE timers[t].etat = "arme" -> {"libre"} \cup (IF timers[t].auto THEN {"indefini"} ELSE {})
    [] timers[t].etat = "expire" -> {"libre", "indefini"}
                                      \cup (IF timers[t].auto THEN {"expire"} ELSE {})
    [] OTHER -> {IF timers[t].auto THEN "indefini" ELSE "libre"}

\* Mutant of PlanifierAvenir: the old launcher is not stopped.
PlanifierAvenirSansStop ==
  /\ pc = "plan" /\ Planifs[num].debut > off
  /\ Libres # {}
  /\ timers' = [timers EXCEPT ![Libre] = Lanceur(num, Planifs[num].debut - off, TRUE)]
  /\ pc' = "insert" /\ neuf' = Libre
  /\ UNCHANGED <<sLastDay, num, off, horloge, maps, profils, ub>>

\* The planning begins later today: its old launcher is stopped and taken out
\* of the map, a new one that deletes itself is started.
PlanifierAvenir ==
  LET ancien == mLanceurProfil[num] IN
  /\ pc = "plan" /\ Planifs[num].debut > off
  /\ Libres # {}
  /\ \E e \in IF ancien = Aucun THEN {"libre"} ELSE ApresStop(ancien) :
       \/ /\ e = "indefini" /\ ub' = "timer"
          /\ UNCHANGED <<pc, neuf, timers, mLanceurProfil>>
       \/ /\ e # "indefini" /\ UNCHANGED ub
          /\ timers' = [t \in Timers |->
               IF t = Libre THEN Lanceur(num, Planifs[num].debut - off, TRUE)
               ELSE IF t = ancien /\ e = "libre" THEN Fini(t)
               ELSE timers[t]]
          /\ mLanceurProfil' = [mLanceurProfil EXCEPT ![num] = Aucun]
          /\ pc' = "insert" /\ neuf' = Libre
  /\ UNCHANGED <<sLastDay, num, off, horloge, mStopProfil, profils>>

\* Mutant of PlanifierMaintenant: a planning under way is left for tomorrow.
PlanifierMaintenantJamais ==
  /\ pc = "plan" /\ DansFenetre(num, off) /\ Suivant
  /\ UNCHANGED <<sLastDay, off, neuf, horloge, maps, timers, profils, ub>>

\* The planning is under way: a plain launcher is started for 100 us.
PlanifierMaintenant ==
  /\ pc = "plan" /\ DansFenetre(num, off)
  /\ Libres # {}
  /\ timers' = [timers EXCEPT ![Libre] = Lanceur(num, 0, FALSE)]
  /\ pc' = "insert" /\ neuf' = Libre
  /\ UNCHANGED <<sLastDay, num, off, horloge, maps, profils, ub>>

\* The planning is over for today.
PlanifierPasse ==
  /\ pc = "plan" /\ Planifs[num].debut + Planifs[num].period <= off
  /\ Suivant
  /\ UNCHANGED <<sLastDay, off, neuf, horloge, maps, timers, profils, ub>>

\* mLanceurProfil [ucNumeroPlanif]=LanceTacheprofil, whatever was there
Inserer ==
  /\ pc = "insert"
  /\ mLanceurProfil' = [mLanceurProfil EXCEPT ![num] = neuf]
  /\ neuf' = Aucun /\ Suivant
  /\ UNCHANGED <<sLastDay, off, horloge, mStopProfil, timers, profils, ub>>

-----------------------------------------------------------------------------
(***************************************************************************)
(* The callbacks.                                                          *)
(***************************************************************************)

Du(t, type) == timers[t].etat = "expire" /\ timers[t].type = type

\* iStartProfil, up to StopTacheprofil->Start: the launcher takes itself out
\* of the map by its number, the profile and its stop timer are created.
LancerProfil(t) ==
  LET n == timers[t].num
      p == Planifs[n]
      d == DureeStop(n)
  IN
  /\ Du(t, "start") /\ mLanceurProfil[n] # Aucun
  /\ Libres # {} /\ PLibres # {}
  /\ mLanceurProfil' = [mLanceurProfil EXCEPT ![n] = Aucun]
  /\ profils' = [profils EXCEPT ![PLibre] = [etat |-> "cree", num |-> p.profil]]
  /\ timers' = [timers EXCEPT
       ![t] = [@ EXCEPT !.etat = "rappel", !.prof = PLibre, !.stop = Libre],
       ![Libre] = [Vierge EXCEPT !.etat = d.etat, !.rem = d.rem, !.type = "stop",
                                 !.num = p.profil, !.prof = PLibre]]
  /\ UNCHANGED <<tache, horloge, mStopProfil, ub>>

\* Mutant of DemarrerProfil: the stop timer is not put in the map.
DemarrerProfilSansMap(t) ==
  /\ timers[t].etat = "rappel"
  /\ profils' = [profils EXCEPT ![timers[t].prof].etat = "actif"]
  /\ timers' = [timers EXCEPT ![t] = Fini(t)]
  /\ UNCHANGED <<tache, horloge, maps, ub>>

\* The rest of iStartProfil: mStopProfil [ucNumeroProfil]=StopTacheprofil and
\* pTaskProfil->Start (); then the launcher's thread ends.
DemarrerProfil(t) ==
  LET u == timers[t].stop
      q == timers[t].prof
  IN
  /\ timers[t].etat = "rappel"
  /\ mStopProfil' = [mStopProfil EXCEPT ![profils[q].num] = u]
  /\ profils' = [profils EXCEPT ![q].etat = "actif"]
  /\ timers' = [timers EXCEPT ![t] = Fini(t)]
  /\ UNCHANGED <<tache, horloge, mLanceurProfil, ub>>

\* Mutant of ArreterProfil: SetArretThread (1) is forgotten.
ArreterProfilOubli(t) ==
  /\ Du(t, "stop") /\ mStopProfil[timers[t].num] # Aucun
  /\ mStopProfil' = [mStopProfil EXCEPT ![timers[t].num] = Aucun]
  /\ timers' = [timers EXCEPT ![t] = Fini(t)]
  /\ UNCHANGED <<tache, horloge, mLanceurProfil, profils, ub>>

\* fctStopProfil, iStopProfil: SetArretThread (1) on a profile whose thread
\* does not exist yet is forgotten when FctThread sets ArretThread to 0.
ArreterProfil(t) ==
  LET k == timers[t].num
      q == timers[t].prof
  IN
  /\ Du(t, "stop") /\ mStopProfil[k] # Aucun
  /\ profils[q].etat \notin {"libre", "echoue"} /\ ~(pc = "fin3" /\ num = k)
  /\ mStopProfil' = [mStopProfil EXCEPT ![k] = Aucun]
  /\ profils' = [profils EXCEPT ![q].etat = IF @ = "actif" THEN "arret" ELSE @]
  /\ timers' = [timers EXCEPT ![t] = Fini(t)]
  /\ UNCHANGED <<tache, horloge, mLanceurProfil, ub>>

\* The profile's thread leaves its loop and deletes the CProfil.
FinirProfil(q) ==
  /\ profils[q].etat = "arret"
  /\ profils' = [profils EXCEPT ![q] = [etat |-> "libre", num |-> 0]]
  /\ UNCHANGED <<tache, horloge, maps, timers, ub>>

\* The profile's select fails: its thread leaves the loop though nobody told
\* it to, and deletes the CProfil.
EchouerProfil(q) ==
  /\ ErreurSelect /\ profils[q].etat = "actif"
  /\ profils' = [profils EXCEPT ![q].etat = "echoue"]
  /\ UNCHANGED <<tache, horloge, maps, timers, ub>>

\* Undefined: erase (find ()) of a number that is not in the map, or is the one
\* the clean-up's iterator stands at, a stop of a profile that is gone, the
\* use of a parameter that the clean-up has deleted.
CallbackIndefini(t) ==
  /\ \/ Du(t, "start") /\ mLanceurProfil[timers[t].num] = Aucun
     \/ Du(t, "stop") /\ (\/ mStopProfil[timers[t].num] = Aucun
                          \/ profils[timers[t].prof].etat \in {"libre", "echoue"}
                          \/ pc = "fin3" /\ num = timers[t].num)
  /\ ub' = IF timers[t].type = "start" THEN "erase_lanceur"
           ELSE IF pc = "fin3" /\ t = neuf THEN "param"
           ELSE IF profils[timers[t].prof].etat \in {"libre", "echoue"} THEN "profil"
           ELSE "erase_stop"
  /\ UNCHANGED <<tache, horloge, maps, timers, profils>>

\* The threads that are about to use each map.
DansLanceur ==
  {t \in Timers : Du(t, "start")} \cup
  IF pc \in {"insert", "fin"} \/ (pc = "plan" /\ Planifs[num].debut > off)
  THEN {Aucun} ELSE {}

DansStop ==
  {t \in Timers : Du(t, "stop") \/ timers[t].etat = "rappel"} \cup
  IF pc \in {"fin2", "fin3"} THEN {Aucun} ELSE {}

\* Two of them do so at the same time: a data race.
Course ==
  /\ Cardinality(DansLanceur) > 1 \/ Cardinality(DansStop) > 1
  /\ ub' = "course"
  /\ UNCHANGED <<tache, horloge, maps, timers, profils>>

-----------------------------------------------------------------------------
(***************************************************************************)
(* The end of CMainTask::Thread, after select has failed.                  *)
(***************************************************************************)

\* else if(errno != EINTR) break;
Quitter ==
  /\ ErreurSelect /\ pc = "select" /\ pc' = "fin"
  /\ UNCHANGED <<sLastDay, num, off, neuf, horloge, maps, timers, profils, ub>>

\* Every launcher in the map is told to delete itself and stopped, without a
\* join: it may be deleted before Stop has returned.  One that has run out may
\* still call back, one that has deleted itself already is gone.
FinLanceurs ==
  LET connus == {mLanceurProfil[n] : n \in Nums} \ {Aucun} IN
  /\ pc = "fin" /\ pc' = "fin2"
  /\ \E tardifs \in SUBSET {t \in connus : Du(t, "start")} :
       timers' = [t \in Timers |->
         IF t \notin connus THEN timers[t]
         ELSE IF t \in tardifs THEN [timers[t] EXCEPT !.auto = TRUE]
         ELSE [Vierge EXCEPT !.auto = TRUE]]
  /\ mLanceurProfil' = [n \in Nums |-> Aucun]
  /\ ub' \in IF \E t \in connus : timers[t].etat = "libre" /\ timers[t].auto
             THEN {"timer"}
             ELSE IF \E t \in connus : timers[t].etat \in {"arme", "expire"}
             THEN {ub, "timer"} ELSE {ub}
  /\ UNCHANGED <<sLastDay, num, off, neuf, horloge, mStopProfil, profils>>

\* The entries of mStopProfil that the iterator has still to reach.
Reste == {k \in Numeros : num < k /\ mStopProfil[k] # Aucun}

\* The next profile whose stop timer is in the map and was given a parameter
\* is told to end, and the parameter is deleted.  The parameter of a timer that
\* is over is deleted already.
FinArret ==
  \E k \in Reste :
    LET u == mStopProfil[k]
        q == timers[u].prof
    IN
    /\ pc = "fin2" /\ \A j \in Reste : k <= j
    /\ pc' = "fin3" /\ num' = k /\ neuf' = u
    /\ ub' = IF timers[u].etat = "libre" THEN "param"
             ELSE IF timers[u].etat # "inerte" /\ profils[q].etat \in {"libre", "echoue"}
             THEN "profil" ELSE ub
    /\ profils' = [p \in Profils |->
         IF p = q /\ timers[u].etat # "inerte" /\ profils[p].etat = "actif"
         THEN [profils[p] EXCEPT !.etat = "arret"] ELSE profils[p]]
    /\ UNCHANGED <<sLastDay, off, horloge, maps, timers>>

\* Mutant of FinStop: the timer is not stopped.
FinStopSansStop ==
  /\ pc = "fin3" /\ pc' = "fin2" /\ neuf' = Aucun
  /\ UNCHANGED <<sLastDay, num, off, horloge, maps, timers, profils, ub>>

\* That timer is told to delete itself and stopped, without a join.  If it
\* waits, it may be deleted before Stop has returned; if it has run out, it may
\* also use the parameter that has just been deleted.
FinStop ==
  /\ pc = "fin3" /\ pc' = "fin2" /\ neuf' = Aucun
  /\ timers' = [timers EXCEPT ![neuf] = [Vierge EXCEPT !.auto = TRUE]]
  /\ ub' \in CASE timers[neuf].etat = "inerte" -> {ub}
              [] timers[neuf].etat = "expire" -> {ub, "timer", "param"}
              [] OTHER -> {ub, "timer"}
  /\ UNCHANGED <<sLastDay, num, off, horloge, maps, profils>>

\* mStopProfil.clear ()
FinMaps ==
  /\ pc = "fin2" /\ Reste = {} /\ pc' = "sortie" /\ num' = 0
  /\ mStopProfil' = [k \in Numeros |-> Aucun]
  /\ UNCHANGED <<sLastDay, off, neuf, horloge, mLanceurProfil, timers, profils, ub>>

\* Create (1) has joined the thread and main returns: every thread ends.
Sortir ==
  /\ pc = "sortie" /\ pc' = "sorti"
  /\ timers' = [t \in Timers |-> Vierge]
  /\ profils' = [q \in Profils |-> [etat |-> "libre", num |-> 0]]
  /\ mStopProfil' = [k \in Numeros |-> Aucun]
  /\ UNCHANGED <<sLastDay, num, off, neuf, horloge, mLanceurProfil, ub>>

-----------------------------------------------------------------------------
Vivant == pc # "sorti" /\ ub = "aucun"

TachePrincipale ==
  \/ ChangementDeJour \/ LireOffset
  \/ PlanifierAvenir \/ PlanifierMaintenant \/ PlanifierPasse \/ Inserer
  \/ FinLanceurs \/ FinArret \/ FinStop \/ FinMaps \/ Sortir

Rappels ==
  \E t \in Timers :
    LancerProfil(t) \/ DemarrerProfil(t) \/ ArreterProfil(t) \/ CallbackIndefini(t)

FinProfils   == \E q \in Profils : FinirProfil(q)
EchecProfils == \E q \in Profils : EchouerProfil(q)

\* Nothing more happens after an exit; nothing is modelled after undefined
\* behaviour, or once a bound on the number of objects is reached.
Repos == (~Vivant \/ Libres = {} \/ PLibres = {}) /\ UNCHANGED vars

Next ==
  \/ Vivant /\ (Tick \/ Saut \/ ChangerHeure)
  \/ Vivant /\ (TachePrincipale \/ Quitter)
  \/ Vivant /\ (Rappels \/ FinProfils \/ EchecProfils \/ Course)
  \/ Repos

Spec == Init /\ [][Next]_vars

\* Time goes by and every thread is scheduled.
FairSpec ==
  Spec /\ WF_vars(Vivant /\ Tick) /\ WF_vars(Vivant /\ TachePrincipale)
       /\ WF_vars(Vivant /\ Rappels) /\ WF_vars(Vivant /\ FinProfils)

-----------------------------------------------------------------------------
(***************************************************************************)
(* Properties.                                                             *)
(***************************************************************************)

\* The main task has not begun to clean up.
EnService == Vivant /\ pc \notin {"fin2", "fin3", "sortie"}

\* The CProfil objects that light profile number k.
Actifs(k) == {q \in Profils : profils[q].etat = "actif" /\ profils[q].num = k}

\* The launchers that are waiting or due for planning n.
Attendus(n) ==
  {t \in Timers : timers[t].type = "start" /\ timers[t].num = n
                    /\ timers[t].etat \in {"arme", "expire"}}

\* A profile runs in at most one CProfil: two would drive the same pin
\* (MainTache.cpp:198, 236).
UnSeulParProfil == \A k \in Numeros : Cardinality(Actifs(k)) <= 1

\* A planning has at most one pending launcher and the map knows it, so that
\* the next planning can replace it and its callback can erase it
\* (MainTache.cpp:161-171, 229).
UnLanceurParPlanif ==
  EnService => \A n \in Nums : Attendus(n) \ {neuf} \subseteq {mLanceurProfil[n]}

\* A running profile has a stop timer that is waiting or due, and it is the
\* one the map holds (MainTache.cpp:245-253).
StopPrevu ==
  EnService =>
    \A q \in Profils : profils[q].etat = "actif" =>
      \E t \in Timers : /\ timers[t].type = "stop" /\ timers[t].prof = q
                         /\ timers[t].etat \in {"arme", "expire"}
                         /\ mStopProfil[profils[q].num] = t

\* A stop timer that is waiting or due is alone in charge of its CProfil, and
\* that object has not been deleted, whatever the clock, the time zone and the
\* maps have become (MainTache.cpp:243, 277-280).  The code leaves two cases
\* open: the profile's own select has failed (Profil.cpp:70-72), and the
\* clean-up has told the profile to end but not yet stopped the timer
\* (MainTache.cpp:132-137).  A deleted profile is used in the first case only.
StopPropre ==
  /\ ub = "profil" => \E q \in Profils : profils[q].etat = "echoue"
  /\ \A t \in Timers :
       (timers[t].type = "stop" /\ timers[t].etat # "libre") =>
         /\ \/ profils[timers[t].prof].etat \in {"cree", "actif", "echoue"}
            \/ pc = "fin3" /\ t = neuf
         /\ \A u \in Timers : (timers[u].type = "stop" /\ timers[u].etat # "libre"
                                /\ timers[u].prof = timers[t].prof) => u = t

\* "le temps debut + period est plus grand le profil doit etre lance"
\* (MainTache.cpp:198): when nothing is due, a planning that began today and
\* is not over has its profile running.  A launcher may be late by Lag.
DoitEtreLance ==
  (Vivant /\ pc = "select" /\ ~EnCours) =>
    \A n \in Nums :
      (DansFenetre(n, tGetOffsetFromMidnight)
         /\ tGetOffsetFromMidnight >= Planifs[n].debut + Lag)
      => Actifs(Planifs[n].profil) # {}

\* The other way round: a profile runs only during its planning, which may
\* have begun the day before.
ArreteALaFin ==
  (Vivant /\ ~EnCours) =>
    \A n \in Nums : Actifs(Planifs[n].profil) # {} =>
      \E t \in {0, Jour} : DansFenetre(n, tGetOffsetFromMidnight + t)

\* Only what the code leaves open makes its behaviour undefined: two threads
\* in one map; a launcher calling back before the planner has put it in the map
\* (MainTache.cpp:186-187, 206-207); a launcher that waits or is due and deletes
\* itself while the planner stops it (Timer.cpp:96-103); the stop of a profile
\* whose select has failed (Profil.cpp:70-72); callbacks while the main task
\* cleans up (MainTache.cpp:114-141).  In particular the planner never stops a
\* launcher that has deleted itself already, and no stop timer is missing.
IndefiniSeulementCourse ==
  \/ ub \in {"aucun", "course"}
  \/ ub = "erase_lanceur" /\ pc = "insert" /\ Du(neuf, "start")
  \/ /\ ub = "timer" /\ pc = "plan" /\ mLanceurProfil[num] # Aucun
     /\ timers[mLanceurProfil[num]].auto
     /\ timers[mLanceurProfil[num]].etat \in {"arme", "expire"}
  \/ ub = "profil" /\ \E q \in Profils : profils[q].etat = "echoue"
  \/ pc \in {"fin2", "fin3", "sortie"}

\* Every planning is launched again and again, and every profile that runs is
\* stopped, unless the program exits or its behaviour becomes undefined.
LanceEtArrete ==
  \A k \in Numeros : /\ []<>(Actifs(k) # {} \/ ~Vivant)
                      /\ []<>(Actifs(k) = {} \/ ~Vivant)

\* Once in each planning, and not outside: launched and stopped by timers that
\* are made every day, a profile is never put out and lit again while its
\* planning lasts (MainTache.cpp:96-103, 158-207, 251).
J == INSTANCE Journee WITH
  heure <- tGetOffsetFromMidnight,
  allumes <- {k \in Numeros : Actifs(k) # {}}
UneFoisParPlanif == J!Spec
=============================================================================
