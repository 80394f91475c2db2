------------------------------ MODULE Partage ------------------------------
(***************************************************************************)
(* What the threads of the program share without a lock, outside the maps  *)
(* of Planification: the struct tm that gmtime and localtime fill and      *)
(* return (MainTache.cpp:94-99, General.cpp:26-48) and the parameters,     *)
(* which the main thread clears and fills again every UTC day while a      *)
(* launcher may be copying them (BaseSqlite.cpp:11-32, Profil.cpp:22-37).  *)
(*                                                                         *)
(* The program is right only because its threads meet at some hours and    *)
(* not at others.  Time goes by in ticks.  Every thread finishes what it   *)
(* does in the tick in which it starts, and no reading of the local time,  *)
(* nor a row of them, lasts from one wake-up of the main thread, every     *)
(* second, to the next (MainTache.cpp:85).                                 *)
(***************************************************************************)
EXTENDS Integers, FiniteSets

CONSTANTS
  Planifs,   \* stPlanifProfil: number -> [profil, debut, period]
  Eclaires,  \* the profiles with a sun, stParamSoleil.ucValide
  Jour,      \* ticks in a day
  Fuseaux,   \* offsets of local time from UTC, in ticks, summer time included
  Etes,      \* what summer time adds, 0 in winter: the shift tm_isdst stands for
  Duree      \* bound on the ticks of a behaviour

Nums    == DOMAIN Planifs
Numeros == {Planifs[n].profil : n \in Nums}
Principal == 0                              \* the thread of CMainTask
Soleil    == Cardinality(Nums) + 1          \* the thread of a CSoleil
Threads   == Nums \cup {Principal, Soleil}  \* and the launchers

ASSUME PartageAssumption ==
  /\ IsFiniteSet(Nums) /\ Nums = 1..Cardinality(Nums) /\ Nums # {}
  /\ IsFiniteSet(Numeros) /\ Numeros = 1..Cardinality(Numeros)
  /\ \A n \in Nums : Planifs[n].debut \in 0..(Jour - 1) /\ Planifs[n].period \in 1..Jour
  /\ Eclaires \subseteq Numeros
  /\ Jour \in Nat \ {0} /\ Duree \in Nat /\ Jour <= Duree
  /\ Fuseaux \subseteq 0..(Jour - 1) /\ Etes \subseteq Nat

VARIABLES
  wall, tz,   \* time (NULL), and what localtime adds to it
  ete,        \* the part of tz that is summer time
  stTm,       \* libc's struct tm: the hour, the day and the shift of tm_isdst
  verrou,     \* the thread inside libc's lock, which readers do not take
  pc,         \* where each thread is
  lu,         \* what each thread that reads the local time has copied of stTm
  sLastDay,
  num,        \* iNumProfil of sInitProfil
  param,      \* profile number -> whether its parameters are there
  copie,      \* the profiles that a CProfil has copied when they were not
  dus,        \* the launchers that are due today and have not called back
  soleil,     \* until when a CSoleil runs: the last stop of a lit profile
  ecart       \* by how much the offset that each thread has read is wrong

tm    == <<stTm, verrou, lu>>
zone  == <<tz, ete>>
reste == <<wall, zone, sLastDay, num, param, copie, dus, soleil>>
vars  == <<tm, pc, ecart, reste>>

Utc   == [heure |-> wall % Jour, jour |-> wall \div Jour, ete |-> 0]
Local == [heure |-> (wall + tz) % Jour, jour |-> (wall + tz) \div Jour, ete |-> ete]

\* The variables hold values of the kinds the code gives them.
Tm == [heure : 0..(Jour - 1), jour : Nat, ete : {0, ete}]
TypeOK ==
  /\ wall \in 0..Duree /\ tz \in Fuseaux /\ ete \in Etes
  /\ stTm \in Tm /\ verrou \in Threads \cup {-1} /\ lu \in [Threads -> Tm]
  /\ pc \in [Threads -> {"repos", "gmtime", "gmtime2", "gmtime3", "yday", "change",
                         "efface", "remplit", "localtime", "localtime2", "localtime3",
                         "minuit", "mktime", "rend"}]
  /\ sLastDay \in Nat \cup {-1} /\ num \in 0..Cardinality(Numeros)
  /\ param \in [Numeros -> BOOLEAN]
  /\ copie \subseteq Numeros /\ dus \subseteq Nums /\ soleil \in Int
  /\ ecart \in [Threads -> Int]

DansFenetre(n, t) ==
  t \in Planifs[n].debut .. (Planifs[n].debut + Planifs[n].period - 1)

\* A CSoleil runs until its profile is stopped, included.
Ensoleille == wall <= soleil

Vide == [heure |-> 0, jour |-> 0, ete |-> 0]

Init ==
  /\ wall \in 0..(Jour - 1) /\ tz \in Fuseaux /\ ete \in Etes /\ ete <= tz
  /\ stTm = Vide /\ verrou = -1
  /\ pc = [x \in Threads |-> IF x = Principal THEN "gmtime" ELSE "repos"]
  /\ lu = [x \in Threads |-> Vide]
  /\ sLastDay = -1 /\ num = 0 /\ param = [k \in Numeros |-> TRUE] /\ copie = {} /\ dus = {}
  /\ soleil = -1 /\ ecart = [x \in Threads |-> 0]

-----------------------------------------------------------------------------
(***************************************************************************)
(* libc.  The fields of stTm are written one after the other under a lock; *)
(* the callers read them without it.                                       *)
(***************************************************************************)

Aller(x, ou) == pc' = [pc EXCEPT ![x] = ou]

EcrireEte(x, t) == verrou = -1 /\ verrou' = x /\ stTm' = [stTm EXCEPT !.ete = t.ete]
EcrireHeure(t)  == UNCHANGED verrou /\ stTm' = [stTm EXCEPT !.heure = t.heure]
EcrireJour(t)   == verrou' = -1 /\ stTm' = [stTm EXCEPT !.jour = t.jour]

gmtime ==
  /\ \/ pc[Principal] = "gmtime"  /\ EcrireEte(Principal, Utc) /\ Aller(Principal, "gmtime2")
     \/ pc[Principal] = "gmtime2" /\ EcrireHeure(Utc) /\ Aller(Principal, "gmtime3")
     \/ pc[Principal] = "gmtime3" /\ EcrireJour(Utc)  /\ Aller(Principal, "yday")
  /\ UNCHANGED <<lu, ecart, reste>>

localtime(x) ==
  /\ \/ pc[x] = "localtime"  /\ EcrireEte(x, Local)  /\ Aller(x, "localtime2")
     \/ pc[x] = "localtime2" /\ EcrireHeure(Local) /\ Aller(x, "localtime3")
     \/ pc[x] = "localtime3" /\ EcrireJour(Local)  /\ Aller(x, "minuit")
  /\ UNCHANGED <<lu, ecart, reste>>

\* mktime reads the hour as winter or summer time by tm_isdst, which the caller
\* leaves as it is: the assignment of -1 is commented out (General.cpp:42).
Instant(t) == t.jour * Jour + t.heure - t.ete

\* It puts the fields right, by the time that is in use.
Normaliser(t) ==
  LET n == Instant(t) + ete IN [heure |-> n % Jour, jour |-> n \div Jour, ete |-> ete]

\* Mutant of Minuit: the hour is put to 0 in stTm itself, not in a copy.
MinuitSurPlace(x) ==
  /\ pc[x] = "minuit" /\ Aller(x, "mktime")
  /\ stTm' = [stTm EXCEPT !.heure = 0] /\ lu' = [lu EXCEPT ![x] = stTm']
  /\ UNCHANGED <<verrou, ecart, reste>>

\* stTmMidnight=*stTmCourant; stTmMidnight.tm_hour=0;
Minuit(x) ==
  /\ pc[x] = "minuit" /\ Aller(x, "mktime")
  /\ lu' = [lu EXCEPT ![x] = [stTm EXCEPT !.heure = 0]]
  /\ UNCHANGED <<stTm, verrou, ecart, reste>>

\* mktime (stTmCourant)-mktime (&stTmMidnight)
Mktime(x) ==
  /\ pc[x] = "mktime" /\ Aller(x, "rend")
  /\ lu' = [lu EXCEPT ![x] = stTm]
  /\ ecart' = [ecart EXCEPT ![x] = Instant(stTm) - Instant(lu[x]) - Local.heure]
  /\ UNCHANGED <<stTm, verrou, reste>>

\* mktime writes back into stTm what it has read there, put right; the variables
\* of tGetOffsetFromMidnight are gone.
Rendre(x, ou) ==
  /\ pc[x] = "rend" /\ stTm' = Normaliser(lu[x]) /\ UNCHANGED verrou /\ Aller(x, ou)
  /\ lu' = [lu EXCEPT ![x] = Vide] /\ ecart' = [ecart EXCEPT ![x] = 0]

-----------------------------------------------------------------------------
(***************************************************************************)
(* The main thread.                                                        *)
(***************************************************************************)

\* Every second, when the readings that the last wake-up met are over, and so are
\* those of the plannings found under way, which are launched after 100 us
\* (MainTache.cpp:85, 206).
Reveil ==
  /\ \A x \in Threads : pc[x] = "repos"
  /\ \A n \in dus : Planifs[n].debut = Local.heure
  /\ Aller(Principal, "gmtime")
  /\ UNCHANGED <<tm, ecart, reste>>

\* Mutant of Comparer: the parameters are read again every second.
ComparerJamais ==
  /\ pc[Principal] = "yday" /\ Aller(Principal, "change")
  /\ UNCHANGED <<tm, ecart, reste>>

\* if (stTmCourant->tm_yday!=sLastDay)
Comparer ==
  /\ pc[Principal] = "yday"
  /\ Aller(Principal, IF stTm.jour # sLastDay THEN "change" ELSE "repos")
  /\ UNCHANGED <<tm, ecart, reste>>

\* sLastDay=stTmCourant->tm_yday, which is read a second time
Changer ==
  /\ pc[Principal] = "change" /\ Aller(Principal, "efface")
  /\ sLastDay' = stTm.jour /\ num' = 1
  /\ UNCHANGED <<wall, zone, tm, param, copie, dus, soleil, ecart>>

\* Mutant of pstInit: one profile too many is filled.
pstInitUnDePlus ==
  /\ \/ /\ pc[Principal] = "efface" /\ Aller(Principal, "remplit")
        /\ param' = [param EXCEPT ![num] = FALSE] /\ UNCHANGED num
     \/ /\ pc[Principal] = "remplit" /\ param' = [param EXCEPT ![num] = TRUE]
        /\ IF num \in Numeros THEN num' = num + 1 /\ Aller(Principal, "efface")
           ELSE num' = 0 /\ Aller(Principal, "localtime")
  /\ UNCHANGED <<wall, zone, tm, sLastDay, copie, dus, soleil, ecart>>

\* pstInit: each profile's parameters are cleared, then filled.
pstInit ==
  /\ \/ /\ pc[Principal] = "efface" /\ Aller(Principal, "remplit")
        /\ param' = [param EXCEPT ![num] = FALSE] /\ UNCHANGED num
     \/ /\ pc[Principal] = "remplit" /\ param' = [param EXCEPT ![num] = TRUE]
        /\ IF num + 1 \in Numeros THEN num' = num + 1 /\ Aller(Principal, "efface")
           ELSE num' = 0 /\ Aller(Principal, "localtime")
  /\ UNCHANGED <<wall, zone, tm, sLastDay, copie, dus, soleil, ecart>>

\* iInitPlanification: the plannings under way are launched at once, the
\* others when their time comes.
Planifier ==
  /\ Rendre(Principal, "repos")
  /\ dus' = dus \cup {n \in Nums : DansFenetre(n, Local.heure + ecart[Principal])}
  /\ UNCHANGED <<wall, zone, sLastDay, num, param, copie, soleil>>

-----------------------------------------------------------------------------
(***************************************************************************)
(* The launchers and the sun.                                              *)
(***************************************************************************)

\* iStartProfil: the new CProfil copies its parameters, then the offset is read.
LancerProfil(n) ==
  /\ n \in dus /\ dus' = dus \ {n}
  /\ copie' = IF param[Planifs[n].profil] THEN copie ELSE copie \cup {Planifs[n].profil}
  /\ Aller(n, "localtime")
  /\ UNCHANGED <<wall, zone, tm, sLastDay, num, param, soleil, ecart>>

\* A time that wall never reaches.
Toujours == Duree + 2 * Jour

\* When the timer that iStartProfil starts stops the profile, by the offset that
\* the launcher has read.  Start refuses a time of 0, and a negative one is a
\* long one as an unsigned.
FinProfil(n) ==
  LET r == Planifs[n].debut + Planifs[n].period - (Local.heure + ecart[n])
  IN IF r > 0 THEN wall + r ELSE Toujours

FinLanceur(n) ==
  /\ Rendre(n, "repos")
  /\ soleil' = IF Planifs[n].profil \in Eclaires /\ FinProfil(n) > soleil
               THEN FinProfil(n) ELSE soleil
  /\ UNCHANGED <<wall, zone, sLastDay, num, param, copie, dus>>

\* Mutant of iGererCourbe: the sun goes on after its profile.
iGererCourbeToujours ==
  /\ \/ pc[Soleil] = "repos" /\ Aller(Soleil, "localtime") /\ UNCHANGED <<tm, ecart>>
     \/ Rendre(Soleil, "repos")
  /\ UNCHANGED reste

\* The sun's thread, at each of its intervals.
iGererCourbe ==
  /\ \/ pc[Soleil] = "repos" /\ Ensoleille /\ Aller(Soleil, "localtime")
        /\ UNCHANGED <<tm, ecart>>
     \/ Rendre(Soleil, "repos")
  /\ UNCHANGED reste

\* A tick goes by once every thread has done its work of this one.
Tick ==
  /\ \A x \in Threads : pc[x] = "repos"
  /\ dus = {} /\ sLastDay = Utc.jour /\ wall < Duree
  /\ wall' = wall + 1 /\ UNCHANGED zone
  /\ dus' = {n \in Nums : Planifs[n].debut = (wall' + tz) % Jour}
  /\ UNCHANGED <<tm, pc, sLastDay, num, param, copie, soleil, ecart>>

Next ==
  \/ gmtime \/ Reveil \/ Comparer \/ Changer \/ pstInit \/ Planifier
  \/ \E x \in Threads : localtime(x) \/ Minuit(x) \/ Mktime(x)
  \/ \E n \in Nums : LancerProfil(n) \/ FinLanceur(n)
  \/ iGererCourbe \/ Tick

Spec == Init /\ [][Next]_vars

-----------------------------------------------------------------------------
(***************************************************************************)
(* Properties.                                                             *)
(***************************************************************************)

\* The day the planner believes in is the UTC day, though any thread may have
\* put the local date in stTm after gmtime: no thread reads the local time in
\* the hours when the two dates differ.  A local date would start the profiles
\* of the day a second time (MainTache.cpp:95-102).
JourUtc == [][sLastDay' # sLastDay => sLastDay' = Utc.jour]_vars

\* The planner reads the exact local time, as it runs when no other thread uses
\* stTm (MainTache.cpp:153).
HeureDuPlan == ecart[Principal] = 0

\* A launcher or a sun that finds UTC in stTm between localtime and mktime is
\* wrong by the offset of the time zone, and by summer time if gmtime's tm_isdst
\* is in one of the two times it compares and localtime's in the other; never by
\* more, and never by a day (General.cpp:33-46, MainTache.cpp:249, Soleil.cpp:65).
EcartBorne == \A x \in Threads : \E h \in {0, -tz}, e \in {-ete, 0, ete} : ecart[x] = h + e

\* No CProfil copies parameters that pstInit has cleared and not yet filled
\* (BaseSqlite.cpp:26, Profil.cpp:25-31).
ParametresEntiers == copie = {}
=============================================================================
