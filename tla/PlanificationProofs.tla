------------------------ MODULE PlanificationProofs ------------------------
(***************************************************************************)
(* Proofs about Planification, for every table of plannings, every clock   *)
(* and every width of time_t: the variables keep their types, and a stop   *)
(* timer that is waiting or due is alone in charge of a CProfil that only  *)
(* its own select, or the clean-up, can have ended before.                 *)
(***************************************************************************)
EXTENDS Planification, FiniteSetTheorems, TLAPS

\* A planning is being looked at where the code uses its number, a launcher
\* carries one, and a timer that waits has some time to go.
NumInv ==
  /\ pc \in {"plan", "insert"} => num \in Nums
  /\ \A t \in Timers :
       timers[t].type = "start" /\ timers[t].etat # "libre" => timers[t].num \in Nums
  /\ \A t \in Timers : timers[t].etat = "arme" => timers[t].rem # 0

\* A timer that is over has forgotten its profile.
LibreInv == \A t \in Timers : timers[t].etat = "libre" => timers[t].prof = Aucun

\* The timers that are over, or are stop timers.
PasLanceurs == {t \in Timers : timers[t].etat = "libre" \/ timers[t].type = "stop"}

\* The map of stop timers, and the launchers in the middle of their callback,
\* know stop timers only.
StopInv ==
  /\ \A k \in Numeros : mStopProfil[k] # Aucun => mStopProfil[k] \in PasLanceurs
  /\ \A t \in Timers : timers[t].etat = "rappel" => timers[t].stop \in PasLanceurs
  /\ \A t \in Timers :
       timers[t].type = "stop" /\ timers[t].etat # "libre" => timers[t].prof \in Profils

\* The inductive invariant.
PlanifInv == TypeOK /\ NumInv /\ LibreInv /\ StopInv /\ StopPropre

-----------------------------------------------------------------------------
(***************************************************************************)
(* Lemmas.                                                                 *)
(***************************************************************************)

\* A number of ticks, cut to the days that tm_yday tells apart.
LEMMA SiecleFait ==
  /\ Annee * Jour \in Nat \ {0}
  /\ \A x \in Int : x % (Annee * Jour) \in Siecle
  /\ \A w \in Siecle : w \in Int /\ w \div Jour \in 0..(Annee - 1)
<1>1. Annee \in Nat \ {0} /\ Jour \in Nat \ {0}
  BY TempsAssumption
<1>2. Annee * Jour \in Nat \ {0}
  BY <1>1, SMT
<1>3. ASSUME NEW x \in Int
      PROVE  x % (Annee * Jour) \in Siecle
  <2> DEFINE n == Annee * Jour
  <2>1. n \in Nat \ {0}
    BY <1>2
  <2> HIDE DEF n
  <2>2. x % n \in 0..(n - 1)
    BY <2>1, SMT
  <2> QED
    BY <2>2 DEF Siecle, n
<1>4. ASSUME NEW w \in Siecle
      PROVE  w \in Int /\ w \div Jour \in 0..(Annee - 1)
  <2> DEFINE q == w \div Jour
  <2>1. w \in Nat /\ w < Annee * Jour
    BY <1>1, <1>2, SMT DEF Siecle
  <2>2. q \in Nat /\ q * Jour <= w
    BY <1>1, <2>1, SMT
  <2> HIDE DEF q
  <2>3. q < Annee
    <3>1. SUFFICES ASSUME q >= Annee PROVE FALSE
      BY <1>1, <2>2, SMT
    <3>2. PICK d \in Nat : q = Annee + d
      <4>1. q - Annee \in Nat /\ q = Annee + (q - Annee)
        BY <1>1, <2>2, <3>1, SMT
      <4> QED
        BY <4>1
    <3>3. q * Jour = Annee * Jour + d * Jour /\ d * Jour \in Nat
      BY <1>1, <3>2, SMT
    <3> QED
      BY <1>2, <2>1, <2>2, <3>3, SMT
  <2> QED
    BY <1>1, <2>1, <2>2, <2>3, SMT DEF q
<1> QED
  BY <1>2, <1>3, <1>4

\* An object that is new is unused, and nothing refers to it.
LEMMA LibreFait ==
  ASSUME TypeOK, Libres # {}
  PROVE  /\ Libre \in Timers /\ timers[Libre].etat = "libre"
         /\ \A k \in Numeros : mStopProfil[k] # Libre
         /\ \A t \in Timers : timers[t].stop # Libre
<1>1. Libre \in Libres
  BY DEF Libre
<1> QED
  BY <1>1 DEF Libres, Connus

LEMMA PLibreFait ==
  ASSUME PLibres # {}
  PROVE  /\ PLibre \in Profils /\ profils[PLibre].etat = "libre"
         /\ \A t \in Timers : timers[t].prof # PLibre
<1>1. PLibre \in PLibres
  BY DEF PLibre
<1> QED
  BY <1>1 DEF PLibres

\* A new launcher.
LEMMA LanceurFait ==
  ASSUME NEW n \in Nums, NEW d \in Nat, NEW a \in BOOLEAN
  PROVE  /\ Lanceur(n, d, a) \in Timer
         /\ Lanceur(n, d, a).type = "start" /\ Lanceur(n, d, a).num = n
         /\ Lanceur(n, d, a).etat \in {"arme", "expire"}
         /\ Lanceur(n, d, a).stop = Aucun
  BY DEF Lanceur, Vierge, Timer, EtatTimer, Aucun

\* A timer that is over.
LEMMA ViergeFait ==
  ASSUME NEW a \in BOOLEAN
  PROVE  [Vierge EXCEPT !.auto = a] \in Timer
  BY DEF Vierge, Timer, EtatTimer, Aucun

LEMMA FiniFait ==
  ASSUME TypeOK, NEW t \in Timers
  PROVE  Fini(t) \in Timer /\ Fini(t).etat = "libre" /\ Fini(t).prof = Aucun
<1>1. timers[t].auto \in BOOLEAN
  BY DEF TypeOK, Timer
<1> QED
  BY <1>1, ViergeFait DEF Fini, Vierge

\* The duration of a stop timer is a state and a count of ticks.
LEMMA DureeStopFait ==
  ASSUME TypeOK, NEW n \in Nums
  PROVE  /\ DureeStop(n).etat \in {"inerte", "eternel", "expire", "arme"}
         /\ DureeStop(n).rem \in Nat
         /\ DureeStop(n).etat = "arme" => DureeStop(n).rem # 0
<1>1. /\ Jour \in Nat \ {0} /\ UsecTick \in Nat \ {0} /\ Largeur \in Nat \ {0}
      /\ Planifs[n].debut \in Int /\ Planifs[n].period \in Int
  BY TempsAssumption, PlanifsAssumption
<1>2. wall \in Int /\ tz \in Int
  BY SiecleFait, TempsAssumption DEF TypeOK
<1>3. tGetOffsetFromMidnight \in Int
  BY <1>1, <1>2, SMT DEF tGetOffsetFromMidnight
<1> DEFINE x  == (Planifs[n].period - (tGetOffsetFromMidnight - Planifs[n].debut)) * UsecTick
           us == x % Largeur
<1>4. x \in Int
  BY <1>1, <1>3, SMT
<1> HIDE DEF x
<1>5. us \in Nat
  BY <1>1, <1>4, SMT
<1> HIDE DEF us
<1>6. us \div UsecTick \in Nat /\ (~(us < UsecTick) => us \div UsecTick # 0)
  BY <1>1, <1>5, SMT
<1>7. DureeStop(n) =
        IF us = 0 THEN [etat |-> "inerte", rem |-> 0]
        ELSE IF us >= Largeur \div 2 THEN [etat |-> "eternel", rem |-> 0]
        ELSE IF us < UsecTick THEN [etat |-> "expire", rem |-> 0]
        ELSE [etat |-> "arme", rem |-> us \div UsecTick]
  BY DEF DureeStop, us, x
<1> QED
  BY <1>6, <1>7

-----------------------------------------------------------------------------
(***************************************************************************)
(* Steps that make no timer.                                               *)
(***************************************************************************)

\* Timer t goes on, for the same profile; it is over.
Continue(t) ==
  /\ timers[t].etat # "libre" /\ timers'[t].etat # "libre"
  /\ timers'[t].type = timers[t].type /\ timers'[t].num = timers[t].num
  /\ timers'[t].prof = timers[t].prof /\ timers'[t].stop = timers[t].stop
  /\ timers'[t].etat = "rappel" => timers[t].etat = "rappel"
  /\ timers'[t].etat = "arme" => timers'[t].rem # 0
Termine(t) == timers'[t].etat = "libre" /\ timers'[t].prof = Aucun

\* Timer t is a stop timer that is not over.
EnAttente(t) == timers[t].type = "stop" /\ timers[t].etat # "libre"

\* A stop timer t that is not over may be in charge of profile q; the same
\* after a step.
Suivi(q, t) ==
  profils[q].etat \in {"cree", "actif", "echoue"} \/ (pc = "fin3" /\ t = neuf)
SuiviApres(q, t) ==
  profils'[q].etat \in {"cree", "actif", "echoue"} \/ (pc' = "fin3" /\ t = neuf')

\* What such a step does to the timers' parts of the invariant.
LEMMA SansNouveauTimer ==
  ASSUME PlanifInv,
         \A t \in Timers : Continue(t) \/ Termine(t)
  PROVE  /\ \A t \in Timers :
              timers'[t].type = "start" /\ timers'[t].etat # "libre" => timers'[t].num \in Nums
         /\ \A t \in Timers : timers'[t].etat = "arme" => timers'[t].rem # 0
         /\ LibreInv'
         /\ PasLanceurs \subseteq PasLanceurs'
         /\ \A t \in Timers : timers'[t].etat = "rappel" => timers'[t].stop \in PasLanceurs'
         /\ \A t \in Timers : EnAttente(t)' =>
              EnAttente(t) /\ timers'[t].prof = timers[t].prof /\ timers[t].prof \in Profils
<1> USE DEF PlanifInv, Continue, Termine
<1>1. \A t \in Timers :
         timers'[t].type = "start" /\ timers'[t].etat # "libre" => timers'[t].num \in Nums
  BY DEF NumInv
<1>11. \A t \in Timers : timers'[t].etat = "arme" => timers'[t].rem # 0
  OBVIOUS
<1>2. LibreInv'
  BY DEF LibreInv
<1>3. PasLanceurs \subseteq PasLanceurs'
  BY DEF PasLanceurs
<1>4. \A t \in Timers : timers'[t].etat = "rappel" => timers'[t].stop \in PasLanceurs'
  BY <1>3 DEF StopInv
<1>5. \A t \in Timers : EnAttente(t)' =>
        EnAttente(t) /\ timers'[t].prof = timers[t].prof /\ timers[t].prof \in Profils
  BY DEF EnAttente, StopInv
<1> QED
  BY <1>1, <1>11, <1>2, <1>3, <1>4, <1>5

\* The invariant holds after such a step if it puts stop timers only in the
\* map, and leaves alone the profiles of those that wait.
LEMMA PasSansNouveauTimer ==
  ASSUME PlanifInv, TypeOK',
         ub' = "profil" => \E q \in Profils : profils'[q].etat = "echoue",
         pc' \in {"plan", "insert"} => num' \in Nums,
         \A t \in Timers : Continue(t) \/ Termine(t),
         \A k \in Numeros : mStopProfil'[k] # Aucun => mStopProfil'[k] \in PasLanceurs,
         \A t \in Timers : EnAttente(t)' => SuiviApres(timers[t].prof, t)
  PROVE  PlanifInv'
<1>1. NumInv'
  BY SansNouveauTimer DEF NumInv
<1>2. LibreInv'
  BY SansNouveauTimer
<1>3. StopInv'
  BY SansNouveauTimer DEF StopInv, EnAttente
<1>4. StopPropre'
  BY SansNouveauTimer DEF StopPropre, EnAttente, PlanifInv, SuiviApres
<1> QED
  BY <1>1, <1>2, <1>3, <1>4 DEF PlanifInv

\* The invariant says so of the state before.
LEMMA EnAttenteFait ==
  ASSUME PlanifInv, NEW t \in Timers, EnAttente(t)
  PROVE  /\ timers[t].prof \in Profils
         /\ Suivi(timers[t].prof, t)
         /\ \A u \in Timers : EnAttente(u) /\ timers[u].prof = timers[t].prof => u = t
  BY DEF PlanifInv, StopInv, StopPropre, EnAttente, Suivi

\* A step that leaves the timers alone.
LEMMA TimersInchanges ==
  ASSUME PlanifInv, timers' = timers
  PROVE  \A t \in Timers : Continue(t) \/ Termine(t)
  BY DEF PlanifInv, LibreInv, NumInv, Continue, Termine

\* A step that leaves the timers, the profiles and the map alone.
LEMMA PasAilleurs ==
  ASSUME PlanifInv, TypeOK',
         ub' = "profil" => \E q \in Profils : profils'[q].etat = "echoue",
         pc' \in {"plan", "insert"} => num' \in Nums,
         pc = "fin3" => pc' = "fin3" /\ neuf' = neuf,
         UNCHANGED <<timers, profils, mStopProfil>>
  PROVE  PlanifInv'
<1>1. \A k \in Numeros : mStopProfil'[k] # Aucun => mStopProfil'[k] \in PasLanceurs
  BY DEF PlanifInv, StopInv
<1>2. \A t \in Timers : EnAttente(t)' => SuiviApres(timers[t].prof, t)
  BY EnAttenteFait DEF EnAttente, Suivi, SuiviApres
<1> QED
  BY <1>1, <1>2, TimersInchanges, PasSansNouveauTimer

-----------------------------------------------------------------------------
(***************************************************************************)
(* The initial states and the steps of the clock.                          *)
(***************************************************************************)

LEMMA InitPlanifInv == Init => PlanifInv
<1> SUFFICES ASSUME Init PROVE PlanifInv
  OBVIOUS
<1> USE DEF Init
<1>0. Vierge \in Timer /\ Vierge.etat = "libre" /\ Vierge.prof = Aucun
  BY DEF Vierge, Timer, EtatTimer, Aucun
<1>1. TypeOK
  <2>1. sLastDay \in -1..(Annee - 1) /\ off \in 0..(Jour - 1)
        /\ sauts \in 0..MaxSauts /\ retard \in 0..Lag
    BY TempsAssumption, SMT
  <2> QED
    BY <1>0, <2>1 DEF TypeOK, EtatProfil
<1>2. NumInv /\ LibreInv /\ StopInv
  BY <1>0 DEF NumInv, LibreInv, StopInv
<1>3. StopPropre
  BY <1>0 DEF StopPropre
<1> QED
  BY <1>1, <1>2, <1>3 DEF PlanifInv

LEMMA SautInv == PlanifInv /\ Vivant /\ Saut => PlanifInv'
<1> SUFFICES ASSUME PlanifInv, Vivant, Saut PROVE PlanifInv'
  OBVIOUS
<1> USE DEF PlanifInv, Saut, tache, maps
<1>1. wall' \in Siecle
  <2>1. PICK d \in Sauts : wall' = (wall + d) % (Annee * Jour)
    OBVIOUS
  <2>2. wall + d \in Int
    BY SiecleFait, TempsAssumption DEF TypeOK
  <2> QED
    BY <2>1, <2>2, SiecleFait
<1>2. sauts' \in 0..MaxSauts
  BY TempsAssumption, SMT DEF TypeOK
<1>3. TypeOK'
  BY <1>1, <1>2 DEF TypeOK
<1>4. pc' \in {"plan", "insert"} => num' \in Nums
  BY DEF NumInv
<1> QED
  BY <1>3, <1>4, PasAilleurs DEF Vivant

LEMMA ChangerHeureInv == PlanifInv /\ Vivant /\ ChangerHeure => PlanifInv'
<1> SUFFICES ASSUME PlanifInv, Vivant, ChangerHeure PROVE PlanifInv'
  OBVIOUS
<1> USE DEF PlanifInv, ChangerHeure, tache, maps
<1>1. sauts' \in 0..MaxSauts
  BY TempsAssumption, SMT DEF TypeOK
<1>2. TypeOK'
  BY <1>1 DEF TypeOK
<1>3. pc' \in {"plan", "insert"} => num' \in Nums
  BY DEF NumInv
<1> QED
  BY <1>2, <1>3, PasAilleurs DEF Vivant

\* A tick more for one timer.
LEMMA TickTimer ==
  ASSUME NEW r \in Timer, r.etat = "arme" => r.rem # 0
  PROVE  LET s == IF r.etat # "arme" THEN r
                  ELSE [r EXCEPT !.rem = @ - 1,
                                 !.etat = IF r.rem = 1 THEN "expire" ELSE "arme"]
         IN  /\ s \in Timer
             /\ s.etat = r.etat \/ (r.etat = "arme" /\ s.etat = "expire")
             /\ s.type = r.type /\ s.num = r.num /\ s.prof = r.prof /\ s.stop = r.stop
             /\ s.etat = "arme" => s.rem # 0
<1>1. /\ r.etat \in EtatTimer /\ r.type \in {"start", "stop"}
      /\ r.num \in {0} \cup Nums \cup Numeros /\ r.prof \in Profils \cup {Aucun}
      /\ r.stop \in Timers \cup {Aucun} /\ r.rem \in Nat /\ r.auto \in BOOLEAN
  BY DEF Timer
<1>2. CASE r.etat # "arme"
  BY <1>2
<1>3. CASE r.etat = "arme"
  <2> DEFINE e == IF r.rem = 1 THEN "expire" ELSE "arme"
             m == r.rem - 1
  <2>1. m \in Nat /\ (e = "arme" => m # 0) /\ e \in {"arme", "expire"}
    BY <1>1, <1>3, SMT
  <2> HIDE DEF e, m
  <2>2. [r EXCEPT !.rem = m, !.etat = e] =
          [etat |-> e, type |-> r.type, num |-> r.num, prof |-> r.prof,
           stop |-> r.stop, rem |-> m, auto |-> r.auto]
    <3> DEFINE q == [r EXCEPT !.rem = m, !.etat = e]
    <3>1. q = [f \in {"etat", "type", "num", "prof", "stop", "rem", "auto"} |->
                 IF f = "etat" THEN e ELSE IF f = "rem" THEN m ELSE r[f]]
      BY DEF Timer
    <3> QED
      BY <3>1
  <2>3. [r EXCEPT !.rem = m, !.etat = e] \in Timer
    BY <1>1, <2>1, <2>2 DEF Timer, EtatTimer
  <2> QED
    BY <1>3, <2>1, <2>2, <2>3 DEF e, m
<1> QED
  BY <1>2, <1>3

LEMMA TickInv == PlanifInv /\ Vivant /\ Tick => PlanifInv'
<1> SUFFICES ASSUME PlanifInv, Vivant, Tick PROVE PlanifInv'
  OBVIOUS
<1>1. wall' \in Siecle
  <2>1. wall \in Siecle
    BY DEF TypeOK, PlanifInv
  <2>2. wall \in Int
    BY <2>1, SiecleFait
  <2>3. wall' = (wall + 1) % (Annee * Jour)
    BY DEF Tick
  <2>4. wall + 1 \in Int
    BY <2>2, SMT
  <2> QED
    BY <2>3, <2>4, SiecleFait
<1>2. retard' \in 0..Lag
  <2>1. retard \in 0..Lag /\ Lag \in Nat
    BY TempsAssumption DEF TypeOK, PlanifInv
  <2>2. retard' = 0 \/ (retard < Lag /\ retard' = retard + 1)
    BY DEF Tick
  <2> QED
    BY <2>1, <2>2, SMT
<1>3. /\ \A t \in Timers : timers'[t] \in Timer /\ (Continue(t) \/ Termine(t))
      /\ timers' \in [Timers -> Timer]
  <2>1. timers' = [t \in Timers |->
          IF timers[t].etat # "arme" THEN timers[t]
          ELSE [timers[t] EXCEPT !.rem = @ - 1,
                                 !.etat = IF timers[t].rem = 1 THEN "expire" ELSE "arme"]]
    BY DEF Tick
  <2>2. ASSUME NEW t \in Timers
        PROVE  timers'[t] \in Timer /\ (Continue(t) \/ Termine(t))
    <3>1. timers[t] \in Timer /\ (timers[t].etat = "arme" => timers[t].rem # 0)
          /\ (timers[t].etat = "libre" => timers[t].prof = Aucun)
      BY DEF PlanifInv, TypeOK, NumInv, LibreInv
    <3>2. /\ timers'[t] \in Timer
          /\ timers'[t].etat = timers[t].etat
               \/ (timers[t].etat = "arme" /\ timers'[t].etat = "expire")
          /\ timers'[t].type = timers[t].type /\ timers'[t].num = timers[t].num
          /\ timers'[t].prof = timers[t].prof /\ timers'[t].stop = timers[t].stop
          /\ timers'[t].etat = "arme" => timers'[t].rem # 0
      BY <2>1, <3>1, TickTimer
    <3> QED
      BY <3>1, <3>2 DEF Continue, Termine
  <2> QED
    BY <2>1, <2>2
<1>4. UNCHANGED <<tz, sauts, tache, maps, profils, ub>>
  BY DEF Tick
<1>5. TypeOK'
  BY <1>1, <1>2, <1>3, <1>4 DEF TypeOK, PlanifInv, tache, maps
<1>6. \A t \in Timers : EnAttente(t)' => SuiviApres(timers[t].prof, t)
  BY <1>3, <1>4, SansNouveauTimer, EnAttenteFait DEF Suivi, SuiviApres, tache
<1>7. \A k \in Numeros : mStopProfil'[k] # Aucun => mStopProfil'[k] \in PasLanceurs
  BY <1>4 DEF StopInv, PlanifInv, maps
<1>8. pc' \in {"plan", "insert"} => num' \in Nums
  BY <1>4 DEF NumInv, PlanifInv, tache
<1> QED
  BY <1>3, <1>4, <1>5, <1>6, <1>7, <1>8, PasSansNouveauTimer DEF Vivant

-----------------------------------------------------------------------------
(***************************************************************************)
(* The steps of the main task.                                             *)
(***************************************************************************)

\* Plannings are numbered from 1.
LEMMA NumsFait == 1 \in Nums
<1>1. PICK n \in Nums : TRUE
  BY PlanifsAssumption
<1>2. n \in 1..Cardinality(Nums)
  BY <1>1, PlanifsAssumption
<1>3. Cardinality(Nums) \in Nat
  BY PlanifsAssumption, FS_CardinalityType
<1>4. 1 \in 1..Cardinality(Nums)
  BY <1>2, <1>3, SMT
<1> QED
  BY <1>4, PlanifsAssumption

\* The offset from midnight is within a day.
LEMMA DecalageFait ==
  ASSUME TypeOK
  PROVE  tGetOffsetFromMidnight \in 0..(Jour - 1)
<1>1. wall \in Int /\ tz \in Int /\ Jour \in Nat \ {0}
  BY SiecleFait, TempsAssumption DEF TypeOK
<1>2. wall + tz \in Int
  BY <1>1, SMT
<1> DEFINE x == wall + tz
<1> HIDE DEF x
<1>3. x \in Int => x % Jour \in 0..(Jour - 1)
  BY <1>1, SMT
<1> QED
  BY <1>2, <1>3 DEF tGetOffsetFromMidnight, x

LEMMA ChangementDeJourInv == PlanifInv /\ Vivant /\ ChangementDeJour => PlanifInv'
<1> SUFFICES ASSUME PlanifInv, Vivant, ChangementDeJour PROVE PlanifInv'
  OBVIOUS
<1> USE DEF ChangementDeJour, maps
<1>1. YDay \in -1..(Annee - 1)
  <2>1. YDay \in 0..(Annee - 1)
    BY SiecleFait DEF YDay, PlanifInv, TypeOK
  <2>2. Annee \in Nat
    BY TempsAssumption
  <2> QED
    BY <2>1, <2>2, SMT
<1>2. TypeOK'
  BY <1>1 DEF PlanifInv, TypeOK, horloge
<1> QED
  BY <1>2, PasAilleurs DEF Vivant

LEMMA LireOffsetInv == PlanifInv /\ Vivant /\ LireOffset => PlanifInv'
<1> SUFFICES ASSUME PlanifInv, Vivant, LireOffset PROVE PlanifInv'
  OBVIOUS
<1> USE DEF LireOffset, maps
<1>1. TypeOK'
  BY NumsFait, DecalageFait DEF PlanifInv, TypeOK, horloge
<1> QED
  BY <1>1, NumsFait, PasAilleurs DEF Vivant

\* Where the look at the next planning leaves the main task.
LEMMA SuivantFait ==
  ASSUME Suivant
  PROVE  /\ num' \in Nums \cup {0} /\ pc' \in {"plan", "select"}
         /\ pc' = "plan" => num' \in Nums
  BY DEF Suivant

LEMMA PlanifierPasseInv == PlanifInv /\ Vivant /\ PlanifierPasse => PlanifInv'
<1> SUFFICES ASSUME PlanifInv, Vivant, PlanifierPasse PROVE PlanifInv'
  OBVIOUS
<1>1. Suivant /\ pc = "plan" /\ UNCHANGED <<sLastDay, off, neuf, horloge, maps, timers, profils, ub>>
  BY DEF PlanifierPasse
<1>2. TypeOK'
  BY <1>1, SuivantFait DEF PlanifInv, TypeOK, horloge, maps
<1> QED
  BY <1>1, <1>2, SuivantFait, PasAilleurs DEF Vivant, maps

LEMMA InsererInv == PlanifInv /\ Vivant /\ Inserer => PlanifInv'
<1> SUFFICES ASSUME PlanifInv, Vivant, Inserer PROVE PlanifInv'
  OBVIOUS
<1>1. /\ pc = "insert" /\ Suivant /\ neuf' = Aucun
      /\ mLanceurProfil' = [mLanceurProfil EXCEPT ![num] = neuf]
      /\ UNCHANGED <<sLastDay, off, horloge, mStopProfil, timers, profils, ub>>
  BY DEF Inserer
<1>2. TypeOK'
  BY <1>1, SuivantFait DEF PlanifInv, TypeOK, horloge
<1> QED
  BY <1>1, <1>2, SuivantFait, PasAilleurs DEF Vivant

LEMMA QuitterInv == PlanifInv /\ Vivant /\ Quitter => PlanifInv'
<1> SUFFICES ASSUME PlanifInv, Vivant, Quitter PROVE PlanifInv'
  OBVIOUS
<1> USE DEF Quitter, maps
<1>1. TypeOK'
  BY DEF PlanifInv, TypeOK, horloge
<1> QED
  BY <1>1, PasAilleurs DEF Vivant

LEMMA CourseInv == PlanifInv /\ Vivant /\ Course => PlanifInv'
<1> SUFFICES ASSUME PlanifInv, Vivant, Course PROVE PlanifInv'
  OBVIOUS
<1> USE DEF Course, maps
<1>1. TypeOK'
  BY DEF PlanifInv, TypeOK, horloge, tache, Indefini
<1> QED
  BY <1>1, PasAilleurs DEF tache, PlanifInv, NumInv

\* A launcher and a place to put it are made; no timer but it and those that
\* are over changes, and nothing referred to it.
LEMMA NouveauLanceur ==
  ASSUME PlanifInv, TypeOK', Libres # {}, UNCHANGED <<profils, mStopProfil>>,
         ub' # "profil", pc # "fin3", pc' \in {"plan", "insert"} => num' \in Nums,
         NEW n \in Nums, NEW d \in Nat, NEW a \in BOOLEAN,
         timers'[Libre] = Lanceur(n, d, a),
         \A t \in Timers \ {Libre} : timers'[t] = timers[t] \/ Termine(t)
  PROVE  PlanifInv'
<1> DEFINE L == Libre
<1>1. /\ L \in Timers /\ timers[L].etat = "libre"
      /\ \A k \in Numeros : mStopProfil[k] # L
      /\ \A t \in Timers : timers[t].stop # L
  BY LibreFait DEF PlanifInv
<1>2. /\ timers'[L].type = "start" /\ timers'[L].num \in Nums
      /\ timers'[L].etat \in {"arme", "expire"}
      /\ timers'[L].etat = "arme" => timers'[L].rem # 0
  <2>1. Lanceur(n, d, a).etat = "arme" => Lanceur(n, d, a).rem # 0
    BY DEF Lanceur, Vierge
  <2> QED
    BY <2>1, LanceurFait
<1> HIDE DEF L
<1>3. \A t \in Timers : t = L \/ timers'[t] = timers[t] \/ Termine(t)
  BY DEF L
<1>4. PasLanceurs \ {L} \subseteq PasLanceurs'
  BY <1>3 DEF PasLanceurs, Termine
<1>5. NumInv'
  BY <1>1, <1>2, <1>3 DEF NumInv, Termine, PlanifInv
<1>6. LibreInv'
  BY <1>1, <1>2, <1>3 DEF LibreInv, Termine, PlanifInv
<1>7. StopInv'
  <2>1. \A k \in Numeros : mStopProfil'[k] # Aucun => mStopProfil'[k] \in PasLanceurs'
    BY <1>1, <1>4 DEF StopInv, PlanifInv
  <2>2. \A t \in Timers : timers'[t].etat = "rappel" => timers'[t].stop \in PasLanceurs'
    BY <1>1, <1>2, <1>3, <1>4 DEF StopInv, PlanifInv, Termine
  <2>3. \A t \in Timers : EnAttente(t)' => timers'[t].prof \in Profils
    BY <1>2, <1>3 DEF StopInv, PlanifInv, Termine, EnAttente
  <2> QED
    BY <2>1, <2>2, <2>3 DEF StopInv, EnAttente
<1>8. StopPropre'
  <2>1. \A t \in Timers : EnAttente(t)' => EnAttente(t) /\ timers'[t] = timers[t]
    BY <1>2, <1>3 DEF Termine, EnAttente
  <2> QED
    BY <2>1 DEF StopPropre, PlanifInv, EnAttente
<1> QED
  BY <1>5, <1>6, <1>7, <1>8 DEF PlanifInv

LEMMA PlanifierMaintenantInv == PlanifInv /\ Vivant /\ PlanifierMaintenant => PlanifInv'
<1> SUFFICES ASSUME PlanifInv, Vivant, PlanifierMaintenant PROVE PlanifInv'
  OBVIOUS
<1>1. /\ pc = "plan" /\ Libres # {} /\ pc' = "insert" /\ neuf' = Libre
      /\ timers' = [timers EXCEPT ![Libre] = Lanceur(num, 0, FALSE)]
      /\ UNCHANGED <<sLastDay, num, off, horloge, maps, profils, ub>>
  BY DEF PlanifierMaintenant
<1>2. num \in Nums /\ Libre \in Timers
  BY <1>1, LibreFait DEF PlanifInv, NumInv
<1>3. Lanceur(num, 0, FALSE) \in Timer
  BY <1>2, LanceurFait
<1>4. timers \in [Timers -> Timer]
  BY DEF PlanifInv, TypeOK
<1>5. /\ timers' \in [Timers -> Timer] /\ timers'[Libre] = Lanceur(num, 0, FALSE)
      /\ \A t \in Timers \ {Libre} : timers'[t] = timers[t]
  BY <1>1, <1>2, <1>3, <1>4
<1>6. TypeOK'
  BY <1>1, <1>2, <1>5 DEF PlanifInv, TypeOK, horloge, maps
<1>7. UNCHANGED <<profils, mStopProfil>> /\ ub' # "profil" /\ num' \in Nums
  BY <1>1, <1>2 DEF maps, Vivant
<1> QED
  BY <1>1, <1>2, <1>5, <1>6, <1>7, NouveauLanceur

LEMMA PlanifierAvenirInv == PlanifInv /\ Vivant /\ PlanifierAvenir => PlanifInv'
<1> SUFFICES ASSUME PlanifInv, Vivant, PlanifierAvenir PROVE PlanifInv'
  OBVIOUS
<1> DEFINE ancien == mLanceurProfil[num]
           d == Planifs[num].debut - off
<1>1. /\ pc = "plan" /\ Planifs[num].debut > off /\ Libres # {}
      /\ UNCHANGED <<sLastDay, num, off, horloge, mStopProfil, profils>>
  BY DEF PlanifierAvenir
<1>2. PICK e \in IF ancien = Aucun THEN {"libre"} ELSE ApresStop(ancien) :
        \/ /\ e = "indefini" /\ ub' = "timer"
           /\ UNCHANGED <<pc, neuf, timers, mLanceurProfil>>
        \/ /\ e # "indefini" /\ UNCHANGED ub
           /\ timers' = [t \in Timers |->
                IF t = Libre THEN Lanceur(num, d, TRUE)
                ELSE IF t = ancien /\ e = "libre" THEN Fini(t)
                ELSE timers[t]]
           /\ mLanceurProfil' = [mLanceurProfil EXCEPT ![num] = Aucun]
           /\ pc' = "insert" /\ neuf' = Libre
  BY DEF PlanifierAvenir
<1>3. num \in Nums /\ d \in Nat /\ Libre \in Timers
  <2>1. num \in Nums
    BY <1>1 DEF PlanifInv, NumInv
  <2>2. Planifs[num].debut \in Int /\ off \in Int
    BY <2>1, PlanifsAssumption, TempsAssumption DEF PlanifInv, TypeOK
  <2>3. d \in Nat
    BY <1>1, <2>2, SMT
  <2> QED
    BY <1>1, <2>1, <2>3, LibreFait DEF PlanifInv
<1> HIDE DEF d
<1>4. CASE e = "indefini"
  <2>1. ub' = "timer" /\ UNCHANGED <<pc, neuf, timers, mLanceurProfil>>
    BY <1>2, <1>4
  <2>2. TypeOK'
    BY <1>1, <2>1 DEF PlanifInv, TypeOK, horloge, Indefini
  <2> QED
    BY <1>1, <1>3, <2>1, <2>2, PasAilleurs
<1>5. CASE e # "indefini"
  <2>1. /\ UNCHANGED ub /\ pc' = "insert" /\ neuf' = Libre
        /\ timers' = [t \in Timers |->
             IF t = Libre THEN Lanceur(num, d, TRUE)
             ELSE IF t = ancien /\ e = "libre" THEN Fini(t)
             ELSE timers[t]]
        /\ mLanceurProfil' = [mLanceurProfil EXCEPT ![num] = Aucun]
    BY <1>2, <1>5
  <2>2. timers'[Libre] = Lanceur(num, d, TRUE) /\ Lanceur(num, d, TRUE) \in Timer
    BY <1>3, <2>1, LanceurFait
  <2>3. ASSUME NEW t \in Timers \ {Libre}
        PROVE  timers'[t] \in Timer /\ (timers'[t] = timers[t] \/ Termine(t))
    <3>1. timers'[t] = timers[t] \/ timers'[t] = Fini(t)
      BY <2>1
    <3>2. timers[t] \in Timer /\ Fini(t) \in Timer
          /\ Fini(t).etat = "libre" /\ Fini(t).prof = Aucun
      BY FiniFait DEF PlanifInv, TypeOK
    <3> QED
      BY <3>1, <3>2 DEF Termine
  <2>4. timers' \in [Timers -> Timer]
    BY <2>1, <2>2, <2>3
  <2>5. TypeOK'
    BY <1>1, <1>3, <2>1, <2>4 DEF PlanifInv, TypeOK, horloge
  <2> QED
    BY <1>1, <1>3, <2>1, <2>2, <2>3, <2>5, NouveauLanceur DEF Vivant
<1> QED
  BY <1>4, <1>5

-----------------------------------------------------------------------------
(***************************************************************************)
(* The callbacks.                                                          *)
(***************************************************************************)

LEMMA CallbackIndefiniInv ==
  PlanifInv /\ Vivant /\ (\E t \in Timers : CallbackIndefini(t)) => PlanifInv'
<1> SUFFICES ASSUME PlanifInv, Vivant, NEW t \in Timers, CallbackIndefini(t)
             PROVE  PlanifInv'
  OBVIOUS
<1>1. /\ Du(t, "start") \/ Du(t, "stop")
      /\ ub' = IF timers[t].type = "start" THEN "erase_lanceur"
               ELSE IF pc = "fin3" /\ t = neuf THEN "param"
               ELSE IF profils[timers[t].prof].etat \in {"libre", "echoue"} THEN "profil"
               ELSE "erase_stop"
      /\ UNCHANGED <<tache, horloge, maps, timers, profils>>
  BY DEF CallbackIndefini
<1>2. ub' = "profil" => \E q \in Profils : profils'[q].etat = "echoue"
  <2> SUFFICES ASSUME ub' = "profil" PROVE \E q \in Profils : profils[q].etat = "echoue"
    BY <1>1
  <2>1. EnAttente(t) /\ ~(pc = "fin3" /\ t = neuf)
        /\ profils[timers[t].prof].etat \in {"libre", "echoue"}
    BY <1>1 DEF Du, EnAttente
  <2> QED
    BY <2>1, EnAttenteFait DEF Suivi
<1>3. TypeOK'
  BY <1>1 DEF PlanifInv, TypeOK, tache, horloge, maps, Indefini
<1>4. /\ pc' \in {"plan", "insert"} => num' \in Nums
      /\ UNCHANGED <<pc, neuf>>
  BY <1>1 DEF PlanifInv, NumInv, tache
<1> QED
  BY <1>1, <1>2, <1>3, <1>4, PasAilleurs DEF maps

LEMMA ArreterProfilInv ==
  PlanifInv /\ Vivant /\ (\E t \in Timers : ArreterProfil(t)) => PlanifInv'
<1> SUFFICES ASSUME PlanifInv, Vivant, NEW t \in Timers, ArreterProfil(t)
             PROVE  PlanifInv'
  OBVIOUS
<1> DEFINE k == timers[t].num
           q == timers[t].prof
<1>1. /\ Du(t, "stop")
      /\ mStopProfil' = [mStopProfil EXCEPT ![k] = Aucun]
      /\ profils' = [profils EXCEPT ![q].etat = IF @ = "actif" THEN "arret" ELSE @]
      /\ timers' = [timers EXCEPT ![t] = Fini(t)]
      /\ UNCHANGED <<tache, horloge, mLanceurProfil, ub>>
  BY DEF ArreterProfil
<1>2. EnAttente(t) /\ q \in Profils
      /\ \A u \in Timers : EnAttente(u) /\ timers[u].prof = q => u = t
  <2>1. EnAttente(t)
    BY <1>1 DEF Du, EnAttente
  <2> QED
    BY <2>1, EnAttenteFait
<1>3. /\ Fini(t) \in Timer /\ Fini(t).etat = "libre" /\ Fini(t).prof = Aucun
      /\ timers \in [Timers -> Timer]
  BY FiniFait DEF PlanifInv, TypeOK
<1>4. /\ timers' \in [Timers -> Timer] /\ Termine(t)
      /\ \A u \in Timers \ {t} : timers'[u] = timers[u]
  BY <1>1, <1>3 DEF Termine
<1>5. /\ profils' \in [Profils -> [etat : EtatProfil, num : Numeros \cup {0}]]
      /\ \A r \in Profils \ {q} : profils'[r] = profils[r]
  BY <1>1, <1>2 DEF PlanifInv, TypeOK, EtatProfil
<1>6. TypeOK'
  BY <1>1, <1>4, <1>5 DEF PlanifInv, TypeOK, tache, horloge, Aucun
<1>7. \A u \in Timers : Continue(u) \/ Termine(u)
  BY <1>4 DEF Continue, Termine, PlanifInv, LibreInv, NumInv
<1>8. \A j \in Numeros : mStopProfil'[j] # Aucun => mStopProfil'[j] \in PasLanceurs
  BY <1>1 DEF PlanifInv, StopInv, TypeOK
<1>9. \A u \in Timers : EnAttente(u)' => SuiviApres(timers[u].prof, u)
  <2> SUFFICES ASSUME NEW u \in Timers, EnAttente(u)'
               PROVE  SuiviApres(timers[u].prof, u)
    OBVIOUS
  <2>1. u # t /\ EnAttente(u)
    BY <1>4 DEF EnAttente, Termine
  <2>2. timers[u].prof \in Profils \ {q}
    BY <2>1, <1>2, EnAttenteFait
  <2> QED
    BY <1>1, <2>1, <2>2, <1>5, EnAttenteFait DEF Suivi, SuiviApres, tache
<1>10. ub' # "profil" /\ (pc' \in {"plan", "insert"} => num' \in Nums)
  BY <1>1 DEF PlanifInv, NumInv, tache, Vivant
<1> QED
  BY <1>6, <1>7, <1>8, <1>9, <1>10, PasSansNouveauTimer

LEMMA DemarrerProfilInv ==
  PlanifInv /\ Vivant /\ (\E t \in Timers : DemarrerProfil(t)) => PlanifInv'
<1> SUFFICES ASSUME PlanifInv, Vivant, NEW t \in Timers, DemarrerProfil(t)
             PROVE  PlanifInv'
  OBVIOUS
<1> DEFINE q == timers[t].prof
           u == timers[t].stop
<1>1. /\ timers[t].etat = "rappel"
      /\ mStopProfil' = [mStopProfil EXCEPT ![profils[q].num] = u]
      /\ profils' = [profils EXCEPT ![q].etat = "actif"]
      /\ timers' = [timers EXCEPT ![t] = Fini(t)]
      /\ UNCHANGED <<tache, horloge, mLanceurProfil, ub>>
  BY DEF DemarrerProfil
<1>2. u \in PasLanceurs /\ u \in Timers
  BY <1>1 DEF PlanifInv, StopInv, PasLanceurs
<1>3. /\ Fini(t) \in Timer /\ Fini(t).etat = "libre" /\ Fini(t).prof = Aucun
      /\ timers \in [Timers -> Timer]
  BY FiniFait DEF PlanifInv, TypeOK
<1>4. /\ timers' \in [Timers -> Timer] /\ Termine(t)
      /\ \A v \in Timers \ {t} : timers'[v] = timers[v]
  BY <1>1, <1>3 DEF Termine
<1>5. /\ profils' \in [Profils -> [etat : EtatProfil, num : Numeros \cup {0}]]
      /\ \A r \in Profils : profils'[r].etat \in {profils[r].etat, "actif"}
  BY <1>1 DEF PlanifInv, TypeOK, EtatProfil
<1>6. TypeOK'
  BY <1>1, <1>2, <1>4, <1>5 DEF PlanifInv, TypeOK, tache, horloge
<1>7. \A v \in Timers : Continue(v) \/ Termine(v)
  BY <1>4 DEF Continue, Termine, PlanifInv, LibreInv, NumInv
<1>8. \A j \in Numeros : mStopProfil'[j] # Aucun => mStopProfil'[j] \in PasLanceurs
  BY <1>1, <1>2 DEF PlanifInv, StopInv, TypeOK
<1>9. \A v \in Timers : EnAttente(v)' => SuiviApres(timers[v].prof, v)
  <2> SUFFICES ASSUME NEW v \in Timers, EnAttente(v)'
               PROVE  SuiviApres(timers[v].prof, v)
    OBVIOUS
  <2>1. v # t /\ EnAttente(v)
    BY <1>4 DEF EnAttente, Termine
  <2> QED
    BY <1>1, <2>1, <1>5, EnAttenteFait DEF Suivi, SuiviApres, tache
<1>10. ub' # "profil" /\ (pc' \in {"plan", "insert"} => num' \in Nums)
  BY <1>1 DEF PlanifInv, NumInv, tache, Vivant
<1> QED
  BY <1>6, <1>7, <1>8, <1>9, <1>10, PasSansNouveauTimer

LEMMA FinirProfilInv ==
  PlanifInv /\ Vivant /\ (\E q \in Profils : FinirProfil(q)) => PlanifInv'
<1> SUFFICES ASSUME PlanifInv, Vivant, NEW q \in Profils, FinirProfil(q)
             PROVE  PlanifInv'
  OBVIOUS
<1>1. /\ profils[q].etat = "arret"
      /\ profils' = [profils EXCEPT ![q] = [etat |-> "libre", num |-> 0]]
      /\ UNCHANGED <<tache, horloge, maps, timers, ub>>
  BY DEF FinirProfil
<1>2. TypeOK'
  BY <1>1 DEF PlanifInv, TypeOK, tache, horloge, maps, EtatProfil
<1>3. \A t \in Timers : EnAttente(t)' => SuiviApres(timers[t].prof, t)
  <2> SUFFICES ASSUME NEW t \in Timers, EnAttente(t)'
               PROVE  SuiviApres(timers[t].prof, t)
    OBVIOUS
  <2>1. EnAttente(t)
    BY <1>1 DEF EnAttente
  <2>2. timers[t].prof \in Profils /\ Suivi(timers[t].prof, t)
    BY <2>1, EnAttenteFait
  <2>3. profils'[timers[t].prof] = profils[timers[t].prof] \/ (pc = "fin3" /\ t = neuf)
    BY <1>1, <2>2 DEF Suivi, PlanifInv, TypeOK
  <2> QED
    BY <1>1, <2>2, <2>3 DEF Suivi, SuiviApres, tache
<1>4. \A j \in Numeros : mStopProfil'[j] # Aucun => mStopProfil'[j] \in PasLanceurs
  BY <1>1 DEF PlanifInv, StopInv, maps
<1>5. ub' # "profil" /\ (pc' \in {"plan", "insert"} => num' \in Nums)
  BY <1>1 DEF PlanifInv, NumInv, tache, Vivant
<1> QED
  BY <1>1, <1>2, <1>3, <1>4, <1>5, TimersInchanges, PasSansNouveauTimer

LEMMA EchouerProfilInv ==
  PlanifInv /\ Vivant /\ (\E q \in Profils : EchouerProfil(q)) => PlanifInv'
<1> SUFFICES ASSUME PlanifInv, Vivant, NEW q \in Profils, EchouerProfil(q)
             PROVE  PlanifInv'
  OBVIOUS
<1>1. /\ profils' = [profils EXCEPT ![q].etat = "echoue"]
      /\ UNCHANGED <<tache, horloge, maps, timers, ub>>
  BY DEF EchouerProfil
<1>2. /\ profils' \in [Profils -> [etat : EtatProfil, num : Numeros \cup {0}]]
      /\ \A r \in Profils : profils'[r].etat \in {profils[r].etat, "echoue"}
  BY <1>1 DEF PlanifInv, TypeOK, EtatProfil
<1>3. TypeOK'
  BY <1>1, <1>2 DEF PlanifInv, TypeOK, tache, horloge, maps
<1>4. \A t \in Timers : EnAttente(t)' => SuiviApres(timers[t].prof, t)
  <2> SUFFICES ASSUME NEW t \in Timers, EnAttente(t)'
               PROVE  SuiviApres(timers[t].prof, t)
    OBVIOUS
  <2>1. EnAttente(t)
    BY <1>1 DEF EnAttente
  <2> QED
    BY <1>1, <1>2, <2>1, EnAttenteFait DEF Suivi, SuiviApres, tache
<1>5. \A j \in Numeros : mStopProfil'[j] # Aucun => mStopProfil'[j] \in PasLanceurs
  BY <1>1 DEF PlanifInv, StopInv, maps
<1>6. ub' # "profil" /\ (pc' \in {"plan", "insert"} => num' \in Nums)
  BY <1>1 DEF PlanifInv, NumInv, tache, Vivant
<1> QED
  BY <1>1, <1>3, <1>4, <1>5, <1>6, TimersInchanges, PasSansNouveauTimer

\* The stop timer that the launcher of planning n makes for profile q.
NouveauStop(n, q) ==
  [Vierge EXCEPT !.etat = DureeStop(n).etat, !.rem = DureeStop(n).rem, !.type = "stop",
                 !.num = Planifs[n].profil, !.prof = q]

LEMMA NouveauStopFait ==
  ASSUME TypeOK, NEW n \in Nums, NEW q \in Profils
  PROVE  /\ NouveauStop(n, q) \in Timer
         /\ NouveauStop(n, q).type = "stop" /\ NouveauStop(n, q).prof = q
         /\ NouveauStop(n, q).etat \in {"inerte", "eternel", "expire", "arme"}
         /\ NouveauStop(n, q).etat = "arme" => NouveauStop(n, q).rem # 0
<1>1. /\ DureeStop(n).etat \in {"inerte", "eternel", "expire", "arme"}
      /\ DureeStop(n).rem \in Nat /\ (DureeStop(n).etat = "arme" => DureeStop(n).rem # 0)
      /\ Planifs[n].profil \in Numeros
  BY DureeStopFait DEF Numeros
<1> DEFINE e == DureeStop(n).etat
           m == DureeStop(n).rem
           k == Planifs[n].profil
<1> HIDE DEF e, m, k
<1>2. e \in {"inerte", "eternel", "expire", "arme"} /\ m \in Nat
      /\ k \in Numeros /\ (e = "arme" => m # 0)
  BY <1>1 DEF e, m, k
<1>3. NouveauStop(n, q) =
        [etat |-> e, type |-> "stop", num |-> k, prof |-> q, stop |-> Aucun,
         rem |-> m, auto |-> FALSE]
  <2>1. NouveauStop(n, q) =
          [Vierge EXCEPT !.etat = e, !.rem = m, !.type = "stop", !.num = k, !.prof = q]
    BY DEF NouveauStop, e, m, k
  <2> QED
    BY <2>1 DEF Vierge
<1> QED
  BY <1>2, <1>3 DEF Timer, EtatTimer

LEMMA LancerProfilInv ==
  PlanifInv /\ Vivant /\ (\E t \in Timers : LancerProfil(t)) => PlanifInv'
<1> SUFFICES ASSUME PlanifInv, Vivant, NEW t \in Timers, LancerProfil(t)
             PROVE  PlanifInv'
  OBVIOUS
<1> DEFINE n == timers[t].num
           L == Libre
           q == PLibre
           s == NouveauStop(n, q)
           r == [timers[t] EXCEPT !.etat = "rappel", !.prof = q, !.stop = L]
<1>1. /\ Du(t, "start") /\ Libres # {} /\ PLibres # {}
      /\ mLanceurProfil' = [mLanceurProfil EXCEPT ![n] = Aucun]
      /\ profils' = [profils EXCEPT ![q] = [etat |-> "cree", num |-> Planifs[n].profil]]
      /\ timers' = [timers EXCEPT ![t] = r, ![L] = s]
      /\ UNCHANGED <<tache, horloge, mStopProfil, ub>>
  BY DEF LancerProfil, NouveauStop
<1>2. /\ n \in Nums /\ L \in Timers /\ q \in Profils
      /\ timers[t].type = "start" /\ timers[t].etat = "expire" /\ timers[t] \in Timer
      /\ timers[L].etat = "libre" /\ profils[q].etat = "libre" /\ L # t
      /\ \A k \in Numeros : mStopProfil[k] # L
      /\ \A u \in Timers : timers[u].stop # L /\ timers[u].prof # q
  BY <1>1, LibreFait, PLibreFait DEF Du, PlanifInv, NumInv, TypeOK
<1>3. /\ s \in Timer /\ s.type = "stop" /\ s.prof = q
      /\ s.etat \in {"inerte", "eternel", "expire", "arme"} /\ (s.etat = "arme" => s.rem # 0)
  BY <1>2, NouveauStopFait DEF PlanifInv
<1>4. r \in Timer /\ r.type = "start" /\ r.etat = "rappel" /\ r.num \in Nums /\ r.stop = L
  BY <1>2 DEF Timer, EtatTimer
<1> HIDE DEF n, L, q, s, r
<1>5. timers \in [Timers -> Timer]
  BY DEF PlanifInv, TypeOK
<1>6. /\ timers' \in [Timers -> Timer] /\ timers'[t] = r /\ timers'[L] = s
      /\ \A u \in Timers \ {t, L} : timers'[u] = timers[u]
  BY <1>1, <1>2, <1>3, <1>4, <1>5
<1>7. /\ profils' \in [Profils -> [etat : EtatProfil, num : Numeros \cup {0}]]
      /\ profils'[q].etat = "cree" /\ \A p \in Profils \ {q} : profils'[p] = profils[p]
  <2>1. Planifs[n].profil \in Numeros
    BY <1>2 DEF Numeros
  <2> QED
    BY <1>1, <1>2, <2>1 DEF PlanifInv, TypeOK, EtatProfil
<1>8. TypeOK'
  BY <1>1, <1>6, <1>7 DEF PlanifInv, TypeOK, tache, horloge, Aucun
<1>9. NumInv'
  <2>1. pc' \in {"plan", "insert"} => num' \in Nums
    BY <1>1 DEF PlanifInv, NumInv, tache
  <2>2. \A u \in Timers :
          timers'[u].type = "start" /\ timers'[u].etat # "libre" => timers'[u].num \in Nums
    BY <1>3, <1>4, <1>6 DEF PlanifInv, NumInv
  <2>3. \A u \in Timers : timers'[u].etat = "arme" => timers'[u].rem # 0
    BY <1>3, <1>4, <1>6 DEF PlanifInv, NumInv
  <2> QED
    BY <2>1, <2>2, <2>3 DEF NumInv
<1>10. LibreInv'
  BY <1>3, <1>4, <1>6 DEF PlanifInv, LibreInv
<1>11. StopInv'
  <2>1. (PasLanceurs \cup {L}) \subseteq PasLanceurs'
    BY <1>2, <1>3, <1>6 DEF PasLanceurs
  <2>2. \A k \in Numeros : mStopProfil'[k] # Aucun => mStopProfil'[k] \in PasLanceurs'
    BY <1>1, <2>1 DEF PlanifInv, StopInv
  <2>3. \A u \in Timers : timers'[u].etat = "rappel" => timers'[u].stop \in PasLanceurs'
    BY <1>3, <1>4, <1>6, <2>1 DEF PlanifInv, StopInv
  <2>4. \A u \in Timers : EnAttente(u)' => timers'[u].prof \in Profils
    BY <1>2, <1>3, <1>4, <1>6 DEF PlanifInv, StopInv, EnAttente
  <2> QED
    BY <2>2, <2>3, <2>4 DEF StopInv, EnAttente
<1>12. StopPropre'
  <2>1. ASSUME NEW u \in Timers, EnAttente(u)'
        PROVE  \/ u = L /\ timers'[u].prof = q
               \/ u # L /\ EnAttente(u) /\ timers'[u].prof = timers[u].prof
                  /\ timers[u].prof \in Profils \ {q}
    <3>1. CASE u = L
      BY <3>1, <1>3, <1>6
    <3>2. CASE u # L
      <4>1. u # t
        BY <1>4, <1>6, <2>1 DEF EnAttente
      <4>2. timers'[u] = timers[u] /\ EnAttente(u)
        BY <3>2, <4>1, <1>6, <2>1 DEF EnAttente
      <4>3. timers[u].prof \in Profils /\ timers[u].prof # q
        BY <1>2, <4>2, EnAttenteFait
      <4> QED
        BY <3>2, <4>2, <4>3
    <3> QED
      BY <3>1, <3>2
  <2>2. ASSUME NEW u \in Timers, EnAttente(u)'
        PROVE  SuiviApres(timers'[u].prof, u)
    BY <1>1, <2>1, <2>2, <1>7, EnAttenteFait DEF Suivi, SuiviApres, tache
  <2>3. ASSUME NEW u \in Timers, EnAttente(u)', NEW v \in Timers, EnAttente(v)',
               timers'[v].prof = timers'[u].prof
        PROVE  v = u
    BY <2>1, <2>3, EnAttenteFait
  <2>4. ub' # "profil"
    BY <1>1 DEF Vivant
  <2> QED
    BY <2>2, <2>3, <2>4 DEF StopPropre, EnAttente, SuiviApres
<1> QED
  BY <1>8, <1>9, <1>10, <1>11, <1>12 DEF PlanifInv

-----------------------------------------------------------------------------
(***************************************************************************)
(* The end of the main task.                                               *)
(***************************************************************************)

LEMMA SortirInv == PlanifInv /\ Vivant /\ Sortir => PlanifInv'
<1> SUFFICES ASSUME PlanifInv, Vivant, Sortir PROVE PlanifInv'
  OBVIOUS
<1>1. /\ pc' = "sorti" /\ timers' = [t \in Timers |-> Vierge]
      /\ profils' = [q \in Profils |-> [etat |-> "libre", num |-> 0]]
      /\ mStopProfil' = [k \in Numeros |-> Aucun]
      /\ UNCHANGED <<sLastDay, num, off, neuf, horloge, mLanceurProfil, ub>>
  BY DEF Sortir
<1>2. Vierge \in Timer /\ Vierge.etat = "libre" /\ Vierge.prof = Aucun
  BY DEF Vierge, Timer, EtatTimer, Aucun
<1>3. TypeOK'
  BY <1>1, <1>2 DEF PlanifInv, TypeOK, horloge, EtatProfil
<1>4. \A t \in Timers : Termine(t)
  BY <1>1, <1>2 DEF Termine
<1>5. \A t \in Timers : ~EnAttente(t)'
  BY <1>1, <1>2 DEF EnAttente
<1> QED
  BY <1>1, <1>3, <1>4, <1>5, PasSansNouveauTimer DEF Vivant

LEMMA FinLanceursInv == PlanifInv /\ Vivant /\ FinLanceurs => PlanifInv'
<1> SUFFICES ASSUME PlanifInv, Vivant, FinLanceurs PROVE PlanifInv'
  OBVIOUS
<1> DEFINE connus == {mLanceurProfil[n] : n \in Nums} \ {Aucun}
<1>1. PICK tardifs \in SUBSET {t \in connus : Du(t, "start")} :
        timers' = [t \in Timers |->
          IF t \notin connus THEN timers[t]
          ELSE IF t \in tardifs THEN [timers[t] EXCEPT !.auto = TRUE]
          ELSE [Vierge EXCEPT !.auto = TRUE]]
  BY DEF FinLanceurs
<1>2. /\ pc = "fin" /\ pc' = "fin2" /\ mLanceurProfil' = [n \in Nums |-> Aucun]
      /\ ub' \in {"timer", ub}
      /\ UNCHANGED <<sLastDay, num, off, neuf, horloge, mStopProfil, profils>>
  BY DEF FinLanceurs
<1> HIDE DEF connus
<1>3. ASSUME NEW t \in Timers
      PROVE  timers'[t] \in Timer /\ (Continue(t) \/ Termine(t))
  <2>1. /\ timers[t] \in Timer
        /\ timers[t].etat = "libre" => timers[t].prof = Aucun
        /\ timers[t].etat = "arme" => timers[t].rem # 0
    BY DEF PlanifInv, TypeOK, LibreInv, NumInv
  <2>2. CASE timers'[t] = timers[t]
    BY <2>1, <2>2 DEF Continue, Termine
  <2>3. CASE t \in tardifs /\ timers'[t] = [timers[t] EXCEPT !.auto = TRUE]
    <3>1. timers[t].etat = "expire"
      BY <2>3 DEF Du
    <3>2. /\ timers'[t] \in Timer /\ timers'[t].etat = timers[t].etat
          /\ timers'[t].type = timers[t].type /\ timers'[t].num = timers[t].num
          /\ timers'[t].prof = timers[t].prof /\ timers'[t].stop = timers[t].stop
      BY <2>1, <2>3 DEF Timer
    <3> QED
      BY <3>1, <3>2 DEF Continue
  <2>4. CASE timers'[t] = [Vierge EXCEPT !.auto = TRUE]
    <3>1. [Vierge EXCEPT !.auto = TRUE] \in Timer
      BY ViergeFait
    <3> QED
      BY <2>4, <3>1 DEF Termine, Vierge
  <2> QED
    BY <1>1, <2>2, <2>3, <2>4
<1>4. timers' \in [Timers -> Timer]
  BY <1>1, <1>3
<1>5. TypeOK'
  BY <1>2, <1>4 DEF PlanifInv, TypeOK, horloge, Indefini
<1>6. \A t \in Timers : EnAttente(t)' => SuiviApres(timers[t].prof, t)
  BY <1>2, <1>3, SansNouveauTimer, EnAttenteFait DEF Suivi, SuiviApres
<1>7. \A k \in Numeros : mStopProfil'[k] # Aucun => mStopProfil'[k] \in PasLanceurs
  BY <1>2 DEF PlanifInv, StopInv
<1> QED
  BY <1>2, <1>3, <1>5, <1>6, <1>7, PasSansNouveauTimer DEF Vivant

\* The profile told to end is that of the timer about to be stopped: every
\* other timer is in charge of another profile.
LEMMA FinArretInv == PlanifInv /\ Vivant /\ FinArret => PlanifInv'
<1> SUFFICES ASSUME PlanifInv, Vivant, NEW k \in Reste,
                    /\ pc = "fin2" /\ pc' = "fin3" /\ num' = k /\ neuf' = mStopProfil[k]
                    /\ ub' = IF timers[mStopProfil[k]].etat = "libre" THEN "param"
                             ELSE IF /\ timers[mStopProfil[k]].etat # "inerte"
                                     /\ profils[timers[mStopProfil[k]].prof].etat
                                          \in {"libre", "echoue"}
                             THEN "profil" ELSE ub
                    /\ profils' = [p \in Profils |->
                         IF p = timers[mStopProfil[k]].prof
                            /\ timers[mStopProfil[k]].etat # "inerte" /\ profils[p].etat = "actif"
                         THEN [profils[p] EXCEPT !.etat = "arret"] ELSE profils[p]]
                    /\ UNCHANGED <<sLastDay, off, horloge, maps, timers>>
             PROVE  PlanifInv'
  BY DEF FinArret
<1> DEFINE u == mStopProfil[k]
           q == timers[u].prof
<1>1. k \in Numeros /\ u # Aucun
  BY DEF Reste
<1>2. u \in PasLanceurs /\ u \in Timers /\ (timers[u].etat # "libre" => EnAttente(u))
  BY <1>1 DEF PlanifInv, StopInv, PasLanceurs, EnAttente
<1>3. /\ profils' \in [Profils -> [etat : EtatProfil, num : Numeros \cup {0}]]
      /\ \A r \in Profils : r # q \/ profils[r].etat # "actif" => profils'[r] = profils[r]
  BY DEF PlanifInv, TypeOK, EtatProfil
<1>4. TypeOK'
  BY <1>1, <1>2, <1>3 DEF PlanifInv, TypeOK, horloge, maps, Indefini
<1>5. ub' = "profil" => \E r \in Profils : profils'[r].etat = "echoue"
  <2> SUFFICES ASSUME ub' = "profil" PROVE \E r \in Profils : profils'[r].etat = "echoue"
    OBVIOUS
  <2>1. EnAttente(u) /\ profils[q].etat \in {"libre", "echoue"}
    BY <1>2 DEF Vivant
  <2>2. q \in Profils /\ profils[q].etat = "echoue"
    BY <1>2, <2>1, EnAttenteFait DEF Suivi
  <2> QED
    BY <1>3, <2>2
<1>6. \A t \in Timers : EnAttente(t)' => SuiviApres(timers[t].prof, t)
  <2> SUFFICES ASSUME NEW t \in Timers, EnAttente(t)'
               PROVE  SuiviApres(timers[t].prof, t)
    OBVIOUS
  <2>1. /\ EnAttente(t) /\ timers[t].prof \in Profils /\ Suivi(timers[t].prof, t)
        /\ timers[t].prof # Aucun
    <3>1. EnAttente(t)
      BY DEF EnAttente
    <3>2. \A p \in Profils : p # Aucun
      BY SMT DEF Profils, Aucun
    <3> QED
      BY <3>1, <3>2, EnAttenteFait
  <2>2. CASE t = u
    BY <2>2 DEF SuiviApres
  <2>3. CASE t # u
    <3>1. timers[t].prof # q
      BY <1>2, <2>1, <2>3, EnAttenteFait DEF PlanifInv, LibreInv
    <3> QED
      BY <1>3, <2>1, <3>1 DEF Suivi, SuiviApres
  <2> QED
    BY <2>2, <2>3
<1>7. \A j \in Numeros : mStopProfil'[j] # Aucun => mStopProfil'[j] \in PasLanceurs
  BY DEF PlanifInv, StopInv, maps
<1> QED
  BY <1>4, <1>5, <1>6, <1>7, TimersInchanges, PasSansNouveauTimer

LEMMA FinStopInv == PlanifInv /\ Vivant /\ FinStop => PlanifInv'
<1> SUFFICES ASSUME PlanifInv, Vivant, FinStop PROVE PlanifInv'
  OBVIOUS
<1>1. /\ pc = "fin3" /\ pc' = "fin2" /\ neuf' = Aucun
      /\ timers' = [timers EXCEPT ![neuf] = [Vierge EXCEPT !.auto = TRUE]]
      /\ ub' \in {ub, "timer", "param"}
      /\ UNCHANGED <<sLastDay, num, off, horloge, maps, profils>>
  BY DEF FinStop
<1>2. ASSUME NEW t \in Timers
      PROVE  timers'[t] \in Timer /\ (Continue(t) \/ Termine(t)) /\ (t = neuf => Termine(t))
  <2>1. /\ timers[t] \in Timer
        /\ timers[t].etat = "libre" => timers[t].prof = Aucun
        /\ timers[t].etat = "arme" => timers[t].rem # 0
        /\ timers'[t] = IF t = neuf THEN [Vierge EXCEPT !.auto = TRUE] ELSE timers[t]
    BY <1>1 DEF PlanifInv, TypeOK, LibreInv, NumInv
  <2>2. CASE t = neuf
    BY <2>1, <2>2, ViergeFait DEF Termine, Vierge
  <2>3. CASE t # neuf
    BY <2>1, <2>3 DEF Termine, Continue
  <2> QED
    BY <2>2, <2>3
<1>3. timers' \in [Timers -> Timer]
  BY <1>1, <1>2 DEF PlanifInv, TypeOK
<1>4. TypeOK'
  BY <1>1, <1>3 DEF PlanifInv, TypeOK, horloge, maps, Indefini
<1>5. \A t \in Timers : EnAttente(t)' => SuiviApres(timers[t].prof, t)
  <2> SUFFICES ASSUME NEW t \in Timers, EnAttente(t)'
               PROVE  SuiviApres(timers[t].prof, t)
    OBVIOUS
  <2>1. t # neuf /\ EnAttente(t)
    BY <1>2, SansNouveauTimer DEF Termine, EnAttente
  <2> QED
    BY <1>1, <2>1, EnAttenteFait DEF Suivi, SuiviApres
<1>6. \A j \in Numeros : mStopProfil'[j] # Aucun => mStopProfil'[j] \in PasLanceurs
  BY <1>1 DEF PlanifInv, StopInv, maps
<1>7. ub' # "profil"
  BY <1>1 DEF Vivant
<1> QED
  BY <1>1, <1>2, <1>4, <1>5, <1>6, <1>7, PasSansNouveauTimer

LEMMA FinMapsInv == PlanifInv /\ Vivant /\ FinMaps => PlanifInv'
<1> SUFFICES ASSUME PlanifInv, Vivant, FinMaps PROVE PlanifInv'
  OBVIOUS
<1>1. /\ pc = "fin2" /\ pc' = "sortie" /\ num' = 0
      /\ mStopProfil' = [k \in Numeros |-> Aucun]
      /\ UNCHANGED <<sLastDay, off, neuf, horloge, mLanceurProfil, timers, profils, ub>>
  BY DEF FinMaps
<1>2. TypeOK'
  BY <1>1 DEF PlanifInv, TypeOK, horloge
<1>3. \A t \in Timers : EnAttente(t)' => SuiviApres(timers[t].prof, t)
  BY <1>1, EnAttenteFait DEF EnAttente, Suivi, SuiviApres
<1>4. \A j \in Numeros : mStopProfil'[j] # Aucun => mStopProfil'[j] \in PasLanceurs
  BY <1>1
<1> QED
  BY <1>1, <1>2, <1>3, <1>4, TimersInchanges, PasSansNouveauTimer DEF Vivant

-----------------------------------------------------------------------------
\* Every step keeps the invariant.
LEMMA NextPlanifInv == PlanifInv /\ [Next]_vars => PlanifInv'
<1> SUFFICES ASSUME PlanifInv, [Next]_vars PROVE PlanifInv'
  OBVIOUS
<1>1. CASE Vivant /\ (Tick \/ Saut \/ ChangerHeure)
  BY <1>1, TickInv, SautInv, ChangerHeureInv
<1>2. CASE Vivant /\ (TachePrincipale \/ Quitter)
  BY <1>2, ChangementDeJourInv, LireOffsetInv, PlanifierAvenirInv, PlanifierMaintenantInv,
     PlanifierPasseInv, InsererInv, FinLanceursInv, FinArretInv, FinStopInv, FinMapsInv, SortirInv, QuitterInv
  DEF TachePrincipale
<1>3. CASE Vivant /\ (Rappels \/ FinProfils \/ EchecProfils \/ Course)
  BY <1>3, LancerProfilInv, DemarrerProfilInv, ArreterProfilInv, CallbackIndefiniInv,
     FinirProfilInv, EchouerProfilInv, CourseInv
  DEF Rappels, FinProfils, EchecProfils
<1>4. CASE UNCHANGED vars
  <2>1. TypeOK'
    BY <1>4 DEF vars, horloge, tache, maps, PlanifInv, TypeOK
  <2>2. /\ ub' = ub /\ UNCHANGED <<pc, num, neuf>>
        /\ UNCHANGED <<timers, profils, mStopProfil>>
    BY <1>4 DEF vars, tache, maps
  <2> QED
    BY <2>1, <2>2, PasAilleurs DEF PlanifInv, NumInv, StopPropre
<1> QED
  BY <1>1, <1>2, <1>3, <1>4 DEF Next, Repos

\* The variables keep the types the code gives them, whatever the table, the
\* clock and the width of time_t (MainTache.cpp, Timer.cpp).
THEOREM PlanifTypeOK == Spec => []TypeOK
<1>1. PlanifInv => TypeOK
  BY DEF PlanifInv
<1> QED
  BY <1>1, InitPlanifInv, NextPlanifInv, PTL DEF Spec

\* No stop timer is left in charge of a profile that another one has stopped or
\* is in charge of.  A profile goes before its stop timer only when its select
\* fails, or between two statements of the clean-up, and it is used once it is
\* gone in the first case only (MainTache.cpp:132-137, 243, 277-280,
\* Profil.cpp:70-72).
THEOREM PlanifStopPropre == Spec => []StopPropre
<1>1. PlanifInv => StopPropre
  BY DEF PlanifInv
<1> QED
  BY <1>1, InitPlanifInv, NextPlanifInv, PTL DEF Spec
=============================================================================
