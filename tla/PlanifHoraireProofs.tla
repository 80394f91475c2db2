------------------------ MODULE PlanifHoraireProofs ------------------------
(***************************************************************************)
(* Proofs about Planification, for every table of plannings that leaves    *)
(* the margins stated below, on a clock that is not stepped: plannings are *)
(* made, launched and stopped on time, day after day, and nothing but the  *)
(* races the code leaves open can make its behaviour undefined.            *)
(***************************************************************************)
EXTENDS PlanificationProofs

heure    == tGetOffsetFromMidnight
Debut(n) == Planifs[n].debut
Duree(n) == Planifs[n].period

\* The margins under which a day goes as planned: the clock is not stepped and
\* keeps its time zone; a planning begins more than Lag ticks after both
\* midnights and more than 2 * Lag before the next local one, lasts longer than
\* that and is over long enough before it begins again; its length in time_t
\* does not overflow; two plannings do not share a profile; and the program is
\* not started within Lag ticks of the end of a planning or, during one, of
\* midnight.
Marges ==
  /\ MaxSauts = 0
  /\ \A n \in Nums : /\ \A z \in Fuseaux : z + Lag < Debut(n)
                     /\ Debut(n) + 2 * Lag < Jour
                     /\ 2 * Lag < Duree(n) /\ Duree(n) + Lag < Jour
                     /\ Duree(n) * UsecTick < Largeur \div 2
  /\ \A m, n \in Nums : Planifs[m].profil = Planifs[n].profil => m = n
  /\ \A d \in Depart, n \in Nums :
       DansFenetre(n, d) => d + Lag < Debut(n) + Duree(n) /\ d + Lag < Jour

-----------------------------------------------------------------------------
(***************************************************************************)
(* The inductive invariant.                                                *)
(***************************************************************************)

Service == pc \in {"select", "offset", "plan", "insert", "fin"}

\* The ticks since planning n last began.
Ecoule(n) == IF heure >= Debut(n) THEN heure - Debut(n) ELSE heure - Debut(n) + Jour

\* A CProfil of planning n exists; the planning has neither that nor a launcher.
Tourne(n) == \E q \in Profils : profils[q].etat # "libre" /\ profils[q].num = Planifs[n].profil
Intact(n) == Attendus(n) = {} /\ mLanceurProfil[n] = Aucun /\ ~Tourne(n)

\* The UTC day has just begun.
MinuitUtc == tz <= heure /\ heure <= tz + retard

\* The plannings of the first day that are still to be made, since the start.
AFaire(m) ==
  \/ pc \in {"select", "offset"}
  \/ pc = "plan" /\ m >= num
  \/ pc = "insert" /\ m > num
Premier ==
  /\ \E d \in Depart : heure = d + retard \/ heure = d + retard - Jour
  /\ \A m \in Nums : AFaire(m) => Intact(m)

\* The day of the plannings is the current one, but at the start and until the
\* main task has seen a new one.
JourInv ==
  YDay # sLastDay => MinuitUtc \/ (sLastDay = -1 /\ pc \in {"select", "fin"})

\* Plannings are made at the beginning of a UTC day or at the start.
OccupeInv ==
  pc \in {"offset", "plan", "insert"} \/ (pc = "select" /\ YDay # sLastDay)
    => MinuitUtc \/ Premier

\* The offset read for them is still right, but when midnight has gone by and
\* all of them are over.
PlanInv ==
  pc \in {"plan", "insert"} =>
    \/ off <= heure /\ heure <= off + retard
    \/ /\ heure < tz \/ YDay # sLastDay
       /\ \A n \in Nums : Debut(n) + Duree(n) <= off

\* A launcher runs out at the beginning of its planning, or up to Lag later.
LanceurOK(n, r) ==
  /\ r.etat = "arme" => /\ r.rem >= 1
                        /\ Debut(n) <= heure + r.rem /\ heure + r.rem <= Debut(n) + Lag
  /\ r.etat = "expire" => /\ Debut(n) <= heure
                          /\ heure + Lag - retard < Debut(n) + Duree(n)
                          /\ heure + Lag - retard < Jour
LanceurInv ==
  \A n \in Nums :
    /\ \A t \in Attendus(n) : LanceurOK(n, timers[t])
    /\ Attendus(n) # {} /\ heure >= Debut(n) => ~Tourne(n)

\* The map holds the launchers, but the one that is being put in it.
CarteInv ==
  /\ \A n \in Nums : Attendus(n) \ {neuf} = {mLanceurProfil[n]} \ {Aucun}
  /\ pc = "insert" => Attendus(num) = {neuf}
  /\ pc # "insert" => neuf = Aucun

\* In the launcher's callback, the profile and its stop timer are new.
RappelOK(t) ==
  LET n == timers[t].num
      u == timers[t].stop
  IN
  /\ timers[t].type = "start" /\ timers[t].prof \in Profils /\ u \in Timers
  /\ profils[timers[t].prof].etat = "cree" /\ profils[timers[t].prof].num = Planifs[n].profil
  /\ timers[u].type = "stop" /\ timers[u].etat = "arme" /\ timers[u].prof = timers[t].prof
  /\ Ecoule(n) + Lag - retard < Duree(n)
RappelInv == \A t \in Timers : timers[t].etat = "rappel" => RappelOK(t)

\* A stop timer runs out at the end of the planning of its profile.
MinuteOK(u, n) ==
  /\ timers[u].num = Planifs[n].profil /\ profils[timers[u].prof].num = Planifs[n].profil
  /\ timers[u].etat \in {"arme", "expire"}
  /\ timers[u].etat = "arme" => timers[u].rem >= 1 /\ Ecoule(n) + timers[u].rem = Duree(n)
  /\ timers[u].etat = "expire" => Duree(n) <= Ecoule(n) /\ Ecoule(n) <= Duree(n) + retard
MinuteInv == \A u \in Timers : EnAttente(u) => \E n \in Nums : MinuteOK(u, n)

\* A profile is new while a launcher is in its callback, runs (or fails) under
\* the stop timer in the map, and is told to end when its planning is over.
CreeOK(q) == \E t \in Timers : timers[t].etat = "rappel" /\ timers[t].prof = q
ActifOK(q) ==
  \E u \in Timers : EnAttente(u) /\ timers[u].prof = q /\ mStopProfil[profils[q].num] = u
ArretOK(q) ==
  \E n \in Nums : /\ profils[q].num = Planifs[n].profil
                  /\ Duree(n) <= Ecoule(n) /\ Ecoule(n) <= Duree(n) + retard
ProfilInv ==
  \A q \in Profils : /\ profils[q].etat = "cree" => CreeOK(q)
                     /\ profils[q].etat \in {"actif", "echoue"} => ActifOK(q)
                     /\ profils[q].etat = "arret" => ArretOK(q)

\* Once planning n is made for today, it is awaited until it begins, then its
\* profile is launched until it is over.
Allume(n) ==
  \E q \in Profils : /\ profils[q].etat \in {"cree", "actif", "echoue"}
                     /\ profils[q].num = Planifs[n].profil
ALieu(n) ==
  /\ sLastDay = YDay /\ heure >= tz
  /\ pc \in {"select", "fin"} \/ (pc \in {"plan", "insert"} /\ n < num)
PrevuInv ==
  \A n \in Nums : ALieu(n) /\ heure < Debut(n) + Duree(n) =>
    Attendus(n) # {} \/ (heure >= Debut(n) /\ Allume(n))

\* A planning has one CProfil at most, and a new CProfil one launcher.
Unique ==
  /\ \A q, r \in Profils : profils[q].etat # "libre" /\ profils[r].etat # "libre"
                             /\ profils[q].num = profils[r].num => q = r
  /\ \A t, u \in Timers : timers[t].etat = "rappel" /\ timers[u].etat = "rappel"
                             /\ timers[t].prof = timers[u].prof => t = u
  /\ \A t \in Timers : timers[t].etat = "rappel" =>
       timers[t].prof \in Profils /\ profils[timers[t].prof].etat = "cree"

FiniInv == pc \in {"fin2", "fin3", "sortie", "sorti"} => \A n \in Nums : mLanceurProfil[n] = Aucun

\* What holds while the main task is in service.
ServiceInv ==
  /\ JourInv /\ OccupeInv /\ PlanInv
  /\ LanceurInv /\ CarteInv /\ PrevuInv
  /\ RappelInv /\ MinuteInv /\ ProfilInv

Ordre ==
  /\ Unique /\ FiniInv /\ IndefiniSeulementCourse
  /\ Service => ServiceInv

HoraireInv == PlanifInv /\ Ordre

-----------------------------------------------------------------------------
(***************************************************************************)
(* Time.                                                                   *)
(***************************************************************************)

\* What the margins say of the clock and of planning n.
Bornes(n) ==
  /\ heure \in Int /\ 0 <= heure /\ heure < Jour
  /\ retard \in Int /\ 0 <= retard /\ retard <= Lag /\ Lag \in Int /\ Jour \in Int
  /\ tz \in Int /\ 0 <= tz /\ tz + Lag < Debut(n)
  /\ Debut(n) \in Int /\ Duree(n) \in Int /\ off \in Int
  /\ Debut(n) + 2 * Lag < Jour /\ 2 * Lag < Duree(n) /\ Duree(n) + Lag < Jour

LEMMA BornesFait ==
  ASSUME Marges, TypeOK, NEW n \in Nums
  PROVE  Bornes(n)
<1>1. Jour \in Nat \ {0} /\ Lag \in Nat /\ retard \in 0..Lag /\ tz \in Fuseaux
      /\ off \in 0..(Jour - 1)
  BY TempsAssumption DEF TypeOK
<1>2. tz \in 0..(Jour - 1)
  BY <1>1, TempsAssumption
<1>3. Debut(n) \in 0..(Jour - 1) /\ Duree(n) \in 1..Jour
  BY PlanifsAssumption DEF Debut, Duree
<1>4. /\ tz + Lag < Debut(n) /\ Debut(n) + 2 * Lag < Jour
      /\ 2 * Lag < Duree(n) /\ Duree(n) + Lag < Jour
  BY <1>1 DEF Marges
<1>5. wall \in Int
  BY SiecleFait DEF TypeOK
<1>6. heure \in 0..(Jour - 1)
  BY <1>1, <1>2, <1>5, SMT DEF heure, tGetOffsetFromMidnight
<1> QED
  BY <1>1, <1>2, <1>3, <1>4, <1>6, SMT DEF Bornes

\* The same, with no planning at hand.
LEMMA HeureFait ==
  ASSUME Marges, TypeOK
  PROVE  /\ heure \in Int /\ 0 <= heure /\ heure < Jour
         /\ retard \in Int /\ 0 <= retard /\ retard <= Lag /\ Lag \in Int /\ Jour \in Int
         /\ tz \in Int /\ 0 <= tz /\ tz + 3 * Lag < Jour /\ off \in Int
<1>1. PICK n \in Nums : Bornes(n)
  BY BornesFait, PlanifsAssumption
<1> QED
  BY <1>1, SMT DEF Bornes

\* Two numbers give back a dividend.
LEMMA DivModFait ==
  ASSUME NEW w \in Nat, NEW j \in Nat \ {0}
  PROVE  \E q, r \in Nat : w = q * j + r /\ r < j /\ w \div j = q /\ w % j = r
<1> DEFINE q == w \div j
           r == w % j
<1>1. q \in Nat /\ r \in Nat /\ r < j
  BY SMT
<1>2. r = w - j * q
  BY SMT
<1> HIDE DEF q, r
<1>3. w = q * j + r
  BY <1>1, <1>2, SMT
<1> QED
  BY <1>1, <1>3 DEF q, r

\* They are the only ones.
LEMMA DivModSeul ==
  ASSUME NEW q \in Nat, NEW r \in Nat, NEW j \in Nat \ {0}, r < j
  PROVE  (q * j + r) \div j = q /\ (q * j + r) % j = r
  BY SMT

\* The time of day is the UTC one, and the offset of the time zone.
LEMMA HeureLocale ==
  ASSUME NEW q \in Nat, NEW r \in Nat, NEW j \in Nat \ {0}, r < j,
         NEW z \in Nat, z < j
  PROVE  (q * j + r + z) % j = IF r + z < j THEN r + z ELSE r + z - j
<1>1. CASE r + z < j
  BY <1>1, DivModSeul, SMT
<1>2. CASE ~(r + z < j)
  <2>1. r + z - j \in Nat /\ r + z - j < j /\ q + 1 \in Nat
    BY <1>2, SMT
  <2>2. ((q + 1) * j + (r + z - j)) % j = r + z - j
    BY <2>1, DivModSeul
  <2>3. (q + 1) * j + (r + z - j) = q * j + r + z
    BY SMT
  <2> QED
    BY <1>2, <2>2, <2>3
<1> QED
  BY <1>1, <1>2

\* A tick, with the day and the hour apart.
Avance(q, r, j, a) == (q * j + r + 1) % (a * j)

LEMMA JourSuivant ==
  ASSUME NEW q \in Nat, NEW r \in Nat, NEW j \in Nat, j # 0, r < j,
         NEW a \in Nat, a # 0, a # 1, q < a
  PROVE  /\ r + 1 < j => Avance(q, r, j, a) = q * j + (r + 1)
         /\ r + 1 = j /\ q + 1 # a => Avance(q, r, j, a) = (q + 1) * j + 0
         /\ r + 1 = j /\ q + 1 = a => Avance(q, r, j, a) = 0 * j + 0
<1> USE DEF Avance
<1> DEFINE v == q * j + r + 1
           c == a * j
<1>1. PICK d \in Nat : a = q + 1 + d
  <2>1. a - q - 1 \in Nat /\ a = q + 1 + (a - q - 1)
    BY SMT
  <2> QED
    BY <2>1
<1>2. c = q * j + j + d * j /\ d * j \in Nat /\ q * j \in Nat
  BY <1>1, SMT
<1>3. v \in Nat /\ c \in Nat \ {0} /\ v <= c
  BY <1>2, SMT
<1>4. v < c => v % c = v
  <2> HIDE DEF v, c
  <2> QED
    BY <1>3, SMT
<1>5. v = c => v % c = 0
  <2> HIDE DEF v, c
  <2> QED
    BY <1>3, SMT
<1>6. CASE r + 1 < j
  <2>1. v < c
    BY <1>2, <1>6, SMT
  <2> QED
    BY <1>4, <1>6, <2>1, SMT
<1>7. CASE r + 1 = j /\ d = 0
  <2>1. v = c /\ q + 1 = a
    BY <1>1, <1>2, <1>7, SMT
  <2>2. 0 * j + 0 = 0
    BY SMT
  <2> QED
    BY <1>5, <1>7, <2>1, <2>2, SMT
<1>8. CASE r + 1 = j /\ d # 0
  <2>1. d * j > 0 /\ q + 1 # a
    BY <1>1, <1>8, SMT
  <2>2. v = (q + 1) * j + 0 /\ v < c
    BY <1>2, <1>8, <2>1, SMT
  <2> QED
    BY <1>4, <1>8, <2>1, <2>2, SMT
<1> QED
  BY <1>6, <1>7, <1>8, SMT

\* A tick moves the time of day on by one, and changes the UTC day when the
\* local time becomes tz.  Work that is due may wait for Lag ticks.
LEMMA TickFait ==
  ASSUME Marges, TypeOK, Tick
  PROVE  /\ heure' = IF heure + 1 = Jour THEN 0 ELSE heure + 1
         /\ YDay' # YDay <=> heure' = tz
         /\ tz' = tz
         /\ EnCours => retard < Lag /\ retard' = retard + 1
         /\ ~EnCours => retard' = 0
<1>1. /\ Jour \in Nat \ {0} /\ Annee \in Nat \ {0, 1} /\ tz \in Nat /\ tz < Jour
      /\ wall \in Nat
  <2>1. tz \in 0..(Jour - 1) /\ Jour \in Nat \ {0} /\ Annee \in Nat \ {0, 1}
    BY TempsAssumption DEF TypeOK
  <2>2. wall \in Siecle /\ Annee * Jour \in Nat \ {0}
    BY SiecleFait DEF TypeOK
  <2> QED
    BY <2>1, <2>2, SMT DEF Siecle
<1>2. PICK q \in Nat, r \in Nat :
        wall = q * Jour + r /\ r < Jour /\ wall \div Jour = q /\ wall % Jour = r
  BY <1>1, DivModFait
<1>3. q < Annee
  <2>1. wall \div Jour \in 0..(Annee - 1)
    BY SiecleFait DEF TypeOK
  <2> QED
    BY <1>1, <1>2, <2>1, SMT
<1>4. YDay = q /\ heure = IF r + tz < Jour THEN r + tz ELSE r + tz - Jour
  BY <1>1, <1>2, HeureLocale DEF YDay, heure, tGetOffsetFromMidnight
<1>5. wall' = (q * Jour + r + 1) % (Annee * Jour) /\ tz' = tz
  BY <1>2 DEF Tick
<1>6. ASSUME NEW p \in Nat, NEW s \in Nat, s < Jour, wall' = p * Jour + s
      PROVE  YDay' = p /\ heure' = IF s + tz < Jour THEN s + tz ELSE s + tz - Jour
  <2>1. YDay' = (p * Jour + s) \div Jour /\ heure' = (p * Jour + s + tz) % Jour
    BY <1>5, <1>6 DEF YDay, heure, tGetOffsetFromMidnight
  <2>2. (p * Jour + s) \div Jour = p
    BY <1>1, <1>6, DivModSeul
  <2> QED
    BY <1>1, <1>6, <2>1, <2>2, HeureLocale
<1>7. /\ r + 1 < Jour => wall' = q * Jour + (r + 1)
      /\ r + 1 = Jour /\ q + 1 # Annee => wall' = (q + 1) * Jour + 0
      /\ r + 1 = Jour /\ q + 1 = Annee => wall' = 0 * Jour + 0
  <2>1. /\ Jour \in Nat /\ Jour # 0 /\ Annee \in Nat /\ Annee # 0 /\ Annee # 1
        /\ r < Jour /\ q < Annee
    BY <1>1, <1>2, <1>3
  <2>2. wall' = Avance(q, r, Jour, Annee)
    BY <1>5 DEF Avance
  <2> QED
    BY <2>1, <2>2, JourSuivant
<1>8. CASE r + 1 < Jour
  <2>1. r + 1 \in Nat
    BY SMT
  <2>2. YDay' = q /\ heure' = IF r + 1 + tz < Jour THEN r + 1 + tz ELSE r + 1 + tz - Jour
    BY <1>6, <1>7, <1>8, <2>1
  <2>3. heure' # tz /\ heure' = IF heure + 1 = Jour THEN 0 ELSE heure + 1
    BY <1>1, <1>2, <1>4, <1>8, <2>2, SMT
  <2> QED
    BY <1>4, <1>5, <2>2, <2>3 DEF Tick
<1>9. CASE r + 1 = Jour
  <2>1. PICK p \in Nat : p # q /\ wall' = p * Jour + 0
    <3>1. CASE q + 1 = Annee
      <4>1. 0 # q /\ 0 \in Nat
        BY <1>1, <3>1, SMT
      <4> QED
        BY <1>7, <1>9, <3>1, <4>1
    <3>2. CASE q + 1 # Annee
      <4>1. q + 1 # q /\ q + 1 \in Nat
        BY SMT
      <4> QED
        BY <1>7, <1>9, <3>2, <4>1
    <3> QED
      BY <3>1, <3>2
  <2>2. 0 \in Nat /\ 0 < Jour /\ 0 + tz = tz
    BY <1>1, SMT
  <2>3. YDay' = p /\ heure' = tz
    BY <1>1, <1>6, <2>1, <2>2
  <2>4. heure' = IF heure + 1 = Jour THEN 0 ELSE heure + 1
    BY <1>1, <1>2, <1>4, <1>9, <2>3, SMT
  <2> QED
    BY <1>4, <1>5, <2>1, <2>3, <2>4 DEF Tick
<1> QED
  BY <1>1, <1>2, <1>8, <1>9, SMT

-----------------------------------------------------------------------------
(***************************************************************************)
(* What a step that leaves the clock alone keeps.                          *)
(***************************************************************************)

LEMMA HorlogeInchangee ==
  ASSUME UNCHANGED horloge
  PROVE  /\ heure' = heure /\ YDay' = YDay /\ retard' = retard /\ tz' = tz
         /\ MinuitUtc' = MinuitUtc
         /\ \A n \in Nums : Ecoule(n)' = Ecoule(n)
<1>1. heure' = heure /\ YDay' = YDay /\ retard' = retard /\ tz' = tz
  BY DEF horloge, heure, tGetOffsetFromMidnight, YDay
<1>2. MinuitUtc' = MinuitUtc
  BY <1>1 DEF MinuitUtc
<1>3. \A n \in Nums : Ecoule(n)' = Ecoule(n)
  BY <1>1 DEF Ecoule
<1> QED
  BY <1>1, <1>2, <1>3

\* Once the main task is no longer in service, it is cleaning up.
LEMMA ServiceFait ==
  ASSUME TypeOK
  PROVE  Service \/ pc \in {"fin2", "fin3", "sortie", "sorti"}
  BY DEF TypeOK, Service

LEMMA JourCadre ==
  ASSUME JourInv, UNCHANGED horloge, sLastDay' = sLastDay,
         pc \in {"select", "fin"} /\ sLastDay = -1 => pc' \in {"select", "fin"}
  PROVE  JourInv'
  BY HorlogeInchangee DEF JourInv

\* The plannings that are still to be made are left alone.
LEMMA OccupeCadre ==
  ASSUME OccupeInv, UNCHANGED <<horloge, tache>>,
         \A m \in Nums : Intact(m) => Intact(m)'
  PROVE  OccupeInv'
<1>1. UNCHANGED <<pc, num, sLastDay>> /\ UNCHANGED horloge
  BY DEF tache
<1>2. heure' = heure /\ retard' = retard /\ YDay' = YDay /\ MinuitUtc' = MinuitUtc
  BY <1>1, HorlogeInchangee
<1>3. \A m \in Nums : AFaire(m)' = AFaire(m)
  BY <1>1 DEF AFaire
<1>4. Premier => Premier'
  BY <1>2, <1>3 DEF Premier
<1> QED
  BY <1>1, <1>2, <1>4 DEF OccupeInv

LEMMA PlanCadre ==
  ASSUME PlanInv, UNCHANGED <<horloge, tache>>
  PROVE  PlanInv'
<1>1. UNCHANGED <<pc, off, sLastDay>> /\ UNCHANGED horloge
  BY DEF tache
<1> QED
  BY <1>1, HorlogeInchangee DEF PlanInv

\* Launchers are not delayed, and their plannings not begun.
LEMMA LanceurCadre ==
  ASSUME LanceurInv, UNCHANGED horloge,
         \A n \in Nums : \A t \in Attendus(n)' : t \in Attendus(n) /\ timers'[t] = timers[t],
         \A n \in Nums : Tourne(n)' => Tourne(n) \/ Attendus(n)' = {}
  PROVE  LanceurInv'
<1>1. heure' = heure /\ retard' = retard
  BY HorlogeInchangee
<1> SUFFICES ASSUME NEW n \in Nums
             PROVE  /\ \A t \in Attendus(n)' : LanceurOK(n, timers[t])'
                    /\ Attendus(n)' # {} /\ heure' >= Debut(n) => ~Tourne(n)'
  BY DEF LanceurInv
<1>2. ASSUME NEW t \in Attendus(n)'
      PROVE  LanceurOK(n, timers[t])'
  BY <1>1, <1>2 DEF LanceurInv, LanceurOK
<1>3. ASSUME Attendus(n)' # {}, heure' >= Debut(n)
      PROVE  ~Tourne(n)'
  BY <1>1, <1>3 DEF LanceurInv
<1> QED
  BY <1>2, <1>3

LEMMA CarteCadre ==
  ASSUME CarteInv, UNCHANGED <<pc, num, neuf, mLanceurProfil>>,
         \A n \in Nums : Attendus(n)' = Attendus(n),
         pc = "insert" => num \in Nums
  PROVE  CarteInv'
  BY DEF CarteInv

LEMMA RappelCadre ==
  ASSUME RappelInv, UNCHANGED horloge, PlanifInv,
         \A t \in Timers : timers'[t].etat = "rappel" =>
           /\ timers[t].etat = "rappel" /\ timers'[t] = timers[t]
           /\ timers'[timers[t].stop] = timers[timers[t].stop]
           /\ profils'[timers[t].prof] = profils[timers[t].prof]
  PROVE  RappelInv'
<1> SUFFICES ASSUME NEW t \in Timers, timers'[t].etat = "rappel"
             PROVE  RappelOK(t)'
  BY DEF RappelInv
<1>1. RappelOK(t)
  BY DEF RappelInv
<1>2. timers[t].num \in Nums /\ retard' = retard
      /\ Ecoule(timers[t].num)' = Ecoule(timers[t].num)
  BY <1>1, HorlogeInchangee DEF PlanifInv, NumInv, RappelOK
<1> QED
  BY <1>1, <1>2 DEF RappelOK

LEMMA MinuteCadre ==
  ASSUME MinuteInv, UNCHANGED horloge,
         \A u \in Timers : EnAttente(u)' =>
           /\ EnAttente(u) /\ timers'[u] = timers[u]
           /\ profils'[timers[u].prof].num = profils[timers[u].prof].num
  PROVE  MinuteInv'
<1> SUFFICES ASSUME NEW u \in Timers, EnAttente(u)'
             PROVE  \E n \in Nums : MinuteOK(u, n)'
  BY DEF MinuteInv
<1>1. PICK n \in Nums : MinuteOK(u, n)
  BY DEF MinuteInv
<1>2. retard' = retard /\ Ecoule(n)' = Ecoule(n)
  BY HorlogeInchangee
<1> QED
  BY <1>1, <1>2 DEF MinuteOK

LEMMA ArretCadre ==
  ASSUME UNCHANGED horloge, NEW q \in Profils, ArretOK(q), profils'[q] = profils[q]
  PROVE  ArretOK(q)'
<1>1. retard' = retard /\ \A n \in Nums : Ecoule(n)' = Ecoule(n)
  BY HorlogeInchangee
<1> QED
  BY <1>1 DEF ArretOK

\* Whoever is awaited or lit stays so.
Tenu(n) == Attendus(n) # {} \/ (heure >= Debut(n) /\ Allume(n))

LEMMA PrevuCadre ==
  ASSUME PrevuInv, UNCHANGED <<horloge, tache>>,
         \A n \in Nums : heure < Debut(n) + Duree(n) /\ Tenu(n) => Tenu(n)'
  PROVE  PrevuInv'
<1>1. UNCHANGED <<pc, num, sLastDay>> /\ UNCHANGED horloge
  BY DEF tache
<1>2. heure' = heure /\ YDay' = YDay /\ tz' = tz
  BY <1>1, HorlogeInchangee
<1>3. \A n \in Nums : ALieu(n)' = ALieu(n)
  BY <1>1, <1>2 DEF ALieu
<1> QED
  BY <1>2, <1>3 DEF PrevuInv, Tenu

\* No profile is made, and no callback begun.
LEMMA UniqueCadre ==
  ASSUME Unique,
         \A q \in Profils : profils'[q].etat # "libre" =>
           profils[q].etat # "libre" /\ profils'[q].num = profils[q].num,
         \A t \in Timers : timers'[t].etat = "rappel" =>
           /\ timers[t].etat = "rappel" /\ timers'[t].prof = timers[t].prof
           /\ profils'[timers[t].prof] = profils[timers[t].prof]
  PROVE  Unique'
<1>1. \A q, r \in Profils : profils'[q].etat # "libre" /\ profils'[r].etat # "libre"
                              /\ profils'[q].num = profils'[r].num => q = r
  BY DEF Unique
<1>2. \A t, u \in Timers : timers'[t].etat = "rappel" /\ timers'[u].etat = "rappel"
                              /\ timers'[t].prof = timers'[u].prof => t = u
  BY DEF Unique
<1>3. \A t \in Timers : timers'[t].etat = "rappel" =>
        timers'[t].prof \in Profils /\ profils'[timers'[t].prof].etat = "cree"
  BY DEF Unique
<1> QED
  BY <1>1, <1>2, <1>3 DEF Unique

\* The launchers and profiles that are left alone.
LEMMA AttendusInchanges ==
  ASSUME timers' = timers
  PROVE  \A n \in Nums : Attendus(n)' = Attendus(n)
  BY DEF Attendus

LEMMA ProfilsInchanges ==
  ASSUME profils' = profils
  PROVE  \A n \in Nums : Tourne(n)' = Tourne(n) /\ Allume(n)' = Allume(n)
  BY DEF Tourne, Allume

\* The timers in charge of the profiles go on.
LEMMA ProfilCadre ==
  ASSUME ProfilInv, UNCHANGED horloge,
         UNCHANGED profils, UNCHANGED mStopProfil,
         \A t \in Timers : timers[t].etat = "rappel" \/ EnAttente(t) => timers'[t] = timers[t]
  PROVE  ProfilInv'
<1> SUFFICES ASSUME NEW q \in Profils
             PROVE  /\ profils'[q].etat = "cree" => CreeOK(q)'
                    /\ profils'[q].etat \in {"actif", "echoue"} => ActifOK(q)'
                    /\ profils'[q].etat = "arret" => ArretOK(q)'
  BY DEF ProfilInv
<1>1. profils'[q].etat = "arret" => ArretOK(q)'
  BY ArretCadre DEF ProfilInv
<1>2. profils'[q].etat = "cree" => CreeOK(q)'
  BY DEF ProfilInv, CreeOK
<1>3. profils'[q].etat \in {"actif", "echoue"} => ActifOK(q)'
  BY DEF ProfilInv, ActifOK, EnAttente
<1> QED
  BY <1>1, <1>2, <1>3

\* A step that leaves the clock, the timers, the maps and the profiles alone.
LEMMA ObjetsInchanges ==
  ASSUME PlanifInv, Ordre, Service,
         UNCHANGED <<horloge, timers, profils, maps>>
  PROVE  LanceurInv' /\ RappelInv' /\ MinuteInv' /\ ProfilInv' /\ Unique'
<1>1. UNCHANGED horloge /\ timers' = timers /\ profils' = profils
      /\ mStopProfil' = mStopProfil
  BY DEF maps
<1>2. LanceurInv /\ RappelInv /\ MinuteInv /\ ProfilInv /\ Unique
  BY DEF Ordre, ServiceInv
<1>3. LanceurInv'
  BY <1>1, <1>2, LanceurCadre, AttendusInchanges, ProfilsInchanges
<1>4. RappelInv'
  BY <1>1, <1>2, RappelCadre
<1>5. MinuteInv'
  BY <1>1, <1>2, MinuteCadre DEF EnAttente
<1>6. ProfilInv'
  BY <1>1, <1>2, ProfilCadre
<1>7. Unique'
  BY <1>1, <1>2, UniqueCadre
<1> QED
  BY <1>3, <1>4, <1>5, <1>6, <1>7

-----------------------------------------------------------------------------
(***************************************************************************)
(* Steps of the main task.                                                 *)
(***************************************************************************)

\* The same, when no launcher is being put in the map.
LEMMA TacheSeule ==
  ASSUME PlanifInv, Ordre, Vivant, Service, Service', pc # "insert", pc' # "insert",
         UNCHANGED <<neuf, horloge, maps, timers, profils, ub>>,
         JourInv', OccupeInv', PlanInv', PrevuInv'
  PROVE  Ordre'
<1>1. LanceurInv' /\ RappelInv' /\ MinuteInv' /\ ProfilInv' /\ Unique'
  BY ObjetsInchanges
<1>2. CarteInv'
  <2>1. \A n \in Nums : Attendus(n)' = Attendus(n)
    BY AttendusInchanges
  <2>2. mLanceurProfil' = mLanceurProfil
    BY DEF maps
  <2> QED
    BY <2>1, <2>2 DEF CarteInv, Ordre, ServiceInv
<1>3. FiniInv' /\ IndefiniSeulementCourse'
  BY DEF FiniInv, Service, IndefiniSeulementCourse, Vivant
<1> QED
  BY <1>1, <1>2, <1>3 DEF Ordre, ServiceInv

\* Plannings are numbered from 1.
LEMMA NumerotageFait == \E c \in Nat : Nums = 1..c
<1>1. Cardinality(Nums) \in Nat
  BY PlanifsAssumption, FS_CardinalityType
<1> QED
  BY <1>1, PlanifsAssumption

\* Plannings that were intact are, if the step leaves them alone.
LEMMA PremierCadre ==
  ASSUME Premier, UNCHANGED <<horloge, timers, profils, mLanceurProfil>>,
         \A m \in Nums : AFaire(m)' => AFaire(m)
  PROVE  Premier'
<1>1. heure' = heure /\ retard' = retard
  BY HorlogeInchangee
<1>2. \A m \in Nums : Intact(m)' = Intact(m)
  BY AttendusInchanges, ProfilsInchanges DEF Intact
<1> QED
  BY <1>1, <1>2 DEF Premier

LEMMA ChangementDeJourOrdre ==
  ASSUME Marges, PlanifInv, Ordre, Vivant, ChangementDeJour
  PROVE  Ordre'
<1>1. /\ pc = "select" /\ YDay # sLastDay /\ sLastDay' = YDay /\ pc' = "offset"
      /\ UNCHANGED <<num, off, neuf, horloge, maps, timers, profils, ub>>
      /\ UNCHANGED mLanceurProfil
  BY DEF ChangementDeJour, maps
<1>2. Service /\ Service' /\ ServiceInv
  BY <1>1 DEF Service, Ordre
<1>3. YDay' = YDay /\ MinuitUtc' = MinuitUtc
  BY <1>1, HorlogeInchangee
<1>4. JourInv' /\ PlanInv' /\ PrevuInv'
  BY <1>1, <1>3 DEF JourInv, PlanInv, PrevuInv, ALieu
<1>5. OccupeInv'
  <2>1. MinuitUtc \/ Premier
    BY <1>1, <1>2 DEF ServiceInv, OccupeInv
  <2>2. \A m \in Nums : AFaire(m)
    BY <1>1 DEF AFaire
  <2>3. Premier => Premier'
    BY <1>1, <2>2, PremierCadre
  <2> QED
    BY <1>3, <2>1, <2>3 DEF OccupeInv
<1> QED
  BY <1>1, <1>2, <1>4, <1>5, TacheSeule

LEMMA LireOffsetOrdre ==
  ASSUME Marges, PlanifInv, Ordre, Vivant, LireOffset
  PROVE  Ordre'
<1>1. /\ pc = "offset" /\ pc' = "plan" /\ off' = heure /\ num' = 1
      /\ UNCHANGED <<sLastDay, neuf, horloge, maps, timers, profils, ub>>
      /\ UNCHANGED mLanceurProfil
  BY DEF LireOffset, heure, maps
<1>2. Service /\ Service' /\ ServiceInv
  BY <1>1 DEF Service, Ordre
<1>3. heure' = heure /\ retard' = retard /\ MinuitUtc' = MinuitUtc
  BY <1>1, HorlogeInchangee
<1>4. heure \in Int /\ retard \in Int /\ 0 <= retard
  BY HeureFait DEF PlanifInv
<1>5. JourInv'
  BY <1>1, <1>2, JourCadre DEF ServiceInv
<1>6. PlanInv'
  <2>1. off' <= heure' /\ heure' <= off' + retard'
    BY <1>1, <1>3, <1>4, SMT
  <2> QED
    BY <2>1 DEF PlanInv
<1>7. OccupeInv'
  <2>1. MinuitUtc \/ Premier
    BY <1>1, <1>2 DEF ServiceInv, OccupeInv
  <2>2. \A m \in Nums : AFaire(m)
    BY <1>1 DEF AFaire
  <2>3. Premier => Premier'
    BY <1>1, <2>2, PremierCadre
  <2> QED
    BY <1>3, <2>1, <2>3 DEF OccupeInv
<1>8. PrevuInv'
  <2>1. \A n \in Nums : ~(n < 1)
    <3>1. PICK c \in Nat : Nums = 1..c
      BY NumerotageFait
    <3>2. \A n \in 1..c : ~(n < 1)
      BY SMT
    <3> QED
      BY <3>1, <3>2
  <2> QED
    BY <1>1, <2>1 DEF PrevuInv, ALieu
<1> QED
  BY <1>1, <1>2, <1>5, <1>6, <1>7, <1>8, TacheSeule

LEMMA QuitterOrdre ==
  ASSUME Marges, PlanifInv, Ordre, Vivant, Quitter
  PROVE  Ordre'
<1>1. /\ pc = "select" /\ pc' = "fin"
      /\ UNCHANGED <<sLastDay, num, off, neuf, horloge, maps, timers, profils, ub>>
  BY DEF Quitter
<1>2. Service /\ Service' /\ ServiceInv
  BY <1>1 DEF Service, Ordre
<1>3. heure' = heure /\ YDay' = YDay /\ tz' = tz
  BY <1>1, HorlogeInchangee
<1>4. JourInv' /\ OccupeInv' /\ PlanInv'
  BY <1>1, <1>2, JourCadre DEF ServiceInv, OccupeInv, PlanInv
<1>5. PrevuInv'
  <2>1. \A n \in Nums : /\ ALieu(n)' = ALieu(n) /\ Attendus(n)' = Attendus(n)
                        /\ Allume(n)' = Allume(n)
    BY <1>1, <1>3, AttendusInchanges, ProfilsInchanges DEF ALieu
  <2> QED
    BY <1>2, <1>3, <2>1 DEF PrevuInv, ServiceInv
<1> QED
  BY <1>1, <1>2, <1>4, <1>5, TacheSeule

\* Where the main task goes after planning num.
LEMMA ApresSuivant ==
  ASSUME PlanifInv, pc \in {"plan", "insert"}, Suivant
  PROVE  /\ pc' \in {"plan", "select"} /\ num \in Nums
         /\ pc' = "plan" => \A m \in Nums : m >= num' => m > num
         /\ \A m \in Nums : pc' = "select" \/ m < num' => m = num \/ m < num
<1>1. num \in Nums
  BY DEF PlanifInv, NumInv
<1>2. PICK c \in Nat : Nums = 1..c
  BY NumerotageFait
<1>3. /\ num' = IF num + 1 \in Nums THEN num + 1 ELSE 0
      /\ pc' = IF num + 1 \in Nums THEN "plan" ELSE "select"
  BY DEF Suivant
<1>4. num \in 1..c
  BY <1>1, <1>2
<1>5. CASE num + 1 \in Nums
  <2>1. pc' = "plan" /\ num' = num + 1
    BY <1>3, <1>5
  <2>2. \A m \in 1..c : (m >= num + 1 => m > num) /\ (m < num + 1 => m = num \/ m < num)
    BY <1>4, SMT
  <2> QED
    BY <1>1, <1>2, <2>1, <2>2
<1>6. CASE num + 1 \notin Nums
  <2>1. pc' = "select"
    BY <1>3, <1>6
  <2>2. num + 1 \notin 1..c
    BY <1>2, <1>6
  <2>3. \A m \in 1..c : m = num \/ m < num
    BY <1>4, <2>2, SMT
  <2> QED
    BY <1>1, <1>2, <2>1, <2>3
<1> QED
  BY <1>5, <1>6

\* What going on to the next planning keeps.
LEMMA SuivantOrdre ==
  ASSUME PlanifInv, ServiceInv, pc \in {"plan", "insert"}, Suivant,
         UNCHANGED <<sLastDay, off, horloge, timers, profils>>,
         \A m \in Nums : m > num => mLanceurProfil'[m] = mLanceurProfil[m],
         sLastDay = YDay /\ heure >= tz /\ heure < Debut(num) + Duree(num) => Tenu(num)
  PROVE  JourInv' /\ OccupeInv' /\ PlanInv' /\ PrevuInv'
<1>1. /\ heure' = heure /\ YDay' = YDay /\ retard' = retard /\ tz' = tz
      /\ MinuitUtc' = MinuitUtc
  BY HorlogeInchangee
<1>2. /\ pc' \in {"plan", "select"} /\ num \in Nums
      /\ pc' = "plan" => \A m \in Nums : m >= num' => m > num
      /\ \A m \in Nums : pc' = "select" \/ m < num' => m = num \/ m < num
  BY ApresSuivant
<1>3. JourInv'
  BY JourCadre DEF ServiceInv
<1>4. OccupeInv'
  <2>1. CASE pc' = "plan"
    <3>1. MinuitUtc \/ Premier
      BY DEF ServiceInv, OccupeInv
    <3>2. ASSUME NEW m \in Nums, AFaire(m)'
          PROVE  AFaire(m) /\ m > num
      <4>1. m > num
        BY <1>2, <2>1, <3>2 DEF AFaire
      <4>2. m >= num
        <5>1. PICK c \in Nat : Nums = 1..c
          BY NumerotageFait
        <5> QED
          BY <1>2, <4>1, <5>1, SMT
      <4> QED
        BY <4>1, <4>2 DEF AFaire
    <3>3. \A m \in Nums : AFaire(m)' /\ Intact(m) => Intact(m)'
      BY <3>2, AttendusInchanges, ProfilsInchanges DEF Intact
    <3>4. Premier => Premier'
      BY <1>1, <3>2, <3>3 DEF Premier
    <3> QED
      BY <1>1, <3>1, <3>4 DEF OccupeInv
  <2>2. CASE pc' = "select"
    BY <1>1, <2>2 DEF ServiceInv, OccupeInv, JourInv
  <2> QED
    BY <1>2, <2>1, <2>2
<1>5. PlanInv'
  BY <1>1 DEF ServiceInv, PlanInv
<1>6. PrevuInv'
  <2> SUFFICES ASSUME NEW n \in Nums, ALieu(n)', heure' < Debut(n) + Duree(n)
               PROVE  Attendus(n)' # {} \/ (heure' >= Debut(n) /\ Allume(n)')
    BY DEF PrevuInv
  <2>1. Attendus(n)' = Attendus(n) /\ Allume(n)' = Allume(n)
    BY AttendusInchanges, ProfilsInchanges
  <2>2. sLastDay = YDay /\ heure >= tz /\ (n = num \/ n < num)
    BY <1>1, <1>2 DEF ALieu
  <2>3. CASE n = num
    BY <1>1, <2>1, <2>2, <2>3 DEF Tenu
  <2>4. CASE n < num
    BY <1>1, <2>1, <2>2, <2>4 DEF ALieu, ServiceInv, PrevuInv
  <2> QED
    BY <2>2, <2>3, <2>4
<1> QED
  BY <1>3, <1>4, <1>5, <1>6

LEMMA PlanifierPasseOrdre ==
  ASSUME Marges, PlanifInv, Ordre, Vivant, PlanifierPasse
  PROVE  Ordre'
<1>1. /\ pc = "plan" /\ Debut(num) + Duree(num) <= off /\ Suivant
      /\ UNCHANGED <<sLastDay, off, neuf, horloge, maps, timers, profils, ub>>
      /\ mLanceurProfil' = mLanceurProfil
  BY DEF PlanifierPasse, Debut, Duree, maps
<1>2. Service /\ ServiceInv /\ num \in Nums
  BY <1>1 DEF Service, Ordre, PlanifInv, NumInv
<1>3. Bornes(num)
  BY <1>2, BornesFait DEF PlanifInv
<1>4. ~(sLastDay = YDay /\ heure >= tz /\ heure < Debut(num) + Duree(num))
  <2>1. \/ off <= heure
        \/ heure < tz \/ YDay # sLastDay
    BY <1>1, <1>2 DEF ServiceInv, PlanInv
  <2>2. off <= heure => ~(heure < Debut(num) + Duree(num))
    BY <1>1, <1>3, SMT DEF Bornes
  <2>3. heure < tz => ~(heure >= tz)
    BY <1>3, SMT DEF Bornes
  <2> QED
    BY <2>1, <2>2, <2>3
<1>5. JourInv' /\ OccupeInv' /\ PlanInv' /\ PrevuInv'
  BY <1>1, <1>2, <1>4, SuivantOrdre
<1>6. Service' /\ pc' # "insert"
  BY <1>1, ApresSuivant DEF Service
<1> QED
  BY <1>1, <1>2, <1>5, <1>6, TacheSeule

LEMMA InsererOrdre ==
  ASSUME Marges, PlanifInv, Ordre, Vivant, Inserer
  PROVE  Ordre'
<1>1. /\ pc = "insert" /\ mLanceurProfil' = [mLanceurProfil EXCEPT ![num] = neuf]
      /\ neuf' = Aucun /\ Suivant
      /\ UNCHANGED <<sLastDay, off, horloge, mStopProfil, timers, profils, ub>>
  BY DEF Inserer
<1>2. Service /\ ServiceInv /\ num \in Nums
  BY <1>1 DEF Service, Ordre, PlanifInv, NumInv
<1>3. /\ mLanceurProfil'[num] = neuf
      /\ \A m \in Nums : m # num => mLanceurProfil'[m] = mLanceurProfil[m]
  BY <1>1, <1>2 DEF PlanifInv, TypeOK
<1>4. Attendus(num) = {neuf} /\ neuf \in Timers
  <2>1. Attendus(num) = {neuf}
    BY <1>1, <1>2 DEF ServiceInv, CarteInv
  <2> QED
    BY <2>1 DEF Attendus
<1>5. \A m \in Nums : m > num => m # num
  <2>1. PICK c \in Nat : Nums = 1..c
    BY NumerotageFait
  <2> QED
    BY <1>2, <2>1, SMT
<1>6. JourInv' /\ OccupeInv' /\ PlanInv' /\ PrevuInv'
  BY <1>1, <1>2, <1>3, <1>4, <1>5, SuivantOrdre DEF Tenu
<1>7. Service' /\ pc' # "insert"
  BY <1>1, ApresSuivant DEF Service
<1>8. LanceurInv' /\ RappelInv' /\ MinuteInv' /\ ProfilInv' /\ Unique'
  <2>1. LanceurInv'
    BY <1>1, <1>2, LanceurCadre, AttendusInchanges, ProfilsInchanges DEF ServiceInv
  <2>2. RappelInv'
    BY <1>1, <1>2, RappelCadre DEF ServiceInv
  <2>3. MinuteInv'
    BY <1>1, <1>2, MinuteCadre DEF ServiceInv, EnAttente
  <2>4. ProfilInv'
    BY <1>1, <1>2, ProfilCadre DEF ServiceInv
  <2>5. Unique'
    BY <1>1, UniqueCadre DEF Ordre
  <2> QED
    BY <2>1, <2>2, <2>3, <2>4, <2>5
<1>9. CarteInv'
  <2>1. ASSUME NEW n \in Nums
        PROVE  Attendus(n)' \ {neuf'} = {mLanceurProfil'[n]} \ {Aucun}
    <3>1. Attendus(n)' = Attendus(n) /\ Aucun \notin Attendus(n)
      <4>1. Aucun \notin Timers
        BY SMT DEF Aucun, Timers
      <4> QED
        BY <1>1, <4>1, AttendusInchanges DEF Attendus
    <3>2. CASE n = num
      BY <1>1, <1>3, <1>4, <3>1, <3>2
    <3>3. CASE n # num
      <4>1. neuf \notin Attendus(n)
        <5>1. neuf \in Attendus(num)
          BY <1>4
        <5>2. timers[neuf].num = num
          BY <5>1 DEF Attendus
        <5> QED
          BY <3>3, <5>2 DEF Attendus
      <4>2. Attendus(n) \ {neuf} = {mLanceurProfil[n]} \ {Aucun}
        BY <1>2 DEF ServiceInv, CarteInv
      <4> QED
        BY <1>1, <1>3, <3>1, <3>3, <4>1, <4>2
    <3> QED
      BY <3>2, <3>3
  <2> QED
    BY <1>1, <1>7, <2>1 DEF CarteInv
<1>10. FiniInv' /\ IndefiniSeulementCourse'
  BY <1>1, <1>7 DEF FiniInv, Service, IndefiniSeulementCourse, Vivant
<1> QED
  BY <1>6, <1>8, <1>9, <1>10 DEF Ordre, ServiceInv

\* A launcher L is made for planning num, and takes the place of those that
\* were waiting for it.
LEMMA PoserLanceur ==
  ASSUME Marges, PlanifInv, Ordre, Vivant, pc = "plan", pc' = "insert",
         UNCHANGED <<sLastDay, num, off, horloge, mStopProfil, profils, ub>>,
         NEW L \in Timers, timers[L].etat = "libre", neuf' = L,
         NEW r, timers'[L] = r, r.type = "start", r.num = num,
         r.etat \in {"arme", "expire"}, LanceurOK(num, r),
         \A t \in Attendus(num) : timers'[t].etat = "libre",
         \A t \in Timers : t # L /\ t \notin Attendus(num) => timers'[t] = timers[t],
         \A n \in Nums : mLanceurProfil'[n] = IF n = num THEN Aucun ELSE mLanceurProfil[n],
         heure >= Debut(num) => ~Tourne(num)
  PROVE  Ordre'
<1>1. Service /\ Service' /\ ServiceInv /\ num \in Nums
  BY DEF Service, Ordre, PlanifInv, NumInv
<1>2. Attendus(num)' = {L}
  BY DEF Attendus
<1>3. \A n \in Nums : n # num => Attendus(n)' = Attendus(n)
  <2> SUFFICES ASSUME NEW n \in Nums, n # num, NEW t \in Timers
               PROVE  t \in Attendus(n)' <=> t \in Attendus(n)
    BY DEF Attendus
  <2>1. CASE t = L \/ t \in Attendus(num)
    BY <2>1 DEF Attendus
  <2>2. CASE t # L /\ t \notin Attendus(num)
    BY <2>2 DEF Attendus
  <2> QED
    BY <2>1, <2>2
<1>4. \A t \in Timers :
        (timers[t].etat = "rappel" \/ EnAttente(t) \/ timers'[t].etat = "rappel" \/ EnAttente(t)')
        => timers'[t] = timers[t]
  <2> SUFFICES ASSUME NEW t \in Timers, timers'[t] # timers[t]
               PROVE  /\ timers[t].etat # "rappel" /\ ~EnAttente(t)
                      /\ timers'[t].etat # "rappel" /\ ~EnAttente(t)'
    OBVIOUS
  <2>1. CASE t = L
    BY <2>1 DEF EnAttente
  <2>2. CASE t \in Attendus(num)
    BY <2>2 DEF EnAttente, Attendus
  <2> QED
    BY <2>1, <2>2
<1>5. heure' = heure /\ retard' = retard /\ YDay' = YDay /\ tz' = tz /\ MinuitUtc' = MinuitUtc
      /\ UNCHANGED horloge
  BY HorlogeInchangee
<1>6. \A n \in Nums : Tourne(n)' = Tourne(n) /\ Allume(n)' = Allume(n)
  BY ProfilsInchanges
<1>7. JourInv'
  BY <1>1, JourCadre DEF ServiceInv
<1>8. OccupeInv'
  <2>1. MinuitUtc \/ Premier
    BY <1>1 DEF ServiceInv, OccupeInv
  <2>2. ASSUME NEW m \in Nums, AFaire(m)'
        PROVE  AFaire(m) /\ m # num
    <3>1. PICK c \in Nat : Nums = 1..c
      BY NumerotageFait
    <3>2. m > num
      BY <2>2 DEF AFaire
    <3>3. m >= num /\ m # num
      BY <1>1, <3>1, <3>2, SMT
    <3> QED
      BY <3>3 DEF AFaire
  <2>3. Premier => Premier'
    BY <1>3, <1>5, <1>6, <2>2 DEF Premier, Intact
  <2> QED
    BY <1>5, <2>1, <2>3 DEF OccupeInv
<1>9. PlanInv'
  BY <1>1, <1>5 DEF ServiceInv, PlanInv
<1>10. LanceurInv'
  <2> SUFFICES ASSUME NEW n \in Nums
               PROVE  /\ \A t \in Attendus(n)' : LanceurOK(n, timers[t])'
                      /\ Attendus(n)' # {} /\ heure' >= Debut(n) => ~Tourne(n)'
    BY DEF LanceurInv
  <2>1. CASE n = num
    <3>1. LanceurOK(n, r)' /\ timers'[L] = r
      BY <1>5, <2>1 DEF LanceurOK
    <3> QED
      BY <1>2, <1>5, <1>6, <2>1, <3>1
  <2>2. CASE n # num
    <3>1. ASSUME NEW t \in Attendus(n)'
          PROVE  LanceurOK(n, timers[t])'
      <4>1. t \in Attendus(n) /\ LanceurOK(n, timers[t])
        BY <1>1, <1>3, <2>2, <3>1 DEF ServiceInv, LanceurInv
      <4>2. t \in Timers /\ t # L /\ t \notin Attendus(num)
        BY <2>2, <4>1 DEF Attendus
      <4> QED
        BY <1>5, <4>1, <4>2 DEF LanceurOK
    <3>2. Attendus(n) # {} /\ heure >= Debut(n) => ~Tourne(n)
      BY <1>1 DEF ServiceInv, LanceurInv
    <3> QED
      BY <1>3, <1>5, <1>6, <2>2, <3>1, <3>2
  <2> QED
    BY <2>1, <2>2
<1>11. CarteInv'
  <2>1. ASSUME NEW n \in Nums
        PROVE  Attendus(n)' \ {neuf'} = {mLanceurProfil'[n]} \ {Aucun}
    <3>1. CASE n = num
      BY <1>1, <1>2, <3>1
    <3>2. CASE n # num
      <4>1. Attendus(n) \ {neuf} = {mLanceurProfil[n]} \ {Aucun} /\ neuf = Aucun
        BY <1>1 DEF ServiceInv, CarteInv
      <4>2. Aucun \notin Attendus(n) /\ L \notin Attendus(n)
        BY SMT DEF Attendus, Timers, Aucun
      <4> QED
        BY <1>3, <3>2, <4>1, <4>2
    <3> QED
      BY <3>1, <3>2
  <2> QED
    BY <1>2, <2>1 DEF CarteInv
<1>12. PrevuInv'
  <2> SUFFICES ASSUME NEW n \in Nums, ALieu(n)', heure' < Debut(n) + Duree(n)
               PROVE  Attendus(n)' # {} \/ (heure' >= Debut(n) /\ Allume(n)')
    BY DEF PrevuInv
  <2>1. ALieu(n) /\ n # num
    <3>1. PICK c \in Nat : Nums = 1..c
      BY NumerotageFait
    <3>2. n < num
      BY DEF ALieu
    <3>3. n # num
      BY <1>1, <3>1, <3>2, SMT
    <3> QED
      BY <1>5, <3>3 DEF ALieu
  <2> QED
    BY <1>1, <1>3, <1>5, <1>6, <2>1 DEF ServiceInv, PrevuInv
<1>13. RappelInv'
  <2>1. ASSUME NEW t \in Timers, timers'[t].etat = "rappel"
        PROVE  /\ timers[t].etat = "rappel" /\ timers'[t] = timers[t]
               /\ timers'[timers[t].stop] = timers[timers[t].stop]
    <3>1. timers'[t] = timers[t]
      BY <1>4, <2>1
    <3>2. RappelOK(t)
      BY <1>1, <2>1, <3>1 DEF ServiceInv, RappelInv
    <3>3. timers[t].stop \in Timers /\ EnAttente(timers[t].stop)
      BY <3>2 DEF RappelOK, EnAttente
    <3> QED
      BY <1>4, <2>1, <3>1, <3>3
  <2> QED
    BY <1>1, <1>5, <2>1, RappelCadre DEF ServiceInv
<1>14. MinuteInv'
  <2>1. \A u \in Timers : EnAttente(u)' => EnAttente(u) /\ timers'[u] = timers[u]
    BY <1>4 DEF EnAttente
  <2> QED
    BY <1>1, <1>5, <2>1, MinuteCadre DEF ServiceInv
<1>15. ProfilInv'
  BY <1>1, <1>4, <1>5, ProfilCadre DEF ServiceInv
<1>16. Unique'
  <2>1. \A t \in Timers : timers'[t].etat = "rappel" => timers'[t] = timers[t]
    BY <1>4
  <2> QED
    BY <2>1, UniqueCadre DEF Ordre
<1>17. FiniInv' /\ IndefiniSeulementCourse'
  BY DEF FiniInv, IndefiniSeulementCourse, Vivant
<1> QED
  BY <1>7, <1>8, <1>9, <1>10, <1>11, <1>12, <1>13, <1>14, <1>15, <1>16, <1>17
  DEF Ordre, ServiceInv

\* The main task is about to make a launcher: unless a UTC day has just begun,
\* before its planning does, this is its first, and the planning is intact.
LEMMA AvantPose ==
  ASSUME Marges, PlanifInv, Ordre, pc = "plan", off < Debut(num) + Duree(num)
  PROVE  /\ num \in Nums /\ Bornes(num)
         /\ off <= heure /\ heure <= off + retard
         /\ Attendus(num) = {mLanceurProfil[num]} \ {Aucun}
         /\ \/ heure < Debut(num) \/ (Premier /\ Intact(num))
<1>1. Service /\ ServiceInv /\ num \in Nums
  BY DEF Service, Ordre, PlanifInv, NumInv
<1>2. Bornes(num)
  BY <1>1, BornesFait DEF PlanifInv
<1>3. off <= heure /\ heure <= off + retard
  <2>1. ~(Debut(num) + Duree(num) <= off)
    BY <1>2, SMT DEF Bornes
  <2> QED
    BY <1>1, <2>1 DEF ServiceInv, PlanInv
<1>4. Attendus(num) = {mLanceurProfil[num]} \ {Aucun}
  <2>1. neuf = Aucun /\ Attendus(num) \ {neuf} = {mLanceurProfil[num]} \ {Aucun}
    BY <1>1 DEF ServiceInv, CarteInv
  <2>2. Aucun \notin Attendus(num)
    BY SMT DEF Attendus, Timers, Aucun
  <2> QED
    BY <2>1, <2>2
<1>5. heure < Debut(num) \/ (Premier /\ Intact(num))
  <2>1. CASE MinuitUtc
    BY <1>2, <2>1, SMT DEF MinuitUtc, Bornes
  <2>2. CASE Premier
    <3>1. num >= num
      <4>1. PICK c \in Nat : Nums = 1..c
        BY NumerotageFait
      <4> QED
        BY <1>1, <4>1, SMT
    <3> QED
      BY <1>1, <2>2, <3>1 DEF Premier, AFaire
  <2> QED
    BY <1>1, <2>1, <2>2 DEF ServiceInv, OccupeInv
<1> QED
  BY <1>1, <1>2, <1>3, <1>4, <1>5

LEMMA PlanifierMaintenantOrdre ==
  ASSUME Marges, PlanifInv, Ordre, Vivant, PlanifierMaintenant
  PROVE  Ordre'
<1>0. PICK L, r : L = Libre /\ r = Lanceur(num, 0, FALSE)
  OBVIOUS
<1>1. /\ pc = "plan" /\ DansFenetre(num, off) /\ Libres # {} /\ pc' = "insert"
      /\ neuf' = L /\ timers' = [timers EXCEPT ![L] = r]
      /\ UNCHANGED <<sLastDay, num, off, horloge, mLanceurProfil, mStopProfil, profils, ub>>
  BY <1>0 DEF PlanifierMaintenant, maps
<1>2. num \in Nums /\ Bornes(num)
  BY <1>1, BornesFait DEF PlanifInv, NumInv
<1>3. Debut(num) <= off /\ off < Debut(num) + Duree(num)
  <2>1. off \in Debut(num) .. (Debut(num) + Duree(num) - 1)
    BY <1>1 DEF DansFenetre, Debut, Duree
  <2> QED
    BY <1>2, <2>1, SMT DEF Bornes
<1>4. /\ off <= heure /\ heure <= off + retard
      /\ heure < Debut(num) \/ (Premier /\ Intact(num))
  BY <1>1, <1>3, AvantPose
<1>5. Premier /\ Intact(num)
  <2>1. ~(heure < Debut(num))
    BY <1>2, <1>3, <1>4, SMT DEF Bornes
  <2> QED
    BY <1>4, <2>1
<1>6. /\ Debut(num) <= heure
      /\ heure + Lag - retard < Debut(num) + Duree(num)
      /\ heure + Lag - retard < Jour
  <2>1. PICK d \in Depart : heure = d + retard \/ heure = d + retard - Jour
    BY <1>5 DEF Premier
  <2>2. d \in Int /\ d < Jour
    <3>1. d \in 0..(Jour - 1) /\ Jour \in Nat
      BY TempsAssumption
    <3> QED
      BY <3>1, SMT
  <2>3. DansFenetre(num, d) => d + Lag < Debut(num) + Duree(num) /\ d + Lag < Jour
    BY <1>2 DEF Marges
  <2>4. d \in Debut(num) .. (Debut(num) + Duree(num) - 1) => DansFenetre(num, d)
    BY DEF DansFenetre, Debut, Duree
  <2>5. CASE heure = d + retard - Jour
    BY <1>2, <1>3, <1>4, <2>2, <2>5, SMT DEF Bornes
  <2>6. CASE heure = d + retard /\ d < Debut(num)
    BY <1>2, <1>3, <1>4, <2>2, <2>6, SMT DEF Bornes
  <2>7. CASE heure = d + retard /\ ~(d < Debut(num))
    <3>1. d \in Debut(num) .. (Debut(num) + Duree(num) - 1)
      BY <1>2, <1>3, <1>4, <2>2, <2>7, SMT DEF Bornes
    <3> QED
      BY <1>2, <1>3, <1>4, <2>2, <2>3, <2>4, <2>7, <3>1, SMT DEF Bornes
  <2> QED
    BY <2>1, <2>5, <2>6, <2>7
<1>7. L \in Timers /\ timers[L].etat = "libre" /\ timers \in [Timers -> Timer]
  BY <1>0, <1>1, LibreFait DEF PlanifInv, TypeOK
<1>8. r.type = "start" /\ r.num = num /\ r.etat = "expire"
  BY <1>0 DEF Lanceur, Vierge
<1>9. timers'[L] = r /\ \A t \in Timers : t # L => timers'[t] = timers[t]
  BY <1>1, <1>7
<1>10. LanceurOK(num, r)
  BY <1>6, <1>8 DEF LanceurOK
<1>11. /\ Attendus(num) = {} /\ ~Tourne(num)
       /\ \A n \in Nums : mLanceurProfil'[n] = IF n = num THEN Aucun ELSE mLanceurProfil[n]
  BY <1>1, <1>2, <1>5 DEF Intact
<1> QED
  BY <1>1, <1>7, <1>8, <1>9, <1>10, <1>11, PoserLanceur

\* A step that only makes the behaviour undefined.
LEMMA ToutInchange ==
  ASSUME Marges, PlanifInv, Ordre, UNCHANGED <<tache, horloge, maps, timers, profils>>,
         IndefiniSeulementCourse'
  PROVE  Ordre'
<1>1. /\ UNCHANGED horloge /\ UNCHANGED <<tache, horloge>> /\ UNCHANGED <<horloge, tache>>
      /\ UNCHANGED <<pc, num, neuf, sLastDay, off>> /\ timers' = timers /\ profils' = profils
      /\ UNCHANGED <<mLanceurProfil, mStopProfil>>
      /\ UNCHANGED <<horloge, timers, profils, maps>>
  BY DEF tache, maps
<1>2. Unique' /\ FiniInv'
  BY <1>1, UniqueCadre DEF Ordre, FiniInv
<1>3. CASE ~Service
  BY <1>1, <1>2, <1>3 DEF Ordre, Service
<1>4. CASE Service
  <2>1. ServiceInv
    BY <1>4 DEF Ordre
  <2>2. LanceurInv' /\ RappelInv' /\ MinuteInv' /\ ProfilInv'
    BY <1>1, <1>4, ObjetsInchanges
  <2>3. \A n \in Nums : Attendus(n)' = Attendus(n) /\ Intact(n)' = Intact(n)
                        /\ Tenu(n)' = Tenu(n)
    BY <1>1, AttendusInchanges, ProfilsInchanges, HorlogeInchangee DEF Intact, Tenu
  <2>4. JourInv' /\ OccupeInv' /\ PlanInv'
    BY <1>1, <2>1, <2>3, JourCadre, OccupeCadre, PlanCadre DEF ServiceInv
  <2>5. CarteInv'
    BY <1>1, <2>1, <2>3, CarteCadre DEF ServiceInv, PlanifInv, NumInv
  <2>6. PrevuInv'
    BY <1>1, <2>1, <2>3, PrevuCadre DEF ServiceInv
  <2> QED
    BY <1>2, <2>2, <2>4, <2>5, <2>6 DEF Ordre, ServiceInv
<1> QED
  BY <1>3, <1>4

\* A launcher that is stopped before it runs out is over, unless it deletes
\* itself while it is stopped.
LEMMA ApresStopArme ==
  ASSUME NEW t, timers[t].etat = "arme", NEW e \in ApresStop(t)
  PROVE  e = "libre" \/ (e = "indefini" /\ timers[t].auto)
  BY DEF ApresStop

LEMMA PlanifierAvenirOrdre ==
  ASSUME Marges, PlanifInv, Ordre, Vivant, PlanifierAvenir
  PROVE  Ordre'
<1> DEFINE ancien == mLanceurProfil[num]
           d == Debut(num) - off
<1>0. PICK L, r : L = Libre /\ r = Lanceur(num, d, TRUE)
  OBVIOUS
<1>1. /\ pc = "plan" /\ Debut(num) > off /\ Libres # {}
      /\ UNCHANGED <<sLastDay, num, off, horloge, mStopProfil, profils>>
  BY DEF PlanifierAvenir, Debut
<1>2. PICK e \in IF ancien = Aucun THEN {"libre"} ELSE ApresStop(ancien) :
        \/ /\ e = "indefini" /\ ub' = "timer"
           /\ UNCHANGED <<pc, neuf, timers, mLanceurProfil>>
        \/ /\ e # "indefini" /\ UNCHANGED ub
           /\ timers' = [t \in Timers |->
                IF t = L THEN r
                ELSE IF t = ancien /\ e = "libre" THEN Fini(t)
                ELSE timers[t]]
           /\ mLanceurProfil' = [mLanceurProfil EXCEPT ![num] = Aucun]
           /\ pc' = "insert" /\ neuf' = L
  BY <1>0 DEF PlanifierAvenir, Debut
<1>3. num \in Nums /\ Bornes(num)
  BY <1>1, BornesFait DEF PlanifInv, NumInv
<1>4. /\ off <= heure /\ heure <= off + retard
      /\ Attendus(num) = {ancien} \ {Aucun}
      /\ heure < Debut(num) \/ (Premier /\ Intact(num))
  <2>1. off < Debut(num) + Duree(num)
    BY <1>1, <1>3, SMT DEF Bornes
  <2> QED
    BY <1>1, <2>1, AvantPose
<1>5. ancien # Aucun => ancien \in Timers /\ timers[ancien].etat = "arme"
  <2> SUFFICES ASSUME ancien # Aucun
               PROVE  ancien \in Timers /\ timers[ancien].etat = "arme"
    OBVIOUS
  <2>1. ancien \in Attendus(num)
    BY <1>4
  <2>2. heure < Debut(num)
    BY <1>4, <2>1 DEF Intact
  <2>3. LanceurOK(num, timers[ancien])
    BY <1>1, <1>3, <2>1 DEF Ordre, Service, ServiceInv, LanceurInv
  <2>4. ~(Debut(num) <= heure)
    BY <1>3, <2>2, SMT DEF Bornes
  <2> QED
    BY <2>1, <2>3, <2>4 DEF LanceurOK, Attendus
<1>6. SUFFICES ASSUME e # "indefini" PROVE Ordre'
  <2> SUFFICES ASSUME e = "indefini" PROVE Ordre'
    OBVIOUS
  <2>1. /\ UNCHANGED <<tache, horloge, maps, timers, profils>>
        /\ ub' = "timer" /\ UNCHANGED <<pc, num, mLanceurProfil, timers>>
    BY <1>1, <1>2 DEF tache, maps
  <2>2. ancien # Aucun /\ timers[ancien].etat = "arme" /\ timers[ancien].auto
    BY <1>2, <1>5, ApresStopArme
  <2>3. IndefiniSeulementCourse'
    BY <1>1, <2>1, <2>2 DEF IndefiniSeulementCourse
  <2> QED
    BY <2>1, <2>3, ToutInchange
<1>61. e = "libre"
  BY <1>2, <1>5, <1>6, ApresStopArme
<1>7. /\ timers' = [t \in Timers |->
           IF t = L THEN r ELSE IF t = ancien THEN Fini(t) ELSE timers[t]]
      /\ mLanceurProfil' = [mLanceurProfil EXCEPT ![num] = Aucun]
      /\ pc' = "insert" /\ neuf' = L /\ ub' = ub
  BY <1>2, <1>61
<1>8. /\ L \in Timers /\ timers[L].etat = "libre"
      /\ mLanceurProfil \in [Nums -> Timers \cup {Aucun}]
  BY <1>0, <1>1, LibreFait DEF PlanifInv, TypeOK
<1>9. d \in Int /\ d >= 1 /\ d # 0
  BY <1>1, <1>3, SMT DEF Bornes
<1> HIDE DEF d
<1>10. r.type = "start" /\ r.num = num /\ r.etat = "arme" /\ r.rem = d
  BY <1>0, <1>9 DEF Lanceur, Vierge
<1>11. /\ timers'[L] = r
       /\ \A t \in Attendus(num) : timers'[t].etat = "libre"
       /\ \A t \in Timers : t # L /\ t \notin Attendus(num) => timers'[t] = timers[t]
  <2>1. timers'[L] = r
    BY <1>7, <1>8
  <2>2. ASSUME NEW t \in Attendus(num)
        PROVE  timers'[t].etat = "libre"
    <3>1. t = ancien /\ t \in Timers /\ t # L
      BY <1>4, <1>5, <1>8, <2>2 DEF Attendus
    <3>2. timers'[t] = Fini(t)
      BY <1>7, <3>1
    <3> QED
      BY <3>1, <3>2, FiniFait DEF PlanifInv
  <2>3. \A t \in Timers : t # L /\ t \notin Attendus(num) => timers'[t] = timers[t]
    <3>1. \A t \in Timers : t \notin Attendus(num) => t # ancien
      <4>1. Aucun \notin Timers
        BY SMT DEF Timers, Aucun
      <4> QED
        BY <1>4, <4>1
    <3> QED
      BY <1>7, <3>1
  <2> QED
    BY <2>1, <2>2, <2>3
<1>12. LanceurOK(num, r)
  <2>1. d >= 1 /\ Debut(num) <= heure + d /\ heure + d <= Debut(num) + Lag
    BY <1>3, <1>4, <1>9, SMT DEF Bornes, d
  <2> QED
    BY <1>10, <2>1 DEF LanceurOK
<1>13. \A n \in Nums : mLanceurProfil'[n] = IF n = num THEN Aucun ELSE mLanceurProfil[n]
  BY <1>3, <1>7, <1>8
<1>14. heure >= Debut(num) => ~Tourne(num)
  <2>1. heure >= Debut(num) => ~(heure < Debut(num))
    BY <1>3, SMT DEF Bornes
  <2> QED
    BY <1>4, <2>1 DEF Intact
<1> QED
  BY <1>1, <1>7, <1>8, <1>10, <1>11, <1>12, <1>13, <1>14, PoserLanceur

-----------------------------------------------------------------------------
(***************************************************************************)
(* The callbacks.                                                          *)
(***************************************************************************)

\* Within its planning, a profile is stopped after exactly what is left of it.
LEMMA DureeStopMarges ==
  ASSUME Marges, TypeOK, NEW n \in Nums, Debut(n) <= heure, heure < Debut(n) + Duree(n)
  PROVE  DureeStop(n) = [etat |-> "arme", rem |-> Duree(n) - (heure - Debut(n))]
<1> DEFINE x  == Duree(n) - (heure - Debut(n))
           us == (x * UsecTick) % Largeur
<1>1. Bornes(n)
  BY BornesFait
<1>2. /\ UsecTick \in Nat \ {0} /\ Largeur \in Nat \ {0}
      /\ Duree(n) * UsecTick < Largeur \div 2
  BY TempsAssumption DEF Marges
<1>3. /\ Debut(n) \in Int /\ Duree(n) \in Int /\ heure \in Int
      /\ x \in Nat /\ x >= 1 /\ x <= Duree(n)
  BY <1>1, SMT DEF Bornes
<1>4. DureeStop(n) = IF us = 0 THEN [etat |-> "inerte", rem |-> 0]
                     ELSE IF us >= Largeur \div 2 THEN [etat |-> "eternel", rem |-> 0]
                     ELSE IF us < UsecTick THEN [etat |-> "expire", rem |-> 0]
                     ELSE [etat |-> "arme", rem |-> us \div UsecTick]
  BY DEF DureeStop, us, x, heure, Debut, Duree
<1> HIDE DEF x
<1>5. PICK y \in Nat, z \in Nat : x = 1 + y /\ Duree(n) = x + z
  <2>1. x - 1 \in Nat /\ Duree(n) - x \in Nat /\ x = 1 + (x - 1)
        /\ Duree(n) = x + (Duree(n) - x)
    BY <1>3, SMT
  <2> QED
    BY <2>1
<1>6. /\ x * UsecTick = UsecTick + y * UsecTick
      /\ Duree(n) * UsecTick = x * UsecTick + z * UsecTick
      /\ y * UsecTick \in Nat /\ z * UsecTick \in Nat /\ x * UsecTick \in Nat
  BY <1>2, <1>3, <1>5, SMT
<1> DEFINE p == x * UsecTick
<1>7. p \in Nat /\ UsecTick <= p /\ p < Largeur \div 2
  BY <1>2, <1>6, SMT
<1>8. p \div UsecTick = x
  BY <1>2, <1>3, SMT
<1>9. us = p
  <2> HIDE DEF p
  <2>1. p % Largeur = p
    BY <1>2, <1>7, SMT
  <2> QED
    BY <2>1 DEF p
<1> HIDE DEF us, p
<1>10. us # 0 /\ ~(us >= Largeur \div 2) /\ ~(us < UsecTick)
  BY <1>2, <1>7, <1>9, SMT
<1>11. DureeStop(n) = [etat |-> "arme", rem |-> x]
  BY <1>4, <1>8, <1>9, <1>10
<1> QED
  BY <1>11 DEF x

\* The launcher that calls back is the one in the map, and its planning is on.
LEMMA AvantLancer ==
  ASSUME Marges, PlanifInv, Ordre, Service, NEW t \in Timers, Du(t, "start"),
         mLanceurProfil[timers[t].num] # Aucun
  PROVE  LET n == timers[t].num IN
         /\ n \in Nums /\ Bornes(n)
         /\ Attendus(n) = {t} /\ (pc = "insert" => n # num)
         /\ Debut(n) <= heure /\ heure + Lag - retard < Debut(n) + Duree(n)
         /\ ~Tourne(n)
<1> DEFINE n == timers[t].num
<1>1. n \in Nums /\ t \in Attendus(n) /\ timers[t].etat = "expire" /\ ServiceInv
  BY DEF Du, PlanifInv, NumInv, Attendus, Ordre
<1>2. Bornes(n)
  BY <1>1, BornesFait DEF PlanifInv
<1>3. Attendus(n) \ {neuf} = {mLanceurProfil[n]}
  BY <1>1 DEF ServiceInv, CarteInv
<1>4. pc = "insert" => n # num
  BY <1>3, <1>1 DEF ServiceInv, CarteInv
<1>5. neuf \notin Attendus(n)
  <2> SUFFICES ASSUME neuf \in Attendus(n) PROVE FALSE
    OBVIOUS
  <2>1. pc = "insert"
    <3>1. neuf \in Timers /\ Aucun \notin Timers
      BY SMT DEF Attendus, Timers, Aucun
    <3> QED
      BY <1>1, <3>1 DEF ServiceInv, CarteInv
  <2>2. neuf \in Attendus(num)
    BY <1>1, <2>1 DEF ServiceInv, CarteInv
  <2> QED
    BY <1>4, <2>1, <2>2 DEF Attendus
<1>6. Attendus(n) = {t}
  BY <1>1, <1>3, <1>5
<1>7. Debut(n) <= heure /\ heure + Lag - retard < Debut(n) + Duree(n)
  BY <1>1 DEF ServiceInv, LanceurInv, LanceurOK
<1>8. ~Tourne(n)
  <2>1. heure >= Debut(n)
    BY <1>2, <1>7, SMT DEF Bornes
  <2> QED
    BY <1>1, <2>1 DEF ServiceInv, LanceurInv
<1> QED
  BY <1>1, <1>2, <1>4, <1>6, <1>7, <1>8

\* What the launcher's callback makes: a profile and a stop timer.
LEMMA LancerFait ==
  ASSUME Marges, PlanifInv, Ordre, Service, NEW t \in Timers, LancerProfil(t)
  PROVE  LET n == timers[t].num IN
         \E L \in Timers, q \in Profils :
           /\ timers[L].etat = "libre" /\ profils[q].etat = "libre"
           /\ timers'[t].etat = "rappel" /\ timers'[t].type = "start"
           /\ timers'[t].num = n /\ timers'[t].prof = q /\ timers'[t].stop = L
           /\ timers'[L].etat = "arme" /\ timers'[L].type = "stop" /\ timers'[L].prof = q
           /\ timers'[L].num = Planifs[n].profil
           /\ timers'[L].rem = Duree(n) - (heure - Debut(n))
           /\ \A u \in Timers : u # t /\ u # L => timers'[u] = timers[u]
           /\ profils'[q].etat = "cree" /\ profils'[q].num = Planifs[n].profil
           /\ \A r \in Profils : r # q => profils'[r] = profils[r]
           /\ mLanceurProfil'[n] = Aucun
           /\ \A m \in Nums : m # n => mLanceurProfil'[m] = mLanceurProfil[m]
<1> DEFINE n == timers[t].num
<1>0. PICK L, q : L = Libre /\ q = PLibre
  OBVIOUS
<1>1. /\ Du(t, "start") /\ mLanceurProfil[n] # Aucun /\ Libres # {} /\ PLibres # {}
      /\ mLanceurProfil' = [mLanceurProfil EXCEPT ![n] = Aucun]
      /\ profils' = [profils EXCEPT ![q] = [etat |-> "cree", num |-> Planifs[n].profil]]
      /\ timers' = [timers EXCEPT
           ![t] = [timers[t] EXCEPT !.etat = "rappel", !.prof = q, !.stop = L],
           ![L] = [Vierge EXCEPT !.etat = DureeStop(n).etat, !.rem = DureeStop(n).rem,
                                 !.type = "stop", !.num = Planifs[n].profil, !.prof = q]]
  BY <1>0 DEF LancerProfil
<1>2. /\ L \in Timers /\ timers[L].etat = "libre" /\ q \in Profils /\ profils[q].etat = "libre"
      /\ timers \in [Timers -> Timer] /\ n \in Nums
      /\ mLanceurProfil \in [Nums -> Timers \cup {Aucun}]
      /\ profils \in [Profils -> [etat : EtatProfil,
                                  num : Numeros \cup {0}]]
      /\ timers[t].etat = "expire" /\ timers[t].type = "start" /\ L # t
  BY <1>0, <1>1, LibreFait, PLibreFait DEF PlanifInv, TypeOK, Du, NumInv
<1>3. DureeStop(n) = [etat |-> "arme", rem |-> Duree(n) - (heure - Debut(n))]
  <2>1. Bornes(n) /\ Debut(n) <= heure /\ heure + Lag - retard < Debut(n) + Duree(n)
    BY <1>1, AvantLancer
  <2>2. heure < Debut(n) + Duree(n)
    BY <2>1, SMT DEF Bornes
  <2> QED
    BY <1>2, <2>1, <2>2, DureeStopMarges DEF PlanifInv
<1> DEFINE s == [Vierge EXCEPT !.etat = DureeStop(n).etat, !.rem = DureeStop(n).rem,
                               !.type = "stop", !.num = Planifs[n].profil, !.prof = q]
           r == [timers[t] EXCEPT !.etat = "rappel", !.prof = q, !.stop = L]
<1>4. /\ s.etat = "arme" /\ s.type = "stop" /\ s.prof = q /\ s.num = Planifs[n].profil
      /\ s.rem = Duree(n) - (heure - Debut(n))
  BY <1>3 DEF Vierge
<1>5. r.etat = "rappel" /\ r.type = "start" /\ r.num = n /\ r.prof = q /\ r.stop = L
  BY <1>2 DEF Timer
<1>6. timers' = [timers EXCEPT ![t] = r, ![L] = s]
  BY <1>1
<1> HIDE DEF r, s, n
<1>7. /\ timers'[t] = r /\ timers'[L] = s
      /\ \A u \in Timers : u # t /\ u # L => timers'[u] = timers[u]
  BY <1>2, <1>6
<1>8. /\ profils'[q].etat = "cree" /\ profils'[q].num = Planifs[n].profil
      /\ \A p \in Profils : p # q => profils'[p] = profils[p]
  BY <1>1, <1>2
<1>9. /\ mLanceurProfil'[n] = Aucun
      /\ \A m \in Nums : m # n => mLanceurProfil'[m] = mLanceurProfil[m]
  BY <1>1, <1>2
<1> QED
  BY <1>2, <1>4, <1>5, <1>7, <1>8, <1>9 DEF n

LEMMA LancerProfilOrdre ==
  ASSUME Marges, PlanifInv, Ordre, Vivant, NEW t \in Timers, LancerProfil(t)
  PROVE  Ordre'
<1>0. PICK n : n = timers[t].num
  OBVIOUS
<1>1. /\ Du(t, "start") /\ mLanceurProfil[n] # Aucun /\ timers[t].etat = "expire"
      /\ UNCHANGED <<tache, horloge, mStopProfil, ub>> /\ UNCHANGED <<tache, horloge>>
      /\ UNCHANGED horloge /\ UNCHANGED <<pc, num, neuf>> /\ n \in Nums
  BY <1>0 DEF LancerProfil, Du, tache, PlanifInv, NumInv
<1>2. Service /\ ServiceInv /\ Service'
  <2>1. Service
    BY <1>1, ServiceFait DEF PlanifInv, Ordre, FiniInv
  <2> QED
    BY <1>1, <2>1 DEF Ordre, Service
<1>3. /\ Bornes(n) /\ Attendus(n) = {t} /\ (pc = "insert" => n # num)
      /\ Debut(n) <= heure /\ heure + Lag - retard < Debut(n) + Duree(n) /\ ~Tourne(n)
  BY <1>0, <1>1, <1>2, AvantLancer
<1>4. PICK L \in Timers, q \in Profils :
           /\ timers[L].etat = "libre" /\ profils[q].etat = "libre"
           /\ timers'[t].etat = "rappel" /\ timers'[t].type = "start"
           /\ timers'[t].num = n /\ timers'[t].prof = q /\ timers'[t].stop = L
           /\ timers'[L].etat = "arme" /\ timers'[L].type = "stop" /\ timers'[L].prof = q
           /\ timers'[L].num = Planifs[n].profil
           /\ timers'[L].rem = Duree(n) - (heure - Debut(n))
           /\ \A u \in Timers : u # t /\ u # L => timers'[u] = timers[u]
           /\ profils'[q].etat = "cree" /\ profils'[q].num = Planifs[n].profil
           /\ \A r \in Profils : r # q => profils'[r] = profils[r]
           /\ mLanceurProfil'[n] = Aucun
           /\ \A m \in Nums : m # n => mLanceurProfil'[m] = mLanceurProfil[m]
  BY <1>0, <1>2, LancerFait
<1>5. /\ heure' = heure /\ retard' = retard
      /\ Ecoule(n)' = heure - Debut(n) /\ heure >= Debut(n)
      /\ Ecoule(n)' + Lag - retard < Duree(n)
      /\ Duree(n) - (heure - Debut(n)) >= 1
      /\ Ecoule(n)' + (Duree(n) - (heure - Debut(n))) = Duree(n)
  <2>1. heure' = heure /\ retard' = retard
    BY <1>1, HorlogeInchangee
  <2>2. heure >= Debut(n)
    BY <1>3, SMT DEF Bornes
  <2>3. Ecoule(n)' = heure - Debut(n)
    BY <2>1, <2>2 DEF Ecoule
  <2>4. /\ (heure - Debut(n)) + Lag - retard < Duree(n)
        /\ Duree(n) - (heure - Debut(n)) >= 1
        /\ (heure - Debut(n)) + (Duree(n) - (heure - Debut(n))) = Duree(n)
    BY <1>3, SMT DEF Bornes
  <2> QED
    BY <2>1, <2>2, <2>3, <2>4
<1>6. Attendus(n)' = {} /\ \A m \in Nums : m # n => Attendus(m)' = Attendus(m)
  <2>1. \A u \in Timers : timers'[u].type = "start" /\ timers'[u].etat \in {"arme", "expire"} =>
          u # t /\ u # L /\ timers'[u] = timers[u]
    BY <1>4
  <2>2. \A m \in Nums : Attendus(m)' = Attendus(m) \ {t}
    BY <1>4, <2>1 DEF Attendus
  <2>3. \A m \in Nums : m # n => t \notin Attendus(m)
    BY <1>0 DEF Attendus
  <2> QED
    BY <1>1, <1>3, <2>2, <2>3
<1>7. \A m \in Nums : m # n => Tourne(m)' = Tourne(m) /\ (Allume(m) => Allume(m)')
  <2> SUFFICES ASSUME NEW m \in Nums, m # n
               PROVE  Tourne(m)' = Tourne(m) /\ (Allume(m) => Allume(m)')
    OBVIOUS
  <2>1. Planifs[m].profil # Planifs[n].profil
    BY <1>1 DEF Marges
  <2>2. Tourne(m)' => Tourne(m)
    BY <1>4, <2>1 DEF Tourne
  <2>3. Tourne(m) => Tourne(m)'
    BY <1>4 DEF Tourne
  <2>4. Allume(m) => Allume(m)'
    BY <1>4 DEF Allume
  <2> QED
    BY <2>2, <2>3, <2>4 DEF Tourne
<1>8. JourInv' /\ PlanInv'
  BY <1>1, <1>2, JourCadre, PlanCadre DEF ServiceInv, tache
<1>9. OccupeInv'
  <2>1. \A m \in Nums : Intact(m) => Intact(m)'
    BY <1>3, <1>4, <1>6, <1>7 DEF Intact
  <2> QED
    BY <1>1, <1>2, <2>1, OccupeCadre DEF ServiceInv
<1>10. LanceurInv'
  <2>1. \A m \in Nums : \A u \in Attendus(m)' : u \in Attendus(m) /\ timers'[u] = timers[u]
    <3>1. \A m \in Nums : \A u \in Attendus(m)' : u # t /\ u # L /\ u \in Timers
      BY <1>4 DEF Attendus
    <3> QED
      BY <1>4, <3>1 DEF Attendus
  <2>2. \A m \in Nums : Tourne(m)' => Tourne(m) \/ Attendus(m)' = {}
    BY <1>6, <1>7
  <2> QED
    BY <1>1, <1>2, <2>1, <2>2, LanceurCadre DEF ServiceInv
<1>11. CarteInv'
  <2>1. \A m \in Nums : Attendus(m)' \ {neuf} = {mLanceurProfil'[m]} \ {Aucun}
    BY <1>2, <1>4, <1>6 DEF ServiceInv, CarteInv
  <2>2. pc = "insert" => Attendus(num)' = {neuf}
    <3> SUFFICES ASSUME pc = "insert" PROVE Attendus(num)' = {neuf}
      OBVIOUS
    <3>1. PICK k \in Nums : k = num
      BY DEF PlanifInv, NumInv
    <3>2. k # n /\ Attendus(k) = {neuf}
      BY <1>2, <1>3, <3>1 DEF ServiceInv, CarteInv
    <3>3. Attendus(k)' = {neuf} /\ num' = k
      BY <1>1, <1>6, <3>1, <3>2
    <3> QED
      BY <3>3
  <2> QED
    BY <1>1, <1>2, <2>1, <2>2 DEF ServiceInv, CarteInv
<1>12. PrevuInv'
  <2>1. Allume(n)' /\ heure' >= Debut(n)
    BY <1>4, <1>5 DEF Allume
  <2>2. \A m \in Nums : Tenu(m) => Tenu(m)'
    BY <1>5, <1>6, <1>7, <2>1 DEF Tenu
  <2> QED
    BY <1>1, <1>2, <2>2, PrevuCadre DEF ServiceInv
<1>13. ASSUME NEW u \in Timers, timers[u].etat = "rappel"
       PROVE  /\ u # t /\ u # L /\ timers'[u] = timers[u]
              /\ timers'[timers[u].stop] = timers[timers[u].stop]
              /\ timers[u].prof \in Profils /\ timers[u].prof # q
  <2>1. u # t /\ u # L
    BY <1>1, <1>4, <1>13
  <2>2. RappelOK(u)
    BY <1>2, <1>13 DEF ServiceInv, RappelInv
  <2>3. timers[u].stop \in Timers /\ timers[u].stop # t /\ timers[u].stop # L
    BY <1>1, <1>4, <2>2 DEF RappelOK
  <2>4. timers[u].prof \in Profils /\ timers[u].prof # q
    BY <1>4, <2>2 DEF RappelOK
  <2> QED
    BY <1>4, <2>1, <2>3, <2>4
<1>14. ASSUME NEW u \in Timers, EnAttente(u)
       PROVE  u # t /\ u # L /\ timers'[u] = timers[u]
              /\ timers[u].prof \in Profils /\ timers[u].prof # q
  <2>1. u # t /\ u # L
    BY <1>1, <1>4, <1>14 DEF EnAttente, Du
  <2>2. timers[u].prof \in Profils /\ timers[u].prof # q
    BY <1>1, <1>2, <1>4, <1>14, EnAttenteFait DEF Suivi, Service
  <2> QED
    BY <1>4, <2>1, <2>2
<1>15. RappelInv'
  <2> SUFFICES ASSUME NEW u \in Timers, timers'[u].etat = "rappel"
               PROVE  RappelOK(u)'
    BY DEF RappelInv
  <2>1. CASE u = t
    BY <1>4, <1>5, <2>1 DEF RappelOK
  <2>2. CASE u # t
    <3>1. timers[u].etat = "rappel"
      BY <1>4, <2>2
    <3>2. RappelOK(u) /\ timers[u].num \in Nums
      BY <1>2, <3>1 DEF ServiceInv, RappelInv, RappelOK, PlanifInv, NumInv
    <3>3. PICK m \in Nums : m = timers[u].num
      BY <3>2
    <3>4. Ecoule(m)' = Ecoule(m) /\ retard' = retard
      BY <1>1, HorlogeInchangee
    <3> QED
      BY <1>4, <1>13, <3>1, <3>2, <3>3, <3>4 DEF RappelOK
  <2> QED
    BY <2>1, <2>2
<1>16. MinuteInv'
  <2> SUFFICES ASSUME NEW u \in Timers, EnAttente(u)'
               PROVE  \E m \in Nums : MinuteOK(u, m)'
    BY DEF MinuteInv
  <2>1. CASE u = L
    <3>1. MinuteOK(u, n)'
      BY <1>4, <1>5, <2>1 DEF MinuteOK
    <3> QED
      BY <1>1, <3>1
  <2>2. CASE u # L
    <3>1. u # t
      BY <1>4 DEF EnAttente
    <3>2. EnAttente(u)
      BY <1>4, <2>2, <3>1 DEF EnAttente
    <3>3. PICK m \in Nums : MinuteOK(u, m)
      BY <1>2, <3>2 DEF ServiceInv, MinuteInv
    <3>4. retard' = retard /\ Ecoule(m)' = Ecoule(m)
      BY <1>1, HorlogeInchangee
    <3>5. MinuteOK(u, m)'
      BY <1>4, <1>14, <3>2, <3>3, <3>4 DEF MinuteOK
    <3> QED
      BY <3>5
  <2> QED
    BY <2>1, <2>2
<1>17. ProfilInv'
  <2> SUFFICES ASSUME NEW r \in Profils
               PROVE  /\ profils'[r].etat = "cree" => CreeOK(r)'
                      /\ profils'[r].etat \in {"actif", "echoue"} => ActifOK(r)'
                      /\ profils'[r].etat = "arret" => ArretOK(r)'
    BY DEF ProfilInv
  <2>1. CASE r = q
    BY <1>4, <2>1 DEF CreeOK
  <2>2. CASE r # q
    <3>1. profils'[r] = profils[r]
      BY <1>4, <2>2
    <3>2. profils[r].etat = "cree" => CreeOK(r)'
      BY <1>2, <1>13 DEF ServiceInv, ProfilInv, CreeOK
    <3>3. profils[r].etat \in {"actif", "echoue"} => ActifOK(r)'
      BY <1>1, <1>2, <1>14, <3>1 DEF ServiceInv, ProfilInv, ActifOK, EnAttente
    <3>4. profils[r].etat = "arret" => ArretOK(r)'
      BY <1>1, <1>2, <3>1, ArretCadre DEF ServiceInv, ProfilInv
    <3> QED
      BY <3>1, <3>2, <3>3, <3>4
  <2> QED
    BY <2>1, <2>2
<1>18. Unique'
  <2>1. ASSUME NEW r \in Profils, NEW s \in Profils, profils'[r].etat # "libre",
               profils'[s].etat # "libre", profils'[r].num = profils'[s].num
        PROVE  r = s
    <3>1. \A p \in Profils : p # q /\ profils'[p].etat # "libre" =>
            profils'[p].num # Planifs[n].profil
      BY <1>3, <1>4 DEF Tourne
    <3>2. CASE r = q \/ s = q
      BY <1>4, <2>1, <3>1, <3>2
    <3>3. CASE r # q /\ s # q
      BY <1>4, <2>1, <3>3 DEF Ordre, Unique
    <3> QED
      BY <3>2, <3>3
  <2>2. ASSUME NEW u \in Timers, NEW v \in Timers, timers'[u].etat = "rappel",
               timers'[v].etat = "rappel", timers'[u].prof = timers'[v].prof
        PROVE  u = v
    <3>1. \A w \in Timers : w # t /\ timers'[w].etat = "rappel" =>
            timers[w].etat = "rappel" /\ timers'[w] = timers[w] /\ timers'[w].prof # q
      BY <1>4, <1>13
    <3>2. CASE u = t \/ v = t
      BY <1>4, <2>2, <3>1, <3>2
    <3>3. CASE u # t /\ v # t
      BY <2>2, <3>1, <3>3 DEF Ordre, Unique
    <3> QED
      BY <3>2, <3>3
  <2>3. \A u \in Timers : timers'[u].etat = "rappel" =>
          timers'[u].prof \in Profils /\ profils'[timers'[u].prof].etat = "cree"
    BY <1>15 DEF RappelInv, RappelOK
  <2> QED
    BY <2>1, <2>2, <2>3 DEF Unique
<1>19. FiniInv' /\ IndefiniSeulementCourse'
  BY <1>1, <1>2 DEF FiniInv, Service, IndefiniSeulementCourse, Vivant
<1> QED
  BY <1>8, <1>9, <1>10, <1>11, <1>12, <1>15, <1>16, <1>17, <1>18, <1>19
  DEF Ordre, ServiceInv

LEMMA DemarrerProfilOrdre ==
  ASSUME Marges, PlanifInv, Ordre, Vivant, NEW t \in Timers, DemarrerProfil(t)
  PROVE  Ordre'
<1>0. PICK q, u, k : q = timers[t].prof /\ u = timers[t].stop /\ k = profils[q].num
  OBVIOUS
<1>1. /\ timers[t].etat = "rappel" /\ mStopProfil' = [mStopProfil EXCEPT ![k] = u]
      /\ profils' = [profils EXCEPT ![q].etat = "actif"]
      /\ timers' = [timers EXCEPT ![t] = Fini(t)]
      /\ UNCHANGED <<tache, horloge, mLanceurProfil, ub>>
      /\ UNCHANGED <<tache, horloge>> /\ UNCHANGED horloge /\ UNCHANGED <<pc, num, neuf>>
  BY <1>0 DEF DemarrerProfil, tache
<1>2. /\ q \in Profils /\ profils[q].etat = "cree" /\ timers'[t].etat = "libre"
      /\ \A v \in Timers : v # t => timers'[v] = timers[v]
      /\ profils'[q].etat = "actif" /\ profils'[q].num = k
      /\ \A r \in Profils : r # q => profils'[r] = profils[r]
  BY <1>0, <1>1, FiniFait DEF PlanifInv, TypeOK, Ordre, Unique
<1>3. \A v \in Timers : timers'[v].etat = "rappel" =>
        /\ timers[v].etat = "rappel" /\ timers'[v] = timers[v] /\ v # t
        /\ timers[v].prof \in Profils /\ timers[v].prof # q
  BY <1>0, <1>1, <1>2 DEF Ordre, Unique
<1>4. Unique'
  BY <1>0, <1>2, <1>3, UniqueCadre DEF Ordre
<1>5. FiniInv' /\ IndefiniSeulementCourse'
  BY <1>1 DEF Ordre, FiniInv, IndefiniSeulementCourse, Vivant
<1>6. CASE ~Service
  BY <1>1, <1>4, <1>5, <1>6 DEF Ordre, Service
<1>7. CASE Service
  <2>1. ServiceInv
    BY <1>7 DEF Ordre
  <2>2. /\ u \in Timers /\ timers[u].type = "stop" /\ timers[u].etat = "arme"
        /\ timers[u].prof = q /\ k \in Numeros /\ timers[t].type = "start"
        /\ u # t
    <3>1. RappelOK(t) /\ timers[t].num \in Nums
      BY <1>1, <2>1 DEF ServiceInv, RappelInv, RappelOK, PlanifInv, NumInv
    <3> QED
      BY <1>0, <1>1, <3>1 DEF RappelOK, Numeros
  <2>3. \A n \in Nums : /\ Attendus(n)' = Attendus(n) /\ Tourne(n)' = Tourne(n)
                        /\ Allume(n) => Allume(n)'
    <3>1. \A n \in Nums : Attendus(n)' = Attendus(n)
      BY <1>1, <1>2 DEF Attendus
    <3>2. \A r \in Profils : /\ profils'[r].num = profils[r].num
                             /\ profils'[r].etat # "libre" <=> profils[r].etat # "libre"
                             /\ profils[r].etat \in {"cree", "actif", "echoue"} =>
                                  profils'[r].etat \in {"cree", "actif", "echoue"}
      BY <1>0, <1>2
    <3> QED
      BY <3>1, <3>2 DEF Tourne, Allume
  <2>4. JourInv' /\ PlanInv'
    BY <1>1, <2>1, JourCadre, PlanCadre DEF ServiceInv, tache
  <2>5. OccupeInv'
    BY <1>1, <2>1, <2>3, OccupeCadre DEF ServiceInv, Intact
  <2>6. LanceurInv'
    <3>1. \A n \in Nums : \A v \in Attendus(n) : timers'[v] = timers[v]
      BY <1>1, <1>2 DEF Attendus
    <3> QED
      BY <1>1, <2>1, <2>3, <3>1, LanceurCadre DEF ServiceInv
  <2>7. CarteInv'
    BY <1>1, <2>1, <2>3, CarteCadre DEF ServiceInv, PlanifInv, NumInv
  <2>8. PrevuInv'
    <3>1. \A n \in Nums : Tenu(n) => Tenu(n)'
      BY <1>1, <2>3, HorlogeInchangee DEF Tenu
    <3> QED
      BY <1>1, <2>1, <3>1, PrevuCadre DEF ServiceInv
  <2>9. RappelInv'
    <3>1. ASSUME NEW v \in Timers, timers'[v].etat = "rappel"
          PROVE  /\ timers[v].etat = "rappel" /\ timers'[v] = timers[v]
                 /\ timers'[timers[v].stop] = timers[timers[v].stop]
                 /\ profils'[timers[v].prof] = profils[timers[v].prof]
      <4>1. RappelOK(v)
        BY <1>3, <2>1, <3>1 DEF ServiceInv, RappelInv
      <4>2. timers[v].stop \in Timers /\ timers[v].stop # t
        BY <2>2, <4>1 DEF RappelOK
      <4> QED
        BY <1>2, <1>3, <3>1, <4>2
    <3> QED
      BY <1>1, <2>1, <3>1, RappelCadre DEF ServiceInv
  <2>10. MinuteInv'
    <3>1. ASSUME NEW v \in Timers, EnAttente(v)'
          PROVE  /\ EnAttente(v) /\ timers'[v] = timers[v]
                 /\ profils'[timers[v].prof].num = profils[timers[v].prof].num
      <4>1. v # t /\ timers'[v] = timers[v] /\ EnAttente(v)
        BY <1>2, <3>1 DEF EnAttente
      <4>2. timers[v].prof \in Profils
        BY <4>1, EnAttenteFait
      <4> QED
        BY <1>0, <1>2, <4>1, <4>2
    <3> QED
      BY <1>1, <2>1, <3>1, MinuteCadre DEF ServiceInv
  <2>11. ProfilInv'
    <3> SUFFICES ASSUME NEW r \in Profils
                 PROVE  /\ profils'[r].etat = "cree" => CreeOK(r)'
                        /\ profils'[r].etat \in {"actif", "echoue"} => ActifOK(r)'
                        /\ profils'[r].etat = "arret" => ArretOK(r)'
      BY DEF ProfilInv
    <3>1. CASE r = q
      <4>1. timers'[u] = timers[u]
        BY <1>2, <2>2
      <4>2. mStopProfil'[k] = u
        BY <1>1, <2>2 DEF PlanifInv, TypeOK
      <4>3. ActifOK(r)'
        BY <1>2, <2>2, <3>1, <4>1, <4>2 DEF ActifOK, EnAttente
      <4> QED
        BY <1>2, <3>1, <4>3
    <3>2. CASE r # q
      <4>1. profils'[r] = profils[r]
        BY <1>2, <3>2
      <4>2. profils[r].etat = "cree" => CreeOK(r)'
        BY <1>0, <1>2, <2>1, <3>2 DEF ServiceInv, ProfilInv, CreeOK
      <4>3. profils[r].etat \in {"actif", "echoue"} => ActifOK(r)'
        <5> SUFFICES ASSUME profils[r].etat \in {"actif", "echoue"} PROVE ActifOK(r)'
          OBVIOUS
        <5>1. profils[r].num # k
          BY <1>0, <1>2, <3>2 DEF Ordre, Unique
        <5>2. PICK v \in Timers : /\ EnAttente(v) /\ timers[v].prof = r
                                  /\ mStopProfil[profils[r].num] = v
          BY <2>1 DEF ServiceInv, ProfilInv, ActifOK
        <5>3. timers'[v] = timers[v]
          BY <1>2, <2>2, <5>2 DEF EnAttente
        <5>4. mStopProfil'[profils[r].num] = v
          BY <1>1, <5>1, <5>2
        <5> QED
          BY <4>1, <5>2, <5>3, <5>4 DEF ActifOK, EnAttente
      <4>4. profils[r].etat = "arret" => ArretOK(r)'
        BY <1>1, <2>1, <4>1, ArretCadre DEF ServiceInv, ProfilInv
      <4> QED
        BY <4>1, <4>2, <4>3, <4>4
    <3> QED
      BY <3>1, <3>2
  <2> QED
    BY <1>4, <1>5, <2>4, <2>5, <2>6, <2>7, <2>8, <2>9, <2>10, <2>11 DEF Ordre, ServiceInv
<1> QED
  BY <1>6, <1>7

\* A stop timer that calls back is the one in the map, its profile runs or has
\* failed, and the planning is over.
LEMMA AvantArreter ==
  ASSUME PlanifInv, Ordre, Service, NEW t \in Timers, Du(t, "stop")
  PROVE  LET q == timers[t].prof IN
         \E n \in Nums :
           /\ timers[t].num = Planifs[n].profil /\ profils[q].num = Planifs[n].profil
           /\ q \in Profils /\ profils[q].etat \in {"actif", "echoue"}
           /\ mStopProfil[Planifs[n].profil] = t
           /\ Duree(n) <= Ecoule(n) /\ Ecoule(n) <= Duree(n) + retard
<1> DEFINE q == timers[t].prof
<1>1. EnAttente(t) /\ timers[t].etat = "expire" /\ ServiceInv
  BY DEF EnAttente, Du, Ordre
<1>2. /\ q \in Profils /\ profils[q].etat \in {"cree", "actif", "echoue"}
      /\ \A u \in Timers : EnAttente(u) /\ timers[u].prof = q => u = t
  BY <1>1, EnAttenteFait DEF Suivi, Service
<1>3. PICK n \in Nums : MinuteOK(t, n)
  BY <1>1 DEF ServiceInv, MinuteInv
<1>4. /\ timers[t].num = Planifs[n].profil /\ profils[q].num = Planifs[n].profil
      /\ Duree(n) <= Ecoule(n) /\ Ecoule(n) <= Duree(n) + retard
  BY <1>1, <1>3 DEF MinuteOK
<1>5. profils[q].etat # "cree"
  <2> SUFFICES ASSUME profils[q].etat = "cree" PROVE FALSE
    OBVIOUS
  <2>1. PICK v \in Timers : timers[v].etat = "rappel" /\ timers[v].prof = q
    BY <1>1, <1>2 DEF ServiceInv, ProfilInv, CreeOK
  <2>2. RappelOK(v)
    BY <1>1, <2>1 DEF ServiceInv, RappelInv
  <2>3. timers[v].stop = t /\ timers[t].etat = "arme"
    BY <1>2, <2>1, <2>2 DEF RappelOK, EnAttente
  <2> QED
    BY <1>1, <2>3
<1>6. profils[q].etat \in {"actif", "echoue"} /\ mStopProfil[profils[q].num] = t
  BY <1>1, <1>2, <1>5 DEF ServiceInv, ProfilInv, ActifOK
<1> QED
  BY <1>2, <1>4, <1>6

LEMMA ArreterProfilOrdre ==
  ASSUME Marges, PlanifInv, Ordre, Vivant, NEW t \in Timers, ArreterProfil(t)
  PROVE  Ordre'
<1>0. PICK q, k : q = timers[t].prof /\ k = timers[t].num
  OBVIOUS
<1>1. /\ Du(t, "stop") /\ mStopProfil' = [mStopProfil EXCEPT ![k] = Aucun]
      /\ profils' = [profils EXCEPT ![q].etat = IF @ = "actif" THEN "arret" ELSE @]
      /\ profils[q].etat \notin {"libre", "echoue"}
      /\ timers' = [timers EXCEPT ![t] = Fini(t)]
      /\ UNCHANGED <<tache, horloge, mLanceurProfil, ub>>
      /\ UNCHANGED <<tache, horloge>> /\ UNCHANGED horloge /\ UNCHANGED <<pc, num, neuf>>
  BY <1>0 DEF ArreterProfil, tache
<1>2. /\ q \in Profils /\ timers'[t].etat = "libre" /\ EnAttente(t)
      /\ timers[t].etat = "expire" /\ timers[t].type = "stop"
      /\ \A v \in Timers : v # t => timers'[v] = timers[v]
      /\ profils'[q].etat = (IF profils[q].etat = "actif" THEN "arret" ELSE profils[q].etat)
      /\ profils'[q].num = profils[q].num
      /\ \A r \in Profils : r # q => profils'[r] = profils[r]
  <2>1. EnAttente(t) /\ timers[t].etat = "expire" /\ timers[t].type = "stop"
    BY <1>1 DEF Du, EnAttente
  <2>2. q \in Profils
    BY <1>0, <2>1, EnAttenteFait
  <2> QED
    BY <1>0, <1>1, <2>1, <2>2, FiniFait DEF PlanifInv, TypeOK
<1>3. profils[q].etat # "actif" => profils' = profils
  BY <1>1, <1>2 DEF PlanifInv, TypeOK
<1>4. \A v \in Timers : timers'[v].etat = "rappel" =>
        /\ timers[v].etat = "rappel" /\ timers'[v] = timers[v] /\ v # t
        /\ profils'[timers[v].prof] = profils[timers[v].prof]
  BY <1>1, <1>2, <1>3 DEF Ordre, Unique
<1>5. Unique'
  BY <1>1, <1>2, <1>4, UniqueCadre DEF Ordre
<1>6. FiniInv' /\ IndefiniSeulementCourse'
  BY <1>1 DEF Ordre, FiniInv, IndefiniSeulementCourse, Vivant
<1>7. CASE ~Service
  BY <1>1, <1>5, <1>6, <1>7 DEF Ordre, Service
<1>8. CASE Service
  <2>1. ServiceInv
    BY <1>8 DEF Ordre
  <2>2. PICK n \in Nums :
           /\ k = Planifs[n].profil /\ profils[q].num = k
           /\ profils[q].etat = "actif"
           /\ Duree(n) <= Ecoule(n) /\ Ecoule(n) <= Duree(n) + retard
    BY <1>0, <1>1, <1>8, AvantArreter
  <2>3. \A m \in Nums : Attendus(m)' = Attendus(m) /\ Tourne(m)' = Tourne(m)
    <3>1. \A m \in Nums : Attendus(m)' = Attendus(m)
      BY <1>2 DEF Attendus
    <3>2. \A r \in Profils : /\ profils'[r].num = profils[r].num
                             /\ profils'[r].etat # "libre" <=> profils[r].etat # "libre"
      BY <1>2, <2>2
    <3> QED
      BY <3>1, <3>2 DEF Tourne
  <2>4. JourInv' /\ PlanInv'
    BY <1>1, <2>1, JourCadre, PlanCadre DEF ServiceInv, tache
  <2>5. OccupeInv'
    BY <1>1, <2>1, <2>3, OccupeCadre DEF ServiceInv, Intact
  <2>6. LanceurInv'
    <3>1. \A m \in Nums : \A v \in Attendus(m) : timers'[v] = timers[v]
      BY <1>1, <1>2 DEF Attendus
    <3> QED
      BY <1>1, <2>1, <2>3, <3>1, LanceurCadre DEF ServiceInv
  <2>7. CarteInv'
    BY <1>1, <2>1, <2>3, CarteCadre DEF ServiceInv, PlanifInv, NumInv
  <2>8. PrevuInv'
    <3>1. ASSUME NEW m \in Nums, heure < Debut(m) + Duree(m), Tenu(m)
          PROVE  Tenu(m)'
      <4>1. heure' = heure
        BY <1>1, HorlogeInchangee
      <4>2. CASE Attendus(m) # {}
        BY <2>3, <4>2 DEF Tenu
      <4>3. CASE heure >= Debut(m) /\ Allume(m)
        <5>1. m # n
          <6> SUFFICES ASSUME m = n PROVE FALSE
            OBVIOUS
          <6>1. Ecoule(m) = heure - Debut(m)
            BY <4>3 DEF Ecoule
          <6>2. Bornes(m)
            BY BornesFait DEF PlanifInv
          <6> QED
            BY <2>2, <3>1, <6>1, <6>2, SMT DEF Bornes
        <5>2. Planifs[m].profil # k
          BY <2>2, <5>1 DEF Marges
        <5>3. Allume(m)'
          BY <1>2, <2>2, <4>3, <5>2 DEF Allume
        <5> QED
          BY <4>1, <4>3, <5>3 DEF Tenu
      <4> QED
        BY <3>1, <4>2, <4>3 DEF Tenu
    <3> QED
      BY <1>1, <2>1, <3>1, PrevuCadre DEF ServiceInv
  <2>9. RappelInv'
    <3>1. ASSUME NEW v \in Timers, timers'[v].etat = "rappel"
          PROVE  timers'[timers[v].stop] = timers[timers[v].stop]
      <4>1. RappelOK(v)
        BY <1>4, <2>1, <3>1 DEF ServiceInv, RappelInv
      <4>2. timers[v].stop \in Timers /\ timers[v].stop # t
        BY <1>2, <4>1 DEF RappelOK
      <4> QED
        BY <1>2, <4>2
    <3> QED
      BY <1>1, <1>4, <2>1, <3>1, RappelCadre DEF ServiceInv
  <2>10. MinuteInv'
    <3>1. ASSUME NEW v \in Timers, EnAttente(v)'
          PROVE  /\ EnAttente(v) /\ timers'[v] = timers[v]
                 /\ profils'[timers[v].prof].num = profils[timers[v].prof].num
      <4>1. v # t /\ timers'[v] = timers[v] /\ EnAttente(v)
        BY <1>2, <3>1 DEF EnAttente
      <4>2. timers[v].prof \in Profils
        BY <4>1, EnAttenteFait
      <4> QED
        BY <1>2, <4>1, <4>2
    <3> QED
      BY <1>1, <2>1, <3>1, MinuteCadre DEF ServiceInv
  <2>11. ProfilInv'
    <3> SUFFICES ASSUME NEW r \in Profils
                 PROVE  /\ profils'[r].etat = "cree" => CreeOK(r)'
                        /\ profils'[r].etat \in {"actif", "echoue"} => ActifOK(r)'
                        /\ profils'[r].etat = "arret" => ArretOK(r)'
      BY DEF ProfilInv
    <3>1. CASE r = q
      <4>1. Ecoule(n)' = Ecoule(n) /\ retard' = retard
        BY <1>1, HorlogeInchangee
      <4>2. ArretOK(r)'
        BY <1>2, <2>2, <3>1, <4>1 DEF ArretOK
      <4> QED
        BY <1>2, <2>2, <3>1, <4>2
    <3>2. CASE r # q
      <4>1. profils'[r] = profils[r]
        BY <1>2, <3>2
      <4>2. profils[r].etat = "cree" => CreeOK(r)'
        BY <1>2, <2>1 DEF ServiceInv, ProfilInv, CreeOK
      <4>3. profils[r].etat \in {"actif", "echoue"} => ActifOK(r)'
        <5> SUFFICES ASSUME profils[r].etat \in {"actif", "echoue"} PROVE ActifOK(r)'
          OBVIOUS
        <5>1. profils[r].num # k
          BY <1>2, <2>2, <3>2 DEF Ordre, Unique
        <5>2. PICK v \in Timers : /\ EnAttente(v) /\ timers[v].prof = r
                                  /\ mStopProfil[profils[r].num] = v
          BY <2>1 DEF ServiceInv, ProfilInv, ActifOK
        <5>3. timers'[v] = timers[v]
          BY <1>0, <1>2, <3>2, <5>2
        <5>4. mStopProfil'[profils[r].num] = v
          BY <1>1, <5>1, <5>2
        <5> QED
          BY <4>1, <5>2, <5>3, <5>4 DEF ActifOK, EnAttente
      <4>4. profils[r].etat = "arret" => ArretOK(r)'
        BY <1>1, <2>1, <4>1, ArretCadre DEF ServiceInv, ProfilInv
      <4> QED
        BY <4>1, <4>2, <4>3, <4>4
    <3> QED
      BY <3>1, <3>2
  <2> QED
    BY <1>5, <1>6, <2>4, <2>5, <2>6, <2>7, <2>8, <2>9, <2>10, <2>11 DEF Ordre, ServiceInv
<1> QED
  BY <1>7, <1>8

LEMMA FinirProfilOrdre ==
  ASSUME Marges, PlanifInv, Ordre, Vivant, NEW q \in Profils, FinirProfil(q)
  PROVE  Ordre'
<1>1. /\ profils[q].etat = "arret" /\ timers' = timers /\ mStopProfil' = mStopProfil
      /\ UNCHANGED <<tache, horloge, mLanceurProfil, ub>>
      /\ UNCHANGED <<tache, horloge>> /\ UNCHANGED horloge /\ UNCHANGED <<pc, num, neuf>>
      /\ profils'[q].etat = "libre"
      /\ \A r \in Profils : r # q => profils'[r] = profils[r]
  BY DEF FinirProfil, tache, maps, PlanifInv, TypeOK
<1>2. Unique'
  BY <1>1, UniqueCadre DEF Ordre, Unique
<1>3. FiniInv' /\ IndefiniSeulementCourse'
  BY <1>1 DEF Ordre, FiniInv, IndefiniSeulementCourse, Vivant
<1>4. CASE ~Service
  BY <1>1, <1>2, <1>3, <1>4 DEF Ordre, Service
<1>5. CASE Service
  <2>1. ServiceInv
    BY <1>5 DEF Ordre
  <2>2. \A m \in Nums : /\ Attendus(m)' = Attendus(m) /\ (Tourne(m)' => Tourne(m))
                        /\ Allume(m) => Allume(m)'
    BY <1>1 DEF Attendus, Tourne, Allume
  <2>3. JourInv' /\ PlanInv'
    BY <1>1, <2>1, JourCadre, PlanCadre DEF ServiceInv, tache
  <2>4. OccupeInv'
    BY <1>1, <2>1, <2>2, OccupeCadre DEF ServiceInv, Intact
  <2>5. LanceurInv'
    BY <1>1, <2>1, <2>2, LanceurCadre DEF ServiceInv
  <2>6. CarteInv'
    BY <1>1, <2>1, <2>2, CarteCadre DEF ServiceInv, PlanifInv, NumInv
  <2>7. PrevuInv'
    <3>1. \A m \in Nums : Tenu(m) => Tenu(m)'
      BY <1>1, <2>2, HorlogeInchangee DEF Tenu
    <3> QED
      BY <1>1, <2>1, <3>1, PrevuCadre DEF ServiceInv
  <2>8. RappelInv'
    <3>1. \A v \in Timers : timers[v].etat = "rappel" =>
            profils'[timers[v].prof] = profils[timers[v].prof]
      BY <1>1, <2>1 DEF ServiceInv, RappelInv, RappelOK
    <3> QED
      BY <1>1, <2>1, <3>1, RappelCadre DEF ServiceInv
  <2>9. MinuteInv'
    <3>1. ASSUME NEW v \in Timers, EnAttente(v)
          PROVE  profils'[timers[v].prof].num = profils[timers[v].prof].num
      BY <1>1, <1>5, <3>1, EnAttenteFait DEF Suivi, Service
    <3> QED
      BY <1>1, <2>1, <3>1, MinuteCadre DEF ServiceInv, EnAttente
  <2>10. ProfilInv'
    <3> SUFFICES ASSUME NEW r \in Profils
                 PROVE  /\ profils'[r].etat = "cree" => CreeOK(r)'
                        /\ profils'[r].etat \in {"actif", "echoue"} => ActifOK(r)'
                        /\ profils'[r].etat = "arret" => ArretOK(r)'
      BY DEF ProfilInv
    <3>1. CASE r = q
      BY <1>1, <3>1
    <3>2. CASE r # q
      <4>1. profils'[r] = profils[r]
        BY <1>1, <3>2
      <4>2. profils[r].etat = "arret" => ArretOK(r)'
        BY <1>1, <2>1, <4>1, ArretCadre DEF ServiceInv, ProfilInv
      <4> QED
        BY <1>1, <2>1, <4>1, <4>2 DEF ServiceInv, ProfilInv, CreeOK, ActifOK, EnAttente
    <3> QED
      BY <3>1, <3>2
  <2> QED
    BY <1>2, <1>3, <2>3, <2>4, <2>5, <2>6, <2>7, <2>8, <2>9, <2>10 DEF Ordre, ServiceInv
<1> QED
  BY <1>4, <1>5

\* A profile whose select fails keeps its place: its stop timer is still there.
LEMMA EchouerProfilOrdre ==
  ASSUME Marges, PlanifInv, Ordre, Vivant, NEW q \in Profils, EchouerProfil(q)
  PROVE  Ordre'
<1>1. /\ profils[q].etat = "actif" /\ timers' = timers /\ mStopProfil' = mStopProfil
      /\ UNCHANGED <<tache, horloge, mLanceurProfil, ub>>
      /\ UNCHANGED <<tache, horloge>> /\ UNCHANGED horloge /\ UNCHANGED <<pc, num, neuf>>
      /\ profils'[q].etat = "echoue" /\ profils'[q].num = profils[q].num
      /\ \A r \in Profils : r # q => profils'[r] = profils[r]
  BY DEF EchouerProfil, tache, maps, PlanifInv, TypeOK
<1>2. \A r \in Profils : /\ profils'[r].num = profils[r].num
                         /\ profils'[r].etat # "libre" <=> profils[r].etat # "libre"
  BY <1>1
<1>3. Unique'
  BY <1>1, <1>2, UniqueCadre DEF Ordre, Unique
<1>4. FiniInv' /\ IndefiniSeulementCourse'
  BY <1>1 DEF Ordre, FiniInv, IndefiniSeulementCourse, Vivant
<1>5. CASE ~Service
  BY <1>1, <1>3, <1>4, <1>5 DEF Ordre, Service
<1>6. CASE Service
  <2>1. ServiceInv
    BY <1>6 DEF Ordre
  <2>2. \A m \in Nums : /\ Attendus(m)' = Attendus(m) /\ (Tourne(m)' <=> Tourne(m))
                        /\ Allume(m) => Allume(m)'
    BY <1>1, <1>2 DEF Attendus, Tourne, Allume
  <2>3. JourInv' /\ PlanInv'
    BY <1>1, <2>1, JourCadre, PlanCadre DEF ServiceInv, tache
  <2>4. OccupeInv'
    BY <1>1, <2>1, <2>2, OccupeCadre DEF ServiceInv, Intact
  <2>5. LanceurInv'
    BY <1>1, <2>1, <2>2, LanceurCadre DEF ServiceInv
  <2>6. CarteInv'
    BY <1>1, <2>1, <2>2, CarteCadre DEF ServiceInv, PlanifInv, NumInv
  <2>7. PrevuInv'
    <3>1. \A m \in Nums : Tenu(m) => Tenu(m)'
      BY <1>1, <2>2, HorlogeInchangee DEF Tenu
    <3> QED
      BY <1>1, <2>1, <3>1, PrevuCadre DEF ServiceInv
  <2>8. RappelInv'
    <3>1. \A v \in Timers : timers[v].etat = "rappel" =>
            profils'[timers[v].prof] = profils[timers[v].prof]
      BY <1>1, <2>1 DEF ServiceInv, RappelInv, RappelOK
    <3> QED
      BY <1>1, <2>1, <3>1, RappelCadre DEF ServiceInv
  <2>9. MinuteInv'
    <3>1. ASSUME NEW v \in Timers, EnAttente(v)
          PROVE  profils'[timers[v].prof].num = profils[timers[v].prof].num
      BY <1>2, <3>1, EnAttenteFait
    <3> QED
      BY <1>1, <2>1, <3>1, MinuteCadre DEF ServiceInv, EnAttente
  <2>10. ProfilInv'
    <3> SUFFICES ASSUME NEW r \in Profils
                 PROVE  /\ profils'[r].etat = "cree" => CreeOK(r)'
                        /\ profils'[r].etat \in {"actif", "echoue"} => ActifOK(r)'
                        /\ profils'[r].etat = "arret" => ArretOK(r)'
      BY DEF ProfilInv
    <3>1. ActifOK(r) => ActifOK(r)'
      BY <1>1, <1>2 DEF ActifOK, EnAttente
    <3>2. CASE r = q
      BY <1>1, <2>1, <3>1, <3>2 DEF ServiceInv, ProfilInv
    <3>3. CASE r # q
      <4>1. profils'[r] = profils[r]
        BY <1>1, <3>3
      <4>2. profils[r].etat = "arret" => ArretOK(r)'
        BY <1>1, <2>1, <4>1, ArretCadre DEF ServiceInv, ProfilInv
      <4> QED
        BY <1>1, <2>1, <3>1, <4>1, <4>2 DEF ServiceInv, ProfilInv, CreeOK
    <3> QED
      BY <3>2, <3>3
  <2> QED
    BY <1>3, <1>4, <2>3, <2>4, <2>5, <2>6, <2>7, <2>8, <2>9, <2>10 DEF Ordre, ServiceInv
<1> QED
  BY <1>5, <1>6

-----------------------------------------------------------------------------
(***************************************************************************)
(* Undefined behaviour, and the end of the main task.                      *)
(***************************************************************************)

LEMMA CourseOrdre ==
  ASSUME Marges, PlanifInv, Ordre, Vivant, Course
  PROVE  Ordre'
<1>1. UNCHANGED <<tache, horloge, maps, timers, profils>> /\ IndefiniSeulementCourse'
  BY DEF Course, IndefiniSeulementCourse
<1> QED
  BY <1>1, ToutInchange

\* The callbacks that go wrong in service are that of a launcher which is not in
\* the map yet, and that of the stop timer of a profile whose select has failed.
LEMMA CallbackIndefiniOrdre ==
  ASSUME Marges, PlanifInv, Ordre, Vivant, NEW t \in Timers, CallbackIndefini(t)
  PROVE  Ordre'
<1>1. /\ UNCHANGED <<tache, horloge, maps, timers, profils>>
      /\ UNCHANGED <<pc, neuf, timers>>
  BY DEF CallbackIndefini, tache
<1>2. CASE ~Service
  <2>1. pc \in {"fin2", "fin3", "sortie"}
    BY <1>2, ServiceFait DEF Vivant, PlanifInv
  <2>2. IndefiniSeulementCourse'
    BY <1>1, <2>1 DEF IndefiniSeulementCourse
  <2> QED
    BY <1>1, <2>2, ToutInchange
<1>3. CASE Service
  <2>0. SUFFICES ASSUME ~Du(t, "stop") PROVE Ordre'
    <3> SUFFICES ASSUME Du(t, "stop") PROVE Ordre'
      OBVIOUS
    <3>1. timers[t].type = "stop" /\ Aucun \notin Timers /\ pc # "fin3"
      BY <1>3, SMT DEF Du, Timers, Aucun, Service
    <3>2. /\ mStopProfil[timers[t].num] # Aucun /\ timers[t].prof \in Profils
          /\ profils[timers[t].prof].etat \in {"actif", "echoue"}
      BY <1>3, <3>1, AvantArreter
    <3>3. ub' = "profil" /\ profils[timers[t].prof].etat = "echoue"
      BY <3>1, <3>2 DEF CallbackIndefini, Du
    <3>4. IndefiniSeulementCourse'
      BY <1>1, <3>2, <3>3 DEF IndefiniSeulementCourse
    <3> QED
      BY <1>1, <3>4, ToutInchange
  <2>2. Du(t, "start") /\ mLanceurProfil[timers[t].num] = Aucun
    BY <2>0 DEF CallbackIndefini
  <2>3. ub' = "erase_lanceur"
    BY <2>2 DEF CallbackIndefini, Du
  <2>4. t = neuf /\ pc = "insert"
    <3>1. PICK n \in Nums : n = timers[t].num
      BY <2>2 DEF PlanifInv, NumInv, Du
    <3>2. t \in Attendus(n)
      BY <2>2, <3>1 DEF Attendus, Du
    <3>3. Attendus(n) \ {neuf} = {} /\ (pc # "insert" => neuf = Aucun)
      BY <1>3, <2>2, <3>1 DEF Ordre, ServiceInv, CarteInv
    <3>4. t # Aucun
      BY SMT DEF Timers, Aucun
    <3> QED
      BY <3>2, <3>3, <3>4
  <2>5. IndefiniSeulementCourse'
    BY <1>1, <2>2, <2>3, <2>4 DEF IndefiniSeulementCourse, Du
  <2> QED
    BY <1>1, <2>5, ToutInchange
<1> QED
  BY <1>2, <1>3

LEMMA FinLanceursOrdre ==
  ASSUME Marges, PlanifInv, Ordre, Vivant, FinLanceurs
  PROVE  Ordre'
<1> DEFINE connus == {mLanceurProfil[n] : n \in Nums} \ {Aucun}
<1>1. PICK tardifs \in SUBSET {t \in connus : Du(t, "start")} :
        timers' = [t \in Timers |->
          IF t \notin connus THEN timers[t]
          ELSE IF t \in tardifs THEN [timers[t] EXCEPT !.auto = TRUE]
          ELSE [Vierge EXCEPT !.auto = TRUE]]
  BY DEF FinLanceurs
<1>2. pc' = "fin2" /\ mLanceurProfil' = [n \in Nums |-> Aucun] /\ profils' = profils
  BY DEF FinLanceurs
<1> HIDE DEF connus
<1>3. ASSUME NEW t \in Timers, timers'[t].etat = "rappel"
      PROVE  timers'[t] = timers[t]
  <2>1. t \in tardifs => timers[t].etat = "expire" /\ timers[t] \in Timer
    BY DEF Du, PlanifInv, TypeOK
  <2>2. t \in connus /\ t \notin tardifs => timers'[t].etat = "libre"
    BY <1>1 DEF Vierge
  <2>3. t \in connus /\ t \in tardifs => timers'[t].etat = "expire"
    BY <1>1, <2>1 DEF Timer
  <2> QED
    BY <1>1, <1>3, <2>2, <2>3
<1>4. Unique'
  BY <1>2, <1>3, UniqueCadre DEF Ordre
<1> QED
  BY <1>2, <1>4 DEF Ordre, FiniInv, IndefiniSeulementCourse, Service

\* The clean-up of the stop timers keeps what is left of the invariant when no
\* profile is made and no callback begun.
LEMMA FinOrdre ==
  ASSUME PlanifInv, Ordre, pc \in {"fin2", "fin3"}, pc' \in {"fin2", "fin3", "sortie"},
         mLanceurProfil' = mLanceurProfil,
         \A q \in Profils : \/ profils'[q] = profils[q]
                            \/ /\ profils[q].etat = "actif"
                               /\ profils'[q] = [profils[q] EXCEPT !.etat = "arret"],
         \A t \in Timers : timers'[t] = timers[t] \/ timers'[t].etat = "libre"
  PROVE  Ordre'
<1>1. ASSUME NEW q \in Profils
      PROVE  /\ profils'[q].etat # "libre" =>
                  profils[q].etat # "libre" /\ profils'[q].num = profils[q].num
             /\ profils[q].etat = "cree" => profils'[q] = profils[q]
  <2>1. profils[q] \in [etat : EtatProfil, num : Numeros \cup {0}]
    BY DEF PlanifInv, TypeOK
  <2> QED
    BY <2>1
<1>2. ASSUME NEW t \in Timers, timers'[t].etat = "rappel"
      PROVE  /\ timers[t].etat = "rappel" /\ timers'[t].prof = timers[t].prof
             /\ profils'[timers[t].prof] = profils[timers[t].prof]
  <2>1. timers'[t] = timers[t]
    BY <1>2
  <2> QED
    BY <1>1, <1>2, <2>1 DEF Ordre, Unique
<1>3. Unique'
  BY <1>1, <1>2, UniqueCadre DEF Ordre
<1> QED
  BY <1>3 DEF Ordre, FiniInv, IndefiniSeulementCourse, Service

LEMMA FinArretOrdre ==
  ASSUME Marges, PlanifInv, Ordre, Vivant, FinArret
  PROVE  Ordre'
<1>1. /\ pc = "fin2" /\ pc' = "fin3" /\ timers' = timers /\ mLanceurProfil' = mLanceurProfil
      /\ \A q \in Profils : \/ profils'[q] = profils[q]
                            \/ /\ profils[q].etat = "actif"
                               /\ profils'[q] = [profils[q] EXCEPT !.etat = "arret"]
  BY DEF FinArret, maps
<1> QED
  BY <1>1, FinOrdre

LEMMA FinStopOrdre ==
  ASSUME Marges, PlanifInv, Ordre, Vivant, FinStop
  PROVE  Ordre'
<1>1. /\ pc = "fin3" /\ pc' = "fin2" /\ profils' = profils /\ mLanceurProfil' = mLanceurProfil
      /\ timers' = [timers EXCEPT ![neuf] = [Vierge EXCEPT !.auto = TRUE]]
  BY DEF FinStop, maps
<1>2. \A t \in Timers : timers'[t] = timers[t] \/ timers'[t].etat = "libre"
  <2>1. [Vierge EXCEPT !.auto = TRUE].etat = "libre"
    BY DEF Vierge
  <2> QED
    BY <1>1, <2>1 DEF PlanifInv, TypeOK
<1> QED
  BY <1>1, <1>2, FinOrdre

LEMMA FinMapsOrdre ==
  ASSUME Marges, PlanifInv, Ordre, Vivant, FinMaps
  PROVE  Ordre'
<1>1. /\ pc = "fin2" /\ pc' = "sortie" /\ profils' = profils /\ timers' = timers
      /\ mLanceurProfil' = mLanceurProfil
  BY DEF FinMaps
<1> QED
  BY <1>1, FinOrdre

LEMMA SortirOrdre ==
  ASSUME Marges, PlanifInv, Ordre, Vivant, Sortir
  PROVE  Ordre'
<1>1. /\ pc = "sortie" /\ pc' = "sorti" /\ mLanceurProfil' = mLanceurProfil /\ ub' = ub
      /\ \A t \in Timers : timers'[t] = Vierge
      /\ \A q \in Profils : profils'[q].etat = "libre"
  BY DEF Sortir
<1>2. Unique'
  BY <1>1 DEF Unique, Vierge
<1> QED
  BY <1>1, <1>2 DEF Ordre, FiniInv, IndefiniSeulementCourse, Service, Vivant

-----------------------------------------------------------------------------
(***************************************************************************)
(* A tick.                                                                 *)
(***************************************************************************)

\* It takes one from what a timer has left.
LEMMA TickTimers ==
  ASSUME PlanifInv, Tick, NEW t \in Timers
  PROVE  /\ timers[t].etat # "arme" => timers'[t] = timers[t]
         /\ timers[t].etat = "arme" =>
              /\ timers[t].rem \in Nat /\ timers[t].rem # 0
              /\ timers'[t].rem = timers[t].rem - 1
              /\ timers'[t].etat = IF timers[t].rem = 1 THEN "expire" ELSE "arme"
              /\ timers'[t].type = timers[t].type /\ timers'[t].num = timers[t].num
              /\ timers'[t].prof = timers[t].prof
<1>1. timers'[t] = IF timers[t].etat # "arme" THEN timers[t]
                   ELSE [timers[t] EXCEPT !.rem = @ - 1,
                                          !.etat = IF timers[t].rem = 1 THEN "expire" ELSE "arme"]
  BY DEF Tick
<1>2. timers[t] \in Timer /\ (timers[t].etat = "arme" => timers[t].rem # 0)
  BY DEF PlanifInv, TypeOK, NumInv
<1>3. CASE timers[t].etat # "arme"
  BY <1>1, <1>3
<1>4. CASE timers[t].etat = "arme"
  <2> DEFINE e == IF timers[t].rem = 1 THEN "expire" ELSE "arme"
             m == timers[t].rem - 1
  <2>1. timers'[t] = [timers[t] EXCEPT !.rem = m, !.etat = e]
    BY <1>1, <1>4
  <2> HIDE DEF e, m
  <2>2. /\ timers'[t].rem = m /\ timers'[t].etat = e
        /\ timers'[t].type = timers[t].type /\ timers'[t].num = timers[t].num
        /\ timers'[t].prof = timers[t].prof /\ timers[t].rem \in Nat
    BY <1>2, <2>1 DEF Timer
  <2> QED
    BY <1>2, <1>4, <2>2 DEF e, m
<1> QED
  BY <1>3, <1>4

LEMMA TickObjets ==
  ASSUME PlanifInv, Tick
  PROVE  /\ \A n \in Nums : /\ Attendus(n)' = Attendus(n) /\ Tourne(n)' = Tourne(n)
                            /\ Allume(n)' = Allume(n) /\ Intact(n)' = Intact(n)
         /\ \A t \in Timers : EnAttente(t)' <=> EnAttente(t)
         /\ UNCHANGED <<tache, maps, profils, ub>> /\ UNCHANGED <<pc, num, neuf, off, sLastDay>>
         /\ UNCHANGED <<mLanceurProfil, mStopProfil>> /\ profils' = profils /\ ub' = ub
<1>1. /\ UNCHANGED <<tache, maps, profils, ub>> /\ UNCHANGED <<pc, num, neuf, off, sLastDay>>
      /\ UNCHANGED <<mLanceurProfil, mStopProfil>> /\ profils' = profils /\ ub' = ub
  BY DEF Tick, tache, maps
<1>2. \A t \in Timers : EnAttente(t)' <=> EnAttente(t)
  BY TickTimers DEF EnAttente
<1>3. \A n \in Nums : Attendus(n)' = Attendus(n)
  <2> SUFFICES ASSUME NEW n \in Nums, NEW t \in Timers
               PROVE  t \in Attendus(n)' <=> t \in Attendus(n)
    BY DEF Attendus
  <2> QED
    BY TickTimers DEF Attendus
<1>4. \A n \in Nums : Tourne(n)' = Tourne(n) /\ Allume(n)' = Allume(n)
  BY <1>1, ProfilsInchanges
<1> QED
  BY <1>1, <1>2, <1>3, <1>4 DEF Intact

\* Until its planning begins again, one more tick has gone by since it began.
LEMMA EcouleTick ==
  ASSUME Marges, TypeOK, Tick, NEW n \in Nums, Ecoule(n) + 1 < Jour
  PROVE  Ecoule(n)' = Ecoule(n) + 1
<1>1. Bornes(n) /\ heure' = IF heure + 1 = Jour THEN 0 ELSE heure + 1
  BY BornesFait, TickFait
<1>2. Ecoule(n)' = IF heure' >= Debut(n) THEN heure' - Debut(n) ELSE heure' - Debut(n) + Jour
  BY DEF Ecoule
<1>3. CASE heure >= Debut(n)
  <2>1. Ecoule(n) = heure - Debut(n)
    BY <1>3 DEF Ecoule
  <2>2. CASE heure + 1 = Jour
    BY <1>1, <1>2, <1>3, <2>1, <2>2, SMT DEF Bornes
  <2>3. CASE heure + 1 # Jour
    BY <1>1, <1>2, <1>3, <2>1, <2>3, SMT DEF Bornes
  <2> QED
    BY <2>2, <2>3
<1>4. CASE ~(heure >= Debut(n))
  <2>1. Ecoule(n) = heure - Debut(n) + Jour
    BY <1>4 DEF Ecoule
  <2>2. heure' = heure + 1 /\ ~(heure + 1 >= Debut(n))
    BY <1>1, <1>4, <2>1, SMT DEF Bornes
  <2> QED
    BY <1>1, <1>2, <2>1, <2>2, SMT DEF Bornes
<1> QED
  BY <1>3, <1>4

\* A CProfil lives until its planning is over, and then while work is due.
LEMMA TourneFait ==
  ASSUME Marges, PlanifInv, ServiceInv, NEW n \in Nums, NEW q \in Profils,
         profils[q].etat # "libre", profils[q].num = Planifs[n].profil
  PROVE  \/ Ecoule(n) < Duree(n)
         \/ EnCours /\ Ecoule(n) <= Duree(n) + retard
<1>1. \A m \in Nums : profils[q].num = Planifs[m].profil => m = n
  BY DEF Marges
<1>2. Bornes(n) /\ Ecoule(n) \in Int
  <2>1. Bornes(n)
    BY BornesFait DEF PlanifInv
  <2> QED
    BY <2>1, SMT DEF Bornes, Ecoule
<1>3. CASE profils[q].etat = "cree"
  <2>1. PICK t \in Timers : timers[t].etat = "rappel" /\ timers[t].prof = q
    BY <1>3 DEF ServiceInv, ProfilInv, CreeOK
  <2>2. RappelOK(t) /\ timers[t].num \in Nums
    BY <2>1 DEF ServiceInv, RappelInv, RappelOK, PlanifInv, NumInv
  <2>3. Ecoule(n) + Lag - retard < Duree(n)
    BY <1>1, <2>1, <2>2 DEF RappelOK
  <2> QED
    BY <1>2, <2>3, SMT DEF Bornes
<1>4. CASE profils[q].etat \in {"actif", "echoue"}
  <2>1. PICK u \in Timers : EnAttente(u) /\ timers[u].prof = q
    BY <1>4 DEF ServiceInv, ProfilInv, ActifOK
  <2>2. MinuteOK(u, n)
    <3>1. PICK m \in Nums : MinuteOK(u, m)
      BY <2>1 DEF ServiceInv, MinuteInv
    <3> QED
      BY <1>1, <2>1, <3>1 DEF MinuteOK
  <2>3. timers[u].rem \in Nat
    BY DEF PlanifInv, TypeOK, Timer
  <2>4. CASE timers[u].etat = "arme"
    <3>1. timers[u].rem >= 1 /\ Ecoule(n) + timers[u].rem = Duree(n)
      BY <2>2, <2>4 DEF MinuteOK
    <3> QED
      BY <1>2, <2>3, <3>1, SMT DEF Bornes
  <2>5. CASE timers[u].etat = "expire"
    BY <2>2, <2>5 DEF MinuteOK, EnCours
  <2> QED
    BY <2>2, <2>4, <2>5 DEF MinuteOK
<1>5. CASE profils[q].etat = "arret"
  BY <1>1, <1>5 DEF ServiceInv, ProfilInv, ArretOK, EnCours
<1> QED
  BY <1>3, <1>4, <1>5 DEF PlanifInv, TypeOK, EtatProfil

\* The UTC day has just begun: it has for one more tick.
LEMMA MinuitTick ==
  ASSUME Marges, TypeOK, Tick
  PROVE  /\ heure' = tz => MinuitUtc'
         /\ MinuitUtc /\ EnCours => MinuitUtc' /\ heure' = heure + 1 /\ heure' # tz
<1>1. /\ heure' = IF heure + 1 = Jour THEN 0 ELSE heure + 1
      /\ tz' = tz /\ (EnCours => retard < Lag /\ retard' = retard + 1)
      /\ (~EnCours => retard' = 0)
  BY TickFait
<1>2. /\ heure \in Int /\ 0 <= heure /\ heure < Jour
      /\ retard \in Int /\ 0 <= retard /\ retard <= Lag /\ Lag \in Int /\ Jour \in Int
      /\ tz \in Int /\ 0 <= tz /\ tz + 3 * Lag < Jour
  BY HeureFait
<1>3. retard' \in Int /\ 0 <= retard'
  BY <1>1, <1>2, SMT
<1>4. heure' = tz => MinuitUtc'
  <2>1. \A z, r \in Int : 0 <= r => z <= z /\ z <= z + r
    BY SMT
  <2>2. tz <= tz /\ tz <= tz + retard'
    BY <1>2, <1>3, <2>1
  <2> QED
    BY <1>1, <2>2 DEF MinuitUtc
<1>5. ASSUME MinuitUtc, EnCours
      PROVE  MinuitUtc' /\ heure' = heure + 1 /\ heure' # tz
  <2>1. tz <= heure /\ heure <= tz + retard /\ retard < Lag /\ retard' = retard + 1
    BY <1>1, <1>5 DEF MinuitUtc
  <2>2. heure' = heure + 1
    BY <1>1, <1>2, <2>1, SMT
  <2>3. heure + 1 # tz /\ tz <= heure + 1 /\ heure + 1 <= tz + (retard + 1)
    BY <1>2, <2>1, SMT
  <2> QED
    BY <1>1, <2>1, <2>2, <2>3 DEF MinuitUtc
<1> QED
  BY <1>4, <1>5

LEMMA TickJour ==
  ASSUME Marges, PlanifInv, Ordre, Service, Tick
  PROVE  JourInv' /\ OccupeInv'
<1>1. /\ (YDay' # YDay <=> heure' = tz) /\ tz' = tz
      /\ UNCHANGED <<pc, num, sLastDay>> /\ ServiceInv
      /\ (heure' = tz => MinuitUtc') /\ (MinuitUtc /\ EnCours => MinuitUtc')
  BY TickFait, TickObjets, MinuitTick DEF PlanifInv, Ordre
<1>2. YDay # sLastDay \/ pc # "select" => EnCours
  BY DEF Service, EnCours
<1>3. JourInv'
  <2> SUFFICES ASSUME YDay' # sLastDay
               PROVE  MinuitUtc' \/ (sLastDay = -1 /\ pc \in {"select", "fin"})
    BY <1>1 DEF JourInv
  <2>1. CASE YDay = sLastDay
    BY <1>1, <2>1
  <2>2. CASE YDay # sLastDay
    BY <1>1, <1>2, <2>2 DEF ServiceInv, JourInv
  <2> QED
    BY <2>1, <2>2
<1>4. OccupeInv'
  <2> SUFFICES ASSUME pc \in {"offset", "plan", "insert"} \/ (pc = "select" /\ YDay' # sLastDay)
               PROVE  MinuitUtc' \/ Premier'
    BY <1>1 DEF OccupeInv
  <2>1. CASE pc = "select" /\ YDay = sLastDay
    BY <1>1, <2>1
  <2>2. CASE ~(pc = "select" /\ YDay = sLastDay)
    <3>1. EnCours /\ (MinuitUtc \/ Premier)
      BY <1>1, <1>2, <2>2 DEF ServiceInv, OccupeInv
    <3>2. CASE Premier
      <4>1. PICK d \in Depart : heure = d + retard \/ heure = d + retard - Jour
        BY <3>2 DEF Premier
      <4>2. d \in Int /\ 0 <= d /\ d < Jour
        <5>1. d \in 0..(Jour - 1) /\ Jour \in Nat
          BY TempsAssumption
        <5> QED
          BY <5>1, SMT
      <4>3. /\ heure' = IF heure + 1 = Jour THEN 0 ELSE heure + 1
            /\ retard < Lag /\ retard' = retard + 1
        BY <3>1, TickFait DEF PlanifInv
      <4>4. /\ heure \in Int /\ 0 <= heure /\ heure < Jour /\ retard \in Int /\ 0 <= retard
            /\ Lag \in Int /\ Jour \in Int /\ tz \in Int /\ 0 <= tz /\ tz + 3 * Lag < Jour
        BY HeureFait DEF PlanifInv
      <4>5. heure' = d + retard' \/ heure' = d + retard' - Jour
        <5>1. CASE heure = d + retard
          BY <4>2, <4>3, <4>4, <5>1, SMT
        <5>2. CASE heure = d + retard - Jour
          BY <4>2, <4>3, <4>4, <5>2, SMT
        <5> QED
          BY <4>1, <5>1, <5>2
      <4>6. \A m \in Nums : AFaire(m)' => Intact(m)'
        BY <1>1, <3>2, TickObjets DEF Premier, AFaire
      <4> QED
        BY <4>5, <4>6 DEF Premier
    <3> QED
      BY <1>1, <3>1, <3>2
  <2> QED
    BY <2>1, <2>2
<1> QED
  BY <1>3, <1>4

LEMMA TickPlan ==
  ASSUME Marges, PlanifInv, Ordre, Service, Tick
  PROVE  PlanInv'
<1> SUFFICES ASSUME pc \in {"plan", "insert"}
             PROVE  \/ off <= heure' /\ heure' <= off + retard'
                    \/ /\ heure' < tz \/ YDay' # sLastDay
                       /\ \A n \in Nums : Debut(n) + Duree(n) <= off
  BY TickObjets, TickFait DEF PlanInv, PlanifInv, Debut, Duree
<1>1. /\ heure' = IF heure + 1 = Jour THEN 0 ELSE heure + 1
      /\ (YDay' # YDay <=> heure' = tz) /\ retard < Lag /\ retard' = retard + 1
  <2>1. EnCours
    BY DEF EnCours
  <2> QED
    BY <2>1, TickFait DEF PlanifInv
<1>2. /\ heure \in Int /\ 0 <= heure /\ heure < Jour
      /\ retard \in Int /\ 0 <= retard /\ Lag \in Int /\ Jour \in Int
      /\ tz \in Int /\ 0 <= tz /\ tz + 3 * Lag < Jour /\ off \in Int
  BY HeureFait DEF PlanifInv
<1>3. YDay # sLastDay => MinuitUtc
  BY DEF Ordre, ServiceInv, JourInv
<1>4. CASE /\ off <= heure /\ heure <= off + retard /\ heure + 1 # Jour
  <2>1. off <= heure + 1 /\ heure + 1 <= off + (retard + 1)
    BY <1>2, <1>4, SMT
  <2> QED
    BY <1>1, <1>4, <2>1
<1>5. CASE /\ off <= heure /\ heure <= off + retard /\ heure + 1 = Jour
  <2>1. ~MinuitUtc
    BY <1>1, <1>2, <1>5, SMT DEF MinuitUtc
  <2>2. PICK d \in Depart : heure = d + retard \/ heure = d + retard - Jour
    BY <2>1 DEF Ordre, ServiceInv, OccupeInv, Premier
  <2>3. d \in Int /\ d < Jour
    <3>1. d \in 0..(Jour - 1) /\ Jour \in Nat
      BY TempsAssumption
    <3> QED
      BY <3>1, SMT
  <2>4. Jour <= d + Lag /\ d <= off
    <3>1. CASE heure = d + retard
      BY <1>1, <1>2, <1>5, <2>3, <3>1, SMT
    <3>2. CASE heure = d + retard - Jour
      BY <1>1, <1>2, <1>5, <2>3, <3>2, SMT
    <3> QED
      BY <2>2, <3>1, <3>2
  <2>5. ASSUME NEW n \in Nums
        PROVE  Debut(n) + Duree(n) <= off
    <3>1. Bornes(n)
      BY BornesFait DEF PlanifInv
    <3>2. ~(d + Lag < Jour)
      BY <1>2, <2>3, <2>4, SMT
    <3>3. d \notin Debut(n) .. (Debut(n) + Duree(n) - 1)
      BY <3>2 DEF Marges, DansFenetre, Debut, Duree
    <3> QED
      BY <1>1, <1>2, <2>3, <2>4, <3>1, <3>3, SMT DEF Bornes
  <2>6. heure' = 0 /\ YDay = sLastDay
    BY <1>1, <1>3, <1>5, <2>1
  <2>7. tz = 0 \/ 0 < tz
    BY <1>2, SMT
  <2> QED
    BY <1>1, <2>5, <2>6, <2>7
<1>6. CASE /\ heure < tz \/ YDay # sLastDay
           /\ \A n \in Nums : Debut(n) + Duree(n) <= off
  <2>1. CASE YDay # sLastDay
    <3>1. EnCours /\ TypeOK
      BY DEF EnCours, PlanifInv
    <3>2. heure' # tz
      BY <1>3, <2>1, <3>1, MinuitTick
    <3> QED
      BY <1>1, <1>6, <2>1, <3>2
  <2>2. CASE heure < tz /\ YDay = sLastDay
    <3>1. heure' = heure + 1
      BY <1>1, <1>2, <2>2, SMT
    <3>2. heure + 1 < tz \/ heure + 1 = tz
      BY <1>2, <2>2, SMT
    <3> QED
      BY <1>1, <1>6, <2>2, <3>1, <3>2
  <2> QED
    BY <1>6, <2>1, <2>2
<1> QED
  BY <1>4, <1>5, <1>6 DEF Ordre, ServiceInv, PlanInv

LEMMA TickLanceur ==
  ASSUME Marges, PlanifInv, Ordre, Service, Tick
  PROVE  LanceurInv'
<1> SUFFICES ASSUME NEW n \in Nums
             PROVE  /\ \A t \in Attendus(n)' : LanceurOK(n, timers[t])'
                    /\ Attendus(n)' # {} /\ heure' >= Debut(n) => ~Tourne(n)'
  BY DEF LanceurInv, Debut
<1>1. /\ heure' = IF heure + 1 = Jour THEN 0 ELSE heure + 1
      /\ (EnCours => retard < Lag /\ retard' = retard + 1) /\ (~EnCours => retard' = 0)
      /\ Bornes(n) /\ ServiceInv /\ Attendus(n)' = Attendus(n) /\ Tourne(n)' = Tourne(n)
  BY TickFait, BornesFait, TickObjets DEF PlanifInv, Ordre
<1>2. retard' \in Int /\ 0 <= retard'
  BY <1>1, SMT DEF Bornes
<1>3. ASSUME NEW t \in Attendus(n)
      PROVE  LanceurOK(n, timers[t])'
  <2>1. LanceurOK(n, timers[t]) /\ t \in Timers /\ timers[t].etat \in {"arme", "expire"}
    BY <1>1, <1>3 DEF ServiceInv, LanceurInv, Attendus
  <2>2. PICK h \in Int, r \in Int, h2 \in Int, r2 \in Int :
          h = heure /\ r = retard /\ h2 = heure' /\ r2 = retard' /\ 0 <= r2
    BY <1>1, <1>2 DEF Bornes
  <2>3. SUFFICES
          /\ timers'[t].etat = "arme" =>
               /\ timers'[t].rem >= 1
               /\ Debut(n) <= h2 + timers'[t].rem /\ h2 + timers'[t].rem <= Debut(n) + Lag
          /\ timers'[t].etat = "expire" => /\ Debut(n) <= h2
                                           /\ h2 + Lag - r2 < Debut(n) + Duree(n)
                                           /\ h2 + Lag - r2 < Jour
    BY <2>2 DEF LanceurOK, Debut, Duree
  <2>4. CASE timers[t].etat = "expire"
    <3>1. timers'[t] = timers[t] /\ EnCours
      BY <2>1, <2>4, TickTimers DEF EnCours
    <3>2. /\ Debut(n) <= h /\ h + Lag - r < Debut(n) + Duree(n) /\ h + Lag - r < Jour
          /\ r < Lag /\ r2 = r + 1 /\ h2 = IF h + 1 = Jour THEN 0 ELSE h + 1
      BY <1>1, <2>1, <2>2, <2>4, <3>1 DEF LanceurOK
    <3>3. h2 = h + 1
      BY <1>1, <3>2, SMT DEF Bornes
    <3>4. Debut(n) <= h + 1 /\ h + 1 + Lag - (r + 1) < Debut(n) + Duree(n)
          /\ h + 1 + Lag - (r + 1) < Jour
      BY <1>1, <3>2, SMT DEF Bornes
    <3> QED
      BY <2>4, <3>1, <3>2, <3>3, <3>4
  <2>5. CASE timers[t].etat = "arme"
    <3>1. PICK m \in Nat : m = timers[t].rem /\ m >= 1
      BY <2>1, <2>5 DEF LanceurOK, PlanifInv, TypeOK, Timer
    <3>2. /\ timers'[t].rem = m - 1
          /\ timers'[t].etat = IF m = 1 THEN "expire" ELSE "arme"
      BY <2>1, <2>5, <3>1, TickTimers
    <3>3. Debut(n) <= h + m /\ h + m <= Debut(n) + Lag /\ h < Jour
          /\ h2 = IF h + 1 = Jour THEN 0 ELSE h + 1
      BY <1>1, <2>1, <2>2, <2>5, <3>1 DEF LanceurOK, Bornes
    <3>4. h2 = h + 1
      BY <1>1, <3>1, <3>3, SMT DEF Bornes
    <3>5. CASE m = 1
      <4>1. /\ Debut(n) <= h2 /\ h2 + Lag - r2 < Debut(n) + Duree(n) /\ h2 + Lag - r2 < Jour
        <5>1. h2 <= Debut(n) + Lag /\ Debut(n) <= h2 /\ 0 <= r2
          BY <2>2, <3>3, <3>4, <3>5
        <5> QED
          BY <1>1, <5>1, SMT DEF Bornes
      <4> QED
        BY <3>2, <3>5, <4>1
    <3>6. CASE m # 1
      <4>1. m - 1 >= 1 /\ Debut(n) <= h2 + (m - 1) /\ h2 + (m - 1) <= Debut(n) + Lag
        BY <1>1, <3>1, <3>3, <3>4, <3>6, SMT DEF Bornes
      <4> QED
        BY <3>2, <3>6, <4>1
    <3> QED
      BY <3>5, <3>6
  <2> QED
    BY <2>1, <2>4, <2>5
<1>4. ASSUME Attendus(n) # {}, heure' >= Debut(n), Tourne(n)
      PROVE  FALSE
  <2>1. ~(heure >= Debut(n))
    BY <1>1, <1>4 DEF ServiceInv, LanceurInv
  <2>2. heure + 1 = Debut(n)
    BY <1>1, <1>4, <2>1, SMT DEF Bornes
  <2>3. PICK e \in Int : e = Ecoule(n) /\ e = Jour - 1
    <3>1. heure - Debut(n) + Jour \in Int /\ heure - Debut(n) + Jour = Jour - 1
      BY <1>1, <2>2, SMT DEF Bornes
    <3> QED
      BY <2>1, <3>1 DEF Ecoule
  <2>4. e < Duree(n) \/ (retard < Lag /\ e <= Duree(n) + retard)
    BY <1>1, <1>4, <2>3, TourneFait DEF Tourne
  <2> QED
    BY <1>1, <2>3, <2>4, SMT DEF Bornes
<1> QED
  BY <1>1, <1>3, <1>4

LEMMA TickPrevu ==
  ASSUME Marges, PlanifInv, Ordre, Vivant, Service, Tick
  PROVE  PrevuInv'
<1> SUFFICES ASSUME NEW n \in Nums, ALieu(n)', heure' < Debut(n) + Duree(n)
             PROVE  Attendus(n)' # {} \/ (heure' >= Debut(n) /\ Allume(n)')
  BY DEF PrevuInv, Debut, Duree
<1>1. /\ heure' = IF heure + 1 = Jour THEN 0 ELSE heure + 1
      /\ (YDay' # YDay <=> heure' = tz) /\ tz' = tz /\ Bornes(n) /\ ServiceInv
      /\ Attendus(n)' = Attendus(n) /\ Allume(n)' = Allume(n)
      /\ UNCHANGED <<pc, num, neuf, off, sLastDay>>
      /\ (MinuitUtc /\ EnCours => heure' # tz)
  BY TickFait, TickObjets, BornesFait, MinuitTick DEF PlanifInv, Ordre
<1>2. sLastDay = YDay' /\ heure' >= tz
      /\ (pc \in {"select", "fin"} \/ (pc \in {"plan", "insert"} /\ n < num))
  BY <1>1 DEF ALieu
<1>3. heure' # tz
  <2> SUFFICES ASSUME heure' = tz PROVE FALSE
    OBVIOUS
  <2>1. YDay # sLastDay
    BY <1>1, <1>2
  <2>2. EnCours
    BY <1>2, <2>1 DEF EnCours
  <2>3. sLastDay = -1
    BY <1>1, <2>1, <2>2 DEF ServiceInv, JourInv
  <2>4. YDay' \in Nat
    <3>1. TypeOK'
      BY TickInv DEF PlanifInv
    <3>2. YDay' \in 0..(Annee - 1) /\ Annee \in Nat
      BY <3>1, SiecleFait, TempsAssumption DEF TypeOK, YDay
    <3> QED
      BY <3>2, SMT
  <2>5. -1 \notin Nat
    BY SMT
  <2> QED
    BY <1>2, <2>3, <2>4, <2>5
<1>4. heure' = heure + 1 /\ heure >= tz
  BY <1>1, <1>2, <1>3, SMT DEF Bornes
<1>5. ALieu(n) /\ heure < Debut(n) + Duree(n)
  <2>1. heure + 1 < Debut(n) + Duree(n)
    BY <1>4
  <2>2. heure < Debut(n) + Duree(n)
    BY <1>1, <2>1, SMT DEF Bornes
  <2> QED
    BY <1>1, <1>2, <1>3, <1>4, <2>2 DEF ALieu
<1>6. heure >= Debut(n) => heure + 1 >= Debut(n)
  BY <1>1, SMT DEF Bornes
<1> QED
  BY <1>1, <1>4, <1>5, <1>6 DEF ServiceInv, PrevuInv

\* What a tick does to a running planning, while something is due or not.
LEMMA EcouleSuit ==
  ASSUME Marges, TypeOK, Tick, NEW n \in Nums, NEW d \in Int,
         \/ Ecoule(n) + d <= Duree(n) /\ 1 <= d
         \/ EnCours /\ Ecoule(n) <= Duree(n) + retard
  PROVE  /\ Ecoule(n) \in Int /\ Ecoule(n)' = Ecoule(n) + 1
         /\ retard' \in Int /\ 0 <= retard' /\ Duree(n) \in Int
         /\ EnCours => retard' = retard + 1 /\ retard \in Int
<1>1. /\ Bornes(n)
      /\ (EnCours => retard < Lag /\ retard' = retard + 1) /\ (~EnCours => retard' = 0)
  BY BornesFait, TickFait
<1>2. PICK e \in Int : e = Ecoule(n)
  BY <1>1, SMT DEF Bornes, Ecoule
<1>3. Ecoule(n) + 1 < Jour
  <2>1. CASE e + d <= Duree(n) /\ 1 <= d
    BY <1>1, <1>2, <2>1, SMT DEF Bornes
  <2>2. CASE EnCours /\ e <= Duree(n) + retard
    BY <1>1, <1>2, <2>2, SMT DEF Bornes
  <2> QED
    BY <1>2, <2>1, <2>2
<1>4. retard' \in Int /\ 0 <= retard'
  BY <1>1, SMT DEF Bornes
<1> QED
  BY <1>1, <1>2, <1>3, <1>4, EcouleTick DEF Bornes

LEMMA TickMinute ==
  ASSUME Marges, PlanifInv, Ordre, Service, Tick
  PROVE  MinuteInv'
<1> SUFFICES ASSUME NEW u \in Timers, EnAttente(u)'
             PROVE  \E n \in Nums : MinuteOK(u, n)'
  BY DEF MinuteInv
<1>1. PICK n \in Nums : MinuteOK(u, n)
  BY TickObjets DEF Ordre, ServiceInv, MinuteInv
<1>2. /\ timers'[u].num = Planifs[n].profil /\ profils'[timers'[u].prof].num = Planifs[n].profil
      /\ timers'[u].etat \in {"arme", "expire"}
  BY <1>1, TickTimers, TickObjets DEF MinuteOK
<1>3. TypeOK
  BY DEF PlanifInv
<1>4. CASE timers[u].etat = "arme"
  <2>1. PICK m \in Int : m = timers[u].rem /\ 1 <= m /\ Ecoule(n) + m = Duree(n)
    <3>1. timers[u].rem \in Nat
      BY DEF PlanifInv, TypeOK, Timer
    <3>2. timers[u].rem \in Int /\ (timers[u].rem >= 1 => 1 <= timers[u].rem)
      BY <3>1, SMT
    <3> QED
      BY <1>1, <1>4, <3>2 DEF MinuteOK
  <2>2. Duree(n) \in Int
    BY <1>3, BornesFait DEF Bornes
  <2>3. Ecoule(n) + m <= Duree(n)
    BY <2>1, <2>2, SMT
  <2>4. /\ Ecoule(n) \in Int /\ Ecoule(n)' = Ecoule(n) + 1
        /\ retard' \in Int /\ 0 <= retard'
    BY <1>3, <2>1, <2>3, EcouleSuit
  <2>5. /\ timers'[u].rem = m - 1 /\ timers'[u].etat = IF m = 1 THEN "expire" ELSE "arme"
    BY <1>4, <2>1, TickTimers
  <2>6. CASE m = 1
    <3>1. \A r, d \in Int : 0 <= r => d <= d /\ d <= d + r
      BY SMT
    <3>2. Ecoule(n)' = Duree(n)
      BY <2>1, <2>4, <2>6
    <3>3. Duree(n) <= Duree(n) /\ Duree(n) <= Duree(n) + retard'
      BY <2>2, <2>4, <3>1
    <3> QED
      BY <1>2, <2>5, <2>6, <3>2, <3>3 DEF MinuteOK, Duree
  <2>7. CASE m # 1
    <3>1. m - 1 >= 1 /\ Ecoule(n) + 1 + (m - 1) = Duree(n)
      BY <2>1, <2>2, <2>4, <2>7, SMT
    <3> QED
      BY <1>2, <2>4, <2>5, <2>7, <3>1 DEF MinuteOK, Duree
  <2> QED
    BY <2>6, <2>7
<1>5. CASE timers[u].etat = "expire"
  <2>1. Duree(n) <= Ecoule(n) /\ Ecoule(n) <= Duree(n) + retard /\ EnCours
    BY <1>1, <1>5 DEF MinuteOK, EnCours
  <2>2. /\ Ecoule(n) \in Int /\ Ecoule(n)' = Ecoule(n) + 1
        /\ retard' = retard + 1 /\ retard \in Int /\ Duree(n) \in Int
    BY <1>3, <2>1, EcouleSuit, SMT
  <2>3. Duree(n) <= Ecoule(n) + 1 /\ Ecoule(n) + 1 <= Duree(n) + (retard + 1)
    BY <2>1, <2>2, SMT
  <2>4. timers'[u].etat = "expire"
    BY <1>5, TickTimers
  <2> QED
    BY <1>2, <2>2, <2>3, <2>4 DEF MinuteOK, Duree
<1> QED
  BY <1>1, <1>4, <1>5 DEF MinuteOK

LEMMA TickRappel ==
  ASSUME Marges, PlanifInv, Ordre, Service, Tick
  PROVE  RappelInv'
<1> SUFFICES ASSUME NEW t \in Timers, timers'[t].etat = "rappel"
             PROVE  RappelOK(t)'
  BY DEF RappelInv
<1>1. timers[t].etat = "rappel" /\ timers'[t] = timers[t]
  BY TickTimers
<1>2. PICK n \in Nums, u \in Timers : n = timers[t].num /\ u = timers[t].stop
  BY <1>1 DEF Ordre, ServiceInv, RappelInv, RappelOK, PlanifInv, NumInv
<1>3. /\ timers[t].type = "start" /\ timers[t].prof \in Profils
      /\ profils[timers[t].prof].etat = "cree" /\ profils[timers[t].prof].num = Planifs[n].profil
      /\ timers[u].type = "stop" /\ timers[u].etat = "arme" /\ timers[u].prof = timers[t].prof
      /\ Ecoule(n) + Lag - retard < Duree(n)
  BY <1>1, <1>2 DEF Ordre, ServiceInv, RappelInv, RappelOK
<1>4. PICK m \in Nums : MinuteOK(u, m)
  BY <1>3 DEF Ordre, ServiceInv, MinuteInv, EnAttente
<1>5. m = n
  BY <1>3, <1>4 DEF MinuteOK, Marges
<1>6. PICK r \in Int : r = timers[u].rem /\ 1 <= r /\ Ecoule(n) + r = Duree(n)
  <2>1. timers[u].rem \in Nat
    BY DEF PlanifInv, TypeOK, Timer
  <2>2. timers[u].rem \in Int /\ (timers[u].rem >= 1 => 1 <= timers[u].rem)
    BY <2>1, SMT
  <2> QED
    BY <1>3, <1>4, <1>5, <2>2 DEF MinuteOK
<1>7. Bornes(n) /\ EnCours /\ TypeOK /\ retard < Lag
  BY <1>1, BornesFait, TickFait DEF PlanifInv, EnCours
<1>8. Ecoule(n) + r <= Duree(n)
  BY <1>6, <1>7, SMT DEF Bornes
<1>9. /\ Ecoule(n) \in Int /\ Ecoule(n)' = Ecoule(n) + 1 /\ retard' = retard + 1
  BY <1>6, <1>7, <1>8, EcouleSuit
<1>10. r # 1 /\ Ecoule(n) + 1 + Lag - (retard + 1) < Duree(n)
  BY <1>3, <1>6, <1>7, <1>9, SMT DEF Bornes
<1>11. timers'[u].type = "stop" /\ timers'[u].etat = "arme" /\ timers'[u].prof = timers[t].prof
  BY <1>3, <1>6, <1>10, TickTimers
<1>12. profils' = profils
  BY TickObjets
<1> QED
  BY <1>1, <1>2, <1>3, <1>9, <1>10, <1>11, <1>12 DEF RappelOK, Duree

LEMMA TickProfil ==
  ASSUME Marges, PlanifInv, Ordre, Service, Tick
  PROVE  ProfilInv'
<1> SUFFICES ASSUME NEW q \in Profils
             PROVE  /\ profils'[q].etat = "cree" => CreeOK(q)'
                    /\ profils'[q].etat \in {"actif", "echoue"} => ActifOK(q)'
                    /\ profils'[q].etat = "arret" => ArretOK(q)'
  BY DEF ProfilInv
<1>1. /\ profils' = profils /\ mStopProfil' = mStopProfil /\ ProfilInv
      /\ \A t \in Timers : EnAttente(t)' <=> EnAttente(t)
  BY TickObjets DEF Ordre, ServiceInv
<1>2. ASSUME profils[q].etat = "cree"
      PROVE  CreeOK(q)'
  BY <1>1, <1>2, TickTimers DEF ProfilInv, CreeOK
<1>3. ASSUME profils[q].etat \in {"actif", "echoue"}
      PROVE  ActifOK(q)'
  <2>1. PICK u \in Timers : EnAttente(u) /\ timers[u].prof = q /\ mStopProfil[profils[q].num] = u
    BY <1>1, <1>3 DEF ProfilInv, ActifOK
  <2>2. EnAttente(u)' /\ timers'[u].prof = q
    BY <1>1, <2>1, TickTimers
  <2> QED
    BY <1>1, <2>1, <2>2 DEF ActifOK
<1>4. ASSUME profils[q].etat = "arret"
      PROVE  ArretOK(q)'
  <2>1. PICK n \in Nums : /\ profils[q].num = Planifs[n].profil
                          /\ Duree(n) <= Ecoule(n) /\ Ecoule(n) <= Duree(n) + retard
    BY <1>1, <1>4 DEF ProfilInv, ArretOK
  <2>2. EnCours /\ TypeOK
    BY <1>4 DEF EnCours, PlanifInv
  <2>3. /\ Ecoule(n) \in Int /\ Ecoule(n)' = Ecoule(n) + 1
        /\ retard' = retard + 1 /\ retard \in Int /\ Duree(n) \in Int
    BY <2>1, <2>2, EcouleSuit, SMT
  <2>4. Duree(n) <= Ecoule(n) + 1 /\ Ecoule(n) + 1 <= Duree(n) + (retard + 1)
    BY <2>1, <2>3, SMT
  <2> QED
    BY <1>1, <2>1, <2>3, <2>4 DEF ArretOK, Duree
<1> QED
  BY <1>1, <1>2, <1>3, <1>4

LEMMA TickOrdre ==
  ASSUME Marges, PlanifInv, Ordre, Vivant, Tick
  PROVE  Ordre'
<1>1. UNCHANGED <<pc, num, neuf, off, sLastDay>> /\ UNCHANGED mLanceurProfil
      /\ profils' = profils /\ ub' = ub
  BY TickObjets
<1>2. Unique'
  <2>1. \A t \in Timers : timers'[t].etat = "rappel" =>
          timers[t].etat = "rappel" /\ timers'[t].prof = timers[t].prof
    BY TickTimers
  <2> QED
    BY <1>1, <2>1, UniqueCadre DEF Ordre
<1>3. FiniInv' /\ IndefiniSeulementCourse'
  BY <1>1 DEF FiniInv, IndefiniSeulementCourse, Ordre, Vivant
<1>4. ASSUME Service PROVE ServiceInv'
  <2>1. JourInv' /\ OccupeInv' /\ PlanInv' /\ LanceurInv' /\ PrevuInv'
        /\ RappelInv' /\ MinuteInv' /\ ProfilInv'
    BY <1>4, TickJour, TickPlan, TickLanceur, TickPrevu, TickRappel, TickMinute, TickProfil
  <2>2. CarteInv'
    <3>1. \A n \in Nums : Attendus(n)' = Attendus(n)
      BY TickObjets
    <3> QED
      BY <1>1, <1>4, <3>1, CarteCadre DEF Ordre, ServiceInv, PlanifInv, NumInv
  <2> QED
    BY <2>1, <2>2 DEF ServiceInv
<1> QED
  BY <1>1, <1>2, <1>3, <1>4 DEF Ordre, Service

-----------------------------------------------------------------------------
(***************************************************************************)
(* The initial states, and every step.                                     *)
(***************************************************************************)

LEMMA InitOrdre ==
  ASSUME Marges, Init
  PROVE  HoraireInv
<1>1. PlanifInv
  BY InitPlanifInv
<1>2. /\ sLastDay = -1 /\ pc = "select" /\ neuf = Aucun /\ ub = "aucun" /\ retard = 0
      /\ tGetOffsetFromMidnight \in Depart
      /\ timers = [t \in Timers |-> Vierge]
      /\ mLanceurProfil = [n \in Nums |-> Aucun]
      /\ profils = [q \in Profils |-> [etat |-> "libre", num |-> 0]]
  BY DEF Init
<1>3. /\ \A t \in Timers : timers[t].etat = "libre"
      /\ \A q \in Profils : profils[q].etat = "libre"
  BY <1>2 DEF Vierge
<1>4. \A n \in Nums : Attendus(n) = {} /\ ~Tourne(n)
  BY <1>3 DEF Attendus, Tourne
<1>5. Unique /\ FiniInv /\ IndefiniSeulementCourse
  BY <1>2, <1>3 DEF Unique, FiniInv, IndefiniSeulementCourse
<1>6. JourInv /\ PlanInv
  BY <1>2 DEF JourInv, PlanInv
<1>7. OccupeInv
  <2>1. heure \in Int /\ retard = 0
    BY <1>1, <1>2, HeureFait DEF PlanifInv
  <2>2. heure = heure + retard
    BY <2>1, SMT
  <2>3. heure \in Depart /\ \A m \in Nums : Intact(m)
    BY <1>2, <1>4 DEF heure, Intact
  <2> QED
    BY <2>2, <2>3 DEF OccupeInv, Premier
<1>8. LanceurInv /\ CarteInv
  BY <1>2, <1>4 DEF LanceurInv, CarteInv
<1>9. RappelInv /\ MinuteInv /\ ProfilInv
  BY <1>3 DEF RappelInv, MinuteInv, ProfilInv, EnAttente
<1>10. PrevuInv
  <2>1. YDay \in 0..(Annee - 1) /\ Annee \in Nat
    BY <1>1, SiecleFait, TempsAssumption DEF PlanifInv, TypeOK, YDay
  <2>2. YDay # -1
    BY <2>1, SMT
  <2> QED
    BY <1>2, <2>2 DEF PrevuInv, ALieu
<1> QED
  BY <1>1, <1>5, <1>6, <1>7, <1>8, <1>9, <1>10 DEF HoraireInv, Ordre, ServiceInv

LEMMA NextHoraire ==
  ASSUME Marges, HoraireInv, [Next]_vars
  PROVE  HoraireInv'
<1> USE DEF HoraireInv
<1>1. CASE Vivant /\ (Tick \/ Saut \/ ChangerHeure)
  <2>1. ~(sauts < MaxSauts)
    <3>1. MaxSauts = 0 /\ sauts \in 0..MaxSauts
      BY DEF Marges, PlanifInv, TypeOK
    <3> QED
      BY <3>1, SMT
  <2> QED
    BY <1>1, <2>1, TickOrdre, NextPlanifInv DEF Saut, ChangerHeure
<1>2. CASE Vivant /\ (TachePrincipale \/ Quitter)
  BY <1>2, ChangementDeJourOrdre, LireOffsetOrdre, PlanifierAvenirOrdre,
     PlanifierMaintenantOrdre, PlanifierPasseOrdre, InsererOrdre, FinLanceursOrdre,
     FinArretOrdre, FinStopOrdre, FinMapsOrdre, SortirOrdre, QuitterOrdre, NextPlanifInv
  DEF TachePrincipale
<1>3. CASE Vivant /\ (Rappels \/ FinProfils \/ EchecProfils \/ Course)
  BY <1>3, LancerProfilOrdre, DemarrerProfilOrdre, ArreterProfilOrdre,
     CallbackIndefiniOrdre, FinirProfilOrdre, EchouerProfilOrdre, CourseOrdre, NextPlanifInv
  DEF Rappels, FinProfils, EchecProfils
<1>4. CASE UNCHANGED vars
  <2>1. UNCHANGED <<tache, horloge, maps, timers, profils>> /\ ub' = ub
    BY <1>4 DEF vars
  <2>2. IndefiniSeulementCourse'
    BY <2>1 DEF Ordre, IndefiniSeulementCourse, Du, tache, maps
  <2> QED
    BY <2>1, <2>2, ToutInchange, NextPlanifInv
<1> QED
  BY <1>1, <1>2, <1>3, <1>4 DEF Next, Repos

-----------------------------------------------------------------------------
(***************************************************************************)
(* The theorems.                                                           *)
(***************************************************************************)

\* With these margins, day after day, the map knows the only launcher that is
\* pending for a planning (MainTache.cpp:161-171, 229).
THEOREM PlanifUnLanceur ==
  ASSUME Marges
  PROVE  Spec => []UnLanceurParPlanif
<1>1. HoraireInv => UnLanceurParPlanif
  <2> SUFFICES ASSUME HoraireInv, EnService, NEW n \in Nums
               PROVE  Attendus(n) \ {neuf} \subseteq {mLanceurProfil[n]}
    BY DEF UnLanceurParPlanif
  <2>1. Service
    BY ServiceFait DEF HoraireInv, PlanifInv, EnService, Vivant
  <2> QED
    BY <2>1 DEF HoraireInv, Ordre, ServiceInv, CarteInv
<1>2. Init => HoraireInv
  BY InitOrdre
<1>3. HoraireInv /\ [Next]_vars => HoraireInv'
  BY NextHoraire
<1> QED
  BY <1>1, <1>2, <1>3, PTL DEF Spec

\* A running profile has the stop timer that will end it, in the map
\* (MainTache.cpp:245-253).
THEOREM PlanifStopPrevu ==
  ASSUME Marges
  PROVE  Spec => []StopPrevu
<1>1. HoraireInv => StopPrevu
  <2> SUFFICES ASSUME HoraireInv, EnService,
                      NEW q \in Profils, profils[q].etat = "actif"
               PROVE  \E t \in Timers : /\ timers[t].type = "stop" /\ timers[t].prof = q
                                         /\ timers[t].etat \in {"arme", "expire"}
                                         /\ mStopProfil[profils[q].num] = t
    BY DEF StopPrevu
  <2>1. ServiceInv
    BY ServiceFait DEF HoraireInv, PlanifInv, EnService, Vivant, Ordre
  <2>2. PICK u \in Timers : EnAttente(u) /\ timers[u].prof = q /\ mStopProfil[profils[q].num] = u
    BY <2>1 DEF ServiceInv, ProfilInv, ActifOK
  <2>3. timers[u].etat \in {"arme", "expire"}
    BY <2>1, <2>2 DEF ServiceInv, MinuteInv, MinuteOK
  <2> QED
    BY <2>2, <2>3 DEF EnAttente
<1>2. Init => HoraireInv
  BY InitOrdre
<1>3. HoraireInv /\ [Next]_vars => HoraireInv'
  BY NextHoraire
<1> QED
  BY <1>1, <1>2, <1>3, PTL DEF Spec

\* Whatever makes the program's behaviour undefined, the code leaves it open: a
\* race in a map, a launcher that calls back before it is in the map, one that
\* deletes itself while it is stopped, the stop of a profile whose select has
\* failed, or a callback during the clean-up (MainTache.cpp:114-141, 186-187,
\* 206-207, Timer.cpp:96-103, Profil.cpp:70-72).
THEOREM PlanifIndefini ==
  ASSUME Marges
  PROVE  Spec => []IndefiniSeulementCourse
<1>1. HoraireInv => IndefiniSeulementCourse
  BY DEF HoraireInv, Ordre
<1>2. Init => HoraireInv
  BY InitOrdre
<1>3. HoraireInv /\ [Next]_vars => HoraireInv'
  BY NextHoraire
<1> QED
  BY <1>1, <1>2, <1>3, PTL DEF Spec

\* A set of profiles with one element at most.
LEMMA UnAuPlus ==
  ASSUME NEW S, \A q, r \in S : q = r
  PROVE  Cardinality(S) <= 1
<1>1. CASE S = {}
  <2>1. Cardinality(S) = 0
    BY <1>1, FS_EmptySet
  <2> QED
    BY <2>1, SMT
<1>2. CASE S # {}
  <2>1. PICK q \in S : S = {q}
    BY <1>2
  <2>2. Cardinality(S) = 1
    BY <2>1, FS_Singleton
  <2> QED
    BY <2>2, SMT
<1> QED
  BY <1>1, <1>2

\* No two CProfil objects drive the same pin (MainTache.cpp:198, 236).
THEOREM PlanifUnSeulParProfil ==
  ASSUME Marges
  PROVE  Spec => []UnSeulParProfil
<1>1. HoraireInv => UnSeulParProfil
  <2> SUFFICES ASSUME HoraireInv, NEW k \in Numeros
               PROVE  Cardinality(Actifs(k)) <= 1
    BY DEF UnSeulParProfil
  <2>1. \A q, r \in Actifs(k) : q = r
    BY DEF HoraireInv, Ordre, Unique, Actifs
  <2> QED
    BY <2>1, UnAuPlus
<1>2. Init => HoraireInv
  BY InitOrdre
<1>3. HoraireInv /\ [Next]_vars => HoraireInv'
  BY NextHoraire
<1> QED
  BY <1>1, <1>2, <1>3, PTL DEF Spec

\* As long as no select fails, no profile ends without having been told to.
SansEchec == \A q \in Profils : profils[q].etat # "echoue"

LEMMA SansEchecSuit ==
  ASSUME ~ErreurSelect, PlanifInv, SansEchec, [Next]_vars
  PROVE  SansEchec'
<1>1. \A q \in Profils : profils'[q].etat = "echoue" => profils[q].etat = "echoue"
  <2>1. CASE Rappels
    BY <2>1 DEF Rappels, LancerProfil, DemarrerProfil, ArreterProfil, CallbackIndefini,
       PlanifInv, TypeOK
  <2>2. CASE FinProfils
    BY <2>2 DEF FinProfils, FinirProfil, PlanifInv, TypeOK
  <2>3. CASE FinArret \/ Sortir
    <3>1. CASE FinArret
      BY <3>1 DEF FinArret, PlanifInv, TypeOK
    <3>2. CASE Sortir
      BY <3>2 DEF Sortir
    <3> QED
      BY <2>3, <3>1, <3>2
  <2>4. CASE ~(Rappels \/ FinProfils \/ FinArret \/ Sortir)
    <3>1. profils' = profils
      BY <2>4 DEF Next, Repos, vars, Tick, Saut, ChangerHeure, TachePrincipale, Quitter,
         ChangementDeJour, LireOffset, PlanifierAvenir, PlanifierMaintenant, PlanifierPasse,
         Inserer, FinLanceurs, FinStop, FinMaps, EchecProfils, EchouerProfil, Course
    <3> QED
      BY <3>1
  <2> QED
    BY <2>1, <2>2, <2>3, <2>4
<1> QED
  BY <1>1 DEF SansEchec

\* "le profil doit etre lance": during a planning of the day its profile is
\* lit, once nothing is due, as long as no select fails (MainTache.cpp:198).
THEOREM PlanifDoitEtreLance ==
  ASSUME Marges, ~ErreurSelect
  PROVE  Spec => []DoitEtreLance
<1>1. HoraireInv /\ SansEchec => DoitEtreLance
  <2> SUFFICES ASSUME HoraireInv, SansEchec, Vivant, pc = "select", ~EnCours,
                      NEW n \in Nums, DansFenetre(n, heure), heure >= Debut(n) + Lag
               PROVE  Actifs(Planifs[n].profil) # {}
    BY DEF DoitEtreLance, heure, Debut
  <2>1. ServiceInv /\ Bornes(n)
    BY BornesFait DEF HoraireInv, Ordre, PlanifInv, Service
  <2>2. heure \in Debut(n) .. (Debut(n) + Duree(n) - 1)
    BY DEF DansFenetre, Debut, Duree
  <2>3. heure >= tz /\ heure < Debut(n) + Duree(n)
    BY <2>1, <2>2, SMT DEF Bornes
  <2>4. ALieu(n)
    BY <2>3 DEF ALieu, EnCours
  <2>5. Attendus(n) = {}
    <3> SUFFICES ASSUME NEW t \in Attendus(n) PROVE FALSE
      OBVIOUS
    <3>1. t \in Timers /\ timers[t].etat = "arme" /\ timers[t].rem \in Nat
      BY DEF Attendus, EnCours, HoraireInv, PlanifInv, TypeOK, Timer
    <3>2. timers[t].rem >= 1 /\ heure + timers[t].rem <= Debut(n) + Lag
      BY <2>1, <3>1 DEF ServiceInv, LanceurInv, LanceurOK
    <3> QED
      BY <2>1, <3>1, <3>2, SMT DEF Bornes
  <2>6. PICK q \in Profils : /\ profils[q].etat \in {"cree", "actif", "echoue"}
                             /\ profils[q].num = Planifs[n].profil
    BY <2>1, <2>3, <2>4, <2>5 DEF ServiceInv, PrevuInv, Allume
  <2>7. profils[q].etat = "actif"
    BY <2>6 DEF EnCours, SansEchec
  <2> QED
    BY <2>6, <2>7 DEF Actifs
<1>2. Init => HoraireInv /\ SansEchec
  <2>1. Init => HoraireInv
    BY InitOrdre
  <2>2. Init => SansEchec
    BY DEF Init, SansEchec
  <2> QED
    BY <2>1, <2>2
<1>3. HoraireInv /\ SansEchec /\ [Next]_vars => HoraireInv' /\ SansEchec'
  BY NextHoraire, SansEchecSuit DEF HoraireInv
<1> QED
  BY <1>1, <1>2, <1>3, PTL DEF Spec

\* The ticks since a planning began, and its window today or since yesterday.
LEMMA EcouleFenetre ==
  ASSUME Marges, TypeOK, NEW n \in Nums, NEW r \in Nat, r <= Lag
  PROVE  (\E u \in {heure, heure + Jour} : u \in Debut(n) .. (Debut(n) + Duree(n) - 1 + r))
           <=> Ecoule(n) < Duree(n) + r
<1>1. Bornes(n)
  BY BornesFait
<1>2. CASE heure >= Debut(n)
  <2>1. Ecoule(n) = heure - Debut(n)
    BY <1>2 DEF Ecoule
  <2>2. heure + Jour \notin Debut(n) .. (Debut(n) + Duree(n) - 1 + r)
    BY <1>1, <1>2, SMT DEF Bornes
  <2>3. heure \in Debut(n) .. (Debut(n) + Duree(n) - 1 + r) <=> heure - Debut(n) < Duree(n) + r
    BY <1>1, <1>2, SMT DEF Bornes
  <2> QED
    BY <2>1, <2>2, <2>3
<1>3. CASE ~(heure >= Debut(n))
  <2>1. Ecoule(n) = heure - Debut(n) + Jour
    BY <1>3 DEF Ecoule
  <2>2. heure \notin Debut(n) .. (Debut(n) + Duree(n) - 1 + r)
    BY <1>1, <1>3, SMT DEF Bornes
  <2>3. heure + Jour \in Debut(n) .. (Debut(n) + Duree(n) - 1 + r)
          <=> heure - Debut(n) + Jour < Duree(n) + r
    BY <1>1, <1>3, SMT DEF Bornes
  <2> QED
    BY <2>1, <2>2, <2>3
<1> QED
  BY <1>2, <1>3

\* The other way round: once nothing is due, a profile is lit during its
\* planning only (MainTache.cpp:251).
THEOREM PlanifArreteALaFin ==
  ASSUME Marges
  PROVE  Spec => []ArreteALaFin
<1>1. HoraireInv => ArreteALaFin
  <2> SUFFICES ASSUME HoraireInv, Vivant, ~EnCours,
                      NEW n \in Nums, NEW q \in Actifs(Planifs[n].profil)
               PROVE  \E t \in {0, Jour} : DansFenetre(n, tGetOffsetFromMidnight + t)
    BY DEF ArreteALaFin
  <2>1. ServiceInv /\ TypeOK /\ Bornes(n)
    <3>1. pc = "select"
      BY DEF Vivant, EnCours
    <3> QED
      BY <3>1, BornesFait DEF HoraireInv, Ordre, PlanifInv, Service
  <2>2. Ecoule(n) < Duree(n)
    BY <2>1, TourneFait DEF HoraireInv, Actifs
  <2>3. 0 \in Nat /\ 0 <= Lag /\ Duree(n) + 0 = Duree(n) /\ heure + 0 = heure
        /\ Debut(n) + Duree(n) - 1 + 0 = Debut(n) + Duree(n) - 1
    BY <2>1, SMT DEF Bornes
  <2>4. PICK u \in {heure, heure + Jour} : u \in Debut(n) .. (Debut(n) + Duree(n) - 1)
    BY <2>1, <2>2, <2>3, EcouleFenetre
  <2>5. DansFenetre(n, u)
    BY <2>4 DEF DansFenetre, Debut, Duree
  <2> QED
    BY <2>3, <2>5 DEF heure
<1>2. Init => HoraireInv
  BY InitOrdre
<1>3. HoraireInv /\ [Next]_vars => HoraireInv'
  BY NextHoraire
<1> QED
  BY <1>1, <1>2, <1>3, PTL DEF Spec

-----------------------------------------------------------------------------
(***************************************************************************)
(* Planification implements Journee, as long as select does not fail.      *)
(***************************************************************************)

Allumes == {k \in Numeros : Actifs(k) # {}}

\* The main task does not leave its loop.
EnMarche == pc \in {"select", "offset", "plan", "insert"}

LEMMA EnMarcheFait ==
  ASSUME ~ErreurSelect, EnMarche, [Next]_vars
  PROVE  EnMarche'
<1>1. CASE Vivant /\ (TachePrincipale \/ Quitter)
  BY <1>1
  DEF TachePrincipale, Quitter, EnMarche, ChangementDeJour, LireOffset, PlanifierAvenir,
      PlanifierMaintenant, PlanifierPasse, Inserer, FinLanceurs, FinArret, FinStop, FinMaps, Sortir, Suivant
<1>2. CASE ~(Vivant /\ (TachePrincipale \/ Quitter))
  <2>1. pc' = pc
    BY <1>2
    DEF Next, Repos, vars, tache, Tick, Saut, ChangerHeure, Rappels, FinProfils, LancerProfil,
        DemarrerProfil, ArreterProfil, CallbackIndefini, FinirProfil, EchecProfils,
        EchouerProfil, Course
  <2> QED
    BY <2>1 DEF EnMarche
<1> QED
  BY <1>1, <1>2

\* The profiles of Journee that may be lit, and the ticks since they began.
LEMMA PermisFait ==
  ASSUME Marges, TypeOK, NEW n \in Nums, NEW r \in Nat, r <= Lag
  PROVE  Planifs[n].profil \in J!Permis(heure, r) <=> Ecoule(n) < Duree(n) + r
<1>1. Planifs[n].profil \in J!Permis(heure, r) <=>
        \E m \in Nums : /\ Planifs[m].profil = Planifs[n].profil
                        /\ \E u \in {heure, heure + Jour} :
                             u \in Debut(m) .. (Debut(m) + Duree(m) - 1 + r)
  BY DEF J!Permis, Nums, Debut, Duree
<1>2. Planifs[n].profil \in J!Permis(heure, r) <=>
        \E u \in {heure, heure + Jour} : u \in Debut(n) .. (Debut(n) + Duree(n) - 1 + r)
  BY <1>1 DEF Marges
<1> QED
  BY <1>2, EcouleFenetre

\* A lit profile is that of a planning.
LEMMA AllumeFait ==
  ASSUME NEW k \in Allumes
  PROVE  \E n \in Nums, q \in Profils :
           /\ k = Planifs[n].profil /\ profils[q].etat = "actif" /\ profils[q].num = k
  BY DEF Allumes, Actifs, Numeros

\* A step that lights nothing and puts nothing out.
LEMMA AllumesInchanges ==
  ASSUME UNCHANGED horloge,
         \A q \in Profils : /\ profils'[q].etat = "actif" <=> profils[q].etat = "actif"
                            /\ profils[q].etat = "actif" => profils'[q].num = profils[q].num
  PROVE  heure' = heure /\ Allumes' = Allumes
<1>1. \A k \in Numeros : Actifs(k)' = Actifs(k)
  BY DEF Actifs
<1> QED
  BY <1>1, HorlogeInchangee DEF Allumes

LEMMA TickJournee ==
  ASSUME Marges, PlanifInv, Ordre, Service, Tick
  PROVE  J!Avancer
<1>1. /\ heure' = IF heure + 1 = Jour THEN 0 ELSE heure + 1
      /\ (EnCours => retard < Lag) /\ ServiceInv /\ TypeOK /\ profils' = profils
  BY TickFait, TickObjets DEF PlanifInv, Ordre
<1>2. Allumes' = Allumes
  BY <1>1 DEF Allumes, Actifs
<1>3. ASSUME NEW k \in Allumes
      PROVE  k \in J!Permis(heure, Lag)
  <2>1. PICK n \in Nums, q \in Profils :
          k = Planifs[n].profil /\ profils[q].etat = "actif" /\ profils[q].num = k
    BY <1>3, AllumeFait
  <2>2. Ecoule(n) < Duree(n) \/ (EnCours /\ Ecoule(n) <= Duree(n) + retard)
    BY <1>1, <2>1, TourneFait
  <2>3. Bornes(n)
    BY <1>1, BornesFait
  <2>4. Lag \in Nat /\ Lag <= Lag
    BY <2>3, SMT DEF Bornes
  <2>5. PICK e \in Int : e = Ecoule(n)
    BY <2>3, SMT DEF Bornes, Ecoule
  <2>6. e < Duree(n) + Lag
    <3>1. e < Duree(n) \/ (retard < Lag /\ e <= Duree(n) + retard)
      BY <1>1, <2>2, <2>5
    <3> QED
      BY <2>3, <2>4, <3>1, SMT DEF Bornes
  <2> QED
    BY <1>1, <2>1, <2>4, <2>5, <2>6, PermisFait
<1>4. heure' = (heure + 1) % Jour
  <2>1. heure \in Int /\ 0 <= heure /\ heure < Jour /\ Jour \in Int
    BY <1>1, HeureFait
  <2>2. \A h, j \in Int : 0 <= h /\ h < j =>
          (h + 1) % j = IF h + 1 = j THEN 0 ELSE h + 1
    BY SMT
  <2> QED
    BY <1>1, <2>1, <2>2
<1> QED
  BY <1>2, <1>3, <1>4 DEF J!Avancer, Allumes, heure

LEMMA DemarrerJournee ==
  ASSUME Marges, PlanifInv, Ordre, Service, NEW t \in Timers, DemarrerProfil(t)
  PROVE  J!Next
<1>1. PICK q, n : q = timers[t].prof /\ n = timers[t].num
  OBVIOUS
<1>2. /\ timers[t].etat = "rappel" /\ profils' = [profils EXCEPT ![q].etat = "actif"]
      /\ UNCHANGED horloge /\ TypeOK /\ ServiceInv
  BY <1>1 DEF DemarrerProfil, PlanifInv, Ordre
<1>3. /\ n \in Nums /\ q \in Profils
      /\ profils[q].etat = "cree" /\ profils[q].num = Planifs[n].profil
      /\ Ecoule(n) + Lag - retard < Duree(n)
  BY <1>1, <1>2 DEF ServiceInv, RappelInv, RappelOK, PlanifInv, NumInv
<1> DEFINE k == Planifs[n].profil
<1>4. /\ profils'[q].etat = "actif" /\ profils'[q].num = k
      /\ \A r \in Profils : r # q => profils'[r] = profils[r]
  BY <1>2, <1>3 DEF TypeOK
<1>5. k \in Numeros /\ Actifs(k) = {}
  BY <1>3 DEF Numeros, Actifs, Ordre, Unique
<1>6. q \in Actifs(k)'
  BY <1>3, <1>4 DEF Actifs
<1>7. \A j \in Numeros : j # k => Actifs(j)' = Actifs(j)
  BY <1>3, <1>4 DEF Actifs
<1>8. Allumes' = Allumes \cup {k} /\ k \notin Allumes
  BY <1>5, <1>6, <1>7 DEF Allumes
<1>9. k \in J!Permis(heure, 0)
  <2>1. Bornes(n)
    BY <1>2, <1>3, BornesFait
  <2>2. PICK e \in Int : e = Ecoule(n)
    BY <2>1, SMT DEF Bornes, Ecoule
  <2>3. e < Duree(n) + 0 /\ 0 \in Nat /\ 0 <= Lag
    BY <1>3, <2>1, <2>2, SMT DEF Bornes
  <2> QED
    BY <1>2, <1>3, <2>2, <2>3, PermisFait
<1>10. heure' = heure
  BY <1>2, HorlogeInchangee
<1> QED
  BY <1>8, <1>9, <1>10 DEF J!Next, J!Allumer, Allumes, heure

LEMMA ArreterJournee ==
  ASSUME Marges, PlanifInv, Ordre, Service, NEW t \in Timers, ArreterProfil(t)
  PROVE  J!Next
<1>1. PICK q : q = timers[t].prof
  OBVIOUS
<1>2. /\ Du(t, "stop") /\ UNCHANGED horloge /\ TypeOK
      /\ profils' = [profils EXCEPT ![q].etat = IF @ = "actif" THEN "arret" ELSE @]
  BY <1>1 DEF ArreterProfil, PlanifInv
<1>3. PICK n \in Nums : /\ q \in Profils /\ profils[q].etat = "actif"
                        /\ profils[q].num = Planifs[n].profil /\ Duree(n) <= Ecoule(n)
  BY <1>1, <1>2, AvantArreter DEF ArreterProfil
<1> DEFINE k == Planifs[n].profil
<1>4. /\ profils'[q].etat = "arret" /\ profils'[q].num = k
      /\ \A r \in Profils : r # q => profils'[r] = profils[r]
  BY <1>2, <1>3 DEF TypeOK
<1>5. k \in Numeros /\ q \in Actifs(k)
  BY <1>3 DEF Numeros, Actifs
<1>6. Actifs(k)' = {}
  BY <1>3, <1>4 DEF Actifs, Ordre, Unique
<1>7. \A j \in Numeros : j # k => Actifs(j)' = Actifs(j)
  BY <1>3, <1>4 DEF Actifs
<1>8. Allumes' = Allumes \ {k} /\ k \in Allumes
  BY <1>5, <1>6, <1>7 DEF Allumes
<1>9. k \notin J!Permis(heure, 0)
  <2>1. Bornes(n)
    BY <1>2, BornesFait
  <2>2. PICK e \in Int : e = Ecoule(n)
    BY <2>1, SMT DEF Bornes, Ecoule
  <2>3. ~(e < Duree(n) + 0) /\ 0 \in Nat /\ 0 <= Lag
    BY <1>3, <2>1, <2>2, SMT DEF Bornes
  <2> QED
    BY <1>2, <2>2, <2>3, PermisFait
<1>10. heure' = heure
  BY <1>2, HorlogeInchangee
<1> QED
  BY <1>8, <1>9, <1>10 DEF J!Next, J!Eteindre, Allumes, heure

\* Every other step is a stutter.
LEMMA AutresJournee ==
  ASSUME Marges, ~ErreurSelect, HoraireInv, EnMarche, Service,
         \/ TachePrincipale \/ Course \/ UNCHANGED vars
         \/ \E t \in Timers : LancerProfil(t) \/ CallbackIndefini(t)
         \/ FinProfils
  PROVE  heure' = heure /\ Allumes' = Allumes
<1>1. UNCHANGED horloge
  BY DEF EnMarche, TachePrincipale, ChangementDeJour, LireOffset, PlanifierAvenir,
     PlanifierMaintenant, PlanifierPasse, Inserer, FinLanceurs, FinArret, FinStop, FinMaps, Sortir,
     Course, LancerProfil, CallbackIndefini, FinProfils, FinirProfil, vars
<1>2. CASE TachePrincipale \/ Course \/ UNCHANGED vars \/ \E t \in Timers : CallbackIndefini(t)
  <2>1. profils' = profils
    BY <1>2 DEF EnMarche, TachePrincipale, ChangementDeJour, LireOffset, PlanifierAvenir,
       PlanifierMaintenant, PlanifierPasse, Inserer, FinLanceurs, FinArret, FinStop, FinMaps, Sortir,
       Course, CallbackIndefini, vars
  <2> QED
    BY <1>1, <2>1, AllumesInchanges
<1>3. ASSUME NEW t \in Timers, LancerProfil(t)
      PROVE  heure' = heure /\ Allumes' = Allumes
  <2>1. PICK q \in Profils : /\ profils[q].etat = "libre" /\ profils'[q].etat = "cree"
                             /\ \A r \in Profils : r # q => profils'[r] = profils[r]
    BY <1>3, LancerFait DEF HoraireInv
  <2>2. \A r \in Profils : /\ profils'[r].etat = "actif" <=> profils[r].etat = "actif"
                           /\ profils[r].etat = "actif" => profils'[r].num = profils[r].num
    BY <2>1
  <2> QED
    BY <1>1, <2>2, AllumesInchanges
<1>4. ASSUME NEW q \in Profils, FinirProfil(q)
      PROVE  heure' = heure /\ Allumes' = Allumes
  <2>1. /\ profils[q].etat = "arret" /\ profils'[q].etat = "libre"
        /\ \A r \in Profils : r # q => profils'[r] = profils[r]
    BY <1>4 DEF FinirProfil, HoraireInv, PlanifInv, TypeOK
  <2>2. \A r \in Profils : /\ profils'[r].etat = "actif" <=> profils[r].etat = "actif"
                           /\ profils[r].etat = "actif" => profils'[r].num = profils[r].num
    BY <2>1
  <2> QED
    BY <1>1, <2>2, AllumesInchanges
<1> QED
  BY <1>2, <1>3, <1>4 DEF FinProfils

LEMMA NextJournee ==
  ASSUME Marges, ~ErreurSelect, HoraireInv, EnMarche, [Next]_vars
  PROVE  [J!Next]_(J!vars)
<1>1. Service /\ PlanifInv /\ Ordre
  BY DEF EnMarche, Service, HoraireInv
<1>2. heure' = heure /\ Allumes' = Allumes => UNCHANGED J!vars
  BY DEF J!vars, heure, Allumes
<1>3. ~Saut /\ ~ChangerHeure
  <2>1. MaxSauts = 0 /\ sauts \in 0..MaxSauts
    BY <1>1 DEF Marges, PlanifInv, TypeOK
  <2>2. ~(sauts < MaxSauts)
    BY <2>1, SMT
  <2> QED
    BY <2>2 DEF Saut, ChangerHeure
<1>4. CASE Tick
  BY <1>1, <1>4, TickJournee DEF J!Next
<1>5. CASE Rappels
  <2>1. PICK t \in Timers :
          LancerProfil(t) \/ DemarrerProfil(t) \/ ArreterProfil(t) \/ CallbackIndefini(t)
    BY <1>5 DEF Rappels
  <2>2. CASE DemarrerProfil(t)
    BY <1>1, <2>2, DemarrerJournee
  <2>3. CASE ArreterProfil(t)
    BY <1>1, <2>3, ArreterJournee
  <2>4. CASE LancerProfil(t) \/ CallbackIndefini(t)
    BY <1>1, <1>2, <2>4, AutresJournee
  <2> QED
    BY <2>1, <2>2, <2>3, <2>4
<1>6. CASE TachePrincipale \/ Course \/ FinProfils \/ UNCHANGED vars
  BY <1>1, <1>2, <1>6, AutresJournee
<1>7. ~Quitter /\ ~EchecProfils
  BY DEF Quitter, EchecProfils, EchouerProfil
<1> QED
  BY <1>3, <1>4, <1>5, <1>6, <1>7 DEF Next, Repos

LEMMA InitJournee ==
  ASSUME Marges, Init
  PROVE  J!Init /\ EnMarche
<1>1. /\ pc = "select" /\ profils = [q \in Profils |-> [etat |-> "libre", num |-> 0]]
  BY DEF Init
<1>2. Allumes = {}
  BY <1>1 DEF Allumes, Actifs
<1>3. heure \in 0..(Jour - 1)
  <2>1. heure \in Int /\ 0 <= heure /\ heure < Jour /\ Jour \in Int
    BY InitPlanifInv, HeureFait DEF PlanifInv
  <2> QED
    BY <2>1, SMT
<1> QED
  BY <1>1, <1>2, <1>3 DEF J!Init, EnMarche, Allumes, heure

\* Every profile is lit once in each of its plannings, not outside but for Lag
\* ticks after the end, and never put out and lit again meanwhile
\* (MainTache.cpp:96-103, 158-207, 251).
THEOREM PlanifUneFois ==
  ASSUME Marges, ~ErreurSelect
  PROVE  Spec => UneFoisParPlanif
<1>1. Init => J!Init /\ HoraireInv /\ EnMarche
  BY InitJournee, InitOrdre
<1>2. HoraireInv /\ EnMarche /\ [Next]_vars => HoraireInv' /\ EnMarche'
  BY NextHoraire, EnMarcheFait
<1>3. HoraireInv /\ EnMarche /\ [Next]_vars => [J!Next]_(J!vars)
  BY NextJournee
<1> QED
  BY <1>1, <1>2, <1>3, PTL DEF Spec, UneFoisParPlanif, J!Spec
=============================================================================
