--------------------------- MODULE PartageProofs ---------------------------
(***************************************************************************)
(* The threads that share libc's struct tm and the parameters do so        *)
(* without harm, though nothing orders them, for every table of plannings  *)
(* whose hours are as Horaires says: each planning starts after the hour   *)
(* at which the UTC day changes, and what reads the local time is over     *)
(* before local midnight.  The main thread then works alone from the       *)
(* change of the day, or from the start of the program, until it has       *)
(* planned the day; and a thread reads the local time only in the hours    *)
(* when the local and the UTC date are the same.                           *)
(***************************************************************************)
EXTENDS Partage, FiniteSetTheorems, TLAPS

-----------------------------------------------------------------------------
(***************************************************************************)
(* Time.                                                                   *)
(***************************************************************************)

LEMMA DivMod ==
  ASSUME NEW w \in Nat, NEW j \in Nat \ {0}
  PROVE  /\ w \div j \in Nat /\ w % j \in 0..(j - 1)
         /\ w % j = w - j * (w \div j)
<1>1. w \in Int /\ j \in Int /\ j > 0
  BY SMT
<1>2. w % j = w - j * (w \div j)
  BY <1>1, SMT
<1>3. w \div j \in Nat /\ w % j \in 0..(j - 1)
  BY SMT
<1> QED
  BY <1>2, <1>3

\* A quotient and a remainder are the only ones.
LEMMA DivModUnique ==
  ASSUME NEW q \in Nat, NEW r \in Nat, NEW j \in Nat \ {0}, r < j
  PROVE  (q * j + r) \div j = q /\ (q * j + r) % j = r
  BY SMT

LEMMA DivCroit ==
  ASSUME NEW v \in Nat, NEW w \in Nat, v <= w, NEW j \in Nat \ {0}
  PROVE  v \div j <= w \div j
<1> DEFINE p == v \div j
           q == w \div j
<1>1. p \in Nat /\ p * j <= v /\ q \in Nat /\ w < q * j + j
  BY SMT
<1> HIDE DEF p, q
<1>2. ~(p > q)
  <2>1. SUFFICES ASSUME p > q PROVE FALSE
    OBVIOUS
  <2>2. p * j >= (q + 1) * j
    BY <1>1, <2>1, SMT
  <2> QED
    BY <1>1, <2>2, SMT
<1>3. p <= q
  BY <1>1, <1>2, SMT
<1> QED
  BY <1>3 DEF p, q

\* Tomorrow's local date begins while the UTC day is not over: it is the same
\* date from the hour z on, and so at the first hour of a UTC day.
LEMMA LocalFait ==
  ASSUME NEW w \in Nat, NEW j \in Nat \ {0}, NEW z \in 0..(j - 1)
  PROVE  /\ (w + z) % j >= z => /\ (w + z) \div j = w \div j
                                /\ (w + z) % j = (w % j) + z
         /\ w % j = 0 => (w + z) % j = z
<1> DEFINE q == w \div j
           r == w % j
<1>1. q \in Nat /\ r \in 0..(j - 1) /\ r = w - j * q
  BY DivMod
<1>2. w = q * j + r
  <2> HIDE DEF q, r
  <2> QED
    BY <1>1, SMT
<1>3. CASE r + z < j
  <2>1. w + z = q * j + (r + z) /\ r + z \in Nat
    <3> HIDE DEF q, r
    <3> QED
      BY <1>1, <1>2, SMT
  <2>2. (w + z) \div j = q /\ (w + z) % j = r + z
    <3> HIDE DEF q, r
    <3> QED
      BY <1>1, <1>3, <2>1, DivModUnique
  <2>3. r = 0 => r + z = z
    <3> HIDE DEF r
    <3> QED
      BY <1>1, SMT
  <2> QED
    BY <2>2, <2>3
<1>4. CASE r + z >= j
  <2>1. w + z = (q + 1) * j + (r + z - j) /\ r + z - j \in Nat /\ q + 1 \in Nat
        /\ r + z - j < j /\ ~(r + z - j >= z) /\ r # 0
    <3> HIDE DEF q, r
    <3> QED
      BY <1>1, <1>2, <1>4, SMT
  <2> DEFINE q1 == q + 1
             r1 == r + z - j
  <2>2. (w + z) % j = r1
    <3>1. w + z = q1 * j + r1 /\ q1 \in Nat /\ r1 \in Nat /\ r1 < j
      BY <2>1
    <3> HIDE DEF q1, r1
    <3>2. (q1 * j + r1) % j = r1
      BY <3>1, DivModUnique
    <3> QED
      BY <3>1, <3>2
  <2> QED
    BY <2>1, <2>2
<1>5. r + z < j \/ r + z >= j
  <2> HIDE DEF r
  <2> QED
    BY <1>1, SMT
<1> QED
  BY <1>3, <1>4, <1>5

\* An hour later the day is the same, or it is the first hour of a day.
LEMMA HeureSuivante ==
  ASSUME NEW w \in Nat, NEW j \in Nat \ {0}
  PROVE  (w + 1) \div j = w \div j \/ (w + 1) % j = 0
<1> DEFINE q == w \div j
           r == w % j
<1>1. q \in Nat /\ r \in 0..(j - 1) /\ r = w - j * q
  BY DivMod
<1> HIDE DEF q, r
<1>2. w = q * j + r
  BY <1>1, SMT
<1>3. CASE r + 1 < j
  <2>1. w + 1 = q * j + (r + 1) /\ r + 1 \in Nat
    BY <1>1, <1>2, SMT
  <2>2. (w + 1) \div j = q
    BY <1>1, <1>3, <2>1, DivModUnique
  <2> QED
    BY <2>2 DEF q
<1>4. CASE r + 1 = j
  <2>1. w + 1 = (q + 1) * j + 0 /\ q + 1 \in Nat /\ 0 < j
    BY <1>1, <1>2, <1>4, SMT
  <2>2. (w + 1) % j = 0
    BY <2>1, DivModUnique
  <2> QED
    BY <2>2
<1> QED
  BY <1>1, <1>3, <1>4, SMT

-----------------------------------------------------------------------------
(***************************************************************************)
(* The inductive invariant.                                                *)
(***************************************************************************)

\* Each planning starts after the hour at which the UTC day changes, and not in
\* the last hour of the day in summer.  A profile with a sun is over before
\* local midnight, by a margin for the errors of EcartBorne, and is longer than
\* what summer time adds.
Horaires ==
  \A n \in Nums, z \in Fuseaux, e \in Etes : e <= z =>
    /\ z < Planifs[n].debut /\ Planifs[n].debut + e < Jour
    /\ Planifs[n].profil \in Eclaires =>
         /\ e < Planifs[n].period
         /\ Planifs[n].debut + Planifs[n].period + z + 2 * e < Jour

Autres == Threads \ {Principal}

Etapes == {"repos", "gmtime", "gmtime2", "gmtime3", "yday", "change", "efface", "remplit",
           "localtime", "localtime2", "localtime3", "minuit", "mktime", "rend"}

\* The main thread from the moment it has seen a new day until it has planned
\* it; from Changer on, it knows the day.
Planifie == {"efface", "remplit", "localtime", "localtime2", "localtime3", "minuit",
             "mktime", "rend"}

\* Where a thread that reads the local time relies on the fields of stTm.
Apres1 == {"localtime2", "localtime3", "minuit", "mktime", "rend"}
Apres2 == {"localtime3", "minuit", "mktime", "rend"}
Apres3 == {"minuit", "mktime", "rend"}

\* Nobody but the main thread has anything to do.
Seul == dus = {} /\ ~Ensoleille /\ \A x \in Autres : pc[x] = "repos"

\* Until the main thread has planned the day it is alone.
JourInv ==
  /\ sLastDay # Utc.jour \/ pc[Principal] \in Planifie \cup {"change"} => Seul
  /\ pc[Principal] \in Planifie => sLastDay = Utc.jour
  /\ pc[Principal] \in {"yday", "change"} => stTm.jour = Utc.jour

Occupe(n) == n \in dus \/ pc[n] # "repos"

\* The hours at which the other threads run.
HeureInv ==
  /\ \A n \in Nums : Occupe(n) => DansFenetre(n, Local.heure)
  /\ pc[Soleil] # "repos" => Ensoleille
  /\ Ensoleille => Local.heure > tz /\ soleil + tz + ete < (Local.jour + 1) * Jour

\* A launcher of a planning that was found under way.
Tardif(n) == Occupe(n) /\ Planifs[n].debut # Local.heure

\* Since the readings that go on began, gmtime has written nothing.
Frais == pc[Principal] = "gmtime" \/ \E n \in Nums : Tardif(n)

RetardInv == (\E n \in Nums : Tardif(n)) => pc[Principal] = "repos"

\* The hours, with the shift of tm_isdst, that another thread may find in stTm.
Juste(t) ==
  t.heure \in {Utc.heure, Local.heure}
    \/ (t.ete = ete /\ t.heure \in {Utc.heure + ete, Local.heure + ete})

\* What another thread finds in stTm, and what it has copied of it.
TmDe(x) ==
  /\ pc[x] \in Apres2 => Juste(stTm)
  /\ pc[x] \in Apres3 => stTm.jour = Utc.jour
  /\ pc[x] \in {"mktime", "rend"} => lu[x].jour = Utc.jour
  /\ pc[x] = "mktime" => lu[x].heure = 0
  /\ pc[x] = "rend" => Juste(lu[x])

FraisDe(x) ==
  /\ pc[x] \in Apres1 => stTm.ete = ete
  /\ pc[x] \in Apres2 => stTm.heure = Local.heure
  /\ pc[x] \in {"mktime", "rend"} => lu[x].ete = ete
  /\ pc[x] = "rend" => lu[x].heure = Local.heure /\ ecart[x] = 0

TmInv == \A x \in Autres : TmDe(x) /\ (Frais => FraisDe(x))

\* What the main thread finds there when it plans.
PlanTmInv ==
  /\ pc[Principal] \in Apres1 => stTm.ete = ete
  /\ pc[Principal] \in Apres2 => stTm.heure = Local.heure
  /\ pc[Principal] \in Apres3 => stTm.jour = Local.jour
  /\ pc[Principal] = "mktime" => lu[Principal] = [Local EXCEPT !.heure = 0]

\* The parameters that are cleared.
ParamInv ==
  /\ pc[Principal] \in {"efface", "remplit"} => num \in Numeros
  /\ \A k \in Numeros : param[k] \/ (pc[Principal] = "remplit" /\ k = num)

PartageInv ==
  /\ TypeOK /\ ete <= tz /\ JourInv /\ HeureInv /\ RetardInv /\ TmInv /\ PlanTmInv
  /\ ParamInv /\ HeureDuPlan /\ EcartBorne /\ ParametresEntiers

-----------------------------------------------------------------------------
(***************************************************************************)
(* Types.                                                                  *)
(***************************************************************************)

LEMMA ThreadsFait ==
  /\ Principal \in Threads /\ Principal \notin Autres
  /\ Nums \subseteq Autres /\ Soleil \in Autres /\ Autres \subseteq Threads
  /\ Threads = Autres \cup {Principal} /\ Soleil \notin Nums
  /\ Autres = Nums \cup {Soleil}
<1>1. Cardinality(Nums) \in Nat
  BY PartageAssumption, FS_CardinalityType
<1>2. Soleil # Principal /\ Principal \notin Nums /\ Soleil \notin Nums
  BY <1>1, PartageAssumption, SMT DEF Soleil, Principal
<1> QED
  BY <1>2 DEF Threads, Autres

LEMMA NumerosFait ==
  /\ 1 \in Numeros /\ Numeros \subseteq 1..Cardinality(Numeros)
  /\ \A n \in Nums : Planifs[n].profil \in Numeros
  /\ \A k \in Numeros : k \in 0..Cardinality(Numeros)
<1>1. PICK n \in Nums : TRUE
  BY PartageAssumption
<1>2. Planifs[n].profil \in Numeros
  BY DEF Numeros
<1>3. Cardinality(Numeros) \in Nat
  BY PartageAssumption, FS_CardinalityType
<1>4. 1 \in Numeros
  BY <1>2, <1>3, PartageAssumption, SMT
<1>5. \A k \in Numeros : k \in 0..Cardinality(Numeros)
  BY <1>3, PartageAssumption, SMT
<1> QED
  BY <1>4, <1>5, PartageAssumption DEF Numeros

\* The numbers that are kept.
LEMMA NombresFait ==
  ASSUME TypeOK
  PROVE  /\ wall \in Nat /\ tz \in Nat /\ tz < Jour /\ ete \in Nat /\ Jour \in Nat \ {0}
         /\ wall + tz \in Nat /\ soleil \in Int /\ tz \in 0..(Jour - 1)
<1>1. tz \in 0..(Jour - 1) /\ ete \in Nat /\ soleil \in Int /\ wall \in 0..Duree
      /\ Jour \in Nat \ {0} /\ Duree \in Nat
  BY PartageAssumption DEF TypeOK
<1> QED
  BY <1>1, SMT

\* The time of day and the day.
LEMMA TempsFait ==
  ASSUME TypeOK
  PROVE  /\ Utc \in Tm /\ Local \in Tm
         /\ Utc.heure \in Nat /\ Local.heure \in Nat /\ Local.heure < Jour
         /\ Utc.jour \in Nat /\ Local.jour \in Nat
         /\ wall + tz = Local.jour * Jour + Local.heure
         /\ Local.ete = ete /\ Utc.ete = 0
         /\ Local.heure >= tz => /\ Local.jour = Utc.jour
                                 /\ Local.heure = Utc.heure + tz
         /\ Utc.heure = 0 => Local.heure = tz
<1> DEFINE v == wall + tz
<1>1. wall \in Nat /\ v \in Nat /\ Jour \in Nat \ {0} /\ tz \in 0..(Jour - 1)
  BY NombresFait
<1>2. /\ wall \div Jour \in Nat /\ wall % Jour \in 0..(Jour - 1)
      /\ v \div Jour \in Nat /\ v % Jour \in 0..(Jour - 1)
      /\ v % Jour = v - Jour * (v \div Jour)
  <2> HIDE DEF v
  <2> QED
    BY <1>1, DivMod
<1>3. \A r \in 0..(Jour - 1) : r \in Nat /\ r < Jour
  BY <1>1, SMT
<1>4. v = (v \div Jour) * Jour + (v % Jour)
  <2> HIDE DEF v
  <2>1. \A d, r \in Int : r = v - Jour * d => v = d * Jour + r
    BY <1>1, SMT
  <2>2. v \div Jour \in Int /\ v % Jour \in Int
    BY <1>2, <1>3
  <2> QED
    BY <1>2, <2>1, <2>2
<1>5. /\ (wall + tz) % Jour >= tz => /\ (wall + tz) \div Jour = wall \div Jour
                                     /\ (wall + tz) % Jour = (wall % Jour) + tz
      /\ wall % Jour = 0 => (wall + tz) % Jour = tz
  BY <1>1, LocalFait
<1> QED
  BY <1>2, <1>3, <1>4, <1>5, Zenon DEF Utc, Local, Tm

\* Writing one field of stTm.
LEMMA EcrireFait ==
  ASSUME stTm \in Tm, NEW t \in Tm
  PROVE  /\ [stTm EXCEPT !.heure = t.heure] \in Tm
         /\ [stTm EXCEPT !.jour = t.jour] \in Tm
         /\ [stTm EXCEPT !.ete = t.ete] \in Tm
         /\ [stTm EXCEPT !.heure = 0] \in Tm
<1>1. 0 \in 0..(Jour - 1)
  BY PartageAssumption, SMT
<1> QED
  BY <1>1 DEF Tm

LEMMA VideFait == Vide \in Tm /\ Vide.jour = 0
<1>1. 0 \in 0..(Jour - 1) /\ 0 \in Nat
  BY PartageAssumption, SMT
<1> QED
  BY <1>1 DEF Vide, Tm

\* mktime leaves a time as it is but for what tm_isdst adds.
LEMMA NormaliserFait ==
  ASSUME TypeOK, NEW t \in Tm
  PROVE  /\ Normaliser(t) \in Tm /\ Instant(t) \in Int
         /\ (t.heure + ete - t.ete < Jour) =>
               Normaliser(t) = [heure |-> t.heure + ete - t.ete, jour |-> t.jour, ete |-> ete]
<1> DEFINE h == t.heure + ete - t.ete
           n == Instant(t) + ete
<1>1. /\ ete \in Nat /\ t.ete \in {0, ete} /\ t.heure \in 0..(Jour - 1) /\ t.jour \in Nat
      /\ Jour \in Nat \ {0}
  BY NombresFait DEF Tm
<1>2. h \in Nat
  BY <1>1, SMT
<1>3. Instant(t) \in Int /\ n = t.jour * Jour + h /\ n \in Nat
  <2>1. t.jour * Jour \in Nat
    BY <1>1, SMT
  <2> DEFINE p == t.jour * Jour
  <2>2. Instant(t) = p + t.heure - t.ete
    BY DEF Instant
  <2> HIDE DEF p
  <2>3. p \in Nat
    BY <2>1 DEF p
  <2>4. Instant(t) \in Int /\ n = p + h /\ n \in Nat
    BY <1>1, <2>2, <2>3, SMT
  <2> QED
    BY <2>4 DEF p
<1>4. Normaliser(t) = [heure |-> n % Jour, jour |-> n \div Jour, ete |-> ete]
  BY DEF Normaliser
<1> HIDE DEF n, h
<1>5. n % Jour \in 0..(Jour - 1) /\ n \div Jour \in Nat
  BY <1>1, <1>3, DivMod
<1>6. Normaliser(t) \in Tm
  BY <1>4, <1>5 DEF Tm
<1>7. h < Jour => n % Jour = h /\ n \div Jour = t.jour
  BY <1>1, <1>2, <1>3, DivModUnique
<1> QED
  BY <1>3, <1>4, <1>6, <1>7 DEF h

\* A step that changes what only one thread uses.
LEMMA PasType ==
  ASSUME TypeOK, NEW x \in Threads, NEW p \in Etapes, pc' = [pc EXCEPT ![x] = p],
         UNCHANGED zone, wall' = wall,
         stTm' \in Tm, verrou' \in {verrou, x, -1},
         NEW c \in Tm, lu' = lu \/ lu' = [lu EXCEPT ![x] = c],
         NEW e \in Int, ecart' = ecart \/ ecart' = [ecart EXCEPT ![x] = e],
         sLastDay' \in Nat \cup {-1}, num' \in 0..Cardinality(Numeros),
         param' \in [Numeros -> BOOLEAN], copie' \subseteq Numeros, dus' \subseteq Nums,
         soleil' \in Int
  PROVE  TypeOK'
<1>1. tz' = tz /\ ete' = ete /\ Tm' = Tm
  BY DEF zone, Tm
<1>2. lu' \in [Threads -> Tm] /\ ecart' \in [Threads -> Int] /\ pc' \in [Threads -> Etapes]
  BY DEF TypeOK, Etapes
<1> QED
  BY <1>1, <1>2 DEF TypeOK, Etapes

\* The same, when only stTm, lu and ecart change with the place of the thread.
LEMMA PasTypeTm ==
  ASSUME TypeOK, NEW x \in Threads, NEW p \in Etapes, pc' = [pc EXCEPT ![x] = p],
         UNCHANGED <<wall, zone, sLastDay, num, param, copie>>,
         dus' \subseteq Nums, soleil' \in Int,
         stTm' \in Tm, verrou' \in {verrou, x, -1},
         NEW c \in Tm, lu' = lu \/ lu' = [lu EXCEPT ![x] = c],
         NEW e \in Int, ecart' = ecart \/ ecart' = [ecart EXCEPT ![x] = e]
  PROVE  TypeOK'
<1>1. /\ sLastDay' \in Nat \cup {-1} /\ num' \in 0..Cardinality(Numeros)
      /\ param' \in [Numeros -> BOOLEAN] /\ copie' \subseteq Numeros /\ wall' = wall
      /\ UNCHANGED zone
  BY DEF TypeOK
<1> QED
  BY <1>1, PasType

LEMMA RendreType ==
  ASSUME TypeOK, NEW x \in Threads, Rendre(x, "repos"),
         UNCHANGED <<wall, zone, sLastDay, num, param, copie>>,
         dus' \subseteq Nums, soleil' \in Int
  PROVE  TypeOK'
<1>1. lu[x] \in Tm
  BY DEF TypeOK
<1>2. /\ stTm' \in Tm /\ verrou' \in {verrou, x, -1} /\ lu' = [lu EXCEPT ![x] = Vide]
      /\ ecart' = [ecart EXCEPT ![x] = 0] /\ pc' = [pc EXCEPT ![x] = "repos"]
  BY <1>1, NormaliserFait DEF Rendre, Aller
<1>3. 0 \in Int /\ "repos" \in Etapes /\ Vide \in Tm
  BY VideFait, SMT DEF Etapes
<1> QED
  BY <1>2, <1>3, PasTypeTm

LEMMA LireType ==
  ASSUME TypeOK, NEW x \in Threads,
         (x = Principal /\ gmtime) \/ localtime(x) \/ Minuit(x) \/ Mktime(x)
  PROVE  TypeOK'
<1>1. stTm \in Tm /\ Utc \in Tm /\ Local \in Tm /\ lu[x] \in Tm /\ 0 \in Int
      /\ ecart \in [Threads -> Int]
  BY TempsFait, SMT DEF TypeOK
<1>2. /\ UNCHANGED <<wall, zone, sLastDay, num, param, copie, dus, soleil>>
      /\ dus \subseteq Nums /\ soleil \in Int
  BY DEF gmtime, localtime, Minuit, Mktime, reste, TypeOK
<1>3. CASE (x = Principal /\ gmtime) \/ localtime(x)
  <2>1. PICK t \in Tm : \/ stTm' = [stTm EXCEPT !.ete = t.ete]
                        \/ stTm' = [stTm EXCEPT !.heure = t.heure]
                        \/ stTm' = [stTm EXCEPT !.jour = t.jour]
    BY <1>1, <1>3 DEF gmtime, localtime, EcrireEte, EcrireHeure, EcrireJour
  <2>2. stTm' \in Tm
    BY <1>1, <2>1, EcrireFait
  <2>3. PICK p \in Etapes : /\ pc' = [pc EXCEPT ![x] = p] /\ lu' = lu /\ ecart' = ecart
                            /\ verrou' \in {verrou, x, -1}
    BY <1>3 DEF gmtime, localtime, EcrireEte, EcrireHeure, EcrireJour, Aller, Etapes
  <2> QED
    BY <1>1, <1>2, <2>2, <2>3, PasTypeTm
<1>4. CASE Minuit(x)
  <2> DEFINE c == [stTm EXCEPT !.heure = 0]
  <2>1. c \in Tm
    BY <1>1, EcrireFait
  <2>2. /\ pc' = [pc EXCEPT ![x] = "mktime"] /\ lu' = [lu EXCEPT ![x] = c]
        /\ stTm' = stTm /\ verrou' = verrou /\ ecart' = ecart /\ "mktime" \in Etapes
    BY <1>4 DEF Minuit, Aller, Etapes
  <2> QED
    BY <1>1, <1>2, <2>1, <2>2, PasTypeTm
<1>5. CASE Mktime(x)
  <2> DEFINE e == Instant(stTm) - Instant(lu[x]) - Local.heure
  <2>1. Instant(stTm) \in Int /\ Instant(lu[x]) \in Int /\ Local.heure \in Nat
    BY <1>1, NormaliserFait, TempsFait
  <2>2. e \in Int
    BY <2>1, SMT
  <2>3. /\ pc' = [pc EXCEPT ![x] = "rend"] /\ lu' = [lu EXCEPT ![x] = stTm]
        /\ stTm' = stTm /\ verrou' = verrou /\ ecart' = [ecart EXCEPT ![x] = e]
        /\ "rend" \in Etapes
    BY <1>5 DEF Mktime, Aller, Etapes
  <2> QED
    BY <1>1, <1>2, <2>2, <2>3, PasTypeTm
<1> QED
  BY <1>3, <1>4, <1>5

LEMMA FinProfilType ==
  ASSUME TypeOK, NEW n \in Nums
  PROVE  FinProfil(n) \in Int
<1>1. /\ Planifs[n].debut \in Nat /\ Planifs[n].period \in Nat /\ Local.heure \in Nat
      /\ ecart[n] \in Int /\ wall \in Nat /\ Duree \in Nat /\ Jour \in Nat
  <2>1. Planifs[n].debut \in 0..(Jour - 1) /\ Planifs[n].period \in 1..Jour /\ n \in Threads
    BY PartageAssumption, ThreadsFait
  <2>2. Jour \in Nat /\ Duree \in Nat /\ Local.heure \in Nat /\ wall \in Nat /\ ecart[n] \in Int
    BY <2>1, PartageAssumption, TempsFait, NombresFait DEF TypeOK
  <2>3. \A j \in Nat : 0..(j - 1) \subseteq Nat /\ 1..j \subseteq Nat
    BY SMT
  <2> QED
    BY <2>1, <2>2, <2>3
<1> QED
  BY <1>1, SMT DEF FinProfil, Toujours

LEMMA TypeSuit ==
  ASSUME TypeOK, [Next]_vars
  PROVE  TypeOK'
<1>0. Principal \in Threads /\ Nums \subseteq Threads /\ Soleil \in Threads
  BY ThreadsFait
<1>a. /\ stTm \in Tm /\ 0 \in Int /\ soleil \in Int /\ dus \subseteq Nums
      /\ sLastDay \in Nat \cup {-1} /\ num \in 0..Cardinality(Numeros)
      /\ param \in [Numeros -> BOOLEAN] /\ copie \subseteq Numeros
  BY SMT DEF TypeOK
<1>1. CASE gmtime \/ \E x \in Threads : localtime(x) \/ Minuit(x) \/ Mktime(x)
  BY <1>0, <1>1, LireType
<1>2. CASE Reveil \/ Comparer
  <2>1. PICK p \in Etapes : pc' = [pc EXCEPT ![Principal] = p]
    BY <1>2 DEF Reveil, Comparer, Aller, Etapes
  <2>2. UNCHANGED <<stTm, verrou, lu, ecart, wall, zone, sLastDay, num, param, copie, dus, soleil>>
    BY <1>2 DEF Reveil, Comparer, tm, reste
  <2> QED
    BY <1>0, <1>a, <2>1, <2>2, PasTypeTm
<1>3. CASE Changer \/ pstInit
  <2>1. PICK p \in Etapes : pc' = [pc EXCEPT ![Principal] = p]
    BY <1>3 DEF Changer, pstInit, Aller, Etapes
  <2>2. UNCHANGED <<stTm, verrou, lu, ecart, wall, zone, copie, dus, soleil>>
    BY <1>3 DEF Changer, pstInit, tm
  <2>3. sLastDay' \in Nat \cup {-1}
    BY <1>3 DEF Changer, pstInit, TypeOK, Tm
  <2>4. num' \in 0..Cardinality(Numeros)
    <3>1. 0 \in 0..Cardinality(Numeros)
      BY PartageAssumption, FS_CardinalityType, SMT
    <3> QED
      BY <1>3, <3>1, NumerosFait DEF Changer, pstInit, TypeOK
  <2>5. param' \in [Numeros -> BOOLEAN]
    BY <1>3 DEF Changer, pstInit, TypeOK
  <2> QED
    BY <1>0, <1>a, <2>1, <2>2, <2>3, <2>4, <2>5, PasType
<1>4. CASE Planifier
  BY <1>0, <1>4, <1>a, RendreType DEF Planifier
<1>5. CASE \E n \in Nums : LancerProfil(n)
  <2>1. PICK n \in Nums : LancerProfil(n)
    BY <1>5
  <2>2. /\ pc' = [pc EXCEPT ![n] = "localtime"] /\ "localtime" \in Etapes
        /\ UNCHANGED <<stTm, verrou, lu, ecart, wall, zone, sLastDay, num, param, soleil>>
        /\ dus' \subseteq Nums /\ copie' \subseteq Numeros
    BY <1>a, <2>1, NumerosFait DEF LancerProfil, Aller, Etapes, tm
  <2> QED
    BY <1>0, <1>a, <2>2, PasType
<1>6. CASE \E n \in Nums : FinLanceur(n)
  <2>1. PICK n \in Nums : FinLanceur(n)
    BY <1>6
  <2>2. soleil' \in Int
    BY <1>a, <2>1, FinProfilType DEF FinLanceur
  <2> QED
    BY <1>0, <1>a, <2>1, <2>2, RendreType DEF FinLanceur
<1>7. CASE iGererCourbe
  <2>1. UNCHANGED <<wall, zone, sLastDay, num, param, copie, dus, soleil>>
    BY <1>7 DEF iGererCourbe, reste
  <2>2. CASE Rendre(Soleil, "repos")
    BY <1>0, <1>a, <2>1, <2>2, RendreType
  <2>3. CASE pc[Soleil] = "repos" /\ Aller(Soleil, "localtime") /\ UNCHANGED <<tm, ecart>>
    <3>1. "localtime" \in Etapes /\ pc' = [pc EXCEPT ![Soleil] = "localtime"]
          /\ UNCHANGED <<stTm, verrou, lu, ecart>>
      BY <2>3 DEF Aller, Etapes, tm
    <3> QED
      BY <1>0, <1>a, <2>1, <3>1, PasTypeTm
  <2> QED
    BY <1>7, <2>2, <2>3 DEF iGererCourbe
<1>8. CASE Tick
  <2>1. wall' \in 0..Duree
    BY <1>8, NombresFait, PartageAssumption, SMT DEF Tick, TypeOK
  <2>2. dus' \subseteq Nums /\ tz' = tz /\ ete' = ete /\ Tm' = Tm
        /\ UNCHANGED <<stTm, verrou, lu, pc, sLastDay, num, param, copie, soleil, ecart>>
    BY <1>8 DEF Tick, tm, zone, Tm
  <2> QED
    BY <2>1, <2>2 DEF TypeOK
<1>9. CASE UNCHANGED vars
  BY <1>9 DEF vars, tm, reste, zone, TypeOK, Tm
<1> QED
  BY <1>1, <1>2, <1>3, <1>4, <1>5, <1>6, <1>7, <1>8, <1>9 DEF Next

-----------------------------------------------------------------------------
(***************************************************************************)
(* What the invariant says of the hours.                                   *)
(***************************************************************************)

LEMMA HorairesFait ==
  ASSUME Horaires, TypeOK, ete <= tz, NEW n \in Nums
  PROVE  /\ Planifs[n].debut \in Nat /\ Planifs[n].period \in Nat \ {0}
         /\ tz < Planifs[n].debut /\ Planifs[n].debut + ete < Jour
         /\ Planifs[n].profil \in Eclaires =>
              /\ ete < Planifs[n].period
              /\ Planifs[n].debut + Planifs[n].period + tz + 2 * ete < Jour
<1>1. Planifs[n].debut \in 0..(Jour - 1) /\ Planifs[n].period \in 1..Jour /\ Jour \in Nat
  BY PartageAssumption
<1>2. \A j \in Nat : 0..(j - 1) \subseteq Nat /\ 1..j \subseteq Nat \ {0}
  BY SMT
<1>3. tz \in Fuseaux /\ ete \in Etes
  BY DEF TypeOK
<1> QED
  BY <1>1, <1>2, <1>3 DEF Horaires

\* Only the passing of time changes the hours.
LEMMA Fige ==
  ASSUME UNCHANGED <<wall, zone>>
  PROVE  /\ Utc' = Utc /\ Local' = Local /\ ete' = ete /\ tz' = tz
         /\ soleil' = soleil => Ensoleille' = Ensoleille
         /\ \A n : Occupe(n)' = Occupe(n) => Tardif(n)' = Tardif(n)
  BY DEF Utc, Local, Ensoleille, zone, Tardif

\* While another thread has something to do the main thread does not plan, and
\* the two dates are the same.
LEMMA PasSeul ==
  ASSUME Horaires, PartageInv, ~Seul
  PROVE  /\ Local.heure > tz /\ Local.jour = Utc.jour
         /\ Local.heure = Utc.heure + tz
         /\ sLastDay = Utc.jour /\ pc[Principal] \notin Planifie \cup {"change"}
<1>0. TypeOK /\ ete <= tz /\ HeureInv
  BY DEF PartageInv
<1>1. /\ Local.heure \in Nat /\ tz \in Nat
      /\ Local.heure >= tz => /\ Local.jour = Utc.jour
                              /\ Local.heure = Utc.heure + tz
  BY <1>0, TempsFait, NombresFait
<1>2. Local.heure > tz
  <2>1. CASE Ensoleille
    BY <1>0, <2>1 DEF HeureInv
  <2>2. CASE \E n \in Nums : Occupe(n)
    <3>1. PICK n \in Nums : Occupe(n)
      BY <2>2
    <3>2. /\ Planifs[n].debut \in Nat /\ Planifs[n].period \in Nat /\ tz < Planifs[n].debut
          /\ DansFenetre(n, Local.heure)
      BY <1>0, <3>1, HorairesFait DEF HeureInv
    <3> QED
      BY <1>1, <3>2, SMT DEF DansFenetre
  <2>3. Ensoleille \/ \E n \in Nums : Occupe(n)
    <3>1. CASE dus # {}
      BY <1>0, <3>1 DEF Occupe, TypeOK
    <3>2. CASE \E x \in Autres : pc[x] # "repos"
      BY <1>0, <3>2, ThreadsFait DEF Occupe, HeureInv
    <3> QED
      BY <3>1, <3>2 DEF Seul
  <2> QED
    BY <2>1, <2>2, <2>3
<1>3. Local.heure >= tz
  BY <1>1, <1>2, SMT
<1> QED
  BY <1>1, <1>2, <1>3 DEF PartageInv, JourInv

\* A thread that gmtime may have disturbed does not run in the last hour of a
\* day in summer.
LEMMA MargeFait ==
  ASSUME Horaires, PartageInv, NEW x \in Autres, pc[x] # "repos", ~Frais
  PROVE  Local.heure + ete < Jour
<1>0. TypeOK /\ ete <= tz /\ HeureInv
  BY DEF PartageInv
<1>1. CASE x \in Nums
  <2>1. Occupe(x) /\ Planifs[x].debut = Local.heure
    BY <1>1 DEF Occupe, Frais, Tardif
  <2> QED
    BY <1>0, <1>1, <2>1, HorairesFait
<1>2. CASE x = Soleil
  <2>1. wall <= soleil /\ soleil + tz + ete < (Local.jour + 1) * Jour
    BY <1>0, <1>2 DEF HeureInv, Ensoleille
  <2>2. /\ wall \in Nat /\ tz \in Nat /\ ete \in Nat /\ soleil \in Int /\ Jour \in Nat
        /\ Local.jour \in Nat /\ Local.heure \in Nat
        /\ wall + tz = Local.jour * Jour + Local.heure
    BY <1>0, NombresFait, TempsFait
  <2> DEFINE d == Local.jour
             h == Local.heure
             w == wall
             s == soleil
  <2>3. /\ w \in Nat /\ d \in Nat /\ h \in Nat /\ w + tz = d * Jour + h /\ w <= s
        /\ s \in Int /\ s + tz + ete < (d + 1) * Jour
    BY <2>1, <2>2
  <2> HIDE DEF d, h, w, s
  <2>4. h + ete < Jour
    BY <2>2, <2>3, SMT
  <2> QED
    BY <2>4 DEF h
<1> QED
  BY <1>1, <1>2, ThreadsFait

-----------------------------------------------------------------------------
(***************************************************************************)
(* The launchers and the sun.                                              *)
(***************************************************************************)

\* A step that leaves the right things in stTm is right for the threads that
\* do not take it.
LEMMA PasTm ==
  ASSUME TmInv, TypeOK, NEW x \in Threads, NEW p, pc' = [pc EXCEPT ![x] = p],
         UNCHANGED <<wall, zone>>,
         NEW c, lu' = lu \/ lu' = [lu EXCEPT ![x] = c],
         NEW e, ecart' = ecart \/ ecart' = [ecart EXCEPT ![x] = e],
         \A y \in Autres \ {x} : pc[y] \in Apres2 => Juste(stTm)',
         stTm'.jour \in {stTm.jour, Utc.jour},
         Frais => stTm'.ete \in {stTm.ete, ete} /\ stTm'.heure \in {stTm.heure, Local.heure},
         x \in Autres => TmDe(x)' /\ (Frais => FraisDe(x)')
  PROVE  \A y \in Autres : TmDe(y)' /\ (Frais => FraisDe(y)')
<1>1. Utc' = Utc /\ Local' = Local /\ ete' = ete
  BY Fige
<1> SUFFICES ASSUME NEW y \in Autres, y # x PROVE TmDe(y)' /\ (Frais => FraisDe(y)')
  OBVIOUS
<1>2. pc'[y] = pc[y] /\ lu'[y] = lu[y] /\ ecart'[y] = ecart[y] /\ y \in Threads
  BY ThreadsFait DEF TypeOK
<1>3. TmDe(y) /\ (Frais => FraisDe(y))
  BY DEF TmInv
<1>4. \A t : Juste(t)' = Juste(t)
  BY <1>1 DEF Juste
<1>5. TmDe(y)'
  BY <1>1, <1>2, <1>3, <1>4 DEF TmDe, Apres2, Apres3
<1>6. Frais => FraisDe(y)'
  BY <1>1, <1>2, <1>3 DEF FraisDe, Apres1, Apres2
<1> QED
  BY <1>5, <1>6

\* The errors that EcartBorne allows.
Erreurs == {h + e : h \in {0, -tz}, e \in {-ete, 0, ete}}

LEMMA ErreursFait ==
  EcartBorne <=> \A x \in Threads : ecart[x] \in Erreurs
  BY DEF EcartBorne, Erreurs

\* A step of another thread keeps the invariant if it leaves the right things
\* in stTm, and if it only makes a sun last until its profile is over.
LEMMA PasAutre ==
  ASSUME Horaires, PartageInv, TypeOK', ~Seul, NEW x \in Autres, NEW p,
         pc' = [pc EXCEPT ![x] = p],
         UNCHANGED <<wall, zone, sLastDay, num, param, copie>>,
         dus' \subseteq dus, x \in Nums /\ p # "repos" => Occupe(x),
         x = Soleil /\ p # "repos" => Ensoleille,
         soleil' = soleil \/ (soleil' > soleil /\ soleil' + tz + ete < (Local.jour + 1) * Jour),
         stTm'.jour \in {stTm.jour, Utc.jour},
         \A y \in Autres : TmDe(y)' /\ (Frais => FraisDe(y)'),
         NEW e \in Erreurs, ecart' = ecart \/ ecart' = [ecart EXCEPT ![x] = e]
  PROVE  PartageInv'
<1>1. /\ Local.heure > tz /\ Utc' = Utc /\ Local' = Local /\ tz' = tz /\ ete' = ete
      /\ sLastDay = Utc.jour /\ pc[Principal] \notin Planifie \cup {"change"}
  BY PasSeul, Fige
<1>2. pc'[Principal] = pc[Principal]
  BY ThreadsFait DEF PartageInv, TypeOK
<1>3. JourInv'
  BY <1>1, <1>2 DEF PartageInv, JourInv
<1>4. \A n \in Nums : Occupe(n)' => Occupe(n)
  <2> SUFFICES ASSUME NEW n \in Nums, Occupe(n)' PROVE Occupe(n)
    OBVIOUS
  <2>1. CASE n = x
    BY <2>1, ThreadsFait DEF Occupe, PartageInv, TypeOK
  <2>2. CASE n # x
    BY <2>2, ThreadsFait DEF Occupe, PartageInv, TypeOK
  <2> QED
    BY <2>1, <2>2
<1>5. HeureInv'
  <2>1. \A n \in Nums : Occupe(n)' => DansFenetre(n, Local.heure)'
    BY <1>1, <1>4 DEF PartageInv, HeureInv, DansFenetre
  <2>2. Ensoleille => Ensoleille'
    <3>1. wall \in Nat /\ soleil \in Int /\ soleil' \in Int
      BY NombresFait DEF PartageInv, TypeOK
    <3>2. CASE soleil' = soleil
      BY <3>2, Fige
    <3>3. CASE soleil' > soleil
      BY <3>1, <3>3, SMT DEF Ensoleille
    <3> QED
      BY <3>2, <3>3
  <2>3. pc'[Soleil] # "repos" => Ensoleille'
    <3>1. CASE Soleil = x
      BY <2>2, <3>1, ThreadsFait DEF PartageInv, TypeOK
    <3>2. CASE Soleil # x
      BY <2>2, <3>2, ThreadsFait DEF PartageInv, TypeOK, HeureInv
    <3> QED
      BY <3>1, <3>2
  <2>4. Ensoleille' => soleil' + tz + ete < (Local.jour + 1) * Jour
    BY Fige DEF PartageInv, HeureInv
  <2> QED
    BY <1>1, <2>1, <2>3, <2>4 DEF HeureInv
<1>6. RetardInv' /\ (Frais' => Frais)
  BY <1>1, <1>2, <1>4 DEF PartageInv, RetardInv, Frais, Tardif
<1>7. TmInv'
  BY <1>6 DEF TmInv
<1>8. PlanTmInv' /\ ParamInv'
  BY <1>1, <1>2 DEF PartageInv, PlanTmInv, ParamInv, Planifie, Apres1, Apres2, Apres3
<1>9. HeureDuPlan' /\ ParametresEntiers'
  BY ThreadsFait DEF PartageInv, HeureDuPlan, ParametresEntiers, TypeOK
<1>10. EcartBorne'
  <2>1. Erreurs' = Erreurs
    BY <1>1 DEF Erreurs
  <2>2. \A y \in Threads : ecart'[y] \in Erreurs
    BY ErreursFait, ThreadsFait DEF PartageInv, TypeOK
  <2> QED
    BY <2>1, <2>2 DEF EcartBorne, Erreurs
<1> QED
  BY <1>1, <1>3, <1>5, <1>6, <1>7, <1>8, <1>9, <1>10 DEF PartageInv

\* What the lemmas below start from.
LEMMA AutreFait ==
  ASSUME Horaires, PartageInv, NEW x \in Autres, pc[x] # "repos"
  PROVE  /\ TypeOK /\ TmInv /\ ~Seul /\ x \in Threads /\ stTm \in Tm /\ lu[x] \in Tm
         /\ pc \in [Threads -> Etapes] /\ lu \in [Threads -> Tm] /\ ecart \in [Threads -> Int]
         /\ TmDe(x) /\ (Frais => FraisDe(x)) /\ 0 \in Erreurs
         /\ x \in Nums => Occupe(x)
         /\ x = Soleil => Ensoleille
<1>1. 0 \in Erreurs
  <2>1. 0 + 0 = 0
    BY SMT
  <2> QED
    BY <2>1 DEF Erreurs
<1> QED
  BY <1>1, ThreadsFait DEF PartageInv, TypeOK, Seul, Etapes, TmInv, Occupe, HeureInv

LEMMA AutreLocaltime ==
  ASSUME Horaires, PartageInv, TypeOK', NEW x \in Autres, localtime(x)
  PROVE  PartageInv'
<1>0. pc[x] # "repos" /\ UNCHANGED <<lu, ecart, wall, zone, sLastDay, num, param, copie, dus, soleil>>
  BY DEF localtime, reste
<1>1. /\ TypeOK /\ TmInv /\ ~Seul /\ x \in Threads /\ stTm \in Tm /\ pc \in [Threads -> Etapes]
      /\ TmDe(x) /\ (Frais => FraisDe(x)) /\ 0 \in Erreurs
      /\ (x \in Nums => Occupe(x)) /\ (x = Soleil => Ensoleille)
  BY <1>0, AutreFait
<1>2. Local.jour = Utc.jour /\ Local.ete = ete /\ Utc' = Utc /\ Local' = Local /\ ete' = ete
  BY <1>0, <1>1, PasSeul, Fige, TempsFait
<1>3. PICK p : pc' = [pc EXCEPT ![x] = p] /\ p \in Apres1 \ {"mktime", "rend"} /\ pc'[x] = p
  BY <1>1 DEF localtime, Aller, Apres1
<1>4. \/ /\ pc[x] = "localtime" /\ p = "localtime2" /\ stTm' = [stTm EXCEPT !.ete = ete]
      \/ /\ pc[x] = "localtime2" /\ p = "localtime3"
         /\ stTm' = [stTm EXCEPT !.heure = Local.heure]
      \/ /\ pc[x] = "localtime3" /\ p = "minuit" /\ stTm' = [stTm EXCEPT !.jour = Utc.jour]
  BY <1>1, <1>2, <1>3 DEF localtime, EcrireEte, EcrireHeure, EcrireJour, Aller
<1>5. /\ stTm'.jour \in {stTm.jour, Utc.jour}
      /\ stTm'.ete \in {stTm.ete, ete} /\ stTm'.heure \in {stTm.heure, Local.heure}
      /\ p = "localtime2" => stTm'.ete = ete
      /\ p = "localtime3" => stTm'.heure = Local.heure /\ stTm'.ete = stTm.ete
      /\ p = "minuit" => /\ stTm'.jour = Utc.jour /\ stTm'.heure = stTm.heure
                         /\ stTm'.ete = stTm.ete
  BY <1>1, <1>4 DEF Tm
<1>6. Juste(stTm) => Juste(stTm)'
  BY <1>2, <1>5 DEF Juste
<1>7. TmDe(x)'
  BY <1>1, <1>2, <1>3, <1>4, <1>5, <1>6 DEF TmDe, Apres1, Apres2, Apres3, Juste
<1>8. Frais => FraisDe(x)'
  BY <1>1, <1>2, <1>3, <1>4, <1>5 DEF FraisDe, Apres1, Apres2
<1>9. \A y \in Autres : TmDe(y)' /\ (Frais => FraisDe(y)')
  BY <1>0, <1>1, <1>3, <1>5, <1>6, <1>7, <1>8, PasTm DEF TmInv, TmDe
<1> QED
  BY <1>0, <1>1, <1>3, <1>5, <1>9, PasAutre

LEMMA AutreMinuit ==
  ASSUME Horaires, PartageInv, TypeOK', NEW x \in Autres, Minuit(x)
  PROVE  PartageInv'
<1> DEFINE c == [stTm EXCEPT !.heure = 0]
<1>0. /\ pc[x] = "minuit" /\ pc' = [pc EXCEPT ![x] = "mktime"] /\ lu' = [lu EXCEPT ![x] = c]
      /\ UNCHANGED <<stTm, verrou, ecart, wall, zone, sLastDay, num, param, copie, dus, soleil>>
  BY DEF Minuit, Aller, reste
<1>1. /\ TypeOK /\ TmInv /\ ~Seul /\ x \in Threads /\ stTm \in Tm /\ pc \in [Threads -> Etapes]
      /\ lu \in [Threads -> Tm]
      /\ TmDe(x) /\ (Frais => FraisDe(x)) /\ 0 \in Erreurs
      /\ (x \in Nums => Occupe(x)) /\ (x = Soleil => Ensoleille)
  BY <1>0, AutreFait
<1>2. Utc' = Utc /\ Local' = Local /\ ete' = ete
  BY <1>0, Fige
<1>3. c.heure = 0 /\ c.jour = stTm.jour /\ c.ete = stTm.ete
  BY <1>1 DEF Tm
<1> HIDE DEF c
<1>4. pc'[x] = "mktime" /\ lu'[x] = c
  BY <1>0, <1>1
<1>5. Juste(stTm) => Juste(stTm)'
  BY <1>0, <1>2 DEF Juste
<1>6. TmDe(x)' /\ (Frais => FraisDe(x)')
  BY <1>0, <1>1, <1>2, <1>3, <1>4, <1>5 DEF TmDe, FraisDe, Apres1, Apres2, Apres3
<1>7. \A y \in Autres : TmDe(y)' /\ (Frais => FraisDe(y)')
  BY <1>0, <1>1, <1>5, <1>6, PasTm DEF TmInv, TmDe
<1> QED
  BY <1>0, <1>1, <1>7, PasAutre

\* The error that comes from the shift of tm_isdst, and from UTC.
LEMMA AutreMktime ==
  ASSUME Horaires, PartageInv, TypeOK', NEW x \in Autres, Mktime(x)
  PROVE  PartageInv'
<1> DEFINE e == Instant(stTm) - Instant(lu[x]) - Local.heure
<1>0. /\ pc[x] = "mktime" /\ pc' = [pc EXCEPT ![x] = "rend"] /\ lu' = [lu EXCEPT ![x] = stTm]
      /\ ecart' = [ecart EXCEPT ![x] = e]
      /\ UNCHANGED <<stTm, verrou, wall, zone, sLastDay, num, param, copie, dus, soleil>>
  BY DEF Mktime, Aller, reste
<1>1. /\ TypeOK /\ TmInv /\ ~Seul /\ x \in Threads /\ stTm \in Tm /\ pc \in [Threads -> Etapes]
      /\ lu \in [Threads -> Tm] /\ lu[x] \in Tm /\ ecart \in [Threads -> Int]
      /\ TmDe(x) /\ (Frais => FraisDe(x))
      /\ (x \in Nums => Occupe(x)) /\ (x = Soleil => Ensoleille)
  BY <1>0, AutreFait
<1>2. Utc' = Utc /\ Local' = Local /\ ete' = ete
  BY <1>0, Fige
<1>3. /\ stTm.jour = lu[x].jour /\ lu[x].heure = 0 /\ Juste(stTm) /\ stTm.jour = Utc.jour
  BY <1>0, <1>1 DEF TmDe, Apres2, Apres3
<1>4. e = stTm.heure - stTm.ete + lu[x].ete - Local.heure
  <2> DEFINE p == stTm.jour * Jour
             a == stTm.heure
             b == stTm.ete
             f == lu[x].ete
             l == Local.heure
  <2>1. e = (p + a - b) - (p + 0 - f) - l
    BY <1>3 DEF Instant
  <2>2. p \in Int /\ a \in Int /\ b \in Int /\ f \in Int /\ l \in Int
    <3>1. stTm.jour \in Nat /\ Jour \in Nat /\ a \in 0..(Jour - 1) /\ l \in Nat
          /\ b \in {0, ete} /\ f \in {0, ete} /\ ete \in Nat
      BY <1>1, NombresFait, TempsFait DEF Tm
    <3>2. \A d \in Nat : d * Jour \in Int
      BY <3>1, SMT
    <3> QED
      BY <3>1, <3>2, SMT
  <2> HIDE DEF p, a, b, f, l, e
  <2>3. e = a - b + f - l
    BY <2>1, <2>2, SMT
  <2> QED
    BY <2>3 DEF a, b, f, l
<1> HIDE DEF e
<1>5. e \in Erreurs /\ (stTm.heure = Local.heure /\ stTm.ete = ete /\ lu[x].ete = ete => e = 0)
  <2> DEFINE a == stTm.heure
             b == stTm.ete
             f == lu[x].ete
             l == Local.heure
             u == Utc.heure
  <2>1. /\ l \in Nat /\ u \in Nat /\ ete \in Nat /\ tz \in Nat /\ l = u + tz
        /\ b \in {0, ete} /\ f \in {0, ete}
        /\ a \in {u, l} \/ (b = ete /\ a \in {u + ete, l + ete})
    BY <1>1, <1>3, NombresFait, TempsFait, PasSeul DEF Tm, Juste
  <2>2. e = a - b + f - l
    BY <1>4
  <2> HIDE DEF a, b, f, l, u
  <2>3. \E h \in {0, -tz}, d \in {-ete, 0, ete} : e = h + d
    <3>1. \E d \in {-ete, 0, ete} : e = d \/ e = -tz + d
      BY <2>1, <2>2, SMT
    <3>2. PICK d \in {-ete, 0, ete} : e = 0 + d \/ e = -tz + d
      <4>1. PICK d \in {-ete, 0, ete} : e = d \/ e = -tz + d
        BY <3>1
      <4>2. d = 0 + d
        BY <2>1, <4>1, SMT
      <4> QED
        BY <4>1, <4>2
    <3> QED
      BY <3>2
  <2>4. a = l /\ b = ete /\ f = ete => e = 0
    BY <2>1, <2>2, SMT
  <2> QED
    BY <2>3, <2>4 DEF Erreurs, a, b, f, l
<1>6. pc'[x] = "rend" /\ lu'[x] = stTm /\ ecart'[x] = e
  BY <1>0, <1>1
<1>7. Juste(stTm) => Juste(stTm)'
  BY <1>0, <1>2 DEF Juste
<1>8. TmDe(x)'
  BY <1>0, <1>2, <1>3, <1>6, <1>7 DEF TmDe, Juste
<1>9. Frais => FraisDe(x)'
  BY <1>0, <1>1, <1>2, <1>5, <1>6 DEF FraisDe, Apres1, Apres2
<1>10. \A y \in Autres : TmDe(y)' /\ (Frais => FraisDe(y)')
  BY <1>0, <1>1, <1>7, <1>8, <1>9, PasTm DEF TmInv, TmDe
<1> QED
  BY <1>0, <1>1, <1>5, <1>10, PasAutre

\* mktime writes back what it has read, put right: the right day, and an hour
\* that is wrong by summer time at most.
LEMMA AutreRendre ==
  ASSUME Horaires, PartageInv, TypeOK', NEW x \in Autres, Rendre(x, "repos"),
         UNCHANGED <<wall, zone, sLastDay, num, param, copie, dus>>,
         soleil' = soleil \/ (soleil' > soleil /\ soleil' + tz + ete < (Local.jour + 1) * Jour)
  PROVE  PartageInv'
<1>0. /\ pc[x] = "rend" /\ pc' = [pc EXCEPT ![x] = "repos"] /\ lu' = [lu EXCEPT ![x] = Vide]
      /\ ecart' = [ecart EXCEPT ![x] = 0] /\ stTm' = Normaliser(lu[x])
  BY DEF Rendre, Aller
<1>1. /\ TypeOK /\ TmInv /\ ~Seul /\ x \in Threads /\ lu[x] \in Tm /\ pc \in [Threads -> Etapes]
      /\ TmDe(x) /\ (Frais => FraisDe(x)) /\ 0 \in Erreurs
  BY <1>0, AutreFait
<1>2. Utc' = Utc /\ Local' = Local /\ ete' = ete
  BY Fige
<1>3. Juste(lu[x]) /\ lu[x].jour = Utc.jour
  BY <1>0, <1>1 DEF TmDe
<1>4. /\ Local.heure \in Nat /\ Utc.heure \in Nat /\ Local.heure < Jour /\ ete \in Nat
      /\ lu[x].ete \in {0, ete} /\ Local.heure = Utc.heure + tz /\ tz \in Nat
  BY <1>1, TempsFait, NombresFait, PasSeul DEF Tm
<1> DEFINE h == lu[x].heure + ete - lu[x].ete
<1>5. h \in {Utc.heure, Local.heure, Utc.heure + ete, Local.heure + ete} /\ h \in Nat
  <2>1. lu[x].heure \in {Utc.heure, Local.heure}
          \/ (lu[x].ete = ete /\ lu[x].heure \in {Utc.heure + ete, Local.heure + ete})
    BY <1>3 DEF Juste
  <2> QED
    BY <1>4, <2>1, SMT
<1>6. Frais => h = Local.heure
  <2>1. Frais => lu[x].heure = Local.heure /\ lu[x].ete = ete
    BY <1>0, <1>1 DEF FraisDe
  <2> QED
    BY <1>4, <2>1, SMT
<1>7. h < Jour
  <2>1. CASE Frais
    BY <1>4, <1>6, <2>1
  <2>2. CASE ~Frais
    <3>1. Local.heure + ete < Jour
      BY <1>0, <2>2, MargeFait
    <3> DEFINE l == Local.heure
               u == Utc.heure
    <3>2. l + ete < Jour /\ l \in Nat /\ u \in Nat /\ ete \in Nat /\ tz \in Nat /\ l = u + tz
          /\ h \in {u, l, u + ete, l + ete} /\ Jour \in Nat
      BY <1>1, <1>4, <1>5, <3>1, NombresFait
    <3> HIDE DEF l, u, h
    <3> QED
      BY <3>2, SMT
  <2> QED
    BY <2>1, <2>2
<1>8. stTm' = [heure |-> h, jour |-> Utc.jour, ete |-> ete]
  BY <1>0, <1>1, <1>3, <1>7, NormaliserFait
<1> HIDE DEF h
<1>9. stTm'.heure = h /\ stTm'.jour = Utc.jour /\ stTm'.ete = ete
  BY <1>8
<1>10. Juste(stTm)'
  BY <1>2, <1>5, <1>9 DEF Juste
<1>11. pc'[x] = "repos"
  BY <1>0, <1>1
<1>12. TmDe(x)' /\ FraisDe(x)'
  BY <1>11 DEF TmDe, FraisDe, Apres1, Apres2, Apres3
<1>13. \A y \in Autres : TmDe(y)' /\ (Frais => FraisDe(y)')
  BY <1>0, <1>1, <1>6, <1>9, <1>10, <1>12, PasTm
<1> QED
  BY <1>0, <1>1, <1>9, <1>13, PasAutre

\* A launcher has read the time that its profile has left: it is stopped before
\* local midnight.
LEMMA AutreFinLanceur ==
  ASSUME Horaires, PartageInv, TypeOK', NEW n \in Nums, FinLanceur(n)
  PROVE  PartageInv'
<1>0. n \in Autres /\ n \in Threads /\ pc[n] = "rend" /\ Rendre(n, "repos")
      /\ UNCHANGED <<wall, zone, sLastDay, num, param, copie, dus>>
  BY ThreadsFait DEF FinLanceur, Rendre
<1>1. CASE ~(Planifs[n].profil \in Eclaires /\ FinProfil(n) > soleil)
  BY <1>0, <1>1, AutreRendre DEF FinLanceur
<1>2. CASE Planifs[n].profil \in Eclaires /\ FinProfil(n) > soleil
  <2> DEFINE d == Planifs[n].debut
             q == Planifs[n].period
             l == Local.heure
             c == ecart[n]
             j == Local.jour
             w == wall
  <2>1. /\ TypeOK /\ ete <= tz /\ HeureInv /\ Occupe(n) /\ (Frais => FraisDe(n)) /\ c \in Erreurs
    BY <1>0, AutreFait, ErreursFait DEF PartageInv
  <2>2. /\ d \in Nat /\ q \in Nat \ {0} /\ l \in Nat /\ w \in Nat /\ tz \in Nat /\ ete \in Nat
        /\ j \in Nat /\ Jour \in Nat /\ ete < q /\ d + q + tz + 2 * ete < Jour
        /\ w + tz = j * Jour + l
    BY <1>2, <2>1, HorairesFait, NombresFait, TempsFait
  <2>3. d <= l /\ l < d + q
    <3>1. l \in d .. (d + q - 1)
      BY <2>1 DEF HeureInv, DansFenetre
    <3> HIDE DEF d, q, l
    <3> QED
      BY <2>2, <3>1, SMT
  <2>4. d = l \/ c = 0
    <3>1. d # l => Frais
      BY <2>1 DEF Tardif, Frais
    <3> QED
      BY <1>0, <2>1, <3>1 DEF FraisDe
  <2>5. c \in Int /\ -tz - ete <= c /\ c <= ete
    <3>1. PICK h \in {0, -tz} : \E e \in {-ete, 0, ete} : c = h + e
      BY <1>0 DEF PartageInv, EcartBorne
    <3>2. PICK e \in {-ete, 0, ete} : c = h + e
      BY <3>1
    <3> HIDE DEF c
    <3> QED
      BY <2>2, <3>2, SMT
  <2>6. FinProfil(n) = IF d + q - (l + c) > 0 THEN w + (d + q - (l + c)) ELSE Toujours
    BY DEF FinProfil
  <2> HIDE DEF d, q, l, c, j, w
  <2>7. d + q - (l + c) > 0
    BY <2>2, <2>3, <2>4, <2>5, SMT
  <2>8. w + (d + q - (l + c)) + tz + ete < (j + 1) * Jour
    <3> DEFINE m == j * Jour
    <3>1. m \in Nat /\ (j + 1) * Jour = m + Jour
      BY <2>2, SMT
    <3>2. w + tz = m + l
      BY <2>2
    <3> HIDE DEF m
    <3> QED
      BY <2>2, <2>5, <3>1, <3>2, SMT
  <2>9. soleil' = FinProfil(n) /\ soleil' + tz + ete < (j + 1) * Jour
    BY <1>2, <2>6, <2>7, <2>8 DEF FinLanceur
  <2>10. soleil' > soleil /\ soleil' + tz + ete < (Local.jour + 1) * Jour
    BY <1>2, <2>9 DEF j
  <2> QED
    BY <1>0, <2>10, AutreRendre
<1> QED
  BY <1>1, <1>2

\* A thread that begins to read the local time: a launcher that is due, which
\* copies whole parameters, or the sun.
LEMMA AutreCommence ==
  ASSUME Horaires, PartageInv, TypeOK',
         \/ \E n \in Nums : LancerProfil(n)
         \/ pc[Soleil] = "repos" /\ Ensoleille /\ Aller(Soleil, "localtime")
              /\ UNCHANGED <<tm, ecart, reste>>
  PROVE  PartageInv'
<1>0. TypeOK /\ TmInv /\ ~Seul /\ pc \in [Threads -> Etapes] /\ Nums \subseteq Threads
  BY ThreadsFait DEF PartageInv, TypeOK, Seul, LancerProfil, Etapes
<1>1. PICK x \in Autres :
        /\ pc' = [pc EXCEPT ![x] = "localtime"] /\ dus' \subseteq dus
        /\ x \in Nums => Occupe(x)
        /\ x = Soleil => Ensoleille
        /\ UNCHANGED <<stTm, verrou, lu, ecart, wall, zone, sLastDay, num, param, soleil>>
  BY ThreadsFait DEF LancerProfil, Aller, tm, reste, Occupe
<1>2. copie' = copie
  <2>1. CASE \E n \in Nums : LancerProfil(n)
    <3>1. PICK n \in Nums : LancerProfil(n)
      BY <2>1
    <3>2. pc[Principal] # "remplit"
      BY <1>0, PasSeul DEF Planifie
    <3>3. param[Planifs[n].profil]
      BY <3>2, NumerosFait DEF PartageInv, ParamInv
    <3> QED
      BY <3>1, <3>3 DEF LancerProfil
  <2> QED
    BY <2>1 DEF reste
<1>3. x \in Threads /\ pc'[x] = "localtime"
  BY <1>0, <1>1, ThreadsFait
<1>4. TmDe(x)' /\ FraisDe(x)'
  BY <1>3 DEF TmDe, FraisDe, Apres1, Apres2, Apres3
<1>5. Juste(stTm) => Juste(stTm)'
  BY <1>1, Fige DEF Juste
<1>6. \A y \in Autres : TmDe(y)' /\ (Frais => FraisDe(y)')
  BY <1>0, <1>1, <1>3, <1>4, <1>5, PasTm DEF TmInv, TmDe
<1>7. 0 \in Erreurs
  <2>1. 0 + 0 = 0
    BY SMT
  <2> QED
    BY <2>1 DEF Erreurs
<1> QED
  BY <1>0, <1>1, <1>2, <1>3, <1>6, <1>7, PasAutre

-----------------------------------------------------------------------------
(***************************************************************************)
(* The main thread.                                                        *)
(***************************************************************************)

\* What a step of the main thread leaves to show.
LEMMA PasPrincipal ==
  ASSUME PartageInv, NEW p, pc' = [pc EXCEPT ![Principal] = p],
         UNCHANGED <<wall, zone, dus, soleil, copie>>
  PROVE  /\ HeureInv' /\ ParametresEntiers' /\ (Seul => Seul') /\ ete' <= tz'
         /\ (\A x \in Autres : pc[x] = "repos") => TmInv'
         /\ (\A n \in Nums : ~Tardif(n)) => RetardInv'
         /\ (\A n \in Nums : ~Tardif(n)) /\ p # "gmtime" => ~Frais'
         /\ pc'[Principal] = p /\ Utc' = Utc /\ Local' = Local /\ ete' = ete
         /\ ecart' = ecart => HeureDuPlan' /\ EcartBorne'
<1>1. /\ pc'[Principal] = p /\ \A x \in Autres : pc'[x] = pc[x]
  BY ThreadsFait DEF PartageInv, TypeOK
<1>2. Utc' = Utc /\ Local' = Local /\ Ensoleille' = Ensoleille /\ tz' = tz /\ ete' = ete
  BY Fige
<1>3. Seul => Seul'
  BY <1>1, <1>2 DEF Seul
<1>4. \A n \in Nums : Occupe(n)' = Occupe(n) /\ Tardif(n)' = Tardif(n)
  BY <1>1, <1>2, ThreadsFait DEF Occupe, Tardif
<1>5. HeureInv' /\ ParametresEntiers' /\ ete' <= tz'
  BY <1>1, <1>2, <1>4, ThreadsFait
  DEF PartageInv, HeureInv, ParametresEntiers, DansFenetre
<1>6. (\A x \in Autres : pc[x] = "repos") => TmInv'
  BY <1>1 DEF TmInv, TmDe, FraisDe, Apres1, Apres2, Apres3
<1>7. (\A n \in Nums : ~Tardif(n)) => RetardInv' /\ (p # "gmtime" => ~Frais')
  BY <1>1, <1>4 DEF RetardInv, Frais
<1>8. ecart' = ecart => HeureDuPlan' /\ EcartBorne'
  BY <1>2 DEF PartageInv, HeureDuPlan, EcartBorne
<1> QED
  BY <1>1, <1>2, <1>3, <1>5, <1>6, <1>7, <1>8

\* Away from its select, the main thread leaves no launcher behind.
LEMMA PasTardif ==
  ASSUME PartageInv, pc[Principal] # "repos" \/ Seul
  PROVE  \A n \in Nums : ~Tardif(n)
<1>1. CASE pc[Principal] # "repos"
  BY <1>1 DEF PartageInv, RetardInv
<1>2. CASE Seul
  BY <1>2, ThreadsFait DEF Seul, Tardif, Occupe
<1> QED
  BY <1>1, <1>2

\* gmtime leaves a right hour in stTm, whatever has been written there.
LEMMA PrincipalGmtime ==
  ASSUME Horaires, PartageInv, TypeOK', gmtime
  PROVE  PartageInv'
<1>0. /\ TypeOK /\ TmInv /\ Principal \in Threads /\ Principal \notin Autres
      /\ stTm \in Tm /\ pc \in [Threads -> Etapes]
      /\ UNCHANGED <<lu, ecart, wall, zone, sLastDay, num, param, copie, dus, soleil>>
  BY ThreadsFait DEF PartageInv, TypeOK, Etapes, gmtime, reste
<1>1. PICK p \in {"gmtime2", "gmtime3", "yday"} :
        /\ pc' = [pc EXCEPT ![Principal] = p]
        /\ \/ pc[Principal] = "gmtime" /\ p = "gmtime2" /\ stTm' = [stTm EXCEPT !.ete = 0]
           \/ /\ pc[Principal] = "gmtime2" /\ p = "gmtime3"
              /\ stTm' = [stTm EXCEPT !.heure = Utc.heure]
           \/ /\ pc[Principal] = "gmtime3" /\ p = "yday"
              /\ stTm' = [stTm EXCEPT !.jour = Utc.jour]
  BY <1>0, TempsFait DEF gmtime, EcrireEte, EcrireHeure, EcrireJour, Aller
<1>2. /\ p = "gmtime2" => stTm'.heure = stTm.heure
      /\ p = "gmtime3" => stTm'.heure = Utc.heure
      /\ p = "yday" => stTm'.heure = stTm.heure /\ stTm'.ete = stTm.ete /\ stTm'.jour = Utc.jour
      /\ stTm'.jour \in {stTm.jour, Utc.jour}
  BY <1>0, <1>1 DEF Tm
<1>3. /\ HeureInv' /\ ParametresEntiers' /\ (Seul => Seul') /\ HeureDuPlan' /\ EcartBorne'
      /\ RetardInv' /\ ~Frais' /\ ete' <= tz'
      /\ pc'[Principal] = p /\ Utc' = Utc /\ Local' = Local /\ ete' = ete
  BY <1>0, <1>1, PasPrincipal, PasTardif
<1>4. \A y \in Autres : pc[y] \in Apres2 => Juste(stTm)'
  <2> SUFFICES ASSUME NEW y \in Autres, pc[y] \in Apres2 PROVE Juste(stTm)'
    OBVIOUS
  <2>1. Juste(stTm) /\ (Frais => stTm.heure = Local.heure)
    BY DEF PartageInv, TmInv, TmDe, FraisDe
  <2>2. CASE p = "gmtime2"
    BY <1>1, <1>2, <1>3, <2>1, <2>2 DEF Frais, Juste
  <2>3. CASE p = "gmtime3"
    BY <1>2, <1>3, <2>3 DEF Juste
  <2>4. CASE p = "yday"
    BY <1>2, <1>3, <2>1, <2>4 DEF Juste
  <2> QED
    BY <2>2, <2>3, <2>4
<1>5. TmInv'
  <2> SUFFICES ASSUME NEW y \in Autres PROVE TmDe(y)'
    BY <1>3 DEF TmInv
  <2>1. pc'[y] = pc[y] /\ lu'[y] = lu[y] /\ TmDe(y)
    BY <1>0, <1>1, ThreadsFait DEF TmInv
  <2>2. \A t : Juste(t)' = Juste(t)
    BY <1>3 DEF Juste
  <2> QED
    BY <1>2, <1>3, <1>4, <2>1, <2>2 DEF TmDe
<1>6. JourInv' /\ PlanTmInv' /\ ParamInv'
  BY <1>0, <1>1, <1>2, <1>3
  DEF PartageInv, JourInv, PlanTmInv, ParamInv, Planifie, Apres1, Apres2, Apres3
<1> QED
  BY <1>3, <1>5, <1>6 DEF PartageInv

\* The main thread wakes up, while nobody reads the local time.
LEMMA PrincipalReveil ==
  ASSUME Horaires, PartageInv, TypeOK', Reveil
  PROVE  PartageInv'
<1>0. /\ TypeOK /\ Principal \in Threads /\ Principal \notin Autres /\ Autres \subseteq Threads
      /\ pc[Principal] = "repos" /\ (\A x \in Autres : pc[x] = "repos")
      /\ pc' = [pc EXCEPT ![Principal] = "gmtime"]
      /\ UNCHANGED <<stTm, verrou, lu, ecart, wall, zone, sLastDay, num, param, copie, dus, soleil>>
  BY ThreadsFait DEF PartageInv, Reveil, Aller, tm, reste
<1>1. \A n \in Nums : ~Tardif(n)
  BY <1>0, ThreadsFait DEF Reveil, Tardif, Occupe
<1>2. /\ HeureInv' /\ ParametresEntiers' /\ (Seul => Seul') /\ HeureDuPlan' /\ EcartBorne'
      /\ RetardInv' /\ TmInv' /\ ete' <= tz'
      /\ pc'[Principal] = "gmtime" /\ Utc' = Utc /\ Local' = Local
  BY <1>0, <1>1, PasPrincipal
<1>3. JourInv' /\ PlanTmInv' /\ ParamInv'
  BY <1>0, <1>2
  DEF PartageInv, JourInv, PlanTmInv, ParamInv, Planifie, Apres1, Apres2, Apres3
<1> QED
  BY <1>2, <1>3 DEF PartageInv

\* It compares the day with the last one.
LEMMA PrincipalCompare ==
  ASSUME Horaires, PartageInv, TypeOK', Comparer
  PROVE  PartageInv'
<1>0. /\ TypeOK /\ TmInv /\ Principal \in Threads /\ Principal \notin Autres
      /\ pc[Principal] = "yday"
      /\ UNCHANGED <<stTm, verrou, lu, ecart, wall, zone, sLastDay, num, param, copie, dus, soleil>>
  BY ThreadsFait DEF PartageInv, Comparer, tm, reste
<1>1. PICK p \in {"change", "repos"} :
        pc' = [pc EXCEPT ![Principal] = p] /\ (p = "change" => stTm.jour # sLastDay)
  BY DEF Comparer, Aller
<1>2. /\ HeureInv' /\ ParametresEntiers' /\ (Seul => Seul') /\ HeureDuPlan' /\ EcartBorne'
      /\ RetardInv' /\ ~Frais' /\ ete' <= tz'
      /\ pc'[Principal] = p /\ Utc' = Utc /\ Local' = Local /\ ete' = ete
  BY <1>0, <1>1, PasPrincipal, PasTardif
<1>3. TmInv'
  <2> SUFFICES ASSUME NEW y \in Autres PROVE TmDe(y)'
    BY <1>2 DEF TmInv
  <2>1. pc'[y] = pc[y] /\ TmDe(y)
    BY <1>0, <1>1, ThreadsFait DEF TmInv, TypeOK
  <2>2. \A t : Juste(t)' = Juste(t)
    BY <1>2 DEF Juste
  <2>3. lu' = lu /\ Juste(stTm)' = Juste(stTm) /\ Juste(lu[y])' = Juste(lu[y])
    BY <1>0, <2>2
  <2> QED
    BY <1>0, <1>2, <2>1, <2>3 DEF TmDe
<1>4. JourInv' /\ PlanTmInv' /\ ParamInv'
  BY <1>0, <1>1, <1>2
  DEF PartageInv, JourInv, PlanTmInv, ParamInv, Planifie, Apres1, Apres2, Apres3
<1> QED
  BY <1>2, <1>3, <1>4 DEF PartageInv

\* It takes the new day down and fills the parameters again.
LEMMA PrincipalChange ==
  ASSUME Horaires, PartageInv, TypeOK', Changer \/ pstInit
  PROVE  PartageInv'
<1>0. TypeOK /\ Seul /\ Principal \in Threads /\ pc \in [Threads -> Etapes]
      /\ UNCHANGED <<wall, zone, stTm, verrou, lu, ecart, copie, dus, soleil>>
  BY ThreadsFait
  DEF PartageInv, TypeOK, JourInv, Planifie, Etapes, Changer, pstInit, tm
<1>1. PICK p \in {"efface", "remplit", "localtime"} : pc' = [pc EXCEPT ![Principal] = p]
  BY DEF Changer, pstInit, Aller
<1>2. /\ HeureInv' /\ ParametresEntiers' /\ Seul' /\ HeureDuPlan' /\ EcartBorne'
      /\ RetardInv' /\ TmInv' /\ ete' <= tz'
      /\ pc'[Principal] = p /\ Utc' = Utc /\ Local' = Local
  BY <1>0, <1>1, PasPrincipal, PasTardif DEF Seul
<1>3. sLastDay' = Utc.jour
  BY DEF PartageInv, JourInv, Planifie, Changer, pstInit
<1>4. JourInv' /\ PlanTmInv'
  BY <1>1, <1>2, <1>3 DEF JourInv, PlanTmInv, Planifie, Apres1, Apres2, Apres3
<1>5. ParamInv'
  <2>1. CASE Changer
    BY <1>0, <1>2, <2>1, NumerosFait DEF Changer, Aller, PartageInv, ParamInv
  <2>2. CASE pstInit
    <3>1. param \in [Numeros -> BOOLEAN] /\ num \in Numeros
          /\ \A k \in Numeros : param[k] \/ (pc[Principal] = "remplit" /\ k = num)
      BY <2>2 DEF pstInit, PartageInv, TypeOK, ParamInv
    <3>2. \/ /\ pc[Principal] = "efface" /\ p = "remplit"
             /\ param' = [param EXCEPT ![num] = FALSE] /\ num' = num
          \/ /\ pc[Principal] = "remplit" /\ param' = [param EXCEPT ![num] = TRUE]
             /\ p = "efface" => num' \in Numeros
             /\ p # "remplit"
      BY <1>0, <1>2, <2>2 DEF pstInit, Aller
    <3> QED
      BY <1>2, <3>1, <3>2 DEF ParamInv
  <2> QED
    BY <2>1, <2>2
<1> QED
  BY <1>2, <1>4, <1>5 DEF PartageInv

\* It reads the local time, which nobody disturbs.
LEMMA PrincipalHeure ==
  ASSUME Horaires, PartageInv, TypeOK',
         localtime(Principal) \/ Minuit(Principal) \/ Mktime(Principal)
  PROVE  PartageInv'
<1>0. /\ TypeOK /\ Seul /\ Principal \in Threads /\ pc \in [Threads -> Etapes]
      /\ stTm \in Tm /\ lu \in [Threads -> Tm] /\ Local \in Tm /\ sLastDay = Utc.jour
      /\ Local.ete = ete
      /\ UNCHANGED <<wall, zone, sLastDay, num, param, copie, dus, soleil>>
  BY ThreadsFait, TempsFait
  DEF PartageInv, TypeOK, JourInv, Planifie, Etapes, localtime, Minuit, Mktime, reste
<1>1. PICK p \in Apres1 :
        /\ pc' = [pc EXCEPT ![Principal] = p]
        /\ pc[Principal] \in {"localtime", "localtime2", "localtime3", "minuit", "mktime"}
  BY DEF localtime, Minuit, Mktime, Aller, Apres1
<1>2. /\ HeureInv' /\ ParametresEntiers' /\ Seul' /\ TmInv' /\ RetardInv' /\ ete' <= tz'
      /\ (ecart' = ecart => HeureDuPlan' /\ EcartBorne')
      /\ pc'[Principal] = p /\ Utc' = Utc /\ Local' = Local /\ ete' = ete
  <2>1. p # "gmtime"
    BY <1>1 DEF Apres1
  <2> QED
    BY <1>0, <1>1, <2>1, PasPrincipal, PasTardif DEF Seul
<1>3. JourInv'
  BY <1>0, <1>1, <1>2 DEF JourInv, Planifie, Apres1
<1>4. ParamInv'
  BY <1>0, <1>1, <1>2 DEF PartageInv, ParamInv, Apres1
<1>5. CASE localtime(Principal)
  <2>1. UNCHANGED <<lu, ecart>>
    BY <1>5 DEF localtime
  <2>2. \/ /\ pc[Principal] = "localtime" /\ p = "localtime2"
           /\ stTm' = [stTm EXCEPT !.ete = Local.ete]
        \/ /\ pc[Principal] = "localtime2" /\ p = "localtime3"
           /\ stTm' = [stTm EXCEPT !.heure = Local.heure]
        \/ /\ pc[Principal] = "localtime3" /\ p = "minuit"
           /\ stTm' = [stTm EXCEPT !.jour = Local.jour]
    BY <1>0, <1>2, <1>5 DEF localtime, EcrireEte, EcrireHeure, EcrireJour, Aller
  <2>3. PlanTmInv'
    BY <1>0, <1>2, <2>2 DEF PartageInv, PlanTmInv, Apres1, Apres2, Apres3, Tm
  <2> QED
    BY <1>2, <1>3, <1>4, <2>1, <2>3 DEF PartageInv
<1>6. CASE Minuit(Principal)
  <2>1. /\ p = "mktime" /\ pc[Principal] = "minuit"
        /\ lu' = [lu EXCEPT ![Principal] = [stTm EXCEPT !.heure = 0]]
        /\ UNCHANGED <<stTm, verrou, ecart>>
    BY <1>0, <1>2, <1>6 DEF Minuit, Aller
  <2>2. stTm = Local
    BY <1>0, <2>1 DEF PartageInv, PlanTmInv, Apres1, Apres2, Apres3, Tm
  <2>3. lu'[Principal] = [Local EXCEPT !.heure = 0]
    BY <1>0, <2>1, <2>2
  <2>4. PlanTmInv'
    BY <1>0, <1>2, <2>1, <2>2, <2>3 DEF PlanTmInv
  <2> QED
    BY <1>2, <1>3, <1>4, <2>1, <2>4 DEF PartageInv
<1>7. CASE Mktime(Principal)
  <2> DEFINE e == Instant(stTm) - Instant(lu[Principal]) - Local.heure
  <2>1. /\ p = "rend" /\ pc[Principal] = "mktime" /\ lu' = [lu EXCEPT ![Principal] = stTm]
        /\ ecart' = [ecart EXCEPT ![Principal] = e] /\ UNCHANGED <<stTm, verrou>>
    BY <1>0, <1>2, <1>7 DEF Mktime, Aller
  <2>2. stTm = Local /\ lu[Principal] = [Local EXCEPT !.heure = 0]
    BY <1>0, <2>1 DEF PartageInv, PlanTmInv, Apres1, Apres2, Apres3, Tm
  <2>3. e = 0
    <3> DEFINE i == Local.jour * Jour
               l == Local.heure
               t == Local.ete
    <3>1. Instant(stTm) = i + l - t /\ Instant(lu[Principal]) = i + 0 - t
      BY <1>0, <2>2 DEF Instant, Tm
    <3>2. i \in Int /\ l \in Int /\ t \in Int
      <4>1. Local.jour \in Nat /\ Jour \in Nat /\ l \in Nat /\ t \in Nat
        BY <1>0, TempsFait, NombresFait
      <4>2. \A d \in Nat : d * Jour \in Int
        BY <4>1, SMT
      <4> QED
        BY <4>1, <4>2, SMT
    <3>3. e = (i + l - t) - (i + 0 - t) - l
      BY <3>1
    <3> HIDE DEF i, l, t, e
    <3> QED
      BY <3>2, <3>3, SMT
  <2> HIDE DEF e
  <2>4. ecart' = [ecart EXCEPT ![Principal] = 0] /\ ecart \in [Threads -> Int]
    BY <1>0, <2>1, <2>3 DEF TypeOK
  <2>5. HeureDuPlan' /\ EcartBorne'
    <3>1. Erreurs' = Erreurs /\ 0 \in Erreurs
      <4>1. 0 + 0 = 0
        BY SMT
      <4>2. tz' = tz
        BY <1>0, Fige
      <4> QED
        BY <1>2, <4>1, <4>2 DEF Erreurs
    <3>2. \A x \in Threads : ecart'[x] \in Erreurs
      BY <2>4, <3>1, ErreursFait DEF PartageInv
    <3>3. EcartBorne' <=> \A x \in Threads : ecart'[x] \in Erreurs'
      BY DEF EcartBorne, Erreurs
    <3>4. HeureDuPlan'
      BY <1>0, <2>4 DEF HeureDuPlan
    <3> QED
      BY <3>1, <3>2, <3>3, <3>4
  <2>6. PlanTmInv'
    BY <1>0, <1>2, <2>1, <2>2 DEF PlanTmInv
  <2> QED
    BY <1>2, <1>3, <1>4, <2>5, <2>6 DEF PartageInv
<1> QED
  BY <1>5, <1>6, <1>7

\* It launches the plannings that are under way.
LEMMA PrincipalPlanifie ==
  ASSUME Horaires, PartageInv, TypeOK', Planifier
  PROVE  PartageInv'
<1>0. /\ TypeOK /\ Seul /\ Principal \in Threads /\ pc \in [Threads -> Etapes]
      /\ Principal \notin Autres /\ lu \in [Threads -> Tm] /\ sLastDay = Utc.jour
      /\ pc[Principal] = "rend" /\ dus = {} /\ ecart[Principal] = 0 /\ ete <= tz
      /\ UNCHANGED <<wall, zone, sLastDay, num, param, copie, soleil, verrou>>
      /\ ecart' = [ecart EXCEPT ![Principal] = 0] /\ ecart \in [Threads -> Int]
      /\ pc' = [pc EXCEPT ![Principal] = "repos"]
  BY ThreadsFait
  DEF PartageInv, TypeOK, JourInv, Planifie, Etapes, Planifier, Rendre, Aller, Seul, HeureDuPlan
<1>1. /\ pc'[Principal] = "repos" /\ \A x \in Autres : pc'[x] = "repos"
      /\ Utc' = Utc /\ Local' = Local /\ ete' = ete /\ tz' = tz
  BY <1>0, Fige, ThreadsFait DEF Seul
<1>2. ~Ensoleille /\ ~Ensoleille'
  BY <1>0, Fige DEF Seul
<1>3. Local.heure + 0 = Local.heure
  BY <1>0, TempsFait, SMT
<1>4. \A n \in dus' : DansFenetre(n, Local.heure)
  BY <1>0, <1>3 DEF Planifier
<1>5. HeureInv'
  BY <1>1, <1>2, <1>4, ThreadsFait DEF HeureInv, Occupe, DansFenetre
<1>6. JourInv' /\ TmInv' /\ PlanTmInv' /\ ParamInv' /\ RetardInv'
  BY <1>0, <1>1
  DEF PartageInv, JourInv, TmInv, TmDe, FraisDe, PlanTmInv, ParamInv, RetardInv, Planifie,
      Apres1, Apres2, Apres3
<1>7. HeureDuPlan' /\ EcartBorne' /\ ParametresEntiers'
  <2>1. ecart' = ecart
    BY <1>0
  <2> QED
    BY <1>0, <1>1, <2>1 DEF PartageInv, HeureDuPlan, EcartBorne, ParametresEntiers
<1> QED
  BY <1>0, <1>1, <1>5, <1>6, <1>7 DEF PartageInv

-----------------------------------------------------------------------------
(***************************************************************************)
(* The passing of time, and the theorems.                                  *)
(***************************************************************************)

\* A tick later, before local midnight.
LEMMA TickFait ==
  ASSUME TypeOK, wall' = wall + 1, UNCHANGED zone
  PROVE  /\ Local.heure + 1 < Jour => Local'.heure = Local.heure + 1 /\ Local'.jour = Local.jour
         /\ Utc'.jour # Utc.jour => Local'.heure = tz
<1> DEFINE d == Local.jour
           h == Local.heure
<1>1. /\ wall \in Nat /\ tz \in Nat /\ Jour \in Nat \ {0} /\ d \in Nat /\ h \in Nat
      /\ wall + tz = d * Jour + h /\ tz \in 0..(Jour - 1)
  BY NombresFait, TempsFait
<1>2. tz' = tz /\ wall' = wall + 1
  BY DEF zone
<1>3. Local'.heure = (wall' + tz) % Jour /\ Local'.jour = (wall' + tz) \div Jour
      /\ Utc'.jour = (wall + 1) \div Jour /\ Utc.jour = wall \div Jour
  BY <1>2 DEF Local, Utc
<1>4. h + 1 < Jour => (wall' + tz) % Jour = h + 1 /\ (wall' + tz) \div Jour = d
  <2> DEFINE r == h + 1
  <2>1. (wall + 1) + tz = d * Jour + r /\ r \in Nat
    <3> DEFINE w == wall
               m == d * Jour
    <3>1. m \in Nat
      BY <1>1, SMT
    <3>2. w + tz = m + h /\ w \in Nat
      BY <1>1
    <3> HIDE DEF w, m, h, d
    <3>3. (w + 1) + tz = m + (h + 1) /\ h + 1 \in Nat
      BY <1>1, <3>1, <3>2, SMT
    <3> QED
      BY <3>3 DEF w, m
  <2>2. wall' + tz = d * Jour + r
    BY <1>2, <2>1
  <2> HIDE DEF d, r
  <2>3. r < Jour => (d * Jour + r) \div Jour = d /\ (d * Jour + r) % Jour = r
    BY <1>1, <2>1, DivModUnique
  <2> QED
    BY <2>2, <2>3 DEF r
<1>5. Utc'.jour # Utc.jour => Local'.heure = tz
  <2>1. Utc'.jour # Utc.jour => (wall + 1) % Jour = 0
    BY <1>1, <1>3, HeureSuivante
  <2>2. wall + 1 \in Nat
    BY <1>1, SMT
  <2>3. (wall + 1) % Jour = 0 => ((wall + 1) + tz) % Jour = tz
    BY <1>1, <2>2, LocalFait
  <2> QED
    BY <1>2, <1>3, <2>1, <2>3
<1> QED
  BY <1>3, <1>4, <1>5

LEMMA TickPartageInv ==
  ASSUME Horaires, PartageInv, TypeOK', Tick
  PROVE  PartageInv'
<1>0. /\ TypeOK /\ dus = {} /\ sLastDay = Utc.jour /\ wall' = wall + 1 /\ UNCHANGED zone
      /\ tz' = tz /\ ete' = ete /\ ete <= tz
      /\ \A x \in Threads : pc[x] = "repos"
      /\ UNCHANGED <<stTm, verrou, lu, pc, sLastDay, num, param, copie, soleil, ecart>>
  BY DEF PartageInv, Tick, tm, zone
<1>1. /\ wall \in Nat /\ tz \in Nat /\ ete \in Nat /\ soleil \in Int /\ Jour \in Nat
      /\ Local.heure \in Nat /\ Local.jour \in Nat /\ wall + tz = Local.jour * Jour + Local.heure
  BY <1>0, NombresFait, TempsFait
<1>2. Local'.heure = (wall' + tz) % Jour
  BY <1>0 DEF Local
<1>3. \A n \in dus' : n \in Nums /\ Planifs[n].debut = Local'.heure
  BY <1>2 DEF Tick
<1>4. Ensoleille' => Local'.heure > tz /\ soleil' + tz' + ete' < (Local'.jour + 1) * Jour
  <2> SUFFICES ASSUME Ensoleille'
               PROVE  Local'.heure > tz /\ soleil + tz + ete < (Local'.jour + 1) * Jour
    BY <1>0
  <2> DEFINE d == Local.jour
             h == Local.heure
             w == wall
             s == soleil
  <2>1. w + 1 <= s
    BY <1>0 DEF Ensoleille
  <2>2. w <= s
    BY <1>1, <2>1, SMT
  <2>3. Ensoleille
    BY <2>2 DEF Ensoleille
  <2>4. h > tz /\ s + tz + ete < (d + 1) * Jour
    BY <2>3 DEF PartageInv, HeureInv
  <2>5. h + 1 < Jour
    <3> DEFINE m == d * Jour
    <3>1. m \in Nat /\ (d + 1) * Jour = m + Jour
      BY <1>1, SMT
    <3>2. /\ w + tz = m + h /\ s + tz + ete < m + Jour /\ w \in Nat /\ h \in Nat /\ s \in Int
      BY <1>1, <2>4, <3>1
    <3> HIDE DEF m, d, h, w, s
    <3> QED
      BY <1>1, <2>1, <3>1, <3>2, SMT
  <2>6. Local'.heure = h + 1 /\ Local'.jour = d
    BY <1>0, <2>5, TickFait
  <2>7. h + 1 > tz
    <3> HIDE DEF h
    <3>1. h \in Nat
      BY <1>1 DEF h
    <3> QED
      BY <1>1, <2>4, <3>1, SMT
  <2> QED
    BY <2>4, <2>6, <2>7
<1>5. HeureInv'
  <2>1. \A n \in Nums : Occupe(n)' => DansFenetre(n, Local.heure)'
    <3> SUFFICES ASSUME NEW n \in Nums, Occupe(n)'
                 PROVE  DansFenetre(n, Local'.heure)
      BY DEF DansFenetre
    <3>1. Planifs[n].debut = Local'.heure
      BY <1>0, <1>3, ThreadsFait DEF Occupe
    <3>2. Planifs[n].debut \in Nat /\ Planifs[n].period \in Nat \ {0}
      BY <1>0, HorairesFait
    <3>3. Planifs[n].debut \in Planifs[n].debut .. (Planifs[n].debut + Planifs[n].period - 1)
      BY <3>2, SMT
    <3> QED
      BY <3>1, <3>3 DEF DansFenetre
  <2> QED
    BY <1>0, <1>4, <2>1, ThreadsFait DEF HeureInv
<1>6. dus' # {} => Local'.heure > tz
  <2> SUFFICES ASSUME NEW n \in dus' PROVE Local'.heure > tz
    OBVIOUS
  <2>1. n \in Nums /\ Planifs[n].debut = Local'.heure
    BY <1>3
  <2>2. tz < Planifs[n].debut /\ Planifs[n].debut \in Nat
    BY <1>0, <2>1, HorairesFait
  <2> DEFINE h == Planifs[n].debut
  <2>3. h > tz
    <3>1. h \in Nat /\ tz < h
      BY <2>2
    <3> HIDE DEF h
    <3> QED
      BY <1>1, <3>1, SMT
  <2> QED
    BY <2>1, <2>3
<1>7. JourInv'
  <2>1. ~(Local'.heure = tz /\ Local'.heure > tz)
    <3>1. ~(tz > tz)
      BY <1>1, SMT
    <3> QED
      BY <3>1
  <2>2. Utc'.jour # sLastDay => dus' = {} /\ ~Ensoleille'
    BY <1>0, <1>4, <1>6, <2>1, TickFait
  <2>3. \A x \in Threads : pc'[x] = "repos"
    BY <1>0
  <2> QED
    BY <1>0, <2>2, <2>3, ThreadsFait DEF JourInv, Seul, Planifie
<1>8. RetardInv' /\ TmInv' /\ PlanTmInv' /\ ParamInv'
  BY <1>0, ThreadsFait
  DEF PartageInv, RetardInv, TmInv, TmDe, FraisDe, PlanTmInv, ParamInv, Apres1, Apres2, Apres3
<1>9. HeureDuPlan' /\ EcartBorne' /\ ParametresEntiers' /\ ete' <= tz'
  BY <1>0 DEF PartageInv, HeureDuPlan, EcartBorne, ParametresEntiers
<1> QED
  BY <1>5, <1>7, <1>8, <1>9 DEF PartageInv

LEMMA InitPartageInv ==
  ASSUME Init
  PROVE  PartageInv
<1>1. TypeOK
  <2>1. /\ 0 \in 0..Cardinality(Numeros) /\ 0 \in Int /\ -1 \in Int
        /\ \A w \in 0..(Jour - 1) : w \in 0..Duree
    <3>1. Cardinality(Numeros) \in Nat /\ Jour \in Nat /\ Duree \in Nat /\ Jour <= Duree
      BY PartageAssumption, FS_CardinalityType
    <3> QED
      BY <3>1, SMT
  <2>2. pc \in [Threads -> Etapes] /\ param \in [Numeros -> BOOLEAN]
        /\ lu \in [Threads -> Tm] /\ stTm \in Tm
    BY VideFait DEF Init, Etapes
  <2> QED
    BY <2>1, <2>2 DEF Init, TypeOK, Etapes
<1>2. ~Ensoleille
  <2>1. wall \in Nat /\ soleil = -1
    BY <1>1, NombresFait DEF Init
  <2> QED
    BY <2>1, SMT DEF Ensoleille
<1>3. Seul /\ pc[Principal] = "gmtime" /\ \A x \in Autres : pc[x] = "repos"
  BY <1>2, ThreadsFait DEF Init, Seul
<1>4. \A n \in Nums : ~Occupe(n)
  BY <1>3, ThreadsFait DEF Seul, Occupe
<1>5. HeureInv /\ RetardInv
  BY <1>2, <1>3, <1>4, ThreadsFait DEF HeureInv, RetardInv, Tardif
<1>6. JourInv /\ TmInv /\ PlanTmInv
  BY <1>3
  DEF JourInv, TmInv, TmDe, FraisDe, PlanTmInv, Planifie, Apres1, Apres2, Apres3
<1>7. ParamInv /\ HeureDuPlan /\ ParametresEntiers
  BY <1>3, ThreadsFait DEF Init, ParamInv, HeureDuPlan, ParametresEntiers
<1>8. EcartBorne
  <2>1. 0 + 0 = 0
    BY SMT
  <2>2. \A x \in Threads : ecart[x] = 0
    BY DEF Init
  <2> QED
    BY <2>1, <2>2 DEF EcartBorne
<1>9. ete <= tz
  BY DEF Init
<1> QED
  BY <1>1, <1>5, <1>6, <1>7, <1>8, <1>9 DEF PartageInv

LEMMA NextPartageInv ==
  ASSUME Horaires
  PROVE  PartageInv /\ [Next]_vars => PartageInv'
<1> SUFFICES ASSUME PartageInv, [Next]_vars PROVE PartageInv'
  OBVIOUS
<1>0. /\ Threads = Autres \cup {Principal} /\ Nums \subseteq Autres /\ Soleil \in Autres
      /\ TypeOK'
  BY ThreadsFait, TypeSuit DEF PartageInv
<1>1. CASE gmtime
  BY <1>0, <1>1, PrincipalGmtime
<1>2. CASE Reveil
  BY <1>0, <1>2, PrincipalReveil
<1>3. CASE Comparer
  BY <1>0, <1>3, PrincipalCompare
<1>4. CASE Changer \/ pstInit
  BY <1>0, <1>4, PrincipalChange
<1>5. CASE Planifier
  BY <1>0, <1>5, PrincipalPlanifie
<1>6. CASE \E x \in Threads : localtime(x) \/ Minuit(x) \/ Mktime(x)
  BY <1>0, <1>6, PrincipalHeure, AutreLocaltime, AutreMinuit, AutreMktime
<1>7. CASE \E n \in Nums : LancerProfil(n)
  BY <1>0, <1>7, AutreCommence
<1>8. CASE \E n \in Nums : FinLanceur(n)
  BY <1>0, <1>8, AutreFinLanceur
<1>9. CASE iGererCourbe
  <2>1. UNCHANGED <<reste, wall, zone, sLastDay, num, param, copie, dus, soleil>>
    BY <1>9 DEF iGererCourbe, reste
  <2>2. CASE /\ pc[Soleil] = "repos" /\ Ensoleille /\ Aller(Soleil, "localtime")
             /\ UNCHANGED <<tm, ecart>>
    BY <1>0, <2>1, <2>2, AutreCommence
  <2>3. CASE Rendre(Soleil, "repos")
    BY <1>0, <2>1, <2>3, AutreRendre
  <2> QED
    BY <1>9, <2>2, <2>3 DEF iGererCourbe
<1>10. CASE Tick
  BY <1>0, <1>10, TickPartageInv
<1>11. CASE UNCHANGED vars
  <2>1. UNCHANGED <<wall, zone, stTm, verrou, lu, pc, ecart, sLastDay, num, param, copie,
                    dus, soleil>>
    BY <1>11 DEF vars, tm, reste
  <2>2. /\ Utc' = Utc /\ Local' = Local /\ Ensoleille' = Ensoleille /\ ete' = ete /\ tz' = tz
    BY <2>1, Fige
  <2> QED
    BY <1>0, <2>1, <2>2
    DEF PartageInv, JourInv, Seul, HeureInv, Occupe, DansFenetre, RetardInv, Tardif, Frais,
        TmInv, TmDe, FraisDe, Juste, PlanTmInv, ParamInv, HeureDuPlan, EcartBorne,
        ParametresEntiers
<1> QED
  BY <1>1, <1>2, <1>3, <1>4, <1>5, <1>6, <1>7, <1>8, <1>9, <1>10, <1>11 DEF Next

\* The variables keep the kinds of values the code gives them.
THEOREM PartageTypeOK == Spec => []TypeOK
<1>1. Init => TypeOK
  BY InitPartageInv DEF PartageInv
<1>2. TypeOK /\ [Next]_vars => TypeOK'
  BY TypeSuit
<1> QED
  BY <1>1, <1>2, PTL DEF Spec

\* The planner reads the exact local time (MainTache.cpp:153), if the hours of
\* the table are as Horaires says.
THEOREM PartageHeureDuPlan ==
  ASSUME Horaires PROVE Spec => []HeureDuPlan
<1>1. PartageInv => HeureDuPlan
  BY DEF PartageInv
<1> QED
  BY <1>1, InitPartageInv, NextPartageInv, PTL DEF Spec

\* With such hours, a launcher or a sun is wrong by the offset of the time zone
\* and by summer time at most (General.cpp:33-46, MainTache.cpp:249,
\* Soleil.cpp:65).
THEOREM PartageEcartBorne ==
  ASSUME Horaires PROVE Spec => []EcartBorne
<1>1. PartageInv => EcartBorne
  BY DEF PartageInv
<1> QED
  BY <1>1, InitPartageInv, NextPartageInv, PTL DEF Spec

\* With such hours, no CProfil copies parameters that are cleared
\* (BaseSqlite.cpp:26, Profil.cpp:25-31).
THEOREM PartageParametresEntiers ==
  ASSUME Horaires PROVE Spec => []ParametresEntiers
<1>1. PartageInv => ParametresEntiers
  BY DEF PartageInv
<1> QED
  BY <1>1, InitPartageInv, NextPartageInv, PTL DEF Spec

\* With such hours, the day the planner takes down is the UTC day, whatever the
\* other threads have put in stTm since gmtime (MainTache.cpp:95-102).
THEOREM PartageJourUtc ==
  ASSUME Horaires PROVE Spec => JourUtc
<1>1. PartageInv /\ [Next]_vars => [sLastDay' # sLastDay => sLastDay' = Utc.jour]_vars
  <2> SUFFICES ASSUME PartageInv, Next, sLastDay' # sLastDay
               PROVE  sLastDay' = Utc.jour
    OBVIOUS
  <2>1. Changer
    BY DEF Next, gmtime, Reveil, Comparer, pstInit, Planifier, localtime, Minuit, Mktime,
           LancerProfil, FinLanceur, iGererCourbe, Tick, reste
  <2> QED
    BY <2>1 DEF Changer, PartageInv, JourInv
<1> QED
  BY <1>1, InitPartageInv, NextPartageInv, PTL DEF Spec, JourUtc
=============================================================================
