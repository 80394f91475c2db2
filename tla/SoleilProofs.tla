---------------------------- MODULE SoleilProofs ----------------------------
(***************************************************************************)
(* The sun's thread follows the curve whatever the time at which it        *)
(* begins, as long as it is woken up at most a second late: the values of  *)
(* the curve are concave, so each of its lines is the least of all from    *)
(* the start of its segment to its end, the end included, and an index is  *)
(* kept only while the next wake-up is due before that end.                *)
(***************************************************************************)
EXTENDS Soleil, TLAPS

-----------------------------------------------------------------------------
(***************************************************************************)
(* The table of the segments.                                              *)
(***************************************************************************)

LEMMA Longueur == Len(Droites) = 8
  BY SMT DEF Droites

\* The fields of the eight lines.
LEMMA Heures ==
  /\ Droites[1].h = 1 /\ Droites[2].h = 2 /\ Droites[3].h = 2 /\ Droites[4].h = 1
  /\ Droites[5].h = 1 /\ Droites[6].h = 2 /\ Droites[7].h = 2 /\ Droites[8].h = 1
  BY SMT DEF Droites

LEMMA Intervalles ==
  /\ Droites[1].x = 1  /\ Droites[2].x = 1  /\ Droites[3].x = 60 /\ Droites[4].x = 30
  /\ Droites[5].x = 30 /\ Droites[6].x = 60 /\ Droites[7].x = 1  /\ Droites[8].x = 1
  BY SMT DEF Droites

LEMMA Coefficients ==
  /\ Droites[1].a = 75  /\ Droites[2].a = 30  /\ Droites[3].a = 15  /\ Droites[4].a = 10
  /\ Droites[5].a = -10 /\ Droites[6].a = -15 /\ Droites[7].a = -30 /\ Droites[8].a = -75
  /\ Droites[1].b = 25  /\ Droites[2].b = 70  /\ Droites[3].b = 115 /\ Droites[4].b = 140
  /\ Droites[5].b = 260 /\ Droites[6].b = 295 /\ Droites[7].b = 430 /\ Droites[8].b = 925
  BY SMT DEF Droites

\* The times at which the segments begin.
Debut == [i \in 1..8 |->
  CASE i = 1 -> 28800 [] i = 2 -> 32400 [] i = 3 -> 39600 [] i = 4 -> 46800
    [] i = 5 -> 50400 [] i = 6 -> 54000 [] i = 7 -> 61200 [] i = 8 -> 68400]

\* Debuts is the function that its recursive definition describes: there is
\* one, and it is Debut.
LEMMA DebutsDefini ==
  /\ Debuts[1] = stEphemeride.debut
  /\ \A i \in 2..8 : Debuts[i] = Debuts[i - 1] + Droites[i - 1].h * HEURE
<1> DEFINE F(g) == [i \in 1..Len(Droites) |->
                      IF i = 1 THEN stEphemeride.debut
                      ELSE g[i - 1] + Droites[i - 1].h * HEURE]
<1>1. Debut = F(Debut)
  <2>1. ASSUME NEW i \in 1..8
        PROVE  Debut[i] = IF i = 1 THEN stEphemeride.debut
                          ELSE Debut[i - 1] + Droites[i - 1].h * HEURE
    BY Heures, SMT DEF Debut, stEphemeride, HEURE
  <2>2. Debut = [i \in 1..8 |-> Debut[i]]
    BY DEF Debut
  <2>3. F(Debut) = [i \in 1..8 |-> Debut[i]]
    BY <2>1, Longueur, Zenon
  <2> QED
    BY <2>2, <2>3
<1>2. \E g : g = F(g)
  BY <1>1
<1> HIDE DEF F
<1>3. Debuts = CHOOSE g : g = F(g)
  BY DEF Debuts, F
<1>4. Debuts = F(Debuts)
  BY <1>2, <1>3
<1>5. ASSUME NEW i \in 1..8
      PROVE  Debuts[i] = IF i = 1 THEN stEphemeride.debut
                         ELSE Debuts[i - 1] + Droites[i - 1].h * HEURE
  <2>1. F(Debuts)[i] = IF i = 1 THEN stEphemeride.debut
                       ELSE Debuts[i - 1] + Droites[i - 1].h * HEURE
    BY Longueur DEF F
  <2> QED
    BY <1>4, <2>1
<1>6. 1 \in 1..8 /\ \A i \in 2..8 : i \in 1..8 /\ i # 1
  BY SMT
<1> QED
  BY <1>5, <1>6

LEMMA DebutsValeurs ==
  /\ Debuts[1] = 28800 /\ Debuts[2] = 32400 /\ Debuts[3] = 39600 /\ Debuts[4] = 46800
  /\ Debuts[5] = 50400 /\ Debuts[6] = 54000 /\ Debuts[7] = 61200 /\ Debuts[8] = 68400
<1>1. /\ Debuts[2] = Debuts[2 - 1] + Droites[2 - 1].h * HEURE
      /\ Debuts[3] = Debuts[3 - 1] + Droites[3 - 1].h * HEURE
      /\ Debuts[4] = Debuts[4 - 1] + Droites[4 - 1].h * HEURE
      /\ Debuts[5] = Debuts[5 - 1] + Droites[5 - 1].h * HEURE
      /\ Debuts[6] = Debuts[6 - 1] + Droites[6 - 1].h * HEURE
      /\ Debuts[7] = Debuts[7 - 1] + Droites[7 - 1].h * HEURE
      /\ Debuts[8] = Debuts[8 - 1] + Droites[8 - 1].h * HEURE
  <2>1. {2, 3, 4, 5, 6, 7, 8} \subseteq 2..8
    BY SMT
  <2> QED
    BY <2>1, DebutsDefini
<1>2. Debuts[1] = 28800
  BY DebutsDefini, SMT DEF stEphemeride, HEURE
<1> QED
  BY <1>1, <1>2, Heures, SMT DEF HEURE

\* What the thread uses of a segment: [d, f) in seconds, x, and the value of its
\* line s seconds after the start of the curve.
EstSegment(i, d, f, x, a, b) ==
  /\ lSegment[i].debut = d /\ Fin(i) = f /\ lSegment[i].x = x
  /\ \A t \in Int : Affine(i, t) = a * (t - 28800) + b

LEMMA Tableau ==
  /\ Segments = 1..8
  /\ EstSegment(1, 28800, 32400, 1,   75,   90000)
  /\ EstSegment(2, 32400, 39600, 1,   30,  252000)
  /\ EstSegment(3, 39600, 46800, 60,  15,  414000)
  /\ EstSegment(4, 46800, 50400, 30,  10,  504000)
  /\ EstSegment(5, 50400, 54000, 30, -10,  936000)
  /\ EstSegment(6, 54000, 61200, 60, -15, 1062000)
  /\ EstSegment(7, 61200, 68400, 1,  -30, 1548000)
  /\ EstSegment(8, 68400, 72000, 1,  -75, 3330000)
<1>1. Segments = 1..8
  BY Longueur DEF Segments, lSegment
<1>2. ASSUME NEW i \in 1..8
      PROVE  lSegment[i] = [debut |-> Debuts[i], period |-> Droites[i].h * HEURE,
                            x |-> Droites[i].x, a |-> Droites[i].a, b |-> Droites[i].b]
  BY Longueur DEF lSegment
<1>3. ASSUME NEW i \in 1..8, NEW t \in Int
      PROVE  /\ lSegment[i].debut = Debuts[i] /\ lSegment[i].x = Droites[i].x
             /\ Fin(i) = Debuts[i] + Droites[i].h * HEURE
             /\ Affine(i, t) = Droites[i].a * (t - stEphemeride.debut) + 3600 * Droites[i].b
  BY <1>2 DEF Fin, Affine
<1>4. {1, 2, 3, 4, 5, 6, 7, 8} = 1..8
  BY SMT
<1>5. stEphemeride.debut = 28800 /\ HEURE = 3600
  BY SMT DEF stEphemeride, HEURE
<1>6. \A i \in {1, 2, 3, 4, 5, 6, 7, 8} :
        EstSegment(i, Debuts[i], Debuts[i] + Droites[i].h * 3600, Droites[i].x,
                   Droites[i].a, 3600 * Droites[i].b)
  BY <1>3, <1>4, <1>5 DEF EstSegment
<1>7. EstSegment(1, 28800, 32400, 1, 75, 90000)
  <2>1. EstSegment(1, Debuts[1], Debuts[1] + Droites[1].h * 3600, Droites[1].x,
                   Droites[1].a, 3600 * Droites[1].b)
    BY <1>6
  <2>2. Debuts[1] + Droites[1].h * 3600 = 32400 /\ 3600 * Droites[1].b = 90000
    BY DebutsValeurs, Heures, Coefficients, SMT
  <2> QED
    BY <2>1, <2>2, DebutsValeurs, Intervalles, Coefficients
<1>8. EstSegment(2, 32400, 39600, 1, 30, 252000)
  <2>1. EstSegment(2, Debuts[2], Debuts[2] + Droites[2].h * 3600, Droites[2].x,
                   Droites[2].a, 3600 * Droites[2].b)
    BY <1>6
  <2>2. Debuts[2] + Droites[2].h * 3600 = 39600 /\ 3600 * Droites[2].b = 252000
    BY DebutsValeurs, Heures, Coefficients, SMT
  <2> QED
    BY <2>1, <2>2, DebutsValeurs, Intervalles, Coefficients
<1>9. EstSegment(3, 39600, 46800, 60, 15, 414000)
  <2>1. EstSegment(3, Debuts[3], Debuts[3] + Droites[3].h * 3600, Droites[3].x,
                   Droites[3].a, 3600 * Droites[3].b)
    BY <1>6
  <2>2. Debuts[3] + Droites[3].h * 3600 = 46800 /\ 3600 * Droites[3].b = 414000
    BY DebutsValeurs, Heures, Coefficients, SMT
  <2> QED
    BY <2>1, <2>2, DebutsValeurs, Intervalles, Coefficients
<1>10. EstSegment(4, 46800, 50400, 30, 10, 504000)
  <2>1. EstSegment(4, Debuts[4], Debuts[4] + Droites[4].h * 3600, Droites[4].x,
                   Droites[4].a, 3600 * Droites[4].b)
    BY <1>6
  <2>2. Debuts[4] + Droites[4].h * 3600 = 50400 /\ 3600 * Droites[4].b = 504000
    BY DebutsValeurs, Heures, Coefficients, SMT
  <2> QED
    BY <2>1, <2>2, DebutsValeurs, Intervalles, Coefficients
<1>11. EstSegment(5, 50400, 54000, 30, -10, 936000)
  <2>1. EstSegment(5, Debuts[5], Debuts[5] + Droites[5].h * 3600, Droites[5].x,
                   Droites[5].a, 3600 * Droites[5].b)
    BY <1>6
  <2>2. Debuts[5] + Droites[5].h * 3600 = 54000 /\ 3600 * Droites[5].b = 936000
    BY DebutsValeurs, Heures, Coefficients, SMT
  <2> QED
    BY <2>1, <2>2, DebutsValeurs, Intervalles, Coefficients
<1>12. EstSegment(6, 54000, 61200, 60, -15, 1062000)
  <2>1. EstSegment(6, Debuts[6], Debuts[6] + Droites[6].h * 3600, Droites[6].x,
                   Droites[6].a, 3600 * Droites[6].b)
    BY <1>6
  <2>2. Debuts[6] + Droites[6].h * 3600 = 61200 /\ 3600 * Droites[6].b = 1062000
    BY DebutsValeurs, Heures, Coefficients, SMT
  <2> QED
    BY <2>1, <2>2, DebutsValeurs, Intervalles, Coefficients
<1>13. EstSegment(7, 61200, 68400, 1, -30, 1548000)
  <2>1. EstSegment(7, Debuts[7], Debuts[7] + Droites[7].h * 3600, Droites[7].x,
                   Droites[7].a, 3600 * Droites[7].b)
    BY <1>6
  <2>2. Debuts[7] + Droites[7].h * 3600 = 68400 /\ 3600 * Droites[7].b = 1548000
    BY DebutsValeurs, Heures, Coefficients, SMT
  <2> QED
    BY <2>1, <2>2, DebutsValeurs, Intervalles, Coefficients
<1>14. EstSegment(8, 68400, 72000, 1, -75, 3330000)
  <2>1. EstSegment(8, Debuts[8], Debuts[8] + Droites[8].h * 3600, Droites[8].x,
                   Droites[8].a, 3600 * Droites[8].b)
    BY <1>6
  <2>2. Debuts[8] + Droites[8].h * 3600 = 72000 /\ 3600 * Droites[8].b = 3330000
    BY DebutsValeurs, Heures, Coefficients, SMT
  <2> QED
    BY <2>1, <2>2, DebutsValeurs, Intervalles, Coefficients
<1> QED
  BY <1>1, <1>7, <1>8, <1>9, <1>10, <1>11, <1>12, <1>13, <1>14

\* The table as a relation between numbers: v is the value at t of line i.
Ligne(i, t, d, f, x, v) ==
  \/ i = 1 /\ d = 28800 /\ f = 32400 /\ x = 1 /\ v = 75 * (t - 28800) + 90000
  \/ i = 2 /\ d = 32400 /\ f = 39600 /\ x = 1 /\ v = 30 * (t - 28800) + 252000
  \/ i = 3 /\ d = 39600 /\ f = 46800 /\ x = 60 /\ v = 15 * (t - 28800) + 414000
  \/ i = 4 /\ d = 46800 /\ f = 50400 /\ x = 30 /\ v = 10 * (t - 28800) + 504000
  \/ i = 5 /\ d = 50400 /\ f = 54000 /\ x = 30 /\ v = -10 * (t - 28800) + 936000
  \/ i = 6 /\ d = 54000 /\ f = 61200 /\ x = 60 /\ v = -15 * (t - 28800) + 1062000
  \/ i = 7 /\ d = 61200 /\ f = 68400 /\ x = 1 /\ v = -30 * (t - 28800) + 1548000
  \/ i = 8 /\ d = 68400 /\ f = 72000 /\ x = 1 /\ v = -75 * (t - 28800) + 3330000

LEMMA LigneDuSegment ==
  ASSUME NEW i \in Segments, NEW t \in Int
  PROVE  Ligne(i, t, lSegment[i].debut, Fin(i), lSegment[i].x, Affine(i, t))
<1>0. i \in {1, 2, 3, 4, 5, 6, 7, 8}
  BY Tableau, SMT
<1>1. CASE i = 1
  <2>1. EstSegment(1, 28800, 32400, 1, 75, 90000)
    BY Tableau
  <2>2. /\ lSegment[i].debut = 28800 /\ Fin(i) = 32400 /\ lSegment[i].x = 1
        /\ Affine(i, t) = 75 * (t - 28800) + 90000
    BY <1>1, <2>1, SMT DEF EstSegment
  <2> QED
    BY <1>1, <2>2, SMT DEF Ligne
<1>2. CASE i = 2
  <2>1. EstSegment(2, 32400, 39600, 1, 30, 252000)
    BY Tableau
  <2>2. /\ lSegment[i].debut = 32400 /\ Fin(i) = 39600 /\ lSegment[i].x = 1
        /\ Affine(i, t) = 30 * (t - 28800) + 252000
    BY <1>2, <2>1, SMT DEF EstSegment
  <2> QED
    BY <1>2, <2>2, SMT DEF Ligne
<1>3. CASE i = 3
  <2>1. EstSegment(3, 39600, 46800, 60, 15, 414000)
    BY Tableau
  <2>2. /\ lSegment[i].debut = 39600 /\ Fin(i) = 46800 /\ lSegment[i].x = 60
        /\ Affine(i, t) = 15 * (t - 28800) + 414000
    BY <1>3, <2>1, SMT DEF EstSegment
  <2> QED
    BY <1>3, <2>2, SMT DEF Ligne
<1>4. CASE i = 4
  <2>1. EstSegment(4, 46800, 50400, 30, 10, 504000)
    BY Tableau
  <2>2. /\ lSegment[i].debut = 46800 /\ Fin(i) = 50400 /\ lSegment[i].x = 30
        /\ Affine(i, t) = 10 * (t - 28800) + 504000
    BY <1>4, <2>1, SMT DEF EstSegment
  <2> QED
    BY <1>4, <2>2, SMT DEF Ligne
<1>5. CASE i = 5
  <2>1. EstSegment(5, 50400, 54000, 30, -10, 936000)
    BY Tableau
  <2>2. /\ lSegment[i].debut = 50400 /\ Fin(i) = 54000 /\ lSegment[i].x = 30
        /\ Affine(i, t) = -10 * (t - 28800) + 936000
    BY <1>5, <2>1, SMT DEF EstSegment
  <2> QED
    BY <1>5, <2>2, SMT DEF Ligne
<1>6. CASE i = 6
  <2>1. EstSegment(6, 54000, 61200, 60, -15, 1062000)
    BY Tableau
  <2>2. /\ lSegment[i].debut = 54000 /\ Fin(i) = 61200 /\ lSegment[i].x = 60
        /\ Affine(i, t) = -15 * (t - 28800) + 1062000
    BY <1>6, <2>1, SMT DEF EstSegment
  <2> QED
    BY <1>6, <2>2, SMT DEF Ligne
<1>7. CASE i = 7
  <2>1. EstSegment(7, 61200, 68400, 1, -30, 1548000)
    BY Tableau
  <2>2. /\ lSegment[i].debut = 61200 /\ Fin(i) = 68400 /\ lSegment[i].x = 1
        /\ Affine(i, t) = -30 * (t - 28800) + 1548000
    BY <1>7, <2>1, SMT DEF EstSegment
  <2> QED
    BY <1>7, <2>2, SMT DEF Ligne
<1>8. CASE i = 8
  <2>1. EstSegment(8, 68400, 72000, 1, -75, 3330000)
    BY Tableau
  <2>2. /\ lSegment[i].debut = 68400 /\ Fin(i) = 72000 /\ lSegment[i].x = 1
        /\ Affine(i, t) = -75 * (t - 28800) + 3330000
    BY <1>8, <2>1, SMT DEF EstSegment
  <2> QED
    BY <1>8, <2>2, SMT DEF Ligne
<1> QED
  BY <1>0, <1>1, <1>2, <1>3, <1>4, <1>5, <1>6, <1>7, <1>8

\* On its segment the light is above 12 and at most 100 per cent, and the numbers
\* are of the kinds expected.
LEMMA LigneBornee ==
  ASSUME NEW i, NEW t \in Int, NEW d, NEW f, NEW x, NEW v, Ligne(i, t, d, f, x, v)
  PROVE  /\ i \in Nat /\ i # 0 /\ i <= 8
         /\ d \in Int /\ f \in Int /\ v \in Int /\ x \in {1, 30, 60}
         /\ 28800 <= d /\ f <= 72000
         /\ d <= t /\ t <= f => 90000 <= v /\ v <= 720000
  BY SMT DEF Ligne

\* The curve is concave: from the start of a segment to its end, included, no
\* other line is below the segment's own.
LEMMA LigneConcave ==
  ASSUME NEW t \in Int,
         NEW i, NEW d, NEW f, NEW x, NEW v, Ligne(i, t, d, f, x, v),
         NEW j, NEW dj, NEW fj, NEW xj, NEW w, Ligne(j, t, dj, fj, xj, w),
         d <= t, t <= f
  PROVE  v <= w
  BY SMT DEF Ligne

\* A segment begins where another ends.
LEMMA LigneSeule ==
  ASSUME NEW t \in Int,
         NEW i, NEW d, NEW f, NEW x, NEW v, Ligne(i, t, d, f, x, v),
         NEW j, NEW dj, NEW fj, NEW xj, NEW w, Ligne(j, t, dj, fj, xj, w),
         d <= t, t < f, dj <= t, t < fj
  PROVE  i = j
  BY SMT DEF Ligne

\* What the proofs below use of each segment.
LEMMA Segment ==
  ASSUME NEW i \in Segments, NEW t \in Int
  PROVE  /\ i \in Nat /\ i # 0 /\ i <= 8
         /\ lSegment[i].debut \in Int /\ Fin(i) \in Int /\ Affine(i, t) \in Int
         /\ lSegment[i].x \in {1, 30, 60}
         /\ 28800 <= lSegment[i].debut /\ Fin(i) <= 72000
         /\ lSegment[i].debut <= t /\ t <= Fin(i) =>
              90000 <= Affine(i, t) /\ Affine(i, t) <= 720000
<1>1. Ligne(i, t, lSegment[i].debut, Fin(i), lSegment[i].x, Affine(i, t))
  BY LigneDuSegment
<1>2. \A d, f, x, v : Ligne(i, t, d, f, x, v) =>
        /\ i \in Nat /\ i # 0 /\ i <= 8
        /\ d \in Int /\ f \in Int /\ v \in Int /\ x \in {1, 30, 60}
        /\ 28800 <= d /\ f <= 72000
        /\ d <= t /\ t <= f => 90000 <= v /\ v <= 720000
  BY LigneBornee
<1> QED
  BY <1>1, <1>2, SMT

-----------------------------------------------------------------------------
(***************************************************************************)
(* The curve.                                                              *)
(***************************************************************************)

LEMMA CourbeDuSegment ==
  ASSUME NEW i \in Segments, NEW t \in Int, lSegment[i].debut <= t, t <= Fin(i)
  PROVE  /\ Courbe(t) = Affine(i, t)
         /\ 90000 <= Affine(i, t) /\ Affine(i, t) <= 720000
<1> DEFINE S == {Affine(j, t) : j \in Segments}
<1>1. S \subseteq Int
  BY Segment
<1>2. \A v \in S : Affine(i, t) <= v
  <2> SUFFICES ASSUME NEW j \in Segments PROVE Affine(i, t) <= Affine(j, t)
    OBVIOUS
  <2>1. /\ Ligne(i, t, lSegment[i].debut, Fin(i), lSegment[i].x, Affine(i, t))
        /\ Ligne(j, t, lSegment[j].debut, Fin(j), lSegment[j].x, Affine(j, t))
    BY LigneDuSegment
  <2> QED
    BY <2>1, LigneConcave
<1>3. \A v \in S : (\A w \in S : v <= w) => v = Affine(i, t)
  <2> SUFFICES ASSUME NEW v \in S, \A w \in S : v <= w PROVE v = Affine(i, t)
    OBVIOUS
  <2>1. v <= Affine(i, t) /\ Affine(i, t) <= v /\ v \in Int /\ Affine(i, t) \in Int
    BY <1>1, <1>2, Zenon
  <2> QED
    BY <2>1, SMT
<1>4. Affine(i, t) \in S
  OBVIOUS
<1> HIDE DEF S
<1>5. Min(S) = Affine(i, t)
  BY <1>2, <1>3, <1>4, Zenon DEF Min
<1>6. Courbe(t) = Min(S)
  BY DEF Courbe, S
<1> QED
  BY <1>5, <1>6, Segment

-----------------------------------------------------------------------------
(***************************************************************************)
(* The search for a segment.                                               *)
(***************************************************************************)

\* The segments leave no time of the curve out: if t is not before the end of
\* one that has begun, it is not before the start of the next.
LEMMA LigneCouvre ==
  ASSUME NEW t \in Int, 28800 <= t, t < 72000
  PROVE  \E i \in {1, 2, 3, 4, 5, 6, 7, 8} :
           \A d, f, x, v : Ligne(i, t, d, f, x, v) => d <= t /\ t < f
<1>1. CASE t < 32400
  <2>1. \A d, f, x, v : Ligne(1, t, d, f, x, v) => d <= t /\ t < f
    BY <1>1, SMT DEF Ligne
  <2> QED
    BY <2>1
<1>2. CASE 32400 <= t /\ t < 39600
  <2>1. \A d, f, x, v : Ligne(2, t, d, f, x, v) => d <= t /\ t < f
    BY <1>2, SMT DEF Ligne
  <2> QED
    BY <2>1
<1>3. CASE 39600 <= t /\ t < 46800
  <2>1. \A d, f, x, v : Ligne(3, t, d, f, x, v) => d <= t /\ t < f
    BY <1>3, SMT DEF Ligne
  <2> QED
    BY <2>1
<1>4. CASE 46800 <= t /\ t < 50400
  <2>1. \A d, f, x, v : Ligne(4, t, d, f, x, v) => d <= t /\ t < f
    BY <1>4, SMT DEF Ligne
  <2> QED
    BY <2>1
<1>5. CASE 50400 <= t /\ t < 54000
  <2>1. \A d, f, x, v : Ligne(5, t, d, f, x, v) => d <= t /\ t < f
    BY <1>5, SMT DEF Ligne
  <2> QED
    BY <2>1
<1>6. CASE 54000 <= t /\ t < 61200
  <2>1. \A d, f, x, v : Ligne(6, t, d, f, x, v) => d <= t /\ t < f
    BY <1>6, SMT DEF Ligne
  <2> QED
    BY <2>1
<1>7. CASE 61200 <= t /\ t < 68400
  <2>1. \A d, f, x, v : Ligne(7, t, d, f, x, v) => d <= t /\ t < f
    BY <1>7, SMT DEF Ligne
  <2> QED
    BY <2>1
<1>8. CASE 68400 <= t
  <2>1. \A d, f, x, v : Ligne(8, t, d, f, x, v) => d <= t /\ t < f
    BY <1>8, SMT DEF Ligne
  <2> QED
    BY <2>1
<1> QED
  BY <1>1, <1>2, <1>3, <1>4, <1>5, <1>6, <1>7, <1>8, SMT

\* The segment that is found contains the time, and one is found all through
\* the curve.
LEMMA ChercherTrouve ==
  ASSUME NEW t \in Int
  PROVE  /\ Chercher(t) = 0 \/ ( /\ Chercher(t) \in Segments
                                 /\ lSegment[Chercher(t)].debut <= t
                                 /\ t <= Fin(Chercher(t)))
         /\ 28800 <= t /\ t < 72000 => Chercher(t) # 0
<1> DEFINE ici == {i \in Segments : lSegment[i].debut <= t /\ t < Fin(i)}
<1>1. \A i, j \in ici : i = j
  <2> SUFFICES ASSUME NEW i \in ici, NEW j \in ici PROVE i = j
    OBVIOUS
  <2>1. /\ Ligne(i, t, lSegment[i].debut, Fin(i), lSegment[i].x, Affine(i, t))
        /\ Ligne(j, t, lSegment[j].debut, Fin(j), lSegment[j].x, Affine(j, t))
    BY LigneDuSegment
  <2>2. /\ lSegment[i].debut <= t /\ t < Fin(i)
        /\ lSegment[j].debut <= t /\ t < Fin(j)
    OBVIOUS
  <2> QED
    BY <2>1, <2>2, LigneSeule
<1>2. ASSUME 28800 <= t, t < 72000 PROVE ici # {}
  <2>1. PICK i \in {1, 2, 3, 4, 5, 6, 7, 8} :
          \A d, f, x, v : Ligne(i, t, d, f, x, v) => d <= t /\ t < f
    BY <1>2, LigneCouvre
  <2>2. i \in Segments
    BY Tableau, SMT
  <2>3. Ligne(i, t, lSegment[i].debut, Fin(i), lSegment[i].x, Affine(i, t))
    BY <2>2, LigneDuSegment
  <2>4. lSegment[i].debut <= t /\ t < Fin(i)
    BY <2>1, <2>3
  <2> QED
    BY <2>2, <2>4
<1>3. CASE ici = {}
  BY <1>2, <1>3 DEF Chercher
<1>4. CASE ici # {}
  <2>1. PICK i \in ici : TRUE
    BY <1>4
  <2>2. /\ i \in Segments /\ i \in Nat /\ i # 0 /\ Fin(i) \in Int
        /\ lSegment[i].debut <= t /\ t < Fin(i)
    BY Segment
  <2>3. i <= i /\ t <= Fin(i)
    BY <2>2, SMT
  <2>4. Min(ici) = i
    BY <1>1, <2>3, Zenon DEF Min
  <2>5. Chercher(t) = i
    BY <1>4, <2>4 DEF Chercher
  <2> QED
    BY <2>2, <2>3, <2>5
<1> QED
  BY <1>3, <1>4

-----------------------------------------------------------------------------
(***************************************************************************)
(* The invariant.                                                          *)
(***************************************************************************)

\* A segment that is kept has begun, and the next wake-up is due before its end.
IndexInv ==
  sIndexlSegment # 0 =>
    /\ sIndexlSegment \in Segments
    /\ lSegment[sIndexlSegment].debut <= off
    /\ off + lSegment[sIndexlSegment].x < Fin(sIndexlSegment)
    /\ usIntervalleX = lSegment[sIndexlSegment].x

SoleilInv == TypeOK /\ IndexInv

LEMMA Constantes == JOUR = 86400 /\ PerCent = 7200 /\ 100 * PerCent = 720000 /\ Period = 1000
  BY SMT DEF JOUR, HEURE, PerCent, Period

LEMMA DansIntervalle ==
  ASSUME NEW a \in Int, NEW b \in Int, NEW v \in Int
  PROVE  v \in a..b <=> a <= v /\ v <= b
  BY SMT

\* The bound that lateness puts on the time of a wake-up.
LEMMA Bornes ==
  /\ Retard \in Nat /\ JOUR \in Nat
  /\ \A t \in 0..(JOUR - 1) : t \in 0..(JOUR + 60 + Retard)
  /\ \A t \in 0..(JOUR + 60 + Retard) : t \in Int /\ 0 <= t
<1>1. JOUR \in Nat
  BY Constantes, SMT
<1>2. Retard \in Nat
  BY SoleilAssumption
<1> QED
  BY <1>1, <1>2, SMT

\* The duty cycle that a value of the curve gives.
LEMMA RapportPris ==
  ASSUME NEW v \in Int, SetRapportCyclique(v)
  PROVE  /\ rapport' \in 0..(100 * PerCent) /\ haut' \in 0..Period
         /\ 90000 <= v /\ v <= 720000 =>
              /\ haut' \in 1..(Period - 1)
              /\ v < 100 * PerCent => haut' = (Period * v) \div (100 * PerCent)
<1>1. /\ rapport' = IF 0 < v /\ v < 720000 THEN v ELSE 360000
      /\ haut' = (1000 * rapport') \div 720000
  BY SMT DEF SetRapportCyclique, PerCent, Period
<1>2. rapport' \in Int /\ 0 <= rapport' /\ rapport' <= 720000
  BY <1>1, SMT
<1>3. haut' \in Int /\ 0 <= haut' /\ haut' <= 1000
  BY <1>1, <1>2, SMT
<1>4. ASSUME 90000 <= v, v <= 720000
      PROVE  1 <= haut' /\ haut' <= 999
  BY <1>1, <1>4, SMT
<1>5. ASSUME 90000 <= v, v < 720000
      PROVE  haut' = (1000 * v) \div 720000
  BY <1>1, <1>5, SMT
<1>6. /\ 100 * PerCent \in Int /\ Period \in Int /\ Period - 1 \in Int
      /\ 0 <= rapport' /\ rapport' <= 100 * PerCent
      /\ 0 <= haut' /\ haut' <= Period
      /\ 90000 <= v /\ v <= 720000 => 1 <= haut' /\ haut' <= Period - 1
  BY <1>2, <1>3, <1>4, Constantes, SMT
<1>7. 90000 <= v /\ v < 100 * PerCent => haut' = (Period * v) \div (100 * PerCent)
  BY <1>5, Constantes, SMT
<1>8. /\ rapport' \in 0..(100 * PerCent) /\ haut' \in 0..Period
      /\ 90000 <= v /\ v <= 720000 => haut' \in 1..(Period - 1)
  BY <1>2, <1>3, <1>6, DansIntervalle, SMT
<1> QED
  BY <1>7, <1>8, SMT

\* The segment that iGererCourbe uses, if any.
Choisi(t) == IF sIndexlSegment = 0 THEN Chercher(t) ELSE sIndexlSegment

LEMMA ChoisiType ==
  ASSUME SoleilInv, NEW t \in Int, off <= t
  PROVE  /\ off \in Int
         /\ Choisi(t) = 0 \/ (Choisi(t) \in Segments /\ lSegment[Choisi(t)].debut <= t)
<1>1. off \in Int
  BY Bornes DEF SoleilInv, TypeOK
<1>2. CASE sIndexlSegment = 0
  BY <1>1, <1>2, ChercherTrouve DEF Choisi
<1>3. CASE sIndexlSegment # 0
  <2>1. sIndexlSegment \in Segments /\ lSegment[sIndexlSegment].debut <= off
    BY <1>3 DEF SoleilInv, IndexInv
  <2>2. lSegment[sIndexlSegment].debut \in Int
    BY <1>1, <2>1, Segment
  <2>3. lSegment[sIndexlSegment].debut <= t
    BY <1>1, <2>1, <2>2, SMT
  <2> QED
    BY <1>1, <1>3, <2>1, <2>3 DEF Choisi
<1> QED
  BY <1>2, <1>3

\* What iGererCourbe leaves, at any time that is not before the last.
LEMMA GererInv ==
  ASSUME SoleilInv, NEW t \in Int, off <= t, iGererCourbe(t)
  PROVE  /\ sIndexlSegment' \in 0..Len(Droites) /\ seg' \in 0..Len(Droites)
         /\ usIntervalleX' \in {1, 30, 60}
         /\ y' \in Int /\ rapport' \in 0..(100 * PerCent) /\ haut' \in 0..Period
         /\ sIndexlSegment' # 0 =>
              /\ sIndexlSegment' \in Segments
              /\ lSegment[sIndexlSegment'].debut <= t
              /\ t + lSegment[sIndexlSegment'].x < Fin(sIndexlSegment')
              /\ usIntervalleX' = lSegment[sIndexlSegment'].x
<1> DEFINE i == Choisi(t)
<1>0. i = 0 \/ (i \in Segments /\ lSegment[i].debut <= t)
  BY ChoisiType
<1>1. /\ seg' = i
      /\ usIntervalleX' = IF sIndexlSegment = 0 /\ i # 0 THEN lSegment[i].x ELSE usIntervalleX
      /\ IF i = 0 THEN UNCHANGED <<y, rapport, haut>>
                  ELSE y' = Affine(i, t) /\ SetRapportCyclique(y')
      /\ sIndexlSegment' = IF i = 0 \/ t + lSegment[i].x >= Fin(i) THEN 0 ELSE i
  BY DEF iGererCourbe, Choisi
<1>2. \A j \in {0} \cup Segments : j \in 0..Len(Droites)
  BY Longueur, Tableau, SMT
<1>3. i # 0 => lSegment[i].x \in {1, 30, 60} /\ Fin(i) \in Int /\ Affine(i, t) \in Int
  BY <1>0, Segment
<1>4. sIndexlSegment # 0 => i = sIndexlSegment
  BY DEF Choisi
<1> HIDE DEF i
<1>5. CASE i = 0
  BY <1>1, <1>2, <1>5 DEF SoleilInv, TypeOK
<1>6. CASE i # 0
  <2>1. y' \in Int /\ rapport' \in 0..(100 * PerCent) /\ haut' \in 0..Period
    BY <1>1, <1>3, <1>6, RapportPris
  <2>2. usIntervalleX' = lSegment[i].x
    BY <1>1, <1>4, <1>6 DEF SoleilInv, IndexInv
  <2>3. lSegment[i].x \in Int /\ 1 \in Int
    BY <1>3, <1>6, SMT
  <2>4. ~(t + lSegment[i].x >= Fin(i)) => t + lSegment[i].x < Fin(i)
    BY <1>3, <1>6, <2>3, SMT
  <2> QED
    BY <1>0, <1>1, <1>2, <1>3, <1>6, <2>1, <2>2, <2>4
<1> QED
  BY <1>5, <1>6

LEMMA InitSoleilInv == Init => SoleilInv
<1> SUFFICES ASSUME Init PROVE SoleilInv
  OBVIOUS
<1>1. off \in 0..(JOUR + 60 + Retard)
  BY SoleilAssumption, Bornes DEF Init
<1>2. 0 \in 0..Len(Droites) /\ 0 \in Int
  BY Longueur, SMT
<1>3. 1 * PerCent \in 0..(100 * PerCent) /\ Period \div 100 \in 0..Period
  <2>1. /\ 1 * PerCent \in Int /\ 0 <= 1 * PerCent /\ 1 * PerCent <= 100 * PerCent
        /\ Period \div 100 \in Int /\ 0 <= Period \div 100 /\ Period \div 100 <= Period
        /\ 100 * PerCent \in Int /\ Period \in Int
    BY Constantes, SMT
  <2> QED
    BY <2>1, DansIntervalle, SMT
<1> QED
  BY <1>1, <1>2, <1>3 DEF Init, SoleilInv, TypeOK, IndexInv

\* A wake-up comes after the last one, and less than a day later.
LEMMA ReveilTemps ==
  ASSUME SoleilInv, NEW r \in 0..Retard, off < JOUR, off' = off + usIntervalleX + r
  PROVE  off' \in Int /\ off <= off' /\ off' \in 0..(JOUR + 60 + Retard)
<1>1. /\ JOUR \in Nat /\ Retard \in Nat
      /\ off \in Int /\ 0 <= off /\ usIntervalleX \in {1, 30, 60}
  BY Bornes DEF SoleilInv, TypeOK
<1> QED
  BY <1>1, SMT

LEMMA NextSoleilInv == SoleilInv /\ [Next]_vars => SoleilInv'
<1> SUFFICES ASSUME SoleilInv, [Next]_vars PROVE SoleilInv'
  OBVIOUS
<1>1. CASE Demarrer \/ Arreter
  BY <1>1 DEF Demarrer, Arreter, courbe, SoleilInv, TypeOK, IndexInv
<1>2. CASE Reveil
  <2>1. PICK r \in 0..Retard : off' = off + usIntervalleX + r /\ iGererCourbe(off')
    BY <1>2 DEF Reveil
  <2>2. off < JOUR /\ pc' = "suit"
    BY <1>2 DEF Reveil
  <2>3. off' \in Int /\ off <= off' /\ off' \in 0..(JOUR + 60 + Retard)
    BY <2>1, <2>2, ReveilTemps
  <2> QED
    BY <2>1, <2>2, <2>3, GererInv DEF SoleilInv, TypeOK, IndexInv
<1>3. CASE Repos \/ UNCHANGED vars
  BY <1>3 DEF Repos, vars, courbe, SoleilInv, TypeOK, IndexInv
<1> QED
  BY <1>1, <1>2, <1>3 DEF Next

\* Whenever the thread begins and however late it wakes up, its index is that of
\* a segment and its duty cycle a percentage (Soleil.cpp:62-95).
THEOREM SoleilTypeOK == Spec => []TypeOK
<1>1. SoleilInv => TypeOK
  BY DEF SoleilInv
<1> QED
  BY <1>1, InitSoleilInv, NextSoleilInv, PTL DEF Spec

-----------------------------------------------------------------------------
(***************************************************************************)
(* The curve is followed.                                                  *)
(***************************************************************************)

\* A wake-up that is at most a second late finds a segment that has begun and
\* whose end it does not exceed.
LEMMA ChoisiJuste ==
  ASSUME SoleilInv, Retard <= 1, NEW r \in 0..Retard, NEW t \in Int,
         t = off + usIntervalleX + r, 28800 <= t, t < 72000
  PROVE  /\ Choisi(t) \in Segments /\ Choisi(t) # 0
         /\ lSegment[Choisi(t)].debut <= t /\ t <= Fin(Choisi(t))
<1>0. off \in Int /\ usIntervalleX \in {1, 30, 60} /\ Retard \in Nat
  BY Bornes DEF SoleilInv, TypeOK
<1>1. CASE sIndexlSegment = 0
  BY <1>1, ChercherTrouve, SMT DEF Choisi
<1>2. CASE sIndexlSegment # 0
  <2>1. /\ sIndexlSegment \in Segments
        /\ lSegment[sIndexlSegment].debut <= off
        /\ off + usIntervalleX < Fin(sIndexlSegment)
    BY <1>2 DEF SoleilInv, IndexInv
  <2>2. lSegment[sIndexlSegment].debut \in Int /\ Fin(sIndexlSegment) \in Int
    BY <2>1, Segment, SMT
  <2>3. lSegment[sIndexlSegment].debut <= t /\ t <= Fin(sIndexlSegment)
    BY <1>0, <2>1, <2>2, SMT
  <2> QED
    BY <1>2, <2>1, <2>3 DEF Choisi
<1> QED
  BY <1>1, <1>2

\* The curve lasts from 8 h to 20 h.
LEMMA CourbeBornes ==
  ASSUME NEW t \in Int, t \in lSegment[1].debut .. (Fin(Len(Droites)) - 1)
  PROVE  28800 <= t /\ t < 72000
<1>1. lSegment[1].debut = 28800
  BY Tableau, SMT DEF EstSegment
<1>2. Fin(8) = 72000
  BY Tableau, SMT DEF EstSegment
<1>3. Fin(Len(Droites)) = 72000
  BY <1>2, Longueur, SMT
<1> DEFINE d == lSegment[1].debut
           f == Fin(Len(Droites)) - 1
<1>4. d = 28800 /\ f = 71999
  BY <1>1, <1>3, SMT
<1>5. t \in d..f
  OBVIOUS
<1> HIDE DEF d, f
<1>6. d \in Int /\ f \in Int
  BY <1>4, SMT
<1>7. d <= t /\ t <= f
  BY <1>5, <1>6, DansIntervalle
<1> QED
  BY <1>4, <1>7, SMT

CourbeInv == SoleilInv /\ CourbeSuivie /\ HautSuivi

LEMMA ReveilCourbe ==
  ASSUME SoleilInv, Retard <= 1, Reveil
  PROVE  CourbeSuivie' /\ HautSuivi'
<1>0. PICK r \in 0..Retard : off' = off + usIntervalleX + r /\ iGererCourbe(off')
  BY DEF Reveil
<1>1. off' \in Int
  <2>1. off < JOUR
    BY DEF Reveil
  <2> QED
    BY <1>0, <2>1, ReveilTemps
<1> SUFFICES ASSUME DansCourbe'
             PROVE  /\ seg' # 0 /\ y' = Courbe(off')
                    /\ haut' \in 1..(Period - 1)
                    /\ y' < 100 * PerCent =>
                         haut' = (Period * Courbe(off')) \div (100 * PerCent)
  BY DEF CourbeSuivie, HautSuivi
<1> DEFINE i == Choisi(off')
<1>2. 28800 <= off' /\ off' < 72000
  BY <1>1, CourbeBornes DEF DansCourbe
<1>3. i \in Segments /\ i # 0 /\ lSegment[i].debut <= off' /\ off' <= Fin(i)
  BY <1>0, <1>1, <1>2, ChoisiJuste
<1>4. seg' = i /\ y' = Affine(i, off') /\ SetRapportCyclique(y')
  BY <1>0, <1>3 DEF iGererCourbe, Choisi
<1>5. /\ Affine(i, off') \in Int /\ Courbe(off') = Affine(i, off')
      /\ 90000 <= Affine(i, off') /\ Affine(i, off') <= 720000
  BY <1>1, <1>3, Segment, CourbeDuSegment
<1> HIDE DEF i
<1>6. y' \in Int /\ y' = Courbe(off') /\ 90000 <= y' /\ y' <= 720000
  BY <1>4, <1>5
<1>7. /\ haut' \in 1..(Period - 1)
      /\ y' < 100 * PerCent => haut' = (Period * y') \div (100 * PerCent)
  BY <1>4, <1>6, RapportPris
<1> QED
  BY <1>3, <1>4, <1>6, <1>7

LEMMA CourbeInvariant == ASSUME Retard <= 1 PROVE Spec => []CourbeInv
<1>1. Init => CourbeInv
  BY InitSoleilInv DEF CourbeInv, Init, CourbeSuivie, HautSuivi, DansCourbe
<1>2. CourbeInv /\ [Next]_vars => CourbeInv'
  <2> SUFFICES ASSUME CourbeInv, [Next]_vars PROVE CourbeSuivie' /\ HautSuivi'
    BY NextSoleilInv DEF CourbeInv
  <2>1. CASE Demarrer \/ Arreter
    BY <2>1 DEF Demarrer, Arreter, CourbeSuivie, HautSuivi, DansCourbe
  <2>2. CASE Reveil
    BY <2>2, ReveilCourbe DEF CourbeInv
  <2>3. CASE Repos \/ UNCHANGED vars
    BY <2>3 DEF Repos, vars, courbe, CourbeInv, CourbeSuivie, HautSuivi, DansCourbe
  <2> QED
    BY <2>1, <2>2, <2>3 DEF Next
<1> QED
  BY <1>1, <1>2, PTL DEF Spec

\* A sun that is woken up at most a second late computes only values of its curve,
\* whenever it begins (Soleil.cpp:62-95).
THEOREM SoleilCourbeSuivie == ASSUME Retard <= 1 PROVE Spec => []CourbeSuivie
<1>1. CourbeInv => CourbeSuivie
  BY DEF CourbeInv
<1> QED
  BY <1>1, CourbeInvariant, PTL

\* And the PWM follows the curve, without ever a high time of 0 us
\* (PwmGpio.cpp:58-68).
THEOREM SoleilHautSuivi == ASSUME Retard <= 1 PROVE Spec => []HautSuivi
<1>1. CourbeInv => HautSuivi
  BY DEF CourbeInv
<1> QED
  BY <1>1, CourbeInvariant, PTL
=============================================================================
