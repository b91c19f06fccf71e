---------------------------- MODULE RepairProofs ----------------------------
(***************************************************************************)
(* Theorems of the repair.                                                 *)
(*                                                                         *)
(* StrokeController, for every schedule that can be decoded, every         *)
(* observation, every answer of the planner and every lag of the finger:   *)
(* the slots are disjoint, the hold is reached in time, and what counts as *)
(* arrived was pushed in full; and whatever is observed, the planned route *)
(* is one that may be followed.                                            *)
(*                                                                         *)
(* RepairEngine, for every dimension, box, step count, request and         *)
(* landscape: its type, the two limits of _Budget, the sufficiency of the  *)
(* two-pair reserve, the accounting of integration work, what a qualified  *)
(* result rests on and what the step floor says.                           *)
(*                                                                         *)
(* RepairRecord: what is written of an invocation passes the admission     *)
(* that reads it back.                                                     *)
(***************************************************************************)
EXTENDS RepairRecord, StrokeController, FiniteSetTheorems, WellFoundedInduction, TLAPS

-----------------------------------------------------------------------------
(* The planner: least numbers, and induction up to a bound                 *)

\* A set of numbers that is not empty has a least one.
LEMMA LeastNumber ==
  ASSUME NEW S \in SUBSET Nat, S # {}
  PROVE  \E x \in S : \A y \in S : x <= y
  <1>1. PICK x \in S : \A y \in S : ~(<<y, x>> \in OpToRel(<, Nat))
    BY WFMin, NatLessThanWellFounded
  <1>2. \A y \in S : ~(y < x)
    BY <1>1 DEF OpToRel
  <1>3. QED
    BY <1>2

\* Induction up to a bound, with the set of the numbers that are good in place of a predicate.
LEMMA UpTo ==
  ASSUME NEW n \in Nat, NEW G, 0 \in G, \A k \in 1 .. n : k - 1 \in G => k \in G
  PROVE  \A k \in 0 .. n : k \in G
  <1> DEFINE Missing == {k \in 0 .. n : k \notin G}
  <1>1. SUFFICES ASSUME Missing # {} PROVE FALSE
    OBVIOUS
  <1>2. PICK k \in Missing : \A m \in Missing : k <= m
    <2>1. Missing \in SUBSET Nat
      OBVIOUS
    <2> HIDE DEF Missing
    <2>2. QED
      BY <1>1, <2>1, LeastNumber
  <1>3. k # 0 /\ k \in 1 .. n /\ k - 1 \in 0 .. n /\ k - 1 < k
    BY <1>2
  <1>4. k - 1 \in G
    BY <1>2, <1>3
  <1>5. QED
    BY <1>2, <1>3, <1>4

-----------------------------------------------------------------------------
(* The planner: points without repetitions                                 *)

Kept(points, f, i) ==
    IF i = 0 THEN << >>
    ELSE IF i > 1 /\ Last(f[i - 1]) = points[i] THEN f[i - 1]
    ELSE Append(f[i - 1], points[i])
Keeping(points, n, f) == f = [i \in 0 .. n |-> Kept(points, f, i)]

\* What Compact keeps of the first i points.
LEMMA KeptIs ==
  ASSUME NEW n \in Nat, NEW points, NEW f, Keeping(points, n, f), NEW i \in 1 .. n
  PROVE  f[i] = IF i > 1 /\ Last(f[i - 1]) = points[i] THEN f[i - 1] ELSE Append(f[i - 1], points[i])
  <1>1. f[i] = Kept(points, f, i)
    BY DEF Keeping
  <1>2. i # 0
    OBVIOUS
  <1>3. QED
    BY <1>1, <1>2, Zenon DEF Kept

\* The function by which Compact is defined exists.
LEMMA KeepingExists ==
  ASSUME NEW n \in Nat, NEW points
  PROVE  \E f : Keeping(points, n, f)
  <1> DEFINE G == {k \in 0 .. n : \E f : Keeping(points, k, f)}
  <1>1. 0 \in G
    <2>1. Keeping(points, 0, [i \in 0 .. 0 |-> << >>])
      BY DEF Keeping, Kept
    <2>2. QED
      BY <2>1
  <1>2. ASSUME NEW k \in 1 .. n, k - 1 \in G
        PROVE  k \in G
    <2>1. PICK f : Keeping(points, k - 1, f)
      BY <1>2
    <2> DEFINE last == IF k > 1 /\ Last(f[k - 1]) = points[k] THEN f[k - 1] ELSE Append(f[k - 1], points[k])
               g == [i \in 0 .. k |-> IF i = k THEN last ELSE f[i]]
    <2>2. k - 1 \in 0 .. k /\ k - 1 # k /\ k \in 0 .. k /\ k # 0
      OBVIOUS
    <2>3. ASSUME NEW i \in 0 .. k PROVE g[i] = Kept(points, g, i)
      <3>1. CASE i = k
        <4>1. g[i] = last /\ g[i - 1] = f[k - 1]
          BY <2>2, <3>1
        <4> HIDE DEF g
        <4>2. QED
          BY <2>2, <3>1, <4>1, Zenon DEF Kept
      <3>2. CASE i # k
        <4>1. i \in 0 .. (k - 1) /\ i # k /\ (i # 0 => i - 1 \in 0 .. k /\ i - 1 # k)
          BY <3>2
        <4>2. g[i] = f[i] /\ (i # 0 => g[i - 1] = f[i - 1])
          BY <4>1
        <4>3. f[i] = Kept(points, f, i)
          BY <2>1, <4>1 DEF Keeping
        <4> HIDE DEF g
        <4>4. QED
          BY <4>2, <4>3 DEF Kept
      <3>3. QED
        BY <3>1, <3>2
    <2>4. g = [i \in 0 .. k |-> g[i]]
      OBVIOUS
    <2> HIDE DEF g
    <2>5. Keeping(points, k, g)
      BY <2>3, <2>4 DEF Keeping
    <2>6. QED
      BY <2>5
  <1> HIDE DEF G
  <1>3. \A k \in 0 .. n : k \in G
    BY <1>1, <1>2, UpTo
  <1>4. QED
    BY <1>3 DEF G

\* Where the i-th point is kept: at its own place or, if it repeats the one before, at that one's.
Places(points, c, at) ==
    /\ at[1] = 1 /\ at[Len(points)] = Len(c)
    /\ \A i \in 1 .. Len(points) : at[i] \in 1 .. Len(c) /\ c[at[i]] = points[i]
    /\ \A i \in 1 .. Len(points) - 1 :
          at[i + 1] = IF points[i + 1] = points[i] THEN at[i] ELSE at[i] + 1

\* Every point has its place in the compact sequence, the first and the last their own.
LEMMA CompactPlaces ==
  ASSUME NEW S, NEW points \in Seq(S), Len(points) > 0
  PROVE  Compact(points) \in Seq(S) /\ \E at : Places(points, Compact(points), at)
  <1> DEFINE n == Len(points)
             c == Compact(points)
  <1>1. n \in Nat /\ n > 0 /\ \A i \in 1 .. n : points[i] \in S
    OBVIOUS
  <1>2. PICK f : Keeping(points, n, f) /\ c = f[n]
    <2>1. \E f : Keeping(points, n, f)
      BY <1>1, KeepingExists
    <2> DEFINE whole == CHOOSE f : Keeping(points, n, f)
    <2>2. c = whole[n]
      BY DEF Compact, Keeping, Kept
    <2>3. Keeping(points, n, whole)
      BY <2>1
    <2>4. QED
      BY <2>2, <2>3
  <1> HIDE DEF c
  <1>3. f[0] = << >>
    BY <1>1, <1>2 DEF Keeping, Kept
  <1> DEFINE Good(k) == /\ f[k] \in Seq(S) /\ Len(f[k]) \in 1 .. k
                        /\ f[k][Len(f[k])] = points[k] /\ Last(f[k]) = points[k]
                        /\ k > 1 => /\ Len(f[k - 1]) \in 1 .. k
                                    /\ Len(f[k]) = IF points[k] = points[k - 1] THEN Len(f[k - 1]) ELSE Len(f[k - 1]) + 1
                                    /\ \A j \in 1 .. Len(f[k - 1]) : f[k][j] = f[k - 1][j]
             G == {k \in 0 .. n : k > 0 => Good(k)}
  <1>4. 0 \in G
    BY <1>1
  <1>5. ASSUME NEW k \in 1 .. n, k - 1 \in G
        PROVE  k \in G
    <2>1. f[k] = IF k > 1 /\ Last(f[k - 1]) = points[k] THEN f[k - 1] ELSE Append(f[k - 1], points[k])
      BY <1>1, <1>2, KeptIs
    <2>2. CASE k = 1
      <3>1. f[1] = Append(<< >>, points[1])
        BY <1>3, <2>1, <2>2
      <3>2. f[1] = <<points[1]>>
        BY <3>1
      <3>3. points[1] \in S
        BY <1>1
      <3>4. f[1] \in Seq(S) /\ Len(f[1]) = 1 /\ f[1][1] = points[1]
        BY <3>2, <3>3
      <3>5. Last(f[1]) = points[1]
        BY <3>4 DEF Last
      <3>6. f[k] \in Seq(S) /\ Len(f[k]) = 1 /\ f[k][1] = points[k] /\ Last(f[k]) = points[k]
        BY <2>2, <3>4, <3>5
      <3>7. Good(k)
        BY <2>2, <3>6
      <3> HIDE DEF Good
      <3>8. QED
        BY <1>5, <3>7
    <2>3. CASE k > 1
      <3>1. Good(k - 1)
        BY <1>5, <2>3
      <3>2. CASE points[k] = points[k - 1]
        <4>1. f[k] = f[k - 1]
          BY <2>1, <2>3, <3>1, <3>2
        <4>2. QED
          BY <2>3, <3>1, <3>2, <4>1
      <3>3. CASE points[k] # points[k - 1]
        <4>1. f[k] = Append(f[k - 1], points[k])
          BY <2>1, <2>3, <3>1, <3>3
        <4>2. /\ f[k] \in Seq(S) /\ Len(f[k]) = Len(f[k - 1]) + 1 /\ f[k][Len(f[k])] = points[k]
              /\ \A j \in 1 .. Len(f[k - 1]) : f[k][j] = f[k - 1][j]
          BY <1>1, <3>1, <4>1
        <4>3. Last(f[k]) = points[k]
          BY <4>2 DEF Last
        <4>4. QED
          BY <2>3, <3>1, <3>3, <4>2, <4>3
      <3>4. QED
        BY <3>2, <3>3
    <2>4. QED
      BY <2>2, <2>3
  <1>6. \A k \in 1 .. n : Good(k)
    <2> HIDE DEF Good
    <2>1. \A k \in 0 .. n : k \in G
      <3> HIDE DEF G
      <3>1. QED
        BY <1>1, <1>4, <1>5, UpTo
    <2>2. QED
      BY <2>1
  <1> DEFINE at == [i \in 1 .. n |-> Len(f[i])]
             Within(i) == {k \in 0 .. n : k >= i => Len(f[i]) <= Len(f[k]) /\ f[k][Len(f[i])] = points[i]}
  <1>7. ASSUME NEW i \in 1 .. n
        PROVE  \A k \in i .. n : Len(f[i]) <= Len(f[k]) /\ f[k][Len(f[i])] = points[i]
    <2>1. 0 \in Within(i)
      BY <1>1
    <2>2. ASSUME NEW k \in 1 .. n, k - 1 \in Within(i)
          PROVE  k \in Within(i)
      <3>1. CASE k < i
        BY <3>1
      <3>2. CASE k = i
        BY <1>6, <3>2
      <3>3. CASE k > i
        <4>1. /\ Len(f[i]) <= Len(f[k - 1]) /\ f[k - 1][Len(f[i])] = points[i]
              /\ Good(i) /\ Good(k) /\ Good(k - 1) /\ k > 1
          <5>1. k \in Nat /\ i \in Nat /\ k > 1 /\ k - 1 >= i /\ k - 1 \in 1 .. n
            BY <1>1, <3>3
          <5>2. Len(f[i]) <= Len(f[k - 1]) /\ f[k - 1][Len(f[i])] = points[i]
            BY <2>2, <5>1
          <5>3. Good(i) /\ Good(k) /\ Good(k - 1)
            <6> HIDE DEF Good
            <6>1. QED
              BY <1>6, <5>1
          <5>4. QED
            BY <5>1, <5>2, <5>3
        <4>2. Len(f[i]) \in 1 .. Len(f[k - 1]) /\ Len(f[k - 1]) <= Len(f[k])
          BY <4>1
        <4>3. f[k][Len(f[i])] = f[k - 1][Len(f[i])]
          BY <4>1, <4>2
        <4>4. QED
          BY <4>1, <4>2, <4>3
      <3>4. QED
        BY <3>1, <3>2, <3>3
    <2>3. \A k \in 0 .. n : k \in Within(i)
      <3> HIDE DEF Within
      <3>1. QED
        BY <1>1, <2>1, <2>2, UpTo
    <2>4. QED
      BY <2>3
  <1>8. at[1] = 1 /\ at[n] = Len(c) /\ c \in Seq(S)
    <2>1. 1 \in 1 .. n /\ n \in 1 .. n
      BY <1>1
    <2>2. Good(1) /\ Good(n)
      BY <1>6, <2>1
    <2>3. at[1] = Len(f[1]) /\ at[n] = Len(f[n])
      BY <2>1
    <2>4. QED
      BY <1>2, <2>2, <2>3
  <1>9. ASSUME NEW i \in 1 .. n PROVE at[i] \in 1 .. Len(c) /\ c[at[i]] = points[i]
    BY <1>1, <1>2, <1>6, <1>7
  <1>10. ASSUME NEW i \in 1 .. n - 1
         PROVE  at[i + 1] = IF points[i + 1] = points[i] THEN at[i] ELSE at[i] + 1
    <2>1. i + 1 \in 1 .. n /\ i + 1 > 1 /\ (i + 1) - 1 = i /\ i \in 1 .. n
      OBVIOUS
    <2>2. Good(i + 1)
      BY <1>6, <2>1
    <2>3. QED
      BY <2>1, <2>2
  <1> HIDE DEF at
  <1>11. Places(points, c, at)
    BY <1>8, <1>9, <1>10 DEF Places
  <1>12. QED
    BY <1>8, <1>11 DEF c

\* Where two different points follow each other in the compact route, they do among the points.
LEMMA CompactPairs ==
  ASSUME NEW points, NEW c, NEW at, Len(points) \in Nat \ {0}, Len(c) \in Nat, Places(points, c, at),
         NEW k \in 1 .. Len(c) - 1
  PROVE  \E i \in 1 .. Len(points) - 1 : /\ at[i] = k /\ at[i + 1] = k + 1
                                         /\ points[i] = c[k] /\ points[i + 1] = c[k + 1]
  <1> DEFINE n == Len(points)
             Later == {i \in 1 .. n : at[i] > k}
  <1>1. n \in Later
    BY DEF Places
  <1>2. PICK j \in Later : \A i \in Later : j <= i
    <2>1. Later \in SUBSET Nat
      OBVIOUS
    <2> HIDE DEF Later
    <2>2. QED
      BY <1>1, <2>1, LeastNumber
  <1>3. j # 1 /\ j - 1 \in 1 .. n - 1 /\ j - 1 \in 1 .. n /\ (j - 1) + 1 = j
    BY <1>2 DEF Places
  <1> DEFINE i == j - 1
  <1>4. i \notin Later
    BY <1>2, <1>3
  <1>5. at[i] \in Nat /\ at[i] <= k /\ at[j] > k /\ (at[j] = at[i] \/ at[j] = at[i] + 1)
    <2>1. at[i] \in 1 .. Len(c) /\ at[i + 1] = IF points[i + 1] = points[i] THEN at[i] ELSE at[i] + 1
      BY <1>3 DEF Places
    <2>2. QED
      BY <1>2, <1>3, <1>4, <2>1
  <1>6. at[i] = k /\ at[i + 1] = k + 1
    BY <1>3, <1>5
  <1>7. points[i] = c[k] /\ points[i + 1] = c[k + 1]
    <2>1. c[at[i]] = points[i] /\ c[at[i + 1]] = points[i + 1]
      BY <1>3 DEF Places
    <2>2. QED
      BY <1>6, <2>1
  <1>8. QED
    BY <1>3, <1>6, <1>7

\* Places never decrease.
LEMMA PlacesGrow ==
  ASSUME NEW points, NEW c, NEW at, Len(points) \in Nat, Len(c) \in Nat, Places(points, c, at),
         NEW i \in 1 .. Len(points)
  PROVE  \A j \in i .. Len(points) : at[i] <= at[j]
  <1> DEFINE n == Len(points)
             G == {j \in 0 .. n : j >= i => at[i] <= at[j]}
  <1>1. \A j \in 1 .. n : at[j] \in Nat
    BY DEF Places
  <1>2. 0 \in G
    OBVIOUS
  <1>3. ASSUME NEW j \in 1 .. n, j - 1 \in G
        PROVE  j \in G
    <2>1. CASE j < i
      BY <2>1
    <2>2. CASE j = i
      BY <1>1, <2>2
    <2>3. CASE j > i
      <3>1. at[i] <= at[j - 1] /\ j - 1 \in 1 .. n - 1 /\ j - 1 \in 1 .. n /\ (j - 1) + 1 = j
        BY <1>3, <2>3
      <3>2. at[j] = at[j - 1] \/ at[j] = at[j - 1] + 1
        BY <3>1 DEF Places
      <3>3. QED
        BY <1>1, <2>3, <3>1, <3>2
    <2>4. QED
      BY <2>1, <2>2, <2>3
  <1> HIDE DEF G
  <1>4. \A j \in 0 .. n : j \in G
    BY <1>2, <1>3, UpTo
  <1>5. QED
    BY <1>4 DEF G

-----------------------------------------------------------------------------
(* The planner: shortcuts                                                  *)

Ahead(prob, points, k) == {j \in k + 1 .. Len(points) : ClearTransit(prob, points[k], points[j])}
NextOf(prob, points, k) ==
    IF Ahead(prob, points, k) = {} THEN k + 1
    ELSE CHOOSE j \in Ahead(prob, points, k) : \A i \in Ahead(prob, points, k) : i <= j
Short(prob, points, f, k) ==
    IF k = Len(points) THEN <<points[k]>> ELSE <<points[k]>> \o f[NextOf(prob, points, k)]
Shortening(prob, points, f) == f = [k \in DOMAIN points |-> Short(prob, points, f, k)]

\* A shortcut leads onwards.
LEMMA NextIsAhead ==
  ASSUME NEW prob, NEW S, NEW points \in Seq(S), NEW k \in 1 .. Len(points), k # Len(points)
  PROVE  NextOf(prob, points, k) \in k + 1 .. Len(points)
  <1> DEFINE n == Len(points)
             A == Ahead(prob, points, k)
             Left0 == {n - j : j \in A}
  <1>1. A \in SUBSET (k + 1 .. n) /\ n \in Nat
    BY DEF Ahead
  <1>2. CASE A = {}
    BY <1>1, <1>2 DEF NextOf
  <1>3. CASE A # {}
    <2> HIDE DEF A
    <2>1. Left0 \in SUBSET Nat /\ Left0 # {}
      <3>1. ASSUME NEW j \in A PROVE n - j \in Nat
        <4>1. j \in k + 1 .. n /\ n \in Nat
          BY <1>1
        <4> HIDE DEF n
        <4>2. QED
          BY <4>1
      <3>2. QED
        BY <1>3, <3>1
    <2>2. PICK m \in Left0 : \A l \in Left0 : m <= l
      <3> HIDE DEF Left0
      <3>1. QED
        BY <2>1, LeastNumber
    <2>3. PICK j \in A : m = n - j
      BY <2>2
    <2>4. ASSUME NEW i \in A PROVE i <= j
      <3>1. n - i \in Left0
        OBVIOUS
      <3>2. m <= n - i
        BY <2>2, <3>1
      <3>3. i \in Int /\ j \in Int /\ n \in Int
        BY <1>1, <2>3
      <3>4. QED
        BY <2>3, <3>2, <3>3
    <2>5. \E far \in A : \A i \in A : i <= far
      BY <2>4
    <2>6. (CHOOSE far \in A : \A i \in A : i <= far) \in A
      BY <2>5
    <2>7. NextOf(prob, points, k) = CHOOSE far \in A : \A i \in A : i <= far
      BY <1>3, Zenon DEF NextOf, A
    <2>8. QED
      BY <1>1, <2>6, <2>7
  <1>4. QED
    BY <1>2, <1>3

\* The function by which Shortened is defined exists.
LEMMA ShorteningExists ==
  ASSUME NEW prob, NEW S, NEW points \in Seq(S), Len(points) > 0
  PROVE  \E f : Shortening(prob, points, f)
  <1> DEFINE n == Len(points)
             Tails(m, f) == f = [k \in n - m .. n |-> Short(prob, points, f, k)]
             G == {m \in 0 .. n - 1 : \E f : Tails(m, f)}
  <1>1. n \in Nat \ {0} /\ DOMAIN points = 1 .. n /\ n - 1 \in Nat /\ n = Len(points)
    OBVIOUS
  <1>0. n \in Nat /\ n > 0
    OBVIOUS
  <1> HIDE DEF n
  <1>2. 0 \in G
    <2> DEFINE f == [k \in n - 0 .. n |-> <<points[n]>>]
    <2>1. ASSUME NEW k \in n - 0 .. n PROVE Short(prob, points, f, k) = <<points[n]>>
      <3>1. k = n
        BY <1>1
      <3>2. QED
        BY <1>1, <3>1 DEF Short
    <2>2. Tails(0, f)
      BY <2>1
    <2> HIDE DEF Tails
    <2>3. QED
      BY <1>1, <2>2
  <1>3. ASSUME NEW m \in 1 .. n - 1, m - 1 \in G
        PROVE  m \in G
    <2>1. PICK f : Tails(m - 1, f)
      BY <1>3
    <2> DEFINE here == n - m
               first == <<points[here]>> \o f[NextOf(prob, points, here)]
               g == [k \in n - m .. n |-> IF k = here THEN first ELSE f[k]]
    <2>2. here \in 1 .. n /\ here # n /\ n - (m - 1) = here + 1 /\ here + 1 \in 1 .. n
      <3>1. n - m \in 1 .. n /\ n - m # n
        BY <1>0
      <3>2. n - (m - 1) = (n - m) + 1 /\ (n - m) + 1 \in 1 .. n
        BY <1>0
      <3>3. QED
        BY <3>1, <3>2
    <2>3. ASSUME NEW k \in n - m .. n PROVE g[k] = Short(prob, points, g, k)
      <3>1. k \in 1 .. n /\ (k # here => k \in here + 1 .. n)
        <4>1. k \in here .. n /\ here \in 1 .. n
          BY <2>2
        <4> HIDE DEF here
        <4>2. QED
          BY <1>0, <4>1
      <3>2. k # n => NextOf(prob, points, k) \in k + 1 .. n
        BY <1>1, <3>1, NextIsAhead
      <3>3. k # n => g[NextOf(prob, points, k)] = f[NextOf(prob, points, k)]
        BY <2>2, <3>1, <3>2
      <3>4. CASE k = here
        <4>1. g[k] = <<points[k]>> \o f[NextOf(prob, points, k)] /\ k # n
          BY <2>2, <3>4
        <4> HIDE DEF g
        <4>2. g[k] = <<points[k]>> \o g[NextOf(prob, points, k)] /\ k # Len(points)
          BY <1>1, <3>3, <4>1
        <4>3. QED
          BY <4>2, Zenon DEF Short
      <3>5. CASE k # here
        <4>1. g[k] = f[k] /\ f[k] = Short(prob, points, f, k)
          BY <2>1, <2>2, <3>1, <3>5
        <4> HIDE DEF g
        <4>2. k # Len(points) => g[NextOf(prob, points, k)] = f[NextOf(prob, points, k)]
          BY <1>1, <3>3
        <4>3. QED
          BY <4>1, <4>2 DEF Short
      <3>6. QED
        BY <3>4, <3>5
    <2>4. g = [k \in n - m .. n |-> g[k]]
      OBVIOUS
    <2> HIDE DEF g
    <2>5. Tails(m, g)
      BY <2>3, <2>4
    <2> HIDE DEF Tails
    <2>6. QED
      BY <1>1, <2>5
  <1>4. n - 1 \in G
    <2> DEFINE top == n - 1
    <2> HIDE DEF G
    <2>1. top \in Nat /\ \A m \in 1 .. top : m - 1 \in G => m \in G
      BY <1>1, <1>3
    <2> HIDE DEF top
    <2>2. \A m \in 0 .. top : m \in G
      BY <1>2, <2>1, UpTo
    <2>3. top \in 0 .. top
      BY <2>1
    <2>4. QED
      BY <2>2, <2>3 DEF top
  <1>5. PICK f : Tails(n - 1, f)
    <2> HIDE DEF Tails
    <2>1. QED
      BY <1>4
  <1>6. f = [k \in DOMAIN points |-> Short(prob, points, f, k)]
    <2>1. n - (n - 1) = 1
      BY <1>1
    <2>2. QED
      BY <1>1, <1>5, <2>1
  <1>7. QED
    BY <1>6 DEF Shortening

\* What is shortened begins and ends where it did.
LEMMA ShortenedEnds ==
  ASSUME NEW prob, NEW S, NEW points \in Seq(S), Len(points) > 0
  PROVE  LET short == Shortened(prob, points) IN
         short \in Seq(S) /\ Len(short) > 0 /\ short[1] = points[1] /\ short[Len(short)] = points[Len(points)]
  <1> DEFINE n == Len(points)
  <1>0. n \in Nat /\ n > 0
    OBVIOUS
  <1>1. n \in Nat \ {0} /\ DOMAIN points = 1 .. n /\ n - 1 \in Nat /\ n = Len(points)
        /\ \A k \in 1 .. n : points[k] \in S
    OBVIOUS
  <1>2. PICK f : Shortening(prob, points, f) /\ Shortened(prob, points) = f[1]
    <2> DEFINE whole == CHOOSE f : Shortening(prob, points, f)
    <2>1. Shortening(prob, points, whole)
      BY ShorteningExists
    <2>2. Shortened(prob, points) = whole[1]
      BY DEF Shortened, Shortening, Short, NextOf, Ahead
    <2>3. QED
      BY <2>1, <2>2
  <1> DEFINE Good(s, k) == s \in Seq(S) /\ Len(s) > 0 /\ s[1] = points[k] /\ s[Len(s)] = points[n]
             G == {m \in 0 .. n - 1 : \A k \in n - m .. n : Good(f[k], k)}
  <1> HIDE DEF n
  <1>3. ASSUME NEW k \in 1 .. n PROVE f[k] = Short(prob, points, f, k)
    <2>1. k \in DOMAIN points
      BY <1>1
    <2>2. QED
      BY <1>2, <2>1, Zenon DEF Shortening
  <1>4. 0 \in G
    <2>0. n \in 1 .. n
      BY <1>0
    <2>1. f[n] = <<points[n]>> /\ points[n] \in S
      <3>1. f[n] = Short(prob, points, f, n)
        BY <1>3, <2>0
      <3>2. QED
        BY <1>1, <2>0, <3>1 DEF Short
    <2>2. Good(<<points[n]>>, n)
      BY <2>1
    <2>3. Good(f[n], n)
      BY <2>1, <2>2
    <2>4. \A k \in n - 0 .. n : k = n
      BY <1>0
    <2> HIDE DEF Good
    <2>5. 0 \in 0 .. n - 1
      BY <1>0
    <2>6. QED
      BY <2>3, <2>4, <2>5
  <1>5. ASSUME NEW m \in 1 .. n - 1, m - 1 \in G
        PROVE  m \in G
    <2> DEFINE here == n - m
               ahead == NextOf(prob, points, here)
    <2>1. here \in 1 .. n /\ here # n /\ n - (m - 1) = here + 1
      <3>1. n - m \in 1 .. n /\ n - m # n
        BY <1>0
      <3>2. n - (m - 1) = (n - m) + 1
        BY <1>0
      <3>3. QED
        BY <3>1, <3>2
    <2>2. ahead \in here + 1 .. n
      BY <1>1, <2>1, NextIsAhead
    <2>3. \A k \in here + 1 .. n : Good(f[k], k)
      BY <1>5, <2>1
    <2>4. Good(f[ahead], ahead)
      BY <2>2, <2>3
    <2>5. f[here] = <<points[here]>> \o f[ahead] /\ points[here] \in S
      BY <1>1, <1>3, <2>1 DEF Short
    <2>6. Good(<<points[here]>> \o f[ahead], here)
      <3> HIDE DEF ahead, here
      <3>1. <<points[here]>> \in Seq(S) /\ f[ahead] \in Seq(S)
        BY <2>4, <2>5
      <3>2. QED
        BY <2>4, <2>5, <3>1
    <2>7. \A k \in here .. n : k = here \/ k \in here + 1 .. n
      <3>1. here \in Nat
        BY <2>1
      <3> HIDE DEF here
      <3>2. QED
        BY <1>0, <3>1
    <2>8. Good(f[here], here)
      BY <2>5, <2>6
    <2>9. m \in 0 .. n - 1
      BY <1>0
    <2> HIDE DEF Good
    <2>10. \A k \in here .. n : Good(f[k], k)
      BY <2>3, <2>7, <2>8
    <2>11. QED
      BY <2>9, <2>10
  <1>6. n - 1 \in G
    <2> DEFINE top == n - 1
    <2> HIDE DEF G
    <2>1. top \in Nat /\ \A m \in 1 .. top : m - 1 \in G => m \in G
      BY <1>1, <1>5
    <2> HIDE DEF top
    <2>2. \A m \in 0 .. top : m \in G
      BY <1>4, <2>1, UpTo
    <2>3. top \in 0 .. top
      BY <2>1
    <2>4. QED
      BY <2>2, <2>3 DEF top
  <1>7. Good(f[1], 1)
    <2>1. 1 \in n - (n - 1) .. n
      BY <1>1
    <2> HIDE DEF Good
    <2>2. QED
      BY <1>6, <2>1
  <1>8. QED
    <2>1. Shortened(prob, points) = f[1]
      BY <1>2
    <2> HIDE DEF G
    <2>2. QED
      BY <1>1, <1>7, <2>1

-----------------------------------------------------------------------------
(* The planner: round the inflated rectangle                               *)

Nearer(S, place, x) == {y \in S : place[y] < place[x]}

\* In a finite set whose members have places of their own, every rank is taken.
LEMMA EveryRankIsTaken ==
  ASSUME NEW S, IsFiniteSet(S), NEW place, \A x \in S : place[x] \in Int,
         \A x, y \in S : place[x] = place[y] => x = y
  PROVE  /\ Cardinality(S) \in Nat
         /\ \A i \in 1 .. Cardinality(S) : \E x \in S : Cardinality(Nearer(S, place, x)) = i - 1
  <1> DEFINE n == Cardinality(S)
             rank == [x \in S |-> Cardinality(Nearer(S, place, x))]
  <1>1. n \in Nat
    BY FS_CardinalityType
  <1>2. ASSUME NEW x \in S
        PROVE  IsFiniteSet(Nearer(S, place, x)) /\ rank[x] \in 0 .. n - 1
    <2>1. Nearer(S, place, x) \in SUBSET S /\ Nearer(S, place, x) # S
      BY DEF Nearer
    <2>2. /\ IsFiniteSet(Nearer(S, place, x)) /\ Cardinality(Nearer(S, place, x)) <= n
          /\ Cardinality(Nearer(S, place, x)) # n
      BY <2>1, FS_Subset
    <2>3. Cardinality(Nearer(S, place, x)) \in Nat
      BY <2>2, FS_CardinalityType
    <2> HIDE DEF n
    <2>4. QED
      BY <1>1, <2>2, <2>3
  <1>3. ASSUME NEW x \in S, NEW y \in S, place[x] < place[y] PROVE rank[x] # rank[y]
    <2>1. /\ Nearer(S, place, x) \in SUBSET Nearer(S, place, y)
          /\ x \in Nearer(S, place, y) /\ x \notin Nearer(S, place, x)
      BY <1>3 DEF Nearer
    <2>2. IsFiniteSet(Nearer(S, place, y))
      BY <1>2
    <2>3. QED
      BY <2>1, <2>2, FS_Subset
  <1>4. rank \in Injection(S, 0 .. n - 1)
    <2>1. ASSUME NEW x \in S, NEW y \in S, rank[x] = rank[y] PROVE x = y
      <3>1. ~(place[x] < place[y]) /\ ~(place[y] < place[x])
        <4> HIDE DEF rank
        <4>1. QED
          BY <1>3, <2>1
      <3>2. QED
        BY <3>1
    <2>2. rank \in [S -> 0 .. n - 1]
      BY <1>2
    <2>3. QED
      BY <2>1, <2>2 DEF Injection, IsInjective
  <1>5. IsFiniteSet(0 .. n - 1) /\ Cardinality(0 .. n - 1) = n
    <2>1. 0 \in Int /\ n - 1 \in Int
      BY <1>1
    <2> HIDE DEF n
    <2>2. QED
      BY <1>1, <2>1, FS_Interval
  <1>6. rank \in Surjection(S, 0 .. n - 1)
    <2> HIDE DEF rank
    <2>1. QED
      BY <1>4, <1>5, FS_Injection
  <1>7. ASSUME NEW i \in 1 .. n PROVE \E x \in S : rank[x] = i - 1
    <2>1. i - 1 \in 0 .. n - 1
      BY <1>1
    <2> HIDE DEF rank
    <2>2. QED
      BY <1>6, <2>1 DEF Surjection
  <1>8. QED
    BY <1>1, <1>7

\* Numbers that are congruent and less than the modulus apart are equal.
LEMMA Congruent ==
  ASSUME NEW m \in Nat, m > 0, NEW a \in Int, NEW b \in Int, a % m = b % m, a - b < m, b - a < m
  PROVE  a = b
  <1> DEFINE q == (a \div m) - (b \div m)
  <1>1. a = m * (a \div m) + (a % m) /\ b = m * (b \div m) + (b % m)
    OBVIOUS
  <1>2. a - b = m * (a \div m) - m * (b \div m) /\ a \div m \in Int /\ b \div m \in Int
    BY <1>1
  <1>3. q \in Int /\ a - b = m * q
    BY <1>2
  <1> HIDE DEF q
  <1>4. CASE q >= 1
    <2>1. m * q >= m
      BY <1>3, <1>4
    <2>2. QED
      BY <1>3, <2>1
  <1>5. CASE q <= -1
    <2>1. m * q <= -m
      BY <1>3, <1>5
    <2>2. QED
      BY <1>3, <2>1
  <1>6. CASE q = 0
    BY <1>3, <1>6
  <1>7. QED
    BY <1>3, <1>4, <1>5, <1>6

\* The sizes of the rectangles round the block.
LEMMA BlockSizes ==
  \A i \in Axes2 : /\ Half[i] \in Nat /\ Extent[i] \in Nat /\ Extent[i] <= Half[i]
                   /\ Physical[i] \in Nat /\ Inflated[i] \in Nat /\ Physical[i] > 0
                   /\ Physical[i] = Half[i] + Radius /\ Inflated[i] = Physical[i] + Clearance
                   /\ Clearance > 0 /\ Clearance \in Nat /\ Radius \in Nat /\ Radius > 0 /\ Penetration \in Nat
  BY BlockAssumption DEF Axes2, Physical, Inflated

\* The corners are points, four at most, and each has a place of its own on the way round.
LEMMA CornersApart ==
  /\ IsFiniteSet(Corners) /\ Corners \subseteq Points
  /\ Around \in Nat /\ Around > 0
  /\ \A c \in Corners : PerimeterCoordinate(c) \in 0 .. Around - 1
  /\ \A c, d \in Corners : PerimeterCoordinate(c) = PerimeterCoordinate(d) => c = d
  <1> DEFINE a == Inflated[1]
             b == Inflated[2]
  <1>1. a \in Nat /\ a > 0 /\ b \in Nat /\ b > 0
    BY BlockSizes DEF Axes2
  <1>2. Around = 4 * (a + b)
    BY DEF Around
  <1>3. Corners = {<<-a, -b>>, <<a, -b>>, <<a, b>>, <<-a, b>>}
    BY DEF Corners
  <1> HIDE DEF a, b
  <1>4. IsFiniteSet(Corners)
    <2>1. IsFiniteSet({}) /\ Corners = ((({} \cup {<<-a, -b>>}) \cup {<<a, -b>>}) \cup {<<a, b>>}) \cup {<<-a, b>>}
      BY <1>3, FS_EmptySet
    <2>2. QED
      BY <2>1, FS_AddElement
  <1>5. Corners \subseteq Points
    BY <1>1, <1>3 DEF Points
  <1>6. /\ PerimeterCoordinate(<<-a, -b>>) = 0 /\ PerimeterCoordinate(<<a, -b>>) = 2 * a
        /\ PerimeterCoordinate(<<a, b>>) = 2 * a + 2 * b /\ PerimeterCoordinate(<<-a, b>>) = 4 * a + 2 * b
    BY <1>1 DEF PerimeterCoordinate, a, b
  <1>7. Around \in Nat /\ Around > 0
    BY <1>1, <1>2
  <1>8. \A c \in Corners : PerimeterCoordinate(c) \in 0 .. Around - 1
    BY <1>1, <1>2, <1>3, <1>6
  <1>9. \A c, d \in Corners : PerimeterCoordinate(c) = PerimeterCoordinate(d) => c = d
    BY <1>1, <1>3, <1>6
  <1>10. QED
    BY <1>4, <1>5, <1>7, <1>8, <1>9

\* Every point has a coordinate on the way round.
LEMMA CoordinateType ==
  \A p \in Points : PerimeterCoordinate(p) \in Int
  <1> DEFINE a == Inflated[1]
             b == Inflated[2]
  <1>1. a \in Nat /\ b \in Nat
    BY BlockSizes DEF Axes2
  <1>2. Around \in Nat /\ Around > 0
    BY CornersApart
  <1> HIDE DEF a, b
  <1>3. ASSUME NEW p \in Points PROVE PerimeterCoordinate(p) \in Int
    <2>1. p[1] \in Int /\ p[2] \in Int
      BY DEF Points
    <2>2. PerimeterCoordinate(p) =
            IF p[2] = -b THEN p[1] + a
            ELSE IF p[1] = a THEN 2 * a + p[2] + b
            ELSE IF p[2] = b THEN 4 * a + 2 * b - p[1] - a
            ELSE (4 * a + 4 * b - (p[2] + b)) % Around
      BY DEF PerimeterCoordinate, a, b
    <2> DEFINE back == 4 * a + 4 * b - (p[2] + b)
    <2>3. back \in Int
      BY <1>1, <2>1
    <2> HIDE DEF back
    <2>4. back % Around \in Int
      BY <1>2, <2>3
    <2>5. p[1] + a \in Int /\ 2 * a + p[2] + b \in Int /\ 4 * a + 2 * b - p[1] - a \in Int
      BY <1>1, <2>1
    <2>6. QED
      BY <2>2, <2>4, <2>5 DEF back
  <1>4. QED
    BY <1>3

\* Seen from one point, in one direction, no two corners are equally far.
LEMMA CornersApartFrom ==
  ASSUME NEW start \in Points, NEW direction \in {-1, 1}
  PROVE  /\ \A c \in Corners : Distance(start, c, direction) \in Int
         /\ \A c, d \in Corners : Distance(start, c, direction) = Distance(start, d, direction) => c = d
  <1>1. Around \in Nat /\ Around > 0
    BY CornersApart
  <1>2. PerimeterCoordinate(start) \in Int /\ \A c \in Corners : PerimeterCoordinate(c) \in 0 .. Around - 1
    BY CornersApart, CoordinateType
  <1>3. ASSUME NEW c \in Corners
        PROVE  /\ direction * (PerimeterCoordinate(c) - PerimeterCoordinate(start)) \in Int
               /\ Distance(start, c, direction) \in Int
    <2>1. direction * (PerimeterCoordinate(c) - PerimeterCoordinate(start)) \in Int
      BY <1>1, <1>2
    <2>2. QED
      BY <1>1, <2>1 DEF Distance
  <1>4. ASSUME NEW c \in Corners, NEW d \in Corners,
               Distance(start, c, direction) = Distance(start, d, direction)
        PROVE  c = d
    <2> DEFINE far == direction * (PerimeterCoordinate(c) - PerimeterCoordinate(start))
               near == direction * (PerimeterCoordinate(d) - PerimeterCoordinate(start))
    <2>1. far \in Int /\ near \in Int
      BY <1>3
    <2>2. far % Around = near % Around
      BY <1>4 DEF Distance
    <2>3. far - near < Around /\ near - far < Around
      <3>1. PerimeterCoordinate(c) \in 0 .. Around - 1 /\ PerimeterCoordinate(d) \in 0 .. Around - 1
        BY <1>2
      <3>2. CASE direction = 1
        BY <1>1, <1>2, <3>1, <3>2
      <3>3. CASE direction = -1
        BY <1>1, <1>2, <3>1, <3>3
      <3>4. QED
        BY <3>2, <3>3
    <2> HIDE DEF far, near
    <2>4. far = near
      BY <1>1, <2>1, <2>2, <2>3, Congruent
    <2>5. PerimeterCoordinate(c) \in Int /\ PerimeterCoordinate(d) \in Int
      BY <1>1, <1>2
    <2>6. PerimeterCoordinate(c) = PerimeterCoordinate(d)
      <3>1. CASE direction = 1
        BY <1>2, <2>4, <2>5, <3>1 DEF far, near
      <3>2. CASE direction = -1
        BY <1>2, <2>4, <2>5, <3>2 DEF far, near
      <3>3. QED
        BY <3>1, <3>2
    <2>7. QED
      BY <2>6, CornersApart
  <1>5. QED
    BY <1>3, <1>4

\* The way round is a sequence of points from its start to its end.
LEMMA WayRound ==
  ASSUME NEW start \in Points, NEW end \in Points, NEW direction \in {-1, 1}
  PROVE  LET around == PerimeterPoints(start, end, direction) IN
         around \in Seq(Points) /\ Len(around) > 0 /\ around[1] = start /\ around[Len(around)] = end
  <1> DEFINE passed == {c \in Corners : /\ Distance(start, c, direction) > 0
                                        /\ Distance(start, c, direction) < Distance(start, end, direction)}
             nearer(c) == {d \in passed : Distance(start, d, direction) < Distance(start, c, direction)}
             ordered == [i \in 1 .. Cardinality(passed) |->
                            CHOOSE c \in passed : Cardinality(nearer(c)) = i - 1]
             place == [c \in passed |-> Distance(start, c, direction)]
             around == PerimeterPoints(start, end, direction)
  <1>1. passed \subseteq Corners /\ passed \subseteq Points /\ IsFiniteSet(passed)
    <2>1. passed \in SUBSET Corners
      OBVIOUS
    <2> HIDE DEF passed
    <2>2. QED
      BY <2>1, CornersApart, FS_Subset
  <1>2. around = <<start>> \o ordered \o <<end>>
    BY Zenon DEF PerimeterPoints
  <1> HIDE DEF passed
  <1>3. (\A c \in passed : place[c] \in Int) /\ \A c, d \in passed : place[c] = place[d] => c = d
    BY <1>1, CornersApartFrom
  <1>4. ASSUME NEW c \in passed PROVE nearer(c) = Nearer(passed, place, c)
    BY DEF Nearer
  <1> HIDE DEF place
  <1>5. /\ Cardinality(passed) \in Nat
        /\ \A i \in 1 .. Cardinality(passed) : \E c \in passed : Cardinality(Nearer(passed, place, c)) = i - 1
    BY <1>1, <1>3, EveryRankIsTaken
  <1> HIDE DEF nearer
  <1>6. ASSUME NEW i \in 1 .. Cardinality(passed) PROVE ordered[i] \in Points
    <2>1. \E c \in passed : Cardinality(nearer(c)) = i - 1
      BY <1>4, <1>5
    <2>2. (CHOOSE c \in passed : Cardinality(nearer(c)) = i - 1) \in passed
      BY <2>1
    <2>3. QED
      BY <1>1, <2>2
  <1>7. ordered \in Seq(Points)
    <2>1. ordered = [i \in 1 .. Cardinality(passed) |-> ordered[i]]
      OBVIOUS
    <2> HIDE DEF ordered
    <2>2. QED
      BY <1>5, <1>6, <2>1
  <1> HIDE DEF ordered, around
  <1>8. <<start>> \in Seq(Points) /\ <<end>> \in Seq(Points)
    OBVIOUS
  <1>9. QED
    BY <1>2, <1>7, <1>8 DEF around

\* Where the planner's own points are.
LEMMA Aims ==
  ASSUME NEW prob \in Problem, NEW side \in Faces
  PROVE  /\ Outer(prob) \in Points /\ Contact(prob) \in Points /\ Outer(prob) # Contact(prob)
         /\ Anchor(prob, side) \in Points /\ Depth(Anchor(prob, side)) <= 0
         /\ prob.finger \in Points /\ prob.reference \in Points
  <1>1. /\ prob.finger \in Points /\ prob.reference \in Points /\ prob.face \in Faces /\ prob.aim \in Int
    BY DEF Problem
  <1>2. /\ prob.face[1] \in Axes2 /\ prob.face[2] \in {-1, 1} /\ side[1] \in Axes2 /\ side[2] \in {-1, 1}
    BY <1>1 DEF Faces
  <1>3. /\ prob.finger[1] \in Int /\ prob.finger[2] \in Int
    BY <1>1 DEF Points
  <1>5. ASSUME NEW d \in Int
        PROVE  /\ OnFace(prob, d) \in Points
               /\ OnFace(prob, d)[prob.face[1]] = prob.face[2] * (Half[prob.face[1]] + d)
    <2> DEFINE f == OnFace(prob, d)
    <2>1. ASSUME NEW i \in Axes2 PROVE f[i] \in Int
      <3>1. prob.face[2] * (Half[i] + d) \in Int
        BY <1>2, BlockSizes
      <3>2. Clipped(prob.aim, Extent[i]) \in Int
        <4>1. prob.aim \in Int /\ Extent[i] \in Int
          BY <1>1, BlockSizes
        <4>2. QED
          BY <4>1 DEF Clipped
      <3>3. QED
        BY <3>1, <3>2 DEF OnFace
    <2>2. f = [i \in {1, 2} |-> f[i]]
      BY DEF OnFace, Axes2
    <2>3. f[prob.face[1]] = prob.face[2] * (Half[prob.face[1]] + d)
      BY <1>2 DEF OnFace
    <2> HIDE DEF f
    <2>4. f = <<f[1], f[2]>> /\ f[1] \in Int /\ f[2] \in Int
      BY <2>1, <2>2 DEF Axes2
    <2>5. f \in Points
      BY <2>4 DEF Points
    <2>6. QED
      BY <2>3, <2>5 DEF f
  <1>6. Outer(prob) \in Points /\ Contact(prob) \in Points
    BY <1>5, BlockSizes DEF Outer, Contact, Axes2
  <1>7. Outer(prob) # Contact(prob)
    <2> DEFINE h == Half[prob.face[1]]
    <2>1. h \in Nat /\ Radius \in Nat /\ Clearance \in Nat /\ Clearance > 0
      BY <1>2, BlockSizes
    <2>2. /\ Outer(prob)[prob.face[1]] = prob.face[2] * (h + (Radius + Clearance))
          /\ Contact(prob)[prob.face[1]] = prob.face[2] * (h + Radius)
      BY <1>5, <2>1 DEF Outer, Contact
    <2> HIDE DEF h
    <2>3. prob.face[2] * (h + (Radius + Clearance)) # prob.face[2] * (h + Radius)
      <3>1. CASE prob.face[2] = 1
        BY <2>1, <3>1
      <3>2. CASE prob.face[2] = -1
        BY <2>1, <3>2
      <3>3. QED
        BY <1>2, <3>1, <3>2
    <2>4. QED
      BY <2>2, <2>3
  <1> DEFINE g == Anchor(prob, side)
  <1>8. ASSUME NEW i \in Axes2 PROVE g[i] \in Int
    <2>1. side[2] * Inflated[i] \in Int
      BY <1>2, BlockSizes
    <2>2. Clipped(prob.finger[i], Inflated[i]) \in Int
      <3>1. prob.finger[i] \in Int /\ Inflated[i] \in Int
        BY <1>3, BlockSizes DEF Axes2
      <3>2. QED
        BY <3>1 DEF Clipped
    <2>3. QED
      BY <2>1, <2>2 DEF Anchor
  <1>9. g = [i \in {1, 2} |-> g[i]] /\ g[side[1]] = side[2] * Inflated[side[1]]
    BY <1>2 DEF Anchor, Axes2
  <1> HIDE DEF g
  <1>10. g \in Points
    <2>1. g = <<g[1], g[2]>> /\ g[1] \in Int /\ g[2] \in Int
      BY <1>8, <1>9 DEF Axes2
    <2>2. QED
      BY <2>1 DEF Points
  <1>11. Depth(g) <= 0
    <2>1. Absolute(g[side[1]]) = Inflated[side[1]]
      <3>1. Inflated[side[1]] \in Nat
        BY <1>2, BlockSizes
      <3>2. CASE side[2] = 1
        BY <1>9, <3>1, <3>2 DEF Absolute
      <3>3. CASE side[2] = -1
        BY <1>9, <3>1, <3>3 DEF Absolute
      <3>4. QED
        BY <1>2, <3>2, <3>3
    <2>2. Physical[side[1]] - Absolute(g[side[1]]) <= 0
      BY <1>2, <2>1, BlockSizes
    <2>3. \A i \in Axes2 : Physical[i] - Absolute(g[i]) \in Int
      <3>1. \A n \in Int : Absolute(n) \in Int
        BY DEF Absolute
      <3>2. QED
        BY <1>8, <3>1, BlockSizes
    <2> DEFINE d1 == Physical[1] - Absolute(g[1])
               d2 == Physical[2] - Absolute(g[2])
    <2>4. d1 \in Int /\ d2 \in Int /\ (d1 <= 0 \/ d2 <= 0)
      BY <1>2, <2>2, <2>3 DEF Axes2
    <2>5. Depth(g) = Least(d1, d2)
      BY DEF Depth
    <2> HIDE DEF d1, d2
    <2>6. QED
      BY <2>4, <2>5 DEF Least
  <1>12. QED
    BY <1>1, <1>6, <1>7, <1>10, <1>11 DEF g

-----------------------------------------------------------------------------
(* The planner: a feasible candidate                                       *)

\* A segment that meets the block as the finger sees it also meets the inflated block.
LEMMA MeetsInflated ==
  ASSUME NEW p \in Points, NEW q \in Points, Meets(p, q, Physical)
  PROVE  Meets(p, q, Inflated)
  <1> DEFINE x == Absolute(q[1] - p[1])
             y == Absolute(q[2] - p[2])
             cross == Absolute(p[1] * q[2] - p[2] * q[1])
  <1>1. p[1] \in Int /\ p[2] \in Int /\ q[1] \in Int /\ q[2] \in Int
    BY DEF Points
  <1>2. x \in Nat /\ y \in Nat /\ cross \in Int
    BY <1>1 DEF Absolute
  <1>3. \A i \in Axes2 : Greatest(p[i], q[i]) > -Inflated[i] /\ Least(p[i], q[i]) < Inflated[i]
    <2>1. ASSUME NEW i \in Axes2
          PROVE  Greatest(p[i], q[i]) > -Inflated[i] /\ Least(p[i], q[i]) < Inflated[i]
      <3>1. Greatest(p[i], q[i]) > -Physical[i] /\ Least(p[i], q[i]) < Physical[i]
        BY DEF Meets
      <3>2. Greatest(p[i], q[i]) \in Int /\ Least(p[i], q[i]) \in Int
        BY <1>1 DEF Greatest, Least, Axes2
      <3>3. Physical[i] \in Nat /\ Inflated[i] \in Nat /\ Physical[i] <= Inflated[i]
        BY BlockSizes
      <3>4. QED
        BY <3>1, <3>2, <3>3
    <2>2. QED
      BY <2>1
  <1>4. p # q => cross < Inflated[1] * y + Inflated[2] * x
    <2> DEFINE a == Physical[1]
               b == Physical[2]
    <2>1. p # q => cross < a * y + b * x
      BY DEF Meets
    <2>2. a \in Nat /\ b \in Nat /\ Clearance \in Nat /\ Inflated[1] = a + Clearance /\ Inflated[2] = b + Clearance
      BY BlockSizes DEF Axes2
    <2> HIDE DEF a, b, x, y, cross
    <2>3. (a + Clearance) * y = a * y + Clearance * y /\ (b + Clearance) * x = b * x + Clearance * x
      BY <1>2, <2>2
    <2>4. Clearance * y >= 0 /\ Clearance * x >= 0 /\ Clearance * y \in Int /\ Clearance * x \in Int
          /\ a * y \in Int /\ b * x \in Int
      BY <1>2, <2>2
    <2>5. QED
      BY <1>2, <2>1, <2>2, <2>3, <2>4
  <1>5. QED
    BY <1>3, <1>4 DEF Meets

\* A segment in clear transit does not meet the block.
LEMMA TransitIsClear ==
  ASSUME NEW prob, NEW p \in Points, NEW q \in Points, ClearTransit(prob, p, q)
  PROVE  StaticClear(prob, p, q) /\ ~Meets(p, q, Physical)
  BY MeetsInflated DEF ClearTransit

\* The first way out of the inflated block is clear, or it leaves a shallow contact.
LEMMA RetractionIsShallow ==
  ASSUME NEW p \in Points, NEW q \in Points, OutwardRetraction(p, q), Meets(p, q, Physical)
  PROVE  Depth(p) <= Penetration
  <1>1. p[1] \in Int /\ p[2] \in Int
    BY DEF Points
  <1>2. PICK i \in Axes2 : LET sign == IF p[i] >= 0 THEN 1 ELSE -1
                               depth == Physical[i] - sign * p[i]
                           IN  depth <= Penetration
    BY DEF OutwardRetraction
  <1>3. p[i] \in Int /\ Physical[i] \in Nat /\ Penetration \in Nat
    BY <1>1, BlockSizes DEF Axes2
  <1>4. Physical[i] - Absolute(p[i]) <= Penetration
    <2>1. CASE p[i] >= 0
      BY <1>2, <1>3, <2>1 DEF Absolute
    <2>2. CASE ~(p[i] >= 0)
      BY <1>2, <1>3, <2>2 DEF Absolute
    <2>3. QED
      BY <2>1, <2>2
  <1> DEFINE d1 == Physical[1] - Absolute(p[1])
             d2 == Physical[2] - Absolute(p[2])
  <1>5. d1 \in Int /\ d2 \in Int
    BY <1>1, BlockSizes DEF Absolute, Axes2
  <1>6. d1 <= Penetration \/ d2 <= Penetration
    BY <1>4 DEF Axes2
  <1>7. Depth(p) = Least(d1, d2)
    BY DEF Depth
  <1> HIDE DEF d1, d2
  <1>8. QED
    BY <1>3, <1>5, <1>6, <1>7 DEF Least

\* The points of a candidate before repetitions are dropped: the reference, the finger, the
\* shortened way and the contact.
Way(prob, side, direction) ==
    LET around == PerimeterPoints(Anchor(prob, side), Outer(prob), direction)
    IN  IF InsideInflation(prob) THEN around ELSE <<prob.finger>> \o around
Whole(prob, short) ==
    <<prob.reference>> \o ((IF InsideInflation(prob) THEN <<prob.finger>> ELSE << >>) \o short
                           \o <<Contact(prob)>>)

\* A candidate in the terms of Way and Whole.
LEMMA CandidateIs ==
  ASSUME NEW prob, NEW side, NEW direction
  PROVE  LET short == Shortened(prob, Way(prob, side, direction)) IN
         Candidate(prob, side, direction) =
            [short |-> short, side |-> side, route |-> Compact(Whole(prob, short))]
  BY Zenon DEF Candidate, Way, Whole

\* Which legs may meet the block: none but the second, and that out of a shallow contact only.
Leading(prob, points) ==
    /\ points \in Seq(Points) /\ Len(points) > 2
    /\ points[2] = prob.finger
    /\ points[Len(points)] = Contact(prob) /\ points[Len(points) - 1] = Outer(prob)
    /\ \A i \in 2 .. Len(points) - 1 :
          /\ StaticClear(prob, points[i], points[i + 1])
          /\ Meets(points[i], points[i + 1], Physical) =>
                i = 2 /\ Depth(points[2]) <= Penetration /\ Depth(points[3]) <= 0

\* A feasible candidate compacts points that lead from the finger to the contact.
LEMMA FeasibleLeads ==
  ASSUME NEW prob \in Problem, NEW side \in Faces, NEW direction \in {-1, 1},
         Feasible(prob, Candidate(prob, side, direction))
  PROVE  \E points : /\ Leading(prob, points) /\ points[1] = prob.reference
                     /\ Candidate(prob, side, direction).route = Compact(points)
  <1> DEFINE way == Way(prob, side, direction)
             short == Shortened(prob, way)
             anchor == Anchor(prob, side)
             inside == InsideInflation(prob)
             whole == Whole(prob, short)
             m == Len(short)
  <1>1. /\ Outer(prob) \in Points /\ Contact(prob) \in Points /\ anchor \in Points /\ Depth(anchor) <= 0
        /\ prob.finger \in Points /\ prob.reference \in Points
    BY Aims
  <1>2. way \in Seq(Points) /\ Len(way) > 0 /\ way[Len(way)] = Outer(prob)
        /\ way[1] = IF inside THEN anchor ELSE prob.finger
    <2> DEFINE around == PerimeterPoints(anchor, Outer(prob), direction)
    <2>1. around \in Seq(Points) /\ Len(around) > 0 /\ around[1] = anchor /\ around[Len(around)] = Outer(prob)
      <3> DEFINE end == Outer(prob)
      <3>1. anchor \in Points /\ end \in Points
        BY <1>1
      <3> HIDE DEF anchor, end
      <3>2. LET all == PerimeterPoints(anchor, end, direction) IN
            all \in Seq(Points) /\ Len(all) > 0 /\ all[1] = anchor /\ all[Len(all)] = end
        BY <3>1, WayRound
      <3>3. QED
        BY <3>2 DEF end
    <2>2. way = IF inside THEN around ELSE <<prob.finger>> \o around
      BY Zenon DEF Way
    <2> HIDE DEF around, way, inside, anchor
    <2>3. <<prob.finger>> \in Seq(Points)
      BY <1>1
    <2>4. CASE inside
      BY <2>1, <2>2, <2>4
    <2>5. CASE ~inside
      BY <2>1, <2>2, <2>3, <2>5
    <2>6. QED
      BY <2>4, <2>5
  <1> HIDE DEF way
  <1>3. short \in Seq(Points) /\ m > 0 /\ short[1] = way[1] /\ short[m] = Outer(prob)
    BY <1>2, ShortenedEnds
  <1>4. /\ Candidate(prob, side, direction).short = short /\ Candidate(prob, side, direction).side = side
        /\ Candidate(prob, side, direction).route = Compact(whole)
    BY CandidateIs DEF way
  <1> HIDE DEF short
  <1>5. /\ StaticClear(prob, Outer(prob), Contact(prob)) /\ ~Meets(Outer(prob), Contact(prob), Physical)
        /\ StaticClear(prob, prob.finger, anchor) /\ OutwardRetraction(prob.finger, anchor)
        /\ \A k \in 1 .. m - 1 : ClearTransit(prob, short[k], short[k + 1])
    <2> DEFINE c == Candidate(prob, side, direction)
    <2>1. c.short = short /\ c.side = side /\ Feasible(prob, c)
      BY <1>4
    <2> HIDE DEF c
    <2>2. QED
      BY <2>1 DEF Feasible, CommonClear
  <1>6. ASSUME NEW k \in 1 .. m - 1
        PROVE  StaticClear(prob, short[k], short[k + 1]) /\ ~Meets(short[k], short[k + 1], Physical)
    <2>1. short[k] \in Points /\ short[k + 1] \in Points
      BY <1>3
    <2>2. QED
      BY <1>5, <2>1, TransitIsClear
  <1>7. CASE inside
    <2>1. whole = <<prob.reference>> \o (<<prob.finger>> \o short \o <<Contact(prob)>>)
      BY <1>7, Zenon DEF Whole
    <2>2. /\ whole \in Seq(Points) /\ Len(whole) = m + 3 /\ whole[1] = prob.reference
          /\ whole[2] = prob.finger /\ whole[m + 3] = Contact(prob)
          /\ \A k \in 1 .. m : whole[k + 2] = short[k]
      <3> HIDE DEF whole, m
      <3>1. <<prob.reference>> \in Seq(Points) /\ <<prob.finger>> \in Seq(Points) /\ <<Contact(prob)>> \in Seq(Points)
        BY <1>1
      <3>2. QED
        BY <1>3, <2>1, <3>1 DEF m
    <2> HIDE DEF whole
    <2>3. m \in Nat /\ m > 0
      BY <1>3
    <2> HIDE DEF m
    <2>4. short[1] = anchor
      BY <1>2, <1>3, <1>7
    <2>5. whole[3] = anchor
      <3>1. 1 \in 1 .. m /\ 1 + 2 = 3
        BY <2>3
      <3>2. whole[1 + 2] = short[1]
        BY <2>2, <3>1
      <3>3. QED
        BY <2>4, <3>1, <3>2
    <2>6. whole[m + 2] = Outer(prob)
      BY <1>3, <2>2, <2>3
    <2>7. ASSUME NEW i \in 2 .. m + 2
          PROVE  /\ StaticClear(prob, whole[i], whole[i + 1])
                 /\ Meets(whole[i], whole[i + 1], Physical) =>
                       i = 2 /\ Depth(whole[2]) <= Penetration /\ Depth(whole[3]) <= 0
      <3>1. CASE i = 2
        <4>1. whole[i] = prob.finger /\ whole[i + 1] = anchor
          BY <2>2, <2>5, <3>1
        <4>2. Meets(prob.finger, anchor, Physical) => Depth(prob.finger) <= Penetration
          <5> HIDE DEF anchor
          <5>1. QED
            BY <1>1, <1>5, RetractionIsShallow
        <4> HIDE DEF anchor
        <4>3. QED
          BY <1>1, <1>5, <2>2, <2>5, <3>1, <4>1, <4>2
      <3>2. CASE i = m + 2
        <4>1. whole[i] = Outer(prob) /\ whole[i + 1] = Contact(prob)
          <5>1. (m + 2) + 1 = m + 3
            BY <2>3
          <5>2. QED
            BY <2>2, <2>6, <3>2, <5>1
        <4>2. QED
          BY <1>5, <4>1
      <3>3. CASE i # 2 /\ i # m + 2
        <4> DEFINE k == i - 2
        <4>1. k \in 1 .. m - 1 /\ k \in 1 .. m /\ k + 1 \in 1 .. m /\ k + 2 = i /\ (k + 1) + 2 = i + 1
          BY <2>3, <3>3
        <4> HIDE DEF k
        <4>2. whole[i] = short[k] /\ whole[i + 1] = short[k + 1]
          BY <2>2, <4>1
        <4>3. QED
          BY <1>6, <4>1, <4>2
      <3>4. QED
        BY <3>1, <3>2, <3>3
    <2>8. Leading(prob, whole)
      <3>1. (m + 3) - 1 = m + 2 /\ m + 3 > 2
        BY <2>3
      <3>2. QED
        BY <2>2, <2>6, <2>7, <3>1 DEF Leading
    <2>9. QED
      BY <1>4, <2>2, <2>8
  <1>8. CASE ~inside
    <2>1. whole = <<prob.reference>> \o (<< >> \o short \o <<Contact(prob)>>)
      BY <1>8, Zenon DEF Whole
    <2>2. /\ whole \in Seq(Points) /\ Len(whole) = m + 2 /\ whole[1] = prob.reference
          /\ whole[m + 2] = Contact(prob)
          /\ \A k \in 1 .. m : whole[k + 1] = short[k]
      <3> HIDE DEF whole, m
      <3>1. <<prob.reference>> \in Seq(Points) /\ << >> \in Seq(Points) /\ <<Contact(prob)>> \in Seq(Points)
        BY <1>1
      <3>2. QED
        BY <1>3, <2>1, <3>1 DEF m
    <2> HIDE DEF whole
    <2>3. m \in Nat /\ m > 0
      BY <1>3
    <2> HIDE DEF m
    <2>4. whole[2] = prob.finger
      <3>1. 1 \in 1 .. m /\ 1 + 1 = 2
        BY <2>3
      <3>2. whole[1 + 1] = short[1]
        BY <2>2, <3>1
      <3>3. QED
        BY <1>2, <1>3, <1>8, <3>1, <3>2
    <2>5. whole[m + 1] = Outer(prob)
      BY <1>3, <2>2, <2>3
    <2>6. ASSUME NEW i \in 2 .. m + 1
          PROVE  StaticClear(prob, whole[i], whole[i + 1]) /\ ~Meets(whole[i], whole[i + 1], Physical)
      <3>1. CASE i = m + 1
        <4>1. whole[i] = Outer(prob) /\ whole[i + 1] = Contact(prob)
          <5>1. (m + 1) + 1 = m + 2
            BY <2>3
          <5>2. QED
            BY <2>2, <2>5, <3>1, <5>1
        <4>2. QED
          BY <1>5, <4>1
      <3>2. CASE i # m + 1
        <4> DEFINE k == i - 1
        <4>1. k \in 1 .. m - 1 /\ k \in 1 .. m /\ k + 1 \in 1 .. m /\ k + 1 = i /\ (k + 1) + 1 = i + 1
          BY <2>3, <3>2
        <4> HIDE DEF k
        <4>2. whole[i] = short[k] /\ whole[i + 1] = short[k + 1]
          BY <2>2, <4>1
        <4>3. QED
          BY <1>6, <4>1, <4>2
      <3>3. QED
        BY <3>1, <3>2
    <2>7. Leading(prob, whole)
      <3>1. (m + 2) - 1 = m + 1 /\ m + 2 > 2
        BY <2>3
      <3>2. QED
        BY <2>2, <2>4, <2>5, <2>6, <3>1 DEF Leading
    <2>8. QED
      BY <1>4, <2>2, <2>7
  <1>9. QED
    BY <1>7, <1>8

\* What RouteIsAdmissible asks of the planned route.
Admissible(prob, points) ==
    LET first == IF points[1] = prob.finger THEN 1 ELSE 2
    IN  /\ points[first] = prob.finger /\ points[Len(points)] = Contact(prob)
        /\ \A k \in first + 1 .. Len(points) : \A i \in Axes2 : points[k][i] \in prob.low[i] .. prob.high[i]
        /\ \A k \in first .. Len(points) - 1 :
              Meets(points[k], points[k + 1], Physical) =>
                  k = first /\ Depth(points[k]) <= Penetration /\ Depth(points[k + 1]) <= 0

\* What leads to the contact is admissible without its repetitions.
LEMMA CompactIsAdmissible ==
  ASSUME NEW prob \in Problem, NEW points, Leading(prob, points)
  PROVE  /\ Compact(points) \in Seq(Points) /\ Len(Compact(points)) > 1
         /\ Admissible(prob, Compact(points))
  <1> DEFINE n == Len(points)
             c == Compact(points)
  <1>1. points \in Seq(Points) /\ n \in Nat /\ n > 2 /\ n \in Nat \ {0}
    BY DEF Leading
  <1>2. points[2] = prob.finger /\ points[n] = Contact(prob) /\ points[n - 1] = Outer(prob)
    BY DEF Leading
  <1>3. \A i \in 2 .. n - 1 :
          /\ StaticClear(prob, points[i], points[i + 1])
          /\ Meets(points[i], points[i + 1], Physical) =>
                i = 2 /\ Depth(points[2]) <= Penetration /\ Depth(points[3]) <= 0
    BY DEF Leading
  <1>4. c \in Seq(Points) /\ \E at : Places(points, c, at)
    BY <1>1, CompactPlaces
  <1>5. PICK at : Places(points, c, at)
    BY <1>4
  <1> HIDE DEF c
  <1>6. Len(c) \in Nat
    BY <1>4
  <1> HIDE DEF n
  <1>7. /\ at[1] = 1 /\ at[n] = Len(c)
        /\ \A i \in 1 .. n : at[i] \in 1 .. Len(c) /\ c[at[i]] = points[i]
        /\ \A i \in 1 .. n - 1 : at[i + 1] = IF points[i + 1] = points[i] THEN at[i] ELSE at[i] + 1
    BY <1>5 DEF Places, n
  <1> DEFINE first == IF c[1] = prob.finger THEN 1 ELSE 2
  <1>8. at[2] = first /\ c[1] = points[1]
    <2>1. 1 \in 1 .. n /\ 1 \in 1 .. n - 1 /\ 1 + 1 = 2
      BY <1>1
    <2>2. c[1] = points[1]
      BY <1>7, <2>1
    <2>3. at[1 + 1] = IF points[1 + 1] = points[1] THEN at[1] ELSE at[1] + 1
      BY <1>7, <2>1
    <2>4. QED
      BY <1>2, <1>7, <2>1, <2>2, <2>3
  <1>9. \A i \in 2 .. n : at[2] <= at[i]
    <2>1. 2 \in 1 .. Len(points)
      BY <1>1 DEF n
    <2>2. \A i \in 2 .. Len(points) : at[2] <= at[i]
      BY <1>1, <1>5, <1>6, <2>1, PlacesGrow DEF n
    <2>3. QED
      BY <2>2 DEF n
  <1>10. first \in {1, 2} /\ first <= Len(c)
    BY <1>1, <1>7, <1>8
  <1>11. ASSUME NEW k \in first .. Len(c) - 1
         PROVE  \E i \in 2 .. n - 1 : /\ points[i] = c[k] /\ points[i + 1] = c[k + 1]
                                      /\ at[i] = k
    <2>1. k \in 1 .. Len(c) - 1
      BY <1>6, <1>10
    <2>2. Len(points) \in Nat \ {0}
      BY <1>1 DEF n
    <2>3. PICK i \in 1 .. n - 1 : /\ at[i] = k /\ at[i + 1] = k + 1
                                  /\ points[i] = c[k] /\ points[i + 1] = c[k + 1]
      <3>1. \E i \in 1 .. Len(points) - 1 : /\ at[i] = k /\ at[i + 1] = k + 1
                                            /\ points[i] = c[k] /\ points[i + 1] = c[k + 1]
        BY <1>5, <1>6, <2>1, <2>2, CompactPairs
      <3>2. QED
        BY <3>1 DEF n
    <2>4. i # 1
      <3>1. SUFFICES ASSUME i = 1 PROVE FALSE
        OBVIOUS
      <3>2. k = 1 /\ at[2] = 2
        BY <1>7, <2>3, <3>1
      <3>3. first = 2
        BY <1>8, <3>2
      <3> HIDE DEF first
      <3>4. QED
        BY <1>6, <3>2, <3>3
    <2>5. QED
      BY <1>1, <2>3, <2>4
  <1> DEFINE outer == at[n - 1]
  <1>12. Len(c) > first /\ c[first] = prob.finger /\ c[Len(c)] = Contact(prob)
    <2>1. n - 1 \in 1 .. n - 1 /\ n - 1 \in 2 .. n /\ n - 1 \in 1 .. n /\ (n - 1) + 1 = n /\ n \in 1 .. n /\ 2 \in 1 .. n
      BY <1>1
    <2>2. points[n] # points[n - 1]
      BY <1>2, Aims DEF Problem
    <2>3. at[n] = at[n - 1] + 1
      BY <1>7, <2>1, <2>2
    <2>4. first <= at[n - 1] /\ at[n - 1] \in 1 .. Len(c)
      BY <1>7, <1>8, <1>9, <2>1
    <2>5. c[at[2]] = points[2] /\ c[at[n]] = points[n]
      BY <1>7, <2>1
    <2>6. c[first] = prob.finger /\ c[Len(c)] = Contact(prob)
      BY <1>2, <1>7, <1>8, <2>5
    <2> HIDE DEF first
    <2>7. QED
      BY <1>6, <1>7, <1>10, <2>3, <2>4, <2>6
  <1>13. Len(c) > 1
    BY <1>6, <1>10, <1>12
  <1> HIDE DEF first
  <1>14. ASSUME NEW k \in first + 1 .. Len(c), NEW j \in Axes2
         PROVE  c[k][j] \in prob.low[j] .. prob.high[j]
    <2> DEFINE l == k - 1
    <2>1. l \in first .. Len(c) - 1 /\ l + 1 = k
      BY <1>6, <1>10
    <2> HIDE DEF l
    <2>2. PICK i \in 2 .. n - 1 : points[i] = c[l] /\ points[i + 1] = c[l + 1]
      BY <1>11, <2>1
    <2>3. StaticClear(prob, points[i], points[i + 1])
      BY <1>3
    <2>4. QED
      BY <2>1, <2>2, <2>3 DEF StaticClear
  <1>15. ASSUME NEW k \in first .. Len(c) - 1, Meets(c[k], c[k + 1], Physical)
         PROVE  k = first /\ Depth(c[k]) <= Penetration /\ Depth(c[k + 1]) <= 0
    <2>1. PICK i \in 2 .. n - 1 : points[i] = c[k] /\ points[i + 1] = c[k + 1] /\ at[i] = k
      BY <1>11
    <2>2. i = 2 /\ Depth(points[2]) <= Penetration /\ Depth(points[3]) <= 0
      BY <1>3, <1>15, <2>1
    <2>3. i + 1 = 3
      BY <2>2
    <2>4. QED
      BY <1>8, <2>1, <2>2, <2>3
  <1>16. Admissible(prob, c)
    BY <1>12, <1>14, <1>15 DEF Admissible, first
  <1>17. QED
    BY <1>4, <1>13, <1>16 DEF c

\* What the planner answers to an observation.
LEMMA PlannedIsAdmissible ==
  ASSUME NEW observed \in Problems, NEW r \in Planned[observed]
  PROVE  r \in Seq(Points) /\ Len(r) > 1 /\ Admissible(observed, r)
  <1>1. observed \in Problem
    BY ObservationAssumption
  <1>2. r \in Routes(observed)
    BY DEF Planned
  <1>3. PICK side \in Faces, direction \in {-1, 1} :
            /\ Feasible(observed, Candidate(observed, side, direction))
            /\ r = Candidate(observed, side, direction).route
    <2> DEFINE candidates == {Candidate(observed, side, direction) : side \in Faces, direction \in {-1, 1}}
    <2>0. Routes(observed) = {c.route : c \in {d \in candidates : Feasible(observed, d)}}
      BY DEF Routes
    <2>1. r \in {c.route : c \in {d \in candidates : Feasible(observed, d)}}
      BY <1>2, <2>0
    <2> HIDE DEF candidates
    <2>2. PICK c \in {d \in candidates : Feasible(observed, d)} : r = c.route
      BY <2>1
    <2>3. c \in candidates /\ Feasible(observed, c)
      BY <2>2
    <2>4. \E side \in Faces, direction \in {-1, 1} : c = Candidate(observed, side, direction)
      BY <2>3 DEF candidates
    <2>5. QED
      BY <2>2, <2>3, <2>4
  <1>4. PICK points : Leading(observed, points) /\ r = Compact(points)
    BY <1>1, <1>3, FeasibleLeads
  <1>5. QED
    BY <1>1, <1>4, CompactIsAdmissible

-----------------------------------------------------------------------------
(* The controller of an episode: the deadlines                             *)

\* A quotient grows by one at least when its dividend grows by the divisor.
LEMMA QuotientGrows ==
  ASSUME NEW a \in Nat, NEW b \in Nat, NEW d \in Nat \ {0}, a + d <= b
  PROVE  a \div d \in Nat /\ b \div d \in Nat /\ a \div d < b \div d
  <1> DEFINE p == a \div d
             q == b \div d
  <1>1. p \in Nat /\ q \in Nat
    OBVIOUS
  <1>2. d * p <= a /\ b < d * (q + 1)
    OBVIOUS
  <1>3. d * (p + 1) < d * (q + 1)
    BY <1>1, <1>2
  <1>4. p < q
    BY <1>1, <1>3
  <1>5. QED
    BY <1>1, <1>4

LEMMA QuotientBounded ==
  ASSUME NEW a \in Nat, NEW d \in Nat \ {0}, NEW n \in Nat, a < d * n
  PROVE  a \div d < n
  <1> DEFINE q == a \div d
  <1>1. q \in Nat /\ d * q <= a
    OBVIOUS
  <1>2. d * q < d * n
    BY <1>1
  <1>3. q < n
    BY <1>1, <1>2
  <1>4. QED
    BY <1>3

Durations == raw \in [1 .. 3 -> Shortest .. Shortest + Stretch]

LEMMA Sizes ==
  /\ Reach \in Nat \ {0} /\ Period \in Nat \ {0} /\ Shortest \in Nat \ {0}
  /\ MotionCap \in Nat \ {0} /\ Stretch \in Nat /\ HoldStart \in Nat /\ LastPeriod \in Nat
  /\ Period <= Shortest
  BY TimeAssumption

\* Scaled down with the others, a duration still spans a period of the scaled time.
LEMMA ScaledSlot ==
  ASSUME NEW r \in Nat, NEW s \in Nat, NEW t \in Nat, Shortest <= r, Shortest <= s, Shortest <= t,
         r <= Shortest + Stretch, s <= Shortest + Stretch, t <= Shortest + Stretch
  PROVE  (r + s + t) * Period <= r * MotionCap
  <1> USE Sizes
  <1> DEFINE wide == Shortest + Stretch
  <1>1. Shortest * MotionCap >= Period * (3 * Shortest + 2 * Stretch)
    BY TimeAssumption
  <1>2. Shortest * (MotionCap - Period) >= Period * (2 * wide)
    BY <1>1
  <1>3. MotionCap - Period >= 0
    <2>1. Period * (2 * wide) >= 0
      OBVIOUS
    <2>2. QED
      BY <1>2, <2>1
  <1>4. r * (MotionCap - Period) >= Shortest * (MotionCap - Period)
    <2> DEFINE m == MotionCap - Period
    <2>1. m \in Nat
      BY <1>3
    <2>2. r * m >= Shortest * m
      BY <2>1
    <2>3. QED
      BY <2>2
  <1>5. Period * (s + t) <= Period * (2 * wide)
    <2> DEFINE x == s + t
               y == 2 * wide
    <2>1. x \in Nat /\ y \in Nat /\ x <= y
      OBVIOUS
    <2>2. Period * x <= Period * y
      BY <2>1
    <2>3. QED
      BY <2>2
  <1>6. Period * (s + t) <= r * (MotionCap - Period)
    BY <1>2, <1>4, <1>5
  <1>7. r * (MotionCap - Period) = r * MotionCap - r * Period
    OBVIOUS
  <1>8. (r + s + t) * Period = r * Period + Period * (s + t)
    OBVIOUS
  <1>9. Period * (s + t) \in Int /\ r * MotionCap \in Int /\ r * Period \in Int
    OBVIOUS
  <1>10. QED
    BY <1>6, <1>7, <1>8, <1>9

LEMMA DeadlinesIncrease ==
  ASSUME Durations
  PROVE  /\ Deadline(1) \in Nat /\ Deadline(2) \in Nat /\ Deadline(3) \in Nat
         /\ 0 < Deadline(1) /\ Deadline(1) < Deadline(2) /\ Deadline(2) < Deadline(3)
         /\ Deadline(3) <= HoldStart
  <1> USE Sizes
  <1> DEFINE r == raw[1]
             s == raw[2]
             t == raw[3]
             sum == r + s + t
  <1>1. /\ r \in Nat /\ s \in Nat /\ t \in Nat
        /\ Shortest <= r /\ Shortest <= s /\ Shortest <= t
        /\ r <= Shortest + Stretch /\ s <= Shortest + Stretch /\ t <= Shortest + Stretch
    BY DEF Durations
  <1>2. Sum3 = sum /\ sum \in Nat \ {0}
    BY <1>1 DEF Sum3
  <1>3. HoldStart * Period > MotionCap
    BY TimeAssumption
  <1>4. CASE sum > MotionCap
    <2> DEFINE d == sum * Period
               D(w) == (w * MotionCap) \div d
    <2>1. d \in Nat \ {0}
      BY <1>2
    <2>2. Deadline(1) = D(r) /\ Deadline(2) = D(r + s) /\ Deadline(3) = D(sum)
      BY <1>4, <1>2 DEF Deadline
    <2>3. d <= r * MotionCap /\ d <= s * MotionCap /\ d <= t * MotionCap
      <3>1. (r + s + t) * Period <= r * MotionCap
        BY <1>1, ScaledSlot
      <3>2. (s + r + t) * Period <= s * MotionCap
        BY <1>1, ScaledSlot
      <3>3. (t + r + s) * Period <= t * MotionCap
        BY <1>1, ScaledSlot
      <3>4. s + r + t = sum /\ t + r + s = sum
        BY <1>1
      <3>5. QED
        BY <3>1, <3>2, <3>3, <3>4
    <2> DEFINE x == r * MotionCap
               y == (r + s) * MotionCap
               z == sum * MotionCap
    <2>4. /\ x \in Nat /\ y \in Nat /\ z \in Nat /\ s * MotionCap \in Nat /\ t * MotionCap \in Nat
          /\ y = x + s * MotionCap /\ z = y + t * MotionCap
      BY <1>1
    <2>5. 0 + d <= x /\ x + d <= y /\ y + d <= z
      <3> HIDE DEF d, y, z
      <3>1. QED
        BY <2>1, <2>3, <2>4
    <2>6. D(r) \in Nat /\ D(r + s) \in Nat /\ D(r) < D(r + s)
      <3>1. x \div d \in Nat /\ y \div d \in Nat /\ x \div d < y \div d
        BY <2>1, <2>4, <2>5, QuotientGrows
      <3>2. QED
        BY <3>1
    <2>7. D(sum) \in Nat /\ D(r + s) < D(sum)
      <3>1. z \div d \in Nat /\ y \div d < z \div d
        BY <2>1, <2>4, <2>5, QuotientGrows
      <3>2. QED
        BY <3>1
    <2>8. 0 < D(r)
      <3>1. 0 \div d \in Nat /\ 0 \div d < x \div d
        BY <2>1, <2>4, <2>5, QuotientGrows
      <3>2. QED
        BY <3>1, <2>6
    <2>9. D(sum) < HoldStart
      <3>1. MotionCap < Period * HoldStart
        BY <1>3
      <3>2. sum * MotionCap < sum * (Period * HoldStart)
        <4> DEFINE u == Period * HoldStart
        <4>1. u \in Nat /\ MotionCap < u
          BY <3>1
        <4>2. sum * MotionCap < sum * u
          BY <4>1, <1>2
        <4>3. QED
          BY <4>2
      <3>3. sum * (Period * HoldStart) = d * HoldStart
        BY <1>2
      <3>4. z < d * HoldStart
        BY <3>2, <3>3
      <3>5. z \div d < HoldStart
        BY <3>4, <2>1, <2>4, QuotientBounded
      <3>6. QED
        BY <3>5
    <2>10. QED
      BY <2>2, <2>6, <2>7, <2>8, <2>9
  <1>5. CASE ~(sum > MotionCap)
    <2>1. /\ Deadline(1) = r \div Period /\ Deadline(2) = (r + s) \div Period
          /\ Deadline(3) = sum \div Period
      BY <1>5, <1>2 DEF Deadline
    <2>2. r + s \in Nat /\ 0 + Period <= r /\ r + Period <= r + s /\ (r + s) + Period <= sum
      BY <1>1
    <2>3. 0 \div Period < r \div Period /\ 0 \div Period \in Nat /\ r \div Period \in Nat
      BY <1>1, <2>2, QuotientGrows
    <2>4. r \div Period < (r + s) \div Period /\ (r + s) \div Period \in Nat
      BY <1>1, <2>2, QuotientGrows
    <2>5. (r + s) \div Period < sum \div Period /\ sum \div Period \in Nat
      BY <1>2, <2>2, QuotientGrows
    <2>6. sum < Period * HoldStart
      <3>1. sum <= MotionCap
        BY <1>2, <1>5
      <3>2. MotionCap < Period * HoldStart
        BY <1>3
      <3>3. QED
        BY <1>2, <3>1, <3>2
    <2>7. sum \div Period < HoldStart
      BY <1>2, <2>6, QuotientBounded
    <2>8. QED
      BY <2>1, <2>3, <2>4, <2>5, <2>7
  <1>6. QED
    BY <1>4, <1>5

-----------------------------------------------------------------------------
(* The slots                                                               *)

LEMMA Slots ==
  ASSUME Durations, NEW t \in Nat
  PROVE  StrokeAt(t) = IF t < Deadline(1) THEN 1 ELSE IF t < Deadline(2) THEN 2 ELSE 3
  <1> DEFINE past == {k \in 1 .. 3 : Deadline(k) <= t}
  <1>1. /\ Deadline(1) \in Nat /\ Deadline(2) \in Nat /\ Deadline(3) \in Nat
        /\ Deadline(1) < Deadline(2) /\ Deadline(2) < Deadline(3)
    BY DeadlinesIncrease
  <1>2. \A k \in 1 .. 3 : k = 1 \/ k = 2 \/ k = 3
    OBVIOUS
  <1>3. Cardinality({}) = 0 /\ IsFiniteSet({})
    BY FS_EmptySet
  <1>4. Cardinality({1}) = 1 /\ IsFiniteSet({1})
    BY FS_Singleton
  <1>5. Cardinality({1, 2}) = 2 /\ IsFiniteSet({1, 2})
    <2>1. {1, 2} = {1} \cup {2} /\ 2 \notin {1}
      OBVIOUS
    <2>2. QED
      BY <1>4, <2>1, FS_AddElement
  <1>6. Cardinality({1, 2, 3}) = 3
    <2>1. {1, 2, 3} = {1, 2} \cup {3} /\ 3 \notin {1, 2}
      OBVIOUS
    <2>2. QED
      BY <1>5, <2>1, FS_AddElement
  <1>7. StrokeAt(t) = Least(3, 1 + Cardinality(past))
    BY DEF StrokeAt
  <1>8. CASE t < Deadline(1)
    <2>1. past = {}
      BY <1>1, <1>2, <1>8
    <2>2. QED
      BY <1>3, <1>7, <1>8, <2>1 DEF Least
  <1>9. CASE Deadline(1) <= t /\ t < Deadline(2)
    <2>1. past = {1}
      BY <1>1, <1>2, <1>9
    <2>2. QED
      BY <1>1, <1>4, <1>7, <1>9, <2>1 DEF Least
  <1>10. CASE Deadline(2) <= t /\ t < Deadline(3)
    <2>1. past = {1, 2}
      BY <1>1, <1>2, <1>10
    <2>2. QED
      BY <1>1, <1>5, <1>7, <1>10, <2>1 DEF Least
  <1>11. CASE Deadline(3) <= t
    <2>1. past = {1, 2, 3}
      BY <1>1, <1>2, <1>11
    <2>2. QED
      BY <1>1, <1>6, <1>7, <1>11, <2>1 DEF Least
  <1>12. QED
    BY <1>1, <1>8, <1>9, <1>10, <1>11

-----------------------------------------------------------------------------
(* The inductive invariant                                                 *)

Modes == {"idle", "route", "blocked", "push", "hold"}
Row == [arrival : {"timeout", "blocked", "arrived"}, complete : BOOLEAN, missing : Int]

Typed ==
    /\ Durations
    /\ tick \in Nat /\ stroke \in 0 .. 3 /\ mode \in Modes /\ moving \in BOOLEAN
    /\ push \in [left : Nat, capped : Nat, executed : Nat]
    /\ rows \in Seq(Row)

\* Before the last deadline the stroke is the one of the period before; the hold begins with it.
Clock ==
    /\ stroke = 0 <=> tick = 0
    /\ mode = "idle" <=> tick = 0
    /\ 0 < tick /\ tick <= Deadline(3) => mode # "hold" /\ stroke = StrokeAt(tick - 1)
    /\ Deadline(3) < tick => mode = "hold" /\ ~moving
    /\ Len(rows) = IF mode = "hold" THEN 3 ELSE IF stroke = 0 THEN 0 ELSE stroke - 1

\* The reference heads for a waypoint of its route.
Underway ==
    mode = "route" =>
        /\ problem \in Problem /\ route \in Seq(Points)
        /\ waypoint \in 2 .. Len(route) /\ moved \in Nat

\* What is left of a push fits into the periods that are left to its stroke.
Budget ==
    mode = "push" =>
        /\ push.left + push.executed = push.capped
        /\ push.left <= Reach * (Deadline(stroke) + 1 - tick)
        /\ ~moving => push.left = 0

ControlInv == Typed /\ Clock /\ Underway /\ Budget /\ ArrivedMeansPushed

-----------------------------------------------------------------------------
(* What a step finds                                                       *)

LEMMA SameSchedule ==
  ASSUME raw' = raw
  PROVE  /\ Durations' <=> Durations
         /\ \A k : Deadline(k)' = Deadline(k)
         /\ \A t : StrokeAt(t)' = StrokeAt(t)
  <1>1. \A k : Deadline(k)' = Deadline(k)
    BY DEF Deadline, Sum3
  <1>2. QED
    BY <1>1 DEF Durations, StrokeAt

\* A slot that is over ended with the control period before.
LEMMA Boundary ==
  ASSUME Typed, Clock, tick <= Deadline(3), stroke # 0,
         StrokeAt(tick) # stroke \/ tick = Deadline(3)
  PROVE  /\ tick = Deadline(stroke) /\ tick > 0
         /\ tick < Deadline(3) => StrokeAt(tick) = stroke + 1 /\ stroke < 3
         /\ tick = Deadline(3) => stroke = 3
  <1>1. tick \in Nat /\ tick > 0 /\ tick - 1 \in Nat
    BY DEF Typed, Clock
  <1>2. /\ Deadline(1) \in Nat /\ Deadline(2) \in Nat /\ Deadline(3) \in Nat
        /\ 0 < Deadline(1) /\ Deadline(1) < Deadline(2) /\ Deadline(2) < Deadline(3)
    BY DeadlinesIncrease DEF Typed
  <1>3. stroke = StrokeAt(tick - 1)
    BY <1>1 DEF Clock
  <1>4. StrokeAt(tick) = IF tick < Deadline(1) THEN 1 ELSE IF tick < Deadline(2) THEN 2 ELSE 3
    BY <1>1, Slots DEF Typed
  <1>5. stroke = IF tick - 1 < Deadline(1) THEN 1 ELSE IF tick - 1 < Deadline(2) THEN 2 ELSE 3
    BY <1>1, <1>3, Slots DEF Typed
  <1>6. CASE tick - 1 < Deadline(1)
    BY <1>1, <1>2, <1>4, <1>5, <1>6
  <1>7. CASE Deadline(1) <= tick - 1 /\ tick - 1 < Deadline(2)
    BY <1>1, <1>2, <1>4, <1>5, <1>7
  <1>8. CASE Deadline(2) <= tick - 1
    BY <1>1, <1>2, <1>4, <1>5, <1>8
  <1>9. QED
    BY <1>1, <1>2, <1>6, <1>7, <1>8

\* The reference covers what is left of a push, or as much as one period allows.
LEMMA PushAdvances ==
  ASSUME Typed
  PROVE  /\ Gone \in Nat /\ Left \in Nat /\ Executed \in Nat
         /\ Left + Executed = push.left + push.executed
         /\ mode = "push" /\ moving => Left = Greatest(0, push.left - Reach)
  <1>1. /\ push.left \in Nat /\ push.capped \in Nat /\ push.executed \in Nat
        /\ Reach \in Nat /\ moving \in BOOLEAN
    BY Sizes DEF Typed
  <1>2. CASE moving /\ mode = "push"
    <2>1. Gone = IF Reach < push.left THEN Reach ELSE push.left
      BY <1>2 DEF Gone, Least
    <2>2. QED
      BY <1>1, <2>1 DEF Left, Executed, Greatest
  <1>3. CASE ~(moving /\ mode = "push")
    <2>1. Gone = 0
      BY <1>3 DEF Gone
    <2>2. QED
      BY <1>1, <1>3, <2>1 DEF Left, Executed
  <1>4. QED
    BY <1>2, <1>3

\* The summary of a stroke whose slot is over.
LEMMA SummaryOfEnded ==
  ASSUME Typed, Budget, mode \in {"route", "blocked", "push"}, stroke \in 1 .. 3,
         tick = Deadline(stroke)
  PROVE  /\ Summary(Left, Executed) \in Row
         /\ Summary(Left, Executed).arrival = "arrived" =>
                Summary(Left, Executed).complete /\ Summary(Left, Executed).missing = 0
  <1> DEFINE row == Summary(Left, Executed)
  <1>1. /\ Left \in Nat /\ Executed \in Nat /\ Left + Executed = push.left + push.executed
        /\ push.left \in Nat /\ push.executed \in Nat /\ push.capped \in Nat
    BY PushAdvances DEF Typed
  <1>2. row \in Row
    BY <1>1 DEF Summary, Row
  <1>3. ASSUME row.arrival = "arrived" PROVE row.complete /\ row.missing = 0
    <2>1. mode = "push"
      BY <1>3 DEF Summary
    <2>2. Deadline(stroke) + 1 - tick = 1
      BY DEF Typed
    <2>3. push.left <= Reach
      BY <2>1, <2>2, Sizes DEF Budget
    <2>4. Left = 0
      <3>1. CASE moving
        BY <1>1, <2>1, <2>3, <3>1, PushAdvances, Sizes DEF Greatest
      <3>2. CASE ~moving
        <4>1. Gone = 0 /\ push.left = 0
          BY <2>1, <3>2 DEF Budget, Gone
        <4>2. QED
          BY <4>1 DEF Left
      <3>3. QED
        BY <3>1, <3>2
    <2>5. Executed = push.capped
      BY <1>1, <2>1, <2>4 DEF Budget
    <2>6. row.missing = 0
      BY <1>1, <2>5 DEF Summary
    <2>7. row.complete = (mode = "push" /\ Left = 0)
      BY DEF Summary
    <2>8. QED
      BY <2>1, <2>4, <2>6, <2>7
  <1>4. QED
    BY <1>2, <1>3

LEMMA RowAppended ==
  ASSUME rows \in Seq(Row), ArrivedMeansPushed, NEW row \in Row, rows' = Append(rows, row),
         row.arrival = "arrived" => row.complete /\ row.missing = 0
  PROVE  rows' \in Seq(Row) /\ Len(rows') = Len(rows) + 1 /\ ArrivedMeansPushed'
  <1>1. rows' \in Seq(Row) /\ Len(rows') = Len(rows) + 1
    OBVIOUS
  <1>2. \A k \in DOMAIN rows' : rows'[k] = row \/ (k \in DOMAIN rows /\ rows'[k] = rows[k])
    OBVIOUS
  <1>3. ArrivedMeansPushed'
    BY <1>2 DEF ArrivedMeansPushed
  <1>4. QED
    BY <1>1, <1>3

-----------------------------------------------------------------------------
(* One lemma per action                                                    *)

\* While a stroke runs its slot is not over, and the clock ticks within it.
LEMMA WithinSlot ==
  ASSUME Typed, Clock, raw' = raw, tick < Deadline(3), StrokeAt(tick) = stroke',
         tick' = tick + 1, mode' \in Modes \ {"hold", "idle"},
         Len(rows') = stroke' - 1
  PROVE  Clock' /\ Durations' /\ tick' \in Nat /\ stroke' \in 1 .. 3 /\ stroke' = StrokeAt(tick)
         /\ tick < Deadline(stroke')
  <1>1. /\ Deadline(1) \in Nat /\ Deadline(2) \in Nat /\ Deadline(3) \in Nat
        /\ 0 < Deadline(1) /\ Deadline(1) < Deadline(2) /\ Deadline(2) < Deadline(3)
    BY DeadlinesIncrease DEF Typed
  <1>2. tick \in Nat
    BY DEF Typed
  <1>3. StrokeAt(tick) = IF tick < Deadline(1) THEN 1 ELSE IF tick < Deadline(2) THEN 2 ELSE 3
    BY <1>2, Slots DEF Typed
  <1>4. Deadline(3)' = Deadline(3) /\ Durations'
    BY SameSchedule DEF Typed
  <1>5. tick' - 1 = tick /\ tick' > 0 /\ tick' <= Deadline(3)
    BY <1>1, <1>2
  <1>6. StrokeAt(tick - 1)' = StrokeAt(tick)
    BY <1>5, SameSchedule
  <1>7. stroke' \in 1 .. 3 /\ tick < Deadline(stroke')
    BY <1>1, <1>2, <1>3
  <1>8. Clock'
    <2>1. (stroke = 0 <=> tick = 0)'
      BY <1>5, <1>7
    <2>2. (mode = "idle" <=> tick = 0)'
      BY <1>5
    <2>3. mode' # "hold" /\ stroke' = (StrokeAt(tick - 1))'
      BY <1>6
    <2>4. ~(Deadline(3) < tick)'
      BY <1>1, <1>2, <1>4, <1>5
    <2>5. Len(rows') = IF mode' = "hold" THEN 3 ELSE IF stroke' = 0 THEN 0 ELSE stroke' - 1
      BY <1>7, <2>3
    <2>6. QED
      BY <2>1, <2>2, <2>3, <2>4, <2>5 DEF Clock
  <1>9. QED
    BY <1>2, <1>4, <1>5, <1>7, <1>8

LEMMA StartKeeps ==
  ASSUME ControlInv, Start
  PROVE  ControlInv'
  <1> USE DEF ControlInv
  <1>1. tick \in Nat /\ tick < Deadline(3) /\ StrokeAt(tick) # stroke /\ Deadline(3) \in Nat
    BY DeadlinesIncrease DEF Start, Typed
  <1>2. mode \in Modes \ {"hold"} /\ (stroke # 0 => mode # "idle")
    BY <1>1 DEF Typed, Clock, Modes
  <1>3. rows' \in Seq(Row) /\ Len(rows') = stroke' - 1 /\ ArrivedMeansPushed'
    <2>1. CASE stroke = 0
      <3>1. rows' = rows /\ tick = 0 /\ Len(rows) = 0
        BY <1>2, <2>1 DEF Start, Clock
      <3>2. StrokeAt(0) = 1
        BY DeadlinesIncrease, Slots DEF Typed
      <3>3. stroke' = 1
        BY <3>1, <3>2 DEF Start
      <3>4. QED
        BY <3>1, <3>3 DEF Typed, ArrivedMeansPushed
    <2>2. CASE stroke # 0
      <3>1. /\ tick = Deadline(stroke) /\ stroke \in 1 .. 3 /\ stroke' = stroke + 1
            /\ mode \in {"route", "blocked", "push"}
        BY <1>1, <1>2, <2>2, Boundary DEF Start, Typed, Modes
      <3>2. /\ Summary(Left, Executed) \in Row
            /\ Summary(Left, Executed).arrival = "arrived" =>
                   Summary(Left, Executed).complete /\ Summary(Left, Executed).missing = 0
        BY <3>1, SummaryOfEnded
      <3>3. rows' = Append(rows, Summary(Left, Executed)) /\ rows \in Seq(Row)
        BY <2>2 DEF Start, Typed
      <3>4. rows' \in Seq(Row) /\ Len(rows') = Len(rows) + 1 /\ ArrivedMeansPushed'
        BY <3>2, <3>3, RowAppended
      <3>5. Len(rows) = stroke - 1
        BY <1>2, <2>2 DEF Clock
      <3>6. QED
        BY <3>1, <3>4, <3>5
    <2>3. QED
      BY <2>1, <2>2
  <1>4. /\ mode' \in {"route", "blocked"} /\ moving' \in BOOLEAN /\ problem' \in Problem
        /\ mode' = "route" => route' \in Seq(Points) /\ Len(route') > 1 /\ waypoint' = 2
    <2>1. problem' \in Problems /\ (mode' = "route" => route' \in Planned[problem'] /\ waypoint' = 2)
          /\ mode' \in {"route", "blocked"} /\ moving' \in BOOLEAN
      BY DEF Start
    <2>2. \A observed \in Problems : \A points \in Planned[observed] : points \in Seq(Points) /\ Len(points) > 1
      BY PlannedIsAdmissible
    <2>3. QED
      BY <2>1, <2>2, ObservationAssumption
  <1>5. raw' = raw /\ tick' = tick + 1 /\ stroke' = StrokeAt(tick) /\ moved' = 0
        /\ push' = [left |-> 0, capped |-> 0, executed |-> 0]
    BY DEF Start
  <1>6. Clock' /\ Durations' /\ tick' \in Nat /\ stroke' \in 1 .. 3
    BY <1>1, <1>3, <1>4, <1>5, WithinSlot DEF Modes
  <1>7. Typed'
    BY <1>3, <1>4, <1>5, <1>6 DEF Typed, Modes
  <1>8. Underway'
    BY <1>4, <1>5 DEF Underway
  <1>9. Budget'
    BY <1>4 DEF Budget
  <1>10. QED
    BY <1>3, <1>6, <1>7, <1>8, <1>9

\* What every action of a running stroke does to the clock and the summaries.
LEMMA RunningKeeps ==
  ASSUME Typed, Clock, ArrivedMeansPushed, raw' = raw, rows' = rows, stroke' = stroke,
         tick < Deadline(3), StrokeAt(tick) = stroke, tick' = tick + 1,
         mode \in {"route", "blocked", "push"}, mode' \in {"route", "blocked", "push"}
  PROVE  /\ Clock' /\ Durations' /\ tick' \in Nat /\ stroke' \in 0 .. 3 /\ rows' \in Seq(Row)
         /\ mode' \in Modes /\ ArrivedMeansPushed'
         /\ stroke \in 1 .. 3 /\ tick < Deadline(stroke) /\ Deadline(stroke) \in Nat
         /\ Deadline(stroke)' = Deadline(stroke)
  <1>1. Len(rows) = stroke - 1 /\ tick \in Nat
    <2>1. Deadline(1) \in Nat /\ Deadline(1) > 0 /\ StrokeAt(0) = 1
      BY DeadlinesIncrease, Slots DEF Typed
    <2>2. stroke # 0
      BY <2>1 DEF Clock, Typed
    <2>3. QED
      BY <2>2 DEF Clock, Typed
  <1>2. Clock' /\ Durations' /\ tick' \in Nat /\ stroke' \in 1 .. 3 /\ tick < Deadline(stroke')
    BY <1>1, WithinSlot DEF Modes
  <1>3. ArrivedMeansPushed'
    BY DEF ArrivedMeansPushed
  <1>4. stroke \in 1 .. 3 /\ Deadline(stroke) \in Nat
    <2>1. stroke \in {1, 2, 3}
      BY <1>2
    <2>2. QED
      BY <2>1, DeadlinesIncrease DEF Typed
  <1>5. Deadline(stroke)' = Deadline(stroke)
    BY SameSchedule
  <1>6. QED
    BY <1>2, <1>3, <1>4, <1>5 DEF Typed, Modes

LEMMA FollowKeeps ==
  ASSUME ControlInv, Follow
  PROVE  ControlInv'
  <1> USE DEF ControlInv
  <1>1. mode = "route" /\ UNCHANGED <<raw, stroke, problem, route, waypoint, mode, push, rows>>
        /\ tick < Deadline(3) /\ StrokeAt(tick) = stroke /\ tick' = tick + 1
    BY DEF Follow
  <1>2. Clock' /\ Durations' /\ tick' \in Nat /\ rows' \in Seq(Row) /\ ArrivedMeansPushed'
    BY <1>1, RunningKeeps
  <1>3. moving' \in BOOLEAN
    BY DEF Follow
  <1>4. Typed'
    BY <1>1, <1>2, <1>3 DEF Typed
  <1>5. Underway'
    <2>1. Advanced \in Nat
      BY <1>1 DEF Advanced, Underway
    <2>2. moved' \in Nat
      BY <2>1 DEF Follow
    <2>3. QED
      BY <1>1, <2>2 DEF Underway
  <1>6. Budget'
    BY <1>1 DEF Budget
  <1>7. QED
    BY <1>2, <1>4, <1>5, <1>6

LEMMA NextWaypointKeeps ==
  ASSUME ControlInv, NextWaypoint
  PROVE  ControlInv'
  <1> USE DEF ControlInv
  <1>1. mode = "route" /\ UNCHANGED <<raw, stroke, problem, route, mode, push, rows>>
        /\ tick < Deadline(3) /\ StrokeAt(tick) = stroke /\ tick' = tick + 1
        /\ waypoint # Len(route) /\ waypoint' = waypoint + 1 /\ moved' = 0 /\ moving' = TRUE
    BY DEF NextWaypoint, LastWaypoint
  <1>2. Clock' /\ Durations' /\ tick' \in Nat /\ rows' \in Seq(Row) /\ ArrivedMeansPushed'
    BY <1>1, RunningKeeps
  <1>3. Typed'
    BY <1>1, <1>2 DEF Typed
  <1>4. Underway'
    BY <1>1 DEF Underway
  <1>5. Budget'
    BY <1>1 DEF Budget
  <1>6. QED
    BY <1>2, <1>3, <1>4, <1>5

\* The length of a push: what is planned, capped by the time and by the room that are left.
LEMMA PushFits ==
  ASSUME ControlInv, Arrive, Deadline(stroke) \in Nat, tick < Deadline(stroke)
  PROVE  /\ push' \in [left : Nat, capped : Nat, executed : Nat]
         /\ push'.left + push'.executed = push'.capped
         /\ push'.left <= Reach * (Deadline(stroke) - tick)
         /\ moving' \in BOOLEAN /\ (~moving' => push'.left = 0)
  <1> DEFINE time == Reach * (Deadline(stroke) - tick)
             length(way) == Least(Least(way.length, time), Greatest(0, Room(OnLastLeg, way)))
  <1>1. PICK way \in Pushes :
          /\ push' = [left |-> length(way), capped |-> length(way), executed |-> 0]
          /\ moving' = (length(way) > 0)
    BY DEF Arrive, BeginPush, Remaining
  <1>2. time \in Nat
    BY Sizes DEF ControlInv, Typed
  <1>3. way.length \in Nat /\ way.axis \in Axes2
    BY ObservationAssumption
  <1>4. Room(OnLastLeg, way) \in Int
    <2>1. /\ problem \in Problem /\ route[waypoint] \in Points /\ route[waypoint - 1] \in Points
          /\ Advanced \in Nat
      BY DEF ControlInv, Underway, Arrive, Advanced
    <2>2. \A i \in Axes2 : OnLastLeg[i] \in Int
      <3> TAKE i \in Axes2
      <3>1. /\ route[waypoint][i] \in Int /\ route[waypoint - 1][i] \in Int
            /\ Advanced * Reach \in Int
        BY <2>1, Sizes DEF Points, Axes2
      <3>2. OnLastLeg[i] = route[waypoint - 1][i]
               + Clipped(route[waypoint][i] - route[waypoint - 1][i], Advanced * Reach)
        BY DEF OnLastLeg
      <3>3. QED
        BY <3>1, <3>2 DEF Clipped
    <2>3. problem.high[way.axis] \in Int /\ problem.low[way.axis] \in Int
      BY <1>3, <2>1 DEF Problem, Points, Axes2
    <2>4. QED
      BY <1>3, <2>2, <2>3 DEF Room
  <1>5. length(way) \in Nat /\ length(way) <= time
    BY <1>2, <1>3, <1>4 DEF Least, Greatest
  <1>6. QED
    <2> HIDE DEF length, time
    <2>1. push'.left + push'.executed = push'.capped /\ push'.left <= time
      BY <1>1, <1>2, <1>5
    <2>2. push' \in [left : Nat, capped : Nat, executed : Nat]
      BY <1>1, <1>5
    <2>3. moving' \in BOOLEAN /\ (~moving' => push'.left = 0)
      <3>1. CASE length(way) > 0
        BY <1>1, <3>1
      <3>2. CASE length(way) = 0
        BY <1>1, <3>2
      <3>3. QED
        BY <1>5, <3>1, <3>2
    <2>4. QED
      BY <2>1, <2>2, <2>3 DEF time

LEMMA ArriveKeeps ==
  ASSUME ControlInv, Arrive
  PROVE  ControlInv'
  <1> USE DEF ControlInv
  <1>1. mode = "route" /\ UNCHANGED <<raw, stroke, problem, route, waypoint, rows>>
        /\ tick < Deadline(3) /\ StrokeAt(tick) = stroke /\ tick' = tick + 1 /\ mode' = "push"
    BY DEF Arrive, BeginPush
  <1>2. /\ Clock' /\ Durations' /\ tick' \in Nat /\ rows' \in Seq(Row) /\ ArrivedMeansPushed'
        /\ tick < Deadline(stroke) /\ Deadline(stroke) \in Nat
        /\ Deadline(stroke)' = Deadline(stroke)
    BY <1>1, RunningKeeps
  <1>3. /\ push' \in [left : Nat, capped : Nat, executed : Nat]
        /\ push'.left + push'.executed = push'.capped
        /\ push'.left <= Reach * (Deadline(stroke) - tick)
        /\ moving' \in BOOLEAN /\ (~moving' => push'.left = 0)
    BY <1>2, PushFits
  <1>4. Typed'
    BY <1>1, <1>2, <1>3 DEF Typed, Modes
  <1>5. Underway'
    BY <1>1 DEF Underway
  <1>6. Budget'
    <2>1. Deadline(stroke)' + 1 - tick' = Deadline(stroke) - tick
      BY <1>1, <1>2 DEF Typed
    <2>2. QED
      BY <1>3, <2>1 DEF Budget
  <1>7. QED
    BY <1>2, <1>4, <1>5, <1>6

LEMMA PushKeeps ==
  ASSUME ControlInv, Push
  PROVE  ControlInv'
  <1> USE DEF ControlInv
  <1>1. /\ mode = "push" /\ UNCHANGED <<raw, stroke, problem, route, waypoint, moved, mode, rows>>
        /\ tick < Deadline(3) /\ StrokeAt(tick) = stroke /\ tick' = tick + 1
        /\ push' = [push EXCEPT !.left = Left, !.executed = Executed] /\ moving' = (Left > 0)
    BY DEF Push, plan
  <1>2. /\ Clock' /\ Durations' /\ tick' \in Nat /\ rows' \in Seq(Row) /\ ArrivedMeansPushed'
        /\ tick < Deadline(stroke) /\ Deadline(stroke) \in Nat
        /\ Deadline(stroke)' = Deadline(stroke)
    BY <1>1, RunningKeeps
  <1>3. /\ Left \in Nat /\ Executed \in Nat /\ Left + Executed = push.left + push.executed
        /\ push.left \in Nat /\ push.executed \in Nat /\ push.capped \in Nat
    BY PushAdvances DEF Typed
  <1>4. /\ push' \in [left : Nat, capped : Nat, executed : Nat]
        /\ push'.left = Left /\ push'.executed = Executed /\ push'.capped = push.capped
    BY <1>1, <1>3 DEF Typed
  <1>5. Typed'
    BY <1>1, <1>2, <1>3, <1>4 DEF Typed
  <1>6. Underway'
    BY <1>1 DEF Underway
  <1>7. Left <= Reach * (Deadline(stroke) - tick)
    <2> DEFINE n == Deadline(stroke) - tick
    <2>1. n \in Nat /\ Reach * n \in Nat /\ Deadline(stroke) + 1 - tick = n + 1
      <3>1. tick \in Nat
        BY DEF Typed
      <3>2. n \in Nat /\ Deadline(stroke) + 1 - tick = n + 1
        BY <1>2, <3>1
      <3>3. QED
        BY <3>2, Sizes
    <2>2. push.left <= Reach * (n + 1)
      BY <1>1, <2>1 DEF Budget
    <2>3. push.left <= Reach * n + Reach
      BY <1>3, <2>1, <2>2, Sizes
    <2>4. CASE moving
      BY <1>1, <1>3, <2>1, <2>3, <2>4, PushAdvances, Sizes DEF Greatest
    <2>5. CASE ~moving
      <3>1. Gone = 0 /\ push.left = 0
        BY <1>1, <2>5 DEF Budget, Gone
      <3>2. Left = 0
        BY <3>1 DEF Left
      <3>3. QED
        BY <2>1, <3>2
    <2>6. QED
      BY <2>4, <2>5
  <1>8. Budget'
    <2>1. Deadline(stroke)' + 1 - tick' = Deadline(stroke) - tick
      BY <1>1, <1>2 DEF Typed
    <2>2. push'.left + push'.executed = push'.capped
      BY <1>1, <1>3, <1>4 DEF Budget
    <2>3. ~moving' => push'.left = 0
      <3>1. Left > 0 => moving' = TRUE
        BY <1>1
      <3>2. QED
        BY <1>3, <1>4, <3>1
    <2>4. QED
      BY <1>4, <1>7, <2>1, <2>2, <2>3 DEF Budget
  <1>9. QED
    BY <1>2, <1>5, <1>6, <1>8

LEMMA BlockedKeeps ==
  ASSUME ControlInv, Blocked
  PROVE  ControlInv'
  <1> USE DEF ControlInv
  <1>1. /\ mode = "blocked"
        /\ UNCHANGED <<raw, stroke, problem, route, waypoint, moved, mode, push, moving, rows>>
        /\ tick < Deadline(3) /\ StrokeAt(tick) = stroke /\ tick' = tick + 1
    BY DEF Blocked, plan
  <1>2. Clock' /\ Durations' /\ tick' \in Nat /\ rows' \in Seq(Row) /\ ArrivedMeansPushed'
    BY <1>1, RunningKeeps
  <1>3. Typed'
    BY <1>1, <1>2 DEF Typed
  <1>4. Underway'
    BY <1>1 DEF Underway
  <1>5. Budget'
    BY <1>1 DEF Budget
  <1>6. QED
    BY <1>2, <1>3, <1>4, <1>5

LEMMA FreezeKeeps ==
  ASSUME ControlInv, Freeze
  PROVE  ControlInv'
  <1> USE DEF ControlInv
  <1>1. /\ raw' = raw /\ stroke' = stroke /\ mode' = "hold" /\ moving' = FALSE
        /\ tick' = tick + 1 /\ Deadline(3) <= tick /\ tick \in Nat
        /\ push' = [push EXCEPT !.left = Left, !.executed = Executed]
        /\ Deadline(3) \in Nat /\ Deadline(3) > 0
    BY DeadlinesIncrease DEF Freeze, Typed
  <1>2. stroke # 0 /\ mode # "idle"
    BY <1>1 DEF Clock
  <1>3. rows' \in Seq(Row) /\ Len(rows') = 3 /\ ArrivedMeansPushed'
    <2>1. CASE mode = "hold"
      BY <2>1 DEF Freeze, Clock, Typed, ArrivedMeansPushed
    <2>2. CASE mode # "hold"
      <3>1. tick = Deadline(3) /\ tick <= Deadline(3)
        BY <1>1, <2>2 DEF Clock
      <3>2. stroke = 3 /\ tick = Deadline(stroke)
        BY <1>2, <3>1, Boundary
      <3>3. mode \in {"route", "blocked", "push"} /\ stroke \in 1 .. 3
        BY <1>2, <2>2, <3>2 DEF Typed, Modes
      <3>4. /\ Summary(Left, Executed) \in Row
            /\ Summary(Left, Executed).arrival = "arrived" =>
                   Summary(Left, Executed).complete /\ Summary(Left, Executed).missing = 0
        BY <3>2, <3>3, SummaryOfEnded
      <3>5. rows' = Append(rows, Summary(Left, Executed)) /\ rows \in Seq(Row) /\ Len(rows) = 2
        BY <2>2, <3>2 DEF Freeze, Typed, Clock
      <3>6. QED
        BY <3>4, <3>5, RowAppended
    <2>3. QED
      BY <2>1, <2>2
  <1>4. push' \in [left : Nat, capped : Nat, executed : Nat]
    <2>1. Left \in Nat /\ Executed \in Nat
      BY PushAdvances
    <2>2. QED
      BY <1>1, <2>1 DEF Typed
  <1>5. Durations' /\ Deadline(3)' = Deadline(3)
    BY <1>1, SameSchedule DEF Typed
  <1>6. Typed'
    <2>1. tick' \in Nat /\ stroke' \in 0 .. 3
      BY <1>1 DEF Typed
    <2>2. mode' \in Modes
      BY <1>1 DEF Modes
    <2>3. moving' \in BOOLEAN
      BY <1>1
    <2>4. QED
      BY <1>3, <1>4, <1>5, <2>1, <2>2, <2>3 DEF Typed
  <1>7. Clock'
    BY <1>1, <1>2, <1>3, <1>5 DEF Clock
  <1>8. Underway' /\ Budget'
    BY <1>1 DEF Underway, Budget
  <1>9. QED
    BY <1>3, <1>6, <1>7, <1>8

-----------------------------------------------------------------------------
(* The theorems about the controller                                       *)

LEMMA ControlInvInit == Reset => ControlInv
  <1> SUFFICES ASSUME Reset PROVE ControlInv
    OBVIOUS
  <1>1. Durations
    BY TimeAssumption DEF Reset, Durations
  <1>2. Deadline(3) \in Nat /\ 0 < Deadline(3)
    BY <1>1, DeadlinesIncrease
  <1>3. Typed
    <2>1. tick = 0 /\ stroke = 0 /\ mode = "idle" /\ rows = << >>
          /\ push = [left |-> 0, capped |-> 0, executed |-> 0]
      BY DEF Reset
    <2>2. moving \in BOOLEAN
      BY DEF Reset
    <2>3. push \in [left : Nat, capped : Nat, executed : Nat]
      BY <2>1
    <2>4. tick \in Nat /\ stroke \in 0 .. 3 /\ mode \in Modes /\ rows \in Seq(Row)
      BY <2>1 DEF Modes
    <2>5. QED
      BY <1>1, <2>2, <2>3, <2>4 DEF Typed
  <1>4. Clock
    BY <1>2 DEF Reset, Clock
  <1>5. QED
    BY <1>3, <1>4 DEF ControlInv, Reset, Underway, Budget, ArrivedMeansPushed

LEMMA ControlInvStep == ControlInv /\ [Update]_controller => ControlInv'
  <1> SUFFICES ASSUME ControlInv, [Update]_controller PROVE ControlInv'
    OBVIOUS
  <1>1. CASE UNCHANGED controller
    <2>1. UNCHANGED <<raw, tick, stroke, problem, route, waypoint, moved, mode, push, moving, rows>>
      BY <1>1 DEF controller, plan
    <2>2. Durations' /\ Deadline(3)' = Deadline(3) /\ Deadline(stroke)' = Deadline(stroke)
      BY <2>1, SameSchedule DEF ControlInv, Typed
    <2>3. StrokeAt(tick - 1)' = StrokeAt(tick - 1)
      BY <2>1, SameSchedule
    <2>4. Typed' /\ Underway' /\ ArrivedMeansPushed'
      BY <2>1, <2>2 DEF ControlInv, Typed, Underway, ArrivedMeansPushed
    <2>5. Clock' /\ Budget'
      BY <2>1, <2>2, <2>3 DEF ControlInv, Clock, Budget
    <2>6. QED
      BY <2>4, <2>5 DEF ControlInv
  <1>2. QED
    BY <1>1, StartKeeps, FollowKeeps, NextWaypointKeeps, ArriveKeeps, PushKeeps, BlockedKeeps,
       FreezeKeeps DEF Update

\* Whatever is observed, planned and reached, the clock, the route that is followed and the
\* push under way stay within what the deadlines leave.
THEOREM ControlIsInvariant == ControllerSpec => []ControlInv
  BY ControlInvInit, ControlInvStep, PTL DEF ControllerSpec

\* A stroke that is summarised as arrived has executed its push in full, for every period,
\* speed, schedule and lag: the cap at its beginning is enough.
THEOREM ArrivedPushesAreComplete == ControllerSpec => []ArrivedMeansPushed
  <1>1. ControlInv => ArrivedMeansPushed
    BY DEF ControlInv
  <1>2. QED
    BY <1>1, ControlIsInvariant, PTL

\* For every schedule that may be decoded the three slots are disjoint and not empty, each
\* stroke is summarised once, and the reference is at rest when the hold is measured.
THEOREM TheHoldIsStationary == ControllerSpec => []HoldIsStationary
  <1>1. ControlInv => HoldIsStationary
    <2> SUFFICES ASSUME ControlInv PROVE HoldIsStationary
      OBVIOUS
    <2>1. /\ Deadline(3) \in Nat /\ Deadline(3) <= HoldStart
          /\ 0 < Deadline(1) /\ Deadline(1) < Deadline(2) /\ Deadline(2) < Deadline(3)
      BY DeadlinesIncrease DEF ControlInv, Typed
    <2>2. tick > HoldStart => mode = "hold" /\ ~moving
      BY <2>1, Sizes DEF ControlInv, Typed, Clock
    <2>3. QED
      BY <2>1, <2>2 DEF HoldIsStationary, ControlInv, Clock
  <1>2. QED
    BY <1>1, ControlIsInvariant, PTL

\* The route of a stroke is one the planner answered to what the stroke observed.
RouteIsPlanned == mode = "route" => problem \in Problems /\ route \in Planned[problem]

\* Whatever is observed, from the finger on the route that is followed ends at the aimed contact,
\* stays between the rails and meets the block at most as its first leg leaves a shallow contact:
\* shortcuts, the way round, the dropped repetitions and either exit side included.
THEOREM RoutesAreAdmissible == ControllerSpec => []RouteIsAdmissible
  <1>1. Reset => RouteIsPlanned
    BY DEF Reset, RouteIsPlanned
  <1>2. RouteIsPlanned /\ [Update]_controller => RouteIsPlanned'
    <2> SUFFICES ASSUME RouteIsPlanned, [Update]_controller PROVE RouteIsPlanned'
      OBVIOUS
    <2> USE DEF RouteIsPlanned
    <2>1. CASE Start
      BY <2>1 DEF Start
    <2>2. CASE Follow
      BY <2>2 DEF Follow
    <2>3. CASE NextWaypoint
      BY <2>3 DEF NextWaypoint
    <2>4. CASE Arrive
      BY <2>4 DEF Arrive, BeginPush
    <2>5. CASE Push
      BY <2>5 DEF Push
    <2>6. CASE Blocked
      BY <2>6 DEF Blocked, plan
    <2>7. CASE Freeze
      BY <2>7 DEF Freeze, plan
    <2>8. CASE UNCHANGED controller
      BY <2>8 DEF controller, plan
    <2>9. QED
      BY <2>1, <2>2, <2>3, <2>4, <2>5, <2>6, <2>7, <2>8 DEF Update
  <1>3. RouteIsPlanned => RouteIsAdmissible
    <2>1. SUFFICES ASSUME RouteIsPlanned, mode = "route"
                   PROVE  RouteIsAdmissible
      BY DEF RouteIsAdmissible
    <2>2. Admissible(problem, route)
      BY <2>1, PlannedIsAdmissible DEF RouteIsPlanned
    <2>3. QED
      BY <2>2 DEF Admissible, RouteIsAdmissible, BetweenRails, Last
  <1>4. QED
    BY <1>1, <1>2, <1>3, PTL DEF ControllerSpec

-----------------------------------------------------------------------------
(* The engine: what it is typed by                                         *)

USE ShapeAssumption, StepsAssumption, InputAssumption, NoPairAssumption

\* A confirmation always has a selected controller, so the pair it begins is well formed.
TypeInv == TypeOK /\ (pc = "confirm" => selected \in Pairs)

LEMMA FreshPairType == ASSUME NEW v \in Box PROVE FreshPair(v) \in Pairs
  BY DEF FreshPair, Pairs, NotMeasured, Measurements, Classifications

LEMMA ClassifiedType == ASSUME NEW p \in Pairs PROVE Classified(p) \in Pairs
  <1>1. Worst(p) \in 0 .. MaxHold
    BY DEF Worst, Pairs, Measurements
  <1> QED
    BY <1>1 DEF Classified, Pairs, Classifications

LEMMA OutcomeType ==
  /\ \A s \in Statuses, e \in {0, 10, 20, 64, 70}, r \in Reasons, q \in BOOLEAN :
        Outcome(s, e, r, q) => result' \in Results /\ pc' = "finish"
  /\ \A r \in Reasons : Interrupted(r) => result' \in Results /\ pc' = "finish"
  /\ \A r \in Reasons : SearchEnded(r) => result' \in Results /\ pc' = "finish"
  /\ EvaluatorException => result' \in Results /\ pc' = "finish"
  <1>1. \A s \in Statuses, e \in {0, 10, 20, 64, 70}, r \in Reasons, q \in BOOLEAN :
           Outcome(s, e, r, q) => result' \in Results /\ pc' = "finish"
    BY DEF Outcome, Results
  <1>2. {"INCOMPLETE", "NO_QUALIFIED_POLICY_FOUND", "ERROR", "REFUSED"} \subseteq Statuses
    BY DEF Statuses
  <1>3. "EVALUATOR_EXCEPTION" \in Reasons
    BY DEF Reasons
  <1> QED
    BY <1>1, <1>2, <1>3 DEF Interrupted, SearchEnded, EvaluatorException

LEMMA ChargeType == TypeInv /\ ChargePair => charged' \in Int
  BY DEF TypeInv, TypeOK, ChargePair

\* An action that only ends the invocation.
LEMMA EndType ==
  ASSUME TypeInv, result' \in Results, pc' = "finish", charged' \in Int,
         UNCHANGED <<inputs, clock, budget, episode, role, pair, before, poll, retained>>
  PROVE  TypeInv'
  BY DEF TypeInv, TypeOK, inputs, retained, Locations

LEMMA InitType == Init => TypeInv
  <1> SUFFICES ASSUME Init PROVE TypeInv
    OBVIOUS
  <1>1. pair \in Pairs
    BY FreshPairType DEF Init, Request
  <1>2. poll \in Polls
    BY DEF Init, Axes, Polls
  <1> QED
    BY <1>1, <1>2 DEF Init, TypeInv, TypeOK, Locations, Evaluating, Statuses, Reasons, Results

LEMMA SweepEndsType ==
  ASSUME TypeInv, NEW preferred \in [Axes -> {-1, 1}], NEW any \in BOOLEAN,
         SweepEnds(preferred, any)
  PROVE  poll' \in Polls /\ result' \in Results /\ pc' \in {"screen", "finish"}
  <1> DEFINE step == IF any THEN poll.step ELSE poll.step \div 2
  <1>1. poll.step \in Nat /\ poll.step \div 2 \in Nat
    BY DEF TypeInv, TypeOK, Polls
  <1>2. step \in Nat
    BY <1>1
  <1>3. CASE step = 0
    BY <1>3, OutcomeType DEF SweepEnds, TypeInv, TypeOK, Reasons
  <1>4. CASE step # 0 /\ poll.sweep + 1 >= MaxSweeps
    BY <1>4, OutcomeType DEF SweepEnds, TypeInv, TypeOK, Reasons
  <1>5. CASE step # 0 /\ ~(poll.sweep + 1 >= MaxSweeps)
    <2>1. poll' = [sweep |-> poll.sweep + 1, coordinate |-> 1, sign |-> preferred[1],
                   second |-> FALSE, step |-> step, preferred |-> preferred, moved |-> FALSE]
      BY <1>5 DEF SweepEnds
    <2>2. 1 \in Axes /\ poll.sweep + 1 \in Nat
      BY DEF Axes, TypeInv, TypeOK, Polls
    <2>3. poll' \in Polls
      BY <1>2, <2>1, <2>2 DEF Polls
    <2> QED
      BY <1>5, <2>3 DEF SweepEnds, TypeInv, TypeOK
  <1> QED
    BY <1>3, <1>4, <1>5

LEMMA NextCoordinateType ==
  ASSUME TypeInv, NEW preferred \in [Axes -> {-1, 1}], NEW any \in BOOLEAN,
         NextCoordinate(preferred, any)
  PROVE  poll' \in Polls /\ result' \in Results /\ pc' \in {"screen", "finish"}
  <1>1. CASE poll.coordinate = Dimension
    BY <1>1, SweepEndsType DEF NextCoordinate
  <1>2. CASE poll.coordinate # Dimension
    <2>1. poll.coordinate + 1 \in Axes
      BY <1>2 DEF Axes, TypeInv, TypeOK, Polls
    <2>2. poll \in Polls /\ preferred[poll.coordinate + 1] \in {-1, 1}
      BY <2>1 DEF TypeInv, TypeOK
    <2>3. poll' = [poll EXCEPT !.coordinate = @ + 1, !.sign = preferred[poll.coordinate + 1],
                               !.second = FALSE, !.preferred = preferred, !.moved = any]
      BY <1>2 DEF NextCoordinate
    <2>4. poll' \in Polls
      BY <2>1, <2>2, <2>3 DEF Polls
    <2> QED
      BY <1>2, <2>4 DEF NextCoordinate, TypeInv, TypeOK
  <1> QED
    BY <1>1, <1>2

LEMMA PollAcceptedType ==
  ASSUME TypeInv, PollAccepted
  PROVE  poll' \in Polls /\ result' \in Results /\ pc' \in {"screen", "finish"}
  <1>1. [poll.preferred EXCEPT ![poll.coordinate] = poll.sign] \in [Axes -> {-1, 1}]
    BY DEF TypeInv, TypeOK, Polls
  <1> QED
    BY <1>1, NextCoordinateType DEF PollAccepted

LEMMA PollRejectedType ==
  ASSUME TypeInv, PollRejected
  PROVE  poll' \in Polls /\ result' \in Results /\ pc' \in {"screen", "finish"}
  <1>1. CASE poll.second
    <2>1. poll.preferred \in [Axes -> {-1, 1}] /\ poll.moved \in BOOLEAN
      BY DEF TypeInv, TypeOK, Polls
    <2> QED
      BY <1>1, <2>1, NextCoordinateType DEF PollRejected
  <1>2. CASE ~poll.second
    <2>1. -poll.preferred[poll.coordinate] \in {-1, 1}
      BY DEF TypeInv, TypeOK, Polls
    <2>2. poll' \in Polls
      BY <1>2, <2>1 DEF PollRejected, TypeInv, TypeOK, Polls
    <2> QED
      BY <1>2, <2>2 DEF PollRejected, TypeInv, TypeOK
  <1> QED
    BY <1>1, <1>2

LEMMA BudgetStepType ==
  ASSUME TypeInv, NEW total \in Nat, BudgetStep(total), pc # "confirm"
  PROVE  TypeInv'
  <1>1. CASE StepRaises(total)
    <2>1. charged' \in Int /\ result' \in Results /\ pc' = "finish"
      BY <1>1, ChargeType, OutcomeType DEF StepRaises
    <2>2. budget' \in [search : BOOLEAN, attempts : Nat, completed : Nat, unknown : Nat]
      BY <1>1 DEF StepRaises, TypeInv, TypeOK
    <2> QED
      BY <1>1, <2>1, <2>2 DEF StepRaises, TypeInv, TypeOK, inputs, retained, Locations
  <1>2. CASE StepCompletes(total)
    <2>1. CASE budget.completed < request.max_steps
      <3>1. budget' \in [search : BOOLEAN, attempts : Nat, completed : Nat, unknown : Nat]
        BY <1>2, <2>1 DEF StepCompletes, TypeInv, TypeOK
      <3> QED
        BY <1>2, <2>1, <3>1 DEF StepCompletes, TypeInv, TypeOK, inputs, retained
    <2>2. CASE ~(budget.completed < request.max_steps)
      <3>1. "INTEGRATION_STEP_LIMIT_DURING_EVALUATION" \in Reasons
        BY DEF Reasons
      <3>2. charged' \in Int /\ result' \in Results /\ pc' = "finish"
        BY <1>2, <2>2, <3>1, ChargeType, OutcomeType DEF StepCompletes
      <3> QED
        BY <1>2, <2>2, <3>2, EndType DEF StepCompletes
    <2> QED
      BY <2>1, <2>2
  <1> QED
    BY <1>1, <1>2 DEF BudgetStep

LEMMA SetupType == TypeInv /\ Setup => TypeInv'
  <1> SUFFICES ASSUME TypeInv, Setup PROVE TypeInv'
    OBVIOUS
  <1> USE DEF inputs, work, retained
  <1>1. CASE AdmitRequest
    BY <1>1 DEF AdmitRequest, TypeInv, TypeOK, Locations
  <1>2. CASE RefuseRequest
    BY <1>2 DEF RefuseRequest, TypeInv, TypeOK, Locations
  <1>3. CASE RefuseRuntime
    <2>1. result' \in Results /\ pc' = "finish"
      BY <1>3 DEF RefuseRuntime, Outcome, Results, Statuses, Reasons
    <2> QED
      BY <1>3, <2>1, EndType DEF RefuseRuntime, TypeInv, TypeOK
  <1>4. CASE AdmitRuntime
    BY <1>4 DEF AdmitRuntime, TypeInv, TypeOK, Locations
  <1>5. CASE Settle
    BY <1>5, BudgetStepType DEF Settle
  <1>6. CASE SettleEnds
    <2>0. /\ {"INITIAL_STATE_NOT_ADMISSIBLE", "RESET_MISMATCH"} \subseteq Reasons
          /\ "REFUSED" \in Statuses
      BY DEF Reasons, Statuses
    <2>1. CASE pc' = (IF operation = "run" THEN "screen" ELSE "replay") /\ UNCHANGED result
      BY <1>6, <2>1 DEF SettleEnds, TypeInv, TypeOK, Locations
    <2>2. CASE \/ Interrupted("INITIAL_STATE_NOT_ADMISSIBLE")
               \/ SearchEnded("INITIAL_STATE_NOT_ADMISSIBLE")
               \/ Outcome("REFUSED", 64, "RESET_MISMATCH", FALSE)
      <3>1. result' \in Results /\ pc' = "finish"
        BY <2>0, <2>2, OutcomeType
      <3>2. charged' \in Int
        BY <1>6 DEF SettleEnds, TypeInv, TypeOK
      <3> QED
        BY <1>6, <3>1, <3>2, EndType DEF SettleEnds
    <2> QED
      BY <1>6, <2>1, <2>2 DEF SettleEnds
  <1> QED
    BY <1>1, <1>2, <1>3, <1>4, <1>5, <1>6 DEF Setup

LEMMA ScreeningType == TypeInv /\ Screening => TypeInv'
  <1> SUFFICES ASSUME TypeInv, Screening PROVE TypeInv'
    OBVIOUS
  <1> USE DEF inputs, work, retained
  <1>0. {"ATTEMPT_LIMIT", "INTEGRATION_STEP_RESERVE"} \subseteq Reasons
    BY DEF Reasons
  <1>1. CASE ScreenAtAttemptLimit
    BY <1>0, <1>1, OutcomeType, EndType DEF ScreenAtAttemptLimit, TypeInv, TypeOK
  <1>2. CASE ScreenWithoutReserve
    BY <1>0, <1>2, OutcomeType, EndType DEF ScreenWithoutReserve, TypeInv, TypeOK
  <1>3. CASE ScreenBegins
    <2>1. pair' \in Pairs
      BY <1>3, FreshPairType DEF ScreenBegins, InBox, BeginPair
    <2>2. budget' \in [search : BOOLEAN, attempts : Nat, completed : Nat, unknown : Nat]
      BY <1>3 DEF ScreenBegins, TypeInv, TypeOK
    <2> QED
      BY <1>3, <2>1, <2>2 DEF ScreenBegins, BeginPair, TypeInv, TypeOK, Locations, Evaluating
  <1>4. CASE ScreenOutOfBox
    <2>1. budget' \in [search : BOOLEAN, attempts : Nat, completed : Nat, unknown : Nat]
      BY <1>4 DEF ScreenOutOfBox, TypeInv, TypeOK
    <2>2. poll' \in Polls /\ result' \in Results /\ pc' \in {"screen", "finish"}
      BY <1>4, PollRejectedType DEF ScreenOutOfBox
    <2> QED
      BY <1>4, <2>1, <2>2 DEF ScreenOutOfBox, TypeInv, TypeOK, Locations
  <1> QED
    BY <1>1, <1>2, <1>3, <1>4 DEF Screening

LEMMA BeginPairType ==
  ASSUME TypeInv, NEW purpose \in {"screen", "confirm", "replay"}, NEW v \in Box,
         BeginPair(purpose, v), UNCHANGED <<inputs, clock, charged, poll, retained, result>>,
         budget' \in [search : BOOLEAN, attempts : Nat, completed : Nat, unknown : Nat]
  PROVE  TypeInv'
  <1>1. pair' \in Pairs
    BY FreshPairType DEF BeginPair
  <1> QED
    BY <1>1 DEF BeginPair, TypeInv, TypeOK, Locations, Evaluating, inputs, retained

LEMMA MeasuredType ==
  ASSUME TypeInv
  PROVE  /\ landscape[pair.parameters].nominal \subseteq Measurements
         /\ landscape[pair.parameters].finer \subseteq Measurements
         /\ \A m \in Measurements : [pair EXCEPT !.nominal = m] \in Pairs
         /\ \A m \in Measurements : [pair EXCEPT !.finer = m] \in Pairs
  <1>1. landscape \in [Box -> [nominal : SUBSET Measurements, finer : SUBSET Measurements]]
    BY DEF TypeInv, TypeOK
  <1>2. pair \in Pairs
    BY DEF TypeInv, TypeOK
  <1>3. pair.parameters \in Box
    BY <1>2 DEF Pairs
  <1>4. landscape[pair.parameters] \in [nominal : SUBSET Measurements, finer : SUBSET Measurements]
    BY <1>1, <1>3
  <1>5. \A m \in Measurements : [pair EXCEPT !.nominal = m] \in Pairs
    BY <1>2 DEF Pairs
  <1>6. \A m \in Measurements : [pair EXCEPT !.finer = m] \in Pairs
    BY <1>2 DEF Pairs
  <1> QED
    BY <1>4, <1>5, <1>6

LEMMA EpisodeType == TypeInv /\ (EpisodeStep \/ NominalEnds \/ FinerEnds) => TypeInv'
  <1> SUFFICES ASSUME TypeInv, EpisodeStep \/ NominalEnds \/ FinerEnds PROVE TypeInv'
    OBVIOUS
  <1>1. CASE EpisodeStep
    BY <1>1, BudgetStepType DEF EpisodeStep, EpisodeSteps
  <1>2. CASE NominalEnds
    <2>1. pair' \in Pairs /\ pc' \in {"finer", "judge"}
      BY <1>2, MeasuredType DEF NominalEnds
    <2> QED
      BY <1>2, <2>1 DEF NominalEnds, TypeInv, TypeOK, Locations, Evaluating, inputs, retained
  <1>3. CASE FinerEnds
    <2>1. pair' \in Pairs /\ pc' = "judge"
      BY <1>3, MeasuredType DEF FinerEnds
    <2> QED
      BY <1>3, <2>1 DEF FinerEnds, TypeInv, TypeOK, Locations, Evaluating, inputs, retained
  <1> QED
    BY <1>1, <1>2, <1>3

LEMMA ZeroFoundType ==
  ASSUME TypeInv, ZeroFound
  PROVE  /\ pc' = "confirm" /\ poll' \in Polls /\ result' \in Results
         /\ budget' \in [search : BOOLEAN, attempts : Nat, completed : Nat, unknown : Nat]
  BY DEF ZeroFound, TypeInv, TypeOK

LEMMA JudgeFirstType == TypeInv /\ JudgeFirst => TypeInv'
  <1> SUFFICES ASSUME TypeInv, JudgeFirst PROVE TypeInv'
    OBVIOUS
  <1> DEFINE p == Classified(pair)
  <1>1. p \in Pairs /\ charged' \in Int
    BY ClassifiedType, ChargeType DEF JudgeFirst, TypeInv, TypeOK
  <1>2. pair' = p /\ initial' = p /\ selected' = (IF p.class = "COMPLETE" THEN p ELSE selected)
    BY DEF JudgeFirst
  <1>3. {"UNKNOWN_MEASUREMENT", "INITIAL_POLICY_NOT_SEARCHABLE"} \subseteq Reasons
    BY DEF Reasons
  <1>4. /\ pc' \in {"finish", "screen", "confirm"} /\ (pc' = "confirm" => p.class = "COMPLETE")
        /\ poll' \in Polls /\ result' \in Results
        /\ budget' \in [search : BOOLEAN, attempts : Nat, completed : Nat, unknown : Nat]
    <2>1. CASE Interrupted("UNKNOWN_MEASUREMENT") /\ UNCHANGED <<budget, poll>>
      BY <1>3, <2>1, OutcomeType DEF TypeInv, TypeOK
    <2>2. CASE SearchEnded("INITIAL_POLICY_NOT_SEARCHABLE") /\ UNCHANGED <<budget, poll>>
      BY <1>3, <2>2, OutcomeType DEF TypeInv, TypeOK
    <2>3. CASE p.class = "COMPLETE" /\ ZeroFound
      BY <2>3, ZeroFoundType
    <2>4. CASE pc' = "screen" /\ UNCHANGED <<budget, poll, result>>
      BY <2>4 DEF TypeInv, TypeOK
    <2> QED
      BY <2>1, <2>2, <2>3, <2>4 DEF JudgeFirst
  <1>5. UNCHANGED <<inputs, clock, episode, role, before, confirmation>>
    BY DEF JudgeFirst
  <1> QED
    BY <1>1, <1>2, <1>4, <1>5 DEF TypeInv, TypeOK, inputs, Locations

LEMMA JudgeTrialType == TypeInv /\ JudgeTrial => TypeInv'
  <1> SUFFICES ASSUME TypeInv, JudgeTrial PROVE TypeInv'
    OBVIOUS
  <1> DEFINE p == Classified(pair)
  <1>1. p \in Pairs /\ charged' \in Int /\ selected \in Pairs
    BY ClassifiedType, ChargeType DEF JudgeTrial, TypeInv, TypeOK
  <1>2. pair' = p /\ selected' = (IF Accepts(p) THEN p ELSE selected)
    BY DEF JudgeTrial
  <1>3. "UNKNOWN_MEASUREMENT" \in Reasons
    BY DEF Reasons
  <1>4. /\ pc' \in {"finish", "screen", "confirm"}
        /\ poll' \in Polls /\ result' \in Results
        /\ budget' \in [search : BOOLEAN, attempts : Nat, completed : Nat, unknown : Nat]
    <2>1. CASE Interrupted("UNKNOWN_MEASUREMENT") /\ UNCHANGED <<budget, poll>>
      BY <1>3, <2>1, OutcomeType DEF TypeInv, TypeOK
    <2>2. CASE ZeroFound
      BY <2>2, ZeroFoundType
    <2>3. CASE PollAccepted /\ UNCHANGED budget
      BY <2>3, PollAcceptedType DEF TypeInv, TypeOK
    <2>4. CASE PollRejected /\ UNCHANGED budget
      BY <2>4, PollRejectedType DEF TypeInv, TypeOK
    <2> QED
      BY <2>1, <2>2, <2>3, <2>4 DEF JudgeTrial
  <1>5. UNCHANGED <<inputs, clock, episode, role, before, initial, confirmation>>
    BY DEF JudgeTrial
  <1> QED
    BY <1>1, <1>2, <1>4, <1>5 DEF TypeInv, TypeOK, inputs, Locations

LEMMA JudgeFinalType == TypeInv /\ JudgeFinal => TypeInv'
  <1> SUFFICES ASSUME TypeInv, JudgeFinal PROVE TypeInv'
    OBVIOUS
  <1> DEFINE p == Classified(pair)
  <1>1. p \in Pairs /\ charged' \in Int
    BY ClassifiedType, ChargeType DEF JudgeFinal, TypeInv, TypeOK
  <1>2. /\ {"UNKNOWN_MEASUREMENT", "COMPLETE_PAIRED_EVALUATION", "DID_NOT_QUALIFY"} \subseteq Reasons
        /\ QualifiedStatus \in Statuses /\ NotQualifiedStatus \in Statuses
    BY DEF Reasons, Statuses, QualifiedStatus, NotQualifiedStatus
  <1>3. result' \in Results /\ pc' = "finish"
    BY <1>2, OutcomeType DEF JudgeFinal
  <1>4. /\ pair' = p /\ confirmation' = (IF role = "confirm" THEN p ELSE confirmation)
        /\ UNCHANGED <<inputs, clock, budget, episode, role, before, poll, initial, selected>>
    BY DEF JudgeFinal
  <1> QED
    BY <1>1, <1>3, <1>4 DEF TypeInv, TypeOK, inputs, Locations

LEMMA FinalPairType ==
  ASSUME TypeInv, NEW purpose \in {"confirm", "replay"}, NEW v \in Box,
         NEW limit \in Reasons, FinalPair(purpose, v, limit)
  PROVE  TypeInv'
  <1>1. CASE BeginPair(purpose, v) /\ UNCHANGED result
    BY <1>1, BeginPairType DEF FinalPair, TypeInv, TypeOK
  <1>2. CASE Interrupted(limit) /\ UNCHANGED <<episode, role, pair, before>>
    BY <1>2, OutcomeType, EndType DEF FinalPair, TypeInv, TypeOK
  <1> QED
    BY <1>1, <1>2 DEF FinalPair

LEMMA EndingType ==
  TypeInv /\ (ConfirmBegins \/ ReplayBegins \/ InterruptAtCheck \/ BackendRaises \/ Finish) => TypeInv'
  <1> SUFFICES ASSUME TypeInv,
                      ConfirmBegins \/ ReplayBegins \/ InterruptAtCheck \/ BackendRaises \/ Finish
               PROVE  TypeInv'
    OBVIOUS
  <1>0. {"CONFIRMATION_STEP_LIMIT", "REPLAY_STEP_LIMIT", CheckReason} \subseteq Reasons
    BY DEF Reasons, CheckReason
  <1>1. CASE ConfirmBegins
    <2>1. selected.parameters \in Box
      BY <1>1 DEF ConfirmBegins, TypeInv, Pairs
    <2> QED
      BY <1>0, <1>1, <2>1, FinalPairType DEF ConfirmBegins
  <1>2. CASE ReplayBegins
    <2>1. request.original \in Box
      BY DEF TypeInv, TypeOK, Request
    <2> QED
      BY <1>0, <1>2, <2>1, FinalPairType DEF ReplayBegins
  <1>3. CASE InterruptAtCheck
    BY <1>0, <1>3, OutcomeType, ChargeType, EndType DEF InterruptAtCheck
  <1>4. CASE BackendRaises
    BY <1>4, OutcomeType, ChargeType, EndType DEF BackendRaises
  <1>5. CASE Finish
    <2>1. result' \in Results
      <3>1. [status |-> "INCOMPLETE", exit_code |-> 20, reason |-> CheckReason, qualified |-> FALSE]
              \in Results
        BY <1>0 DEF Results, Statuses
      <3> QED
        BY <1>5, <3>1 DEF Finish, TypeInv, TypeOK
    <2> QED
      BY <1>5, <2>1 DEF Finish, TypeInv, TypeOK, Locations, inputs, work, retained
  <1> QED
    BY <1>1, <1>2, <1>3, <1>4, <1>5

LEMMA NextType == TypeInv /\ [Next]_vars => TypeInv'
  <1> SUFFICES ASSUME TypeInv, [Next]_vars PROVE TypeInv'
    OBVIOUS
  <1>1. CASE Engine
    BY <1>1, SetupType, ScreeningType, EpisodeType, JudgeFirstType, JudgeTrialType, JudgeFinalType,
       EndingType DEF Engine, Evaluation
  <1>2. CASE Tick
    BY <1>2 DEF Tick, TypeInv, TypeOK, inputs, work, retained
  <1>3. CASE UNCHANGED vars
    BY <1>3 DEF TypeInv, TypeOK, vars, inputs, work, retained
  <1> QED
    BY <1>1, <1>2, <1>3 DEF Next, Done

\* Every variable keeps its type: no limit, box or landscape makes _search, _confirm or a replay
\* read a selection that is not there or leave the lattice.
THEOREM TypeCorrect == Spec => []TypeOK
  <1>1. TypeInv => TypeOK
    BY DEF TypeInv
  <1> QED
    BY <1>1, InitType, NextType, PTL DEF Spec

-----------------------------------------------------------------------------
(* The step reserve.                                                       *)

\* What _screen (two pairs) or _confirm and a replay (one pair) found free when the pair began.
Reserved == IF role = "screen" THEN 2 * PairSteps ELSE PairSteps

StepLimits ==
    /\ pc \notin {"admit", "done"} => request.max_steps >= MinimumStepBudget
    /\ pc \in {"admit", "runtime"} => budget.completed = 0
    /\ pc = "settle" => budget.completed = episode /\ episode <= SetupSteps
    /\ pc = "replay" => budget.completed = SetupSteps
    /\ pc = "confirm" => budget.completed + PairSteps <= request.max_steps

PairProgress ==
    /\ pc \in Evaluating => before + Reserved <= request.max_steps
    /\ pc = "nominal" => budget.completed = before + episode /\ episode <= NominalSteps
    /\ pc = "finer" => budget.completed = before + NominalSteps + episode /\ episode <= FinerSteps
    /\ pc = "judge" => budget.completed <= before + PairSteps

UnknownIsError ==
    budget.unknown > 0 => pc \in {"finish", "done"} /\ result.exit_code = 70

\* The inductive invariant of the reserve.
StepInv == TypeInv /\ StepLimits /\ PairProgress /\ UnknownIsError /\ ReserveCoversEveryEvaluation

\* What an ending must not say while the reserve holds.
Forbidden == {"INTEGRATION_STEP_LIMIT_DURING_EVALUATION", "CONFIRMATION_STEP_LIMIT",
              "REPLAY_STEP_LIMIT", "UNKNOWN_INTEGRATION_WORK"}

LEMMA ForbiddenReasons == ReserveCoversEveryEvaluation <=> result.reason \notin Forbidden
  BY DEF ReserveCoversEveryEvaluation, Forbidden

\* An action that ends the invocation with a permitted reason and spends nothing unknown.
LEMMA EndsSafely ==
  ASSUME StepInv, pc \notin {"finish", "done"}, pc' = "finish", result'.reason \notin Forbidden,
         TypeInv', pc # "admit", UNCHANGED <<budget, request>>
  PROVE  StepInv'
  <1>1. budget.unknown = 0 /\ request.max_steps >= MinimumStepBudget
    BY DEF StepInv, UnknownIsError, StepLimits, TypeInv, TypeOK
  <1>2. budget'.unknown = 0
    BY <1>1
  <1> QED
    BY <1>1, <1>2 DEF StepInv, StepLimits, PairProgress, UnknownIsError, Evaluating,
       ReserveCoversEveryEvaluation, Forbidden

LEMMA Numbers ==
  ASSUME TypeInv
  PROVE  /\ budget.completed \in Nat /\ budget.attempts \in Nat /\ budget.unknown \in Nat
         /\ episode \in Nat /\ before \in Nat /\ charged \in Int
         /\ request.max_steps \in Nat /\ request.max_attempts \in Nat
         /\ PairSteps \in Nat /\ PairSteps = NominalSteps + FinerSteps
  BY DEF TypeInv, TypeOK, Request, PairSteps

LEMMA InitStep == Init => StepInv
  BY InitType DEF Init, StepInv, StepLimits, PairProgress, UnknownIsError, Evaluating,
     ReserveCoversEveryEvaluation, Request

\* A counted or a failed integration call: the cap is never met, because every call was reserved.
LEMMA BudgetStepSafe ==
  ASSUME StepInv, TypeInv', NEW total \in Nat, BudgetStep(total),
         \/ pc = "settle" /\ total = SetupSteps
         \/ pc = "nominal" /\ total = NominalSteps
         \/ pc = "finer" /\ total = FinerSteps
  PROVE  StepInv'
  <1> USE DEF StepInv
  <1>1. CASE StepCompletes(total)
    <2>0. episode < total
      BY <1>1 DEF StepCompletes
    <2>1. /\ budget.completed < request.max_steps
          /\ budget.unknown = 0
      BY <2>0, Numbers
         DEF StepLimits, PairProgress, UnknownIsError, Evaluating, Reserved, MinimumStepBudget
    <2>2. /\ budget'.completed = budget.completed + 1 /\ budget'.unknown = 0
          /\ episode' = episode + 1 /\ episode < total
          /\ UNCHANGED <<pc, result, request, before, role>>
      BY <1>1, <2>1 DEF StepCompletes, TypeInv, TypeOK, inputs
    <2> QED
      BY <2>1, <2>2, Numbers DEF StepLimits, PairProgress, UnknownIsError, Evaluating, Reserved,
         ReserveCoversEveryEvaluation
  <1>2. CASE StepRaises(total)
    <2>1. /\ pc' = "finish" /\ result'.exit_code = 70 /\ result'.reason = "EVALUATOR_EXCEPTION"
          /\ UNCHANGED request
      BY <1>2 DEF StepRaises, EvaluatorException, Outcome, inputs
    <2> QED
      BY <2>1 DEF StepLimits, PairProgress, UnknownIsError, Evaluating, ReserveCoversEveryEvaluation
  <1> QED
    BY <1>1, <1>2 DEF BudgetStep

LEMMA SetupStep ==
  ASSUME StepInv, TypeInv', Setup
  PROVE  StepInv'
  <1> USE DEF StepInv
  <1>1. CASE AdmitRequest
    BY <1>1
       DEF AdmitRequest, AdmissibleLimits, StepLimits, PairProgress, UnknownIsError, Evaluating,
           ReserveCoversEveryEvaluation, inputs, work
  <1>2. CASE RefuseRequest
    BY <1>2 DEF RefuseRequest, StepLimits, PairProgress, UnknownIsError, Evaluating,
       ReserveCoversEveryEvaluation, inputs
  <1>3. CASE RefuseRuntime
    BY <1>3, EndsSafely DEF RefuseRuntime, Outcome, Forbidden, inputs
  <1>4. CASE AdmitRuntime
    BY <1>4 DEF AdmitRuntime, StepLimits, PairProgress, UnknownIsError, Evaluating,
       ReserveCoversEveryEvaluation, inputs
  <1>5. CASE Settle
    BY <1>5, BudgetStepSafe DEF Settle
  <1>6. CASE SettleEnds
    <2>1. CASE pc' = (IF operation = "run" THEN "screen" ELSE "replay") /\ UNCHANGED result
      BY <1>6, <2>1 DEF SettleEnds, StepLimits, PairProgress, UnknownIsError, Evaluating,
         ReserveCoversEveryEvaluation, inputs, work
    <2>2. CASE pc' = "finish" /\ result'.reason \notin Forbidden
      BY <1>6, <2>2, EndsSafely DEF SettleEnds, inputs
    <2> QED
      BY <1>6, <2>1, <2>2 DEF SettleEnds, Interrupted, SearchEnded, Outcome, Forbidden
  <1> QED
    BY <1>1, <1>2, <1>3, <1>4, <1>5, <1>6 DEF Setup

\* A pair begun with its reserve free.
LEMMA BeginPairSafe ==
  ASSUME StepInv, TypeInv', NEW purpose, NEW v, BeginPair(purpose, v),
         pc \in {"screen", "confirm", "replay"},
         budget.completed + (IF purpose = "screen" THEN 2 * PairSteps ELSE PairSteps)
            <= request.max_steps,
         budget'.completed = budget.completed, budget'.unknown = budget.unknown,
         UNCHANGED <<request, result>>
  PROVE  StepInv'
  BY DEF StepInv, BeginPair, StepLimits, PairProgress, UnknownIsError, Evaluating, Reserved,
     ReserveCoversEveryEvaluation, TypeInv, TypeOK

\* The ways a poll goes on: to the next trial or to the end of the search.
LEMMA PollGoesOn ==
  PollAccepted \/ PollRejected =>
     \/ pc' = "screen" /\ UNCHANGED result
     \/ pc' = "finish" /\ result'.reason \notin Forbidden /\ result'.exit_code = 10
                       /\ ~result'.qualified
  BY DEF PollAccepted, PollRejected, NextCoordinate, SweepEnds, SearchEnded, Outcome, Forbidden

\* A step to "screen", "confirm" or "finish" that integrates nothing.
LEMMA ScreensOn ==
  ASSUME StepInv, TypeInv', pc' = "screen", UNCHANGED <<request, result>>,
         pc \notin {"admit", "finish", "done"},
         budget'.unknown = budget.unknown
  PROVE  StepInv'
  BY DEF StepInv, StepLimits, PairProgress, UnknownIsError, Evaluating,
     ReserveCoversEveryEvaluation, TypeInv, TypeOK

LEMMA ScreeningStep ==
  ASSUME StepInv, TypeInv', Screening
  PROVE  StepInv'
  <1>1. CASE ScreenAtAttemptLimit
    BY <1>1, EndsSafely DEF ScreenAtAttemptLimit, SearchEnded, Outcome, Forbidden, inputs
  <1>2. CASE ScreenWithoutReserve
    BY <1>2, EndsSafely DEF ScreenWithoutReserve, SearchEnded, Outcome, Forbidden, inputs
  <1>3. CASE ScreenBegins
    <2>1. budget'.completed = budget.completed /\ budget'.unknown = budget.unknown
      BY <1>3 DEF ScreenBegins, StepInv, TypeInv, TypeOK
    <2> QED
      BY <1>3, <2>1, BeginPairSafe DEF ScreenBegins, ScreenReserve, inputs
  <1>4. CASE ScreenOutOfBox
    <2>1. budget'.completed = budget.completed /\ budget'.unknown = budget.unknown
      BY <1>4 DEF ScreenOutOfBox, StepInv, TypeInv, TypeOK
    <2>2. CASE pc' = "screen" /\ UNCHANGED result
      BY <1>4, <2>1, <2>2, ScreensOn DEF ScreenOutOfBox, inputs
    <2>3. CASE pc' = "finish" /\ result'.reason \notin Forbidden
      <3>1. request'.max_steps >= MinimumStepBudget /\ budget'.unknown = 0
        BY <1>4, <2>1
           DEF ScreenOutOfBox, StepInv, StepLimits, UnknownIsError, inputs, TypeInv, TypeOK
      <3> QED
        BY <2>3, <3>1 DEF StepInv, StepLimits, PairProgress, UnknownIsError, Evaluating,
           ReserveCoversEveryEvaluation, Forbidden
    <2> QED
      BY <1>4, <2>2, <2>3, PollGoesOn DEF ScreenOutOfBox
  <1> QED
    BY <1>1, <1>2, <1>3, <1>4 DEF Screening

LEMMA EvaluationStep ==
  ASSUME StepInv, TypeInv', Evaluation
  PROVE  StepInv'
  <1>1. CASE EpisodeStep
    BY <1>1, BudgetStepSafe DEF EpisodeStep, EpisodeSteps
  <1>2. CASE NominalEnds
    <2>1. /\ pc = "nominal" /\ episode' = 0 /\ UNCHANGED <<request, budget, role, before, result>>
          /\ pc' = "judge" \/ (pc' = "finer" /\ episode = NominalSteps)
      BY <1>2 DEF NominalEnds, inputs
    <2> QED
      BY <2>1, Numbers DEF StepInv, StepLimits, PairProgress, UnknownIsError, Evaluating, Reserved,
         ReserveCoversEveryEvaluation
  <1>3. CASE FinerEnds
    <2>1. /\ pc = "finer" /\ pc' = "judge" /\ UNCHANGED <<request, budget, role, before, result>>
      BY <1>3 DEF FinerEnds, inputs
    <2> QED
      BY <2>1, Numbers DEF StepInv, StepLimits, PairProgress, UnknownIsError, Evaluating, Reserved,
         ReserveCoversEveryEvaluation
  <1>4. ASSUME pc = "judge", role = "screen", ZeroFound, UNCHANGED request PROVE StepInv'
    <2>1. /\ budget'.completed = budget.completed /\ budget'.unknown = budget.unknown
          /\ pc' = "confirm" /\ UNCHANGED result
      BY <1>4 DEF ZeroFound, StepInv, TypeInv, TypeOK
    <2>2. budget.completed + PairSteps <= request.max_steps
      BY <1>4, Numbers DEF StepInv, PairProgress, Reserved, Evaluating
    <2> QED
      BY <1>4, <2>1, <2>2 DEF StepInv, StepLimits, PairProgress, UnknownIsError, Evaluating,
         ReserveCoversEveryEvaluation
  <1>5. ASSUME pc = "judge", PollAccepted \/ PollRejected, UNCHANGED <<budget, request>>
        PROVE  StepInv'
    BY <1>5, PollGoesOn, ScreensOn, EndsSafely
  <1>6. CASE JudgeFirst
    <2>1. pc = "judge" /\ role = "screen" /\ UNCHANGED request
      BY <1>6 DEF JudgeFirst, inputs
    <2>2. CASE pc' = "screen" /\ UNCHANGED <<budget, result>>
      BY <2>1, <2>2, ScreensOn
    <2>3. CASE pc' = "finish" /\ result'.reason \notin Forbidden /\ UNCHANGED budget
      BY <2>1, <2>3, EndsSafely
    <2> QED
      BY <1>4, <1>6, <2>1, <2>2, <2>3 DEF JudgeFirst, Interrupted, SearchEnded, Outcome, Forbidden
  <1>7. CASE JudgeTrial
    <2>1. pc = "judge" /\ role = "screen" /\ UNCHANGED request
      BY <1>7 DEF JudgeTrial, inputs
    <2>2. CASE pc' = "finish" /\ result'.reason \notin Forbidden /\ UNCHANGED budget
      BY <2>1, <2>2, EndsSafely
    <2> QED
      BY <1>4, <1>5, <1>7, <2>1, <2>2 DEF JudgeTrial, Interrupted, Outcome, Forbidden
  <1>8. CASE JudgeFinal
    <2>1. pc = "judge" /\ pc' = "finish" /\ result'.reason \notin Forbidden
          /\ UNCHANGED <<request, budget>>
      BY <1>8 DEF JudgeFinal, Interrupted, Outcome, Forbidden, inputs
    <2> QED
      BY <2>1, EndsSafely
  <1> QED
    BY <1>1, <1>2, <1>3, <1>6, <1>7, <1>8 DEF Evaluation

LEMMA EndingStep ==
  ASSUME StepInv, TypeInv', ConfirmBegins \/ ReplayBegins \/ InterruptAtCheck \/ BackendRaises \/ Finish
  PROVE  StepInv'
  <1>1. ASSUME NEW purpose \in {"confirm", "replay"}, NEW v, NEW limit,
               FinalPair(purpose, v, limit), pc \in {"confirm", "replay"}
        PROVE  StepInv'
    <2>1. budget.completed + PairSteps <= request.max_steps
      BY <1>1, Numbers DEF StepInv, StepLimits, MinimumStepBudget
    <2> QED
      BY <1>1, <2>1, BeginPairSafe DEF FinalPair, inputs
  <1>2. CASE ConfirmBegins
    BY <1>1, <1>2 DEF ConfirmBegins
  <1>3. CASE ReplayBegins
    BY <1>1, <1>3 DEF ReplayBegins
  <1>4. ASSUME pc \notin {"finish", "done"} PROVE CheckRaises => CheckReason = "CPU_LIMIT"
    BY <1>4, Numbers DEF StepInv, UnknownIsError, CheckRaises, CheckReason
  <1>5. CASE InterruptAtCheck
    <2>1. /\ pc \notin {"admit", "finish", "done"} /\ pc' = "finish" /\ result'.reason = "CPU_LIMIT"
          /\ UNCHANGED <<request, budget>>
      BY <1>4, <1>5 DEF InterruptAtCheck, Interrupted, Outcome, Evaluating, inputs
    <2> QED
      BY <2>1, EndsSafely DEF Forbidden
  <1>6. CASE BackendRaises
    <2>1. /\ pc \notin {"admit", "finish", "done"} /\ pc' = "finish"
          /\ result'.reason = "EVALUATOR_EXCEPTION" /\ UNCHANGED <<request, budget>>
      BY <1>6 DEF BackendRaises, EvaluatorException, Outcome, inputs
    <2> QED
      BY <2>1, EndsSafely DEF Forbidden
  <1>7. CASE Finish
    <2>1. pc' = "done" /\ UNCHANGED <<request, budget>>
      BY <1>7 DEF Finish, inputs
    <2>2. CASE UNCHANGED result
      BY <1>7, <2>1, <2>2 DEF Finish, StepInv, StepLimits, PairProgress, UnknownIsError, Evaluating,
         ReserveCoversEveryEvaluation
    <2>3. CASE result.exit_code \in {0, 10} /\ CheckRaises /\ result'.reason = CheckReason
      <3>1. budget.unknown = 0
        BY <2>3, Numbers DEF StepInv, UnknownIsError
      <3>2. result'.reason = "CPU_LIMIT"
        BY <2>3, <3>1 DEF CheckRaises, CheckReason
      <3> QED
        BY <2>1, <3>1, <3>2 DEF StepInv, StepLimits, PairProgress, UnknownIsError, Evaluating,
           ReserveCoversEveryEvaluation
    <2> QED
      BY <1>7, <2>2, <2>3 DEF Finish
  <1> QED
    BY <1>2, <1>3, <1>5, <1>6, <1>7

LEMMA StepInductive == StepInv /\ [Next]_vars => StepInv'
  <1> SUFFICES ASSUME StepInv, [Next]_vars PROVE StepInv'
    OBVIOUS
  <1>0. TypeInv'
    BY NextType DEF StepInv
  <1>1. CASE Engine
    BY <1>0, <1>1, SetupStep, ScreeningStep, EvaluationStep, EndingStep DEF Engine
  <1>2. CASE Tick \/ UNCHANGED vars
    BY <1>0, <1>2 DEF Tick, vars, inputs, work, StepInv, StepLimits, PairProgress, UnknownIsError,
       Reserved, ReserveCoversEveryEvaluation
  <1> QED
    BY <1>1, <1>2 DEF Next, Done

LEMMA StepInvariant == Spec => []StepInv
  BY InitStep, StepInductive, PTL DEF Spec

\* The two-pair reserve of _screen and the admitted minimum budget suffice for any step counts:
\* no admitted invocation meets the step cap inside an evaluation, and none lacks the pair that
\* confirms or replays a controller.
THEOREM ReserveSuffices == Spec => []ReserveCoversEveryEvaluation
  <1>1. StepInv => ReserveCoversEveryEvaluation
    BY DEF StepInv
  <1> QED
    BY <1>1, StepInvariant, PTL

LEMMA BudgetInductive == StepInv /\ BudgetRespected /\ [Next]_vars => BudgetRespected'
  <1> SUFFICES ASSUME StepInv, BudgetRespected, [Next]_vars PROVE BudgetRespected'
    OBVIOUS
  <1> USE DEF BudgetRespected
  <1>1. TypeInv /\ UNCHANGED request
    <2>1. TypeInv
      BY DEF StepInv
    <2>2. Engine \/ Tick \/ Done \/ UNCHANGED vars => UNCHANGED request
      BY DEF Engine, Tick, Done, vars, inputs, Setup, AdmitRequest, RefuseRequest, RefuseRuntime,
         AdmitRuntime, Settle, SettleEnds, BudgetStep, StepCompletes, StepRaises, Screening,
         ScreenAtAttemptLimit, ScreenWithoutReserve, ScreenBegins, ScreenOutOfBox, Evaluation,
         EpisodeStep, NominalEnds, FinerEnds, JudgeFirst, JudgeTrial, JudgeFinal, ConfirmBegins,
         ReplayBegins, FinalPair, InterruptAtCheck, BackendRaises, Finish
    <2> QED
      BY <2>1, <2>2 DEF Next
  <1>2. ASSUME NEW total, BudgetStep(total) PROVE BudgetRespected'
    BY <1>1, <1>2, Numbers DEF BudgetStep, StepCompletes, StepRaises, TypeInv, TypeOK
  <1>3. CASE ScreenBegins \/ ScreenOutOfBox
    BY <1>1, <1>3, Numbers DEF ScreenBegins, ScreenOutOfBox, AttemptsLeft, TypeInv, TypeOK
  <1>4. ASSUME UNCHANGED budget \/ ZeroFound PROVE BudgetRespected'
    BY <1>1, <1>4 DEF ZeroFound, TypeInv, TypeOK
  <1>5. CASE Setup
    BY <1>2, <1>4, <1>5
       DEF Setup, AdmitRequest, RefuseRequest, RefuseRuntime, AdmitRuntime, Settle, SettleEnds
  <1>6. CASE Screening
    BY <1>3, <1>4, <1>6 DEF Screening, ScreenAtAttemptLimit, ScreenWithoutReserve
  <1>7. CASE Evaluation
    <2>1. CASE EpisodeStep
      BY <1>2, <2>1 DEF EpisodeStep
    <2>2. CASE NominalEnds \/ FinerEnds \/ JudgeFirst \/ JudgeTrial \/ JudgeFinal
      BY <1>4, <2>2 DEF NominalEnds, FinerEnds, JudgeFirst, JudgeTrial, JudgeFinal
    <2> QED
      BY <1>7, <2>1, <2>2 DEF Evaluation
  <1>8. CASE ConfirmBegins \/ ReplayBegins \/ InterruptAtCheck \/ BackendRaises \/ Finish
    BY <1>4, <1>8
       DEF ConfirmBegins, ReplayBegins, FinalPair, InterruptAtCheck, BackendRaises, Finish
  <1>9. CASE Tick \/ UNCHANGED vars
    BY <1>4, <1>9 DEF Tick, vars
  <1> QED
    BY <1>5, <1>6, <1>7, <1>8, <1>9 DEF Next, Engine, Done

\* No interleaving of the settling, the screens, the confirmation, a replay and the clock passes
\* either limit of _Budget.
THEOREM BudgetIsRespected == Spec => []BudgetRespected
  <1>1. Init => BudgetRespected
    <2> SUFFICES ASSUME Init PROVE BudgetRespected
      OBVIOUS
    <2>1. budget.attempts = 0 /\ budget.completed = 0
      BY DEF Init
    <2> QED
      BY <2>1, InitType, Numbers DEF BudgetRespected
  <1> QED
    BY <1>1, StepInvariant, BudgetInductive, PTL DEF Spec

-----------------------------------------------------------------------------
(* The accounting.                                                         *)

WorkInv ==
    /\ StepInv
    /\ pc \in {"admit", "runtime", "settle"} => charged = 0
    /\ pc \in Evaluating => before = SetupSteps + charged
    /\ WorkIsCharged

LEMMA WorkInductive == WorkInv /\ [Next]_vars => WorkInv'
  <1> SUFFICES ASSUME WorkInv, [Next]_vars PROVE WorkInv'
    OBVIOUS
  <1>0. StepInv /\ StepInv' /\ TypeInv
    BY StepInductive DEF WorkInv, StepInv
  <1> USE <1>0 DEF WorkInv, WorkIsCharged, Ended, Evaluating
  <1>1. ASSUME NEW total, BudgetStep(total), pc \in {"settle", "nominal", "finer"} PROVE WorkInv'
    <2>1. CASE StepRaises(total)
      <3>1. budget'.completed = budget.completed /\ pc' = "finish" /\ ChargePair
        BY <2>1 DEF StepRaises, EvaluatorException, Outcome, TypeInv, TypeOK
      <3> QED
        BY <1>1, <3>1, Numbers DEF ChargePair, StepInv, StepLimits
    <2>2. CASE StepCompletes(total) /\ budget.completed < request.max_steps
      <3>1. UNCHANGED <<pc, charged, before>>
        BY <2>2 DEF StepCompletes
      <3> QED
        BY <1>1, <3>1
    <2>3. CASE StepCompletes(total) /\ ~(budget.completed < request.max_steps)
      <3>1. pc' = "finish" /\ ChargePair /\ UNCHANGED budget
        BY <2>3 DEF StepCompletes, Interrupted, Outcome
      <3> QED
        BY <1>1, <3>1, Numbers DEF ChargePair, StepInv, StepLimits
    <2> QED
      BY <1>1, <2>1, <2>2, <2>3 DEF BudgetStep
  \* An ending, a screen or a confirmation after a pair that has just been charged.
  <1>2. ASSUME pc = "judge", ChargePair, pc' \in {"screen", "confirm", "finish"},
               budget'.completed = budget.completed
        PROVE  WorkInv'
    BY <1>2, Numbers DEF ChargePair
  <1>3. ASSUME pc \in {"screen", "confirm", "replay"}, pc' \in {"screen", "finish"},
               budget'.completed = budget.completed, UNCHANGED charged
        PROVE  WorkInv'
    BY <1>3
  <1>4. ASSUME pc \in {"screen", "confirm", "replay"}, NEW purpose, NEW v, BeginPair(purpose, v),
               budget'.completed = budget.completed, UNCHANGED charged
        PROVE  WorkInv'
    BY <1>4 DEF BeginPair
  <1>5. PollAccepted \/ PollRejected => pc' \in {"screen", "finish"}
    BY PollGoesOn
  <1>6. ZeroFound => pc' = "confirm" /\ budget'.completed = budget.completed
    BY DEF ZeroFound, TypeInv, TypeOK
  <1>7. CASE Setup
    <2>1. CASE Settle
      BY <1>1, <2>1 DEF Settle
    <2>2. CASE AdmitRequest \/ RefuseRequest \/ RefuseRuntime \/ AdmitRuntime
      BY <2>2, Numbers DEF AdmitRequest, RefuseRequest, RefuseRuntime, AdmitRuntime, Outcome, work,
         StepInv, StepLimits
    <2>3. CASE SettleEnds
      BY <2>3, Numbers DEF SettleEnds, Interrupted, SearchEnded, Outcome, work, StepInv, StepLimits
    <2> QED
      BY <1>7, <2>1, <2>2, <2>3 DEF Setup
  <1>8. CASE Screening
    <2>1. CASE ScreenAtAttemptLimit \/ ScreenWithoutReserve
      BY <1>3, <2>1 DEF ScreenAtAttemptLimit, ScreenWithoutReserve, SearchEnded, Outcome, work
    <2>2. CASE ScreenBegins
      <3>1. budget'.completed = budget.completed
        BY <2>2 DEF ScreenBegins, TypeInv, TypeOK
      <3> QED
        BY <1>4, <2>2, <3>1 DEF ScreenBegins
    <2>3. CASE ScreenOutOfBox
      <3>1. budget'.completed = budget.completed
        BY <2>3 DEF ScreenOutOfBox, TypeInv, TypeOK
      <3> QED
        BY <1>3, <1>5, <2>3, <3>1 DEF ScreenOutOfBox, work
    <2> QED
      BY <1>8, <2>1, <2>2, <2>3 DEF Screening
  <1>9. CASE Evaluation
    <2>1. CASE EpisodeStep
      BY <1>1, <2>1 DEF EpisodeStep
    <2>2. CASE NominalEnds \/ FinerEnds
      <3>1. /\ pc \in {"nominal", "finer"} /\ pc' \in {"finer", "judge"}
            /\ UNCHANGED <<budget, before, charged>>
        BY <2>2 DEF NominalEnds, FinerEnds
      <3> QED
        BY <3>1
    <2>3. CASE JudgeFirst
      BY <1>2, <1>6, <2>3 DEF JudgeFirst, Interrupted, SearchEnded, Outcome
    <2>4. CASE JudgeTrial
      BY <1>2, <1>5, <1>6, <2>4 DEF JudgeTrial, Interrupted, Outcome
    <2>5. CASE JudgeFinal
      BY <1>2, <2>5 DEF JudgeFinal, Interrupted, Outcome
    <2> QED
      BY <1>9, <2>1, <2>2, <2>3, <2>4, <2>5 DEF Evaluation
  <1>10. CASE ConfirmBegins \/ ReplayBegins
    BY <1>3, <1>4, <1>10 DEF ConfirmBegins, ReplayBegins, FinalPair, Interrupted, Outcome
  <1>11. CASE InterruptAtCheck \/ BackendRaises
    <2>1. /\ pc \notin {"admit", "finish", "done"} /\ pc' = "finish" /\ ChargePair /\ UNCHANGED budget
      BY <1>11 DEF InterruptAtCheck, BackendRaises, Interrupted, EvaluatorException, Outcome
    <2>2. pc \in Locations
      BY DEF TypeInv, TypeOK
    <2> QED
      BY <2>1, <2>2, Numbers DEF ChargePair, Locations, StepInv, StepLimits
  <1>12. CASE Finish \/ Tick \/ UNCHANGED vars
    BY <1>12 DEF Finish, Tick, vars, work
  <1> QED
    BY <1>7, <1>8, <1>9, <1>10, <1>11, <1>12 DEF Next, Engine, Done

\* Every completed integration call is charged exactly once, to the settling or to a retained pair,
\* whichever verdict, limit or exception ends that pair.
THEOREM WorkAccounted == Spec => []WorkIsCharged
  <1>1. Init => WorkInv
    <2> SUFFICES ASSUME Init PROVE WorkInv
      OBVIOUS
    <2>1. StepInv
      BY InitStep
    <2> QED
      BY <2>1 DEF Init, WorkInv, WorkIsCharged, Ended, Evaluating
  <1>2. WorkInv => WorkIsCharged
    BY DEF WorkInv
  <1> QED
    BY <1>1, <1>2, WorkInductive, PTL DEF Spec

-----------------------------------------------------------------------------
(* The selection and the verdicts.                                         *)

\* What each control point knows of the operation, the search and the selected controller.
Phase ==
    /\ pc = "screen" => operation = "run" /\ role = "screen"
    /\ pc = "replay" => operation = "replay"
    /\ pc = "confirm" => operation = "run" /\ ~budget.search
    /\ pc \in Evaluating => /\ role = "screen" => operation = "run"
                            /\ role = "confirm" => operation = "run" /\ ~budget.search
                            /\ role = "replay" => operation = "replay"

\* A search goes on only while its selection has not reached zero; a confirmation has.
SelectionValue ==
    /\ (pc = "screen" \/ (pc \in Evaluating /\ role = "screen")) /\ selected # NoPair =>
           selected.objective > 0
    /\ pc = "confirm" \/ (pc \in Evaluating /\ role = "confirm") =>
           selected # NoPair /\ selected.objective = 0

\* The pair under evaluation carries no verdict yet, and is the controller it is begun for.
PairSubject ==
    pc \in Evaluating =>
        /\ ~pair.qualified /\ pair.class = "INCOMPLETE"
        /\ role = "confirm" => pair.parameters = selected.parameters
        /\ role = "replay" => pair.parameters = request.original

\* The evidence a finite verdict needs: nothing in it is missing.
FiniteEvidence(p) ==
    /\ p.nominal.class # "INCOMPLETE"
    /\ p.nominal.class = "COMPLETE" => p.finer.class # "INCOMPLETE"
LastEvidence ==
    /\ pc = "confirm" => FiniteEvidence(pair)
    /\ pc = "screen" => IF selected = NoPair THEN budget.attempts = 0 ELSE FiniteEvidence(pair)
    /\ pc \in {"admit", "runtime", "settle"} =>
           budget.attempts = 0 /\ selected = NoPair /\ role = "screen"

VerdictParts ==
    /\ Phase /\ SelectionValue /\ PairSubject /\ LastEvidence
    /\ ~Ended => ~result.qualified /\ result.exit_code # 10
    /\ QualifiedMeansConfirmed /\ FiniteVerdictIsComplete

\* The inductive invariant of the verdicts.
VerdictInv == StepInv /\ VerdictParts

\* _classify_pair of a pair that carries no verdict yet.
LEMMA ClassifiedFacts ==
  ASSUME NEW p \in Pairs, ~p.qualified, p.class = "INCOMPLETE"
  PROVE  /\ Classified(p).parameters = p.parameters
         /\ Classified(p).class # "INCOMPLETE" => FiniteEvidence(Classified(p))
         /\ Classified(p).qualified => Classified(p).class = "COMPLETE" /\ Classified(p).objective = 0
  <1>1. Classified(p) \in {p, [p EXCEPT !.class = "HARD_REJECTION"],
                          [p EXCEPT !.class = "COMPLETE", !.objective = Worst(p),
                             !.qualified = Worst(p) = 0 /\ p.nominal.qualified /\ p.finer.qualified]}
    BY DEF Classified
  <1>2. Classified(p).parameters = p.parameters
    BY <1>1 DEF Pairs
  <1>3. Classified(p).class # "INCOMPLETE" => FiniteEvidence(Classified(p))
    BY DEF Classified, FiniteEvidence, Pairs, Measurements
  <1>4. Classified(p).qualified => Classified(p).class = "COMPLETE" /\ Classified(p).objective = 0
    BY DEF Classified, Pairs, Measurements
  <1> QED
    BY <1>2, <1>3, <1>4

LEMMA VerdictInit == Init => VerdictInv
  <1> SUFFICES ASSUME Init PROVE VerdictInv
    OBVIOUS
  <1>1. StepInv
    BY InitStep
  <1> QED
    BY <1>1
       DEF Init, VerdictInv, VerdictParts, Phase, SelectionValue, PairSubject, LastEvidence,
           Ended, Evaluating, QualifiedMeansConfirmed, FiniteVerdictIsComplete

\* An ending that is neither qualified nor a finite verdict.
LEMMA EndsOpen ==
  ASSUME pc' = "finish", ~result'.qualified, result'.exit_code # 10
  PROVE  VerdictParts'
  BY DEF VerdictParts, Phase, SelectionValue, PairSubject, LastEvidence, Ended, Evaluating,
     QualifiedMeansConfirmed, FiniteVerdictIsComplete

\* The end of a search whose last pair is finite, or that has not begun one.
LEMMA SearchEndsFinite ==
  ASSUME VerdictInv, pc' = "finish", ~result'.qualified, result'.exit_code = 10,
         budget'.unknown = 0, role' = "screen",
         FiniteEvidence(pair') \/ budget'.attempts = 0, TypeInv'
  PROVE  VerdictParts'
  <1>1. FiniteVerdictIsComplete'
    BY Numbers DEF FiniteVerdictIsComplete, FiniteEvidence
  <1> QED
    BY <1>1 DEF VerdictParts, Phase, SelectionValue, PairSubject, LastEvidence, Ended,
       Evaluating, QualifiedMeansConfirmed

\* Another trial after a finite pair that left a positive selection.
LEMMA SearchGoesOn ==
  ASSUME VerdictInv, ~Ended, pc' = "screen", UNCHANGED <<operation, role, result>>,
         operation = "run", role = "screen", selected' # NoPair, selected'.objective > 0,
         FiniteEvidence(pair')
  PROVE  VerdictParts'
  BY DEF VerdictInv, VerdictParts, Phase, SelectionValue, PairSubject, LastEvidence, Ended,
     Evaluating, QualifiedMeansConfirmed, FiniteVerdictIsComplete, FiniteEvidence

\* A zero was found: the confirmation of the selection follows.
LEMMA ZeroStartsConfirmation ==
  ASSUME VerdictInv, ~Ended, ZeroFound, TypeInv, UNCHANGED operation,
         operation = "run", selected' # NoPair, selected'.objective = 0, FiniteEvidence(pair')
  PROVE  VerdictParts'
  <1>1. pc' = "confirm" /\ ~budget'.search /\ UNCHANGED result
    BY DEF ZeroFound, TypeInv, TypeOK
  <1> QED
    BY <1>1 DEF VerdictInv, VerdictParts, Phase, SelectionValue, PairSubject, LastEvidence, Ended,
       Evaluating, QualifiedMeansConfirmed, FiniteVerdictIsComplete, FiniteEvidence

LEMMA VerdictBudgetStep ==
  ASSUME VerdictInv, NEW total, BudgetStep(total), pc \in {"settle", "nominal", "finer"}
  PROVE  VerdictParts'
  <1>1. TypeInv
    BY DEF VerdictInv, StepInv
  <1>2. CASE UNCHANGED pc
    <2>1. /\ UNCHANGED <<operation, request, pc, role, pair, result, initial, selected, confirmation>>
          /\ budget'.search = budget.search /\ budget'.attempts = budget.attempts
      BY <1>1, <1>2
         DEF BudgetStep, StepCompletes, StepRaises, Interrupted, EvaluatorException, Outcome,
             inputs, retained, TypeInv, TypeOK
    <2> QED
      BY <2>1 DEF VerdictInv, VerdictParts, Phase, SelectionValue, PairSubject, LastEvidence, Ended,
         Evaluating, QualifiedMeansConfirmed, FiniteVerdictIsComplete, FiniteEvidence
  <1>3. CASE ~UNCHANGED pc
    <2>1. pc' = "finish" /\ ~result'.qualified /\ result'.exit_code # 10
      BY <1>3 DEF BudgetStep, StepCompletes, StepRaises, Interrupted, EvaluatorException, Outcome
    <2> QED
      BY <2>1, EndsOpen
  <1> QED
    BY <1>2, <1>3

LEMMA VerdictSetup ==
  ASSUME VerdictInv, TypeInv', Setup
  PROVE  VerdictParts'
  <1>1. TypeInv /\ budget.unknown \in Nat
    BY Numbers DEF VerdictInv, StepInv
  <1> USE DEF VerdictInv
  <1>2. CASE AdmitRequest \/ RefuseRequest \/ AdmitRuntime
    <2>1. /\ UNCHANGED <<operation, request, budget, role, pair, result, initial, selected, confirmation>>
          /\ pc \in {"admit", "runtime"} /\ pc' \in {"runtime", "settle", "done"}
      BY <1>2 DEF AdmitRequest, RefuseRequest, AdmitRuntime, inputs, work, retained
    <2> QED
      BY <2>1 DEF VerdictParts, Phase, SelectionValue, PairSubject, LastEvidence, Ended,
         Evaluating, QualifiedMeansConfirmed, FiniteVerdictIsComplete, FiniteEvidence
  <1>3. CASE RefuseRuntime
    BY <1>3, EndsOpen DEF RefuseRuntime, Outcome
  <1>4. CASE Settle
    BY <1>4, VerdictBudgetStep DEF Settle
  <1>5. CASE SettleEnds
    <2>1. /\ pc = "settle" /\ UNCHANGED <<operation, budget, role, pair, selected>>
          /\ operation \in {"run", "replay"} /\ budget.unknown = 0
      BY <1>1, <1>5 DEF SettleEnds, inputs, work, retained, StepInv, UnknownIsError, TypeInv, TypeOK
    <2>2. CASE pc' = (IF operation = "run" THEN "screen" ELSE "replay") /\ UNCHANGED result
      BY <2>1, <2>2 DEF VerdictParts, Phase, SelectionValue, PairSubject, LastEvidence, Ended,
         Evaluating, QualifiedMeansConfirmed, FiniteVerdictIsComplete
    <2>3. CASE pc' = "finish" /\ ~result'.qualified /\ result'.exit_code # 10
      BY <2>3, EndsOpen
    <2>4. CASE pc' = "finish" /\ ~result'.qualified /\ result'.exit_code = 10
      <3>1. budget'.attempts = 0 /\ role' = "screen" /\ budget'.unknown = 0
        BY <2>1 DEF VerdictParts, LastEvidence
      <3> QED
        BY <2>4, <3>1, SearchEndsFinite
    <2> QED
      BY <1>5, <2>2, <2>3, <2>4 DEF SettleEnds, Interrupted, SearchEnded, Outcome
  <1> QED
    BY <1>2, <1>3, <1>4, <1>5 DEF Setup

LEMMA VerdictScreening ==
  ASSUME VerdictInv, TypeInv', Screening
  PROVE  VerdictParts'
  <1>1. TypeInv /\ pc = "screen" /\ operation = "run" /\ role = "screen" /\ budget.unknown = 0 /\ ~Ended
    BY Numbers DEF VerdictInv, StepInv, UnknownIsError, VerdictParts, Phase, Ended, Screening,
       ScreenAtAttemptLimit, ScreenWithoutReserve, ScreenBegins, ScreenOutOfBox
  <1>2. budget.attempts = 0 \/ (FiniteEvidence(pair) /\ selected # NoPair /\ selected.objective > 0)
    BY <1>1 DEF VerdictInv, VerdictParts, LastEvidence, SelectionValue
  <1>3. CASE ScreenAtAttemptLimit \/ ScreenWithoutReserve
    <2>1. /\ pc' = "finish" /\ ~result'.qualified /\ result'.exit_code = 10
          /\ UNCHANGED <<budget, role, pair>>
      BY <1>3 DEF ScreenAtAttemptLimit, ScreenWithoutReserve, SearchEnded, Outcome, work
    <2>2. FiniteEvidence(pair') \/ budget'.attempts = 0
      BY <1>2, <2>1 DEF FiniteEvidence
    <2> QED
      BY <1>1, <2>1, <2>2, SearchEndsFinite
  <1>4. CASE ScreenBegins
    <2>1. /\ pc' = "nominal" /\ role' = "screen" /\ pair' = FreshPair(Trial)
          /\ UNCHANGED <<operation, result, selected>>
      BY <1>4 DEF ScreenBegins, BeginPair, inputs, retained
    <2> QED
      BY <1>1, <2>1
         DEF VerdictInv, VerdictParts, Phase, SelectionValue, PairSubject, LastEvidence, Ended,
             Evaluating, QualifiedMeansConfirmed, FiniteVerdictIsComplete, FreshPair
  <1>5. CASE ScreenOutOfBox
    <2>1. selected # NoPair
      BY <1>1, <1>5 DEF ScreenOutOfBox, Trial, InBox, TypeInv, TypeOK, Request
    <2>2. FiniteEvidence(pair) /\ selected.objective > 0
      BY <1>1, <2>1 DEF VerdictInv, VerdictParts, LastEvidence, SelectionValue
    <2>3. UNCHANGED <<operation, role, pair, selected>> /\ budget'.unknown = 0
      BY <1>1, <1>5 DEF ScreenOutOfBox, inputs, work, retained, TypeInv, TypeOK
    <2>4. FiniteEvidence(pair')
      BY <2>2, <2>3 DEF FiniteEvidence
    <2>5. CASE pc' = "screen" /\ UNCHANGED result
      BY <1>1, <2>1, <2>2, <2>3, <2>4, <2>5, SearchGoesOn
    <2>6. CASE pc' = "finish" /\ result'.exit_code = 10 /\ ~result'.qualified
      BY <1>1, <2>3, <2>4, <2>6, SearchEndsFinite
    <2> QED
      BY <1>5, <2>5, <2>6, PollGoesOn DEF ScreenOutOfBox
  <1> QED
    BY <1>3, <1>4, <1>5 DEF Screening

LEMMA VerdictEvaluation ==
  ASSUME VerdictInv, TypeInv', Evaluation
  PROVE  VerdictParts'
  <1>1. TypeInv /\ pc \in Evaluating /\ ~Ended /\ budget.unknown = 0
    <2>1. TypeInv /\ pc \in Evaluating
      BY
         DEF VerdictInv, StepInv, Evaluation, EpisodeStep, NominalEnds, FinerEnds, JudgeFirst,
             JudgeTrial, JudgeFinal, Evaluating
    <2> QED
      BY <2>1, Numbers DEF VerdictInv, StepInv, UnknownIsError, Ended, Evaluating
  <1> DEFINE p == Classified(pair)
  <1>2. /\ p \in Pairs /\ p.parameters = pair.parameters
        /\ p.class # "INCOMPLETE" => FiniteEvidence(p)
        /\ p.qualified => p.class = "COMPLETE" /\ p.objective = 0
    BY <1>1, ClassifiedType, ClassifiedFacts
       DEF VerdictInv, VerdictParts, PairSubject, TypeInv, TypeOK
  <1>3. p.objective \in 0 .. MaxHold
    BY <1>2 DEF Pairs
  <1>4. CASE EpisodeStep
    BY <1>4, VerdictBudgetStep DEF EpisodeStep
  <1>5. CASE NominalEnds \/ FinerEnds
    <2>1. /\ pc' \in {"finer", "judge"}
          /\ UNCHANGED <<operation, request, budget, role, result, selected>>
      BY <1>5 DEF NominalEnds, FinerEnds, inputs, retained
    <2>2. /\ pair'.parameters = pair.parameters /\ pair'.qualified = pair.qualified
          /\ pair'.class = pair.class
      BY <1>1, <1>5 DEF NominalEnds, FinerEnds, TypeInv, TypeOK, Pairs
    <2> QED
      BY <1>1, <2>1, <2>2
         DEF VerdictInv, VerdictParts, Phase, SelectionValue, PairSubject, LastEvidence, Ended,
             Evaluating, QualifiedMeansConfirmed, FiniteVerdictIsComplete
  <1>6. ASSUME Interrupted("UNKNOWN_MEASUREMENT") PROVE VerdictParts'
    BY <1>6, EndsOpen DEF Interrupted, Outcome
  <1>7. CASE JudgeFirst
    <2>1. /\ operation = "run" /\ role = "screen" /\ UNCHANGED <<operation, role>> /\ pair' = p
          /\ selected' = (IF p.class = "COMPLETE" THEN p ELSE selected)
      BY <1>1, <1>7 DEF JudgeFirst, inputs, VerdictInv, VerdictParts, Phase
    <2>2. CASE p.class = "HARD_REJECTION" /\ SearchEnded("INITIAL_POLICY_NOT_SEARCHABLE") /\ UNCHANGED budget
      <3>1. FiniteEvidence(pair')
        BY <1>2, <2>1, <2>2
      <3> QED
        BY <1>1, <2>1, <2>2, <3>1, SearchEndsFinite DEF SearchEnded, Outcome
    <2>3. CASE p.class = "COMPLETE"
      <3>1. FiniteEvidence(pair') /\ selected' = p /\ selected' # NoPair
        BY <1>2, <2>1, <2>3
      <3>2. CASE p.objective = 0 /\ ZeroFound
        BY <1>1, <2>1, <3>1, <3>2, ZeroStartsConfirmation
      <3>3. CASE p.objective > 0 /\ pc' = "screen" /\ UNCHANGED result
        BY <1>1, <2>1, <3>1, <3>3, SearchGoesOn
      <3> QED
        BY <1>6, <1>7, <2>3, <3>2, <3>3 DEF JudgeFirst
    <2> QED
      BY <1>6, <1>7, <2>2, <2>3 DEF JudgeFirst
  <1>8. CASE JudgeTrial
    <2>1. /\ operation = "run" /\ role = "screen" /\ UNCHANGED <<operation, role>> /\ pair' = p
          /\ selected # NoPair /\ selected.objective > 0
          /\ selected' = (IF Accepts(p) THEN p ELSE selected)
      BY <1>1, <1>8 DEF JudgeTrial, inputs, VerdictInv, VerdictParts, Phase, SelectionValue
    <2>2. selected' # NoPair
      BY <1>2, <2>1
    <2>3. CASE p.class = "INCOMPLETE"
      BY <1>6, <1>8, <2>3 DEF JudgeTrial, Accepts
    <2>4. CASE p.class # "INCOMPLETE"
      <3>1. FiniteEvidence(pair')
        BY <1>2, <2>1, <2>4
      <3>2. CASE Accepts(p) /\ p.objective = 0 /\ ZeroFound
        BY <1>1, <2>1, <2>2, <3>1, <3>2, ZeroStartsConfirmation
      <3>3. CASE PollAccepted \/ PollRejected
        <4>1. selected'.objective > 0 /\ UNCHANGED budget
          BY <1>3, <1>8, <2>1, <2>4, <3>3 DEF JudgeTrial, PollAccepted, PollRejected, ZeroFound,
             NextCoordinate, SweepEnds, SearchEnded, Outcome
        <4>2. CASE pc' = "screen" /\ UNCHANGED result
          BY <1>1, <2>1, <2>2, <3>1, <4>1, <4>2, SearchGoesOn
        <4>3. CASE pc' = "finish" /\ result'.exit_code = 10 /\ ~result'.qualified
          BY <1>1, <2>1, <3>1, <4>1, <4>3, SearchEndsFinite
        <4> QED
          BY <3>3, <4>2, <4>3, PollGoesOn
      <3> QED
        BY <1>8, <2>4, <3>2, <3>3 DEF JudgeTrial
    <2> QED
      BY <2>3, <2>4
  <1>9. CASE JudgeFinal
    <2>1. /\ role \in {"confirm", "replay"} /\ pair' = p /\ pc' = "finish"
          /\ confirmation' = (IF role = "confirm" THEN p ELSE confirmation)
          /\ UNCHANGED <<operation, request, budget, role, selected>>
      BY <1>9 DEF JudgeFinal, Interrupted, Outcome, inputs
    <2>2. CASE p.class = "INCOMPLETE"
      BY <1>6, <1>9, <2>2 DEF JudgeFinal
    <2>3. CASE p.class # "INCOMPLETE" /\ p.qualified
      <3>1. result'.exit_code = 0
        BY <1>9, <2>3 DEF JudgeFinal, Outcome
      <3>2. /\ role = "confirm" => /\ operation = "run" /\ ~budget.search
                                   /\ selected # NoPair /\ selected.objective = 0
                                   /\ pair.parameters = selected.parameters
            /\ role = "replay" => operation = "replay" /\ pair.parameters = request.original
        BY <1>1 DEF VerdictInv, VerdictParts, Phase, SelectionValue, PairSubject
      <3>3. QualifiedMeansConfirmed'
        BY <1>1, <1>2, <2>1, <2>3, <3>1, <3>2 DEF QualifiedMeansConfirmed
      <3> QED
        BY <2>1, <3>1, <3>3
           DEF VerdictParts, Phase, SelectionValue, PairSubject, LastEvidence, Ended, Evaluating,
               FiniteVerdictIsComplete
    <2>4. CASE p.class # "INCOMPLETE" /\ ~p.qualified
      <3>1. ~result'.qualified /\ FiniteEvidence(pair')
        BY <1>2, <1>9, <2>1, <2>4 DEF JudgeFinal, Outcome
      <3>2. FiniteVerdictIsComplete'
        BY <1>1, <2>1, <3>1 DEF FiniteVerdictIsComplete, FiniteEvidence
      <3> QED
        BY <2>1, <3>1, <3>2
           DEF VerdictParts, Phase, SelectionValue, PairSubject, LastEvidence, Ended, Evaluating,
               QualifiedMeansConfirmed
    <2> QED
      BY <2>2, <2>3, <2>4
  <1> QED
    BY <1>4, <1>5, <1>7, <1>8, <1>9 DEF Evaluation

LEMMA VerdictEnding ==
  ASSUME VerdictInv, TypeInv',
         ConfirmBegins \/ ReplayBegins \/ InterruptAtCheck \/ BackendRaises \/ Finish
  PROVE  VerdictParts'
  <1>1. CASE ConfirmBegins \/ ReplayBegins
    <2>1. CASE pc' = "finish"
      BY <1>1, <2>1, EndsOpen
         DEF ConfirmBegins, ReplayBegins, FinalPair, BeginPair, Interrupted, Outcome
    <2>2. CASE pc' # "finish"
      <3>1. /\ pc \in {"confirm", "replay"} /\ pc' = "nominal" /\ role' = pc
            /\ pair' = FreshPair(IF pc = "confirm" THEN selected.parameters ELSE request.original)
            /\ UNCHANGED <<operation, request, budget, selected, result>>
        BY <1>1, <2>2
           DEF ConfirmBegins, ReplayBegins, FinalPair, BeginPair, Interrupted, Outcome, inputs,
               retained
      <3> QED
        BY <3>1
           DEF VerdictInv, VerdictParts, Phase, SelectionValue, PairSubject, LastEvidence, Ended,
               Evaluating, QualifiedMeansConfirmed, FiniteVerdictIsComplete, FreshPair
    <2> QED
      BY <2>1, <2>2
  <1>2. CASE InterruptAtCheck \/ BackendRaises
    BY <1>2, EndsOpen DEF InterruptAtCheck, BackendRaises, Interrupted, EvaluatorException, Outcome
  <1>3. CASE Finish
    <2>1. /\ pc = "finish" /\ pc' = "done"
          /\ UNCHANGED <<operation, request, budget, role, pair, initial, selected, confirmation>>
      BY <1>3 DEF Finish, inputs, work, retained
    <2>2. UNCHANGED result \/ (result'.exit_code = 20 /\ ~result'.qualified)
      BY <1>3 DEF Finish
    <2> QED
      BY <2>1, <2>2
         DEF VerdictInv, VerdictParts, Phase, SelectionValue, PairSubject, LastEvidence, Ended,
             Evaluating, QualifiedMeansConfirmed, FiniteVerdictIsComplete
  <1> QED
    BY <1>1, <1>2, <1>3

LEMMA VerdictInductive == VerdictInv /\ [Next]_vars => VerdictInv'
  <1> SUFFICES ASSUME VerdictInv, [Next]_vars PROVE VerdictInv'
    OBVIOUS
  <1>0. StepInv' /\ TypeInv'
    BY StepInductive DEF VerdictInv, StepInv
  <1>1. CASE Engine
    BY <1>0, <1>1, VerdictSetup, VerdictScreening, VerdictEvaluation, VerdictEnding
       DEF Engine, VerdictInv
  <1>2. CASE Tick \/ UNCHANGED vars
    <2>1. UNCHANGED <<operation, request, pc, budget, role, pair, initial, selected, confirmation, result>>
      BY <1>2 DEF Tick, vars, inputs, work, retained
    <2> QED
      BY <1>0, <2>1
         DEF VerdictInv, VerdictParts, Phase, SelectionValue, PairSubject, LastEvidence, Ended,
             Evaluating, QualifiedMeansConfirmed, FiniteVerdictIsComplete, FiniteEvidence
  <1> QED
    BY <1>1, <1>2 DEF Next, Done

LEMMA VerdictInvariant == Spec => []VerdictInv
  BY VerdictInit, VerdictInductive, PTL DEF Spec

\* A qualified result, of a run or of a replay, rests on a complete qualified evaluation of the very
\* controller it names, made after the search, with no unknown integration work.
THEOREM QualifiedIsConfirmed == Spec => []QualifiedMeansConfirmed
  <1>1. VerdictInv => QualifiedMeansConfirmed
    BY DEF VerdictInv, VerdictParts
  <1> QED
    BY <1>1, VerdictInvariant, PTL

\* Exit 10 is never said with a measurement missing: no interruption or exception is taken for a
\* finite verdict.
THEOREM FiniteVerdictComplete == Spec => []FiniteVerdictIsComplete
  <1>1. VerdictInv => FiniteVerdictIsComplete
    BY DEF VerdictInv, VerdictParts
  <1> QED
    BY <1>1, VerdictInvariant, PTL

LEMMA SelectionStep ==
  ASSUME VerdictInv, [Next]_vars, selected # NoPair, selected' # selected
  PROVE  selected' # NoPair /\ selected'.objective < selected.objective
  <1> DEFINE p == Classified(pair)
  <1>1. JudgeTrial
    BY
       DEF Next, Engine, Tick, Done, vars, inputs, work, retained, Setup, AdmitRequest,
           RefuseRequest, RefuseRuntime, AdmitRuntime, Settle, SettleEnds, BudgetStep,
           StepCompletes, StepRaises, Screening, ScreenAtAttemptLimit, ScreenWithoutReserve,
           ScreenBegins, ScreenOutOfBox, Evaluation, EpisodeStep, NominalEnds, FinerEnds,
           JudgeFirst, JudgeFinal, ConfirmBegins, ReplayBegins, FinalPair, InterruptAtCheck,
           BackendRaises, Finish
  <1>2. Accepts(p) /\ selected' = p
    BY <1>1 DEF JudgeTrial
  <1>3. p \in Pairs /\ selected \in Pairs
    BY ClassifiedType DEF VerdictInv, StepInv, TypeInv, TypeOK
  <1>4. selected.objective > 0
    BY <1>1 DEF JudgeTrial, VerdictInv, VerdictParts, SelectionValue, Evaluating
  <1>5. p.objective \in Int /\ selected.objective \in Int
    BY <1>3, ShapeAssumption DEF Pairs
  <1> QED
    BY <1>2, <1>3, <1>4, <1>5, ShapeAssumption DEF Accepts

\* A poll replaces the selected controller only by one that measured strictly better, for every
\* tolerance: the search cannot cycle.
THEOREM SelectionOnlyDescends == Spec => SelectionDescends
  <1>1. VerdictInv /\ [Next]_vars =>
          [selected # NoPair /\ selected' # selected =>
              selected' # NoPair /\ selected'.objective < selected.objective]_vars
    BY SelectionStep
  <1> QED
    BY <1>1, VerdictInvariant, PTL DEF Spec, SelectionDescends

-----------------------------------------------------------------------------
(* The step floor.                                                         *)

Searching == pc = "screen" \/ (pc \in Evaluating /\ role = "screen")

\* A neighbour of the selection, at the present step, that a poll would not accept.
Neighbour(i, d) == [selected.parameters EXCEPT ![i] = @ + d * poll.step]
Rejects(v) ==
    v \in Box => \/ Measured(v).class # "COMPLETE"
                 \/ Measured(v).hold > 0 /\ Measured(v).hold >= selected.objective - Tolerance
Refused(i, d) == Rejects(Neighbour(i, d))

\* The sign under trial is the preferred one first, then the other; polling starts with the first
\* coordinate once there is a selection.
PollShape ==
    /\ poll.step >= 1
    /\ poll.sign = (IF poll.second THEN -poll.preferred[poll.coordinate]
                                   ELSE poll.preferred[poll.coordinate])
    /\ selected = NoPair => poll.coordinate = 1 /\ ~poll.second

\* What a sweep that has moved nothing knows: every neighbour it has come past was refused.
PollMemory ==
    Searching /\ selected # NoPair /\ ~poll.moved =>
        /\ \A i \in Axes, d \in {-1, 1} : i < poll.coordinate => Refused(i, d)
        /\ poll.second => Refused(poll.coordinate, poll.preferred[poll.coordinate])

\* The pair is the trial, and has the one measurement that reproducible physics has for it.
MeasuredTrial ==
    /\ pc \in Evaluating /\ role = "screen" => pair.parameters = Trial
    /\ Reproducible /\ pc \in {"finer", "judge"} => pair.nominal = Measured(pair.parameters)
    /\ Reproducible /\ pc = "judge" /\ pair.nominal.class = "COMPLETE" =>
           pair.finer = Measured(pair.parameters)

FloorParts ==
    /\ PollShape /\ (Reproducible => PollMemory) /\ MeasuredTrial
    /\ ~Ended => result.reason # "STEP_FLOOR_REACHED"
    /\ FloorIsCoordinateMinimum

\* The inductive invariant of the step floor.
FloorInv == VerdictInv /\ FloorParts

LEMMA FloorInit == Init => FloorInv
  <1> SUFFICES ASSUME Init PROVE FloorInv
    OBVIOUS
  <1>1. VerdictInv
    BY VerdictInit
  <1>2. PollShape
    BY DEF Init, PollShape, Axes
  <1> QED
    BY <1>1, <1>2
       DEF Init, FloorInv, FloorParts, PollMemory, MeasuredTrial, Searching, Ended, Evaluating,
           FloorIsCoordinateMinimum

\* An ending for any other reason.
LEMMA FloorEnds ==
  ASSUME FloorInv, pc' \in {"finish", "done"}, result'.reason # "STEP_FLOOR_REACHED", UNCHANGED <<landscape, poll>>,
         selected' = NoPair => selected = NoPair
  PROVE  FloorParts'
  BY DEF FloorInv, FloorParts, PollShape, PollMemory, MeasuredTrial, Searching, Ended, Evaluating,
     FloorIsCoordinateMinimum

\* A step within an evaluation, or between two stages, that polls nothing.
LEMMA FloorStays ==
  ASSUME FloorInv, ~Ended, pc' \notin {"finish", "done"}, MeasuredTrial',
         UNCHANGED <<landscape, poll, selected, result>>,
         Searching' => Searching \/ selected = NoPair
  PROVE  FloorParts'
  <1>1. PollShape' /\ Reproducible' = Reproducible
    BY DEF FloorInv, FloorParts, PollShape, Reproducible
  <1>a. ASSUME NEW i, NEW d PROVE Refused(i, d)' <=> Refused(i, d)
    BY DEF Refused, Rejects, Neighbour, Measured
  <1>2. (Reproducible => PollMemory)'
    <2>1. CASE selected = NoPair
      BY <2>1 DEF PollMemory
    <2>2. CASE Searching
      BY <1>1, <1>a, <2>2 DEF FloorInv, FloorParts, PollMemory
    <2>3. CASE selected # NoPair /\ ~Searching
      BY <2>3 DEF PollMemory
    <2> QED
      BY <2>1, <2>2, <2>3
  <1>3. FloorIsCoordinateMinimum' /\ (~Ended => result.reason # "STEP_FLOOR_REACHED")'
    BY DEF FloorInv, FloorParts, FloorIsCoordinateMinimum, Ended
  <1> QED
    BY <1>1, <1>2, <1>3 DEF FloorParts

\* The physics has one measurement for a controller.
LEMMA OneMeasurement ==
  ASSUME TypeInv, Reproducible, NEW v \in Box,
         NEW m, m \in landscape[v].nominal \/ m \in landscape[v].finer
  PROVE  m = Measured(v)
  <1>1. landscape[v].nominal = landscape[v].finer /\ \A n, o \in landscape[v].nominal : n = o
    BY DEF Reproducible
  <1>2. m \in landscape[v].nominal
    BY <1>1
  <1>3. Measured(v) \in landscape[v].nominal
    BY <1>2 DEF Measured
  <1> QED
    BY <1>1, <1>2, <1>3

\* After an accepted trial nothing is known of the neighbours, and nothing is claimed.
LEMMA FloorAccepted ==
  ASSUME FloorInv, ~Ended, PollAccepted, selected' # NoPair, pc = "judge", role' = "screen",
         UNCHANGED landscape
  PROVE  FloorParts'
  <1>1. TypeInv /\ poll \in Polls /\ poll.step >= 1 /\ poll.step \in Nat
    BY DEF FloorInv, FloorParts, PollShape, VerdictInv, StepInv, TypeInv, TypeOK, Polls
  <1>2. result.reason # "STEP_FLOOR_REACHED"
    BY DEF FloorInv, FloorParts
  <1> DEFINE f == [poll.preferred EXCEPT ![poll.coordinate] = poll.sign]
  <1>3. f \in [Axes -> {-1, 1}]
    BY <1>1 DEF Polls
  <1> HIDE DEF f
  <1>4. NextCoordinate(f, TRUE)
    BY DEF PollAccepted, f
  <1>5. CASE poll.coordinate # Dimension
    <2>1. /\ poll' = [poll EXCEPT !.coordinate = @ + 1, !.sign = f[poll.coordinate + 1],
                                 !.second = FALSE, !.preferred = f, !.moved = TRUE]
          /\ pc' = "screen" /\ UNCHANGED result
      BY <1>4, <1>5 DEF NextCoordinate
    <2>2. /\ poll'.step = poll.step /\ poll'.sign = f[poll.coordinate + 1] /\ ~poll'.second /\ poll'.moved
          /\ poll'.preferred = f /\ poll'.coordinate = poll.coordinate + 1
      BY <1>1, <2>1 DEF Polls
    <2> QED
      BY <1>1, <1>2, <2>1, <2>2
         DEF FloorParts, PollShape, PollMemory, MeasuredTrial, Ended, Evaluating,
             FloorIsCoordinateMinimum
  <1>6. CASE poll.coordinate = Dimension
    <2>1. SweepEnds(f, TRUE)
      BY <1>4, <1>6 DEF NextCoordinate
    <2>2. CASE poll.sweep + 1 >= MaxSweeps
      <3>1. SearchEnded("SWEEP_LIMIT") /\ UNCHANGED poll
        BY <1>1, <2>1, <2>2 DEF SweepEnds
      <3> QED
        BY <3>1, FloorEnds DEF SearchEnded, Outcome
    <2>3. CASE ~(poll.sweep + 1 >= MaxSweeps)
      <3>1. /\ poll' = [sweep |-> poll.sweep + 1, coordinate |-> 1, sign |-> f[1],
                        second |-> FALSE, step |-> poll.step, preferred |-> f, moved |-> FALSE]
            /\ pc' = "screen" /\ UNCHANGED result
        BY <1>1, <2>1, <2>3 DEF SweepEnds
      <3> QED
        BY <1>1, <1>2, <3>1
           DEF FloorParts, PollShape, PollMemory, MeasuredTrial, Ended, Evaluating, Axes,
               FloorIsCoordinateMinimum
    <2> QED
      BY <2>2, <2>3
  <1> QED
    BY <1>5, <1>6

\* A refused trial is remembered; when the last one of a sweep at the smallest step was refused, all
\* of them were.
LEMMA FloorRejected ==
  ASSUME FloorInv, Searching, ~Ended, PollRejected, selected # NoPair, UNCHANGED <<landscape, selected>>,
         Reproducible => Refused(poll.coordinate, poll.sign)
  PROVE  FloorParts'
  <1>1. /\ poll \in Polls /\ poll.step >= 1 /\ poll.step \in Nat /\ poll.coordinate \in Axes
        /\ poll.preferred \in [Axes -> {-1, 1}] /\ poll.second \in BOOLEAN /\ poll.moved \in BOOLEAN
        /\ selected \in Pairs
    BY DEF FloorInv, FloorParts, PollShape, VerdictInv, StepInv, TypeInv, TypeOK, Polls
  <1>2. result.reason # "STEP_FLOOR_REACHED"
    BY DEF FloorInv, FloorParts
  <1>3. poll.sign = (IF poll.second THEN -poll.preferred[poll.coordinate] ELSE poll.preferred[poll.coordinate])
    BY DEF FloorInv, FloorParts, PollShape
  <1>4. Reproducible' = Reproducible
    BY DEF Reproducible
  <1>5. Reproducible /\ ~poll.moved =>
           /\ \A i \in Axes, d \in {-1, 1} : i < poll.coordinate => Refused(i, d)
           /\ poll.second => Refused(poll.coordinate, poll.preferred[poll.coordinate])
    BY DEF FloorInv, FloorParts, PollMemory
  <1>6. ASSUME poll'.step = poll.step, NEW i, NEW d PROVE Refused(i, d)' <=> Refused(i, d)
    BY <1>6 DEF Refused, Rejects, Neighbour, Measured
  <1>7. CASE ~poll.second
    <2>1. /\ poll' = [poll EXCEPT !.sign = -poll.preferred[poll.coordinate], !.second = TRUE]
          /\ pc' = "screen" /\ UNCHANGED result
      BY <1>7 DEF PollRejected
    <2>2. /\ poll'.step = poll.step /\ poll'.second /\ poll'.moved = poll.moved
          /\ poll'.coordinate = poll.coordinate /\ poll'.preferred = poll.preferred
          /\ poll'.sign = -poll.preferred[poll.coordinate]
      BY <1>1, <2>1 DEF Polls
    <2>3. (Reproducible => PollMemory)'
      BY <1>3, <1>4, <1>5, <1>6, <1>7, <2>2 DEF PollMemory
    <2> QED
      BY <1>1, <1>2, <2>1, <2>2, <2>3 DEF FloorParts, PollShape, MeasuredTrial, Ended, Evaluating,
         FloorIsCoordinateMinimum
  <1>8. CASE poll.second
    <2>1. NextCoordinate(poll.preferred, poll.moved)
      BY <1>8 DEF PollRejected
    <2>2. Reproducible /\ ~poll.moved => \A d \in {-1, 1} : Refused(poll.coordinate, d)
      <3>1. poll.preferred[poll.coordinate] \in {-1, 1}
        BY <1>1
      <3>2. \A d \in {-1, 1} : d = poll.preferred[poll.coordinate] \/ d = poll.sign
        BY <1>3, <1>8, <3>1
      <3> QED
        BY <1>5, <1>8, <3>2
    <2>3. CASE poll.coordinate # Dimension
      <3>1. /\ poll' = [poll EXCEPT !.coordinate = @ + 1, !.sign = poll.preferred[poll.coordinate + 1],
                                    !.second = FALSE, !.preferred = poll.preferred, !.moved = poll.moved]
            /\ pc' = "screen" /\ UNCHANGED result
        BY <2>1, <2>3 DEF NextCoordinate
      <3>2. /\ poll'.step = poll.step /\ ~poll'.second /\ poll'.moved = poll.moved
            /\ poll'.coordinate = poll.coordinate + 1 /\ poll'.preferred = poll.preferred
            /\ poll'.sign = poll.preferred[poll.coordinate + 1]
        BY <1>1, <3>1 DEF Polls
      <3>3. \A i \in Axes : i < poll.coordinate + 1 => i < poll.coordinate \/ i = poll.coordinate
        BY <1>1 DEF Axes
      <3>4. (Reproducible => PollMemory)'
        BY <1>4, <1>5, <1>6, <2>2, <3>2, <3>3 DEF PollMemory
      <3> QED
        BY <1>1, <1>2, <3>1, <3>2, <3>4 DEF FloorParts, PollShape, MeasuredTrial, Ended, Evaluating,
           FloorIsCoordinateMinimum
    <2>4. CASE poll.coordinate = Dimension
      <3> DEFINE step == IF poll.moved THEN poll.step ELSE poll.step \div 2
      <3>1. SweepEnds(poll.preferred, poll.moved)
        BY <2>1, <2>4 DEF NextCoordinate
      <3>2. step \in Nat
        BY <1>1
      <3>3. CASE step = 0
        <4>1. SearchEnded("STEP_FLOOR_REACHED") /\ UNCHANGED poll
          BY <3>1, <3>3 DEF SweepEnds
        <4>2. poll.step = 1 /\ ~poll.moved
          BY <1>1, <3>3
        <4>3. Reproducible => \A i \in Axes, d \in {-1, 1} : Refused(i, d)
          <5>1. \A i \in Axes : i < poll.coordinate \/ i = poll.coordinate
            BY <2>4 DEF Axes
          <5> QED
            BY <1>5, <2>2, <4>2, <5>1
        <4>4. FloorIsCoordinateMinimum'
          <5> SUFFICES ASSUME Reproducible, NEW i \in Axes, NEW d \in {-1, 1}
                       PROVE  Rejects([selected.parameters EXCEPT ![i] = @ + d])'
            BY <1>4 DEF FloorIsCoordinateMinimum, Rejects
          <5>1. Rejects([selected.parameters EXCEPT ![i] = @ + d * poll.step])
            BY <4>3 DEF Refused, Neighbour
          <5>2. d * poll.step = d
            BY <4>2
          <5>3. Rejects([selected.parameters EXCEPT ![i] = @ + d])
            BY <5>1, <5>2
          <5> QED
            BY <5>3 DEF Rejects, Measured
        <4> QED
          BY <1>1, <1>3, <4>1, <4>4
             DEF FloorParts, PollShape, PollMemory, Searching, MeasuredTrial, Ended, Evaluating,
                 SearchEnded, Outcome
      <3>4. CASE step # 0 /\ poll.sweep + 1 >= MaxSweeps
        <4>1. SearchEnded("SWEEP_LIMIT") /\ UNCHANGED poll
          BY <3>1, <3>4 DEF SweepEnds
        <4> QED
          BY <4>1, FloorEnds DEF SearchEnded, Outcome
      <3>5. CASE step # 0 /\ ~(poll.sweep + 1 >= MaxSweeps)
        <4>1. /\ poll' = [sweep |-> poll.sweep + 1, coordinate |-> 1, sign |-> poll.preferred[1],
                          second |-> FALSE, step |-> step, preferred |-> poll.preferred, moved |-> FALSE]
              /\ pc' = "screen" /\ UNCHANGED result
          BY <3>1, <3>5 DEF SweepEnds
        <4>2. step >= 1
          BY <3>2, <3>5
        <4> HIDE DEF step
        <4> QED
          BY <1>1, <1>2, <4>1, <4>2
             DEF FloorParts, PollShape, PollMemory, MeasuredTrial, Ended, Evaluating, Axes,
                 FloorIsCoordinateMinimum
      <3> QED
        BY <3>3, <3>4, <3>5
    <2> QED
      BY <2>3, <2>4
  <1> QED
    BY <1>1, <1>7, <1>8

\* A refused trial says that its neighbour would be refused.
LEMMA RefusalMeasured ==
  ASSUME FloorInv, pc = "judge", role = "screen", selected # NoPair, Reproducible,
         Classified(pair).class # "INCOMPLETE", ~Accepts(Classified(pair))
  PROVE  Refused(poll.coordinate, poll.sign)
  <1> DEFINE v == pair.parameters
  <1>1. pair \in Pairs /\ selected \in Pairs /\ pair.class = "INCOMPLETE" /\ v \in Box
    BY
       DEF FloorInv, VerdictInv, VerdictParts, PairSubject, Evaluating, StepInv, TypeInv, TypeOK,
           Pairs
  <1>2. v = Neighbour(poll.coordinate, poll.sign)
    BY DEF FloorInv, FloorParts, MeasuredTrial, Evaluating, Trial, Neighbour
  <1>3. /\ pair.nominal = Measured(v)
        /\ pair.nominal.class = "COMPLETE" => pair.finer = Measured(v)
    BY DEF FloorInv, FloorParts, MeasuredTrial
  <1>4. pair.nominal \in Measurements /\ pair.finer \in Measurements
    BY <1>1 DEF Pairs
  <1>5. CASE Measured(v).class # "COMPLETE"
    BY <1>2, <1>5 DEF Refused, Rejects
  <1>6. CASE Measured(v).class = "COMPLETE"
    <2>1. pair.nominal = Measured(v) /\ pair.finer = Measured(v)
      BY <1>3, <1>6
    <2>2. Worst(pair) = Measured(v).hold
      BY <2>1 DEF Worst
    <2>3. Classified(pair) = [pair EXCEPT !.class = "COMPLETE", !.objective = Worst(pair),
                                          !.qualified = Worst(pair) = 0 /\ pair.nominal.qualified /\ pair.finer.qualified]
      BY <1>6, <2>1 DEF Classified
    <2>4. Classified(pair).class = "COMPLETE" /\ Classified(pair).objective = Measured(v).hold
      BY <1>1, <2>2, <2>3 DEF Pairs
    <2>5. Measured(v).hold \in Nat /\ selected.objective \in Int
      BY <1>1, <1>4, <2>1, ShapeAssumption DEF Measurements, Pairs
    <2>6. Measured(v).hold > 0 /\ Measured(v).hold >= selected.objective - Tolerance
      BY <2>4, <2>5, ShapeAssumption DEF Accepts
    <2> QED
      BY <1>2, <2>6 DEF Refused, Rejects
  <1> QED
    BY <1>5, <1>6

\* Admission and settling poll nothing; a settled run has no selection yet.
LEMMA FloorSetup ==
  ASSUME FloorInv, Setup
  PROVE  FloorParts'
  <1>1. ~Ended /\ result.reason # "STEP_FLOOR_REACHED" /\ pc \notin Evaluating \cup {"screen"}
    BY
       DEF FloorInv, FloorParts, Setup, AdmitRequest, RefuseRequest, RefuseRuntime, AdmitRuntime,
           Settle, SettleEnds, Ended, Evaluating
  <1>2. selected = NoPair /\ UNCHANGED <<landscape, poll, selected>>
    BY
       DEF FloorInv, VerdictInv, VerdictParts, LastEvidence, Setup, AdmitRequest, RefuseRequest,
           RefuseRuntime, AdmitRuntime, Settle, SettleEnds, BudgetStep, StepCompletes, StepRaises,
           inputs, work, retained
  <1>3. \/ pc' \in {"finish", "done"} /\ result'.reason # "STEP_FLOOR_REACHED"
        \/ pc' \in {"runtime", "settle", "screen", "replay"} /\ UNCHANGED result
    BY <1>1
       DEF Setup, AdmitRequest, RefuseRequest, RefuseRuntime, AdmitRuntime, Settle, SettleEnds,
           BudgetStep, StepCompletes, StepRaises, Outcome, Interrupted, SearchEnded,
           EvaluatorException
  <1>4. CASE pc' \in {"finish", "done"} /\ result'.reason # "STEP_FLOOR_REACHED"
    BY <1>2, <1>4, FloorEnds
  <1>5. CASE pc' \in {"runtime", "settle", "screen", "replay"} /\ UNCHANGED result
    <2>1. MeasuredTrial'
      BY <1>5 DEF MeasuredTrial, Evaluating
    <2> QED
      BY <1>1, <1>2, <1>5, <2>1, FloorStays
  <1> QED
    BY <1>3, <1>4, <1>5

\* A screen begins the trial, ends the search or refuses a controller that is not in the box.
LEMMA FloorScreening ==
  ASSUME FloorInv, Screening
  PROVE  FloorParts'
  <1>1. ~Ended /\ pc = "screen" /\ Searching /\ UNCHANGED <<landscape, selected>>
    BY
       DEF Screening, ScreenAtAttemptLimit, ScreenWithoutReserve, ScreenBegins, ScreenOutOfBox,
           Searching, Ended, inputs, retained
  <1>2. CASE ScreenAtAttemptLimit \/ ScreenWithoutReserve
    BY <1>1, <1>2, FloorEnds DEF ScreenAtAttemptLimit, ScreenWithoutReserve, SearchEnded, Outcome
  <1>3. CASE ScreenBegins
    <2>1. /\ pc' = "nominal" /\ pair'.parameters = Trial /\ Trial' = Trial /\ UNCHANGED <<poll, result>>
      BY <1>1, <1>3 DEF ScreenBegins, BeginPair, FreshPair, Trial, inputs
    <2>2. MeasuredTrial'
      BY <2>1 DEF MeasuredTrial
    <2> QED
      BY <1>1, <2>1, <2>2, FloorStays
  <1>4. CASE ScreenOutOfBox
    <2>1. Trial \notin Box /\ PollRejected
      BY <1>4 DEF ScreenOutOfBox, InBox
    <2>2. request.original \in Box
      BY DEF FloorInv, VerdictInv, StepInv, TypeInv, TypeOK, Request
    <2>3. selected # NoPair
      BY <2>1, <2>2 DEF Trial
    <2>4. Refused(poll.coordinate, poll.sign)
      BY <2>1, <2>3 DEF Trial, Refused, Rejects, Neighbour
    <2> QED
      BY <1>1, <2>1, <2>3, <2>4, FloorRejected
  <1> QED
    BY <1>2, <1>3, <1>4 DEF Screening

\* An evaluation measures the trial; its verdict moves the poll.
LEMMA FloorEvaluation ==
  ASSUME FloorInv, TypeInv', Evaluation
  PROVE  FloorParts'
  <1> DEFINE p == Classified(pair)
  <1>1. ~Ended /\ pc \in Evaluating /\ UNCHANGED landscape
        /\ TypeInv /\ pair \in Pairs /\ result.reason # "STEP_FLOOR_REACHED"
    BY
       DEF Evaluation, EpisodeStep, BudgetStep, StepCompletes, StepRaises, NominalEnds, FinerEnds,
           JudgeFirst, JudgeTrial, JudgeFinal, Ended, Evaluating, inputs, FloorInv, FloorParts,
           VerdictInv, StepInv, TypeInv, TypeOK
  <1>2. CASE EpisodeStep
    <2>1. UNCHANGED <<poll, selected, role, pair>>
      BY <1>2 DEF EpisodeStep, BudgetStep, StepCompletes, StepRaises, retained
    <2>2. CASE pc' = "finish"
      BY <1>1, <1>2, <2>1, <2>2, FloorEnds
         DEF EpisodeStep, BudgetStep, StepCompletes, StepRaises, Interrupted, EvaluatorException,
             Outcome
    <2>3. CASE pc' # "finish"
      <3>1. UNCHANGED <<pc, result, request>>
        BY <1>2, <2>3
           DEF EpisodeStep, BudgetStep, StepCompletes, StepRaises, Interrupted,
               EvaluatorException, Outcome, inputs
      <3>2. MeasuredTrial'
        BY <1>1, <2>1, <3>1 DEF FloorInv, FloorParts, MeasuredTrial, Trial, Reproducible, Measured
      <3> QED
        BY <1>1, <2>1, <3>1, <3>2, FloorStays DEF Searching, Ended, Evaluating
    <2> QED
      BY <2>2, <2>3
  <1>3. CASE NominalEnds
    <2>1. PICK m \in landscape[pair.parameters].nominal :
            pair' = [pair EXCEPT !.nominal = m] /\ pc' = (IF m.class = "COMPLETE" THEN "finer" ELSE "judge")
      BY <1>3 DEF NominalEnds
    <2>2. pc = "nominal" /\ UNCHANGED <<request, role, poll, selected, result>>
      BY <1>3 DEF NominalEnds, inputs, retained
    <2>3. pair'.parameters = pair.parameters /\ pair'.nominal = m /\ pair.parameters \in Box
      BY <1>1, <2>1 DEF Pairs
    <2>4. Reproducible => m = Measured(pair.parameters)
      BY <1>1, <2>3, OneMeasurement
    <2>5. Reproducible' = Reproducible /\ Measured(pair.parameters)' = Measured(pair.parameters) /\ Trial' = Trial
      BY <1>1, <2>2, <2>3 DEF Reproducible, Measured, Trial
    <2>6. MeasuredTrial'
      BY <2>1, <2>2, <2>3, <2>4, <2>5 DEF FloorInv, FloorParts, MeasuredTrial, Evaluating, Measured
    <2> QED
      BY <1>1, <2>1, <2>2, <2>6, FloorStays DEF Searching, Evaluating
  <1>4. CASE FinerEnds
    <2>1. PICK m \in landscape[pair.parameters].finer : pair' = [pair EXCEPT !.finer = m]
      BY <1>4 DEF FinerEnds
    <2>2. pc = "finer" /\ pc' = "judge" /\ UNCHANGED <<request, role, poll, selected, result>>
      BY <1>4 DEF FinerEnds, inputs, retained
    <2>3. /\ pair'.parameters = pair.parameters /\ pair'.nominal = pair.nominal /\ pair'.finer = m
          /\ pair.parameters \in Box
      BY <1>1, <2>1 DEF Pairs
    <2>4. Reproducible => m = Measured(pair.parameters)
      BY <1>1, <2>3, OneMeasurement
    <2>5. Reproducible' = Reproducible /\ Measured(pair.parameters)' = Measured(pair.parameters) /\ Trial' = Trial
      BY <1>1, <2>2, <2>3 DEF Reproducible, Measured, Trial
    <2>6. MeasuredTrial'
      BY <2>2, <2>3, <2>4, <2>5 DEF FloorInv, FloorParts, MeasuredTrial, Evaluating, Measured
    <2> QED
      BY <1>1, <2>2, <2>6, FloorStays DEF Searching, Evaluating
  <1>5. CASE JudgeFirst
    <2>1. UNCHANGED poll
      BY <1>5 DEF JudgeFirst, ZeroFound
    <2>2. \/ pc' = "finish" /\ result'.reason # "STEP_FLOOR_REACHED"
          \/ pc' \in {"confirm", "screen"} /\ UNCHANGED result
      BY <1>5 DEF JudgeFirst, ZeroFound, Interrupted, SearchEnded, Outcome
    <2>3. selected = NoPair
      BY <1>5 DEF JudgeFirst
    <2>4. CASE pc' = "finish" /\ result'.reason # "STEP_FLOOR_REACHED"
      BY <1>1, <2>1, <2>3, <2>4, FloorEnds
    <2>5. CASE pc' \in {"confirm", "screen"} /\ UNCHANGED result
      <3>1. poll.coordinate = 1 /\ ~poll.second /\ PollShape'
        BY <2>1, <2>3 DEF FloorInv, FloorParts, PollShape
      <3>2. poll \in Polls
        BY <1>1 DEF TypeInv, TypeOK
      <3>3. PollMemory'
        BY <2>1, <3>1, <3>2 DEF PollMemory, Axes
      <3> QED
        BY <1>1, <2>5, <3>1, <3>3
           DEF FloorParts, MeasuredTrial, Evaluating, Ended, FloorIsCoordinateMinimum
    <2> QED
      BY <2>2, <2>4, <2>5
  <1>6. CASE JudgeTrial
    <2>1. pc = "judge" /\ role = "screen" /\ role' = "screen" /\ selected # NoPair /\ Searching
      BY <1>6 DEF JudgeTrial, Searching, Evaluating
    <2>2. selected' = IF Accepts(p) THEN p ELSE selected
      BY <1>6 DEF JudgeTrial
    <2>3. selected' # NoPair
      <3>1. p \in Pairs
        BY <1>1, ClassifiedType DEF TypeInv
      <3> QED
        BY <2>1, <2>2, <3>1, NoPairAssumption
    <2>4. CASE p.class = "INCOMPLETE"
      <3>1. Interrupted("UNKNOWN_MEASUREMENT") /\ UNCHANGED poll
        BY <1>6, <2>4 DEF JudgeTrial, Accepts
      <3> QED
        BY <1>1, <2>3, <3>1, FloorEnds DEF Interrupted, Outcome
    <2>5. CASE Accepts(p) /\ p.objective = 0
      <3>1. ZeroFound
        BY <1>6, <2>5, <1>1, ClassifiedType, ShapeAssumption DEF JudgeTrial, Accepts
      <3>2. pc' = "confirm" /\ UNCHANGED <<poll, result>>
        BY <3>1 DEF ZeroFound
      <3>3. PollShape'
        BY <2>3, <3>2 DEF FloorInv, FloorParts, PollShape
      <3> QED
        BY <1>1, <3>2, <3>3 DEF FloorParts, PollMemory, Searching, MeasuredTrial, Evaluating, Ended,
           FloorIsCoordinateMinimum
    <2>6. CASE Accepts(p) /\ p.objective # 0
      <3>1. PollAccepted
        BY <1>6, <2>6 DEF JudgeTrial, Accepts
      <3> QED
        BY <1>1, <2>1, <2>3, <3>1, FloorAccepted
    <2>7. CASE p.class # "INCOMPLETE" /\ ~Accepts(p)
      <3>1. PollRejected
        BY <1>6, <2>7 DEF JudgeTrial
      <3>2. UNCHANGED selected
        BY <2>2, <2>7
      <3> QED
        BY <1>1, <2>1, <2>7, <3>1, <3>2, RefusalMeasured, FloorRejected
    <2> QED
      BY <2>4, <2>5, <2>6, <2>7
  <1>7. CASE JudgeFinal
    <2>1. UNCHANGED <<poll, selected>> /\ pc' = "finish" /\ result'.reason # "STEP_FLOOR_REACHED"
      BY <1>7 DEF JudgeFinal, Interrupted, Outcome
    <2> QED
      BY <1>1, <2>1, FloorEnds
  <1> QED
    BY <1>2, <1>3, <1>4, <1>5, <1>6, <1>7 DEF Evaluation

LEMMA FloorInductive == FloorInv /\ [Next]_vars => FloorInv'
  <1> SUFFICES ASSUME FloorInv, [Next]_vars PROVE FloorInv'
    OBVIOUS
  <1>1. VerdictInv' /\ TypeInv'
    BY VerdictInductive DEF FloorInv, VerdictInv, StepInv
  <1>2. CASE Setup \/ Screening \/ Evaluation
    BY <1>1, <1>2, FloorSetup, FloorScreening, FloorEvaluation DEF FloorInv
  <1>3. CASE ConfirmBegins \/ ReplayBegins
    <2>1. UNCHANGED <<landscape, poll, selected>> /\ ~Ended
      BY <1>3 DEF ConfirmBegins, ReplayBegins, FinalPair, inputs, retained, Ended
    <2>2. \/ pc' = "finish" /\ result'.reason # "STEP_FLOOR_REACHED"
          \/ pc' = "nominal" /\ role' \in {"confirm", "replay"} /\ UNCHANGED result
      BY <1>3 DEF ConfirmBegins, ReplayBegins, FinalPair, BeginPair, Interrupted, Outcome
    <2>3. CASE pc' = "nominal" /\ role' \in {"confirm", "replay"} /\ UNCHANGED result
      <3>1. MeasuredTrial' /\ ~Searching'
        BY <2>3 DEF MeasuredTrial, Searching
      <3> QED
        BY <1>1, <2>1, <2>3, <3>1, FloorStays DEF FloorInv
    <2> QED
      BY <1>1, <2>1, <2>2, <2>3, FloorEnds DEF FloorInv
  <1>4. CASE InterruptAtCheck \/ BackendRaises
    <2>1. UNCHANGED <<landscape, poll, selected>> /\ pc' = "finish" /\ result'.reason # "STEP_FLOOR_REACHED"
      BY <1>4
         DEF InterruptAtCheck, BackendRaises, Interrupted, EvaluatorException, Outcome,
             CheckReason, inputs, retained
    <2> QED
      BY <1>1, <2>1, FloorEnds DEF FloorInv
  <1>5. CASE Finish
    <2>1. UNCHANGED <<landscape, poll, selected>> /\ pc = "finish" /\ pc' = "done"
      BY <1>5 DEF Finish, inputs, work, retained
    <2>2. result'.reason # "STEP_FLOOR_REACHED" \/ UNCHANGED result
      BY <1>5 DEF Finish, CheckReason
    <2>3. CASE UNCHANGED result
      <3>1. Reproducible' = Reproducible
        BY <2>1 DEF Reproducible
      <3>2. FloorIsCoordinateMinimum' = FloorIsCoordinateMinimum
        BY <2>1, <2>3 DEF FloorIsCoordinateMinimum, Reproducible, Ended, Measured
      <3>3. PollMemory' /\ MeasuredTrial'
        BY <2>1 DEF PollMemory, Searching, MeasuredTrial, Evaluating
      <3>4. PollShape'
        BY <2>1 DEF FloorInv, FloorParts, PollShape
      <3> QED
        BY <1>1, <2>1, <3>1, <3>2, <3>3, <3>4 DEF FloorInv, FloorParts, Ended
    <2> QED
      BY <1>1, <2>1, <2>2, <2>3, FloorEnds DEF FloorInv
  <1>6. CASE Tick \/ UNCHANGED vars
    <2>1. UNCHANGED <<operation, request, landscape, pc, role, pair, poll, selected, result>>
      BY <1>6 DEF Tick, vars, inputs, work, retained
    <2>2. /\ Reproducible' = Reproducible /\ Trial' = Trial
          /\ FloorIsCoordinateMinimum' = FloorIsCoordinateMinimum
      BY <2>1 DEF Reproducible, Trial, FloorIsCoordinateMinimum, Ended, Measured
    <2>3. ASSUME NEW i, NEW d PROVE Refused(i, d)' <=> Refused(i, d)
      BY <2>1 DEF Refused, Rejects, Neighbour, Measured
    <2>4. PollMemory' <=> PollMemory
      BY <2>1, <2>3 DEF PollMemory, Searching
    <2>5. MeasuredTrial'
      BY <2>1, <2>2 DEF FloorInv, FloorParts, MeasuredTrial, Measured
    <2>6. PollShape'
      BY <2>1 DEF FloorInv, FloorParts, PollShape
    <2> QED
      BY <1>1, <2>1, <2>2, <2>4, <2>5, <2>6 DEF FloorInv, FloorParts, Ended
  <1> QED
    BY <1>2, <1>3, <1>4, <1>5, <1>6 DEF Next, Engine, Done

\* With reproducible physics, STEP_FLOOR_REACHED says that no neighbour of the selection one smallest
\* step away measures better by more than the tolerance: for every dimension, box and step budget.
THEOREM FloorIsAMinimum == Spec => []FloorIsCoordinateMinimum
  <1>1. FloorInv => FloorIsCoordinateMinimum
    BY DEF FloorInv, FloorParts
  <1> QED
    BY <1>1, FloorInit, FloorInductive, PTL DEF Spec

-----------------------------------------------------------------------------
(* The record.                                                             *)

\* A pair as it is evaluated, and a pair as it was judged.
Open(p) == p.class = "INCOMPLETE" /\ p.objective = 0 /\ ~p.qualified
Judged(p) == p = Classified([FreshPair(p.parameters) EXCEPT !.nominal = p.nominal, !.finer = p.finer])

\* What n integration calls of a pair have measured: all of a complete trajectory, part of another one.
Integrated(p, n) ==
    /\ Sane(p.nominal) /\ Sane(p.finer)
    /\ IF p.nominal.class = "COMPLETE"
       THEN n \in NominalSteps .. PairSteps /\ (p.finer.class = "COMPLETE" => n = PairSteps)
       ELSE n \in 0 .. NominalSteps /\ p.finer.class = "INCOMPLETE"
AsMeasured(p) ==
    Reproducible /\ p.class = "COMPLETE" =>
        p.nominal = Measured(p.parameters) /\ p.finer = Measured(p.parameters)

\* A pair was begun, and the integration calls spent on the last one.
Begun == budget.attempts > 0 \/ role # "screen"
Spent == budget.completed - before

\* The pair at work, or the last one.
Trail ==
    /\ Begun => Integrated(pair, Spent) /\ (Open(pair) \/ Judged(pair)) /\ AsMeasured(pair)
    /\ ~Begun => Open(pair)
    /\ pc \in Evaluating => Begun /\ Open(pair)
    /\ pc = "nominal" => pair.nominal = NotMeasured
    /\ pc = "finer" => pair.nominal.class = "COMPLETE"
    /\ pc \in {"nominal", "finer"} => pair.finer = NotMeasured
    /\ budget.unknown > 0 => pair.class = "INCOMPLETE"
    /\ role # "screen" => pc \in Evaluating \/ Ended

\* A retained screening of a controller that was measured completely.
Screened(p) == p.class = "COMPLETE" /\ Judged(p) /\ Sane(p.nominal) /\ Sane(p.finer) /\ AsMeasured(p)

\* What was screened first, what is selected, what was confirmed.
Screens ==
    /\ budget.attempts = 0 => initial = NoPair /\ selected = NoPair
    /\ selected # NoPair => initial # NoPair /\ Screened(selected) /\ Screened(initial)
    /\ initial # NoPair => /\ initial.parameters = request.original
                           /\ selected = NoPair => initial.class # "COMPLETE"
    /\ selected # NoPair => selected = initial \/ selected.objective < initial.objective
    /\ budget.attempts > 0 /\ selected = NoPair =>
           pair.parameters = request.original /\ before = SetupSteps /\ role = "screen"
    /\ role = "confirm" => selected # NoPair /\ pair.parameters = selected.parameters
    /\ role = "replay" => pair.parameters = request.original /\ before = SetupSteps
    /\ confirmation # NoPair => role = "confirm" /\ confirmation = pair /\ Ended
    /\ role = "confirm" /\ pair.class # "INCOMPLETE" => confirmation = pair
    /\ operation = "run" => role # "replay"
    /\ operation = "replay" => budget.attempts = 0 /\ role # "confirm"

\* What the screenings have cost before the pair at work, or before the confirmation.
Paid ==
    /\ selected # NoPair =>
           /\ (IF role = "confirm" THEN before ELSE budget.completed) >=
                  SetupSteps + (IF selected = initial THEN PairSteps ELSE 2 * PairSteps)
           /\ selected # initial => budget.attempts >= 2
    /\ pc \in Evaluating /\ role = "screen" /\ selected # NoPair =>
           before >= SetupSteps + PairSteps /\ budget.attempts >= 2
    /\ pc = "screen" /\ budget.attempts = 0 => budget.completed = SetupSteps

\* How an invocation may be said to have ended.
Abandoned(r) ==
    /\ ~r.qualified
    /\ \/ r.status = "REFUSED" /\ r.exit_code = 64
       \/ r.status = "INCOMPLETE" /\ r.exit_code = 20
       \/ r.status = "ERROR" /\ r.exit_code = 70
Concluded(r) ==
    IF operation = "run"
    THEN \/ r.status = "NO_QUALIFIED_POLICY_FOUND" /\ r.exit_code = 10 /\ ~r.qualified
         \/ r.status \in {"REPAIRED", "ALREADY_QUALIFIED"} /\ r.exit_code = 0 /\ r.qualified
    ELSE \/ r.status = "QUALIFIED" /\ r.exit_code = 0 /\ r.qualified
         \/ r.status = "NOT_QUALIFIED" /\ r.exit_code = 10 /\ ~r.qualified

\* The request was refused, or is not read yet.
Unsubmitted == pc = "admit" \/ (pc = "done" /\ result.reason = "INVALID_REQUEST")

\* How an invocation ends.
Endings ==
    /\ Abandoned(result) \/ Concluded(result)
    /\ ~Ended => result.reason = "INVALID_REQUEST"
    /\ pc = "finish" => result.reason # "INVALID_REQUEST"
    /\ result.reason = "INVALID_REQUEST" => result.status = "REFUSED"
    /\ IF Unsubmitted THEN budget.completed = 0 /\ budget.unknown = 0 ELSE AdmissibleLimits
    /\ result.reason = "CPU_LIMIT" => result.status = "INCOMPLETE"
    /\ result.reason = "INITIAL_STATE_NOT_ADMISSIBLE" =>
           /\ budget.attempts = 0 /\ role = "screen" /\ budget.completed = SetupSteps
           /\ result.status \in {"INCOMPLETE", "NO_QUALIFIED_POLICY_FOUND"}

\* What the verdicts rest on.
Grounds ==
    /\ result.exit_code = 10 /\ operation = "run" /\ result.reason # "INITIAL_STATE_NOT_ADMISSIBLE" =>
           budget.attempts > 0 /\ (selected # NoPair \/ pair.class = "HARD_REJECTION")
    /\ result.exit_code = 10 /\ (role = "confirm" \/ operation = "replay") =>
           role # "screen" /\ pair.class # "INCOMPLETE" /\ ~pair.qualified
    /\ result.qualified /\ operation = "run" =>
           role = "confirm" /\ (selected.parameters = request.original <=> result.status = "ALREADY_QUALIFIED")
    /\ result.qualified /\ operation = "replay" => role = "replay"
    /\ pc = "done" /\ result.exit_code \in {0, 10} => CheckPasses
    /\ operation = "run" /\ ~budget.search /\ role # "confirm" =>
           pc = "confirm" \/ (Ended /\ result.exit_code \notin {0, 10})

\* The parts of the record that hold between any two steps.
RecordParts == Trail /\ Screens /\ Paid /\ Endings /\ Grounds

\* The inductive invariant of the record.
RecordInv == FloorInv /\ WorkInv /\ BudgetRespected /\ RecordParts

LEMMA RecordInit == Init => RecordInv
  <1> SUFFICES ASSUME Init PROVE RecordInv
    OBVIOUS
  <1>1. FloorInv /\ WorkInv /\ BudgetRespected
    <2>1. FloorInv /\ StepInv
      BY FloorInit DEF FloorInv, VerdictInv
    <2> QED
      BY <2>1, Numbers DEF Init, WorkInv, WorkIsCharged, Ended, Evaluating, BudgetRespected, StepInv
  <1>2. Trail /\ Screens /\ Paid
    BY DEF Init, Trail, Screens, Paid, Begun, Open, FreshPair, Evaluating
  <1>3. Endings
    BY DEF Init, Endings, Abandoned, Ended, Unsubmitted
  <1>4. Grounds
    <2>1. operation = "run" => budget.search
      BY DEF Init
    <2>2. result.exit_code = 64 /\ ~result.qualified
      BY DEF Init
    <2> QED
      BY <2>1, <2>2 DEF Grounds
  <1> QED
    BY <1>1, <1>2, <1>3, <1>4 DEF RecordInv, RecordParts

\* What a step leaves alone stays true.
LEMMA SameScreens ==
  ASSUME Screens, budget'.attempts = budget.attempts, Ended => Ended',
         UNCHANGED <<operation, request, landscape, role, pair, before, initial, selected, confirmation>>
  PROVE  Screens'
  BY DEF Screens, Screened, Judged, Sane, AsMeasured, Reproducible, Measured

LEMMA SameTrail ==
  ASSUME Trail, budget'.attempts = budget.attempts, budget'.completed = budget.completed,
         UNCHANGED <<landscape, role, pair, before>>,
         pc' \notin Evaluating, Ended', budget'.unknown > 0 => pair.class = "INCOMPLETE"
  PROVE  Trail'
  BY
     DEF Trail, Begun, Spent, Integrated, Sane, Open, Judged, AsMeasured, Reproducible, Measured,
         Evaluating

LEMMA SamePaid ==
  ASSUME Paid, budget'.attempts = budget.attempts, budget'.completed = budget.completed,
         UNCHANGED <<role, before, initial, selected>>,
         pc' \notin Evaluating, pc' = "screen" => pc = "screen"
  PROVE  Paid'
  BY DEF Paid, Evaluating

\* An ending that is no finite verdict.
LEMMA RecordAbandoned ==
  ASSUME RecordInv, TypeInv', pc # "admit", ~Ended, pc' = "finish", Abandoned(result'),
         result'.reason \notin {"INVALID_REQUEST", "INITIAL_STATE_NOT_ADMISSIBLE"},
         result'.reason = "CPU_LIMIT" => result'.status = "INCOMPLETE",
         UNCHANGED <<operation, request>>, Trail', Screens', Paid'
  PROVE  RecordParts'
  <1> USE DEF RecordInv, RecordParts
  <1>1. AdmissibleLimits' /\ ~Unsubmitted'
    BY DEF Endings, AdmissibleLimits, Unsubmitted, Ended, MinimumStepBudget, PairSteps
  <1>2. Endings'
    BY <1>1 DEF Endings, Abandoned, Ended
  <1>3. result'.exit_code \notin {0, 10} /\ ~result'.qualified
    BY DEF Abandoned
  <1>4. Grounds'
    BY <1>3 DEF Grounds, Ended
  <1> QED
    BY <1>2, <1>4

\* The same where it stands: nothing but the clock and unknown work has changed.
LEMMA RecordCut ==
  ASSUME RecordInv, TypeInv', pc # "admit", ~Ended, pc' = "finish", Abandoned(result'),
         result'.reason \notin {"INVALID_REQUEST", "INITIAL_STATE_NOT_ADMISSIBLE"},
         result'.reason = "CPU_LIMIT" => result'.status = "INCOMPLETE",
         budget'.attempts = budget.attempts, budget'.completed = budget.completed,
         budget'.unknown > 0 => pair.class = "INCOMPLETE",
         UNCHANGED <<operation, request, landscape, role, pair, before, initial, selected, confirmation>>
  PROVE  RecordParts'
  <1>1. Trail' /\ Screens' /\ Paid'
    BY SameTrail, SameScreens, SamePaid DEF Evaluating, Ended, RecordInv, RecordParts
  <1> QED
    BY <1>1, RecordAbandoned

\* A polling that ends without a confirmation.
LEMMA RecordSearchEnded ==
  ASSUME RecordInv, TypeInv', pc = "screen" \/ pc = "judge", pc' = "finish", operation = "run", role = "screen",
         SearchEnded(result'.reason), result'.reason \notin {"INVALID_REQUEST", "INITIAL_STATE_NOT_ADMISSIBLE", "CPU_LIMIT"},
         UNCHANGED <<operation, request>>,
         Trail', Screens', Paid', budget'.search, role' = "screen", budget'.attempts > 0,
         selected' # NoPair \/ pair'.class = "HARD_REJECTION"
  PROVE  RecordParts'
  <1> USE DEF RecordInv, RecordParts
  <1>1. /\ result'.status = "NO_QUALIFIED_POLICY_FOUND" /\ result'.exit_code = 10 /\ ~result'.qualified
        /\ pc' = "finish"
    BY DEF SearchEnded, Outcome
  <1>2. AdmissibleLimits' /\ ~Unsubmitted'
    BY <1>1 DEF Endings, AdmissibleLimits, Unsubmitted, MinimumStepBudget, PairSteps
  <1>3. Endings'
    BY <1>1, <1>2 DEF Endings, Concluded, Ended
  <1>4. Grounds'
    BY <1>1 DEF Grounds
  <1> QED
    BY <1>3, <1>4

\* A step of the invocation that has not ended.
LEMMA RecordGoesOn ==
  ASSUME RecordInv, TypeInv', ~Ended, pc # "admit", pc' \notin {"admit", "finish", "done"},
         UNCHANGED <<operation, request, result>>, Trail', Screens', Paid',
         operation = "run" /\ ~budget'.search /\ role' # "confirm" => pc' = "confirm"
  PROVE  RecordParts'
  <1> USE DEF RecordInv, RecordParts
  <1>1. result.reason = "INVALID_REQUEST" /\ result.status = "REFUSED" /\ Abandoned(result)
    BY DEF Endings, Concluded, Abandoned
  <1>2. AdmissibleLimits' /\ ~Unsubmitted'
    BY DEF Endings, AdmissibleLimits, Unsubmitted, Ended, MinimumStepBudget, PairSteps
  <1>3. Endings'
    BY <1>1, <1>2 DEF Endings, Abandoned, Ended
  <1>4. Grounds'
    BY <1>1 DEF Grounds, Abandoned
  <1> QED
    BY <1>3, <1>4

\* What the state before the first pair knows.
LEMMA Fresh ==
  ASSUME RecordInv, pc \in {"admit", "runtime", "settle"}
  PROVE  /\ budget.attempts = 0 /\ selected = NoPair /\ initial = NoPair /\ role = "screen"
         /\ ~Begun /\ Open(pair) /\ confirmation = NoPair /\ ~Ended
  BY
     DEF RecordInv, RecordParts, FloorInv, VerdictInv, VerdictParts, LastEvidence, Screens, Trail,
         Begun, Ended

\* An integration call that ends the invocation: it was the last one of the limit, or it raised.
LEMMA RecordStepEnds ==
  ASSUME RecordInv, TypeInv', NEW total, BudgetStep(total), pc \in {"settle", "nominal", "finer"}, pc' # pc
  PROVE  RecordParts'
  <1>1. TypeInv /\ ~Ended
    BY DEF RecordInv, FloorInv, VerdictInv, StepInv, Ended
  <1>2. Open(pair)
    BY Fresh DEF RecordInv, RecordParts, Trail, Evaluating
  <1>3. /\ budget'.attempts = budget.attempts /\ budget'.completed = budget.completed
        /\ UNCHANGED <<operation, request, landscape, role, pair, before, initial, selected, confirmation>>
    BY <1>1 DEF BudgetStep, StepCompletes, StepRaises, TypeInv, TypeOK, inputs, retained
  <1>4. \/ result' = [status |-> "INCOMPLETE", exit_code |-> 20,
                     reason |-> "INTEGRATION_STEP_LIMIT_DURING_EVALUATION", qualified |-> FALSE]
        \/ result' = [status |-> "ERROR", exit_code |-> 70, reason |-> "EVALUATOR_EXCEPTION", qualified |-> FALSE]
    BY DEF BudgetStep, StepCompletes, StepRaises, Interrupted, EvaluatorException, Outcome
  <1>5. Abandoned(result') /\ result'.reason \in {"INTEGRATION_STEP_LIMIT_DURING_EVALUATION", "EVALUATOR_EXCEPTION"}
    BY <1>4 DEF Abandoned
  <1>6. pc' = "finish"
    BY DEF BudgetStep, StepCompletes, StepRaises, Interrupted, EvaluatorException, Outcome
  <1> QED
    BY <1>1, <1>2, <1>3, <1>5, <1>6, RecordCut DEF Open

LEMMA RecordSetup ==
  ASSUME RecordInv, TypeInv', Setup
  PROVE  RecordParts'
  <1>1. /\ TypeInv /\ pc \in {"admit", "runtime", "settle"}
        /\ UNCHANGED <<operation, request, landscape, role, pair, before, initial, selected, confirmation>>
    BY
       DEF RecordInv, FloorInv, VerdictInv, StepInv, Setup, AdmitRequest, RefuseRequest,
           RefuseRuntime, AdmitRuntime, Settle, SettleEnds, BudgetStep, StepCompletes, StepRaises,
           inputs, work, retained
  <1>2. /\ budget.attempts = 0 /\ selected = NoPair /\ initial = NoPair /\ role = "screen"
        /\ ~Begun /\ Open(pair) /\ confirmation = NoPair /\ ~Ended
    BY <1>1, Fresh
  <1>3. budget'.attempts = 0
    BY <1>1, <1>2
       DEF Setup, AdmitRequest, RefuseRequest, RefuseRuntime, AdmitRuntime, Settle, SettleEnds,
           BudgetStep, StepCompletes, StepRaises, TypeInv, TypeOK
  <1>4. Screens'
    BY <1>1, <1>2, <1>3, SameScreens DEF RecordInv, RecordParts
  <1>5. pc' \notin Evaluating /\ (pc' = "screen" => pc = "settle" /\ episode = SetupSteps /\ UNCHANGED budget)
    BY <1>1
       DEF Setup, AdmitRequest, RefuseRequest, RefuseRuntime, AdmitRuntime, Settle, SettleEnds,
           BudgetStep, StepCompletes, StepRaises, Interrupted, SearchEnded, EvaluatorException,
           Outcome, Evaluating
  <1>6. Trail'
    BY <1>1, <1>2, <1>3, <1>5 DEF Trail, Begun, Open, TypeInv, TypeOK, Evaluating
  <1>7. Paid'
    BY <1>1, <1>2, <1>5 DEF Paid, RecordInv, WorkInv, StepInv, StepLimits
  <1> USE DEF RecordInv, RecordParts
  <1>8. CASE AdmitRequest
    <2>1. AdmissibleLimits' /\ ~Unsubmitted' /\ UNCHANGED <<budget, result>> /\ pc' = "runtime"
      BY <1>8, <1>1 DEF AdmitRequest, AdmissibleLimits, Unsubmitted, MinimumStepBudget, PairSteps
    <2>2. Endings'
      BY <1>1, <1>2, <2>1 DEF Endings, Abandoned, Concluded, Ended
    <2>3. Grounds'
      BY <1>1, <1>2, <1>8, <2>1 DEF Grounds, Endings, Abandoned, Concluded, AdmitRequest
    <2> QED
      BY <1>4, <1>6, <1>7, <2>2, <2>3
  <1>9. CASE RefuseRequest
    <2>1. UNCHANGED <<budget, result, clock>> /\ pc = "admit" /\ pc' = "done"
      BY <1>9 DEF RefuseRequest
    <2>2. Endings'
      BY <1>1, <1>2, <2>1 DEF Endings, Abandoned, Concluded, Ended, Unsubmitted
    <2>3. Grounds'
      BY <1>1, <1>2, <2>1 DEF Grounds, Endings, Abandoned, Concluded
    <2> QED
      BY <1>4, <1>6, <1>7, <2>2, <2>3
  <1>10. CASE RefuseRuntime
    <2>1. /\ UNCHANGED budget /\ pc = "runtime" /\ pc' = "finish"
          /\ result' = [status |-> "REFUSED", exit_code |-> 64, reason |-> "UNSUPPORTED_RUNTIME", qualified |-> FALSE]
      BY <1>10 DEF RefuseRuntime, Outcome
    <2>2. Abandoned(result') /\ result'.reason = "UNSUPPORTED_RUNTIME"
      BY <2>1 DEF Abandoned
    <2> QED
      BY <1>1, <1>2, <2>1, <2>2, RecordCut DEF Open
  <1>11. CASE AdmitRuntime
    <2>1. pc = "runtime" /\ pc' = "settle" /\ UNCHANGED <<budget, result>>
      BY <1>11 DEF AdmitRuntime
    <2> QED
      BY <1>1, <1>2, <1>4, <1>6, <1>7, <2>1, RecordGoesOn DEF Grounds
  <1>12. CASE Settle
    <2>1. CASE UNCHANGED <<pc, result>>
      <3>1. budget'.search = budget.search
        BY <1>1, <1>12, <2>1
           DEF Settle, BudgetStep, StepCompletes, StepRaises, EvaluatorException, Outcome,
               TypeInv, TypeOK
      <3> QED
        BY <1>1, <1>2, <1>4, <1>6, <1>7, <1>12, <2>1, <3>1, RecordGoesOn DEF Settle, Grounds, Ended
    <2>2. CASE pc' # pc
      BY <1>12, <2>2, RecordStepEnds DEF Settle
    <2> QED
      BY <1>12, <2>1, <2>2
         DEF Settle, BudgetStep, StepCompletes, StepRaises, Interrupted, EvaluatorException,
             Outcome
  <1>13. CASE SettleEnds
    <2>1. pc = "settle" /\ UNCHANGED budget /\ budget.completed = SetupSteps
      BY <1>13 DEF SettleEnds, WorkInv, StepInv, StepLimits
    <2>2. CASE pc' = (IF operation = "run" THEN "screen" ELSE "replay") /\ UNCHANGED result
      BY <1>1, <1>2, <1>4, <1>6, <1>7, <2>1, <2>2, RecordGoesOn DEF Grounds
    <2>3. CASE operation = "replay" /\ Outcome("REFUSED", 64, "RESET_MISMATCH", FALSE)
      <3>1. /\ result' = [status |-> "REFUSED", exit_code |-> 64, reason |-> "RESET_MISMATCH", qualified |-> FALSE]
            /\ pc' = "finish"
        BY <2>3 DEF Outcome
      <3>2. Abandoned(result') /\ result'.reason = "RESET_MISMATCH"
        BY <3>1 DEF Abandoned
      <3> QED
        BY <1>1, <1>2, <2>1, <3>1, <3>2, RecordCut DEF Open
    <2>4. CASE \/ Interrupted("INITIAL_STATE_NOT_ADMISSIBLE")
               \/ operation = "run" /\ SearchEnded("INITIAL_STATE_NOT_ADMISSIBLE")
      <3>1. /\ pc' = "finish"
            /\ \/ result' = [status |-> "INCOMPLETE", exit_code |-> 20,
                             reason |-> "INITIAL_STATE_NOT_ADMISSIBLE", qualified |-> FALSE]
               \/ operation = "run" /\ result' = [status |-> "NO_QUALIFIED_POLICY_FOUND", exit_code |-> 10,
                                                 reason |-> "INITIAL_STATE_NOT_ADMISSIBLE", qualified |-> FALSE]
        BY <2>4 DEF Interrupted, SearchEnded, Outcome
      <3>2. /\ ~result'.qualified /\ result'.reason = "INITIAL_STATE_NOT_ADMISSIBLE"
            /\ result'.status \in {"INCOMPLETE", "NO_QUALIFIED_POLICY_FOUND"}
            /\ operation = "replay" => result'.exit_code = 20
            /\ Abandoned(result)' \/ Concluded(result)'
        BY <1>1, <3>1 DEF Abandoned, Concluded, TypeInv, TypeOK
      <3>3. AdmissibleLimits' /\ ~Unsubmitted'
        BY <1>1, <2>1, <3>1, <3>2
           DEF Endings, AdmissibleLimits, Unsubmitted, Ended, MinimumStepBudget, PairSteps
      <3>4. Endings'
        BY <1>1, <1>2, <1>3, <2>1, <3>1, <3>2, <3>3 DEF Endings, Ended
      <3>5. operation = "run" => budget'.search
        BY <1>2, <2>1 DEF Grounds
      <3>6. Grounds'
        BY <1>1, <1>2, <3>1, <3>2, <3>5 DEF Grounds, TypeInv, TypeOK
      <3> QED
        BY <1>4, <1>6, <1>7, <3>4, <3>6
    <2> QED
      BY <1>13, <2>2, <2>3, <2>4 DEF SettleEnds
  <1> QED
    BY <1>8, <1>9, <1>10, <1>11, <1>12, <1>13 DEF Setup

-----------------------------------------------------------------------------
(* The record: evaluations.                                                *)

\* A measurement the landscape allows.
LEMMA MeasurementSane ==
  ASSUME TypeInv, NEW v \in Box, NEW m, m \in landscape[v].nominal \/ m \in landscape[v].finer
  PROVE  m \in Measurements /\ Sane(m)
  <1>1. landscape \in Landscapes /\ landscape \in [Box -> [nominal : SUBSET Measurements, finer : SUBSET Measurements]]
    BY DEF TypeInv, TypeOK
  <1>2. landscape[v] \in [nominal : SUBSET Measurements, finer : SUBSET Measurements]
    BY <1>1
  <1>3. landscape[v].nominal \subseteq Measurements /\ landscape[v].finer \subseteq Measurements
    BY <1>2
  <1>4. Sane(m)
    BY <1>1, MeasurementAssumption
  <1> QED
    BY <1>3, <1>4

\* A pair of a controller and two measurements that carries no verdict.
LEMMA Rebuilt ==
  ASSUME NEW p \in Pairs, p.class = "INCOMPLETE", p.objective = 0, ~p.qualified
  PROVE  p = [FreshPair(p.parameters) EXCEPT !.nominal = p.nominal, !.finer = p.finer]
  <1> DEFINE q == [FreshPair(p.parameters) EXCEPT !.nominal = p.nominal, !.finer = p.finer]
  <1>1. p.parameters \in Box /\ p.nominal \in Measurements /\ p.finer \in Measurements /\ p.qualified = FALSE
    BY DEF Pairs
  <1>2. FreshPair(p.parameters) \in Pairs
    BY <1>1, FreshPairType
  <1>3. q \in Pairs
    BY <1>1, <1>2 DEF Pairs
  <1>4. /\ q.nominal = p.nominal /\ q.finer = p.finer /\ q.parameters = p.parameters
        /\ q.class = "INCOMPLETE" /\ q.objective = 0 /\ q.qualified = FALSE
    BY DEF FreshPair
  <1> HIDE DEF q
  <1>5. p = q
    BY <1>1, <1>3, <1>4 DEF Pairs
  <1> QED
    BY <1>5 DEF q

\* The pair that is judged, with its verdict.
LEMMA ClassifiedRecord ==
  ASSUME RecordInv, pc = "judge"
  PROVE  LET p == Classified(pair)
         IN  /\ p \in Pairs /\ p # NoPair
             /\ p.parameters = pair.parameters /\ p.nominal = pair.nominal /\ p.finer = pair.finer
             /\ Integrated(p, Spent) /\ AsMeasured(p)
             /\ p.class = "INCOMPLETE" => p = pair /\ Open(p)
             /\ p.class # "INCOMPLETE" => Judged(p)
             /\ p.class = "COMPLETE" => Screened(p) /\ budget.completed = before + PairSteps
             /\ p.class = "HARD_REJECTION" => ~p.qualified
  <1> DEFINE p == Classified(pair)
  <1>1. pair \in Pairs /\ Open(pair) /\ Integrated(pair, Spent) /\ TypeInv
    BY DEF RecordInv, RecordParts, FloorInv, VerdictInv, StepInv, TypeInv, TypeOK, Trail, Evaluating
  <1>2. p \in Pairs /\ p # NoPair
    BY <1>1, ClassifiedType, NoPairAssumption
  <1>3. p.parameters = pair.parameters /\ p.nominal = pair.nominal /\ p.finer = pair.finer
    BY <1>1 DEF Classified, Pairs
  <1>4. p.class = "INCOMPLETE" => p = pair
    BY <1>1 DEF Classified, Pairs
  <1>5. p.class = "HARD_REJECTION" => ~p.qualified
    BY <1>1 DEF Classified, Pairs, Open
  <1>6. p.class = "COMPLETE" => pair.nominal.class = "COMPLETE" /\ pair.finer.class = "COMPLETE"
    BY <1>1 DEF Classified, Pairs, Open
  <1>7. pair = [FreshPair(pair.parameters) EXCEPT !.nominal = pair.nominal, !.finer = pair.finer]
    BY <1>1, Rebuilt DEF Open
  <1>8. Judged(p)
    BY <1>3, <1>7 DEF Judged
  <1>9. Reproducible /\ p.class = "COMPLETE" =>
           p.nominal = Measured(p.parameters) /\ p.finer = Measured(p.parameters)
    BY <1>3, <1>6 DEF RecordInv, FloorInv, FloorParts, MeasuredTrial
  <1>10. Integrated(p, Spent)
    BY <1>1, <1>3 DEF Integrated
  <1>11. p.class = "COMPLETE" => budget.completed = before + PairSteps
    BY <1>1, <1>6, Numbers DEF Integrated, Spent
  <1> QED
    BY <1>1, <1>2, <1>3, <1>4, <1>5, <1>8, <1>9, <1>10, <1>11 DEF AsMeasured, Screened, Integrated

\* While a pair is integrated, what was selected and paid before it stays as it was.
LEMMA RecordIntegrates ==
  ASSUME RecordInv, TypeInv', pc \in Evaluating, pc' \in Evaluating, budget'.attempts = budget.attempts,
         budget'.search = budget.search, budget'.completed >= budget.completed, budget'.unknown = budget.unknown,
         pair'.parameters = pair.parameters, Open(pair)', Integrated(pair, Spent)',
         pc' = "nominal" => pair'.nominal = NotMeasured,
         pc' = "finer" => pair'.nominal.class = "COMPLETE",
         pc' \in {"nominal", "finer"} => pair'.finer = NotMeasured,
         UNCHANGED <<operation, request, landscape, role, before, initial, selected, confirmation, result>>
  PROVE  RecordParts'
  <1> USE DEF RecordInv, RecordParts
  <1>1. Begun /\ Open(pair) /\ TypeInv
    BY DEF Trail, FloorInv, VerdictInv, StepInv
  <1>2. Trail'
    BY <1>1 DEF Trail, Begun, Open, AsMeasured
  <1>3. confirmation = NoPair
    BY DEF Screens, Ended, Evaluating
  <1>4. Screens'
    BY <1>1, <1>3 DEF Screens, Screened, Judged, Sane, AsMeasured, Reproducible, Measured, Open
  <1>5. Paid'
    BY <1>1, Numbers, StepsAssumption DEF Paid, Evaluating, TypeInv, TypeOK, PairSteps
  <1>6. operation = "run" /\ ~budget.search => role = "confirm"
    BY DEF Grounds, Evaluating, Ended
  <1> QED
    BY <1>2, <1>4, <1>5, <1>6, RecordGoesOn DEF Evaluating, Ended

\* An integration call, the end of a trajectory: the pair has measured what was integrated.
LEMMA RecordEpisode ==
  ASSUME RecordInv, TypeInv', EpisodeStep
  PROVE  RecordParts'
  <1>1. pc \in {"nominal", "finer"} /\ TypeInv /\ Open(pair) /\ Integrated(pair, Spent)
    BY DEF EpisodeStep, RecordInv, RecordParts, FloorInv, VerdictInv, StepInv, Trail, Evaluating
  <1>2. CASE pc' # pc
    BY <1>1, <1>2, RecordStepEnds DEF EpisodeStep
  <1>3. CASE pc' = pc
    <2>1. /\ budget'.attempts = budget.attempts /\ budget'.search = budget.search
          /\ budget'.completed = budget.completed + 1 /\ budget'.unknown = budget.unknown
          /\ episode < EpisodeSteps
          /\ UNCHANGED <<operation, request, landscape, role, pair, before, initial, selected, confirmation, result>>
      BY <1>1, <1>3
         DEF EpisodeStep, BudgetStep, StepCompletes, StepRaises, Interrupted, EvaluatorException,
             Outcome, TypeInv, TypeOK, inputs, retained
    <2>2. Integrated(pair, Spent)'
      <3>1. CASE pc = "nominal"
        <4>1. budget.completed = before + episode /\ episode < NominalSteps /\ pair.nominal = NotMeasured /\ pair.finer = NotMeasured
          BY <2>1, <3>1
             DEF EpisodeSteps, RecordInv, RecordParts, Trail, WorkInv, StepInv, PairProgress
        <4> QED
          BY <1>1, <2>1, <4>1, Numbers, StepsAssumption DEF Integrated, Spent, NotMeasured, Sane
      <3>2. CASE pc = "finer"
        <4>1. /\ budget.completed = before + NominalSteps + episode /\ episode < FinerSteps
              /\ pair.nominal.class = "COMPLETE" /\ pair.finer = NotMeasured
          BY <2>1, <3>2
             DEF EpisodeSteps, RecordInv, RecordParts, Trail, WorkInv, StepInv, PairProgress
        <4> QED
          BY <1>1, <2>1, <4>1, Numbers, StepsAssumption DEF Integrated, Spent, NotMeasured, Sane
      <3> QED
        BY <1>1, <3>1, <3>2
    <2>3. Open(pair)'
      BY <1>1, <2>1 DEF Open
    <2>4. /\ pc = "nominal" => pair.nominal = NotMeasured
          /\ pc = "finer" => pair.nominal.class = "COMPLETE"
          /\ pair.finer = NotMeasured
      BY <1>1 DEF RecordInv, RecordParts, Trail
    <2> QED
      BY <1>1, <1>3, <2>1, <2>2, <2>3, <2>4, RecordIntegrates, Numbers DEF Evaluating
  <1> QED
    BY <1>2, <1>3

LEMMA RecordNominal ==
  ASSUME RecordInv, TypeInv', NominalEnds
  PROVE  RecordParts'
  <1>1. pc = "nominal" /\ TypeInv /\ Open(pair) /\ pair \in Pairs /\ pair.finer = NotMeasured
        /\ budget.completed = before + episode /\ episode <= NominalSteps
    BY
       DEF NominalEnds, RecordInv, RecordParts, FloorInv, VerdictInv, WorkInv, StepInv, TypeInv,
           TypeOK, Trail, Evaluating, PairProgress
  <1>2. PICK m \in landscape[pair.parameters].nominal :
          /\ m.class = "COMPLETE" => episode = NominalSteps
          /\ pair' = [pair EXCEPT !.nominal = m]
          /\ pc' = IF m.class = "COMPLETE" THEN "finer" ELSE "judge"
    BY DEF NominalEnds
  <1>3. pair.parameters \in Box
    BY <1>1 DEF Pairs
  <1>4. m \in Measurements /\ Sane(m)
    BY <1>1, <1>3, MeasurementSane
  <1>5. /\ pair'.nominal = m /\ pair'.finer = NotMeasured /\ pair'.parameters = pair.parameters
        /\ pair'.class = pair.class /\ pair'.objective = pair.objective /\ pair'.qualified = pair.qualified
    BY <1>1, <1>2 DEF Pairs
  <1>6. UNCHANGED <<operation, request, landscape, budget, role, before, initial, selected, confirmation, result>>
    BY DEF NominalEnds, inputs, retained
  <1>7. Open(pair)'
    BY <1>1, <1>5 DEF Open
  <1>8. Integrated(pair, Spent)'
    BY <1>1, <1>2, <1>4, <1>5, <1>6, Numbers, StepsAssumption
       DEF Integrated, Spent, NotMeasured, Sane
  <1> QED
    BY <1>1, <1>2, <1>5, <1>6, <1>7, <1>8, RecordIntegrates, Numbers DEF Evaluating

LEMMA RecordFiner ==
  ASSUME RecordInv, TypeInv', FinerEnds
  PROVE  RecordParts'
  <1>1. pc = "finer" /\ TypeInv /\ Open(pair) /\ pair \in Pairs /\ pair.nominal.class = "COMPLETE"
        /\ Sane(pair.nominal) /\ budget.completed = before + NominalSteps + episode /\ episode <= FinerSteps
    BY
       DEF FinerEnds, RecordInv, RecordParts, FloorInv, VerdictInv, WorkInv, StepInv, TypeInv,
           TypeOK, Trail, Evaluating, PairProgress, Integrated
  <1>2. PICK m \in landscape[pair.parameters].finer :
          /\ m.class = "COMPLETE" => episode = FinerSteps
          /\ pair' = [pair EXCEPT !.finer = m]
    BY DEF FinerEnds
  <1>3. pair.parameters \in Box
    BY <1>1 DEF Pairs
  <1>4. m \in Measurements /\ Sane(m)
    BY <1>1, <1>3, MeasurementSane
  <1>5. /\ pair'.finer = m /\ pair'.nominal = pair.nominal /\ pair'.parameters = pair.parameters
        /\ pair'.class = pair.class /\ pair'.objective = pair.objective /\ pair'.qualified = pair.qualified
    BY <1>1, <1>2 DEF Pairs
  <1>6. /\ UNCHANGED <<operation, request, landscape, budget, role, before, initial, selected, confirmation, result>>
        /\ pc' = "judge"
    BY DEF FinerEnds, inputs, retained
  <1>7. Open(pair)'
    BY <1>1, <1>5 DEF Open
  <1>8. Integrated(pair, Spent)'
    BY <1>1, <1>2, <1>4, <1>5, <1>6, Numbers, StepsAssumption DEF Integrated, Spent, Sane
  <1> QED
    BY <1>1, <1>5, <1>6, <1>7, <1>8, RecordIntegrates, Numbers DEF Evaluating

-----------------------------------------------------------------------------
(* The record: verdicts.                                                   *)

\* How polling goes on, or why it ends.
LEMMA PollEnds ==
  ASSUME PollAccepted \/ PollRejected
  PROVE  \/ pc' = "screen" /\ UNCHANGED result
         \/ pc' = "finish" /\ SearchEnded(result'.reason) /\ result'.reason \in {"STEP_FLOOR_REACHED", "SWEEP_LIMIT"}
  BY DEF PollAccepted, PollRejected, NextCoordinate, SweepEnds, SearchEnded, Outcome

LEMMA RecordJudgeFirst ==
  ASSUME RecordInv, TypeInv', JudgeFirst
  PROVE  RecordParts'
  <1> DEFINE p == Classified(pair)
  <1> USE DEF RecordInv, RecordParts
  <1>1. /\ pc = "judge" /\ role = "screen" /\ selected = NoPair /\ TypeInv /\ ~Ended /\ pc # "admit"
        /\ pair' = p /\ initial' = p /\ selected' = (IF p.class = "COMPLETE" THEN p ELSE selected)
        /\ UNCHANGED <<operation, request, landscape, role, before, confirmation>>
        /\ budget'.attempts = budget.attempts /\ budget'.completed = budget.completed
        /\ budget'.unknown = budget.unknown
    BY DEF JudgeFirst, ZeroFound, inputs, Ended, FloorInv, VerdictInv, StepInv, TypeInv, TypeOK
  <1>2. /\ p \in Pairs /\ p # NoPair
        /\ p.parameters = pair.parameters /\ p.nominal = pair.nominal /\ p.finer = pair.finer
        /\ Integrated(p, Spent) /\ AsMeasured(p)
        /\ p.class = "INCOMPLETE" => p = pair /\ Open(p)
        /\ p.class # "INCOMPLETE" => Judged(p)
        /\ p.class = "COMPLETE" => Screened(p) /\ budget.completed = before + PairSteps
        /\ p.class = "HARD_REJECTION" => ~p.qualified
    BY <1>1, ClassifiedRecord
  <1> HIDE DEF p
  <1>3. /\ operation = "run" /\ budget.search /\ budget.attempts > 0 /\ budget.unknown = 0
        /\ pair.parameters = request.original /\ before = SetupSteps /\ confirmation = NoPair
    <2>1. operation = "run" /\ confirmation = NoPair
      BY <1>1 DEF FloorInv, VerdictInv, VerdictParts, Phase, Evaluating, Screens
    <2>2. budget.attempts > 0 /\ pair.parameters = request.original /\ before = SetupSteps
      BY <1>1 DEF Trail, Screens, Begun, Evaluating
    <2>3. budget.search
      BY <1>1, <2>1 DEF Grounds
    <2>4. budget.unknown = 0
      BY <1>1, Numbers DEF FloorInv, VerdictInv, StepInv, UnknownIsError
    <2> QED
      BY <2>1, <2>2, <2>3, <2>4
  <1>4. pc' \in {"finish", "confirm", "screen"}
    BY DEF JudgeFirst, ZeroFound, Interrupted, SearchEnded, Outcome
  <1>5. Trail'
    BY <1>1, <1>2, <1>3, <1>4
       DEF Trail, Begun, Spent, Integrated, Open, Judged, AsMeasured, Reproducible, Measured,
           Evaluating
  <1>6. Screens'
    <2>1. (selected # NoPair => initial # NoPair /\ Screened(selected) /\ Screened(initial))'
      BY <1>1, <1>2 DEF Screened, Judged, AsMeasured, Reproducible, Measured
    <2> QED
      BY <1>1, <1>2, <1>3, <2>1 DEF Screens
  <1>7. Paid'
    BY <1>1, <1>2, <1>3, <1>4, Numbers, StepsAssumption DEF Paid, Evaluating
  <1>8. CASE p.class = "INCOMPLETE" /\ Interrupted("UNKNOWN_MEASUREMENT")
    <2>1. Abandoned(result') /\ pc' = "finish" /\ result'.reason = "UNKNOWN_MEASUREMENT"
      BY <1>8 DEF Interrupted, Outcome, Abandoned
    <2> QED
      BY <1>1, <1>5, <1>6, <1>7, <2>1, RecordAbandoned
  <1>9. CASE p.class = "HARD_REJECTION" /\ SearchEnded("INITIAL_POLICY_NOT_SEARCHABLE") /\ UNCHANGED budget
    <2>1. result'.reason = "INITIAL_POLICY_NOT_SEARCHABLE" /\ pc' = "finish"
      BY <1>9 DEF SearchEnded, Outcome
    <2> QED
      BY <1>1, <1>3, <1>5, <1>6, <1>7, <1>9, <2>1, RecordSearchEnded
  <1>10. CASE p.class = "COMPLETE" /\ (ZeroFound \/ (pc' = "screen" /\ UNCHANGED <<budget, result>>))
    <2>1. UNCHANGED result /\ (pc' = "confirm" \/ (pc' = "screen" /\ budget'.search))
      BY <1>3, <1>10 DEF ZeroFound
    <2> QED
      BY <1>1, <1>5, <1>6, <1>7, <2>1, RecordGoesOn
  <1> QED
    BY <1>8, <1>9, <1>10 DEF JudgeFirst, p

LEMMA RecordJudgeTrial ==
  ASSUME RecordInv, TypeInv', JudgeTrial
  PROVE  RecordParts'
  <1> DEFINE p == Classified(pair)
  <1> USE DEF RecordInv, RecordParts
  <1>1. /\ pc = "judge" /\ role = "screen" /\ selected # NoPair /\ TypeInv /\ ~Ended /\ pc # "admit"
        /\ pair' = p /\ selected' = (IF Accepts(p) THEN p ELSE selected)
        /\ UNCHANGED <<operation, request, landscape, role, before, initial, confirmation>>
        /\ budget'.attempts = budget.attempts /\ budget'.completed = budget.completed
        /\ budget'.unknown = budget.unknown
    BY DEF JudgeTrial, ZeroFound, inputs, Ended, FloorInv, VerdictInv, StepInv, TypeInv, TypeOK
  <1>2. /\ p \in Pairs /\ p # NoPair
        /\ p.parameters = pair.parameters /\ p.nominal = pair.nominal /\ p.finer = pair.finer
        /\ Integrated(p, Spent) /\ AsMeasured(p)
        /\ p.class = "INCOMPLETE" => p = pair /\ Open(p)
        /\ p.class # "INCOMPLETE" => Judged(p)
        /\ p.class = "COMPLETE" => Screened(p) /\ budget.completed = before + PairSteps
        /\ p.class = "HARD_REJECTION" => ~p.qualified
    BY <1>1, ClassifiedRecord
  <1>3. /\ operation = "run" /\ budget.search /\ budget.attempts >= 2 /\ budget.unknown = 0
        /\ before >= SetupSteps + PairSteps /\ confirmation = NoPair /\ initial # NoPair
        /\ selected.objective > 0
    <2>1. operation = "run" /\ confirmation = NoPair /\ selected.objective > 0 /\ initial # NoPair
      BY <1>1 DEF FloorInv, VerdictInv, VerdictParts, Phase, SelectionValue, Evaluating, Screens
    <2>2. budget.attempts >= 2 /\ before >= SetupSteps + PairSteps
      BY <1>1 DEF Paid, Evaluating
    <2>3. budget.search
      BY <1>1, <2>1 DEF Grounds
    <2>4. budget.unknown = 0
      BY <1>1, Numbers DEF FloorInv, VerdictInv, StepInv, UnknownIsError
    <2> QED
      BY <2>1, <2>2, <2>3, <2>4
  <1>4. Accepts(p) => p.class = "COMPLETE" /\ p.objective < initial.objective
    <2>1. selected \in Pairs /\ initial \in Pairs
      BY <1>1, <1>3 DEF TypeInv, TypeOK
    <2>2. p.objective \in Int /\ selected.objective \in Int /\ initial.objective \in Int
      BY <1>2, <2>1, ShapeAssumption DEF Pairs
    <2>3. selected.objective <= initial.objective
      BY <1>1, <2>2 DEF Screens
    <2> QED
      BY <1>3, <2>2, <2>3, ShapeAssumption DEF Accepts
  <1>5. pc' \in {"finish", "confirm", "screen"}
    BY PollEnds DEF JudgeTrial, ZeroFound, Interrupted, Outcome
  <1> HIDE DEF p
  <1>6. Trail'
    BY <1>1, <1>2, <1>3, <1>5
       DEF Trail, Begun, Spent, Integrated, Open, Judged, AsMeasured, Reproducible, Measured,
           Evaluating
  <1>7. Screens'
    <2>1. Screened(selected) /\ Screened(initial)
      BY <1>1 DEF Screens
    <2>2. (selected # NoPair => initial # NoPair /\ Screened(selected) /\ Screened(initial))'
      BY <1>1, <1>2, <1>3, <1>4, <2>1 DEF Screened, Judged, AsMeasured, Reproducible, Measured
    <2>3. (selected # NoPair => selected = initial \/ selected.objective < initial.objective)'
      BY <1>1, <1>4 DEF Screens
    <2>4. (initial # NoPair => /\ initial.parameters = request.original
                               /\ selected = NoPair => initial.class # "COMPLETE")'
      BY <1>1, <1>2, <1>3 DEF Screens
    <2> QED
      BY <1>1, <1>2, <1>3, <2>2, <2>3, <2>4 DEF Screens
  <1>8. Paid'
    BY <1>1, <1>2, <1>3, <1>4, <1>5, Numbers, StepsAssumption DEF Paid, Evaluating
  <1>9. CASE p.class = "INCOMPLETE" /\ Interrupted("UNKNOWN_MEASUREMENT")
    <2>1. Abandoned(result') /\ pc' = "finish" /\ result'.reason = "UNKNOWN_MEASUREMENT"
      BY <1>9 DEF Interrupted, Outcome, Abandoned
    <2> QED
      BY <1>1, <1>6, <1>7, <1>8, <2>1, RecordAbandoned
  <1>10. CASE ZeroFound
    <2>1. UNCHANGED result /\ pc' = "confirm"
      BY <1>10 DEF ZeroFound
    <2> QED
      BY <1>1, <1>6, <1>7, <1>8, <2>1, RecordGoesOn
  <1>11. CASE (PollAccepted \/ PollRejected) /\ UNCHANGED budget
    <2>1. CASE pc' = "screen" /\ UNCHANGED result
      BY <1>1, <1>3, <1>6, <1>7, <1>8, <1>11, <2>1, RecordGoesOn
    <2>2. CASE pc' = "finish" /\ SearchEnded(result'.reason) /\ result'.reason \in {"STEP_FLOOR_REACHED", "SWEEP_LIMIT"}
      <3>1. selected' # NoPair
        BY <1>1, <1>2
      <3>2. budget'.search /\ budget'.attempts > 0
        BY <1>1, <1>3, <1>11, Numbers
      <3>3. result'.reason \notin {"INVALID_REQUEST", "INITIAL_STATE_NOT_ADMISSIBLE", "CPU_LIMIT"}
        BY <2>2
      <3> QED
        BY <1>1, <1>3, <1>6, <1>7, <1>8, <2>2, <3>1, <3>2, <3>3, RecordSearchEnded
    <2> QED
      BY <1>11, <2>1, <2>2, PollEnds
  <1> QED
    BY <1>9, <1>10, <1>11 DEF JudgeTrial, p

LEMMA RecordJudgeFinal ==
  ASSUME RecordInv, TypeInv', JudgeFinal
  PROVE  RecordParts'
  <1> DEFINE p == Classified(pair)
  <1> USE DEF RecordInv, RecordParts
  <1>1. /\ pc = "judge" /\ role \in {"confirm", "replay"} /\ TypeInv /\ ~Ended /\ pc # "admit" /\ pair' = p
        /\ confirmation' = (IF role = "confirm" THEN p ELSE confirmation) /\ pc' = "finish"
        /\ UNCHANGED <<operation, request, landscape, budget, role, before, initial, selected>>
    BY DEF JudgeFinal, Interrupted, Outcome, inputs, Ended, FloorInv, VerdictInv, StepInv
  <1>2. /\ p \in Pairs /\ p # NoPair
        /\ p.parameters = pair.parameters /\ p.nominal = pair.nominal /\ p.finer = pair.finer
        /\ Integrated(p, Spent) /\ AsMeasured(p)
        /\ p.class = "INCOMPLETE" => p = pair /\ Open(p)
        /\ p.class # "INCOMPLETE" => Judged(p)
        /\ p.class = "COMPLETE" => Screened(p) /\ budget.completed = before + PairSteps
        /\ p.class = "HARD_REJECTION" => ~p.qualified
    BY <1>1, ClassifiedRecord
  <1>3. /\ confirmation = NoPair /\ budget.unknown = 0
        /\ role = "confirm" => operation = "run" /\ selected # NoPair /\ budget.attempts > 0
        /\ role = "replay" => operation = "replay"
    <2>1. confirmation = NoPair /\ budget.unknown = 0
      BY <1>1, Numbers DEF Screens, FloorInv, VerdictInv, StepInv, UnknownIsError, Ended
    <2>2. /\ role = "confirm" => operation = "run"
          /\ role = "replay" => operation = "replay"
      BY <1>1 DEF FloorInv, VerdictInv, VerdictParts, Phase, Evaluating
    <2> QED
      BY <1>1, <2>1, <2>2, Numbers DEF Screens
  <1> HIDE DEF p
  <1>4. Trail'
    BY <1>1, <1>2, <1>3
       DEF Trail, Begun, Spent, Integrated, Open, Judged, AsMeasured, Reproducible, Measured,
           Evaluating, Ended
  <1>5. Screens'
    <2>1. (selected # NoPair => initial # NoPair /\ Screened(selected) /\ Screened(initial))'
      BY <1>1 DEF Screens, Screened, Judged, AsMeasured, Reproducible, Measured
    <2> QED
      BY <1>1, <1>2, <1>3, <2>1 DEF Screens, Ended
  <1>6. Paid'
    BY <1>1 DEF Paid, Evaluating
  <1>7. CASE p.class = "INCOMPLETE"
    <2>1. Interrupted("UNKNOWN_MEASUREMENT")
      BY <1>7 DEF JudgeFinal, p
    <2>2. Abandoned(result') /\ result'.reason = "UNKNOWN_MEASUREMENT"
      BY <2>1 DEF Interrupted, Outcome, Abandoned
    <2> QED
      BY <1>1, <1>4, <1>5, <1>6, <2>2, RecordAbandoned
  <1>8. CASE p.class # "INCOMPLETE"
    <2>1. \/ p.qualified /\ Outcome(QualifiedStatus, 0, "COMPLETE_PAIRED_EVALUATION", TRUE)
          \/ ~p.qualified /\ Outcome(NotQualifiedStatus, 10, "DID_NOT_QUALIFY", FALSE)
      BY <1>8 DEF JudgeFinal, p
    <2>2. result'.reason \in {"COMPLETE_PAIRED_EVALUATION", "DID_NOT_QUALIFY"}
      BY <2>1 DEF Outcome
    <2>3. AdmissibleLimits' /\ ~Unsubmitted'
      BY <1>1, <2>2 DEF Endings, AdmissibleLimits, Unsubmitted, Ended, MinimumStepBudget, PairSteps
    <2>4. Concluded(result)'
      BY <1>1, <1>3, <2>1 DEF Outcome, QualifiedStatus, NotQualifiedStatus, Concluded
    <2>5. Endings'
      BY <1>1, <2>2, <2>3, <2>4 DEF Endings, Ended
    <2>6. \/ p.qualified /\ result'.qualified /\ result'.status = QualifiedStatus /\ result'.exit_code = 0
          \/ ~p.qualified /\ ~result'.qualified /\ result'.exit_code = 10
      BY <2>1 DEF Outcome
    <2>7. Grounds'
      BY <1>1, <1>2, <1>3, <1>8, <2>6 DEF Grounds, QualifiedStatus
    <2> QED
      BY <1>4, <1>5, <1>6, <2>5, <2>7
  <1> QED
    BY <1>7, <1>8

-----------------------------------------------------------------------------
(* The record: what begins, and what ends.                                 *)

\* A new pair has measured nothing.
LEMMA FreshRecord ==
  ASSUME NEW v
  PROVE  Open(FreshPair(v)) /\ Integrated(FreshPair(v), 0) /\ FreshPair(v).parameters = v /\ FreshPair(v).class = "INCOMPLETE"
         /\ FreshPair(v).nominal = NotMeasured /\ FreshPair(v).finer = NotMeasured
  BY StepsAssumption DEF FreshPair, Open, Integrated, NotMeasured, Sane

LEMMA RecordScreening ==
  ASSUME RecordInv, TypeInv', Screening
  PROVE  RecordParts'
  <1> USE DEF RecordInv, RecordParts
  <1>1. /\ pc = "screen" /\ operation = "run" /\ role = "screen" /\ TypeInv /\ ~Ended /\ budget.unknown = 0
        /\ budget.search /\ confirmation = NoPair
        /\ UNCHANGED <<operation, request, landscape, initial, selected, confirmation>>
    <2>1. /\ pc = "screen" /\ operation = "run" /\ role = "screen" /\ TypeInv /\ ~Ended
          /\ UNCHANGED <<operation, request, landscape, initial, selected, confirmation>>
      BY
         DEF FloorInv, VerdictInv, StepInv, VerdictParts, Phase, Ended, Screening,
             ScreenAtAttemptLimit, ScreenWithoutReserve, ScreenBegins, ScreenOutOfBox, inputs,
             retained
    <2> QED
      BY <2>1, Numbers DEF FloorInv, VerdictInv, StepInv, UnknownIsError, Grounds, Screens, Ended
  <1>2. /\ selected = NoPair => budget.attempts = 0 /\ budget.completed = SetupSteps
        /\ selected # NoPair => budget.attempts > 0
    BY <1>1, Numbers DEF FloorInv, VerdictInv, VerdictParts, LastEvidence, Screens, Paid
  <1>3. AdmissibleLimits
    BY <1>1 DEF Endings, Unsubmitted
  <1>4. CASE ScreenAtAttemptLimit \/ ScreenWithoutReserve
    <2>1. /\ pc' = "finish" /\ SearchEnded(result'.reason) /\ result'.reason \in {"ATTEMPT_LIMIT", "INTEGRATION_STEP_RESERVE"}
          /\ UNCHANGED <<budget, role, pair, before>>
      BY <1>4 DEF ScreenAtAttemptLimit, ScreenWithoutReserve, SearchEnded, Outcome, work
    <2>2. selected # NoPair
      <3>1. ASSUME selected = NoPair PROVE FALSE
        BY <1>1, <1>2, <1>3, <1>4, <3>1, Numbers, StepsAssumption
           DEF ScreenAtAttemptLimit, ScreenWithoutReserve, AttemptsLeft, ScreenReserve,
               AdmissibleLimits, MinimumStepBudget
      <3> QED
        BY <3>1
    <2>3. Trail' /\ Screens' /\ Paid'
      BY <1>1, <2>1, SameTrail, SameScreens, SamePaid DEF Evaluating, Ended
    <2> QED
      BY <1>1, <1>2, <2>1, <2>2, <2>3, RecordSearchEnded
  <1>5. CASE ScreenBegins
    <2>1. /\ pc' = "nominal" /\ role' = "screen" /\ pair' = FreshPair(Trial) /\ before' = budget.completed
          /\ budget'.attempts = budget.attempts + 1 /\ budget'.completed = budget.completed
          /\ budget'.unknown = 0 /\ budget'.search /\ UNCHANGED result
      BY <1>1, <1>5 DEF ScreenBegins, BeginPair, TypeInv, TypeOK
    <2>2. Open(pair)' /\ Integrated(pair, Spent)' /\ pair'.nominal = NotMeasured /\ pair'.finer = NotMeasured
          /\ pair'.parameters = Trial /\ pair'.class = "INCOMPLETE"
      BY <1>1, <2>1, FreshRecord, Numbers DEF Spent
    <2>3. Trail'
      BY <1>1, <2>1, <2>2, Numbers DEF Trail, Begun, AsMeasured, Evaluating
    <2>4. (selected # NoPair => initial # NoPair /\ Screened(selected) /\ Screened(initial))'
      BY <1>1 DEF Screens, Screened, Judged, AsMeasured, Reproducible, Measured
    <2>5. selected = NoPair => Trial = request.original
      BY DEF Trial
    <2>6. Screens'
      BY <1>1, <1>2, <2>1, <2>2, <2>4, <2>5, Numbers DEF Screens
    <2>7. Paid'
      BY <1>1, <1>2, <2>1, Numbers, StepsAssumption DEF Paid, Evaluating
    <2> QED
      BY <1>1, <2>1, <2>3, <2>6, <2>7, RecordGoesOn
  <1>6. CASE ScreenOutOfBox
    <2>1. /\ UNCHANGED <<role, pair, before>> /\ budget'.attempts = budget.attempts + 1 /\ budget'.completed = budget.completed
          /\ budget'.unknown = 0 /\ budget'.search /\ PollRejected
      BY <1>1, <1>6 DEF ScreenOutOfBox, TypeInv, TypeOK, work
    <2>2. selected # NoPair
      BY <1>1, <1>6 DEF ScreenOutOfBox, Trial, InBox, TypeInv, TypeOK, Request
    <2>3. pc' \in {"screen", "finish"}
      BY <2>1, PollEnds
    <2>4. Trail'
      BY <1>1, <1>2, <2>1, <2>2, <2>3, Numbers
         DEF Trail, Begun, Spent, Integrated, Open, Judged, AsMeasured, Reproducible, Measured,
             Evaluating
    <2>5. (selected # NoPair => initial # NoPair /\ Screened(selected) /\ Screened(initial))'
      BY <1>1 DEF Screens, Screened, Judged, AsMeasured, Reproducible, Measured
    <2>6. Screens'
      BY <1>1, <1>2, <2>1, <2>2, <2>5, Numbers DEF Screens
    <2>7. Paid'
      BY <1>1, <1>2, <2>1, <2>2, <2>3, Numbers DEF Paid, Evaluating
    <2>8. CASE pc' = "screen" /\ UNCHANGED result
      BY <1>1, <2>1, <2>4, <2>6, <2>7, <2>8, RecordGoesOn
    <2>9. CASE pc' = "finish" /\ SearchEnded(result'.reason) /\ result'.reason \in {"STEP_FLOOR_REACHED", "SWEEP_LIMIT"}
      <3>1. selected' # NoPair /\ budget'.attempts > 0
        BY <1>1, <2>1, <2>2, Numbers
      <3>2. result'.reason \notin {"INVALID_REQUEST", "INITIAL_STATE_NOT_ADMISSIBLE", "CPU_LIMIT"}
        BY <2>9
      <3> QED
        BY <1>1, <2>1, <2>4, <2>6, <2>7, <2>9, <3>1, <3>2, RecordSearchEnded
    <2> QED
      BY <2>1, <2>8, <2>9, PollEnds
  <1> QED
    BY <1>4, <1>5, <1>6 DEF Screening

LEMMA RecordFinalPair ==
  ASSUME RecordInv, TypeInv', ConfirmBegins \/ ReplayBegins
  PROVE  RecordParts'
  <1> USE DEF RecordInv, RecordParts
  <1>1. /\ pc \in {"confirm", "replay"} /\ role = "screen" /\ TypeInv /\ ~Ended /\ confirmation = NoPair /\ budget.unknown = 0
        /\ pc = "confirm" => operation = "run" /\ selected # NoPair
        /\ pc = "replay" => operation = "replay" /\ budget.completed = SetupSteps /\ budget.attempts = 0
        /\ UNCHANGED <<operation, request, landscape, budget, initial, selected, confirmation>>
    <2>1. /\ pc \in {"confirm", "replay"} /\ TypeInv /\ ~Ended /\ pc \notin Evaluating
          /\ UNCHANGED <<operation, request, landscape, budget, initial, selected, confirmation>>
      BY
         DEF FloorInv, VerdictInv, StepInv, Ended, Evaluating, ConfirmBegins, ReplayBegins,
             FinalPair, inputs, retained
    <2>2. /\ pc = "confirm" => operation = "run" /\ selected # NoPair
          /\ pc = "replay" => operation = "replay" /\ budget.completed = SetupSteps
      BY DEF FloorInv, VerdictInv, StepInv, StepLimits, VerdictParts, Phase, SelectionValue
    <2> QED
      BY <2>1, <2>2, Numbers
         DEF Trail, Screens, FloorInv, VerdictInv, StepInv, UnknownIsError, Ended
  <1>2. CASE pc' = "finish"
    <2>1. /\ \/ result' = [status |-> "INCOMPLETE", exit_code |-> 20, reason |-> "CONFIRMATION_STEP_LIMIT", qualified |-> FALSE]
             \/ result' = [status |-> "INCOMPLETE", exit_code |-> 20, reason |-> "REPLAY_STEP_LIMIT", qualified |-> FALSE]
          /\ UNCHANGED <<role, pair, before>>
      BY <1>2 DEF ConfirmBegins, ReplayBegins, FinalPair, BeginPair, Interrupted, Outcome
    <2>2. Abandoned(result') /\ result'.reason \in {"CONFIRMATION_STEP_LIMIT", "REPLAY_STEP_LIMIT"}
      BY <2>1 DEF Abandoned
    <2> QED
      BY <1>1, <1>2, <2>1, <2>2, RecordCut
  <1>3. CASE pc' # "finish"
    <2> DEFINE v == IF pc = "confirm" THEN selected.parameters ELSE request.original
    <2>1. pc' = "nominal" /\ role' = pc /\ pair' = FreshPair(v) /\ before' = budget.completed /\ UNCHANGED result
      BY <1>3 DEF ConfirmBegins, ReplayBegins, FinalPair, BeginPair, Interrupted, Outcome
    <2> HIDE DEF v
    <2>2. Open(pair)' /\ Integrated(pair, Spent)' /\ pair'.nominal = NotMeasured /\ pair'.finer = NotMeasured
          /\ pair'.parameters = v /\ pair'.class = "INCOMPLETE"
      BY <1>1, <2>1, FreshRecord, Numbers DEF Spent
    <2>3. Trail'
      BY <1>1, <2>1, <2>2 DEF Trail, Begun, AsMeasured, Evaluating
    <2>4. (selected # NoPair => initial # NoPair /\ Screened(selected) /\ Screened(initial))'
      BY <1>1 DEF Screens, Screened, Judged, AsMeasured, Reproducible, Measured
    <2>5. operation = "replay" => selected = NoPair
      BY DEF Screens
    <2>6. Screens'
      BY <1>1, <2>1, <2>2, <2>4, <2>5 DEF Screens, v
    <2>7. Paid'
      BY <1>1, <2>1, <2>5 DEF Paid, Evaluating
    <2>8. operation \in {"run", "replay"}
      BY <1>1 DEF TypeInv, TypeOK
    <2>9. operation = "run" => role' = "confirm"
      BY <1>1, <2>1
    <2> QED
      BY <1>1, <2>1, <2>3, <2>6, <2>7, <2>9, RecordGoesOn
  <1> QED
    BY <1>2, <1>3

LEMMA RecordInterrupted ==
  ASSUME RecordInv, TypeInv', InterruptAtCheck \/ BackendRaises
  PROVE  RecordParts'
  <1>1. /\ pc # "admit" /\ ~Ended /\ pc' = "finish"
        /\ UNCHANGED <<operation, request, landscape, budget, role, pair, before, initial, selected, confirmation>>
    BY
       DEF InterruptAtCheck, BackendRaises, Interrupted, EvaluatorException, Outcome, Ended,
           Evaluating, inputs, retained
  <1>2. \/ result' = [status |-> "INCOMPLETE", exit_code |-> 20, reason |-> "CPU_LIMIT", qualified |-> FALSE]
        \/ result' = [status |-> "INCOMPLETE", exit_code |-> 20, reason |-> "UNKNOWN_INTEGRATION_WORK", qualified |-> FALSE]
        \/ result' = [status |-> "ERROR", exit_code |-> 70, reason |-> "EVALUATOR_EXCEPTION", qualified |-> FALSE]
    BY DEF InterruptAtCheck, BackendRaises, Interrupted, EvaluatorException, Outcome, CheckReason
  <1>3. /\ Abandoned(result') /\ result'.reason \in {"CPU_LIMIT", "UNKNOWN_INTEGRATION_WORK", "EVALUATOR_EXCEPTION"}
        /\ result'.reason = "CPU_LIMIT" => result'.status = "INCOMPLETE"
    BY <1>2 DEF Abandoned
  <1>4. budget.unknown > 0 => pair.class = "INCOMPLETE"
    BY DEF RecordInv, RecordParts, Trail
  <1> QED
    BY <1>1, <1>3, <1>4, RecordCut

LEMMA RecordFinished ==
  ASSUME RecordInv, TypeInv', Finish
  PROVE  RecordParts'
  <1> USE DEF RecordInv, RecordParts
  <1>1. /\ pc = "finish" /\ pc' = "done"
        /\ UNCHANGED <<operation, request, landscape, clock, budget, role, pair, before, initial, selected, confirmation>>
    BY DEF Finish, inputs, work, retained
  <1>2. budget.unknown > 0 => pair.class = "INCOMPLETE"
    BY DEF Trail
  <1>3. Trail' /\ Screens' /\ Paid'
    BY <1>1, <1>2, SameTrail, SameScreens, SamePaid DEF Evaluating, Ended
  <1>4. AdmissibleLimits'
    BY <1>1 DEF Endings, AdmissibleLimits, Unsubmitted, MinimumStepBudget, PairSteps
  <1>5. CASE result.exit_code \in {0, 10} /\ CheckRaises
    <2>1. \/ result' = [status |-> "INCOMPLETE", exit_code |-> 20, reason |-> "CPU_LIMIT", qualified |-> FALSE]
          \/ result' = [status |-> "INCOMPLETE", exit_code |-> 20, reason |-> "UNKNOWN_INTEGRATION_WORK", qualified |-> FALSE]
      BY <1>5 DEF Finish, CheckReason
    <2>2. Abandoned(result)' /\ result'.status = "INCOMPLETE" /\ result'.reason \in {"CPU_LIMIT", "UNKNOWN_INTEGRATION_WORK"}
      BY <2>1 DEF Abandoned
    <2>3. Endings'
      BY <1>1, <1>4, <2>2 DEF Endings, Unsubmitted, Ended
    <2>4. result'.exit_code \notin {0, 10} /\ ~result'.qualified
      BY <2>1
    <2>5. Grounds'
      BY <1>1, <2>4 DEF Grounds, Ended
    <2> QED
      BY <1>3, <2>3, <2>5
  <1>6. CASE ~(result.exit_code \in {0, 10} /\ CheckRaises)
    <2>1. UNCHANGED result
      BY <1>6 DEF Finish
    <2>2. Endings'
      BY <1>1, <1>4, <2>1 DEF Endings, Unsubmitted, Ended, Abandoned, Concluded
    <2>3. result.exit_code \in {0, 10} => CheckPasses'
      BY <1>1, <1>6 DEF CheckPasses, CheckRaises, CpuReached
    <2>4. Grounds'
      BY <1>1, <2>1, <2>3 DEF Grounds, Ended
    <2> QED
      BY <1>3, <2>2, <2>4
  <1> QED
    BY <1>5, <1>6

LEMMA RecordInductive == RecordInv /\ [Next]_vars => RecordInv'
  <1> SUFFICES ASSUME RecordInv, [Next]_vars PROVE RecordInv'
    OBVIOUS
  <1>1. FloorInv' /\ WorkInv' /\ BudgetRespected' /\ TypeInv'
    BY FloorInductive, WorkInductive, BudgetInductive DEF RecordInv, FloorInv, VerdictInv, StepInv
  <1>2. CASE Setup \/ Screening
    BY <1>1, <1>2, RecordSetup, RecordScreening DEF RecordInv
  <1>3. CASE Evaluation
    BY <1>1, <1>3, RecordEpisode, RecordNominal, RecordFiner, RecordJudgeFirst, RecordJudgeTrial, RecordJudgeFinal
       DEF RecordInv, Evaluation
  <1>4. CASE ConfirmBegins \/ ReplayBegins \/ InterruptAtCheck \/ BackendRaises \/ Finish
    BY <1>1, <1>4, RecordFinalPair, RecordInterrupted, RecordFinished DEF RecordInv
  <1>5. CASE Tick
    <2>1. /\ UNCHANGED <<operation, request, landscape, pc, budget, role, pair, before, initial, selected, confirmation, result>>
          /\ pc # "done"
      BY <1>5 DEF Tick, inputs, work, retained
    <2>2. Trail' /\ Paid'
      BY <2>1
         DEF RecordInv, RecordParts, Trail, Paid, Begun, Spent, Integrated, Open, Judged,
             AsMeasured, Reproducible, Measured, Ended
    <2>3. Screens'
      BY <2>1, SameScreens DEF RecordInv, RecordParts, Ended
    <2>4. Endings' /\ Grounds'
      BY <2>1
         DEF RecordInv, RecordParts, Endings, Grounds, Abandoned, Concluded, Unsubmitted, Ended,
             AdmissibleLimits
    <2> QED
      BY <1>1, <2>2, <2>3, <2>4 DEF RecordInv, RecordParts
  <1>6. CASE UNCHANGED vars
    <2>1. UNCHANGED <<operation, request, landscape, pc, clock, budget, role, pair, before, initial, selected, confirmation, result>>
      BY <1>6 DEF vars, inputs, work, retained
    <2>2. Trail' /\ Paid'
      BY <2>1
         DEF RecordInv, RecordParts, Trail, Paid, Begun, Spent, Integrated, Open, Judged,
             AsMeasured, Reproducible, Measured, Ended
    <2>3. Screens'
      BY <2>1, SameScreens DEF RecordInv, RecordParts, Ended
    <2>4. Endings' /\ Grounds'
      BY <2>1
         DEF RecordInv, RecordParts, Endings, Grounds, Abandoned, Concluded, Unsubmitted, Ended,
             AdmissibleLimits, CheckPasses, CheckRaises, CpuReached
    <2> QED
      BY <1>1, <2>2, <2>3, <2>4 DEF RecordInv, RecordParts
  <1> QED
    BY <1>2, <1>3, <1>4, <1>5, <1>6 DEF Next, Engine, Done

LEMMA RecordInvariant == Spec => []RecordInv
  BY RecordInit, RecordInductive, PTL DEF Spec

-----------------------------------------------------------------------------
(* The record: what is written is admitted.                                *)

LEMMA RunFields ==
  ASSUME NEW s, NEW cpu
  PROVE  LET r == RunRecord(s, cpu)
         IN  /\ r.request = request /\ r.status = result.status /\ r.exit_code = result.exit_code
             /\ r.qualified = result.qualified /\ r.costs = Costs(cpu) /\ r.original = request.original
             /\ r.selected = (IF selected = NoPair THEN None ELSE selected.parameters)
             /\ r.initialization = Initialization(s) /\ r.initial = InitialScreening
             /\ r.selected_screening = SelectedScreening /\ r.confirmation = Confirmation
             /\ r.confirmation_complete = (confirmation # NoPair /\ confirmation.class # "INCOMPLETE")
             /\ r.members = RunMembers(s) /\ r.reset = s
  BY DEF RunRecord

LEMMA ReplayFields ==
  ASSUME NEW cpu
  PROVE  LET r == ReplayRecord(cpu)
         IN  /\ r.request = request /\ r.status = result.status /\ r.exit_code = result.exit_code
             /\ r.qualified = result.qualified /\ r.costs = Costs(cpu)
             /\ r.selected = request.original /\ r.measurement = ReplayMeasurement
  BY DEF ReplayRecord

LEMMA DocumentFields ==
  ASSUME NEW p, NEW k, NEW u
  PROVE  LET d == PairDocument(p, k, u)
             n == IF p.nominal.class = "COMPLETE" THEN NominalSteps ELSE k
         IN  /\ d.parameters = p.parameters /\ d.class = p.class /\ d.objective = p.objective
             /\ d.qualified = p.qualified /\ d.known = k /\ d.unknown = u
             /\ d.complete = (p.class # "INCOMPLETE")
             /\ d.nominal.class = p.nominal.class /\ d.nominal.hold = p.nominal.hold
             /\ d.nominal.qualified = p.nominal.qualified
             /\ d.nominal.completed = n /\ d.nominal.expected = NominalSteps
             /\ d.finer.class = p.finer.class /\ d.finer.hold = p.finer.hold
             /\ d.finer.qualified = p.finer.qualified
             /\ d.finer.completed = k - n /\ d.finer.expected = FinerSteps
  BY DEF PairDocument, Trajectory

LEMMA DocumentType ==
  ASSUME NEW p \in Pairs, NEW k \in Nat, NEW u \in Nat
  PROVE  PairDocument(p, k, u) \in PairDocuments /\ PairDocument(p, k, u) # None
  <1> DEFINE n == IF p.nominal.class = "COMPLETE" THEN NominalSteps ELSE k
  <1>1. n \in Int
    BY StepsAssumption
  <1>2. Trajectory(p.nominal, n, NominalSteps) \in Trajectories /\ Trajectory(p.finer, k - n, FinerSteps) \in Trajectories
    BY <1>1, StepsAssumption DEF Trajectory, Trajectories, Pairs, Measurements
  <1>3. PairDocument(p, k, u) \in PairDocuments
    BY <1>2 DEF PairDocument, PairDocuments, Pairs
  <1> QED
    BY <1>3, AbsenceAssumption

\* What _classify_pair says of a judged pair.
LEMMA JudgedFacts ==
  ASSUME NEW p \in Pairs, Judged(p)
  PROVE  /\ p.class = "COMPLETE" => p.nominal.class = "COMPLETE" /\ p.finer.class = "COMPLETE"
         /\ p.qualified => p.class = "COMPLETE" /\ p.objective = 0
  <1> DEFINE q == [FreshPair(p.parameters) EXCEPT !.nominal = p.nominal, !.finer = p.finer]
  <1>1. /\ q.nominal = p.nominal /\ q.finer = p.finer /\ q.class = "INCOMPLETE" /\ ~q.qualified
    BY DEF FreshPair
  <1>2. q \in Pairs
    BY FreshPairType DEF Pairs
  <1>3. p = Classified(q)
    BY DEF Judged
  <1> HIDE DEF q
  <1>4. p.class = "COMPLETE" => q.nominal.class = "COMPLETE" /\ q.finer.class = "COMPLETE"
    BY <1>1, <1>2, <1>3 DEF Classified, Pairs
  <1>5. p.qualified => p.class = "COMPLETE" /\ p.objective = 0
    BY <1>1, <1>2, <1>3, ClassifiedFacts
  <1> QED
    BY <1>1, <1>4, <1>5

\* A document is admitted if its pair has measured what was integrated, and is open or judged.
LEMMA DocumentAdmitted ==
  ASSUME NEW p \in Pairs, NEW k \in Nat, NEW u \in Nat, Integrated(p, k), Open(p) \/ Judged(p),
         u > 0 => p.class = "INCOMPLETE"
  PROVE  PairAdmitted(PairDocument(p, k, u))
  <1> DEFINE d == PairDocument(p, k, u)
             n == IF p.nominal.class = "COMPLETE" THEN NominalSteps ELSE k
             m == [class |-> d.nominal.class, hold |-> d.nominal.hold, qualified |-> d.nominal.qualified]
             f == [class |-> d.finer.class, hold |-> d.finer.hold, qualified |-> d.finer.qualified]
             actual == Classified([FreshPair(d.parameters) EXCEPT !.nominal = m, !.finer = f])
  <1>1. /\ d.parameters = p.parameters /\ d.class = p.class /\ d.objective = p.objective
        /\ d.qualified = p.qualified /\ d.known = k /\ d.unknown = u
        /\ d.complete = (p.class # "INCOMPLETE")
        /\ d.nominal.class = p.nominal.class /\ d.nominal.hold = p.nominal.hold
        /\ d.nominal.qualified = p.nominal.qualified
        /\ d.nominal.completed = n /\ d.nominal.expected = NominalSteps
        /\ d.finer.class = p.finer.class /\ d.finer.hold = p.finer.hold
        /\ d.finer.qualified = p.finer.qualified
        /\ d.finer.completed = k - n /\ d.finer.expected = FinerSteps
    BY DocumentFields
  <1>2. p.nominal \in Measurements /\ p.finer \in Measurements /\ p.parameters \in Box /\ p.class \in Classifications
    BY DEF Pairs
  <1> HIDE DEF d
  <1>3. m = p.nominal /\ f = p.finer
    BY <1>1, <1>2 DEF Measurements
  <1>4. actual = Classified([FreshPair(p.parameters) EXCEPT !.nominal = p.nominal, !.finer = p.finer])
    BY <1>1, <1>3
  <1>5. VectorAdmitted(d.parameters)
    BY <1>1, <1>2 DEF VectorAdmitted
  <1>6. MeasurementAdmitted(d.nominal) /\ MeasurementAdmitted(d.finer)
    BY <1>1, <1>2, StepsAssumption
       DEF MeasurementAdmitted, Integrated, Sane, PairSteps, Measurements, Classifications
  <1>7. d.nominal.completed + d.finer.completed = d.known
    BY <1>1, StepsAssumption
  <1> HIDE DEF m, f, n
  <1>8. Pending(d) \/ (/\ d.class = actual.class /\ d.objective = actual.objective
                       /\ d.qualified = actual.qualified /\ d.complete = (actual.class # "INCOMPLETE"))
    <2>1. CASE Open(p)
      BY <1>1, <2>1 DEF Open, Pending
    <2>2. CASE Judged(p)
      <3>1. actual = p
        BY <1>4, <2>2 DEF Judged
      <3> HIDE DEF actual
      <3> QED
        BY <1>1, <3>1
    <2> QED
      BY <2>1, <2>2
  <1>9. d.complete => d.unknown = 0
    <2>1. d.complete => p.class # "INCOMPLETE"
      BY <1>1
    <2>2. p.class # "INCOMPLETE" => u = 0
      OBVIOUS
    <2> QED
      BY <1>1, <2>1, <2>2
  <1>10. d.nominal.completed + d.finer.completed <= d.known
    BY <1>1, <1>7
  <1> QED
    BY <1>5, <1>6, <1>7, <1>8, <1>9, <1>10 DEF PairAdmitted, m, f, d

\* A screening that was measured completely.
LEMMA ScreenedDocument ==
  ASSUME NEW p \in Pairs, Screened(p)
  PROVE  /\ PairAdmitted(CompletePair(p)) /\ CompletePair(p) # None
         /\ CompletePair(p).parameters = p.parameters /\ CompletePair(p).class = "COMPLETE"
         /\ CompletePair(p).complete /\ CompletePair(p).objective = p.objective
         /\ CompletePair(p).qualified = p.qualified
         /\ CompletePair(p).known = PairSteps /\ CompletePair(p).unknown = 0
  <1>1. PairSteps \in Nat /\ 0 \in Nat /\ NominalSteps \in Nat /\ FinerSteps \in Nat
    BY StepsAssumption DEF PairSteps
  <1>2. Integrated(p, PairSteps)
    BY <1>1, JudgedFacts DEF Screened, Integrated, PairSteps
  <1>3. PairAdmitted(PairDocument(p, PairSteps, 0))
    BY <1>1, <1>2, DocumentAdmitted DEF Screened
  <1>4. PairDocument(p, PairSteps, 0) # None
    BY <1>1, DocumentType
  <1>5. LET d == PairDocument(p, PairSteps, 0)
        IN  /\ d.parameters = p.parameters /\ d.class = p.class /\ d.objective = p.objective
            /\ d.qualified = p.qualified /\ d.known = PairSteps /\ d.unknown = 0
            /\ d.complete = (p.class # "INCOMPLETE")
    BY DocumentFields
  <1>6. p.class = "COMPLETE"
    BY DEF Screened
  <1> QED
    BY <1>3, <1>4, <1>5, <1>6 DEF CompletePair

\* The pair at work when the invocation ended.
LEMMA LastDocument ==
  ASSUME RecordInv, Begun
  PROVE  /\ PairAdmitted(LastPair) /\ LastPair # None
         /\ LastPair.parameters = pair.parameters /\ LastPair.class = pair.class
         /\ (LastPair.complete <=> pair.class # "INCOMPLETE") /\ LastPair.objective = pair.objective
         /\ LastPair.qualified = pair.qualified
         /\ LastPair.known = budget.completed - before /\ LastPair.unknown = budget.unknown
         /\ LastPair.known \in Nat
  <1> DEFINE k == budget.completed - before
             u == budget.unknown
  <1>1. /\ TypeInv /\ pair \in Pairs /\ u \in Nat /\ Integrated(pair, k) /\ (Open(pair) \/ Judged(pair))
        /\ u > 0 => pair.class = "INCOMPLETE"
    BY DEF RecordInv, RecordParts, FloorInv, VerdictInv, StepInv, TypeInv, TypeOK, Trail, Spent
  <1>2. k \in Nat
    BY <1>1, StepsAssumption DEF Integrated, PairSteps
  <1> HIDE DEF k, u
  <1>3. PairAdmitted(PairDocument(pair, k, u)) /\ PairDocument(pair, k, u) # None
    BY <1>1, <1>2, DocumentAdmitted, DocumentType
  <1>4. LET d == PairDocument(pair, k, u)
        IN  /\ d.parameters = pair.parameters /\ d.class = pair.class /\ d.objective = pair.objective
            /\ d.qualified = pair.qualified /\ d.known = k /\ d.unknown = u
            /\ d.complete = (pair.class # "INCOMPLETE")
    BY DocumentFields
  <1>5. LastPair = PairDocument(pair, k, u)
    BY DEF LastPair, k, u
  <1> QED
    BY <1>2, <1>3, <1>4, <1>5 DEF k, u


\* Reproducible physics measures a controller that is selected again as it did at first.
LEMMA ScreenedAgain ==
  ASSUME NEW p, NEW q, Reproducible, p.parameters = q.parameters, Screened(p), Judged(q), q.class = "COMPLETE", AsMeasured(q)
  PROVE  p = q
  <1>1. p.nominal = q.nominal /\ p.finer = q.finer
    BY DEF Screened, AsMeasured
  <1> QED
    BY <1>1 DEF Screened, Judged

LEMMA ScreeningsAgree ==
  ASSUME RecordInv, Ended, operation = "run", ~ScreeningContradicted, selected # NoPair
  PROVE  /\ selected.parameters = initial.parameters => selected = initial
         /\ result.qualified => selected.qualified
  <1>1. Screened(selected) /\ Screened(initial)
    BY DEF RecordInv, RecordParts, Screens
  <1>2. CASE ~Reproducible
    BY <1>2 DEF ScreeningContradicted
  <1>3. CASE Reproducible
    <2>1. selected.parameters = initial.parameters => selected = initial
      BY <1>1, <1>3, ScreenedAgain DEF Screened
    <2>2. ASSUME result.qualified PROVE selected.qualified
      <3>1. /\ pair.class = "COMPLETE" /\ pair.qualified /\ pair.parameters = selected.parameters
            /\ role = "confirm"
        BY <2>2
           DEF RecordInv, RecordParts, FloorInv, VerdictInv, VerdictParts,
               QualifiedMeansConfirmed, Grounds
      <3>2. Judged(pair) /\ AsMeasured(pair)
        BY <3>1 DEF RecordInv, RecordParts, Trail, Begun, Open
      <3> QED
        BY <1>1, <1>3, <3>1, <3>2, ScreenedAgain
    <2> QED
      BY <2>1, <2>2
  <1> QED
    BY <1>2, <1>3

\* What a recorded invocation knows: it was submitted with admissible limits.
LEMMA RecordedLimits ==
  ASSUME RecordInv, Recorded
  PROVE  /\ TypeInv /\ pc = "done" /\ Ended /\ AdmissibleLimits
         /\ Abandoned(result) \/ Concluded(result)
         /\ operation \in {"run", "replay"}
         /\ operation = "run" => result.status # "REFUSED"
         /\ result.exit_code \in {0, 10} => CheckPasses /\ budget.unknown = 0
  <1>1. TypeInv /\ pc = "done" /\ Ended /\ (Abandoned(result) \/ Concluded(result))
    BY DEF RecordInv, RecordParts, FloorInv, VerdictInv, StepInv, Recorded, Ended, Endings
  <1>2. operation \in {"run", "replay"}
    BY <1>1 DEF TypeInv, TypeOK
  <1>3. AdmissibleLimits
    BY <1>1, <1>2, Numbers DEF RecordInv, RecordParts, Endings, Unsubmitted, Recorded
  <1>4. result.exit_code \in {0, 10} => CheckPasses
    BY <1>1 DEF RecordInv, RecordParts, Grounds
  <1>5. CheckPasses => budget.unknown = 0
    BY <1>1, Numbers DEF CheckPasses, CheckRaises
  <1> QED
    BY <1>1, <1>2, <1>3, <1>4, <1>5 DEF Recorded

LEMMA CommonAdmitted ==
  ASSUME RecordInv, Recorded, NEW r, NEW cpu,
         r.request = request, r.status = result.status, r.exit_code = result.exit_code,
         r.qualified = result.qualified, r.costs = Costs(cpu)
  PROVE  OutcomeAdmitted(r) /\ RequestAdmitted(r) /\ CostsAdmitted(r)
  <1>1. /\ TypeInv /\ AdmissibleLimits /\ (Abandoned(result) \/ Concluded(result)) /\ operation \in {"run", "replay"}
    BY RecordedLimits
  <1>2. OutcomeAdmitted(r)
    <2>1. result.qualified \in BOOLEAN
      BY <1>1 DEF TypeInv, TypeOK, Results
    <2>2. CASE operation = "run"
      <3>1. r.status \in DOMAIN Exits /\ Exits[r.status] = r.exit_code
        BY <1>1, <2>2 DEF Exits, Abandoned, Concluded
      <3>2. r.qualified <=> r.exit_code = 0
        BY <1>1, <2>2 DEF Abandoned, Concluded
      <3> QED
        BY <3>1, <3>2 DEF OutcomeAdmitted
    <2>3. CASE operation = "replay"
      <3>1. r.status \in DOMAIN Exits /\ Exits[r.status] = r.exit_code
        BY <1>1, <2>3 DEF Exits, Abandoned, Concluded
      <3>2. r.qualified <=> r.exit_code = 0
        BY <1>1, <2>3 DEF Abandoned, Concluded
      <3> QED
        BY <3>1, <3>2 DEF OutcomeAdmitted
    <2> QED
      BY <1>1, <2>2, <2>3
  <1>3. RequestAdmitted(r)
    BY <1>1 DEF RequestAdmitted, AdmissibleLimits, TypeInv, TypeOK, Request
  <1>4. CostsAdmitted(r)
    <2>1. /\ r.costs.limits = request /\ r.costs.attempts = budget.attempts /\ r.costs.known = budget.completed
          /\ r.costs.unknown = budget.unknown
          /\ r.costs.integration_steps = (IF budget.unknown > 0 THEN None ELSE budget.completed)
      BY DEF Costs
    <2>2. operation = "replay" => budget.attempts = 0
      BY DEF RecordInv, RecordParts, Screens
    <2> QED
      BY <2>1, <2>2 DEF CostsAdmitted, RecordInv, BudgetRespected
  <1> QED
    BY <1>2, <1>3, <1>4

\* A finite verdict was reported below the ceiling that applied to it.
LEMMA FiniteCosts ==
  ASSUME RecordInv, Recorded, result.exit_code \in {0, 10}, NEW cpu \in clock .. 2, ~(cpu > clock)
  PROVE  FiniteCost(Costs(cpu), FullCap)
         /\ (operation = "run" /\ role # "confirm" => FiniteCost(Costs(cpu), SearchCeiling))
  <1>1. TypeInv /\ CheckPasses /\ budget.unknown = 0 /\ Ended
    BY RecordedLimits
  <1>2. Costs(cpu).unknown = 0 /\ Costs(cpu).cpu = cpu
    BY <1>1 DEF Costs
  <1>3. cpu = clock /\ clock \in 0 .. 2
    BY <1>1 DEF TypeInv, TypeOK
  <1>4. cpu < 2 /\ (budget.search => cpu < 1)
    BY <1>1, <1>3 DEF CheckPasses, CheckRaises, CpuReached
  <1>5. operation = "run" /\ role # "confirm" => budget.search
    BY <1>1 DEF RecordInv, RecordParts, Grounds, Ended
  <1> QED
    BY <1>2, <1>4, <1>5 DEF FiniteCost, FullCap, SearchCeiling


\* What a record says of the settling.
LEMMA RetainedFacts ==
  ASSUME RecordInv, Recorded, operation = "run", NEW s \in Retained
  PROVE  /\ s \in Settlings \/ s = None
         /\ budget.attempts > 0 => s = "ADMITTED"
         /\ s = "NONFINITE_STATE" => NonfiniteInitialReset(s)
         /\ s # None /\ budget.attempts = 0 => budget.completed = SetupSteps
         /\ result.status = "NO_QUALIFIED_POLICY_FOUND" /\ budget.attempts = 0 => s = "GATE"
  <1>1. TypeInv /\ pc = "done" /\ Ended /\ (Abandoned(result) \/ Concluded(result))
    BY RecordedLimits
  <1>2. /\ result.reason = "INITIAL_STATE_NOT_ADMISSIBLE" =>
              /\ budget.attempts = 0 /\ budget.completed = SetupSteps
              /\ result.status \in {"INCOMPLETE", "NO_QUALIFIED_POLICY_FOUND"}
        /\ result.reason = "CPU_LIMIT" => result.status = "INCOMPLETE"
        /\ budget.attempts = 0 => selected = NoPair
        /\ result.exit_code = 10 /\ result.reason # "INITIAL_STATE_NOT_ADMISSIBLE" => budget.attempts > 0
    BY DEF RecordInv, RecordParts, Endings, Screens, Grounds
  <1>3. /\ result.status = "INCOMPLETE" => ~result.qualified
        /\ result.status = "NO_QUALIFIED_POLICY_FOUND" => result.exit_code = 10
    BY <1>1 DEF Abandoned, Concluded
  <1>4. budget.attempts \in Nat
    BY <1>1, Numbers
  <1>5. s \in Settlings \/ s = None
    BY DEF Retained, Settlings
  <1>6. budget.attempts > 0 => s = "ADMITTED"
    BY <1>2, <1>4 DEF Retained
  <1>7. s # None /\ budget.attempts = 0 => budget.completed = SetupSteps
    BY <1>2, <1>4 DEF Retained
  <1>8. result.status = "NO_QUALIFIED_POLICY_FOUND" /\ budget.attempts = 0 => s = "GATE"
    BY <1>2, <1>3, <1>4 DEF Retained
  <1>9. s = "NONFINITE_STATE" => NonfiniteInitialReset(s)
    <2>1. SUFFICES ASSUME s = "NONFINITE_STATE" PROVE NonfiniteInitialReset(s)
      OBVIOUS
    <2>2. budget.attempts = 0
      BY <1>4, <1>6, <2>1
    <2>3. s # None
      BY <2>1, AbsenceAssumption DEF Settlings
    <2>4. result.status = "INCOMPLETE"
      BY <1>2, <1>4, <2>1, <2>2, <2>3 DEF Retained
    <2> QED
      BY <1>2, <1>3, <2>1, <2>2, <2>4 DEF NonfiniteInitialReset, SettlingClass
  <1> QED
    BY <1>5, <1>6, <1>7, <1>8, <1>9

LEMMA SettlingDocument ==
  ASSUME NEW s, s \in Settlings \/ s = None
  PROVE  /\ InitializationAdmitted(Initialization(s))
         /\ s = None <=> Initialization(s) = None
         /\ s # None => Initialization(s).completed = SetupSteps /\ Initialization(s).class = SettlingClass(s)
  <1>1. CASE s = None
    BY <1>1 DEF Initialization, InitializationAdmitted
  <1>2. CASE s # None
    <2>1. s \in Settlings
      BY <1>2
    <2>2. Initialization(s) = [class |-> SettlingClass(s), failures |-> {s} \ {"ADMITTED"}, completed |-> SetupSteps]
      BY <1>2 DEF Initialization
    <2>3. Initialization(s) \in SettlingDocuments
      BY <2>1, <2>2, StepsAssumption
         DEF SettlingDocuments, SettlingClass, Classifications, Settlings
    <2>4. /\ Initialization(s).class = "COMPLETE" => s = "ADMITTED"
          /\ Initialization(s).class = "HARD_REJECTION" => s = "GATE"
      BY <2>1, <2>2 DEF SettlingClass, Settlings
    <2>5. Initialization(s).failures = {s} \ {"ADMITTED"}
      BY <2>2
    <2>6. InitializationAdmitted(Initialization(s))
      BY <2>4, <2>5 DEF InitializationAdmitted
    <2>7. Initialization(s) # None
      BY <2>3, AbsenceAssumption
    <2>8. Initialization(s).completed = SetupSteps /\ Initialization(s).class = SettlingClass(s)
      BY <2>2
    <2> QED
      BY <1>2, <2>6, <2>7, <2>8
  <1> QED
    BY <1>1, <1>2

\* Which screenings the record of a run carries.
LEMMA ScreeningsWritten ==
  ASSUME RecordInv, Recorded, operation = "run"
  PROVE  /\ budget.attempts = 0 => InitialScreening = None /\ selected = NoPair
         /\ selected # NoPair =>
              /\ budget.attempts > 0 /\ selected \in Pairs /\ initial \in Pairs
              /\ Screened(selected) /\ Screened(initial) /\ initial.parameters = request.original
              /\ InitialScreening = CompletePair(initial) /\ SelectedScreening = CompletePair(selected)
         /\ selected = NoPair => SelectedScreening = None /\ role = "screen" /\ Confirmation = None
         /\ budget.attempts > 0 /\ selected = NoPair =>
              /\ Begun /\ InitialScreening = LastPair /\ pair.parameters = request.original
              /\ before = SetupSteps
         /\ role = "confirm" => Begun /\ selected # NoPair /\ Confirmation = LastPair
                                /\ pair.parameters = selected.parameters
         /\ role # "confirm" => Confirmation = None /\ role = "screen"
  <1>1. TypeInv
    BY RecordedLimits
  <1>2. role \in {"screen", "confirm"}
    BY <1>1 DEF RecordInv, RecordParts, Screens, TypeInv, TypeOK
  <1>3. budget.attempts \in Nat /\ selected \in Pairs \cup {NoPair} /\ initial \in Pairs \cup {NoPair}
    BY <1>1, Numbers DEF TypeInv, TypeOK
  <1>4. Screens
    BY DEF RecordInv, RecordParts
  <1>5. budget.attempts = 0 => InitialScreening = None /\ selected = NoPair
    BY <1>4 DEF InitialScreening, Screens
  <1>6. selected # NoPair =>
              /\ budget.attempts > 0 /\ selected \in Pairs /\ initial \in Pairs
              /\ Screened(selected) /\ Screened(initial) /\ initial.parameters = request.original
              /\ InitialScreening = CompletePair(initial) /\ SelectedScreening = CompletePair(selected)
    <2>1. ASSUME selected # NoPair
          PROVE  budget.attempts > 0 /\ selected \in Pairs /\ initial \in Pairs
                 /\ Screened(selected) /\ Screened(initial) /\ initial.parameters = request.original
      BY <1>3, <1>4, <2>1 DEF Screens
    <2>2. ASSUME selected # NoPair PROVE initial # NoPair /\ initial.class = "COMPLETE"
      BY <1>4, <2>2 DEF Screens, Screened
    <2>3. ASSUME selected # NoPair
          PROVE  InitialScreening = CompletePair(initial) /\ SelectedScreening = CompletePair(selected)
      BY <2>1, <2>2, <2>3 DEF InitialScreening, SelectedScreening
    <2> QED
      BY <2>1, <2>3
  <1>7. selected = NoPair => SelectedScreening = None /\ role = "screen" /\ Confirmation = None
    BY <1>2, <1>4 DEF SelectedScreening, Confirmation, Screens
  <1>8. budget.attempts > 0 /\ selected = NoPair =>
              /\ Begun /\ InitialScreening = LastPair /\ pair.parameters = request.original
              /\ before = SetupSteps
    BY <1>3, <1>4 DEF InitialScreening, Screens, Begun
  <1>9. role = "confirm" => Begun /\ selected # NoPair /\ Confirmation = LastPair
                                /\ pair.parameters = selected.parameters
    BY <1>4 DEF Confirmation, Screens, Begun
  <1>10. role # "confirm" => Confirmation = None /\ role = "screen"
    BY <1>2 DEF Confirmation
  <1> QED
    BY <1>5, <1>6, <1>7, <1>8, <1>9, <1>10


LEMMA PairsAdmitted ==
  ASSUME RecordInv, Recorded, operation = "run"
  PROVE  PairAdmitted(InitialScreening) /\ PairAdmitted(SelectedScreening) /\ PairAdmitted(Confirmation)
  <1>1. PairAdmitted(None)
    BY DEF PairAdmitted
  <1>2. CASE selected = NoPair
    <2>1. SelectedScreening = None /\ Confirmation = None
      BY <1>2, ScreeningsWritten
    <2>2. CASE budget.attempts = 0
      BY <1>1, <2>1, <2>2, ScreeningsWritten
    <2>3. CASE budget.attempts # 0
      <3>1. budget.attempts > 0
        BY <2>3, RecordedLimits, Numbers
      <3>2. Begun /\ InitialScreening = LastPair
        BY <1>2, <3>1, ScreeningsWritten
      <3> QED
        BY <1>1, <2>1, <3>2, LastDocument
    <2> QED
      BY <2>2, <2>3
  <1>3. CASE selected # NoPair
    <2>1. /\ selected \in Pairs /\ initial \in Pairs /\ Screened(selected) /\ Screened(initial)
          /\ InitialScreening = CompletePair(initial) /\ SelectedScreening = CompletePair(selected)
      BY <1>3, ScreeningsWritten
    <2>2. PairAdmitted(CompletePair(initial)) /\ PairAdmitted(CompletePair(selected))
      BY <2>1, ScreenedDocument
    <2>3. PairAdmitted(Confirmation)
      BY <1>1, ScreeningsWritten, LastDocument
    <2> QED
      BY <2>1, <2>2, <2>3
  <1> QED
    BY <1>2, <1>3

\* The files of the record and what its parts say of one another.
LEMMA MembersWritten ==
  ASSUME RecordInv, Recorded, operation = "run", NEW s \in Retained, NEW r,
         r.members = RunMembers(s), r.initialization = Initialization(s), r.reset = s,
         r.selected = (IF selected = NoPair THEN None ELSE selected.parameters)
  PROVE  /\ MembersAdmitted(r) /\ VectorAdmitted(r.selected)
         /\ selected # NoPair => /\ r.members = AllMembers /\ r.selected \in Box /\ r.selected # None
                                 /\ s = "ADMITTED"
         /\ selected = NoPair => r.selected = None
  <1>1. /\ s \in Settlings \/ s = None
        /\ budget.attempts > 0 => s = "ADMITTED"
        /\ s = "NONFINITE_STATE" => NonfiniteInitialReset(s)
    BY RetainedFacts
  <1>2. s = None <=> Initialization(s) = None
    BY <1>1, SettlingDocument
  <1>3. selected # NoPair => selected \in Pairs /\ s = "ADMITTED"
    BY <1>1, ScreeningsWritten
  <1>4. selected # NoPair => selected.parameters \in Box /\ selected.parameters # None
    BY <1>3, AbsenceAssumption DEF Pairs
  <1>5. "ADMITTED" # None
    BY AbsenceAssumption DEF Settlings
  <1>6. ~NonfiniteInitialReset("ADMITTED")
    BY DEF NonfiniteInitialReset
  <1>7. "reset.json" \in RunMembers(s) => s # "NONFINITE_STATE"
    BY <1>1 DEF RunMembers, ResetMember
  <1>8. selected # NoPair => RunMembers(s) = AllMembers
    BY <1>3, <1>5, <1>6 DEF RunMembers, ResetMember, AllMembers
  <1>9. "policy.json" \in RunMembers(s) <=> selected # NoPair
    BY DEF RunMembers, ResetMember
  <1>10. RunMembers(s) # {} => s # None
    BY <1>3, <1>5 DEF RunMembers
  <1>11. MembersAdmitted(r)
    BY <1>2, <1>4, <1>7, <1>9, <1>10 DEF MembersAdmitted
  <1> QED
    BY <1>3, <1>4, <1>8, <1>11 DEF VectorAdmitted

LEMMA BindingsWritten ==
  ASSUME RecordInv, Recorded, operation = "run", NEW r, r.request = request, r.original = request.original,
         r.selected = (IF selected = NoPair THEN None ELSE selected.parameters),
         r.initial = InitialScreening, r.selected_screening = SelectedScreening,
         r.confirmation = Confirmation,
         r.confirmation_complete = (confirmation # NoPair /\ confirmation.class # "INCOMPLETE")
  PROVE  Bindings(r)
  <1>1. r.initial # None => r.initial.parameters = r.original
    <2>1. CASE selected # NoPair
      BY <2>1, ScreeningsWritten, ScreenedDocument
    <2>2. CASE selected = NoPair /\ budget.attempts > 0
      BY <2>2, ScreeningsWritten, LastDocument
    <2>3. CASE budget.attempts = 0
      BY <2>3, ScreeningsWritten
    <2> QED
      BY <2>1, <2>2, <2>3, RecordedLimits, Numbers
  <1>2. r.selected_screening # None => r.selected_screening.parameters = r.selected
    BY ScreeningsWritten, ScreenedDocument
  <1>3. r.confirmation # None => r.confirmation.parameters = r.selected
    BY ScreeningsWritten, LastDocument
  <1>4. r.confirmation_complete <=> r.confirmation # None /\ r.confirmation.complete
    <2>1. Screens /\ pair \in Pairs
      BY RecordedLimits DEF RecordInv, RecordParts, TypeInv, TypeOK
    <2>2. pair # NoPair
      BY <2>1
    <2>3. CASE role = "confirm"
      <3>1. r.confirmation = LastPair /\ LastPair # None /\ (LastPair.complete <=> pair.class # "INCOMPLETE")
        BY <2>3, ScreeningsWritten, LastDocument
      <3>2. confirmation # NoPair /\ confirmation.class # "INCOMPLETE" <=> pair.class # "INCOMPLETE"
        BY <2>1, <2>2, <2>3 DEF Screens
      <3> QED
        BY <3>1, <3>2
    <2>4. CASE role # "confirm"
      <3>1. r.confirmation = None
        BY <2>4, ScreeningsWritten
      <3>2. confirmation = NoPair
        BY <2>1, <2>4 DEF Screens
      <3> QED
        BY <3>1, <3>2
    <2> QED
      BY <2>3, <2>4
  <1> QED
    BY <1>1, <1>2, <1>3, <1>4 DEF Bindings


LEMMA WitnessesPaid ==
  ASSUME RecordInv, Recorded, operation = "run", ~ScreeningContradicted, NEW s \in Retained, NEW cpu, NEW r,
         r.costs = Costs(cpu), r.initialization = Initialization(s),
         r.selected = (IF selected = NoPair THEN None ELSE selected.parameters),
         r.initial = InitialScreening, r.selected_screening = SelectedScreening, r.confirmation = Confirmation
  PROVE  WitnessCosts(r)
  <1> DEFINE other == IF SameController(r) THEN None ELSE r.selected_screening
             settled == IF r.initialization = None THEN 0 ELSE r.initialization.completed
  <1>1. /\ TypeInv /\ Ended /\ budget.attempts \in Nat /\ budget.completed \in Nat /\ budget.unknown \in Nat /\ before \in Nat
        /\ PairSteps \in Nat /\ SetupSteps \in Nat
    BY RecordedLimits, Numbers, StepsAssumption
  <1>2. r.costs.known = budget.completed /\ r.costs.unknown = budget.unknown /\ r.costs.attempts = budget.attempts
    BY DEF Costs
  <1>3. settled \in {0, SetupSteps} /\ (budget.attempts = 0 => settled = 0 \/ budget.completed = SetupSteps)
    BY RetainedFacts, SettlingDocument
  <1> HIDE DEF settled
  <1>4. CASE budget.attempts = 0
    <2>1. r.initial = None /\ r.selected_screening = None /\ r.confirmation = None
      BY <1>4, ScreeningsWritten
    <2>2. other = None /\ ~SameController(r)
      BY <2>1 DEF SameController
    <2>3. Known(r.initial) = 0 /\ Known(other) = 0 /\ Known(r.confirmation) = 0
          /\ Unknowns(r.initial) = 0 /\ Unknowns(other) = 0 /\ Unknowns(r.confirmation) = 0
      BY <2>1, <2>2 DEF Known, Unknowns
    <2>4. r.costs.known >= settled
      BY <1>1, <1>2, <1>3, <1>4
    <2> QED
      BY <1>1, <1>2, <1>3, <2>1, <2>2, <2>3, <2>4 DEF WitnessCosts, settled
  <1>5. CASE budget.attempts > 0 /\ selected = NoPair
    <2>1. /\ Begun /\ r.initial = LastPair /\ r.selected_screening = None /\ r.confirmation = None
          /\ before = SetupSteps
      BY <1>5, ScreeningsWritten
    <2>2. LastPair # None /\ LastPair.known = budget.completed - before /\ LastPair.unknown = budget.unknown
      BY <2>1, LastDocument
    <2>3. other = None /\ ~SameController(r)
      BY <2>1 DEF SameController
    <2>4. Known(r.initial) = budget.completed - SetupSteps /\ Known(other) = 0 /\ Known(r.confirmation) = 0
          /\ Unknowns(r.initial) = budget.unknown /\ Unknowns(other) = 0 /\ Unknowns(r.confirmation) = 0
      BY <2>1, <2>2, <2>3 DEF Known, Unknowns
    <2>5. settled <= SetupSteps
      BY <1>1, <1>3
    <2> QED
      BY <1>1, <1>2, <1>3, <1>5, <2>1, <2>2, <2>3, <2>4, <2>5 DEF WitnessCosts, settled
  <1>6. CASE selected # NoPair
    <2>1. /\ budget.attempts > 0 /\ selected \in Pairs /\ initial \in Pairs
          /\ Screened(selected) /\ Screened(initial) /\ initial.parameters = request.original
          /\ r.initial = CompletePair(initial) /\ r.selected_screening = CompletePair(selected)
          /\ r.selected = selected.parameters
      BY <1>6, ScreeningsWritten
    <2>2. /\ r.initial # None /\ r.initial.parameters = initial.parameters /\ r.initial.known = PairSteps /\ r.initial.unknown = 0
          /\ r.selected_screening # None /\ r.selected_screening.known = PairSteps /\ r.selected_screening.unknown = 0
      BY <2>1, ScreenedDocument
    <2>3. SameController(r) <=> selected.parameters = initial.parameters
      BY <2>1, <2>2 DEF SameController
    <2>4. SameController(r) <=> selected = initial
      BY <1>1, <1>6, <2>3, ScreeningsAgree
    <2>5. SameController(r) => r.selected_screening = r.initial
      BY <2>1, <2>4
    <2>6. /\ Known(r.initial) = PairSteps /\ Unknowns(r.initial) = 0 /\ Unknowns(other) = 0
          /\ Known(other) = (IF selected = initial THEN 0 ELSE PairSteps)
          /\ (other = None <=> selected = initial)
      BY <2>2, <2>4 DEF Known, Unknowns
    <2>7. /\ (IF role = "confirm" THEN before ELSE budget.completed) >=
                  SetupSteps + (IF selected = initial THEN PairSteps ELSE 2 * PairSteps)
          /\ selected # initial => budget.attempts >= 2
      BY <1>6 DEF RecordInv, RecordParts, Paid
    <2>8. settled <= SetupSteps /\ settled \in Nat
      BY <1>1, <1>3
    <2>9. r.costs.known >= settled + Known(r.initial) + Known(other) + Known(r.confirmation)
          /\ r.costs.unknown >= Unknowns(r.initial) + Unknowns(other) + Unknowns(r.confirmation)
      <3>1. CASE role = "confirm"
        <4>1. Known(r.confirmation) = budget.completed - before /\ Unknowns(r.confirmation) = budget.unknown
          BY <3>1, ScreeningsWritten, LastDocument DEF Known, Unknowns
        <4> HIDE DEF other
        <4> QED
          BY <1>1, <1>2, <2>6, <2>7, <2>8, <3>1, <4>1
      <3>2. CASE role # "confirm"
        <4>1. Known(r.confirmation) = 0 /\ Unknowns(r.confirmation) = 0
          BY <3>2, ScreeningsWritten DEF Known, Unknowns
        <4> HIDE DEF other
        <4> QED
          BY <1>1, <1>2, <2>6, <2>7, <2>8, <3>2, <4>1
      <3> QED
        BY <3>1, <3>2
    <2>10. r.costs.attempts >= (IF r.initial = None THEN 0 ELSE 1) + (IF other = None THEN 0 ELSE 1)
      BY <1>1, <1>2, <2>1, <2>2, <2>6, <2>7
    <2> QED
      BY <2>5, <2>9, <2>10 DEF WitnessCosts, settled
  <1> QED
    BY <1>1, <1>4, <1>5, <1>6

LEMMA NegativeWritten ==
  ASSUME RecordInv, Recorded, operation = "run", NEW s \in Retained, NEW cpu \in clock .. 2, NEW r,
         ~(result.exit_code \in {0, 10} /\ cpu > clock),
         r.status = result.status, r.costs = Costs(cpu), r.initialization = Initialization(s),
         r.initial = InitialScreening, r.confirmation = Confirmation
  PROVE  FiniteNegative(r)
  <1> SUFFICES ASSUME result.status = "NO_QUALIFIED_POLICY_FOUND"
               PROVE  /\ \/ r.initial # None /\ r.initial.complete
                         \/ r.initialization # None /\ r.initialization.class = "HARD_REJECTION"
                      /\ r.confirmation # None => r.confirmation.complete /\ ~r.confirmation.qualified
                      /\ FiniteCost(r.costs, Ceiling(r))
    BY DEF FiniteNegative
  <1>1. result.exit_code = 10 /\ ~result.qualified
    BY RecordedLimits DEF Abandoned, Concluded
  <1>2. budget.attempts \in Nat
    BY RecordedLimits, Numbers
  <1>3. \/ r.initial # None /\ r.initial.complete
        \/ r.initialization # None /\ r.initialization.class = "HARD_REJECTION"
    <2>1. CASE budget.attempts = 0
      <3>1. s = "GATE"
        BY <2>1, RetainedFacts
      <3>2. s # None /\ SettlingClass(s) = "HARD_REJECTION"
        BY <3>1, AbsenceAssumption DEF SettlingClass, Settlings
      <3> QED
        BY <3>1, <3>2, SettlingDocument, RetainedFacts
    <2>2. CASE budget.attempts > 0 /\ selected = NoPair
      <3>1. pair.class = "HARD_REJECTION"
        BY <1>1, <2>2 DEF RecordInv, RecordParts, Endings, Grounds
      <3> QED
        BY <2>2, <3>1, ScreeningsWritten, LastDocument
    <2>3. CASE selected # NoPair
      BY <2>3, ScreeningsWritten, ScreenedDocument
    <2> QED
      BY <1>2, <2>1, <2>2, <2>3
  <1>4. r.confirmation # None => r.confirmation.complete /\ ~r.confirmation.qualified
    <2>1. role = "confirm" => pair.class # "INCOMPLETE" /\ ~pair.qualified
      BY <1>1 DEF RecordInv, RecordParts, Grounds
    <2> QED
      BY <2>1, ScreeningsWritten, LastDocument
  <1>5. FiniteCost(r.costs, Ceiling(r))
    <2>1. r.confirmation = None <=> role # "confirm"
      BY ScreeningsWritten, LastDocument
    <2> QED
      BY <1>1, <2>1, FiniteCosts DEF Ceiling
  <1> QED
    BY <1>3, <1>4, <1>5

LEMMA SuccessWritten ==
  ASSUME RecordInv, Recorded, operation = "run", ~ScreeningContradicted, NEW s \in Retained, NEW cpu \in clock .. 2, NEW r,
         ~(result.exit_code \in {0, 10} /\ cpu > clock),
         r.status = result.status, r.qualified = result.qualified, r.costs = Costs(cpu), r.original = request.original,
         r.initialization = Initialization(s), r.members = RunMembers(s), r.reset = s,
         r.selected = (IF selected = NoPair THEN None ELSE selected.parameters),
         r.initial = InitialScreening, r.selected_screening = SelectedScreening, r.confirmation = Confirmation
  PROVE  SuccessfulRun(r)
  <1> SUFFICES ASSUME result.qualified
               PROVE  /\ r.members = AllMembers
                      /\ r.initialization # None /\ r.initialization.class = "COMPLETE"
                      /\ r.initialization.completed = SetupSteps
                      /\ r.initial # None /\ r.initial.class = "COMPLETE"
                      /\ QualifiedPair(r.selected_screening) /\ QualifiedPair(r.confirmation)
                      /\ r.selected = r.original <=> r.status = "ALREADY_QUALIFIED"
                      /\ r.initial.objective = 0 <=> r.selected = r.original
                      /\ r.reset = "ADMITTED"
                      /\ FiniteCost(r.costs, FullCap)
    BY DEF SuccessfulRun
  <1>1. /\ TypeInv /\ Ended /\ result.exit_code = 0
        /\ budget.unknown = 0 /\ pair.class = "COMPLETE" /\ pair.qualified
        /\ selected # NoPair /\ selected.objective = 0 /\ pair.parameters = selected.parameters
        /\ role = "confirm" /\ (selected.parameters = request.original <=> result.status = "ALREADY_QUALIFIED")
    BY RecordedLimits
       DEF RecordInv, RecordParts, FloorInv, VerdictInv, VerdictParts, QualifiedMeansConfirmed,
           Grounds
  <1>2. /\ budget.attempts > 0 /\ selected \in Pairs /\ initial \in Pairs
        /\ Screened(selected) /\ Screened(initial) /\ initial.parameters = request.original
        /\ r.initial = CompletePair(initial) /\ r.selected_screening = CompletePair(selected)
        /\ r.selected = selected.parameters /\ r.confirmation = LastPair /\ Begun
    BY <1>1, ScreeningsWritten
  <1>3. r.members = AllMembers /\ s = "ADMITTED"
    BY <1>1, MembersWritten
  <1>4. s # None /\ SettlingClass(s) = "COMPLETE"
    BY <1>3, AbsenceAssumption DEF SettlingClass, Settlings
  <1>5. r.initialization # None /\ r.initialization.class = "COMPLETE" /\ r.initialization.completed = SetupSteps
    BY <1>4, SettlingDocument, RetainedFacts
  <1>6. r.initial # None /\ r.initial.class = "COMPLETE" /\ r.initial.objective = initial.objective
    BY <1>2, ScreenedDocument
  <1>7. QualifiedPair(r.selected_screening)
    <2>1. selected.qualified
      BY <1>1, ScreeningsAgree
    <2> QED
      BY <1>1, <1>2, <2>1, ScreenedDocument DEF QualifiedPair
  <1>8. QualifiedPair(r.confirmation)
    <2>1. pair \in Pairs /\ Judged(pair)
      BY <1>1, <1>2 DEF TypeInv, TypeOK, RecordInv, RecordParts, Trail, Open
    <2>2. pair.objective = 0
      BY <1>1, <2>1, JudgedFacts
    <2> QED
      BY <1>1, <1>2, <2>2, LastDocument DEF QualifiedPair
  <1>9. r.initial.objective = 0 <=> r.selected = r.original
    <2>1. selected = initial \/ 0 < initial.objective
      BY <1>1 DEF RecordInv, RecordParts, Screens
    <2>2. selected = initial <=> selected.parameters = request.original
      BY <1>1, <1>2, ScreeningsAgree
    <2> QED
      BY <1>1, <1>2, <1>6, <2>1, <2>2
  <1>10. FiniteCost(r.costs, FullCap)
    BY <1>1, FiniteCosts
  <1>11. r.selected = r.original <=> r.status = "ALREADY_QUALIFIED"
    BY <1>1, <1>2
  <1> QED
    BY <1>3, <1>5, <1>6, <1>7, <1>8, <1>9, <1>10, <1>11


LEMMA RunRecordAdmitted ==
  ASSUME RecordInv, Recorded, operation = "run", ~ScreeningContradicted, NEW s \in Retained, NEW cpu \in clock .. 2,
         ~CeilingCrossed(RunRecord(s, cpu))
  PROVE  /\ Admitted(RunRecord(s, cpu))
         /\ RunRecord(s, cpu).selected # None => ReplayInputs(RunRecord(s, cpu))
  <1> DEFINE r == RunRecord(s, cpu)
  <1>1. /\ r.request = request /\ r.status = result.status /\ r.exit_code = result.exit_code
        /\ r.qualified = result.qualified /\ r.costs = Costs(cpu) /\ r.original = request.original
        /\ r.selected = (IF selected = NoPair THEN None ELSE selected.parameters)
        /\ r.initialization = Initialization(s) /\ r.initial = InitialScreening
        /\ r.selected_screening = SelectedScreening /\ r.confirmation = Confirmation
        /\ r.confirmation_complete = (confirmation # NoPair /\ confirmation.class # "INCOMPLETE")
        /\ r.members = RunMembers(s) /\ r.reset = s
    BY RunFields
  <1>2. ~CeilingCrossed(r)
    OBVIOUS
  <1> HIDE DEF r
  <1>3. ~(result.exit_code \in {0, 10} /\ cpu > clock)
    <2>1. Costs(cpu).cpu = cpu
      BY DEF Costs
    <2> QED
      BY <1>1, <1>2, <2>1 DEF CeilingCrossed
  <1>4. OutcomeAdmitted(r) /\ RequestAdmitted(r) /\ CostsAdmitted(r)
    BY <1>1, CommonAdmitted
  <1>5. VectorAdmitted(r.original)
    BY <1>1, RecordedLimits DEF VectorAdmitted, TypeInv, TypeOK, Request
  <1>6. InitializationAdmitted(r.initialization)
    BY <1>1, RetainedFacts, SettlingDocument
  <1>7. PairAdmitted(r.initial) /\ PairAdmitted(r.selected_screening) /\ PairAdmitted(r.confirmation)
    BY <1>1, PairsAdmitted
  <1>8. MembersAdmitted(r) /\ VectorAdmitted(r.selected)
    BY <1>1, MembersWritten
  <1>9. Bindings(r)
    BY <1>1, BindingsWritten
  <1>10. WitnessCosts(r)
    BY <1>1, WitnessesPaid
  <1>11. FiniteNegative(r)
    BY <1>1, <1>3, NegativeWritten
  <1>12. SuccessfulRun(r)
    BY <1>1, <1>3, SuccessWritten
  <1>13. Admitted(r)
    BY <1>4, <1>5, <1>6, <1>7, <1>8, <1>9, <1>10, <1>11, <1>12 DEF Admitted, RunAdmitted
  <1>14. r.selected # None => ReplayInputs(r)
    <2>1. SUFFICES ASSUME r.selected # None PROVE ReplayInputs(r)
      OBVIOUS
    <2>2. selected # NoPair
      BY <1>1, <2>1
    <2>3. r.members = AllMembers /\ r.selected \in Box /\ s = "ADMITTED"
      BY <1>1, <2>2, MembersWritten
    <2>4. r.selected_screening # None
      BY <1>1, <2>2, ScreeningsWritten, ScreenedDocument
    <2>5. r.reset # "NONFINITE_STATE"
      BY <1>1, <2>3
    <2> QED
      BY <1>1, <1>9, <2>3, <2>4, <2>5 DEF ReplayInputs, Bindings
  <1> QED
    BY <1>13, <1>14 DEF r

LEMMA ReplayRecordAdmitted ==
  ASSUME RecordInv, Recorded, operation = "replay", NEW cpu \in clock .. 2, ~CeilingCrossed(ReplayRecord(cpu))
  PROVE  Admitted(ReplayRecord(cpu))
  <1> DEFINE r == ReplayRecord(cpu)
  <1>1. /\ r.request = request /\ r.status = result.status /\ r.exit_code = result.exit_code
        /\ r.qualified = result.qualified /\ r.costs = Costs(cpu)
        /\ r.selected = request.original /\ r.measurement = ReplayMeasurement
    BY ReplayFields
  <1>2. ~CeilingCrossed(r)
    OBVIOUS
  <1> HIDE DEF r
  <1>3. /\ Costs(cpu).cpu = cpu /\ Costs(cpu).known = budget.completed /\ Costs(cpu).unknown = budget.unknown
    BY DEF Costs
  <1>4. ~(result.exit_code \in {0, 10} /\ cpu > clock)
    BY <1>1, <1>2, <1>3 DEF CeilingCrossed
  <1>5. OutcomeAdmitted(r) /\ RequestAdmitted(r) /\ CostsAdmitted(r)
    BY <1>1, CommonAdmitted
  <1>6. VectorAdmitted(r.selected)
    BY <1>1, RecordedLimits DEF VectorAdmitted, TypeInv, TypeOK, Request
  <1>7. role = "replay" => Begun /\ ReplayMeasurement = LastPair /\ pair.parameters = request.original /\ before = SetupSteps
    BY DEF Begun, ReplayMeasurement, RecordInv, RecordParts, Screens
  <1>8. role # "replay" => ReplayMeasurement = None /\ role = "screen"
    <2>1. role \in {"screen", "confirm", "replay"} /\ role # "confirm"
      BY RecordedLimits DEF TypeInv, TypeOK, RecordInv, RecordParts, Screens
    <2> QED
      BY <2>1 DEF ReplayMeasurement
  <1>9. PairAdmitted(r.measurement)
    <2>1. PairAdmitted(None)
      BY DEF PairAdmitted
    <2> QED
      BY <1>1, <1>7, <1>8, <2>1, LastDocument
  <1>10. r.measurement # None =>
           /\ r.measurement.parameters = r.selected
           /\ r.costs.known = SetupSteps + r.measurement.known
           /\ r.costs.unknown = r.measurement.unknown
    BY <1>1, <1>3, <1>7, <1>8, LastDocument, RecordedLimits, Numbers, StepsAssumption
  <1>11. r.status = "NOT_QUALIFIED" =>
           /\ r.measurement # None /\ r.measurement.complete /\ ~r.measurement.qualified
           /\ FiniteCost(r.costs, FullCap)
    <2>1. SUFFICES ASSUME result.status = "NOT_QUALIFIED"
                   PROVE  /\ r.measurement # None /\ r.measurement.complete /\ ~r.measurement.qualified
                          /\ FiniteCost(r.costs, FullCap)
      BY <1>1
    <2>2. result.exit_code = 10
      BY <2>1, RecordedLimits DEF Abandoned, Concluded
    <2>3. role # "screen" /\ pair.class # "INCOMPLETE" /\ ~pair.qualified
      BY <2>2 DEF RecordInv, RecordParts, Grounds
    <2> QED
      BY <1>1, <1>4, <1>7, <1>8, <2>2, <2>3, LastDocument, FiniteCosts
  <1>12. r.qualified => QualifiedPair(r.measurement) /\ FiniteCost(r.costs, FullCap)
    <2>1. SUFFICES ASSUME result.qualified PROVE QualifiedPair(r.measurement) /\ FiniteCost(r.costs, FullCap)
      BY <1>1
    <2>2. /\ TypeInv /\ result.exit_code = 0 /\ budget.unknown = 0 /\ pair.class = "COMPLETE" /\ pair.qualified /\ role = "replay"
      BY <2>1, RecordedLimits
         DEF RecordInv, RecordParts, FloorInv, VerdictInv, VerdictParts, QualifiedMeansConfirmed,
             Grounds
    <2>3. pair \in Pairs /\ Judged(pair)
      BY <1>7, <2>2 DEF TypeInv, TypeOK, RecordInv, RecordParts, Trail, Open
    <2>4. pair.objective = 0
      BY <2>2, <2>3, JudgedFacts
    <2> QED
      BY <1>1, <1>4, <1>7, <2>2, <2>4, LastDocument, FiniteCosts DEF QualifiedPair
  <1>13. ReplayAdmitted(r)
    BY <1>6, <1>9, <1>10, <1>11, <1>12 DEF ReplayAdmitted
  <1> QED
    BY <1>5, <1>13 DEF Admitted, r

\* However an invocation ends, what is written of it passes the admission of _codec.py that reads it
\* back, for every dimension, step count, budget and landscape: no result is lost to its own codec,
\* the two disagreements apart that RecordIsAdmitted names.
THEOREM RecordsAreAdmitted == Spec => []RecordIsAdmitted
  <1>1. RecordInv => RecordIsAdmitted
    <2>1. SUFFICES ASSUME RecordInv, Recorded, ~ScreeningContradicted, NEW r \in Records, ~CeilingCrossed(r)
                   PROVE  Admitted(r) /\ (operation = "run" /\ r.selected # None => ReplayInputs(r))
      BY DEF RecordIsAdmitted
    <2>2. operation \in {"run", "replay"}
      BY <2>1, RecordedLimits
    <2>3. CASE operation = "run"
      <3>1. PICK s \in Retained, cpu \in clock .. 2 : r = RunRecord(s, cpu)
        BY <2>1, <2>3 DEF Records
      <3> QED
        BY <2>1, <2>3, <3>1, RunRecordAdmitted
    <2>4. CASE operation = "replay"
      <3>1. PICK cpu \in clock .. 2 : r = ReplayRecord(cpu)
        BY <2>1, <2>4 DEF Records
      <3> QED
        BY <2>1, <2>4, <3>1, ReplayRecordAdmitted
    <2> QED
      BY <2>2, <2>3, <2>4
  <1> QED
    BY <1>1, RecordInvariant, PTL

\* No finite verdict is reported late: whenever the clock ticks between the last check of an
\* evaluation and the end, exit 0 or 10 is said below the cap, and below the search ceiling unless
\* a confirmation or a replay decided it.
THEOREM VerdictsAreInTime == Spec => []VerdictInTime
  <1>1. ASSUME RecordInv, pc = "done", result.exit_code \in {0, 10}
        PROVE  clock = 0 \/ (clock = 1 /\ role \in {"confirm", "replay"})
    <2>1. CheckPasses /\ clock \in 0 .. 2
      BY <1>1 DEF RecordInv, RecordParts, Grounds, FloorInv, VerdictInv, StepInv, TypeInv, TypeOK
    <2>2. clock < 2 /\ (budget.search => clock < 1)
      BY <2>1 DEF CheckPasses, CheckRaises, CpuReached
    <2>3. role \in {"screen", "confirm", "replay"} /\ operation \in {"run", "replay"}
      BY <1>1 DEF RecordInv, FloorInv, VerdictInv, StepInv, TypeInv, TypeOK
    <2>4. CASE operation = "run"
      <3>1. role # "confirm" => budget.search
        BY <1>1, <2>4 DEF RecordInv, RecordParts, Grounds, Ended
      <3> QED
        BY <2>1, <2>2, <3>1
    <2>5. CASE operation = "replay"
      <3>1. result.exit_code = 10 \/ result.qualified
        BY <1>1 DEF RecordInv, RecordParts, Endings, Abandoned, Concluded
      <3>2. role # "screen"
        BY <1>1, <2>5, <3>1 DEF RecordInv, RecordParts, Grounds
      <3> QED
        BY <2>1, <2>2, <2>3, <3>2
    <2> QED
      BY <2>3, <2>4, <2>5
  <1>2. RecordInv => VerdictInTime
    BY <1>1 DEF VerdictInTime
  <1> QED
    BY <1>2, RecordInvariant, PTL
=============================================================================
