------------------------ MODULE QualificationProofs ------------------------
(***************************************************************************)
(* Theorems of WorkloadQualification for every configuration, any number   *)
(* of workloads, groups and variants, of edits of the sources and of acts  *)
(* of other processes: what the loader accepts is implied by the           *)
(* comparisons it links, the records of a run hang together, a witness     *)
(* explains the answer, and the loader accepts what a run published.       *)
(***************************************************************************)
EXTENDS WorkloadQualification, FiniteSetTheorems, WellFoundedInduction, TLAPS

-----------------------------------------------------------------------------
(* Least numbers, and induction up to a bound                              *)

\* A set of numbers that is not empty has a least one.
LEMMA LeastNumber ==
  ASSUME NEW S \in SUBSET Nat, S # {}
  PROVE  \E x \in S : \A y \in S : x <= y
<1>1. PICK x \in S : \A y \in S : ~(<<y, x>> \in OpToRel(<, Nat))
  BY WFMin, NatLessThanWellFounded
<1>2. \A y \in S : ~(y < x)
  BY <1>1 DEF OpToRel
<1>3. QED
  BY <1>2

\* Induction up to a bound, with the set of the numbers that are good in place of a predicate.
LEMMA UpTo ==
  ASSUME NEW n \in Nat, NEW G, 0 \in G, \A k \in 1..n : k - 1 \in G => k \in G
  PROVE  \A k \in 0..n : k \in G
<1> DEFINE Missing == {k \in 0..n : k \notin G}
<1>1. SUFFICES ASSUME Missing # {} PROVE FALSE
  OBVIOUS
<1>2. PICK k \in Missing : \A m \in Missing : k <= m
  <2>1. Missing \in SUBSET Nat
    OBVIOUS
  <2> HIDE DEF Missing
  <2>2. QED
    BY <1>1, <2>1, LeastNumber
<1>3. k # 0 /\ k \in 1..n /\ k - 1 \in 0..n /\ k - 1 < k
  BY <1>2
<1>4. k - 1 \in G
  BY <1>2, <1>3
<1>5. QED
  BY <1>2, <1>3, <1>4

\* What Append does to the members of a sequence.
LEMMA AppendSet ==
  ASSUME NEW S, NEW s \in Seq(S), NEW e \in S
  PROVE  ToSet(Append(s, e)) = ToSet(s) \cup {e}
<1> DEFINE t == Append(s, e)
<1>1. /\ DOMAIN s = 1..Len(s) /\ DOMAIN t = 1..(Len(s) + 1) /\ Len(s) \in Nat /\ t[Len(s) + 1] = e
      /\ \A i \in 1..Len(s) : t[i] = s[i]
  OBVIOUS
<1> HIDE DEF t
<1>2. ASSUME NEW x \in ToSet(t) PROVE x \in ToSet(s) \cup {e}
  <2>1. PICK i \in 1..(Len(s) + 1) : x = t[i]
    BY <1>1 DEF ToSet
  <2>2. i \in 1..Len(s) \/ i = Len(s) + 1
    BY <1>1
  <2>3. QED
    BY <1>1, <2>1, <2>2 DEF ToSet
<1>3. ASSUME NEW x \in ToSet(s) PROVE x \in ToSet(t)
  <2>1. PICK i \in 1..Len(s) : x = s[i]
    BY <1>1 DEF ToSet
  <2>2. i \in DOMAIN t /\ x = t[i]
    BY <1>1, <2>1
  <2>3. QED
    BY <2>2 DEF ToSet
<1>4. e \in ToSet(t)
  <2>1. Len(s) + 1 \in DOMAIN t
    BY <1>1
  <2>2. QED
    BY <1>1, <2>1 DEF ToSet
<1>5. QED
  BY <1>2, <1>3, <1>4 DEF t

-----------------------------------------------------------------------------
(* The members of a sequence at some of its positions                      *)

Kept(s, positions, f, i) ==
  IF i = 0 THEN <<>> ELSE IF i \in positions THEN Append(f[i - 1], s[i]) ELSE f[i - 1]
Keeping(s, positions, n, f) == f = [i \in 0..n |-> Kept(s, positions, f, i)]

\* One step of the fold that keeps the members at the positions.
LEMMA KeptIs ==
  ASSUME NEW n \in Nat, NEW s, NEW positions, NEW f, Keeping(s, positions, n, f), NEW i \in 1..n
  PROVE  /\ i \in positions => f[i] = Append(f[i - 1], s[i])
         /\ i \notin positions => f[i] = f[i - 1]
<1>1. f[i] = Kept(s, positions, f, i) /\ i # 0
  BY DEF Keeping
<1>2. QED
  BY <1>1, Zenon DEF Kept

\* The fold exists for every sequence.
LEMMA KeepingExists ==
  ASSUME NEW S, NEW s \in Seq(S), NEW positions
  PROVE  \E f : Keeping(s, positions, Len(s), f)
<1> DEFINE G == {n \in 0..Len(s) : \E f : Keeping(s, positions, n, f)}
<1>1. 0 \in G
  <2>1. Keeping(s, positions, 0, [i \in 0..0 |-> <<>>])
    BY DEF Keeping, Kept
  <2>2. QED
    BY <2>1
<1>2. ASSUME NEW n \in 1..Len(s), n - 1 \in G
      PROVE  n \in G
  <2>1. PICK f : Keeping(s, positions, n - 1, f)
    BY <1>2
  <2> DEFINE g == [i \in 0..n |-> IF i = n THEN Kept(s, positions, f, i) ELSE f[i]]
  <2>2. ASSUME NEW i \in 0..n
        PROVE  g[i] = Kept(s, positions, g, i)
    <3>1. g[i] = Kept(s, positions, f, i)
      BY <2>1 DEF Keeping
    <3>2. i # 0 => g[i - 1] = f[i - 1]
      OBVIOUS
    <3> HIDE DEF g
    <3>3. Kept(s, positions, f, i) = Kept(s, positions, g, i)
      BY <3>2, Zenon DEF Kept
    <3>4. QED
      BY <3>1, <3>3
  <2>3. Keeping(s, positions, n, g)
    BY <2>2 DEF Keeping
  <2>4. QED
    BY <2>3
<1>3. Len(s) \in Nat
  OBVIOUS
<1> HIDE DEF G
<1>4. \A n \in 0..Len(s) : n \in G
  BY <1>1, <1>2, <1>3, UpTo
<1>5. QED
  BY <1>3, <1>4 DEF G

\* Those is the last value of that fold.
LEMMA ThoseAreKept ==
  ASSUME NEW S, NEW s \in Seq(S), NEW positions
  PROVE  \E f : Keeping(s, positions, Len(s), f) /\ Those(s, positions) = f[Len(s)]
<1>1. Those(s, positions) = (CHOOSE f : Keeping(s, positions, Len(s), f))[Len(s)]
  BY DEF Those, Keeping, Kept
<1>2. Keeping(s, positions, Len(s), CHOOSE f : Keeping(s, positions, Len(s), f))
  BY KeepingExists, Zenon
<1>3. QED
  BY <1>1, <1>2

\* What is selected from a sequence is what is at the positions, once for each of them.
LEMMA ThoseMembers ==
  ASSUME NEW S, NEW s \in Seq(S), NEW positions, \A i \in positions : i \in 1..Len(s)
  PROVE  /\ Those(s, positions) \in Seq(S)
         /\ ToSet(Those(s, positions)) = {s[i] : i \in positions}
         /\ Len(Those(s, positions)) = Cardinality(positions)
<1>1. PICK f : Keeping(s, positions, Len(s), f) /\ Those(s, positions) = f[Len(s)]
  BY ThoseAreKept
<1> DEFINE Below(n) == {i \in positions : i <= n}
           G == {n \in 0..Len(s) : /\ f[n] \in Seq(S)
                                   /\ ToSet(f[n]) = {s[i] : i \in Below(n)}
                                   /\ IsFiniteSet(Below(n)) /\ Len(f[n]) = Cardinality(Below(n))}
<1>2. 0 \in G
  <2>1. f[0] = <<>> /\ Below(0) = {}
    BY <1>1 DEF Keeping, Kept
  <2>2. ToSet(f[0]) = {} /\ Len(f[0]) = 0 /\ f[0] \in Seq(S)
    BY <2>1 DEF ToSet
  <2>3. {s[i] : i \in Below(0)} = {}
    BY <2>1
  <2>4. IsFiniteSet(Below(0)) /\ Cardinality(Below(0)) = 0
    BY <2>1, FS_EmptySet
  <2>5. QED
    BY <2>2, <2>3, <2>4
<1>3. ASSUME NEW n \in 1..Len(s), n - 1 \in G
      PROVE  n \in G
  <2>1. f[n - 1] \in Seq(S) /\ s[n] \in S
    BY <1>3
  <2>2. CASE n \in positions
    <3>1. f[n] = Append(f[n - 1], s[n])
      BY <1>1, <2>2, KeptIs
    <3>2. Below(n) = Below(n - 1) \cup {n} /\ n \notin Below(n - 1)
      <4>1. \A i \in positions : i <= n <=> i <= n - 1 \/ i = n
        OBVIOUS
      <4>2. n \notin Below(n - 1)
        OBVIOUS
      <4>3. QED
        BY <2>2, <4>1, <4>2
    <3>3. ToSet(f[n]) = ToSet(f[n - 1]) \cup {s[n]}
      BY <2>1, <3>1, AppendSet
    <3>4. IsFiniteSet(Below(n)) /\ Cardinality(Below(n)) = Cardinality(Below(n - 1)) + 1
      <4>1. IsFiniteSet(Below(n - 1))
        BY <1>3
      <4> HIDE DEF Below
      <4>2. QED
        BY <3>2, <4>1, FS_AddElement
    <3>5. f[n] \in Seq(S) /\ Len(f[n]) = Len(f[n - 1]) + 1
      BY <2>1, <3>1
    <3>6. QED
      BY <1>3, <3>2, <3>3, <3>4, <3>5
  <2>3. CASE n \notin positions
    <3>1. f[n] = f[n - 1]
      BY <1>1, <2>3, KeptIs
    <3>2. Below(n) = Below(n - 1)
      BY <2>3
    <3>3. f[n] \in Seq(S) /\ ToSet(f[n]) = {s[i] : i \in Below(n)}
      BY <1>3, <3>1, <3>2
    <3>4. IsFiniteSet(Below(n)) /\ Len(f[n]) = Cardinality(Below(n))
      BY <1>3, <3>1, <3>2
    <3>5. QED
      BY <3>3, <3>4
  <2>4. QED
    BY <2>2, <2>3
<1>4. Below(Len(s)) = positions
  OBVIOUS
<1>5. Len(s) \in G
  <2>1. Len(s) \in Nat /\ Len(s) \in 0..Len(s)
    OBVIOUS
  <2> HIDE DEF G
  <2>2. QED
    BY <1>2, <1>3, <2>1, UpTo
<1>6. QED
  BY <1>1, <1>4, <1>5

-----------------------------------------------------------------------------
(* Sequences strung together                                               *)

Strung(ss, f, i) == IF i = 1 THEN ss[i] ELSE f[i - 1] \o ss[i]
Stringing(ss, n, f) == f = [i \in 1..n |-> Strung(ss, f, i)]

\* One step of stringing sequences together.
LEMMA StrungIs ==
  ASSUME NEW n \in Nat, NEW ss, NEW f, Stringing(ss, n, f), NEW i \in 1..n
  PROVE  f[i] = IF i = 1 THEN ss[i] ELSE f[i - 1] \o ss[i]
<1>1. f[i] = Strung(ss, f, i)
  BY DEF Stringing
<1>2. QED
  BY <1>1, Zenon DEF Strung

\* The sequences of every list can be strung together.
LEMMA StringingExists ==
  ASSUME NEW n \in Nat, NEW ss
  PROVE  \E f : Stringing(ss, n, f)
<1> DEFINE G == {k \in 0..n : \E f : Stringing(ss, k, f)}
<1>1. 0 \in G
  <2>1. Stringing(ss, 0, [i \in 1..0 |-> 0])
    BY DEF Stringing
  <2>2. QED
    BY <2>1
<1>2. ASSUME NEW k \in 1..n, k - 1 \in G
      PROVE  k \in G
  <2>1. PICK f : Stringing(ss, k - 1, f)
    BY <1>2
  <2> DEFINE g == [i \in 1..k |-> IF i = k THEN Strung(ss, f, i) ELSE f[i]]
  <2>2. ASSUME NEW i \in 1..k
        PROVE  g[i] = Strung(ss, g, i)
    <3>1. g[i] = Strung(ss, f, i)
      BY <2>1 DEF Stringing
    <3>2. i # 1 => g[i - 1] = f[i - 1]
      OBVIOUS
    <3> HIDE DEF g
    <3>3. Strung(ss, f, i) = Strung(ss, g, i)
      BY <3>2, Zenon DEF Strung
    <3>4. QED
      BY <3>1, <3>3
  <2>3. Stringing(ss, k, g)
    BY <2>2 DEF Stringing
  <2>4. QED
    BY <2>3
<1> HIDE DEF G
<1>3. \A k \in 0..n : k \in G
  BY <1>1, <1>2, UpTo
<1>4. QED
  BY <1>3 DEF G

\* FlattenSeq is the last value of that stringing.
LEMMA FlattenIsStrung ==
  ASSUME NEW S, NEW ss \in Seq(Seq(S)), Len(ss) # 0
  PROVE  \E f : Stringing(ss, Len(ss), f) /\ FlattenSeq(ss) = f[Len(ss)]
<1>1. FlattenSeq(ss) = (CHOOSE f : Stringing(ss, Len(ss), f))[Len(ss)]
  BY Zenon DEF FlattenSeq, Stringing, Strung
<1>2. Stringing(ss, Len(ss), CHOOSE f : Stringing(ss, Len(ss), f))
  <2>1. Len(ss) \in Nat
    OBVIOUS
  <2>2. \E f : Stringing(ss, Len(ss), f)
    BY <2>1, StringingExists
  <2>3. QED
    BY <2>2, Zenon
<1>3. QED
  BY <1>1, <1>2

\* The members of a concatenation, and when they are all different.
LEMMA ConcatSet ==
  ASSUME NEW S, NEW s \in Seq(S), NEW t \in Seq(S)
  PROVE  /\ s \o t \in Seq(S) /\ Len(s \o t) = Len(s) + Len(t)
         /\ ToSet(s \o t) = ToSet(s) \cup ToSet(t)
         /\ (IsInjective(s) /\ IsInjective(t) /\ ToSet(s) \cap ToSet(t) = {}) => IsInjective(s \o t)
<1> DEFINE u == s \o t
<1>1. /\ u \in Seq(S) /\ Len(u) = Len(s) + Len(t) /\ Len(s) \in Nat /\ Len(t) \in Nat
      /\ DOMAIN s = 1..Len(s) /\ DOMAIN t = 1..Len(t) /\ DOMAIN u = 1..(Len(s) + Len(t))
      /\ \A i \in 1..Len(s) : u[i] = s[i]
      /\ \A i \in 1..Len(t) : u[Len(s) + i] = t[i]
  OBVIOUS
<1> HIDE DEF u
<1>2. ASSUME NEW i \in DOMAIN u
      PROVE  (i \in DOMAIN s /\ u[i] = s[i]) \/ (i - Len(s) \in DOMAIN t /\ u[i] = t[i - Len(s)])
  <2>1. CASE i <= Len(s)
    BY <1>1, <2>1
  <2>2. CASE i > Len(s)
    <3>1. i - Len(s) \in 1..Len(t) /\ Len(s) + (i - Len(s)) = i
      BY <1>1, <2>2
    <3>2. QED
      BY <1>1, <3>1
  <2>3. QED
    BY <1>1, <2>1, <2>2
<1>3. ASSUME NEW x \in ToSet(u) PROVE x \in ToSet(s) \cup ToSet(t)
  <2>1. PICK i \in DOMAIN u : x = u[i]
    BY DEF ToSet
  <2>2. QED
    BY <1>2, <2>1 DEF ToSet
<1>4. ASSUME NEW x \in ToSet(s) PROVE x \in ToSet(u)
  <2>1. PICK i \in 1..Len(s) : x = s[i]
    BY <1>1 DEF ToSet
  <2>2. i \in DOMAIN u /\ x = u[i]
    BY <1>1, <2>1
  <2>3. QED
    BY <2>2 DEF ToSet
<1>5. ASSUME NEW x \in ToSet(t) PROVE x \in ToSet(u)
  <2>1. PICK i \in 1..Len(t) : x = t[i]
    BY <1>1 DEF ToSet
  <2>2. Len(s) + i \in DOMAIN u /\ x = u[Len(s) + i]
    BY <1>1, <2>1
  <2>3. QED
    BY <2>2 DEF ToSet
<1>6. ASSUME IsInjective(s), IsInjective(t), ToSet(s) \cap ToSet(t) = {},
             NEW a \in DOMAIN u, NEW b \in DOMAIN u, u[a] = u[b]
      PROVE  a = b
  <2>1. CASE a \in DOMAIN s /\ u[a] = s[a] /\ b \in DOMAIN s /\ u[b] = s[b]
    BY <1>6, <2>1 DEF IsInjective
  <2>2. CASE a - Len(s) \in DOMAIN t /\ u[a] = t[a - Len(s)] /\ b - Len(s) \in DOMAIN t /\ u[b] = t[b - Len(s)]
    <3>1. a - Len(s) = b - Len(s)
      BY <1>6, <2>2 DEF IsInjective
    <3>2. a \in Nat /\ b \in Nat /\ Len(s) \in Nat
      BY <1>1
    <3>3. QED
      BY <3>1, <3>2
  <2>3. CASE \/ a \in DOMAIN s /\ u[a] = s[a] /\ b - Len(s) \in DOMAIN t /\ u[b] = t[b - Len(s)]
             \/ b \in DOMAIN s /\ u[b] = s[b] /\ a - Len(s) \in DOMAIN t /\ u[a] = t[a - Len(s)]
    <3>1. u[a] \in ToSet(s) \cap ToSet(t)
      BY <1>6, <2>3 DEF ToSet
    <3>2. QED
      BY <1>6, <3>1
  <2>4. QED
    BY <1>2, <2>1, <2>2, <2>3
<1>7. (IsInjective(s) /\ IsInjective(t) /\ ToSet(s) \cap ToSet(t) = {}) => IsInjective(u)
  BY <1>6 DEF IsInjective
<1>8. ToSet(u) = ToSet(s) \cup ToSet(t)
  BY <1>3, <1>4, <1>5
<1>9. QED
  BY <1>1, <1>7, <1>8 DEF u

\* Sequences strung together have the members of all of them, each once if they share none.
LEMMA FlattenMembers ==
  ASSUME NEW S, NEW ss \in Seq(Seq(S))
  PROVE  /\ FlattenSeq(ss) \in Seq(S)
         /\ ToSet(FlattenSeq(ss)) = UNION {ToSet(ss[i]) : i \in 1..Len(ss)}
         /\ ( /\ \A i \in 1..Len(ss) : IsInjective(ss[i])
              /\ \A i, j \in 1..Len(ss) : i # j => ToSet(ss[i]) \cap ToSet(ss[j]) = {} )
            => IsInjective(FlattenSeq(ss))
<1>0. Len(ss) \in Nat /\ \A i \in 1..Len(ss) : ss[i] \in Seq(S)
  OBVIOUS
<1>1. CASE Len(ss) = 0
  <2>1. ss = <<>> /\ FlattenSeq(ss) = <<>>
    BY <1>1 DEF FlattenSeq
  <2>2. 1..Len(ss) = {} /\ ToSet(<<>>) = {} /\ IsInjective(<<>>) /\ <<>> \in Seq(S)
    BY <1>1 DEF ToSet, IsInjective
  <2>3. UNION {ToSet(ss[i]) : i \in 1..Len(ss)} = {}
    BY <2>2
  <2>4. QED
    BY <2>1, <2>2, <2>3, Zenon
<1>2. CASE Len(ss) # 0
  <2> DEFINE Apart == /\ \A i \in 1..Len(ss) : IsInjective(ss[i])
                      /\ \A i, j \in 1..Len(ss) : i # j => ToSet(ss[i]) \cap ToSet(ss[j]) = {}
             All(k) == UNION {ToSet(ss[i]) : i \in 1..k}
  <2>1. PICK f : Stringing(ss, Len(ss), f) /\ FlattenSeq(ss) = f[Len(ss)]
    BY <1>2, FlattenIsStrung
  <2> DEFINE G == {k \in 0..Len(ss) : k = 0 \/ /\ f[k] \in Seq(S)
                                               /\ ToSet(f[k]) = All(k)
                                               /\ Apart => IsInjective(f[k])}
  <2>2. 0 \in G
    OBVIOUS
  <2>3. ASSUME NEW k \in 1..Len(ss), k - 1 \in G
        PROVE  k \in G
    <3>1. ss[k] \in Seq(S)
      BY <1>0
    <3>2. CASE k = 1
      <4>1. f[k] = ss[k]
        BY <1>0, <2>1, <3>2, StrungIs
      <4>2. All(k) = ToSet(ss[k])
        BY <3>2
      <4>3. Apart => IsInjective(ss[k])
        OBVIOUS
      <4> HIDE DEF All, Apart
      <4>4. QED
        BY <3>1, <4>1, <4>2, <4>3
    <3>3. CASE k # 1
      <4>1. f[k] = f[k - 1] \o ss[k]
        <5>1. f[k] = Strung(ss, f, k)
          BY <1>0, <2>1 DEF Stringing
        <5>2. QED
          BY <3>3, <5>1, Zenon DEF Strung
      <4>2. f[k - 1] \in Seq(S) /\ ToSet(f[k - 1]) = All(k - 1) /\ (Apart => IsInjective(f[k - 1]))
        <5> HIDE DEF All, Apart
        <5>1. QED
          BY <2>3, <3>3
      <4>3. All(k) = All(k - 1) \cup ToSet(ss[k])
        <5>1. 1..k = (1..(k - 1)) \cup {k}
          OBVIOUS
        <5>2. QED
          BY <5>1
      <4>4. Apart => IsInjective(ss[k]) /\ All(k - 1) \cap ToSet(ss[k]) = {}
        <5>1. \A i \in 1..(k - 1) : i \in 1..Len(ss) /\ i # k
          OBVIOUS
        <5>2. Apart => \A i \in 1..(k - 1) : ToSet(ss[i]) \cap ToSet(ss[k]) = {}
          BY <5>1
        <5>3. Apart => All(k - 1) \cap ToSet(ss[k]) = {}
          BY <5>2
        <5>4. QED
          BY <5>3
      <4> HIDE DEF All, Apart
      <4>5. /\ f[k - 1] \o ss[k] \in Seq(S)
            /\ ToSet(f[k - 1] \o ss[k]) = ToSet(f[k - 1]) \cup ToSet(ss[k])
            /\ (IsInjective(f[k - 1]) /\ IsInjective(ss[k]) /\ ToSet(f[k - 1]) \cap ToSet(ss[k]) = {})
                 => IsInjective(f[k - 1] \o ss[k])
        BY <3>1, <4>2, ConcatSet
      <4>6. f[k] \in Seq(S) /\ ToSet(f[k]) = All(k)
        BY <4>1, <4>2, <4>3, <4>5
      <4>7. Apart => IsInjective(f[k])
        BY <4>1, <4>2, <4>4, <4>5
      <4>8. QED
        BY <4>6, <4>7
    <3>4. QED
      BY <3>2, <3>3
  <2>4. Len(ss) \in G
    <3>1. Len(ss) \in 0..Len(ss)
      BY <1>0
    <3> HIDE DEF G
    <3>2. QED
      BY <1>0, <2>2, <2>3, <3>1, UpTo
  <2>5. f[Len(ss)] \in Seq(S) /\ ToSet(f[Len(ss)]) = All(Len(ss)) /\ (Apart => IsInjective(f[Len(ss)]))
    <3> HIDE DEF All, Apart
    <3>1. QED
      BY <1>2, <2>4
  <2>6. QED
    BY <2>1, <2>5, Zenon
<1>3. QED
  BY <1>1, <1>2

-----------------------------------------------------------------------------
(* A finite set in order                                                   *)

Earlier(set, before, x) == {y \in set : <<y, x>> \in before}
Rank(set, before, x) == Cardinality(Earlier(set, before, x))
StrictOrder(set, before) ==
  /\ \A x \in set : <<x, x>> \notin before
  /\ \A x, y, z \in set : <<x, y>> \in before /\ <<y, z>> \in before => <<x, z>> \in before
Total(set, before) == \A x, y \in set : x = y \/ <<x, y>> \in before \/ <<y, x>> \in before

\* Ordered by the rank of each member.
LEMMA OrderedIs ==
  ASSUME NEW S, NEW R
  PROVE  Ordered(S, R) = [i \in 1..Cardinality(S) |-> CHOOSE x \in S : Rank(S, R, x) = i - 1]
  BY DEF Ordered, Rank, Earlier

\* The rank of a member of a finite set grows along a strict order.
LEMMA RankGrows ==
  ASSUME NEW S, IsFiniteSet(S), NEW R, StrictOrder(S, R), NEW x \in S, NEW y \in S
  PROVE  /\ Rank(S, R, x) \in 0..(Cardinality(S) - 1)
         /\ <<x, y>> \in R => Rank(S, R, x) < Rank(S, R, y)
<1>1. /\ Earlier(S, R, x) \in SUBSET S /\ Earlier(S, R, y) \in SUBSET S /\ x \notin Earlier(S, R, x)
      /\ <<x, y>> \in R => x \in Earlier(S, R, y) /\ Earlier(S, R, x) \in SUBSET Earlier(S, R, y)
  BY DEF Earlier, StrictOrder
<1>2. /\ IsFiniteSet(Earlier(S, R, x)) /\ IsFiniteSet(Earlier(S, R, y))
      /\ Cardinality(Earlier(S, R, x)) \in Nat /\ Cardinality(Earlier(S, R, y)) \in Nat
      /\ Cardinality(S) \in Nat
  BY <1>1, FS_Subset, FS_CardinalityType
<1>3. Cardinality(Earlier(S, R, x)) <= Cardinality(S) /\ Cardinality(Earlier(S, R, x)) # Cardinality(S)
  BY <1>1, FS_Subset
<1>4. <<x, y>> \in R => /\ Cardinality(Earlier(S, R, x)) <= Cardinality(Earlier(S, R, y))
                        /\ Cardinality(Earlier(S, R, x)) # Cardinality(Earlier(S, R, y))
  BY <1>1, <1>2, FS_Subset
<1>5. QED
  BY <1>2, <1>3, <1>4 DEF Rank

\* Ranks are numbers below the size of the set.
LEMMA RankType ==
  ASSUME NEW S, IsFiniteSet(S), NEW R, StrictOrder(S, R)
  PROVE  \A x \in S : Rank(S, R, x) \in Nat /\ Rank(S, R, x) \in 0..(Cardinality(S) - 1)
<1>1. Cardinality(S) \in Nat
  BY FS_CardinalityType
<1>2. ASSUME NEW x \in S PROVE Rank(S, R, x) \in 0..(Cardinality(S) - 1)
  BY RankGrows
<1>3. QED
  BY <1>1, <1>2

\* The order lists every member of the set once.
LEMMA OrderedMembers ==
  ASSUME NEW S, IsFiniteSet(S), NEW R, StrictOrder(S, R), Total(S, R)
  PROVE  /\ Ordered(S, R) \in Seq(S) /\ Len(Ordered(S, R)) = Cardinality(S)
         /\ ToSet(Ordered(S, R)) = S /\ IsInjective(Ordered(S, R))
<1> DEFINE n == Cardinality(S)
           rank == [x \in S |-> Rank(S, R, x)]
           s == Ordered(S, R)
<1>1. n \in Nat
  BY FS_CardinalityType
<1>2. rank \in [S -> 0..(n - 1)]
  BY RankGrows
<1>3. IsInjective(rank)
  <2>1. ASSUME NEW x \in S, NEW y \in S, Rank(S, R, x) = Rank(S, R, y)
        PROVE  x = y
    <3>1. Rank(S, R, x) \in Nat /\ Rank(S, R, y) \in Nat
      BY RankType
    <3>2. ~(<<x, y>> \in R) /\ ~(<<y, x>> \in R)
      BY <2>1, <3>1, RankGrows
    <3>3. QED
      BY <3>2 DEF Total
  <2>2. QED
    BY <2>1 DEF IsInjective
<1>4. IsFiniteSet(0..(n - 1)) /\ Cardinality(0..(n - 1)) = n
  BY <1>1, FS_Interval
<1>5. rank \in Surjection(S, 0..(n - 1))
  <2>1. rank \in Injection(S, 0..(n - 1))
    BY <1>2, <1>3 DEF Injection
  <2> HIDE DEF rank
  <2>2. QED
    BY <1>4, <2>1, FS_Injection
<1>6. \A i \in 1..n : \E x \in S : Rank(S, R, x) = i - 1
  <2>1. ASSUME NEW i \in 1..n
        PROVE  \E x \in S : Rank(S, R, x) = i - 1
    <3>1. i - 1 \in 0..(n - 1)
      BY <1>1
    <3>2. PICK x \in S : rank[x] = i - 1
      BY <1>5, <3>1 DEF Surjection
    <3>3. QED
      BY <3>2
  <2>2. QED
    BY <2>1
<1>7. /\ DOMAIN s = 1..n
      /\ \A i \in 1..n : s[i] \in S /\ Rank(S, R, s[i]) = i - 1
  BY <1>6, OrderedIs
<1> HIDE DEF s
<1>8. s \in Seq(S) /\ Len(s) = n
  <2>1. s \in [1..n -> S]
    <3>1. \A i \in 1..n : (CHOOSE x \in S : Rank(S, R, x) = i - 1) \in S
      BY <1>6
    <3>2. [i \in 1..n |-> CHOOSE x \in S : Rank(S, R, x) = i - 1] \in [1..n -> S]
      BY <3>1
    <3>3. QED
      BY <3>2, OrderedIs DEF s
  <2>2. QED
    BY <1>1, <1>7, <2>1
<1>9. IsInjective(s)
  <2>1. ASSUME NEW i \in 1..n, NEW j \in 1..n, s[i] = s[j] PROVE i = j
    <3>1. i - 1 = j - 1
      BY <1>7, <2>1
    <3>2. QED
      BY <3>1
  <2>2. QED
    BY <1>7, <2>1 DEF IsInjective
<1>10. ASSUME NEW x \in S PROVE x \in ToSet(s)
  <2>1. Rank(S, R, x) \in 0..(n - 1)
    BY RankGrows
  <2>2. Rank(S, R, x) + 1 \in 1..n
    BY <1>1, <2>1
  <2>3. Rank(S, R, s[Rank(S, R, x) + 1]) = Rank(S, R, x) /\ s[Rank(S, R, x) + 1] \in S
    BY <1>1, <1>7, <2>1, <2>2
  <2>4. s[Rank(S, R, x) + 1] = x
    BY <1>3, <2>3 DEF IsInjective
  <2>5. QED
    BY <1>7, <2>2, <2>4 DEF ToSet
<1>11. ToSet(s) = S
  BY <1>7, <1>10 DEF ToSet
<1>12. QED
  BY <1>8, <1>9, <1>11 DEF s

\* Nothing comes before the first of the order, even where some members are not comparable.
LEMMA OrderedFirst ==
  ASSUME NEW S, IsFiniteSet(S), S # {}, NEW R, StrictOrder(S, R)
  PROVE  Ordered(S, R)[1] \in S /\ \A y \in S : <<y, Ordered(S, R)[1]>> \notin R
<1> DEFINE Ranks0 == {Rank(S, R, x) : x \in S}
<1>1. Cardinality(S) \in Nat /\ Cardinality(S) # 0
  BY FS_CardinalityType, FS_EmptySet
<1>2. PICK x \in S : \A y \in S : Rank(S, R, x) <= Rank(S, R, y)
  <2>1. Ranks0 \in SUBSET Nat /\ Ranks0 # {}
    BY RankType
  <2>2. PICK r \in Ranks0 : \A q \in Ranks0 : r <= q
    BY <2>1, LeastNumber
  <2>3. QED
    BY <2>2
<1>3. ASSUME NEW y \in S PROVE <<y, x>> \notin R
  <2>1. Rank(S, R, x) \in Nat /\ Rank(S, R, y) \in Nat /\ Rank(S, R, x) <= Rank(S, R, y)
    BY <1>2, RankType
  <2>2. QED
    BY <2>1, RankGrows
<1>4. Rank(S, R, x) = 0
  <2>1. Earlier(S, R, x) = {}
    BY <1>3 DEF Earlier
  <2>2. QED
    BY <2>1, FS_EmptySet DEF Rank
<1> DEFINE first == CHOOSE y \in S : Rank(S, R, y) = 1 - 1
<1>5. Ordered(S, R)[1] = first
  BY <1>1, OrderedIs
<1>6. first \in S /\ Rank(S, R, first) = 0
  BY <1>4
<1> HIDE DEF first
<1>7. Earlier(S, R, first) = {}
  <2>1. IsFiniteSet(Earlier(S, R, first))
    BY FS_Subset DEF Earlier
  <2>2. QED
    BY <1>6, <2>1, FS_EmptySet DEF Rank
<1>8. QED
  BY <1>5, <1>6, <1>7 DEF Earlier

\* Numbers in ascending order: the same set, each of them once.
LEMMA AscendingMembers ==
  ASSUME NEW ids, IsFiniteSet(ids), \A id \in ids : id \in Nat
  PROVE  /\ Ascending(ids) \in Seq(Nat) /\ Len(Ascending(ids)) = Cardinality(ids)
         /\ ToSet(Ascending(ids)) = ids /\ IsInjective(Ascending(ids))
<1> DEFINE R == {pair \in ids \X ids : pair[1] < pair[2]}
<1>1. \A x, y \in ids : <<x, y>> \in R <=> x < y
  OBVIOUS
<1>2. Ascending(ids) = Ordered(ids, R)
  BY DEF Ascending
<1> HIDE DEF R
<1>3. StrictOrder(ids, R)
  BY <1>1 DEF StrictOrder
<1>4. Total(ids, R)
  <2>1. \A x, y \in ids : x = y \/ x < y \/ y < x
    OBVIOUS
  <2>2. QED
    BY <1>1, <2>1 DEF Total
<1>5. /\ Ordered(ids, R) \in Seq(ids) /\ Len(Ordered(ids, R)) = Cardinality(ids)
      /\ ToSet(Ordered(ids, R)) = ids /\ IsInjective(Ordered(ids, R))
  BY <1>3, <1>4, OrderedMembers
<1>6. Ordered(ids, R) \in Seq(Nat)
  BY <1>5
<1>7. QED
  BY <1>2, <1>5, <1>6

-----------------------------------------------------------------------------
(* The cells of a campaign                                                 *)

Triples == Nat \X Nat \X Nat
IsRung(config, key) ==
  /\ key \in Triples
  /\ key[1] \in DOMAIN config.workloads /\ key[2] \in DOMAIN config.probe_groups
  /\ key[3] \in DOMAIN config.probe_groups[key[2]].variants

\* The typed parts of a configuration of the schema.
LEMMA ConfigurationParts ==
  ASSUME NEW config \in Configurations
  PROVE  /\ config.workloads \in Seq(Workloads) /\ Len(config.workloads) \in Nat
         /\ DOMAIN config.workloads = 1..Len(config.workloads)
         /\ config.probe_groups \in Seq(Groups) /\ Len(config.probe_groups) \in Nat
         /\ DOMAIN config.probe_groups = 1..Len(config.probe_groups)
         /\ config.baseline \in Roles
         /\ \A g \in DOMAIN config.probe_groups :
              /\ config.probe_groups[g] \in Groups /\ config.probe_groups[g].probe_id \in Nat
              /\ config.probe_groups[g].variants \in Seq(Variants)
              /\ Len(config.probe_groups[g].variants) \in Nat
              /\ DOMAIN config.probe_groups[g].variants = 1..Len(config.probe_groups[g].variants)
         /\ \A w \in DOMAIN config.workloads :
              config.workloads[w] \in Workloads /\ config.workloads[w].workload_id \in Nat
<1>1. /\ config.workloads \in Seq(Workloads) /\ config.probe_groups \in Seq(Groups)
      /\ config.baseline \in Roles
  BY DEF Configurations
<1>2. /\ Len(config.workloads) \in Nat /\ DOMAIN config.workloads = 1..Len(config.workloads)
      /\ Len(config.probe_groups) \in Nat /\ DOMAIN config.probe_groups = 1..Len(config.probe_groups)
  BY <1>1
<1>3. ASSUME NEW g \in DOMAIN config.probe_groups
      PROVE  /\ config.probe_groups[g] \in Groups /\ config.probe_groups[g].probe_id \in Nat
             /\ config.probe_groups[g].variants \in Seq(Variants)
  <2>1. config.probe_groups[g] \in Groups
    BY <1>1
  <2>2. QED
    BY <2>1 DEF Groups
<1>4. ASSUME NEW w \in DOMAIN config.workloads
      PROVE  config.workloads[w] \in Workloads /\ config.workloads[w].workload_id \in Nat
  <2>1. config.workloads[w] \in Workloads
    BY <1>1
  <2>2. QED
    BY <2>1 DEF Workloads
<1>5. ASSUME NEW s \in Seq(Variants)
      PROVE  Len(s) \in Nat /\ DOMAIN s = 1..Len(s)
  OBVIOUS
<1>6. QED
  BY <1>1, <1>2, <1>3, <1>4, <1>5

\* The rungs of one workload: every group and variant, each of them once.
LEMMA RungKeysMembers ==
  ASSUME NEW config \in Configurations, NEW w \in DOMAIN config.workloads
  PROVE  /\ RungKeys(config, w) \in Seq(Triples) /\ IsInjective(RungKeys(config, w))
         /\ \A key \in ToSet(RungKeys(config, w)) : IsRung(config, key) /\ key[1] = w
         /\ \A g \in DOMAIN config.probe_groups : \A v \in DOMAIN config.probe_groups[g].variants :
              <<w, g, v>> \in ToSet(RungKeys(config, w))
<1> DEFINE n == Len(config.probe_groups)
           Of(g) == [v \in DOMAIN config.probe_groups[g].variants |-> <<w, g, v>>]
           ss == [g \in DOMAIN config.probe_groups |-> Of(g)]
<1>1. /\ DOMAIN config.probe_groups = 1..n /\ n \in Nat /\ w \in Nat
  BY ConfigurationParts
<1>2. ASSUME NEW g \in 1..n
      PROVE  /\ Of(g) \in Seq(Triples) /\ IsInjective(Of(g))
             /\ ToSet(Of(g)) = {<<w, g, v>> : v \in DOMAIN config.probe_groups[g].variants}
  <2> DEFINE m == Len(config.probe_groups[g].variants)
  <2>1. m \in Nat /\ DOMAIN config.probe_groups[g].variants = 1..m /\ g \in Nat
    BY <1>1, ConfigurationParts
  <2>2. \A v \in 1..m : <<w, g, v>> \in Triples
    BY <1>1, <2>1 DEF Triples
  <2>3. Of(g) = [v \in 1..m |-> <<w, g, v>>]
    BY <2>1
  <2> HIDE DEF m
  <2>4. Of(g) \in Seq(Triples)
    BY <2>1, <2>2, <2>3
  <2>5. DOMAIN Of(g) = 1..m /\ \A v \in 1..m : Of(g)[v] = <<w, g, v>>
    BY <2>3
  <2>6. IsInjective(Of(g))
    BY <2>5 DEF IsInjective
  <2>7. QED
    BY <2>1, <2>4, <2>5, <2>6 DEF ToSet
<1>3. DOMAIN ss = 1..n /\ \A g \in 1..n : ss[g] = Of(g)
  BY <1>1
<1>4. ss \in Seq(Seq(Triples)) /\ Len(ss) = n
  <2>1. \A g \in 1..n : Of(g) \in Seq(Triples)
    BY <1>2
  <2>2. ss = [g \in 1..n |-> Of(g)]
    BY <1>1
  <2> HIDE DEF Of
  <2>3. QED
    BY <1>1, <2>1, <2>2
<1>5. RungKeys(config, w) = FlattenSeq(ss)
  BY DEF RungKeys
<1> HIDE DEF ss, n
<1>6. \A i, j \in 1..n : i # j => ToSet(Of(i)) \cap ToSet(Of(j)) = {}
  <2>1. ASSUME NEW i \in 1..n, NEW j \in 1..n, NEW key \in ToSet(Of(i)), key \in ToSet(Of(j))
        PROVE  i = j
    <3>1. PICK v \in DOMAIN config.probe_groups[i].variants : key = <<w, i, v>>
      BY <1>2, <2>1
    <3>2. PICK u \in DOMAIN config.probe_groups[j].variants : key = <<w, j, u>>
      BY <1>2, <2>1
    <3>3. QED
      BY <3>1, <3>2
  <2> HIDE DEF Of
  <2>2. QED
    BY <2>1
<1>7. /\ FlattenSeq(ss) \in Seq(Triples)
      /\ ToSet(FlattenSeq(ss)) = UNION {ToSet(ss[i]) : i \in 1..n}
      /\ IsInjective(FlattenSeq(ss))
  <2>1. \A i \in 1..n : IsInjective(ss[i])
    BY <1>2, <1>3
  <2>2. \A i, j \in 1..n : i # j => ToSet(ss[i]) \cap ToSet(ss[j]) = {}
    <3> HIDE DEF Of
    <3>1. QED
      BY <1>3, <1>6
  <2>3. QED
    BY <1>4, <2>1, <2>2, FlattenMembers
<1>8. ASSUME NEW key \in ToSet(RungKeys(config, w))
      PROVE  IsRung(config, key) /\ key[1] = w
  <2>1. PICK g \in 1..n : key \in ToSet(Of(g))
    <3> HIDE DEF Of
    <3>1. QED
      BY <1>3, <1>5, <1>7
  <2>2. PICK v \in DOMAIN config.probe_groups[g].variants : key = <<w, g, v>>
    BY <1>2, <2>1
  <2>3. key[1] = w /\ key[2] = g /\ key[3] = v
    BY <2>2
  <2>4. w \in Nat /\ g \in Nat /\ v \in Nat
    BY <1>1, <2>1, ConfigurationParts
  <2>5. key \in Triples
    BY <2>2, <2>4 DEF Triples
  <2>6. QED
    BY <1>1, <2>2, <2>3, <2>5 DEF IsRung
<1>9. ASSUME NEW g \in DOMAIN config.probe_groups, NEW v \in DOMAIN config.probe_groups[g].variants
      PROVE  <<w, g, v>> \in ToSet(RungKeys(config, w))
  <2>1. g \in 1..n /\ <<w, g, v>> \in ToSet(Of(g))
    BY <1>1, <1>2
  <2>2. ToSet(Of(g)) \in {ToSet(ss[i]) : i \in 1..n}
    <3> HIDE DEF Of
    <3>1. QED
      BY <1>3, <2>1
  <2> HIDE DEF Of
  <2>3. QED
    BY <1>5, <1>7, <2>1, <2>2
<1>10. QED
  BY <1>5, <1>7, <1>8, <1>9

\* The probe cells of a campaign: every rung of every workload, each of them once.
LEMMA ProbeKeysMembers ==
  ASSUME NEW config \in Configurations
  PROVE  /\ ProbeKeys(config) \in Seq(Triples) /\ IsInjective(ProbeKeys(config))
         /\ \A key \in ToSet(ProbeKeys(config)) : IsRung(config, key)
         /\ \A w \in DOMAIN config.workloads : \A g \in DOMAIN config.probe_groups :
              \A v \in DOMAIN config.probe_groups[g].variants : <<w, g, v>> \in ToSet(ProbeKeys(config))
<1> DEFINE n == Len(config.workloads)
           ss == [w \in DOMAIN config.workloads |-> RungKeys(config, w)]
<1>1. DOMAIN config.workloads = 1..n /\ n \in Nat
  BY ConfigurationParts
<1>2. DOMAIN ss = 1..n /\ \A w \in 1..n : ss[w] = RungKeys(config, w)
  BY <1>1
<1>3. ss \in Seq(Seq(Triples)) /\ Len(ss) = n
  <2>1. \A w \in 1..n : RungKeys(config, w) \in Seq(Triples)
    BY <1>1, RungKeysMembers
  <2>2. ss = [w \in 1..n |-> RungKeys(config, w)]
    BY <1>1
  <2>3. QED
    BY <1>1, <2>1, <2>2
<1>4. ProbeKeys(config) = FlattenSeq(ss)
  BY DEF ProbeKeys
<1> HIDE DEF ss, n
<1>5. \A i, j \in 1..n : i # j => ToSet(ss[i]) \cap ToSet(ss[j]) = {}
  <2>1. ASSUME NEW i \in 1..n, NEW j \in 1..n, NEW key \in ToSet(ss[i]), key \in ToSet(ss[j])
        PROVE  i = j
    <3>1. key[1] = i /\ key[1] = j
      BY <1>1, <1>2, <2>1, RungKeysMembers
    <3>2. QED
      BY <3>1
  <2>2. QED
    BY <2>1
<1>6. \A i \in 1..n : IsInjective(ss[i])
  BY <1>1, <1>2, RungKeysMembers
<1>7. /\ FlattenSeq(ss) \in Seq(Triples)
      /\ ToSet(FlattenSeq(ss)) = UNION {ToSet(ss[i]) : i \in 1..n}
      /\ IsInjective(FlattenSeq(ss))
  BY <1>3, <1>5, <1>6, FlattenMembers
<1>8. ASSUME NEW key \in ToSet(ProbeKeys(config))
      PROVE  IsRung(config, key)
  <2>1. PICK w \in 1..n : key \in ToSet(RungKeys(config, w))
    BY <1>2, <1>4, <1>7
  <2>2. QED
    BY <1>1, <2>1, RungKeysMembers
<1>9. ASSUME NEW w \in DOMAIN config.workloads, NEW g \in DOMAIN config.probe_groups,
             NEW v \in DOMAIN config.probe_groups[g].variants
      PROVE  <<w, g, v>> \in ToSet(ProbeKeys(config))
  <2>1. <<w, g, v>> \in ToSet(RungKeys(config, w))
    BY RungKeysMembers
  <2>2. ToSet(RungKeys(config, w)) \in {ToSet(ss[i]) : i \in 1..n}
    BY <1>1, <1>2
  <2>3. QED
    BY <1>4, <1>7, <2>1, <2>2
<1>10. QED
  BY <1>4, <1>7, <1>8, <1>9

\* A campaign has one cell for each workload, and one for each workload and rung; no other, and none twice.
LEMMA KeysMembers ==
  ASSUME NEW config \in Configurations
  PROVE  /\ Keys(config) \in Seq(Triples) /\ IsInjective(Keys(config))
         /\ ControlKeys(config) \in Seq(Triples) /\ Len(ControlKeys(config)) = Len(config.workloads)
         /\ Len(Keys(config)) = Len(config.workloads) + Len(ProbeKeys(config))
         /\ \A i \in 1..Len(config.workloads) : Keys(config)[i] = <<i, 0, 0>>
         /\ \A i \in 1..Len(ProbeKeys(config)) : Keys(config)[Len(config.workloads) + i] = ProbeKeys(config)[i]
         /\ \A key \in ToSet(Keys(config)) :
              \/ key[1] \in DOMAIN config.workloads /\ key = <<key[1], 0, 0>>
              \/ IsRung(config, key)
         /\ \A w \in DOMAIN config.workloads : <<w, 0, 0>> \in ToSet(Keys(config))
         /\ \A w \in DOMAIN config.workloads : \A g \in DOMAIN config.probe_groups :
              \A v \in DOMAIN config.probe_groups[g].variants : <<w, g, v>> \in ToSet(Keys(config))
<1> DEFINE n == Len(config.workloads)
           c == ControlKeys(config)
           p == ProbeKeys(config)
<1>1. DOMAIN config.workloads = 1..n /\ n \in Nat
  BY ConfigurationParts
<1>2. c \in Seq(Triples) /\ Len(c) = n /\ \A i \in 1..n : c[i] = <<i, 0, 0>>
  <2>1. c = [i \in 1..n |-> <<i, 0, 0>>]
    BY <1>1 DEF ControlKeys
  <2>2. \A i \in 1..n : <<i, 0, 0>> \in Triples
    BY <1>1 DEF Triples
  <2>3. QED
    BY <1>1, <2>1, <2>2
<1>3. p \in Seq(Triples) /\ IsInjective(p) /\ \A key \in ToSet(p) : IsRung(config, key)
  BY ProbeKeysMembers
<1>4. DOMAIN c = 1..n
  BY <1>2
<1>5. ASSUME NEW key \in ToSet(c) PROVE key[1] \in 1..n /\ key = <<key[1], 0, 0>>
  <2>1. PICK i \in 1..n : key = <<i, 0, 0>>
    BY <1>2, <1>4 DEF ToSet
  <2>2. QED
    BY <2>1
<1>6. IsInjective(c)
  <2>1. ASSUME NEW i \in 1..n, NEW j \in 1..n, c[i] = c[j] PROVE i = j
    <3>1. <<i, 0, 0>> = <<j, 0, 0>>
      BY <1>2, <2>1
    <3>2. QED
      BY <3>1
  <2>2. QED
    BY <1>4, <2>1 DEF IsInjective
<1>7. ToSet(c) \cap ToSet(p) = {}
  <2>1. ASSUME NEW key \in ToSet(c), key \in ToSet(p) PROVE FALSE
    <3>1. key[2] = 0
      BY <1>5
    <3>2. key[2] \in DOMAIN config.probe_groups
      BY <1>3, <2>1 DEF IsRung
    <3>3. QED
      BY <3>1, <3>2, ConfigurationParts
  <2>2. QED
    BY <2>1
<1>8. Keys(config) = c \o p
  BY DEF Keys
<1> HIDE DEF c, p
<1>9. /\ c \o p \in Seq(Triples) /\ Len(c \o p) = Len(c) + Len(p)
      /\ ToSet(c \o p) = ToSet(c) \cup ToSet(p) /\ IsInjective(c \o p)
  <2>1. c \in Seq(Triples) /\ p \in Seq(Triples) /\ IsInjective(c) /\ IsInjective(p)
    BY <1>2, <1>3, <1>6
  <2>2. ToSet(c) \cap ToSet(p) = {}
    BY <1>7
  <2>3. /\ c \o p \in Seq(Triples) /\ Len(c \o p) = Len(c) + Len(p)
        /\ ToSet(c \o p) = ToSet(c) \cup ToSet(p)
    BY <2>1, ConcatSet
  <2>4. IsInjective(c \o p)
    BY <2>1, <2>2, ConcatSet
  <2>5. QED
    BY <2>3, <2>4
<1>10. /\ \A i \in 1..n : (c \o p)[i] = <<i, 0, 0>>
       /\ \A i \in 1..Len(p) : (c \o p)[n + i] = p[i]
  BY <1>1, <1>2, <1>3
<1>11. ASSUME NEW w \in DOMAIN config.workloads PROVE <<w, 0, 0>> \in ToSet(c)
  <2>1. w \in DOMAIN c /\ c[w] = <<w, 0, 0>>
    BY <1>1, <1>2, <1>4
  <2>2. QED
    BY <2>1 DEF ToSet
<1>12. \A w \in DOMAIN config.workloads : \A g \in DOMAIN config.probe_groups :
         \A v \in DOMAIN config.probe_groups[g].variants : <<w, g, v>> \in ToSet(p)
  BY ProbeKeysMembers DEF p
<1>13. QED
  BY <1>1, <1>2, <1>3, <1>5, <1>8, <1>9, <1>10, <1>11, <1>12 DEF c, p

-----------------------------------------------------------------------------
(* Records that fill the cells of a campaign                               *)

Fills(config, cells) ==
  /\ cells \in Seq(ToSet(cells)) /\ Len(cells) = Len(Keys(config))
  /\ \A i \in 1..Len(cells) : cells[i].key = Keys(config)[i]
  /\ \A r \in ToSet(cells) : r.workload_id = config.workloads[r.key[1]].workload_id
  /\ \A r \in ToSet(cells) : r.key[2] # 0 =>
       r.probe_id = config.probe_groups[r.key[2]].probe_id /\ r.outcome = DetectionOutcome(r.status)

\* What admission adds to the schema: the budget, and identifiers that name one thing.
LEMMA AdmissibleParts ==
  ASSUME NEW config, Admissible(config)
  PROVE  /\ config \in Configurations /\ config.budget = Budget /\ config.probe_groups # <<>>
         /\ \A g, h \in DOMAIN config.probe_groups :
              config.probe_groups[g].probe_id = config.probe_groups[h].probe_id => g = h
         /\ \A w, u \in DOMAIN config.workloads :
              config.workloads[w].workload_id = config.workloads[u].workload_id => w = u
<1>1. /\ config \in Configurations /\ config.budget = Budget /\ config.probe_groups # <<>>
  BY DEF Admissible, Bounded
<1>2. /\ IsInjective([g \in DOMAIN config.probe_groups |-> config.probe_groups[g].probe_id])
      /\ IsInjective([w \in DOMAIN config.workloads |-> config.workloads[w].workload_id])
  BY DEF Admissible
<1>3. QED
  BY <1>1, <1>2 DEF IsInjective

\* The magnitude a group requires is that of one of its variants.
LEMMA RequiredIsRung ==
  ASSUME NEW config, Admissible(config), NEW g \in DOMAIN config.probe_groups
  PROVE  RequiredIndex(config.probe_groups[g]) \in DOMAIN config.probe_groups[g].variants
<1>1. \E v \in DOMAIN config.probe_groups[g].variants :
        config.probe_groups[g].variants[v].magnitude = config.probe_groups[g].required_detection_magnitude
  BY DEF Admissible, ProbeGroup
<1>2. QED
  BY <1>1, Zenon DEF RequiredIndex

\* Every cell has its one record.
LEMMA CellsAreFilled ==
  ASSUME NEW config \in Configurations, NEW cells, Fills(config, cells)
  PROVE  /\ DOMAIN cells = 1..Len(cells) /\ Len(cells) \in Nat
         /\ \A r \in ToSet(cells) : r.key \in ToSet(Keys(config)) /\ Cell(cells, r.key) = r
         /\ \A key \in ToSet(Keys(config)) : Cell(cells, key) \in ToSet(cells) /\ Cell(cells, key).key = key
<1>1. /\ DOMAIN cells = 1..Len(cells) /\ Len(cells) \in Nat /\ Len(cells) = Len(Keys(config))
      /\ Keys(config) \in Seq(Triples) /\ IsInjective(Keys(config))
      /\ DOMAIN Keys(config) = 1..Len(cells)
  <2>1. cells \in Seq(ToSet(cells)) /\ Len(cells) = Len(Keys(config))
    BY DEF Fills
  <2>2. Keys(config) \in Seq(Triples) /\ IsInjective(Keys(config))
    BY KeysMembers
  <2>3. QED
    BY <2>1, <2>2
<1>2. \A i \in 1..Len(cells) : cells[i].key = Keys(config)[i]
  BY DEF Fills
<1>3. ASSUME NEW r \in ToSet(cells), NEW t \in ToSet(cells), r.key = t.key PROVE r = t
  <2>1. PICK i \in 1..Len(cells) : r = cells[i]
    BY <1>1 DEF ToSet
  <2>2. PICK j \in 1..Len(cells) : t = cells[j]
    BY <1>1 DEF ToSet
  <2>3. Keys(config)[i] = Keys(config)[j]
    BY <1>2, <1>3, <2>1, <2>2
  <2>4. QED
    BY <1>1, <2>1, <2>2, <2>3 DEF IsInjective
<1>4. ASSUME NEW key \in ToSet(Keys(config)) PROVE \E r \in ToSet(cells) : r.key = key
  <2>1. PICK i \in 1..Len(cells) : key = Keys(config)[i]
    BY <1>1 DEF ToSet
  <2>2. cells[i] \in ToSet(cells) /\ cells[i].key = key
    BY <1>1, <1>2, <2>1 DEF ToSet
  <2>3. QED
    BY <2>2
<1>5. ASSUME NEW r \in ToSet(cells) PROVE r.key \in ToSet(Keys(config))
  <2>1. PICK i \in 1..Len(cells) : r = cells[i]
    BY <1>1 DEF ToSet
  <2>2. i \in DOMAIN Keys(config) /\ r.key = Keys(config)[i]
    BY <1>1, <1>2, <2>1
  <2>3. QED
    BY <2>2 DEF ToSet
<1>6. ASSUME NEW key \in ToSet(Keys(config))
      PROVE  Cell(cells, key) \in ToSet(cells) /\ Cell(cells, key).key = key
  BY <1>4, Zenon DEF Cell
<1>7. ASSUME NEW r \in ToSet(cells) PROVE Cell(cells, r.key) = r
  BY <1>3, <1>5, <1>6
<1>8. QED
  BY <1>1, <1>5, <1>6, <1>7

\* The controls and the probes are the records of the one kind and of the other.
LEMMA SelectedCells ==
  ASSUME NEW config \in Configurations, NEW cells, Fills(config, cells)
  PROVE  /\ Controls(cells) \in Seq(ToSet(cells)) /\ Probes(cells) \in Seq(ToSet(cells))
         /\ ToSet(Controls(cells)) = {r \in ToSet(cells) : r.key[2] = 0}
         /\ ToSet(Probes(cells)) = {r \in ToSet(cells) : r.key[2] # 0}
<1> DEFINE c == {i \in DOMAIN cells : IsControl(cells[i].key)}
           p == {i \in DOMAIN cells : ~IsControl(cells[i].key)}
<1>1. cells \in Seq(ToSet(cells)) /\ DOMAIN cells = 1..Len(cells)
  BY CellsAreFilled DEF Fills
<1>2. (\A i \in c : i \in 1..Len(cells)) /\ (\A i \in p : i \in 1..Len(cells))
  BY <1>1
<1>3. /\ {cells[i] : i \in c} = {r \in ToSet(cells) : r.key[2] = 0}
      /\ {cells[i] : i \in p} = {r \in ToSet(cells) : r.key[2] # 0}
  BY DEF ToSet, IsControl
<1>4. Controls(cells) = Those(cells, c) /\ Probes(cells) = Those(cells, p)
  BY DEF Controls, Probes
<1> HIDE DEF c, p
<1>5. /\ Those(cells, c) \in Seq(ToSet(cells)) /\ ToSet(Those(cells, c)) = {cells[i] : i \in c}
      /\ Those(cells, p) \in Seq(ToSet(cells)) /\ ToSet(Those(cells, p)) = {cells[i] : i \in p}
  BY <1>1, <1>2, ThoseMembers
<1>6. QED
  BY <1>3, <1>4, <1>5

\* The matrix holds the outcome of every rung for every workload.
LEMMA MatrixIsFilled ==
  ASSUME NEW config, Admissible(config), NEW cells, Fills(config, cells),
         NEW w \in DOMAIN config.workloads, NEW g \in DOMAIN config.probe_groups,
         NEW v \in DOMAIN config.probe_groups[g].variants
  PROVE  OutcomeMap(cells)[<<config.workloads[w].workload_id, config.probe_groups[g].probe_id, v>>]
           = DetectionOutcome(Cell(cells, <<w, g, v>>).status)
<1> DEFINE key == <<w, g, v>>
           cell == <<config.workloads[w].workload_id, config.probe_groups[g].probe_id, v>>
           Of(r) == <<r.workload_id, r.probe_id, r.key[3]>>
<1>1. config \in Configurations
  BY AdmissibleParts
<1>2. key \in ToSet(Keys(config)) /\ g # 0
  BY <1>1, KeysMembers, ConfigurationParts
<1>3. Cell(cells, key) \in ToSet(cells) /\ Cell(cells, key).key = key
  BY <1>1, <1>2, CellsAreFilled
<1>4. Cell(cells, key) \in ToSet(Probes(cells))
  <2>1. Cell(cells, key).key[2] = g
    BY <1>3
  <2>2. Cell(cells, key) \in {r \in ToSet(cells) : r.key[2] # 0}
    BY <1>2, <1>3, <2>1
  <2> HIDE DEF key
  <2>3. QED
    BY <1>1, <2>2, SelectedCells
<1>5. Of(Cell(cells, key)) = cell
  <2>1. /\ Cell(cells, key).workload_id = config.workloads[w].workload_id
        /\ Cell(cells, key).probe_id = config.probe_groups[g].probe_id
    BY <1>2, <1>3 DEF Fills
  <2>2. QED
    BY <1>3, <2>1
<1>6. ASSUME NEW r \in ToSet(Probes(cells)), Of(r) = cell
      PROVE  r = Cell(cells, key)
  <2>1. r \in ToSet(cells) /\ r.key[2] # 0 /\ r.key \in ToSet(Keys(config)) /\ Cell(cells, r.key) = r
    BY <1>1, SelectedCells, CellsAreFilled
  <2>2. IsRung(config, r.key)
    BY <1>1, <2>1, KeysMembers
  <2>3. /\ r.workload_id = config.workloads[r.key[1]].workload_id
        /\ r.probe_id = config.probe_groups[r.key[2]].probe_id
    BY <2>1 DEF Fills
  <2>4. /\ config.workloads[r.key[1]].workload_id = config.workloads[w].workload_id
        /\ config.probe_groups[r.key[2]].probe_id = config.probe_groups[g].probe_id
        /\ r.key[3] = v
    BY <1>6, <2>3
  <2>5. r.key[1] = w /\ r.key[2] = g /\ r.key \in Triples
    BY <2>2, <2>4, AdmissibleParts DEF IsRung
  <2>6. r.key = key
    BY <2>4, <2>5 DEF Triples
  <2>7. QED
    BY <2>1, <2>6
<1>7. cell \in {Of(r) : r \in ToSet(Probes(cells))}
  BY <1>4, <1>5
<1>8. OutcomeMap(cells)[cell] = (CHOOSE r \in ToSet(Probes(cells)) : Of(r) = cell).outcome
  BY <1>7 DEF OutcomeMap
<1>9. (CHOOSE r \in ToSet(Probes(cells)) : Of(r) = cell) = Cell(cells, key)
  <2> HIDE DEF Of, cell, key
  <2>1. QED
    BY <1>4, <1>5, <1>6
<1>10. Cell(cells, key).outcome = DetectionOutcome(Cell(cells, key).status)
  BY <1>2, <1>3 DEF Fills
<1>11. QED
  BY <1>8, <1>9, <1>10

-----------------------------------------------------------------------------
(* Workloads and their names                                               *)

Ids(config, W) == {config.workloads[w].workload_id : w \in W}

\* Workloads and their identifiers stand for each other.
LEMMA NamedOnce ==
  ASSUME NEW config, Admissible(config), NEW W \in SUBSET (DOMAIN config.workloads)
  PROVE  /\ IsFiniteSet(W) /\ IsFiniteSet(Ids(config, W)) /\ Cardinality(Ids(config, W)) = Cardinality(W)
         /\ \A id \in Ids(config, W) : id \in Nat
         /\ {w \in DOMAIN config.workloads : config.workloads[w].workload_id \in Ids(config, W)} = W
<1> DEFINE name == [w \in W |-> config.workloads[w].workload_id]
<1>1. /\ DOMAIN config.workloads = 1..Len(config.workloads) /\ Len(config.workloads) \in Nat
      /\ \A w \in DOMAIN config.workloads : config.workloads[w].workload_id \in Nat
  BY AdmissibleParts, ConfigurationParts
<1>2. IsFiniteSet(W)
  <2>1. IsFiniteSet(1..Len(config.workloads))
    BY <1>1, FS_Interval
  <2>2. QED
    BY <1>1, <2>1, FS_Subset
<1>3. \A w, u \in DOMAIN config.workloads :
        config.workloads[w].workload_id = config.workloads[u].workload_id => w = u
  BY AdmissibleParts
<1>4. name \in Bijection(W, Ids(config, W))
  <2>1. name \in [W -> Ids(config, W)]
    BY DEF Ids
  <2>2. IsInjective(name)
    BY <1>3 DEF IsInjective
  <2>3. \A id \in Ids(config, W) : \E w \in W : name[w] = id
    BY DEF Ids
  <2> HIDE DEF name
  <2>4. QED
    BY <2>1, <2>2, <2>3 DEF Bijection, Injection, Surjection
<1>5. IsFiniteSet(Ids(config, W)) /\ Cardinality(Ids(config, W)) = Cardinality(W)
  <2>1. ExistsBijection(W, Ids(config, W))
    BY <1>4 DEF ExistsBijection
  <2>2. QED
    BY <1>2, <2>1, FS_Bijection
<1>6. \A id \in Ids(config, W) : id \in Nat
  BY <1>1 DEF Ids
<1>7. {w \in DOMAIN config.workloads : config.workloads[w].workload_id \in Ids(config, W)} = W
  BY <1>3 DEF Ids
<1>8. QED
  BY <1>2, <1>5, <1>6, <1>7

\* A set has a part of every smaller size.
LEMMA PartOfSize ==
  ASSUME NEW S, IsFiniteSet(S), NEW k \in 0..Cardinality(S)
  PROVE  kSubset(k, S) # {}
<1> DEFINE n == Cardinality(S)
           G == {i \in 0..n : \E W \in SUBSET S : IsFiniteSet(W) /\ Cardinality(W) = i}
<1>1. n \in Nat
  BY FS_CardinalityType
<1>2. 0 \in G
  <2>1. IsFiniteSet({}) /\ Cardinality({}) = 0 /\ {} \in SUBSET S
    BY FS_EmptySet
  <2>2. QED
    BY <1>1, <2>1
<1>3. ASSUME NEW i \in 1..n, i - 1 \in G PROVE i \in G
  <2>1. PICK W \in SUBSET S : IsFiniteSet(W) /\ Cardinality(W) = i - 1
    BY <1>3
  <2>2. W # S
    BY <1>1, <2>1
  <2>3. PICK x \in S : x \notin W
    BY <2>2
  <2>4. IsFiniteSet(W \cup {x}) /\ Cardinality(W \cup {x}) = (i - 1) + 1
    BY <2>1, <2>3, FS_AddElement
  <2>5. Cardinality(W \cup {x}) = i /\ W \cup {x} \in SUBSET S /\ i \in 0..n
    BY <1>1, <2>3, <2>4
  <2>6. QED
    BY <2>4, <2>5
<1> HIDE DEF G
<1>4. \A i \in 0..n : i \in G
  <2> HIDE DEF n
  <2>1. QED
    BY <1>1, <1>2, <1>3, UpTo
<1>5. k \in G
  BY <1>4
<1>6. QED
  BY <1>5 DEF G, kSubset

\* Receipts by cell that say what the records say.
Restates(config, cells, kept) == \A key \in ToSet(Keys(config)) : kept[key].status = Cell(cells, key).status

\* The eligible workloads are those whose control showed no change.
LEMMA EligibleAreSound ==
  ASSUME NEW config, Admissible(config), NEW cells, Fills(config, cells), NEW kept, Restates(config, cells, kept)
  PROVE  /\ ToSet(EligibleIds(cells)) = Ids(config, Sound(config, kept))
         /\ Len(EligibleIds(cells)) = Cardinality(Sound(config, kept))
         /\ Sound(config, kept) \in SUBSET (DOMAIN config.workloads)
<1> DEFINE E == {i \in DOMAIN cells : IsControl(cells[i].key) /\ Passes(cells[i].status)}
           n == Len(config.workloads)
           p == Len(ProbeKeys(config))
<1>0. config \in Configurations
  BY AdmissibleParts
<1>1. /\ DOMAIN config.workloads = 1..n /\ n \in Nat
      /\ cells \in Seq(ToSet(cells)) /\ DOMAIN cells = 1..Len(cells) /\ Len(cells) \in Nat
      /\ Len(cells) = n + p /\ p \in Nat
      /\ \A i \in 1..Len(cells) : cells[i].key = Keys(config)[i]
  <2>1. ProbeKeys(config) \in Seq(Triples)
    BY <1>0, ProbeKeysMembers
  <2>2. p \in Nat
    BY <2>1
  <2>3. Len(cells) = n + p /\ \A i \in 1..Len(cells) : cells[i].key = Keys(config)[i]
    BY <1>0, KeysMembers DEF Fills
  <2>4. DOMAIN cells = 1..Len(cells) /\ Len(cells) \in Nat /\ cells \in Seq(ToSet(cells))
    BY <1>0, CellsAreFilled DEF Fills
  <2>5. QED
    BY <1>0, <2>2, <2>3, <2>4, ConfigurationParts
<1>2. ASSUME NEW w \in 1..n
      PROVE  /\ w \in 1..Len(cells) /\ cells[w].key = <<w, 0, 0>> /\ <<w, 0, 0>> \in ToSet(Keys(config))
             /\ Cell(cells, <<w, 0, 0>>) = cells[w] /\ cells[w].workload_id = config.workloads[w].workload_id
             /\ w \in E <=> w \in Sound(config, kept)
  <2>1. w \in 1..Len(cells) /\ cells[w].key = <<w, 0, 0>> /\ <<w, 0, 0>> \in ToSet(Keys(config))
    BY <1>0, <1>1, KeysMembers
  <2>2. cells[w] \in ToSet(cells)
    BY <1>1, <2>1 DEF ToSet
  <2>3. Cell(cells, <<w, 0, 0>>) = cells[w]
    BY <1>0, <2>1, <2>2, CellsAreFilled
  <2>4. cells[w].workload_id = config.workloads[w].workload_id
    <3>1. cells[w].workload_id = config.workloads[cells[w].key[1]].workload_id /\ cells[w].key[1] = w
      BY <2>1, <2>2 DEF Fills
    <3>2. QED
      BY <3>1
  <2>5. kept[<<w, 0, 0>>].status = cells[w].status
    BY <2>1, <2>3 DEF Restates
  <2>6. w \in E <=> w \in Sound(config, kept)
    BY <1>1, <2>1, <2>5 DEF IsControl, Passes, Sound
  <2>7. QED
    BY <2>1, <2>3, <2>4, <2>6
<1>3. ASSUME NEW i \in E PROVE i \in 1..n
  <2>1. i \in 1..(n + p) /\ cells[i].key[2] = 0
    BY <1>1 DEF IsControl
  <2>2. CASE i > n
    <3>1. i - n \in 1..p /\ n + (i - n) = i
      <4>1. n \in Nat /\ p \in Nat /\ i \in 1..(n + p)
        BY <1>1, <2>1
      <4> HIDE DEF n, p
      <4>2. QED
        BY <2>2, <4>1
    <3>2. Keys(config)[n + (i - n)] = ProbeKeys(config)[i - n]
      BY <1>0, <3>1, KeysMembers
    <3>3. ProbeKeys(config)[i - n] \in ToSet(ProbeKeys(config))
      <4>1. ProbeKeys(config) \in Seq(Triples)
        BY <1>0, ProbeKeysMembers
      <4>2. i - n \in DOMAIN ProbeKeys(config)
        BY <3>1, <4>1
      <4>3. QED
        BY <4>2 DEF ToSet
    <3>4. IsRung(config, cells[i].key)
      BY <1>0, <1>1, <2>1, <3>1, <3>2, <3>3, ProbeKeysMembers
    <3>5. QED
      BY <1>0, <2>1, <3>4, ConfigurationParts DEF IsRung
  <2>3. QED
    BY <1>1, <2>1, <2>2
<1>4. E = Sound(config, kept)
  <2>1. \A w \in Sound(config, kept) : w \in 1..n
    BY <1>1 DEF Sound
  <2>2. QED
    BY <1>2, <1>3, <2>1
<1>5. /\ Eligible(cells) \in Seq(ToSet(cells)) /\ ToSet(Eligible(cells)) = {cells[i] : i \in E}
      /\ Len(Eligible(cells)) = Cardinality(E)
  <2>1. \A i \in E : i \in 1..Len(cells)
    BY <1>1
  <2>2. Eligible(cells) = Those(cells, E)
    BY DEF Eligible
  <2> HIDE DEF E
  <2>3. QED
    BY <1>1, <2>1, <2>2, ThoseMembers
<1>6. /\ ToSet(EligibleIds(cells)) = {r.workload_id : r \in ToSet(Eligible(cells))}
      /\ Len(EligibleIds(cells)) = Len(Eligible(cells))
  <2> DEFINE s == Eligible(cells)
  <2>1. DOMAIN s = 1..Len(s) /\ Len(s) \in Nat
    BY <1>5
  <2>2. EligibleIds(cells) = [i \in 1..Len(s) |-> s[i].workload_id]
    BY <2>1 DEF EligibleIds, WorkloadIds
  <2> HIDE DEF s
  <2>3. ToSet(EligibleIds(cells)) = {r.workload_id : r \in ToSet(s)}
    BY <2>1, <2>2 DEF ToSet
  <2>4. Len(EligibleIds(cells)) = Len(s)
    <3>1. DOMAIN EligibleIds(cells) = 1..Len(s)
      BY <2>2
    <3>2. QED
      BY <2>1, <2>2, <3>1
  <2>5. QED
    BY <2>3, <2>4 DEF s
<1>7. \A i \in E : cells[i].workload_id = config.workloads[i].workload_id
  BY <1>2, <1>3
<1>8. ToSet(EligibleIds(cells)) = Ids(config, Sound(config, kept))
  <2> HIDE DEF E
  <2>1. ToSet(EligibleIds(cells)) = {cells[i].workload_id : i \in E}
    BY <1>5, <1>6
  <2>2. QED
    BY <1>4, <1>7, <2>1 DEF Ids
<1>9. Sound(config, kept) \in SUBSET (DOMAIN config.workloads)
  BY DEF Sound
<1>10. QED
  BY <1>4, <1>5, <1>6, <1>8, <1>9

-----------------------------------------------------------------------------
(* What a set of workloads sees                                            *)

Signature(config, cells, W, g) == CellOutcomesForSubset(OutcomeMap(cells), Ids(config, W), config.probe_groups[g])

\* What the status of a comparison says of detection.
LEMMA OutcomeIs ==
  ASSUME NEW status
  PROVE  /\ DetectionOutcome(status) = "DETECTED" <=> status = "MATERIAL_BEHAVIOR_CHANGE"
         /\ DetectionOutcome(status) = "UNRESOLVED"
              <=> status \notin {"NO_MATERIAL_DIFFERENCE", "MATERIAL_BEHAVIOR_CHANGE"}
         /\ DetectionOutcome(status) \in {"DETECTED", "UNRESOLVED", "NOT_DETECTED"}
<1>1. CASE status = "MATERIAL_BEHAVIOR_CHANGE"
  BY <1>1 DEF DetectionOutcome
<1>2. CASE status = "NO_MATERIAL_DIFFERENCE"
  BY <1>2 DEF DetectionOutcome
<1>3. CASE status # "NO_MATERIAL_DIFFERENCE" /\ status # "MATERIAL_BEHAVIOR_CHANGE"
  BY <1>3 DEF DetectionOutcome
<1>4. QED
  BY <1>1, <1>2, <1>3

\* The signature of a group under a set of workloads is what those workloads see of it.
LEMMA SignatureIs ==
  ASSUME NEW config, Admissible(config), NEW cells, Fills(config, cells), NEW kept, Restates(config, cells, kept),
         NEW W \in SUBSET (DOMAIN config.workloads), NEW g \in DOMAIN config.probe_groups
  PROVE  /\ DOMAIN Signature(config, cells, W, g) = DOMAIN config.probe_groups[g].variants
         /\ Len(Signature(config, cells, W, g)) = Len(config.probe_groups[g].variants)
         /\ \A v \in DOMAIN config.probe_groups[g].variants :
              /\ Signature(config, cells, W, g)[v] = "DETECTED" <=> Sees(kept, W, g, v)
              /\ Signature(config, cells, W, g)[v] = "UNRESOLVED" <=> Open(kept, W, g, v)
              /\ Signature(config, cells, W, g)[v] \in {"DETECTED", "UNRESOLVED", "NOT_DETECTED"}
<1> DEFINE group == config.probe_groups[g]
           sig == Signature(config, cells, W, g)
           Seen(v) == {OutcomeMap(cells)[<<id, group.probe_id, v>>] : id \in Ids(config, W)}
           Says(v) == {DetectionOutcome(kept[<<w, g, v>>].status) : w \in W}
<1>1. config \in Configurations
  BY AdmissibleParts
<1>2. /\ DOMAIN group.variants = 1..Len(group.variants) /\ Len(group.variants) \in Nat
  BY <1>1, ConfigurationParts
<1>3. sig = [v \in DOMAIN group.variants |->
               IF "DETECTED" \in Seen(v) THEN "DETECTED"
               ELSE IF "UNRESOLVED" \in Seen(v) THEN "UNRESOLVED" ELSE "NOT_DETECTED"]
  BY DEF Signature, CellOutcomesForSubset
<1>4. ASSUME NEW v \in DOMAIN group.variants
      PROVE  Seen(v) = Says(v)
  <2>1. ASSUME NEW w \in W
        PROVE  OutcomeMap(cells)[<<config.workloads[w].workload_id, group.probe_id, v>>]
                 = DetectionOutcome(kept[<<w, g, v>>].status)
    <3>1. w \in DOMAIN config.workloads
      OBVIOUS
    <3>2. <<w, g, v>> \in ToSet(Keys(config))
      BY <1>1, <3>1, KeysMembers
    <3>3. kept[<<w, g, v>>].status = Cell(cells, <<w, g, v>>).status
      BY <3>2 DEF Restates
    <3>4. OutcomeMap(cells)[<<config.workloads[w].workload_id, group.probe_id, v>>]
            = DetectionOutcome(Cell(cells, <<w, g, v>>).status)
      BY <3>1, MatrixIsFilled
    <3>5. QED
      BY <3>3, <3>4
  <2>2. Seen(v) = {OutcomeMap(cells)[<<config.workloads[w].workload_id, group.probe_id, v>>] : w \in W}
    BY DEF Ids
  <2>3. QED
    BY <2>1, <2>2
<1>5. ASSUME NEW v \in DOMAIN group.variants
      PROVE  /\ "DETECTED" \in Says(v) <=> Sees(kept, W, g, v)
             /\ "DETECTED" \notin Says(v) /\ "UNRESOLVED" \in Says(v) <=> Open(kept, W, g, v)
  <2>1. "DETECTED" \in Says(v) <=> Sees(kept, W, g, v)
    BY OutcomeIs DEF Sees
  <2>2. "UNRESOLVED" \in Says(v)
          <=> \E w \in W : kept[<<w, g, v>>].status \notin {"NO_MATERIAL_DIFFERENCE", "MATERIAL_BEHAVIOR_CHANGE"}
    BY OutcomeIs
  <2> HIDE DEF Says
  <2>3. QED
    BY <2>1, <2>2 DEF Open
<1>6. ASSUME NEW v \in DOMAIN group.variants
      PROVE  /\ sig[v] = "DETECTED" <=> Sees(kept, W, g, v)
             /\ sig[v] = "UNRESOLVED" <=> Open(kept, W, g, v)
             /\ sig[v] \in {"DETECTED", "UNRESOLVED", "NOT_DETECTED"}
  <2>1. sig[v] = IF "DETECTED" \in Says(v) THEN "DETECTED"
                 ELSE IF "UNRESOLVED" \in Says(v) THEN "UNRESOLVED" ELSE "NOT_DETECTED"
    <3>1. sig[v] = IF "DETECTED" \in Seen(v) THEN "DETECTED"
                   ELSE IF "UNRESOLVED" \in Seen(v) THEN "UNRESOLVED" ELSE "NOT_DETECTED"
      BY <1>3
    <3>2. Seen(v) = Says(v)
      BY <1>4
    <3> HIDE DEF Seen, Says
    <3>3. QED
      BY <3>1, <3>2
  <2> HIDE DEF Says, sig
  <2>2. QED
    BY <1>5, <2>1
<1>7. DOMAIN sig = DOMAIN group.variants
  BY <1>3
<1>8. Len(sig) = Len(group.variants)
  <2> HIDE DEF sig
  <2>1. DOMAIN sig = 1..Len(group.variants) /\ sig = [v \in 1..Len(group.variants) |-> sig[v]]
    BY <1>2, <1>3, <1>7
  <2>2. QED
    BY <1>2, <2>1
<1>9. QED
  BY <1>6, <1>7, <1>8

\* A floor reaches the requirement where every rung from the requirement on is detected.
LEMMA FloorReaches ==
  ASSUME NEW n \in Nat, NEW sig, DOMAIN sig = 1..n, Len(sig) = n, NEW required \in 1..n
  PROVE  DetectionFloor(sig) # 0 /\ DetectionFloor(sig) <= required
           <=> \A u \in required..n : sig[u] = "DETECTED"
<1> DEFINE begins == {v \in DOMAIN sig : \A u \in v..Len(sig) : sig[u] = "DETECTED"}
<1>1. begins \in SUBSET Nat /\ \A v \in begins : v \in 1..n /\ \A u \in v..n : sig[u] = "DETECTED"
  OBVIOUS
<1>2. (\A u \in required..n : sig[u] = "DETECTED") => required \in begins
  OBVIOUS
<1>3. DetectionFloor(sig) = IF begins = {} THEN 0 ELSE Min(begins)
  BY DEF DetectionFloor
<1> HIDE DEF begins
<1>4. begins # {} => Min(begins) \in begins /\ \A v \in begins : Min(begins) <= v
  <2>1. ASSUME begins # {}
        PROVE  \E v \in begins : \A u \in begins : v <= u
    BY <1>1, <2>1, LeastNumber
  <2>2. QED
    BY <2>1, Zenon DEF Min
<1>5. CASE begins = {}
  BY <1>2, <1>3, <1>5
<1>6. CASE begins # {}
  <2> DEFINE floor == Min(begins)
  <2>1. /\ floor \in 1..n /\ floor # 0 /\ DetectionFloor(sig) = floor
        /\ \A v \in begins : floor <= v
    <3>1. floor \in begins /\ \A v \in begins : floor <= v
      BY <1>4, <1>6
    <3>2. DetectionFloor(sig) = floor
      BY <1>3, <1>6
    <3> HIDE DEF floor
    <3>3. QED
      BY <1>1, <3>1, <3>2
  <2>2. \A u \in floor..n : sig[u] = "DETECTED"
    BY <1>1, <1>4, <1>6
  <2> HIDE DEF floor
  <2>3. floor <= required => \A u \in required..n : u \in floor..n
    BY <2>1
  <2>4. QED
    BY <1>2, <2>1, <2>2, <2>3
<1>7. QED
  BY <1>5, <1>6

\* A group is qualified where it is covered, and unresolved where it is undecided.
LEMMA GroupIs ==
  ASSUME NEW config, Admissible(config), NEW cells, Fills(config, cells), NEW kept, Restates(config, cells, kept),
         NEW W \in SUBSET (DOMAIN config.workloads), NEW g \in DOMAIN config.probe_groups
  PROVE  LET status == AdjudicateSubset(config, OutcomeMap(cells), Ids(config, W)).groups[g].status IN
         /\ status = "QUALIFIED" <=> g \in Covered(config, kept, W)
         /\ status = "UNRESOLVED" <=> g \in Undecided(config, kept, W)
         /\ status \in {"QUALIFIED", "UNRESOLVED", "INSUFFICIENT"}
<1> DEFINE group == config.probe_groups[g]
           n == Len(group.variants)
           sig == Signature(config, cells, W, g)
           required == RequiredIndex(group)
           status == GroupStatus(DetectionFloor(sig), required, sig)
<1>1. n \in Nat /\ DOMAIN group.variants = 1..n
  BY AdmissibleParts, ConfigurationParts
<1>2. required \in 1..n
  BY <1>1, RequiredIsRung
<1>3. AdjudicateSubset(config, OutcomeMap(cells), Ids(config, W)).groups[g].status = status
  BY DEF AdjudicateSubset, AdjudicateGroup, Signature
<1>4. /\ DOMAIN sig = 1..n /\ Len(sig) = n
      /\ \A v \in 1..n : /\ sig[v] = "DETECTED" <=> Sees(kept, W, g, v)
                         /\ sig[v] = "UNRESOLVED" <=> Open(kept, W, g, v)
  BY <1>1, SignatureIs
<1>5. AtStake(config, g) = required..n
  BY DEF AtStake, Required
<1> HIDE DEF n, sig, required
<1>6. \A v \in required..n : v \in 1..n
  BY <1>1, <1>2
<1>7. DetectionFloor(sig) # 0 /\ DetectionFloor(sig) <= required <=> g \in Covered(config, kept, W)
  <2>1. DetectionFloor(sig) # 0 /\ DetectionFloor(sig) <= required <=> \A u \in required..n : sig[u] = "DETECTED"
    BY <1>1, <1>2, <1>4, FloorReaches
  <2>2. QED
    BY <1>4, <1>5, <1>6, <2>1 DEF Covered
<1>8. (\E v \in required..Len(sig) : sig[v] = "UNRESOLVED") <=> g \in Undecided(config, kept, W)
  BY <1>4, <1>5, <1>6 DEF Undecided
<1>9. ~(g \in Covered(config, kept, W) /\ g \in Undecided(config, kept, W))
  BY DEF Covered, Undecided, Open
<1>10. /\ status = "QUALIFIED" <=> g \in Covered(config, kept, W)
       /\ status = "UNRESOLVED" <=> g \in Undecided(config, kept, W)
       /\ status \in {"QUALIFIED", "UNRESOLVED", "INSUFFICIENT"}
  BY <1>7, <1>8, <1>9 DEF GroupStatus
<1>11. QED
  BY <1>3, <1>10

\* What a set of workloads is given, as the comparisons imply it.
LEMMA SubsetIs ==
  ASSUME NEW config, Admissible(config), NEW cells, Fills(config, cells), NEW kept, Restates(config, cells, kept),
         NEW W \in SUBSET (DOMAIN config.workloads)
  PROVE  LET subset == AdjudicateSubset(config, OutcomeMap(cells), Ids(config, W)) IN
         /\ Qualified(subset) = Cardinality(Covered(config, kept, W))
         /\ Unresolved(subset) = Cardinality(Undecided(config, kept, W))
         /\ OverallStatus(subset) = ImpliedStatus(config, kept, W)
         /\ subset.workload_ids = Ascending(Ids(config, W))
<1> DEFINE subset == AdjudicateSubset(config, OutcomeMap(cells), Ids(config, W))
           statuses == {subset.groups[g].status : g \in DOMAIN subset.groups}
<1>1. DOMAIN subset.groups = DOMAIN config.probe_groups /\ subset.workload_ids = Ascending(Ids(config, W))
  BY DEF AdjudicateSubset
<1>2. ASSUME NEW g \in DOMAIN config.probe_groups
      PROVE  /\ subset.groups[g].status = "QUALIFIED" <=> g \in Covered(config, kept, W)
             /\ subset.groups[g].status = "UNRESOLVED" <=> g \in Undecided(config, kept, W)
             /\ subset.groups[g].status \in {"QUALIFIED", "UNRESOLVED", "INSUFFICIENT"}
  BY GroupIs
<1>3. OverallStatus(subset) = IF "UNRESOLVED" \in statuses THEN "UNRESOLVED"
                              ELSE IF statuses = {"QUALIFIED"} THEN "QUALIFIED_FOR_DECLARED_PROBES"
                              ELSE IF "QUALIFIED" \in statuses THEN "PARTIALLY_QUALIFIED"
                              ELSE "INSUFFICIENT_EXCITATION"
  BY DEF OverallStatus
<1>4. \E g \in DOMAIN config.probe_groups : TRUE
  <2>1. config.probe_groups # <<>> /\ config.probe_groups \in Seq(Groups)
    BY AdmissibleParts, ConfigurationParts
  <2>2. 1 \in DOMAIN config.probe_groups
    BY <2>1
  <2>3. QED
    BY <2>2
<1> HIDE DEF subset
<1>5. /\ {g \in DOMAIN subset.groups : subset.groups[g].status = "QUALIFIED"} = Covered(config, kept, W)
      /\ {g \in DOMAIN subset.groups : subset.groups[g].status = "UNRESOLVED"} = Undecided(config, kept, W)
  BY <1>1, <1>2 DEF Covered, Undecided
<1>6. /\ Covered(config, kept, W) \in SUBSET (DOMAIN config.probe_groups)
      /\ Undecided(config, kept, W) \in SUBSET (DOMAIN config.probe_groups)
  BY DEF Covered, Undecided
<1>7. "UNRESOLVED" \in statuses <=> Undecided(config, kept, W) # {}
  BY <1>1, <1>2, <1>6
<1>8. "QUALIFIED" \in statuses <=> Covered(config, kept, W) # {}
  BY <1>1, <1>2, <1>6
<1>9. statuses = {"QUALIFIED"} <=> Covered(config, kept, W) = DOMAIN config.probe_groups
  <2>1. statuses = {"QUALIFIED"} => \A g \in DOMAIN config.probe_groups : g \in Covered(config, kept, W)
    BY <1>1, <1>2
  <2>2. Covered(config, kept, W) = DOMAIN config.probe_groups => statuses = {"QUALIFIED"}
    BY <1>1, <1>2, <1>4
  <2>3. QED
    BY <1>6, <2>1, <2>2
<1>10. OverallStatus(subset) = ImpliedStatus(config, kept, W)
  <2> HIDE DEF statuses
  <2>1. QED
    BY <1>3, <1>7, <1>8, <1>9 DEF ImpliedStatus
<1>11. Qualified(subset) = Cardinality(Covered(config, kept, W)) /\ Unresolved(subset) = Cardinality(Undecided(config, kept, W))
  BY <1>5 DEF Qualified, Unresolved, GroupsWith
<1>12. QED
  BY <1>1, <1>10, <1>11 DEF subset

-----------------------------------------------------------------------------
(* The ranking                                                             *)

\* The order of keys of one length is strict.
LEMMA BeforeIsStrict ==
  ASSUME NEW n \in Nat, NEW a \in Seq(Int), NEW b \in Seq(Int), NEW c \in Seq(Int),
         Len(a) = n, Len(b) = n, Len(c) = n
  PROVE  /\ ~Before(a, a)
         /\ Before(a, b) /\ Before(b, c) => Before(a, c)
<1>1. /\ DOMAIN a = 1..n /\ DOMAIN b = 1..n /\ DOMAIN c = 1..n
      /\ \A i \in 1..n : a[i] \in Int /\ b[i] \in Int /\ c[i] \in Int
  OBVIOUS
<1>2. ~Before(a, a)
  BY <1>1 DEF Before
<1>3. ASSUME Before(a, b), Before(b, c) PROVE Before(a, c)
  <2>1. PICK i \in 1..n : a[i] < b[i] /\ \A j \in 1..(i - 1) : a[j] = b[j]
    BY <1>1, <1>3 DEF Before
  <2>2. PICK k \in 1..n : b[k] < c[k] /\ \A j \in 1..(k - 1) : b[j] = c[j]
    BY <1>1, <1>3 DEF Before
  <2>3. CASE i < k
    <3>1. i \in 1..(k - 1)
      BY <2>3
    <3>2. a[i] < c[i]
      BY <2>1, <2>2, <3>1
    <3>3. \A j \in 1..(i - 1) : j \in 1..(k - 1) /\ a[j] = c[j]
      BY <2>1, <2>2, <2>3
    <3>4. QED
      BY <1>1, <3>2, <3>3 DEF Before
  <2>4. CASE k < i
    <3>1. k \in 1..(i - 1)
      BY <2>4
    <3>2. a[k] < c[k]
      BY <2>1, <2>2, <3>1
    <3>3. \A j \in 1..(k - 1) : j \in 1..(i - 1) /\ a[j] = c[j]
      BY <2>1, <2>2, <2>4
    <3>4. QED
      BY <1>1, <3>2, <3>3 DEF Before
  <2>5. CASE k = i
    <3>1. a[i] < c[i]
      BY <1>1, <2>1, <2>2, <2>5
    <3>2. \A j \in 1..(i - 1) : a[j] = c[j]
      BY <2>1, <2>2, <2>5
    <3>3. QED
      BY <1>1, <3>1, <3>2 DEF Before
  <2>6. QED
    BY <2>3, <2>4, <2>5
<1>4. QED
  BY <1>2, <1>3

\* Finitely many positions have finitely many values.
LEMMA ImageIsFinite ==
  ASSUME NEW n \in Nat, NEW f, DOMAIN f = 1..n
  PROVE  IsFiniteSet({f[i] : i \in 1..n})
<1> DEFINE g == [i \in 1..n |-> f[i]]
<1>1. g \in Surjection(1..n, {f[i] : i \in 1..n})
  BY DEF Surjection
<1>2. IsFiniteSet(1..n)
  BY FS_Interval
<1> HIDE DEF g
<1>3. QED
  BY <1>1, <1>2, FS_Surjection

\* The counts of a ranking are numbers.
LEMMA CountedRungs ==
  ASSUME NEW config, Admissible(config), NEW cells, Fills(config, cells), NEW W \in SUBSET (DOMAIN config.workloads)
  PROVE  LET subset == AdjudicateSubset(config, OutcomeMap(cells), Ids(config, W)) IN
         /\ Qualified(subset) \in Nat /\ Unresolved(subset) \in Nat /\ DetectedVariants(subset) \in Nat
<1> DEFINE subset == AdjudicateSubset(config, OutcomeMap(cells), Ids(config, W))
           n == Len(config.probe_groups)
           Of(g) == {<<g, v>> : v \in {u \in DOMAIN subset.groups[g].detection_signature :
                                         subset.groups[g].detection_signature[u] = "DETECTED"}}
           sets == [g \in 1..n |-> Of(g)]
<1>1. n \in Nat /\ DOMAIN config.probe_groups = 1..n
  BY AdmissibleParts, ConfigurationParts
<1>2. DOMAIN subset.groups = 1..n
  BY <1>1 DEF AdjudicateSubset
<1>3. ASSUME NEW g \in 1..n
      PROVE  IsFiniteSet(Of(g))
  <2> DEFINE m == Len(config.probe_groups[g].variants)
  <2>1. DOMAIN subset.groups[g].detection_signature = 1..m /\ m \in Nat
    <3>1. subset.groups[g].detection_signature = Signature(config, cells, W, g)
      BY <1>1 DEF AdjudicateSubset, AdjudicateGroup, Signature
    <3>2. DOMAIN Signature(config, cells, W, g) = DOMAIN config.probe_groups[g].variants
      BY DEF Signature, CellOutcomesForSubset
    <3>3. DOMAIN config.probe_groups[g].variants = 1..m /\ m \in Nat
      BY <1>1, AdmissibleParts, ConfigurationParts
    <3>4. QED
      BY <3>1, <3>2, <3>3
  <2> HIDE DEF subset, m
  <2>2. Of(g) \in SUBSET ({g} \X (1..m))
    BY <2>1
  <2>3. IsFiniteSet({g} \X (1..m))
    <3>1. IsFiniteSet({g})
      BY FS_Singleton
    <3>2. IsFiniteSet(1..m)
      BY <2>1, FS_Interval
    <3>3. QED
      BY <3>1, <3>2, FS_Product
  <2> HIDE DEF Of
  <2>4. QED
    BY <2>2, <2>3, FS_Subset
<1>4. IsFiniteSet({sets[g] : g \in 1..n})
  <2>1. DOMAIN sets = 1..n
    OBVIOUS
  <2> HIDE DEF sets, n
  <2>2. QED
    BY <1>1, <2>1, ImageIsFinite
<1>5. \A g \in 1..n : sets[g] = Of(g)
  OBVIOUS
<1>6. {Of(g) : g \in DOMAIN subset.groups} = {sets[g] : g \in 1..n}
  <2> HIDE DEF Of, subset, n, sets
  <2>1. QED
    BY <1>2, <1>5
<1>7. IsFiniteSet(UNION {Of(g) : g \in DOMAIN subset.groups})
  <2> DEFINE all == {sets[g] : g \in 1..n}
  <2>1. \A one \in all : IsFiniteSet(one)
    <3> HIDE DEF Of, subset, n, sets
    <3>1. QED
      BY <1>3, <1>5
  <2> HIDE DEF all
  <2>2. IsFiniteSet(UNION all)
    BY <1>4, <2>1, FS_UNION DEF all
  <2> HIDE DEF Of, subset, n, sets
  <2>3. QED
    BY <1>6, <2>2 DEF all
<1>8. DetectedVariants(subset) \in Nat
  <2>1. DetectedVariants(subset) = Cardinality(UNION {Of(g) : g \in DOMAIN subset.groups})
    BY DEF DetectedVariants
  <2> HIDE DEF Of, subset
  <2>2. QED
    BY <1>7, <2>1, FS_CardinalityType
<1>9. \A status : GroupsWith(subset, status) \in Nat
  <2>1. ASSUME NEW status
        PROVE  GroupsWith(subset, status) \in Nat
    <3> DEFINE some == {g \in DOMAIN subset.groups : subset.groups[g].status = status}
    <3> HIDE DEF subset
    <3>1. some \in SUBSET (1..n) /\ IsFiniteSet(1..n)
      BY <1>1, <1>2, FS_Interval
    <3>2. GroupsWith(subset, status) = Cardinality(some)
      BY DEF GroupsWith
    <3> HIDE DEF some
    <3>3. QED
      BY <3>1, <3>2, FS_Subset, FS_CardinalityType
  <2>2. QED
    BY <2>1
<1>10. QED
  BY <1>8, <1>9 DEF Qualified, Unresolved

\* A ranking key has the counts first, in the order of the code.
LEMMA RankKeyIs ==
  ASSUME NEW config, Admissible(config), NEW cells, Fills(config, cells), NEW W \in SUBSET (DOMAIN config.workloads),
         Cardinality(W) = Budget
  PROVE  LET subset == AdjudicateSubset(config, OutcomeMap(cells), Ids(config, W))
             key == RankKey(Summary(subset))
         IN /\ key \in Seq(Int) /\ Len(key) = 3 + Budget
            /\ key[1] = -Qualified(subset) /\ key[2] = Unresolved(subset)
<1> DEFINE subset == AdjudicateSubset(config, OutcomeMap(cells), Ids(config, W))
           q == Qualified(subset)
           u == Unresolved(subset)
           d == DetectedVariants(subset)
           ids == Ascending(Ids(config, W))
<1>1. ids \in Seq(Nat) /\ Len(ids) = Budget
  BY NamedOnce, AscendingMembers
<1>2. q \in Nat /\ u \in Nat /\ d \in Nat
  BY CountedRungs
<1>3. RankKey(Summary(subset)) = <<-q, u, -d>> \o ids
  BY DEF RankKey, Summary, AdjudicateSubset
<1> HIDE DEF subset, q, u, d, ids
<1>4. ids \in Seq(Int)
  BY <1>1
<1>5. <<-q, u, -d>> \in Seq(Int) /\ Len(<<-q, u, -d>>) = 3
  BY <1>2
<1> DEFINE head == <<-q, u, -d>>
<1>6. head[1] = -q /\ head[2] = u
  OBVIOUS
<1> HIDE DEF head
<1>7. /\ head \o ids \in Seq(Int) /\ Len(head \o ids) = 3 + Budget
      /\ (head \o ids)[1] = head[1] /\ (head \o ids)[2] = head[2]
  BY <1>1, <1>4, <1>5 DEF head
<1>8. QED
  BY <1>3, <1>6, <1>7 DEF head, q, u, subset

\* A finite set has finitely many parts of one size, and what is made of each of them.
LEMMA PartsAreFinite ==
  ASSUME NEW S, IsFiniteSet(S), NEW k, NEW f, DOMAIN f = kSubset(k, S)
  PROVE  IsFiniteSet({f[T] : T \in kSubset(k, S)})
<1>1. kSubset(k, S) \in SUBSET (SUBSET S) /\ IsFiniteSet(SUBSET S)
  BY FS_SUBSET DEF kSubset
<1>2. IsFiniteSet(kSubset(k, S))
  BY <1>1, FS_Subset
<1> DEFINE g == [T \in kSubset(k, S) |-> f[T]]
<1>3. g \in Surjection(kSubset(k, S), {f[T] : T \in kSubset(k, S)})
  BY DEF Surjection
<1> HIDE DEF g
<1>4. QED
  BY <1>2, <1>3, FS_Surjection

\* What is decided from the records of a campaign: a best choice of sound workloads, and the status it gives.
LEMMA DecisionIsBest ==
  ASSUME NEW config, Admissible(config), NEW cells, Fills(config, cells), NEW kept, Restates(config, cells, kept),
         Len(EligibleIds(cells)) >= config.budget
  PROVE  \E W \in kSubset(Budget, Sound(config, kept)) :
           LET decision == Decide(config, OutcomeMap(cells), EligibleIds(cells)) IN
           /\ decision.selected = AdjudicateSubset(config, OutcomeMap(cells), Ids(config, W))
           /\ decision.status = ImpliedStatus(config, kept, W)
           /\ decision.selected.workload_ids = Ascending(Ids(config, W))
           /\ BestChoice(config, kept, W)
<1> DEFINE S == Sound(config, kept)
           eligible == ToSet(EligibleIds(cells))
           Of(ids) == Summary(AdjudicateSubset(config, OutcomeMap(cells), ids))
           summaries == {Of(ids) : ids \in kSubset(config.budget, eligible)}
           R == {pair \in summaries \X summaries : Ranks(pair[1], pair[2])}
           ranking == Ordered(summaries, R)
           selected == AdjudicateSubset(config, OutcomeMap(cells), ToSet(ranking[1].workload_ids))
<1>1. /\ eligible = Ids(config, S) /\ Len(EligibleIds(cells)) = Cardinality(S) /\ S \in SUBSET (DOMAIN config.workloads)
  BY EligibleAreSound
<1>2. config.budget = Budget /\ Budget \in Nat
  BY AdmissibleParts, BudgetAssumption
<1>3. /\ IsFiniteSet(S) /\ IsFiniteSet(eligible) /\ Cardinality(eligible) = Cardinality(S)
  BY <1>1, NamedOnce
<1> HIDE DEF S, eligible
<1>4. ASSUME NEW ids \in kSubset(config.budget, eligible)
      PROVE  \E W \in kSubset(Budget, S) : ids = Ids(config, W)
  <2> DEFINE W == {w \in S : config.workloads[w].workload_id \in ids}
  <2>1. ids \in SUBSET eligible /\ Cardinality(ids) = Budget
    BY <1>2 DEF kSubset
  <2>2. Ids(config, W) = ids
    BY <1>1, <2>1 DEF Ids
  <2>3. W \in SUBSET S /\ W \in SUBSET (DOMAIN config.workloads)
    BY <1>1
  <2> HIDE DEF W
  <2>4. Cardinality(W) = Budget
    BY <2>1, <2>2, <2>3, NamedOnce
  <2>5. QED
    BY <2>2, <2>3, <2>4 DEF kSubset
<1>5. ASSUME NEW W \in kSubset(Budget, S)
      PROVE  /\ W \in SUBSET (DOMAIN config.workloads) /\ Cardinality(W) = Budget
             /\ Ids(config, W) \in kSubset(config.budget, eligible)
  <2>1. W \in SUBSET S /\ Cardinality(W) = Budget
    BY DEF kSubset
  <2>2. W \in SUBSET (DOMAIN config.workloads)
    BY <1>1, <2>1
  <2>3. Cardinality(Ids(config, W)) = Budget
    BY <2>1, <2>2, NamedOnce
  <2>4. Ids(config, W) \in SUBSET eligible
    BY <1>1, <2>1 DEF Ids
  <2>5. QED
    BY <1>2, <2>1, <2>2, <2>3, <2>4 DEF kSubset
<1>6. IsFiniteSet(summaries)
  <2> DEFINE f == [ids \in kSubset(config.budget, eligible) |-> Of(ids)]
  <2>1. DOMAIN f = kSubset(config.budget, eligible) /\ \A ids \in kSubset(config.budget, eligible) : f[ids] = Of(ids)
    OBVIOUS
  <2> HIDE DEF f, Of
  <2>2. IsFiniteSet({f[ids] : ids \in kSubset(config.budget, eligible)})
    BY <1>3, <2>1, PartsAreFinite
  <2>3. QED
    BY <2>1, <2>2
<1>7. summaries # {}
  <2>1. Cardinality(eligible) \in Nat /\ config.budget \in 0..Cardinality(eligible)
    BY <1>1, <1>2, <1>3, FS_CardinalityType
  <2>2. kSubset(config.budget, eligible) # {}
    BY <1>3, <2>1, PartOfSize
  <2> HIDE DEF Of
  <2>3. QED
    BY <2>2
<1>8. ASSUME NEW x \in summaries
      PROVE  RankKey(x) \in Seq(Int) /\ Len(RankKey(x)) = 3 + Budget
  <2>1. PICK ids \in kSubset(config.budget, eligible) : x = Of(ids)
    OBVIOUS
  <2>2. PICK W \in kSubset(Budget, S) : ids = Ids(config, W)
    BY <1>4
  <2>3. W \in SUBSET (DOMAIN config.workloads) /\ Cardinality(W) = Budget
    BY <1>5
  <2>4. RankKey(Of(Ids(config, W))) \in Seq(Int) /\ Len(RankKey(Of(Ids(config, W)))) = 3 + Budget
    BY <2>3, RankKeyIs
  <2> HIDE DEF Of
  <2>5. QED
    BY <2>1, <2>2, <2>4
<1>9. \A x, y \in summaries : <<x, y>> \in R <=> Ranks(x, y)
  <2> HIDE DEF summaries
  <2>1. QED
    OBVIOUS
<1>10. StrictOrder(summaries, R)
  <2> HIDE DEF summaries, R
  <2>1. 3 + Budget \in Nat
    BY <1>2
  <2>2. ASSUME NEW x \in summaries, NEW y \in summaries, NEW z \in summaries
        PROVE  ~Ranks(x, x) /\ (Ranks(x, y) /\ Ranks(y, z) => Ranks(x, z))
    <3>1. /\ RankKey(x) \in Seq(Int) /\ RankKey(y) \in Seq(Int) /\ RankKey(z) \in Seq(Int)
          /\ Len(RankKey(x)) = 3 + Budget /\ Len(RankKey(y)) = 3 + Budget /\ Len(RankKey(z)) = 3 + Budget
      BY <1>8
    <3>2. ~Before(RankKey(x), RankKey(x))
          /\ (Before(RankKey(x), RankKey(y)) /\ Before(RankKey(y), RankKey(z)) => Before(RankKey(x), RankKey(z)))
      BY <2>1, <3>1, BeforeIsStrict
    <3>3. QED
      BY <3>2 DEF Ranks
  <2>3. QED
    BY <1>9, <2>2 DEF StrictOrder
<1> DEFINE first == ranking[1]
<1>11. first \in summaries /\ \A y \in summaries : ~Ranks(y, first)
  <2> HIDE DEF summaries, R
  <2>1. first \in summaries /\ \A y \in summaries : <<y, first>> \notin R
    BY <1>6, <1>7, <1>10, OrderedFirst
  <2>2. QED
    BY <1>9, <2>1
<1>12. PICK W \in kSubset(Budget, S) : first = Of(Ids(config, W))
  <2> HIDE DEF first, Of
  <2>1. PICK ids \in kSubset(config.budget, eligible) : first = Of(ids)
    BY <1>11
  <2>2. QED
    BY <1>4, <2>1
<1>13. W \in SUBSET (DOMAIN config.workloads) /\ Cardinality(W) = Budget
  BY <1>5
<1>14. ToSet(first.workload_ids) = Ids(config, W)
  <2>1. first.workload_ids = Ascending(Ids(config, W))
    <3>1. Of(Ids(config, W)).workload_ids = Ascending(Ids(config, W))
      BY DEF Summary, AdjudicateSubset
    <3> HIDE DEF first, Of
    <3>2. QED
      BY <1>12, <3>1
  <2> HIDE DEF first
  <2>2. QED
    BY <1>13, <2>1, NamedOnce, AscendingMembers
<1> DEFINE decision == Decide(config, OutcomeMap(cells), EligibleIds(cells))
<1>15. decision.selected = selected /\ decision.status = OverallStatus(selected)
  BY DEF Decide, eligible
<1>16. selected = AdjudicateSubset(config, OutcomeMap(cells), Ids(config, W))
  <2> HIDE DEF summaries, R
  <2>1. QED
    BY <1>14
<1>17. OverallStatus(selected) = ImpliedStatus(config, kept, W) /\ selected.workload_ids = Ascending(Ids(config, W))
  <2> HIDE DEF selected
  <2>1. QED
    BY <1>13, <1>16, SubsetIs
<1>18. BestChoice(config, kept, W)
  <2>1. ASSUME NEW other \in kSubset(Budget, S)
        PROVE  LET more == Cardinality(Covered(config, kept, other))
                   most == Cardinality(Covered(config, kept, W))
               IN \/ more < most
                  \/ more = most /\ Cardinality(Undecided(config, kept, other)) >= Cardinality(Undecided(config, kept, W))
    <3> DEFINE Sub(V) == AdjudicateSubset(config, OutcomeMap(cells), Ids(config, V))
               qo == Qualified(Sub(other))
               uo == Unresolved(Sub(other))
               qw == Qualified(Sub(W))
               uw == Unresolved(Sub(W))
               a == RankKey(Of(Ids(config, other)))
               b == RankKey(Of(Ids(config, W)))
    <3>1. other \in SUBSET (DOMAIN config.workloads) /\ Cardinality(other) = Budget
      BY <1>5
    <3>2. Of(Ids(config, other)) \in summaries
      <4> HIDE DEF Of
      <4>1. QED
        BY <1>5
    <3>3. ~Before(a, b)
      <4> HIDE DEF Of, summaries, first
      <4>1. QED
        BY <1>11, <1>12, <3>2 DEF Ranks
    <3>4. a \in Seq(Int) /\ Len(a) = 3 + Budget /\ a[1] = -qo /\ a[2] = uo
      BY <3>1, RankKeyIs
    <3>5. b \in Seq(Int) /\ Len(b) = 3 + Budget /\ b[1] = -qw /\ b[2] = uw
      BY <1>13, RankKeyIs
    <3>6. qo \in Nat /\ uo \in Nat
      BY <3>1, CountedRungs
    <3>7. qw \in Nat /\ uw \in Nat
      BY <1>13, CountedRungs
    <3>8. /\ qo = Cardinality(Covered(config, kept, other)) /\ uo = Cardinality(Undecided(config, kept, other))
      BY <3>1, SubsetIs
    <3>9. /\ qw = Cardinality(Covered(config, kept, W)) /\ uw = Cardinality(Undecided(config, kept, W))
      BY <1>13, SubsetIs
    <3> HIDE DEF a, b, qo, uo, qw, uw
    <3>10. 1 \in DOMAIN a /\ 2 \in DOMAIN a
      BY <1>2, <3>4
    <3>11. ~(a[1] < b[1])
      BY <3>3, <3>10 DEF Before
    <3>12. ~(a[1] = b[1] /\ a[2] < b[2])
      <4>1. \A j \in 1..(2 - 1) : j = 1
        OBVIOUS
      <4>2. QED
        BY <3>3, <3>10, <4>1 DEF Before
    <3>13. qo < qw \/ (qo = qw /\ uo >= uw)
      BY <3>4, <3>5, <3>6, <3>7, <3>11, <3>12
    <3>14. QED
      BY <3>8, <3>9, <3>13
  <2>2. QED
    BY <2>1 DEF BestChoice, S
<1>19. QED
  <2> HIDE DEF selected
  <2>1. QED
    BY <1>15, <1>16, <1>17, <1>18 DEF S

-----------------------------------------------------------------------------
(* The documents the loader accepts                                        *)

\* The records of a well-formed document fill the cells of its configuration.
LEMMA RecordsFill ==
  ASSUME NEW config, Admissible(config), NEW doc, WellFormed(doc), KeysMatch(config, doc),
         \A r \in ToSet(doc.probe_cells) : CellFollows(config, r)
  PROVE  /\ Fills(config, Records(doc))
         /\ ToSet(Records(doc)) = ToSet(doc.zero_change_controls) \cup ToSet(doc.probe_cells)
<1> DEFINE c == doc.zero_change_controls
           p == doc.probe_cells
           n == Len(config.workloads)
           m == Len(ProbeKeys(config))
           all == ToSet(c) \cup ToSet(p)
<1>1. c \in Seq(ToSet(c)) /\ p \in Seq(ToSet(p))
  BY DEF WellFormed, IsArray
<1>2. config \in Configurations /\ DOMAIN config.workloads = 1..n /\ n \in Nat
  BY AdmissibleParts, ConfigurationParts
<1>3. ProbeKeys(config) \in Seq(Triples) /\ DOMAIN ProbeKeys(config) = 1..m /\ m \in Nat
  <2>1. ProbeKeys(config) \in Seq(Triples)
    BY <1>2, ProbeKeysMembers
  <2>2. QED
    BY <2>1
<1> HIDE DEF c, p, n, m
<1>4. /\ DOMAIN c = 1..n
      /\ \A i \in 1..n : c[i].key = <<i, 0, 0>> /\ c[i].workload_id = config.workloads[i].workload_id
  <2> DEFINE left == [i \in DOMAIN c |-> <<c[i].key, c[i].workload_id>>]
             right == [w \in DOMAIN config.workloads |-> <<<<w, 0, 0>>, config.workloads[w].workload_id>>]
  <2>1. left = right
    BY DEF KeysMatch, c
  <2>2. DOMAIN left = DOMAIN c /\ DOMAIN right = 1..n
    BY <1>2
  <2>3. ASSUME NEW i \in 1..n
        PROVE  c[i].key = <<i, 0, 0>> /\ c[i].workload_id = config.workloads[i].workload_id
    <3>1. left[i] = <<c[i].key, c[i].workload_id>>
      BY <2>1, <2>2
    <3>2. right[i] = <<<<i, 0, 0>>, config.workloads[i].workload_id>>
      BY <1>2
    <3> HIDE DEF left, right
    <3>3. <<c[i].key, c[i].workload_id>> = <<<<i, 0, 0>>, config.workloads[i].workload_id>>
      BY <2>1, <3>1, <3>2
    <3>4. QED
      BY <3>3
  <2> HIDE DEF left, right
  <2>4. QED
    BY <2>1, <2>2, <2>3
<1>5. DOMAIN p = 1..m /\ \A i \in 1..m : p[i].key = ProbeKeys(config)[i]
  <2> DEFINE left == [i \in DOMAIN p |-> p[i].key]
  <2>1. left = ProbeKeys(config)
    BY DEF KeysMatch, p
  <2>2. DOMAIN left = DOMAIN p /\ \A i \in DOMAIN p : left[i] = p[i].key
    OBVIOUS
  <2> HIDE DEF left
  <2>3. QED
    BY <1>3, <2>1, <2>2
<1>6. Len(c) = n /\ Len(p) = m
  BY <1>1, <1>2, <1>3, <1>4, <1>5
<1>7. c \in Seq(all) /\ p \in Seq(all)
  BY <1>1
<1> DEFINE cells == c \o p
<1>8. /\ cells \in Seq(all) /\ Len(cells) = n + m /\ ToSet(cells) = all
  <2> HIDE DEF all
  <2>1. cells \in Seq(all) /\ Len(cells) = Len(c) + Len(p) /\ ToSet(cells) = ToSet(c) \cup ToSet(p)
    BY <1>7, ConcatSet
  <2>2. QED
    BY <1>6, <2>1 DEF all
<1>9. /\ \A i \in 1..n : cells[i] = c[i]
      /\ \A i \in 1..m : cells[n + i] = p[i]
  BY <1>2, <1>3, <1>6, <1>7
<1> HIDE DEF cells
<1>10. ASSUME NEW i \in 1..(n + m)
       PROVE  cells[i].key = Keys(config)[i]
  <2>1. CASE i <= n
    <3>1. i \in 1..n
      BY <1>2, <1>3, <2>1
    <3>2. Keys(config)[i] = <<i, 0, 0>>
      BY <1>2, <3>1, KeysMembers DEF n
    <3>3. QED
      BY <1>4, <1>9, <3>1, <3>2
  <2>2. CASE i > n
    <3>1. i - n \in 1..m /\ n + (i - n) = i
      BY <1>2, <1>3, <2>2
    <3>2. Keys(config)[n + (i - n)] = ProbeKeys(config)[i - n]
      BY <1>2, <3>1, KeysMembers DEF n, m
    <3>3. cells[n + (i - n)] = p[i - n] /\ p[i - n].key = ProbeKeys(config)[i - n]
      BY <1>5, <1>9, <3>1
    <3>4. QED
      BY <3>1, <3>2, <3>3
  <2>3. QED
    BY <1>2, <1>3, <2>1, <2>2
<1>11. ASSUME NEW r \in ToSet(c)
       PROVE  r.workload_id = config.workloads[r.key[1]].workload_id /\ r.key[2] = 0
  <2>1. PICK i \in 1..n : r = c[i]
    BY <1>4 DEF ToSet
  <2>2. r.key = <<i, 0, 0>> /\ r.workload_id = config.workloads[i].workload_id
    BY <1>4, <2>1
  <2>3. QED
    BY <2>2
<1>12. ASSUME NEW r \in ToSet(p)
       PROVE  /\ r.workload_id = config.workloads[r.key[1]].workload_id
              /\ r.probe_id = config.probe_groups[r.key[2]].probe_id
              /\ r.outcome = DetectionOutcome(r.status)
  BY DEF CellFollows, p
<1>13. Records(doc) = cells
  BY DEF Records, cells, c, p
<1>14. Len(Keys(config)) = n + m
  BY <1>2, KeysMembers DEF n, m
<1>15. Fills(config, cells)
  <2>1. cells \in Seq(ToSet(cells)) /\ Len(cells) = Len(Keys(config))
    BY <1>8, <1>14
  <2>2. \A i \in 1..Len(cells) : cells[i].key = Keys(config)[i]
    BY <1>8, <1>10
  <2>3. \A r \in ToSet(cells) : r.workload_id = config.workloads[r.key[1]].workload_id
    BY <1>8, <1>11, <1>12
  <2>4. \A r \in ToSet(cells) : r.key[2] # 0 =>
          r.probe_id = config.probe_groups[r.key[2]].probe_id /\ r.outcome = DetectionOutcome(r.status)
    BY <1>8, <1>11, <1>12
  <2>5. QED
    BY <2>1, <2>2, <2>3, <2>4 DEF Fills
<1>16. QED
  BY <1>8, <1>13, <1>15 DEF c, p

\* What a concatenation ends with.
LEMMA SuffixOfConcat ==
  ASSUME NEW S, NEW s \in Seq(S), NEW t \in Seq(S)
  PROVE  IsSuffix(t, s \o t)
<1> DEFINE u == s \o t
           a == Reverse(t)
           b == Reverse(u)
           m == Len(t)
           n == Len(s)
<1>1. /\ m \in Nat /\ n \in Nat /\ Len(u) = n + m
      /\ \A i \in 1..m : u[n + i] = t[i]
  OBVIOUS
<1>2. /\ DOMAIN a = 1..m /\ DOMAIN b = 1..(n + m)
      /\ \A i \in 1..m : a[i] = t[(m - i) + 1]
      /\ \A i \in 1..(n + m) : b[i] = u[((n + m) - i) + 1]
  BY <1>1 DEF Reverse
<1>3. Len(a) = m /\ Len(b) = n + m
  <2>1. a = [i \in 1..m |-> t[(m - i) + 1]] /\ b = [i \in 1..(n + m) |-> u[((n + m) - i) + 1]]
    BY <1>1 DEF Reverse
  <2> HIDE DEF m, n, u, a, b
  <2>2. QED
    BY <1>1, <2>1
<1> HIDE DEF m, n, u, a, b
<1>4. ASSUME NEW i \in 1..m PROVE a[i] = b[i]
  <2>1. (m - i) + 1 \in 1..m /\ i \in 1..(n + m) /\ n + ((m - i) + 1) = ((n + m) - i) + 1
    BY <1>1
  <2>2. u[n + ((m - i) + 1)] = t[(m - i) + 1]
    BY <1>1, <2>1
  <2>3. QED
    BY <1>2, <2>1, <2>2
<1>5. a \in Seq(S) /\ b \in Seq(S)
  <2>1. \A i \in 1..m : (m - i) + 1 \in 1..m
    BY <1>1
  <2>2. \A i \in 1..(n + m) : ((n + m) - i) + 1 \in 1..(n + m)
    BY <1>1
  <2>3. a \in [1..m -> S]
    BY <1>2, <2>1, <1>1 DEF a, m, Reverse
  <2>4. u \in Seq(S)
    BY DEF u
  <2>5. b \in [1..(n + m) -> S]
    BY <1>1, <2>2, <2>4 DEF b, Reverse
  <2>6. n + m \in Nat
    BY <1>1
  <2>7. \A k \in Nat : \A f \in [1..k -> S] : f \in Seq(S)
    OBVIOUS
  <2>8. QED
    BY ONLY <1>1, <2>3, <2>5, <2>6, <2>7
<1>6. SubSeq(a, 1, Len(a)) = SubSeq(b, 1, Len(a))
  <2>1. Len(a) = m /\ m <= Len(b) /\ m \in Nat /\ Len(b) \in Nat
    BY <1>1, <1>3
  <2>2. /\ SubSeq(a, 1, m) \in Seq(S) /\ Len(SubSeq(a, 1, m)) = m
        /\ \A i \in 1..m : SubSeq(a, 1, m)[i] = a[i]
    BY <1>5, <2>1
  <2>3. /\ SubSeq(b, 1, m) \in Seq(S) /\ Len(SubSeq(b, 1, m)) = m
        /\ \A i \in 1..m : SubSeq(b, 1, m)[i] = b[i]
    BY <1>5, <2>1
  <2>4. QED
    BY <1>4, <2>1, <2>2, <2>3
<1>7. Len(a) <= Len(b)
  BY <1>1, <1>3
<1>8. IsPrefix(a, b)
  BY <1>6, <1>7 DEF IsPrefix
<1>9. QED
  BY <1>8 DEF IsSuffix, a, b, u

Cells(config) == ToSet(Keys(config))

\* What the checks of the linked members say of each record.
LEMMA LinkedRecords ==
  ASSUME NEW doc, NEW files0, NEW place0, ValidateLinkedMembers(doc, files0, place0)
  PROVE  /\ Admissible(doc.configuration) /\ files0[Admitted].doc = doc.configuration
         /\ \A r \in ToSet(Records(doc)) : LinkedCell(r, files0)
         /\ BindGeneratedConfigurations(doc.configuration, doc, files0, place0)
         /\ \A r \in ToSet(Records(doc)) :
              /\ files0[r.receipt_locator].inputs.baseline = doc.campaign_identity.baseline
              /\ files0[r.receipt_locator].inputs.tool = doc.campaign_identity.tool
              /\ files0[r.receipt_locator].inputs.environment = doc.campaign_identity.environment
<1>1. /\ LinkedConfiguration(doc, files0)
      /\ \A r \in ToSet(Records(doc)) : LinkedCell(r, files0)
      /\ BindGeneratedConfigurations(doc.configuration, doc, files0, place0)
      /\ BindCampaignIdentity(doc, [r \in ToSet(Records(doc)) |-> files0[r.receipt_locator]])
  BY DEF ValidateLinkedMembers
<1>2. Admissible(doc.configuration) /\ files0[Admitted].doc = doc.configuration
  BY <1>1 DEF LinkedConfiguration
<1>3. ASSUME NEW r \in ToSet(Records(doc))
      PROVE  /\ files0[r.receipt_locator].inputs.baseline = doc.campaign_identity.baseline
             /\ files0[r.receipt_locator].inputs.tool = doc.campaign_identity.tool
             /\ files0[r.receipt_locator].inputs.environment = doc.campaign_identity.environment
  BY <1>1 DEF BindCampaignIdentity
<1>4. QED
  BY <1>1, <1>2, <1>3

\* The parts a cell names are paths of the configuration.
LEMMA OfCell ==
  ASSUME NEW config, Admissible(config), NEW key \in Cells(config)
  PROVE  /\ key[1] \in DOMAIN config.workloads
         /\ config.workloads[key[1]].initial_state \in Paths /\ config.workloads[key[1]].actions \in Paths
         /\ Candidate(config, key) \in Roles /\ config.baseline \in Roles
<1>1. config \in Configurations
  BY AdmissibleParts
<1>2. (key[1] \in DOMAIN config.workloads /\ key = <<key[1], 0, 0>>) \/ IsRung(config, key)
  BY <1>1, KeysMembers DEF Cells
<1>3. key[1] \in DOMAIN config.workloads
  BY <1>2 DEF IsRung
<1>4. config.workloads[key[1]] \in Workloads
  BY <1>1, <1>3, ConfigurationParts
<1>5. config.baseline \in Roles
  BY <1>1, ConfigurationParts
<1>6. CASE key = <<key[1], 0, 0>>
  <2>1. key[2] = 0
    BY <1>6
  <2>2. Candidate(config, key) = config.baseline
    BY <2>1 DEF Candidate, IsControl
  <2>3. QED
    BY <1>3, <1>4, <1>5, <2>2 DEF Workloads
<1>7. CASE IsRung(config, key)
  <2>1. key[2] # 0 /\ key[2] \in DOMAIN config.probe_groups
    BY <1>1, <1>7, ConfigurationParts DEF IsRung
  <2>2. config.probe_groups[key[2]].variants[key[3]] \in Variants
    <3>1. config.probe_groups[key[2]].variants \in Seq(Variants) /\ key[3] \in DOMAIN config.probe_groups[key[2]].variants
      BY <1>1, <1>7, <2>1, ConfigurationParts DEF IsRung
    <3>2. QED
      BY <3>1
  <2>3. Candidate(config, key) = config.probe_groups[key[2]].variants[key[3]].candidate
    BY <2>1 DEF Candidate, IsControl
  <2>4. Candidate(config, key) \in Roles
    BY <2>2, <2>3 DEF Variants
  <2>5. QED
    BY <1>3, <1>4, <1>5, <2>4 DEF Workloads
<1>8. QED
  BY <1>2, <1>6, <1>7

Located(config, base, key, comparison) ==
  /\ comparison.baseline.model_root = base \o config.baseline.model_root
  /\ comparison.candidate.model_root = base \o Candidate(config, key).model_root
  /\ comparison.initial_state = base \o config.workloads[key[1]].initial_state
  /\ comparison.actions = base \o config.workloads[key[1]].actions

\* The comparison generated for a cell is located under the base.
LEMMA ComparisonMembers ==
  ASSUME NEW config, Admissible(config), NEW key \in Cells(config), NEW base, NEW root
  PROVE  Located(config, base, key, ComparisonPrimitive(config, base, key, root))
<1>1. config.baseline \in Roles /\ Candidate(config, key) \in Roles
  BY OfCell
<1>2. ASSUME NEW role \in Roles PROVE Under(base, role).model_root = base \o role.model_root
  BY DEF Under, Roles
<1> DEFINE comparison == ComparisonPrimitive(config, base, key, root)
<1>3. /\ comparison.baseline = Under(base, config.baseline)
      /\ comparison.candidate = Under(base, Candidate(config, key))
      /\ comparison.initial_state = base \o config.workloads[key[1]].initial_state
      /\ comparison.actions = base \o config.workloads[key[1]].actions
  BY DEF ComparisonPrimitive
<1> HIDE DEF comparison
<1>4. /\ comparison.baseline.model_root = base \o config.baseline.model_root
      /\ comparison.candidate.model_root = base \o Candidate(config, key).model_root
  BY <1>1, <1>2, <1>3
<1>5. QED
  BY <1>3, <1>4 DEF comparison, Located

\* Where a comparison writes does not change what it compares.
LEMMA ComparisonMoved ==
  ASSUME NEW config, NEW key, NEW base, NEW root, NEW there, NEW moved,
         moved = [ComparisonPrimitive(config, base, key, root) EXCEPT !.output_dir = there]
  PROVE  /\ moved.baseline = ComparisonPrimitive(config, base, key, root).baseline
         /\ moved.candidate = ComparisonPrimitive(config, base, key, root).candidate
         /\ moved.initial_state = ComparisonPrimitive(config, base, key, root).initial_state
         /\ moved.actions = ComparisonPrimitive(config, base, key, root).actions
BY DEF ComparisonPrimitive

\* A linked comparison that passed the binding is one of its record's own cell.
LEMMA GeneratedCompares ==
  ASSUME NEW config, Admissible(config), NEW doc, NEW files0, NEW place0,
         BindGeneratedConfigurations(config, doc, files0, place0),
         NEW r \in ToSet(Records(doc)), r.key \in Cells(config)
  PROVE  ComparesCell(config, r.key, files0[r.config_locator])
<1> DEFINE At(s) == files0[s.config_locator]
           Bases(s) == DeclaredCampaignBase(At(s).baseline.model_root, config.baseline.model_root)
           bases == UNION {Bases(s) : s \in ToSet(Records(doc))}
           roots == UNION {RecordedOutputRoot(At(s), s, place0) : s \in ToSet(Records(doc))}
<1>1. /\ RequireSingle(roots)
      /\ \A s \in ToSet(Records(doc)) : Bases(s) # {} /\ RecordedOutputRoot(At(s), s, place0) # {}
      /\ \A s \in ToSet(Records(doc)), base \in bases, root \in roots :
           At(s) = [ComparisonPrimitive(config, base, s.key, root)
                      EXCEPT !.output_dir = [root |-> root, cell |-> s.receipt_locator[1]]]
  BY DEF BindGeneratedConfigurations
<1>2. PICK base \in Bases(r) : TRUE
  BY <1>1
<1>3. PICK root \in RecordedOutputRoot(At(r), r, place0) : TRUE
  BY <1>1
<1>4. base \in bases /\ root \in roots
  <2> HIDE DEF Bases, At
  <2>1. QED
    BY <1>2, <1>3
<1>5. base \in Seq(STRING)
  <2> DEFINE observed == At(r).baseline.model_root
             declared == config.baseline.model_root
  <2>1. observed \in Seq(STRING) /\ base = SubSeq(observed, 1, Len(observed) - Len(declared))
    BY <1>2 DEF DeclaredCampaignBase, Paths
  <2>2. declared \in Seq(STRING)
    BY OfCell DEF Roles, Paths
  <2> HIDE DEF observed, declared
  <2>3. Len(observed) - Len(declared) <= Len(observed) /\ Len(observed) \in Nat /\ Len(declared) \in Nat
    BY <2>1, <2>2
  <2>4. \A i \in 1..(Len(observed) - Len(declared)) : i \in 1..Len(observed)
    BY <2>3
  <2>5. SubSeq(observed, 1, Len(observed) - Len(declared)) \in Seq(STRING)
    BY <2>1, <2>3, <2>4
  <2>6. QED
    BY <2>1, <2>5
<1> DEFINE comparison == ComparisonPrimitive(config, base, r.key, root)
           there == [root |-> root, cell |-> r.receipt_locator[1]]
<1>6. At(r) = [comparison EXCEPT !.output_dir = there]
  <2> HIDE DEF At, Bases, bases, roots
  <2>1. QED
    BY <1>1, <1>4
<1>7. /\ At(r).baseline = comparison.baseline /\ At(r).candidate = comparison.candidate
      /\ At(r).initial_state = comparison.initial_state /\ At(r).actions = comparison.actions
  <2> HIDE DEF At, there
  <2>1. QED
    BY <1>6, ComparisonMoved
<1>8. /\ comparison.baseline.model_root = base \o config.baseline.model_root
      /\ comparison.candidate.model_root = base \o Candidate(config, r.key).model_root
      /\ comparison.initial_state = base \o config.workloads[r.key[1]].initial_state
      /\ comparison.actions = base \o config.workloads[r.key[1]].actions
  <2> HIDE DEF Bases, At, bases, roots, there
  <2>1. Located(config, base, r.key, comparison)
    BY ComparisonMembers
  <2> HIDE DEF comparison
  <2>2. QED
    BY <2>1 DEF Located
<1>9. /\ config.baseline.model_root \in Seq(STRING) /\ Candidate(config, r.key).model_root \in Seq(STRING)
      /\ config.workloads[r.key[1]].initial_state \in Seq(STRING) /\ config.workloads[r.key[1]].actions \in Seq(STRING)
  BY OfCell DEF Roles, Paths
<1> HIDE DEF comparison
<1>10. /\ IsSuffix(config.baseline.model_root, base \o config.baseline.model_root)
       /\ IsSuffix(Candidate(config, r.key).model_root, base \o Candidate(config, r.key).model_root)
       /\ IsSuffix(config.workloads[r.key[1]].initial_state, base \o config.workloads[r.key[1]].initial_state)
       /\ IsSuffix(config.workloads[r.key[1]].actions, base \o config.workloads[r.key[1]].actions)
  BY <1>5, <1>9, SuffixOfConcat
<1>11. QED
  BY <1>7, <1>8, <1>10 DEF ComparesCell

\* What the loader accepts says what the comparisons it links imply.
LEMMA AcceptedDocument ==
  ASSUME NEW shown, NEW files0, NEW place0, LoadAndValidate(shown, files0, place0)
  PROVE  LET doc == shown.body
             config == files0[Admitted].doc
             kept == Linked(doc, files0)
             chosen == Chosen(config, doc)
         IN /\ chosen \in kSubset(Budget, Sound(config, kept))
            /\ BestChoice(config, kept, chosen)
            /\ doc.status = ImpliedStatus(config, kept, chosen)
            /\ \A key \in ToSet(Keys(config)) :
                 /\ ComparesCell(config, key, kept[key].configuration)
                 /\ kept[key].inputs.baseline = doc.campaign_identity.baseline
                 /\ kept[key].inputs.tool = doc.campaign_identity.tool
                 /\ kept[key].inputs.environment = doc.campaign_identity.environment
<1> DEFINE doc == shown.body
           config == doc.configuration
           cells == Records(doc)
           kept == Linked(doc, files0)
           decision == Decide(config, OutcomeMap(cells), EligibleIds(cells))
<1>1. WellFormed(doc) /\ Reconstruct(config, doc) /\ ValidateLinkedMembers(doc, files0, place0)
  BY DEF LoadAndValidate, ValidateQualificationReceipt
<1> HIDE DEF doc
<1>2. Admissible(config) /\ files0[Admitted].doc = config
  BY <1>1, LinkedRecords
<1>3. Fills(config, cells)
  BY <1>1, <1>2, RecordsFill DEF Reconstruct
<1>4. config \in Configurations
  BY <1>2, AdmissibleParts
<1>5. ASSUME NEW key \in ToSet(Keys(config))
      PROVE  /\ Cell(cells, key) \in ToSet(cells) /\ Cell(cells, key).key = key
             /\ kept[key] = files0[Cell(cells, key).receipt_locator]
  BY <1>3, <1>4, CellsAreFilled DEF Linked
<1> HIDE DEF kept, cells
<1>6. Restates(config, cells, kept)
  <2>1. ASSUME NEW key \in ToSet(Keys(config)) PROVE kept[key].status = Cell(cells, key).status
    <3>1. LinkedCell(Cell(cells, key), files0)
      BY <1>1, <1>5, LinkedRecords DEF cells
    <3>2. QED
      BY <1>5, <3>1 DEF LinkedCell
  <2>2. QED
    BY <2>1 DEF Restates
<1>7. /\ doc.eligible_workload_ids = EligibleIds(cells) /\ Len(EligibleIds(cells)) >= config.budget
      /\ doc.selected_workload_ids = decision.selected.workload_ids /\ doc.status = decision.status
  <2>1. doc.eligible_workload_ids = EligibleIds(cells) /\ Len(doc.eligible_workload_ids) >= config.budget
        /\ ReconstructSelection(config, doc, Decide(config, OutcomeMap(cells), doc.eligible_workload_ids))
    BY <1>1 DEF Reconstruct, cells
  <2> HIDE DEF decision
  <2>2. ReconstructSelection(config, doc, decision)
    BY <2>1 DEF decision
  <2>3. QED
    BY <2>1, <2>2 DEF ReconstructSelection
<1>8. PICK W \in kSubset(Budget, Sound(config, kept)) :
        /\ decision.status = ImpliedStatus(config, kept, W)
        /\ decision.selected.workload_ids = Ascending(Ids(config, W))
        /\ BestChoice(config, kept, W)
  <2> HIDE DEF decision
  <2>1. \E W \in kSubset(Budget, Sound(config, kept)) :
          /\ decision.selected = AdjudicateSubset(config, OutcomeMap(cells), Ids(config, W))
          /\ decision.status = ImpliedStatus(config, kept, W)
          /\ decision.selected.workload_ids = Ascending(Ids(config, W))
          /\ BestChoice(config, kept, W)
    BY <1>2, <1>3, <1>6, <1>7, DecisionIsBest DEF decision
  <2>2. QED
    BY <2>1
<1> HIDE DEF decision
<1>9. Chosen(config, doc) = W
  <2>1. W \in SUBSET (DOMAIN config.workloads)
    BY <1>8 DEF kSubset, Sound
  <2>2. ToSet(doc.selected_workload_ids) = Ids(config, W)
    BY <1>2, <1>7, <1>8, <2>1, NamedOnce, AscendingMembers
  <2>3. QED
    BY <1>2, <2>1, <2>2, NamedOnce DEF Chosen
<1>10. ASSUME NEW key \in ToSet(Keys(config))
       PROVE  /\ ComparesCell(config, key, kept[key].configuration)
              /\ kept[key].inputs.baseline = doc.campaign_identity.baseline
              /\ kept[key].inputs.tool = doc.campaign_identity.tool
              /\ kept[key].inputs.environment = doc.campaign_identity.environment
  <2> DEFINE r == Cell(cells, key)
  <2>1. r \in ToSet(Records(doc)) /\ r.key = key /\ kept[key] = files0[r.receipt_locator]
    BY <1>5 DEF cells
  <2> HIDE DEF r
  <2>2. LinkedCell(r, files0) /\ BindGeneratedConfigurations(config, doc, files0, place0)
    BY <1>1, <2>1, LinkedRecords
  <2>3. kept[key].configuration = files0[r.config_locator]
    BY <2>1, <2>2 DEF LinkedCell
  <2>4. ComparesCell(config, r.key, files0[r.config_locator])
    BY <1>2, <2>1, <2>2, GeneratedCompares DEF Cells
  <2>5. /\ kept[key].inputs.baseline = doc.campaign_identity.baseline
        /\ kept[key].inputs.tool = doc.campaign_identity.tool
        /\ kept[key].inputs.environment = doc.campaign_identity.environment
    BY <1>1, <2>1, LinkedRecords
  <2>6. QED
    BY <2>1, <2>3, <2>4, <2>5
<1>11. QED
  BY <1>2, <1>7, <1>8, <1>9, <1>10, Zenon DEF doc, kept

\* There is one document at the output at any time, the run's own or another's.
PublishedOnce == \A one, two \in published : one = two
AcceptedInv == PublishedOnce /\ AcceptedIsImplied

\* Nothing is published at first.
LEMMA AcceptedInit == Init => AcceptedInv
BY DEF Init, AcceptedInv, PublishedOnce, AcceptedIsImplied

\* The loader accepts only the one document there is to read, and only as its own checks allow.
LEMMA AcceptedNext ==
  ASSUME AcceptedInv, [Next]_vars
  PROVE  AcceptedInv'
<1>1. PublishedOnce'
  <2>1. CASE Publish
    <3>1. published' = published \/ \E built \in document : published' = {built}
      BY <2>1 DEF Publish
    <3>2. QED
      BY <3>1 DEF AcceptedInv, PublishedOnce
  <2>2. CASE RivalDocument
    <3>1. \E forgery : published' = {forgery.document}
      BY <2>2 DEF RivalDocument
    <3>2. QED
      BY <3>1 DEF PublishedOnce
  <2>3. CASE ~Publish /\ ~RivalDocument
    <3>1. UNCHANGED published
      BY <2>3 DEF Next, vars, Run, Rivals, AdmitConfiguration, OwnOutput, Compare, CompareFails, BindCell,
            DecideCampaign, VerifyRetained, Reader, RivalSource, RivalRetained, RivalDirectory, RivalMove,
            files, records
    <3>2. QED
      BY <3>1 DEF AcceptedInv, PublishedOnce
  <2>4. QED
    BY <2>1, <2>2, <2>3
<1>2. CASE Reader
  <2>1. UNCHANGED <<published, disk>>
    BY <1>2 DEF Reader, files
  <2>2. ASSUME result' = "accepted", NEW shown \in published
        PROVE  LoadAndValidate(shown, disk, place)
    <3>1. PICK one \in published : result' = IF LoadAndValidate(one, disk, place) THEN "accepted" ELSE "rejected"
      BY <1>2 DEF Reader
    <3>2. one = shown
      BY DEF AcceptedInv, PublishedOnce
    <3>3. QED
      BY <2>2, <3>1, <3>2
  <2>3. AcceptedIsImplied'
    BY <2>1, <2>2, AcceptedDocument DEF AcceptedIsImplied
  <2>4. QED
    BY <1>1, <2>3 DEF AcceptedInv
<1>3. CASE UNCHANGED vars
  <2>1. AcceptedIsImplied'
    BY <1>3 DEF AcceptedInv, AcceptedIsImplied, vars
  <2>2. QED
    BY <1>1, <2>1 DEF AcceptedInv
<1>4. CASE Next /\ ~Reader
  <2>1. pc' # "read"
    BY <1>4 DEF Next, Run, Rivals, AdmitConfiguration, OwnOutput, Compare, CompareFails, BindCell, DecideCampaign,
          VerifyRetained, Publish, RivalSource, RivalRetained, RivalDirectory, RivalMove, RivalDocument,
          Refuse, Running
  <2>2. QED
    BY <1>1, <2>1 DEF AcceptedInv, AcceptedIsImplied
<1>5. QED
  BY <1>2, <1>3, <1>4 DEF Next

\* A document the loader accepts says what the comparisons it links imply: its selection is a best
\* choice of sound workloads, its status the one they give, and every linked comparison is of its
\* cell's own sources, under the identity the document names.
THEOREM AcceptedIsImpliedHolds == Spec => []AcceptedIsImplied
<1>1. AcceptedInv /\ [Next]_vars => AcceptedInv'
  BY AcceptedNext
<1>2. AcceptedInv => AcceptedIsImplied
  BY DEF AcceptedInv
<1>3. QED
  BY AcceptedInit, <1>1, <1>2, PTL DEF Spec

-----------------------------------------------------------------------------
(* The records a run collects                                              *)

\* A record of one cell, and the sources its comparison was run over.
Reads(config, base, root, r, w) ==
  /\ r.config = ComparisonPrimitive(config, base, r.key, root)
  /\ r.receipt = ComparisonReceipt(r.config, Read(w, r.config), r.status)
  /\ r.config_locator = Locator(r.key, "config") /\ r.receipt_locator = Locator(r.key, "receipt")
  /\ r.workload_id = config.workloads[r.key[1]].workload_id
  /\ r.status \in Statuses /\ r.outcome = DetectionOutcome(r.status)
  /\ IsControl(r.key) =>
       r.eligibility = {[eligible |-> Passes(r.status), reason |-> ExclusionReason(r.status)]}
  /\ ~IsControl(r.key) =>
       /\ r.probe_id = config.probe_groups[r.key[2]].probe_id
       /\ r.magnitude = config.probe_groups[r.key[2]].variants[r.key[3]].magnitude

Collected(config, base, root, cells) ==
  /\ cells \in Seq(ToSet(cells)) /\ Len(cells) <= Len(Keys(config))
  /\ \A i \in 1..Len(cells) :
       cells[i].key = Keys(config)[i] /\ \E w : Reads(config, base, root, cells[i], w)

\* A record for every cell fills the cells.
LEMMA CollectedFills ==
  ASSUME NEW config \in Configurations, NEW base, NEW root, NEW cells, Collected(config, base, root, cells),
         Len(cells) = Len(Keys(config))
  PROVE  Fills(config, cells) /\ \A r \in ToSet(cells) : \E w : Reads(config, base, root, r, w)
<1>1. cells \in Seq(ToSet(cells)) /\ \A i \in 1..Len(cells) : cells[i].key = Keys(config)[i]
  BY DEF Collected
<1>2. ASSUME NEW r \in ToSet(cells) PROVE \E w : Reads(config, base, root, r, w)
  <2>1. PICK i \in 1..Len(cells) : r = cells[i]
    BY <1>1 DEF ToSet
  <2>2. QED
    BY <2>1 DEF Collected
<1>3. ASSUME NEW r \in ToSet(cells)
      PROVE  /\ r.workload_id = config.workloads[r.key[1]].workload_id
             /\ r.key[2] # 0 => r.probe_id = config.probe_groups[r.key[2]].probe_id
                                /\ r.outcome = DetectionOutcome(r.status)
  BY <1>2 DEF Reads, IsControl
<1>4. QED
  BY <1>1, <1>2, <1>3 DEF Fills

\* One value at all of some records.
ValuesAt(f, T) == {f[r] : r \in T}

\* A value required to be the same on some records is the same on any two of them.
LEMMA MembersOfCells ==
  ASSUME NEW config \in Configurations, NEW cells, Fills(config, cells), NEW f,
         DOMAIN f = ToSet(cells), NEW T \in SUBSET ToSet(cells), RequireSingle(ValuesAt(f, T))
  PROVE  \A r, s \in T : f[r] = f[s]
<1>1. IsFiniteSet(ToSet(cells))
  <2>1. Len(cells) \in Nat /\ DOMAIN cells = 1..Len(cells)
    BY CellsAreFilled
  <2>2. IsFiniteSet({cells[i] : i \in 1..Len(cells)})
    BY <2>1, ImageIsFinite
  <2>3. QED
    BY <2>1, <2>2 DEF ToSet
<1>2. IsFiniteSet(T)
  BY <1>1, FS_Subset
<1> DEFINE g == [r \in T |-> f[r]]
           S == {f[r] : r \in T}
<1>3. g \in Surjection(T, S)
  BY DEF Surjection
<1> HIDE DEF g
<1>4. IsFiniteSet(S)
  <2> HIDE DEF S
  <2>1. QED
    BY <1>2, <1>3, FS_Surjection
<1>5. Cardinality(S) = 1 /\ \A r \in T : f[r] \in S
  BY DEF RequireSingle, ValuesAt
<1> HIDE DEF S
<1>6. PICK x : S = {x}
  BY <1>4, <1>5, FS_Singleton
<1>7. QED
  BY <1>5, <1>6

\* The records of one campaign ran under one tool and environment, with one baseline and one set of aliases.
LEMMA OneCampaign ==
  ASSUME NEW config \in Configurations, NEW cells, Fills(config, cells), CampaignIsSingle(cells),
         NEW r \in ToSet(cells), NEW s \in ToSet(cells)
  PROVE  /\ r.receipt.inputs.tool = s.receipt.inputs.tool
         /\ r.receipt.inputs.environment = s.receipt.inputs.environment
         /\ r.receipt.inputs.baseline = s.receipt.inputs.baseline
         /\ r.receipt.inputs.aliases = s.receipt.inputs.aliases
<1> DEFINE T == ToSet(cells)
           tools == [q \in T |-> q.receipt.inputs.tool]
           environments == [q \in T |-> q.receipt.inputs.environment]
           baselines == [q \in T |-> q.receipt.inputs.baseline]
           aliased == [q \in T |-> q.receipt.inputs.aliases]
<1>1. /\ RequireSingle({inputs.tool : inputs \in Inputs(cells)})
      /\ RequireSingle({inputs.environment : inputs \in Inputs(cells)})
      /\ RequireSingle({inputs.baseline : inputs \in Inputs(cells)})
      /\ RequireSingle({inputs.aliases : inputs \in Inputs(cells)})
  BY DEF CampaignIsSingle
<1>2. Inputs(cells) = {q.receipt.inputs : q \in T}
  BY DEF Inputs, ReceiptsOf
<1>3. /\ {inputs.tool : inputs \in Inputs(cells)} = ValuesAt(tools, T)
      /\ {inputs.environment : inputs \in Inputs(cells)} = ValuesAt(environments, T)
      /\ {inputs.baseline : inputs \in Inputs(cells)} = ValuesAt(baselines, T)
      /\ {inputs.aliases : inputs \in Inputs(cells)} = ValuesAt(aliased, T)
  BY <1>2 DEF ValuesAt
<1>4. /\ DOMAIN tools = T /\ DOMAIN environments = T /\ DOMAIN baselines = T /\ DOMAIN aliased = T
      /\ r \in T /\ s \in T /\ T \in SUBSET T
  OBVIOUS
<1>5. /\ tools[r] = r.receipt.inputs.tool /\ tools[s] = s.receipt.inputs.tool
      /\ environments[r] = r.receipt.inputs.environment /\ environments[s] = s.receipt.inputs.environment
      /\ baselines[r] = r.receipt.inputs.baseline /\ baselines[s] = s.receipt.inputs.baseline
      /\ aliased[r] = r.receipt.inputs.aliases /\ aliased[s] = s.receipt.inputs.aliases
  OBVIOUS
<1> HIDE DEF tools, environments, baselines, aliased
<1>6. /\ RequireSingle(ValuesAt(tools, T)) /\ RequireSingle(ValuesAt(environments, T))
      /\ RequireSingle(ValuesAt(baselines, T)) /\ RequireSingle(ValuesAt(aliased, T))
  BY <1>1, <1>3, Zenon
<1>7. \A f : DOMAIN f = T /\ RequireSingle(ValuesAt(f, T)) => f[r] = f[s]
  BY <1>4, MembersOfCells
<1>8. tools[r] = tools[s] /\ environments[r] = environments[s] /\ baselines[r] = baselines[s] /\ aliased[r] = aliased[s]
  BY <1>4, <1>6, <1>7
<1>9. QED
  BY <1>5, <1>8

\* What a comparison read is what was at its paths.
LEMMA ReadAt ==
  ASSUME NEW config, NEW base, NEW root, NEW r, NEW w, Reads(config, base, root, r, w)
  PROVE  /\ r.receipt.inputs.baseline.members = w.at[Canonical(r.config.baseline.model_root)]
         /\ r.receipt.inputs.candidate.members = w.at[Canonical(r.config.candidate.model_root)]
         /\ r.receipt.inputs.initial_state = w.at[Canonical(r.config.initial_state)]
         /\ r.receipt.inputs.actions = w.at[Canonical(r.config.actions)]
         /\ r.config.aliases = <<>> => r.receipt.inputs.aliases = {}
         /\ r.config.aliases # <<>> => r.receipt.inputs.aliases = {w.at[Canonical(r.config.aliases)]}
<1>1. r.receipt.inputs = Read(w, r.config)
  BY DEF Reads, ComparisonReceipt
<1> DEFINE comparison == r.config
<1> HIDE DEF comparison
<1>2. /\ Read(w, comparison).baseline.members = w.at[Canonical(comparison.baseline.model_root)]
      /\ Read(w, comparison).candidate.members = w.at[Canonical(comparison.candidate.model_root)]
      /\ Read(w, comparison).initial_state = w.at[Canonical(comparison.initial_state)]
      /\ Read(w, comparison).actions = w.at[Canonical(comparison.actions)]
  BY DEF Read
<1>3. /\ comparison.aliases = <<>> => Read(w, comparison).aliases = {}
      /\ comparison.aliases # <<>> => Read(w, comparison).aliases = {w.at[Canonical(comparison.aliases)]}
  <2>1. Read(w, comparison).aliases = IF comparison.aliases = <<>> THEN {} ELSE {w.at[Canonical(comparison.aliases)]}
    BY DEF Read
  <2>2. QED
    BY <2>1, Zenon
<1>4. QED
  BY <1>1, <1>2, <1>3 DEF comparison

\* A record carries what its comparison read, path by path.
LEMMA UsesAreRead ==
  ASSUME NEW config, NEW base, NEW root, NEW r, NEW w, Reads(config, base, root, r, w), NEW one \in Uses(r)
  PROVE  one[2] = w.at[one[1]]
<1>1. CASE one = <<Canonical(r.config.baseline.model_root), r.receipt.inputs.baseline.members>>
  BY <1>1, ReadAt
<1>2. CASE one = <<Canonical(r.config.candidate.model_root), r.receipt.inputs.candidate.members>>
  BY <1>2, ReadAt
<1>3. CASE one = <<Canonical(r.config.initial_state), r.receipt.inputs.initial_state>>
  BY <1>3, ReadAt
<1>4. CASE one = <<Canonical(r.config.actions), r.receipt.inputs.actions>>
  BY <1>4, ReadAt
<1>5. CASE one \in {<<Canonical(r.config.aliases), content>> : content \in r.receipt.inputs.aliases}
  <2>1. PICK content \in r.receipt.inputs.aliases : one = <<Canonical(r.config.aliases), content>>
    BY <1>5
  <2>2. content = w.at[Canonical(r.config.aliases)]
    BY ReadAt
  <2>3. QED
    BY <2>1, <2>2
<1>6. QED
  <2> DEFINE a == {<<Canonical(r.config.baseline.model_root), r.receipt.inputs.baseline.members>>,
                   <<Canonical(r.config.candidate.model_root), r.receipt.inputs.candidate.members>>,
                   <<Canonical(r.config.initial_state), r.receipt.inputs.initial_state>>,
                   <<Canonical(r.config.actions), r.receipt.inputs.actions>>}
             b == {<<Canonical(r.config.aliases), content>> : content \in r.receipt.inputs.aliases}
  <2>1. one \in a \/ one \in b
    BY DEF Uses
  <2>2. one \in a => \/ one = <<Canonical(r.config.baseline.model_root), r.receipt.inputs.baseline.members>>
                     \/ one = <<Canonical(r.config.candidate.model_root), r.receipt.inputs.candidate.members>>
                     \/ one = <<Canonical(r.config.initial_state), r.receipt.inputs.initial_state>>
                     \/ one = <<Canonical(r.config.actions), r.receipt.inputs.actions>>
    BY Zenon
  <2>3. QED
    BY <1>1, <1>2, <1>3, <1>4, <1>5, <2>1, <2>2

AliasesAt(config, base) == IF config.aliases = <<>> THEN <<>> ELSE base \o config.aliases

\* Where the comparison of a record read its inputs.
LEMMA RecordPaths ==
  ASSUME NEW config, NEW base, NEW root, NEW r, NEW w, Reads(config, base, root, r, w)
  PROVE  /\ r.config.baseline = Under(base, config.baseline)
         /\ r.config.candidate = Under(base, Candidate(config, r.key))
         /\ r.config.initial_state = base \o config.workloads[r.key[1]].initial_state
         /\ r.config.actions = base \o config.workloads[r.key[1]].actions
         /\ r.config.aliases = AliasesAt(config, base)
<1>1. r.config = ComparisonPrimitive(config, base, r.key, root)
  BY DEF Reads
<1> DEFINE key == r.key
           otherwise == AliasesAt(config, base)
<1>2. r.config = [baseline |-> Under(base, config.baseline), candidate |-> Under(base, Candidate(config, key)),
                  initial_state |-> base \o config.workloads[key[1]].initial_state,
                  actions |-> base \o config.workloads[key[1]].actions,
                  control_dt |-> config.workloads[key[1]].control_dt, repeats |-> config.repeats,
                  joint_tolerances |-> config.joint_tolerances, aliases |-> otherwise,
                  output_dir |-> [root |-> root, cell |-> key]]
  BY <1>1, Zenon DEF ComparisonPrimitive, AliasesAt
<1> HIDE DEF key, otherwise
<1>3. /\ r.config.baseline = Under(base, config.baseline) /\ r.config.candidate = Under(base, Candidate(config, key))
      /\ r.config.initial_state = base \o config.workloads[key[1]].initial_state
      /\ r.config.actions = base \o config.workloads[key[1]].actions
      /\ r.config.aliases = otherwise
  BY <1>2
<1>4. QED
  BY <1>3, Zenon DEF key, otherwise

\* The cell of a record is a control or a rung.
LEMMA CellOfRecord ==
  ASSUME NEW config \in Configurations, NEW cells, Fills(config, cells), NEW r \in ToSet(cells)
  PROVE  /\ r.key \in Triples /\ r.key \in Cells(config) /\ r.key[1] \in DOMAIN config.workloads
         /\ r.key[2] = 0 => r.key = <<r.key[1], 0, 0>>
         /\ r.key[2] # 0 => IsRung(config, r.key)
<1>1. r.key \in ToSet(Keys(config)) /\ Keys(config) \in Seq(Triples)
  BY CellsAreFilled, KeysMembers
<1>2. \/ r.key[1] \in DOMAIN config.workloads /\ r.key = <<r.key[1], 0, 0>>
      \/ IsRung(config, r.key)
  BY <1>1, KeysMembers
<1>3. IsRung(config, r.key) => r.key[2] # 0 /\ r.key[1] \in DOMAIN config.workloads
  BY ConfigurationParts DEF IsRung
<1>4. r.key = <<r.key[1], 0, 0>> => r.key[2] = 0
  OBVIOUS
<1>5. r.key \in Triples
  BY <1>1 DEF ToSet
<1>6. QED
  BY <1>1, <1>2, <1>3, <1>4, <1>5 DEF Cells

\* The comparisons of one workload start from the same state and actions.
LEMMA OneWorkload ==
  ASSUME NEW config \in Configurations, NEW cells, Fills(config, cells), ValidateWorkloadArtifacts(config, cells),
         NEW r \in ToSet(cells), NEW s \in ToSet(cells), r.key[1] = s.key[1]
  PROVE  /\ r.receipt.inputs.initial_state = s.receipt.inputs.initial_state
         /\ r.receipt.inputs.actions = s.receipt.inputs.actions
<1>1. \A q \in ToSet(cells) : \E control \in ToSet(Controls(cells)) :
        /\ control.key[1] = q.key[1]
        /\ q.receipt.inputs.initial_state = control.receipt.inputs.initial_state
        /\ q.receipt.inputs.actions = control.receipt.inputs.actions
  BY DEF ValidateWorkloadArtifacts
<1>2. PICK a \in ToSet(Controls(cells)) :
        /\ a.key[1] = r.key[1]
        /\ r.receipt.inputs.initial_state = a.receipt.inputs.initial_state
        /\ r.receipt.inputs.actions = a.receipt.inputs.actions
  BY <1>1
<1>3. PICK b \in ToSet(Controls(cells)) :
        /\ b.key[1] = s.key[1]
        /\ s.receipt.inputs.initial_state = b.receipt.inputs.initial_state
        /\ s.receipt.inputs.actions = b.receipt.inputs.actions
  BY <1>1
<1>4. a \in ToSet(cells) /\ a.key[2] = 0 /\ b \in ToSet(cells) /\ b.key[2] = 0
  BY SelectedCells
<1>5. a.key = b.key
  <2>1. a.key = <<a.key[1], 0, 0>> /\ b.key = <<b.key[1], 0, 0>>
    BY <1>4, CellOfRecord
  <2>2. a.key[1] = b.key[1]
    BY <1>2, <1>3
  <2>3. QED
    BY <2>1, <2>2
<1>6. a = b
  BY <1>4, <1>5, CellsAreFilled
<1>7. QED
  BY <1>2, <1>3, <1>6

\* The comparisons of one rung try the same candidate, and the controls the baseline.
LEMMA OneRung ==
  ASSUME NEW config \in Configurations, NEW cells, Fills(config, cells), ValidateCampaign(config, cells),
         NEW r \in ToSet(cells), NEW s \in ToSet(cells), r.key[2] = s.key[2], r.key[3] = s.key[3]
  PROVE  r.receipt.inputs.candidate = s.receipt.inputs.candidate
<1>1. CASE r.key[2] = 0
  <2>1. r \in ToSet(Controls(cells)) /\ s \in ToSet(Controls(cells))
    BY <1>1, SelectedCells
  <2>2. QED
    BY <2>1 DEF ValidateCampaign, ControlsAreZeroChange
<1>2. CASE r.key[2] # 0
  <2> DEFINE g == r.key[2]
             v == r.key[3]
             T == OfRung(cells, g, v)
             f == [q \in ToSet(cells) |-> q.receipt.inputs.candidate]
  <2>1. g \in DOMAIN config.probe_groups /\ v \in DOMAIN config.probe_groups[g].variants
    BY <1>2, CellOfRecord DEF IsRung
  <2>2. r \in ToSet(Probes(cells)) /\ s \in ToSet(Probes(cells))
    BY <1>2, SelectedCells
  <2>3. T \in SUBSET ToSet(cells) /\ r \in T /\ s \in T
    <3>1. \A q \in ToSet(Probes(cells)) : q \in ToSet(cells)
      BY SelectedCells
    <3>2. QED
      BY <2>2, <3>1 DEF OfRung
  <2>4. RequireSingle({q.receipt.inputs.candidate : q \in T})
    <3> HIDE DEF g, v
    <3>1. QED
      BY <2>1 DEF ValidateCampaign, ValidateProbeClosures
  <2> HIDE DEF T
  <2>5. {q.receipt.inputs.candidate : q \in T} = ValuesAt(f, T)
    BY <2>3 DEF ValuesAt
  <2>6. RequireSingle(ValuesAt(f, T))
    BY <2>4, <2>5, Zenon
  <2>7. DOMAIN f = ToSet(cells) /\ f[r] = r.receipt.inputs.candidate /\ f[s] = s.receipt.inputs.candidate
    OBVIOUS
  <2> HIDE DEF f
  <2>8. f[r] = f[s]
    BY <2>3, <2>6, <2>7, MembersOfCells
  <2>9. QED
    BY <2>7, <2>8
<1>3. QED
  BY <1>1, <1>2

\* A path two comparisons have in common held the same when either of them read it.
LEMMA SameContent ==
  ASSUME NEW config, Admissible(config), NEW base, NEW root, NEW cells,
         Fills(config, cells), ValidateCampaign(config, cells),
         NEW r \in ToSet(cells), NEW s \in ToSet(cells), NEW u, NEW w,
         Reads(config, base, root, r, u), Reads(config, base, root, s, w), NEW path \in InCommon(r, s)
  PROVE  u.at[path] = w.at[path]
<1>1. config \in Configurations /\ CampaignIsSingle(cells) /\ ValidateWorkloadArtifacts(config, cells)
  BY AdmissibleParts DEF ValidateCampaign
<1>2. /\ r.receipt.inputs.baseline = s.receipt.inputs.baseline
      /\ r.receipt.inputs.aliases = s.receipt.inputs.aliases
  BY <1>1, OneCampaign
<1>3. /\ r.config.baseline = s.config.baseline /\ r.config.aliases = s.config.aliases
  <2>1. r.config.baseline = Under(base, config.baseline) /\ s.config.baseline = Under(base, config.baseline)
    BY RecordPaths
  <2>2. r.config.aliases = AliasesAt(config, base) /\ s.config.aliases = AliasesAt(config, base)
    BY RecordPaths
  <2>3. QED
    BY <2>1, <2>2
<1> DEFINE a == {r.config.baseline.model_root}
           b == IF r.config.aliases = <<>> THEN {} ELSE {r.config.aliases}
           c == IF r.key[1] = s.key[1] THEN {r.config.initial_state, r.config.actions} ELSE {}
           d == IF r.key[2] = s.key[2] /\ r.key[3] = s.key[3] THEN {r.config.candidate.model_root} ELSE {}
<1>4. PICK place0 \in a \cup b \cup c \cup d : path = Canonical(place0)
  BY DEF InCommon
<1>5. CASE place0 \in a
  <2>1. path = Canonical(r.config.baseline.model_root)
    BY <1>4, <1>5
  <2> HIDE DEF a, b, c, d
  <2>2. r.receipt.inputs.baseline.members = u.at[path]
    BY <2>1, ReadAt
  <2>3. s.receipt.inputs.baseline.members = w.at[path]
    BY <1>3, <2>1, ReadAt
  <2>4. QED
    BY <1>2, <2>2, <2>3
<1>6. CASE place0 \in b
  <2>1. r.config.aliases # <<>> /\ path = Canonical(r.config.aliases)
    <3>1. r.config.aliases # <<>> /\ place0 = r.config.aliases
      BY <1>6, Zenon
    <3>2. QED
      BY <1>4, <3>1
  <2> HIDE DEF a, b, c, d
  <2>2. r.receipt.inputs.aliases = {u.at[path]}
    BY <2>1, ReadAt
  <2>3. s.receipt.inputs.aliases = {w.at[path]}
    BY <1>3, <2>1, ReadAt
  <2>4. QED
    BY <1>2, <2>2, <2>3
<1>7. CASE place0 \in c
  <2>1. r.key[1] = s.key[1] /\ (place0 = r.config.initial_state \/ place0 = r.config.actions)
    BY <1>7, Zenon
  <2> HIDE DEF a, b, c, d
  <2>2. /\ r.receipt.inputs.initial_state = s.receipt.inputs.initial_state
        /\ r.receipt.inputs.actions = s.receipt.inputs.actions
    BY <1>1, <2>1, OneWorkload
  <2>3. r.config.initial_state = s.config.initial_state /\ r.config.actions = s.config.actions
    <3>1. /\ r.config.initial_state = base \o config.workloads[r.key[1]].initial_state
          /\ r.config.actions = base \o config.workloads[r.key[1]].actions
      BY RecordPaths
    <3>2. /\ s.config.initial_state = base \o config.workloads[s.key[1]].initial_state
          /\ s.config.actions = base \o config.workloads[s.key[1]].actions
      BY RecordPaths
    <3>3. QED
      BY <2>1, <3>1, <3>2
  <2>4. /\ r.receipt.inputs.initial_state = u.at[Canonical(r.config.initial_state)]
        /\ r.receipt.inputs.actions = u.at[Canonical(r.config.actions)]
    BY ReadAt
  <2>5. /\ s.receipt.inputs.initial_state = w.at[Canonical(s.config.initial_state)]
        /\ s.receipt.inputs.actions = w.at[Canonical(s.config.actions)]
    BY ReadAt
  <2>6. QED
    BY <1>4, <2>1, <2>2, <2>3, <2>4, <2>5
<1>8. CASE place0 \in d
  <2>1. r.key[2] = s.key[2] /\ r.key[3] = s.key[3] /\ place0 = r.config.candidate.model_root
    BY <1>8, Zenon
  <2> HIDE DEF a, b, c, d
  <2>2. r.receipt.inputs.candidate = s.receipt.inputs.candidate
    BY <1>1, <2>1, OneRung
  <2>3. r.config.candidate = s.config.candidate
    <3>1. Candidate(config, r.key) = Candidate(config, s.key)
      BY <2>1 DEF Candidate, IsControl
    <3>2. r.config.candidate = Under(base, Candidate(config, r.key)) /\ s.config.candidate = Under(base, Candidate(config, s.key))
      BY RecordPaths
    <3>3. QED
      BY <3>1, <3>2
  <2>4. r.receipt.inputs.candidate.members = u.at[Canonical(r.config.candidate.model_root)]
    BY ReadAt
  <2>5. s.receipt.inputs.candidate.members = w.at[Canonical(s.config.candidate.model_root)]
    BY ReadAt
  <2>6. QED
    BY <1>4, <2>1, <2>2, <2>3, <2>4, <2>5
<1>9. QED
  BY <1>4, <1>5, <1>6, <1>7, <1>8

\* The closure of a rung is what every comparison of it tried.
LEMMA LadderIs ==
  ASSUME NEW config \in Configurations, NEW cells, Fills(config, cells), ValidateCampaign(config, cells),
         NEW r \in ToSet(cells), r.key[2] # 0
  PROVE  LadderClosure(cells, r.key[2], r.key[3]) = r.receipt.inputs.candidate
<1> DEFINE g == r.key[2]
           v == r.key[3]
           T == OfRung(cells, g, v)
           firsts == {s.key[1] : s \in T}
           least == Min(firsts)
           one == CHOOSE q \in ToSet(Probes(cells)) : q.key = <<least, g, v>>
<1>1. T = {q \in ToSet(cells) : q.key[2] # 0 /\ q.key[2] = g /\ q.key[3] = v}
  <2>1. ToSet(Probes(cells)) = {q \in ToSet(cells) : q.key[2] # 0}
    BY SelectedCells
  <2>2. QED
    BY <2>1 DEF OfRung
<1> HIDE DEF T
<1>2. firsts \in SUBSET Nat /\ firsts # {}
  <2>1. \A q \in T : q.key[1] \in Nat
    <3>1. \A q \in T : q.key \in Triples
      BY <1>1, CellOfRecord
    <3>2. QED
      BY <3>1 DEF Triples
  <2>2. r \in T
    BY <1>1
  <2>3. QED
    BY <2>1, <2>2
<1>3. least \in firsts
  <2> HIDE DEF firsts
  <2>1. \E x \in firsts : \A y \in firsts : x <= y
    BY <1>2, LeastNumber
  <2>2. QED
    BY <2>1, Zenon DEF Min
<1>4. PICK q \in T : q.key[1] = least
  <2> HIDE DEF least
  <2>1. QED
    BY <1>3
<1>5. q \in ToSet(cells) /\ q \in ToSet(Probes(cells)) /\ q.key[2] = g /\ q.key[3] = v
  BY <1>1, SelectedCells
<1>6. q.key = <<least, g, v>>
  <2>1. q.key \in Triples
    BY <1>5, CellOfRecord
  <2> HIDE DEF least, g, v
  <2>2. QED
    BY <1>4, <1>5, <2>1 DEF Triples
<1>7. one \in ToSet(Probes(cells)) /\ one.key = <<least, g, v>>
  <2> HIDE DEF least, g, v
  <2>1. QED
    BY <1>5, <1>6, Zenon
<1>8. LadderClosure(cells, g, v) = one.receipt.inputs.candidate
  BY DEF LadderClosure, T
<1> HIDE DEF one, least
<1>9. one \in ToSet(cells) /\ one.key[2] = r.key[2] /\ one.key[3] = r.key[3]
  <2>1. one \in ToSet(cells)
    BY <1>7, SelectedCells
  <2>2. one.key[2] = g /\ one.key[3] = v
    <3> HIDE DEF g, v
    <3>1. QED
      BY <1>7
  <2>3. QED
    BY <2>1, <2>2
<1>10. one.receipt.inputs.candidate = r.receipt.inputs.candidate
  BY <1>9, OneRung
<1>11. QED
  BY <1>8, <1>10

\* What validate_campaign accepts hangs together.
LEMMA ValidIsCoherent ==
  ASSUME NEW config, Admissible(config), NEW base, NEW root, NEW cells,
         Collected(config, base, root, cells), Len(cells) = Len(Keys(config)), ValidateCampaign(config, cells),
         NEW r \in ToSet(cells), NEW s \in ToSet(cells)
  PROVE  /\ r.receipt.inputs.tool = s.receipt.inputs.tool
         /\ r.receipt.inputs.environment = s.receipt.inputs.environment
         /\ \A one \in Uses(r), two \in Uses(s) :
              one[1] = two[1] /\ one[1] \in InCommon(r, s) => one[2] = two[2]
         /\ r.key[2] # 0 => r.receipt.inputs.candidate # s.receipt.inputs.baseline
         /\ (r.key[2] # 0 /\ r.key[2] = s.key[2] /\ r.key[3] # s.key[3])
              => r.receipt.inputs.candidate # s.receipt.inputs.candidate
<1>1. config \in Configurations
  BY AdmissibleParts
<1>2. Fills(config, cells) /\ \A q \in ToSet(cells) : \E w : Reads(config, base, root, q, w)
  BY <1>1, CollectedFills
<1>3. CampaignIsSingle(cells) /\ ValidateLadderClosures(config, cells)
  BY DEF ValidateCampaign
<1>4. /\ r.receipt.inputs.tool = s.receipt.inputs.tool
      /\ r.receipt.inputs.environment = s.receipt.inputs.environment
  BY <1>1, <1>2, <1>3, OneCampaign
<1>5. ASSUME NEW one \in Uses(r), NEW two \in Uses(s), one[1] = two[1], one[1] \in InCommon(r, s)
      PROVE  one[2] = two[2]
  <2>1. PICK u : Reads(config, base, root, r, u)
    BY <1>2
  <2>2. PICK w : Reads(config, base, root, s, w)
    BY <1>2
  <2>3. one[2] = u.at[one[1]] /\ two[2] = w.at[two[1]]
    BY <2>1, <2>2, UsesAreRead
  <2>4. u.at[one[1]] = w.at[one[1]]
    BY <1>2, <1>5, <2>1, <2>2, SameContent
  <2>5. QED
    BY <1>5, <2>3, <2>4
<1>6. ASSUME r.key[2] # 0 PROVE r.receipt.inputs.candidate # s.receipt.inputs.baseline
  <2>1. r.key[2] \in DOMAIN config.probe_groups /\ r.key[3] \in DOMAIN config.probe_groups[r.key[2]].variants
    BY <1>1, <1>2, <1>6, CellOfRecord DEF IsRung
  <2>2. LadderClosure(cells, r.key[2], r.key[3]) # CampaignBaseline(cells)
    BY <1>3, <2>1 DEF ValidateLadderClosures
  <2>3. LadderClosure(cells, r.key[2], r.key[3]) = r.receipt.inputs.candidate
    BY <1>1, <1>2, <1>6, LadderIs
  <2>4. CampaignBaseline(cells) = s.receipt.inputs.baseline
    <3>1. cells[1] \in ToSet(cells)
      <4>1. DOMAIN cells = 1..Len(cells) /\ Len(cells) \in Nat
        BY <1>1, <1>2, CellsAreFilled
      <4>2. DOMAIN cells # {}
        BY DEF ToSet
      <4>3. 1 \in DOMAIN cells
        BY <4>1, <4>2
      <4>4. QED
        BY <4>3 DEF ToSet
    <3>2. QED
      BY <1>1, <1>2, <1>3, <3>1, OneCampaign DEF CampaignBaseline
  <2>5. QED
    BY <2>2, <2>3, <2>4
<1>7. ASSUME r.key[2] # 0, r.key[2] = s.key[2], r.key[3] # s.key[3]
      PROVE  r.receipt.inputs.candidate # s.receipt.inputs.candidate
  <2> DEFINE g == r.key[2]
             n == Len(config.probe_groups[g].variants)
  <2>1. g \in DOMAIN config.probe_groups
    BY <1>1, <1>2, <1>7, CellOfRecord DEF IsRung
  <2>2. DOMAIN config.probe_groups[g].variants = 1..n /\ n \in Nat
    BY <1>1, <2>1, ConfigurationParts
  <2>3. r.key[3] \in 1..n /\ s.key[3] \in 1..n
    BY <1>1, <1>2, <1>7, <2>2, CellOfRecord DEF IsRung
  <2>4. \A v \in 1..n : \A x \in 1..(v - 1) : LadderClosure(cells, g, x) # LadderClosure(cells, g, v)
    <3> HIDE DEF g, n
    <3>1. QED
      BY <1>3, <2>1, <2>2 DEF ValidateLadderClosures
  <2>5. r.key[3] \in 1..(s.key[3] - 1) \/ s.key[3] \in 1..(r.key[3] - 1)
    <3> HIDE DEF n, g
    <3>1. QED
      BY <1>7, <2>2, <2>3
  <2>6. LadderClosure(cells, g, r.key[3]) # LadderClosure(cells, g, s.key[3])
    <3> HIDE DEF n, g
    <3>1. QED
      BY <2>3, <2>4, <2>5
  <2>7. LadderClosure(cells, g, r.key[3]) = r.receipt.inputs.candidate
    BY <1>1, <1>2, <1>7, LadderIs
  <2>8. LadderClosure(cells, g, s.key[3]) = s.receipt.inputs.candidate
    BY <1>1, <1>2, <1>7, LadderIs
  <2>9. QED
    BY <2>6, <2>7, <2>8
<1>8. QED
  BY <1>4, <1>5, <1>6, <1>7

-----------------------------------------------------------------------------
(* The ledger of a run                                                     *)

\* A receipt that was returned is of the comparison of this cell, as the sources were in some state.
Began(key, receipt) ==
  \E w : \E status \in Statuses :
    receipt = ComparisonReceipt(Comparison(key), Read(w, Comparison(key)), status)

\* What holds of the ledger once a campaign is decided: it is complete, valid and what the document lists.
Decided ==
  /\ Admissible(Config) /\ Collected(Config, campaign.base, Root, ledger) /\ Len(ledger) = Len(CellKeys)
  /\ ValidateCampaign(Config, ledger) /\ Len(EligibleIds(ledger)) >= Config.budget
  /\ document = {BuildQualificationReceipt(Config, campaign.file, ledger)}

\* The inductive invariant of a run: the records collected so far are those of the first cells, in order,
\* each read in one state of the sources, and nothing is decided from anything else.
LedgerInv ==
  /\ campaign \in Campaigns
  /\ pc \in {"admit", "own"} => ledger = <<>> /\ next = 1
  /\ pc = "own" => Admissible(Config)
  /\ pc \in {"cells", "bind"} =>
       /\ Admissible(Config) /\ Collected(Config, campaign.base, Root, ledger)
       /\ next = Len(ledger) + 1
  /\ pc = "bind" => next <= Len(CellKeys) /\ \A receipt \in returned : Began(CellKeys[next], receipt)
  /\ pc \in {"verify", "done", "read"} => Decided

\* A run starts with no record.
LEMMA LedgerInit == Init => LedgerInv
BY DEF Init, LedgerInv

\* The record of a comparison carries what that comparison read.
LEMMA RecordIsRead ==
  ASSUME NEW config, NEW base, NEW key, NEW root, NEW w, NEW status \in Statuses, NEW comparison, NEW receipt,
         comparison = ComparisonPrimitive(config, base, key, root),
         receipt = ComparisonReceipt(comparison, Read(w, comparison), status)
  PROVE  Reads(config, base, root, CellRecord(config, key, comparison, receipt), w)
<1> DEFINE r == CellRecord(config, key, comparison, receipt)
<1>1. /\ r.key = key /\ r.config = comparison /\ r.receipt = receipt
      /\ r.config_locator = Locator(key, "config") /\ r.receipt_locator = Locator(key, "receipt")
      /\ r.workload_id = config.workloads[key[1]].workload_id
      /\ r.status = receipt.status /\ r.outcome = DetectionOutcome(receipt.status)
  BY DEF CellRecord
<1>2. IsControl(key) => r.eligibility = {[eligible |-> Passes(receipt.status), reason |-> ExclusionReason(receipt.status)]}
  BY DEF CellRecord
<1>3. ~IsControl(key) =>
        /\ r.probe_id = config.probe_groups[key[2]].probe_id
        /\ r.magnitude = config.probe_groups[key[2]].variants[key[3]].magnitude
  BY DEF CellRecord
<1> HIDE DEF r
<1>4. receipt.status = status
  BY DEF ComparisonReceipt
<1>5. QED
  BY <1>1, <1>2, <1>3, <1>4, Zenon DEF Reads, r

\* One more record, for the next cell, keeps the ledger in step with the cells.
LEMMA CollectedGrows ==
  ASSUME NEW config \in Configurations, NEW base, NEW root, NEW cells, Collected(config, base, root, cells),
         Len(cells) + 1 <= Len(Keys(config)),
         NEW r, NEW w, Reads(config, base, root, r, w), r.key = Keys(config)[Len(cells) + 1]
  PROVE  Collected(config, base, root, Append(cells, r)) /\ Len(Append(cells, r)) = Len(cells) + 1
<1> DEFINE more == Append(cells, r)
           all == ToSet(cells) \cup {r}
<1>1. cells \in Seq(ToSet(cells)) /\ \A i \in 1..Len(cells) :
        cells[i].key = Keys(config)[i] /\ \E u : Reads(config, base, root, cells[i], u)
  BY DEF Collected
<1>2. cells \in Seq(all)
  BY <1>1
<1>3. /\ more \in Seq(all) /\ Len(more) = Len(cells) + 1 /\ more[Len(cells) + 1] = r /\ Len(cells) \in Nat
      /\ \A i \in 1..Len(cells) : more[i] = cells[i]
  <2> HIDE DEF all
  <2>1. r \in all
    BY DEF all
  <2>2. QED
    BY <1>2, <2>1
<1>4. ToSet(more) = all
  <2>1. r \in all
    OBVIOUS
  <2>2. ToSet(more) = ToSet(cells) \cup {r}
    <3>1. ToSet(Append(cells, r)) = ToSet(cells) \cup {r}
      <4> HIDE DEF all
      <4>1. QED
        BY <1>2, <2>1, AppendSet
    <3>2. QED
      BY <3>1
  <2>3. QED
    BY <2>2
<1> HIDE DEF more, all
<1>5. ASSUME NEW i \in 1..Len(more)
      PROVE  more[i].key = Keys(config)[i] /\ \E u : Reads(config, base, root, more[i], u)
  <2>1. CASE i \in 1..Len(cells)
    BY <1>1, <1>3, <2>1
  <2>2. CASE i = Len(cells) + 1
    BY <1>3, <2>2
  <2>3. QED
    BY <1>3, <2>1, <2>2
<1>6. Len(more) <= Len(Keys(config))
  BY <1>3
<1>7. QED
  BY <1>3, <1>4, <1>5, <1>6 DEF Collected, more

\* An empty ledger is in step.
LEMMA EmptyIsCollected ==
  ASSUME NEW config \in Configurations, NEW base, NEW root
  PROVE  Collected(config, base, root, <<>>)
<1>1. Len(Keys(config)) \in Nat
  BY KeysMembers
<1>2. QED
  BY <1>1 DEF Collected

\* A step that leaves the run alone leaves its ledger in step.
LEMMA LedgerRests ==
  ASSUME LedgerInv, UNCHANGED <<pc, campaign, next, returned, ledger, document>>
  PROVE  LedgerInv'
<1>1. UNCHANGED <<Config, CellKeys, Root>>
  BY DEF Config, CellKeys, Root
<1>2. \A key, receipt : Began(key, receipt)' <=> Began(key, receipt)
  BY <1>1 DEF Began, Comparison
<1>3. Decided' <=> Decided
  BY <1>1 DEF Decided
<1>4. QED
  BY <1>1, <1>2, <1>3 DEF LedgerInv

\* Every step keeps the ledger in step with the cells: edits of the sources do not reach the
\* records.
LEMMA LedgerNext ==
  ASSUME LedgerInv, [Next]_vars
  PROVE  LedgerInv'
<1>1. CASE AdmitConfiguration
  <2>1. UNCHANGED <<campaign, next, returned, ledger, document>> /\ pc = "admit"
    BY <1>1 DEF AdmitConfiguration, records
  <2>2. pc' = "failed" \/ (pc' = "own" /\ Admissible(Config))
    BY <1>1 DEF AdmitConfiguration, Refuse
  <2>3. UNCHANGED Config
    BY <2>1 DEF Config
  <2>4. QED
    BY <2>1, <2>2, <2>3 DEF LedgerInv
<1>2. CASE OwnOutput
  <2>1. UNCHANGED <<campaign, next, returned, ledger, document>> /\ pc = "own"
    BY <1>2 DEF OwnOutput, records
  <2>2. pc' = "failed" \/ pc' = "cells"
    BY <1>2 DEF OwnOutput, Refuse
  <2>3. UNCHANGED <<Config, Root>>
    BY <2>1 DEF Config, Root
  <2>4. Admissible(Config) /\ ledger = <<>> /\ next = 1
    BY <2>1 DEF LedgerInv
  <2>5. Collected(Config, campaign.base, Root, ledger)
    BY <2>4, AdmissibleParts, EmptyIsCollected
  <2>6. next = Len(ledger) + 1
    BY <2>4
  <2>7. QED
    BY <2>1, <2>2, <2>3, <2>4, <2>5, <2>6 DEF LedgerInv
<1>3. CASE Compare
  <2>1. UNCHANGED <<campaign, next, ledger, document>> /\ pc = "cells" /\ next <= Len(CellKeys)
    BY <1>3 DEF Compare
  <2>2. UNCHANGED <<Config, CellKeys, Root>>
    BY <2>1 DEF Config, CellKeys, Root
  <2>3. CASE pc' = "failed"
    BY <2>1, <2>3 DEF LedgerInv
  <2>4. CASE pc' # "failed"
    <3> DEFINE key == CellKeys[next]
    <3>1. PICK status \in Possible(campaign, key) :
            /\ returned' = {ComparisonReceipt(Comparison(key), Read(world, Comparison(key)), status)}
            /\ pc' = "bind"
      BY <1>3, <2>4 DEF Compare, Refuse
    <3>2. key \in ToSet(CellKeys)
      <4>1. Config \in Configurations /\ ledger \in Seq(ToSet(ledger)) /\ next = Len(ledger) + 1
        BY <2>1, AdmissibleParts DEF LedgerInv, Collected
      <4>2. CellKeys \in Seq(Triples)
        BY <4>1, KeysMembers DEF CellKeys
      <4>3. next \in DOMAIN CellKeys
        BY <2>1, <4>1, <4>2
      <4>4. QED
        BY <4>3 DEF ToSet
    <3>3. status \in Statuses
      BY <3>2, ComparisonsComplete DEF LedgerInv, CellKeys, Config
    <3>4. \A receipt \in returned' : Began(key, receipt)'
      <4>1. UNCHANGED Comparison(key)
        BY <2>1, <2>2 DEF Comparison
      <4> HIDE DEF key
      <4>2. QED
        BY <3>1, <3>3, <4>1 DEF Began
    <3>5. QED
      BY <2>1, <2>2, <3>1, <3>4 DEF LedgerInv
  <2>5. QED
    BY <2>3, <2>4
<1>4. CASE CompareFails
  <2>1. pc' = "failed" /\ UNCHANGED campaign
    BY <1>4 DEF CompareFails, Refuse
  <2>2. QED
    BY <2>1 DEF LedgerInv
<1>5. CASE BindCell
  <2>1. UNCHANGED <<campaign, document>> /\ pc = "bind"
    BY <1>5 DEF BindCell
  <2>2. UNCHANGED <<Config, CellKeys, Root>>
    BY <2>1 DEF Config, CellKeys, Root
  <2>3. CASE pc' = "failed"
    BY <2>1, <2>3 DEF LedgerInv
  <2>4. CASE pc' # "failed"
    <3> DEFINE key == CellKeys[next]
    <3>1. PICK receipt \in returned :
            /\ ledger' = Append(ledger, CellRecord(Config, key, Comparison(key), receipt))
            /\ next' = next + 1 /\ pc' = "cells"
      BY <1>5, <2>4 DEF BindCell, Refuse
    <3>2. /\ Admissible(Config) /\ Collected(Config, campaign.base, Root, ledger) /\ next = Len(ledger) + 1
          /\ next <= Len(CellKeys) /\ Began(key, receipt)
      BY <2>1 DEF LedgerInv
    <3>3. PICK w : \E status \in Statuses : receipt = ComparisonReceipt(Comparison(key), Read(w, Comparison(key)), status)
      BY <3>2 DEF Began
    <3>10. PICK status \in Statuses : receipt = ComparisonReceipt(Comparison(key), Read(w, Comparison(key)), status)
      BY <3>3
    <3> DEFINE r == CellRecord(Config, key, Comparison(key), receipt)
    <3>4. Reads(Config, campaign.base, Root, r, w)
      <4> HIDE DEF key
      <4>1. Comparison(key) = ComparisonPrimitive(Config, campaign.base, key, Root)
        BY DEF Comparison
      <4>2. QED
        BY <3>10, <4>1, RecordIsRead
    <3>5. r.key = key
      BY DEF CellRecord
    <3> HIDE DEF r
    <3>6. Config \in Configurations /\ key = Keys(Config)[Len(ledger) + 1] /\ Len(ledger) + 1 <= Len(Keys(Config))
      BY <3>2, AdmissibleParts DEF CellKeys
    <3> HIDE DEF key
    <3>7. Collected(Config, campaign.base, Root, Append(ledger, r)) /\ Len(Append(ledger, r)) = Len(ledger) + 1
      BY <3>2, <3>4, <3>5, <3>6, CollectedGrows
    <3>8. ledger' = Append(ledger, r)
      BY <3>1 DEF r
    <3>9. QED
      BY <2>1, <2>2, <3>1, <3>2, <3>7, <3>8 DEF LedgerInv
  <2>5. QED
    BY <2>3, <2>4
<1>6. CASE DecideCampaign
  <2>1. UNCHANGED <<campaign, returned, ledger>> /\ pc = "cells" /\ next > Len(CellKeys)
    BY <1>6 DEF DecideCampaign
  <2>2. UNCHANGED <<Config, CellKeys, Root>>
    BY <2>1 DEF Config, CellKeys, Root
  <2>3. CASE pc' = "failed"
    BY <2>1, <2>3 DEF LedgerInv
  <2>4. CASE pc' # "failed"
    <3>1. /\ ValidateCampaign(Config, ledger) /\ ~(Len(EligibleIds(ledger)) < Config.budget)
          /\ document' = {BuildQualificationReceipt(Config, campaign.file, ledger)}
          /\ pc' = "verify"
      BY <1>6, <2>4 DEF DecideCampaign, Refuse
    <3>2. Admissible(Config) /\ Collected(Config, campaign.base, Root, ledger) /\ next = Len(ledger) + 1
      BY <2>1 DEF LedgerInv
    <3>3. Config \in Configurations /\ Config.budget \in Nat
      BY <3>2, AdmissibleParts, BudgetAssumption
    <3>4. Len(ledger) \in Nat /\ Len(ledger) <= Len(CellKeys) /\ Len(CellKeys) \in Nat
      <4>1. ledger \in Seq(ToSet(ledger)) /\ Len(ledger) <= Len(CellKeys)
        BY <3>2 DEF Collected, CellKeys
      <4>2. CellKeys \in Seq(Triples)
        BY <3>3, KeysMembers DEF CellKeys
      <4>3. QED
        BY <4>1, <4>2
    <3>5. Len(ledger) = Len(CellKeys)
      BY <2>1, <3>2, <3>4
    <3>6. Len(EligibleIds(ledger)) \in Nat
      <4>1. Fills(Config, ledger)
        BY <3>2, <3>3, <3>5, CollectedFills DEF CellKeys
      <4> DEFINE kept == [key \in ToSet(Keys(Config)) |-> Cell(ledger, key)]
      <4>2. Restates(Config, ledger, kept)
        BY DEF Restates
      <4> HIDE DEF kept
      <4>3. Len(EligibleIds(ledger)) = Cardinality(Sound(Config, kept)) /\ Sound(Config, kept) \in SUBSET (DOMAIN Config.workloads)
        BY <3>2, <4>1, <4>2, EligibleAreSound
      <4>4. IsFiniteSet(Sound(Config, kept))
        BY <3>2, <4>3, NamedOnce
      <4>5. QED
        BY <4>3, <4>4, FS_CardinalityType
    <3>7. Len(EligibleIds(ledger)) >= Config.budget
      BY <3>1, <3>3, <3>6
    <3>8. Decided'
      BY <2>1, <2>2, <3>1, <3>2, <3>5, <3>7 DEF Decided
    <3>9. QED
      BY <2>1, <3>1, <3>8 DEF LedgerInv
  <2>5. QED
    BY <2>3, <2>4
<1>7. CASE VerifyRetained
  <2>1. UNCHANGED <<campaign, returned, ledger, document>> /\ pc = "verify" /\ (pc' = "failed" \/ pc' = pc)
    BY <1>7 DEF VerifyRetained, Refuse
  <2>2. UNCHANGED <<Config, CellKeys, Root>>
    BY <2>1 DEF Config, CellKeys, Root
  <2>3. Decided /\ (Decided' <=> Decided)
    BY <2>1, <2>2 DEF LedgerInv, Decided
  <2>4. QED
    BY <2>1, <2>3 DEF LedgerInv
<1>8. CASE Publish \/ Reader
  <2>1. UNCHANGED <<campaign, next, returned, ledger, document>> /\ pc \in {"verify", "done"} /\ pc' \in {"failed", "done", "read"}
    BY <1>8 DEF Publish, Reader, Refuse, records
  <2>2. UNCHANGED <<Config, CellKeys, Root>>
    BY <2>1 DEF Config, CellKeys, Root
  <2>3. Decided /\ (Decided' <=> Decided)
    BY <2>1, <2>2 DEF LedgerInv, Decided
  <2>4. QED
    BY <2>1, <2>3 DEF LedgerInv
<1>9. CASE Rivals
  <2>1. UNCHANGED <<pc, campaign, next, returned, ledger, document>>
    BY <1>9 DEF Rivals, RivalSource, RivalRetained, RivalDirectory, RivalMove, RivalDocument, records
  <2>2. QED
    BY <2>1, LedgerRests
<1>10. CASE UNCHANGED vars
  <2>1. UNCHANGED <<pc, campaign, next, returned, ledger, document>>
    BY <1>10 DEF vars
  <2>2. QED
    BY <2>1, LedgerRests
<1>11. QED
  BY <1>1, <1>2, <1>3, <1>4, <1>5, <1>6, <1>7, <1>8, <1>9, <1>10 DEF Next, Run

\* What a campaign is decided from hangs together, however its sources were edited while it ran.
THEOREM CampaignIsCoherentHolds == Spec => []CampaignIsCoherent
<1>1. ASSUME LedgerInv
      PROVE  CampaignIsCoherent
  <2>1. SUFFICES ASSUME pc = "done" PROVE CampaignIsCoherent
    BY DEF CampaignIsCoherent
  <2>2. Decided
    BY <1>1, <2>1 DEF LedgerInv
  <2>3. QED
    BY <2>2, ValidIsCoherent DEF Decided, CampaignIsCoherent, CellKeys
<1>2. LedgerInv /\ [Next]_vars => LedgerInv'
  BY LedgerNext
<1>3. QED
  BY LedgerInit, <1>1, <1>2, PTL DEF Spec

-----------------------------------------------------------------------------
(* Witnesses                                                               *)

\* A set of pairs of numbers has an earliest one.
LEMMA EarliestPair ==
  ASSUME NEW S, S # {}, \A s \in S : s = <<s[1], s[2]>> /\ s[1] \in Nat /\ s[2] \in Nat
  PROVE  \E s \in S : \A t \in S : t = s \/ s[1] < t[1] \/ (s[1] = t[1] /\ s[2] < t[2])
<1> DEFINE First == {s[1] : s \in S}
<1>1. PICK a \in First : \A b \in First : a <= b
  <2>1. First \in SUBSET Nat /\ First # {}
    OBVIOUS
  <2> HIDE DEF First
  <2>2. QED
    BY <2>1, LeastNumber
<1> DEFINE Second == {s[2] : s \in {t \in S : t[1] = a}}
<1>2. PICK c \in Second : \A d \in Second : c <= d
  <2>1. Second \in SUBSET Nat /\ Second # {}
    BY <1>1
  <2> HIDE DEF Second
  <2>2. QED
    BY <2>1, LeastNumber
<1>3. PICK s \in S : s[1] = a /\ s[2] = c
  BY <1>2
<1>4. ASSUME NEW t \in S
      PROVE  t = s \/ s[1] < t[1] \/ (s[1] = t[1] /\ s[2] < t[2])
  <2>1. t[1] \in First /\ a <= t[1] /\ t[1] \in Nat /\ a \in Nat /\ c \in Nat /\ t[2] \in Nat
    BY <1>1, <1>3
  <2>2. CASE t[1] = a
    <3>1. c <= t[2]
      BY <1>2, <2>2
    <3>2. s = <<a, c>> /\ t = <<a, t[2]>>
      BY <1>3, <2>2
    <3>3. QED
      BY <1>3, <2>1, <2>2, <3>1, <3>2
  <2>3. CASE t[1] # a
    BY <1>3, <2>1, <2>3
  <2>4. QED
    BY <2>2, <2>3
<1>5. QED
  BY <1>4

\* Two pairs compare like the sequences they are.
LEMMA BeforeOfPairs ==
  ASSUME NEW a \in Nat, NEW b \in Nat, NEW c \in Nat, NEW d \in Nat
  PROVE  Before(<<a, b>>, <<c, d>>) <=> a < c \/ (a = c /\ b < d)
<1>1. Before(<<a, b>>, <<c, d>>) <=> \E i \in 1..2 : <<a, b>>[i] < <<c, d>>[i] /\ \A j \in 1..(i - 1) : <<a, b>>[j] = <<c, d>>[j]
  BY DEF Before
<1>2. QED
  BY <1>1

\* A rung at stake is lost when it is the reason of the status: open, or else not seen.
Lost(config, kept, W, status, g, v) ==
  /\ v \in AtStake(config, g)
  /\ IF status = "UNRESOLVED" THEN Open(kept, W, g, v) ELSE ~Sees(kept, W, g, v)
Reason(status) == IF status = "UNRESOLVED" THEN "UNRESOLVED" ELSE "NOT_DETECTED"
IsPair(config, s) ==
  s = <<s[1], s[2]>> /\ s[1] \in DOMAIN config.probe_groups /\ s[2] \in DOMAIN config.probe_groups[s[1]].variants

\* The failing rungs of a choice are the rungs at stake, of the groups it does not cover, that its signature
\* gives the outcome.
LEMMA FailingAre ==
  ASSUME NEW config, Admissible(config), NEW cells, Fills(config, cells), NEW kept, Restates(config, cells, kept),
         NEW W \in SUBSET (DOMAIN config.workloads), NEW outcome
  PROVE  LET F == FailingRungs(config, AdjudicateSubset(config, OutcomeMap(cells), Ids(config, W)), outcome) IN
         /\ \A s \in F :
              /\ IsPair(config, s) /\ s[2] \in AtStake(config, s[1]) /\ s[1] \notin Covered(config, kept, W)
              /\ Signature(config, cells, W, s[1])[s[2]] = outcome
         /\ \A g \in DOMAIN config.probe_groups : \A v \in AtStake(config, g) :
              g \notin Covered(config, kept, W) /\ Signature(config, cells, W, g)[v] = outcome => <<g, v>> \in F
<1> DEFINE subset == AdjudicateSubset(config, OutcomeMap(cells), Ids(config, W))
           F == FailingRungs(config, subset, outcome)
           Of(g) == {u \in DOMAIN subset.groups[g].detection_signature :
                       /\ subset.groups[g].status # "QUALIFIED"
                       /\ u >= RequiredIndex(config.probe_groups[g])
                       /\ subset.groups[g].detection_signature[u] = outcome}
           In(g) == {u \in AtStake(config, g) :
                       g \notin Covered(config, kept, W) /\ Signature(config, cells, W, g)[u] = outcome}
<1>1. DOMAIN subset.groups = DOMAIN config.probe_groups
  BY DEF AdjudicateSubset
<1>2. ASSUME NEW g \in DOMAIN config.probe_groups
      PROVE  Of(g) = In(g) /\ AtStake(config, g) \subseteq DOMAIN config.probe_groups[g].variants
  <2> DEFINE group == config.probe_groups[g]
             n == Len(group.variants)
             required == RequiredIndex(group)
  <2>1. n \in Nat /\ DOMAIN group.variants = 1..n /\ required \in 1..n
    BY AdmissibleParts, ConfigurationParts, RequiredIsRung
  <2>2. subset.groups[g].detection_signature = Signature(config, cells, W, g)
    BY DEF AdjudicateSubset, AdjudicateGroup, Signature
  <2>3. DOMAIN Signature(config, cells, W, g) = 1..n
    <3>1. /\ DOMAIN Signature(config, cells, W, g) = DOMAIN group.variants
          /\ \A v \in DOMAIN group.variants : Signature(config, cells, W, g)[v] = "DETECTED" <=> Sees(kept, W, g, v)
      BY SignatureIs
    <3>2. QED
      BY <2>1, <3>1
  <2>4. subset.groups[g].status # "QUALIFIED" <=> g \notin Covered(config, kept, W)
    BY GroupIs
  <2>5. AtStake(config, g) = required..n
    BY DEF AtStake, Required
  <2>6. \A u : u \in 1..n /\ u >= required <=> u \in required..n
    <3> HIDE DEF n, required
    <3>1. QED
      BY <2>1
  <2> HIDE DEF subset, n, required
  <2>7. Of(g) = {u \in 1..n : /\ g \notin Covered(config, kept, W) /\ u >= required
                             /\ Signature(config, cells, W, g)[u] = outcome}
    BY <2>2, <2>3, <2>4 DEF required
  <2>8. In(g) = {u \in required..n : g \notin Covered(config, kept, W) /\ Signature(config, cells, W, g)[u] = outcome}
    BY <2>5
  <2>9. AtStake(config, g) \subseteq DOMAIN group.variants
    BY <2>1, <2>5, <2>6
  <2> HIDE DEF Of, In
  <2>10. Of(g) = In(g)
    BY <2>6, <2>7, <2>8
  <2>11. QED
    BY <2>9, <2>10
<1>3. F = UNION {{<<g, v>> : v \in Of(g)} : g \in DOMAIN config.probe_groups}
  BY <1>1 DEF FailingRungs
<1> HIDE DEF subset, F, Of
<1>4. ASSUME NEW s \in F
      PROVE  /\ IsPair(config, s) /\ s[2] \in AtStake(config, s[1]) /\ s[1] \notin Covered(config, kept, W)
             /\ Signature(config, cells, W, s[1])[s[2]] = outcome
  <2>1. PICK g \in DOMAIN config.probe_groups : s \in {<<g, v>> : v \in Of(g)}
    BY <1>3
  <2>2. PICK v \in Of(g) : s = <<g, v>>
    BY <2>1
  <2>3. s[1] = g /\ s[2] = v /\ s = <<s[1], s[2]>>
    BY <2>2
  <2>4. v \in In(g)
    BY <1>2, <2>2
  <2>5. QED
    BY <1>2, <2>3, <2>4 DEF IsPair
<1>5. ASSUME NEW g \in DOMAIN config.probe_groups, NEW v \in AtStake(config, g),
             g \notin Covered(config, kept, W), Signature(config, cells, W, g)[v] = outcome
      PROVE  <<g, v>> \in F
  <2>1. v \in Of(g)
    BY <1>2, <1>5
  <2>2. QED
    BY <1>3, <2>1
<1>6. QED
  BY <1>4, <1>5 DEF F, subset

\* Where a choice does not qualify, the failing rungs that its status names are the lost ones, and there are some.
LEMMA LostAreFailing ==
  ASSUME NEW config, Admissible(config), NEW cells, Fills(config, cells), NEW kept, Restates(config, cells, kept),
         NEW W \in SUBSET (DOMAIN config.workloads),
         NEW status, status = ImpliedStatus(config, kept, W), status # "QUALIFIED_FOR_DECLARED_PROBES"
  PROVE  LET F == FailingRungs(config, AdjudicateSubset(config, OutcomeMap(cells), Ids(config, W)), Reason(status)) IN
         /\ F # {}
         /\ \A s \in F : IsPair(config, s) /\ Lost(config, kept, W, status, s[1], s[2])
                         /\ Signature(config, cells, W, s[1])[s[2]] = Reason(status)
         /\ \A g \in DOMAIN config.probe_groups : \A v : Lost(config, kept, W, status, g, v) => <<g, v>> \in F
<1> DEFINE F == FailingRungs(config, AdjudicateSubset(config, OutcomeMap(cells), Ids(config, W)), Reason(status))
<1>1. /\ \A s \in F :
           /\ IsPair(config, s) /\ s[2] \in AtStake(config, s[1]) /\ s[1] \notin Covered(config, kept, W)
           /\ Signature(config, cells, W, s[1])[s[2]] = Reason(status)
      /\ \A g \in DOMAIN config.probe_groups : \A v \in AtStake(config, g) :
           g \notin Covered(config, kept, W) /\ Signature(config, cells, W, g)[v] = Reason(status) => <<g, v>> \in F
  BY FailingAre
<1> HIDE DEF F
<1>2. ASSUME NEW g \in DOMAIN config.probe_groups, NEW v \in AtStake(config, g)
      PROVE  /\ v \in DOMAIN config.probe_groups[g].variants
             /\ Signature(config, cells, W, g)[v] = "DETECTED" <=> Sees(kept, W, g, v)
             /\ Signature(config, cells, W, g)[v] = "UNRESOLVED" <=> Open(kept, W, g, v)
             /\ Signature(config, cells, W, g)[v] \in {"DETECTED", "UNRESOLVED", "NOT_DETECTED"}
  <2>1. v \in DOMAIN config.probe_groups[g].variants
    <3> DEFINE n == Len(config.probe_groups[g].variants)
               required == RequiredIndex(config.probe_groups[g])
    <3>1. n \in Nat /\ DOMAIN config.probe_groups[g].variants = 1..n /\ required \in 1..n
      BY AdmissibleParts, ConfigurationParts, RequiredIsRung
    <3>2. v \in required..n
      BY DEF AtStake, Required
    <3> HIDE DEF n, required
    <3>3. QED
      BY <3>1, <3>2
  <2>2. QED
    BY <2>1, SignatureIs
<1>3. status # "UNRESOLVED" => Undecided(config, kept, W) = {}
  BY DEF ImpliedStatus
<1>4. \A g \in DOMAIN config.probe_groups : \A v \in AtStake(config, g) :
        ~Sees(kept, W, g, v) => g \notin Covered(config, kept, W)
  BY DEF Covered
<1>5. ASSUME NEW g \in DOMAIN config.probe_groups, NEW v \in AtStake(config, g)
      PROVE  Signature(config, cells, W, g)[v] = Reason(status) <=> Lost(config, kept, W, status, g, v)
  <2>1. CASE status = "UNRESOLVED"
    BY <1>2, <2>1 DEF Lost, Reason
  <2>2. CASE status # "UNRESOLVED"
    <3>1. ~Open(kept, W, g, v)
      BY <1>3, <2>2 DEF Undecided
    <3>2. Signature(config, cells, W, g)[v] = "NOT_DETECTED" <=> ~Sees(kept, W, g, v)
      BY <1>2, <3>1
    <3>3. QED
      BY <2>2, <3>2 DEF Lost, Reason
  <2>3. QED
    BY <2>1, <2>2
<1>6. ASSUME NEW g \in DOMAIN config.probe_groups, NEW v, Lost(config, kept, W, status, g, v)
      PROVE  <<g, v>> \in F
  <2>1. v \in AtStake(config, g)
    BY <1>6 DEF Lost
  <2>2. ~Sees(kept, W, g, v)
    BY <1>6, Zenon DEF Lost, Open
  <2>3. Signature(config, cells, W, g)[v] = Reason(status)
    BY <1>5, <1>6, <2>1
  <2>4. QED
    BY <1>1, <1>4, <2>1, <2>2, <2>3
<1>7. \E g \in DOMAIN config.probe_groups : \E v : Lost(config, kept, W, status, g, v)
  <2>1. CASE status = "UNRESOLVED"
    <3>1. Undecided(config, kept, W) # {}
      BY <2>1 DEF ImpliedStatus
    <3>2. QED
      BY <2>1, <3>1 DEF Undecided, Lost
  <2>2. CASE status # "UNRESOLVED"
    <3>1. Covered(config, kept, W) # DOMAIN config.probe_groups
      BY <1>3, <2>2 DEF ImpliedStatus
    <3>2. PICK g \in DOMAIN config.probe_groups : ~(\A v \in AtStake(config, g) : Sees(kept, W, g, v))
      BY <3>1 DEF Covered
    <3>3. QED
      BY <2>2, <3>2 DEF Lost
  <2>3. QED
    BY <2>1, <2>2
<1>8. F # {}
  BY <1>6, <1>7
<1>9. \A s \in F : IsPair(config, s) /\ Lost(config, kept, W, status, s[1], s[2])
                   /\ Signature(config, cells, W, s[1])[s[2]] = Reason(status)
  <2>1. ASSUME NEW s \in F PROVE IsPair(config, s) /\ Lost(config, kept, W, status, s[1], s[2])
    <3>1. s[1] \in DOMAIN config.probe_groups /\ IsPair(config, s)
      BY <1>1 DEF IsPair
    <3>2. QED
      BY <1>1, <1>5, <3>1
  <2>2. QED
    BY <1>1, <2>1
<1>10. QED
  BY <1>6, <1>8, <1>9 DEF F

\* A workload of the choice gives a rung its outcome.
LEMMA SomeGives ==
  ASSUME NEW config, Admissible(config), NEW cells, Fills(config, cells), NEW kept, Restates(config, cells, kept),
         NEW W \in SUBSET (DOMAIN config.workloads), W # {}, NEW g \in DOMAIN config.probe_groups,
         NEW v \in DOMAIN config.probe_groups[g].variants
  PROVE  \E w \in W : OutcomeMap(cells)[<<config.workloads[w].workload_id, config.probe_groups[g].probe_id, v>>]
                        = Signature(config, cells, W, g)[v]
<1> DEFINE sig == Signature(config, cells, W, g)[v]
<1>1. /\ sig = "DETECTED" <=> Sees(kept, W, g, v)
      /\ sig = "UNRESOLVED" <=> Open(kept, W, g, v)
      /\ sig \in {"DETECTED", "UNRESOLVED", "NOT_DETECTED"}
  BY SignatureIs
<1> HIDE DEF sig
<1>2. \A w \in W : OutcomeMap(cells)[<<config.workloads[w].workload_id, config.probe_groups[g].probe_id, v>>]
                     = DetectionOutcome(kept[<<w, g, v>>].status)
  <2>1. ASSUME NEW w \in W
        PROVE  OutcomeMap(cells)[<<config.workloads[w].workload_id, config.probe_groups[g].probe_id, v>>]
                 = DetectionOutcome(kept[<<w, g, v>>].status)
    <3>1. w \in DOMAIN config.workloads
      OBVIOUS
    <3>2. <<w, g, v>> \in ToSet(Keys(config))
      BY <3>1, AdmissibleParts, KeysMembers
    <3>3. kept[<<w, g, v>>].status = Cell(cells, <<w, g, v>>).status
      BY <3>2 DEF Restates
    <3>4. OutcomeMap(cells)[<<config.workloads[w].workload_id, config.probe_groups[g].probe_id, v>>]
            = DetectionOutcome(Cell(cells, <<w, g, v>>).status)
      BY <3>1, MatrixIsFilled
    <3>5. QED
      BY <3>3, <3>4
  <2>2. QED
    BY <2>1
<1>3. \E w \in W : DetectionOutcome(kept[<<w, g, v>>].status) = sig
  <2>1. CASE sig = "DETECTED"
    BY <1>1, <2>1, OutcomeIs DEF Sees
  <2>2. CASE sig = "UNRESOLVED"
    BY <1>1, <2>2, OutcomeIs DEF Open
  <2>3. CASE sig = "NOT_DETECTED"
    <3>1. PICK w \in W : TRUE
      OBVIOUS
    <3>2. DetectionOutcome(kept[<<w, g, v>>].status) # "DETECTED"
      BY <1>1, <2>3, OutcomeIs DEF Sees
    <3>3. DetectionOutcome(kept[<<w, g, v>>].status) # "UNRESOLVED"
      <4>1. kept[<<w, g, v>>].status \in {"NO_MATERIAL_DIFFERENCE", "MATERIAL_BEHAVIOR_CHANGE"}
        BY <1>1, <2>3, Zenon DEF Open
      <4>2. QED
        BY <4>1, OutcomeIs
    <3>4. QED
      BY <2>3, <3>2, <3>3, OutcomeIs
  <2>4. QED
    BY <1>1, <2>1, <2>2, <2>3
<1>4. QED
  BY <1>2, <1>3 DEF sig

\* The witness of a status is of the first rung that is lost, and names a workload that gives the reason.
Explains(config, kept, W, status, witness) ==
  /\ witness.group \in DOMAIN config.probe_groups
  /\ Lost(config, kept, W, status, witness.group, witness.variant_index)
  /\ \A g \in 1..witness.group : \A v \in DOMAIN config.probe_groups[g].variants :
       Lost(config, kept, W, status, g, v) => g = witness.group /\ v >= witness.variant_index
  /\ \E w \in W :
       /\ config.workloads[w].workload_id = witness.workload_id
       /\ witness.kind = DetectionOutcome(kept[<<w, witness.group, witness.variant_index>>].status)

\* Whatever the implied status, the rung the code names explains it.
LEMMA WitnessIsFound ==
  ASSUME NEW config, Admissible(config), NEW cells, Fills(config, cells), NEW kept, Restates(config, cells, kept),
         NEW W \in SUBSET (DOMAIN config.workloads), W # {},
         NEW status, status = ImpliedStatus(config, kept, W), status # "QUALIFIED_FOR_DECLARED_PROBES"
  PROVE  \E witness \in RungWitness(config, AdjudicateSubset(config, OutcomeMap(cells), Ids(config, W)),
                                    OutcomeMap(cells), Reason(status)) :
           Explains(config, kept, W, status, witness)
<1> DEFINE subset == AdjudicateSubset(config, OutcomeMap(cells), Ids(config, W))
           F == FailingRungs(config, subset, Reason(status))
<1>1. /\ F # {}
      /\ \A s \in F : IsPair(config, s) /\ Lost(config, kept, W, status, s[1], s[2])
                      /\ Signature(config, cells, W, s[1])[s[2]] = Reason(status)
      /\ \A g \in DOMAIN config.probe_groups : \A v : Lost(config, kept, W, status, g, v) => <<g, v>> \in F
  BY LostAreFailing
<1>2. /\ config \in Configurations /\ DOMAIN config.probe_groups = 1..Len(config.probe_groups)
      /\ Len(config.probe_groups) \in Nat
      /\ \A g \in DOMAIN config.probe_groups :
           DOMAIN config.probe_groups[g].variants = 1..Len(config.probe_groups[g].variants)
  BY AdmissibleParts, ConfigurationParts
<1>3. \A s \in F : s = <<s[1], s[2]>> /\ s[1] \in Nat /\ s[2] \in Nat
  <2> HIDE DEF F
  <2>1. \A s \in F : s = <<s[1], s[2]>> /\ s[1] \in DOMAIN config.probe_groups
                     /\ s[2] \in DOMAIN config.probe_groups[s[1]].variants
    BY <1>1 DEF IsPair
  <2>2. QED
    BY <1>2, <2>1
<1>4. PICK s \in F : \A t \in F : t = s \/ s[1] < t[1] \/ (s[1] = t[1] /\ s[2] < t[2])
  <2> HIDE DEF F
  <2>1. QED
    BY <1>1, <1>3, EarliestPair
<1> DEFINE outcome == Reason(status)
           group == config.probe_groups[s[1]]
           id == Contributors(OutcomeMap(cells), subset, group.probe_id, s[2], outcome)
           witness == [kind |-> outcome, group |-> s[1], variant_index |-> s[2],
                       magnitude |-> group.variants[s[2]].magnitude, workload_id |-> id]
<1>5. witness \in RungWitness(config, subset, OutcomeMap(cells), outcome)
  <2>1. \A t \in F : t = s \/ Before(s, t)
    <3>1. ASSUME NEW t \in F PROVE t = s \/ Before(s, t)
      <4> HIDE DEF F
      <4>1. /\ s = <<s[1], s[2]>> /\ s[1] \in Nat /\ s[2] \in Nat
            /\ t = <<t[1], t[2]>> /\ t[1] \in Nat /\ t[2] \in Nat
        BY <1>3
      <4>2. Before(<<s[1], s[2]>>, <<t[1], t[2]>>) <=> s[1] < t[1] \/ (s[1] = t[1] /\ s[2] < t[2])
        BY <4>1, BeforeOfPairs
      <4>3. QED
        BY <1>4, <4>1, <4>2
    <3>2. QED
      BY <3>1
  <2>2. s \in {r \in F : \A t \in F : t = r \/ Before(r, t)}
    BY <2>1
  <2> HIDE DEF subset
  <2>3. QED
    BY <2>2 DEF RungWitness
<1>6. /\ witness.kind = outcome /\ witness.group = s[1] /\ witness.variant_index = s[2] /\ witness.workload_id = id
  OBVIOUS
<1>7. /\ s[1] \in DOMAIN config.probe_groups /\ s[2] \in DOMAIN group.variants
      /\ Lost(config, kept, W, status, s[1], s[2]) /\ Signature(config, cells, W, s[1])[s[2]] = outcome
      /\ s[1] \in Nat /\ s[2] \in Nat
  BY <1>1, <1>3 DEF IsPair
<1>8. \E w \in W : /\ config.workloads[w].workload_id = id
                   /\ outcome = DetectionOutcome(kept[<<w, s[1], s[2]>>].status)
  <2> DEFINE Given(i) == OutcomeMap(cells)[<<i, group.probe_id, s[2]>>]
             Givers == {i \in ToSet(subset.workload_ids) : Given(i) = outcome}
  <2>1. ToSet(subset.workload_ids) = Ids(config, W) /\ \A i \in Ids(config, W) : i \in Nat
    <3>1. subset.workload_ids = Ascending(Ids(config, W))
      BY SubsetIs
    <3>2. IsFiniteSet(Ids(config, W)) /\ \A i \in Ids(config, W) : i \in Nat
      BY NamedOnce
    <3>3. QED
      BY <3>1, <3>2, AscendingMembers
  <2>2. PICK u \in W : Given(config.workloads[u].workload_id) = outcome
    <3> DEFINE g == s[1]
               v == s[2]
    <3>1. g \in DOMAIN config.probe_groups /\ v \in DOMAIN config.probe_groups[g].variants
      BY <1>7
    <3> HIDE DEF g, v, outcome
    <3>2. \E w \in W : OutcomeMap(cells)[<<config.workloads[w].workload_id, config.probe_groups[g].probe_id, v>>]
                         = Signature(config, cells, W, g)[v]
      BY <3>1, SomeGives
    <3>3. QED
      BY <1>7, <3>2 DEF g, v
  <2>3. Givers \in SUBSET Nat /\ Givers # {}
    <3>1. config.workloads[u].workload_id \in Ids(config, W)
      BY DEF Ids
    <3> HIDE DEF Given, subset, outcome
    <3>2. QED
      BY <2>1, <2>2, <3>1
  <2>4. id = Min(Givers)
    BY DEF Contributors
  <2> HIDE DEF Givers
  <2>5. Min(Givers) \in Givers
    <3>1. \E x \in Givers : \A y \in Givers : x <= y
      BY <2>3, LeastNumber
    <3>2. QED
      BY <3>1 DEF Min
  <2>6. id \in Ids(config, W) /\ Given(id) = outcome
    BY <2>1, <2>4, <2>5 DEF Givers
  <2>7. PICK w \in W : id = config.workloads[w].workload_id
    BY <2>6 DEF Ids
  <2>8. w \in DOMAIN config.workloads
    OBVIOUS
  <2>9. Given(config.workloads[w].workload_id) = DetectionOutcome(Cell(cells, <<w, s[1], s[2]>>).status)
    BY <1>7, <2>8, MatrixIsFilled
  <2>10. kept[<<w, s[1], s[2]>>].status = Cell(cells, <<w, s[1], s[2]>>).status
    <3>1. <<w, s[1], s[2]>> \in ToSet(Keys(config))
      BY <1>2, <1>7, <2>8, KeysMembers
    <3>2. QED
      BY <3>1 DEF Restates
  <2> HIDE DEF Given, id
  <2>11. QED
    BY <2>6, <2>7, <2>9, <2>10
<1>9. ASSUME NEW g \in 1..s[1], NEW v \in DOMAIN config.probe_groups[g].variants, Lost(config, kept, W, status, g, v)
      PROVE  g = s[1] /\ v >= s[2]
  <2>1. g \in DOMAIN config.probe_groups /\ g \in Nat
    BY <1>2, <1>7
  <2>2. <<g, v>> \in F
    BY <1>1, <1>9, <2>1
  <2>3. v \in Nat
    BY <1>2, <2>1
  <2>4. <<g, v>> = s \/ s[1] < g \/ (s[1] = g /\ s[2] < v)
    <3> HIDE DEF F
    <3>1. <<g, v>> = s \/ s[1] < <<g, v>>[1] \/ (s[1] = <<g, v>>[1] /\ s[2] < <<g, v>>[2])
      BY <1>4, <2>2
    <3>2. QED
      BY <3>1
  <2>5. CASE <<g, v>> = s
    BY <1>7, <2>5
  <2>6. CASE <<g, v>> # s
    BY <1>7, <2>1, <2>3, <2>4, <2>6
  <2>7. QED
    BY <2>5, <2>6
<1> HIDE DEF witness, F, id, outcome
<1>10. Explains(config, kept, W, status, witness)
  <2> HIDE DEF group
  <2>1. /\ witness.group \in DOMAIN config.probe_groups
        /\ Lost(config, kept, W, status, witness.group, witness.variant_index)
    BY <1>6, <1>7
  <2>2. \A g \in 1..witness.group : \A v \in DOMAIN config.probe_groups[g].variants :
          Lost(config, kept, W, status, g, v) => g = witness.group /\ v >= witness.variant_index
    BY <1>6, <1>9
  <2>3. QED
    BY <1>6, <1>8, <2>1, <2>2 DEF Explains
<1>11. QED
  BY <1>5, <1>10 DEF outcome, subset

\* The receipts of a ledger, by cell, say of each cell what its record says.
LEMMA LedgerRestates ==
  ASSUME Decided
  PROVE  Fills(Config, ledger) /\ Restates(Config, ledger, [key \in ToSet(CellKeys) |-> Cell(ledger, key).receipt])
<1>1. Config \in Configurations
  BY AdmissibleParts DEF Decided
<1>2. Fills(Config, ledger) /\ \A r \in ToSet(ledger) : \E w : Reads(Config, campaign.base, Root, r, w)
  BY <1>1, CollectedFills DEF Decided, CellKeys
<1>3. ASSUME NEW key \in ToSet(Keys(Config))
      PROVE  Cell(ledger, key).receipt.status = Cell(ledger, key).status
  <2>1. Cell(ledger, key) \in ToSet(ledger)
    BY <1>1, <1>2, CellsAreFilled
  <2>2. PICK w : Reads(Config, campaign.base, Root, Cell(ledger, key), w)
    BY <1>2, <2>1
  <2>3. QED
    BY <2>2 DEF Reads, ComparisonReceipt
<1>4. QED
  BY <1>2, <1>3 DEF Restates, CellKeys

\* A published answer that is not a full qualification names a reason a reader can look up.
THEOREM WitnessExplainsHolds == Spec => []WitnessExplains
<1>1. ASSUME LedgerInv
      PROVE  WitnessExplains
  <2>1. SUFFICES ASSUME pc = "done", NEW built \in document, built.body.status # "QUALIFIED_FOR_DECLARED_PROBES"
                 PROVE  LET doc == built.body
                            kept == [key \in ToSet(CellKeys) |-> Cell(ledger, key).receipt]
                            chosen == Chosen(Config, doc)
                            Losing(g, v) == v \in AtStake(Config, g) /\
                              IF doc.status = "UNRESOLVED" THEN Open(kept, chosen, g, v) ELSE ~Sees(kept, chosen, g, v)
                        IN \E witness \in doc.witnesses.first_witness :
                             /\ Losing(witness.group, witness.variant_index)
                             /\ \A g \in 1..witness.group : \A v \in DOMAIN Config.probe_groups[g].variants :
                                  Losing(g, v) => g = witness.group /\ v >= witness.variant_index
                             /\ \E w \in chosen :
                                  /\ Config.workloads[w].workload_id = witness.workload_id
                                  /\ witness.kind = DetectionOutcome(kept[<<w, witness.group, witness.variant_index>>].status)
    BY DEF WitnessExplains
  <2> DEFINE doc == built.body
             kept == [key \in ToSet(CellKeys) |-> Cell(ledger, key).receipt]
             decision == Decide(Config, OutcomeMap(ledger), EligibleIds(ledger))
  <2>2. Decided
    BY <1>1, <2>1 DEF LedgerInv
  <2>3. Admissible(Config) /\ Len(EligibleIds(ledger)) >= Config.budget
    BY <2>2 DEF Decided
  <2>4. /\ doc.status = decision.status
        /\ doc.selected_workload_ids = decision.selected.workload_ids
        /\ doc.witnesses = CollectWitnesses(Config, decision.selected, decision.status, OutcomeMap(ledger),
                                            ExcludedIds(ledger), Reasons(ledger))
    <3>1. built = BuildQualificationReceipt(Config, campaign.file, ledger)
      BY <2>2 DEF Decided
    <3>2. doc = Unhashed(Config, campaign.file, ledger)
      BY <3>1 DEF BuildQualificationReceipt, Hashed
    <3>3. QED
      BY <3>2 DEF Unhashed
  <2>5. Fills(Config, ledger) /\ Restates(Config, ledger, kept)
    BY <2>2, LedgerRestates
  <2> HIDE DEF kept, doc
  <2>6. PICK W \in kSubset(Budget, Sound(Config, kept)) :
           /\ decision.selected = AdjudicateSubset(Config, OutcomeMap(ledger), Ids(Config, W))
           /\ decision.status = ImpliedStatus(Config, kept, W)
           /\ decision.selected.workload_ids = Ascending(Ids(Config, W))
    BY <2>3, <2>5, DecisionIsBest
  <2>7. W \in SUBSET (DOMAIN Config.workloads) /\ Cardinality(W) = Budget /\ IsFiniteSet(W) /\ W # {}
    <3>1. W \in SUBSET Sound(Config, kept) /\ Cardinality(W) = Budget
      BY DEF kSubset
    <3>2. Sound(Config, kept) \in SUBSET (DOMAIN Config.workloads)
      BY <2>3, <2>5, EligibleAreSound
    <3>3. W \in SUBSET (DOMAIN Config.workloads)
      BY <3>1, <3>2
    <3>4. IsFiniteSet(W)
      BY <2>3, <3>3, NamedOnce
    <3>5. W # {}
      BY <3>1, BudgetAssumption, FS_EmptySet
    <3>6. QED
      BY <3>1, <3>3, <3>4, <3>5
  <2>8. Chosen(Config, doc) = W
    <3>1. IsFiniteSet(Ids(Config, W)) /\ \A id \in Ids(Config, W) : id \in Nat
      BY <2>3, <2>7, NamedOnce
    <3>2. ToSet(Ascending(Ids(Config, W))) = Ids(Config, W)
      BY <3>1, AscendingMembers
    <3>3. {w \in DOMAIN Config.workloads : Config.workloads[w].workload_id \in Ids(Config, W)} = W
      BY <2>3, <2>7, NamedOnce
    <3>4. doc.selected_workload_ids = Ascending(Ids(Config, W))
      BY <2>4, <2>6
    <3>5. QED
      BY <3>2, <3>3, <3>4 DEF Chosen
  <2>9. doc.status # "QUALIFIED_FOR_DECLARED_PROBES" /\ doc.status = ImpliedStatus(Config, kept, W)
    BY <2>1, <2>4, <2>6 DEF doc
  <2>10. doc.witnesses.first_witness
           = RungWitness(Config, AdjudicateSubset(Config, OutcomeMap(ledger), Ids(Config, W)), OutcomeMap(ledger),
                         Reason(doc.status))
    <3>1. doc.witnesses = CollectWitnesses(Config, decision.selected, doc.status, OutcomeMap(ledger),
                                           ExcludedIds(ledger), Reasons(ledger))
      BY <2>4
    <3> HIDE DEF decision
    <3>2. CASE doc.status = "UNRESOLVED"
      BY <2>6, <2>9, <3>1, <3>2 DEF CollectWitnesses, Reason
    <3>3. CASE doc.status # "UNRESOLVED"
      BY <2>6, <2>9, <3>1, <3>3 DEF CollectWitnesses, Reason
    <3>4. QED
      BY <3>2, <3>3
  <2>11. PICK witness \in doc.witnesses.first_witness : Explains(Config, kept, W, doc.status, witness)
    <3> DEFINE status == doc.status
    <3> HIDE DEF status
    <3>1. status = ImpliedStatus(Config, kept, W) /\ status # "QUALIFIED_FOR_DECLARED_PROBES"
      BY <2>9 DEF status
    <3>2. \E witness \in RungWitness(Config, AdjudicateSubset(Config, OutcomeMap(ledger), Ids(Config, W)),
                                     OutcomeMap(ledger), Reason(status)) :
            Explains(Config, kept, W, status, witness)
      BY <2>3, <2>5, <2>7, <3>1, WitnessIsFound
    <3>3. QED
      BY <2>10, <3>2 DEF status
  <2>12. QED
    BY <2>8, <2>11 DEF Explains, Lost, doc, kept
<1>2. LedgerInv /\ [Next]_vars => LedgerInv'
  BY LedgerNext
<1>3. QED
  BY LedgerInit, <1>1, <1>2, PTL DEF Spec

-----------------------------------------------------------------------------
(* The document of a campaign lists its ledger                             *)

\* Selecting the positions from one to another keeps that part of a sequence.
LEMMA ThoseBetween ==
  ASSUME NEW S, NEW s \in Seq(S), NEW a \in Nat, NEW b \in Nat, a <= b, b <= Len(s)
  PROVE  /\ Those(s, (a + 1)..b) \in Seq(S) /\ Len(Those(s, (a + 1)..b)) = b - a
         /\ \A i \in 1..(b - a) : Those(s, (a + 1)..b)[i] = s[a + i]
<1> DEFINE positions == (a + 1)..b
           Length(n) == IF n <= a THEN 0 ELSE IF n <= b THEN n - a ELSE b - a
<1>1. PICK f : Keeping(s, positions, Len(s), f) /\ Those(s, positions) = f[Len(s)]
  BY ThoseAreKept
<1> DEFINE G == {n \in 0..Len(s) : /\ f[n] \in Seq(S) /\ Len(f[n]) = Length(n)
                                   /\ \A i \in 1..Len(f[n]) : f[n][i] = s[a + i]}
<1>2. 0 \in G
  <2>1. f[0] = <<>>
    BY <1>1 DEF Keeping, Kept
  <2>2. Length(0) = 0 /\ 0 \in 0..Len(s)
    OBVIOUS
  <2>3. f[0] \in Seq(S) /\ Len(f[0]) = 0 /\ \A i \in 1..Len(f[0]) : f[0][i] = s[a + i]
    BY <2>1
  <2> HIDE DEF Length
  <2>4. QED
    BY <2>2, <2>3
<1>3. ASSUME NEW n \in 1..Len(s), n - 1 \in G
      PROVE  n \in G
  <2>1. f[n - 1] \in Seq(S) /\ Len(f[n - 1]) = Length(n - 1) /\ \A i \in 1..Len(f[n - 1]) : f[n - 1][i] = s[a + i]
    BY <1>3
  <2>2. s[n] \in S /\ n \in 0..Len(s)
    OBVIOUS
  <2>3. CASE n \in positions
    <3>1. f[n] = Append(f[n - 1], s[n])
      BY <1>1, <2>3, KeptIs
    <3>2. Length(n - 1) = n - 1 - a /\ Length(n) = n - a
      BY <2>3
    <3> HIDE DEF Length
    <3>3. f[n] \in Seq(S) /\ Len(f[n]) = n - a
      BY <2>1, <2>2, <3>1, <3>2
    <3>4. ASSUME NEW i \in 1..Len(f[n]) PROVE f[n][i] = s[a + i]
      <4>1. CASE i \in 1..Len(f[n - 1])
        BY <2>1, <2>2, <3>1, <4>1
      <4>2. CASE i = n - a
        <5>1. i = Len(f[n - 1]) + 1 /\ a + i = n
          BY <2>1, <2>2, <3>2, <4>2
        <5>2. f[n][i] = s[n]
          BY <2>1, <2>2, <3>1, <5>1
        <5>3. QED
          BY <5>1, <5>2
      <4>3. QED
        BY <2>1, <3>2, <3>3, <4>1, <4>2
    <3>5. QED
      BY <2>2, <3>2, <3>3, <3>4
  <2>4. CASE n \notin positions
    <3>1. f[n] = f[n - 1]
      BY <1>1, <2>4, KeptIs
    <3>2. Length(n) = Length(n - 1)
      BY <2>4
    <3> HIDE DEF Length
    <3>3. QED
      BY <2>1, <2>2, <3>1, <3>2
  <2>5. QED
    BY <2>3, <2>4
<1>4. Len(s) \in G
  <2>1. Len(s) \in Nat /\ Len(s) \in 0..Len(s)
    OBVIOUS
  <2> HIDE DEF G
  <2>2. QED
    BY <1>2, <1>3, <2>1, UpTo
<1>5. Length(Len(s)) = b - a
  BY Len(s) \in Nat
<1> HIDE DEF Length
<1>6. QED
  BY <1>1, <1>4, <1>5

\* Controls first and probes after them, the records are the cells in order.
LEMMA RecordsAreCells ==
  ASSUME NEW config \in Configurations, NEW cells, Fills(config, cells)
  PROVE  /\ Len(Controls(cells)) = Len(config.workloads)
         /\ \A i \in 1..Len(config.workloads) : Controls(cells)[i] = cells[i]
         /\ Len(Probes(cells)) = Len(ProbeKeys(config))
         /\ \A i \in 1..Len(ProbeKeys(config)) : Probes(cells)[i] = cells[Len(config.workloads) + i]
         /\ Controls(cells) \o Probes(cells) = cells
<1> DEFINE m == Len(config.workloads)
           n == Len(ProbeKeys(config))
           c == {i \in DOMAIN cells : IsControl(cells[i].key)}
           p == {i \in DOMAIN cells : ~IsControl(cells[i].key)}
<1>1. /\ cells \in Seq(ToSet(cells)) /\ DOMAIN cells = 1..(m + n) /\ Len(cells) = m + n /\ m \in Nat /\ n \in Nat
      /\ \A i \in 1..m : cells[i].key = <<i, 0, 0>>
      /\ \A i \in 1..n : cells[m + i].key = ProbeKeys(config)[i]
  <2>1. m \in Nat /\ ProbeKeys(config) \in Seq(Triples)
    BY ConfigurationParts, ProbeKeysMembers
  <2>2. n \in Nat
    BY <2>1
  <2>3. Len(Keys(config)) = m + n
    BY KeysMembers
  <2>4. /\ cells \in Seq(ToSet(cells)) /\ Len(cells) = m + n
        /\ \A i \in 1..(m + n) : cells[i].key = Keys(config)[i]
    BY <2>3 DEF Fills
  <2>5. /\ \A i \in 1..m : Keys(config)[i] = <<i, 0, 0>>
        /\ \A i \in 1..n : Keys(config)[m + i] = ProbeKeys(config)[i]
    BY KeysMembers
  <2> HIDE DEF m, n
  <2>6. (\A i \in 1..m : i \in 1..(m + n)) /\ (\A i \in 1..n : m + i \in 1..(m + n))
    BY <2>1, <2>2
  <2>7. QED
    BY <2>1, <2>2, <2>4, <2>5, <2>6
<1>2. \A i \in 1..n : ProbeKeys(config)[i][2] # 0
  <2>1. \A key \in ToSet(ProbeKeys(config)) : key[2] # 0
    BY ProbeKeysMembers, ConfigurationParts DEF IsRung
  <2>2. DOMAIN ProbeKeys(config) = 1..n
    BY ProbeKeysMembers
  <2>3. QED
    BY <2>1, <2>2 DEF ToSet
<1> HIDE DEF m, n
<1>3. c = (0 + 1)..m /\ p = (m + 1)..(m + n)
  <2>1. ASSUME NEW i \in 1..(m + n) PROVE IsControl(cells[i].key) <=> i <= m
    <3>1. CASE i <= m
      <4>1. cells[i].key = <<i, 0, 0>>
        BY <1>1, <3>1
      <4>2. QED
        BY <3>1, <4>1 DEF IsControl
    <3>2. CASE ~(i <= m)
      <4>1. i - m \in 1..n /\ i = m + (i - m)
        BY <1>1, <3>2
      <4>2. cells[i].key = ProbeKeys(config)[i - m]
        BY <1>1, <4>1
      <4>3. QED
        BY <1>2, <3>2, <4>1, <4>2 DEF IsControl
    <3>3. QED
      BY <3>1, <3>2
  <2>2. \A i : i \in 1..(m + n) /\ i <= m <=> i \in (0 + 1)..m
    BY <1>1
  <2>3. \A i : i \in 1..(m + n) /\ ~(i <= m) <=> i \in (m + 1)..(m + n)
    BY <1>1
  <2>4. QED
    BY <1>1, <2>1, <2>2, <2>3
<1>4. Controls(cells) = Those(cells, (0 + 1)..m) /\ Probes(cells) = Those(cells, (m + 1)..(m + n))
  <2>1. Controls(cells) = Those(cells, c) /\ Probes(cells) = Those(cells, p)
    BY DEF Controls, Probes
  <2> HIDE DEF c, p
  <2>2. QED
    BY <1>3, <2>1
<1> HIDE DEF c, p
<1>5. /\ Controls(cells) \in Seq(ToSet(cells)) /\ Len(Controls(cells)) = m
      /\ \A i \in 1..m : Controls(cells)[i] = cells[i]
  <2> DEFINE z == 0
  <2>5. z \in Nat /\ m \in Nat /\ z <= m /\ m <= Len(cells) /\ cells \in Seq(ToSet(cells))
    BY <1>1
  <2> HIDE DEF z
  <2>6. /\ Those(cells, (z + 1)..m) \in Seq(ToSet(cells)) /\ Len(Those(cells, (z + 1)..m)) = m - z
        /\ \A i \in 1..(m - z) : Those(cells, (z + 1)..m)[i] = cells[z + i]
    BY ONLY <2>5, ThoseBetween
  <2>1. /\ Those(cells, (0 + 1)..m) \in Seq(ToSet(cells)) /\ Len(Those(cells, (0 + 1)..m)) = m - 0
        /\ \A i \in 1..(m - 0) : Those(cells, (0 + 1)..m)[i] = cells[0 + i]
    BY <2>6 DEF z
  <2>2. \A i \in 1..m : 0 + i = i /\ i \in 1..(m - 0)
    BY <1>1
  <2>3. m - 0 = m
    BY <1>1
  <2>4. QED
    BY <1>4, <2>1, <2>2, <2>3
<1>6. /\ Probes(cells) \in Seq(ToSet(cells)) /\ Len(Probes(cells)) = n
      /\ \A i \in 1..n : Probes(cells)[i] = cells[m + i]
  <2>1. /\ Those(cells, (m + 1)..(m + n)) \in Seq(ToSet(cells)) /\ Len(Those(cells, (m + 1)..(m + n))) = (m + n) - m
        /\ \A i \in 1..((m + n) - m) : Those(cells, (m + 1)..(m + n))[i] = cells[m + i]
    <3>1. m + n \in Nat /\ m <= m + n /\ m + n <= Len(cells)
      BY <1>1
    <3>2. QED
      BY <1>1, <3>1, ThoseBetween
  <2>2. (m + n) - m = n
    BY <1>1
  <2>3. QED
    BY <1>4, <2>1, <2>2
<1>7. Controls(cells) \o Probes(cells) = cells
  <2> DEFINE t == Controls(cells) \o Probes(cells)
  <2>1. t \in Seq(ToSet(cells)) /\ Len(t) = m + n
    BY <1>1, <1>5, <1>6
  <2>2. ASSUME NEW i \in 1..(m + n) PROVE t[i] = cells[i]
    <3>1. CASE i <= m
      BY <1>1, <1>5, <1>6, <3>1
    <3>2. CASE ~(i <= m)
      <4>1. t[i] = Probes(cells)[i - m]
        BY <1>1, <1>5, <1>6, <3>2
      <4>2. i - m \in 1..n /\ m + (i - m) = i
        BY <1>1, <3>2
      <4>3. QED
        BY <1>6, <4>1, <4>2
    <3>3. QED
      BY <3>1, <3>2
  <2> HIDE DEF t
  <2>3. t = cells
    BY <1>1, <2>1, <2>2
  <2>4. QED
    BY <2>3 DEF t
<1>8. QED
  BY <1>5, <1>6, <1>7 DEF m, n

\* Parts of a set that an operation tells apart give as many results.
LEMMA PartsAreCounted ==
  ASSUME NEW S, IsFiniteSet(S), NEW k, NEW f, DOMAIN f = kSubset(k, S),
         \A T, U \in kSubset(k, S) : f[T] = f[U] => T = U
  PROVE  /\ Cardinality({f[T] : T \in kSubset(k, S)}) = Cardinality(kSubset(k, S))
         /\ Cardinality(kSubset(k, S)) \in Nat
<1> DEFINE P == kSubset(k, S)
           image == {f[T] : T \in P}
           g == [T \in P |-> f[T]]
<1>1. IsFiniteSet(P)
  <2>1. P \in SUBSET (SUBSET S) /\ IsFiniteSet(SUBSET S)
    BY FS_SUBSET DEF kSubset
  <2>2. QED
    BY <2>1, FS_Subset
<1>2. g \in Bijection(P, image)
  <2>1. g \in [P -> image] /\ \A x \in image : \E T \in P : g[T] = x
    OBVIOUS
  <2>2. IsInjective(g)
    BY DEF IsInjective
  <2> HIDE DEF g
  <2>3. QED
    BY <2>1, <2>2 DEF Bijection, Injection, Surjection
<1> HIDE DEF g, image, P
<1>3. ExistsBijection(P, image)
  BY <1>2 DEF ExistsBijection
<1>4. Cardinality(image) = Cardinality(P)
  BY <1>1, <1>3, FS_Bijection
<1>5. Cardinality(P) \in Nat
  BY <1>1, FS_CardinalityType
<1>6. QED
  BY <1>4, <1>5 DEF image, P

\* Every choice of eligible workloads is evaluated, once.
LEMMA EveryChoiceIsRanked ==
  ASSUME NEW config, Admissible(config), NEW cells, Fills(config, cells)
  PROVE  Decide(config, OutcomeMap(cells), EligibleIds(cells)).subsets_evaluated
           = Cardinality(kSubset(config.budget, ToSet(EligibleIds(cells))))
<1> DEFINE eligible == ToSet(EligibleIds(cells))
           Of(ids) == Summary(AdjudicateSubset(config, OutcomeMap(cells), ids))
           parts == kSubset(config.budget, eligible)
           summaries == {Of(ids) : ids \in parts}
           R == {pair \in summaries \X summaries : Ranks(pair[1], pair[2])}
           kept == [key \in ToSet(Keys(config)) |-> Cell(cells, key)]
<1>1. IsFiniteSet(eligible) /\ \A id \in eligible : id \in Nat
  <2>1. Restates(config, cells, kept)
    BY DEF Restates
  <2> HIDE DEF kept
  <2>2. eligible = Ids(config, Sound(config, kept)) /\ Sound(config, kept) \in SUBSET (DOMAIN config.workloads)
    BY <2>1, EligibleAreSound
  <2>3. QED
    BY <2>2, NamedOnce
<1> HIDE DEF eligible
<1>2. ASSUME NEW ids \in parts
      PROVE  ToSet(Of(ids).workload_ids) = ids
  <2>1. Of(ids).workload_ids = Ascending(ids)
    BY DEF Summary, AdjudicateSubset
  <2>2. ids \in SUBSET eligible
    BY DEF kSubset
  <2>3. IsFiniteSet(ids)
    BY <1>1, <2>2, FS_Subset
  <2> HIDE DEF Of, parts
  <2>4. ToSet(Ascending(ids)) = ids
    BY <1>1, <2>2, <2>3, AscendingMembers
  <2>5. QED
    BY <2>1, <2>4
<1> DEFINE f == [ids \in parts |-> Of(ids)]
<1>3. /\ DOMAIN f = parts /\ \A ids \in parts : f[ids] = Of(ids)
  OBVIOUS
<1>4. {f[ids] : ids \in parts} = summaries
  <2> HIDE DEF Of, parts
  <2>1. QED
    OBVIOUS
<1> HIDE DEF f, Of
<1>5. \A T, U \in parts : f[T] = f[U] => T = U
  BY <1>2, <1>3
<1>6. Cardinality(summaries) = Cardinality(parts) /\ Cardinality(parts) \in Nat
  <2>1. Cardinality({f[T] : T \in parts}) = Cardinality(parts) /\ Cardinality(parts) \in Nat
    BY <1>1, <1>3, <1>5, PartsAreCounted
  <2> HIDE DEF summaries, parts
  <2>2. QED
    BY <1>4, <2>1
<1> HIDE DEF R, summaries
<1>7. Len(Ordered(summaries, R)) = Cardinality(summaries)
  <2> DEFINE n == Cardinality(summaries)
             At(i) == CHOOSE x \in summaries : Rank(summaries, R, x) = i - 1
             t == [i \in 1..n |-> At(i)]
  <2>1. Ordered(summaries, R) = t /\ n \in Nat
    BY <1>6, OrderedIs
  <2>2. t \in [1..n -> {At(i) : i \in 1..n}]
    <3> HIDE DEF At, n
    <3>1. QED
      OBVIOUS
  <2> HIDE DEF t, n, At
  <2>3. Len(t) = n
    BY <2>1, <2>2
  <2>4. QED
    BY <2>1, <2>3 DEF n
<1>8. Decide(config, OutcomeMap(cells), EligibleIds(cells)).subsets_evaluated = Len(Ordered(summaries, R))
  BY DEF Decide, R, summaries, eligible, Of
<1>9. QED
  BY <1>6, <1>7, <1>8 DEF eligible

\* A document that lists the ledger names its cells in the order of the configuration, each with what follows
\* from its status.
LEMMA DocumentLists ==
  ASSUME NEW config \in Configurations, NEW base, NEW root, NEW cells, Collected(config, base, root, cells),
         Len(cells) = Len(Keys(config)),
         NEW doc, doc.zero_change_controls = Controls(cells), doc.probe_cells = Probes(cells)
  PROVE  /\ Records(doc) = cells /\ WellFormed(doc) /\ KeysMatch(config, doc)
         /\ \A r \in ToSet(doc.probe_cells) : CellFollows(config, r)
         /\ \A r \in ToSet(doc.zero_change_controls) : ControlFollows(r)
<1>1. Fills(config, cells) /\ \A r \in ToSet(cells) : \E w : Reads(config, base, root, r, w)
  BY CollectedFills
<1>2. /\ Controls(cells) \in Seq(ToSet(cells)) /\ Probes(cells) \in Seq(ToSet(cells))
      /\ ToSet(Controls(cells)) = {r \in ToSet(cells) : r.key[2] = 0}
      /\ ToSet(Probes(cells)) = {r \in ToSet(cells) : r.key[2] # 0}
  BY <1>1, SelectedCells
<1>3. ASSUME NEW r \in ToSet(cells)
      PROVE  /\ r.status \in Statuses
             /\ r.key[2] = 0 => ControlFollows(r)
             /\ r.key[2] # 0 => CellFollows(config, r)
  <2>1. PICK w : Reads(config, base, root, r, w)
    BY <1>1
  <2>2. QED
    BY <2>1 DEF Reads, ControlFollows, CellFollows, IsControl
<1>4. Records(doc) = cells
  BY <1>1, RecordsAreCells DEF Records
<1>5. WellFormed(doc)
  <2>1. \A s \in Seq(ToSet(cells)) : s \in Seq(ToSet(s))
    <3>1. ASSUME NEW s \in Seq(ToSet(cells)) PROVE s \in Seq(ToSet(s))
      <4>1. \A i \in 1..Len(s) : s[i] \in ToSet(s)
        BY DEF ToSet
      <4>2. QED
        BY <4>1
    <3>2. QED
      BY <3>1
  <2>2. IsArray(doc.zero_change_controls) /\ IsArray(doc.probe_cells)
    BY <1>2, <2>1 DEF IsArray
  <2>3. \A r \in ToSet(doc.zero_change_controls) \union ToSet(doc.probe_cells) : r.status \in Statuses
    BY <1>2, <1>3
  <2>4. QED
    BY <2>2, <2>3 DEF WellFormed
<1>6. KeysMatch(config, doc)
  <2> DEFINE m == Len(config.workloads)
             n == Len(ProbeKeys(config))
  <2>1. /\ Len(Controls(cells)) = m /\ \A i \in 1..m : Controls(cells)[i] = cells[i]
        /\ Len(Probes(cells)) = n /\ \A i \in 1..n : Probes(cells)[i] = cells[m + i]
    BY <1>1, RecordsAreCells
  <2>2. /\ m \in Nat /\ DOMAIN config.workloads = 1..m /\ ProbeKeys(config) \in Seq(Triples)
    BY ConfigurationParts, ProbeKeysMembers
  <2>3. n \in Nat /\ DOMAIN ProbeKeys(config) = 1..n /\ DOMAIN Controls(cells) = 1..m /\ DOMAIN Probes(cells) = 1..n
    BY <1>2, <2>1, <2>2
  <2>4. /\ \A i \in 1..(m + n) : cells[i].key = Keys(config)[i]
        /\ \A i \in 1..m : Keys(config)[i] = <<i, 0, 0>>
        /\ \A i \in 1..n : Keys(config)[m + i] = ProbeKeys(config)[i]
        /\ DOMAIN cells = 1..(m + n)
    <3>1. Len(cells) = m + n
      BY KeysMembers
    <3>2. cells \in Seq(ToSet(cells)) /\ \A i \in 1..Len(cells) : cells[i].key = Keys(config)[i]
      BY <1>1 DEF Fills
    <3>3. /\ \A i \in 1..m : Keys(config)[i] = <<i, 0, 0>>
          /\ \A i \in 1..n : Keys(config)[m + i] = ProbeKeys(config)[i]
      BY KeysMembers
    <3>4. QED
      BY <3>1, <3>2, <3>3
  <2> HIDE DEF m, n
  <2>5. ASSUME NEW i \in 1..m
        PROVE  <<Controls(cells)[i].key, Controls(cells)[i].workload_id>> = <<<<i, 0, 0>>, config.workloads[i].workload_id>>
    <3>1. i \in 1..(m + n)
      BY <2>2, <2>3
    <3>2. Controls(cells)[i] = cells[i] /\ cells[i].key = <<i, 0, 0>>
      BY <2>1, <2>4, <3>1
    <3>3. cells[i] \in ToSet(cells)
      BY <2>4, <3>1 DEF ToSet
    <3>4. cells[i].workload_id = config.workloads[cells[i].key[1]].workload_id
      BY <1>1, <3>3 DEF Fills
    <3>5. QED
      BY <3>2, <3>4
  <2>6. ASSUME NEW i \in 1..n PROVE Probes(cells)[i].key = ProbeKeys(config)[i]
    <3>1. m + i \in 1..(m + n)
      BY <2>2, <2>3
    <3>2. QED
      BY <2>1, <2>4, <3>1
  <2>7. [i \in DOMAIN Controls(cells) |-> <<Controls(cells)[i].key, Controls(cells)[i].workload_id>>]
          = [w \in DOMAIN config.workloads |-> <<<<w, 0, 0>>, config.workloads[w].workload_id>>]
    BY <2>2, <2>3, <2>5
  <2>8. [i \in DOMAIN Probes(cells) |-> Probes(cells)[i].key] = ProbeKeys(config)
    <3>1. ProbeKeys(config) = [i \in 1..n |-> ProbeKeys(config)[i]]
      BY <2>2, <2>3
    <3>2. QED
      BY <2>3, <2>6, <3>1
  <2>9. QED
    BY <2>7, <2>8 DEF KeysMatch
<1>7. QED
  BY <1>2, <1>3, <1>4, <1>5, <1>6

\* No two members of the ledger are retained under one locator.
LEMMA LocatorsAreDistinct ==
  ASSUME NEW config \in Configurations, NEW base, NEW root, NEW cells, Collected(config, base, root, cells),
         Len(cells) = Len(Keys(config)), NEW doc, Records(doc) = cells
  PROVE  IsInjective(Locators(doc))
<1>1. DOMAIN cells = 1..Len(cells) /\ \A i \in DOMAIN cells : cells[i].key = Keys(config)[i] /\ \E w : Reads(config, base, root, cells[i], w)
  BY DEF Collected
<1>2. \A i, j \in DOMAIN cells : Keys(config)[i] = Keys(config)[j] => i = j
  <2>1. IsInjective(Keys(config)) /\ DOMAIN Keys(config) = 1..Len(Keys(config))
    BY KeysMembers
  <2>2. QED
    BY <1>1, <2>1 DEF IsInjective
<1>3. \A i \in DOMAIN cells : /\ cells[i].config_locator = <<Keys(config)[i], "config">>
                              /\ cells[i].receipt_locator = <<Keys(config)[i], "receipt">>
  <2>1. ASSUME NEW i \in DOMAIN cells
        PROVE  /\ cells[i].config_locator = <<Keys(config)[i], "config">>
               /\ cells[i].receipt_locator = <<Keys(config)[i], "receipt">>
    <3>1. PICK w : Reads(config, base, root, cells[i], w)
      BY <1>1
    <3>2. QED
      BY <1>1, <3>1 DEF Reads, Locator
  <2>2. QED
    BY <2>1
<1> DEFINE ats == (DOMAIN cells) \X {"config", "receipt"}
<1>4. ASSUME NEW at \in ats
      PROVE  Locators(doc)[at] = <<Keys(config)[at[1]], at[2]>> /\ at = <<at[1], at[2]>> /\ at[1] \in DOMAIN cells
  <2>1. at[1] \in DOMAIN cells /\ at[2] \in {"config", "receipt"} /\ at = <<at[1], at[2]>>
    OBVIOUS
  <2>2. Locators(doc)[at] = IF at[2] = "config" THEN cells[at[1]].config_locator ELSE cells[at[1]].receipt_locator
    BY DEF Locators
  <2> HIDE DEF ats
  <2>3. QED
    BY <1>3, <2>1, <2>2
<1>5. DOMAIN Locators(doc) = ats
  BY DEF Locators
<1> HIDE DEF ats
<1>6. QED
  BY <1>2, <1>4, <1>5 DEF IsInjective

\* The document of a campaign validates: what it derives is what a reader derives from the records it lists.
LEMMA DocumentValidates ==
  ASSUME NEW config, Admissible(config), NEW base, NEW root, NEW raw, NEW cells, Collected(config, base, root, cells),
         Len(cells) = Len(Keys(config)), Len(EligibleIds(cells)) >= config.budget
  PROVE  ValidateQualificationReceipt(BuildQualificationReceipt(config, raw, cells))
<1> DEFINE doc == Unhashed(config, raw, cells)
           decision == Decide(config, OutcomeMap(cells), EligibleIds(cells))
           kept == [key \in ToSet(Keys(config)) |-> Cell(cells, key)]
<1>1. config \in Configurations /\ Fills(config, cells)
  BY AdmissibleParts, CollectedFills
<1>2. /\ doc.configuration = config
      /\ doc.status = decision.status /\ doc.completed_exit_code = QualificationExitCode(decision.status)
      /\ doc.zero_change_controls = Controls(cells) /\ doc.probe_cells = Probes(cells)
      /\ doc.eligible_workload_ids = EligibleIds(cells) /\ doc.excluded_workload_ids = ExcludedIds(cells)
      /\ doc.selected_workload_ids = decision.selected.workload_ids /\ doc.selection = decision.selected
      /\ doc.subset_ranking = decision.ranking /\ doc.subsets_evaluated = decision.subsets_evaluated
      /\ doc.planned_comparisons = PlannedComparisons(config)
      /\ doc.execution_counts = Counts(Controls(cells), Probes(cells))
      /\ doc.witnesses = CollectWitnesses(config, decision.selected, decision.status, OutcomeMap(cells),
                                          ExcludedIds(cells), Reasons(cells))
  <2> HIDE DEF decision
  <2>1. QED
    BY DEF Unhashed, decision
<1> HIDE DEF doc, decision
<1>3. /\ Records(doc) = cells /\ WellFormed(doc) /\ KeysMatch(config, doc)
      /\ \A r \in ToSet(doc.probe_cells) : CellFollows(config, r)
      /\ \A r \in ToSet(doc.zero_change_controls) : ControlFollows(r)
  BY <1>1, <1>2, DocumentLists
<1>4. Restates(config, cells, kept)
  BY DEF Restates
<1> HIDE DEF kept
<1>5. PICK W \in kSubset(Budget, Sound(config, kept)) :
        /\ decision.selected = AdjudicateSubset(config, OutcomeMap(cells), Ids(config, W))
        /\ decision.selected.workload_ids = Ascending(Ids(config, W))
  BY <1>1, <1>4, DecisionIsBest DEF decision
<1>6. W \in SUBSET (DOMAIN config.workloads) /\ Cardinality(W) = Budget
  <2>1. W \in SUBSET Sound(config, kept) /\ Cardinality(W) = Budget
    BY DEF kSubset
  <2>2. Sound(config, kept) \in SUBSET (DOMAIN config.workloads)
    BY <1>1, <1>4, EligibleAreSound
  <2>3. QED
    BY <2>1, <2>2
<1>7. /\ IsInjective(Ascending(Ids(config, W))) /\ Len(Ascending(Ids(config, W))) = Budget
      /\ ToSet(Ascending(Ids(config, W))) = Ids(config, W)
  <2>1. /\ IsFiniteSet(Ids(config, W)) /\ Cardinality(Ids(config, W)) = Cardinality(W)
        /\ \A id \in Ids(config, W) : id \in Nat
    BY <1>6, NamedOnce
  <2>2. QED
    BY <1>6, <2>1, AscendingMembers
<1>8. RegistryInvariants(doc)
  <2>1. IsInjective(Locators(doc))
    BY <1>1, <1>3, LocatorsAreDistinct
  <2>2. QED
    BY <1>2, <1>5, <1>7, <2>1 DEF RegistryInvariants
<1>9. ReconstructSelection(config, doc, decision)
  <2>1. doc.subsets_evaluated = Cardinality(kSubset(config.budget, ToSet(doc.eligible_workload_ids)))
    BY <1>1, <1>2, EveryChoiceIsRanked DEF decision
  <2>2. doc.selection = AdjudicateSubset(config, OutcomeMap(Records(doc)), ToSet(doc.selected_workload_ids))
    BY <1>2, <1>3, <1>5, <1>7
  <2>3. QED
    BY <1>2, <2>1, <2>2 DEF ReconstructSelection
<1>10. ReconstructWitnesses(config, doc, decision)
  BY <1>2, <1>3 DEF ReconstructWitnesses
<1>11. Reconstruct(config, doc)
  <2>1. Decide(config, OutcomeMap(Records(doc)), doc.eligible_workload_ids) = decision
    BY <1>2, <1>3 DEF decision
  <2>2. ReconstructCounts(doc)
    BY <1>2 DEF ReconstructCounts
  <2>3. /\ doc.eligible_workload_ids = EligibleIds(Records(doc))
        /\ doc.excluded_workload_ids = ExcludedIds(Records(doc))
        /\ Len(doc.eligible_workload_ids) >= config.budget
    BY <1>2, <1>3
  <2>4. QED
    BY <1>2, <1>3, <1>9, <1>10, <2>1, <2>2, <2>3 DEF Reconstruct
<1> DEFINE document0 == BuildQualificationReceipt(config, raw, cells)
<1>12. document0.body = doc /\ document0.receipt_sha256 = doc
  BY DEF BuildQualificationReceipt, Hashed, doc
<1> HIDE DEF document0
<1>13. ValidateQualificationReceipt(document0)
  BY <1>2, <1>3, <1>8, <1>11, <1>12 DEF ValidateQualificationReceipt, VerifySelfHash
<1>14. QED
  BY <1>13 DEF document0

-----------------------------------------------------------------------------
(* What the reader binds to the retained files                             *)

\* Whoever holds the ledger of a campaign holds, under its locators, what the records bind.
Retains(files0, cells) ==
  \A r \in ToSet(cells) :
    /\ r.config_locator \in DOMAIN files0 /\ r.receipt_locator \in DOMAIN files0
    /\ files0[r.config_locator] = r.config /\ files0[r.receipt_locator] = r.receipt

\* A record whose two files are retained as they were returned is linked.
LEMMA CellsAreLinked ==
  ASSUME NEW config, NEW base, NEW root, NEW r, NEW w, Reads(config, base, root, r, w), NEW files0,
         r.config_locator \in DOMAIN files0, r.receipt_locator \in DOMAIN files0,
         files0[r.config_locator] = r.config, files0[r.receipt_locator] = r.receipt
  PROVE  LinkedCell(r, files0)
<1>1. r.receipt = ComparisonReceipt(r.config, Read(w, r.config), r.status)
  BY DEF Reads
<1>2. /\ r.receipt.configuration = r.config /\ r.receipt.status = r.status /\ r.receipt.inputs = Read(w, r.config)
      /\ r.receipt.contract = ComparisonContract(r.config, Read(w, r.config))
  BY <1>1 DEF ComparisonReceipt
<1>3. ReceiptValid(r.receipt)
  BY <1>2 DEF ReceiptValid, ComparisonContract
<1>4. QED
  BY <1>2, <1>3 DEF LinkedCell

\* The base of a campaign is what precedes the baseline in every configuration it generated.
LEMMA BaseIsDeclared ==
  ASSUME NEW base \in Paths, NEW declared \in Paths, ".." \notin ToSet(base), ".." \notin ToSet(declared)
  PROVE  DeclaredCampaignBase(base \o declared, declared) = {base}
<1> DEFINE observed == base \o declared
           m == Len(base)
           n == Len(declared)
<1>1. base \in Seq(STRING) /\ declared \in Seq(STRING) /\ m \in Nat /\ n \in Nat
  BY DEF Paths
<1>2. observed \in Seq(STRING) /\ Len(observed) = m + n /\ DOMAIN observed = 1..(m + n)
  BY <1>1
<1>3. /\ \A i \in 1..m : observed[i] = base[i]
      /\ \A i \in 1..n : observed[m + i] = declared[i]
  BY <1>1
<1> HIDE DEF observed, m, n
<1>4. ".." \notin ToSet(observed)
  <2>1. ASSUME NEW i \in 1..(m + n) PROVE observed[i] # ".."
    <3>1. CASE i <= m
      <4>1. i \in 1..m /\ i \in DOMAIN base
        BY <1>1, <3>1 DEF m
      <4>2. QED
        BY <1>3, <4>1 DEF ToSet
    <3>2. CASE ~(i <= m)
      <4>1. i - m \in 1..n /\ m + (i - m) = i
        BY <1>1, <3>2
      <4>2. i - m \in DOMAIN declared
        BY <1>1, <4>1 DEF n
      <4>3. observed[i] = declared[i - m]
        BY <1>3, <4>1
      <4>4. QED
        BY <4>2, <4>3 DEF ToSet
    <3>3. QED
      BY <3>1, <3>2
  <2>2. QED
    BY <1>2, <2>1 DEF ToSet
<1>5. IsSuffix(declared, observed)
  BY <1>1, SuffixOfConcat DEF observed
<1>6. SubSeq(observed, 1, Len(observed) - n) = base
  <2>1. Len(observed) - n = m
    BY <1>1, <1>2
  <2>2. SubSeq(observed, 1, m) = base
    <3>1. /\ SubSeq(observed, 1, m) \in Seq(STRING) /\ Len(SubSeq(observed, 1, m)) = m
          /\ \A i \in 1..m : SubSeq(observed, 1, m)[i] = observed[i]
      BY <1>1, <1>2
    <3>2. Len(base) = m
      BY DEF m
    <3>3. QED
      BY <1>1, <1>3, <3>1, <3>2
  <2>3. QED
    BY <2>1, <2>2
<1>7. observed \in Paths
  BY <1>2 DEF Paths
<1>8. QED
  BY <1>4, <1>5, <1>6, <1>7 DEF DeclaredCampaignBase, observed, n

\* A ledger that is complete and makes one campaign.
Complete(config, base, root, cells) ==
  /\ Admissible(config) /\ Collected(config, base, root, cells) /\ Len(cells) = Len(Keys(config))
  /\ ValidateCampaign(config, cells)

\* The parts of a complete ledger.
LEMMA CompleteParts ==
  ASSUME NEW config, NEW base, NEW root, NEW cells, Complete(config, base, root, cells)
  PROVE  /\ config \in Configurations /\ Fills(config, cells)
         /\ \A r \in ToSet(cells) : \E w : Reads(config, base, root, r, w)
         /\ ToSet(Controls(cells)) = {r \in ToSet(cells) : r.key[2] = 0}
         /\ ToSet(Probes(cells)) = {r \in ToSet(cells) : r.key[2] # 0}
         /\ 1 \in DOMAIN config.workloads /\ cells[1] \in ToSet(cells)
<1>1. Admissible(config) /\ Collected(config, base, root, cells) /\ Len(cells) = Len(Keys(config))
  BY DEF Complete
<1>2. config \in Configurations
  BY <1>1, AdmissibleParts
<1>3. Fills(config, cells) /\ \A r \in ToSet(cells) : \E w : Reads(config, base, root, r, w)
  BY <1>1, <1>2, CollectedFills
<1>4. /\ ToSet(Controls(cells)) = {r \in ToSet(cells) : r.key[2] = 0}
      /\ ToSet(Probes(cells)) = {r \in ToSet(cells) : r.key[2] # 0}
  BY <1>2, <1>3, SelectedCells
<1>5. 1 \in DOMAIN config.workloads
  <2>1. Len(config.workloads) \in Budget..MaxWorkloads
    BY <1>1 DEF Admissible, Bounded
  <2>2. Len(config.workloads) \in Nat /\ DOMAIN config.workloads = 1..Len(config.workloads)
    BY <1>2, ConfigurationParts
  <2>3. QED
    BY <2>1, <2>2, BudgetAssumption
<1>6. cells[1] \in ToSet(cells)
  <2>1. 1 \in DOMAIN cells
    <3>1. DOMAIN cells = 1..Len(cells) /\ Len(cells) \in Nat
      BY <1>2, <1>3, CellsAreFilled
    <3>2. Len(cells) # 0
      <4>1. <<1, 0, 0>> \in ToSet(Keys(config))
        BY <1>2, <1>5, KeysMembers
      <4>2. Cell(cells, <<1, 0, 0>>) \in ToSet(cells)
        BY <1>2, <1>3, <4>1, CellsAreFilled
      <4>3. QED
        BY <3>1, <4>2 DEF ToSet
    <3>3. QED
      BY <3>1, <3>2
  <2>2. QED
    BY <2>1 DEF ToSet
<1>7. QED
  BY <1>2, <1>3, <1>4, <1>5, <1>6

\* The retained comparisons of a complete ledger declare one base.
LEMMA GeneratedAreBound ==
  ASSUME NEW config, NEW base \in Paths, NEW root, NEW cells, Complete(config, base, root, cells),
         ".." \notin ToSet(base), ".." \notin ToSet(root),
         NEW doc, Records(doc) = cells, NEW files0, Retains(files0, cells), NEW place0
  PROVE  BindGeneratedConfigurations(config, doc, files0, place0)
<1> DEFINE At(r) == files0[r.config_locator]
           Bases(r) == DeclaredCampaignBase(At(r).baseline.model_root, config.baseline.model_root)
           Roots(r) == RecordedOutputRoot(At(r), r, place0)
           T == ToSet(cells)
           bases == UNION {Bases(r) : r \in T}
           roots == UNION {Roots(r) : r \in T}
<1>1. /\ config \in Configurations /\ T # {}
      /\ \A r \in T : \E w : Reads(config, base, root, r, w)
  BY CompleteParts
<1>2. config.baseline.model_root \in Paths /\ ".." \notin ToSet(config.baseline.model_root)
  <2>1. config.baseline \in Roles
    BY <1>1, ConfigurationParts
  <2>2. ModelRole(config.baseline)
    BY DEF Complete, Admissible
  <2>3. QED
    BY <2>1, <2>2 DEF Roles, ModelRole, RelativePosixPath
<1>3. ASSUME NEW r \in T
      PROVE  /\ At(r) = ComparisonPrimitive(config, base, r.key, root) /\ r.receipt_locator[1] = r.key
             /\ At(r).output_dir = [root |-> root, cell |-> r.key]
             /\ At(r).baseline.model_root = base \o config.baseline.model_root
             /\ At(r) = [ComparisonPrimitive(config, base, r.key, root)
                           EXCEPT !.output_dir = [root |-> root, cell |-> r.receipt_locator[1]]]
  <2>1. PICK w : Reads(config, base, root, r, w)
    BY <1>1
  <2>2. At(r) = r.config
    BY DEF Retains
  <2>3. r.config = ComparisonPrimitive(config, base, r.key, root) /\ r.receipt_locator = <<r.key, "receipt">>
    BY <2>1 DEF Reads, Locator
  <2>4. r.receipt_locator[1] = r.key
    BY <2>3
  <2>5. At(r).output_dir = [root |-> root, cell |-> r.key]
    BY <2>2, <2>3 DEF ComparisonPrimitive
  <2>6. At(r).baseline.model_root = base \o config.baseline.model_root
    <3>1. config.baseline \in Roles
      BY <1>1, ConfigurationParts
    <3>2. At(r).baseline = Under(base, config.baseline)
      BY <2>2, <2>3 DEF ComparisonPrimitive
    <3>3. QED
      BY <3>1, <3>2 DEF Under, Roles
  <2>7. ComparisonPrimitive(config, base, r.key, root)
          = [ComparisonPrimitive(config, base, r.key, root) EXCEPT !.output_dir = [root |-> root, cell |-> r.key]]
    <3> DEFINE c == ComparisonPrimitive(config, base, r.key, root)
               o == [root |-> root, cell |-> r.key]
    <3>1. \E a1, a2, a3, a4, a5, a6, a7, a8 :
            c = [baseline |-> a1, candidate |-> a2, initial_state |-> a3, actions |-> a4, control_dt |-> a5,
                 repeats |-> a6, joint_tolerances |-> a7, aliases |-> a8, output_dir |-> o]
      BY Zenon DEF ComparisonPrimitive
    <3> HIDE DEF c, o
    <3>2. c = [c EXCEPT !.output_dir = o]
      BY <3>1
    <3>3. QED
      BY <3>2 DEF c, o
  <2>8. QED
    BY <2>2, <2>3, <2>4, <2>5, <2>6, <2>7
<1>4. ASSUME NEW r \in T
      PROVE  Bases(r) = {base} /\ Roots(r) = {root}
  <2>1. DeclaredCampaignBase(base \o config.baseline.model_root, config.baseline.model_root) = {base}
    BY <1>2, BaseIsDeclared
  <2>2. Bases(r) = {base}
    BY <1>3, <2>1
  <2>3. At(r).output_dir.root = root /\ At(r).output_dir.cell = r.receipt_locator[1]
    <3>1. At(r).output_dir = [root |-> root, cell |-> r.key] /\ r.receipt_locator[1] = r.key
      BY <1>3
    <3> HIDE DEF At
    <3>2. QED
      BY <3>1
  <2> HIDE DEF At
  <2>4. Roots(r) = {root}
    BY <2>3 DEF RecordedOutputRoot
  <2>5. QED
    BY <2>2, <2>4
<1> HIDE DEF At, Bases, Roots, T
<1>5. bases = {base} /\ roots = {root}
  <2>1. {Bases(r) : r \in T} = {{base}} /\ {Roots(r) : r \in T} = {{root}}
    BY <1>1, <1>4
  <2>2. QED
    BY <2>1
<1> HIDE DEF bases, roots
<1>6. RequireSingle(bases) /\ RequireSingle(roots)
  <2>1. Cardinality({base}) = 1 /\ Cardinality({root}) = 1
    BY FS_Singleton
  <2>2. QED
    BY <1>5, <2>1 DEF RequireSingle
<1>7. \A r \in T : Bases(r) # {} /\ Roots(r) # {}
  BY <1>4
<1>8. \A r \in T, one \in bases, two \in roots :
        At(r) = [ComparisonPrimitive(config, one, r.key, two)
                   EXCEPT !.output_dir = [root |-> two, cell |-> r.receipt_locator[1]]]
  BY <1>3, <1>5
<1>9. T = ToSet(Records(doc))
  BY DEF T
<1>10. QED
  BY <1>6, <1>7, <1>8, <1>9 DEF BindGeneratedConfigurations, At, Bases, Roots, bases, roots

\* The identity the document names is that of its retained receipts, and a control compares the
\* baseline with itself.
LEMMA IdentityIsBound ==
  ASSUME NEW config, NEW base, NEW root, NEW cells, Complete(config, base, root, cells),
         NEW doc, Records(doc) = cells, doc.campaign_identity = CampaignIdentity(cells),
         doc.baseline_model_closure = CampaignBaseline(cells),
         NEW retained, \A r \in ToSet(cells) : retained[r] = r.receipt
  PROVE  /\ BindCampaignIdentity(doc, retained) /\ BindBaselineClosure(config, doc, retained)
         /\ \A r \in ToSet(cells) : IsControl(r.key) => r.receipt.inputs.candidate = r.receipt.inputs.baseline
<1>1. /\ config \in Configurations /\ Fills(config, cells) /\ cells[1] \in ToSet(cells)
      /\ ToSet(Controls(cells)) = {r \in ToSet(cells) : r.key[2] = 0}
  BY CompleteParts
<1>2. /\ CampaignIsSingle(cells) /\ ControlsAreZeroChange(cells) /\ ValidateCampaignContract(config, cells)
  BY DEF Complete, ValidateCampaign
<1>3. ASSUME NEW r \in ToSet(cells)
      PROVE  /\ r.receipt.inputs.tool = cells[1].receipt.inputs.tool
             /\ r.receipt.inputs.environment = cells[1].receipt.inputs.environment
             /\ r.receipt.inputs.baseline = cells[1].receipt.inputs.baseline
             /\ r.receipt.inputs.aliases = cells[1].receipt.inputs.aliases
  BY <1>1, <1>2, OneCampaign
<1>4. ASSUME NEW r \in ToSet(cells), IsControl(r.key)
      PROVE  r.receipt.inputs.candidate = cells[1].receipt.inputs.baseline
  <2>1. r \in ToSet(Controls(cells))
    BY <1>1, <1>4 DEF IsControl
  <2>2. QED
    BY <1>2, <2>1 DEF ControlsAreZeroChange, CampaignBaseline
<1>5. /\ doc.campaign_identity.tool = cells[1].receipt.inputs.tool
      /\ doc.campaign_identity.environment = cells[1].receipt.inputs.environment
      /\ doc.campaign_identity.baseline = cells[1].receipt.inputs.baseline
      /\ doc.campaign_identity.aliases = cells[1].receipt.inputs.aliases
      /\ doc.baseline_model_closure = cells[1].receipt.inputs.baseline
  BY DEF CampaignIdentity, CampaignBaseline
<1>6. BindCampaignIdentity(doc, retained)
  BY <1>3, <1>4, <1>5 DEF BindCampaignIdentity
<1>7. BindBaselineClosure(config, doc, retained)
  <2>1. cells[1].receipt.inputs.baseline.entrypoint = config.baseline.entrypoint
    <3>1. cells[1].receipt \in ReceiptsOf(cells)
      BY <1>1 DEF ReceiptsOf
    <3>2. QED
      BY <1>2, <3>1 DEF ValidateCampaignContract, ContractAdmitted
  <2>2. QED
    BY <1>3, <1>5, <2>1 DEF BindBaselineClosure
<1>8. QED
  BY <1>3, <1>4, <1>6, <1>7

\* The workload identities of the document are those of its retained receipts.
LEMMA WorkloadsAreBound ==
  ASSUME NEW config, NEW base, NEW root, NEW cells, Complete(config, base, root, cells),
         NEW doc, Records(doc) = cells, doc.workload_artifact_identities = HarvestWorkloads(config, cells),
         NEW retained, \A r \in ToSet(cells) : retained[r] = r.receipt
  PROVE  BindWorkloadIdentities(config, doc, retained)
<1>1. config \in Configurations /\ Fills(config, cells) /\ ToSet(Controls(cells)) = {r \in ToSet(cells) : r.key[2] = 0}
  BY CompleteParts
<1>2. CampaignIsSingle(cells) /\ ValidateWorkloadArtifacts(config, cells) /\ ValidateDeclaredTimesteps(config, cells)
  BY DEF Complete, ValidateCampaign
<1>3. ASSUME NEW r \in ToSet(cells)
      PROVE  /\ \E declared \in ToSet(HarvestWorkloads(config, cells)) :
                  /\ declared.workload_id = r.workload_id
                  /\ declared.initial_state = r.receipt.inputs.initial_state
                  /\ declared.actions = r.receipt.inputs.actions
                  /\ declared.aliases = r.receipt.inputs.aliases
                  /\ declared.control_dt = config.workloads[r.key[1]].control_dt
             /\ r.receipt.contract.control_dt = config.workloads[r.key[1]].control_dt
  <2>1. PICK control \in ToSet(Controls(cells)) :
          /\ control.key[1] = r.key[1]
          /\ r.receipt.inputs.initial_state = control.receipt.inputs.initial_state
          /\ r.receipt.inputs.actions = control.receipt.inputs.actions
    BY <1>2 DEF ValidateWorkloadArtifacts
  <2>2. control \in ToSet(cells)
    BY <1>1
  <2>3. control.receipt.inputs.aliases = r.receipt.inputs.aliases
    BY <1>1, <1>2, <2>2, OneCampaign
  <2>4. control.workload_id = r.workload_id
    BY <1>1, <2>1, <2>2 DEF Fills
  <2>5. PICK i \in DOMAIN Controls(cells) : control = Controls(cells)[i]
    BY DEF ToSet
  <2> DEFINE declared == HarvestWorkloads(config, cells)[i]
  <2>6. declared = [workload_id |-> control.workload_id, initial_state |-> control.receipt.inputs.initial_state,
                    actions |-> control.receipt.inputs.actions, aliases |-> control.receipt.inputs.aliases,
                    control_dt |-> config.workloads[control.key[1]].control_dt]
    BY <2>5 DEF HarvestWorkloads
  <2>7. declared \in ToSet(HarvestWorkloads(config, cells))
    BY <2>5 DEF HarvestWorkloads, ToSet
  <2> HIDE DEF declared
  <2>8. /\ declared.workload_id = r.workload_id
        /\ declared.initial_state = r.receipt.inputs.initial_state
        /\ declared.actions = r.receipt.inputs.actions
        /\ declared.aliases = r.receipt.inputs.aliases
        /\ declared.control_dt = config.workloads[r.key[1]].control_dt
    BY <2>1, <2>3, <2>4, <2>6
  <2>9. r.receipt.contract.control_dt = config.workloads[r.key[1]].control_dt
    BY <1>2 DEF ValidateDeclaredTimesteps
  <2>10. QED
    BY <2>7, <2>8, <2>9
<1>4. QED
  BY <1>3 DEF BindWorkloadIdentities

\* The contract of the document is that of its retained receipts.
LEMMA ContractIsBound ==
  ASSUME NEW config, NEW base, NEW root, NEW cells, Complete(config, base, root, cells),
         NEW doc, Records(doc) = cells,
         \A r \in ToSet(cells) : IsControl(r.key) => r.receipt.inputs.candidate = r.receipt.inputs.baseline,
         NEW retained, \A r \in ToSet(cells) : retained[r] = r.receipt
  PROVE  BindCampaignContract(config, doc, retained)
<1>1. ValidateDeclaredTimesteps(config, cells) /\ ValidateCampaignContract(config, cells)
  BY DEF Complete, ValidateCampaign
<1>2. \A r \in ToSet(cells) : r.receipt \in ReceiptsOf(cells)
  BY DEF ReceiptsOf
<1>3. \A r \in ToSet(cells) : /\ r.receipt.contract.repeats = config.repeats
                              /\ r.receipt.contract.monitored = config.joint_tolerances
                              /\ (r.receipt.inputs.aliases # {}) <=> (config.aliases # <<>>)
  BY <1>1, <1>2, Zenon DEF ValidateCampaignContract, ContractAdmitted
<1>4. QED
  BY <1>1, <1>3 DEF BindCampaignContract, ValidateDeclaredTimesteps

\* The model closures the document harvested are those of its retained receipts.
LEMMA ClosuresAreBound ==
  ASSUME NEW config, NEW base, NEW root, NEW cells, Complete(config, base, root, cells),
         NEW doc, Records(doc) = cells, doc.probe_cells = Probes(cells),
         doc.probe_model_closures = HarvestProbeClosures(config, cells),
         doc.campaign_identity = CampaignIdentity(cells),
         NEW retained, \A r \in ToSet(cells) : retained[r] = r.receipt
  PROVE  BindProbeClosures(config, doc, retained)
<1> DEFINE Group(g) == [probe_id |-> config.probe_groups[g].probe_id,
                        rungs |-> [v \in DOMAIN config.probe_groups[g].variants |->
                          [variant_index |-> v, magnitude |-> config.probe_groups[g].variants[v].magnitude,
                           closure |-> LadderClosure(cells, g, v)]]]
           H == HarvestProbeClosures(config, cells)
           groups == DOMAIN config.probe_groups
           Rungs(g) == DOMAIN config.probe_groups[g].variants
<1>1. /\ config \in Configurations /\ Fills(config, cells)
      /\ ToSet(Probes(cells)) = {r \in ToSet(cells) : r.key[2] # 0} /\ 1 \in DOMAIN config.workloads
      /\ Admissible(config) /\ ValidateCampaign(config, cells)
  BY CompleteParts DEF Complete
<1>2. ValidateLadderClosures(config, cells) /\ ValidateProbeClosures(config, cells)
  BY <1>1 DEF ValidateCampaign
<1>3. /\ groups = 1..Len(config.probe_groups) /\ Len(config.probe_groups) \in Nat
      /\ \A g \in groups : Rungs(g) = 1..Len(config.probe_groups[g].variants) /\ Len(config.probe_groups[g].variants) \in Nat
  BY <1>1, ConfigurationParts
<1>4. /\ DOMAIN H = groups /\ \A g \in groups : H[g] = Group(g)
  BY DEF HarvestProbeClosures
<1>5. ASSUME NEW g \in groups
      PROVE  /\ Group(g).probe_id = config.probe_groups[g].probe_id /\ DOMAIN Group(g).rungs = Rungs(g)
             /\ \A v \in Rungs(g) : Group(g).rungs[v].closure = LadderClosure(cells, g, v)
                                    /\ Group(g).rungs[v].variant_index = v
  OBVIOUS
<1> HIDE DEF Group, H
<1>6. ASSUME NEW group \in ToSet(H)
      PROVE  \E g \in groups : group = Group(g)
  BY <1>4 DEF ToSet
<1>7. \A g \in groups : Group(g) \in ToSet(H)
  BY <1>4 DEF ToSet
<1>8. ASSUME NEW g \in groups
      PROVE  \E r \in ToSet(Probes(cells)) : r.probe_id = config.probe_groups[g].probe_id
  <2> DEFINE v == RequiredIndex(config.probe_groups[g])
             key == <<1, g, v>>
             r == Cell(cells, key)
  <2>1. v \in Rungs(g)
    BY <1>1, RequiredIsRung
  <2>2. key \in ToSet(Keys(config))
    BY <1>1, <2>1, KeysMembers
  <2>3. r \in ToSet(cells) /\ r.key = key
    BY <1>1, <2>2, CellsAreFilled
  <2>4. r.key[2] = g /\ g # 0
    <3>1. g # 0
      BY <1>3
    <3> HIDE DEF r, v
    <3>2. QED
      BY <2>3, <3>1
  <2> HIDE DEF r, key
  <2>5. r.probe_id = config.probe_groups[g].probe_id
    BY <1>1, <2>3, <2>4 DEF Fills
  <2>6. QED
    BY <1>1, <2>3, <2>4, <2>5
<1>9. ASSUME NEW g \in groups
      PROVE  /\ \A v \in Rungs(g) : LadderClosure(cells, g, v) # CampaignBaseline(cells)
             /\ \A v, u \in Rungs(g) : LadderClosure(cells, g, u) = LadderClosure(cells, g, v) => u = v
  <2>1. \A v \in Rungs(g) : /\ LadderClosure(cells, g, v) # CampaignBaseline(cells)
                            /\ \A u \in 1..(v - 1) : LadderClosure(cells, g, u) # LadderClosure(cells, g, v)
    BY <1>2 DEF ValidateLadderClosures
  <2>2. ASSUME NEW v \in Rungs(g), NEW u \in Rungs(g), u # v
        PROVE  LadderClosure(cells, g, u) # LadderClosure(cells, g, v)
    <3>1. u \in Nat /\ v \in Nat /\ u >= 1 /\ v >= 1
      BY <1>3
    <3>2. CASE u < v
      <4>1. u \in 1..(v - 1)
        BY <3>1, <3>2
      <4>2. QED
        BY <2>1, <4>1
    <3>3. CASE v < u
      <4>1. v \in 1..(u - 1)
        BY <3>1, <3>3
      <4>2. QED
        BY <2>1, <4>1
    <3>4. QED
      BY <2>2, <3>1, <3>2, <3>3
  <2>3. QED
    BY <2>1, <2>2
<1> HIDE DEF groups
<1>10. ReportedClosuresDistinct(doc)
  <2>1. ASSUME NEW group \in ToSet(H)
        PROVE  /\ \E r \in ToSet(Probes(cells)) : r.probe_id = group.probe_id
               /\ \A v \in DOMAIN group.rungs : group.rungs[v].closure # CampaignBaseline(cells)
               /\ IsInjective([v \in DOMAIN group.rungs |-> group.rungs[v].closure])
    <3>1. PICK g \in groups : group = Group(g)
      BY <1>6
    <3>2. /\ group.probe_id = config.probe_groups[g].probe_id /\ DOMAIN group.rungs = Rungs(g)
          /\ \A v \in Rungs(g) : group.rungs[v].closure = LadderClosure(cells, g, v)
      BY <1>5, <3>1
    <3> HIDE DEF Rungs
    <3>3. IsInjective([v \in DOMAIN group.rungs |-> group.rungs[v].closure])
      BY <1>9, <3>2 DEF IsInjective
    <3>4. QED
      BY <1>8, <1>9, <3>2, <3>3
  <2>2. doc.campaign_identity.baseline = CampaignBaseline(cells)
    BY DEF CampaignIdentity, CampaignBaseline
  <2>3. QED
    BY <2>1, <2>2 DEF ReportedClosuresDistinct, H
<1>11. ASSUME NEW r \in ToSet(Probes(cells))
       PROVE  /\ \E group \in ToSet(H) : group.probe_id = r.probe_id /\
                   \E rung \in ToSet(group.rungs) :
                     rung.variant_index = r.key[3] /\ rung.closure = r.receipt.inputs.candidate
              /\ r.receipt.inputs.candidate.entrypoint = Candidate(config, r.key).entrypoint
  <2>1. r \in ToSet(cells) /\ r.key[2] # 0
    BY <1>1
  <2>2. r.key[2] \in groups /\ r.key[3] \in Rungs(r.key[2])
    <3>1. IsRung(config, r.key)
      BY <1>1, <2>1, CellOfRecord
    <3>2. QED
      BY <3>1 DEF IsRung, groups
  <2>3. LadderClosure(cells, r.key[2], r.key[3]) = r.receipt.inputs.candidate
    BY <1>1, <2>1, LadderIs
  <2>4. r.probe_id = config.probe_groups[r.key[2]].probe_id
    BY <1>1, <2>1 DEF Fills
  <2> DEFINE group == Group(r.key[2])
             rung == group.rungs[r.key[3]]
  <2>5. group \in ToSet(H) /\ group.probe_id = r.probe_id
    BY <1>5, <1>7, <2>2, <2>4
  <2>6. rung \in ToSet(group.rungs) /\ rung.variant_index = r.key[3] /\ rung.closure = r.receipt.inputs.candidate
    <3>1. r.key[3] \in DOMAIN group.rungs /\ rung.variant_index = r.key[3] /\ rung.closure = r.receipt.inputs.candidate
      BY <1>5, <2>2, <2>3
    <3>2. QED
      BY <3>1 DEF ToSet
  <2> HIDE DEF rung, group
  <2>7. r.receipt.inputs.candidate.entrypoint = Candidate(config, r.key).entrypoint
    <3>1. r \in OfRung(cells, r.key[2], r.key[3])
      BY DEF OfRung
    <3>2. QED
      BY <1>2, <2>2, <3>1 DEF ValidateProbeClosures, groups
  <2>8. QED
    BY <2>5, <2>6, <2>7
<1>12. \A r \in ToSet(Probes(cells)) : retained[r] = r.receipt
  BY <1>1
<1>13. QED
  BY <1>10, <1>11, <1>12 DEF BindProbeClosures, H

\* The loader accepts the document of a complete campaign beside what the campaign retained.
LEMMA CampaignIsAccepted ==
  ASSUME NEW config, NEW base \in Paths, NEW root, NEW cells, Complete(config, base, root, cells),
         ".." \notin ToSet(base), ".." \notin ToSet(root), Len(EligibleIds(cells)) >= config.budget,
         NEW raw, raw.doc = config, NEW files0, Retains(files0, cells),
         Admitted \in DOMAIN files0, files0[Admitted] = raw, NEW place0
  PROVE  LoadAndValidate(BuildQualificationReceipt(config, raw, cells), files0, place0)
<1> DEFINE doc == Unhashed(config, raw, cells)
           document0 == BuildQualificationReceipt(config, raw, cells)
           retained == [r \in ToSet(cells) |-> files0[r.receipt_locator]]
<1>1. /\ config \in Configurations /\ Fills(config, cells)
      /\ \A r \in ToSet(cells) : \E w : Reads(config, base, root, r, w)
      /\ Admissible(config) /\ Collected(config, base, root, cells) /\ Len(cells) = Len(Keys(config))
  BY CompleteParts DEF Complete
<1>2. /\ doc.configuration = config /\ doc.configuration_raw = raw
      /\ doc.zero_change_controls = Controls(cells) /\ doc.probe_cells = Probes(cells)
      /\ doc.campaign_identity = CampaignIdentity(cells) /\ doc.baseline_model_closure = CampaignBaseline(cells)
      /\ doc.probe_model_closures = HarvestProbeClosures(config, cells)
      /\ doc.workload_artifact_identities = HarvestWorkloads(config, cells)
  BY DEF Unhashed
<1>3. document0.body = doc
  BY DEF BuildQualificationReceipt, Hashed
<1>4. ValidateQualificationReceipt(document0)
  BY <1>1, DocumentValidates
<1> HIDE DEF doc, document0
<1>5. Records(doc) = cells
  BY <1>1, <1>2, DocumentLists
<1>6. \A r \in ToSet(cells) : retained[r] = r.receipt
  BY DEF Retains
<1>7. \A r \in ToSet(cells) : LinkedCell(r, files0)
  <2>1. ASSUME NEW r \in ToSet(cells) PROVE LinkedCell(r, files0)
    <3>1. PICK w : Reads(config, base, root, r, w)
      BY <1>1
    <3>2. /\ r.config_locator \in DOMAIN files0 /\ r.receipt_locator \in DOMAIN files0
          /\ files0[r.config_locator] = r.config /\ files0[r.receipt_locator] = r.receipt
      BY DEF Retains
    <3>3. QED
      BY <3>1, <3>2, CellsAreLinked
  <2>2. QED
    BY <2>1
<1>8. LinkedConfiguration(doc, files0)
  BY <1>1, <1>2 DEF LinkedConfiguration
<1>9. BindGeneratedConfigurations(config, doc, files0, place0)
  BY <1>5, GeneratedAreBound
<1> DEFINE kept == retained
<1>10. \A r \in ToSet(cells) : kept[r] = r.receipt
  BY <1>6
<1> HIDE DEF kept
<1>11. /\ BindCampaignIdentity(doc, kept) /\ BindBaselineClosure(config, doc, kept)
       /\ \A r \in ToSet(cells) : IsControl(r.key) => r.receipt.inputs.candidate = r.receipt.inputs.baseline
  BY <1>2, <1>5, <1>10, IdentityIsBound
<1>12. BindProbeClosures(config, doc, kept)
  BY <1>2, <1>5, <1>10, ClosuresAreBound
<1>13. BindWorkloadIdentities(config, doc, kept)
  BY <1>2, <1>5, <1>10, WorkloadsAreBound
<1>14. BindCampaignContract(config, doc, kept)
  BY <1>5, <1>10, <1>11, ContractIsBound
<1>15. kept = [r \in ToSet(Records(doc)) |-> files0[r.receipt_locator]]
  BY <1>5 DEF kept
<1>16. ValidateLinkedMembers(doc, files0, place0)
  BY <1>2, <1>5, <1>7, <1>8, <1>9, <1>11, <1>12, <1>13, <1>14, <1>15 DEF ValidateLinkedMembers
<1>17. LoadAndValidate(document0, files0, place0)
  BY <1>3, <1>4, <1>16 DEF LoadAndValidate
<1>18. QED
  BY <1>17 DEF document0

-----------------------------------------------------------------------------
(* A canonical path                                                        *)

Walked(s, f, i) == IF i = 0 THEN <<>> ELSE IF s[i] = ".." THEN Front(f[i - 1]) ELSE Append(f[i - 1], s[i])
Walking(s, n, f) == f = [i \in 0..n |-> Walked(s, f, i)]

\* The walk along a path exists.
LEMMA WalkingExists ==
  ASSUME NEW s \in Paths
  PROVE  \E f : Walking(s, Len(s), f)
<1> DEFINE G == {n \in 0..Len(s) : \E f : Walking(s, n, f)}
<1>1. 0 \in G
  <2>1. Walking(s, 0, [i \in 0..0 |-> <<>>])
    BY DEF Walking, Walked
  <2>2. QED
    BY <2>1 DEF Paths
<1>2. ASSUME NEW n \in 1..Len(s), n - 1 \in G
      PROVE  n \in G
  <2>1. PICK f : Walking(s, n - 1, f)
    BY <1>2
  <2> DEFINE g == [i \in 0..n |-> IF i = n THEN Walked(s, f, i) ELSE f[i]]
  <2>2. ASSUME NEW i \in 0..n
        PROVE  g[i] = Walked(s, g, i)
    <3>1. g[i] = Walked(s, f, i)
      BY <2>1 DEF Walking
    <3>2. i # 0 => g[i - 1] = f[i - 1]
      OBVIOUS
    <3> HIDE DEF g
    <3>3. Walked(s, f, i) = Walked(s, g, i)
      BY <3>2, Zenon DEF Walked
    <3>4. QED
      BY <3>1, <3>3
  <2>3. Walking(s, n, g)
    BY <2>2 DEF Walking
  <2>4. QED
    BY <2>3
<1>3. Len(s) \in Nat
  BY DEF Paths
<1> HIDE DEF G
<1>4. \A n \in 0..Len(s) : n \in G
  BY <1>1, <1>2, <1>3, UpTo
<1>5. QED
  BY <1>3, <1>4 DEF G

\* A canonical path has no "..".
LEMMA CanonicalHasNoDots ==
  ASSUME NEW s \in Paths
  PROVE  ".." \notin ToSet(Canonical(s))
<1> DEFINE Names == {name \in STRING : name # ".."}
<1>1. Canonical(s) = (CHOOSE f : Walking(s, Len(s), f))[Len(s)]
  BY DEF Canonical, Walking, Walked
<1>2. Walking(s, Len(s), CHOOSE f : Walking(s, Len(s), f))
  BY WalkingExists, Zenon
<1>3. PICK f : Walking(s, Len(s), f) /\ Canonical(s) = f[Len(s)]
  BY <1>1, <1>2
<1>4. Len(s) \in Nat /\ \A i \in 1..Len(s) : s[i] \in STRING
  BY DEF Paths
<1> DEFINE G == {n \in 0..Len(s) : f[n] \in Seq(Names)}
<1>5. 0 \in G
  <2>1. f[0] = <<>>
    BY <1>3, <1>4 DEF Walking, Walked
  <2>2. f[0] \in Seq(Names) /\ 0 \in 0..Len(s)
    <3> HIDE DEF Names
    <3>1. QED
      BY <1>4, <2>1
  <2> HIDE DEF Names
  <2>3. QED
    BY <2>2
<1>6. ASSUME NEW n \in 1..Len(s), n - 1 \in G
      PROVE  n \in G
  <2>1. f[n - 1] \in Seq(Names) /\ n \in 0..Len(s) /\ n # 0
    BY <1>4, <1>6
  <2>2. f[n] = Walked(s, f, n)
    BY <1>3, <2>1 DEF Walking
  <2>3. CASE s[n] = ".."
    <3>1. f[n] = SubSeq(f[n - 1], 1, Len(f[n - 1]) - 1)
      BY <2>1, <2>2, <2>3 DEF Walked, Front
    <3> HIDE DEF Names
    <3>2. SubSeq(f[n - 1], 1, Len(f[n - 1]) - 1) \in Seq(Names)
      <4> DEFINE t == f[n - 1]
      <4>1. t \in Seq(Names) /\ Len(t) \in Nat
        BY <2>1
      <4> HIDE DEF t
      <4>2. SubSeq(t, 1, Len(t) - 1) \in Seq(Names)
        BY <4>1
      <4>3. QED
        BY <4>2 DEF t
    <3>3. QED
      BY <2>1, <3>1, <3>2
  <2>4. CASE s[n] # ".."
    <3>1. f[n] = Append(f[n - 1], s[n])
      BY <2>1, <2>2, <2>4, Zenon DEF Walked
    <3>2. s[n] \in Names
      BY <1>4, <2>4
    <3> HIDE DEF Names
    <3>3. Append(f[n - 1], s[n]) \in Seq(Names)
      BY <2>1, <3>2
    <3>4. QED
      BY <2>1, <3>1, <3>3
  <2>5. QED
    BY <2>3, <2>4
<1> HIDE DEF G
<1>7. \A n \in 0..Len(s) : n \in G
  BY <1>4, <1>5, <1>6, UpTo
<1>8. f[Len(s)] \in Seq(Names)
  BY <1>4, <1>7 DEF G
<1>9. QED
  BY <1>3, <1>8 DEF ToSet

-----------------------------------------------------------------------------
(* What is retained                                                        *)

\* Unless another process touched it since the run last looked, a locator holds what the run put there.
Holds(locator, value) == locator \notin stale => locator \in DOMAIN disk /\ disk[locator] = value
Retained(key, comparison, receipt) == Holds(<<key, "config">>, comparison) /\ Holds(<<key, "receipt">>, receipt)
Active == pc \in {"cells", "bind", "verify", "done", "read"}

\* The configuration, the two files of every record and those of the comparison just returned are on disk.
DiskInv ==
  Active =>
    /\ Holds(Admitted, campaign.file)
    /\ \A r \in ToSet(ledger) : Retained(r.key, r.config, r.receipt)
    /\ pc = "bind" => \A receipt \in returned : Retained(CellKeys[next], Comparison(CellKeys[next]), receipt)

\* Nothing is retained at first.
LEMMA DiskInit == Init => DiskInv
BY DEF Init, DiskInv, Active

\* The records of a ledger are of different cells, none of them the next one, and none where the configuration is.
LEMMA LedgerKeys ==
  ASSUME LedgerInv, Active
  PROVE  /\ \A r \in ToSet(ledger) : /\ r.config_locator = <<r.key, "config">> /\ r.receipt_locator = <<r.key, "receipt">>
                                     /\ r.key \in ToSet(CellKeys)
         /\ \A r, s \in ToSet(ledger) : r.key = s.key => r = s
         /\ \A key \in ToSet(CellKeys) : key # <<0, 0, 0>>
         /\ next = Len(ledger) + 1 /\ next <= Len(CellKeys) =>
              CellKeys[next] \in ToSet(CellKeys) /\ \A r \in ToSet(ledger) : r.key # CellKeys[next]
         /\ ledger \in Seq(ToSet(ledger)) /\ Admissible(Config)
<1>1. Admissible(Config) /\ Collected(Config, campaign.base, Root, ledger)
  BY DEF LedgerInv, Active, Decided
<1>2. Config \in Configurations
  BY <1>1, AdmissibleParts
<1> DEFINE n == Len(ledger)
           m == Len(CellKeys)
<1>3. /\ ledger \in Seq(ToSet(ledger)) /\ n <= m
      /\ \A i \in 1..n : ledger[i].key = CellKeys[i] /\ \E w : Reads(Config, campaign.base, Root, ledger[i], w)
  BY <1>1 DEF Collected, CellKeys
<1>4. /\ CellKeys \in Seq(Triples) /\ IsInjective(CellKeys)
      /\ \A key \in ToSet(CellKeys) : \/ key[1] \in DOMAIN Config.workloads /\ key = <<key[1], 0, 0>>
                                      \/ IsRung(Config, key)
  BY <1>2, KeysMembers DEF CellKeys
<1>5. n \in Nat /\ m \in Nat /\ DOMAIN ledger = 1..n /\ DOMAIN CellKeys = 1..m
  BY <1>3, <1>4
<1> HIDE DEF n, m
<1>6. ASSUME NEW r \in ToSet(ledger)
      PROVE  \E i \in 1..n : /\ r = ledger[i] /\ r.key = CellKeys[i] /\ i \in DOMAIN CellKeys
                             /\ \E w : Reads(Config, campaign.base, Root, r, w)
  <2>1. PICK i \in 1..n : r = ledger[i]
    BY <1>5 DEF ToSet
  <2>2. i \in 1..m
    BY <1>3, <1>5
  <2>3. QED
    BY <1>3, <1>5, <2>1, <2>2
<1>7. ASSUME NEW r \in ToSet(ledger)
      PROVE  /\ r.config_locator = <<r.key, "config">> /\ r.receipt_locator = <<r.key, "receipt">>
             /\ r.key \in ToSet(CellKeys)
  <2>1. PICK i \in 1..n : r.key = CellKeys[i] /\ i \in DOMAIN CellKeys /\ \E w : Reads(Config, campaign.base, Root, r, w)
    BY <1>6
  <2>2. r.key \in ToSet(CellKeys)
    BY <2>1 DEF ToSet
  <2>3. QED
    BY <2>1, <2>2 DEF Reads, Locator
<1>8. ASSUME NEW r \in ToSet(ledger), NEW s \in ToSet(ledger), r.key = s.key
      PROVE  r = s
  <2>1. PICK i \in 1..n : r = ledger[i] /\ r.key = CellKeys[i] /\ i \in DOMAIN CellKeys
    BY <1>6
  <2>2. PICK j \in 1..n : s = ledger[j] /\ s.key = CellKeys[j] /\ j \in DOMAIN CellKeys
    BY <1>6
  <2>3. i = j
    BY <1>4, <1>8, <2>1, <2>2 DEF IsInjective
  <2>4. QED
    BY <2>1, <2>2, <2>3
<1>9. ASSUME NEW key \in ToSet(CellKeys)
      PROVE  key # <<0, 0, 0>>
  <2>1. key[1] \in DOMAIN Config.workloads
    BY <1>4 DEF IsRung
  <2>2. key[1] # 0
    BY <1>2, <2>1, ConfigurationParts
  <2>3. QED
    BY <2>2
<1>10. ASSUME next = Len(ledger) + 1, next <= Len(CellKeys)
       PROVE  CellKeys[next] \in ToSet(CellKeys) /\ \A r \in ToSet(ledger) : r.key # CellKeys[next]
  <2>1. next = n + 1 /\ next \in DOMAIN CellKeys
    BY <1>5, <1>10 DEF n, m
  <2>2. ASSUME NEW r \in ToSet(ledger) PROVE r.key # CellKeys[next]
    <3>1. PICK i \in 1..n : r.key = CellKeys[i] /\ i \in DOMAIN CellKeys
      BY <1>6
    <3>2. i # next
      BY <1>5, <2>1
    <3>3. QED
      BY <1>4, <2>1, <3>1, <3>2 DEF IsInjective
  <2>3. QED
    BY <2>1, <2>2 DEF ToSet
<1>11. QED
  BY <1>1, <1>3, <1>7, <1>8, <1>9, <1>10

\* What holds keeps holding while the files under trust stay as they are.
LEMMA DiskRests ==
  ASSUME DiskInv, Active' => Active, pc' = "bind" => pc = "bind" /\ UNCHANGED <<next, returned>>,
         UNCHANGED <<campaign, ledger>>, stale \subseteq stale',
         \A locator : locator \in DOMAIN disk /\ locator \notin stale' =>
           locator \in DOMAIN disk' /\ disk'[locator] = disk[locator]
  PROVE  DiskInv'
<1>1. UNCHANGED <<Config, CellKeys, Root>>
  BY DEF Config, CellKeys, Root
<1>2. \A locator, value : Holds(locator, value) => Holds(locator, value)'
  BY DEF Holds
<1>3. \A key, comparison, receipt : Retained(key, comparison, receipt) => Retained(key, comparison, receipt)'
  BY <1>2 DEF Retained
<1>4. SUFFICES ASSUME Active'
               PROVE  /\ Holds(Admitted, campaign.file)'
                      /\ \A r \in ToSet(ledger)' : Retained(r.key, r.config, r.receipt)'
                      /\ pc' = "bind" => \A receipt \in returned' :
                           Retained(CellKeys[next], Comparison(CellKeys[next]), receipt)'
  BY DEF DiskInv
<1>5. /\ Holds(Admitted, campaign.file)
      /\ \A r \in ToSet(ledger) : Retained(r.key, r.config, r.receipt)
      /\ pc = "bind" => \A receipt \in returned : Retained(CellKeys[next], Comparison(CellKeys[next]), receipt)
  BY <1>4 DEF DiskInv
<1>6. Holds(Admitted, campaign.file)'
  BY <1>2, <1>5 DEF Holds, Admitted
<1>7. \A r \in ToSet(ledger)' : Retained(r.key, r.config, r.receipt)'
  BY <1>3, <1>5
<1>8. ASSUME pc' = "bind", NEW receipt \in returned'
      PROVE  Retained(CellKeys[next], Comparison(CellKeys[next]), receipt)'
  <2>1. Retained(CellKeys[next], Comparison(CellKeys[next]), receipt)
    BY <1>5, <1>8
  <2>2. UNCHANGED CellKeys[next] /\ UNCHANGED Comparison(CellKeys[next])
    BY <1>1, <1>8 DEF Comparison
  <2>3. QED
    BY <2>1, <2>2 DEF Retained, Holds
<1>9. QED
  BY <1>6, <1>7, <1>8

CountInv == next \in Nat \ {0}

\* No step goes beyond the last cell.
LEMMA CountNext ==
  ASSUME CountInv, [Next]_vars
  PROVE  CountInv'
<1>1. UNCHANGED next \/ next' = 1 \/ next' = next + 1
  <2>1. CASE Run
    BY <2>1 DEF Run, AdmitConfiguration, OwnOutput, Compare, CompareFails, BindCell, DecideCampaign, VerifyRetained,
                Publish, records
  <2>2. CASE Reader
    BY <2>2 DEF Reader, records
  <2>3. CASE Rivals
    BY <2>3 DEF Rivals, RivalSource, RivalRetained, RivalDirectory, RivalMove, RivalDocument, records
  <2>4. CASE UNCHANGED vars
    BY <2>4 DEF vars
  <2>5. QED
    BY <2>1, <2>2, <2>3, <2>4 DEF Next
<1>2. QED
  BY <1>1 DEF CountInv

\* Every step keeps what the run retained where its ledger says, unless another process touched it.
LEMMA DiskNext ==
  ASSUME LedgerInv, CountInv, DiskInv, [Next]_vars
  PROVE  DiskInv'
<1>1. CASE AdmitConfiguration \/ CompareFails
  <2>1. pc' \in {"own", "failed"}
    BY <1>1 DEF AdmitConfiguration, CompareFails, Refuse
  <2>2. QED
    BY <2>1 DEF DiskInv, Active
<1>2. CASE OwnOutput
  <2>1. CASE pc' = "failed"
    BY <2>1 DEF DiskInv, Active
  <2>2. CASE pc' # "failed"
    <3>1. /\ pc = "own" /\ pc' = "cells" /\ disk' = [locator \in {Admitted} |-> campaign.file]
          /\ UNCHANGED <<campaign, ledger>>
      BY <1>2, <2>2 DEF OwnOutput, Refuse, records
    <3>2. ledger' = <<>>
      BY <3>1 DEF LedgerInv
    <3>3. ToSet(ledger') = {}
      BY <3>2 DEF ToSet
    <3>4. Admitted \in DOMAIN disk' /\ disk'[Admitted] = campaign'.file
      BY <3>1
    <3>5. QED
      BY <3>1, <3>3, <3>4 DEF DiskInv, Holds
  <2>3. QED
    BY <2>1, <2>2
<1>3. CASE Compare
  <2>1. /\ UNCHANGED <<campaign, next, ledger, stale>> /\ pc = "cells" /\ next <= Len(CellKeys)
    BY <1>3 DEF Compare
  <2>2. CASE pc' = "failed"
    BY <2>2 DEF DiskInv, Active
  <2>3. CASE pc' # "failed"
    <3>13. PICK key : key = CellKeys[next]
      OBVIOUS
    <3>14. PICK comparison : comparison = Comparison(key)
      OBVIOUS
    <3>1. PICK receipt : Retain(key, receipt) /\ returned' = {receipt} /\ pc' = "bind"
      BY <1>3, <2>3, <3>13 DEF Compare, Refuse
    <3>2. /\ DOMAIN disk' = DOMAIN disk \cup {<<key, "config">>, <<key, "receipt">>}
          /\ disk'[<<key, "config">>] = comparison /\ disk'[<<key, "receipt">>] = receipt
          /\ \A locator \in DOMAIN disk : locator # <<key, "config">> /\ locator # <<key, "receipt">> =>
               disk'[locator] = disk[locator]
      <4>1. <<key, "config">> # <<key, "receipt">>
        OBVIOUS
      <4>2. disk' = [locator \in DOMAIN disk \cup {<<key, "config">>, <<key, "receipt">>} |->
                       IF locator = <<key, "config">> THEN comparison
                       ELSE IF locator = <<key, "receipt">> THEN receipt ELSE disk[locator]]
        BY <3>1, <3>14 DEF Retain, Locator
      <4>3. QED
        BY <4>1, <4>2
    <3>3. Active
      BY <2>1 DEF Active
    <3>4. next = Len(ledger) + 1
      BY <2>1 DEF LedgerInv
    <3>5. /\ key \in ToSet(CellKeys) /\ \A r \in ToSet(ledger) : r.key # key
          /\ key # <<0, 0, 0>>
      BY <2>1, <3>3, <3>4, <3>13, LedgerKeys
    <3>6. CellKeys'[next'] = key /\ Comparison(key)' = comparison
      <4>1. UNCHANGED <<Config, CellKeys, Root>>
        BY <2>1 DEF Config, CellKeys, Root
      <4>2. QED
        BY <2>1, <3>13, <3>14, <4>1 DEF Comparison
    <3>7. /\ Holds(Admitted, campaign.file)
          /\ \A r \in ToSet(ledger) : Retained(r.key, r.config, r.receipt)
      BY <3>3 DEF DiskInv
    <3>8. Holds(Admitted, campaign.file)'
      <4>1. Admitted # <<key, "config">> /\ Admitted # <<key, "receipt">>
        BY <3>5 DEF Admitted, Locator
      <4>2. QED
        BY <2>1, <3>2, <3>7, <4>1 DEF Holds
    <3>9. \A r \in ToSet(ledger)' : Retained(r.key, r.config, r.receipt)'
      <4>1. ASSUME NEW r \in ToSet(ledger) PROVE Retained(r.key, r.config, r.receipt)'
        <5>1. r.key # key /\ Retained(r.key, r.config, r.receipt)
          BY <3>5, <3>7
        <5>2. /\ <<r.key, "config">> # <<key, "config">> /\ <<r.key, "config">> # <<key, "receipt">>
              /\ <<r.key, "receipt">> # <<key, "config">> /\ <<r.key, "receipt">> # <<key, "receipt">>
          BY <5>1
        <5>3. QED
          BY <2>1, <3>2, <5>1, <5>2 DEF Retained, Holds
      <4>2. QED
        BY <2>1, <4>1
    <3>10. Retained(key, comparison, receipt)'
      BY <3>2 DEF Retained, Holds
    <3>11. \A other \in returned' : Retained(CellKeys[next], Comparison(CellKeys[next]), other)'
      BY <3>1, <3>6, <3>10 DEF Retained, Holds
    <3>12. QED
      BY <3>1, <3>8, <3>9, <3>11 DEF DiskInv
  <2>4. QED
    BY <2>2, <2>3
<1>4. CASE BindCell
  <2>1. UNCHANGED <<campaign, disk>> /\ pc = "bind"
    BY <1>4 DEF BindCell
  <2>2. CASE pc' = "failed"
    BY <2>2 DEF DiskInv, Active
  <2>3. CASE pc' # "failed"
    <3>1. PICK key : key = CellKeys[next]
      OBVIOUS
    <3>2. PICK comparison : comparison = Comparison(key)
      OBVIOUS
    <3> DEFINE locator == <<key, "receipt">>
    <3>3. /\ locator \in DOMAIN disk
          /\ \E receipt \in returned :
               /\ disk[locator] = receipt /\ ledger' = Append(ledger, CellRecord(Config, key, comparison, receipt))
               /\ stale' = stale \ {locator} /\ pc' = "cells"
      BY <1>4, <2>3, <3>1, <3>2 DEF BindCell, Refuse, Readable, Locator
    <3>4. PICK receipt \in returned :
            /\ disk[locator] = receipt /\ ledger' = Append(ledger, CellRecord(Config, key, comparison, receipt))
            /\ stale' = stale \ {locator} /\ pc' = "cells"
      BY <3>3
    <3>5. PICK r : r = CellRecord(Config, key, comparison, receipt)
      OBVIOUS
    <3>6. Active /\ next = Len(ledger) + 1 /\ next <= Len(CellKeys)
      BY <2>1 DEF LedgerInv, Active
    <3>7. /\ \A s \in ToSet(ledger) : s.key # key
          /\ key # <<0, 0, 0>> /\ ledger \in Seq(ToSet(ledger))
      BY <3>1, <3>6, LedgerKeys
    <3>8. /\ Holds(Admitted, campaign.file)
          /\ \A s \in ToSet(ledger) : Retained(s.key, s.config, s.receipt)
          /\ Retained(key, comparison, receipt)
      BY <2>1, <3>1, <3>2, <3>6 DEF DiskInv
    <3>9. r.key = key /\ r.config = comparison /\ r.receipt = receipt
      BY <3>5 DEF CellRecord
    <3>10. ToSet(ledger') \subseteq ToSet(ledger) \cup {r}
      <4> DEFINE S == ToSet(ledger) \cup {r}
      <4>1. ledger \in Seq(S) /\ r \in S
        BY <3>7
      <4> HIDE DEF S
      <4>2. ToSet(Append(ledger, r)) = ToSet(ledger) \cup {r}
        BY <4>1, AppendSet
      <4>3. ledger' = Append(ledger, r)
        BY <3>4, <3>5
      <4>4. QED
        BY <4>2, <4>3
    <3>11. ASSUME NEW s \in ToSet(ledger) PROVE Retained(s.key, s.config, s.receipt)'
      <4>1. s.key # key /\ Retained(s.key, s.config, s.receipt)
        BY <3>7, <3>8
      <4>2. <<s.key, "config">> # locator /\ <<s.key, "receipt">> # locator
        BY <4>1
      <4> HIDE DEF locator
      <4>3. QED
        BY <2>1, <3>4, <4>1, <4>2 DEF Retained, Holds
    <3>12. Retained(key, comparison, receipt)'
      <4>1. Retained(key, comparison, receipt) /\ <<key, "receipt">> = locator /\ <<key, "config">> # locator
        BY <3>8
      <4> HIDE DEF locator
      <4>2. QED
        BY <2>1, <3>3, <3>4, <4>1 DEF Retained, Holds
    <3>13. Holds(Admitted, campaign.file)'
      <4>1. Admitted # locator
        BY <3>7 DEF Admitted, Locator
      <4> HIDE DEF locator
      <4>2. QED
        BY <2>1, <3>4, <3>8, <4>1 DEF Holds
    <3>14. \A s \in ToSet(ledger)' : Retained(s.key, s.config, s.receipt)'
      <4>1. Retained(r.key, r.config, r.receipt)'
        BY <3>9, <3>12
      <4>2. QED
        BY <3>10, <3>11, <4>1
    <3>15. QED
      BY <3>4, <3>13, <3>14 DEF DiskInv
  <2>4. QED
    BY <2>2, <2>3
<1>5. CASE DecideCampaign \/ Publish \/ Reader \/ RivalSource \/ RivalMove \/ RivalDirectory
  <2>1. /\ UNCHANGED <<campaign, ledger, disk>> /\ stale \subseteq stale'
    BY <1>5 DEF DecideCampaign, Publish, Reader, RivalSource, RivalMove, RivalDirectory, files, records
  <2>2. (Active' => Active) /\ (pc' = "bind" => pc = "bind" /\ UNCHANGED <<next, returned>>)
    <3>1. CASE DecideCampaign \/ Publish \/ Reader
      BY <3>1 DEF DecideCampaign, Publish, Reader, Refuse, Active
    <3>2. CASE RivalSource \/ RivalMove \/ RivalDirectory
      BY <3>2 DEF RivalSource, RivalMove, RivalDirectory, records, Active
    <3>3. QED
      BY <1>5, <3>1, <3>2
  <2>3. QED
    BY <2>1, <2>2, DiskRests
<1>6. CASE VerifyRetained
  <2>1. /\ UNCHANGED <<campaign, ledger, disk>> /\ pc = "verify" /\ next <= Len(ledger)
    BY <1>6 DEF VerifyRetained
  <2>2. CASE pc' = "failed"
    BY <2>2 DEF DiskInv, Active
  <2>3. CASE pc' # "failed"
    <3>1. PICK r : r = ledger[next]
      OBVIOUS
    <3>2. RetainedIntact(r) /\ stale' = stale \ {r.config_locator, r.receipt_locator} /\ pc' = "verify"
      BY <1>6, <2>1, <2>3, <3>1 DEF VerifyRetained, Refuse
    <3>3. Active
      BY <2>1 DEF Active
    <3>4. /\ \A s \in ToSet(ledger) : /\ s.config_locator = <<s.key, "config">> /\ s.receipt_locator = <<s.key, "receipt">>
                                     /\ s.key \in ToSet(CellKeys)
          /\ \A s, t \in ToSet(ledger) : s.key = t.key => s = t
          /\ \A key \in ToSet(CellKeys) : key # <<0, 0, 0>>
      BY <3>3, LedgerKeys
    <3>5. r \in ToSet(ledger)
      <4>1. ledger \in Seq(ToSet(ledger)) /\ next \in 1..Len(ledger)
        <5>1. ledger \in Seq(ToSet(ledger))
          BY <3>3, LedgerKeys
        <5>2. QED
          BY <2>1, <5>1 DEF CountInv
      <4>2. QED
        BY <3>1, <4>1 DEF ToSet
    <3>6. /\ <<r.key, "config">> \in DOMAIN disk /\ <<r.key, "receipt">> \in DOMAIN disk
          /\ disk[<<r.key, "config">>] = r.config /\ disk[<<r.key, "receipt">>] = r.receipt
          /\ stale' = stale \ {<<r.key, "config">>, <<r.key, "receipt">>}
      BY <3>2, <3>4, <3>5 DEF RetainedIntact, Readable
    <3>7. /\ Holds(Admitted, campaign.file)
          /\ \A s \in ToSet(ledger) : Retained(s.key, s.config, s.receipt)
      BY <3>3 DEF DiskInv
    <3>8. ASSUME NEW s \in ToSet(ledger) PROVE Retained(s.key, s.config, s.receipt)'
      <4>1. CASE s = r
        BY <2>1, <3>6, <4>1 DEF Retained, Holds
      <4>2. CASE s # r
        <5>1. s.key # r.key
          BY <3>4, <3>5, <4>2
        <5>2. /\ <<s.key, "config">> \notin {<<r.key, "config">>, <<r.key, "receipt">>}
              /\ <<s.key, "receipt">> \notin {<<r.key, "config">>, <<r.key, "receipt">>}
          BY <5>1
        <5>3. QED
          BY <2>1, <3>6, <3>7, <5>2 DEF Retained, Holds
      <4>3. QED
        BY <4>1, <4>2
    <3>9. Holds(Admitted, campaign.file)'
      <4>1. Admitted \notin {<<r.key, "config">>, <<r.key, "receipt">>}
        BY <3>4, <3>5 DEF Admitted, Locator
      <4>2. QED
        BY <2>1, <3>6, <3>7, <4>1 DEF Holds
    <3>10. QED
      BY <2>1, <3>2, <3>8, <3>9 DEF DiskInv
  <2>4. QED
    BY <2>2, <2>3
<1>7. CASE RivalRetained
  <2>1. PICK locator \in DOMAIN disk :
          /\ \/ disk' = [other \in DOMAIN disk \ {locator} |-> disk[other]]
             \/ \E altered : disk' = [disk EXCEPT ![locator] = altered]
          /\ stale' = stale \union {locator}
    BY <1>7 DEF RivalRetained
  <2>2. UNCHANGED <<pc, campaign, next, returned, ledger>>
    BY <1>7 DEF RivalRetained, records
  <2>3. \A other : other \in DOMAIN disk /\ other \notin stale' => other \in DOMAIN disk' /\ disk'[other] = disk[other]
    <3>1. CASE disk' = [other \in DOMAIN disk \ {locator} |-> disk[other]]
      BY <2>1, <3>1
    <3>2. CASE \E altered : disk' = [disk EXCEPT ![locator] = altered]
      BY <2>1, <3>2
    <3>3. QED
      BY <2>1, <3>1, <3>2
  <2>4. stale \subseteq stale' /\ (Active' => Active) /\ (pc' = "bind" => pc = "bind")
    BY <2>1, <2>2 DEF Active
  <2>5. QED
    BY <2>2, <2>3, <2>4, DiskRests
<1>8. CASE RivalDocument
  <2>1. UNCHANGED <<pc, campaign, next, returned, ledger>> /\ stale \subseteq stale' /\ DOMAIN disk \subseteq stale'
    BY <1>8 DEF RivalDocument, records
  <2>2. (Active' => Active) /\ (pc' = "bind" => pc = "bind")
    BY <2>1 DEF Active
  <2>3. QED
    BY <2>1, <2>2, DiskRests
<1>9. CASE UNCHANGED vars
  <2>1. UNCHANGED <<pc, campaign, next, returned, ledger, disk, stale>>
    BY <1>9 DEF vars
  <2>2. (Active' => Active) /\ (pc' = "bind" => pc = "bind")
    BY <2>1 DEF Active
  <2>3. QED
    BY <2>1, <2>2, DiskRests
<1>10. QED
  BY <1>1, <1>2, <1>3, <1>4, <1>5, <1>6, <1>7, <1>8, <1>9 DEF Next, Run, Rivals

\* What a run publishes is accepted while nobody touched the tree.
LEMMA DoneIsAccepted ==
  ASSUME LedgerInv, DiskInv, pc = "done", stale = {}, ".." \notin ToSet(campaign.base),
         NEW shown \in document, NEW place0
  PROVE  LoadAndValidate(shown, disk, place0)
<1>1. Decided /\ Active
  BY DEF LedgerInv, Active
<1>2. /\ Complete(Config, campaign.base, Root, ledger) /\ Len(EligibleIds(ledger)) >= Config.budget
      /\ shown = BuildQualificationReceipt(Config, campaign.file, ledger)
  BY <1>1 DEF Decided, Complete, CellKeys
<1>3. campaign.base \in Paths
  BY BasesArePaths DEF LedgerInv
<1>4. ".." \notin ToSet(Root)
  <2>1. Config.output_dir \in Paths
    BY <1>2, CompleteParts DEF Configurations
  <2>2. campaign.base \o Config.output_dir \in Paths
    BY <1>3, <2>1 DEF Paths
  <2>3. QED
    BY <2>2, CanonicalHasNoDots DEF Root
<1>5. Admitted \in DOMAIN disk /\ disk[Admitted] = campaign.file
  BY <1>1 DEF DiskInv, Holds
<1>6. Retains(disk, ledger)
  <2>1. \A r \in ToSet(ledger) : Retained(r.key, r.config, r.receipt)
    BY <1>1 DEF DiskInv
  <2>2. \A r \in ToSet(ledger) : r.config_locator = <<r.key, "config">> /\ r.receipt_locator = <<r.key, "receipt">>
    BY <1>1, LedgerKeys
  <2>3. QED
    BY <2>1, <2>2 DEF Retains, Retained, Holds
<1>7. campaign.file.doc = Config
  BY DEF Config
<1>8. LoadAndValidate(BuildQualificationReceipt(Config, campaign.file, ledger), disk, place0)
  BY <1>2, <1>3, <1>4, <1>5, <1>6, <1>7, CampaignIsAccepted
<1>9. QED
  BY <1>2, <1>8

\* The inductive invariant of publication: the ledger, and what is retained of it.
PublishedInv == LedgerInv /\ CountInv /\ DiskInv /\ PublishedIsAccepted

\* The loader accepts what a run published, wherever the tree is by then.
THEOREM PublishedIsAcceptedHolds == Spec => []PublishedIsAccepted
<1>1. Init => PublishedInv
  BY LedgerInit, DiskInit DEF PublishedInv, CountInv, PublishedIsAccepted, Init
<1>2. ASSUME PublishedInv, [Next]_vars
      PROVE  PublishedIsAccepted'
  <2>1. CASE Reader
    <3>1. /\ pc = "done" /\ UNCHANGED <<campaign, disk, published, stale, document>>
          /\ \E shown \in published : result' = IF LoadAndValidate(shown, disk, place) THEN "accepted" ELSE "rejected"
      BY <2>1 DEF Reader, files, records
    <3>2. ASSUME Untouched, ".." \notin ToSet(campaign.base)
          PROVE  result' = "accepted"
      <4>1. PICK shown \in document : result' = IF LoadAndValidate(shown, disk, place) THEN "accepted" ELSE "rejected"
        BY <3>1, <3>2 DEF Untouched
      <4>2. LoadAndValidate(shown, disk, place)
        BY <1>2, <3>1, <3>2, DoneIsAccepted DEF PublishedInv, Untouched
      <4>3. QED
        BY <4>1, <4>2
    <3>3. Untouched' => Untouched
      BY <3>1 DEF Untouched
    <3>4. QED
      BY <3>1, <3>2, <3>3 DEF PublishedIsAccepted
  <2>2. CASE UNCHANGED vars
    BY <1>2, <2>2 DEF vars, PublishedInv, PublishedIsAccepted, Untouched
  <2>3. CASE Run \/ Rivals
    <3>1. pc' # "read"
      <4>1. CASE Run
        BY <4>1 DEF Run, AdmitConfiguration, OwnOutput, Compare, CompareFails, BindCell, DecideCampaign, VerifyRetained,
                    Publish, Refuse
      <4>2. CASE Rivals
        BY <4>2 DEF Rivals, RivalSource, RivalRetained, RivalDirectory, RivalMove, RivalDocument, Running
      <4>3. QED
        BY <2>3, <4>1, <4>2
    <3>2. QED
      BY <3>1 DEF PublishedIsAccepted
  <2>4. QED
    BY <1>2, <2>1, <2>2, <2>3 DEF Next
<1>3. PublishedInv /\ [Next]_vars => PublishedInv'
  BY <1>2, LedgerNext, CountNext, DiskNext DEF PublishedInv
<1>4. PublishedInv => PublishedIsAccepted
  BY DEF PublishedInv
<1>5. QED
  BY <1>1, <1>3, <1>4, PTL DEF Spec
=============================================================================
