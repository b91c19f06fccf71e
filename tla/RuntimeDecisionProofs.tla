------------------------- MODULE RuntimeDecisionProofs -------------------------
(***************************************************************************)
(* What a decision of a runtime review promises, for all profiles,         *)
(* tolerances and evidence of any channels, contacts and times.            *)
(*                                                                         *)
(* First the envelope: no finer grid contradicts a WITHIN or an OUTSIDE    *)
(* verdict.  The geometric series is never summed.  Drift says instead     *)
(* that what a profile has moved since its finest simulated grid, and      *)
(* three times its last move, are together at most three times the last    *)
(* simulated move: each refinement pays for the move it makes.             *)
(*                                                                         *)
(* Then the decision.  It is a function of the evidence (Decided), so its  *)
(* promises are lemmas about the operators that compute it: the first gate *)
(* is not later than any gate, each fault makes a gate not later than the  *)
(* fault, and what is before the first gate is therefore faultless.        *)
(***************************************************************************)
EXTENDS GridRefinement, RuntimeDecision, NaturalsInduction, WellFoundedInduction, TLAPS

-----------------------------------------------------------------------------
(* The envelope                                                            *)

Admitted == \A s \in Sides : profile[s][1] \in Positions(kind)
                          /\ profile[s][2] \in Positions(kind)
                          /\ profile[s][3] \in Positions(kind)

Drift ==
    \A s \in Sides : Apart(kind, limit[s], profile[s][3]) + 3 * step[s]
                        <= 3 * Second(kind, profile[s])

Judged ==
    LET e == Enclosure(kind, profile["baseline"], profile["candidate"])
    IN  /\ verdict = WITHIN => UpperAbs(e) <= tolerance
        /\ verdict = OUTSIDE => LowerAbs(e) > tolerance

RefinementInv == TypeOK /\ Admitted /\ Drift /\ Judged

-----------------------------------------------------------------------------
(* Distances                                                               *)

\* The distance of two scalars, and the angle of two rotations, is a metric; an angle is at most
\* half a turn.
LEMMA ApartIsMetric ==
    ASSUME NEW k \in Kinds, NEW x \in Positions(k), NEW y \in Positions(k), NEW z \in Positions(k)
    PROVE  /\ Apart(k, x, y) \in Nat
           /\ Apart(k, x, x) = 0
           /\ Apart(k, x, y) = Apart(k, y, x)
           /\ Apart(k, x, z) <= Apart(k, x, y) + Apart(k, y, z)
           /\ k = "ORIENTATION" => Apart(k, x, y) <= Pi
<1>1. CASE k = "SCALAR"
  BY <1>1 DEF Apart, Positions, Magnitude
<1>2. CASE k = "ORIENTATION"
  BY <1>2, UnitAssumption DEF Apart, RotationAngle, Positions, Magnitude, Least
<1>3. QED
  BY <1>1, <1>2 DEF Kinds

\* Whatever lies within each profile's uncertainty of its finest value has a distance between the
\* bounds of the pair's enclosure.
LEMMA EnclosureIsSound ==
    ASSUME NEW k \in Kinds, NEW a, NEW b,
           a[1] \in Positions(k), a[2] \in Positions(k), a[3] \in Positions(k),
           b[1] \in Positions(k), b[2] \in Positions(k), b[3] \in Positions(k),
           NEW x \in Positions(k), NEW y \in Positions(k),
           Apart(k, x, a[3]) <= Uncertainty(k, a), Apart(k, y, b[3]) <= Uncertainty(k, b)
    PROVE  /\ LowerAbs(Enclosure(k, a, b)) <= Apart(k, x, y)
           /\ Apart(k, x, y) <= UpperAbs(Enclosure(k, a, b))
           /\ LowerAbs(Enclosure(k, a, b)) \in Int
           /\ UpperAbs(Enclosure(k, a, b)) \in Int
<1>0. /\ Uncertainty(k, a) \in Nat /\ Uncertainty(k, b) \in Nat
  <2>1. Apart(k, a[3], a[2]) \in Nat /\ Apart(k, b[3], b[2]) \in Nat
    BY ApartIsMetric
  <2>2. QED
    BY <2>1, UnitAssumption DEF Uncertainty, Second
<1>1. CASE k = "SCALAR"
  <2>1. /\ x \in Int /\ y \in Int /\ a[3] \in Int /\ b[3] \in Int
    BY <1>1 DEF Positions
  <2> DEFINE ua == Uncertainty(k, a)
             ub == Uncertainty(k, b)
             low == b[3] - ub - Ulp - (a[3] + ua + Ulp) - Ulp
             high == b[3] + ub + Ulp - (a[3] - ua - Ulp) + Ulp
  <2>2. Enclosure(k, a, b) = [lower |-> low, upper |-> high]
    <3>1. TailInterval(a) = [lower |-> a[3] - ua - Ulp, upper |-> a[3] + ua + Ulp]
      BY <1>1 DEF TailInterval, Outward, Interval
    <3>2. TailInterval(b) = [lower |-> b[3] - ub - Ulp, upper |-> b[3] + ub + Ulp]
      BY <1>1 DEF TailInterval, Outward, Interval
    <3>3. Enclosure(k, a, b) = Difference(TailInterval(b), TailInterval(a))
      BY <1>1 DEF Enclosure
    <3>4. ua \in Int /\ ub \in Int
      BY <1>0
    <3> HIDE DEF ua, ub
    <3>5. QED
      BY <2>1, <3>1, <3>2, <3>3, <3>4, UnitAssumption DEF Difference, Outward, Interval
  <2>3. /\ Magnitude(x - a[3]) <= ua /\ Magnitude(y - b[3]) <= ub
        /\ Apart(k, x, y) = Magnitude(x - y)
    BY <1>1 DEF Apart
  <2>4. low \in Int /\ high \in Int /\ low <= y - x /\ y - x <= high
    <3> HIDE DEF ua, ub
    <3>1. ua \in Nat /\ ub \in Nat
      BY <1>0 DEF ua, ub
    <3>2. QED
      BY <2>1, <2>3, <3>1, UnitAssumption DEF Magnitude
  <2> HIDE DEF low, high
  <2>5. /\ LowerAbs([lower |-> low, upper |-> high]) <= Magnitude(x - y)
        /\ Magnitude(x - y) <= UpperAbs([lower |-> low, upper |-> high])
        /\ LowerAbs([lower |-> low, upper |-> high]) \in Int
        /\ UpperAbs([lower |-> low, upper |-> high]) \in Int
    BY <2>1, <2>4 DEF LowerAbs, UpperAbs, Magnitude, Least, Greatest
  <2>6. QED
    BY <2>2, <2>3, <2>5
<1>2. CASE k = "ORIENTATION"
  <2> DEFINE ua == Uncertainty(k, a)
             ub == Uncertainty(k, b)
             center == Apart(k, a[3], b[3])
             angle == Apart(k, x, y)
             low == Greatest(0, Greatest(0, center - (ua + ub)) - Ulp)
             high == Least(Pi, Least(Pi, center + (ua + ub)) + Ulp)
  <2>1. Enclosure(k, a, b) = [lower |-> low, upper |-> high]
    BY <1>2 DEF Enclosure, OrientationInterval, Clipped, Outward, Interval, Apart
  <2>2. /\ center \in Nat /\ angle \in Nat /\ angle <= Pi /\ center <= Pi
        /\ angle <= center + (ua + ub) /\ center <= angle + (ua + ub)
    <3>1. /\ Apart(k, x, y) <= Apart(k, x, a[3]) + Apart(k, a[3], y)
          /\ Apart(k, a[3], y) <= Apart(k, a[3], b[3]) + Apart(k, b[3], y)
          /\ Apart(k, b[3], y) = Apart(k, y, b[3])
      BY ApartIsMetric
    <3>2. /\ Apart(k, a[3], b[3]) <= Apart(k, a[3], x) + Apart(k, x, b[3])
          /\ Apart(k, x, b[3]) <= Apart(k, x, y) + Apart(k, y, b[3])
          /\ Apart(k, a[3], x) = Apart(k, x, a[3])
      BY ApartIsMetric
    <3>3. \A u \in {x, y, a[3], b[3]}, v \in {x, y, a[3], b[3]} :
             Apart(k, u, v) \in Nat /\ Apart(k, u, v) <= Pi
      BY <1>2, ApartIsMetric
    <3>4. QED
      BY <1>0, <3>1, <3>2, <3>3, UnitAssumption
  <2>3. ua \in Nat /\ ub \in Nat
    BY <1>0
  <2> HIDE DEF ua, ub, center, angle
  <2>4. /\ low \in Int /\ high \in Int /\ 0 <= low /\ low <= angle /\ angle <= high
    BY <2>2, <2>3, UnitAssumption DEF low, high, Greatest, Least
  <2> HIDE DEF low, high
  <2>5. /\ LowerAbs([lower |-> low, upper |-> high]) <= angle
        /\ angle <= UpperAbs([lower |-> low, upper |-> high])
        /\ LowerAbs([lower |-> low, upper |-> high]) \in Int
        /\ UpperAbs([lower |-> low, upper |-> high]) \in Int
    BY <2>2, <2>4 DEF LowerAbs, UpperAbs, Magnitude, Least, Greatest
  <2>6. QED
    BY <2>1, <2>5 DEF angle
<1>3. QED
  BY <1>1, <1>2 DEF Kinds

-----------------------------------------------------------------------------
(* The inductive invariant                                                 *)

LEMMA InitRefinement == Given => RefinementInv
<1> SUFFICES ASSUME Given PROVE RefinementInv
  OBVIOUS
<1>1. Admitted
  BY TriplesAssumption DEF Given, Admitted, Sides
<1>2. \A s \in Sides : Second(kind, profile[s]) \in Nat
                     /\ Apart(kind, limit[s], profile[s][3]) = 0
  BY <1>1, ApartIsMetric DEF Given, Admitted, Second
<1>3. TypeOK
  BY <1>1, <1>2 DEF Given, TypeOK, Admitted
<1>4. Drift
  BY <1>2 DEF Given, Drift
<1>5. Judged
  BY DEF Given, Judged, WITHIN, OUTSIDE
<1>6. QED
  BY <1>1, <1>3, <1>4, <1>5 DEF RefinementInv

LEMMA StepRefinement == RefinementInv /\ [Refinement]_grids => RefinementInv'
<1> SUFFICES ASSUME RefinementInv, [Refinement]_grids PROVE RefinementInv'
  OBVIOUS
<1> USE DEF RefinementInv
<1>1. CASE Classify
  <2>1. TypeOK'
    BY <1>1 DEF Classify, TypeOK, Classification
  <2>2. Admitted' /\ Drift'
    BY <1>1 DEF Classify, Admitted, Drift, Second
  <2>3. Judged'
    BY <1>1 DEF Classify, Judged, Classification, WITHIN, OUTSIDE, UNRESOLVED
  <2>4. QED
    BY <2>1, <2>2, <2>3
<1>2. ASSUME NEW s \in Sides, Refine(s) PROVE RefinementInv'
  <2>1. PICK shift \in Shifts :
           LET value == IF kind = "SCALAR" THEN limit[s] + shift
                        ELSE (limit[s] + shift) % (2 * Pi)
           IN  /\ 4 * Apart(kind, value, limit[s]) <= 3 * step[s]
               /\ limit' = [limit EXCEPT ![s] = value]
               /\ step' = [step EXCEPT ![s] = Apart(kind, value, limit[s])]
    BY <1>2 DEF Refine
  <2> DEFINE value == IF kind = "SCALAR" THEN limit[s] + shift
                      ELSE (limit[s] + shift) % (2 * Pi)
  <2>2. value \in Positions(kind)
    BY UnitAssumption, ShiftsAssumption DEF TypeOK, Positions, Kinds
  <2> HIDE DEF value
  <2>3. /\ 4 * Apart(kind, value, limit[s]) <= 3 * step[s]
        /\ limit' = [limit EXCEPT ![s] = value]
        /\ step' = [step EXCEPT ![s] = Apart(kind, value, limit[s])]
    BY <2>1 DEF value
  <2>4. /\ UNCHANGED <<kind, tolerance, profile, verdict>>
        /\ Apart(kind, value, limit[s]) \in Nat
    BY <1>2, <2>2, ApartIsMetric DEF Refine, TypeOK
  <2>5. TypeOK'
    BY <2>2, <2>3, <2>4 DEF TypeOK
  <2>6. Admitted' /\ Judged'
    BY <2>4 DEF Admitted, Judged
  <2>7. Drift'
    <3>1. Apart(kind, value, profile[s][3])
             <= Apart(kind, value, limit[s]) + Apart(kind, limit[s], profile[s][3])
      BY <2>2, ApartIsMetric DEF TypeOK, Admitted
    <3>2. /\ Apart(kind, value, profile[s][3]) \in Nat
          /\ Apart(kind, limit[s], profile[s][3]) \in Nat
          /\ Second(kind, profile[s]) \in Nat
      BY <2>2, ApartIsMetric DEF TypeOK, Admitted, Second
    <3>3. /\ step[s] \in Nat
          /\ Apart(kind, limit[s], profile[s][3]) + 3 * step[s] <= 3 * Second(kind, profile[s])
      BY DEF TypeOK, Drift
    <3>4. Apart(kind, value, profile[s][3]) + 3 * Apart(kind, value, limit[s])
             <= 3 * Second(kind, profile[s])
      BY <2>3, <2>4, <3>1, <3>2, <3>3
    <3>5. limit'[s] = value /\ step'[s] = Apart(kind, value, limit[s])
      BY <2>3 DEF TypeOK
    <3>6. \A r \in Sides \ {s} : limit'[r] = limit[r] /\ step'[r] = step[r]
      BY <2>3 DEF TypeOK
    <3>7. QED
      BY <2>4, <3>4, <3>5, <3>6 DEF Drift, Second
  <2>8. QED
    BY <2>5, <2>6, <2>7
<1>3. CASE UNCHANGED grids
  BY <1>3 DEF grids, TypeOK, Admitted, Drift, Judged
<1>4. QED
  BY <1>1, <1>2, <1>3 DEF Refinement

\* Types of GridRefinement: a refined rotation stays on the circle, a move is never negative.
THEOREM TypeCorrect == RefinementSpec => []TypeOK
<1>1. RefinementInv => TypeOK
  BY DEF RefinementInv
<1>2. QED
  BY InitRefinement, StepRefinement, <1>1, PTL DEF RefinementSpec

\* The limits always lie between the bounds the classification was made from.
LEMMA LimitsEnclosed ==
    RefinementInv =>
        LET e == Enclosure(kind, profile["baseline"], profile["candidate"])
        IN  LowerAbs(e) <= Distance /\ Distance <= UpperAbs(e)
            /\ Distance \in Int /\ LowerAbs(e) \in Int /\ UpperAbs(e) \in Int
<1> SUFFICES ASSUME RefinementInv
    PROVE  LET e == Enclosure(kind, profile["baseline"], profile["candidate"])
           IN  LowerAbs(e) <= Distance /\ Distance <= UpperAbs(e)
               /\ Distance \in Int /\ LowerAbs(e) \in Int /\ UpperAbs(e) \in Int
  OBVIOUS
<1>1. \A s \in Sides : Apart(kind, limit[s], profile[s][3]) <= Uncertainty(kind, profile[s])
  <2>1. \A s \in Sides : /\ Apart(kind, limit[s], profile[s][3]) \in Nat
                        /\ Second(kind, profile[s]) \in Nat
                        /\ step[s] \in Nat
    BY ApartIsMetric DEF RefinementInv, TypeOK, Admitted, Second
  <2>2. QED
    BY <2>1, UnitAssumption DEF RefinementInv, Drift, Uncertainty
<1> DEFINE a == profile["baseline"]
           b == profile["candidate"]
           x == limit["baseline"]
           y == limit["candidate"]
<1>2. /\ kind \in Kinds /\ x \in Positions(kind) /\ y \in Positions(kind)
      /\ a[1] \in Positions(kind) /\ a[2] \in Positions(kind) /\ a[3] \in Positions(kind)
      /\ b[1] \in Positions(kind) /\ b[2] \in Positions(kind) /\ b[3] \in Positions(kind)
  BY DEF RefinementInv, TypeOK, Admitted, Sides
<1>3. Apart(kind, x, a[3]) <= Uncertainty(kind, a) /\ Apart(kind, y, b[3]) <= Uncertainty(kind, b)
  BY <1>1 DEF Sides
<1>4. Distance = Apart(kind, x, y) /\ Apart(kind, x, y) \in Nat
  BY <1>2, ApartIsMetric DEF Distance
<1> HIDE DEF a, b, x, y
<1>5. /\ LowerAbs(Enclosure(kind, a, b)) <= Apart(kind, x, y)
      /\ Apart(kind, x, y) <= UpperAbs(Enclosure(kind, a, b))
      /\ LowerAbs(Enclosure(kind, a, b)) \in Int
      /\ UpperAbs(Enclosure(kind, a, b)) \in Int
  BY <1>2, <1>3, EnclosureIsSound
<1>6. QED
  BY <1>4, <1>5 DEF a, b

\* WithinSurvivesRefinement: no grid, however fine, contradicts a WITHIN witness.
THEOREM WithinIsSound == RefinementSpec => []WithinSurvivesRefinement
<1>1. RefinementInv => WithinSurvivesRefinement
  <2> DEFINE bound == UpperAbs(Enclosure(kind, profile["baseline"], profile["candidate"]))
  <2> SUFFICES ASSUME RefinementInv, verdict = WITHIN PROVE Distance <= tolerance
    BY DEF WithinSurvivesRefinement
  <2>1. Distance <= bound /\ Distance \in Int /\ bound \in Int
    BY LimitsEnclosed
  <2>2. bound <= tolerance
    BY DEF RefinementInv, Judged
  <2>3. tolerance \in Nat
    BY TolerancesAssumption DEF RefinementInv, TypeOK
  <2> HIDE DEF bound
  <2>4. QED
    BY <2>1, <2>2, <2>3
<1>2. QED
  BY InitRefinement, StepRefinement, <1>1, PTL DEF RefinementSpec

\* OutsideSurvivesRefinement: nor an OUTSIDE witness, on which a replacement is rejected at once.
THEOREM OutsideIsSound == RefinementSpec => []OutsideSurvivesRefinement
<1>1. RefinementInv => OutsideSurvivesRefinement
  <2> DEFINE bound == LowerAbs(Enclosure(kind, profile["baseline"], profile["candidate"]))
  <2> SUFFICES ASSUME RefinementInv, verdict = OUTSIDE PROVE Distance > tolerance
    BY DEF OutsideSurvivesRefinement
  <2>1. bound <= Distance /\ Distance \in Int /\ bound \in Int
    BY LimitsEnclosed
  <2>2. bound > tolerance
    BY DEF RefinementInv, Judged
  <2>3. tolerance \in Nat
    BY TolerancesAssumption DEF RefinementInv, TypeOK
  <2> HIDE DEF bound
  <2>4. QED
    BY <2>1, <2>2, <2>3
<1>2. QED
  BY InitRefinement, StepRefinement, <1>1, PTL DEF RefinementSpec

-----------------------------------------------------------------------------
(* Choosing the first of something                                         *)

LEMMA LeastElement ==
    ASSUME NEW S \in SUBSET Nat, S # {}
    PROVE  \E x \in S : \A y \in S : x <= y
<1>1. PICK x \in S : \A y \in S : ~(<<y, x>> \in OpToRel(<, Nat))
  BY WFMin, NatLessThanWellFounded
<1>2. \A y \in S : ~(y < x)
  BY <1>1 DEF OpToRel
<1>3. QED
  BY <1>2

LEMMA EarliestIs ==
    ASSUME NEW T \in SUBSET Nat, T # {}
    PROVE  Earliest(T) \in T /\ \A u \in T : Earliest(T) <= u
BY LeastElement DEF Earliest

\* The observation before a time is not after it.
LEMMA PreviousIs ==
    ASSUME NEW t \in ObservationTimes
    PROVE  Previous(t) \in 0 .. t
<1>1. t \in Nat /\ 0 \in ObservationTimes /\ \A q \in ObservationTimes : q \in Nat
  BY ClockAssumption
<1>2. CASE t = 0
  BY <1>2 DEF Previous
<1>3. CASE t # 0
  <2> DEFINE S == {t - q : q \in {p \in ObservationTimes : p < t}}
  <2>1. S \in SUBSET Nat /\ t - 0 \in S
    BY <1>1, <1>3
  <2>2. PICK x \in S : \A y \in S : x <= y
    BY <2>1, LeastElement
  <2>3. PICK p \in ObservationTimes : p < t /\ x = t - p
    BY <2>2
  <2>4. \A q \in ObservationTimes : q < t => q <= p
    <3> SUFFICES ASSUME NEW q \in ObservationTimes, q < t PROVE q <= p
      OBVIOUS
    <3>1. t - q \in S
      OBVIOUS
    <3>2. t - p <= t - q
      BY <2>2, <2>3, <3>1
    <3>3. QED
      BY <1>1, <3>2
  <2> DEFINE P(q) == q \in ObservationTimes /\ q < t /\ \A u \in ObservationTimes : u < t => u <= q
  <2>5. P(CHOOSE q : P(q))
    BY <2>3, <2>4
  <2>6. Previous(t) = CHOOSE q : P(q)
    BY <1>3 DEF Previous
  <2>7. P(Previous(t))
    BY <2>5, <2>6
  <2> HIDE DEF P
  <2>8. Previous(t) \in ObservationTimes /\ Previous(t) < t
    BY <2>7 DEF P
  <2>9. Previous(t) \in Nat
    BY <1>1, <2>8
  <2>10. QED
    BY <1>1, <2>8, <2>9
<1>4. QED
  BY <1>2, <1>3

-----------------------------------------------------------------------------
(* Evidence                                                                *)

IsEvidence(e) ==
    /\ DOMAIN e = {"trace", "failed", "readings", "events", "forces", "compiled"}
    /\ e = [f \in DOMAIN e |-> e[f]]
    /\ e.trace \in [Cells -> [Channels -> [ObservationTimes -> Values]]]
    /\ e.failed \in [Cells -> ObservationTimes \cup {Never}]
    /\ e.readings \in [Cells -> ObservationTimes \cup {Never}]
    /\ e.events \in [Cells -> [Contacts -> Seq(0 .. HORIZON)]]
    /\ e.forces \in [Cells -> [Contacts -> {"sound", "other"}]]
    /\ e.compiled \in [Cells -> {"sound", "other"}]

Decided == IsEvidence(evidence) /\ decision = Decide(evidence)

LEMMA Initially == Init => Decided
<1> SUFFICES ASSUME Init PROVE Decided
  OBVIOUS
<1>1. PICK n \in Campaigns : evidence = Evidence(n.values, n.events)
  BY DEF Init
<1>2. \A r \in Roles : /\ \A k \in Kinds : \A g \in Grids : n.values[r][k][g] \in Values
                       /\ n.events[r] \in [Contacts -> Seq(0 .. HORIZON)]
  BY CampaignAssumption
<1>3. \A x \in Cells : x[1] \in Roles /\ x[2] \in Grids
  BY DEF Cells
<1>4. \A c : KindOf(c) \in Kinds
  BY DEF KindOf, Kinds
<1>5. IsEvidence(evidence)
  BY <1>1, <1>2, <1>3, <1>4 DEF Evidence, IsEvidence
<1>6. QED
  BY <1>5 DEF Init, Decided

LEMMA NextKeeps == Decided /\ [Next]_vars => Decided'
<1> SUFFICES ASSUME Decided, [Next]_vars PROVE Decided'
  OBVIOUS
<1>1. IsEvidence(evidence)
  BY DEF Decided
<1>2. \A x \in Cells : x[1] \in Roles /\ x[2] \in Grids
  BY DEF Cells
<1>3. \A c : KindOf(c) \in Kinds
  BY DEF KindOf, Kinds
<1>4. ASSUME NEW e, Review(e), IsEvidence(e) PROVE Decided'
  BY <1>4 DEF Review, Decided
<1>5. CASE Measure
  <2>1. PICK r \in Roles, g \in Grids, c \in Channels, t \in ObservationTimes : \E d \in Deviations[KindOf(c)] :
          Review([evidence EXCEPT !.trace = [x \in Cells |->
                       IF x[1] = r /\ x[2] = g /\ x[3] \in d[2]
                       THEN [@[x] EXCEPT ![c][t] = d[1]] ELSE @[x]]])
    BY <1>5 DEF Measure
  <2>0. PICK d \in Deviations[KindOf(c)] :
          Review([evidence EXCEPT !.trace = [x \in Cells |->
                       IF x[1] = r /\ x[2] = g /\ x[3] \in d[2]
                       THEN [@[x] EXCEPT ![c][t] = d[1]] ELSE @[x]]])
    BY <2>1
  <2> DEFINE trace == [x \in Cells |-> IF x[1] = r /\ x[2] = g /\ x[3] \in d[2]
                                       THEN [evidence.trace[x] EXCEPT ![c][t] = d[1]] ELSE evidence.trace[x]]
  <2>2. d[1] \in Values
    BY <1>3, DeviationAssumption
  <2>3. trace \in [Cells -> [Channels -> [ObservationTimes -> Values]]]
    BY <1>1, <2>2 DEF IsEvidence
  <2>4. Review([evidence EXCEPT !.trace = trace])
    BY <2>0
  <2> HIDE DEF trace
  <2>5. IsEvidence([evidence EXCEPT !.trace = trace])
    BY <1>1, <2>3 DEF IsEvidence
  <2>6. QED
    BY <1>4, <2>4, <2>5
<1>6. CASE DiagnosticsDiffer
  <2>1. PICK x \in Cells, t \in ObservationTimes :
          Review([evidence EXCEPT !.failed[x] = t]) \/ Review([evidence EXCEPT !.readings[x] = t])
    BY <1>6 DEF DiagnosticsDiffer
  <2>2. IsEvidence([evidence EXCEPT !.failed[x] = t]) /\ IsEvidence([evidence EXCEPT !.readings[x] = t])
    BY <1>1 DEF IsEvidence
  <2>3. QED
    BY <1>4, <2>1, <2>2
<1>7. CASE ContactMoves
  <2>1. PICK R \in (SUBSET Roles) \ {{}}, g \in Grids, c \in Contacts, m \in Moves :
          Review([evidence EXCEPT !.events = [x \in Cells |->
                   IF x[1] \in R /\ x[2] = g THEN [@[x] EXCEPT ![c] = m] ELSE @[x]]])
    BY <1>7 DEF ContactMoves
  <2> DEFINE events == [x \in Cells |-> IF x[1] \in R /\ x[2] = g THEN [evidence.events[x] EXCEPT ![c] = m]
                                        ELSE evidence.events[x]]
  <2>2. m \in Seq(0 .. HORIZON)
    BY DeviationAssumption
  <2>3. events \in [Cells -> [Contacts -> Seq(0 .. HORIZON)]]
    BY <1>1, <2>2 DEF IsEvidence
  <2>4. Review([evidence EXCEPT !.events = events])
    BY <2>1
  <2> HIDE DEF events
  <2>5. IsEvidence([evidence EXCEPT !.events = events])
    BY <1>1, <2>3 DEF IsEvidence
  <2>6. QED
    BY <1>4, <2>4, <2>5
<1>8. CASE CellDiffers
  <2>1. PICK x \in Cells :
          \/ Review([evidence EXCEPT !.compiled[x] = "other"])
          \/ \E c \in Contacts : Review([evidence EXCEPT !.forces[x] = [@ EXCEPT ![c] = "other"]])
    BY <1>8 DEF CellDiffers
  <2>2. IsEvidence([evidence EXCEPT !.compiled[x] = "other"])
    BY <1>1 DEF IsEvidence
  <2>3. ASSUME NEW c \in Contacts
        PROVE  IsEvidence([evidence EXCEPT !.forces[x] = [@ EXCEPT ![c] = "other"]])
    BY <1>1 DEF IsEvidence
  <2>4. QED
    BY <1>4, <2>1, <2>2, <2>3
<1>9. CASE UNCHANGED vars
  BY <1>9 DEF vars, Decided
<1>10. QED
  BY <1>5, <1>6, <1>7, <1>8, <1>9 DEF Next

LEMMA DecidedIsInvariant == Spec => []Decided
BY Initially, NextKeeps, PTL DEF Spec

-----------------------------------------------------------------------------
(* Observations and gates                                                  *)

LEMMA SequenceIs ==
    ASSUME NEW S, NEW s \in Seq(S)
    PROVE  Len(s) \in Nat /\ DOMAIN s = 1 .. Len(s) /\ \A i \in DOMAIN s : s[i] \in S
OBVIOUS

LEMMA EventsAre ==
    ASSUME NEW e, IsEvidence(e), NEW x \in Cells, NEW c \in Contacts
    PROVE  /\ e.events[x][c] \in Seq(0 .. HORIZON)
           /\ Len(e.events[x][c]) \in Nat
           /\ DOMAIN e.events[x][c] = 1 .. Len(e.events[x][c])
           /\ Times(e.events[x][c]) \subseteq 0 .. HORIZON
           /\ Topology(e, x)[c] = Len(e.events[x][c])
<1>1. e.events[x][c] \in Seq(0 .. HORIZON)
  BY DEF IsEvidence
<1>2. /\ Len(e.events[x][c]) \in Nat /\ DOMAIN e.events[x][c] = 1 .. Len(e.events[x][c])
      /\ \A i \in DOMAIN e.events[x][c] : e.events[x][c][i] \in 0 .. HORIZON
  BY <1>1, SequenceIs
<1>3. Times(e.events[x][c]) \subseteq 0 .. HORIZON
  BY <1>2 DEF Times
<1>4. Topology(e, x)[c] = Len(e.events[x][c])
  BY DEF Topology
<1>5. QED
  BY <1>1, <1>2, <1>3, <1>4

LEMMA RawAre ==
    ASSUME NEW e, IsEvidence(e), NEW o \in RawObservations(e)
    PROVE  /\ o.time \in 0 .. HORIZON /\ o.kind \in Kinds /\ o.channel \in Nat /\ o.tolerance \in Nat \ {0}
           /\ \A g \in Grids : o.a[g] \in Values /\ o.b[g] \in Values
<1>1. PICK c \in Channels, t \in ObservationTimes :
        o = Observation(KindOf(c), c, t, Tolerance[c],
                        [g \in Grids |-> e.trace[<<"baseline", g, 0>>][c][t]],
                        [g \in Grids |-> e.trace[<<"candidate", g, 0>>][c][t]])
  BY DEF RawObservations
<1>2. \A g \in Grids : <<"baseline", g, 0>> \in Cells /\ <<"candidate", g, 0>> \in Cells
  BY DEF Cells, Roles, Repeats
<1>0. \A x \in Cells : e.trace[x][c][t] \in Values
  BY DEF IsEvidence
<1>3. \A g \in Grids : e.trace[<<"baseline", g, 0>>][c][t] \in Values /\ e.trace[<<"candidate", g, 0>>][c][t] \in Values
  BY <1>0, <1>2
<1>4. t \in 0 .. HORIZON /\ KindOf(c) \in Kinds /\ c \in Nat /\ Tolerance[c] \in Nat \ {0}
  BY ClockAssumption, ChannelAssumption DEF KindOf, Kinds
<1>5. QED
  BY <1>1, <1>3, <1>4 DEF Observation

LEMMA ContactsAre ==
    ASSUME NEW e, IsEvidence(e), NEW o \in ContactObservations(e)
    PROVE  /\ o.time \in 0 .. HORIZON /\ o.kind \in Kinds /\ o.channel \in Nat /\ o.tolerance \in Nat \ {0}
           /\ \A g \in Grids : o.a[g] \in Values /\ o.b[g] \in Values
<1>1. PICK c \in Contacts : \E i \in 1 .. Topology(e, <<"baseline", 1, 0>>)[c] : o = ContactObservation(e, c, i)
  BY DEF ContactObservations
<1>2. PICK i \in 1 .. Topology(e, <<"baseline", 1, 0>>)[c] : o = ContactObservation(e, c, i)
  BY <1>1
<1>3. SharedTopology(e)
  BY DEF ContactObservations
<1>4. \A r \in Roles, g \in Grids : <<r, g, 0>> \in Cells
  BY DEF Cells, Repeats
<1>5. "baseline" \in Roles /\ "candidate" \in Roles /\ 1 \in Grids
  BY DEF Roles, Grids
<1>6. \A r \in Roles, g \in Grids : e.events[<<r, g, 0>>][c][i] \in 0 .. HORIZON
  <2> SUFFICES ASSUME NEW r \in Roles, NEW g \in Grids PROVE e.events[<<r, g, 0>>][c][i] \in 0 .. HORIZON
    OBVIOUS
  <2>1. Topology(e, <<r, g, 0>>)[c] = Topology(e, <<"baseline", 1, 0>>)[c]
    BY <1>3 DEF SharedTopology
  <2>2. /\ e.events[<<r, g, 0>>][c] \in Seq(0 .. HORIZON)
        /\ Topology(e, <<r, g, 0>>)[c] = Len(e.events[<<r, g, 0>>][c])
        /\ DOMAIN e.events[<<r, g, 0>>][c] = 1 .. Len(e.events[<<r, g, 0>>][c])
    BY <1>4, EventsAre
  <2>3. i \in 1 .. Topology(e, <<r, g, 0>>)[c]
    BY <2>1
  <2>4. i \in DOMAIN e.events[<<r, g, 0>>][c]
    BY <2>2, <2>3
  <2>5. QED
    BY <2>2, <2>4, SequenceIs
<1> DEFINE a == [g \in Grids |-> e.events[<<"baseline", g, 0>>][c][i]]
           b == [g \in Grids |-> e.events[<<"candidate", g, 0>>][c][i]]
           T == {a[g] : g \in Grids} \cup {b[g] : g \in Grids}
<1>7. \A g \in Grids : a[g] \in 0 .. HORIZON /\ b[g] \in 0 .. HORIZON
  BY <1>5, <1>6
<1>8. o = Observation("SCALAR", c + i, Earliest(T), Tolerance[c], a, b)
  BY <1>2 DEF ContactObservation
<1> HIDE DEF a, b
<1>9. T \subseteq 0 .. HORIZON /\ a[1] \in T
  BY <1>5, <1>7
<1>10. HORIZON \in Nat /\ c \in Nat /\ Tolerance[c] \in Nat \ {0}
  BY ClockAssumption, ChannelAssumption
<1> HIDE DEF T
<1>15. T \in SUBSET Nat /\ T # {}
  BY <1>9, <1>10
<1>11. Earliest(T) \in 0 .. HORIZON
  BY <1>9, <1>15, EarliestIs
<1>12. i \in Nat
  BY <1>4, <1>5, EventsAre
<1>13. \A g \in Grids : a[g] \in Values /\ b[g] \in Values
  BY <1>7, <1>10 DEF Values
<1>14. QED
  BY <1>8, <1>10, <1>11, <1>12, <1>13 DEF Observation, Kinds

LEMMA ObservationsAre ==
    ASSUME NEW e, IsEvidence(e), NEW o \in Observations(e)
    PROVE  /\ o.time \in 0 .. HORIZON /\ o.kind \in Kinds /\ o.channel \in Nat /\ o.tolerance \in Nat \ {0}
           /\ \A g \in Grids : o.a[g] \in Values /\ o.b[g] \in Values
BY RawAre, ContactsAre DEF Observations

LEMMA DifferencesAre ==
    ASSUME NEW e, IsEvidence(e), NEW x \in Cells, NEW y \in Cells
    PROVE  /\ RepeatDifferences(e, x, y) \subseteq 0 .. HORIZON
           /\ ContactDifferences(e, x, y) \subseteq 0 .. HORIZON
           /\ ContactDifference(e, x, y) \in 0 .. HORIZON
<1>1. HORIZON \in Nat /\ ObservationTimes \subseteq 0 .. HORIZON
  BY ClockAssumption
<1>2. ContactDifferences(e, x, y) \subseteq 0 .. HORIZON
  BY <1>1, EventsAre DEF ContactDifferences, EventTimes
<1>3. ContactDifference(e, x, y) \in 0 .. HORIZON
  BY <1>1, <1>2, EarliestIs DEF ContactDifference
<1>4. DiagnosticDifferences(e, x, y) \subseteq 0 .. HORIZON
  <2>1. e.failed[x] # e.failed[y] => Least(e.failed[x], e.failed[y]) \in 0 .. HORIZON
    BY <1>1 DEF IsEvidence, Least, Never
  <2>2. e.readings[x] # e.readings[y] => Least(e.readings[x], e.readings[y]) \in 0 .. HORIZON
    BY <1>1 DEF IsEvidence, Least, Never
  <2>3. QED
    BY <2>1, <2>2 DEF DiagnosticDifferences
<1>5. {t \in ObservationTimes : \E c \in Channels : e.trace[x][c][t] # e.trace[y][c][t]} \subseteq 0 .. HORIZON
  BY <1>1
<1>6. RepeatDifferences(e, x, y) \subseteq 0 .. HORIZON
  BY <1>1, <1>2, <1>4, <1>5 DEF RepeatDifferences
<1>7. QED
  BY <1>2, <1>3, <1>6

GateStatuses == {"REPEATABILITY_FAILED", "SOLVER_NOT_CONVERGED", "CONTACT_EVENT_TOPOLOGY_CHANGED",
                 "NON_ASYMPTOTIC_REGIME"}

LEMMA GatesAre ==
    ASSUME NEW e, IsEvidence(e), NEW g \in Gates(e, Observations(e))
    PROVE  g.time \in 0 .. HORIZON /\ g.status \in GateStatuses
<1>1. HORIZON \in Nat /\ ObservationTimes \subseteq 0 .. HORIZON
  BY ClockAssumption
<1>2. CASE g \in RepeatGates(e)
  <2>1. PICK p \in Pairs : RepeatDifferences(e, p[1], p[2]) # {}
                           /\ g = Gate(Earliest(RepeatDifferences(e, p[1], p[2])), "REPEATABILITY_FAILED")
    BY <1>2 DEF RepeatGates
  <2>2. p[1] \in Cells /\ p[2] \in Cells
    BY DEF Pairs, Cells, Repeats
  <2>3. RepeatDifferences(e, p[1], p[2]) \subseteq 0 .. HORIZON
    BY <2>2, DifferencesAre
  <2>4. Earliest(RepeatDifferences(e, p[1], p[2])) \in 0 .. HORIZON
    BY <1>1, <2>1, <2>3, EarliestIs
  <2>5. QED
    BY <2>1, <2>4 DEF Gate, GateStatuses
<1>3. CASE g \in DiagnosticGates(e)
  <2>1. PICK x \in Cells : e.failed[x] # Never /\ g = Gate(Previous(e.failed[x]), "SOLVER_NOT_CONVERGED")
    BY <1>3 DEF DiagnosticGates
  <2>2. e.failed[x] \in ObservationTimes
    BY <2>1 DEF IsEvidence
  <2>3. Previous(e.failed[x]) \in 0 .. HORIZON
    <3>1. Previous(e.failed[x]) \in 0 .. e.failed[x]
      BY <2>2, PreviousIs
    <3>2. e.failed[x] \in 0 .. HORIZON
      BY <1>1, <2>2
    <3> HIDE DEF Previous
    <3>3. QED
      BY <1>1, <3>1, <3>2
  <2>4. QED
    BY <2>1, <2>3 DEF Gate, GateStatuses
<1>4. CASE g \in TopologyGates(e)
  <2>1. PICK p \in Compared : g = Gate(ContactDifference(e, p[1], p[2]), "CONTACT_EVENT_TOPOLOGY_CHANGED")
    BY <1>4 DEF TopologyGates
  <2>2. p[1] \in Cells /\ p[2] \in Cells
    BY DEF Compared, Cells, Repeats, Roles, Grids
  <2>3. QED
    BY <2>1, <2>2, DifferencesAre DEF Gate, GateStatuses
<1>5. CASE g \in NonfiniteGates(Observations(e)) \/ g \in ConvergenceGates(Observations(e))
  <2>1. PICK o \in Observations(e) : g.time = o.time /\ g.status \in GateStatuses
    BY <1>5 DEF NonfiniteGates, ConvergenceGates, Gate, GateStatuses
  <2>2. QED
    BY <2>1, ObservationsAre
<1>6. QED
  BY <1>2, <1>3, <1>4, <1>5 DEF Gates

\* The first gate is one of them, and no other is earlier.
LEMMA FirstGateIs ==
    ASSUME NEW e, IsEvidence(e), NEW G, G = Gates(e, Observations(e)), G # {}
    PROVE  FirstGate(G) \in G /\ \A h \in G : FirstGate(G).time <= h.time
<1>1. \A g \in G : g.time \in Nat /\ g.status \in GateStatuses
  BY GatesAre, ClockAssumption
<1>2. \A s \in GateStatuses : Rank(s) \in Nat
  BY DEF Rank, GATE_ORDER, GateStatuses
<1>3. \A g \in G : Rank(g.status) \in Nat
  BY <1>1, <1>2
<1> DEFINE T == {g.time : g \in G}
<1>4. T \in SUBSET Nat /\ T # {}
  BY <1>1
<1>14. PICK t \in T : \A u \in T : t <= u
  <2> HIDE DEF T
  <2>1. QED
    BY <1>4, LeastElement
<1>5. PICK f \in G : \A h \in G : f.time <= h.time
  BY <1>14
<1> DEFINE R == {Rank(g.status) : g \in {h \in G : h.time = f.time}}
<1>6. R \in SUBSET Nat /\ R # {}
  BY <1>3
<1>7. PICK x \in R : \A y \in R : x <= y
  BY <1>6, LeastElement
<1>8. PICK k \in G : k.time = f.time /\ x = Rank(k.status)
  BY <1>7
<1>9. \A h \in G : k.time < h.time \/ (k.time = h.time /\ Rank(k.status) <= Rank(h.status))
  BY <1>1, <1>5, <1>7, <1>8
<1> DEFINE P(g) == g \in G /\ \A h \in G : \/ g.time < h.time
                                           \/ g.time = h.time /\ Rank(g.status) <= Rank(h.status)
<1>10. P(CHOOSE g : P(g))
  BY <1>9
<1>11. FirstGate(G) = CHOOSE g : P(g)
  BY DEF FirstGate
<1>12. P(FirstGate(G))
  BY <1>10, <1>11
<1>13. QED
  BY <1>1, <1>12

-----------------------------------------------------------------------------
(* The evaluation                                                          *)

FoundGate(e) ==
    LET G == Gates(e, Observations(e)) IN IF G = {} THEN NoGate ELSE FirstGate(G)
FoundRows(e) == AdmittedRows(Observations(e), FoundGate(e))
Evaluable(e) == \A o \in Observations(e) : Finite(o) => ~Degenerate(o)

LEMMA FoundGateIs ==
    ASSUME NEW e, IsEvidence(e)
    PROVE  /\ FoundGate(e).time \in Nat /\ FoundGate(e).time <= Never
           /\ \A g \in Gates(e, Observations(e)) : FoundGate(e).time <= g.time
           /\ FoundGate(e) = NoGate => Gates(e, Observations(e)) = {}
           /\ FoundGate(e) # NoGate => FoundGate(e).time <= HORIZON /\ FoundGate(e).status \in GateStatuses
<1>1. HORIZON \in Nat
  BY ClockAssumption
<1>2. CASE Gates(e, Observations(e)) = {}
  BY <1>1, <1>2 DEF FoundGate, NoGate, Never
<1>3. CASE Gates(e, Observations(e)) # {}
  <2> DEFINE G == Gates(e, Observations(e))
  <2>1. FoundGate(e) \in G /\ \A h \in G : FoundGate(e).time <= h.time
    BY <1>3, FirstGateIs DEF FoundGate
  <2>2. FoundGate(e).time \in 0 .. HORIZON /\ FoundGate(e).status \in GateStatuses
    BY <2>1, GatesAre
  <2>3. FoundGate(e) # NoGate
    BY <2>2 DEF NoGate, GateStatuses
  <2>4. QED
    BY <1>1, <2>1, <2>2, <2>3 DEF Never
<1>4. QED
  BY <1>2, <1>3

LEMMA EvaluationFrom ==
    ASSUME NEW e
    PROVE  EvaluateCase(e) =
              IF ~Evaluable(e) THEN Refused
              ELSE IF FoundGate(e).time = 0 THEN Result(FoundGate(e).status, 0, FoundGate(e), {})
              ELSE IF FoundGate(e).time < MINIMUM_PREFIX
                   THEN Result("PREFIX_TOO_SHORT", FoundGate(e).time, FoundGate(e), {})
              ELSE IF FoundRows(e) = {} THEN Refused
              ELSE Result(DecisionStatus(FoundRows(e)), Least(FoundGate(e).time, HORIZON), FoundGate(e), FoundRows(e))
BY DEF EvaluateCase, FoundGate, FoundRows, Evaluable

LEMMA EvaluationIs ==
    ASSUME NEW e, IsEvidence(e)
    PROVE  LET r == EvaluateCase(e) IN
           /\ r.rows # {} => r.rows = FoundRows(e) /\ r.gate = FoundGate(e) /\ Evaluable(e)
           /\ r.gate = NoGate => r.rows = FoundRows(e) /\ FoundGate(e) = NoGate /\ Evaluable(e)
<1> DEFINE r == EvaluateCase(e)
           gate == FoundGate(e)
           rows == FoundRows(e)
<1>1. r = IF ~Evaluable(e) THEN Refused
          ELSE IF gate.time = 0 THEN Result(gate.status, 0, gate, {})
          ELSE IF gate.time < MINIMUM_PREFIX THEN Result("PREFIX_TOO_SHORT", gate.time, gate, {})
          ELSE IF rows = {} THEN Refused
          ELSE Result(DecisionStatus(rows), Least(gate.time, HORIZON), gate, rows)
  BY EvaluationFrom
<1>2. gate = NoGate => ~(gate.time = 0) /\ ~(gate.time < MINIMUM_PREFIX)
  BY ClockAssumption DEF NoGate, Never
<1>3. Refused.gate # NoGate /\ Refused.rows = {}
  BY DEF Refused, Result, Gate, NoGate
<1> HIDE DEF r, gate, rows
<1>4. /\ r.rows # {} => r.rows = rows /\ r.gate = gate /\ Evaluable(e)
      /\ r.gate = NoGate => r.rows = rows /\ gate = NoGate /\ Evaluable(e)
  BY <1>1, <1>2, <1>3 DEF Result
<1>5. QED
  BY <1>4 DEF r, gate, rows

LEMMA StatusIs ==
    ASSUME NEW e
    PROVE  LET r == EvaluateCase(e) d == Decide(e) IN
           /\ d.exit = 0 => r.gate = NoGate /\ \A w \in r.rows : w.classification \notin {OUTSIDE, UNRESOLVED}
           /\ d.exit = 40 => /\ \E w \in r.rows : w.classification = OUTSIDE
                             /\ d.decisive = FirstDecisive(OUTSIDE, r.rows)
<1> DEFINE r == EvaluateCase(e)
           m == MapProductStatus(r)
<1>1. Decide(e).exit = ExitCode[m[1]] /\ Decide(e).decisive = FirstDecisive(m[1], r.rows)
  BY DEF Decide, ProductDecision
<1> HIDE DEF r
<1>2. m[1] \in {WITHIN, INSUFFICIENT, UNRESOLVED, OUTSIDE}
  BY DEF MapProductStatus, DecisionStatus
<1>3. \A s \in {WITHIN, INSUFFICIENT, UNRESOLVED, OUTSIDE} :
        (ExitCode[s] = 0 => s = WITHIN) /\ (ExitCode[s] = 40 => s = OUTSIDE)
  BY DEF ExitCode, WITHIN, INSUFFICIENT, UNRESOLVED, OUTSIDE
<1>4. m[1] = WITHIN => r.gate = NoGate /\ \A w \in r.rows : w.classification \notin {OUTSIDE, UNRESOLVED}
  BY DEF MapProductStatus, DecisionStatus, Incomplete, WITHIN, INSUFFICIENT, UNRESOLVED, OUTSIDE
<1>5. m[1] = OUTSIDE => \E w \in r.rows : w.classification = OUTSIDE
  BY DEF MapProductStatus, DecisionStatus, WITHIN, INSUFFICIENT, UNRESOLVED, OUTSIDE
<1> HIDE DEF m
<1>6. QED
  BY <1>1, <1>2, <1>3, <1>4, <1>5 DEF r

-----------------------------------------------------------------------------
(* What no gate says                                                       *)

\* Two repeats, none of whose differences made a gate, hold the same.
LEMMA RepeatsAgree ==
    ASSUME NEW e, IsEvidence(e), NEW x \in Cells, NEW y \in Cells, RepeatDifferences(e, x, y) = {}
    PROVE  /\ e.compiled[x] = e.compiled[y]
           /\ \A c \in Channels, s \in ObservationTimes : e.trace[x][c][s] = e.trace[y][c][s]
           /\ e.readings[x] = e.readings[y] /\ e.events[x] = e.events[y] /\ e.forces[x] = e.forces[y]
<1>1. e.compiled[x] = e.compiled[y]
  BY DEF RepeatDifferences
<1>2. \A c \in Channels, s \in ObservationTimes : e.trace[x][c][s] = e.trace[y][c][s]
  BY DEF RepeatDifferences
<1>3. ASSUME NEW c \in Contacts
      PROVE  e.events[x][c] = e.events[y][c] /\ e.forces[x][c] = e.forces[y][c]
  <2> SUFFICES ASSUME e.events[x][c] # e.events[y][c] \/ e.forces[x][c] # e.forces[y][c] PROVE FALSE
    OBVIOUS
  <2>1. EventTimes(e, x, y, c) \subseteq RepeatDifferences(e, x, y)
    BY DEF RepeatDifferences, ContactDifferences
  <2>2. EventTimes(e, x, y, c) # {}
    BY DEF EventTimes
  <2>3. QED
    BY <2>1, <2>2
<1>4. /\ e.events[x] \in [Contacts -> Seq(0 .. HORIZON)] /\ e.events[y] \in [Contacts -> Seq(0 .. HORIZON)]
      /\ e.forces[x] \in [Contacts -> {"sound", "other"}] /\ e.forces[y] \in [Contacts -> {"sound", "other"}]
  BY DEF IsEvidence
<1>5. e.events[x] = e.events[y] /\ e.forces[x] = e.forces[y]
  BY <1>3, <1>4
<1>6. e.readings[x] = e.readings[y]
  BY DEF RepeatDifferences, DiagnosticDifferences
<1>7. QED
  BY <1>1, <1>2, <1>5, <1>6

\* The comparisons that are made are enough: along them all cells have one topology.
LEMMA TopologiesAgree ==
    ASSUME NEW e, TopologyGates(e) = {}
    PROVE  SharedTopology(e)
<1>1. \A p \in Compared : Topology(e, p[1]) = Topology(e, p[2])
  BY DEF TopologyGates
<1> DEFINE T(r, g) == Topology(e, <<r, g, 0>>)
<1>2. \A r \in Roles, g \in {2, 3} : T(r, 1) = T(r, g)
  <2> SUFFICES ASSUME NEW r \in Roles, NEW g \in {2, 3} PROVE T(r, 1) = T(r, g)
    OBVIOUS
  <2>1. <<<<r, 1, 0>>, <<r, g, 0>>>> \in Compared
    BY DEF Compared
  <2>2. QED
    BY <1>1, <2>1
<1>3. T("baseline", 1) = T("candidate", 1)
  <2>1. <<<<"baseline", 1, 0>>, <<"candidate", 1, 0>>>> \in Compared
    BY DEF Compared, Grids
  <2>2. QED
    BY <1>1, <2>1
<1> HIDE DEF T
<1>4. \A r \in Roles, g \in Grids : T(r, g) = T("baseline", 1)
  BY <1>2, <1>3 DEF Roles, Grids
<1>5. QED
  BY <1>4 DEF SharedTopology, T

\* Exit 0 vouches for everything: no gate was found, so no repeat, sample, contact or convergence was
\* at fault, and every observation is a row.
THEOREM GreenVouchesForAll == Spec => []GreenMeansComplete
<1>1. Decided => GreenMeansComplete
  <2> SUFFICES ASSUME Decided, decision.exit = 0
               PROVE  /\ CleanUpTo(HORIZON)
                      /\ \A f \in {"readings", "events", "forces"} : \A x \in Cells :
                            evidence[f][x] = evidence[f][<<x[1], x[2], 0>>]
                      /\ SharedTopology(evidence)
                      /\ \A o \in Observations(evidence) : WithinTolerance(o)
    BY DEF GreenMeansComplete
  <2> DEFINE e == evidence
             r == EvaluateCase(e)
             O == Observations(e)
  <2>1. IsEvidence(e) /\ Decide(e).exit = 0
    BY DEF Decided
  <2>2. r.gate = NoGate /\ \A w \in r.rows : w.classification \notin {OUTSIDE, UNRESOLVED}
    BY <2>1, StatusIs
  <2>3. r.rows = FoundRows(e) /\ FoundGate(e) = NoGate /\ Evaluable(e)
    BY <2>1, <2>2, EvaluationIs
  <2>4. Gates(e, O) = {}
    BY <2>1, <2>3, FoundGateIs
  <2>5. /\ RepeatGates(e) = {} /\ DiagnosticGates(e) = {} /\ TopologyGates(e) = {}
        /\ NonfiniteGates(O) = {} /\ ConvergenceGates(O) = {}
    BY <2>4 DEF Gates
  <2>6. \A p \in Pairs : RepeatDifferences(e, p[1], p[2]) = {}
    BY <2>5 DEF RepeatGates
  <2>7. \A p \in Pairs : p[1] \in Cells /\ p[2] \in Cells
    BY DEF Pairs, Cells, Repeats
  <2>8. \A x \in Cells : e.failed[x] > HORIZON
    <3>1. \A x \in Cells : e.failed[x] = Never
      BY <2>5 DEF DiagnosticGates
    <3>2. QED
      BY <3>1, ClockAssumption DEF Never
  <2>9. CleanUpTo(HORIZON)
    <3>1. ASSUME NEW p \in Pairs
          PROVE  /\ e.compiled[p[1]] = e.compiled[p[2]]
                 /\ \A c \in Channels, s \in ObservationTimes : e.trace[p[1]][c][s] = e.trace[p[2]][c][s]
      <4>1. p[1] \in Cells /\ p[2] \in Cells /\ RepeatDifferences(e, p[1], p[2]) = {}
        BY <2>6, <2>7
      <4> HIDE DEF e
      <4>2. QED
        BY <2>1, <4>1, RepeatsAgree
    <3>2. QED
      BY <2>8, <3>1 DEF CleanUpTo
  <2>10. ASSUME NEW f \in {"readings", "events", "forces"}, NEW x \in Cells
         PROVE  e[f][x] = e[f][<<x[1], x[2], 0>>]
    <3>1. PICK role \in Roles, g \in Grids, k \in Repeats : x = <<role, g, k>>
      BY DEF Cells
    <3>2. <<<<role, g, 0>>, <<role, g, 1>>>> \in Pairs
      BY DEF Pairs
    <3>3. e[f][<<role, g, 0>>] = e[f][<<role, g, 1>>]
      BY <2>1, <2>6, <2>7, <3>2, RepeatsAgree
    <3>4. QED
      BY <3>1, <3>3 DEF Repeats
  <2>11. SharedTopology(e)
    BY <2>5, TopologiesAgree
  <2>12. ASSUME NEW o \in O PROVE WithinTolerance(o)
    <3>1. Finite(o) /\ ~Degenerate(o)
      BY <2>3, <2>5 DEF NonfiniteGates, Evaluable
    <3>2. Convergent(o)
      BY <2>5, <3>1 DEF ConvergenceGates
    <3>3. o.time < NoGate.time
      BY <2>1, ObservationsAre, ClockAssumption DEF NoGate, Never
    <3>4. Witness(o) \in r.rows
      BY <2>3, <3>3 DEF FoundRows, AdmittedRows
    <3>5. Classification(Enclosure(o.kind, o.a, o.b), o.tolerance) \notin {OUTSIDE, UNRESOLVED}
      BY <2>2, <3>4 DEF Witness
    <3>6. UpperAbs(Enclosure(o.kind, o.a, o.b)) <= o.tolerance
      BY <3>5 DEF Classification
    <3>7. QED
      BY <3>1, <3>2, <3>6 DEF WithinTolerance
  <2>13. QED
    BY <2>9, <2>10, <2>11, <2>12
<1>2. QED
  BY <1>1, DecidedIsInvariant, PTL

-----------------------------------------------------------------------------
(* What a gate later than a time says                                      *)

\* Before the first gate, no repeat differs and no diagnostics have failed.
LEMMA CleanBeforeTheGate ==
    ASSUME Decided, NEW t \in 0 .. HORIZON, t < FoundGate(evidence).time
    PROVE  CleanUpTo(t)
<1> DEFINE e == evidence
           G == Gates(e, Observations(e))
           gate == FoundGate(e)
<1>1. IsEvidence(e)
  BY DEF Decided
<1>2. gate.time \in Nat /\ \A g \in G : gate.time <= g.time
  BY <1>1, FoundGateIs
<1>3. HORIZON \in Nat /\ ObservationTimes \subseteq 0 .. HORIZON
  BY ClockAssumption
<1>4. ASSUME NEW x \in Cells PROVE e.failed[x] > t
  <2>1. CASE e.failed[x] = Never
    BY <1>3, <2>1 DEF Never
  <2>2. CASE e.failed[x] # Never
    <3>1. e.failed[x] \in ObservationTimes
      BY <1>1, <2>2 DEF IsEvidence
    <3>2. Gate(Previous(e.failed[x]), "SOLVER_NOT_CONVERGED") \in G
      BY <2>2 DEF DiagnosticGates, Gates
    <3>3. Previous(e.failed[x]) \in 0 .. e.failed[x]
      BY <3>1, PreviousIs
    <3>5. e.failed[x] \in 0 .. HORIZON
      BY <1>3, <3>1
    <3> HIDE DEF Previous, G, gate
    <3>4. gate.time <= Previous(e.failed[x])
      BY <1>2, <3>2 DEF Gate
    <3>6. QED
      BY <1>2, <3>3, <3>4, <3>5 DEF gate
  <2>3. QED
    BY <2>1, <2>2
<1>5. ASSUME NEW p \in Pairs, NEW s \in RepeatDifferences(e, p[1], p[2]) PROVE gate.time <= s /\ s \in Nat
  <2> DEFINE T == RepeatDifferences(e, p[1], p[2])
  <2>1. p[1] \in Cells /\ p[2] \in Cells
    BY DEF Pairs, Cells, Repeats
  <2>2. T \in SUBSET Nat /\ T # {}
    BY <1>1, <1>3, <1>5, <2>1, DifferencesAre
  <2>3. Gate(Earliest(T), "REPEATABILITY_FAILED") \in G
    BY <2>2 DEF RepeatGates, Gates
  <2> HIDE DEF T, G, gate
  <2>4. gate.time <= Earliest(T)
    BY <1>2, <2>3 DEF Gate
  <2>5. Earliest(T) \in T /\ \A u \in T : Earliest(T) <= u
    BY <2>2, EarliestIs
  <2>6. s \in T
    BY DEF T
  <2>7. Earliest(T) <= s /\ s \in Nat /\ Earliest(T) \in Nat
    BY <2>2, <2>5, <2>6
  <2> HIDE DEF Earliest
  <2>8. QED
    BY <1>2, <2>4, <2>7
<1>6. ASSUME NEW p \in Pairs PROVE e.compiled[p[1]] = e.compiled[p[2]]
  <2> SUFFICES ASSUME e.compiled[p[1]] # e.compiled[p[2]] PROVE FALSE
    OBVIOUS
  <2>1. 0 \in RepeatDifferences(e, p[1], p[2])
    BY DEF RepeatDifferences
  <2>2. gate.time <= 0
    BY <1>5, <2>1
  <2>3. QED
    BY <1>2, <2>2
<1>7. ASSUME NEW p \in Pairs, NEW c \in Channels, NEW s \in ObservationTimes, s <= t
      PROVE  e.trace[p[1]][c][s] = e.trace[p[2]][c][s]
  <2> SUFFICES ASSUME e.trace[p[1]][c][s] # e.trace[p[2]][c][s] PROVE FALSE
    OBVIOUS
  <2>1. s \in RepeatDifferences(e, p[1], p[2])
    BY DEF RepeatDifferences
  <2>2. gate.time <= s /\ s \in Nat
    BY <1>5, <2>1
  <2>3. QED
    BY <1>2, <1>7, <2>2
<1>8. QED
  BY <1>4, <1>6, <1>7 DEF CleanUpTo

\* What is decisive is one of the rows that prove the status.
LEMMA DecisiveIs ==
    ASSUME NEW W, \A w \in W : w.time \in Nat /\ w.channel \in Nat,
           \E w \in W : w.classification = OUTSIDE
    PROVE  FirstDecisive(OUTSIDE, W) \in W /\ FirstDecisive(OUTSIDE, W).classification = OUTSIDE
<1> DEFINE V == {w \in W : w.classification = OUTSIDE}
           T == {w.time : w \in V}
<1>1. T \in SUBSET Nat /\ T # {}
  OBVIOUS
<1>2. PICK t \in T : \A u \in T : t <= u
  <2> HIDE DEF T
  <2>1. QED
    BY <1>1, LeastElement
<1> DEFINE C == {w.channel : w \in {v \in V : v.time = t}}
<1>3. C \in SUBSET Nat /\ C # {}
  BY <1>2
<1>4. PICK c \in C : \A d \in C : c <= d
  <2> HIDE DEF C
  <2>1. QED
    BY <1>3, LeastElement
<1>5. PICK w \in V : w.time = t /\ w.channel = c
  BY <1>4
<1>6. \A v \in V : Before(w, v)
  <2> SUFFICES ASSUME NEW v \in V PROVE Before(w, v)
    OBVIOUS
  <2>1. t <= v.time /\ (v.time = t => c <= v.channel) /\ v.time \in Nat /\ t \in Nat
    BY <1>2, <1>4
  <2>2. QED
    BY <1>5, <2>1 DEF Before
<1> DEFINE P(q) == q \in V /\ \A v \in V : Before(q, v)
<1>7. P(CHOOSE q : P(q))
  BY <1>5, <1>6
<1>8. FirstDecisive(OUTSIDE, W) = CHOOSE q : P(q)
  BY <1>5 DEF FirstDecisive
<1>9. P(FirstDecisive(OUTSIDE, W))
  BY <1>7, <1>8
<1>10. QED
  BY <1>9

\* A rejection rests on an observation before the first gate.
THEOREM RejectionsHaveAWitness == Spec => []RejectionIsWitnessed
<1>1. Decided => RejectionIsWitnessed
  <2> SUFFICES ASSUME Decided, decision.exit = 40
               PROVE  /\ CleanUpTo(decision.decisive.time)
                      /\ \E o \in Observations(evidence) :
                            /\ o.channel = decision.decisive.channel /\ o.time = decision.decisive.time
                            /\ Finite(o) /\ Convergent(o)
                            /\ LowerAbs(Enclosure(o.kind, o.a, o.b)) > o.tolerance
    BY DEF RejectionIsWitnessed
  <2> DEFINE e == evidence
             r == EvaluateCase(e)
             O == Observations(e)
             gate == FoundGate(e)
             d == decision.decisive
  <2>1. IsEvidence(e) /\ Decide(e).exit = 40 /\ d = Decide(e).decisive
    BY DEF Decided
  <2>2. (\E w \in r.rows : w.classification = OUTSIDE) /\ d = FirstDecisive(OUTSIDE, r.rows)
    BY <2>1, StatusIs
  <2>3. r.rows = FoundRows(e)
    BY <2>1, <2>2, EvaluationIs
  <2>4. \A w \in FoundRows(e) : \E o \in O : o.time < gate.time /\ w = Witness(o)
    BY DEF FoundRows, AdmittedRows
  <2>5. \A o \in O : o.time \in 0 .. HORIZON /\ o.channel \in Nat
    BY <2>1, ObservationsAre
  <2>6. \A o \in O : Witness(o).time = o.time /\ Witness(o).channel = o.channel
    BY DEF Witness
  <2>7. \A w \in FoundRows(e) : w.time \in Nat /\ w.channel \in Nat
    BY <2>4, <2>5, <2>6, ClockAssumption
  <2>8. d \in FoundRows(e) /\ d.classification = OUTSIDE
    BY <2>2, <2>3, <2>7, DecisiveIs
  <2>9. PICK o \in O : o.time < gate.time /\ d = Witness(o)
    BY <2>4, <2>8
  <2>10. d.time = o.time /\ d.channel = o.channel /\ o.time \in 0 .. HORIZON
    BY <2>5, <2>6, <2>9
  <2>11. CleanUpTo(o.time)
    BY <2>9, <2>10, CleanBeforeTheGate
  <2>12. gate.time \in Nat /\ \A g \in Gates(e, O) : gate.time <= g.time
    BY <2>1, FoundGateIs
  <2>13. \A g \in Gates(e, O) : g.time # o.time
    BY <2>9, <2>10, <2>12
  <2>14. Finite(o)
    <3>1. ~Finite(o) => Gate(o.time, "SOLVER_NOT_CONVERGED") \in Gates(e, O)
      BY DEF Gates, NonfiniteGates
    <3>2. QED
      BY <2>13, <3>1 DEF Gate
  <2>15. Convergent(o)
    <3>1. ~Convergent(o) => Gate(o.time, "NON_ASYMPTOTIC_REGIME") \in Gates(e, O)
      BY <2>14 DEF Gates, ConvergenceGates
    <3>2. QED
      BY <2>13, <3>1 DEF Gate
  <2>16. Classification(Enclosure(o.kind, o.a, o.b), o.tolerance) = OUTSIDE
    BY <2>8, <2>9 DEF Witness
  <2>17. LowerAbs(Enclosure(o.kind, o.a, o.b)) > o.tolerance
    BY <2>16 DEF Classification, OUTSIDE, UNRESOLVED, WITHIN
  <2>18. QED
    BY <2>10, <2>11, <2>14, <2>15, <2>17
<1>2. QED
  BY <1>1, DecidedIsInvariant, PTL

-----------------------------------------------------------------------------
(* Exchanging the profiles                                                 *)

Other(x) == <<IF x[1] = "baseline" THEN "candidate" ELSE "baseline", x[2], x[3]>>
Swap(e) == [f \in DOMAIN e |-> [x \in Cells |-> e[f][Other(x)]]]
Flip(o) == Observation(o.kind, o.channel, o.time, o.tolerance, o.b, o.a)

LEMMA OtherIs ==
    ASSUME NEW x \in Cells
    PROVE  /\ Other(x) \in Cells /\ Other(Other(x)) = x
           /\ x = <<x[1], x[2], x[3]>> /\ x[1] \in Roles /\ x[2] \in Grids /\ x[3] \in Repeats
BY DEF Cells, Roles, Other

LEMMA SwapIs ==
    ASSUME NEW e, IsEvidence(e), NEW x \in Cells
    PROVE  /\ Swap(e).trace[x] = e.trace[Other(x)]
           /\ Swap(e).failed[x] = e.failed[Other(x)]
           /\ Swap(e).readings[x] = e.readings[Other(x)]
           /\ Swap(e).events[x] = e.events[Other(x)]
           /\ Swap(e).forces[x] = e.forces[Other(x)]
           /\ Swap(e).compiled[x] = e.compiled[Other(x)]
<1>1. DOMAIN e = {"trace", "failed", "readings", "events", "forces", "compiled"}
  BY DEF IsEvidence
<1> HIDE DEF Other, Cells
<1>2. QED
  BY <1>1 DEF Swap

LEMMA SwappedDifferences ==
    ASSUME NEW e, IsEvidence(e), NEW x \in Cells, NEW y \in Cells
    PROVE  /\ RepeatDifferences(Swap(e), x, y) = RepeatDifferences(e, Other(x), Other(y))
           /\ ContactDifference(Swap(e), x, y) = ContactDifference(e, Other(x), Other(y))
           /\ Topology(Swap(e), x) = Topology(e, Other(x))
<1> DEFINE s == Swap(e)
           u == Other(x)
           v == Other(y)
<1>1. /\ s.trace[x] = e.trace[u] /\ s.failed[x] = e.failed[u] /\ s.readings[x] = e.readings[u]
      /\ s.events[x] = e.events[u] /\ s.forces[x] = e.forces[u] /\ s.compiled[x] = e.compiled[u]
  BY SwapIs
<1>2. /\ s.trace[y] = e.trace[v] /\ s.failed[y] = e.failed[v] /\ s.readings[y] = e.readings[v]
      /\ s.events[y] = e.events[v] /\ s.forces[y] = e.forces[v] /\ s.compiled[y] = e.compiled[v]
  BY SwapIs
<1> HIDE DEF s, u, v
<1>3. ContactDifferences(s, x, y) = ContactDifferences(e, u, v)
  BY <1>1, <1>2 DEF ContactDifferences, EventTimes
<1>4. ContactDifference(s, x, y) = ContactDifference(e, u, v)
  BY <1>3 DEF ContactDifference
<1>5. RepeatDifferences(s, x, y) = RepeatDifferences(e, u, v)
  BY <1>1, <1>2, <1>3 DEF RepeatDifferences, DiagnosticDifferences
<1>6. Topology(s, x) = Topology(e, u)
  BY <1>1 DEF Topology
<1>7. QED
  BY <1>4, <1>5, <1>6 DEF s, u, v

LEMMA ContactDifferenceCommutes ==
    ASSUME NEW e, NEW x, NEW y
    PROVE  ContactDifference(e, x, y) = ContactDifference(e, y, x)
<1>1. ContactDifferences(e, x, y) = ContactDifferences(e, y, x)
  BY DEF ContactDifferences, EventTimes
<1>2. QED
  BY <1>1 DEF ContactDifference

\* The comparisons are closed under the exchange, but for their direction.
LEMMA PairsExchange ==
    /\ \A p \in Pairs : /\ p[1] \in Cells /\ p[2] \in Cells
                        /\ <<Other(p[1]), Other(p[2])>> \in Pairs
    /\ \A p \in Compared : /\ p[1] \in Cells /\ p[2] \in Cells
                           /\ \/ <<Other(p[1]), Other(p[2])>> \in Compared
                              \/ <<Other(p[2]), Other(p[1])>> \in Compared
<1>1. ASSUME NEW p \in Pairs
      PROVE  p[1] \in Cells /\ p[2] \in Cells /\ <<Other(p[1]), Other(p[2])>> \in Pairs
  <2>1. PICK r \in Roles, g \in Grids : p = <<<<r, g, 0>>, <<r, g, 1>>>>
    BY DEF Pairs
  <2> DEFINE q == IF r = "baseline" THEN "candidate" ELSE "baseline"
  <2>2. q \in Roles
    BY DEF Roles
  <2>3. Other(p[1]) = <<q, g, 0>> /\ Other(p[2]) = <<q, g, 1>>
    BY <2>1 DEF Other
  <2> HIDE DEF q
  <2>4. <<<<q, g, 0>>, <<q, g, 1>>>> \in Pairs
    BY <2>2 DEF Pairs
  <2>5. p[1] \in Cells /\ p[2] \in Cells
    BY <2>1 DEF Cells, Repeats
  <2>6. QED
    BY <2>3, <2>4, <2>5
<1>2. ASSUME NEW p \in Compared
      PROVE  /\ p[1] \in Cells /\ p[2] \in Cells
             /\ \/ <<Other(p[1]), Other(p[2])>> \in Compared
                \/ <<Other(p[2]), Other(p[1])>> \in Compared
  <2>1. CASE \E r \in Roles, g \in {2, 3} : p = <<<<r, 1, 0>>, <<r, g, 0>>>>
    <3>1. PICK r \in Roles, g \in {2, 3} : p = <<<<r, 1, 0>>, <<r, g, 0>>>>
      BY <2>1
    <3> DEFINE q == IF r = "baseline" THEN "candidate" ELSE "baseline"
    <3>2. q \in Roles
      BY DEF Roles
    <3>3. Other(p[1]) = <<q, 1, 0>> /\ Other(p[2]) = <<q, g, 0>>
      BY <3>1 DEF Other
    <3> HIDE DEF q
    <3>4. <<<<q, 1, 0>>, <<q, g, 0>>>> \in Compared
      BY <3>2 DEF Compared
    <3>5. p[1] \in Cells /\ p[2] \in Cells
      BY <3>1 DEF Cells, Repeats, Grids
    <3>6. QED
      BY <3>3, <3>4, <3>5
  <2>2. CASE \E g \in Grids : p = <<<<"baseline", g, 0>>, <<"candidate", g, 0>>>>
    <3>1. PICK g \in Grids : p = <<<<"baseline", g, 0>>, <<"candidate", g, 0>>>>
      BY <2>2
    <3>2. Other(p[2]) = p[1] /\ Other(p[1]) = p[2] /\ p = <<p[1], p[2]>>
      BY <3>1 DEF Other
    <3>3. p[1] \in Cells /\ p[2] \in Cells
      BY <3>1 DEF Cells, Repeats, Roles
    <3>4. QED
      BY <3>2, <3>3
  <2>3. QED
    BY <2>1, <2>2 DEF Compared
<1>3. QED
  BY <1>1, <1>2

LEMMA SwappedCellGates ==
    ASSUME NEW e, IsEvidence(e)
    PROVE  /\ RepeatGates(Swap(e)) = RepeatGates(e)
           /\ DiagnosticGates(Swap(e)) = DiagnosticGates(e)
           /\ TopologyGates(Swap(e)) = TopologyGates(e)
<1> DEFINE s == Swap(e)
<1>1. RepeatGates(s) = RepeatGates(e)
  <2> DEFINE A == {RepeatDifferences(s, p[1], p[2]) : p \in Pairs}
             B == {RepeatDifferences(e, p[1], p[2]) : p \in Pairs}
  <2>1. ASSUME NEW p \in Pairs
        PROVE  \E q \in Pairs : /\ RepeatDifferences(s, p[1], p[2]) = RepeatDifferences(e, q[1], q[2])
                                /\ RepeatDifferences(e, p[1], p[2]) = RepeatDifferences(s, q[1], q[2])
    <3> DEFINE q == <<Other(p[1]), Other(p[2])>>
    <3>1. p[1] \in Cells /\ p[2] \in Cells /\ q \in Pairs
      BY PairsExchange
    <3>2. q[1] = Other(p[1]) /\ q[2] = Other(p[2])
      OBVIOUS
    <3>3. q[1] \in Cells /\ q[2] \in Cells /\ Other(q[1]) = p[1] /\ Other(q[2]) = p[2]
      BY <3>1, <3>2, OtherIs
    <3>4. RepeatDifferences(s, p[1], p[2]) = RepeatDifferences(e, Other(p[1]), Other(p[2]))
      BY <3>1, SwappedDifferences
    <3>5. RepeatDifferences(s, q[1], q[2]) = RepeatDifferences(e, Other(q[1]), Other(q[2]))
      BY <3>3, SwappedDifferences
    <3> HIDE DEF s, q
    <3>6. QED
      BY <3>1, <3>2, <3>3, <3>4, <3>5
  <2> HIDE DEF s
  <2>2. A = B
    BY <2>1
  <2>3. RepeatGates(s) = {Gate(Earliest(T), "REPEATABILITY_FAILED") : T \in A \ {{}}}
        /\ RepeatGates(e) = {Gate(Earliest(T), "REPEATABILITY_FAILED") : T \in B \ {{}}}
    BY DEF RepeatGates
  <2> HIDE DEF A, B
  <2>4. QED
    BY <2>2, <2>3
<1>2. DiagnosticGates(s) = DiagnosticGates(e)
  <2>1. \A x \in Cells : s.failed[x] = e.failed[Other(x)] /\ Other(x) \in Cells /\ Other(Other(x)) = x
    BY SwapIs, OtherIs
  <2> HIDE DEF s
  <2>2. \A x \in Cells : e.failed[x] = s.failed[Other(x)]
    BY <2>1
  <2>3. \A g : g \in DiagnosticGates(s) <=>
          \E x \in Cells : s.failed[x] # Never /\ g = Gate(Previous(s.failed[x]), "SOLVER_NOT_CONVERGED")
    BY DEF DiagnosticGates
  <2>4. \A g : g \in DiagnosticGates(e) <=>
          \E x \in Cells : e.failed[x] # Never /\ g = Gate(Previous(e.failed[x]), "SOLVER_NOT_CONVERGED")
    BY DEF DiagnosticGates
  <2>5. \A g : g \in DiagnosticGates(s) <=> g \in DiagnosticGates(e)
    BY <2>1, <2>2, <2>3, <2>4
  <2>6. QED
    BY <2>5 DEF DiagnosticGates
<1>3. TopologyGates(s) = TopologyGates(e)
  <2>1. ASSUME NEW p \in Compared
        PROVE  \E q \in Compared :
                  /\ (Topology(s, p[1]) = Topology(s, p[2])) <=> (Topology(e, q[1]) = Topology(e, q[2]))
                  /\ ContactDifference(s, p[1], p[2]) = ContactDifference(e, q[1], q[2])
                  /\ (Topology(e, p[1]) = Topology(e, p[2])) <=> (Topology(s, q[1]) = Topology(s, q[2]))
                  /\ ContactDifference(e, p[1], p[2]) = ContactDifference(s, q[1], q[2])
    <3> DEFINE u == Other(p[1])
               v == Other(p[2])
    <3>1. p[1] \in Cells /\ p[2] \in Cells /\ (<<u, v>> \in Compared \/ <<v, u>> \in Compared)
      BY PairsExchange
    <3>2. u \in Cells /\ v \in Cells /\ Other(u) = p[1] /\ Other(v) = p[2]
      BY <3>1, OtherIs
    <3>3. /\ Topology(s, p[1]) = Topology(e, u) /\ Topology(s, p[2]) = Topology(e, v)
          /\ ContactDifference(s, p[1], p[2]) = ContactDifference(e, u, v)
      BY <3>1, SwappedDifferences
    <3>4. /\ Topology(s, u) = Topology(e, p[1]) /\ Topology(s, v) = Topology(e, p[2])
          /\ ContactDifference(s, u, v) = ContactDifference(e, p[1], p[2])
      BY <3>2, SwappedDifferences
    <3>5. /\ ContactDifference(e, u, v) = ContactDifference(e, v, u)
          /\ ContactDifference(s, u, v) = ContactDifference(s, v, u)
      BY ContactDifferenceCommutes
    <3> HIDE DEF s, u, v
    <3>6. CASE <<u, v>> \in Compared
      BY <3>3, <3>4, <3>6
    <3>7. CASE <<v, u>> \in Compared
      BY <3>3, <3>4, <3>5, <3>7
    <3>8. QED
      BY <3>1, <3>6, <3>7
  <2> HIDE DEF s
  <2>2. \A g : g \in TopologyGates(s) <=> g \in TopologyGates(e)
    BY <2>1 DEF TopologyGates
  <2>3. QED
    BY <2>2 DEF TopologyGates
<1>4. QED
  BY <1>1, <1>2, <1>3

LEMMA SwappedTopology ==
    ASSUME NEW e, IsEvidence(e)
    PROVE  /\ SharedTopology(Swap(e)) <=> SharedTopology(e)
           /\ SharedTopology(e) =>
                 Topology(Swap(e), <<"baseline", 1, 0>>) = Topology(e, <<"baseline", 1, 0>>)
<1> DEFINE T(r, g) == Topology(e, <<r, g, 0>>)
           U(r, g) == Topology(Swap(e), <<r, g, 0>>)
<1>1. ASSUME NEW g \in Grids PROVE U("baseline", g) = T("candidate", g) /\ U("candidate", g) = T("baseline", g)
  <2>1. <<"baseline", g, 0>> \in Cells /\ <<"candidate", g, 0>> \in Cells
    BY DEF Cells, Roles, Repeats
  <2>2. Other(<<"baseline", g, 0>>) = <<"candidate", g, 0>> /\ Other(<<"candidate", g, 0>>) = <<"baseline", g, 0>>
    BY DEF Other
  <2>3. QED
    BY <2>1, <2>2, SwappedDifferences
<1>6. SharedTopology(e) <=> \A r \in Roles, g \in Grids : T(r, g) = T("baseline", 1)
  BY DEF SharedTopology
<1>7. SharedTopology(Swap(e)) <=> \A r \in Roles, g \in Grids : U(r, g) = U("baseline", 1)
  BY DEF SharedTopology
<1> HIDE DEF T, U
<1>2. /\ SharedTopology(e) <=> \A g \in Grids : T("baseline", g) = T("baseline", 1) /\ T("candidate", g) = T("baseline", 1)
      /\ SharedTopology(Swap(e)) <=> \A g \in Grids : U("baseline", g) = U("baseline", 1) /\ U("candidate", g) = U("baseline", 1)
  BY <1>6, <1>7 DEF Roles
<1>3. 1 \in Grids
  BY DEF Grids
<1>4. SharedTopology(Swap(e)) <=> SharedTopology(e)
  BY <1>1, <1>2, <1>3
<1>5. SharedTopology(e) => U("baseline", 1) = T("baseline", 1)
  BY <1>1, <1>2, <1>3
<1>8. QED
  BY <1>4, <1>5 DEF T, U

LEMMA FlipIs ==
    ASSUME NEW k, NEW c, NEW t, NEW m, NEW a, NEW b
    PROVE  Flip(Observation(k, c, t, m, a, b)) = Observation(k, c, t, m, b, a)
BY DEF Flip, Observation

\* The other side sees the same observations, its own value first.
LEMMA SwappedRaw ==
    ASSUME NEW e, IsEvidence(e)
    PROVE  RawObservations(Swap(e)) = {Flip(o) : o \in RawObservations(e)}
<1> DEFINE s == Swap(e)
           O(d, c, t) == Observation(KindOf(c), c, t, Tolerance[c],
                                     [g \in Grids |-> d.trace[<<"baseline", g, 0>>][c][t]],
                                     [g \in Grids |-> d.trace[<<"candidate", g, 0>>][c][t]])
<1>1. \A g \in Grids : /\ s.trace[<<"baseline", g, 0>>] = e.trace[<<"candidate", g, 0>>]
                       /\ s.trace[<<"candidate", g, 0>>] = e.trace[<<"baseline", g, 0>>]
  <2> SUFFICES ASSUME NEW g \in Grids
               PROVE  /\ s.trace[<<"baseline", g, 0>>] = e.trace[<<"candidate", g, 0>>]
                      /\ s.trace[<<"candidate", g, 0>>] = e.trace[<<"baseline", g, 0>>]
    OBVIOUS
  <2>1. <<"baseline", g, 0>> \in Cells /\ <<"candidate", g, 0>> \in Cells
    BY DEF Cells, Roles, Repeats
  <2>2. Other(<<"baseline", g, 0>>) = <<"candidate", g, 0>> /\ Other(<<"candidate", g, 0>>) = <<"baseline", g, 0>>
    BY DEF Other
  <2>3. QED
    BY <2>1, <2>2, SwapIs
<1> HIDE DEF s
<1>2. \A c, t : O(s, c, t) = Flip(O(e, c, t))
  <2> SUFFICES ASSUME NEW c, NEW t PROVE O(s, c, t) = Flip(O(e, c, t))
    OBVIOUS
  <2>1. [g \in Grids |-> s.trace[<<"baseline", g, 0>>][c][t]] = [g \in Grids |-> e.trace[<<"candidate", g, 0>>][c][t]]
    BY <1>1
  <2>2. [g \in Grids |-> s.trace[<<"candidate", g, 0>>][c][t]] = [g \in Grids |-> e.trace[<<"baseline", g, 0>>][c][t]]
    BY <1>1
  <2> DEFINE a == [g \in Grids |-> e.trace[<<"baseline", g, 0>>][c][t]]
             b == [g \in Grids |-> e.trace[<<"candidate", g, 0>>][c][t]]
  <2>3. O(s, c, t) = Observation(KindOf(c), c, t, Tolerance[c], b, a)
    BY <2>1, <2>2
  <2>4. O(e, c, t) = Observation(KindOf(c), c, t, Tolerance[c], a, b)
    OBVIOUS
  <2> HIDE DEF a, b, O
  <2>5. QED
    BY <2>3, <2>4, FlipIs
<1>3. \A d : RawObservations(d) = {O(d, c, t) : c \in Channels, t \in ObservationTimes}
  BY DEF RawObservations
<1> HIDE DEF O
<1>4. QED
  BY <1>2, <1>3 DEF s

LEMMA SwappedContacts ==
    ASSUME NEW e, IsEvidence(e)
    PROVE  ContactObservations(Swap(e)) = {Flip(o) : o \in ContactObservations(e)}
<1> DEFINE s == Swap(e)
<1>1. CASE ~SharedTopology(e)
  BY <1>1, SwappedTopology DEF ContactObservations
<1>2. CASE SharedTopology(e)
  <2>1. \A g \in Grids : /\ s.events[<<"baseline", g, 0>>] = e.events[<<"candidate", g, 0>>]
                         /\ s.events[<<"candidate", g, 0>>] = e.events[<<"baseline", g, 0>>]
    <3> SUFFICES ASSUME NEW g \in Grids
                 PROVE  /\ s.events[<<"baseline", g, 0>>] = e.events[<<"candidate", g, 0>>]
                        /\ s.events[<<"candidate", g, 0>>] = e.events[<<"baseline", g, 0>>]
      OBVIOUS
    <3>1. <<"baseline", g, 0>> \in Cells /\ <<"candidate", g, 0>> \in Cells
      BY DEF Cells, Roles, Repeats
    <3>2. Other(<<"baseline", g, 0>>) = <<"candidate", g, 0>> /\ Other(<<"candidate", g, 0>>) = <<"baseline", g, 0>>
      BY DEF Other
    <3>3. QED
      BY <3>1, <3>2, SwapIs
  <2>2. SharedTopology(s) /\ Topology(s, <<"baseline", 1, 0>>) = Topology(e, <<"baseline", 1, 0>>)
    BY <1>2, SwappedTopology
  <2> HIDE DEF s
  <2>3. ASSUME NEW c, NEW i PROVE ContactObservation(s, c, i) = Flip(ContactObservation(e, c, i))
    <3> DEFINE A(d) == [g \in Grids |-> d.events[<<"baseline", g, 0>>][c][i]]
               B(d) == [g \in Grids |-> d.events[<<"candidate", g, 0>>][c][i]]
               T(a, b) == {a[g] : g \in Grids} \cup {b[g] : g \in Grids}
    <3>1. A(s) = B(e) /\ B(s) = A(e)
      BY <2>1
    <3>2. \A d : ContactObservation(d, c, i) =
                   Observation("SCALAR", c + i, Earliest(T(A(d), B(d))), Tolerance[c], A(d), B(d))
      BY DEF ContactObservation
    <3> HIDE DEF A, B
    <3>3. \A a, b : T(a, b) = T(b, a)
      OBVIOUS
    <3> HIDE DEF T
    <3>4. ContactObservation(s, c, i) =
             Observation("SCALAR", c + i, Earliest(T(A(e), B(e))), Tolerance[c], B(e), A(e))
      BY <3>1, <3>2, <3>3
    <3>5. QED
      BY <3>2, <3>4, FlipIs
  <2> DEFINE N == Topology(e, <<"baseline", 1, 0>>)
  <2>4. /\ ContactObservations(s) = UNION {{ContactObservation(s, c, i) : i \in 1 .. N[c]} : c \in Contacts}
        /\ ContactObservations(e) = UNION {{ContactObservation(e, c, i) : i \in 1 .. N[c]} : c \in Contacts}
    BY <1>2, <2>2 DEF ContactObservations
  <2> HIDE DEF N
  <2>5. QED
    BY <2>3, <2>4 DEF s
<1>3. QED
  BY <1>1, <1>2

LEMMA SwappedObservations ==
    ASSUME NEW e, IsEvidence(e)
    PROVE  Observations(Swap(e)) = {Flip(o) : o \in Observations(e)}
BY SwappedRaw, SwappedContacts DEF Observations

\* What the gates ask of an observation they ask of its mirror image.
LEMMA FlippedObservation ==
    ASSUME NEW o
    PROVE  /\ Flip(o).time = o.time
           /\ Finite(Flip(o)) <=> Finite(o)
           /\ Degenerate(Flip(o)) <=> Degenerate(o)
           /\ Convergent(Flip(o)) <=> Convergent(o)
<1>1. /\ Flip(o).a = o.b /\ Flip(o).b = o.a /\ Flip(o).kind = o.kind /\ Flip(o).time = o.time
  BY DEF Flip, Observation
<1> DEFINE f == Flip(o)
<1> HIDE DEF f
<1>2. f.a = o.b /\ f.b = o.a /\ f.kind = o.kind /\ f.time = o.time
  BY <1>1 DEF f
<1>3. Finite(f) <=> Finite(o)
  BY <1>2 DEF Finite
<1>4. Degenerate(f) <=> Degenerate(o)
  BY <1>2 DEF Degenerate
<1>5. Convergent(f) <=> Convergent(o)
  BY <1>2 DEF Convergent
<1>6. QED
  BY <1>2, <1>3, <1>4, <1>5 DEF f

LEMMA SwappedGates ==
    ASSUME NEW e, IsEvidence(e)
    PROVE  /\ Gates(Swap(e), Observations(Swap(e))) = Gates(e, Observations(e))
           /\ Evaluable(Swap(e)) <=> Evaluable(e)
<1> DEFINE O == Observations(e)
           F == {Flip(o) : o \in O}
<1>1. Observations(Swap(e)) = F
  BY SwappedObservations
<1>2. \A o \in O : /\ Flip(o).time = o.time
                   /\ Finite(Flip(o)) <=> Finite(o)
                   /\ Degenerate(Flip(o)) <=> Degenerate(o)
                   /\ Convergent(Flip(o)) <=> Convergent(o)
  BY FlippedObservation
<1> HIDE DEF O
<1>3. NonfiniteGates(F) = NonfiniteGates(O)
  <2>1. \A g : g \in NonfiniteGates(F) <=> \E o \in O : ~Finite(Flip(o)) /\ g = Gate(Flip(o).time, "SOLVER_NOT_CONVERGED")
    BY DEF NonfiniteGates
  <2>2. \A g : g \in NonfiniteGates(O) <=> \E o \in O : ~Finite(o) /\ g = Gate(o.time, "SOLVER_NOT_CONVERGED")
    BY DEF NonfiniteGates
  <2>3. \A g : g \in NonfiniteGates(F) <=> g \in NonfiniteGates(O)
    BY <1>2, <2>1, <2>2
  <2>4. QED
    BY <2>3 DEF NonfiniteGates
<1>4. ConvergenceGates(F) = ConvergenceGates(O)
  <2>1. \A g : g \in ConvergenceGates(F) <=>
          \E o \in O : Finite(Flip(o)) /\ ~Convergent(Flip(o)) /\ g = Gate(Flip(o).time, "NON_ASYMPTOTIC_REGIME")
    BY DEF ConvergenceGates
  <2>2. \A g : g \in ConvergenceGates(O) <=>
          \E o \in O : Finite(o) /\ ~Convergent(o) /\ g = Gate(o.time, "NON_ASYMPTOTIC_REGIME")
    BY DEF ConvergenceGates
  <2>3. \A g : g \in ConvergenceGates(F) <=> g \in ConvergenceGates(O)
    BY <1>2, <2>1, <2>2
  <2>4. QED
    BY <2>3 DEF ConvergenceGates
<1>5. (\A o \in F : Finite(o) => ~Degenerate(o)) <=> (\A o \in O : Finite(o) => ~Degenerate(o))
  BY <1>2
<1>6. Evaluable(Swap(e)) <=> Evaluable(e)
  BY <1>1, <1>5 DEF Evaluable, O
<1> HIDE DEF F
<1>7. Gates(Swap(e), F) = Gates(e, O)
  BY <1>3, <1>4, SwappedCellGates DEF Gates
<1>8. QED
  BY <1>1, <1>6, <1>7 DEF O

LEMMA ApartIs ==
    ASSUME NEW k \in Kinds, NEW x \in Int, NEW y \in Int
    PROVE  Apart(k, x, y) \in Int /\ Apart(k, x, y) = Apart(k, y, x)
BY UnitAssumption DEF Apart, RotationAngle, Magnitude, Least

\* An interval and its mirror image are equally far from zero, and reach equally far.
LEMMA MirrorIsNeutral ==
    ASSUME NEW l \in Int, NEW u \in Int
    PROVE  /\ UpperAbs(Interval(-u, -l)) = UpperAbs(Interval(l, u))
           /\ LowerAbs(Interval(-u, -l)) = LowerAbs(Interval(l, u))
BY DEF UpperAbs, LowerAbs, Interval, Magnitude, Greatest, Least

LEMMA EnclosureIsNeutral ==
    ASSUME NEW k \in Kinds, NEW a, NEW b, \A g \in Grids : a[g] \in Int /\ b[g] \in Int
    PROVE  /\ UpperAbs(Enclosure(k, a, b)) = UpperAbs(Enclosure(k, b, a))
           /\ LowerAbs(Enclosure(k, a, b)) = LowerAbs(Enclosure(k, b, a))
<1>1. a[2] \in Int /\ a[3] \in Int /\ b[2] \in Int /\ b[3] \in Int /\ Ulp \in Int /\ EPSILON_NUM \in Int
  BY UnitAssumption DEF Grids
<1>2. Uncertainty(k, a) \in Int /\ Uncertainty(k, b) \in Int
  <2>1. Second(k, a) \in Int /\ Second(k, b) \in Int
    BY <1>1, ApartIs DEF Second
  <2>2. QED
    BY <1>1, <2>1 DEF Uncertainty
<1>3. CASE k = "SCALAR"
  <2> DEFINE A == Uncertainty("SCALAR", a)
             B == Uncertainty("SCALAR", b)
             x == a[3]
             y == b[3]
             l == y - B - Ulp - (x + A + Ulp) - Ulp
             u == y + B + Ulp - (x - A - Ulp) + Ulp
  <2>1. A \in Int /\ B \in Int /\ x \in Int /\ y \in Int
    BY <1>1, <1>2, <1>3
  <2>2. /\ TailInterval(a) = [lower |-> x - A - Ulp, upper |-> x + A + Ulp]
        /\ TailInterval(b) = [lower |-> y - B - Ulp, upper |-> y + B + Ulp]
    BY DEF TailInterval, Outward, Interval
  <2> HIDE DEF A, B, x, y
  <2>9. \A i, j : Difference(j, i) = Interval(j.lower - i.upper - Ulp, j.upper - i.lower + Ulp)
    BY DEF Difference, Outward, Interval
  <2>10. /\ TailInterval(a).lower = x - A - Ulp /\ TailInterval(a).upper = x + A + Ulp
         /\ TailInterval(b).lower = y - B - Ulp /\ TailInterval(b).upper = y + B + Ulp
    BY <2>2
  <2>3. Difference(TailInterval(b), TailInterval(a)) = Interval(l, u)
    BY <1>1, <2>1, <2>9, <2>10
  <2>4. Difference(TailInterval(a), TailInterval(b)) =
          Interval(x - A - Ulp - (y + B + Ulp) - Ulp, x + A + Ulp - (y - B - Ulp) + Ulp)
    BY <1>1, <2>1, <2>9, <2>10
  <2>5. l \in Int /\ u \in Int
    BY <1>1, <2>1
  <2>6. x - A - Ulp - (y + B + Ulp) - Ulp = -u /\ x + A + Ulp - (y - B - Ulp) + Ulp = -l
    BY <1>1, <2>1
  <2> HIDE DEF l, u
  <2>7. Enclosure(k, a, b) = Interval(l, u) /\ Enclosure(k, b, a) = Interval(-u, -l)
    BY <1>3, <2>3, <2>4, <2>6 DEF Enclosure
  <2>8. QED
    BY <2>5, <2>7, MirrorIsNeutral
<1>4. CASE k = "ORIENTATION"
  <2>1. RotationAngle(a[3], b[3]) = RotationAngle(b[3], a[3])
    BY <1>1, ApartIs DEF Apart, Kinds
  <2>2. Uncertainty(k, a) + Uncertainty(k, b) = Uncertainty(k, b) + Uncertainty(k, a)
    BY <1>2
  <2>3. OrientationInterval(a, b) = OrientationInterval(b, a)
    BY <1>4, <2>1, <2>2 DEF OrientationInterval
  <2>4. QED
    BY <1>4, <2>3 DEF Enclosure
<1>5. QED
  BY <1>3, <1>4 DEF Kinds

\* A row before the first gate is the same from either side.
LEMMA SwappedRows ==
    ASSUME NEW e, IsEvidence(e), Evaluable(e)
    PROVE  FoundRows(Swap(e)) = FoundRows(e)
<1> DEFINE O == Observations(e)
           G == Gates(e, O)
           gate == FoundGate(e)
<1>1. FoundGate(Swap(e)) = gate
  BY SwappedGates DEF FoundGate
<1>2. gate.time \in Nat /\ \A g \in G : gate.time <= g.time
  BY FoundGateIs
<1>3. ASSUME NEW o \in O, o.time < gate.time PROVE Witness(Flip(o)) = Witness(o)
  <2>1. /\ o.time \in 0 .. HORIZON /\ o.kind \in Kinds
        /\ \A g \in Grids : o.a[g] \in Values /\ o.b[g] \in Values
    BY ObservationsAre
  <2>2. \A g \in G : g.time # o.time
    BY <1>2, <1>3, <2>1
  <2>3. Finite(o)
    <3>1. ~Finite(o) => Gate(o.time, "SOLVER_NOT_CONVERGED") \in G
      BY DEF Gates, NonfiniteGates
    <3>2. QED
      BY <2>2, <3>1 DEF Gate
  <2>4. ~Degenerate(o)
    BY <2>3 DEF Evaluable
  <2>5. \A g \in Grids : o.a[g] \in Int /\ o.b[g] \in Int
    BY <2>1, <2>3, <2>4 DEF Finite, Degenerate, Values
  <2> DEFINE i == Enclosure(o.kind, o.a, o.b)
             j == Enclosure(o.kind, o.b, o.a)
  <2>6. UpperAbs(i) = UpperAbs(j) /\ LowerAbs(i) = LowerAbs(j)
    BY <2>1, <2>5, EnclosureIsNeutral
  <2>7. /\ Flip(o).a = o.b /\ Flip(o).b = o.a /\ Flip(o).kind = o.kind /\ Flip(o).time = o.time
        /\ Flip(o).channel = o.channel /\ Flip(o).tolerance = o.tolerance
    BY DEF Flip, Observation
  <2>8. /\ Witness(o) = [channel |-> o.channel, time |-> o.time, tolerance |-> o.tolerance, upper |-> UpperAbs(i),
                         classification |-> Classification(i, o.tolerance)]
        /\ Witness(Flip(o)) = [channel |-> o.channel, time |-> o.time, tolerance |-> o.tolerance, upper |-> UpperAbs(j),
                               classification |-> Classification(j, o.tolerance)]
    BY <2>7 DEF Witness
  <2> HIDE DEF i, j
  <2>9. Classification(i, o.tolerance) = Classification(j, o.tolerance)
    BY <2>6 DEF Classification
  <2>10. QED
    BY <2>6, <2>8, <2>9
<1>4. \A o \in O : Flip(o).time = o.time
  BY FlippedObservation
<1>5. Observations(Swap(e)) = {Flip(o) : o \in O}
  BY SwappedObservations
<1> HIDE DEF O, gate
<1>6. /\ FoundRows(Swap(e)) = {Witness(o) : o \in {p \in {Flip(q) : q \in O} : p.time < gate.time}}
      /\ FoundRows(e) = {Witness(o) : o \in {p \in O : p.time < gate.time}}
  BY <1>1, <1>5 DEF FoundRows, AdmittedRows, O, gate
<1>7. \A w : w \in FoundRows(Swap(e)) <=> \E o \in O : Flip(o).time < gate.time /\ w = Witness(Flip(o))
  BY <1>6
<1>8. \A w : w \in FoundRows(e) <=> \E o \in O : o.time < gate.time /\ w = Witness(o)
  BY <1>6
<1>9. \A w : w \in FoundRows(Swap(e)) <=> w \in FoundRows(e)
  BY <1>3, <1>4, <1>7, <1>8
<1>10. QED
  BY <1>6, <1>9

\* The whole decision, its witnesses included, is the same whichever side is called the baseline.
THEOREM ProfilesAreInterchangeable == Spec => []SwapIsNeutral
<1>1. Decided => SwapIsNeutral
  <2> SUFFICES ASSUME Decided PROVE Decide(Swapped) = decision
    BY DEF SwapIsNeutral
  <2> DEFINE e == evidence
  <2>1. IsEvidence(e) /\ decision = Decide(e)
    BY DEF Decided
  <2>2. Swapped = Swap(e)
    BY DEF Swapped, Swap, Other
  <2>3. Evaluable(Swap(e)) <=> Evaluable(e)
    BY <2>1, SwappedGates
  <2>4. FoundGate(Swap(e)) = FoundGate(e)
    BY <2>1, SwappedGates DEF FoundGate
  <2>5. Evaluable(e) => FoundRows(Swap(e)) = FoundRows(e)
    BY <2>1, SwappedRows
  <2> HIDE DEF e
  <2>6. EvaluateCase(Swap(e)) = EvaluateCase(e)
    BY <2>3, <2>4, <2>5, EvaluationFrom
  <2>7. Decide(Swap(e)) = Decide(e)
    BY <2>6 DEF Decide
  <2>8. QED
    BY <2>1, <2>2, <2>7
<1>2. QED
  BY <1>1, DecidedIsInvariant, PTL

=============================================================================
