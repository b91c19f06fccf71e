---------------------------- MODULE TailEnvelope ----------------------------
(***************************************************************************)
(* The conditional tail envelope of _native_upgrade.py: what one profile's *)
(* values on three simulation grids (coarse, fine, finest) say about the   *)
(* value it converges to, and what two such enclosures say about a         *)
(* tolerance.                                                              *)
(*                                                                         *)
(* Numbers are integers of one small unit: the code divides a scalar by    *)
(* its scale first, and its binary64 rounding is outward (Ulp >= 0 widens  *)
(* every interval; 0 is exact arithmetic).  RHO_MAX is 3/4, so the factor  *)
(* RHO_MAX / (1 - RHO_MAX) of the code is 3.  A rotation is a position on  *)
(* a circle of 2 * Pi units, that is a rotation about one axis, of which   *)
(* the two unit quaternions are not told apart.                            *)
(***************************************************************************)
EXTENDS Integers

CONSTANTS EPSILON_NUM, Ulp, Pi

ASSUME UnitAssumption == EPSILON_NUM \in Nat /\ Ulp \in Nat /\ Pi \in Nat \ {0}

Kinds == {"SCALAR", "ORIENTATION"}
WITHIN == "WITHIN_DECLARED_MIGRATION_ENVELOPE"
OUTSIDE == "OUTSIDE_DECLARED_MIGRATION_ENVELOPE"
UNRESOLVED == "UNRESOLVED_NEAR_BOUNDARY"

Least(x, y) == IF x <= y THEN x ELSE y
Greatest(x, y) == IF x >= y THEN x ELSE y
Magnitude(x) == IF x >= 0 THEN x ELSE -x

Positions(kind) == IF kind = "SCALAR" THEN Int ELSE 0 .. 2 * Pi - 1

\* Scalars differ by their distance, rotations by the shorter way round.
RotationAngle(x, y) == Least(Magnitude(x - y), 2 * Pi - Magnitude(x - y))
Apart(kind, x, y) == IF kind = "SCALAR" THEN Magnitude(x - y) ELSE RotationAngle(x, y)

\* A profile is its three grid values.
First(kind, p) == Apart(kind, p[2], p[1])
Second(kind, p) == Apart(kind, p[3], p[2])
Stable(kind, p) == First(kind, p) <= EPSILON_NUM /\ Second(kind, p) <= EPSILON_NUM
Asymptotic(kind, p) == Stable(kind, p) \/ 4 * Second(kind, p) <= 3 * First(kind, p)

UncertaintyMutant(kind, p) == EPSILON_NUM + Second(kind, p)
Uncertainty(kind, p) == EPSILON_NUM + 3 * Second(kind, p)

Interval(l, u) == [lower |-> l, upper |-> u]
Outward(i) == Interval(i.lower - Ulp, i.upper + Ulp)

TailInterval(p) == Outward(Interval(p[3] - Uncertainty("SCALAR", p), p[3] + Uncertainty("SCALAR", p)))

Difference(b, a) == Outward(Interval(b.lower - a.upper, b.upper - a.lower))

Clipped(i) == Interval(Greatest(0, i.lower), Least(Pi, i.upper))
OrientationInterval(a, b) ==
    LET center == RotationAngle(a[3], b[3])
        radius == Uncertainty("ORIENTATION", a) + Uncertainty("ORIENTATION", b)
    IN  Clipped(Outward(Clipped(Interval(center - radius, center + radius))))

\* The interval of the difference of two admitted profiles.
Enclosure(kind, a, b) ==
    IF kind = "SCALAR" THEN Difference(TailInterval(b), TailInterval(a))
    ELSE OrientationInterval(a, b)

LowerAbs(i) == IF i.lower <= 0 /\ 0 <= i.upper THEN 0
               ELSE Least(Magnitude(i.lower), Magnitude(i.upper))
UpperAbs(i) == Greatest(Magnitude(i.lower), Magnitude(i.upper))

ClassifyMutant(i, tolerance) ==
    IF UpperAbs(i) <= tolerance THEN WITHIN
    ELSE IF UpperAbs(i) > tolerance THEN OUTSIDE ELSE UNRESOLVED
Classification(i, tolerance) ==
    IF UpperAbs(i) <= tolerance THEN WITHIN
    ELSE IF LowerAbs(i) > tolerance THEN OUTSIDE ELSE UNRESOLVED
=============================================================================
