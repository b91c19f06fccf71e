----------------------------- MODULE RoutePlan -----------------------------
(***************************************************************************)
(* The route of the finger to a face of the block: the four-face planner   *)
(* of src/metrifid/repair/_controller.py (_plan_route_four_faces and its   *)
(* helpers).                                                               *)
(*                                                                         *)
(* The plane is the integer lattice in the frame of the block's sampled    *)
(* pose; its axes are parallel to the rails, so the block is turned by a   *)
(* multiple of a right angle.  The tolerances of the code (1e-10 and less) *)
(* only absorb rounding and are zero here.  A route is its sequence of     *)
(* points; of the feasible candidates the code takes a shortest one, the   *)
(* model any of them.                                                      *)
(***************************************************************************)
EXTENDS Integers, Sequences, FiniteSets, SequencesExt

CONSTANTS
    Half,        \* half sizes of the block, per axis
    Radius,      \* radius of the finger
    Clearance,   \* distance kept in transit
    Penetration, \* deepest contact the physics admits
    Extent       \* how far from the centre of a face an approach may aim, per axis

Axes2 == {1, 2}
Points == Int \X Int
Faces == Axes2 \X {-1, 1}

ASSUME BlockAssumption ==
    /\ Half \in (Nat \ {0}) \X (Nat \ {0}) /\ Extent \in Nat \X Nat
    /\ \A i \in Axes2 : Extent[i] <= Half[i]
    /\ Radius \in Nat \ {0} /\ Clearance \in Nat \ {0} /\ Penetration \in 0 .. Radius

\* Where a planner's problem comes from: what the controller observes at a stroke boundary.
Problem == [finger : Points, reference : Points, face : Faces, aim : Int,
            low : Points, high : Points]

Physical == [i \in Axes2 |-> Half[i] + Radius]
Inflated == [i \in Axes2 |-> Half[i] + Radius + Clearance]

Absolute(n) == IF n < 0 THEN -n ELSE n
Clipped(n, bound) == IF n < -bound THEN -bound ELSE IF n > bound THEN bound ELSE n
Greatest(m, n) == IF m > n THEN m ELSE n
Least(m, n) == IF m < n THEN m ELSE n
Squared(p, q) == (q[1] - p[1]) * (q[1] - p[1]) + (q[2] - p[2]) * (q[2] - p[2])

\* _box_intersection: the segment meets the open rectangle (no axis of theirs separates them).
Meets(p, q, half) ==
    /\ \A i \in Axes2 : Greatest(p[i], q[i]) > -half[i] /\ Least(p[i], q[i]) < half[i]
    /\ p # q => Absolute(p[1] * q[2] - p[2] * q[1]) <
                    half[1] * Absolute(q[2] - p[2]) + half[2] * Absolute(q[1] - p[1])

\* _static_clear: both ends are between the rails; its radius and clearance are not used.
StaticClear(prob, p, q) ==
    \A i \in Axes2 : {p[i], q[i]} \subseteq prob.low[i] .. prob.high[i]
ClearTransit(prob, p, q) == ~Meets(p, q, Inflated) /\ StaticClear(prob, p, q)

\* approach_geometry: the point on the aimed face, moved outwards along its normal.
OnFace(prob, distance) ==
    [i \in Axes2 |-> IF i = prob.face[1] THEN prob.face[2] * (Half[i] + distance)
                     ELSE Clipped(prob.aim, Extent[i])]
Contact(prob) == OnFace(prob, Radius)
Outer(prob) == OnFace(prob, Radius + Clearance)

\* The finger, projected outwards on the inflated rectangle's side.
Anchor(prob, side) ==
    [i \in Axes2 |-> IF i = side[1] THEN side[2] * Inflated[i]
                     ELSE Clipped(prob.finger[i], Inflated[i])]

-----------------------------------------------------------------------------
(* Round the inflated rectangle                                            *)

Around == 4 * (Inflated[1] + Inflated[2])
PerimeterCoordinate(p) ==
    LET hx == Inflated[1]
        hy == Inflated[2]
    IN  IF p[2] = -hy THEN p[1] + hx
        ELSE IF p[1] = hx THEN 2 * hx + p[2] + hy
        ELSE IF p[2] = hy THEN 4 * hx + 2 * hy - p[1] - hx
        ELSE (4 * hx + 4 * hy - (p[2] + hy)) % Around
Distance(p, q, direction) ==
    (direction * (PerimeterCoordinate(q) - PerimeterCoordinate(p))) % Around
Corners == {<<x, y>> : x \in {-Inflated[1], Inflated[1]}, y \in {-Inflated[2], Inflated[2]}}

\* _perimeter_points: the corners passed on the way from the anchor to the outer point.
PerimeterPoints(start, end, direction) ==
    LET passed == {c \in Corners : /\ Distance(start, c, direction) > 0
                                   /\ Distance(start, c, direction) < Distance(start, end, direction)}
        nearer(c) == {d \in passed : Distance(start, d, direction) < Distance(start, c, direction)}
        ordered == [i \in 1 .. Cardinality(passed) |->
                       CHOOSE c \in passed : Cardinality(nearer(c)) = i - 1]
    IN  <<start>> \o ordered \o <<end>>

-----------------------------------------------------------------------------
(* One candidate: an exit side and a direction                             *)

InsideInflation(prob) == \A i \in Axes2 : Absolute(prob.finger[i]) < Inflated[i]

\* _outward_retraction_clear: leave the block straight outwards from a shallow contact.
OutwardRetraction(p, q) ==
    \/ ~Meets(p, q, Physical)
    \/ /\ \A i \in Axes2 : Absolute(p[i]) < Physical[i]
       /\ \E i \in Axes2 :
             LET sign == IF p[i] >= 0 THEN 1 ELSE -1
                 depth == Physical[i] - sign * p[i]
                 outward == sign * (q[i] - p[i])
             IN  depth <= Penetration /\ outward > 0 /\ outward >= depth

\* Greedy shortcuts: from each point to the farthest one in clear transit, else to the next.
Shortened(prob, points) ==
    LET Clear(k) == {j \in k + 1 .. Len(points) : ClearTransit(prob, points[k], points[j])}
        short[k \in DOMAIN points] ==
            IF k = Len(points) THEN <<points[k]>>
            ELSE <<points[k]>> \o short[IF Clear(k) = {} THEN k + 1
                                        ELSE CHOOSE j \in Clear(k) : \A i \in Clear(k) : i <= j]
    IN  short[1]

\* The points without immediate repetitions.
Compact(points) ==
    LET kept[i \in 0 .. Len(points)] ==
            IF i = 0 THEN << >>
            ELSE IF i > 1 /\ Last(kept[i - 1]) = points[i] THEN kept[i - 1]
            ELSE Append(kept[i - 1], points[i])
    IN  kept[Len(points)]

Candidate(prob, side, direction) ==
    LET around == PerimeterPoints(Anchor(prob, side), Outer(prob), direction)
        short == Shortened(prob, IF InsideInflation(prob) THEN around ELSE <<prob.finger>> \o around)
        legs == (IF InsideInflation(prob) THEN <<prob.finger>> ELSE <<>>) \o short
                \o <<Contact(prob)>>
    IN  [short |-> short, side |-> side, route |-> Compact(<<prob.reference>> \o legs)]

\* The connector from the reference to the finger is only held to the rails.
CommonClear(prob) ==
    /\ StaticClear(prob, prob.reference, prob.finger)
    /\ StaticClear(prob, Outer(prob), Contact(prob))
    /\ ~Meets(Outer(prob), Contact(prob), Physical)

FeasibleMutant(prob, c) ==
    /\ CommonClear(prob)
    /\ StaticClear(prob, prob.finger, Anchor(prob, c.side))
    /\ OutwardRetraction(prob.finger, Anchor(prob, c.side))
Feasible(prob, c) ==
    /\ CommonClear(prob)
    /\ StaticClear(prob, prob.finger, Anchor(prob, c.side))
    /\ OutwardRetraction(prob.finger, Anchor(prob, c.side))
    /\ \A k \in 1 .. Len(c.short) - 1 : ClearTransit(prob, c.short[k], c.short[k + 1])

\* _plan_route_four_faces: four outward sides, both ways round.
Routes(prob) ==
    LET candidates == {Candidate(prob, side, direction) : side \in Faces, direction \in {-1, 1}}
    IN  {c.route : c \in {d \in candidates : Feasible(prob, d)}}
=============================================================================
