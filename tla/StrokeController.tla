-------------------------- MODULE StrokeController --------------------------
(***************************************************************************)
(* The timed three-stroke controller of one episode,                       *)
(* src/metrifid/repair/_controller.py: decode_schedule and                 *)
(* StrokeController.update, which the episode calls once per control       *)
(* period with what it observes of the finger and the block.               *)
(*                                                                         *)
(* Time is counted in control periods.  The reference moves on straight    *)
(* legs at bounded speed, so a leg of a route is the number of periods it  *)
(* takes and a push the distance that is left of it.  Each stroke plans in *)
(* the frame of the block it observes at its start: the physics moves      *)
(* finger and block between two strokes as it likes, within Problems, and  *)
(* the finger follows the reference as closely as it likes.                *)
(***************************************************************************)
EXTENDS RoutePlan

CONSTANTS
    Reach,       \* distance the reference covers in one control period (0.12 m/s)
    Period,      \* the control period, in the unit of the durations (0.02 s)
    Shortest,    \* the shortest raw duration of a stroke (0.20 s)
    Stretch,     \* what its parameter adds to it at most (2.0 s)
    MotionCap,   \* time for the three strokes together (3.74 s)
    HoldStart,   \* first control period of the final hold (3.8 s)
    LastPeriod,  \* last control period of the episode (4.0 s)
    Timings,     \* the raw durations that are submitted, three each
    Problems,    \* what may be observed at a stroke boundary
    Pushes       \* [axis, sign, length]: the decoded pushes

ASSUME TimeAssumption ==
    /\ {Reach, Period, Shortest, MotionCap} \subseteq Nat \ {0} /\ Stretch \in Nat
    /\ HoldStart * Period > MotionCap /\ {HoldStart, LastPeriod} \subseteq Nat /\ HoldStart < LastPeriod
    /\ Timings \subseteq [1 .. 3 -> Shortest .. Shortest + Stretch]
    \* a stroke lasts a whole period, also the shortest one scaled down with the two longest
    /\ Period <= Shortest
    /\ Shortest * MotionCap >= Period * (3 * Shortest + 2 * Stretch)
ASSUME ObservationAssumption ==
    /\ Problems \subseteq Problem
    /\ Pushes \subseteq [axis : Axes2, sign : {-1, 1}, length : Nat]

VARIABLES
    raw,      \* the submitted durations
    tick,     \* control periods since the start of the episode
    stroke,   \* _stroke, 0 before the first
    problem,  \* what was observed when it started
    route,    \* its waypoints, empty when it is blocked
    waypoint, \* index of the waypoint the reference is heading for
    moved,    \* periods the reference has moved on that leg
    mode,     \* "idle", "route", "blocked", "push" or "hold"
    push,     \* the decoded push with the distance left and the distance executed
    moving,   \* the reference velocity of this period is not zero
    rows      \* the summaries of the strokes that ended

plan == <<problem, route, waypoint, moved>>
controller == <<raw, tick, stroke, plan, mode, push, moving, rows>>

-----------------------------------------------------------------------------
(* decode_schedule                                                         *)

Sum3 == raw[1] + raw[2] + raw[3]
UnscaledMutant(k) ==
    LET whole == (IF k = 1 THEN raw[1] ELSE IF k = 2 THEN raw[1] + raw[2] ELSE Sum3)
    IN  whole \div Period
\* Durations are scaled together, then the cumulated deadline is floored to the grid once.
Deadline(k) ==
    LET whole == (IF k = 1 THEN raw[1] ELSE IF k = 2 THEN raw[1] + raw[2] ELSE Sum3)
    IN  IF Sum3 > MotionCap THEN (whole * MotionCap) \div (Sum3 * Period) ELSE whole \div Period

\* The stroke of a control period: the deadlines that are not after it.
StrokeAt(t) == Least(3, 1 + Cardinality({k \in 1 .. 3 : Deadline(k) <= t}))

-----------------------------------------------------------------------------
(* Legs                                                                    *)

LegPeriods(p, q) == CHOOSE n \in 0 .. Squared(p, q) :
    /\ n * n * Reach * Reach >= Squared(p, q)
    /\ n > 0 => (n - 1) * (n - 1) * Reach * Reach < Squared(p, q)
Leg == LegPeriods(route[waypoint - 1], route[waypoint])
LastWaypoint == waypoint = Len(route)

-----------------------------------------------------------------------------
(* The handlers of update                                                  *)

Reset ==
    /\ raw \in Timings
    /\ tick = 0 /\ stroke = 0
    /\ problem \in Problems
    /\ route = << >> /\ waypoint = 0 /\ moved = 0
    /\ mode = "idle" /\ push = [left |-> 0, capped |-> 0, executed |-> 0]
    /\ moving = FALSE /\ rows = << >>

\* _finish: what is still pending has timed out; a push is complete if nothing of it is left.
Summary(left, executed) ==
    [arrival |-> CASE mode = "route" -> "timeout" [] mode = "blocked" -> "blocked"
                   [] OTHER -> "arrived",
     complete |-> mode = "push" /\ left = 0,
     missing |-> push.capped - executed]

\* The reference has moved since the last update: a leg or the push advances.
Gone == IF moving /\ mode = "push" THEN Least(Reach, push.left) ELSE 0
Advanced == IF moving /\ mode = "route" THEN moved + 1 ELSE moved
Left == push.left - Gone
Executed == push.executed + Gone

RemainingMutant == Deadline(stroke) - tick + 1
Remaining == Deadline(stroke) - tick

\* The reference on the last leg, which runs along the normal of the approached face.
OnLastLeg ==
    [i \in Axes2 |-> LET d == route[waypoint][i] - route[waypoint - 1][i]
                     IN  route[waypoint - 1][i] + Clipped(d, Advanced * Reach)]

\* How far a push may go before the reference meets its bounds.
Room(at, way) == IF way.sign > 0 THEN problem.high[way.axis] - at[way.axis]
                 ELSE at[way.axis] - problem.low[way.axis]

\* _begin_push: the length is capped by the time that is left and by the bounds.
BeginPush(at) ==
    \E way \in Pushes :
        LET length == Least(Least(way.length, Reach * Remaining), Greatest(0, Room(at, way)))
        IN  /\ push' = [left |-> length, capped |-> length, executed |-> 0]
            /\ mode' = "push" /\ moving' = (length > 0)

\* What the planner answers to every observation.
Planned == [observed \in Problems |-> Routes(observed)]

\* _start: the previous stroke is summarised and a route is planned from what is observed.
Start ==
    /\ tick < Deadline(3) /\ StrokeAt(tick) # stroke
    /\ stroke' = StrokeAt(tick)
    /\ rows' = IF stroke = 0 THEN rows ELSE Append(rows, Summary(Left, Executed))
    /\ problem' \in Problems
    /\ push' = [left |-> 0, capped |-> 0, executed |-> 0]
    /\ moved' = 0
    /\ IF Planned[problem'] = {}
       THEN route' = << >> /\ waypoint' = 0 /\ mode' = "blocked" /\ moving' = FALSE
       ELSE route' \in Planned[problem'] /\ waypoint' = 2 /\ mode' = "route" /\ moving' = TRUE
    /\ tick' = tick + 1
    /\ UNCHANGED raw

\* The reference goes on along its leg, or waits at its end for the finger.
Follow ==
    /\ tick < Deadline(3) /\ StrokeAt(tick) = stroke /\ mode = "route"
    /\ moved' = Advanced
    /\ moving' = (Advanced < Leg)
    /\ tick' = tick + 1
    /\ UNCHANGED <<raw, stroke, problem, route, waypoint, mode, push, rows>>

\* Reference and finger are both at the waypoint: head for the next one.
NextWaypoint ==
    /\ tick < Deadline(3) /\ StrokeAt(tick) = stroke /\ mode = "route"
    /\ ~LastWaypoint /\ Advanced = Leg
    /\ waypoint' = waypoint + 1 /\ moved' = 0 /\ moving' = TRUE
    /\ tick' = tick + 1
    /\ UNCHANGED <<raw, stroke, problem, route, mode, push, rows>>

\* The finger is at the approach while the reference heads for it: the push begins.
Arrive ==
    /\ tick < Deadline(3) /\ StrokeAt(tick) = stroke /\ mode = "route" /\ LastWaypoint
    /\ moved' = Advanced
    /\ BeginPush(OnLastLeg)
    /\ tick' = tick + 1
    /\ UNCHANGED <<raw, stroke, problem, route, waypoint, rows>>

Push ==
    /\ tick < Deadline(3) /\ StrokeAt(tick) = stroke /\ mode = "push"
    /\ push' = [push EXCEPT !.left = Left, !.executed = Executed]
    /\ moving' = (Left > 0)
    /\ tick' = tick + 1
    /\ UNCHANGED <<raw, stroke, plan, mode, rows>>

Blocked ==
    /\ tick < Deadline(3) /\ StrokeAt(tick) = stroke /\ mode = "blocked"
    /\ tick' = tick + 1
    /\ UNCHANGED <<raw, stroke, plan, mode, push, moving, rows>>

\* From the last deadline on the reference is frozen.
Freeze ==
    /\ Deadline(3) <= tick /\ tick <= LastPeriod
    /\ rows' = IF mode = "hold" THEN rows ELSE Append(rows, Summary(Left, Executed))
    /\ push' = [push EXCEPT !.left = Left, !.executed = Executed]
    /\ mode' = "hold" /\ moving' = FALSE
    /\ tick' = tick + 1
    /\ UNCHANGED <<raw, stroke, plan>>

Update == Start \/ Follow \/ NextWaypoint \/ Arrive \/ Push \/ Blocked \/ Freeze
ControllerSpec == Reset /\ [][Update]_controller

-----------------------------------------------------------------------------
(* Properties                                                              *)

\* The length of a push is capped by the time left when it begins, so every push of a stroke
\* that arrived is executed in full at its deadline, however late the finger arrived.
ArrivedMeansPushed ==
    \A k \in DOMAIN rows :
        rows[k].arrival = "arrived" => rows[k].complete /\ rows[k].missing = 0

\* Scaling and flooring leave every stroke a slot of its own, the three strokes run once each in
\* their order, and the reference is stationary before the final hold begins and until its end.
HoldIsStationary ==
    /\ 0 < Deadline(1) /\ Deadline(1) < Deadline(2) /\ Deadline(2) < Deadline(3)
    /\ stroke > 0 => Len(rows) = IF mode = "hold" THEN 3 ELSE stroke - 1
    /\ tick > HoldStart => mode = "hold" /\ ~moving

BetweenRails(p) == \A i \in Axes2 : p[i] \in problem.low[i] .. problem.high[i]
Depth(p) == Least(Physical[1] - Absolute(p[1]), Physical[2] - Absolute(p[2]))

\* From the finger on, the planned route ends at the aimed contact, stays between the rails and
\* never cuts through the block; only a finger in shallow contact may leave it outwards.
RouteIsAdmissible ==
    mode = "route" =>
        LET first == IF route[1] = problem.finger THEN 1 ELSE 2
        IN  /\ route[first] = problem.finger /\ Last(route) = Contact(problem)
            /\ \A k \in first + 1 .. Len(route) : BetweenRails(route[k])
            /\ \A k \in first .. Len(route) - 1 :
                  Meets(route[k], route[k + 1], Physical) =>
                      k = first /\ Depth(route[k]) <= Penetration /\ Depth(route[k + 1]) <= 0
=============================================================================
