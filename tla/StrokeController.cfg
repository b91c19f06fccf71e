\* One finger path per stroke, every lag of the finger, four schedules from the shortest to the
\* scaled ones, rails far away and near.
CONSTANTS
    Half <- HalfSizes
    Radius = 8
    Clearance = 15
    Penetration = 1
    Extent <- ApproachExtent
    Reach = 12
    Period = 10
    Shortest = 20
    Stretch = 200
    MotionCap = 374
    HoldStart = 38
    LastPeriod = 40
    Timings <- SomeTimings
    Problems <- SomeProblems
    Pushes <- SomePushes
SPECIFICATION ControllerSpec
INVARIANT ArrivedMeansPushed
INVARIANT HoldIsStationary
INVARIANT RouteIsAdmissible
CHECK_DEADLOCK FALSE
