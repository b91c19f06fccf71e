\* One unit of numerical noise, one of rounding; a half turn is twenty units.
CONSTANTS
    EPSILON_NUM = 1
    Ulp = 1
    Pi = 20
    Triples <- Profiles
    Tolerances <- SomeTolerances
    Shifts <- SomeShifts
SPECIFICATION RefinementSpec
INVARIANT WithinSurvivesRefinement
INVARIANT OutsideSurvivesRefinement
CHECK_DEADLOCK FALSE
