\* Reproducible and arbitrary measurements, budgets from the smallest admitted to ample ones.
CONSTANTS
    Dimension = 2
    BoxMax = 4
    InitialStep = 2
    MaxSweeps = 3
    Tolerance = 1
    MaxHold = 8
    SetupSteps = 1
    NominalSteps = 1
    FinerSteps = 2
    NoPair = NoPair
    Requests <- SomeRequests
    Landscapes <- AllLandscapes
SPECIFICATION FairSpec
INVARIANT ReserveCoversEveryEvaluation
INVARIANT QualifiedMeansConfirmed
INVARIANT FiniteVerdictIsComplete
INVARIANT VerdictInTime
INVARIANT FloorIsCoordinateMinimum
INVARIANT RecordIsAdmitted
PROPERTY Terminates
