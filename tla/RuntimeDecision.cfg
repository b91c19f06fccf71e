\* A horizon of eight units with three samples, a scalar and an orientation, one contact.
CONSTANTS
    EPSILON_NUM = 0
    Ulp = 0
    Pi = 30
    HORIZON = 8
    MINIMUM_PREFIX = 4
    ObservationTimes = {0, 4, 8}
    Scalars = {1}
    Orientations = {2}
    Contacts = {10}
    Tolerance <- Tolerances
    nan = nan
    zero = zero
    NotFinite = nan
    ZeroNorm = zero
    Campaigns <- OneContactCampaigns
    Deviations <- SomeDeviations
    Moves <- SomeMoves
    MaxDeviations = 2
SPECIFICATION Spec
INVARIANT GreenMeansComplete
INVARIANT RejectionIsWitnessed
INVARIANT SwapIsNeutral
CHECK_DEADLOCK FALSE
