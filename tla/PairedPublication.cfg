\* One publisher between any two acts of other processes with one failing call, one publisher
\* with two failing calls, either before a power loss, or two publishers of one directory.
CONSTANTS
    p1 = p1
    p2 = p2
    Publishers = {p1, p2}
    Groups <- Together
    MaxRival <- Acts
    MaxFaults <- Failing
    CanCrash <- Losses
    Foreign = Foreign
    None = None
SPECIFICATION FairSpec
INVARIANT PublishedIsExact
INVARIANT PublishedIsDurable
INVARIANT FailureLeavesNoTemporary
INVARIANT ExactlyOneWinner
PROPERTY KeepsPromise
