\* Two invocations that start together, one perhaps with --output, one act of another process.
CONSTANTS
    Invocations = {p, q}
    Explicit = {p}
    RunNames = {n1, n2}
    MaxAttempts = 2
    MaxActs = 1
    MaxDirs = 7
    OtherKind = OtherKind
    Absent = Absent
SPECIFICATION FairDirectorySpec
INVARIANT RunIsOwn
PROPERTY EveryoneServed
