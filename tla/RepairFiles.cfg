SPECIFICATION Spec
CONSTANTS
    Members = 2
    MaxActs = 1
    CanCrash = TRUE
INVARIANTS
    RecordComesLast
    OneBundle
    SuccessIsOnDisk
    MarkedBundleIsReadable
CHECK_DEADLOCK FALSE
