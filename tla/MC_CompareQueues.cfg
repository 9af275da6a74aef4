CONSTANTS
    NIL = NIL
    MAX_RQ = 8
    BITS_X_LONG = 4
    NS_SLOT = 2
    TimeBits = 6
    UIntBits = 4
    MaxTasks = 4
    Loops = 16
SPECIFICATION Spec
\* cfs_test / tr_test return after their last loop.
CHECK_DEADLOCK FALSE
INVARIANT SameKeyOrder MapMirrorsLists CrashOnlyWhenEmptyPool SlotsMatchTimes
