SPECIFICATION FairSpec
CONSTANTS
    f1 = f1
    f2 = f2
    bad = bad
    Valid = {f1, f2}
    Invalid = {bad}
    MaxPush = 2
    MaxBatch = 2
    MaxDiscard = 1
    CommitIsLast = TRUE
    PipeCap = 2
    MaxOut = 2
    MaxErr = 2
INVARIANT TypeOK
INVARIANT AllOrNothing
INVARIANT OutputComplete
INVARIANT BundleDelivered
PROPERTY BundleReturns
CHECK_DEADLOCK FALSE
