SPECIFICATION Spec
CONSTANTS
    KeyPool <- Pool
    Half = 32
    Epoch = 5
    Skew = 2
    MaxKeys = 3
    Slices <- Combinations
INVARIANTS
    TypeOK
    ReadOnlyWhatIsVouchedFor
    OrderIsIrrelevant
    UnknownKidIsCurable
    AcceptedInTime
    RefusedForItsTimes
    NotFromTheFuture
CHECK_DEADLOCK FALSE
