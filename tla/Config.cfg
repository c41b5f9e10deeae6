SPECIFICATION Spec
CONSTANTS
    Slices <- Combinations
    MaxSaves = 1
INVARIANTS
    TypeOK
    ActsOnWholeSettings
    OptionalSettingsAreHarmless
    RespelledIssuerKeepsFlows
    SentAwayCanComeBack
CHECK_DEADLOCK FALSE
