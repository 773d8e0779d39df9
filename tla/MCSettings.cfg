\* Numbers at the bounds of the period and beyond; presses at every threshold.
SPECIFICATION FairSpec
CONSTANTS
    Periods = {999, 1000, 60000, 60001}
    PressMs = {99, 100, 499, 500, 999, 1000}
    MaxErrors = 1
    MaxJobs = 3
INVARIANTS
    TypeOK
    FlashFitsMetadata
    OkMeansDurable
    AcknowledgedIsFound
    ResetConfiguresStation
PROPERTIES
    ResetEndsInRestart
    ImplementsParamStore
