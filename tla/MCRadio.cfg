SPECIFICATION FairSpec
CONSTANT MaxEvents = 3
INVARIANTS
    TypeOK
    FlagFollowsStation
    PatternFollowsState
    HandleFollowsCentral
    SilentOnlyAfterFailure
PROPERTIES
    StationComesBack
    LightShowsWifi
