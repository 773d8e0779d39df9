SPECIFICATION FairSpec
CONSTANTS
    MaxCloud = 4
    RingSize = 1
    MAX_CMD_LEN = 3
INVARIANTS
    TypeOK
    BusCarriesWholeFramesInOrder
    LinesAreKeptApart
PROPERTIES
    WholeFrameReachesBus
    ImplementsFrameRoute
