\* The cloud connection: its own safety, reconnection and the abstract link.
SPECIFICATION FairSpec
CONSTANTS
    NumFds = 3
    Ctx = {c1, c2}
    NullCtx = NullCtx
    rs485 = rs485
    heartbeat = heartbeat
    Senders <- MCSenders
    GuardedSenders <- MCGuardedSenders
    Holders = {slot1, slot2}
INVARIANTS
    TypeOK
    NothingLeftBehind
    PublishedContextIsInitialized
    ReadyHasSession
PROPERTIES
    SendersGoWrongOutsideSession
    MixUpsStartAtSecondClose
    Reconnects
    ImplementsCloudLink
