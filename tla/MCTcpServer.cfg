\* Two slots; lwIP has sockets for the listener, both slots, and one more to refuse or lose.
SPECIFICATION FairSpec
CONSTANTS
    NumFds = 4
    NumSlots = 2
    MaxStray = 1
INVARIANTS
    TypeOK
    FilledSlotIsLetGo
    ReceiverOwnsItsSlot
    SlotsHoldDistinctSockets
    LossOnlyByTimeout
PROPERTIES
    SlotsChangeUnderMutex
    MutexIsGivenBack
    ImplementsSlotPool
