\* is_connected() during the teardown.
SPECIFICATION Spec
CONSTANTS
    NumFds = 3
    Ctx = {c1, c2}
    NullCtx = NullCtx
    rs485 = rs485
    heartbeat = heartbeat
    Senders <- MCSenders
    GuardedSenders <- MCGuardedSenders
    Holders = {slot1, slot2}
INVARIANT ConnectedMeansUsable
