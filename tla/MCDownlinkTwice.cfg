\* Every record is handled by the callback and by the receive loop.
SPECIFICATION DownlinkSpec
CONSTANT MaxCloud = 4
INVARIANT OneBusFramePerCloudFrame
