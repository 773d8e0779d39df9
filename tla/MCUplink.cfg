\* The lengths: too short, no data, one byte, the longest frame that fits the
\* buffer, one the builder refuses, one its caller refuses.
SPECIFICATION FairSpec
CONSTANTS
    Byte = 2
    BufSize = 512
    Lengths = {3, 4, 5, 494, 497, 504}
    MaxFrames = 3
    MaxBeats = 2
INVARIANTS
    TypeOK
    NumbersAdvanceUnlessOverlap
    CounterLeavesZero
PROPERTY AcceptedFrameIsForwarded
