\* The two lengths the builder accepts and the buffer does not hold.
SPECIFICATION Spec
CONSTANTS
    Byte = 2
    BufSize = 512
    Lengths = {494, 495, 496, 497}
    MaxFrames = 3
    MaxBeats = 2
INVARIANT AcceptedFrameFitsBuffer
