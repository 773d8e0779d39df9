\* Two builders inside data_process_send() at once.
SPECIFICATION Spec
CONSTANTS
    Byte = 2
    BufSize = 512
    Lengths = {5}
    MaxFrames = 3
    MaxBeats = 2
INVARIANT NumberIsIncrementedForEachFrame
