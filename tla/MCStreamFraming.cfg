SPECIFICATION Spec
CONSTANTS
    Streams = {s1, s2}
    NoStream = NoStream
    Base = 2
    Limit = 2
    Payloads <- MCPayloads
    MaxSent = 2
SYMMETRY MCSymmetry
INVARIANTS TypeOK FramesAsSent NothingLeftBehind ClearOnlyMixed BufferBounded
CHECK_DEADLOCK FALSE
