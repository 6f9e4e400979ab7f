\* Four bytes through a buffer of three; sequence numbers modulo 12, with an
\* initial one from which they wrap around.
CONSTANTS
    Modulus = 12
    MaxBytes = 3
    Bytes = {0, 1}
    Origins = {9}
    Length = 4
    MaxSegment = 2
SPECIFICATION TCPSpec
INVARIANTS
    BufferIsStream
    RepetitionHarmless
PROPERTIES
    UnconsumedKept
