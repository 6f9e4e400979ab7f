\* Six bytes of three values through a buffer of three; two records of one
\* byte share a message header, and a length of two is one too many.
CONSTANTS
    Modulus = 16
    MaxBytes = 3
    Bytes = {0, 1, 2}
    Origins = {12}
    Length = 6
    MaxSegment = 3
    Base = 3
    DNSFormat <- MCDNSFormat
    RecordFormat <- MCRecordFormat
    MessageFormat <- MCMessageFormat
    Handshake = 1
SPECIFICATION FramedSpec
INVARIANTS
    FramesOfStream
    MessagesOfRecords
