\* Ten conversations of two to five messages, in segments of 1, 3 or 14
\* bytes; a buffer of eighteen bytes; two pending requests.
CONSTANTS
    None = None
    MaxMessage = 18
    Conversations <- MCConversations
    Cuts = {1, 3, 14}
    MaxPending = 2
SPECIFICATION Spec
INVARIANTS
    FramingOfBytes
    CorrelationOfExchange
CHECK_DEADLOCK FALSE
