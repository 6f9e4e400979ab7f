\* Long exchanges of single messages about one content: slots freed and used
\* again, and what follows once the table of two has been given up.
CONSTANTS
    forward = forward
    reverse = reverse
    id1 = id1
    id2 = id2
    ask1 = ask1
    Directions = {forward, reverse}
    TransactionIds = {id1, id2}
    Contents = {ask1}
    MaxPending = 2
    MaxFrames = 1
    MaxMessages = 5
SPECIFICATION DNSSpec
SYMMETRY ExchangeSymmetry
INVARIANTS
    PendingTable
PROPERTIES
    LossIsFinal
