\* Two identifiers and two contents in each direction, a table of two requests,
\* packets of up to two messages.
CONSTANTS
    forward = forward
    reverse = reverse
    id1 = id1
    id2 = id2
    ask1 = ask1
    ask2 = ask2
    Directions = {forward, reverse}
    TransactionIds = {id1, id2}
    Contents = {ask1, ask2}
    MaxPending = 2
    MaxFrames = 2
    MaxMessages = 4
SPECIFICATION DNSSpec
SYMMETRY ExchangeSymmetry
INVARIANTS
    MessagesConserved
    StatisticsOfExchange
    MatchesNameTheirRequest
