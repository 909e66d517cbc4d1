\* Two keys with two requests; two files of two sizes; two calls; three requests.
CONSTANTS
    k1 = k1
    k2 = k2
    t1 = t1
    t2 = t2
    small = small
    large = large
    Key = {k1, k2}
    Ticket = {t1, t2}
    Incarnations = 2
    StartLimit = 1
    QueueMax = 1
    RequestMax = 1
    NoTicket = NoTicket
    Uri = {u1, u2}
    Content = {small, large}
    Missing = Missing
    DocSize <- Sizes
    DocMax = 2
    DocBytesMax = 3
    WriteMax = 2
    AskMax = 3
    PipeMax = 1
    Asker = {c1, c2}
    FlightMax = 1
    SourceMax = 2
    OwnerMax = 1
    EpochMax = 1
    IdMax = 3
    BoxMax = 2
    NoiseMax = 1
    WireMax = 2
SPECIFICATION Spec
SYMMETRY Interchangeable
CHECK_DEADLOCK FALSE
INVARIANTS
    SessionsSound
    
    
