SPECIFICATION FairSpec
CONSTANTS
    d1 = d1
    d2 = d2
    d3 = d3
    e1 = e1
    e2 = e2
    NoToken = NoToken
    Dispatchers = {d1, d2, d3}
    Events = {e1, e2}
    LeaseTTL = 3
    HttpTTL = 2
    Delays = {1, 4}
INVARIANTS
    TypeOK
    OneDispatcher
PROPERTIES
    ImplementsAtLeastOnce
    NeverForgotten
