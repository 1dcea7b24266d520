SPECIFICATION PartSpec
CONSTANTS
    t1 = t1
    t2 = t2
    t3 = t3
    r1 = r1
    r2 = r2
    r3 = r3
    None = None
    Thread = {t1, t2, t3}
    HashOf <- ThreadHash
    FirstSize = 2
    MaxTables = 3
    MaxCalls = 4
INVARIANTS
    ComparesWrites
    TreesTrue
    DiffsTrue
    PeersFound
    CodecsRight
    ProducersKnown
PROPERTIES
    SignalsKept
CHECK_DEADLOCK FALSE
