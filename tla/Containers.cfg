SPECIFICATION PartSpec
CONSTANTS
    p1 = p1
    p2 = p2
    c1 = c1
    c2 = c2
    t1 = t1
    t2 = t2
    b1 = b1
    b2 = b2
    b3 = b3
    k1 = k1
    k2 = k2
    k3 = k3
    k4 = k4
    None = None
    Thread = {t1, t2}
    AllBlocks = {b1, b2, b3}
    Consumer = {c1, c2}
    BlockSize = 2
    Wrap = 16
INVARIANTS
    CountsSettle
    FindsItsBlock
    BlocksAccounted
    AloneFinds
    TokensRight
    KeysFound
    BlocksApart
PROPERTIES
    ItemsInOrder
    MapIsAtomic
