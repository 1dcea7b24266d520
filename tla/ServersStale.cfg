SPECIFICATION ServersSpec
CONSTANTS
    Conn = {1, 2}
    Peer = {"peer"}
    Stray = "elsewhere"
    Reader = {"reader"}
    Client = {"client"}
    Awaited = {1}
    None = 0
    t1 = t1
    t2 = t2
PROPERTIES
    DroppedIsReplaced
CHECK_DEADLOCK FALSE
