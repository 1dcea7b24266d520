SPECIFICATION StreamsSpec
CONSTANTS
    Content = {c1, c2}
    Inode = {i1, i2, i3, i4}
    None = None
    Nothing = Nothing
    Path = {"in directory", "no slash", "in root"}
    NoResponse = NoResponse
    Thread = {"t1", "t2"}
    HttpResponse = {"r1", "r2"}
    HttpStatus = {200, 404}
    MaxParses = 2
VIEW StreamsView
INVARIANTS
    OldOrNew
    LoadOfOneSave
    DurableWithSlash
    Delivered
    Asserted
    PartsRight
    ResponsesApart
PROPERTIES
    NeverBack
    NoLetterForEver
