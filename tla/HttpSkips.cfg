SPECIFICATION SkipSpec
CONSTANTS
    Nothing = Nothing
    NoResponse = NoResponse
    Thread = {"t1", "t2"}
    HttpResponse = {"r1", "r2"}
    HttpStatus = {200, 404}
    MaxParses = 2
INVARIANTS
    NoBodyIfSkipped
