CONSTANTS
    Threads = {}
    Ids = {}
    Scripts = {}
    Names = {}
    MaxStrategies = 1
    Builtin = Builtin
    NoName = NoName
    NoSelection = NoSelection
    NoRequest = NoRequest
    Pollers = {p1}
    own = own
    script = script
    builtin = builtin
    Strategies = {builtin, own}
    ScriptOnes = {}
    ReadingOf <- MCReadingOf
    Replies <- MCReplies
    MayFail = FALSE
    MaxReadings = 2
    MaxRows = 5
    Nobody = Nobody
SPECIFICATION MCSpec
INVARIANT DecisionsOnly
