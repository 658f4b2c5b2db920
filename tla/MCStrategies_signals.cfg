CONSTANTS
    Threads = {t1, t2}
    Ids = {i1, i2, i3}
    Scripts = {s1}
    Names = {n1, n2, n3}
    MaxStrategies = 1
    Builtin = Builtin
    NoName = NoName
    NoSelection = NoSelection
    NoRequest = NoRequest
    Pollers = {p1, p2}
    own = own
    script = script
    builtin = builtin
    Strategies = {builtin, script}
    ScriptOnes = {script}
    ReadingOf <- MCReadingOf
    Replies <- MCReplies
    MayFail = TRUE
    MaxReadings = 3
    MaxRows = 4
    Nobody = Nobody
SPECIFICATION MCSpec
INVARIANTS MCTypeOK AnswerWasInEffect CapOverrun RepeatsExplained
PROPERTIES PollsEnd
