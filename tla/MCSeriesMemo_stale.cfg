CONSTANTS
    MaxBar = 2
    Captures = {c1}
    Threads = {t1}
    Keys = {k1}
    MaxEntries = 1
    NoRow = NoRow
    Free = Free
    NoKey = NoKey
    NoEntry = NoEntry
    NoReading = NoReading
SPECIFICATION Spec
INVARIANTS CachedIsCurrent
