CONSTANTS
    MaxBar = 1
    Captures = {c1}
    Threads = {t1, t2}
    Keys = {k1, k2}
    MaxEntries = 1
    NoRow = NoRow
    Free = Free
    NoKey = NoKey
    NoEntry = NoEntry
    NoReading = NoReading
SPECIFICATION Spec
INVARIANTS NoReaderFails
