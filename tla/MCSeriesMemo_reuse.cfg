CONSTANTS
    MaxBar = 2
    Captures = {c1}
    Threads = {t1, t2}
    Keys = {k1, k2}
    MaxEntries = 1
    NoRow = NoRow
    Free = Free
    NoKey = NoKey
    NoEntry = NoEntry
    NoReading = NoReading
SPECIFICATION Spec
SYMMETRY Symmetry
INVARIANTS TypeOK ServedWasCurrent
