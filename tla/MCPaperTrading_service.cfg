CONSTANTS
    t1 = t1
    t2 = t2
    m1 = m1
    m5 = m5
    gold = gold
    Threads = {t1, t2}
    Series = {m1, m5}
    Symbols = {gold}
    SymbolOf <- MCOneSymbol
    Quotes <- MCQuotes
    Signals <- MCSignals
    StopAtr = 3
    TargetAtr = 6
    MinSpreadMultiple = 2
    MinScore = 70
    AutoOpen = TRUE
    Interval = 1
    MaxTrades = 2
    MaxClock = 1
    NoQuote = NoQuote
    NoThread = NoThread
    NoRequest = NoRequest
    Never = Never
SPECIFICATION Spec
SYMMETRY Symmetry
INVARIANTS LockOK RateLimited SweepMissesNothing
PROPERTIES ImplementsLedger NotDeadOnArrival
