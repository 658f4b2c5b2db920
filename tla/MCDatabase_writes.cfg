CONSTANTS
    Procs = {p1, p2}
    Statements <- MCStatements
    MaxBar = 3
    Captures = {c1, c2}
    NoRow = NoRow
    Free = Free
    Handlers = {h1, h2}
    SampleInterval = 2
    SnapshotInterval = 2
    KeepQuotes = 1
    KeepSnapshots = 1
    KeepSignals = 0
    Elsewhere = Elsewhere
SPECIFICATION MCSpec
INVARIANTS MCTypeOK ServesWhole RowsAreObserved SampledNotCopied
PROPERTIES SamplingResumes OldRowsGo
