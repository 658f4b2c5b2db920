CONSTANTS
    None = None
    Strength = 1
    Lookback = 5
    TolerancePart = 4
    MedianBars = 3
    Weights <- MCWeights
    Enough = 100
    SignalOn <- MCSignalOn
    Warmup = 1
    MaxBarsHeld = 2
    LeastScore = 65
    StopMultiple = 1
    TargetMultiple = 2
    RoundTrip = 1
    MinimumTrades = 3
    RiskPart = 4
    Shapes <- MCShapes
    MaxBars = 6
    Starts <- MCStarts
    Markets <- MCMarkets
    Nets <- MCNets
    Setups <- MCSetups
    PlanQuotes <- MCPlanQuotes
    Equities <- MCEquities
    Results <- MCResults
    MaxResults = 5
    PlanStopAtr = 3
    PlanTargetAtr = 6
    MinStopSpreadMultiple = 2
    RiskPercent = 1
    PaperStopAtr = 3
    PaperTargetAtr = 6
    PaperSpreadMultiple = 2
    PaperMinScore = 70
SPECIFICATION Spec
INVARIANTS LevelsHold TradesAreHonest LongsMirrorShorts ConsensusBacksBias PlanIsWhatOpens MetricsAreTrue
PROPERTIES SwingsStay NoLookAhead
