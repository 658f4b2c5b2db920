CONSTANTS
    Tolerated = 3
    MaxDeaths = 1
    NoTimer = NoTimer
SPECIFICATION Spec
INVARIANTS TypeOK ConnectedMeansExtracted
PROPERTIES SessionNotOverridden Recovers NeverReadyOnSilence
