CONSTANTS
    Tolerated = 3
    MaxDeaths = 0
    NoTimer = NoTimer
SPECIFICATION Spec
PROPERTIES BackendErrorStays
