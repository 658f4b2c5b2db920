CONSTANTS
    MaxRestarts = 3
    MaxLaunches = 2
    MaxKills = 1
    Nobody = Nobody
    Releases <- MCReleases
    Slots = {s1, s2}
    Builds = {"development", "manual", "self"}
    Requests = {r1, r2}
    PoolSize = 2
    MaxTurns = 2
SPECIFICATION MCSpec
INVARIANTS MCTypeOK OneBackendEach Discoverable OfferIsThere FreeWhenItCan
PROPERTIES Served NeverDowngrades UpdateIsOffered QuestionsEnd
CHECK_DEADLOCK FALSE
