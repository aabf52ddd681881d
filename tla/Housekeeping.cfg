\* Two replicas start and count a day, while counts change and they fail.
SPECIFICATION FairSpec
CONSTANTS
    Replica = {r1, r2}
    Tenant = {d, t}
    Default = d
    Counter <- MCCounter
    MaxDay = 0
    MaxChanges = 2
    MaxFailures = 1
INVARIANTS TypeOK WordsUnlessCut
PROPERTIES SavedIsCounted NightIsCounted
CHECK_DEADLOCK FALSE
