\* One moderator at a time, while users report and authors write.
SPECIFICATION Spec
CONSTANTS
    Comment = {"c"}
    Report = {"r1", "r2", "r3", "s1"}
    Target <- MCTarget
    Reporter <- MCReporter
    System = "articuno:system"
    Moderator = {m1}
    Editor = {}
    Leaver = {}
    Threshold = 2
    AuthorStatus = {"ACTIVE"}
    FiledAs = {"PENDING"}
    MaxCrashes = 1
INVARIANTS HiddenAwaitsReview VisibleIsBelowThreshold HidingIsToldUnlessCrash OneOpenPerReporter
PROPERTIES BannedIsTerminal
CHECK_DEADLOCK FALSE
