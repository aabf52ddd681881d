\* Two moderators dismiss the last two reports at once.
SPECIFICATION Spec
CONSTANTS
    Comment = {"c"}
    Report = {"r1", "r2"}
    Target <- MCTarget
    Reporter <- MCReporter
    System = "articuno:system"
    Moderator = {m1, m2}
    Editor = {}
    Leaver = {}
    Threshold = 2
    AuthorStatus = {"ACTIVE"}
    FiledAs = {"PENDING"}
    MaxCrashes = 0
INVARIANTS HiddenAwaitsReview
CHECK_DEADLOCK FALSE
