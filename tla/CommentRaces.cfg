\* A moderator, an edit and an account deletion at once; a changing author.
SPECIFICATION Spec
CONSTANTS
    Comment = {"c"}
    Report = {"r1", "s1"}
    Target <- MCTarget
    Reporter <- MCReporter
    System = "articuno:system"
    Moderator = {m1}
    Editor = {e1}
    Leaver = {"ada"}
    Threshold = 1
    AuthorStatus = {"ACTIVE", "BANNED"}
    FiledAs = {"PENDING"}
    MaxCrashes = 0
INVARIANTS TypeOK
PROPERTIES TransitionsAreLegal
CHECK_DEADLOCK FALSE
