\* Two updates or scans, a moderator and two reports at once.
SPECIFICATION Spec
CONSTANTS
    Article = {"a"}
    Report = {r1, r2}
    Target <- MCTarget
    FiledAs = {"PENDING", "RESOLVED"}
    Caller = {u1, u2}
    Moderator = {m1}
    Decision = {"RESOLVED", "DISMISSED"}
    Threshold = 2
INVARIANTS TypeOK OneFirstPublication
PROPERTIES AgreesUnlessStale TransitionsAreLegal ThresholdIsApplied
CHECK_DEADLOCK FALSE
