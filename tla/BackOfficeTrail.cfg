\* Two requests at once on two rows of kinds that meet.
SPECIFICATION Spec
CONSTANTS
    Row = {"r", "s"}
    Mixes <- MCMixes
    Base <- MCBase
    Rename <- MCRename
    InUse = {"VISIBLE", "PUBLISHED", "HIDDEN", "BANNED", "DISMISSED", "RESOLVED", "ACTIVE"}
    Call = {c1, c2}
INVARIANTS TypeOK TrailTellsTheRow EntryIsRight RefusalMeansOverlap
SYMMETRY MCSymmetry
CHECK_DEADLOCK FALSE
