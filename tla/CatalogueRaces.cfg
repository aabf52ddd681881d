\* Two requests at once, on translations whose titles give the same slugs.
SPECIFICATION Spec
CONSTANTS
    Article = {a}
    Lang = {it, en, fr}
    Title <- MCTitle
    Rename <- MCRename
    Asked = {"DRAFT", "PUBLISHED"}
    Call = {c1, c2}
    MaxRows = 2
INVARIANTS TypeOK FlaggedIsHidden ConflictMeansOverlap
PROPERTIES LinksStayAlive ImplementsLifecycle
SYMMETRY MCSymmetry
CHECK_DEADLOCK FALSE
