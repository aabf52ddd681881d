\* Double clicks, deletions that overlap, an account that comes back.
SPECIFICATION Spec
CONSTANTS
    Article = {"a"}
    User = {"ada", "bea"}
    Click = {k1, k2}
    Deletion = {d1, d2}
    MaxAccounts = 2
SYMMETRY MCSymmetry
INVARIANTS TypeOK
PROPERTIES DriftOnlyByStaleDeletion AnswerIsTheRow
CHECK_DEADLOCK FALSE
