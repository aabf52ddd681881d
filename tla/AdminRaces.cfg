\* An author's call and a moderator's, on one article.
SPECIFICATION Spec
CONSTANTS
    Article = {"a"}
    Caller = {"author", "moderator"}
    RoleOf <- MCRoleOf
    Requested = {"PUBLISHED", "HIDDEN"}
    MaxImages = 2
INVARIANTS TypeOK DeadCoversAreAccountedFor
PROPERTIES AuthorsModerateOnlyBlindly
CHECK_DEADLOCK FALSE
