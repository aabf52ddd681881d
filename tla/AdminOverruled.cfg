\* An author publishes while a moderator hides.
SPECIFICATION Spec
CONSTANTS
    Article = {"a"}
    Caller = {"author", "moderator"}
    RoleOf <- MCRoleOf
    Requested = {"PUBLISHED", "HIDDEN"}
    MaxImages = 0
PROPERTIES AuthorsDoNotModerate
CHECK_DEADLOCK FALSE
