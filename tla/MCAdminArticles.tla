--------------------------- MODULE MCAdminArticles ---------------------------
(* Small instances of AdminArticles for TLC: an author and a moderator. *)
EXTENDS AdminArticles

MCRoleOf == [k \in Caller |-> IF k = "author" THEN "AUTHOR" ELSE "MODERATOR"]
=============================================================================
