------------------------- MODULE MCCommentModeration -------------------------
(* Small instances of CommentModeration for TLC: one comment, reports by    *)
(* two users and by the system.                                             *)
EXTENDS CommentModeration

MCReport == {"r1", "r2", "r3", "s1"}
MCTarget == [r \in Report |-> CHOOSE c \in Comment : TRUE]
(* r1 and r3 are two reports by one user. *)
MCReporter == [r \in Report |-> CASE r = "s1" -> System
                                  [] r = "r2" -> "bea"
                                  [] OTHER -> "ada"]
=============================================================================
