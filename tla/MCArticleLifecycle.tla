-------------------------- MODULE MCArticleLifecycle --------------------------
(* Small instances of ArticleLifecycle for TLC: one article, whose reports  *)
(* come from different users.                                               *)
EXTENDS ArticleLifecycle

MCTarget == [r \in Report |-> CHOOSE a \in Article : TRUE]
=============================================================================
