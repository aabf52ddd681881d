------------------------------ MODULE MCBackOffice ------------------------------
(* Small instances of BackOffice for TLC: two rows of kinds that meet.     *)
EXTENDS BackOffice, TLC

Mix(k, l) == [r \in Row |-> IF r = CHOOSE s \in Row : TRUE THEN k ELSE l]
MCMixes == {Mix("comment", "report"), Mix("article", "report"),
            Mix("article", "comment"), Mix("user", "report"),
            Mix("tag", "tag"), Mix("category", "category"), Mix("word", "word")}
MCBase == {<<1>>}
MCRename == {<<1, 2>>}
MCSymmetry == Permutations(Call)
=============================================================================
