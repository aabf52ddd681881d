------------------------------ MODULE MCCatalogue ------------------------------
(* A small instance of Catalogue for TLC. *)
EXTENDS Catalogue, TLC

(* One title for all; administrators take its second slug by hand. *)
MCTitle == {<<1>>}
MCRename == {<<1, 2>>}

(* Articles, languages and requests are told apart by nothing else. *)
MCSymmetry == Permutations(Article) \cup Permutations(Lang) \cup Permutations(Call)
=============================================================================
