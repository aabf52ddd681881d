--------------------------------- MODULE Slugs ---------------------------------
(***************************************************************************)
(* The slugs of utils/slugify.ts.  A slug is the sequence of its number    *)
(* suffixes after the word it starts with, itself a number: <<1>> is       *)
(* "title", <<1, 2>> is "title-2", which is also what slugify makes of the *)
(* title "Title 2", and <<1, 2, 2>> is "title-2-2".                        *)
(***************************************************************************)
EXTENDS Naturals, Sequences, FiniteSets

Slug == Seq(Nat) \ {<<>>}

(* The rows `slug: { startsWith: base }` selects.  The strings that go on   *)
(* with letters or digits ("titles") are left out: they are no candidates.  *)
StartingWith(slugs, base) ==
    {s \in slugs : Len(base) <= Len(s) /\ SubSeq(s, 1, Len(base)) = base}

Numbered(base, n) == Append(base, n)

(* nextFreeSlug: base, or base-n with the first free n from 2 on.  Among    *)
(* as many numbers as there are slugs and one more, one is free.            *)
FreeNumbers(base, taken) ==
    {n \in 2..Cardinality(taken) + 2 : Numbered(base, n) \notin taken}

NextFreeSlug(base, taken) ==
    IF base \notin taken THEN base
    ELSE Numbered(base, CHOOSE n \in FreeNumbers(base, taken) :
                            \A m \in FreeNumbers(base, taken) : n <= m)

(* The slugs articles.create gives several bases: each choice joins those  *)
(* that are taken for the next ("titolo", "titolo-2").                     *)
ChosenSlugs(bases, taken) ==
    LET pick[i \in 0..Len(bases)] ==
            IF i = 0 THEN <<>>
            ELSE Append(pick[i - 1],
                        NextFreeSlug(bases[i],
                            taken \cup {pick[i - 1][j] : j \in 1..i - 1}))
    IN  pick[Len(bases)]
=============================================================================
