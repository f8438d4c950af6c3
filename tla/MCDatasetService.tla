--------------------------- MODULE MCDatasetService ---------------------------
(* Small instances of DatasetService.                                       *)
EXTENDS DatasetService, TLC

\* "ab" has columns a and b, "a" has only a, "bad" is malformed and "big" is
\* above the byte limit.
MCContents   == {"ab", "a", "bad", "big"}
MCWellFormed == {"ab", "a"}
MCOversize   == {"big"}
MCColumns    == {"a", "b"}
MCHeaderOf   == [c \in MCContents |->
                    CASE c = "ab" -> {"a", "b"} [] c = "a" -> {"a"} [] OTHER -> {}]

\* Two rules, so that one on a column that "a" lacks and one on a column
\* that both files have can coexist.
MCRuleDefs == {"required_a", "unique_b"}
MCColumnOf == [f \in MCRuleDefs |-> IF f = "required_a" THEN "a" ELSE "b"]

Symmetry == Permutations(Requests)
=============================================================================
