--------------------------- MODULE MCAnalysisService ---------------------------
(* Small instances of AnalysisService.                                       *)
EXTENDS AnalysisService, TLC

\* scan_csv accepts both files; Polars disagrees about "a".
MCContents  == {"ab", "a"}
MCColumns   == {"a", "b"}
MCHeaderOf  == [c \in MCContents |-> IF c = "ab" THEN {"a", "b"} ELSE {"a"}]
MCParseable == {"ab"}
MCRuleDefs  == {"required_a", "unique_b"}
MCColumnOf  == [f \in MCRuleDefs |-> IF f = "required_a" THEN "a" ELSE "b"]

\* With a file that scan_csv refuses and one above the byte limit.
MCAnyContents == MCContents \cup {"bad", "big"}
MCOversize    == {"big"}
MCAnyHeaderOf == [c \in MCAnyContents |->
                     IF c \in MCContents THEN MCHeaderOf[c] ELSE {}]

Symmetry == Permutations(Requests) \cup Permutations(Analysts)
=============================================================================
