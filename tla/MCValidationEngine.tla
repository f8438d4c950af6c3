------------------------- MODULE MCValidationEngine -------------------------
(* A small instance of ValidationEngine: texts that differ in what the      *)
(* rules look at, and one rule per decision of the engine.                  *)
EXTENDS ValidationEngine

MCTexts == {"", "2", "1e999", "2024-02-30", "2024-02-29", "long", "prefix"}

Attributes(blank, forms, number, calendar, prefix) ==
    [blank |-> blank, forms |-> forms, number |-> number, calendar |-> calendar,
     prefix |-> prefix]

MCLexis ==
    [t \in MCTexts |->
        CASE t = ""           -> Attributes(TRUE, {}, NotFinite, FALSE, t)
          [] t = "2"          -> Attributes(FALSE, {"integer", "number"}, 2, FALSE, t)
          [] t = "1e999"      -> Attributes(FALSE, {"number"}, NotFinite, FALSE, t)
          [] t = "2024-02-30" -> Attributes(FALSE, {"date"}, NotFinite, FALSE, t)
          [] t = "2024-02-29" -> Attributes(FALSE, {"date"}, NotFinite, TRUE, t)
          [] t = "long"       -> Attributes(FALSE, {}, NotFinite, FALSE, "prefix")
          [] t = "prefix"     -> Attributes(FALSE, {}, NotFinite, FALSE, t)]

\* "(" does not compile.
MCPatterns == {"2", "("}
MCMatches  == [p \in {"2"} |-> {"2", "2024-02-29", "2024-02-30"}]

RangeRule(id, low, high) ==
    [rule_id |-> id, target_column |-> "c", rule_type |-> "range",
     minimum |-> low, maximum |-> high]

MCRules ==
         [rule_id : {1}, target_column : {"c", "absent"}, rule_type : {"required"}]
    \cup [rule_id : {1, 2}, target_column : {"c"}, rule_type : {"unique"}]
    \cup [rule_id : {1}, target_column : {"c"}, rule_type : {"type"},
          expected_type : {"number", "date"}]
    \cup [rule_id : {2}, target_column : {"c"}, rule_type : {"regex"}, pattern : MCPatterns]
    \cup {RangeRule(1, 2, 2), RangeRule(2, Null, 1), RangeRule(1, 3, 2), RangeRule(1, Null, Null)}
=============================================================================
