-------------------------- MODULE ValidationEngine --------------------------
(***************************************************************************)
(* validation/engine.py, validation/rules.py and what analysis/service.py  *)
(* and analysis/score.py do with the result: an ordered sequence of rules  *)
(* is evaluated row by row against a textual table, the service checks the *)
(* engine's counts against its snapshot, and the counts, the bounded       *)
(* samples and the quality score are persisted together.                   *)
(*                                                                         *)
(* A cell's text is a value with the attributes the rules look at (Lexis): *)
(* which grammars it matches, the number float() returns for it, whether   *)
(* fromisoformat accepts it, whether it is blank, its first                *)
(* VALUE_PREVIEW_LIMIT characters.                                         *)
(***************************************************************************)
EXTENDS Integers, Sequences, FiniteSets, Folds, SequencesExt

CONSTANTS
    Columns, Header,            \* names rules may target; the table's columns
    Texts, Lexis,               \* cell texts and their attributes
    Patterns, Matches,          \* regex patterns; the texts a valid one matches
    RuleIds, Rules,             \* rule specifications the inputs are drawn from
    MaxRows, MaxRules,          \* bounds on the table and on the sequence
    VIOLATION_SAMPLE_LIMIT,
    MaxEvaluated,               \* bound on the counts the score is checked for
    NotFinite,                  \* a boundary that is not a finite number
    Null                        \* None

Forms == {"integer", "number", "boolean", "date", "datetime"}

Boundary == Int \cup {Null, NotFinite}

RuleSpec ==
         [rule_id : RuleIds, target_column : Columns, rule_type : {"required", "unique"}]
    \cup [rule_id : RuleIds, target_column : Columns, rule_type : {"type"},
          expected_type : Forms \cup {"string", "unsupported"}]
    \cup [rule_id : RuleIds, target_column : Columns, rule_type : {"range"},
          minimum : Boundary, maximum : Boundary]
    \cup [rule_id : RuleIds, target_column : Columns, rule_type : {"regex"},
          pattern : Patterns]

ASSUME EngineAssumption ==
    /\ Lexis \in [Texts -> [blank : BOOLEAN, forms : SUBSET Forms,
                            number : Int \cup {NotFinite}, calendar : BOOLEAN,
                            prefix : Texts]]
    /\ Header \subseteq Columns
    /\ DOMAIN Matches \subseteq Patterns
    /\ \A p \in DOMAIN Matches : Matches[p] \subseteq Texts
    /\ \A r \in Rules : r \in RuleSpec
    /\ Null \notin Texts /\ Null \notin Int
    /\ MaxRows \in Nat /\ MaxRules \in Nat /\ MaxEvaluated \in Nat
    /\ VIOLATION_SAMPLE_LIMIT \in Nat

VARIABLES
    data,       \* the table: its columns, each a sequence of cells
    height,     \* its number of rows
    rules,      \* ordered_rules
    epc,        \* where the evaluation is
    row,        \* the row the loop of the current rule has reached
    tally,      \* the counters of the current rule
    seen,       \* _evaluate_unique: the texts met so far
    samples,    \* violation_samples of the current rule
    results,    \* RuleValidationResults, in rule order
    analysis    \* the persisted analysis

vars == <<data, height, rules, epc, row, tally, seen, samples, results, analysis>>

----------------------------------------------------------------------------
Cells == Texts \cup {Null}

NoTally == [violation |-> 0, skipped |-> 0]

Sample == [row_number : 1 .. MaxRows, value_preview : Cells, truncated : BOOLEAN]

EnginePcs == {"validating", "rows", "scoring", "persisted", "rejected", "inconsistent"}

EngineTypeOK ==
    /\ height \in 0 .. MaxRows
    /\ data \in [Header -> [1 .. height -> Cells]]
    /\ \A k \in DOMAIN rules : rules[k] \in Rules
    /\ epc \in EnginePcs
    /\ row \in 1 .. MaxRows + 1
    /\ tally.violation \in 0 .. height /\ tally.skipped \in 0 .. height
    /\ seen \in SUBSET Texts
    /\ Len(samples) <= VIOLATION_SAMPLE_LIMIT
    /\ \A i \in DOMAIN samples : samples[i] \in Sample
    /\ Len(results) <= Len(rules)
    /\ \A k \in DOMAIN results :
          /\ results[k].evaluated_count \in 0 .. height
          /\ results[k].passed_count \in 0 .. height

\* Whatever the engine may be called with; create_analysis itself asks for at
\* least one rule and passes only rules it has stored.
Init ==
    /\ height \in 0 .. MaxRows
    /\ data \in [Header -> [1 .. height -> Cells]]
    /\ rules \in BoundedSeq(Rules, MaxRules)
    /\ epc = "validating"
    /\ row = 1
    /\ tally = NoTally
    /\ seen = {}
    /\ samples = <<>>
    /\ results = <<>>
    /\ analysis = Null

----------------------------------------------------------------------------
(* _validate_inputs.                                                       *)

\* Mutant: a range of a single value is refused.
RangeIsValidStrict(r) ==
    /\ r.minimum # Null \/ r.maximum # Null
    /\ NotFinite \notin {r.minimum, r.maximum}
    /\ r.minimum # Null /\ r.maximum # Null => r.minimum < r.maximum

\* _validate_range.
RangeIsValid(r) ==
    /\ r.minimum # Null \/ r.maximum # Null
    /\ NotFinite \notin {r.minimum, r.maximum}
    /\ r.minimum # Null /\ r.maximum # Null => r.minimum <= r.maximum

\* validate_regex_pattern: Polars compiles it.
PatternIsValid(p) == p \in DOMAIN Matches

RuleIsValid(r) ==
    /\ r.target_column \in Header
    /\ r.rule_type = "type"  => r.expected_type \in Forms \cup {"string"}
    /\ r.rule_type = "range" => RangeIsValid(r)
    /\ r.rule_type = "regex" => PatternIsValid(r.pattern)

ValidateInputs ==
    /\ epc = "validating"
    /\ epc' = IF /\ \A k, m \in DOMAIN rules : rules[k].rule_id = rules[m].rule_id => k = m
                 /\ \A k \in DOMAIN rules : RuleIsValid(rules[k])
              THEN IF rules = <<>> THEN "scoring" ELSE "rows"
              ELSE "rejected"
    /\ UNCHANGED <<data, height, rules, row, tally, seen, samples, results, analysis>>

----------------------------------------------------------------------------
(* What a single cell is.                                                  *)

\* is_missing.
IsMissing(v) == v = Null \/ Lexis[v].blank

\* _parse_number: the grammar, then a finite float().
ParseNumber(v) ==
    IF "number" \in Lexis[v].forms /\ Lexis[v].number # NotFinite
    THEN Lexis[v].number ELSE Null

\* _matches_type; _is_date and _is_datetime are the grammar, then fromisoformat.
MatchesType(v, expected_type) ==
    CASE expected_type = "string" -> TRUE
      [] expected_type \in {"integer", "boolean"} -> expected_type \in Lexis[v].forms
      [] expected_type = "number" -> ParseNumber(v) # Null
      [] expected_type \in {"date", "datetime"} ->
            expected_type \in Lexis[v].forms /\ Lexis[v].calendar

\* _within_range.
WithinRange(v, r) ==
    LET parsed == ParseNumber(v) IN
    /\ parsed # Null
    /\ r.minimum # Null => parsed >= r.minimum
    /\ r.maximum # Null => parsed <= r.maximum

----------------------------------------------------------------------------
(* The loops over the rows, one row a step.                                *)

Rule == rules[Len(results) + 1]

Cell == data[Rule.target_column][row]

InLoop(rule_types) ==
    /\ epc = "rows"
    /\ row <= height
    /\ Rule.rule_type \in rule_types

ViolationSample(v) ==
    [row_number |-> row,
     value_preview |-> IF v = Null THEN Null ELSE Lexis[v].prefix,
     truncated |-> v # Null /\ Lexis[v].prefix # v]

\* Mutant: the limit is tested after the sample is added.
AppendSampleLate(v) ==
    samples' = IF Len(samples) > VIOLATION_SAMPLE_LIMIT THEN samples
               ELSE Append(samples, ViolationSample(v))

\* Mutant: the latest violations are kept.
AppendSampleLatest(v) ==
    samples' = IF Len(samples) >= VIOLATION_SAMPLE_LIMIT
               THEN Append(Tail(samples), ViolationSample(v))
               ELSE Append(samples, ViolationSample(v))

\* _append_sample: nothing once the limit is reached.
AppendSample(v) ==
    samples' = IF Len(samples) >= VIOLATION_SAMPLE_LIMIT THEN samples
               ELSE Append(samples, ViolationSample(v))

Pass == UNCHANGED <<tally, samples>>

Violation ==
    /\ tally' = [tally EXCEPT !.violation = @ + 1]
    /\ AppendSample(Cell)

Skip ==
    /\ tally' = [tally EXCEPT !.skipped = @ + 1]
    /\ UNCHANGED samples

NextRow ==
    /\ row' = row + 1
    /\ UNCHANGED <<data, height, rules, epc, results, analysis>>

\* Mutant: a missing cell is skipped as by every other rule.
RequiredRowSkipping ==
    /\ InLoop({"required"})
    /\ IF IsMissing(Cell) THEN Skip ELSE Pass
    /\ UNCHANGED seen
    /\ NextRow

\* _evaluate_required.
RequiredRow ==
    /\ InLoop({"required"})
    /\ IF IsMissing(Cell) THEN Violation ELSE Pass
    /\ UNCHANGED seen
    /\ NextRow

\* _evaluate_unique: the first occurrence passes.
UniqueRow ==
    /\ InLoop({"unique"})
    /\ IF IsMissing(Cell) THEN Skip /\ UNCHANGED seen
       ELSE IF Cell \in seen THEN Violation /\ UNCHANGED seen
       ELSE Pass /\ seen' = seen \cup {Cell}
    /\ NextRow

\* _evaluate_non_missing, for type and range rules.
NonMissingRow ==
    /\ InLoop({"type", "range"})
    /\ IF IsMissing(Cell) THEN Skip
       ELSE IF IF Rule.rule_type = "type"
               THEN MatchesType(Cell, Rule.expected_type)
               ELSE WithinRange(Cell, Rule)
       THEN Pass ELSE Violation
    /\ UNCHANGED seen
    /\ NextRow

\* _evaluate_regex: Polars matched the whole column before the loop.
RegexRow ==
    /\ InLoop({"regex"})
    /\ IF IsMissing(Cell) THEN Skip
       ELSE IF Cell \in Matches[Rule.pattern] THEN Pass ELSE Violation
    /\ UNCHANGED seen
    /\ NextRow

----------------------------------------------------------------------------
\* Mutant: seen outlives the rule.
FinishRuleKeepsSeen ==
    LET evaluated == IF Rule.rule_type = "required" THEN height ELSE height - tally.skipped
    IN
    /\ epc = "rows"
    /\ row > height
    /\ results' = Append(results,
           [rule |-> Rule, evaluated_count |-> evaluated,
            passed_count |-> evaluated - tally.violation,
            violation_count |-> tally.violation, skipped_count |-> tally.skipped,
            violation_samples |-> samples])
    /\ row' = 1 /\ tally' = NoTally /\ samples' = <<>>
    /\ epc' = IF Len(results') = Len(rules) THEN "scoring" ELSE "rows"
    /\ UNCHANGED <<data, height, rules, seen, analysis>>

\* _result, and the next rule of validate.
FinishRule ==
    LET evaluated == IF Rule.rule_type = "required" THEN height ELSE height - tally.skipped
    IN
    /\ epc = "rows"
    /\ row > height
    /\ results' = Append(results,
           [rule |-> Rule, evaluated_count |-> evaluated,
            passed_count |-> evaluated - tally.violation,
            violation_count |-> tally.violation, skipped_count |-> tally.skipped,
            violation_samples |-> samples])
    /\ row' = 1 /\ tally' = NoTally /\ seen' = {} /\ samples' = <<>>
    /\ epc' = IF Len(results') = Len(rules) THEN "scoring" ELSE "rows"
    /\ UNCHANGED <<data, height, rules, analysis>>

----------------------------------------------------------------------------
(* analysis/service.py: what is made of the engine's result.               *)

SumOf(field(_)) == FoldFunction(+, 0, [k \in DOMAIN results |-> field(results[k])])

\* Mutant: ROUND_HALF_DOWN.
QuantizeHalfDown(passed, evaluated) ==
    LET hundredths == (10000 * passed) \div evaluated
        rest       == (10000 * passed) % evaluated
    IN  IF 2 * rest > evaluated THEN hundredths + 1 ELSE hundredths

\* score.quantize(0.01, ROUND_HALF_UP), in hundredths.  The 40 digits of the
\* division are exact enough for counts of this size.
Quantize(passed, evaluated) ==
    LET hundredths == (10000 * passed) \div evaluated
        rest       == (10000 * passed) % evaluated
    IN  IF 2 * rest >= evaluated THEN hundredths + 1 ELSE hundredths

\* calculate_quality_score.
QualityScore ==
    LET passed    == SumOf(LAMBDA r : r.passed_count)
        evaluated == SumOf(LAMBDA r : r.evaluated_count)
    IN  IF evaluated = 0 THEN Null ELSE Quantize(passed, evaluated)

\* _persist_analysis and _result_models: AnalysisDataIntegrityError unless the
\* engine's result fits the snapshot it was given.
PersistResults ==
    /\ epc = "scoring"
    /\ IF /\ Len(results) = Len(rules)
          /\ \A k \in DOMAIN results :
                /\ results[k].rule = rules[k]
                /\ results[k].evaluated_count + results[k].skipped_count = height
       THEN /\ epc' = "persisted"
            /\ analysis' = [quality_score |-> QualityScore,
                            total_violation_count |-> SumOf(LAMBDA r : r.violation_count),
                            rule_results |-> results]
       ELSE epc' = "inconsistent" /\ UNCHANGED analysis
    /\ UNCHANGED <<data, height, rules, row, tally, seen, samples, results>>

\* The evaluation has ended.
Ended ==
    /\ epc \in {"persisted", "rejected", "inconsistent"}
    /\ UNCHANGED vars

Next ==
    \/ ValidateInputs
    \/ RequiredRow \/ UniqueRow \/ NonMissingRow \/ RegexRow
    \/ FinishRule
    \/ PersistResults
    \/ Ended

Spec == Init /\ [][Next]_vars

----------------------------------------------------------------------------
(* Properties.                                                             *)

\* What each rule means, without the loops.
Violates(r, column, i) ==
    LET v == column[i]
        missing == v = Null \/ Lexis[v].blank
    IN
    CASE r.rule_type = "required" -> missing
      [] r.rule_type = "unique"   -> ~missing /\ \E j \in 1 .. i - 1 : column[j] = v
      [] r.rule_type = "type"     -> ~missing /\ ~MatchesType(v, r.expected_type)
      [] r.rule_type = "range"    -> ~missing /\ ~WithinRange(v, r)
      [] r.rule_type = "regex"    -> ~missing /\ v \notin Matches[r.pattern]

\* The counts of every finished rule are those of its meaning: of equal cells
\* all but the first violate unique, missing cells are skipped by every rule
\* but required, and no rule sees what another one left behind.
CountsMatchMeaning ==
    \A k \in DOMAIN results :
        LET r == results[k].rule
            column == data[r.target_column]
        IN  /\ results[k].violation_count =
                  Cardinality({i \in 1 .. height : Violates(r, column, i)})
            /\ results[k].skipped_count =
                  Cardinality({i \in 1 .. height :
                      /\ r.rule_type # "required"
                      /\ column[i] = Null \/ Lexis[column[i]].blank})

\* "only the first 20 violations per rule are sampled", in row order, while
\* the count stays complete.
SamplesAreFirstViolations ==
    \A k \in DOMAIN results :
        LET res == results[k]
            column == data[res.rule.target_column]
            rank(i) == Cardinality({j \in 1 .. i : Violates(res.rule, column, j)})
            Bounded(n) == IF n < VIOLATION_SAMPLE_LIMIT THEN n ELSE VIOLATION_SAMPLE_LIMIT
        IN  /\ Len(res.violation_samples) = Bounded(res.violation_count)
            /\ \A i \in 1 .. height :
                  Violates(res.rule, column, i) /\ rank(i) <= VIOLATION_SAMPLE_LIMIT
                     => res.violation_samples[rank(i)].row_number = i

\* The cross-checks of _persist_analysis and the count constraints of table
\* validation_results are never what ends an analysis.
ResultsAlwaysFit ==
    /\ epc # "inconsistent"
    /\ epc = "persisted" =>
          \A k \in DOMAIN rules :
             LET res == analysis.rule_results[k] IN
             /\ res.evaluated_count = res.passed_count + res.violation_count
             /\ res.passed_count >= 0
             /\ res.evaluated_count + res.skipped_count = height

\* RangeRuleConfiguration and RegexRuleConfiguration, which decide what
\* create_rule stores.
SchemaAccepts(r) ==
    CASE r.rule_type = "type"  -> r.expected_type # "unsupported"
      [] r.rule_type = "range" ->
            /\ NotFinite \notin {r.minimum, r.maximum}
            /\ ~(r.minimum = Null /\ r.maximum = Null)
            /\ r.minimum # Null /\ r.maximum # Null => ~(r.minimum > r.maximum)
      [] r.rule_type = "regex" -> r.pattern \in DOMAIN Matches
      [] OTHER -> TRUE

\* A rule the API stored for a column of the table is never refused by the
\* engine, which would make the dataset impossible to analyse.
StoredRulesAreAccepted ==
    epc = "rejected" =>
        \/ \E k, m \in DOMAIN rules : k # m /\ rules[k].rule_id = rules[m].rule_id
        \/ \E k \in DOMAIN rules :
              rules[k].target_column \notin Header \/ ~SchemaAccepts(rules[k])

\* s hundredths are passed of evaluated, in per cent, rounded half up.
Rounded(s, passed, evaluated) ==
    /\ s \in 0 .. 10000
    /\ 2 * s * evaluated - evaluated <= 20000 * passed
    /\ 20000 * passed < 2 * s * evaluated + evaluated

\* The persisted score is the ratio of passed to evaluated cells, rounded half
\* up to hundredths; it is null exactly when nothing was evaluated, and lies
\* between 0 and 100 as the column requires.
ScoreRoundsHalfUp ==
    epc = "persisted" =>
        LET violations == analysis.total_violation_count
            evaluated  == SumOf(LAMBDA r : r.evaluated_count)
        IN  /\ (analysis.quality_score = Null) <=> (evaluated = 0)
            /\ evaluated > 0 =>
                  Rounded(analysis.quality_score, evaluated - violations, evaluated)
            \* the rounding, beyond the counts a table of the instance reaches
            /\ rules = <<>> => \A e \in 1 .. MaxEvaluated, p \in 0 .. MaxEvaluated :
                                  p <= e => Rounded(Quantize(p, e), p, e)

=============================================================================
