----------------------- MODULE ValidationEngineProofs -----------------------
(***************************************************************************)
(* TLAPS proofs about ValidationEngine, for every table, every sequence of *)
(* rules and every VIOLATION_SAMPLE_LIMIT.                                 *)
(*                                                                         *)
(* The inductive invariant EngineInv is the loop invariant of the row      *)
(* loops: after n rows of a rule the counters are the numbers of           *)
(* violations and of skipped cells among the first n, and the samples are  *)
(* the first of these violations (LoopAt).  A finished result is the loop  *)
(* invariant at the last row (ResultIsDue).  The score is a quotient of    *)
(* sums over the results; that such sums are natural numbers and add up    *)
(* (TotalAdds) is an induction on the number of results.                   *)
(***************************************************************************)
EXTENDS ValidationEngine, FiniteSetTheorems, TLAPS

----------------------------------------------------------------------------
(* Counting violations and skipped cells in the first n rows.              *)

Skipped(r, column, i) == r.rule_type # "required" /\ IsMissing(column[i])

ViolationsIn(r, column, n) == {i \in 1 .. n : Violates(r, column, i)}
SkipsIn(r, column, n)      == {i \in 1 .. n : Skipped(r, column, i)}

\* The violation's rank among those of its column.
Rank(r, column, i) == Cardinality(ViolationsIn(r, column, i))

Capped(n) == IF n < VIOLATION_SAMPLE_LIMIT THEN n ELSE VIOLATION_SAMPLE_LIMIT

LEMMA AddRow ==
    ASSUME NEW n \in Nat, NEW S \in SUBSET (1 .. n)
    PROVE  /\ Cardinality(S) \in Nat
           /\ Cardinality(S \cup {n + 1}) = Cardinality(S) + 1
<1>1. IsFiniteSet(S)
    <2>1. IsFiniteSet(1 .. n)
        BY FS_Interval
    <2> QED
        BY <2>1, FS_Subset
<1>2. n + 1 \notin S
    OBVIOUS
<1> QED
    BY <1>1, <1>2, FS_AddElement, FS_CardinalityType

LEMMA CountViolations ==
    ASSUME NEW r, NEW column, NEW n \in Nat
    PROVE  /\ Cardinality(ViolationsIn(r, column, n)) \in Nat
           /\ Cardinality(ViolationsIn(r, column, n + 1)) =
                 IF Violates(r, column, n + 1)
                 THEN Cardinality(ViolationsIn(r, column, n)) + 1
                 ELSE Cardinality(ViolationsIn(r, column, n))
<1>1. ViolationsIn(r, column, n) \in SUBSET (1 .. n)
    BY DEF ViolationsIn
<1>2. ViolationsIn(r, column, n + 1) =
         IF Violates(r, column, n + 1)
         THEN ViolationsIn(r, column, n) \cup {n + 1}
         ELSE ViolationsIn(r, column, n)
    BY DEF ViolationsIn
<1> QED
    BY <1>1, <1>2, AddRow

LEMMA CountSkips ==
    ASSUME NEW r, NEW column, NEW n \in Nat
    PROVE  /\ Cardinality(SkipsIn(r, column, n)) \in Nat
           /\ Cardinality(SkipsIn(r, column, n + 1)) =
                 IF Skipped(r, column, n + 1)
                 THEN Cardinality(SkipsIn(r, column, n)) + 1
                 ELSE Cardinality(SkipsIn(r, column, n))
<1>1. SkipsIn(r, column, n) \in SUBSET (1 .. n)
    BY DEF SkipsIn
<1>2. SkipsIn(r, column, n + 1) =
         IF Skipped(r, column, n + 1)
         THEN SkipsIn(r, column, n) \cup {n + 1}
         ELSE SkipsIn(r, column, n)
    BY DEF SkipsIn
<1> QED
    BY <1>1, <1>2, AddRow

----------------------------------------------------------------------------
(* The loop invariant.                                                     *)

\* The samples smp are the first violations of the first n rows.
FirstSampled(r, column, n, violation, smp) ==
    /\ Len(smp) = Capped(violation)
    /\ \A i \in 1 .. n : Violates(r, column, i) =>
          /\ Rank(r, column, i) \in 1 .. violation
          /\ Rank(r, column, i) <= VIOLATION_SAMPLE_LIMIT =>
                smp[Rank(r, column, i)].row_number = i

LoopAt(r, column, n, violation, skipped, smp) ==
    /\ violation = Cardinality(ViolationsIn(r, column, n))
    /\ skipped = Cardinality(SkipsIn(r, column, n))
    /\ violation + skipped <= n
    /\ r.rule_type = "required" => skipped = 0
    /\ FirstSampled(r, column, n, violation, smp)

LEMMA LoopStarts ==
    ASSUME NEW r, NEW column
    PROVE  LoopAt(r, column, 0, 0, 0, <<>>)
<1>1. ViolationsIn(r, column, 0) = {} /\ SkipsIn(r, column, 0) = {}
    BY DEF ViolationsIn, SkipsIn
<1>2. Cardinality({}) = 0
    BY FS_EmptySet
<1>3. FirstSampled(r, column, 0, 0, <<>>)
    BY EngineAssumption DEF FirstSampled, Capped
<1> QED
    BY <1>1, <1>2, <1>3 DEF LoopAt

LEMMA LoopPasses ==
    ASSUME NEW r, NEW column, NEW n \in Nat, NEW violation \in Nat, NEW skipped \in Nat,
           NEW smp, LoopAt(r, column, n, violation, skipped, smp),
           ~Violates(r, column, n + 1), ~Skipped(r, column, n + 1)
    PROVE  LoopAt(r, column, n + 1, violation, skipped, smp)
<1>1. FirstSampled(r, column, n + 1, violation, smp)
    BY DEF LoopAt, FirstSampled
<1> QED
    BY <1>1, CountViolations, CountSkips DEF LoopAt

LEMMA LoopSkips ==
    ASSUME NEW r, NEW column, NEW n \in Nat, NEW violation \in Nat, NEW skipped \in Nat,
           NEW smp, LoopAt(r, column, n, violation, skipped, smp),
           ~Violates(r, column, n + 1), Skipped(r, column, n + 1)
    PROVE  LoopAt(r, column, n + 1, violation, skipped + 1, smp)
<1>1. FirstSampled(r, column, n + 1, violation, smp)
    BY DEF LoopAt, FirstSampled
<1>2. r.rule_type # "required"
    BY DEF Skipped
<1> QED
    BY <1>1, <1>2, CountViolations, CountSkips DEF LoopAt

\* The sample of a violation is kept while there is room, and then it is the
\* violation's rank at which it is kept.
LEMMA LoopViolates ==
    ASSUME NEW r, NEW column, NEW n \in Nat, NEW violation \in Nat, NEW skipped \in Nat,
           NEW smp \in Seq(Sample), LoopAt(r, column, n, violation, skipped, smp),
           Violates(r, column, n + 1), ~Skipped(r, column, n + 1),
           NEW s \in Sample, s.row_number = n + 1,
           NEW smp2, smp2 = IF Len(smp) >= VIOLATION_SAMPLE_LIMIT THEN smp
                            ELSE Append(smp, s)
    PROVE  LoopAt(r, column, n + 1, violation + 1, skipped, smp2)
<1>1. Rank(r, column, n + 1) = violation + 1
    BY CountViolations DEF LoopAt, Rank
<1>2. Len(smp) = Capped(violation)
    BY DEF LoopAt, FirstSampled
<1>3. ASSUME NEW i \in 1 .. n, Violates(r, column, i)
      PROVE  /\ Rank(r, column, i) \in 1 .. violation
             /\ Rank(r, column, i) <= VIOLATION_SAMPLE_LIMIT =>
                   smp[Rank(r, column, i)].row_number = i
    BY <1>3 DEF LoopAt, FirstSampled
<1>4. FirstSampled(r, column, n + 1, violation + 1, smp2)
    <2>1. CASE violation >= VIOLATION_SAMPLE_LIMIT
        <3>1. smp2 = smp /\ Capped(violation + 1) = Capped(violation)
            BY <1>2, <2>1, EngineAssumption DEF Capped
        <3> QED
            BY <1>1, <1>2, <1>3, <2>1, <3>1, EngineAssumption DEF FirstSampled
    <2>2. CASE violation < VIOLATION_SAMPLE_LIMIT
        <3>1. /\ smp2 = Append(smp, s) /\ Len(smp) = violation
              /\ Capped(violation + 1) = violation + 1
            BY <1>2, <2>2, EngineAssumption DEF Capped
        <3>2. /\ Len(smp2) = violation + 1
              /\ smp2[violation + 1] = s
              /\ \A k \in 1 .. violation : smp2[k] = smp[k]
            BY <3>1
        <3> QED
            BY <1>1, <1>3, <3>1, <3>2 DEF FirstSampled
    <2> QED
        BY <2>1, <2>2, EngineAssumption
<1> QED
    BY <1>4, CountViolations, CountSkips DEF LoopAt

----------------------------------------------------------------------------
(* What each rule means for one cell.                                      *)

LEMMA RuleTypes ==
    ASSUME NEW r \in Rules
    PROVE  r.rule_type \in {"required", "unique", "type", "range", "regex"}
BY EngineAssumption DEF RuleSpec

LEMMA RequiredMeans ==
    ASSUME NEW r, NEW column, NEW i, r.rule_type = "required"
    PROVE  Violates(r, column, i) <=> IsMissing(column[i])
BY DEF Violates, IsMissing

LEMMA UniqueMeans ==
    ASSUME NEW r, NEW column, NEW i, r.rule_type = "unique"
    PROVE  Violates(r, column, i) <=>
              ~IsMissing(column[i]) /\ \E j \in 1 .. i - 1 : column[j] = column[i]
BY DEF Violates, IsMissing

LEMMA TypeMeans ==
    ASSUME NEW r, NEW column, NEW i, r.rule_type = "type"
    PROVE  Violates(r, column, i) <=>
              ~IsMissing(column[i]) /\ ~MatchesType(column[i], r.expected_type)
BY DEF Violates, IsMissing

LEMMA RangeMeans ==
    ASSUME NEW r, NEW column, NEW i, r.rule_type = "range"
    PROVE  Violates(r, column, i) <=>
              ~IsMissing(column[i]) /\ ~WithinRange(column[i], r)
BY DEF Violates, IsMissing

LEMMA RegexMeans ==
    ASSUME NEW r, NEW column, NEW i, r.rule_type = "regex"
    PROVE  Violates(r, column, i) <=>
              ~IsMissing(column[i]) /\ column[i] \notin Matches[r.pattern]
BY DEF Violates, IsMissing

\* A rule that the API's schemas accept, for a column of the table, is one
\* that _validate_inputs accepts.
LEMMA AcceptedIsValid ==
    ASSUME NEW r \in Rules, r.target_column \in Header, SchemaAccepts(r)
    PROVE  RuleIsValid(r)
<1>1. r \in RuleSpec
    BY EngineAssumption
<1>2. CASE r.rule_type = "type"
    <2>1. r.expected_type # "unsupported"
        BY <1>2 DEF SchemaAccepts
    <2> QED
        BY <1>1, <1>2, <2>1 DEF RuleIsValid, RuleSpec
<1>3. CASE r.rule_type = "range"
    <2>1. /\ NotFinite \notin {r.minimum, r.maximum}
          /\ ~(r.minimum = Null /\ r.maximum = Null)
          /\ r.minimum # Null /\ r.maximum # Null => ~(r.minimum > r.maximum)
        BY <1>3 DEF SchemaAccepts
    <2>2. r.minimum \in Boundary /\ r.maximum \in Boundary
        BY <1>1, <1>3 DEF RuleSpec
    <2>3. RangeIsValid(r)
        BY <2>1, <2>2 DEF RangeIsValid, Boundary
    <2> QED
        BY <1>3, <2>3 DEF RuleIsValid
<1>4. CASE r.rule_type = "regex"
    <2>1. r.pattern \in DOMAIN Matches
        BY <1>4 DEF SchemaAccepts
    <2> QED
        BY <1>4, <2>1 DEF RuleIsValid, PatternIsValid
<1>5. CASE r.rule_type \in {"required", "unique"}
    BY <1>5 DEF RuleIsValid
<1> QED
    BY <1>2, <1>3, <1>4, <1>5, RuleTypes

----------------------------------------------------------------------------
(* The inductive invariant.                                                *)

RuleResult ==
    [rule : Rules, evaluated_count : Nat, passed_count : Nat, violation_count : Nat,
     skipped_count : Nat, violation_samples : Seq(Sample)]

EngineTypes ==
    /\ height \in 0 .. MaxRows
    /\ data \in [Header -> [1 .. height -> Cells]]
    /\ rules \in Seq(Rules)
    /\ epc \in EnginePcs
    /\ row \in 1 .. height + 1
    /\ tally \in [violation : Nat, skipped : Nat]
    /\ seen \in SUBSET Texts
    /\ samples \in Seq(Sample)
    /\ results \in Seq(RuleResult)

\* A result is the loop's outcome after the last row.
ResultIsDue(res, r, column, h) ==
    /\ res.rule = r
    /\ LoopAt(r, column, h, res.violation_count, res.skipped_count, res.violation_samples)
    /\ res.evaluated_count + res.skipped_count = h
    /\ res.evaluated_count = res.passed_count + res.violation_count

FinishedAreDue ==
    /\ Len(results) <= Len(rules)
    /\ \A k \in 1 .. Len(results) :
          ResultIsDue(results[k], rules[k], data[rules[k].target_column], height)

SeenSoFar(column, n, S) ==
    \A v \in Texts : v \in S <=> ~IsMissing(v) /\ \E j \in 1 .. n : column[j] = v

CurrentInLoop ==
    epc = "rows" =>
        /\ Len(results) < Len(rules)
        /\ \A k \in 1 .. Len(rules) : rules[k].target_column \in Header
        /\ LoopAt(Rule, data[Rule.target_column], row - 1, tally.violation, tally.skipped,
                  samples)
        /\ Rule.rule_type = "unique" => SeenSoFar(data[Rule.target_column], row - 1, seen)

\* No rule leaves anything behind for the next one, nor for the caller.
AtRest ==
    /\ epc # "rows" => row = 1 /\ tally = NoTally /\ seen = {} /\ samples = <<>>
    /\ epc = "validating" => results = <<>>

ResultsKept ==
    /\ epc # "inconsistent"
    /\ epc \in {"scoring", "persisted"} => Len(results) = Len(rules)
    /\ epc = "persisted" => analysis.rule_results = results

EngineInv ==
    /\ EngineTypes
    /\ FinishedAreDue
    /\ CurrentInLoop
    /\ AtRest
    /\ ResultsKept
    /\ StoredRulesAreAccepted

LEMMA EngineInit == Init => EngineInv
<1> SUFFICES ASSUME Init
             PROVE  EngineInv
    OBVIOUS
<1>1. rules \in Seq(Rules)
    BY DEF Init, BoundedSeq, SeqOf
<1>2. EngineTypes
    BY <1>1, EngineAssumption DEF Init, EngineTypes, EnginePcs, NoTally
<1>3. FinishedAreDue
    BY <1>1 DEF Init, FinishedAreDue
<1> QED
    BY <1>2, <1>3 DEF Init, EngineInv, CurrentInLoop, AtRest, ResultsKept,
       StoredRulesAreAccepted

LEMMA ValidateInputsInv ==
    ASSUME EngineInv, ValidateInputs
    PROVE  EngineInv'
<1>1. /\ results = <<>> /\ row = 1 /\ tally = NoTally /\ seen = {} /\ samples = <<>>
      /\ epc = "validating" /\ rules \in Seq(Rules)
      /\ UNCHANGED <<data, height, rules, row, tally, seen, samples, results, analysis>>
    BY DEF EngineInv, AtRest, ValidateInputs, EngineTypes
<1> DEFINE Accepted ==
        /\ \A k, m \in DOMAIN rules : rules[k].rule_id = rules[m].rule_id => k = m
        /\ \A k \in DOMAIN rules : RuleIsValid(rules[k])
<1>2. CASE Accepted /\ rules = <<>>
    <2>1. epc' = "scoring"
        BY <1>2 DEF ValidateInputs
    <2> QED
        BY <1>1, <1>2, <2>1 DEF EngineInv, EngineTypes, EnginePcs, FinishedAreDue,
           CurrentInLoop, AtRest, ResultsKept, StoredRulesAreAccepted
<1>3. CASE Accepted /\ rules # <<>>
    <2>1. epc' = "rows"
        BY <1>3 DEF ValidateInputs
    <2>2. 0 < Len(rules) /\ Len(results) = 0
        BY <1>1, <1>3
    <2>3. \A k \in 1 .. Len(rules) : rules[k].target_column \in Header
        BY <1>1, <1>3 DEF RuleIsValid
    <2>4. CurrentInLoop'
        BY <1>1, <2>1, <2>2, <2>3, LoopStarts DEF CurrentInLoop, Rule, NoTally, SeenSoFar
    <2> QED
        BY <1>1, <2>1, <2>4 DEF EngineInv, EngineTypes, EnginePcs, FinishedAreDue,
           AtRest, ResultsKept, StoredRulesAreAccepted
<1>4. CASE ~Accepted
    <2>1. epc' = "rejected"
        BY <1>4 DEF ValidateInputs
    <2>2. \A k \in DOMAIN rules : rules[k] \in Rules
        BY <1>1
    <2>3. StoredRulesAreAccepted'
        BY <1>1, <1>4, <2>2, AcceptedIsValid DEF StoredRulesAreAccepted
    <2> QED
        BY <1>1, <2>1, <2>3 DEF EngineInv, EngineTypes, EnginePcs, FinishedAreDue,
           CurrentInLoop, AtRest, ResultsKept
<1> QED
    BY <1>2, <1>3, <1>4

----------------------------------------------------------------------------
(* One row of a loop.                                                      *)

RowPasses ==
    /\ ~Violates(Rule, data[Rule.target_column], row)
    /\ ~Skipped(Rule, data[Rule.target_column], row)
    /\ Pass

RowSkips ==
    /\ ~Violates(Rule, data[Rule.target_column], row)
    /\ Skipped(Rule, data[Rule.target_column], row)
    /\ Skip

RowViolates ==
    /\ Violates(Rule, data[Rule.target_column], row)
    /\ ~Skipped(Rule, data[Rule.target_column], row)
    /\ Violation

\* What the loops of the four functions have in common.
RowStep ==
    /\ epc = "rows" /\ row <= height
    /\ RowPasses \/ RowSkips \/ RowViolates
    /\ seen' \in SUBSET Texts
    /\ Rule.rule_type = "unique" => SeenSoFar(data[Rule.target_column], row, seen')
    /\ NextRow

LEMMA InLoopFacts ==
    ASSUME EngineInv, epc = "rows", row <= height
    PROVE  /\ Rule \in Rules /\ Rule.target_column \in Header
           /\ row \in 1 .. height /\ row \in 1 .. MaxRows
           /\ Cell \in Cells /\ Cell = data[Rule.target_column][row]
<1>1. Len(results) + 1 \in 1 .. Len(rules)
    BY DEF EngineInv, CurrentInLoop, EngineTypes
<1>2. Rule \in Rules /\ Rule.target_column \in Header
    BY <1>1 DEF EngineInv, CurrentInLoop, EngineTypes, Rule
<1>3. row \in 1 .. height /\ row \in 1 .. MaxRows
    BY EngineAssumption DEF EngineInv, EngineTypes
<1> QED
    BY <1>2, <1>3 DEF EngineInv, EngineTypes, Cell

LEMMA RowStepInv ==
    ASSUME EngineInv, RowStep
    PROVE  EngineInv'
<1>1. /\ Rule \in Rules /\ Rule.target_column \in Header /\ row \in 1 .. height
      /\ row \in 1 .. MaxRows /\ Cell \in Cells
    BY InLoopFacts DEF RowStep
<1>2. /\ UNCHANGED <<data, height, rules, epc, results, analysis>> /\ row' = row + 1
      /\ Rule' = Rule /\ epc = "rows"
    BY DEF RowStep, NextRow, Rule
<1>3. PICK column : column = data[Rule.target_column]
    OBVIOUS
<1>4. /\ LoopAt(Rule, column, row - 1, tally.violation, tally.skipped, samples)
      /\ tally \in [violation : Nat, skipped : Nat] /\ samples \in Seq(Sample)
      /\ row - 1 \in Nat /\ (row - 1) + 1 = row
    BY <1>1, <1>2, <1>3 DEF EngineInv, CurrentInLoop, EngineTypes
<1>5. /\ LoopAt(Rule, column, row, tally'.violation, tally'.skipped, samples')
      /\ tally' \in [violation : Nat, skipped : Nat] /\ samples' \in Seq(Sample)
    <2>1. CASE RowPasses
        BY <1>3, <1>4, <2>1, LoopPasses DEF RowPasses, Pass
    <2>2. CASE RowSkips
        <3>1. /\ tally'.violation = tally.violation /\ tally'.skipped = tally.skipped + 1
              /\ tally' \in [violation : Nat, skipped : Nat] /\ samples' = samples
            BY <1>4, <2>2 DEF RowSkips, Skip
        <3> QED
            BY <1>3, <1>4, <2>2, <3>1, LoopSkips DEF RowSkips
    <2>3. CASE RowViolates
        <3>1. /\ tally'.violation = tally.violation + 1 /\ tally'.skipped = tally.skipped
              /\ tally' \in [violation : Nat, skipped : Nat]
            BY <1>4, <2>3 DEF RowViolates, Violation
        <3>2. samples' = IF Len(samples) >= VIOLATION_SAMPLE_LIMIT THEN samples
                         ELSE Append(samples, ViolationSample(Cell))
            BY <2>3 DEF RowViolates, Violation, AppendSample
        <3>3. ViolationSample(Cell) \in Sample /\ ViolationSample(Cell).row_number = row
            BY <1>1, EngineAssumption DEF ViolationSample, Sample, Cells
        <3>4. samples' \in Seq(Sample)
            BY <1>4, <3>2, <3>3
        <3>5. Violates(Rule, column, (row - 1) + 1) /\ ~Skipped(Rule, column, (row - 1) + 1)
            BY <1>3, <1>4, <2>3 DEF RowViolates
        <3>6. LoopAt(Rule, column, (row - 1) + 1, tally.violation + 1, tally.skipped, samples')
            BY <1>4, <3>2, <3>3, <3>5, LoopViolates
        <3> QED
            BY <1>4, <3>1, <3>4, <3>6
    <2> QED
        BY <2>1, <2>2, <2>3 DEF RowStep
<1>6. EngineTypes'
    BY <1>1, <1>2, <1>5 DEF EngineInv, EngineTypes, RowStep
<1>7. CurrentInLoop'
    <2>1. row' - 1 = row /\ data'[Rule'.target_column] = column
        BY <1>1, <1>2, <1>3
    <2>2. Rule.rule_type = "unique" => SeenSoFar(column, row, seen')
        BY <1>3 DEF RowStep
    <2> QED
        BY <1>2, <1>5, <2>1, <2>2 DEF EngineInv, CurrentInLoop
<1>8. FinishedAreDue' /\ AtRest' /\ ResultsKept' /\ StoredRulesAreAccepted'
    BY <1>2 DEF EngineInv, FinishedAreDue, AtRest, ResultsKept, StoredRulesAreAccepted
<1> QED
    BY <1>6, <1>7, <1>8 DEF EngineInv

LEMMA RequiredRowSteps ==
    ASSUME EngineInv, RequiredRow
    PROVE  RowStep
<1>1. /\ epc = "rows" /\ row <= height /\ Rule.rule_type = "required"
      /\ IF IsMissing(Cell) THEN Violation ELSE Pass
      /\ UNCHANGED seen /\ NextRow
    BY DEF RequiredRow, InLoop
<1>2. /\ Violates(Rule, data[Rule.target_column], row) <=> IsMissing(Cell)
      /\ ~Skipped(Rule, data[Rule.target_column], row)
    BY <1>1, RequiredMeans DEF Cell, Skipped
<1>3. RowPasses \/ RowViolates
    BY <1>1, <1>2 DEF RowPasses, RowViolates
<1> QED
    BY <1>1, <1>3 DEF RowStep, EngineInv, EngineTypes

LEMMA NonMissingRowSteps ==
    ASSUME EngineInv, NonMissingRow
    PROVE  RowStep
<1>1. /\ epc = "rows" /\ row <= height /\ Rule.rule_type \in {"type", "range"}
      /\ UNCHANGED seen /\ NextRow
    BY DEF NonMissingRow, InLoop
<1>2. Skipped(Rule, data[Rule.target_column], row) <=> IsMissing(Cell)
    BY <1>1 DEF Cell, Skipped
<1>3. RowPasses \/ RowSkips \/ RowViolates
    <2>1. CASE Rule.rule_type = "type"
        <3>1. Violates(Rule, data[Rule.target_column], row) <=>
                 ~IsMissing(Cell) /\ ~MatchesType(Cell, Rule.expected_type)
            BY <2>1, TypeMeans DEF Cell
        <3>2. IF IsMissing(Cell) THEN Skip
              ELSE IF MatchesType(Cell, Rule.expected_type) THEN Pass ELSE Violation
            BY <2>1 DEF NonMissingRow
        <3> QED
            BY <1>2, <3>1, <3>2 DEF RowPasses, RowSkips, RowViolates
    <2>2. CASE Rule.rule_type = "range"
        <3>1. Violates(Rule, data[Rule.target_column], row) <=>
                 ~IsMissing(Cell) /\ ~WithinRange(Cell, Rule)
            BY <2>2, RangeMeans DEF Cell
        <3>2. IF IsMissing(Cell) THEN Skip
              ELSE IF WithinRange(Cell, Rule) THEN Pass ELSE Violation
            BY <2>2 DEF NonMissingRow
        <3> QED
            BY <1>2, <3>1, <3>2 DEF RowPasses, RowSkips, RowViolates
    <2> QED
        BY <1>1, <2>1, <2>2
<1> QED
    BY <1>1, <1>3 DEF RowStep, EngineInv, EngineTypes

LEMMA RegexRowSteps ==
    ASSUME EngineInv, RegexRow
    PROVE  RowStep
<1>1. /\ epc = "rows" /\ row <= height /\ Rule.rule_type = "regex"
      /\ IF IsMissing(Cell) THEN Skip
         ELSE IF Cell \in Matches[Rule.pattern] THEN Pass ELSE Violation
      /\ UNCHANGED seen /\ NextRow
    BY DEF RegexRow, InLoop
<1>2. /\ Violates(Rule, data[Rule.target_column], row) <=>
            ~IsMissing(Cell) /\ Cell \notin Matches[Rule.pattern]
      /\ Skipped(Rule, data[Rule.target_column], row) <=> IsMissing(Cell)
    BY <1>1, RegexMeans DEF Cell, Skipped
<1>3. RowPasses \/ RowSkips \/ RowViolates
    BY <1>1, <1>2 DEF RowPasses, RowSkips, RowViolates
<1> QED
    BY <1>1, <1>3 DEF RowStep, EngineInv, EngineTypes

LEMMA UniqueRowSteps ==
    ASSUME EngineInv, UniqueRow
    PROVE  RowStep
<1>1. /\ epc = "rows" /\ row <= height /\ Rule.rule_type = "unique"
      /\ IF IsMissing(Cell) THEN Skip /\ UNCHANGED seen
         ELSE IF Cell \in seen THEN Violation /\ UNCHANGED seen
         ELSE Pass /\ seen' = seen \cup {Cell}
      /\ NextRow
    BY DEF UniqueRow, InLoop
<1>2. PICK column : column = data[Rule.target_column]
    OBVIOUS
<1>3. /\ row \in 1 .. height /\ Cell = column[row] /\ Cell \in Texts \cup {Null}
      /\ seen \in SUBSET Texts
      /\ SeenSoFar(column, row - 1, seen)
    BY <1>1, <1>2, InLoopFacts DEF EngineInv, CurrentInLoop, EngineTypes, Cells
<1>4. ~IsMissing(Cell) => Cell \in Texts
    BY <1>3 DEF IsMissing
<1>5. /\ Violates(Rule, column, row) <=>
            ~IsMissing(Cell) /\ \E j \in 1 .. row - 1 : column[j] = Cell
      /\ Skipped(Rule, column, row) <=> IsMissing(Cell)
    BY <1>1, <1>3, UniqueMeans DEF Skipped
<1>6. ~IsMissing(Cell) => (Cell \in seen <=> Violates(Rule, column, row))
    BY <1>3, <1>4, <1>5 DEF SeenSoFar
<1>7. RowPasses \/ RowSkips \/ RowViolates
    BY <1>1, <1>2, <1>5, <1>6 DEF RowPasses, RowSkips, RowViolates
<1>8. seen' = IF IsMissing(Cell) THEN seen ELSE seen \cup {Cell}
    BY <1>1
<1>9. seen' \in SUBSET Texts
    BY <1>3, <1>4, <1>8
<1>10. SeenSoFar(column, row, seen')
    <2> SUFFICES ASSUME NEW v \in Texts
                 PROVE  v \in seen' <=> ~IsMissing(v) /\ \E j \in 1 .. row : column[j] = v
        BY DEF SeenSoFar
    <2>1. v \in seen <=> ~IsMissing(v) /\ \E j \in 1 .. row - 1 : column[j] = v
        BY <1>3 DEF SeenSoFar
    <2>2. (\E j \in 1 .. row : column[j] = v) <=>
             column[row] = v \/ \E j \in 1 .. row - 1 : column[j] = v
        BY <1>3
    <2> QED
        BY <1>3, <1>8, <2>1, <2>2
<1> QED
    BY <1>1, <1>2, <1>7, <1>9, <1>10 DEF RowStep

----------------------------------------------------------------------------
(* The end of a rule, and of the analysis.                                 *)

LEMMA FinishRuleInv ==
    ASSUME EngineInv, FinishRule
    PROVE  EngineInv'
<1> DEFINE evaluated == IF Rule.rule_type = "required" THEN height
                        ELSE height - tally.skipped
           res == [rule |-> Rule, evaluated_count |-> evaluated,
                   passed_count |-> evaluated - tally.violation,
                   violation_count |-> tally.violation, skipped_count |-> tally.skipped,
                   violation_samples |-> samples]
<1>1. /\ epc = "rows" /\ row > height /\ results' = Append(results, res)
      /\ row' = 1 /\ tally' = NoTally /\ seen' = {} /\ samples' = <<>>
      /\ epc' = IF Len(results') = Len(rules) THEN "scoring" ELSE "rows"
      /\ UNCHANGED <<data, height, rules, analysis>>
    BY DEF FinishRule
<1>2. /\ height \in Nat /\ row - 1 = height /\ Len(results) < Len(rules)
      /\ Len(results) \in Nat /\ Len(rules) \in Nat
      /\ \A k \in 1 .. Len(rules) : rules[k] \in Rules /\ rules[k].target_column \in Header
      /\ Rule = rules[Len(results) + 1] /\ Rule \in Rules
      /\ tally.violation \in Nat /\ tally.skipped \in Nat /\ samples \in Seq(Sample)
      /\ LoopAt(Rule, data[Rule.target_column], height, tally.violation, tally.skipped,
                samples)
    <2>1. height \in Nat /\ row - 1 = height
        BY <1>1, EngineAssumption DEF EngineInv, EngineTypes
    <2>2. /\ Len(results) < Len(rules) /\ Len(results) \in Nat /\ Len(rules) \in Nat
          /\ \A k \in 1 .. Len(rules) : rules[k] \in Rules /\ rules[k].target_column \in Header
        BY <1>1 DEF EngineInv, EngineTypes, CurrentInLoop
    <2>3. Rule = rules[Len(results) + 1] /\ Len(results) + 1 \in 1 .. Len(rules)
        BY <2>2 DEF Rule
    <2>4. tally.violation \in Nat /\ tally.skipped \in Nat /\ samples \in Seq(Sample)
        BY DEF EngineInv, EngineTypes
    <2>5. LoopAt(Rule, data[Rule.target_column], row - 1, tally.violation, tally.skipped,
                 samples)
        BY <1>1 DEF EngineInv, CurrentInLoop
    <2> QED
        BY <2>1, <2>2, <2>3, <2>4, <2>5
<1>3. /\ evaluated \in Nat /\ evaluated + tally.skipped = height
      /\ evaluated - tally.violation \in Nat
      /\ evaluated = (evaluated - tally.violation) + tally.violation
    BY <1>2 DEF LoopAt
<1>4. res \in RuleResult /\ ResultIsDue(res, Rule, data[Rule.target_column], height)
    BY <1>2, <1>3 DEF RuleResult, ResultIsDue
<1> HIDE DEF res
<1>5. /\ results' \in Seq(RuleResult) /\ Len(results') = Len(results) + 1
      /\ results'[Len(results) + 1] = res
      /\ \A k \in 1 .. Len(results) : results'[k] = results[k]
    BY <1>1, <1>4 DEF EngineInv, EngineTypes
<1>6. FinishedAreDue'
    BY <1>1, <1>2, <1>4, <1>5 DEF EngineInv, FinishedAreDue
<1>7. EngineTypes'
    BY <1>1, <1>2, <1>5 DEF EngineInv, EngineTypes, EnginePcs, NoTally
<1>8. CurrentInLoop'
    <2> SUFFICES ASSUME epc' = "rows"
                 PROVE  CurrentInLoop'
        BY DEF CurrentInLoop
    <2>1. Len(results') < Len(rules)
        BY <1>1, <1>2, <1>5
    <2> QED
        BY <1>1, <1>2, <2>1, LoopStarts DEF CurrentInLoop, NoTally, SeenSoFar
<1>9. AtRest' /\ ResultsKept' /\ StoredRulesAreAccepted'
    BY <1>1 DEF AtRest, ResultsKept, StoredRulesAreAccepted
<1> QED
    BY <1>6, <1>7, <1>8, <1>9 DEF EngineInv

LEMMA PersistResultsInv ==
    ASSUME EngineInv, PersistResults
    PROVE  EngineInv'
<1>1. /\ epc = "scoring" /\ Len(results) = Len(rules)
      /\ UNCHANGED <<data, height, rules, row, tally, seen, samples, results>>
    BY DEF EngineInv, ResultsKept, PersistResults
<1>2. \A k \in DOMAIN results :
         /\ results[k].rule = rules[k]
         /\ results[k].evaluated_count + results[k].skipped_count = height
    <2>1. DOMAIN results = 1 .. Len(results)
        BY DEF EngineInv, EngineTypes
    <2>2. \A k \in 1 .. Len(results) :
             ResultIsDue(results[k], rules[k], data[rules[k].target_column], height)
        BY DEF EngineInv, FinishedAreDue
    <2> QED
        BY <2>1, <2>2 DEF ResultIsDue
<1>3. epc' = "persisted" /\ analysis'.rule_results = results
    BY <1>1, <1>2 DEF PersistResults
<1> QED
    BY <1>1, <1>3 DEF EngineInv, EngineTypes, EnginePcs, FinishedAreDue, CurrentInLoop,
       AtRest, ResultsKept, StoredRulesAreAccepted

LEMMA EngineStep == EngineInv /\ [Next]_vars => EngineInv'
<1> SUFFICES ASSUME EngineInv, [Next]_vars
             PROVE  EngineInv'
    OBVIOUS
<1>1. CASE UNCHANGED vars
    BY <1>1 DEF vars, EngineInv, EngineTypes, FinishedAreDue, CurrentInLoop, AtRest,
       ResultsKept, StoredRulesAreAccepted, Rule
<1>2. CASE RequiredRow \/ UniqueRow \/ NonMissingRow \/ RegexRow
    BY <1>2, RequiredRowSteps, UniqueRowSteps, NonMissingRowSteps, RegexRowSteps, RowStepInv
<1> QED
    BY <1>1, <1>2, ValidateInputsInv, FinishRuleInv, PersistResultsInv DEF Next, Ended

----------------------------------------------------------------------------
(* The invariant and its consequences.                                     *)

\* The loop invariant of validate holds at every row of every rule.
THEOREM EngineInvariance == Spec => []EngineInv
BY EngineInit, EngineStep, PTL DEF Spec

\* What the invariant says of the results, by their index.
LEMMA DueByIndex ==
    ASSUME EngineInv, NEW k \in DOMAIN results
    PROVE  /\ ResultIsDue(results[k], rules[k], data[rules[k].target_column], height)
           /\ results[k] \in RuleResult /\ height \in Nat
<1>1. results \in Seq(RuleResult) /\ DOMAIN results = 1 .. Len(results)
    BY DEF EngineInv, EngineTypes
<1>2. height \in Nat
    BY EngineAssumption DEF EngineInv, EngineTypes
<1> QED
    BY <1>1, <1>2 DEF EngineInv, FinishedAreDue

\* Type correctness, for every table: the counters stay within the height and
\* the samples within VIOLATION_SAMPLE_LIMIT.
THEOREM EngineTypesHold == Spec => []EngineTypeOK
<1>1. EngineInv => EngineTypeOK
    <2> SUFFICES ASSUME EngineInv
                 PROVE  EngineTypeOK
        OBVIOUS
    <2> USE EngineAssumption
    <2>1. height \in Nat /\ height <= MaxRows
        BY DEF EngineInv, EngineTypes
    <2>2. /\ \A k \in DOMAIN rules : rules[k] \in Rules
          /\ \A i \in DOMAIN samples : samples[i] \in Sample
          /\ row \in 1 .. MaxRows + 1
        BY <2>1 DEF EngineInv, EngineTypes
    <2>3. /\ tally.violation \in 0 .. height /\ tally.skipped \in 0 .. height
          /\ Len(samples) <= VIOLATION_SAMPLE_LIMIT
        <3>1. CASE epc = "rows"
            <4>1. /\ tally.violation \in Nat /\ tally.skipped \in Nat /\ row - 1 <= height
                  /\ row - 1 \in Nat
                BY <2>1 DEF EngineInv, EngineTypes
            <4>2. /\ tally.violation + tally.skipped <= row - 1
                  /\ Len(samples) = Capped(tally.violation)
                BY <3>1 DEF EngineInv, CurrentInLoop, LoopAt, FirstSampled
            <4> QED
                BY <2>1, <4>1, <4>2 DEF Capped
        <3>2. CASE epc # "rows"
            BY <2>1, <3>2 DEF EngineInv, AtRest, NoTally
        <3> QED
            BY <3>1, <3>2
    <2>4. ASSUME NEW k \in DOMAIN results
          PROVE  /\ results[k].evaluated_count \in 0 .. height
                 /\ results[k].passed_count \in 0 .. height
        BY DueByIndex DEF ResultIsDue, RuleResult
    <2> QED
        BY <2>2, <2>3, <2>4 DEF EngineInv, EngineTypes, FinishedAreDue, EngineTypeOK
<1> QED
    BY <1>1, EngineInvariance, PTL

\* validate counts, for every rule and every table, exactly the cells that
\* violate the rule and exactly those it skips.
THEOREM CountsAreExact == Spec => []CountsMatchMeaning
<1>1. EngineInv => CountsMatchMeaning
    <2> SUFFICES ASSUME EngineInv
                 PROVE  CountsMatchMeaning
        OBVIOUS
    <2>1. ASSUME NEW k \in DOMAIN results
          PROVE  LET r == results[k].rule
                     column == data[r.target_column]
                 IN  /\ results[k].violation_count =
                           Cardinality({i \in 1 .. height : Violates(r, column, i)})
                     /\ results[k].skipped_count =
                           Cardinality({i \in 1 .. height :
                               /\ r.rule_type # "required"
                               /\ column[i] = Null \/ Lexis[column[i]].blank})
        <3> DEFINE r == results[k].rule
                   column == data[r.target_column]
        <3>1. ResultIsDue(results[k], r, column, height)
            BY DueByIndex DEF ResultIsDue
        <3>2. /\ results[k].violation_count = Cardinality(ViolationsIn(r, column, height))
              /\ results[k].skipped_count = Cardinality(SkipsIn(r, column, height))
            BY <3>1 DEF ResultIsDue, LoopAt
        <3> HIDE DEF r, column
        <3>3. /\ ViolationsIn(r, column, height) =
                    {i \in 1 .. height : Violates(r, column, i)}
              /\ SkipsIn(r, column, height) =
                    {i \in 1 .. height : /\ r.rule_type # "required"
                                         /\ column[i] = Null \/ Lexis[column[i]].blank}
            BY DEF ViolationsIn, SkipsIn, Skipped, IsMissing
        <3>4. /\ results[k].violation_count =
                    Cardinality({i \in 1 .. height : Violates(r, column, i)})
              /\ results[k].skipped_count =
                    Cardinality({i \in 1 .. height :
                        /\ r.rule_type # "required"
                        /\ column[i] = Null \/ Lexis[column[i]].blank})
            BY <3>2, <3>3
        <3> QED
            BY <3>4 DEF r, column
    <2> QED
        BY <2>1 DEF CountsMatchMeaning
<1> QED
    BY <1>1, EngineInvariance, PTL

\* The samples of every rule are its first violations in row order, as many as
\* VIOLATION_SAMPLE_LIMIT allows.
THEOREM SamplesAreExact == Spec => []SamplesAreFirstViolations
<1>1. EngineInv => SamplesAreFirstViolations
    <2> SUFFICES ASSUME EngineInv, NEW k \in DOMAIN results, NEW res, res = results[k],
                        NEW column, column = data[res.rule.target_column]
                 PROVE  /\ Len(res.violation_samples) = Capped(res.violation_count)
                        /\ \A i \in 1 .. height :
                              /\ Violates(res.rule, column, i)
                              /\ Rank(res.rule, column, i) <= VIOLATION_SAMPLE_LIMIT
                              => res.violation_samples[Rank(res.rule, column, i)].row_number = i
        BY DEF SamplesAreFirstViolations, Capped, Rank, ViolationsIn
    <2>1. ResultIsDue(res, res.rule, column, height)
        BY DueByIndex DEF ResultIsDue
    <2> QED
        BY <2>1 DEF ResultIsDue, LoopAt, FirstSampled
<1> QED
    BY <1>1, EngineInvariance, PTL

\* The AnalysisDataIntegrityErrors of _persist_analysis and the constraints of
\* validation_results never fire.
THEOREM ResultsFit == Spec => []ResultsAlwaysFit
<1>1. EngineInv => ResultsAlwaysFit
    <2> SUFFICES ASSUME EngineInv, epc = "persisted", NEW k \in DOMAIN rules
                 PROVE  LET res == analysis.rule_results[k] IN
                        /\ res.evaluated_count = res.passed_count + res.violation_count
                        /\ res.passed_count >= 0
                        /\ res.evaluated_count + res.skipped_count = height
        BY DEF ResultsAlwaysFit, EngineInv, ResultsKept
    <2>1. analysis.rule_results = results /\ k \in DOMAIN results
        BY DEF EngineInv, ResultsKept, EngineTypes
    <2>2. results[k].passed_count \in Nat
        BY <2>1, DueByIndex DEF RuleResult
    <2> QED
        BY <2>1, <2>2, DueByIndex DEF ResultIsDue
<1> QED
    BY <1>1, EngineInvariance, PTL

\* What create_rule stored, the engine accepts.
THEOREM StoredRulesHold == Spec => []StoredRulesAreAccepted
<1>1. EngineInv => StoredRulesAreAccepted
    BY DEF EngineInv
<1> QED
    BY <1>1, EngineInvariance, PTL

----------------------------------------------------------------------------
(* The score.                                                              *)

\* Quantize rounds the ratio half up to hundredths and stays within 0 and 100,
\* for counts of any size: s/100 is at most half a hundredth above the ratio
\* and less than half a hundredth below it.
THEOREM QuantizeRoundsHalfUp ==
    ASSUME NEW evaluated \in Nat \ {0}, NEW passed \in 0 .. evaluated,
           NEW s, s = Quantize(passed, evaluated)
    PROVE  Rounded(s, passed, evaluated)
<1> DEFINE h == (10000 * passed) \div evaluated
           rest == (10000 * passed) % evaluated
<1>1. /\ h \in Int /\ rest \in Int /\ 0 <= rest /\ rest < evaluated
      /\ 10000 * passed = h * evaluated + rest
    OBVIOUS
<1>2. s = IF 2 * rest >= evaluated THEN h + 1 ELSE h
    BY DEF Quantize
<1> HIDE DEF h, rest
<1>3. PICK m \in Int : m = h * evaluated
    BY <1>1
<1>4. h * evaluated = m /\ (h + 1) * evaluated = m + evaluated
    BY <1>1, <1>3
<1>sum. /\ h \in Int /\ rest \in Int /\ 0 <= rest /\ rest < evaluated
        /\ 20000 * passed = 2 * m + 2 * rest
    BY <1>1, <1>4
<1>5. 0 <= h /\ h <= 10000 /\ (0 < rest => h < 10000)
    <2>1. ASSUME h < 0
          PROVE  FALSE
        BY <1>1, <2>1
    <2>2. ASSUME h > 10000
          PROVE  FALSE
        BY <1>1, <2>2
    <2>3. ASSUME 0 < rest, h = 10000
          PROVE  FALSE
        BY <1>1, <2>3
    <2> QED
        BY <1>1, <2>1, <2>2, <2>3
<1>6. ASSUME 2 * rest >= evaluated
      PROVE  Rounded(s, passed, evaluated)
    <2>1. s = h + 1 /\ 2 * s * evaluated = 2 * m + 2 * evaluated
        BY <1>1, <1>2, <1>4, <1>6
    <2>2. s \in 0 .. 10000
        BY <1>sum, <1>5, <1>6, <2>1
    <2>3. /\ 2 * m + 2 * evaluated - evaluated <= 20000 * passed
          /\ 20000 * passed < 2 * m + 2 * evaluated + evaluated
        BY <1>sum, <1>6
    <2> QED
        BY <2>1, <2>2, <2>3 DEF Rounded
<1>7. ASSUME ~(2 * rest >= evaluated)
      PROVE  Rounded(s, passed, evaluated)
    <2>1. s = h /\ 2 * s * evaluated = 2 * m
        BY <1>1, <1>2, <1>4, <1>7
    <2>2. s \in 0 .. 10000
        BY <1>sum, <1>5, <1>7, <2>1
    <2>3. /\ 2 * m - evaluated <= 20000 * passed
          /\ 20000 * passed < 2 * m + evaluated
        BY <1>sum, <1>7
    <2> QED
        BY <2>1, <2>2, <2>3 DEF Rounded
<1> QED
    BY <1>6, <1>7

----------------------------------------------------------------------------
(* Sums.  The fold is a recursion on the subsets of its domain; that it has *)
(* a solution, and what the solution adds up to, is shown by induction on   *)
(* their size.                                                              *)

\* Induction as a fact about sets of numbers.
LEMMA NatSetInduction ==
    ASSUME NEW T \in SUBSET Nat, 0 \in T, \A n \in T : n + 1 \in T
    PROVE  T = Nat
<1> DEFINE R == {ss \in Nat \X Nat : ss[1] < ss[2]}
<1>1. IsWellFoundedOn(R, Nat)
    BY NatLessThanWellFounded DEF OpToRel
<1>2. ASSUME Nat \ T # {}
      PROVE  FALSE
    <2>1. PICK x \in Nat \ T : \A y \in Nat \ T : <<y, x>> \notin R
        <3> HIDE DEF R
        <3> QED
            BY <1>1, <1>2, WFMin
    <2>2. x # 0 /\ x - 1 \in Nat /\ <<x - 1, x>> \in R
        OBVIOUS
    <2>3. x - 1 \in T
        BY <2>1, <2>2
    <2> QED
        BY <2>2, <2>3
<1> QED
    BY <1>2

\* The fold by which SumOf adds up the values of f.
Total(f) == FoldFunction(+, 0, f)

\* The element the fold takes out of s first.
Pick(s) == CHOOSE x \in s : TRUE

\* g is the recursion of the fold of f on the sets of D.
Unfolds(g, f, D) ==
    g = [s \in D |-> IF s = {} THEN 0 ELSE f[Pick(s)] + g[s \ {Pick(s)}]]

Small(S, n) == {s \in SUBSET S : Cardinality(s) <= n}

LEMMA TotalIsUnfolded ==
    ASSUME NEW f
    PROVE  Total(f) = (CHOOSE g : Unfolds(g, f, SUBSET DOMAIN f))[DOMAIN f]
BY DEF Total, FoldFunction, FoldFunctionOnSet, MapThenFoldSet, Unfolds, Pick

\* What a recursion on the size of a set needs to know.
LEMMA SmallFacts ==
    ASSUME NEW S, IsFiniteSet(S), NEW n \in Nat
    PROVE  /\ Small(S, 0) = {{}}
           /\ Small(S, n) \subseteq Small(S, n + 1)
           /\ {} \in Small(S, n)
           /\ \A s \in Small(S, n + 1) : s # {} =>
                 Pick(s) \in S /\ s \ {Pick(s)} \in Small(S, n)
           /\ Small(S, Cardinality(S)) = SUBSET S /\ Cardinality(S) \in Nat
<1>1. ASSUME NEW s \in SUBSET S
      PROVE  /\ IsFiniteSet(s) /\ Cardinality(s) \in Nat /\ Cardinality(s) <= Cardinality(S)
             /\ Cardinality(s) = 0 <=> s = {}
             /\ s # {} => Pick(s) \in s /\ Cardinality(s \ {Pick(s)}) = Cardinality(s) - 1
    <2>1. IsFiniteSet(s) /\ Cardinality(s) \in Nat /\ Cardinality(s) <= Cardinality(S)
        BY FS_Subset, FS_CardinalityType
    <2>2. s # {} => Pick(s) \in s
        BY DEF Pick
    <2> QED
        BY <2>1, <2>2, FS_EmptySet, FS_RemoveElement
<1>2. Cardinality(S) \in Nat
    BY FS_CardinalityType
<1>3. Small(S, 0) = {{}} /\ {} \in Small(S, n)
    <2>1. Cardinality({}) = 0 /\ {} \in SUBSET S
        BY FS_EmptySet
    <2>2. ASSUME NEW s \in Small(S, 0)
          PROVE  s = {}
        <3>1. s \in SUBSET S /\ Cardinality(s) <= 0
            BY DEF Small
        <3>2. Cardinality(s) \in Nat /\ IsFiniteSet(s)
            BY <1>1, <3>1
        <3>3. Cardinality(s) = 0
            BY <3>1, <3>2
        <3> QED
            BY <3>2, <3>3, FS_EmptySet
    <2>3. {} \in Small(S, 0) /\ {} \in Small(S, n)
        BY <2>1 DEF Small
    <2> QED
        BY <2>2, <2>3
<1>4. Small(S, n) \subseteq Small(S, n + 1)
    <2> SUFFICES ASSUME NEW s \in Small(S, n)
                 PROVE  s \in Small(S, n + 1)
        OBVIOUS
    <2>1. s \in SUBSET S /\ Cardinality(s) \in Nat /\ Cardinality(s) <= n
        BY <1>1 DEF Small
    <2> QED
        BY <2>1 DEF Small
<1>5. ASSUME NEW s \in Small(S, n + 1), s # {}
      PROVE  Pick(s) \in S /\ s \ {Pick(s)} \in Small(S, n)
    BY <1>1, <1>5 DEF Small
<1>6. Small(S, Cardinality(S)) = SUBSET S
    BY <1>1 DEF Small
<1> QED
    BY <1>2, <1>3, <1>4, <1>5, <1>6

\* The recursion has a solution: one for sets of n elements gives one for n + 1.
LEMMA UnfoldingExists ==
    ASSUME NEW f, IsFiniteSet(DOMAIN f)
    PROVE  \E g : Unfolds(g, f, SUBSET DOMAIN f)
<1> DEFINE S == DOMAIN f
           T == {n \in Nat : \E g : Unfolds(g, f, Small(S, n))}
<1>1. 0 \in T
    <2> DEFINE g == [s \in Small(S, 0) |-> 0]
    <2>1. Unfolds(g, f, Small(S, 0))
        BY SmallFacts DEF Unfolds
    <2> QED
        BY <2>1
<1>2. ASSUME NEW n \in T
      PROVE  n + 1 \in T
    <2>1. PICK g : Unfolds(g, f, Small(S, n))
        BY <1>2
    <2> DEFINE h == [s \in Small(S, n + 1) |->
                        IF s = {} THEN 0 ELSE f[Pick(s)] + g[s \ {Pick(s)}]]
    <2>2. /\ Small(S, n) \subseteq Small(S, n + 1)
          /\ \A s \in Small(S, n + 1) : s # {} => s \ {Pick(s)} \in Small(S, n)
        BY SmallFacts
    <2>3. ASSUME NEW s \in Small(S, n)
          PROVE  h[s] = g[s]
        BY <2>1, <2>2 DEF Unfolds
    <2>4. h = [s \in Small(S, n + 1) |->
                        IF s = {} THEN 0 ELSE f[Pick(s)] + h[s \ {Pick(s)}]]
        BY <2>2, <2>3
    <2>5. Unfolds(h, f, Small(S, n + 1))
        BY <2>4, Zenon DEF Unfolds
    <2> HIDE DEF h
    <2> QED
        BY <2>5
<1>3. T = Nat
    <2> HIDE DEF T
    <2>1. T \in SUBSET Nat
        BY DEF T
    <2> QED
        BY <1>1, <1>2, <2>1, NatSetInduction
<1>4. Cardinality(S) \in Nat /\ Small(S, Cardinality(S)) = SUBSET S
    BY SmallFacts
<1>5. PICK n \in Nat : n = Cardinality(S)
    BY <1>4
<1>6. PICK g : Unfolds(g, f, Small(S, n))
    BY <1>3
<1> QED
    BY <1>4, <1>5, <1>6

\* The sum of sums is the sum of the pointwise sums.
LEMMA TotalAdds ==
    ASSUME NEW S, IsFiniteSet(S), NEW f \in [S -> Nat], NEW g \in [S -> Nat],
           NEW h \in [S -> Nat], \A x \in S : h[x] = f[x] + g[x]
    PROVE  /\ Total(f) \in Nat /\ Total(g) \in Nat
           /\ Total(h) = Total(f) + Total(g)
<1> DEFINE U(e) == CHOOSE u : Unfolds(u, e, SUBSET S)
           F == U(f)
           G == U(g)
           H == U(h)
           T == {n \in Nat : \A s \in Small(S, n) :
                    F[s] \in Nat /\ G[s] \in Nat /\ H[s] = F[s] + G[s]}
<1>1. Unfolds(F, f, SUBSET S) /\ Unfolds(G, g, SUBSET S) /\ Unfolds(H, h, SUBSET S)
    BY UnfoldingExists
<1>2. Total(f) = F[S] /\ Total(g) = G[S] /\ Total(h) = H[S]
    BY TotalIsUnfolded
<1> HIDE DEF U, F, G, H
<1>3. 0 \in T
    <2>1. F[{}] = 0 /\ G[{}] = 0 /\ H[{}] = 0
        BY <1>1 DEF Unfolds
    <2>2. \A s \in Small(S, 0) : s = {}
        BY SmallFacts
    <2>3. \A s \in Small(S, 0) : F[s] \in Nat /\ G[s] \in Nat /\ H[s] = F[s] + G[s]
        <3> SUFFICES ASSUME NEW s \in Small(S, 0)
                     PROVE  F[s] \in Nat /\ G[s] \in Nat /\ H[s] = F[s] + G[s]
            OBVIOUS
        <3>1. s = {}
            BY <2>2
        <3> QED
            BY <2>1, <3>1
    <2> QED
        BY <2>3
<1>4. ASSUME NEW n \in T
      PROVE  n + 1 \in T
    <2> SUFFICES ASSUME NEW s \in Small(S, n + 1)
                 PROVE  F[s] \in Nat /\ G[s] \in Nat /\ H[s] = F[s] + G[s]
        OBVIOUS
    <2>1. s \in SUBSET S
        BY DEF Small
    <2>2. CASE s = {}
        <3>1. {} \in Small(S, n)
            BY SmallFacts
        <3> QED
            BY <2>2, <3>1
    <2>3. CASE s # {}
        <3> DEFINE x == Pick(s)
        <3>1. x \in S /\ s \ {x} \in Small(S, n)
            BY <2>3, SmallFacts
        <3>2. /\ F[s] = f[x] + F[s \ {x}]
              /\ G[s] = g[x] + G[s \ {x}]
              /\ H[s] = h[x] + H[s \ {x}]
            BY <1>1, <2>1, <2>3 DEF Unfolds
        <3>3. /\ F[s \ {x}] \in Nat /\ G[s \ {x}] \in Nat
              /\ H[s \ {x}] = F[s \ {x}] + G[s \ {x}]
            BY <3>1
        <3>4. f[x] \in Nat /\ g[x] \in Nat /\ h[x] = f[x] + g[x]
            BY <3>1
        <3> HIDE DEF x
        <3> QED
            BY <3>2, <3>3, <3>4
    <2> QED
        BY <2>2, <2>3
<1>5. T = Nat
    <2> HIDE DEF T
    <2>1. T \in SUBSET Nat
        BY DEF T
    <2> QED
        BY <1>3, <1>4, <2>1, NatSetInduction
<1>6. Cardinality(S) \in Nat /\ Small(S, Cardinality(S)) = SUBSET S
    BY SmallFacts
<1>7. S \in Small(S, Cardinality(S))
    BY <1>6
<1> QED
    BY <1>2, <1>5, <1>6, <1>7

----------------------------------------------------------------------------
(* The score that is persisted.                                            *)

Evaluateds == [k \in DOMAIN results |-> results[k].evaluated_count]
Passeds    == [k \in DOMAIN results |-> results[k].passed_count]
Violations == [k \in DOMAIN results |-> results[k].violation_count]

\* The persisted score and count are those of the results, which no later step changes.
ScoreRecorded ==
    epc = "persisted" =>
        /\ analysis.quality_score =
              IF Total(Evaluateds) = 0 THEN Null ELSE Quantize(Total(Passeds), Total(Evaluateds))
        /\ analysis.total_violation_count = Total(Violations)

LEMMA ScoreStep ==
    ASSUME ScoreRecorded, [Next]_vars
    PROVE  ScoreRecorded'
<1>1. CASE UNCHANGED vars
    <2>1. UNCHANGED <<epc, analysis, results>>
        BY <1>1 DEF vars
    <2>2. Evaluateds' = Evaluateds /\ Passeds' = Passeds /\ Violations' = Violations
        BY <2>1 DEF Evaluateds, Passeds, Violations
    <2> QED
        BY <2>1, <2>2 DEF ScoreRecorded
<1>2. CASE PersistResults
    <2>1. UNCHANGED results
        BY <1>2 DEF PersistResults
    <2>2. Evaluateds' = Evaluateds /\ Passeds' = Passeds /\ Violations' = Violations
        BY <2>1 DEF Evaluateds, Passeds, Violations
    <2>3. epc' = "persisted" =>
             /\ analysis'.quality_score = QualityScore
             /\ analysis'.total_violation_count = SumOf(LAMBDA r : r.violation_count)
        BY <1>2 DEF PersistResults
    <2>4. /\ QualityScore = IF Total(Evaluateds) = 0 THEN Null
                            ELSE Quantize(Total(Passeds), Total(Evaluateds))
          /\ SumOf(LAMBDA r : r.violation_count) = Total(Violations)
        BY DEF QualityScore, SumOf, Total, Evaluateds, Passeds, Violations
    <2> QED
        BY <2>2, <2>3, <2>4 DEF ScoreRecorded
<1>3. CASE ValidateInputs \/ RequiredRow \/ UniqueRow \/ NonMissingRow \/ RegexRow \/ FinishRule
    <2>1. epc' # "persisted"
        BY <1>3 DEF ValidateInputs, RequiredRow, UniqueRow, NonMissingRow, RegexRow, FinishRule,
           InLoop, NextRow
    <2> QED
        BY <2>1 DEF ScoreRecorded
<1>4. CASE Ended
    BY <1>1, <1>4 DEF Ended
<1> QED
    BY <1>1, <1>2, <1>3, <1>4 DEF Next

\* What the persisted score says of the results, for every table and rules.
THEOREM ScoreIsRounded == Spec => []ScoreRoundsHalfUp
<1>1. Init => ScoreRecorded
    BY DEF Init, ScoreRecorded
<1>2. EngineInv /\ ScoreRecorded => ScoreRoundsHalfUp
    <2> SUFFICES ASSUME EngineInv, ScoreRecorded, epc = "persisted"
                 PROVE  ScoreRoundsHalfUp
        BY DEF ScoreRoundsHalfUp
    <2>1. IsFiniteSet(DOMAIN results)
        <3>1. DOMAIN results = 1 .. Len(results) /\ Len(results) \in Nat
            BY DEF EngineInv, EngineTypes
        <3> QED
            BY <3>1, FS_Interval
    <2>2. ASSUME NEW k \in DOMAIN results
          PROVE  /\ results[k].passed_count \in Nat /\ results[k].violation_count \in Nat
                 /\ results[k].evaluated_count \in Nat
                 /\ results[k].evaluated_count =
                       results[k].passed_count + results[k].violation_count
        BY <2>2, DueByIndex DEF ResultIsDue, RuleResult
    <2>3. /\ Evaluateds \in [DOMAIN results -> Nat] /\ Passeds \in [DOMAIN results -> Nat]
          /\ Violations \in [DOMAIN results -> Nat]
          /\ \A k \in DOMAIN results : Evaluateds[k] = Passeds[k] + Violations[k]
        BY <2>2 DEF Evaluateds, Passeds, Violations
    <2>4. PICK e, p, v \in Nat : /\ e = Total(Evaluateds) /\ p = Total(Passeds)
                                /\ v = Total(Violations) /\ e = p + v
        BY <2>1, <2>3, TotalAdds
    <2>5. /\ analysis.quality_score = IF e = 0 THEN Null ELSE Quantize(p, e)
          /\ analysis.total_violation_count = v
        BY <2>4 DEF ScoreRecorded
    <2>6. ASSUME NEW m \in Nat \ {0}, NEW n \in 0 .. m
          PROVE  Rounded(Quantize(n, m), n, m)
        BY QuantizeRoundsHalfUp
    <2>7. /\ (analysis.quality_score = Null) <=> (e = 0)
          /\ e > 0 => Rounded(analysis.quality_score, e - analysis.total_violation_count, e)
        <3>1. CASE e = 0
            BY <2>5, <3>1
        <3>2. CASE e # 0
            <4>1. e \in Nat \ {0} /\ p \in 0 .. e /\ e - v = p
                BY <2>4, <3>2
            <4>2. PICK q : q = Quantize(p, e)
                OBVIOUS
            <4>3. Rounded(q, p, e)
                BY <2>6, <4>1, <4>2
            <4>4. q \in Int
                BY <4>3, <4>1 DEF Rounded
            <4>5. q # Null /\ analysis.quality_score = q
                BY <2>5, <3>2, <4>2, <4>4, EngineAssumption
            <4> QED
                BY <2>5, <3>2, <4>1, <4>3, <4>5
        <3> QED
            BY <3>1, <3>2
    <2>8. \A m \in 1 .. MaxEvaluated, n \in 0 .. MaxEvaluated :
             n <= m => Rounded(Quantize(n, m), n, m)
        BY <2>6, EngineAssumption
    <2>9. SumOf(LAMBDA r : r.evaluated_count) = e
        BY <2>4 DEF SumOf, Total, Evaluateds
    <2> QED
        BY <2>7, <2>8, <2>9 DEF ScoreRoundsHalfUp
<1> QED
    BY <1>1, <1>2, ScoreStep, EngineInvariance, PTL DEF Spec

=============================================================================
