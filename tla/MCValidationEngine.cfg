SPECIFICATION Spec
CONSTANTS
    Null = Null
    NotFinite = NotFinite
    Columns = {"c", "absent"}
    Header = {"c"}
    Texts <- MCTexts
    Lexis <- MCLexis
    Patterns <- MCPatterns
    Matches <- MCMatches
    RuleIds = {1, 2}
    Rules <- MCRules
    MaxRows = 3
    MaxRules = 2
    VIOLATION_SAMPLE_LIMIT = 2
    MaxEvaluated = 40
INVARIANTS
    EngineTypeOK
    CountsMatchMeaning
    SamplesAreFirstViolations
    ResultsAlwaysFit
    StoredRulesAreAccepted
    ScoreRoundsHalfUp
