SPECIFICATION AnalysisSpec
CONSTANTS
    r1 = r1
    r2 = r2
    r3 = r3
    a1 = a1
    Null = Null
    Partial = Partial
    Users = {"alice", "bob"}
    Datasets = {"d1"}
    Columns <- MCColumns
    Contents <- MCContents
    WellFormed <- MCContents
    Oversize = {}
    HeaderOf <- MCHeaderOf
    RuleDefs <- MCRuleDefs
    ColumnOf <- MCColumnOf
    Requests = {r1, r2, r3}
    Analysts = {a1}
    Holders = {r1, r2, r3, a1}
    Parseable <- MCParseable
    MaxFaults = 1
SYMMETRY Symmetry
INVARIANTS
    AnalysisTypeOK
    IntegrityErrorsAreReal
    LockedSnapshotIsCurrent
PROPERTIES
    ImplementsCatalog
