SPECIFICATION Spec
CONSTANTS
    r1 = r1
    r2 = r2
    Null = Null
    Partial = Partial
    Users = {"alice", "bob"}
    Datasets = {"d1"}
    Columns <- MCColumns
    Contents <- MCContents
    WellFormed <- MCWellFormed
    Oversize <- MCOversize
    HeaderOf <- MCHeaderOf
    RuleDefs <- MCRuleDefs
    ColumnOf <- MCColumnOf
    Requests = {r1, r2}
    Holders = {r1, r2}
    MaxFaults = 1
SYMMETRY Symmetry
INVARIANTS
    CommittedRowPointsToCompleteFile
