SPECIFICATION Spec
CONSTANTS
    r1 = r1
    r2 = r2
    r3 = r3
    Null = Null
    Partial = Partial
    Users = {"alice", "bob"}
    Datasets = {"d1"}
    Columns <- MCColumns
    Contents <- MCContents
    WellFormed <- MCWellFormed
    Oversize <- MCOversize
    HeaderOf <- MCHeaderOf
    RuleDefs <- MCRuleDefs
    ColumnOf <- MCColumnOf
    Requests = {r1, r2, r3}
    Holders = {r1, r2, r3}
    MaxFaults = 2
SYMMETRY Symmetry
INVARIANTS
    ActiveFileIntact
    NoStrayFiles
