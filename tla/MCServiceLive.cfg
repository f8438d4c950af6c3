SPECIFICATION FairAnalysisSpec
CONSTANTS
    r1 = r1
    r2 = r2
    a1 = a1
    a2 = a2
    Null = Null
    Partial = Partial
    Users = {"alice"}
    Datasets = {"d1"}
    Columns <- MCColumns
    Contents <- MCAnyContents
    WellFormed <- MCContents
    Oversize <- MCOversize
    HeaderOf <- MCAnyHeaderOf
    RuleDefs <- MCRuleDefs
    ColumnOf <- MCColumnOf
    Requests = {r1, r2}
    Analysts = {a1, a2}
    Holders = {r1, r2, a1, a2}
    Parseable <- MCParseable
    MaxFaults = 1
PROPERTIES
    RequestsEnd
    AnalysesEnd
