SPECIFICATION Spec
CONSTANTS
    w1 = w1
    w2 = w2
    Null = Null
    DatasetIds = {1, 2}
    RuleIds = {1, 2, 3}
    AnalysisIds = {1, 2}
    Subject = 1
    Writers = {w1, w2}
    Limit = 1
    MaxTime = 1
    MaxRows = 4
SYMMETRY Symmetry
CONSTRAINT ClientActive
INVARIANTS
    PagesCoverTheList
    TimestampsAgree
    DetailsAreWhole
