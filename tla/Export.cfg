SPECIFICATION MCSpec
CONSTANTS
    Mine = {"mine"}
    Free = {"free"}
    Others = {"others"}
    Objects = {"a", "b"}
    MaxTyped = 2
    MaxAdds = 2
INVARIANTS
    FaultsHaveCauses
    ExportInv
PROPERTY ProgressPageEnds
CHECK_DEADLOCK FALSE
