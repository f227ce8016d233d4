SPECIFICATION Spec
CONSTANTS
    MaxCheckExprDepth = 2
    Edits <- MCEdits
    Contents <- MCContents
    Typos <- MCTypos
    CheckText <- Write
    Mistakes <- Misspelt
    ReadCheck <- Parse
    Objections <- CheckFaults
    Alarms <- Acknowledged
    TargetColumn <- FindCheckTargetColumn
    IsFalse <- EvalIsFalse
    IsIllTyped <- EvalIsIllTyped
CHECK_DEADLOCK FALSE
INVARIANTS
    RefusalsAreFounded
    WarningsAreExact
    RepairSuffices
    RepairsAreConfined
