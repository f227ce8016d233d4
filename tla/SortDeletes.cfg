SPECIFICATION FairSpec
CONSTANTS
    Err = Err
    Name <- MCName
    KeyOrder <- MCKeyOrder
    NameOrder <- MCNameOrder
INVARIANTS DependenciesFirst AllPlaced SameAsDiff SwapsSort ReferencingFirst
PROPERTY Terminates
CHECK_DEADLOCK FALSE
