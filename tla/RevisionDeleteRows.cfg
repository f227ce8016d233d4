SPECIFICATION Spec
CONSTANTS
    Err = Err
    u1 = u1
    u2 = u2
    NameOrder <- Names
    Message <- Messages
    Projects <- DeleteRowsProjects
INVARIANTS EveryFileLoads
CHECK_DEADLOCK FALSE
