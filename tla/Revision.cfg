SPECIFICATION Spec
CONSTANTS
    Err = Err
    u1 = u1
    u2 = u2
    NameOrder <- Names
    Message <- Messages
    Projects <- MCProjects
INVARIANTS Reloads Converges ActionsInOrder QuestionsFit
PROPERTY FilesAreFinal
CHECK_DEADLOCK FALSE
