SPECIFICATION Spec
CONSTANTS
    Projects <- MCProjects
    OwnPaths <- MCOwnPaths
    MaxExports = 2
INVARIANTS
    NamesAreDistinct
    RelationsPair
    SymbolsResolve
    ModelsStateSchema
    ExportIsFresh
PROPERTY
    OwnFilesKept
CHECK_DEADLOCK FALSE
