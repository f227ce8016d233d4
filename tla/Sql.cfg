SPECIFICATION Spec
CONSTANTS
    Err = Err
    NameOrder <- Names
    ExprColumns <- MCExprColumns
    ExprText <- MCExprText
    Catalogues <- MCCatalogues
    Renaming <- MCRenaming
    TablePrefixes <- MCPrefixes
    MaxMigrations = 3
INVARIANTS Accepted Faithful
CHECK_DEADLOCK FALSE
