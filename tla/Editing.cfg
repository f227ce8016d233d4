CONSTANTS
    Uri <- MCUri
    FormatOf <- MCFormatOf
    StemOf <- MCStemOf
    NewNames <- MCNewNames
    Shortens <- MCShortens
    Lexeme <- MCLexeme
    Disks <- MCDisks
    Drafts <- MCDrafts
    MaxEvents = 2
    MaxEdits = 1
SPECIFICATION Spec
CHECK_DEADLOCK FALSE
INVARIANTS
    NamesAgree
    FaultsArePlaced
    ViewsAgree
PROPERTIES
    RenamesAreSafe
    OffersAreValid
    ActionsAreSafe
