\* Workbooks that are read in ranges of two rows.
SPECIFICATION Spec
CONSTANTS
    NoValue = NoValue
    Blank = NoValue
    Texts <- MCTexts
    Columns <- MCColumns
    Shortened <- MCShortened
    Lower <- MCLower
    Upper <- MCUpper
    Underscored <- MCUnderscored
    Spaced <- MCSpaced
    UserPart <- MCUserPart
    Parts <- MCParts
    Conforms <- MCConforms
    Alias <- MCAlias
    Beyond = {"Source"}
    MaxSheets = 1
    MaxRows = 3
    ChunkRows = 2
    MaxIssues = 3
    CompositeFields = {"displayName"}
    Imports <- WorkbookImports
    Overrides <- MCOverrides
    MaxOverrides = 0
INVARIANTS RowsAreRead
CHECK_DEADLOCK FALSE
