\* Three rows of users, or two and two groups, with one change of the suggested mapping and any
\* of the sheets validated; files of every format around the limits of rows, columns, cells and
\* sheets; a list of issues that holds three.
SPECIFICATION Spec
CONSTANTS
    NoValue = NoValue
    Blank = NoValue
    Texts <- MCTexts
    Columns <- MCColumns
    Shortened <- MCShortened
    Lower <- MCLower
    Upper <- MCUpper
    Underscored <- MCUnderscored
    Spaced <- MCSpaced
    UserPart <- MCUserPart
    Parts <- MCParts
    Conforms <- MCConforms
    Alias <- MCAlias
    Beyond = {"Source"}
    MaxSheets = 1
    MaxRows = 3
    ChunkRows = 2
    MaxIssues = 3
    CompositeFields = {"displayName"}
    Imports <- MCImports
    Overrides <- MCOverrides
    MaxOverrides = 1
INVARIANTS RowsAreRead StrongIdsApart IdentitiesApart LinksAreUnambiguous ColumnsReachRecords DuplicatesAreMarked
CHECK_DEADLOCK FALSE
