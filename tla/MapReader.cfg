SPECIFICATION Spec
CONSTANTS
    SegmentRows <- MCSegmentRows
    ModuleRows <- MCModuleRows
    PublicRows <- MCPublicRows
    TableHeaders <- MCTableHeaders
    LineRows <- MCLineRows
    MaxPublics = 2
    MaxTables = 3
    MaxLineRows = 3
CHECK_DEADLOCK FALSE
INVARIANT TypeOK
INVARIANT RecordsAsWritten
INVARIANT PublicsInTheirUnit
INVARIANT LinesInTheirUnit
