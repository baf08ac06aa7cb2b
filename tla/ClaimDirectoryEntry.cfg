SPECIFICATION Spec
CONSTANTS
    FileAlign <- MCFileAlign
    SectAlign <- MCSectAlign
    TableStart <- MCTableStart
    Linked <- MCLinked
    Payloads <- MCPayloads
    DwarfNames <- MCDwarfNames
    PdbPayload = 3
    MaxInjections = 3
INVARIANT DirectoryEntryFound
CHECK_DEADLOCK FALSE
