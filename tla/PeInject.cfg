SPECIFICATION Spec
CONSTANTS
    FileAlign <- MCFileAlign
    SectAlign <- MCSectAlign
    TableStart <- MCTableStart
    Linked <- MCLinked
    Payloads <- MCPayloads
    DwarfNames <- MCDwarfNames
    PdbPayload = 3
    MaxInjections = 4
INVARIANTS
    TypeOK
    RawDataFound
    NothingOverwritten
    MemoryInOrder
    NewestIsFound
CHECK_DEADLOCK FALSE
