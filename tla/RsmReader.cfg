SPECIFICATION Spec
CONSTANTS
    Files <- MCFiles
    PrimitiveNames <- MCPrimitiveNames
    MaxPrimitives = 64
CHECK_DEADLOCK FALSE
INVARIANT ProceduresInOrder
INVARIANT GlobalsOutsideProcedures
INVARIANT SymbolsAsDeclared
INVARIANT AggregatesAsDeclared
PROPERTY CursorAdvances
PROPERTY Terminates
