SPECIFICATION Spec
CONSTANT Programs <- MCPrograms
INVARIANTS FrameSlots TypedAsDeclared ProcedureReferencesHold NamesStayPut
           SubprogramsDisjoint DwarfRefsResolve
PROPERTY ImplementsAddressMap
