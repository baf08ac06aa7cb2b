\* One build at a time; the linker may leave an unchanged .exe alone.  Builds,
\* saves and converter rebuilds together are at most four (Bound).
SPECIFICATION Spec
CONSTANTS
    MaxBuilds = 3
    MaxEdits = 2
    MaxTools = 1
    Overlap = FALSE
    Relinks = FALSE
CONSTRAINT
    Bound
INVARIANTS
    TypeOK
    StaleExeIsOlder
    StampIsHonest
    ProblemsAreLatest
    SeqInv
    TurnInv
PROPERTIES
    SkipIsSound
    OkBuiltIsDebuggable
    ConverterRebuildIsSeen
    CancelledBuildNeverOk
CHECK_DEADLOCK FALSE
