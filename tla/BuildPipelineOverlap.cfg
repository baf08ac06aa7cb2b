\* Two builds in progress at once.
SPECIFICATION FairSpec
CONSTANTS
    MaxBuilds = 2
    MaxEdits = 0
    MaxTools = 0
    Overlap = TRUE
    Relinks = FALSE
INVARIANTS
    SlotIsNotStale
PROPERTIES
    EveryBuildEnds
CHECK_DEADLOCK FALSE
