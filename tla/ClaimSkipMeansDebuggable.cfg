SPECIFICATION Spec
CONSTANTS
    MaxBuilds = 2
    MaxEdits = 0
    MaxTools = 0
    Overlap = FALSE
    Relinks = TRUE
PROPERTY SkipMeansDebuggable
CHECK_DEADLOCK FALSE
