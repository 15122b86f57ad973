\* The camera delivers an empty frame.
CONSTANTS
    Missions <- MCFewMissions
    MaxRequests = 3
    MaxPos = 5
    Wraps = {0, 6}
    Spaced = FALSE
    EmptyFrames = TRUE
    AppendRunning = FALSE
SPECIFICATION Spec
PROPERTIES FinishNeedsLine
