\* app_miss while a command is running.
CONSTANTS
    Missions <- MCFewMissions
    MaxRequests = 3
    MaxPos = 5
    Wraps = {0, 6}
    Spaced = FALSE
    EmptyFrames = FALSE
    AppendRunning = TRUE
SPECIFICATION Spec
INVARIANTS PosMatchesRoad
