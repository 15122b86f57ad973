\* The mission list, on any road, with empty frames and appends at any time.
CONSTANTS
    Missions <- MCMissions
    MaxRequests = 3
    MaxPos = 5
    Wraps = {0, 3, 6}
    Spaced = FALSE
    EmptyFrames = TRUE
    AppendRunning = TRUE
SPECIFICATION Spec
INVARIANTS TypeOK FreshStart MissionOrder
