\* The commands on the road, one line per command: no empty frames, no append to a running command.
CONSTANTS
    Missions <- MCMissions
    MaxRequests = 3
    MaxPos = 5
    Wraps = {0, 6}
    Spaced = TRUE
    EmptyFrames = FALSE
    AppendRunning = FALSE
SPECIFICATION FairSpec
INVARIANTS PosMatchesRoad OptionsOnlyAtLine
PROPERTIES FinishNeedsLine MissionEnds
