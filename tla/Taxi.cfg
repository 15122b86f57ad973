\* The communication module from start to shutdown; one exchange may fail.
CONSTANTS
    MaxFaults = 1
    Asked = {"go", "hold"}
SPECIFICATION FairSpec
INVARIANTS TypeOK BlindStandstill Lifetimes
PROPERTIES ObstacleStops ManualSteers ShutdownEnds
