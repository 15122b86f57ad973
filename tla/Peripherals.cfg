\* The control module's regulators, the sensor module's interrupts, the stopline tracker.
CONSTANTS
    Values <- MCValues
    NaN = NaN
    MaxCmds = 3
    WT_TOP = 2
    Modulus = 4
    MaxEdges = 5
    HEIGHT = 20
    mask_width_top = 19
    thresh_stop_vis = 3
    Found <- MCFound
SPECIFICATION PeripheralsSpec
INVARIANTS AllTypesOK ServoRange StructWhole VelocityFresh GhostBound
PROPERTIES RegulatorLaw StandstillSeen FrameContract
