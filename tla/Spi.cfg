\* Either line, with a late slave, flipped bits and a restart.
CONSTANTS
    Slaves = {"sens", "ctrl"}
    Orders <- MCOrders
    Sensors <- MCSensors
    Garbage <- MCGarbage
    MaxFaults = 1
    MaxRestarts = 1
    Late = TRUE
    Flips = TRUE
SPECIFICATION FairSpec
INVARIANTS TypeOK InSync CleanExchange
PROPERTIES CleanExecution LinkRecovers
