\* One flipped bit on the control module's line.
CONSTANTS
    Slaves = {"ctrl"}
    Orders <- MCWrites
    Sensors <- MCSensors
    Garbage <- MCGarbage
    MaxFaults = 1
    MaxRestarts = 0
    Late = FALSE
    Flips = TRUE
SPECIFICATION Spec
PROPERTIES AcceptedIntact
