\* A shutdown over a line without faults.
CONSTANTS
    MaxFaults = 0
    Asked = {"go", "hold"}
SPECIFICATION Spec
INVARIANTS ShutdownStops
