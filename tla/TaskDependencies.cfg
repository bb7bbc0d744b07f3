CONSTANTS
    MaxId = 3
    MaxNamed = 1
    MaxFaults = 1
SPECIFICATION Spec
INVARIANTS TypeOK BlockersOpen
