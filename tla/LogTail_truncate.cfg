CONSTANTS
    MaxLines = 2
    MaxFiles = 1
    MaxTruncations = 1
    MaxFaults = 0
SPECIFICATION Spec
INVARIANT TruncationNoticed
