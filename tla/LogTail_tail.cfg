CONSTANTS
    MaxLines = 3
    MaxFiles = 2
    MaxTruncations = 2
    MaxFaults = 1
SPECIFICATION Spec
INVARIANTS TypeOK SeenInOrder ReadAgainOncePerFault HolesHaveAReason
PROPERTY FollowsFile
