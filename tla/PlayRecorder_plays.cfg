CONSTANTS
    k1 = k1  k2 = k2
    Keys = {k1, k2}
    Window = 4
    Jitter = 1
    DayLen = 3
    MaxTime = 6
    MaxBeats = 5
    MaxRows = 3
    MaxExits = 1
SYMMETRY Symmetry
SPECIFICATION Spec
INVARIANTS TypeOK PlaysApart OneRowPerViewing EveryBeatCounted
