CONSTANTS
    a1 = a1  a2 = a2  d1 = d1  d2 = d2  i1 = i1  i2 = i2
    Unknown = Unknown  Session = Session
    Addresses = {a1, a2}
    Devices = {d1, d2}
    Items = {i1, i2}
    Keys <- PlayKeys
    BindingWindow = 1
    StaleAfter = 2
    PruneInterval = 2
    MaxLag = 0
    MaxStreams = 2
    Window = 3
    Jitter = 0
    DayLen = 7
    MaxTime = 4
    MaxBeats = 1
    MaxRows = 1
    MaxExits = 1
SYMMETRY Symmetry
SPECIFICATION BindSpec
INVARIANTS BindTypeOK  NameBelongs ViewerIsShown
PROPERTY StreamsReclaimed
