CONSTANTS
    a1 = a1  a2 = a2  d1 = d1  d2 = d2  i1 = i1  i2 = i2
    Unknown = Unknown  Session = Session
    Addresses = {a1}
    Devices = {}
    Items = {i1}
    Keys <- PlayKeys
    BindingWindow = 2
    StaleAfter = 3
    PruneInterval = 2
    MaxLag = 1
    MaxStreams = 1
    Window = 4
    Jitter = 0
    DayLen = 7
    MaxTime = 6
    MaxBeats = 2
    MaxRows = 2
    MaxExits = 0
SPECIFICATION BindSpec
INVARIANT LongVideoCountsOnce
