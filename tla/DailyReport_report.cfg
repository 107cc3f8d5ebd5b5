CONSTANTS
    DayLen = 3
    LastDay = 2
    ReportTimes = {1, 2}
    MaxFaults = 2
    MaxEdits = 2
    NoTime = NoTime
    Broken = Broken
SPECIFICATION Spec
INVARIANTS TypeOK OncePerDay NotedIsSent MissedOnlyAtTheEnd FiguresOfTheDay
