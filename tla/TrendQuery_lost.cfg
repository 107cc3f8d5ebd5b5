CONSTANTS
    MaxDays = 3
    MaxAsked = 4
    LastDay = 2
SPECIFICATION TrendSpec
INVARIANT TrendAnswers
