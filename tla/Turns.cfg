SPECIFICATION FairSpec
CONSTANTS
    Seats = 3
    Budget = 2
    Timed = TRUE
    MaxQueue = 3
    MaxRuns = 2
    MaxSteps = 2
CHECK_DEADLOCK FALSE
INVARIANTS LapseFindsIdleBoard TurnGoesOn WinIsNoticed
PROPERTIES WinIsFinal TurnBeginsClean NothingAfterTheEnd TurnPasses
