CONSTANTS
    Times <- TwoTimes
    Tables <- TwoTables
    Details <- TwoDetails
    Fetches <- TwoFetches
    MaxClock = 1
    MaxWrites = 2
    MaxFaults = 1
    NONE = NONE
SPECIFICATION FairScreensSpec
CHECK_DEADLOCK FALSE
INVARIANT ScreensInv
INVARIANT RestingScreenIsTrue
INVARIANT AnnouncedOnce
PROPERTY ScreenCatchesUp
