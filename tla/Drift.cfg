CONSTANTS
    r1 = r1  r2 = r2
    j1 = j1  j2 = j2
    dish = dish
    Requests <- TwoRequests
    Dishes <- OneDish
    Prep <- PrepTimes
    LongestPrep = 20
    PrepBuffer = 5
    ExpoBuffer = 8
    Etas <- ThreeEtas
    MaxClock = 2
    NONE = NONE
    FreshStamps = TRUE
    Jobs <- TwoJobs
    MaxSends = 2
    Threshold = 10
SPECIFICATION DriftSpec
SYMMETRY Interchangeable
INVARIANT OneWinnerPerReading
PROPERTY StartedIsHistory
PROPERTY EtaChangeIsWhole
INVARIANT NoFalseAlarm
INVARIANT DriftIsNoticed
