CONSTANTS
    Phones <- TwoPhones
    Own = "own"
    Slots <- TwoSlots
    MaxTurns = 2
    MaxCodes = 3
    MaxTypos = 1
    MaxFaults = 1
    MaxClock = 1
    CodeTTL = 0
    NONE = NONE
SPECIFICATION FairGuestSpec
CHECK_DEADLOCK FALSE
INVARIANT BookedAsRead
INVARIANT OneSessionPerCode
PROPERTY GuestGetsThrough
