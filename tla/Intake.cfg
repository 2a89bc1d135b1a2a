CONSTANTS
    Dishes <- TheDishes
    Tables <- TheTables
    Allergens <- TheAllergens
    Turns <- TwoTurns
    MaxRequests = 2
    MaxCalls = 1
    MaxClock = 2
    Window = 0
    TokenTTL = 2
    MaxChanges = 1
    MaxFaults = 1
    NONE = NONE
SPECIFICATION IntakeSpec
CHECK_DEADLOCK FALSE
INVARIANT IntakeInv
INVARIANT ExpiredDraftsAreRecapped
INVARIANT FlagsAreKept
INVARIANT GracePeriodHolds
PROPERTY OnlyWhatCouldBeHad
