CONSTANTS
    Users <- TwoUsers
    Restaurants <- TwoRestaurants
    Dishes <- TwoDishes
    Tabs <- TwoTabs
    TTL = 1
    MaxClock = 1
    MaxWrites = 2
    MaxSwitches = 1
    Rosters <- SomeRosters
    NONE = NONE
    left = left  right = right
SYMMETRY Interchangeable
SPECIFICATION MenuSpec
CHECK_DEADLOCK FALSE
INVARIANT MenuInv
PROPERTY OwnersOnly
PROPERTY FormsMeanWhatTheyShow
PROPERTY GoodSessionsLast
