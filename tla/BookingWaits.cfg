CONSTANTS
    v1 = v1  v2 = v2
    t1 = t1  t2 = t2  t3 = t3
    c1 = c1  c2 = c2
    r1 = r1  r2 = r2  r3 = r3
    Visits <- TwoVisits
    Tables <- ThreeTables
    Customers <- TwoCustomers
    Requests <- TwoRequests
    NONE = NONE
    GuestWaits = TRUE
SPECIFICATION Spec
SYMMETRY Interchangeable
INVARIANT ExclusiveHold
PROPERTY HoldsSpec
