CONSTANTS
    j1 = j1  j2 = j2  j3 = j3
    Jobs <- ThreeJobs
    MaxSends = 3
SPECIFICATION FairNotificationSpec
INVARIANT AtMostOnce
INVARIANT LogIsHonest
PROPERTY ClaimsSettle
PROPERTY RestaurantHears
