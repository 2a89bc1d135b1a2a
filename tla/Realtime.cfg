CONSTANTS
    r1 = r1  r2 = r2
    c1 = c1  c2 = c2
    s1 = s1  s2 = s2  s3 = s3
    t1 = t1  t2 = t2  t3 = t3
    Restaurants <- TwoRestaurants
    Screens <- TwoScreens
    Sockets <- TwoSockets
    Tickets <- TwoTickets
    TTL = 0
    MaxConnections = 1
    NONE = NONE
SPECIFICATION FairRealtimeSpec
PROPERTY ScreensComeBack
INVARIANT OneSocketPerTicket
INVARIANT PlacesAreExact
INVARIANT OwnEventsOnly
CHECK_DEADLOCK FALSE
