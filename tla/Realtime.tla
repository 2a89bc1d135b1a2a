------------------------------ MODULE Realtime ------------------------------
(***************************************************************************)
(* The live connection of the restaurant's screens.  useDashboardSocket    *)
(* asks the restaurant app for a ticket, the app asks the API in the name  *)
(* of the signed-in member of staff, RealtimeTicketService mints it, and   *)
(* VisitsGateway trades it for a place in the room of its restaurant.      *)
(*                                                                         *)
(* The handshake of a WebSocket is over before handleConnection looks at   *)
(* it, so a screen sees a refused socket open and then close.  The two     *)
(* ends of a socket learn of its end separately: a place in a room is      *)
(* taken until the server has noticed.                                     *)
(***************************************************************************)
EXTENDS Integers, FiniteSets

CONSTANTS
    Restaurants, Screens, \* mounted uses of useDashboardSocket
    Sockets,              \* bound: connections at the same time
    Tickets,              \* bound: tickets stored, held or presented at the same time
    TTL,                  \* TICKET_TTL_MS, in ticks of the clock
    MaxConnections,       \* MAX_CONNECTIONS_PER_RESTAURANT
    NONE

ASSUME RealtimeAssumption ==
    /\ TTL \in Nat
    /\ MaxConnections \in Nat \ {0}
    /\ IsFiniteSet(Sockets)
    /\ NONE \notin Restaurants \cup Screens \cup Sockets \cup Tickets

VARIABLES
    session,     \* whose restaurant the staff cookie of the browser is for, or NONE
    store,       \* RealtimeTicketService.tickets: claim of each ticket, or NONE
    screen,      \* the locals of useDashboardSocket and its status
    sock,        \* the sockets as the server sees them, and the ticket each presents
    room,        \* VisitsGateway.connectionsByRestaurant
    owner,       \* VisitsGateway.restaurantBySocket
    calm,        \* from now on nothing fails and nobody signs in or leaves
    opened       \* history: sockets admitted on each ticket since it was minted

realtimeVars ==
    <<session, store, screen, sock, room, owner, calm, opened>>

-----------------------------------------------------------------------------

\* What the staff cookie says.
Sessions == Restaurants \cup {NONE}

\* requireStaffSession: the first membership of whoever is signed in.
SignedIn == session \in Restaurants

\* The route asks for a ticket in the name of the session of the moment.
TicketScope == session

Claim == [rest : Restaurants, left : -1 .. TTL]

NewScreen == [pc |-> "off", ticket |-> NONE, socket |-> NONE, rest |-> NONE]

ScreenState ==
    [pc : {"off", "fetch", "minted", "opening", "live", "wait", "stopped"},
     ticket : Tickets \cup {NONE}, socket : Sockets \cup {NONE},
     rest : Restaurants \cup {NONE}]

NoSocket == [side |-> "none", ticket |-> NONE]

SocketState ==
    [side : {"none", "dialing", "open", "refused", "refusedOrigin"},
     ticket : Tickets \cup {NONE}]

PutSocket(s, side) == sock' = [sock EXCEPT ![s] = [NoSocket EXCEPT !.side = side]]

\* A browser end of s is still there.
Held(s) == \E c \in Screens : screen[c].socket = s

\* A random ticket is unlike any that something still refers to.
Unused ==
    {t \in Tickets : /\ \A c \in Screens : screen[c].ticket # t
                     /\ \A s \in Sockets : sock[s].ticket # t}

FreeSockets == {s \in Sockets : sock[s] = NoSocket /\ ~Held(s)}

\* Which of several free names is taken makes no difference.
AnyOf(S) == CHOOSE x \in S : TRUE

server == <<store, sock, room, owner, opened>>

-----------------------------------------------------------------------------
(* The browser's session                                                    *)

\* Somebody signs in; the first membership names the restaurant.
Login(r) ==
    /\ ~calm
    /\ session' = r
    /\ UNCHANGED <<server, screen, calm>>

\* Somebody signs out, or the token has expired and requireStaffSession has cleared
\* the cookie.
SignOut ==
    /\ ~calm
    /\ session' = NONE
    /\ UNCHANGED <<server, screen, calm>>

-----------------------------------------------------------------------------
(* useDashboardSocket                                                       *)

\* A page with a live list is opened; no page renders without a session.
Mount(c) ==
    /\ ~calm
    /\ SignedIn
    /\ screen[c].pc = "off"
    /\ screen' = [screen EXCEPT ![c].pc = "fetch"]
    /\ UNCHANGED <<session, server, calm>>

\* The cleanup of the effect, wherever connect() is.
Dispose(c) ==
    /\ ~calm
    /\ screen[c].pc # "off"
    /\ screen' = [screen EXCEPT ![c] = NewScreen]
    /\ UNCHANGED <<session, server, calm>>

ScheduleRetry(c) == screen' = [screen EXCEPT ![c] = [NewScreen EXCEPT !.pc = "wait"]]

RetryTimer(c) ==
    /\ screen[c].pc = "wait"
    /\ screen' = [screen EXCEPT ![c].pc = "fetch"]
    /\ UNCHANGED <<session, server, calm>>

\* The ticket request is refused, its answer lost, or it ends on the login page,
\* which is no JSON.
FetchFails(c) ==
    /\ screen[c].pc \in {"fetch", "minted"}
    /\ calm => session = NONE /\ screen[c].pc = "fetch"
    /\ ScheduleRetry(c)
    /\ UNCHANGED <<session, server, calm>>

\* sweepExpired
Swept == [t \in Tickets |-> IF store[t] # NONE /\ store[t].left < 0 THEN NONE ELSE store[t]]

FreshTickets == {t \in Unused : Swept[t] = NONE}

Mint(c) ==
    /\ screen[c].pc = "fetch"
    /\ SignedIn
    /\ FreshTickets # {}
    /\ LET t == AnyOf(FreshTickets) IN
         /\ store' = [Swept EXCEPT ![t] = [rest |-> TicketScope, left |-> TTL]]
         /\ opened' = [opened EXCEPT ![t] = 0]
         /\ screen' = [screen EXCEPT ![c] =
                         [NewScreen EXCEPT !.pc = "minted", !.ticket = t, !.rest = TicketScope]]
    /\ UNCHANGED <<session, sock, room, owner, calm>>

\* new WebSocket(wsUrl, [ticket])
Dial(c) ==
    /\ screen[c].pc = "minted"
    /\ FreeSockets # {}
    /\ LET s == AnyOf(FreeSockets) IN
         /\ sock' = [sock EXCEPT ![s] = [side |-> "dialing", ticket |-> screen[c].ticket]]
         /\ screen' = [screen EXCEPT ![c].pc = "opening", ![c].ticket = NONE, ![c].socket = s]
    /\ UNCHANGED <<session, store, room, owner, calm, opened>>

\* The caller resyncs: Screens.
OnOpen(c) ==
    /\ screen[c].pc = "opening"
    /\ sock[screen[c].socket].side \in {"open", "refused", "refusedOrigin"}
    /\ screen' = [screen EXCEPT ![c].pc = "live"]
    /\ UNCHANGED <<session, server, calm>>

\* The socket ends for the screen: the server has refused it or died, or, while
\* the network may fail, for no reason the server knows of.
OnClose(c) ==
    LET s == screen[c].socket IN
    /\ screen[c].pc \in {"opening", "live"}
    /\ \/ ~calm
       \/ sock[s] = NoSocket
       \/ sock[s].side \in {"refused", "refusedOrigin"} /\ screen[c].pc = "live"
    /\ IF sock[s].side = "refusedOrigin" /\ screen[c].pc = "live"
         THEN screen' = [screen EXCEPT ![c] = [NewScreen EXCEPT !.pc = "stopped"]]
         ELSE ScheduleRetry(c)
    /\ UNCHANGED <<session, server, calm>>

-----------------------------------------------------------------------------
(* RealtimeTicketService.consume and VisitsGateway                          *)

\* Mutant: a ticket is deleted when it is refused, and kept when it is good.
ConsumeStale(t) ==
    store' = [store EXCEPT ![t] = IF store[t] # NONE /\ store[t].left < 0 THEN NONE ELSE @]

Consume(t) == store' = [store EXCEPT ![t] = NONE]

Valid(t) == store[t] # NONE /\ store[t].left >= 0

\* Mutant: off by one.
RoomForOneMore(r) == Cardinality(room[r]) <= MaxConnections

HasRoom(r) == Cardinality(room[r]) < MaxConnections

Admit(s, t, r) ==
    /\ room' = [room EXCEPT ![r] = @ \cup {s}]
    /\ owner' = [owner EXCEPT ![s] = r]
    /\ opened' = [opened EXCEPT ![t] = @ + 1]
    /\ PutSocket(s, "open")

\* The origin of the connection is compared with one read from the configuration.
HandleConnection(s) ==
    LET t == sock[s].ticket IN
    /\ sock[s].side = "dialing"
    /\ \/ /\ ~calm
          /\ PutSocket(s, "refusedOrigin")
          /\ UNCHANGED <<store, room, owner, opened>>
       \/ /\ Consume(t)
          /\ IF Valid(t) /\ HasRoom(store[t].rest)
               THEN Admit(s, t, store[t].rest)
               ELSE PutSocket(s, "refused") /\ UNCHANGED <<room, owner, opened>>
    /\ UNCHANGED <<session, screen, calm>>

\* Mutant: only one of the two maps is cleaned up.
ReleaseOwnerOnly(s) == owner' = [owner EXCEPT ![s] = NONE] /\ UNCHANGED room

\* A socket that was refused is in no room.
Release(s) ==
    /\ owner' = [owner EXCEPT ![s] = NONE]
    /\ room' = [r \in Restaurants |-> IF r = owner[s] THEN room[r] \ {s} ELSE room[r]]

\* The server notices that the browser end of s is gone.
HandleDisconnect(s) ==
    /\ sock[s].side \in {"open", "refused", "refusedOrigin"}
    /\ ~Held(s)
    /\ sock' = [sock EXCEPT ![s] = NoSocket]
    /\ Release(s)
    /\ UNCHANGED <<session, store, screen, calm, opened>>

\* Mutant: an event is sent to every socket of the process.
Everyone(r) == {s \in Sockets : sock[s].side = "open"}

\* The sockets emitToRestaurant sends an event of restaurant r to.
Audience(r) == {s \in room[r] : sock[s].side = "open"}

-----------------------------------------------------------------------------
(* The environment                                                          *)

\* A request with a ticket arrives a second time, on a connection of its own.
PresentAgain(o) ==
    /\ ~calm
    /\ sock[o].side = "dialing"
    /\ FreeSockets # {}
    /\ sock' = [sock EXCEPT ![AnyOf(FreeSockets)] = sock[o]]
    /\ UNCHANGED <<session, store, screen, room, owner, calm, opened>>

\* A request of a browser that has given up never arrives.
LoseRequest(s) ==
    /\ sock[s].side = "dialing" /\ ~Held(s)
    /\ sock' = [sock EXCEPT ![s] = NoSocket]
    /\ UNCHANGED <<session, store, screen, room, owner, calm, opened>>

\* The API process dies and is started again: tickets and rooms were in its memory.
Restart ==
    /\ ~calm
    /\ store' = [t \in Tickets |-> NONE]
    /\ room' = [r \in Restaurants |-> {}]
    /\ owner' = [s \in Sockets |-> NONE]
    /\ sock' = [s \in Sockets |-> NoSocket]
    /\ UNCHANGED <<session, screen, calm, opened>>

\* Once calm, a ticket travels faster than it expires.
Timely ==
    \A t \in Tickets : store[t] # NONE /\ store[t].left = 0 =>
        /\ \A c \in Screens : screen[c].ticket # t
        /\ \A s \in Sockets : sock[s].side = "dialing" => sock[s].ticket # t

Tick ==
    /\ calm => Timely
    /\ \E t \in Tickets : store[t] # NONE /\ store[t].left >= 0
    /\ store' = [t \in Tickets |->
                   IF store[t] # NONE /\ store[t].left >= 0
                     THEN [store[t] EXCEPT !.left = @ - 1] ELSE store[t]]
    /\ UNCHANGED <<session, screen, sock, room, owner, calm, opened>>

CalmDown ==
    /\ ~calm
    /\ calm' = TRUE
    /\ UNCHANGED <<session, server, screen>>

-----------------------------------------------------------------------------

RealtimeInit ==
    /\ SignedIn
    /\ store = [t \in Tickets |-> NONE]
    /\ screen = [c \in Screens |-> NewScreen]
    /\ sock = [s \in Sockets |-> NoSocket]
    /\ room = [r \in Restaurants |-> {}]
    /\ owner = [s \in Sockets |-> NONE]
    /\ calm = FALSE
    /\ opened = [t \in Tickets |-> 0]

ScreenSteps(c) ==
    RetryTimer(c) \/ FetchFails(c) \/ Mint(c) \/ Dial(c) \/ OnOpen(c) \/ OnClose(c)

SocketSteps(s) == HandleConnection(s) \/ HandleDisconnect(s) \/ LoseRequest(s)

RealtimeNext ==
    \/ \E r \in Restaurants : Login(r)
    \/ SignOut \/ Restart \/ Tick \/ CalmDown
    \/ \E c \in Screens : Mount(c) \/ Dispose(c) \/ ScreenSteps(c)
    \/ \E s \in Sockets : SocketSteps(s) \/ PresentAgain(s)

RealtimeSpec == RealtimeInit /\ [][RealtimeNext]_realtimeVars

\* The server is rid of a socket it has closed itself; of the end of any other it need
\* not hear, since it sends no pings.
Settled(s) ==
    \/ HandleConnection(s) \/ LoseRequest(s)
    \/ sock[s].side # "open" /\ HandleDisconnect(s)

\* Timers fire and requests are answered; nothing is asked of the time before failures
\* stop.
FairRealtimeSpec ==
    /\ RealtimeSpec
    /\ \A c \in Screens : WF_realtimeVars(calm /\ ScreenSteps(c))
    /\ \A s \in Sockets : WF_realtimeVars(calm /\ Settled(s))
    /\ WF_realtimeVars(calm /\ Tick)

-----------------------------------------------------------------------------
(* Properties                                                               *)

\* Every variable stays within its type.
RealtimeTypeOK ==
    /\ session \in Sessions
    /\ calm \in BOOLEAN
    /\ store \in [Tickets -> Claim \cup {NONE}]
    /\ screen \in [Screens -> ScreenState]
    /\ sock \in [Sockets -> SocketState]
    /\ room \in [Restaurants -> SUBSET Sockets]
    /\ owner \in [Sockets -> Restaurants \cup {NONE}]
    /\ opened \in [Tickets -> Nat]

\* A ticket opens one connection, however often it is presented and whether or not
\* the connection is still open.
OneSocketPerTicket == \A t \in Tickets : opened[t] <= 1

\* The two maps of the gateway agree, hold exactly the sockets admitted and not yet
\* noticed to be gone, and no restaurant holds more than its limit: no place is
\* lost and none is counted twice.
PlacesAreExact ==
    /\ \A s \in Sockets : sock[s].side = "open" <=> owner[s] # NONE
    /\ \A r \in Restaurants : room[r] = {s \in Sockets : owner[s] = r}
    /\ \A r \in Restaurants : Cardinality(room[r]) <= MaxConnections

\* A screen is sent the events of the restaurant its ticket was minted for and of
\* no other, whoever has signed in at the same browser since.
OwnEventsOnly ==
    \A c \in Screens, r \in Restaurants :
        screen[c].socket \in Audience(r) => screen[c].rest = r

\* What makes the three inductive: a stored ticket has opened nothing yet; a ticket
\* on its way, and the place it gets, are for the restaurant of the screen it was
\* minted for; and a socket is one screen's.
TicketsFollowScreens ==
    /\ \A t \in Tickets : store[t] # NONE => opened[t] = 0
    /\ \A s \in Sockets : sock[s].ticket # NONE <=> sock[s].side = "dialing"
    /\ \A c \in Screens :
         /\ screen[c].ticket # NONE <=> screen[c].pc = "minted"
         /\ screen[c].socket # NONE <=> screen[c].pc \in {"opening", "live"}
         /\ \A t \in Tickets : screen[c].ticket = t /\ store[t] # NONE =>
                                  store[t].rest = screen[c].rest
         /\ \A s \in Sockets, t \in Tickets :
                screen[c].socket = s /\ sock[s].ticket = t /\ store[t] # NONE =>
                    store[t].rest = screen[c].rest
         /\ \A s \in Sockets :
                screen[c].socket = s /\ owner[s] # NONE => owner[s] = screen[c].rest
         /\ \A s \in Sockets, d \in Screens :
                screen[c].socket = s /\ screen[d].socket = s => c = d

RealtimeInv ==
    RealtimeTypeOK /\ OneSocketPerTicket /\ PlacesAreExact /\ TicketsFollowScreens

Connected(c) == screen[c].pc = "live" /\ sock[screen[c].socket].side = "open"

\* The places of restaurant r that a socket the server still has is in.
Taken(r) == {s \in Sockets : sock[s].side = "open" /\ owner[s] = r}

\* Once failures stop, a screen that keeps retrying is connected, unless the
\* restaurant it asks for has as many open sockets as it may have, of screens or of
\* browsers whose end the server has not heard of; nobody is signed in; or an origin
\* refused before has stopped it.  What another restaurant has open is no excuse.
Served(c) ==
    \/ Connected(c)
    \/ screen[c].pc \in {"off", "stopped"}
    \/ session # NONE /\ Cardinality(Taken(session)) >= MaxConnections
    \/ session = NONE

ScreensComeBack == calm ~> \A c \in Screens : Served(c)

=============================================================================
