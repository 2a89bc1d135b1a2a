--------------------------- MODULE RealtimeProofs ---------------------------
(***************************************************************************)
(* Proofs about Realtime, for any number of restaurants, screens, sockets  *)
(* and tickets and any limit: RealtimeInv is inductive.                    *)
(***************************************************************************)
EXTENDS Realtime, FiniteSetTheorems, TLAPS

LEMMA AnyOfIsOneOf ==
  ASSUME NEW S, S # {}
  PROVE  AnyOf(S) \in S
BY DEF AnyOf

\* Rooms stay finite and within the limit when a socket is admitted or released.
LEMMA AdmittedFits ==
  ASSUME NEW S \in SUBSET Sockets, NEW s \in Sockets, Cardinality(S) < MaxConnections
  PROVE  Cardinality(S \cup {s}) <= MaxConnections
<1>1. IsFiniteSet(S)
  BY FS_Subset, RealtimeAssumption
<1>2. Cardinality(S) \in Nat
  BY <1>1, FS_CardinalityType
<1>3. Cardinality(S \cup {s}) = IF s \in S THEN Cardinality(S) ELSE Cardinality(S) + 1
  BY <1>1, FS_AddElement
<1>4. MaxConnections \in Nat
  BY RealtimeAssumption
<1> QED BY <1>2, <1>3, <1>4

LEMMA ReleasedFits ==
  ASSUME NEW S \in SUBSET Sockets, NEW s, Cardinality(S) <= MaxConnections
  PROVE  Cardinality(S \ {s}) <= MaxConnections
<1>1. IsFiniteSet(S)
  BY FS_Subset, RealtimeAssumption
<1>2. Cardinality(S) \in Nat
  BY <1>1, FS_CardinalityType
<1>3. Cardinality(S \ {s}) = IF s \in S THEN Cardinality(S) - 1 ELSE Cardinality(S)
  BY <1>1, FS_RemoveElement
<1>4. MaxConnections \in Nat
  BY RealtimeAssumption
<1> QED BY <1>2, <1>3, <1>4

LEMMA RealtimeInitially == RealtimeInit => RealtimeInv
<1> SUFFICES ASSUME RealtimeInit PROVE RealtimeInv
  OBVIOUS
<1> USE RealtimeAssumption DEF RealtimeInit, NewScreen, NoSocket, SignedIn
<1>1. RealtimeTypeOK
  <2>1. NewScreen \in ScreenState /\ NoSocket \in SocketState
    BY DEF ScreenState, SocketState
  <2> QED BY <2>1 DEF RealtimeTypeOK, Sessions
<1>2. PlacesAreExact
  BY FS_EmptySet DEF PlacesAreExact
<1>3. OneSocketPerTicket /\ TicketsFollowScreens
  BY DEF OneSocketPerTicket, TicketsFollowScreens
<1> QED BY <1>1, <1>2, <1>3 DEF RealtimeInv

\* Steps of a screen that leave the server alone and take no new ticket or socket.
LEMMA ScreenStep ==
  ASSUME RealtimeInv, UNCHANGED <<session, server, calm>>, NEW c \in Screens,
         NEW st \in ScreenState, screen' = [screen EXCEPT ![c] = st],
         st.ticket = NONE /\ st.pc # "minted",
         st.socket # NONE <=> st.pc \in {"opening", "live"},
         st.socket \in {NONE, screen[c].socket},
         st.socket # NONE => st.rest = screen[c].rest
  PROVE  RealtimeInv'
<1> USE DEF RealtimeInv, server
<1>1. RealtimeTypeOK' /\ OneSocketPerTicket' /\ PlacesAreExact'
  BY DEF RealtimeTypeOK, OneSocketPerTicket, PlacesAreExact
<1>2. screen' \in [Screens -> ScreenState] /\ screen'[c] = st
      /\ \A d \in Screens : d # c => screen'[d] = screen[d]
  BY DEF RealtimeTypeOK
<1>3. TicketsFollowScreens'
  BY <1>2, RealtimeAssumption DEF TicketsFollowScreens, RealtimeTypeOK
<1> QED BY <1>1, <1>3

LEMMA RealtimeStep ==
  ASSUME RealtimeInv, [RealtimeNext]_realtimeVars
  PROVE  RealtimeInv'
<1> USE DEF RealtimeInv
<1>1. ASSUME UNCHANGED <<server, screen>>, session' \in Sessions,
             calm' \in BOOLEAN
      PROVE  RealtimeInv'
  BY <1>1 DEF server, RealtimeTypeOK, OneSocketPerTicket, PlacesAreExact,
         TicketsFollowScreens
<1>2. CASE \/ \E r \in Restaurants : Login(r)
           \/ SignOut \/ CalmDown \/ UNCHANGED realtimeVars
  BY <1>1, <1>2 DEF Login, SignOut, CalmDown, realtimeVars, server, RealtimeTypeOK, Sessions
<1>3. CASE Restart
  <2>1. RealtimeTypeOK' /\ OneSocketPerTicket'
    BY <1>3 DEF Restart, RealtimeTypeOK, OneSocketPerTicket, SocketState, NoSocket
  <2>2. PlacesAreExact'
    BY <1>3, FS_EmptySet, RealtimeAssumption DEF Restart, PlacesAreExact, NoSocket
  <2>3. TicketsFollowScreens'
    BY <1>3 DEF Restart, TicketsFollowScreens, NoSocket
  <2> QED BY <2>1, <2>2, <2>3
<1>4. CASE Tick
  <2>1. /\ store' \in [Tickets -> Claim \cup {NONE}]
        /\ \A t \in Tickets : /\ store'[t] # NONE => store[t] # NONE
                              /\ store'[t] # NONE => store'[t].rest = store[t].rest
    <3>1. ASSUME NEW t \in Tickets, store[t] # NONE, store[t].left >= 0
          PROVE  [store[t] EXCEPT !.left = @ - 1] \in Claim
      BY <3>1, RealtimeAssumption DEF RealtimeTypeOK, Claim
    <3> QED BY <1>4, <3>1 DEF Tick, RealtimeTypeOK, Claim
  <2>2. UNCHANGED <<session, screen, sock, room, owner, calm, opened>>
    BY <1>4 DEF Tick
  <2>3. RealtimeTypeOK' /\ OneSocketPerTicket' /\ PlacesAreExact'
    BY <2>1, <2>2 DEF RealtimeTypeOK, OneSocketPerTicket, PlacesAreExact
  <2>4. TicketsFollowScreens'
    BY <2>1, <2>2 DEF TicketsFollowScreens
  <2> QED BY <2>3, <2>4
<1>5. ASSUME NEW c \in Screens, Mount(c) \/ Dispose(c) \/ RetryTimer(c) \/ FetchFails(c)
                                \/ OnOpen(c) \/ OnClose(c)
      PROVE RealtimeInv'
  <2>1. screen[c] \in ScreenState /\ NewScreen \in ScreenState
    BY DEF RealtimeTypeOK, NewScreen, ScreenState
  <2>2. PICK st \in ScreenState :
          /\ screen' = [screen EXCEPT ![c] = st]
          /\ st.ticket = NONE /\ st.pc # "minted"
          /\ st.socket # NONE <=> st.pc \in {"opening", "live"}
          /\ st.socket \in {NONE, screen[c].socket}
          /\ st.socket # NONE => st.rest = screen[c].rest
    <3>1. CASE Mount(c) \/ RetryTimer(c)
      <4> DEFINE st == [screen[c] EXCEPT !.pc = "fetch"]
      <4>1. st \in ScreenState /\ screen' = [screen EXCEPT ![c] = st]
        BY <2>1, <3>1 DEF Mount, RetryTimer, ScreenState, RealtimeTypeOK
      <4> QED BY <2>1, <3>1, <4>1 DEF Mount, RetryTimer, TicketsFollowScreens, ScreenState
    <3>2. CASE OnOpen(c)
      <4> DEFINE st == [screen[c] EXCEPT !.pc = "live"]
      <4>1. st \in ScreenState /\ screen' = [screen EXCEPT ![c] = st]
        BY <2>1, <3>2 DEF OnOpen, ScreenState, RealtimeTypeOK
      <4> QED BY <2>1, <3>2, <4>1 DEF OnOpen, TicketsFollowScreens, ScreenState
    <3>3. ASSUME NEW pc \in {"off", "wait", "stopped"},
                 screen' = [screen EXCEPT ![c] = [NewScreen EXCEPT !.pc = pc]]
          PROVE \E st \in ScreenState :
                  /\ screen' = [screen EXCEPT ![c] = st]
                  /\ st.ticket = NONE /\ st.pc # "minted"
                  /\ st.socket # NONE <=> st.pc \in {"opening", "live"}
                  /\ st.socket \in {NONE, screen[c].socket}
                  /\ st.socket # NONE => st.rest = screen[c].rest
      <4>1. [NewScreen EXCEPT !.pc = pc] \in ScreenState
        BY DEF NewScreen, ScreenState
      <4> QED BY <3>3, <4>1 DEF NewScreen
    <3>4. [NewScreen EXCEPT !.pc = "off"] = NewScreen
      BY DEF NewScreen
    <3> QED BY <1>5, <3>1, <3>2, <3>3, <3>4 DEF Dispose, FetchFails, OnClose, ScheduleRetry
  <2>3. UNCHANGED <<session, server, calm>>
    BY <1>5 DEF Mount, Dispose, RetryTimer, FetchFails, OnOpen, OnClose
  <2> QED BY <2>2, <2>3, ScreenStep
<1>6. ASSUME NEW c \in Screens, Mint(c) PROVE RealtimeInv'
  <2> DEFINE t == AnyOf(FreshTickets)
  <2>1. t \in Unused /\ t \in Tickets
    BY <1>6, AnyOfIsOneOf DEF Mint, FreshTickets, Unused
  <2>2. /\ store' = [Swept EXCEPT ![t] = [rest |-> session, left |-> TTL]]
        /\ opened' = [opened EXCEPT ![t] = 0]
        /\ screen' = [screen EXCEPT ![c] =
                        [NewScreen EXCEPT !.pc = "minted", !.ticket = t, !.rest = session]]
        /\ session \in Restaurants
        /\ UNCHANGED <<session, sock, room, owner, calm>>
    BY <1>6 DEF Mint, TicketScope, SignedIn
  <2> HIDE DEF t
  <2>3. /\ store' \in [Tickets -> Claim \cup {NONE}]
        /\ store'[t].rest = session
        /\ \A u \in Tickets : u # t /\ store'[u] # NONE => store'[u] = store[u]
    <3>1. [rest |-> session, left |-> TTL] \in Claim
      BY <2>2, RealtimeAssumption DEF Claim
    <3> QED BY <2>1, <2>2, <3>1 DEF Swept, RealtimeTypeOK
  <2>4. /\ opened' \in [Tickets -> Nat] /\ opened'[t] = 0
        /\ \A u \in Tickets : u # t => opened'[u] = opened[u]
    BY <2>1, <2>2 DEF RealtimeTypeOK
  <2>5. /\ screen' \in [Screens -> ScreenState]
        /\ screen'[c] = [pc |-> "minted", ticket |-> t, socket |-> NONE, rest |-> session]
        /\ \A d \in Screens : d # c => screen'[d] = screen[d]
    BY <2>1, <2>2 DEF RealtimeTypeOK, NewScreen, ScreenState
  <2>6. RealtimeTypeOK' /\ OneSocketPerTicket' /\ PlacesAreExact'
    BY <2>2, <2>3, <2>4, <2>5 DEF RealtimeTypeOK, OneSocketPerTicket, PlacesAreExact
  <2>7. TicketsFollowScreens'
    <3>1. \A u \in Tickets : store'[u] # NONE => opened'[u] = 0
      BY <2>3, <2>4 DEF TicketsFollowScreens
    <3>2. /\ \A s \in Sockets : sock[s].ticket # t
          /\ \A d \in Screens : d # c => screen'[d] = screen[d] /\ screen[d].ticket # t
      BY <2>1, <2>5 DEF Unused
    <3>3. ASSUME NEW d \in Screens
          PROVE  /\ screen'[d].ticket # NONE <=> screen'[d].pc = "minted"
                 /\ screen'[d].socket # NONE <=> screen'[d].pc \in {"opening", "live"}
                 /\ \A s \in Sockets : screen'[d].socket = s => d # c
                 /\ d # c => screen'[d] = screen[d]
      BY <2>1, <2>5, RealtimeAssumption DEF TicketsFollowScreens
    <3>4. ASSUME NEW d \in Screens, NEW u \in Tickets,
                 screen'[d].ticket = u, store'[u] # NONE
          PROVE  store'[u].rest = screen'[d].rest
      BY <2>1, <2>3, <2>5, <3>2, <3>4 DEF TicketsFollowScreens
    <3>5. ASSUME NEW d \in Screens, NEW s \in Sockets, NEW u \in Tickets,
                 screen'[d].socket = s, sock[s].ticket = u, store'[u] # NONE
          PROVE  store'[u].rest = screen'[d].rest
      BY <2>3, <3>2, <3>3, <3>5 DEF TicketsFollowScreens
    <3> QED BY <2>2, <3>1, <3>3, <3>4, <3>5 DEF TicketsFollowScreens
  <2> QED BY <2>6, <2>7
<1>7. ASSUME NEW c \in Screens, Dial(c) PROVE RealtimeInv'
  <2> DEFINE s == AnyOf(FreeSockets)
  <2>1. s \in Sockets /\ sock[s] = NoSocket /\ \A d \in Screens : screen[d].socket # s
    BY <1>7, AnyOfIsOneOf DEF Dial, FreeSockets, Held
  <2>2. /\ sock' = [sock EXCEPT ![s] = [side |-> "dialing", ticket |-> screen[c].ticket]]
        /\ screen' = [screen EXCEPT ![c].pc = "opening", ![c].ticket = NONE, ![c].socket = s]
        /\ UNCHANGED <<session, store, room, owner, calm, opened>>
        /\ screen[c].pc = "minted"
    BY <1>7 DEF Dial
  <2> HIDE DEF s
  <2>3. screen[c].ticket \in Tickets /\ screen[c].ticket # NONE
    BY <2>2, RealtimeAssumption DEF RealtimeTypeOK, ScreenState, TicketsFollowScreens
  <2>4. /\ sock' \in [Sockets -> SocketState]
        /\ sock'[s] = [side |-> "dialing", ticket |-> screen[c].ticket]
        /\ \A u \in Sockets : u # s => sock'[u] = sock[u]
    BY <2>1, <2>2, <2>3 DEF RealtimeTypeOK, SocketState
  <2>5. /\ screen' \in [Screens -> ScreenState]
        /\ screen'[c] = [pc |-> "opening", ticket |-> NONE, socket |-> s,
                         rest |-> screen[c].rest]
        /\ \A d \in Screens : d # c => screen'[d] = screen[d]
    BY <2>1, <2>2 DEF RealtimeTypeOK, ScreenState
  <2>6. RealtimeTypeOK' /\ OneSocketPerTicket' /\ PlacesAreExact'
    BY <2>1, <2>2, <2>4, <2>5 DEF RealtimeTypeOK, OneSocketPerTicket, PlacesAreExact, NoSocket
  <2>7. owner[s] = NONE
    BY <2>1 DEF PlacesAreExact, NoSocket
  <2>8. TicketsFollowScreens'
    BY <2>1, <2>2, <2>3, <2>4, <2>5, <2>7, RealtimeAssumption DEF TicketsFollowScreens
  <2> QED BY <2>6, <2>8
<1>8. ASSUME NEW s \in Sockets, HandleConnection(s) PROVE RealtimeInv'
  <2> DEFINE t == sock[s].ticket
  <2>1. t \in Tickets /\ sock[s].side = "dialing" /\ UNCHANGED <<session, screen, calm>>
    BY <1>8, RealtimeAssumption
       DEF HandleConnection, RealtimeTypeOK, SocketState, TicketsFollowScreens
  <2>2. ASSUME NEW side \in {"refused", "refusedOrigin"}, PutSocket(s, side),
               store' = store \/ Consume(t), UNCHANGED <<room, owner, opened>>
        PROVE  RealtimeInv'
    <3>1. /\ sock' \in [Sockets -> SocketState] /\ sock'[s] = [side |-> side, ticket |-> NONE]
          /\ \A u \in Sockets : u # s => sock'[u] = sock[u]
      BY <2>2 DEF PutSocket, NoSocket, RealtimeTypeOK, SocketState
    <3>2. /\ store' \in [Tickets -> Claim \cup {NONE}]
          /\ \A u \in Tickets : store'[u] # NONE => store'[u] = store[u]
      BY <2>2 DEF Consume, RealtimeTypeOK
    <3>3. RealtimeTypeOK' /\ OneSocketPerTicket' /\ PlacesAreExact'
      BY <2>1, <2>2, <3>1, <3>2 DEF RealtimeTypeOK, OneSocketPerTicket, PlacesAreExact
    <3>4. TicketsFollowScreens'
      BY <2>1, <2>2, <3>1, <3>2, RealtimeAssumption DEF TicketsFollowScreens
    <3> QED BY <3>3, <3>4
  <2>3. ASSUME Consume(t), Valid(t), HasRoom(store[t].rest), Admit(s, t, store[t].rest)
        PROVE  RealtimeInv'
    <3> DEFINE r == store[t].rest
    <3>1. r \in Restaurants /\ r # NONE /\ store[t] # NONE
      BY <2>1, <2>3, RealtimeAssumption DEF Valid, RealtimeTypeOK, Claim
    <3>2. /\ room' = [room EXCEPT ![r] = @ \cup {s}]
          /\ owner' = [owner EXCEPT ![s] = r]
          /\ opened' = [opened EXCEPT ![t] = @ + 1]
          /\ store' = [store EXCEPT ![t] = NONE]
          /\ Cardinality(room[r]) < MaxConnections
      BY <2>3 DEF Admit, Consume, HasRoom
    <3>3. /\ sock' \in [Sockets -> SocketState] /\ sock'[s] = [side |-> "open", ticket |-> NONE]
          /\ \A u \in Sockets : u # s => sock'[u] = sock[u]
      BY <2>3 DEF Admit, PutSocket, NoSocket, RealtimeTypeOK, SocketState
    <3>4. \A c \in Screens : screen[c].socket = s => screen[c].rest = r
      BY <2>1, <3>1 DEF TicketsFollowScreens
    <3> HIDE DEF r
    <3>5. /\ store' \in [Tickets -> Claim \cup {NONE}] /\ store'[t] = NONE
          /\ \A u \in Tickets : u # t => store'[u] = store[u]
      BY <2>1, <3>2 DEF RealtimeTypeOK
    <3> HIDE DEF t
    <3>6. /\ owner' \in [Sockets -> Restaurants \cup {NONE}] /\ owner'[s] = r
          /\ \A u \in Sockets : u # s => owner'[u] = owner[u]
      BY <3>1, <3>2 DEF RealtimeTypeOK
    <3>7. /\ room' \in [Restaurants -> SUBSET Sockets] /\ room'[r] = room[r] \cup {s}
          /\ \A q \in Restaurants : q # r => room'[q] = room[q]
      BY <3>1, <3>2 DEF RealtimeTypeOK
    <3>8. /\ opened' \in [Tickets -> Nat] /\ opened'[t] = 1
          /\ \A u \in Tickets : u # t => opened'[u] = opened[u]
      BY <2>1, <3>1, <3>2 DEF RealtimeTypeOK, TicketsFollowScreens, t
    <3>9. Cardinality(room'[r]) <= MaxConnections
      BY <3>1, <3>2, <3>7, AdmittedFits DEF RealtimeTypeOK
    <3>10. owner[s] = NONE /\ t \in Tickets
      BY <2>1 DEF PlacesAreExact, t
    <3>11. RealtimeTypeOK' /\ OneSocketPerTicket'
      BY <2>1, <3>3, <3>5, <3>6, <3>7, <3>8, <3>10 DEF RealtimeTypeOK, OneSocketPerTicket
    <3>12. PlacesAreExact'
      <4>1. ASSUME NEW q \in Restaurants, NEW u \in Sockets
            PROVE  u \in room'[q] <=> owner'[u] = q
        BY <3>1, <3>6, <3>7, <3>10, RealtimeAssumption DEF PlacesAreExact
      <4>2. ASSUME NEW q \in Restaurants PROVE room'[q] = {u \in Sockets : owner'[u] = q}
        BY <3>7, <4>1
      <4>3. ASSUME NEW q \in Restaurants PROVE Cardinality(room'[q]) <= MaxConnections
        BY <3>7, <3>9 DEF PlacesAreExact
      <4>4. ASSUME NEW u \in Sockets PROVE sock'[u].side = "open" <=> owner'[u] # NONE
        BY <3>1, <3>3, <3>6 DEF PlacesAreExact
      <4> QED BY <4>2, <4>3, <4>4 DEF PlacesAreExact
    <3>13. TicketsFollowScreens'
      BY <2>1, <3>3, <3>4, <3>5, <3>6, <3>8, <3>10, RealtimeAssumption
         DEF TicketsFollowScreens
    <3> QED BY <3>11, <3>12, <3>13
  <2> QED BY <1>8, <2>2, <2>3 DEF HandleConnection
<1>9. ASSUME NEW s \in Sockets, HandleDisconnect(s) PROVE RealtimeInv'
  <2>1. /\ sock' \in [Sockets -> SocketState] /\ sock'[s] = NoSocket
        /\ \A u \in Sockets : u # s => sock'[u] = sock[u]
    BY <1>9 DEF HandleDisconnect, RealtimeTypeOK, SocketState, NoSocket
  <2>2. /\ owner' \in [Sockets -> Restaurants \cup {NONE}] /\ owner'[s] = NONE
        /\ \A u \in Sockets : u # s => owner'[u] = owner[u]
    BY <1>9 DEF HandleDisconnect, Release, RealtimeTypeOK
  <2>3. /\ room' \in [Restaurants -> SUBSET Sockets]
        /\ \A r \in Restaurants : room'[r] = IF r = owner[s] THEN room[r] \ {s} ELSE room[r]
    BY <1>9 DEF HandleDisconnect, Release, RealtimeTypeOK
  <2>4. UNCHANGED <<session, store, screen, calm, opened>> /\ ~Held(s)
    BY <1>9 DEF HandleDisconnect
  <2>5. RealtimeTypeOK' /\ OneSocketPerTicket'
    BY <2>1, <2>2, <2>3, <2>4 DEF RealtimeTypeOK, OneSocketPerTicket
  <2>6. PlacesAreExact'
    <3>1. ASSUME NEW r \in Restaurants, NEW u \in Sockets
          PROVE  u \in room'[r] <=> owner'[u] = r
      BY <2>2, <2>3, RealtimeAssumption DEF PlacesAreExact
    <3>2. ASSUME NEW r \in Restaurants PROVE room'[r] = {u \in Sockets : owner'[u] = r}
      BY <2>3, <3>1
    <3>3. ASSUME NEW r \in Restaurants PROVE Cardinality(room'[r]) <= MaxConnections
      <4>1. room[r] \in SUBSET Sockets /\ Cardinality(room[r]) <= MaxConnections
        BY DEF PlacesAreExact, RealtimeTypeOK
      <4>2. Cardinality(room[r] \ {s}) <= MaxConnections
        BY <4>1, ReleasedFits
      <4> QED BY <2>3, <4>1, <4>2
    <3>4. ASSUME NEW u \in Sockets PROVE sock'[u].side = "open" <=> owner'[u] # NONE
      BY <2>1, <2>2 DEF PlacesAreExact, NoSocket
    <3> QED BY <3>2, <3>3, <3>4 DEF PlacesAreExact
  <2>7. TicketsFollowScreens'
    BY <2>1, <2>2, <2>4, RealtimeAssumption DEF TicketsFollowScreens, Held, NoSocket
  <2> QED BY <2>5, <2>6, <2>7
<1>10. ASSUME NEW s \in Sockets, LoseRequest(s) PROVE RealtimeInv'
  <2>1. /\ sock' \in [Sockets -> SocketState] /\ sock'[s] = NoSocket
        /\ \A u \in Sockets : u # s => sock'[u] = sock[u]
    BY <1>10 DEF LoseRequest, RealtimeTypeOK, SocketState, NoSocket
  <2>2. /\ UNCHANGED <<session, store, screen, room, owner, calm, opened>>
        /\ ~Held(s) /\ sock[s].side = "dialing"
    BY <1>10 DEF LoseRequest
  <2>3. RealtimeTypeOK' /\ OneSocketPerTicket' /\ PlacesAreExact'
    BY <2>1, <2>2 DEF RealtimeTypeOK, OneSocketPerTicket, PlacesAreExact, NoSocket
  <2>4. TicketsFollowScreens'
    BY <2>1, <2>2, RealtimeAssumption DEF TicketsFollowScreens, Held, NoSocket
  <2> QED BY <2>3, <2>4
<1>11. ASSUME NEW o \in Sockets, PresentAgain(o) PROVE RealtimeInv'
  <2> DEFINE s == AnyOf(FreeSockets)
  <2>1. s \in Sockets /\ sock[s] = NoSocket /\ \A d \in Screens : screen[d].socket # s
    BY <1>11, AnyOfIsOneOf DEF PresentAgain, FreeSockets, Held
  <2>2. /\ sock' = [sock EXCEPT ![s] = sock[o]]
        /\ UNCHANGED <<session, store, screen, room, owner, calm, opened>>
        /\ sock[o].side = "dialing"
    BY <1>11 DEF PresentAgain
  <2> HIDE DEF s
  <2>3. /\ sock' \in [Sockets -> SocketState] /\ sock'[s] = sock[o]
        /\ \A u \in Sockets : u # s => sock'[u] = sock[u]
    BY <2>1, <2>2 DEF RealtimeTypeOK
  <2>4. RealtimeTypeOK' /\ OneSocketPerTicket' /\ PlacesAreExact'
    BY <2>1, <2>2, <2>3 DEF RealtimeTypeOK, OneSocketPerTicket, PlacesAreExact, NoSocket
  <2>5. TicketsFollowScreens'
    BY <2>1, <2>2, <2>3 DEF TicketsFollowScreens
  <2> QED BY <2>4, <2>5
<1> QED BY <1>2, <1>3, <1>4, <1>5, <1>6, <1>7, <1>8, <1>9, <1>10, <1>11
        DEF RealtimeNext, ScreenSteps, SocketSteps

\* RealtimeInv is an invariant.
THEOREM ConnectionsAreSound == RealtimeSpec => []RealtimeInv
<1> QED BY RealtimeInitially, RealtimeStep, PTL DEF RealtimeSpec

\* A ticket minted by RealtimeTicketService opens one connection, for any number of
\* connections that present it, screens and restarts.
THEOREM TicketsOpenOnce == RealtimeSpec => []OneSocketPerTicket
<1>1. RealtimeInv => OneSocketPerTicket
  BY DEF RealtimeInv
<1> QED BY <1>1, ConnectionsAreSound, PTL

\* The gateway's two maps agree and keep every restaurant within its limit, for any
\* limit and any number of sockets.
THEOREM PlacesAreNeverLost == RealtimeSpec => []PlacesAreExact
<1>1. RealtimeInv => PlacesAreExact
  BY DEF RealtimeInv
<1> QED BY <1>1, ConnectionsAreSound, PTL

\* A screen is only ever in the audience of the restaurant its ticket was minted
\* for, whoever signs in at its browser afterwards.
THEOREM EventsStayAtHome == RealtimeSpec => []OwnEventsOnly
<1>1. RealtimeInv => OwnEventsOnly
  <2> SUFFICES ASSUME RealtimeInv, NEW c \in Screens, NEW r \in Restaurants,
                      screen[c].socket \in Audience(r)
               PROVE  screen[c].rest = r
    BY DEF OwnEventsOnly
  <2>1. screen[c].socket \in Sockets /\ owner[screen[c].socket] = r
    BY DEF Audience, RealtimeInv, PlacesAreExact
  <2> QED BY <2>1, RealtimeAssumption DEF RealtimeInv, TicketsFollowScreens
<1> QED BY <1>1, ConnectionsAreSound, PTL
=============================================================================
