# RAISE in TLA+

RAISE lets a guest book a restaurant table and order ahead by talking to an
assistant, and lets the kitchen time the food so that it is ready shortly after
the guest sits down. This directory holds TLA+ models of its server and of its
two web apps, and the proofs about them. Source paths below are relative to the
repository root.

* [Inventory](#inventory) – the parts of the system, their state, what is hard
* [Modules](#modules) – what models what, and how it corresponds to the code
* [Runs](#runs) – what TLC checks, on which instances, and what it shows
* [Proofs](#proofs) – what TLAPS proves, from which assumptions
* [Where the code and its comments disagree](#where-the-code-and-its-comments-disagree)
* [Not modelled](#not-modelled) and [Plan](#plan)

## Inventory

Everything shared is in one Postgres database; every handler reaches it through
`forRestaurant`, one interactive transaction at Read Committed with row-level
security (`apps/api/src/prisma`). There is no queue and no job: what happens
later happens because a request, an in-process event (`EventEmitter2`) or a
browser does it.

| part | state | operations | talks to |
|---|---|---|---|
| Intake (`intake/`) | `Visit` in `draft`, its expiry, `VisitItem`, `ConversationTurn` | `start`, `processTurn` with its tools `set_party_details`, `propose_table`, `list_*`, `add/update/remove_order_item` | dialogue engine, speech recognition, menu |
| Dialogue engines (`intake/llm/`) | none between turns | `runTurn`: one of two engines, both through the tools | intake tools, Claude |
| Booking (`visits/visits.service.ts`) | `Visit.status/customerId/tableId`, `Table.status`, `VisitStatusEvent` | `confirm` | emits `VISIT_CONFIRMED` |
| Reassignment (`dashboard/table-reassignment.service.ts`) | `Visit.tableId`, `Table.status` | `reassign` | emits `VISIT_TABLE_REASSIGNED` |
| Timing (`timing/`) | `Visit.kitchenStartTarget/foodOutTarget/updatedAt` | `recompute`, `recomputeForEtaChange`, `acceptKitchenStart` | listens to `VISIT_CONFIRMED`, emits `VISIT_TIMING_RECOMPUTED`, `VISIT_KITCHEN_ACCEPTED` |
| Kitchen (`kitchen/`) | `Visit.status`, `VisitAllergyAcknowledgment`, `VisitStatusEvent` | `listQueue`, `acknowledgeAllergies`, `markFoodOut` | emits `VISIT_ALLERGY_ACKNOWLEDGED`, `VISIT_FOOD_OUT` |
| Notifications (`notifications/`) | `NotificationLog` rows: pending, sent, failed | confirmation SMS, staff alert, drift alert: claim, send, mark | SMS provider, realtime |
| Realtime (`realtime/`) | single-use tickets with a lifetime, sockets per restaurant, all in memory | `mint`, `consume`, connect, disconnect, fan-out | listens to every event above |
| Live screens (`apps/restaurant`: `use-dashboard-socket`, `dashboard-live`, `kitchen-live`) | socket status, the fetched list, the ids known | reconnect, resync, patch or refetch, announce; acknowledge, food out, move | realtime, the two list queries |
| Menu (`menu-items/`, the menu pages and actions) | `MenuItem`, what an open page shows | list, get, create, update, toggle | sessions, intake |
| Identity (`auth/`, `guards/`) | one-time codes, customers, memberships, tokens | request and verify a code, sign in, guard a route | all routes |
| Customer app (`apps/customer`) | the chat and the confirm panel, each with its own `busy` flag | start, send a turn or a clip, request and verify a code, confirm | intake, identity, booking |

How a visit lives: `start` creates a draft; conversation turns write its party
size, arrival time, order and *proposed* table; `confirm` claims the table
(`free` to `held`) and binds the visit to a verified customer; the timing engine
computes when to start cooking; staff may move the visit to another table; a
cook accepts the ticket, acknowledges its allergies and marks the food out.
The statuses `table_set`, `guest_arrived`, `completed`, `cancelled`, `no_show`
and the table status `seated` are in the schema, but no code writes them yet:
a table returns to the pool only by a reassignment.

What is hard in it:

* **Check, then write, in two transactions.** `confirm` reads and validates the
  visit in one and claims in another; `reassign`, `propose_table` and
  `add_order_item` likewise. What was read may be stale when it is used.
* **Check, then write, in two statements.** `markFoodOut` reads the allergy gate
  and then writes the status. Read Committed gives each statement its own
  snapshot.
* **Racing identical requests.** Double-taps and retries of confirm, accept,
  acknowledge and food out; each claims by a conditional `UPDATE` or a unique
  key and must answer truthfully when it loses.
* **All or nothing.** The loser of one claim must take back the other.
* **Lost work.** A crash between commit and emit, or between claim and send; an
  engine that fails after some of its tool calls.
* **Screens that lag.** Events sent before their transaction commits, lost
  while a socket is down, or overtaken by an older refetch.
* **Clients with two minds.** Two `busy` flags on one page, a recorder that
  sends its clip when it likes, two tabs with one cookie, pages older than the
  session or the row they show.

What makes each part correct: *booking and reassignment* – a booked visit has
its own held table and no other table is out of the pool; one audit event per
transition; nobody else's booking reported as success. *Kitchen* – no flagged
food out without an acknowledgment on record; one event per transition; honest
answers. *Timing* – the targets in force belong to the arrival time in force;
started food is not re-timed. *Notifications* – at most one message per visit
and kind, alerts exactly for drift. *Realtime and screens* – a ticket opens one
socket, no place in a room leaks, and a screen that stays connected ends up
showing the database. *Intake* – an expired draft is recapped before it is used,
only what can be had enters the draft, an allergy flag the guest was told of stays. *Identity
and customer app* – a code opens one session, a booking is what the guest read,
and a guest who wants the table gets it. *Menu* – only owners change a menu, and
a form does what it shows. `PROJECT.json` lists the hazards line by line with
the properties that cover them.

## Modules

| module | models |
|---|---|
| `Booking` | visits and tables under confirm, reassign, the intake writes and the kitchen's status writes |
| `TableHolds` | abstract: what reserving a table promises |
| `Kitchen` | one confirmed ticket: acknowledge, accept, food out, order edits, statement by statement |
| `PassGate` | abstract: what the pass promises of a ticket |
| `Timing` | the target arithmetic; recompute, ETA change and accept on one visit, statement by statement |
| `Notifications` | the handlers that claim, send and mark; failing transactions, crashes |
| `DriftAlerts` | `Timing` composed with `Notifications`: which recompute alerts the restaurant, and when |
| `Realtime` | tickets, the gateway's rooms, the browser's end of each connection |
| `Screens` | what a dashboard or kitchen screen shows of one visit while it is written, announced, refetched and missed |
| `Intake` | the requests of one conversation, transaction by transaction, with both dialogue engines |
| `GuestApp` | the customer's page: chat, voice clips, one-time codes, confirmation |
| `Menu` | the menu as its owners edit it, through tabs, sessions and guards |
| `MCBooking`, `MCKitchen`, `MCNotifications`, `MCDriftAlerts`, `MCRealtime`, `MCScreens`, `MCIntake`, `MCGuestApp`, `MCMenu` | TLC instances |
| `BookingProofs`, `KitchenProofs`, `DriftAlertsProofs`, `RealtimeProofs`, `ScreensProofs`, `IntakeProofs`, `GuestAppProofs`, `MenuProofs` | theorems |

`Timing` is model-checked inside `DriftAlerts`, which extends it and `Notifications`; the
theorems about all three are in `DriftAlertsProofs`.

A history variable is one no action reads to decide what the system does; the modules mark
them. Most say which of the known ways to a bad outcome has been
taken, so that a property can say that there are no others.

### Booking

`visit` and `table` are the database rows with the columns the code decides on:
status, customer, table and which of party size and arrival time is known (the
values do not matter to any guard). `audit` is the sequence of
`VisitStatusEvent` rows of each visit. `req` is what each request being served
remembers between its transactions: its program counter, the visit, the
customer from the token, the table it is after (for confirm the one it *read*),
the table reassign read, and the answer.

A step is one transaction. This is exact for the write transactions modelled
here: they consist of conditional `UPDATE`s (and an `INSERT` into the audit
table that cannot conflict), every row they match stays locked until they
commit, so the conditions still hold together at the commit point, and a
transaction that gives up does so on a row whose condition failed while its
earlier rows were locked.

Nor can these transactions deadlock. `confirm` locks visit, then table;
`reassign` locks new table, visit, old table; every other writer of these rows
locks one. A conditional `UPDATE` waits only for a row whose committed version
satisfies its condition. So a wait for an old table, committed as `held`, is for
a reassign at its last claim, which waits for nothing. A reassign that waits for
its visit, committed as booked, waits for another reassign or a one-row writer,
never for a confirm, whose visit is a draft; that reassign waits for its old table
if at all. A wait for a new table, committed as `free`, is for a confirm at its last claim
or for a reassign in one of the two positions before. Whoever waits for anything
else holds nothing yet. Every chain of waits ends.

| action | code |
|---|---|
| `Start` | `IntakeService.start` |
| `SetPartyDetails` | tool `set_party_details`: one `UPDATE` by id |
| `ProposeRead`, `ProposeWrite` | tool `propose_table`: its two transactions |
| `ConfirmRead` with `ConfirmPrecheck` | the read and the early returns of `confirm`, in their order |
| `ConfirmCommit`, `ConfirmTableTaken`, `ConfirmClaimLost`, `ConfirmReread` | the transaction, its two rollbacks, and the second look after a lost visit claim |
| `ReassignRead`, `ReassignCommit`, `ReassignRefused` | `reassign` |
| `AcceptKitchenStart`, `MarkFoodOut` | the status writes of the kitchen, detailed in `Kitchen` |
| `EndRequest` | the answer was sent, or the request died with its connection or the process |

Since a dead request leaves only its open transaction behind, and that rolls
back, `EndRequest` covers crashes at every point between transactions.

The constant `GuestWaits` says whether guests' clients keep turns and confirms
of one visit apart. Nothing in the API does: `processTurn` serves a visit of
any status. In the customer app the chat and the confirm panel have separate
`busy` flags (`intake-chat.tsx:57`, `confirm-panel.tsx:47`), so an overlap needs
only a guest who presses confirm while a turn is being answered; `GuestApp` has
both flags. Properties that need the assumption are checked and proved with it,
one of them is shown to fail without it; all others are checked without it.

### Kitchen

One ticket, from its confirmation on: the kitchen screen shows only confirmed
and started tickets, so its requests find no draft. A step is one *statement*;
`VisitLocked` and `AckLocked` are the row lock of an updated visit and the
unique key of an inserted acknowledgment, both kept until commit. What an
uncommitted transaction wrote is not in `status`, `ack` or `trail`.

| action | code |
|---|---|
| `AckRead`, `AckInsert`, `AckConflict`, `AckCommit` | `acknowledgeAllergies`: lookup, insert, unique violation, commit |
| `AcceptArrive`, `AcceptUpdate`, `AcceptCommit` | `acceptKitchenStart` |
| `FoodOutGate`, `FoodOutUpdate`, `FoodOutCommit` | `markFoodOut` with `foodOutGate` |
| `EditOrder` | the three order tools of a conversation turn, which look at no status |
| `EndRequest` | answer sent, or rollback by crash, timeout or lost connection |

`AckConflict` answers with an error: in Postgres a failed statement aborts its
transaction, so the query in the `catch` block fails as well.
`OrderIsFinal` excludes `EditOrder`; the comment on `foodOutGate` assumes it,
the API does not enforce it.

### Timing

One confirmed visit, whose row (`status`, `eta`, `targets`, `stamp`) is written by
recomputes, ETA changes, the kitchen's accept and the writers that take no notice
of any of them. A step is one statement: `RecomputeRead` computes from the row it
read and `WriteTargets`/`Commit` write later, so what others commit in between is
seen or overwritten as Read Committed has it. `HoldsRow` is the row lock of an
updated row. What an open transaction has written is kept in its request until
`Commit`, which is where `eta`, `targets` and `stamp` change.

`ComputeTimingTargets` is `computeTimingTargets` over whole minutes; the longest
preparation sets both targets. `configured` says whether the restaurant's settings hold
both buffers: without them, as without dishes, a recompute is `visit_not_ready`.

| action | code |
|---|---|
| `RecomputeRead`, `WriteTargets`, `WriteRefused` | `recompute`: read and compute, the conditional update, its refusal |
| `EtaArrive`, `EtaClaim`, `EtaRead` | `recomputeForEtaChange`: the caller's reading, the claim by token, the computation in the same transaction |
| `Commit`, `EndRequest` | the end of the transaction; rollback, or the answer sent |
| `AcceptKitchenStart` | `acceptKitchenStart`, one conditional update with its audit row |
| `OtherWrite`, `EditOrder` | any other update of the row by id; the order tools, which write other rows |
| `Tick` | the clock `updatedAt` is read from |

An ETA change that finds no dishes (or no buffers) has already claimed the row:
it commits its arrival time and answers `visit_not_ready`. `EtaRead` models this.

`FreshStamps` says that two updates of the row never carry the same `updatedAt`.
A clock of milliseconds does not ensure it. Only `OneWinnerPerReading` needs it;
the other properties are checked with it and proved without it.

### Notifications

A job is one execution of an event handler. It walks `look`, `claim`, `send`,
`mark`, or `fail` when the send throws; each is a transaction of its own, so a
crash (`Crash`) or a failing transaction (`DatabaseFails`) may come between any two.
`log` has the `NotificationLog` status per type, unique per visit and type, and
`sends` counts what a provider or the live screens took. A send that throws may
have been taken all the same (`SmsThrows`). `Finish` is what `run` leads to: the
confirmed visit's handler goes on from the guest's message to the restaurant's
alert whether or not the first failed. Events are delivered any number of times;
nothing redelivers one after a crash.

### DriftAlerts

`EventEmitter2` calls handlers inside the emit, so `Announce` is the update of the
targets *and* the start of the handler; the handler's own transactions then run
beside the one that is still open. `CallsForAlert` is what `onTimingRecomputed` and
`isSignificantDrift` let through. `drifted` is a history variable: an ETA
change that moves the kitchen start by the threshold has been written, or
committed. A recompute may roll back after its emit. The confirmed-visit
handlers and the death of the process play no part here; they are in
`Notifications`.

### Realtime

`screen` has the locals of each mounted `useDashboardSocket`, `sock` the sockets
as the *server* sees them, `room` and `owner` the gateway's two maps, `store` the
tickets in memory. The handshake of a WebSocket is over before
`handleConnection` looks at it, so a refused socket opens and then closes for the
screen (`OnOpen`, `OnClose`), and the two ends learn of a socket's end
separately: `Held` is the browser's end, `HandleDisconnect` the server's notice. The
gateway sends no pings, so a browser that vanishes without closing its connection keeps its
place in the room until TCP gives the connection up or the API is started again: the notice
may never come.

| action | code |
|---|---|
| `Mount`, `Dispose` | the effect of the hook and its cleanup |
| `Mint`, `FetchFails` | the ticket route and `RealtimeTicketService.mint`, which sweeps first; a refusal, a lost answer or the login page in place of JSON |
| `Dial`, `OnOpen`, `OnClose`, `RetryTimer` | `connect` and its callbacks; an origin refusal stops the screen for good |
| `HandleConnection` with `Consume`, `Valid`, `HasRoom`, `Admit` | `handleConnection`: origin, ticket, limit, room |
| `HandleDisconnect` with `Release` | `handleDisconnect`, which also runs for refused sockets |
| `Audience` | `emitToRestaurant` |
| `Login`, `SignOut` | whose restaurant the browser's cookie is for, at any moment |
| `PresentAgain`, `LoseRequest`, `Restart`, `Tick`, `CalmDown` | a ticket presented twice, a request lost, the API started again, ticket lifetimes, the end of failures |

### Screens

One visit and one screen of either kind. `row` is what the database has
committed, `tx` the transaction that is changing it, `wire` the events sent and
not yet handled, `fetch` the refetches in flight, `shown` and `known` the state
of the component. Most writers emit before they commit (`early`); `confirm` and
`reassign` afterwards. `details` stands for what else a screen shows and a writer may change:
arrival time, party, dishes; `flagged` for a line with an allergy. `View` is the query the screen's list comes from, `Inbound`
(`listInboundVisits`) or `Queue` (`listQueue`).

| action | code |
|---|---|
| `Confirm`, `Recompute`, `EtaChange`, `AcceptKitchenStart`, `AcknowledgeAllergies`, `MarkFoodOut`, `Reassign`, `Commit`, `Announce`, `Rollback` | the writers as far as a screen can tell |
| `LateTurn` with `Slip` | the tools of a turn that ends after the confirmation: `propose_table`, `set_party_details`, the order tools; also an ETA change no target can be computed from. They emit nothing |
| `Open`, `LoseConnection`, `Crash` | the socket comes up, with its resync; is lost; the API dies |
| `OnMessage` with `NeedsRefetch`, `Patches` | `applyDashboardEvent` and `parseDashboardEvent`; the kitchen refetches on everything |
| `Read`, `Answer`, `FetchFails` | a refetch: the query, its answer with the announcement of new arrivals, its failure |
| `PressSeen`, `PressFoodOut`, `PressMove`, `ActionFails` | the buttons, their refusals and failures; each refetches afterwards |
| `Tick` | a ticket becomes due; nothing tells the screen |

`blurred` collects the ways in which a screen is left with a false picture,
listed with `RestingScreenIsTrue`. The first refetch that is free of them clears it. Two of
them need no race: a late turn's write, of which no screen is told, and an ETA change, whose event carries
the new target but not the new arrival time, so that a dashboard that patches its list
(`dashboard-events.ts:33-43`) goes on showing the old one.

### Intake

One draft. A request is a record in `turn` that walks through `processTurn`: read, the
customer's turn persisted, the recap of an expired draft or the engine, the
system's turn persisted, the window refreshed, the visit read again, the token
minted, the answer delivered. Each is a transaction of its own, and requests may
overlap. `engine` is which dialogue engine is configured: `DevPlans` are the tool
calls `DevDialogueEngine` makes for what it understands (`Asks`) and those it
makes from their answers; `ClaudeCalls` any call with any id, `MaxCalls` of them
(`AskTool`). A tool that checks and then writes is two steps (`AddOrderItem`,
`CreateLine`; `ProposeTable`, `SetProposal`). `GetMenuItemDetails` stands for the tools
that only read.

`lapsed` and `silent` are history: the draft has expired and no answer has told the guest,
as of now and as of the start of a request. The guest is told when the answer that holds the recap
is delivered, not when its row is written. `missed` says that such an answer was lost after
it had renewed the window, and that none has arrived since.

Of the tools only `list_open_tables` looks at a table's size (`fits`). `propose_table` asks
whether it is free, so `free` holds free tables of any size, and Claude may propose one
the party does not fit at.

| action | code |
|---|---|
| `Request` | the guard and the first read of `processTurn` |
| `Misheard`, `Heard` | a clip with no words; the customer's turn persisted |
| `Recap`, `RespondWithSystemTurn` | the expired draft, and `respondWithSystemTurn`, which re-engages only then |
| `Think`, `AskTool`, `ExecuteTool`, `Reply`, `EngineFails` | `runTurn` and the tools; its answer; the outage branch, which undoes nothing |
| `Refresh`, `Return`, `Deliver`, `Die` | the window, the second read with `mintToken`, the page's new token; a crash or a lost answer |
| `ToggleAvailable`, `ToggleTable`, `Tick` | the owner, other guests, time |

### GuestApp

The state of `IntakeChat` and `ConfirmPanel` by name, the requests in flight, and
`DevOtpProvider`'s challenges. A visit's content is one number: 0 when party,
time or table is missing, another number after a turn that changes it. The
recorder (`mic`) sends its clip when it stops, whatever the page does by then.

| action | code |
|---|---|
| `StartVisit`, `StartAnswered`, `StartFails` | `/api/intake/start`, never asked again |
| `SendText`, `StartRecording`, `StopRecording`, `SubmitClip`, `DropClip` | the chat's controls and `submitTurn` |
| `ProcessTurn`, `TurnAnswered`, `TurnFails` | the turn at the API, and what the page makes of its answer |
| `PressSend`, `CustomerRequestOtp`, `CodeSent` | `sendCode` |
| `PressVerify`, `CustomerVerifyOtp`, `UpsertCustomer`, `Verified` | `verifyCode`; the code is consumed before the customer is written |
| `PressConfirm`, `Confirm`, `RefuseConfirm`, `Confirmed` | `confirm` of the panel and of the API |
| `OtherPageAsks`, `OtherPageVerifies`, `OpFails`, `Tick` | another page of the same guest, a lost request or answer, time |

### Menu

A request walks through the two API calls of every page and action: who is
signed in (`staffMe`), then the work behind its three guards. `page` is what a
tab was rendered with, however old; `cookie` is one per browser. `switched` and
`old` in a page or request say that somebody signed in or out, or that the dish
was changed from another tab, since it was rendered; `old` also that the tab's own form changed
it and was told that it had failed. A request remembers in `seen` what its page showed. A tab that shows nothing has `NoPage`, one
that waits for nothing `NoRequest`.

| action | code |
|---|---|
| `OpenMenu`, `OpenNew`, `OpenEdit` | the three pages |
| `SaveForm`, `CreateForm`, `PressToggle` | the Server Actions; a form sends every field it holds |
| `NoToken`, `Unauthorized`, `NoSession`, `StaffMe` | `requireStaffSession`; only an action may clear the cookie |
| `Guards`, `Invalid` | `StaffJwtGuard`, `StaffRestaurantGuard`, `RolesGuard`; a form filled in wrongly |
| `NoAnswer` with `Fails` | a call that does not get through, or whose transaction fails, before anything is written |
| `List`, `Get`, `Create`, `Update` with `Revalidate` or `Unheard` | `MenuItemsService` inside `forRestaurant`; then the list is rendered again, or the action has not learnt of its own write |
| `Login`, `Logout`, `Forget`, `ChangeMembership`, `Tick` | sessions, memberships (external), time |

A write may be committed and the action be told nothing of it: `update` reads the row back in
a second transaction (`menu-items.service.ts:74`) that may fail, and any answer may be lost. The form
then says "Please try again", the button ends on an error page, and nothing is rendered again
(`Unheard`). What follows is in the model: the same form sent again over what it has
itself changed, and a dish created twice.

## Runs

| run | shows |
|---|---|
| `booking_guest_waits` | with `GuestWaits`: every booked visit has its own held table and no hold leaks (`ExclusiveHold`); every step is a step of `TableHolds` (`HoldsSpec`) |
| `booking_api` | without it: never more booked visits than held tables (`NeverOversold`), one audit event per transition naming the right customer (`AuditTrailExact`), no success that is not one (`SuccessIsReal`), a customer never replaced (`CustomerIsBound`) |
| `booking_overlapping_turn` | `NoDoubleBooking` fails without `GuestWaits` |
| `kitchen_order_final` | with `OrderIsFinal`: no flagged food out unacknowledged (`AllergyGate`); every step is a step of `PassGate` (`PassSpec`) |
| `kitchen_api` | without it: one event per transition in order (`TrailExact`), true answers (`RepliesAreTrue`), every request that waits for others' locks comes to an end (`EveryRequestEnds`) |
| `notifications` | under every fault: one message per kind (`AtMostOnce`), a log that says *sent* only of what was sent (`LogIsHonest`); until the first fault: no claim stays pending (`ClaimsSettle`), a failing SMS does not keep the alert from the restaurant (`RestaurantHears`) |
| `drift_alerts` | started food keeps its targets (`StartedIsHistory`), an ETA change is applied whole (`EtaChangeIsWhole`), one of those made against one reading wins (`OneWinnerPerReading`); alerts only for a significant ETA change, whatever else moves the targets (`NoFalseAlarm`); every one that is committed has been noticed once the handlers are through (`DriftIsNoticed`) |
| `realtime` | a ticket opens one socket (`OneSocketPerTicket`); the two maps agree with the open sockets and the limit (`PlacesAreExact`); no event leaves its restaurant, whoever signs in since (`OwnEventsOnly`); once failures stop, every screen gets in unless its own restaurant has all the sockets it may have (`ScreensComeBack`) |
| `screens` | the kitchen is never shown work ahead of its time (`ScreensInv`); a screen at rest shows the database, with the listed exceptions and no others (`RestingScreenIsTrue`), and catches up (`ScreenCatchesUp`); a booking is announced once (`AnnouncedOnce`) |
| `intake` | one answer per request in the transcript, after what the guest said (`IntakeInv`); an expired draft goes on only once a recap has reached the guest, lost recaps and overlaps aside (`ExpiredDraftsAreRecapped`); only dishes that are available and tables that are free come in (`OnlyWhatCouldBeHad`); a flag the guest was told of stays (`FlagsAreKept`); the token outlives the window by the grace period (`GracePeriodHolds`) |
| `guest` | a booking is what the page showed when Confirm was pressed, the listed overlaps aside (`BookedAsRead`); a code opens one session (`OneSessionPerCode`); a guest who keeps trying gets the table, the listed dead ends aside (`GuestGetsThrough`) |
| `menu` | a page shows its restaurant's dishes as they are unless they were changed from another tab, or by its own form that was told otherwise (`MenuInv`); only owners change dishes (`OwnersOnly`); forms and buttons make of a dish what their page says, however old it is (`FormsMeanWhatTheyShow`); a good session is not lost to a passing failure (`GoodSessionsLast`) |

**Bounds.** *Booking*: two visits, two customers, two simultaneous requests, and
two tables (three in `booking_guest_waits`). Two visits are what it takes to
double-book or to strand a hold; two requests are reused after they end, so any
number of requests happens, two at a time, and every claim in the code excludes
one competitor; a third table lets a visit be moved while another is booked and
one is free. Each visit is created once. *Kitchen*: one ticket (requests for two
tickets share no row), two cooks, two order lines; three simultaneous requests in
`kitchen_order_final`, the smallest number with one lock holder and two waiters,
and two in `kitchen_api`, whose state space a liveness check walks without
symmetry. The audit sequences need no bound: each transition happens once.
*Notifications*: three handlers of one visit at once; `MaxSends` lies beyond what
is promised, so a second send would show. *DriftAlerts*: two requests, two
handlers, one dish, three arrival times that differ by less and by more than the
threshold; a tool that changes the arrival time without retiming lets an ordinary
recompute move the targets as far as an ETA change does. `MaxClock` bounds the
milliseconds that pass and, under `FreshStamps`, the updates of the row: one to
win and one that would have to lose. An alert that finds no idle handler of
`Jobs` waits for one.

*Realtime*: two restaurants, two screens, two sockets and two tickets, at one
connection per restaurant, so that the second screen meets a full room; a ticket
is good for the tick it was minted in. Names are used again once nothing refers
to them, so any number of connections happens. *Screens*: one visit, one screen,
two refetches that can overtake each other, two changes of the visit, one fault,
one minute that passes. Two changes are one to be missed and one to be told of
meanwhile; each exception needs one fault or none, and the three safety properties are
proved for any number, so that only `ScreenCatchesUp` rests on this bound. *Intake*: one dish, one table, two allergens, two requests that may overlap
or follow one another, one call of Claude, one change of the menu or the tables,
one fault, and a clock that reaches past the window and the grace period. *GuestApp*: two
numbers, two turns, three codes, one typo, one failed request, codes that expire
with the tick. *Menu*: two users, two restaurants, two dishes, two tabs, two
writes, one sign-in as somebody else or one change of a membership, tokens that
expire.

`MaxWrites`, `MaxFaults`, `MaxTurns`, `MaxSwitches` and their like bound what a whole behaviour
may hold, so the runs of `Screens`, `Intake`, `GuestApp` and `Menu` do not check
deadlock: a behaviour may use up its bounds, or the guest may be through. Nor does
`realtime`, where everything may be at rest once it is calm. The other runs check it.

**Symmetry.** Where identities are interchangeable model values used only with
equality, the runs of safety properties declare them symmetric: `Booking`,
`kitchen_order_final`, `drift_alerts`, the tabs of `menu`. Runs with liveness
properties do not. Elsewhere a name is taken from several free ones by `CHOOSE`
where it makes no difference, which has the same effect.

**Fairness.** `FairSpec` of `Kitchen` has strong fairness for each request's
next statement. Postgres queues the waiters of a lock and Node runs every
settled promise, so a statement that can run again and again is not passed over
for ever; weak fairness would not express this, because a lock that is taken
and dropped by others disables the waiter each time. Nothing is assumed of staff
or guests: no run claims that a ticket is ever accepted or served. A request
still waiting may be ended by `EndRequest` at any time, which the property
counts as an end. `FairNotificationSpec` has weak fairness for
the next step of a handler that has started: the event loop resumes a settled
promise, and no other handler can disable that step. It assumes nothing
of events and guests. After a crash or a failed transaction the code promises no
more sends, so the two liveness properties hold up to the first of these, which
the history variable `faulted` records.

`FairRealtimeSpec` has weak fairness for the timers, requests and callbacks of
each screen, for time, and for the server's handling of each socket: its handshake, and its
own closing of one it has refused (`Settled`), from the moment failures stop (`calm`).
It assumes nothing of who signs in, and not that the server hears of a browser that is gone:
`ScreensComeBack` counts the sockets the server still has, of the restaurant in question only. `FairScreensSpec` has weak fairness for the end of
a transaction, for the reconnecting hook, for the handling of a message and for
the answer of each refetch; not for faults, writers, buttons or the clock.
`FairGuestSpec` has weak fairness for the requests of the panel, and for a guest
who wants the table: who asks for a code, enters the one that came and presses
Confirm. It assumes nothing of the chat and of mistakes.

## Proofs

All theorems hold for any values of the constants that meet the modules'
assumptions: any numbers of visits, tables, requests, screens, phones.

`BookingProofs`:

* `TypeCorrect`: `Spec => []TypeOK`.
* `HoldsAreExclusive`: `ASSUME GuestWaits PROVE Spec => []ExclusiveHold`.
  `ExclusiveHold` alone is not inductive: a confirm about to commit claims the
  table it read, and nothing in `ExclusiveHold` says that the visit still points
  to it. `HoldInv` adds what the requests remember: `ConfirmIsFresh` (a draft under
  a pending confirm still points to the table read), `TurnBeforeConfirm` (a turn in
  flight belongs to a draft with no confirm in flight, which is where `GuestWaits`
  is used), `MoveIsFresh` (a pending move has two different tables) and
  `StatusReached` (the statuses this code writes). The proof has one lemma per
  action; for `ConfirmCommit` and `ReassignCommit` exclusivity follows from the
  claimed table being free, hence nobody's, and for a move from the `WHERE` clause
  that the visit still sits where the request read it.
* `HoldsAreKept`: `ASSUME GuestWaits PROVE Spec => HoldsSpec`, the refinement: with
  `HoldInv`, a commit of confirm is a `Take`, a commit of reassign a `Move`, and all
  else a stutter, under the mapping of `seat` and `taken`.
* `TrailIsExact`, `SuccessesAreReal`, `CustomersStayBound`, with no assumption on
  the guest's client, from one invariant, `RecordInv`: its part `Witnessed` says of
  each request that a confirm under way has a visit that exists and is no stranger's
  draft, and that one answered success has it booked for its caller.
* `RestaurantIsNeverOversold`: `Spec => []NeverOversold`, by counting: `CountInv` adds to
  `RecordInv` that requests hold proper tables. A booking takes one free table along, a
  move takes one before it gives one back; so the two cardinalities keep their order,
  even when an overlapping turn has sent the visit to a table it did not claim.

`KitchenProofs`:

* `TypeCorrect`: `Spec => []TypeOK`.
* `FlaggedFoodIsAcknowledged`: `ASSUME OrderIsFinal PROVE Spec => []AllergyGate`. Its
  inductive invariant `GateInv` adds `GatePassed`: a request past the gate but
  before its commit still satisfies it, because the order does not change and an
  acknowledgment is never taken back. That is the argument of the comment on
  `foodOutGate`, under the assumption the comment makes.
* `PassIsKept`: `ASSUME OrderIsFinal PROVE Spec => PassSpec`, the refinement, from `GateInv`
  and `TicketInv`.
* `TrailIsExact`, `AnswersAreTrue`, with no assumption on the order, from `TicketInv`: its part `LocksHold`
  says that the row and the unique key have one holder each, who found them as its
  `WHERE` clause and the key demand.

`DriftAlertsProofs`, about `Timing`:

* `TargetArithmetic`: started at the target, every dish is done a buffer before the
  guest arrives, the slowest exactly so, and the food goes out
  `ExpoBuffer - PrepBuffer` minutes after the arrival, whatever was ordered.
* `TypeCorrect`, `RowInvariant`: an open update's row is confirmed, and there is
  at most one.
* `CookedFoodStays`: `Spec => StartedIsHistory`. From `RowInvariant`: targets
  change only at a commit, and its transaction holds a row that is still
  confirmed.
* `EtaChangesAreWhole`: `Spec => EtaChangeIsWhole`. `WholeInv` adds `OwnTargets`: what an ETA
  change is about to write was computed from its own arrival time.
* `OneEtaChangeWins`: `ASSUME FreshStamps PROVE Spec => []OneWinnerPerReading`.
  Two winners of one reading exclude each other only through the stamp, so
  `StampInv` says where each token stands: never ahead of the row's stamp, equal
  to it while its owner holds the row, behind it once its owner was answered.

about `Notifications`:

* `RowsAreOwned`, `SentAtMostOnce`: `NotificationSpec => []AtMostOnce`. `OnceInv` adds
  `OneOwner`: the handler whose insert made the row is the only one past its
  claim, and it has sent nothing before it sends.
* `LogTellsTheTruth`: `NotificationSpec => []LogIsHonest`, with `SentMeansSent` on top of
  `OnceInv`: the one handler that may mark the row has sent before it does.

about the two together. Every step of the composition is one of each or leaves it alone
(`DriftImplementsTiming`, `DriftImplementsNotifications`), so their invariants carry over:

* `AlarmsAreTrue`: `DriftSpec => []NoFalseAlarm`. The handler judges the targets its
  call has read, the property those in force. `AlarmInv` closes the gap:
  `ReadIsCurrent` says that what an ETA change is about to replace is what is in
  force, because it has held the row since its claim and targets change only in
  the commit of a holder (`RowInv`); `Heard` says that a handler at work on an alert
  was called for.
* `NoDriftIsMissed`: `DriftSpec => []DriftIsNoticed`. `NoticeInv` follows a significant change
  from its commit back: it was announced before (`OpenMoves`), and what was announced has
  been answered or is in the hands of a handler, of the one that made the row once there
  is one (`Noticed`), so that the others may leave.

`RealtimeProofs`:

* `ConnectionsAreSound`, `TicketsOpenOnce`, `PlacesAreNeverLost`, `EventsStayAtHome`, all
  from `RealtimeInv`. Its part `TicketsFollowScreens` says that a stored ticket has
  opened nothing yet, that a ticket on its way and the place it gets are for the
  restaurant of the screen it was minted for, and that a socket is one screen's.

`GuestAppProofs`:

* `CodesOpenOneSession`: `GuestSpec => []OneSessionPerCode`. `CodeInv` adds `Unspent`: a
  code that can still be used has opened nothing, and no two phones wait for the
  same one.
* `BookingsAreRead`: `GuestSpec => []BookedAsRead`. `PageInv` says what holds as long as no
  request has run beside another (`Clear`): at most one turn is in flight, and none while a
  booking is; the page shows the draft as it is unless that answer is still to come or was
  lost; what was read back is what was shown.

`ScreensProofs`:

* `ScreenOnTime`: `ScreensSpec => []ScreensInv`. `PaintInv` adds that nothing an answer in
  flight holds is ahead of its time, which time alone cannot spoil; that the dashboard
  patches its list without looking at the target is harmless because the kitchen
  screen refetches whatever it hears (`OnMessageOnTime`).
* `BookingAnnouncedOnce`: `ScreensSpec => []AnnouncedOnce`. A refetch that is answered with
  nothing makes the dashboard forget the booking, and the next one announces it again.
  `EmptyIsOlder` says why answers in order never do that: a visit once booked stays
  booked (`StaysBooked`), so an empty answer was read before every one that
  finds the visit, and is late as soon as one of those is shown. `Kept` is what every other
  step leaves of the refetches in flight.
* `RestingScreensAreTrue`: `ScreensSpec => []RestingScreenIsTrue`. Nothing about a screen at rest
  is inductive; what is, is what the messages and the answers on their way will still make
  of a list. `TrueInv` says that what is shown, and what an answer in flight that nothing has
  spoilt would show, `Settles`: the screen is offline (and resyncs when it comes back), or an
  event on its way makes it refetch or tells it that it may be wrong (`Roused`), or the
  list becomes right by being patched with those that are (`Fits`). Otherwise another
  refetch is still to be read or will overtake this one (`Covered`). An event that is out
  ahead of its commit has not been used up (`Pending`). `WireInv` says what patches add up to: the last target
  on the wire is the visit's, and a kitchen start is undone only by a food out behind it, on which
  the dashboard refetches. `OrderInv` is needed for `confirmed`, which a dashboard ignores when it
  has the visit already. The silent writers fall under one case, `Slipped`: what they write they write into
the open transaction as well, and a screen they concern is `blurred` at once, with every
answer in flight marked late (`TurnSlips`, `SlipSettles`, `SpoiltTrue`).

`IntakeProofs`. `RequestInv` (`RequestsServe`) is inductive by itself: for each request, how
far its rows in the transcript have come at each stage, whether it knows that the draft expired,
and that what its tools may bring in has been available since it was received. From it follow

* `TranscriptsAreWhole`, `OnlyLiveChoices`: `IntakeInv` and `OnlyWhatCouldBeHad`, however requests
  overlap.
* `ExpiryIsNeverSilent`: `ExpiredDraftsAreRecapped`. `LapseInv`: while requests do not overlap and no
  recap was missed, a draft whose expiry the guest has not heard of is expired, as is what
  a request that knows of it has read, or a recap that has renewed the window is about to be
  delivered (`Recapping`). So whoever comes next and finds the window renewed
  comes after the recap. Neither exception can be dropped: without `missed` the
  run finds the lost recap.
* `GuestsCanComeBack`: `GracePeriodHolds`. `GraceInv`: the token of the page reaches the grace period
  beyond the window, unless a request is between its refresh and its answer, and then
  the answer's does; `Alone`, that there is only one such request unless some overlapped.
* `FlagsStay`: `FlagsAreKept`. `ToldInv` says of every flag an answer is about to claim that it
  is there or that the call which sets it is still to be made, and that lines of the future have none; its
  hypotheses are those of the property, `DevDialogueEngine` and no overlap.

`MenuProofs`, all from `TabInv` (`TabsAreTrue`): a page shows a dish of its restaurant, as it is
unless marked `old`, and the restaurant of whoever is signed in unless `switched`; a request
has the session of its page, under the same conditions, and would make of the dish its page
showed what the page says, under none (`Meant`); past its guards, its user has owned its
restaurant at some moment since it was made.

* `PagesAreServedFresh` (`MenuInv`), `OnlyOwnersWrite` (`OwnersOnly`), `FormsAreApplied`
  (`FormsMeanWhatTheyShow`), `GoodSessionsAreKept` (`GoodSessionsLast`). A write is one case for
  all of them, `WriteKeeps`, whether the list is rendered again or the tab has not heard of it
  (`AnsweredWriteKeeps`).

The constants carry named assumptions: `NONE` is no identity, visit, instant, answer, session or
row; preparation times are positive (`menu-items` validates them, and the engine
refuses others) and bounded; buffers are not negative (`isValidBufferMinutes`);
the sockets of a process are finitely many; a conversation's token outlives its window (both
in `draft-policy.ts`); there is a restaurant, and memberships
are lists of a restaurant and a role. `RestaurantIsNeverOversold`
counts, and assumes finitely many visits and tables.

Only model-checked is what needs fairness and `ENABLED`, which the prover does not
handle: the liveness properties `EveryRequestEnds`, `ClaimsSettle`, `RestaurantHears`,
`ScreensComeBack`, `ScreenCatchesUp`, `GuestGetsThrough`. Every other property of a run that passes
is the statement of a theorem. Those with a condition in the run (`GuestWaits`, `OrderIsFinal`,
`FreshStamps`) have it in the theorem. No module has a `RECURSIVE` operator.

## Where the code and its comments disagree

**A turn that overlaps a confirm double-books** (`booking_overlapping_turn`).
`confirm` claims the table it read; `propose_table` rewrites `Visit.tableId` by id.
If the proposal commits between the read and the claim, or after the booking,
the visit is booked at a table nobody holds, and another guest books it too.
`visits.e2e-spec.ts:18-19` and `visits.service.ts:71-72` promise otherwise; the
repository's test races two confirms only.

The other disagreements met while modelling are steps of the models rather than runs of
their own.

*Booking and intake*

* A retry that comes after the kitchen has accepted is answered `not_draft`:
  `confirm` recognises only `confirmed` as already booked (`visits.service.ts:53`, `:156`),
  its comment promises the same confirmed state to every repeated call (`:35-39`).
  `Booking` answers so; `SuccessIsReal` allows it.
* When the engine fails after some of its tool calls, their changes stay; the comment in
  `intake.service.ts:135-136` says that the draft is kept as it is (`EngineFails`).
* An expired draft "never silently continues" (`intake.service.ts:106-107`), but the recap renews the
  window before its answer is sent (`:187-193`). If that answer is lost, the next message goes
  to the engine with the guest told of nothing (`missed`); two overlapping requests may do
  the same.
* `propose_table` accepts a free table the party does not fit at (`tool-handlers.ts:200`), where
  `list_open_tables` offers only those it fits at (`:64-69`).
* `DialogueTurnInput.history` is said not to hold the current message
  (`dialogue-engine.interface.ts:12`); it is read after that has been persisted, so Claude gets
  the message twice.
* An allergen `DevDialogueEngine` does not know is answered "Noted — I'll flag that
  allergy" without a flag (`dev-dialogue.engine.ts:141-143`). A line added after an allergy
  has been named carries no flag; `FlagsAreKept` speaks of the lines there were.
* Which of several matching lines that engine changes is not defined: a draft's lines are
  read without an order.

*Kitchen and timing*

* A late conversation turn can flag a line of a ticket that is past the gate: the
  comment on `foodOutGate` (`kitchen.service.ts:198-205`) relies on orders that do not
  change, the order tools look at no status (`tool-handlers.ts:130-141`, `:175-180`).
  Hence `OrderIsFinal`.
* The second of two simultaneous acknowledgments ends in an error: the lookup that
  should find the first one (`kitchen.service.ts:132`) runs in the transaction the unique
  violation has aborted. The comment (`:106-108`) promises the existing acknowledgment
  (`AckConflict`).
* A recompute may overwrite the targets of an ETA change. It "recomputes targets from
  whatever is currently on the row" (`timing.service.ts:53`), but writes them in a later
  statement that checks the status only (`:169-170`); the visit keeps the new arrival
  time with the targets of the old one until something recomputes again.
  `EtaChangeIsWhole` speaks of the moment the change is applied.
* The token of an ETA change is `updatedAt`, in milliseconds. An update within the
  millisecond of the reading leaves it unchanged, and two changes made against one
  reading can both win; `OneWinnerPerReading` fails with `FreshStamps = FALSE`. The
  method has no HTTP caller yet. One answered `visit_not_ready` has stored its arrival time.
* The comment in `notification.subscriber.ts:88-90` takes the emitting operation for
  committed; `VISIT_TIMING_RECOMPUTED` is emitted inside its transaction. An alert
  may precede the commit, and after a rollback its one log row is spent.
  `NoFalseAlarm` is stated accordingly.
* Drifts below the threshold never alert however many add up: each is measured
  against the target it replaces.

*Screens and realtime*

* The dashboard refetches or patches on every event of a visit it lists but
  `visit.food_out`, which `parseDashboardEvent` does not know (`dashboard-events.ts:76`).
* The kitchen screen has no timer: a ticket that becomes due appears with the next
  refetch, whatever causes it. No screen has a button for `acceptKitchenStart`.
* The tools of a turn that ends after the confirmation write the visit and emit nothing
  (`tool-handlers.ts:105`, `:130`, `:175`, `:188`, `:204`), and an ETA change reaches a dashboard without its
  arrival time: a live screen shows the old values until something else makes it refetch (`LateTurn`,
  `EtaChange`).
* A browser that is gone without a word keeps one of its restaurant's connections: the gateway
  has no ping. Enough of them lock the restaurant out until the API restarts.
* The dashboard's list of tables to move to is as of the page's rendering.
* A refused socket opens first, and opening resets `attempt`
  (`use-dashboard-socket.ts:99`), so the delay never grows while a restaurant is full.

*Guest and menu*

* A guest whose code was consumed without an answer, or sent to a mistyped number, is
  stuck: once a code is sent, the panel offers no other.
* A failed `/api/intake/start` is not retried, and messages and clips are then dropped
  without a word (`intake-chat.tsx:79-107`, `:114`).
* The form of a dish sends its checkbox as it was rendered: saving an old form undoes
  what another tab has toggled since. The form for a new dish adds it to the restaurant of whoever is
  signed in by then.
* A save that was committed and answered with an error says "Please try again"
  (`menu/actions.ts:95`, `:122`), over fields that React has reset to what was rendered: sent again with
  another change only, it undoes the first. A dish created so is created twice.
* A rendered page cannot change cookies, so `requireStaffSession` there fails to clear
  one that is refused (`require-staff-session.ts:30-34`).

## Not modelled

*SMS providers* and *speech recognition* beyond their outcomes, *Twilio Verify*,
password hashing and token signatures: I/O and libraries. What a sentence matches in
`DevDialogueEngine` and what Claude says. The SQL of row-level security and
`forCurrentUser`, which are outside the program text but for the policy `Menu` and
`forRestaurant` rely on; time zones. Quantities, modifications and the party's size, which nothing
looks at but `list_open_tables`; there, whether the party fits is left open (`fits`).
Backoff delays, error messages, elapsed-time displays, speech synthesis and layout;
wording of times (`shared-types`), no property being about wording. Seed data and
bootstrap, which run once before anything modelled starts. `getState`, which only
reads. The lifetime of a customer's token, longer than anything `GuestApp` does.

`Booking`, `Intake` and `GuestApp` meet at one row and are not composed in one state
space: `Booking` has the turns that touch a confirm, `GuestApp` has both as the page
sees them, and `Intake` what a turn does inside.

## Plan

What was planned is built, and every safety property is proved. Worth doing next, should the code
move: the statuses after `food_out` in `Booking`, once something writes
them and tables return to the pool; `recomputeForEtaChange` with its caller, once it has
one; an abstract specification of the live screen that `Screens` implements, for which
`TrueInv` is the invariant to start from.
