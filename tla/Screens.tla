------------------------------- MODULE Screens -------------------------------
(***************************************************************************)
(* What a live screen of the restaurant shows of one visit: DashboardLive  *)
(* or KitchenLive, fed by a first paint, by events on the socket and by    *)
(* refetches, while the visit is being booked, timed, moved, cooked and    *)
(* served, from elsewhere or with the buttons of this very screen.         *)
(*                                                                         *)
(* Three orders are independent of each other: that of commits in the      *)
(* database, that of events on the socket, which most writers send before  *)
(* they commit, and that in which refetches are read and answered.  Some   *)
(* writers tell no screen at all.  The history variable blurred is set by  *)
(* the ways in which all this is known to leave a false picture, and       *)
(* cleared by the first refetch free of them.                              *)
(* A press of a button and the request it makes are one step: what changes *)
(* between them changes no more than what a stale screen has missed.       *)
(***************************************************************************)
EXTENDS Naturals, Sequences

CONSTANTS
    Times,         \* bound: minutes a kitchen start may be computed for
    Tables,
    Details,       \* when the guests arrive, how many they are, what they eat
    MaxClock,      \* bound
    Fetches,       \* bound: refetches in flight at the same time
    MaxWrites,     \* bound: transactions that change the visit
    MaxFaults,     \* bound: rollbacks, lost connections, crashes, failed refetches
    NONE

ASSUME ScreensAssumption ==
    /\ Times \subseteq Nat
    /\ MaxClock \in Nat /\ MaxWrites \in Nat /\ MaxFaults \in Nat
    /\ NONE \notin Times

VARIABLES
    kind,          \* which of the two screens this is
    row,           \* the visit as the database has committed it
    tx,            \* the transaction that is changing it, and its event
    now,           \* the clock listQueue compares with
    live,          \* the socket is open and in its room
    wire,          \* events sent to the screen and not yet handled
    fetch,         \* the refetches in flight
    shown,         \* the visit as the screen shows it; NONE: not listed
    known,         \* knownVisitIds / knownTicketIds holds the visit
    said,          \* history: how often the visit was announced as new
    writes, faults,
    blurred,       \* history: see above
    outOfOrder     \* history: an answer was overtaken by a later one

screenVars == <<kind, row, tx, now, live, wire, fetch, shown, known, said,
                writes, faults, blurred, outOfOrder>>

-----------------------------------------------------------------------------

Statuses == <<"draft", "confirmed", "kitchen_started", "food_out">>

\* flagged: one of its lines carries an allergy; acked: the kitchen has said it saw that.
Visit == [status : {Statuses[i] : i \in DOMAIN Statuses}, target : Times \cup {NONE},
          table : Tables, details : Details, flagged : BOOLEAN, acked : BOOLEAN]

ASSUME NoVisitAssumption == NONE \notin Visit

Event == [name : {"confirmed", "recomputed", "accepted", "acked", "food_out", "reassigned"},
          target : Times \cup {NONE}, void : BOOLEAN]

NoTx == [stage |-> "none"]

IdleFetch == [stage |-> "idle"]

\* DashboardService.listInboundVisits: the acknowledgment is no part of it.
Inbound ==
    IF row.status \in {"confirmed", "kitchen_started", "food_out"}
      THEN [row EXCEPT !.acked = FALSE] ELSE NONE

\* Mutant: tickets are listed ahead of their time.
QueueAhead ==
    IF row.status \in {"confirmed", "kitchen_started"} /\ row.target # NONE
      THEN row ELSE NONE

\* KitchenService.listQueue.
Queue ==
    IF row.status \in {"confirmed", "kitchen_started"} /\ row.target # NONE /\ row.target <= now
      THEN row ELSE NONE

\* What a refetch reads.
View == IF kind = "dashboard" THEN Inbound ELSE Queue

Quiet == UNCHANGED <<kind, now>>

\* Answers read before this moment no longer hold.
Overtaken(g) ==
    [f \in DOMAIN g |-> IF g[f].stage = "read" THEN [g[f] EXCEPT !.late = TRUE] ELSE g[f]]

-----------------------------------------------------------------------------
(* The writers of the visit                                                 *)

Send(e) == wire' = IF live THEN Append(wire, e) ELSE wire

Message(name, target) == [name |-> name, target |-> target, void |-> FALSE]

\* A transaction has written new, for this screen or for somebody else.  Most writers
\* announce it there and then.
Begin(new, event, early, here) ==
    /\ tx = NoTx /\ writes < MaxWrites
    /\ tx' = [stage |-> "open", new |-> new, event |-> event, early |-> early, here |-> here]
    /\ writes' = writes + 1
    /\ IF early THEN Send(event) ELSE UNCHANGED wire
    /\ Quiet
    /\ UNCHANGED <<row, live, shown, known, said, faults, outOfOrder>>

Write(new, event, early, here) ==
    Begin(new, event, early, here) /\ UNCHANGED <<fetch, blurred>>

Confirm ==
    /\ row.status = "draft"
    /\ Write([row EXCEPT !.status = "confirmed"], Message("confirmed", NONE), FALSE, FALSE)

Recompute ==
    /\ row.status = "confirmed"
    /\ \E t \in Times \ {row.target} :
          Write([row EXCEPT !.target = t], Message("recomputed", t), TRUE, FALSE)

\* The new arrival comes with a new target, and the event tells only of the target: a
\* dashboard that patches it goes on showing the old arrival.
EtaChange ==
    /\ row.status = "confirmed"
    /\ \E d \in Details \ {row.details}, t \in Times :
          Begin([row EXCEPT !.details = d, !.target = t], Message("recomputed", t), TRUE, FALSE)
    /\ IF kind = "dashboard" THEN blurred' = TRUE /\ fetch' = Overtaken(fetch)
                             ELSE UNCHANGED <<blurred, fetch>>

\* No screen has a button for it.
AcceptKitchenStart ==
    /\ row.status = "confirmed"
    /\ Write([row EXCEPT !.status = "kitchen_started"], Message("accepted", NONE), TRUE, FALSE)

\* Whatever there is to be seen.
AcknowledgeAllergies(here) ==
    /\ ~row.acked
    /\ Write([row EXCEPT !.acked = TRUE], Message("acked", NONE), TRUE, here)

\* Its status and the gate allow it.
Servable == row.status = "kitchen_started" /\ (row.flagged => row.acked)

MarkFoodOut(here) ==
    /\ Servable
    /\ Write([row EXCEPT !.status = "food_out"], Message("food_out", NONE), TRUE, here)

Movable == row.status \in {"confirmed", "kitchen_started"}

Reassign(t, here) ==
    /\ Movable /\ t # row.table
    /\ Write([row EXCEPT !.table = t], Message("reassigned", NONE), FALSE, here)

Elsewhere ==
    \/ AcknowledgeAllergies(FALSE) \/ MarkFoodOut(FALSE)
    \/ \E t \in Tables : Reassign(t, FALSE)

\* The row of the visit is another transaction's.  An acknowledgment has a row of its own.
RowLocked == tx.stage = "open" /\ tx.event.name # "acked"

\* A turn that ends after the booking was confirmed still writes what its tools were
\* called with: the table, the party or the lines.  Nothing is announced, as when an
\* arrival changes that no target can be computed from; and the transaction that is
\* open meanwhile leaves it as it is.
Slip(column, value) ==
    /\ row.status # "draft" /\ writes < MaxWrites
    /\ row[column] # value
    /\ row' = [row EXCEPT ![column] = value]
    /\ tx' = IF tx.stage = "open" THEN [tx EXCEPT !.new = [@ EXCEPT ![column] = value]] ELSE tx
    /\ writes' = writes + 1
    /\ Quiet
    /\ LET missed == View' # View
       IN  /\ blurred' = (blurred \/ missed)
           /\ fetch' = IF missed THEN Overtaken(fetch) ELSE fetch
    /\ UNCHANGED <<live, wire, shown, known, said, faults, outOfOrder>>

LateTurn ==
    \/ ~RowLocked /\ \E t \in Tables : Slip("table", t)
    \/ ~RowLocked /\ \E d \in Details : Slip("details", d)
    \/ \E b \in BOOLEAN : Slip("flagged", b)

IdleFetches == {f \in DOMAIN fetch : fetch[f].stage = "idle"}

\* resync() is called.  Which of the idle ones it is makes no difference.
Ask ==
    /\ IdleFetches # {}
    /\ fetch' = [fetch EXCEPT ![CHOOSE f \in IdleFetches : TRUE] = [stage |-> "asked"]]

\* onReassign and run: whatever its action returns, the screen refetches.
ActionReturns == IF tx.here THEN Ask ELSE UNCHANGED fetch

Commit ==
    /\ tx.stage = "open"
    /\ row' = tx.new
    /\ tx' = IF tx.early THEN NoTx ELSE [tx EXCEPT !.stage = "announce"]
    /\ IF tx.early THEN ActionReturns ELSE UNCHANGED fetch
    /\ Quiet
    /\ UNCHANGED <<live, wire, shown, known, said, writes, faults, blurred, outOfOrder>>

\* confirm and reassign announce what they have committed.
Announce ==
    /\ tx.stage = "announce"
    /\ Send(tx.event)
    /\ tx' = NoTx
    /\ ActionReturns
    /\ Quiet
    /\ UNCHANGED <<row, live, shown, known, said, writes, faults, blurred, outOfOrder>>

-----------------------------------------------------------------------------
(* The screen                                                               *)

\* Mutant: a reconnected screen waits for the next event.
OpenWithoutResync ==
    /\ ~live
    /\ live' = TRUE
    /\ Quiet
    /\ UNCHANGED <<row, tx, wire, fetch, shown, known, said, writes, faults, blurred, outOfOrder>>

\* The socket is admitted; onopen resyncs.
Open ==
    /\ ~live
    /\ live' = TRUE
    /\ Ask
    /\ Quiet
    /\ UNCHANGED <<row, tx, wire, shown, known, said, writes, faults, blurred, outOfOrder>>

\* The list after a change only an event has told of.
Patched(m) ==
    IF m.name = "recomputed" THEN [shown EXCEPT !.target = m.target]
                             ELSE [shown EXCEPT !.status = "kitchen_started"]

\* Mutant: an event about a visit that is not listed is nothing to this screen.
NeedsRefetchIfListed(m) ==
    IF kind = "kitchen" THEN shown # NONE \/ m.name = "confirmed" ELSE m.name = "reassigned"

\* The kitchen refetches whatever it hears.  The dashboard does when it cannot
\* tell the new list from the event, and drops the events it does not know.
NeedsRefetch(m) ==
    \/ kind = "kitchen"
    \/ m.name = "reassigned"
    \/ m.name \in {"confirmed", "recomputed", "accepted"} /\ shown = NONE

Patches(m) ==
    kind = "dashboard" /\ m.name \in {"recomputed", "accepted"} /\ shown # NONE

OnMessage ==
    /\ live /\ wire # <<>>
    /\ wire' = Tail(wire)
    /\ LET m == Head(wire) IN
         \/ /\ NeedsRefetch(m)
            /\ Ask
            /\ UNCHANGED <<shown, blurred>>
         \/ /\ ~NeedsRefetch(m)
            /\ shown' = IF Patches(m) THEN Patched(m) ELSE shown
            /\ fetch' = IF Patches(m) \/ m.name = "food_out" THEN Overtaken(fetch) ELSE fetch
            /\ blurred' = (blurred \/ m.void \/ (kind = "dashboard" /\ m.name = "food_out"))
    /\ Quiet
    /\ UNCHANGED <<row, tx, live, known, said, writes, faults, outOfOrder>>

\* The API answers a refetch from what is committed.
Read(f) ==
    /\ fetch[f].stage = "asked"
    /\ fetch' = [fetch EXCEPT ![f] =
                   [stage |-> "read", view |-> View, late |-> FALSE,
                    early |-> tx.stage = "open" /\ tx.early,
                    older |-> {g \in DOMAIN fetch : fetch[g].stage = "read"}]]
    /\ Quiet
    /\ UNCHANGED <<row, tx, live, wire, shown, known, said, writes, faults, blurred, outOfOrder>>

\* Mutant: the set of known visits only ever holds the last arrivals.
NewArrivalAgain(v) == v # NONE /\ (~known \/ v # shown)

NewArrival(v) == v # NONE /\ ~known

\* The answer arrives and replaces the list.
Answer(f) ==
    LET a == fetch[f] IN
    /\ a.stage = "read"
    /\ shown' = a.view
    /\ known' = (a.view # NONE)
    /\ said' = IF NewArrival(a.view) /\ said < 2 THEN said + 1 ELSE said
    /\ fetch' = [g \in DOMAIN fetch |->
                   IF g = f THEN IdleFetch
                   ELSE IF fetch[g].stage # "read" THEN fetch[g]
                   ELSE [fetch[g] EXCEPT !.older = @ \ {f}, !.late = @ \/ g \in a.older]]
    /\ blurred' = (a.late \/ a.early)
    /\ outOfOrder' = (outOfOrder \/ a.late)
    /\ Quiet
    /\ UNCHANGED <<row, tx, live, wire, writes, faults>>

-----------------------------------------------------------------------------
(* Its buttons                                                              *)

\* The action comes back with nothing done.
NothingDone ==
    /\ Ask
    /\ Quiet
    /\ UNCHANGED <<row, tx, live, wire, shown, known, said, writes, blurred, outOfOrder>>

Refused == NothingDone /\ UNCHANGED faults

\* The kitchen's list has a ticket for the visit.
Listed == shown # NONE

\* The flags of a ticket are shown seen or unseen alike; the button while unseen.
PressSeen ==
    /\ kind = "kitchen" /\ Listed /\ shown.flagged /\ ~shown.acked
    /\ AcknowledgeAllergies(TRUE) \/ (row.acked /\ Refused)

PressFoodOut ==
    /\ kind = "kitchen" /\ Listed /\ shown.status = "kitchen_started"
    /\ MarkFoodOut(TRUE) \/ (~Servable /\ Refused)

PressMove ==
    /\ kind = "dashboard" /\ shown # NONE
    /\ \E t \in Tables \ {shown.table} :
          Reassign(t, TRUE) \/ ((~Movable \/ t = row.table) /\ Refused)

-----------------------------------------------------------------------------
(* Time and faults                                                          *)

\* A ticket becomes due, or does not: nothing tells the screen.
Tick ==
    /\ now < MaxClock
    /\ now' = now + 1
    /\ LET due == kind = "kitchen" /\ row.target # NONE /\ row.target = now + 1
                    /\ row.status \in {"confirmed", "kitchen_started"}
       IN  /\ blurred' = (blurred \/ due)
           /\ fetch' = IF due THEN Overtaken(fetch) ELSE fetch
    /\ UNCHANGED <<kind, row, tx, live, wire, shown, known, said, writes, faults, outOfOrder>>

Fault == faults < MaxFaults /\ faults' = faults + 1

\* The API is not reached, or the table is another visit's by now.
ActionFails == shown # NONE /\ Fault /\ NothingDone

\* What an event said will never have happened.
Voided == [i \in DOMAIN wire |-> IF wire[i] = tx.event THEN [wire[i] EXCEPT !.void = TRUE] ELSE wire[i]]

Rollback ==
    /\ tx.stage = "open" /\ Fault
    /\ tx' = NoTx
    /\ wire' = IF tx.early THEN Voided ELSE wire
    /\ blurred' = (blurred \/ tx.early)
    /\ ActionReturns
    /\ Quiet
    /\ UNCHANGED <<row, live, shown, known, said, writes, outOfOrder>>

LoseConnection ==
    /\ live /\ Fault
    /\ live' = FALSE /\ wire' = <<>>
    /\ Quiet
    /\ UNCHANGED <<row, tx, fetch, shown, known, said, writes, blurred, outOfOrder>>

\* The API dies, with the transaction or before it could announce it.
Crash ==
    /\ Fault
    /\ tx' = NoTx /\ live' = FALSE /\ wire' = <<>>
    /\ IF tx = NoTx THEN UNCHANGED fetch ELSE ActionReturns
    /\ Quiet
    /\ UNCHANGED <<row, shown, known, said, writes, blurred, outOfOrder>>

FetchFails(f) ==
    /\ fetch[f].stage # "idle" /\ Fault
    /\ fetch' = [g \in DOMAIN fetch |->
                   IF g = f THEN IdleFetch
                   ELSE IF fetch[g].stage # "read" THEN fetch[g]
                   ELSE [fetch[g] EXCEPT !.older = @ \ {f},
                           !.late = @ \/ fetch[f].stage = "asked" \/ g \in fetch[f].older]]
    /\ blurred' = TRUE
    /\ Quiet
    /\ UNCHANGED <<row, tx, live, wire, shown, known, said, writes, outOfOrder>>

-----------------------------------------------------------------------------

\* The screen starts from what the page was rendered with.
Mounted(initial) == shown = initial /\ known = (initial # NONE)

\* Staff read that the screen may be out of date.
Banner == ~live

\* The page is rendered from a read of its own and then connects.
FirstPaint == Mounted(View) /\ live = FALSE

ScreensInit ==
    /\ kind \in {"dashboard", "kitchen"}
    /\ now = 0
    /\ row \in {v \in Visit :
                  /\ ~v.acked /\ v.status \in {"draft", "confirmed"}
                  /\ v.status = "draft" => v.target = NONE
                  /\ kind = "dashboard" => ~v.flagged
                  /\ v.table = CHOOSE t \in Tables : TRUE
                  /\ v.details = CHOOSE d \in Details : TRUE}
    /\ tx = NoTx
    /\ FirstPaint /\ wire = <<>>
    /\ fetch = [f \in Fetches |-> IdleFetch]
    /\ said = 0
    /\ writes = 0 /\ faults = 0
    /\ blurred = FALSE /\ outOfOrder = FALSE

Steps == Commit \/ Announce \/ Open \/ OnMessage \/ \E f \in Fetches : Read(f) \/ Answer(f)

ScreensNext ==
    \/ Confirm \/ Recompute \/ EtaChange \/ AcceptKitchenStart \/ Elsewhere \/ LateTurn
    \/ PressSeen \/ PressFoodOut \/ PressMove \/ ActionFails
    \/ Steps \/ Tick
    \/ Rollback \/ LoseConnection \/ Crash \/ \E f \in Fetches : FetchFails(f)

ScreensSpec == ScreensInit /\ [][ScreensNext]_screenVars

\* A transaction ends, the socket is opened again, a message is handled and a request
\* is answered, sooner or later.
FairScreensSpec ==
    /\ ScreensSpec
    /\ WF_screenVars(Commit) /\ WF_screenVars(Announce)
    /\ WF_screenVars(Open) /\ WF_screenVars(OnMessage)
    /\ \A f \in Fetches : WF_screenVars(Read(f)) /\ WF_screenVars(Answer(f))

-----------------------------------------------------------------------------
(* Properties                                                               *)

\* Every variable stays within its type; and the kitchen is never shown work that
\* should not be started yet, also while answers and changes of the target race.
ScreensInv ==
    /\ kind \in {"dashboard", "kitchen"}
    /\ row \in Visit
    /\ now \in 0 .. MaxClock
    /\ wire \in Seq(Event)
    /\ shown \in Visit \cup {NONE}
    /\ said \in 0 .. 2
    /\ {live, known, blurred, outOfOrder} \subseteq BOOLEAN
    /\ kind = "kitchen" /\ shown # NONE => shown.target # NONE /\ shown.target <= now

AtRest == ~Banner /\ wire = <<>> /\ tx = NoTx /\ \A f \in Fetches : fetch[f] = IdleFetch

\* A live screen that waits for nothing shows what the database holds, whatever it has
\* missed while it was not connected, unless: an answer was overtaken by a later
\* answer or by an event, a refetch was read between an event and its commit, what an
\* event said was rolled back, a refetch failed, the dashboard dropped the event of
\* the food going out, a ticket became due, a turn wrote the visit without a word, or
\* a dashboard was told of a new arrival's target only.  The first refetch after that
\* ends the exception.
RestingScreenIsTrue == AtRest /\ ~blurred => shown = View

\* A screen that is not left with a false picture catches up.
ScreenCatchesUp == <>[](live /\ ~blurred) => <>[](shown = View)

\* A booking is read out as new once, however often the list is refetched and the
\* connection lost, as long as answers come in order.
AnnouncedOnce == kind = "dashboard" /\ ~outOfOrder => said <= 1

=============================================================================
