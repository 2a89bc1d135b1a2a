------------------------------- MODULE Booking -------------------------------
(***************************************************************************)
(* The reservation core of apps/api: Visit and Table rows and every        *)
(* request that may move a visit through its life or a table between       *)
(* free and held.                                                          *)
(*                                                                         *)
(*   - IntakeService.start and the write tools of a conversation turn,     *)
(*   - VisitsService.confirm: a read, a transaction, maybe a second read,  *)
(*   - TableReassignmentService.reassign: a read, then a transaction,      *)
(*   - the status writes of the kitchen (accept, food out).                *)
(*                                                                         *)
(* Each request is a process; a step is one database transaction.  A       *)
(* transaction made of conditional UPDATEs only is one atomic step: under  *)
(* Read Committed every row it matched stays locked until it commits, so   *)
(* its guards still hold at its commit point.  What a request read in an   *)
(* earlier transaction is kept in its record and may be stale when used.   *)
(***************************************************************************)
EXTENDS Naturals, Sequences, FiniteSets

CONSTANTS
    Visits,      \* identities of Visit rows
    Tables,      \* identities of Table rows
    Customers,   \* phone-verified customers
    Requests,    \* HTTP requests the API serves at the same time
    NONE,        \* SQL NULL
    GuestWaits   \* TRUE: a guest's client never overlaps an intake turn with
                 \* a confirm of the same visit and sends no turn afterwards.
                 \* The API itself does not enforce this.

ASSUME BookingAssumption ==
    /\ NONE \notin Visits \cup Tables \cup Customers
    /\ GuestWaits \in BOOLEAN

VARIABLES
    visit,       \* the Visit rows
    table,       \* Table.status
    audit,       \* the VisitStatusEvent rows of each visit, in order
    req          \* the requests being served

vars == <<visit, table, audit, req>>

-----------------------------------------------------------------------------
(* Rows and requests                                                        *)

VisitStatus == {"draft", "confirmed", "kitchen_started", "table_set",
                "guest_arrived", "food_out", "completed", "cancelled",
                "no_show"}

TableStatus == {"free", "held", "seated"}

\* What confirm needs to have been said: partySize and arrivalEta not NULL.
Fields == {"partySize", "arrivalEta"}

VisitRow == [status     : VisitStatus \cup {"absent"},
             customerId : Customers \cup {NONE},
             tableId    : Tables \cup {NONE},
             known      : SUBSET Fields]

NoVisit == [status |-> "absent", customerId |-> NONE,
            tableId |-> NONE, known |-> {}]

StatusEvent == [status : VisitStatus, actorId : Customers \cup {NONE}]

ConfirmReplies == {"booked", "already_confirmed", "not_found", "not_draft",
                   "missing_party_size", "missing_arrival_eta",
                   "missing_table", "items_unavailable", "table_taken"}

ReassignReplies == {"reassigned", "already_assigned", "visit_not_active",
                    "table_taken", "stale_update"}

Replies == ConfirmReplies \cup ReassignReplies \cup {"proposed", "unavailable"}

ASSUME NoneIsNoReply == NONE \notin Replies

Request == [op    : {"none", "propose", "confirm", "reassign"},
            pc    : {"idle", "write", "reread", "done"},
            visit : Visits \cup {NONE},
            who   : Customers \cup {NONE},  \* the verified customer (confirm)
            table : Tables \cup {NONE},     \* the table the request is after
            prev  : Tables \cup {NONE},     \* Visit.tableId as reassign read it
            reply : Replies \cup {NONE}]

IdleRequest == [op |-> "none", pc |-> "idle", visit |-> NONE, who |-> NONE,
                table |-> NONE, prev |-> NONE, reply |-> NONE]

\* A booked visit: the statuses this code writes after draft.
BookedStatuses == {"confirmed", "kitchen_started", "food_out"}
Booked(v) == visit[v].status \in BookedStatuses

\* A request that has read visit v and not answered yet.
InFlight(r, op, v) ==
    req[r].op = op /\ req[r].visit = v /\ req[r].pc \in {"write", "reread"}

Reply(r, answer) ==
    req' = [req EXCEPT ![r].pc = "done", ![r].reply = answer]

Advance(r, pc) ==
    req' = [req EXCEPT ![r].pc = pc]

-----------------------------------------------------------------------------
(* Intake: the draft and what a conversation turn writes to it              *)

GuestMayTalk(v) ==
    /\ visit[v].status # "absent"
    /\ GuestWaits => /\ visit[v].status = "draft"
                     /\ \A r \in Requests : ~InFlight(r, "confirm", v)

\* POST intake/start, with or without a verified customer.
Start(v, c) ==
    /\ visit[v].status = "absent"
    /\ visit' = [visit EXCEPT ![v] = [NoVisit EXCEPT !.status = "draft",
                                                     !.customerId = c]]
    /\ UNCHANGED <<table, audit, req>>

\* Tool set_party_details: one UPDATE by id, whatever the visit's status.
SetPartyDetails(v, fields) ==
    /\ GuestMayTalk(v)
    /\ visit' = [visit EXCEPT ![v].known = @ \cup fields]
    /\ UNCHANGED <<table, audit, req>>

\* Tool propose_table, first transaction: is the table free right now?
ProposeRead(r, v, t) ==
    /\ req[r].pc = "idle"
    /\ GuestMayTalk(v)
    /\ req' = [req EXCEPT ![r] =
                 [IdleRequest EXCEPT
                    !.op = "propose", !.visit = v, !.table = t,
                    !.pc    = IF table[t] = "free" THEN "write" ELSE "done",
                    !.reply = IF table[t] = "free" THEN NONE ELSE "unavailable"]]
    /\ UNCHANGED <<visit, table, audit>>

\* Tool propose_table, second transaction: an UPDATE by id only.
ProposeWrite(r) ==
    /\ req[r].op = "propose" /\ req[r].pc = "write"
    /\ visit' = [visit EXCEPT ![req[r].visit].tableId = req[r].table]
    /\ Reply(r, "proposed")
    /\ UNCHANGED <<table, audit>>

-----------------------------------------------------------------------------
(* VisitsService.confirm                                                    *)

\* Mutant: the identity checks are missing.
ConfirmPrecheckAnyone(row, c, staleItems) ==
    IF row.status # "draft" THEN "not_draft"
    ELSE IF Fields \subseteq row.known /\ row.tableId # NONE /\ ~staleItems
      THEN NONE ELSE "missing_table"

\* The checks made on the row just read, in the order of the early returns;
\* NONE when all pass.  staleItems: some ordered dish is unavailable.
ConfirmPrecheck(row, c, staleItems) ==
    IF row.status = "confirmed"
      THEN IF row.customerId = c THEN "already_confirmed" ELSE "not_found"
    ELSE IF row.status # "draft"               THEN "not_draft"
    ELSE IF row.customerId \notin {NONE, c}    THEN "not_found"
    ELSE IF "partySize" \notin row.known       THEN "missing_party_size"
    ELSE IF "arrivalEta" \notin row.known      THEN "missing_arrival_eta"
    ELSE IF row.tableId = NONE                 THEN "missing_table"
    ELSE IF staleItems                         THEN "items_unavailable"
    ELSE NONE

\* First transaction: read the visit and check it.
ConfirmRead(r, v, c) ==
    /\ req[r].pc = "idle"
    /\ visit[v].status # "absent"
    /\ GuestWaits => \A q \in Requests : ~InFlight(q, "propose", v)
    /\ \E staleItems \in BOOLEAN :
         LET answer == ConfirmPrecheck(visit[v], c, staleItems) IN
         req' = [req EXCEPT ![r] =
                   [IdleRequest EXCEPT
                      !.op = "confirm", !.visit = v, !.who = c,
                      !.table = visit[v].tableId,
                      !.pc    = IF answer = NONE THEN "write" ELSE "done",
                      !.reply = answer]]
    /\ UNCHANGED <<visit, table, audit>>

\* Mutants: a claim that updates by id alone, without its status guard.
VisitClaimableById(v) == visit[v].status # "absent"
TableClaimableById(t) == t \in Tables

\* The WHERE clauses of the two claims.
VisitClaimable(v) == visit[v].status = "draft"
TableClaimable(t) == table[t] = "free"

\* Second transaction: both claims, the audit row, commit.  The table claimed
\* is the one read before the transaction.
ConfirmCommit(r) ==
    LET v == req[r].visit
        t == req[r].table
        c == req[r].who
    IN /\ req[r].op = "confirm" /\ req[r].pc = "write"
       /\ VisitClaimable(v)
       /\ TableClaimable(t)
       /\ visit' = [visit EXCEPT ![v].status = "confirmed",
                                 ![v].customerId = c]
       /\ table' = [table EXCEPT ![t] = "held"]
       /\ audit' = [audit EXCEPT
                      ![v] = Append(@, [status |-> "confirmed", actorId |-> c])]
       /\ Reply(r, "booked")

\* TableTakenError: the transaction rolls back, the visit claim with it.
ConfirmTableTaken(r) ==
    /\ req[r].op = "confirm" /\ req[r].pc = "write"
    /\ VisitClaimable(req[r].visit)
    /\ ~TableClaimable(req[r].table)
    /\ Reply(r, "table_taken")
    /\ UNCHANGED <<visit, table, audit>>

\* VisitClaimLostError: another call moved the visit first; look again.
ConfirmClaimLost(r) ==
    /\ req[r].op = "confirm" /\ req[r].pc = "write"
    /\ ~VisitClaimable(req[r].visit)
    /\ Advance(r, "reread")
    /\ UNCHANGED <<visit, table, audit>>

\* Mutant: any confirmed row counts as this caller's own success.
ConfirmRereadAnyone(r) ==
    LET row == visit[req[r].visit] IN
    /\ req[r].op = "confirm" /\ req[r].pc = "reread"
    /\ Reply(r, IF row.status = "confirmed" THEN "already_confirmed" ELSE "not_draft")
    /\ UNCHANGED <<visit, table, audit>>

ConfirmReread(r) ==
    LET row == visit[req[r].visit] IN
    /\ req[r].op = "confirm" /\ req[r].pc = "reread"
    /\ Reply(r, IF row.status = "confirmed" /\ row.customerId = req[r].who
                  THEN "already_confirmed" ELSE "not_draft")
    /\ UNCHANGED <<visit, table, audit>>

-----------------------------------------------------------------------------
(* TableReassignmentService.reassign                                        *)

ActiveStatuses == {"confirmed", "kitchen_started", "table_set",
                   "guest_arrived"}

ReassignPrecheck(row, t) ==
    IF row.status \notin ActiveStatuses \/ row.tableId = NONE
                              THEN "visit_not_active"
    ELSE IF row.tableId = t   THEN "already_assigned"
    ELSE NONE

\* First transaction: read the visit and remember where it sits.
ReassignRead(r, v, t) ==
    /\ req[r].pc = "idle"
    /\ visit[v].status # "absent"
    /\ LET answer == ReassignPrecheck(visit[v], t) IN
       req' = [req EXCEPT ![r] =
                 [IdleRequest EXCEPT
                    !.op = "reassign", !.visit = v, !.table = t,
                    !.prev  = visit[v].tableId,
                    !.pc    = IF answer = NONE THEN "write" ELSE "done",
                    !.reply = answer]]
    /\ UNCHANGED <<visit, table, audit>>

\* Mutant: the move checks the visit's status but not where it sits.
MoveClaimableAnywhere(v, prev) == visit[v].status \in ActiveStatuses

\* The WHERE clause of the move: the visit is still where it was read.
MoveClaimable(v, prev) ==
    /\ visit[v].tableId = prev
    /\ visit[v].status \in ActiveStatuses

\* Second transaction: claim the new table, move the visit, release the old.
ReassignCommit(r) ==
    LET v    == req[r].visit
        t    == req[r].table
        prev == req[r].prev
    IN /\ req[r].op = "reassign" /\ req[r].pc = "write"
       /\ TableClaimable(t)
       /\ MoveClaimable(v, prev)
       /\ visit' = [visit EXCEPT ![v].tableId = t]
       /\ table' = [table EXCEPT ![t] = "held",
                                 ![prev] = IF @ = "held" THEN "free" ELSE @]
       /\ Reply(r, "reassigned")
       /\ UNCHANGED audit

\* Either claim matched no row: roll back.
ReassignRefused(r) ==
    LET free == TableClaimable(req[r].table) IN
    /\ req[r].op = "reassign" /\ req[r].pc = "write"
    /\ ~free \/ ~MoveClaimable(req[r].visit, req[r].prev)
    /\ Reply(r, IF free THEN "stale_update" ELSE "table_taken")
    /\ UNCHANGED <<visit, table, audit>>

-----------------------------------------------------------------------------
(* The kitchen's two status writes, each one conditional UPDATE with its     *)
(* audit row.  The allergy gate before food_out is the subject of Kitchen.   *)

MoveStatus(v, from, to) ==
    /\ visit[v].status = from
    /\ visit' = [visit EXCEPT ![v].status = to]
    /\ audit' = [audit EXCEPT
                   ![v] = Append(@, [status |-> to, actorId |-> NONE])]
    /\ UNCHANGED <<table, req>>

AcceptKitchenStart(v) == MoveStatus(v, "confirmed", "kitchen_started")
MarkFoodOut(v)        == MoveStatus(v, "kitchen_started", "food_out")

-----------------------------------------------------------------------------
(* A request ends when its answer is sent, or dies with its connection or    *)
(* with the process: an open transaction rolls back, so only the record of   *)
(* the request is lost.                                                      *)

EndRequest(r) ==
    /\ req[r].pc # "idle"
    /\ req' = [req EXCEPT ![r] = IdleRequest]
    /\ UNCHANGED <<visit, table, audit>>

-----------------------------------------------------------------------------

Init ==
    /\ visit = [v \in Visits |-> NoVisit]
    /\ table = [t \in Tables |-> "free"]
    /\ audit = [v \in Visits |-> << >>]
    /\ req   = [r \in Requests |-> IdleRequest]

Intake(r) ==
    \/ \E v \in Visits, t \in Tables : ProposeRead(r, v, t)
    \/ ProposeWrite(r)

Confirm(r) ==
    \/ \E v \in Visits, c \in Customers : ConfirmRead(r, v, c)
    \/ ConfirmCommit(r)
    \/ ConfirmTableTaken(r)
    \/ ConfirmClaimLost(r)
    \/ ConfirmReread(r)

Reassign(r) ==
    \/ \E v \in Visits, t \in Tables : ReassignRead(r, v, t)
    \/ ReassignCommit(r)
    \/ ReassignRefused(r)

VisitStep(v) ==
    \/ \E c \in Customers \cup {NONE} : Start(v, c)
    \/ \E fields \in SUBSET Fields : SetPartyDetails(v, fields)
    \/ AcceptKitchenStart(v)
    \/ MarkFoodOut(v)

Next ==
    \/ \E r \in Requests : Intake(r) \/ Confirm(r) \/ Reassign(r) \/ EndRequest(r)
    \/ \E v \in Visits : VisitStep(v)

Spec == Init /\ [][Next]_vars

-----------------------------------------------------------------------------
(* Properties                                                               *)

\* Every variable stays within its type.
TypeOK ==
    /\ visit \in [Visits -> VisitRow]
    /\ table \in [Tables -> TableStatus]
    /\ audit \in [Visits -> Seq(StatusEvent)]
    /\ req   \in [Requests -> Request]

\* A booking ends with a genuinely held table: the table a booked visit points
\* to is held, for that visit alone.  (VisitsService.confirm and reassign.)
BookedTableIsHeld ==
    \A v \in Visits :
        Booked(v) => /\ visit[v].tableId # NONE
                     /\ table[visit[v].tableId] = "held"

\* Two guests never end up at one table, whatever races for it.
NoDoubleBooking ==
    \A v, w \in Visits :
        Booked(v) /\ Booked(w) /\ visit[v].tableId = visit[w].tableId => v = w

\* No table is lost: one that is not free is the table of a booked visit, so a
\* failed confirm, a lost race or a move leaves no hold behind.
NoLeakedHold ==
    \A t \in Tables :
        table[t] # "free" => \E v \in Visits : Booked(v) /\ visit[v].tableId = t

\* The three together; they hold when GuestWaits does.
ExclusiveHold == BookedTableIsHeld /\ NoDoubleBooking /\ NoLeakedHold

\* However confirms, retries and moves interleave with intake turns, the
\* restaurant never has more booked visits than tables taken out of the pool.
\* It needs no assumption on the guest's client.
NeverOversold ==
    Cardinality({v \in Visits : Booked(v)})
        <= Cardinality({t \in Tables : table[t] = "held"})

\* What the audit trail of a visit must read, given its row.
TrailOf(row) ==
    LET booked == [status |-> "confirmed",       actorId |-> row.customerId]
        begun  == [status |-> "kitchen_started", actorId |-> NONE]
        served == [status |-> "food_out",        actorId |-> NONE]
    IN CASE row.status = "confirmed"       -> <<booked>>
         [] row.status = "kitchen_started" -> <<booked, begun>>
         [] row.status = "food_out"        -> <<booked, begun, served>>
         [] OTHER                          -> << >>

\* Retries and lost races leave exactly one event per transition, and the
\* confirmed event names the customer the visit is bound to.
AuditTrailExact == \A v \in Visits : audit[v] = TrailOf(visit[v])

\* A success reported to a customer is true: the visit is booked, by them.  A
\* retry that lost its claim is no exception.
SuccessIsReal ==
    \A r \in Requests :
        req[r].reply \in {"booked", "already_confirmed"} =>
            /\ Booked(req[r].visit)
            /\ visit[req[r].visit].customerId = req[r].who

\* Identity binding: a draft linked to a customer, or a booking, never passes
\* to another one, even when two customers race for an unlinked draft.
CustomerIsBound ==
    [][\A v \in Visits :
          visit[v].customerId # NONE =>
              visit'[v].customerId = visit[v].customerId]_vars

-----------------------------------------------------------------------------
(* What makes ExclusiveHold inductive: what a request read before its write  *)
(* is still true of the visit, because the guest waits.                      *)

\* The code of this repository writes no other status.
StatusReached ==
    \A v \in Visits : visit[v].status \in {"absent", "draft"} \cup BookedStatuses

TurnBeforeConfirm ==
    \A r \in Requests, v \in Visits :
        InFlight(r, "propose", v) =>
            /\ visit[v].status = "draft"
            /\ \A q \in Requests : ~InFlight(q, "confirm", v)

ConfirmIsFresh ==
    \A r \in Requests :
        req[r].op = "confirm" /\ req[r].pc = "write" =>
            /\ req[r].visit \in Visits /\ req[r].who \in Customers
            /\ req[r].table \in Tables
            /\ visit[req[r].visit].status # "absent"
            /\ visit[req[r].visit].status = "draft" =>
                    visit[req[r].visit].tableId = req[r].table

MoveIsFresh ==
    \A r \in Requests :
        req[r].op = "reassign" /\ req[r].pc = "write" =>
            /\ req[r].visit \in Visits
            /\ req[r].table \in Tables
            /\ req[r].prev \in Tables \ {req[r].table}

HoldInv ==
    /\ TypeOK
    /\ StatusReached
    /\ TurnBeforeConfirm
    /\ ConfirmIsFresh
    /\ MoveIsFresh
    /\ ExclusiveHold

-----------------------------------------------------------------------------
(* What makes the trail, the customer and the answers inductive, whether or  *)
(* not the guest waits: a confirm under way has a visit that exists and is   *)
(* no stranger's draft, and one that was answered success has it booked.     *)

Witnessed(r) ==
    /\ req[r].op = "confirm" /\ req[r].pc \in {"write", "reread"} =>
          /\ req[r].visit \in Visits /\ req[r].who \in Customers
          /\ visit[req[r].visit].status # "absent"
          /\ visit[req[r].visit].status = "draft" =>
                  visit[req[r].visit].customerId \in {NONE, req[r].who}
    /\ req[r].reply \in {"booked", "already_confirmed"} =>
          /\ req[r].visit \in Visits /\ req[r].who \in Customers
          /\ Booked(req[r].visit) /\ visit[req[r].visit].customerId = req[r].who

RecordInv ==
    /\ TypeOK
    /\ StatusReached
    /\ \A v \in Visits : visit[v].status = "absent" => visit[v].customerId = NONE
    /\ AuditTrailExact
    /\ \A r \in Requests : Witnessed(r)

-----------------------------------------------------------------------------
(* What booking promises, told by TableHolds.                                *)

seat == [v \in Visits |-> IF Booked(v) THEN visit[v].tableId ELSE NONE]
taken == {t \in Tables : table[t] # "free"}

Holds == INSTANCE TableHolds

\* Every step of every request is a step of TableHolds or none at all.
HoldsSpec == Holds!Spec

=============================================================================
