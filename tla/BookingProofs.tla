--------------------------- MODULE BookingProofs ----------------------------
(***************************************************************************)
(* Theorems about Booking for any number of visits, tables, customers and  *)
(* concurrent requests.                                                    *)
(***************************************************************************)
EXTENDS Booking, FiniteSetTheorems, TLAPS

-----------------------------------------------------------------------------
(* Type correctness                                                         *)

\* The initial database and an idle server are well typed.
LEMMA TypeInit == Init => TypeOK
  BY DEF Init, TypeOK, VisitRow, NoVisit, TableStatus, StatusEvent, Request,
         IdleRequest

\* Answering a request, or moving it to its next transaction, keeps it typed.
LEMMA AnswerType ==
  ASSUME req \in [Requests -> Request], NEW r,
         NEW answer \in Replies, NEW pc \in {"write", "reread"},
         Reply(r, answer) \/ Advance(r, pc)
  PROVE  req' \in [Requests -> Request]
  BY DEF Reply, Advance, Request

\* What the record of a request may hold.
LEMMA RequestFields ==
  ASSUME TypeOK, NEW r \in Requests
  PROVE  /\ req[r].visit \in Visits \cup {NONE}
         /\ req[r].who   \in Customers \cup {NONE}
         /\ req[r].table \in Tables \cup {NONE}
         /\ req[r].prev  \in Tables \cup {NONE}
  BY DEF TypeOK, Request

\* An UPDATE of a visit by id keeps the rows well typed, whether or not the id
\* exists.
LEMMA TableIdType ==
  ASSUME TypeOK, NEW v, NEW t \in Tables \cup {NONE}
  PROVE  [visit EXCEPT ![v].tableId = t] \in [Visits -> VisitRow]
  BY DEF TypeOK, VisitRow

LEMMA ClaimType ==
  ASSUME TypeOK, NEW v, NEW c \in Customers \cup {NONE}
  PROVE  [visit EXCEPT ![v].status = "confirmed", ![v].customerId = c]
             \in [Visits -> VisitRow]
  BY DEF TypeOK, VisitRow, VisitStatus

\* So does appending to an audit trail.
LEMMA AuditType ==
  ASSUME TypeOK, NEW v, NEW e \in StatusEvent
  PROVE  [audit EXCEPT ![v] = Append(@, e)] \in [Visits -> Seq(StatusEvent)]
<1>1. CASE v \in Visits
  <2>1. Append(audit[v], e) \in Seq(StatusEvent)
    BY <1>1 DEF TypeOK
  <2> QED BY <2>1 DEF TypeOK
<1>2. CASE v \notin Visits
  BY <1>2 DEF TypeOK
<1> QED BY <1>1, <1>2

\* A turn of the conversation keeps every row and request well typed.
LEMMA TypeIntake ==
  ASSUME TypeOK, NEW r \in Requests, Intake(r)
  PROVE  TypeOK'
<1>1. ASSUME NEW v \in Visits, NEW t \in Tables, ProposeRead(r, v, t)
      PROVE  TypeOK'
  BY <1>1 DEF ProposeRead, TypeOK, Request, IdleRequest, Replies
<1>2. ASSUME ProposeWrite(r) PROVE TypeOK'
  <2>1. req' \in [Requests -> Request]
    BY <1>2, AnswerType DEF ProposeWrite, TypeOK, Replies
  <2>2. visit' \in [Visits -> VisitRow]
    BY <1>2, RequestFields, TableIdType DEF ProposeWrite
  <2> QED BY <1>2, <2>1, <2>2 DEF ProposeWrite, TypeOK
<1> QED BY <1>1, <1>2 DEF Intake

\* So does a confirm, whichever way it ends.
LEMMA TypeConfirm ==
  ASSUME TypeOK, NEW r \in Requests, Confirm(r)
  PROVE  TypeOK'
<1>1. ASSUME NEW v \in Visits, NEW c \in Customers, ConfirmRead(r, v, c)
      PROVE  TypeOK'
  <2>1. PICK stale \in BOOLEAN :
          LET answer == ConfirmPrecheck(visit[v], c, stale) IN
          req' = [req EXCEPT ![r] =
                   [IdleRequest EXCEPT
                      !.op = "confirm", !.visit = v, !.who = c,
                      !.table = visit[v].tableId,
                      !.pc    = IF answer = NONE THEN "write" ELSE "done",
                      !.reply = answer]]
    BY <1>1 DEF ConfirmRead
  <2>2. ConfirmPrecheck(visit[v], c, stale) \in Replies \cup {NONE}
    BY DEF ConfirmPrecheck, Replies, ConfirmReplies
  <2>3. visit[v].tableId \in Tables \cup {NONE}
    BY DEF TypeOK, VisitRow
  <2>4. req' \in [Requests -> Request]
    BY <2>1, <2>2, <2>3 DEF TypeOK, Request, IdleRequest
  <2> QED BY <1>1, <2>4 DEF ConfirmRead, TypeOK
<1>2. ASSUME ConfirmCommit(r) PROVE TypeOK'
  <2> DEFINE v == req[r].visit
             e == [status |-> "confirmed", actorId |-> req[r].who]
  <2>1. e \in StatusEvent
    BY DEF TypeOK, Request, StatusEvent, VisitStatus
  <2>2. req' \in [Requests -> Request]
    BY <1>2, AnswerType DEF ConfirmCommit, TypeOK, Replies, ConfirmReplies
  <2>3. visit' \in [Visits -> VisitRow]
    BY <1>2, RequestFields, ClaimType DEF ConfirmCommit
  <2>4. table' \in [Tables -> TableStatus]
    BY <1>2 DEF ConfirmCommit, TypeOK, TableStatus
  <2>5. audit' = [audit EXCEPT ![v] = Append(@, e)]
    BY <1>2 DEF ConfirmCommit
  <2>6. audit' \in [Visits -> Seq(StatusEvent)]
    BY <2>1, <2>5, AuditType
  <2> QED BY <2>2, <2>3, <2>4, <2>6 DEF TypeOK
<1>3. ASSUME \/ ConfirmTableTaken(r) \/ ConfirmClaimLost(r) \/ ConfirmReread(r)
      PROVE  TypeOK'
  <2>1. req' \in [Requests -> Request]
    BY <1>3, AnswerType
    DEF ConfirmTableTaken, ConfirmClaimLost, ConfirmReread, TypeOK, Replies,
        ConfirmReplies
  <2> QED BY <1>3, <2>1
          DEF ConfirmTableTaken, ConfirmClaimLost, ConfirmReread, TypeOK
<1> QED BY <1>1, <1>2, <1>3 DEF Confirm

\* So does a reassignment.
LEMMA TypeReassign ==
  ASSUME TypeOK, NEW r \in Requests, Reassign(r)
  PROVE  TypeOK'
<1>1. ASSUME NEW v \in Visits, NEW t \in Tables, ReassignRead(r, v, t)
      PROVE  TypeOK'
  <2>1. ReassignPrecheck(visit[v], t) \in Replies \cup {NONE}
    BY DEF ReassignPrecheck, Replies, ReassignReplies
  <2>2. visit[v].tableId \in Tables \cup {NONE}
    BY DEF TypeOK, VisitRow
  <2> QED BY <1>1, <2>1, <2>2 DEF ReassignRead, TypeOK, Request, IdleRequest
<1>2. ASSUME ReassignCommit(r) PROVE TypeOK'
  <2>1. req' \in [Requests -> Request]
    BY <1>2, AnswerType DEF ReassignCommit, TypeOK, Replies, ReassignReplies
  <2>2. visit' \in [Visits -> VisitRow]
    BY <1>2, RequestFields, TableIdType DEF ReassignCommit
  <2>3. table' \in [Tables -> TableStatus]
    BY <1>2 DEF ReassignCommit, TypeOK, TableStatus
  <2> QED BY <1>2, <2>1, <2>2, <2>3 DEF ReassignCommit, TypeOK
<1>3. ASSUME ReassignRefused(r) PROVE TypeOK'
  <2>1. req' \in [Requests -> Request]
    BY <1>3, AnswerType DEF ReassignRefused, TypeOK, Replies, ReassignReplies
  <2> QED BY <1>3, <2>1 DEF ReassignRefused, TypeOK
<1> QED BY <1>1, <1>2, <1>3 DEF Reassign

\* So do the writes that are one conditional UPDATE.
LEMMA TypeVisitStep ==
  ASSUME TypeOK, NEW v \in Visits, VisitStep(v)
  PROVE  TypeOK'
<1>1. ASSUME NEW c \in Customers \cup {NONE}, Start(v, c) PROVE TypeOK'
  BY <1>1 DEF Start, TypeOK, VisitRow, NoVisit, VisitStatus
<1>2. ASSUME NEW fields \in SUBSET Fields, SetPartyDetails(v, fields)
      PROVE  TypeOK'
  BY <1>2 DEF SetPartyDetails, TypeOK, VisitRow
<1>3. ASSUME NEW from, NEW to \in VisitStatus, MoveStatus(v, from, to)
      PROVE  TypeOK'
  <2> DEFINE e == [status |-> to, actorId |-> NONE]
  <2>1. e \in StatusEvent
    BY DEF StatusEvent
  <2>2. audit' = [audit EXCEPT ![v] = Append(@, e)]
    BY <1>3 DEF MoveStatus
  <2>3. audit' \in [Visits -> Seq(StatusEvent)]
    BY <2>1, <2>2, AuditType
  <2>4. visit' \in [Visits -> VisitRow]
    BY <1>3 DEF MoveStatus, TypeOK, VisitRow
  <2> QED BY <1>3, <2>3, <2>4 DEF MoveStatus, TypeOK
<1> QED
  BY <1>1, <1>2, <1>3 DEF VisitStep, AcceptKitchenStart, MarkFoodOut, VisitStatus

\* No step leaves the types.
LEMMA TypeStep == TypeOK /\ [Next]_vars => TypeOK'
<1> SUFFICES ASSUME TypeOK, [Next]_vars PROVE TypeOK'
  OBVIOUS
<1>1. ASSUME NEW r \in Requests, EndRequest(r) PROVE TypeOK'
  BY <1>1 DEF EndRequest, TypeOK, Request, IdleRequest
<1>2. CASE UNCHANGED vars
  BY <1>2 DEF vars, TypeOK
<1> QED
  BY <1>1, <1>2, TypeIntake, TypeConfirm, TypeReassign, TypeVisitStep DEF Next

\* Every reachable state of the reservation core is well typed.
THEOREM TypeCorrect == Spec => []TypeOK
  BY TypeInit, TypeStep, PTL DEF Spec

-----------------------------------------------------------------------------
(* Exclusive holds                                                          *)

(***************************************************************************)
(* ExclusiveHold alone is not inductive: the step that matters, the commit *)
(* of a confirm, claims the table its request read earlier.  HoldInv adds  *)
(* that the row still names that table (ConfirmIsFresh), which is true     *)
(* because a guest who waits has no table proposal under way while a       *)
(* confirm is (TurnBeforeConfirm).                                         *)
(***************************************************************************)

\* What HoldInv says beyond the types.
HoldFacts == /\ StatusReached
             /\ TurnBeforeConfirm
             /\ ConfirmIsFresh
             /\ MoveIsFresh
             /\ ExclusiveHold

\* A booked visit points to a row of Table.
LEMMA BookedHasTable ==
  ASSUME TypeOK, HoldFacts, NEW v \in Visits, Booked(v)
  PROVE  visit[v].tableId \in Tables /\ table[visit[v].tableId] = "held"
  BY DEF TypeOK, VisitRow, HoldFacts, ExclusiveHold, BookedTableIsHeld

\* Nothing is booked or held at the start.
LEMMA HoldInit == Init => HoldInv
<1> SUFFICES ASSUME Init PROVE HoldInv
  OBVIOUS
<1>1. TypeOK
  BY TypeInit
<1>2. StatusReached /\ ExclusiveHold
  BY DEF Init, StatusReached, ExclusiveHold, BookedTableIsHeld,
         NoDoubleBooking, NoLeakedHold, Booked, BookedStatuses, NoVisit
<1>3. TurnBeforeConfirm /\ ConfirmIsFresh /\ MoveIsFresh
  BY DEF Init, TurnBeforeConfirm, ConfirmIsFresh, MoveIsFresh, InFlight,
         IdleRequest
<1> QED BY <1>1, <1>2, <1>3 DEF HoldInv

\* The rows alone decide StatusReached and ExclusiveHold.
LEMMA RowsUnchanged ==
  ASSUME HoldFacts, UNCHANGED <<visit, table>>
  PROVE  StatusReached' /\ ExclusiveHold'
  BY DEF HoldFacts, StatusReached, ExclusiveHold, BookedTableIsHeld,
         NoDoubleBooking, NoLeakedHold, Booked

\* A request that answers or ends, and a visit that keeps its row, disturb
\* nothing that is known of the others.
LEMMA RequestOver ==
  ASSUME TypeOK, HoldFacts, NEW r \in Requests, UNCHANGED visit,
         req' \in [Requests -> Request],
         \A q \in Requests \ {r} : req'[q] = req[q],
         req'[r].pc \notin {"write", "reread"}
  PROVE  TurnBeforeConfirm' /\ ConfirmIsFresh' /\ MoveIsFresh'
<1>1. \A q \in Requests : req'[q].pc = "write" \/ req'[q].pc = "reread"
                             => req'[q] = req[q]
  OBVIOUS
<1>2. TurnBeforeConfirm'
  BY <1>1 DEF HoldFacts, TurnBeforeConfirm, InFlight
<1>3. ConfirmIsFresh' /\ MoveIsFresh'
  BY <1>1 DEF HoldFacts, ConfirmIsFresh, MoveIsFresh
<1> QED BY <1>2, <1>3

\* Reading a free table, and writing it to a draft nobody is confirming.
LEMMA HoldIntake ==
  ASSUME GuestWaits, TypeOK, HoldFacts, TypeOK', NEW r \in Requests, Intake(r)
  PROVE  HoldFacts'
<1>1. ASSUME NEW v \in Visits, NEW t \in Tables, ProposeRead(r, v, t)
      PROVE  HoldFacts'
  <2>1. /\ visit[v].status = "draft"
        /\ \A q \in Requests : ~InFlight(q, "confirm", v)
    BY <1>1 DEF ProposeRead, GuestMayTalk
  <2>2. /\ req'[r].op = "propose" /\ req'[r].visit = v
        /\ \A q \in Requests \ {r} : req'[q] = req[q]
        /\ UNCHANGED <<visit, table>>
    BY <1>1 DEF ProposeRead, TypeOK, IdleRequest
  <2>3. TurnBeforeConfirm'
    BY <2>1, <2>2 DEF HoldFacts, TurnBeforeConfirm, InFlight
  <2>4. ConfirmIsFresh' /\ MoveIsFresh'
    BY <2>2 DEF HoldFacts, ConfirmIsFresh, MoveIsFresh
  <2> QED BY <2>2, <2>3, <2>4, RowsUnchanged DEF HoldFacts
<1>2. ASSUME ProposeWrite(r) PROVE HoldFacts'
  <2> DEFINE v == req[r].visit
             t == req[r].table
  <2>1. PICK w \in Visits \cup {NONE} : w = v
    BY RequestFields
  <2>2. /\ visit' = [visit EXCEPT ![v].tableId = t]
        /\ req' = [req EXCEPT ![r].pc = "done", ![r].reply = "proposed"]
        /\ table' = table
    BY <1>2 DEF ProposeWrite, Reply
  <2>3. /\ req'[r].pc = "done"
        /\ \A q \in Requests \ {r} : req'[q] = req[q]
    BY <2>2 DEF TypeOK, Request
  <2>4. CASE w = NONE
    <3>1. visit' = visit
      BY <2>1, <2>2, <2>4, BookingAssumption DEF TypeOK
    <3> QED BY <2>2, <2>3, <3>1, RowsUnchanged, RequestOver DEF HoldFacts, TypeOK
  <2>5. CASE w \in Visits
    <3>1. /\ visit[v].status = "draft"
          /\ \A q \in Requests : ~InFlight(q, "confirm", v)
      BY <1>2, <2>1, <2>5
      DEF ProposeWrite, HoldFacts, TurnBeforeConfirm, InFlight
    <3>2. /\ \A u \in Visits : visit'[u].status = visit[u].status
          /\ \A u \in Visits \ {v} : visit'[u] = visit[u]
      BY <2>1, <2>2, <2>5 DEF TypeOK, VisitRow
    <3>3. StatusReached' /\ ExclusiveHold'
      BY <2>2, <3>1, <3>2
      DEF HoldFacts, StatusReached, ExclusiveHold, BookedTableIsHeld,
          NoDoubleBooking, NoLeakedHold, Booked, BookedStatuses
    <3>4. TurnBeforeConfirm'
      BY <2>3, <3>2 DEF HoldFacts, TurnBeforeConfirm, InFlight
    <3>5. ConfirmIsFresh'
      BY <2>3, <3>1, <3>2 DEF HoldFacts, ConfirmIsFresh, InFlight
    <3>6. MoveIsFresh'
      BY <2>3 DEF HoldFacts, MoveIsFresh
    <3> QED BY <3>3, <3>4, <3>5, <3>6 DEF HoldFacts
  <2> QED BY <2>4, <2>5
<1> QED BY <1>1, <1>2 DEF Intake

\* A read that remembers the row it saw, and a commit that finds it unchanged.
LEMMA HoldConfirm ==
  ASSUME GuestWaits, TypeOK, HoldFacts, TypeOK', NEW r \in Requests, Confirm(r)
  PROVE  HoldFacts'
<1>1. ASSUME NEW v \in Visits, NEW c \in Customers, ConfirmRead(r, v, c)
      PROVE  HoldFacts'
  <2>1. PICK stale \in BOOLEAN :
          LET answer == ConfirmPrecheck(visit[v], c, stale) IN
          req' = [req EXCEPT ![r] =
                   [IdleRequest EXCEPT
                      !.op = "confirm", !.visit = v, !.who = c,
                      !.table = visit[v].tableId,
                      !.pc    = IF answer = NONE THEN "write" ELSE "done",
                      !.reply = answer]]
    BY <1>1 DEF ConfirmRead
  <2> DEFINE answer == ConfirmPrecheck(visit[v], c, stale)
  <2>2. /\ req'[r].op = "confirm" /\ req'[r].visit = v /\ req'[r].who = c
        /\ req'[r].table = visit[v].tableId
        /\ req'[r].pc = IF answer = NONE THEN "write" ELSE "done"
        /\ \A q \in Requests \ {r} : req'[q] = req[q]
    BY <2>1 DEF TypeOK, IdleRequest
  <2>3. /\ UNCHANGED <<visit, table>>
        /\ \A q \in Requests : ~InFlight(q, "propose", v)
    BY <1>1 DEF ConfirmRead
  <2>4. TurnBeforeConfirm'
    BY <2>2, <2>3 DEF HoldFacts, TurnBeforeConfirm, InFlight
  <2>5. answer = NONE => visit[v].tableId \in Tables
    BY NoneIsNoReply
    DEF ConfirmPrecheck, TypeOK, VisitRow, Replies, ConfirmReplies
  <2>6. ConfirmIsFresh'
    BY <1>1, <2>2, <2>3, <2>5 DEF ConfirmRead, HoldFacts, ConfirmIsFresh
  <2>7. MoveIsFresh'
    BY <2>2, <2>3 DEF HoldFacts, MoveIsFresh
  <2> QED BY <2>3, <2>4, <2>6, <2>7, RowsUnchanged DEF HoldFacts
<1>2. ASSUME ConfirmCommit(r) PROVE HoldFacts'
  <2> DEFINE v == req[r].visit
             t == req[r].table
             c == req[r].who
  <2>1. /\ v \in Visits /\ t \in Tables /\ c \in Customers
        /\ visit[v].status = "draft" /\ table[t] = "free"
        /\ visit[v].tableId = t
    BY <1>2 DEF ConfirmCommit, VisitClaimable, TableClaimable, HoldFacts,
                ConfirmIsFresh
  <2>2. /\ visit' = [visit EXCEPT ![v].status = "confirmed", ![v].customerId = c]
        /\ table' = [table EXCEPT ![t] = "held"]
        /\ req' = [req EXCEPT ![r].pc = "done", ![r].reply = "booked"]
    BY <1>2 DEF ConfirmCommit, Reply
  <2>3. /\ visit'[v].status = "confirmed" /\ visit'[v].tableId = t
        /\ \A u \in Visits \ {v} : visit'[u] = visit[u]
        /\ table'[t] = "held"
        /\ \A x \in Tables \ {t} : table'[x] = table[x]
        /\ req'[r].pc = "done"
        /\ \A q \in Requests \ {r} : req'[q] = req[q]
    BY <2>1, <2>2 DEF TypeOK, VisitRow, Request
  <2>4. \A u \in Visits : Booked(u)' <=> Booked(u) \/ u = v
    BY <2>3 DEF Booked, BookedStatuses
  <2>5. StatusReached'
    BY <2>3 DEF HoldFacts, StatusReached, BookedStatuses
  <2>6. BookedTableIsHeld'
    BY <2>1, <2>3, <2>4, BookingAssumption, BookedHasTable DEF BookedTableIsHeld
  <2>7. NoDoubleBooking'
    BY <2>1, <2>3, <2>4
    DEF HoldFacts, ExclusiveHold, BookedTableIsHeld, NoDoubleBooking
  <2>8. NoLeakedHold'
    BY <2>1, <2>3, <2>4 DEF HoldFacts, ExclusiveHold, NoLeakedHold
  <2>9. TurnBeforeConfirm'
    <3>1. InFlight(r, "confirm", v)
      BY <1>2 DEF ConfirmCommit, InFlight
    <3>2. \A q \in Requests, u \in Visits :
             InFlight(q, "propose", u)' => InFlight(q, "propose", u) /\ u # v
      BY <2>1, <2>3, <3>1 DEF HoldFacts, TurnBeforeConfirm, InFlight
    <3>3. \A q \in Requests, u \in Visits :
             InFlight(q, "confirm", u)' => InFlight(q, "confirm", u)
      BY <2>3 DEF InFlight
    <3> QED BY <2>3, <3>2, <3>3 DEF HoldFacts, TurnBeforeConfirm
  <2>10. ConfirmIsFresh' /\ MoveIsFresh'
    BY <2>3 DEF HoldFacts, ConfirmIsFresh, MoveIsFresh
  <2> QED BY <2>5, <2>6, <2>7, <2>8, <2>9, <2>10 DEF HoldFacts, ExclusiveHold
<1>3. ASSUME ConfirmTableTaken(r) \/ ConfirmReread(r) PROVE HoldFacts'
  <2>1. /\ UNCHANGED <<visit, table>>
        /\ req'[r].pc = "done"
        /\ \A q \in Requests \ {r} : req'[q] = req[q]
    BY <1>3 DEF ConfirmTableTaken, ConfirmReread, Reply, TypeOK, Request
  <2> QED BY <2>1, RowsUnchanged, RequestOver DEF HoldFacts, TypeOK
<1>4. ASSUME ConfirmClaimLost(r) PROVE HoldFacts'
  <2>1. /\ UNCHANGED <<visit, table>>
        /\ req[r].op = "confirm" /\ req[r].pc = "write"
        /\ req'[r].pc = "reread"
        /\ req'[r].op = req[r].op /\ req'[r].visit = req[r].visit
        /\ \A q \in Requests \ {r} : req'[q] = req[q]
    BY <1>4 DEF ConfirmClaimLost, Advance, TypeOK, Request
  <2>2. TurnBeforeConfirm' /\ ConfirmIsFresh' /\ MoveIsFresh'
    BY <2>1 DEF HoldFacts, TurnBeforeConfirm, ConfirmIsFresh, MoveIsFresh, InFlight
  <2> QED BY <2>1, <2>2, RowsUnchanged DEF HoldFacts
<1> QED BY <1>1, <1>2, <1>3, <1>4 DEF Confirm

\* A move takes a free table and gives back the one it left, which nobody else
\* had.
LEMMA HoldReassign ==
  ASSUME TypeOK, HoldFacts, TypeOK', NEW r \in Requests, Reassign(r)
  PROVE  HoldFacts'
<1>1. ASSUME NEW v \in Visits, NEW t \in Tables, ReassignRead(r, v, t)
      PROVE  HoldFacts'
  <2> DEFINE answer == ReassignPrecheck(visit[v], t)
  <2>1. /\ req'[r].op = "reassign" /\ req'[r].visit = v
        /\ req'[r].table = t /\ req'[r].prev = visit[v].tableId
        /\ req'[r].pc = IF answer = NONE THEN "write" ELSE "done"
        /\ \A q \in Requests \ {r} : req'[q] = req[q]
        /\ UNCHANGED <<visit, table>>
    BY <1>1 DEF ReassignRead, TypeOK, IdleRequest
  <2>2. answer = NONE => visit[v].tableId \in Tables \ {t}
    BY NoneIsNoReply
    DEF ReassignPrecheck, TypeOK, VisitRow, Replies, ReassignReplies
  <2>3. TurnBeforeConfirm' /\ ConfirmIsFresh'
    BY <2>1 DEF HoldFacts, TurnBeforeConfirm, ConfirmIsFresh, InFlight
  <2>4. MoveIsFresh'
    BY <2>1, <2>2 DEF HoldFacts, MoveIsFresh
  <2> QED BY <2>1, <2>3, <2>4, RowsUnchanged DEF HoldFacts
<1>2. ASSUME ReassignCommit(r) PROVE HoldFacts'
  <2> DEFINE v    == req[r].visit
             t    == req[r].table
             prev == req[r].prev
  <2>1. /\ v \in Visits /\ t \in Tables /\ prev \in Tables \ {t}
        /\ table[t] = "free" /\ visit[v].tableId = prev
        /\ visit[v].status \in ActiveStatuses
    BY <1>2 DEF ReassignCommit, TableClaimable, MoveClaimable, HoldFacts,
                MoveIsFresh
  <2>2. Booked(v) /\ table[prev] = "held"
    BY <2>1 DEF HoldFacts, StatusReached, ActiveStatuses, BookedStatuses, Booked,
                ExclusiveHold, BookedTableIsHeld
  <2>3. /\ visit' = [visit EXCEPT ![v].tableId = t]
        /\ table' = [table EXCEPT ![t] = "held",
                                  ![prev] = IF @ = "held" THEN "free" ELSE @]
        /\ req' = [req EXCEPT ![r].pc = "done", ![r].reply = "reassigned"]
    BY <1>2 DEF ReassignCommit, Reply
  <2>4. /\ visit'[v].tableId = t /\ visit'[v].status = visit[v].status
        /\ \A u \in Visits \ {v} : visit'[u] = visit[u]
        /\ table'[t] = "held" /\ table'[prev] = "free"
        /\ \A x \in Tables \ {t, prev} : table'[x] = table[x]
        /\ req'[r].pc = "done"
        /\ \A q \in Requests \ {r} : req'[q] = req[q]
    BY <2>1, <2>2, <2>3 DEF TypeOK, VisitRow, Request
  <2>5. \A u \in Visits : Booked(u)' <=> Booked(u)
    BY <2>4 DEF Booked
  <2>6. \A u \in Visits \ {v} : Booked(u) => visit[u].tableId \notin {t, prev}
    BY <2>1, <2>2 DEF HoldFacts, ExclusiveHold, BookedTableIsHeld, NoDoubleBooking
  <2>7. StatusReached'
    BY <2>4 DEF HoldFacts, StatusReached
  <2>8. BookedTableIsHeld'
    BY <2>1, <2>4, <2>5, <2>6, BookingAssumption, BookedHasTable
    DEF BookedTableIsHeld
  <2>9. NoDoubleBooking'
    BY <2>4, <2>5, <2>6 DEF HoldFacts, ExclusiveHold, NoDoubleBooking
  <2>10. NoLeakedHold'
    BY <2>1, <2>2, <2>4, <2>5 DEF HoldFacts, ExclusiveHold, NoLeakedHold
  <2>11. ASSUME NEW q \in Requests, NEW u \in Visits, InFlight(q, "propose", u)'
         PROVE  (visit[u].status = "draft" /\ \A p \in Requests : ~InFlight(p, "confirm", u))'
    <3>1. InFlight(q, "propose", u) /\ visit[u].status = "draft"
      BY <2>4, <2>11 DEF HoldFacts, TurnBeforeConfirm, InFlight
    <3>2. u # v
      BY <2>2, <3>1 DEF Booked, BookedStatuses
    <3> QED BY <2>4, <3>1, <3>2 DEF HoldFacts, TurnBeforeConfirm, InFlight
  <2>12. TurnBeforeConfirm'
    BY <2>11 DEF TurnBeforeConfirm
  <2>13. ConfirmIsFresh'
    BY <2>2, <2>4 DEF HoldFacts, ConfirmIsFresh, Booked, BookedStatuses
  <2>14. MoveIsFresh'
    BY <2>4 DEF HoldFacts, MoveIsFresh
  <2> QED BY <2>7, <2>8, <2>9, <2>10, <2>12, <2>13, <2>14
          DEF HoldFacts, ExclusiveHold
<1>3. ASSUME ReassignRefused(r) PROVE HoldFacts'
  <2>1. /\ UNCHANGED <<visit, table>>
        /\ req'[r].pc = "done"
        /\ \A q \in Requests \ {r} : req'[q] = req[q]
    BY <1>3 DEF ReassignRefused, Reply, TypeOK, Request
  <2> QED BY <2>1, RowsUnchanged, RequestOver DEF HoldFacts, TypeOK
<1> QED BY <1>1, <1>2, <1>3 DEF Reassign

\* A write to one visit that changes neither its table nor whether it is booked,
\* and never back to a draft, keeps what is known.
LEMMA HoldSameSeat ==
  ASSUME TypeOK, HoldFacts, NEW v \in Visits, UNCHANGED <<table, req>>,
         \A u \in Visits \ {v} : visit'[u] = visit[u],
         visit'[v].tableId = visit[v].tableId,
         \/ visit'[v].status = visit[v].status
         \/ visit[v].status = "absent" /\ visit'[v].status = "draft"
         \/ Booked(v) /\ visit'[v].status \in BookedStatuses
  PROVE  HoldFacts'
<1>1. \A u \in Visits : Booked(u)' <=> Booked(u)
  BY DEF Booked, BookedStatuses
<1>2. StatusReached'
  BY DEF HoldFacts, StatusReached
<1>3. \A u \in Visits : visit'[u].tableId = visit[u].tableId
  OBVIOUS
<1>4. ExclusiveHold'
  BY <1>1, <1>3 DEF HoldFacts, ExclusiveHold, BookedTableIsHeld,
                    NoDoubleBooking, NoLeakedHold
<1>5. TurnBeforeConfirm'
  BY DEF HoldFacts, TurnBeforeConfirm, InFlight, Booked, BookedStatuses
<1>6. ConfirmIsFresh'
  BY DEF HoldFacts, ConfirmIsFresh, Booked, BookedStatuses
<1>7. MoveIsFresh'
  BY DEF HoldFacts, MoveIsFresh
<1> QED BY <1>2, <1>4, <1>5, <1>6, <1>7 DEF HoldFacts

\* Starting a draft, an UPDATE of its details and the kitchen's two writes.
LEMMA HoldVisitStep ==
  ASSUME TypeOK, HoldFacts, NEW v \in Visits, VisitStep(v)
  PROVE  HoldFacts'
<1>1. ASSUME NEW c \in Customers \cup {NONE}, Start(v, c) PROVE HoldFacts'
  <2>1. /\ visit[v].status = "absent" /\ visit'[v].status = "draft"
        /\ \A u \in Visits \ {v} : visit'[u] = visit[u]
        /\ UNCHANGED <<table, req>>
    BY <1>1 DEF Start, TypeOK, NoVisit
  <2>2. \A u \in Visits : Booked(u)' <=> Booked(u)
    BY <2>1 DEF Booked, BookedStatuses
  <2>3. StatusReached'
    BY <2>1 DEF HoldFacts, StatusReached
  <2>4. ~Booked(v)
    BY <2>1 DEF Booked, BookedStatuses
  <2>5. ExclusiveHold'
    BY <2>1, <2>2, <2>4 DEF HoldFacts, ExclusiveHold, BookedTableIsHeld,
                            NoDoubleBooking, NoLeakedHold
  <2>6. TurnBeforeConfirm' /\ ConfirmIsFresh' /\ MoveIsFresh'
    BY <2>1 DEF HoldFacts, TurnBeforeConfirm, ConfirmIsFresh, MoveIsFresh, InFlight
  <2> QED BY <2>3, <2>5, <2>6 DEF HoldFacts
<1>2. ASSUME NEW fields \in SUBSET Fields, SetPartyDetails(v, fields)
      PROVE  HoldFacts'
  BY <1>2, HoldSameSeat DEF SetPartyDetails, TypeOK, VisitRow
<1>3. ASSUME NEW from \in BookedStatuses, NEW to \in BookedStatuses,
             MoveStatus(v, from, to)
      PROVE  HoldFacts'
  BY <1>3, HoldSameSeat DEF MoveStatus, Booked, TypeOK, VisitRow
<1> QED BY <1>1, <1>2, <1>3
        DEF VisitStep, AcceptKitchenStart, MarkFoodOut, BookedStatuses

\* HoldInv is inductive when the guest's client waits.
LEMMA HoldStep == GuestWaits /\ HoldInv /\ [Next]_vars => HoldInv'
<1> SUFFICES ASSUME GuestWaits, HoldInv, [Next]_vars PROVE HoldInv'
  OBVIOUS
<1>1. TypeOK /\ TypeOK' /\ HoldFacts
  BY TypeStep DEF HoldInv, HoldFacts
<1>2. ASSUME NEW r \in Requests, EndRequest(r) PROVE HoldFacts'
  <2>1. /\ UNCHANGED <<visit, table>>
        /\ req'[r].pc = "idle"
        /\ \A q \in Requests \ {r} : req'[q] = req[q]
    BY <1>1, <1>2 DEF EndRequest, IdleRequest, TypeOK
  <2> QED BY <1>1, <2>1, RowsUnchanged, RequestOver DEF HoldFacts, TypeOK
<1>3. ASSUME UNCHANGED vars PROVE HoldFacts'
  <2>1. UNCHANGED <<visit, table>> /\ req' = req
    BY <1>3 DEF vars
  <2>2. TurnBeforeConfirm' /\ ConfirmIsFresh' /\ MoveIsFresh'
    BY <1>1, <2>1
    DEF HoldFacts, TurnBeforeConfirm, ConfirmIsFresh, MoveIsFresh, InFlight
  <2>3. StatusReached' /\ ExclusiveHold'
    BY <1>1, <2>1, RowsUnchanged
  <2> QED BY <2>2, <2>3 DEF HoldFacts
<1>4. ASSUME NEW r \in Requests, Intake(r) \/ Confirm(r) \/ Reassign(r)
      PROVE  HoldFacts'
  BY <1>1, <1>4, HoldIntake, HoldConfirm, HoldReassign
<1>5. ASSUME NEW v \in Visits, VisitStep(v) PROVE HoldFacts'
  BY <1>1, <1>5, HoldVisitStep
<1>6. ASSUME Next PROVE HoldFacts'
  BY <1>2, <1>4, <1>5, <1>6 DEF Next
<1> QED BY <1>1, <1>3, <1>6 DEF HoldInv, HoldFacts

\* HoldInv is an invariant, as HoldStep needs it.
THEOREM HoldsStayFresh ==
  ASSUME GuestWaits
  PROVE  Spec => []HoldInv
<1>1. HoldInv /\ [Next]_vars => HoldInv'
  BY HoldStep
<1> QED BY <1>1, HoldInit, PTL DEF Spec

\* When no guest talks and confirms at the same time, every booking has its
\* table to itself and no hold is lost, however many requests race.
THEOREM HoldsAreExclusive ==
  ASSUME GuestWaits
  PROVE  Spec => []ExclusiveHold
<1>1. HoldInv => ExclusiveHold
  BY DEF HoldInv
<1> QED BY <1>1, HoldsStayFresh, PTL

-----------------------------------------------------------------------------
(* The trail, the customer and the answers                                  *)

\* What no step takes back from a visit.
Grows(u) ==
    /\ visit[u].customerId # NONE => visit'[u].customerId = visit[u].customerId
    /\ Booked(u) => Booked(u)'
    /\ visit[u].status # "absent" => visit'[u].status # "absent"
    /\ visit'[u].status = "draft" /\ visit[u].status # "absent" =>
          visit[u].status = "draft" /\ visit'[u].customerId = visit[u].customerId

Recorded == RecordInv' /\ \A u \in Visits : Grows(u)

\* A request that a step leaves alone stays as good as it was.
LEMMA StillWitnessed ==
  ASSUME RecordInv, \A u \in Visits : Grows(u), NEW r \in Requests, req'[r] = req[r]
  PROVE  Witnessed(r)'
<1>1. Witnessed(r)
  BY DEF RecordInv
<1> QED BY <1>1, BookingAssumption DEF Witnessed, Grows

\* A step that changes no status and no customer only has its own request to answer for.
LEMMA SameRows ==
  ASSUME RecordInv, TypeOK', NEW r \in Requests, audit' = audit,
         \A u \in Visits : /\ visit'[u].status = visit[u].status
                          /\ visit'[u].customerId = visit[u].customerId,
         \A q \in Requests \ {r} : req'[q] = req[q], Witnessed(r)'
  PROVE  Recorded
<1>1. \A u \in Visits : Grows(u)
  BY DEF Grows, Booked
<1>2. \A q \in Requests : Witnessed(q)'
  BY <1>1, StillWitnessed
<1>3. AuditTrailExact'
  BY DEF RecordInv, AuditTrailExact, TrailOf
<1>4. StatusReached' /\ \A v \in Visits : visit'[v].status = "absent" => visit'[v].customerId = NONE
  BY DEF RecordInv, StatusReached
<1> QED BY <1>1, <1>2, <1>3, <1>4 DEF RecordInv, Recorded

\* A step that changes one visit has that visit's trail to answer for as well.
LEMMA OneRow ==
  ASSUME RecordInv, TypeOK', NEW v \in Visits, Grows(v),
         \A u \in Visits \ {v} : visit'[u] = visit[u] /\ audit'[u] = audit[u],
         visit'[v].status \in {"draft"} \cup BookedStatuses, audit'[v] = TrailOf(visit'[v]),
         \A r \in Requests : req'[r] = req[r] \/ Witnessed(r)'
  PROVE  Recorded
<1>1. \A u \in Visits : Grows(u)
  BY DEF Grows, Booked
<1>2. \A r \in Requests : Witnessed(r)'
  BY <1>1, StillWitnessed
<1>3. AuditTrailExact'
  BY DEF RecordInv, AuditTrailExact
<1>4. StatusReached' /\ \A u \in Visits : visit'[u].status = "absent" => visit'[u].customerId = NONE
  BY DEF RecordInv, StatusReached, BookedStatuses
<1> QED BY <1>1, <1>2, <1>3, <1>4 DEF RecordInv, Recorded

\* An answer that is no success, and no confirm on its way, has nothing to witness.
LEMMA NothingToWitness ==
  ASSUME NEW r, req'[r].op # "confirm" \/ req'[r].pc \in {"idle", "done"},
         req'[r].reply \notin {"booked", "already_confirmed"}
  PROVE  Witnessed(r)'
  BY DEF Witnessed

LEMMA RecordIntake ==
  ASSUME RecordInv, TypeOK', NEW r \in Requests, Intake(r)
  PROVE  Recorded
<1>1. TypeOK
  BY DEF RecordInv
<1>2. ASSUME NEW v \in Visits, NEW t \in Tables, ProposeRead(r, v, t) PROVE Recorded
  <2>1. /\ req'[r].op = "propose" /\ req'[r].reply \in {NONE, "unavailable"}
        /\ \A q \in Requests \ {r} : req'[q] = req[q]
        /\ UNCHANGED <<visit, audit>>
    BY <1>1, <1>2 DEF ProposeRead, TypeOK, IdleRequest
  <2>2. Witnessed(r)'
    BY <2>1, NoneIsNoReply, NothingToWitness DEF Replies, ConfirmReplies
  <2> QED BY <2>1, <2>2, SameRows
<1>3. ASSUME ProposeWrite(r) PROVE Recorded
  <2>1. /\ req'[r].op = "propose" /\ req'[r].reply = "proposed"
        /\ \A q \in Requests \ {r} : req'[q] = req[q]
        /\ audit' = audit
    BY <1>1, <1>3 DEF ProposeWrite, Reply, TypeOK, Request
  <2>2. Witnessed(r)'
    BY <2>1, NothingToWitness
  <2>3. \A u \in Visits : /\ visit'[u].status = visit[u].status
                         /\ visit'[u].customerId = visit[u].customerId
    BY <1>1, <1>3 DEF ProposeWrite, TypeOK, VisitRow
  <2> QED BY <2>1, <2>2, <2>3, SameRows
<1> QED BY <1>2, <1>3 DEF Intake

\* A confirm reads before it claims, and claims before it answers.
LEMMA RecordConfirm ==
  ASSUME RecordInv, TypeOK', NEW r \in Requests, Confirm(r)
  PROVE  Recorded
<1>1. TypeOK
  BY DEF RecordInv
<1>2. ASSUME NEW v \in Visits, NEW c \in Customers, ConfirmRead(r, v, c) PROVE Recorded
  <2>1. PICK stale \in BOOLEAN :
          LET answer == ConfirmPrecheck(visit[v], c, stale) IN
          req' = [req EXCEPT ![r] =
                   [IdleRequest EXCEPT
                      !.op = "confirm", !.visit = v, !.who = c,
                      !.table = visit[v].tableId,
                      !.pc    = IF answer = NONE THEN "write" ELSE "done",
                      !.reply = answer]]
    BY <1>2 DEF ConfirmRead
  <2> DEFINE answer == ConfirmPrecheck(visit[v], c, stale)
  <2>2. /\ req'[r].visit = v /\ req'[r].who = c /\ req'[r].reply = answer
        /\ req'[r].pc = IF answer = NONE THEN "write" ELSE "done"
        /\ \A q \in Requests \ {r} : req'[q] = req[q]
    BY <1>1, <2>1 DEF TypeOK, IdleRequest
  <2>3. UNCHANGED <<visit, audit>> /\ visit[v].status # "absent"
    BY <1>2 DEF ConfirmRead
  <2>4. /\ answer # "booked"
        /\ answer = "already_confirmed" => visit[v].status = "confirmed" /\ visit[v].customerId = c
        /\ answer = NONE => visit[v].customerId \in {NONE, c}
    BY NoneIsNoReply DEF ConfirmPrecheck, Replies, ConfirmReplies
  <2> HIDE DEF answer
  <2>5. Witnessed(r)'
    BY <2>2, <2>3, <2>4, NoneIsNoReply
    DEF Witnessed, Booked, BookedStatuses, Replies, ConfirmReplies
  <2> QED BY <2>2, <2>3, <2>5, SameRows
<1>3. ASSUME ConfirmCommit(r) PROVE Recorded
  <2> DEFINE v == req[r].visit
             c == req[r].who
  <2>1. /\ v \in Visits /\ c \in Customers /\ visit[v].status = "draft"
        /\ visit[v].customerId \in {NONE, c} /\ audit[v] = << >>
    BY <1>3 DEF ConfirmCommit, VisitClaimable, RecordInv, Witnessed, AuditTrailExact, TrailOf
  <2>2. /\ visit' = [visit EXCEPT ![v].status = "confirmed", ![v].customerId = c]
        /\ audit' = [audit EXCEPT ![v] = Append(@, [status |-> "confirmed", actorId |-> c])]
        /\ Reply(r, "booked")
    BY <1>3 DEF ConfirmCommit
  <2>3. /\ visit'[v].status = "confirmed" /\ visit'[v].customerId = c
        /\ \A u \in Visits \ {v} : visit'[u] = visit[u] /\ audit'[u] = audit[u]
        /\ audit'[v] = <<[status |-> "confirmed", actorId |-> c]>>
    BY <1>1, <2>1, <2>2 DEF TypeOK, VisitRow
  <2>4. /\ req'[r].visit = v /\ req'[r].who = c /\ req'[r].pc = "done"
        /\ \A q \in Requests \ {r} : req'[q] = req[q]
    BY <1>1, <2>2 DEF Reply, TypeOK, Request
  <2> HIDE DEF v, c
  <2>5. Witnessed(r)'
    BY <2>1, <2>3, <2>4 DEF Witnessed, Booked, BookedStatuses
  <2>6. Grows(v) /\ audit'[v] = TrailOf(visit'[v])
    BY <2>1, <2>3 DEF Grows, Booked, BookedStatuses, TrailOf
  <2> QED BY <2>1, <2>3, <2>4, <2>5, <2>6, OneRow DEF BookedStatuses
<1>4. ASSUME ConfirmTableTaken(r) PROVE Recorded
  <2>1. /\ req'[r].pc = "done" /\ req'[r].reply = "table_taken"
        /\ \A q \in Requests \ {r} : req'[q] = req[q]
        /\ UNCHANGED <<visit, audit>>
    BY <1>1, <1>4 DEF ConfirmTableTaken, Reply, TypeOK, Request
  <2> QED BY <1>1, <2>1, NothingToWitness, SameRows
<1>5. ASSUME ConfirmClaimLost(r) PROVE Recorded
  <2>1. /\ req'[r] = [req[r] EXCEPT !.pc = "reread"] /\ req[r].op = "confirm"
        /\ req[r].pc = "write" /\ req[r] \in Request
        /\ \A q \in Requests \ {r} : req'[q] = req[q]
        /\ UNCHANGED <<visit, audit>>
    BY <1>1, <1>5 DEF ConfirmClaimLost, Advance, TypeOK
  <2>2. /\ req'[r].visit = req[r].visit /\ req'[r].who = req[r].who
        /\ req'[r].reply = req[r].reply
    BY <2>1 DEF Request
  <2>3. Witnessed(r)'
    BY <2>1, <2>2 DEF RecordInv, Witnessed, Booked
  <2> QED BY <2>1, <2>3, SameRows
<1>6. ASSUME ConfirmReread(r) PROVE Recorded
  <2> DEFINE row == visit[req[r].visit]
  <2>1. PICK answer \in Replies :
          /\ Reply(r, answer) /\ answer \in {"already_confirmed", "not_draft"}
          /\ answer = "already_confirmed" =>
                row.status = "confirmed" /\ row.customerId = req[r].who
    BY <1>6 DEF ConfirmReread, Replies, ConfirmReplies
  <2>2. /\ req'[r].pc = "done" /\ req'[r].reply = answer
        /\ req'[r].visit = req[r].visit /\ req'[r].who = req[r].who
        /\ \A q \in Requests \ {r} : req'[q] = req[q]
    BY <1>1, <2>1 DEF Reply, TypeOK, Request
  <2>3. /\ UNCHANGED <<visit, audit>>
        /\ req[r].visit \in Visits /\ req[r].who \in Customers
    BY <1>6 DEF ConfirmReread, RecordInv, Witnessed
  <2>4. Witnessed(r)'
    BY <2>1, <2>2, <2>3 DEF Witnessed, Booked, BookedStatuses
  <2> QED BY <2>2, <2>3, <2>4, SameRows
<1> QED BY <1>2, <1>3, <1>4, <1>5, <1>6 DEF Confirm

\* A move changes neither status nor customer.
LEMMA RecordReassign ==
  ASSUME RecordInv, TypeOK', NEW r \in Requests, Reassign(r)
  PROVE  Recorded
<1>1. TypeOK
  BY DEF RecordInv
<1>2. ASSUME NEW v \in Visits, NEW t \in Tables, ReassignRead(r, v, t) PROVE Recorded
  <2>1. /\ req'[r].op = "reassign" /\ req'[r].reply = ReassignPrecheck(visit[v], t)
        /\ \A q \in Requests \ {r} : req'[q] = req[q]
        /\ UNCHANGED <<visit, audit>>
    BY <1>1, <1>2 DEF ReassignRead, TypeOK, IdleRequest
  <2>2. ReassignPrecheck(visit[v], t) \notin {"booked", "already_confirmed"}
    BY NoneIsNoReply DEF ReassignPrecheck, Replies, ConfirmReplies
  <2> QED BY <2>1, <2>2, NothingToWitness, SameRows
<1>3. ASSUME ReassignCommit(r) \/ ReassignRefused(r) PROVE Recorded
  <2>1. PICK answer \in ReassignReplies : Reply(r, answer)
    BY <1>3 DEF ReassignCommit, ReassignRefused, ReassignReplies
  <2>2. /\ req'[r].pc = "done" /\ req'[r].reply = answer
        /\ \A q \in Requests \ {r} : req'[q] = req[q]
    BY <1>1, <2>1 DEF Reply, TypeOK, Request
  <2>3. Witnessed(r)'
    BY <2>2, NothingToWitness DEF ReassignReplies
  <2>4. audit' = audit
    BY <1>3 DEF ReassignCommit, ReassignRefused
  <2>5. \A u \in Visits : /\ visit'[u].status = visit[u].status
                         /\ visit'[u].customerId = visit[u].customerId
    <3>1. \/ visit' = visit
          \/ visit' = [visit EXCEPT ![req[r].visit].tableId = req[r].table]
      BY <1>3 DEF ReassignCommit, ReassignRefused
    <3>2. CASE visit' = visit
      BY <3>2
    <3>3. CASE visit' = [visit EXCEPT ![req[r].visit].tableId = req[r].table]
      BY <1>1, <3>3 DEF TypeOK, VisitRow
    <3> QED BY <3>1, <3>2, <3>3
  <2> QED BY <2>2, <2>3, <2>4, <2>5, SameRows
<1> QED BY <1>2, <1>3 DEF Reassign

\* A draft begins without an event; the kitchen's writes bring one each.
LEMMA RecordVisitStep ==
  ASSUME RecordInv, TypeOK', NEW v \in Visits, VisitStep(v)
  PROVE  Recorded
<1>1. TypeOK /\ audit[v] = TrailOf(visit[v])
  BY DEF RecordInv, AuditTrailExact
<1>2. ASSUME NEW c \in Customers \cup {NONE}, Start(v, c) PROVE Recorded
  <2>1. /\ visit[v].status = "absent" /\ visit[v].customerId = NONE
        /\ visit'[v].status = "draft" /\ UNCHANGED <<audit, req>>
        /\ \A u \in Visits \ {v} : visit'[u] = visit[u]
    BY <1>1, <1>2 DEF Start, NoVisit, TypeOK, RecordInv
  <2>2. Grows(v) /\ audit'[v] = TrailOf(visit'[v])
    BY <1>1, <2>1 DEF Grows, Booked, BookedStatuses, TrailOf
  <2> QED BY <2>1, <2>2, OneRow
<1>3. ASSUME NEW fields \in SUBSET Fields, SetPartyDetails(v, fields) PROVE Recorded
  <2>1. /\ visit'[v].status = visit[v].status /\ visit'[v].customerId = visit[v].customerId
        /\ visit[v].status # "absent" /\ UNCHANGED <<audit, req>>
        /\ \A u \in Visits \ {v} : visit'[u] = visit[u]
    BY <1>1, <1>3 DEF SetPartyDetails, GuestMayTalk, TypeOK, VisitRow
  <2>2. Grows(v) /\ audit'[v] = TrailOf(visit'[v])
    BY <1>1, <2>1 DEF Grows, Booked, TrailOf
  <2>3. visit'[v].status \in {"draft"} \cup BookedStatuses
    BY <2>1 DEF RecordInv, StatusReached
  <2> QED BY <2>1, <2>2, <2>3, OneRow
<1>4. ASSUME NEW from \in {"confirmed", "kitchen_started"}, NEW to \in BookedStatuses,
             to = (IF from = "confirmed" THEN "kitchen_started" ELSE "food_out"),
             MoveStatus(v, from, to)
      PROVE  Recorded
  <2>1. /\ visit[v].status = from /\ visit'[v].status = to
        /\ visit'[v].customerId = visit[v].customerId /\ req' = req
        /\ audit'[v] = Append(audit[v], [status |-> to, actorId |-> NONE])
        /\ \A u \in Visits \ {v} : visit'[u] = visit[u] /\ audit'[u] = audit[u]
    BY <1>1, <1>4 DEF MoveStatus, TypeOK, VisitRow
  <2>2. Grows(v)
    BY <1>4, <2>1 DEF Grows, Booked, BookedStatuses
  <2>3. audit'[v] = TrailOf(visit'[v])
    BY <1>1, <1>4, <2>1 DEF TrailOf
  <2> QED BY <2>1, <2>2, <2>3, OneRow
<1> QED BY <1>2, <1>3, <1>4 DEF VisitStep, AcceptKitchenStart, MarkFoodOut, BookedStatuses

LEMMA RecordStep == RecordInv /\ [Next]_vars => Recorded
<1> SUFFICES ASSUME RecordInv, [Next]_vars PROVE Recorded
  OBVIOUS
<1>1. TypeOK /\ TypeOK'
  BY TypeStep DEF RecordInv
<1>2. ASSUME NEW r \in Requests, EndRequest(r) PROVE Recorded
  <2>1. /\ req'[r] = IdleRequest /\ UNCHANGED <<visit, audit>>
        /\ \A q \in Requests \ {r} : req'[q] = req[q]
    BY <1>1, <1>2 DEF EndRequest, TypeOK
  <2>2. Witnessed(r)'
    BY <2>1, NoneIsNoReply, NothingToWitness DEF IdleRequest, Replies, ConfirmReplies
  <2> QED BY <1>1, <2>1, <2>2, SameRows
<1>3. ASSUME NEW r \in Requests, Intake(r) \/ Confirm(r) \/ Reassign(r) PROVE Recorded
  BY <1>1, <1>3, RecordIntake, RecordConfirm, RecordReassign
<1>4. ASSUME NEW v \in Visits, VisitStep(v) PROVE Recorded
  BY <1>1, <1>4, RecordVisitStep
<1>5. ASSUME UNCHANGED vars PROVE Recorded
  <2>1. visit' = visit /\ audit' = audit /\ req' = req
    BY <1>5 DEF vars
  <2>2. \A u \in Visits : Grows(u)
    BY <2>1 DEF Grows, Booked
  <2>3. RecordInv'
    BY <1>1, <2>1 DEF RecordInv, StatusReached, AuditTrailExact, Witnessed, Booked
  <2> QED BY <2>2, <2>3 DEF Recorded
<1> QED BY <1>2, <1>3, <1>4, <1>5 DEF Next

LEMMA RecordInit == Init => RecordInv
<1> SUFFICES ASSUME Init PROVE RecordInv
  OBVIOUS
<1>1. /\ \A v \in Visits : visit[v] = NoVisit /\ audit[v] = << >>
      /\ \A r \in Requests : req[r] = IdleRequest
  BY DEF Init
<1>2. \A r \in Requests : Witnessed(r)
  BY <1>1, NoneIsNoReply DEF Witnessed, IdleRequest, Replies, ConfirmReplies
<1>3. AuditTrailExact /\ StatusReached
  BY <1>1 DEF AuditTrailExact, TrailOf, StatusReached, NoVisit
<1> QED BY <1>1, <1>2, <1>3, TypeInit DEF RecordInv, NoVisit

\* RecordInv is an invariant, whether or not guests wait.
THEOREM RecordsHold == Spec => []RecordInv
<1>1. RecordInv /\ [Next]_vars => RecordInv'
  BY RecordStep DEF Recorded
<1> QED BY <1>1, RecordInit, PTL DEF Spec

\* Each transition of a visit has one audit row, in order, and the confirmed event
\* names the customer (confirm, acceptKitchenStart and markFoodOut).
THEOREM TrailIsExact == Spec => []AuditTrailExact
<1>1. RecordInv => AuditTrailExact
  BY DEF RecordInv
<1> QED BY <1>1, RecordsHold, PTL

\* Who is told that a visit is booked for them has it booked (confirm, its retries and
\* its second look after a lost claim).
THEOREM SuccessesAreReal == Spec => []SuccessIsReal
<1>1. RecordInv => SuccessIsReal
  BY DEF RecordInv, Witnessed, SuccessIsReal
<1> QED BY <1>1, RecordsHold, PTL

\* A visit that is somebody's stays theirs.
THEOREM CustomersStayBound == Spec => CustomerIsBound
<1>1. RecordInv /\ [Next]_vars =>
        [\A v \in Visits : visit[v].customerId # NONE =>
                               visit'[v].customerId = visit[v].customerId]_vars
  BY RecordStep DEF Recorded, Grows
<1> QED BY <1>1, RecordsHold, PTL DEF Spec, CustomerIsBound

-----------------------------------------------------------------------------
(* The count of bookings and holds                                          *)

\* A request about to write knows which table it is after, and not to move a visit to
\* where it sits.
InHand(r) ==
    req[r].pc = "write" =>
        /\ req[r].op = "confirm" => req[r].table \in Tables
        /\ req[r].op = "reassign" => req[r].table \in Tables /\ req[r].prev # req[r].table

BookedVisits == {v \in Visits : Booked(v)}
HeldTables == {t \in Tables : table[t] = "held"}

CountInv == RecordInv /\ (\A r \in Requests : InHand(r)) /\ NeverOversold

LEMMA InHandStep ==
  ASSUME TypeOK, \A r \in Requests : InHand(r), [Next]_vars, NEW r \in Requests
  PROVE  InHand(r)'
<1>1. req \in [Requests -> Request] /\ InHand(r)
  BY DEF TypeOK
<1>2. ASSUME req'[r] = req[r] \/ req'[r].pc # "write" \/ req'[r].op = "propose" PROVE InHand(r)'
  BY <1>1, <1>2 DEF InHand
<1>3. ASSUME NEW q \in Requests, NEW v \in Visits, NEW t \in Tables, ProposeRead(q, v, t)
      PROVE  InHand(r)'
  <2>1. req'[r] = req[r] \/ req'[r].op = "propose"
    BY <1>1, <1>3 DEF ProposeRead, IdleRequest
  <2> QED BY <1>2, <2>1
<1>4. ASSUME NEW q \in Requests, NEW v \in Visits, NEW t \in Tables, ReassignRead(q, v, t)
      PROVE  InHand(r)'
  <2> DEFINE answer == ReassignPrecheck(visit[v], t)
  <2>1. \/ req'[r] = req[r]
        \/ /\ req'[r].op = "reassign" /\ req'[r].table = t /\ req'[r].prev = visit[v].tableId
           /\ req'[r].pc = IF answer = NONE THEN "write" ELSE "done"
    BY <1>1, <1>4 DEF ReassignRead, IdleRequest
  <2>2. answer = NONE => visit[v].tableId # t
    BY NoneIsNoReply DEF ReassignPrecheck, Replies, ReassignReplies
  <2> HIDE DEF answer
  <2> QED BY <1>2, <2>1, <2>2 DEF InHand
<1>5. ASSUME NEW q \in Requests, NEW v \in Visits, NEW c \in Customers, ConfirmRead(q, v, c)
      PROVE  InHand(r)'
  <2>1. PICK stale \in BOOLEAN :
          LET answer == ConfirmPrecheck(visit[v], c, stale) IN
          req' = [req EXCEPT ![q] =
                   [IdleRequest EXCEPT
                      !.op = "confirm", !.visit = v, !.who = c,
                      !.table = visit[v].tableId,
                      !.pc    = IF answer = NONE THEN "write" ELSE "done",
                      !.reply = answer]]
    BY <1>5 DEF ConfirmRead
  <2> DEFINE answer == ConfirmPrecheck(visit[v], c, stale)
  <2>2. \/ req'[r] = req[r]
        \/ /\ req'[r].op = "confirm" /\ req'[r].table = visit[v].tableId
           /\ req'[r].pc = IF answer = NONE THEN "write" ELSE "done"
    BY <1>1, <2>1 DEF IdleRequest
  <2>3. answer = NONE => visit[v].tableId \in Tables
    BY NoneIsNoReply DEF ConfirmPrecheck, TypeOK, VisitRow, Replies, ConfirmReplies
  <2> HIDE DEF answer
  <2> QED BY <1>2, <2>2, <2>3 DEF InHand
<1>6. ASSUME NEW q \in Requests,
             \/ ProposeWrite(q) \/ ConfirmCommit(q) \/ ConfirmTableTaken(q) \/ ConfirmClaimLost(q)
             \/ ConfirmReread(q) \/ ReassignCommit(q) \/ ReassignRefused(q) \/ EndRequest(q)
      PROVE  InHand(r)'
  <2>1. \/ \E answer : Reply(q, answer)
        \/ Advance(q, "reread")
        \/ req' = [req EXCEPT ![q] = IdleRequest]
    BY <1>6 DEF ProposeWrite, ConfirmCommit, ConfirmTableTaken, ConfirmClaimLost,
                ConfirmReread, ReassignCommit, ReassignRefused, EndRequest
  <2>2. req'[r] = req[r] \/ req'[r].pc # "write"
    BY <1>1, <2>1 DEF Reply, Advance, IdleRequest, Request
  <2> QED BY <1>2, <2>2
<1>7. ASSUME UNCHANGED req PROVE InHand(r)'
  BY <1>2, <1>7
<1>8. ASSUME NEW v \in Visits, VisitStep(v) PROVE UNCHANGED req
  BY <1>8 DEF VisitStep, Start, SetPartyDetails, AcceptKitchenStart, MarkFoodOut, MoveStatus
<1> QED BY <1>3, <1>4, <1>5, <1>6, <1>7, <1>8 DEF Next, Intake, Confirm, Reassign, vars

\* A booking takes a table that was free along; a move takes one before it gives one back.
LEMMA CountStep ==
  ASSUME IsFiniteSet(Visits), IsFiniteSet(Tables), CountInv, [Next]_vars
  PROVE  NeverOversold'
<1>1. TypeOK /\ RecordInv /\ (\A r \in Requests : InHand(r))
  BY DEF CountInv, RecordInv
<1>2. /\ IsFiniteSet(BookedVisits) /\ Cardinality(BookedVisits) \in Nat
      /\ IsFiniteSet(HeldTables) /\ Cardinality(HeldTables) \in Nat
      /\ Cardinality(BookedVisits) <= Cardinality(HeldTables)
  BY FS_Subset, FS_CardinalityType DEF BookedVisits, HeldTables, CountInv, NeverOversold
<1>3. NeverOversold' <=> Cardinality(BookedVisits') <= Cardinality(HeldTables')
  BY DEF NeverOversold, BookedVisits, HeldTables
<1>4. ASSUME \A v \in Visits : (Booked(v)' <=> Booked(v)), table' = table PROVE NeverOversold'
  <2>1. BookedVisits' = BookedVisits /\ HeldTables' = HeldTables
    BY <1>4 DEF BookedVisits, HeldTables
  <2> QED BY <1>2, <1>3, <2>1
<1>5. ASSUME NEW r \in Requests, ConfirmCommit(r) PROVE NeverOversold'
  <2> DEFINE v == req[r].visit
             t == req[r].table
  <2>1. /\ v \in Visits /\ t \in Tables /\ visit[v].status = "draft" /\ table[t] = "free"
    BY <1>1, <1>5 DEF ConfirmCommit, VisitClaimable, TableClaimable, RecordInv, Witnessed, InHand
  <2>2. /\ visit' = [visit EXCEPT ![v].status = "confirmed", ![v].customerId = req[r].who]
        /\ table' = [table EXCEPT ![t] = "held"]
    BY <1>5 DEF ConfirmCommit
  <2> HIDE DEF v, t
  <2>3. /\ visit'[v].status = "confirmed" /\ \A u \in Visits \ {v} : visit'[u] = visit[u]
        /\ table'[t] = "held" /\ \A x \in Tables \ {t} : table'[x] = table[x]
    BY <1>1, <2>1, <2>2 DEF TypeOK, VisitRow
  <2>4. v \notin BookedVisits /\ BookedVisits' = BookedVisits \cup {v}
    BY <2>1, <2>3 DEF BookedVisits, Booked, BookedStatuses
  <2>5. t \notin HeldTables /\ HeldTables' = HeldTables \cup {t}
    BY <2>1, <2>3 DEF HeldTables
  <2>6. /\ Cardinality(BookedVisits') = Cardinality(BookedVisits) + 1
        /\ Cardinality(HeldTables') = Cardinality(HeldTables) + 1
    BY <1>2, <2>4, <2>5, FS_AddElement
  <2> QED BY <1>2, <1>3, <2>6
<1>6. ASSUME NEW r \in Requests, ReassignCommit(r) PROVE NeverOversold'
  <2> DEFINE t    == req[r].table
             prev == req[r].prev
  <2>1. t \in Tables /\ prev # t /\ table[t] = "free"
    BY <1>1, <1>6 DEF ReassignCommit, TableClaimable, InHand
  <2>2. table' = [table EXCEPT ![t] = "held", ![prev] = IF @ = "held" THEN "free" ELSE @]
    BY <1>6 DEF ReassignCommit
  <2>3. BookedVisits' = BookedVisits
    <3>1. visit' = [visit EXCEPT ![req[r].visit].tableId = t]
      BY <1>6 DEF ReassignCommit
    <3>2. \A u \in Visits : visit'[u].status = visit[u].status
      BY <1>1, <3>1 DEF TypeOK, VisitRow
    <3> QED BY <3>2 DEF BookedVisits, Booked
  <2> HIDE DEF t, prev
  <2>4. /\ table'[t] = "held"
        /\ prev \in Tables => table'[prev] # "held"
        /\ \A x \in Tables \ {t, prev} : table'[x] = table[x]
    BY <1>1, <2>1, <2>2 DEF TypeOK
  <2>5. t \notin HeldTables \ {prev} /\ HeldTables' = (HeldTables \ {prev}) \cup {t}
    BY <2>1, <2>4 DEF HeldTables
  <2> DEFINE rest == HeldTables \ {prev}
  <2>6. /\ IsFiniteSet(rest) /\ Cardinality(rest) \in Nat
        /\ Cardinality(HeldTables) <= Cardinality(rest) + 1
    <3>1. /\ IsFiniteSet(rest)
          /\ Cardinality(rest) = IF prev \in HeldTables THEN Cardinality(HeldTables) - 1
                                                      ELSE Cardinality(HeldTables)
      BY <1>2, FS_RemoveElement
    <3>2. Cardinality(rest) \in Nat
      BY <3>1, FS_CardinalityType
    <3> QED BY <1>2, <3>1, <3>2
  <2>7. Cardinality(HeldTables') = Cardinality(rest) + 1
    <3>1. t \notin rest /\ HeldTables' = rest \cup {t}
      BY <2>5
    <3> HIDE DEF rest
    <3> QED BY <2>6, <3>1, FS_AddElement
  <2> QED BY <1>2, <1>3, <2>3, <2>6, <2>7
<1>7. ASSUME NEW r \in Requests, ProposeWrite(r) PROVE NeverOversold'
  <2>1. table' = table /\ visit' = [visit EXCEPT ![req[r].visit].tableId = req[r].table]
    BY <1>7 DEF ProposeWrite
  <2>2. \A u \in Visits : visit'[u].status = visit[u].status
    BY <1>1, <2>1 DEF TypeOK, VisitRow
  <2> QED BY <1>4, <2>1, <2>2 DEF Booked
<1>8. ASSUME NEW v \in Visits, VisitStep(v) PROVE NeverOversold'
  <2>1. ASSUME NEW c \in Customers \cup {NONE}, Start(v, c) PROVE NeverOversold'
    <3>1. /\ visit[v].status = "absent" /\ visit'[v].status = "draft" /\ table' = table
          /\ \A u \in Visits \ {v} : visit'[u] = visit[u]
      BY <1>1, <2>1 DEF Start, NoVisit, TypeOK
    <3> QED BY <1>4, <3>1 DEF Booked, BookedStatuses
  <2>2. ASSUME NEW fields \in SUBSET Fields, SetPartyDetails(v, fields) PROVE NeverOversold'
    <3>1. table' = table /\ \A u \in Visits : visit'[u].status = visit[u].status
      BY <1>1, <2>2 DEF SetPartyDetails, TypeOK, VisitRow
    <3> QED BY <1>4, <3>1 DEF Booked
  <2>3. ASSUME NEW from \in BookedStatuses, NEW to \in BookedStatuses, MoveStatus(v, from, to)
        PROVE  NeverOversold'
    <3>1. /\ table' = table /\ visit[v].status = from /\ visit'[v].status = to
          /\ \A u \in Visits \ {v} : visit'[u] = visit[u]
      BY <1>1, <2>3 DEF MoveStatus, TypeOK, VisitRow
    <3> QED BY <1>4, <3>1 DEF Booked
  <2> QED BY <1>8, <2>1, <2>2, <2>3
          DEF VisitStep, AcceptKitchenStart, MarkFoodOut, BookedStatuses
<1>9. ASSUME NEW r \in Requests,
             \/ \E v \in Visits, t \in Tables : ProposeRead(r, v, t) \/ ReassignRead(r, v, t)
             \/ \E v \in Visits, c \in Customers : ConfirmRead(r, v, c)
             \/ ConfirmTableTaken(r) \/ ConfirmClaimLost(r) \/ ConfirmReread(r)
             \/ ReassignRefused(r) \/ EndRequest(r)
      PROVE  NeverOversold'
  <2>1. UNCHANGED <<visit, table>>
    BY <1>9 DEF ProposeRead, ReassignRead, ConfirmRead, ConfirmTableTaken, ConfirmClaimLost,
                ConfirmReread, ReassignRefused, EndRequest
  <2> QED BY <1>4, <2>1 DEF Booked
<1>10. ASSUME UNCHANGED vars PROVE NeverOversold'
  BY <1>4, <1>10 DEF vars, Booked
<1>11. ASSUME NEW r \in Requests, Intake(r) \/ Confirm(r) \/ Reassign(r) \/ EndRequest(r)
       PROVE  NeverOversold'
  BY <1>5, <1>6, <1>7, <1>9, <1>11 DEF Intake, Confirm, Reassign
<1> QED BY <1>8, <1>10, <1>11 DEF Next

\* Whatever overlaps, no more visits are booked than tables are out of the pool: an
\* overlapping turn may book a visit at the wrong table, never at one too many.
THEOREM RestaurantIsNeverOversold ==
  ASSUME IsFiniteSet(Visits), IsFiniteSet(Tables)
  PROVE  Spec => []NeverOversold
<1>1. Init => CountInv
  <2> SUFFICES ASSUME Init PROVE CountInv
    OBVIOUS
  <2>1. \A v \in Visits : ~Booked(v)
    BY DEF Init, NoVisit, Booked, BookedStatuses
  <2>2. {v \in Visits : Booked(v)} = {} /\ {t \in Tables : table[t] = "held"} = {}
    BY <2>1 DEF Init
  <2>3. NeverOversold
    BY <2>2, FS_EmptySet DEF NeverOversold
  <2>4. \A r \in Requests : InHand(r)
    BY DEF Init, InHand, IdleRequest
  <2> QED BY <2>3, <2>4, RecordInit DEF CountInv
<1>2. CountInv /\ [Next]_vars => CountInv'
  BY CountStep, InHandStep, RecordStep DEF CountInv, Recorded, RecordInv
<1>3. CountInv => NeverOversold
  BY DEF CountInv
<1> QED BY <1>1, <1>2, <1>3, PTL DEF Spec

-----------------------------------------------------------------------------
(* Refinement                                                               *)

\* What neither books, moves nor frees anything is not seen from outside.
LEMMA HoldsUnseen ==
  ASSUME \A u \in Visits : (Booked(u)' <=> Booked(u)),
         \A u \in Visits : Booked(u) => visit'[u].tableId = visit[u].tableId,
         \A t \in Tables : table'[t] = table[t]
  PROVE  UNCHANGED Holds!holdVars
<1>1. seat' = seat
  BY DEF seat
<1>2. taken' = taken
  BY DEF taken
<1> QED BY <1>1, <1>2 DEF Holds!holdVars

\* A commit of confirm takes the table of its draft out of the pool.
LEMMA ConfirmTakes ==
  ASSUME HoldInv, NEW r \in Requests, ConfirmCommit(r)
  PROVE  Holds!Next
<1> DEFINE v == req[r].visit
           t == req[r].table
<1>1. /\ v \in Visits /\ t \in Tables /\ visit[v].status = "draft"
      /\ table[t] = "free" /\ visit[v].tableId = t
  BY DEF ConfirmCommit, VisitClaimable, TableClaimable, HoldInv, ConfirmIsFresh
<1>2. /\ visit' = [visit EXCEPT ![v].status = "confirmed", ![v].customerId = req[r].who]
      /\ table' = [table EXCEPT ![t] = "held"]
  BY DEF ConfirmCommit
<1>3. visit \in [Visits -> VisitRow] /\ table \in [Tables -> TableStatus]
  BY DEF HoldInv, TypeOK
<1> HIDE DEF v, t
<1>4. /\ visit'[v].status = "confirmed" /\ visit'[v].tableId = t
      /\ \A u \in Visits \ {v} : visit'[u] = visit[u]
      /\ table'[t] = "held" /\ \A x \in Tables \ {t} : table'[x] = table[x]
  BY <1>1, <1>2, <1>3 DEF VisitRow
<1>5. seat[v] = NONE /\ seat' = [seat EXCEPT ![v] = t]
  BY <1>1, <1>4 DEF seat, Booked, BookedStatuses
<1>6. t \notin taken /\ taken' = taken \cup {t}
  BY <1>1, <1>4 DEF taken
<1> QED BY <1>1, <1>5, <1>6 DEF Holds!Next, Holds!Take

\* A commit of reassign gives one table back and takes another, in one step.
LEMMA ReassignMoves ==
  ASSUME HoldInv, NEW r \in Requests, ReassignCommit(r)
  PROVE  Holds!Next
<1> DEFINE v    == req[r].visit
           t    == req[r].table
           prev == req[r].prev
<1>1. /\ v \in Visits /\ t \in Tables /\ prev \in Tables \ {t}
      /\ table[t] = "free" /\ visit[v].tableId = prev
      /\ visit[v].status \in ActiveStatuses
  BY DEF ReassignCommit, TableClaimable, MoveClaimable, HoldInv, MoveIsFresh
<1>2. Booked(v) /\ table[prev] = "held"
  BY <1>1 DEF HoldInv, StatusReached, ActiveStatuses, BookedStatuses, Booked,
              ExclusiveHold, BookedTableIsHeld
<1>3. /\ visit' = [visit EXCEPT ![v].tableId = t]
      /\ table' = [table EXCEPT ![t] = "held",
                                ![prev] = IF @ = "held" THEN "free" ELSE @]
  BY DEF ReassignCommit
<1>4. visit \in [Visits -> VisitRow] /\ table \in [Tables -> TableStatus]
  BY DEF HoldInv, TypeOK
<1> HIDE DEF v, t, prev
<1>5. /\ visit'[v].tableId = t /\ visit'[v].status = visit[v].status
      /\ \A u \in Visits \ {v} : visit'[u] = visit[u]
      /\ table'[t] = "held" /\ table'[prev] = "free"
      /\ \A x \in Tables \ {t, prev} : table'[x] = table[x]
  BY <1>1, <1>2, <1>3, <1>4 DEF VisitRow
<1>6. seat[v] = prev /\ prev # NONE /\ seat' = [seat EXCEPT ![v] = t]
  BY <1>1, <1>2, <1>5, BookingAssumption DEF seat, Booked
<1>7. t \notin taken /\ taken' = (taken \ {prev}) \cup {t}
  BY <1>1, <1>2, <1>5 DEF taken
<1> QED BY <1>1, <1>6, <1>7 DEF Holds!Next, Holds!Move

LEMMA HoldsStep ==
  ASSUME HoldInv, [Next]_vars
  PROVE  [Holds!Next]_(Holds!holdVars)
<1>1. visit \in [Visits -> VisitRow] /\ req \in [Requests -> Request]
  BY DEF HoldInv, TypeOK
<1>2. ASSUME UNCHANGED <<visit, table>> PROVE UNCHANGED Holds!holdVars
  BY <1>2, HoldsUnseen DEF Booked
<1>3. ASSUME NEW r \in Requests, ProposeWrite(r) PROVE UNCHANGED Holds!holdVars
  <2>1. table' = table /\ visit' = [visit EXCEPT ![req[r].visit].tableId = req[r].table]
    BY <1>3 DEF ProposeWrite
  <2>2. \A u \in Visits : visit'[u].status = visit[u].status
    BY <1>1, <2>1 DEF VisitRow
  <2>3. \A u \in Visits : u # req[r].visit => visit'[u] = visit[u]
    BY <1>1, <2>1
  <2>4. req[r].visit \in Visits => ~Booked(req[r].visit)
    BY <1>3 DEF ProposeWrite, HoldInv, TurnBeforeConfirm, InFlight, Booked, BookedStatuses
  <2> QED BY <2>1, <2>2, <2>3, <2>4, HoldsUnseen DEF Booked
<1>4. ASSUME NEW r \in Requests, ConfirmCommit(r) \/ ReassignCommit(r) PROVE Holds!Next
  BY <1>4, ConfirmTakes, ReassignMoves
<1>5. ASSUME NEW v \in Visits, VisitStep(v) PROVE UNCHANGED Holds!holdVars
  <2>1. ASSUME NEW c \in Customers \cup {NONE}, Start(v, c) PROVE UNCHANGED Holds!holdVars
    <3>1. /\ visit[v].status = "absent" /\ visit'[v].status = "draft" /\ table' = table
          /\ \A u \in Visits \ {v} : visit'[u] = visit[u]
      BY <1>1, <2>1 DEF Start, NoVisit
    <3> QED BY <3>1, HoldsUnseen DEF Booked, BookedStatuses
  <2>2. ASSUME NEW fields \in SUBSET Fields, SetPartyDetails(v, fields)
        PROVE  UNCHANGED Holds!holdVars
    <3>1. table' = table /\ \A u \in Visits : /\ visit'[u].status = visit[u].status
                                             /\ visit'[u].tableId = visit[u].tableId
      BY <1>1, <2>2 DEF SetPartyDetails, VisitRow
    <3> QED BY <3>1, HoldsUnseen DEF Booked
  <2>3. ASSUME NEW from \in BookedStatuses, NEW to \in BookedStatuses, MoveStatus(v, from, to)
        PROVE  UNCHANGED Holds!holdVars
    <3>1. /\ table' = table /\ visit[v].status = from /\ visit'[v].status = to
          /\ visit'[v].tableId = visit[v].tableId
          /\ \A u \in Visits \ {v} : visit'[u] = visit[u]
      BY <1>1, <2>3 DEF MoveStatus, VisitRow
    <3> QED BY <3>1, HoldsUnseen DEF Booked
  <2> QED BY <1>5, <2>1, <2>2, <2>3
          DEF VisitStep, AcceptKitchenStart, MarkFoodOut, BookedStatuses
<1>6. ASSUME NEW r \in Requests,
             \/ \E v \in Visits, t \in Tables : ProposeRead(r, v, t) \/ ReassignRead(r, v, t)
             \/ \E v \in Visits, c \in Customers : ConfirmRead(r, v, c)
             \/ ConfirmTableTaken(r) \/ ConfirmClaimLost(r) \/ ConfirmReread(r)
             \/ ReassignRefused(r) \/ EndRequest(r)
      PROVE  UNCHANGED Holds!holdVars
  <2>1. UNCHANGED <<visit, table>>
    BY <1>6 DEF ProposeRead, ReassignRead, ConfirmRead, ConfirmTableTaken, ConfirmClaimLost,
                ConfirmReread, ReassignRefused, EndRequest
  <2> QED BY <1>2, <2>1
<1>7. ASSUME UNCHANGED vars PROVE UNCHANGED Holds!holdVars
  BY <1>2, <1>7 DEF vars
<1>8. ASSUME NEW r \in Requests, Intake(r) \/ Confirm(r) \/ Reassign(r) \/ EndRequest(r)
      PROVE  [Holds!Next]_(Holds!holdVars)
  BY <1>3, <1>4, <1>6, <1>8 DEF Intake, Confirm, Reassign
<1> QED BY <1>5, <1>7, <1>8 DEF Next

\* Behind its requests, retries and races, booking does what TableHolds promises, when
\* guests wait.
THEOREM HoldsAreKept ==
  ASSUME GuestWaits
  PROVE  Spec => HoldsSpec
<1>1. Init => Holds!Init
  <2> SUFFICES ASSUME Init PROVE Holds!Init
    OBVIOUS
  <2>1. \A v \in Visits : ~Booked(v)
    BY DEF Init, NoVisit, Booked, BookedStatuses
  <2>2. seat = [v \in Visits |-> NONE]
    BY <2>1 DEF seat
  <2>3. taken = {}
    BY DEF Init, taken
  <2> QED BY <2>2, <2>3 DEF Holds!Init
<1>2. HoldInv /\ [Next]_vars => [Holds!Next]_(Holds!holdVars)
  BY HoldsStep
<1> QED BY <1>1, <1>2, HoldsStayFresh, PTL DEF Spec, HoldsSpec, Holds!Spec

=============================================================================
