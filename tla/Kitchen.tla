------------------------------- MODULE Kitchen -------------------------------
(***************************************************************************)
(* One ticket on the kitchen's side of apps/api: KitchenService's two      *)
(* write paths (acknowledgeAllergies, markFoodOut), the accept step of     *)
(* TimingService (acceptKitchenStart), and the conversation tools that may *)
(* still edit the order.                                                   *)
(*                                                                         *)
(* A step is one statement of a transaction.  Transactions run at Read     *)
(* Committed: a statement sees what has been committed when it runs, and   *)
(* what a transaction wrote stays invisible, and locked, until it commits. *)
(* The ticket is a visit that is already confirmed: the kitchen screen     *)
(* shows no other, so its requests find no other.                          *)
(***************************************************************************)
EXTENDS Naturals, Sequences

CONSTANTS
    Requests,     \* HTTP requests in flight at the same time
    Staff,        \* cooks
    Lines,        \* order lines the visit has or may get
    NONE,         \* SQL NULL
    OrderIsFinal  \* TRUE: no conversation turn edits the order of a confirmed
                  \* visit.  The API itself does not enforce this.

ASSUME KitchenAssumption == NONE \notin Staff /\ OrderIsFinal \in BOOLEAN

VARIABLES
    status,       \* Visit.status
    order,        \* the VisitItem rows: absent, without or with allergy flags
    ack,          \* who wrote the VisitAllergyAcknowledgment row, or NONE
    trail,        \* VisitStatusEvent rows written after the confirmation
    req           \* the requests being served

vars == <<status, order, ack, trail, req>>

-----------------------------------------------------------------------------

KitchenStatus == {"confirmed", "kitchen_started", "food_out"}
Line == {"absent", "plain", "flagged"}

AckReplies    == {"acknowledged", "already_acknowledged", "error"}
AcceptReplies == {"accepted", "already_accepted"}
FoodReplies   == {"served", "already_served", "not_in_progress",
                  "allergy_not_acknowledged"}
Replies == AckReplies \cup AcceptReplies \cup FoodReplies

IdleRequest == [op |-> "none", pc |-> "idle", by |-> NONE, reply |-> NONE]

Request == {IdleRequest} \cup [op    : {"ack", "accept", "food_out"},
                               pc    : {"insert", "update", "commit", "done"},
                               by    : Staff,
                               reply : Replies \cup {NONE}]

ASSUME NoneIsNoReply == NONE \notin Replies

\* r executes step pc of operation op.
At(r, op, pc) == req[r].op = op /\ req[r].pc = pc

Arrive(r, op, pc, s, answer) ==
    /\ req[r].pc = "idle"
    /\ req' = [req EXCEPT ![r] = [op |-> op, pc |-> pc, by |-> s, reply |-> answer]]

Advance(r, pc) == req' = [req EXCEPT ![r].pc = pc]

Reply(r, answer) == req' = [req EXCEPT ![r].pc = "done", ![r].reply = answer]

\* A transaction that updated the Visit row holds its lock until it commits.
VisitLocked == \E r \in Requests : At(r, "accept", "commit") \/ At(r, "food_out", "commit")

\* One that inserted an acknowledgment holds its unique key.
AckLocked == \E r \in Requests : At(r, "ack", "commit")

Flagged == \E l \in Lines : order[l] = "flagged"

-----------------------------------------------------------------------------
(* Conversation tools add, change and remove order lines whatever the        *)
(* status of the visit.                                                      *)

EditOrder(l, line) ==
    /\ ~OrderIsFinal
    /\ order' = [order EXCEPT ![l] = line]
    /\ UNCHANGED <<status, ack, trail, req>>

-----------------------------------------------------------------------------
(* acknowledgeAllergies                                                     *)

AckRead(r, s) ==
    /\ IF ack # NONE THEN Arrive(r, "ack", "done", s, "already_acknowledged")
                     ELSE Arrive(r, "ack", "insert", s, NONE)
    /\ UNCHANGED <<status, order, ack, trail>>

\* The INSERT waits for another one of the same key to commit or roll back.
AckInsert(r) ==
    /\ At(r, "ack", "insert")
    /\ ~AckLocked
    /\ ack = NONE
    /\ Advance(r, "commit")
    /\ UNCHANGED <<status, order, ack, trail>>

\* Mutant: a lost race starts the insert over instead of answering.
AckConflictRetries(r) ==
    /\ At(r, "ack", "insert")
    /\ ~AckLocked
    /\ ack # NONE
    /\ UNCHANGED vars

\* Unique violation.  It aborts the transaction, so the lookup of the winner's
\* row in the catch block fails too and the request ends with an error.
AckConflict(r) ==
    /\ At(r, "ack", "insert")
    /\ ~AckLocked
    /\ ack # NONE
    /\ Reply(r, "error")
    /\ UNCHANGED <<status, order, ack, trail>>

AckCommit(r) ==
    /\ At(r, "ack", "commit")
    /\ ack' = req[r].by
    /\ Reply(r, "acknowledged")
    /\ UNCHANGED <<status, order, trail>>

-----------------------------------------------------------------------------
(* TimingService.acceptKitchenStart                                         *)

AcceptArrive(r, s) ==
    /\ Arrive(r, "accept", "update", s, NONE)
    /\ UNCHANGED <<status, order, ack, trail>>

\* Mutant: the UPDATE matches by id alone.
AcceptableById == TRUE

\* WHERE status = 'confirmed'
Acceptable == status = "confirmed"

AcceptUpdate(r) ==
    /\ At(r, "accept", "update")
    /\ ~VisitLocked
    /\ IF Acceptable THEN Advance(r, "commit") ELSE Reply(r, "already_accepted")
    /\ UNCHANGED <<status, order, ack, trail>>

AcceptCommit(r) ==
    /\ At(r, "accept", "commit")
    /\ status' = "kitchen_started"
    /\ trail' = Append(trail, "kitchen_started")
    /\ Reply(r, "accepted")
    /\ UNCHANGED <<order, ack>>

-----------------------------------------------------------------------------
(* markFoodOut                                                              *)

\* Mutant: no gate.
GateAlwaysOpen == TRUE

\* foodOutGate lets the ticket pass.
GateOpen == Flagged => ack # NONE

FoodOutGate(r, s) ==
    /\ IF GateOpen THEN Arrive(r, "food_out", "update", s, NONE)
                   ELSE Arrive(r, "food_out", "done", s, "allergy_not_acknowledged")
    /\ UNCHANGED <<status, order, ack, trail>>

\* Mutant: a ticket still waiting for its accept step may be served.
ServableEarly == status # "food_out"

\* WHERE status = 'kitchen_started'
Servable == status = "kitchen_started"

\* Mutant: a claim that matched no row is taken for a served ticket.
FoodOutUpdateOptimistic(r) ==
    /\ At(r, "food_out", "update")
    /\ ~VisitLocked
    /\ IF Servable THEN Advance(r, "commit") ELSE Reply(r, "already_served")
    /\ UNCHANGED <<status, order, ack, trail>>

\* The claim; when it matches no row, the read that tells why.
FoodOutUpdate(r) ==
    /\ At(r, "food_out", "update")
    /\ ~VisitLocked
    /\ IF Servable THEN Advance(r, "commit")
       ELSE Reply(r, IF status = "food_out" THEN "already_served"
                                            ELSE "not_in_progress")
    /\ UNCHANGED <<status, order, ack, trail>>

FoodOutCommit(r) ==
    /\ At(r, "food_out", "commit")
    /\ status' = "food_out"
    /\ trail' = Append(trail, "food_out")
    /\ Reply(r, "served")
    /\ UNCHANGED <<order, ack>>

-----------------------------------------------------------------------------
(* The answer is sent, or the transaction rolls back: a lost connection, a   *)
(* timeout or a crash before the commit.                                     *)

EndRequest(r) ==
    /\ req[r].pc # "idle"
    /\ req' = [req EXCEPT ![r] = IdleRequest]
    /\ UNCHANGED <<status, order, ack, trail>>

-----------------------------------------------------------------------------

Init ==
    /\ status = "confirmed"
    /\ order \in [Lines -> Line]
    /\ ack = NONE
    /\ trail = << >>
    /\ req = [r \in Requests |-> IdleRequest]

\* What a request in progress does next.
Continue(r) ==
    \/ AckInsert(r) \/ AckConflict(r) \/ AckCommit(r)
    \/ AcceptUpdate(r) \/ AcceptCommit(r)
    \/ FoodOutUpdate(r) \/ FoodOutCommit(r)

Begin(r) == \E s \in Staff : AckRead(r, s) \/ AcceptArrive(r, s) \/ FoodOutGate(r, s)

Next ==
    \/ \E r \in Requests : Begin(r) \/ Continue(r) \/ EndRequest(r)
    \/ \E l \in Lines, line \in Line : EditOrder(l, line)

Spec == Init /\ [][Next]_vars

\* Postgres queues the waiters of a lock, so a request whose next statement can
\* run again and again does get to run it.  Nothing is assumed of the staff.
FairSpec == Spec /\ \A r \in Requests : SF_vars(Continue(r))

-----------------------------------------------------------------------------
(* Properties                                                               *)

\* Every variable stays within its type.
TypeOK ==
    /\ status \in KitchenStatus
    /\ order \in [Lines -> Line]
    /\ ack \in Staff \cup {NONE}
    /\ trail \in Seq(KitchenStatus)
    /\ req \in [Requests -> Request]

\* Food carrying an allergy flag never leaves without an acknowledgment, though
\* markFoodOut reads the gate and writes the status in two statements.
AllergyGate == status = "food_out" /\ Flagged => ack # NONE

\* Double-taps, retries and races between accept and food out leave one status
\* event per transition, in order, and the status follows them.
TrailExact ==
    trail = CASE status = "confirmed"       -> << >>
              [] status = "kitchen_started" -> <<"kitchen_started">>
              [] status = "food_out"        -> <<"kitchen_started", "food_out">>

ReplyIsTrue(r) ==
    /\ req[r].reply \in {"served", "already_served"} => status = "food_out"
    /\ req[r].reply \in {"accepted", "already_accepted"} => status # "confirmed"
    /\ req[r].reply = "already_acknowledged" => ack # NONE
    /\ req[r].reply = "acknowledged" => ack = req[r].by

\* What a cook is told is so: served, accepted or acknowledged, by now or by
\* somebody else before.  The one told "acknowledged" is the one on record.
RepliesAreTrue == \A r \in Requests : ReplyIsTrue(r)

\* No request waits for ever, whatever locks the others hold and drop.
EveryRequestEnds ==
    \A r \in Requests :
        req[r].pc \in {"insert", "update", "commit"} ~> req[r].pc \in {"done", "idle"}

\* What makes AllergyGate inductive when the order is final: a ticket past the
\* gate still satisfies it.
GatePassed ==
    \A r \in Requests :
        At(r, "food_out", "update") \/ At(r, "food_out", "commit") => GateOpen

GateInv == TypeOK /\ GatePassed /\ AllergyGate

\* What makes TrailExact and RepliesAreTrue inductive: the row and the key have one
\* holder each, who found them as its WHERE clause and the unique key demand.
LocksHold ==
    /\ \A r, q \in Requests :
          (At(r, "accept", "commit") \/ At(r, "food_out", "commit"))
          /\ (At(q, "accept", "commit") \/ At(q, "food_out", "commit")) => r = q
    /\ \A r, q \in Requests : At(r, "ack", "commit") /\ At(q, "ack", "commit") => r = q
    /\ \A r \in Requests :
          /\ At(r, "accept", "commit") => status = "confirmed"
          /\ At(r, "food_out", "commit") => status = "kitchen_started"
          /\ At(r, "ack", "commit") => ack = NONE

TicketInv == TypeOK /\ LocksHold /\ TrailExact /\ RepliesAreTrue

\* The ticket behaves as PassGate promises.
Pass == INSTANCE PassGate WITH stage <- status, allergy <- Flagged,
                               seen <- ack # NONE
PassSpec == Pass!Spec

=============================================================================
