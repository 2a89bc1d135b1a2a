-------------------------------- MODULE Timing --------------------------------
(***************************************************************************)
(* TimingService on one confirmed visit: recompute, recomputeForEtaChange  *)
(* and acceptKitchenStart, with computeTimingTargets, and the writers of   *)
(* the same row that take no notice of it (conversation tools, a table     *)
(* reassignment).                                                          *)
(*                                                                         *)
(* A step is one statement, at Read Committed: what a transaction wrote is *)
(* invisible to the others until its commit, and the row it updated stays  *)
(* locked until then.  A transaction with one write is a single step.      *)
(* Instants are whole minutes; Visit.updatedAt is a reading of a clock of  *)
(* its own, in milliseconds.                                               *)
(***************************************************************************)
EXTENDS Integers

CONSTANTS
    Requests,     \* calls of the service in flight at the same time
    Dishes,       \* dishes the visit may order
    Prep,         \* MenuItem.prepTimeMinutes of each dish
    LongestPrep,  \* bound on Prep
    PrepBuffer,   \* settings.avgPrepBufferMinutes
    ExpoBuffer,   \* settings.expoBufferMinutes
    Etas,         \* arrival times a guest may name
    MaxClock,     \* bound: milliseconds that pass
    NONE,         \* SQL NULL
    FreshStamps   \* TRUE: two updates of the row never carry the same updatedAt.
                  \* With a clock of milliseconds nothing ensures it.

ASSUME TimingAssumption ==
    /\ LongestPrep \in Nat
    /\ Prep \in [Dishes -> 1 .. LongestPrep]
    /\ PrepBuffer \in Nat /\ ExpoBuffer \in Nat
    /\ Etas \subseteq Int
    /\ MaxClock \in Nat
    /\ FreshStamps \in BOOLEAN

VARIABLES
    status,       \* Visit.status
    eta,          \* Visit.arrivalEta
    dishes,       \* the dishes of the VisitItem rows
    configured,   \* the restaurant's settings hold both buffers
    targets,      \* kitchenStartTarget and foodOutTarget, or NONE
    stamp,        \* Visit.updatedAt
    now,          \* the clock updatedAt is read from
    req           \* the calls being served

vars == <<status, eta, dishes, configured, targets, stamp, now, req>>

-----------------------------------------------------------------------------
(* computeTimingTargets: the longest dish sets the pace.                    *)

Slowest(D) ==
    CHOOSE m \in {Prep[d] : d \in D} : \A d \in D : Prep[d] <= m

ComputeTimingTargets(arrival, D) ==
    LET start == arrival - (Slowest(D) + PrepBuffer)
    IN [start |-> start, out |-> start + (Slowest(D) + ExpoBuffer)]

Targets == [start : Int, out : Int]

-----------------------------------------------------------------------------

Replies == {"applied", "visit_not_confirmed", "visit_not_ready", "stale_update"}

IdleRequest == [op |-> "none", pc |-> "idle", eta |-> NONE, token |-> NONE,
                new |-> NONE, prev |-> NONE, reply |-> NONE]

\* new: the targets computed; prev: the targets they replace.
Recompute == [op    : {"initial", "items_changed"},
              pc    : {"write", "commit", "done"},
              eta   : {NONE}, token : {NONE},
              new   : Targets \cup {NONE}, prev : Targets \cup {NONE},
              reply : Replies \cup {NONE}]

\* eta: the new arrival time; token: expectedUpdatedAt.
EtaChange == [op    : {"eta_changed"},
              pc    : {"claim", "read", "write", "commit", "done"},
              eta   : Etas, token : Nat,
              new   : Targets \cup {NONE}, prev : Targets \cup {NONE},
              reply : Replies \cup {NONE}]

Request == {IdleRequest} \cup Recompute \cup EtaChange

ASSUME NoneAssumption == NONE \notin Int \cup Targets \cup Replies

\* r is a transaction that has updated the row and not committed.
HoldsRow(r) ==
    \/ req[r].pc = "commit"
    \/ req[r].op = "eta_changed" /\ req[r].pc \in {"read", "write"}

RowFree == \A r \in Requests : ~HoldsRow(r)

Advance(r, pc) == req' = [req EXCEPT ![r].pc = pc]

Reply(r, answer) == req' = [req EXCEPT ![r].pc = "done", ![r].reply = answer]

\* @updatedAt: every update of the row takes a reading of the clock.
Stamped ==
    /\ FreshStamps => now # stamp
    /\ stamp' = now

\* What recomputeTargets finds wanting in the row it read, if anything.
Obstacle(st) ==
    IF st # "confirmed"                  THEN "visit_not_confirmed"
    ELSE IF dishes = {} \/ ~configured   THEN "visit_not_ready"
    ELSE NONE

-----------------------------------------------------------------------------
(* recompute: read and compute, then a conditional update.                  *)

RecomputeRead(r, reason) ==
    LET obstacle == Obstacle(status) IN
    /\ req[r].pc = "idle"
    /\ req' = [req EXCEPT ![r] =
                 [IdleRequest EXCEPT
                    !.op    = reason,
                    !.pc    = IF obstacle = NONE THEN "write" ELSE "done",
                    !.new   = IF obstacle = NONE
                                THEN ComputeTimingTargets(eta, dishes) ELSE NONE,
                    !.prev  = targets,
                    !.reply = obstacle]]
    /\ UNCHANGED <<status, eta, dishes, configured, targets, stamp, now>>

\* Mutant: the targets are written by id alone.
RetargetableById == TRUE

\* WHERE status = 'confirmed'
Retargetable == status = "confirmed"

\* The update of both targets; VISIT_TIMING_RECOMPUTED is emitted here, before
\* the commit.  After an ETA claim the row is the transaction's own already.
WriteTargets(r) ==
    /\ req[r].pc = "write"
    /\ Retargetable
    /\ RowFree \/ HoldsRow(r)
    /\ Advance(r, "commit")
    /\ UNCHANGED <<status, eta, dishes, configured, targets, stamp, now>>

WriteRefused(r) ==
    /\ req[r].pc = "write"
    /\ ~Retargetable
    /\ RowFree
    /\ Reply(r, "visit_not_confirmed")
    /\ UNCHANGED <<status, eta, dishes, configured, targets, stamp, now>>

-----------------------------------------------------------------------------
(* recomputeForEtaChange                                                    *)

\* The caller has looked at the visit and learnt its updatedAt.
EtaArrive(r, e) ==
    /\ req[r].pc = "idle"
    /\ req' = [req EXCEPT ![r] = [IdleRequest EXCEPT !.op = "eta_changed",
                                    !.pc = "claim", !.eta = e, !.token = stamp]]
    /\ UNCHANGED <<status, eta, dishes, configured, targets, stamp, now>>

\* Mutant: the claim forgets the token.
EtaClaimableAnytime(r) == status = "confirmed"

\* WHERE status = 'confirmed' AND updatedAt = expectedUpdatedAt
EtaClaimable(r) == status = "confirmed" /\ stamp = req[r].token

EtaClaim(r) ==
    /\ req[r].pc = "claim"
    /\ RowFree
    /\ IF EtaClaimable(r) THEN Advance(r, "read")
       ELSE Reply(r, IF status # "confirmed" THEN "visit_not_confirmed"
                                             ELSE "stale_update")
    /\ UNCHANGED <<status, eta, dishes, configured, targets, stamp, now>>

\* Mutant: the targets are computed outside the claiming transaction.
EtaReadOutside(r) ==
    /\ req[r].pc = "read"
    /\ IF Obstacle("confirmed") = NONE
         THEN req' = [req EXCEPT ![r].pc = "write", ![r].prev = targets,
                                 ![r].new = ComputeTimingTargets(eta, dishes)]
         ELSE Advance(r, "commit")
    /\ UNCHANGED <<status, eta, dishes, configured, targets, stamp, now>>

\* recomputeTargets in the claiming transaction reads its own arrival time.  An
\* order without dishes does not undo the claim.
EtaRead(r) ==
    /\ req[r].pc = "read"
    /\ IF Obstacle(status) = NONE
         THEN req' = [req EXCEPT
                        ![r].pc = "write", ![r].prev = targets,
                        ![r].new = ComputeTimingTargets(req[r].eta, dishes)]
         ELSE Advance(r, "commit")
    /\ UNCHANGED <<status, eta, dishes, configured, targets, stamp, now>>

\* Commit of either operation.
Commit(r) ==
    /\ req[r].pc = "commit"
    /\ eta' = IF req[r].op = "eta_changed" THEN req[r].eta ELSE eta
    /\ targets' = IF req[r].new = NONE THEN targets ELSE req[r].new
    /\ Stamped
    /\ Reply(r, IF req[r].new = NONE THEN "visit_not_ready" ELSE "applied")
    /\ UNCHANGED <<status, dishes, configured, now>>

-----------------------------------------------------------------------------
(* The other writers                                                        *)

\* acceptKitchenStart: one conditional update with its audit row.
AcceptKitchenStart ==
    /\ RowFree
    /\ status = "confirmed"
    /\ status' = "kitchen_started"
    /\ Stamped
    /\ UNCHANGED <<eta, dishes, configured, targets, now, req>>

\* Any other update of the row by id: set_party_details may change the arrival
\* time; propose_table and a reassignment leave it alone.
OtherWrite(e) ==
    /\ RowFree
    /\ eta' = e
    /\ Stamped
    /\ UNCHANGED <<status, dishes, configured, targets, now, req>>

\* The order tools write VisitItem rows, not this one.
EditOrder(D) ==
    /\ dishes' = D
    /\ UNCHANGED <<status, eta, configured, targets, stamp, now, req>>

Tick ==
    /\ now < MaxClock
    /\ now' = now + 1
    /\ UNCHANGED <<status, eta, dishes, configured, targets, stamp, req>>

\* The answer is sent, or the transaction rolls back: crash, lost connection,
\* transaction timeout.
EndRequest(r) ==
    /\ req[r].pc # "idle"
    /\ req' = [req EXCEPT ![r] = IdleRequest]
    /\ UNCHANGED <<status, eta, dishes, configured, targets, stamp, now>>

-----------------------------------------------------------------------------

Init ==
    /\ status = "confirmed"
    /\ eta \in Etas
    /\ dishes \in SUBSET Dishes
    /\ configured \in BOOLEAN
    /\ targets = NONE
    /\ stamp = 0
    /\ now = 0
    /\ req = [r \in Requests |-> IdleRequest]

Begin(r) ==
    \/ \E reason \in {"initial", "items_changed"} : RecomputeRead(r, reason)
    \/ \E e \in Etas : EtaArrive(r, e)

Continue(r) ==
    WriteRefused(r) \/ EtaClaim(r) \/ EtaRead(r) \/ Commit(r) \/ EndRequest(r)

Others ==
    \/ AcceptKitchenStart
    \/ \E e \in Etas : OtherWrite(e)
    \/ \E D \in SUBSET Dishes : EditOrder(D)
    \/ Tick

Next ==
    \/ \E r \in Requests : Begin(r) \/ Continue(r) \/ WriteTargets(r)
    \/ Others

Spec == Init /\ [][Next]_vars

-----------------------------------------------------------------------------
(* Properties                                                               *)

\* Every variable stays within its type.
TypeOK ==
    /\ status \in {"confirmed", "kitchen_started"}
    /\ eta \in Etas
    /\ dishes \in SUBSET Dishes
    /\ configured \in BOOLEAN
    /\ targets \in Targets \cup {NONE}
    /\ stamp \in Nat /\ now \in Nat
    /\ req \in [Requests -> Request]

\* You cannot un-cook food: once the kitchen has started, no recompute that read
\* the row before changes the targets.
StartedIsHistory == [][status = "kitchen_started" => targets' = targets]_vars

\* r answers "applied" in this step.
Applies(r) == req[r].reply # "applied" /\ req'[r].reply = "applied"

\* The targets in force are those of the arrival time in force.
TargetsFitEta ==
    \E D \in (SUBSET Dishes) \ {{}} : targets = ComputeTimingTargets(eta, D)

\* An ETA change that is applied is applied whole: its own arrival time and
\* targets computed from it, whatever else was writing the row meanwhile.
EtaChangeIsWhole ==
    [][\A r \in Requests :
          Applies(r) /\ req[r].op = "eta_changed" =>
              eta' = req[r].eta /\ TargetsFitEta']_vars

\* Of two ETA changes made against the same reading of the row, one wins.
OneWinnerPerReading ==
    \A r, q \in Requests :
        /\ req[r].op = "eta_changed" /\ req[r].reply = "applied"
        /\ req[q].op = "eta_changed" /\ req[q].reply = "applied"
        /\ req[r].token = req[q].token
        => r = q

-----------------------------------------------------------------------------
(* Inductive strengthenings                                                  *)

\* The row of an open update is still confirmed, and only one update is open.
RowInv ==
    /\ TypeOK
    /\ \A r \in Requests : HoldsRow(r) => status = "confirmed"
    /\ \A r, q \in Requests : HoldsRow(r) /\ HoldsRow(q) => r = q

\* The targets an ETA change is about to write are those of its own arrival time.
OwnTargets ==
    \A r \in Requests :
        req[r].op = "eta_changed" /\ req[r].new # NONE =>
            \E D \in (SUBSET Dishes) \ {{}} :
                req[r].new = ComputeTimingTargets(req[r].eta, D)

WholeInv == TypeOK /\ OwnTargets

\* While stamps are fresh the row's only grow: a reading is current until its ETA
\* change commits and outdated from then on.
StampInv ==
    /\ RowInv
    /\ stamp <= now
    /\ \A r \in Requests :
          req[r].op = "eta_changed" =>
              /\ req[r].token <= stamp
              /\ HoldsRow(r) => req[r].token = stamp
              /\ req[r].reply = "applied" => req[r].token < stamp
    /\ OneWinnerPerReading

=============================================================================
