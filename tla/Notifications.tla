---------------------------- MODULE Notifications ----------------------------
(***************************************************************************)
(* The notifications of one visit: NotificationSubscriber, which turns     *)
(* domain events into jobs, and NotificationService.claimThenSend, which   *)
(* inserts a NotificationLog row, sends, and marks the row.                *)
(*                                                                         *)
(* A job is one execution of an event handler.  Its database steps are     *)
(* transactions of their own; each may fail, and the process may die       *)
(* between any two.  A log row is unique per visit and type.               *)
(***************************************************************************)
EXTENDS Naturals

CONSTANTS
    Jobs,        \* handler executions in progress at the same time
    MaxSends     \* bound: messages of one type, far beyond what is promised

ASSUME NotificationAssumption == MaxSends \in Nat \ {0, 1}

VARIABLES
    log,         \* NotificationLog.status of each type; "none": no row
    sends,       \* messages handed to the provider or to the live screens
    job,         \* the handlers being executed
    faulted      \* history: a transaction has failed or the process has died

notificationVars == <<log, sends, job, faulted>>

-----------------------------------------------------------------------------

Sms   == "booking_confirmation"
Alert == "new_inbound_alert"
Drift == "eta_drift_alert"
Types == {Sms, Alert, Drift}

LogStatus == {"none", "pending", "sent", "failed"}

IdleJob == [type |-> Drift, pc |-> "idle"]

Job == [type : Types, pc : {"idle", "look", "claim", "send", "mark", "fail"}]

At(j, pc) == job[j].pc = pc

MoveOn(j, pc) == job' = [job EXCEPT ![j].pc = pc]

\* Mutant: one try block around both notifications of a confirmed visit.
FinishAll(j) == job' = [job EXCEPT ![j] = IdleJob]

\* What run() does when the work is over or has thrown: a confirmed visit's
\* handler goes on from the guest's message to the restaurant's alert.
Finish(j) ==
    job' = [job EXCEPT ![j] =
              IF job[j].type = Sms THEN [type |-> Alert, pc |-> "claim"] ELSE IdleJob]

-----------------------------------------------------------------------------
(* Events                                                                   *)

\* VISIT_CONFIRMED, delivered any number of times.
HearConfirmed(j) ==
    /\ At(j, "idle")
    /\ job' = [job EXCEPT ![j] = [type |-> Sms, pc |-> "look"]]
    /\ UNCHANGED <<log, sends, faulted>>

\* VISIT_TIMING_RECOMPUTED that calls for an alert.
HearDrift(j) ==
    /\ At(j, "idle")
    /\ job' = [job EXCEPT ![j] = [type |-> Drift, pc |-> "claim"]]
    /\ UNCHANGED <<log, sends, faulted>>

-----------------------------------------------------------------------------
(* The steps of a job                                                       *)

\* sendBookingConfirmation reads the visit; a booked one has all it needs.
LookUp(j) ==
    /\ At(j, "look")
    /\ MoveOn(j, "claim")
    /\ UNCHANGED <<log, sends, faulted>>

\* Mutant: an existing row does not stop the sender (an upsert).
ClaimUpsert(j) ==
    /\ At(j, "claim")
    /\ log' = [log EXCEPT ![job[j].type] = "pending"]
    /\ MoveOn(j, "send")
    /\ UNCHANGED <<sends, faulted>>

\* The INSERT, and its unique violation.
Claim(j) ==
    /\ At(j, "claim")
    /\ IF log[job[j].type] = "none"
         THEN log' = [log EXCEPT ![job[j].type] = "pending"] /\ MoveOn(j, "send")
         ELSE Finish(j) /\ UNCHANGED log
    /\ UNCHANGED <<sends, faulted>>

\* The provider, or the live screens, take the message.
Deliver(j) ==
    /\ At(j, "send")
    /\ sends[job[j].type] < MaxSends
    /\ sends' = [sends EXCEPT ![job[j].type] = @ + 1]
    /\ MoveOn(j, "mark")
    /\ UNCHANGED <<log, faulted>>

\* Mutant: the row is marked when the provider is called, not when it answers.
SmsThrowsMarked(j) ==
    /\ At(j, "send")
    /\ job[j].type = Sms
    /\ log' = [log EXCEPT ![Sms] = "sent"]
    /\ Finish(j)
    /\ UNCHANGED <<sends, faulted>>

\* send throws.  The provider may have taken the message all the same.
SmsThrows(j) ==
    /\ At(j, "send")
    /\ job[j].type = Sms
    /\ sends[Sms] < MaxSends
    /\ \E taken \in {0, 1} : sends' = [sends EXCEPT ![Sms] = @ + taken]
    /\ MoveOn(j, "fail")
    /\ UNCHANGED <<log, faulted>>

Mark(j) ==
    /\ At(j, "mark")
    /\ log' = [log EXCEPT ![job[j].type] = "sent"]
    /\ Finish(j)
    /\ UNCHANGED <<sends, faulted>>

\* Mutant: the catch block logs and leaves the row pending.
LeavePending(j) ==
    /\ At(j, "fail")
    /\ Finish(j)
    /\ UNCHANGED <<log, sends, faulted>>

MarkFailed(j) ==
    /\ At(j, "fail")
    /\ log' = [log EXCEPT ![job[j].type] = "failed"]
    /\ Finish(j)
    /\ UNCHANGED <<sends, faulted>>

-----------------------------------------------------------------------------
(* Faults                                                                   *)

\* A transaction of the job fails: the look-up, the claim or the marking as
\* failed end this notification; the marking as sent is caught.
DatabaseFails(j) ==
    /\ \/ At(j, "look") /\ Finish(j)
       \/ At(j, "claim") /\ Finish(j)
       \/ At(j, "mark") /\ MoveOn(j, "fail")
       \/ At(j, "fail") /\ Finish(j)
    /\ faulted' = TRUE
    /\ UNCHANGED <<log, sends>>

\* The process dies: every job is gone, nothing restarts it.
Crash ==
    /\ job' = [j \in Jobs |-> IdleJob]
    /\ faulted' = TRUE
    /\ UNCHANGED <<log, sends>>

-----------------------------------------------------------------------------

NotificationInit ==
    /\ log = [t \in Types |-> "none"]
    /\ sends = [t \in Types |-> 0]
    /\ job = [j \in Jobs |-> IdleJob]
    /\ faulted = FALSE

Work(j) ==
    \/ LookUp(j) \/ Claim(j) \/ Deliver(j) \/ SmsThrows(j)
    \/ Mark(j) \/ MarkFailed(j)

NotificationNext ==
    \/ \E j \in Jobs : HearConfirmed(j) \/ HearDrift(j) \/ Work(j) \/ DatabaseFails(j)
    \/ Crash

NotificationSpec == NotificationInit /\ [][NotificationNext]_notificationVars

\* A handler that has started is carried on by the event loop.
FairNotificationSpec ==
    NotificationSpec /\ \A j \in Jobs : WF_notificationVars(Work(j))

-----------------------------------------------------------------------------
(* Properties                                                               *)

\* Every variable stays within its type.
NotificationTypeOK ==
    /\ log \in [Types -> LogStatus]
    /\ sends \in [Types -> 0 .. MaxSends]
    /\ job \in [Jobs -> Job]
    /\ faulted \in BOOLEAN

\* A guest gets at most one confirmation, a restaurant at most one alert of each
\* kind, however often an event is delivered and whatever fails.
AtMostOnce == \A t \in Types : sends[t] <= 1

\* What the log says has been sent has been sent, and nothing is sent that the
\* log knows nothing of.
LogIsHonest ==
    \A t \in Types :
        /\ log[t] = "sent" => sends[t] = 1
        /\ sends[t] > 0 => log[t] # "none"

\* A send that throws marks the row failed rather than leaving it pending for
\* ever, as long as the process and the database live.
ClaimsSettle ==
    \A t \in Types : log[t] = "pending" ~> log[t] \in {"sent", "failed"} \/ faulted

\* The guest's message, even one that fails, never keeps the restaurant from
\* hearing of the booking.
RestaurantHears ==
    \A j \in Jobs : job[j].type = Sms /\ At(j, "look") ~> sends[Alert] > 0 \/ faulted

\* What makes AtMostOnce inductive: a type has one job past its claim, and it has
\* sent nothing before it sends.
Owns(j, t) == job[j].type = t /\ job[j].pc \in {"send", "mark", "fail"}

OneOwner ==
    \A t \in Types :
        /\ \A j \in Jobs : Owns(j, t) => log[t] = "pending"
        /\ \A j, k \in Jobs : Owns(j, t) /\ Owns(k, t) => j = k
        /\ \A j \in Jobs : Owns(j, t) /\ At(j, "send") => sends[t] = 0
        /\ \A j \in Jobs : Owns(j, t) /\ At(j, "mark") => sends[t] = 1
        /\ log[t] = "none" => sends[t] = 0

OnceInv == NotificationTypeOK /\ OneOwner /\ AtMostOnce

=============================================================================
