----------------------------- MODULE DriftAlerts -----------------------------
(***************************************************************************)
(* Timing and Notifications together: the recompute of a visit announces   *)
(* its new targets, and an ETA change that moves the kitchen start far     *)
(* enough alerts the restaurant.  EventEmitter2 calls the handlers inside  *)
(* the emit, so a handler starts in the step that writes the targets, and  *)
(* its transactions run beside the one that is still open.                 *)
(***************************************************************************)
EXTENDS Timing, Notifications

CONSTANT Threshold   \* getEtaDriftAlertThresholdMinutes

ASSUME DriftAssumption == Threshold \in Nat \ {0}

VARIABLE drifted     \* history: whether a significant ETA change has been written,
                     \* or committed

driftVars == <<vars, notificationVars, drifted>>

-----------------------------------------------------------------------------

Distance(a, b) == IF a < b THEN b - a ELSE a - b

IsSignificantDrift(from, to) == Distance(from.start, to.start) >= Threshold

\* Mutant: every recompute that moves the targets may alert.
CallsForAlertAlways(r) ==
    req[r].prev # NONE /\ IsSignificantDrift(req[r].prev, req[r].new)

\* Mutant: only a guest who comes later counts.
CallsForAlertWhenLate(r) ==
    /\ req[r].op = "eta_changed"
    /\ req[r].prev # NONE
    /\ req[r].new.start - req[r].prev.start >= Threshold

\* What onTimingRecomputed and isSignificantDrift let through.
CallsForAlert(r) ==
    /\ req[r].op = "eta_changed"
    /\ req[r].prev # NONE
    /\ IsSignificantDrift(req[r].prev, req[r].new)

\* What r is about to do to the targets in force, whatever it has read.
MovesTargets(r) ==
    /\ req[r].op = "eta_changed"
    /\ NONE \notin {targets, req[r].new}
    /\ IsSignificantDrift(targets, req[r].new)

\* The update of the targets and the emit.
Announce(r) ==
    /\ WriteTargets(r)
    /\ IF CallsForAlert(r) THEN \E j \in Jobs : HearDrift(j)
                           ELSE UNCHANGED notificationVars
    /\ drifted' = IF MovesTargets(r) /\ drifted = "no" THEN "written" ELSE drifted

CommitDrift(r) ==
    /\ Commit(r)
    /\ drifted' = IF MovesTargets(r) THEN "committed" ELSE drifted
    /\ UNCHANGED notificationVars

\* The steps of a call that nobody hears of, a rollback after the emit included.
Silent(r) ==
    /\ Begin(r) \/ WriteRefused(r) \/ EtaClaim(r) \/ EtaRead(r) \/ EndRequest(r)
    /\ UNCHANGED <<notificationVars, drifted>>

Handle ==
    /\ \E j \in Jobs : Work(j) \/ DatabaseFails(j)
    /\ UNCHANGED <<vars, drifted>>

-----------------------------------------------------------------------------

DriftInit == Init /\ NotificationInit /\ drifted = "no"

DriftNext ==
    \/ \E r \in Requests : Announce(r) \/ CommitDrift(r) \/ Silent(r)
    \/ Others /\ UNCHANGED <<notificationVars, drifted>>
    \/ Handle

DriftSpec == DriftInit /\ [][DriftNext]_driftVars

-----------------------------------------------------------------------------
(* Properties                                                               *)

\* The restaurant is alerted of an ETA change that moves the kitchen start in
\* force by the threshold, and of nothing else: not of its own changes to the
\* order, nor of the first computation.  The alert goes out before the commit, so
\* the change may still be undone.
NoFalseAlarm == sends[Drift] > 0 => drifted # "no"

\* When every handler has come to its end, a significant ETA change that has been
\* committed has been brought to the restaurant's notice, unless a handler's
\* transaction failed.
DriftIsNoticed ==
    drifted = "committed" /\ (\A j \in Jobs : At(j, "idle")) =>
        sends[Drift] > 0 \/ faulted

=============================================================================
