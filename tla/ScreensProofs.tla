---------------------------- MODULE ScreensProofs ----------------------------
(***************************************************************************)
(* What a live screen never does, for any number of refetches in flight,   *)
(* of changes and of faults: show the kitchen work ahead of its time, read *)
(* a booking out twice while answers come in order, or rest on a picture   *)
(* that is not the database's.                                             *)
(*                                                                         *)
(* PaintInv holds the types, OrderInv in which order answers were read,    *)
(* TrueInv what the events on the wire and the refetches in flight will    *)
(* still make of a list that is not yet right.                             *)
(***************************************************************************)
EXTENDS Screens, SequenceTheorems, TLAPS

-----------------------------------------------------------------------------
(* Types                                                                    *)

FetchState ==
    {IdleFetch, [stage |-> "asked"]}
      \cup [stage : {"read"}, view : Visit \cup {NONE}, late : BOOLEAN, early : BOOLEAN,
            older : SUBSET Fetches]

TxState ==
    {NoTx} \cup [stage : {"open", "announce"}, new : Visit, event : Event,
                 early : BOOLEAN, here : BOOLEAN]

IsRead(f) == fetch[f].stage = "read"

\* Nothing a kitchen screen shows or is about to show is ahead of its time.
OnTime(v) == kind = "kitchen" /\ v # NONE => v.target # NONE /\ v.target <= now

PaintInv ==
    /\ ScreensInv
    /\ tx \in TxState
    /\ fetch \in [Fetches -> FetchState]
    /\ \A f \in Fetches : IsRead(f) => OnTime(fetch[f].view)

-----------------------------------------------------------------------------
(* Refetches                                                                *)

\* But for those that are read in this step, refetches at most lose what they were
\* to show, and remember whom they have overtaken.
Kept ==
    \A f \in Fetches : IsRead(f)' =>
        /\ IsRead(f)
        /\ fetch'[f].view = fetch[f].view
        /\ fetch[f].late => fetch'[f].late
        /\ fetch[f].early => fetch'[f].early
        /\ \A g \in Fetches : g \in fetch[f].older /\ IsRead(g)' => g \in fetch'[f].older

LEMMA AskKeeps ==
  ASSUME PaintInv, Ask
  PROVE  fetch' \in [Fetches -> FetchState] /\ Kept
<1> DEFINE a == CHOOSE f \in IdleFetches : TRUE
<1>1. a \in IdleFetches /\ fetch' = [fetch EXCEPT ![a] = [stage |-> "asked"]]
  BY DEF Ask
<1>2. a \in Fetches /\ fetch \in [Fetches -> FetchState]
  BY <1>1 DEF IdleFetches, PaintInv
<1> HIDE DEF a
<1>3. [stage |-> "asked"] \in FetchState
  BY DEF FetchState
<1>4. fetch' \in [Fetches -> FetchState]
  BY <1>1, <1>2, <1>3
<1>5. \A f \in Fetches : IsRead(f)' => fetch'[f] = fetch[f]
  BY <1>1, <1>2 DEF IsRead
<1> QED BY <1>4, <1>5 DEF Kept, IsRead

LEMMA OvertakenKeeps ==
  ASSUME PaintInv, fetch' = Overtaken(fetch)
  PROVE  /\ fetch' \in [Fetches -> FetchState] /\ Kept
         /\ \A f \in Fetches : fetch'[f].stage = fetch[f].stage
         /\ \A f \in Fetches : IsRead(f)' => fetch'[f].late
<1>1. fetch \in [Fetches -> FetchState]
  BY DEF PaintInv
<1>2. ASSUME NEW f \in Fetches
      PROVE  /\ fetch'[f] \in FetchState
             /\ IsRead(f)' => /\ IsRead(f) /\ fetch'[f].view = fetch[f].view
                              /\ fetch'[f].late /\ fetch'[f].older = fetch[f].older
                              /\ fetch[f].early => fetch'[f].early
             /\ fetch'[f].stage = fetch[f].stage
  <2>1. CASE IsRead(f)
    <3>1. fetch'[f] = [fetch[f] EXCEPT !.late = TRUE]
      BY <1>1, <2>1 DEF Overtaken, IsRead
    <3>2. fetch[f] \in [stage : {"read"}, view : Visit \cup {NONE}, late : BOOLEAN,
                        early : BOOLEAN, older : SUBSET Fetches]
      BY <1>1, <2>1 DEF FetchState, IsRead, IdleFetch
    <3> QED BY <2>1, <3>1, <3>2 DEF FetchState, IsRead
  <2>2. CASE ~IsRead(f)
    BY <1>1, <2>2 DEF Overtaken, IsRead
  <2> QED BY <2>1, <2>2
<1>3. fetch' = [f \in Fetches |-> fetch'[f]]
  BY <1>1 DEF Overtaken
<1>4. fetch' \in [Fetches -> FetchState]
  BY <1>2, <1>3
<1>5. /\ \A f \in Fetches : fetch'[f].stage = fetch[f].stage
      /\ \A f \in Fetches : IsRead(f)' => fetch'[f].late
  BY <1>2
<1> QED BY <1>2, <1>4, <1>5 DEF Kept

\* What becomes of refetch g when refetch f ends.
Ended(f, g) ==
    IF g = f THEN fetch'[g] = IdleFetch
    ELSE IF ~IsRead(g) THEN fetch'[g] = fetch[g]
    ELSE \E late \in BOOLEAN :
            fetch'[g] = [fetch[g] EXCEPT !.older = @ \ {f}, !.late = @ \/ late]

LEMMA EndKeeps ==
  ASSUME PaintInv, NEW f \in Fetches,
         fetch' = [g \in Fetches |-> fetch'[g]],
         \A g \in Fetches : Ended(f, g)
  PROVE  /\ fetch' \in [Fetches -> FetchState] /\ Kept /\ ~IsRead(f)'
         /\ \A g \in Fetches \ {f} : fetch'[g].stage = fetch[g].stage
<1>1. fetch \in [Fetches -> FetchState]
  BY DEF PaintInv
<1>2. ASSUME NEW g \in Fetches, g # f, IsRead(g)
      PROVE  /\ fetch'[g] \in FetchState
             /\ fetch'[g].view = fetch[g].view
             /\ fetch[g].late => fetch'[g].late
             /\ fetch[g].early => fetch'[g].early
             /\ fetch'[g].older = fetch[g].older \ {f}
             /\ IsRead(g)'
  <2>1. PICK late \in BOOLEAN :
           fetch'[g] = [fetch[g] EXCEPT !.older = @ \ {f}, !.late = @ \/ late]
    BY <1>2 DEF Ended
  <2>2. fetch[g] \in [stage : {"read"}, view : Visit \cup {NONE}, late : BOOLEAN,
                      early : BOOLEAN, older : SUBSET Fetches]
    BY <1>1, <1>2 DEF FetchState, IsRead, IdleFetch
  <2>3. fetch'[g] = [stage |-> "read", view |-> fetch[g].view,
                     late |-> (fetch[g].late \/ late), early |-> fetch[g].early,
                     older |-> fetch[g].older \ {f}]
    BY <2>1, <2>2
  <2> QED BY <2>2, <2>3 DEF FetchState, IsRead
<1>3. ASSUME NEW g \in Fetches, g # f, ~IsRead(g)
      PROVE  fetch'[g] \in FetchState /\ ~IsRead(g)' /\ fetch'[g] = fetch[g]
  BY <1>1, <1>3 DEF IsRead, Ended
<1>4. fetch'[f] = IdleFetch /\ IdleFetch \in FetchState /\ ~IsRead(f)'
  <2>1. fetch'[f] = IdleFetch
    BY DEF Ended
  <2> QED BY <2>1 DEF FetchState, IsRead, IdleFetch
<1>5. fetch' \in [Fetches -> FetchState]
  <2>1. \A g \in Fetches : fetch'[g] \in FetchState
    BY <1>2, <1>3, <1>4
  <2> QED BY <2>1
<1>6. Kept
  <2> SUFFICES ASSUME NEW g \in Fetches, IsRead(g)'
               PROVE  /\ IsRead(g)
                      /\ fetch'[g].view = fetch[g].view
                      /\ fetch[g].late => fetch'[g].late
                      /\ fetch[g].early => fetch'[g].early
                      /\ \A h \in Fetches : h \in fetch[g].older /\ IsRead(h)' => h \in fetch'[g].older
    BY DEF Kept
  <2>1. g # f /\ IsRead(g)
    BY <1>3, <1>4
  <2> QED BY <1>2, <1>4, <2>1
<1>7. \A g \in Fetches \ {f} : fetch'[g].stage = fetch[g].stage
  BY <1>2, <1>3 DEF IsRead
<1> QED BY <1>4, <1>5, <1>6, <1>7

\* The answer to f makes those that were read before it late.
LEMMA AnswerKeeps ==
  ASSUME PaintInv, NEW f \in Fetches, Answer(f)
  PROVE  /\ fetch' \in [Fetches -> FetchState] /\ Kept /\ ~IsRead(f)'
         /\ \A g \in Fetches \ {f} : fetch'[g].stage = fetch[g].stage
         /\ \A g \in Fetches : IsRead(g)' /\ g \in fetch[f].older => fetch'[g].late
<1>1. fetch \in [Fetches -> FetchState] /\ IsRead(f)
  BY DEF PaintInv, Answer, IsRead
<1>2. fetch' = [g \in Fetches |->
                   IF g = f THEN IdleFetch
                   ELSE IF fetch[g].stage # "read" THEN fetch[g]
                   ELSE [fetch[g] EXCEPT !.older = @ \ {f}, !.late = @ \/ g \in fetch[f].older]]
  BY <1>1 DEF Answer
<1>3. ASSUME NEW g \in Fetches PROVE Ended(f, g)
  BY <1>2 DEF Ended, IsRead
<1>4. /\ fetch' \in [Fetches -> FetchState] /\ Kept /\ ~IsRead(f)'
      /\ \A g \in Fetches \ {f} : fetch'[g].stage = fetch[g].stage
  BY <1>2, <1>3, EndKeeps
<1>5. ASSUME NEW g \in Fetches, IsRead(g)', g \in fetch[f].older PROVE fetch'[g].late
  <2>1. g # f /\ IsRead(g)
    BY <1>4, <1>5 DEF Kept
  <2>2. fetch'[g] = [fetch[g] EXCEPT !.older = @ \ {f}, !.late = @ \/ g \in fetch[f].older]
    BY <1>2, <2>1 DEF IsRead
  <2>3. fetch[g] \in [stage : {"read"}, view : Visit \cup {NONE}, late : BOOLEAN,
                      early : BOOLEAN, older : SUBSET Fetches]
    BY <1>1, <2>1 DEF FetchState, IsRead, IdleFetch
  <2> QED BY <1>5, <2>2, <2>3
<1> QED BY <1>4, <1>5

LEMMA FailureKeeps ==
  ASSUME PaintInv, NEW f \in Fetches, FetchFails(f)
  PROVE  /\ fetch' \in [Fetches -> FetchState] /\ Kept /\ ~IsRead(f)'
         /\ \A g \in Fetches \ {f} : fetch'[g].stage = fetch[g].stage
         /\ \A g \in Fetches : IsRead(g)' /\ (fetch[f].stage = "asked" \/ g \in fetch[f].older)
                                  => fetch'[g].late
<1>1. fetch \in [Fetches -> FetchState]
  BY DEF PaintInv
<1>2. fetch' = [g \in Fetches |->
                   IF g = f THEN IdleFetch
                   ELSE IF fetch[g].stage # "read" THEN fetch[g]
                   ELSE [fetch[g] EXCEPT !.older = @ \ {f},
                           !.late = @ \/ fetch[f].stage = "asked" \/ g \in fetch[f].older]]
  BY <1>1 DEF FetchFails
<1>3. ASSUME NEW g \in Fetches PROVE Ended(f, g)
  <2> DEFINE late == fetch[f].stage = "asked" \/ g \in fetch[f].older
  <2>1. late \in BOOLEAN
    OBVIOUS
  <2>2. g # f /\ IsRead(g) => fetch'[g] = [fetch[g] EXCEPT !.older = @ \ {f}, !.late = @ \/ late]
    BY <1>2 DEF IsRead
  <2> HIDE DEF late
  <2> QED BY <1>2, <2>1, <2>2 DEF Ended, IsRead
<1>4. /\ fetch' \in [Fetches -> FetchState] /\ Kept /\ ~IsRead(f)'
      /\ \A g \in Fetches \ {f} : fetch'[g].stage = fetch[g].stage
  BY <1>2, <1>3, EndKeeps
<1>5. ASSUME NEW g \in Fetches, IsRead(g)', fetch[f].stage = "asked" \/ g \in fetch[f].older
      PROVE  fetch'[g].late
  <2> DEFINE late == fetch[f].stage = "asked" \/ g \in fetch[f].older
  <2>1. g # f /\ IsRead(g)
    BY <1>4, <1>5 DEF Kept
  <2>2. late
    BY <1>5
  <2>3. fetch'[g] = [fetch[g] EXCEPT !.older = @ \ {f}, !.late = @ \/ late]
    BY <1>2, <2>1 DEF IsRead
  <2>4. fetch[g] \in [stage : {"read"}, view : Visit \cup {NONE}, late : BOOLEAN,
                      early : BOOLEAN, older : SUBSET Fetches]
    BY <1>1, <2>1 DEF FetchState, IsRead, IdleFetch
  <2> HIDE DEF late
  <2> QED BY <2>2, <2>3, <2>4
<1> QED BY <1>4, <1>5

-----------------------------------------------------------------------------
(* The writers                                                              *)

\* What every change of the visit does: a booking does not become a draft again.
Advances(new) == row.status # "draft" => new.status # "draft"

\* What the event tells of the change of the visit from old to new.
Changes(old, new, event) ==
    /\ ~event.void
    /\ new.target = IF event.name = "recomputed" THEN event.target ELSE old.target
    /\ event.name # "reassigned" => new.table = old.table
    /\ event.name # "recomputed" => new.details = old.details
    /\ new.flagged = old.flagged
    /\ event.name = "confirmed" => old.status = "draft" /\ new.status = "confirmed"
    /\ event.name = "accepted" =>
          old.status = "confirmed" /\ new.status = "kitchen_started" /\ event.target = NONE
    /\ event.name = "food_out" => old.status = "kitchen_started" /\ new.status = "food_out"
    /\ event.name \in {"recomputed", "acked", "reassigned"} => new.status = old.status

\* The events sent when what they tell of has been committed.
Announced == {"confirmed", "reassigned"}

\* Answers that are there are overtaken, and the picture is known to be false.
Spoilt == fetch' = Overtaken(fetch) /\ blurred' = TRUE

\* Somebody has written the visit, and if the event does not tell all that a dashboard
\* shows, its picture is spoilt.
Written ==
    \E new \in Visit, event \in Event, early \in BOOLEAN, here \in BOOLEAN :
        /\ Advances(new) /\ Changes(row, new, event) /\ (early <=> event.name \notin Announced)
        /\ Begin(new, event, early, here)
        /\ \/ UNCHANGED <<fetch, blurred>> /\ (kind = "dashboard" => new.details = row.details)
           \/ Spoilt

LEMMA VisitFields ==
  Visit = [status : {"draft", "confirmed", "kitchen_started", "food_out"},
           target : Times \cup {NONE}, table : Tables, details : Details,
           flagged : BOOLEAN, acked : BOOLEAN]
<1>1. DOMAIN Statuses = {1, 2, 3, 4}
  BY DEF Statuses
<1>2. /\ Statuses[1] = "draft" /\ Statuses[2] = "confirmed"
      /\ Statuses[3] = "kitchen_started" /\ Statuses[4] = "food_out"
  BY DEF Statuses
<1>3. {Statuses[i] : i \in DOMAIN Statuses} = {"draft", "confirmed", "kitchen_started", "food_out"}
  BY <1>1, <1>2
<1> QED BY <1>3 DEF Visit

LEMMA MessageType ==
  ASSUME NEW name \in {"confirmed", "recomputed", "accepted", "acked", "food_out", "reassigned"},
         NEW t \in Times \cup {NONE}
  PROVE  /\ Message(name, t) \in Event /\ Message(name, t).name = name
         /\ Message(name, t).target = t /\ Message(name, t).void = FALSE
BY DEF Message, Event

LEMMA AcknowledgeWrites ==
  ASSUME row \in Visit, NEW here \in BOOLEAN, AcknowledgeAllergies(here)
  PROVE  Written
<1>1. [row EXCEPT !.acked = TRUE] \in Visit /\ Advances([row EXCEPT !.acked = TRUE])
  BY VisitFields DEF Advances
<1>2. Message("acked", NONE) \in Event
  BY MessageType
<1>3. Changes(row, [row EXCEPT !.acked = TRUE], Message("acked", NONE))
  <2>1. Message("acked", NONE).name = "acked" /\ Message("acked", NONE).void = FALSE
    BY MessageType
  <2> QED BY <2>1, VisitFields DEF Changes
<1>4. TRUE <=> Message("acked", NONE).name \notin Announced
  BY MessageType DEF Announced
<1>5. [row EXCEPT !.acked = TRUE].details = row.details
  BY VisitFields
<1> QED BY <1>1, <1>2, <1>3, <1>4, <1>5 DEF AcknowledgeAllergies, Written, Write

LEMMA FoodOutWrites ==
  ASSUME row \in Visit, NEW here \in BOOLEAN, MarkFoodOut(here)
  PROVE  Written
<1>1. [row EXCEPT !.status = "food_out"] \in Visit /\ Advances([row EXCEPT !.status = "food_out"])
  BY VisitFields DEF Advances
<1>2. Message("food_out", NONE) \in Event
  BY MessageType
<1>3. Changes(row, [row EXCEPT !.status = "food_out"], Message("food_out", NONE))
  BY VisitFields, MessageType DEF Changes, MarkFoodOut, Servable
<1>4. TRUE <=> Message("food_out", NONE).name \notin Announced
  BY MessageType DEF Announced
<1>5. [row EXCEPT !.status = "food_out"].details = row.details
  BY VisitFields
<1> QED BY <1>1, <1>2, <1>3, <1>4, <1>5 DEF MarkFoodOut, Written, Write

LEMMA ReassignWrites ==
  ASSUME row \in Visit, NEW t \in Tables, NEW here \in BOOLEAN, Reassign(t, here)
  PROVE  Written
<1>1. [row EXCEPT !.table = t] \in Visit /\ Advances([row EXCEPT !.table = t])
  BY VisitFields DEF Advances
<1>2. Message("reassigned", NONE) \in Event
  BY MessageType
<1>3. Changes(row, [row EXCEPT !.table = t], Message("reassigned", NONE))
  BY VisitFields, MessageType DEF Changes
<1>4. FALSE <=> Message("reassigned", NONE).name \notin Announced
  BY MessageType DEF Announced
<1>5. [row EXCEPT !.table = t].details = row.details
  BY VisitFields
<1> QED BY <1>1, <1>2, <1>3, <1>4, <1>5 DEF Reassign, Written, Write

\* Whoever changes the visit writes it; a button of the screen may also be refused.
LEMMA WritersWrite ==
  ASSUME row \in Visit,
         kind \in {"dashboard", "kitchen"},
         \/ Confirm \/ Recompute \/ EtaChange \/ AcceptKitchenStart \/ Elsewhere
         \/ PressSeen \/ PressFoodOut \/ PressMove
  PROVE  Written \/ Refused
<1>1. CASE Confirm
  <2>1. /\ [row EXCEPT !.status = "confirmed"] \in Visit
        /\ Advances([row EXCEPT !.status = "confirmed"])
    BY VisitFields DEF Advances
  <2>2. Message("confirmed", NONE) \in Event
    BY MessageType
  <2>3. Changes(row, [row EXCEPT !.status = "confirmed"], Message("confirmed", NONE))
    BY <1>1, VisitFields, MessageType DEF Changes, Confirm
  <2>4. FALSE <=> Message("confirmed", NONE).name \notin Announced
    BY MessageType DEF Announced
  <2>5. [row EXCEPT !.status = "confirmed"].details = row.details
    BY VisitFields
  <2> QED BY <1>1, <2>1, <2>2, <2>3, <2>4, <2>5 DEF Confirm, Written, Write
<1>2. CASE Recompute
  <2>1. PICK t \in Times :
           Write([row EXCEPT !.target = t], Message("recomputed", t), TRUE, FALSE)
    BY <1>2 DEF Recompute
  <2>2. [row EXCEPT !.target = t] \in Visit /\ Advances([row EXCEPT !.target = t])
    BY VisitFields DEF Advances
  <2>3. Message("recomputed", t) \in Event
    BY MessageType
  <2>4. Changes(row, [row EXCEPT !.target = t], Message("recomputed", t))
    <3>1. /\ Message("recomputed", t).name = "recomputed" /\ Message("recomputed", t).target = t
          /\ Message("recomputed", t).void = FALSE
      BY MessageType
    <3> QED BY <3>1, VisitFields DEF Changes
  <2>5. TRUE <=> Message("recomputed", t).name \notin Announced
    BY MessageType DEF Announced
  <2>6. [row EXCEPT !.target = t].details = row.details
    BY VisitFields
  <2> QED BY <2>1, <2>2, <2>3, <2>4, <2>5, <2>6 DEF Written, Write
<1>3. CASE AcceptKitchenStart
  <2>1. /\ [row EXCEPT !.status = "kitchen_started"] \in Visit
        /\ Advances([row EXCEPT !.status = "kitchen_started"])
    BY VisitFields DEF Advances
  <2>2. Message("accepted", NONE) \in Event
    BY MessageType
  <2>3. Changes(row, [row EXCEPT !.status = "kitchen_started"], Message("accepted", NONE))
    BY <1>3, VisitFields, MessageType DEF Changes, AcceptKitchenStart
  <2>4. TRUE <=> Message("accepted", NONE).name \notin Announced
    BY MessageType DEF Announced
  <2>5. [row EXCEPT !.status = "kitchen_started"].details = row.details
    BY VisitFields
  <2> QED BY <1>3, <2>1, <2>2, <2>3, <2>4, <2>5 DEF AcceptKitchenStart, Written, Write
<1>4. CASE Elsewhere
  BY <1>4, AcknowledgeWrites, FoodOutWrites, ReassignWrites DEF Elsewhere
<1>5. CASE PressSeen
  BY <1>5, AcknowledgeWrites DEF PressSeen
<1>6. CASE PressFoodOut
  BY <1>6, FoodOutWrites DEF PressFoodOut
<1>7. CASE PressMove
  BY <1>7, ReassignWrites DEF PressMove
<1>8. CASE EtaChange
  <2>1. PICK d \in Details, t \in Times :
           Begin([row EXCEPT !.details = d, !.target = t], Message("recomputed", t), TRUE, FALSE)
    BY <1>8 DEF EtaChange
  <2> DEFINE new == [row EXCEPT !.details = d, !.target = t]
  <2>2. new \in Visit /\ Advances(new)
    BY VisitFields DEF Advances
  <2>3. Message("recomputed", t) \in Event
    BY MessageType
  <2>4. Changes(row, new, Message("recomputed", t))
    <3>1. /\ Message("recomputed", t).name = "recomputed" /\ Message("recomputed", t).target = t
          /\ Message("recomputed", t).void = FALSE
      BY MessageType
    <3> QED BY <3>1, VisitFields DEF Changes
  <2>5. TRUE <=> Message("recomputed", t).name \notin Announced
    BY MessageType DEF Announced
  <2>6. \/ UNCHANGED <<fetch, blurred>> /\ (kind = "dashboard" => new.details = row.details)
        \/ Spoilt
    BY <1>8 DEF EtaChange, Spoilt
  <2>7. Begin(new, Message("recomputed", t), TRUE, FALSE)
    BY <2>1
  <2> HIDE DEF new
  <2> QED BY <2>2, <2>3, <2>4, <2>5, <2>6, <2>7 DEF Written
<1> QED BY <1>1, <1>2, <1>3, <1>4, <1>5, <1>6, <1>7, <1>8

\* A turn has written the visit in silence, and an open transaction with it.
Slipped ==
    /\ row.status # "draft"
    /\ row' \in Visit /\ row'.status = row.status /\ row'.target = row.target
    /\ \/ row'.table # row.table \/ row'.details # row.details \/ row'.flagged # row.flagged
    /\ IF tx.stage = "open"
         THEN \E new \in Visit :
                /\ tx' = [tx EXCEPT !.new = new]
                /\ new.status = tx.new.status /\ new.target = tx.new.target
                /\ Changes(row, tx.new, tx.event) => Changes(row', new, tx.event)
         ELSE tx' = tx
    /\ (UNCHANGED <<fetch, blurred>> /\ View' = View) \/ Spoilt
    /\ UNCHANGED <<kind, now, live, wire, shown, known, said, faults, outOfOrder>>

-----------------------------------------------------------------------------
(* The screen is on time                                                    *)

LEMMA ReturnKeeps ==
  ASSUME PaintInv, ActionReturns
  PROVE  fetch' \in [Fetches -> FetchState] /\ Kept
<1>1. CASE Ask
  BY <1>1, AskKeeps
<1>2. CASE UNCHANGED fetch
  BY <1>2 DEF PaintInv, Kept, IsRead
<1> QED BY <1>1, <1>2 DEF ActionReturns

\* What was on time stays so when time passes.
LEMMA KeptOnTime ==
  ASSUME PaintInv, Kept, kind' = kind, now' \in 0 .. MaxClock, now <= now'
  PROVE  \A f \in Fetches : IsRead(f)' => OnTime(fetch[f].view)'
<1> SUFFICES ASSUME NEW f \in Fetches, IsRead(f)'
             PROVE  OnTime(fetch[f].view)'
  OBVIOUS
<1>1. IsRead(f) /\ fetch'[f].view = fetch[f].view
  BY DEF Kept
<1>2. fetch[f].view \in Visit \cup {NONE} /\ OnTime(fetch[f].view)
  <2>1. fetch[f] \in [stage : {"read"}, view : Visit \cup {NONE}, late : BOOLEAN,
                      early : BOOLEAN, older : SUBSET Fetches]
    BY <1>1 DEF PaintInv, FetchState, IsRead, IdleFetch
  <2> QED BY <1>1, <2>1 DEF PaintInv
<1>3. now \in Nat /\ now' \in Nat
  BY ScreensAssumption DEF PaintInv, ScreensInv
<1>4. ASSUME NEW v \in Visit \cup {NONE}, OnTime(v), kind' = "kitchen", v # NONE
      PROVE  v.target # NONE /\ v.target <= now'
  <2>1. v.target # NONE /\ v.target <= now
    BY <1>4 DEF OnTime
  <2>2. v.target \in Times
    <3>1. v \in Visit
      BY <1>4
    <3> QED BY <2>1, <3>1, VisitFields
  <2>3. \A t \in Nat : t <= now => t <= now'
    BY <1>3
  <2>4. v.target \in Nat
    BY <2>2, ScreensAssumption
  <2> QED BY <2>1, <2>3, <2>4
<1> QED BY <1>1, <1>2, <1>4 DEF OnTime

LEMMA ViewOnTime ==
  ASSUME PaintInv
  PROVE  View \in Visit \cup {NONE} /\ OnTime(View)
<1>1. CASE kind = "dashboard"
  <2>1. row \in Visit
    BY DEF PaintInv, ScreensInv
  <2>2. [row EXCEPT !.acked = FALSE] \in Visit
    BY <2>1, VisitFields
  <2> QED BY <1>1, <2>2 DEF View, Inbound, OnTime
<1>2. CASE kind # "dashboard"
  BY <1>2 DEF View, Queue, OnTime, PaintInv, ScreensInv
<1> QED BY <1>1, <1>2

\* Steps that only concern the writers, the wire and the refetches.
LEMMA OffScreen ==
  ASSUME PaintInv,
         kind' = kind, now' = now, shown' = shown, known' = known, said' = said,
         row' \in Visit, wire' \in Seq(Event), tx' \in TxState,
         {live', blurred', outOfOrder'} \subseteq BOOLEAN,
         fetch' \in [Fetches -> FetchState], Kept
  PROVE  PaintInv'
<1>1. now' \in 0 .. MaxClock /\ now <= now'
  BY ScreensAssumption DEF PaintInv, ScreensInv
<1>2. \A f \in Fetches : IsRead(f)' => OnTime(fetch[f].view)'
  BY <1>1, KeptOnTime
<1>3. ScreensInv'
  BY <1>1 DEF PaintInv, ScreensInv
<1> QED BY <1>2, <1>3 DEF PaintInv

\* The types a step that leaves alone most of the state starts from.
LEMMA Types ==
  ASSUME PaintInv
  PROVE  /\ row \in Visit /\ wire \in Seq(Event) /\ tx \in TxState
         /\ {live, blurred, outOfOrder} \subseteq BOOLEAN
         /\ fetch \in [Fetches -> FetchState]
         /\ shown \in Visit \cup {NONE} /\ OnTime(shown)
         /\ kind \in {"dashboard", "kitchen"}
BY DEF PaintInv, ScreensInv, OnTime

LEMMA SpoiltKeeps ==
  ASSUME PaintInv, UNCHANGED <<fetch, blurred>> \/ Spoilt
  PROVE  Kept /\ fetch' \in [Fetches -> FetchState] /\ blurred' \in BOOLEAN
<1>1. CASE UNCHANGED <<fetch, blurred>>
  BY <1>1, Types DEF Kept, IsRead
<1>2. CASE Spoilt
  BY <1>2, OvertakenKeeps DEF Spoilt
<1> QED BY <1>1, <1>2

LEMMA WrittenOnTime ==
  ASSUME PaintInv, Written
  PROVE  PaintInv' /\ Kept
<1>1. PICK new \in Visit, event \in Event, early \in BOOLEAN, here \in BOOLEAN :
         Begin(new, event, early, here) /\ (UNCHANGED <<fetch, blurred>> \/ Spoilt)
  BY DEF Written
<1>2. Kept /\ fetch' \in [Fetches -> FetchState] /\ blurred' \in BOOLEAN
  BY <1>1, SpoiltKeeps
<1>3. tx' \in TxState
  <2>1. tx' = [stage |-> "open", new |-> new, event |-> event, early |-> early, here |-> here]
    BY <1>1 DEF Begin
  <2> QED BY <2>1 DEF TxState
<1>4. wire' \in Seq(Event)
  BY <1>1, Types DEF Begin, Send
<1>5. PaintInv'
  BY <1>1, <1>2, <1>3, <1>4, Types, OffScreen DEF Begin, Quiet
<1> QED BY <1>2, <1>5

\* A transaction that has written holds what it has written.
LEMMA TxFields ==
  ASSUME PaintInv, tx.stage \in {"open", "announce"}
  PROVE  tx \in [stage : {"open", "announce"}, new : Visit, event : Event,
                 early : BOOLEAN, here : BOOLEAN]
BY Types DEF TxState, NoTx

\* What a late turn does to the visit and to the transaction that is open.
LEMMA TurnSlips ==
  ASSUME PaintInv, LateTurn
  PROVE  Slipped
<1>1. row \in Visit /\ tx \in TxState /\ blurred \in BOOLEAN
  BY Types
<1>2. ASSUME NEW column \in {"table", "details", "flagged"}, NEW value, Slip(column, value),
             [row EXCEPT ![column] = value] \in Visit,
             tx.stage = "open" => [tx.new EXCEPT ![column] = value] \in Visit,
             tx.stage = "open" => column = "flagged" \/ tx.event.name = "acked"
      PROVE  Slipped
  <2>1. /\ row.status # "draft" /\ row[column] # value
        /\ row' = [row EXCEPT ![column] = value]
        /\ tx' = IF tx.stage = "open" THEN [tx EXCEPT !.new = [@ EXCEPT ![column] = value]] ELSE tx
        /\ UNCHANGED <<kind, now, live, wire, shown, known, said, faults, outOfOrder>>
    BY <1>2 DEF Slip, Quiet
  <2>2. (UNCHANGED <<fetch, blurred>> /\ View' = View) \/ Spoilt
    <3>1. fetch' = IF View' # View THEN Overtaken(fetch) ELSE fetch
      BY <1>2 DEF Slip
    <3>2. blurred' = (blurred \/ View' # View)
      BY <1>2 DEF Slip
    <3> QED BY <1>1, <3>1, <3>2 DEF Spoilt
  <2>3. /\ row' \in Visit /\ row'.status = row.status /\ row'.target = row.target
        /\ \/ row'.table # row.table \/ row'.details # row.details
           \/ row'.flagged # row.flagged
    BY <1>1, <1>2, <2>1, VisitFields
  <2>4. ASSUME tx.stage = "open"
        PROVE  \E new \in Visit :
                 /\ tx' = [tx EXCEPT !.new = new]
                 /\ new.status = tx.new.status /\ new.target = tx.new.target
                 /\ Changes(row, tx.new, tx.event) => Changes(row', new, tx.event)
    <3> DEFINE new == [tx.new EXCEPT ![column] = value]
    <3>1. tx.new \in Visit
      BY <2>4, TxFields
    <3>2. new \in Visit /\ tx' = [tx EXCEPT !.new = new]
      BY <1>1, <1>2, <2>1, <2>4
    <3>3. new.status = tx.new.status /\ new.target = tx.new.target
      BY <3>1, <1>2, VisitFields
    <3>4. ASSUME Changes(row, tx.new, tx.event) PROVE Changes(row', new, tx.event)
      <4>1. CASE column = "flagged"
        <5>1. /\ row'.flagged = value /\ row'.table = row.table /\ row'.details = row.details
              /\ new.flagged = value /\ new.table = tx.new.table /\ new.details = tx.new.details
          BY <1>1, <2>1, <3>1, <4>1, VisitFields
        <5> HIDE DEF new
        <5> QED BY <2>3, <3>3, <3>4, <5>1 DEF Changes
      <4>2. CASE column # "flagged"
        <5>1. tx.event.name = "acked"
          BY <1>2, <2>4, <4>2
        <5>2. /\ row'.flagged = row.flagged /\ new.flagged = tx.new.flagged
              /\ tx.new.table = row.table => new.table = row'.table
              /\ tx.new.details = row.details => new.details = row'.details
          BY <1>1, <1>2, <2>1, <3>1, <4>2, VisitFields
        <5> HIDE DEF new
        <5> QED BY <2>3, <3>3, <3>4, <5>1, <5>2 DEF Changes
      <4> QED BY <4>1, <4>2
    <3> HIDE DEF new
    <3> QED BY <3>2, <3>3, <3>4
  <2> QED BY <2>1, <2>2, <2>3, <2>4 DEF Slipped
<1>3. tx.stage = "open" => tx.new \in Visit
  BY TxFields
<1>4. ASSUME ~RowLocked, NEW t \in Tables, Slip("table", t) PROVE Slipped
  <2>1. [row EXCEPT !["table"] = t] \in Visit
    BY <1>1, VisitFields
  <2>2. tx.stage = "open" => [tx.new EXCEPT !["table"] = t] \in Visit
    BY <1>3, VisitFields
  <2> QED BY <1>2, <1>4, <2>1, <2>2 DEF RowLocked
<1>5. ASSUME ~RowLocked, NEW d \in Details, Slip("details", d) PROVE Slipped
  <2>1. [row EXCEPT !["details"] = d] \in Visit
    BY <1>1, VisitFields
  <2>2. tx.stage = "open" => [tx.new EXCEPT !["details"] = d] \in Visit
    BY <1>3, VisitFields
  <2> QED BY <1>2, <1>5, <2>1, <2>2 DEF RowLocked
<1>6. ASSUME NEW b \in BOOLEAN, Slip("flagged", b) PROVE Slipped
  <2>1. [row EXCEPT !["flagged"] = b] \in Visit
    BY <1>1, VisitFields
  <2>2. tx.stage = "open" => [tx.new EXCEPT !["flagged"] = b] \in Visit
    BY <1>3, VisitFields
  <2> QED BY <1>2, <1>6, <2>1, <2>2
<1> QED BY <1>4, <1>5, <1>6 DEF LateTurn

LEMMA SlippedOnTime ==
  ASSUME PaintInv, Slipped
  PROVE  PaintInv' /\ Kept
<1>1. Kept /\ fetch' \in [Fetches -> FetchState] /\ blurred' \in BOOLEAN
  BY SpoiltKeeps DEF Slipped
<1>2. tx' \in TxState
  <2>1. CASE tx.stage = "open"
    <3>1. PICK new \in Visit : tx' = [tx EXCEPT !.new = new]
      BY <2>1 DEF Slipped
    <3>2. tx \in [stage : {"open", "announce"}, new : Visit, event : Event,
                  early : BOOLEAN, here : BOOLEAN]
      BY <2>1, TxFields
    <3>3. tx' \in [stage : {"open", "announce"}, new : Visit, event : Event,
                   early : BOOLEAN, here : BOOLEAN]
      BY <3>1, <3>2
    <3> QED BY <3>3 DEF TxState
  <2>2. CASE tx.stage # "open"
    BY <2>2, Types DEF Slipped
  <2> QED BY <2>1, <2>2
<1>3. PaintInv'
  BY <1>1, <1>2, Types, OffScreen DEF Slipped
<1> QED BY <1>1, <1>3

LEMMA CommitOnTime ==
  ASSUME PaintInv, Commit
  PROVE  PaintInv' /\ Kept
<1>1. tx \in [stage : {"open", "announce"}, new : Visit, event : Event,
              early : BOOLEAN, here : BOOLEAN]
  BY TxFields DEF Commit
<1>2. fetch' \in [Fetches -> FetchState] /\ Kept
  <2>1. CASE ActionReturns
    BY <2>1, ReturnKeeps
  <2>2. CASE UNCHANGED fetch
    BY <2>2, Types DEF Kept, IsRead
  <2> QED BY <2>1, <2>2 DEF Commit
<1>3. row' \in Visit /\ tx' \in TxState
  <2>1. tx' \in {NoTx, [tx EXCEPT !.stage = "announce"]}
    BY DEF Commit
  <2> QED BY <1>1, <2>1 DEF Commit, TxState
<1>4. PaintInv'
  BY <1>2, <1>3, Types, OffScreen DEF Commit, Quiet
<1> QED BY <1>2, <1>4

LEMMA AnnounceOnTime ==
  ASSUME PaintInv, Announce
  PROVE  PaintInv' /\ Kept
<1>1. tx.event \in Event
  BY TxFields DEF Announce
<1>2. fetch' \in [Fetches -> FetchState] /\ Kept
  BY ReturnKeeps DEF Announce
<1>3. wire' \in Seq(Event) /\ tx' \in TxState
  BY <1>1, Types DEF Announce, Send, TxState
<1>4. PaintInv'
  BY <1>2, <1>3, Types, OffScreen DEF Announce, Quiet
<1> QED BY <1>2, <1>4

LEMMA OpenOnTime ==
  ASSUME PaintInv, Open
  PROVE  PaintInv' /\ Kept
<1>1. fetch' \in [Fetches -> FetchState] /\ Kept
  BY AskKeeps DEF Open
<1>2. PaintInv'
  BY <1>1, Types, OffScreen DEF Open, Quiet
<1> QED BY <1>1, <1>2

LEMMA NothingDoneOnTime ==
  ASSUME PaintInv, NothingDone
  PROVE  PaintInv' /\ Kept
<1>1. fetch' \in [Fetches -> FetchState] /\ Kept
  BY AskKeeps DEF NothingDone
<1>2. PaintInv'
  BY <1>1, Types, OffScreen DEF NothingDone, Quiet
<1> QED BY <1>1, <1>2

LEMMA RollbackOnTime ==
  ASSUME PaintInv, Rollback
  PROVE  PaintInv' /\ Kept
<1>1. fetch' \in [Fetches -> FetchState] /\ Kept
  BY ReturnKeeps DEF Rollback
<1>2. wire' \in Seq(Event)
  <2>1. wire \in Seq(Event)
    BY Types
  <2>2. CASE wire' = Voided
    <3> DEFINE void(e) == [e EXCEPT !.void = TRUE]
    <3>1. \A e \in Event : void(e) \in Event
      BY DEF Event
    <3>2. Len(wire) \in Nat /\ DOMAIN wire = 1 .. Len(wire)
      BY <2>1
    <3>3. \A i \in 1 .. Len(wire) :
             (IF wire[i] = tx.event THEN void(wire[i]) ELSE wire[i]) \in Event
      <4> HIDE DEF void
      <4> QED BY <2>1, <3>1
    <3>4. Voided \in [1 .. Len(wire) -> Event]
      BY <3>2, <3>3 DEF Voided
    <3> QED BY <2>2, <3>2, <3>4, SeqDef
  <2> QED BY <2>1, <2>2 DEF Rollback
<1>3. tx' \in TxState
  BY DEF Rollback, TxState
<1>4. blurred' \in BOOLEAN
  BY Types DEF Rollback
<1>5. PaintInv'
  BY <1>1, <1>2, <1>3, <1>4, Types, OffScreen DEF Rollback, Quiet
<1> QED BY <1>1, <1>5

LEMMA LossOnTime ==
  ASSUME PaintInv, LoseConnection
  PROVE  PaintInv' /\ Kept
<1>1. fetch' \in [Fetches -> FetchState] /\ Kept
  BY Types DEF LoseConnection, Kept, IsRead
<1>2. wire' \in Seq(Event)
  BY DEF LoseConnection
<1>3. PaintInv'
  BY <1>1, <1>2, Types, OffScreen DEF LoseConnection, Quiet
<1> QED BY <1>1, <1>3

LEMMA CrashOnTime ==
  ASSUME PaintInv, Crash
  PROVE  PaintInv' /\ Kept
<1>1. fetch' \in [Fetches -> FetchState] /\ Kept
  <2>1. CASE tx = NoTx
    BY <2>1, Types DEF Crash, Kept, IsRead
  <2>2. CASE tx # NoTx
    BY <2>2, ReturnKeeps DEF Crash
  <2> QED BY <2>1, <2>2
<1>2. wire' \in Seq(Event) /\ tx' \in TxState
  BY DEF Crash, TxState
<1>3. PaintInv'
  BY <1>1, <1>2, Types, OffScreen DEF Crash, Quiet
<1> QED BY <1>1, <1>3

LEMMA FailureOnTime ==
  ASSUME PaintInv, NEW f \in Fetches, FetchFails(f)
  PROVE  PaintInv' /\ Kept
<1>1. fetch' \in [Fetches -> FetchState] /\ Kept
  BY FailureKeeps
<1>2. PaintInv'
  BY <1>1, Types, OffScreen DEF FetchFails, Quiet
<1> QED BY <1>1, <1>2

\* An event may change the list, never that the visit is on it.
LEMMA OnMessageOnTime ==
  ASSUME PaintInv, OnMessage
  PROVE  PaintInv' /\ Kept
<1>1. wire' \in Seq(Event) /\ Head(wire) \in Event
  BY Types DEF OnMessage
<1>2. CASE NeedsRefetch(Head(wire)) /\ Ask /\ UNCHANGED <<shown, blurred>>
  <2>1. fetch' \in [Fetches -> FetchState] /\ Kept
    BY <1>2, AskKeeps
  <2>2. PaintInv'
    BY <1>1, <1>2, <2>1, Types, OffScreen DEF OnMessage, Quiet
  <2> QED BY <2>1, <2>2
<1>3. CASE ~NeedsRefetch(Head(wire))
  <2> DEFINE m == Head(wire)
  <2>1. /\ shown' = IF Patches(m) THEN Patched(m) ELSE shown
        /\ fetch' = IF Patches(m) \/ m.name = "food_out" THEN Overtaken(fetch) ELSE fetch
        /\ blurred' = (blurred \/ m.void \/ (kind = "dashboard" /\ m.name = "food_out"))
        /\ UNCHANGED <<kind, now, row, tx, live, known, said, outOfOrder>>
    BY <1>3 DEF OnMessage, Quiet
  <2>2. kind = "dashboard"
    BY <1>3 DEF NeedsRefetch, PaintInv, ScreensInv
  <2>3. fetch' \in [Fetches -> FetchState] /\ Kept
    <3>1. CASE fetch' = Overtaken(fetch)
      BY <3>1, OvertakenKeeps
    <3>2. CASE fetch' = fetch
      BY <3>2, Types DEF Kept, IsRead
    <3> QED BY <2>1, <3>1, <3>2
  <2>4. shown' \in Visit \cup {NONE}
    <3>1. CASE Patches(m)
      <4>1. shown \in Visit
        BY <3>1, Types DEF Patches
      <4>2. m.target \in Times \cup {NONE}
        BY <1>1 DEF Event
      <4>3. [shown EXCEPT !.target = m.target] \in Visit
        <5> HIDE DEF m
        <5> QED BY <4>1, <4>2, VisitFields
      <4>4. [shown EXCEPT !.status = "kitchen_started"] \in Visit
        BY <4>1, VisitFields
      <4>5. Patched(m) \in Visit
        BY <4>3, <4>4 DEF Patched
      <4> QED BY <2>1, <3>1, <4>5
    <3>2. CASE ~Patches(m)
      BY <2>1, <3>2, Types
    <3> QED BY <3>1, <3>2
  <2>5. blurred' \in BOOLEAN
    BY <2>1, <1>1 DEF Event
  <2>6. now' \in 0 .. MaxClock /\ now <= now'
    BY <2>1, ScreensAssumption DEF PaintInv, ScreensInv
  <2>7. \A f \in Fetches : IsRead(f)' => OnTime(fetch[f].view)'
    BY <2>1, <2>3, <2>6, KeptOnTime
  <2>8. ScreensInv'
    BY <1>1, <2>1, <2>2, <2>4, <2>5 DEF PaintInv, ScreensInv
  <2>9. PaintInv'
    BY <2>1, <2>3, <2>7, <2>8 DEF PaintInv
  <2> QED BY <2>3, <2>9
<1> QED BY <1>2, <1>3 DEF OnMessage

LEMMA TickOnTime ==
  ASSUME PaintInv, Tick
  PROVE  PaintInv' /\ Kept
<1>1. fetch' \in [Fetches -> FetchState] /\ Kept
  <2>1. CASE fetch' = Overtaken(fetch)
    BY <2>1, OvertakenKeeps
  <2>2. CASE fetch' = fetch
    BY <2>2, Types DEF Kept, IsRead
  <2> QED BY <2>1, <2>2 DEF Tick
<1>2. now \in 0 .. MaxClock /\ now' \in 0 .. MaxClock /\ now <= now'
  BY ScreensAssumption DEF Tick, PaintInv, ScreensInv
<1>3. /\ UNCHANGED <<kind, row, tx, live, wire, shown, known, said, outOfOrder>>
      /\ blurred' \in BOOLEAN
  BY Types DEF Tick
<1>4. \A f \in Fetches : IsRead(f)' => OnTime(fetch[f].view)'
  BY <1>1, <1>2, <1>3, KeptOnTime
<1>5. kind = "kitchen" /\ shown # NONE => shown.target # NONE /\ shown.target <= now'
  <2> SUFFICES ASSUME kind = "kitchen", shown # NONE
               PROVE  shown.target # NONE /\ shown.target <= now'
    OBVIOUS
  <2>1. shown.target # NONE /\ shown.target <= now /\ shown \in Visit
    BY DEF PaintInv, ScreensInv
  <2>2. shown.target \in Times
    BY <2>1, VisitFields
  <2>3. \A t \in Nat : t <= now => t <= now'
    BY <1>2, ScreensAssumption
  <2>4. shown.target \in Nat
    BY <2>2, ScreensAssumption
  <2> QED BY <2>1, <2>3, <2>4
<1>6. ScreensInv'
  BY <1>2, <1>3, <1>5 DEF PaintInv, ScreensInv
<1> QED BY <1>1, <1>3, <1>4, <1>6 DEF PaintInv

\* A refetch is read.  Only it is new.
LEMMA ReadOnTime ==
  ASSUME PaintInv, NEW f \in Fetches, Read(f)
  PROVE  /\ PaintInv'
         /\ ~IsRead(f) /\ IsRead(f)'
         /\ fetch'[f].view = View
         /\ fetch'[f].early <=> tx.stage = "open" /\ tx.early
         /\ \A g \in Fetches : IsRead(g) => g \in fetch'[f].older
         /\ \A g \in Fetches \ {f} : fetch'[g] = fetch[g]
<1> DEFINE answer == [stage |-> "read", view |-> View, late |-> FALSE,
                      early |-> tx.stage = "open" /\ tx.early,
                      older |-> {g \in DOMAIN fetch : fetch[g].stage = "read"}]
<1>1. fetch \in [Fetches -> FetchState] /\ fetch' = [fetch EXCEPT ![f] = answer]
  BY Types DEF Read
<1>2. answer \in FetchState
  <2>1. View \in Visit \cup {NONE}
    BY ViewOnTime
  <2>2. (tx.stage = "open" /\ tx.early) \in BOOLEAN
    OBVIOUS
  <2>3. {g \in DOMAIN fetch : fetch[g].stage = "read"} \in SUBSET Fetches
    BY <1>1
  <2> QED BY <2>1, <2>2, <2>3 DEF FetchState
<1>3. /\ answer.view = View /\ answer.stage = "read"
      /\ answer.early <=> tx.stage = "open" /\ tx.early
  OBVIOUS
<1>4. \A g \in Fetches : IsRead(g) => g \in answer.older
  BY <1>1 DEF IsRead
<1> HIDE DEF answer
<1>5. /\ fetch' \in [Fetches -> FetchState]
      /\ fetch'[f] = answer
      /\ \A g \in Fetches \ {f} : fetch'[g] = fetch[g]
  BY <1>1, <1>2
<1>6. /\ UNCHANGED <<kind, now, row, tx, live, wire, shown, known, said, blurred, outOfOrder>>
      /\ ~IsRead(f)
  BY DEF Read, Quiet, IsRead
<1>7. ASSUME NEW g \in Fetches, IsRead(g)'
      PROVE  OnTime(fetch[g].view)'
  <2>1. CASE g = f
    BY <1>3, <1>5, <1>6, <2>1, ViewOnTime DEF OnTime
  <2>2. CASE g # f
    <3>1. OnTime(fetch[g].view)
      BY <1>5, <1>7, <2>2 DEF PaintInv, IsRead
    <3> QED BY <1>5, <1>6, <2>2, <3>1 DEF OnTime
  <2> QED BY <2>1, <2>2
<1>8. ScreensInv'
  BY <1>6 DEF PaintInv, ScreensInv
<1>9. PaintInv'
  BY <1>5, <1>6, <1>7, <1>8 DEF PaintInv
<1> QED BY <1>3, <1>4, <1>5, <1>6, <1>9 DEF IsRead

LEMMA AnswerOnTime ==
  ASSUME PaintInv, NEW f \in Fetches, Answer(f)
  PROVE  PaintInv'
<1>1. fetch' \in [Fetches -> FetchState] /\ Kept
  BY AnswerKeeps
<1>2. IsRead(f)
  BY DEF Answer, IsRead
<1>3. fetch[f] \in [stage : {"read"}, view : Visit \cup {NONE}, late : BOOLEAN,
                    early : BOOLEAN, older : SUBSET Fetches]
  BY <1>2, Types DEF FetchState, IsRead, IdleFetch
<1>4. /\ UNCHANGED <<kind, now, row, tx, live, wire>>
      /\ shown' = fetch[f].view /\ known' = (fetch[f].view # NONE)
      /\ blurred' = (fetch[f].late \/ fetch[f].early)
      /\ outOfOrder' = (outOfOrder \/ fetch[f].late)
      /\ said' = said \/ (said < 2 /\ said' = said + 1)
  BY DEF Answer, Quiet
<1>5. said' \in 0 .. 2
  BY <1>4 DEF PaintInv, ScreensInv
<1>6. {known', blurred', outOfOrder'} \subseteq BOOLEAN
  BY <1>3, <1>4, Types
<1>7. now' \in 0 .. MaxClock /\ now <= now'
  BY <1>4, ScreensAssumption DEF PaintInv, ScreensInv
<1>8. \A g \in Fetches : IsRead(g)' => OnTime(fetch[g].view)'
  BY <1>1, <1>4, <1>7, KeptOnTime
<1>9. OnTime(fetch[f].view)
  BY <1>2 DEF PaintInv
<1>10. ScreensInv'
  BY <1>3, <1>4, <1>5, <1>6, <1>7, <1>9 DEF PaintInv, ScreensInv, OnTime
<1> QED BY <1>1, <1>4, <1>8, <1>10 DEF PaintInv

-----------------------------------------------------------------------------
(* Every step                                                               *)

\* No refetch is read in this step, and the list of the dashboard is not replaced.
Between == Kept /\ UNCHANGED <<known, said, outOfOrder>>

\* The visit is as it was, or as the transaction that has just committed left it.
RowMoves ==
    \/ row' = row /\ (tx' = tx \/ tx'.stage # "open")
    \/ tx.stage = "open" /\ row' = tx.new /\ tx'.stage # "open"
    \/ row' = row /\ tx'.stage = "open" /\ Advances(tx'.new)
    \/ /\ row'.status = row.status
       /\ tx'.stage = "open" => tx.stage = "open" /\ tx'.new.status = tx.new.status

LEMMA PaintStep ==
  ASSUME PaintInv, [ScreensNext]_screenVars
  PROVE  /\ PaintInv' /\ kind' = kind
         /\ RowMoves
         /\ \/ Between
            \/ \E f \in Fetches : Read(f) \/ Answer(f)
<1>1. CASE Written
  <2>1. PICK new \in Visit, event \in Event, early \in BOOLEAN, here \in BOOLEAN :
           Advances(new) /\ Begin(new, event, early, here)
    BY <1>1 DEF Written
  <2>2. RowMoves /\ kind' = kind /\ UNCHANGED <<known, said, outOfOrder>>
    BY <2>1 DEF RowMoves, Begin, Quiet
  <2> QED BY <1>1, <2>2, WrittenOnTime DEF Between
<1>2. CASE Refused \/ ActionFails
  <2>1. NothingDone
    BY <1>2 DEF Refused, ActionFails
  <2> QED BY <2>1, NothingDoneOnTime DEF NothingDone, RowMoves, Between, Quiet
<1>3. CASE Commit
  <2>1. RowMoves
    <3>1. tx'.stage # "open"
      BY <1>3, TxFields DEF Commit, NoTx
    <3> QED BY <1>3, <3>1 DEF RowMoves, Commit
  <2> QED BY <1>3, <2>1, CommitOnTime DEF Commit, Between, Quiet
<1>4. CASE Announce
  BY <1>4, AnnounceOnTime DEF Announce, RowMoves, Between, Quiet, NoTx
<1>5. CASE Open
  BY <1>5, OpenOnTime DEF Open, RowMoves, Between, Quiet
<1>6. CASE OnMessage
  BY <1>6, OnMessageOnTime DEF OnMessage, RowMoves, Between, Quiet
<1>7. ASSUME NEW f \in Fetches, Read(f)
      PROVE  PaintInv' /\ kind' = kind /\ RowMoves
  BY <1>7, ReadOnTime DEF Read, RowMoves, Quiet
<1>8. ASSUME NEW f \in Fetches, Answer(f)
      PROVE  PaintInv' /\ kind' = kind /\ RowMoves
  BY <1>8, AnswerOnTime DEF Answer, RowMoves, Quiet
<1>9. CASE Tick
  BY <1>9, TickOnTime DEF Tick, RowMoves, Between
<1>10. CASE Rollback
  BY <1>10, RollbackOnTime DEF Rollback, RowMoves, Between, Quiet, NoTx
<1>11. CASE LoseConnection
  BY <1>11, LossOnTime DEF LoseConnection, RowMoves, Between, Quiet
<1>12. CASE Crash
  BY <1>12, CrashOnTime DEF Crash, RowMoves, Between, Quiet, NoTx
<1>13. ASSUME NEW f \in Fetches, FetchFails(f)
       PROVE  PaintInv' /\ kind' = kind /\ RowMoves /\ Between
  BY <1>13, FailureOnTime DEF FetchFails, RowMoves, Between, Quiet
<1>14. CASE UNCHANGED screenVars
  <2>1. UNCHANGED <<kind, row, tx, now, live, wire, fetch, shown, known, said,
                    writes, faults, blurred, outOfOrder>>
    BY <1>14 DEF screenVars
  <2>2. RowMoves /\ Between
    BY <2>1 DEF RowMoves, Between, Kept, IsRead
  <2>3. PaintInv'
    BY <2>1 DEF PaintInv, ScreensInv, IsRead, OnTime
  <2> QED BY <2>1, <2>2, <2>3
<1>15. CASE \/ Confirm \/ Recompute \/ EtaChange \/ AcceptKitchenStart \/ Elsewhere
            \/ PressSeen \/ PressFoodOut \/ PressMove
  BY <1>1, <1>2, <1>15, Types, WritersWrite
<1>16. CASE LateTurn
  <2>1. Slipped /\ PaintInv' /\ Kept
    BY <1>16, TurnSlips, SlippedOnTime
  <2>2. tx'.stage = "open" => tx.stage = "open" /\ tx'.new.status = tx.new.status
    <3>1. CASE tx.stage = "open"
      <4>1. PICK new \in Visit : tx' = [tx EXCEPT !.new = new] /\ new.status = tx.new.status
        BY <2>1, <3>1 DEF Slipped
      <4>2. tx'.new = new
        BY <3>1, <4>1, TxFields
      <4> QED BY <3>1, <4>1, <4>2
    <3>2. CASE tx.stage # "open"
      BY <2>1, <3>2 DEF Slipped
    <3> QED BY <3>1, <3>2
  <2>3. RowMoves
    BY <2>1, <2>2 DEF Slipped, RowMoves
  <2> QED BY <2>1, <2>3 DEF Slipped, Between
<1> QED BY <1>2, <1>3, <1>4, <1>5, <1>6, <1>7, <1>8, <1>9, <1>10, <1>11, <1>12, <1>13,
           <1>14, <1>15, <1>16 DEF ScreensNext, Steps

LEMMA PaintInit == ScreensInit => PaintInv
<1> SUFFICES ASSUME ScreensInit PROVE PaintInv
  OBVIOUS
<1>1. /\ kind \in {"dashboard", "kitchen"} /\ row \in Visit /\ now = 0 /\ tx = NoTx
      /\ shown = View /\ known = (View # NONE) /\ live = FALSE /\ wire = <<>>
      /\ said = 0 /\ blurred = FALSE /\ outOfOrder = FALSE
  BY DEF ScreensInit, FirstPaint, Mounted
<1>2. fetch = [f \in Fetches |-> IdleFetch]
  BY DEF ScreensInit
<1>3. fetch \in [Fetches -> FetchState] /\ \A f \in Fetches : ~IsRead(f)
  <2>1. \A f \in Fetches : fetch[f] = IdleFetch
    BY <1>2
  <2> QED BY <1>2, <2>1 DEF FetchState, IsRead, IdleFetch
<1>4. View \in Visit \cup {NONE}
  <2>1. [row EXCEPT !.acked = FALSE] \in Visit
    BY <1>1, VisitFields
  <2> QED BY <1>1, <2>1 DEF View, Inbound, Queue
<1>5. kind = "kitchen" /\ View # NONE => View.target # NONE /\ View.target <= now
  BY DEF View, Queue
<1>6. ScreensInv
  <2>1. {live, known, blurred, outOfOrder} \subseteq BOOLEAN
    <3>1. known \in BOOLEAN
      BY <1>1
    <3> QED BY <1>1, <3>1
  <2>2. now \in 0 .. MaxClock /\ said \in 0 .. 2
    BY <1>1, ScreensAssumption
  <2>3. wire \in Seq(Event)
    BY <1>1
  <2>4. shown \in Visit \cup {NONE}
    BY <1>1, <1>4
  <2>5. kind = "kitchen" /\ shown # NONE => shown.target # NONE /\ shown.target <= now
    BY <1>1, <1>5
  <2> QED BY <1>1, <2>1, <2>2, <2>3, <2>4, <2>5 DEF ScreensInv
<1> QED BY <1>1, <1>3, <1>6 DEF PaintInv, TxState

\* Every variable stays within its type, and the kitchen is never shown work ahead of
\* its time: for any number of refetches, answered in any order, while targets change.
THEOREM ScreenOnTime == ScreensSpec => []ScreensInv
<1>1. ScreensInit => PaintInv
  BY PaintInit
<1>2. PaintInv /\ [ScreensNext]_screenVars => PaintInv'
  BY PaintStep
<1>3. PaintInv => ScreensInv
  BY DEF PaintInv
<1> QED BY <1>1, <1>2, <1>3, PTL DEF ScreensSpec

-----------------------------------------------------------------------------
(* A booking is announced once                                              *)

Booked == row.status # "draft"

\* An answer that is to find nothing was read before every one that is to find the
\* booking, and before the booking was announced; or it is known to be late.
EmptyIsOlder ==
    \A f \in Fetches : IsRead(f) /\ fetch[f].view = NONE /\ ~fetch[f].late =>
        /\ ~known
        /\ \A g \in Fetches : IsRead(g) /\ fetch[g].view # NONE => f \in fetch[g].older

\* What a dashboard shows, or is about to, is booked; it stays booked, and a dashboard
\* that has lost sight of it has not announced it.
OrderInv ==
    kind = "dashboard" =>
        /\ tx.stage = "open" => Advances(tx.new)
        /\ known => Booked
        /\ \A f \in Fetches : IsRead(f) /\ fetch[f].view # NONE => Booked
        /\ EmptyIsOlder
        /\ ~outOfOrder => said <= 1 /\ (~known => said = 0)

LEMMA DashboardView ==
  ASSUME PaintInv, kind = "dashboard"
  PROVE  View # NONE <=> Booked
<1>1. row \in Visit
  BY Types
<1>2. row.status \in {"draft", "confirmed", "kitchen_started", "food_out"}
  BY <1>1, VisitFields
<1>3. [row EXCEPT !.acked = FALSE] \in Visit
  BY <1>1, VisitFields
<1> QED BY <1>2, <1>3, NoVisitAssumption DEF View, Inbound, Booked

LEMMA StaysBooked ==
  ASSUME OrderInv, RowMoves, kind = "dashboard"
  PROVE  /\ Booked => Booked'
         /\ tx'.stage = "open" => Advances(tx.new)'
BY DEF OrderInv, RowMoves, Booked, Advances

LEMMA OrderInit == ScreensInit => OrderInv
<1> SUFFICES ASSUME ScreensInit, kind = "dashboard" PROVE OrderInv
  BY DEF OrderInv
<1>1. PaintInv
  BY PaintInit
<1>2. \A f \in Fetches : ~IsRead(f)
  BY DEF ScreensInit, IsRead, IdleFetch
<1>3. tx.stage # "open" /\ said = 0 /\ (known => Booked)
  BY <1>1, DashboardView DEF ScreensInit, FirstPaint, Mounted, NoTx
<1> QED BY <1>2, <1>3 DEF OrderInv, EmptyIsOlder

LEMMA OrderStep ==
  ASSUME PaintInv, OrderInv, [ScreensNext]_screenVars
  PROVE  OrderInv'
<1>1. kind' = kind /\ RowMoves /\ (Between \/ \E f \in Fetches : Read(f) \/ Answer(f))
  BY PaintStep
<1> SUFFICES ASSUME kind = "dashboard"
             PROVE  /\ (known => Booked)'
                    /\ \A f \in Fetches : (IsRead(f) /\ fetch[f].view # NONE => Booked)'
                    /\ EmptyIsOlder'
                    /\ (~outOfOrder => said <= 1 /\ (~known => said = 0))'
  BY <1>1, StaysBooked DEF OrderInv
<1>2. (Booked => Booked') /\ (tx'.stage = "open" => Advances(tx.new)')
  BY <1>1, StaysBooked
<1>3. /\ known => Booked
      /\ \A f \in Fetches : IsRead(f) /\ fetch[f].view # NONE => Booked
      /\ EmptyIsOlder
      /\ ~outOfOrder => said <= 1 /\ (~known => said = 0)
  BY DEF OrderInv
<1>4. CASE Between
  <2>1. Kept /\ UNCHANGED <<known, said, outOfOrder>>
    BY <1>4 DEF Between
  <2>2. EmptyIsOlder'
    <3> SUFFICES ASSUME NEW f \in Fetches, IsRead(f)', fetch'[f].view = NONE, ~fetch'[f].late
                 PROVE  /\ ~known'
                        /\ \A g \in Fetches : IsRead(g)' /\ fetch'[g].view # NONE
                                                 => f \in fetch'[g].older
      BY DEF EmptyIsOlder
    <3>1. IsRead(f) /\ fetch[f].view = NONE /\ ~fetch[f].late
      BY <2>1 DEF Kept
    <3>2. ~known /\ \A g \in Fetches : IsRead(g) /\ fetch[g].view # NONE => f \in fetch[g].older
      BY <1>3, <3>1 DEF EmptyIsOlder
    <3> QED BY <2>1, <3>2 DEF Kept
  <2>3. \A f \in Fetches : (IsRead(f) /\ fetch[f].view # NONE => Booked)'
    BY <1>2, <1>3, <2>1 DEF Kept
  <2> QED BY <1>2, <1>3, <2>1, <2>2, <2>3
<1>5. ASSUME NEW f \in Fetches, Read(f)
      PROVE  /\ (known => Booked)'
             /\ \A g \in Fetches : (IsRead(g) /\ fetch[g].view # NONE => Booked)'
             /\ EmptyIsOlder'
             /\ (~outOfOrder => said <= 1 /\ (~known => said = 0))'
  <2>1. UNCHANGED <<row, known, said, outOfOrder>>
    BY <1>5 DEF Read
  <2>2. /\ fetch'[f].view = View
        /\ \A g \in Fetches : IsRead(g) => g \in fetch'[f].older
        /\ \A g \in Fetches \ {f} : fetch'[g] = fetch[g]
    BY <1>5, ReadOnTime
  <2>3. Booked' = Booked /\ (View # NONE <=> Booked)
    BY <2>1, DashboardView DEF Booked
  <2>4. \A g \in Fetches \ {f} : (IsRead(g)' <=> IsRead(g))
    BY <2>2 DEF IsRead
  <2>5. \A g \in Fetches : (IsRead(g) /\ fetch[g].view # NONE => Booked)'
    BY <1>3, <2>2, <2>3, <2>4
  <2>6. EmptyIsOlder'
    <3> SUFFICES ASSUME NEW g \in Fetches, IsRead(g)', fetch'[g].view = NONE, ~fetch'[g].late
                 PROVE  /\ ~known'
                        /\ \A h \in Fetches : IsRead(h)' /\ fetch'[h].view # NONE
                                                 => g \in fetch'[h].older
      BY DEF EmptyIsOlder
    <3>1. CASE g = f
      <4>1. ~Booked
        BY <2>2, <2>3, <3>1
      <4>2. ~known'
        BY <1>3, <2>1, <4>1
      <4> QED BY <2>3, <2>5, <4>1, <4>2
    <3>2. CASE g # f
      <4>1. IsRead(g) /\ fetch[g].view = NONE /\ ~fetch[g].late
        BY <2>2, <2>4, <3>2
      <4>2. ~known /\ \A h \in Fetches : IsRead(h) /\ fetch[h].view # NONE => g \in fetch[h].older
        BY <1>3, <4>1 DEF EmptyIsOlder
      <4> QED BY <2>1, <2>2, <2>4, <4>1, <4>2
    <3> QED BY <3>1, <3>2
  <2> QED BY <1>3, <2>1, <2>3, <2>5, <2>6
<1>6. ASSUME NEW f \in Fetches, Answer(f)
      PROVE  /\ (known => Booked)'
             /\ \A g \in Fetches : (IsRead(g) /\ fetch[g].view # NONE => Booked)'
             /\ EmptyIsOlder'
             /\ (~outOfOrder => said <= 1 /\ (~known => said = 0))'
  <2>1. /\ Kept /\ ~IsRead(f)'
        /\ \A g \in Fetches : IsRead(g)' /\ g \in fetch[f].older => fetch'[g].late
    BY <1>6, AnswerKeeps
  <2>2. /\ IsRead(f)
        /\ known' <=> fetch[f].view # NONE
        /\ said' = IF NewArrival(fetch[f].view) /\ said < 2 THEN said + 1 ELSE said
        /\ outOfOrder' <=> outOfOrder \/ fetch[f].late
    BY <1>6 DEF Answer, IsRead
  <2>3. \A g \in Fetches : (IsRead(g) /\ fetch[g].view # NONE => Booked)'
    BY <1>2, <1>3, <2>1 DEF Kept
  <2>4. (known => Booked)'
    BY <1>2, <1>3, <2>2
  <2>5. EmptyIsOlder'
    <3> SUFFICES ASSUME NEW g \in Fetches, IsRead(g)', fetch'[g].view = NONE, ~fetch'[g].late
                 PROVE  /\ ~known'
                        /\ \A h \in Fetches : IsRead(h)' /\ fetch'[h].view # NONE
                                                 => g \in fetch'[h].older
      BY DEF EmptyIsOlder
    <3>1. IsRead(g) /\ fetch[g].view = NONE /\ ~fetch[g].late
      BY <2>1 DEF Kept
    <3>2. ~known /\ \A h \in Fetches : IsRead(h) /\ fetch[h].view # NONE => g \in fetch[h].older
      BY <1>3, <3>1 DEF EmptyIsOlder
    <3>3. g \notin fetch[f].older
      BY <2>1
    <3>4. ~known'
      BY <2>2, <3>2, <3>3
    <3> QED BY <2>1, <3>2, <3>4 DEF Kept
  <2>6. (~outOfOrder => said <= 1 /\ (~known => said = 0))'
    <3> SUFFICES ASSUME ~outOfOrder'
                 PROVE  said' <= 1 /\ (~known' => said' = 0)
      OBVIOUS
    <3>1. ~outOfOrder /\ ~fetch[f].late
      BY <2>2
    <3>2. said <= 1 /\ (~known => said = 0)
      BY <1>3, <3>1
    <3>3. CASE fetch[f].view = NONE
      <4>1. ~known
        BY <1>3, <2>2, <3>1, <3>3 DEF EmptyIsOlder
      <4> QED BY <2>2, <3>2, <3>3, <4>1 DEF NewArrival
    <3>4. CASE fetch[f].view # NONE
      BY <2>2, <3>2, <3>4 DEF NewArrival
    <3> QED BY <3>3, <3>4
  <2> QED BY <2>3, <2>4, <2>5, <2>6
<1> QED BY <1>1, <1>4, <1>5, <1>6

\* A booking is read out as new once, however often the list is refetched and the
\* connection lost, as long as answers come in order.
THEOREM BookingAnnouncedOnce == ScreensSpec => []AnnouncedOnce
<1>1. ScreensInit => PaintInv /\ OrderInv
  BY PaintInit, OrderInit
<1>2. PaintInv /\ OrderInv /\ [ScreensNext]_screenVars => (PaintInv /\ OrderInv)'
  BY PaintStep, OrderStep
<1>3. OrderInv => AnnouncedOnce
  BY DEF OrderInv, AnnouncedOnce
<1> QED BY <1>1, <1>2, <1>3, PTL DEF ScreensSpec

-----------------------------------------------------------------------------
(* A resting screen shows what the database holds                           *)

\* What the visit will be if the transaction whose event is out already commits.
Ahead == tx.stage = "open" /\ tx.early

Coming == IF Ahead THEN tx.new ELSE row

\* An event that makes a screen which shows v refetch, or know that it may be wrong.
Rouses(v, m) ==
    \/ kind = "kitchen"
    \/ m.name \in {"reassigned", "food_out"}
    \/ m.name \in {"recomputed", "accepted"} /\ m.void
    \/ m.name \in {"confirmed", "recomputed", "accepted"} /\ v = NONE

Roused(v) ==
    \/ \E i \in 1 .. Len(wire) : Rouses(v, wire[i])
    \/ tx.stage = "announce" /\ Rouses(v, tx.event)

Has(w, name) == \E i \in 1 .. Len(w) : w[i].name = name

\* The events of w will make of v what a dashboard is to show of c.
Matches(v, c, w) ==
    /\ v = NONE <=> c.status = "draft"
    /\ v # NONE => /\ v.table = c.table /\ v.details = c.details
                   /\ v.flagged = c.flagged /\ v.acked = FALSE
                   /\ v.target = c.target \/ Has(w, "recomputed")
                   /\ v.status = c.status \/ Has(w, "accepted")

Fits(v) == IF kind = "kitchen" THEN ~Ahead /\ v = Queue ELSE Matches(v, Coming, wire)

\* A screen that shows v is right, will be by what it hears, or will hear that it may
\* be wrong.
Settles(v) == ~live \/ Roused(v) \/ Fits(v)

\* The last target on the wire is the visit's; so is the last kitchen start, unless
\* the food went out after it.
Ends(w, c) ==
    \A i \in 1 .. Len(w) :
        /\ w[i].name = "recomputed" =>
              \/ w[i].void \/ w[i].target = c.target
              \/ \E j \in (i + 1) .. Len(w) : w[j].name = "recomputed"
        /\ w[i].name = "accepted" =>
              /\ w[i].target = NONE
              /\ \/ w[i].void \/ c.status = "kitchen_started"
                 \/ \E j \in (i + 1) .. Len(w) : w[j].name = "food_out"

WireInv ==
    /\ ~live => wire = <<>>
    /\ tx.stage = "open" => /\ Changes(row, tx.new, tx.event)
                            /\ tx.early <=> tx.event.name \notin Announced
    /\ tx.stage = "announce" => tx.event.name \in Announced
    /\ Ahead /\ wire # <<>> => wire[Len(wire)] = tx.event
    /\ Ends(wire, Coming)

\* The event of an unfinished transaction has not been used up.
Pending == Ahead => ~live \/ wire # <<>> \/ tx.event.name = "acked"

\* Another refetch is still to be read, or will overtake the answer to f.
Covered(f) ==
    \E g \in Fetches \ {f} : fetch[g].stage = "asked" \/ (IsRead(g) /\ f \in fetch[g].older)

Busy == \E f \in Fetches : fetch[f].stage # "idle"

\* What is shown, or will be when an answer arrives that nothing has spoilt, is right
\* or about to be replaced.
TrueInv ==
    /\ known <=> shown # NONE
    /\ WireInv
    /\ ~blurred => Settles(shown) \/ Busy
    /\ \A f \in Fetches : IsRead(f) /\ ~fetch[f].late /\ ~fetch[f].early =>
          Covered(f) \/ (Settles(fetch[f].view) /\ Pending)

-----------------------------------------------------------------------------
(* The wire                                                                 *)

\* The step from old to new that event e tells of, or that its telling leaves undone,
\* does not undo what the events before it have told.
Carries(old, new, e) ==
    /\ new.target = IF e.name = "recomputed" THEN e.target ELSE old.target
    /\ e.name # "food_out" /\ old.status = "kitchen_started" => new.status = "kitchen_started"
    /\ e.name = "accepted" => e.target = NONE /\ new.status = "kitchen_started"

LEMMA ChangesCarry ==
  ASSUME NEW old \in Visit, NEW new \in Visit, NEW e \in Event, Changes(old, new, e)
  PROVE  Carries(old, new, e)
BY DEF Changes, Carries, Event

LEMMA NoEnds == \A c : Ends(<<>>, c)
BY DEF Ends

LEMMA SameEnds ==
  ASSUME NEW w \in Seq(Event), NEW old, NEW new, Ends(w, old),
         new.target = old.target,
         old.status = "kitchen_started" => new.status = "kitchen_started"
  PROVE  Ends(w, new)
BY DEF Ends

LEMMA AppendEnds ==
  ASSUME NEW w \in Seq(Event), NEW old, NEW new, NEW e \in Event,
         Ends(w, old), Carries(old, new, e)
  PROVE  Ends(Append(w, e), new)
<1> DEFINE n == Len(w)
           x == Append(w, e)
<1>1. n \in Nat /\ Len(x) = n + 1 /\ x[n + 1] = e /\ \A i \in 1 .. n : x[i] = w[i]
  OBVIOUS
<1> HIDE DEF n, x
<1>2. ASSUME NEW i \in 1 .. (n + 1), x[i].name = "recomputed"
      PROVE  \/ x[i].void \/ x[i].target = new.target
             \/ \E j \in (i + 1) .. (n + 1) : x[j].name = "recomputed"
  <2>1. CASE i = n + 1
    BY <1>1, <1>2, <2>1 DEF Carries
  <2>2. CASE i # n + 1
    <3>1. i \in 1 .. n /\ x[i] = w[i]
      BY <1>1, <2>2
    <3>2. \/ w[i].void \/ w[i].target = old.target
          \/ \E j \in (i + 1) .. n : w[j].name = "recomputed"
      BY <1>2, <3>1 DEF Ends, n
    <3>3. CASE e.name = "recomputed"
      BY <1>1, <3>1, <3>3
    <3>4. CASE e.name # "recomputed"
      <4>1. new.target = old.target
        BY <3>4 DEF Carries
      <4>2. \A j \in (i + 1) .. n : j \in (i + 1) .. (n + 1) /\ x[j] = w[j]
        BY <1>1, <3>1
      <4> QED BY <3>1, <3>2, <4>1, <4>2
    <3> QED BY <3>3, <3>4
  <2> QED BY <2>1, <2>2
<1>3. ASSUME NEW i \in 1 .. (n + 1), x[i].name = "accepted"
      PROVE  /\ x[i].target = NONE
             /\ \/ x[i].void \/ new.status = "kitchen_started"
                \/ \E j \in (i + 1) .. (n + 1) : x[j].name = "food_out"
  <2>1. CASE i = n + 1
    BY <1>1, <1>3, <2>1 DEF Carries
  <2>2. CASE i # n + 1
    <3>1. i \in 1 .. n /\ x[i] = w[i]
      BY <1>1, <2>2
    <3>2. /\ w[i].target = NONE
          /\ \/ w[i].void \/ old.status = "kitchen_started"
             \/ \E j \in (i + 1) .. n : w[j].name = "food_out"
      BY <1>3, <3>1 DEF Ends, n
    <3>3. CASE e.name = "food_out"
      BY <1>1, <3>1, <3>2, <3>3
    <3>4. CASE e.name # "food_out"
      <4>1. old.status = "kitchen_started" => new.status = "kitchen_started"
        BY <3>4 DEF Carries
      <4>2. \A j \in (i + 1) .. n : j \in (i + 1) .. (n + 1) /\ x[j] = w[j]
        BY <1>1, <3>1
      <4> QED BY <3>1, <3>2, <4>1, <4>2
    <3> QED BY <3>3, <3>4
  <2> QED BY <2>1, <2>2
<1>4. Ends(x, new)
  BY <1>1, <1>2, <1>3 DEF Ends
<1> QED BY <1>4 DEF x

LEMMA TailEnds ==
  ASSUME NEW w \in Seq(Event), w # <<>>, NEW c, Ends(w, c)
  PROVE  Ends(Tail(w), c)
<1> DEFINE n == Len(w)
           x == Tail(w)
<1>1. n \in Nat \ {0} /\ Len(x) = n - 1 /\ \A i \in 1 .. (n - 1) : x[i] = w[i + 1]
  OBVIOUS
<1> HIDE DEF n, x
<1>2. ASSUME NEW i \in 1 .. (n - 1)
      PROVE  /\ x[i].name = "recomputed" =>
                   \/ x[i].void \/ x[i].target = c.target
                   \/ \E j \in (i + 1) .. (n - 1) : x[j].name = "recomputed"
             /\ x[i].name = "accepted" =>
                   /\ x[i].target = NONE
                   /\ \/ x[i].void \/ c.status = "kitchen_started"
                      \/ \E j \in (i + 1) .. (n - 1) : x[j].name = "food_out"
  <2>1. i + 1 \in 1 .. n /\ x[i] = w[i + 1]
    BY <1>1
  <2>2. /\ w[i + 1].name = "recomputed" =>
              \/ w[i + 1].void \/ w[i + 1].target = c.target
              \/ \E j \in (i + 1 + 1) .. n : w[j].name = "recomputed"
        /\ w[i + 1].name = "accepted" =>
              /\ w[i + 1].target = NONE
              /\ \/ w[i + 1].void \/ c.status = "kitchen_started"
                 \/ \E j \in (i + 1 + 1) .. n : w[j].name = "food_out"
    BY <2>1 DEF Ends, n
  <2>3. \A j \in (i + 1 + 1) .. n : j - 1 \in (i + 1) .. (n - 1) /\ x[j - 1] = w[j]
    <3> SUFFICES ASSUME NEW j \in (i + 1 + 1) .. n
                 PROVE  j - 1 \in (i + 1) .. (n - 1) /\ x[j - 1] = w[j]
      OBVIOUS
    <3>1. j - 1 \in (i + 1) .. (n - 1) /\ j - 1 \in 1 .. (n - 1) /\ (j - 1) + 1 = j
      BY <1>1
    <3> QED BY <1>1, <3>1
  <2> QED BY <2>1, <2>2, <2>3
<1>3. Ends(x, c)
  BY <1>1, <1>2 DEF Ends
<1> QED BY <1>3 DEF x

\* The events of w that are e are void in x.
Revokes(w, e, x) ==
    /\ Len(x) = Len(w)
    /\ \A i \in 1 .. Len(w) :
          /\ x[i].name = w[i].name /\ x[i].target = w[i].target
          /\ x[i].void <=> w[i].void \/ w[i] = e

\* The end of the wire is what it was before the last event when it and its like are void.
LEMMA VoidEnds ==
  ASSUME NEW w \in Seq(Event), NEW old \in Visit, NEW new \in Visit, NEW e \in Event, NEW x,
         Ends(w, new), Changes(old, new, e), w # <<>> => w[Len(w)] = e, Revokes(w, e, x)
  PROVE  Ends(x, old)
<1> DEFINE n == Len(w)
<1>1. n \in Nat /\ (n # 0 => w[n] = e) /\ Len(x) = n
  BY DEF Revokes
<1>2. \A i \in 1 .. n : /\ x[i].name = w[i].name /\ x[i].target = w[i].target
                        /\ x[i].void <=> w[i].void \/ w[i] = e
  BY DEF Revokes
<1>3. ASSUME NEW i \in 1 .. n, x[i].name = "recomputed", ~x[i].void
      PROVE  \/ x[i].target = old.target
             \/ \E j \in (i + 1) .. n : x[j].name = "recomputed"
  <2>1. w[i].name = "recomputed" /\ ~w[i].void /\ w[i] # e /\ x[i].target = w[i].target
    BY <1>2, <1>3
  <2>2. w[i].target = new.target \/ \E j \in (i + 1) .. n : w[j].name = "recomputed"
    BY <2>1 DEF Ends
  <2> HIDE DEF n
  <2>3. n \in (i + 1) .. n /\ w[n] = e
    BY <1>1, <2>1
  <2>4. \A j \in (i + 1) .. n : x[j].name = w[j].name
    BY <1>1, <1>2
  <2>5. CASE e.name = "recomputed"
    BY <2>3, <2>4, <2>5
  <2>6. CASE e.name # "recomputed"
    BY <2>1, <2>2, <2>4, <2>6 DEF Changes
  <2> QED BY <2>5, <2>6
<1>4. ASSUME NEW i \in 1 .. n, x[i].name = "accepted"
      PROVE  /\ x[i].target = NONE
             /\ \/ x[i].void \/ old.status = "kitchen_started"
                \/ \E j \in (i + 1) .. n : x[j].name = "food_out"
  <2>1. w[i].name = "accepted" /\ x[i].target = w[i].target /\ w[i] \in Event
    BY <1>2, <1>4
  <2>2. /\ w[i].target = NONE
        /\ \/ w[i].void \/ new.status = "kitchen_started"
           \/ \E j \in (i + 1) .. n : w[j].name = "food_out"
    BY <2>1 DEF Ends
  <2>3. \A j \in (i + 1) .. n : x[j].name = w[j].name
    <3> HIDE DEF n
    <3> QED BY <1>1, <1>2
  <2>4. ASSUME new.status = "kitchen_started", ~w[i].void, w[i] # e
        PROVE  old.status = "kitchen_started"
    <3>1. e.name # "accepted"
      <4> SUFFICES ASSUME e.name = "accepted" PROVE FALSE
        OBVIOUS
      <4>1. e.target = NONE /\ ~e.void
        BY DEF Changes
      <4> QED BY <2>1, <2>2, <2>4, <4>1 DEF Event
    <3> QED BY <2>4, <3>1 DEF Changes, Event
  <2> QED BY <1>2, <2>1, <2>2, <2>3, <2>4
<1>5. \A i \in 1 .. n : x[i].name = "recomputed" =>
                           \/ x[i].void \/ x[i].target = old.target
                           \/ \E j \in (i + 1) .. n : x[j].name = "recomputed"
  BY <1>3
<1> QED BY <1>1, <1>4, <1>5 DEF Ends

LEMMA AppendHas ==
  ASSUME NEW w \in Seq(Event), NEW e \in Event, NEW name
  PROVE  Has(Append(w, e), name) <=> Has(w, name) \/ e.name = name
<1>1. /\ Len(w) \in Nat /\ Len(Append(w, e)) = Len(w) + 1 /\ Append(w, e)[Len(w) + 1] = e
      /\ \A i \in 1 .. Len(w) : Append(w, e)[i] = w[i]
  OBVIOUS
<1> DEFINE n == Len(w)
           x == Append(w, e)
<1>2. /\ n \in Nat /\ Len(x) = n + 1 /\ x[n + 1] = e /\ \A i \in 1 .. n : x[i] = w[i]
      /\ Has(x, name) <=> \E i \in 1 .. Len(x) : x[i].name = name
      /\ Has(w, name) <=> \E i \in 1 .. n : w[i].name = name
  BY <1>1 DEF Has
<1> HIDE DEF n, x
<1>3. Has(x, name) <=> Has(w, name) \/ e.name = name
  BY <1>2
<1> QED BY <1>3 DEF x

LEMMA TailHas ==
  ASSUME NEW w \in Seq(Event), w # <<>>, NEW name, Head(w).name # name
  PROVE  Has(w, name) <=> Has(Tail(w), name)
<1>1. /\ Len(w) \in Nat \ {0} /\ Len(Tail(w)) = Len(w) - 1 /\ w[1] = Head(w)
      /\ \A i \in 1 .. (Len(w) - 1) : Tail(w)[i] = w[i + 1]
  OBVIOUS
<1> DEFINE n == Len(w)
           x == Tail(w)
<1>2. /\ n \in Nat \ {0} /\ Len(x) = n - 1 /\ \A i \in 1 .. (n - 1) : x[i] = w[i + 1]
      /\ w[1].name # name
      /\ Has(x, name) <=> \E i \in 1 .. (n - 1) : x[i].name = name
      /\ Has(w, name) <=> \E i \in 1 .. n : w[i].name = name
  BY <1>1 DEF Has
<1> HIDE DEF n, x
<1>3. ASSUME Has(w, name) PROVE Has(x, name)
  <2>1. PICK i \in 1 .. n : w[i].name = name
    BY <1>2, <1>3
  <2>2. i - 1 \in 1 .. (n - 1) /\ (i - 1) + 1 = i
    BY <1>2, <2>1
  <2> QED BY <1>2, <2>1, <2>2
<1>4. ASSUME Has(x, name) PROVE Has(w, name)
  <2>1. PICK i \in 1 .. (n - 1) : x[i].name = name
    BY <1>2, <1>4
  <2>2. i + 1 \in 1 .. n
    BY <1>2
  <2> QED BY <1>2, <2>1, <2>2
<1> QED BY <1>3, <1>4 DEF x

\* A dashboard keeps matching what it will show when a change and its event come.
LEMMA AppendMatches ==
  ASSUME NEW v, NEW w \in Seq(Event), NEW old \in Visit, NEW new \in Visit, NEW e \in Event,
         e.name \notin Announced, Changes(old, new, e), new.details = old.details,
         Matches(v, old, w)
  PROVE  \/ e.name = "food_out" \/ (v = NONE /\ e.name \in {"recomputed", "accepted"})
         \/ Matches(v, new, Append(w, e))
<1> SUFFICES ASSUME e.name # "food_out", ~(v = NONE /\ e.name \in {"recomputed", "accepted"})
             PROVE  Matches(v, new, Append(w, e))
  OBVIOUS
<1> DEFINE x == Append(w, e)
<1>1. \A name : Has(x, name) <=> Has(w, name) \/ e.name = name
  BY AppendHas
<1> HIDE DEF x
<1>2. e.name \in {"recomputed", "accepted", "acked"}
  BY DEF Event, Announced
<1>3. Matches(v, new, x)
  <2>1. CASE e.name = "recomputed"
    BY <1>1, <2>1 DEF Changes, Matches
  <2>2. CASE e.name = "accepted"
    BY <1>1, <2>2 DEF Changes, Matches
  <2>3. CASE e.name = "acked"
    BY <1>1, <2>3 DEF Changes, Matches
  <2> QED BY <1>2, <2>1, <2>2, <2>3
<1> QED BY <1>3 DEF x

-----------------------------------------------------------------------------
(* What becomes of the wire, and of a screen that is not touched            *)

\* A screen that showed v and was settled still is.
Calm == \A v \in Visit \cup {NONE} : Settles(v) => Settles(v)'

LEMMA SameSettles ==
  ASSUME UNCHANGED <<kind, row, tx, wire, live, now>>
  PROVE  /\ WireInv => WireInv'
         /\ Calm
         /\ Pending => Pending'
<1>1. (Ahead' <=> Ahead) /\ Coming' = Coming
  BY DEF Ahead, Coming
<1>2. WireInv => WireInv'
  BY <1>1 DEF WireInv
<1>3. \A v \in Visit \cup {NONE} : Settles(v) => Settles(v)'
  BY <1>1 DEF Settles, Roused, Rouses, Fits, Queue
<1> QED BY <1>1, <1>2, <1>3 DEF Calm, Pending

LEMMA WriteSettles ==
  ASSUME PaintInv, WireInv, Written
  PROVE  /\ WireInv' /\ Pending' /\ UNCHANGED <<shown, known>>
         /\ (Calm /\ UNCHANGED <<fetch, blurred>>) \/ Spoilt
<1>1. PICK new \in Visit, event \in Event, early \in BOOLEAN, here \in BOOLEAN :
         /\ Advances(new) /\ Changes(row, new, event) /\ (early <=> event.name \notin Announced)
         /\ Begin(new, event, early, here)
         /\ \/ UNCHANGED <<fetch, blurred>> /\ (kind = "dashboard" => new.details = row.details)
            \/ Spoilt
  BY DEF Written
<1>2. /\ tx = NoTx
      /\ tx' = [stage |-> "open", new |-> new, event |-> event, early |-> early, here |-> here]
      /\ UNCHANGED <<kind, now, row, live, shown, known>>
      /\ wire' = IF early /\ live THEN Append(wire, event) ELSE wire
  BY <1>1 DEF Begin, Send, Quiet
<1>3. /\ ~Ahead /\ Coming = row /\ (Ahead' <=> early) /\ tx.stage # "announce"
      /\ tx'.stage = "open" /\ tx'.new = new /\ tx'.event = event /\ (tx'.early <=> early)
      /\ Coming' = IF early THEN new ELSE row
  BY <1>2 DEF Ahead, Coming, NoTx
<1>4. row \in Visit /\ wire \in Seq(Event) /\ live \in BOOLEAN
  BY Types
<1>5. /\ Len(wire) \in Nat /\ Len(Append(wire, event)) = Len(wire) + 1
      /\ Append(wire, event)[Len(wire) + 1] = event
      /\ \A i \in 1 .. Len(wire) : Append(wire, event)[i] = wire[i]
      /\ Append(wire, event) # <<>>
  BY <1>4
<1>6. Ends(wire', Coming')
  <2>1. CASE ~early
    BY <1>2, <1>3, <2>1 DEF WireInv
  <2>2. CASE early /\ ~live
    BY <1>2, <2>2, NoEnds DEF WireInv
  <2>3. CASE early /\ live
    <3>1. Ends(wire, row) /\ Carries(row, new, event)
      BY <1>1, <1>3, <1>4, ChangesCarry DEF WireInv
    <3>2. Ends(Append(wire, event), new)
      BY <1>4, <3>1, AppendEnds
    <3> QED BY <1>2, <1>3, <2>3, <3>2
  <2> QED BY <2>1, <2>2, <2>3
<1>7. (~live => wire = <<>>)' /\ (Ahead /\ wire # <<>> => wire[Len(wire)] = tx.event)'
  BY <1>2, <1>3, <1>5 DEF WireInv
<1>8. WireInv'
  BY <1>1, <1>2, <1>3, <1>6, <1>7 DEF WireInv
<1>9. ASSUME kind = "dashboard" => new.details = row.details,
             NEW v \in Visit \cup {NONE}, Settles(v)
      PROVE  Settles(v)'
  <2>1. CASE ~live
    BY <1>2, <2>1 DEF Settles
  <2>2. CASE live /\ Roused(v)
    <3>1. PICK i \in 1 .. Len(wire) : Rouses(v, wire[i])
      BY <1>3, <2>2 DEF Roused
    <3>2. i \in 1 .. Len(wire') /\ wire'[i] = wire[i]
      BY <1>2, <1>5, <3>1
    <3>3. Rouses(v, wire[i])'
      BY <1>2, <3>1, <3>2 DEF Rouses
    <3> QED BY <3>2, <3>3 DEF Settles, Roused
  <2>3. CASE live /\ Fits(v) /\ ~early
    <3>1. Fits(v)'
      BY <1>2, <1>3, <2>3 DEF Fits, Queue
    <3> QED BY <3>1 DEF Settles
  <2>4. CASE live /\ Fits(v) /\ early
    <3>1. Len(wire) + 1 \in 1 .. Len(wire') /\ wire'[Len(wire) + 1] = event
      BY <1>2, <1>5, <2>4
    <3>2. CASE kind = "kitchen" \/ event.name = "food_out"
                \/ (v = NONE /\ event.name \in {"recomputed", "accepted"})
      <4>1. kind' = "kitchen" \/ event.name = "food_out"
                \/ (v = NONE /\ event.name \in {"recomputed", "accepted"})
        BY <1>2, <3>2
      <4>2. \E i \in 1 .. Len(wire') :
               \/ kind' = "kitchen"
               \/ wire'[i].name \in {"reassigned", "food_out"}
               \/ wire'[i].name \in {"recomputed", "accepted"} /\ wire'[i].void
               \/ wire'[i].name \in {"confirmed", "recomputed", "accepted"} /\ v = NONE
        BY <3>1, <4>1
      <4> QED BY <4>2 DEF Settles, Roused, Rouses
    <3>3. CASE kind # "kitchen" /\ Matches(v, new, Append(wire, event))
      <4>1. Fits(v)'
        BY <1>2, <1>3, <2>4, <3>3 DEF Fits
      <4> QED BY <4>1 DEF Settles
    <3>4. kind # "kitchen" => Matches(v, row, wire) /\ new.details = row.details
      BY <1>3, <1>9, <2>4 DEF Fits, PaintInv, ScreensInv
    <3> QED BY <1>1, <1>4, <2>4, <3>2, <3>3, <3>4, AppendMatches
  <2> QED BY <1>9, <2>1, <2>2, <2>3, <2>4 DEF Settles
<1>10. Pending'
  BY <1>2, <1>3, <1>5 DEF Pending
<1> QED BY <1>1, <1>2, <1>8, <1>9, <1>10 DEF Calm

\* What a turn has changed in silence either is not on the screen or spoils its picture.
LEMMA SlipSettles ==
  ASSUME PaintInv, WireInv, Slipped
  PROVE  /\ WireInv' /\ (Pending => Pending')
         /\ (Calm /\ UNCHANGED <<fetch, blurred>>) \/ Spoilt
<1>1. /\ row \in Visit /\ row' \in Visit /\ wire \in Seq(Event)
      /\ kind \in {"dashboard", "kitchen"}
      /\ UNCHANGED <<kind, now, live, wire>>
  BY Types DEF Slipped, PaintInv, ScreensInv
<1>2. /\ tx'.stage = tx.stage
      /\ tx.stage = "open" => tx'.event = tx.event /\ tx'.early = tx.early
      /\ tx.stage = "announce" => tx'.event = tx.event
      /\ tx.stage = "open" =>
            /\ tx'.new.status = tx.new.status /\ tx'.new.target = tx.new.target
            /\ tx.new \in Visit /\ tx'.new \in Visit
            /\ Changes(row', tx'.new, tx'.event)
  <2>1. CASE tx.stage = "open"
    <3>1. PICK new \in Visit :
             /\ tx' = [tx EXCEPT !.new = new]
             /\ new.status = tx.new.status /\ new.target = tx.new.target
             /\ Changes(row, tx.new, tx.event) => Changes(row', new, tx.event)
      BY <2>1 DEF Slipped
    <3>2. /\ tx'.new = new /\ tx'.stage = tx.stage /\ tx'.event = tx.event
          /\ tx'.early = tx.early /\ tx.new \in Visit
      BY <2>1, <3>1, TxFields
    <3> QED BY <2>1, <3>1, <3>2 DEF WireInv
  <2>2. CASE tx.stage # "open"
    BY <2>2 DEF Slipped
  <2> QED BY <2>1, <2>2
<1>3. /\ Ahead' <=> Ahead
      /\ Coming'.status = Coming.status /\ Coming'.target = Coming.target
  BY <1>2 DEF Ahead, Coming, Slipped
<1>4. Ends(wire', Coming')
  BY <1>1, <1>3 DEF WireInv, Ends
<1>5. WireInv'
  BY <1>1, <1>2, <1>3, <1>4 DEF WireInv, Ahead
<1>6. Pending => Pending'
  BY <1>1, <1>2, <1>3 DEF Pending, Ahead
<1>7. ASSUME View' = View PROVE Calm
  <2>1. kind = "kitchen"
    <3> SUFFICES ASSUME kind = "dashboard" PROVE FALSE
      BY <1>1
    <3>1. row.status \in {"confirmed", "kitchen_started", "food_out"}
      BY <1>1, VisitFields DEF Slipped
    <3>2. View = [row EXCEPT !.acked = FALSE] /\ View' = [row' EXCEPT !.acked = FALSE]
      BY <1>1, <3>1 DEF View, Inbound, Slipped
    <3>3. row'.table = row.table /\ row'.details = row.details /\ row'.flagged = row.flagged
      BY <1>1, <1>7, <3>2, VisitFields
    <3> QED BY <3>3 DEF Slipped
  <2>2. Queue' = Queue
    BY <1>1, <1>7, <2>1 DEF View
  <2>3. \A v \in Visit \cup {NONE} : Settles(v) => Settles(v)'
    BY <1>1, <1>2, <1>3, <2>1, <2>2 DEF Settles, Roused, Rouses, Fits
  <2> QED BY <2>3 DEF Calm
<1> QED BY <1>5, <1>6, <1>7 DEF Slipped

LEMMA CommitSettles ==
  ASSUME PaintInv, WireInv, Commit
  PROVE  WireInv' /\ Calm /\ Pending'
<1>1. /\ tx.stage = "open" /\ tx.new \in Visit /\ tx.event \in Event /\ tx.early \in BOOLEAN
      /\ Changes(row, tx.new, tx.event) /\ (tx.early <=> tx.event.name \notin Announced)
      /\ row \in Visit /\ wire \in Seq(Event)
  BY Types, TxFields DEF Commit, WireInv
<1>2. row' = tx.new /\ UNCHANGED <<kind, now, live, wire>>
  BY DEF Commit, Quiet
<1>3. CASE tx.early
  <2>1. tx' = NoTx /\ Ahead /\ ~Ahead' /\ Coming' = Coming /\ tx'.stage = "none"
    BY <1>1, <1>2, <1>3 DEF Commit, Ahead, Coming, NoTx
  <2>2. WireInv'
    BY <1>2, <2>1 DEF WireInv
  <2>3. ASSUME NEW v \in Visit \cup {NONE}, Settles(v) PROVE Settles(v)'
    <3>1. Roused(v) => Roused(v)'
      BY <1>1, <1>2 DEF Roused, Rouses
    <3>2. Fits(v) => Fits(v)'
      BY <1>2, <2>1 DEF Fits
    <3> QED BY <1>2, <2>3, <3>1, <3>2 DEF Settles
  <2> QED BY <2>1, <2>2, <2>3 DEF Calm, Pending
<1>4. CASE ~tx.early
  <2>1. tx' = [tx EXCEPT !.stage = "announce"]
    BY <1>4 DEF Commit
  <2>2. tx'.stage = "announce" /\ tx'.event = tx.event
    BY <1>1, <2>1, TxFields
  <2>3. ~Ahead /\ ~Ahead' /\ Coming = row /\ Coming' = tx.new
    BY <1>2, <1>4, <2>2 DEF Ahead, Coming
  <2>4. tx.event.name \in {"confirmed", "reassigned"}
    BY <1>1, <1>4 DEF Announced
  <2>5. Ends(wire, tx.new)
    <3>1. Ends(wire, row)
      BY <2>3 DEF WireInv
    <3>2. /\ tx.new.target = row.target
          /\ row.status = "kitchen_started" => tx.new.status = "kitchen_started"
      BY <1>1, <2>4 DEF Changes
    <3> QED BY <1>1, <3>1, <3>2, SameEnds
  <2>6. WireInv'
    BY <1>2, <2>2, <2>3, <2>4, <2>5 DEF WireInv, Announced
  <2>7. ASSUME NEW v \in Visit \cup {NONE}, Settles(v) PROVE Settles(v)'
    <3>1. Roused(v) => Roused(v)'
      BY <1>1, <1>2 DEF Roused, Rouses
    <3>2. Fits(v) => Roused(v)'
      <4> SUFFICES ASSUME Fits(v) PROVE Rouses(v, tx.event)'
        BY <2>2 DEF Roused
      <4>1. kind # "kitchen" /\ tx.event.name = "confirmed" => v = NONE
        BY <1>1, <2>3 DEF Fits, Matches, Changes
      <4> QED BY <1>2, <2>2, <2>4, <4>1 DEF Rouses
    <3> QED BY <1>2, <2>7, <3>1, <3>2 DEF Settles
  <2> QED BY <2>3, <2>6, <2>7 DEF Calm, Pending
<1> QED BY <1>1, <1>3, <1>4

LEMMA AnnounceSettles ==
  ASSUME PaintInv, WireInv, Announce
  PROVE  WireInv' /\ Calm /\ Pending'
<1> DEFINE e == tx.event
<1>1. /\ tx.stage = "announce" /\ tx' = NoTx /\ e \in Event /\ e.name \in Announced
      /\ row \in Visit /\ wire \in Seq(Event)
      /\ wire' = IF live THEN Append(wire, e) ELSE wire
      /\ UNCHANGED <<kind, now, row, live>>
  BY Types, TxFields DEF Announce, Send, Quiet, WireInv
<1>2. ~Ahead /\ ~Ahead' /\ Coming = row /\ Coming' = row /\ tx'.stage = "none"
  BY <1>1 DEF Ahead, Coming, NoTx
<1> HIDE DEF e
<1>3. /\ Len(wire) \in Nat /\ Len(Append(wire, e)) = Len(wire) + 1
      /\ Append(wire, e)[Len(wire) + 1] = e
      /\ \A i \in 1 .. Len(wire) : Append(wire, e)[i] = wire[i]
  BY <1>1
<1>4. Ends(wire', row)
  <2>1. Ends(wire, row)
    BY <1>2 DEF WireInv
  <2>2. Carries(row, row, e)
    BY <1>1 DEF Carries, Announced
  <2>3. Ends(Append(wire, e), row)
    BY <1>1, <2>1, <2>2, AppendEnds
  <2> QED BY <1>1, <2>1, <2>3
<1>5. WireInv'
  BY <1>1, <1>2, <1>4 DEF WireInv
<1>6. ASSUME NEW v \in Visit \cup {NONE}, Settles(v) PROVE Settles(v)'
  <2>1. CASE ~live
    BY <1>1, <2>1 DEF Settles
  <2>2. CASE live /\ Roused(v)
    <3>1. PICK i \in 1 .. (Len(wire) + 1) : Rouses(v, Append(wire, e)[i])
      BY <1>3, <2>2 DEF Roused, e
    <3>2. i \in 1 .. Len(wire') /\ wire'[i] = Append(wire, e)[i]
      BY <1>1, <1>3, <2>2
    <3>3. Rouses(v, wire[i])'
      BY <1>1, <3>1, <3>2 DEF Rouses
    <3> QED BY <3>2, <3>3 DEF Settles, Roused
  <2>3. CASE live /\ Fits(v)
    <3>1. \A name : Has(wire, name) => Has(wire', name)
      BY <1>1, AppendHas
    <3>2. Fits(v)'
      BY <1>1, <1>2, <2>3, <3>1 DEF Fits, Matches, Queue
    <3> QED BY <3>2 DEF Settles
  <2> QED BY <1>6, <2>1, <2>2, <2>3 DEF Settles
<1> QED BY <1>2, <1>5, <1>6 DEF Calm, Pending

LEMMA VoidedRevokes ==
  ASSUME wire \in Seq(Event), Voided \in Seq(Event)
  PROVE  Revokes(wire, tx.event, Voided)
<1>1. Len(wire) \in Nat /\ DOMAIN wire = 1 .. Len(wire)
  OBVIOUS
<1>2. /\ DOMAIN Voided = 1 .. Len(wire)
      /\ \A i \in 1 .. Len(wire) :
            Voided[i] = IF wire[i] = tx.event THEN [wire[i] EXCEPT !.void = TRUE] ELSE wire[i]
  BY <1>1 DEF Voided
<1>3. Len(Voided) = Len(wire)
  <2>1. Len(Voided) \in Nat /\ 1 .. Len(Voided) = 1 .. Len(wire)
    BY <1>2
  <2> QED BY <1>1, <2>1
<1>4. ASSUME NEW i \in 1 .. Len(wire)
      PROVE  /\ Voided[i].name = wire[i].name /\ Voided[i].target = wire[i].target
             /\ Voided[i].void <=> wire[i].void \/ wire[i] = tx.event
  <2>1. wire[i] \in Event
    OBVIOUS
  <2>2. CASE wire[i] = tx.event
    BY <1>2, <2>1, <2>2 DEF Event
  <2>3. CASE wire[i] # tx.event
    BY <1>2, <2>3
  <2> QED BY <2>2, <2>3
<1> QED BY <1>3, <1>4 DEF Revokes

LEMMA RollbackSettles ==
  ASSUME PaintInv, WireInv, Rollback
  PROVE  /\ WireInv' /\ Pending'
         /\ ~tx.early => Calm
         /\ \A v \in Visit \cup {NONE} : Settles(v) /\ Pending => Settles(v)'
<1> DEFINE e == tx.event
<1>1. /\ tx.stage = "open" /\ tx' = NoTx /\ tx'.stage = "none"
      /\ UNCHANGED <<kind, now, row, live>>
      /\ wire' = IF tx.early THEN Voided ELSE wire
  BY DEF Rollback, Quiet, NoTx
<1>2. /\ row \in Visit /\ wire \in Seq(Event) /\ tx.new \in Visit /\ e \in Event
      /\ tx.early \in BOOLEAN /\ Changes(row, tx.new, e)
      /\ tx.early <=> e.name \notin Announced
  BY <1>1, Types, TxFields DEF WireInv
<1>3. ~Ahead' /\ Coming' = row /\ (Ahead <=> tx.early) /\ Pending'
  BY <1>1 DEF Ahead, Coming, Pending
<1>4. CASE ~tx.early
  <2>1. wire' = wire /\ Coming = row /\ ~Ahead
    BY <1>1, <1>3, <1>4 DEF Coming
  <2>2. WireInv'
    BY <1>1, <1>3, <2>1 DEF WireInv
  <2>3. ASSUME NEW v \in Visit \cup {NONE}, Settles(v) PROVE Settles(v)'
    <3>1. Roused(v) => Roused(v)'
      BY <1>1, <2>1 DEF Roused, Rouses
    <3>2. Fits(v) => Fits(v)'
      BY <1>1, <1>3, <2>1 DEF Fits, Queue
    <3> QED BY <1>1, <2>3, <3>1, <3>2 DEF Settles
  <2> QED BY <1>3, <2>2, <2>3 DEF Calm
<1>5. CASE tx.early
  <2>1. Ahead /\ Coming = tx.new /\ Ends(wire, tx.new) /\ (wire # <<>> => wire[Len(wire)] = e)
    BY <1>3, <1>5 DEF Coming, WireInv
  <2>2. wire' \in Seq(Event)
    <3>1. PaintInv'
      BY RollbackOnTime
    <3> QED BY <3>1 DEF PaintInv, ScreensInv
  <2>3. wire' = Voided
    BY <1>1, <1>5
  <2>4. Revokes(wire, e, wire')
    BY <1>2, <2>2, <2>3, VoidedRevokes
  <2> HIDE DEF e
  <2>5. Ends(wire', row)
    <3> DEFINE new == tx.new
               x == wire'
    <3>1. /\ wire \in Seq(Event) /\ row \in Visit /\ new \in Visit /\ e \in Event
          /\ Ends(wire, new) /\ Changes(row, new, e)
          /\ wire # <<>> => wire[Len(wire)] = e
          /\ Revokes(wire, e, x)
      BY <1>2, <2>1, <2>4
    <3> HIDE DEF new, x
    <3>2. Ends(x, row)
      BY <3>1, VoidEnds
    <3> QED BY <3>2 DEF x
  <2>6. Len(wire') = Len(wire) /\ Len(wire) \in Nat
    BY <1>2, <2>4 DEF Revokes
  <2>7. WireInv'
    <3>1. (~live => wire = <<>>)'
      <4>1. ~live' => Len(wire) = 0
        BY <1>1 DEF WireInv
      <4>2. Len(wire') = 0 => wire' = <<>>
        BY <2>2, EmptySeq
      <4> QED BY <2>6, <4>1, <4>2
    <3>2. Ends(wire, Coming)'
      BY <1>3, <2>5
    <3>3. tx'.stage # "open" /\ tx'.stage # "announce" /\ ~Ahead'
      BY <1>1, <1>3
    <3> QED BY <3>1, <3>2, <3>3 DEF WireInv
  <2>8. ASSUME NEW v \in Visit \cup {NONE}, Settles(v), Pending PROVE Settles(v)'
    <3> SUFFICES ASSUME live PROVE Roused(v)' \/ Fits(v)'
      BY <1>1 DEF Settles
    <3>1. ASSUME NEW i \in 1 .. Len(wire), Rouses(v, wire[i])
          PROVE  Roused(v)'
      <4>1. /\ i \in 1 .. Len(wire') /\ wire'[i].name = wire[i].name
            /\ wire[i].void => wire'[i].void
        BY <2>4 DEF Revokes
      <4>2. Rouses(v, wire[i])'
        BY <1>1, <3>1, <4>1 DEF Rouses
      <4> QED BY <4>1, <4>2 DEF Roused
    <3>2. CASE Roused(v)
      BY <1>1, <3>1, <3>2 DEF Roused
    <3>3. CASE Fits(v)
      <4>1. kind # "kitchen" /\ Matches(v, tx.new, wire)
        BY <2>1, <3>3 DEF Fits
      <4>2. CASE e.name = "acked"
        <5>1. ASSUME NEW name, Has(wire, name) PROVE Has(wire', name)
          BY <2>4, <5>1 DEF Has, Revokes
        <5>2. Matches(v, row, wire')
          BY <1>2, <4>1, <4>2, <5>1 DEF Matches, Changes
        <5> QED BY <1>1, <1>3, <4>1, <5>2 DEF Fits
      <4>3. CASE e.name # "acked"
        <5>1. wire # <<>>
          BY <2>1, <2>8, <4>3 DEF Pending, e
        <5>2. Len(wire) \in 1 .. Len(wire) /\ wire[Len(wire)] = e
          BY <1>2, <2>1, <5>1
        <5>3. wire'[Len(wire)].name = e.name /\ wire'[Len(wire)].void
          BY <2>4, <5>2 DEF Revokes
        <5>4. e.name \in {"recomputed", "accepted", "food_out"}
          BY <1>2, <1>5, <4>3 DEF Event, Announced
        <5>5. Rouses(v, wire[Len(wire)])'
          BY <2>6, <5>3, <5>4 DEF Rouses
        <5> QED BY <2>6, <5>2, <5>5 DEF Roused
      <4> QED BY <4>2, <4>3
    <3> QED BY <2>8, <3>2, <3>3 DEF Settles
  <2> QED BY <1>3, <1>5, <2>7, <2>8
<1> QED BY <1>2, <1>4, <1>5 DEF Calm

\* Without a connection, nothing is on the wire and any screen is settled.
LEMMA OfflineSettles ==
  ASSUME PaintInv, WireInv, ~live', wire' = <<>>, row' = row, tx' \in {tx, NoTx}
  PROVE  WireInv' /\ Calm /\ Pending'
<1>1. Ends(wire', Coming')
  BY NoEnds
<1>2. tx'.stage = "open" \/ tx'.stage = "announce" => tx' = tx
  BY DEF NoTx
<1>3. WireInv'
  BY <1>1, <1>2 DEF WireInv
<1> QED BY <1>3 DEF Calm, Settles, Pending

LEMMA OpenSettles == ASSUME WireInv, Open PROVE WireInv'
<1>1. /\ UNCHANGED <<row, tx, wire>> /\ wire = <<>>
  BY DEF Open, WireInv
<1>2. Ends(wire', Coming')
  BY <1>1, NoEnds
<1> QED BY <1>1, <1>2 DEF WireInv, Ahead

\* Time alone changes a kitchen's list only when a ticket becomes due.
LEMMA TickSettles ==
  ASSUME PaintInv, WireInv, Tick
  PROVE  /\ WireInv' /\ (Pending => Pending')
         /\ \/ Calm /\ UNCHANGED <<fetch, blurred>>
            \/ fetch' = Overtaken(fetch) /\ blurred'
<1> DEFINE due == kind = "kitchen" /\ row.target # NONE /\ row.target = now + 1
                    /\ row.status \in {"confirmed", "kitchen_started"}
<1>1. /\ UNCHANGED <<kind, row, tx, live, wire>> /\ now' = now + 1
      /\ fetch' = (IF due THEN Overtaken(fetch) ELSE fetch)
  BY DEF Tick
<1>2. blurred' <=> blurred \/ due
  BY DEF Tick
<1>3. (Ahead' <=> Ahead) /\ Coming' = Coming
  BY <1>1 DEF Ahead, Coming
<1>4. WireInv' /\ (Pending => Pending')
  BY <1>1, <1>3 DEF WireInv, Pending
<1>5. CASE ~due
  <2>1. blurred' = blurred
    <3>1. blurred \in BOOLEAN /\ blurred' \in BOOLEAN
      <4>1. PaintInv'
        BY TickOnTime
      <4> QED BY <4>1, Types DEF PaintInv, ScreensInv
    <3> QED BY <1>2, <1>5, <3>1
  <2>2. kind = "kitchen" => Queue' = Queue
    <3> SUFFICES ASSUME kind = "kitchen", row.target # NONE,
                        row.status \in {"confirmed", "kitchen_started"}
                 PROVE  row.target <= now' <=> row.target <= now
      BY <1>1 DEF Queue
    <3>1. row.target \in Nat /\ now \in Nat
      <4>1. row \in Visit /\ now \in 0 .. MaxClock
        BY DEF PaintInv, ScreensInv
      <4>2. row.target \in Times
        BY <4>1, VisitFields
      <4>3. now \in Nat
        BY <4>1, ScreensAssumption
      <4>4. row.target \in Nat
        BY <4>2, ScreensAssumption
      <4> QED BY <4>3, <4>4
    <3> QED BY <1>1, <1>5, <3>1
  <2>3. \A v \in Visit \cup {NONE} : Settles(v) => Settles(v)'
    BY <1>1, <1>3, <2>2 DEF Settles, Roused, Rouses, Fits
  <2> QED BY <1>1, <1>4, <1>5, <2>1, <2>3 DEF Calm
<1> QED BY <1>1, <1>2, <1>4, <1>5

LEMMA TailRouses ==
  ASSUME PaintInv, wire # <<>>, wire' = Tail(wire), UNCHANGED <<kind, tx>>,
         NEW v, NEW u, v = NONE => u = NONE, ~Rouses(v, Head(wire)), Roused(v)
  PROVE  Roused(u)'
<1>1. wire \in Seq(Event)
  BY Types
<1>2. /\ Len(wire) \in Nat \ {0} /\ Len(Tail(wire)) = Len(wire) - 1 /\ wire[1] = Head(wire)
      /\ \A i \in 1 .. (Len(wire) - 1) : Tail(wire)[i] = wire[i + 1]
  BY <1>1
<1>3. ASSUME NEW m, Rouses(v, m) PROVE Rouses(u, m)'
  BY <1>3 DEF Rouses
<1>4. CASE \E i \in 1 .. Len(wire) : Rouses(v, wire[i])
  <2>1. PICK i \in 1 .. Len(wire) : Rouses(v, wire[i])
    BY <1>4
  <2>2. i # 1
    BY <1>2, <2>1
  <2>3. i - 1 \in 1 .. (Len(wire) - 1) /\ (i - 1) + 1 = i
    BY <1>2, <2>2
  <2>4. i - 1 \in 1 .. Len(wire') /\ wire'[i - 1] = wire[i]
    <3>1. Tail(wire)[i - 1] = wire[(i - 1) + 1]
      BY <1>2, <2>3
    <3> QED BY <1>2, <2>3, <3>1
  <2> DEFINE m == wire[i]
  <2>5. Rouses(v, m)
    BY <2>1
  <2>6. kind' = kind
    OBVIOUS
  <2> HIDE DEF m
  <2>7. Rouses(u, wire[i - 1])'
    <3>1. wire'[i - 1] = m
      BY <2>4 DEF m
    <3> QED BY <2>5, <2>6, <3>1 DEF Rouses
  <2> QED BY <2>4, <2>7 DEF Roused
<1>5. CASE tx.stage = "announce" /\ Rouses(v, tx.event)
  BY <1>5 DEF Roused, Rouses
<1> QED BY <1>4, <1>5 DEF Roused

\* A message is taken from the wire.
LEMMA TakenSettles ==
  ASSUME PaintInv, WireInv, OnMessage
  PROVE  /\ WireInv'
         /\ Head(wire).name \in {"acked", "confirmed"} /\ Pending => Pending'
<1>1. /\ live /\ wire # <<>> /\ wire' = Tail(wire) /\ wire \in Seq(Event)
      /\ UNCHANGED <<kind, now, row, tx, live>>
  BY Types DEF OnMessage, Quiet
<1>2. (Ahead' <=> Ahead) /\ Coming' = Coming
  BY <1>1 DEF Ahead, Coming
<1>3. Ends(wire', Coming')
  BY <1>1, <1>2, TailEnds DEF WireInv
<1>4. /\ Len(wire) \in Nat \ {0} /\ Len(wire') = Len(wire) - 1 /\ wire[1] = Head(wire)
      /\ \A i \in 1 .. (Len(wire) - 1) : wire'[i] = wire[i + 1]
  BY <1>1
<1>5. wire' \in Seq(Event)
  BY <1>1
<1>6. wire' # <<>> => Len(wire') # 0 /\ wire'[Len(wire')] = wire[Len(wire)]
  <2> SUFFICES ASSUME wire' # <<>>
               PROVE  Len(wire') # 0 /\ wire'[Len(wire')] = wire[Len(wire)]
    OBVIOUS
  <2>1. Len(wire') # 0
    BY <1>5, EmptySeq
  <2>2. Len(wire) - 1 \in 1 .. (Len(wire) - 1) /\ (Len(wire) - 1) + 1 = Len(wire)
    BY <1>4, <2>1
  <2>3. wire'[Len(wire) - 1] = wire[(Len(wire) - 1) + 1]
    BY <1>4, <2>2
  <2> QED BY <1>4, <2>1, <2>2, <2>3
<1>7. WireInv'
  BY <1>1, <1>2, <1>3, <1>6 DEF WireInv
<1>8. ASSUME Head(wire).name \in {"acked", "confirmed"}, Pending, Ahead', live', wire' = <<>>
      PROVE  tx'.event.name = "acked"
  <2>1. Len(wire) = 1
    BY <1>4, <1>8
  <2>2. Ahead /\ Head(wire) = tx.event
    BY <1>1, <1>2, <1>4, <1>8, <2>1 DEF WireInv
  <2>3. tx.event.name \notin Announced
    BY <2>2 DEF WireInv, Ahead
  <2> QED BY <1>1, <1>8, <2>2, <2>3 DEF Announced
<1> QED BY <1>7, <1>8 DEF Pending

\* It tells the dashboard nothing.
LEMMA DroppedSettles ==
  ASSUME PaintInv, WireInv, OnMessage, kind = "dashboard",
         Head(wire).name \in {"acked", "confirmed"},
         NEW v, Head(wire).name = "confirmed" => v # NONE, Settles(v)
  PROVE  Settles(v)'
<1>1. /\ live /\ wire # <<>> /\ wire' = Tail(wire) /\ wire \in Seq(Event)
      /\ UNCHANGED <<kind, now, row, tx, live>>
  BY Types DEF OnMessage, Quiet
<1>2. Coming' = Coming
  BY <1>1 DEF Coming, Ahead
<1>3. ~Rouses(v, Head(wire))
  BY DEF Rouses
<1>4. CASE Roused(v)
  BY <1>1, <1>3, <1>4, TailRouses DEF Settles
<1>5. CASE Fits(v)
  <2>1. /\ Has(wire, "recomputed") <=> Has(Tail(wire), "recomputed")
        /\ Has(wire, "accepted") <=> Has(Tail(wire), "accepted")
    BY <1>1, TailHas
  <2>2. Matches(v, Coming, wire)
    BY <1>5 DEF Fits
  <2>3. Matches(v, Coming, wire)'
    BY <1>1, <1>2, <2>1, <2>2 DEF Matches
  <2> QED BY <1>1, <2>3 DEF Fits, Settles
<1> QED BY <1>1, <1>4, <1>5 DEF Settles

\* It tells the dashboard of a change, which the list now shows.
LEMMA PatchedSettles ==
  ASSUME PaintInv, WireInv, OnMessage, Patches(Head(wire)), ~Head(wire).void,
         shown' = Patched(Head(wire)), Settles(shown)
  PROVE  Settles(shown)'
<1> DEFINE m == Head(wire)
<1>1. /\ live /\ wire # <<>> /\ wire' = Tail(wire) /\ wire \in Seq(Event)
      /\ UNCHANGED <<kind, now, row, tx, live>>
      /\ kind = "dashboard" /\ m.name \in {"recomputed", "accepted"} /\ ~m.void
      /\ shown \in Visit /\ shown' = Patched(m)
  BY Types DEF OnMessage, Quiet, Patches
<1>2. Coming' = Coming
  BY <1>1 DEF Coming, Ahead
<1>3. shown' \in Visit /\ shown # NONE /\ shown' # NONE
  <2>1. m \in Event
    BY <1>1
  <2>2. shown' \in Visit
    <3>1. m.target \in Times \cup {NONE}
      BY <2>1 DEF Event
    <3> HIDE DEF m
    <3> QED BY <1>1, <3>1, VisitFields DEF Patched
  <2> QED BY <1>1, <2>2, NoVisitAssumption
<1>4. ~Rouses(shown, Head(wire))
  BY <1>1, <1>3 DEF Rouses
<1>5. CASE Roused(shown)
  <2>1. PICK v \in Visit : v = shown
    BY <1>1
  <2>2. PICK u \in Visit : u = shown'
    BY <1>3
  <2>3. /\ wire # <<>> /\ wire' = Tail(wire) /\ UNCHANGED <<kind, tx>>
        /\ (v = NONE => u = NONE) /\ ~Rouses(v, Head(wire)) /\ Roused(v)
    BY <1>1, <1>3, <1>4, <1>5, <2>1, <2>2
  <2>4. Roused(u)'
    BY <2>3, TailRouses
  <2>5. Roused(shown)'
    BY <2>2, <2>4 DEF Roused, Rouses
  <2> QED BY <2>5 DEF Settles
<1>6. CASE Fits(shown)
  <2>1. Matches(shown, Coming, wire)
    BY <1>1, <1>6 DEF Fits
  <2>2. /\ Len(wire) \in Nat \ {0} /\ Len(wire') = Len(wire) - 1 /\ wire[1] = m
        /\ \A i \in 1 .. (Len(wire) - 1) : wire'[i] = wire[i + 1]
    BY <1>1
  <2>3. ASSUME NEW name, \E j \in 2 .. Len(wire) : wire[j].name = name
        PROVE  \E i \in 1 .. Len(wire') : wire'[i].name = name
    <3>1. PICK j \in 2 .. Len(wire) : wire[j].name = name
      BY <2>3
    <3>2. j - 1 \in 1 .. (Len(wire) - 1) /\ (j - 1) + 1 = j
      BY <2>2, <3>1
    <3>3. wire'[j - 1] = wire[(j - 1) + 1]
      BY <2>2, <3>2
    <3> QED BY <2>2, <3>1, <3>2, <3>3
  <2>4. /\ m.name = "recomputed" => m.target = Coming.target \/ Has(wire', "recomputed")
        /\ m.name = "accepted" => \/ Coming.status = "kitchen_started"
                                  \/ \E i \in 1 .. Len(wire') : wire'[i].name = "food_out"
    <3>1. 1 \in 1 .. Len(wire) /\ 1 + 1 = 2
      BY <2>2
    <3>2. /\ wire[1].name = "recomputed" =>
                \/ wire[1].void \/ wire[1].target = Coming.target
                \/ \E j \in 2 .. Len(wire) : wire[j].name = "recomputed"
          /\ wire[1].name = "accepted" =>
                \/ wire[1].void \/ Coming.status = "kitchen_started"
                \/ \E j \in 2 .. Len(wire) : wire[j].name = "food_out"
      BY <3>1 DEF WireInv, Ends
    <3> HIDE DEF m
    <3> QED BY <1>1, <2>2, <2>3, <3>2 DEF Has
  <2>5. /\ m.name = "accepted" /\ Has(wire, "recomputed") => Has(wire', "recomputed")
        /\ m.name = "recomputed" /\ Has(wire, "accepted") => Has(wire', "accepted")
    BY <1>1, TailHas
  <2> HIDE DEF m
  <2>6. CASE m.name = "recomputed"
    <3>1. shown' = [shown EXCEPT !.target = m.target]
      BY <1>1, <2>6 DEF Patched
    <3>2. /\ shown'.target = m.target /\ shown'.status = shown.status
          /\ shown'.table = shown.table /\ shown'.details = shown.details
          /\ shown'.flagged = shown.flagged /\ shown'.acked = shown.acked
      BY <1>1, <3>1, VisitFields
    <3>3. Matches(shown', Coming, wire')
      BY <1>3, <2>1, <2>4, <2>5, <2>6, <3>2 DEF Matches
    <3> QED BY <1>1, <1>2, <3>3 DEF Settles, Fits, Matches
  <2>7. CASE m.name = "accepted"
    <3>1. shown' = [shown EXCEPT !.status = "kitchen_started"]
      BY <1>1, <2>7 DEF Patched
    <3>2. /\ shown'.status = "kitchen_started" /\ shown'.target = shown.target
          /\ shown'.table = shown.table /\ shown'.details = shown.details
          /\ shown'.flagged = shown.flagged /\ shown'.acked = shown.acked
      BY <1>1, <3>1, VisitFields
    <3>3. CASE Coming.status = "kitchen_started"
      <4>1. Matches(shown', Coming, wire')
        BY <1>3, <2>1, <2>5, <2>7, <3>2, <3>3 DEF Matches
      <4> QED BY <1>1, <1>2, <4>1 DEF Settles, Fits, Matches
    <3>4. CASE \E i \in 1 .. Len(wire') : wire'[i].name = "food_out"
      <4>1. \E i \in 1 .. Len(wire') : Rouses(shown, wire[i])'
        BY <3>4 DEF Rouses
      <4> QED BY <4>1 DEF Settles, Roused
    <3> QED BY <2>4, <2>7, <3>3, <3>4
  <2> QED BY <1>1, <2>6, <2>7
<1> QED BY <1>1, <1>5, <1>6 DEF Settles

-----------------------------------------------------------------------------
(* What is shown and what is about to be                                    *)

LEMMA ReadFields ==
  ASSUME PaintInv, NEW f \in Fetches, IsRead(f)
  PROVE  fetch[f] \in [stage : {"read"}, view : Visit \cup {NONE}, late : BOOLEAN,
                       early : BOOLEAN, older : SUBSET Fetches]
BY Types DEF FetchState, IsRead, IdleFetch

\* Steps that leave the list and the refetches alone.
LEMMA CalmTrue ==
  ASSUME PaintInv, TrueInv, WireInv', UNCHANGED <<fetch, shown, known>>,
         ~blurred' => ~blurred /\ (Settles(shown) => Settles(shown)'),
         \A f \in Fetches : IsRead(f) /\ ~fetch[f].late /\ Settles(fetch[f].view) /\ Pending
                               => Settles(fetch[f].view)' /\ Pending'
  PROVE  TrueInv'
<1>1. (known <=> shown # NONE)'
  BY DEF TrueInv
<1>2. Busy' = Busy /\ \A f \in Fetches : (Covered(f)' <=> Covered(f)) /\ (IsRead(f)' <=> IsRead(f))
  BY DEF Busy, Covered, IsRead
<1>3. (~blurred => Settles(shown) \/ Busy)'
  BY <1>2 DEF TrueInv
<1>4. ASSUME NEW f \in Fetches, IsRead(f)', ~fetch'[f].late, ~fetch'[f].early
      PROVE  Covered(f)' \/ (Settles(fetch[f].view) /\ Pending)'
  <2>1. IsRead(f) /\ ~fetch[f].late /\ ~fetch[f].early
    BY <1>2, <1>4
  <2>2. Covered(f) \/ (Settles(fetch[f].view) /\ Pending)
    BY <2>1 DEF TrueInv
  <2> QED BY <1>2, <2>1, <2>2
<1> QED BY <1>1, <1>3, <1>4 DEF TrueInv

\* A refetch that is asked for will overtake every answer that is there.
LEMMA AskTrue ==
  ASSUME PaintInv, Ask, WireInv', known' <=> shown' # NONE
  PROVE  TrueInv'
<1> DEFINE a == CHOOSE f \in IdleFetches : TRUE
<1>1. a \in IdleFetches /\ fetch' = [fetch EXCEPT ![a] = [stage |-> "asked"]]
  BY DEF Ask
<1>2. a \in Fetches /\ fetch \in [Fetches -> FetchState]
  BY <1>1, Types DEF IdleFetches
<1> HIDE DEF a
<1>3. fetch'[a].stage = "asked"
  BY <1>1, <1>2
<1>4. Busy'
  BY <1>2, <1>3 DEF Busy
<1>5. \A f \in Fetches : IsRead(f)' => Covered(f)'
  BY <1>2, <1>3 DEF IsRead, Covered
<1> QED BY <1>4, <1>5 DEF TrueInv

\* Answers that are overtaken no longer count.
LEMMA LateTrue ==
  ASSUME WireInv', known' <=> shown' # NONE, ~blurred' => Settles(shown)' \/ Busy,
         \A f \in Fetches : fetch'[f].stage = fetch[f].stage,
         \A f \in Fetches : IsRead(f)' => fetch'[f].late
  PROVE  TrueInv'
<1>1. Busy => Busy'
  BY DEF Busy
<1> QED BY <1>1 DEF TrueInv

\* A refetch ends: those that are not spoilt by it are as good as they were.
LEMMA EndCovers ==
  ASSUME PaintInv, TrueInv, NEW f \in Fetches, Kept, ~IsRead(f)',
         \A g \in Fetches \ {f} : fetch'[g].stage = fetch[g].stage,
         \A g \in Fetches : IsRead(g)' /\ (fetch[f].stage = "asked" \/ g \in fetch[f].older)
                               => fetch'[g].late,
         UNCHANGED <<kind, now, row, tx, live, wire>>,
         NEW g \in Fetches, IsRead(g)', ~fetch'[g].late, ~fetch'[g].early
  PROVE  Covered(g)' \/ (Settles(fetch[g].view) /\ Pending)'
<1>1. /\ g # f /\ IsRead(g) /\ ~fetch[g].late /\ ~fetch[g].early
      /\ fetch'[g].view = fetch[g].view
      /\ fetch[f].stage # "asked" /\ g \notin fetch[f].older
  BY DEF Kept
<1>2. CASE Covered(g)
  <2>1. PICK h \in Fetches \ {g} : fetch[h].stage = "asked" \/ (IsRead(h) /\ g \in fetch[h].older)
    BY <1>2 DEF Covered
  <2>2. h # f
    BY <1>1, <2>1
  <2>3. fetch'[h].stage = fetch[h].stage
    BY <2>2
  <2>4. IsRead(h) /\ g \in fetch[h].older => IsRead(h)' /\ g \in fetch'[h].older
    BY <2>3 DEF Kept, IsRead
  <2> QED BY <2>1, <2>3, <2>4 DEF Covered
<1>3. CASE Settles(fetch[g].view) /\ Pending
  <2> DEFINE v == fetch[g].view
  <2>1. v \in Visit \cup {NONE}
    BY <1>1, ReadFields
  <2>2. PICK u \in Visit \cup {NONE} : u = v
    BY <2>1
  <2>3. Settles(u)' /\ Pending'
    BY <1>3, <2>2, SameSettles DEF Calm
  <2>4. fetch'[g].view = u
    BY <1>1, <2>2
  <2>5. Settles(fetch[g].view)'
    BY <2>3, <2>4 DEF Settles, Roused, Rouses, Fits, Matches
  <2> QED BY <2>3, <2>5
<1> QED BY <1>1, <1>2, <1>3 DEF TrueInv

LEMMA AnswerTrue ==
  ASSUME PaintInv, TrueInv, NEW f \in Fetches, Answer(f)
  PROVE  TrueInv'
<1>1. /\ Kept /\ ~IsRead(f)'
      /\ \A g \in Fetches \ {f} : fetch'[g].stage = fetch[g].stage
      /\ \A g \in Fetches : IsRead(g)' /\ g \in fetch[f].older => fetch'[g].late
  BY AnswerKeeps
<1>2. /\ UNCHANGED <<kind, now, row, tx, live, wire>>
      /\ IsRead(f) /\ shown' = fetch[f].view
  BY DEF Answer, Quiet, IsRead
<1>3. (known <=> shown # NONE)'
  BY DEF Answer
<1>4. blurred' <=> fetch[f].late \/ fetch[f].early
  BY DEF Answer
<1>5. WireInv'
  BY <1>2, SameSettles DEF TrueInv
<1>6. fetch[f].stage # "asked"
  BY <1>2 DEF IsRead
<1>7. \A g \in Fetches : IsRead(g)' /\ ~fetch'[g].late /\ ~fetch'[g].early
                            => Covered(g)' \/ (Settles(fetch[g].view) /\ Pending)'
  BY <1>1, <1>2, <1>6, EndCovers
<1>8. ASSUME ~blurred' PROVE Settles(shown)' \/ Busy'
  <2>1. Covered(f) \/ Settles(fetch[f].view)
    BY <1>2, <1>4, <1>8 DEF TrueInv
  <2>2. CASE Covered(f)
    <3>1. PICK h \in Fetches \ {f} : fetch[h].stage = "asked" \/ IsRead(h)
      BY <2>2 DEF Covered
    <3>2. fetch'[h].stage # "idle"
      BY <1>1, <3>1 DEF IsRead
    <3> QED BY <3>2 DEF Busy
  <2>3. CASE Settles(fetch[f].view)
    <3>1. fetch[f].view \in Visit \cup {NONE}
      BY <1>2, ReadFields
    <3>2. PICK u \in Visit \cup {NONE} : u = fetch[f].view
      BY <3>1
    <3>3. Settles(u)'
      BY <1>2, <2>3, <3>2, SameSettles DEF Calm
    <3>4. Settles(shown)'
      BY <1>2, <3>2, <3>3 DEF Settles, Roused, Rouses, Fits, Matches
    <3> QED BY <3>4
  <2> QED BY <2>1, <2>2, <2>3
<1> QED BY <1>3, <1>5, <1>7, <1>8 DEF TrueInv

LEMMA FailureTrue ==
  ASSUME PaintInv, TrueInv, NEW f \in Fetches, FetchFails(f)
  PROVE  TrueInv'
<1>1. /\ Kept /\ ~IsRead(f)'
      /\ \A g \in Fetches \ {f} : fetch'[g].stage = fetch[g].stage
      /\ \A g \in Fetches : IsRead(g)' /\ (fetch[f].stage = "asked" \/ g \in fetch[f].older)
                               => fetch'[g].late
  BY FailureKeeps
<1>2. UNCHANGED <<kind, now, row, tx, live, wire, shown, known>> /\ blurred'
  BY DEF FetchFails, Quiet
<1>3. WireInv'
  BY <1>2, SameSettles DEF TrueInv
<1>4. \A g \in Fetches : IsRead(g)' /\ ~fetch'[g].late /\ ~fetch'[g].early
                            => Covered(g)' \/ (Settles(fetch[g].view) /\ Pending)'
  BY <1>1, <1>2, EndCovers
<1> QED BY <1>2, <1>3, <1>4 DEF TrueInv

LEMMA ViewFits == ASSUME PaintInv, ~Ahead PROVE Fits(View)
<1>1. CASE kind = "kitchen"
  BY <1>1 DEF View, Fits
<1>2. CASE kind # "kitchen"
  <2>1. kind = "dashboard" /\ row \in Visit /\ Coming = row
    BY <1>2 DEF PaintInv, ScreensInv, Coming
  <2>2. View = NONE <=> row.status = "draft"
    BY <2>1, DashboardView DEF Booked
  <2>3. ASSUME View # NONE
        PROVE  /\ View.status = row.status /\ View.target = row.target
               /\ View.table = row.table /\ View.details = row.details
               /\ View.flagged = row.flagged /\ View.acked = FALSE
    <3>1. View = [row EXCEPT !.acked = FALSE]
      BY <2>1, <2>3 DEF View, Inbound
    <3> QED BY <2>1, <3>1, VisitFields
  <2>4. Matches(View, Coming, wire)
    BY <2>1, <2>2, <2>3 DEF Matches
  <2> QED BY <1>2, <2>4 DEF Fits
<1> QED BY <1>1, <1>2

LEMMA ReadTrue ==
  ASSUME PaintInv, TrueInv, NEW f \in Fetches, Read(f)
  PROVE  TrueInv'
<1>1. /\ ~IsRead(f) /\ IsRead(f)'
      /\ fetch'[f].view = View
      /\ fetch'[f].early <=> Ahead
      /\ \A g \in Fetches : IsRead(g) => g \in fetch'[f].older
      /\ \A g \in Fetches \ {f} : fetch'[g] = fetch[g]
  BY ReadOnTime DEF Ahead
<1>2. UNCHANGED <<kind, now, row, tx, live, wire, shown, known, blurred>>
  BY DEF Read, Quiet
<1>3. WireInv' /\ Calm /\ (Pending => Pending') /\ (Ahead' <=> Ahead)
  BY <1>2, SameSettles DEF TrueInv, Ahead
<1>4. Busy'
  BY <1>1 DEF Busy, IsRead
<1>5. ASSUME NEW g \in Fetches, IsRead(g)', ~fetch'[g].late, ~fetch'[g].early
      PROVE  Covered(g)' \/ (Settles(fetch[g].view) /\ Pending)'
  <2>1. CASE g = f
    <3>1. ~Ahead
      BY <1>1, <1>5, <2>1
    <3>2. Fits(View)
      BY <3>1, ViewFits
    <3>3. View \in Visit \cup {NONE}
      BY ViewOnTime
    <3>4. PICK u \in Visit \cup {NONE} : u = View
      BY <3>3
    <3>5. Settles(u)
      BY <3>2, <3>4 DEF Settles
    <3>6. Settles(u)'
      BY <1>3, <3>5 DEF Calm
    <3>7. fetch'[g].view = u
      BY <1>1, <2>1, <3>4
    <3>8. Settles(fetch[g].view)'
      BY <3>6, <3>7 DEF Settles, Roused, Rouses, Fits, Matches
    <3> QED BY <1>3, <3>1, <3>8 DEF Pending
  <2>2. CASE g # f
    <3>1. fetch'[g] = fetch[g] /\ IsRead(g) /\ ~fetch[g].late /\ ~fetch[g].early
      BY <1>1, <1>5, <2>2 DEF IsRead
    <3>2. CASE Covered(g)
      <4>1. PICK h \in Fetches \ {g} :
               fetch[h].stage = "asked" \/ (IsRead(h) /\ g \in fetch[h].older)
        BY <3>2 DEF Covered
      <4>2. CASE h = f
        BY <1>1, <2>2, <3>1, <4>2 DEF Covered
      <4>3. CASE h # f
        BY <1>1, <4>1, <4>3 DEF Covered, IsRead
      <4> QED BY <4>2, <4>3
    <3>3. CASE Settles(fetch[g].view) /\ Pending
      <4>1. fetch[g].view \in Visit \cup {NONE}
        BY <3>1, ReadFields
      <4>2. PICK u \in Visit \cup {NONE} : u = fetch[g].view
        BY <4>1
      <4>3. Settles(u)'
        BY <1>3, <3>3, <4>2 DEF Calm
      <4>4. Settles(fetch[g].view)'
        BY <3>1, <4>2, <4>3 DEF Settles, Roused, Rouses, Fits, Matches
      <4> QED BY <1>3, <3>3, <4>4
    <3> QED BY <3>1, <3>2, <3>3 DEF TrueInv
  <2> QED BY <2>1, <2>2
<1> QED BY <1>2, <1>3, <1>4, <1>5 DEF TrueInv

LEMMA OnMessageTrue ==
  ASSUME PaintInv, OrderInv, TrueInv, OnMessage
  PROVE  TrueInv'
<1> DEFINE m == Head(wire)
<1>1. /\ live /\ wire # <<>> /\ wire' = Tail(wire) /\ m \in Event
      /\ UNCHANGED <<kind, now, row, tx, live, known>>
      /\ kind \in {"dashboard", "kitchen"}
  BY Types DEF OnMessage, Quiet, PaintInv, ScreensInv
<1>2. WireInv' /\ (m.name \in {"acked", "confirmed"} /\ Pending => Pending')
  BY TakenSettles DEF TrueInv
<1>3. known <=> shown # NONE
  BY DEF TrueInv
<1>4. CASE NeedsRefetch(m)
  <2>1. Ask /\ UNCHANGED <<shown, blurred>>
    BY <1>4 DEF OnMessage
  <2>2. known' <=> shown' # NONE
    BY <1>1, <1>3, <2>1
  <2> QED BY <1>2, <2>1, <2>2, AskTrue
<1>5. CASE ~NeedsRefetch(m)
  <2>1. /\ shown' = IF Patches(m) THEN Patched(m) ELSE shown
        /\ fetch' = IF Patches(m) \/ m.name = "food_out" THEN Overtaken(fetch) ELSE fetch
    BY <1>5 DEF OnMessage
  <2>2. kind = "dashboard"
    BY <1>1, <1>5 DEF NeedsRefetch
  <2>3. blurred' <=> blurred \/ m.void \/ m.name = "food_out"
    BY <1>5, <2>2 DEF OnMessage
  <2>4. CASE Patches(m)
    <3>1. shown' = Patched(m) /\ fetch' = Overtaken(fetch)
      BY <2>1, <2>4
    <3>2. known' <=> shown' # NONE
      <4>1. shown \in Visit /\ shown # NONE
        BY <2>4, Types DEF Patches
      <4>2. shown' \in Visit
        <5>1. m.target \in Times \cup {NONE}
          BY <1>1 DEF Event
        <5> HIDE DEF m
        <5> QED BY <3>1, <4>1, <5>1, VisitFields DEF Patched
      <4> QED BY <1>1, <1>3, <4>1, <4>2, NoVisitAssumption
    <3>3. /\ \A f \in Fetches : fetch'[f].stage = fetch[f].stage
          /\ \A f \in Fetches : IsRead(f)' => fetch'[f].late
      BY <3>1, OvertakenKeeps
    <3>4. ASSUME ~blurred' PROVE Settles(shown)' \/ Busy
      <4>1. ~blurred /\ ~m.void
        BY <2>3, <3>4
      <4>2. Settles(shown) \/ Busy
        BY <4>1 DEF TrueInv
      <4>3. Settles(shown) => Settles(shown)'
        BY <2>4, <3>1, <4>1, PatchedSettles DEF TrueInv
      <4> QED BY <4>2, <4>3
    <3> QED BY <1>2, <3>2, <3>3, <3>4, LateTrue
  <2>5. CASE ~Patches(m) /\ m.name = "food_out"
    <3>1. shown' = shown /\ fetch' = Overtaken(fetch) /\ blurred'
      BY <2>1, <2>3, <2>5
    <3>2. known' <=> shown' # NONE
      BY <1>1, <1>3, <3>1
    <3>3. /\ \A f \in Fetches : fetch'[f].stage = fetch[f].stage
          /\ \A f \in Fetches : IsRead(f)' => fetch'[f].late
      BY <3>1, OvertakenKeeps
    <3> QED BY <1>2, <3>1, <3>2, <3>3, LateTrue
  <2>6. CASE ~Patches(m) /\ m.name # "food_out"
    <3>1. UNCHANGED <<fetch, shown, known>>
      BY <1>1, <2>1, <2>6
    <3>2. m.name \in {"acked", "confirmed"} /\ (m.name = "confirmed" => shown # NONE)
      BY <1>1, <1>5, <2>2, <2>6 DEF NeedsRefetch, Patches, Event
    <3>3. ASSUME NEW v, m.name = "confirmed" => v # NONE, Settles(v)
          PROVE  Settles(v)'
      BY <2>2, <3>2, <3>3, DroppedSettles DEF TrueInv
    <3>4. ~blurred' => ~blurred /\ (Settles(shown) => Settles(shown)')
      <4>1. PICK u \in Visit \cup {NONE} : u = shown
        BY Types
      <4>2. Settles(u) => Settles(u)'
        BY <3>2, <3>3, <4>1
      <4>3. Settles(shown) => Settles(shown)'
        BY <3>1, <4>1, <4>2 DEF Settles, Roused, Rouses, Fits, Matches
      <4> QED BY <2>3, <4>3
    <3>5. ASSUME NEW f \in Fetches, IsRead(f), ~fetch[f].late, Settles(fetch[f].view), Pending
          PROVE  Settles(fetch[f].view)' /\ Pending'
      <4>1. PICK u \in Visit \cup {NONE} : u = fetch[f].view
        BY <3>5, ReadFields
      <4>2. m.name = "confirmed" => u # NONE
        BY <1>3, <2>2, <3>2, <3>5, <4>1 DEF OrderInv, EmptyIsOlder
      <4>3. Settles(u)'
        BY <3>3, <3>5, <4>1, <4>2
      <4>4. Settles(fetch[f].view)'
        BY <3>1, <4>1, <4>3 DEF Settles, Roused, Rouses, Fits, Matches
      <4> QED BY <1>2, <3>2, <3>5, <4>4
    <3> QED BY <1>2, <3>1, <3>4, <3>5, CalmTrue
  <2> QED BY <2>4, <2>5, <2>6
<1> QED BY <1>4, <1>5

\* A step that is calm for any list is calm for what is shown and about to be.
LEMMA CalmForAll ==
  ASSUME PaintInv, UNCHANGED <<fetch, shown>>
  PROVE  /\ Calm => (Settles(shown) => Settles(shown)')
         /\ (\A v \in Visit \cup {NONE} : Settles(v) /\ Pending => Settles(v)') =>
               \A f \in Fetches : IsRead(f) /\ Settles(fetch[f].view) /\ Pending
                                     => Settles(fetch[f].view)'
<1>1. ASSUME Calm, Settles(shown) PROVE Settles(shown)'
  <2>1. PICK u \in Visit \cup {NONE} : u = shown
    BY Types
  <2>2. Settles(u)'
    BY <1>1, <2>1 DEF Calm
  <2> QED BY <2>1, <2>2 DEF Settles, Roused, Rouses, Fits, Matches
<1>2. ASSUME \A v \in Visit \cup {NONE} : Settles(v) /\ Pending => Settles(v)',
             NEW f \in Fetches, IsRead(f), Settles(fetch[f].view), Pending
      PROVE  Settles(fetch[f].view)'
  <2>1. PICK u \in Visit \cup {NONE} : u = fetch[f].view
    BY <1>2, ReadFields
  <2>2. Settles(u)'
    BY <1>2, <2>1
  <2> QED BY <2>1, <2>2 DEF Settles, Roused, Rouses, Fits, Matches
<1> QED BY <1>1, <1>2

\* Steps that leave list and refetches alone, or end with a refetch that is asked for.
LEMMA QuietTrue ==
  ASSUME PaintInv, TrueInv, WireInv', UNCHANGED <<shown, known>>,
         Ask \/ UNCHANGED fetch,
         ~blurred' => ~blurred /\ Calm,
         \A v \in Visit \cup {NONE} : Settles(v) /\ Pending => Settles(v)',
         Pending => Pending'
  PROVE  TrueInv'
<1>1. CASE Ask
  <2>1. known' <=> shown' # NONE
    BY DEF TrueInv
  <2> QED BY <1>1, <2>1, AskTrue
<1>2. CASE UNCHANGED fetch
  <2>1. ~blurred' => ~blurred /\ (Settles(shown) => Settles(shown)')
    BY <1>2, CalmForAll
  <2>2. \A f \in Fetches : IsRead(f) /\ ~fetch[f].late /\ Settles(fetch[f].view) /\ Pending
                              => Settles(fetch[f].view)' /\ Pending'
    BY <1>2, CalmForAll
  <2> QED BY <1>2, <2>1, <2>2, CalmTrue
<1> QED BY <1>1, <1>2

\* The picture is known to be false, whatever is in flight.
LEMMA SpoiltTrue ==
  ASSUME PaintInv, TrueInv, WireInv', Spoilt, UNCHANGED <<shown, known>>
  PROVE  TrueInv'
<1>1. fetch' = Overtaken(fetch) /\ blurred'
  BY DEF Spoilt
<1>2. known' <=> shown' # NONE
  BY DEF TrueInv
<1>3. /\ \A f \in Fetches : fetch'[f].stage = fetch[f].stage
      /\ \A f \in Fetches : IsRead(f)' => fetch'[f].late
  BY <1>1, OvertakenKeeps
<1> QED BY <1>1, <1>2, <1>3, LateTrue

LEMMA TrueStep ==
  ASSUME PaintInv, OrderInv, TrueInv, [ScreensNext]_screenVars
  PROVE  TrueInv'
<1>0. WireInv
  BY DEF TrueInv
<1>1. ASSUME Calm, WireInv', UNCHANGED <<shown, known, blurred>>, Ask \/ UNCHANGED fetch,
             Pending => Pending'
      PROVE  TrueInv'
  <2>1. \A v \in Visit \cup {NONE} : Settles(v) /\ Pending => Settles(v)'
    BY <1>1 DEF Calm
  <2> QED BY <1>1, <2>1, QuietTrue
<1>2. CASE Written
  <2>1. /\ WireInv' /\ Pending' /\ UNCHANGED <<shown, known>>
        /\ (Calm /\ UNCHANGED <<fetch, blurred>>) \/ Spoilt
    BY <1>0, <1>2, WriteSettles
  <2> QED BY <1>1, <2>1, SpoiltTrue
<1>3. CASE Refused \/ ActionFails
  <2>1. NothingDone
    BY <1>3 DEF Refused, ActionFails
  <2>2. Ask /\ UNCHANGED <<kind, now, row, tx, live, wire, shown, known, blurred>>
    BY <2>1 DEF NothingDone, Quiet
  <2> QED BY <1>0, <1>1, <2>2, SameSettles
<1>4. CASE Commit
  <2>1. UNCHANGED <<shown, known, blurred>> /\ (Ask \/ UNCHANGED fetch)
    BY <1>4 DEF Commit, ActionReturns
  <2> QED BY <1>0, <1>1, <1>4, <2>1, CommitSettles
<1>5. CASE Announce
  <2>1. UNCHANGED <<shown, known, blurred>> /\ (Ask \/ UNCHANGED fetch)
    BY <1>5 DEF Announce, ActionReturns
  <2> QED BY <1>0, <1>1, <1>5, <2>1, AnnounceSettles
<1>6. CASE Open
  <2>1. Ask /\ (known' <=> shown' # NONE)
    BY <1>6 DEF Open, TrueInv
  <2> QED BY <1>0, <1>6, <2>1, OpenSettles, AskTrue
<1>7. CASE OnMessage
  BY <1>7, OnMessageTrue
<1>8. ASSUME NEW f \in Fetches, Read(f) PROVE TrueInv'
  BY <1>8, ReadTrue
<1>9. ASSUME NEW f \in Fetches, Answer(f) PROVE TrueInv'
  BY <1>9, AnswerTrue
<1>10. CASE Tick
  <2>1. /\ WireInv' /\ (Pending => Pending')
        /\ \/ Calm /\ UNCHANGED <<fetch, blurred>>
           \/ fetch' = Overtaken(fetch) /\ blurred'
    BY <1>0, <1>10, TickSettles
  <2>2. UNCHANGED <<shown, known>> /\ (known' <=> shown' # NONE)
    BY <1>10 DEF Tick, TrueInv
  <2>3. CASE Calm /\ UNCHANGED <<fetch, blurred>>
    BY <1>1, <2>1, <2>2, <2>3
  <2>4. CASE fetch' = Overtaken(fetch) /\ blurred'
    <3>1. /\ \A f \in Fetches : fetch'[f].stage = fetch[f].stage
          /\ \A f \in Fetches : IsRead(f)' => fetch'[f].late
      BY <2>4, OvertakenKeeps
    <3> QED BY <2>1, <2>2, <2>4, <3>1, LateTrue
  <2> QED BY <2>1, <2>3, <2>4
<1>11. CASE Rollback
  <2>1. /\ WireInv' /\ Pending'
        /\ ~tx.early => Calm
        /\ \A v \in Visit \cup {NONE} : Settles(v) /\ Pending => Settles(v)'
    BY <1>0, <1>11, RollbackSettles
  <2>2. UNCHANGED <<shown, known>> /\ (Ask \/ UNCHANGED fetch)
    BY <1>11 DEF Rollback, ActionReturns
  <2>3. blurred' <=> blurred \/ tx.early
    BY <1>11 DEF Rollback
  <2> QED BY <2>1, <2>2, <2>3, QuietTrue
<1>12. CASE LoseConnection \/ Crash
  <2>1. /\ ~live' /\ wire' = <<>> /\ row' = row /\ tx' \in {tx, NoTx}
        /\ UNCHANGED <<shown, known, blurred>> /\ (Ask \/ UNCHANGED fetch)
    BY <1>12 DEF LoseConnection, Crash, ActionReturns
  <2> QED BY <1>0, <1>1, <2>1, OfflineSettles
<1>13. ASSUME NEW f \in Fetches, FetchFails(f) PROVE TrueInv'
  BY <1>13, FailureTrue
<1>14. CASE UNCHANGED screenVars
  <2>1. UNCHANGED <<kind, row, tx, now, live, wire, fetch, shown, known, blurred>>
    BY <1>14 DEF screenVars
  <2> QED BY <1>0, <1>1, <2>1, SameSettles
<1>15. CASE \/ Confirm \/ Recompute \/ EtaChange \/ AcceptKitchenStart \/ Elsewhere
            \/ PressSeen \/ PressFoodOut \/ PressMove
  BY <1>2, <1>3, <1>15, Types, WritersWrite
<1>16. CASE LateTurn
  <2>1. Slipped /\ UNCHANGED <<shown, known>>
    BY <1>16, TurnSlips DEF Slipped
  <2>2. /\ WireInv' /\ (Pending => Pending')
        /\ (Calm /\ UNCHANGED <<fetch, blurred>>) \/ Spoilt
    BY <1>0, <2>1, SlipSettles
  <2> QED BY <1>1, <2>1, <2>2, SpoiltTrue
<1> QED BY <1>3, <1>4, <1>5, <1>6, <1>7, <1>8, <1>9, <1>10, <1>11, <1>12, <1>13, <1>14, <1>15,
           <1>16
        DEF ScreensNext, Steps

LEMMA TrueInit == ScreensInit => TrueInv
<1> SUFFICES ASSUME ScreensInit PROVE TrueInv
  OBVIOUS
<1>1. /\ tx = NoTx /\ ~live /\ wire = <<>> /\ \A f \in Fetches : ~IsRead(f)
      /\ known <=> shown # NONE
  BY DEF ScreensInit, FirstPaint, Mounted, IsRead, IdleFetch
<1>2. WireInv
  BY <1>1, NoEnds DEF WireInv, NoTx, Ahead
<1> QED BY <1>1, <1>2 DEF TrueInv, Settles

LEMMA TrueRests ==
  ASSUME PaintInv, TrueInv, AtRest, ~blurred
  PROVE  shown = View
<1>1. live /\ wire = <<>> /\ tx = NoTx /\ ~Busy
  BY DEF AtRest, Banner, Busy, IdleFetch
<1>2. ~Ahead /\ Coming = row /\ ~Roused(shown)
  BY <1>1 DEF Ahead, Coming, Roused, NoTx
<1>3. Fits(shown)
  BY <1>1, <1>2 DEF TrueInv, Settles
<1>4. CASE kind = "kitchen"
  BY <1>3, <1>4 DEF Fits, View
<1>5. CASE kind # "kitchen"
  <2>1. kind = "dashboard" /\ Matches(shown, row, <<>>)
    BY <1>1, <1>2, <1>3, <1>5 DEF Fits, PaintInv, ScreensInv
  <2>2. shown = NONE <=> View = NONE
    BY <2>1, DashboardView DEF Matches, Booked
  <2>3. CASE shown # NONE
    <3>1. shown \in Visit /\ row \in Visit
      BY <2>3, Types
    <3>2. View = [row EXCEPT !.acked = FALSE]
      BY <2>1, <2>2, <2>3 DEF View, Inbound
    <3>3. /\ shown.table = row.table /\ shown.target = row.target
          /\ shown.status = row.status /\ shown.details = row.details
          /\ shown.flagged = row.flagged /\ shown.acked = FALSE
      BY <2>1, <2>3 DEF Matches, Has
    <3> QED BY <3>1, <3>2, <3>3, VisitFields
  <2> QED BY <2>2, <2>3
<1> QED BY <1>4, <1>5

\* A live screen that waits for nothing shows what the database holds, whatever it has
\* missed while it was not connected and in whatever order events, commits and
\* refetches have reached it, unless one of the named ways has spoilt the picture.
THEOREM RestingScreensAreTrue == ScreensSpec => []RestingScreenIsTrue
<1>1. ScreensInit => PaintInv /\ OrderInv /\ TrueInv
  BY PaintInit, OrderInit, TrueInit
<1>2. PaintInv /\ OrderInv /\ TrueInv /\ [ScreensNext]_screenVars
         => (PaintInv /\ OrderInv /\ TrueInv)'
  BY PaintStep, OrderStep, TrueStep
<1>3. PaintInv /\ TrueInv => RestingScreenIsTrue
  BY TrueRests DEF RestingScreenIsTrue
<1> QED BY <1>1, <1>2, <1>3, PTL DEF ScreensSpec

=============================================================================
