-------------------------- MODULE DriftAlertsProofs --------------------------
(***************************************************************************)
(* Theorems about Timing, about Notifications and about the two together,  *)
(* for any dishes, prep times, buffers, arrival times, threshold and       *)
(* numbers of calls and handlers.                                          *)
(*                                                                         *)
(* A handler decides from the targets its call has read, the properties of *)
(* the alerts speak of the targets in force: what makes them the same is   *)
(* the row lock an ETA change holds from its claim to its commit.          *)
(***************************************************************************)
EXTENDS DriftAlerts, TLAPS, WellFoundedInduction

-----------------------------------------------------------------------------
(* The arithmetic                                                           *)

\* An order has a slowest dish.
LEMMA SlowestDish ==
  ASSUME NEW D \in SUBSET Dishes, D # {}
  PROVE  /\ Slowest(D) \in {Prep[d] : d \in D}
         /\ \A d \in D : Prep[d] <= Slowest(D)
         /\ Slowest(D) \in 1 .. LongestPrep
<1> DEFINE Less == {ss \in Nat \X Nat : ss[1] < ss[2]}
<1>0. IsWellFoundedOn(Less, Nat)
  BY NatLessThanWellFounded, Zenon DEF OpToRel
<1> DEFINE Slack == {LongestPrep - Prep[d] : d \in D}
<1>1. \A d \in D : Prep[d] \in 1 .. LongestPrep
  BY TimingAssumption
<1>2. Slack \subseteq Nat /\ Slack # {}
  BY <1>1, TimingAssumption
<1>3. PICK s \in Slack : \A y \in Slack : ~ (<<y, s>> \in Less)
  <2> HIDE DEF Slack, Less
  <2> QED BY <1>0, <1>2, WFMin, Zenon
<1>4. \A y \in Slack : s <= y
  <2> HIDE DEF Slack
  <2>1. ASSUME NEW y \in Slack, y < s PROVE FALSE
    <3>1. y \in Nat /\ s \in Nat
      BY <1>2, <1>3
    <3> QED BY <1>3, <2>1, <3>1
  <2> QED BY <1>2, <2>1
<1>5. PICK d0 \in D : s = LongestPrep - Prep[d0]
  BY <1>3
<1>6. \A d \in D : Prep[d] <= Prep[d0]
  <2>1. ASSUME NEW d \in D PROVE Prep[d] <= Prep[d0]
    <3>1. LongestPrep - Prep[d0] <= LongestPrep - Prep[d]
      BY <1>4, <1>5
    <3> QED BY <3>1, <1>1, TimingAssumption
  <2> QED BY <2>1
<1>7. \E m \in {Prep[d] : d \in D} : \A d \in D : Prep[d] <= m
  BY <1>6
<1> QED BY <1>7, <1>1 DEF Slowest

\* The targets of an order: every dish, started at the target, is done with the
\* buffer to spare before the guest arrives, the slowest exactly so, and food
\* goes out the same time after the arrival whatever has been ordered.
THEOREM TargetArithmetic ==
  ASSUME NEW arrival \in Int, NEW D \in SUBSET Dishes, D # {}
  PROVE  LET t == ComputeTimingTargets(arrival, D)
         IN /\ t \in Targets
            /\ \A d \in D : t.start + Prep[d] + PrepBuffer <= arrival
            /\ \E d \in D : t.start + Prep[d] + PrepBuffer = arrival
            /\ t.out = arrival + ExpoBuffer - PrepBuffer
<1>1. /\ Slowest(D) \in Int /\ PrepBuffer \in Int /\ ExpoBuffer \in Int
      /\ \A d \in D : Prep[d] \in Int /\ Prep[d] <= Slowest(D)
      /\ \E d \in D : Prep[d] = Slowest(D)
  BY SlowestDish, TimingAssumption
<1> QED BY <1>1 DEF ComputeTimingTargets, Targets

-----------------------------------------------------------------------------
(* Type correctness                                                         *)

\* A confirmed visit without targets and no call in flight are well typed.
LEMMA TypeInit == Init => TypeOK
  BY DEF Init, TypeOK, Request

\* A call in flight is a recompute or an ETA change, and stays one when it moves
\* on or is answered.
LEMMA ServedType ==
  ASSUME TypeOK, NEW r \in Requests, req[r].pc # "idle"
  PROVE  /\ req[r] \in Recompute \cup EtaChange
         /\ \A answer \in Replies : Reply(r, answer) => req' \in [Requests -> Request]
         /\ Advance(r, "commit") => req' \in [Requests -> Request]
<1>1. req[r] \in Recompute \cup EtaChange
  BY DEF TypeOK, Request, IdleRequest
<1>2. ASSUME NEW pc \in {"commit", "done"}, NEW answer \in Replies
      PROVE  /\ [req[r] EXCEPT !.pc = pc] \in Request
             /\ [req[r] EXCEPT !.pc = pc, !.reply = answer] \in Request
  BY <1>1 DEF Request, Recompute, EtaChange
<1>3. ASSUME NEW answer \in Replies, Reply(r, answer)
      PROVE  req' \in [Requests -> Request]
  <2>1. req' = [req EXCEPT ![r] = [req[r] EXCEPT !.pc = "done", !.reply = answer]]
    BY <1>3 DEF Reply
  <2> QED BY <1>2, <2>1 DEF TypeOK
<1>4. ASSUME Advance(r, "commit") PROVE req' \in [Requests -> Request]
  <2>1. req' = [req EXCEPT ![r] = [req[r] EXCEPT !.pc = "commit"]]
    BY <1>4 DEF Advance
  <2>2. [req[r] EXCEPT !.pc = "commit"] \in Request
    BY <1>2 DEF Replies
  <2> QED BY <2>1, <2>2 DEF TypeOK
<1> QED BY <1>1, <1>3, <1>4

\* The targets computed from the row, or from an ETA change, are targets.
LEMMA ComputedType ==
  ASSUME TypeOK, NEW e \in Etas, NEW st, Obstacle(st) = NONE
  PROVE  dishes # {} /\ ComputeTimingTargets(e, dishes) \in Targets
<1>1. dishes # {} /\ dishes \in SUBSET Dishes /\ e \in Int
  BY TimingAssumption, NoneAssumption DEF Obstacle, TypeOK, Replies
<1> QED BY <1>1, TargetArithmetic

\* No step leaves the types.
LEMMA TypeStep == TypeOK /\ [Next]_vars => TypeOK'
<1> SUFFICES ASSUME TypeOK, [Next]_vars PROVE TypeOK'
  OBVIOUS
<1> USE DEF TypeOK
<1>1. ASSUME NEW r \in Requests, NEW reason \in {"initial", "items_changed"},
             RecomputeRead(r, reason)
      PROVE  TypeOK'
  <2> DEFINE obstacle == Obstacle(status)
             new == IF obstacle = NONE THEN ComputeTimingTargets(eta, dishes) ELSE NONE
  <2>1. new \in Targets \cup {NONE}
    BY ComputedType
  <2>2. obstacle \in Replies \cup {NONE}
    BY DEF Obstacle, Replies
  <2>3. ASSUME NEW pc \in {"write", "done"}, NEW n \in Targets \cup {NONE},
               NEW answer \in Replies \cup {NONE}
        PROVE  [IdleRequest EXCEPT !.op = reason, !.pc = pc, !.new = n,
                                   !.prev = targets, !.reply = answer] \in Request
    BY DEF IdleRequest, Request, Recompute
  <2>4. req' \in [Requests -> Request]
    <3> DEFINE pc == IF obstacle = NONE THEN "write" ELSE "done"
               call == [IdleRequest EXCEPT !.op = reason, !.pc = pc, !.new = new,
                                           !.prev = targets, !.reply = obstacle]
    <3>1. pc \in {"write", "done"}
      OBVIOUS
    <3>2. call \in Request
      <4> HIDE DEF obstacle, new, pc
      <4> QED BY <2>1, <2>2, <2>3, <3>1
    <3>3. req' = [req EXCEPT ![r] = call]
      BY <1>1, Zenon DEF RecomputeRead
    <3> QED
      <4> HIDE DEF call
      <4> QED BY <3>2, <3>3
  <2> QED BY <1>1, <2>4 DEF RecomputeRead
<1>2. ASSUME NEW r \in Requests, NEW e \in Etas, EtaArrive(r, e) PROVE TypeOK'
  <2>1. req' \in [Requests -> Request]
    BY <1>2 DEF EtaArrive, IdleRequest, Request, EtaChange
  <2> QED BY <1>2, <2>1 DEF EtaArrive
<1>3. ASSUME NEW r \in Requests, WriteTargets(r) PROVE TypeOK'
  BY <1>3, ServedType DEF WriteTargets
<1>4. ASSUME NEW r \in Requests, WriteRefused(r) PROVE TypeOK'
  BY <1>4, ServedType DEF WriteRefused, Replies
<1>5. ASSUME NEW r \in Requests, EtaClaim(r) PROVE TypeOK'
  <2>1. CASE EtaClaimable(r)
    <3>1. req[r] \in EtaChange
      BY <1>5, ServedType DEF EtaClaim, Recompute
    <3>2. [req[r] EXCEPT !.pc = "read"] \in Request
      BY <3>1 DEF EtaChange, Request
    <3>3. req' = [req EXCEPT ![r] = [req[r] EXCEPT !.pc = "read"]]
      BY <1>5, <2>1 DEF EtaClaim, Advance
    <3> QED BY <1>5, <3>2, <3>3 DEF EtaClaim
  <2>2. CASE ~EtaClaimable(r)
    <3>1. req' \in [Requests -> Request]
      BY <1>5, <2>2, ServedType DEF EtaClaim, Replies
    <3> QED BY <1>5, <3>1 DEF EtaClaim
  <2> QED BY <2>1, <2>2
<1>6. ASSUME NEW r \in Requests, EtaRead(r) PROVE TypeOK'
  <2>1. req[r] \in EtaChange
    BY <1>6, ServedType DEF EtaRead, Recompute
  <2>2. CASE Obstacle(status) = NONE
    <3> DEFINE new == ComputeTimingTargets(req[r].eta, dishes)
    <3>1. new \in Targets
      BY <2>1, <2>2, ComputedType DEF EtaChange
    <3>2. req' = [req EXCEPT ![r] =
                    [req[r] EXCEPT !.pc = "write", !.prev = targets, !.new = new]]
      BY <1>6, <2>2 DEF EtaRead
    <3>3. [req[r] EXCEPT !.pc = "write", !.prev = targets, !.new = new] \in Request
      <4> HIDE DEF new
      <4> QED BY <2>1, <3>1 DEF EtaChange, Request
    <3> QED BY <1>6, <3>2, <3>3 DEF EtaRead
  <2>3. CASE Obstacle(status) # NONE
    BY <1>6, <2>3, ServedType DEF EtaRead
  <2> QED BY <2>2, <2>3
<1>7. ASSUME NEW r \in Requests, Commit(r) PROVE TypeOK'
  <2>1. req[r] \in Recompute \cup EtaChange
    BY <1>7, ServedType DEF Commit
  <2>2. eta' \in Etas /\ targets' \in Targets \cup {NONE} /\ stamp' \in Nat
    BY <1>7, <2>1 DEF Commit, Recompute, EtaChange, Stamped
  <2>3. req' \in [Requests -> Request]
    BY <1>7, ServedType DEF Commit, Replies
  <2> QED BY <1>7, <2>2, <2>3 DEF Commit
<1>8. ASSUME NEW r \in Requests, EndRequest(r) PROVE TypeOK'
  BY <1>8 DEF EndRequest, Request
<1>9. ASSUME Others PROVE TypeOK'
  BY <1>9, TimingAssumption
     DEF Others, AcceptKitchenStart, OtherWrite, EditOrder, Tick, Stamped
<1>10. CASE UNCHANGED vars
  BY <1>10 DEF vars
<1> QED
  BY <1>1, <1>2, <1>3, <1>4, <1>5, <1>6, <1>7, <1>8, <1>9, <1>10
     DEF Next, Begin, Continue

\* Every reachable state of the timing of a visit is well typed.
THEOREM TypeCorrect == Spec => []TypeOK
  BY TypeInit, TypeStep, PTL DEF Spec

-----------------------------------------------------------------------------
(* The row lock: you cannot un-cook food                                    *)

\* A call that moves on changes no other call.
LEMMA OwnCall ==
  ASSUME TypeOK, NEW r \in Requests, NEW q \in Requests, q # r,
         \/ \E reason \in {"initial", "items_changed"} : RecomputeRead(r, reason)
         \/ \E e \in Etas : EtaArrive(r, e)
         \/ Continue(r) \/ WriteTargets(r)
  PROVE  req'[q] = req[q]
BY DEF TypeOK, RecomputeRead, EtaArrive, Continue, WriteTargets, WriteRefused,
       EtaClaim, EtaRead, Commit, EndRequest, Advance, Reply

\* A call that is not holding the row starts to only on a confirmed, free row.
LEMMA HolderStep ==
  ASSUME TypeOK, [Next]_vars, NEW r \in Requests, HoldsRow(r)'
  PROVE  HoldsRow(r) \/ (RowFree /\ status = "confirmed" /\ WriteTargets(r))
           \/ (RowFree /\ status = "confirmed" /\ EtaClaim(r))
<1> USE DEF TypeOK
<1>1. ASSUME NEW q \in Requests, q # r, Begin(q) \/ Continue(q) \/ WriteTargets(q)
      PROVE  HoldsRow(r)
  <2>1. req'[r] = req[r]
    BY <1>1, OwnCall DEF Begin
  <2> QED BY <2>1 DEF HoldsRow
<1>2. ASSUME NEW reason \in {"initial", "items_changed"}, RecomputeRead(r, reason)
      PROVE  FALSE
  <2>1. /\ req'[r].op = reason
        /\ req'[r].pc \in {"write", "done"}
    BY <1>2 DEF RecomputeRead, IdleRequest
  <2> QED BY <2>1 DEF HoldsRow
<1>3. ASSUME NEW e \in Etas, EtaArrive(r, e) PROVE FALSE
  <2>1. req'[r].pc = "claim"
    BY <1>3 DEF EtaArrive, IdleRequest
  <2> QED BY <2>1 DEF HoldsRow
<1>4. ASSUME WriteTargets(r) PROVE HoldsRow(r) \/ (RowFree /\ status = "confirmed")
  BY <1>4 DEF WriteTargets, Retargetable
<1>5. ASSUME WriteRefused(r) \/ Commit(r) PROVE FALSE
  <2>1. req'[r].pc = "done"
    BY <1>5 DEF WriteRefused, Commit, Reply, Request, Recompute, EtaChange, IdleRequest
  <2> QED BY <2>1 DEF HoldsRow
<1>6. ASSUME EtaClaim(r) PROVE RowFree /\ status = "confirmed"
  <2>1. CASE EtaClaimable(r)
    BY <1>6, <2>1 DEF EtaClaim, EtaClaimable
  <2>2. CASE ~EtaClaimable(r)
    <3>1. req'[r].pc = "done"
      BY <1>6, <2>2 DEF EtaClaim, Reply, Request, Recompute, EtaChange, IdleRequest
    <3> QED BY <3>1 DEF HoldsRow
  <2> QED BY <2>1, <2>2
<1>7. ASSUME EtaRead(r) PROVE HoldsRow(r)
  <2>1. req[r].op = "eta_changed"
    BY <1>7, ServedType DEF EtaRead, Recompute, EtaChange
  <2> QED BY <1>7, <2>1 DEF EtaRead, HoldsRow
<1>8. ASSUME EndRequest(r) PROVE FALSE
  BY <1>8 DEF EndRequest, HoldsRow, IdleRequest
<1>9. CASE Others
  BY <1>9 DEF Others, AcceptKitchenStart, OtherWrite, EditOrder, Tick, HoldsRow
<1>10. CASE UNCHANGED vars
  BY <1>10 DEF vars, HoldsRow
<1> QED
  BY <1>1, <1>2, <1>3, <1>4, <1>5, <1>6, <1>7, <1>8, <1>9, <1>10
     DEF Next, Begin, Continue

\* Only the kitchen's accept step changes the status, and it needs a free row.
LEMMA StatusStep ==
  ASSUME [Next]_vars, status' # status
  PROVE  RowFree /\ req' = req
BY DEF Next, vars, Begin, Continue, Others, RecomputeRead, EtaArrive, WriteTargets,
       WriteRefused, EtaClaim, EtaRead, Commit, EndRequest, AcceptKitchenStart,
       OtherWrite, EditOrder, Tick

LEMMA RowInit == Init => RowInv
  BY TypeInit DEF Init, RowInv, HoldsRow, IdleRequest

LEMMA RowStep == RowInv /\ [Next]_vars => RowInv'
<1> SUFFICES ASSUME RowInv, [Next]_vars PROVE RowInv'
  OBVIOUS
<1>1. TypeOK /\ TypeOK'
  BY TypeStep DEF RowInv
<1>2. ASSUME NEW r \in Requests, HoldsRow(r)' PROVE status' = "confirmed"
  <2>1. status = "confirmed"
    BY <1>1, <1>2, HolderStep DEF RowInv
  <2>2. ASSUME status' # status PROVE FALSE
    <3>1. RowFree /\ req' = req
      BY <2>2, StatusStep
    <3> QED BY <1>2, <3>1 DEF RowFree, HoldsRow
  <2> QED BY <2>1, <2>2
<1>3. ASSUME NEW r \in Requests, NEW q \in Requests, HoldsRow(r)', HoldsRow(q)'
      PROVE  r = q
  <2>1. CASE HoldsRow(r) /\ HoldsRow(q)
    BY <2>1 DEF RowInv
  <2>2. ASSUME NEW x \in Requests, NEW y \in Requests, x # y, RowFree, HoldsRow(y)',
               WriteTargets(x) \/ EtaClaim(x)
        PROVE  FALSE
    <3>1. req'[y] = req[y]
      BY <1>1, <2>2, OwnCall DEF Continue
    <3> QED BY <2>2, <3>1 DEF HoldsRow, RowFree
  <2> QED BY <1>1, <1>3, <2>1, <2>2, HolderStep DEF RowFree
<1> QED BY <1>1, <1>2, <1>3 DEF RowInv

\* One open update of the row at a time, and only of a confirmed visit.
LEMMA RowInvariant == Spec => []RowInv
  BY RowInit, RowStep, PTL DEF Spec

\* Once the kitchen has started, the targets are history.
THEOREM CookedFoodStays == Spec => StartedIsHistory
<1>1. RowInv /\ [Next]_vars => [status = "kitchen_started" => targets' = targets]_vars
  <2> SUFFICES ASSUME RowInv, Next, targets' # targets
               PROVE  status # "kitchen_started"
    OBVIOUS
  <2>1. PICK r \in Requests : Commit(r)
    BY DEF Next, Begin, Continue, Others, RecomputeRead, EtaArrive, WriteTargets,
           WriteRefused, EtaClaim, EtaRead, EndRequest, AcceptKitchenStart,
           OtherWrite, EditOrder, Tick
  <2> QED BY <2>1 DEF Commit, RowInv, HoldsRow
<1> QED BY <1>1, RowInvariant, PTL DEF Spec, StartedIsHistory

-----------------------------------------------------------------------------
(* ETA changes                                                              *)

\* Only its own statements give a call an answer or an arrival time to carry.
LEMMA EtaCallStep ==
  ASSUME TypeOK, [Next]_vars, NEW r \in Requests,
         req'[r].op = "eta_changed", req'[r] # req[r]
  PROVE  \/ \E e \in Etas : EtaArrive(r, e)
         \/ WriteTargets(r) \/ WriteRefused(r) \/ EtaClaim(r) \/ EtaRead(r) \/ Commit(r)
<1>1. ASSUME NEW q \in Requests, q # r, Begin(q) \/ Continue(q) \/ WriteTargets(q)
      PROVE  FALSE
  BY <1>1, OwnCall DEF Begin
<1>2. ASSUME NEW reason \in {"initial", "items_changed"}, RecomputeRead(r, reason)
      PROVE  FALSE
  BY <1>2 DEF RecomputeRead, IdleRequest, TypeOK
<1>3. ASSUME EndRequest(r) PROVE FALSE
  BY <1>3 DEF EndRequest, IdleRequest, TypeOK
<1>4. ASSUME Others PROVE FALSE
  BY <1>4 DEF Others, AcceptKitchenStart, OtherWrite, EditOrder, Tick
<1> QED BY <1>1, <1>2, <1>3, <1>4 DEF Next, vars, Begin, Continue

LEMMA WholeInit == Init => WholeInv
  BY TypeInit DEF Init, WholeInv, OwnTargets, IdleRequest

LEMMA WholeStep == WholeInv /\ [Next]_vars => WholeInv'
<1> SUFFICES ASSUME WholeInv, [Next]_vars PROVE WholeInv'
  OBVIOUS
<1>1. TypeOK /\ TypeOK'
  BY TypeStep DEF WholeInv
<1>2. ASSUME NEW r \in Requests, req'[r].op = "eta_changed", req'[r].new # NONE
      PROVE  \E D \in (SUBSET Dishes) \ {{}} :
                req'[r].new = ComputeTimingTargets(req'[r].eta, D)
  <2>1. CASE req'[r] = req[r]
    BY <1>2, <2>1 DEF WholeInv, OwnTargets
  <2>2. CASE req'[r] # req[r]
    <3>1. ASSUME WriteTargets(r) \/ WriteRefused(r) \/ EtaClaim(r) \/ Commit(r)
          PROVE  req'[r].new = req[r].new /\ req'[r].eta = req[r].eta
                   /\ req'[r].op = req[r].op
      BY <1>1, <3>1 DEF WriteTargets, WriteRefused, EtaClaim, Commit, Advance, Reply,
                        TypeOK, Request, Recompute, EtaChange, IdleRequest
    <3>2. ASSUME NEW e \in Etas, EtaArrive(r, e) PROVE FALSE
      BY <1>1, <1>2, <3>2 DEF EtaArrive, IdleRequest, TypeOK
    <3>3. CASE EtaRead(r)
      <4>1. req[r] \in EtaChange
        BY <1>1, <3>3, ServedType DEF EtaRead, Recompute
      <4>2. CASE Obstacle(status) = NONE
        <5>1. dishes # {} /\ dishes \in SUBSET Dishes
          BY <1>1, <4>1, <4>2, ComputedType DEF TypeOK, EtaChange
        <5>2. req' = [req EXCEPT
                        ![r].pc = "write", ![r].prev = targets,
                        ![r].new = ComputeTimingTargets(req[r].eta, dishes)]
          BY <3>3, <4>2 DEF EtaRead
        <5> DEFINE new == ComputeTimingTargets(req[r].eta, dishes)
        <5>3. req' = [req EXCEPT ![r] =
                        [req[r] EXCEPT !.pc = "write", !.prev = targets, !.new = new]]
          BY <5>2
        <5>4. req'[r].new = new /\ req'[r].eta = req[r].eta
          <6> HIDE DEF new
          <6> QED BY <1>1, <4>1, <5>3 DEF TypeOK, EtaChange
        <5> QED BY <5>1, <5>4
      <4>3. CASE Obstacle(status) # NONE
        <5>1. req'[r].new = req[r].new /\ req'[r].eta = req[r].eta
                /\ req'[r].op = req[r].op
          BY <1>1, <3>3, <4>1, <4>3 DEF EtaRead, Advance, TypeOK, EtaChange
        <5> QED BY <1>2, <5>1 DEF WholeInv, OwnTargets
      <4> QED BY <4>2, <4>3
    <3>4. CASE WriteTargets(r) \/ WriteRefused(r) \/ EtaClaim(r) \/ Commit(r)
      BY <1>2, <3>1, <3>4 DEF WholeInv, OwnTargets
    <3> QED BY <1>1, <1>2, <2>2, <3>2, <3>3, <3>4, EtaCallStep
  <2> QED BY <2>1, <2>2
<1> QED BY <1>1, <1>2 DEF WholeInv, OwnTargets

\* "applied" is the answer of a commit.
LEMMA AppliedStep ==
  ASSUME TypeOK, [Next]_vars, NEW r \in Requests,
         req'[r].op = "eta_changed", Applies(r)
  PROVE  Commit(r) /\ req[r].op = "eta_changed" /\ req[r].new # NONE
<1> USE DEF TypeOK
<1>1. ASSUME NEW e \in Etas, EtaArrive(r, e) PROVE FALSE
  BY <1>1, NoneAssumption DEF EtaArrive, IdleRequest, Applies, Replies
<1>2. ASSUME WriteTargets(r) PROVE FALSE
  BY <1>2, ServedType
     DEF WriteTargets, Advance, Applies, Request, Recompute, EtaChange, IdleRequest
<1>3. ASSUME WriteRefused(r) \/ EtaClaim(r) PROVE FALSE
  <2>1. req'[r].reply \in {req[r].reply, "visit_not_confirmed", "stale_update"}
    BY <1>3, ServedType
       DEF WriteRefused, EtaClaim, Advance, Reply, Request, Recompute, EtaChange
  <2> QED BY <2>1 DEF Applies
<1>4. ASSUME EtaRead(r) PROVE FALSE
  <2>1. req'[r].reply = req[r].reply
    BY <1>4, ServedType DEF EtaRead, Advance, Request, Recompute, EtaChange
  <2> QED BY <2>1 DEF Applies
<1>5. ASSUME Commit(r) PROVE req[r].op = "eta_changed" /\ req[r].new # NONE
  <2>1. req'[r].op = req[r].op
    BY <1>5, ServedType DEF Commit, Reply, Recompute, EtaChange
  <2>2. req[r].new = NONE => req'[r].reply = "visit_not_ready"
    BY <1>5, ServedType DEF Commit, Reply, Recompute, EtaChange
  <2> QED BY <2>1, <2>2 DEF Applies
<1> QED BY <1>1, <1>2, <1>3, <1>4, <1>5, EtaCallStep DEF Applies

\* An applied ETA change leaves its arrival time and targets that belong to it.
THEOREM EtaChangesAreWhole == Spec => EtaChangeIsWhole
<1> DEFINE Whole == \A r \in Requests :
                      Applies(r) /\ req[r].op = "eta_changed" =>
                        eta' = req[r].eta /\ TargetsFitEta'
<1>1. WholeInv /\ [Next]_vars => [Whole]_vars
  <2> SUFFICES ASSUME WholeInv, Next, NEW r \in Requests,
                      Applies(r), req[r].op = "eta_changed"
               PROVE  eta' = req[r].eta /\ TargetsFitEta'
    OBVIOUS
  <2>1. req'[r].op = "eta_changed"
    <3>1. TypeOK /\ req[r].pc # "idle" /\ req[r] \in Request
      BY DEF WholeInv, TypeOK, Request, IdleRequest, Recompute, EtaChange
    <3>2. ASSUME NEW q \in Requests, q # r, Begin(q) \/ Continue(q) \/ WriteTargets(q)
          PROVE  FALSE
      BY <3>1, <3>2, OwnCall DEF Begin, Applies
    <3>3. CASE Begin(r)
      BY <3>1, <3>3 DEF Begin, RecomputeRead, EtaArrive
    <3>4. CASE EndRequest(r)
      BY <3>1, <3>4, NoneAssumption
         DEF EndRequest, IdleRequest, Applies, Replies, TypeOK
    <3>5. CASE WriteTargets(r) \/ WriteRefused(r) \/ EtaClaim(r) \/ Commit(r)
      BY <3>1, <3>5 DEF WriteTargets, WriteRefused, EtaClaim, Commit, Advance, Reply,
                        TypeOK, Request, Recompute, EtaChange, IdleRequest
    <3>6. CASE EtaRead(r)
      BY <3>1, <3>6, ServedType DEF EtaRead, Advance, TypeOK, Recompute, EtaChange
    <3>7. CASE Others
      BY <3>7 DEF Others, AcceptKitchenStart, OtherWrite, EditOrder, Tick
    <3> QED BY <3>2, <3>3, <3>4, <3>5, <3>6, <3>7 DEF Next, Continue
  <2>2. Commit(r) /\ req[r].new # NONE
    BY <2>1, AppliedStep DEF WholeInv
  <2>3. eta' = req[r].eta /\ targets' = req[r].new
    BY <2>2 DEF Commit
  <2>4. PICK D \in (SUBSET Dishes) \ {{}} : req[r].new = ComputeTimingTargets(req[r].eta, D)
    BY <2>2 DEF WholeInv, OwnTargets
  <2> QED BY <2>3, <2>4 DEF TargetsFitEta
<1> HIDE DEF Whole
<1>2. Spec => []WholeInv
  BY WholeInit, WholeStep, PTL DEF Spec
<1>3. Spec => [][Whole]_vars
  BY <1>1, <1>2, PTL DEF Spec
<1> QED BY <1>3 DEF Whole, EtaChangeIsWhole

-----------------------------------------------------------------------------
(* The token                                                                *)

\* The row's stamp never goes back, and an update leaves it ahead.
LEMMA StampStep ==
  ASSUME StampInv, [Next]_vars, FreshStamps
  PROVE  /\ stamp \in Nat /\ stamp' \in Nat /\ stamp <= stamp' /\ stamp' <= now'
         /\ \A r \in Requests : Commit(r) => stamp < stamp'
         /\ \A r \in Requests : HoldsRow(r) /\ ~Commit(r) => stamp' = stamp
<1> USE DEF StampInv, RowInv, TypeOK
<1>1. \/ UNCHANGED <<stamp, now>>
      \/ stamp < now /\ stamp' = now /\ now' = now
           /\ (RowFree \/ \E r \in Requests : Commit(r))
      \/ stamp' = stamp /\ now' = now + 1
  <2>1. ASSUME Stamped PROVE stamp < now /\ stamp' = now
    BY <2>1 DEF Stamped
  <2>2. CASE \E r \in Requests : Begin(r) \/ Continue(r) \/ WriteTargets(r)
    BY <2>1, <2>2 DEF Begin, Continue, RecomputeRead, EtaArrive, WriteTargets,
                      WriteRefused, EtaClaim, EtaRead, Commit, EndRequest
  <2>3. CASE Others
    BY <2>1, <2>3 DEF Others, AcceptKitchenStart, OtherWrite, EditOrder, Tick
  <2>4. CASE UNCHANGED vars
    BY <2>4 DEF vars
  <2> QED BY <2>2, <2>3, <2>4 DEF Next
<1>2. ASSUME NEW r \in Requests, Commit(r) PROVE stamp < stamp'
  BY <1>2 DEF Commit, Stamped
<1>3. ASSUME NEW r \in Requests, HoldsRow(r), NEW q \in Requests, Commit(q)
      PROVE  r = q
  BY <1>3 DEF Commit, HoldsRow
<1> QED BY <1>1, <1>2, <1>3 DEF RowFree

LEMMA StampInit == Init => StampInv
  BY RowInit, NoneAssumption
     DEF Init, StampInv, OneWinnerPerReading, IdleRequest

LEMMA StampInvStep ==
  ASSUME FreshStamps, StampInv, [Next]_vars
  PROVE  StampInv'
<1>1. TypeOK /\ RowInv /\ RowInv' /\ TypeOK'
  BY RowStep DEF StampInv, RowInv
<1>2. stamp \in Nat /\ stamp' \in Nat /\ stamp <= stamp' /\ stamp' <= now'
  BY StampStep
<1>3. ASSUME NEW r \in Requests, req'[r].op = "eta_changed"
      PROVE  /\ req'[r].token <= stamp'
             /\ HoldsRow(r)' => req'[r].token = stamp'
             /\ req'[r].reply = "applied" => req'[r].token < stamp'
  <2>1. CASE req'[r] = req[r]
    <3>1. req[r].token \in Nat
      BY <1>1, <1>3, <2>1 DEF TypeOK, Request, Recompute, EtaChange, IdleRequest
    <3>2. HoldsRow(r)' => HoldsRow(r)
      BY <2>1 DEF HoldsRow
    <3>3. ASSUME Commit(r) PROVE FALSE
      <4>1. req[r].pc = "commit" /\ req[r] \in Recompute \cup EtaChange
        BY <1>1, <3>3, ServedType DEF Commit
      <4>2. req'[r].pc = "done"
        BY <1>1, <3>3, <4>1 DEF Commit, Reply, TypeOK, Recompute, EtaChange
      <4> QED BY <2>1, <4>1, <4>2
    <3> QED BY <1>2, <1>3, <2>1, <3>1, <3>2, <3>3, StampStep DEF StampInv
  <2>2. ASSUME NEW e \in Etas, EtaArrive(r, e)
        PROVE  /\ req'[r].token = stamp' /\ req'[r].reply # "applied"
    <3>1. req'[r].token = stamp /\ req'[r].reply = NONE
      BY <1>1, <2>2 DEF EtaArrive, IdleRequest, TypeOK
    <3> QED BY <2>2, <3>1, NoneAssumption DEF EtaArrive, Replies
  <2>3. ASSUME req'[r] # req[r],
               WriteTargets(r) \/ WriteRefused(r) \/ EtaClaim(r) \/ EtaRead(r) \/ Commit(r)
        PROVE  /\ req[r].op = "eta_changed" /\ req'[r].token = req[r].token
               /\ req[r].token \in Nat
    <3>1. req[r] \in Recompute \cup EtaChange
      BY <1>1, <2>3, ServedType DEF WriteTargets, WriteRefused, EtaClaim, EtaRead, Commit
    <3> QED BY <1>1, <1>3, <2>3, <3>1
            DEF WriteTargets, WriteRefused, EtaClaim, EtaRead, Commit, Advance, Reply,
                TypeOK, Recompute, EtaChange
  <2>4. ASSUME req'[r] # req[r],
               WriteTargets(r) \/ WriteRefused(r) \/ EtaClaim(r) \/ EtaRead(r)
        PROVE  /\ stamp' = stamp
               /\ HoldsRow(r)' => req[r].token = stamp
               /\ req'[r].reply = "applied" => req[r].reply = "applied"
    <3>1. stamp' = stamp
      BY <2>4 DEF WriteTargets, WriteRefused, EtaClaim, EtaRead
    <3>2. HoldsRow(r)' => HoldsRow(r) \/ EtaClaimable(r)
      <4>1. ASSUME HoldsRow(r)', ~HoldsRow(r) PROVE EtaClaimable(r)
        <5>1. \/ RowFree /\ WriteTargets(r)
              \/ RowFree /\ EtaClaim(r)
          BY <1>1, <4>1, HolderStep
        <5>2. CASE WriteTargets(r)
          BY <2>3, <2>4, <4>1, <5>2 DEF WriteTargets, HoldsRow
        <5>3. ASSUME EtaClaim(r), ~EtaClaimable(r) PROVE FALSE
          <6>1. req'[r].pc = "done"
            BY <1>1, <5>3, ServedType DEF EtaClaim, Reply, TypeOK, Recompute, EtaChange
          <6> QED BY <4>1, <6>1 DEF HoldsRow
        <5> QED BY <5>1, <5>2, <5>3
      <4> QED BY <4>1
    <3>3. HoldsRow(r)' => req[r].token = stamp
      BY <2>3, <2>4, <3>2 DEF StampInv, EtaClaimable
    <3>4. req'[r].reply = "applied" => req[r].reply = "applied"
      <4>1. ASSUME Applies(r) PROVE FALSE
        <5>1. Commit(r)
          BY <1>1, <1>3, <4>1, AppliedStep
        <5> QED BY <1>2, <3>1, <5>1, StampStep
      <4> QED BY <4>1 DEF Applies
    <3> QED BY <3>1, <3>3, <3>4
  <2>5. ASSUME req'[r] # req[r], Commit(r)
        PROVE  ~HoldsRow(r)' /\ req[r].token < stamp'
    <3>1. req'[r].pc = "done"
      BY <1>1, <2>5, ServedType DEF Commit, Reply, TypeOK, Recompute, EtaChange
    <3>2. req[r].token <= stamp /\ stamp < stamp'
      BY <2>3, <2>5, StampStep DEF StampInv
    <3> QED BY <1>2, <2>3, <2>5, <3>1, <3>2 DEF HoldsRow
  <2>6. CASE req'[r] # req[r] /\ Commit(r)
    BY <1>2, <2>3, <2>5, <2>6
  <2>7. CASE req'[r] # req[r] /\ (WriteTargets(r) \/ WriteRefused(r) \/ EtaClaim(r) \/ EtaRead(r))
    BY <1>2, <2>3, <2>4, <2>7 DEF StampInv
  <2> QED BY <1>1, <1>2, <1>3, <2>1, <2>2, <2>6, <2>7, EtaCallStep
<1>4. ASSUME NEW r \in Requests, NEW q \in Requests, r # q,
             req'[r].op = "eta_changed", req'[r].reply = "applied",
             req'[q].op = "eta_changed", req'[q].reply = "applied",
             req'[r].token = req'[q].token
      PROVE  FALSE
  <2>1. ASSUME NEW x \in Requests, NEW y \in Requests, x # y,
               Applies(x), req'[x].op = "eta_changed",
               req'[y].op = "eta_changed", req'[y].reply = "applied"
        PROVE  req'[x].token # req'[y].token
    <3>1. Commit(x) /\ req[x].op = "eta_changed"
      BY <1>1, <2>1, AppliedStep
    <3>2. req'[y] = req[y] /\ req'[x].token = req[x].token
      BY <1>1, <2>1, <3>1, OwnCall, ServedType
         DEF Continue, Commit, Reply, TypeOK, Recompute, EtaChange
    <3>3. req[x].token = stamp /\ req[y].token < stamp
      BY <2>1, <3>1, <3>2 DEF StampInv, Commit, HoldsRow
    <3>4. req[y].token \in Nat
      BY <1>1, <2>1, <3>2 DEF TypeOK, Request, Recompute, EtaChange, IdleRequest
    <3> QED BY <1>2, <3>2, <3>3, <3>4
  <2>2. CASE Applies(r)
    BY <1>4, <2>1, <2>2
  <2>3. CASE Applies(q)
    BY <1>4, <2>1, <2>3
  <2>4. CASE ~Applies(r) /\ ~Applies(q)
    <3>1. ASSUME NEW x \in Requests, ~Applies(x),
                 req'[x].op = "eta_changed", req'[x].reply = "applied"
          PROVE  /\ req[x].op = "eta_changed" /\ req[x].reply = "applied"
                 /\ req[x].token = req'[x].token
      <4>1. req[x].reply = "applied"
        BY <3>1 DEF Applies
      <4>2. req[x].pc # "idle"
        BY <1>1, <4>1, NoneAssumption
           DEF TypeOK, Request, Recompute, EtaChange, IdleRequest, Replies
      <4>3. ASSUME NEW e \in Etas, EtaArrive(x, e) PROVE FALSE
        BY <4>2, <4>3 DEF EtaArrive
      <4>4. CASE req'[x] = req[x]
        BY <3>1, <4>1, <4>4
      <4>5. CASE WriteTargets(x) \/ WriteRefused(x) \/ EtaClaim(x) \/ EtaRead(x) \/ Commit(x)
        <5>1. req[x] \in Recompute \cup EtaChange
          BY <1>1, <4>2, ServedType
        <5> QED BY <1>1, <3>1, <4>1, <4>5, <5>1
                DEF WriteTargets, WriteRefused, EtaClaim, EtaRead, Commit, Advance,
                    Reply, TypeOK, Recompute, EtaChange
      <4> QED BY <1>1, <3>1, <4>3, <4>4, <4>5, EtaCallStep
    <3> QED BY <1>4, <2>4, <3>1 DEF StampInv, OneWinnerPerReading
  <2> QED BY <2>2, <2>3, <2>4
<1> QED BY <1>1, <1>2, <1>3, <1>4 DEF StampInv, OneWinnerPerReading

\* Of the ETA changes made against one reading of the row one wins, provided no
\* two updates of the row carry the same stamp.
THEOREM OneEtaChangeWins ==
  ASSUME FreshStamps
  PROVE  Spec => []OneWinnerPerReading
<1>1. StampInv /\ [Next]_vars => StampInv'
  BY StampInvStep
<1>2. StampInv => OneWinnerPerReading
  BY DEF StampInv
<1> QED BY <1>1, <1>2, StampInit, PTL DEF Spec

-----------------------------------------------------------------------------
(* Notifications: a row has one owner                                        *)

\* Where a handler is when its notification is over: it is idle, or it goes on to
\* claim the restaurant's alert.  Either way it owns nothing.
LEMMA FinishedOwnsNothing ==
  ASSUME NotificationTypeOK, NEW j \in Jobs, Finish(j)
  PROVE  /\ job' \in [Jobs -> Job]
         /\ \A t \in Types : ~Owns(j, t)'
         /\ \A k \in Jobs : k # j => job'[k] = job[k]
<1> DEFINE next == IF job[j].type = Sms THEN [type |-> Alert, pc |-> "claim"] ELSE IdleJob
<1>1. next \in Job /\ next.pc \in {"idle", "claim"}
  BY DEF IdleJob, Job, Types
<1>2. job' = [job EXCEPT ![j] = next]
  BY DEF Finish
<1> HIDE DEF next
<1>3. job \in [Jobs -> Job]
  BY DEF NotificationTypeOK
<1>4. job'[j] = next /\ \A k \in Jobs : k # j => job'[k] = job[k]
  BY <1>2, <1>3
<1> QED BY <1>1, <1>2, <1>3, <1>4 DEF Owns

\* A handler that moves on keeps its notification.
LEMMA MovedJob ==
  ASSUME NotificationTypeOK, NEW j \in Jobs,
         NEW pc \in {"claim", "send", "mark", "fail"}, MoveOn(j, pc)
  PROVE  /\ job' \in [Jobs -> Job]
         /\ job'[j].type = job[j].type /\ job'[j].pc = pc
         /\ \A k \in Jobs : k # j => job'[k] = job[k]
<1>1. job \in [Jobs -> Job] /\ job[j] \in Job
  BY DEF NotificationTypeOK
<1>2. [job[j] EXCEPT !.pc = pc] \in Job
  BY <1>1 DEF Job
<1>3. job' = [job EXCEPT ![j] = [job[j] EXCEPT !.pc = pc]]
  BY DEF MoveOn
<1> QED BY <1>1, <1>2, <1>3 DEF Job

-----------------------------------------------------------------------------

LEMMA OnceInit == NotificationInit => OnceInv
<1> SUFFICES ASSUME NotificationInit PROVE OnceInv
  OBVIOUS
<1>1. /\ log \in [Types -> LogStatus] /\ sends \in [Types -> 0 .. MaxSends]
      /\ job \in [Jobs -> Job]
      /\ \A t \in Types : log[t] = "none" /\ sends[t] = 0
      /\ \A j \in Jobs : job[j].pc = "idle"
  BY NotificationAssumption DEF NotificationInit, IdleJob, Job, Types, LogStatus
<1>2. faulted \in BOOLEAN
  BY DEF NotificationInit
<1> QED BY <1>1, <1>2 DEF OnceInv, NotificationTypeOK, OneOwner, AtMostOnce, Owns

\* What a handler that starts, or ends, changes is only itself.
LEMMA QuietStep ==
  ASSUME OnceInv, NEW j \in Jobs, job' \in [Jobs -> Job],
         \A k \in Jobs : k # j => job'[k] = job[k],
         \A t \in Types : ~Owns(j, t)',
         UNCHANGED <<log, sends>>, faulted' \in BOOLEAN
  PROVE  OnceInv'
<1>1. ASSUME NEW t \in Types, NEW k \in Jobs, Owns(k, t)'
      PROVE  k # j /\ job'[k] = job[k] /\ Owns(k, t)
  BY <1>1 DEF Owns
<1> QED BY <1>1 DEF OnceInv, NotificationTypeOK, OneOwner, AtMostOnce, At

\* A step of the owner that may send and settle its own row.
LEMMA OwnerStep ==
  ASSUME OnceInv, NEW j \in Jobs, NEW t \in Types, Owns(j, t),
         NotificationTypeOK',
         \A k \in Jobs : k # j => job'[k] = job[k],
         \A s \in Types \ {t} : log'[s] = log[s] /\ sends'[s] = sends[s],
         sends'[t] <= 1, log'[t] # "none",
         \A s \in Types \ {t} : ~Owns(j, s)',
         Owns(j, t)' => /\ log'[t] = "pending"
                        /\ ~At(j, "send")'
                        /\ At(j, "mark")' => sends'[t] = 1
  PROVE  OnceInv'
<1>1. ASSUME NEW s \in Types, NEW k \in Jobs, Owns(k, s)'
      PROVE  \/ s = t /\ k = j
             \/ s # t /\ k # j /\ job'[k] = job[k] /\ Owns(k, s)
  <2>1. CASE k = j
    BY <1>1, <2>1
  <2>2. CASE k # j
    <3>1. job'[k] = job[k] /\ Owns(k, s)
      BY <1>1, <2>2 DEF Owns
    <3>2. s # t
      BY <2>2, <3>1 DEF OnceInv, OneOwner
    <3> QED BY <2>2, <3>1, <3>2
  <2> QED BY <2>1, <2>2
<1>2. AtMostOnce'
  BY DEF OnceInv, AtMostOnce
<1>3. OneOwner'
  BY <1>1 DEF OnceInv, OneOwner, At
<1> QED BY <1>2, <1>3 DEF OnceInv

LEMMA OnceStep ==
  ASSUME OnceInv, [NotificationNext]_notificationVars
  PROVE  OnceInv'
<1> USE DEF OnceInv
<1>1. /\ NotificationTypeOK /\ OneOwner /\ AtMostOnce
      /\ faulted' \in BOOLEAN
  BY DEF NotificationNext, HearConfirmed, HearDrift, Work, LookUp, Claim, Deliver,
         SmsThrows, Mark, MarkFailed, DatabaseFails, Crash, notificationVars,
         NotificationTypeOK
<1>2. ASSUME NEW j \in Jobs, HearConfirmed(j) \/ HearDrift(j) PROVE OnceInv'
  <2>1. job' \in [Jobs -> Job] /\ \A k \in Jobs : k # j => job'[k] = job[k]
    BY <1>2 DEF HearConfirmed, HearDrift, NotificationTypeOK, Job, Types
  <2>2. job'[j].pc \in {"look", "claim"}
    BY <1>2 DEF HearConfirmed, HearDrift, NotificationTypeOK
  <2>3. UNCHANGED <<log, sends>>
    BY <1>2 DEF HearConfirmed, HearDrift
  <2> QED BY <1>1, <2>1, <2>2, <2>3, QuietStep DEF Owns
<1>3. ASSUME NEW j \in Jobs, LookUp(j) PROVE OnceInv'
  BY <1>1, <1>3, MovedJob, QuietStep DEF LookUp, Owns
<1>4. ASSUME NEW j \in Jobs, Claim(j) PROVE OnceInv'
  <2>1. CASE log[job[j].type] = "none"
    <3> DEFINE t == job[j].type
    <3>1. t \in Types /\ log' = [log EXCEPT ![t] = "pending"] /\ sends' = sends
      BY <1>4, <2>1 DEF Claim, NotificationTypeOK, Job
    <3>2. /\ job' \in [Jobs -> Job] /\ job'[j].type = t /\ job'[j].pc = "send"
          /\ \A k \in Jobs : k # j => job'[k] = job[k]
      BY <1>4, <2>1, MovedJob DEF Claim
    <3>3. sends[t] = 0 /\ \A k \in Jobs : ~Owns(k, t)
      BY <2>1, <3>1 DEF OneOwner
    <3> HIDE DEF t
    <3>4. ASSUME NEW s \in Types, NEW k \in Jobs, Owns(k, s)'
          PROVE  \/ s = t /\ k = j
                 \/ s # t /\ k # j /\ job'[k] = job[k] /\ Owns(k, s)
      BY <3>2, <3>3, <3>4 DEF Owns
    <3>5. log'[t] = "pending" /\ \A s \in Types : s # t => log'[s] = log[s]
      BY <3>1 DEF NotificationTypeOK
    <3>6. NotificationTypeOK' /\ AtMostOnce'
      BY <1>1, <3>1, <3>2 DEF NotificationTypeOK, AtMostOnce, LogStatus
    <3>7. OneOwner'
      BY <3>1, <3>2, <3>3, <3>4, <3>5 DEF OneOwner, At
    <3> QED BY <3>6, <3>7
  <2>2. CASE log[job[j].type] # "none"
    BY <1>1, <1>4, <2>2, FinishedOwnsNothing, QuietStep DEF Claim
  <2> QED BY <2>1, <2>2
<1>5. ASSUME NEW j \in Jobs, Deliver(j) \/ SmsThrows(j) PROVE OnceInv'
  <2> DEFINE t == job[j].type
  <2>1. t \in Types /\ Owns(j, t) /\ log[t] = "pending" /\ sends[t] = 0
    BY <1>5 DEF Deliver, SmsThrows, At, Owns, OneOwner, NotificationTypeOK, Job
  <2>2. PICK pc \in {"mark", "fail"} : MoveOn(j, pc) /\ (pc = "mark" => sends'[t] = 1)
    BY <1>5, <2>1 DEF Deliver, SmsThrows, NotificationTypeOK
  <2>3. /\ job' \in [Jobs -> Job] /\ job'[j].type = t /\ job'[j].pc = pc
        /\ \A k \in Jobs : k # j => job'[k] = job[k]
    BY <2>2, MovedJob
  <2>4. /\ log' = log /\ sends' \in [Types -> 0 .. MaxSends] /\ sends'[t] <= 1
        /\ \A s \in Types : s # t => sends'[s] = sends[s]
    BY <1>5, <2>1, NotificationAssumption DEF Deliver, SmsThrows, NotificationTypeOK
  <2> HIDE DEF t
  <2>5. NotificationTypeOK'
    BY <1>1, <2>3, <2>4 DEF NotificationTypeOK
  <2> QED BY <2>1, <2>2, <2>3, <2>4, <2>5, OwnerStep DEF Owns, At
<1>6. ASSUME NEW j \in Jobs, Mark(j) \/ MarkFailed(j) PROVE OnceInv'
  <2> DEFINE t == job[j].type
  <2>1. t \in Types /\ Owns(j, t) /\ sends[t] <= 1
    BY <1>6 DEF Mark, MarkFailed, At, Owns, NotificationTypeOK, Job, AtMostOnce
  <2>2. /\ job' \in [Jobs -> Job] /\ \A s \in Types : ~Owns(j, s)'
        /\ \A k \in Jobs : k # j => job'[k] = job[k]
    BY <1>6, FinishedOwnsNothing DEF Mark, MarkFailed
  <2>3. /\ log' \in [Types -> LogStatus] /\ log'[t] # "none" /\ sends' = sends
        /\ \A s \in Types : s # t => log'[s] = log[s]
    BY <1>6, <2>1 DEF Mark, MarkFailed, NotificationTypeOK, LogStatus
  <2> HIDE DEF t
  <2>4. NotificationTypeOK'
    BY <1>1, <2>2, <2>3 DEF NotificationTypeOK
  <2> QED BY <2>1, <2>2, <2>3, <2>4, OwnerStep
<1>7. ASSUME NEW j \in Jobs, DatabaseFails(j) PROVE OnceInv'
  <2>1. CASE Finish(j)
    BY <1>1, <1>7, <2>1, FinishedOwnsNothing, QuietStep DEF DatabaseFails
  <2>2. CASE At(j, "mark") /\ MoveOn(j, "fail")
    <3> DEFINE t == job[j].type
    <3>1. t \in Types /\ Owns(j, t) /\ sends[t] <= 1 /\ log[t] = "pending"
      BY <2>2 DEF At, Owns, OneOwner, NotificationTypeOK, Job, AtMostOnce
    <3>2. /\ job' \in [Jobs -> Job] /\ job'[j].type = t /\ job'[j].pc = "fail"
          /\ \A k \in Jobs : k # j => job'[k] = job[k]
      BY <2>2, MovedJob
    <3> HIDE DEF t
    <3>3. UNCHANGED <<log, sends>> /\ NotificationTypeOK'
      BY <1>1, <1>7, <3>2 DEF DatabaseFails, NotificationTypeOK
    <3> QED BY <3>1, <3>2, <3>3, OwnerStep DEF Owns, At
  <2> QED BY <1>7, <2>1, <2>2 DEF DatabaseFails
<1>8. CASE Crash
  <2>1. job' \in [Jobs -> Job] /\ UNCHANGED <<log, sends>>
        /\ \A j \in Jobs, t \in Types : ~Owns(j, t)'
    BY <1>8 DEF Crash, Owns, IdleJob, Job, Types
  <2> QED BY <1>1, <2>1 DEF NotificationTypeOK, OneOwner, AtMostOnce
<1>9. CASE UNCHANGED notificationVars
  BY <1>9 DEF notificationVars, NotificationTypeOK, OneOwner, AtMostOnce, Owns, At
<1> QED BY <1>2, <1>3, <1>4, <1>5, <1>6, <1>7, <1>8, <1>9 DEF NotificationNext, Work

\* OnceInv is an invariant: a row is owned by the one handler whose insert made it,
\* and that handler has sent nothing before it sends.
THEOREM RowsAreOwned == NotificationSpec => []OnceInv
<1> QED BY OnceInit, OnceStep, PTL DEF NotificationSpec

\* However often an event is delivered, whatever transaction fails and whenever the
\* process dies, a message of a kind goes out at most once (claimThenSend).
THEOREM SentAtMostOnce == NotificationSpec => []AtMostOnce
<1>1. OnceInv => AtMostOnce
  BY DEF OnceInv
<1> QED BY <1>1, RowsAreOwned, PTL

SentMeansSent == \A t \in Types : log[t] = "sent" => sends[t] = 1

\* A row once marked sent has no owner any more, so its count stays; and the one that
\* marks it has sent.
LEMMA HonestStep ==
  ASSUME OnceInv, SentMeansSent, [NotificationNext]_notificationVars
  PROVE  SentMeansSent'
<1> USE DEF OnceInv
<1>1. NotificationTypeOK /\ OneOwner
  OBVIOUS
<1>2. CASE UNCHANGED <<log, sends>>
  BY <1>2 DEF SentMeansSent
<1>3. ASSUME NEW j \in Jobs, Claim(j) PROVE SentMeansSent'
  <2>1. CASE log[job[j].type] = "none"
    BY <1>1, <1>3, <2>1 DEF Claim, SentMeansSent, NotificationTypeOK, Job
  <2>2. CASE log[job[j].type] # "none"
    BY <1>2, <1>3, <2>2 DEF Claim
  <2> QED BY <2>1, <2>2
<1>4. ASSUME NEW j \in Jobs, Deliver(j) \/ SmsThrows(j) PROVE SentMeansSent'
  <2>1. job[j].type \in Types /\ log[job[j].type] = "pending"
    BY <1>1, <1>4 DEF Deliver, SmsThrows, At, Owns, OneOwner, NotificationTypeOK, Job
  <2>2. log' = log /\ \A t \in Types : t # job[j].type => sends'[t] = sends[t]
    BY <1>1, <1>4 DEF Deliver, SmsThrows, NotificationTypeOK
  <2> QED BY <2>1, <2>2 DEF SentMeansSent
<1>5. ASSUME NEW j \in Jobs, Mark(j) PROVE SentMeansSent'
  <2>1. job[j].type \in Types /\ sends[job[j].type] = 1
    BY <1>1, <1>5 DEF Mark, At, Owns, OneOwner, NotificationTypeOK, Job
  <2> QED BY <1>1, <1>5, <2>1 DEF Mark, SentMeansSent, NotificationTypeOK
<1>6. ASSUME NEW j \in Jobs, MarkFailed(j) PROVE SentMeansSent'
  BY <1>1, <1>6 DEF MarkFailed, SentMeansSent, NotificationTypeOK, Job
<1>7. ASSUME NEW j \in Jobs, HearConfirmed(j) \/ HearDrift(j) \/ LookUp(j) \/ DatabaseFails(j)
      PROVE SentMeansSent'
  BY <1>2, <1>7 DEF HearConfirmed, HearDrift, LookUp, DatabaseFails
<1>8. CASE Crash
  BY <1>2, <1>8 DEF Crash
<1>9. CASE UNCHANGED notificationVars
  BY <1>2, <1>9 DEF notificationVars
<1> QED BY <1>3, <1>4, <1>5, <1>6, <1>7, <1>8, <1>9 DEF NotificationNext, Work

\* What the log calls sent has been sent, once, and nothing is sent before its row is
\* there (the claim of claimThenSend comes before its send, the mark after it).
THEOREM LogTellsTheTruth == NotificationSpec => []LogIsHonest
<1>1. NotificationInit => SentMeansSent
  BY DEF NotificationInit, SentMeansSent
<1>2. OnceInv /\ SentMeansSent => LogIsHonest
  BY DEF OnceInv, NotificationTypeOK, OneOwner, SentMeansSent, LogIsHonest
<1> QED BY <1>1, <1>2, RowsAreOwned, HonestStep, PTL DEF NotificationSpec

-----------------------------------------------------------------------------
(* The composition: which recompute alerts the restaurant                    *)

\* The targets an ETA change will replace are those in force.
ReadIsCurrent ==
    \A r \in Requests :
        req[r].op = "eta_changed" /\ req[r].pc = "write" =>
            req[r].new # NONE /\ req[r].prev = targets

\* A handler at work on a drift alert.
Alerting == \E j \in Jobs : job[j].type = Drift /\ ~At(j, "idle")

Heard ==
    /\ sends \in [Types -> Nat]
    /\ job \in [Jobs -> Job]
    /\ sends[Drift] > 0 \/ Alerting => drifted # "no"

AlarmInv == RowInv /\ ReadIsCurrent /\ Heard

-----------------------------------------------------------------------------

\* While a call holds the row and does nothing, the targets in force stay.
LEMMA HeldRowIsStill ==
  ASSUME RowInv, [Next]_vars, NEW r \in Requests, HoldsRow(r), req'[r] = req[r]
  PROVE  targets' = targets
<1> SUFFICES ASSUME targets' # targets PROVE FALSE
  OBVIOUS
<1>1. PICK q \in Requests : Commit(q)
  BY DEF Next, vars, Begin, Continue, Others, RecomputeRead, EtaArrive, WriteTargets,
         WriteRefused, EtaClaim, EtaRead, EndRequest, AcceptKitchenStart, OtherWrite,
         EditOrder, Tick
<1>2. HoldsRow(q) /\ req[q].pc = "commit"
  BY <1>1 DEF Commit, HoldsRow
<1>3. req'[q].pc = "done"
  BY <1>1, ServedType DEF Commit, Reply, RowInv, TypeOK, Recompute, EtaChange
<1> QED BY <1>2, <1>3 DEF RowInv

\* The steps of Timing never let what an ETA change has read go stale.
LEMMA ReadStaysCurrent ==
  ASSUME RowInv, ReadIsCurrent, [Next]_vars
  PROVE  ReadIsCurrent'
<1>1. TypeOK /\ TypeOK'
  BY TypeStep DEF RowInv
<1> SUFFICES ASSUME NEW r \in Requests,
                    req'[r].op = "eta_changed", req'[r].pc = "write"
             PROVE  req'[r].new # NONE /\ req'[r].prev = targets'
  BY DEF ReadIsCurrent
<1>2. CASE req'[r] = req[r]
  BY <1>2, HeldRowIsStill DEF ReadIsCurrent, HoldsRow
<1>3. CASE req'[r] # req[r]
  <2>1. \/ \E e \in Etas : EtaArrive(r, e)
        \/ WriteTargets(r) \/ WriteRefused(r) \/ EtaClaim(r) \/ EtaRead(r) \/ Commit(r)
    BY <1>1, <1>3, EtaCallStep
  <2>2. ASSUME NEW e \in Etas, EtaArrive(r, e) PROVE FALSE
    BY <1>1, <2>2 DEF EtaArrive, IdleRequest, TypeOK
  <2>3. ASSUME WriteTargets(r) \/ WriteRefused(r) \/ EtaClaim(r) \/ Commit(r) PROVE FALSE
    <3>1. req[r] \in Recompute \cup EtaChange
      BY <1>1, <2>3, ServedType DEF WriteTargets, WriteRefused, EtaClaim, Commit
    <3>2. req'[r].pc \in {"commit", "done", "read"}
      BY <1>1, <2>3, <3>1 DEF WriteTargets, WriteRefused, EtaClaim, Commit, Advance, Reply,
             TypeOK, Recompute, EtaChange
    <3> QED BY <3>2
  <2>4. CASE EtaRead(r)
    <3>1. req[r] \in EtaChange
      BY <1>1, <2>4, ServedType DEF EtaRead, Recompute
    <3>2. CASE Obstacle(status) = NONE
      <4> DEFINE new == ComputeTimingTargets(req[r].eta, dishes)
      <4>1. new \in Targets
        BY <1>1, <3>1, <3>2, ComputedType DEF EtaChange
      <4>2. req' = [req EXCEPT ![r] =
                      [req[r] EXCEPT !.pc = "write", !.prev = targets, !.new = new]]
        BY <2>4, <3>2 DEF EtaRead
      <4>3. req'[r].new = new /\ req'[r].prev = targets /\ targets' = targets
        <5> HIDE DEF new
        <5> QED BY <1>1, <2>4, <3>1, <4>2 DEF TypeOK, EtaRead, EtaChange
      <4> QED BY <4>1, <4>3, NoneAssumption
    <3>3. CASE Obstacle(status) # NONE
      BY <1>1, <2>4, <3>1, <3>3 DEF EtaRead, Advance, TypeOK, EtaChange
    <3> QED BY <3>2, <3>3
  <2> QED BY <2>1, <2>2, <2>3, <2>4
<1> QED BY <1>2, <1>3

\* A handler that starts does so because of an ETA change that moves the targets
\* in force.
LEMMA AlertsAreCalledFor ==
  ASSUME AlarmInv, NEW r \in Requests, WriteTargets(r), CallsForAlert(r)
  PROVE  MovesTargets(r)
BY DEF AlarmInv, ReadIsCurrent, WriteTargets, CallsForAlert, MovesTargets

\* Once a significant change has been written, that is not forgotten.
LEMMA DriftedStays ==
  ASSUME [DriftNext]_driftVars, drifted # "no"
  PROVE  drifted' # "no"
BY DEF DriftNext, driftVars, Announce, CommitDrift, Silent, Handle

\* The work of the handlers: a message is sent by a handler of its type.
LEMMA HandlersKeepHeard ==
  ASSUME Heard, NEW j \in Jobs, Work(j) \/ DatabaseFails(j), drifted' = drifted
  PROVE  Heard'
<1> USE DEF Types, Sms, Alert, Drift, Job, At
<1>1. sends' \in [Types -> Nat]
  BY DEF Heard, Work, DatabaseFails, LookUp, Claim, Deliver, SmsThrows,
         Mark, MarkFailed
<1>2. job' \in [Jobs -> Job]
  BY DEF Heard, Work, DatabaseFails, LookUp, Claim, Deliver, SmsThrows,
         Mark, MarkFailed, MoveOn, Finish, IdleJob
<1>3. ASSUME NEW k \in Jobs, job'[k].type = Drift, job'[k].pc # "idle"
      PROVE  job[k].type = Drift /\ job[k].pc # "idle"
  BY <1>3 DEF Heard, Work, DatabaseFails, LookUp, Claim, Deliver, SmsThrows,
         Mark, MarkFailed, MoveOn, Finish, IdleJob
<1>4. ASSUME sends'[Drift] > 0, sends[Drift] = 0
      PROVE  job[j].type = Drift /\ job[j].pc # "idle"
  BY <1>4 DEF Heard, Work, DatabaseFails, LookUp, Claim, Deliver, SmsThrows,
         Mark, MarkFailed
<1>5. sends[Drift] \in Nat
  BY DEF Heard
<1>6. ASSUME sends'[Drift] > 0 \/ Alerting' PROVE drifted' # "no"
  <2>1. sends[Drift] > 0 \/ Alerting
    BY <1>3, <1>4, <1>5, <1>6 DEF Alerting
  <2> QED BY <2>1 DEF Heard
<1> QED BY <1>1, <1>2, <1>6 DEF Heard

LEMMA AlarmInit == DriftInit => AlarmInv
<1> SUFFICES ASSUME DriftInit PROVE AlarmInv
  OBVIOUS
<1>1. RowInv
  BY RowInit DEF DriftInit
<1>2. ReadIsCurrent
  BY DEF DriftInit, Init, ReadIsCurrent, IdleRequest
<1>3. Heard
  BY DEF DriftInit, NotificationInit, Heard, Alerting, At, IdleJob, Job,
         Types, Sms, Alert, Drift
<1> QED BY <1>1, <1>2, <1>3 DEF AlarmInv

\* Every step of the composition is a step of Timing, or leaves its state alone.
LEMMA DriftImplementsTiming == [DriftNext]_driftVars => [Next]_vars
BY DEF DriftNext, driftVars, Announce, CommitDrift, Silent, Handle, Next, Begin, Continue

LEMMA AlarmStep == AlarmInv /\ [DriftNext]_driftVars => AlarmInv'
<1> SUFFICES ASSUME AlarmInv, [DriftNext]_driftVars PROVE AlarmInv'
  OBVIOUS
<1>1. RowInv' /\ ReadIsCurrent'
  BY DriftImplementsTiming, RowStep, ReadStaysCurrent DEF AlarmInv
<1>2. ASSUME NEW r \in Requests, Announce(r) PROVE Heard'
  <2>1. CASE CallsForAlert(r)
    <3>1. drifted' # "no"
      BY <1>2, <2>1, AlertsAreCalledFor DEF Announce
    <3>2. PICK j \in Jobs : HearDrift(j)
      BY <1>2, <2>1 DEF Announce
    <3> QED BY <3>1, <3>2 DEF AlarmInv, Heard, HearDrift, Job, Types, Drift
  <2>2. CASE ~CallsForAlert(r)
    <3>1. UNCHANGED notificationVars
      BY <1>2, <2>2 DEF Announce
    <3> QED BY <3>1, DriftedStays DEF AlarmInv, Heard, Alerting, notificationVars, At
  <2> QED BY <2>1, <2>2
<1>3. ASSUME UNCHANGED notificationVars PROVE Heard'
  BY <1>3, DriftedStays DEF AlarmInv, Heard, Alerting, notificationVars, At
<1>4. ASSUME Handle PROVE Heard'
  BY <1>4, HandlersKeepHeard DEF AlarmInv, Handle
<1>5. Heard'
  BY <1>2, <1>3, <1>4 DEF DriftNext, driftVars, CommitDrift, Silent
<1> QED BY <1>1, <1>5 DEF AlarmInv

\* The restaurant is never alerted but of an ETA change that moves the kitchen
\* start in force by the threshold (notification.subscriber.ts onTimingRecomputed).
THEOREM AlarmsAreTrue == DriftSpec => []NoFalseAlarm
<1>1. AlarmInv => NoFalseAlarm
  BY DEF AlarmInv, Heard, NoFalseAlarm
<1> QED BY <1>1, AlarmInit, AlarmStep, PTL DEF DriftSpec

-----------------------------------------------------------------------------
(* A significant change that is committed has been noticed                   *)

\* A call computes its targets once it has claimed the visit.
Unread ==
    \A r \in Requests :
        req[r].op = "eta_changed" /\ req[r].pc \in {"claim", "read"} => req[r].new = NONE

\* A significant change that waits for its commit has been announced.
OpenMoves == \A r \in Requests : req[r].pc = "commit" /\ MovesTargets(r) => drifted # "no"

\* The alert has gone out, or a transaction has failed.
Answered == sends[Drift] > 0 \/ faulted

\* A change that has been announced is answered or in a handler's hands, and a row of
\* the log, once it is there, is answered or in the hands of the handler that owns it:
\* the one that finds it there may leave.
Noticed ==
    /\ drifted # "no" => Answered \/ Alerting
    /\ log[Drift] # "none" => Answered \/ \E j \in Jobs : Owns(j, Drift)
    /\ \A j \in Jobs : job[j].type = Drift /\ At(j, "fail") => Answered

NoticeInv == AlarmInv /\ OnceInv /\ Unread /\ OpenMoves /\ Noticed

\* Every step of the composition is a step of Notifications, or leaves its state alone.
LEMMA DriftImplementsNotifications ==
  [DriftNext]_driftVars => [NotificationNext]_notificationVars
BY DEF DriftNext, driftVars, Announce, CommitDrift, Silent, Handle, NotificationNext

LEMMA UnreadStep ==
  ASSUME RowInv, Unread, [Next]_vars
  PROVE  Unread'
<1>1. TypeOK
  BY DEF RowInv
<1> SUFFICES ASSUME NEW r \in Requests,
                    req'[r].op = "eta_changed", req'[r].pc \in {"claim", "read"}
             PROVE  req'[r].new = NONE
  BY DEF Unread
<1>2. CASE req'[r] = req[r]
  BY <1>2 DEF Unread
<1>3. ASSUME NEW e \in Etas, EtaArrive(r, e) PROVE req'[r].new = NONE
  BY <1>1, <1>3 DEF EtaArrive, IdleRequest, TypeOK
<1>4. ASSUME EtaClaim(r) PROVE req'[r].new = NONE
  BY <1>1, <1>4, ServedType DEF EtaClaim, Advance, Reply, TypeOK, Recompute, EtaChange, Unread
<1>5. ASSUME WriteTargets(r) \/ WriteRefused(r) \/ EtaRead(r) \/ Commit(r) PROVE FALSE
  <2>1. req[r] \in Recompute \cup EtaChange
    BY <1>1, <1>5, ServedType DEF WriteTargets, WriteRefused, EtaRead, Commit
  <2>2. req'[r].pc \in {"commit", "done", "write"}
    BY <1>1, <1>5, <2>1 DEF WriteTargets, WriteRefused, EtaRead, Commit, Advance, Reply,
           TypeOK, Recompute, EtaChange
  <2> QED BY <2>2
<1> QED BY <1>1, <1>2, <1>3, <1>4, <1>5, EtaCallStep

\* A change that comes to its commit has just been announced, or computes nothing.
LEMMA OpenMovesStep ==
  ASSUME AlarmInv, Unread, OpenMoves, [DriftNext]_driftVars
  PROVE  OpenMoves'
<1>1. RowInv /\ TypeOK /\ [Next]_vars
  BY DriftImplementsTiming DEF AlarmInv, RowInv
<1> SUFFICES ASSUME NEW r \in Requests, req'[r].pc = "commit", MovesTargets(r)'
             PROVE  drifted' # "no"
  BY DEF OpenMoves
<1>2. CASE req'[r] = req[r]
  <2>1. HoldsRow(r)
    BY <1>2 DEF HoldsRow
  <2>2. targets' = targets
    BY <1>1, <1>2, <2>1, HeldRowIsStill
  <2>3. MovesTargets(r)
    BY <1>2, <2>2 DEF MovesTargets
  <2> QED BY <1>2, <2>3, DriftedStays DEF OpenMoves
<1>3. CASE WriteTargets(r)
  <2>1. req[r] \in Recompute \cup EtaChange
    BY <1>1, <1>3, ServedType DEF WriteTargets
  <2>2. /\ req'[r].op = req[r].op /\ req'[r].new = req[r].new /\ targets' = targets
        /\ req[r].pc = "write" /\ req'[r].pc = "commit"
    BY <1>1, <1>3, <2>1 DEF WriteTargets, Advance, TypeOK, Recompute, EtaChange
  <2>3. MovesTargets(r)
    BY <2>2 DEF MovesTargets
  <2>4. PICK q \in Requests : Announce(q) \/ CommitDrift(q) \/ Silent(q)
    BY <2>2 DEF DriftNext, driftVars, vars, Others, AcceptKitchenStart, OtherWrite,
           EditOrder, Tick, Handle
  <2>5. q = r
    BY <2>2, <2>4, <1>1, OwnCall DEF Announce, CommitDrift, Silent, Begin, Continue
  <2>6. ASSUME CommitDrift(r) \/ Silent(r) PROVE FALSE
    <3>1. \/ Begin(r) \/ EndRequest(r) \/ WriteRefused(r) \/ EtaClaim(r)
          \/ EtaRead(r) \/ Commit(r)
      BY <2>6 DEF CommitDrift, Silent
    <3>2. CASE EndRequest(r)
      BY <1>1, <2>2, <3>2 DEF EndRequest, IdleRequest, TypeOK
    <3>3. CASE WriteRefused(r)
      BY <1>3, <3>3 DEF WriteRefused, WriteTargets
    <3> QED BY <2>2, <3>1, <3>2, <3>3 DEF Begin, RecomputeRead, EtaArrive, EtaClaim,
                EtaRead, Commit
  <2> QED BY <2>3, <2>4, <2>5, <2>6 DEF Announce
<1>4. CASE EtaRead(r)
  <2>1. req[r] \in EtaChange
    BY <1>1, <1>4, ServedType DEF EtaRead, Recompute
  <2>2. req'[r].pc = "write" \/ req'[r].new = req[r].new
    BY <1>1, <1>4, <2>1 DEF EtaRead, Advance, TypeOK, EtaChange
  <2>3. req[r].new = NONE
    BY <1>4, <2>1 DEF EtaRead, Unread, EtaChange
  <2> QED BY <2>2, <2>3 DEF MovesTargets
<1>5. ASSUME NEW e \in Etas, EtaArrive(r, e) PROVE FALSE
  BY <1>1, <1>5 DEF EtaArrive, IdleRequest, TypeOK
<1>6. ASSUME WriteRefused(r) \/ EtaClaim(r) \/ Commit(r) PROVE FALSE
  <2>1. req[r] \in Recompute \cup EtaChange
    BY <1>1, <1>6, ServedType DEF WriteRefused, EtaClaim, Commit
  <2> QED BY <1>1, <1>6, <2>1 DEF WriteRefused, EtaClaim, Commit, Advance, Reply, TypeOK,
             Recompute, EtaChange
<1> QED BY <1>1, <1>2, <1>3, <1>4, <1>5, <1>6, EtaCallStep DEF MovesTargets

\* The work of a handler: one that leaves a row behind has sent or has failed.
LEMMA HandlersKeepNoticed ==
  ASSUME OnceInv, OnceInv', Noticed, NEW j \in Jobs, Work(j) \/ DatabaseFails(j),
         drifted' = drifted
  PROVE  Noticed'
<1> USE DEF OnceInv
<1>1. NotificationTypeOK /\ OneOwner /\ NotificationTypeOK' /\ OneOwner'
  OBVIOUS
<1>2. Answered => Answered'
  BY <1>1 DEF Answered, Work, DatabaseFails, LookUp, Claim, Deliver, SmsThrows, Mark,
         MarkFailed, NotificationTypeOK, Types
<1>3. \A k \in Jobs : k # j => job'[k] = job[k]
  BY <1>1 DEF Work, DatabaseFails, LookUp, Claim, Deliver, SmsThrows, Mark, MarkFailed,
         MoveOn, Finish, NotificationTypeOK
<1>4. CASE job[j].type # Drift
  <2>1. job'[j].type # Drift \/ job'[j].pc = "idle"
    BY <1>1, <1>4 DEF Work, DatabaseFails, LookUp, Claim, Deliver, SmsThrows, Mark,
           MarkFailed, MoveOn, Finish, NotificationTypeOK, IdleJob, Job, Alert, Drift
  <2>2. log'[Drift] = log[Drift]
    BY <1>1, <1>4 DEF Work, DatabaseFails, LookUp, Claim, Deliver, SmsThrows, Mark,
           MarkFailed, NotificationTypeOK, Types, Sms, Drift
  <2>3. Alerting => Alerting'
    BY <1>3, <1>4 DEF Alerting, At
  <2>4. (\E k \in Jobs : Owns(k, Drift)) => (\E k \in Jobs : Owns(k, Drift))'
    BY <1>3, <1>4 DEF Owns
  <2> QED BY <1>2, <1>3, <2>1, <2>2, <2>3, <2>4 DEF Noticed, At
<1>5. CASE job[j].type = Drift /\ ~At(j, "fail")
  <2> HIDE DEF OnceInv
  <2>1. ASSUME LookUp(j) \/ Deliver(j) PROVE Noticed'
    <3>1. /\ log' = log /\ job'[j].type = Drift /\ job'[j].pc \in {"claim", "mark"}
          /\ Owns(j, Drift) => Owns(j, Drift)'
      BY <1>1, <1>5, <2>1 DEF LookUp, Deliver, MoveOn, NotificationTypeOK, Job, Owns, At
    <3>2. (\E k \in Jobs : Owns(k, Drift)) => (\E k \in Jobs : Owns(k, Drift))'
      BY <1>3, <3>1 DEF Owns
    <3> QED BY <1>2, <1>3, <3>1, <3>2 DEF Noticed, Alerting, At
  <2>2. ASSUME Claim(j) PROVE Noticed'
    <3>1. CASE log[Drift] = "none"
      <4>1. Owns(j, Drift)' /\ job'[j].pc = "send" /\ job'[j].type = Drift
        BY <1>1, <1>5, <2>2, <3>1 DEF Claim, MoveOn, NotificationTypeOK, Job, Owns
      <4> QED BY <1>2, <1>3, <4>1 DEF Noticed, Alerting, At, Owns
    <3>2. CASE log[Drift] # "none"
      <4>1. log' = log /\ job'[j].pc = "idle"
        BY <1>1, <1>5, <2>2, <3>2 DEF Claim, Finish, NotificationTypeOK, IdleJob, Sms, Drift
      <4>2. Answered \/ \E k \in Jobs : k # j /\ Owns(k, Drift)
        BY <2>2, <3>2 DEF Noticed, Claim, Owns, At
      <4>3. Answered' \/ \E k \in Jobs : Owns(k, Drift)'
        BY <1>2, <1>3, <4>2 DEF Owns
      <4> QED BY <1>2, <1>3, <4>1, <4>3 DEF Noticed, Alerting, At, Owns
    <3> QED BY <3>1, <3>2
  <2>3. ASSUME Mark(j) PROVE Noticed'
    <3>1. sends[Drift] = 1 /\ sends' = sends
      BY <1>1, <1>5, <2>3 DEF Mark, At, Owns, OneOwner, Types
    <3> QED BY <3>1 DEF Noticed, Answered
  <2>4. ASSUME DatabaseFails(j) PROVE Noticed'
    BY <2>4 DEF DatabaseFails, Noticed, Answered
  <2> QED BY <1>5, <2>1, <2>2, <2>3, <2>4 DEF Work, SmsThrows, MarkFailed, Sms, Drift
<1>6. CASE job[j].type = Drift /\ At(j, "fail")
  BY <1>2, <1>6 DEF Noticed
<1> QED BY <1>4, <1>5, <1>6

LEMMA NoticeInit == DriftInit => NoticeInv
<1> SUFFICES ASSUME DriftInit PROVE NoticeInv
  OBVIOUS
<1>1. AlarmInv /\ OnceInv
  BY AlarmInit, OnceInit DEF DriftInit
<1>2. Unread /\ OpenMoves
  BY DEF DriftInit, Init, Unread, OpenMoves, IdleRequest
<1>3. Noticed
  BY DEF DriftInit, NotificationInit, Noticed, At, IdleJob, Types
<1> QED BY <1>1, <1>2, <1>3 DEF NoticeInv

LEMMA NoticeStep == NoticeInv /\ [DriftNext]_driftVars => NoticeInv'
<1> SUFFICES ASSUME NoticeInv, [DriftNext]_driftVars PROVE NoticeInv'
  OBVIOUS
<1> USE DEF NoticeInv
<1>1. AlarmInv' /\ OnceInv'
  BY AlarmStep, DriftImplementsNotifications, OnceStep
<1>2. Unread' /\ OpenMoves'
  BY DriftImplementsTiming, UnreadStep, OpenMovesStep DEF AlarmInv
<1>3. ASSUME UNCHANGED notificationVars, drifted = "no" => drifted' = "no" PROVE Noticed'
  BY <1>3 DEF Noticed, Answered, Alerting, Owns, At, notificationVars
<1>4. ASSUME NEW r \in Requests, Announce(r) PROVE Noticed'
  <2>1. CASE CallsForAlert(r)
    <3>1. PICK j \in Jobs : HearDrift(j)
      BY <1>4, <2>1 DEF Announce
    <3>2. /\ UNCHANGED <<log, sends, faulted>> /\ job'[j] = [type |-> Drift, pc |-> "claim"]
          /\ \A k \in Jobs : k # j => job'[k] = job[k]
          /\ ~Owns(j, Drift)
      BY <3>1 DEF HearDrift, OnceInv, NotificationTypeOK, At, Owns
    <3>3. Alerting'
      BY <3>2 DEF Alerting, At
    <3>4. (\E k \in Jobs : Owns(k, Drift)) => (\E k \in Jobs : Owns(k, Drift))'
      BY <3>2 DEF Owns
    <3> QED BY <3>2, <3>3, <3>4 DEF Noticed, Answered, At
  <2>2. CASE ~CallsForAlert(r)
    <3>1. ~MovesTargets(r)
      BY <1>4, <2>2 DEF AlarmInv, ReadIsCurrent, Announce, WriteTargets, CallsForAlert,
             MovesTargets
    <3> QED BY <1>3, <1>4, <2>2, <3>1 DEF Announce
  <2> QED BY <2>1, <2>2
<1>5. ASSUME NEW r \in Requests, CommitDrift(r) PROVE Noticed'
  <2>1. MovesTargets(r) => drifted # "no"
    BY <1>5 DEF CommitDrift, Commit, OpenMoves
  <2> QED BY <1>3, <1>5, <2>1 DEF CommitDrift
<1>6. ASSUME Handle PROVE Noticed'
  BY <1>1, <1>6, HandlersKeepNoticed DEF Handle
<1>7. Noticed'
  BY <1>3, <1>4, <1>5, <1>6 DEF DriftNext, driftVars, Silent
<1> QED BY <1>1, <1>2, <1>7

\* An ETA change that moves the kitchen start in force by the threshold and is
\* committed has been brought to the restaurant's notice by the time every handler has
\* ended, unless a handler's transaction failed (onTimingRecomputed, claimThenSend).
THEOREM NoDriftIsMissed == DriftSpec => []DriftIsNoticed
<1>1. NoticeInv => DriftIsNoticed
  BY DEF NoticeInv, Noticed, Answered, Alerting, DriftIsNoticed
<1> QED BY <1>1, NoticeInit, NoticeStep, PTL DEF DriftSpec

=============================================================================
