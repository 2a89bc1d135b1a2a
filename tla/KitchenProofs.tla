--------------------------- MODULE KitchenProofs ----------------------------
(***************************************************************************)
(* Theorems about Kitchen for any number of concurrent requests, cooks and *)
(* order lines.                                                            *)
(***************************************************************************)
EXTENDS Kitchen, TLAPS

-----------------------------------------------------------------------------
(* Type correctness                                                         *)

\* The confirmed ticket and the idle server are well typed.
LEMMA TypeInit == Init => TypeOK
  BY DEF Init, TypeOK, KitchenStatus, Request, IdleRequest

\* A request being served has an author, and stays typed when it moves on or is
\* answered.
LEMMA ServedType ==
  ASSUME TypeOK, NEW r \in Requests, req[r].pc # "idle"
  PROVE  /\ req[r].by \in Staff
         /\ \A pc \in {"insert", "update", "commit", "done"} :
               [req EXCEPT ![r].pc = pc] \in [Requests -> Request]
         /\ \A answer \in Replies :
               [req EXCEPT ![r].pc = "done", ![r].reply = answer]
                   \in [Requests -> Request]
<1>1. req[r] \in [op    : {"ack", "accept", "food_out"},
                  pc    : {"insert", "update", "commit", "done"},
                  by    : Staff,
                  reply : Replies \cup {NONE}]
  BY DEF TypeOK, Request, IdleRequest
<1> QED BY <1>1 DEF TypeOK, Request

\* No statement of any request leaves the types.
LEMMA TypeContinue ==
  ASSUME TypeOK, NEW r \in Requests, Continue(r)
  PROVE  TypeOK'
<1>1. ASSUME \/ AckInsert(r) \/ AckConflict(r)
             \/ AcceptUpdate(r) \/ FoodOutUpdate(r)
      PROVE  TypeOK'
  <2>1. CASE AckInsert(r)
    BY <2>1, ServedType DEF AckInsert, At, Advance, TypeOK
  <2>2. CASE AckConflict(r)
    BY <2>2, ServedType DEF AckConflict, At, Reply, TypeOK, Replies, AckReplies
  <2>3. CASE AcceptUpdate(r)
    <3>1. Advance(r, "commit") \/ Reply(r, "already_accepted")
      BY <2>3 DEF AcceptUpdate
    <3>2. req' \in [Requests -> Request]
      <4>1. req[r].pc # "idle"
        BY <2>3 DEF AcceptUpdate, At
      <4>2. CASE Advance(r, "commit")
        BY <4>1, <4>2, ServedType DEF Advance
      <4>3. CASE Reply(r, "already_accepted")
        BY <4>1, <4>3, ServedType DEF Reply, Replies, AcceptReplies
      <4> QED BY <3>1, <4>2, <4>3
    <3> QED BY <2>3, <3>2 DEF AcceptUpdate, TypeOK
  <2>4. CASE FoodOutUpdate(r)
    <3>1. \/ Advance(r, "commit")
          \/ Reply(r, "already_served") \/ Reply(r, "not_in_progress")
      BY <2>4, Zenon DEF FoodOutUpdate
    <3>2. req' \in [Requests -> Request]
      <4>1. req[r].pc # "idle"
        BY <2>4 DEF FoodOutUpdate, At
      <4>2. CASE Advance(r, "commit")
        BY <4>1, <4>2, ServedType DEF Advance
      <4>3. CASE Reply(r, "already_served")
        BY <4>1, <4>3, ServedType DEF Reply, Replies, FoodReplies
      <4>4. CASE Reply(r, "not_in_progress")
        BY <4>1, <4>4, ServedType DEF Reply, Replies, FoodReplies
      <4> QED BY <3>1, <4>2, <4>3, <4>4
    <3> QED BY <2>4, <3>2 DEF FoodOutUpdate, TypeOK
  <2> QED BY <1>1, <2>1, <2>2, <2>3, <2>4
<1>2. ASSUME AckCommit(r) PROVE TypeOK'
  <2>1. req[r].by \in Staff /\ req' \in [Requests -> Request]
    BY <1>2, ServedType DEF AckCommit, At, Reply, Replies, AckReplies
  <2> QED BY <1>2, <2>1 DEF AckCommit, TypeOK
<1>3. ASSUME NEW s \in KitchenStatus, status' = s, trail' = Append(trail, s),
             NEW answer \in Replies, Reply(r, answer), req[r].pc = "commit",
             UNCHANGED <<order, ack>>
      PROVE  TypeOK'
  <2>1. trail' \in Seq(KitchenStatus)
    BY <1>3 DEF TypeOK
  <2>2. req' \in [Requests -> Request]
    BY <1>3, ServedType DEF Reply
  <2> QED BY <1>3, <2>1, <2>2 DEF TypeOK
<1>4. ASSUME AcceptCommit(r) \/ FoodOutCommit(r) PROVE TypeOK'
  BY <1>3, <1>4 DEF AcceptCommit, FoodOutCommit, At, KitchenStatus, Replies,
                    AcceptReplies, FoodReplies
<1> QED BY <1>1, <1>2, <1>4 DEF Continue

\* No step leaves the types.
LEMMA TypeStep == TypeOK /\ [Next]_vars => TypeOK'
<1> SUFFICES ASSUME TypeOK, [Next]_vars PROVE TypeOK'
  OBVIOUS
<1>1. ASSUME NEW r \in Requests, Begin(r) PROVE TypeOK'
  <2>1. PICK s \in Staff : AckRead(r, s) \/ AcceptArrive(r, s) \/ FoodOutGate(r, s)
    BY <1>1 DEF Begin
  <2>2. req' \in [Requests -> Request]
    BY <2>1 DEF AckRead, AcceptArrive, FoodOutGate, Arrive, TypeOK, Request,
                Replies, AckReplies, FoodReplies
  <2> QED BY <2>1, <2>2 DEF AckRead, AcceptArrive, FoodOutGate, TypeOK
<1>2. ASSUME NEW r \in Requests, EndRequest(r) PROVE TypeOK'
  BY <1>2 DEF EndRequest, IdleRequest, TypeOK, Request
<1>3. ASSUME NEW l \in Lines, NEW line \in Line, EditOrder(l, line) PROVE TypeOK'
  BY <1>3 DEF EditOrder, TypeOK
<1>4. CASE UNCHANGED vars
  BY <1>4 DEF vars, TypeOK
<1> QED BY <1>1, <1>2, <1>3, <1>4, TypeContinue DEF Next

\* Every reachable state of a ticket is well typed.
THEOREM TypeCorrect == Spec => []TypeOK
  BY TypeInit, TypeStep, PTL DEF Spec

-----------------------------------------------------------------------------
(* The allergy gate                                                         *)

\* Only an order edited behind the kitchen's back closes a gate again.
LEMMA GateStaysOpen ==
  ASSUME OrderIsFinal, TypeOK, [Next]_vars, GateOpen
  PROVE  GateOpen'
<1>1. order' = order /\ (ack # NONE => ack' # NONE)
  <2>1. CASE UNCHANGED vars
    BY <2>1 DEF vars
  <2>2. ASSUME NEW r \in Requests, Begin(r) \/ EndRequest(r)
        PROVE  order' = order /\ ack' = ack
    BY <2>2 DEF Begin, EndRequest, AckRead, AcceptArrive, FoodOutGate
  <2>3. ASSUME NEW r \in Requests, Continue(r), ~AckCommit(r)
        PROVE  order' = order /\ ack' = ack
    BY <2>3 DEF Continue, AckInsert, AckConflict, AcceptUpdate, AcceptCommit,
                FoodOutUpdate, FoodOutCommit
  <2>4. ASSUME NEW r \in Requests, AckCommit(r)
        PROVE  order' = order /\ (ack # NONE => ack' # NONE)
    <3>1. req[r].by \in Staff
      BY <2>4, ServedType DEF AckCommit, At
    <3> QED BY <2>4, <3>1, KitchenAssumption DEF AckCommit
  <2> QED BY <2>1, <2>2, <2>3, <2>4 DEF Next, EditOrder
<1> QED BY <1>1 DEF GateOpen, Flagged

\* GateInv is inductive when the order is final.
LEMMA GateStep == OrderIsFinal /\ GateInv /\ [Next]_vars => GateInv'
<1> SUFFICES ASSUME OrderIsFinal, GateInv, [Next]_vars PROVE GateInv'
  OBVIOUS
<1>1. TypeOK /\ TypeOK' /\ GatePassed /\ AllergyGate
  BY TypeStep DEF GateInv
<1>2. GateOpen => GateOpen'
  BY <1>1, GateStaysOpen
<1>3. ASSUME NEW r \in Requests, At(r, "food_out", "update")' \/ At(r, "food_out", "commit")'
      PROVE  GateOpen'
  <2>1. At(r, "food_out", "update") \/ At(r, "food_out", "commit") \/ GateOpen
    <3>1. ASSUME NEW q \in Requests, NEW s \in Staff, FoodOutGate(q, s), q # r
          PROVE  req'[r] = req[r]
      BY <1>1, <3>1 DEF FoodOutGate, Arrive, TypeOK
    <3>2. ASSUME NEW s \in Staff, FoodOutGate(r, s) PROVE GateOpen
      BY <1>1, <1>3, <3>2 DEF FoodOutGate, Arrive, At, TypeOK
    <3>3. ASSUME NEW q \in Requests, NEW s \in Staff, AckRead(q, s) \/ AcceptArrive(q, s)
          PROVE  req'[r] = req[r]
      BY <1>1, <1>3, <3>3 DEF AckRead, AcceptArrive, Arrive, At, TypeOK
    <3>4. ASSUME NEW q \in Requests, Continue(q) \/ EndRequest(q)
          PROVE  At(r, "food_out", "update") \/ At(r, "food_out", "commit")
      <4>1. CASE EndRequest(q)
        BY <1>1, <1>3, <4>1 DEF EndRequest, At, IdleRequest, TypeOK
      <4>2. CASE Continue(q)
        <5>1. \/ \E pc : req' = [req EXCEPT ![q].pc = pc]
              \/ \E answer : req' = [req EXCEPT ![q].pc = "done", ![q].reply = answer]
          BY <4>2 DEF Continue, AckInsert, AckConflict, AckCommit, AcceptUpdate,
                      AcceptCommit, FoodOutUpdate, FoodOutCommit, Advance, Reply
        <5>2. req[q].pc = "update" \/ req[q].pc = "commit" \/ req[q].op = "ack"
          BY <4>2 DEF Continue, AckInsert, AckConflict, AckCommit, AcceptUpdate,
                      AcceptCommit, FoodOutUpdate, FoodOutCommit, At
        <5>3. req'[r].op = req[r].op /\ (r # q => req'[r] = req[r])
          BY <1>1, <5>1, <5>2 DEF TypeOK, Request, IdleRequest
        <5> QED BY <1>3, <5>2, <5>3 DEF At
      <4> QED BY <3>4, <4>1, <4>2
    <3>5. ASSUME NEW l \in Lines, NEW line \in Line, EditOrder(l, line)
          PROVE  req'[r] = req[r]
      BY <3>5 DEF EditOrder
    <3> QED BY <1>1, <1>3, <3>1, <3>2, <3>3, <3>4, <3>5 DEF Next, Begin, At, vars
  <2> QED BY <1>1, <1>2, <2>1 DEF GatePassed
<1>4. ASSUME status' = "food_out" PROVE GateOpen'
  <2>1. CASE status = "food_out"
    BY <1>1, <1>2, <2>1 DEF AllergyGate, GateOpen
  <2>2. CASE status # "food_out"
    <3>1. PICK r \in Requests : FoodOutCommit(r)
      BY <1>4, <2>2
      DEF Next, Begin, Continue, EndRequest, EditOrder, AckRead, AcceptArrive,
          FoodOutGate, AckInsert, AckConflict, AckCommit, AcceptUpdate,
          AcceptCommit, FoodOutUpdate, vars
    <3> QED BY <1>1, <1>2, <3>1 DEF FoodOutCommit, GatePassed
  <2> QED BY <2>1, <2>2
<1> QED BY <1>1, <1>3, <1>4 DEF GateInv, GatePassed, AllergyGate, GateOpen

\* A ticket past the gate still satisfies it when its status is written.
THEOREM GateInvariant ==
  ASSUME OrderIsFinal
  PROVE  Spec => []GateInv
<1>1. Init => GateInv
  BY TypeInit DEF Init, GateInv, GatePassed, AllergyGate, At, IdleRequest
<1>2. GateInv /\ [Next]_vars => GateInv'
  BY GateStep
<1> QED BY <1>1, <1>2, PTL DEF Spec

\* When no turn edits the order of a confirmed visit, food with an allergy flag
\* goes out only after an acknowledgment, although the gate is read in one
\* statement and the status written in another.
THEOREM FlaggedFoodIsAcknowledged ==
  ASSUME OrderIsFinal
  PROVE  Spec => []AllergyGate
<1>1. GateInv => AllergyGate
  BY DEF GateInv
<1> QED BY <1>1, GateInvariant, PTL

-----------------------------------------------------------------------------
(* The trail and the answers                                                *)

\* A step that commits nothing and takes no lock only has its own answer to get right.
LEMMA QuietTicket ==
  ASSUME TicketInv, TypeOK', NEW r \in Requests, UNCHANGED <<status, ack, trail>>,
         \A q \in Requests : q # r => req'[q] = req[q],
         req'[r].pc # "commit", ReplyIsTrue(r)'
  PROVE  TicketInv'
<1>1. LocksHold'
  BY DEF TicketInv, LocksHold, At
<1>2. RepliesAreTrue'
  BY DEF TicketInv, RepliesAreTrue, ReplyIsTrue
<1>3. TrailExact'
  BY DEF TicketInv, TrailExact
<1> QED BY <1>1, <1>2, <1>3 DEF TicketInv

\* A request that goes on to its commit has found nobody there.
LEMMA LockTicket ==
  ASSUME TicketInv, TypeOK', NEW r \in Requests, UNCHANGED <<status, ack, trail>>,
         Advance(r, "commit"),
         \/ req[r].op = "ack" /\ ~AckLocked /\ ack = NONE
         \/ req[r].op = "accept" /\ ~VisitLocked /\ status = "confirmed"
         \/ req[r].op = "food_out" /\ ~VisitLocked /\ status = "kitchen_started"
  PROVE  TicketInv'
<1>1. /\ \A q \in Requests : q # r => req'[q] = req[q]
      /\ req'[r].op = req[r].op /\ req'[r].reply = req[r].reply /\ req'[r].by = req[r].by
  <2>1. req[r] \in Request /\ req' = [req EXCEPT ![r] = [req[r] EXCEPT !.pc = "commit"]]
    BY DEF Advance, TicketInv, TypeOK
  <2> QED BY <2>1 DEF TicketInv, TypeOK, Request, IdleRequest
<1>2. LocksHold'
  <2>1. CASE req[r].op = "ack"
    BY <1>1, <2>1 DEF TicketInv, LocksHold, At, AckLocked
  <2>2. CASE req[r].op # "ack"
    BY <1>1, <2>2 DEF TicketInv, LocksHold, At, VisitLocked
  <2> QED BY <2>1, <2>2
<1>3. RepliesAreTrue'
  BY <1>1 DEF TicketInv, RepliesAreTrue, ReplyIsTrue
<1>4. TrailExact'
  BY DEF TicketInv, TrailExact
<1> QED BY <1>2, <1>3, <1>4 DEF TicketInv

\* What Reply leaves behind.
LEMMA Answered ==
  ASSUME TypeOK, NEW r \in Requests, NEW answer \in Replies, Reply(r, answer)
  PROVE  /\ \A q \in Requests : q # r => req'[q] = req[q]
         /\ req'[r].pc = "done" /\ req'[r].reply = answer /\ req'[r].by = req[r].by
<1>1. req[r] \in Request
  BY DEF TypeOK
<1>2. req' = [req EXCEPT ![r] = [req[r] EXCEPT !.pc = "done", !.reply = answer]]
  BY DEF Reply
<1> QED BY <1>1, <1>2 DEF TypeOK, Request, IdleRequest

LEMMA TicketStep == TicketInv /\ [Next]_vars => TicketInv'
<1> SUFFICES ASSUME TicketInv, [Next]_vars PROVE TicketInv'
  OBVIOUS
<1>1. TypeOK /\ TypeOK'
  BY TypeStep DEF TicketInv
<1>2. ASSUME NEW r \in Requests, Begin(r) PROVE TicketInv'
  <2>1. PICK s \in Staff : AckRead(r, s) \/ AcceptArrive(r, s) \/ FoodOutGate(r, s)
    BY <1>2 DEF Begin
  <2>2. /\ UNCHANGED <<status, ack, trail>> /\ req'[r].pc # "commit"
        /\ \A q \in Requests : q # r => req'[q] = req[q]
    BY <1>1, <2>1 DEF AckRead, AcceptArrive, FoodOutGate, Arrive, TypeOK
  <2>3. /\ req'[r].reply \in {NONE, "already_acknowledged", "allergy_not_acknowledged"}
        /\ req'[r].reply = "already_acknowledged" => ack # NONE
    BY <1>1, <2>1, NoneIsNoReply
    DEF AckRead, AcceptArrive, FoodOutGate, Arrive, TypeOK, Replies, AckReplies
  <2>4. ReplyIsTrue(r)'
    BY <2>2, <2>3, NoneIsNoReply
    DEF ReplyIsTrue, Replies, AckReplies, AcceptReplies, FoodReplies
  <2> QED BY <1>1, <2>2, <2>4, QuietTicket
<1>3. ASSUME NEW r \in Requests, EndRequest(r) PROVE TicketInv'
  <2>1. /\ UNCHANGED <<status, ack, trail>> /\ req'[r] = IdleRequest
        /\ \A q \in Requests : q # r => req'[q] = req[q]
    BY <1>1, <1>3 DEF EndRequest, TypeOK
  <2>2. req'[r].pc # "commit" /\ ReplyIsTrue(r)'
    BY <2>1, NoneIsNoReply
    DEF IdleRequest, ReplyIsTrue, Replies, AckReplies, AcceptReplies, FoodReplies
  <2> QED BY <1>1, <2>1, <2>2, QuietTicket
<1>4. ASSUME NEW r \in Requests, AckInsert(r) PROVE TicketInv'
  BY <1>1, <1>4, LockTicket DEF AckInsert, At
<1>5. ASSUME NEW r \in Requests, AckConflict(r) PROVE TicketInv'
  BY <1>1, <1>5, Answered, QuietTicket DEF AckConflict, Replies, AckReplies, ReplyIsTrue
<1>6. ASSUME NEW r \in Requests, AckCommit(r) PROVE TicketInv'
  <2>1. /\ ack = NONE /\ ack' = req[r].by /\ req[r].by \in Staff
        /\ UNCHANGED <<status, trail>> /\ At(r, "ack", "commit")
    BY <1>6, ServedType DEF AckCommit, At, TicketInv, LocksHold
  <2>2. /\ \A q \in Requests : q # r => req'[q] = req[q] /\ ~At(q, "ack", "commit")
        /\ req'[r].pc = "done" /\ req'[r].reply = "acknowledged" /\ req'[r].by = req[r].by
    BY <1>1, <1>6, Answered DEF AckCommit, Replies, AckReplies, TicketInv, LocksHold
  <2>3. LocksHold'
    BY <2>1, <2>2 DEF TicketInv, LocksHold, At
  <2>4. ASSUME NEW q \in Requests PROVE ReplyIsTrue(q)'
    <3>1. CASE q = r
      BY <2>1, <2>2, <3>1 DEF ReplyIsTrue
    <3>2. CASE q # r
      <4>1. ReplyIsTrue(q) /\ req'[q] = req[q]
        BY <2>2, <3>2 DEF TicketInv, RepliesAreTrue
      <4>2. req[q].reply = "acknowledged" => req[q].by \in Staff
        BY <1>1, NoneIsNoReply DEF TypeOK, Request, IdleRequest, Replies, AckReplies
      <4> QED BY <2>1, <4>1, <4>2, KitchenAssumption DEF ReplyIsTrue
    <3> QED BY <3>1, <3>2
  <2>5. TrailExact'
    BY <2>1 DEF TicketInv, TrailExact
  <2> QED BY <1>1, <2>3, <2>4, <2>5 DEF TicketInv, RepliesAreTrue
<1>7. ASSUME NEW r \in Requests, AcceptUpdate(r) PROVE TicketInv'
  <2>1. CASE Acceptable
    BY <1>1, <1>7, <2>1, LockTicket DEF AcceptUpdate, At, Acceptable
  <2>2. CASE ~Acceptable
    BY <1>1, <1>7, <2>2, Answered, QuietTicket
    DEF AcceptUpdate, Acceptable, Replies, AcceptReplies, ReplyIsTrue
  <2> QED BY <2>1, <2>2
<1>8. ASSUME NEW r \in Requests, FoodOutUpdate(r) PROVE TicketInv'
  <2>1. CASE Servable
    BY <1>1, <1>8, <2>1, LockTicket DEF FoodOutUpdate, At, Servable
  <2>2. CASE ~Servable
    <3>1. PICK answer \in FoodReplies :
            /\ Reply(r, answer) /\ answer \in {"already_served", "not_in_progress"}
            /\ answer = "already_served" => status = "food_out"
      BY <1>8, <2>2 DEF FoodOutUpdate, FoodReplies
    <3>2. UNCHANGED <<status, ack, trail>>
      BY <1>8 DEF FoodOutUpdate
    <3>3. /\ \A q \in Requests : q # r => req'[q] = req[q]
          /\ req'[r].pc = "done" /\ req'[r].reply = answer
      BY <1>1, <3>1, Answered DEF Replies
    <3>4. ReplyIsTrue(r)'
      BY <3>1, <3>2, <3>3 DEF ReplyIsTrue
    <3> QED BY <1>1, <3>2, <3>3, <3>4, QuietTicket
  <2> QED BY <2>1, <2>2
<1>9. ASSUME NEW r \in Requests, AcceptCommit(r) \/ FoodOutCommit(r) PROVE TicketInv'
  <2>1. PICK answer \in Replies :
          /\ Reply(r, answer)
          /\ \/ answer = "accepted" /\ status' = "kitchen_started"
             \/ answer = "served" /\ status' = "food_out"
    BY <1>9 DEF AcceptCommit, FoodOutCommit, Replies, AcceptReplies, FoodReplies
  <2>2. /\ \A q \in Requests : q # r => /\ req'[q] = req[q]
                                     /\ ~At(q, "accept", "commit") /\ ~At(q, "food_out", "commit")
        /\ req'[r].pc = "done" /\ req'[r].reply = answer
    BY <1>1, <1>9, <2>1, Answered DEF AcceptCommit, FoodOutCommit, TicketInv, LocksHold
  <2>3. /\ ack' = ack
        /\ \/ status = "confirmed" /\ status' = "kitchen_started"
              /\ trail' = Append(trail, "kitchen_started")
           \/ status = "kitchen_started" /\ status' = "food_out"
              /\ trail' = Append(trail, "food_out")
    BY <1>9 DEF AcceptCommit, FoodOutCommit, TicketInv, LocksHold
  <2>4. LocksHold'
    BY <2>2, <2>3 DEF TicketInv, LocksHold, At
  <2>5. ASSUME NEW q \in Requests PROVE ReplyIsTrue(q)'
    BY <2>1, <2>2, <2>3 DEF TicketInv, RepliesAreTrue, ReplyIsTrue
  <2>6. TrailExact'
    BY <2>3 DEF TicketInv, TrailExact
  <2> QED BY <1>1, <2>4, <2>5, <2>6 DEF TicketInv, RepliesAreTrue
<1>10. ASSUME NEW l \in Lines, NEW line \in Line, EditOrder(l, line) PROVE TicketInv'
  BY <1>1, <1>10
  DEF EditOrder, TicketInv, LocksHold, At, TrailExact, RepliesAreTrue, ReplyIsTrue
<1>11. CASE UNCHANGED vars
  BY <1>1, <1>11
  DEF vars, TicketInv, LocksHold, At, TrailExact, RepliesAreTrue, ReplyIsTrue
<1> QED BY <1>2, <1>3, <1>4, <1>5, <1>6, <1>7, <1>8, <1>9, <1>10, <1>11 DEF Next, Continue

\* TicketInv is an invariant, whoever edits the order.
THEOREM TicketInvariant == Spec => []TicketInv
<1>1. Init => TicketInv
  BY TypeInit, NoneIsNoReply
  DEF Init, TicketInv, LocksHold, At, IdleRequest, TrailExact, RepliesAreTrue, ReplyIsTrue,
      Replies, AckReplies, AcceptReplies, FoodReplies
<1> QED BY <1>1, TicketStep, PTL DEF Spec

\* One status event per transition, in order, whoever taps how often.
THEOREM TrailIsExact == Spec => []TrailExact
<1>1. TicketInv => TrailExact
  BY DEF TicketInv
<1> QED BY <1>1, TicketInvariant, PTL

\* No cook is told of a step that has not been taken or was taken by somebody else.
THEOREM AnswersAreTrue == Spec => []RepliesAreTrue
<1>1. TicketInv => RepliesAreTrue
  BY DEF TicketInv
<1> QED BY <1>1, TicketInvariant, PTL

-----------------------------------------------------------------------------
(* Refinement                                                               *)

\* Of all statements only the three commits are seen from outside.
LEMMA PassStep ==
  ASSUME OrderIsFinal, TicketInv, GateInv, [Next]_vars
  PROVE  [Pass!Next]_(Pass!passVars)
<1>1. ASSUME UNCHANGED <<status, order, ack>> PROVE UNCHANGED Pass!passVars
  <2>1. Flagged' = Flagged /\ (ack # NONE)' = (ack # NONE)
    BY <1>1 DEF Flagged
  <2> QED BY <1>1, <2>1 DEF Pass!passVars
<1>2. ASSUME NEW r \in Requests, AckCommit(r) PROVE Pass!See
  <2>1. ack = NONE /\ ack' # NONE /\ status' = status /\ order' = order
    BY <1>2, ServedType, KitchenAssumption DEF AckCommit, At, TicketInv, LocksHold
  <2>2. Flagged' = Flagged /\ ~(ack # NONE) /\ (ack # NONE)'
    BY <2>1 DEF Flagged
  <2>3. (ack # NONE)' = TRUE
    BY <2>2
  <2> QED BY <2>1, <2>2, <2>3 DEF Pass!See
<1>3. ASSUME NEW r \in Requests, AcceptCommit(r) PROVE Pass!Accept
  <2>1. status = "confirmed" /\ status' = "kitchen_started" /\ UNCHANGED <<order, ack>>
    BY <1>3 DEF AcceptCommit, TicketInv, LocksHold
  <2>2. Flagged' = Flagged /\ (ack # NONE)' = (ack # NONE)
    BY <2>1 DEF Flagged
  <2> QED BY <2>1, <2>2 DEF Pass!Accept
<1>4. ASSUME NEW r \in Requests, FoodOutCommit(r) PROVE Pass!Serve
  <2>1. status = "kitchen_started" /\ status' = "food_out" /\ UNCHANGED <<order, ack>>
    BY <1>4 DEF FoodOutCommit, TicketInv, LocksHold
  <2>2. Flagged => ack # NONE
    BY <1>4 DEF FoodOutCommit, GateInv, GatePassed, GateOpen
  <2>3. Flagged' = Flagged /\ (ack # NONE)' = (ack # NONE)
    BY <2>1 DEF Flagged
  <2> QED BY <2>1, <2>2, <2>3 DEF Pass!Serve
<1>5. ASSUME NEW r \in Requests, \/ Begin(r) \/ EndRequest(r) \/ AckInsert(r)
                                \/ AckConflict(r) \/ AcceptUpdate(r) \/ FoodOutUpdate(r)
      PROVE  UNCHANGED <<status, order, ack>>
  BY <1>5 DEF Begin, AckRead, AcceptArrive, FoodOutGate, EndRequest, AckInsert,
              AckConflict, AcceptUpdate, FoodOutUpdate
<1> QED BY <1>1, <1>2, <1>3, <1>4, <1>5 DEF Next, Continue, EditOrder, vars, Pass!Next

\* The ticket with its requests, transactions and locks does what PassGate promises,
\* when no turn edits the order of a confirmed visit.
THEOREM PassIsKept ==
  ASSUME OrderIsFinal
  PROVE  Spec => PassSpec
<1>1. Init => Pass!Init
  <2> SUFFICES ASSUME Init PROVE Pass!Init
    OBVIOUS
  <2>1. status = "confirmed" /\ ack = NONE
    BY DEF Init
  <2>2. Flagged \in BOOLEAN /\ (ack # NONE) = FALSE
    BY <2>1 DEF Flagged
  <2> QED BY <2>1, <2>2 DEF Pass!Init
<1>2. TicketInv /\ GateInv /\ [Next]_vars => [Pass!Next]_(Pass!passVars)
  BY PassStep
<1> QED BY <1>1, <1>2, TicketInvariant, GateInvariant, PTL DEF Spec, PassSpec, Pass!Spec

=============================================================================
