---------------------------- MODULE IntakeProofs ----------------------------
(***************************************************************************)
(* A draft is filled in by requests that may overlap, for any number of    *)
(* requests, dishes, tables and allergens and any length of the windows.   *)
(* RequestInv is inductive by itself: what each request has written to the *)
(* transcript, and what it may bring into the draft.  On it rest four      *)
(* invariants of requests that do not overlap: Alone, LapseInv (a draft    *)
(* whose expiry the guest has not heard of is expired, or a recap is on    *)
(* its way), GraceInv (the token outlives the window), ToldInv (what the   *)
(* guest was told is flagged).                                             *)
(***************************************************************************)
EXTENDS Intake, TLAPS, SequenceTheorems

Calls ==
    [op : {"add", "create", "details"}, on : Dishes, flags : {{}}]
      \cup [op : {"list"}, on : SUBSET Dishes, flags : {{}}]
      \cup [op : {"tables", "propose", "hold"}, on : Tables, flags : {{}}]
      \cup [op : {"remove"}, on : LineIds, flags : {{}}]
      \cup [op : {"flag"}, on : LineIds, flags : SUBSET Allergens]
      \cup [op : {"party"}, on : {NONE}, flags : {{}}]

Stages == {"idle", "read", "heard", "engine", "respond", "written", "current", "sent"}

Turn == [stage : Stages, n : 0 .. MaxRequests, expires : 0 .. MaxClock + Window,
         rows : Seq({"customer", "system"}), message : {NONE, "misheard", "recap", "unavailable"},
         calls : SUBSET Calls, after : SUBSET Calls, left : 0 .. MaxCalls,
         token : 0 .. MaxClock + TokenTTL, silent : BOOLEAN,
         onMenu : SUBSET Dishes, onFree : SUBSET Tables, claims : SUBSET (LineIds \X Allergens)]

Lines == UNION {[D -> SUBSET Allergens] : D \in SUBSET LineIds}

Draft == [lines : Lines, table : Tables \cup {NONE}, party : BOOLEAN,
          expires : 0 .. MaxClock + Window]

Typed ==
    /\ engine \in {"dev", "claude"} /\ menu \in SUBSET Dishes /\ free \in SUBSET Tables
    /\ draft \in Draft /\ turn \in [Turns -> Turn]
    /\ token \in 0 .. MaxClock + TokenTTL /\ now \in 0 .. MaxClock
    /\ requests \in 0 .. MaxRequests
    /\ lapsed \in BOOLEAN /\ missed \in BOOLEAN /\ overlapped \in BOOLEAN /\ lost \in BOOLEAN
    /\ told \in SUBSET (LineIds \X Allergens)

-----------------------------------------------------------------------------
(* Operators of the model                                                   *)

LEMMA LinesTyped ==
    ASSUME NEW lines, lines \in Lines
    PROVE  /\ DOMAIN lines \subseteq LineIds
           /\ \A l \in DOMAIN lines : lines[l] \in SUBSET Allergens
BY DEF Lines

LEMMA LinesAre ==
    ASSUME NEW D \in SUBSET LineIds, NEW f \in [D -> SUBSET Allergens]
    PROVE  f \in Lines
BY DEF Lines

LEMMA OrderedLines ==
    ASSUME NEW lines \in Lines, NEW new \in LineIds
    PROVE  /\ Ordered(lines, new) \in Lines
           /\ DOMAIN Ordered(lines, new) = DOMAIN lines \cup {new}
           /\ \A l \in DOMAIN lines \ {new} : Ordered(lines, new)[l] = lines[l]
<1>1. Ordered(lines, new) \in [DOMAIN lines \cup {new} -> SUBSET Allergens]
  BY LinesTyped DEF Ordered
<1>2. DOMAIN lines \cup {new} \in SUBSET LineIds
  BY LinesTyped
<1> QED
  BY <1>1, <1>2, LinesAre DEF Ordered

LEMMA RemovedLines ==
    ASSUME NEW lines \in Lines, NEW gone
    PROVE  [l \in DOMAIN lines \ {gone} |-> lines[l]] \in Lines
<1>1. [l \in DOMAIN lines \ {gone} |-> lines[l]] \in [DOMAIN lines \ {gone} -> SUBSET Allergens]
  BY LinesTyped
<1>2. DOMAIN lines \ {gone} \in SUBSET LineIds
  BY LinesTyped
<1> QED
  BY <1>1, <1>2, LinesAre

LEMMA FlaggedLines ==
    ASSUME NEW lines \in Lines, NEW l \in DOMAIN lines, NEW flags \in SUBSET Allergens
    PROVE  [lines EXCEPT ![l] = flags] \in Lines
<1>1. [lines EXCEPT ![l] = flags] \in [DOMAIN lines -> SUBSET Allergens]
  <2>1. lines = [m \in DOMAIN lines |-> lines[m]]
    BY DEF Lines
  <2>2. lines \in [DOMAIN lines -> SUBSET Allergens]
    BY <2>1, LinesTyped
  <2> QED
    BY <2>2
<1> QED
  BY <1>1, LinesTyped, LinesAre

\* A request takes a slot in which nothing is in progress.
LEMMA NextSlotIsIdle ==
    ASSUME NEW t, t \in NextSlot
    PROVE  t \in Turns \ Busy
<1>1. Busy \subseteq Turns /\ Busy # Turns
  BY DEF NextSlot, Busy
<1>2. \E s \in Turns \ Busy : TRUE
  BY <1>1
<1> QED
  BY <1>1, <1>2 DEF NextSlot

\* Call c is over: what is left of the request's calls, then those that come after.
CallsAfter(r, c, more) ==
    IF (r.calls \ {c}) \cup more = {} THEN r.after ELSE (r.calls \ {c}) \cup more

\* Request q is r, later: what never changes, its part in the conversation, its tools.
Same(q, r) == q.n = r.n /\ q.expires = r.expires /\ q.onMenu = r.onMenu /\ q.onFree = r.onFree

SameTalk(q, r) == q.rows = r.rows /\ q.message = r.message /\ (q.silent <=> r.silent)

SameTools(q, r) == q.calls = r.calls /\ q.after = r.after /\ q.claims = r.claims

Continues(q, r) ==
    q.stage = r.stage /\ Same(q, r) /\ SameTalk(q, r) /\ q.claims = r.claims /\ q.left = r.left

LEMMA DoneFields ==
    ASSUME Typed, NEW t \in Turns, NEW c, NEW more \in SUBSET Calls, Done(t, c, more)
    PROVE  \E q \in Turn :
              /\ turn' = [turn EXCEPT ![t] = q] /\ Continues(q, turn[t])
              /\ q.calls = CallsAfter(turn[t], c, more) /\ q.after \in {turn[t].after, {}}
<1> DEFINE r == turn[t]
           calls == (r.calls \ {c}) \cup more
           after == IF calls = {} THEN {} ELSE r.after
           q == [r EXCEPT !.calls = CallsAfter(r, c, more), !.after = after]
<1>1. r \in Turn
  BY DEF Typed
<1>2. turn' = [turn EXCEPT ![t] = q]
  BY DEF Done, Set, Due, CallsAfter
<1>3. CallsAfter(r, c, more) \in SUBSET Calls /\ after \in SUBSET Calls
  BY <1>1 DEF CallsAfter, Turn
<1> HIDE DEF r, after
<1>4. q \in Turn
  BY <1>1, <1>3 DEF Turn
<1>5. Continues(q, r) /\ q.calls = CallsAfter(r, c, more) /\ q.after = after
  BY <1>1, <1>3 DEF Turn, Continues, Same, SameTalk
<1>6. after \in {r.after, {}}
  BY DEF after
<1> QED
  BY <1>2, <1>4, <1>5, <1>6 DEF r

\* What the execution of call c by request r gives rise to, and does to the draft.
ToolDoes(r, c, more) ==
    /\ r.stage = "engine" /\ c \in r.calls
    /\ \A m \in more : /\ m.op \in {"add", "create", "propose", "hold"}
                       /\ m.op = "create" => m.on \in menu
                       /\ m.op = "hold" => m.on \in free
    /\ draft' \in Draft /\ draft'.expires = draft.expires
    /\ c.op = "create" => draft'.lines = Ordered(draft.lines, <<r.n, c.on>>)
    /\ c.op = "remove" => draft'.lines = [l \in DOMAIN draft.lines \ {c.on} |-> draft.lines[l]]
    /\ c.op = "flag" => draft'.lines = IF c.on \in DOMAIN draft.lines
                                         THEN [draft.lines EXCEPT ![c.on] = c.flags]
                                         ELSE draft.lines
    /\ c.op \notin {"create", "remove", "flag"} => draft'.lines = draft.lines
    /\ draft'.table # draft.table => c.op = "hold" /\ draft'.table = c.on
    /\ Tools

LEMMA ToolSteps ==
    ASSUME Typed, NEW t \in Turns, ExecuteTool(t)
    PROVE  \E c \in Calls : \E more \in SUBSET Calls : Done(t, c, more) /\ ToolDoes(turn[t], c, more)
<1> DEFINE r == turn[t]
<1>1. r \in Turn /\ draft \in Draft /\ r.n \in 0 .. MaxRequests
  BY DEF Typed, Turn
<1>2. ASSUME NEW c \in Executable(t) PROVE r.stage = "engine" /\ c \in r.calls /\ c \in Calls
  BY <1>1, <1>2 DEF Executable, Turn
<1>3. CASE ListAvailableMenuItems(t)
  <2>1. PICK c \in Executable(t) : c.op = "list" /\ Done(t, c, {Call("add", d) : d \in c.on \cap menu})
    BY <1>3 DEF ListAvailableMenuItems
  <2> DEFINE more == {Call("add", d) : d \in c.on \cap menu}
  <2>2. more \in SUBSET Calls /\ \A m \in more : m.op = "add"
    BY DEF Typed, Call, Calls
  <2>3. UNCHANGED draft /\ Tools /\ Done(t, c, more)
    BY <1>3, <2>1 DEF ListAvailableMenuItems
  <2> HIDE DEF more
  <2>4. ToolDoes(r, c, more)
    BY <1>1, <1>2, <2>1, <2>2, <2>3 DEF ToolDoes
  <2> QED
    BY <1>2, <2>2, <2>3, <2>4
<1>4. CASE GetMenuItemDetails(t)
  <2>1. PICK c \in Executable(t) : c.op = "details" /\ Done(t, c, {})
    BY <1>4 DEF GetMenuItemDetails
  <2>2. ToolDoes(r, c, {})
    BY <1>1, <1>2, <1>4, <2>1 DEF GetMenuItemDetails, ToolDoes
  <2> QED
    BY <1>2, <2>1, <2>2
<1>5. CASE AddOrderItem(t)
  <2>1. PICK c \in Executable(t) :
          c.op = "add" /\ Done(t, c, IF IsAvailable(c.on) THEN {Call("create", c.on)} ELSE {})
    BY <1>5 DEF AddOrderItem
  <2> DEFINE more == IF IsAvailable(c.on) THEN {Call("create", c.on)} ELSE {}
  <2>2. more \in SUBSET Calls
    BY DEF Typed, Call, Calls, IsAvailable
  <2>3. \A m \in more : m.op = "create" /\ m.on \in menu
    BY DEF Call, IsAvailable
  <2>4. UNCHANGED draft /\ Tools /\ Done(t, c, more)
    BY <1>5, <2>1 DEF AddOrderItem
  <2> HIDE DEF more
  <2>5. ToolDoes(r, c, more)
    BY <1>1, <1>2, <2>1, <2>3, <2>4 DEF ToolDoes
  <2> QED
    BY <1>2, <2>2, <2>4, <2>5
<1>6. CASE CreateLine(t)
  <2>1. PICK c \in Executable(t) :
          /\ c.op = "create" /\ Done(t, c, {})
          /\ draft' = [draft EXCEPT !.lines = Ordered(@, <<r.n, c.on>>)]
    BY <1>6 DEF CreateLine
  <2> DEFINE lines == Ordered(draft.lines, <<r.n, c.on>>)
  <2>2. <<r.n, c.on>> \in LineIds
    BY <1>1, <1>2, <2>1 DEF Calls, LineIds
  <2>3. lines \in Lines
    BY <1>1, <2>2, OrderedLines DEF Draft
  <2>4. draft' = [draft EXCEPT !.lines = lines]
    BY <2>1
  <2>5. draft' \in Draft /\ draft'.lines = lines /\ draft'.expires = draft.expires
        /\ draft'.table = draft.table
    <3> HIDE DEF lines
    <3> QED BY <1>1, <2>3, <2>4 DEF Draft
  <2>6. ToolDoes(r, c, {})
    BY <1>2, <1>6, <2>1, <2>5 DEF CreateLine, ToolDoes
  <2> QED
    BY <1>2, <2>1, <2>6
<1>7. CASE UpdateOrderItem(t)
  <2>1. PICK c \in Executable(t) :
          /\ c.op = "flag" /\ Done(t, c, {})
          /\ draft' = IF c.on \in DOMAIN draft.lines THEN [draft EXCEPT !.lines[c.on] = c.flags]
                      ELSE draft
    BY <1>7 DEF UpdateOrderItem
  <2>2. c.flags \in SUBSET Allergens /\ draft.lines \in Lines
    BY <1>1, <1>2, <2>1 DEF Calls, Draft
  <2>3. CASE c.on \in DOMAIN draft.lines
    <3> DEFINE lines == [draft.lines EXCEPT ![c.on] = c.flags]
    <3>1. draft' = [draft EXCEPT !.lines = lines]
      BY <2>1, <2>3
    <3>2. lines \in Lines
      BY <2>2, <2>3, FlaggedLines
    <3>3. draft' \in Draft /\ draft'.lines = lines /\ draft'.expires = draft.expires
          /\ draft'.table = draft.table
      <4> HIDE DEF lines
      <4> QED BY <1>1, <3>1, <3>2 DEF Draft
    <3>4. ToolDoes(r, c, {})
      BY <1>2, <1>7, <2>1, <2>3, <3>3 DEF UpdateOrderItem, ToolDoes
    <3> QED
      BY <1>2, <2>1, <3>4
  <2>4. CASE c.on \notin DOMAIN draft.lines
    <3>1. ToolDoes(r, c, {})
      BY <1>1, <1>2, <1>7, <2>1, <2>4 DEF UpdateOrderItem, ToolDoes
    <3> QED
      BY <1>2, <2>1, <3>1
  <2> QED
    BY <2>3, <2>4
<1>8. CASE RemoveOrderItem(t)
  <2>1. PICK c \in Executable(t) :
          /\ c.op = "remove" /\ Done(t, c, {})
          /\ draft' = [draft EXCEPT !.lines = [l \in DOMAIN @ \ {c.on} |-> @[l]]]
    BY <1>8 DEF RemoveOrderItem
  <2> DEFINE lines == [l \in DOMAIN draft.lines \ {c.on} |-> draft.lines[l]]
  <2>2. lines \in Lines
    BY <1>1, RemovedLines DEF Draft
  <2>3. draft' = [draft EXCEPT !.lines = lines]
    BY <2>1
  <2>4. draft' \in Draft /\ draft'.lines = lines /\ draft'.expires = draft.expires
        /\ draft'.table = draft.table
    <3> HIDE DEF lines
    <3> QED BY <1>1, <2>2, <2>3 DEF Draft
  <2>5. ToolDoes(r, c, {})
    BY <1>2, <1>8, <2>1, <2>4 DEF RemoveOrderItem, ToolDoes
  <2> QED
    BY <1>2, <2>1, <2>5
<1>9. CASE ListOpenTables(t)
  <2>1. PICK c \in Executable(t), fits \in BOOLEAN :
          /\ c.op = "tables"
          /\ Done(t, c, IF fits /\ c.on \in free THEN {Call("propose", c.on)} ELSE {})
    BY <1>9 DEF ListOpenTables
  <2> DEFINE more == IF fits /\ c.on \in free THEN {Call("propose", c.on)} ELSE {}
  <2>2. more \in SUBSET Calls
    BY DEF Typed, Call, Calls
  <2>3. \A m \in more : m.op = "propose" /\ m.on \in free
    BY DEF Call
  <2>4. UNCHANGED draft /\ Tools /\ Done(t, c, more)
    BY <1>9, <2>1 DEF ListOpenTables
  <2> HIDE DEF more
  <2>5. ToolDoes(r, c, more)
    BY <1>1, <1>2, <2>1, <2>3, <2>4 DEF ToolDoes
  <2> QED
    BY <1>2, <2>2, <2>4, <2>5
<1>10. CASE ProposeTable(t)
  <2>1. PICK c \in Executable(t) :
          c.op = "propose" /\ Done(t, c, IF c.on \in free THEN {Call("hold", c.on)} ELSE {})
    BY <1>10 DEF ProposeTable
  <2> DEFINE more == IF c.on \in free THEN {Call("hold", c.on)} ELSE {}
  <2>2. more \in SUBSET Calls
    BY DEF Typed, Call, Calls
  <2>3. \A m \in more : m.op = "hold" /\ m.on \in free
    BY DEF Call
  <2>4. UNCHANGED draft /\ Tools /\ Done(t, c, more)
    BY <1>10, <2>1 DEF ProposeTable
  <2> HIDE DEF more
  <2>5. ToolDoes(r, c, more)
    BY <1>1, <1>2, <2>1, <2>3, <2>4 DEF ToolDoes
  <2> QED
    BY <1>2, <2>2, <2>4, <2>5
<1>11. CASE SetProposal(t)
  <2>1. PICK c \in Executable(t) :
          c.op = "hold" /\ Done(t, c, {}) /\ draft' = [draft EXCEPT !.table = c.on]
    BY <1>11 DEF SetProposal
  <2>2. c.on \in Tables
    BY <1>2, <2>1 DEF Calls
  <2>3. ToolDoes(r, c, {})
    BY <1>1, <1>2, <1>11, <2>1, <2>2 DEF SetProposal, ToolDoes, Draft
  <2> QED
    BY <1>2, <2>1, <2>3
<1>12. CASE SetPartyDetails(t)
  <2>1. PICK c \in Executable(t) :
          c.op = "party" /\ Done(t, c, {}) /\ draft' = [draft EXCEPT !.party = TRUE]
    BY <1>12 DEF SetPartyDetails
  <2>2. ToolDoes(r, c, {})
    BY <1>1, <1>2, <1>12, <2>1 DEF SetPartyDetails, ToolDoes, Draft
  <2> QED
    BY <1>2, <2>1, <2>2
<1> QED
  BY <1>3, <1>4, <1>5, <1>6, <1>7, <1>8, <1>9, <1>10, <1>11, <1>12 DEF ExecuteTool

-----------------------------------------------------------------------------
(* What the other steps make of a request                                   *)

\* Request r goes from one stage to another.
Goes(t, q, from, to) ==
    /\ turn[t].stage = from /\ q.stage = to /\ Same(q, turn[t])
    /\ turn' = [turn EXCEPT ![t] = q]

LEMMA IdleTyped ==
    ASSUME NEW r, r = Idle
    PROVE  /\ r \in Turn /\ r.stage = "idle" /\ r.calls = {} /\ r.after = {} /\ r.claims = {}
           /\ r.rows = <<>> /\ r.message = NONE /\ r.silent = FALSE
BY IntakeAssumption DEF Idle, Turn, Stages

LEMMA RequestMoves ==
    ASSUME Typed, NEW t \in Turns, Request(t)
    PROVE  \E q \in Turn :
              /\ turn' = [turn EXCEPT ![t] = q] /\ q.stage = "read" /\ q.n = requests + 1
              /\ q.expires = draft.expires /\ (q.silent <=> lapsed) /\ q.rows = <<>>
              /\ q.message = NONE /\ q.calls = {} /\ q.after = {} /\ q.claims = {}
              /\ q.onMenu = menu /\ q.onFree = free
<1> DEFINE q == [Idle EXCEPT !.stage = "read", !.n = requests + 1, !.expires = draft.expires,
                             !.silent = lapsed, !.onMenu = menu, !.onFree = free]
<1>1. turn' = [turn EXCEPT ![t] = q]
  BY DEF Request, Set
<1>2. requests + 1 \in 0 .. MaxRequests /\ draft.expires \in 0 .. MaxClock + Window
  BY IntakeAssumption DEF Request, Typed, Draft
<1>3. Idle \in Turn /\ Idle.rows = <<>> /\ Idle.message = NONE /\ Idle.calls = {}
      /\ Idle.after = {} /\ Idle.claims = {}
  BY IdleTyped
<1>4. q \in Turn
  BY <1>2, <1>3 DEF Typed, Turn, Stages
<1>5. /\ q.stage = "read" /\ q.n = requests + 1 /\ q.expires = draft.expires
      /\ q.rows = Idle.rows /\ q.message = Idle.message /\ q.calls = Idle.calls
      /\ q.after = Idle.after /\ q.claims = Idle.claims
      /\ q.onMenu = menu /\ q.onFree = free
  BY <1>3 DEF Turn
<1>6. q.silent <=> lapsed
  BY <1>3 DEF Turn, Typed
<1> HIDE DEF q
<1> QED
  BY <1>1, <1>3, <1>4, <1>5, <1>6

LEMMA TalkMoves ==
    ASSUME Typed, NEW t \in Turns, Misheard(t) \/ Heard(t) \/ Recap(t)
    PROVE  \E q \in Turn :
              /\ SameTools(q, turn[t]) /\ (q.silent <=> turn[t].silent)
              /\ \/ /\ Goes(t, q, "read", "respond")
                    /\ q.message = "misheard" /\ q.rows = turn[t].rows
                 \/ /\ Goes(t, q, "read", "heard")
                    /\ q.message = turn[t].message /\ q.rows = Append(turn[t].rows, "customer")
                 \/ /\ Goes(t, q, "heard", "respond")
                    /\ q.message = "recap" /\ q.rows = turn[t].rows
<1> DEFINE r == turn[t]
<1>1. r \in Turn
  BY DEF Typed
<1> DEFINE q1 == [r EXCEPT !.stage = "respond", !.message = "misheard"]
           q2 == [r EXCEPT !.stage = "heard", !.rows = Append(@, "customer")]
           q3 == [r EXCEPT !.stage = "respond", !.message = "recap"]
<1>2. CASE Misheard(t)
  <2>1. turn' = [turn EXCEPT ![t] = q1] /\ r.stage = "read"
    BY <1>2 DEF Misheard, Respond, Set
  <2> HIDE DEF r
  <2>2. q1 \in Turn
    BY <1>1 DEF Turn, Stages
  <2>3. q1.stage = "respond" /\ q1.message = "misheard" /\ q1.rows = r.rows
        /\ SameTools(q1, r) /\ (q1.silent <=> r.silent) /\ Same(q1, r)
    BY <1>1 DEF Turn, SameTools, Same
  <2> QED
    BY <2>1, <2>2, <2>3 DEF Goes, r
<1>3. CASE Heard(t)
  <2>1. turn' = [turn EXCEPT ![t] = q2] /\ r.stage = "read"
    BY <1>3 DEF Heard, Set
  <2> HIDE DEF r
  <2>2. q2 \in Turn
    <3> DEFINE rows == Append(r.rows, "customer")
    <3>1. rows \in Seq({"customer", "system"})
      BY <1>1 DEF Turn
    <3> HIDE DEF rows
    <3>2. [r EXCEPT !.stage = "heard", !.rows = rows] \in Turn
      BY <1>1, <3>1 DEF Turn, Stages
    <3> QED
      BY <3>2 DEF rows
  <2>3. q2.stage = "heard" /\ q2.message = r.message /\ q2.rows = Append(r.rows, "customer")
        /\ SameTools(q2, r) /\ (q2.silent <=> r.silent) /\ Same(q2, r)
    BY <1>1 DEF Turn, SameTools, Same
  <2> QED
    BY <2>1, <2>2, <2>3 DEF Goes, r
<1>4. CASE Recap(t)
  <2>1. turn' = [turn EXCEPT ![t] = q3] /\ r.stage = "heard"
    BY <1>4 DEF Recap, Respond, Set
  <2> HIDE DEF r
  <2>2. q3 \in Turn
    BY <1>1 DEF Turn, Stages
  <2>3. q3.stage = "respond" /\ q3.message = "recap" /\ q3.rows = r.rows
        /\ SameTools(q3, r) /\ (q3.silent <=> r.silent) /\ Same(q3, r)
    BY <1>1 DEF Turn, SameTools, Same
  <2> QED
    BY <2>1, <2>2, <2>3 DEF Goes, r
<1> QED
  BY <1>2, <1>3, <1>4

LEMMA LinesOfTyped ==
    ASSUME Typed, NEW d, NEW one \in OneOf(LinesOf(d))
    PROVE  one \subseteq DOMAIN draft.lines /\ DOMAIN draft.lines \subseteq LineIds
<1>1. draft.lines \in Lines
  BY DEF Typed, Draft
<1>2. LinesOf(d) \subseteq DOMAIN draft.lines
  BY DEF LinesOf
<1>3. one \subseteq LinesOf(d)
  BY DEF OneOf
<1> QED
  BY <1>1, <1>2, <1>3, LinesTyped

\* What DevDialogueEngine sets out to do: an allergy is flagged on the lines that lack the
\* flag, and nothing else comes of it; no other message flags or claims anything.
LEMMA DevPlansTyped ==
    ASSUME Typed, NEW ask \in Asks, NEW plan \in DevPlans(ask)
    PROVE  /\ plan[1] \in SUBSET Calls /\ plan[2] \in SUBSET Calls
           /\ \A c \in plan[1] : c.op \in {"list", "remove", "flag", "tables", "party"}
           /\ \A c \in plan[2] : c.op = "list"
           /\ Claims(ask) \in SUBSET (LineIds \X Allergens)
           /\ ask.kind # "allergy" => Claims(ask) = {} /\ \A c \in plan[1] : c.op # "flag"
           /\ ask.kind = "allergy" =>
                 /\ plan[2] = {} /\ ask.tag \in Allergens
                 /\ plan[1] = {Flag(l, ask.tag) : l \in {m \in DOMAIN draft.lines :
                                                     ask.tag \notin draft.lines[m]}}
                 /\ Claims(ask) = (DOMAIN draft.lines) \X {ask.tag}
<1>1. /\ DOMAIN draft.lines \subseteq LineIds
      /\ \A l \in DOMAIN draft.lines : draft.lines[l] \in SUBSET Allergens
  BY LinesTyped DEF Typed, Draft
<1>2. CASE ask.kind = "order"
  <2>1. plan = <<{Call("list", ask.what)}, {}>> /\ ask.what \in SUBSET Dishes
    BY <1>2 DEF DevPlans, Asks, AllergyAsks
  <2> QED
    BY <1>2, <2>1 DEF Call, Calls, Claims
<1>3. CASE ask.kind = "swap"
  <2>1. PICK one \in OneOf(LinesOf(ask.old)) :
          plan = <<{Call("remove", l) : l \in one}, {Call("list", {ask.what})}>>
    BY <1>3 DEF DevPlans
  <2>2. ask.what \in Dishes
    BY <1>3 DEF Asks, AllergyAsks
  <2>3. one \subseteq LineIds
    BY LinesOfTyped
  <2> DEFINE first == {Call("remove", l) : l \in one}
             then == {Call("list", {ask.what})}
  <2>4. first \in SUBSET Calls /\ \A c \in first : c.op = "remove"
    BY <2>3 DEF Call, Calls
  <2>5. then \in SUBSET Calls /\ \A c \in then : c.op = "list"
    BY <2>2 DEF Call, Calls
  <2>6. plan[1] = first /\ plan[2] = then
    BY <2>1
  <2> HIDE DEF first, then
  <2> QED
    BY <1>3, <2>4, <2>5, <2>6 DEF Claims
<1>4. CASE ask.kind = "remove"
  <2>1. PICK one \in OneOf(LinesOf(ask.old)) : plan = <<{Call("remove", l) : l \in one}, {}>>
    BY <1>4 DEF DevPlans
  <2>3. one \subseteq LineIds
    BY LinesOfTyped
  <2> DEFINE first == {Call("remove", l) : l \in one}
  <2>4. first \in SUBSET Calls /\ \A c \in first : c.op = "remove"
    BY <2>3 DEF Call, Calls
  <2>6. plan[1] = first /\ plan[2] = {}
    BY <2>1
  <2> HIDE DEF first
  <2> QED
    BY <1>4, <2>4, <2>6 DEF Claims
<1>5. CASE ask.kind = "allergy"
  <2> DEFINE first == {Flag(l, ask.tag) : l \in {m \in DOMAIN draft.lines :
                                                     ask.tag \notin draft.lines[m]}}
  <2>1. plan = <<first, {}>>
    BY <1>5 DEF DevPlans
  <2>2. ask.tag \in Allergens
    BY <1>5 DEF Asks, AllergyAsks
  <2>3. first \in SUBSET Calls /\ \A c \in first : c.op = "flag"
    BY <1>1, <2>2 DEF Flag, Calls
  <2>4. Claims(ask) = (DOMAIN draft.lines) \X {ask.tag}
    BY <1>5 DEF Claims
  <2>5. (DOMAIN draft.lines) \X {ask.tag} \in SUBSET (LineIds \X Allergens)
    BY <1>1, <2>2
  <2>6. plan[1] = first /\ plan[2] = {}
    BY <2>1
  <2> HIDE DEF first
  <2>7. /\ plan[1] \in SUBSET Calls /\ plan[2] \in SUBSET Calls
        /\ \A c \in plan[1] : c.op \in {"list", "remove", "flag", "tables", "party"}
        /\ \A c \in plan[2] : c.op = "list"
    BY <2>3, <2>6
  <2> QED
    BY <1>5, <2>2, <2>4, <2>5, <2>6, <2>7 DEF first
<1>6. CASE ask.kind = "table"
  <2>1. plan = <<IF draft.party THEN {Call("tables", ask.what)} ELSE {}, {}>>
    BY <1>6 DEF DevPlans
  <2>2. ask.what \in Tables
    BY <1>6 DEF Asks, AllergyAsks
  <2>3. plan[1] \in {{Call("tables", ask.what)}, {}} /\ plan[2] = {}
    BY <2>1
  <2> QED
    BY <1>6, <2>2, <2>3 DEF Call, Calls, Claims
<1>7. CASE ask.kind = "party"
  <2>1. plan[1] = {Call("party", NONE)} /\ plan[2] = {}
    BY <1>7 DEF DevPlans
  <2> QED
    BY <1>7, <2>1 DEF Call, Calls, Claims
<1>8. CASE ask.kind = "other"
  <2>1. plan[1] = {} /\ plan[2] = {}
    BY <1>8 DEF DevPlans
  <2> QED
    BY <1>8, <2>1 DEF Claims
<1> QED
  BY <1>2, <1>3, <1>4, <1>5, <1>6, <1>7, <1>8 DEF Asks, AllergyAsks

\* What the engine is asked, and what it sets out to do.
First(plan) == IF plan[1] = {} THEN plan[2] ELSE plan[1]

Begun(q, plan) == q.calls = First(plan) /\ q.after \in {plan[2], {}}

Sets(q) ==
    \/ /\ engine = "dev"
       /\ \E ask \in Asks : \E plan \in DevPlans(ask) :
             /\ Begun(q, plan)
             /\ q.claims = Claims(ask) /\ q.left = 0
    \/ engine = "claude" /\ q.calls = {} /\ q.after = {} /\ q.claims = {}

LEMMA StartMoves ==
    ASSUME Typed, NEW t \in Turns, turn[t].stage = "heard", NEW plan, NEW claims, NEW left,
           Start(t, plan, claims, left), plan[1] \in SUBSET Calls, plan[2] \in SUBSET Calls,
           claims \in SUBSET (LineIds \X Allergens), left \in 0 .. MaxCalls
    PROVE  \E q \in Turn :
              /\ Goes(t, q, "heard", "engine") /\ SameTalk(q, turn[t])
              /\ Begun(q, plan)
              /\ q.claims = claims /\ q.left = left
<1> DEFINE r == turn[t]
           calls == First(plan)
           after == IF plan[1] = {} THEN {} ELSE plan[2]
           q == [r EXCEPT !.stage = "engine", !.calls = calls, !.after = after,
                          !.claims = claims, !.left = left]
<1>1. r \in Turn
  BY DEF Typed
<1>2. turn' = [turn EXCEPT ![t] = q]
  BY DEF Start, Set, Due, First
<1> HIDE DEF r, calls, after
<1>3. calls \in SUBSET Calls /\ after \in SUBSET Calls /\ after \in {plan[2], {}}
  BY DEF calls, after, First
<1>4. q \in Turn
  BY <1>1, <1>3 DEF Turn, Stages
<1>5. /\ q.stage = "engine" /\ Same(q, r) /\ SameTalk(q, r)
      /\ q.calls = calls /\ q.after = after /\ q.claims = claims /\ q.left = left
  BY <1>1, <1>3 DEF Turn, Same, SameTalk
<1> HIDE DEF q
<1> QED
  BY <1>2, <1>3, <1>4, <1>5 DEF Goes, Begun, r, calls

LEMMA ThinkMoves ==
    ASSUME Typed, NEW t \in Turns, Think(t)
    PROVE  \E q \in Turn : Goes(t, q, "heard", "engine") /\ SameTalk(q, turn[t]) /\ Sets(q)
<1>1. turn[t].stage = "heard" /\ 0 \in 0 .. MaxCalls /\ MaxCalls \in 0 .. MaxCalls
  BY IntakeAssumption DEF Think
<1>2. CASE engine = "dev"
  <2>0. PICK ask \in Asks : \E plan \in DevPlans(ask) : Start(t, plan, Claims(ask), 0)
    BY <1>2 DEF Think
  <2>1. PICK plan \in DevPlans(ask) : Start(t, plan, Claims(ask), 0)
    BY <2>0
  <2>2. /\ plan[1] \in SUBSET Calls /\ plan[2] \in SUBSET Calls
        /\ Claims(ask) \in SUBSET (LineIds \X Allergens)
    BY DevPlansTyped
  <2>3. PICK q \in Turn : /\ Goes(t, q, "heard", "engine") /\ SameTalk(q, turn[t])
                          /\ Begun(q, plan)
                          /\ q.claims = Claims(ask) /\ q.left = 0
    BY <1>1, <2>1, <2>2, StartMoves
  <2> QED
    BY <1>2, <2>3 DEF Sets
<1>3. CASE engine = "claude"
  <2>1. Start(t, <<{}, {}>>, {}, MaxCalls)
    BY <1>3 DEF Think
  <2> DEFINE plan == <<{}, {}>>
  <2>2. plan[1] = {} /\ plan[2] = {} /\ Start(t, plan, {}, MaxCalls)
    BY <2>1
  <2> HIDE DEF plan
  <2>3. PICK q \in Turn : /\ Goes(t, q, "heard", "engine") /\ SameTalk(q, turn[t])
                          /\ Begun(q, plan)
                          /\ q.claims = {}
    BY <1>1, <2>2, StartMoves
  <2> QED
    BY <1>3, <2>2, <2>3 DEF Sets, Begun, First
<1> QED
  BY <1>2, <1>3 DEF Think

LEMMA AskToolMoves ==
    ASSUME Typed, NEW t \in Turns, AskTool(t)
    PROVE  \E q \in Turn :
              /\ Goes(t, q, "engine", "engine") /\ SameTalk(q, turn[t])
              /\ q.after = turn[t].after /\ q.claims = turn[t].claims
              /\ \E c \in ClaudeCalls : q.calls = {c}
              /\ turn[t].left > 0
<1> DEFINE r == turn[t]
<1>1. r \in Turn /\ r.stage = "engine" /\ r.left \in 1 .. MaxCalls
  BY IntakeAssumption DEF Typed, Turn, AskTool
<1>2. PICK c \in ClaudeCalls : turn' = [turn EXCEPT ![t] = [r EXCEPT !.calls = {c}, !.left = @ - 1]]
  BY DEF AskTool, Set
<1>3. c \in Calls
  BY DEF ClaudeCalls, Call, Calls
<1> DEFINE left == r.left - 1
           q == [r EXCEPT !.calls = {c}, !.left = left]
<1>4. left \in 0 .. MaxCalls /\ turn' = [turn EXCEPT ![t] = q]
  BY <1>1, <1>2, IntakeAssumption
<1>9. r.left > 0
  BY <1>1, IntakeAssumption
<1> HIDE DEF r, left
<1>5. q \in Turn
  BY <1>1, <1>3, <1>4 DEF Turn, Stages
<1>6. /\ q.stage = "engine" /\ Same(q, r) /\ SameTalk(q, r)
      /\ q.calls = {c} /\ q.after = r.after /\ q.claims = r.claims
  BY <1>1, <1>3 DEF Turn, Same, SameTalk
<1> HIDE DEF q
<1> QED
  BY <1>1, <1>4, <1>5, <1>6, <1>9 DEF Goes, r

\* The system's turn is appended.
LEMMA AnsweredFields ==
    ASSUME NEW r \in Turn, NEW stage \in {"written", "current"}
    PROVE  LET q == Answered(r, stage) IN
           /\ q \in Turn /\ q.stage = stage /\ q.rows = Append(r.rows, "system")
           /\ q.message = r.message /\ (q.silent <=> r.silent) /\ Same(q, r) /\ SameTools(q, r)
<1> DEFINE rows == Append(r.rows, "system")
           q == [r EXCEPT !.stage = stage, !.rows = rows]
<1>1. rows \in Seq({"customer", "system"})
  BY DEF Turn
<1>2. Answered(r, stage) = q
  BY DEF Answered
<1> HIDE DEF rows
<1>3. q \in Turn
  BY <1>1 DEF Turn, Stages
<1>4. /\ q.stage = stage /\ q.rows = rows /\ q.message = r.message /\ (q.silent <=> r.silent)
      /\ Same(q, r) /\ SameTools(q, r)
  BY DEF Turn, Same, SameTools
<1> HIDE DEF q
<1> QED
  BY <1>2, <1>3, <1>4 DEF rows

LEMMA AnswerMoves ==
    ASSUME Typed, NEW t \in Turns, Reply(t) \/ RespondWithSystemTurn(t)
    PROVE  \E q \in Turn :
              /\ q.message = turn[t].message /\ q.rows = Append(turn[t].rows, "system")
              /\ SameTools(q, turn[t]) /\ (q.silent <=> turn[t].silent)
              /\ \/ Goes(t, q, "engine", "written") /\ turn[t].calls = {}
                 \/ Goes(t, q, "respond", IF turn[t].message = "recap" THEN "written" ELSE "current")
<1> DEFINE r == turn[t]
<1>1. r \in Turn
  BY DEF Typed
<1>2. CASE Reply(t)
  <2> DEFINE q == Answered(r, "written")
  <2>1. turn' = [turn EXCEPT ![t] = q] /\ r.stage = "engine" /\ r.calls = {}
    BY <1>2 DEF Reply, Set
  <2>2. /\ q \in Turn /\ q.stage = "written" /\ q.rows = Append(r.rows, "system")
        /\ q.message = r.message /\ (q.silent <=> r.silent) /\ Same(q, r) /\ SameTools(q, r)
    BY <1>1, AnsweredFields
  <2> HIDE DEF q
  <2> QED
    BY <2>1, <2>2 DEF Goes
<1>3. CASE RespondWithSystemTurn(t)
  <2> DEFINE to == IF Reengages(r.message) THEN "written" ELSE "current"
             q == Answered(r, to)
  <2>1. turn' = [turn EXCEPT ![t] = q] /\ r.stage = "respond"
    BY <1>3 DEF RespondWithSystemTurn, Set
  <2>2. to \in {"written", "current"} /\ to = IF r.message = "recap" THEN "written" ELSE "current"
    BY DEF Reengages
  <2> HIDE DEF to
  <2>3. /\ q \in Turn /\ q.stage = to /\ q.rows = Append(r.rows, "system")
        /\ q.message = r.message /\ (q.silent <=> r.silent) /\ Same(q, r) /\ SameTools(q, r)
    BY <1>1, <2>2, AnsweredFields
  <2> HIDE DEF q
  <2> QED
    BY <2>1, <2>2, <2>3 DEF Goes
<1> QED
  BY <1>2, <1>3

LEMMA FailureMoves ==
    ASSUME Typed, NEW t \in Turns, EngineFails(t)
    PROVE  \E q \in Turn :
              /\ Goes(t, q, "engine", "respond") /\ q.message = "unavailable"
              /\ q.rows = turn[t].rows /\ (q.silent <=> turn[t].silent) /\ SameTools(q, turn[t])
<1> DEFINE r == turn[t]
           q == [r EXCEPT !.stage = "respond", !.message = "unavailable"]
<1>1. r \in Turn /\ r.stage = "engine" /\ turn' = [turn EXCEPT ![t] = q]
  BY DEF Typed, EngineFails, Respond, Set
<1> HIDE DEF r
<1>2. q \in Turn
  BY <1>1 DEF Turn, Stages
<1>3. /\ q.stage = "respond" /\ Same(q, r) /\ q.message = "unavailable" /\ q.rows = r.rows
      /\ (q.silent <=> r.silent) /\ SameTools(q, r)
  BY <1>1 DEF Turn, Same, SameTools
<1> QED
  BY <1>1, <1>2, <1>3 DEF Goes, r

LEMMA EndMoves ==
    ASSUME Typed, NEW t \in Turns, Refresh(t) \/ Return(t)
    PROVE  \E q \in Turn :
              /\ SameTalk(q, turn[t]) /\ SameTools(q, turn[t])
              /\ \/ Refresh(t) /\ Goes(t, q, "written", "current")
                 \/ Return(t) /\ Goes(t, q, "current", "sent") /\ q.token = now + TokenTTL
<1> DEFINE r == turn[t]
<1>1. r \in Turn /\ now + TokenTTL \in 0 .. MaxClock + TokenTTL
  BY IntakeAssumption DEF Typed
<1>2. CASE Refresh(t)
  <2> DEFINE q == [r EXCEPT !.stage = "current"]
  <2>1. r.stage = "written" /\ turn' = [turn EXCEPT ![t] = q]
    BY <1>2 DEF Refresh, To, Set
  <2> HIDE DEF r
  <2>2. q \in Turn
    BY <1>1 DEF Turn, Stages
  <2>3. q.stage = "current" /\ Same(q, r) /\ SameTalk(q, r) /\ SameTools(q, r)
    BY <1>1 DEF Turn, Same, SameTalk, SameTools
  <2> QED
    BY <1>2, <2>1, <2>2, <2>3 DEF Goes, r
<1>3. CASE Return(t)
  <2> DEFINE k == now + TokenTTL
             q == [r EXCEPT !.stage = "sent", !.token = k]
  <2>1. r.stage = "current" /\ turn' = [turn EXCEPT ![t] = q]
    BY <1>3 DEF Return, Set, Minted, Until
  <2> HIDE DEF r, k
  <2>2. q \in Turn
    BY <1>1 DEF Turn, Stages, k
  <2>3. q.stage = "sent" /\ Same(q, r) /\ SameTalk(q, r) /\ SameTools(q, r) /\ q.token = k
    BY <1>1 DEF Turn, Same, SameTalk, SameTools
  <2> HIDE DEF q
  <2> QED
    BY <1>3, <2>1, <2>2, <2>3 DEF Goes, r, k
<1> QED
  BY <1>2, <1>3

-----------------------------------------------------------------------------
(* What a request has written, knows and may do                             *)

\* Request r, with these dishes and tables to be had: the rows it has written, and what it
\* may bring into the draft.
Serves(r, dishes, tables) ==
    /\ r.stage = "read" => r.rows = <<>>
    /\ r.stage \in {"heard", "engine"} => r.rows = <<"customer">>
    /\ r.stage \in {"read", "heard", "engine"} => r.message = NONE
    /\ r.stage = "respond" =>
          /\ r.message # NONE
          /\ r.rows = IF r.message = "misheard" THEN <<>> ELSE <<"customer">>
    /\ r.stage \in {"written", "current", "sent"} =>
          r.rows = IF r.message = "misheard" THEN <<"system">> ELSE <<"customer", "system">>
    /\ r.stage # "idle" => dishes \subseteq r.onMenu /\ tables \subseteq r.onFree
    /\ \A c \in r.calls : /\ c.op = "create" => c.on \in r.onMenu
                          /\ c.op = "hold" => c.on \in r.onFree
    /\ \A c \in r.after : c.op = "list"

RequestInv ==
    /\ Typed
    /\ \A t \in Turns : Serves(turn[t], menu, free)

LEMMA AppendToOne ==
    ASSUME NEW S, NEW s \in Seq(S), NEW e \in S, Len(s) = 1
    PROVE  /\ Append(s, e) \in Seq(S) /\ Len(Append(s, e)) = 2
           /\ Append(s, e)[2] = e /\ Append(s, e)[1] = s[1]
OBVIOUS

LEMMA SecondRow ==
    ASSUME NEW S, NEW s \in Seq(S), NEW e \in S, Len(s) = 1
    PROVE  Append(s, e) = <<s[1], e>>
<1> DEFINE q == Append(s, e)
           p == <<s[1], e>>
<1>1. q \in Seq(S) /\ Len(q) = 2 /\ q[1] = s[1] /\ q[2] = e
  BY AppendToOne
<1>2. s[1] \in S
  BY ElementOfSeq
<1>3. p \in Seq(S) /\ Len(p) = 2 /\ p[1] = s[1] /\ p[2] = e
  BY <1>2
<1> HIDE DEF p, q
<1>4. q = p
  BY <1>1, <1>3, SeqEqual
<1> QED
  BY <1>4 DEF p, q

\* The rows a request writes, one after the other.
LEMMA Rows ==
    /\ Append(<<>>, "customer") = <<"customer">>
    /\ Append(<<>>, "system") = <<"system">>
    /\ Append(<<"customer">>, "system") = <<"customer", "system">>
<1> DEFINE S == {"customer", "system"}
           s == <<"customer">>
<1>1. s \in Seq(S) /\ "system" \in S /\ Len(s) = 1 /\ s[1] = "customer"
  OBVIOUS
<1>2. Append(<<>>, "customer") = <<"customer">> /\ Append(<<>>, "system") = <<"system">>
  OBVIOUS
<1> HIDE DEF s, S
<1>3. Append(s, "system") = <<s[1], "system">>
  BY <1>1, SecondRow
<1> QED
  BY <1>1, <1>2, <1>3 DEF s

\* A step of one request.
LEMMA OneTurn ==
    ASSUME RequestInv, NEW t \in Turns, NEW q \in Turn, turn' = [turn EXCEPT ![t] = q],
           Serves(q, menu, free), UNCHANGED <<engine, menu, free, now>>,
           draft' \in Draft, token' \in 0 .. MaxClock + TokenTTL, requests' \in 0 .. MaxRequests,
           overlapped' \in BOOLEAN, lost' \in BOOLEAN, lapsed' \in BOOLEAN, missed' \in BOOLEAN,
           told' \in SUBSET (LineIds \X Allergens)
    PROVE  RequestInv'
<1>1. Typed'
  BY DEF RequestInv, Typed
<1>2. ASSUME NEW s \in Turns PROVE Serves(turn'[s], menu, free)
  BY DEF RequestInv, Typed
<1> QED
  BY <1>1, <1>2 DEF RequestInv

\* The request is over.
LEMMA IdleServes ==
    ASSUME NEW dishes, NEW tables
    PROVE  Idle \in Turn /\ Serves(Idle, dishes, tables)
BY IdleTyped DEF Serves

LEMMA RequestKeeps ==
    ASSUME RequestInv, NEW t \in Turns, Request(t)
    PROVE  RequestInv'
<1>1. PICK q \in Turn :
         /\ turn' = [turn EXCEPT ![t] = q] /\ q.stage = "read" /\ q.n = requests + 1
         /\ q.expires = draft.expires /\ (q.silent <=> lapsed) /\ q.rows = <<>>
         /\ q.message = NONE /\ q.calls = {} /\ q.after = {} /\ q.claims = {}
         /\ q.onMenu = menu /\ q.onFree = free
  BY RequestMoves DEF RequestInv
<1>2. Serves(q, menu, free)
  BY <1>1 DEF RequestInv, Serves
<1>3. requests' \in 0 .. MaxRequests
  BY IntakeAssumption DEF Request, RequestInv, Typed
<1>4. /\ UNCHANGED <<engine, menu, free, now, draft, token, lost, lapsed, missed, told>>
      /\ overlapped' \in BOOLEAN
  BY DEF Request, Elsewhere, RequestInv, Typed
<1> QED
  BY <1>1, <1>2, <1>3, <1>4, OneTurn DEF RequestInv, Typed

LEMMA TalkKeeps ==
    ASSUME RequestInv, NEW t \in Turns, Misheard(t) \/ Heard(t) \/ Recap(t)
    PROVE  RequestInv'
<1>1. PICK q \in Turn :
         /\ SameTools(q, turn[t]) /\ (q.silent <=> turn[t].silent)
         /\ \/ /\ Goes(t, q, "read", "respond")
               /\ q.message = "misheard" /\ q.rows = turn[t].rows
            \/ /\ Goes(t, q, "read", "heard")
               /\ q.message = turn[t].message /\ q.rows = Append(turn[t].rows, "customer")
            \/ /\ Goes(t, q, "heard", "respond")
               /\ q.message = "recap" /\ q.rows = turn[t].rows
  BY TalkMoves DEF RequestInv
<1>2. Serves(turn[t], menu, free)
  BY DEF RequestInv
<1>3. Serves(q, menu, free)
  BY <1>1, <1>2, Rows, IntakeAssumption DEF Serves, Goes, Same, SameTools
<1>4. UNCHANGED <<engine, menu, free, now, draft, token, requests, overlapped, lost, lapsed, missed, told>>
  BY DEF Misheard, Heard, Recap, Within, Elsewhere
<1>5. turn' = [turn EXCEPT ![t] = q]
  BY <1>1 DEF Goes
<1> QED
  BY <1>3, <1>4, <1>5, OneTurn DEF RequestInv, Typed

LEMMA ThinkKeeps ==
    ASSUME RequestInv, NEW t \in Turns, Think(t)
    PROVE  RequestInv'
<1>1. PICK q \in Turn : Goes(t, q, "heard", "engine") /\ SameTalk(q, turn[t]) /\ Sets(q)
  BY ThinkMoves DEF RequestInv
<1>2. Serves(turn[t], menu, free) /\ Typed
  BY DEF RequestInv
<1>3. /\ \A c \in q.calls : c.op \notin {"create", "hold"}
      /\ \A c \in q.after : c.op = "list"
  BY <1>1, <1>2, DevPlansTyped DEF Sets, Begun, First
<1>5. Serves(q, menu, free)
  BY <1>1, <1>2, <1>3 DEF Serves, Goes, Same, SameTalk
<1>6. UNCHANGED <<engine, menu, free, now, draft, token, requests, overlapped, lost, lapsed, missed, told>>
  BY DEF Think, Within, Elsewhere
<1>7. turn' = [turn EXCEPT ![t] = q]
  BY <1>1 DEF Goes
<1> QED
  BY <1>5, <1>6, <1>7, OneTurn DEF RequestInv, Typed

LEMMA AskToolKeeps ==
    ASSUME RequestInv, NEW t \in Turns, AskTool(t)
    PROVE  RequestInv'
<1>1. PICK q \in Turn :
         /\ Goes(t, q, "engine", "engine") /\ SameTalk(q, turn[t])
         /\ q.after = turn[t].after /\ q.claims = turn[t].claims
         /\ \E c \in ClaudeCalls : q.calls = {c}
  BY AskToolMoves DEF RequestInv
<1>2. Serves(turn[t], menu, free)
  BY DEF RequestInv
<1>3. \A c \in q.calls : c.op \notin {"create", "hold"}
  BY <1>1 DEF ClaudeCalls, Call
<1>5. Serves(q, menu, free)
  BY <1>1, <1>2, <1>3 DEF Serves, Goes, Same, SameTalk
<1>6. UNCHANGED <<engine, menu, free, now, draft, token, requests, overlapped, lost, lapsed, missed, told>>
  BY DEF AskTool, Within, Elsewhere
<1>7. turn' = [turn EXCEPT ![t] = q]
  BY <1>1 DEF Goes
<1> QED
  BY <1>5, <1>6, <1>7, OneTurn DEF RequestInv, Typed

LEMMA ToolsKeep ==
    ASSUME RequestInv, NEW t \in Turns, ExecuteTool(t)
    PROVE  RequestInv'
<1>1. PICK c \in Calls : \E more \in SUBSET Calls : Done(t, c, more) /\ ToolDoes(turn[t], c, more)
  BY ToolSteps DEF RequestInv
<1>2. PICK more \in SUBSET Calls : Done(t, c, more) /\ ToolDoes(turn[t], c, more)
  BY <1>1
<1>3. PICK q \in Turn :
         /\ turn' = [turn EXCEPT ![t] = q] /\ Continues(q, turn[t])
         /\ q.calls = CallsAfter(turn[t], c, more) /\ q.after \in {turn[t].after, {}}
  BY <1>2, DoneFields DEF RequestInv
<1>4. Serves(turn[t], menu, free)
  BY DEF RequestInv
<1>5. ASSUME NEW m \in q.calls
      PROVE  /\ m.op = "create" => m.on \in turn[t].onMenu
             /\ m.op = "hold" => m.on \in turn[t].onFree
  <2>1. m \in turn[t].calls \/ m \in more \/ m \in turn[t].after
    BY <1>3, <1>5 DEF CallsAfter
  <2> QED
    BY <1>2, <1>4, <2>1 DEF Serves, ToolDoes
<1>6. Serves(q, menu, free)
  BY <1>3, <1>4, <1>5 DEF Serves, Continues, Same, SameTalk
<1>7. /\ UNCHANGED <<engine, menu, free, now, token, requests, overlapped, lost, lapsed, missed, told>>
      /\ draft' \in Draft /\ draft'.expires = draft.expires
  BY <1>2 DEF ToolDoes, Tools, Within, Elsewhere
<1> QED
  BY <1>3, <1>6, <1>7, OneTurn DEF RequestInv, Typed

LEMMA AnswersKeep ==
    ASSUME RequestInv, NEW t \in Turns, Reply(t) \/ RespondWithSystemTurn(t) \/ EngineFails(t)
    PROVE  RequestInv'
<1> DEFINE r == turn[t]
<1>1. Serves(r, menu, free) /\ Typed /\ r \in Turn
  BY DEF RequestInv, Typed
<1>2. /\ UNCHANGED <<engine, menu, free, now, draft, token, requests, overlapped, lost, lapsed, missed>>
      /\ told' \in {told, told \cup r.claims}
  BY DEF Reply, RespondWithSystemTurn, EngineFails, Within, Elsewhere
<1>9. told' \in SUBSET (LineIds \X Allergens)
  BY <1>1, <1>2 DEF Typed, Turn
<1>3. CASE Reply(t) \/ RespondWithSystemTurn(t)
  <2>1. PICK q \in Turn :
          /\ q.message = r.message /\ q.rows = Append(r.rows, "system")
          /\ SameTools(q, r)
          /\ \/ Goes(t, q, "engine", "written") /\ r.calls = {}
             \/ Goes(t, q, "respond", IF r.message = "recap" THEN "written" ELSE "current")
    BY <1>1, <1>3, AnswerMoves
  <2>2. turn' = [turn EXCEPT ![t] = q]
    BY <2>1 DEF Goes
  <2>3. Serves(q, menu, free)
    <3>1. CASE Goes(t, q, "engine", "written") /\ r.calls = {}
      <4>1. r.message = NONE /\ r.rows = <<"customer">>
        BY <1>1, <3>1 DEF Serves, Goes
      <4>2. q.rows = <<"customer", "system">> /\ q.message # "misheard"
        BY <2>1, <4>1, Rows, IntakeAssumption
      <4>3. q.stage = "written" /\ menu \subseteq q.onMenu /\ free \subseteq q.onFree
        BY <1>1, <3>1 DEF Serves, Goes, Same
      <4>4. q.calls = {} /\ \A c \in q.after : c.op = "list"
        BY <1>1, <2>1, <3>1 DEF Serves, SameTools
      <4> QED
        BY <4>1, <4>2, <4>3, <4>4 DEF Serves
    <3>2. CASE Goes(t, q, "respond", IF r.message = "recap" THEN "written" ELSE "current")
      <4>1. /\ q.stage \in {"written", "current"}
            /\ q.rows = IF q.message = "misheard" THEN <<"system">> ELSE <<"customer", "system">>
        BY <1>1, <2>1, <3>2, Rows DEF Serves, Goes
      <4>2. menu \subseteq q.onMenu /\ free \subseteq q.onFree
        BY <1>1, <3>2 DEF Serves, Goes, Same
      <4>3. /\ \A c \in q.calls : /\ c.op = "create" => c.on \in q.onMenu
                                  /\ c.op = "hold" => c.on \in q.onFree
            /\ \A c \in q.after : c.op = "list"
        BY <1>1, <2>1, <3>2 DEF Serves, SameTools, Goes, Same
      <4> QED
        BY <4>1, <4>2, <4>3 DEF Serves
    <3> QED
      BY <2>1, <3>1, <3>2
  <2> QED
    BY <1>1, <1>2, <1>9, <2>2, <2>3, OneTurn DEF RequestInv, Typed
<1>4. CASE EngineFails(t)
  <2>1. PICK q \in Turn :
          /\ Goes(t, q, "engine", "respond") /\ q.message = "unavailable"
          /\ q.rows = r.rows /\ (q.silent <=> r.silent) /\ SameTools(q, r)
    BY <1>1, <1>4, FailureMoves
  <2>2. turn' = [turn EXCEPT ![t] = q]
    BY <2>1 DEF Goes
  <2>3. Serves(q, menu, free)
    BY <1>1, <2>1, IntakeAssumption DEF Serves, Goes, Same, SameTools
  <2> QED
    BY <1>1, <1>2, <1>9, <2>2, <2>3, OneTurn DEF RequestInv, Typed
<1> QED
  BY <1>3, <1>4

LEMMA EndKeeps ==
    ASSUME RequestInv, NEW t \in Turns, Refresh(t) \/ Return(t)
    PROVE  RequestInv'
<1> DEFINE r == turn[t]
<1>1. Serves(r, menu, free) /\ Typed
  BY DEF RequestInv
<1>2. PICK q \in Turn :
         /\ SameTalk(q, r) /\ SameTools(q, r)
         /\ \/ Refresh(t) /\ Goes(t, q, "written", "current")
            \/ Return(t) /\ Goes(t, q, "current", "sent") /\ q.token = now + TokenTTL
  BY <1>1, EndMoves
<1>3. Serves(q, menu, free)
  BY <1>1, <1>2 DEF Serves, Goes, Same, SameTalk, SameTools
<1>4. UNCHANGED <<engine, menu, free, now, token, requests, overlapped, lost, missed, told>>
  BY DEF Refresh, Return, Within, Elsewhere
<1>5. turn' = [turn EXCEPT ![t] = q]
  BY <1>2 DEF Goes
<1>6. CASE Refresh(t)
  <2>2. lapsed' = (lapsed /\ (r.silent \/ r.message = "recap"))
    BY <1>6, Zenon DEF Refresh
  <2>3. lapsed' \in BOOLEAN
    BY <2>2, Zenon
  <2>4. draft' \in Draft
    <3>1. draft' = [draft EXCEPT !.expires = now + Window] /\ now + Window \in 0 .. MaxClock + Window
      BY <1>1, <1>6, IntakeAssumption DEF Refresh, Until, Typed
    <3> QED
      BY <1>1, <3>1 DEF Typed, Draft
  <2> QED
    BY <1>1, <1>3, <1>4, <1>5, <2>3, <2>4, OneTurn DEF Typed
<1>7. CASE Return(t)
  <2>1. UNCHANGED <<draft, lapsed>>
    BY <1>7 DEF Return
  <2> QED
    BY <1>1, <1>3, <1>4, <1>5, <2>1, OneTurn DEF RequestInv, Typed
<1> QED
  BY <1>6, <1>7

LEMMA IdlesKeep ==
    ASSUME RequestInv, NEW t \in Turns, Deliver(t) \/ Die(t)
    PROVE  RequestInv'
<1>1. turn' = [turn EXCEPT ![t] = Idle]
  BY DEF Deliver, Die, Set
<1>2. UNCHANGED <<engine, menu, free, now, draft, requests, overlapped, told>>
  BY DEF Deliver, Die, Within, Elsewhere
<1>6. lapsed' \in BOOLEAN /\ missed' \in BOOLEAN
  <2>1. CASE Deliver(t)
    <3>1. /\ lapsed' = (lapsed /\ (turn[t].message = "recap" => Expired(draft.expires)))
          /\ missed' = (missed /\ ~(turn[t].message = "recap"))
      BY <2>1, Zenon DEF Deliver
    <3> QED
      BY <3>1, Zenon
  <2>2. CASE Die(t)
    <3>1. /\ lapsed' = lapsed
          /\ missed' = (missed \/ (turn[t].message = "recap" /\ turn[t].stage \in {"current", "sent"}))
      BY <2>2, Zenon DEF Die
    <3>2. lapsed \in BOOLEAN
      BY DEF RequestInv, Typed
    <3> QED
      BY <3>1, <3>2, Zenon
  <2> QED
    BY <2>1, <2>2
<1>3. token' \in {token, turn[t].token} /\ lost' \in {lost, TRUE}
  BY DEF Deliver, Die, Within
<1>4. token' \in 0 .. MaxClock + TokenTTL
  BY <1>3 DEF RequestInv, Typed, Turn
<1>5. lost' \in BOOLEAN
  BY <1>3 DEF RequestInv, Typed
<1> QED
  BY <1>1, <1>2, <1>4, <1>5, <1>6, IdleServes, OneTurn DEF RequestInv, Typed

\* The menu or the tables change: every request in progress notices.
LEMMA NoticeKeeps ==
    ASSUME RequestInv, NEW m \in SUBSET Dishes, NEW f \in SUBSET Tables,
           menu' = m, free' = f, Notice(m, f),
           UNCHANGED <<engine, draft, token, now, requests, lapsed, missed, told, overlapped, lost>>
    PROVE  RequestInv'
<1>1. ASSUME NEW t \in Turns
      PROVE  turn'[t] \in Turn /\ Serves(turn'[t], m, f)
  <2> DEFINE r == turn[t]
             more == r.onMenu \cup m
             free2 == r.onFree \cup f
             q == [r EXCEPT !.onMenu = more, !.onFree = free2]
  <2>1. r \in Turn /\ Serves(r, menu, free)
    BY DEF RequestInv, Typed
  <2>2. turn'[t] = IF r.stage # "idle" THEN q ELSE r
    BY DEF Notice, Busy
  <2>3. more \in SUBSET Dishes /\ free2 \in SUBSET Tables
    BY <2>1 DEF Turn
  <2>4. r.onMenu \subseteq more /\ m \subseteq more /\ r.onFree \subseteq free2 /\ f \subseteq free2
    OBVIOUS
  <2> HIDE DEF r, more, free2
  <2>5. q \in Turn
    BY <2>1, <2>3 DEF Turn
  <2>6. /\ q.stage = r.stage /\ q.rows = r.rows /\ q.message = r.message /\ q.expires = r.expires
        /\ (q.silent <=> r.silent) /\ q.calls = r.calls /\ q.after = r.after
        /\ q.onMenu = more /\ q.onFree = free2
    BY <2>1, <2>3 DEF Turn
  <2> HIDE DEF q
  <2>7. Serves(q, m, f)
    BY <2>1, <2>4, <2>6 DEF Serves
  <2>8. r.stage = "idle" => Serves(r, m, f)
    BY <2>1 DEF Serves
  <2> QED
    BY <2>1, <2>2, <2>5, <2>7, <2>8
<1>2. turn' \in [Turns -> Turn]
  BY <1>1 DEF Notice
<1>3. Typed'
  BY <1>2 DEF RequestInv, Typed
<1> QED
  BY <1>1, <1>3 DEF RequestInv

LEMMA WorldKeeps ==
    ASSUME RequestInv,
           Tick \/ (\E d \in Dishes : ToggleAvailable(d)) \/ \E b \in Tables : ToggleTable(b)
    PROVE  RequestInv'
<1>1. ASSUME NEW d \in Dishes, ToggleAvailable(d) PROVE RequestInv'
  <2>1. menu' \in SUBSET Dishes /\ free' = free /\ free \in SUBSET Tables
    BY <1>1 DEF ToggleAvailable, RequestInv, Typed
  <2>2. Notice(menu', free)
        /\ UNCHANGED <<engine, draft, token, now, requests, lapsed, missed, told, overlapped, lost>>
    BY <1>1 DEF ToggleAvailable
  <2> QED
    BY <2>1, <2>2, NoticeKeeps
<1>2. ASSUME NEW b \in Tables, ToggleTable(b) PROVE RequestInv'
  <2>1. free' \in SUBSET Tables /\ menu' = menu /\ menu \in SUBSET Dishes
    BY <1>2 DEF ToggleTable, RequestInv, Typed
  <2>2. Notice(menu, free')
        /\ UNCHANGED <<engine, draft, token, now, requests, lapsed, missed, told, overlapped, lost>>
    BY <1>2 DEF ToggleTable
  <2> QED
    BY <2>1, <2>2, NoticeKeeps
<1>3. CASE Tick
  <2>1. /\ now' = now + 1 /\ now' \in 0 .. MaxClock /\ now \in Nat
        /\ UNCHANGED <<engine, menu, free, draft, turn, token, requests, missed, told, overlapped, lost>>
    BY <1>3, IntakeAssumption DEF Tick, Elsewhere, RequestInv, Typed
  <2>2. lapsed' = (lapsed \/ draft.expires = now)
    BY <1>3, Zenon DEF Tick
  <2>3. lapsed' \in BOOLEAN
    BY <2>2, Zenon
  <2>6. Typed'
    BY <2>1, <2>3 DEF RequestInv, Typed
  <2> QED
    BY <2>1, <2>6 DEF RequestInv
<1> QED
  BY <1>1, <1>2, <1>3

LEMMA RequestStep == RequestInv /\ [IntakeNext]_intakeVars => RequestInv'
<1> SUFFICES ASSUME RequestInv, [IntakeNext]_intakeVars PROVE RequestInv'
  OBVIOUS
<1>1. ASSUME NEW t \in Turns, Request(t) \/ ProcessTurn(t) \/ EngineFails(t) \/ Die(t)
      PROVE  RequestInv'
  BY <1>1, RequestKeeps, TalkKeeps, ThinkKeeps, AskToolKeeps, ToolsKeep, AnswersKeep, EndKeeps,
     IdlesKeep DEF ProcessTurn
<1>2. CASE UNCHANGED intakeVars
  BY <1>2 DEF intakeVars, RequestInv, Typed
<1> QED
  BY <1>1, <1>2, WorldKeeps DEF IntakeNext

LEMMA RequestInit == IntakeInit => RequestInv
<1> SUFFICES ASSUME IntakeInit PROVE RequestInv
  OBVIOUS
<1>1. draft \in Draft
  <2>1. PICK dishes \in SUBSET Dishes, known \in BOOLEAN :
          draft = [lines |-> [l \in {0} \X dishes |-> {}], table |-> NONE, party |-> known,
                   expires |-> Window]
    BY DEF IntakeInit
  <2> DEFINE lines == [l \in {0} \X dishes |-> {}]
  <2>2. {0} \X dishes \in SUBSET LineIds
    BY IntakeAssumption DEF LineIds
  <2>3. lines \in [{0} \X dishes -> SUBSET Allergens]
    OBVIOUS
  <2>4. lines \in Lines
    BY <2>2, <2>3, LinesAre
  <2> HIDE DEF lines
  <2> QED
    BY <2>1, <2>4, IntakeAssumption DEF Draft, lines
<1>2. turn \in [Turns -> Turn] /\ \A t \in Turns : Serves(turn[t], menu, free)
  BY IdleServes DEF IntakeInit
<1>3. /\ engine \in {"dev", "claude"} /\ menu \in SUBSET Dishes /\ free \in SUBSET Tables
      /\ lapsed = FALSE /\ missed = FALSE /\ overlapped = FALSE /\ lost = FALSE /\ told = {}
      /\ token = TokenTTL /\ now = 0 /\ requests = 0
  BY DEF IntakeInit
<1>4. /\ TokenTTL \in 0 .. MaxClock + TokenTTL /\ 0 \in 0 .. MaxClock /\ 0 \in 0 .. MaxRequests
  BY IntakeAssumption
<1>5. Typed
  BY <1>1, <1>2, <1>3, <1>4 DEF Typed
<1> QED
  BY <1>2, <1>3, <1>5 DEF RequestInv

THEOREM RequestsServe == IntakeSpec => []RequestInv
BY RequestInit, RequestStep, PTL DEF IntakeSpec

\* Every answer on its way is the one row that follows what the guest said, for any number
\* of requests at the same time.
THEOREM TranscriptsAreWhole == IntakeSpec => []IntakeInv
<1>1. RequestInv => IntakeInv
  <2> SUFFICES ASSUME RequestInv PROVE IntakeInv
    OBVIOUS
  <2>1. /\ DOMAIN draft.lines \subseteq LineIds
        /\ \A l \in DOMAIN draft.lines : draft.lines[l] \in SUBSET Allergens
    BY LinesTyped DEF RequestInv, Typed, Draft
  <2>2. draft.table \in Tables \cup {NONE} /\ draft.expires \in 0 .. MaxClock + Window
    BY DEF RequestInv, Typed, Draft
  <2> QED
    BY <2>1, <2>2 DEF RequestInv, Typed, Serves, IntakeInv
<1> QED
  BY <1>1, RequestsServe, PTL

\* Only a tool changes the lines or the table.
LEMMA OnlyToolsWrite ==
    ASSUME RequestInv, [IntakeNext]_intakeVars, ~\E t \in Turns : ExecuteTool(t)
    PROVE  draft'.lines = draft.lines /\ draft'.table = draft.table
<1>1. ASSUME NEW t \in Turns, Request(t) \/ ProcessTurn(t) \/ EngineFails(t) \/ Die(t)
      PROVE  draft' = draft \/ Refresh(t)
  BY <1>1 DEF Request, ProcessTurn, Misheard, Heard, Recap, Think, AskTool, Reply,
     RespondWithSystemTurn, Return, Deliver, EngineFails, Die
<1>2. ASSUME \/ \E d \in Dishes : ToggleAvailable(d)
             \/ \E b \in Tables : ToggleTable(b)
             \/ Tick \/ UNCHANGED intakeVars
      PROVE  draft' = draft
  BY <1>2 DEF ToggleAvailable, ToggleTable, Tick, intakeVars
<1>3. ASSUME NEW t \in Turns, Refresh(t)
      PROVE  draft'.lines = draft.lines /\ draft'.table = draft.table
  BY <1>3 DEF Refresh, RequestInv, Typed, Draft
<1> QED
  BY <1>1, <1>2, <1>3 DEF IntakeNext

\* A dish or table comes into the draft only if it could be had while the request that
\* brings it was in progress, whatever the engine believes.
THEOREM OnlyLiveChoices == IntakeSpec => OnlyWhatCouldBeHad
<1>1. ASSUME RequestInv, [IntakeNext]_intakeVars
      PROVE  /\ \A l \in DOMAIN draft'.lines \ DOMAIN draft.lines :
                   \E t \in Busy : turn[t].n = l[1] /\ l[2] \in turn[t].onMenu
             /\ draft'.table # draft.table => \E t \in Busy : draft'.table \in turn[t].onFree
  <2>1. CASE ~\E t \in Turns : ExecuteTool(t)
    BY <1>1, <2>1, OnlyToolsWrite
  <2>2. ASSUME NEW t \in Turns, ExecuteTool(t)
        PROVE  /\ \A l \in DOMAIN draft'.lines \ DOMAIN draft.lines :
                     turn[t].n = l[1] /\ l[2] \in turn[t].onMenu
               /\ draft'.table # draft.table => draft'.table \in turn[t].onFree
               /\ t \in Busy
    <3>1. PICK c \in Calls : \E more \in SUBSET Calls : Done(t, c, more) /\ ToolDoes(turn[t], c, more)
      BY <1>1, <2>2, ToolSteps DEF RequestInv
    <3>2. PICK more \in SUBSET Calls : Done(t, c, more) /\ ToolDoes(turn[t], c, more)
      BY <3>1
    <3>3. Serves(turn[t], menu, free) /\ draft.lines \in Lines
          /\ turn[t].n \in 0 .. MaxRequests
      BY <1>1 DEF RequestInv, Typed, Draft, Turn
    <3>4. t \in Busy /\ c \in turn[t].calls
      BY <3>2 DEF ToolDoes, Busy
    <3>5. draft'.table # draft.table => draft'.table \in turn[t].onFree
      BY <3>2, <3>3, <3>4 DEF ToolDoes, Serves
    <3>6. CASE c.op = "create"
      <4>1. c.on \in turn[t].onMenu /\ draft'.lines = Ordered(draft.lines, <<turn[t].n, c.on>>)
        BY <3>2, <3>3, <3>4, <3>6 DEF ToolDoes, Serves
      <4>2. <<turn[t].n, c.on>> \in LineIds
        BY <3>3, <3>6 DEF Calls, LineIds
      <4>3. DOMAIN draft'.lines = DOMAIN draft.lines \cup {<<turn[t].n, c.on>>}
        BY <3>3, <4>1, <4>2, OrderedLines
      <4> QED
        BY <3>4, <3>5, <4>1, <4>3
    <3>7. CASE c.op # "create"
      <4>1. DOMAIN draft'.lines \subseteq DOMAIN draft.lines
        BY <3>2, <3>7 DEF ToolDoes
      <4> QED
        BY <3>4, <3>5, <4>1
    <3> QED
      BY <3>6, <3>7
  <2> QED
    BY <2>1, <2>2
<1> QED
  BY <1>1, RequestsServe, PTL DEF IntakeSpec, OnlyWhatCouldBeHad


-----------------------------------------------------------------------------
(* One request at a time                                                    *)

Alone == ~overlapped => \A s, t \in Busy : s = t

\* A request in progress goes on or ends.
LEMMA BusyTurn ==
    ASSUME NEW t \in Turns, turn[t].stage # "idle", NEW q, turn' = [turn EXCEPT ![t] = q],
           turn \in [Turns -> Turn]
    PROVE  Busy' \subseteq Busy
BY DEF Busy

LEMMA BusyStep ==
    ASSUME RequestInv, [IntakeNext]_intakeVars
    PROVE  \/ Busy' \subseteq Busy /\ UNCHANGED overlapped
           \/ \E t \in Turns : Request(t)
<1>1. ASSUME NEW t \in Turns, ProcessTurn(t) \/ EngineFails(t) \/ Die(t)
      PROVE  Busy' \subseteq Busy /\ UNCHANGED overlapped
  <2>0. Typed /\ turn \in [Turns -> Turn]
    BY DEF RequestInv, Typed
  <2>1. UNCHANGED overlapped
    BY <1>1 DEF ProcessTurn, ExecuteTool, ListAvailableMenuItems, GetMenuItemDetails, AddOrderItem,
       CreateLine, UpdateOrderItem, RemoveOrderItem, ListOpenTables, ProposeTable, SetProposal,
       SetPartyDetails, Tools, Misheard, Heard, Recap, Think, AskTool, Reply,
       RespondWithSystemTurn, Refresh, Return, Deliver, EngineFails, Die, Within
  <2>2. \E q : turn[t].stage # "idle" /\ turn' = [turn EXCEPT ![t] = q]
    <3>1. CASE ExecuteTool(t)
      <4>1. PICK c \in Calls : \E more \in SUBSET Calls : Done(t, c, more) /\ ToolDoes(turn[t], c, more)
        BY <2>0, <3>1, ToolSteps
      <4> QED
        BY <4>1 DEF Done, Set, ToolDoes
    <3>2. CASE ~ExecuteTool(t)
      BY <1>1, <3>2 DEF ProcessTurn, Misheard, Heard, Recap, Think, AskTool, Reply,
         RespondWithSystemTurn, Refresh, Return, Deliver, EngineFails, Die, Set, Respond, To,
         Start, Busy
    <3> QED
      BY <3>1, <3>2
  <2> QED
    BY <2>0, <2>1, <2>2, BusyTurn
<1>2. ASSUME NEW m, NEW f, Notice(m, f) PROVE Busy' \subseteq Busy
  <2>1. ASSUME NEW t \in Turns, t \notin Busy PROVE t \notin Busy'
    BY <1>2, <2>1 DEF Notice, Busy
  <2> QED
    BY <2>1 DEF Busy
<1>3. ASSUME \/ \E d \in Dishes : ToggleAvailable(d)
             \/ \E b \in Tables : ToggleTable(b)
             \/ Tick \/ UNCHANGED intakeVars
      PROVE  Busy' \subseteq Busy /\ UNCHANGED overlapped
  BY <1>2, <1>3 DEF ToggleAvailable, ToggleTable, Tick, intakeVars, Busy
<1> QED
  BY <1>1, <1>3 DEF IntakeNext

LEMMA AloneStep == RequestInv /\ Alone /\ [IntakeNext]_intakeVars => Alone'
<1> SUFFICES ASSUME RequestInv, Alone, [IntakeNext]_intakeVars PROVE Alone'
  OBVIOUS
<1>1. ASSUME NEW t \in Turns, Request(t) PROVE Alone'
  <2>1. overlapped' = (overlapped \/ Busy # {})
    BY <1>1, Zenon DEF Request
  <2>2. \A s \in Turns : s # t => turn'[s] = turn[s]
    BY <1>1 DEF Request, Set, RequestInv, Typed
  <2>3. Busy' \subseteq Busy \cup {t}
    BY <2>2 DEF Busy
  <2> QED
    BY <2>1, <2>3 DEF Alone
<1>2. ASSUME Busy' \subseteq Busy, UNCHANGED overlapped PROVE Alone'
  BY <1>2 DEF Alone
<1> QED
  BY <1>1, <1>2, BusyStep

\* What precedes the refresh of the window.
LEMMA EarlyMoves ==
    ASSUME Typed, NEW t \in Turns,
           \/ Misheard(t) \/ Heard(t) \/ Recap(t) \/ Think(t) \/ AskTool(t) \/ ExecuteTool(t)
           \/ Reply(t) \/ RespondWithSystemTurn(t) \/ EngineFails(t)
    PROVE  /\ \E q \in Turn : turn' = [turn EXCEPT ![t] = q] /\ q.stage # "sent"
           /\ turn[t].stage \notin {"idle", "current", "sent"}
           /\ draft'.expires = draft.expires
           /\ UNCHANGED <<token, lost, now, overlapped>>
<1>1. CASE Misheard(t) \/ Heard(t) \/ Recap(t)
  BY <1>1, TalkMoves DEF Goes, Misheard, Heard, Recap, Within
<1>2. CASE Think(t)
  BY <1>2, ThinkMoves DEF Goes, Think, Within
<1>3. CASE AskTool(t)
  BY <1>3, AskToolMoves DEF Goes, AskTool, Within
<1>4. CASE ExecuteTool(t)
  <2>1. PICK c \in Calls : \E more \in SUBSET Calls : Done(t, c, more) /\ ToolDoes(turn[t], c, more)
    BY <1>4, ToolSteps
  <2>2. PICK more \in SUBSET Calls : Done(t, c, more) /\ ToolDoes(turn[t], c, more)
    BY <2>1
  <2> QED
    BY <2>2, DoneFields DEF ToolDoes, Continues, Tools, Within
<1>5. CASE Reply(t) \/ RespondWithSystemTurn(t)
  BY <1>5, AnswerMoves DEF Goes, Reply, RespondWithSystemTurn, Within
<1>6. CASE EngineFails(t)
  BY <1>6, FailureMoves DEF Goes, EngineFails, Within
<1> QED
  BY <1>1, <1>2, <1>3, <1>4, <1>5, <1>6

-----------------------------------------------------------------------------
(* A draft that expired                                                     *)

\* The window has been refreshed, and the recap that says so is on its way.
Recapping(r) == r.message = "recap" /\ r.stage \in {"current", "sent"}

\* What a request knows that came while the guest had not heard of a draft's expiry: it
\* has read it, so that it does not get to the engine, and refreshes nothing but with a
\* recap.
Knows(r, clock) ==
    /\ r.stage \in {"read", "heard"} /\ r.silent => r.expires < clock
    /\ r.stage = "engine" => ~r.silent
    /\ r.stage = "written" /\ r.silent => r.message = "recap"

\* A draft whose expiry the guest has not heard of is expired, or a recap is on its way.
LapseInv ==
    ~overlapped /\ ~missed =>
       /\ lapsed => draft.expires < now \/ \E t \in Turns : Recapping(turn[t])
       /\ \A t \in Turns : Knows(turn[t], now)

\* A step of one request that tells the guest nothing, and loses nothing that would.
LEMMA OneKnows ==
    ASSUME RequestInv, LapseInv, NEW t \in Turns, NEW q \in Turn, turn' = [turn EXCEPT ![t] = q],
           UNCHANGED <<now, overlapped, missed, lapsed>>, draft'.expires = draft.expires,
           ~overlapped /\ ~missed =>
              Knows(q, now) /\ (Recapping(turn[t]) => Recapping(q))
    PROVE  LapseInv'
<1> SUFFICES ASSUME ~overlapped, ~missed
             PROVE  /\ lapsed => draft.expires < now \/ \E s \in Turns : Recapping(turn'[s])
                    /\ \A s \in Turns : Knows(turn'[s], now)
  BY DEF LapseInv, Recapping, Knows
<1>1. turn'[t] = q /\ \A s \in Turns : s # t => turn'[s] = turn[s]
  BY DEF RequestInv, Typed
<1>2. \A s \in Turns : Knows(turn'[s], now)
  BY <1>1 DEF LapseInv
<1>3. \A s \in Turns : Recapping(turn[s]) => Recapping(turn'[s])
  BY <1>1
<1> QED
  BY <1>2, <1>3 DEF LapseInv

\* Up to its answer a request refreshes nothing, and the engine gets none that knows.
LEMMA EarlyKnow ==
    ASSUME RequestInv, LapseInv, NEW t \in Turns,
           \/ Misheard(t) \/ Heard(t) \/ Recap(t) \/ Think(t) \/ AskTool(t) \/ ExecuteTool(t)
           \/ Reply(t) \/ RespondWithSystemTurn(t) \/ EngineFails(t)
    PROVE  LapseInv'
<1> DEFINE r == turn[t]
<1>0. Typed /\ r \in Turn /\ r.expires \in Nat /\ now \in Nat
  <2>1. Typed /\ r \in Turn
    BY DEF RequestInv, Typed
  <2> HIDE DEF r
  <2>2. r.expires \in 0 .. MaxClock + Window /\ now \in 0 .. MaxClock
    BY <2>1 DEF Typed, Turn
  <2> QED
    BY <2>1, <2>2, IntakeAssumption
<1>1. UNCHANGED <<now, overlapped, missed, lapsed>>
  BY DEF Misheard, Heard, Recap, Think, AskTool, ExecuteTool, ListAvailableMenuItems,
     GetMenuItemDetails, AddOrderItem, CreateLine, UpdateOrderItem, RemoveOrderItem,
     ListOpenTables, ProposeTable, SetProposal, SetPartyDetails, Tools, Reply,
     RespondWithSystemTurn, EngineFails, Within
<1>2. draft'.expires = draft.expires /\ ~Recapping(r)
  BY <1>0, EarlyMoves DEF Recapping
<1>3. ASSUME NEW q \in Turn, turn' = [turn EXCEPT ![t] = q],
             ~overlapped /\ ~missed => Knows(q, now)
      PROVE  LapseInv'
  BY <1>1, <1>2, <1>3, OneKnows
<1>4. ~overlapped /\ ~missed => Knows(r, now)
  BY DEF LapseInv
<1>5. CASE Misheard(t) \/ Heard(t) \/ Recap(t)
  BY <1>0, <1>3, <1>4, <1>5, TalkMoves DEF Goes, Same, Knows
<1>6. CASE Think(t)
  <2>1. ~(r.expires < now)
    BY <1>6 DEF Think, Expired
  <2> QED
    BY <1>0, <1>3, <1>4, <1>6, <2>1, ThinkMoves DEF Goes, Same, SameTalk, Knows
<1>7. CASE AskTool(t)
  BY <1>0, <1>3, <1>4, <1>7, AskToolMoves DEF Goes, Same, SameTalk, Knows
<1>8. CASE ExecuteTool(t)
  <2>1. PICK c \in Calls : \E more \in SUBSET Calls : Done(t, c, more) /\ ToolDoes(r, c, more)
    BY <1>0, <1>8, ToolSteps
  <2>2. PICK more \in SUBSET Calls : Done(t, c, more) /\ ToolDoes(r, c, more)
    BY <2>1
  <2>3. PICK q \in Turn : turn' = [turn EXCEPT ![t] = q] /\ Continues(q, r)
    BY <1>0, <2>2, DoneFields
  <2> QED
    BY <1>3, <1>4, <2>3 DEF Continues, Same, SameTalk, Knows
<1>9. CASE Reply(t) \/ RespondWithSystemTurn(t)
  BY <1>0, <1>3, <1>4, <1>9, AnswerMoves DEF Goes, Same, Knows
<1>10. CASE EngineFails(t)
  BY <1>0, <1>3, <1>4, <1>10, FailureMoves DEF Goes, Same, Knows
<1> QED
  BY <1>5, <1>6, <1>7, <1>8, <1>9, <1>10

LEMMA LapseStep == RequestInv /\ Alone /\ LapseInv /\ [IntakeNext]_intakeVars => LapseInv'
<1> SUFFICES ASSUME RequestInv, Alone, LapseInv, [IntakeNext]_intakeVars PROVE LapseInv'
  OBVIOUS
<1>0. Typed /\ turn \in [Turns -> Turn] /\ now \in Nat /\ draft.expires \in Nat
  BY IntakeAssumption DEF RequestInv, Typed, Draft
<1>1. ASSUME NEW t \in Turns, Request(t) PROVE LapseInv'
  <2>1. PICK q \in Turn :
          /\ turn' = [turn EXCEPT ![t] = q] /\ q.stage = "read" /\ q.expires = draft.expires
          /\ (q.silent <=> lapsed)
    BY <1>0, <1>1, RequestMoves
  <2>2. UNCHANGED <<now, missed, lapsed, draft>>
    BY <1>1 DEF Request
  <2>3. overlapped' = (overlapped \/ Busy # {})
    BY <1>1, Zenon DEF Request
  <2> SUFFICES ASSUME ~overlapped', ~missed'
               PROVE  /\ lapsed' => draft'.expires < now'
                      /\ \A s \in Turns : Knows(turn'[s], now')
    BY DEF LapseInv, Knows
  <2>4. ~overlapped /\ ~missed /\ Busy = {}
    BY <2>2, <2>3
  <2>5. lapsed => draft.expires < now
    BY <2>4 DEF LapseInv, Recapping, Busy
  <2>6. ASSUME NEW s \in Turns PROVE Knows(turn'[s], now)
    <3>1. CASE s = t
      BY <1>0, <2>1, <2>5, <3>1 DEF Knows
    <3>2. CASE s # t
      BY <1>0, <2>1, <2>4, <3>2 DEF LapseInv
    <3> QED
      BY <3>1, <3>2
  <2> QED
    BY <2>2, <2>5, <2>6
<1>2. ASSUME NEW t \in Turns, Refresh(t) PROVE LapseInv'
  <2> DEFINE r == turn[t]
  <2>1. PICK q \in Turn : Goes(t, q, "written", "current") /\ SameTalk(q, r)
    BY <1>0, <1>2, EndMoves DEF Refresh, Return
  <2>2. lapsed' = (lapsed /\ (r.silent \/ r.message = "recap"))
    BY <1>2, Zenon DEF Refresh
  <2>3. UNCHANGED <<now, overlapped, missed>>
    BY <1>2 DEF Refresh, Within
  <2> SUFFICES ASSUME ~overlapped, ~missed
               PROVE  /\ lapsed' => \E s \in Turns : Recapping(turn'[s])
                      /\ \A s \in Turns : Knows(turn'[s], now)
    BY <2>3 DEF LapseInv, Recapping, Knows
  <2>4. Knows(r, now) /\ r.stage = "written"
    BY <2>1 DEF LapseInv, Goes
  <2>5. lapsed' => r.message = "recap"
    <3>1. lapsed' => r.silent \/ r.message = "recap"
      BY <2>2, Zenon
    <3> QED
      BY <2>4, <3>1 DEF Knows
  <2>6. turn'[t] = q /\ \A s \in Turns : s # t => turn'[s] = turn[s]
    BY <1>0, <2>1 DEF Goes
  <2>7. lapsed' => Recapping(turn'[t])
    BY <2>1, <2>5, <2>6 DEF Recapping, Goes, SameTalk
  <2>8. Knows(q, now)
    BY <2>1 DEF Knows, Goes
  <2> QED
    BY <2>6, <2>7, <2>8 DEF LapseInv
<1>3. ASSUME NEW t \in Turns, Return(t) PROVE LapseInv'
  <2>1. PICK q \in Turn : Goes(t, q, "current", "sent") /\ SameTalk(q, turn[t])
    BY <1>0, <1>3, EndMoves DEF Refresh, Return
  <2>2. UNCHANGED <<now, overlapped, missed, lapsed, draft>>
    BY <1>3 DEF Return, Within
  <2>3. Knows(q, now) /\ (Recapping(turn[t]) => Recapping(q))
    BY <2>1 DEF Knows, Recapping, Goes, SameTalk
  <2> QED
    BY <2>1, <2>2, <2>3, OneKnows DEF Goes
<1>4. ASSUME NEW t \in Turns, Deliver(t) PROVE LapseInv'
  <2> DEFINE recap == turn[t].message = "recap"
  <2>1. /\ turn[t].stage = "sent" /\ turn' = [turn EXCEPT ![t] = Idle]
        /\ UNCHANGED <<draft, now, overlapped>>
    BY <1>4 DEF Deliver, Set
  <2>2. /\ lapsed' = (lapsed /\ (recap => Expired(draft.expires)))
        /\ missed' = (missed /\ ~recap)
    BY <1>4, Zenon DEF Deliver
  <2> SUFFICES ASSUME ~overlapped, ~missed'
               PROVE  /\ lapsed' => draft.expires < now
                      /\ \A s \in Turns : Knows(turn'[s], now)
    BY <2>1 DEF LapseInv, Knows
  <2>3. \A s \in Turns : turn'[s].stage = "idle" /\ (s # t => turn[s].stage = "idle")
    <3>1. Idle.stage = "idle"
      BY DEF Idle
    <3>2. t \in Busy /\ \A s \in Busy : s = t
      BY <2>1 DEF Alone, Busy
    <3> QED
      BY <1>0, <2>1, <3>1, <3>2 DEF Busy
  <2>4. (lapsed' => lapsed /\ (recap => Expired(draft.expires))) /\ (recap \/ ~missed)
    BY <2>2, Zenon
  <2>5. lapsed' => draft.expires < now
    <3>1. CASE recap
      BY <2>4, <3>1 DEF Expired
    <3>2. CASE ~recap
      <4>1. \A s \in Turns : ~Recapping(turn[s])
        BY <2>3, <3>2 DEF Recapping
      <4> QED
        BY <2>4, <3>2, <4>1 DEF LapseInv
    <3> QED
      BY <3>1, <3>2
  <2>6. \A s \in Turns : Knows(turn'[s], now)
    BY <2>3 DEF Knows
  <2> QED
    BY <2>5, <2>6
<1>5. ASSUME NEW t \in Turns, Die(t) PROVE LapseInv'
  <2>1. turn' = [turn EXCEPT ![t] = Idle] /\ UNCHANGED <<draft, now, overlapped, lapsed>>
    BY <1>5 DEF Die, Set, Within
  <2>2. missed' = (missed \/ Recapping(turn[t]))
    BY <1>5, Zenon DEF Die, Recapping
  <2>3. Idle \in Turn /\ Knows(Idle, now)
    BY IdleTyped DEF Knows
  <2>4. CASE ~missed /\ ~Recapping(turn[t])
    <3>1. missed' = missed
      <4>1. missed \in BOOLEAN
        BY <1>0 DEF Typed
      <4> QED
        BY <2>2, <2>4, <4>1
    <3> QED
      BY <2>1, <2>3, <2>4, <3>1, OneKnows
  <2>5. CASE missed \/ Recapping(turn[t])
    <3>1. missed'
      BY <2>2, <2>5, Zenon
    <3> QED
      BY <3>1 DEF LapseInv
  <2> QED
    BY <2>4, <2>5
<1>6. ASSUME NEW m, NEW f, Notice(m, f), UNCHANGED <<draft, now, lapsed, missed, overlapped>>
      PROVE  LapseInv'
  <2>1. ASSUME NEW s \in Turns
        PROVE  /\ turn'[s].stage = turn[s].stage /\ turn'[s].message = turn[s].message
               /\ turn'[s].expires = turn[s].expires /\ (turn'[s].silent <=> turn[s].silent)
    BY <1>0, <1>6 DEF Notice, Turn
  <2>2. \A s \in Turns : /\ Recapping(turn[s]) => Recapping(turn'[s])
                         /\ Knows(turn[s], now) => Knows(turn'[s], now)
    BY <2>1 DEF Recapping, Knows
  <2> QED
    BY <1>6, <2>2 DEF LapseInv, Recapping, Knows
<1>7. ASSUME (\E d \in Dishes : ToggleAvailable(d)) \/ \E b \in Tables : ToggleTable(b)
      PROVE  LapseInv'
  BY <1>6, <1>7 DEF ToggleAvailable, ToggleTable
<1>8. CASE Tick
  <2>1. now' = now + 1 /\ UNCHANGED <<draft, turn, missed, overlapped>>
    BY <1>8 DEF Tick
  <2>2. lapsed' => lapsed \/ draft.expires = now
    BY <1>8, Zenon DEF Tick
  <2>3. \A s \in Turns : turn[s].expires \in Nat
    BY <1>0, IntakeAssumption DEF Turn
  <2>4. \A s \in Turns : Knows(turn[s], now) => Knows(turn[s], now + 1)
    BY <1>0, <2>3 DEF Knows
  <2>5. draft.expires < now \/ draft.expires = now => draft.expires < now + 1
    BY <1>0
  <2> QED
    BY <2>1, <2>2, <2>4, <2>5 DEF LapseInv, Recapping, Knows
<1>9. CASE UNCHANGED intakeVars
  BY <1>9 DEF intakeVars, LapseInv, Recapping, Knows
<1> QED
  BY <1>1, <1>2, <1>3, <1>4, <1>5, <1>7, <1>8, <1>9, EarlyKnow DEF IntakeNext, ProcessTurn

\* A draft that expired reaches the engine only once a recap has reached the guest, while
\* requests come one by one and no recap is lost that had refreshed the window.
THEOREM ExpiryIsNeverSilent == IntakeSpec => []ExpiredDraftsAreRecapped
<1>1. IntakeInit => Alone /\ LapseInv
  BY DEF IntakeInit, Alone, LapseInv, Knows, Busy, Idle
<1>2. LapseInv => ExpiredDraftsAreRecapped
  BY DEF LapseInv, Knows, ExpiredDraftsAreRecapped
<1> QED
  BY <1>1, <1>2, AloneStep, LapseStep, RequestsServe, PTL DEF IntakeSpec

-----------------------------------------------------------------------------
(* The token and the window                                                 *)

\* The slack a token leaves the guest once the draft has expired.
Good(k) == k >= draft.expires + (TokenTTL - Window)

\* The token of the page is good until the window is refreshed, and that of the response
\* from when it is signed.
GraceInv ==
    /\ draft.expires <= now + Window
    /\ ~overlapped /\ ~lost =>
          /\ (\A t \in Turns : turn[t].stage \notin {"current", "sent"}) => Good(token)
          /\ \A t \in Turns : turn[t].stage = "sent" => Good(turn[t].token)

\* A step that refreshes, signs and delivers nothing.
LEMMA GraceUntouched ==
    ASSUME Typed, GraceInv, draft'.expires = draft.expires, now' \in {now, now + 1},
           UNCHANGED <<token, lost>>, ~overlapped' => ~overlapped,
           \A s \in Turns :
              /\ turn[s].stage \in {"current", "sent"} =>
                    turn'[s].stage = turn[s].stage /\ turn'[s].token = turn[s].token
              /\ turn'[s].stage = "sent" => turn[s].stage = "sent"
    PROVE  GraceInv'
<1>1. now \in Nat /\ draft.expires \in Nat /\ Window \in Nat
  BY IntakeAssumption DEF Typed, Draft
<1>2. draft'.expires <= now' + Window
  BY <1>1 DEF GraceInv
<1>3. Good(token) => Good(token)'
  BY DEF Good
<1>4. \A s \in Turns : turn[s].stage = "sent" /\ Good(turn[s].token) => Good(turn[s].token)'
  BY DEF Good
<1> QED
  BY <1>2, <1>3, <1>4 DEF GraceInv

LEMMA GraceStep == RequestInv /\ Alone /\ GraceInv /\ [IntakeNext]_intakeVars => GraceInv'
<1> SUFFICES ASSUME RequestInv, Alone, GraceInv, [IntakeNext]_intakeVars PROVE GraceInv'
  OBVIOUS
<1>0. Typed /\ turn \in [Turns -> Turn]
  BY DEF RequestInv, Typed
<1>1. ASSUME NEW t \in Turns, Request(t) PROVE GraceInv'
  <2>1. /\ t \notin Busy /\ draft' = draft /\ UNCHANGED <<now, token, lost>>
        /\ ~overlapped' => ~overlapped
    BY <1>1, NextSlotIsIdle DEF Request
  <2>2. PICK q \in Turn : turn' = [turn EXCEPT ![t] = q] /\ q.stage = "read"
    BY <1>0, <1>1, RequestMoves
  <2> QED
    BY <1>0, <2>1, <2>2, GraceUntouched DEF Busy
<1>2. ASSUME NEW t \in Turns,
             \/ Misheard(t) \/ Heard(t) \/ Recap(t) \/ Think(t) \/ AskTool(t) \/ ExecuteTool(t)
             \/ Reply(t) \/ RespondWithSystemTurn(t) \/ EngineFails(t)
      PROVE  GraceInv'
  <2>1. /\ \E q \in Turn : turn' = [turn EXCEPT ![t] = q] /\ q.stage # "sent"
        /\ turn[t].stage \notin {"idle", "current", "sent"}
        /\ draft'.expires = draft.expires
        /\ UNCHANGED <<token, lost, now, overlapped>>
    BY <1>0, <1>2, EarlyMoves
  <2> QED
    BY <1>0, <2>1, GraceUntouched
<1>3. ASSUME NEW t \in Turns, Refresh(t) PROVE GraceInv'
  <2>1. PICK q \in Turn : Goes(t, q, "written", "current")
    BY <1>0, <1>3, EndMoves DEF Refresh, Return
  <2>2. draft'.expires = now + Window /\ UNCHANGED <<now, overlapped, lost>>
    BY <1>0, <1>3 DEF Refresh, Until, Within, Typed, Draft
  <2>3. now + Window <= now' + Window
    BY <2>2, <1>0, IntakeAssumption DEF Typed
  <2>4. turn'[t].stage = "current"
    BY <1>0, <2>1 DEF Goes
  <2>5. ~overlapped => \A s \in Turns : turn'[s].stage # "sent"
    BY <1>0, <2>1 DEF Goes, Alone, Busy
  <2> QED
    BY <2>2, <2>3, <2>4, <2>5 DEF GraceInv
<1>4. ASSUME NEW t \in Turns, Return(t) PROVE GraceInv'
  <2>1. PICK q \in Turn : Goes(t, q, "current", "sent") /\ q.token = now + TokenTTL
    BY <1>0, <1>4, EndMoves DEF Refresh, Return
  <2>2. UNCHANGED <<draft, now, overlapped, lost>>
    BY <1>4 DEF Return, Within
  <2>3. now \in Nat /\ draft.expires \in Nat /\ Window \in Nat /\ TokenTTL \in Nat
    BY <1>0, IntakeAssumption DEF Typed, Draft
  <2>4. Good(now + TokenTTL)
    BY <2>3 DEF GraceInv, Good
  <2>5. turn'[t].stage = "sent" /\ turn'[t].token = now + TokenTTL
    BY <1>0, <2>1 DEF Goes
  <2>6. ~overlapped => \A s \in Turns : turn'[s].stage = "sent" => s = t
    BY <1>0, <2>1 DEF Goes, Alone, Busy
  <2>7. Good(turn[t].token)'
    BY <2>2, <2>4, <2>5 DEF Good
  <2> QED
    BY <2>2, <2>5, <2>6, <2>7 DEF GraceInv
<1>5. ASSUME NEW t \in Turns, Deliver(t) PROVE GraceInv'
  <2>1. /\ turn[t].stage = "sent" /\ token' = turn[t].token /\ turn' = [turn EXCEPT ![t] = Idle]
        /\ UNCHANGED <<draft, now, overlapped, lost>>
    BY <1>5 DEF Deliver, Set
  <2>2. Idle.stage = "idle"
    BY DEF Idle
  <2>3. ~overlapped => \A s \in Turns : turn'[s].stage # "sent"
    BY <1>0, <2>1, <2>2 DEF Alone, Busy
  <2>4. ~overlapped /\ ~lost => Good(token)'
    BY <2>1 DEF GraceInv, Good
  <2> QED
    BY <2>1, <2>3, <2>4 DEF GraceInv
<1>6. ASSUME NEW t \in Turns, Die(t) PROVE GraceInv'
  BY <1>6 DEF Die, Within, GraceInv
<1>7. ASSUME NEW m, NEW f, Notice(m, f), UNCHANGED <<draft, token, now, overlapped, lost>>
      PROVE  GraceInv'
  <2>1. ASSUME NEW s \in Turns
        PROVE  turn'[s].stage = turn[s].stage /\ turn'[s].token = turn[s].token
    BY <1>0, <1>7 DEF Notice, Turn
  <2> QED
    BY <1>0, <1>7, <2>1, GraceUntouched
<1>8. ASSUME (\E d \in Dishes : ToggleAvailable(d)) \/ \E b \in Tables : ToggleTable(b)
      PROVE  GraceInv'
  BY <1>7, <1>8 DEF ToggleAvailable, ToggleTable
<1>9. CASE Tick \/ UNCHANGED intakeVars
  BY <1>0, <1>9, GraceUntouched DEF Tick, intakeVars
<1> QED
  BY <1>1, <1>2, <1>3, <1>4, <1>5, <1>6, <1>8, <1>9 DEF IntakeNext, ProcessTurn

\* A guest whose answers arrive one by one can come back during the whole grace period.
THEOREM GuestsCanComeBack == IntakeSpec => []GracePeriodHolds
<1>1. IntakeInit => Alone /\ GraceInv
  <2> SUFFICES ASSUME IntakeInit PROVE Alone /\ GraceInv
    OBVIOUS
  <2>1. Busy = {}
    BY DEF IntakeInit, Busy, Idle
  <2>2. draft.expires = Window /\ token = TokenTTL /\ now = 0
    BY DEF IntakeInit
  <2>3. Good(token) /\ draft.expires <= now + Window
    BY <2>2, IntakeAssumption DEF Good
  <2>4. \A t \in Turns : turn[t].stage # "sent"
    BY DEF IntakeInit, Idle
  <2> QED
    BY <2>1, <2>3, <2>4 DEF Alone, GraceInv
<1>2. GraceInv => GracePeriodHolds
  BY DEF GraceInv, GracePeriodHolds, Good, Busy
<1> QED
  BY <1>1, <1>2, AloneStep, GraceStep, RequestsServe, PTL DEF IntakeSpec

-----------------------------------------------------------------------------
(* What the guest was told                                                  *)

\* Request r, with these lines of the draft and all that was said before: what it says and
\* what was said is of lines that were there before it; and until it answers, each line
\* that it will say is flagged is, or is about to be with all that it has.
Tells(r, lines, said) ==
    /\ r.stage \in {"read", "heard"} => \A l \in DOMAIN lines : l[1] < r.n
    /\ \A p \in said \cup r.claims : p[1][1] < r.n
    /\ r.stage = "engine" =>
          /\ r.left = 0
          /\ \A c \in r.calls : c.op = "flag" =>
                /\ c.on \in DOMAIN lines => lines[c.on] \subseteq c.flags
                /\ \A b \in r.calls : b.op = "flag" /\ b.on = c.on => b = c
          /\ \A p \in r.claims : p[1] \in DOMAIN lines =>
                \/ p[2] \in lines[p[1]]
                \/ \E c \in r.calls : c.op = "flag" /\ c.on = p[1] /\ p[2] \in c.flags

\* All that was said of these lines is true, and of lines of requests so far.
Said(said, lines, last) ==
    \A p \in said : p[1][1] <= last /\ (p[1] \in DOMAIN lines => p[2] \in lines[p[1]])

ToldInv ==
    /\ \A l \in DOMAIN draft.lines : l[1] <= requests
    /\ \A t \in Busy : turn[t].n <= requests
    /\ engine = "claude" => told = {} /\ \A t \in Turns : turn[t].claims = {}
    /\ engine = "dev" /\ ~overlapped =>
          /\ Said(told, draft.lines, requests)
          /\ \A t \in Busy : Tells(turn[t], draft.lines, told)

\* A step of a request in progress.
LEMMA OneTells ==
    ASSUME RequestInv, Alone, ToldInv, NEW t \in Busy, NEW q \in Turn,
           turn' = [turn EXCEPT ![t] = q], UNCHANGED <<engine, requests, overlapped>>,
           q.stage = "idle" \/ q.n = turn[t].n,
           \A l \in DOMAIN draft'.lines : l[1] <= requests,
           engine = "claude" => told' = {} /\ q.claims = {},
           engine = "dev" /\ ~overlapped =>
              /\ Said(told', draft'.lines, requests)
              /\ q.stage # "idle" => Tells(q, draft'.lines, told')
    PROVE  ToldInv'
<1>1. t \in Turns /\ turn'[t] = q /\ \A s \in Turns : s # t => turn'[s] = turn[s]
  BY DEF RequestInv, Typed, Busy
<1>2. Busy' \subseteq Busy
  BY <1>1 DEF Busy
<1>3. \A s \in Busy' : turn'[s].n <= requests
  BY <1>1, <1>2 DEF ToldInv, Busy
<1>4. engine = "claude" => \A s \in Turns : turn'[s].claims = {}
  BY <1>1 DEF ToldInv
<1>5. ~overlapped => \A s \in Busy' : s = t /\ turn'[s] = q /\ q.stage # "idle"
  BY <1>1, <1>2 DEF Alone, Busy
<1> QED
  BY <1>3, <1>4, <1>5 DEF ToldInv

\* A step that leaves the lines, what was said and what is claimed.
LEMMA QuietTells ==
    ASSUME RequestInv, Alone, ToldInv, NEW t \in Busy, NEW q \in Turn,
           turn' = [turn EXCEPT ![t] = q],
           UNCHANGED <<engine, requests, overlapped, told>>, draft'.lines = draft.lines,
           q.n = turn[t].n, q.claims = turn[t].claims, q.stage # "engine",
           q.stage \in {"read", "heard"} => turn[t].stage \in {"read", "heard"}
    PROVE  ToldInv'
<1>1. t \in Turns
  BY DEF Busy
<1>2. engine = "dev" /\ ~overlapped => Tells(q, draft'.lines, told')
  BY <1>1 DEF ToldInv, Tells
<1>3. engine = "claude" => told' = {} /\ q.claims = {}
  BY <1>1 DEF ToldInv
<1>4. engine = "dev" /\ ~overlapped => Said(told', draft'.lines, requests)
  BY DEF ToldInv
<1>5. \A l \in DOMAIN draft'.lines : l[1] <= requests
  BY DEF ToldInv
<1> QED
  BY <1>2, <1>3, <1>4, <1>5, OneTells

LEMMA RequestTells ==
    ASSUME RequestInv, Alone, ToldInv, NEW t \in Turns, Request(t)
    PROVE  ToldInv'
<1>1. PICK q \in Turn :
         /\ turn' = [turn EXCEPT ![t] = q] /\ q.stage = "read" /\ q.n = requests + 1
         /\ q.calls = {} /\ q.claims = {}
  BY RequestMoves DEF RequestInv
<1>2. /\ requests' = requests + 1 /\ requests \in Nat
      /\ UNCHANGED <<engine, draft, told>>
  BY DEF Request, Elsewhere, RequestInv, Typed
<1>3. overlapped' = (overlapped \/ Busy # {})
  BY Zenon DEF Request
<1>4. turn'[t] = q /\ \A s \in Turns : s # t => turn'[s] = turn[s]
  BY <1>1 DEF RequestInv, Typed
<1>5. draft.lines \in Lines /\ told \in SUBSET (LineIds \X Allergens)
  BY DEF RequestInv, Typed, Draft
<1>6. /\ \A l \in DOMAIN draft.lines : l[1] \in Nat
      /\ \A p \in told : p[1][1] \in Nat
      /\ \A s \in Turns : turn[s].n \in Nat
  BY <1>5, LinesTyped DEF LineIds, RequestInv, Typed, Turn
<1>7. \A l \in DOMAIN draft.lines : l[1] <= requests /\ l[1] <= requests' /\ l[1] < q.n
  BY <1>1, <1>2, <1>6 DEF ToldInv
<1>8. \A s \in Busy' : turn'[s].n <= requests'
  <2>1. \A s \in Busy' : s = t \/ s \in Busy
    BY <1>4 DEF Busy
  <2>2. \A s \in Busy : s \in Turns /\ turn[s].n <= requests + 1
    BY <1>2, <1>6 DEF ToldInv, Busy
  <2> QED
    BY <1>1, <1>2, <1>4, <2>1, <2>2
<1>9. engine' = "claude" => told' = {} /\ \A s \in Turns : turn'[s].claims = {}
  BY <1>1, <1>2, <1>4 DEF ToldInv
<1>10. ASSUME engine' = "dev", ~overlapped'
       PROVE  /\ Said(told', draft'.lines, requests')
              /\ \A s \in Busy' : Tells(turn'[s], draft'.lines, told')
  <2>1. ~overlapped /\ Busy = {}
    BY <1>3, <1>10
  <2>2. Said(told, draft.lines, requests)
    BY <1>2, <1>10, <2>1 DEF ToldInv
  <2>3. \A p \in told : p[1][1] <= requests' /\ p[1][1] < q.n
    BY <1>1, <1>2, <1>6, <2>2 DEF Said
  <2>4. \A s \in Busy' : turn'[s] = q
    BY <1>4, <2>1 DEF Busy
  <2>5. Tells(q, draft.lines, told)
    BY <1>1, <1>7, <2>3 DEF Tells
  <2> QED
    BY <1>2, <2>2, <2>3, <2>4, <2>5 DEF Said
<1> QED
  BY <1>2, <1>7, <1>8, <1>9, <1>10 DEF ToldInv

\* The plan of an allergy flags what the answer will say, with all that the line has.
LEMMA ThinkTells ==
    ASSUME RequestInv, Alone, ToldInv, NEW t \in Turns, Think(t)
    PROVE  ToldInv'
<1> DEFINE lines == draft.lines
<1>1. PICK q \in Turn : Goes(t, q, "heard", "engine") /\ Sets(q)
  BY ThinkMoves DEF RequestInv
<1>2. t \in Busy /\ q.n = turn[t].n /\ turn' = [turn EXCEPT ![t] = q]
  BY <1>1 DEF Goes, Busy, Same
<1>3. UNCHANGED <<engine, requests, overlapped, told, draft>>
  BY DEF Think, Within, Elsewhere
<1>4. engine = "claude" => told' = {} /\ q.claims = {}
  BY <1>1, <1>3 DEF Sets, ToldInv
<1>5. ASSUME engine = "dev", ~overlapped PROVE Tells(q, lines, told)
  <2>1. Tells(turn[t], lines, told) /\ turn[t].stage = "heard" /\ q.stage = "engine"
    BY <1>1, <1>2, <1>5 DEF ToldInv, Goes
  <2>2. PICK ask \in Asks : \E plan \in DevPlans(ask) :
          /\ Begun(q, plan)
          /\ q.claims = Claims(ask) /\ q.left = 0
    BY <1>1, <1>5 DEF Sets
  <2>3. PICK plan \in DevPlans(ask) :
          /\ Begun(q, plan)
          /\ q.claims = Claims(ask) /\ q.left = 0
    BY <2>2
  <2>4. CASE ask.kind # "allergy"
    <3>1. q.claims = {} /\ \A c \in q.calls : c.op # "flag"
      BY <2>3, <2>4, DevPlansTyped DEF RequestInv, Begun, First
    <3> QED
      BY <1>2, <2>1, <2>3, <3>1 DEF Tells
  <2>5. CASE ask.kind = "allergy"
    <3> DEFINE unflagged == {m \in DOMAIN lines : ask.tag \notin lines[m]}
    <3>1. /\ q.calls = {Flag(l, ask.tag) : l \in unflagged}
          /\ q.claims = (DOMAIN lines) \X {ask.tag}
      BY <2>3, <2>5, DevPlansTyped DEF RequestInv, Begun, First
    <3>2. ASSUME NEW c \in q.calls
          PROVE  c.on \in unflagged /\ c = Flag(c.on, ask.tag) /\ c.flags = lines[c.on] \cup {ask.tag}
      BY <3>1 DEF Flag
    <3>3. ASSUME NEW l \in unflagged
          PROVE  \E c \in q.calls : c.op = "flag" /\ c.on = l /\ ask.tag \in c.flags
      <4>1. Flag(l, ask.tag) \in q.calls
        BY <3>1
      <4> QED
        BY <4>1 DEF Flag
    <3>4. \A p \in q.claims : p[1] \in DOMAIN lines /\ p[2] = ask.tag
      BY <3>1
    <3>5. \A p \in told \cup q.claims : p[1][1] < q.n
      BY <1>2, <2>1, <3>4 DEF Tells
    <3>6. \A p \in q.claims :
             \/ p[2] \in lines[p[1]]
             \/ \E c \in q.calls : c.op = "flag" /\ c.on = p[1] /\ p[2] \in c.flags
      BY <3>3, <3>4
    <3>7. \A c \in q.calls : /\ lines[c.on] \subseteq c.flags
                             /\ \A b \in q.calls : b.on = c.on => b = c
      BY <3>2
    <3> QED
      BY <2>1, <2>3, <3>5, <3>6, <3>7 DEF Tells
  <2> QED
    BY <2>4, <2>5
<1>6. engine = "dev" /\ ~overlapped => Said(told, lines, requests)
  BY DEF ToldInv
<1>7. \A l \in DOMAIN lines : l[1] <= requests
  BY DEF ToldInv
<1> QED
  BY <1>2, <1>3, <1>4, <1>5, <1>6, <1>7, OneTells

\* Only Claude asks for more tools, and DevDialogueEngine's turn never asks.
LEMMA AskToolTells ==
    ASSUME RequestInv, Alone, ToldInv, NEW t \in Turns, AskTool(t)
    PROVE  ToldInv'
<1>1. PICK q \in Turn :
         Goes(t, q, "engine", "engine") /\ q.claims = turn[t].claims /\ turn[t].left > 0
  BY AskToolMoves DEF RequestInv
<1>2. t \in Busy /\ q.n = turn[t].n /\ turn' = [turn EXCEPT ![t] = q]
  BY <1>1 DEF Goes, Busy, Same
<1>3. UNCHANGED <<engine, requests, overlapped, told, draft>>
  BY DEF AskTool, Within, Elsewhere
<1>4. engine = "claude" => told' = {} /\ q.claims = {}
  BY <1>1, <1>3 DEF ToldInv
<1>5. ~(engine = "dev" /\ ~overlapped)
  BY <1>1, <1>2 DEF ToldInv, Tells, Goes
<1>6. \A l \in DOMAIN draft.lines : l[1] <= requests
  BY DEF ToldInv
<1> QED
  BY <1>2, <1>3, <1>4, <1>5, <1>6, OneTells

\* What the execution of call c by request r makes of the lines.
LEMMA LinesAfter ==
    ASSUME Typed, NEW r \in Turn, NEW c \in Calls, NEW more, ToolDoes(r, c, more)
    PROVE  \A l \in DOMAIN draft'.lines :
              \/ c.op = "create" /\ l = <<r.n, c.on>> /\ draft'.lines[l] = {}
              \/ /\ l \in DOMAIN draft.lines
                 /\ draft'.lines[l] = IF c.op = "flag" /\ l = c.on THEN c.flags
                                      ELSE draft.lines[l]
<1>1. CASE c.op = "create"
  BY <1>1 DEF ToolDoes, Ordered
<1>2. CASE c.op = "remove"
  BY <1>2 DEF ToolDoes
<1>3. CASE c.op = "flag"
  <2>1. draft.lines = [l \in DOMAIN draft.lines |-> draft.lines[l]]
    BY DEF Typed, Draft, Lines
  <2> QED
    BY <1>3, <2>1 DEF ToolDoes
<1>4. CASE c.op \notin {"create", "remove", "flag"}
  BY <1>4 DEF ToolDoes
<1> QED
  BY <1>1, <1>2, <1>3, <1>4

\* Of the calls to flag a line, those of r but c are left.
LEMMA FlagsLeft ==
    ASSUME NEW r, NEW q, NEW c, NEW more, ToolDoes(r, c, more),
           q.calls = CallsAfter(r, c, more), \A b \in r.after : b.op = "list"
    PROVE  \A b : b.op = "flag" => (b \in q.calls <=> b \in r.calls /\ b # c)
BY DEF CallsAfter, ToolDoes

LEMMA ToolTells ==
    ASSUME RequestInv, Alone, ToldInv, NEW t \in Turns, ExecuteTool(t)
    PROVE  ToldInv'
<1> DEFINE r == turn[t]
           before == draft.lines
           lines == draft'.lines
<1>1. PICK c \in Calls : \E more \in SUBSET Calls : Done(t, c, more) /\ ToolDoes(r, c, more)
  BY ToolSteps DEF RequestInv
<1>2. PICK more \in SUBSET Calls : Done(t, c, more) /\ ToolDoes(r, c, more)
  BY <1>1
<1>3. PICK q \in Turn :
         /\ turn' = [turn EXCEPT ![t] = q] /\ Continues(q, r)
         /\ q.calls = CallsAfter(r, c, more) /\ q.after \in {r.after, {}}
  BY <1>2, DoneFields DEF RequestInv
<1>4. Typed /\ r \in Turn /\ \A b \in r.after : b.op = "list"
  BY DEF RequestInv, Typed, Serves
<1>5. \A b : b.op = "flag" => (b \in q.calls <=> b \in r.calls /\ b # c)
  BY <1>2, <1>3, <1>4, FlagsLeft
<1>6. \A l \in DOMAIN lines :
         \/ c.op = "create" /\ l = <<r.n, c.on>> /\ lines[l] = {}
         \/ /\ l \in DOMAIN before
            /\ lines[l] = IF c.op = "flag" /\ l = c.on THEN c.flags ELSE before[l]
  BY <1>2, <1>4, LinesAfter
<1>7. /\ UNCHANGED <<engine, requests, overlapped, told>>
      /\ r.stage = "engine" /\ c \in r.calls
  BY <1>2 DEF ToolDoes, Tools, Within, Elsewhere
<1>8. /\ q.stage = "engine" /\ q.n = r.n /\ q.claims = r.claims /\ q.left = r.left
      /\ t \in Busy
  BY <1>3, <1>7 DEF Continues, Same, Busy
<1>9. \A l \in DOMAIN lines : l[1] <= requests
  BY <1>6, <1>8 DEF ToldInv
<1>10. engine = "claude" => told' = {} /\ q.claims = {}
  BY <1>7, <1>8 DEF ToldInv
<1>11. ASSUME engine = "dev", ~overlapped
       PROVE  Said(told, lines, requests) /\ Tells(q, lines, told)
  <2>1. Said(told, before, requests) /\ Tells(r, before, told)
    BY <1>8, <1>11 DEF ToldInv
  <2> HIDE DEF r, before, lines
  <2>2. \A p \in told \cup r.claims : p[1][1] < r.n
    BY <2>1 DEF Tells
  <2>3. \A p \in told \cup r.claims : p[1] # <<r.n, c.on>>
    <3>1. r.n \in Nat
      BY <1>4, IntakeAssumption DEF Turn
    <3> QED
      BY <2>2, <3>1
  <2>4. /\ r.left = 0
        /\ \A b \in r.calls : b.op = "flag" =>
              /\ b.on \in DOMAIN before => before[b.on] \subseteq b.flags
              /\ \A a \in r.calls : a.op = "flag" /\ a.on = b.on => a = b
        /\ \A p \in r.claims : p[1] \in DOMAIN before =>
              \/ p[2] \in before[p[1]]
              \/ \E b \in r.calls : b.op = "flag" /\ b.on = p[1] /\ p[2] \in b.flags
    BY <1>7, <2>1 DEF Tells
  <2>5. \A l \in DOMAIN lines : l \in DOMAIN before => l = <<r.n, c.on>> \/ before[l] \subseteq lines[l]
    BY <1>6, <1>7, <2>4
  <2>6. ASSUME NEW p \in told \cup r.claims, p[1] \in DOMAIN lines
        PROVE  p[1] \in DOMAIN before /\ before[p[1]] \subseteq lines[p[1]]
    BY <1>6, <2>3, <2>5, <2>6
  <2>7. Said(told, lines, requests)
    BY <2>1, <2>6 DEF Said
  <2>8. ASSUME NEW b \in q.calls, b.op = "flag"
        PROVE  /\ b.on \in DOMAIN lines => lines[b.on] \subseteq b.flags
               /\ \A a \in q.calls : a.op = "flag" /\ a.on = b.on => a = b
    <3>1. b \in r.calls /\ b # c
      BY <1>5, <2>8
    <3>2. b.on \in DOMAIN lines => lines[b.on] \subseteq b.flags
      BY <1>6, <1>7, <2>4, <2>8, <3>1
    <3>3. \A a \in q.calls : a.op = "flag" => a \in r.calls
      BY <1>5
    <3> QED
      BY <2>4, <2>8, <3>1, <3>2, <3>3
  <2>9. ASSUME NEW p \in r.claims, p[1] \in DOMAIN lines, p[2] \notin lines[p[1]]
        PROVE  \E b \in q.calls : b.op = "flag" /\ b.on = p[1] /\ p[2] \in b.flags
    <3>1. p[1] \in DOMAIN before /\ p[2] \notin before[p[1]]
      BY <2>6, <2>9
    <3>2. PICK b \in r.calls : b.op = "flag" /\ b.on = p[1] /\ p[2] \in b.flags
      BY <2>4, <3>1
    <3>3. b # c
      BY <1>6, <2>3, <2>9, <3>2
    <3> QED
      BY <1>5, <3>2, <3>3
  <2>10. Tells(q, lines, told)
    BY <1>8, <2>2, <2>4, <2>8, <2>9 DEF Tells
  <2> QED
    BY <2>7, <2>10
<1> QED
  BY <1>3, <1>7, <1>8, <1>9, <1>10, <1>11, OneTells

\* The answer speaks of what is flagged by then.
LEMMA AnswersTell ==
    ASSUME RequestInv, Alone, ToldInv, NEW t \in Turns,
           Reply(t) \/ RespondWithSystemTurn(t) \/ EngineFails(t)
    PROVE  ToldInv'
<1>0. Typed /\ UNCHANGED <<engine, requests, overlapped, draft>>
  BY DEF RequestInv, Reply, RespondWithSystemTurn, EngineFails, Within, Elsewhere
<1>1. CASE Reply(t)
  <2>1. PICK q \in Turn : Goes(t, q, "engine", "written") /\ turn[t].calls = {}
                          /\ SameTools(q, turn[t])
    <3>1. turn[t].stage = "engine"
      BY <1>1 DEF Reply
    <3> QED
      BY <1>0, <1>1, <3>1, AnswerMoves DEF Goes
  <2>2. /\ t \in Busy /\ q.n = turn[t].n /\ q.claims = turn[t].claims
        /\ q.stage = "written" /\ turn' = [turn EXCEPT ![t] = q]
    BY <2>1 DEF Goes, Busy, Same, SameTools
  <2>3. told' = told \cup turn[t].claims
    BY <1>1 DEF Reply
  <2>4. engine = "claude" => told' = {} /\ q.claims = {}
    BY <2>2, <2>3 DEF ToldInv
  <2>5. ASSUME engine = "dev", ~overlapped
        PROVE  Said(told', draft.lines, requests) /\ Tells(q, draft.lines, told')
    <3>1. /\ Said(told, draft.lines, requests) /\ Tells(turn[t], draft.lines, told)
          /\ turn[t].n <= requests /\ turn[t].stage = "engine"
      BY <2>1, <2>2, <2>5 DEF ToldInv, Goes
    <3>2. turn[t].claims \in SUBSET (LineIds \X Allergens) /\ turn[t].n \in Nat /\ requests \in Nat
      BY <1>0 DEF Typed, Turn
    <3>3. \A p \in turn[t].claims : p[1][1] \in Nat
      BY <3>2 DEF LineIds
    <3>4. \A p \in turn[t].claims : p[1][1] <= requests
                                    /\ (p[1] \in DOMAIN draft.lines => p[2] \in draft.lines[p[1]])
      BY <2>1, <3>1, <3>2, <3>3 DEF Tells
    <3>5. Said(told', draft.lines, requests)
      BY <2>3, <3>1, <3>4 DEF Said
    <3> QED
      BY <2>2, <2>3, <3>1, <3>5 DEF Tells
  <2>6. \A l \in DOMAIN draft.lines : l[1] <= requests
    BY DEF ToldInv
  <2> QED
    BY <1>0, <2>2, <2>4, <2>5, <2>6, OneTells
<1>2. CASE RespondWithSystemTurn(t)
  <2>1. PICK q \in Turn :
          /\ Goes(t, q, "respond", IF turn[t].message = "recap" THEN "written" ELSE "current")
          /\ SameTools(q, turn[t])
    <3>1. turn[t].stage = "respond"
      BY <1>2 DEF RespondWithSystemTurn
    <3> QED
      BY <1>0, <1>2, <3>1, AnswerMoves DEF Goes
  <2>2. /\ t \in Busy /\ q.n = turn[t].n /\ q.claims = turn[t].claims
        /\ q.stage \in {"written", "current"} /\ turn' = [turn EXCEPT ![t] = q]
    BY <2>1 DEF Goes, Busy, Same, SameTools
  <2>3. UNCHANGED told
    BY <1>2 DEF RespondWithSystemTurn
  <2> QED
    BY <1>0, <2>2, <2>3, QuietTells
<1>3. CASE EngineFails(t)
  <2>1. PICK q \in Turn : Goes(t, q, "engine", "respond") /\ SameTools(q, turn[t])
    BY <1>0, <1>3, FailureMoves
  <2>2. /\ t \in Busy /\ q.n = turn[t].n /\ q.claims = turn[t].claims
        /\ q.stage = "respond" /\ turn' = [turn EXCEPT ![t] = q]
    BY <2>1 DEF Goes, Busy, Same, SameTools
  <2>3. UNCHANGED told
    BY <1>3 DEF EngineFails
  <2> QED
    BY <1>0, <2>2, <2>3, QuietTells
<1> QED
  BY <1>1, <1>2, <1>3

\* The steps before the engine and after the answer flag and say nothing.
LEMMA OthersTell ==
    ASSUME RequestInv, Alone, ToldInv, NEW t \in Turns,
           \/ Misheard(t) \/ Heard(t) \/ Recap(t) \/ Refresh(t) \/ Return(t)
           \/ Deliver(t) \/ Die(t)
    PROVE  ToldInv'
<1>0. /\ Typed /\ UNCHANGED <<engine, requests, overlapped, told>>
      /\ draft'.lines = draft.lines
  BY DEF RequestInv, Typed, Draft, Misheard, Heard, Recap, Refresh, Return, Deliver, Die, Within,
     Elsewhere
<1>1. CASE Misheard(t) \/ Heard(t) \/ Recap(t)
  <2>1. PICK q \in Turn :
          /\ SameTools(q, turn[t])
          /\ \/ Goes(t, q, "read", "respond") \/ Goes(t, q, "read", "heard")
             \/ Goes(t, q, "heard", "respond")
    BY <1>0, <1>1, TalkMoves
  <2>2. /\ t \in Busy /\ q.n = turn[t].n /\ q.claims = turn[t].claims
        /\ q.stage \in {"heard", "respond"} /\ turn[t].stage \in {"read", "heard"}
        /\ turn' = [turn EXCEPT ![t] = q]
    BY <2>1 DEF Goes, Busy, Same, SameTools
  <2> QED
    BY <1>0, <2>2, QuietTells
<1>2. CASE Refresh(t) \/ Return(t)
  <2>1. PICK q \in Turn :
          /\ SameTools(q, turn[t])
          /\ Goes(t, q, "written", "current") \/ Goes(t, q, "current", "sent")
    BY <1>0, <1>2, EndMoves
  <2>2. /\ t \in Busy /\ q.n = turn[t].n /\ q.claims = turn[t].claims
        /\ q.stage \in {"current", "sent"} /\ turn' = [turn EXCEPT ![t] = q]
    BY <2>1 DEF Goes, Busy, Same, SameTools
  <2> QED
    BY <1>0, <2>2, QuietTells
<1>3. CASE Deliver(t) \/ Die(t)
  <2>1. turn' = [turn EXCEPT ![t] = Idle] /\ t \in Busy
    BY <1>3 DEF Deliver, Die, Set, Busy
  <2>2. Idle \in Turn /\ Idle.stage = "idle" /\ Idle.claims = {}
    BY IdleTyped
  <2>3. engine = "dev" /\ ~overlapped => Said(told, draft.lines, requests)
    BY DEF ToldInv
  <2>4. \A l \in DOMAIN draft'.lines : l[1] <= requests
    BY <1>0 DEF ToldInv
  <2>5. engine = "claude" => told' = {}
    BY <1>0 DEF ToldInv
  <2> DEFINE q == Idle
  <2> HIDE DEF q
  <2>6. /\ q \in Turn /\ q.stage = "idle" /\ q.claims = {}
        /\ turn' = [turn EXCEPT ![t] = q]
    BY <2>1, <2>2 DEF q
  <2> QED
    BY <1>0, <2>1, <2>3, <2>4, <2>5, <2>6, OneTells
<1> QED
  BY <1>1, <1>2, <1>3

LEMMA WorldTells ==
    ASSUME RequestInv, ToldInv,
           \/ Tick \/ (\E d \in Dishes : ToggleAvailable(d)) \/ (\E b \in Tables : ToggleTable(b))
           \/ UNCHANGED intakeVars
    PROVE  ToldInv'
<1>1. UNCHANGED <<engine, draft, requests, overlapped, told>>
  BY DEF Tick, ToggleAvailable, ToggleTable, Elsewhere, intakeVars
<1>2. turn' = turn \/ \E m, f : Notice(m, f)
  BY DEF Tick, ToggleAvailable, ToggleTable, intakeVars
<1>3. ASSUME NEW t \in Turns
      PROVE  /\ turn'[t].stage = turn[t].stage /\ turn'[t].n = turn[t].n
             /\ turn'[t].calls = turn[t].calls /\ turn'[t].claims = turn[t].claims
             /\ turn'[t].left = turn[t].left
  <2> DEFINE r == turn[t]
  <2>1. r \in Turn
    BY DEF RequestInv, Typed
  <2>2. ASSUME NEW m, NEW f, Notice(m, f)
        PROVE  turn'[t] = r \/ turn'[t] = [r EXCEPT !.onMenu = @ \cup m, !.onFree = @ \cup f]
    BY <2>2 DEF Notice
  <2>3. CASE turn' = turn
    BY <2>3
  <2>4. ASSUME NEW m, NEW f, Notice(m, f)
        PROVE  /\ turn'[t].stage = r.stage /\ turn'[t].n = r.n /\ turn'[t].calls = r.calls
               /\ turn'[t].claims = r.claims /\ turn'[t].left = r.left
    <3> DEFINE q == turn'[t]
    <3>1. q = r \/ q = [r EXCEPT !.onMenu = @ \cup m, !.onFree = @ \cup f]
      BY <2>2, <2>4
    <3> HIDE DEF q, r
    <3>2. /\ q.stage = r.stage /\ q.n = r.n /\ q.calls = r.calls /\ q.claims = r.claims
          /\ q.left = r.left
      BY <2>1, <3>1 DEF Turn
    <3> QED
      BY <3>2 DEF q, r
  <2> QED
    BY <1>2, <2>3, <2>4
<1>4. Busy' = Busy /\ Busy \subseteq Turns
  BY <1>3 DEF Busy
<1>5. ASSUME NEW t \in Turns, Tells(turn[t], draft.lines, told)
      PROVE  Tells(turn'[t], draft.lines, told)
  BY <1>3, <1>5 DEF Tells
<1> QED
  BY <1>1, <1>3, <1>4, <1>5 DEF ToldInv

LEMMA ToldStep == RequestInv /\ Alone /\ ToldInv /\ [IntakeNext]_intakeVars => ToldInv'
<1> SUFFICES ASSUME RequestInv, Alone, ToldInv, [IntakeNext]_intakeVars PROVE ToldInv'
  OBVIOUS
<1>1. ASSUME NEW t \in Turns, Request(t) \/ ProcessTurn(t) \/ EngineFails(t) \/ Die(t)
      PROVE  ToldInv'
  BY <1>1, RequestTells, ThinkTells, AskToolTells, ToolTells, AnswersTell, OthersTell
     DEF ProcessTurn
<1> QED
  BY <1>1, WorldTells DEF IntakeNext

\* With requests that do not overlap, a line the guest was told is flagged for an allergen
\* keeps that flag for as long as it is in the order, whatever fails in between.
THEOREM FlagsStay == IntakeSpec => []FlagsAreKept
<1>1. IntakeInit => Alone /\ ToldInv
  <2> SUFFICES ASSUME IntakeInit PROVE Alone /\ ToldInv
    OBVIOUS
  <2>1. Busy = {} /\ told = {} /\ requests = 0 /\ \A t \in Turns : turn[t].claims = {}
    BY DEF IntakeInit, Busy, Idle
  <2>2. \A l \in DOMAIN draft.lines : l[1] = 0
    BY DEF IntakeInit
  <2> QED
    BY <2>1, <2>2 DEF Alone, ToldInv, Said
<1>2. RequestInv /\ ToldInv => FlagsAreKept
  BY DEF RequestInv, Typed, ToldInv, Said, FlagsAreKept
<1> QED
  BY <1>1, <1>2, AloneStep, ToldStep, RequestsServe, PTL DEF IntakeSpec

=============================================================================
