------------------------------- MODULE Intake -------------------------------
(***************************************************************************)
(* The conversation that fills in one draft: requests of the guest, each a *)
(* series of transactions of its own (IntakeService.processTurn), the      *)
(* dialogue engine in the middle of it, and the tools through which the    *)
(* engine changes the draft, while the owner takes dishes off the menu and *)
(* other guests take tables.  Nothing keeps two requests for a draft from  *)
(* being processed at the same time.                                       *)
(*                                                                         *)
(* Of a turn the model keeps what it asks of the draft.  A line of the     *)
(* order is named after the request and the dish it was added for; its     *)
(* quantity and modifications are left out, and so is the party's size     *)
(* beyond its being known.                                                 *)
(***************************************************************************)
EXTENDS Naturals, Sequences

CONSTANTS
    Dishes, Tables, Allergens,
    Turns,         \* bound: requests processed at the same time
    MaxRequests,   \* bound: requests in all
    MaxCalls,      \* bound: tool calls of Claude in a turn (MAX_TOOL_ITERATIONS rounds)
    MaxClock,      \* bound
    Window,        \* getDraftInactivityWindowMs
    TokenTTL,      \* getDraftTokenTtlMs
    MaxChanges,    \* bound: changes of the menu and of free tables
    MaxFaults,     \* bound: requests that fail
    NONE

ASSUME IntakeAssumption ==
    /\ MaxRequests \in Nat /\ MaxCalls \in Nat /\ MaxClock \in Nat
    /\ Window \in Nat /\ TokenTTL \in Nat /\ Window < TokenTTL
    /\ MaxChanges \in Nat /\ MaxFaults \in Nat
    /\ NONE \notin Tables \cup {"misheard", "recap", "unavailable"}

VARIABLES
    engine,        \* which DialogueEngine is configured
    menu, free,    \* dishes available, tables of any size that are free
    draft,         \* the Visit row and its VisitItems
    turn,          \* the requests in progress
    token,         \* when the token expires that the guest's page holds
    now, requests, changes, faults,
    lapsed,        \* history: the draft has expired and no answer has said so to the guest
    missed,        \* history: one that did was lost, and none has said so since
    told,          \* history: the lines and allergens the guest was told are flagged
    overlapped,    \* history: two requests were in progress at the same time
    lost           \* history: a request ended without its answer reaching the guest

intakeVars == <<engine, menu, free, draft, turn, token, now, requests, changes,
                faults, lapsed, missed, told, overlapped, lost>>

-----------------------------------------------------------------------------

LineIds == (0 .. MaxRequests) \X Dishes

\* An allergy to something the engine has a tag for.  A word it has none for calls no
\* tool, like anything else it makes nothing of, although the answer says "noted".
AllergyAsks == [kind : {"allergy"}, tag : Allergens]

\* What the engines understand a message to ask for.
Asks ==
    [kind : {"order"}, what : SUBSET Dishes \ {{}}]
      \cup [kind : {"swap"}, old : Dishes, what : Dishes]
      \cup [kind : {"remove"}, old : Dishes]
      \cup AllergyAsks
      \cup [kind : {"table"}, what : Tables]
      \cup [kind : {"party", "other"}]

\* A request: when the draft was to expire when it was read, the transcript's rows that it
\* has written, the answer it gives without the engine, the engine's calls of tools and what
\* these give rise to, how many more there may be, and the token it answers with.  History:
\* whether the draft had expired without the guest's having heard of it when the request
\* was received, what could be had at some moment since, and the flags the answer will
\* speak of.
Idle == [stage |-> "idle", n |-> 0, expires |-> 0, rows |-> <<>>, message |-> NONE,
         calls |-> {}, after |-> {}, left |-> 0, token |-> 0,
         silent |-> FALSE, onMenu |-> {}, onFree |-> {}, claims |-> {}]

Busy == {t \in Turns : turn[t].stage # "idle"}

\* Which of the idle ones a request takes makes no difference.
NextSlot == IF Busy = Turns THEN {} ELSE {CHOOSE t \in Turns \ Busy : TRUE}

Expired(expires) == expires < now

\* Both windows run from the moment at hand.
Until(window) == now + window

Set(t, new) == turn' = [turn EXCEPT ![t] = new]

To(t, stage) == Set(t, [turn[t] EXCEPT !.stage = stage])

\* The system's turn is persisted.
Answered(r, stage) == [r EXCEPT !.stage = stage, !.rows = Append(@, "system")]

Elsewhere == UNCHANGED <<engine, menu, free, changes>>

\* What no step between a request and its answer touches.
Within == Elsewhere /\ UNCHANGED <<token, now, requests, overlapped>>

-----------------------------------------------------------------------------
(* A request, up to the engine                                              *)

\* POST :visitId/turn passes IntakeDraftGuard; processTurn reads the visit.
Request(t) ==
    /\ t \in NextSlot /\ requests < MaxRequests
    /\ now < token
    /\ requests' = requests + 1
    /\ Set(t, [Idle EXCEPT !.stage = "read", !.n = requests + 1, !.expires = draft.expires,
                           !.silent = lapsed, !.onMenu = menu, !.onFree = free])
    /\ overlapped' = (overlapped \/ Busy # {})
    /\ Elsewhere
    /\ UNCHANGED <<draft, token, now, faults, lapsed, missed, told, lost>>

\* respondWithSystemTurn is called: the request ends without the engine's answer.
Respond(t, message) == Set(t, [turn[t] EXCEPT !.stage = "respond", !.message = message])

\* Whether words come of it: a clip may be silent, unclear or not transcribed at all.
Understood(mode) == IF mode = "text" THEN {TRUE} ELSE BOOLEAN

Misheard(t) ==
    /\ turn[t].stage = "read" /\ FALSE \in Understood("voice")
    /\ Respond(t, "misheard")
    /\ Within
    /\ UNCHANGED <<draft, faults, lapsed, missed, told, lost>>

\* The customer's turn is persisted, whatever comes of it.
Heard(t) ==
    /\ turn[t].stage = "read"
    /\ Set(t, [turn[t] EXCEPT !.stage = "heard", !.rows = Append(@, "customer")])
    /\ Within
    /\ UNCHANGED <<draft, faults, lapsed, missed, told, lost>>

\* Mutant: the window is looked at before the customer's turn is persisted.
RecapFirst(t) ==
    /\ turn[t].stage = "read" /\ Expired(turn[t].expires)
    /\ Respond(t, "recap")
    /\ Within
    /\ UNCHANGED <<draft, faults, lapsed, missed, told, lost>>

\* The window is that of the visit as it was read before the customer's turn.
Recap(t) ==
    /\ turn[t].stage = "heard" /\ Expired(turn[t].expires)
    /\ Respond(t, "recap")
    /\ Within
    /\ UNCHANGED <<draft, faults, lapsed, missed, told, lost>>

-----------------------------------------------------------------------------
(* The engines                                                              *)

Call(op, on) == [op |-> op, on |-> on, flags |-> {}]

\* Mutant: the flag replaces those the line has.
FlagReplaced(l, tag) == [op |-> "flag", on |-> l, flags |-> {tag}]

Flag(l, tag) == [op |-> "flag", on |-> l, flags |-> draft.lines[l] \cup {tag}]

LinesOf(d) == {l \in DOMAIN draft.lines : l[2] = d}

OneOf(S) == IF S = {} THEN {{}} ELSE {{x} : x \in S}

\* The tool calls DevDialogueEngine makes for a message, and those it makes once they
\* have been answered.  Which of the lines that match a name it finds first is not
\* defined: the draft's lines are read without an order.
DevPlans(ask) ==
    CASE ask.kind = "order"   -> {<<{Call("list", ask.what)}, {}>>}
      [] ask.kind = "swap"    -> {<<{Call("remove", l) : l \in one}, {Call("list", {ask.what})}>> :
                                     one \in OneOf(LinesOf(ask.old))}
      [] ask.kind = "remove"  -> {<<{Call("remove", l) : l \in one}, {}>> :
                                     one \in OneOf(LinesOf(ask.old))}
      [] ask.kind = "allergy" -> {<<{Flag(l, ask.tag) : l \in {m \in DOMAIN draft.lines :
                                                    ask.tag \notin draft.lines[m]}}, {}>>}
      [] ask.kind = "table"   -> {<<IF draft.party THEN {Call("tables", ask.what)} ELSE {}, {}>>}
      [] ask.kind = "party"   -> {<<{Call("party", NONE)}, {}>>}
      [] OTHER                -> {<<{}, {}>>}

\* Any call Claude may make that changes the draft, with ids from whatever part of the
\* conversation: those that only read tell it ids, of dishes and tables long gone too.
\* Of these, the one that asks for a dish's details stands for all.
ClaudeCalls ==
    {Call("add", d) : d \in Dishes} \cup {Call("remove", l) : l \in LineIds}
      \cup [op : {"flag"}, on : LineIds, flags : SUBSET Allergens]
      \cup {Call("propose", b) : b \in Tables} \cup {Call("party", NONE)}
      \cup {Call("details", d) : d \in Dishes}

\* The lines and allergens that the answer will say are flagged.
Claims(ask) ==
    IF ask.kind = "allergy" THEN (DOMAIN draft.lines) \X {ask.tag} ELSE {}

\* Calls that have been executed, or that there are none of, make place for those after.
Due(calls, after) == IF calls = {} THEN [now |-> after, then |-> {}]
                      ELSE [now |-> calls, then |-> after]

Start(t, plan, claims, left) ==
    LET due == Due(plan[1], plan[2]) IN
    Set(t, [turn[t] EXCEPT !.stage = "engine", !.calls = due.now, !.after = due.then,
                           !.claims = claims, !.left = left])

\* runTurn starts.
Think(t) ==
    /\ turn[t].stage = "heard" /\ ~Expired(turn[t].expires)
    /\ \/ /\ engine = "dev"
          /\ \E ask \in Asks : \E plan \in DevPlans(ask) :
                Start(t, plan, Claims(ask), 0)
       \/ /\ engine = "claude"
          /\ Start(t, <<{}, {}>>, {}, MaxCalls)
    /\ Within
    /\ UNCHANGED <<draft, faults, lapsed, missed, told, lost>>

\* The model's answer asks for a tool call.
AskTool(t) ==
    /\ turn[t].stage = "engine" /\ turn[t].calls = {} /\ turn[t].left > 0
    /\ \E c \in ClaudeCalls :
          Set(t, [turn[t] EXCEPT !.calls = {c}, !.left = @ - 1])
    /\ Within
    /\ UNCHANGED <<draft, faults, lapsed, missed, told, lost>>

-----------------------------------------------------------------------------
(* The tools                                                                *)

\* The calls that a request waits to have executed.  One at a time: a check that a
\* write follows in the same call comes before any other call.
Half == {"create", "hold"}

Executable(t) ==
    IF turn[t].stage # "engine" THEN {}
    ELSE LET halves == {c \in turn[t].calls : c.op \in Half}
         IN  IF halves # {} THEN halves ELSE turn[t].calls

\* Call c is over and has given rise to the calls of more.
Done(t, c, more) ==
    LET due == Due((turn[t].calls \ {c}) \cup more, turn[t].after) IN
    Set(t, [turn[t] EXCEPT !.calls = due.now, !.after = due.then])

Tools == Within /\ UNCHANGED <<faults, lapsed, missed, told, lost>>

ListAvailableMenuItems(t) ==
    /\ UNCHANGED draft
    /\ \E c \in Executable(t) :
          /\ c.op = "list"
          /\ Done(t, c, {Call("add", d) : d \in c.on \cap menu})
    /\ Tools

\* Found or not: an answer, and no part of the draft.
GetMenuItemDetails(t) ==
    /\ UNCHANGED draft
    /\ \E c \in Executable(t) :
          /\ c.op = "details"
          /\ Done(t, c, {})
    /\ Tools

\* Mutant: an id from an earlier answer is good enough.
AddUnchecked(d) == TRUE

\* The live check of add_order_item.
IsAvailable(d) == d \in menu

AddOrderItem(t) ==
    /\ UNCHANGED draft
    /\ \E c \in Executable(t) :
          /\ c.op = "add"
          /\ Done(t, c, IF IsAvailable(c.on) THEN {Call("create", c.on)} ELSE {})
    /\ Tools

\* A new line, with nothing flagged.
Ordered(lines, new) == [l \in DOMAIN lines \cup {new} |-> IF l = new THEN {} ELSE lines[l]]

\* The line is created in a second transaction.
CreateLine(t) ==
    /\ \E c \in Executable(t) :
          /\ c.op = "create"
          /\ draft' = [draft EXCEPT !.lines = Ordered(@, <<turn[t].n, c.on>>)]
          /\ Done(t, c, {})
    /\ Tools

UpdateOrderItem(t) ==
    /\ \E c \in Executable(t) :
          /\ c.op = "flag"
          /\ draft' = IF c.on \in DOMAIN draft.lines THEN [draft EXCEPT !.lines[c.on] = c.flags]
                      ELSE draft
          /\ Done(t, c, {})
    /\ Tools

RemoveOrderItem(t) ==
    /\ \E c \in Executable(t) :
          /\ c.op = "remove"
          /\ draft' = [draft EXCEPT !.lines = [l \in DOMAIN @ \ {c.on} |-> @[l]]]
          /\ Done(t, c, {})
    /\ Tools

\* Of the free tables those the party fits at.  It is the only tool that looks at a
\* table's size.
ListOpenTables(t) ==
    /\ UNCHANGED draft
    /\ \E c \in Executable(t), fits \in BOOLEAN :
          /\ c.op = "tables"
          /\ Done(t, c, IF fits /\ c.on \in free THEN {Call("propose", c.on)} ELSE {})
    /\ Tools

\* Whether the table is free, whatever its size.
ProposeTable(t) ==
    /\ UNCHANGED draft
    /\ \E c \in Executable(t) :
          /\ c.op = "propose"
          /\ Done(t, c, IF c.on \in free THEN {Call("hold", c.on)} ELSE {})
    /\ Tools

\* propose_table writes Visit.tableId in a second transaction, and no Table.
SetProposal(t) ==
    /\ \E c \in Executable(t) :
          /\ c.op = "hold"
          /\ draft' = [draft EXCEPT !.table = c.on]
          /\ Done(t, c, {})
    /\ Tools

SetPartyDetails(t) ==
    /\ \E c \in Executable(t) :
          /\ c.op = "party"
          /\ draft' = [draft EXCEPT !.party = TRUE]
          /\ Done(t, c, {})
    /\ Tools

ExecuteTool(t) ==
    \/ ListAvailableMenuItems(t) \/ GetMenuItemDetails(t) \/ AddOrderItem(t) \/ CreateLine(t)
    \/ UpdateOrderItem(t) \/ RemoveOrderItem(t)
    \/ ListOpenTables(t) \/ ProposeTable(t) \/ SetProposal(t) \/ SetPartyDetails(t)

-----------------------------------------------------------------------------
(* The answer                                                               *)

\* The engine's answer is persisted.
Reply(t) ==
    /\ turn[t].stage = "engine" /\ turn[t].calls = {}
    /\ told' = told \cup turn[t].claims
    /\ Set(t, Answered(turn[t], "written"))
    /\ Within
    /\ UNCHANGED <<draft, faults, lapsed, missed, lost>>

\* The engine, or a tool it has called, throws: whatever its calls have changed stays.
EngineFails(t) ==
    /\ turn[t].stage = "engine"
    /\ faults < MaxFaults /\ faults' = faults + 1
    /\ Respond(t, "unavailable")
    /\ Within
    /\ UNCHANGED <<draft, lapsed, missed, told, lost>>

\* Mutant: every answer refreshes the window.
ReengagesAlways(message) == TRUE

Reengages(message) == message = "recap"

RespondWithSystemTurn(t) ==
    /\ turn[t].stage = "respond"
    /\ Set(t, Answered(turn[t], IF Reengages(turn[t].message) THEN "written" ELSE "current"))
    /\ Within
    /\ UNCHANGED <<draft, faults, lapsed, missed, told, lost>>

\* The window is refreshed, in a transaction of its own.  A request that was received
\* before the draft expired, and that the engine answers, counts as the guest's being there.
Refresh(t) ==
    /\ turn[t].stage = "written"
    /\ draft' = [draft EXCEPT !.expires = Until(Window)]
    /\ lapsed' = (lapsed /\ (turn[t].silent \/ turn[t].message = "recap"))
    /\ To(t, "current")
    /\ Within
    /\ UNCHANGED <<faults, missed, told, lost>>

\* Mutant: only an answer of the engine comes with a new token.
TokenIfProcessed(t) == IF turn[t].message # NONE THEN token ELSE Until(TokenTTL)

\* mintToken
Minted(t) == Until(TokenTTL)

\* The visit is read once more and the response sent.
Return(t) ==
    /\ turn[t].stage = "current"
    /\ Set(t, [turn[t] EXCEPT !.stage = "sent", !.token = Minted(t)])
    /\ Within
    /\ UNCHANGED <<draft, faults, lapsed, missed, told, lost>>

\* The guest's page keeps the token of the last response, and shows what it says: a recap
\* has reached the guest now, and not before.
Deliver(t) ==
    LET recap == turn[t].message = "recap" IN
    /\ turn[t].stage = "sent"
    /\ token' = turn[t].token
    /\ lapsed' = (lapsed /\ (recap => Expired(draft.expires)))
    /\ missed' = (missed /\ ~recap)
    /\ Set(t, Idle)
    /\ Elsewhere
    /\ UNCHANGED <<draft, now, requests, faults, told, overlapped, lost>>

\* The request dies: a transaction fails, the API crashes, or the response is lost.
Die(t) ==
    /\ t \in Busy
    /\ faults < MaxFaults /\ faults' = faults + 1
    /\ lost' = TRUE
    /\ missed' = (missed \/ (turn[t].message = "recap" /\ turn[t].stage \in {"current", "sent"}))
    /\ Set(t, Idle)
    /\ Within
    /\ UNCHANGED <<draft, lapsed, told>>

-----------------------------------------------------------------------------
(* The world around the draft                                               *)

Notice(m, f) ==
    turn' = [t \in Turns |->
               IF t \in Busy THEN [turn[t] EXCEPT !.onMenu = @ \cup m, !.onFree = @ \cup f]
               ELSE turn[t]]

\* The owner changes whether a dish is available.
ToggleAvailable(d) ==
    /\ changes < MaxChanges /\ changes' = changes + 1
    /\ menu' = IF d \in menu THEN menu \ {d} ELSE menu \cup {d}
    /\ Notice(menu', free)
    /\ UNCHANGED <<engine, free, draft, token, now, requests, faults, lapsed, missed, told,
                   overlapped, lost>>

\* Another party takes or leaves a table.
ToggleTable(b) ==
    /\ changes < MaxChanges /\ changes' = changes + 1
    /\ free' = IF b \in free THEN free \ {b} ELSE free \cup {b}
    /\ Notice(menu, free')
    /\ UNCHANGED <<engine, menu, draft, token, now, requests, faults, lapsed, missed, told,
                   overlapped, lost>>

Tick ==
    /\ now < MaxClock
    /\ now' = now + 1
    /\ lapsed' = (lapsed \/ draft.expires = now)
    /\ Elsewhere
    /\ UNCHANGED <<draft, turn, token, requests, faults, missed, told, overlapped, lost>>

-----------------------------------------------------------------------------

\* IntakeService.start has created the draft, and earlier turns have filled it in.
IntakeInit ==
    /\ engine \in {"dev", "claude"}
    /\ menu = Dishes /\ free = Tables
    /\ \E dishes \in SUBSET Dishes, known \in BOOLEAN :
          draft = [lines |-> [l \in {0} \X dishes |-> {}], table |-> NONE, party |-> known,
                   expires |-> Window]
    /\ turn = [t \in Turns |-> Idle]
    /\ token = TokenTTL
    /\ now = 0 /\ requests = 0 /\ changes = 0 /\ faults = 0
    /\ lapsed = FALSE /\ missed = FALSE /\ told = {} /\ overlapped = FALSE /\ lost = FALSE

ProcessTurn(t) ==
    \/ Misheard(t) \/ Heard(t) \/ Recap(t) \/ Think(t) \/ AskTool(t) \/ ExecuteTool(t)
    \/ Reply(t) \/ RespondWithSystemTurn(t) \/ Refresh(t) \/ Return(t) \/ Deliver(t)

IntakeNext ==
    \/ \E t \in Turns : Request(t) \/ ProcessTurn(t) \/ EngineFails(t) \/ Die(t)
    \/ \E d \in Dishes : ToggleAvailable(d)
    \/ \E b \in Tables : ToggleTable(b)
    \/ Tick

IntakeSpec == IntakeInit /\ [][IntakeNext]_intakeVars

-----------------------------------------------------------------------------
(* Properties                                                               *)

\* The draft and the guest's token are of their types; and a request whose answer is on
\* its way has left exactly one answer in the transcript, after what the guest said if
\* that was understood, also when requests overlap.
IntakeInv ==
    /\ menu \subseteq Dishes /\ free \subseteq Tables
    /\ DOMAIN draft.lines \subseteq LineIds
    /\ \A l \in DOMAIN draft.lines : draft.lines[l] \subseteq Allergens
    /\ draft.table \in Tables \cup {NONE}
    /\ token \in 0 .. MaxClock + TokenTTL /\ draft.expires \in 0 .. MaxClock + Window
    /\ \A t \in Turns : turn[t].stage \in {"current", "sent"} =>
          turn[t].rows = IF turn[t].message = "misheard" THEN <<"system">>
                         ELSE <<"customer", "system">>

\* A draft that expired never silently continues: a request that came after it did
\* reaches the engine only once a recap of the draft has reached the guest, whatever
\* other answers and failures come between; unless requests overlapped, or a recap that
\* had refreshed the window was lost on its way, and none has arrived since.
ExpiredDraftsAreRecapped ==
    \A t \in Turns : turn[t].stage = "engine" /\ turn[t].silent => missed \/ overlapped

\* Whatever the engine remembers from earlier turns, a request only brings dishes into the
\* draft that were available, and tables that were free, at some moment since it was
\* received.  That the party fits at the table is not promised: propose_table takes any.
OnlyWhatCouldBeHad ==
    [][/\ \A l \in DOMAIN draft'.lines \ DOMAIN draft.lines :
            \E t \in Busy : turn[t].n = l[1] /\ l[2] \in turn[t].onMenu
       /\ draft'.table # draft.table => \E t \in Busy : draft'.table \in turn[t].onFree
      ]_intakeVars

\* What the guest was told is flagged for the kitchen, with an allergen the engine knows,
\* is flagged, and stays so until the line is removed, unless requests overlapped.
FlagsAreKept ==
    ~overlapped => \A p \in told : p[1] \in DOMAIN draft.lines => p[2] \in draft.lines[p[1]]

\* A guest who comes back after the draft expired, but within the grace period, has a
\* token that is still good, unless an answer was lost or requests overlapped.
GracePeriodHolds ==
    Busy = {} /\ ~lost /\ ~overlapped => token >= draft.expires + (TokenTTL - Window)

=============================================================================
