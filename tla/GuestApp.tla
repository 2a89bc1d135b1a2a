------------------------------- MODULE GuestApp -------------------------------
(***************************************************************************)
(* The guest's page, from its first request to "You're booked": the chat   *)
(* (IntakeChat) and the panel that confirms (ConfirmPanel), each with a    *)
(* busy flag of its own; the one-time codes the API sends and checks; and  *)
(* the visit as far as the page is concerned, with a number that stands    *)
(* for all it holds: 0 when the party, the time or the table is missing,   *)
(* and another number after each turn that changes it.                     *)
(*                                                                         *)
(* What the turns do to the draft is in Intake, what stands in the way of  *)
(* a confirmation in Booking.                                              *)
(***************************************************************************)
EXTENDS Naturals

CONSTANTS
    Phones, Own,   \* numbers the guest may type, and the one that is theirs
    Slots,         \* bound: turns in flight at the same time
    MaxTurns,      \* bound
    MaxCodes,      \* bound: codes sent
    MaxTypos,      \* bound: wrong codes entered
    MaxFaults,     \* bound: requests that fail
    MaxClock,      \* bound
    CodeTTL,       \* CODE_TTL_MS
    NONE

ASSUME GuestAssumption ==
    /\ Own \in Phones
    /\ MaxTurns \in Nat /\ MaxCodes \in Nat /\ MaxTypos \in Nat /\ MaxFaults \in Nat
    /\ MaxClock \in Nat /\ CodeTTL \in Nat
    /\ NONE \notin Nat

VARIABLES
    visit,         \* the row: its status and what it holds
    start,         \* how far the page is in getting a visit and the token for it
    flight,        \* the turns in flight
    seen,          \* draft: what the page shows the visit to hold
    chatBusy, mic, \* busy and the recorder of IntakeChat
    phone, otpSent, session, booked,   \* state of ConfirmPanel, and the view after it
    op,            \* the request the panel waits for (its busy) and how far it is
    challenge,     \* DevOtpProvider.challenges
    texted,        \* the code the guest's phone received last
    codes, now, turns, typos, faults,
    opened,        \* history: sessions each code has opened
    read,          \* history: what the page showed when Confirm was pressed last
    muddled,       \* history: a turn ran beside another one or beside a confirmation
    behind,        \* history: the answer of a turn was lost and none came since
    hindered       \* history: the code is of no use any more, or a confirm was refused

guestVars == <<visit, start, flight, seen, chatBusy, mic, phone, otpSent, session, booked, op,
               challenge, texted, codes, now, turns, typos, faults,
               opened, read, muddled, behind, hindered>>

-----------------------------------------------------------------------------

Panel == <<phone, otpSent, session, booked, op, typos, read>>
Otp == <<challenge, texted, codes, opened>>
Chat == <<start, flight, seen, chatBusy, mic, turns, behind>>

NoOp == [name |-> "none"]

Flying == {s \in Slots : flight[s].stage # "idle"}

NextSlot == IF Flying = Slots THEN {} ELSE {CHOOSE s \in Slots \ Flying : TRUE}

Confirming == op.name = "confirm"

Fault == faults < MaxFaults /\ faults' = faults + 1

\* "You're booked" takes the place of all else.
Chatting == ~booked

\* The controls of the chat are enabled.
Chattable == Chatting /\ ~chatBusy

\* The draft as the page gets it: the row as it is now.
Draft(row) == row.content

\* The app's own server asks the API: an answer that is not good is an error.
ApiFetch(ok) == IF ok THEN "answer" ELSE "refused"

\* Its route handlers give the page the answer or the error, as it is.
RequestRoute(ok) == ApiFetch(ok)
VerifyRoute(ok)  == ApiFetch(ok)
ConfirmRoute(ok) == ApiFetch(ok)

\* The guest speaks or types and may change over at any time; what is said so far stays.
Speakable == Chattable

-----------------------------------------------------------------------------
(* The chat                                                                 *)

\* IntakeService.start
StartVisit ==
    /\ start = "asked" /\ visit.status = "absent"
    /\ visit' = [status |-> "draft", content |-> 0]
    /\ UNCHANGED <<faults, muddled, hindered, now, Chat, Panel, Otp>>

StartAnswered ==
    /\ start = "asked" /\ visit.status # "absent"
    /\ start' = "held" /\ seen' = Draft(visit) /\ chatBusy' = FALSE
    /\ UNCHANGED <<visit, flight, mic, turns, behind, faults, muddled, hindered, now, Panel, Otp>>

\* The page does not ask again.
StartFails ==
    /\ start = "asked" /\ Fault
    /\ start' = "failed" /\ chatBusy' = FALSE
    /\ UNCHANGED <<visit, flight, seen, mic, turns, behind, muddled, hindered, now, Panel, Otp>>

\* submitTurn looks at no busy flag: its callers' controls do.
SubmitTurn ==
    /\ start = "held"
    /\ turns < MaxTurns /\ turns' = turns + 1
    /\ \E s \in NextSlot : flight' = [flight EXCEPT ![s] = [stage |-> "sent"]]
    /\ chatBusy' = TRUE
    /\ muddled' = (muddled \/ Flying # {} \/ Confirming \/ visit.status # "draft")
    /\ UNCHANGED <<visit, start, seen, behind, now, faults, hindered, Panel, Otp>>

SendText == Chattable /\ SubmitTurn /\ UNCHANGED mic

StartRecording ==
    /\ Speakable /\ mic = "off"
    /\ mic' = "on"
    /\ UNCHANGED <<visit, start, flight, seen, chatBusy, turns, behind, now, faults, muddled, hindered, Panel, Otp>>

StopRecording ==
    /\ Speakable /\ mic = "on"
    /\ mic' = "stopped"
    /\ UNCHANGED <<visit, start, flight, seen, chatBusy, turns, behind, now, faults, muddled, hindered, Panel, Otp>>

\* onstop: the clip is encoded and sent, whatever the page is doing by then.
SubmitClip == mic = "stopped" /\ SubmitTurn /\ mic' = "off"

\* Without a visit there is nowhere to send it, and nobody is told.
DropClip ==
    /\ mic = "stopped" /\ start # "held"
    /\ mic' = "off"
    /\ UNCHANGED <<visit, start, flight, seen, chatBusy, turns, behind, now, faults, muddled, hindered, Panel, Otp>>

\* Mutant: the response carries the visit as it was read when the turn began.
AnswerFirstRead(row) == Draft(visit)

AnswerCurrent(row) == Draft(row)

\* The route handler gives the page the answer to a turn.
TurnRoute(row) == [stage |-> "answered", content |-> AnswerCurrent(row)]

\* IntakeService.processTurn changes the visit or not, whatever its status.
ProcessTurn(s) ==
    /\ flight[s].stage = "sent"
    /\ \E new \in {visit.content, turns} :
          /\ visit' = [visit EXCEPT !.content = new]
          /\ flight' = [flight EXCEPT ![s] = TurnRoute(visit')]
    /\ muddled' = (muddled \/ Confirming \/ visit.status # "draft")
    /\ UNCHANGED <<start, seen, chatBusy, mic, turns, behind, now, faults, hindered, Panel, Otp>>

\* The last answer to arrive is the draft the page shows.
TurnAnswered(s) ==
    /\ flight[s].stage = "answered"
    /\ seen' = flight[s].content
    /\ flight' = [flight EXCEPT ![s] = [stage |-> "idle"]]
    /\ chatBusy' = FALSE /\ behind' = FALSE
    /\ UNCHANGED <<visit, start, mic, turns, now, faults, muddled, hindered, Panel, Otp>>

TurnFails(s) ==
    /\ s \in Flying /\ Fault
    /\ flight' = [flight EXCEPT ![s] = [stage |-> "idle"]]
    /\ chatBusy' = FALSE
    /\ behind' = (behind \/ flight[s].stage = "answered")
    /\ UNCHANGED <<visit, start, seen, mic, turns, now, muddled, hindered, Panel, Otp>>

-----------------------------------------------------------------------------
(* The code                                                                 *)

\* The panel is given the chat's draft, and is there once this is complete.
PanelDraft == seen

Ready == PanelDraft > 0

Press(name) == op' = [name |-> name, stage |-> "request"]

Pressable == Ready /\ Chatting /\ op = NoOp

Aside == UNCHANGED <<visit, muddled, Chat>>

\* sendCode: once a code is sent, the number is fixed and no other can be asked for.
PressSend(p) ==
    /\ Pressable /\ session = NONE /\ ~otpSent
    /\ phone' = p
    /\ Press("send")
    /\ hindered' = (hindered \/ p # Own)
    /\ Aside /\ UNCHANGED <<otpSent, session, booked, typos, read, now, faults, Otp>>

\* DevOtpProvider.sendCode: a new code takes the place of the last one.
NewCode(p) ==
    /\ codes < MaxCodes /\ codes' = codes + 1
    /\ challenge' = [challenge EXCEPT ![p] = [code |-> codes + 1, expires |-> now + CodeTTL]]
    /\ texted' = IF p = Own THEN codes + 1 ELSE texted

CustomerRequestOtp ==
    /\ op.name = "send" /\ op.stage = "request"
    /\ NewCode(phone)
    /\ op' = [op EXCEPT !.stage = RequestRoute(TRUE)]
    /\ Aside /\ UNCHANGED <<phone, otpSent, session, booked, typos, read, now, faults, opened, hindered>>

CodeSent ==
    /\ op.name = "send" /\ op.stage = "answer"
    /\ otpSent' = TRUE
    /\ op' = NoOp
    /\ Aside /\ UNCHANGED <<phone, session, booked, typos, read, now, faults, hindered, Otp>>

\* The guest enters the code the phone received last, or mistypes it.
PressVerify(code) ==
    /\ Pressable /\ session = NONE /\ otpSent
    /\ \/ code = texted /\ texted # 0 /\ UNCHANGED typos
       \/ code = 0 /\ typos < MaxTypos /\ typos' = typos + 1
    /\ op' = [name |-> "verify", stage |-> "request", code |-> code]
    /\ Aside /\ UNCHANGED <<phone, otpSent, session, booked, read, now, faults, hindered, Otp>>

Alive(p) == challenge[p] # NONE /\ challenge[p].expires >= now

\* Mutant: the code can be used as long as it has not expired.
ChallengeKept(p, matches) == challenge[p]

\* Mutant: a code can be tried once.
ChallengeTriedOnce(p, matches) == NONE

ChallengeAfter(p, matches) == IF matches THEN NONE ELSE challenge[p]

\* DevOtpProvider.verifyCode, which consumes the code it accepts.
VerifyCode(p, code, accepted) ==
    /\ accepted = (Alive(p) /\ challenge[p].code = code)
    /\ challenge' = IF Alive(p) THEN [challenge EXCEPT ![p] = ChallengeAfter(p, accepted)]
                    ELSE challenge
    /\ opened' = IF accepted THEN [opened EXCEPT ![code] = IF @ < 2 THEN @ + 1 ELSE @] ELSE opened
    /\ UNCHANGED <<texted, codes>>

\* customerVerifyOtp: the customer is written after the code has been consumed.
CustomerVerifyOtp ==
    /\ op.name = "verify" /\ op.stage = "request"
    /\ \E accepted \in BOOLEAN :
          /\ VerifyCode(phone, op.code, accepted)
          /\ op' = [op EXCEPT !.stage = IF accepted THEN "upsert" ELSE VerifyRoute(FALSE)]
    /\ Aside /\ UNCHANGED <<phone, otpSent, session, booked, typos, read, now, faults, hindered>>

UpsertCustomer ==
    /\ op.name = "verify" /\ op.stage = "upsert"
    /\ op' = [op EXCEPT !.stage = VerifyRoute(TRUE)]
    /\ Aside /\ UNCHANGED <<phone, otpSent, session, booked, typos, read, now, faults, hindered, Otp>>

SessionAfter == IF op.stage = "answer" THEN op.code ELSE session

Verified ==
    /\ op.name = "verify" /\ op.stage \in {"answer", "refused"}
    /\ session' = SessionAfter
    /\ op' = NoOp
    /\ Aside /\ UNCHANGED <<phone, otpSent, booked, typos, read, now, faults, hindered, Otp>>

\* The page has asked for its code and has not used it.
Waiting == session = NONE /\ (otpSent \/ op.name = "send")

\* Another page of the same guest asks for a code, and uses it.  The bound leaves this
\* page its codes.
OtherPageAsks ==
    /\ otpSent \/ codes + 1 + MaxFaults < MaxCodes
    /\ NewCode(Own)
    /\ Aside /\ UNCHANGED <<now, faults, hindered, opened, Panel>>

OtherPageVerifies ==
    /\ texted # 0
    /\ VerifyCode(Own, texted, TRUE)
    /\ hindered' = (hindered \/ Waiting)
    /\ Aside /\ UNCHANGED <<now, faults, Panel>>

-----------------------------------------------------------------------------
(* The confirmation                                                         *)

\* The panel reads back the draft it is given.
ReadBack == PanelDraft

PressConfirm ==
    /\ Pressable /\ session # NONE
    /\ Press("confirm")
    /\ read' = IF visit.status = "draft" THEN ReadBack ELSE read
    /\ muddled' = (muddled \/ Flying # {})
    /\ UNCHANGED <<visit, phone, otpSent, session, booked, typos, now, faults, hindered, Chat, Otp>>

\* VisitsService.confirm: a booking this customer has made already is a success.
Confirms == visit.status \in {"draft", "confirmed"}

Confirm ==
    /\ Confirming /\ op.stage = "request"
    /\ visit' = IF Confirms THEN [visit EXCEPT !.status = "confirmed"] ELSE visit
    /\ op' = [op EXCEPT !.stage = ConfirmRoute(Confirms)]
    /\ UNCHANGED <<phone, otpSent, session, booked, typos, read, now, faults, muddled, hindered, Chat, Otp>>

\* A table was taken or a dish withdrawn.
RefuseConfirm ==
    /\ Confirming /\ op.stage = "request" /\ visit.status = "draft"
    /\ op' = [op EXCEPT !.stage = ConfirmRoute(FALSE)]
    /\ hindered' = TRUE
    /\ Aside /\ UNCHANGED <<phone, otpSent, session, booked, typos, read, now, faults, Otp>>

Confirmed ==
    /\ Confirming /\ op.stage \in {"answer", "refused"}
    /\ booked' = (op.stage = "answer")
    /\ op' = NoOp
    /\ Aside /\ UNCHANGED <<phone, otpSent, session, typos, read, now, faults, hindered, Otp>>

-----------------------------------------------------------------------------
(* Faults and time                                                          *)

\* A request of the panel, or its answer, is lost, or the customer cannot be written.
OpFails ==
    /\ op # NoOp /\ Fault
    /\ op' = NoOp
    /\ hindered' = (hindered \/ (op.name = "verify" /\ op.stage \in {"upsert", "answer"}))
    /\ Aside /\ UNCHANGED <<phone, otpSent, session, booked, typos, read, now, Otp>>

Tick ==
    /\ now < MaxClock
    /\ now' = now + 1
    /\ hindered' = (hindered \/ (Waiting /\ challenge[Own] # NONE /\ challenge[Own].expires = now))
    /\ Aside /\ UNCHANGED <<faults, Panel, Otp>>

-----------------------------------------------------------------------------

PanelInit == phone = Own /\ otpSent = FALSE /\ session = NONE /\ op = NoOp

\* The page has just been opened, or the conversation has come to a complete draft.
GuestInit ==
    /\ \/ /\ visit = [status |-> "absent", content |-> 0]
          /\ start = "asked" /\ seen = 0 /\ chatBusy = TRUE
       \/ /\ visit = [status |-> "draft", content |-> MaxTurns + 1]
          /\ start = "held" /\ seen = MaxTurns + 1 /\ chatBusy = FALSE
    /\ flight = [s \in Slots |-> [stage |-> "idle"]]
    /\ mic = "off"
    /\ PanelInit /\ booked = FALSE
    /\ challenge = [p \in Phones |-> NONE] /\ texted = 0
    /\ codes = 0 /\ now = 0 /\ turns = 0 /\ typos = 0 /\ faults = 0
    /\ opened = [c \in 1 .. MaxCodes |-> 0] /\ read = 0
    /\ muddled = FALSE /\ behind = FALSE /\ hindered = FALSE

Requests ==
    \/ CustomerRequestOtp \/ CodeSent \/ CustomerVerifyOtp \/ UpsertCustomer \/ Verified
    \/ Confirm \/ Confirmed

GuestNext ==
    \/ StartVisit \/ StartAnswered \/ StartFails
    \/ SendText \/ StartRecording \/ StopRecording \/ SubmitClip \/ DropClip
    \/ \E s \in Slots : ProcessTurn(s) \/ TurnAnswered(s) \/ TurnFails(s)
    \/ \E p \in Phones : PressSend(p)
    \/ \E code \in 0 .. MaxCodes : PressVerify(code)
    \/ PressConfirm \/ Requests \/ RefuseConfirm \/ OpFails
    \/ OtherPageAsks \/ OtherPageVerifies
    \/ Tick

GuestSpec == GuestInit /\ [][GuestNext]_guestVars

\* Requests are answered or fail; and the guest wants the table: asks for a code, enters
\* the one that came, and presses Confirm.
FairGuestSpec ==
    /\ GuestSpec
    /\ WF_guestVars(Requests)
    /\ WF_guestVars(PressSend(Own)) /\ WF_guestVars(PressConfirm)
    /\ WF_guestVars(\E code \in 1 .. MaxCodes : PressVerify(code))

-----------------------------------------------------------------------------
(* Properties                                                               *)

\* What is booked is what the guest had been shown when pressing Confirm, although the
\* request says nothing of it, unless a turn ran beside another one or beside the
\* confirmation, or the last turn's answer was lost.
BookedAsRead ==
    visit.status = "confirmed" /\ ~muddled /\ ~behind => visit.content = read

\* A code opens one session, also when two pages present it.
OneSessionPerCode == \A c \in DOMAIN opened : opened[c] <= 1

\* A guest who has a complete draft and wants the table gets it, through mistyped
\* codes, lost requests and answers, and confirmations sent twice, unless the code is
\* sent to another number, expires, is used by another page or is consumed without an
\* answer, for which the page offers no other; or the confirmation is refused; or an
\* overtaken answer takes the panel away again.
GuestGetsThrough == Ready ~> booked \/ hindered \/ ~Ready

=============================================================================
