---------------------------- MODULE GuestAppProofs ----------------------------
(***************************************************************************)
(* Two invariants of the guest's page: CodeInv, of the one-time codes, and *)
(* PageInv, of what the page shows, reads back and books.                  *)
(*                                                                         *)
(* A one-time code opens at most one session, for any number of phones,    *)
(* codes, mistakes and lost requests, and whatever other pages of the same *)
(* guest do.  A count of sessions cannot be kept down by itself: what      *)
(* keeps it down is that a code that can still be used has opened none,    *)
(* that no two phones wait for the same code, and that a code not sent yet *)
(* has opened none either.                                                 *)
(***************************************************************************)
EXTENDS GuestApp, TLAPS

USE DEF Otp, Panel, Chat, Aside

\* A code somebody can still use has been sent, to one phone, and has opened nothing.
Unspent ==
    /\ \A p \in Phones : challenge[p] # NONE =>
          challenge[p].code \in 1 .. codes /\ opened[challenge[p].code] = 0
    /\ \A p, q \in Phones :
          p # q /\ challenge[p] # NONE /\ challenge[q] # NONE =>
              challenge[p].code # challenge[q].code

CodeInv ==
    /\ phone \in Phones
    /\ codes \in 0 .. MaxCodes
    /\ DOMAIN challenge = Phones
    /\ opened \in [1 .. MaxCodes -> Nat]
    /\ \A c \in 1 .. MaxCodes : opened[c] <= 1 /\ (c > codes => opened[c] = 0)
    /\ Unspent

-----------------------------------------------------------------------------

\* Sending a code: it is a new one.
LEMMA NewCodeKeepsCodes ==
    ASSUME CodeInv, NEW p \in Phones, NewCode(p), UNCHANGED <<opened, phone>>
    PROVE  CodeInv'
<1>1. /\ codes + 1 \in 1 .. MaxCodes /\ codes' = codes + 1 /\ opened[codes + 1] = 0
      /\ challenge' = [challenge EXCEPT ![p] = [code |-> codes + 1, expires |-> now + CodeTTL]]
  BY GuestAssumption DEF CodeInv, NewCode
<1>2. \A q \in Phones :
         /\ q = p => challenge'[q].code = codes + 1
         /\ q # p => challenge'[q] = challenge[q]
  BY <1>1 DEF CodeInv
<1>3. Unspent'
  BY <1>1, <1>2 DEF CodeInv, Unspent
<1> QED
  BY <1>1, <1>3 DEF CodeInv

\* Entering a code: the one that opens a session can be used no more.
LEMMA VerifyCodeKeepsCodes ==
    ASSUME CodeInv, NEW p \in Phones, NEW code, NEW accepted \in BOOLEAN,
           VerifyCode(p, code, accepted), UNCHANGED phone
    PROVE  CodeInv'
<1>1. CASE accepted
  <2>1. /\ challenge[p] # NONE /\ challenge[p].code = code
        /\ challenge' = [challenge EXCEPT ![p] = NONE]
        /\ opened' = [opened EXCEPT ![code] = IF @ < 2 THEN @ + 1 ELSE @]
        /\ codes' = codes
    BY <1>1 DEF VerifyCode, Alive, ChallengeAfter
  <2>2. code \in 1 .. codes /\ code \in 1 .. MaxCodes /\ opened[code] = 0
    BY <2>1, GuestAssumption DEF CodeInv, Unspent
  <2>3. /\ opened' \in [1 .. MaxCodes -> Nat] /\ opened'[code] = 1
        /\ \A c \in 1 .. MaxCodes : c # code => opened'[c] = opened[c]
    BY <2>1, <2>2 DEF CodeInv
  <2>4. \A q \in Phones : challenge'[q] # NONE =>
           challenge'[q] = challenge[q] /\ challenge[q].code # code
    BY <2>1 DEF CodeInv, Unspent
  <2>5. Unspent'
    BY <2>1, <2>3, <2>4, GuestAssumption DEF CodeInv, Unspent
  <2> QED
    BY <2>1, <2>2, <2>3, <2>5 DEF CodeInv
<1>2. CASE ~accepted
  <2>1. /\ DOMAIN challenge' = Phones /\ UNCHANGED <<codes, opened>>
        /\ \A q \in Phones : challenge'[q] = challenge[q]
    BY <1>2 DEF VerifyCode, ChallengeAfter, CodeInv
  <2> QED
    BY <2>1 DEF CodeInv, Unspent
<1> QED
  BY <1>1, <1>2

\* Everything else leaves the codes alone.
LEMMA OthersKeepCodes ==
    ASSUME CodeInv, UNCHANGED Otp, phone' \in Phones
    PROVE  CodeInv'
BY DEF CodeInv, Unspent

LEMMA CodesInit == GuestInit => CodeInv
BY GuestAssumption DEF GuestInit, PanelInit, CodeInv, Unspent

LEMMA CodesStep == CodeInv /\ [GuestNext]_guestVars => CodeInv'
<1> SUFFICES ASSUME CodeInv, [GuestNext]_guestVars PROVE CodeInv'
  OBVIOUS
<1>0. phone \in Phones
  BY DEF CodeInv
<1>1. CASE UNCHANGED guestVars
  BY <1>1, <1>0, OthersKeepCodes DEF guestVars
<1>2. CASE CustomerRequestOtp
  BY <1>2, <1>0, NewCodeKeepsCodes DEF CustomerRequestOtp
<1>3. CASE CustomerVerifyOtp
  <2>1. PICK accepted \in BOOLEAN : VerifyCode(phone, op.code, accepted)
    BY <1>3 DEF CustomerVerifyOtp
  <2> QED
    BY <2>1, <1>3, <1>0, VerifyCodeKeepsCodes DEF CustomerVerifyOtp
<1>4. CASE OtherPageAsks
  BY <1>4, NewCodeKeepsCodes, GuestAssumption DEF OtherPageAsks
<1>5. CASE OtherPageVerifies
  BY <1>5, VerifyCodeKeepsCodes, GuestAssumption DEF OtherPageVerifies
<1>6. CASE \E p \in Phones : PressSend(p)
  BY <1>6, OthersKeepCodes DEF PressSend
<1>7. CASE StartVisit \/ StartAnswered \/ StartFails \/ SendText \/ StartRecording
             \/ StopRecording \/ SubmitClip \/ DropClip
             \/ \E s \in Slots : ProcessTurn(s) \/ TurnAnswered(s) \/ TurnFails(s)
  BY <1>7, <1>0, OthersKeepCodes
  DEF StartVisit, StartAnswered, StartFails, SendText, StartRecording, StopRecording,
      SubmitClip, SubmitTurn, DropClip, ProcessTurn, TurnAnswered, TurnFails
<1>8. CASE CodeSent \/ UpsertCustomer \/ Verified \/ Confirm \/ Confirmed
             \/ \E code \in 0 .. MaxCodes : PressVerify(code)
  BY <1>8, <1>0, OthersKeepCodes
  DEF CodeSent, UpsertCustomer, Verified, Confirm, Confirmed, PressVerify
<1>9. CASE PressConfirm \/ RefuseConfirm \/ OpFails \/ Tick
  BY <1>9, <1>0, OthersKeepCodes DEF PressConfirm, RefuseConfirm, OpFails, Tick
<1> QED
  BY <1>1, <1>2, <1>3, <1>4, <1>5, <1>6, <1>7, <1>8, <1>9 DEF GuestNext, Requests

\* A code that DevOtpProvider has sent lets its holder in once, also when the guest and
\* another page of theirs present it, before it has been replaced or after.
THEOREM CodesOpenOneSession == GuestSpec => []OneSessionPerCode
<1>1. CodeInv => OneSessionPerCode
  BY DEF CodeInv, OneSessionPerCode
<1> QED
  BY <1>1, CodesInit, CodesStep, PTL DEF GuestSpec

-----------------------------------------------------------------------------
(* What is read back and what is booked                                     *)

PageTyped ==
    /\ visit \in [status : {"absent", "draft", "confirmed"}, content : Nat]
    /\ start \in {"asked", "held", "failed"} /\ seen \in Nat /\ turns \in Nat
    /\ DOMAIN flight = Slots /\ "name" \in DOMAIN op
    /\ \A s \in Flying : flight[s].stage = "answered" => flight[s].content \in Nat

\* As long as no turn has run beside another one or beside a confirmation: at most one is in
\* flight, of a draft, while nothing is being confirmed; its answer holds the draft as it is,
\* and so does the page, unless this answer is still to come or the last one was lost; and
\* what has been read back is what the page shows, and then what is booked.
Clear ==
    /\ \A s, u \in Flying : s = u
    /\ Flying # {} => ~Confirming /\ visit.status = "draft"
    /\ \A s \in Flying : flight[s].stage = "answered" => flight[s].content = visit.content
    /\ start = "held" /\ ~behind /\ (\A s \in Flying : flight[s].stage # "answered") =>
          seen = visit.content
    /\ Confirming /\ visit.status = "draft" => read = seen
    /\ visit.status = "confirmed" /\ ~behind => visit.content = read

PageInv ==
    /\ PageTyped
    /\ start = "held" => visit.status # "absent"
    /\ start # "held" => Flying = {} /\ seen = 0 /\ ~Confirming /\ visit.status # "confirmed"
    /\ ~muddled => Clear

\* The panel's other requests, the codes, the microphone and the clock.
LEMMA AsidePage ==
    ASSUME PageInv, UNCHANGED <<visit, start, flight, seen, turns, behind, muddled, read>>,
           "name" \in DOMAIN op', op'.name = "confirm" => op.name = "confirm"
    PROVE  PageInv'
BY DEF PageInv, PageTyped, Clear, Flying, Confirming

LEMMA StartPage ==
    ASSUME PageInv, StartVisit \/ StartAnswered \/ StartFails
    PROVE  PageInv'
<1>1. Flying' = Flying /\ UNCHANGED <<flight, turns, behind, muddled, read, op>>
  BY DEF StartVisit, StartAnswered, StartFails, Flying
<1>2. start = "asked" /\ (muddled \/ Flying = {})
  BY DEF StartVisit, StartAnswered, StartFails, PageInv, Clear
<1>3. CASE StartVisit
  <2>1. visit' = [status |-> "draft", content |-> 0] /\ UNCHANGED <<start, seen>>
    BY <1>3 DEF StartVisit
  <2> QED
    BY <1>1, <1>2, <2>1 DEF PageInv, PageTyped, Clear, Confirming
<1>4. CASE StartAnswered
  <2>1. /\ start' = "held" /\ seen' = visit.content /\ UNCHANGED visit
        /\ visit.status # "absent"
    BY <1>4 DEF StartAnswered, Draft
  <2> QED
    BY <1>1, <1>2, <2>1 DEF PageInv, PageTyped, Clear, Confirming
<1>5. CASE StartFails
  <2>1. start' = "failed" /\ UNCHANGED <<visit, seen>>
    BY <1>5 DEF StartFails
  <2> QED
    BY <1>1, <1>2, <2>1 DEF PageInv, PageTyped, Clear, Confirming
<1> QED
  BY <1>3, <1>4, <1>5

LEMMA SubmitPage ==
    ASSUME PageInv, SubmitTurn
    PROVE  PageInv'
<1>1. PICK s \in NextSlot : flight' = [flight EXCEPT ![s] = [stage |-> "sent"]]
  BY DEF SubmitTurn
<1>2. /\ start = "held" /\ turns' = turns + 1
      /\ UNCHANGED <<visit, start, seen, behind, read, op>>
  BY DEF SubmitTurn
<1>3. muddled' = (muddled \/ Flying # {} \/ Confirming \/ visit.status # "draft")
  BY Zenon DEF SubmitTurn
<1>4. s \in Slots
  <2>1. \E u \in Slots \ Flying : TRUE
    BY <1>1 DEF NextSlot, Flying
  <2> QED
    BY <1>1, <2>1 DEF NextSlot
<1>5. PageTyped' /\ \A u \in Flying' : u = s \/ u \in Flying
  BY <1>1, <1>2, <1>4 DEF PageInv, PageTyped, Flying
<1>6. ASSUME ~muddled' PROVE Clear'
  <2>1. ~muddled /\ Flying = {} /\ ~Confirming /\ visit.status = "draft"
    BY <1>3, <1>6
  <2>2. Flying' = {s} /\ flight'[s].stage = "sent"
    BY <1>1, <1>4, <2>1 DEF Flying, PageInv, PageTyped
  <2> QED
    BY <1>2, <2>1, <2>2 DEF PageInv, Clear, Confirming
<1> QED
  BY <1>2, <1>5, <1>6 DEF PageInv, Confirming

LEMMA ProcessPage ==
    ASSUME PageInv, NEW s \in Slots, ProcessTurn(s)
    PROVE  PageInv'
<1>1. PICK new \in {visit.content, turns} :
         /\ visit' = [visit EXCEPT !.content = new]
         /\ flight' = [flight EXCEPT ![s] = TurnRoute(visit')]
  BY DEF ProcessTurn
<1>2. /\ flight[s].stage = "sent"
      /\ UNCHANGED <<start, seen, turns, behind, op, read>>
  BY DEF ProcessTurn
<1>3. muddled' = (muddled \/ Confirming \/ visit.status # "draft")
  BY Zenon DEF ProcessTurn
<1>4. /\ visit'.status = visit.status /\ visit'.content = new /\ new \in Nat
      /\ visit' \in [status : {"absent", "draft", "confirmed"}, content : Nat]
  BY <1>1 DEF PageInv, PageTyped
<1>5. flight'[s].stage = "answered" /\ flight'[s].content = new
  BY <1>1, <1>4 DEF TurnRoute, AnswerCurrent, Draft, PageInv, PageTyped
<1>6. Flying' = Flying /\ s \in Flying /\ \A u \in Flying : u = s \/ flight'[u] = flight[u]
  BY <1>1, <1>2, <1>5 DEF Flying, PageInv, PageTyped
<1>7. PageTyped'
  BY <1>1, <1>2, <1>4, <1>5, <1>6 DEF PageInv, PageTyped
<1>8. ASSUME ~muddled' PROVE Clear'
  <2>1. ~muddled /\ ~Confirming /\ visit.status = "draft"
    BY <1>3, <1>8
  <2>2. Clear
    BY <2>1 DEF PageInv
  <2>3. \A u \in Flying : u = s
    BY <1>6, <2>2 DEF Clear
  <2> QED
    BY <1>2, <1>4, <1>5, <1>6, <2>1, <2>2, <2>3 DEF Clear, Confirming
<1> QED
  BY <1>2, <1>4, <1>6, <1>7, <1>8 DEF PageInv, Confirming

\* The turn is over, with its answer shown or not.
LEMMA TurnEndsPage ==
    ASSUME PageInv, NEW s \in Slots, TurnAnswered(s) \/ TurnFails(s)
    PROVE  PageInv'
<1>1. /\ flight' = [flight EXCEPT ![s] = [stage |-> "idle"]] /\ s \in Flying
      /\ UNCHANGED <<visit, start, turns, op, read, muddled>>
  BY DEF TurnAnswered, TurnFails, Flying
<1>2. Flying' = Flying \ {s} /\ \A u \in Flying' : flight'[u] = flight[u]
  BY <1>1 DEF Flying, PageInv, PageTyped
<1>3. CASE TurnAnswered(s)
  <2>1. /\ flight[s].stage = "answered" /\ seen' = flight[s].content /\ behind' = FALSE
    BY <1>3 DEF TurnAnswered
  <2> QED
    BY <1>1, <1>2, <2>1 DEF PageInv, PageTyped, Clear, Confirming
<1>4. CASE TurnFails(s)
  <2>1. /\ UNCHANGED seen
        /\ behind \/ flight[s].stage = "answered" => behind'
    <3>1. behind' = (behind \/ flight[s].stage = "answered")
      BY <1>4, Zenon DEF TurnFails
    <3>2. UNCHANGED seen
      BY <1>4 DEF TurnFails
    <3> QED
      BY <3>1, <3>2
  <2> QED
    BY <1>1, <1>2, <2>1 DEF PageInv, PageTyped, Clear, Confirming
<1> QED
  BY <1>3, <1>4

LEMMA ConfirmPage ==
    ASSUME PageInv, PressConfirm \/ Confirm
    PROVE  PageInv'
<1>1. UNCHANGED <<flight, start, seen, turns, behind>> /\ Flying' = Flying
  BY DEF PressConfirm, Confirm, Flying
<1>2. CASE PressConfirm
  <2>1. /\ op' = [name |-> "confirm", stage |-> "request"] /\ seen > 0 /\ UNCHANGED visit
        /\ read' = IF visit.status = "draft" THEN seen ELSE read
    BY <1>2 DEF PressConfirm, Press, Pressable, Ready, PanelDraft, ReadBack
  <2>2. muddled' = (muddled \/ Flying # {})
    BY <1>2, Zenon DEF PressConfirm
  <2>3. start = "held"
    BY <2>1 DEF PageInv
  <2>4. PageTyped'
    BY <1>1, <2>1 DEF PageInv, PageTyped
  <2>5. ASSUME ~muddled' PROVE Clear'
    <3>1. ~muddled /\ Flying = {}
      BY <2>2, <2>5
    <3> QED
      BY <1>1, <2>1, <2>3, <3>1 DEF PageInv, Clear
  <2> QED
    BY <1>1, <2>1, <2>3, <2>4, <2>5 DEF PageInv
<1>3. CASE Confirm
  <2>1. /\ Confirming /\ op' = [op EXCEPT !.stage = ConfirmRoute(Confirms)]
        /\ visit' = IF Confirms THEN [visit EXCEPT !.status = "confirmed"] ELSE visit
        /\ UNCHANGED <<read, muddled>>
    BY <1>3 DEF Confirm
  <2>2. "name" \in DOMAIN op' /\ op'.name = op.name
    BY <2>1 DEF PageInv, PageTyped
  <2>3. /\ visit' \in [status : {"absent", "draft", "confirmed"}, content : Nat]
        /\ visit'.content = visit.content
        /\ visit'.status = IF Confirms THEN "confirmed" ELSE visit.status
    BY <2>1 DEF PageInv, PageTyped
  <2>4. start = "held"
    BY <2>1 DEF PageInv
  <2>5. ASSUME ~muddled PROVE Clear'
    <3>1. Clear /\ Flying = {}
      BY <2>1, <2>5 DEF PageInv, Clear
    <3> QED
      BY <1>1, <2>1, <2>3, <2>4, <3>1 DEF Clear, Confirming, Confirms
  <2> QED
    BY <1>1, <2>1, <2>2, <2>3, <2>4, <2>5 DEF PageInv, PageTyped
<1> QED
  BY <1>2, <1>3

LEMMA PageInit == GuestInit => PageInv
BY GuestAssumption DEF GuestInit, PanelInit, PageInv, PageTyped, Clear, Flying, Confirming, NoOp

LEMMA PageStep == PageInv /\ [GuestNext]_guestVars => PageInv'
<1> SUFFICES ASSUME PageInv, [GuestNext]_guestVars PROVE PageInv'
  OBVIOUS
<1>0. "name" \in DOMAIN op
  BY DEF PageInv, PageTyped
<1>1. CASE UNCHANGED guestVars
  BY <1>0, <1>1, AsidePage DEF guestVars
<1>2. CASE SendText \/ SubmitClip
  BY <1>2, SubmitPage DEF SendText, SubmitClip
<1>3. CASE StartRecording \/ StopRecording \/ DropClip \/ Tick \/ OtherPageAsks \/ OtherPageVerifies
  BY <1>0, <1>3, AsidePage
  DEF StartRecording, StopRecording, DropClip, Tick, OtherPageAsks, OtherPageVerifies
<1>4. CASE CustomerRequestOtp \/ CustomerVerifyOtp \/ UpsertCustomer \/ RefuseConfirm
  <2>1. \E stage : op' = [op EXCEPT !.stage = stage]
    BY <1>4 DEF CustomerRequestOtp, CustomerVerifyOtp, UpsertCustomer, RefuseConfirm
  <2>2. "name" \in DOMAIN op' /\ op'.name = op.name
    BY <1>0, <2>1
  <2>3. UNCHANGED <<visit, start, flight, seen, turns, behind, muddled, read>>
    BY <1>4 DEF CustomerRequestOtp, CustomerVerifyOtp, UpsertCustomer, RefuseConfirm
  <2> QED
    BY <2>2, <2>3, AsidePage
<1>5. CASE CodeSent \/ Verified \/ Confirmed \/ OpFails
  <2>1. op' = NoOp
    BY <1>5 DEF CodeSent, Verified, Confirmed, OpFails
  <2>2. "name" \in DOMAIN op' /\ op'.name = "none"
    BY <2>1 DEF NoOp
  <2>3. UNCHANGED <<visit, start, flight, seen, turns, behind, muddled, read>>
    BY <1>5 DEF CodeSent, Verified, Confirmed, OpFails
  <2> QED
    BY <2>2, <2>3, AsidePage
<1>6. ASSUME NEW p \in Phones, PressSend(p) PROVE PageInv'
  <2>1. op' = [name |-> "send", stage |-> "request"]
        /\ UNCHANGED <<visit, start, flight, seen, turns, behind, muddled, read>>
    BY <1>6 DEF PressSend, Press
  <2> QED
    BY <2>1, AsidePage
<1>7. ASSUME NEW code \in 0 .. MaxCodes, PressVerify(code) PROVE PageInv'
  <2>1. op' = [name |-> "verify", stage |-> "request", code |-> code]
        /\ UNCHANGED <<visit, start, flight, seen, turns, behind, muddled, read>>
    BY <1>7 DEF PressVerify
  <2> QED
    BY <2>1, AsidePage
<1> QED
  BY <1>1, <1>2, <1>3, <1>4, <1>5, <1>6, <1>7, StartPage, ProcessPage, TurnEndsPage, ConfirmPage
  DEF GuestNext, Requests

\* What is booked is what the guest had read, although the request to confirm says nothing
\* of it, for any number of turns, lost answers and confirmations sent again.
THEOREM BookingsAreRead == GuestSpec => []BookedAsRead
<1>1. PageInv => BookedAsRead
  BY DEF PageInv, Clear, BookedAsRead
<1> QED
  BY <1>1, PageInit, PageStep, PTL DEF GuestSpec

=============================================================================
