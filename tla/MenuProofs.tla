------------------------------ MODULE MenuProofs ------------------------------
(***************************************************************************)
(* Owners edit the menu, and nobody else, through pages of any age, for    *)
(* any number of tabs, users, restaurants and dishes.  What a tab shows or *)
(* asks is true of the menu, the memberships and the cookie in so far as   *)
(* nothing has made it stale: an invariant of each page and each request,  *)
(* which the ghost marks old and switched qualify; and a request would     *)
(* make of the dish its page showed what the page says, however old it is. *)
(***************************************************************************)
EXTENDS Menu, TLAPS

Typed ==
    /\ member \in [Users -> Seq(Membership)]
    /\ dish \in [Dishes -> Dish \cup {NONE}]
    /\ cookie \in Token \cup {NONE}
    /\ page \in [Tabs -> Page]
    /\ req \in [Tabs -> Request]
    /\ now \in 0 .. MaxClock /\ writes \in 0 .. MaxWrites

\* The first membership of user u is at restaurant r.
WorksAt(u, r, members) == members[u] # <<>> /\ members[u][1].rest = r

\* Page p shows a dish as it is, and the restaurant of whoever is signed in.
PageHolds(p, dishes, members, signed) ==
    /\ p.view = "edit" => p.id # NONE
    /\ p.view \in {"menu", "edit"} /\ p.id # NONE =>
          /\ p.dish \in Dish /\ p.dish.rest = p.rest
          /\ ~p.old => p.dish = dishes[p.id]
    /\ p.view # "none" /\ ~p.switched /\ signed # NONE => WorksAt(signed.user, p.rest, members)

\* Request r would change the dish its page showed as its page says.
Meant(r) ==
    /\ r.act \in {"save", "toggle"} => r.seen \in Dish
    /\ r.act = "toggle" => (r.body.available <=> ~r.seen.available)
    /\ r.act = "save" => /\ r.body.available <=> (r.seen.available <=> ~r.flip)
                         /\ r.flip => r.body.content = r.seen.content

\* Request r is of the session of its page, for the restaurant of its page, and means the
\* dish as it is.
RequestHolds(r, dishes, members, signed) ==
    /\ r.act \in Writes => r.id \in Dishes
    /\ r.act \in {"save", "create"} => r.body \in Body
    /\ r.act = "toggle" => r.body \in [available : BOOLEAN]
    /\ r.stage \in {"guard", "run"} => r.token # NONE /\ r.rest \in Restaurants /\ r.role \in Roles
    /\ r.token # NONE => OwnedBy(r.token.user, members) \subseteq r.owned
    /\ r.stage = "run" /\ r.act \in Writes => r.rest \in r.owned
    /\ ~r.switched /\ r.token # NONE =>
          /\ signed \in {r.token, NONE}
          /\ r.act \in Writes => WorksAt(r.token.user, r.shown, members)
          /\ r.stage \in {"guard", "run"} => WorksAt(r.token.user, r.rest, members)
    /\ Meant(r) /\ (r.act \in {"save", "toggle"} /\ ~r.old => r.seen = dishes[r.id])

TabsHold ==
    \A t \in Tabs : /\ PageHolds(page[t], dish, member, cookie)
                    /\ RequestHolds(req[t], dish, member, cookie)

TabInv == Typed /\ TabsHold

-----------------------------------------------------------------------------
(* Pages and requests on their own                                          *)

LEMMA NoPageHolds ==
    ASSUME NEW ds, NEW ms, NEW c
    PROVE  NoPage \in Page /\ PageHolds(NoPage, ds, ms, c)
BY DEF NoPage, Page, PageHolds

LEMMA NoRequestHolds ==
    ASSUME NEW ds, NEW ms, NEW c
    PROVE  NoRequest \in Request /\ RequestHolds(NoRequest, ds, ms, c)
BY DEF NoRequest, Request, RequestHolds, Meant, Writes

\* Without a cookie less is claimed.
LEMMA PageSignedOut ==
    ASSUME NEW p, NEW ds, NEW ms, NEW c, PageHolds(p, ds, ms, c)
    PROVE  PageHolds(p, ds, ms, NONE)
BY DEF PageHolds

LEMMA RequestSignedOut ==
    ASSUME NEW r, NEW ds, NEW ms, NEW c, RequestHolds(r, ds, ms, c)
    PROVE  RequestHolds(r, ds, ms, NONE)
BY DEF RequestHolds

\* Nor of what has been made for another session.
Switched(x) == [x EXCEPT !.switched = TRUE]

LEMMA PageSwitched ==
    ASSUME NEW p \in Page, NEW ds, NEW ms, NEW c, NEW ns, NEW nc, PageHolds(p, ds, ms, c)
    PROVE  Switched(p) \in Page /\ PageHolds(Switched(p), ds, ns, nc)
BY DEF PageHolds, Page, Switched

\* Request q is r, of another session, with a longer history.
LaterRequest(q, r) ==
    /\ q \in Request /\ q.switched = TRUE
    /\ q.act = r.act /\ q.stage = r.stage /\ q.token = r.token /\ q.rest = r.rest
    /\ q.role = r.role /\ q.id = r.id /\ q.body = r.body /\ q.flip = r.flip
    /\ q.shown = r.shown /\ q.seen = r.seen /\ q.old = r.old
    /\ r.owned \subseteq q.owned

LEMMA RequestSwitched ==
    ASSUME NEW r \in Request, NEW ds, NEW ms, NEW c, NEW ns, NEW nc, RequestHolds(r, ds, ms, c),
           NEW q, LaterRequest(q, r),
           r.token # NONE => OwnedBy(r.token.user, ns) \subseteq q.owned
    PROVE  RequestHolds(q, ds, ns, nc)
<1>1. Meant(q)
  BY DEF RequestHolds, LaterRequest, Meant
<1> QED
  BY <1>1 DEF RequestHolds, LaterRequest

LEMMA SwitchedIsLater ==
    ASSUME NEW r \in Request, NEW more \in SUBSET Restaurants
    PROVE  /\ LaterRequest(Switched(r), r) /\ Switched(r).owned = r.owned
           /\ LET q == [Switched(r) EXCEPT !.owned = @ \cup more]
              IN  LaterRequest(q, r) /\ q.owned = r.owned \cup more
<1> DEFINE p == Switched(r)
           q == [p EXCEPT !.owned = @ \cup more]
<1>1. LaterRequest(p, r) /\ p.owned = r.owned
  BY DEF LaterRequest, Switched, Request
<1>2. p \in Request
  BY <1>1 DEF LaterRequest
<1> HIDE DEF p
<1>3. q \in Request /\ q.owned = r.owned \cup more
  BY <1>1, <1>2 DEF Request
<1>4. /\ q.act = p.act /\ q.stage = p.stage /\ q.token = p.token /\ q.rest = p.rest
      /\ q.role = p.role /\ q.id = p.id /\ q.body = p.body /\ q.flip = p.flip
      /\ q.shown = p.shown /\ q.seen = p.seen /\ q.old = p.old /\ q.switched = p.switched
  BY <1>2 DEF Request
<1> HIDE DEF q
<1>5. LaterRequest(q, r)
  BY <1>1, <1>3, <1>4 DEF LaterRequest
<1> QED
  BY <1>1, <1>3, <1>5 DEF p, q

\* A change of dish d leaves what is said of other dishes, and nothing is claimed of it
\* by what is marked old.
Older(x) == [x EXCEPT !.old = TRUE]

LEMMA PageOutdated ==
    ASSUME NEW p \in Page, NEW ds, NEW ms, NEW c, PageHolds(p, ds, ms, c),
           NEW d, NEW es, \A e \in Dishes \ {d} : es[e] = ds[e],
           NEW q, q = IF p.id = d THEN Older(p) ELSE p
    PROVE  q \in Page /\ PageHolds(q, es, ms, c)
BY DEF PageHolds, Page, Older

LEMMA RequestOutdated ==
    ASSUME NEW r \in Request, NEW ds, NEW ms, NEW c, RequestHolds(r, ds, ms, c),
           NEW d, NEW es, \A e \in Dishes \ {d} : es[e] = ds[e],
           NEW q, q = IF r.act \in Writes /\ r.id = d THEN Older(r) ELSE r
    PROVE  q \in Request /\ RequestHolds(q, es, ms, c)
<1>2. CASE r.act \in Writes /\ r.id = d
  <2>0. q = [r EXCEPT !.old = TRUE]
    BY <1>2 DEF Older
  <2>1. /\ q.old = TRUE /\ q.owned = r.owned /\ q.switched = r.switched
        /\ q.act = r.act /\ q.stage = r.stage /\ q.token = r.token /\ q.rest = r.rest
        /\ q.role = r.role /\ q.id = r.id /\ q.body = r.body /\ q.flip = r.flip
        /\ q.shown = r.shown /\ q.seen = r.seen
    BY <2>0 DEF Request
  <2>2. q \in Request
    BY <2>0 DEF Request
  <2>3. RequestHolds(q, es, ms, c)
    BY <2>1 DEF RequestHolds, Meant
  <2> QED
    BY <2>2, <2>3
<1>3. CASE ~(r.act \in Writes /\ r.id = d)
  <2>1. q = r
    BY <1>3
  <2>2. RequestHolds(r, es, ms, c)
    BY <1>3 DEF RequestHolds, Writes
  <2> QED
    BY <2>1, <2>2
<1> QED
  BY <1>2, <1>3

-----------------------------------------------------------------------------
(* The steps                                                                *)

\* Tab t gets another page, another request or both.
LEMMA OneTab ==
    ASSUME TabInv, NEW t \in Tabs, NEW p \in Page, NEW r \in Request,
           page' = [page EXCEPT ![t] = p], req' = [req EXCEPT ![t] = r],
           PageHolds(p, dish, member, cookie), RequestHolds(r, dish, member, cookie),
           cookie' \in {cookie, NONE}, UNCHANGED <<member, dish, now, writes>>
    PROVE  TabInv'
<1>1. Typed'
  BY DEF TabInv, Typed
<1>2. ASSUME NEW s \in Tabs
      PROVE  /\ PageHolds(page'[s], dish, member, cookie)
             /\ RequestHolds(req'[s], dish, member, cookie)
  BY DEF TabInv, Typed, TabsHold
<1>3. TabsHold'
  BY <1>2, PageSignedOut, RequestSignedOut DEF TabsHold
<1> QED
  BY <1>1, <1>3 DEF TabInv

\* Tab t gets another request and keeps its page.
LEMMA OneRequest ==
    ASSUME TabInv, NEW t \in Tabs, NEW r \in Request, RequestHolds(r, dish, member, cookie),
           req' = [req EXCEPT ![t] = r],
           UNCHANGED <<page, member, dish, cookie, now, writes>>
    PROVE  TabInv'
<1>1. page[t] \in Page /\ PageHolds(page[t], dish, member, cookie)
      /\ page' = [page EXCEPT ![t] = page[t]]
  BY DEF TabInv, Typed, TabsHold
<1> QED
  BY <1>1, OneTab

\* Tab t gets an answer.
LEMMA AnswerKeeps ==
    ASSUME TabInv, NEW t \in Tabs, NEW p \in Page, PageHolds(p, dish, member, cookie),
           Answer(t, p), cookie' \in {cookie, NONE}, UNCHANGED <<member, dish, now, writes>>
    PROVE  TabInv'
BY OneTab, NoRequestHolds DEF Answer

Asked(r) ==
    [r EXCEPT !.stage = "session", !.token = cookie,
              !.owned = IF cookie = NONE THEN {} ELSE OwnedBy(cookie.user, member)]

\* What is asked, once it is stamped with the cookie.
LEMMA AskedHolds ==
    ASSUME Typed, NEW r \in Request,
           r.act \in Writes => r.id \in Dishes,
           r.act \in {"save", "create"} => r.body \in Body,
           r.act = "toggle" => r.body \in [available : BOOLEAN],
           r.act \in Writes /\ ~r.switched /\ cookie # NONE =>
              WorksAt(cookie.user, r.shown, member),
           Meant(r), r.act \in {"save", "toggle"} /\ ~r.old => r.seen = dish[r.id]
    PROVE  Asked(r) \in Request /\ RequestHolds(Asked(r), dish, member, cookie)
<1> DEFINE q == Asked(r)
           o == IF cookie = NONE THEN {} ELSE OwnedBy(cookie.user, member)
<1>0. cookie \in Token \cup {NONE} /\ o \in SUBSET Restaurants
  BY DEF Typed, OwnedBy
<1>q. q = [r EXCEPT !.stage = "session", !.token = cookie, !.owned = o]
  BY DEF Asked
<1> HIDE DEF o, q
<1>1. /\ q.stage = "session" /\ q.token = cookie /\ q.owned = o
      /\ q.act = r.act /\ q.rest = r.rest /\ q.switched = r.switched
      /\ q.role = r.role /\ q.id = r.id /\ q.body = r.body /\ q.flip = r.flip
      /\ q.shown = r.shown /\ q.seen = r.seen /\ q.old = r.old
  BY <1>q DEF Request
<1>2. q \in Request
  BY <1>q, <1>0 DEF Request
<1>3. RequestHolds(q, dish, member, cookie)
  <2>1. Meant(q)
    BY <1>1 DEF Meant
  <2> QED
    BY <1>1, <2>1 DEF RequestHolds, o
<1> QED
  BY <1>2, <1>3 DEF q

LEMMA AskKeeps ==
    ASSUME TabInv, NEW t \in Tabs, NEW r, Ask(t, r),
           Asked(r) \in Request, RequestHolds(Asked(r), dish, member, cookie)
    PROVE  TabInv'
<1>1. req' = [req EXCEPT ![t] = Asked(r)] /\ UNCHANGED <<member, dish, cookie, now, writes>>
  BY DEF Ask, Asked, Rest, Counters
<1>2. CASE r.act \in Writes
  BY <1>1, <1>2, OneRequest DEF Ask
<1>3. CASE r.act \notin Writes
  BY <1>1, <1>3, OneTab, NoPageHolds DEF Ask
<1> QED
  BY <1>2, <1>3

LEMMA FreshFields ==
    ASSUME NEW act \in {"open", "new", "edit"}
    PROVE  Fresh(act) \in Request /\ Fresh(act).act = act /\ Meant(Fresh(act))
BY DEF Fresh, NoRequest, Request, Meant

LEMMA VisitsKeep ==
    ASSUME TabInv, NEW t \in Tabs, OpenMenu(t) \/ OpenNew(t) \/ OpenEdit(t)
    PROVE  TabInv'
<1> USE DEF TabInv
<1>1. CASE OpenMenu(t)
  <2>1. Asked(Fresh("open")) \in Request /\ RequestHolds(Asked(Fresh("open")), dish, member, cookie)
    BY FreshFields, AskedHolds DEF Writes
  <2> QED
    BY <1>1, <2>1, AskKeeps DEF OpenMenu
<1>2. CASE OpenNew(t)
  <2>1. Asked(Fresh("new")) \in Request /\ RequestHolds(Asked(Fresh("new")), dish, member, cookie)
    BY FreshFields, AskedHolds DEF Writes
  <2> QED
    BY <1>2, <2>1, AskKeeps DEF OpenNew
<1>3. CASE OpenEdit(t)
  <2> DEFINE r == [Fresh("edit") EXCEPT !.id = page[t].id]
  <2>1. r \in Request /\ r.act = "edit" /\ Meant(r)
    BY FreshFields DEF Typed, Page, Request, Meant
  <2> HIDE DEF r
  <2>2. Asked(r) \in Request /\ RequestHolds(Asked(r), dish, member, cookie)
    BY <2>1, AskedHolds DEF Writes
  <2> QED
    BY <1>3, <2>2, AskKeeps DEF OpenEdit, r
<1> QED
  BY <1>1, <1>2, <1>3

\* A form or button is of its page.
LEMMA AgedFields ==
    ASSUME Typed, NEW t \in Tabs, NEW act \in Writes, NEW d \in Dishes, page[t].view # "none",
           PageHolds(page[t], dish, member, cookie)
    PROVE  /\ Aged(t, act, d) \in Request
           /\ Aged(t, act, d).act = act /\ Aged(t, act, d).id = d
           /\ Aged(t, act, d).old <=> page[t].old
           /\ Aged(t, act, d).seen = page[t].dish
           /\ ~Aged(t, act, d).switched /\ cookie # NONE =>
                 WorksAt(cookie.user, Aged(t, act, d).shown, member)
<1>1. /\ page[t].old \in BOOLEAN /\ page[t].switched \in BOOLEAN
      /\ page[t].rest \in Restaurants \cup {NONE} /\ page[t].dish \in Dish \cup {NONE}
  BY DEF Typed, Page
<1> QED
  BY <1>1 DEF Aged, Fresh, NoRequest, Request, PageHolds, Writes

LEMMA SaveFormKeeps ==
    ASSUME TabInv, NEW t \in Tabs, SaveForm(t)
    PROVE  TabInv'
<1> USE DEF TabInv
<1> DEFINE p == page[t]
           d == p.id
           a == Aged(t, "save", d)
<1>1. PICK flip \in BOOLEAN : Ask(t, [a EXCEPT !.flip = flip, !.body = Form(t, flip)])
  BY DEF SaveForm
<1> DEFINE b == Form(t, flip)
           r == [a EXCEPT !.flip = flip, !.body = b]
<1>2. /\ p.view = "edit" /\ p \in Page /\ PageHolds(p, dish, member, cookie)
      /\ p.id \in Dishes /\ p.dish \in Dish /\ (~p.old => p.dish = dish[p.id])
  BY DEF SaveForm, Shows, Typed, TabsHold, PageHolds, Page
<1>3. writes + 1 \in 0 .. MaxWrites
  BY MenuAssumption DEF SaveForm, Typed
<1>4. /\ b \in Body
      /\ b.available <=> (p.dish.available <=> ~flip)
      /\ flip => b.content = p.dish.content
  BY <1>2, <1>3 DEF Form, Fields, Checkbox, Body, Dish
<1>5. /\ a \in Request /\ a.act = "save" /\ a.id = d /\ (a.old <=> p.old) /\ a.seen = p.dish
      /\ ~a.switched /\ cookie # NONE => WorksAt(cookie.user, a.shown, member)
  <2>1. /\ Typed /\ "save" \in Writes /\ page[t].view # "none" /\ d \in Dishes
        /\ PageHolds(page[t], dish, member, cookie)
    BY <1>2 DEF Writes
  <2> HIDE DEF d
  <2> QED
    BY <2>1, AgedFields
<1> HIDE DEF b, a
<1>6. /\ r \in Request /\ r.act = "save" /\ r.id = p.id /\ (r.flip <=> flip) /\ r.body = b
      /\ (r.old <=> p.old) /\ r.seen = p.dish
      /\ ~r.switched /\ cookie # NONE => WorksAt(cookie.user, r.shown, member)
  <2>1. r \in Request
    BY <1>4, <1>5 DEF Request
  <2>2. r.act = "save" /\ r.id = p.id /\ r.body = b /\ r.shown = a.shown /\ r.seen = a.seen
    BY <1>4, <1>5 DEF Request
  <2>3. (r.flip <=> flip) /\ (r.old <=> a.old) /\ (r.switched <=> a.switched)
    BY <1>4, <1>5 DEF Request
  <2> QED
    BY <2>1, <2>2, <2>3, <1>5
<1> HIDE DEF r
<1>7. Asked(r) \in Request /\ RequestHolds(Asked(r), dish, member, cookie)
  <2>1. Meant(r) /\ (~r.old => r.seen = dish[r.id])
    BY <1>2, <1>4, <1>6 DEF Meant
  <2> QED
    BY <2>1, <1>2, <1>4, <1>6, AskedHolds DEF Writes
<1> QED
  BY <1>1, <1>7, AskKeeps DEF a, b, r

LEMMA CreateFormKeeps ==
    ASSUME TabInv, NEW t \in Tabs, CreateForm(t)
    PROVE  TabInv'
<1> USE DEF TabInv
<1> DEFINE b == [content |-> writes + 1, available |-> TRUE]
<1>1. PICK d \in Dishes : Ask(t, [Aged(t, "create", d) EXCEPT !.body = b])
  BY DEF CreateForm
<1> DEFINE a == Aged(t, "create", d)
           r == [a EXCEPT !.body = b]
<1>2. page[t].view = "new" /\ PageHolds(page[t], dish, member, cookie)
  BY DEF CreateForm, Shows, TabsHold
<1>3. b \in Body
  BY MenuAssumption DEF CreateForm, Typed, Body
<1>4. /\ a \in Request /\ a.act = "create" /\ a.id = d
      /\ ~a.switched /\ cookie # NONE => WorksAt(cookie.user, a.shown, member)
  <2>1. /\ Typed /\ "create" \in Writes /\ page[t].view # "none" /\ d \in Dishes
        /\ PageHolds(page[t], dish, member, cookie)
    BY <1>2 DEF Writes
  <2> QED
    BY <2>1, AgedFields
<1> HIDE DEF a, b
<1>5. /\ r \in Request /\ r.act = "create" /\ r.id = d /\ r.body = b /\ Meant(r)
      /\ ~r.switched /\ cookie # NONE => WorksAt(cookie.user, r.shown, member)
  BY <1>3, <1>4 DEF Request, Meant
<1> HIDE DEF r
<1>6. Asked(r) \in Request /\ RequestHolds(Asked(r), dish, member, cookie)
  BY <1>3, <1>5, AskedHolds DEF Writes
<1> QED
  BY <1>1, <1>6, AskKeeps DEF r, a

LEMMA PressToggleKeeps ==
    ASSUME TabInv, NEW t \in Tabs, PressToggle(t)
    PROVE  TabInv'
<1> USE DEF TabInv
<1> DEFINE p == page[t]
           d == p.id
           a == Aged(t, "toggle", d)
           b == [available |-> ~p.dish.available]
           r == [a EXCEPT !.body = b]
<1>1. Ask(t, r)
  BY DEF PressToggle
<1>2. /\ p.view = "menu" /\ p \in Page /\ PageHolds(p, dish, member, cookie)
      /\ p.id \in Dishes /\ p.dish \in Dish /\ (~p.old => p.dish = dish[p.id])
  BY DEF PressToggle, CanManage, Shows, Typed, TabsHold, PageHolds, Page
<1>3. b \in [available : BOOLEAN] /\ (b.available <=> ~p.dish.available)
  BY <1>2 DEF Dish
<1>4. /\ a \in Request /\ a.act = "toggle" /\ a.id = d /\ (a.old <=> p.old) /\ a.seen = p.dish
      /\ ~a.switched /\ cookie # NONE => WorksAt(cookie.user, a.shown, member)
  <2>1. /\ Typed /\ "toggle" \in Writes /\ page[t].view # "none" /\ d \in Dishes
        /\ PageHolds(page[t], dish, member, cookie)
    BY <1>2 DEF Writes
  <2> HIDE DEF d
  <2> QED
    BY <2>1, AgedFields
<1> HIDE DEF b, a
<1>5. /\ r \in Request /\ r.act = "toggle" /\ r.id = p.id /\ r.body = b /\ (r.old <=> p.old)
      /\ r.seen = p.dish
      /\ ~r.switched /\ cookie # NONE => WorksAt(cookie.user, r.shown, member)
  BY <1>3, <1>4 DEF Request
<1> HIDE DEF r
<1>6. Asked(r) \in Request /\ RequestHolds(Asked(r), dish, member, cookie)
  <2>1. Meant(r) /\ (~r.old => r.seen = dish[r.id])
    BY <1>2, <1>3, <1>5 DEF Meant
  <2> QED
    BY <1>2, <1>3, <1>5, <2>1, AskedHolds DEF Writes
<1> QED
  BY <1>1, <1>6, AskKeeps

\* What is known of the tab whose request is served.
LEMMA ServedTab ==
    ASSUME TabInv, NEW t \in Tabs
    PROVE  /\ page[t] \in Page /\ PageHolds(page[t], dish, member, cookie)
           /\ req[t] \in Request /\ RequestHolds(req[t], dish, member, cookie)
           /\ req[t].switched \in BOOLEAN /\ req[t].token \in Token \cup {NONE}
           /\ req[t].token # NONE => req[t].token.user \in Users
BY RowsAssumption DEF TabInv, Typed, TabsHold, Request, Token

LEMMA FirstMembership ==
    ASSUME Typed, NEW u \in Users, member[u] # <<>>
    PROVE  Primary(u) \in Membership
BY DEF Typed, Primary

\* requireStaffSession sends the tab to the login page.
LEMMA SessionFailuresKeep ==
    ASSUME TabInv, NEW t \in Tabs, NoToken(t) \/ Unauthorized(t) \/ NoSession(t)
    PROVE  TabInv'
BY AnswerKeeps, NoPageHolds
DEF NoToken, Unauthorized, NoSession, SessionFails, Rest, Counters

LEMMA StaffMeKeeps ==
    ASSUME TabInv, NEW t \in Tabs, StaffMe(t)
    PROVE  TabInv'
<1> DEFINE r == req[t]
           u == r.token.user
           first == Primary(u)
<1>1. /\ r.stage = "session" /\ r.token # NONE /\ u \in Users /\ r.token \in Token
      /\ member[u] # <<>> /\ first \in Membership /\ first = member[u][1]
      /\ r \in Request /\ RequestHolds(r, dish, member, cookie) /\ r.switched \in BOOLEAN
      /\ UNCHANGED <<member, dish, cookie, now, writes>>
  BY ServedTab, FirstMembership DEF StaffMe, Waits, TabInv, Rest, Counters, Primary
<1>2. CASE req' = [req EXCEPT ![t].act = "open"] /\ UNCHANGED page
  <2> DEFINE q == [r EXCEPT !.act = "open"]
  <2>0. req' = [req EXCEPT ![t] = q]
    BY <1>2
  <2>1. q \in Request
    BY <1>1 DEF Request
  <2>2. /\ q.act = "open" /\ q.stage = "session" /\ q.token = r.token /\ q.owned = r.owned
        /\ (q.switched <=> r.switched)
    BY <1>1 DEF Request
  <2> HIDE DEF q, r
  <2>3. RequestHolds(q, dish, member, cookie)
    BY <1>1, <2>2 DEF RequestHolds, Meant, Writes
  <2> QED
    BY <1>1, <1>2, <2>0, <2>1, <2>3, OneRequest
<1>3. CASE Answer(t, NewForm(t))
  <2> DEFINE p == NewForm(t)
  <2>1. p = [NoPage EXCEPT !.view = "new", !.rest = first.rest, !.role = "owner",
                           !.switched = r.switched]
    BY DEF NewForm
  <2> HIDE DEF p, first
  <2>2. p \in Page
    BY <2>1, <1>1 DEF NoPage, Page, Membership, Roles
  <2>3. p.view = "new" /\ p.rest = first.rest /\ (p.switched <=> r.switched)
    BY <2>1, <1>1 DEF NoPage, Page
  <2> HIDE DEF r
  <2>4. PageHolds(p, dish, member, cookie)
    BY <2>3, <1>1 DEF PageHolds, RequestHolds, WorksAt
  <2> QED
    BY <1>1, <1>3, <2>2, <2>4, AnswerKeeps DEF p
<1>4. CASE /\ req' = [req EXCEPT ![t].stage = "guard", ![t].rest = first.rest,
                                 ![t].role = first.role]
           /\ UNCHANGED page
  <2> DEFINE q == [r EXCEPT !.stage = "guard", !.rest = first.rest, !.role = first.role]
  <2>0. req' = [req EXCEPT ![t] = q]
    BY <1>4, ServedTab DEF TabInv, Typed, Request
  <2> HIDE DEF first
  <2>1. q \in Request
    BY <1>1 DEF Request, Membership
  <2>2. /\ q.stage = "guard" /\ q.rest = first.rest /\ q.role = first.role
        /\ q.act = r.act /\ q.token = r.token /\ q.owned = r.owned /\ q.id = r.id
        /\ q.body = r.body /\ q.shown = r.shown /\ q.seen = r.seen
    BY <1>1 DEF Request
  <2>3. (q.switched <=> r.switched) /\ (q.old <=> r.old) /\ (q.flip <=> r.flip)
    BY <1>1 DEF Request
  <2> HIDE DEF q, r
  <2>4. RequestHolds(q, dish, member, cookie)
    <3>1. first.rest \in Restaurants /\ first.role \in Roles
          /\ WorksAt(u, first.rest, member)
      BY <1>1 DEF WorksAt, Membership
    <3>2. Meant(q)
      BY <1>1, <2>2, <2>3 DEF RequestHolds, Meant
    <3>3. q.act \in {"save", "toggle"} /\ ~q.old => q.seen = dish[q.id]
      BY <1>1, <2>2, <2>3 DEF RequestHolds
    <3>4. ~q.switched =>
             /\ cookie \in {q.token, NONE}
             /\ q.act \in Writes => WorksAt(q.token.user, q.shown, member)
             /\ WorksAt(q.token.user, q.rest, member)
      <4>1. ~r.switched => /\ cookie \in {r.token, NONE}
                           /\ r.act \in Writes => WorksAt(r.token.user, r.shown, member)
        BY <1>1 DEF RequestHolds
      <4>2. q.token = r.token /\ q.act = r.act /\ q.shown = r.shown
        BY <2>2
      <4>3. WorksAt(q.token.user, q.rest, member)
        BY <2>2, <3>1
      <4> QED
        BY <4>1, <4>2, <4>3, <2>3
    <3>5. /\ q.act \in Writes => q.id \in Dishes
          /\ q.act \in {"save", "create"} => q.body \in Body
          /\ q.act = "toggle" => q.body \in [available : BOOLEAN]
          /\ OwnedBy(q.token.user, member) \subseteq q.owned
      BY <1>1, <2>2 DEF RequestHolds
    <3>6. q.token # NONE /\ q.rest \in Restaurants /\ q.role \in Roles /\ q.stage = "guard"
      BY <1>1, <2>2, <3>1
    <3> QED
      BY <3>2, <3>3, <3>4, <3>5, <3>6 DEF RequestHolds
  <2> QED
    BY <1>1, <1>4, <2>0, <2>1, <2>4, OneRequest
<1> QED
  BY <1>2, <1>3, <1>4 DEF StaffMe

\* RolesGuard asks for the role that a history of owners is about.
LEMMA OwnerOwns ==
    ASSUME Typed, NEW u \in Users, NEW r \in Restaurants, "owner" \in RolesAt(u, r)
    PROVE  r \in OwnedBy(u, member)
<1>1. PICK i \in DOMAIN member[u] : member[u][i].rest = r /\ member[u][i].role = "owner"
  BY DEF RolesAt
<1>2. member[u][i] \in Membership
  BY DEF Typed
<1>3. member[u][i] = [rest |-> r, role |-> "owner"]
  BY <1>1, <1>2 DEF Membership
<1> QED
  BY <1>3 DEF OwnedBy

LEMMA GuardsKeep ==
    ASSUME TabInv, NEW t \in Tabs, Guards(t) \/ Invalid(t) \/ NoAnswer(t)
    PROVE  TabInv'
<1> DEFINE r == req[t]
           q == [r EXCEPT !.stage = "run"]
<1>1. /\ r.stage \in {"guard", "run"} /\ r \in Request /\ RequestHolds(r, dish, member, cookie)
      /\ UNCHANGED <<member, dish, cookie, now, writes>>
  BY ServedTab DEF Guards, Invalid, NoAnswer, Waits, Rest, Counters
<1>2. CASE FormStays(t)
  BY <1>1, <1>2, OneRequest, NoRequestHolds DEF FormStays
<1>3. CASE Answer(t, NoPage)
  BY <1>1, <1>3, AnswerKeeps, NoPageHolds
<1>4. CASE Allowed(t) /\ req' = [req EXCEPT ![t].stage = "run"] /\ UNCHANGED page
  <2>1. r.act \in Writes => r.rest \in r.owned
    <3>1. SUFFICES ASSUME r.act \in Writes PROVE r.rest \in r.owned
      OBVIOUS
    <3>2. "owner" \in RolesAt(r.token.user, r.rest)
      BY <1>4, <3>1 DEF Allowed, Writing
    <3>3. r.token # NONE /\ r.rest \in Restaurants /\ r.token.user \in Users
      BY <1>1, ServedTab DEF RequestHolds
    <3>4. r.rest \in OwnedBy(r.token.user, member)
      BY <3>2, <3>3, OwnerOwns DEF TabInv
    <3> QED
      BY <3>3, <3>4, <1>1 DEF RequestHolds
  <2>2. req' = [req EXCEPT ![t] = q] /\ q \in Request
    BY <1>4, <1>1 DEF Request
  <2>3. /\ q.stage = "run" /\ q.rest = r.rest /\ q.role = r.role
        /\ q.act = r.act /\ q.token = r.token /\ q.owned = r.owned /\ q.id = r.id
        /\ q.body = r.body /\ q.shown = r.shown /\ q.seen = r.seen
    BY <1>1 DEF Request
  <2>4. (q.switched <=> r.switched) /\ (q.old <=> r.old) /\ (q.flip <=> r.flip)
    BY <1>1 DEF Request
  <2> HIDE DEF q, r
  <2>5. RequestHolds(q, dish, member, cookie)
    <3>1. Meant(q)
      BY <1>1, <2>3, <2>4 DEF RequestHolds, Meant
    <3> QED
      BY <1>1, <2>1, <2>3, <2>4, <3>1 DEF RequestHolds
  <2> QED
    BY <1>1, <1>4, <2>2, <2>5, OneRequest
<1> QED
  BY <1>2, <1>3, <1>4 DEF Guards, Invalid, NoAnswer, Fails

\* A page that has just been rendered.
LEMMA RenderedHolds ==
    ASSUME TabInv, NEW t \in Tabs, Waits(t, "run"), NEW view \in {"menu", "edit"},
           NEW d, d \in InScope(req[t].rest) \/ (d = NONE /\ view = "menu")
    PROVE  LET p == Rendered(t, view, d)
           IN  p \in Page /\ PageHolds(p, dish, member, cookie)
<1> DEFINE r == req[t]
           p == Rendered(t, view, d)
<1>1. /\ r \in Request /\ RequestHolds(r, dish, member, cookie) /\ r.stage = "run"
      /\ r.rest \in Restaurants /\ r.role \in Roles
  BY ServedTab DEF Waits, RequestHolds
<1>2. /\ d \in Dishes \cup {NONE}
      /\ d # NONE => d \in Dishes /\ dish[d] \in Dish /\ dish[d].rest = r.rest
      /\ view = "edit" => d # NONE
  BY MenuAssumption DEF InScope, TabInv, Typed
<1>3. /\ p = [view |-> view, rest |-> r.rest, role |-> r.role, id |-> d,
              dish |-> IF d = NONE THEN NONE ELSE dish[d], old |-> FALSE, switched |-> r.switched]
      /\ r.switched \in BOOLEAN
  BY ServedTab DEF Rendered
<1> HIDE DEF p, r
<1>4. p \in Page
  BY <1>1, <1>2, <1>3 DEF Page
<1>5. /\ p.view = view /\ p.rest = r.rest /\ p.id = d /\ (p.switched <=> r.switched)
      /\ d # NONE => p.dish = dish[d]
  BY <1>3
<1>6. PageHolds(p, dish, member, cookie)
  BY <1>1, <1>2, <1>5 DEF PageHolds, RequestHolds
<1> QED
  BY <1>4, <1>6 DEF p

LEMMA ReadsKeep ==
    ASSUME TabInv, NEW t \in Tabs, List(t) \/ Get(t)
    PROVE  TabInv'
<1>1. CASE List(t)
  <2>1. PICK d : /\ d \in InScope(req[t].rest) \/ d = NONE
                 /\ Answer(t, Rendered(t, "menu", d))
    BY <1>1 DEF List
  <2>2. Rendered(t, "menu", d) \in Page /\ PageHolds(Rendered(t, "menu", d), dish, member, cookie)
    BY <1>1, <2>1, RenderedHolds DEF List
  <2> QED
    BY <1>1, <2>1, <2>2, AnswerKeeps DEF List, Rest, Counters
<1>2. CASE Get(t)
  <2> DEFINE d == req[t].id
  <2>1. CASE d \in InScope(req[t].rest)
    <3>1. Rendered(t, "edit", d) \in Page /\ PageHolds(Rendered(t, "edit", d), dish, member, cookie)
      BY <1>2, <2>1, RenderedHolds DEF Get
    <3> QED
      BY <1>2, <2>1, <3>1, AnswerKeeps DEF Get, Rest, Counters
  <2>2. CASE d \notin InScope(req[t].rest)
    BY <1>2, <2>2, NoPageHolds, AnswerKeeps DEF Get, Rest, Counters
  <2> QED
    BY <2>1, <2>2
<1> QED
  BY <1>1, <1>2

\* A dish is changed through tab t, which then shows p and asks q.
LEMMA WriteKeeps ==
    ASSUME TabInv, NEW t \in Tabs, NEW d \in Dishes,
           NEW ds \in [Dishes -> Dish \cup {NONE}], dish' = ds,
           \A e \in Dishes \ {d} : ds[e] = dish[e],
           NEW p \in Page, PageHolds(p, ds, member, cookie),
           NEW q \in Request, RequestHolds(q, ds, member, cookie),
           page' = [Outdated(page, Tabs \ {t}, d) EXCEPT ![t] = p],
           req' = [Requests(t, d) EXCEPT ![t] = q],
           writes' \in 0 .. MaxWrites, UNCHANGED <<member, cookie, now>>
    PROVE  TabInv'
<1>1. ASSUME NEW s \in Tabs
      PROVE  /\ page'[s] \in Page /\ PageHolds(page'[s], ds, member, cookie)
             /\ req'[s] \in Request /\ RequestHolds(req'[s], ds, member, cookie)
  <2>1. CASE s = t
    <3>1. page'[s] = p /\ req'[s] = q
      BY <2>1 DEF Outdated, Requests
    <3> QED
      BY <3>1
  <2>2. CASE s # t
    <3>1. page'[s] = IF page[s].id = d THEN Older(page[s]) ELSE page[s]
      BY <2>2 DEF Outdated, Older
    <3>2. req'[s] = IF req[s].act \in Writes /\ req[s].id = d THEN Older(req[s]) ELSE req[s]
      BY <2>2 DEF Outdated, Requests, Writing, Older
    <3>0. /\ page[s] \in Page /\ PageHolds(page[s], dish, member, cookie)
          /\ req[s] \in Request /\ RequestHolds(req[s], dish, member, cookie)
          /\ \A e \in Dishes \ {d} : ds[e] = dish[e]
      BY ServedTab
    <3> DEFINE x == page[s]
               xx == page'[s]
               y == req[s]
               yy == req'[s]
    <3>3. /\ x \in Page /\ PageHolds(x, dish, member, cookie)
          /\ y \in Request /\ RequestHolds(y, dish, member, cookie)
          /\ xx = IF x.id = d THEN Older(x) ELSE x
          /\ yy = IF y.act \in Writes /\ y.id = d THEN Older(y) ELSE y
      BY <3>0, <3>1, <3>2
    <3> HIDE DEF x, xx, y, yy
    <3>4. xx \in Page /\ PageHolds(xx, ds, member, cookie)
      BY <3>0, <3>3, PageOutdated
    <3>5. yy \in Request /\ RequestHolds(yy, ds, member, cookie)
      BY <3>0, <3>3, RequestOutdated
    <3> QED
      BY <3>4, <3>5 DEF xx, yy
  <2> QED
    BY <2>1, <2>2
<1>2. page' \in [Tabs -> Page] /\ req' \in [Tabs -> Request]
  <2>1. DOMAIN page' = Tabs /\ page' = [s \in Tabs |-> page'[s]]
    BY DEF Outdated
  <2>2. DOMAIN req' = Tabs /\ req' = [s \in Tabs |-> req'[s]]
    BY DEF Requests
  <2> QED
    BY <1>1, <2>1, <2>2
<1>3. Typed'
  BY <1>2 DEF TabInv, Typed
<1>4. TabsHold'
  BY <1>1 DEF TabsHold
<1> QED
  BY <1>3, <1>4 DEF TabInv

\* The menu is rendered anew, or the tab stays with what is out of date.
LEMMA AnsweredWriteKeeps ==
    ASSUME TabInv, NEW t \in Tabs, NEW d \in Dishes, NEW new \in Dish,
           dish' = [dish EXCEPT ![d] = new], Revalidate(t, d) \/ Unheard(t, d),
           writes' \in 0 .. MaxWrites, UNCHANGED <<member, cookie, now>>
    PROVE  TabInv'
<1> DEFINE ds == [dish EXCEPT ![d] = new]
<1>0. /\ ds \in [Dishes -> Dish \cup {NONE}] /\ dish' = ds
      /\ \A e \in Dishes \ {d} : ds[e] = dish[e]
  BY DEF TabInv, Typed
<1>1. CASE Revalidate(t, d)
  <2> DEFINE r == req[t]
             q == [Fresh("open") EXCEPT !.stage = "session", !.token = r.token,
                      !.owned = r.owned, !.switched = r.switched]
  <2>1. /\ q \in Request /\ q.act = "open" /\ q.stage = "session" /\ q.token = r.token
        /\ q.owned = r.owned /\ (q.switched <=> r.switched)
    <3>1. r.token \in Token \cup {NONE} /\ r.owned \in SUBSET Restaurants
          /\ r.switched \in BOOLEAN
      BY ServedTab DEF Request
    <3> HIDE DEF r
    <3>2. q \in Request
      BY <3>1, FreshFields DEF Request
    <3>3. q.act = "open" /\ q.stage = "session" /\ q.token = r.token /\ q.owned = r.owned
      BY <3>1, FreshFields DEF Request
    <3>4. q.switched <=> r.switched
      BY <3>1, FreshFields DEF Request
    <3> QED
      BY <3>2, <3>3, <3>4
  <2>2. RequestHolds(q, ds, member, cookie)
    <3>1. RequestHolds(r, dish, member, cookie)
      BY ServedTab
    <3> HIDE DEF q, r, ds
    <3> QED
      BY <2>1, <3>1 DEF RequestHolds, Meant, Writes
  <2>3. /\ page' = [Outdated(page, Tabs \ {t}, d) EXCEPT ![t] = NoPage]
        /\ req' = [Requests(t, d) EXCEPT ![t] = q]
    BY <1>1 DEF Revalidate
  <2>4. NoPage \in Page /\ PageHolds(NoPage, ds, member, cookie)
    BY NoPageHolds
  <2>5. q \in Request
    BY <2>1
  <2> HIDE DEF q, ds
  <2> QED
    BY <1>0, <2>2, <2>3, <2>4, <2>5, WriteKeeps
<1>2. CASE Unheard(t, d)
  <2> DEFINE x == page[t]
             o == IF x.id = d THEN Older(x) ELSE x
             p == IF req[t].act = "toggle" THEN NoPage ELSE o
  <2>1. x \in Page /\ PageHolds(x, dish, member, cookie)
    BY ServedTab
  <2>2. \A e \in Dishes \ {d} : ds[e] = dish[e]
    BY <1>0
  <2>3. page' = [Outdated(page, Tabs \ {t}, d) EXCEPT ![t] = p]
    <3>1. page' = [Outdated(page, Tabs, d) EXCEPT ![t] = IF req[t].act = "toggle" THEN NoPage ELSE @]
      BY <1>2 DEF Unheard
    <3> QED
      BY <3>1 DEF Outdated, Older
  <2>4. req' = [Requests(t, d) EXCEPT ![t] = NoRequest]
    BY <1>2 DEF Unheard
  <2> HIDE DEF x, ds
  <2>5. o \in Page /\ PageHolds(o, ds, member, cookie)
    BY <2>1, <2>2, PageOutdated
  <2>6. p \in Page /\ PageHolds(p, ds, member, cookie)
    BY <2>5, NoPageHolds
  <2>7. NoRequest \in Request /\ RequestHolds(NoRequest, ds, member, cookie)
    BY NoRequestHolds
  <2> HIDE DEF o, p
  <2> QED
    BY <1>0, <2>3, <2>4, <2>6, <2>7, WriteKeeps
<1> QED
  BY <1>1, <1>2

LEMMA UpdateKeeps ==
    ASSUME TabInv, NEW t \in Tabs, Update(t)
    PROVE  TabInv'
<1> DEFINE r == req[t]
           d == r.id
<1>1. /\ r.act \in {"save", "toggle"} /\ r.stage = "run" /\ r \in Request
      /\ RequestHolds(r, dish, member, cookie) /\ d \in Dishes
  BY ServedTab DEF Update, Waits, RequestHolds, Writes
<1>2. CASE d \in InScope(r.rest)
  <2>1. /\ writes < MaxWrites /\ writes' = writes + 1
        /\ dish' = [dish EXCEPT ![d] = Updated(t, d)]
        /\ Revalidate(t, d) \/ Unheard(t, d)
        /\ UNCHANGED <<member, cookie, now>>
    BY <1>2 DEF Update
  <2>2. writes' \in 0 .. MaxWrites /\ dish[d] \in Dish
    BY <2>1, <1>2, MenuAssumption DEF TabInv, Typed, InScope
  <2>3. CASE r.act = "toggle"
    <3>1. r.body \in [available : BOOLEAN]
      BY <1>1, <2>3 DEF RequestHolds
    <3>2. Updated(t, d) \in Dish
      BY <2>2, <2>3, <3>1 DEF Updated, Dish
    <3> QED
      BY <1>1, <2>1, <2>2, <3>2, AnsweredWriteKeeps
  <2>4. CASE r.act = "save"
    <3>1. r.body \in Body
      BY <1>1, <2>4 DEF RequestHolds
    <3>2. Updated(t, d) \in Dish
      BY <2>2, <2>4, <3>1 DEF Updated, Dish, Body
    <3> QED
      BY <1>1, <2>1, <2>2, <3>2, AnsweredWriteKeeps
  <2> QED
    BY <1>1, <2>3, <2>4
<1>3. CASE d \notin InScope(r.rest)
  <2>1. /\ FormStays(t) \/ Answer(t, NoPage)
        /\ UNCHANGED <<member, dish, cookie, now, writes>>
    BY <1>3 DEF Update, Fails
  <2> QED
    BY <2>1, OneRequest, NoRequestHolds, AnswerKeeps, NoPageHolds DEF FormStays
<1> QED
  BY <1>2, <1>3

LEMMA CreateKeeps ==
    ASSUME TabInv, NEW t \in Tabs, Create(t)
    PROVE  TabInv'
<1> DEFINE r == req[t]
           d == r.id
           new == [rest |-> r.rest, content |-> r.body.content, available |-> r.body.available]
<1>1. /\ r.act = "create" /\ r.stage = "run"
      /\ RequestHolds(r, dish, member, cookie) /\ d \in Dishes
  BY ServedTab DEF Create, Waits, RequestHolds, Writes
<1>2. r.rest \in Restaurants /\ r.body \in Body
  BY <1>1 DEF RequestHolds
<1>3. new \in Dish
  BY <1>2 DEF Dish, Body
<1>4. /\ dish' = [dish EXCEPT ![d] = new] /\ (Revalidate(t, d) \/ Unheard(t, d))
      /\ writes' \in 0 .. MaxWrites /\ UNCHANGED <<member, cookie, now>>
  BY MenuAssumption DEF Create, TabInv, Typed
<1> QED
  BY <1>1, <1>3, <1>4, AnsweredWriteKeeps

\* Somebody signs in or out.
LEMMA SwitchKeeps ==
    ASSUME TabInv, NEW c \in Token \cup {NONE}, cookie' = c,
           page' = Switch(page, NoPage), req' = Switch(req, NoRequest),
           UNCHANGED <<member, dish, now, writes>>
    PROVE  TabInv'
<1>1. ASSUME NEW t \in Tabs
      PROVE  /\ page'[t] \in Page /\ PageHolds(page'[t], dish, member, c)
             /\ req'[t] \in Request /\ RequestHolds(req'[t], dish, member, c)
  <2> DEFINE x == page[t]
             y == req[t]
             xx == page'[t]
             yy == req'[t]
  <2>1. /\ xx = IF x = NoPage THEN NoPage ELSE Switched(x)
        /\ yy = IF y = NoRequest THEN NoRequest ELSE Switched(y)
    BY DEF Switch, Switched
  <2>2. /\ x \in Page /\ PageHolds(x, dish, member, cookie)
        /\ y \in Request /\ RequestHolds(y, dish, member, cookie)
    BY ServedTab
  <2> HIDE DEF x, y, xx, yy
  <2>3. xx \in Page /\ PageHolds(xx, dish, member, c)
    BY <2>1, <2>2, NoPageHolds, PageSwitched
  <2>4. LaterRequest(Switched(y), y) /\ Switched(y).owned = y.owned
    BY <2>2, SwitchedIsLater
  <2>5. y.token # NONE => OwnedBy(y.token.user, member) \subseteq y.owned
    BY <2>2 DEF RequestHolds
  <2>6. Switched(y) \in Request /\ RequestHolds(Switched(y), dish, member, c)
    BY <2>2, <2>4, <2>5, RequestSwitched DEF LaterRequest
  <2>7. yy \in Request /\ RequestHolds(yy, dish, member, c)
    BY <2>1, <2>6, NoRequestHolds
  <2> QED
    BY <2>3, <2>7 DEF xx, yy
<1>2. page' \in [Tabs -> Page] /\ req' \in [Tabs -> Request]
  BY <1>1 DEF Switch
<1>3. Typed'
  BY <1>2 DEF TabInv, Typed
<1>4. TabsHold'
  BY <1>1 DEF TabsHold
<1> QED
  BY <1>3, <1>4 DEF TabInv

LEMMA SessionsKeep ==
    ASSUME TabInv, Logout \/ Forget \/ \E u \in Users : Login(u)
    PROVE  TabInv'
<1>1. CASE Logout
  BY <1>1, SwitchKeeps DEF Logout, Rest, Counters
<1>2. CASE Forget
  <2>1. cookie' = NONE /\ UNCHANGED <<page, req, member, dish, now, writes>>
    BY <1>2 DEF Forget, Rest, Counters
  <2>2. Typed'
    BY <2>1 DEF TabInv, Typed
  <2>3. TabsHold'
    BY <2>1, PageSignedOut, RequestSignedOut DEF TabInv, TabsHold
  <2> QED
    BY <2>2, <2>3 DEF TabInv
<1>3. ASSUME NEW u \in Users, Login(u)
      PROVE  TabInv'
  <2> DEFINE c == [user |-> u, expires |-> now + TTL]
  <2>1. c \in Token
    BY MenuAssumption DEF TabInv, Typed, Token
  <2>2. /\ cookie' = c /\ page' = Switch(page, NoPage) /\ req' = Switch(req, NoRequest)
        /\ UNCHANGED <<member, dish, now, writes>>
    BY <1>3 DEF Login
  <2> HIDE DEF c
  <2> QED
    BY <2>1, <2>2, SwitchKeeps
<1> QED
  BY <1>1, <1>2, <1>3

\* A membership is taken away or changed: what waits of that user has a longer history.
LEMMA ChangeMembershipKeeps ==
    ASSUME TabInv, NEW u \in Users, ChangeMembership(u)
    PROVE  TabInv'
<1> DEFINE more == OwnedBy(u, member')
<1>1. member' \in [Users -> Seq(Membership)] /\ \A v \in Users \ {u} : member'[v] = member[v]
  <2>1. PICK rows \in {Tail(member[u])}
                     \cup {[member[u] EXCEPT ![1].role = r] : r \in Roles \ {Primary(u).role}} :
          member' = [member EXCEPT ![u] = rows]
    BY DEF ChangeMembership
  <2>2. member[u] \in Seq(Membership) /\ member[u] # <<>> /\ member[u][1] \in Membership
    BY FirstMembership DEF ChangeMembership, TabInv, Typed, Primary
  <2>3. Tail(member[u]) \in Seq(Membership)
    BY <2>2
  <2>4. ASSUME NEW r \in Roles
        PROVE  [member[u] EXCEPT ![1].role = r] \in Seq(Membership)
    <3>1. [member[u][1] EXCEPT !.role = r] \in Membership
      BY <2>2 DEF Membership
    <3> QED
      BY <2>2, <3>1
  <2>5. rows \in Seq(Membership)
    BY <2>1, <2>3, <2>4
  <2> QED
    BY <2>1, <2>5 DEF TabInv, Typed
<1>2. more \in SUBSET Restaurants
  BY DEF OwnedBy
<1>3. UNCHANGED <<dish, cookie, now, writes>> /\ page' = Switch(page, NoPage)
  BY DEF ChangeMembership
<1>4. \A v \in Users \ {u} : OwnedBy(v, member') = OwnedBy(v, member)
  BY <1>1 DEF OwnedBy
<1>5. ASSUME NEW t \in Tabs
      PROVE  /\ page'[t] \in Page /\ PageHolds(page'[t], dish, member', cookie)
             /\ req'[t] \in Request /\ RequestHolds(req'[t], dish, member', cookie)
  <2> DEFINE x == page[t]
             y == req[t]
             xx == page'[t]
             yy == req'[t]
             z == [Switched(y) EXCEPT !.owned = @ \cup more]
             ns == member'
  <2>1. /\ xx = IF x = NoPage THEN NoPage ELSE Switched(x)
        /\ yy = IF y.token # NONE /\ y.token.user = u
                THEN [(IF y = NoRequest THEN NoRequest ELSE Switched(y)) EXCEPT !.owned = @ \cup more]
                ELSE IF y = NoRequest THEN NoRequest ELSE Switched(y)
    BY <1>3 DEF Switch, Switched, ChangeMembership
  <2>2. /\ x \in Page /\ PageHolds(x, dish, member, cookie)
        /\ y \in Request /\ RequestHolds(y, dish, member, cookie)
        /\ y.token # NONE => y.token.user \in Users
    BY ServedTab
  <2>3. NoRequest.token = NONE
    BY DEF NoRequest
  <2>4. yy \in {NoRequest, Switched(y), z}
        /\ (y.token # NONE /\ y.token.user = u => yy = z)
    BY <2>1, <2>3
  <2>5. /\ LaterRequest(Switched(y), y) /\ Switched(y).owned = y.owned
        /\ LaterRequest(z, y) /\ z.owned = y.owned \cup more
    BY <2>2, <1>2, SwitchedIsLater
  <2>6. y.token # NONE => OwnedBy(y.token.user, member) \subseteq y.owned
    BY <2>2 DEF RequestHolds
  <2>7. y.token # NONE /\ y.token.user # u => OwnedBy(y.token.user, ns) \subseteq y.owned
    BY <2>2, <2>6, <1>4
  <2>8. y.token # NONE /\ y.token.user = u => OwnedBy(y.token.user, ns) \subseteq z.owned
    BY <2>5
  <2> HIDE DEF x, y, xx, yy, z, more, ns
  <2>9. xx \in Page /\ PageHolds(xx, dish, ns, cookie)
    BY <2>1, <2>2, NoPageHolds, PageSwitched
  <2>10. z \in Request /\ RequestHolds(z, dish, ns, cookie)
    <3>1. y.token # NONE => OwnedBy(y.token.user, ns) \subseteq z.owned
      BY <2>5, <2>7, <2>8
    <3> QED
      BY <2>2, <2>5, <3>1, RequestSwitched DEF LaterRequest
  <2>11. ASSUME ~(y.token # NONE /\ y.token.user = u)
         PROVE  Switched(y) \in Request /\ RequestHolds(Switched(y), dish, ns, cookie)
    BY <2>2, <2>5, <2>7, <2>11, RequestSwitched DEF LaterRequest
  <2>12. yy \in Request /\ RequestHolds(yy, dish, ns, cookie)
    BY <2>4, <2>10, <2>11, NoRequestHolds
  <2> QED
    BY <2>9, <2>12 DEF xx, yy, ns
<1>6. page' \in [Tabs -> Page] /\ req' \in [Tabs -> Request]
  <2>1. page' = [t \in Tabs |-> page'[t]]
    BY <1>3 DEF Switch
  <2>2. req' = [t \in Tabs |-> req'[t]]
    BY DEF ChangeMembership
  <2> QED
    BY <2>1, <2>2, <1>5
<1>7. Typed'
  BY <1>1, <1>3, <1>6 DEF TabInv, Typed
<1>8. TabsHold'
  BY <1>3, <1>5 DEF TabsHold
<1> QED
  BY <1>7, <1>8 DEF TabInv

-----------------------------------------------------------------------------

LEMMA MenuInitHolds == MenuInit => TabInv
<1> SUFFICES ASSUME MenuInit PROVE TabInv
  OBVIOUS
<1>1. page \in [Tabs -> Page] /\ req \in [Tabs -> Request]
  BY NoPageHolds, NoRequestHolds DEF MenuInit
<1>2. TabsHold
  BY NoPageHolds, NoRequestHolds DEF MenuInit, TabsHold
<1>3. dish \in [Dishes -> Dish \cup {NONE}]
  <2> DEFINE d == CHOOSE d \in Dishes : TRUE
             r == CHOOSE r \in Restaurants : TRUE
             new == [rest |-> r, content |-> 0, available |-> TRUE]
  <2>1. r \in Restaurants
    BY MenuAssumption
  <2>2. new \in Dish
    BY <2>1, MenuAssumption DEF Dish
  <2>3. dish = [e \in Dishes |-> IF e = d THEN new ELSE NONE]
    BY DEF MenuInit
  <2> HIDE DEF d, new
  <2> QED
    BY <2>2, <2>3
<1>4. cookie \in Token \cup {NONE}
  BY MenuAssumption DEF MenuInit, Token
<1>5. Typed
  BY <1>1, <1>3, <1>4, MenuAssumption, RowsAssumption DEF MenuInit, Typed
<1> QED
  BY <1>2, <1>5 DEF TabInv

LEMMA TabStep == TabInv /\ [MenuNext]_menuVars => TabInv'
<1> SUFFICES ASSUME TabInv, [MenuNext]_menuVars PROVE TabInv'
  OBVIOUS
<1>1. ASSUME NEW t \in Tabs, Click(t) PROVE TabInv'
  BY <1>1, VisitsKeep, SaveFormKeeps, CreateFormKeeps, PressToggleKeeps DEF Click
<1>2. ASSUME NEW t \in Tabs, Serve(t) PROVE TabInv'
  BY <1>2, SessionFailuresKeep, StaffMeKeeps, GuardsKeep, ReadsKeep, UpdateKeeps, CreateKeeps
  DEF Serve
<1>3. ASSUME NEW u \in Users, Login(u) PROVE TabInv'
  BY <1>3, SessionsKeep
<1>4. ASSUME NEW u \in Users, ChangeMembership(u) PROVE TabInv'
  BY <1>4, ChangeMembershipKeeps
<1>5. CASE Logout \/ Forget
  BY <1>5, SessionsKeep
<1>6. CASE Tick
  <2>1. /\ UNCHANGED <<member, dish, cookie, page, req, writes>> /\ now' \in 0 .. MaxClock
    BY <1>6, MenuAssumption DEF Tick, TabInv, Typed
  <2> QED
    BY <2>1 DEF TabInv, Typed, TabsHold
<1>7. CASE UNCHANGED menuVars
  BY <1>7 DEF menuVars, TabInv, Typed, TabsHold
<1> QED
  BY <1>1, <1>2, <1>3, <1>4, <1>5, <1>6, <1>7 DEF MenuNext

\* Whatever a tab shows or asks is as true as its marks say, in every reachable state.
THEOREM TabsAreTrue == MenuSpec => []TabInv
BY MenuInitHolds, TabStep, PTL DEF MenuSpec

\* Pages are served from no copy: what a tab shows is the menu as it is, unless another
\* tab has changed it, or its own form has and was told that it had failed.
THEOREM PagesAreServedFresh == MenuSpec => []MenuInv
<1>1. TabInv => MenuInv
  BY DEF TabInv, Typed, TabsHold, PageHolds, MenuInv, Shows
<1> QED
  BY <1>1, TabsAreTrue, PTL

-----------------------------------------------------------------------------
(* What a step may do                                                       *)

\* Only the two writes of the API touch a dish or count as one.
LEMMA WritersWrite ==
    ASSUME [MenuNext]_menuVars, dish' # dish \/ writes' # writes
    PROVE  \E t \in Tabs :
              /\ Update(t) \/ Create(t)
              /\ writes < MaxWrites /\ writes' = writes + 1
<1>1. ~UNCHANGED <<dish, writes>>
  OBVIOUS
<1>2. ASSUME NEW t \in Tabs, Click(t) PROVE UNCHANGED <<dish, writes>>
  BY <1>2 DEF Click, OpenMenu, OpenNew, OpenEdit, SaveForm, CreateForm, PressToggle, Ask, Rest,
              Counters
<1>3. ASSUME NEW t \in Tabs, Serve(t), ~Update(t), ~Create(t) PROVE UNCHANGED <<dish, writes>>
  BY <1>3 DEF Serve, NoToken, Unauthorized, NoSession, StaffMe, Invalid, Guards, NoAnswer, List, Get, Rest,
              Counters
<1>4. ASSUME \/ \E u \in Users : Login(u) \/ ChangeMembership(u)
             \/ Logout \/ Forget \/ Tick \/ UNCHANGED menuVars
      PROVE  UNCHANGED <<dish, writes>>
  BY <1>4 DEF Login, ChangeMembership, Logout, Forget, Tick, menuVars, Rest, Counters
<1>5. PICK t \in Tabs : Update(t) \/ Create(t)
  BY <1>1, <1>2, <1>3, <1>4 DEF MenuNext
<1>6. writes < MaxWrites /\ writes' = writes + 1
  BY <1>1, <1>5 DEF Update, Create
<1> QED
  BY <1>5, <1>6

\* What a write does: to the one dish it is for, of the restaurant it is for.
LEMMA WritesAreScoped ==
    ASSUME TabInv, NEW t \in Tabs, Update(t) \/ Create(t), writes' # writes
    PROVE  LET r == req[t] d == r.id IN
           /\ r.act \in Writes /\ r.stage = "run" /\ d \in Dishes /\ r.rest \in r.owned
           /\ \A e \in Dishes \ {d} : dish'[e] = dish[e]
           /\ dish'[d].rest = r.rest
           /\ r.act = "create" => dish[d] = NONE
           /\ r.act # "create" => dish[d] \in Dish /\ dish[d].rest = r.rest /\ dish'[d] = Updated(t, d)
           /\ Revalidate(t, d) \/ Unheard(t, d)
<1> DEFINE r == req[t]
           d == r.id
<1>1. RequestHolds(r, dish, member, cookie) /\ dish \in [Dishes -> Dish \cup {NONE}]
  BY ServedTab DEF TabInv, Typed
<1>2. r.act \in Writes /\ r.stage = "run" /\ d \in Dishes /\ r.rest \in r.owned
  BY <1>1 DEF Update, Create, Waits, Writes, RequestHolds
<1>3. CASE Update(t)
  <2>1. /\ d \in InScope(r.rest) /\ r.act # "create" /\ (Revalidate(t, d) \/ Unheard(t, d))
        /\ dish' = [dish EXCEPT ![d] = Updated(t, d)]
    BY <1>3 DEF Update
  <2>2. dish[d] \in Dish /\ dish[d].rest = r.rest
    BY <2>1, <1>1 DEF InScope
  <2>3. Updated(t, d).rest = r.rest
    BY <2>2 DEF Updated, Dish
  <2> QED
    BY <1>1, <1>2, <2>1, <2>2, <2>3
<1>4. CASE Create(t)
  BY <1>1, <1>2, <1>4 DEF Create
<1> QED
  BY <1>3, <1>4

\* No dish is made or changed but for an owner of its restaurant, by whatever page, and
\* none changes hands.
THEOREM OnlyOwnersWrite == MenuSpec => OwnersOnly
<1>1. ASSUME TabInv, [MenuNext]_menuVars, NEW e \in Dishes, dish'[e] # dish[e]
      PROVE  /\ \E t \in Tabs : /\ Waits(t, "run") /\ Writing(t) /\ req[t].id = e
                                /\ dish'[e].rest \in req[t].owned
             /\ dish[e] # NONE => dish'[e].rest = dish[e].rest
  <2>1. PICK t \in Tabs : Update(t) \/ Create(t)
    BY <1>1, WritersWrite
  <2>2. writes' # writes
    <3>1. dish' # dish
      BY <1>1
    <3>2. writes \in 0 .. MaxWrites
      BY <1>1 DEF TabInv, Typed
    <3> QED
      BY <1>1, <3>1, <3>2, WritersWrite, MenuAssumption
  <2>3. /\ e = req[t].id /\ req[t].act \in Writes /\ req[t].stage = "run"
        /\ dish'[e].rest \in req[t].owned
        /\ dish[e] # NONE => dish'[e].rest = dish[e].rest
    BY <1>1, <2>1, <2>2, WritesAreScoped
  <2> QED
    BY <2>3 DEF Waits, Writing
<1>2. TabInv /\ [MenuNext]_menuVars =>
         \A d \in Dishes : dish'[d] # dish[d] =>
            /\ \E t \in Tabs : Waits(t, "run") /\ Writing(t) /\ req[t].id = d /\ dish'[d].rest \in req[t].owned
            /\ dish[d] # NONE => dish'[d].rest = dish[d].rest
  BY <1>1
<1> QED
  BY <1>2, TabsAreTrue, PTL DEF MenuSpec, OwnersOnly

\* A form or button makes of the dish its page showed what its page says it makes, where
\* its page says it does, however old the page is.
THEOREM FormsAreApplied == MenuSpec => FormsMeanWhatTheyShow
<1> DEFINE Means(t) ==
             LET r == req[t] before == dish[r.id] after == dish'[r.id] IN
             /\ ~r.switched => after.rest = r.shown
             /\ r.act # "create" /\ ~r.old => before = r.seen
             /\ r.act = "toggle" =>
                   after.available # r.seen.available /\ after.content = before.content
             /\ r.act = "save" =>
                   /\ after.available # r.seen.available <=> r.flip
                   /\ r.flip => after.content = r.seen.content
<1>1. ASSUME TabInv, [MenuNext]_menuVars, NEW t \in Tabs, Applied(t)
      PROVE  Means(t)
  <2> DEFINE r == req[t]
             d == r.id
             before == dish[d]
             after == dish'[d]
  <2>1. Update(t) \/ Create(t)
    <3>1. PICK s \in Tabs : Update(s) \/ Create(s)
      BY <1>1, WritersWrite DEF Applied
    <3>2. Revalidate(s, req[s].id) \/ Unheard(s, req[s].id)
      BY <1>1, <3>1, WritesAreScoped DEF Applied
    <3>3. ASSUME s # t PROVE FALSE
      <4>1. req'[t] \in {r, Older(r)}
        BY <3>2, <3>3 DEF Revalidate, Unheard, Requests, Outdated, Older
      <4>2. r \in Request
        BY <1>1, ServedTab
      <4>3. req'[t].act = r.act
        BY <4>1, <4>2 DEF Older, Request
      <4> QED
        BY <1>1, <4>3 DEF Applied, Writing
    <3> QED
      BY <3>1, <3>3
  <2>2. /\ r.act \in Writes /\ r.stage = "run" /\ after.rest = r.rest
        /\ r.act # "create" => before \in Dish /\ after = Updated(t, d)
    BY <1>1, <2>1, WritesAreScoped DEF Applied
  <2>3. RequestHolds(r, dish, member, cookie) /\ r.switched \in BOOLEAN /\ r.flip \in BOOLEAN
    BY <1>1, ServedTab DEF Request
  <2>4. ~r.switched => after.rest = r.shown
    BY <2>2, <2>3 DEF RequestHolds, WorksAt
  <2>5. r.act # "create" => r.act \in {"save", "toggle"} /\ r.seen \in Dish
    BY <2>2, <2>3 DEF RequestHolds, Meant, Writes
  <2>6. r.act # "create" /\ ~r.old => before = r.seen
    BY <2>3, <2>5 DEF RequestHolds
  <2>7. ASSUME r.act = "toggle"
        PROVE  after.available # r.seen.available /\ after.content = before.content
    <3>1. /\ r.body.available \in BOOLEAN /\ r.seen.available \in BOOLEAN
          /\ r.body.available <=> ~r.seen.available
      BY <2>3, <2>5, <2>7 DEF RequestHolds, Meant, Dish
    <3>2. after = [before EXCEPT !.available = r.body.available] /\ before \in Dish
      BY <2>2, <2>7 DEF Updated
    <3>3. after.content = before.content /\ (after.available <=> r.body.available)
      BY <3>1, <3>2 DEF Dish
    <3>4. after.available \in BOOLEAN
      BY <3>1, <3>2 DEF Dish
    <3> QED
      BY <3>1, <3>3, <3>4
  <2>8. ASSUME r.act = "save"
        PROVE  /\ after.available # r.seen.available <=> r.flip
               /\ r.flip => after.content = r.seen.content
    <3>1. /\ r.body \in Body /\ r.seen.available \in BOOLEAN
          /\ r.body.available <=> (r.seen.available <=> ~r.flip)
          /\ r.flip => r.body.content = r.seen.content
      BY <2>3, <2>5, <2>8 DEF RequestHolds, Meant, Dish
    <3>2. /\ before \in Dish
          /\ after = [before EXCEPT !.content = r.body.content, !.available = r.body.available]
      BY <2>2, <2>8 DEF Updated
    <3>3. after.content = r.body.content /\ after.available = r.body.available
      BY <3>1, <3>2 DEF Dish, Body
    <3> QED
      BY <2>3, <3>1, <3>3 DEF Body
  <2> QED
    BY <2>4, <2>6, <2>7, <2>8
<1>2. TabInv /\ [MenuNext]_menuVars => \A t \in Tabs : Applied(t) => Means(t)
  BY <1>1
<1> QED
  BY <1>2, TabsAreTrue, PTL DEF MenuSpec, FormsMeanWhatTheyShow

\* A good session ends by a logout, or by the late answer to a request of an older one.
THEOREM GoodSessionsAreKept == MenuSpec => GoodSessionsLast
<1>1. ASSUME TabInv, [MenuNext]_menuVars, cookie # NONE, cookie' = NONE, ~Expired(cookie)
      PROVE  Logout \/ \E t \in Tabs : Waits(t, "session") /\ req[t].token # cookie
  <2>1. ASSUME NEW t \in Tabs, Click(t) PROVE FALSE
    BY <1>1, <2>1 DEF Click, OpenMenu, OpenNew, OpenEdit, SaveForm, CreateForm, PressToggle, Ask
  <2>2. ASSUME NEW t \in Tabs, Serve(t) PROVE Waits(t, "session") /\ req[t].token # cookie
    <3>1. CASE Unauthorized(t)
      BY <1>1, <3>1 DEF Unauthorized
    <3>2. CASE NoSession(t)
      BY <1>1, <3>2 DEF NoSession, SessionFails, Clears
    <3>3. CASE ~Unauthorized(t) /\ ~NoSession(t)
      BY <1>1, <2>2, <3>3 DEF Serve, NoToken, StaffMe, Invalid, Guards, NoAnswer, List, Get, Update,
         Create
    <3> QED
      BY <3>1, <3>2, <3>3
  <2>3. ASSUME NEW u \in Users, Login(u) PROVE FALSE
    <3>1. cookie' \in Token
      BY <1>1, <2>3, MenuAssumption DEF Login, TabInv, Typed, Token
    <3> QED
      BY <1>1, <3>1, RowsAssumption
  <2>4. ASSUME NEW u \in Users, ChangeMembership(u) PROVE FALSE
    BY <1>1, <2>4 DEF ChangeMembership
  <2>5. ~Forget /\ ~Tick /\ ~UNCHANGED menuVars
    BY <1>1 DEF Forget, Tick, menuVars
  <2> QED
    BY <1>1, <2>1, <2>2, <2>3, <2>4, <2>5 DEF MenuNext
<1> QED
  BY <1>1, TabsAreTrue, PTL DEF MenuSpec, GoodSessionsLast

=============================================================================
