--------------------------------- MODULE Menu ---------------------------------
(***************************************************************************)
(* The menu as its owners edit it: staff sign in to the restaurant app,    *)
(* whose pages and Server Actions call the API in their name, one call     *)
(* that asks who they are and one that does the work, each of them checked *)
(* by the guards when it arrives.                                          *)
(*                                                                         *)
(* A browser has several tabs and one cookie; memberships change behind    *)
(* its back; and a page keeps what it showed when it was rendered, however *)
(* old that is.  A dish's content stands for all of it but whether it is   *)
(* available.                                                              *)
(***************************************************************************)
EXTENDS Naturals, Sequences

CONSTANTS
    Users, Restaurants, Dishes, Tabs,
    Rosters,       \* the memberships there may be at first
    TTL,           \* EXPIRES_IN of a staff token
    MaxClock, MaxWrites, MaxSwitches,   \* bounds
    NONE

ASSUME MenuAssumption ==
    /\ TTL \in Nat /\ MaxClock \in Nat /\ MaxWrites \in Nat /\ MaxSwitches \in Nat
    /\ Restaurants # {}
    /\ NONE \notin Restaurants \cup Users \cup Dishes \cup Nat

VARIABLES
    member,        \* StaffMembership rows of each user, oldest first
    dish,          \* MenuItem rows
    cookie,        \* raise_staff_token of the browser
    page,          \* what each tab shows
    req,           \* the request each tab waits for
    now, writes,
    switches       \* the sign-ins and changed memberships so far

menuVars == <<member, dish, cookie, page, req, now, writes, switches>>

-----------------------------------------------------------------------------

\* Of no consequence to the menu is whether one who is no owner cooks or waits.
Roles == {"owner", "foh"}

Membership == [rest : Restaurants, role : Roles]

Dish == [rest : Restaurants, content : 0 .. MaxWrites, available : BOOLEAN]

Token == [user : Users, expires : 0 .. MaxClock + TTL]

ASSUME RowsAssumption ==
    /\ NONE \notin Dish \cup Token
    /\ Rosters \subseteq [Users -> Seq(Membership)]

Expired(token) == token.expires <= now

\* The row-level policy tenant_isolation, with the where clause that repeats it: the
\* rows a transaction of forRestaurant reads and writes.
InScope(r) == {d \in Dishes : dish[d] # NONE /\ dish[d].rest = r}

\* staffMe reads the user's own memberships, the app takes the first.
Primary(u) == member[u][1]

\* StaffRestaurantGuard: the membership of the user at this restaurant, looked up anew.
RolesAt(u, r) == {member[u][i].role : i \in {j \in DOMAIN member[u] : member[u][j].rest = r}}

OwnedBy(u, table) == {r \in Restaurants : [rest |-> r, role |-> "owner"] \in {table[u][i] : i \in DOMAIN table[u]}}

\* What a tab shows: of the menu, the dish its owner will turn to; and whether that dish
\* has been changed since, from another tab or by this one's own form that was told its
\* change had failed, or the session is not what it was.
Page == [view : {"none", "menu", "edit", "new"}, rest : Restaurants \cup {NONE},
         role : Roles \cup {NONE}, id : Dishes \cup {NONE}, dish : Dish \cup {NONE},
         old : BOOLEAN, switched : BOOLEAN]

\* The login form, an error page and an empty tab: nothing to do to a dish here.
NoPage == [view |-> "none", rest |-> NONE, role |-> NONE, id |-> NONE, dish |-> NONE,
           old |-> FALSE, switched |-> FALSE]

Body == [content : 0 .. MaxWrites, available : BOOLEAN]

Writes == {"save", "create", "toggle"}

\* A page or an action that is asked for, with the cookie as it was then; the restaurant
\* and role requireStaffSession found; of a form or button, what its page showed, the dish
\* for the properties only.
Request == [act : {"none", "open", "new", "edit"} \cup Writes,
            stage : {"none", "session", "guard", "run"}, token : Token \cup {NONE},
            rest : Restaurants \cup {NONE}, role : Roles \cup {NONE},
            id : Dishes \cup {NONE}, body : Body \cup [available : BOOLEAN] \cup {NONE},
            flip : BOOLEAN, shown : Restaurants \cup {NONE}, seen : Dish \cup {NONE},
            old : BOOLEAN, switched : BOOLEAN,
            owned : SUBSET Restaurants]   \* history: what the user owned since it was made

NoRequest == [act |-> "none", stage |-> "none", token |-> NONE, rest |-> NONE, role |-> NONE,
              id |-> NONE, body |-> NONE, flip |-> FALSE, shown |-> NONE, seen |-> NONE,
              old |-> FALSE, switched |-> FALSE, owned |-> {}]

Shows(t, views) == page[t].view \in views

Waits(t, stage) == req[t].stage = stage

Writing(t) == req[t].act \in Writes

Counters == UNCHANGED <<now, writes, switches>>

Rest == UNCHANGED <<member, dish>> /\ Counters

\* The tabs' pages, or requests, are no longer of the session they were made for.
Switch(table, none) ==
    [t \in Tabs |-> IF table[t] = none THEN none ELSE [table[t] EXCEPT !.switched = TRUE]]

\* What these tabs show or ask of dish d is out of date.
Outdated(table, tabs, d) ==
    [s \in Tabs |-> IF s \in tabs /\ table[s].id = d THEN [table[s] EXCEPT !.old = TRUE]
                    ELSE table[s]]

\* Tab t is answered: it shows p.
Answer(t, p) ==
    /\ page' = [page EXCEPT ![t] = p]
    /\ req' = [req EXCEPT ![t] = NoRequest]

-----------------------------------------------------------------------------
(* The tabs                                                                 *)

Fresh(act) == [NoRequest EXCEPT !.act = act]

\* Of the page it is sent from: how old that is by now.
Aged(t, act, d) ==
    [Fresh(act) EXCEPT !.id = d, !.old = page[t].old, !.switched = page[t].switched,
                       !.shown = page[t].rest, !.seen = page[t].dish]

\* A tab that goes to another page leaves the one it is on.
Ask(t, r) ==
    /\ req[t] = NoRequest
    /\ page' = IF r.act \in Writes THEN page ELSE [page EXCEPT ![t] = NoPage]
    /\ req' = [req EXCEPT ![t] = [r EXCEPT !.stage = "session", !.token = cookie,
                   !.owned = IF cookie = NONE THEN {} ELSE OwnedBy(cookie.user, member)]]
    /\ UNCHANGED cookie /\ Rest

OpenMenu(t) == Ask(t, Fresh("open"))

CanManage(t) == Shows(t, {"menu"}) /\ page[t].role = "owner"

OpenNew(t) == CanManage(t) /\ Ask(t, Fresh("new"))

OpenEdit(t) ==
    /\ CanManage(t) /\ page[t].id # NONE
    /\ Ask(t, [Fresh("edit") EXCEPT !.id = page[t].id])

\* The form is filled in from the dish as it was rendered.
Fields(t, flip) == IF flip THEN page[t].dish.content ELSE writes + 1

Checkbox(t, flip) == page[t].dish.available # flip

\* Mutant: the checkbox of the form is ticked whatever the dish is.
FormTicked(t, flip) == [content |-> Fields(t, flip), available |-> ~flip]

\* What is sent: everything the form holds, changed or not.
Form(t, flip) == [content |-> Fields(t, flip), available |-> Checkbox(t, flip)]

\* The owner changes the dish or the checkbox.
SaveForm(t) ==
    /\ Shows(t, {"edit"})
    /\ writes < MaxWrites
    /\ \E flip \in BOOLEAN :
          Ask(t, [Aged(t, "save", page[t].id) EXCEPT !.flip = flip, !.body = Form(t, flip)])

CreateForm(t) ==
    /\ Shows(t, {"new"})
    /\ writes < MaxWrites
    /\ \E d \in Dishes :
          /\ dish[d] = NONE
          /\ Ask(t, [Aged(t, "create", d) EXCEPT
                      !.body = [content |-> writes + 1, available |-> TRUE]])

\* The button is bound to the opposite of what the page shows.
PressToggle(t) ==
    /\ CanManage(t) /\ page[t].id # NONE
    /\ writes < MaxWrites
    /\ Ask(t, [Aged(t, "toggle", page[t].id) EXCEPT
                 !.body = [available |-> ~page[t].dish.available]])

-----------------------------------------------------------------------------
(* requireStaffSession                                                      *)

\* Mutant: any answer but a good one ends the session.
ClearsAlways(status) == TRUE

Clears(status) == status \in {401, 404}

\* A Server Action may change cookies; a page being rendered may not.
SessionFails(t, status) ==
    /\ cookie' = IF Clears(status) /\ Writing(t) THEN NONE ELSE cookie
    /\ Answer(t, NoPage)

NoToken(t) ==
    /\ Waits(t, "session") /\ req[t].token = NONE
    /\ Answer(t, NoPage)
    /\ UNCHANGED cookie /\ Rest

Unauthorized(t) ==
    /\ Waits(t, "session") /\ req[t].token # NONE /\ Expired(req[t].token)
    /\ SessionFails(t, 401)
    /\ Rest

\* The API cannot answer, or it knows no membership of this user.
NoSession(t) ==
    /\ Waits(t, "session") /\ req[t].token # NONE
    /\ SessionFails(t, 500)
    /\ Rest

\* An empty form asks nothing more of the API.
NewForm(t) ==
    [NoPage EXCEPT !.view = "new", !.rest = Primary(req[t].token.user).rest,
                   !.role = "owner", !.switched = req[t].switched]

\* Who signed in is known, and so is the restaurant.
StaffMe(t) ==
    LET u == req[t].token.user IN
    /\ Waits(t, "session") /\ req[t].token # NONE /\ ~Expired(req[t].token)
    /\ member[u] # <<>>
    /\ \/ /\ req[t].act \in {"new", "edit"} /\ Primary(u).role # "owner"
          /\ req' = [req EXCEPT ![t].act = "open"]
          /\ UNCHANGED page
       \/ /\ req[t].act = "new" /\ Primary(u).role = "owner"
          /\ Answer(t, NewForm(t))
       \/ /\ req[t].act \notin {"new", "edit"} \/ (req[t].act = "edit" /\ Primary(u).role = "owner")
          /\ req' = [req EXCEPT ![t].stage = "guard", ![t].rest = Primary(u).rest,
                                ![t].role = Primary(u).role]
          /\ UNCHANGED page
    /\ UNCHANGED cookie /\ Rest

-----------------------------------------------------------------------------
(* The API call                                                             *)

\* Mutant: whoever works here may do what the page offers.
AllowedMember(t) == RolesAt(req[t].token.user, req[t].rest) # {}

\* StaffRestaurantGuard and RolesGuard
Allowed(t) ==
    LET roles == RolesAt(req[t].token.user, req[t].rest) IN
    roles # {} /\ (Writing(t) => "owner" \in roles)

\* The form says what is wrong; its fields are the dish as it was rendered again, since
\* React resets them when an action ends.
FormStays(t) == req' = [req EXCEPT ![t] = NoRequest] /\ UNCHANGED page

\* An action that throws, or a page that cannot be rendered, leaves an error page.
Fails(t) == IF req[t].act \in {"save", "create"} THEN FormStays(t) ELSE Answer(t, NoPage)

\* A form left blank or filled in wrongly, by the schema that both sides use.
Invalid(t) ==
    /\ Waits(t, "guard") /\ req[t].act \in {"save", "create"}
    /\ FormStays(t)
    /\ UNCHANGED cookie /\ Rest

\* The three guards of MenuItemsController.
Guards(t) ==
    /\ Waits(t, "guard")
    /\ IF ~Expired(req[t].token) /\ Allowed(t)
         THEN req' = [req EXCEPT ![t].stage = "run"] /\ UNCHANGED page
         ELSE Fails(t)
    /\ UNCHANGED cookie /\ Rest

\* The call does not get through, or its transaction fails: nothing has been written.
NoAnswer(t) ==
    /\ Waits(t, "guard") \/ Waits(t, "run")
    /\ Fails(t)
    /\ UNCHANGED cookie /\ Rest

Rendered(t, view, d) ==
    [view |-> view, rest |-> req[t].rest, role |-> req[t].role, id |-> d,
     dish |-> IF d = NONE THEN NONE ELSE dish[d],
     old |-> FALSE, switched |-> req[t].switched]

\* One of the dishes listed is what the owner will turn to.
List(t) ==
    /\ Waits(t, "run") /\ req[t].act = "open"
    /\ LET listed == InScope(req[t].rest) IN
          \E d \in IF listed = {} THEN {NONE} ELSE listed : Answer(t, Rendered(t, "menu", d))
    /\ UNCHANGED cookie /\ Rest

Get(t) ==
    /\ Waits(t, "run") /\ req[t].act = "edit"
    /\ Answer(t, IF req[t].id \in InScope(req[t].rest) THEN Rendered(t, "edit", req[t].id)
                 ELSE NoPage)
    /\ UNCHANGED cookie /\ Rest

\* What is asked of dish d from other tabs is out of date.
Requests(t, d) ==
    [s \in Tabs |-> IF Writing(s) THEN Outdated(req, Tabs \ {t}, d)[s] ELSE req[s]]

\* Mutant: the page is left as it is.
RevalidateNot(t, d) ==
    /\ page' = Outdated(page, Tabs \ {t}, d)
    /\ req' = [Requests(t, d) EXCEPT ![t] = NoRequest]

\* The menu is rendered again, for the cookie the action came with.
Revalidate(t, d) ==
    /\ page' = [Outdated(page, Tabs \ {t}, d) EXCEPT ![t] = NoPage]
    /\ req' = [Requests(t, d) EXCEPT ![t] =
                 [Fresh("open") EXCEPT !.stage = "session", !.token = req[t].token,
                     !.owned = req[t].owned, !.switched = req[t].switched]]

\* The write is there, and the action does not know: the transaction that reads the row
\* back fails, or the answer is lost.  The form says "Please try again", over what is not
\* the dish any more; the button's action throws.  Nothing is rendered again.
Unheard(t, d) ==
    /\ page' = [Outdated(page, Tabs, d) EXCEPT ![t] = IF req[t].act = "toggle" THEN NoPage ELSE @]
    /\ req' = [Requests(t, d) EXCEPT ![t] = NoRequest]

\* The row after the columns of the body have been set.
Updated(t, d) ==
    IF req[t].act = "toggle" THEN [dish[d] EXCEPT !.available = req[t].body.available]
    ELSE [dish[d] EXCEPT !.content = req[t].body.content, !.available = req[t].body.available]

Update(t) ==
    LET d == req[t].id IN
    /\ Waits(t, "run") /\ req[t].act \in {"save", "toggle"}
    /\ IF d \in InScope(req[t].rest)
         THEN /\ writes < MaxWrites /\ writes' = writes + 1
              /\ dish' = [dish EXCEPT ![d] = Updated(t, d)]
              /\ Revalidate(t, d) \/ Unheard(t, d)
         ELSE Fails(t) /\ UNCHANGED <<dish, writes>>
    /\ UNCHANGED <<member, cookie, now, switches>>

Create(t) ==
    LET d == req[t].id IN
    /\ Waits(t, "run") /\ req[t].act = "create"
    /\ dish[d] = NONE
    /\ writes < MaxWrites /\ writes' = writes + 1
    /\ dish' = [dish EXCEPT ![d] = [rest |-> req[t].rest, content |-> req[t].body.content,
                                    available |-> req[t].body.available]]
    /\ Revalidate(t, d) \/ Unheard(t, d)
    /\ UNCHANGED <<member, cookie, now, switches>>

-----------------------------------------------------------------------------
(* Sessions, memberships, time                                              *)

\* loginAction: in whichever tab, the cookie is the browser's.
Login(u) ==
    /\ switches < MaxSwitches /\ switches' = switches + 1
    /\ cookie' = [user |-> u, expires |-> now + TTL]
    /\ page' = Switch(page, NoPage) /\ req' = Switch(req, NoRequest)
    /\ UNCHANGED <<member, dish, now, writes>>

Logout ==
    /\ cookie # NONE
    /\ cookie' = NONE
    /\ page' = Switch(page, NoPage) /\ req' = Switch(req, NoRequest)
    /\ Rest

\* The browser drops the cookie when its time is up.
Forget ==
    /\ cookie # NONE /\ Expired(cookie)
    /\ cookie' = NONE
    /\ UNCHANGED <<page, req>> /\ Rest

\* A user's first membership is taken away or gets another role; the program has no
\* operation for it.
ChangeMembership(u) ==
    /\ member[u] # <<>>
    /\ switches < MaxSwitches /\ switches' = switches + 1
    /\ \E rows \in {Tail(member[u])} \cup {[member[u] EXCEPT ![1].role = r] : r \in Roles \ {Primary(u).role}} :
          member' = [member EXCEPT ![u] = rows]
    /\ page' = Switch(page, NoPage)
    /\ req' = [t \in Tabs |->
                 IF req[t].token # NONE /\ req[t].token.user = u
                   THEN [Switch(req, NoRequest)[t] EXCEPT !.owned = @ \cup OwnedBy(u, member')]
                   ELSE Switch(req, NoRequest)[t]]
    /\ UNCHANGED <<dish, cookie, now, writes>>

Tick ==
    /\ now < MaxClock /\ now' = now + 1
    /\ UNCHANGED <<member, dish, cookie, page, req, writes, switches>>

-----------------------------------------------------------------------------

\* A dish has been added, and somebody has signed in.
MenuInit ==
    /\ member \in Rosters
    /\ LET d == CHOOSE d \in Dishes : TRUE
           r == CHOOSE r \in Restaurants : TRUE
       IN  dish = [e \in Dishes |-> IF e = d THEN [rest |-> r, content |-> 0, available |-> TRUE]
                                  ELSE NONE]
    /\ \E u \in Users : cookie = [user |-> u, expires |-> TTL]
    /\ page = [t \in Tabs |-> NoPage] /\ req = [t \in Tabs |-> NoRequest]
    /\ now = 0 /\ writes = 0 /\ switches = 0

Click(t) ==
    OpenMenu(t) \/ OpenNew(t) \/ OpenEdit(t) \/ SaveForm(t) \/ CreateForm(t) \/ PressToggle(t)

Serve(t) ==
    \/ NoToken(t) \/ Unauthorized(t) \/ NoSession(t) \/ StaffMe(t) \/ Invalid(t) \/ Guards(t)
    \/ NoAnswer(t) \/ List(t) \/ Get(t) \/ Update(t) \/ Create(t)

MenuNext ==
    \/ \E t \in Tabs : Click(t) \/ Serve(t)
    \/ \E u \in Users : Login(u) \/ ChangeMembership(u)
    \/ Logout \/ Forget \/ Tick

MenuSpec == MenuInit /\ [][MenuNext]_menuVars

-----------------------------------------------------------------------------
(* Properties                                                               *)

\* Dishes and cookie are of their types; and what a tab shows once it is answered is
\* the menu of the restaurant it names, as it is, unless another tab has changed it, or
\* its own form has and was told that it had failed: no page is served from a copy, that
\* of a change just made neither.
MenuInv ==
    /\ \A d \in Dishes : dish[d] \in Dish \cup {NONE}
    /\ cookie \in Token \cup {NONE}
    /\ \A t \in Tabs :
          req[t] = NoRequest /\ Shows(t, {"menu", "edit"}) /\ page[t].id # NONE =>
              /\ page[t].dish.rest = page[t].rest
              /\ ~page[t].old => page[t].dish = dish[page[t].id]

\* A dish is created and changed only by a request of somebody who was an owner of its
\* restaurant at some moment since the request was made, whatever page it was made
\* from; and no dish changes hands.
OwnersOnly ==
    [][\A d \in Dishes : dish'[d] # dish[d] =>
          /\ \E t \in Tabs : Waits(t, "run") /\ Writing(t) /\ req[t].id = d /\ dish'[d].rest \in req[t].owned
          /\ dish[d] # NONE => dish'[d].rest = dish[d].rest
      ]_menuVars

Applied(t) == Waits(t, "run") /\ Writing(t) /\ writes' # writes /\ ~Writing(t)'

\* A form or button does what its page says, however old that is: a form puts the dish
\* into the state it showed but for what the owner has changed in it, and a button flips
\* what it showed and leaves the dish's content alone.  It does so in the restaurant its
\* page shows, unless somebody has signed in or out or got another membership since; and
\* to the dish as its page shows it, unless that has been changed from another tab, or
\* from this one by a save that was answered with an error, since.
FormsMeanWhatTheyShow ==
    [][\A t \in Tabs : Applied(t) =>
          LET r == req[t] before == dish[r.id] after == dish'[r.id] IN
          /\ ~r.switched => after.rest = r.shown
          /\ r.act # "create" /\ ~r.old => before = r.seen
          /\ r.act = "toggle" =>
                after.available # r.seen.available /\ after.content = before.content
          /\ r.act = "save" =>
                /\ after.available # r.seen.available <=> r.flip
                /\ r.flip => after.content = r.seen.content
      ]_menuVars

\* A session that is still good ends when somebody signs out, or when a request made
\* with an earlier one is answered, and by no other failure.
GoodSessionsLast ==
    [][cookie # NONE /\ cookie' = NONE /\ ~Expired(cookie) =>
          Logout \/ \E t \in Tabs : Waits(t, "session") /\ req[t].token # cookie
      ]_menuVars

=============================================================================
