-------------------------- MODULE ProviderConsole --------------------------
(***************************************************************************)
(* The web pages of one browser and the API behind them.                   *)
(*                                                                         *)
(* One page is on the screen. It loads lists, sends actions and saves, and *)
(* forgets none of them: answers come back in any order, late, after the   *)
(* page is gone, or not at all, while other people change the same         *)
(* bookings and the cookies of ProviderSessions are set, cleared and       *)
(* expire. A save is looked up by the guard and written in two steps.      *)
(***************************************************************************)
EXTENDS ProviderSessions, SequencesExt

CONSTANTS
  Bookings,
  OwnerOf,      \* [Bookings -> Clients]
  FirstVersion, \* [Bookings -> Nat]: above 1 once rescheduled
  Filters,      \* status pills, "all" among them
  Changes,      \* what other people make of a booking's status: what updateStatus
                \* allows and the table's CHECK lets through
  Slugs, DefaultSlug,       \* DefaultSlug is in the source of the settings page
  FirstRow,     \* [Providers -> [slug, notice]]
  MaxSteps,     \* bound: what users and other people do
  MaxFaults     \* bound: requests and answers that do not arrive

Notices == {4, 24, 48}

ASSUME ConsoleAssumption ==
  /\ OwnerOf \in [Bookings -> Clients]
  /\ FirstVersion \in [Bookings -> Nat]
  /\ "all" \in Filters
  /\ FirstRow \in [Providers -> [slug : Slugs, notice : Notices]]
  /\ Changes \subseteq {"booked", "completed", "cancelled"}
  /\ {MaxSteps, MaxFaults} \subseteq Nat /\ MaxIssued >= 1

VARIABLES
  page,      \* the page on the screen
  view,      \* its React state
  net,       \* requests under way, loads of the page oldest first
  bookings,  \* table bookings: [status, version]
  rows,      \* table providers: [slug, notice]
  mine,      \* history: bookings this page was told it had acted on
  reopened,  \* history: bookings other people made active again
  steps, faults

screen == <<page, view, net, mine>>
vars == <<sessionVars, screen, bookings, rows, reopened, steps, faults>>

Operation == steps < MaxSteps /\ steps' = steps + 1
Quiet == UNCHANGED <<steps, faults>>

(***************************************************************************)
(* Pages                                                                   *)
(***************************************************************************)
Lists == {"appointments", "dashboard", "bookings", "calendar", "clients"}
Pages == Lists \cup {"login", "search", "settings", "availability"}
InShell == Pages \ {"login", "search", "bookings"}

Nothing == <<>>
Loads == {"list", "find", "profile"}
OfProvider == {"find", "profile", "save"}

FreshView(p) ==
  [loading |-> p \in Lists, error |-> FALSE, items |-> Nothing,
   search |-> None, filter |-> "all",
   drawer |-> None, note |-> FALSE,  \* note: the drawer's error
   timer |-> p = "search",           \* the debounce of the search box
   slug |-> DefaultSlug, notice |-> 4,
   late |-> FALSE]                   \* history: shows what a later answer had replaced

NoAnswer == [result |-> "none", items |-> Nothing, notice |-> 0]
Answer(result) == [NoAnswer EXCEPT !.result = result]

\* A request carries the cookies the browser holds when it is sent.
Request(kind, ask) ==
  [kind |-> kind, from |-> page, ask |-> ask,
   cookie |-> Cookie(IF kind \in OfProvider THEN "provider" ELSE "client"),
   phase |-> "sent", who |-> None, live |-> "page", late |-> FALSE,
   answer |-> NoAnswer]

Listing(search, filter) == [search |-> search, filter |-> filter]

\* What a page asks for when it is mounted.
FirstRequests(p) ==
  IF p \in Lists THEN <<[Request("list", Listing(None, "all")) EXCEPT !.from = p]>>
  ELSE IF p = "availability" THEN <<[Request("profile", None) EXCEPT !.from = p]>>
  ELSE <<>>

\* What is left of the old page's requests: nobody waits for a load, actions and
\* saves reach the server. A link keeps the document and the closures in it;
\* loading a page (by = "gone") does not. Only the order of loads means anything.
Outlived(by) ==
  LET left == {i \in DOMAIN net : /\ net[i].kind \notin Loads
                                  /\ by = "document" \/ net[i].phase # "answered"}
  IN [n \in 1 .. Cardinality(left) |->
        [net[SetToSeq(left)[n]] EXCEPT !.live = IF @ = "gone" THEN @ ELSE by]]

Mount(p, by) ==
  /\ page' = p
  /\ view' = FreshView(p)
  /\ net' = Outlived(by) \o FirstRequests(p)

\* middleware.ts: a public path is a prefix, so "/book" makes /bookings public
\* too; for the others only the cookie's presence is looked at.
Public == {"login", "search", "bookings"}
Destination(p) == IF p \in Public \/ Cookie("client") # None THEN p ELSE "login"

Open(p) ==
  /\ Operation /\ p # page
  /\ Mount(Destination(p), "document")
  /\ UNCHANGED <<sessionVars, bookings, rows, mine, reopened, faults>>

LogIn(c) ==
  /\ page = "login" /\ Operation
  /\ ClientLogin(c)
  /\ Mount("dashboard", "gone")
  /\ UNCHANGED <<bookings, rows, mine, reopened, faults>>

LogOut ==
  /\ page \in InShell /\ Operation
  /\ ClientLogout
  /\ Mount("login", "gone")
  /\ UNCHANGED <<bookings, rows, mine, reopened, faults>>

\* Only the screen changes.
OnScreen == UNCHANGED <<sessionVars, page, bookings, rows, mine, reopened, faults>>

(***************************************************************************)
(* Appointments, dashboard, bookings, calendar, clients                    *)
(***************************************************************************)
\* fetchAppointments, with the search and filter of the render it closed over.
Fetching(v) == [v EXCEPT !.loading = TRUE, !.error = FALSE]
Fetch(v, search, filter) ==
  /\ view' = Fetching(v)
  /\ net' = Append(net, Request("list", Listing(search, filter)))

SetFilter(f) ==
  /\ page \in {"appointments", "bookings"} /\ f # view.filter /\ Operation
  /\ IF page = "appointments"
       THEN Fetch([view EXCEPT !.filter = f], view.search, f)
       ELSE view' = [view EXCEPT !.filter = f] /\ UNCHANGED net
  /\ OnScreen

\* The clients page filters what it has.
SetSearch(c) ==
  /\ page \in {"appointments", "clients"} /\ c # view.search /\ Operation
  /\ IF page = "appointments"
       THEN Fetch([view EXCEPT !.search = c], c, view.filter)
       ELSE view' = [view EXCEPT !.search = c] /\ UNCHANGED net
  /\ OnScreen

Retry ==
  /\ page = "appointments" /\ view.error /\ ~view.loading /\ Operation
  /\ Fetch(view, view.search, view.filter)
  /\ OnScreen

\* The dashboard's Retry reloads the document.
HandleRetry ==
  /\ page = "dashboard" /\ view.error /\ Operation
  /\ Mount(Destination(page), "gone")
  /\ UNCHANGED <<sessionVars, bookings, rows, mine, reopened, faults>>

\* The rows a page shows; each hides them while it loads and after an error.
Ready == ~view.loading /\ ~view.error
AppointmentRows == IF Ready THEN view.items ELSE Nothing
ScheduleRows ==
  IF Ready THEN [b \in DOMAIN view.items |->
                   IF view.items[b] \in {"booked", "confirmed"} THEN "upcoming"
                   ELSE view.items[b]]
  ELSE Nothing
BookingCards ==
  IF Ready THEN [b \in {x \in DOMAIN view.items : view.filter \in {"all", view.items[x]}}
                   |-> view.items[b]]
  ELSE Nothing
\* The calendar's type buttons set an empty filter: event types have a title and
\* it reads a name.
CalendarEntries == IF Ready THEN view.items ELSE Nothing
ClientCards ==
  [c \in {x \in DOMAIN view.items : view.search \in {None, x}} |-> view.items[c]]

Shown ==
  CASE page = "appointments" -> AppointmentRows
    [] page = "dashboard"    -> ScheduleRows
    [] page = "bookings"     -> BookingCards
    [] page = "calendar"     -> CalendarEntries
    [] page = "clients"      -> ClientCards
    [] OTHER                 -> Nothing

OpenDrawer(b) ==
  /\ page = "appointments" /\ view.drawer = None /\ b \in DOMAIN Shown /\ Operation
  /\ view' = [view EXCEPT !.drawer = [id |-> b, status |-> Shown[b]]]
  /\ UNCHANGED net /\ OnScreen

Closed(v) == [v EXCEPT !.drawer = None]
CloseDrawer ==
  /\ page = "appointments" /\ view.drawer # None /\ Operation
  /\ view' = Closed(view)
  /\ UNCHANGED net /\ OnScreen

Offered(status) ==
  IF status \in {"cancelled", "completed"} THEN {}
  ELSE {"confirm", "decline", "cancel"}

Acting(do, b) ==
  [do |-> do, id |-> b, search |-> view.search, filter |-> view.filter]

\* handleAction up to its await; the drawer is a snapshot of the row.
Click(do) ==
  /\ page = "appointments" /\ view.drawer # None
  /\ do \in Offered(view.drawer.status) /\ Operation
  /\ view' = [view EXCEPT !.note = FALSE]
  /\ net' = Append(net, Request("act", Acting(do, view.drawer.id)))
  /\ OnScreen

\* The dashboard offers both buttons whatever the status.
Press(do, b) ==
  /\ page = "dashboard" /\ b \in DOMAIN Shown /\ Operation
  /\ net' = Append(net, Request("act", Acting(do, b)))
  /\ UNCHANGED view /\ OnScreen

(***************************************************************************)
(* Search, settings, availability                                          *)
(***************************************************************************)
Type(q) ==
  /\ page = "search" /\ q # view.search /\ Operation
  /\ view' = [view EXCEPT !.search = q, !.timer = TRUE]
  /\ UNCHANGED net /\ OnScreen

\* 300 ms after the last key; an empty box leaves loading as it is.
HandleSearch ==
  /\ view.timer
  /\ IF view.search = None
       THEN view' = [view EXCEPT !.timer = FALSE, !.items = Nothing] /\ UNCHANGED net
       ELSE /\ view' = Fetching([view EXCEPT !.timer = FALSE])
            /\ net' = Append(net, Request("find", Listing(view.search, "all")))
  /\ UNCHANGED steps /\ OnScreen

EditSlug(s) ==
  /\ page = "settings" /\ s # view.slug /\ Operation
  /\ view' = [view EXCEPT !.slug = s]
  /\ UNCHANGED net /\ OnScreen

ChooseNotice(n) ==
  /\ page = "availability" /\ n # view.notice /\ Operation
  /\ view' = [view EXCEPT !.notice = n]
  /\ UNCHANGED net /\ OnScreen

\* Each page sends its own fields; None is a field left out or left empty.
Save ==
  /\ page \in {"settings", "availability"} /\ Operation
  /\ net' = Append(net, Request("save",
       IF page = "settings" THEN [slug |-> view.slug, notice |-> None]
                            ELSE [slug |-> None, notice |-> view.notice]))
  /\ UNCHANGED view /\ OnScreen

(***************************************************************************)
(* The API                                                                 *)
(***************************************************************************)
MapBookingStatus(s) ==
  IF s = "booked" THEN "confirmed" ELSE IF s = "no_show" THEN "completed" ELSE s

Statuses(B) == [b \in B |-> bookings[b].status]

\* GET /appointments: everybody's bookings, to anybody.
AllAppointments == Statuses(Bookings)

\* GET /bookings: those of the client in the cookie.
ListBookings(c) == Statuses({b \in Bookings : OwnerOf[b] = c})

\* GET /clients: all of them, to anybody.
AllClients == [c \in Clients |-> "client"]

\* The Next.js route between the appointments page and GET /appointments; the
\* only text a booking has to search in is its client's name.
Adapted(ask) ==
  LET status == [b \in Bookings |-> MapBookingStatus(AllAppointments[b])]
      hits == {b \in Bookings : /\ ask.search \in {None, OwnerOf[b]}
                                /\ ask.filter \in {"all", status[b]}}
  IN [b \in hits |-> status[b]]

\* The middleware turns the route's caller without a cookie to the login page,
\* which is not JSON.
ListAnswer(m) ==
  IF m.from \notin {"dashboard", "clients"} /\ m.cookie = None THEN Answer("denied")
  ELSE [Answer("ok") EXCEPT !.items =
          CASE m.from = "dashboard"    -> AllAppointments
            [] m.from = "appointments" -> Adapted(m.ask)
            [] m.from = "clients"      -> AllClients
            [] OTHER                   -> ListBookings(m.cookie)]

\* Clients have no provider, so the query of SearchService is refused.
FindAnswer(m) == Answer(IF Guard(m.cookie) = None THEN "denied" ELSE "failed")

ProfileAnswer(m) ==
  LET p == Guard(m.cookie)
  IN IF p = None THEN Answer("denied")
     ELSE [Answer("ok") EXCEPT !.notice = rows[p].notice]

\* confirm, decline and cancel answer 201 whether they acted ("done") or not
\* ("refused"). The page sends no if-match, which stands for version 1; a
\* cancellation is also refused once its window has closed.
Outcomes(m) ==
  LET b == bookings[m.ask.id]
      allowed == m.cookie = OwnerOf[m.ask.id] /\ b.status = "booked"
  IN IF m.cookie = None THEN {"denied"}
     ELSE IF ~allowed THEN {"refused"}
     ELSE IF m.ask.do # "cancel" THEN {"done"}
     ELSE IF b.version = 1 THEN {"done", "refused"} ELSE {"refused"}

Acted(b, do) ==
  [status  |-> IF do = "confirm" THEN "completed" ELSE "cancelled",
   version |-> IF do = "cancel" THEN b.version ELSE b.version + 1]

Reply(i, answer) ==
  net' = [net EXCEPT ![i].phase = "answered", ![i].answer = answer]

Serve(i) ==
  LET m == net[i] IN
  /\ m.phase = "sent" /\ m.kind # "save"
  /\ \/ m.kind = "list" /\ Reply(i, ListAnswer(m)) /\ UNCHANGED bookings
     \/ m.kind = "find" /\ Reply(i, FindAnswer(m)) /\ UNCHANGED bookings
     \/ m.kind = "profile" /\ Reply(i, ProfileAnswer(m)) /\ UNCHANGED bookings
     \/ /\ m.kind = "act"
        /\ \E result \in Outcomes(m) :
             /\ Reply(i, Answer(result))
             /\ bookings' = IF result = "done"
                              THEN [bookings EXCEPT ![m.ask.id] = Acted(@, m.ask.do)]
                              ELSE bookings
  /\ UNCHANGED <<sessionVars, page, view, rows, mine, reopened>> /\ Quiet

\* ProviderAuthGuard before updateMe.
Admit(i) ==
  LET m == net[i] IN
  /\ m.phase = "sent" /\ m.kind = "save"
  /\ IF Guard(m.cookie) = None THEN Reply(i, Answer("denied"))
     ELSE net' = [net EXCEPT ![i].phase = "admitted", ![i].who = Guard(m.cookie)]
  /\ UNCHANGED <<sessionVars, page, view, bookings, rows, mine, reopened>> /\ Quiet

\* UPDATE providers SET slug = COALESCE($2, slug), ...
Reset(row, ask) ==
  [slug |-> IF ask.slug = None THEN row.slug ELSE ask.slug,
   notice |-> IF ask.notice = None THEN 4 ELSE ask.notice]  \* mutant: no test for undefined
Nulled(row, ask) ==
  [slug |-> ask.slug, notice |-> ask.notice]  \* mutant: no COALESCE
Updated(row, ask) ==
  [slug |-> IF ask.slug = None THEN row.slug ELSE ask.slug,
   notice |-> IF ask.notice = None THEN row.notice ELSE ask.notice]

\* The UPDATE of updateMe: slugs are unique.
UpdateMe(i) ==
  LET m == net[i]
      taken == \E p \in Providers \ {m.who} : rows[p].slug = m.ask.slug
  IN
  /\ m.phase = "admitted"
  /\ Reply(i, Answer(IF taken THEN "failed" ELSE "done"))
  /\ rows' = IF taken THEN rows ELSE [rows EXCEPT ![m.who] = Updated(@, m.ask)]
  /\ UNCHANGED <<sessionVars, page, view, bookings, mine, reopened>> /\ Quiet

\* A request that does not arrive, a server that stops half-way, an answer lost.
Fail(i) ==
  /\ faults < MaxFaults /\ faults' = faults + 1
  /\ net[i].answer.result # "failed"
  /\ Reply(i, Answer("failed"))
  /\ UNCHANGED <<sessionVars, page, view, bookings, rows, mine, reopened, steps>>

(***************************************************************************)
(* Answers                                                                 *)
(***************************************************************************)
\* A load's answer replaces the page's list, whichever request it is for.
Overtaken(i) ==
  [j \in DOMAIN net |->
     IF j < i /\ net[j].kind = net[i].kind THEN [net[j] EXCEPT !.late = TRUE]
     ELSE net[j]]

Stuck(v, m) ==
  IF m.answer.result = "ok" THEN [v EXCEPT !.loading = FALSE, !.items = m.answer.items]
  ELSE [v EXCEPT !.error = TRUE]  \* mutant: loading is not cleared after an error
Loaded(v, m) ==
  LET ok == m.answer.result = "ok"
  IN [v EXCEPT !.loading = FALSE,
               !.error = @ \/ ~ok,
               !.items = IF ok THEN m.answer.items
                         ELSE IF m.kind = "find" THEN Nothing ELSE @,
               !.late = m.late]

\* fetchAppointments() and closeDrawer(): the filter is the closure's, not the
\* one now chosen, and the drawer may be another booking's.
KeptList(rest, m) ==
  view' = Closed(view) /\ net' = rest  \* mutant: the list is not fetched again
Refreshed(rest, m) ==
  /\ view' = Fetching(Closed(view))
  /\ net' = Append(rest, Request("list", Listing(m.ask.search, m.ask.filter)))

DeliverLoad(i) ==
  LET m == net[i] IN
  /\ m.kind \in {"list", "find"}
  /\ view' = Loaded(view, m)
  /\ net' = RemoveAt(Overtaken(i), i)
  /\ UNCHANGED <<page, mine>>

\* The profile is written over whatever has been chosen meanwhile.
DeliverProfile(i) ==
  LET m == net[i] IN
  /\ m.kind = "profile"
  /\ view' = IF m.answer.result = "ok" THEN [view EXCEPT !.notice = m.answer.notice]
                                       ELSE view
  /\ net' = RemoveAt(net, i)
  /\ UNCHANGED <<page, mine>>

\* A refused action looks like one that was carried out.
Acknowledged(m) == m.answer.result \in {"done", "refused"}
Claimed(m) == IF m.answer.result = "done" THEN mine \cup {m.ask.id} ELSE mine

DeliverAct(i) ==
  LET m == net[i] IN
  /\ m.kind = "act" /\ m.from = "appointments" /\ m.live = "page"
  /\ IF Acknowledged(m) THEN Refreshed(RemoveAt(net, i), m)
     ELSE view' = [view EXCEPT !.note = TRUE] /\ net' = RemoveAt(net, i)
  /\ mine' = Claimed(m)
  /\ UNCHANGED page

\* The dashboard's buttons reload the document, whatever page it shows by then.
DeliverPress(i) ==
  LET m == net[i] IN
  /\ m.kind = "act" /\ m.from = "dashboard" /\ m.live # "gone"
  /\ IF Acknowledged(m) THEN Mount(Destination(page), "gone")
     ELSE net' = RemoveAt(net, i) /\ UNCHANGED <<page, view>>
  /\ mine' = Claimed(m)

\* The notice that a save is done is not modelled; nobody hears the answer to an
\* action whose page is gone.
Discard(i) ==
  LET m == net[i] IN
  /\ \/ m.kind = "save"
     \/ m.kind = "act" /\ m.live # "page" /\ (m.from = "appointments" \/ m.live = "gone")
  /\ net' = RemoveAt(net, i)
  /\ UNCHANGED <<page, view, mine>>

Deliver(i) ==
  /\ net[i].phase = "answered"
  /\ \/ DeliverLoad(i) \/ DeliverProfile(i)
     \/ DeliverAct(i) \/ DeliverPress(i) \/ Discard(i)
  /\ UNCHANGED <<sessionVars, bookings, rows, reopened>> /\ Quiet

(***************************************************************************)
(* Other people, other tabs, time                                          *)
(***************************************************************************)
\* PATCH /bookings/:id/status of the owner: any status from any status.
Elsewhere(b, status) ==
  /\ Operation
  /\ bookings' = [bookings EXCEPT ![b] = [status |-> status, version |-> @.version + 1]]
  /\ reopened' = IF status \in {"booked", "confirmed"} THEN reopened \cup {b} ELSE reopened
  /\ UNCHANGED <<sessionVars, screen, rows, faults>>

\* No page signs a provider in or out, and the administrators have no page but
\* their sign-in: these are calls of the API that share the browser's cookies.
Session ==
  /\ Operation
  /\ \/ \E p \in Providers, typed \in Passwords, heard \in BOOLEAN :
          ProviderLogin(p, typed, heard)
     \/ \E works, heard \in BOOLEAN : ProviderLogout(works, heard)
     \/ \E a \in Admins, typed \in Passwords : AdminLogin(a, typed)
     \/ \E leaving \in BOOLEAN : AdminRequest(leaving)
     \/ AdminLogout \/ Tick
  /\ UNCHANGED <<screen, bookings, rows, reopened, faults>>

\* A client and a provider have signed in, and the browser shows where the
\* client's sign-in leads.
SignedIn(c, p) ==
  /\ now = 0 /\ issued = 1
  /\ jar = [client |-> [value |-> c, until |-> Lifetime],
            provider |-> [value |-> Encoded(1), until |-> Lifetime],
            admin |-> NoCookie]
  /\ sessions = {[hash |-> ProviderHash(Raw(1)), provider |-> p, expires |-> Lifetime]}
  /\ logins = {[token |-> 1, provider |-> p, at |-> 0]}
  /\ adminSessions = {} /\ ended = {} /\ refused = {}

Init ==
  /\ \E c \in Clients, p \in Providers : SignedIn(c, p)
  /\ page = "dashboard" /\ view = FreshView("dashboard")
  /\ net = FirstRequests("dashboard")
  /\ bookings = [b \in Bookings |-> [status |-> "booked", version |-> FirstVersion[b]]]
  /\ rows = FirstRow
  /\ mine = {} /\ reopened = {}
  /\ steps = 0 /\ faults = 0

Terms == Clients \cup {None}

Next ==
  \/ \E p \in Pages : Open(p)
  \/ \E c \in Clients : LogIn(c)
  \/ \E f \in Filters : SetFilter(f)
  \/ \E c \in Terms : SetSearch(c) \/ Type(c)
  \/ \E b \in Bookings : OpenDrawer(b)
  \/ \E do \in {"confirm", "decline", "cancel"} : Click(do)
  \/ \E do \in {"confirm", "decline"}, b \in Bookings : Press(do, b)
  \/ \E s \in Slugs \cup {None} : EditSlug(s)
  \/ \E n \in Notices : ChooseNotice(n)
  \/ \E b \in Bookings, status \in Changes : Elsewhere(b, status)
  \/ \E i \in DOMAIN net :
       Serve(i) \/ Admit(i) \/ UpdateMe(i) \/ Fail(i) \/ Deliver(i)
  \/ LogOut \/ Retry \/ HandleRetry \/ CloseDrawer \/ HandleSearch \/ Save \/ Session

Spec == Init /\ [][Next]_vars

(***************************************************************************)
(* Properties                                                              *)
(***************************************************************************)
Results == {"none", "ok", "done", "refused", "denied", "failed"}

TypeOK ==
  /\ now \in 0 .. MaxNow /\ issued \in 0 .. MaxIssued
  /\ page \in Pages
  /\ DOMAIN view = DOMAIN FreshView("login")
  /\ DOMAIN view.items \subseteq IF page = "clients" THEN Clients ELSE Bookings
  /\ \A i \in DOMAIN net : /\ net[i].answer.result \in Results
                           /\ net[i].phase \in {"sent", "admitted", "answered"}
                           /\ net[i].who \in Providers \cup {None}
  /\ \A b \in Bookings : bookings[b].version >= FirstVersion[b]
  /\ \A p \in Providers : rows[p].notice \in Notices

\* A page that says it is loading has a request under way that will end it: no
\* order of answers, failures, filters and mounts leaves a spinner with nothing
\* behind it.
LoadingHasRequest ==
  view.loading => \E i \in DOMAIN net : net[i].kind \in {"list", "find"}

\* A page told that its action was carried out does not go on showing the booking
\* as upcoming once it is at rest, unless somebody reopened the booking or the
\* list on the screen was overtaken by a later one.
OwnActionShown ==
  (Ready /\ ~view.late /\ \A i \in DOMAIN net : net[i].kind # "list") =>
    \A b \in mine \cap DOMAIN Shown :
       b \in reopened \/ Shown[b] \notin {"booked", "confirmed", "upcoming"}

\* A column of a provider's row changes only to a value that a save carries which
\* the guard let through as that provider: never to a default, never to another
\* provider's value, though cookies come and go between guard and UPDATE.
SavedByItsProvider ==
  [][\A p \in Providers, column \in {"slug", "notice"} :
       rows'[p][column] # rows[p][column] =>
         \E i \in DOMAIN net : /\ net[i].phase = "admitted" /\ net[i].who = p
                               /\ net[i].ask[column] = rows'[p][column]]_vars
=============================================================================
