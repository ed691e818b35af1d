----------------------------- MODULE AdminPanel -----------------------------
(***************************************************************************)
(* The admin panel in one browser tab: its pages of filtered, paged lists  *)
(* with a dialog before every change, react-query's cache of the lists,    *)
(* the axios client that refuses a request like one it believes pending,   *)
(* and the server's tables behind it.                                      *)
(***************************************************************************)
EXTENDS Integers, FiniteSets

CONSTANTS
  Viewers,      \* the roles that may sign in
  PanelRows,    \* the ids of every table, a newer row the greater one
  NamedRows,    \* the bookings whose names hold the text searched for
  PerPage,
  MaxRetries,   \* how often react-query repeats a failed read
  MaxSent       \* bound on requests and on what the viewer does

ASSUME PanelAssumption ==
  /\ PanelRows \subseteq Nat \ {0} /\ NamedRows \subseteq PanelRows
  /\ PerPage \in Nat \ {0} /\ MaxRetries \in Nat \ {0} /\ MaxSent \in Nat \ {0}

VARIABLES
  viewer,    \* the role of the user in localStorage, or "none"
  screen,    \* the page on the screen
  choice,    \* its filters: [by, text, page]
  dialog,    \* the change asked for in ConfirmModal, {} or a singleton
  busy,      \* the request for which the page shown is busy, or 0: isPending of its
             \* mutation, loading of the settings
  lists,     \* query cache: the key and the list of every query with data
  run,       \* the fetch of the query on the screen: [state, left]
  wire,      \* requests sent: [n, key, silent, answer]
  pendingRequests,
  tables,    \* the rows kept by the server
  sent       \* number of steps counted by MaxSent

panelVars == <<viewer, screen, choice, dialog, busy, lists, run, wire,
               pendingRequests, tables, sent>>

-----------------------------------------------------------------------------
(* config/roles.ts and usePermission.                                      *)
StaffRoles == {"support", "moderator", "admin"}
PanelRoles == StaffRoles \cup {"user", "owner", "super_admin"}
PanelStatuses ==
  {"pending", "confirmed", "in_progress", "cancelled", "rejected", "completed"}

RolePermissions(r) ==
  CASE r = "admin" -> {"dashboard.view", "user.view", "user.verify", "user.delete",
         "user.manage_roles", "car.view_all", "car.approve", "car.reject",
         "car.delete", "booking.view_all", "booking.manage", "review.delete", "audit.view"}
    [] r = "moderator" ->
         {"dashboard.view", "car.view_all", "car.approve", "car.reject", "review.delete"}
    [] r = "support" ->
         {"dashboard.view", "user.view", "booking.view_all", "booking.manage"}
    [] OTHER -> {}

May(permission) == viewer = "super_admin" \/ permission \in RolePermissions(viewer)

(* SIDEBAR_ITEMS.                                                          *)
SidebarItems ==
  {"settings"} \cup
  {i \in {"dashboard", "users", "cars", "bookings", "reviews", "admins", "audit"} :
     May(CASE i = "dashboard" -> "dashboard.view" [] i = "users" -> "user.view"
           [] i = "cars" -> "car.view_all"        [] i = "bookings" -> "booking.view_all"
           [] i = "reviews" -> "review.delete"    [] i = "admins" -> "user.manage_roles"
           [] i = "audit" -> "audit.view")}

-----------------------------------------------------------------------------
(* What the server lists.  A row bears labels that filters ask for.        *)
NoChoice == [by |-> {}, text |-> FALSE, page |-> 1]

PageOf(t, ids, k) ==
  LET OnPage == {i \in ids : Cardinality({j \in ids : j > i}) \div PerPage = k.page - 1}
  IN  [rows |-> [i \in OnPage |-> t[i]],
       pages |-> (Cardinality(ids) + PerPage - 1) \div PerPage]

(* findAllUsers: the text that is searched for is not looked at.           *)
UsersFound(t, k) ==
  LET ids == {i \in DOMAIN t : k.by \subseteq {t[i].role, t[i].verified}}
  IN  PageOf(t, ids, k)

CarsFound(t, k) == PageOf(t, {i \in DOMAIN t : k.by \subseteq {t[i].status}}, k)

BookingsFound(t, k) ==
  LET ids == {i \in DOMAIN t : k.by \subseteq {t[i].status} /\ (k.text => i \in NamedRows)}
  IN  PageOf(t, ids, k)

ReviewsFound(t, k) == PageOf(t, DOMAIN t, k)
AuditFound(t, k) == PageOf(t, {i \in DOMAIN t : k.by \subseteq {t[i].action}}, k)

(* getAdmins asks findAllUsers for a hundred users of the staff's roles.   *)
AdminsFound(t) ==
  LET ids == {i \in DOMAIN t : t[i].role \in StaffRoles \cup {"super_admin"}}
  IN  [rows |-> [i \in ids |-> t[i]], pages |-> 1]

(* getDashboardStats, of which only these two numbers change here.         *)
DashboardStats(t) ==
  LET Count(s) == Cardinality({i \in DOMAIN t : t[i].status = s})
  IN  [rows |-> [i \in {1} |-> [pending |-> Count("pending"), done |-> Count("completed")]],
       pages |-> 1]

Listed(k) ==
  CASE k.screen = "users" -> UsersFound(tables.users, k)
    [] k.screen = "cars" -> CarsFound(tables.cars, k)
    [] k.screen = "bookings" -> BookingsFound(tables.bookings, k)
    [] k.screen = "reviews" -> ReviewsFound(tables.reviews, k)
    [] k.screen = "audit" -> AuditFound(tables.audit, k)
    [] k.screen = "admins" -> AdminsFound(tables.users)
    [] OTHER -> DashboardStats(tables.bookings)

-----------------------------------------------------------------------------
(* The buttons of a row: the changes whose dialog they open.               *)
Change(table, i, what, to) == [table |-> table, row |-> i, what |-> what, to |-> to]
Other(flag) == IF flag = "yes" THEN "no" ELSE "yes"

UserButtons(i, u) ==
  {c \in {Change("users", i, "verify", Other(u.verified))} : May("user.verify")} \cup
  (IF u.role = "super_admin" THEN {} ELSE
   {c \in {Change("users", i, "role", r) : r \in PanelRoles \ {"super_admin", u.role}}
          \cup {Change("users", i, "deactivate", Other(u.active))} : May("user.manage_roles")}
   \cup {c \in {Change("users", i, "delete", "gone")} : May("user.delete")})

CarButtons(i, c) ==
  {Change("cars", i, "status", s) :
     s \in {to \in {"approved", "rejected"} :
              c.status # to /\ May(IF to = "approved" THEN "car.approve" ELSE "car.reject")}}

BookingButtons(i, b) ==
  {Change("bookings", i, "status", s) :
     s \in {to \in PanelStatuses :
              /\ May("booking.manage")
              /\ \/ b.status = "pending" /\ to \in {"confirmed", "rejected"}
                 \/ b.status \in {"confirmed", "in_progress"} /\ to = "cancelled"
                 \/ b.status = "in_progress" /\ to = "completed"}}

ReviewButtons(i) == {c \in {Change("reviews", i, "delete", "gone")} : May("review.delete")}

(* Row 1 of the staff is the viewer, who is not offered itself.            *)
AdminButtons(i, u) ==
  {c \in {Change("users", i, "role", r) : r \in StaffRoles \ {u.role}}
         \cup {Change("users", i, "deactivate", Other(u.active))} :
     May("user.manage_roles") /\ u.role # "super_admin" /\ i # 1}

Buttons(i, row) ==
  CASE screen = "users" -> UserButtons(i, row)
    [] screen = "cars" -> CarButtons(i, row)
    [] screen = "bookings" -> BookingButtons(i, row)
    [] screen = "reviews" -> ReviewButtons(i)
    [] screen = "admins" -> AdminButtons(i, row)
    [] OTHER -> {}

-----------------------------------------------------------------------------
(* services/api.ts: the key of a request is its method, url, params and    *)
(* data.  axios has turned a body to text once a request is sent, so the   *)
(* key that its answer, or its failure, computes is another one.           *)
ListKey(s, c) == [screen |-> s, by |-> c.by, text |-> c.text, page |-> c.page]
IsRead(k) == "screen" \in DOMAIN k
HasBody(k) == ~IsRead(k) /\ k.table # "cars" /\ k.what # "delete"

Refused(k) == k \in pendingRequests

(* Request interceptor; the error interceptor forgets the key of a request *)
(* that is refused here.                                                   *)
PendingAfterSending(k) ==
  IF Refused(k) THEN pendingRequests \ {k} ELSE pendingRequests \cup {k}

OnWire(k) ==
  IF Refused(k) THEN wire
  ELSE wire \cup {[n |-> sent + 1, key |-> k, silent |-> FALSE, answer |-> {}]}

PendingAfterAnswer(k) == IF HasBody(k) THEN pendingRequests ELSE pendingRequests \ {k}

(* Mutant: a request that fails stays in pendingRequests.                  *)
StaysPending(k) == pendingRequests

PendingAfterError(k) == IF HasBody(k) THEN pendingRequests ELSE pendingRequests \ {k}

-----------------------------------------------------------------------------
(* useQuery of the page on the screen (react-query).                       *)
Shown == {l.list : l \in {m \in lists : m.key = ListKey(screen, choice)}}
Idle == [state |-> "idle", left |-> 0]
IsLoading == Shown = {} /\ run.state \in {"sent", "waiting"}

(* A fetch of the query k: a request of its own, or one of it that is      *)
(* still awaited.  A refused request is tried again like a failed one.     *)
Awaited(k) == \E r \in wire : r.key = k /\ ~r.silent
QueryFetched(k) ==
  IF k.screen = "settings"
  THEN run' = Idle /\ UNCHANGED <<wire, pendingRequests>>
  ELSE IF Awaited(k)
  THEN run' = [state |-> "sent", left |-> MaxRetries] /\ UNCHANGED <<wire, pendingRequests>>
  ELSE /\ wire' = OnWire(k) /\ pendingRequests' = PendingAfterSending(k)
       /\ run' = [state |-> IF Refused(k) THEN "waiting" ELSE "sent", left |-> MaxRetries]

Acts == viewer # "none" /\ sent < MaxSent /\ sent' = sent + 1
Uncovered == viewer # "none" /\ dialog = {}

Open(s) ==
  /\ Uncovered /\ Acts /\ s \in SidebarItems /\ s # screen
  /\ screen' = s /\ choice' = NoChoice /\ busy' = 0
  /\ QueryFetched(ListKey(s, NoChoice))
  /\ UNCHANGED <<viewer, dialog, lists, tables>>

Choose(c) ==
  /\ Uncovered /\ Acts /\ c # choice
  /\ choice' = c
  /\ QueryFetched(ListKey(screen, c))
  /\ UNCHANGED <<viewer, screen, dialog, busy, lists, tables>>

(* The filters of the pages; each goes back to the first page.             *)
Dropdown(values, v) ==
  Choose([choice EXCEPT !.by = (@ \ values) \cup v, !.page = 1])
Search == Choose([choice EXCEPT !.text = ~@, !.page = 1])

FilterUsers ==
  /\ screen = "users"
  /\ \/ Search
     \/ \E v \in {{}} \cup {{r} : r \in PanelRoles} : Dropdown(PanelRoles, v)
     \/ \E v \in {{}, {"yes"}, {"no"}} : Dropdown({"yes", "no"}, v)

FilterCars ==
  /\ screen = "cars"
  /\ \/ Search
     \/ \E v \in {{}, {"pending"}, {"approved"}, {"rejected"}} :
          Dropdown({"pending", "approved", "rejected"}, v)

FilterBookings ==
  /\ screen = "bookings"
  /\ Search \/ \E v \in {{}} \cup {{s} : s \in PanelStatuses} : Dropdown(PanelStatuses, v)

FilterAudit ==
  /\ screen = "audit"
  /\ \E v \in {{}, {"USER"}, {"CAR"}, {"BOOKING"}, {"REVIEW"}} :
       Dropdown({"USER", "CAR", "BOOKING", "REVIEW"}, v)

(* The pager.  Without a list, and beyond the last page, "next" is enabled.*)
PagerShown ==
  CASE screen \in {"users", "cars", "bookings"} -> ~IsLoading
    [] screen = "reviews" -> \E l \in Shown : l.pages > 0
    [] screen = "audit" -> \E l \in Shown : l.pages > 1
    [] OTHER -> FALSE

NextPage ==
  /\ PagerShown /\ \A l \in Shown : choice.page # l.pages
  /\ Choose([choice EXCEPT !.page = @ + 1])
PreviousPage ==
  PagerShown /\ choice.page # 1 /\ Choose([choice EXCEPT !.page = @ - 1])

(* react-query fetches again when the window gets the focus.               *)
Refocus ==
  /\ Acts /\ run.state \in {"idle", "failed"}
  /\ QueryFetched(ListKey(screen, choice))
  /\ UNCHANGED <<viewer, screen, choice, dialog, busy, lists, tables>>

RetryRead ==
  LET k == ListKey(screen, choice) IN
  /\ Acts /\ run.state = "waiting"
  /\ run' = IF ~Refused(k) THEN [run EXCEPT !.state = "sent", !.left = @ - 1]
            ELSE IF run.left > 1 THEN [run EXCEPT !.left = @ - 1]
            ELSE [state |-> "failed", left |-> 0]
  /\ wire' = OnWire(k) /\ pendingRequests' = PendingAfterSending(k)
  /\ UNCHANGED <<viewer, screen, choice, dialog, busy, lists, tables>>

-----------------------------------------------------------------------------
(* Changes: a button, the dialog, the mutation.                            *)
OpenDialog(c) ==
  /\ Uncovered
  /\ \E l \in Shown : \E i \in DOMAIN l.rows : c \in Buttons(i, l.rows[i])
  /\ dialog' = {c}
  /\ UNCHANGED <<viewer, screen, choice, busy, lists, run, wire, pendingRequests, tables, sent>>

Dismiss ==
  /\ dialog # {} /\ busy = 0 /\ dialog' = {}
  /\ UNCHANGED <<viewer, screen, choice, busy, lists, run, wire, pendingRequests, tables, sent>>

(* A refused request rejects at once and leaves the dialog open.           *)
BusyWith(c) == IF Refused(c) THEN 0 ELSE sent + 1

ConfirmChange ==
  /\ Acts /\ busy = 0
  /\ \E c \in dialog :
       /\ busy' = BusyWith(c)
       /\ wire' = OnWire(c) /\ pendingRequests' = PendingAfterSending(c)
  /\ UNCHANGED <<viewer, screen, choice, dialog, lists, run, tables>>

(* SettingsPage: a form is sent without a dialog and kept for an error.    *)
Submit(f) ==
  /\ Acts /\ screen = "settings" /\ busy = 0
  /\ LET c == Change("me", 1, f, "form") IN
       /\ busy' = BusyWith(c)
       /\ wire' = OnWire(c) /\ pendingRequests' = PendingAfterSending(c)
  /\ UNCHANGED <<viewer, screen, choice, dialog, lists, run, tables>>

(* A mutation's onSuccess: the page's query is fetched anew, and what an   *)
(* earlier fetch of it brings is ignored.                                  *)
Silenced(others, k) ==
  {IF r.key = k THEN [r EXCEPT !.silent = TRUE] ELSE r : r \in others}

Invalidated(r) ==
  LET k == ListKey(screen, choice)
      others == Silenced(wire \ {r}, k)
      pending == PendingAfterAnswer(r.key)
  IN  /\ IF k \in pending
         THEN /\ wire' = others /\ pendingRequests' = pending \ {k}
              /\ run' = [state |-> "waiting", left |-> MaxRetries]
         ELSE /\ wire' = others \cup
                   {[n |-> sent + 1, key |-> k, silent |-> FALSE, answer |-> {}]}
              /\ pendingRequests' = pending \cup {k}
              /\ run' = [state |-> "sent", left |-> MaxRetries]
      /\ sent' = sent + 1

-----------------------------------------------------------------------------
(* The server.                                                             *)
Logged(c) ==
  CASE c.table = "users" -> "USER" [] c.table = "cars" -> "CAR"
    [] c.table = "bookings" -> "BOOKING" [] OTHER -> "REVIEW"

Without(f, i) == [j \in DOMAIN f \ {i} |-> f[j]]

RowChanged(row, c) ==
  CASE c.what = "verify" -> [row EXCEPT !.verified = c.to]
    [] c.what = "role" -> [row EXCEPT !.role = c.to]
    [] c.what = "deactivate" -> [row EXCEPT !.active = c.to]
    [] OTHER -> [row EXCEPT !.status = c.to]

(* The writes of admin.service, with the audit row the controller adds.    *)
TablesAfter(c) ==
  IF c.table = "me" \/ c.row \notin DOMAIN tables[c.table] THEN tables
  ELSE LET t == tables[c.table]
           new == IF c.what = "delete" THEN Without(t, c.row)
                  ELSE [t EXCEPT ![c.row] = RowChanged(@, c)]
           n == Cardinality(DOMAIN tables.audit) + 1
       IN  [tables EXCEPT ![c.table] = new,
                          !.audit = [j \in DOMAIN @ \cup {n} |->
                                       IF j = n THEN [action |-> Logged(c)] ELSE @[j]]]

Answering(r, a) == (wire \ {r}) \cup {[r EXCEPT !.answer = {a}]}

ServerReads(r) ==
  /\ r.answer = {} /\ IsRead(r.key)
  /\ wire' = Answering(r, Listed(r.key))
  /\ UNCHANGED <<viewer, screen, choice, dialog, busy, lists, run, pendingRequests, tables, sent>>

(* Deleting what is gone succeeds, changing it is turned down.             *)
Missing(c) ==
  c.table # "me" /\ c.what # "delete" /\ c.row \notin DOMAIN tables[c.table]

(* Accounts says when a change of a user is turned down.                   *)
ServerWrites(r) ==
  /\ r.answer = {} /\ ~IsRead(r.key)
  /\ \/ /\ ~Missing(r.key)
        /\ wire' = Answering(r, [ok |-> TRUE]) /\ tables' = TablesAfter(r.key)
     \/ wire' = Answering(r, [ok |-> FALSE]) /\ UNCHANGED tables
  /\ UNCHANGED <<viewer, screen, choice, dialog, busy, lists, run, pendingRequests, sent>>

-----------------------------------------------------------------------------
(* The interceptors of an answer, and what awaits it.                      *)
OnScreen(r) == r.key = ListKey(screen, choice) /\ ~r.silent

(* Mutant: the list of an earlier fetch stays beside the new one.          *)
CachedBeside(r) == lists \cup {[key |-> r.key, list |-> l] : l \in r.answer}

(* The query cache has one list for a key.                                 *)
Cached(r) ==
  {l \in lists : l.key # r.key} \cup {[key |-> r.key, list |-> l] : l \in r.answer}

ListArrives(r) ==
  /\ IsRead(r.key) /\ r.answer # {}
  /\ wire' = wire \ {r} /\ pendingRequests' = PendingAfterAnswer(r.key)
  /\ lists' = IF r.silent THEN lists ELSE Cached(r)
  /\ run' = IF OnScreen(r) THEN Idle ELSE run
  /\ UNCHANGED <<viewer, screen, choice, dialog, busy, tables, sent>>

ReadFails(r) ==
  /\ Acts /\ IsRead(r.key)
  /\ wire' = wire \ {r} /\ pendingRequests' = PendingAfterError(r.key)
  /\ run' = IF ~OnScreen(r) THEN run
            ELSE IF run.left > 0 THEN [run EXCEPT !.state = "waiting"]
            ELSE [state |-> "failed", left |-> 0]
  /\ UNCHANGED <<viewer, screen, choice, dialog, busy, lists, tables>>

(* The end of a request frees the page that sent it, if it is still shown. *)
BusyAfter(r) == IF r.n = busy THEN 0 ELSE busy

(* handleVerify and its like: the dialog, which keeps its page on the      *)
(* screen, closes when the change is done, and the page's list is fetched. *)
ChangeDone(r) ==
  /\ ~IsRead(r.key) /\ r.key.table # "me" /\ r.answer = {[ok |-> TRUE]} /\ sent < MaxSent
  /\ dialog' = {} /\ busy' = BusyAfter(r) /\ Invalidated(r)
  /\ UNCHANGED <<viewer, screen, choice, lists, tables>>

(* handleProfileUpdate, handlePasswordChange: no list is fetched, whatever *)
(* page is shown by now.                                                   *)
FormSaved(r) ==
  /\ ~IsRead(r.key) /\ r.key.table = "me" /\ r.answer = {[ok |-> TRUE]}
  /\ wire' = wire \ {r} /\ pendingRequests' = PendingAfterAnswer(r.key)
  /\ busy' = BusyAfter(r)
  /\ UNCHANGED <<viewer, screen, choice, dialog, lists, run, tables, sent>>

(* The server says no, or the answer is lost: the dialog stays.            *)
ChangeFails(r) ==
  /\ ~IsRead(r.key)
  /\ \/ r.answer = {[ok |-> FALSE]} /\ UNCHANGED sent
     \/ Acts
  /\ wire' = wire \ {r} /\ pendingRequests' = PendingAfterError(r.key)
  /\ busy' = BusyAfter(r)
  /\ UNCHANGED <<viewer, screen, choice, dialog, lists, run, tables>>

(* Signing out, and a 401: the browser loads the login page, and the       *)
(* client's memory goes with the page it leaves.                           *)
LeavePanel ==
  /\ Acts
  /\ viewer' = "none" /\ screen' = "login" /\ choice' = NoChoice
  /\ dialog' = {} /\ busy' = 0 /\ lists' = {} /\ run' = Idle
  /\ wire' = {} /\ pendingRequests' = {}
  /\ UNCHANGED tables

(* LoginPage: setAuth, then the dashboard.                                 *)
LogIn(v) ==
  /\ viewer = "none" /\ sent < MaxSent /\ sent' = sent + 1
  /\ viewer' = v /\ screen' = "dashboard"
  /\ QueryFetched(ListKey("dashboard", NoChoice))
  /\ UNCHANGED <<choice, dialog, busy, lists, tables>>

-----------------------------------------------------------------------------
(* A page is loaded, with the user that localStorage remembers.            *)
PanelInit ==
  /\ viewer \in Viewers /\ screen \in SidebarItems /\ choice = NoChoice
  /\ dialog = {} /\ busy = 0 /\ lists = {} /\ sent = 1
  /\ pendingRequests = {ListKey(s, choice) : s \in {screen} \ {"settings"}}
  /\ wire = {[n |-> 1, key |-> k, silent |-> FALSE, answer |-> {}] : k \in pendingRequests}
  /\ run = IF screen = "settings" THEN Idle ELSE [state |-> "sent", left |-> MaxRetries]
  /\ tables =
       [users |-> [i \in PanelRows |->
          [role |-> IF i = 1 THEN "admin" ELSE "user", verified |-> "no", active |-> "yes"]],
        cars |-> [i \in PanelRows |-> [status |-> "pending"]],
        bookings |-> [i \in PanelRows |->
          [status |-> IF i = 1 THEN "pending" ELSE "in_progress"]],
        reviews |-> [i \in PanelRows |-> [status |-> "posted"]],
        audit |-> [i \in {} |-> [action |-> "none"]]]

PanelNext ==
  \/ \E s \in SidebarItems : Open(s)
  \/ FilterUsers \/ FilterCars \/ FilterBookings \/ FilterAudit
  \/ NextPage \/ PreviousPage \/ Refocus \/ RetryRead
  \/ \E l \in Shown : \E i \in DOMAIN l.rows : \E c \in Buttons(i, l.rows[i]) : OpenDialog(c)
  \/ Dismiss \/ ConfirmChange \/ \E f \in {"profile", "password"} : Submit(f)
  \/ \E r \in wire :
       ServerReads(r) \/ ServerWrites(r) \/ ListArrives(r) \/ ReadFails(r)
         \/ ChangeDone(r) \/ FormSaved(r) \/ ChangeFails(r)
  \/ LeavePanel \/ \E v \in Viewers : LogIn(v)

PanelSpec == PanelInit /\ [][PanelNext]_panelVars

-----------------------------------------------------------------------------
(* Properties.                                                             *)

(* What the filters ask for.                                               *)
Labels ==
  PanelRoles \cup PanelStatuses \cup
  {"yes", "no", "approved", "USER", "CAR", "BOOKING", "REVIEW"}
Choices == [by : SUBSET Labels, text : BOOLEAN, page : Nat \ {0}]

(* The variables keep their types: a read that waits for its next attempt  *)
(* has one left, a request one answer at most, a query one list.           *)
PanelTypeOK ==
  /\ viewer \in Viewers \cup {"none"} /\ busy \in 0 .. MaxSent
  /\ screen \in {"login", "settings", "dashboard", "users", "cars", "bookings", "reviews",
                 "admins", "audit"}
  /\ choice \in Choices
  /\ Cardinality(dialog) <= 1 /\ sent \in 0 .. MaxSent
  /\ run \in [state : {"idle", "sent", "waiting", "failed"}, left : 0 .. MaxRetries]
  /\ run.state = "waiting" => run.left > 0
  /\ \A r \in wire : \A a, b \in r.answer : a = b
  /\ \A l, m \in lists : l.key = m.key => l = m

(* A request without a body counts as pending only while one like it is    *)
(* awaited: whatever fails, is retried, ignored or answered late, a list   *)
(* is never refused because of a request that is over.                     *)
PendingIsAwaited ==
  \A k \in pendingRequests : HasBody(k) \/ \E r \in wire : r.key = k

-----------------------------------------------------------------------------
(* The inductive invariant behind it.                                      *)

(* What is on the wire keeps the shape of a request.                       *)
WireShape ==
  \A r \in wire : r = [n |-> r.n, key |-> r.key, silent |-> r.silent, answer |-> r.answer]

(* A page is busy only with a request of its own that is still awaited.    *)
BusyIsAwaited == busy # 0 => \E r \in wire : r.n = busy /\ ~IsRead(r.key)

(* The dialog asks for a change.                                           *)
AsksForChange == \A c \in dialog : ~IsRead(c)

PendingInv == WireShape /\ PendingIsAwaited
PanelInv == PendingInv /\ BusyIsAwaited /\ AsksForChange
=============================================================================
