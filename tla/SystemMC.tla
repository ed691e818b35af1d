------------------------------ MODULE SystemMC ------------------------------
(***************************************************************************)
(* The components that share no state with the booking transactions, the   *)
(* pool and the sessions, each on its small instance.  A behaviour is one  *)
(* of one part, while the others keep one initial state: side by side they *)
(* would only multiply.                                                    *)
(***************************************************************************)
EXTENDS Accounts, Startup, BookingApp, BookingForm, CarForm, HomeScreen, Retries, AdminPanel, TLC

CONSTANTS
  Parts,                                 \* the parts that are looked at
  root, mod, ann, eve, p1, p2, p3, p4,   \* users and phones
  k1, k2, u1, u2,                        \* PATCHes and reviews of a booking
  car1, car2, d1, d2, R1, R2, q1, q2      \* cars, districts, regions, requests

VARIABLE part

-----------------------------------------------------------------------------
(* Accounts: a super admin, an admin, a user and a free id.                *)
MCFirstUsers ==
  LET User(p, r) ==
        [phone |-> p, role |-> r, active |-> TRUE, verified |-> FALSE, deleted |-> FALSE]
  IN  (root :> User(p1, "super_admin")) @@ (mod :> User(p2, "admin"))
        @@ (ann :> User(p3, "user")) @@ (eve :> None)

UserAsk(op, by, target, role, flag, phone) ==
  [op |-> op, by |-> by, target |-> target, role |-> role, flag |-> flag, phone |-> phone]

MCAsks ==
  {UserAsk("role", root, ann, "super_admin", TRUE, p1),
   UserAsk("role", mod, ann, "super_admin", TRUE, p1),
   UserAsk("role", mod, root, "user", TRUE, p1),
   UserAsk("role", root, root, "admin", TRUE, p1),
   UserAsk("role", root, eve, "admin", TRUE, p1),
   UserAsk("deactivate", mod, ann, "user", FALSE, p1),
   UserAsk("deactivate", root, mod, "user", FALSE, p1),
   UserAsk("delete", root, root, "user", FALSE, p1),
   UserAsk("delete", root, mod, "user", FALSE, p1),
   UserAsk("verify", mod, ann, "user", TRUE, p1),
   UserAsk("license", ann, ann, "user", TRUE, p1),
   UserAsk("profile", ann, ann, "user", TRUE, p4),
   UserAsk("register", eve, eve, "admin", TRUE, p4),
   UserAsk("register", eve, eve, "user", TRUE, p3)}

(* Startup: no database at all, and an old one that lacks columns.         *)
Database(exists, present, columns, person, n) ==
  [database |-> exists, tables |-> present, columns |-> columns, regions |-> FALSE,
   admin |-> person, john |-> person, cars |-> n]
MCFirstData ==
  {Database(FALSE, {}, {}, "none", 0), Database(TRUE, Tables, {"car_type"}, "user", 1)}

(* The booking of the screens, each beside any others or in the whole app. *)
(* Beside a screen the panel asks for one status, and nobody beside the    *)
(* dashboard; another booking of the list is cancelled before the second   *)
(* request of this one.  In the app no answer is lost, there is one        *)
(* request of a kind and one alert, the list has one booking, and the      *)
(* dashboard stays open with one fetch at a time.                          *)
MCStarts ==
  {[status |-> "pending", patches |-> Patches, submissions |-> {}],
   [status |-> "pending", patches |-> {k1}, submissions |-> {}],
   [status |-> "completed", patches |-> {}, submissions |-> Submissions],
   [status |-> "in_progress", patches |-> {k1}, submissions |-> {u1}]}

(* BookingForm: nested bookings, and a gap between two.                    *)
Held(s, e, status) == [start |-> s, end |-> e, status |-> status]
MCFirstTables ==
  {{Held(0, 3, "in_progress"), Held(1, 2, "confirmed")},
   {Held(0, 1, "confirmed"), Held(2, 3, "pending")}}
MCOthersAsk == {<<1, 3>>}

(* Catalogue and CarForm: an approved car, and a pending one without place.*)
(* The screens send one request, to the catalogue alone go two at a time.  *)
MCRegionOf == (d1 :> R1) @@ (d2 :> R2)
MCGarages ==
  LET Placed == [owner |-> ann, region |-> R1, district |-> d1, available |-> TRUE,
                 status |-> "approved", deleted |-> FALSE]
      Unplaced == [Placed EXCEPT !.region = NoPlace, !.district = NoPlace, !.status = "pending"]
  IN  {(car1 :> c) @@ (car2 :> NoPlace) : c \in {Placed, Unplaced}}
Asked(op, by, region, district, available) ==
  [op |-> op, by |-> by, car |-> car1, region |-> region, district |-> district,
   available |-> available]
MCCarAsks ==
  {Asked("update", ann, R2, d2, FALSE), Asked("update", ann, NoPlace, d1, NoPlace),
   Asked("update", ann, NoPlace, NoPlace, TRUE), Asked("delete", ann, NoPlace, NoPlace, NoPlace),
   Asked("approve", mod, NoPlace, NoPlace, NoPlace),
   Asked("reject", mod, NoPlace, NoPlace, NoPlace),
   Asked("create", ann, R1, d2, NoPlace), Asked("create", ann, R1, d1, NoPlace),
   Asked("reject", ann, NoPlace, NoPlace, NoPlace)}
MCAlongside == {Asked("update", ann, NoPlace, d1, NoPlace)}

-----------------------------------------------------------------------------
ASSUME PartsAssumption ==
  Parts \subseteq {"accounts", "startup", "detail", "list", "dashboard", "app", "form",
                   "catalogue", "cars", "home", "retries", "panel"}

(* The parts that are not looked at wait in one of their initial states.   *)
SystemInit ==
  /\ part \in Parts
  /\ AccountsInit /\ StartupInit /\ AppInit /\ FormInit
  /\ CarFormInit /\ HomeInit /\ RetriesInit /\ PanelInit
  /\ part # "startup" => ~data.database
  /\ part \notin {"detail", "list", "dashboard"} =>
       patch[k2] # Nothing /\ submission[u2] # Nothing
  /\ part \notin {"detail", "list", "dashboard", "app"} => row.status = "pending"
  /\ part = "dashboard" => row.status # "completed"
  /\ part # "form" => booked = CHOOSE t \in FirstTables : TRUE
  /\ price = CHOOSE p \in FormPrices : TRUE
  /\ part \notin {"catalogue", "cars"} => cars[car1].region = R1
  /\ mine.fetch[1] = Flying
  /\ part # "retries" => hasTable
  /\ part # "panel" => screen = "dashboard" /\ viewer = CHOOSE v \in Viewers : TRUE

systemVars == <<part, accountVars, startupVars, appVars, formVars, carFormVars,
                homeVars, retryVars, panelVars>>

AccountsPart ==
  /\ part = "accounts" /\ AccountsNext
  /\ UNCHANGED <<part, startupVars, appVars, formVars, carFormVars, homeVars, retryVars, panelVars>>
StartupPart ==
  /\ part = "startup" /\ StartupNext
  /\ UNCHANGED <<part, accountVars, appVars, formVars, carFormVars, homeVars, retryVars, panelVars>>
(* Who asks for a status, the panel only once.                             *)
Asking(screens) ==
  \A p \in Patches : patch'[p] # patch[p] =>
    /\ patch'[p].from \in screens
    /\ patch'[p].from = "panel" => p = k1
BookingPart ==
  /\ \/ /\ part = "detail" /\ DetailNext /\ Asking({"details", "panel"})
        /\ UNCHANGED <<stack, list, dash>>
     \/ /\ part = "list" /\ ListNext /\ Asking({"list", "panel"})
        /\ list'.another => patch'[k2] = Nothing
        /\ UNCHANGED <<detail, dash>>
     \/ /\ part = "dashboard" /\ DashNext /\ Asking({"dashboard"})
        /\ UNCHANGED <<detail, stack, list>>
     \/ part = "app" /\ UNCHANGED lost /\ AppNext
        /\ ~list'.another /\ dash'.mounted /\ Cardinality(dash'.fetches) <= 1
        /\ list'.alerts + detail'.alerts + detail'.stray <= 1
  /\ UNCHANGED <<part, accountVars, startupVars, formVars, carFormVars, homeVars, retryVars, panelVars>>
FormPart ==
  /\ part = "form" /\ FormNext
  /\ UNCHANGED <<part, accountVars, startupVars, appVars, carFormVars, homeVars, retryVars, panelVars>>
CarPart ==
  /\ \/ part = "catalogue" /\ CatalogueNext /\ UNCHANGED carScreenVars
     \/ part = "cars" /\ CarFormNext /\ request'[q2] = NoPlace
  /\ UNCHANGED <<part, accountVars, startupVars, appVars, formVars, homeVars, retryVars, panelVars>>
HomePart ==
  /\ part = "home" /\ HomeNext
  /\ UNCHANGED <<part, accountVars, startupVars, appVars, formVars, carFormVars, retryVars, panelVars>>
RetriesPart ==
  /\ part = "retries" /\ RetriesNext
  /\ UNCHANGED <<part, accountVars, startupVars, appVars, formVars, carFormVars, homeVars, panelVars>>
PanelPart ==
  /\ part = "panel" /\ PanelNext
  /\ UNCHANGED <<part, accountVars, startupVars, appVars, formVars, carFormVars, homeVars, retryVars>>

SystemNext ==
  \/ AccountsPart \/ StartupPart \/ BookingPart \/ FormPart \/ CarPart \/ HomePart
  \/ RetriesPart \/ PanelPart

(* A request that reached a live process is handled, a worker that runs    *)
(* goes on, the poll's interval fires, answers and timers arrive.          *)
SystemFairness ==
  /\ \A c \in UserCalls : WF_accountVars(part = "accounts" /\ Handle(c))
  /\ \A w \in Workers : WF_startupVars(part = "startup" /\ Proceeds(w))
  /\ WF_detailVars(part = "detail" /\ Poll)
  /\ WF_detailVars(part = "detail" /\ DetailProceeds)

SystemSpec == SystemInit /\ [][SystemNext]_systemVars /\ SystemFairness

-----------------------------------------------------------------------------
(* Properties.                                                             *)

(* What every step of a part keeps: the types, and the inductive           *)
(* invariants from which its safety properties follow.                     *)
SystemInv ==
  /\ part \in Parts
  /\ part = "accounts" => AccountsInv /\ TruthInv
  /\ part = "startup" => StartupInv
  /\ part \in {"detail", "list", "dashboard", "app"} =>
       BookingServerTypeOK /\ DetailTypeOK /\ ListTypeOK /\ DashTypeOK
  /\ part \in {"detail", "app"} => DetailInv
  /\ part \in {"list", "app"} => ListInv
  /\ part \in {"dashboard", "app"} => DashInv
  /\ part = "app" => MountedOnStack
  /\ part = "form" => FormTypeOK /\ FormInv /\ TableInv
  /\ part \in {"catalogue", "cars"} => CarFormTypeOK /\ CarFormInv
  /\ part = "home" => HomeInv
  /\ part = "retries" => RetriesInv
  /\ part = "panel" => PanelTypeOK /\ PanelInv

(* EveryWorkerListens, of the cluster that starts.                         *)
WorkersListen == part = "startup" => EveryWorkerListens

(* DetailCatchesUp, of the details beside any other screens.               *)
DetailsCatchUp == part = "detail" => DetailCatchesUp
=============================================================================
