----------------------------- MODULE Catalogue -----------------------------
(***************************************************************************)
(* The cars table and the handlers that write it: an owner adds, edits and *)
(* deletes a car (PATCH /cars/:id reads the row, checks the place, writes),*)
(* an administrator approves or rejects it.  One step is one statement on  *)
(* cars; regions and districts never change once they are seeded, so their *)
(* reads are part of the step before.                                      *)
(***************************************************************************)
EXTENDS Naturals, FiniteSets

CONSTANTS
  CarIds,
  Regions, Districts, RegionOf,  \* the region of each district
  People, Admins,
  CarAsks,     \* what a request may ask for
  Requests,    \* the requests, each made once
  Garages,     \* the tables to start with
  NoPlace      \* NULL, and an argument that is left out

CarStatuses == {"pending", "approved", "rejected"}
Region == Regions \cup {NoPlace}
District == Districts \cup {NoPlace}
Car == [owner : People, region : Region, district : District,
        available : BOOLEAN, status : CarStatuses, deleted : BOOLEAN]
CarAsk == [op : {"create", "update", "delete", "approve", "reject"},
           by : People, car : CarIds, region : Region, district : District,
           available : BOOLEAN \cup {NoPlace}]
CarCall == [ask : CarAsk, at : {"sent", "checked", "done", "refused"},
            screen : {"awaited", "left", "none"}]  \* the screen that sent it

(* A place that is complete is one place.                                  *)
InOnePlace(c) == c.region # NoPlace /\ c.district # NoPlace => RegionOf[c.district] = c.region

ASSUME CatalogueAssumption ==
  /\ RegionOf \in [Districts -> Regions]
  /\ Admins \subseteq People
  /\ CarAsks \subseteq CarAsk
  /\ Garages \subseteq [CarIds -> Car \cup {NoPlace}]
  /\ \A g \in Garages : \A c \in CarIds : g[c] # NoPlace => InOnePlace(g[c])
  /\ NoPlace \notin Regions \cup Districts \cup BOOLEAN \cup Car \cup CarCall

VARIABLES
  cars,     \* table cars
  request

catalogueVars == <<cars, request>>

CatalogueInit ==
  /\ cars \in Garages
  /\ request = [q \in Requests |-> NoPlace]

-----------------------------------------------------------------------------
Kept(c) == cars[c] # NoPlace /\ ~cars[c].deleted

(* getCar hides a car that is not approved from strangers.                 *)
Visible(c, u) ==
  Kept(c) /\ (cars[c].status = "approved" \/ cars[c].owner = u \/ u \in Admins)

(* _validateLocation.                                                      *)
ValidPlace(region, district) ==
  region # NoPlace /\ district # NoPlace /\ RegionOf[district] = region

Given(new, old) == IF new = NoPlace THEN old ELSE new

(* What each service method tests before it writes.                        *)
MayWrite(a) ==
  CASE a.op = "create" -> ValidPlace(a.region, a.district)
    [] a.op = "update" ->
         /\ Visible(a.car, a.by) /\ cars[a.car].owner = a.by
         /\ \/ a.region = NoPlace /\ a.district = NoPlace
            \/ ValidPlace(Given(a.region, cars[a.car].region),
                          Given(a.district, cars[a.car].district))
    [] a.op = "delete" ->
         Visible(a.car, a.by) /\ (cars[a.car].owner = a.by \/ a.by \in Admins)
    [] OTHER -> a.by \in Admins /\ cars[a.car] # NoPlace

Send(q, a, screen) ==
  /\ request[q] = NoPlace
  /\ request' = [request EXCEPT ![q] = [ask |-> a, at |-> "sent", screen |-> screen]]
  /\ UNCHANGED cars

Becomes(q, at) == request' = [request EXCEPT ![q].at = at]

CheckRequest(q) ==
  /\ request[q].at = "sent"
  /\ Becomes(q, IF MayWrite(request[q].ask) THEN "checked" ELSE "refused")
  /\ UNCHANGED cars

(* Mutant: region and district keep their value like the other columns.    *)
Coalesced(a) ==
  [cars[a.car] EXCEPT !.region = Given(a.region, @), !.district = Given(a.district, @),
                      !.available = Given(a.available, @)]

(* Every column but these two is COALESCEd: a PATCH without a place takes  *)
(* the car's place away.                                                   *)
Edited(a) ==
  [cars[a.car] EXCEPT !.region = a.region, !.district = a.district,
                      !.available = Given(a.available, @)]

(* Mutant: UPDATE cars without deleted_at IS NULL.                         *)
AnyRow(a) == cars[a.car] # NoPlace

(* The rows UPDATE finds.  None is still answered 200.                     *)
UpdatedRow(a) == Kept(a.car)

WriteCar(q) ==
  LET a == request[q].ask IN
  /\ request[q].at = "checked"
  /\ Becomes(q, "done")
  /\ CASE a.op = "create" ->
            \E c \in CarIds :
              /\ cars[c] = NoPlace
              /\ cars' = [cars EXCEPT ![c] =
                   [owner |-> a.by, region |-> a.region, district |-> a.district,
                    available |-> TRUE, status |-> "pending", deleted |-> FALSE]]
       [] a.op = "update" ->
            cars' = IF UpdatedRow(a) THEN [cars EXCEPT ![a.car] = Edited(a)] ELSE cars
       [] a.op = "delete" -> cars' = [cars EXCEPT ![a.car].deleted = TRUE]
       [] a.op = "approve" -> cars' = [cars EXCEPT ![a.car].status = "approved"]
       [] a.op = "reject" -> cars' = [cars EXCEPT ![a.car].status = "rejected"]

HandlesCars == \E q \in Requests : request[q] # NoPlace /\ (CheckRequest(q) \/ WriteCar(q))

CatalogueNext ==
  \/ HandlesCars
  \/ \E q \in Requests, a \in CarAsks : Send(q, a, "none")

CatalogueSpec == CatalogueInit /\ [][CatalogueNext]_catalogueVars

-----------------------------------------------------------------------------
(* Properties.                                                             *)

(* The variables keep their types.                                         *)
CatalogueTypeOK ==
  /\ cars \in [CarIds -> Car \cup {NoPlace}]
  /\ request \in [Requests -> CarCall \cup {NoPlace}]

(* A car with both a region and a district lies in the district's region,  *)
(* although an edit of one of the two is checked against a row read before *)
(* the write, and written without the other.  A car with one of them alone,*)
(* which such an edit leaves, is not in question.                          *)
LocationConsistent ==
  \A c \in CarIds : cars[c] # NoPlace => InOnePlace(cars[c])

(* A deleted car stays deleted and as it was, but for the status an        *)
(* administrator may still give it: no edit in flight revives it.          *)
DeletedStays ==
  [][\A c \in CarIds : cars[c] # NoPlace /\ cars[c].deleted =>
       cars'[c] = [cars[c] EXCEPT !.status = cars'[c].status]]_catalogueVars

-----------------------------------------------------------------------------
(* The inductive invariant behind them.                                    *)

(* What was tested still holds when the request writes.                    *)
CheckedHolds ==
  \A q \in Requests : request[q] # NoPlace /\ request[q].at = "checked" =>
    LET a == request[q].ask IN
    /\ a.op # "create" => cars[a.car] # NoPlace
    /\ a.op \in {"create", "update"} => InOnePlace(a)

CatalogueInv == CatalogueTypeOK /\ LocationConsistent /\ CheckedHolds
=============================================================================
