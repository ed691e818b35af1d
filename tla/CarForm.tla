------------------------------ MODULE CarForm ------------------------------
(***************************************************************************)
(* The screens of the mobile app that read and write cars: MyCarsScreen,   *)
(* AddEditCarScreen over it or over the tabs, and CarDetailScreen over the *)
(* tabs.  A step is one event on the device with what React renders for it.*)
(***************************************************************************)
EXTENDS Catalogue

CONSTANTS
  Owner,         \* who holds the device
  Alongside,     \* what others ask for meanwhile
  Fetches,       \* the fetches of a screen that are in flight together
  MaxPicks       \* bound on what the owner opens, pulls, picks and toggles

ASSUME CarFormAssumption ==
  /\ Owner \in People /\ Alongside \subseteq CarAsk /\ CarIds # {}
  /\ IsFiniteSet(Fetches) /\ MaxPicks \in Nat

VARIABLES
  mine,      \* MyCarsScreen: the cars it shows, its fetches and flags
  carForm,   \* AddEditCarScreen
  carDetail,  \* CarDetailScreen; NoPlace, like the other two, while not open
  strayReads,  \* the reads of closed screens that go back should they fail
  mishap,    \* history: a list of districts failed or came for another region
  picks

carScreenVars == <<mine, carForm, carDetail, strayReads, mishap, picks>>
carFormVars == <<carScreenVars, catalogueVars>>

NoFetch == [f \in Fetches |-> NoPlace]
Flying == <<>>  \* in flight, not yet read
Answers == {Flying} \cup {<<list>> : list \in SUBSET CarIds}

Mine == [shown : SUBSET CarIds, loading : BOOLEAN, refreshing : BOOLEAN,
         fetch : [Fetches -> Answers \cup {NoPlace}]]
Form == [car : CarIds \cup {NoPlace}, region : Region, district : District,
         regions : BOOLEAN, asksRegions : BOOLEAN, fetching : BOOLEAN,
         districts : Region, fetch : [Fetches -> Region], locationLoading : BOOLEAN,
         available : BOOLEAN, loading : BOOLEAN]
Detail == [car : CarIds, shown : BOOLEAN, loading : BOOLEAN, fetch : SUBSET Fetches]

(* MyCarsScreen mounts and fetches.                                        *)
NewMine(f) ==
  [shown |-> {}, loading |-> TRUE, refreshing |-> FALSE,
   fetch |-> [NoFetch EXCEPT ![f] = Flying]]

CarFormInit ==
  /\ CatalogueInit
  /\ \E f \in Fetches : mine = NewMine(f)
  /\ carForm = NoPlace /\ carDetail = NoPlace /\ strayReads = 0
  /\ mishap = FALSE /\ picks = 0

Does == picks < MaxPicks /\ picks' = picks + 1
OnTabs == mine = NoPlace /\ carForm = NoPlace /\ carDetail = NoPlace
OnMine == mine # NoPlace /\ carForm = NoPlace /\ carDetail = NoPlace

(* getLocalizedName of what a list does not hold throws while rendering,   *)
(* which nothing catches.                                                  *)
Broken ==
  /\ carForm # NoPlace /\ ~carForm.fetching
  /\ \/ carForm.region # NoPlace /\ ~carForm.regions
     \/ /\ carForm.district # NoPlace /\ ~carForm.locationLoading
        /\ carForm.districts = NoPlace \/ RegionOf[carForm.district] # carForm.districts

-----------------------------------------------------------------------------
(* navigation.goBack closes the screen that is shown, whichever screen     *)
(* calls it.  The answers to a closed screen change nothing on the device, *)
(* but a save still goes back, and so does the read of a car that fails.   *)

Unheard(req, ops, now) ==
  [q \in Requests |->
     IF req[q] # NoPlace /\ req[q].screen = "awaited" /\ req[q].ask.op \in ops
     THEN [req[q] EXCEPT !.screen = now] ELSE req[q]]

(* goBack with the requests req and n reads of closed screens on their way.*)
PopScreen(req, n) ==
  \/ /\ carDetail # NoPlace
     /\ carDetail' = NoPlace /\ strayReads' = n + Cardinality(carDetail.fetch)
     /\ request' = req /\ UNCHANGED <<mine, carForm>>
  \/ /\ carForm # NoPlace /\ ~Broken
     /\ carForm' = NoPlace /\ strayReads' = IF carForm.fetching THEN n + 1 ELSE n
     /\ request' = Unheard(req, {"create", "update"}, "left")
     /\ UNCHANGED <<mine, carDetail>>
  \/ /\ OnMine /\ mine' = NoPlace /\ strayReads' = n
     /\ request' = Unheard(req, {"delete"}, "none") /\ UNCHANGED <<carForm, carDetail>>
  \/ /\ OnTabs \/ Broken
     /\ strayReads' = n /\ request' = req /\ UNCHANGED <<mine, carForm, carDetail>>

(* The back button.                                                        *)
Back ==
  /\ ~OnTabs /\ ~Broken /\ PopScreen(request, strayReads)
  /\ UNCHANGED <<cars, mishap, picks>>

(* The car of a screen that was closed cannot be read, or arrives.         *)
LateRead ==
  /\ strayReads > 0
  /\ \/ PopScreen(request, strayReads - 1)
     \/ strayReads' = strayReads - 1 /\ UNCHANGED <<request, mine, carForm, carDetail>>
  /\ UNCHANGED <<cars, mishap, picks>>

Told(q) == [request EXCEPT ![q].screen = "none"]

(* A save is answered after its form was closed.                           *)
LateSave(q) ==
  /\ request[q].screen = "left"
  /\ \/ request[q].at = "done" /\ PopScreen(Told(q), strayReads)
     \/ request' = Told(q) /\ UNCHANGED <<mine, carForm, carDetail, strayReads>>
  /\ UNCHANGED <<cars, mishap, picks>>

-----------------------------------------------------------------------------
(* MyCarsScreen.  Nothing aborts a fetch: an older list may come last.     *)

Fetching(m) ==
  {[m EXCEPT !.fetch[f] = Flying] : f \in {g \in Fetches : m.fetch[g] = NoPlace}}

OpenMine(f) ==
  /\ OnTabs /\ Does
  /\ mine' = NewMine(f)
  /\ UNCHANGED <<carForm, carDetail, strayReads, mishap, catalogueVars>>

PullMine ==
  /\ OnMine /\ Does
  /\ mine' \in Fetching([mine EXCEPT !.refreshing = TRUE])
  /\ UNCHANGED <<carForm, carDetail, strayReads, mishap, catalogueVars>>

(* findAllByOwner.                                                         *)
ReadMine(f) ==
  /\ mine # NoPlace /\ mine.fetch[f] = Flying
  /\ mine' = [mine EXCEPT !.fetch[f] =
                 <<{c \in CarIds : Kept(c) /\ cars[c].owner = Owner}>>]
  /\ UNCHANGED <<carForm, carDetail, strayReads, mishap, picks, catalogueVars>>

MineArrives(f) ==
  /\ mine # NoPlace /\ mine.fetch[f] # NoPlace
  /\ \E got \in {mine.fetch[f], Flying} :  \* Flying: it fails
       mine' = [mine EXCEPT !.fetch[f] = NoPlace, !.loading = FALSE, !.refreshing = FALSE,
                            !.shown = IF got = Flying THEN @ ELSE got[1]]
  /\ UNCHANGED <<carForm, carDetail, strayReads, mishap, picks, catalogueVars>>

CarRequest(op, c, region, district, available) ==
  [op |-> op, by |-> Owner, car |-> c, region |-> region, district |-> district,
   available |-> available]

DeleteMine(q, c) ==
  /\ OnMine /\ c \in mine.shown
  /\ Send(q, CarRequest("delete", c, NoPlace, NoPlace, NoPlace), "awaited")
  /\ UNCHANGED <<picks, mine, carForm, carDetail, strayReads, mishap>>

(* A deletion is answered: the list is fetched again, or a toast.          *)
DeleteEnds(q) ==
  /\ mine # NoPlace /\ request[q].screen = "awaited" /\ request[q].ask.op = "delete"
  /\ request[q].at \in {"done", "refused"}
  /\ request' = Told(q)
  /\ IF request[q].at = "done" THEN mine' \in Fetching(mine) ELSE UNCHANGED mine
  /\ UNCHANGED <<cars, carForm, carDetail, strayReads, mishap, picks>>

-----------------------------------------------------------------------------
(* AddEditCarScreen.                                                       *)

(* It fetches the regions and, to edit, the car, side by side.             *)
OpenForm(c) ==
  /\ Does
  /\ \/ OnMine /\ c \in mine.shown \cup {NoPlace}
     \/ OnTabs /\ c = NoPlace
  /\ carForm' = [car |-> c, region |-> NoPlace, district |-> NoPlace,
              regions |-> FALSE, asksRegions |-> TRUE, fetching |-> c # NoPlace,
              districts |-> NoPlace, fetch |-> NoFetch, locationLoading |-> FALSE,
              available |-> TRUE, loading |-> FALSE]
  /\ mishap' = FALSE
  /\ UNCHANGED <<mine, carDetail, strayReads, catalogueVars>>

Filling == carForm # NoPlace /\ ~Broken
Untouched == UNCHANGED <<mine, carDetail, strayReads, catalogueVars>>

RegionsArrive ==
  /\ Filling /\ carForm.asksRegions
  /\ carForm' \in {[carForm EXCEPT !.asksRegions = FALSE, !.regions = ok] : ok \in BOOLEAN}
  /\ UNCHANGED <<mishap, picks>> /\ Untouched

(* fetchDistricts.                                                         *)
AskDistricts(w, r) ==
  {[w EXCEPT !.fetch[f] = r, !.locationLoading = TRUE] :
     f \in {g \in Fetches : w.fetch[g] = NoPlace}}

(* fetchCarDetails: the form leaves if the car cannot be read.             *)
CarArrives ==
  /\ Filling /\ carForm.fetching
  /\ \/ carForm' = NoPlace
     \/ /\ Visible(carForm.car, Owner)
        /\ LET car == cars[carForm.car]
               w == [carForm EXCEPT !.region = car.region, !.district = car.district,
                                 !.available = car.available, !.fetching = FALSE]
           IN carForm' \in IF car.region = NoPlace THEN {w} ELSE AskDistricts(w, car.region)
  /\ UNCHANGED <<mishap, picks>> /\ Untouched

(* The districts come in any order, and any answer stops the spinner.      *)
DistrictsArrive(f, ok) ==
  /\ Filling /\ carForm.fetch[f] # NoPlace
  /\ carForm' = [carForm EXCEPT !.fetch[f] = NoPlace, !.locationLoading = FALSE,
                          !.districts = IF ok THEN carForm.fetch[f] ELSE @]
  /\ mishap' = (mishap \/ ~ok \/ carForm.fetch[f] # carForm.region)
  /\ UNCHANGED picks /\ Untouched

(* Mutant: another region leaves the district as it was.                   *)
KeepDistrict(w, r) == [w EXCEPT !.region = r]

InRegion(w, r) == [w EXCEPT !.region = r, !.district = NoPlace]

PickRegion(r) ==
  /\ Filling /\ ~carForm.fetching /\ carForm.regions /\ Does
  /\ carForm' \in AskDistricts(InRegion(carForm, r), r)
  /\ UNCHANGED mishap /\ Untouched

(* From the list at hand, which may be the former region's.                *)
PickDistrict(d) ==
  /\ Filling /\ carForm.region # NoPlace /\ ~carForm.locationLoading /\ Does
  /\ RegionOf[d] = carForm.districts
  /\ carForm' = [carForm EXCEPT !.district = d]
  /\ UNCHANGED mishap /\ Untouched

ToggleAvailable ==
  /\ Filling /\ ~carForm.fetching /\ carForm.car # NoPlace /\ Does
  /\ carForm' = [carForm EXCEPT !.available = ~@]
  /\ UNCHANGED mishap /\ Untouched

(* handleSave.  The form sends every field, and both parts of the place.   *)
Save(q) ==
  /\ Filling /\ ~carForm.fetching /\ ~carForm.loading
  /\ carForm.region # NoPlace /\ carForm.district # NoPlace
  /\ carForm' = [carForm EXCEPT !.loading = TRUE]
  /\ Send(q, CarRequest(IF carForm.car = NoPlace THEN "create" ELSE "update",
                     Given(carForm.car, CHOOSE c \in CarIds : TRUE),
                     carForm.region, carForm.district, carForm.available), "awaited")
  /\ UNCHANGED <<picks, mine, carDetail, strayReads, mishap>>

(* Saved: goBack.  Refused, or the answer is lost: a toast, and the owner  *)
(* may send the form again although the server may still write.            *)
SaveEnds(q) ==
  /\ carForm # NoPlace /\ carForm.loading
  /\ request[q].screen = "awaited" /\ request[q].ask.op \in {"create", "update"}
  /\ \/ request[q].at = "done" /\ PopScreen(Told(q), strayReads)
     \/ /\ carForm' = [carForm EXCEPT !.loading = FALSE]
        /\ request' = Told(q) /\ UNCHANGED <<mine, carDetail, strayReads>>
  /\ UNCHANGED <<cars, mishap, picks>>

-----------------------------------------------------------------------------
(* CarDetailScreen.                                                        *)

(* From the home tab, whose list may be older than the car's deletion.     *)
OpenDetail(c, f) ==
  /\ OnTabs /\ Does /\ cars[c] # NoPlace /\ cars[c].status = "approved"
  /\ carDetail' = [car |-> c, shown |-> FALSE, loading |-> TRUE, fetch |-> {f}]
  /\ UNCHANGED <<mine, carForm, strayReads, mishap, catalogueVars>>

(* Its effect runs again when the language changes.                        *)
OtherLanguage(f) ==
  /\ carDetail # NoPlace /\ f \notin carDetail.fetch /\ Does
  /\ carDetail' = [carDetail EXCEPT !.loading = TRUE, !.fetch = @ \cup {f}]
  /\ UNCHANGED <<mine, carForm, strayReads, mishap, catalogueVars>>

(* The car and its reviews, together; without one of them it leaves.       *)
DetailArrives(f) ==
  /\ carDetail # NoPlace /\ f \in carDetail.fetch
  /\ \/ /\ carDetail' = NoPlace
        /\ strayReads' = strayReads + Cardinality(carDetail.fetch \ {f})
     \/ /\ Visible(carDetail.car, Owner) /\ UNCHANGED strayReads
        /\ carDetail' = [carDetail EXCEPT !.shown = TRUE, !.loading = FALSE,
                                           !.fetch = @ \ {f}]
  /\ UNCHANGED <<mine, carForm, mishap, picks, catalogueVars>>

(* The skeleton, or the car with its owner, reviews and button.            *)
CarDetailShows == IF carDetail.loading THEN "skeleton" ELSE IF carDetail.shown THEN "car" ELSE "nothing"

-----------------------------------------------------------------------------
CarFormNext ==
  \/ PullMine \/ RegionsArrive \/ CarArrives \/ ToggleAvailable \/ Back \/ LateRead
  \/ \E f \in Fetches :
       \/ OpenMine(f) \/ ReadMine(f) \/ MineArrives(f) \/ OtherLanguage(f) \/ DetailArrives(f)
       \/ \E ok \in BOOLEAN : DistrictsArrive(f, ok)
       \/ \E c \in CarIds : OpenDetail(c, f)
  \/ \E c \in CarIds \cup {NoPlace} : OpenForm(c)
  \/ \E r \in Regions : PickRegion(r)
  \/ \E d \in Districts : PickDistrict(d)
  \/ \E q \in Requests :
       \/ Save(q)
       \/ request[q] # NoPlace /\ (SaveEnds(q) \/ LateSave(q) \/ DeleteEnds(q))
       \/ \E c \in CarIds : DeleteMine(q, c)
       \/ \E a \in Alongside : Send(q, a, "none") /\ UNCHANGED carScreenVars
  \/ HandlesCars /\ UNCHANGED carScreenVars

CarFormSpec == CarFormInit /\ [][CarFormNext]_carFormVars

-----------------------------------------------------------------------------
(* Properties.                                                             *)

(* The variables keep their types.                                         *)
CarFormTypeOK ==
  /\ mine \in Mine \cup {NoPlace}
  /\ carForm \in Form \cup {NoPlace}
  /\ carDetail \in Detail \cup {NoPlace}
  /\ mishap \in BOOLEAN /\ strayReads \in Nat
  /\ picks \in 0 .. MaxPicks

(* The form breaks only where a list it looks a name up in is missing,     *)
(* failed or overtaken by that of another region, or the car was left with *)
(* a district alone: as long as the answers come in order, no sequence of  *)
(* picks asks for a name that is not there.                                *)
FormBreaksOnlyByLateLists ==
  Broken => mishap \/ ~carForm.regions \/ carForm.region = NoPlace

-----------------------------------------------------------------------------
(* The inductive invariant behind it.                                      *)

(* The district lies in the region, and the list at hand is the region's,  *)
(* but for lists that failed or were overtaken.                            *)
PlaceInv ==
  /\ mishap \in BOOLEAN
  /\ carForm # NoPlace =>
       /\ carForm \in Form
       /\ carForm.fetching => carForm.car \in CarIds
       /\ ~mishap /\ carForm.region # NoPlace =>
            /\ carForm.district # NoPlace => RegionOf[carForm.district] = carForm.region
            /\ carForm.locationLoading \/ carForm.districts = carForm.region

CarFormInv == CatalogueInv /\ PlaceInv
=============================================================================
