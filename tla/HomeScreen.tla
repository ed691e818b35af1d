----------------------------- MODULE HomeScreen -----------------------------
(***************************************************************************)
(* HomeScreen, where a renter looks for a car: three filters, the text of  *)
(* one of them debounced, and one fetch at a time for them.  A step is one *)
(* event on the device with the effects React runs for it.  As shipped GET *)
(* /cars always fails, for findAll lacks an import; the screen is modelled *)
(* against any server, one that answers and one that fails.                *)
(***************************************************************************)
EXTENDS Naturals, FiniteSets

CONSTANTS
  HomeRegions, CarTypes, Texts,  \* what can be tapped and typed
  AnyCar,                           \* the filter that lets every car pass
  MaxTaps,                       \* bound on what the renter does
  MaxHomeLost                    \* bound on answers that never arrive

Filters == [region : HomeRegions \cup {AnyCar}, type : CarTypes \cup {AnyCar},
            text : Texts \cup {AnyCar}]

ASSUME HomeAssumption ==
  AnyCar \notin HomeRegions \cup CarTypes \cup Texts \cup Filters
    /\ MaxTaps \in Nat /\ MaxHomeLost \in Nat

VARIABLES
  filters,   \* selectedRegionId, selectedCarType, searchQuery
  typed,     \* tempSearch
  debounce,  \* whether the timer runs that makes it the searchQuery
  home,      \* the cars (the filters they were fetched for), fetches, flags
  tabs,      \* fetchRegions: whether one is awaited, whether they are here
  taps, homeLost

homeVars == <<filters, typed, debounce, home, tabs, taps, homeLost>>

Mounted == home.mounted
NoFilters == [region |-> AnyCar, type |-> AnyCar, text |-> AnyCar]

(* The two effects of mounting both fetch: the second aborts the first,    *)
(* whose finally block ends the loading.                                   *)
HomeInit ==
  /\ filters = NoFilters /\ typed = AnyCar /\ debounce = TRUE
  /\ home = [mounted |-> TRUE, shown |-> AnyCar, fetches |-> {NoFilters}, loading |-> FALSE,
             refreshing |-> FALSE, hasError |-> FALSE]
  /\ tabs = [asked |-> TRUE, here |-> FALSE]
  /\ taps = 0 /\ homeLost = 0

Tap == Mounted /\ taps < MaxTaps /\ taps' = taps + 1

-----------------------------------------------------------------------------
(* renderContent.                                                          *)
HomeShows ==
  IF home.loading /\ ~home.refreshing THEN "skeleton"
  ELSE IF home.hasError THEN "error"
  ELSE IF home.shown = AnyCar THEN "empty" ELSE "cars"

(* renderHeader: the filters are there with the list.                      *)
HeaderShown == HomeShows \in {"empty", "cars"}

-----------------------------------------------------------------------------
(* Mutant: the fetch in flight is not aborted.                             *)
Besides(h, f) == h.fetches \cup {f}

InsteadOf(h, f) == {f}

(* fetchCars for the filters f.  An aborted fetch clears both flags once   *)
(* this one has set its own.                                               *)
WithHomeFetch(h, f, refresh, silent) ==
  [h EXCEPT !.fetches = InsteadOf(h, f), !.hasError = FALSE,
            !.loading = h.fetches = {} /\ (@ \/ (~refresh /\ ~silent)),
            !.refreshing = h.fetches = {} /\ (@ \/ refresh)]

(* The effect of the filters, which runs when one of them changes.         *)
Refetched(old, new) == IF new = old THEN home ELSE WithHomeFetch(home, new, FALSE, TRUE)

Filter(new) == filters' = new /\ home' = Refetched(filters, new)

PickHomeRegion(r) ==
  /\ HeaderShown /\ Tap /\ (r = AnyCar \/ tabs.here)
  /\ Filter([filters EXCEPT !.region = r])
  /\ UNCHANGED <<typed, debounce, tabs, homeLost>>

PickType(c) ==
  /\ HeaderShown /\ Tap
  /\ Filter([filters EXCEPT !.type = c])
  /\ UNCHANGED <<typed, debounce, tabs, homeLost>>

(* Each change of the text starts the timer anew.                          *)
Type(s) ==
  /\ HeaderShown /\ Tap /\ s # typed
  /\ typed' = s /\ debounce' = TRUE
  /\ UNCHANGED <<filters, home, tabs, homeLost>>

ClearSearch ==
  /\ HeaderShown /\ Tap /\ typed # AnyCar
  /\ typed' = AnyCar /\ debounce' = TRUE
  /\ Filter([filters EXCEPT !.text = AnyCar])
  /\ UNCHANGED <<tabs, homeLost>>

Debounced ==
  /\ Mounted /\ debounce
  /\ debounce' = FALSE
  /\ Filter([filters EXCEPT !.text = typed])
  /\ UNCHANGED <<typed, tabs, taps, homeLost>>

(* onRefresh, and the button under an error.                               *)
RefreshHome ==
  /\ Tap
  /\ \/ /\ HeaderShown
        /\ home' = WithHomeFetch(home, filters, TRUE, FALSE)
        /\ tabs' = [tabs EXCEPT !.asked = TRUE]
     \/ /\ HomeShows = "error"
        /\ home' = WithHomeFetch(home, filters, FALSE, FALSE)
        /\ UNCHANGED tabs
  /\ UNCHANGED <<filters, typed, debounce, homeLost>>

Answered(f) ==
  [home EXCEPT !.fetches = @ \ {f}, !.loading = FALSE, !.refreshing = FALSE]

CarsArrive(f) ==
  /\ home' = [Answered(f) EXCEPT !.shown = f]
  /\ UNCHANGED <<filters, typed, debounce, tabs, taps, homeLost>>

CarsFail(f) ==
  /\ homeLost < MaxHomeLost /\ homeLost' = homeLost + 1
  /\ home' = [Answered(f) EXCEPT !.hasError = TRUE]
  /\ UNCHANGED <<filters, typed, debounce, tabs, taps>>

TabsArrive ==
  /\ Mounted /\ tabs.asked
  /\ tabs' \in {[asked |-> FALSE, here |-> TRUE], [tabs EXCEPT !.asked = FALSE]}
  /\ UNCHANGED <<filters, typed, debounce, home, taps, homeLost>>

(* Signing out unmounts it: fetches and timer are given up.                *)
LeaveHome ==
  /\ Tap
  /\ home' = [home EXCEPT !.mounted = FALSE, !.fetches = {}]
  /\ debounce' = FALSE
  /\ UNCHANGED <<filters, typed, tabs, homeLost>>

HomeProceeds == Debounced \/ TabsArrive \/ \E f \in home.fetches : CarsArrive(f)

HomeNext ==
  \/ HomeProceeds \/ ClearSearch \/ RefreshHome \/ LeaveHome
  \/ \E r \in HomeRegions \cup {AnyCar} : PickHomeRegion(r)
  \/ \E c \in CarTypes \cup {AnyCar} : PickType(c)
  \/ \E s \in Texts \cup {AnyCar} : Type(s)
  \/ \E f \in home.fetches : CarsFail(f)

HomeSpec == HomeInit /\ [][HomeNext]_homeVars

-----------------------------------------------------------------------------
(* Properties.                                                             *)

(* The variables keep their types.                                         *)
HomeTypeOK ==
  /\ filters \in Filters /\ typed \in Texts \cup {AnyCar} /\ debounce \in BOOLEAN
  /\ home \in [mounted : BOOLEAN, shown : Filters \cup {AnyCar}, fetches : SUBSET Filters,
               loading : BOOLEAN, refreshing : BOOLEAN, hasError : BOOLEAN]
  /\ tabs \in [asked : BOOLEAN, here : BOOLEAN]
  /\ taps \in 0 .. MaxTaps /\ homeLost \in 0 .. MaxHomeLost

(* When nothing is awaited, the cars on the screen are those of the        *)
(* filters it highlights, whatever the order the answers came in.          *)
HomeShowsFilters ==
  Mounted /\ home.fetches = {} /\ HomeShows = "cars" => home.shown = filters

-----------------------------------------------------------------------------
(* The inductive invariant behind it.                                      *)

(* One fetch is in flight at most, for the filters that are highlighted;   *)
(* the cars of other filters are shown only while it is or after it failed.*)
FetchInv ==
  /\ \A f, g \in home.fetches : f = g
  /\ Mounted =>
       /\ \A f \in home.fetches : f = filters
       /\ home.fetches = {} /\ ~home.hasError => home.shown \in {AnyCar, filters}

HomeInv == HomeTypeOK /\ FetchInv
=============================================================================
