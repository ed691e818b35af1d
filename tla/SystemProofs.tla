---------------------------- MODULE SystemProofs ----------------------------
(* The invariant of the run that checks every other component, from the    *)
(* invariants of the components: a step of a part is one of its component, *)
(* and leaves what the other components keep of it alone.                  *)
EXTENDS SystemMC, AccountsProofs, FormProofs, ScreenProofs, ServerProofs

(* What a step of the run is to the part that is looked at.                *)
LEMMA StepOfPart ==
  ASSUME [SystemNext]_systemVars
  PROVE  /\ part' = part
         /\ part = "accounts" => [AccountsNext]_accountVars
         /\ part = "startup" => [StartupNext]_startupVars
         /\ part = "detail" => [DetailNext]_detailVars /\ UNCHANGED <<stack, list, dash>>
         /\ part = "list" => [ListNext]_listVars /\ UNCHANGED <<detail, dash>>
         /\ part = "dashboard" => [DashNext]_dashVars /\ UNCHANGED <<detail, stack, list>>
         /\ part = "app" => [AppNext]_appVars
         /\ part = "form" => [FormNext]_formVars
         /\ part = "catalogue" => [CatalogueNext]_catalogueVars /\ UNCHANGED carScreenVars
         /\ part = "cars" => [CarFormNext]_carFormVars
         /\ part = "home" => [HomeNext]_homeVars
         /\ part = "retries" => [RetriesNext]_retryVars
         /\ part = "panel" => [PanelNext]_panelVars
<1>1. CASE UNCHANGED systemVars
  BY <1>1 DEF systemVars, appVars, detailVars, listVars, dashVars, carFormVars
<1>2. CASE SystemNext
  BY <1>2
  DEF SystemNext, AccountsPart, StartupPart, BookingPart, FormPart, CarPart, HomePart,
      RetriesPart, PanelPart
<1> QED BY <1>1, <1>2

(* Every part starts as its component does.                                *)
LEMMA SystemInvInit == SystemInit => SystemInv
<1> SUFFICES ASSUME SystemInit PROVE SystemInv
  OBVIOUS
<1>0. /\ part \in Parts /\ AccountsInit /\ StartupInit /\ AppInit /\ FormInit
      /\ CarFormInit /\ HomeInit /\ RetriesInit /\ PanelInit
  BY DEF SystemInit
<1>1. AccountsInv /\ TruthInv /\ StartupInv
  BY <1>0, AccountsInvInit, TruthInvInit, StartupInvInit
<1>2. DetailInit /\ ListInit /\ DashInit /\ BookingServerInit
  BY <1>0 DEF AppInit, DetailInit
<1>3. DetailInv /\ ListInv /\ DashInv /\ MountedOnStack
  BY <1>0, <1>2, DetailInvInit, ListInvInit, DashInvInit, MountedInit
<1>4. BookingServerTypeOK /\ DetailTypeOK /\ ListTypeOK /\ DashTypeOK
  BY <1>2, <1>3, ServerTypesInit, DetailTypes, ListTypes, DashTypes
<1>5. FormTypeOK /\ FormInv /\ TableInv
  BY <1>0, FormTypesInit, FormInvInit, TableInvInit
<1>6. CarFormTypeOK /\ CarFormInv
  BY <1>0, CarFormTypesInit, CarFormInvInit
<1>7. HomeInv /\ RetriesInv /\ PanelTypeOK /\ PanelInv
  BY <1>0, HomeInvInit, RetriesInvInit, PanelTypeInit, PanelInvInit
<1> QED BY <1>0, <1>1, <1>3, <1>4, <1>5, <1>6, <1>7 DEF SystemInv

(* The parts over the booking: each screen beside any others, and all of   *)
(* them in the app, where each one's step is what the others expect.       *)
LEMMA BookingPartsKeep ==
  ASSUME SystemInv, [SystemNext]_systemVars, part \in {"detail", "list", "dashboard", "app"}
  PROVE  /\ BookingServerTypeOK' /\ DetailTypeOK' /\ ListTypeOK' /\ DashTypeOK'
         /\ part \in {"detail", "app"} => DetailInv'
         /\ part \in {"list", "app"} => ListInv'
         /\ part \in {"dashboard", "app"} => DashInv'
         /\ part = "app" => MountedOnStack'
<1>0. /\ BookingServerTypeOK /\ DetailTypeOK /\ ListTypeOK /\ DashTypeOK
      /\ part \in {"detail", "app"} => DetailInv
      /\ part \in {"list", "app"} => ListInv
      /\ part \in {"dashboard", "app"} => DashInv
      /\ part = "app" => MountedOnStack
  BY DEF SystemInv
<1>1. /\ part \in {"detail", "app"} => [DetailNext]_detailVars
      /\ part \in {"list", "app"} => [ListNext]_listVars
      /\ part \in {"dashboard", "app"} => [DashNext]_dashVars
      /\ part = "app" => [AppNext]_appVars
  BY <1>0, StepOfPart, DetailsInApp, ListInApp, DashboardInApp DEF ListInv, StackInv
<1>2. BookingServerTypeOK'
  BY <1>0, <1>1, EventsOfScreens, ServerTypesStep
<1>3. part \in {"detail", "app"} => DetailInv' /\ DetailTypeOK'
  <2>1. ASSUME DetailInv, [DetailNext]_detailVars PROVE DetailInv'
    BY <2>1, CopiesInvStep, AwaitingInvStep DEF DetailInv
  <2>2. DetailInv' => DetailTypeOK'
    BY DetailTypes, PTL
  <2> QED BY <1>0, <1>1, <2>1, <2>2
<1>4. part \in {"list", "app"} => ListInv' /\ ListTypeOK'
  <2>1. ASSUME ListInv, [ListNext]_listVars PROVE ListInv'
    BY <2>1, ReviewInvStep, ListCopiesStep, StackInvStep DEF ListInv
  <2>2. ListInv' => ListTypeOK'
    BY ListTypes, PTL
  <2> QED BY <1>0, <1>1, <2>1, <2>2
<1>5. part \in {"dashboard", "app"} => DashInv' /\ DashTypeOK'
  <2>1. ASSUME DashInv, [DashNext]_dashVars PROVE DashInv'
    BY <2>1, DashInvStep
  <2>2. DashInv' => DashTypeOK'
    BY DashTypes, PTL
  <2> QED BY <1>0, <1>1, <2>1, <2>2
<1>6. part \in {"list", "dashboard"} => DetailTypeOK'
  BY <1>0, StepOfPart DEF DetailTypeOK
<1>7. part \in {"detail", "dashboard"} => ListTypeOK'
  BY <1>0, StepOfPart DEF ListTypeOK
<1>8. part \in {"detail", "list"} => DashTypeOK'
  BY <1>0, StepOfPart DEF DashTypeOK
<1>9. part = "app" => MountedOnStack'
  BY <1>0, <1>1, MountedStep
<1> QED BY <1>2, <1>3, <1>4, <1>5, <1>6, <1>7, <1>8, <1>9

(* The parts over the cars: the catalogue alone, and below its screens.    *)
LEMMA CarPartsKeep ==
  ASSUME SystemInv, [SystemNext]_systemVars, part \in {"catalogue", "cars"}
  PROVE  CarFormTypeOK' /\ CarFormInv'
<1>0. CarFormTypeOK /\ CarFormInv
  BY DEF SystemInv
<1>1. CASE part = "catalogue"
  <2>1. [CatalogueNext]_catalogueVars /\ UNCHANGED carScreenVars
    BY <1>1, StepOfPart
  <2>2. CatalogueInv'
    BY <1>0, <2>1, CatalogueInvStep DEF CarFormInv
  <2>3. PlaceInv' /\ CarFormTypeOK'
    BY <1>0, <2>1 DEF carScreenVars, CarFormInv, PlaceInv, CarFormTypeOK
  <2> QED BY <2>2, <2>3 DEF CarFormInv
<1>2. CASE part = "cars"
  BY <1>0, <1>2, StepOfPart, CarFormTypesStep, CarFormInvStep
<1> QED BY <1>1, <1>2

(* Every step of any part keeps what is kept of it.                        *)
LEMMA SystemInvStep == SystemInv /\ [SystemNext]_systemVars => SystemInv'
<1> SUFFICES ASSUME SystemInv, [SystemNext]_systemVars PROVE SystemInv'
  OBVIOUS
<1>0. part \in Parts /\ part' = part
  BY StepOfPart DEF SystemInv
<1>1. part = "accounts" => AccountsInv' /\ TruthInv'
  BY StepOfPart, AccountsInvStep, TruthInvStep DEF SystemInv
<1>2. part = "startup" => StartupInv'
  BY StepOfPart, StartupInvStep DEF SystemInv
<1>3. part = "form" => FormTypeOK' /\ FormInv' /\ TableInv'
  BY StepOfPart, FormTypesStep, FormInvStep, TableStep DEF SystemInv
<1>4. part = "home" => HomeInv'
  BY StepOfPart, HomeInvStep DEF SystemInv
<1>5. part = "retries" => RetriesInv'
  BY StepOfPart, RetriesInvStep DEF SystemInv
<1>6. part = "panel" => PanelTypeOK' /\ PanelInv'
  BY StepOfPart, PanelTypeStep, PanelInvStep DEF SystemInv
<1> QED
  BY <1>0, <1>1, <1>2, <1>3, <1>4, <1>5, <1>6, BookingPartsKeep, CarPartsKeep DEF SystemInv

(* SystemInv for every value of the constants: users, phones, requests,    *)
(* workers, bookings, cars, filters and tables, and every bound.           *)
THEOREM SystemInvariant == SystemSpec => []SystemInv
BY SystemInvInit, SystemInvStep, PTL DEF SystemSpec
=============================================================================
