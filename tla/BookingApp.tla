----------------------------- MODULE BookingApp -----------------------------
(***************************************************************************)
(* The screens of a booking at once: on the renter's device the list, the  *)
(* details over it and the form of a review, on the owner's the dashboard, *)
(* beside them the admin panel, all over one server.  The details are      *)
(* mounted as long as they are among the renter's screens.                 *)
(***************************************************************************)
EXTENDS DetailScreen, ListScreen, OwnerDashboard

appVars == <<detail, stack, list, dash, serverVars>>

AppInit == DetailInit /\ ListInit /\ DashInit

-----------------------------------------------------------------------------
(* The renter's device.                                                    *)

(* For the details, or for another tab.                                    *)
LeaveTheList == LeaveList /\ (IF Len(stack') = 2 THEN Mount ELSE UNCHANGED detail)

(* What closes the details unmounts them.                                  *)
DetailsFollow ==
  IF Focus = "detail" /\ stack' # stack THEN Unmounts ELSE UNCHANGED detail

(* Back from the details, or from home to the list.                        *)
GoBack == BackToList /\ DetailsFollow

AskForReview ==
  /\ OpenReview /\ UNCHANGED detail
  /\ Focus = "detail" => "review" \in DetailOffers

RenterActs ==
  \/ LeaveTheList \/ GoBack \/ AskForReview
  \/ ListActs /\ DetailsFollow
  \/ DetailActs /\ UNCHANGED <<stack, list>>

-----------------------------------------------------------------------------
AppNext ==
  \/ RenterActs /\ UNCHANGED dash
  \/ DashActs /\ UNCHANGED <<detail, stack, list>>
  \/ (Handles \/ Elsewhere({"panel"})) /\ UNCHANGED <<detail, stack, list, dash>>

AppSpec == AppInit /\ [][AppNext]_appVars

-----------------------------------------------------------------------------
(* Properties.                                                             *)

(* The details are mounted exactly while they are among the screens.       *)
MountedOnStack == detail.mounted <=> \E i \in DOMAIN stack : stack[i] = "detail"
=============================================================================
