--------------------------- MODULE OwnerDashboard ---------------------------
(***************************************************************************)
(* OwnerDashboardScreen: the bookings of the owner's cars, with buttons    *)
(* that move a booking on.  It aborts no fetch, so the answer of an older  *)
(* one may replace a newer copy; and it may be left and opened anew.       *)
(***************************************************************************)
EXTENDS BookingServer, Integers

VARIABLE dash  \* whether it is open, the copy it holds, its fetches in
               \* flight, the flags

dashVars == <<dash, serverVars>>

Numbers == 1 .. 2  \* bound on fetches in flight
Numbered == [n : Numbers, got : Copy \cup {Nothing}]

ClosedDash == [mounted |-> FALSE, shown |-> Nothing, fetches |-> {}, loading |-> FALSE,
               refreshing |-> FALSE, updating |-> FALSE]
NewDash == [ClosedDash EXCEPT !.mounted = TRUE, !.loading = TRUE,
                              !.fetches = {[n |-> 1, got |-> Nothing]}]

DashInit == BookingServerInit /\ dash = NewDash

-----------------------------------------------------------------------------
(* The statuses the buttons of the booking ask for.  The owner may always  *)
(* turn to the tab it is under.                                            *)
DashOffers ==
  IF dash.updating THEN {}
  ELSE CASE Holds(dash.shown, {"pending"}) -> {"rejected", "confirmed"}
         [] Holds(dash.shown, {"confirmed"}) -> {"in_progress"}
         [] Holds(dash.shown, {"in_progress"}) -> {"completed"}
         [] OTHER -> {}

-----------------------------------------------------------------------------
Unused == {n \in Numbers : \A f \in dash.fetches : f.n # n}
WithDashFetch(d, n) == [d EXCEPT !.fetches = @ \cup {[n |-> n, got |-> Nothing]}]

OpenDash == ~dash.mounted /\ dash' = NewDash /\ UNCHANGED serverVars

(* goBack: what it has asked for goes on, its state is gone.               *)
CloseDash == dash.mounted /\ dash' = ClosedDash /\ Leave("dashboard")

PullDash(n) ==
  /\ dash.mounted /\ n \in Unused
  /\ dash' = WithDashFetch([dash EXCEPT !.refreshing = TRUE], n)
  /\ UNCHANGED serverVars

ReadDash(f) ==
  /\ Unread(f)
  /\ dash' = [dash EXCEPT !.fetches = (@ \ {f}) \cup {[f EXCEPT !.got = CopyOfRow(FALSE)]}]
  /\ UNCHANGED serverVars

(* The finally block of any fetch clears both flags.                       *)
IsOver(f) == [dash EXCEPT !.fetches = @ \ {f}, !.loading = FALSE, !.refreshing = FALSE]

ShowDash(f) ==
  /\ ~Unread(f)
  /\ dash' = [IsOver(f) EXCEPT !.shown = f.got]
  /\ UNCHANGED serverVars

DashFails(f) ==
  /\ LoseAnswer /\ dash' = IsOver(f)
  /\ UNCHANGED <<row, reviews, patch, submission>>

(* Mutant: the buttons work before the last tap is answered.               *)
UpdateAtOnce(p, to) ==
  /\ to \in DashOffers
  /\ SendPatch(p, "dashboard", to, TRUE) /\ UNCHANGED dash

(* handleUpdateStatus.                                                     *)
Update(p, to) ==
  /\ to \in DashOffers
  /\ dash' = [dash EXCEPT !.updating = TRUE]
  /\ SendPatch(p, "dashboard", to, TRUE)

DashPatchEnds(p) ==
  /\ patch[p] # Nothing /\ patch[p].from = "dashboard"
  /\ \/ /\ PatchSucceeds(p)
        /\ IF patch[p].owned
           THEN \E n \in Unused : dash' = WithDashFetch([dash EXCEPT !.updating = FALSE], n)
           ELSE UNCHANGED dash
     \/ /\ PatchFails(p)
        /\ dash' = [dash EXCEPT !.updating = @ /\ ~patch[p].owned]

DashActs ==
  \/ OpenDash \/ CloseDash
  \/ \E n \in Numbers : PullDash(n)
  \/ \E f \in dash.fetches : ReadDash(f) \/ ShowDash(f) \/ DashFails(f)
  \/ \E p \in Patches : \/ \E to \in BookingStatuses : Update(p, to)
                        \/ DashPatchEnds(p)

DashNext ==
  \/ DashActs
  \/ (Handles \/ Elsewhere(Screens \ {"dashboard"})) /\ UNCHANGED dash

DashSpec == DashInit /\ [][DashNext]_dashVars
-----------------------------------------------------------------------------
(* Properties.                                                             *)

(* The variable keeps its type.                                            *)
DashTypeOK ==
  /\ dash.shown \in Copy \cup {Nothing}
  /\ dash.fetches \subseteq Numbered
  /\ {dash.mounted, dash.loading, dash.refreshing, dash.updating} \subseteq BOOLEAN

(* The owner asks alone, and has waited for every answer: none was lost,   *)
(* and the dashboard was not left in between.                              *)
OwnerWaits ==
  \A p \in Patches : patch[p] # Nothing => patch[p].from = "dashboard" /\ patch[p].owned

(* The server decides on a status it has read and writes later.  As long   *)
(* as the owner is alone and waits, the dashboard keeps its writes apart,  *)
(* and each one is a move the current status allows.                       *)
OwnerMovesLegally ==
  [][row' # row /\ OwnerWaits
       => /\ row.status \in DOMAIN Transitions("dashboard")
          /\ row'.status \in Transitions("dashboard")[row.status]]_dashVars

-----------------------------------------------------------------------------
(* The inductive invariant behind it.                                      *)

DashView == [mounted : BOOLEAN, shown : Copy \cup {Nothing}, fetches : SUBSET Numbered, loading : BOOLEAN,
             refreshing : BOOLEAN, updating : BOOLEAN]

(* A status of the owner's that is not settled.                            *)
OwnersPatch(p) ==
  patch[p] # Nothing /\ patch[p].from = "dashboard" /\ patch[p].at # "settled"

(* A status that is awaited is so by an open dashboard.  As long as the    *)
(* owner has waited, that is one status at most, with the buttons shut;    *)
(* and if the owner is alone, what the server has found allowed is so      *)
(* until it is written.                                                    *)
DashInv ==
  /\ row \in [status : BookingStatuses, version : Nat]
  /\ patch \in [Patches -> Patch \cup {Nothing}]
  /\ dash \in DashView
  /\ ~dash.mounted => dash = ClosedDash
  /\ \A p \in Patches : OwnersPatch(p) /\ patch[p].owned => dash.mounted
  /\ OwnerWaits =>
       /\ \A p, q \in Patches : OwnersPatch(p) /\ OwnersPatch(q) => p = q
       /\ \A p \in Patches : OwnersPatch(p) => dash.updating
       /\ \A p \in Patches : patch[p] # Nothing /\ patch[p].at = "allowed" =>
            /\ row.status \in DOMAIN Transitions("dashboard")
            /\ patch[p].to \in Transitions("dashboard")[row.status]
=============================================================================
