---------------------------- MODULE DetailScreen ----------------------------
(***************************************************************************)
(* BookingDetailScreen on the renter's device.  A step is one event on the *)
(* device, with the effects React runs for it.                             *)
(***************************************************************************)
EXTENDS BookingServer

VARIABLE detail  \* the mounted screen: the copy it holds, the fetch in
                 \* flight, whether loading and cancelling are set, the
                 \* open confirmations, and those of a screen it once was

detailVars == <<detail, serverVars>>

Unmounted == [mounted |-> FALSE, shown |-> Nothing, fetches |-> {},
              loading |-> FALSE, cancelling |-> FALSE, alerts |-> 0, stray |-> 0]
DetailInit == BookingServerInit /\ detail = Unmounted

-----------------------------------------------------------------------------
(* What the screen renders and offers.                                     *)
DetailShows ==
  IF detail.loading THEN "loading"
  ELSE IF detail.shown = Nothing THEN "not found" ELSE detail.shown.status

(* canCancel and the action buttons.  The details never carry has_review,  *)
(* so a completed booking is always offered for review.                    *)
DetailOffers ==
  CASE DetailShows \in {"pending", "confirmed"} /\ ~detail.cancelling -> {"cancel"}
    [] DetailShows = "completed" -> {"review"}
    [] OTHER -> {}

-----------------------------------------------------------------------------
(* Mutant: the fetch in flight is left alone.                              *)
Beside(kind) == detail.fetches \cup {Fetched(kind)}

(* fetchBooking aborts the fetch in flight.                                *)
Replacing(kind) == {Fetched(kind)}

(* The finally block of a loud fetch that is aborted runs after the new    *)
(* one has set loading, and clears it.                                     *)
WithFetch(d, kind) ==
  [d EXCEPT !.fetches = Replacing(kind),
            !.loading = /\ \A f \in d.fetches : f.kind # "loud"
                        /\ kind = "loud" \/ @]

Mount ==
  /\ ~detail.mounted
  /\ detail' = WithFetch([detail EXCEPT !.mounted = TRUE], "loud")
  /\ UNCHANGED serverVars

(* The renter goes back, or the answer to a review does so once the form   *)
(* it came from is closed.  An alert is not the screen's: it stays open.   *)
Unmounts ==
  detail.mounted /\ detail' = [Unmounted EXCEPT !.stray = detail.stray + detail.alerts]
Unmount ==
  /\ Unmounts
  /\ Leave("details") \/ \E u \in Submissions : ReviewSucceeds(u, "details")

(* Mutant: the poll is for bookings still waiting for their owner.         *)
PolledPending == {"pending"}

Polled == {"pending", "confirmed"}

(* The interval of 30 s is longer than the 15 s a request may take, so the *)
(* fetch of the last tick has ended.                                       *)
Poll ==
  /\ Holds(detail.shown, Polled)
  /\ \A f \in detail.fetches : f.kind # "poll"
  /\ detail' = WithFetch(detail, "poll")
  /\ UNCHANGED serverVars

ReadDetail(f) ==
  /\ Unread(f)
  /\ detail' = [detail EXCEPT !.fetches = (@ \ {f}) \cup {[f EXCEPT !.got = CopyOfRow(FALSE)]}]
  /\ UNCHANGED serverVars

(* The effect depends on the status: a new one is fetched again, loudly.   *)
ShowDetail(f) ==
  LET d == [detail EXCEPT !.shown = f.got, !.fetches = @ \ {f},
                          !.loading = @ /\ f.kind # "loud"]
  IN
  /\ ~Unread(f)
  /\ detail' = IF Holds(detail.shown, {f.got.status}) THEN d ELSE WithFetch(d, "loud")
  /\ UNCHANGED serverVars

LoadingAfter(f) == detail.loading /\ f.kind # "loud"

DetailFails(f) ==
  /\ LoseAnswer
  /\ detail' = [detail EXCEPT !.fetches = @ \ {f}, !.loading = LoadingAfter(f)]
  /\ UNCHANGED <<row, reviews, patch, submission>>

-----------------------------------------------------------------------------
(* handleCancel.  The button opens an alert; what the alert confirms is    *)
(* not looked at again, so two alerts ask twice, and one that was opened   *)
(* on a screen that is gone by now asks for nobody.                        *)

TapCancel ==
  /\ "cancel" \in DetailOffers /\ detail.alerts + detail.stray < MaxAlerts
  /\ detail' = [detail EXCEPT !.alerts = @ + 1]
  /\ UNCHANGED serverVars

DismissCancel ==
  /\ \/ detail.alerts > 0 /\ detail' = [detail EXCEPT !.alerts = @ - 1]
     \/ detail.stray > 0 /\ detail' = [detail EXCEPT !.stray = @ - 1]
  /\ UNCHANGED serverVars

ConfirmCancel(p) ==
  \/ /\ detail.alerts > 0
     /\ detail' = [detail EXCEPT !.alerts = @ - 1, !.cancelling = TRUE]
     /\ SendPatch(p, "details", "cancelled", TRUE)
  \/ /\ detail.stray > 0
     /\ detail' = [detail EXCEPT !.stray = @ - 1]
     /\ SendPatch(p, "details", "cancelled", FALSE)

(* Mutant: cancelling is cleared by a success alone.                       *)
CancelSucceeds(p) ==
  /\ patch[p] # Nothing /\ patch[p].from = "details"
  /\ \/ /\ PatchSucceeds(p)
        /\ detail' = IF ~patch[p].owned THEN detail
                     ELSE WithFetch([detail EXCEPT !.cancelling = FALSE], "loud")
     \/ PatchFails(p) /\ UNCHANGED detail

(* The answer finds the screen that sent the patch, or none.               *)
DetailPatchEnds(p) ==
  /\ patch[p] # Nothing /\ patch[p].from = "details"
  /\ \/ /\ PatchSucceeds(p)
        /\ detail' = IF ~patch[p].owned THEN detail
                     ELSE WithFetch([detail EXCEPT !.cancelling = FALSE], "loud")
     \/ /\ PatchFails(p)
        /\ detail' = [detail EXCEPT !.cancelling = @ /\ ~patch[p].owned]

(* A form opened from here is modelled with the list.                      *)
DetailProceeds ==
  \/ \E f \in detail.fetches : ReadDetail(f) \/ ShowDetail(f)
  \/ \E p \in Patches : DetailPatchEnds(p)

(* What the screen does while it is mounted, and the alerts it has opened. *)
DetailActs ==
  \/ Poll \/ TapCancel \/ DismissCancel \/ DetailProceeds
  \/ \E f \in detail.fetches : DetailFails(f)
  \/ \E p \in Patches : ConfirmCancel(p)

DetailNext ==
  \/ Mount \/ Unmount \/ DetailActs
  \/ (Handles \/ Elsewhere(Screens \ {"details"})) /\ UNCHANGED detail

DetailSpec == DetailInit /\ [][DetailNext]_detailVars

-----------------------------------------------------------------------------
(* Properties.                                                             *)

(* The variable keeps its type.                                            *)
DetailTypeOK ==
  /\ detail.shown \in Copy \cup {Nothing}
  /\ detail.fetches \subseteq Fetch /\ Cardinality(detail.fetches) <= 1
  /\ {detail.mounted, detail.loading, detail.cancelling} \subseteq BOOLEAN
  /\ {detail.alerts, detail.stray} \subseteq 0 .. MaxAlerts

(* The details are never replaced by an older copy of the booking, in      *)
(* whatever order polls, refreshes and the server's reads come.            *)
DetailNeverGoesBack ==
  [][Holds(detail.shown, BookingStatuses) /\ Holds(detail'.shown, BookingStatuses)
       => detail'.shown.version >= detail.shown.version]_detailVars

(* A cancellation the screen awaits.                                       *)
Outstanding(p) ==
  /\ patch[p] # Nothing /\ patch[p].from = "details"
  /\ patch[p].owned /\ patch[p].at # "settled"

(* The screen is never shut in vain: its spinner turns only while a fetch  *)
(* is awaited, its button only while a cancellation is, however alerts,    *)
(* aborted fetches, lost answers and departures come in between.           *)
DetailAwaits ==
  /\ detail.loading => detail.fetches # {}
  /\ detail.cancelling => \E p \in Patches : Outstanding(p)

(* The details of a booking that waits for its owner or for its start      *)
(* learn of every change, unless the renter leaves them.                   *)
DetailCatchesUp ==
  \A v \in 0 .. Cardinality(Patches) - 1 :
    Holds(detail.shown, {"pending", "confirmed"}) /\ detail.shown.version = v /\ row.version > v
      ~> detail.shown = Nothing \/ detail.shown.version > v

-----------------------------------------------------------------------------
(* The inductive invariant behind them.                                    *)

DetailView == [mounted : BOOLEAN, shown : Copy \cup {Nothing}, fetches : SUBSET Fetch,
               loading : BOOLEAN, cancelling : BOOLEAN, alerts : Nat, stray : Nat]

(* A fetch brings no older copy than the one that is shown.                *)
Newer(f, d) ==
  /\ f.got = Nothing \/ (f.got \in Copy /\ f.got.version <= row.version)
  /\ f.got # Nothing /\ d.shown # Nothing => f.got.version >= d.shown.version

CopiesInv ==
  /\ row \in [status : BookingStatuses, version : Nat]
  /\ patch \in [Patches -> Patch \cup {Nothing}]
  /\ detail \in DetailView
  /\ detail.shown = Nothing
       \/ (detail.shown \in Copy /\ detail.shown.version <= row.version)
  /\ \A f \in detail.fetches : Newer(f, detail)
  /\ \A f, g \in detail.fetches : f = g

(* The fetch is a loud one while the spinner turns, cancelling is set only *)
(* while a cancellation is awaited, and a screen that is gone awaits none. *)
AwaitingInv ==
  /\ ~detail.mounted => detail = [Unmounted EXCEPT !.stray = detail.stray]
  /\ detail.alerts + detail.stray <= MaxAlerts
  /\ detail.loading => \E f \in detail.fetches : f.kind = "loud"
  /\ detail.cancelling => \E p \in Patches : Outstanding(p)
  /\ \A p \in Patches : Outstanding(p) => detail.mounted

DetailInv == CopiesInv /\ AwaitingInv
=============================================================================
