----------------------------- MODULE ListScreen -----------------------------
(***************************************************************************)
(* MyBookingsScreen and the form of ReviewScreen on the renter's device.   *)
(* A step is one event on the device, with the effects React runs for it.  *)
(***************************************************************************)
EXTENDS BookingServer, Sequences

VARIABLES
  stack,  \* the renter's screens, the focused one last
  list    \* the list, which stays mounted under them

listVars == <<stack, list, serverVars>>

Stacks == {<<"home">>, <<"list">>, <<"list", "detail">>,
           <<"list", "review">>, <<"list", "detail", "review">>}
Focus == stack[Len(stack)]

ListInit ==
  /\ BookingServerInit
  /\ stack = <<"list">>
  /\ list = [shown |-> Nothing, fetches |-> {Fetched("silent")}, loading |-> TRUE,
             refreshing |-> TRUE, hasError |-> FALSE, cancellingId |-> FALSE,
             alerts |-> 0, another |-> FALSE]

-----------------------------------------------------------------------------
(* What the list renders and offers.  A fetch that is aborted leaves it    *)
(* "empty" although another is in flight.                                  *)
ListShows ==
  IF list.loading /\ ~list.refreshing THEN "skeleton"
  ELSE IF list.shown # Nothing THEN list.shown.status
  ELSE IF list.hasError THEN "error" ELSE "empty"

ListOffers ==
  CASE ListShows \in {"pending", "confirmed"} -> {"cancel", "details"}
    [] ListShows = "completed" ->
         IF list.shown.reviewed THEN {"details"} ELSE {"review", "details"}
    [] ListShows \in {"in_progress", "rejected", "cancelled"} -> {"details"}
    [] ListShows = "error" -> {"retry"}
    [] OTHER -> {}

-----------------------------------------------------------------------------
(* Mutant: the fetch in flight is left alone.                              *)
ListBeside(l, kind) == l.fetches \cup {Fetched(kind)}

(* fetchBookings aborts the fetch in flight.                               *)
ListReplacing(l, kind) == {Fetched(kind)}

(* The finally block of an aborted fetch clears both flags once the new    *)
(* one has set its own.                                                    *)
WithListFetch(l, kind) ==
  [l EXCEPT !.fetches = ListReplacing(l, kind),
            !.loading = l.fetches = {} /\ (kind = "loud" \/ @),
            !.refreshing = l.fetches = {} /\ (kind = "silent" \/ @),
            !.hasError = FALSE]

(* Losing the focus aborts the fetch.                                      *)
Blurred(l) ==
  [l EXCEPT !.fetches = {}, !.loading = @ /\ l.fetches = {},
            !.refreshing = @ /\ l.fetches = {}]

Refresh ==
  /\ Focus = "list"
  /\ \/ ListShows # "skeleton" /\ list' = WithListFetch(list, "silent")
     \/ "retry" \in ListOffers /\ list' = WithListFetch(list, "loud")
  /\ UNCHANGED <<stack, serverVars>>

ReadList(f) ==
  /\ Unread(f)
  /\ list' = [list EXCEPT !.fetches = (@ \ {f}) \cup {[f EXCEPT !.got = CopyOfRow(TRUE)]}]
  /\ UNCHANGED <<stack, serverVars>>

ShowList(f) ==
  /\ ~Unread(f)
  /\ list' = [list EXCEPT !.shown = f.got, !.fetches = @ \ {f},
                          !.loading = FALSE, !.refreshing = FALSE]
  /\ UNCHANGED <<stack, serverVars>>

ListFails(f) ==
  /\ LoseAnswer
  /\ list' = [list EXCEPT !.fetches = @ \ {f}, !.hasError = TRUE,
                          !.loading = FALSE, !.refreshing = FALSE]
  /\ UNCHANGED <<stack, row, reviews, patch, submission>>

-----------------------------------------------------------------------------
(* Moving between the screens.                                             *)

Push(s) == stack' = Append(stack, s)
(* What is under the focused screen; the list fetches when it is back.     *)
Popped(l) == IF Len(stack) = 2 THEN WithListFetch(l, "silent") ELSE l
Pop == /\ stack' = SubSeq(stack, 1, Len(stack) - 1)
       /\ list' = Popped(list)

LeaveList ==
  /\ Focus = "list"
  /\ \/ stack' = <<"home">>
     \/ "details" \in ListOffers /\ Push("detail")
  /\ list' = Blurred(list) /\ UNCHANGED serverVars

OpenReview ==
  /\ \/ Focus = "list" /\ "review" \in ListOffers
     \/ Focus = "detail"  \* by its own copy of the booking: see DetailOffers
  /\ Push("review")
  /\ list' = (IF Focus = "list" THEN Blurred(list) ELSE list) /\ UNCHANGED serverVars

BackToList ==
  \/ /\ Focus = "home" /\ stack' = <<"list">>
     /\ list' = WithListFetch(list, "silent") /\ UNCHANGED serverVars
  \/ Focus = "detail" /\ Pop /\ Leave("details")

CloseReview ==
  /\ Focus = "review" /\ Pop /\ LeaveForms

-----------------------------------------------------------------------------
(* handleCancel.  cancellingId is whether the id of this booking is kept:  *)
(* it never is cleared, so a cancellation that failed is not sent again.   *)
(* An alert reads the id of the time it was opened at.  One opened on the  *)
(* id of this booking does nothing, and is left out.                       *)

TapListCancel ==
  /\ Focus = "list" /\ "cancel" \in ListOffers /\ ~list.cancellingId
  /\ list.alerts < MaxAlerts
  /\ list' = [list EXCEPT !.alerts = @ + 1]
  /\ UNCHANGED <<stack, serverVars>>

DismissListCancel ==
  /\ list.alerts > 0 /\ list' = [list EXCEPT !.alerts = @ - 1]
  /\ UNCHANGED <<stack, serverVars>>

ConfirmListCancel(p) ==
  /\ list.alerts > 0
  /\ list' = [list EXCEPT !.alerts = @ - 1, !.cancellingId = TRUE]
  /\ SendPatch(p, "list", "cancelled", TRUE) /\ UNCHANGED stack

(* Another booking of the list is cancelled, one at a time: its id takes   *)
(* the place of this one's, and the list is fetched again when it is done. *)
CancelAnother ==
  /\ Focus = "list" /\ ~list.another
  /\ list' = [list EXCEPT !.another = TRUE, !.cancellingId = FALSE]
  /\ UNCHANGED <<stack, serverVars>>

AnotherEnds ==
  LET l == [list EXCEPT !.another = FALSE] IN
  /\ list.another /\ list' \in {l, WithListFetch(l, "silent")}
  /\ UNCHANGED <<stack, serverVars>>

(* The list is fetched again whatever screen the renter is on by then.     *)
ListPatchEnds(p) ==
  /\ patch[p] # Nothing /\ patch[p].from = "list"
  /\ \/ /\ PatchSucceeds(p)
        /\ list' = IF patch[p].owned THEN WithListFetch(list, "silent") ELSE list
     \/ PatchFails(p) /\ UNCHANGED list
  /\ UNCHANGED stack

(* Whether an open form waits for u: its button is disabled meanwhile.     *)
Submitting(u) ==
  submission[u] # Nothing /\ submission[u].by = "form" /\ submission[u].at # "settled"

SubmitReview(u) ==
  /\ Focus = "review" /\ \A v \in Submissions : ~Submitting(v)
  /\ SendReview(u) /\ UNCHANGED <<stack, list>>

(* goBack, which leaves whatever screen is the focused one by then: home   *)
(* is the first tab, and there it does nothing.                            *)
GoesBack ==
  \/ Focus = "home" /\ UNCHANGED <<stack, list>>
  \/ Focus = "list" /\ stack' = <<"home">> /\ list' = Blurred(list)
  \/ Focus \in {"detail", "review"} /\ Pop

Closing ==
  CASE Focus = "review" -> "form"
    [] Focus = "detail" -> "details"
    [] OTHER -> "nothing"

(* A success goes back even when its form is closed, unless the device has *)
(* given the request up.                                                   *)
ReviewEnds(u) ==
  \/ /\ submission[u] # Nothing /\ submission[u].by # "nobody"
     /\ ReviewSucceeds(u, Closing) /\ GoesBack
  \/ /\ submission[u] # Nothing /\ submission[u].by = "nobody"
     /\ ReviewSucceeds(u, "nothing") /\ UNCHANGED <<stack, list>>
  \/ ReviewFails(u) /\ UNCHANGED <<stack, list>>

ListProceeds ==
  \/ \E f \in list.fetches : ReadList(f) \/ ShowList(f)
  \/ \E p \in Patches : ListPatchEnds(p)
  \/ AnotherEnds
  \/ \E u \in Submissions : ReviewEnds(u)

(* What happens but that the renter comes to the details or leaves them.   *)
ListActs ==
  \/ Refresh \/ CloseReview \/ ListProceeds
  \/ TapListCancel \/ DismissListCancel \/ CancelAnother
  \/ \E f \in list.fetches : ListFails(f)
  \/ \E p \in Patches : ConfirmListCancel(p)
  \/ \E u \in Submissions : SubmitReview(u)

ListNext ==
  \/ LeaveList \/ OpenReview \/ BackToList \/ ListActs
  \/ (Handles \/ Elsewhere(Screens \ {"list"})) /\ UNCHANGED <<stack, list>>

ListSpec == ListInit /\ [][ListNext]_listVars

-----------------------------------------------------------------------------
(* Properties.                                                             *)

(* The variables keep their types.                                         *)
ListTypeOK ==
  /\ stack \in Stacks
  /\ list.shown \in Copy \cup {Nothing}
  /\ list.fetches \subseteq Fetch /\ Cardinality(list.fetches) <= 1
  /\ {list.loading, list.refreshing, list.hasError, list.cancellingId, list.another}
       \subseteq BOOLEAN
  /\ list.alerts \in 0 .. MaxAlerts

(* The list never shows an older copy of the booking after a newer one,    *)
(* and never offers again the review that was written, in whatever order   *)
(* pulls, returns to it, cancellations and the server's reads come.        *)
ListNeverGoesBack ==
  [][list.shown # Nothing /\ list'.shown # Nothing
       => /\ list'.shown.version >= list.shown.version
          /\ list.shown.reviewed => list'.shown.reviewed]_listVars

(* "Double-action protection for cancel": of a booking the list awaits one *)
(* cancellation at a time.                                                 *)
OneCancellation ==
  Cardinality({p \in Patches : /\ patch[p] # Nothing /\ patch[p].from = "list"
                               /\ patch[p].owned /\ patch[p].at # "settled"}) <= 1

-----------------------------------------------------------------------------
(* The inductive invariants behind them.                                   *)

ReviewInv ==
  /\ submission \in [Submissions -> Submission \cup {Nothing}]
  /\ reviews \in {0, 1}
  /\ OneReview

ListView == [shown : Copy \cup {Nothing}, fetches : SUBSET Fetch, loading : BOOLEAN,
             refreshing : BOOLEAN, hasError : BOOLEAN, cancellingId : BOOLEAN,
             alerts : Nat, another : BOOLEAN]

(* A copy of the booking that later reads are no older than.               *)
Past(copy) ==
  /\ copy \in Copy /\ copy.version <= row.version
  /\ copy.reviewed => reviews > 0
Older(copy, newer) ==
  copy.version <= newer.version /\ (copy.reviewed => newer.reviewed)

ListCopiesInv ==
  /\ row \in [status : BookingStatuses, version : Nat]
  /\ patch \in [Patches -> Patch \cup {Nothing}]
  /\ list \in ListView /\ list.alerts <= MaxAlerts
  /\ list.loading \/ list.refreshing => list.fetches # {}
  /\ list.shown # Nothing => Past(list.shown)
  /\ \A f, g \in list.fetches : f = g
  /\ \A f \in list.fetches : f.got # Nothing =>
       Past(f.got) /\ (list.shown # Nothing => Older(list.shown, f.got))

(* The form that waits is the one that is open, and waits for one answer.  *)
StackInv ==
  /\ stack \in Stacks
  /\ \A u, v \in Submissions : Submitting(u) /\ Submitting(v) => u = v
  /\ \A u \in Submissions : Submitting(u) => Focus = "review"

ListInv == ReviewInv /\ ListCopiesInv /\ StackInv
=============================================================================
