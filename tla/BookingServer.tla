---------------------------- MODULE BookingServer ----------------------------
(***************************************************************************)
(* What the screens of the mobile app see of one booking: its row, its     *)
(* reviews, and the handlers of PATCH /bookings/:id/status and POST        *)
(* /reviews, one statement a step.  version counts the writes of the       *)
(* status, so that a screen's copy can be told from what the table holds.  *)
(***************************************************************************)
EXTENDS Naturals, FiniteSets

CONSTANTS
  Patches,       \* the requests for another status
  Submissions,   \* the requests for a review
  Starts,        \* the status at the start, with the requests still to be made
  MaxLost,       \* bound on answers that never arrive
  MaxAlerts,     \* bound on confirmations that are open at once
  PanelAsks,     \* bound on the statuses an administrator asks for
  Nothing

BookingStatuses ==
  {"pending", "confirmed", "in_progress", "completed", "rejected", "cancelled"}
Copy == [status : BookingStatuses, version : Nat, reviewed : BOOLEAN]
(* A fetch in flight: got is what the server read, Nothing before it has.  *)
Fetch == [kind : {"loud", "silent", "poll"}, got : Copy \cup {Nothing}]
(* The screens that ask for a status: the renter's, the owner's, and that  *)
(* of the admin panel.                                                     *)
Screens == {"list", "details", "dashboard", "panel"}
(* owned: whether the screen that sent it awaits the answer; not once it   *)
(* has left the device or given up.  by: whether the form that sent it is  *)
(* still open, and whether the device still awaits the answer at all.      *)
Patch == [from : Screens, to : BookingStatuses, owned : BOOLEAN,
          at : {"sent", "allowed", "done", "refused", "settled"}]
Submission == [by : {"form", "closed", "nobody"},
               at : {"sent", "completed", "unreviewed", "done", "refused", "settled"}]

ASSUME BookingServerAssumption ==
  /\ Starts \subseteq [status : BookingStatuses, patches : SUBSET Patches,
                      submissions : SUBSET Submissions]
  /\ MaxLost \in Nat /\ MaxAlerts \in Nat
  /\ PanelAsks \subseteq BookingStatuses
  /\ Nothing \notin Copy \cup Patch \cup Submission

VARIABLES
  row,        \* the row of bookings: its status and version
  reviews,    \* the number of rows of reviews for it
  patch,
  submission,
  lost

serverVars == <<row, reviews, patch, submission, lost>>

BookingServerInit ==
  /\ \E s \in Starts :
       /\ row = [status |-> s.status, version |-> 0]
       /\ patch = [p \in Patches |-> IF p \in s.patches THEN Nothing ELSE
                     [from |-> "dashboard", to |-> "confirmed", owned |-> TRUE, at |-> "settled"]]
       /\ submission = [u \in Submissions |-> IF u \in s.submissions THEN Nothing ELSE
                          [by |-> "nobody", at |-> "settled"]]
  /\ reviews = 0
  /\ lost = 0

-----------------------------------------------------------------------------
(* GET /bookings/my and /bookings/owner (one query), /bookings/:id, which  *)
(* does not select has_review.                                             *)
CopyOfRow(inList) == [status |-> row.status, version |-> row.version,
                      reviewed |-> inList /\ reviews > 0]
Fetched(kind) == [kind |-> kind, got |-> Nothing]
Unread(f) == f.got = Nothing
Holds(copy, statuses) == copy # Nothing /\ copy.status \in statuses

LoseAnswer == lost < MaxLost /\ lost' = lost + 1

-----------------------------------------------------------------------------
(* The status.                                                             *)

SendPatch(p, from, to, owned) ==
  /\ patch[p] = Nothing
  /\ patch' = [patch EXCEPT ![p] = [from |-> from, to |-> to, owned |-> owned, at |-> "sent"]]
  /\ UNCHANGED <<row, reviews, submission, lost>>

(* allowedTransitions, of the renter and of the owner; the panel's PATCH   *)
(* /admin/bookings/:id/status asks nothing.                                *)
Transitions(from) ==
  IF from = "panel" THEN [s \in BookingStatuses |-> BookingStatuses]
  ELSE IF from = "dashboard"
  THEN [pending |-> {"confirmed", "rejected"}, confirmed |-> {"in_progress"},
        in_progress |-> {"completed"}]
  ELSE [pending |-> {"cancelled"}, confirmed |-> {"cancelled"}, in_progress |-> {}]

(* The statuses a screen asks for at all.                                  *)
AskedFrom(from) ==
  IF from = "panel" THEN PanelAsks
  ELSE UNION {Transitions(from)[s] : s \in DOMAIN Transitions(from)}

MoveTo(p, at) == patch' = [patch EXCEPT ![p].at = at]

(* It is refused too when the car is withdrawn, or within a day of the     *)
(* start of a confirmed booking: neither is modelled, it may be so.        *)
DecidePatch(p) ==
  LET t == Transitions(patch[p].from) IN
  /\ patch[p].at = "sent"
  /\ \/ /\ row.status \in DOMAIN t /\ patch[p].to \in t[row.status]
        /\ MoveTo(p, "allowed")
     \/ MoveTo(p, "refused")
  /\ UNCHANGED <<row, reviews, submission, lost>>

(* The UPDATE does not look at the status again.                           *)
WritePatch(p) ==
  /\ patch[p].at = "allowed"
  /\ row' = [status |-> patch[p].to, version |-> row.version + 1]
  /\ MoveTo(p, "done")
  /\ UNCHANGED <<reviews, submission, lost>>

(* What the screen that sent p learns.  When it has waited too long, the   *)
(* request is lost or the server still goes on with it.                    *)
PatchSucceeds(p) ==
  /\ patch[p] # Nothing /\ patch[p].at = "done"
  /\ MoveTo(p, "settled")
  /\ UNCHANGED <<row, reviews, submission, lost>>

PatchFails(p) ==
  /\ patch[p] # Nothing
  /\ \/ patch[p].at = "refused" /\ MoveTo(p, "settled") /\ UNCHANGED lost
     \/ patch[p].at = "sent" /\ MoveTo(p, "settled") /\ LoseAnswer
     \/ /\ patch[p].owned /\ patch[p].at # "settled" /\ LoseAnswer
        /\ patch' = [patch EXCEPT ![p].owned = FALSE]
  /\ UNCHANGED <<row, reviews, submission>>

(* What a screen that is left has sent and not heard of.                   *)
Left(screen) ==
  [p \in Patches |->
     IF patch[p] # Nothing /\ patch[p].from = screen /\ patch[p].at # "settled"
     THEN [patch[p] EXCEPT !.owned = FALSE] ELSE patch[p]]

Leave(screen) == patch' = Left(screen) /\ UNCHANGED <<row, reviews, submission, lost>>

-----------------------------------------------------------------------------
(* The review.                                                             *)

SendReview(u) ==
  /\ submission[u] = Nothing
  /\ submission' = [submission EXCEPT ![u] = [by |-> "form", at |-> "sent"]]
  /\ UNCHANGED <<row, reviews, patch, lost>>

(* The form they were sent from is closed.                                 *)
Shut(submissions) ==
  [u \in Submissions |->
     IF submissions[u] # Nothing /\ submissions[u].by = "form"
     THEN [submissions[u] EXCEPT !.by = "closed"] ELSE submissions[u]]

LeaveForms == submission' = Shut(submission) /\ UNCHANGED <<row, reviews, patch, lost>>

Advance(u, at) == submission' = [submission EXCEPT ![u].at = at]

CheckCompleted(u) ==
  /\ submission[u].at = "sent"
  /\ Advance(u, IF row.status = "completed" THEN "completed" ELSE "refused")
  /\ UNCHANGED <<row, reviews, patch, lost>>

CheckUnreviewed(u) ==
  /\ submission[u].at = "completed"
  /\ Advance(u, IF reviews = 0 THEN "unreviewed" ELSE "refused")
  /\ UNCHANGED <<row, reviews, patch, lost>>

(* Mutant: the table lacks UNIQUE(booking_id, reviewer_id).                *)
InsertAnyway(u) ==
  /\ submission[u].at = "unreviewed"
  /\ reviews' = reviews + 1 /\ Advance(u, "done")
  /\ UNCHANGED <<row, patch, lost>>

InsertReview(u) ==
  /\ submission[u].at = "unreviewed"
  /\ IF reviews = 0 THEN reviews' = 1 /\ Advance(u, "done")
     ELSE Advance(u, "refused") /\ UNCHANGED reviews
  /\ UNCHANGED <<row, patch, lost>>

(* A device that still awaits the answer then closes the screen it shows:  *)
(* a form, the details, or one that has sent nothing.                      *)
ReviewSucceeds(u, closed) ==
  LET settled == [submission EXCEPT ![u].at = "settled"] IN
  /\ submission[u] # Nothing /\ submission[u].at = "done"
  /\ closed # "nothing" => submission[u].by # "nobody"
  /\ submission' = IF closed = "form" THEN Shut(settled) ELSE settled
  /\ patch' = IF closed = "details" THEN Left("details") ELSE patch
  /\ UNCHANGED <<row, reviews, lost>>

ReviewFails(u) ==
  /\ submission[u] # Nothing
  /\ \/ submission[u].at = "refused" /\ Advance(u, "settled") /\ UNCHANGED lost
     \/ submission[u].at = "sent" /\ Advance(u, "settled") /\ LoseAnswer
     \/ /\ submission[u].by # "nobody" /\ submission[u].at # "settled" /\ LoseAnswer
        /\ submission' = [submission EXCEPT ![u].by = "nobody"]
  /\ UNCHANGED <<row, reviews, patch>>

-----------------------------------------------------------------------------
Handles ==
  \/ \E p \in Patches : patch[p] # Nothing /\ (DecidePatch(p) \/ WritePatch(p))
  \/ \E u \in Submissions : submission[u] # Nothing /\
       (CheckCompleted(u) \/ CheckUnreviewed(u) \/ InsertReview(u))

(* What other screens do to the booking: they ask for a status, the        *)
(* details even when they are left, learn the answer or are left; the form *)
(* of a review comes with the list; and an answer may be lost.             *)
Elsewhere(screens) ==
  \/ \E p \in Patches, from \in screens, owned \in BOOLEAN : \E to \in AskedFrom(from) :
       (owned \/ from = "details") /\ SendPatch(p, from, to, owned)
  \/ \E p \in Patches : /\ patch[p] # Nothing /\ patch[p].from \in screens
                        /\ PatchSucceeds(p) \/ PatchFails(p)
  \/ \E screen \in screens : Leave(screen)
  \/ /\ "list" \in screens
     /\ \/ LeaveForms
        \/ \E u \in Submissions : SendReview(u) \/ ReviewFails(u)
        \/ \E u \in Submissions, closed \in {"nothing", "form"} \cup (screens \cap {"details"}) :
             ReviewSucceeds(u, closed)
  \/ LoseAnswer /\ UNCHANGED <<row, reviews, patch, submission>>

-----------------------------------------------------------------------------
(* Properties.                                                             *)

(* Every variable keeps its type.                                          *)
BookingServerTypeOK ==
  /\ row \in [status : BookingStatuses, version : Nat]
  /\ reviews \in Nat
  /\ patch \in [Patches -> Patch \cup {Nothing}]
  /\ submission \in [Submissions -> Submission \cup {Nothing}]
  /\ lost \in 0 .. MaxLost

(* However often the form is sent, from whichever screen, a booking has    *)
(* one review, and the renter is told of success only with that review.    *)
OneReview == reviews <= 1 /\ \A u \in Submissions :
  submission[u] # Nothing /\ submission[u].at = "done" => reviews = 1
=============================================================================
