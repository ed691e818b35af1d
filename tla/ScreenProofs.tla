---------------------------- MODULE ScreenProofs ----------------------------
(* Proofs about the screens: the renter's and the owner's over one booking,*)
(* the one where cars are looked for, and the admin panel.                 *)
EXTENDS BookingApp, HomeScreen, AdminPanel, FiniteSetTheorems, SequenceTheorems, TLAPS

(* A set whose elements are equal has one at most.                         *)
LEMMA AtMostOne ==
  ASSUME NEW S, \A x, y \in S : x = y
  PROVE  Cardinality(S) <= 1
<1>1. CASE S = {}
  BY <1>1, FS_EmptySet
<1>2. CASE S # {}
  <2>1. PICK x : S = {x}
    BY <1>2
  <2> QED BY <2>1, FS_Singleton
<1> QED BY <1>1, <1>2

(* A patch moves on: whose it is and what it asks for stays.               *)
LEMMA PatchMoves ==
  ASSUME patch \in [Patches -> Patch \cup {Nothing}], NEW p \in Patches, patch[p] # Nothing,
         \/ \E at \in {"sent", "allowed", "done", "refused", "settled"} : MoveTo(p, at)
         \/ patch' = [patch EXCEPT ![p].owned = FALSE]
  PROVE  /\ patch' \in [Patches -> Patch \cup {Nothing}]
         /\ \A q \in Patches \ {p} : patch'[q] = patch[q]
         /\ patch'[p] # Nothing
         /\ patch'[p].from = patch[p].from /\ patch'[p].to = patch[p].to
<1>1. patch[p] \in Patch
  OBVIOUS
<1>2. /\ [patch[p] EXCEPT !.owned = FALSE] \in Patch
      /\ [patch[p] EXCEPT !.owned = FALSE].from = patch[p].from
      /\ [patch[p] EXCEPT !.owned = FALSE].to = patch[p].to
  BY <1>1 DEF Patch
<1>3. ASSUME NEW at \in {"sent", "allowed", "done", "refused", "settled"}
      PROVE  /\ [patch[p] EXCEPT !.at = at] \in Patch
             /\ [patch[p] EXCEPT !.at = at].from = patch[p].from
             /\ [patch[p] EXCEPT !.at = at].to = patch[p].to
  BY <1>1 DEF Patch
<1>4. Nothing \notin Patch
  BY BookingServerAssumption
<1>5. PICK c \in Patch : /\ patch' = [patch EXCEPT ![p] = c]
                        /\ c.from = patch[p].from /\ c.to = patch[p].to
  BY <1>2, <1>3 DEF MoveTo
<1> QED BY <1>4, <1>5

(* No step of a patch gives it back to a dashboard that was left.          *)
LEMMA PatchStaysDisowned ==
  ASSUME patch \in [Patches -> Patch \cup {Nothing}], NEW p \in Patches, patch[p] # Nothing,
         \/ \E at \in {"sent", "allowed", "done", "refused", "settled"} : MoveTo(p, at)
         \/ patch' = [patch EXCEPT ![p].owned = FALSE]
  PROVE  patch'[p].owned => patch[p].owned
<1>1. patch[p] \in Patch
  OBVIOUS
<1>2. CASE patch' = [patch EXCEPT ![p].owned = FALSE]
  <2>1. patch'[p] = [patch[p] EXCEPT !.owned = FALSE]
    BY <1>2
  <2>2. [patch[p] EXCEPT !.owned = FALSE].owned = FALSE
    BY <1>1 DEF Patch
  <2> QED BY <2>1, <2>2
<1>3. CASE \E at \in {"sent", "allowed", "done", "refused", "settled"} : MoveTo(p, at)
  <2>1. PICK at \in {"sent", "allowed", "done", "refused", "settled"} : patch' = [patch EXCEPT ![p].at = at]
    BY <1>3 DEF MoveTo
  <2>2. patch'[p] = [patch[p] EXCEPT !.at = at]
    BY <2>1
  <2>3. [patch[p] EXCEPT !.at = at].owned = patch[p].owned
    BY <1>1 DEF Patch
  <2> QED BY <2>2, <2>3
<1> QED BY <1>2, <1>3

(* A patch is sent.                                                        *)
LEMMA PatchSent ==
  ASSUME patch \in [Patches -> Patch \cup {Nothing}], NEW p \in Patches,
         NEW from \in Screens, NEW to \in BookingStatuses, NEW owned \in BOOLEAN,
         SendPatch(p, from, to, owned)
  PROVE  /\ patch[p] = Nothing /\ patch' \in [Patches -> Patch \cup {Nothing}]
         /\ \A q \in Patches \ {p} : patch'[q] = patch[q]
         /\ patch'[p] # Nothing /\ patch'[p].from = from /\ patch'[p].to = to
         /\ patch'[p].owned = owned /\ patch'[p].at = "sent"
         /\ UNCHANGED <<row, reviews, submission, lost>>
<1> DEFINE c == [from |-> from, to |-> to, owned |-> owned, at |-> "sent"]
<1>1. c \in Patch /\ c.from = from /\ c.to = to /\ c.owned = owned /\ c.at = "sent"
  BY DEF Patch
<1>2. patch[p] = Nothing /\ patch' = [patch EXCEPT ![p] = c]
      /\ UNCHANGED <<row, reviews, submission, lost>>
  BY DEF SendPatch
<1>3. Nothing \notin Patch
  BY BookingServerAssumption
<1> HIDE DEF c
<1> QED BY <1>1, <1>2, <1>3

(* The statuses a screen asks for.                                         *)
LEMMA AsksStatuses == ASSUME NEW from \in Screens PROVE AskedFrom(from) \subseteq BookingStatuses
<1> DEFINE t == Transitions(from)
<1>1. CASE from = "panel"
  BY <1>1, BookingServerAssumption DEF AskedFrom
<1>2. CASE from # "panel"
  <2>1. DOMAIN t \subseteq {"pending", "confirmed", "in_progress"}
        /\ \A s \in DOMAIN t : t[s] \subseteq BookingStatuses
    BY <1>2 DEF Transitions, BookingStatuses
  <2> HIDE DEF t
  <2> QED BY <1>2, <2>1 DEF AskedFrom, t
<1> QED BY <1>1, <1>2

(* A screen that is left disowns what it has not heard of, no more.        *)
LEMMA PatchesLeft ==
  ASSUME patch \in [Patches -> Patch \cup {Nothing}], NEW left \in Screens,
         patch' = Left(left)
  PROVE  /\ patch' \in [Patches -> Patch \cup {Nothing}]
         /\ \A q \in Patches :
              IF patch[q] # Nothing /\ patch[q].from = left /\ patch[q].at # "settled"
              THEN /\ patch'[q] # Nothing /\ patch'[q].from = left /\ ~patch'[q].owned
                   /\ patch'[q].at = patch[q].at /\ patch'[q].to = patch[q].to
              ELSE patch'[q] = patch[q]
<1>1. ASSUME NEW q \in Patches, patch[q] # Nothing
      PROVE  /\ [patch[q] EXCEPT !.owned = FALSE] \in Patch
             /\ [patch[q] EXCEPT !.owned = FALSE].from = patch[q].from
             /\ [patch[q] EXCEPT !.owned = FALSE].at = patch[q].at
             /\ [patch[q] EXCEPT !.owned = FALSE].to = patch[q].to
             /\ ~[patch[q] EXCEPT !.owned = FALSE].owned
  BY <1>1 DEF Patch
<1>2. Nothing \notin Patch
  BY BookingServerAssumption
<1>3. patch' = [q \in Patches |->
                 IF patch[q] # Nothing /\ patch[q].from = left /\ patch[q].at # "settled"
                 THEN [patch[q] EXCEPT !.owned = FALSE] ELSE patch[q]]
  BY DEF Left
<1>4. \A q \in Patches : patch'[q] =
        IF patch[q] # Nothing /\ patch[q].from = left /\ patch[q].at # "settled"
        THEN [patch[q] EXCEPT !.owned = FALSE] ELSE patch[q]
  BY <1>3
<1>5. patch' \in [Patches -> Patch \cup {Nothing}]
  BY <1>1, <1>3
<1> QED BY <1>1, <1>2, <1>4, <1>5

(* What other screens do touches their own patches alone, and never the    *)
(* row.                                                                    *)
LEMMA ElsewhereKeeps ==
  ASSUME patch \in [Patches -> Patch \cup {Nothing}], NEW screens \in SUBSET Screens,
         Elsewhere(screens)
  PROVE  /\ patch' \in [Patches -> Patch \cup {Nothing}] /\ UNCHANGED <<row, reviews>>
         /\ lost' = lost \/ lost' = lost + 1
         /\ \A q \in Patches : patch'[q] # patch[q] =>
              /\ patch'[q] # Nothing /\ patch'[q].from \in screens
              /\ patch[q] = Nothing \/ patch[q].from \in screens
<1>1. ASSUME NEW p \in Patches, NEW from \in screens, NEW owned \in BOOLEAN,
             NEW to \in AskedFrom(from), SendPatch(p, from, to, owned)
      PROVE  /\ patch' \in [Patches -> Patch \cup {Nothing}] /\ UNCHANGED <<row, reviews, lost>>
             /\ patch[p] = Nothing /\ patch'[p] # Nothing /\ patch'[p].from = from
             /\ \A q \in Patches \ {p} : patch'[q] = patch[q]
  BY <1>1, AsksStatuses, PatchSent
<1>2. ASSUME NEW p \in Patches, patch[p] # Nothing, PatchSucceeds(p) \/ PatchFails(p)
      PROVE  /\ patch' \in [Patches -> Patch \cup {Nothing}] /\ UNCHANGED <<row, reviews>>
             /\ lost' = lost \/ lost' = lost + 1
             /\ patch'[p] # Nothing /\ patch'[p].from = patch[p].from
             /\ \A q \in Patches \ {p} : patch'[q] = patch[q]
  <2>1. /\ MoveTo(p, "settled") \/ patch' = [patch EXCEPT ![p].owned = FALSE]
        /\ UNCHANGED <<row, reviews>> /\ lost' \in {lost, lost + 1}
    BY <1>2 DEF PatchSucceeds, PatchFails, LoseAnswer
  <2> QED BY <1>2, <2>1, PatchMoves
<1>3. ASSUME NEW u \in Submissions, SendReview(u) \/ ReviewFails(u)
      PROVE  UNCHANGED <<row, reviews, patch>> /\ (lost' = lost \/ lost' = lost + 1)
  BY <1>3 DEF SendReview, ReviewFails, LoseAnswer
<1>4. LeaveForms => UNCHANGED <<row, reviews, patch, lost>>
  BY DEF LeaveForms
<1>5. LoseAnswer /\ UNCHANGED <<row, reviews, patch, submission>>
        => UNCHANGED <<row, reviews, patch>> /\ lost' = lost + 1
  BY DEF LoseAnswer
<1>6. ASSUME NEW from \in screens, patch' = Left(from)
      PROVE  /\ patch' \in [Patches -> Patch \cup {Nothing}]
             /\ \A q \in Patches : patch'[q] # patch[q] =>
                  /\ patch'[q] # Nothing /\ patch'[q].from \in screens
                  /\ patch[q] = Nothing \/ patch[q].from \in screens
  BY <1>6, PatchesLeft
<1>7. ASSUME NEW from \in screens, Leave(from)
      PROVE  patch' = Left(from) /\ UNCHANGED <<row, reviews, lost>>
  BY <1>7 DEF Leave
<1>8. ASSUME NEW u \in Submissions, NEW closed \in {"nothing", "form"} \cup (screens \cap {"details"}),
             ReviewSucceeds(u, closed)
      PROVE  /\ UNCHANGED <<row, reviews, lost>>
             /\ patch' = patch \/ ("details" \in screens /\ patch' = Left("details"))
  BY <1>8 DEF ReviewSucceeds
<1> QED BY <1>1, <1>2, <1>3, <1>4, <1>5, <1>6, <1>7, <1>8 DEF Elsewhere

-----------------------------------------------------------------------------
(* One review.                                                             *)

(* The steps that neither insert a review nor answer for one.              *)
LEMMA ReviewFrame ==
  ASSUME ReviewInv, UNCHANGED reviews, submission' \in [Submissions -> Submission \cup {Nothing}],
         \A u \in Submissions : submission'[u] # Nothing /\ submission'[u].at = "done"
                                  => submission[u] # Nothing /\ submission[u].at = "done"
  PROVE  ReviewInv'
BY DEF ReviewInv, OneReview

(* A step of one submission.                                               *)
LEMMA AdvanceStep ==
  ASSUME ReviewInv, NEW u \in Submissions, submission[u] # Nothing,
         NEW at \in {"sent", "completed", "unreviewed", "done", "refused", "settled"},
         Advance(u, at)
  PROVE  /\ submission' \in [Submissions -> Submission \cup {Nothing}]
         /\ submission'[u].at = at
         /\ \A v \in Submissions \ {u} : submission'[v] = submission[v]
<1>1. submission[u] \in Submission
  BY DEF ReviewInv
<1>2. [submission[u] EXCEPT !.at = at] \in Submission
  BY <1>1 DEF Submission
<1> QED BY <1>1, <1>2 DEF ReviewInv, Advance, Submission

(* The server's statements.                                                *)
LEMMA ReviewHandled ==
  ASSUME ReviewInv, Handles
  PROVE  ReviewInv'
<1>1. ASSUME NEW p \in Patches, DecidePatch(p) \/ WritePatch(p)
      PROVE  ReviewInv'
  <2>1. UNCHANGED <<reviews, submission>>
    BY <1>1 DEF DecidePatch, WritePatch
  <2> QED BY <2>1 DEF ReviewInv, OneReview
<1>2. ASSUME NEW u \in Submissions, submission[u] # Nothing, CheckCompleted(u) \/ CheckUnreviewed(u)
      PROVE  ReviewInv'
  <2>1. PICK at \in {"completed", "unreviewed", "refused"} :
          Advance(u, at) /\ UNCHANGED reviews
    BY <1>2 DEF CheckCompleted, CheckUnreviewed
  <2> QED BY <1>2, <2>1, AdvanceStep, ReviewFrame
<1>3. ASSUME NEW u \in Submissions, submission[u] # Nothing, InsertReview(u)
      PROVE  ReviewInv'
  <2>1. CASE reviews = 0
    <3>1. reviews' = 1 /\ Advance(u, "done")
      BY <1>3, <2>1 DEF InsertReview
    <3> QED BY <1>3, <3>1, AdvanceStep DEF ReviewInv, OneReview
  <2>2. CASE reviews # 0
    <3>1. UNCHANGED reviews /\ Advance(u, "refused")
      BY <1>3, <2>2 DEF InsertReview
    <3> QED BY <1>3, <3>1, AdvanceStep, ReviewFrame
  <2> QED BY <2>1, <2>2
<1> QED BY <1>1, <1>2, <1>3 DEF Handles

(* A form that is closed shuts its submissions, no more.                   *)
LEMMA FormsShut ==
  ASSUME NEW s \in [Submissions -> Submission \cup {Nothing}]
  PROVE  /\ Shut(s) \in [Submissions -> Submission \cup {Nothing}]
         /\ \A u \in Submissions :
              /\ Shut(s)[u] = Nothing <=> s[u] = Nothing
              /\ s[u] # Nothing => Shut(s)[u].at = s[u].at /\ Shut(s)[u].by # "form"
<1>1. ASSUME NEW u \in Submissions, s[u] # Nothing
      PROVE  /\ [s[u] EXCEPT !.by = "closed"] \in Submission
             /\ [s[u] EXCEPT !.by = "closed"].at = s[u].at
             /\ [s[u] EXCEPT !.by = "closed"].by = "closed"
  BY <1>1 DEF Submission
<1>2. \A u \in Submissions : Shut(s)[u] =
        IF s[u] # Nothing /\ s[u].by = "form" THEN [s[u] EXCEPT !.by = "closed"] ELSE s[u]
  BY DEF Shut
<1>3. Shut(s) \in [Submissions -> Submission \cup {Nothing}]
  BY <1>1 DEF Shut
<1>4. Nothing \notin Submission
  BY BookingServerAssumption
<1> QED BY <1>1, <1>2, <1>3, <1>4

(* What the device learns, or stops waiting for.                           *)
LEMMA ReviewAnswered ==
  ASSUME ReviewInv, NEW u \in Submissions, NEW closed,
         ReviewSucceeds(u, closed) \/ ReviewFails(u)
  PROVE  ReviewInv'
<1>1. submission[u] # Nothing /\ UNCHANGED reviews
  BY DEF ReviewSucceeds, ReviewFails
<1>2. submission \in [Submissions -> Submission \cup {Nothing}] /\ submission[u] \in Submission
  BY <1>1 DEF ReviewInv
<1>3. CASE Advance(u, "settled")
  BY <1>1, <1>3, AdvanceStep, ReviewFrame
<1>4. CASE submission' = [submission EXCEPT ![u].by = "nobody"]
  <2>1. /\ [submission[u] EXCEPT !.by = "nobody"] \in Submission
        /\ [submission[u] EXCEPT !.by = "nobody"].at = submission[u].at
    BY <1>2 DEF Submission
  <2>2. /\ submission' \in [Submissions -> Submission \cup {Nothing}]
        /\ submission'[u].at = submission[u].at
        /\ \A v \in Submissions \ {u} : submission'[v] = submission[v]
    BY <1>2, <1>4, <2>1
  <2> QED BY <1>1, <2>2, ReviewFrame
<1>5. ASSUME submission' = Shut([submission EXCEPT ![u].at = "settled"])
      PROVE  ReviewInv'
  <2> DEFINE s == [submission EXCEPT ![u].at = "settled"]
  <2>1. /\ [submission[u] EXCEPT !.at = "settled"] \in Submission
        /\ [submission[u] EXCEPT !.at = "settled"].at = "settled"
    BY <1>2 DEF Submission
  <2>2. /\ s \in [Submissions -> Submission \cup {Nothing}] /\ s[u].at = "settled"
        /\ s[u] # Nothing /\ \A v \in Submissions \ {u} : s[v] = submission[v]
    BY <1>2, <2>1, BookingServerAssumption
  <2>3. submission' = Shut(s)
    BY <1>5
  <2> HIDE DEF s
  <2>4. /\ submission' \in [Submissions -> Submission \cup {Nothing}]
        /\ \A v \in Submissions : submission'[v] # Nothing
              => s[v] # Nothing /\ submission'[v].at = s[v].at
    BY <2>2, <2>3, FormsShut
  <2> QED BY <1>1, <2>2, <2>4, ReviewFrame
<1> QED BY <1>3, <1>4, <1>5 DEF ReviewSucceeds, ReviewFails, Advance

(* The forms are left.                                                     *)
LEMMA ReviewDisowned ==
  ASSUME ReviewInv, LeaveForms
  PROVE  ReviewInv'
<1>1. submission \in [Submissions -> Submission \cup {Nothing}]
  BY DEF ReviewInv
<1>2. UNCHANGED reviews /\ submission' = Shut(submission)
  BY DEF LeaveForms
<1> QED BY <1>1, <1>2, FormsShut, ReviewFrame

(* No submission is answered yet.                                          *)
LEMMA ReviewInvInit == ListInit => ReviewInv
BY BookingServerAssumption
DEF ListInit, BookingServerInit, ReviewInv, OneReview, Submission

(* Every step of the list and its form.                                    *)
LEMMA ReviewInvStep ==
  ASSUME ReviewInv, [ListNext]_listVars
  PROVE  ReviewInv'
<1>0. ASSUME UNCHANGED <<reviews, submission>>
      PROVE  ReviewInv'
  BY <1>0 DEF ReviewInv, OneReview
<1>1. CASE UNCHANGED listVars
  BY <1>0, <1>1 DEF listVars, serverVars
<1>2. CASE Refresh \/ LeaveList \/ OpenReview \/ BackToList
  BY <1>0, <1>2 DEF Refresh, LeaveList, OpenReview, BackToList, Leave, serverVars
<1>3. CASE CloseReview
  BY <1>3, ReviewDisowned DEF CloseReview
<1>4. ASSUME NEW f \in list.fetches, ReadList(f) \/ ShowList(f) \/ ListFails(f)
      PROVE  ReviewInv'
  BY <1>0, <1>4 DEF ReadList, ShowList, ListFails, serverVars
<1>5. ASSUME NEW p \in Patches, ListPatchEnds(p)
      PROVE  ReviewInv'
  BY <1>0, <1>5 DEF ListPatchEnds, PatchSucceeds, PatchFails
<1>6. ASSUME NEW u \in Submissions, ReviewEnds(u)
      PROVE  ReviewInv'
  BY <1>6, ReviewAnswered DEF ReviewEnds
<1>7. CASE Handles
  BY <1>7, ReviewHandled
<1>8. ASSUME NEW p \in Patches, ConfirmListCancel(p)
      PROVE  ReviewInv'
  BY <1>0, <1>8 DEF ConfirmListCancel, SendPatch
<1>11. CASE TapListCancel \/ DismissListCancel \/ CancelAnother \/ AnotherEnds
  BY <1>0, <1>11 DEF TapListCancel, DismissListCancel, CancelAnother, AnotherEnds, serverVars
<1>10. CASE Elsewhere(Screens \ {"list"})
  BY <1>0, <1>10
  DEF Elsewhere, SendPatch, PatchSucceeds, PatchFails, Leave
<1>9. ASSUME NEW u \in Submissions, SubmitReview(u)
      PROVE  ReviewInv'
  <2>1. /\ submission' = [submission EXCEPT ![u] = [by |-> "form", at |-> "sent"]]
        /\ UNCHANGED reviews
    BY <1>9 DEF SubmitReview, SendReview
  <2>2. [by |-> "form", at |-> "sent"] \in Submission
    BY DEF Submission
  <2> QED BY <2>1, <2>2, ReviewFrame DEF ReviewInv
<1> QED
  BY <1>1, <1>2, <1>3, <1>4, <1>5, <1>6, <1>7, <1>8, <1>9, <1>10, <1>11
  DEF ListNext, ListActs, ListProceeds

(* OneReview for any number of submissions and starts: however often the   *)
(* form is sent, the booking has one review, which a success stands for.   *)
THEOREM ListOneReview == ListSpec => []OneReview
<1>1. ReviewInv => OneReview
  BY DEF ReviewInv
<1> QED BY <1>1, ReviewInvInit, ReviewInvStep, PTL DEF ListSpec

-----------------------------------------------------------------------------
(* The list never goes back.                                               *)

(* The server writes newer versions and keeps the reviews.                 *)
LEMMA RowHandled ==
  ASSUME row \in [status : BookingStatuses, version : Nat], reviews \in Nat,
         patch \in [Patches -> Patch \cup {Nothing}], Handles
  PROVE  /\ row' \in [status : BookingStatuses, version : Nat]
         /\ row'.version >= row.version /\ (reviews > 0 => reviews' > 0)
         /\ patch' \in [Patches -> Patch \cup {Nothing}]
<1>0. row.version \in Nat
  OBVIOUS
<1>1. ASSUME NEW p \in Patches, patch[p] # Nothing, DecidePatch(p)
      PROVE  UNCHANGED <<row, reviews>> /\ patch' \in [Patches -> Patch \cup {Nothing}]
  <2>1. /\ UNCHANGED <<row, reviews>>
        /\ \E at \in {"sent", "allowed", "done", "refused", "settled"} : MoveTo(p, at)
    BY <1>1 DEF DecidePatch
  <2> QED BY <1>1, <2>1, PatchMoves
<1>2. ASSUME NEW p \in Patches, patch[p] # Nothing, WritePatch(p)
      PROVE  /\ row' \in [status : BookingStatuses, version : Nat]
             /\ row'.version = row.version + 1 /\ UNCHANGED reviews
             /\ patch' \in [Patches -> Patch \cup {Nothing}]
  <2>1. /\ row' = [status |-> patch[p].to, version |-> row.version + 1] /\ MoveTo(p, "done")
        /\ UNCHANGED reviews
    BY <1>2 DEF WritePatch
  <2>2. /\ row' \in [status : BookingStatuses, version : Nat]
        /\ row'.version = row.version + 1
    BY <1>0, <1>2, <2>1 DEF Patch
  <2> QED BY <1>2, <2>1, <2>2, PatchMoves
<1>3. ASSUME NEW u \in Submissions, CheckCompleted(u) \/ CheckUnreviewed(u) \/ InsertReview(u)
      PROVE  UNCHANGED <<row, patch>> /\ reviews' \in {reviews, 1}
  BY <1>3 DEF CheckCompleted, CheckUnreviewed, InsertReview
<1> QED BY <1>0, <1>1, <1>2, <1>3 DEF Handles

(* A fetch of the list, the loss of its focus and what is under a screen.  *)
LEMMA ListFetched ==
  ASSUME NEW l \in ListView, l.loading \/ l.refreshing => l.fetches # {},
         \A f, g \in l.fetches : f = g, NEW kind \in {"loud", "silent"}
  PROVE  \A v \in {WithListFetch(l, kind), Blurred(l), Popped(l)} :
           /\ v \in ListView /\ v.shown = l.shown /\ v.alerts = l.alerts
           /\ v.loading \/ v.refreshing => v.fetches # {}
           /\ \A f, g \in v.fetches : f = g
           /\ \A f \in v.fetches : f \in l.fetches \/ f.got = Nothing
<1>1. ASSUME NEW k \in {"loud", "silent"}
      PROVE  /\ WithListFetch(l, k) \in ListView
             /\ WithListFetch(l, k).shown = l.shown /\ WithListFetch(l, k).alerts = l.alerts
             /\ WithListFetch(l, k).fetches # {}
             /\ \A f, g \in WithListFetch(l, k).fetches : f = g
             /\ \A f \in WithListFetch(l, k).fetches : f.got = Nothing
  <2> DEFINE loads == l.fetches = {} /\ (k = "loud" \/ l.loading)
             refreshes == l.fetches = {} /\ (k = "silent" \/ l.refreshing)
             new == {Fetched(k)}
  <2>1. /\ loads \in BOOLEAN /\ refreshes \in BOOLEAN /\ new \in SUBSET Fetch /\ new # {}
        /\ (\A f, g \in new : f = g) /\ \A f \in new : f.got = Nothing
    BY DEF Fetched, Fetch
  <2>2. WithListFetch(l, k) = [l EXCEPT !.fetches = new, !.loading = loads,
                                        !.refreshing = refreshes, !.hasError = FALSE]
    BY DEF WithListFetch, ListReplacing
  <2> HIDE DEF loads, refreshes, new
  <2>3. WithListFetch(l, k).fetches = new
    BY <2>2 DEF ListView
  <2> QED BY <2>1, <2>2, <2>3 DEF ListView
<1>2. /\ Blurred(l) \in ListView /\ Blurred(l).shown = l.shown /\ Blurred(l).alerts = l.alerts
      /\ ~Blurred(l).loading /\ ~Blurred(l).refreshing /\ Blurred(l).fetches = {}
  BY DEF Blurred, ListView
<1>3. Popped(l) \in {l, WithListFetch(l, "silent")}
  BY DEF Popped
<1> QED BY <1>1, <1>2, <1>3

(* What the list shows next to what it showed.                             *)
ListForward ==
  list.shown # Nothing /\ list'.shown # Nothing => Older(list.shown, list'.shown)

(* The copies the list holds stay, or make way for fetches not read yet.   *)
LEMMA SameListCopies ==
  ASSUME ListCopiesInv, row' \in [status : BookingStatuses, version : Nat],
         row'.version >= row.version, reviews > 0 => reviews' > 0,
         patch' \in [Patches -> Patch \cup {Nothing}],
         list' \in ListView, list'.alerts <= MaxAlerts, list'.shown = list.shown,
         list'.loading \/ list'.refreshing => list'.fetches # {},
         \A f, g \in list'.fetches : f = g,
         \A f \in list'.fetches : f \in list.fetches \/ f.got = Nothing
  PROVE  ListCopiesInv' /\ ListForward
<1>1. row.version \in Nat /\ row'.version \in Nat
  BY DEF ListCopiesInv
<1>2. \A c : c \in Copy /\ c.version <= row.version /\ (c.reviewed => reviews > 0)
                => c.version <= row'.version /\ (c.reviewed => reviews' > 0)
  BY <1>1 DEF Copy
<1>3. list'.shown # Nothing => Past(list.shown)'
  BY <1>2 DEF ListCopiesInv, Past
<1>4. \A f \in list'.fetches : f.got # Nothing =>
         /\ f.got \in Copy /\ f.got.version <= row'.version /\ (f.got.reviewed => reviews' > 0)
         /\ list.shown # Nothing => Older(list.shown, f.got)
  BY <1>2 DEF ListCopiesInv, Past
<1>5. list.shown # Nothing => list.shown \in Copy
  BY DEF ListCopiesInv, Past
<1>6. ListForward
  BY <1>5 DEF ListForward, Older, Copy
<1> QED BY <1>3, <1>4, <1>6 DEF ListCopiesInv, Past, Older

(* Every step of the list.                                                 *)
LEMMA ListCopiesStep ==
  ASSUME ListInv, [ListNext]_listVars
  PROVE  ListCopiesInv' /\ ListForward
<1> DEFINE Goal == ListCopiesInv' /\ ListForward
<1>a. /\ ListCopiesInv /\ row \in [status : BookingStatuses, version : Nat]
      /\ reviews \in {0, 1}
      /\ patch \in [Patches -> Patch \cup {Nothing}]
      /\ list \in ListView /\ list.alerts <= MaxAlerts /\ list.alerts \in Nat
      /\ MaxAlerts \in Nat
      /\ list.loading \/ list.refreshing => list.fetches # {}
      /\ \A f, g \in list.fetches : f = g
  BY BookingServerAssumption DEF ListInv, ListCopiesInv, ReviewInv, ListView
<1>b. row.version \in Nat /\ row.version >= row.version
  BY <1>a
<1>c. ASSUME UNCHANGED <<row, reviews>>, patch' \in [Patches -> Patch \cup {Nothing}],
             NEW kind \in {"loud", "silent"},
             list' \in {list, WithListFetch(list, kind), Blurred(list), Popped(list)}
      PROVE  Goal
  BY <1>a, <1>b, <1>c, ListFetched, SameListCopies
<1>1. CASE UNCHANGED listVars
  BY <1>a, <1>1, <1>c DEF listVars, serverVars
<1>2. CASE Refresh \/ LeaveList \/ OpenReview \/ CloseReview
  BY <1>a, <1>2, <1>c DEF Refresh, LeaveList, OpenReview, CloseReview, LeaveForms, Pop, serverVars
<1>3. CASE BackToList
  <2>1. CASE list' = WithListFetch(list, "silent") /\ UNCHANGED serverVars
    BY <1>a, <2>1, <1>c DEF serverVars
  <2>2. CASE Pop /\ Leave("details")
    <3>1. patch' \in [Patches -> Patch \cup {Nothing}] /\ UNCHANGED <<row, reviews>>
      BY <1>a, <2>2, PatchesLeft DEF Leave, Screens
    <3> QED BY <2>2, <3>1, <1>c DEF Pop
  <2> QED BY <1>3, <2>1, <2>2 DEF BackToList
<1>4. ASSUME NEW f \in list.fetches, ReadList(f)
      PROVE  Goal
  <2> DEFINE g == [f EXCEPT !.got = CopyOfRow(TRUE)]
  <2>1. UNCHANGED <<row, reviews, patch>> /\ list' = [list EXCEPT !.fetches = {g}]
    BY <1>a, <1>4 DEF ReadList, serverVars
  <2>2. /\ CopyOfRow(TRUE) \in Copy /\ CopyOfRow(TRUE).version = row.version
        /\ CopyOfRow(TRUE).reviewed = (reviews > 0)
    BY <1>a DEF CopyOfRow, Copy
  <2>3. g \in Fetch /\ g.got = CopyOfRow(TRUE)
    BY <1>a, <2>2 DEF ListView, Fetch
  <2> HIDE DEF g
  <2>4. /\ list' \in ListView /\ list'.shown = list.shown /\ list'.fetches = {g}
        /\ list'.alerts = list.alerts
    BY <1>a, <2>1, <2>3 DEF ListView
  <2>5. list.shown # Nothing => Past(list.shown)
    BY <1>a DEF ListCopiesInv
  <2>6. list.shown # Nothing => Older(list.shown, g.got)
    BY <2>2, <2>3, <2>5 DEF Past, Older
  <2>7. g.got \in Copy /\ g.got.version <= row.version /\ (g.got.reviewed => reviews > 0)
    <3>1. row.version <= row.version
      BY <1>b
    <3> QED BY <2>2, <2>3, <3>1, Zenon
  <2>8. ListForward
    BY <2>4, <2>5 DEF ListForward, Past, Older, Copy
  <2> QED BY <1>a, <2>1, <2>4, <2>5, <2>6, <2>7, <2>8 DEF ListCopiesInv, Past, Older
<1>5. ASSUME NEW f \in list.fetches, ShowList(f)
      PROVE  Goal
  <2>1. /\ UNCHANGED <<row, reviews, patch>> /\ f.got # Nothing
        /\ list' = [list EXCEPT !.shown = f.got, !.fetches = @ \ {f},
                                !.loading = FALSE, !.refreshing = FALSE]
    BY <1>5 DEF ShowList, serverVars, Unread
  <2>2. Past(f.got) /\ (list.shown # Nothing => Older(list.shown, f.got))
    BY <1>a, <1>5, <2>1 DEF ListCopiesInv
  <2>3. /\ list' \in ListView /\ list'.shown = f.got /\ list'.fetches = {}
        /\ list'.alerts = list.alerts /\ ~list'.loading /\ ~list'.refreshing
    BY <1>a, <1>5, <2>1, <2>2 DEF ListView, Past
  <2> QED BY <1>a, <2>1, <2>2, <2>3 DEF ListCopiesInv, ListForward, Past
<1>6. ASSUME NEW f \in list.fetches, ListFails(f)
      PROVE  Goal
  <2>1. /\ UNCHANGED <<row, reviews, patch>>
        /\ list' = [list EXCEPT !.fetches = @ \ {f}, !.hasError = TRUE,
                                !.loading = FALSE, !.refreshing = FALSE]
    BY <1>6 DEF ListFails
  <2>2. /\ list' \in ListView /\ list'.shown = list.shown /\ list'.fetches = {}
        /\ list'.alerts = list.alerts /\ ~list'.loading /\ ~list'.refreshing
    BY <1>a, <1>6, <2>1 DEF ListView
  <2> QED BY <1>a, <1>b, <2>1, <2>2, SameListCopies
<1>7. ASSUME NEW p \in Patches, ListPatchEnds(p)
      PROVE  Goal
  <2>1. /\ patch[p] # Nothing /\ UNCHANGED <<row, reviews>>
        /\ MoveTo(p, "settled") \/ patch' = [patch EXCEPT ![p].owned = FALSE]
        /\ list' \in {list, WithListFetch(list, "silent")}
    BY <1>7 DEF ListPatchEnds, PatchSucceeds, PatchFails
  <2>2. patch' \in [Patches -> Patch \cup {Nothing}]
    BY <1>a, <2>1, PatchMoves
  <2> QED BY <2>1, <2>2, <1>c
<1>8. ASSUME NEW u \in Submissions, ReviewEnds(u) \/ SubmitReview(u)
      PROVE  Goal
  <2>1. /\ UNCHANGED <<row, reviews>> /\ (patch' = patch \/ patch' = Left("details"))
        /\ list' \in {list, Blurred(list), Popped(list)}
    BY <1>8 DEF ReviewEnds, ReviewSucceeds, ReviewFails, SubmitReview, SendReview, GoesBack, Pop
  <2>2. patch' \in [Patches -> Patch \cup {Nothing}]
    BY <1>a, <2>1, PatchesLeft DEF Screens
  <2> QED BY <2>1, <2>2, <1>c
<1>9. CASE Handles /\ UNCHANGED list
  <2>1. /\ row' \in [status : BookingStatuses, version : Nat]
        /\ row'.version >= row.version /\ (reviews > 0 => reviews' > 0)
        /\ patch' \in [Patches -> Patch \cup {Nothing}]
    BY <1>a, <1>9, RowHandled
  <2> QED BY <1>a, <1>9, <2>1, SameListCopies
<1>10. ASSUME NEW p \in Patches, ConfirmListCancel(p)
       PROVE  Goal
  <2>1. /\ list' = [list EXCEPT !.alerts = @ - 1, !.cancellingId = TRUE] /\ list.alerts > 0
        /\ SendPatch(p, "list", "cancelled", TRUE)
    BY <1>10 DEF ConfirmListCancel
  <2>2. patch' \in [Patches -> Patch \cup {Nothing}] /\ UNCHANGED <<row, reviews>>
    BY <1>a, <2>1, PatchSent DEF BookingStatuses, Screens
  <2>3. list.alerts - 1 \in Nat /\ list.alerts - 1 <= MaxAlerts
    BY <1>a, <2>1
  <2>4. /\ list' \in ListView /\ list'.alerts <= MaxAlerts /\ list'.shown = list.shown
        /\ list'.fetches = list.fetches /\ list'.loading = list.loading
        /\ list'.refreshing = list.refreshing
    BY <1>a, <2>1, <2>3 DEF ListView
  <2> QED BY <1>a, <1>b, <2>2, <2>4, SameListCopies
<1>11. CASE TapListCancel \/ DismissListCancel
  <2>1. PICK n \in Nat : n <= MaxAlerts /\ list' = [list EXCEPT !.alerts = n]
    <3>1. CASE TapListCancel
      <4>1. list.alerts + 1 \in Nat /\ list.alerts + 1 <= MaxAlerts
        BY <1>a, <3>1 DEF TapListCancel
      <4> QED BY <3>1, <4>1 DEF TapListCancel
    <3>2. CASE DismissListCancel
      <4>1. list.alerts - 1 \in Nat /\ list.alerts - 1 <= MaxAlerts
        BY <1>a, <3>2 DEF DismissListCancel
      <4> QED BY <3>2, <4>1 DEF DismissListCancel
    <3> QED BY <1>11, <3>1, <3>2
  <2>2. UNCHANGED <<row, reviews, patch>>
    BY <1>11 DEF TapListCancel, DismissListCancel, serverVars
  <2>3. /\ list' \in ListView /\ list'.alerts = n /\ list'.shown = list.shown
        /\ list'.fetches = list.fetches /\ list'.loading = list.loading
        /\ list'.refreshing = list.refreshing
    BY <1>a, <2>1 DEF ListView
  <2> QED BY <1>a, <1>b, <2>1, <2>2, <2>3, SameListCopies
<1>12. CASE CancelAnother
  <2>1. /\ list' = [list EXCEPT !.another = TRUE, !.cancellingId = FALSE]
        /\ UNCHANGED <<row, reviews, patch>>
    BY <1>12 DEF CancelAnother, serverVars
  <2>2. /\ list' \in ListView /\ list'.alerts = list.alerts /\ list'.shown = list.shown
        /\ list'.fetches = list.fetches /\ list'.loading = list.loading
        /\ list'.refreshing = list.refreshing
    BY <1>a, <2>1 DEF ListView
  <2> QED BY <1>a, <1>b, <2>1, <2>2, SameListCopies
<1>13. CASE AnotherEnds
  <2> DEFINE l == [list EXCEPT !.another = FALSE]
  <2>1. (list' = l \/ list' = WithListFetch(l, "silent")) /\ UNCHANGED <<row, reviews, patch>>
    BY <1>13 DEF AnotherEnds, serverVars
  <2>2. /\ l \in ListView /\ l.alerts = list.alerts /\ l.shown = list.shown
        /\ l.fetches = list.fetches /\ l.loading = list.loading
        /\ l.refreshing = list.refreshing
    BY <1>a DEF ListView
  <2> HIDE DEF l
  <2> QED BY <1>a, <1>b, <2>1, <2>2, ListFetched, SameListCopies
<1>14. CASE Elsewhere(Screens \ {"list"}) /\ UNCHANGED list
  <2>1. patch' \in [Patches -> Patch \cup {Nothing}] /\ UNCHANGED <<row, reviews>>
    BY <1>a, <1>14, ElsewhereKeeps
  <2> QED BY <1>14, <2>1, <1>c
<1> QED
  BY <1>1, <1>2, <1>3, <1>4, <1>5, <1>6, <1>7, <1>8, <1>9, <1>10, <1>11, <1>12, <1>13, <1>14
  DEF ListNext, ListActs, ListProceeds

-----------------------------------------------------------------------------
(* The stack of the renter's screens.                                      *)

(* A screen opened over others, and closed again.                          *)
LEMMA PushAndPop ==
  ASSUME NEW S, NEW s \in Seq(S), NEW x \in S, NEW t \in Seq(S),
         Len(t) = Len(s) + 1, t[Len(s) + 1] = x, \A i \in 1 .. Len(s) : t[i] = s[i]
  PROVE  Append(s, x) = t /\ SubSeq(t, 1, Len(s)) = s
<1>0. Len(s) \in Nat
  OBVIOUS
<1>1. /\ Append(s, x) \in Seq(S) /\ Len(Append(s, x)) = Len(s) + 1
      /\ \A i \in 1 .. Len(s) : Append(s, x)[i] = s[i]
      /\ Append(s, x)[Len(s) + 1] = x
  <2>1. Append(s, x) \in Seq(S)
    BY AppendProperties, Zenon
  <2>2. Len(Append(s, x)) = Len(s) + 1
    OBVIOUS
  <2>3. \A i \in 1 .. Len(s) : Append(s, x)[i] = s[i]
    OBVIOUS
  <2>4. Append(s, x)[Len(s) + 1] = x
    BY AppendProperties, Zenon
  <2> QED BY <2>1, <2>2, <2>3, <2>4
<1>2. \A i \in 1 .. Len(s) + 1 : i \in 1 .. Len(s) \/ i = Len(s) + 1
  BY <1>0
<1>3. \A i \in 1 .. Len(s) + 1 : Append(s, x)[i] = t[i]
  BY <1>1, <1>2
<1>4. Append(s, x) = t
  BY <1>1, <1>3, SeqEqual
<1>5. \A i \in 1 .. Len(s) : t[i] \in S
  BY <1>0
<1>6. /\ SubSeq(t, 1, Len(s)) \in Seq(S) /\ Len(SubSeq(t, 1, Len(s))) = Len(s)
      /\ \A i \in 1 .. Len(s) : SubSeq(t, 1, Len(s))[i] = t[i]
  BY <1>0, <1>5, SubSeqProperties
<1>7. SubSeq(t, 1, Len(s)) = s
  BY <1>6, SeqEqual
<1> QED BY <1>4, <1>7

(* The screens' names.                                                     *)
Names == {"home", "list", "detail", "review"}

(* The details or the form over the list.                                  *)
LEMMA SecondScreen ==
  ASSUME NEW x \in {"detail", "review"}
  PROVE  Append(<<"list">>, x) = <<"list", x>> /\ SubSeq(<<"list", x>>, 1, 1) = <<"list">>
<1> DEFINE one == <<"list">>
           two == <<"list", x>>
<1>1. /\ one \in Seq(Names) /\ Len(one) = 1 /\ one[1] = "list"
      /\ two \in Seq(Names) /\ Len(two) = 2 /\ two[1] = "list" /\ two[2] = x
      /\ x \in Names
  BY DEF Names
<1> HIDE DEF one, two
<1>2. Append(one, x) = two /\ SubSeq(two, 1, Len(one)) = one
  <2>1. /\ Len(two) = Len(one) + 1 /\ two[Len(one) + 1] = x
        /\ \A i \in 1 .. Len(one) : two[i] = one[i]
    BY <1>1
  <2> QED BY <1>1, <2>1, PushAndPop
<1> QED BY <1>1, <1>2 DEF one, two

(* The form over the details.                                              *)
LEMMA ThirdScreen ==
  /\ Append(<<"list", "detail">>, "review") = <<"list", "detail", "review">>
  /\ SubSeq(<<"list", "detail", "review">>, 1, 2) = <<"list", "detail">>
<1> DEFINE two == <<"list", "detail">>
           three == <<"list", "detail", "review">>
<1>1. /\ two \in Seq(Names) /\ Len(two) = 2 /\ two[1] = "list" /\ two[2] = "detail"
      /\ three \in Seq(Names) /\ Len(three) = 3
      /\ three[1] = "list" /\ three[2] = "detail" /\ three[3] = "review"
      /\ "review" \in Names
  BY DEF Names
<1> HIDE DEF two, three
<1>2. Append(two, "review") = three /\ SubSeq(three, 1, Len(two)) = two
  <2>1. /\ Len(three) = Len(two) + 1 /\ three[Len(two) + 1] = "review"
        /\ \A i \in 1 .. Len(two) : three[i] = two[i]
    BY <1>1
  <2> QED BY <1>1, <2>1, PushAndPop
<1> QED BY <1>1, <1>2 DEF two, three

(* The renter's screens, opened and closed.                                *)
LEMMA Stacked ==
  ASSUME stack \in Stacks
  PROVE  /\ Focus \in Names
         /\ Focus = "home" => stack = <<"home">>
         /\ Focus = "list" => /\ stack = <<"list">>
                              /\ Append(stack, "detail") = <<"list", "detail">>
                              /\ Append(stack, "review") = <<"list", "review">>
         /\ Focus = "detail" => /\ stack = <<"list", "detail">>
                                /\ Append(stack, "review") = <<"list", "detail", "review">>
                                /\ SubSeq(stack, 1, Len(stack) - 1) = <<"list">>
         /\ Focus = "review" =>
              \/ /\ stack = <<"list", "review">>
                 /\ SubSeq(stack, 1, Len(stack) - 1) = <<"list">>
              \/ /\ stack = <<"list", "detail", "review">>
                 /\ SubSeq(stack, 1, Len(stack) - 1) = <<"list", "detail">>
<1>1. CASE stack = <<"home">>
  BY <1>1 DEF Focus, Names
<1>2. CASE stack = <<"list">>
  <2>1. Focus = "list"
    BY <1>2 DEF Focus
  <2>2. Append(stack, "detail") = <<"list", "detail">> /\ Append(stack, "review") = <<"list", "review">>
    BY <1>2, SecondScreen
  <2> QED BY <1>2, <2>1, <2>2 DEF Names
<1>3. ASSUME NEW x \in {"detail", "review"}, stack = <<"list", x>>
      PROVE  /\ Focus = x /\ SubSeq(stack, 1, Len(stack) - 1) = <<"list">>
  <2>1. Len(stack) = 2 /\ Focus = x
    BY <1>3 DEF Focus
  <2>2. SubSeq(stack, 1, 1) = <<"list">>
    BY <1>3, SecondScreen
  <2> QED BY <2>1, <2>2
<1>4. CASE stack = <<"list", "detail", "review">>
  <2>1. Len(stack) = 3 /\ Focus = "review"
    BY <1>4 DEF Focus
  <2>2. SubSeq(stack, 1, 2) = <<"list", "detail">>
    BY <1>4, ThirdScreen
  <2> QED BY <1>4, <2>1, <2>2 DEF Names
<1>5. CASE stack = <<"list", "detail">>
  BY <1>3, <1>5, ThirdScreen DEF Names
<1>6. CASE stack = <<"list", "review">>
  BY <1>3, <1>6 DEF Names
<1> QED BY <1>1, <1>2, <1>4, <1>5, <1>6 DEF Stacks

(* No step but a form's own makes it wait.                                 *)
LEMMA StackFrame ==
  ASSUME StackInv, stack' \in Stacks,
         \A u \in Submissions : Submitting(u)' => Submitting(u),
         UNCHANGED stack \/ \A u \in Submissions : ~Submitting(u)'
  PROVE  StackInv'
BY DEF StackInv, Focus

LEMMA SubmissionsHandled ==
  ASSUME ReviewInv, NEW u \in Submissions, submission[u] # Nothing,
         \/ submission[u].at # "settled" /\
              \E at \in {"completed", "unreviewed", "done", "refused", "settled"} : Advance(u, at)
         \/ submission' = [submission EXCEPT ![u].by = "nobody"]
  PROVE  \A v \in Submissions : Submitting(v)' => Submitting(v)
<1>1. submission[u] \in Submission
  BY DEF ReviewInv
<1>2. \A v \in Submissions \ {u} : submission'[v] = submission[v]
  BY DEF ReviewInv, Advance
<1>3. Submitting(u)' => Submitting(u)
  <2>1. CASE submission' = [submission EXCEPT ![u].by = "nobody"]
    <3>1. submission'[u] = [submission[u] EXCEPT !.by = "nobody"]
      BY <2>1 DEF ReviewInv
    <3>2. submission'[u].by = "nobody"
      BY <1>1, <3>1 DEF Submission
    <3> QED BY <3>2 DEF Submitting
  <2>2. CASE submission[u].at # "settled" /\
              \E at \in {"completed", "unreviewed", "done", "refused", "settled"} : Advance(u, at)
    <3>1. PICK at : submission'[u] = [submission[u] EXCEPT !.at = at]
      BY <2>2 DEF ReviewInv, Advance
    <3>2. submission'[u].by = submission[u].by
      BY <1>1, <3>1 DEF Submission
    <3> QED BY <2>2, <3>2 DEF Submitting
  <2> QED BY <2>1, <2>2
<1> QED BY <1>2, <1>3 DEF Submitting

(* Forms that are closed wait for nothing.                                 *)
LEMMA ShutFormsWait ==
  ASSUME NEW s \in [Submissions -> Submission \cup {Nothing}], submission' = Shut(s)
  PROVE  \A u \in Submissions : ~Submitting(u)'
BY FormsShut DEF Submitting

(* The server, and an answer, make no form wait.                           *)
LEMMA SubmissionsOnlyEnd ==
  ASSUME ReviewInv,
         Handles \/ \E u \in Submissions : (\E closed : ReviewSucceeds(u, closed)) \/ ReviewFails(u)
  PROVE  \A v \in Submissions : Submitting(v)' => Submitting(v)
<1>1. ASSUME NEW p \in Patches, DecidePatch(p) \/ WritePatch(p)
      PROVE  \A v \in Submissions : Submitting(v)' => Submitting(v)
  BY <1>1 DEF DecidePatch, WritePatch, Submitting
<1>2. ASSUME NEW u \in Submissions, submission[u] # Nothing,
             CheckCompleted(u) \/ CheckUnreviewed(u) \/ InsertReview(u)
      PROVE  \A v \in Submissions : Submitting(v)' => Submitting(v)
  <2>1. /\ submission[u].at # "settled"
        /\ \E at \in {"completed", "unreviewed", "done", "refused", "settled"} : Advance(u, at)
    BY <1>2 DEF CheckCompleted, CheckUnreviewed, InsertReview
  <2> QED BY <1>2, <2>1, SubmissionsHandled
<1>3. ASSUME NEW u \in Submissions, NEW closed, ReviewSucceeds(u, closed)
      PROVE  \A v \in Submissions : Submitting(v)' => Submitting(v)
  <2> DEFINE s == [submission EXCEPT ![u].at = "settled"]
  <2>1. submission[u] # Nothing /\ submission[u].at = "done"
        /\ submission' = IF closed = "form" THEN Shut(s) ELSE s
    BY <1>3 DEF ReviewSucceeds
  <2>2. CASE closed = "form"
    <3>1. [submission[u] EXCEPT !.at = "settled"] \in Submission
      BY <2>1 DEF ReviewInv, Submission
    <3>2. s \in [Submissions -> Submission \cup {Nothing}] /\ submission' = Shut(s)
      BY <2>1, <2>2, <3>1 DEF ReviewInv
    <3> HIDE DEF s
    <3> QED BY <3>2, ShutFormsWait
  <2>3. CASE closed # "form"
    BY <2>1, <2>3, SubmissionsHandled DEF Advance
  <2> QED BY <2>2, <2>3
<1>4. ASSUME NEW u \in Submissions, ReviewFails(u)
      PROVE  \A v \in Submissions : Submitting(v)' => Submitting(v)
  <2>1. /\ submission[u] # Nothing
        /\ \/ submission[u].at # "settled" /\ Advance(u, "settled")
           \/ submission' = [submission EXCEPT ![u].by = "nobody"]
    BY <1>4 DEF ReviewFails
  <2> QED BY <2>1, SubmissionsHandled
<1> QED BY <1>1, <1>2, <1>3, <1>4 DEF Handles

(* The form that waits is the one that is open.                            *)
LEMMA StackInvStep ==
  ASSUME ReviewInv, StackInv, [ListNext]_listVars
  PROVE  StackInv'
<1>0. stack \in Stacks
  BY DEF StackInv
<1>1. ASSUME UNCHANGED submission, UNCHANGED stack
      PROVE  StackInv'
  BY <1>0, <1>1, StackFrame DEF Submitting
<1>2. ASSUME UNCHANGED submission, Focus # "review", stack' \in Stacks
      PROVE  StackInv'
  <2>1. \A u \in Submissions : ~Submitting(u)
    BY <1>2 DEF StackInv
  <2> QED BY <1>2, <2>1, StackFrame DEF Submitting
<1>3. CASE UNCHANGED listVars
  BY <1>1, <1>3 DEF listVars, serverVars
<1>4. CASE LeaveList
  BY <1>0, <1>2, <1>4, Stacked DEF LeaveList, Push, Stacks, serverVars
<1>5. CASE OpenReview
  BY <1>0, <1>2, <1>5, Stacked DEF OpenReview, Push, Stacks, serverVars
<1>6. CASE BackToList
  BY <1>0, <1>2, <1>6, Stacked DEF BackToList, Pop, Leave, Stacks, serverVars
<1>7. CASE CloseReview
  <2>1. \A u \in Submissions : ~Submitting(u)'
    BY <1>7, ShutFormsWait DEF CloseReview, LeaveForms, ReviewInv
  <2>2. stack' \in Stacks
    BY <1>0, <1>7, Stacked DEF CloseReview, Pop, Stacks
  <2> QED BY <2>1, <2>2, StackFrame
<1>8. ASSUME NEW u \in Submissions, ReviewEnds(u)
      PROVE  StackInv'
  <2>1. \A v \in Submissions : Submitting(v)' => Submitting(v)
    BY <1>8, SubmissionsOnlyEnd DEF ReviewEnds
  <2>2. CASE UNCHANGED stack
    BY <1>0, <2>1, <2>2, StackFrame
  <2>3. CASE ReviewSucceeds(u, Closing) /\ GoesBack
    <3>1. stack' \in Stacks
      BY <1>0, <2>3, Stacked DEF GoesBack, Pop, Stacks
    <3>2. \A v \in Submissions : ~Submitting(v)'
      <4>1. CASE Focus = "review"
        <5> DEFINE s == [submission EXCEPT ![u].at = "settled"]
        <5>1. submission[u] # Nothing /\ submission' = Shut(s)
          BY <2>3, <4>1 DEF ReviewSucceeds, Closing
        <5>2. [submission[u] EXCEPT !.at = "settled"] \in Submission
          BY <5>1 DEF ReviewInv, Submission
        <5>3. s \in [Submissions -> Submission \cup {Nothing}]
          BY <5>2 DEF ReviewInv
        <5> HIDE DEF s
        <5> QED BY <5>1, <5>3, ShutFormsWait
      <4>2. CASE Focus # "review"
        BY <2>1, <4>2 DEF StackInv
      <4> QED BY <4>1, <4>2
    <3> QED BY <2>1, <3>1, <3>2, StackFrame
  <2> QED BY <1>8, <2>2, <2>3 DEF ReviewEnds
<1>9. ASSUME NEW u \in Submissions, SubmitReview(u)
      PROVE  StackInv'
  <2>1. /\ Focus = "review" /\ UNCHANGED stack
        /\ \A v \in Submissions : ~Submitting(v)
        /\ \A v \in Submissions \ {u} : submission'[v] = submission[v]
    BY <1>9 DEF SubmitReview, SendReview, ReviewInv
  <2>2. \A v \in Submissions \ {u} : ~Submitting(v)'
    BY <2>1 DEF Submitting
  <2> QED BY <1>0, <2>1, <2>2 DEF StackInv, Focus
<1>10. CASE Handles /\ UNCHANGED stack
  BY <1>0, <1>10, SubmissionsOnlyEnd, StackFrame
<1>11. CASE Elsewhere(Screens \ {"list"}) /\ UNCHANGED stack
  <2>1. UNCHANGED submission
    BY <1>11 DEF Elsewhere, SendPatch, PatchSucceeds, PatchFails, Leave
  <2> QED BY <1>1, <1>11, <2>1
<1>12. CASE Refresh
  BY <1>1, <1>12 DEF Refresh, serverVars
<1>13. ASSUME NEW f \in list.fetches, ReadList(f) \/ ShowList(f) \/ ListFails(f)
      PROVE  StackInv'
  BY <1>1, <1>13 DEF ReadList, ShowList, ListFails, serverVars
<1>14. ASSUME NEW p \in Patches, ListPatchEnds(p) \/ ConfirmListCancel(p)
      PROVE  StackInv'
  BY <1>1, <1>14 DEF ListPatchEnds, PatchSucceeds, PatchFails, ConfirmListCancel, SendPatch
<1>15. CASE TapListCancel \/ DismissListCancel \/ CancelAnother \/ AnotherEnds
  BY <1>1, <1>15 DEF TapListCancel, DismissListCancel, CancelAnother, AnotherEnds, serverVars
<1> QED
  BY <1>3, <1>4, <1>5, <1>6, <1>7, <1>8, <1>9, <1>10, <1>11, <1>12, <1>13, <1>14, <1>15
  DEF ListNext, ListActs, ListProceeds

(* The first screen is the list, with its fetch in flight.                 *)
LEMMA ListInvInit == ListInit => ListInv
<1> SUFFICES ASSUME ListInit PROVE ListCopiesInv /\ StackInv
  BY ReviewInvInit DEF ListInv
<1>1. \E s \in Starts :
        /\ row = [status |-> s.status, version |-> 0]
        /\ patch = [p \in Patches |-> IF p \in s.patches THEN Nothing ELSE
                      [from |-> "dashboard", to |-> "confirmed", owned |-> TRUE, at |-> "settled"]]
  BY DEF ListInit, BookingServerInit
<1>2. /\ row \in [status : BookingStatuses, version : Nat]
      /\ patch \in [Patches -> Patch \cup {Nothing}]
  BY <1>1, BookingServerAssumption DEF Patch, Screens, BookingStatuses
<1>3. {Fetched("silent")} \in SUBSET Fetch /\ Fetched("silent").got = Nothing
  BY DEF Fetched, Fetch
<1>4. /\ list \in ListView /\ list.fetches = {Fetched("silent")} /\ list.alerts = 0
      /\ list.shown = Nothing
  BY <1>3 DEF ListInit, ListView
<1>5. ListCopiesInv
  BY <1>2, <1>3, <1>4, BookingServerAssumption DEF ListCopiesInv
<1>6. \A u \in Submissions : ~Submitting(u)
  BY DEF ListInit, BookingServerInit, Submitting
<1> QED BY <1>5, <1>6 DEF StackInv, ListInit, Stacks

(* ListInv, for any number of requests and submissions.                    *)
THEOREM ListInvariant == ListSpec => []ListInv
<1>1. ListInit => ListInv
  BY ListInvInit
<1>2. ListInv /\ [ListNext]_listVars => ListInv'
  BY ReviewInvStep, ListCopiesStep, StackInvStep DEF ListInv
<1> QED BY <1>1, <1>2, PTL DEF ListSpec

(* ListNeverGoesBack for any number of requests and confirmations: however *)
(* pulls, returns to the list, cancellations of this and another booking   *)
(* and the server's reads interleave, the list never shows an older copy   *)
(* after a newer one, nor offers a review again.                           *)
THEOREM ListGoesForward == ListSpec => ListNeverGoesBack
<1> DEFINE Ahead == list.shown # Nothing /\ list'.shown # Nothing
                      => /\ list'.shown.version >= list.shown.version
                         /\ list.shown.reviewed => list'.shown.reviewed
<1>1. ASSUME ListInv, [ListNext]_listVars, list.shown # Nothing, list'.shown # Nothing
      PROVE  /\ list'.shown.version >= list.shown.version
             /\ list.shown.reviewed => list'.shown.reviewed
  <2>1. ListCopiesInv /\ ListCopiesInv' /\ Older(list.shown, list'.shown)
    BY <1>1, ListCopiesStep DEF ListInv, ListForward
  <2>2. list.shown.version \in Nat /\ list'.shown.version \in Nat
    BY <1>1, <2>1 DEF ListCopiesInv, Past, Copy
  <2> QED BY <2>1, <2>2 DEF Older
<1>2. ListInv /\ [ListNext]_listVars => [Ahead]_listVars
  BY <1>1
<1> QED BY <1>2, ListInvariant, PTL DEF ListSpec, ListNeverGoesBack

-----------------------------------------------------------------------------
(* The details never go back.                                              *)

(* What the screen shows next to what it showed.                           *)
Forward ==
  detail.shown # Nothing /\ detail'.shown # Nothing => detail'.shown.version >= detail.shown.version

(* A fetch that takes the place of the others starts with nothing.         *)
LEMMA FetchAnew ==
  ASSUME CopiesInv, NEW d, d \in DetailView, NEW kind \in {"loud", "poll"}, UNCHANGED row,
         patch' \in [Patches -> Patch \cup {Nothing}],
         d.shown = Nothing \/ (d.shown \in Copy /\ d.shown.version <= row.version),
         detail' = WithFetch(d, kind)
  PROVE  CopiesInv' /\ detail'.shown = d.shown
<1>1. Fetched(kind).got = Nothing /\ Fetched(kind) \in Fetch
  BY DEF Fetched, Fetch
<1>2. detail'.fetches = {Fetched(kind)} /\ detail'.shown = d.shown /\ detail' \in DetailView
  <2> DEFINE waits == (\A f \in d.fetches : f.kind # "loud") /\ (kind = "loud" \/ d.loading)
  <2>1. waits \in BOOLEAN
    OBVIOUS
  <2>2. detail' = [d EXCEPT !.fetches = {Fetched(kind)}, !.loading = waits]
    BY DEF WithFetch, Replacing
  <2> DEFINE new == {Fetched(kind)}
  <2>3. new \in SUBSET Fetch
    BY <1>1
  <2> HIDE DEF waits, new
  <2>4. detail' = [d EXCEPT !.fetches = new, !.loading = waits]
    BY <2>2 DEF new
  <2>5. detail'.fetches = new /\ detail'.shown = d.shown /\ detail' \in DetailView
    BY <2>1, <2>3, <2>4 DEF DetailView
  <2> QED BY <2>5 DEF new
<1> QED BY <1>1, <1>2 DEF CopiesInv, Newer, DetailView

(* Nothing of the screen but its flags changes.                            *)
LEMMA SameCopies ==
  ASSUME CopiesInv, UNCHANGED row, patch' \in [Patches -> Patch \cup {Nothing}],
         detail' \in DetailView, detail'.shown = detail.shown, detail'.fetches = detail.fetches
  PROVE  CopiesInv' /\ Forward
BY DEF CopiesInv, Newer, Forward, Copy

(* The server decides on a patch, writes it, or handles a review.          *)
LEMMA DetailHandled ==
  ASSUME CopiesInv, Handles, UNCHANGED detail
  PROVE  CopiesInv' /\ Forward
<1>1. ASSUME NEW p \in Patches, patch[p] # Nothing, DecidePatch(p)
      PROVE  CopiesInv' /\ Forward
  <2>1. /\ UNCHANGED row
        /\ \E at \in {"sent", "allowed", "done", "refused", "settled"} : MoveTo(p, at)
    BY <1>1 DEF DecidePatch
  <2>2. patch' \in [Patches -> Patch \cup {Nothing}]
    BY <1>1, <2>1, PatchMoves DEF CopiesInv
  <2> QED BY <2>1, <2>2, SameCopies DEF CopiesInv
<1>2. ASSUME NEW p \in Patches, patch[p] # Nothing, WritePatch(p)
      PROVE  CopiesInv' /\ Forward
  <2>1. patch[p] \in Patch /\ row \in [status : BookingStatuses, version : Nat]
    BY <1>2 DEF CopiesInv
  <2>2. row' = [status |-> patch[p].to, version |-> row.version + 1] /\ MoveTo(p, "done")
    BY <1>2 DEF WritePatch
  <2>3. patch' \in [Patches -> Patch \cup {Nothing}]
    BY <1>2, <2>2, PatchMoves DEF CopiesInv
  <2>4. /\ row' \in [status : BookingStatuses, version : Nat]
        /\ row'.version = row.version + 1 /\ row.version \in Nat
    BY <2>1, <2>2 DEF Patch
  <2>5. \A c \in Copy : c.version <= row.version => c.version <= row'.version
    BY <2>4 DEF Copy
  <2>6. \A f \in detail.fetches : Newer(f, detail)'
    BY <2>5 DEF CopiesInv, Newer
  <2> QED BY <2>3, <2>4, <2>5, <2>6 DEF CopiesInv, Forward, Copy
<1>3. ASSUME NEW u \in Submissions, CheckCompleted(u) \/ CheckUnreviewed(u) \/ InsertReview(u)
      PROVE  CopiesInv' /\ Forward
  <2>1. UNCHANGED <<row, patch>>
    BY <1>3 DEF CheckCompleted, CheckUnreviewed, InsertReview
  <2> QED BY <2>1, SameCopies DEF CopiesInv
<1> QED BY <1>1, <1>2, <1>3 DEF Handles

(* A fetch is read, shown or fails.                                        *)
LEMMA DetailFetched ==
  ASSUME CopiesInv, NEW f \in detail.fetches, ReadDetail(f) \/ ShowDetail(f) \/ DetailFails(f)
  PROVE  CopiesInv' /\ Forward
<1>1. /\ row \in [status : BookingStatuses, version : Nat] /\ detail \in DetailView
      /\ detail.fetches = {f} /\ f \in Fetch /\ Newer(f, detail)
  BY DEF CopiesInv, DetailView
<1>2. CASE ReadDetail(f)
  <2> DEFINE g == [f EXCEPT !.got = CopyOfRow(FALSE)]
  <2>1. UNCHANGED <<row, patch>> /\ detail' = [detail EXCEPT !.fetches = {g}]
    BY <1>1, <1>2 DEF ReadDetail, serverVars
  <2>2. CopyOfRow(FALSE) \in Copy /\ CopyOfRow(FALSE).version = row.version
    BY <1>1 DEF CopyOfRow, Copy
  <2>3. g \in Fetch /\ g.got = CopyOfRow(FALSE)
    BY <1>1, <2>2 DEF Fetch
  <2>4. detail' \in DetailView /\ detail'.shown = detail.shown /\ detail'.fetches = {g}
    BY <1>1, <2>1, <2>3 DEF DetailView
  <2> HIDE DEF g
  <2>5. \A h \in detail'.fetches : Newer(h, detail)'
    <3>1. detail.shown = Nothing \/ (detail.shown \in Copy /\ detail.shown.version <= row.version)
      BY DEF CopiesInv
    <3>2. row'.version = row.version /\ row.version \in Nat
      BY <1>1, <2>1
    <3>3. ASSUME NEW h \in detail'.fetches
          PROVE  Newer(h, detail)'
      <4>1. PICK c \in Copy : c.version = row.version /\ h.got = c
        BY <2>2, <2>3, <2>4
      <4>2. h.got \in Copy /\ h.got.version = row.version
        BY <4>1
      <4> QED BY <2>4, <3>1, <3>2, <4>2 DEF Newer
    <3> QED BY <3>3
  <2> QED BY <2>1, <2>3, <2>4, <2>5 DEF CopiesInv, Forward, Copy
<1>3. CASE ShowDetail(f)
  <2> DEFINE d == [detail EXCEPT !.shown = f.got, !.fetches = @ \ {f},
                                 !.loading = @ /\ f.kind # "loud"]
  <2>1. /\ UNCHANGED <<row, patch>> /\ f.got # Nothing
        /\ detail' = d \/ detail' = WithFetch(d, "loud")
    BY <1>3 DEF ShowDetail, serverVars, Unread
  <2>2. f.got \in Copy /\ f.got.version <= row.version
    BY <1>1, <2>1 DEF Newer
  <2>3. d \in DetailView /\ d.shown = f.got /\ d.fetches = {}
    BY <1>1, <2>2 DEF DetailView
  <2>4. CopiesInv' /\ detail'.shown = f.got
    <3>1. CASE detail' = d
      BY <2>1, <2>2, <2>3, <3>1 DEF CopiesInv
    <3>2. CASE detail' = WithFetch(d, "loud")
      <4>1. patch' \in [Patches -> Patch \cup {Nothing}]
        BY <2>1 DEF CopiesInv
      <4> HIDE DEF d
      <4> QED BY <2>1, <2>2, <2>3, <3>2, <4>1, FetchAnew
    <3> QED BY <2>1, <3>1, <3>2
  <2>5. Forward
    BY <1>1, <2>1, <2>4 DEF Newer, Forward
  <2> QED BY <2>4, <2>5
<1>4. CASE DetailFails(f)
  <2>1. /\ UNCHANGED <<row, patch>>
        /\ detail' = [detail EXCEPT !.fetches = @ \ {f}, !.loading = LoadingAfter(f)]
    BY <1>4 DEF DetailFails
  <2>2. detail' \in DetailView /\ detail'.shown = detail.shown /\ detail'.fetches = {}
    BY <1>1, <2>1 DEF DetailView, LoadingAfter
  <2> QED BY <2>1, <2>2 DEF CopiesInv, Forward, Copy
<1> QED BY <1>2, <1>3, <1>4

(* The screen opens, leaves, polls, cancels and learns of a cancellation.  *)
LEMMA DetailDevice ==
  ASSUME CopiesInv,
         \/ Mount \/ Unmount \/ Poll \/ TapCancel \/ DismissCancel
         \/ \E p \in Patches : DetailPatchEnds(p) \/ ConfirmCancel(p)
         \/ Elsewhere(Screens \ {"details"}) /\ UNCHANGED detail
  PROVE  CopiesInv' /\ Forward
<1>0. /\ detail \in DetailView /\ patch \in [Patches -> Patch \cup {Nothing}]
      /\ detail.alerts \in Nat /\ detail.stray \in Nat
      /\ detail.shown = Nothing
           \/ (detail.shown \in Copy /\ detail.shown.version <= row.version)
  BY DEF CopiesInv, DetailView
<1>1. CASE Mount
  <2> DEFINE d == [detail EXCEPT !.mounted = TRUE]
  <2>1. UNCHANGED <<row, patch>> /\ detail' = WithFetch(d, "loud")
    BY <1>1 DEF Mount, serverVars
  <2>2. d \in DetailView /\ d.shown = detail.shown
    BY <1>0 DEF DetailView
  <2> HIDE DEF d
  <2>3. CopiesInv' /\ detail'.shown = detail.shown
    BY <1>0, <2>1, <2>2, FetchAnew
  <2> QED BY <1>0, <2>3 DEF Forward, CopiesInv, Copy
<1>2. CASE Unmount
  <2>1. /\ detail' = [Unmounted EXCEPT !.stray = detail.stray + detail.alerts]
        /\ UNCHANGED row /\ (patch' = Left("details"))
    BY <1>2 DEF Unmount, Unmounts, Leave, ReviewSucceeds
  <2>2. patch' \in [Patches -> Patch \cup {Nothing}]
    BY <1>0, <2>1, PatchesLeft DEF Screens
  <2>3. detail' \in DetailView /\ detail'.shown = Nothing /\ detail'.fetches = {}
    <3> DEFINE n == detail.stray + detail.alerts
    <3>1. n \in Nat
      BY <1>0
    <3>2. detail' = [Unmounted EXCEPT !.stray = n]
      BY <2>1
    <3> HIDE DEF n
    <3> QED BY <3>1, <3>2 DEF Unmounted, DetailView
  <2> QED BY <2>1, <2>2, <2>3 DEF CopiesInv, Forward
<1>3. CASE Poll
  <2>1. UNCHANGED <<row, patch>> /\ detail' = WithFetch(detail, "poll")
    BY <1>3 DEF Poll, serverVars
  <2>2. CopiesInv' /\ detail'.shown = detail.shown
    BY <1>0, <2>1, FetchAnew
  <2> QED BY <1>0, <2>2 DEF Forward, CopiesInv, Copy
<1>4. ASSUME NEW p \in Patches, PatchSucceeds(p),
             detail' = IF ~patch[p].owned THEN detail
                       ELSE WithFetch([detail EXCEPT !.cancelling = FALSE], "loud")
      PROVE  CopiesInv' /\ Forward
  <2> DEFINE d == [detail EXCEPT !.cancelling = FALSE]
  <2>1. UNCHANGED row /\ patch' \in [Patches -> Patch \cup {Nothing}]
    BY <1>4, <1>0, PatchMoves DEF PatchSucceeds
  <2>2. d \in DetailView /\ d.shown = detail.shown
    BY <1>0 DEF DetailView
  <2>3. CASE detail' = detail
    BY <1>0, <2>1, <2>3, SameCopies
  <2>4. CASE detail' = WithFetch(d, "loud")
    <3> HIDE DEF d
    <3>1. CopiesInv' /\ detail'.shown = detail.shown
      BY <1>0, <2>1, <2>2, <2>4, FetchAnew
    <3> QED BY <1>0, <3>1 DEF Forward, CopiesInv, Copy
  <2> QED BY <1>4, <2>3, <2>4
<1>5. ASSUME NEW p \in Patches, PatchFails(p),
             detail' = [detail EXCEPT !.cancelling = @ /\ ~patch[p].owned]
      PROVE  CopiesInv' /\ Forward
  <2>1. UNCHANGED row /\ patch' \in [Patches -> Patch \cup {Nothing}]
    BY <1>5, <1>0, PatchMoves DEF PatchFails
  <2>2. detail' \in DetailView /\ detail'.shown = detail.shown /\ detail'.fetches = detail.fetches
    BY <1>0, <1>5 DEF DetailView
  <2> QED BY <2>1, <2>2, SameCopies
<1>6. CASE TapCancel \/ DismissCancel
  <2>1. PICK a \in Nat, b \in Nat : detail' = [detail EXCEPT !.alerts = a, !.stray = b]
    <3>1. CASE TapCancel
      <4>1. detail' = [detail EXCEPT !.alerts = detail.alerts + 1, !.stray = detail.stray]
        BY <1>0, <3>1 DEF TapCancel, DetailView
      <4>2. detail.alerts + 1 \in Nat
        BY <1>0
      <4> QED BY <1>0, <4>1, <4>2
    <3>2. CASE detail.alerts > 0 /\ detail' = [detail EXCEPT !.alerts = @ - 1]
      <4>1. detail' = [detail EXCEPT !.alerts = detail.alerts - 1, !.stray = detail.stray]
        BY <1>0, <3>2 DEF DetailView
      <4>2. detail.alerts - 1 \in Nat
        BY <1>0, <3>2
      <4> QED BY <1>0, <4>1, <4>2
    <3>3. CASE detail.stray > 0 /\ detail' = [detail EXCEPT !.stray = @ - 1]
      <4>1. detail' = [detail EXCEPT !.alerts = detail.alerts, !.stray = detail.stray - 1]
        BY <1>0, <3>3 DEF DetailView
      <4>2. detail.stray - 1 \in Nat
        BY <1>0, <3>3
      <4> QED BY <1>0, <4>1, <4>2
    <3> QED BY <1>6, <3>1, <3>2, <3>3 DEF DismissCancel
  <2>2. UNCHANGED <<row, patch>>
    BY <1>6 DEF TapCancel, DismissCancel, serverVars
  <2>3. detail' \in DetailView /\ detail'.shown = detail.shown /\ detail'.fetches = detail.fetches
    BY <1>0, <2>1 DEF DetailView
  <2> QED BY <1>0, <2>2, <2>3, SameCopies
<1>7. ASSUME NEW p \in Patches, ConfirmCancel(p)
      PROVE  CopiesInv' /\ Forward
  <2>1. \E owned \in BOOLEAN : SendPatch(p, "details", "cancelled", owned)
    BY <1>7 DEF ConfirmCancel
  <2>2. UNCHANGED row /\ patch' \in [Patches -> Patch \cup {Nothing}]
    BY <1>0, <2>1, PatchSent DEF BookingStatuses, Screens
  <2>3. detail' \in DetailView /\ detail'.shown = detail.shown /\ detail'.fetches = detail.fetches
    <3>1. CASE detail.alerts > 0 /\ detail' = [detail EXCEPT !.alerts = @ - 1, !.cancelling = TRUE]
      <4>1. detail.alerts - 1 \in Nat
        BY <1>0, <3>1
      <4> QED BY <1>0, <3>1, <4>1 DEF DetailView
    <3>2. CASE detail.stray > 0 /\ detail' = [detail EXCEPT !.stray = @ - 1]
      <4>1. detail.stray - 1 \in Nat
        BY <1>0, <3>2
      <4> QED BY <1>0, <3>2, <4>1 DEF DetailView
    <3> QED BY <1>7, <3>1, <3>2 DEF ConfirmCancel
  <2> QED BY <2>2, <2>3, SameCopies
<1>8. CASE Elsewhere(Screens \ {"details"}) /\ UNCHANGED detail
  BY <1>0, <1>8, ElsewhereKeeps, SameCopies
<1> QED BY <1>1, <1>2, <1>3, <1>4, <1>5, <1>6, <1>7, <1>8 DEF DetailPatchEnds

(* The screen is not open yet.                                             *)
LEMMA CopiesInvInit == DetailInit => CopiesInv
<1> SUFFICES ASSUME DetailInit PROVE CopiesInv
  OBVIOUS
<1>1. PICK s \in Starts :
        /\ row = [status |-> s.status, version |-> 0]
        /\ patch = [p \in Patches |-> IF p \in s.patches THEN Nothing ELSE
                      [from |-> "dashboard", to |-> "confirmed", owned |-> TRUE, at |-> "settled"]]
  BY DEF DetailInit, BookingServerInit
<1>2. s.status \in BookingStatuses
  BY BookingServerAssumption
<1>3. /\ row \in [status : BookingStatuses, version : Nat]
      /\ patch \in [Patches -> Patch \cup {Nothing}]
  BY <1>1, <1>2 DEF Patch, Screens, BookingStatuses
<1>4. detail = Unmounted
  BY DEF DetailInit
<1> QED BY <1>3, <1>4 DEF CopiesInv, Unmounted, DetailView

(* Every step of the details keeps the invariant and goes forward.         *)
LEMMA CopiesInvStep ==
  ASSUME CopiesInv, [DetailNext]_detailVars
  PROVE  CopiesInv' /\ Forward
<1>1. CASE UNCHANGED detailVars
  BY <1>1, SameCopies DEF detailVars, serverVars, CopiesInv
<1>2. CASE DetailNext
  BY <1>2, DetailHandled, DetailFetched, DetailDevice DEF DetailNext, DetailActs, DetailProceeds
<1> QED BY <1>1, <1>2

(* DetailNeverGoesBack for any number of requests and fetches: however     *)
(* polls, refreshes and the server's reads interleave, the details never   *)
(* show an older copy after a newer one.                                   *)
THEOREM DetailsGoForward == DetailSpec => DetailNeverGoesBack
<1> DEFINE Ahead == Holds(detail.shown, BookingStatuses) /\ Holds(detail'.shown, BookingStatuses)
                      => detail'.shown.version >= detail.shown.version
<1>1. CopiesInv /\ [DetailNext]_detailVars => CopiesInv'
  BY CopiesInvStep
<1>2. CopiesInv /\ [DetailNext]_detailVars => [Ahead]_detailVars
  BY CopiesInvStep DEF Forward, Holds
<1> QED BY <1>1, <1>2, CopiesInvInit, PTL DEF DetailSpec, DetailNeverGoesBack

-----------------------------------------------------------------------------
(* What the details await.                                                 *)

(* A loud fetch keeps the spinner turning, a poll stops it.                *)
LEMMA SpinnerOfFetch ==
  ASSUME NEW d \in DetailView, NEW kind \in {"loud", "poll"},
         d.loading => \E f \in d.fetches : f.kind = "loud",
         detail' = WithFetch(d, kind)
  PROVE  /\ detail'.loading => \E f \in detail'.fetches : f.kind = "loud"
         /\ detail'.cancelling = d.cancelling
         /\ detail'.mounted = d.mounted
         /\ detail'.alerts = d.alerts /\ detail'.stray = d.stray
<1> DEFINE waits == (\A f \in d.fetches : f.kind # "loud") /\ (kind = "loud" \/ d.loading)
<1>1. /\ detail'.loading = waits /\ detail'.fetches = {Fetched(kind)}
      /\ detail'.cancelling = d.cancelling /\ detail'.mounted = d.mounted
      /\ detail'.alerts = d.alerts /\ detail'.stray = d.stray
  BY DEF WithFetch, Replacing, DetailView
<1>2. waits => kind = "loud"
  OBVIOUS
<1>3. Fetched(kind).kind = kind
  BY DEF Fetched
<1> QED BY <1>1, <1>2, <1>3

(* A step of one request leaves what is awaited of the others, and one     *)
(* that is settled or given up is awaited no more.                         *)
LEMMA OneAwaited ==
  ASSUME patch \in [Patches -> Patch \cup {Nothing}], NEW p \in Patches, patch[p] # Nothing,
         \/ /\ patch[p].at # "settled"
            /\ \E at \in {"sent", "allowed", "done", "refused", "settled"} : MoveTo(p, at)
         \/ patch' = [patch EXCEPT ![p].owned = FALSE]
  PROVE  /\ \A q \in Patches \ {p} : Outstanding(q)' <=> Outstanding(q)
         /\ Outstanding(p)' => Outstanding(p)
         /\ patch'[p].at = "settled" \/ ~patch'[p].owned => ~Outstanding(p)'
<1>1. patch[p] \in Patch
  OBVIOUS
<1>2. \A q \in Patches \ {p} : patch'[q] = patch[q]
  BY <1>1 DEF MoveTo
<1>3. Outstanding(p)' => Outstanding(p)
  BY <1>1 DEF MoveTo, Outstanding, Patch
<1>4. \A q \in Patches \ {p} : Outstanding(q)' <=> Outstanding(q)
  BY <1>2 DEF Outstanding
<1> QED BY <1>3, <1>4 DEF Outstanding

(* What is awaited stays so, and the flags follow it.                      *)
LEMMA AwaitingFrame ==
  ASSUME AwaitingInv, \A p \in Patches : Outstanding(p)' <=> Outstanding(p),
         detail'.cancelling = detail.cancelling, detail'.mounted = detail.mounted,
         detail'.alerts + detail'.stray <= MaxAlerts,
         detail'.loading => \E f \in detail'.fetches : f.kind = "loud",
         ~detail'.mounted => detail' = [Unmounted EXCEPT !.stray = detail'.stray]
  PROVE  AwaitingInv'
BY DEF AwaitingInv

(* Every step of the details.                                              *)
LEMMA AwaitingInvStep ==
  ASSUME DetailInv, [DetailNext]_detailVars
  PROVE  AwaitingInv'
<1>a. /\ CopiesInv /\ AwaitingInv /\ detail \in DetailView
      /\ patch \in [Patches -> Patch \cup {Nothing}]
      /\ detail.loading => \E f \in detail.fetches : f.kind = "loud"
      /\ ~detail.mounted => detail = [Unmounted EXCEPT !.stray = detail.stray]
      /\ detail.cancelling => \E p \in Patches : Outstanding(p)
      /\ \A p \in Patches : Outstanding(p) => detail.mounted
      /\ \A f, g \in detail.fetches : f = g
  BY DEF DetailInv, CopiesInv, AwaitingInv
<1>b. UNCHANGED patch => \A p \in Patches : Outstanding(p)' <=> Outstanding(p)
  BY DEF Outstanding
<1>c. ~detail.mounted => /\ detail.fetches = {} /\ ~detail.cancelling /\ detail.shown = Nothing
                         /\ ~detail.loading /\ detail.alerts = 0
  BY <1>a DEF Unmounted
<1>d. /\ detail.alerts \in Nat /\ detail.stray \in Nat /\ MaxAlerts \in Nat
      /\ detail.alerts + detail.stray <= MaxAlerts
  BY <1>a, BookingServerAssumption DEF DetailView, AwaitingInv
<1>1. CASE UNCHANGED detailVars
  BY <1>a, <1>b, <1>d, <1>1, AwaitingFrame DEF detailVars, serverVars
<1>2. CASE Mount
  <2> DEFINE d == [detail EXCEPT !.mounted = TRUE]
  <2>1. UNCHANGED patch /\ detail' = WithFetch(d, "loud") /\ ~detail.mounted
    BY <1>2 DEF Mount, serverVars
  <2>2. /\ d \in DetailView /\ ~d.loading /\ ~d.cancelling /\ d.mounted
        /\ d.alerts = detail.alerts /\ d.stray = detail.stray
    BY <1>a, <1>c, <2>1 DEF DetailView
  <2> HIDE DEF d
  <2>3. /\ detail'.loading => \E f \in detail'.fetches : f.kind = "loud"
        /\ detail'.mounted /\ ~detail'.cancelling
        /\ detail'.alerts = detail.alerts /\ detail'.stray = detail.stray
    BY <2>1, <2>2, SpinnerOfFetch
  <2> QED BY <1>d, <2>3 DEF AwaitingInv
<1>3. CASE Unmount
  <2>1. /\ detail' = [Unmounted EXCEPT !.stray = detail.stray + detail.alerts]
        /\ patch' = Left("details")
    BY <1>3 DEF Unmount, Unmounts, Leave, ReviewSucceeds
  <2>2. \A p \in Patches : ~Outstanding(p)'
    BY <2>1, <1>a, PatchesLeft DEF Outstanding, Screens
  <2>3. /\ detail'.stray = detail.stray + detail.alerts /\ detail'.alerts = 0
        /\ ~detail'.mounted /\ ~detail'.loading /\ ~detail'.cancelling
    BY <2>1 DEF Unmounted
  <2>4. detail' = [Unmounted EXCEPT !.stray = detail'.stray]
    BY <2>1, <2>3
  <2>5. detail'.alerts + detail'.stray <= MaxAlerts
    BY <1>d, <2>3
  <2> QED BY <2>2, <2>3, <2>4, <2>5 DEF AwaitingInv
<1>4. CASE Poll
  <2>1. UNCHANGED patch /\ detail' = WithFetch(detail, "poll") /\ detail.shown # Nothing
    BY <1>4 DEF Poll, serverVars, Holds
  <2>2. /\ detail'.loading => \E f \in detail'.fetches : f.kind = "loud"
        /\ detail'.cancelling = detail.cancelling /\ detail'.mounted = detail.mounted
        /\ detail'.alerts = detail.alerts /\ detail'.stray = detail.stray
    BY <2>1, <1>a, SpinnerOfFetch
  <2> QED BY <1>a, <1>b, <1>c, <1>d, <2>1, <2>2, AwaitingFrame
<1>5. ASSUME NEW f \in detail.fetches, ReadDetail(f)
      PROVE  AwaitingInv'
  <2> DEFINE g == [f EXCEPT !.got = CopyOfRow(FALSE)]
  <2>1. UNCHANGED patch /\ detail' = [detail EXCEPT !.fetches = (@ \ {f}) \cup {g}]
    BY <1>5 DEF ReadDetail, serverVars
  <2>2. g.kind = f.kind
    BY <1>a DEF Fetch, DetailView
  <2> HIDE DEF g
  <2>3. /\ g \in detail'.fetches /\ detail'.loading = detail.loading
        /\ detail'.cancelling = detail.cancelling /\ detail'.mounted = detail.mounted
        /\ detail'.alerts = detail.alerts /\ detail'.stray = detail.stray
    BY <2>1, <1>a DEF DetailView
  <2>4. detail.loading => f.kind = "loud"
    BY <1>a, <1>5
  <2> QED BY <1>a, <1>b, <1>c, <1>d, <1>5, <2>1, <2>2, <2>3, <2>4, AwaitingFrame
<1>6. ASSUME NEW f \in detail.fetches, ShowDetail(f)
      PROVE  AwaitingInv'
  <2> DEFINE d == [detail EXCEPT !.shown = f.got, !.fetches = @ \ {f},
                                 !.loading = @ /\ f.kind # "loud"]
  <2>1. UNCHANGED patch /\ (detail' = d \/ detail' = WithFetch(d, "loud"))
        /\ f.got # Nothing
    BY <1>6 DEF ShowDetail, serverVars, Unread
  <2>2. detail.loading => f.kind = "loud"
    BY <1>a, <1>6
  <2>3. d \in DetailView /\ ~d.loading /\ d.cancelling = detail.cancelling
        /\ d.mounted = detail.mounted /\ d.alerts = detail.alerts /\ d.stray = detail.stray
    BY <1>a, <1>6, <2>1, <2>2 DEF DetailView, Fetch
  <2> HIDE DEF d
  <2>4. /\ detail'.loading => \E h \in detail'.fetches : h.kind = "loud"
        /\ detail'.cancelling = detail.cancelling /\ detail'.mounted = detail.mounted
        /\ detail'.alerts = detail.alerts /\ detail'.stray = detail.stray
    BY <2>1, <2>3, SpinnerOfFetch
  <2> QED BY <1>a, <1>b, <1>c, <1>d, <1>6, <2>1, <2>4, AwaitingFrame
<1>7. ASSUME NEW f \in detail.fetches, DetailFails(f)
      PROVE  AwaitingInv'
  <2>1. UNCHANGED patch
        /\ detail' = [detail EXCEPT !.fetches = @ \ {f}, !.loading = LoadingAfter(f)]
    BY <1>7 DEF DetailFails
  <2>2. detail.loading => f.kind = "loud"
    BY <1>a, <1>7
  <2>3. ~detail'.loading /\ detail'.cancelling = detail.cancelling
        /\ detail'.mounted = detail.mounted
        /\ detail'.alerts = detail.alerts /\ detail'.stray = detail.stray
    BY <1>a, <2>1, <2>2 DEF DetailView, LoadingAfter
  <2> QED BY <1>a, <1>b, <1>c, <1>d, <1>7, <2>1, <2>3, AwaitingFrame
<1>8. ASSUME NEW p \in Patches, ConfirmCancel(p)
      PROVE  AwaitingInv'
  <2>1. PICK owned \in BOOLEAN :
          /\ SendPatch(p, "details", "cancelled", owned)
          /\ \/ /\ owned /\ detail.alerts > 0
                /\ detail' = [detail EXCEPT !.alerts = @ - 1, !.cancelling = TRUE]
             \/ /\ ~owned /\ detail.stray > 0
                /\ detail' = [detail EXCEPT !.stray = @ - 1]
    BY <1>8 DEF ConfirmCancel
  <2>2. /\ patch[p] = Nothing /\ patch'[p] # Nothing
        /\ patch'[p].from = "details" /\ patch'[p].owned = owned /\ patch'[p].at = "sent"
        /\ \A q \in Patches \ {p} : patch'[q] = patch[q]
    BY <1>a, <2>1, PatchSent DEF BookingStatuses, Screens
  <2>3. /\ ~Outstanding(p) /\ (Outstanding(p)' <=> owned)
        /\ \A q \in Patches \ {p} : Outstanding(q)' <=> Outstanding(q)
    BY <2>2 DEF Outstanding
  <2>4. CASE /\ owned /\ detail.alerts > 0
             /\ detail' = [detail EXCEPT !.alerts = @ - 1, !.cancelling = TRUE]
    <3>1. detail.mounted
      BY <1>c, <2>4
    <3>2. /\ detail'.alerts = detail.alerts - 1 /\ detail'.stray = detail.stray
          /\ detail'.cancelling /\ detail'.loading = detail.loading
          /\ detail'.fetches = detail.fetches /\ detail'.mounted
      BY <1>a, <2>4, <3>1 DEF DetailView
    <3>3. detail'.alerts + detail'.stray <= MaxAlerts
      BY <1>d, <3>2
    <3> QED BY <1>a, <2>3, <2>4, <3>2, <3>3 DEF AwaitingInv
  <2>5. CASE ~owned /\ detail.stray > 0 /\ detail' = [detail EXCEPT !.stray = @ - 1]
    <3>1. /\ detail'.alerts = detail.alerts /\ detail'.stray = detail.stray - 1
          /\ detail'.cancelling = detail.cancelling /\ detail'.loading = detail.loading
          /\ detail'.fetches = detail.fetches /\ detail'.mounted = detail.mounted
      BY <1>a, <2>5 DEF DetailView
    <3>2. detail'.alerts + detail'.stray <= MaxAlerts
      BY <1>d, <3>1
    <3>3. ~detail'.mounted => detail' = [Unmounted EXCEPT !.stray = detail'.stray]
      BY <1>a, <2>5, <3>1 DEF Unmounted
    <3>4. \A q \in Patches : Outstanding(q)' <=> Outstanding(q)
      BY <2>3, <2>5
    <3> QED BY <1>a, <3>1, <3>2, <3>3, <3>4, AwaitingFrame
  <2> QED BY <2>1, <2>4, <2>5
<1>9. ASSUME NEW p \in Patches, patch[p].from = "details", PatchSucceeds(p),
             detail' = IF ~patch[p].owned THEN detail
                       ELSE WithFetch([detail EXCEPT !.cancelling = FALSE], "loud")
      PROVE  AwaitingInv'
  <2>1. /\ patch[p] # Nothing /\ patch[p].at = "done" /\ MoveTo(p, "settled")
        /\ patch[p] \in Patch
    BY <1>9, <1>a DEF PatchSucceeds
  <2>2. /\ \A q \in Patches \ {p} : Outstanding(q)' <=> Outstanding(q)
        /\ Outstanding(p)' => Outstanding(p)
    BY <1>a, <2>1, OneAwaited
  <2>4. CASE ~patch[p].owned
    <3>1. detail' = detail /\ \A q \in Patches : Outstanding(q)' <=> Outstanding(q)
      BY <1>9, <2>2, <2>4 DEF Outstanding
    <3> QED BY <1>a, <1>d, <3>1, AwaitingFrame
  <2>5. CASE patch[p].owned
    <3> DEFINE d == [detail EXCEPT !.cancelling = FALSE]
    <3>1. detail' = WithFetch(d, "loud")
      BY <1>9, <2>5
    <3>2. Outstanding(p) /\ detail.mounted
      BY <1>9, <1>a, <2>1, <2>5 DEF Outstanding
    <3>3. /\ d \in DetailView /\ d.mounted /\ ~d.cancelling
          /\ d.alerts = detail.alerts /\ d.stray = detail.stray
          /\ d.loading => \E f \in d.fetches : f.kind = "loud"
      BY <1>a, <3>2 DEF DetailView
    <3> HIDE DEF d
    <3>4. /\ detail'.loading => \E f \in detail'.fetches : f.kind = "loud"
          /\ detail'.mounted /\ ~detail'.cancelling
          /\ detail'.alerts = detail.alerts /\ detail'.stray = detail.stray
      BY <3>1, <3>3, SpinnerOfFetch
    <3> QED BY <1>d, <3>4 DEF AwaitingInv
  <2> QED BY <2>4, <2>5
<1>10. ASSUME NEW p \in Patches, patch[p].from = "details", PatchFails(p),
              detail' = [detail EXCEPT !.cancelling = @ /\ ~patch[p].owned]
       PROVE  AwaitingInv'
  <2>1. patch[p] # Nothing /\ patch[p] \in Patch /\ patch[p].at # "settled"
        /\ (MoveTo(p, "settled") \/ patch' = [patch EXCEPT ![p].owned = FALSE])
    BY <1>10, <1>a DEF PatchFails
  <2>2. /\ \A q \in Patches \ {p} : Outstanding(q)' <=> Outstanding(q)
        /\ Outstanding(p)' => Outstanding(p)
    BY <1>a, <2>1, OneAwaited
  <2>3. /\ detail'.loading = detail.loading /\ detail'.fetches = detail.fetches
        /\ detail'.mounted = detail.mounted
        /\ detail'.alerts = detail.alerts /\ detail'.stray = detail.stray
        /\ detail'.cancelling = (detail.cancelling /\ ~patch[p].owned)
    BY <1>10, <1>a DEF DetailView
  <2>5. CASE ~patch[p].owned
    <3>1. detail' = detail
      BY <1>10, <1>a, <2>5 DEF DetailView
    <3>2. \A q \in Patches : Outstanding(q)' <=> Outstanding(q)
      BY <2>2, <2>5 DEF Outstanding
    <3> QED BY <1>a, <1>d, <3>1, <3>2, AwaitingFrame
  <2>6. CASE patch[p].owned
    <3>1. Outstanding(p) /\ detail.mounted
      BY <1>10, <1>a, <2>1, <2>6 DEF Outstanding
    <3> QED BY <1>a, <1>d, <2>3, <2>6, <3>1 DEF AwaitingInv
  <2> QED BY <2>5, <2>6
<1>11. CASE Elsewhere(Screens \ {"details"}) /\ UNCHANGED detail
  <2>1. \A q \in Patches : patch'[q] # patch[q] =>
          /\ patch'[q] # Nothing /\ patch'[q].from # "details"
          /\ patch[q] = Nothing \/ patch[q].from # "details"
    BY <1>a, <1>11, ElsewhereKeeps
  <2>2. \A q \in Patches : Outstanding(q)' <=> Outstanding(q)
    BY <2>1 DEF Outstanding
  <2> QED BY <1>a, <1>d, <1>11, <2>2, AwaitingFrame
<1>12. CASE Handles /\ UNCHANGED detail
  <2>1. ASSUME NEW p \in Patches, patch[p] # Nothing, DecidePatch(p) \/ WritePatch(p)
        PROVE  AwaitingInv'
    <3>1. PICK at \in {"allowed", "refused", "done"} :
            patch[p].at # "settled" /\ MoveTo(p, at)
      BY <2>1 DEF DecidePatch, WritePatch
    <3>2. \A q \in Patches \ {p} : Outstanding(q)' <=> Outstanding(q)
      BY <1>a, <2>1, <3>1, OneAwaited
    <3>3. Outstanding(p)' <=> Outstanding(p)
      <4>1. patch[p] \in Patch
        BY <1>a, <2>1
      <4>2. patch'[p] = [patch[p] EXCEPT !.at = at]
        BY <1>a, <3>1 DEF MoveTo
      <4>3. /\ patch'[p] \in Patch /\ patch'[p].at = at
            /\ patch'[p].from = patch[p].from /\ patch'[p].owned = patch[p].owned
        BY <4>1, <4>2 DEF Patch
      <4> QED BY <2>1, <3>1, <4>3, BookingServerAssumption DEF Outstanding
    <3> QED BY <1>a, <1>d, <1>12, <3>2, <3>3, AwaitingFrame
  <2>2. ASSUME NEW u \in Submissions,
               CheckCompleted(u) \/ CheckUnreviewed(u) \/ InsertReview(u)
        PROVE  AwaitingInv'
    <3>1. UNCHANGED patch
      BY <2>2 DEF CheckCompleted, CheckUnreviewed, InsertReview
    <3> QED BY <1>a, <1>b, <1>d, <1>12, <3>1, AwaitingFrame
  <2> QED BY <1>12, <2>1, <2>2 DEF Handles
<1>13. CASE TapCancel
  <2>1. /\ UNCHANGED patch /\ detail' = [detail EXCEPT !.alerts = @ + 1]
        /\ detail.alerts + detail.stray < MaxAlerts /\ detail.mounted
    BY <1>13, <1>c DEF TapCancel, DetailOffers, DetailShows, serverVars
  <2>2. /\ detail'.alerts = detail.alerts + 1 /\ detail'.stray = detail.stray
        /\ detail'.cancelling = detail.cancelling /\ detail'.loading = detail.loading
        /\ detail'.fetches = detail.fetches /\ detail'.mounted
    BY <1>a, <2>1 DEF DetailView
  <2>3. detail'.alerts + detail'.stray <= MaxAlerts
    BY <1>d, <2>1, <2>2
  <2> QED BY <1>a, <1>b, <2>1, <2>2, <2>3, AwaitingFrame
<1>14. CASE DismissCancel
  <2>1. /\ UNCHANGED patch
        /\ \/ detail.alerts > 0 /\ detail' = [detail EXCEPT !.alerts = @ - 1]
           \/ detail.stray > 0 /\ detail' = [detail EXCEPT !.stray = @ - 1]
    BY <1>14 DEF DismissCancel, serverVars
  <2>2. /\ detail'.cancelling = detail.cancelling /\ detail'.loading = detail.loading
        /\ detail'.fetches = detail.fetches /\ detail'.mounted = detail.mounted
    BY <1>a, <2>1 DEF DetailView
  <2>3. detail'.alerts + detail'.stray <= MaxAlerts
    BY <1>a, <1>d, <2>1 DEF DetailView
  <2>4. ~detail'.mounted => detail' = [Unmounted EXCEPT !.stray = detail'.stray]
    <3>1. ASSUME ~detail.mounted PROVE detail' = [Unmounted EXCEPT !.stray = detail'.stray]
      <4>1. detail' = [detail EXCEPT !.stray = @ - 1]
        BY <1>c, <1>d, <2>1, <3>1
      <4> QED BY <1>a, <3>1, <4>1 DEF Unmounted
    <3> QED BY <2>2, <3>1
  <2> QED BY <1>a, <1>b, <2>1, <2>2, <2>3, <2>4, AwaitingFrame
<1> QED
  BY <1>1, <1>2, <1>3, <1>4, <1>5, <1>6, <1>7, <1>8, <1>9, <1>10, <1>11, <1>12, <1>13, <1>14
  DEF DetailNext, DetailActs, DetailProceeds, DetailPatchEnds

(* Nothing is awaited yet.                                                 *)
LEMMA DetailInvInit == DetailInit => DetailInv
<1> SUFFICES ASSUME DetailInit PROVE AwaitingInv
  BY CopiesInvInit DEF DetailInv
<1>1. detail = Unmounted /\ \A p \in Patches : ~Outstanding(p)
  BY DEF DetailInit, BookingServerInit, Outstanding
<1>2. /\ ~detail.mounted /\ ~detail.loading /\ ~detail.cancelling
      /\ detail.alerts = 0 /\ detail.stray = 0
      /\ detail = [Unmounted EXCEPT !.stray = detail.stray]
  BY <1>1 DEF Unmounted
<1>3. detail.alerts + detail.stray <= MaxAlerts
  BY <1>2, BookingServerAssumption
<1> QED BY <1>1, <1>2, <1>3 DEF AwaitingInv

(* DetailInv, for any number of requests.                                  *)
THEOREM DetailInvariant == DetailSpec => []DetailInv
<1>1. DetailInit => DetailInv
  BY DetailInvInit
<1>2. DetailInv /\ [DetailNext]_detailVars => DetailInv'
  BY CopiesInvStep, AwaitingInvStep DEF DetailInv
<1> QED BY <1>1, <1>2, PTL DEF DetailSpec

(* DetailAwaits for any number of requests and confirmations: the spinner  *)
(* of the details turns only while a fetch is awaited, and their cancel    *)
(* button is shut only while a cancellation is.                            *)
THEOREM DetailsNeverWaitInVain == DetailSpec => []DetailAwaits
<1>1. DetailInv => DetailAwaits
  BY DEF DetailInv, AwaitingInv, DetailAwaits
<1> QED BY <1>1, DetailInvariant, PTL

-----------------------------------------------------------------------------
(* The owner's dashboard writes one status at a time.                      *)

MayMove(status, to) ==
  status \in DOMAIN Transitions("dashboard") /\ to \in Transitions("dashboard")[status]

(* DashInv by its parts.                                                   *)
LEMMA DashParts ==
  ASSUME DashInv
  PROVE  /\ row \in [status : BookingStatuses, version : Nat]
         /\ patch \in [Patches -> Patch \cup {Nothing}]
         /\ dash \in DashView
         /\ ~dash.mounted => dash = ClosedDash
         /\ \A p \in Patches : OwnersPatch(p) /\ patch[p].owned => dash.mounted
         /\ OwnerWaits => \A p, q \in Patches : OwnersPatch(p) /\ OwnersPatch(q) => p = q
         /\ OwnerWaits => \A p \in Patches : OwnersPatch(p) => dash.updating
         /\ OwnerWaits => \A p \in Patches :
              patch[p] # Nothing /\ patch[p].at = "allowed" => MayMove(row.status, patch[p].to)
BY DEF DashInv, MayMove

(* A step of one patch: the others stay, and so does what it is about.     *)
LEMMA OnePatch ==
  ASSUME DashInv, NEW p \in Patches, patch[p] # Nothing, patch[p].at # "settled",
         row' \in [status : BookingStatuses, version : Nat],
         dash' \in DashView, dash'.mounted = dash.mounted, ~dash'.mounted => dash' = ClosedDash,
         \/ \E at \in {"sent", "allowed", "done", "refused", "settled"} :
              /\ MoveTo(p, at)
              /\ at = "allowed" => UNCHANGED row /\ (patch[p].from = "dashboard" => MayMove(row.status, patch[p].to))
              /\ OwnersPatch(p) => at = "settled" \/ dash'.updating = dash.updating
         \/ patch' = [patch EXCEPT ![p].owned = FALSE],
         row' = row \/ patch[p].at = "allowed",
         ~OwnersPatch(p) => dash'.updating = dash.updating
  PROVE  DashInv'
<1>a. patch \in [Patches -> Patch \cup {Nothing}]
  BY DashParts
<1>b. patch[p] \in Patch
  BY <1>a
<1>1. /\ patch' \in [Patches -> Patch \cup {Nothing}]
      /\ \A q \in Patches \ {p} : patch'[q] = patch[q]
      /\ patch'[p] # Nothing /\ patch'[p].from = patch[p].from /\ patch'[p].to = patch[p].to
  BY <1>a, PatchMoves
<1>2. patch'[p].owned => patch[p].owned
  BY <1>a, PatchStaysDisowned
<1>3. \A q \in Patches : OwnersPatch(q)' => OwnersPatch(q)
  BY <1>1 DEF OwnersPatch
<1>4. \A q \in Patches : OwnersPatch(q)' /\ patch'[q].owned => dash'.mounted
  BY <1>1, <1>2, <1>3, DashParts
<1>5. ASSUME OwnerWaits'
      PROVE  /\ \A q, r \in Patches : OwnersPatch(q)' /\ OwnersPatch(r)' => q = r
             /\ \A q \in Patches : OwnersPatch(q)' => dash'.updating
             /\ \A q \in Patches : patch'[q] # Nothing /\ patch'[q].at = "allowed"
                   => MayMove(row'.status, patch'[q].to)
  <2>1. OwnerWaits
    BY <1>1, <1>2, <1>5 DEF OwnerWaits
  <2>2. patch'[p].owned
    BY <1>1, <1>5 DEF OwnerWaits
  <2>3. [patch[p] EXCEPT !.owned = FALSE].owned = FALSE
    BY <1>b DEF Patch
  <2>4. PICK at \in {"sent", "allowed", "done", "refused", "settled"} :
              /\ MoveTo(p, at)
              /\ at = "allowed" => UNCHANGED row /\ (patch[p].from = "dashboard" => MayMove(row.status, patch[p].to))
              /\ OwnersPatch(p) => at = "settled" \/ dash'.updating = dash.updating
    BY <1>a, <2>2, <2>3
  <2>5. patch'[p].at = at
    BY <1>a, <1>b, <2>4 DEF MoveTo, Patch
  <2>6. OwnersPatch(p)
    BY <2>1 DEF OwnersPatch, OwnerWaits
  <2>7. \A q \in Patches : OwnersPatch(q) => q = p
    BY <2>1, <2>6, DashParts
  <2>8. ASSUME NEW q \in Patches, OwnersPatch(q)'
        PROVE  dash'.updating
    <3>1. q = p /\ at # "settled"
      BY <1>3, <2>5, <2>7, <2>8 DEF OwnersPatch
    <3> QED BY <2>1, <2>4, <2>6, <3>1, DashParts
  <2>9. ASSUME NEW q \in Patches, patch'[q] # Nothing, patch'[q].at = "allowed"
        PROVE  MayMove(row'.status, patch'[q].to)
    <3>1. OwnersPatch(q)'
      BY <1>5, <2>9 DEF OwnersPatch, OwnerWaits
    <3>2. q = p
      BY <1>3, <2>7, <3>1
    <3> QED BY <1>1, <2>4, <2>5, <2>6, <2>9, <3>2 DEF OwnersPatch
  <2> QED BY <1>3, <2>7, <2>8, <2>9
<1> QED BY <1>1, <1>4, <1>5 DEF DashInv, MayMove

(* The copies and flags of the dashboard.                                  *)
LEMMA DashFetched ==
  ASSUME NEW d \in DashView, NEW n \in Numbers
  PROVE  /\ WithDashFetch(d, n) \in DashView
         /\ WithDashFetch(d, n).updating = d.updating
         /\ WithDashFetch(d, n).mounted = d.mounted
<1>1. [n |-> n, got |-> Nothing] \in Numbered
  BY DEF Numbered
<1> QED BY <1>1 DEF WithDashFetch, DashView

(* Nothing but the copies of an open dashboard changes.                    *)
LEMMA DashFrame ==
  ASSUME DashInv, UNCHANGED <<row, patch>>,
         \/ dash' = dash
         \/ /\ dash' \in DashView /\ dash'.updating = dash.updating
            /\ dash.mounted /\ dash'.mounted
  PROVE  DashInv'
<1>1. \A p \in Patches : OwnersPatch(p)' <=> OwnersPatch(p)
  BY DEF OwnersPatch
<1>2. OwnerWaits' <=> OwnerWaits
  BY DEF OwnerWaits
<1> QED BY <1>1, <1>2 DEF DashInv

(* Every step of the dashboard.                                            *)
LEMMA DashInvStep ==
  ASSUME DashInv, [DashNext]_dashVars
  PROVE  DashInv'
<1>a. /\ row \in [status : BookingStatuses, version : Nat]
      /\ patch \in [Patches -> Patch \cup {Nothing}] /\ dash \in DashView
  BY DashParts
<1>b. ~dash.mounted => /\ dash = ClosedDash /\ dash.fetches = {} /\ dash.shown = Nothing
                       /\ ~dash.updating
  BY DashParts DEF ClosedDash
<1>c. NewDash \in DashView /\ NewDash.mounted /\ ClosedDash \in DashView /\ ~ClosedDash.mounted
  <2>1. {[n |-> 1, got |-> Nothing]} \in SUBSET Numbered
    BY DEF Numbered, Numbers
  <2> QED BY <2>1 DEF NewDash, ClosedDash, DashView
<1>1. CASE UNCHANGED dashVars
  BY <1>1, DashFrame DEF dashVars, serverVars
<1>2. ASSUME NEW n \in Numbers, PullDash(n)
      PROVE  DashInv'
  <2> DEFINE d == [dash EXCEPT !.refreshing = TRUE]
  <2>1. d \in DashView /\ d.updating = dash.updating /\ d.mounted = dash.mounted
    BY <1>a DEF DashView
  <2>2. dash' = WithDashFetch(d, n) /\ UNCHANGED <<row, patch>> /\ dash.mounted
    BY <1>2 DEF PullDash, serverVars
  <2> HIDE DEF d
  <2> QED BY <2>1, <2>2, DashFetched, DashFrame
<1>3. ASSUME NEW f \in dash.fetches, ReadDash(f)
      PROVE  DashInv'
  <2> DEFINE g == [f EXCEPT !.got = CopyOfRow(FALSE)]
  <2>1. CopyOfRow(FALSE) \in Copy
    BY <1>a DEF CopyOfRow, Copy
  <2>2. g \in Numbered
    BY <1>a, <2>1 DEF DashView, Numbered
  <2>3. dash' = [dash EXCEPT !.fetches = (@ \ {f}) \cup {g}] /\ UNCHANGED <<row, patch>>
    BY <1>3 DEF ReadDash, serverVars
  <2> HIDE DEF g
  <2>4. dash' \in DashView /\ dash'.updating = dash.updating /\ dash'.mounted = dash.mounted
    BY <1>a, <2>2, <2>3 DEF DashView
  <2> QED BY <1>b, <1>3, <2>3, <2>4, DashFrame
<1>4. ASSUME NEW f \in dash.fetches, ShowDash(f) \/ DashFails(f)
      PROVE  DashInv'
  <2>1. f.got \in Copy \cup {Nothing}
    BY <1>a DEF DashView, Numbered
  <2>2. /\ IsOver(f) \in DashView /\ IsOver(f).updating = dash.updating
        /\ IsOver(f).mounted = dash.mounted
    BY <1>a DEF IsOver, DashView
  <2>3. dash' \in DashView /\ dash'.updating = dash.updating /\ dash'.mounted = dash.mounted
    BY <1>4, <2>1, <2>2 DEF ShowDash, DashFails, DashView
  <2>4. UNCHANGED <<row, patch>>
    BY <1>4 DEF ShowDash, DashFails, serverVars
  <2> QED BY <1>b, <1>4, <2>3, <2>4, DashFrame
<1>5. ASSUME NEW p \in Patches, NEW to \in BookingStatuses, Update(p, to)
      PROVE  DashInv'
  <2>1. /\ ~dash.updating /\ dash.mounted /\ SendPatch(p, "dashboard", to, TRUE)
        /\ dash' = [dash EXCEPT !.updating = TRUE]
    <3>1. dash.updating \/ ~dash.mounted => DashOffers = {}
      BY <1>b DEF DashOffers, Holds
    <3> QED BY <1>5, <3>1 DEF Update
  <2>2. dash' \in DashView /\ dash'.updating /\ dash'.mounted
    BY <1>a, <2>1 DEF DashView
  <2>3. /\ patch' \in [Patches -> Patch \cup {Nothing}]
        /\ \A q \in Patches \ {p} : patch'[q] = patch[q]
        /\ patch'[p].from = "dashboard" /\ patch'[p].owned = TRUE /\ patch'[p].at = "sent"
        /\ UNCHANGED row /\ patch[p] = Nothing /\ patch'[p] # Nothing
    BY <1>a, <2>1, PatchSent DEF Screens
  <2>4. OwnerWaits' => OwnerWaits
    BY <2>3 DEF OwnerWaits
  <2>5. OwnerWaits' => \A q \in Patches : OwnersPatch(q)' => q = p
    BY <2>1, <2>3, <2>4, DashParts DEF OwnersPatch
  <2>6. OwnerWaits' => \A q \in Patches : patch'[q] # Nothing /\ patch'[q].at = "allowed"
                          => MayMove(row'.status, patch'[q].to)
    BY <2>3, <2>4, DashParts
  <2> QED BY <1>a, <2>2, <2>3, <2>5, <2>6 DEF DashInv, MayMove
<1>6. CASE Elsewhere(Screens \ {"dashboard"}) /\ UNCHANGED dash
  <2>1. /\ patch' \in [Patches -> Patch \cup {Nothing}] /\ UNCHANGED row
        /\ \A q \in Patches : patch'[q] # patch[q] =>
             /\ patch'[q] # Nothing /\ patch'[q].from # "dashboard"
             /\ patch[q] = Nothing \/ patch[q].from # "dashboard"
    BY <1>a, <1>6, ElsewhereKeeps
  <2>2. \A q \in Patches : OwnersPatch(q)' => OwnersPatch(q) /\ patch'[q] = patch[q]
    BY <2>1 DEF OwnersPatch
  <2>3. OwnerWaits' => \A q \in Patches : patch'[q] = patch[q]
    BY <2>1 DEF OwnerWaits
  <2>4. OwnerWaits' => OwnerWaits
    BY <2>3 DEF OwnerWaits
  <2> QED BY <1>6, <2>1, <2>2, <2>3, <2>4 DEF DashInv
<1>7. ASSUME NEW p \in Patches, DashPatchEnds(p)
      PROVE  DashInv'
  <2>1. /\ patch[p] # Nothing /\ patch[p].at # "settled" /\ UNCHANGED row
        /\ MoveTo(p, "settled") \/ patch' = [patch EXCEPT ![p].owned = FALSE]
    BY <1>7 DEF DashPatchEnds, PatchSucceeds, PatchFails
  <2>2. OwnersPatch(p)
    BY <1>7, <2>1 DEF OwnersPatch, DashPatchEnds
  <2>3. patch[p].owned => dash.mounted
    BY <2>2, DashParts
  <2>4. /\ dash' \in DashView /\ dash'.mounted = dash.mounted
        /\ ~dash'.mounted => dash' = ClosedDash
    <3> DEFINE d == [dash EXCEPT !.updating = FALSE]
    <3>1. d \in DashView /\ d.mounted = dash.mounted
      BY <1>a DEF DashView
    <3>2. CASE \E n \in Unused : dash' = WithDashFetch(d, n) /\ patch[p].owned
      <4>1. PICK n \in Numbers : dash' = WithDashFetch(d, n)
        BY <3>2 DEF Unused
      <4> HIDE DEF d
      <4> QED BY <2>3, <3>1, <3>2, <4>1, DashFetched
    <3>3. CASE dash' = dash
      BY <1>a, <1>b, <3>3
    <3>4. CASE dash' = [dash EXCEPT !.updating = @ /\ ~patch[p].owned]
      <4>1. dash' \in DashView /\ dash'.mounted = dash.mounted
        BY <1>a, <3>4 DEF DashView
      <4>2. ~dash.mounted => dash' = dash
        BY <1>a, <1>b, <3>4 DEF DashView
      <4> QED BY <1>b, <4>1, <4>2
    <3> QED BY <1>7, <3>2, <3>3, <3>4 DEF DashPatchEnds
  <2> QED BY <1>a, <2>1, <2>2, <2>4, OnePatch
<1>8. CASE Handles /\ UNCHANGED dash
  <2>1. ASSUME NEW p \in Patches, patch[p] # Nothing, DecidePatch(p)
        PROVE  DashInv'
    <3>1. /\ patch[p].at = "sent" /\ UNCHANGED row
          /\ \/ MoveTo(p, "refused")
             \/ MoveTo(p, "allowed") /\ (patch[p].from = "dashboard" => MayMove(row.status, patch[p].to))
      BY <2>1 DEF DecidePatch, MayMove
    <3> QED BY <1>a, <1>b, <1>8, <2>1, <3>1, OnePatch
  <2>2. ASSUME NEW p \in Patches, patch[p] # Nothing, WritePatch(p)
        PROVE  DashInv'
    <3>1. /\ patch[p].at = "allowed" /\ MoveTo(p, "done")
          /\ row' = [status |-> patch[p].to, version |-> row.version + 1]
      BY <2>2 DEF WritePatch
    <3>2. row' \in [status : BookingStatuses, version : Nat]
      BY <1>a, <2>2, <3>1 DEF Patch
    <3> QED BY <1>a, <1>b, <1>8, <2>2, <3>1, <3>2, OnePatch
  <2>3. ASSUME NEW u \in Submissions,
               CheckCompleted(u) \/ CheckUnreviewed(u) \/ InsertReview(u)
        PROVE  DashInv'
    <3>1. UNCHANGED <<row, patch>>
      BY <2>3 DEF CheckCompleted, CheckUnreviewed, InsertReview
    <3> QED BY <1>8, <3>1, DashFrame
  <2> QED BY <1>8, <2>1, <2>2, <2>3 DEF Handles
<1>9. CASE OpenDash
  <2>1. ~dash.mounted /\ dash' = NewDash /\ UNCHANGED <<row, patch>>
    BY <1>9 DEF OpenDash, serverVars
  <2>2. OwnerWaits' => \A p \in Patches : ~OwnersPatch(p)'
    <3>1. OwnerWaits' => OwnerWaits
      BY <2>1 DEF OwnerWaits
    <3>2. OwnerWaits => \A p \in Patches : ~OwnersPatch(p)
      BY <2>1, DashParts DEF OwnersPatch, OwnerWaits
    <3> QED BY <2>1, <3>1, <3>2 DEF OwnersPatch
  <2>3. OwnerWaits' => \A p \in Patches : patch'[p] # Nothing => patch'[p].at # "allowed"
    BY <2>2 DEF OwnersPatch, OwnerWaits
  <2> QED BY <1>a, <1>c, <2>1, <2>2, <2>3 DEF DashInv
<1>10. CASE CloseDash
  <2>1. dash' = ClosedDash /\ UNCHANGED row /\ patch' = Left("dashboard")
    BY <1>10 DEF CloseDash, Leave
  <2>2. /\ patch' \in [Patches -> Patch \cup {Nothing}]
        /\ \A p \in Patches : OwnersPatch(p)' => ~patch'[p].owned
    BY <1>a, <2>1, PatchesLeft DEF OwnersPatch, Screens
  <2>3. OwnerWaits' => \A p \in Patches : ~OwnersPatch(p)'
    BY <2>2 DEF OwnersPatch, OwnerWaits
  <2>4. OwnerWaits' => \A p \in Patches : patch'[p] # Nothing => patch'[p].at # "allowed"
    BY <2>3 DEF OwnersPatch, OwnerWaits
  <2> QED BY <1>a, <1>c, <2>1, <2>2, <2>3, <2>4 DEF DashInv
<1> QED
  BY <1>1, <1>2, <1>3, <1>4, <1>5, <1>6, <1>7, <1>8, <1>9, <1>10 DEF DashNext, DashActs

(* The owner has asked for nothing.                                        *)
LEMMA DashInvInit == DashInit => DashInv
<1> SUFFICES ASSUME DashInit PROVE DashInv
  OBVIOUS
<1>1. \E s \in Starts :
        /\ row = [status |-> s.status, version |-> 0]
        /\ patch = [p \in Patches |-> IF p \in s.patches THEN Nothing ELSE
                      [from |-> "dashboard", to |-> "confirmed", owned |-> TRUE, at |-> "settled"]]
  BY DEF DashInit, BookingServerInit
<1>2. /\ row \in [status : BookingStatuses, version : Nat]
      /\ patch \in [Patches -> Patch \cup {Nothing}]
      /\ \A p \in Patches : patch[p] # Nothing => patch[p].at = "settled"
  BY <1>1, BookingServerAssumption DEF Patch, Screens, BookingStatuses
<1>3. {[n |-> 1, got |-> Nothing]} \in SUBSET Numbered
  BY DEF Numbered, Numbers
<1>4. dash \in DashView /\ dash.mounted
  BY <1>3 DEF DashInit, NewDash, ClosedDash, DashView
<1> QED BY <1>2, <1>4 DEF DashInv, OwnersPatch

(* DashInv, for any number of requests.                                    *)
THEOREM DashboardInvariant == DashSpec => []DashInv
<1>1. DashInit => DashInv
  BY DashInvInit
<1>2. DashInv /\ [DashNext]_dashVars => DashInv'
  BY DashInvStep
<1> QED BY <1>1, <1>2, PTL DEF DashSpec

(* OwnerMovesLegally for any number of requests: an owner alone with the   *)
(* dashboard, who has waited for every answer before leaving it, moves a   *)
(* booking only as its status allows.                                      *)
THEOREM OwnerAlwaysMovesLegally == DashSpec => OwnerMovesLegally
<1> DEFINE Legal == row' # row /\ OwnerWaits
                    => /\ row.status \in DOMAIN Transitions("dashboard")
                       /\ row'.status \in Transitions("dashboard")[row.status]
<1>1. ASSUME DashInv, [DashNext]_dashVars, row' # row, OwnerWaits
      PROVE  /\ row.status \in DOMAIN Transitions("dashboard")
             /\ row'.status \in Transitions("dashboard")[row.status]
  <2>1. \E p \in Patches : patch[p] # Nothing /\ WritePatch(p)
    <3>1. Elsewhere(Screens \ {"dashboard"}) => UNCHANGED row
      BY <1>1, DashParts, ElsewhereKeeps
    <3>2. ASSUME ~Handles PROVE FALSE
      BY <1>1, <3>1, <3>2
      DEF DashNext, DashActs, dashVars, serverVars, PullDash, ReadDash, ShowDash, DashFails,
          Update, DashPatchEnds, PatchSucceeds, PatchFails, SendPatch, Leave, OpenDash, CloseDash
    <3> QED BY <1>1, <3>2
        DEF Handles, DecidePatch, CheckCompleted, CheckUnreviewed, InsertReview
  <2>2. PICK p \in Patches : patch[p] # Nothing /\ WritePatch(p)
    BY <2>1
  <2>3. patch[p].at = "allowed" /\ row' = [status |-> patch[p].to, version |-> row.version + 1]
    BY <2>2 DEF WritePatch
  <2>4. MayMove(row.status, patch[p].to)
    BY <1>1, <2>2, <2>3, DashParts
  <2> QED BY <2>3, <2>4 DEF MayMove
<1>2. DashInv /\ [DashNext]_dashVars => [Legal]_dashVars
  BY <1>1
<1>3. DashSpec => [][Legal]_dashVars
  BY <1>2, DashboardInvariant, PTL DEF DashSpec
<1> QED BY <1>3 DEF OwnerMovesLegally

-----------------------------------------------------------------------------
(* The whole app.  What one screen does is to the others what they expect  *)
(* of any screen; so the app implements each screen's specification, and   *)
(* all that is proved of a screen beside any others holds in the app.      *)

LEMMA MoreScreens ==
  ASSUME NEW few \in SUBSET Screens, NEW many \in SUBSET Screens, few \subseteq many,
         Elsewhere(few)
  PROVE  Elsewhere(many)
<1>1. CASE \E p \in Patches, from \in few, owned \in BOOLEAN : \E to \in AskedFrom(from) :
             (owned \/ from = "details") /\ SendPatch(p, from, to, owned)
  BY <1>1 DEF Elsewhere
<1>2. CASE \E p \in Patches : /\ patch[p] # Nothing /\ patch[p].from \in few
                              /\ PatchSucceeds(p) \/ PatchFails(p)
  BY <1>2 DEF Elsewhere
<1>3. CASE \E from \in few : Leave(from)
  BY <1>3 DEF Elsewhere
<1>4. CASE /\ "list" \in few
           /\ LeaveForms \/ \E u \in Submissions : SendReview(u) \/ ReviewFails(u)
  BY <1>4 DEF Elsewhere
<1>5. CASE /\ "list" \in few
           /\ \E u \in Submissions, closed \in {"nothing", "form"} \cup (few \cap {"details"}) :
                ReviewSucceeds(u, closed)
  <2>1. {"nothing", "form"} \cup (few \cap {"details"})
          \subseteq {"nothing", "form"} \cup (many \cap {"details"})
    OBVIOUS
  <2> QED BY <1>5, <2>1 DEF Elsewhere
<1>6. CASE LoseAnswer /\ UNCHANGED <<row, reviews, patch, submission>>
  BY <1>6 DEF Elsewhere
<1> QED BY <1>1, <1>2, <1>3, <1>4, <1>5, <1>6 DEF Elsewhere

(* A review that is answered closes a form, or nothing, or the details.    *)
LEMMA ReviewIsElsewhere ==
  ASSUME NEW u \in Submissions, ReviewEnds(u)
  PROVE  \/ Elsewhere({"list"})
         \/ Focus = "detail" /\ Pop /\ ReviewSucceeds(u, "details")
<1>1. CASE ReviewFails(u)
  BY <1>1 DEF Elsewhere
<1>2. CASE ReviewSucceeds(u, "nothing") \/ ReviewSucceeds(u, "form")
  BY <1>2 DEF Elsewhere
<1>3. CASE ReviewSucceeds(u, Closing) /\ GoesBack
  <2>1. CASE Focus = "detail"
    BY <1>3, <2>1 DEF Closing, GoesBack
  <2>2. CASE Focus # "detail"
    <3>1. Closing \in {"form", "nothing"}
      BY <2>2 DEF Closing
    <3> QED BY <1>2, <1>3, <3>1
  <2> QED BY <2>1, <2>2
<1> QED BY <1>1, <1>2, <1>3 DEF ReviewEnds

LEMMA ListIsElsewhere ==
  ASSUME ListActs
  PROVE  \/ UNCHANGED serverVars \/ Elsewhere({"list"})
         \/ Focus = "detail" /\ Pop /\ \E u \in Submissions : ReviewSucceeds(u, "details")
<1>1. ASSUME NEW p \in Patches, ConfirmListCancel(p)
      PROVE  Elsewhere({"list"})
  <2>1. "cancelled" \in AskedFrom("list")
    BY DEF AskedFrom, Transitions
  <2> QED BY <1>1, <2>1 DEF ConfirmListCancel, Elsewhere
<1>2. ASSUME NEW f \in list.fetches, ReadList(f) \/ ShowList(f) \/ ListFails(f)
      PROVE  UNCHANGED serverVars \/ Elsewhere({"list"})
  BY <1>2 DEF ReadList, ShowList, ListFails, Elsewhere
<1>3. ASSUME NEW p \in Patches, ListPatchEnds(p)
      PROVE  Elsewhere({"list"})
  BY <1>3 DEF ListPatchEnds, Elsewhere
<1>4. ASSUME NEW u \in Submissions, SubmitReview(u)
      PROVE  Elsewhere({"list"})
  BY <1>4 DEF SubmitReview, Elsewhere
<1>5. CloseReview => Elsewhere({"list"})
  BY DEF CloseReview, Elsewhere
<1>6. Refresh \/ TapListCancel \/ DismissListCancel \/ CancelAnother \/ AnotherEnds
        => UNCHANGED serverVars
  BY DEF Refresh, TapListCancel, DismissListCancel, CancelAnother, AnotherEnds
<1> QED BY <1>1, <1>2, <1>3, <1>4, <1>5, <1>6, ReviewIsElsewhere DEF ListActs, ListProceeds

LEMMA DetailsAreElsewhere ==
  ASSUME DetailActs
  PROVE  UNCHANGED serverVars \/ Elsewhere({"details"})
<1>1. ASSUME NEW p \in Patches, ConfirmCancel(p)
      PROVE  Elsewhere({"details"})
  <2>1. "cancelled" \in AskedFrom("details")
    BY DEF AskedFrom, Transitions
  <2> QED BY <1>1, <2>1 DEF ConfirmCancel, Elsewhere
<1>2. ASSUME NEW f \in detail.fetches, ReadDetail(f) \/ ShowDetail(f) \/ DetailFails(f)
      PROVE  UNCHANGED serverVars \/ Elsewhere({"details"})
  BY <1>2 DEF ReadDetail, ShowDetail, DetailFails, Elsewhere
<1>3. ASSUME NEW p \in Patches, DetailPatchEnds(p)
      PROVE  Elsewhere({"details"})
  BY <1>3 DEF DetailPatchEnds, Elsewhere
<1>4. Poll \/ TapCancel \/ DismissCancel => UNCHANGED serverVars
  BY DEF Poll, TapCancel, DismissCancel
<1> QED BY <1>1, <1>2, <1>3, <1>4 DEF DetailActs, DetailProceeds

LEMMA DashboardIsElsewhere ==
  ASSUME DashActs
  PROVE  UNCHANGED serverVars \/ Elsewhere({"dashboard"})
<1>1. ASSUME NEW p \in Patches, NEW to \in BookingStatuses, Update(p, to)
      PROVE  Elsewhere({"dashboard"})
  <2>1. to \in {"rejected", "confirmed", "in_progress", "completed"}
    BY <1>1 DEF Update, DashOffers
  <2>2. to \in AskedFrom("dashboard")
    BY <2>1 DEF AskedFrom, Transitions
  <2> QED BY <1>1, <2>2 DEF Update, Elsewhere
<1>2. ASSUME NEW f \in dash.fetches, ReadDash(f) \/ ShowDash(f) \/ DashFails(f)
      PROVE  UNCHANGED serverVars \/ Elsewhere({"dashboard"})
  BY <1>2 DEF ReadDash, ShowDash, DashFails, Elsewhere
<1>3. ASSUME NEW p \in Patches, DashPatchEnds(p)
      PROVE  Elsewhere({"dashboard"})
  BY <1>3 DEF DashPatchEnds, Elsewhere
<1>4. ASSUME NEW n \in Numbers, PullDash(n)
      PROVE  UNCHANGED serverVars
  BY <1>4 DEF PullDash
<1>5. OpenDash => UNCHANGED serverVars
  BY DEF OpenDash
<1>6. CloseDash => Elsewhere({"dashboard"})
  BY DEF CloseDash, Elsewhere
<1> QED BY <1>1, <1>2, <1>3, <1>4, <1>5, <1>6 DEF DashActs

(* Under the details is another screen.                                    *)
LEMMA PopChanges ==
  ASSUME stack \in Stacks, Focus = "detail", Pop
  PROVE  stack' # stack
<1>1. stack = <<"list", "detail">> /\ stack' = <<"list">>
  BY Stacked DEF Pop
<1>2. Len(stack) = 2 /\ Len(stack') = 1
  BY <1>1
<1> QED BY <1>2

(* Moving between the renter's screens: to the server it is nothing, or    *)
(* the details are left.                                                   *)
LEMMA Moving ==
  ASSUME stack \in Stacks, LeaveTheList \/ GoBack \/ AskForReview
  PROVE  /\ UNCHANGED serverVars \/ (Unmount /\ Leave("details"))
         /\ UNCHANGED detail \/ Mount \/ Unmount
         /\ LeaveList \/ BackToList \/ OpenReview
<1>1. CASE LeaveTheList
  BY <1>1 DEF LeaveTheList, LeaveList
<1>2. CASE GoBack
  <2>1. CASE Focus = "detail"
    <3>1. Pop /\ Leave("details")
      BY <1>2, <2>1 DEF GoBack, BackToList
    <3>2. Unmounts
      BY <1>2, <2>1, <3>1, PopChanges DEF GoBack, DetailsFollow
    <3> QED BY <1>2, <3>1, <3>2 DEF GoBack, Unmount
  <2>2. CASE Focus # "detail"
    BY <1>2, <2>2 DEF GoBack, BackToList, DetailsFollow
  <2> QED BY <2>1, <2>2
<1>3. CASE AskForReview
  BY <1>3 DEF AskForReview, OpenReview
<1> QED BY <1>1, <1>2, <1>3

(* Only an answer that goes back too late unmounts the details.            *)
LEMMA Following ==
  ASSUME stack \in Stacks, ListActs, DetailsFollow
  PROVE  \/ UNCHANGED detail /\ (UNCHANGED serverVars \/ Elsewhere({"list"}))
         \/ Unmounts /\ \E u \in Submissions : ReviewSucceeds(u, "details")
<1>1. CASE Focus = "detail" /\ stack' # stack
  <2>1. PICK u \in Submissions : ReviewEnds(u)
    BY <1>1 DEF ListActs, ListProceeds, Refresh, CloseReview, ReadList, ShowList, ListFails,
                ListPatchEnds, AnotherEnds, TapListCancel, DismissListCancel, CancelAnother,
                ConfirmListCancel, SubmitReview
  <2>2. ReviewSucceeds(u, "details")
    BY <1>1, <2>1 DEF ReviewEnds, Closing
  <2> QED BY <1>1, <2>2 DEF DetailsFollow
<1>2. CASE ~(Focus = "detail" /\ stack' # stack)
  BY <1>2, ListIsElsewhere, PopChanges DEF DetailsFollow
<1> QED BY <1>1, <1>2

(* What happens in the app is what the details know.                       *)
LEMMA DetailsInApp ==
  ASSUME stack \in Stacks, [AppNext]_appVars
  PROVE  [DetailNext]_detailVars
<1> DEFINE others == Screens \ {"details"}
<1>0. /\ Elsewhere({"list"}) \/ Elsewhere({"dashboard"}) \/ Elsewhere({"panel"})
           => Elsewhere(others)
  BY MoreScreens DEF Screens
<1>1. CASE UNCHANGED appVars
  BY <1>1 DEF appVars, detailVars
<1>2. CASE LeaveTheList \/ GoBack \/ AskForReview
  <2>1. UNCHANGED detailVars \/ Mount \/ Unmount
    BY <1>2, Moving DEF detailVars, Mount, Unmount
  <2> QED BY <2>1 DEF DetailNext
<1>3. CASE ListActs /\ DetailsFollow
  BY <1>0, <1>3, Following DEF DetailNext, detailVars, Unmount
<1>4. CASE DetailActs
  BY <1>4 DEF DetailNext
<1>5. CASE DashActs /\ UNCHANGED detail
  BY <1>0, <1>5, DashboardIsElsewhere DEF DetailNext, detailVars
<1>6. CASE (Handles \/ Elsewhere({"panel"})) /\ UNCHANGED detail
  BY <1>0, <1>6 DEF DetailNext
<1> QED BY <1>1, <1>2, <1>3, <1>4, <1>5, <1>6 DEF AppNext, RenterActs

(* What happens in the app is what the list knows.                         *)
LEMMA ListInApp ==
  ASSUME stack \in Stacks, [AppNext]_appVars
  PROVE  [ListNext]_listVars
<1> DEFINE others == Screens \ {"list"}
<1>0. Elsewhere({"details"}) \/ Elsewhere({"dashboard"}) \/ Elsewhere({"panel"})
        => Elsewhere(others)
  BY MoreScreens DEF Screens
<1>1. CASE UNCHANGED appVars
  BY <1>1 DEF appVars, listVars
<1>2. CASE LeaveTheList \/ GoBack \/ AskForReview
  BY <1>2, Moving DEF ListNext
<1>3. CASE ListActs
  BY <1>3 DEF ListNext
<1>4. CASE DetailActs /\ UNCHANGED <<stack, list>>
  BY <1>0, <1>4, DetailsAreElsewhere DEF ListNext, listVars
<1>5. CASE DashActs /\ UNCHANGED <<stack, list>>
  BY <1>0, <1>5, DashboardIsElsewhere DEF ListNext, listVars
<1>6. CASE (Handles \/ Elsewhere({"panel"})) /\ UNCHANGED <<stack, list>>
  BY <1>0, <1>6 DEF ListNext
<1> QED BY <1>1, <1>2, <1>3, <1>4, <1>5, <1>6 DEF AppNext, RenterActs

(* The list lives among the app's other screens.                           *)
THEOREM AppImplementsList == AppSpec => ListSpec
<1>1. ListInv /\ [AppNext]_appVars => [ListNext]_listVars
  BY ListInApp DEF ListInv, StackInv
<1>2. ListInv /\ [ListNext]_listVars => ListInv'
  BY ReviewInvStep, ListCopiesStep, StackInvStep DEF ListInv
<1>3. AppInit => ListInit /\ ListInv
  BY ListInvInit DEF AppInit
<1> QED BY <1>1, <1>2, <1>3, PTL DEF AppSpec, ListSpec

(* So do the details.                                                      *)
THEOREM AppImplementsDetails == AppSpec => DetailSpec
<1>1. ListInv /\ [AppNext]_appVars => [DetailNext]_detailVars
  BY DetailsInApp DEF ListInv, StackInv
<1>2. AppInit => DetailInit
  BY DEF AppInit
<1> QED BY <1>1, <1>2, AppImplementsList, ListInvariant, PTL DEF AppSpec, DetailSpec

(* What happens in the app is what the dashboard knows.                    *)
LEMMA DashboardInApp ==
  ASSUME stack \in Stacks, [AppNext]_appVars
  PROVE  [DashNext]_dashVars
<1> DEFINE others == Screens \ {"dashboard"}
<1>0. (\/ Elsewhere({"list"}) \/ Elsewhere({"details"}) \/ Elsewhere({"panel"})
       \/ Elsewhere({"list", "details"}))
        => Elsewhere(others)
  BY MoreScreens DEF Screens
<1>1. CASE UNCHANGED appVars
  BY <1>1 DEF appVars, dashVars
<1>2. CASE (LeaveTheList \/ GoBack \/ AskForReview) /\ UNCHANGED dash
  <2>1. Leave("details") => Elsewhere({"details"})
    BY DEF Elsewhere
  <2> QED BY <1>0, <1>2, <2>1, Moving DEF DashNext, dashVars
<1>3. CASE ListActs /\ UNCHANGED dash
  <2>1. ASSUME NEW u \in Submissions, ReviewSucceeds(u, "details")
        PROVE  Elsewhere({"list", "details"})
    BY <2>1 DEF Elsewhere
  <2> QED BY <1>0, <1>3, <2>1, ListIsElsewhere DEF DashNext, dashVars
<1>4. CASE DetailActs /\ UNCHANGED dash
  BY <1>0, <1>4, DetailsAreElsewhere DEF DashNext, dashVars
<1>5. CASE DashActs
  BY <1>5 DEF DashNext
<1>6. CASE (Handles \/ Elsewhere({"panel"})) /\ UNCHANGED dash
  BY <1>0, <1>6 DEF DashNext
<1> QED BY <1>1, <1>2, <1>3, <1>4, <1>5, <1>6 DEF AppNext, RenterActs

(* And the owner's dashboard.                                              *)
THEOREM AppImplementsDashboard == AppSpec => DashSpec
<1>1. ListInv /\ [AppNext]_appVars => [DashNext]_dashVars
  BY DashboardInApp DEF ListInv, StackInv
<1>2. AppInit => DashInit
  BY DEF AppInit
<1> QED BY <1>1, <1>2, AppImplementsList, ListInvariant, PTL DEF AppSpec, DashSpec

(* Whatever the renter, the owner and the administrators do at once, and   *)
(* however late a review's answer goes back: the list and the details show *)
(* no older copy after a newer one, the details wait for an answer that    *)
(* may still come, a booking has one review, and a lone owner who waits    *)
(* moves it legally.                                                       *)
THEOREM AppIsSafe ==
  AppSpec => /\ DetailNeverGoesBack /\ ListNeverGoesBack /\ OwnerMovesLegally
             /\ [](DetailAwaits /\ OneReview)
BY AppImplementsDetails, AppImplementsList, AppImplementsDashboard, DetailsGoForward,
   ListGoesForward, OwnerAlwaysMovesLegally, DetailsNeverWaitInVain, ListOneReview, PTL

(* The details are mounted exactly while they are on the stack.            *)

Among(s) == \E i \in DOMAIN s : s[i] = "detail"

LEMMA AmongStacks ==
  /\ ~Among(<<"home">>) /\ ~Among(<<"list">>) /\ ~Among(<<"list", "review">>)
  /\ Among(<<"list", "detail">>) /\ Among(<<"list", "detail", "review">>)
<1>1. /\ DOMAIN <<"list", "detail">> = {1, 2} /\ DOMAIN <<"list", "detail", "review">> = {1, 2, 3}
      /\ DOMAIN <<"home">> = {1} /\ DOMAIN <<"list">> = {1} /\ DOMAIN <<"list", "review">> = {1, 2}
  OBVIOUS
<1>2. Among(<<"list", "detail">>) /\ Among(<<"list", "detail", "review">>)
  BY <1>1 DEF Among
<1>3. ~Among(<<"home">>) /\ ~Among(<<"list">>) /\ ~Among(<<"list", "review">>)
  BY <1>1 DEF Among
<1> QED BY <1>2, <1>3

(* What the details do while they are mounted leaves them so.              *)
LEMMA MountedStays ==
  ASSUME DetailInv, DetailActs
  PROVE  detail'.mounted = detail.mounted
<1>0. /\ detail \in DetailView
      /\ \A d \in DetailView : \A kind \in {"loud", "poll"} : WithFetch(d, kind).mounted = d.mounted
  BY DEF DetailInv, CopiesInv, DetailView, WithFetch
<1>1. CASE Poll
  BY <1>0, <1>1 DEF Poll
<1>2. ASSUME NEW f \in detail.fetches, ReadDetail(f) \/ ShowDetail(f) \/ DetailFails(f)
      PROVE  detail'.mounted = detail.mounted
  <2>1. CASE ReadDetail(f) \/ DetailFails(f)
    BY <1>0, <2>1 DEF ReadDetail, DetailFails, DetailView
  <2>2. CASE ShowDetail(f)
    <3> DEFINE d == [detail EXCEPT !.shown = f.got, !.fetches = @ \ {f},
                                   !.loading = @ /\ f.kind # "loud"]
    <3>1. f.got \in Copy /\ (detail' = d \/ detail' = WithFetch(d, "loud"))
      BY <2>2 DEF ShowDetail, Unread, DetailInv, CopiesInv, Newer
    <3>2. d \in DetailView /\ d.mounted = detail.mounted
      BY <1>0, <3>1 DEF DetailView
    <3> HIDE DEF d
    <3> QED BY <1>0, <3>1, <3>2
  <2> QED BY <1>2, <2>1, <2>2
<1>3. ASSUME NEW p \in Patches, ConfirmCancel(p)
      PROVE  detail'.mounted = detail.mounted
  BY <1>0, <1>3 DEF ConfirmCancel, DetailView
<1>4. ASSUME NEW p \in Patches, DetailPatchEnds(p)
      PROVE  detail'.mounted = detail.mounted
  <2>1. [detail EXCEPT !.cancelling = FALSE] \in DetailView
        /\ [detail EXCEPT !.cancelling = FALSE].mounted = detail.mounted
    BY <1>0 DEF DetailView
  <2>2. \/ UNCHANGED detail
        \/ detail' = WithFetch([detail EXCEPT !.cancelling = FALSE], "loud")
        \/ detail'.mounted = detail.mounted
    BY <1>0, <1>4 DEF DetailPatchEnds, DetailView
  <2> QED BY <1>0, <2>1, <2>2
<1>5. TapCancel \/ DismissCancel => detail'.mounted = detail.mounted
  BY <1>0 DEF TapCancel, DismissCancel, DetailView
<1> QED BY <1>1, <1>2, <1>3, <1>4, <1>5 DEF DetailActs, DetailProceeds

(* The renter begins with the list, no details over it.                    *)
LEMMA MountedInit == AppInit => MountedOnStack
BY AmongStacks DEF AppInit, DetailInit, ListInit, Unmounted, MountedOnStack, Among

(* No step in the app leaves the details mounted and off the stack.        *)
LEMMA MountedStep ==
  ASSUME MountedOnStack, DetailInv, ListInv, [AppNext]_appVars
  PROVE  MountedOnStack'
<1>0. stack \in Stacks /\ (detail.mounted <=> Among(stack)) /\ detail.mounted \in BOOLEAN
  BY DEF ListInv, StackInv, MountedOnStack, Among, DetailInv, CopiesInv, DetailView
<1>a. SUFFICES detail'.mounted <=> Among(stack')
  BY DEF MountedOnStack, Among
<1>b. ASSUME UNCHANGED stack, detail'.mounted = detail.mounted
      PROVE  detail'.mounted <=> Among(stack')
  BY <1>0, <1>b
<1>c. Mount => detail'.mounted
  BY <1>0 DEF Mount, WithFetch, DetailInv, CopiesInv, DetailView
<1>d. Unmounts => ~detail'.mounted
  BY DEF Unmounts, Unmounted
<1>1. CASE UNCHANGED appVars
  BY <1>1, <1>b DEF appVars
<1>2. CASE LeaveTheList
  <2>1. stack = <<"list">> /\ ~detail.mounted
    BY <1>0, <1>2, Stacked, AmongStacks DEF LeaveTheList, LeaveList
  <2>2. CASE stack' = <<"home">>
    <3>1. Len(stack') # 2
      BY <2>2
    <3> QED BY <1>2, <2>1, <2>2, <3>1, AmongStacks DEF LeaveTheList
  <2>3. CASE Push("detail")
    <3>1. stack' = <<"list", "detail">>
      BY <1>0, <1>2, <2>3, Stacked DEF LeaveTheList, LeaveList, Push
    <3>2. Len(stack') = 2
      BY <3>1
    <3> QED BY <1>2, <1>c, <3>1, <3>2, AmongStacks DEF LeaveTheList
  <2> QED BY <1>2, <2>2, <2>3 DEF LeaveTheList, LeaveList
<1>3. CASE GoBack
  <2>1. CASE Focus = "detail"
    <3>1. stack' = <<"list">>
      BY <1>0, <1>3, <2>1, Stacked DEF GoBack, BackToList, Pop
    <3>2. Unmounts
      BY <1>0, <1>3, <2>1, PopChanges DEF GoBack, BackToList, DetailsFollow
    <3> QED BY <1>d, <3>1, <3>2, AmongStacks
  <2>2. CASE Focus # "detail"
    <3>1. stack = <<"home">> /\ stack' = <<"list">> /\ UNCHANGED detail
      BY <1>0, <1>3, <2>2, Stacked DEF GoBack, BackToList, DetailsFollow
    <3> QED BY <1>0, <3>1, AmongStacks
  <2> QED BY <2>1, <2>2
<1>4. CASE AskForReview
  <2>1. UNCHANGED detail /\ Focus \in {"list", "detail"} /\ stack' = Append(stack, "review")
    BY <1>4 DEF AskForReview, OpenReview, Push
  <2> QED BY <1>0, <2>1, Stacked, AmongStacks
<1>5. CASE ListActs /\ DetailsFollow
  <2>1. CASE UNCHANGED stack
    BY <1>5, <1>b, <2>1 DEF DetailsFollow
  <2>2. CASE Focus = "review" /\ Pop
    <3>1. UNCHANGED detail
      BY <1>5, <2>2 DEF DetailsFollow
    <3> QED BY <1>0, <2>2, <3>1, Stacked, AmongStacks DEF Pop
  <2>3. CASE Focus = "detail" /\ Pop
    <3>1. Unmounts /\ stack' = <<"list">>
      BY <1>0, <1>5, <2>3, PopChanges, Stacked DEF DetailsFollow, Pop
    <3> QED BY <1>d, <3>1, AmongStacks
  <2>4. CASE Focus = "list" /\ stack' = <<"home">>
    <3>1. UNCHANGED detail /\ stack = <<"list">>
      BY <1>0, <1>5, <2>4, Stacked DEF DetailsFollow
    <3> QED BY <1>0, <2>4, <3>1, AmongStacks
  <2>5. ASSUME NEW u \in Submissions, ReviewEnds(u)
        PROVE  \/ UNCHANGED stack \/ (Focus \in {"detail", "review"} /\ Pop)
               \/ Focus = "list" /\ stack' = <<"home">>
    BY <2>5 DEF ReviewEnds, GoesBack
  <2> QED BY <1>5, <2>1, <2>2, <2>3, <2>4, <2>5
      DEF ListActs, ListProceeds, Refresh, CloseReview, ReadList, ShowList, ListFails,
          ListPatchEnds, TapListCancel, DismissListCancel, CancelAnother, AnotherEnds,
          ConfirmListCancel, SubmitReview
<1>6. CASE DetailActs /\ UNCHANGED stack
  BY <1>6, <1>b, MountedStays
<1>7. CASE UNCHANGED <<detail, stack>>
  BY <1>7, <1>b
<1> QED BY <1>1, <1>2, <1>3, <1>4, <1>5, <1>6, <1>7 DEF AppNext, RenterActs

(* The details are mounted exactly while they are among the renter's       *)
(* screens, whichever of them an answer that goes back too late closes.    *)
THEOREM DetailsMountedOnStack == AppSpec => []MountedOnStack
<1>1. AppInit => MountedOnStack
  BY MountedInit
<1>2. MountedOnStack /\ DetailInv /\ ListInv /\ [AppNext]_appVars => MountedOnStack'
  BY MountedStep
<1> QED
  BY <1>1, <1>2, AppImplementsDetails, AppImplementsList, DetailInvariant, ListInvariant, PTL
  DEF AppSpec

-----------------------------------------------------------------------------
(* The types of the server's variables, whatever the screens ask of it.    *)

(* A submission moves on.                                                  *)
LEMMA SubmissionMoves ==
  ASSUME submission \in [Submissions -> Submission \cup {Nothing}],
         NEW u \in Submissions, submission[u] # Nothing,
         \E at \in {"sent", "completed", "unreviewed", "done", "refused", "settled"} :
           Advance(u, at)
  PROVE  submission' \in [Submissions -> Submission \cup {Nothing}]
<1>1. submission[u] \in Submission
  OBVIOUS
<1>2. \A at \in {"sent", "completed", "unreviewed", "done", "refused", "settled"} :
        [submission[u] EXCEPT !.at = at] \in Submission
  BY <1>1 DEF Submission
<1> QED BY <1>2 DEF Advance

(* No booking has been asked anything yet.                                 *)
LEMMA ServerTypesInit == BookingServerInit => BookingServerTypeOK
<1> SUFFICES ASSUME BookingServerInit PROVE BookingServerTypeOK
  OBVIOUS
<1>1. PICK s \in Starts :
        /\ row = [status |-> s.status, version |-> 0]
        /\ patch = [p \in Patches |-> IF p \in s.patches THEN Nothing ELSE
                      [from |-> "dashboard", to |-> "confirmed", owned |-> TRUE, at |-> "settled"]]
        /\ submission = [u \in Submissions |-> IF u \in s.submissions THEN Nothing ELSE
                           [by |-> "nobody", at |-> "settled"]]
  BY DEF BookingServerInit
<1>2. s.status \in BookingStatuses
  BY BookingServerAssumption
<1>3. /\ row \in [status : BookingStatuses, version : Nat]
      /\ patch \in [Patches -> Patch \cup {Nothing}]
  BY <1>1, <1>2 DEF Patch, Screens, BookingStatuses
<1>4. submission \in [Submissions -> Submission \cup {Nothing}]
  BY <1>1 DEF Submission
<1> QED BY <1>3, <1>4, BookingServerAssumption DEF BookingServerInit, BookingServerTypeOK

(* Whatever a screen does, and whatever the others do beside it, is to the *)
(* server a statement of a handler, an event of some screen, or nothing.   *)
LEMMA EventsOfScreens ==
  ASSUME [DetailNext]_detailVars \/ [ListNext]_listVars \/ [DashNext]_dashVars
  PROVE  Handles \/ Elsewhere(Screens) \/ UNCHANGED serverVars
<1>0. ASSUME NEW some \in SUBSET Screens, Elsewhere(some)
      PROVE  Elsewhere(Screens)
  BY <1>0, MoreScreens
<1>1. ASSUME NEW s \in Screens, Leave(s)
      PROVE  Elsewhere(Screens)
  BY <1>1 DEF Elsewhere
<1>2. CASE [DetailNext]_detailVars
  <2>1. Elsewhere({"details"}) \/ Elsewhere(Screens \ {"details"}) => Elsewhere(Screens)
    BY <1>0 DEF Screens
  <2>2. ASSUME NEW u \in Submissions, ReviewSucceeds(u, "details")
        PROVE  Elsewhere(Screens)
    BY <2>2 DEF Elsewhere, Screens
  <2>3. Unmount => Elsewhere(Screens)
    BY <1>1, <2>2 DEF Unmount, Screens
  <2> QED BY <1>2, <2>1, <2>3, DetailsAreElsewhere DEF DetailNext, detailVars, Mount
<1>3. CASE [ListNext]_listVars
  <2>1. Elsewhere({"list"}) \/ Elsewhere(Screens \ {"list"}) => Elsewhere(Screens)
    BY <1>0 DEF Screens
  <2>2. LeaveList \/ OpenReview \/ BackToList => UNCHANGED serverVars \/ Leave("details")
    BY DEF LeaveList, OpenReview, BackToList
  <2>3. ASSUME NEW u \in Submissions, ReviewSucceeds(u, "details")
        PROVE  Elsewhere(Screens)
    BY <2>3 DEF Elsewhere, Screens
  <2>4. Leave("details") => Elsewhere(Screens)
    BY <1>1 DEF Screens
  <2> QED BY <1>3, <2>1, <2>2, <2>3, <2>4, ListIsElsewhere DEF ListNext, listVars
<1>4. CASE [DashNext]_dashVars
  <2>1. Elsewhere({"dashboard"}) \/ Elsewhere(Screens \ {"dashboard"}) => Elsewhere(Screens)
    BY <1>0 DEF Screens
  <2> QED BY <1>4, <2>1, DashboardIsElsewhere DEF DashNext, dashVars
<1> QED BY <1>2, <1>3, <1>4

(* BookingServerTypeOK, whatever screens there are.                        *)
LEMMA ServerTypesStep ==
  ASSUME BookingServerTypeOK, Handles \/ Elsewhere(Screens) \/ UNCHANGED serverVars
  PROVE  BookingServerTypeOK'
<1>0. /\ row \in [status : BookingStatuses, version : Nat] /\ reviews \in Nat
      /\ patch \in [Patches -> Patch \cup {Nothing}]
      /\ submission \in [Submissions -> Submission \cup {Nothing}]
      /\ lost \in 0 .. MaxLost
  BY DEF BookingServerTypeOK
<1>1. CASE Handles
  <2>1. /\ row' \in [status : BookingStatuses, version : Nat]
        /\ patch' \in [Patches -> Patch \cup {Nothing}]
    BY <1>0, <1>1, RowHandled
  <2>2. ASSUME NEW p \in Patches, DecidePatch(p) \/ WritePatch(p)
        PROVE  UNCHANGED <<reviews, submission, lost>>
    BY <2>2 DEF DecidePatch, WritePatch
  <2>3. ASSUME NEW u \in Submissions, submission[u] # Nothing,
               CheckCompleted(u) \/ CheckUnreviewed(u) \/ InsertReview(u)
        PROVE  /\ submission' \in [Submissions -> Submission \cup {Nothing}]
               /\ reviews' \in Nat /\ UNCHANGED lost
    <3>1. \E at \in {"completed", "unreviewed", "done", "refused"} : Advance(u, at)
      BY <2>3 DEF CheckCompleted, CheckUnreviewed, InsertReview
    <3>2. submission' \in [Submissions -> Submission \cup {Nothing}]
      BY <1>0, <2>3, <3>1, SubmissionMoves
    <3>3. reviews' \in {reviews, 1} /\ UNCHANGED lost
      BY <2>3 DEF CheckCompleted, CheckUnreviewed, InsertReview
    <3> QED BY <1>0, <3>2, <3>3
  <2> QED BY <1>0, <1>1, <2>1, <2>2, <2>3 DEF BookingServerTypeOK, Handles
<1>2. CASE Elsewhere(Screens)
  <2>1. patch' \in [Patches -> Patch \cup {Nothing}] /\ UNCHANGED row
    BY <1>0, <1>2, ElsewhereKeeps
  <2>2. ASSUME NEW p \in Patches, PatchSucceeds(p) \/ PatchFails(p)
        PROVE  UNCHANGED <<reviews, submission>> /\ (UNCHANGED lost \/ LoseAnswer)
    BY <2>2 DEF PatchSucceeds, PatchFails
  <2>3. ASSUME NEW p \in Patches, NEW from, NEW to, NEW owned, SendPatch(p, from, to, owned)
        PROVE  UNCHANGED <<reviews, submission, lost>>
    BY <2>3 DEF SendPatch
  <2>4. \A s \in Screens : Leave(s) => UNCHANGED <<reviews, submission, lost>>
    BY DEF Leave
  <2>5. ASSUME NEW u \in Submissions, NEW closed, ReviewSucceeds(u, closed) \/ ReviewFails(u)
        PROVE  /\ submission' \in [Submissions -> Submission \cup {Nothing}]
               /\ UNCHANGED reviews /\ (UNCHANGED lost \/ LoseAnswer)
    <3> DEFINE settled == [submission EXCEPT ![u].at = "settled"]
    <3>1. submission[u] \in Submission /\ UNCHANGED reviews /\ (UNCHANGED lost \/ LoseAnswer)
      BY <1>0, <2>5 DEF ReviewSucceeds, ReviewFails
    <3>2. settled \in [Submissions -> Submission \cup {Nothing}]
      <4>1. [submission[u] EXCEPT !.at = "settled"] \in Submission
        BY <3>1 DEF Submission
      <4> QED BY <1>0, <4>1
    <3>3. \/ submission' = settled \/ submission' = Shut(settled)
          \/ submission' = [submission EXCEPT ![u].by = "nobody"]
      BY <2>5 DEF ReviewSucceeds, ReviewFails, Advance
    <3>4. [submission EXCEPT ![u].by = "nobody"] \in [Submissions -> Submission \cup {Nothing}]
      <4>1. [submission[u] EXCEPT !.by = "nobody"] \in Submission
        BY <3>1 DEF Submission
      <4> QED BY <1>0, <4>1
    <3> HIDE DEF settled
    <3> QED BY <3>1, <3>2, <3>3, <3>4, FormsShut
  <2>6. ASSUME NEW u \in Submissions, SendReview(u)
        PROVE  /\ submission' \in [Submissions -> Submission \cup {Nothing}]
               /\ UNCHANGED <<reviews, lost>>
    BY <1>0, <2>6 DEF SendReview, Submission
  <2>7. ASSUME LeaveForms
        PROVE  /\ submission' \in [Submissions -> Submission \cup {Nothing}]
               /\ UNCHANGED <<reviews, lost>>
    BY <1>0, <2>7, FormsShut DEF LeaveForms
  <2>8. /\ submission' \in [Submissions -> Submission \cup {Nothing}]
        /\ UNCHANGED reviews /\ (UNCHANGED lost \/ LoseAnswer)
    BY <1>0, <1>2, <2>2, <2>3, <2>4, <2>5, <2>6, <2>7 DEF Elsewhere
  <2>9. lost' \in 0 .. MaxLost
    BY <1>0, <2>8, BookingServerAssumption DEF LoseAnswer
  <2> QED BY <1>0, <2>1, <2>8, <2>9 DEF BookingServerTypeOK
<1>3. CASE UNCHANGED serverVars
  BY <1>3 DEF serverVars, BookingServerTypeOK
<1> QED BY <1>1, <1>2, <1>3

(* The screens' own types, which their invariants give.                    *)
LEMMA DetailTypes == ASSUME DetailInv PROVE DetailTypeOK
<1>1. Cardinality(detail.fetches) <= 1
  BY AtMostOne DEF DetailInv, CopiesInv
<1>2. {detail.alerts, detail.stray} \subseteq 0 .. MaxAlerts
  BY BookingServerAssumption DEF DetailInv, CopiesInv, AwaitingInv, DetailView
<1> QED BY <1>1, <1>2 DEF DetailInv, CopiesInv, DetailView, DetailTypeOK

LEMMA DashTypes == ASSUME DashInv PROVE DashTypeOK
BY DEF DashInv, DashView, DashTypeOK

LEMMA ListTypes == ASSUME ListInv PROVE ListTypeOK
<1>1. Cardinality(list.fetches) <= 1
  BY AtMostOne DEF ListInv, ListCopiesInv
<1>2. list.alerts \in 0 .. MaxAlerts
  BY BookingServerAssumption DEF ListInv, ListCopiesInv, ListView
<1>3. list.shown \in Copy \cup {Nothing} /\ list.fetches \subseteq Fetch
  BY DEF ListInv, ListCopiesInv, ListView
<1>4. {list.loading, list.refreshing, list.hasError, list.cancellingId, list.another}
        \subseteq BOOLEAN
  BY DEF ListInv, ListCopiesInv, ListView
<1> QED BY <1>1, <1>2, <1>3, <1>4 DEF ListInv, StackInv, ListTypeOK

-----------------------------------------------------------------------------
(* HomeScreen: a change of the filters replaces the fetch in flight.       *)

(* A fetch replaces the one in flight, and clears the error.               *)
LEMMA HomeFetch ==
  ASSUME HomeTypeOK, NEW f \in Filters, NEW refresh \in BOOLEAN, NEW silent \in BOOLEAN
  PROVE  LET h == WithHomeFetch(home, f, refresh, silent) IN
         /\ h \in [mounted : BOOLEAN, shown : Filters \cup {AnyCar}, fetches : SUBSET Filters,
                   loading : BOOLEAN, refreshing : BOOLEAN, hasError : BOOLEAN]
         /\ h.mounted = home.mounted /\ h.shown = home.shown
         /\ h.fetches = {f} /\ ~h.hasError
BY DEF HomeTypeOK, WithHomeFetch, InsteadOf

(* A change of the filters keeps the fetch in step with them.              *)
LEMMA Filtering ==
  ASSUME HomeInv, NEW new \in Filters, Mounted, Filter(new)
  PROVE  /\ filters' \in Filters
         /\ home' \in [mounted : BOOLEAN, shown : Filters \cup {AnyCar},
                       fetches : SUBSET Filters, loading : BOOLEAN,
                       refreshing : BOOLEAN, hasError : BOOLEAN]
         /\ FetchInv'
<1>1. CASE new = filters
  BY <1>1 DEF HomeInv, HomeTypeOK, FetchInv, Mounted, Filter, Refetched
<1>2. CASE new # filters
  <2>1. home' = WithHomeFetch(home, new, FALSE, TRUE) /\ filters' = new
    BY <1>2 DEF Filter, Refetched
  <2>2. /\ home' \in [mounted : BOOLEAN, shown : Filters \cup {AnyCar},
                      fetches : SUBSET Filters, loading : BOOLEAN,
                      refreshing : BOOLEAN, hasError : BOOLEAN]
        /\ home'.fetches = {new}
    BY <2>1, HomeFetch DEF HomeInv
  <2> QED BY <2>1, <2>2 DEF FetchInv, Mounted
<1> QED BY <1>1, <1>2

(* The filters a tap can choose.                                           *)
LEMMA FiltersChosen ==
  ASSUME filters \in Filters
  PROVE  /\ \A r \in HomeRegions \cup {AnyCar} : [filters EXCEPT !.region = r] \in Filters
         /\ \A c \in CarTypes \cup {AnyCar} : [filters EXCEPT !.type = c] \in Filters
         /\ \A s \in Texts \cup {AnyCar} : [filters EXCEPT !.text = s] \in Filters
BY DEF Filters

LEMMA HomeInvInit == HomeInit => HomeInv
<1> SUFFICES ASSUME HomeInit PROVE HomeInv
  OBVIOUS
<1>1. NoFilters \in Filters
  BY DEF NoFilters, Filters
<1>2. HomeTypeOK
  BY <1>1, HomeAssumption DEF HomeInit, HomeTypeOK
<1> QED BY <1>1, <1>2 DEF HomeInit, HomeInv, FetchInv, Mounted

(* Every event on the home screen keeps its invariant.                     *)
LEMMA HomeInvStep == HomeInv /\ [HomeNext]_homeVars => HomeInv'
<1> SUFFICES ASSUME HomeInv, [HomeNext]_homeVars PROVE HomeInv'
  OBVIOUS
<1>a. HomeTypeOK /\ FetchInv
  BY DEF HomeInv
<1>1. CASE UNCHANGED homeVars
  BY <1>1, <1>a DEF homeVars, HomeInv, HomeTypeOK, FetchInv, Mounted
<1>2. ASSUME NEW new \in Filters, Mounted, Filter(new), UNCHANGED <<tabs, homeLost>>,
             typed' \in Texts \cup {AnyCar}, debounce' \in BOOLEAN, taps' \in 0 .. MaxTaps
      PROVE  HomeInv'
  BY <1>2, <1>a, Filtering DEF HomeInv, HomeTypeOK
<1>3. Tap => Mounted /\ taps' \in 0 .. MaxTaps
  BY <1>a, HomeAssumption DEF Tap, HomeTypeOK
<1>4. ASSUME NEW r \in HomeRegions \cup {AnyCar}, PickHomeRegion(r) PROVE HomeInv'
  <2>1. [filters EXCEPT !.region = r] \in Filters
    BY <1>a, FiltersChosen DEF HomeTypeOK
  <2> QED BY <1>2, <1>3, <1>4, <1>a, <2>1 DEF PickHomeRegion, HomeTypeOK
<1>5. ASSUME NEW c \in CarTypes \cup {AnyCar}, PickType(c) PROVE HomeInv'
  <2>1. [filters EXCEPT !.type = c] \in Filters
    BY <1>a, FiltersChosen DEF HomeTypeOK
  <2> QED BY <1>2, <1>3, <1>5, <1>a, <2>1 DEF PickType, HomeTypeOK
<1>6. ASSUME NEW s \in Texts \cup {AnyCar}, Type(s) PROVE HomeInv'
  BY <1>3, <1>6, <1>a DEF Type, HomeInv, HomeTypeOK, FetchInv, Mounted
<1>7. CASE ClearSearch
  <2>1. [filters EXCEPT !.text = AnyCar] \in Filters
    BY <1>a, FiltersChosen DEF HomeTypeOK
  <2> QED BY <1>2, <1>3, <1>7, <1>a, <2>1 DEF ClearSearch, HomeTypeOK
<1>8. CASE Debounced
  <2>1. [filters EXCEPT !.text = typed] \in Filters
    BY <1>a, FiltersChosen DEF HomeTypeOK
  <2> QED BY <1>2, <1>8, <1>a, <2>1 DEF Debounced, HomeTypeOK
<1>9. CASE RefreshHome
  <2>1. PICK refresh \in BOOLEAN : home' = WithHomeFetch(home, filters, refresh, FALSE)
    BY <1>9 DEF RefreshHome
  <2>2. /\ home' \in [mounted : BOOLEAN, shown : Filters \cup {AnyCar},
                      fetches : SUBSET Filters, loading : BOOLEAN,
                      refreshing : BOOLEAN, hasError : BOOLEAN]
        /\ home'.fetches = {filters}
    BY <1>a, <2>1, HomeFetch DEF HomeTypeOK
  <2>3. tabs' \in [asked : BOOLEAN, here : BOOLEAN]
    BY <1>9, <1>a DEF RefreshHome, HomeTypeOK
  <2>4. UNCHANGED <<filters, typed, debounce, homeLost>>
    BY <1>9 DEF RefreshHome
  <2>5. FetchInv'
    BY <2>2, <2>4 DEF FetchInv, Mounted
  <2> QED BY <1>3, <1>9, <1>a, <2>2, <2>3, <2>4, <2>5 DEF RefreshHome, HomeInv, HomeTypeOK
<1>10. ASSUME NEW f \in home.fetches, CarsArrive(f) PROVE HomeInv'
  <2>1. HomeTypeOK'
    BY <1>10, <1>a DEF CarsArrive, Answered, HomeTypeOK
  <2>2. home'.fetches = home.fetches \ {f} /\ home'.shown = f /\ home'.mounted = home.mounted
    BY <1>10, <1>a DEF CarsArrive, Answered, HomeTypeOK
  <2> QED BY <1>10, <1>a, <2>1, <2>2 DEF CarsArrive, HomeInv, FetchInv, Mounted
<1>11. ASSUME NEW f \in home.fetches, CarsFail(f) PROVE HomeInv'
  <2>0. homeLost' \in 0 .. MaxHomeLost
    BY <1>11, <1>a, HomeAssumption DEF CarsFail, HomeTypeOK
  <2>1. HomeTypeOK'
    BY <1>11, <1>a, <2>0 DEF CarsFail, Answered, HomeTypeOK
  <2>2. /\ home'.fetches = home.fetches \ {f} /\ home'.hasError
        /\ home'.mounted = home.mounted
    BY <1>11, <1>a DEF CarsFail, Answered, HomeTypeOK
  <2> QED BY <1>11, <1>a, <2>1, <2>2 DEF CarsFail, HomeInv, FetchInv, Mounted
<1>12. CASE TabsArrive
  <2>1. tabs' \in [asked : BOOLEAN, here : BOOLEAN]
    <3>1. tabs \in [asked : BOOLEAN, here : BOOLEAN]
      BY <1>a DEF HomeTypeOK
    <3>2. [tabs EXCEPT !.asked = FALSE] \in [asked : BOOLEAN, here : BOOLEAN]
      BY <3>1
    <3>3. tabs' = [asked |-> FALSE, here |-> TRUE] \/ tabs' = [tabs EXCEPT !.asked = FALSE]
      BY <1>12 DEF TabsArrive
    <3>4. [asked |-> FALSE, here |-> TRUE] \in [asked : BOOLEAN, here : BOOLEAN]
      OBVIOUS
    <3>5. CASE tabs' = [asked |-> FALSE, here |-> TRUE]
      BY <3>4, <3>5
    <3>6. CASE tabs' = [tabs EXCEPT !.asked = FALSE]
      BY <3>2, <3>6
    <3> QED BY <3>3, <3>5, <3>6
  <2> QED BY <1>12, <1>a, <2>1 DEF TabsArrive, HomeInv, HomeTypeOK, FetchInv, Mounted
<1>13. CASE LeaveHome
  <2>1. HomeTypeOK' /\ home'.fetches = {} /\ ~home'.mounted
    BY <1>3, <1>13, <1>a DEF LeaveHome, HomeTypeOK
  <2> QED BY <2>1 DEF HomeInv, FetchInv, Mounted
<1> QED
  BY <1>1, <1>4, <1>5, <1>6, <1>7, <1>8, <1>9, <1>10, <1>11, <1>12, <1>13
  DEF HomeNext, HomeProceeds

(* HomeInv, for any filters and any number of taps and lost answers.       *)
THEOREM HomeInvariant == HomeSpec => []HomeInv
BY HomeInvInit, HomeInvStep, PTL DEF HomeSpec

(* HomeShowsFilters for any filters, taps and lost answers: the cars on    *)
(* the screen are never left to be those of a filter that was taken back.  *)
THEOREM HomeKeepsUp == HomeSpec => []HomeShowsFilters
<1>1. HomeInv => HomeShowsFilters
  BY DEF HomeInv, HomeTypeOK, FetchInv, HomeShowsFilters, HomeShows
<1> QED BY <1>1, HomeInvariant, PTL

-----------------------------------------------------------------------------
(* AdminPanel: pendingRequests never outlives the requests it is about,    *)
(* but for those with a body.                                              *)

(* A request that is sent is awaited, and one that is refused forgotten.   *)
LEMMA Sending ==
  ASSUME PendingInv, NEW k,
         wire' = OnWire(k), pendingRequests' = PendingAfterSending(k)
  PROVE  PendingInv'
<1> DEFINE new == [n |-> sent + 1, key |-> k, silent |-> FALSE, answer |-> {}]
<1>1. \A r \in wire' : r \in wire \/ r = new
  BY DEF OnWire
<1>2. \A r \in wire : r \in wire'
  BY DEF OnWire
<1>3. \A j \in pendingRequests' : j \in pendingRequests \/ (j = k /\ new \in wire')
  BY DEF PendingAfterSending, OnWire
<1>4. new.key = k
  OBVIOUS
<1>5. WireShape'
  BY <1>1 DEF PendingInv, WireShape
<1>6. PendingIsAwaited'
  BY <1>2, <1>3, <1>4 DEF PendingInv, PendingIsAwaited, HasBody, IsRead
<1> QED BY <1>5, <1>6 DEF PendingInv

(* A query asks for itself or joins the request that is awaited.           *)
LEMMA Querying ==
  ASSUME PendingInv, NEW k, QueryFetched(k)
  PROVE  PendingInv'
<1>1. CASE UNCHANGED <<wire, pendingRequests>>
  BY <1>1 DEF PendingInv, WireShape, PendingIsAwaited, HasBody, IsRead
<1>2. CASE wire' = OnWire(k) /\ pendingRequests' = PendingAfterSending(k)
  BY <1>2, Sending
<1> QED BY <1>1, <1>2 DEF QueryFetched

(* With a request that is over goes its key.                               *)
LEMMA Ending ==
  ASSUME PendingInv, NEW r \in wire, wire' = wire \ {r},
         pendingRequests' = PendingAfterAnswer(r.key)
  PROVE  PendingInv'
<1>1. WireShape'
  BY DEF PendingInv, WireShape
<1>2. ASSUME NEW k \in pendingRequests', ~HasBody(k)
      PROVE  \E s \in wire' : s.key = k
  <2>1. k \in pendingRequests /\ k # r.key
    BY <1>2 DEF PendingAfterAnswer
  <2>2. PICK s \in wire : s.key = k
    BY <1>2, <2>1 DEF PendingInv, PendingIsAwaited
  <2> QED BY <2>1, <2>2
<1> QED BY <1>1, <1>2 DEF PendingInv, PendingIsAwaited, HasBody, IsRead

(* The code forgets the key of a request that failed in the same way.      *)
LEMMA Failing == ASSUME NEW k PROVE PendingAfterError(k) = PendingAfterAnswer(k)
BY DEF PendingAfterError, PendingAfterAnswer

(* The server's answer is to the request it was asked.                     *)
LEMMA AnswerReaches ==
  ASSUME PendingInv, NEW r \in wire, NEW a, wire' = Answering(r, a), UNCHANGED pendingRequests
  PROVE  PendingInv'
<1> DEFINE s == [r EXCEPT !.answer = {a}]
<1>1. /\ s = [n |-> s.n, key |-> s.key, silent |-> s.silent, answer |-> s.answer]
      /\ s.key = r.key
  BY DEF PendingInv, WireShape
<1>2. wire' = (wire \ {r}) \cup {s}
  BY DEF Answering
<1>3. WireShape'
  BY <1>1, <1>2 DEF PendingInv, WireShape
<1>4. PendingIsAwaited'
  BY <1>1, <1>2 DEF PendingInv, PendingIsAwaited, HasBody, IsRead
<1> QED BY <1>3, <1>4 DEF PendingInv

(* After a change the query's key is pending if it is asked for anew; the  *)
(* earlier fetches of it are still on the wire.                            *)
LEMMA Invalidating ==
  ASSUME PendingInv, NEW r \in wire, Invalidated(r)
  PROVE  PendingInv'
<1> DEFINE k == ListKey(screen, choice)
           others == Silenced(wire \ {r}, k)
           pending == PendingAfterAnswer(r.key)
           new == [n |-> sent + 1, key |-> k, silent |-> FALSE, answer |-> {}]
<1>1. \A s \in others : /\ s = [n |-> s.n, key |-> s.key, silent |-> s.silent,
                               answer |-> s.answer]
                        /\ \E q \in wire \ {r} : s.key = q.key
  BY DEF Silenced, PendingInv, WireShape
<1>2. \A q \in wire \ {r} : \E s \in others : s.key = q.key
  <2> SUFFICES ASSUME NEW q \in wire \ {r} PROVE \E s \in others : s.key = q.key
    OBVIOUS
  <2> DEFINE s == IF q.key = k THEN [q EXCEPT !.silent = TRUE] ELSE q
  <2>1. s \in others
    BY DEF Silenced
  <2>2. s.key = q.key
    BY DEF PendingInv, WireShape
  <2> QED BY <2>1, <2>2
<1>3. \A j \in pending : HasBody(j) \/ \E s \in others : s.key = j
  <2> SUFFICES ASSUME NEW j \in pending, ~HasBody(j) PROVE \E s \in others : s.key = j
    OBVIOUS
  <2>1. j \in pendingRequests /\ j # r.key
    BY DEF PendingAfterAnswer
  <2>2. PICK q \in wire : q.key = j
    BY <2>1 DEF PendingInv, PendingIsAwaited
  <2> QED BY <1>2, <2>1, <2>2
<1>4. CASE k \in pending
  <2>1. wire' = others /\ pendingRequests' = pending \ {k}
    BY <1>4 DEF Invalidated
  <2> QED BY <1>1, <1>3, <2>1 DEF PendingInv, WireShape, PendingIsAwaited, HasBody, IsRead
<1>5. CASE k \notin pending
  <2>1. wire' = others \cup {new} /\ pendingRequests' = pending \cup {k}
    BY <1>5 DEF Invalidated
  <2>2. new = [n |-> new.n, key |-> new.key, silent |-> new.silent, answer |-> new.answer]
        /\ new.key = k
    OBVIOUS
  <2>3. WireShape'
    BY <1>1, <2>1, <2>2 DEF WireShape
  <2>4. PendingIsAwaited'
    BY <1>3, <2>1, <2>2 DEF PendingIsAwaited, HasBody, IsRead
  <2> QED BY <2>3, <2>4 DEF PendingInv
<1> QED BY <1>4, <1>5

-----------------------------------------------------------------------------
(* The first page's request is awaited.                                    *)
LEMMA PendingInvInit == PanelInit => PendingInv
<1> SUFFICES ASSUME PanelInit PROVE PendingInv
  OBVIOUS
<1> DEFINE sending(k) == [n |-> 1, key |-> k, silent |-> FALSE, answer |-> {}]
<1>1. wire = {sending(k) : k \in pendingRequests}
  BY Zenon DEF PanelInit
<1>2. \A k : sending(k) = [n |-> sending(k).n, key |-> sending(k).key,
                          silent |-> sending(k).silent, answer |-> sending(k).answer]
              /\ sending(k).key = k
  OBVIOUS
<1> HIDE DEF sending
<1>3. WireShape
  BY <1>1, <1>2 DEF WireShape
<1>4. PendingIsAwaited
  BY <1>1, <1>2 DEF PendingIsAwaited
<1> QED BY <1>3, <1>4 DEF PendingInv

(* Nothing the viewer, the network or the server does leaves a key behind. *)
LEMMA PendingInvStep ==
  ASSUME PendingInv, [PanelNext]_panelVars
  PROVE  PendingInv'
<1>0. ASSUME UNCHANGED <<wire, pendingRequests>>
      PROVE  PendingInv'
  BY <1>0 DEF PendingInv, WireShape, PendingIsAwaited, HasBody, IsRead
<1>1. CASE UNCHANGED panelVars
  BY <1>0, <1>1 DEF panelVars
<1>2. ASSUME NEW s \in SidebarItems, Open(s)
      PROVE  PendingInv'
  BY <1>2, Querying DEF Open
<1>3. ASSUME NEW c, Choose(c)
      PROVE  PendingInv'
  BY <1>3, Querying DEF Choose
<1>4. CASE FilterUsers \/ FilterCars \/ FilterBookings \/ FilterAudit
  <2>1. \E c : Choose(c)
    BY <1>4 DEF FilterUsers, FilterCars, FilterBookings, FilterAudit, Search, Dropdown
  <2> QED BY <1>3, <2>1
<1>5. CASE NextPage \/ PreviousPage
  BY <1>3, <1>5 DEF NextPage, PreviousPage
<1>6. CASE Refocus
  BY <1>6, Querying DEF Refocus
<1>7. CASE RetryRead
  BY <1>7, Sending DEF RetryRead
<1>8. ASSUME NEW c, OpenDialog(c)
      PROVE  PendingInv'
  BY <1>0, <1>8 DEF OpenDialog
<1>9. CASE Dismiss
  BY <1>0, <1>9 DEF Dismiss
<1>10. CASE ConfirmChange
  BY <1>10, Sending DEF ConfirmChange
<1>11. ASSUME NEW f, Submit(f)
       PROVE  PendingInv'
  BY <1>11, Sending DEF Submit
<1>12. ASSUME NEW r \in wire, ServerReads(r) \/ ServerWrites(r)
       PROVE  PendingInv'
  <2>1. UNCHANGED pendingRequests /\ \E a : wire' = Answering(r, a)
    BY <1>12 DEF ServerReads, ServerWrites
  <2> QED BY <2>1, AnswerReaches
<1>13. ASSUME NEW r \in wire, ListArrives(r) \/ ReadFails(r) \/ ChangeFails(r)
       PROVE  PendingInv'
  BY <1>13, Ending, Failing DEF ListArrives, ReadFails, ChangeFails
<1>14. ASSUME NEW r \in wire, ChangeDone(r) \/ FormSaved(r)
       PROVE  PendingInv'
  BY <1>14, Ending, Invalidating DEF ChangeDone, FormSaved
<1>15. CASE LeavePanel
  BY <1>15 DEF LeavePanel, PendingInv, WireShape, PendingIsAwaited
<1>16. ASSUME NEW v \in Viewers, LogIn(v)
       PROVE  PendingInv'
  BY <1>16, Querying DEF LogIn
<1> QED
  BY <1>1, <1>2, <1>4, <1>5, <1>6, <1>7, <1>8, <1>9, <1>10, <1>11, <1>12, <1>13, <1>14,
     <1>15, <1>16 DEF PanelNext

(* Every button opens the dialog of a change.                              *)
LEMMA ButtonsAsk ==
  ASSUME NEW i, NEW r, NEW c \in Buttons(i, r)
  PROVE  ~IsRead(c)
<1>1. \E t, j, w, to : c = Change(t, j, w, to)
  <2>1. CASE screen = "users"
    BY <2>1 DEF Buttons, UserButtons
  <2>2. CASE screen = "cars"
    BY <2>2 DEF Buttons, CarButtons
  <2>3. CASE screen = "bookings"
    BY <2>3 DEF Buttons, BookingButtons
  <2>4. CASE screen = "reviews"
    BY <2>4 DEF Buttons, ReviewButtons
  <2>5. CASE screen = "admins"
    BY <2>5 DEF Buttons, AdminButtons
  <2> QED BY <2>1, <2>2, <2>3, <2>4, <2>5 DEF Buttons
<1> QED BY <1>1 DEF Change, IsRead

LEMMA AskingStep ==
  ASSUME AsksForChange, [PanelNext]_panelVars
  PROVE  AsksForChange'
<1>1. ASSUME NEW c, OpenDialog(c)
      PROVE  AsksForChange'
  <2>1. PICK l \in Shown : \E i \in DOMAIN l.rows : c \in Buttons(i, l.rows[i])
    BY <1>1 DEF OpenDialog
  <2>2. ~IsRead(c) /\ dialog' = {c}
    BY <1>1, <2>1, ButtonsAsk DEF OpenDialog
  <2> QED BY <2>2 DEF AsksForChange, IsRead
<1>2. dialog' = dialog \/ dialog' = {} \/ \E c : OpenDialog(c)
  BY DEF PanelNext, panelVars, Open, FilterUsers, FilterCars, FilterBookings, FilterAudit,
         NextPage, PreviousPage, Search, Dropdown, Choose, Refocus, RetryRead, Dismiss,
         ConfirmChange, Submit, ServerReads, ServerWrites, ListArrives, ReadFails, ChangeDone,
         FormSaved, ChangeFails, LeavePanel, LogIn
<1> QED BY <1>1, <1>2 DEF AsksForChange, IsRead

(* A page is busy with one of the requests that are awaited: whichever     *)
(* ends, the page it belongs to is free, and one that left it is not.      *)
LEMMA BusyStep ==
  ASSUME WireShape, AsksForChange, BusyIsAwaited, [PanelNext]_panelVars
  PROVE  BusyIsAwaited'
<1> DEFINE Keeps(w) == \A r \in wire : \E s \in w : s.n = r.n /\ s.key = r.key
<1>0. ASSUME busy' = busy \/ busy' = 0, Keeps(wire')
      PROVE  BusyIsAwaited'
  BY <1>0 DEF BusyIsAwaited, IsRead
<1>a. ASSUME NEW k, wire' = OnWire(k) PROVE Keeps(wire')
  BY <1>a DEF OnWire
<1>b. ASSUME NEW k, QueryFetched(k) PROVE Keeps(wire')
  BY <1>a, <1>b DEF QueryFetched
<1>c. ASSUME NEW c, ~IsRead(c), wire' = OnWire(c), busy' = BusyWith(c)
      PROVE  BusyIsAwaited'
  <2> DEFINE new == [n |-> sent + 1, key |-> c, silent |-> FALSE, answer |-> {}]
  <2>1. new.n = sent + 1 /\ new.key = c
    OBVIOUS
  <2>2. ~Refused(c) => new \in wire'
    BY <1>c DEF OnWire
  <2> QED BY <1>c, <2>1, <2>2 DEF BusyWith, BusyIsAwaited, IsRead
<1>d. ASSUME NEW r \in wire, busy' = BusyAfter(r) \/ (IsRead(r.key) /\ busy' = busy),
             NEW others, \A q \in wire \ {r} : \E s \in others : s.n = q.n /\ s.key = q.key,
             \A s \in others : s \in wire'
      PROVE  BusyIsAwaited'
  BY <1>d DEF BusyAfter, BusyIsAwaited, IsRead
<1>1. CASE UNCHANGED panelVars
  BY <1>0, <1>1 DEF panelVars
<1>2. ASSUME NEW s \in SidebarItems, Open(s)
      PROVE  BusyIsAwaited'
  BY <1>0, <1>2, <1>b DEF Open
<1>3. ASSUME NEW c, Choose(c)
      PROVE  BusyIsAwaited'
  BY <1>0, <1>3, <1>b DEF Choose
<1>4. CASE FilterUsers \/ FilterCars \/ FilterBookings \/ FilterAudit
             \/ NextPage \/ PreviousPage
  BY <1>3, <1>4 DEF FilterUsers, FilterCars, FilterBookings, FilterAudit, Search, Dropdown,
                    NextPage, PreviousPage
<1>5. CASE Refocus \/ RetryRead
  BY <1>0, <1>5, <1>a, <1>b DEF Refocus, RetryRead
<1>6. CASE Dismiss \/ \E c : OpenDialog(c)
  BY <1>0, <1>6 DEF Dismiss, OpenDialog
<1>7. CASE ConfirmChange
  BY <1>7, <1>c DEF ConfirmChange, AsksForChange
<1>8. ASSUME NEW f, Submit(f)
      PROVE  BusyIsAwaited'
  BY <1>8, <1>c DEF Submit, Change, IsRead
<1>9. ASSUME NEW r \in wire, ServerReads(r) \/ ServerWrites(r)
      PROVE  BusyIsAwaited'
  <2>1. PICK a : wire' = Answering(r, a) /\ busy' = busy
    BY <1>9 DEF ServerReads, ServerWrites
  <2>2. [r EXCEPT !.answer = {a}].n = r.n /\ [r EXCEPT !.answer = {a}].key = r.key
    BY DEF WireShape
  <2> QED BY <1>0, <2>1, <2>2 DEF Answering
<1>10. ASSUME NEW r \in wire, ListArrives(r) \/ ReadFails(r) \/ FormSaved(r) \/ ChangeFails(r)
       PROVE  BusyIsAwaited'
  BY <1>10, <1>d DEF ListArrives, ReadFails, FormSaved, ChangeFails
<1>11. ASSUME NEW r \in wire, ChangeDone(r)
       PROVE  BusyIsAwaited'
  <2> DEFINE k == ListKey(screen, choice)
             others == Silenced(wire \ {r}, k)
  <2>1. ASSUME NEW q \in wire \ {r} PROVE \E s \in others : s.n = q.n /\ s.key = q.key
    <3> DEFINE s == IF q.key = k THEN [q EXCEPT !.silent = TRUE] ELSE q
    <3>1. s \in others
      BY DEF Silenced
    <3>2. s.n = q.n /\ s.key = q.key
      BY DEF WireShape
    <3> QED BY <3>1, <3>2
  <2>2. \A s \in others : s \in wire'
    BY <1>11 DEF ChangeDone, Invalidated
  <2>3. busy' = BusyAfter(r)
    BY <1>11 DEF ChangeDone
  <2> HIDE DEF others
  <2> QED BY <1>d, <2>1, <2>2, <2>3
<1>12. CASE LeavePanel
  <2>1. busy' = 0
    BY <1>12, Zenon DEF LeavePanel
  <2> QED BY <2>1 DEF BusyIsAwaited
<1>13. ASSUME NEW v \in Viewers, LogIn(v)
       PROVE  BusyIsAwaited'
  BY <1>0, <1>13, <1>b DEF LogIn
<1> QED
  BY <1>1, <1>2, <1>4, <1>5, <1>6, <1>7, <1>8, <1>9, <1>10, <1>11, <1>12, <1>13 DEF PanelNext

LEMMA PanelInvInit == PanelInit => PanelInv
BY PendingInvInit DEF PanelInit, PanelInv, BusyIsAwaited, AsksForChange

LEMMA PanelInvStep ==
  ASSUME PanelInv, [PanelNext]_panelVars
  PROVE  PanelInv'
BY PendingInvStep, BusyStep, AskingStep DEF PanelInv, PendingInv

(* PendingIsAwaited for any tables, viewers and number of requests: no     *)
(* list is ever refused on account of a request that is over.              *)
THEOREM PanelPendingIsAwaited == PanelSpec => []PendingIsAwaited
<1>1. PanelInit => PendingInv
  BY PendingInvInit
<1>2. PendingInv /\ [PanelNext]_panelVars => PendingInv'
  BY PendingInvStep
<1>3. PendingInv => PendingIsAwaited
  BY DEF PendingInv
<1> QED BY <1>1, <1>2, <1>3, PTL DEF PanelSpec
(* What a query's fetch leaves of the types.                               *)
LEMMA QueryTypes ==
  ASSUME PanelTypeOK, PanelInv, NEW k, QueryFetched(k)
  PROVE  /\ run' \in [state : {"idle", "sent", "waiting", "failed"}, left : 0 .. MaxRetries]
         /\ run'.state = "waiting" => run'.left > 0
         /\ \A r \in wire' : \A a, b \in r.answer : a = b
<1> USE PanelAssumption
<1>1. run' = Idle \/ run' = [state |-> "sent", left |-> MaxRetries]
        \/ run' = [state |-> "waiting", left |-> MaxRetries]
  BY DEF QueryFetched
<1>2. \A r \in wire' : r \in wire \/ r.answer = {}
  BY DEF QueryFetched, OnWire
<1> QED BY <1>1, <1>2 DEF PanelTypeOK, Idle

LEMMA Searching ==
  Search => \E text \in BOOLEAN : Choose([choice EXCEPT !.text = text, !.page = 1])
<1>1. ASSUME Search, NEW text \in BOOLEAN, text = ~choice.text
      PROVE  Choose([choice EXCEPT !.text = text, !.page = 1])
  BY <1>1, Zenon DEF Search
<1>2. \E text \in BOOLEAN : text = ~choice.text
  OBVIOUS
<1> QED BY <1>1, <1>2

(* A filter goes back to the first page.                                   *)
LEMMA FirstPage ==
  ASSUME NEW c \in Choices
  PROVE  /\ \A by \in SUBSET Labels : [c EXCEPT !.by = by, !.page = 1] \in Choices
         /\ \A text \in BOOLEAN : [c EXCEPT !.text = text, !.page = 1] \in Choices
<1>1. \A d \in Choices : [d EXCEPT !.page = 1] \in Choices
  BY DEF Choices
<1>2. ASSUME NEW by \in SUBSET Labels
      PROVE  [c EXCEPT !.by = by, !.page = 1] \in Choices
  <2>1. [c EXCEPT !.by = by] \in Choices
    BY DEF Choices
  <2>2. [c EXCEPT !.by = by, !.page = 1] = [[c EXCEPT !.by = by] EXCEPT !.page = 1]
    BY DEF Choices
  <2> QED BY <1>1, <2>1, <2>2
<1>3. ASSUME NEW text \in BOOLEAN
      PROVE  [c EXCEPT !.text = text, !.page = 1] \in Choices
  <2>1. [c EXCEPT !.text = text] \in Choices
    BY DEF Choices
  <2>2. [c EXCEPT !.text = text, !.page = 1] = [[c EXCEPT !.text = text] EXCEPT !.page = 1]
    BY DEF Choices
  <2> QED BY <1>1, <2>1, <2>2
<1> QED BY <1>2, <1>3

(* A choice of filters and page is one.                                    *)
LEMMA ChoiceTypes ==
  ASSUME PanelTypeOK, FilterUsers \/ FilterCars \/ FilterBookings \/ FilterAudit
                        \/ NextPage \/ PreviousPage
  PROVE  \E c \in Choices : Choose(c)
<1>0. choice \in Choices
  BY DEF PanelTypeOK
<1>1. CASE Search
  BY <1>0, <1>1, Searching, FirstPage
<1>2. ASSUME NEW values, NEW v \in SUBSET Labels, Dropdown(values, v)
      PROVE  \E c \in Choices : Choose(c)
  <2>1. (choice.by \ values) \cup v \in SUBSET Labels
    BY <1>0 DEF Choices
  <2> QED BY <1>0, <1>2, <2>1, FirstPage DEF Dropdown
<1>3. CASE FilterUsers
  BY <1>1, <1>2, <1>3 DEF FilterUsers, Labels
<1>4. CASE FilterCars
  BY <1>1, <1>2, <1>4 DEF FilterCars, Labels, PanelStatuses
<1>5. CASE FilterBookings
  BY <1>1, <1>2, <1>5 DEF FilterBookings, Labels
<1>6. CASE FilterAudit
  BY <1>2, <1>6 DEF FilterAudit, Labels
<1>7. CASE NextPage
  <2>1. [choice EXCEPT !.page = @ + 1] \in Choices
    BY <1>0 DEF Choices
  <2> QED BY <1>7, <2>1 DEF NextPage
<1>8. CASE PreviousPage
  <2>1. [choice EXCEPT !.page = @ - 1] \in Choices
    BY <1>0, <1>8 DEF PreviousPage, Choices
  <2> QED BY <1>8, <2>1 DEF PreviousPage
<1> QED BY <1>3, <1>4, <1>5, <1>6, <1>7, <1>8

LEMMA PanelTypeInit == PanelInit => PanelTypeOK
<1> SUFFICES ASSUME PanelInit PROVE PanelTypeOK
  OBVIOUS
<1>1. choice \in Choices
  BY DEF PanelInit, NoChoice, Choices
<1>2. screen \in {"settings", "dashboard", "users", "cars", "bookings", "reviews", "admins",
                  "audit"}
  BY DEF PanelInit, SidebarItems
<1>3. Cardinality(dialog) = 0
  BY FS_EmptySet DEF PanelInit
<1>4. run \in [state : {"idle", "sent", "waiting", "failed"}, left : 0 .. MaxRetries]
      /\ run.state # "waiting"
  BY PanelAssumption DEF PanelInit, Idle
<1>5. \A r \in wire : \A a, b \in r.answer : a = b
  BY DEF PanelInit
<1>6. viewer \in Viewers /\ busy = 0 /\ lists = {} /\ sent = 1
  BY Zenon DEF PanelInit
<1>7. 0 \in 0 .. MaxSent /\ 1 \in 0 .. MaxSent
  BY PanelAssumption
<1> QED BY <1>1, <1>2, <1>3, <1>4, <1>5, <1>6, <1>7 DEF PanelTypeOK

LEMMA PanelTypeStep ==
  ASSUME PanelTypeOK, PanelInv, [PanelNext]_panelVars
  PROVE  PanelTypeOK'
<1> USE PanelAssumption
<1> DEFINE Answers(w) == \A r \in w : \A a, b \in r.answer : a = b
           Runs == [state : {"idle", "sent", "waiting", "failed"}, left : 0 .. MaxRetries]
           RunOK(r) == r \in Runs /\ (r.state = "waiting" => r.left > 0)
           Lists(s) == \A l, m \in s : l.key = m.key => l = m
           Screen == {"login", "settings", "dashboard", "users", "cars", "bookings",
                      "reviews", "admins", "audit"}
<1>0. /\ viewer \in Viewers \cup {"none"} /\ busy \in 0 .. MaxSent /\ screen \in Screen
      /\ choice \in Choices /\ Cardinality(dialog) <= 1 /\ sent \in 0 .. MaxSent
      /\ RunOK(run) /\ Answers(wire) /\ Lists(lists)
  BY DEF PanelTypeOK
<1>a. SUFFICES
        /\ viewer' \in Viewers \cup {"none"} /\ busy' \in 0 .. MaxSent /\ screen' \in Screen
        /\ choice' \in Choices /\ Cardinality(dialog') <= 1 /\ sent' \in 0 .. MaxSent
        /\ RunOK(run') /\ Answers(wire') /\ Lists(lists')
  BY DEF PanelTypeOK
<1>b. NoChoice \in Choices /\ Cardinality({}) <= 1 /\ RunOK(Idle)
  BY FS_EmptySet DEF NoChoice, Choices, Idle
<1>c. Acts => sent' \in 0 .. MaxSent
  BY <1>0 DEF Acts
<1>d. ASSUME NEW k, wire' = OnWire(k) PROVE Answers(wire')
  BY <1>0, <1>d DEF OnWire
<1>e. ASSUME NEW k, QueryFetched(k) PROVE RunOK(run') /\ Answers(wire')
  BY <1>e, QueryTypes
<1>f. ASSUME NEW r \in wire, wire' = wire \ {r} PROVE Answers(wire')
  BY <1>0, <1>f
<1>g. ASSUME NEW c, Acts, busy' = BusyWith(c) PROVE busy' \in 0 .. MaxSent
  BY <1>0, <1>g DEF Acts, BusyWith
<1>h. ASSUME NEW r, busy' = BusyAfter(r) PROVE busy' \in 0 .. MaxSent
  BY <1>0, <1>h DEF BusyAfter
<1>1. CASE UNCHANGED panelVars
  BY <1>0, <1>1 DEF panelVars
<1>2. ASSUME NEW s \in SidebarItems, Open(s)
      PROVE  PanelTypeOK'
  <2>1. s \in Screen
    BY DEF SidebarItems
  <2> QED BY <1>0, <1>2, <1>b, <1>c, <1>e, <2>1 DEF Open, PanelTypeOK
<1>3. CASE FilterUsers \/ FilterCars \/ FilterBookings \/ FilterAudit
             \/ NextPage \/ PreviousPage
  <2>1. PICK c \in Choices : Choose(c)
    BY <1>3, ChoiceTypes
  <2> QED BY <1>0, <1>c, <1>e, <2>1 DEF Choose
<1>4. CASE Refocus
  BY <1>0, <1>4, <1>c, <1>e DEF Refocus
<1>5. CASE RetryRead
  <2>1. run.left \in 1 .. MaxRetries
    BY <1>0, <1>5 DEF RetryRead
  <2>2. \/ run' = [run EXCEPT !.state = "sent", !.left = @ - 1]
        \/ run.left > 1 /\ run' = [run EXCEPT !.left = @ - 1]
        \/ run' = [state |-> "failed", left |-> 0]
    BY <1>5 DEF RetryRead
  <2>3. \/ run' = [state |-> "sent", left |-> run.left - 1]
        \/ run.left > 1 /\ run' = [state |-> "waiting", left |-> run.left - 1]
        \/ run' = [state |-> "failed", left |-> 0]
    BY <1>0, <1>5, <2>2 DEF RetryRead
  <2>4. RunOK(run')
    BY <2>1, <2>3
  <2> QED BY <1>0, <1>5, <1>c, <1>d, <2>4 DEF RetryRead
<1>6. ASSUME NEW c, OpenDialog(c)
      PROVE  PanelTypeOK'
  <2>1. Cardinality({c}) <= 1
    BY FS_Singleton
  <2> QED BY <1>0, <1>6, <2>1 DEF OpenDialog, PanelTypeOK
<1>7. CASE Dismiss
  BY <1>0, <1>7, <1>b DEF Dismiss
<1>8. CASE ConfirmChange
  BY <1>0, <1>8, <1>c, <1>d, <1>g DEF ConfirmChange
<1>9. ASSUME NEW f, Submit(f)
      PROVE  PanelTypeOK'
  <2>1. Answers(wire') /\ busy' \in 0 .. MaxSent
    BY <1>9, <1>d, <1>g DEF Submit
  <2> QED BY <1>0, <1>9, <1>c, <2>1 DEF Submit, PanelTypeOK
<1>10. ASSUME NEW r \in wire, ServerReads(r) \/ ServerWrites(r)
       PROVE  PanelTypeOK'
  <2>1. PICK a : wire' = Answering(r, a)
    BY <1>10 DEF ServerReads, ServerWrites
  <2>2. [r EXCEPT !.answer = {a}].answer = {a}
    BY DEF PanelInv, PendingInv, WireShape
  <2>3. \A s \in wire' : s \in wire \/ s.answer = {a}
    BY <2>1, <2>2 DEF Answering
  <2>4. Answers(wire')
    BY <1>0, <2>3
  <2> QED BY <1>0, <1>10, <2>4 DEF ServerReads, ServerWrites, PanelTypeOK
<1>11. ASSUME NEW r \in wire, ListArrives(r)
       PROVE  PanelTypeOK'
  <2>1. Lists(Cached(r))
    <3>1. \A a, b \in r.answer : a = b
      BY <1>0
    <3>2. \A l \in Cached(r) : \/ l \in lists /\ l.key # r.key
                               \/ \E a \in r.answer : l = [key |-> r.key, list |-> a]
      BY DEF Cached
    <3> QED BY <1>0, <3>1, <3>2
  <2> QED BY <1>0, <1>11, <1>b, <1>f, <2>1 DEF ListArrives, PanelTypeOK
<1>12. ASSUME NEW r \in wire, ReadFails(r)
       PROVE  PanelTypeOK'
  <2>1. RunOK(run')
    BY <1>0, <1>12 DEF ReadFails
  <2> QED BY <1>0, <1>12, <1>c, <1>f, <2>1 DEF ReadFails, PanelTypeOK
<1>13. ASSUME NEW r \in wire, ChangeDone(r)
       PROVE  PanelTypeOK'
  <2>1. sent' \in 0 .. MaxSent /\ RunOK(run')
    BY <1>0, <1>13 DEF ChangeDone, Invalidated
  <2>2. \A s \in wire' : s.answer = {} \/ \E q \in wire : s.answer = q.answer
    <3> DEFINE k == ListKey(screen, choice)
               others == Silenced(wire \ {r}, k)
               new == [n |-> sent + 1, key |-> k, silent |-> FALSE, answer |-> {}]
    <3>1. \A s \in others : \E q \in wire : s.answer = q.answer
      BY DEF Silenced, PanelInv, PendingInv, WireShape
    <3>2. new.answer = {}
      OBVIOUS
    <3>3. wire' = others \/ wire' = others \cup {new}
      BY <1>13 DEF ChangeDone, Invalidated
    <3> HIDE DEF others, new
    <3> QED BY <3>1, <3>2, <3>3
  <2>3. Answers(wire')
    BY <1>0, <2>2
  <2> QED BY <1>0, <1>13, <1>b, <1>h, <2>1, <2>3 DEF ChangeDone, PanelTypeOK
<1>14. ASSUME NEW r \in wire, ChangeFails(r)
       PROVE  PanelTypeOK'
  BY <1>0, <1>14, <1>c, <1>f, <1>h DEF ChangeFails, PanelTypeOK
<1>15. CASE LeavePanel
  <2>1. /\ viewer' = "none" /\ screen' = "login" /\ choice' = NoChoice /\ dialog' = {}
        /\ lists' = {} /\ run' = Idle /\ wire' = {} /\ Acts
    BY <1>15 DEF LeavePanel
  <2>2. busy' = 0
    BY <1>15, Zenon DEF LeavePanel
  <2> QED BY <1>b, <1>c, <2>1, <2>2
<1>17. ASSUME NEW r \in wire, FormSaved(r)
       PROVE  PanelTypeOK'
  BY <1>0, <1>17, <1>f, <1>h DEF FormSaved, PanelTypeOK
<1>16. ASSUME NEW v \in Viewers, LogIn(v)
       PROVE  PanelTypeOK'
  <2>1. sent' \in 0 .. MaxSent
    BY <1>0, <1>16 DEF LogIn
  <2> QED BY <1>0, <1>16, <1>e, <2>1 DEF LogIn, PanelTypeOK
<1> QED
  BY <1>1, <1>2, <1>3, <1>4, <1>5, <1>6, <1>7, <1>8, <1>9, <1>10, <1>11, <1>12, <1>13,
     <1>14, <1>15, <1>16, <1>17 DEF PanelNext, PanelTypeOK

(* The panel keeps its types: a list of the cache is one list, a request   *)
(* is answered once, and its retries never run below zero.                 *)
THEOREM PanelInvariant == PanelSpec => [](PanelInv /\ PanelTypeOK)
BY PanelInvInit, PanelInvStep, PanelTypeInit, PanelTypeStep, PTL DEF PanelSpec
=============================================================================
