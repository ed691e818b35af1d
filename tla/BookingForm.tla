----------------------------- MODULE BookingForm -----------------------------
(***************************************************************************)
(* BookingScreen: the form a renter books a car with, its calendar, the    *)
(* price it shows and the dates it proposes after a conflict.  The POST is *)
(* one step here; module Booking has its statements.  A day is its number  *)
(* from today on.  As shipped, the server answers neither the calendar nor *)
(* a conflict: findUpcomingBookings misses an import.  The form is modelled*)
(* against any server, one that answers them and one that fails.           *)
(***************************************************************************)
EXTENDS Intervals, FiniteSets

CONSTANTS
  LastDay,      \* bound on the days of the calendar
  FormPrices,   \* the values price_per_day takes
  FirstTables,  \* the active bookings of the car the form may open on
  OthersAsk,    \* the dates other renters book
  MaxPosts,     \* bound on the POSTs of the form
  Unset

Today == 0
CalendarDays == Today .. LastDay
Booked == [start : Int, end : Int, status : {"pending", "confirmed", "in_progress"}]

ASSUME FormAssumption ==
  /\ LastDay \in Nat /\ FormPrices \subseteq Nat /\ MaxPosts \in Nat
  /\ \A t \in FirstTables : t \subseteq Booked /\ IsFiniteSet(t)
  /\ OthersAsk \subseteq CalendarDays \X CalendarDays
  /\ Unset \notin Int

VARIABLES
  booked,  \* the active bookings of the car
  price,   \* its price_per_day
  form,    \* the screen: its phase, the car and calendar it loaded, the dates
  posted,  \* the POST in flight: the dates, what the renter saw, the answer
  posts

formVars == <<booked, price, form, posted, posts>>

FormInit ==
  /\ booked \in FirstTables
  /\ price \in FormPrices
  /\ form = [phase |-> "loading", price |-> Unset, known |-> Unset,
             start |-> Today, end |-> Unset, next |-> Unset]
  /\ posted = Unset
  /\ posts = 0

-----------------------------------------------------------------------------
(* What the form derives from its state.                                   *)

(* Mutant: the day of checkout is billed.                                  *)
BothDays(start, end) == DiffDays(start, end) + 1

(* The effect that sets billingDays and totalPrice.                        *)
BillingDays(start, end) == Larger(DiffDays(start, end), 1)

TotalPrice == IF form.end = Unset THEN 0
              ELSE BillingDays(form.start, form.end) * form.price

HasPendingOverlap ==
  form.end # Unset /\ \E b \in form.known :
    b.status = "pending" /\ Overlaps(b.start, b.end, form.start, form.end)

(* getMarkedDates: a day is as the last booking in the list marks it, and  *)
(* the day of checkout is free.                                            *)
Disabled(day) ==
  LET over == {b \in form.known : b.start <= day /\ day < b.end} IN
  \E b \in over : b.status = "confirmed" /\ \A c \in over : c.start <= b.start

MayConfirm == form.end # Unset /\ ~HasPendingOverlap /\ form.start < form.end

-----------------------------------------------------------------------------
(* The server.                                                             *)

(* findUpcomingBookings.                                                   *)
Upcoming == {b \in booked : b.end >= Today}

(* ORDER BY start_date; of two that start on one day either may be first.  *)
Earliest(left) == CHOOSE b \in left : \A c \in left : b.start <= c.start

(* Mutant: the scan goes on from the end of the last booking it passed.    *)
ScanFromLast(found, b, days) ==
  IF found.gap THEN found
  ELSE IF b.start - found.day >= days THEN [found EXCEPT !.gap = TRUE]
  ELSE [found EXCEPT !.day = b.end]

(* One booking of the scan for a gap: found.day is lastEnd.                *)
Scan(found, b, days) ==
  IF found.gap THEN found
  ELSE IF b.start - found.day >= days THEN [found EXCEPT !.gap = TRUE]
  ELSE [found EXCEPT !.day = Larger(@, b.end)]

ScanNext(loop, days) ==
  LET b == Earliest(loop.left) IN
  [found |-> Scan(loop.found, b, days), left |-> loop.left \ {b}]

(* The loop over them: after each pass what it has found and what is left. *)
Loop(days) ==
  LET after[n \in 0 .. Cardinality(Upcoming)] ==
        IF n = 0 THEN [found |-> [day |-> Today, gap |-> FALSE], left |-> Upcoming]
        ELSE ScanNext(after[n - 1], days)
  IN after

NextAvailable(days) == Loop(days)[Cardinality(Upcoming)].found.day

FreeFor(start, end) == \A b \in booked : ~Overlaps(b.start, b.end, start, end)

-----------------------------------------------------------------------------
(* The two GETs the form waits for; either that fails closes it.           *)
LoadCar ==
  /\ form.phase = "loading" /\ form.price = Unset
  /\ form' = [form EXCEPT !.price = price,
                          !.phase = IF form.known = Unset THEN @ ELSE "open"]
  /\ UNCHANGED <<booked, price, posted, posts>>

LoadCalendar ==
  /\ form.phase = "loading" /\ form.known = Unset
  /\ form' = [form EXCEPT !.known = Upcoming,
                          !.phase = IF form.price = Unset THEN @ ELSE "open"]
  /\ UNCHANGED <<booked, price, posted, posts>>

LeaveForm ==
  /\ form.phase \in {"loading", "open", "submitting"}
  /\ form' = [form EXCEPT !.phase = "left"]
  /\ UNCHANGED <<booked, price, posted, posts>>

(* onDayPress; the calendar also takes taps while the form is submitted.   *)
PressDay(day) ==
  /\ form.phase \in {"open", "submitting"} /\ ~Disabled(day)
  /\ form' = IF form.end = Unset /\ day > form.start
             THEN [form EXCEPT !.end = day, !.next = Unset]
             ELSE [form EXCEPT !.start = day, !.end = Unset, !.next = Unset]
  /\ UNCHANGED <<booked, price, posted, posts>>

(* handleBooking; what the renter saw when confirming is kept with it.     *)
Confirm ==
  /\ form.phase = "open" /\ MayConfirm /\ posts < MaxPosts
  /\ form' = [form EXCEPT !.phase = "submitting", !.next = Unset]
  /\ posted' = [start |-> form.start, end |-> form.end, seen |-> TotalPrice,
                rate |-> form.price, status |-> 0, charged |-> Unset, next |-> Unset]
  /\ posts' = posts + 1
  /\ UNCHANGED <<booked, price>>

(* createBooking.                                                          *)
CreateBooking ==
  /\ posted # Unset /\ posted.status = 0
  /\ LET days == DiffDays(posted.start, posted.end) IN
     IF FreeFor(posted.start, posted.end)
     THEN /\ booked' = booked \cup
               {[start |-> posted.start, end |-> posted.end, status |-> "pending"]}
          /\ posted' = [posted EXCEPT !.status = 201, !.charged = days * price]
     ELSE /\ posted' = [posted EXCEPT !.status = 400, !.next = NextAvailable(days)]
          /\ UNCHANGED booked
  /\ UNCHANGED <<price, form, posts>>

(* The answer takes the renter to the success screen, even one who has     *)
(* left, or proposes other dates.                                          *)
AnswerForm ==
  /\ posted # Unset /\ posted.status # 0
  /\ form' = IF posted.status = 201 THEN [form EXCEPT !.phase = "success"]
             ELSE IF form.phase = "left" THEN form
             ELSE [form EXCEPT !.phase = "open", !.next = posted.next]
  /\ posted' = Unset
  /\ UNCHANGED <<booked, price, posts>>

(* No answer, or another error: the renter is told to try again.           *)
PostFails ==
  /\ posted # Unset
  /\ form' = IF form.phase = "submitting" THEN [form EXCEPT !.phase = "open"] ELSE form
  /\ posted' = Unset
  /\ UNCHANGED <<booked, price, posts>>

(* handleSmartBook: as many days as are chosen, from the proposed one; one *)
(* day when a tap has undone the choice since the form was submitted.      *)
SmartBook ==
  LET days == IF form.end = Unset THEN 1 ELSE DiffDays(form.start, form.end) IN
  /\ form.phase = "open" /\ form.next # Unset
  /\ {form.next, form.next + days} \subseteq CalendarDays
  /\ form' = [form EXCEPT !.start = form.next, !.next = Unset, !.end = form.next + days]
  /\ UNCHANGED <<booked, price, posted, posts>>

-----------------------------------------------------------------------------
(* The owner and the other renters.                                        *)
Reprice ==
  /\ price' \in FormPrices \ {price}
  /\ UNCHANGED <<booked, form, posted, posts>>

OtherBooks ==
  /\ \E a \in OthersAsk : /\ FreeFor(a[1], a[2])
       /\ booked' = booked \cup {[start |-> a[1], end |-> a[2], status |-> "pending"]}
  /\ UNCHANGED <<price, form, posted, posts>>

OwnerAnswers ==
  /\ \E b \in booked :
       /\ b.status = "pending"
       /\ booked' \in {booked \ {b}, (booked \ {b}) \cup {[b EXCEPT !.status = "confirmed"]}}
  /\ UNCHANGED <<price, form, posted, posts>>

FormNext ==
  \/ LoadCar \/ LoadCalendar \/ LeaveForm \/ Confirm \/ CreateBooking \/ AnswerForm
  \/ PostFails \/ SmartBook \/ Reprice \/ OtherBooks \/ OwnerAnswers
  \/ \E day \in CalendarDays : PressDay(day)

FormSpec == FormInit /\ [][FormNext]_formVars

-----------------------------------------------------------------------------
(* Properties.                                                             *)

(* The variables keep their types.                                         *)
FormTypeOK ==
  /\ booked \subseteq Booked /\ price \in FormPrices
  /\ form.phase \in {"loading", "open", "submitting", "success", "left"}
  /\ form.price \in FormPrices \cup {Unset}
  /\ form.start \in CalendarDays
  /\ form.end \in CalendarDays \cup {Unset}
  /\ form.next \in Nat \cup {Unset}
  /\ posted # Unset => posted.next \in Nat \cup {Unset}
  /\ posts \in 0 .. MaxPosts

(* The day proposed after a conflict is the first from which the car is    *)
(* free for as long as was asked, however the bookings lie: touching,      *)
(* nested or overlapping.                                                  *)
ProposalIsFirstFree ==
  \A days \in 1 .. LastDay :
    LET next == NextAvailable(days) IN
    /\ FreeFor(next, next + days)
    /\ \A day \in Today .. next - 1 : ~FreeFor(day, day + days)

(* The price the renter confirmed is the price the server charges, unless  *)
(* the owner changed the rate after the form had loaded it.                *)
ChargedAsSeen ==
  posted # Unset /\ posted.charged # Unset =>
    \/ posted.charged = posted.seen
    \/ \E p \in FormPrices \ {posted.rate} :
         posted.charged = DiffDays(posted.start, posted.end) * p

-----------------------------------------------------------------------------
(* The inductive invariants behind them.                                   *)

(* The table has the rows it began with and those that were inserted.      *)
TableInv == booked \subseteq Booked /\ IsFiniteSet(booked)

(* What a POST in flight carries, and what the server may have answered.   *)
PostInv ==
  posted # Unset =>
    /\ DOMAIN posted = {"start", "end", "seen", "rate", "status", "charged", "next"}
    /\ form.price # Unset
    /\ posted.start \in CalendarDays /\ posted.end \in CalendarDays
    /\ posted.start < posted.end
    /\ posted.rate \in FormPrices
    /\ posted.seen = DiffDays(posted.start, posted.end) * posted.rate
    /\ posted.charged = Unset
         \/ \E p \in FormPrices : posted.charged = DiffDays(posted.start, posted.end) * p

FormInv ==
  /\ price \in FormPrices
  /\ DOMAIN form = {"phase", "price", "known", "start", "end", "next"}
  /\ form.phase \in {"loading", "open", "submitting", "success", "left"}
  /\ form.price \in FormPrices \cup {Unset}
  /\ form.phase \in {"open", "submitting"} => form.price # Unset
  /\ form.start \in CalendarDays /\ form.end \in CalendarDays \cup {Unset}
  /\ PostInv
=============================================================================
