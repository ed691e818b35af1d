----------------------------- MODULE FormProofs -----------------------------
(* Proofs about days, and about the cars they are of.  The abstract        *)
(* calendar keeps its promise; with RefinesCalendar of BookingProofs so    *)
(* does the booking service.  The form a renter books with shows the price *)
(* that is charged, and the dates it proposes after a conflict are the     *)
(* first that are free.  Between its check and its write a request about a *)
(* car carries a place that was found to be one place, and an edit writes  *)
(* exactly the place it carries.                                           *)
EXTENDS BookingCalendar, BookingForm, CarForm, FiniteSetTheorems, WellFoundedInduction, TLAPS

CalendarInv ==
  /\ reserved \subseteq Bookings
  /\ taken \in [Bookings -> Slot \cup {NoSlot}]
  /\ NoClash

(* Days overlap or not whichever of the two bookings is named first.       *)
LEMMA ClashSymmetric ==
  ASSUME NEW s, NEW t, Clash(s, t)
  PROVE  Clash(t, s)
BY DEF Clash, Overlaps

(* Reserving on free days keeps guarded bookings apart; freeing days and   *)
(* taking them unchecked cannot bring two guarded bookings together.       *)
LEMMA StepKeepsCalendar ==
  ASSUME CalendarInv, Next
  PROVE  CalendarInv'
<1>1. PICK b \in Bookings : Reserve(b) \/ GiveBack(b) \/ TakeUnchecked(b)
  BY DEF Next
<1>2. CASE Reserve(b)
  <2>1. PICK slot \in Slot :
          /\ \A o \in Bookings \ loose : taken[o] # NoSlot => ~Clash(taken[o], slot)
          /\ taken' = [taken EXCEPT ![b] = slot]
    BY <1>2 DEF Reserve
  <2>2. reserved' = reserved \cup {b} /\ loose' = loose
    BY <1>2 DEF Reserve
  <2>3. taken' \in [Bookings -> Slot \cup {NoSlot}] /\ reserved' \subseteq Bookings
    BY <2>1, <2>2 DEF CalendarInv
  <2>4. ASSUME NEW x \in Bookings \ loose, NEW y \in Bookings \ loose, x # y,
               taken'[x] # NoSlot, taken'[y] # NoSlot
        PROVE  ~Clash(taken'[x], taken'[y])
    <3>1. CASE x = b
      <4>1. taken'[x] = slot /\ taken'[y] = taken[y]
        BY <2>1, <2>4, <3>1 DEF CalendarInv
      <4>2. ~Clash(taken[y], slot)
        BY <2>1, <2>4, <4>1
      <4> QED BY <4>1, <4>2, ClashSymmetric
    <3>2. CASE y = b
      <4>1. taken'[y] = slot /\ taken'[x] = taken[x]
        BY <2>1, <2>4, <3>2 DEF CalendarInv
      <4> QED BY <2>1, <2>4, <4>1
    <3>3. CASE x # b /\ y # b
      <4>1. taken'[x] = taken[x] /\ taken'[y] = taken[y]
        BY <2>1, <2>4, <3>3 DEF CalendarInv
      <4> QED BY <2>4, <4>1 DEF CalendarInv, NoClash
    <3> QED BY <3>1, <3>2, <3>3
  <2> QED BY <2>2, <2>3, <2>4 DEF CalendarInv, NoClash
<1>3. CASE GiveBack(b)
  <2>1. /\ taken' = [taken EXCEPT ![b] = NoSlot]
        /\ reserved' = reserved /\ loose' = loose
    BY <1>3 DEF GiveBack
  <2>2. taken' \in [Bookings -> Slot \cup {NoSlot}]
    BY <2>1 DEF CalendarInv
  <2>3. \A x \in Bookings : taken'[x] # NoSlot => taken'[x] = taken[x]
    BY <2>1 DEF CalendarInv
  <2> QED BY <2>1, <2>2, <2>3 DEF CalendarInv, NoClash
<1>4. CASE TakeUnchecked(b)
  <2>1. PICK slot \in Slot : taken' = [taken EXCEPT ![b] = slot]
    BY <1>4 DEF TakeUnchecked
  <2>2. reserved' = reserved \cup {b} /\ loose' = loose \cup {b}
    BY <1>4 DEF TakeUnchecked
  <2>3. taken' \in [Bookings -> Slot \cup {NoSlot}] /\ reserved' \subseteq Bookings
    BY <2>1, <2>2 DEF CalendarInv
  <2>4. \A x \in Bookings \ loose' : taken'[x] = taken[x]
    BY <2>1, <2>2 DEF CalendarInv
  <2> QED BY <2>2, <2>3, <2>4 DEF CalendarInv, NoClash
<1> QED BY <1>1, <1>2, <1>3, <1>4

(* Guarded bookings never share a day of a car: the promise of             *)
(* createBooking's lock and overlap query, for any bookings and cars.      *)
THEOREM CalendarKeepsPromise == Spec => []NoClash
<1>1. Init => CalendarInv
  BY DEF Init, CalendarInv, NoClash
<1>2. CalendarInv /\ [Next]_vars => CalendarInv'
  <2>1. CalendarInv /\ Next => CalendarInv'
    BY StepKeepsCalendar
  <2>2. CalendarInv /\ UNCHANGED vars => CalendarInv'
    BY DEF CalendarInv, NoClash, vars
  <2> QED BY <2>1, <2>2
<1>3. CalendarInv => NoClash
  BY DEF CalendarInv
<1> QED BY <1>1, <1>2, <1>3, PTL DEF Spec

-----------------------------------------------------------------------------
(* BookingForm: the price.                                                 *)

(* Between two days there are at least one.                                *)
LEMMA DaysBetween ==
  ASSUME NEW s \in Int, NEW e \in Int, s < e
  PROVE  DiffDays(s, e) \in Int /\ BillingDays(s, e) = DiffDays(s, e)
BY DEF DiffDays, BillingDays, Larger

LEMMA CalendarDaysAreInt == CalendarDays \subseteq Int /\ Unset \notin CalendarDays
BY FormAssumption DEF CalendarDays, Today

LEMMA FormInvInit == FormInit => FormInv
<1> SUFFICES ASSUME FormInit PROVE FormInv
  OBVIOUS
<1>1. Today \in CalendarDays
  BY FormAssumption DEF CalendarDays, Today
<1> QED BY <1>1 DEF FormInit, FormInv, PostInv

(* Every event on the form and every write of the server keeps what the    *)
(* POST in flight carries.                                                 *)
LEMMA FormInvStep == FormInv /\ [FormNext]_formVars => FormInv'
<1> SUFFICES ASSUME FormInv, [FormNext]_formVars PROVE FormInv'
  OBVIOUS
<1> USE DEF FormInv, PostInv
<1>1. CASE UNCHANGED formVars
  BY <1>1 DEF formVars
<1>2. ASSUME NEW phase \in {"loading", "open", "left"}, NEW p \in FormPrices \cup {Unset},
             NEW known, UNCHANGED <<price, posted>>, form.price # Unset => p # Unset,
             phase = "open" => p # Unset,
             form' = [form EXCEPT !.phase = phase, !.price = p, !.known = known]
      PROVE  FormInv'
  <2>1. /\ DOMAIN form' = DOMAIN form /\ form'.phase = phase /\ form'.price = p
        /\ form'.start = form.start /\ form'.end = form.end
    BY <1>2
  <2> QED BY <1>2, <2>1
<1>a. CASE LoadCar
  <2>1. form' = [form EXCEPT !.phase = IF form.known = Unset THEN form.phase ELSE "open",
                             !.price = price, !.known = form.known]
    BY <1>a DEF LoadCar
  <2>2. price # Unset /\ form.phase = "loading" /\ UNCHANGED <<price, posted>>
    BY <1>a, FormAssumption DEF LoadCar
  <2> QED BY <1>2, <2>1, <2>2
<1>b. CASE LoadCalendar
  <2> DEFINE known == Upcoming
  <2>1. form' = [form EXCEPT !.phase = IF form.price = Unset THEN form.phase ELSE "open",
                             !.price = form.price, !.known = known]
    BY <1>b DEF LoadCalendar
  <2>2. form.phase = "loading" /\ UNCHANGED <<price, posted>>
    BY <1>b DEF LoadCalendar
  <2> HIDE DEF known
  <2> QED BY <1>2, <2>1, <2>2
<1>c. CASE LeaveForm
  <2>1. form' = [form EXCEPT !.phase = "left", !.price = form.price, !.known = form.known]
    BY <1>c DEF LeaveForm
  <2> QED BY <1>2, <1>c, <2>1 DEF LeaveForm
<1>3. ASSUME NEW day \in CalendarDays, PressDay(day) PROVE FormInv'
  BY <1>3 DEF PressDay
<1>4. CASE Confirm
  <2>1. /\ form.start \in CalendarDays /\ form.end \in CalendarDays
        /\ form.start < form.end /\ form.price \in FormPrices
        /\ form.price # Unset
    BY <1>4 DEF Confirm, MayConfirm
  <2>2. TotalPrice = DiffDays(form.start, form.end) * form.price
    <3>1. BillingDays(form.start, form.end) = DiffDays(form.start, form.end)
      BY <2>1, CalendarDaysAreInt, DaysBetween
    <3> QED BY <2>1, <3>1, CalendarDaysAreInt DEF TotalPrice
  <2>3. /\ form'.start = form.start /\ form'.end = form.end /\ form'.price = form.price
        /\ form'.phase = "submitting" /\ UNCHANGED price
    BY <1>4 DEF Confirm
  <2>4. posted' = [start |-> form.start, end |-> form.end, seen |-> TotalPrice,
                   rate |-> form.price, status |-> 0, charged |-> Unset, next |-> Unset]
    BY <1>4 DEF Confirm
  <2>5. DOMAIN form' = DOMAIN form
    BY <1>4 DEF Confirm
  <2>6. PostInv'
    BY <2>1, <2>2, <2>3, <2>4
  <2>7. form'.price # Unset => form'.price \in FormPrices
    BY <2>1, <2>3
  <2> QED BY <2>1, <2>3, <2>5, <2>6, <2>7
<1>5. CASE CreateBooking
  <2> DEFINE days == DiffDays(posted.start, posted.end)
  <2>1. posted # Unset /\ UNCHANGED <<price, form>>
    BY <1>5 DEF CreateBooking
  <2>2. CASE posted' = [posted EXCEPT !.status = 201, !.charged = days * price]
    <3>1. /\ DOMAIN posted' = DOMAIN posted /\ posted'.charged = days * price
          /\ posted'.start = posted.start /\ posted'.end = posted.end
          /\ posted'.rate = posted.rate /\ posted'.seen = posted.seen
      BY <2>1, <2>2
    <3> QED BY <2>1, <3>1
  <2>3. CASE posted' = [posted EXCEPT !.status = 400, !.next = NextAvailable(days)]
    <3> DEFINE next == NextAvailable(days)
    <3> HIDE DEF next
    <3>1. /\ DOMAIN posted' = DOMAIN posted /\ posted'.charged = posted.charged
          /\ posted'.start = posted.start /\ posted'.end = posted.end
          /\ posted'.rate = posted.rate /\ posted'.seen = posted.seen
      BY <2>1, <2>3
    <3> QED BY <2>1, <3>1
  <2> QED BY <1>5, <2>2, <2>3 DEF CreateBooking
<1>6. CASE AnswerForm
  <2>1. \/ form' = [form EXCEPT !.phase = "success"]
        \/ UNCHANGED form
        \/ form' = [form EXCEPT !.phase = "open", !.next = posted.next]
    BY <1>6 DEF AnswerForm
  <2>2. /\ posted # Unset /\ posted' = Unset /\ UNCHANGED price
    BY <1>6 DEF AnswerForm
  <2>3. /\ DOMAIN form' = DOMAIN form /\ form'.price = form.price
        /\ form'.start = form.start /\ form'.end = form.end
        /\ form'.phase \in {"success", "open", form.phase}
    BY <2>1
  <2> QED BY <2>2, <2>3
<1>9. CASE PostFails
  <2>1. /\ UNCHANGED price /\ posted' = Unset
        /\ form' = IF form.phase = "submitting" THEN [form EXCEPT !.phase = "open"] ELSE form
    BY <1>9 DEF PostFails
  <2>2. /\ DOMAIN form' = DOMAIN form /\ form'.price = form.price
        /\ form'.start = form.start /\ form'.end = form.end
        /\ form'.phase = IF form.phase = "submitting" THEN "open" ELSE form.phase
    BY <2>1
  <2> QED BY <2>1, <2>2
<1>7. CASE SmartBook
  BY <1>7 DEF SmartBook
<1>8. CASE Reprice \/ OtherBooks \/ OwnerAnswers
  BY <1>8 DEF Reprice, OtherBooks, OwnerAnswers
<1> QED BY <1>1, <1>a, <1>b, <1>c, <1>3, <1>4, <1>5, <1>6, <1>7, <1>8, <1>9 DEF FormNext

(* FormInv, for any prices, days and bookings of others.                   *)
THEOREM FormInvariant == FormSpec => []FormInv
BY FormInvInit, FormInvStep, PTL DEF FormSpec

(* ChargedAsSeen for any prices, days and bookings of others: the price    *)
(* the renter confirmed is charged, unless the owner changed the rate.     *)
THEOREM RenterIsChargedAsSeen == FormSpec => []ChargedAsSeen
<1>1. FormInv => ChargedAsSeen
  BY DEF FormInv, PostInv, ChargedAsSeen
<1> QED BY <1>1, FormInvariant, PTL

-----------------------------------------------------------------------------
(* BookingForm: the scan for a gap.                                        *)

(* What the scan knows when it has passed the bookings in past: none of    *)
(* them is in the way of the day it has reached, and each earlier day      *)
(* meets one of them.                                                      *)
Searched(found, past, days) ==
  /\ found.day \in Int /\ found.gap \in BOOLEAN
  /\ \A b \in past : ~Overlaps(b.start, b.end, found.day, found.day + days)
  /\ \A day \in Today .. found.day - 1 :
       \E b \in past : Overlaps(b.start, b.end, day, day + days)
  /\ IF found.gap THEN \E b \in past : b.start >= found.day + days
     ELSE \A b \in past : b.end <= found.day

(* Before the first booking nothing is known.                              *)
LEMMA SearchBegins ==
  ASSUME NEW days \in Nat
  PROVE  Searched([day |-> Today, gap |-> FALSE], {}, days)
BY DEF Searched, Today

(* The scan passes a booking that starts no earlier than those behind it:  *)
(* it goes on to the end of the booking only if no gap is left before it,  *)
(* and never back to the end of one nested in another.                     *)
LEMMA ScanPassesBooking ==
  ASSUME NEW past \in SUBSET Booked, NEW b \in Booked, NEW days \in Nat \ {0},
         \A c \in past : c.start <= b.start,
         NEW found \in [day : Int, gap : BOOLEAN], Searched(found, past, days)
  PROVE  Searched(Scan(found, b, days), past \cup {b}, days)
<1>1. b.start \in Int /\ b.end \in Int /\ \A c \in past : c.start \in Int /\ c.end \in Int
  BY DEF Booked
<1>2. CASE found.gap
  <2>1. Scan(found, b, days) = found /\ b.start >= found.day + days
    BY <1>1, <1>2 DEF Scan, Searched
  <2> QED BY <1>1, <1>2, <2>1 DEF Searched, Overlaps
<1>3. CASE ~found.gap /\ b.start - found.day >= days
  <2>1. Scan(found, b, days) = [found EXCEPT !.gap = TRUE]
    BY <1>3 DEF Scan
  <2>2. Scan(found, b, days).day = found.day /\ Scan(found, b, days).gap
    BY <2>1
  <2>3. b.start >= found.day + days
    BY <1>1, <1>3
  <2> QED BY <1>1, <2>2, <2>3 DEF Searched, Overlaps
<1>4. CASE ~found.gap /\ ~(b.start - found.day >= days)
  <2> DEFINE next == Larger(found.day, b.end)
  <2>1. Scan(found, b, days) = [found EXCEPT !.day = next]
    BY <1>4 DEF Scan
  <2>2. Scan(found, b, days).day = next /\ Scan(found, b, days).gap = FALSE
    BY <1>4, <2>1
  <2> HIDE DEF next
  <2>3. /\ next \in Int /\ found.day <= next /\ b.end <= next
        /\ \A c \in past : c.end <= next
    BY <1>1, <1>4 DEF next, Larger, Searched
  <2>4. ASSUME NEW day \in Today .. next - 1
        PROVE  \E c \in past \cup {b} : Overlaps(c.start, c.end, day, day + days)
    <3>1. CASE day \in Today .. found.day - 1
      BY <3>1 DEF Searched
    <3>2. CASE day \notin Today .. found.day - 1
      <4>1. found.day <= day /\ day < b.end
        BY <1>1, <2>4, <3>2 DEF next, Larger, Today
      <4>2. b.start < day + days
        BY <1>1, <1>4, <2>4, <4>1 DEF Today
      <4> QED BY <4>1, <4>2 DEF Overlaps
    <3> QED BY <3>1, <3>2
  <2>5. \A c \in past \cup {b} :
          ~Overlaps(c.start, c.end, next, next + days) /\ c.end <= next
    BY <1>1, <2>3 DEF Overlaps
  <2> QED BY <2>2, <2>3, <2>4, <2>5 DEF Searched
<1> QED BY <1>2, <1>3, <1>4

(* Once the scan has passed every booking that is not over, its day is the *)
(* first from which the car is free for so many days.                      *)
LEMMA SearchedAllIsFirstFree ==
  ASSUME booked \subseteq Booked, NEW days \in Nat \ {0}, NEW found \in [day : Int, gap : BOOLEAN],
         found.day >= Today, Searched(found, {b \in booked : b.end >= Today}, days)
  PROVE  /\ FreeFor(found.day, found.day + days)
         /\ \A day \in Today .. found.day - 1 : ~FreeFor(day, day + days)
<1>1. ASSUME NEW b \in booked
      PROVE  ~Overlaps(b.start, b.end, found.day, found.day + days)
  <2>1. CASE b.end >= Today
    BY <2>1 DEF Searched
  <2>2. CASE ~(b.end >= Today)
    BY <2>2 DEF Booked, Overlaps, Today
  <2> QED BY <2>1, <2>2
<1>2. ASSUME NEW day \in Today .. found.day - 1
      PROVE  ~FreeFor(day, day + days)
  BY <1>2 DEF Searched, FreeFor
<1> QED BY <1>1, <1>2 DEF FreeFor
-----------------------------------------------------------------------------
(* BookingForm: the loop, by induction on its passes.                      *)

(* A set of numbers that is not empty has a least one; an induction takes  *)
(* the set of the numbers its claim fails for.                             *)
LEMMA LeastNat ==
  ASSUME NEW T \in SUBSET Nat, T # {}
  PROVE  \E n \in T : \A m \in T : n <= m
<1> DEFINE Less == {pair \in Nat \X Nat : pair[1] < pair[2]}
<1>1. IsWellFoundedOn(Less, Nat)
  BY NatLessThanWellFounded DEF OpToRel
<1>2. \A m, n \in Nat : <<m, n>> \in Less <=> m < n
  OBVIOUS
<1> HIDE DEF Less
<1>3. PICK n \in T : \A m \in T : ~(<<m, n>> \in Less)
  BY <1>1, WFMin
<1>4. \A m \in T : ~(m < n)
  BY <1>2, <1>3
<1> QED BY <1>4

(* One of finitely many bookings starts first: the one with fewest before. *)
LEMMA EarliestIsFirst ==
  ASSUME NEW left \in SUBSET Booked, IsFiniteSet(left), left # {}
  PROVE  /\ Earliest(left) \in left
         /\ \A c \in left : Earliest(left).start <= c.start
<1> DEFINE Before(b) == {c \in left : c.start < b.start}
           Sizes == {Cardinality(Before(b)) : b \in left}
<1>1. \A b \in left : b.start \in Int
  BY DEF Booked
<1>2. ASSUME NEW b \in left PROVE IsFiniteSet(Before(b)) /\ Cardinality(Before(b)) \in Nat
  BY FS_Subset, FS_CardinalityType
<1>3. Sizes \in SUBSET Nat /\ Sizes # {}
  BY <1>2
<1>4. PICK b \in left : \A m \in Sizes : Cardinality(Before(b)) <= m
  <2> HIDE DEF Before
  <2>1. PICK n \in Sizes : \A m \in Sizes : n <= m
    BY <1>3, LeastNat
  <2> QED BY <2>1
<1>5. ASSUME NEW c \in left, c.start < b.start PROVE FALSE
  <2>1. Before(c) \subseteq Before(b) /\ Before(c) # Before(b)
    BY <1>1, <1>5
  <2>2. IsFiniteSet(Before(b)) /\ Cardinality(Before(c)) \in Nat
    BY <1>2
  <2>3. Cardinality(Before(c)) < Cardinality(Before(b))
    <3>1. IsFiniteSet(Before(b)) /\ Cardinality(Before(b)) \in Nat
      BY <1>2
    <3> HIDE DEF Before
    <3>2. /\ Cardinality(Before(c)) <= Cardinality(Before(b))
          /\ Cardinality(Before(c)) # Cardinality(Before(b))
      BY <2>1, <3>1, FS_Subset
    <3> QED BY <2>2, <3>1, <3>2
  <2>4. Cardinality(Before(b)) <= Cardinality(Before(c))
    BY <1>4
  <2> QED BY <1>2, <2>2, <2>3, <2>4
<1>6. \E e \in left : \A c \in left : e.start <= c.start
  BY <1>1, <1>5
<1> QED BY <1>6 DEF Earliest

(* The loop is what its definition by recursion says.                      *)
LEMMA LoopUnfolds ==
  ASSUME NEW days, Cardinality(Upcoming) \in Nat
  PROVE  /\ Loop(days)[0] = [found |-> [day |-> Today, gap |-> FALSE], left |-> Upcoming]
         /\ \A n \in 1 .. Cardinality(Upcoming) :
              Loop(days)[n] = ScanNext(Loop(days)[n - 1], days)
<1> DEFINE N == Cardinality(Upcoming)
           First == [found |-> [day |-> Today, gap |-> FALSE], left |-> Upcoming]
           Passes(g, k) == g = [n \in 0 .. k |-> IF n = 0 THEN First
                                                ELSE ScanNext(g[n - 1], days)]
           Fails == {k \in 0 .. N : ~\E g : Passes(g, k)}
<1> HIDE DEF First, N
<1>0. N \in Nat
  BY DEF N
<1>1. ASSUME Fails # {} PROVE FALSE
  <2>1. PICK k \in Fails : \A m \in Fails : k <= m
    <3>1. Fails \in SUBSET Nat
      BY <1>0
    <3> HIDE DEF Fails
    <3> QED BY <1>1, <3>1, LeastNat
  <2>2. k # 0
    <3>1. Passes([n \in 0 .. 0 |-> First], 0)
      OBVIOUS
    <3> QED BY <3>1, <2>1
  <2>3. PICK g : Passes(g, k - 1)
    <3>1. k - 1 \in 0 .. N /\ ~(k <= k - 1)
      BY <1>0, <2>1, <2>2
    <3> QED BY <2>1, <3>1
  <2> DEFINE h == [n \in 0 .. k |-> IF n = k THEN ScanNext(g[k - 1], days) ELSE g[n]]
             rhs == [n \in 0 .. k |-> IF n = 0 THEN First ELSE ScanNext(h[n - 1], days)]
  <2>4. ASSUME NEW n \in 0 .. k PROVE h[n] = rhs[n]
    <3>1. CASE n = k
      BY <1>0, <2>1, <2>2, <3>1
    <3>2. CASE n # k
      <4>1. n \in 0 .. k - 1 /\ h[n] = g[n]
        BY <1>0, <2>1, <3>2
      <4>2. g[n] = IF n = 0 THEN First ELSE ScanNext(g[n - 1], days)
        BY <2>3, <4>1
      <4>3. n # 0 => h[n - 1] = g[n - 1]
        BY <1>0, <2>1, <4>1
      <4> QED BY <4>1, <4>2, <4>3
    <3> QED BY <3>1, <3>2
  <2>5. h = rhs
    <3>1. DOMAIN h = 0 .. k /\ DOMAIN rhs = 0 .. k
      OBVIOUS
    <3> QED BY <2>4, <3>1
  <2>6. Passes(h, k)
    BY <2>5
  <2> QED BY <2>1, <2>6
<1>2. \E g : Passes(g, N)
  <2>0. N \in 0 .. N
    BY <1>0
  <2>1. N \in 0 .. N /\ N \notin Fails
    <3> HIDE DEF Fails
    <3> QED BY <1>1, <2>0
  <2> HIDE DEF Passes
  <2> QED BY <2>1
<1>3. Loop(days) = CHOOSE g : Passes(g, N)
  BY DEF Loop, First, N
<1>4. Passes(Loop(days), N)
  BY <1>2, <1>3
<1> HIDE DEF Loop
<1>5. Loop(days)[0] = First
  BY <1>0, <1>4
<1>6. ASSUME NEW n \in 1 .. N PROVE Loop(days)[n] = ScanNext(Loop(days)[n - 1], days)
  BY <1>0, <1>4
<1> QED BY <1>5, <1>6 DEF First, N

(* What is known after so many passes of the loop: those that are left are *)
(* so many fewer, and start no earlier than those it has passed.           *)
Passed(loop, n, days) ==
  /\ loop.left \subseteq Upcoming /\ IsFiniteSet(loop.left)
  /\ Cardinality(loop.left) = Cardinality(Upcoming) - n
  /\ \A c \in Upcoming \ loop.left : \A b \in loop.left : c.start <= b.start
  /\ loop.found \in [day : Int, gap : BOOLEAN] /\ loop.found.day >= Today
  /\ Searched(loop.found, Upcoming \ loop.left, days)

LEMMA PassedFirst ==
  ASSUME TableInv, NEW days \in Nat \ {0}
  PROVE  Passed([found |-> [day |-> Today, gap |-> FALSE], left |-> Upcoming], 0, days)
<1> DEFINE first == [found |-> [day |-> Today, gap |-> FALSE], left |-> Upcoming]
<1>1. IsFiniteSet(Upcoming) /\ Cardinality(Upcoming) \in Nat
  BY FS_Subset, FS_CardinalityType DEF TableInv, Upcoming
<1>2. Upcoming \ first.left = {} /\ first.found = [day |-> Today, gap |-> FALSE]
  OBVIOUS
<1>3. Searched(first.found, Upcoming \ first.left, days)
  BY <1>2, SearchBegins
<1> QED BY <1>1, <1>2, <1>3 DEF Passed, Today

LEMMA PassedNext ==
  ASSUME TableInv, NEW days \in Nat \ {0}, NEW n \in 0 .. Cardinality(Upcoming) - 1,
         NEW loop, Passed(loop, n, days)
  PROVE  Passed(ScanNext(loop, days), n + 1, days)
<1> DEFINE b == Earliest(loop.left)
           past == Upcoming \ loop.left
           next == ScanNext(loop, days)
<1>1. /\ IsFiniteSet(Upcoming) /\ Cardinality(Upcoming) \in Nat
      /\ Upcoming \in SUBSET Booked
  BY FS_Subset, FS_CardinalityType DEF TableInv, Upcoming
<1>2. loop.left \in SUBSET Booked /\ IsFiniteSet(loop.left) /\ loop.left # {}
  BY <1>1, FS_EmptySet DEF Passed
<1>3. b \in loop.left /\ \A c \in loop.left : b.start <= c.start
  BY <1>2, EarliestIsFirst
<1>4. next.found = Scan(loop.found, b, days) /\ next.left = loop.left \ {b}
  BY DEF ScanNext
<1> HIDE DEF b, next
<1>5. Upcoming \ next.left = past \cup {b}
  BY <1>3, <1>4 DEF Passed
<1>6. Searched(next.found, past \cup {b}, days)
  <2>1. past \in SUBSET Booked /\ b \in Booked /\ \A c \in past : c.start <= b.start
    BY <1>1, <1>2, <1>3 DEF Passed
  <2>2. loop.found \in [day : Int, gap : BOOLEAN] /\ Searched(loop.found, past, days)
    BY DEF Passed
  <2> HIDE DEF past
  <2> QED BY <1>4, <2>1, <2>2, ScanPassesBooking
<1>7. /\ IsFiniteSet(next.left) /\ next.left \subseteq Upcoming
      /\ Cardinality(next.left) = Cardinality(Upcoming) - (n + 1)
  <2>1. /\ IsFiniteSet(loop.left \ {b})
        /\ Cardinality(loop.left \ {b}) = Cardinality(loop.left) - 1
    BY <1>2, <1>3, FS_RemoveElement
  <2> QED BY <1>1, <1>4, <2>1 DEF Passed
<1>8. next.found \in [day : Int, gap : BOOLEAN] /\ next.found.day >= Today
  <2>1. b.start \in Int /\ b.end \in Int
    BY <1>2, <1>3 DEF Booked
  <2>2. loop.found \in [day : Int, gap : BOOLEAN] /\ loop.found.day >= Today
    BY DEF Passed
  <2>3. \/ next.found = loop.found
        \/ next.found = [loop.found EXCEPT !.gap = TRUE]
        \/ next.found = [loop.found EXCEPT !.day = Larger(@, b.end)]
    BY <1>4 DEF Scan
  <2>4. Larger(loop.found.day, b.end) \in Int /\ Larger(loop.found.day, b.end) >= Today
    BY <2>1, <2>2 DEF Larger, Today
  <2>5. CASE next.found = loop.found
    BY <2>2, <2>5
  <2>6. CASE next.found = [loop.found EXCEPT !.gap = TRUE]
    BY <2>2, <2>6
  <2>7. CASE next.found = [loop.found EXCEPT !.day = Larger(@, b.end)]
    BY <2>2, <2>4, <2>7
  <2> QED BY <2>3, <2>5, <2>6, <2>7
<1>9. \A c \in Upcoming \ next.left : \A d \in next.left : c.start <= d.start
  BY <1>3, <1>4, <1>5 DEF Passed
<1> QED BY <1>5, <1>6, <1>7, <1>8, <1>9 DEF Passed, next

(* After every pass, so at the end.                                        *)
LEMMA LoopPasses ==
  ASSUME TableInv, NEW days \in Nat \ {0}
  PROVE  Passed(Loop(days)[Cardinality(Upcoming)], Cardinality(Upcoming), days)
<1> DEFINE N == Cardinality(Upcoming)
           Fails == {n \in 0 .. N : ~Passed(Loop(days)[n], n, days)}
<1>0. N \in Nat
  BY FS_Subset, FS_CardinalityType DEF TableInv, Upcoming
<1>1. ASSUME Fails # {} PROVE FALSE
  <2>1. PICK n \in Fails : \A m \in Fails : n <= m
    <3>1. Fails \in SUBSET Nat
      BY <1>0
    <3> HIDE DEF Fails
    <3> QED BY <1>1, <3>1, LeastNat
  <2>2. CASE n = 0
    BY <1>0, <2>1, <2>2, LoopUnfolds, PassedFirst
  <2>3. CASE n # 0
    <3>1. n - 1 \in 0 .. N - 1 /\ n - 1 \in 0 .. N /\ n \in 1 .. N /\ ~(n <= n - 1)
      BY <1>0, <2>1, <2>3
    <3>2. Passed(Loop(days)[n - 1], n - 1, days)
      BY <2>1, <3>1
    <3>3. Passed(ScanNext(Loop(days)[n - 1], days), (n - 1) + 1, days)
      BY <3>1, <3>2, PassedNext
    <3>4. Loop(days)[n] = ScanNext(Loop(days)[n - 1], days)
      BY <1>0, <3>1, LoopUnfolds
    <3>5. (n - 1) + 1 = n
      BY <3>1
    <3> QED BY <2>1, <3>3, <3>4, <3>5
  <2> QED BY <2>2, <2>3
<1>2. N \in 0 .. N
  BY <1>0
<1> QED BY <1>1, <1>2

(* The day NextAvailable proposes is the first from which the car is free  *)
(* for as long as was asked, for any finite table.                         *)
LEMMA NextIsFirstFree ==
  ASSUME TableInv, NEW days \in Nat \ {0}
  PROVE  /\ FreeFor(NextAvailable(days), NextAvailable(days) + days)
         /\ \A day \in Today .. NextAvailable(days) - 1 : ~FreeFor(day, day + days)
<1> DEFINE last == Loop(days)[Cardinality(Upcoming)]
<1>1. Passed(last, Cardinality(Upcoming), days)
  BY LoopPasses
<1>2. NextAvailable(days) = last.found.day
  BY DEF NextAvailable
<1> HIDE DEF last
<1>3. IsFiniteSet(Upcoming) /\ Cardinality(Upcoming) \in Nat
  BY FS_Subset, FS_CardinalityType DEF TableInv, Upcoming
<1>4. last.left = {}
  BY <1>1, <1>3, FS_EmptySet DEF Passed
<1>5. Searched(last.found, {b \in booked : b.end >= Today}, days)
  BY <1>1, <1>4 DEF Passed, Upcoming
<1> QED BY <1>1, <1>2, <1>5, SearchedAllIsFirstFree DEF Passed, TableInv

LEMMA TableGains ==
  ASSUME TableInv, NEW row \in Booked, booked' = booked \cup {row}
  PROVE  TableInv'
<1>1. IsFiniteSet(booked \cup {row})
  BY FS_AddElement DEF TableInv
<1>2. booked \cup {row} \subseteq Booked
  BY DEF TableInv
<1> QED BY <1>1, <1>2 DEF TableInv

LEMMA TableStep == FormInv /\ TableInv /\ [FormNext]_formVars => TableInv'
<1> SUFFICES ASSUME FormInv, TableInv, [FormNext]_formVars PROVE TableInv'
  OBVIOUS
<1>1. CASE booked' = booked
  BY <1>1 DEF TableInv
<1>2. CASE CreateBooking
  <2> DEFINE row == [start |-> posted.start, end |-> posted.end, status |-> "pending"]
  <2>1. row \in Booked
    BY <1>2, CalendarDaysAreInt DEF CreateBooking, FormInv, PostInv, Booked
  <2>2. booked' = booked \/ booked' = booked \cup {row}
    BY <1>2 DEF CreateBooking
  <2> HIDE DEF row
  <2> QED BY <1>1, <2>1, <2>2, TableGains
<1>3. CASE OtherBooks
  <2>1. PICK a \in OthersAsk :
          booked' = booked \cup {[start |-> a[1], end |-> a[2], status |-> "pending"]}
    BY <1>3 DEF OtherBooks
  <2> DEFINE row == [start |-> a[1], end |-> a[2], status |-> "pending"]
  <2>2. a[1] \in Int /\ a[2] \in Int
    BY FormAssumption, CalendarDaysAreInt
  <2>3. row \in Booked /\ booked' = booked \cup {row}
    BY <2>1, <2>2 DEF Booked
  <2> HIDE DEF row
  <2> QED BY <2>3, TableGains
<1>4. CASE OwnerAnswers
  <2>1. PICK b \in booked :
          booked' \in {booked \ {b}, (booked \ {b}) \cup {[b EXCEPT !.status = "confirmed"]}}
    BY <1>4 DEF OwnerAnswers
  <2> DEFINE rest == booked \ {b}
             row == [b EXCEPT !.status = "confirmed"]
  <2>2. IsFiniteSet(rest) /\ rest \subseteq Booked /\ b \in Booked
    BY <2>1, FS_RemoveElement DEF TableInv
  <2>3. row \in Booked
    BY <2>2 DEF Booked
  <2>4. booked' = rest \/ booked' = rest \cup {row}
    BY <2>1
  <2> HIDE DEF rest, row
  <2>5. IsFiniteSet(rest \cup {row}) /\ rest \cup {row} \subseteq Booked
    BY <2>2, <2>3, FS_AddElement
  <2> QED BY <2>2, <2>4, <2>5 DEF TableInv
<1> QED BY <1>1, <1>2, <1>3, <1>4 DEF FormNext, formVars, LoadCar, LoadCalendar, LeaveForm,
        Confirm, AnswerForm, PostFails, SmartBook, Reprice, PressDay

(* The table begins as it may be.                                          *)
LEMMA TableInvInit == FormInit => TableInv
BY FormAssumption DEF FormInit, TableInv

(* The dates proposed after a conflict are the first that are free, for any *)
(* tables and however the bookings of the others change meanwhile.         *)
THEOREM ProposesFirstFree == FormSpec => []ProposalIsFirstFree
<1>1. FormInit => TableInv
  BY TableInvInit
<1>2. TableInv => ProposalIsFirstFree
  <2> SUFFICES ASSUME TableInv, NEW days \in 1 .. LastDay
               PROVE  LET next == NextAvailable(days) IN
                      /\ FreeFor(next, next + days)
                      /\ \A day \in Today .. next - 1 : ~FreeFor(day, day + days)
    BY DEF ProposalIsFirstFree
  <2>1. days \in Nat \ {0}
    BY FormAssumption
  <2> QED BY <2>1, NextIsFirstFree
<1> QED BY <1>1, <1>2, TableStep, FormInvariant, PTL DEF FormSpec

-----------------------------------------------------------------------------
(* What the form is proposed is a day.                                     *)

LEMMA NextIsADay ==
  ASSUME TableInv, NEW days \in Nat \ {0}
  PROVE  NextAvailable(days) \in Nat
<1> DEFINE last == Loop(days)[Cardinality(Upcoming)]
<1>1. Passed(last, Cardinality(Upcoming), days)
  BY LoopPasses
<1>2. NextAvailable(days) = last.found.day
  BY DEF NextAvailable
<1> HIDE DEF last
<1>3. last.found.day \in Int /\ last.found.day >= 0
  BY <1>1 DEF Passed, Today
<1> QED BY <1>2, <1>3

LEMMA FormTypesInit == FormInit => FormTypeOK
<1> SUFFICES ASSUME FormInit PROVE FormTypeOK
  OBVIOUS
<1>1. FormInv /\ TableInv
  BY FormInvInit, TableInvInit
<1>2. form.next = Unset /\ posted = Unset /\ posts = 0
  BY DEF FormInit
<1> QED BY <1>1, <1>2, FormAssumption DEF FormInv, TableInv, FormTypeOK

(* Every step on the form keeps the types.                                 *)
LEMMA FormTypesStep ==
  ASSUME FormTypeOK, FormInv, TableInv, [FormNext]_formVars
  PROVE  FormTypeOK'
<1>0. FormInv' /\ TableInv'
  BY FormInvStep, TableStep
<1>a. /\ DOMAIN form = {"phase", "price", "known", "start", "end", "next"}
      /\ form.next \in Nat \cup {Unset} /\ form.start \in Int /\ posts \in 0 .. MaxPosts
      /\ posted # Unset => posted.next \in Nat \cup {Unset}
      /\ posted # Unset => DOMAIN posted = {"start", "end", "seen", "rate", "status", "charged", "next"}
  BY CalendarDaysAreInt DEF FormTypeOK, FormInv, PostInv
<1>1. form'.next \in Nat \cup {Unset}
  <2>1. CASE UNCHANGED form
    BY <1>a, <2>1
  <2>2. CASE LoadCar \/ LoadCalendar \/ LeaveForm \/ Confirm \/ PostFails \/ SmartBook
    BY <1>a, <2>2 DEF LoadCar, LoadCalendar, LeaveForm, Confirm, PostFails, SmartBook
  <2>3. ASSUME NEW day \in CalendarDays, PressDay(day)
        PROVE  form'.next \in Nat \cup {Unset}
    BY <1>a, <2>3 DEF PressDay
  <2>4. CASE AnswerForm
    BY <1>a, <2>4 DEF AnswerForm
  <2> QED BY <2>1, <2>2, <2>3, <2>4
      DEF FormNext, formVars, CreateBooking, Reprice, OtherBooks, OwnerAnswers
<1>2. posted' # Unset => posted'.next \in Nat \cup {Unset}
  <2>1. CASE UNCHANGED posted \/ posted' = Unset
    BY <1>a, <2>1
  <2>2. CASE Confirm
    BY <2>2 DEF Confirm
  <2>3. CASE CreateBooking
    <3> DEFINE days == DiffDays(posted.start, posted.end)
    <3>1. posted # Unset
      BY <2>3 DEF CreateBooking
    <3>2. days \in Nat \ {0}
      <4>1. posted.start \in Int /\ posted.end \in Int /\ posted.start < posted.end
        BY <3>1, CalendarDaysAreInt DEF FormInv, PostInv
      <4> QED BY <4>1 DEF DiffDays
    <3>3. NextAvailable(days) \in Nat
      BY <3>2, NextIsADay
    <3>4. \/ posted' = [posted EXCEPT !.status = 201, !.charged = days * price]
          \/ posted' = [posted EXCEPT !.status = 400, !.next = NextAvailable(days)]
      BY <2>3 DEF CreateBooking
    <3> HIDE DEF days
    <3>5. posted'.next = posted.next \/ posted'.next = NextAvailable(days)
      BY <1>a, <3>1, <3>4
    <3> QED BY <1>a, <3>1, <3>3, <3>5
  <2> QED BY <2>1, <2>2, <2>3
      DEF FormNext, formVars, LoadCar, LoadCalendar, LeaveForm, AnswerForm, PostFails,
          SmartBook, PressDay, Reprice, OtherBooks, OwnerAnswers
<1>3. posts' \in 0 .. MaxPosts
  <2>1. posts' = posts \/ (posts < MaxPosts /\ posts' = posts + 1)
    BY DEF FormNext, formVars, LoadCar, LoadCalendar, LeaveForm, Confirm, CreateBooking,
       AnswerForm, PostFails, SmartBook, PressDay, Reprice, OtherBooks, OwnerAnswers
  <2> QED BY <1>a, <2>1, FormAssumption
<1> QED BY <1>0, <1>1, <1>2, <1>3 DEF FormInv, TableInv, FormTypeOK

-----------------------------------------------------------------------------
(* MayWrite tests the very place an edit writes.                           *)
LEMMA TestedPlace ==
  ASSUME NEW a \in CarAsk, MayWrite(a)
  PROVE  /\ a.op # "create" => cars[a.car] # NoPlace
         /\ a.op \in {"create", "update"} => InOnePlace(a)
<1>1. CASE a.op = "create"
  BY <1>1 DEF MayWrite, ValidPlace, InOnePlace
<1>2. CASE a.op = "update"
  BY <1>2 DEF MayWrite, Visible, Kept, ValidPlace, Given, InOnePlace
<1>3. CASE a.op = "delete"
  BY <1>3 DEF MayWrite, Visible, Kept
<1>4. CASE a.op \in {"approve", "reject"}
  BY <1>4 DEF MayWrite
<1> QED BY <1>1, <1>2, <1>3, <1>4 DEF CarAsk

(* An edit leaves a car in one place, if its request names one.            *)
LEMMA EditedCar ==
  ASSUME NEW a \in CarAsk, cars[a.car] \in Car, InOnePlace(a)
  PROVE  Edited(a) \in Car /\ InOnePlace(Edited(a))
<1> DEFINE e == Edited(a)
<1>1. /\ e.region = a.region /\ e.district = a.district
      /\ e \in Car
  BY CatalogueAssumption DEF Edited, Given, Car, CarAsk, Region, District
<1> QED BY <1>1 DEF InOnePlace

(* What one write leaves in the table.                                     *)
LEMMA Written ==
  ASSUME CatalogueInv, NEW q \in Requests, request[q] # NoPlace, WriteCar(q)
  PROVE  /\ cars' \in [CarIds -> Car \cup {NoPlace}]
         /\ \A c \in CarIds :
              /\ cars[c] # NoPlace => cars'[c] # NoPlace
              /\ cars'[c] # NoPlace => InOnePlace(cars'[c])
              /\ cars[c] # NoPlace /\ cars[c].deleted =>
                   cars'[c] = [cars[c] EXCEPT !.status = cars'[c].status]
<1> DEFINE a == request[q].ask
           Goal(c) == /\ cars[c] # NoPlace => cars'[c] # NoPlace
                      /\ cars'[c] # NoPlace => InOnePlace(cars'[c])
                      /\ cars[c] # NoPlace /\ cars[c].deleted =>
                           cars'[c] = [cars[c] EXCEPT !.status = cars'[c].status]
<1>1. request[q] \in CarCall /\ a \in CarAsk /\ request[q].at = "checked"
  BY DEF CatalogueInv, CatalogueTypeOK, CarCall, WriteCar
<1>2. cars \in [CarIds -> Car \cup {NoPlace}] /\ NoPlace \notin Car /\ a.car \in CarIds
  BY <1>1, CatalogueAssumption DEF CatalogueInv, CatalogueTypeOK, CarAsk
<1>3. /\ a.op # "create" => cars[a.car] \in Car
      /\ a.op \in {"create", "update"} => InOnePlace(a)
  BY <1>1, <1>2 DEF CatalogueInv, CheckedHolds
<1>4. ASSUME NEW c \in CarIds, cars'[c] = cars[c]
      PROVE  Goal(c)
  BY <1>2, <1>4 DEF CatalogueInv, LocationConsistent, Car
<1>5. CASE a.op = "create"
  <2>1. PICK c \in CarIds :
          /\ cars[c] = NoPlace
          /\ cars' = [cars EXCEPT ![c] =
               [owner |-> a.by, region |-> a.region, district |-> a.district,
                available |-> TRUE, status |-> "pending", deleted |-> FALSE]]
    BY <1>5 DEF WriteCar
  <2>2. cars'[c] \in Car /\ InOnePlace(cars'[c])
    BY <1>1, <1>2, <1>3, <1>5, <2>1 DEF CarAsk, Car, CarStatuses, InOnePlace
  <2>3. Goal(c) /\ \A d \in CarIds \ {c} : cars'[d] = cars[d]
    BY <1>2, <2>1, <2>2
  <2> QED BY <1>2, <1>4, <2>1, <2>2, <2>3
<1>6. CASE a.op = "update"
  <2>1. cars' = IF UpdatedRow(a) THEN [cars EXCEPT ![a.car] = Edited(a)] ELSE cars
    BY <1>6 DEF WriteCar
  <2>2. Edited(a) \in Car /\ InOnePlace(Edited(a))
    BY <1>1, <1>3, <1>6, EditedCar
  <2>3. CASE UpdatedRow(a)
    BY <1>2, <1>4, <2>1, <2>2, <2>3 DEF UpdatedRow, Kept
  <2> QED BY <1>2, <1>4, <2>1, <2>3
<1>7. CASE a.op = "delete"
  <2>1. cars' = [cars EXCEPT ![a.car].deleted = TRUE]
    BY <1>7 DEF WriteCar
  <2> DEFINE old == cars[a.car]
             new == [old EXCEPT !.deleted = TRUE]
  <2>2. old \in Car /\ InOnePlace(old)
    BY <1>2, <1>3, <1>7 DEF CatalogueInv, LocationConsistent
  <2>3. /\ new \in Car /\ new.region = old.region /\ new.district = old.district
        /\ old.deleted => new = [old EXCEPT !.status = new.status]
    BY <2>2 DEF Car
  <2>4. Goal(a.car) /\ cars'[a.car] \in Car
    BY <1>2, <2>1, <2>2, <2>3 DEF InOnePlace
  <2> QED BY <1>2, <1>4, <2>1, <2>4
<1>8. ASSUME NEW s \in CarStatuses, cars' = [cars EXCEPT ![a.car].status = s],
             a.op # "create"
      PROVE  /\ cars' \in [CarIds -> Car \cup {NoPlace}]
             /\ \A c \in CarIds : Goal(c)
  <2> DEFINE old == cars[a.car]
             new == [old EXCEPT !.status = s]
  <2>1. old \in Car /\ InOnePlace(old)
    BY <1>2, <1>3, <1>8 DEF CatalogueInv, LocationConsistent
  <2>2. /\ new \in Car /\ new.region = old.region /\ new.district = old.district
        /\ new = [old EXCEPT !.status = new.status]
    BY <2>1 DEF Car
  <2>3. Goal(a.car) /\ cars'[a.car] \in Car
    BY <1>2, <1>8, <2>1, <2>2 DEF InOnePlace
  <2> QED BY <1>2, <1>4, <1>8, <2>3
<1>9. CASE a.op \in {"approve", "reject"}
  <2>1. \E s \in CarStatuses : cars' = [cars EXCEPT ![a.car].status = s]
    BY <1>9 DEF WriteCar, CarStatuses
  <2> QED BY <1>8, <1>9, <2>1
<1> QED BY <1>1, <1>5, <1>6, <1>7, <1>9 DEF CarAsk

-----------------------------------------------------------------------------
(* No request is made yet.                                                 *)
LEMMA CatalogueInvInit == CatalogueInit => CatalogueInv
BY CatalogueAssumption
DEF CatalogueInit, CatalogueInv, CatalogueTypeOK, LocationConsistent, CheckedHolds

(* What a request moves on to.                                             *)
LEMMA Moved ==
  ASSUME CatalogueInv, NEW q \in Requests, request[q] # NoPlace,
         NEW at \in {"checked", "done", "refused"}, Becomes(q, at)
  PROVE  /\ request' \in [Requests -> CarCall \cup {NoPlace}]
         /\ request'[q] # NoPlace /\ request'[q].at = at
         /\ request'[q].ask = request[q].ask
         /\ \A p \in Requests \ {q} : request'[p] = request[p]
<1>1. request[q] \in CarCall
  BY DEF CatalogueInv, CatalogueTypeOK
<1>2. [request[q] EXCEPT !.at = at] \in CarCall
  BY <1>1 DEF CarCall
<1> QED
  BY <1>1, <1>2, CatalogueAssumption DEF CatalogueInv, CatalogueTypeOK, Becomes, CarCall

(* A request that is sent has not been checked.                            *)
LEMMA SendKeeps ==
  ASSUME CatalogueInv, NEW q \in Requests, NEW a \in CarAsk,
         NEW screen \in {"awaited", "left", "none"}, Send(q, a, screen)
  PROVE  CatalogueInv'
<1>1. /\ request' = [request EXCEPT ![q] = [ask |-> a, at |-> "sent", screen |-> screen]]
      /\ UNCHANGED cars
  BY DEF Send
<1>2. [ask |-> a, at |-> "sent", screen |-> screen] \in CarCall
  BY DEF CarCall
<1> QED
  BY <1>1, <1>2 DEF CatalogueInv, CatalogueTypeOK, LocationConsistent, CheckedHolds

(* Every statement keeps the invariant.                                    *)
LEMMA CatalogueInvStep ==
  ASSUME CatalogueInv, [CatalogueNext]_catalogueVars
  PROVE  CatalogueInv'
<1>1. CASE UNCHANGED catalogueVars
  BY <1>1
  DEF catalogueVars, CatalogueInv, CatalogueTypeOK, LocationConsistent, CheckedHolds
<1>2. ASSUME NEW q \in Requests, NEW a \in CarAsks, Send(q, a, "none")
      PROVE  CatalogueInv'
  BY <1>2, SendKeeps, CatalogueAssumption
<1>3. ASSUME NEW q \in Requests, request[q] # NoPlace, CheckRequest(q)
      PROVE  CatalogueInv'
  <2> DEFINE at == IF MayWrite(request[q].ask) THEN "checked" ELSE "refused"
  <2>1. /\ request' \in [Requests -> CarCall \cup {NoPlace}]
        /\ request'[q] # NoPlace /\ request'[q].at = at
        /\ request'[q].ask = request[q].ask
        /\ \A p \in Requests \ {q} : request'[p] = request[p]
    BY <1>3, Moved DEF CheckRequest
  <2>2. cars' = cars /\ request[q].ask \in CarAsk
    BY <1>3 DEF CheckRequest, CatalogueInv, CatalogueTypeOK, CarCall
  <2>3. CheckedHolds'
    BY <2>1, <2>2, TestedPlace DEF CatalogueInv, CheckedHolds
  <2> QED BY <2>1, <2>2, <2>3 DEF CatalogueInv, CatalogueTypeOK, LocationConsistent
<1>4. ASSUME NEW q \in Requests, request[q] # NoPlace, WriteCar(q)
      PROVE  CatalogueInv'
  <2>1. /\ request' \in [Requests -> CarCall \cup {NoPlace}]
        /\ request'[q].at = "done"
        /\ \A p \in Requests \ {q} : request'[p] = request[p]
    BY <1>4, Moved DEF WriteCar
  <2>2. /\ cars' \in [CarIds -> Car \cup {NoPlace}]
        /\ \A c \in CarIds : /\ cars[c] # NoPlace => cars'[c] # NoPlace
                             /\ cars'[c] # NoPlace => InOnePlace(cars'[c])
    BY <1>4, Written
  <2>3. \A p \in Requests : request[p] # NoPlace => request[p].ask.car \in CarIds
    BY DEF CatalogueInv, CatalogueTypeOK, CarCall, CarAsk
  <2>4. CheckedHolds'
    BY <2>1, <2>2, <2>3 DEF CatalogueInv, CheckedHolds
  <2> QED BY <2>1, <2>2, <2>4 DEF CatalogueInv, CatalogueTypeOK, LocationConsistent
<1> QED BY <1>1, <1>2, <1>3, <1>4 DEF CatalogueNext, HandlesCars

(* The inductive invariant of the catalogue.                               *)
THEOREM CatalogueSafe == CatalogueSpec => []CatalogueInv
BY CatalogueInvInit, CatalogueInvStep, PTL DEF CatalogueSpec

(* LocationConsistent for any number of cars, places and requests, however *)
(* their checks and writes interleave.                                     *)
THEOREM CatalogueLocations == CatalogueSpec => []LocationConsistent
<1>1. CatalogueInv => LocationConsistent
  BY DEF CatalogueInv
<1> QED BY <1>1, CatalogueSafe, PTL

(* DeletedStays for any number of cars and requests: no edit in flight     *)
(* revives a deleted car.                                                  *)
THEOREM CatalogueDeleted == CatalogueSpec => DeletedStays
<1> DEFINE Stays == \A c \in CarIds : cars[c] # NoPlace /\ cars[c].deleted =>
                      cars'[c] = [cars[c] EXCEPT !.status = cars'[c].status]
<1>1. CatalogueInv /\ [CatalogueNext]_catalogueVars => [Stays]_catalogueVars
  <2> SUFFICES ASSUME CatalogueInv, CatalogueNext PROVE Stays
    OBVIOUS
  <2>1. ASSUME NEW q \in Requests, request[q] # NoPlace, WriteCar(q)
        PROVE  Stays
    BY <2>1, Written
  <2>2. ASSUME cars' = cars
        PROVE  Stays
    BY <2>2 DEF CatalogueInv, CatalogueTypeOK, Car
  <2> QED BY <2>1, <2>2 DEF CatalogueNext, HandlesCars, CheckRequest, Send
<1> QED BY <1>1, CatalogueSafe, PTL DEF CatalogueSpec, DeletedStays

-----------------------------------------------------------------------------
(* CarForm: the screens send requests to the catalogue and forget them.    *)

(* The requests, but for the screens that wait for them.                   *)
Aside(req) ==
  /\ req = [q \in Requests |-> req[q]]
  /\ \A q \in Requests :
       \/ request[q] = NoPlace /\ req[q] = NoPlace
       \/ /\ request[q] # NoPlace
          /\ \E w \in {"awaited", "left", "none"} : req[q] = [request[q] EXCEPT !.screen = w]

LEMMA AsideNow == CatalogueInv => Aside(request)
<1> SUFFICES ASSUME CatalogueInv, NEW q \in Requests, request[q] # NoPlace
             PROVE  \E w \in {"awaited", "left", "none"} :
                      request[q] = [request[q] EXCEPT !.screen = w]
  BY DEF Aside, CatalogueInv, CatalogueTypeOK
<1>1. request[q] \in CarCall
  BY DEF CatalogueInv, CatalogueTypeOK
<1> QED BY <1>1 DEF CarCall

(* A screen is told.                                                       *)
LEMMA AsideTold ==
  ASSUME CatalogueInv, NEW q \in Requests, request[q] # NoPlace
  PROVE  Aside(Told(q))
<1>1. Aside(request) /\ request = [p \in Requests |-> request[p]]
  BY AsideNow DEF Aside
<1>2. Told(q) = [p \in Requests |-> IF p = q THEN [request[q] EXCEPT !.screen = "none"]
                                    ELSE request[p]]
  BY <1>1 DEF Told
<1> QED BY <1>1, <1>2 DEF Aside

(* A screen is closed.                                                     *)
LEMMA AsideUnheard ==
  ASSUME CatalogueInv, NEW req, Aside(req), NEW ops, NEW now \in {"left", "none"}
  PROVE  Aside(Unheard(req, ops, now))
<1> SUFFICES ASSUME NEW q \in Requests, request[q] # NoPlace
             PROVE  \E w \in {"awaited", "left", "none"} :
                      Unheard(req, ops, now)[q] = [request[q] EXCEPT !.screen = w]
  BY DEF Aside, Unheard
<1>1. PICK w \in {"awaited", "left", "none"} : req[q] = [request[q] EXCEPT !.screen = w]
  BY DEF Aside
<1>2. Unheard(req, ops, now)[q] \in {req[q], [req[q] EXCEPT !.screen = now]}
  BY DEF Unheard
<1>3. request[q] \in CarCall
  BY DEF CatalogueInv, CatalogueTypeOK
<1>4. [req[q] EXCEPT !.screen = now] = [request[q] EXCEPT !.screen = now]
  BY <1>1, <1>3 DEF CarCall
<1> QED BY <1>1, <1>2, <1>4

LEMMA AsidePopped ==
  ASSUME CatalogueInv, NEW req, Aside(req), NEW n, PopScreen(req, n)
  PROVE  Aside(request')
<1>1. \/ request' = req
      \/ \E ops : \E now \in {"left", "none"} : request' = Unheard(req, ops, now)
  BY DEF PopScreen
<1> QED BY <1>1, AsideUnheard

(* Which screen waits is nothing to the server.                            *)
LEMMA AsideKeeps ==
  ASSUME CatalogueInv, UNCHANGED cars, Aside(request')
  PROVE  CatalogueInv'
<1>1. ASSUME NEW q \in Requests, request[q] # NoPlace
      PROVE  /\ request'[q] \in CarCall
             /\ request'[q].ask = request[q].ask /\ request'[q].at = request[q].at
  <2>1. request[q] \in CarCall
    BY <1>1 DEF CatalogueInv, CatalogueTypeOK
  <2>2. PICK w \in {"awaited", "left", "none"} : request'[q] = [request[q] EXCEPT !.screen = w]
    BY <1>1 DEF Aside
  <2> QED BY <2>1, <2>2 DEF CarCall
<1>2. \A q \in Requests : request[q] = NoPlace => request'[q] = NoPlace
  BY DEF Aside
<1>3. CatalogueTypeOK'
  BY <1>1, <1>2 DEF CatalogueInv, CatalogueTypeOK, Aside
<1>4. CheckedHolds'
  BY <1>1, <1>2 DEF CatalogueInv, CheckedHolds
<1> QED BY <1>3, <1>4 DEF CatalogueInv, LocationConsistent

(* What the screens write of the catalogue's state keeps its invariant.    *)
LEMMA ScreensKeepCatalogue ==
  ASSUME CarFormInv, CarFormNext
  PROVE  CatalogueInv'
<1>a. CatalogueInv
  BY DEF CarFormInv
<1>b. UNCHANGED catalogueVars => CatalogueInv'
  BY <1>a, CatalogueInvStep
<1>1. ASSUME NEW q \in Requests, Save(q) PROVE CatalogueInv'
  <2> DEFINE a == CarRequest(IF carForm.car = NoPlace THEN "create" ELSE "update",
                             Given(carForm.car, CHOOSE c \in CarIds : TRUE),
                             carForm.region, carForm.district, carForm.available)
  <2>1. Send(q, a, "awaited") /\ carForm \in Form
    BY <1>1 DEF Save, Filling, CarFormInv, PlaceInv
  <2>2. Given(carForm.car, CHOOSE c \in CarIds : TRUE) \in CarIds
    BY <2>1, CarFormAssumption DEF Given, Form
  <2>3. a \in CarAsk
    BY <2>1, <2>2, CarFormAssumption DEF CarRequest, CarAsk, Form
  <2> QED BY <1>a, <2>1, <2>3, SendKeeps
<1>2. ASSUME NEW q \in Requests, request[q] # NoPlace,
             SaveEnds(q) \/ LateSave(q) \/ DeleteEnds(q)
      PROVE  CatalogueInv'
  <2>1. request' = Told(q) \/ PopScreen(Told(q), strayReads)
    BY <1>2 DEF SaveEnds, LateSave, DeleteEnds
  <2>2. UNCHANGED cars
    BY <1>2 DEF SaveEnds, LateSave, DeleteEnds
  <2> QED BY <1>2, <1>a, <2>1, <2>2, AsideTold, AsidePopped, AsideKeeps
<1>3. ASSUME NEW q \in Requests, NEW c \in CarIds, DeleteMine(q, c) PROVE CatalogueInv'
  <2>1. Send(q, CarRequest("delete", c, NoPlace, NoPlace, NoPlace), "awaited")
    BY <1>3 DEF DeleteMine
  <2>2. CarRequest("delete", c, NoPlace, NoPlace, NoPlace) \in CarAsk
    BY CarFormAssumption DEF CarRequest, CarAsk, Region, District
  <2> QED BY <1>a, <2>1, <2>2, SendKeeps
<1>4. ASSUME NEW q \in Requests, NEW a \in Alongside, Send(q, a, "none") PROVE CatalogueInv'
  BY <1>4, <1>a, SendKeeps, CarFormAssumption
<1>5. CASE HandlesCars
  BY <1>5, <1>a, CatalogueInvStep DEF CatalogueNext
<1>6. CASE Back \/ LateRead
  <2>1. UNCHANGED cars /\ (UNCHANGED request \/ \E n : PopScreen(request, n))
    BY <1>6 DEF Back, LateRead
  <2>2. Aside(request')
    BY <1>a, <2>1, AsideNow, AsidePopped
  <2> QED BY <1>a, <2>1, <2>2, AsideKeeps
<1>7. ASSUME UNCHANGED catalogueVars PROVE CatalogueInv'
  BY <1>7, <1>b
<1> QED
  BY <1>1, <1>2, <1>3, <1>4, <1>5, <1>6, <1>7
  DEF CarFormNext, OpenMine, PullMine, RegionsArrive, CarArrives, ToggleAvailable, ReadMine,
      MineArrives, OtherLanguage, DetailArrives, DistrictsArrive, OpenDetail, OpenForm,
      PickRegion, PickDistrict, Untouched

-----------------------------------------------------------------------------
(* The form's places.                                                      *)

(* A fetch of districts for the region that was just set.                  *)
LEMMA AskingKeeps ==
  ASSUME NEW w \in Form, NEW r \in Regions, NEW v \in AskDistricts(w, r)
  PROVE  /\ v \in Form /\ v.locationLoading
         /\ v.car = w.car /\ v.fetching = w.fetching
         /\ v.region = w.region /\ v.district = w.district
<1>1. PICK f \in Fetches : v = [w EXCEPT !.fetch[f] = r, !.locationLoading = TRUE]
  BY DEF AskDistricts
<1>2. [w.fetch EXCEPT ![f] = r] \in [Fetches -> Region]
  BY DEF Form, Region
<1> QED BY <1>1, <1>2 DEF Form

(* Initially no form is open.                                              *)
LEMMA CarFormInvInit == CarFormInit => CarFormInv
BY CatalogueInvInit DEF CarFormInit, CarFormInv, PlaceInv

(* Every event keeps the form's places together.                           *)
LEMMA PlaceInvStep ==
  ASSUME CarFormInv, CarFormNext
  PROVE  PlaceInv'
<1>a. PlaceInv
  BY DEF CarFormInv
<1>b. UNCHANGED <<carForm, mishap>> => PlaceInv'
  BY <1>a DEF PlaceInv
<1>c. carForm' = NoPlace /\ UNCHANGED mishap => PlaceInv'
  BY <1>a DEF PlaceInv
<1>d. Filling => carForm \in Form /\ carForm # NoPlace
  BY <1>a DEF Filling, PlaceInv
<1>1. ASSUME NEW c \in CarIds \cup {NoPlace}, OpenForm(c) PROVE PlaceInv'
  <2>1. carForm' \in Form /\ carForm'.region = NoPlace /\ carForm'.car = c
        /\ carForm'.fetching = (c # NoPlace)
    BY <1>1 DEF OpenForm, Form, Region, District, NoFetch
  <2>2. mishap' = FALSE
    BY <1>1 DEF OpenForm
  <2> QED BY <2>1, <2>2 DEF PlaceInv
<1>2. CASE RegionsArrive
  <2>1. PICK ok \in BOOLEAN :
          carForm' = [carForm EXCEPT !.asksRegions = FALSE, !.regions = ok]
    BY <1>2 DEF RegionsArrive
  <2>2. carForm \in Form /\ carForm # NoPlace /\ UNCHANGED mishap
    BY <1>2, <1>d DEF RegionsArrive
  <2>3. carForm' \in Form /\ carForm'.fetching = carForm.fetching
        /\ carForm'.car = carForm.car /\ carForm'.region = carForm.region
        /\ carForm'.district = carForm.district /\ carForm'.districts = carForm.districts
        /\ carForm'.locationLoading = carForm.locationLoading
    BY <2>1, <2>2 DEF Form
  <2> QED BY <1>a, <2>2, <2>3 DEF PlaceInv
<1>3. CASE CarArrives
  <2>1. CASE carForm' = NoPlace
    BY <1>3, <1>c, <2>1 DEF CarArrives
  <2> DEFINE car == cars[carForm.car]
             w == [carForm EXCEPT !.region = car.region, !.district = car.district,
                                  !.available = car.available, !.fetching = FALSE]
  <2>2. CASE /\ Visible(carForm.car, Owner)
             /\ carForm' \in IF car.region = NoPlace THEN {w} ELSE AskDistricts(w, car.region)
    <3>1. carForm \in Form /\ carForm.car \in CarIds /\ UNCHANGED mishap
      BY <1>3, <1>a, <1>d DEF CarArrives, PlaceInv
    <3>2. car \in Car /\ InOnePlace(car)
      BY <2>2, <3>1
      DEF Visible, Kept, CarFormInv, CatalogueInv, CatalogueTypeOK, LocationConsistent
    <3>3. w \in Form /\ w.region = car.region /\ w.district = car.district /\ ~w.fetching
      BY <3>1, <3>2 DEF Form, Car
    <3>4. CASE car.region = NoPlace
      BY <1>a, <2>2, <3>1, <3>3, <3>4 DEF PlaceInv
    <3>5. CASE car.region # NoPlace
      <4>1. car.region \in Regions
        BY <3>2, <3>5 DEF Car, Region
      <4>2. carForm' \in AskDistricts(w, car.region)
        BY <2>2, <3>5
      <4>3. /\ carForm' \in Form /\ carForm'.locationLoading /\ ~carForm'.fetching
            /\ carForm'.region = car.region /\ carForm'.district = car.district
        <5> HIDE DEF w, car
        <5> QED BY <3>3, <4>1, <4>2, AskingKeeps
      <4> QED BY <1>a, <3>1, <3>2, <4>3 DEF PlaceInv, InOnePlace
    <3> QED BY <3>4, <3>5
  <2> QED BY <1>3, <2>1, <2>2 DEF CarArrives
<1>4. ASSUME NEW f \in Fetches, NEW ok \in BOOLEAN, DistrictsArrive(f, ok) PROVE PlaceInv'
  <2>1. carForm \in Form /\ carForm # NoPlace
    BY <1>4, <1>d DEF DistrictsArrive
  <2> DEFINE r == carForm.fetch[f]
  <2>2. r \in Regions /\ [carForm.fetch EXCEPT ![f] = NoPlace] \in [Fetches -> Region]
    BY <1>4, <2>1 DEF DistrictsArrive, Form, Region
  <2>3. /\ carForm' \in Form /\ ~carForm'.locationLoading
        /\ carForm'.fetching = carForm.fetching /\ carForm'.car = carForm.car
        /\ carForm'.region = carForm.region /\ carForm'.district = carForm.district
        /\ ok => carForm'.districts = r
    BY <1>4, <2>1, <2>2 DEF DistrictsArrive, Form, Region
  <2>4. mishap' = (mishap \/ ~ok \/ r # carForm.region)
    BY <1>4 DEF DistrictsArrive
  <2> QED BY <1>a, <2>1, <2>3, <2>4 DEF PlaceInv
<1>5. ASSUME NEW r \in Regions, PickRegion(r) PROVE PlaceInv'
  <2>1. carForm \in Form /\ carForm # NoPlace /\ UNCHANGED mishap
    BY <1>5, <1>d DEF PickRegion
  <2> DEFINE w == InRegion(carForm, r)
  <2>2. /\ w \in Form /\ w.region = r /\ w.district = NoPlace
        /\ w.fetching = carForm.fetching /\ w.car = carForm.car
    BY <2>1 DEF InRegion, Form, Region, District
  <2>3. carForm' \in AskDistricts(w, r)
    BY <1>5 DEF PickRegion
  <2>4. /\ carForm' \in Form /\ carForm'.locationLoading
        /\ carForm'.district = NoPlace
        /\ carForm'.fetching = carForm.fetching /\ carForm'.car = carForm.car
    <3> HIDE DEF w
    <3> QED BY <2>2, <2>3, AskingKeeps
  <2> QED BY <1>a, <2>1, <2>4 DEF PlaceInv
<1>6. ASSUME NEW d \in Districts, PickDistrict(d) PROVE PlaceInv'
  <2>1. carForm \in Form /\ carForm # NoPlace /\ UNCHANGED mishap
    BY <1>6, <1>d DEF PickDistrict
  <2>2. /\ carForm' \in Form /\ carForm'.district = d
        /\ carForm'.fetching = carForm.fetching /\ carForm'.car = carForm.car
        /\ carForm'.region = carForm.region /\ carForm'.districts = carForm.districts
        /\ carForm'.locationLoading = carForm.locationLoading
    BY <1>6, <2>1 DEF PickDistrict, Form, District
  <2>3. RegionOf[d] = carForm.districts /\ ~carForm.locationLoading
    BY <1>6 DEF PickDistrict
  <2> QED BY <1>a, <2>1, <2>2, <2>3 DEF PlaceInv
<1>7. CASE ToggleAvailable
  <2>1. carForm \in Form /\ carForm # NoPlace /\ UNCHANGED mishap
    BY <1>7, <1>d DEF ToggleAvailable
  <2>2. /\ carForm' \in Form /\ carForm'.district = carForm.district
        /\ carForm'.fetching = carForm.fetching /\ carForm'.car = carForm.car
        /\ carForm'.region = carForm.region /\ carForm'.districts = carForm.districts
        /\ carForm'.locationLoading = carForm.locationLoading
    BY <1>7, <2>1 DEF ToggleAvailable, Form
  <2> QED BY <1>a, <2>1, <2>2 DEF PlaceInv
<1>8. ASSUME NEW l \in BOOLEAN, carForm # NoPlace, UNCHANGED mishap,
             carForm' = [carForm EXCEPT !.loading = l]
      PROVE  PlaceInv'
  <2>1. carForm \in Form
    BY <1>8, <1>a DEF PlaceInv
  <2>2. /\ carForm' \in Form /\ carForm'.district = carForm.district
        /\ carForm'.fetching = carForm.fetching /\ carForm'.car = carForm.car
        /\ carForm'.region = carForm.region /\ carForm'.districts = carForm.districts
        /\ carForm'.locationLoading = carForm.locationLoading
    BY <1>8, <2>1 DEF Form
  <2> QED BY <1>8, <1>a, <2>1, <2>2 DEF PlaceInv
<1>9. ASSUME NEW q \in Requests, Save(q) PROVE PlaceInv'
  BY <1>8, <1>9, <1>d DEF Save
<1>10. ASSUME NEW req, NEW n, PopScreen(req, n), UNCHANGED mishap PROVE PlaceInv'
  BY <1>10, <1>b, <1>c DEF PopScreen
<1>11. ASSUME NEW q \in Requests, SaveEnds(q) \/ LateSave(q) PROVE PlaceInv'
  BY <1>8, <1>10, <1>11, <1>b DEF SaveEnds, LateSave
<1>12. CASE Back \/ LateRead
  BY <1>10, <1>12, <1>b DEF Back, LateRead
<1> QED
  BY <1>b, <1>1, <1>2, <1>3, <1>4, <1>5, <1>6, <1>7, <1>9, <1>11, <1>12
  DEF CarFormNext, OpenMine, PullMine, ReadMine, MineArrives, OtherLanguage, DetailArrives,
      OpenDetail, DeleteEnds, DeleteMine, carScreenVars

(* Every step of the screens, the server and the others.                   *)
LEMMA CarFormInvStep == CarFormInv /\ [CarFormNext]_carFormVars => CarFormInv'
<1> SUFFICES ASSUME CarFormInv, [CarFormNext]_carFormVars PROVE CarFormInv'
  OBVIOUS
<1>1. CASE CarFormNext
  BY <1>1, ScreensKeepCatalogue, PlaceInvStep DEF CarFormInv
<1>2. CASE UNCHANGED carFormVars
  <2>1. CatalogueInv'
    BY <1>2, CatalogueInvStep DEF carFormVars, CarFormInv
  <2>2. PlaceInv'
    BY <1>2 DEF carFormVars, carScreenVars, CarFormInv, PlaceInv
  <2> QED BY <2>1, <2>2 DEF CarFormInv
<1> QED BY <1>1, <1>2

(* CarFormInv, for any cars, places and requests beside the owner's.       *)
THEOREM CarFormInvariant == CarFormSpec => []CarFormInv
BY CarFormInvInit, CarFormInvStep, PTL DEF CarFormSpec

(* FormBreaksOnlyByLateLists for any places, picks and fetches in flight:  *)
(* without a failed or overtaken list no name is looked up in vain.        *)
THEOREM FormLooksUpWhatIsThere == CarFormSpec => []FormBreaksOnlyByLateLists
<1>1. ASSUME CarFormInv PROVE FormBreaksOnlyByLateLists
  <2> SUFFICES ASSUME Broken, ~mishap, carForm.regions, carForm.region # NoPlace
               PROVE  FALSE
    BY DEF FormBreaksOnlyByLateLists
  <2>1. /\ carForm.district # NoPlace /\ ~carForm.locationLoading
        /\ carForm.districts = NoPlace \/ RegionOf[carForm.district] # carForm.districts
    BY DEF Broken
  <2> QED BY <1>1, <2>1 DEF Broken, CarFormInv, PlaceInv
<1> QED BY <1>1, CarFormInvariant, PTL

-----------------------------------------------------------------------------
(* The types of the screens that read and write cars.                      *)

(* A fetch of the list of cars begins, is read or ends.                    *)
LEMMA MineFetches ==
  ASSUME NEW m \in Mine, NEW f \in Fetches, NEW a \in Answers \cup {NoPlace}
  PROVE  [m EXCEPT !.fetch[f] = a] \in Mine
<1>1. [m.fetch EXCEPT ![f] = a] \in [Fetches -> Answers \cup {NoPlace}]
  BY DEF Mine
<1>2. [m EXCEPT !.fetch[f] = a] = [m EXCEPT !.fetch = [m.fetch EXCEPT ![f] = a]]
  BY DEF Mine
<1> QED BY <1>1, <1>2 DEF Mine

LEMMA FetchingMine == ASSUME NEW m \in Mine PROVE Fetching(m) \subseteq Mine
BY MineFetches DEF Fetching, Answers, Flying

LEMMA MineOpens == ASSUME NEW f \in Fetches PROVE NewMine(f) \in Mine
<1>1. [NoFetch EXCEPT ![f] = Flying] \in [Fetches -> Answers \cup {NoPlace}]
  BY DEF NoFetch, Answers
<1> QED BY <1>1 DEF NewMine, Mine

(* A list that has come is a set of cars.                                  *)
LEMMA MineAnswered ==
  ASSUME mine \in Mine, NEW f \in Fetches, MineArrives(f)
  PROVE  mine' \in Mine
<1>1. PICK got \in {mine.fetch[f], Flying} :
        mine' = [mine EXCEPT !.fetch[f] = NoPlace, !.loading = FALSE, !.refreshing = FALSE,
                             !.shown = IF got = Flying THEN @ ELSE got[1]]
  BY DEF MineArrives
<1>2. mine.fetch[f] \in Answers /\ mine.shown \subseteq CarIds
  BY DEF MineArrives, Mine
<1> DEFINE seen == IF got = Flying THEN mine.shown ELSE got[1]
           ended == [mine.fetch EXCEPT ![f] = NoPlace]
<1>3. seen \in SUBSET CarIds
  <2>1. got = Flying \/ \E list \in SUBSET CarIds : got = <<list>>
    BY <1>2 DEF Answers
  <2> QED BY <1>2, <2>1
<1>4. ended \in [Fetches -> Answers \cup {NoPlace}]
  BY DEF Mine
<1>5. mine' = [shown |-> seen, loading |-> FALSE, refreshing |-> FALSE, fetch |-> ended]
  BY <1>1 DEF Mine
<1> QED BY <1>3, <1>4, <1>5 DEF Mine

LEMMA CarFormTypesInit == CarFormInit => CarFormTypeOK
<1> SUFFICES ASSUME CarFormInit PROVE CarFormTypeOK
  OBVIOUS
<1>1. \E f \in Fetches : mine = NewMine(f)
  BY DEF CarFormInit
<1>2. mine \in Mine
  BY <1>1, MineOpens
<1>3. carForm = NoPlace /\ carDetail = NoPlace /\ strayReads = 0 /\ mishap \in BOOLEAN
      /\ picks = 0
  BY DEF CarFormInit
<1>4. 0 \in 0 .. MaxPicks
  BY CarFormAssumption
<1> QED BY <1>2, <1>3, <1>4 DEF CarFormTypeOK

(* Every step of the screens keeps the types.                              *)
LEMMA CarFormTypesStep ==
  ASSUME CarFormTypeOK, CarFormInv, [CarFormNext]_carFormVars
  PROVE  CarFormTypeOK'
<1>0. /\ mine \in Mine \cup {NoPlace} /\ carDetail \in Detail \cup {NoPlace}
      /\ strayReads \in Nat /\ picks \in 0 .. MaxPicks
  BY DEF CarFormTypeOK
<1>1. CarFormInv'
  BY CarFormInvStep
<1>2. mine' \in Mine \cup {NoPlace}
  <2>1. ASSUME NEW f \in Fetches, ReadMine(f)
        PROVE  mine' \in Mine
    BY <1>0, <2>1, MineFetches DEF ReadMine, Answers
  <2>2. CASE PullMine
    <3>1. [mine EXCEPT !.refreshing = TRUE] \in Mine
      BY <1>0, <2>2 DEF PullMine, OnMine, Mine
    <3> QED BY <2>2, <3>1, FetchingMine DEF PullMine
  <2>3. ASSUME NEW q \in Requests, DeleteEnds(q)
        PROVE  mine' \in Mine
    BY <1>0, <2>3, FetchingMine DEF DeleteEnds
  <2>4. ASSUME NEW f \in Fetches, MineArrives(f)
        PROVE  mine' \in Mine
    BY <1>0, <2>4, MineAnswered DEF MineArrives
  <2>5. ASSUME NEW f \in Fetches, OpenMine(f)
        PROVE  mine' \in Mine
    BY <2>5, MineOpens DEF OpenMine
  <2>6. ASSUME ~UNCHANGED mine, mine' # NoPlace
        PROVE  \/ PullMine \/ \E f \in Fetches : ReadMine(f) \/ MineArrives(f) \/ OpenMine(f)
               \/ \E q \in Requests : DeleteEnds(q)
    BY <2>6
    DEF CarFormNext, carFormVars, carScreenVars, RegionsArrive, CarArrives, ToggleAvailable,
        Back, LateRead, LateSave, PopScreen, OtherLanguage, DetailArrives, DistrictsArrive,
        OpenDetail, OpenForm, PickRegion, PickDistrict, Save, SaveEnds, DeleteMine, Untouched
  <2> QED BY <1>0, <2>1, <2>2, <2>3, <2>4, <2>5, <2>6
<1>3. carDetail' \in Detail \cup {NoPlace}
  <2>1. ASSUME NEW c \in CarIds, NEW f \in Fetches, OpenDetail(c, f)
        PROVE  carDetail' \in Detail \cup {NoPlace}
    BY <2>1 DEF OpenDetail, Detail
  <2>2. ASSUME NEW f \in Fetches, OtherLanguage(f)
        PROVE  carDetail' \in Detail \cup {NoPlace}
    BY <1>0, <2>2 DEF OtherLanguage, Detail
  <2>3. ASSUME NEW f \in Fetches, DetailArrives(f)
        PROVE  carDetail' \in Detail \cup {NoPlace}
    BY <1>0, <2>3 DEF DetailArrives, Detail
  <2>4. CASE UNCHANGED carDetail \/ carDetail' = NoPlace
    BY <1>0, <2>4
  <2>5. ASSUME ~UNCHANGED carDetail, carDetail' # NoPlace
        PROVE  \E f \in Fetches : \/ \E c \in CarIds : OpenDetail(c, f)
                                  \/ OtherLanguage(f) \/ DetailArrives(f)
    BY <2>5
    DEF CarFormNext, carFormVars, carScreenVars, RegionsArrive, CarArrives, ToggleAvailable,
        Back, LateRead, LateSave, PopScreen, DistrictsArrive, OpenForm, PickRegion,
        PickDistrict, Save, SaveEnds, DeleteMine, Untouched, OpenMine, PullMine, ReadMine,
        MineArrives, DeleteEnds
  <2> QED BY <2>1, <2>2, <2>3, <2>4, <2>5
<1>4. picks' \in 0 .. MaxPicks
  <2>1. picks' = picks \/ Does
    BY DEF CarFormNext, carFormVars, carScreenVars, RegionsArrive, CarArrives, ToggleAvailable,
        Back, LateRead, LateSave, DistrictsArrive, OpenForm, PickRegion, PickDistrict, Save,
        SaveEnds, DeleteMine, Untouched, OpenMine, PullMine, ReadMine, MineArrives, DeleteEnds,
        OpenDetail, OtherLanguage, DetailArrives
  <2> QED BY <1>0, <2>1, CarFormAssumption DEF Does
<1>5. strayReads' \in Nat
  <2>1. ASSUME NEW s \in SUBSET Fetches PROVE Cardinality(s) \in Nat
    BY <2>1, CarFormAssumption, FS_Subset, FS_CardinalityType
  <2>2. ASSUME NEW req, NEW n \in Nat, PopScreen(req, n) PROVE strayReads' \in Nat
    <3>1. carDetail # NoPlace => Cardinality(carDetail.fetch) \in Nat
      BY <1>0, <2>1 DEF Detail
    <3> QED BY <2>2, <3>1 DEF PopScreen
  <2>3. ASSUME NEW f \in Fetches, DetailArrives(f) PROVE strayReads' \in Nat
    <3>1. Cardinality(carDetail.fetch \ {f}) \in Nat
      BY <1>0, <2>1, <2>3 DEF DetailArrives, Detail
    <3> QED BY <1>0, <2>3, <3>1 DEF DetailArrives
  <2>4. CASE Back \/ LateRead
    BY <1>0, <2>2, <2>4 DEF Back, LateRead
  <2>5. ASSUME NEW q \in Requests, SaveEnds(q) \/ LateSave(q) PROVE strayReads' \in Nat
    BY <1>0, <2>2, <2>5 DEF SaveEnds, LateSave
  <2>6. \/ UNCHANGED strayReads \/ Back \/ LateRead \/ \E f \in Fetches : DetailArrives(f)
        \/ \E q \in Requests : SaveEnds(q) \/ LateSave(q)
    BY DEF CarFormNext, carFormVars, carScreenVars, RegionsArrive, CarArrives, ToggleAvailable,
        DistrictsArrive, OpenForm, PickRegion, PickDistrict, Save, DeleteMine, Untouched,
        OpenMine, PullMine, ReadMine, MineArrives, DeleteEnds, OpenDetail, OtherLanguage
  <2> QED BY <1>0, <2>3, <2>4, <2>5, <2>6
<1> QED BY <1>1, <1>2, <1>3, <1>4, <1>5 DEF CarFormInv, PlaceInv, CarFormTypeOK
=============================================================================
