-------------------------- MODULE BookingCalendar --------------------------
(***************************************************************************)
(* What the booking service promises about a car's calendar, without       *)
(* locks, connections or handlers: a booking takes its days in one atomic  *)
(* step, and only if no other guarded booking of the car has any of them.  *)
(* A booking outside that promise is known by name: it is in "loose".      *)
(***************************************************************************)
EXTENDS Intervals

CONSTANTS Bookings, Cars, Days, NoSlot

Slot == {s \in [car : Cars, start : Days, end : Days] : s.start < s.end}

VARIABLES
  reserved,  \* the bookings that have been made
  taken,     \* the days each booking holds now
  loose      \* bookings that took days without the check

vars == <<reserved, taken, loose>>

Clash(s, t) == s.car = t.car /\ Overlaps(s.start, s.end, t.start, t.end)

Init == reserved = {} /\ taken = [b \in Bookings |-> NoSlot] /\ loose = {}

(* A booking is made on days that no guarded booking holds.                *)
Reserve(b) ==
  /\ b \notin reserved
  /\ \E slot \in Slot :
       /\ \A o \in Bookings \ loose : taken[o] # NoSlot => ~Clash(taken[o], slot)
       /\ taken' = [taken EXCEPT ![b] = slot]
  /\ reserved' = reserved \cup {b}
  /\ UNCHANGED loose

(* A booking gives its days back: cancelled, rejected or completed.        *)
GiveBack(b) ==
  /\ taken[b] # NoSlot
  /\ taken' = [taken EXCEPT ![b] = NoSlot]
  /\ UNCHANGED <<reserved, loose>>

(* A booking takes days unchecked, and is known to have done so.           *)
TakeUnchecked(b) ==
  /\ taken[b] = NoSlot
  /\ \E slot \in Slot : taken' = [taken EXCEPT ![b] = slot]
  /\ reserved' = reserved \cup {b}
  /\ loose' = loose \cup {b}

Next == \E b \in Bookings : Reserve(b) \/ GiveBack(b) \/ TakeUnchecked(b)

Spec == Init /\ [][Next]_vars

(* The promise: guarded bookings never share a day of a car.               *)
NoClash ==
  \A a, b \in Bookings \ loose :
     a # b /\ taken[a] # NoSlot /\ taken[b] # NoSlot => ~Clash(taken[a], taken[b])
=============================================================================
