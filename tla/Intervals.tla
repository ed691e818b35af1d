----------------------------- MODULE Intervals -----------------------------
(***************************************************************************)
(* Calendar days and half-open booking ranges [start, end), as             *)
(* bookings.service.js and the SQL of bookings.repository.js compute with  *)
(* them.  A day is an integer; the day a booking ends is free again.       *)
(***************************************************************************)
EXTENDS Integers

(* The WHERE clause of findOverlapping: start < $3 AND end > $2.           *)
Overlaps(start1, end1, start2, end2) == start1 < end2 /\ end1 > start2

(* Math.round(Math.abs(end - start) / one day), on whole local days.       *)
DiffDays(start, end) == IF end >= start THEN end - start ELSE start - end

(* Math.max.                                                               *)
Larger(m, n) == IF m < n THEN n ELSE m
=============================================================================
