----------------------------- MODULE BookingMC -----------------------------
(* Model values and small constants for the runs of Booking.               *)
EXTENDS Booking, TLC

CONSTANTS c1, c2, owner, renter, admin

OneCar == {c1}
TwoCars == {c1, c2}
NoCar == {}
OwnedByOwner == [c \in Cars |-> owner]

People == {owner, renter, admin}
OneUser == {owner}
OneAdmin == {admin}
NoAdmin == {}

Symmetry == Permutations(Requests)
=============================================================================
