SPECIFICATION Spec
CONSTANTS
  c1 = c1
  c2 = c2
  owner = owner
  renter = renter
  admin = admin
  NoBooking = NoBooking
  Cars <- OneCar
  BigintKeys <- OneCar
  OwnerOf <- OwnedByOwner
  Users <- People
  Admins <- OneAdmin
  Updaters = {u1}
  Requests = {r1}
  Prices = {1}
  MaxDay = 2
  LastToday = 1
  AdminOverrides = FALSE
  MaxFaults = 0
INVARIANTS IInv
PROPERTIES StrictTransitions
