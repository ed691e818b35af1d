SPECIFICATION Spec
CONSTANTS
  c1 = c1
  c2 = c2
  owner = owner
  renter = renter
  admin = admin
  NoBooking = NoBooking
  Cars <- OneCar
  BigintKeys <- OneCar
  OwnerOf <- OwnedByOwner
  Users <- OneUser
  Admins <- NoAdmin
  Updaters = {u1, u2}
  Requests = {r1, r2}
  Prices = {1}
  MaxDay = 1
  LastToday = 0
  AdminOverrides = FALSE
  MaxFaults = 0
INVARIANTS NoDoubleBooking
