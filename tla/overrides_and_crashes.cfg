SPECIFICATION Spec
CONSTANTS
  c1 = c1
  c2 = c2
  owner = owner
  renter = renter
  admin = admin
  NoBooking = NoBooking
  Cars <- OneCar
  BigintKeys <- OneCar
  OwnerOf <- OwnedByOwner
  Users <- OneUser
  Admins <- NoAdmin
  Updaters = {}
  Requests = {r1, r2}
  Prices = {1}
  MaxDay = 2
  LastToday = 0
  AdminOverrides = TRUE
  MaxFaults = 2
SYMMETRY Symmetry
INVARIANTS IInv
PROPERTIES ImplementsCalendar
