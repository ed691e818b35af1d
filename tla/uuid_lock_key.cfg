SPECIFICATION Spec
CONSTANTS
  c1 = c1
  c2 = c2
  owner = owner
  renter = renter
  admin = admin
  NoBooking = NoBooking
  Cars <- OneCar
  BigintKeys <- NoCar
  OwnerOf <- OwnedByOwner
  Users <- OneUser
  Admins <- NoAdmin
  Updaters = {}
  Requests = {r1}
  Prices = {1}
  MaxDay = 1
  LastToday = 0
  AdminOverrides = FALSE
  MaxFaults = 0
PROPERTIES LockKeyAccepted
