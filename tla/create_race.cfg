SPECIFICATION FairSpec
CONSTANTS
  c1 = c1
  c2 = c2
  owner = owner
  renter = renter
  admin = admin
  NoBooking = NoBooking
  Cars <- TwoCars
  BigintKeys <- OneCar
  OwnerOf <- OwnedByOwner
  Users <- OneUser
  Admins <- NoAdmin
  Updaters = {}
  Requests = {r1, r2}
  Prices = {1}
  MaxDay = 2
  LastToday = 0
  AdminOverrides = FALSE
  MaxFaults = 0
INVARIANTS TypeOK NoDoubleBooking NoLeakedLock AnswerMatchesTable
PROPERTIES EveryPostEnds
