SPECIFICATION FairSpec
CONSTANTS
  ann = ann
  bob = bob
  phone = phone
  tablet = tablet
  q1 = q1
  q2 = q2
  q3 = q3
  None = None
  Users <- Ann
  FirstUser = ann
  Devices <- PhoneAndTablet
  Requests <- TwoCalls
  DeviceOf <- AllOnPhone
  AccessLife = 1
  RefreshLife = 2
  MaxTime = 2
  MaxVersion = 2
  MaxDisturbances = 1
INVARIANTS SessionInv SessionSurvives
PROPERTIES EveryCallSettles
CHECK_DEADLOCK FALSE
