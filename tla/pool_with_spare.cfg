SPECIFICATION FairSpec
CONSTANTS
  w1 = w1
  w2 = w2
  post1 = post1
  post2 = post2
  role1 = role1
  get1 = get1
  car1 = car1
  adminKey = adminKey
  Workers <- TwoWorkers
  Handlers <- Mixed
  WorkerOf <- SecondPostApart
  Script <- Scripts
  Keys <- TwoKeys
  KeyOf <- CarOrAdminKey
  PoolSize = 3
INVARIANTS PoolAndLocksInv SpareConnection KeyHeldByOpenTransaction
PROPERTIES EveryRequestEnds
