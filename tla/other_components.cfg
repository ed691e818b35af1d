SPECIFICATION SystemSpec
CONSTANTS
  Parts = {"accounts", "startup", "detail", "list", "dashboard", "app", "form", "catalogue",
           "cars", "home", "retries", "panel"}
  root = root  mod = mod  ann = ann  eve = eve  p1 = p1  p2 = p2  p3 = p3  p4 = p4
  k1 = k1  k2 = k2  u1 = u1  u2 = u2
  car1 = car1  car2 = car2  d1 = d1  d2 = d2  R1 = R1  R2 = R2  q1 = q1  q2 = q2
  Ids = {root, mod, ann, eve}  Phones = {p1, p2, p3, p4}  FirstUsers <- MCFirstUsers
  UserCalls = {c1, c2}  Asks <- MCAsks  MaxFaults = 1  None = None
  Workers = {w1, w2}  Served = {r1}  FirstData <- MCFirstData  AutoInit = TRUE  MaxDeaths = 1
  Patches = {k1, k2}  Submissions = {u1, u2}  Starts <- MCStarts  MaxLost = 1  MaxAlerts = 2  PanelAsks = {"confirmed"}
  Nothing = Nothing
  LastDay = 3  FormPrices = {3, 5}  FirstTables <- MCFirstTables  OthersAsk <- MCOthersAsk
  MaxPosts = 2  Unset = Unset
  CarIds = {car1, car2}  Regions = {R1, R2}  Districts = {d1, d2}  RegionOf <- MCRegionOf
  People = {ann, mod}  Admins = {mod}  CarAsks <- MCCarAsks  Requests = {q1, q2}
  Garages <- MCGarages  NoPlace = NoPlace
  Owner = ann  Alongside <- MCAlongside  Fetches = {1, 2}  MaxPicks = 3
  HomeRegions = {R1}  CarTypes = {suv}  Texts = {bmw}  AnyCar = AnyCar  MaxTaps = 3  MaxHomeLost = 1
  Attempts = {a1, a2, a3}  Results = {created, refused}  KeyTables = {TRUE, FALSE}
  MaxKeyFaults = 1  NoResult = NoResult
  Viewers = {"admin"}  PanelRows = {1, 2}  NamedRows = {1}  PerPage = 1  MaxRetries = 1
  MaxSent = 3
INVARIANTS
   AnswersTruthful ListeningMeansReady SamplesBounded
  TermIsGraceful  DetailAwaits ProposalIsFirstFree ChargedAsSeen
  LocationConsistent FormBreaksOnlyByLateLists HomeShowsFilters RetriesAgree PendingIsAwaited
PROPERTIES
  SuperAdminsKept PromotedBySuperAdmin EveryRequestEnds WorkersListen
  DetailNeverGoesBack DetailsCatchUp  OwnerMovesLegally DeletedStays FoundCarsStay
CHECK_DEADLOCK FALSE
