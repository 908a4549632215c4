CONSTANTS
  ana = ana
  vera = vera
  villa = villa
  s1 = s1
  s2 = s2
  i1 = i1
  i2 = i2
  a1 = a1
  a2 = a2
  r1 = r1
  r2 = r2
  None = None
  Inquiries = {i1, i2}
  Venues = {villa}
  VenueOf <- OneVenue
  Agreements = {a1, a2}
  Requests = {r1, r2}
  Months = {1, 2}
  MaxEnds = 1
  Sessions = {s1, s2}
  LastMonth = 1
  Visitors = {ana}
  Owner = vera
  Properties = {flat}
  Conversations = {i1}
  Asked = {r1}
  TalkTimes = {1}
  ViewingTimes = {1, 2}
  Notice = 1
  MaxMessages = 4
  MaxRepeats = 2
  LastViewing = 1
  Guest = ana
  Host = vera
  Dates <- InTurn
  MaxMoves = 1
  LastDay = 6
  Keys = {i1, i2}
  Resets = {a1, a2}
  Links = {a1, a2}
  MaxKeys = 1
  Life = 1
  Cooldown = 1
  Wait = 1
  MaxVersion = 2
  MaxRequests = 2
  LastTick <- Ticks
  Owners = {boris, vera}
  Reporters = {ana}
  Admins = {admin}
  Reports = {i1, i2}
  MaxDecisions = 1
  Appealed = {i1}
  Appeals = {r1}
  MaxAppeals = 3
  Readers = {boris, vera}
  MaxReviews = 2
  Files = {k1, k2, k3}
  Images = {flat}
  MaxPhotos = 2
  MaxFaults = 1
  Staff = {ana}
  MaxLog = 3
  Reservations = {a1, a2}
  Resources = {i1, i2}
  Days = {1}
  MaxRuns = 3
  Texts = {t1, t2, t3}
  MaxTexts = 3
  Sources = {i1, i2}
  Feeds <- Meeting
  Fetchers = {s1}
  MaxRevision = 1
  MaxSlips = 0
  Fetched = {i1}
  Downloads <- EmptyOrADay
  MaxImports = 3
SPECIFICATION PeopleSpec
SYMMETRY Swaps
INVARIANTS
  NoDoubleLet
  RowsAgree
  SinglesKept
  
  NoMutualWait
  CalendarsKeepApart
PROPERTIES
  DecidedAsSeen
CHECK_DEADLOCK FALSE
