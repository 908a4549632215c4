CONSTANTS
  feed = feed
  w1 = w1
  w2 = w2
  h1 = h1
  e1 = e1
  e2 = e2
  owner = owner
  q1 = q1
  l1 = l1
  l2 = l2
  s1 = s1
  s2 = s2
  caller = caller
  address = address
  account = account
  None = None
  Workers = {w1, w2}
  Sessions = {s1, s2}
  MaxFaults = 1
  Sources = {feed}
  Feeds <- EmptyOrADay
  MaxRevision = 2
  Hooks = {h1}
  Events = {e1, e2}
  Managers = {owner}
  BatchSize = 2
  MaxAttempts = 2
  MaxActive = 1
  MaxRetries = 0
  MaxCrashes = 1
  Batch = 1
  MaxFailures = 2
  MaxNotes = 2
  MaxChanges = 3
  Searches = {q1}
  MaxSaved = 1
  Listings = {l1, l2}
  OwnListings = {l2}
  LastTick = 3
  Intervals <- MeetingHours
  SlotLength = 1
  MaxEdits = 2
  Callers = {caller}
  HostOf <- OneAddress
  AccountOf <- OneAccount
  Hosts = {address}
  Accounts = {account}
  HostLimit = 3
  AccountLimit = 2
  Window = 3
  MaxSilences = 2
SPECIFICATION JobsSpec
INVARIANTS
  CountsKept
PROPERTIES
  StaleWorkIsDropped
  DueIsTried
  
  LateCommitsAreSeen
  SlotsCatchUp
  RetriersAreServed
CHECK_DEADLOCK FALSE
