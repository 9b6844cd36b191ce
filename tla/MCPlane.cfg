SPECIFICATION PlaneSpec
CHECK_DEADLOCK FALSE
CONSTANTS
  Names = {"tape", "delta"}
  Residents = {"delta"}
  Strangers = {"spread"}
  GroupRank <- MCRank
  HotBelow = 1
  StaleFrom = 1
  DenialsRead = 1
  Asked <- MCAsked
  MaxGovClock = 1
  MaxDenials = 2
  c1 = c1
  c2 = c2
  a1 = a1
  Invokes <- MCInvokes
  Analysis = {a1}
  LeaseS = 2
  MaxLeaseClock = 3
  Emitters = {k1, k2}
  MaxEvent = 3
  InsertRetries = 2
  Configured = {k1}
  Limit = 2
  MaxRebuilds = 1
  Prices = {1, 2}
  Qtys = {0, 1}
  Venues = {"spot", "futures"}
  Width = 2
  Retries = 2
  MaxClock = 4
  MaxId = 4
  MaxConnects = 2
INVARIANTS OutageRefusesNothing OneBatchPerPlane
           ViewNewest CountHonest NoSilentLoss  
PROPERTIES QuoteForward
