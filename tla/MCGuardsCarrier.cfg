SPECIFICATION GuardsSpec
CHECK_DEADLOCK FALSE
CONSTANTS
  Resident = resident
  Transients = {probe}
  PgStrict = TRUE
  Ttl = 1
  StaleAfter = 0
  Cooldown = 1
  MaxClock = 2
  MaxWater = 1
  MaxReady = 2
  MaxCrashes = 1
  Fires = {f1, f2, f3}
  Threshold = 2
  CooldownMs = 2
  MaxBreakerClock = 5
  MaxFailures = 4
  Requests = {r1, r2, r3}
  Weights = {1, 2}
  Ceiling = 2
  Window = 2
  RetryS = 1
  BanS = 2
  MaxServer = 2
  MaxLimiterClock = 3
  Endpoints = {book}
  EnvSymbols = {btc, eth}
  Controls = {{btc}}
  NoControl = NoControl
  PollEvery = 1
  BackoffCap = 2
  BanMargin = 0
  BanTimes = {2}
  MaxDeaths = 1
  Unset = Unset
INVARIANTS TrialHasCarrier
