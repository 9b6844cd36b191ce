SPECIFICATION ServedSpec
CONSTANTS
  Tasks = {t1, t2, t3, t4, t5}
  Limit = 2
  Resident = resident
  Transients = {}
  PgStrict = TRUE
  Ttl = 1
  StaleAfter = 1
  Cooldown = 1
  MaxClock = 3
  MaxWater = 1
  MaxReady = 2
  MaxCrashes = 1
PROPERTIES WaitersServed ImplementsService DecisionsServed
