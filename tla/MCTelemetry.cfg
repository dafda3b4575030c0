SPECIFICATION FairSpec
CONSTANTS
  LOOKAHEAD_MONTHS = 2
  InstallMonth <- November
  MaxMonths = 1
  Slugs = {"s1"}
  Keys = {"k1"}
  Payloads <- TwoPayloads
  TTL = 2
  MaxSelect = 1
  MaxSkew = 1
  MaxIds = 2
  MaxRows = 2
INVARIANTS StaleOnlyBriefly LatestIsNewest OnePlacePerMonth
PROPERTIES ImplementsRegister WindowCompleteUnlessBlocked
CHECK_DEADLOCK FALSE
