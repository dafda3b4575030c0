SPECIFICATION AuthSpec
CONSTANTS
  Kids = {k1, k2}
  Subs = {"a"}
  SimSub = "a"
  BURST = 2
  TTL = 1
  FETCH_TIMEOUT = 1
  INTERVAL = 2
  MaxAge = 3
INVARIANTS ServedKeyIsRecent RefusedForCause WatchdogDelayBounded
SYMMETRY Symmetry
