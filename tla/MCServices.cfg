SPECIFICATION ServicesFairSpec
CONSTANTS
  Units = {"backend", "worker", "scheduler"}
  READY_TICKS = 12
  MaxKills = 1
INVARIANTS ReadyMeansConnected NeverGivenUp
PROPERTIES WorkResumes
CHECK_DEADLOCK FALSE
