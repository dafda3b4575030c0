SPECIFICATION FairSpec
CONSTANTS
  Pins <- OnePin
  MAX_GPIO_LINES = 32
  Channels <- OneChannel
  PinOf <- OneChannelPin
  DefaultOn = {}
  HasMaxOn <- OneChannel
  Handlers = {h1, h2}
  Requests <- CheckedRequests
  Simulation = FALSE
  MaxDeliveries = 2
INVARIANTS PinOnIsTimed ExitHotOnlyLate ExecutedResponseIsReal
PROPERTIES AutoOffUnlessRaced
CHECK_DEADLOCK FALSE
