SPECIFICATION Spec
CONSTANTS
  Pins <- TwoPins
  MAX_GPIO_LINES = 32
  Channels <- ThreeChannels
  PinOf <- SharedPins
  DefaultOn <- ThreeChannels
  HasMaxOn = {}
  Handlers = {h1}
  Requests = {}
  Simulation = FALSE
  MaxDeliveries = 2
INVARIANTS ExitHotOnlyLate
CHECK_DEADLOCK FALSE
