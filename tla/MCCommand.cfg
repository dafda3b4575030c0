SPECIFICATION FairSpec
CONSTANTS
  Commands = {c1}
  Gateways = {"gwA", "gwB"}
  GatewayOf <- MCGatewayOf
  RequireAck = {c1}
  MaxEffects = 2
INVARIANTS ExecutedIsReal StatusMatchesResponse SettledIsComplete
PROPERTIES EventuallySettled
CHECK_DEADLOCK FALSE
