SPECIFICATION FairSpec
CONSTANTS
  Flags = {pnp}
  Calls = {c1, c2}
  PlainReports <- NoReports
  Delays = {}
  Providers = {}
  ReplyTimeout = 1
  DirectWait = 1
  MaxRetries = 2
  MaxFlight = 1
  Disturbances = {"cancel", "shutdown", "other"}
  DirectFresh = 0
  ProviderFresh = 0
  NoObs = NoObs
  Unknown = Unknown
  NoCall = NoCall
  OtherTx = OtherTx
PROPERTIES ImplementsWriteContract WriteReturns
