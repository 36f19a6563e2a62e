SPECIFICATION Spec
CONSTANTS
  Flags = {pnp, bdd}
  Calls = {c1}
  PlainReports <- AllAtOnce
  Delays = {}
  Providers = {"parent"}
  ReplyTimeout = 1
  DirectWait = 1
  MaxRetries = 2
  MaxFlight = 1
  Disturbances = {}
  DirectFresh = 2
  ProviderFresh = 2
  NoObs = NoObs
  Unknown = Unknown
  NoCall = NoCall
  OtherTx = OtherTx
PROPERTIES ConfirmedFlagKept
