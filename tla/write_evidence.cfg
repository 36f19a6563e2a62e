SPECIFICATION Spec
CONSTANTS
  Flags = {pnp}
  Calls = {c1}
  PlainReports <- AllAtOnce
  Delays = {"plain"}
  Providers = {"parent"}
  ReplyTimeout = 1
  DirectWait = 1
  MaxRetries = 1
  MaxFlight = 1
  Disturbances = {"app"}
  DirectFresh = 1
  ProviderFresh = 1
  NoObs = NoObs
  Unknown = Unknown
  NoCall = NoCall
  OtherTx = OtherTx
INVARIANTS TypeOK
PROPERTIES DoneByNewest DoneOnDevice ReportedIsCurrent ProviderAnsweredAfter
