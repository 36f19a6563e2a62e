SPECIFICATION FairSpec
CONSTANTS
  Chargers = {s1}
  Calls = {c1}
  Seqs = {1}
  Reports <- PauseReports
  ReplyTimeout = 1
  StopWindow = 2
  StartWindow = 2
  ProgressWindow = 3
  Fresh = 3
  MayCancel = TRUE
  NoCall = NoCall
  OtherTx = OtherTx
INVARIANTS TypeOK LockExact MarkerExact WaiterExact AttemptExact DeadlineExact
PROPERTIES ConfirmedByDevice CallReturns
