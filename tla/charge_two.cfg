SPECIFICATION Spec
CONSTANTS
  Chargers = {s1, s2}
  Calls = {c1, c2}
  Seqs = {1}
  Reports <- StopReports
  ReplyTimeout = 1
  StopWindow = 2
  StartWindow = 2
  ProgressWindow = 3
  Fresh = 3
  MayCancel = FALSE
  NoCall = NoCall
  OtherTx = OtherTx
ACTION_CONSTRAINT SteadyQuietPolls
SYMMETRY Symmetry
INVARIANTS MarkerExact
PROPERTIES ImplementsContract
