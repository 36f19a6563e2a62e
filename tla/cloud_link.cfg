SPECIFICATION Spec
CONSTANTS
  Statuses = {200, 302, 401, 403, 404, 408, 429, 500}
  Sources = {s1}
  SignInInterval = 2
  RefreshInterval = 1
  AnswerTime = 1
  Workers = {w1, w2}
  Objects = {o1, o2}
  NoWorker = NoWorker
  NoObject = NoObject
  Keys = {k1, k2, k3}
  MaxPending = 2
  BaseDelay = 2
  MaxDelay = 300
  MaxAttempts = 10
  ResetInterval = 300
  Pace = 60
  CommandTypes = {c1, c2, c3}
  RegularTypes = {r1, r2}
  Reserve = 1
  RegularLimit = 1
  NamedLimit = 2
  SeenLimit = 2
  MaxFrames = 6
  Modes = {one, three}
  NoMode = NoMode
  Retries = 2
  MaxVersions = 1
  Presses = {p1, p2}
  FreshTime = 0
  ConfirmTime = 1
  StaleTime = 1
  CooldownTime = 2
  PollTime = 1
INVARIANTS CloudTypeOK NoFalseAlarm NobodyStranded OneSignIn RefreshExact NoOrphanThread NoJobStuck RetryWithin Reconciled
PROPERTIES ClientsReturn RefreshOnlyForReply ReplyServed CommandsKept RealTransition RecordTruthful FailuresPaced StreamRetried
CHECK_DEADLOCK FALSE
