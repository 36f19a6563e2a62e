SPECIFICATION FairSpec
CONSTANTS
  Valid <- TwoDeadlines
  Zero = Zero
  Absent = Absent
  Calls = {c1, c2}
  Edits <- Deadline
  Reports <- Plans
  MaxQueue = 2
  Disturbances = {"cancel", "crash", "unreadable"}
  Device = Device
  NoCall = NoCall
INVARIANTS TypeOK QueueExact StoreMatches
PROPERTIES EditPersistedUnlessCancelled ImplementsDraftContract EditReturns
