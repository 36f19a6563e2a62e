SPECIFICATION Spec
CONSTANTS
  Valid <- TwoDeadlines
  Zero = Zero
  Absent = Absent
  Calls = {c1}
  Edits <- Deadline
  Reports <- Plans
  MaxQueue = 2
  Disturbances = {}
  Device = Device
  NoCall = NoCall
PROPERTIES ConfirmedNotRejected
