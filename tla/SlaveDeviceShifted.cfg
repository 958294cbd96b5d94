\* A second assignment moves the first slot of the slave and nothing else of it.
SPECIFICATION FairSpec
CONSTANTS
  TimeWord = 1024
  MaxGpioPins = 4
  MaxDetections = 5
  Blank = Blank
  NoData = NoData
  FragmentCount <- FragmentsFit
  Assignments <- SameButShifted
  Leads <- StartsNext
  Resets <- Never
  Offsets <- NoOffset
  SettleTime = 1
  SendResults <- Always
  MaxTick = 26
  MaxSyncs = 2
  MaxRequests = 0
  MaxLag = 0
  Polite = TRUE
INVARIANTS AssignmentInForce
