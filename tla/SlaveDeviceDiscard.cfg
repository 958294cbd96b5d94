\* The last own slot is the last of the frame, and the last fragment goes out in it.
SPECIFICATION FairSpec
CONSTANTS
  TimeWord = 1024
  MaxGpioPins = 4
  MaxDetections = 5
  Blank = Blank
  NoData = NoData
  FragmentCount <- FragmentsFit
  Assignments <- LastOfTwo
  Leads <- StartsNext
  Resets <- Never
  Offsets <- NoOffset
  SettleTime = 1
  SendResults <- Always
  MaxTick = 22
  MaxSyncs = 2
  MaxRequests = 0
  MaxLag = 0
  Polite = TRUE
PROPERTIES SavedDataIsSent
