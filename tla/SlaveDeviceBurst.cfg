\* One fragment more than the slave has slots.
SPECIFICATION FairSpec
CONSTANTS
  TimeWord = 1024
  MaxGpioPins = 4
  MaxDetections = 5
  Blank = Blank
  NoData = NoData
  FragmentCount <- FragmentsExceed
  Assignments <- FirstOfTwo
  Leads <- StartsNext
  Resets <- Never
  Offsets <- NoOffset
  SettleTime = 1
  SendResults <- Always
  MaxTick = 22
  MaxSyncs = 2
  MaxRequests = 1
  MaxLag = 0
  Polite = TRUE
PROPERTIES NoFrameOverwritten
