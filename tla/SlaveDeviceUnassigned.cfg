\* A sync message without an entry for this slave arrives in the last own slot.
SPECIFICATION FairSpec
CONSTANTS
  TimeWord = 1024
  MaxGpioPins = 4
  MaxDetections = 5
  Blank = Blank
  NoData = NoData
  FragmentCount <- FragmentsExceed
  Assignments <- FirstOfTwo
  Leads <- StartsNext
  Resets <- Never
  Offsets <- NoOffset
  SettleTime = 1
  SendResults <- Always
  MaxTick = 22
  MaxSyncs = 3
  MaxRequests = 0
  MaxLag = 0
  Polite = FALSE
PROPERTIES BurstEnds
