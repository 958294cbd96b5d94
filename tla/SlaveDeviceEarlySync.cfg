\* The next sync message arrives before the collection it follows has ended.
SPECIFICATION FairSpec
CONSTANTS
  TimeWord = 1024
  MaxGpioPins = 4
  MaxDetections = 5
  Blank = Blank
  NoData = NoData
  FragmentCount <- FragmentsFit
  Assignments <- FirstOfTwo
  Leads <- StartsLater
  Resets <- Never
  Offsets <- NoOffset
  SettleTime = 1
  SendResults <- Always
  MaxTick = 22
  MaxSyncs = 2
  MaxRequests = 0
  MaxLag = 0
  Polite = FALSE
PROPERTIES EverySyncStartsACycle
