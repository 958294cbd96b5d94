\* Sync messages at any time that announce their start, any interleaving, ticks
\* that find a task at work.
SPECIFICATION Spec
CONSTANTS
  TimeWord = 1024
  MaxGpioPins = 2
  MaxDetections = 5
  Blank = Blank
  NoData = NoData
  FragmentCount <- FragmentsExceed
  Assignments <- MixedShares
  Leads <- StartsSoon
  Resets <- Never
  Offsets <- NoOffset
  SettleTime = 1
  SendResults <- AnyResult
  MaxTick = 18
  MaxSyncs = 2
  MaxRequests = 0
  MaxLag = 1
  Polite = FALSE
INVARIANTS TypeOK 
