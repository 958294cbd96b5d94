\* The master waits for the end of a collection and announces the next ahead.
SPECIFICATION FairSpec
CONSTANTS
  TimeWord = 1024
  MaxGpioPins = 4
  MaxDetections = 5
  Blank = Blank
  NoData = NoData
  FragmentCount <- FragmentsFit
  Assignments <- TwoFrames
  Leads <- StartsNext
  Resets = {TRUE, FALSE}
  Offsets <- NoOffset
  SettleTime = 1
  SendResults <- Always
  MaxTick = 22
  MaxSyncs = 2
  MaxRequests = 1
  MaxLag = 0
  Polite = TRUE
INVARIANTS TypeOK DrivesOnlyInOwnSlot CollectorMatchesScheduler NoStartFails
PROPERTIES NoFrameOverwritten SavedDataIsSent CollectionLeavesItsData EverySyncStartsACycle CollectionEnds
