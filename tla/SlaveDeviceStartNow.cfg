\* The start time of a message has passed when it arrives; the clock moves.
SPECIFICATION FairSpec
CONSTANTS
  TimeWord = 1024
  MaxGpioPins = 4
  MaxDetections = 5
  Blank = Blank
  NoData = NoData
  FragmentCount <- FragmentsExceed
  Assignments <- FirstOfTwo
  Leads <- StartsNow
  Resets <- Never
  Offsets <- ClockMoves
  SettleTime = 1
  SendResults <- Always
  MaxTick = 20
  MaxSyncs = 2
  MaxRequests = 0
  MaxLag = 0
  Polite = TRUE
INVARIANTS DrivesOnlyInOwnSlot SavedDataCoherent
PROPERTIES SavedDataIsSent BurstEnds CollectionEnds
