SPECIFICATION FairSpec
CONSTANTS
  Packet = {"m2s", "s2m"}
  MaxBuffer = 12
  NumValves = 2
  MailboxSize = 3
  Traffic <- AnyTraffic
INVARIANTS TypeOK HandledWholeInOrder ValvesFollowState
PROPERTIES NoReceptionOverwritten MessageIsHandled LastRequestIsAnswered
