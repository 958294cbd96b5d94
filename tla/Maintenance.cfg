SPECIFICATION FairSpec
CONSTANTS
  Host = host
  Slave = slave
  Node = {host, slave}
  Timeout = 3
  MaxRetry = 3
  Job <- Jobs
  MaxTransfers = 2
  MaxDelay = 1
  MaxFaults = 2
  MaxFlashFaults = 1
  Key = {"u", "p", " "}
  Blank = " "
  NUL = "nul"
  BufferSize = 4
  Upgrade <- UpgradeWord
  MaxKeys = 5
  Setups <- AnySetup
INVARIANTS TypeOK LineEndsInBuffer LineComparedIsLineEntered ReportedComplete FailsOnlyForCause UpgradeWasAsked
PROPERTIES ServiceSpec ReceiverComesToRest RequestIsCarriedOut OtaResetFindsFlag
