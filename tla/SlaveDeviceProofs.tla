-------------------------- MODULE SlaveDeviceProofs --------------------------
(***************************************************************************)
(* Facts about SlaveDevice for every interleaving of its tasks, every set  *)
(* of assignments and leads, and every bound: type correctness, and, if    *)
(* its master waits for the end of a collection before it sends the next   *)
(* sync message and announces every start further ahead than a task can    *)
(* lag, that its pins, its collector and its starts are right.             *)
(***************************************************************************)
EXTENDS SlaveDevice, SlotManagerProofs

Row == {Blank} \union [run : Nat, slot : U16]

Message == [to : AssignmentOf, startTime : Int, currentTime : Nat, reset : BOOLEAN]

\* The places a task can be at.
HandlerPlaces == {"idle", "sync", "forget", "adopt", "schedule", "collector", "stop",
                  "scheduler", "decide", "startCollector", "startScheduler", "running"}

CollectionPlaces == {"sleep", "check", "collector", "startCollector", "startScheduler",
                     "running", "failed", "observe", "stopped", "process", "slot",
                     "settle", "save", "send", "burst", "after"}

HandlerState == [pc : HandlerPlaces, msg : Message, changed : BOOLEAN, configure : BOOLEAN]

CollectionState == [pc : CollectionPlaces, wake : Nat, wasRunning : BOOLEAN,
                    running : BOOLEAN, row : Row, endsCycle : BOOLEAN]

Frame == [kind : {"data"}, data : Rows, fragment : Nat, total : Nat]

(* The backend's record, up to txBuffer, which a slave with no fragments   *)
(* to send could set to anything.                                          *)
BackendOK(b) ==
  /\ DOMAIN b = {"lastCollectionData", "hasDataToSend", "pendingFragments",
                 "currentFragmentIndex", "isFragmentSendingInProgress",
                 "txBuffer", "txSemaphore", "handed"}
  /\ b.lastCollectionData \in Rows \union {NoData}
  /\ b.pendingFragments \in Seq(Frame)
  /\ b.currentFragmentIndex \in 0 .. Len(b.pendingFragments)

-----------------------------------------------------------------------------
(* The strengthening of TypeOK, by the state it is about.                  *)

SchedulerInv ==
  /\ SMTypeOK
  /\ isRunning => isConfigured
  /\ isConfigured => config.count > 0 /\ config.total > 0 /\ config.interval > 0

CollectorInv ==
  /\ num \in 1..MaxGpioPins
  /\ detections \in Nat \ {0}
  /\ status \in {"IDLE", "RUNNING", "COMPLETED"}
  /\ currentCycle \in 0 .. detections
  /\ dataMatrix \in Rows
  /\ outputs \subseteq 0 .. (MaxGpioPins - 1)

\* ProcessSlot only waits for the pins when there is a row left to measure,
\* and no step of the handler takes the row away.
DataCollectionInv ==
  /\ dc \in CollectionState
  /\ run \in Nat
  /\ dc.pc = "settle" => currentCycle < detections

\* The synchronised clock is never negative, and at most an offset ahead.
ClockInv ==
  /\ tick \in 0..MaxTick
  /\ timeOffset \in Int
  /\ tick + timeOffset \in Nat
  /\ \E o \in Offsets \union {0} : timeOffset <= o
  /\ \E o \in Offsets \union {0} : hd.msg.currentTime <= tick + o

HandlerInv ==
  /\ hd \in HandlerState
  /\ accepted \in AssignmentOf
  /\ currentConfig.testCount \in U8
  /\ deviceState \in {"IDLE", "READY", "RUNNING", "DEV_ERR"}
  /\ hd.pc \notin {"idle", "sync"} => hd.msg.to \in Assignments

TasksInv ==
  /\ SchedulerInv
  /\ CollectorInv
  /\ DataCollectionInv
  /\ ClockInv
  /\ HandlerInv

DeviceInv == TasksInv /\ BackendOK(backend)

-----------------------------------------------------------------------------
(* Which operation of another object a step of the device performs.        *)

LEMMA SchedulerSteps ==
  ASSUME [Next]_vars
  PROVE  \/ UNCHANGED smVars
         \/ hd.pc = "scheduler" /\ Configure(SlotConfigOf(hd.msg.to))
         \/ Start(SyncTime)
         \/ Stop
         \/ ProcessFirst
         \/ ProcessCycleEnd(SyncTime)
         \/ ProcessSwitch(SyncTime)
<1>1. CASE HandlerReceive \/ Handler
  BY <1>1 DEF HandlerReceive, Handler, HandlerSync, HandlerForget, HandlerAdopt,
    HandlerSchedule, HandlerConfigureCollector, HandlerStop,
    HandlerConfigureScheduler, HandlerDecide, HandlerStartCollector,
    HandlerStartScheduler, HandlerRunning, StartScheduler
<1>2. CASE DataCollection
  BY <1>2 DEF DataCollection, DcWake, DcCheck, DcConfigureCollector,
    DcStartCollector, DcStartScheduler, DcStarted, DcObserve, DcStopDetect,
    DcProcessNothing, DcProcessCycleEnd, DcProcessSlot, DcSlotIdle, DcSlot,
    DcMeasure, DcSave, DcSend, DcBurst, DcAfter, StartScheduler
<1>3. CASE Tick \/ TimeUp \/ HandlerAnswers \/ Radio \/ UNCHANGED vars
  BY <1>3 DEF Tick, TimeUp, HandlerAnswers, Radio, RadioTake, RadioTransmit, vars
<1> QED
  BY <1>1, <1>2, <1>3 DEF Next

LEMMA CollectorSteps ==
  ASSUME [Next]_vars
  PROVE  \/ UNCHANGED colVars
         \/ hd.pc = "collector" /\ ConfigureCollector(hd.msg.to.testCount, hd.msg.to.total)
         \/ dc.pc = "collector" /\ ConfigureCollector(currentConfig.testCount, config.total)
         \/ StartCollection
         \/ SetAllPinsToInputMode
         \/ dc.pc = "slot" /\ DrivePins(slotInfo.activePin, IsActive)
         \/ dc.pc = "slot" /\ IgnoreSlot
         \/ dc.pc = "settle" /\ MeasureSlot(dc.row)
         \/ dc.pc = "save" /\ ClearData
<1>1. CASE HandlerReceive \/ Handler
  BY <1>1 DEF HandlerReceive, Handler, HandlerSync, HandlerForget, HandlerAdopt,
    HandlerSchedule, HandlerConfigureCollector, HandlerStop,
    HandlerConfigureScheduler, HandlerDecide, HandlerStartCollector,
    HandlerStartScheduler, HandlerRunning
<1>2. CASE DataCollection
  BY <1>2 DEF DataCollection, DcWake, DcCheck, DcConfigureCollector,
    DcStartCollector, DcStartScheduler, DcStarted, DcObserve, DcStopDetect,
    DcProcessNothing, DcProcessCycleEnd, DcProcessSlot, DcSlotIdle, DcSlot,
    DcMeasure, DcSave, DcSend, DcBurst, DcAfter
<1>3. CASE Tick \/ TimeUp \/ HandlerAnswers \/ Radio \/ UNCHANGED vars
  BY <1>3 DEF Tick, TimeUp, HandlerAnswers, Radio, RadioTake, RadioTransmit, vars
<1> QED
  BY <1>1, <1>2, <1>3 DEF Next

LEMMA BackendSteps ==
  ASSUME [Next]_vars
  PROVE  \/ UNCHANGED backend
         \/ backend' = ForgetAll(backend)
         \/ backend' = HandOver(backend, ResetResponse)
         \/ backend' = SendData(backend, Answer)
         \/ DcSave /\ IsCollectionComplete /\ backend' = SaveCollection(backend, dataMatrix)
         \/ \E ok \in SendResults :
              backend' = SendInSlot(backend, IsActive, slotInfo.activePin,
                                    deviceConfigured, ok)
         \/ \E ok \in SendResults :
              backend' = SendDataToBackend(backend, deviceConfigured, ok)
         \/ backend' = [backend EXCEPT !.txSemaphore = FALSE]
<1>1. CASE HandlerReceive \/ Handler
  BY <1>1 DEF HandlerReceive, Handler, HandlerSync, HandlerForget, HandlerAdopt,
    HandlerSchedule, HandlerConfigureCollector, HandlerStop,
    HandlerConfigureScheduler, HandlerDecide, HandlerStartCollector,
    HandlerStartScheduler, HandlerRunning, devVars
<1>2. CASE DataCollection
  BY <1>2 DEF DataCollection, DcWake, DcCheck, DcConfigureCollector,
    DcStartCollector, DcStartScheduler, DcStarted, DcObserve, DcStopDetect,
    DcProcessNothing, DcProcessCycleEnd, DcProcessSlot, DcSlotIdle, DcSlot,
    DcMeasure, DcSave, DcSend, DcBurst, DcAfter, SendPendingResponses, devVars
<1>3. CASE Tick \/ TimeUp \/ HandlerAnswers \/ Radio \/ UNCHANGED vars
  BY <1>3 DEF Tick, TimeUp, HandlerAnswers, Radio, RadioTake, RadioTransmit, vars, devVars
<1> QED
  BY <1>1, <1>2, <1>3 DEF Next

-----------------------------------------------------------------------------
(* The clock word, and the assignments a message can hold.                 *)

LEMMA ClockWord ==
  ASSUME ClockInv
  PROVE  SyncTime \in 0 .. (TimeWord - 1)
<1>1. PICK o \in Offsets \union {0} : timeOffset <= o
  BY DEF ClockInv
<1>2. o \in Nat /\ MaxTick + o < TimeWord
  BY SlaveDeviceAssumption, ClockWordAssumption
<1>3. tick + timeOffset <= MaxTick + o
  BY <1>1, <1>2, SlaveDeviceAssumption DEF ClockInv
<1> QED
  BY <1>2, <1>3, TimeWordAssumption, SlaveDeviceAssumption DEF ClockInv, SyncTime

LEMMA AssignmentFacts ==
  ASSUME NEW to \in Assignments
  PROVE  /\ to \in Assignment
         /\ to.testCount \in U8 /\ to.total \in U16
         /\ to.startSlot \in U16 /\ to.interval \in Nat
         /\ SlotConfigOf(to) \in SlotConfig
<1>1. to \in Assignment
  BY SlaveDeviceAssumption
<1> QED
  BY <1>1 DEF Assignment, SlotConfigOf, SlotConfig

(* The scheduler's part: Process computes an existing slot whatever the    *)
(* clock shows.                                                            *)
LEMMA SchedulerNext ==
  ASSUME TasksInv, [Next]_vars
  PROVE  SchedulerInv'
<1> USE DEF TasksInv
<1>1. CASE UNCHANGED smVars
  BY <1>1 DEF SchedulerInv, SMTypeOK, smVars
<1>2. CASE hd.pc = "scheduler" /\ Configure(SlotConfigOf(hd.msg.to))
  <2>1. hd.msg.to \in Assignments
    BY <1>2 DEF HandlerInv
  <2>2. SlotConfigOf(hd.msg.to) \in SlotConfig
    BY <2>1, AssignmentFacts
  <2> QED
    BY <1>2, <2>2 DEF Configure, CanConfigure, SchedulerInv, SMTypeOK
<1>3. CASE Start(SyncTime)
  <2>1. /\ config \in SlotConfig /\ config.total > 0 /\ 0 \in U16
        /\ slotInfo' = SlotInfoOf(config, 0)
    BY <1>3, Widths DEF Start, SchedulerInv, SMTypeOK
  <2>2. slotInfo' \in SlotInfo
    BY <2>1, SlotInfoOfFacts
  <2>3. startTime' \in 0 .. (TimeWord - 1)
    BY <1>3, ClockWord DEF Start
  <2> QED
    BY <1>3, <2>2, <2>3 DEF Start, SchedulerInv, SMTypeOK
<1>4. CASE Stop
  BY <1>4 DEF Stop, SchedulerInv, SMTypeOK
<1>5. CASE ProcessFirst
  BY <1>5 DEF ProcessFirst, SchedulerInv, SMTypeOK
<1>6. CASE ProcessCycleEnd(SyncTime)
  BY <1>6 DEF ProcessCycleEnd, SchedulerInv, SMTypeOK
<1>7. CASE ProcessSwitch(SyncTime)
  <2>1. /\ config \in SlotConfig /\ config.total > 0 /\ config.interval > 0
        /\ slotInfo' = SlotInfoOf(config, ExpectedSlot(SyncTime))
        /\ startTime \in 0 .. (TimeWord - 1)
    BY <1>7 DEF ProcessSwitch, SchedulerInv, SMTypeOK
  <2>2. /\ ExpectedSlot(SyncTime) \in U16
        /\ ExpectedSlot(SyncTime) < config.total
    BY <2>1, ClockWord, ExpectedSlotInFrameAt
  <2>3. slotInfo' \in SlotInfo
    BY <2>1, <2>2, SlotInfoOfFacts
  <2> QED
    BY <1>7, <2>3 DEF ProcessSwitch, SchedulerInv, SMTypeOK
<1> QED
  BY <1>1, <1>2, <1>3, <1>4, <1>5, <1>6, <1>7, SchedulerSteps

(* The collector's part: a row is measured only where one was left.        *)
LEMMA BlankRows ==
  ASSUME NEW n \in Nat
  PROVE  BlankMatrix(n) \in Rows
  BY DEF BlankMatrix, Rows

LEMMA ConfigureCollectorTyped ==
  ASSUME CollectorInv, NEW n \in U8, NEW total \in U16, ConfigureCollector(n, total)
  PROVE  CollectorInv' /\ currentCycle' = 0
<1>1. n \in Nat \ {0} /\ total \in Nat
  BY Widths DEF ConfigureCollector, CanConfigureCollector
<1>2. PinsOf(n) \in 1..MaxGpioPins
  BY <1>1, CollectorAssumption DEF PinsOf
<1>3. RowsOf(total) \in Nat \ {0}
  BY <1>1, CollectorAssumption DEF RowsOf
<1>4. BlankMatrix(RowsOf(total)) \in Rows
  BY <1>3, BlankRows
<1>5. outputs' \subseteq 0 .. (MaxGpioPins - 1)
  BY DEF ConfigureCollector, CollectorInv, AsInputs
<1>6. currentCycle' \in 0 .. detections' /\ currentCycle' = 0
  BY <1>3 DEF ConfigureCollector
<1> QED
  BY <1>2, <1>3, <1>4, <1>5, <1>6 DEF ConfigureCollector, CollectorInv

LEMMA CollectorNext ==
  ASSUME TasksInv, [Next]_vars
  PROVE  CollectorInv'
<1> USE DEF TasksInv
<1>1. CASE UNCHANGED colVars
  BY <1>1 DEF CollectorInv, colVars
<1>2. CASE hd.pc = "collector" /\ ConfigureCollector(hd.msg.to.testCount, hd.msg.to.total)
  <2>1. hd.msg.to \in Assignments
    BY <1>2 DEF HandlerInv
  <2> QED
    BY <1>2, <2>1, AssignmentFacts, ConfigureCollectorTyped
<1>3. CASE dc.pc = "collector" /\ ConfigureCollector(currentConfig.testCount, config.total)
  <2>1. currentConfig.testCount \in U8 /\ config.total \in U16
    BY DEF HandlerInv, SchedulerInv, SMTypeOK, SlotConfig
  <2> QED
    BY <1>3, <2>1, ConfigureCollectorTyped
<1>4. CASE StartCollection
  BY <1>4 DEF StartCollection, CollectorInv
<1>5. CASE SetAllPinsToInputMode
  BY <1>5 DEF SetAllPinsToInputMode, AsInputs, CollectorInv
<1>6. CASE dc.pc = "slot" /\ DrivePins(slotInfo.activePin, IsActive)
  <2>1. slotInfo.activePin \in Nat
    BY Widths DEF SchedulerInv, SMTypeOK, SlotInfo
  <2>2. outputs' \subseteq 0 .. (MaxGpioPins - 1)
    <3>1. slotInfo.activePin < num => slotInfo.activePin \in 0 .. (MaxGpioPins - 1)
      BY <2>1, CollectorAssumption DEF CollectorInv
    <3>2. outputs \subseteq 0 .. (MaxGpioPins - 1)
      BY DEF CollectorInv
    <3> QED
      BY <1>6, <3>1, <3>2 DEF DrivePins, AsInputs
  <2> QED
    BY <1>6, <2>2 DEF DrivePins, CollectorInv
<1>7. CASE dc.pc = "slot" /\ IgnoreSlot
  BY <1>7 DEF IgnoreSlot, CollectorInv
<1>8. CASE dc.pc = "settle" /\ MeasureSlot(dc.row)
  <2>1. currentCycle < detections /\ dc.row \in Row
    BY <1>8 DEF DataCollectionInv, CollectionState
  <2>2. dataMatrix' \in Rows
    BY <1>8, <2>1 DEF MeasureSlot, CollectorInv, Rows, Row
  <2>3. currentCycle' \in 0 .. detections
    BY <1>8, <2>1 DEF MeasureSlot, CollectorInv
  <2> QED
    BY <1>8, <2>2, <2>3 DEF MeasureSlot, CollectorInv
<1>9. CASE dc.pc = "save" /\ ClearData
  <2>1. dataMatrix' \in Rows
    BY <1>9, BlankRows DEF ClearData, CollectorInv, Rows
  <2> QED
    BY <1>9, <2>1 DEF ClearData, CollectorInv
<1> QED
  BY <1>1, <1>2, <1>3, <1>4, <1>5, <1>6, <1>7, <1>8, <1>9, CollectorSteps

-----------------------------------------------------------------------------
(* The backend's part: the index of the next fragment stays within the     *)
(* fragments, whatever slot they are sent in and whichever send fails.     *)

FragmentsCounted == \A data \in Rows : FragmentCount(data) \in Nat

LEMMA ForgetAllOK ==
  ASSUME NEW b, BackendOK(b)
  PROVE  BackendOK(ForgetAll(b)) /\ BackendOK(ForgetFragments(b))
  BY DEF BackendOK, ForgetAll, ForgetFragments

LEMMA SendDataOK ==
  ASSUME NEW b, BackendOK(b), NEW frame
  PROVE  /\ BackendOK(SendData(b, frame)) /\ BackendOK(HandOver(b, frame))
         /\ HandOver(b, frame).pendingFragments = b.pendingFragments
<1>1. BackendOK(SendData(b, frame))
  BY DEF BackendOK, SendData
<1>2. BackendOK(HandOver(b, frame))
  BY <1>1 DEF BackendOK, HandOver
<1>3. HandOver(b, frame).pendingFragments = b.pendingFragments
  BY DEF BackendOK, SendData, HandOver
<1> QED
  BY <1>1, <1>2, <1>3

LEMMA SendFragmentOK ==
  ASSUME NEW b, BackendOK(b), NEW ok
  PROVE  BackendOK(SendFragment(b, ok))
<1> DEFINE sent == HandOver(b, b.pendingFragments[b.currentFragmentIndex + 1])
           next == b.currentFragmentIndex + 1
<1>1. BackendOK(sent) /\ sent.pendingFragments = b.pendingFragments
  BY SendDataOK
<1>2. BackendOK(ForgetAll(sent))
  BY <1>1, ForgetAllOK
<1>3. ASSUME ~(next >= Len(b.pendingFragments))
      PROVE  BackendOK([sent EXCEPT !.currentFragmentIndex = next])
  <2> HIDE DEF sent
  <2>1. next \in 0 .. Len(b.pendingFragments)
    BY <1>3 DEF BackendOK
  <2> QED
    BY <1>1, <2>1 DEF BackendOK
<1> QED
  BY <1>2, <1>3 DEF SendFragment

LEMMA PackedFragments ==
  ASSUME FragmentsCounted, NEW data \in Rows
  PROVE  Packed(data) \in Seq(Frame)
<1>1. FragmentCount(data) \in Nat
  BY DEF FragmentsCounted
<1>2. \A i \in 1 .. FragmentCount(data) : DataFrame(data, i - 1) \in Frame
  BY <1>1 DEF DataFrame, Frame
<1> QED
  BY <1>1, <1>2 DEF Packed

LEMMA SendDataToBackendOK ==
  ASSUME FragmentsCounted, NEW b, BackendOK(b), NEW configured, NEW ok
  PROVE  BackendOK(SendDataToBackend(b, configured, ok))
<1> DEFINE packed == [b EXCEPT !.pendingFragments = Packed(b.lastCollectionData),
                               !.currentFragmentIndex = 0,
                               !.isFragmentSendingInProgress = TRUE]
<1>1. ASSUME b.lastCollectionData # NoData
      PROVE  BackendOK(packed)
  <2>1. b.lastCollectionData \in Rows
    BY <1>1 DEF BackendOK
  <2>2. Packed(b.lastCollectionData) \in Seq(Frame)
    BY <2>1, PackedFragments
  <2> QED
    BY <2>2 DEF BackendOK
<1> HIDE DEF packed
<1>2. b.lastCollectionData # NoData => BackendOK(SendFragment(packed, ok))
  BY <1>1, SendFragmentOK
<1> QED
  BY <1>2, SendFragmentOK, ForgetAllOK DEF SendDataToBackend, packed

LEMMA SendInSlotOK ==
  ASSUME FragmentsCounted, NEW b, BackendOK(b), NEW active, NEW pin \in Nat,
         NEW configured, NEW ok
  PROVE  BackendOK(SendInSlot(b, active, pin, configured, ok))
<1> DEFINE atPin == [b EXCEPT !.currentFragmentIndex = pin]
<1>1. pin < Len(b.pendingFragments) => BackendOK(atPin)
  BY DEF BackendOK
<1> HIDE DEF atPin
<1>2. pin < Len(b.pendingFragments) =>
        BackendOK(SendDataToBackend(atPin, configured, ok))
  BY <1>1, SendDataToBackendOK
<1> QED
  BY <1>2, SendDataToBackendOK, ForgetAllOK DEF SendInSlot, atPin

LEMMA BackendNext ==
  ASSUME FragmentsCounted, DeviceInv, [Next]_vars
  PROVE  BackendOK(backend)'
<1>1. BackendOK(backend)
  BY DEF DeviceInv
<1>2. slotInfo.activePin \in Nat
  BY Widths DEF DeviceInv, TasksInv, SchedulerInv, SMTypeOK, SlotInfo
<1>3. BackendOK(backend')
  <2>1. CASE UNCHANGED backend
    BY <1>1, <2>1
  <2>2. CASE backend' = ForgetAll(backend)
    BY <1>1, <2>2, ForgetAllOK
  <2>3. CASE \/ backend' = HandOver(backend, ResetResponse)
             \/ backend' = SendData(backend, Answer)
    BY <1>1, <2>3, SendDataOK
  <2>4. CASE /\ DcSave /\ IsCollectionComplete
             /\ backend' = SaveCollection(backend, dataMatrix)
    BY <1>1, <2>4 DEF SaveCollection, BackendOK, DeviceInv, TasksInv, CollectorInv
  <2>5. CASE \E ok \in SendResults :
               backend' = SendInSlot(backend, IsActive, slotInfo.activePin,
                                     deviceConfigured, ok)
    BY <1>1, <1>2, <2>5, SendInSlotOK
  <2>6. CASE \E ok \in SendResults :
               backend' = SendDataToBackend(backend, deviceConfigured, ok)
    BY <1>1, <2>6, SendDataToBackendOK
  <2>7. CASE backend' = [backend EXCEPT !.txSemaphore = FALSE]
    BY <1>1, <2>7 DEF BackendOK
  <2> QED
    BY <2>1, <2>2, <2>3, <2>4, <2>5, <2>6, <2>7, BackendSteps
<1> QED
  BY <1>3 DEF BackendOK

-----------------------------------------------------------------------------
(* The tasks' own parts.                                                   *)

(* Every step of the handler but the first only moves to another place.    *)
LEMMA HandlerMoves ==
  ASSUME Handler, ~HandlerSync, hd \in HandlerState
  PROVE  /\ hd' \in HandlerState /\ hd'.msg = hd.msg
         /\ hd.pc \notin {"idle", "sync"}
         /\ tick' = tick /\ timeOffset' = timeOffset
<1> USE DEF HandlerState, HandlerPlaces, clock, devVars
<1>1. CASE HandlerForget
  BY <1>1 DEF HandlerForget
<1>2. CASE HandlerAdopt
  BY <1>2 DEF HandlerAdopt
<1>3. CASE HandlerSchedule
  <2>1. hd' = [hd EXCEPT !.pc = "collector"] \/ hd' = [hd EXCEPT !.pc = "decide"]
    BY <1>3 DEF HandlerSchedule
  <2> QED
    BY <1>3, <2>1 DEF HandlerSchedule
<1>4. CASE HandlerConfigureCollector
  <2>1. hd' = [hd EXCEPT !.pc = "stop"] \/ hd' = [hd EXCEPT !.pc = "idle"]
    BY <1>4 DEF HandlerConfigureCollector, HandlerError
  <2> QED
    BY <1>4, <2>1 DEF HandlerConfigureCollector
<1>5. CASE HandlerStop
  BY <1>5 DEF HandlerStop
<1>6. CASE HandlerConfigureScheduler
  <2>1. hd' = [hd EXCEPT !.pc = "decide"] \/ hd' = [hd EXCEPT !.pc = "idle"]
    BY <1>6 DEF HandlerConfigureScheduler, HandlerError
  <2> QED
    BY <1>6, <2>1 DEF HandlerConfigureScheduler
<1>7. CASE HandlerDecide
  <2>1. hd' = [hd EXCEPT !.pc = "startCollector"] \/ hd' = [hd EXCEPT !.pc = "idle"]
    BY <1>7 DEF HandlerDecide
  <2> QED
    BY <1>7, <2>1 DEF HandlerDecide
<1>8. CASE HandlerStartCollector
  <2>1. hd' = [hd EXCEPT !.pc = "startScheduler"] \/ hd' = [hd EXCEPT !.pc = "idle"]
    BY <1>8 DEF HandlerStartCollector, HandlerError
  <2> QED
    BY <1>8, <2>1 DEF HandlerStartCollector
<1>9. CASE HandlerStartScheduler
  <2>1. hd' = [hd EXCEPT !.pc = "running"] \/ hd' = [hd EXCEPT !.pc = "idle"]
    BY <1>9 DEF HandlerStartScheduler, HandlerError
  <2> QED
    BY <1>9, <2>1 DEF HandlerStartScheduler
<1>10. CASE HandlerRunning
  BY <1>10 DEF HandlerRunning
<1> QED
  BY <1>1, <1>2, <1>3, <1>4, <1>5, <1>6, <1>7, <1>8, <1>9, <1>10 DEF Handler

LEMMA HandlerStepTyped ==
  ASSUME HandlerInv, Handler
  PROVE  HandlerInv' /\ hd'.msg = hd.msg
<1>1. hd \in HandlerState /\ hd.msg.to \in AssignmentOf
  BY DEF HandlerInv, HandlerState, Message
<1>2. /\ hd' \in HandlerState /\ hd'.msg = hd.msg
      /\ hd'.pc \notin {"idle", "sync"} => hd.msg.to \in Assignments
  <2>1. CASE HandlerSync
    <3>1. ConfigChanged(hd.msg.to) \in BOOLEAN
      BY DEF ConfigChanged
    <3>2. CASE hd' = [hd EXCEPT !.pc = "idle"]
      BY <1>1, <3>2 DEF HandlerState, HandlerPlaces
    <3>3. CASE ~(hd' = [hd EXCEPT !.pc = "idle"])
      <4> DEFINE changed == ConfigChanged(hd.msg.to)
                 configure == changed \/ ~deviceConfigured
      <4>1. /\ hd.msg.to # Unassigned
            /\ hd' = [hd EXCEPT !.pc = "forget", !.changed = changed,
                                !.configure = configure]
        BY <2>1, <3>3 DEF HandlerSync
      <4>2. hd' \in HandlerState /\ hd'.msg = hd.msg
        <5>1. changed \in BOOLEAN /\ configure \in BOOLEAN
          BY <3>1
        <5> HIDE DEF changed, configure
        <5> QED
          BY <1>1, <4>1, <5>1 DEF HandlerState, HandlerPlaces
      <4> QED
        BY <1>1, <4>1, <4>2 DEF AssignmentOf
    <3> QED
      BY <3>2, <3>3
  <2>2. CASE ~HandlerSync
    <3>1. hd.pc \notin {"idle", "sync"}
      BY <1>1, <2>2, HandlerMoves
    <3>2. hd.msg.to \in Assignments
      BY <3>1 DEF HandlerInv
    <3> QED
      BY <1>1, <2>2, <3>2, HandlerMoves
  <2> QED
    BY <2>1, <2>2
<1>3. accepted' \in AssignmentOf /\ currentConfig'.testCount \in U8
  <2>1. CASE HandlerAdopt
    <3>1. hd.msg.to \in Assignments
      BY <2>1 DEF HandlerAdopt, HandlerInv
    <3> QED
      BY <2>1, <3>1, AssignmentFacts DEF HandlerAdopt, AssignmentOf
  <2>2. CASE ~HandlerAdopt
    <3>1. accepted' = accepted /\ currentConfig' = currentConfig
      BY <2>2 DEF Handler, HandlerSync, HandlerForget, HandlerSchedule,
        HandlerConfigureCollector, HandlerStop, HandlerConfigureScheduler,
        HandlerDecide, HandlerStartCollector, HandlerStartScheduler, HandlerRunning,
        devVars, history
    <3> QED
      BY <3>1 DEF HandlerInv
  <2> QED
    BY <2>1, <2>2
<1>4. deviceState' \in {deviceState, "READY", "RUNNING", "DEV_ERR"}
  BY DEF Handler, HandlerSync, HandlerForget, HandlerAdopt, HandlerSchedule,
    HandlerConfigureCollector, HandlerStop, HandlerConfigureScheduler,
    HandlerDecide, HandlerStartCollector, HandlerStartScheduler, HandlerRunning,
    HandlerError, devVars
<1> QED
  BY <1>2, <1>3, <1>4 DEF HandlerInv

LEMMA ReceiveTyped ==
  ASSUME TasksInv, HandlerReceive
  PROVE  HandlerInv' /\ ClockInv'
<1>1. PICK to \in Assignments \union {Unassigned}, lead \in Leads,
            offset \in Offsets, reset \in Resets :
        hd' = [hd EXCEPT !.pc = "sync",
                         !.msg = [to |-> to, startTime |-> tick + offset + lead,
                                  currentTime |-> tick + offset, reset |-> reset]]
  BY DEF HandlerReceive
<1>2. UNCHANGED <<tick, devVars, accepted>>
  BY DEF HandlerReceive, clock
<1>3. /\ tick \in Nat /\ offset \in Nat /\ lead \in Int /\ reset \in BOOLEAN
  BY SlaveDeviceAssumption DEF TasksInv, ClockInv
<1>4. [to |-> to, startTime |-> tick + offset + lead,
       currentTime |-> tick + offset, reset |-> reset] \in Message
  BY <1>3 DEF Message, AssignmentOf
<1>5. hd \in HandlerState
  BY DEF TasksInv, HandlerInv
<1>6. hd' \in HandlerState /\ hd'.pc = "sync" /\ hd'.msg.currentTime = tick + offset
  <2> DEFINE m == [to |-> to, startTime |-> tick + offset + lead,
                   currentTime |-> tick + offset, reset |-> reset]
  <2>1. m.currentTime = tick + offset
    OBVIOUS
  <2>2. m \in Message /\ hd' = [hd EXCEPT !.pc = "sync", !.msg = m]
    BY <1>1, <1>4
  <2> HIDE DEF m
  <2>3. hd' \in HandlerState /\ hd'.pc = "sync" /\ hd'.msg = m
    BY <1>5, <2>2 DEF HandlerState, HandlerPlaces
  <2> QED
    BY <2>1, <2>3
<1>7. HandlerInv'
  BY <1>2, <1>6 DEF TasksInv, HandlerInv, devVars
<1>8. ClockInv'
  <2>1. tick' = tick /\ timeOffset' = timeOffset
    BY <1>2 DEF devVars
  <2>2. hd'.msg.currentTime <= tick + offset
    BY <1>3, <1>6
  <2>3. offset \in Offsets \union {0}
    OBVIOUS
  <2>4. \E o \in Offsets \union {0} : hd'.msg.currentTime <= tick' + o
    BY <2>1, <2>2, <2>3
  <2> QED
    BY <2>1, <2>4 DEF TasksInv, ClockInv
<1> QED
  BY <1>7, <1>8

LEMMA DataCollectionStep ==
  ASSUME DataCollection, hd \in HandlerState
  PROVE  /\ hd' = hd /\ tick' = tick /\ timeOffset' = timeOffset
         /\ accepted' = accepted /\ currentConfig' = currentConfig
         /\ deviceState' \in {deviceState, "IDLE", "RUNNING", "DEV_ERR"}
  BY DEF DataCollection, DcWake, DcCheck, DcConfigureCollector, DcStartCollector,
    DcStartScheduler, DcStarted, DcObserve, DcStopDetect, DcProcessNothing,
    DcProcessCycleEnd, DcProcessSlot, DcSlotIdle, DcSlot, DcMeasure, DcSave, DcSend,
    DcBurst, DcAfter, devVars, clock, history

LEMMA HandlerNext ==
  ASSUME TasksInv, [Next]_vars
  PROVE  HandlerInv'
<1>1. CASE HandlerReceive
  BY <1>1, ReceiveTyped
<1>2. CASE Handler
  BY <1>2, HandlerStepTyped DEF TasksInv
<1>3. CASE DataCollection
  BY <1>3, DataCollectionStep DEF TasksInv, HandlerInv
<1>4. CASE Tick \/ TimeUp \/ HandlerAnswers \/ Radio \/ UNCHANGED vars
  BY <1>4 DEF Tick, TimeUp, HandlerAnswers, Radio, RadioTake, RadioTransmit, vars,
              devVars, history, TasksInv, HandlerInv
<1> QED
  BY <1>1, <1>2, <1>3, <1>4 DEF Next

LEMMA ClockNext ==
  ASSUME TasksInv, [Next]_vars
  PROVE  ClockInv'
<1>1. CASE HandlerReceive
  BY <1>1, ReceiveTyped
<1>2. CASE Handler
  <2>1. tick' = tick /\ hd'.msg = hd.msg
    <3>1. HandlerInv /\ hd \in HandlerState
      BY DEF TasksInv, HandlerInv
    <3>2. tick' = tick
      BY <1>2, <3>1, HandlerMoves DEF HandlerSync, clock
    <3> QED
      BY <1>2, <3>1, <3>2, HandlerStepTyped
  <2>2. CASE HandlerSync
    <3>1. timeOffset' = hd.msg.currentTime - tick
      BY <2>2 DEF HandlerSync
    <3>2. hd.msg.currentTime \in Nat /\ tick \in Nat
      BY SlaveDeviceAssumption DEF TasksInv, HandlerInv, HandlerState, Message, ClockInv
    <3>3. PICK o \in Offsets \union {0} : hd.msg.currentTime <= tick + o
      BY DEF TasksInv, ClockInv
    <3>4. o \in Nat
      BY SlaveDeviceAssumption
    <3>5. timeOffset' <= o /\ timeOffset' \in Int /\ tick + timeOffset' \in Nat
      BY <3>1, <3>2, <3>3, <3>4
    <3> QED
      BY <2>1, <3>5 DEF TasksInv, ClockInv
  <2>3. CASE ~HandlerSync
    <3>1. timeOffset' = timeOffset
      BY <1>2, <2>3 DEF Handler, HandlerForget, HandlerAdopt, HandlerSchedule,
        HandlerConfigureCollector, HandlerStop, HandlerConfigureScheduler,
        HandlerDecide, HandlerStartCollector, HandlerStartScheduler, HandlerRunning,
        devVars
    <3> QED
      BY <2>1, <3>1 DEF TasksInv, ClockInv
  <2> QED
    BY <2>2, <2>3
<1>3. CASE DataCollection
  BY <1>3, DataCollectionStep DEF TasksInv, HandlerInv, ClockInv
<1>4. CASE Tick
  <2>1. /\ tick' = tick + 1 /\ tick < MaxTick
        /\ UNCHANGED <<timeOffset, hd>>
    BY <1>4 DEF Tick, devVars
  <2>2. /\ tick \in Nat /\ tick' \in 0..MaxTick /\ timeOffset \in Int
        /\ tick' + timeOffset \in Nat
        /\ hd.msg.currentTime \in Nat
    BY <2>1, SlaveDeviceAssumption
       DEF TasksInv, ClockInv, HandlerInv, HandlerState, Message
  <2>3. ASSUME NEW o \in Offsets \union {0}, hd.msg.currentTime <= tick + o
        PROVE  hd.msg.currentTime <= tick' + o
    <3>1. o \in Nat
      BY SlaveDeviceAssumption
    <3> QED
      BY <2>1, <2>2, <2>3, <3>1
  <2> QED
    BY <2>1, <2>2, <2>3 DEF TasksInv, ClockInv
<1>5. CASE TimeUp \/ HandlerAnswers \/ Radio \/ UNCHANGED vars
  BY <1>5 DEF TimeUp, HandlerAnswers, Radio, RadioTake, RadioTransmit, vars, clock, devVars,
              TasksInv, ClockInv
<1> QED
  BY <1>1, <1>2, <1>3, <1>4, <1>5 DEF Next

LEMMA CollectionStepTyped ==
  ASSUME TasksInv, DataCollection
  PROVE  dc' \in CollectionState
<1>1. /\ dc \in CollectionState /\ tick \in Nat /\ run \in Nat
      /\ SettleTime \in Nat /\ slotInfo.currentSlot \in U16 /\ isRunning \in BOOLEAN
  BY SlaveDeviceAssumption
     DEF TasksInv, DataCollectionInv, ClockInv, SchedulerInv, SMTypeOK, SlotInfo
<1>2. ASSUME dc' = [dc EXCEPT !.pc = "sleep", !.wake = tick + 1]
      PROVE  dc' \in CollectionState
  <2> DEFINE wake == tick + 1
  <2>1. wake \in Nat /\ dc' = [dc EXCEPT !.pc = "sleep", !.wake = wake]
    BY <1>1, <1>2
  <2> HIDE DEF wake
  <2> QED
    BY <1>1, <2>1 DEF CollectionState, CollectionPlaces
<1> USE DEF CollectionState, CollectionPlaces, DcGoto, DcSleepFor
<1>3. CASE DcWake \/ DcStarted
  BY <1>1, <1>3 DEF DcWake, DcStarted
<1>4. CASE DcCheck
  <2>1. dc' = [dc EXCEPT !.pc = "collector"] \/ dc' = [dc EXCEPT !.pc = "observe"]
    BY <1>4 DEF DcCheck
  <2> QED
    BY <1>1, <2>1
<1>5. CASE DcConfigureCollector \/ DcStartCollector \/ DcStartScheduler
  <2>1. \/ dc' = [dc EXCEPT !.pc = "startCollector"]
        \/ dc' = [dc EXCEPT !.pc = "startScheduler"]
        \/ dc' = [dc EXCEPT !.pc = "running"]
        \/ dc' = [dc EXCEPT !.pc = "failed"]
    BY <1>5 DEF DcConfigureCollector, DcStartCollector, DcStartScheduler
  <2> QED
    BY <1>1, <2>1
<1>6. CASE DcObserve \/ DcStopDetect
  BY <1>1, <1>6 DEF DcObserve, DcStopDetect
<1>7. CASE DcProcessNothing \/ DcProcessCycleEnd \/ DcAfter
  BY <1>2, <1>7 DEF DcProcessNothing, DcProcessCycleEnd, DcAfter
<1>8. CASE DcProcessSlot
  <2> DEFINE ends == SwitchEndsCycle(SyncTime)
  <2>1. ends \in BOOLEAN
    BY DEF SwitchEndsCycle
  <2>2. \/ dc' = [dc EXCEPT !.pc = "slot", !.endsCycle = FALSE]
        \/ dc' = [dc EXCEPT !.pc = "slot", !.endsCycle = ends]
    BY <1>8 DEF DcProcessSlot
  <2> HIDE DEF ends
  <2> QED
    BY <1>1, <2>1, <2>2
<1>9. CASE DcSlot
  <2> DEFINE row == [run |-> run, slot |-> slotInfo.currentSlot]
             wake == tick + SettleTime
  <2>1. row \in Row /\ wake \in Nat
    BY <1>1 DEF Row
  <2>2. \/ dc' = [dc EXCEPT !.pc = "settle", !.wake = wake, !.row = row]
        \/ dc' = [dc EXCEPT !.pc = "save"]
    BY <1>9 DEF DcSlot
  <2> HIDE DEF row, wake
  <2> QED
    BY <1>1, <2>1, <2>2
<1>10. CASE DcSlotIdle \/ DcMeasure \/ DcSave
  BY <1>1, <1>10 DEF DcSlotIdle, DcMeasure, DcSave
<1>11. CASE DcSend
  <2>1. dc' = [dc EXCEPT !.pc = "burst"] \/ dc' = [dc EXCEPT !.pc = "after"]
    BY <1>11 DEF DcSend
  <2> QED
    BY <1>1, <2>1
<1>12. CASE DcBurst
  BY <1>1, <1>12 DEF DcBurst
<1> QED
  BY <1>3, <1>4, <1>5, <1>6, <1>7, <1>8, <1>9, <1>10, <1>11, <1>12 DEF DataCollection

(* While ProcessSlot waits, the only step of its own task is the           *)
(* measurement, and no step of the other uses up a row.                    *)
LEMMA RowIsLeft ==
  ASSUME TasksInv, [Next]_vars, dc'.pc = "settle"
  PROVE  currentCycle' < detections'
<1>1. CASE DataCollection
  <2>1. dc \in CollectionState
    BY DEF TasksInv, DataCollectionInv
  <2>2. DcSlot
    BY <1>1, <2>1 DEF DataCollection, DcWake, DcCheck, DcConfigureCollector,
      DcStartCollector, DcStartScheduler, DcStarted, DcObserve, DcStopDetect,
      DcProcessNothing, DcProcessCycleEnd, DcProcessSlot, DcSlotIdle, DcMeasure, DcSave,
      DcSend, DcBurst, DcAfter, DcGoto, DcSleepFor, CollectionState
  <2>3. CanMeasure /\ UNCHANGED <<currentCycle, detections>>
    BY <2>1, <2>2 DEF DcSlot, DrivePins, DcGoto, CollectionState
  <2> QED
    BY <2>3 DEF CanMeasure
<1>2. CASE ~DataCollection
  <2>1. dc' = dc
    BY <1>2 DEF Next, Tick, TimeUp, HandlerAnswers, Radio, RadioTake, RadioTransmit, vars,
      HandlerReceive, Handler, HandlerSync, HandlerForget, HandlerAdopt,
      HandlerSchedule, HandlerConfigureCollector, HandlerStop,
      HandlerConfigureScheduler, HandlerDecide, HandlerStartCollector,
      HandlerStartScheduler, HandlerRunning
  <2>2. currentCycle < detections /\ dc.pc = "settle"
    BY <2>1 DEF TasksInv, DataCollectionInv
  <2>3. \/ UNCHANGED <<currentCycle, detections>>
        \/ currentCycle' = 0
    BY <1>2, <2>1, <2>2
       DEF Next, Tick, TimeUp, HandlerAnswers, Radio, RadioTake, RadioTransmit, vars,
      HandlerReceive, Handler, HandlerSync, HandlerForget, HandlerAdopt,
      HandlerSchedule, HandlerConfigureCollector, HandlerStop,
      HandlerConfigureScheduler, HandlerDecide, HandlerStartCollector,
      HandlerStartScheduler, HandlerRunning, colVars, ConfigureCollector, StartCollection
  <2>4. detections' \in Nat \ {0}
    BY CollectorNext DEF CollectorInv
  <2> QED
    BY <2>2, <2>3, <2>4
<1> QED
  BY <1>1, <1>2

LEMMA DataCollectionNext ==
  ASSUME TasksInv, [Next]_vars
  PROVE  DataCollectionInv'
<1>1. dc' \in CollectionState
  <2>1. CASE DataCollection
    BY <2>1, CollectionStepTyped
  <2>2. CASE ~DataCollection
    BY <2>2 DEF Next, Tick, TimeUp, HandlerAnswers, Radio, RadioTake, RadioTransmit, vars,
      HandlerReceive, Handler, HandlerSync, HandlerForget, HandlerAdopt,
      HandlerSchedule, HandlerConfigureCollector, HandlerStop,
      HandlerConfigureScheduler, HandlerDecide, HandlerStartCollector,
      HandlerStartScheduler, HandlerRunning, TasksInv, DataCollectionInv
  <2> QED
    BY <2>1, <2>2
<1>2. run' \in Nat
  <2>1. run' = run \/ run' = run + 1
    BY DEF Next, Tick, TimeUp, HandlerAnswers, Radio, RadioTake, RadioTransmit, vars, history,
      HandlerReceive, Handler, HandlerSync, HandlerForget, HandlerAdopt,
      HandlerSchedule, HandlerConfigureCollector, HandlerStop,
      HandlerConfigureScheduler, HandlerDecide, HandlerStartCollector,
      HandlerStartScheduler, HandlerRunning, StartScheduler,
      DataCollection, DcWake, DcCheck, DcConfigureCollector,
      DcStartCollector, DcStartScheduler, DcStarted, DcObserve, DcStopDetect,
      DcProcessNothing, DcProcessCycleEnd, DcProcessSlot, DcSlotIdle, DcSlot,
      DcMeasure, DcSave, DcSend, DcBurst, DcAfter
  <2> QED
    BY <2>1 DEF TasksInv, DataCollectionInv
<1> QED
  BY <1>1, <1>2, RowIsLeft DEF DataCollectionInv

-----------------------------------------------------------------------------
LEMMA TasksInvInit == Init => TasksInv
<1> SUFFICES ASSUME Init PROVE TasksInv
  OBVIOUS
<1>1. SchedulerInv
  <2>1. config \in SlotConfig /\ slotInfo \in SlotInfo
    BY Widths DEF Init, SMInit, SlotConfig, Unconfigured, SlotInfo
  <2>2. startTime \in 0 .. (TimeWord - 1)
    BY TimeWordAssumption DEF Init, SMInit
  <2> QED
    BY <2>1, <2>2 DEF Init, SMInit, SchedulerInv, SMTypeOK
<1>2. CollectorInv
  <2>1. dataMatrix \in Rows
    BY DEF Init, CollectorInit, Rows
  <2>2. num \in 1..MaxGpioPins
    BY CollectorAssumption DEF Init, CollectorInit
  <2> QED
    BY <2>1, <2>2 DEF Init, CollectorInit, CollectorInv
<1>3. DataCollectionInv
  BY DEF Init, DataCollectionInv, CollectionState, CollectionPlaces, Row
<1>4. HandlerInv /\ hd.msg.currentTime = 0
  <2>1. NoMessage \in Message
    BY DEF NoMessage, Message, AssignmentOf
  <2>2. 2 \in U8
    BY SMTT(30) DEF U8
  <2>3. hd \in HandlerState
    BY <2>1 DEF Init, HandlerState, HandlerPlaces
  <2> QED
    BY <2>2, <2>3 DEF Init, HandlerInv, AssignmentOf, DefaultConfig, NoMessage
<1>5. ClockInv
  BY <1>4, SlaveDeviceAssumption DEF Init, ClockInv
<1> QED
  BY <1>1, <1>2, <1>3, <1>4, <1>5 DEF TasksInv

LEMMA TasksInvNext ==
  ASSUME TasksInv, [Next]_vars
  PROVE  TasksInv'
  BY SchedulerNext, CollectorNext, DataCollectionNext, ClockNext, HandlerNext
     DEF TasksInv

(* Every reachable state of the device is well typed, for every order in   *)
(* which its tasks move, every message and every failing send: no row is   *)
(* measured beyond the last, no pin driven that the device has not, no     *)
(* fragment sent that was not packed, and the clock word never wraps.      *)
THEOREM DeviceTypeCorrect ==
  ASSUME FragmentsCounted
  PROVE  Spec => []TypeOK
<1>1. DeviceInv => TypeOK
  BY DEF DeviceInv, TasksInv, TypeOK, SchedulerInv, CollectorInv, DataCollectionInv,
         ClockInv, HandlerInv, HandlerState, Message, BackendOK
<1>2. Init => DeviceInv
  BY TasksInvInit DEF DeviceInv, Init, BackendInit, BackendOK
<1>3. DeviceInv /\ [Next]_vars => DeviceInv'
  BY TasksInvNext, BackendNext DEF DeviceInv
<1> QED
  BY <1>1, <1>2, <1>3, PTL DEF Spec

-----------------------------------------------------------------------------
(* The master's side of it.  An assignment that is not for a known mode is *)
(* ignored by the slave and can be anything.                               *)
PoliteMaster ==
  /\ Polite
  /\ \A lead \in Leads : lead > MaxLag
  /\ \A a \in Assignments : a.mode \in KnownModes =>
       /\ a.testCount > 0 /\ a.total > 0 /\ a.interval > 0
       /\ a.startSlot + a.testCount <= a.total

-----------------------------------------------------------------------------
(* The inductive invariant.                                                *)

\* Where DataCollectionTask is in a round without a start and without a slot.
Quiet == {"sleep", "check", "observe", "stopped", "process"}

Starting == {"collector", "startCollector", "startScheduler", "running"}

InSlot == {"slot", "settle", "save", "send", "burst", "after"}

\* The handler works only while nothing runs, and its schedule is not due
\* before it is done.
HandlerAlone ==
  /\ hd.pc \notin {"startCollector", "startScheduler", "running"}
  /\ lag \in 0..MaxLag
  /\ hd.pc # "idle" =>
       /\ ~isCollecting /\ ~isRunning /\ dc.pc \in Quiet
       /\ \E lead \in Leads : hd.msg.startTime = hd.msg.currentTime + lead
  /\ hd.pc \notin {"idle", "sync"} =>
       /\ hd.msg.to.mode \in KnownModes
       /\ SyncTime <= hd.msg.currentTime + lag
  /\ hd.pc \in {"sync", "forget", "adopt", "schedule"} => ~isScheduledToStart
  /\ hd.pc \in {"collector", "stop", "scheduler", "decide"} =>
       scheduledStartTime = hd.msg.startTime

\* The configuration of the scheduler and the one of the device.
Agreed == isConfigured /\ config.count = currentConfig.testCount

ConfigurationsAgree ==
  /\ isConfigured => \E a \in Assignments :
       a.mode \in KnownModes /\ config = SlotConfigOf(a)
  /\ hd.pc \in {"idle", "sync", "forget", "adopt", "decide"} /\ deviceConfigured
       => Agreed
  /\ hd.pc \in {"forget", "adopt"} /\ ~hd.configure =>
       deviceConfigured /\ hd.msg.to.testCount = currentConfig.testCount
  /\ hd.pc = "schedule" => deviceConfigured
  /\ hd.pc = "schedule" /\ ~hd.configure => Agreed
  /\ hd.pc \in {"schedule", "collector", "stop", "scheduler"} =>
       hd.msg.to.testCount = currentConfig.testCount
  /\ isScheduledToStart => deviceConfigured

\* The collector is made ready for the frame before the scheduler starts it.
CollectorReady == detections = config.total /\ num = PinsOf(config.count)

StartsRight ==
  /\ dc.pc # "failed" /\ deviceState # "DEV_ERR"
  /\ dc.pc \in Starting => isScheduledToStart /\ ~isCollecting
  /\ dc.pc \in {"collector", "startCollector", "startScheduler"} => ~isRunning
  /\ dc.pc = "startCollector" => CollectorReady /\ status = "IDLE"
  /\ dc.pc = "startScheduler" =>
       CollectorReady /\ status = "RUNNING" /\ currentCycle = 0
  /\ dc.pc = "running" => isRunning
  /\ dc.pc = "stopped" => dc.running = isRunning

\* The clock has reached the current slot.
SlotReached == startTime + slotInfo.currentSlot * config.interval <= SyncTime

\* No more rows are measured than slots were entered.
RunsRight ==
  /\ dc.pc \in InSlot => isRunning /\ isCollecting /\ ~isFirstProcess
  /\ isRunning =>
       /\ isCollecting \/ dc.pc = "running"
       /\ CollectorReady
       /\ ~cycleCompleted
       /\ startTime <= SyncTime
       /\ slotInfo.currentSlot < config.total
       /\ SlotReached
       /\ isFirstProcess =>
            status = "RUNNING" /\ currentCycle = 0 /\ slotInfo.currentSlot = 0
       /\ dc.pc \in {"slot", "settle"} =>
            status = "RUNNING" /\ currentCycle <= slotInfo.currentSlot
       /\ \/ status = "RUNNING" /\ currentCycle <= slotInfo.currentSlot + 1
          \/ status = "COMPLETED" /\ slotInfo.currentSlot = config.total - 1

PinsRight ==
  /\ outputs \subseteq 0 .. (num - 1)
  /\ outputs # {} => isRunning /\ ~isFirstProcess
  /\ outputs # {} /\ dc.pc # "slot" =>
       slotInfo.slotType = "ACTIVE" /\ outputs = {slotInfo.activePin}

PoliteInv ==
  /\ TasksInv
  /\ HandlerAlone
  /\ ConfigurationsAgree
  /\ StartsRight
  /\ RunsRight
  /\ PinsRight

-----------------------------------------------------------------------------
(* Facts every step uses.                                                  *)

LEMMA PoliteTypes ==
  ASSUME PoliteInv
  PROVE  /\ hd \in HandlerState /\ dc \in CollectionState
         /\ hd.pc \in HandlerPlaces /\ dc.pc \in CollectionPlaces
         /\ isRunning \in BOOLEAN /\ SyncTime \in Nat
         /\ tick \in Nat /\ timeOffset \in Int
         /\ lag \in Nat /\ hd.msg.currentTime \in Nat /\ hd.msg.startTime \in Int
         /\ currentCycle \in Nat /\ detections \in Nat \ {0} /\ num \in Nat \ {0}
         /\ slotInfo.currentSlot \in Nat /\ startTime \in Nat
         /\ config \in SlotConfig /\ config.total \in Nat
<1>1. /\ hd \in HandlerState /\ dc \in CollectionState
      /\ tick \in 0..MaxTick /\ timeOffset \in Int /\ tick + timeOffset \in Nat
      /\ lag \in 0..MaxLag
      /\ currentCycle \in 0 .. detections /\ detections \in Nat \ {0}
      /\ num \in 1..MaxGpioPins
      /\ slotInfo \in SlotInfo /\ startTime \in 0 .. (TimeWord - 1)
      /\ config \in SlotConfig /\ isRunning \in BOOLEAN
  BY DEF PoliteInv, TasksInv, HandlerInv, DataCollectionInv, ClockInv, HandlerAlone,
         CollectorInv, SchedulerInv, SMTypeOK
<1>2. hd.pc \in HandlerPlaces /\ hd.msg \in Message /\ dc.pc \in CollectionPlaces
  BY <1>1 DEF HandlerState, CollectionState
<1>3. hd.msg.currentTime \in Nat /\ hd.msg.startTime \in Int
  BY <1>2 DEF Message
<1>4. slotInfo.currentSlot \in U16 /\ config.total \in U16
  BY <1>1 DEF SlotInfo, SlotConfig
<1>5. slotInfo.currentSlot \in Nat /\ config.total \in Nat
  BY <1>4, Widths
<1>6. SyncTime \in Nat
  BY <1>1 DEF SyncTime
<1> QED
  BY <1>1, <1>2, <1>3, <1>5, <1>6, SlaveDeviceAssumption, CollectorAssumption,
     TimeWordAssumption

(* The schedule a working handler has set is not due.                      *)
LEMMA NotDue ==
  ASSUME PoliteMaster, PoliteInv, hd.pc \notin {"idle", "sync"}
  PROVE  SyncTime < hd.msg.startTime
<1>1. PICK lead \in Leads : hd.msg.startTime = hd.msg.currentTime + lead
  BY DEF PoliteInv, HandlerAlone
<1>2. lead > MaxLag /\ lead \in Int /\ MaxLag \in Nat
  BY SlaveDeviceAssumption DEF PoliteMaster
<1>3. SyncTime <= hd.msg.currentTime + lag /\ lag <= MaxLag /\ lag \in Nat
  BY SlaveDeviceAssumption DEF PoliteInv, HandlerAlone
<1> QED
  BY <1>1, <1>2, <1>3, PoliteTypes

-----------------------------------------------------------------------------
(* The handler.                                                            *)

LEMMA ReceiveKeeps ==
  ASSUME PoliteMaster, PoliteInv, HandlerReceive
  PROVE  /\ HandlerAlone' /\ ConfigurationsAgree' /\ StartsRight'
         /\ RunsRight' /\ PinsRight'
<1>1. PICK to \in Assignments \union {Unassigned}, lead \in Leads,
            offset \in Offsets, reset \in Resets :
        hd' = [hd EXCEPT !.pc = "sync",
                         !.msg = [to |-> to, startTime |-> tick + offset + lead,
                                  currentTime |-> tick + offset, reset |-> reset]]
  BY DEF HandlerReceive
<1>2. /\ UNCHANGED <<smVars, colVars, devVars, clock, dc>>
      /\ hd.pc = "idle"
      /\ ~isCollecting /\ ~isScheduledToStart /\ ~isRunning
  BY DEF HandlerReceive, PoliteMaster
<1>3. /\ hd'.pc = "sync"
      /\ hd'.msg.startTime = hd'.msg.currentTime + lead
  BY <1>1, PoliteTypes DEF HandlerState
<1>4. dc.pc \in Quiet
  BY <1>2, PoliteTypes
     DEF PoliteInv, StartsRight, RunsRight, Quiet, Starting, InSlot, CollectionPlaces
<1> USE <1>2 DEF smVars, colVars, devVars, clock, PoliteInv
<1>5. HandlerAlone'
  BY <1>3, <1>4 DEF HandlerAlone
<1>6. ConfigurationsAgree'
  BY <1>3 DEF ConfigurationsAgree, Agreed
<1>7. StartsRight' /\ RunsRight' /\ PinsRight'
  BY <1>4 DEF StartsRight, RunsRight, PinsRight, Starting, InSlot, Quiet
<1> QED
  BY <1>5, <1>6, <1>7

(* Nothing runs while the handler works, so that what holds of a run holds *)
(* of none, and no pin is driven.                                          *)
LEMMA HandlerLeavesIdle ==
  ASSUME PoliteMaster, PoliteInv, hd.pc # "idle",
         dc' = dc, UNCHANGED <<isRunning, isCollecting>>,
         deviceState' # "DEV_ERR",
         outputs' \subseteq outputs
  PROVE  /\ ~isRunning /\ ~isCollecting /\ dc.pc \in Quiet
         /\ StartsRight' /\ RunsRight' /\ PinsRight'
<1>1. ~isRunning /\ ~isCollecting /\ dc.pc \in Quiet
  BY DEF PoliteInv, HandlerAlone
<1>2. outputs = {} /\ outputs' = {}
  BY <1>1 DEF PoliteInv, PinsRight
<1>3. StartsRight'
  BY <1>1 DEF PoliteInv, StartsRight, Quiet, Starting
<1>4. RunsRight' /\ PinsRight'
  BY <1>1, <1>2 DEF RunsRight, PinsRight, Quiet, InSlot
<1> QED
  BY <1>1, <1>3, <1>4

(* An assignment the slave has not refused is one it can be configured for.*)
LEMMA AssignmentAccepted ==
  ASSUME PoliteMaster, PoliteInv, hd.pc \notin {"idle", "sync"}
  PROVE  /\ hd.msg.to \in Assignments
         /\ CanConfigureCollector(hd.msg.to.testCount)
         /\ ~isRunning => CanConfigure(SlotConfigOf(hd.msg.to))
<1>1. hd.msg.to \in Assignments /\ hd.msg.to.mode \in KnownModes
  BY DEF PoliteInv, TasksInv, HandlerInv, HandlerAlone
<1> DEFINE to == hd.msg.to
<1> HIDE DEF to
<1>2. /\ to.testCount > 0 /\ to.total > 0 /\ to.interval > 0
      /\ to.startSlot + to.testCount <= to.total
  BY <1>1 DEF PoliteMaster, to
<1>3. to.testCount \in U8 /\ to.startSlot \in U16 /\ to.total \in U16
  BY <1>1, AssignmentFacts DEF to
<1>4. to.testCount \in Nat /\ to.startSlot \in Nat /\ to.total \in Nat
  BY <1>3, Widths
<1>5. ~isRunning => CanConfigure(SlotConfigOf(to))
  BY <1>2, <1>4 DEF CanConfigure, SlotConfigOf
<1> QED
  BY <1>1, <1>2, <1>5 DEF CanConfigureCollector, to

LEMMA HandlerKeeps ==
  ASSUME PoliteMaster, PoliteInv, Handler
  PROVE  /\ HandlerAlone' /\ ConfigurationsAgree' /\ StartsRight'
         /\ RunsRight' /\ PinsRight'
<1> USE DEF smVars, colVars, devVars, clock
<1>1. CASE HandlerSync
  <2>1. /\ hd.pc = "sync" /\ tick' = tick /\ dc' = dc
        /\ timeOffset' = hd.msg.currentTime - tick
        /\ UNCHANGED <<smVars, colVars, currentConfig, isCollecting, deviceState,
                       isScheduledToStart, scheduledStartTime, lag>>
    BY <1>1 DEF HandlerSync
  <2>2. /\ StartsRight' /\ RunsRight' /\ PinsRight'
        /\ ~isRunning /\ ~isCollecting /\ dc.pc \in Quiet
    BY <2>1, HandlerLeavesIdle DEF PoliteInv, StartsRight
  <2>3. SyncTime' = hd.msg.currentTime /\ SyncTime' <= hd.msg.currentTime + lag
    BY <2>1, PoliteTypes DEF SyncTime
  <2>4. \/ hd' = [hd EXCEPT !.pc = "idle"] /\ (deviceConfigured' => deviceConfigured)
        \/ /\ hd' = [hd EXCEPT !.pc = "forget", !.changed = ConfigChanged(hd.msg.to),
                               !.configure = ConfigChanged(hd.msg.to) \/ ~deviceConfigured]
           /\ hd.msg.to.mode \in KnownModes
           /\ deviceConfigured' = deviceConfigured
    BY <1>1 DEF HandlerSync
  <2>5. CASE hd' = [hd EXCEPT !.pc = "idle"] /\ (deviceConfigured' => deviceConfigured)
    <3>1. hd'.pc = "idle"
      BY <2>5, PoliteTypes DEF HandlerState
    <3>2. HandlerAlone'
      BY <2>1, <2>2, <3>1 DEF PoliteInv, HandlerAlone
    <3>3. ConfigurationsAgree'
      BY <2>1, <2>5, <3>1 DEF PoliteInv, HandlerAlone, ConfigurationsAgree, Agreed
    <3> QED
      BY <2>2, <3>2, <3>3
  <2>6. CASE /\ hd' = [hd EXCEPT !.pc = "forget", !.changed = ConfigChanged(hd.msg.to),
                               !.configure = ConfigChanged(hd.msg.to) \/ ~deviceConfigured]
             /\ hd.msg.to.mode \in KnownModes
             /\ deviceConfigured' = deviceConfigured
    <3>1. /\ hd'.pc = "forget" /\ hd'.msg = hd.msg
          /\ hd'.configure = (ConfigChanged(hd.msg.to) \/ ~deviceConfigured)
      BY <2>6, PoliteTypes DEF HandlerState
    <3>2. HandlerAlone'
      BY <2>1, <2>2, <2>3, <2>6, <3>1 DEF PoliteInv, HandlerAlone
    <3>3. ~hd'.configure =>
            deviceConfigured /\ hd.msg.to.testCount = currentConfig.testCount
      BY <3>1 DEF ConfigChanged
    <3>4. ConfigurationsAgree'
      BY <2>1, <2>6, <3>1, <3>3
         DEF PoliteInv, HandlerAlone, ConfigurationsAgree, Agreed
    <3> QED
      BY <2>2, <3>2, <3>4
  <2> QED
    BY <2>4, <2>5, <2>6
<1>2. CASE HandlerForget
  <2>1. /\ hd.pc = "forget" /\ hd' = [hd EXCEPT !.pc = "adopt"]
        /\ UNCHANGED <<smVars, colVars, tick, timeOffset, lag, dc, currentConfig,
                       isCollecting, deviceState, deviceConfigured,
                       isScheduledToStart, scheduledStartTime>>
    BY <1>2 DEF HandlerForget
  <2>2. hd'.pc = "adopt" /\ hd'.msg = hd.msg /\ hd'.configure = hd.configure
    BY <2>1, PoliteTypes DEF HandlerState
  <2>3. StartsRight' /\ RunsRight' /\ PinsRight'
    BY <2>1, HandlerLeavesIdle DEF PoliteInv, StartsRight
  <2>4. HandlerAlone' /\ ConfigurationsAgree'
    BY <2>1, <2>2 DEF PoliteInv, HandlerAlone, ConfigurationsAgree, Agreed, SyncTime
  <2> QED
    BY <2>3, <2>4
<1>3. CASE HandlerAdopt
  <2>1. /\ hd.pc = "adopt" /\ hd' = [hd EXCEPT !.pc = "schedule"]
        /\ deviceConfigured' = TRUE
        /\ currentConfig'.testCount = hd.msg.to.testCount
        /\ UNCHANGED <<smVars, colVars, tick, timeOffset, lag, dc,
                       isCollecting, deviceState,
                       isScheduledToStart, scheduledStartTime>>
    BY <1>3 DEF HandlerAdopt
  <2>2. hd'.pc = "schedule" /\ hd'.msg = hd.msg /\ hd'.configure = hd.configure
    BY <2>1, PoliteTypes DEF HandlerState
  <2>3. StartsRight' /\ RunsRight' /\ PinsRight'
    BY <2>1, HandlerLeavesIdle DEF PoliteInv, StartsRight
  <2>4. HandlerAlone' /\ ConfigurationsAgree'
    BY <2>1, <2>2 DEF PoliteInv, HandlerAlone, ConfigurationsAgree, Agreed, SyncTime
  <2> QED
    BY <2>3, <2>4
<1>4. CASE HandlerSchedule
  <2>1. /\ hd.pc = "schedule"
        /\ hd' = [hd EXCEPT !.pc = IF hd.configure THEN "collector" ELSE "decide"]
        /\ scheduledStartTime' = hd.msg.startTime
        /\ UNCHANGED <<smVars, colVars, tick, timeOffset, lag, dc, currentConfig,
                       isCollecting, deviceState, deviceConfigured>>
    BY <1>4 DEF HandlerSchedule
  <2>2. /\ hd'.pc = IF hd.configure THEN "collector" ELSE "decide"
        /\ hd'.msg = hd.msg /\ hd'.configure = hd.configure
    BY <2>1, PoliteTypes DEF HandlerState
  <2>3. StartsRight' /\ RunsRight' /\ PinsRight'
    BY <2>1, HandlerLeavesIdle DEF PoliteInv, StartsRight
  <2>4. HandlerAlone' /\ ConfigurationsAgree'
    BY <2>1, <2>2 DEF PoliteInv, HandlerAlone, ConfigurationsAgree, Agreed, SyncTime
  <2> QED
    BY <2>3, <2>4
<1>5. CASE HandlerConfigureCollector
  <2>1. hd.pc = "collector" /\ CanConfigureCollector(hd.msg.to.testCount)
    BY <1>5, AssignmentAccepted DEF HandlerConfigureCollector
  <2>2. /\ hd' = [hd EXCEPT !.pc = "stop"]
        /\ outputs' \subseteq outputs
        /\ UNCHANGED <<smVars, tick, timeOffset, lag, dc, currentConfig,
                       isCollecting, deviceState, deviceConfigured,
                       isScheduledToStart, scheduledStartTime>>
    BY <1>5, <2>1 DEF HandlerConfigureCollector, ConfigureCollector, AsInputs
  <2>3. hd'.pc = "stop" /\ hd'.msg = hd.msg
    BY <2>2, PoliteTypes DEF HandlerState
  <2>4. StartsRight' /\ RunsRight' /\ PinsRight'
    BY <2>1, <2>2, HandlerLeavesIdle DEF PoliteInv, StartsRight
  <2>5. HandlerAlone' /\ ConfigurationsAgree'
    BY <2>1, <2>2, <2>3 DEF PoliteInv, HandlerAlone, ConfigurationsAgree, Agreed, SyncTime
  <2> QED
    BY <2>4, <2>5
<1>6. CASE HandlerStop
  <2>1. hd.pc = "stop" /\ ~isRunning
    BY <1>6 DEF HandlerStop, PoliteInv, HandlerAlone
  <2>2. /\ hd' = [hd EXCEPT !.pc = "scheduler"]
        /\ UNCHANGED <<smVars, colVars, tick, timeOffset, lag, dc, currentConfig,
                       isCollecting, deviceState, deviceConfigured,
                       isScheduledToStart, scheduledStartTime>>
    BY <1>6, <2>1 DEF HandlerStop, Stop
  <2>3. hd'.pc = "scheduler" /\ hd'.msg = hd.msg
    BY <2>2, PoliteTypes DEF HandlerState
  <2>4. StartsRight' /\ RunsRight' /\ PinsRight'
    BY <2>1, <2>2, HandlerLeavesIdle DEF PoliteInv, StartsRight
  <2>5. HandlerAlone' /\ ConfigurationsAgree'
    BY <2>1, <2>2, <2>3 DEF PoliteInv, HandlerAlone, ConfigurationsAgree, Agreed, SyncTime
  <2> QED
    BY <2>4, <2>5
<1>7. CASE HandlerConfigureScheduler
  <2>1. /\ hd.pc = "scheduler" /\ ~isRunning
        /\ CanConfigure(SlotConfigOf(hd.msg.to)) /\ hd.msg.to \in Assignments
        /\ hd.msg.to.mode \in KnownModes
    BY <1>7, AssignmentAccepted DEF HandlerConfigureScheduler, PoliteInv, HandlerAlone
  <2>2. /\ hd' = [hd EXCEPT !.pc = "decide"]
        /\ config' = SlotConfigOf(hd.msg.to) /\ isConfigured' = TRUE
        /\ UNCHANGED <<colVars, tick, timeOffset, lag, dc, currentConfig, isRunning,
                       isCollecting, deviceState, deviceConfigured,
                       isScheduledToStart, scheduledStartTime>>
    BY <1>7, <2>1 DEF HandlerConfigureScheduler, Configure
  <2>3. hd'.pc = "decide" /\ hd'.msg = hd.msg
    BY <2>2, PoliteTypes DEF HandlerState
  <2>4. StartsRight' /\ RunsRight' /\ PinsRight'
    BY <2>1, <2>2, HandlerLeavesIdle DEF PoliteInv, StartsRight
  <2>5. HandlerAlone'
    BY <2>1, <2>2, <2>3 DEF PoliteInv, HandlerAlone, SyncTime
  <2>6. Agreed'
    BY <2>1, <2>2 DEF PoliteInv, ConfigurationsAgree, Agreed, SlotConfigOf
  <2>7. ConfigurationsAgree'
    BY <2>1, <2>2, <2>3, <2>6 DEF PoliteInv, ConfigurationsAgree
  <2> QED
    BY <2>4, <2>5, <2>7
<1>8. CASE HandlerDecide
  <2>1. hd.pc = "decide" /\ ~(SyncTime >= hd.msg.startTime)
    BY <1>8, NotDue, PoliteTypes DEF HandlerDecide
  <2>2. /\ hd' = [hd EXCEPT !.pc = "idle"] /\ deviceState' = "READY"
        /\ UNCHANGED <<smVars, colVars, tick, timeOffset, lag, dc, currentConfig,
                       isCollecting, deviceConfigured,
                       isScheduledToStart, scheduledStartTime>>
    BY <1>8, <2>1 DEF HandlerDecide
  <2>3. hd'.pc = "idle"
    BY <2>2, PoliteTypes DEF HandlerState
  <2>4. StartsRight' /\ RunsRight' /\ PinsRight'
    BY <2>1, <2>2, HandlerLeavesIdle
  <2>5. HandlerAlone' /\ ConfigurationsAgree'
    BY <2>1, <2>2, <2>3 DEF PoliteInv, HandlerAlone, ConfigurationsAgree, Agreed
  <2> QED
    BY <2>4, <2>5
<1>9. ~HandlerStartCollector /\ ~HandlerStartScheduler /\ ~HandlerRunning
  BY DEF HandlerStartCollector, HandlerStartScheduler, HandlerRunning, PoliteInv,
         HandlerAlone
<1> QED
  BY <1>1, <1>2, <1>3, <1>4, <1>5, <1>6, <1>7, <1>8, <1>9 DEF Handler

-----------------------------------------------------------------------------
(* DataCollectionTask.                                                     *)

(* While the scheduler runs, the arithmetic of Process is exact.           *)
LEMMA PoliteClock ==
  ASSUME PoliteInv, isRunning
  PROVE  /\ ClockExact(SyncTime) /\ config.single
         /\ config.total \in Nat \ {0} /\ config.interval \in Nat \ {0}
<1>1. PICK a \in Assignments : config = SlotConfigOf(a)
  BY DEF PoliteInv, ConfigurationsAgree, TasksInv, SchedulerInv
<1>2. /\ config \in SlotConfig /\ config.total > 0 /\ config.interval > 0
      /\ startTime <= SyncTime
  BY DEF PoliteInv, RunsRight, TasksInv, SchedulerInv, SMTypeOK
<1>3. SyncTime \in 0 .. (TimeWord - 1)
  BY ClockWord DEF PoliteInv, TasksInv
<1>4. PICK o \in Offsets \union {0} : timeOffset <= o
  BY DEF PoliteInv, TasksInv, ClockInv
<1>5. o \in Nat /\ MaxTick + o + a.total * a.interval < TimeWord
  BY ClockWordAssumption, SlaveDeviceAssumption
<1>6. a.total = config.total /\ a.interval = config.interval
  BY <1>1 DEF SlotConfigOf
<1>7. config.total \in Nat \ {0} /\ config.interval \in Nat \ {0}
  BY <1>2, PoliteTypes DEF SlotConfig
<1> DEFINE frame == config.total * config.interval
<1>8. frame \in Nat
  BY <1>7, SMTT(30)
<1>9. MaxTick + o + frame < TimeWord
  BY <1>5, <1>6
<1> HIDE DEF frame
<1>10. startTime + frame < TimeWord
  <2>1. tick <= MaxTick /\ SyncTime = tick + timeOffset /\ MaxTick \in Nat
    BY SlaveDeviceAssumption DEF PoliteInv, TasksInv, ClockInv, SyncTime
  <2> QED
    BY <1>2, <1>4, <1>5, <1>8, <1>9, <2>1, PoliteTypes, TimeWordAssumption
<1>11. config.single
  BY <1>1 DEF SlotConfigOf
<1> QED
  BY <1>2, <1>3, <1>7, <1>10, <1>11, PoliteTypes, TimeWordAssumption
     DEF ClockExact, frame

(* What a step of DataCollectionTask leaves alone.                         *)
LEMMA CollectionLeaves ==
  ASSUME DataCollection
  PROVE  /\ hd' = hd /\ lag' = lag /\ SyncTime' = SyncTime
         /\ config' = config /\ isConfigured' = isConfigured
         /\ currentConfig' = currentConfig /\ deviceConfigured' = deviceConfigured
         /\ isScheduledToStart' => isScheduledToStart
<1> USE DEF DataCollection, DcWake, DcCheck, DcConfigureCollector, DcStartCollector,
  DcStartScheduler, DcStarted, DcObserve, DcStopDetect, DcProcessNothing,
  DcProcessCycleEnd, DcProcessSlot, DcSlotIdle, DcSlot, DcMeasure, DcSave, DcSend,
  DcBurst, DcAfter
<1>1. UNCHANGED <<hd, lag, tick, timeOffset, currentConfig, deviceConfigured>>
  <2> USE DEF devVars, clock
  <2>1. UNCHANGED <<hd, lag, tick>>
    OBVIOUS
  <2>2. UNCHANGED <<timeOffset, currentConfig>>
    OBVIOUS
  <2>3. UNCHANGED deviceConfigured
    OBVIOUS
  <2> QED
    BY <2>1, <2>2, <2>3
<1>2. UNCHANGED <<config, isConfigured>>
  BY DEF StartScheduler, Start, ProcessCycleEnd, ProcessFirst, ProcessSwitch, smVars
<1>3. isScheduledToStart' => isScheduledToStart
  BY DEF devVars
<1> QED
  BY <1>1, <1>2, <1>3 DEF SyncTime

(* Next to a working handler it only goes through empty rounds.            *)
LEMMA CollectionKeepsHandlerAlone ==
  ASSUME PoliteMaster, PoliteInv, DataCollection
  PROVE  HandlerAlone' /\ ConfigurationsAgree'
<1>1. ConfigurationsAgree'
  BY CollectionLeaves DEF PoliteInv, ConfigurationsAgree, Agreed
<1>2. CASE hd.pc = "idle"
  <2>1. hd'.pc = "idle" /\ lag' \in 0..MaxLag
    BY <1>2, CollectionLeaves DEF PoliteInv, HandlerAlone
  <2> QED
    BY <1>1, <2>1 DEF HandlerAlone
<1>3. CASE hd.pc # "idle"
  <2>1. ~isCollecting /\ ~isRunning /\ dc.pc \in Quiet
    BY <1>3 DEF PoliteInv, HandlerAlone
  <2>2. DcWake \/ DcCheck \/ DcObserve \/ DcStopDetect \/ DcProcessNothing
    BY <2>1 DEF DataCollection, DcConfigureCollector, DcStartCollector,
      DcStartScheduler, DcStarted, DcProcessCycleEnd, DcProcessSlot, DcSlotIdle,
      DcSlot, DcMeasure, DcSave, DcSend, DcBurst, DcAfter, ProcessCycleEnd,
      ProcessFirst, ProcessSwitch, Quiet
  <2>3. ~(isScheduledToStart /\ SyncTime >= scheduledStartTime)
    <3>1. CASE hd.pc \in {"sync", "forget", "adopt", "schedule"}
      BY <3>1 DEF PoliteInv, HandlerAlone
    <3>2. CASE hd.pc \in {"collector", "stop", "scheduler", "decide"}
      <4>1. scheduledStartTime = hd.msg.startTime /\ SyncTime < hd.msg.startTime
        BY <3>2, NotDue DEF PoliteInv, HandlerAlone
      <4> QED
        BY <4>1, PoliteTypes
    <3> QED
      BY <1>3, <3>1, <3>2, PoliteTypes DEF PoliteInv, HandlerAlone, HandlerPlaces
  <2>4. dc'.pc \in Quiet
    BY <2>2, <2>3, PoliteTypes
       DEF DcWake, DcCheck, DcObserve, DcStopDetect, DcProcessNothing, DcGoto,
           DcSleepFor, Quiet, CollectionState
  <2>5. UNCHANGED <<isCollecting, isRunning, isScheduledToStart, scheduledStartTime>>
    BY <2>1, <2>2
       DEF DcWake, DcCheck, DcObserve, DcStopDetect, DcProcessNothing, smVars, devVars
  <2> QED
    BY <1>1, <2>1, <2>4, <2>5, CollectionLeaves DEF PoliteInv, HandlerAlone
<1> QED
  BY <1>1, <1>2, <1>3

(* The rounds in which nothing is started and no slot is entered.          *)
LEMMA QuietRoundKeeps ==
  ASSUME PoliteMaster, PoliteInv,
         DcWake \/ DcCheck \/ DcObserve \/ DcStopDetect \/ DcProcessNothing
  PROVE  StartsRight' /\ RunsRight' /\ PinsRight'
<1>1. /\ UNCHANGED <<smVars, colVars, SyncTime>>
      /\ dc.pc \in Quiet
      /\ dc \in CollectionState
  <2>1. UNCHANGED <<smVars, colVars, tick, timeOffset>>
    BY DEF DcWake, DcCheck, DcObserve, DcStopDetect, DcProcessNothing, devVars, clock
  <2> QED
    BY <2>1, PoliteTypes
       DEF DcWake, DcCheck, DcObserve, DcStopDetect, DcProcessNothing, Quiet, SyncTime
<1>2. isRunning => isCollecting
  BY <1>1 DEF PoliteInv, RunsRight, Quiet
<1>3. /\ dc'.pc \in Quiet \/ dc'.pc = "collector"
      /\ dc'.pc = "collector" => isScheduledToStart' /\ ~isCollecting' /\ ~isRunning'
      /\ dc'.pc = "stopped" => dc'.running = isRunning'
  <2>1. CASE DcWake
    BY <2>1, <1>1 DEF DcWake, DcGoto, CollectionState, Quiet
  <2>2. CASE DcCheck
    <3>1. \/ dc' = [dc EXCEPT !.pc = "observe"]
          \/ dc' = [dc EXCEPT !.pc = "collector"] /\ isScheduledToStart /\ ~isCollecting
      BY <2>2 DEF DcCheck, DcGoto
    <3>2. UNCHANGED <<isScheduledToStart, isCollecting, isRunning>>
      BY <2>2 DEF DcCheck, devVars, smVars
    <3> QED
      BY <3>1, <3>2, <1>1, <1>2 DEF CollectionState, Quiet
  <2>3. CASE DcObserve
    BY <2>3, <1>1 DEF DcObserve, smVars, CollectionState, Quiet
  <2>4. CASE DcStopDetect
    BY <2>4, <1>1 DEF DcStopDetect, CollectionState, Quiet
  <2>5. CASE DcProcessNothing
    <3>1. dc'.pc = "sleep"
      <4> DEFINE wake == tick + 1
      <4>1. dc' = [dc EXCEPT !.pc = "sleep", !.wake = wake]
        BY <2>5 DEF DcProcessNothing, DcSleepFor
      <4> HIDE DEF wake
      <4> QED
        BY <4>1, <1>1 DEF CollectionState
    <3> QED
      BY <3>1 DEF Quiet
  <2> QED
    BY <2>1, <2>2, <2>3, <2>4, <2>5
<1>4. /\ isRunning' => isCollecting'
      /\ deviceState' # "DEV_ERR"
  <2>1. CASE DcStopDetect
    <3>1. dc.running = isRunning
      BY <2>1 DEF DcStopDetect, PoliteInv, StartsRight
    <3> QED
      BY <2>1, <1>1, <1>2, <3>1 DEF DcStopDetect, smVars, PoliteInv, StartsRight
  <2>2. CASE ~DcStopDetect
    BY <2>2, <1>1, <1>2
       DEF DcWake, DcCheck, DcObserve, DcProcessNothing, devVars, smVars,
           PoliteInv, StartsRight
  <2> QED
    BY <2>1, <2>2
<1>5. StartsRight'
  BY <1>3, <1>4 DEF StartsRight, Quiet, Starting
<1>6. RunsRight'
  BY <1>1, <1>3, <1>4 DEF PoliteInv, RunsRight, SlotReached, CollectorReady, Quiet, InSlot,
    smVars, colVars
<1>7. PinsRight'
  BY <1>1, <1>3 DEF PoliteInv, PinsRight, Quiet, smVars, colVars
<1> QED
  BY <1>5, <1>6, <1>7

(* A scheduled start: the collector is configured for the scheduler's      *)
(* frame, started, and then the scheduler, at slot 0.                      *)
LEMMA StartKeeps ==
  ASSUME PoliteMaster, PoliteInv,
         DcConfigureCollector \/ DcStartCollector \/ DcStartScheduler \/ DcStarted
  PROVE  StartsRight' /\ RunsRight' /\ PinsRight'
<1>1. /\ dc.pc \in Starting
      /\ isScheduledToStart /\ ~isCollecting
      /\ dc \in CollectionState
  BY PoliteTypes DEF DcConfigureCollector, DcStartCollector, DcStartScheduler, DcStarted,
    PoliteInv, StartsRight, Starting
<1>2. hd.pc = "idle" /\ Agreed
  <2>1. hd.pc = "idle"
    BY <1>1 DEF PoliteInv, HandlerAlone, Quiet, Starting
  <2> QED
    BY <1>1, <2>1 DEF PoliteInv, ConfigurationsAgree
<1>3. PICK a \in Assignments : a.mode \in KnownModes /\ config = SlotConfigOf(a)
  BY <1>2 DEF Agreed, PoliteInv, ConfigurationsAgree
<1>4. config.count > 0 /\ config.total > 0
  BY <1>3 DEF PoliteMaster, SlotConfigOf
<1>5. ~isRunning => outputs = {}
  BY DEF PoliteInv, PinsRight
<1>6. CASE DcConfigureCollector
  <2>1. CanConfigureCollector(currentConfig.testCount)
    BY <1>2, <1>4 DEF Agreed, CanConfigureCollector
  <2>2. /\ ConfigureCollector(currentConfig.testCount, config.total)
        /\ dc.pc = "collector" /\ dc' = [dc EXCEPT !.pc = "startCollector"]
        /\ UNCHANGED <<smVars, devVars>>
    BY <1>6, <2>1 DEF DcConfigureCollector, DcGoto
  <2>3. dc'.pc = "startCollector"
    BY <2>2, <1>1 DEF CollectionState
  <2>4. ~isRunning /\ ~isRunning'
    BY <2>2 DEF PoliteInv, StartsRight, smVars
  <2>5. CollectorReady' /\ status' = "IDLE"
    BY <2>2, <1>2, <1>4
       DEF ConfigureCollector, CollectorReady, RowsOf, Agreed, smVars
  <2>6. outputs' = {}
    BY <2>2, <2>4, <1>5 DEF ConfigureCollector, AsInputs
  <2>7. StartsRight'
    BY <2>2, <2>3, <2>4, <2>5, <1>1 DEF PoliteInv, StartsRight, devVars, Starting
  <2>8. RunsRight' /\ PinsRight'
    BY <2>3, <2>4, <2>6 DEF RunsRight, PinsRight, InSlot
  <2> QED
    BY <2>7, <2>8
<1>7. CASE DcStartCollector
  <2>1. dc.pc = "startCollector" /\ CanStartCollection
    BY <1>7 DEF DcStartCollector, PoliteInv, StartsRight, CanStartCollection
  <2>2. /\ StartCollection
        /\ dc' = [dc EXCEPT !.pc = "startScheduler"]
        /\ UNCHANGED <<smVars, devVars>>
    BY <1>7, <2>1 DEF DcStartCollector, DcGoto
  <2>3. dc'.pc = "startScheduler"
    BY <2>2, <1>1 DEF CollectionState
  <2>4. ~isRunning /\ ~isRunning'
    BY <2>1, <2>2 DEF PoliteInv, StartsRight, smVars
  <2>5. CollectorReady' /\ status' = "RUNNING" /\ currentCycle' = 0
    BY <2>1, <2>2 DEF StartCollection, CollectorReady, PoliteInv, StartsRight, smVars
  <2>6. outputs' = {}
    BY <2>2, <2>4, <1>5 DEF StartCollection
  <2>7. StartsRight'
    BY <2>2, <2>3, <2>4, <2>5, <1>1 DEF PoliteInv, StartsRight, devVars, Starting
  <2>8. RunsRight' /\ PinsRight'
    BY <2>3, <2>4, <2>6 DEF RunsRight, PinsRight, InSlot
  <2> QED
    BY <2>7, <2>8
<1>8. CASE DcStartScheduler
  <2>1. dc.pc = "startScheduler" /\ isConfigured /\ ~isRunning
    BY <1>8, <1>2 DEF DcStartScheduler, PoliteInv, StartsRight, Agreed
  <2>2. /\ Start(SyncTime)
        /\ dc' = [dc EXCEPT !.pc = "running"]
        /\ UNCHANGED <<colVars, devVars, tick>>
    BY <1>8, <2>1 DEF DcStartScheduler, DcGoto, StartScheduler, clock
  <2>3. dc'.pc = "running"
    BY <2>2, <1>1 DEF CollectionState
  <2>4. /\ isRunning' /\ isFirstProcess' /\ ~cycleCompleted'
        /\ config' = config /\ startTime' = SyncTime
        /\ slotInfo' = SlotInfoOf(config, 0)
    BY <2>2 DEF Start
  <2>5. SyncTime' = SyncTime
    BY <2>2 DEF SyncTime, devVars
  <2>6. slotInfo'.currentSlot = 0
    BY <2>4 DEF SlotInfoOf
  <2>7. /\ CollectorReady /\ status = "RUNNING" /\ currentCycle = 0
        /\ UNCHANGED <<detections, num, status, currentCycle, outputs>>
    BY <2>1, <2>2 DEF PoliteInv, StartsRight, colVars
  <2>8. StartsRight'
    BY <2>2, <2>3, <2>4, <1>1 DEF PoliteInv, StartsRight, devVars, Starting
  <2>9. SlotReached' /\ startTime' <= SyncTime'
    <3>1. config.interval \in Nat /\ SyncTime \in Nat
      BY PoliteTypes DEF SlotConfig
    <3>2. 0 * config.interval = 0
      BY <3>1
    <3> QED
      BY <2>4, <2>5, <2>6, <3>1, <3>2 DEF SlotReached
  <2>10. RunsRight'
    BY <2>3, <2>4, <2>6, <2>7, <2>9, <1>4, PoliteTypes
       DEF RunsRight, CollectorReady, InSlot
  <2>11. PinsRight'
    BY <2>1, <2>7, <1>5 DEF PinsRight
  <2> QED
    BY <2>8, <2>10, <2>11
<1>9. CASE DcStarted
  <2>1. dc.pc = "running" /\ isRunning
    BY <1>9 DEF DcStarted, PoliteInv, StartsRight
  <2>2. /\ isCollecting' = TRUE /\ deviceState' = "RUNNING"
        /\ dc' = [dc EXCEPT !.pc = "observe"]
        /\ UNCHANGED <<smVars, colVars, tick, timeOffset>>
    BY <1>9, <2>1 DEF DcStarted, DcGoto, clock
  <2>3. dc'.pc = "observe"
    BY <2>2, <1>1 DEF CollectionState
  <2>4. StartsRight'
    BY <2>2, <2>3 DEF StartsRight, Starting
  <2>5. RunsRight'
    BY <2>1, <2>2, <2>3 DEF PoliteInv, RunsRight, CollectorReady, SlotReached, SyncTime,
      InSlot, smVars, colVars
  <2>6. PinsRight'
    BY <2>1, <2>2, <2>3 DEF PoliteInv, PinsRight, smVars, colVars
  <2> QED
    BY <2>4, <2>5, <2>6
<1> QED
  BY <1>6, <1>7, <1>8, <1>9

(* Process: the end of the cycle releases every pin; a slot is entered     *)
(* only after the one before it in the frame, with a row left for it.      *)
LEMMA ProcessKeeps ==
  ASSUME PoliteInv, DcProcessCycleEnd \/ DcProcessSlot
  PROVE  StartsRight' /\ RunsRight' /\ PinsRight'
<1>1. /\ dc.pc = "process" /\ dc \in CollectionState /\ isRunning /\ isCollecting
      /\ isCollecting' = isCollecting /\ deviceState' = deviceState
      /\ SyncTime' = SyncTime
  <2>1. /\ dc.pc = "process" /\ isRunning
        /\ UNCHANGED <<isCollecting, deviceState, tick, timeOffset>>
    BY DEF DcProcessCycleEnd, DcProcessSlot, ProcessCycleEnd, ProcessFirst,
      ProcessSwitch, devVars, clock
  <2> QED
    BY <2>1, PoliteTypes DEF PoliteInv, RunsRight, SyncTime
<1>2. CASE DcProcessCycleEnd
  <2> DEFINE wake == tick + 1
  <2>1. /\ isRunning' = FALSE /\ outputs' = {} /\ dc' = [dc EXCEPT !.pc = "sleep", !.wake = wake]
    BY <1>2 DEF DcProcessCycleEnd, ProcessCycleEnd, SetAllPinsToInputMode, AsInputs,
      DcSleepFor, PoliteInv, PinsRight
  <2> HIDE DEF wake
  <2>2. dc'.pc = "sleep"
    BY <2>1, <1>1 DEF CollectionState
  <2> QED
    BY <2>1, <2>2, <1>1
       DEF PoliteInv, StartsRight, RunsRight, PinsRight, Starting, InSlot
<1>3. CASE DcProcessSlot
  <2>1. dc'.pc = "slot" /\ UNCHANGED colVars
    <3> DEFINE ends == SwitchEndsCycle(SyncTime)
    <3>1. /\ \/ dc' = [dc EXCEPT !.pc = "slot", !.endsCycle = FALSE]
             \/ dc' = [dc EXCEPT !.pc = "slot", !.endsCycle = ends]
          /\ UNCHANGED colVars
      BY <1>3 DEF DcProcessSlot
    <3> HIDE DEF ends
    <3> QED
      BY <3>1, <1>1 DEF CollectionState
  <2>2. StartsRight'
    BY <1>1, <2>1 DEF PoliteInv, StartsRight, Starting
  <2>3. /\ CollectorReady /\ ~cycleCompleted /\ startTime <= SyncTime
        /\ slotInfo.currentSlot < config.total /\ SlotReached
        /\ isFirstProcess =>
             status = "RUNNING" /\ currentCycle = 0 /\ slotInfo.currentSlot = 0
        /\ \/ status = "RUNNING" /\ currentCycle <= slotInfo.currentSlot + 1
           \/ status = "COMPLETED" /\ slotInfo.currentSlot = config.total - 1
    BY <1>1 DEF PoliteInv, RunsRight
  <2>4. CASE ProcessFirst
    <3>1. /\ isFirstProcess /\ ~isFirstProcess'
          /\ UNCHANGED <<config, isRunning, cycleCompleted, startTime, slotInfo>>
      BY <2>4 DEF ProcessFirst
    <3>2. RunsRight'
      BY <1>1, <2>1, <2>3, <3>1, PoliteTypes
         DEF RunsRight, CollectorReady, SlotReached, colVars, InSlot
    <3>3. PinsRight'
      BY <1>1, <2>1, <3>1 DEF PoliteInv, PinsRight, colVars
    <3> QED
      BY <2>2, <3>2, <3>3
  <2>5. CASE ProcessSwitch(SyncTime)
    <3>1. /\ ~isFirstProcess /\ ~isFirstProcess'
          /\ UNCHANGED <<config, isRunning, cycleCompleted, startTime>>
      BY <2>5 DEF ProcessSwitch
    <3>2. /\ slotInfo'.currentSlot \in Nat
          /\ slotInfo'.currentSlot > slotInfo.currentSlot
          /\ slotInfo'.currentSlot < config.total
          /\ startTime + slotInfo'.currentSlot * config.interval <= SyncTime
      BY <1>1, <2>3, <2>5, PoliteClock, PoliteTypes, SwitchForward DEF SlotReached
    <3>3. SlotReached'
      BY <1>1, <3>1, <3>2 DEF SlotReached
    <3>4. status = "RUNNING" /\ currentCycle <= slotInfo'.currentSlot
      BY <2>3, <3>2, PoliteTypes
    <3>5. RunsRight'
      BY <1>1, <2>1, <2>3, <3>1, <3>2, <3>3, <3>4, PoliteTypes
         DEF RunsRight, CollectorReady, colVars, InSlot
    <3>6. PinsRight'
      BY <1>1, <2>1, <3>1 DEF PoliteInv, PinsRight, colVars
    <3> QED
      BY <2>2, <3>5, <3>6
  <2> QED
    BY <1>3, <2>4, <2>5 DEF DcProcessSlot
<1> QED
  BY <1>2, <1>3

(* The slot callback: it finds a row left, drives the pin of the slot and  *)
(* measures the row.                                                       *)
LEMMA SlotKeeps ==
  ASSUME PoliteInv,
         DcSlotIdle \/ DcSlot \/ DcMeasure \/ DcSave \/ DcSend \/ DcBurst \/ DcAfter
  PROVE  StartsRight' /\ RunsRight' /\ PinsRight'
<1>1. /\ dc.pc \in InSlot /\ dc \in CollectionState
      /\ isRunning /\ isCollecting /\ ~isFirstProcess
      /\ UNCHANGED <<smVars, isCollecting, deviceState>>
      /\ SyncTime' = SyncTime
  <2>1. /\ dc.pc \in InSlot
        /\ UNCHANGED <<smVars, isCollecting, deviceState, tick, timeOffset>>
    BY DEF DcSlotIdle, DcSlot, DcMeasure, DcSave, DcSend, DcBurst, DcAfter, devVars,
      clock, InSlot
  <2> QED
    BY <2>1, PoliteTypes DEF PoliteInv, RunsRight, SyncTime
<1>2. /\ CollectorReady /\ ~cycleCompleted /\ startTime <= SyncTime
      /\ slotInfo.currentSlot < config.total /\ SlotReached
      /\ dc.pc \in {"slot", "settle"} =>
           status = "RUNNING" /\ currentCycle <= slotInfo.currentSlot
      /\ \/ status = "RUNNING" /\ currentCycle <= slotInfo.currentSlot + 1
         \/ status = "COMPLETED" /\ slotInfo.currentSlot = config.total - 1
  BY <1>1 DEF PoliteInv, RunsRight
<1>3. SlotReached'
  BY <1>1, <1>2 DEF SlotReached, smVars
<1>4. dc'.pc \in (InSlot \ {"slot"}) \union {"sleep"} /\ StartsRight'
  <2>1. dc'.pc \in (InSlot \ {"slot"}) \union {"sleep"}
    <3> DEFINE wake == tick + SettleTime
               row == [run |-> run, slot |-> slotInfo.currentSlot]
               next == tick + 1
    <3>1. \/ dc' = [dc EXCEPT !.pc = "settle", !.wake = wake, !.row = row]
          \/ dc' = [dc EXCEPT !.pc = "save"]
          \/ dc' = [dc EXCEPT !.pc = "send"]
          \/ dc' = [dc EXCEPT !.pc = "burst"]
          \/ dc' = [dc EXCEPT !.pc = "after"]
          \/ dc' = dc /\ dc.pc = "burst"
          \/ dc' = [dc EXCEPT !.pc = "sleep", !.wake = next]
      BY DEF DcSlotIdle, DcSlot, DcMeasure, DcSave, DcSend, DcBurst, DcAfter, DcGoto,
        DcSleepFor
    <3> HIDE DEF wake, row, next
    <3> QED
      BY <3>1, <1>1 DEF CollectionState, InSlot
  <2> QED
    BY <1>1, <2>1 DEF PoliteInv, StartsRight, InSlot, Starting
<1>5. ASSUME UNCHANGED <<num, detections>>,
             dc'.pc = "settle" =>
               status' = "RUNNING" /\ currentCycle' <= slotInfo.currentSlot,
             \/ status' = "RUNNING" /\ currentCycle' <= slotInfo.currentSlot + 1
             \/ status' = "COMPLETED" /\ slotInfo.currentSlot = config.total - 1
      PROVE  RunsRight'
  BY <1>1, <1>2, <1>3, <1>4, <1>5 DEF RunsRight, CollectorReady, smVars, InSlot
<1>6. ASSUME num' = num,
             outputs' \subseteq 0 .. (num - 1),
             outputs' # {} =>
               slotInfo.slotType = "ACTIVE" /\ outputs' = {slotInfo.activePin}
      PROVE  PinsRight'
  BY <1>1, <1>6 DEF PinsRight, smVars
<1>7. dc.pc # "slot" =>
        /\ outputs \subseteq 0 .. (num - 1)
        /\ outputs # {} =>
             slotInfo.slotType = "ACTIVE" /\ outputs = {slotInfo.activePin}
  BY DEF PoliteInv, PinsRight
<1>8. ~DcSlotIdle
  BY <1>1 DEF DcSlotIdle
<1>9. CASE DcSlot
  <2>1. CanMeasure
    BY <1>1, <1>2, <1>9, PoliteTypes DEF DcSlot, CanMeasure, CollectorReady
  <2>2. DrivePins(slotInfo.activePin, IsActive) /\ dc.pc = "slot"
    BY <1>9, <2>1 DEF DcSlot, IgnoreSlot
  <2>3. UNCHANGED <<num, detections, status, currentCycle>>
    BY <2>2 DEF DrivePins
  <2>4. /\ outputs' \subseteq 0 .. (num - 1)
        /\ outputs' # {} =>
             slotInfo.slotType = "ACTIVE" /\ outputs' = {slotInfo.activePin}
    <3>1. slotInfo.activePin \in Nat
      BY Widths DEF PoliteInv, TasksInv, SchedulerInv, SMTypeOK, SlotInfo
    <3>2. AsInputs(num) = {}
      BY DEF AsInputs, PoliteInv, PinsRight
    <3>3. slotInfo.activePin < num => slotInfo.activePin \in 0 .. (num - 1)
      BY <3>1, PoliteTypes
    <3> QED
      BY <2>2, <3>2, <3>3 DEF DrivePins, IsActive
  <2> QED
    BY <1>2, <1>4, <1>5, <1>6, <2>2, <2>3, <2>4
<1>10. CASE DcMeasure
  <2>1. dc.pc = "settle" /\ MeasureSlot(dc.row) /\ dc'.pc = "save"
    BY <1>10, <1>1 DEF DcMeasure, DcGoto, CollectionState
  <2>2. /\ UNCHANGED <<num, detections, outputs>>
        /\ currentCycle' = currentCycle + 1
        /\ status' = IF currentCycle' >= detections THEN "COMPLETED" ELSE status
    BY <2>1 DEF MeasureSlot
  <2>3. \/ status' = "RUNNING" /\ currentCycle' <= slotInfo.currentSlot + 1
        \/ status' = "COMPLETED" /\ slotInfo.currentSlot = config.total - 1
    BY <1>2, <2>1, <2>2, PoliteTypes DEF CollectorReady
  <2> QED
    BY <1>4, <1>5, <1>6, <1>7, <2>1, <2>2, <2>3
<1>11. CASE DcSave
  <2>1. dc.pc = "save" /\ dc'.pc = "send"
    BY <1>11, <1>1 DEF DcSave, DcGoto, CollectionState
  <2>2. /\ UNCHANGED <<num, detections, outputs, status>>
        /\ status # "COMPLETED" => currentCycle' = currentCycle
    BY <1>11 DEF DcSave, IsCollectionComplete, ClearData, colVars
  <2> QED
    BY <1>2, <1>4, <1>5, <1>6, <1>7, <2>1, <2>2
<1>12. CASE DcSend \/ DcBurst \/ DcAfter
  <2>1. dc.pc \in {"send", "burst", "after"} /\ dc'.pc # "settle"
    <3> DEFINE next == tick + 1
    <3>1. /\ dc.pc \in {"send", "burst", "after"}
          /\ \/ dc' = [dc EXCEPT !.pc = "burst"]
             \/ dc' = [dc EXCEPT !.pc = "after"]
             \/ dc' = dc
             \/ dc' = [dc EXCEPT !.pc = "sleep", !.wake = next]
      BY <1>12 DEF DcSend, DcBurst, DcAfter, DcGoto, DcSleepFor
    <3> HIDE DEF next
    <3> QED
      BY <3>1, <1>1 DEF CollectionState
  <2>2. /\ UNCHANGED <<num, detections, status, currentCycle>>
        /\ outputs' = outputs \/ outputs' = {}
    BY <1>12 DEF DcSend, DcBurst, DcAfter, SetAllPinsToInputMode, AsInputs, colVars,
      PoliteInv, PinsRight
  <2> QED
    BY <1>2, <1>4, <1>5, <1>6, <1>7, <2>1, <2>2
<1> QED
  BY <1>8, <1>9, <1>10, <1>11, <1>12

LEMMA CollectionKeeps ==
  ASSUME PoliteMaster, PoliteInv, DataCollection
  PROVE  /\ HandlerAlone' /\ ConfigurationsAgree' /\ StartsRight'
         /\ RunsRight' /\ PinsRight'
<1>1. HandlerAlone' /\ ConfigurationsAgree'
  BY CollectionKeepsHandlerAlone
<1>2. StartsRight' /\ RunsRight' /\ PinsRight'
  BY QuietRoundKeeps, StartKeeps, ProcessKeeps, SlotKeeps DEF DataCollection
<1> QED
  BY <1>1, <1>2

-----------------------------------------------------------------------------
(* Time, the radio, and the theorems.                                      *)

LEMMA TickKeeps ==
  ASSUME PoliteInv, Tick
  PROVE  /\ HandlerAlone' /\ ConfigurationsAgree' /\ StartsRight'
         /\ RunsRight' /\ PinsRight'
<1>1. /\ UNCHANGED <<smVars, colVars, devVars, hd, dc>>
      /\ tick' = tick + 1
      /\ Idle \/ lag < MaxLag
      /\ lag' = IF Idle THEN 0 ELSE lag + 1
  BY DEF Tick
<1>2. SyncTime' = SyncTime + 1
  BY <1>1, PoliteTypes DEF SyncTime, devVars
<1>3. /\ lag' \in 0..MaxLag
      /\ hd.pc # "idle" => lag' = lag + 1
  BY <1>1, SlaveDeviceAssumption, PoliteTypes DEF PoliteInv, HandlerAlone, Idle, Blocked
<1>4. HandlerAlone'
  <2>1. hd.pc \notin {"idle", "sync"} => SyncTime' <= hd'.msg.currentTime + lag'
    BY <1>1, <1>2, <1>3, PoliteTypes DEF PoliteInv, HandlerAlone
  <2> QED
    BY <1>1, <1>3, <2>1 DEF PoliteInv, HandlerAlone, smVars, devVars
<1>5. ConfigurationsAgree'
  BY <1>1 DEF PoliteInv, ConfigurationsAgree, Agreed, smVars, devVars
<1>6. StartsRight' /\ PinsRight'
  BY <1>1 DEF PoliteInv, StartsRight, PinsRight, CollectorReady, smVars, colVars, devVars
<1>7. isRunning => startTime' <= SyncTime' /\ SlotReached'
  <2> DEFINE reached == slotInfo.currentSlot * config.interval
  <2>1. reached \in Nat
    <3>1. config.interval \in Nat
      BY PoliteTypes DEF SlotConfig
    <3> QED
      BY <3>1, PoliteTypes, SMTT(30)
  <2>2. isRunning => startTime <= SyncTime /\ startTime + reached <= SyncTime
    BY DEF PoliteInv, RunsRight, SlotReached
  <2>3. reached' = reached /\ startTime' = startTime
    BY <1>1 DEF smVars
  <2> HIDE DEF reached
  <2>4. isRunning => startTime' <= SyncTime' /\ startTime' + reached' <= SyncTime'
    BY <1>2, <2>1, <2>2, <2>3, PoliteTypes
  <2> QED
    BY <2>4 DEF SlotReached, reached
<1>8. RunsRight'
  BY <1>1, <1>7 DEF PoliteInv, RunsRight, CollectorReady, smVars, colVars, devVars
<1> QED
  BY <1>4, <1>5, <1>6, <1>8

LEMMA OthersKeep ==
  ASSUME PoliteInv, HandlerAnswers \/ Radio \/ TimeUp \/ UNCHANGED vars
  PROVE  /\ HandlerAlone' /\ ConfigurationsAgree' /\ StartsRight'
         /\ RunsRight' /\ PinsRight'
<1>1. /\ UNCHANGED <<smVars, colVars, hd, dc, tick, lag, timeOffset, currentConfig>>
      /\ UNCHANGED <<deviceConfigured, deviceState, isCollecting, isScheduledToStart,
                     scheduledStartTime>>
  BY DEF HandlerAnswers, Radio, RadioTake, RadioTransmit, TimeUp, vars, devVars, clock
<1> USE <1>1 DEF PoliteInv, smVars, colVars, SyncTime
<1>2. HandlerAlone'
  BY DEF HandlerAlone
<1>3. ConfigurationsAgree'
  BY DEF ConfigurationsAgree, Agreed
<1>4. StartsRight' /\ PinsRight'
  BY DEF StartsRight, CollectorReady, PinsRight
<1>5. RunsRight'
  BY DEF RunsRight, CollectorReady, SlotReached
<1> QED
  BY <1>2, <1>3, <1>4, <1>5

LEMMA PoliteInvInit == Init => PoliteInv
<1> SUFFICES ASSUME Init PROVE PoliteInv
  OBVIOUS
<1>1. /\ hd.pc = "idle" /\ dc.pc = "check" /\ lag = 0
      /\ ~isRunning /\ ~isConfigured /\ ~isCollecting /\ ~deviceConfigured
      /\ ~isScheduledToStart /\ deviceState = "IDLE" /\ outputs = {}
  BY DEF Init, SMInit, CollectorInit
<1>2. HandlerAlone
  BY <1>1, SlaveDeviceAssumption DEF HandlerAlone
<1>3. ConfigurationsAgree /\ StartsRight /\ RunsRight /\ PinsRight
  BY <1>1 DEF ConfigurationsAgree, StartsRight, RunsRight, PinsRight, Starting, InSlot
<1> QED
  BY <1>2, <1>3, TasksInvInit DEF PoliteInv

LEMMA PoliteInvNext ==
  ASSUME PoliteMaster, PoliteInv, [Next]_vars
  PROVE  PoliteInv'
<1>1. TasksInv'
  BY TasksInvNext DEF PoliteInv
<1>2. /\ HandlerAlone' /\ ConfigurationsAgree' /\ StartsRight'
      /\ RunsRight' /\ PinsRight'
  BY ReceiveKeeps, HandlerKeeps, CollectionKeeps, TickKeeps, OthersKeep DEF Next
<1> QED
  BY <1>1, <1>2 DEF PoliteInv

LEMMA PoliteInvariant ==
  ASSUME PoliteMaster
  PROVE  Spec => []PoliteInv
<1>1. PoliteInv /\ [Next]_vars => PoliteInv'
  BY PoliteInvNext
<1> QED
  BY PoliteInvInit, <1>1, PTL DEF Spec

(* Under such a master no order of handler and polling task steps fails a  *)
(* start: the collector is idle when it is started, the scheduler has been *)
(* configured, and neither configuration is refused.                       *)
THEOREM StartsSucceed ==
  ASSUME PoliteMaster
  PROVE  Spec => []NoStartFails
<1>1. PoliteInv => NoStartFails
  BY DEF PoliteInv, StartsRight, NoStartFails
<1> QED
  BY <1>1, PoliteInvariant, PTL

(* A slave drives a pin of the harness only in a slot of its own, and then *)
(* the pin of that slot alone, however late its tasks run.                 *)
THEOREM PinsDrivenInOwnSlots ==
  ASSUME PoliteMaster
  PROVE  Spec => []DrivesOnlyInOwnSlot
<1>1. PoliteInv => DrivesOnlyInOwnSlot
  BY DEF PoliteInv, PinsRight, DrivesOnlyInOwnSlot
<1> QED
  BY <1>1, PoliteInvariant, PTL

(* The collector measures one row per slot of the frame and drives one pin *)
(* per slot of its own, for assignments the device has the pins for.       *)
THEOREM CollectorFollowsScheduler ==
  ASSUME PoliteMaster, \A a \in Assignments : a.testCount <= MaxGpioPins
  PROVE  Spec => []CollectorMatchesScheduler
<1>1. PoliteInv => CollectorMatchesScheduler
  <2> SUFFICES ASSUME PoliteInv, isRunning
               PROVE  detections = config.total /\ num = config.count
    BY DEF CollectorMatchesScheduler
  <2>1. CollectorReady
    BY DEF PoliteInv, RunsRight
  <2>2. PICK a \in Assignments : config = SlotConfigOf(a)
    BY DEF PoliteInv, ConfigurationsAgree, TasksInv, SchedulerInv
  <2>3. config.count = a.testCount /\ a.testCount \in Nat
    BY <2>2, AssignmentFacts, Widths DEF SlotConfigOf
  <2>4. ~(a.testCount > MaxGpioPins)
    BY <2>3, CollectorAssumption
  <2> QED
    BY <2>1, <2>3, <2>4 DEF CollectorReady, PinsOf
<1> QED
  BY <1>1, PoliteInvariant, PTL
=============================================================================
