---------------------------- MODULE CollectionProofs ----------------------------
(***************************************************************************)
(* What a collection leaves behind, and what becomes of it, under a polite *)
(* master: the data saved for the backend is that of one run, row by row,  *)
(* however late the tasks run; and when they run in time every collection  *)
(* is complete and all of it reaches the radio.                            *)
(***************************************************************************)
EXTENDS SlaveDeviceProofs

SavedData == backend.lastCollectionData

(* The backend is a record of these fields, and stays one.                 *)
HasFields(b) ==
  DOMAIN b = {"lastCollectionData", "hasDataToSend", "pendingFragments",
              "currentFragmentIndex", "isFragmentSendingInProgress",
              "txBuffer", "txSemaphore", "handed"}

-----------------------------------------------------------------------------
(* What the operations on the backend do to the data it holds.             *)

\* b2 is a backend with the data of b1, or without data.
DataKeptOrDropped(b1, b2) ==
  /\ HasFields(b2)
  /\ b2.lastCollectionData \in {b1.lastCollectionData, NoData}

LEMMA ForgetDrops ==
  ASSUME NEW b, HasFields(b)
  PROVE  /\ DataKeptOrDropped(b, ForgetAll(b))
         /\ DataKeptOrDropped(b, ForgetFragments(b))
  BY DEF HasFields, DataKeptOrDropped, ForgetAll, ForgetFragments

LEMMA HandOverKeeps ==
  ASSUME NEW b, HasFields(b), NEW frame
  PROVE  /\ HasFields(HandOver(b, frame))
         /\ HandOver(b, frame).lastCollectionData = b.lastCollectionData
  BY DEF HasFields, SendData, HandOver

LEMMA AnswerKeeps ==
  ASSUME NEW b, HasFields(b), NEW frame
  PROVE  LET c == SendData(b, frame) IN
         /\ HasFields(c)
         /\ c.lastCollectionData = b.lastCollectionData
         /\ c.hasDataToSend = b.hasDataToSend
         /\ c.pendingFragments = b.pendingFragments
         /\ c.currentFragmentIndex = b.currentFragmentIndex
         /\ c.isFragmentSendingInProgress = b.isFragmentSendingInProgress
         /\ c.handed = b.handed
         /\ c.txBuffer = frame
  BY DEF HasFields, SendData

LEMMA SendFragmentDrops ==
  ASSUME NEW b, HasFields(b), NEW ok
  PROVE  DataKeptOrDropped(b, SendFragment(b, ok))
<1> DEFINE sent == HandOver(b, b.pendingFragments[b.currentFragmentIndex + 1])
           next == b.currentFragmentIndex + 1
<1>1. HasFields(sent) /\ sent.lastCollectionData = b.lastCollectionData
  BY HandOverKeeps
<1>2. DataKeptOrDropped(b, ForgetAll(sent))
  BY <1>1, ForgetDrops DEF DataKeptOrDropped
<1>3. DataKeptOrDropped(b, [sent EXCEPT !.currentFragmentIndex = next])
  <2> HIDE DEF sent, next
  <2> QED
    BY <1>1 DEF DataKeptOrDropped, HasFields
<1>4. DataKeptOrDropped(b, b)
  BY DEF DataKeptOrDropped
<1> QED
  BY <1>2, <1>3, <1>4 DEF SendFragment

LEMMA SendDataToBackendDrops ==
  ASSUME NEW b, HasFields(b), NEW configured, NEW ok
  PROVE  DataKeptOrDropped(b, SendDataToBackend(b, configured, ok))
<1> DEFINE packed == [b EXCEPT !.pendingFragments = Packed(b.lastCollectionData),
                               !.currentFragmentIndex = 0,
                               !.isFragmentSendingInProgress = TRUE]
<1>1. HasFields(packed) /\ packed.lastCollectionData = b.lastCollectionData
  BY DEF HasFields
<1> HIDE DEF packed
<1>2. DataKeptOrDropped(b, SendFragment(packed, ok))
  BY <1>1, SendFragmentDrops DEF DataKeptOrDropped
<1>3. DataKeptOrDropped(b, b)
  BY DEF DataKeptOrDropped
<1> QED
  BY <1>2, <1>3, SendFragmentDrops, ForgetDrops DEF SendDataToBackend, packed

LEMMA SendInSlotDrops ==
  ASSUME NEW b, HasFields(b), NEW active, NEW pin, NEW configured, NEW ok
  PROVE  DataKeptOrDropped(b, SendInSlot(b, active, pin, configured, ok))
<1> DEFINE atPin == [b EXCEPT !.currentFragmentIndex = pin]
<1>1. HasFields(atPin) /\ atPin.lastCollectionData = b.lastCollectionData
  BY DEF HasFields
<1> HIDE DEF atPin
<1>2. DataKeptOrDropped(b, SendDataToBackend(atPin, configured, ok))
  BY <1>1, SendDataToBackendDrops DEF DataKeptOrDropped
<1>3. DataKeptOrDropped(b, b)
  BY DEF DataKeptOrDropped
<1> QED
  BY <1>2, <1>3, SendDataToBackendDrops, ForgetDrops DEF SendInSlot, atPin

(* Only the end of a collection brings data into the backend.              *)
LEMMA SavedDataSteps ==
  ASSUME HasFields(backend), [Next]_vars
  PROVE  /\ HasFields(backend')
         /\ \/ SavedData' \in {SavedData, NoData}
            \/ DcSave /\ IsCollectionComplete /\ SavedData' = dataMatrix
<1> USE DEF SavedData, DataKeptOrDropped
<1>1. CASE UNCHANGED backend
  BY <1>1
<1>2. CASE backend' = ForgetAll(backend)
  BY <1>2, ForgetDrops
<1>3. CASE \/ backend' = HandOver(backend, ResetResponse)
           \/ backend' = SendData(backend, Answer)
  BY <1>3, HandOverKeeps, AnswerKeeps
<1>4. CASE /\ DcSave /\ IsCollectionComplete
           /\ backend' = SaveCollection(backend, dataMatrix)
  BY <1>4 DEF SaveCollection, HasFields
<1>5. CASE \E ok \in SendResults :
             backend' = SendInSlot(backend, IsActive, slotInfo.activePin,
                                   deviceConfigured, ok)
  BY <1>5, SendInSlotDrops
<1>6. CASE \E ok \in SendResults :
             backend' = SendDataToBackend(backend, deviceConfigured, ok)
  BY <1>6, SendDataToBackendDrops
<1>7. CASE backend' = [backend EXCEPT !.txSemaphore = FALSE]
  BY <1>7 DEF HasFields
<1> QED
  BY <1>1, <1>2, <1>3, <1>4, <1>5, <1>6, <1>7, BackendSteps

-----------------------------------------------------------------------------
(* The rows of a collection.                                               *)

MeasuredIn(r, i) == [run |-> r, slot |-> i - 1]

\* The first n rows are those of the first n slots of this run.
Aligned(n) == \A i \in 1..n : dataMatrix[i] = MeasuredIn(run, i)

(* Either every slot so far has its row, or the rows stay behind the slots *)
(* for the rest of the run, and the collection does not complete.          *)
RowsRight ==
  /\ HasFields(backend)
  /\ dc.pc \in {"startCollector", "startScheduler"} \/ isRunning =>
       Len(dataMatrix) = detections
  /\ dc.pc = "settle" => dc.row = [run |-> run, slot |-> slotInfo.currentSlot]
  /\ isRunning /\ status = "RUNNING" =>
       \/ Aligned(currentCycle)
       \/ /\ currentCycle <= slotInfo.currentSlot
          /\ dc.pc \in {"slot", "settle"} => currentCycle < slotInfo.currentSlot
  /\ dc.pc = "save" /\ status = "COMPLETED" => Aligned(detections)

RowsInv ==
  /\ PoliteInv
  /\ RowsRight
  /\ isRunning => run # 0
  /\ SavedDataCoherent

\* What RowsRight says of the rows, without the backend.
rowVars == <<dataMatrix, detections, currentCycle, status, run, slotInfo>>

(* Outside of a start and of a slot only the run itself matters.           *)
LEMMA RowsKept ==
  ASSUME RowsRight, HasFields(backend'), UNCHANGED rowVars,
         isRunning' => isRunning,
         dc'.pc \notin {"startCollector", "startScheduler", "slot", "settle", "save"}
  PROVE  RowsRight'
  BY DEF RowsRight, rowVars, Aligned

LEMMA BlankLength ==
  ASSUME NEW n \in Nat
  PROVE  Len(BlankMatrix(n)) = n
  BY DEF BlankMatrix

(* The handler works, and messages come, only while nothing runs.          *)
LEMMA RowsNothingRuns ==
  ASSUME HasFields(backend'), dc'.pc \in Quiet, ~isRunning'
  PROVE  RowsRight'
  BY DEF RowsRight, Quiet

LEMMA HandlerWhileStopped ==
  ASSUME PoliteMaster, PoliteInv, HandlerReceive \/ Handler
  PROVE  /\ dc' = dc /\ dc.pc \in Quiet
         /\ ~isRunning /\ ~isRunning'
         /\ UNCHANGED <<tick, run, isCollecting>>
<1>1. dc' = dc
  BY DEF HandlerReceive, Handler, HandlerSync, HandlerForget, HandlerAdopt,
    HandlerSchedule, HandlerConfigureCollector, HandlerStop,
    HandlerConfigureScheduler, HandlerDecide, HandlerStartCollector,
    HandlerStartScheduler, HandlerRunning
<1>2. dc.pc \in Quiet /\ ~isRunning
  <2>1. CASE HandlerReceive
    <3>1. ~isRunning /\ ~isScheduledToStart
      BY <2>1 DEF HandlerReceive, PoliteMaster
    <3> QED
      BY <3>1, PoliteTypes DEF PoliteInv, StartsRight, RunsRight, Quiet,
        Starting, InSlot, CollectionPlaces
  <2>2. CASE Handler
    <3>1. hd.pc # "idle"
      BY <2>2 DEF Handler, HandlerSync, HandlerForget, HandlerAdopt,
        HandlerSchedule, HandlerConfigureCollector, HandlerStop,
        HandlerConfigureScheduler, HandlerDecide, HandlerStartCollector,
        HandlerStartScheduler, HandlerRunning
    <3> QED
      BY <3>1 DEF PoliteInv, HandlerAlone
  <2> QED
    BY <2>1, <2>2
<1>3. ~HandlerStartScheduler /\ ~HandlerRunning
  BY DEF HandlerStartScheduler, HandlerRunning, PoliteInv, HandlerAlone
<1>4. ~isRunning'
  <2>1. CASE HandlerStop \/ HandlerConfigureScheduler
    BY <1>2, <2>1 DEF HandlerStop, Stop, HandlerConfigureScheduler, Configure, smVars
  <2>2. CASE ~(HandlerStop \/ HandlerConfigureScheduler)
    BY <1>2, <1>3, <2>2 DEF HandlerReceive, Handler, HandlerSync, HandlerForget,
      HandlerAdopt, HandlerSchedule, HandlerConfigureCollector, HandlerDecide,
      HandlerStartCollector, smVars
  <2> QED
    BY <2>1, <2>2
<1>5. UNCHANGED <<tick, run, isCollecting>>
  BY <1>3 DEF HandlerReceive, Handler, HandlerSync, HandlerForget, HandlerAdopt,
    HandlerSchedule, HandlerConfigureCollector, HandlerStop,
    HandlerConfigureScheduler, HandlerDecide, HandlerStartCollector, devVars, clock,
    history
<1> QED
  BY <1>1, <1>2, <1>4, <1>5

LEMMA RowsHandler ==
  ASSUME PoliteMaster, RowsInv, HandlerReceive \/ Handler, HasFields(backend')
  PROVE  RowsRight'
  BY HandlerWhileStopped, RowsNothingRuns DEF RowsInv

(* DataCollectionTask outside of a run's slots.                            *)
LEMMA RowsQuietRound ==
  ASSUME PoliteMaster, RowsInv, HasFields(backend'),
         DcWake \/ DcCheck \/ DcObserve \/ DcStopDetect \/ DcProcessNothing
           \/ DcProcessCycleEnd
  PROVE  RowsRight'
<1>1. /\ UNCHANGED rowVars
      /\ isRunning' => isRunning
  BY DEF DcWake, DcCheck, DcObserve, DcStopDetect, DcProcessNothing, DcProcessCycleEnd,
    ProcessCycleEnd, SetAllPinsToInputMode, smVars, colVars, history, rowVars
<1>2. dc'.pc \in {"check", "collector", "observe", "stopped", "process", "sleep"}
  <2> DEFINE wake == tick + 1
             seen == dc.running
  <2>1. \/ dc' = [dc EXCEPT !.pc = "check"]
        \/ dc' = [dc EXCEPT !.pc = "collector"]
        \/ dc' = [dc EXCEPT !.pc = "observe"]
        \/ dc' = [dc EXCEPT !.pc = "stopped", !.running = isRunning]
        \/ dc' = [dc EXCEPT !.pc = "process", !.wasRunning = seen]
        \/ dc' = [dc EXCEPT !.pc = "sleep", !.wake = wake]
    BY DEF DcWake, DcCheck, DcObserve, DcStopDetect, DcProcessNothing,
      DcProcessCycleEnd, DcGoto, DcSleepFor
  <2> HIDE DEF wake, seen
  <2> QED
    BY <2>1, PoliteTypes DEF RowsInv, CollectionState
<1> QED
  BY <1>1, <1>2, RowsKept DEF RowsInv

LEMMA RowsStart ==
  ASSUME PoliteMaster, RowsInv, HasFields(backend'),
         DcConfigureCollector \/ DcStartCollector \/ DcStartScheduler \/ DcStarted
  PROVE  RowsRight'
<1>1. dc \in CollectionState
  BY PoliteTypes DEF RowsInv
<1>2. CASE DcConfigureCollector
  <2>1. ~isRunning /\ isRunning' = isRunning
    BY <1>2 DEF DcConfigureCollector, RowsInv, PoliteInv, StartsRight, smVars
  <2>2. CASE dc' = [dc EXCEPT !.pc = "failed"]
    <3>1. dc'.pc = "failed"
      BY <2>2, <1>1 DEF CollectionState
    <3> QED
      BY <2>1, <3>1 DEF RowsRight
  <2>3. CASE /\ ConfigureCollector(currentConfig.testCount, config.total)
             /\ dc' = [dc EXCEPT !.pc = "startCollector"]
    <3>1. dc'.pc = "startCollector"
      BY <2>3, <1>1 DEF CollectionState
    <3>2. RowsOf(config.total) \in Nat
      BY PoliteTypes, CollectorAssumption DEF RowsInv, RowsOf
    <3>3. Len(dataMatrix') = detections'
      BY <2>3, <3>2, BlankLength DEF ConfigureCollector
    <3> QED
      BY <2>1, <3>1, <3>3 DEF RowsRight
  <2> QED
    BY <1>2, <2>2, <2>3 DEF DcConfigureCollector, DcGoto
<1>3. CASE DcStartCollector
  <2>1. ~isRunning /\ isRunning' = isRunning
    BY <1>3 DEF DcStartCollector, RowsInv, PoliteInv, StartsRight, smVars
  <2>2. /\ dc.pc = "startCollector" /\ UNCHANGED <<dataMatrix, detections>>
        /\ \/ dc' = [dc EXCEPT !.pc = "startScheduler"]
           \/ dc' = [dc EXCEPT !.pc = "failed"]
    BY <1>3 DEF DcStartCollector, StartCollection, DcGoto, colVars
  <2>3. dc'.pc \in {"startScheduler", "failed"}
    BY <2>2, <1>1 DEF CollectionState
  <2> QED
    BY <2>1, <2>2, <2>3 DEF RowsInv, RowsRight
<1>4. CASE DcStartScheduler
  <2>1. /\ dc.pc = "startScheduler" /\ ~isRunning /\ currentCycle = 0
        /\ Len(dataMatrix) = detections
    BY <1>4 DEF DcStartScheduler, RowsInv, PoliteInv, StartsRight, RowsRight
  <2>2. /\ UNCHANGED <<dataMatrix, detections, currentCycle>>
        /\ \/ dc' = [dc EXCEPT !.pc = "running"]
           \/ dc' = [dc EXCEPT !.pc = "failed"]
    BY <1>4 DEF DcStartScheduler, DcGoto, colVars
  <2>3. dc'.pc \in {"running", "failed"}
    BY <2>2, <1>1 DEF CollectionState
  <2>4. Aligned(currentCycle)'
    BY <2>1, <2>2 DEF Aligned
  <2> QED
    BY <2>1, <2>2, <2>3, <2>4 DEF RowsRight
<1>5. CASE DcStarted
  <2>1. UNCHANGED rowVars /\ isRunning' = isRunning
        /\ dc' = [dc EXCEPT !.pc = "observe"]
    BY <1>5 DEF DcStarted, DcGoto, smVars, colVars, history, rowVars
  <2>2. dc'.pc = "observe"
    BY <2>1, <1>1 DEF CollectionState
  <2> QED
    BY <2>1, <2>2, RowsKept DEF RowsInv
<1> QED
  BY <1>2, <1>3, <1>4, <1>5

(* A slot is entered: a row that is missing from now on is missing for good.*)
LEMMA RowsEnterSlot ==
  ASSUME PoliteMaster, RowsInv, HasFields(backend'), DcProcessSlot
  PROVE  RowsRight'
<1>1. /\ isRunning /\ dc \in CollectionState
      /\ UNCHANGED <<dataMatrix, detections, currentCycle, status, run>>
      /\ isRunning' = isRunning
  BY PoliteTypes DEF RowsInv, DcProcessSlot, ProcessFirst, ProcessSwitch, colVars, history
<1>2. dc'.pc = "slot"
  <2> DEFINE ends == SwitchEndsCycle(SyncTime)
  <2>1. \/ dc' = [dc EXCEPT !.pc = "slot", !.endsCycle = FALSE]
        \/ dc' = [dc EXCEPT !.pc = "slot", !.endsCycle = ends]
    BY DEF DcProcessSlot
  <2> HIDE DEF ends
  <2> QED
    BY <2>1, <1>1 DEF CollectionState
<1>3. Len(dataMatrix) = detections
  BY <1>1 DEF RowsInv, RowsRight
<1>4. \/ Aligned(currentCycle)
      \/ status # "RUNNING"
      \/ currentCycle < slotInfo'.currentSlot
  <2>1. CASE ProcessFirst
    <3>1. status = "RUNNING" /\ currentCycle = 0
      BY <2>1, <1>1 DEF ProcessFirst, RowsInv, PoliteInv, RunsRight
    <3> QED
      BY <3>1 DEF Aligned
  <2>2. CASE ProcessSwitch(SyncTime)
    <3>1. /\ ~cycleCompleted /\ SlotReached
          /\ ClockExact(SyncTime) /\ config.single /\ slotInfo.currentSlot \in Nat
          /\ currentCycle \in Nat
      BY <1>1, PoliteClock, PoliteTypes DEF RowsInv, PoliteInv, RunsRight
    <3>2. /\ slotInfo'.currentSlot \in Nat
          /\ slotInfo'.currentSlot > slotInfo.currentSlot
      BY <2>2, <3>1, SwitchForward DEF SlotReached
    <3> QED
      BY <1>1, <3>1, <3>2 DEF RowsInv, RowsRight
  <2> QED
    BY <2>1, <2>2 DEF DcProcessSlot
<1>5. Aligned(currentCycle) => Aligned(currentCycle)'
  BY <1>1 DEF Aligned
<1>6. currentCycle < slotInfo'.currentSlot => currentCycle <= slotInfo'.currentSlot
  <2>1. slotInfo'.currentSlot \in Nat
    BY SchedulerNext, Widths DEF RowsInv, PoliteInv, SchedulerInv, SMTypeOK, SlotInfo,
      Next, DataCollection
  <2> QED
    BY <2>1, PoliteTypes DEF RowsInv
<1> QED
  BY <1>1, <1>2, <1>3, <1>4, <1>5, <1>6 DEF RowsRight

(* The row of the slot is measured: into its own place if none is missing, *)
(* and otherwise it is not the last.                                       *)
LEMMA RowsMeasure ==
  ASSUME PoliteMaster, RowsInv, HasFields(backend'), DcMeasure
  PROVE  RowsRight'
<1> DEFINE s == slotInfo.currentSlot
           c == currentCycle
<1>1. /\ dc.pc = "settle" /\ isRunning /\ status = "RUNNING"
      /\ c <= s /\ s < detections
      /\ dc.row = MeasuredIn(run, s + 1) /\ Len(dataMatrix) = detections
      /\ Aligned(c) \/ c < s
  <2>1. dc.pc = "settle" /\ isRunning
    BY DEF DcMeasure, RowsInv, PoliteInv, RunsRight, InSlot
  <2>2. status = "RUNNING" /\ c <= s /\ s < detections
    BY <2>1 DEF RowsInv, PoliteInv, RunsRight, CollectorReady
  <2>3. dc.row = MeasuredIn(run, s + 1)
    BY <2>1, PoliteTypes DEF RowsInv, RowsRight, MeasuredIn
  <2> QED
    BY <2>1, <2>2, <2>3 DEF RowsInv, RowsRight
<1>2. /\ c \in Nat /\ s \in Nat /\ detections \in Nat /\ run \in Nat
      /\ dc \in CollectionState /\ dataMatrix \in Rows
  BY PoliteTypes DEF RowsInv, PoliteInv, TasksInv, CollectorInv, DataCollectionInv
<1>3. /\ dataMatrix' = [dataMatrix EXCEPT ![c + 1] = dc.row]
      /\ currentCycle' = c + 1
      /\ status' = IF c + 1 >= detections THEN "COMPLETED" ELSE "RUNNING"
      /\ UNCHANGED <<detections, run, slotInfo, isRunning>>
  BY <1>1, <1>2 DEF DcMeasure, MeasureSlot, smVars, history
<1>4. dc'.pc = "save"
  BY <1>2 DEF DcMeasure, DcGoto, CollectionState
<1>5. DOMAIN dataMatrix = 1 .. detections /\ Len(dataMatrix') = detections
  <2>1. DOMAIN dataMatrix = 1 .. detections
    BY <1>1, <1>2 DEF Rows
  <2>2. dataMatrix' \in Rows /\ DOMAIN dataMatrix' = 1 .. detections
    <3>1. c + 1 \in 1 .. detections /\ dc.row \in Row
      BY <1>1, <1>2 DEF CollectionState
    <3> QED
      BY <1>2, <1>3, <2>1, <3>1 DEF Rows, Row
  <2> QED
    BY <1>2, <2>1, <2>2 DEF Rows
<1>6. CASE Aligned(c) /\ c = s
  <2>1. ASSUME NEW i \in 1 .. c + 1
        PROVE  dataMatrix'[i] = MeasuredIn(run, i)
    <3>1. CASE i = c + 1
      BY <1>1, <1>2, <1>3, <1>5, <1>6, <3>1
    <3>2. CASE i # c + 1
      <4>1. i \in 1 .. c /\ i \in 1 .. detections
        BY <1>1, <1>2, <3>2
      <4> QED
        BY <1>3, <1>5, <1>6, <3>2, <4>1 DEF Aligned
    <3> QED
      BY <3>1, <3>2
  <2>2. Aligned(currentCycle)'
    BY <1>3, <2>1 DEF Aligned, MeasuredIn
  <2>3. status' = "COMPLETED" => currentCycle' = detections'
    BY <1>1, <1>2, <1>3
  <2> QED
    BY <1>1, <1>3, <1>4, <1>5, <2>2, <2>3 DEF RowsRight
<1>7. CASE c < s
  <2>1. status' = "RUNNING" /\ currentCycle' <= s
    BY <1>1, <1>2, <1>3, <1>7
  <2> QED
    BY <1>1, <1>3, <1>4, <1>5, <2>1 DEF RowsRight
<1>8. (Aligned(c) /\ c = s) \/ c < s
  <2> HIDE DEF c, s
  <2> QED
    BY <1>1, <1>2
<1> QED
  BY <1>6, <1>7, <1>8

(* The rest of a slot: the rows leave the collector only once they are all *)
(* there.                                                                  *)
LEMMA RowsInSlot ==
  ASSUME PoliteMaster, RowsInv, HasFields(backend'),
         DcSlotIdle \/ DcSlot \/ DcMeasure \/ DcSave \/ DcSend \/ DcBurst \/ DcAfter
  PROVE  RowsRight'
<1>1. /\ dc.pc \in InSlot /\ dc \in CollectionState
      /\ isRunning /\ isCollecting
      /\ UNCHANGED <<isRunning, slotInfo, run>>
      /\ Len(dataMatrix) = detections
  <2>1. dc.pc \in InSlot /\ UNCHANGED <<isRunning, slotInfo, run>>
    BY DEF DcSlotIdle, DcSlot, DcMeasure, DcSave, DcSend, DcBurst, DcAfter, InSlot,
      smVars, history
  <2>2. isRunning /\ isCollecting
    BY <2>1 DEF RowsInv, PoliteInv, RunsRight
  <2> QED
    BY <2>1, <2>2, PoliteTypes DEF RowsInv, RowsRight
<1>2. ~DcSlotIdle
  BY <1>1 DEF DcSlotIdle
<1>3. CASE DcSlot
  <2> DEFINE wake == tick + SettleTime
             row == [run |-> run, slot |-> slotInfo.currentSlot]
  <2>1. status = "RUNNING" /\ currentCycle <= slotInfo.currentSlot
    BY <1>1, <1>3 DEF DcSlot, RowsInv, PoliteInv, RunsRight
  <2>2. CanMeasure
    BY <1>1, <2>1, PoliteTypes DEF CanMeasure, RowsInv, PoliteInv, RunsRight, CollectorReady
  <2>3. /\ dc.pc = "slot" /\ UNCHANGED rowVars
        /\ dc' = [dc EXCEPT !.pc = "settle", !.wake = wake, !.row = row]
    BY <1>1, <1>3, <2>2 DEF DcSlot, IgnoreSlot, DrivePins, rowVars
  <2> HIDE DEF wake
  <2>4. dc'.pc = "settle" /\ dc'.row = row
    <3> HIDE DEF row
    <3> QED
      BY <2>3, <1>1 DEF CollectionState
  <2>5. Aligned(currentCycle) \/ currentCycle < slotInfo.currentSlot
    BY <1>1, <2>1, <2>3 DEF RowsInv, RowsRight
  <2>6. Aligned(currentCycle)' <=> Aligned(currentCycle)
    BY <2>3 DEF rowVars, Aligned
  <2> QED
    BY <1>1, <2>1, <2>3, <2>4, <2>5, <2>6 DEF RowsRight, rowVars
<1>4. CASE DcSave
  <2>1. dc.pc = "save" /\ dc'.pc = "send"
    BY <1>4, <1>1 DEF DcSave, DcGoto, CollectionState
  <2>2. CASE IsCollectionComplete
    <3>1. /\ status' = "COMPLETED" /\ detections' = detections
          /\ dataMatrix' = BlankMatrix(Len(dataMatrix))
      BY <1>4, <2>2 DEF DcSave, ClearData, IsCollectionComplete
    <3>2. Len(dataMatrix') = detections'
      BY <1>1, <3>1, BlankLength, PoliteTypes DEF RowsInv
    <3> QED
      BY <2>1, <3>1, <3>2 DEF RowsRight
  <2>3. CASE ~IsCollectionComplete
    <3>1. UNCHANGED rowVars
      BY <1>1, <1>4, <2>3 DEF DcSave, colVars, rowVars
    <3> QED
      BY <1>1, <2>1, <3>1, RowsKept DEF RowsInv
  <2> QED
    BY <2>2, <2>3
<1>5. CASE DcSend \/ DcBurst \/ DcAfter
  <2>1. UNCHANGED rowVars
    BY <1>1, <1>5 DEF DcSend, DcBurst, DcAfter, SetAllPinsToInputMode, colVars, rowVars
  <2>2. dc'.pc \in {"burst", "after", "sleep"}
    <3> DEFINE next == tick + 1
    <3>1. \/ dc' = [dc EXCEPT !.pc = "burst"]
          \/ dc' = [dc EXCEPT !.pc = "after"]
          \/ dc' = dc /\ dc.pc = "burst"
          \/ dc' = [dc EXCEPT !.pc = "sleep", !.wake = next]
      BY <1>5 DEF DcSend, DcBurst, DcAfter, DcGoto, DcSleepFor
    <3> HIDE DEF next
    <3> QED
      BY <3>1, <1>1 DEF CollectionState
  <2> QED
    BY <1>1, <2>1, <2>2, RowsKept DEF RowsInv
<1> QED
  BY <1>2, <1>3, <1>4, <1>5, RowsMeasure

LEMMA RowsNext ==
  ASSUME PoliteMaster, RowsInv, [Next]_vars
  PROVE  RowsRight'
<1>1. HasFields(backend')
  BY SavedDataSteps DEF RowsInv, RowsRight
<1>2. CASE HandlerReceive \/ Handler
  BY <1>1, <1>2, RowsHandler
<1>3. CASE DataCollection
  BY <1>1, <1>3, RowsQuietRound, RowsStart, RowsEnterSlot, RowsInSlot DEF DataCollection
<1>4. CASE Tick \/ TimeUp \/ HandlerAnswers \/ Radio \/ UNCHANGED vars
  <2>1. UNCHANGED <<dataMatrix, detections, currentCycle, status, run, slotInfo,
                    isRunning, dc>>
    BY <1>4 DEF Tick, TimeUp, HandlerAnswers, Radio, RadioTake, RadioTransmit, vars, smVars, colVars,
      history
  <2> QED
    BY <1>1, <2>1 DEF RowsInv, RowsRight, Aligned
<1> QED
  BY <1>2, <1>3, <1>4 DEF Next

-----------------------------------------------------------------------------
(* What is saved is a whole run.                                           *)

LEMMA RunOnlyGrows ==
  ASSUME [Next]_vars
  PROVE  run' = run + 1 \/ (run' = run /\ (isRunning' => isRunning))
<1> USE DEF smVars, history
<1>1. CASE HandlerReceive \/ Handler
  BY <1>1 DEF HandlerReceive, Handler, HandlerSync, HandlerForget, HandlerAdopt,
    HandlerSchedule, HandlerConfigureCollector, HandlerStop, Stop,
    HandlerConfigureScheduler, Configure, HandlerDecide, HandlerStartCollector,
    HandlerStartScheduler, HandlerRunning, StartScheduler
<1>2. CASE DataCollection
  <2>1. CASE DcStartScheduler
    BY <2>1 DEF DcStartScheduler, StartScheduler
  <2>2. CASE DcProcessCycleEnd \/ DcProcessSlot
    BY <2>2 DEF DcProcessCycleEnd, DcProcessSlot, ProcessCycleEnd, ProcessFirst,
      ProcessSwitch
  <2>3. CASE ~(DcStartScheduler \/ DcProcessCycleEnd \/ DcProcessSlot)
    BY <1>2, <2>3 DEF DataCollection, DcWake, DcCheck, DcConfigureCollector,
      DcStartCollector, DcStarted, DcObserve, DcStopDetect,
      DcProcessNothing, DcSlotIdle, DcSlot, DcMeasure, DcSave, DcSend, DcBurst, DcAfter
  <2> QED
    BY <2>1, <2>2, <2>3
<1>3. CASE Tick \/ TimeUp \/ HandlerAnswers \/ Radio \/ UNCHANGED vars
  BY <1>3 DEF Tick, TimeUp, HandlerAnswers, Radio, RadioTake, RadioTransmit, vars
<1> QED
  BY <1>1, <1>2, <1>3 DEF Next

\* The rows are those of one of the first n runs.
OfOneRun(data, n) ==
  \E r \in 1..n : \A i \in DOMAIN data : data[i] = [run |-> r, slot |-> i - 1]

LEMMA OfOneRunKept ==
  ASSUME NEW data, NEW n \in Nat, NEW m \in Nat, n <= m, OfOneRun(data, n)
  PROVE  OfOneRun(data, m)
<1>1. PICK r \in 1..n : \A i \in DOMAIN data : data[i] = [run |-> r, slot |-> i - 1]
  BY DEF OfOneRun
<1>2. r \in 1..m
  OBVIOUS
<1> QED
  BY <1>1, <1>2 DEF OfOneRun

LEMMA CoherentNext ==
  ASSUME PoliteMaster, RowsInv, [Next]_vars
  PROVE  SavedDataCoherent'
<1>1. /\ run \in Nat /\ run' \in Nat /\ run <= run'
      /\ SavedData # NoData => OfOneRun(SavedData, run)
  <2>1. run \in Nat
    BY DEF RowsInv, PoliteInv, TasksInv, DataCollectionInv
  <2> QED
    BY <2>1, RunOnlyGrows DEF RowsInv, SavedDataCoherent, SavedData, OfOneRun
<1>2. SavedData' # NoData => OfOneRun(SavedData', run')
  <2>1. CASE SavedData' \in {SavedData, NoData}
    BY <1>1, <2>1, OfOneRunKept
  <2>2. CASE DcSave /\ IsCollectionComplete /\ SavedData' = dataMatrix
    <3>1. dc.pc = "save" /\ status = "COMPLETED"
      BY <2>2 DEF DcSave, IsCollectionComplete
    <3>2. /\ isRunning /\ Aligned(detections) /\ Len(dataMatrix) = detections
          /\ dataMatrix \in Rows
      BY <3>1 DEF RowsInv, RowsRight, PoliteInv, RunsRight, InSlot, TasksInv, CollectorInv
    <3>3. DOMAIN dataMatrix = 1 .. detections
      BY <3>2 DEF Rows
    <3>4. \A i \in DOMAIN dataMatrix : dataMatrix[i] = [run |-> run, slot |-> i - 1]
      BY <3>2, <3>3 DEF Aligned, MeasuredIn
    <3>5. run \in 1 .. run
      BY <1>1, <3>2 DEF RowsInv
    <3> QED
      BY <1>1, <2>2, <3>4, <3>5, OfOneRunKept DEF OfOneRun
  <2> QED
    BY <2>1, <2>2, SavedDataSteps DEF RowsInv, RowsRight
<1> QED
  BY <1>2 DEF SavedDataCoherent, SavedData, OfOneRun

LEMMA RowsInvInit == Init => RowsInv
<1> SUFFICES ASSUME Init PROVE RowsInv
  OBVIOUS
<1>1. PoliteInv
  BY PoliteInvInit
<1>2. ~isRunning /\ dc.pc = "check" /\ HasFields(backend)
      /\ backend.lastCollectionData = NoData
  BY DEF Init, SMInit, BackendInit, HasFields
<1> QED
  BY <1>1, <1>2 DEF RowsInv, RowsRight, SavedDataCoherent

LEMMA RowsInvNext ==
  ASSUME PoliteMaster, RowsInv, [Next]_vars
  PROVE  RowsInv'
<1>1. PoliteInv'
  BY PoliteInvNext DEF RowsInv
<1>2. isRunning' => run' # 0
  <2>1. run \in Nat
    BY DEF RowsInv, PoliteInv, TasksInv, DataCollectionInv
  <2> QED
    BY <2>1, RunOnlyGrows DEF RowsInv
<1> QED
  BY <1>1, <1>2, RowsNext, CoherentNext DEF RowsInv

(* The data cached for the backend holds the measurements of one run, each *)
(* in the row of its slot, however late the tasks run: a collection with a *)
(* slot passed over never completes.                                       *)
THEOREM SavedDataIsCoherent ==
  ASSUME PoliteMaster
  PROVE  Spec => []SavedDataCoherent
<1>1. RowsInv /\ [Next]_vars => RowsInv'
  BY RowsInvNext
<1>2. RowsInv => SavedDataCoherent
  BY DEF RowsInv
<1> QED
  BY <1>1, <1>2, RowsInvInit, PTL DEF Spec

-----------------------------------------------------------------------------
(* Tasks in time.  A task is through with its work before the next tick,   *)
(* and a slot lasts longer than the pins need to settle; then no slot is   *)
(* passed over.                                                            *)
PromptTasks ==
  /\ MaxLag = 0
  /\ SendResults = {TRUE}
  /\ \A a \in Assignments : a.mode \in KnownModes => a.interval > SettleTime

(* A slave has a slot of its own for every fragment of its data, before    *)
(* the one at whose end the next data is saved.                            *)
FragmentsFitSlots ==
  /\ NoData \notin Rows
  /\ \A a \in Assignments, data \in Rows :
       a.mode \in KnownModes /\ Len(data) = a.total =>
         /\ FragmentCount(data) \in 1 .. a.testCount
         /\ a.startSlot + a.testCount = a.total /\ a.testCount > 1
              => FragmentCount(data) < a.testCount

InTime == PoliteMaster /\ PromptTasks /\ FragmentsFitSlots

\* When DataCollectionTask looks at the clock next.
NextPoll ==
  CASE dc.pc = "sleep"  -> dc.wake
    [] dc.pc = "settle" -> dc.wake + 1
    [] dc.pc = "slot"   -> tick + SettleTime + 1
    [] dc.pc \in {"save", "send", "burst", "after"} -> tick + 1
    [] OTHER -> tick

\* It looks before the slot after the next one begins.
TimesRight ==
  /\ dc.pc \in {"sleep", "settle"} => tick <= dc.wake
  /\ isRunning =>
       NextPoll + timeOffset < startTime + (slotInfo.currentSlot + 2) * config.interval
  /\ isRunning /\ isFirstProcess =>
       /\ dc.pc \in {"running", "observe", "stopped", "process"}
       /\ SyncTime < startTime + config.interval

\* The slots that have been measured.
MeasuredSlots ==
  IF isFirstProcess \/ dc.pc \in {"slot", "settle"}
    THEN slotInfo.currentSlot ELSE slotInfo.currentSlot + 1

NoSlotPassedOver ==
  isRunning =>
    \/ /\ status = "RUNNING"
       /\ currentCycle = MeasuredSlots /\ currentCycle < detections
    \/ /\ status = "COMPLETED"
       /\ slotInfo.currentSlot = config.total - 1

TimedInv == RowsInv /\ TimesRight /\ NoSlotPassedOver

LEMMA FrameFacts ==
  ASSUME InTime, PoliteInv, isConfigured
  PROVE  /\ config.total \in Nat \ {0} /\ config.count \in Nat \ {0}
         /\ config.startSlot \in Nat /\ config.interval \in Nat \ {0}
         /\ config.startSlot + config.count <= config.total
         /\ config.interval > SettleTime
         /\ \A data \in Rows : Len(data) = config.total =>
              /\ FragmentCount(data) \in 1 .. config.count
              /\ config.startSlot + config.count = config.total /\ config.count > 1
                   => FragmentCount(data) < config.count
<1>1. PICK a \in Assignments : a.mode \in KnownModes /\ config = SlotConfigOf(a)
  BY DEF PoliteInv, ConfigurationsAgree
<1>2. /\ config.total = a.total /\ config.count = a.testCount
      /\ config.startSlot = a.startSlot /\ config.interval = a.interval
  BY <1>1 DEF SlotConfigOf
<1>3. /\ a.testCount > 0 /\ a.total > 0 /\ a.interval > 0
      /\ a.startSlot + a.testCount <= a.total
  BY <1>1 DEF InTime, PoliteMaster
<1>4. a.interval > SettleTime
  BY <1>1 DEF InTime, PromptTasks
<1>5. a.total \in Nat /\ a.testCount \in Nat /\ a.startSlot \in Nat /\ a.interval \in Nat
  BY <1>1, AssignmentFacts, Widths
<1>6. \A data \in Rows : Len(data) = a.total =>
        /\ FragmentCount(data) \in 1 .. a.testCount
        /\ a.startSlot + a.testCount = a.total /\ a.testCount > 1
             => FragmentCount(data) < a.testCount
  BY <1>1 DEF InTime, FragmentsFitSlots
<1> QED
  BY <1>2, <1>3, <1>4, <1>5, <1>6

(* A slot that ends within the bound is followed by the very next one.     *)
LEMMA NextSlotOnly ==
  ASSUME NEW s \in Nat, NEW q \in Nat, NEW n \in Nat \ {0}, NEW e \in Nat,
         e < (s + 2) * n, q * n <= e
  PROVE  q <= s + 1
<1>1. (s + 1) * n \in Nat /\ (s + 2) * n = (s + 1) * n + n /\ q * n \in Nat
  BY SMTT(30)
<1>2. CASE q >= s + 2
  <2>1. q * n >= (s + 2) * n
    BY <1>2, SMTT(30)
  <2>2. (s + 2) * n \in Nat
    BY SMTT(30)
  <2> QED
    BY <1>1, <2>1, <2>2
<1> QED
  BY <1>2

-----------------------------------------------------------------------------
(* The times.                                                              *)

\* The end of the slot after the present one.
NextSlotEnd == startTime + (slotInfo.currentSlot + 2) * config.interval

LEMMA NextPollTyped ==
  ASSUME dc \in CollectionState, tick \in Nat
  PROVE  NextPoll \in Nat
<1>1. dc.wake \in Nat /\ SettleTime \in Nat
  BY SlaveDeviceAssumption DEF CollectionState
<1> QED
  BY <1>1 DEF NextPoll

(* DataCollectionTask moves on within a round: it does not look at the     *)
(* clock any later than it would have.                                     *)
LEMMA NextPollKept ==
  ASSUME InTime, RowsInv, TimesRight,
         \/ DcWake \/ DcCheck \/ DcConfigureCollector \/ DcStartCollector
         \/ DcStarted \/ DcObserve \/ DcStopDetect
         \/ DcSlotIdle \/ DcSlot \/ DcMeasure \/ DcSave \/ DcSend \/ DcBurst \/ DcAfter
  PROVE  /\ UNCHANGED <<smVars, tick, timeOffset>>
         /\ NextPoll' <= NextPoll
         /\ dc'.pc \in {"sleep", "settle"} => tick <= dc'.wake
         /\ dc.pc \in {"running", "observe", "stopped"} =>
              dc'.pc \in {"observe", "stopped", "process"}
<1>1. UNCHANGED <<smVars, tick, timeOffset>>
  BY DEF DcWake, DcCheck, DcConfigureCollector, DcStartCollector, DcStarted, DcObserve,
    DcStopDetect, DcSlotIdle, DcSlot, DcMeasure, DcSave, DcSend, DcBurst, DcAfter,
    devVars, clock
<1>2. /\ dc \in CollectionState /\ tick \in Nat /\ tick' = tick /\ dc.wake \in Nat
      /\ SettleTime \in Nat \ {0}
      /\ dc.pc \in {"sleep", "settle"} => tick <= dc.wake
  BY <1>1, PoliteTypes, SlaveDeviceAssumption DEF RowsInv, TimesRight, CollectionState
<1> DEFINE next == tick + 1
           settled == tick + SettleTime
           seen == dc.running
           row == [run |-> run, slot |-> slotInfo.currentSlot]
<1>3. CASE DcWake \/ DcCheck \/ DcConfigureCollector \/ DcStartCollector \/ DcStarted
             \/ DcObserve \/ DcStopDetect
  <2>1. \/ /\ dc.pc = "sleep" /\ dc.wake <= tick /\ dc' = [dc EXCEPT !.pc = "check"]
        \/ /\ dc.pc = "check"
           /\ \/ dc' = [dc EXCEPT !.pc = "collector"]
              \/ dc' = [dc EXCEPT !.pc = "observe"]
        \/ /\ dc.pc = "collector"
           /\ \/ dc' = [dc EXCEPT !.pc = "startCollector"]
              \/ dc' = [dc EXCEPT !.pc = "failed"]
        \/ /\ dc.pc = "startCollector"
           /\ \/ dc' = [dc EXCEPT !.pc = "startScheduler"]
              \/ dc' = [dc EXCEPT !.pc = "failed"]
        \/ dc.pc \in {"running", "failed"} /\ dc' = [dc EXCEPT !.pc = "observe"]
        \/ dc.pc = "observe" /\ dc' = [dc EXCEPT !.pc = "stopped", !.running = isRunning]
        \/ dc.pc = "stopped" /\ dc' = [dc EXCEPT !.pc = "process", !.wasRunning = seen]
    BY <1>3 DEF DcWake, DcCheck, DcConfigureCollector, DcStartCollector, DcStarted,
      DcObserve, DcStopDetect, DcGoto
  <2> HIDE DEF seen
  <2>2. \/ dc.pc = "sleep" /\ dc.wake <= tick /\ dc'.pc = "check"
        \/ dc.pc = "check" /\ dc'.pc \in {"collector", "observe"}
        \/ dc.pc \in {"collector", "startCollector"}
             /\ dc'.pc \in {"startCollector", "startScheduler", "failed"}
        \/ dc.pc \in {"running", "failed"} /\ dc'.pc = "observe"
        \/ dc.pc = "observe" /\ dc'.pc = "stopped"
        \/ dc.pc = "stopped" /\ dc'.pc = "process"
    BY <2>1, <1>2 DEF CollectionState
  <2>3. NextPoll = tick /\ NextPoll' = tick
    BY <2>2, <1>2 DEF NextPoll
  <2> QED
    BY <1>1, <1>2, <2>2, <2>3
<1>4. CASE DcSlotIdle \/ DcSlot
  <2>1. dc.pc = "slot" /\ \/ dc' = [dc EXCEPT !.pc = "after"]
                          \/ dc' = [dc EXCEPT !.pc = "save"]
                          \/ dc' = [dc EXCEPT !.pc = "settle", !.wake = settled, !.row = row]
    BY <1>4 DEF DcSlotIdle, DcSlot, DcGoto
  <2>2. NextPoll = settled + 1 /\ settled \in Nat /\ tick < settled
    BY <2>1, <1>2 DEF NextPoll
  <2> HIDE DEF settled, row
  <2>3. \/ dc'.pc \in {"after", "save"}
        \/ dc'.pc = "settle" /\ dc'.wake = settled
    BY <2>1, <1>2 DEF CollectionState
  <2>4. \/ dc'.pc \in {"after", "save"} /\ NextPoll' = tick + 1
        \/ dc'.pc = "settle" /\ dc'.wake = settled /\ NextPoll' = settled + 1
    BY <2>3, <1>2 DEF NextPoll
  <2> QED
    BY <1>1, <1>2, <2>1, <2>2, <2>4
<1>5. CASE DcMeasure \/ DcSave \/ DcSend \/ DcBurst \/ DcAfter
  <2>1. /\ dc.pc \in {"settle", "save", "send", "burst", "after"}
        /\ dc.pc = "settle" => dc.wake <= tick
        /\ \/ dc' = [dc EXCEPT !.pc = "save"]
           \/ dc' = [dc EXCEPT !.pc = "send"]
           \/ dc' = [dc EXCEPT !.pc = "burst"]
           \/ dc' = [dc EXCEPT !.pc = "after"]
           \/ dc' = dc /\ dc.pc = "burst"
           \/ dc' = [dc EXCEPT !.pc = "sleep", !.wake = next]
    BY <1>5 DEF DcMeasure, DcSave, DcSend, DcBurst, DcAfter, DcGoto, DcSleepFor
  <2>2. NextPoll = next /\ next \in Nat /\ tick < next
    BY <2>1, <1>2 DEF NextPoll
  <2> HIDE DEF next
  <2>3. \/ dc'.pc \in {"save", "send", "burst", "after"}
        \/ dc'.pc = "sleep" /\ dc'.wake = next
    BY <2>1, <1>2 DEF CollectionState
  <2>4. NextPoll' = next
    BY <2>3, <1>2 DEF NextPoll, next
  <2> QED
    BY <1>1, <1>2, <2>1, <2>2, <2>3, <2>4
<1> QED
  BY <1>3, <1>4, <1>5

(* Process looks in time, and what it looks for is the slot the clock is   *)
(* in: the next poll comes before the end of the slot after it.            *)
LEMMA PollInSlot ==
  ASSUME InTime, PoliteInv, isRunning, ~CycleIsOver(SyncTime)
  PROVE  LET q == TotalCycles(SyncTime)
             end == startTime + (q + 2) * config.interval
         IN  SyncTime + 1 < end /\ SyncTime + SettleTime + 1 < end
<1> DEFINE q == TotalCycles(SyncTime)
           n == config.interval
           a == (q + 1) * n
           b == (q + 2) * n
<1>1. /\ ClockExact(SyncTime) /\ config.single /\ ~cycleCompleted /\ isConfigured
  BY PoliteClock DEF PoliteInv, RunsRight, TasksInv, SchedulerInv
<1>2. q \in Nat /\ SyncTime - startTime < a
  BY <1>1, ExpectedSlotExact
<1>3. n \in Nat \ {0} /\ n > SettleTime /\ SettleTime \in Nat \ {0}
  BY <1>1, FrameFacts, SlaveDeviceAssumption
<1>4. a \in Nat /\ b = a + n
  BY <1>2, <1>3, SMTT(30)
<1>5. SyncTime \in Nat /\ startTime \in Nat
  BY PoliteTypes
<1> HIDE DEF a, n, b
<1>6. SyncTime + 1 < startTime + b /\ SyncTime + SettleTime + 1 < startTime + b
  BY <1>2, <1>3, <1>4, <1>5
<1> QED
  BY <1>6 DEF b, n

LEMMA TimesProcess ==
  ASSUME InTime, RowsInv, TimesRight,
         DcStartScheduler \/ DcProcessNothing \/ DcProcessCycleEnd \/ DcProcessSlot
  PROVE  TimesRight'
<1> DEFINE now == SyncTime
           next == tick + 1
           ends == SwitchEndsCycle(now)
<1>1. /\ dc \in CollectionState /\ tick \in Nat /\ now \in Nat /\ now = tick + timeOffset
      /\ timeOffset \in Int /\ startTime \in Nat /\ slotInfo.currentSlot \in Nat
      /\ SettleTime \in Nat \ {0} /\ config \in SlotConfig
  BY PoliteTypes, SlaveDeviceAssumption DEF RowsInv, SyncTime
<1>2. UNCHANGED <<tick, timeOffset, config>> /\ SyncTime' = SyncTime
  BY DEF DcStartScheduler, StartScheduler, Start, DcProcessNothing, DcProcessCycleEnd,
    ProcessCycleEnd, DcProcessSlot, ProcessFirst, ProcessSwitch, smVars, devVars, clock,
    SyncTime
<1>3. CASE DcStartScheduler
  <2>1. ~isRunning /\ isConfigured
    BY <1>3 DEF DcStartScheduler, RowsInv, PoliteInv, StartsRight, HandlerAlone,
      ConfigurationsAgree, Agreed, Quiet, Starting
  <2>2. dc.pc = "startScheduler" /\ Start(now) /\ dc' = [dc EXCEPT !.pc = "running"]
    BY <1>3, <2>1 DEF DcStartScheduler, StartScheduler, DcGoto
  <2>3. dc'.pc = "running" /\ startTime' = now /\ slotInfo'.currentSlot = 0
    BY <2>2, <1>1 DEF Start, SlotInfoOf, CollectionState
  <2>4. NextPoll' = tick
    BY <2>3, <1>2 DEF NextPoll
  <2> DEFINE n == config.interval
  <2>5. n \in Nat \ {0} /\ 2 * n = n + n /\ (0 + 2) * n = 2 * n
    BY <2>1, FrameFacts DEF RowsInv
  <2>6. now < now + n /\ now < now + 2 * n
    BY <2>5, <1>1
  <2>7. NextPoll' + timeOffset' < startTime' + (slotInfo'.currentSlot + 2) * config'.interval
    BY <2>3, <2>4, <2>5, <2>6, <1>1, <1>2
  <2> QED
    BY <2>3, <2>6, <2>7, <1>1, <1>2 DEF TimesRight, InTime
<1>4. CASE DcProcessNothing
  <2>1. /\ dc' = [dc EXCEPT !.pc = "sleep", !.wake = next]
        /\ UNCHANGED <<startTime, slotInfo, isRunning, isFirstProcess>>
        /\ ~ProcessDue(now)
    BY <1>4 DEF DcProcessNothing, DcSleepFor, smVars
  <2>2. next \in Nat /\ tick <= next /\ next + timeOffset = now + 1
    BY <1>1
  <2> HIDE DEF next
  <2>3. dc'.pc = "sleep" /\ dc'.wake = next /\ NextPoll' = next
    BY <2>1, <1>1 DEF CollectionState, NextPoll
  <2>4. ASSUME isRunning
        PROVE  /\ ~isFirstProcess
               /\ NextPoll' + timeOffset' <
                    startTime' + (slotInfo'.currentSlot + 2) * config'.interval
    <3>1. ~isFirstProcess /\ ~CycleIsOver(now) /\ ExpectedSlot(now) = slotInfo.currentSlot
      BY <2>1, <2>4 DEF ProcessDue
    <3>2. ExpectedSlot(now) = TotalCycles(now)
      BY <3>1, <2>4, PoliteClock, ExpectedSlotExact DEF RowsInv, PoliteInv, RunsRight
    <3>3. now + 1 < startTime + (slotInfo.currentSlot + 2) * config.interval
      BY <3>1, <3>2, <2>4, PollInSlot DEF RowsInv
    <3> QED
      BY <3>1, <3>3, <2>1, <2>2, <2>3, <1>2
  <2> QED
    BY <2>1, <2>2, <2>3, <2>4, <1>2 DEF TimesRight
<1>5. CASE DcProcessCycleEnd
  <2>1. /\ dc' = [dc EXCEPT !.pc = "sleep", !.wake = next]
        /\ ~isRunning'
    BY <1>5 DEF DcProcessCycleEnd, ProcessCycleEnd, DcSleepFor
  <2>2. next \in Nat /\ tick <= next
    BY <1>1
  <2> HIDE DEF next
  <2>3. dc'.pc = "sleep" /\ dc'.wake = next
    BY <2>1, <1>1 DEF CollectionState
  <2> QED
    BY <2>1, <2>2, <2>3, <1>2 DEF TimesRight
<1>6. CASE DcProcessSlot
  <2>1. isRunning /\ dc.pc = "process"
    BY <1>6 DEF DcProcessSlot, ProcessFirst, ProcessSwitch
  <2>2. \/ dc' = [dc EXCEPT !.pc = "slot", !.endsCycle = FALSE]
        \/ dc' = [dc EXCEPT !.pc = "slot", !.endsCycle = ends]
    BY <1>6 DEF DcProcessSlot
  <2> HIDE DEF ends
  <2>3. dc'.pc = "slot"
    BY <2>2, <1>1 DEF CollectionState
  <2>4. NextPoll' = tick + SettleTime + 1
    BY <2>3, <1>2 DEF NextPoll
  <2>5. startTime' = startTime /\ ~isFirstProcess'
    BY <1>6 DEF DcProcessSlot, ProcessFirst, ProcessSwitch
  <2>6. now + SettleTime + 1 < startTime + (slotInfo'.currentSlot + 2) * config.interval
    <3>1. CASE ProcessFirst
      <4>1. /\ isFirstProcess /\ slotInfo' = slotInfo /\ slotInfo.currentSlot = 0
            /\ now < startTime + config.interval
        BY <3>1, <2>1 DEF ProcessFirst, RowsInv, PoliteInv, RunsRight, TimesRight
      <4> DEFINE n == config.interval
      <4>2. n \in Nat \ {0} /\ n > SettleTime
        BY <2>1, FrameFacts DEF RowsInv, PoliteInv, TasksInv, SchedulerInv
      <4>3. (0 + 2) * n = n + n
        BY <4>2
      <4> HIDE DEF n, now
      <4>4. now + SettleTime + 1 < startTime + (0 + 2) * n
        <5>1. now < startTime + n
          BY <4>1 DEF n
        <5> QED
          BY <5>1, <4>2, <4>3, <1>1
      <4> QED
        BY <4>1, <4>4 DEF n
    <3>2. CASE ProcessSwitch(now)
      <4>1. ~CycleIsOver(now)
        BY <3>2 DEF ProcessSwitch
      <4>2. slotInfo'.currentSlot = TotalCycles(now)
        BY <2>1, <3>2, PoliteClock, SwitchForward, <1>1
           DEF RowsInv, PoliteInv, RunsRight, SlotReached
      <4> QED
        BY <2>1, <4>1, <4>2, PollInSlot DEF RowsInv
    <3> QED
      BY <1>6, <3>1, <3>2 DEF DcProcessSlot
  <2>7. NextPoll' + timeOffset' = now + SettleTime + 1
    BY <2>4, <1>1, <1>2
  <2> QED
    BY <2>3, <2>5, <2>6, <2>7, <1>2 DEF TimesRight
<1> QED
  BY <1>3, <1>4, <1>5, <1>6

LEMMA EarlierStill ==
  ASSUME NEW a \in Nat, NEW b \in Nat, NEW o \in Int, NEW e \in Int, b <= a, a + o < e
  PROVE  b + o < e
  OBVIOUS

LEMMA TimesNext ==
  ASSUME InTime, RowsInv, TimesRight, [Next]_vars
  PROVE  TimesRight'
<1>1. CASE HandlerReceive \/ Handler
  BY <1>1, HandlerWhileStopped DEF InTime, RowsInv, TimesRight
<1>2. CASE DcStartScheduler \/ DcProcessNothing \/ DcProcessCycleEnd \/ DcProcessSlot
  BY <1>2, TimesProcess
<1>3. CASE DataCollection /\ ~(DcStartScheduler \/ DcProcessNothing \/ DcProcessCycleEnd
                                 \/ DcProcessSlot)
  <2>1. /\ UNCHANGED <<smVars, tick, timeOffset>>
        /\ NextPoll' <= NextPoll
        /\ dc'.pc \in {"sleep", "settle"} => tick <= dc'.wake
        /\ dc.pc \in {"running", "observe", "stopped"} =>
             dc'.pc \in {"observe", "stopped", "process"}
    BY <1>3, NextPollKept DEF DataCollection
  <2>2. dc.pc # "process"
    BY <1>3 DEF DataCollection, DcWake, DcCheck, DcConfigureCollector, DcStartCollector,
      DcStarted, DcObserve, DcStopDetect, DcSlotIdle, DcSlot, DcMeasure, DcSave, DcSend,
      DcBurst, DcAfter
  <2>3. isRunning' => NextPoll' + timeOffset' < NextSlotEnd'
    <3>1. NextPoll \in Nat /\ timeOffset \in Int
      BY PoliteTypes, NextPollTyped DEF RowsInv
    <3>2. dc' \in CollectionState /\ tick' \in Nat
      <4>1. PoliteInv'
        BY <1>3, PoliteInvNext DEF InTime, RowsInv, Next
      <4> QED
        BY <4>1, PoliteTypes, TasksInvNext DEF RowsInv, PoliteInv, TasksInv,
          DataCollectionInv, ClockInv
    <3>3. NextPoll' \in Nat
      BY <3>2, SlaveDeviceAssumption DEF NextPoll, CollectionState
    <3>4. NextSlotEnd' = NextSlotEnd /\ isRunning' = isRunning
      BY <2>1 DEF NextSlotEnd, smVars
    <3>5. NextSlotEnd \in Int
      <4>1. config.interval \in Nat /\ startTime \in Nat /\ slotInfo.currentSlot \in Nat
        BY PoliteTypes DEF RowsInv, SlotConfig
      <4> QED
        BY <4>1, SMTT(30) DEF NextSlotEnd
    <3>6. isRunning' => NextPoll + timeOffset < NextSlotEnd
      <4>1. isRunning => NextPoll + timeOffset < NextSlotEnd
        BY DEF TimesRight, NextSlotEnd
      <4> QED
        BY <4>1, <3>4
    <3>7. timeOffset' = timeOffset /\ NextPoll' <= NextPoll
      BY <2>1
    <3>8. NextPoll + timeOffset < NextSlotEnd => NextPoll' + timeOffset < NextSlotEnd
      BY <3>1, <3>3, <3>5, <3>7, EarlierStill
    <3> QED
      BY <3>4, <3>6, <3>7, <3>8
  <2>4. isRunning' /\ isFirstProcess' =>
          /\ dc'.pc \in {"running", "observe", "stopped", "process"}
          /\ SyncTime' < startTime' + config'.interval
    BY <2>1, <2>2 DEF TimesRight, smVars, SyncTime
  <2> QED
    BY <2>1, <2>3, <2>4 DEF TimesRight, NextSlotEnd
<1>4. CASE Tick
  <2>1. Idle
    <3>1. lag \in 0 .. MaxLag /\ MaxLag = 0
      BY DEF InTime, PromptTasks, RowsInv, PoliteInv, HandlerAlone
    <3> QED
      BY <1>4, <3>1 DEF Tick
  <2>2. /\ dc.pc \in {"sleep", "settle"} /\ dc.wake > tick
        /\ UNCHANGED <<smVars, timeOffset, dc>> /\ tick' = tick + 1
    BY <1>4, <2>1 DEF Idle, Blocked, Tick, devVars
  <2>3. NextPoll' = NextPoll
    BY <2>2 DEF NextPoll
  <2>4. tick' <= dc'.wake
    BY <2>2, PoliteTypes DEF RowsInv, CollectionState
  <2>5. ~(isRunning /\ isFirstProcess)
    BY <2>2 DEF TimesRight
  <2> QED
    BY <2>2, <2>3, <2>4, <2>5 DEF TimesRight, smVars
<1>5. CASE HandlerAnswers \/ Radio \/ TimeUp \/ UNCHANGED vars
  <2>1. UNCHANGED <<smVars, timeOffset, tick, dc>>
    BY <1>5 DEF HandlerAnswers, Radio, RadioTake, RadioTransmit, TimeUp, vars, devVars, clock
  <2> QED
    BY <2>1 DEF TimesRight, NextPoll, SyncTime, smVars
<1> QED
  BY <1>1, <1>2, <1>3, <1>4, <1>5 DEF Next

-----------------------------------------------------------------------------
(* The slots.                                                              *)

\* Steps that neither enter nor measure a slot.
LEMMA SlotsKept ==
  ASSUME NoSlotPassedOver,
         UNCHANGED <<slotInfo, status, currentCycle, detections, config, isRunning,
                     isFirstProcess>>,
         dc'.pc \notin {"slot", "settle"}, dc.pc \notin {"slot", "settle"}
  PROVE  NoSlotPassedOver'
  BY DEF NoSlotPassedOver, MeasuredSlots

LEMMA SlotsDone ==
  ASSUME NoSlotPassedOver, isRunning, UNCHANGED <<slotInfo, status, config>>,
         status = "COMPLETED", slotInfo.currentSlot = config.total - 1
  PROVE  NoSlotPassedOver'
  BY DEF NoSlotPassedOver

LEMMA SlotsStart ==
  ASSUME InTime, TimedInv, DcStartScheduler
  PROVE  NoSlotPassedOver'
<1>1. ~isRunning /\ isConfigured /\ dc.pc = "startScheduler"
      /\ status = "RUNNING" /\ currentCycle = 0 /\ detections \in Nat \ {0}
  BY PoliteTypes DEF DcStartScheduler, TimedInv, RowsInv, PoliteInv, StartsRight,
    HandlerAlone, ConfigurationsAgree, Agreed, Quiet, Starting
<1>2. /\ Start(SyncTime) /\ UNCHANGED <<status, currentCycle, detections>>
  BY <1>1 DEF DcStartScheduler, StartScheduler, colVars
<1>3. isFirstProcess' /\ slotInfo'.currentSlot = 0
  BY <1>2 DEF Start, SlotInfoOf
<1>4. MeasuredSlots' = 0
  BY <1>3 DEF MeasuredSlots
<1> QED
  BY <1>1, <1>2, <1>4 DEF NoSlotPassedOver

LEMMA SlotsProcess ==
  ASSUME InTime, TimedInv, DcProcessSlot
  PROVE  NoSlotPassedOver'
<1> DEFINE s == slotInfo.currentSlot
           now == SyncTime
           n == config.interval
<1>1. /\ isRunning /\ dc.pc = "process" /\ dc \in CollectionState
      /\ UNCHANGED <<status, currentCycle, detections, config>>
      /\ ~isFirstProcess'
      /\ s \in Nat /\ now \in Nat /\ startTime \in Nat /\ config.total \in Nat
      /\ now = tick + timeOffset
  BY PoliteTypes DEF DcProcessSlot, ProcessFirst, ProcessSwitch, colVars, TimedInv,
    RowsInv, SyncTime
<1>2. dc'.pc = "slot"
  <2> DEFINE ends == SwitchEndsCycle(SyncTime)
  <2>1. \/ dc' = [dc EXCEPT !.pc = "slot", !.endsCycle = FALSE]
        \/ dc' = [dc EXCEPT !.pc = "slot", !.endsCycle = ends]
    BY DEF DcProcessSlot
  <2> HIDE DEF ends
  <2> QED
    BY <2>1, <1>1 DEF CollectionState
<1>3. MeasuredSlots' = slotInfo'.currentSlot
  BY <1>2 DEF MeasuredSlots
<1>4. CASE ProcessFirst
  <2>1. isFirstProcess /\ slotInfo' = slotInfo /\ s = 0
    BY <1>1, <1>4 DEF ProcessFirst, TimedInv, RowsInv, PoliteInv, RunsRight
  <2>2. status = "RUNNING" /\ currentCycle = 0 /\ currentCycle < detections
    BY <1>1, <2>1, PoliteTypes DEF TimedInv, RowsInv, PoliteInv, RunsRight
  <2> QED
    BY <1>1, <1>3, <2>1, <2>2 DEF NoSlotPassedOver
<1>5. CASE ProcessSwitch(now)
  <2> DEFINE q == TotalCycles(now)
             e == now - startTime
  <2>1. /\ ~isFirstProcess /\ slotInfo'.currentSlot = q /\ q \in Nat /\ q > s
        /\ q < config.total
    BY <1>1, <1>5, PoliteClock, SwitchForward
       DEF ProcessSwitch, TimedInv, RowsInv, PoliteInv, RunsRight, SlotReached
  <2>2. q * n <= e /\ e \in Nat /\ n \in Nat \ {0}
    <3>1. ClockExact(now) /\ config.single /\ ~cycleCompleted /\ ~CycleIsOver(now)
      BY <1>1, <1>5, PoliteClock
         DEF ProcessSwitch, TimedInv, RowsInv, PoliteInv, RunsRight
    <3> QED
      BY <3>1, ExpectedSlotExact, ExactArithmetic
  <2>3. e < (s + 2) * n
    <3> DEFINE b == (s + 2) * n
    <3>1. now < startTime + b
      BY <1>1 DEF TimedInv, TimesRight, NextPoll
    <3>2. b \in Nat
      BY <1>1, <2>2, SMTT(30)
    <3> HIDE DEF b, now
    <3>3. e < b
      BY <1>1, <3>1, <3>2
    <3> QED
      BY <3>3 DEF b
  <2> HIDE DEF q, e, n, s
  <2>4. q <= s + 1
    BY <1>1, <2>1, <2>2, <2>3, NextSlotOnly
  <2>5. q = s + 1
    BY <1>1, <2>1, <2>4
  <2>6. ~(s = config.total - 1)
    BY <1>1, <2>1, <2>5
  <2>7. status = "RUNNING" /\ currentCycle = s + 1 /\ currentCycle < detections
    BY <1>1, <2>1, <2>6 DEF TimedInv, NoSlotPassedOver, MeasuredSlots, s
  <2>8. currentCycle' = MeasuredSlots' /\ currentCycle' < detections'
    BY <1>1, <1>3, <2>1, <2>5, <2>7
  <2> QED
    BY <1>1, <2>7, <2>8 DEF NoSlotPassedOver
<1> QED
  BY <1>4, <1>5 DEF DcProcessSlot

LEMMA SlotsInSlot ==
  ASSUME InTime, TimedInv,
         DcSlotIdle \/ DcSlot \/ DcMeasure \/ DcSave \/ DcSend \/ DcBurst \/ DcAfter
  PROVE  NoSlotPassedOver'
<1> DEFINE s == slotInfo.currentSlot
<1>1. /\ dc.pc \in InSlot /\ dc \in CollectionState
      /\ isRunning /\ isCollecting /\ ~isFirstProcess
      /\ UNCHANGED <<slotInfo, isRunning, isFirstProcess, config>>
      /\ s \in Nat /\ detections \in Nat /\ currentCycle \in Nat /\ config.total \in Nat
  <2>1. /\ dc.pc \in InSlot
        /\ UNCHANGED <<slotInfo, isRunning, isFirstProcess, config>>
    BY DEF DcSlotIdle, DcSlot, DcMeasure, DcSave, DcSend, DcBurst, DcAfter, InSlot, smVars
  <2> QED
    BY <2>1, PoliteTypes DEF TimedInv, RowsInv, PoliteInv, RunsRight
<1>2. ~DcSlotIdle
  BY <1>1 DEF DcSlotIdle
<1>3. \/ /\ status = "RUNNING"
         /\ currentCycle = MeasuredSlots /\ currentCycle < detections
      \/ /\ status = "COMPLETED"
         /\ s = config.total - 1
  BY <1>1 DEF TimedInv, NoSlotPassedOver
<1>4. CASE DcSlot
  <2>1. dc.pc = "slot" /\ status = "RUNNING" /\ currentCycle = s /\ currentCycle < detections
    <3>1. dc.pc = "slot" /\ status = "RUNNING"
      BY <1>1, <1>4 DEF DcSlot, TimedInv, RowsInv, PoliteInv, RunsRight
    <3> QED
      BY <1>3, <3>1 DEF MeasuredSlots
  <2> DEFINE wake == tick + SettleTime
             row == [run |-> run, slot |-> slotInfo.currentSlot]
  <2>2. /\ UNCHANGED <<status, currentCycle, detections>>
        /\ dc' = [dc EXCEPT !.pc = "settle", !.wake = wake, !.row = row]
    BY <2>1, <1>4 DEF DcSlot, IgnoreSlot, CanMeasure, DrivePins
  <2> HIDE DEF wake, row
  <2>3. dc'.pc = "settle"
    BY <2>2, <1>1 DEF CollectionState
  <2>4. MeasuredSlots' = s
    BY <2>3, <1>1 DEF MeasuredSlots
  <2> QED
    BY <2>1, <2>2, <2>4 DEF NoSlotPassedOver
<1>5. CASE DcMeasure
  <2>1. dc.pc = "settle" /\ status = "RUNNING" /\ currentCycle = s /\ currentCycle < detections
        /\ detections = config.total
    <3>1. dc.pc = "settle" /\ status = "RUNNING" /\ detections = config.total
      BY <1>1, <1>5
         DEF DcMeasure, TimedInv, RowsInv, PoliteInv, RunsRight, CollectorReady
    <3> QED
      BY <1>3, <3>1 DEF MeasuredSlots
  <2>2. /\ currentCycle' = currentCycle + 1 /\ detections' = detections
        /\ status' = IF currentCycle' >= detections THEN "COMPLETED" ELSE status
    BY <1>5 DEF DcMeasure, MeasureSlot
  <2>3. dc'.pc = "save"
    BY <1>1, <1>5 DEF DcMeasure, DcGoto, CollectionState
  <2>4. MeasuredSlots' = s + 1
    BY <2>3, <1>1 DEF MeasuredSlots
  <2>5. CASE currentCycle + 1 < detections
    BY <1>1, <2>1, <2>2, <2>4, <2>5 DEF NoSlotPassedOver
  <2>6. CASE ~(currentCycle + 1 < detections)
    <3>1. s = config.total - 1 /\ currentCycle' >= detections
      BY <1>1, <2>1, <2>2, <2>6
    <3> QED
      BY <1>1, <2>2, <3>1 DEF NoSlotPassedOver
  <2> QED
    BY <2>5, <2>6
<1>6. CASE DcSave
  <2>1. dc.pc = "save" /\ dc'.pc = "send"
    BY <1>1, <1>6 DEF DcSave, DcGoto, CollectionState
  <2>2. CASE status = "COMPLETED"
    <3>1. status' = status
      BY <1>6, <2>2 DEF DcSave, IsCollectionComplete, ClearData
    <3> QED
      BY <1>1, <1>3, <2>2, <3>1, SlotsDone DEF TimedInv
  <2>3. CASE status # "COMPLETED"
    <3>1. UNCHANGED <<status, currentCycle, detections>>
      BY <1>6, <2>3 DEF DcSave, IsCollectionComplete, colVars
    <3> QED
      BY <1>1, <2>1, <3>1, SlotsKept DEF TimedInv
  <2> QED
    BY <2>2, <2>3
<1>7. CASE DcSend \/ DcBurst \/ DcAfter
  <2>1. UNCHANGED <<status, currentCycle, detections>>
    BY <1>7 DEF DcSend, DcBurst, DcAfter, SetAllPinsToInputMode, colVars
  <2>2. /\ dc.pc \notin {"slot", "settle"}
        /\ dc'.pc \in {"burst", "after", "sleep"}
    <3> DEFINE next == tick + 1
    <3>1. /\ dc.pc \in {"send", "burst", "after"}
          /\ \/ dc' = [dc EXCEPT !.pc = "burst"]
             \/ dc' = [dc EXCEPT !.pc = "after"]
             \/ dc' = dc /\ dc.pc = "burst"
             \/ dc' = [dc EXCEPT !.pc = "sleep", !.wake = next]
      BY <1>7 DEF DcSend, DcBurst, DcAfter, DcGoto, DcSleepFor
    <3> HIDE DEF next
    <3> QED
      BY <3>1, <1>1 DEF CollectionState
  <2> QED
    BY <1>1, <2>1, <2>2, SlotsKept DEF TimedInv
<1> QED
  BY <1>2, <1>4, <1>5, <1>6, <1>7

LEMMA SlotsNext ==
  ASSUME InTime, TimedInv, [Next]_vars
  PROVE  NoSlotPassedOver'
<1>1. CASE HandlerReceive \/ Handler
  BY <1>1, HandlerWhileStopped DEF InTime, TimedInv, RowsInv, NoSlotPassedOver
<1>2. CASE Tick \/ HandlerAnswers \/ Radio \/ TimeUp \/ UNCHANGED vars
  <2>1. UNCHANGED <<slotInfo, status, currentCycle, detections, config, isRunning,
                    isFirstProcess, dc>>
    BY <1>2 DEF Tick, HandlerAnswers, Radio, RadioTake, RadioTransmit, TimeUp, vars, smVars, colVars
  <2> QED
    BY <2>1 DEF TimedInv, NoSlotPassedOver, MeasuredSlots
<1>3. CASE DcProcessCycleEnd
  BY <1>3 DEF DcProcessCycleEnd, ProcessCycleEnd, NoSlotPassedOver
<1>4. CASE DcConfigureCollector \/ DcStartCollector
  <2>1. ~isRunning /\ ~isRunning'
    BY <1>4 DEF DcConfigureCollector, DcStartCollector, smVars, TimedInv, RowsInv,
      PoliteInv, StartsRight
  <2> QED
    BY <2>1 DEF NoSlotPassedOver
<1>5. CASE DcWake \/ DcCheck \/ DcStarted \/ DcObserve \/ DcStopDetect \/ DcProcessNothing
  <2> DEFINE next == tick + 1
             seen == dc.running
  <2>1. /\ UNCHANGED <<slotInfo, status, currentCycle, detections, config, isRunning,
                       isFirstProcess>>
        /\ dc.pc \in {"sleep", "check", "running", "failed", "observe", "stopped",
                      "process"}
    BY <1>5 DEF DcWake, DcCheck, DcStarted, DcObserve, DcStopDetect, DcProcessNothing,
      smVars, colVars
  <2>2. dc'.pc \in {"check", "collector", "observe", "stopped", "process", "sleep"}
    <3>1. \/ dc' = [dc EXCEPT !.pc = "check"]
          \/ dc' = [dc EXCEPT !.pc = "collector"]
          \/ dc' = [dc EXCEPT !.pc = "observe"]
          \/ dc' = [dc EXCEPT !.pc = "stopped", !.running = isRunning]
          \/ dc' = [dc EXCEPT !.pc = "process", !.wasRunning = seen]
          \/ dc' = [dc EXCEPT !.pc = "sleep", !.wake = next]
      BY <1>5 DEF DcWake, DcCheck, DcStarted, DcObserve, DcStopDetect, DcProcessNothing,
        DcGoto, DcSleepFor
    <3> HIDE DEF next, seen
    <3>2. dc \in CollectionState
      BY PoliteTypes DEF TimedInv, RowsInv
    <3> QED
      BY <3>1, <3>2 DEF CollectionState
  <2> QED
    BY <2>1, <2>2, SlotsKept DEF TimedInv
<1> QED
  BY <1>1, <1>2, <1>3, <1>4, <1>5, SlotsStart, SlotsProcess, SlotsInSlot
     DEF Next, DataCollection

(* A cycle ends only after its last slot, and so with its rows complete.   *)
LEMMA CycleEndsComplete ==
  ASSUME InTime, TimedInv, DcProcessCycleEnd
  PROVE  status = "COMPLETED" /\ slotInfo.currentSlot = config.total - 1
<1> DEFINE s == slotInfo.currentSlot
           t == config.total
           n == config.interval
           b == (s + 2) * n
           frame == t * n
<1>1. /\ isRunning /\ ~isFirstProcess /\ dc.pc = "process" /\ CycleIsOver(SyncTime)
      /\ ClockExact(SyncTime)
  BY PoliteClock DEF DcProcessCycleEnd, ProcessCycleEnd, TimedInv, RowsInv
<1>2. /\ s \in Nat /\ t \in Nat \ {0} /\ n \in Nat \ {0} /\ startTime \in Nat
      /\ SyncTime \in Nat /\ SyncTime = tick + timeOffset
      /\ s < t /\ detections = t
  BY <1>1, PoliteClock, PoliteTypes
     DEF TimedInv, RowsInv, PoliteInv, RunsRight, CollectorReady, SyncTime
<1>3. SyncTime >= startTime + frame /\ SyncTime < startTime + b
  <2>1. SyncTime >= startTime + frame
    BY <1>1, ExactArithmetic DEF CycleIsOver
  <2>2. SyncTime < startTime + b
    BY <1>1, <1>2 DEF TimedInv, TimesRight, NextPoll
  <2> QED
    BY <2>1, <2>2
<1>4. frame < b
  <2>1. frame \in Nat /\ b \in Nat
    BY <1>2, SMTT(30)
  <2> HIDE DEF frame, b
  <2> QED
    BY <1>2, <1>3, <2>1
<1>5. t <= s + 1
  <2>1. CASE t >= s + 2
    <3>1. t * n >= (s + 2) * n
      BY <1>2, <2>1, SMTT(30)
    <3>2. t * n \in Nat /\ (s + 2) * n \in Nat
      BY <1>2, SMTT(30)
    <3> QED
      BY <1>4, <3>1, <3>2
  <2> QED
    BY <1>2, <2>1
<1>6. s = t - 1
  BY <1>2, <1>5
<1>7. MeasuredSlots = s + 1
  BY <1>1 DEF MeasuredSlots
<1>8. status # "RUNNING"
  <2> HIDE DEF s, t
  <2> QED
    BY <1>1, <1>2, <1>6, <1>7 DEF TimedInv, NoSlotPassedOver
<1> QED
  BY <1>1, <1>6, <1>8 DEF TimedInv, NoSlotPassedOver

LEMMA TimedInvNext ==
  ASSUME InTime, TimedInv, [Next]_vars
  PROVE  TimedInv'
<1>1. PoliteMaster
  BY DEF InTime
<1> QED
  BY <1>1, RowsInvNext, TimesNext, SlotsNext DEF TimedInv

-----------------------------------------------------------------------------
(* The fragments of the data saved.                                        *)

\* Slots in which the backend had its turn.
SentSlots ==
  IF isFirstProcess \/ dc.pc \in {"slot", "settle", "save", "send"}
    THEN slotInfo.currentSlot ELSE slotInfo.currentSlot + 1

\* The collection of this run is over and its rows were taken over.
Saved == status = "COMPLETED" /\ dc.pc # "save"

\* The only own slot is the last of the frame, the one in which rows are saved.
OwnSlotIsLast == config.startSlot = config.total - 1

\* The rows are saved, or sent already.
Left ==
  \/ SavedData = CompleteData
  \/ backend.handed = DataFrame(CompleteData, 0)

BackendRight ==
  /\ HasFields(backend)
  /\ backend.isFragmentSendingInProgress \in BOOLEAN
  /\ backend.hasDataToSend = (SavedData # NoData)
  /\ SavedData \in Rows \union {NoData}
  /\ SavedData # NoData => Len(SavedData) = config.total
  /\ ~backend.isFragmentSendingInProgress =>
       backend.pendingFragments = <<>> /\ backend.currentFragmentIndex = 0

(* The handler forgets what was saved before it changes the frame.         *)
HandlerForgets ==
  /\ hd.pc = "forget" /\ hd.configure => hd.changed
  /\ hd.pc \in {"adopt", "schedule"} /\ hd.configure => SavedData = NoData
  /\ hd.pc \in {"collector", "stop", "scheduler"} => SavedData = NoData

(* Fragments go out one per own slot, from the first own slot on.          *)
InTurn ==
  backend.isFragmentSendingInProgress =>
    /\ isRunning /\ ~Saved /\ SavedData # NoData
    /\ backend.pendingFragments = Packed(SavedData)
    /\ backend.currentFragmentIndex = SentSlots - config.startSlot
    /\ backend.currentFragmentIndex > 0
    /\ backend.currentFragmentIndex < FragmentCount(SavedData)

RunSends ==
  isRunning =>
    /\ deviceConfigured
    /\ ~Saved /\ SavedData # NoData =>
         /\ ~OwnSlotIsLast
         /\ backend.isFragmentSendingInProgress \/ SentSlots <= config.startSlot
    /\ Saved =>
         /\ Left
         /\ SavedData # NoData =>
              SavedData = CompleteData /\ (OwnSlotIsLast => dc.pc = "send")
         /\ dc.pc = "send" => SavedData = CompleteData

StoppedLeaves ==
  ~isRunning =>
    /\ SavedData # NoData => ~OwnSlotIsLast
    /\ isCollecting => Left

FragmentsRight ==
  /\ dc.pc # "burst"
  /\ BackendRight
  /\ HandlerForgets
  /\ InTurn
  /\ RunSends
  /\ StoppedLeaves

(* A frame of DataCollectionTask is in the mailbox, or being read from it, *)
(* only between the last send of a slot and the next time that task has    *)
(* the processor.                                                          *)
FrameWaits ==
  (backend.txSemaphore \/ radio = "taken") /\ backend.txBuffer # Answer

MailboxRight ==
  FrameWaits =>
    \/ dc.pc \in {"sleep", "settle"} /\ dc.wake > tick
    \/ dc.pc = "after"

-----------------------------------------------------------------------------
(* What a send makes of the backend.                                       *)

\* The fields the invariant is about.
BackendFields(b, data, saved, pending, index, sending, buffer) ==
  /\ HasFields(b)
  /\ b.lastCollectionData = data
  /\ b.hasDataToSend = saved
  /\ b.pendingFragments = pending
  /\ b.currentFragmentIndex = index
  /\ b.isFragmentSendingInProgress = sending
  /\ b.handed = buffer

LEMMA ForgetAllFields ==
  ASSUME NEW b, HasFields(b)
  PROVE  /\ BackendFields(ForgetAll(b), NoData, FALSE, <<>>, 0, FALSE, b.handed)
         /\ ForgetAll(b).txSemaphore = b.txSemaphore
         /\ ForgetAll(b).txBuffer = b.txBuffer
  BY DEF HasFields, BackendFields, ForgetAll, ForgetFragments

LEMMA HandOverFields ==
  ASSUME NEW b, HasFields(b), NEW frame
  PROVE  BackendFields(HandOver(b, frame), b.lastCollectionData, b.hasDataToSend,
                       b.pendingFragments, b.currentFragmentIndex,
                       b.isFragmentSendingInProgress, frame)
  BY DEF HasFields, BackendFields, SendData, HandOver

LEMMA PackedFacts ==
  ASSUME NEW data, FragmentCount(data) \in Nat
  PROVE  /\ Len(Packed(data)) = FragmentCount(data)
         /\ \A i \in 0 .. (FragmentCount(data) - 1) :
              Packed(data)[i + 1] = DataFrame(data, i)
<1> DEFINE n == FragmentCount(data)
<1>1. n \in Nat
  OBVIOUS
<1>2. Packed(data) = [i \in 1..n |-> DataFrame(data, i - 1)]
  BY DEF Packed
<1> HIDE DEF n
<1>3. Len(Packed(data)) = n
  BY <1>1, <1>2
<1>4. ASSUME NEW i \in 0 .. (n - 1)
      PROVE  Packed(data)[i + 1] = DataFrame(data, i)
  <2>1. i + 1 \in 1..n /\ (i + 1) - 1 = i
    BY <1>1
  <2> DEFINE k == i + 1
  <2>2. Packed(data)[k] = DataFrame(data, k - 1)
    BY <1>2, <2>1
  <2> QED
    BY <2>1, <2>2
<1> QED
  BY <1>3, <1>4 DEF n

(* A fragment goes out; after the last one nothing is left.                *)
LEMMA SendFragmentFields ==
  ASSUME NEW b, NEW data, NEW i, NEW buffer, FragmentCount(data) \in Nat,
         i \in 0 .. (FragmentCount(data) - 1),
         BackendFields(b, data, TRUE, Packed(data), i, TRUE, buffer)
  PROVE  LET c == SendFragment(b, TRUE) IN
         IF i + 1 >= FragmentCount(data)
           THEN BackendFields(c, NoData, FALSE, <<>>, 0, FALSE, DataFrame(data, i))
           ELSE BackendFields(c, data, TRUE, Packed(data), i + 1, TRUE, DataFrame(data, i))
<1> DEFINE sent == HandOver(b, Packed(data)[i + 1])
           next == i + 1
<1>1. /\ b.pendingFragments = Packed(data) /\ b.currentFragmentIndex = i /\ HasFields(b)
  BY DEF BackendFields
<1>2. Packed(data)[i + 1] = DataFrame(data, i) /\ Len(Packed(data)) = FragmentCount(data)
  BY PackedFacts
<1>3. BackendFields(sent, data, TRUE, Packed(data), i, TRUE, DataFrame(data, i))
  BY <1>1, <1>2, HandOverFields DEF BackendFields
<1>4. SendFragment(b, TRUE) = IF next >= FragmentCount(data) THEN ForgetAll(sent)
                              ELSE [sent EXCEPT !.currentFragmentIndex = next]
  BY <1>1, <1>2 DEF SendFragment
<1> HIDE DEF sent
<1>5. BackendFields(ForgetAll(sent), NoData, FALSE, <<>>, 0, FALSE, DataFrame(data, i))
  BY <1>3, ForgetAllFields DEF BackendFields
<1>6. BackendFields([sent EXCEPT !.currentFragmentIndex = next], data, TRUE,
                    Packed(data), next, TRUE, DataFrame(data, i))
  <2> HIDE DEF next
  <2> QED
    BY <1>3 DEF BackendFields, HasFields
<1> QED
  BY <1>4, <1>5, <1>6

(* Sending starts with the first fragment.                                 *)
LEMMA SendStartFields ==
  ASSUME NEW b, NEW data, NEW buffer, FragmentCount(data) \in Nat \ {0}, data # NoData,
         BackendFields(b, data, TRUE, <<>>, 0, FALSE, buffer)
  PROVE  LET c == SendDataToBackend(b, TRUE, TRUE) IN
         IF 1 >= FragmentCount(data)
           THEN BackendFields(c, NoData, FALSE, <<>>, 0, FALSE, DataFrame(data, 0))
           ELSE BackendFields(c, data, TRUE, Packed(data), 1, TRUE, DataFrame(data, 0))
<1> DEFINE packed == [b EXCEPT !.pendingFragments = Packed(b.lastCollectionData),
                               !.currentFragmentIndex = 0,
                               !.isFragmentSendingInProgress = TRUE]
<1>1. SendDataToBackend(b, TRUE, TRUE) = SendFragment(packed, TRUE)
  BY DEF SendDataToBackend, BackendFields
<1>2. b.lastCollectionData = data
  BY DEF BackendFields
<1>3. BackendFields(packed, data, TRUE, Packed(data), 0, TRUE, buffer)
  <2> DEFINE fragments == Packed(b.lastCollectionData)
  <2>1. fragments = Packed(data)
    BY <1>2
  <2>2. packed = [b EXCEPT !.pendingFragments = fragments, !.currentFragmentIndex = 0,
                           !.isFragmentSendingInProgress = TRUE]
    OBVIOUS
  <2> HIDE DEF packed, fragments
  <2> QED
    BY <2>1, <2>2 DEF BackendFields, HasFields
<1> HIDE DEF packed
<1>4. 0 \in 0 .. (FragmentCount(data) - 1) /\ FragmentCount(data) \in Nat /\ 0 + 1 = 1
  OBVIOUS
<1>5. IF 0 + 1 >= FragmentCount(data)
        THEN BackendFields(SendFragment(packed, TRUE), NoData, FALSE, <<>>, 0, FALSE,
                           DataFrame(data, 0))
        ELSE BackendFields(SendFragment(packed, TRUE), data, TRUE, Packed(data), 0 + 1,
                           TRUE, DataFrame(data, 0))
  BY <1>3, <1>4, SendFragmentFields
<1> QED
  BY <1>1, <1>4, <1>5

-----------------------------------------------------------------------------
(* Steps that do not send.                                                 *)

\* The backend is the same, up to its mailbox.
BackendKept ==
  BackendFields(backend', SavedData, backend.hasDataToSend, backend.pendingFragments,
                backend.currentFragmentIndex, backend.isFragmentSendingInProgress,
                backend'.handed)

LEMMA FragmentsKept ==
  ASSUME FragmentsRight, BackendKept,
         UNCHANGED <<config, run, isRunning, deviceConfigured, hd>>,
         backend'.handed = backend.handed \/ (isRunning /\ ~Saved),
         isRunning => SentSlots' = SentSlots /\ (Saved' <=> Saved),
         isRunning /\ Saved => dc.pc # "send" /\ dc'.pc # "send",
         isRunning \/ (isCollecting' => isCollecting),
         dc'.pc # "burst"
  PROVE  FragmentsRight'
<1>1. /\ SavedData' = SavedData /\ backend'.hasDataToSend = backend.hasDataToSend
      /\ backend'.pendingFragments = backend.pendingFragments
      /\ backend'.currentFragmentIndex = backend.currentFragmentIndex
      /\ backend'.isFragmentSendingInProgress = backend.isFragmentSendingInProgress
      /\ HasFields(backend')
  BY DEF BackendKept, BackendFields, SavedData
<1>2. CompleteData' = CompleteData /\ (OwnSlotIsLast' <=> OwnSlotIsLast)
  BY DEF CompleteData, OwnSlotIsLast
<1>3. BackendRight' /\ HandlerForgets'
  BY <1>1 DEF FragmentsRight, BackendRight, HandlerForgets
<1>4. InTurn'
  BY <1>1 DEF FragmentsRight, InTurn
<1>5. backend'.handed = backend.handed => (Left' <=> Left)
  BY <1>1, <1>2 DEF Left
<1>6. RunSends'
  BY <1>1, <1>2, <1>5 DEF FragmentsRight, RunSends
<1>7. StoppedLeaves'
  BY <1>1, <1>2, <1>5 DEF FragmentsRight, StoppedLeaves
<1> QED
  BY <1>3, <1>4, <1>6, <1>7 DEF FragmentsRight

LEMMA SameBackendKept ==
  ASSUME FragmentsRight, UNCHANGED backend
  PROVE  BackendKept /\ backend'.handed = backend.handed
  BY DEF FragmentsRight, BackendRight, BackendKept, BackendFields, SavedData

(* Every step of DataCollectionTask outside of the slots but for the start *)
(* of the scheduler and the end of the cycle.                              *)
LEMMA FragmentsBetweenSlots ==
  ASSUME InTime, TimedInv, FragmentsRight,
         \/ DcWake \/ DcCheck \/ DcConfigureCollector \/ DcStartCollector
         \/ DcStarted \/ DcObserve \/ DcStopDetect \/ DcProcessNothing
  PROVE  FragmentsRight'
<1> DEFINE next == tick + 1
           seen == dc.running
           places == {"sleep", "check", "collector", "startCollector", "startScheduler",
                      "running", "failed", "observe", "stopped", "process"}
<1>1. /\ UNCHANGED <<config, run, isRunning, isFirstProcess, slotInfo, deviceConfigured,
                     hd, backend>>
      /\ dc.pc \in places
      /\ dc \in CollectionState
  <2>1. /\ UNCHANGED <<smVars, run, deviceConfigured, hd, backend>>
        /\ dc.pc \in places
    BY DEF DcWake, DcCheck, DcConfigureCollector, DcStartCollector, DcStarted, DcObserve,
      DcStopDetect, DcProcessNothing, devVars, history
  <2> QED
    BY <2>1, PoliteTypes DEF TimedInv, RowsInv, smVars
<1>2. dc'.pc \in places
  <2>1. \/ dc' = [dc EXCEPT !.pc = "check"]
        \/ dc' = [dc EXCEPT !.pc = "collector"]
        \/ dc' = [dc EXCEPT !.pc = "startCollector"]
        \/ dc' = [dc EXCEPT !.pc = "startScheduler"]
        \/ dc' = [dc EXCEPT !.pc = "failed"]
        \/ dc' = [dc EXCEPT !.pc = "observe"]
        \/ dc' = [dc EXCEPT !.pc = "stopped", !.running = isRunning]
        \/ dc' = [dc EXCEPT !.pc = "process", !.wasRunning = seen]
        \/ dc' = [dc EXCEPT !.pc = "sleep", !.wake = next]
    BY DEF DcWake, DcCheck, DcConfigureCollector, DcStartCollector, DcStarted, DcObserve,
      DcStopDetect, DcProcessNothing, DcGoto, DcSleepFor
  <2> HIDE DEF next, seen
  <2> QED
    BY <2>1, <1>1 DEF CollectionState
<1>3. SentSlots' = SentSlots
  BY <1>1, <1>2 DEF SentSlots
<1>4. isRunning => status' = status
  <2>1. CASE DcConfigureCollector \/ DcStartCollector
    BY <2>1 DEF DcConfigureCollector, DcStartCollector, TimedInv, RowsInv, PoliteInv,
      StartsRight
  <2>2. CASE ~(DcConfigureCollector \/ DcStartCollector)
    BY <2>2 DEF DcWake, DcCheck, DcStarted, DcObserve, DcStopDetect, DcProcessNothing,
      colVars
  <2> QED
    BY <2>1, <2>2
<1>5. isRunning => (Saved' <=> Saved)
  BY <1>1, <1>2, <1>4 DEF Saved
<1>6. isRunning \/ (isCollecting' => isCollecting)
  <2>1. CASE DcStarted
    BY <2>1 DEF DcStarted, TimedInv, RowsInv, PoliteInv, StartsRight
  <2>2. CASE ~DcStarted
    BY <2>2 DEF DcWake, DcCheck, DcConfigureCollector, DcStartCollector, DcObserve,
      DcStopDetect, DcProcessNothing, devVars
  <2> QED
    BY <2>1, <2>2
<1> QED
  BY <1>1, <1>2, <1>3, <1>5, <1>6, FragmentsKept, SameBackendKept

(* A slot is entered, or measured without completing the collection.       *)
LEMMA FragmentsEnterSlot ==
  ASSUME InTime, TimedInv, FragmentsRight, DcProcessSlot
  PROVE  FragmentsRight'
<1>1. /\ UNCHANGED <<config, run, isRunning, deviceConfigured, hd, backend, isCollecting,
                     status>>
      /\ isRunning /\ dc.pc = "process" /\ ~isFirstProcess'
      /\ dc \in CollectionState /\ slotInfo.currentSlot \in Nat /\ config.total \in Nat
      /\ detections \in Nat
  BY PoliteTypes DEF DcProcessSlot, ProcessFirst, ProcessSwitch, devVars, colVars, history,
    TimedInv, RowsInv
<1>2. dc'.pc = "slot"
  <2> DEFINE ends == SwitchEndsCycle(SyncTime)
  <2>1. \/ dc' = [dc EXCEPT !.pc = "slot", !.endsCycle = FALSE]
        \/ dc' = [dc EXCEPT !.pc = "slot", !.endsCycle = ends]
    BY DEF DcProcessSlot
  <2> HIDE DEF ends
  <2> QED
    BY <2>1, <1>1 DEF CollectionState
<1>3. SentSlots' = slotInfo'.currentSlot /\ MeasuredSlots' = slotInfo'.currentSlot
  BY <1>1, <1>2 DEF SentSlots, MeasuredSlots
<1>4. SentSlots = MeasuredSlots
  BY <1>1 DEF SentSlots, MeasuredSlots
<1>5. NoSlotPassedOver'
  BY SlotsNext DEF Next, DataCollection
<1>6. status = "RUNNING"
  BY <1>1, <1>2, RowsInvNext
     DEF InTime, Next, DataCollection, TimedInv, RowsInv, PoliteInv, RunsRight
<1>7. currentCycle' = currentCycle
  BY DEF DcProcessSlot, colVars
<1>8. SentSlots' = SentSlots
  BY <1>1, <1>3, <1>4, <1>5, <1>6, <1>7 DEF TimedInv, NoSlotPassedOver
<1>9. ~Saved /\ ~Saved'
  BY <1>1, <1>6 DEF Saved
<1> QED
  BY <1>1, <1>2, <1>8, <1>9, FragmentsKept, SameBackendKept

LEMMA FragmentsMeasure ==
  ASSUME InTime, TimedInv, FragmentsRight, DcSlot \/ DcMeasure
  PROVE  FragmentsRight'
<1>1. /\ UNCHANGED <<config, run, isRunning, isFirstProcess, slotInfo, deviceConfigured,
                     hd, isCollecting>>
      /\ dc.pc \in {"slot", "settle"} /\ dc \in CollectionState /\ status = "RUNNING"
      /\ isRunning
  <2>1. /\ UNCHANGED <<smVars, run, deviceConfigured, hd, isCollecting>>
        /\ dc.pc \in {"slot", "settle"}
    BY DEF DcSlot, DcMeasure, devVars, history
  <2> QED
    BY <2>1, PoliteTypes DEF TimedInv, RowsInv, PoliteInv, RunsRight, InSlot, smVars
<1>2. dc'.pc = "settle" \/ dc'.pc = "save"
  <2> DEFINE wake == tick + SettleTime
             row == [run |-> run, slot |-> slotInfo.currentSlot]
  <2>1. \/ dc' = [dc EXCEPT !.pc = "settle", !.wake = wake, !.row = row]
        \/ dc' = [dc EXCEPT !.pc = "save"]
    BY DEF DcSlot, DcMeasure, DcGoto
  <2> HIDE DEF wake, row
  <2> QED
    BY <2>1, <1>1 DEF CollectionState
<1>3. SentSlots' = SentSlots
  BY <1>1, <1>2 DEF SentSlots
<1>4. ~Saved /\ ~Saved'
  <2>1. CASE DcSlot
    <3>1. dc.pc = "slot" /\ CanMeasure
      BY <1>1, <2>1, PoliteTypes DEF DcSlot, CanMeasure, TimedInv, NoSlotPassedOver, RowsInv
    <3>2. status' = status
      BY <2>1, <3>1 DEF DcSlot, DrivePins, IgnoreSlot
    <3> QED
      BY <1>1, <3>2 DEF Saved
  <2>2. CASE DcMeasure
    <3>1. dc'.pc = "save"
      BY <1>1, <2>2 DEF DcMeasure, DcGoto, CollectionState
    <3> QED
      BY <1>1, <3>1 DEF Saved
  <2> QED
    BY <2>1, <2>2
<1>5. BackendKept
  <2>1. CASE UNCHANGED backend
    BY <2>1, SameBackendKept
  <2>2. CASE backend' = HandOver(backend, ResetResponse)
    <3>1. HasFields(backend)
      BY DEF FragmentsRight, BackendRight
    <3> QED
      BY <2>2, <3>1, HandOverFields DEF BackendKept, BackendFields, SavedData
  <2> QED
    BY <2>1, <2>2 DEF DcSlot, DcMeasure, SendPendingResponses, devVars
<1> QED
  BY <1>1, <1>2, <1>3, <1>4, <1>5, FragmentsKept

(* The scheduler is started: what was saved in the run before is to be     *)
(* sent, and none of it has been.                                          *)
LEMMA FragmentsStart ==
  ASSUME InTime, TimedInv, FragmentsRight, DcStartScheduler
  PROVE  FragmentsRight'
<1>1. /\ ~isRunning /\ isConfigured /\ ~isCollecting /\ deviceConfigured
      /\ dc.pc = "startScheduler" /\ status = "RUNNING"
      /\ dc \in CollectionState /\ config.startSlot \in Nat
  <2>1. /\ dc.pc = "startScheduler" /\ ~isRunning /\ isScheduledToStart /\ ~isCollecting
        /\ status = "RUNNING" /\ hd.pc = "idle" /\ dc \in CollectionState
    BY PoliteTypes DEF DcStartScheduler, TimedInv, RowsInv, PoliteInv, StartsRight,
      HandlerAlone, Quiet, Starting
  <2>2. deviceConfigured /\ isConfigured
    BY <2>1 DEF TimedInv, RowsInv, PoliteInv, ConfigurationsAgree, Agreed
  <2> QED
    BY <2>1, <2>2, FrameFacts DEF TimedInv, RowsInv
<1>2. /\ Start(SyncTime) /\ dc' = [dc EXCEPT !.pc = "running"]
      /\ UNCHANGED <<status, backend, hd, deviceConfigured>>
  BY <1>1 DEF DcStartScheduler, StartScheduler, DcGoto, colVars, devVars
<1>3. /\ isRunning' /\ isFirstProcess' /\ config' = config /\ slotInfo'.currentSlot = 0
      /\ dc'.pc = "running"
  BY <1>1, <1>2 DEF Start, SlotInfoOf, CollectionState
<1>4. SentSlots' = 0 /\ ~Saved' /\ SavedData' = SavedData
      /\ (OwnSlotIsLast' <=> OwnSlotIsLast)
  BY <1>1, <1>2, <1>3 DEF SentSlots, Saved, SavedData, OwnSlotIsLast
<1>5. ~backend.isFragmentSendingInProgress
  BY <1>1 DEF FragmentsRight, InTurn
<1>6. BackendRight' /\ HandlerForgets' /\ InTurn'
  BY <1>2, <1>3, <1>4, <1>5 DEF FragmentsRight, BackendRight, HandlerForgets, InTurn
<1>7. RunSends'
  BY <1>1, <1>2, <1>3, <1>4 DEF FragmentsRight, RunSends, StoppedLeaves
<1>8. StoppedLeaves'
  BY <1>3 DEF StoppedLeaves
<1> QED
  BY <1>3, <1>6, <1>7, <1>8 DEF FragmentsRight

(* The cycle ends: its rows are saved, or sent already.                    *)
LEMMA FragmentsCycleEnd ==
  ASSUME InTime, TimedInv, FragmentsRight, DcProcessCycleEnd
  PROVE  FragmentsRight'
<1>1. /\ isRunning /\ ~isRunning' /\ dc.pc = "process" /\ dc \in CollectionState
      /\ UNCHANGED <<config, run, backend, hd>>
  BY PoliteTypes DEF DcProcessCycleEnd, ProcessCycleEnd, devVars, history, TimedInv, RowsInv
<1>2. dc'.pc = "sleep"
  <2> DEFINE next == tick + 1
  <2>1. dc' = [dc EXCEPT !.pc = "sleep", !.wake = next]
    BY DEF DcProcessCycleEnd, DcSleepFor
  <2> HIDE DEF next
  <2> QED
    BY <2>1, <1>1 DEF CollectionState
<1>3. Saved
  BY <1>1, CycleEndsComplete DEF Saved
<1>4. /\ Left
      /\ SavedData # NoData => ~OwnSlotIsLast
      /\ ~backend.isFragmentSendingInProgress
  BY <1>1, <1>3 DEF FragmentsRight, RunSends, InTurn
<1>5. /\ CompleteData' = CompleteData /\ (OwnSlotIsLast' <=> OwnSlotIsLast)
      /\ SavedData' = SavedData
  BY <1>1 DEF CompleteData, OwnSlotIsLast, SavedData
<1>6. StoppedLeaves'
  BY <1>1, <1>4, <1>5 DEF StoppedLeaves, Left
<1>7. BackendRight' /\ HandlerForgets' /\ InTurn' /\ RunSends'
  BY <1>1, <1>4, <1>5
     DEF FragmentsRight, BackendRight, HandlerForgets, InTurn, RunSends
<1> QED
  BY <1>2, <1>6, <1>7 DEF FragmentsRight

(* A collection is complete in the last slot of the frame.  By then all    *)
(* the fragments of the one before it are sent.                            *)
LEMMA NothingLeftToSend ==
  ASSUME InTime, TimedInv, FragmentsRight, dc.pc = "save", status = "COMPLETED"
  PROVE  SavedData = NoData /\ ~backend.isFragmentSendingInProgress
<1> DEFINE s == slotInfo.currentSlot
           f == FragmentCount(SavedData)
<1>1. /\ isRunning /\ ~isFirstProcess /\ ~Saved /\ SentSlots = s
      /\ s = config.total - 1 /\ isConfigured
  BY DEF TimedInv, RowsInv, PoliteInv, RunsRight, InSlot, Saved, SentSlots,
    NoSlotPassedOver, TasksInv, SchedulerInv
<1>2. /\ config.total \in Nat \ {0} /\ config.count \in Nat \ {0}
      /\ config.startSlot \in Nat /\ config.startSlot + config.count <= config.total
  BY <1>1, FrameFacts DEF TimedInv, RowsInv
<1>3. ASSUME SavedData # NoData
      PROVE  FALSE
  <2>1. SavedData \in Rows /\ Len(SavedData) = config.total
    BY <1>3 DEF FragmentsRight, BackendRight
  <2>2. /\ f \in 1 .. config.count
        /\ config.startSlot + config.count = config.total /\ config.count > 1
             => f < config.count
    BY <1>1, <2>1, FrameFacts DEF TimedInv, RowsInv
  <2>3. ~OwnSlotIsLast
        /\ (backend.isFragmentSendingInProgress \/ s <= config.startSlot)
    BY <1>1, <1>3 DEF FragmentsRight, RunSends
  <2>4. CASE s <= config.startSlot
    BY <1>1, <1>2, <2>3, <2>4 DEF OwnSlotIsLast
  <2>5. CASE backend.isFragmentSendingInProgress
    <3>1. s - config.startSlot > 0 /\ s - config.startSlot < f
      BY <1>1, <2>5 DEF FragmentsRight, InTurn
    <3> QED
      BY <1>1, <1>2, <2>2, <3>1
  <2> QED
    BY <2>3, <2>4, <2>5
<1> QED
  BY <1>3 DEF FragmentsRight, InTurn

LEMMA FragmentsSave ==
  ASSUME InTime, TimedInv, FragmentsRight, DcSave
  PROVE  FragmentsRight'
<1>1. /\ UNCHANGED <<config, run, isRunning, isFirstProcess, slotInfo, deviceConfigured,
                     hd, isCollecting>>
      /\ dc.pc = "save" /\ dc \in CollectionState /\ isRunning
  BY PoliteTypes DEF DcSave, smVars, history, TimedInv, RowsInv, PoliteInv, RunsRight,
    InSlot
<1>2. dc'.pc = "send"
  BY <1>1 DEF DcSave, DcGoto, CollectionState
<1>3. SentSlots' = SentSlots
  BY <1>1, <1>2 DEF SentSlots
<1>4. CASE status # "COMPLETED"
  <2>1. backend' = backend /\ status' = status
    BY <1>4 DEF DcSave, IsCollectionComplete, colVars
  <2>2. ~Saved /\ ~Saved'
    BY <1>4, <2>1 DEF Saved
  <2> QED
    BY <1>1, <1>2, <1>3, <2>1, <2>2, FragmentsKept, SameBackendKept
<1>5. CASE status = "COMPLETED"
  <2>1. SavedData = NoData /\ ~backend.isFragmentSendingInProgress
    BY <1>1, <1>5, NothingLeftToSend
  <2>2. /\ backend' = SaveCollection(backend, dataMatrix) /\ status' = "COMPLETED"
    BY <1>5 DEF DcSave, IsCollectionComplete, ClearData
  <2>3. dataMatrix = CompleteData /\ dataMatrix \in Rows /\ Len(dataMatrix) = config.total
    <3>1. /\ Aligned(detections) /\ Len(dataMatrix) = detections /\ detections = config.total
          /\ dataMatrix \in Rows
      BY <1>1, <1>5 DEF TimedInv, RowsInv, RowsRight, PoliteInv, RunsRight, CollectorReady,
        TasksInv, CollectorInv
    <3>2. dataMatrix = [i \in 1 .. config.total |-> dataMatrix[i]]
      BY <3>1 DEF Rows
    <3>3. \A i \in 1 .. config.total : dataMatrix[i] = [run |-> run, slot |-> i - 1]
      BY <3>1 DEF Aligned, MeasuredIn
    <3> QED
      BY <3>1, <3>2, <3>3 DEF CompleteData
  <2>4. dataMatrix # NoData
    BY <2>3 DEF InTime, FragmentsFitSlots
  <2>5. BackendFields(backend', dataMatrix, TRUE, backend.pendingFragments,
                      backend.currentFragmentIndex, backend.isFragmentSendingInProgress,
                      backend.handed)
    BY <2>2 DEF FragmentsRight, BackendRight, HasFields, BackendFields, SaveCollection
  <2>6. /\ SavedData' = dataMatrix /\ HasFields(backend')
        /\ backend'.hasDataToSend = TRUE
        /\ backend'.pendingFragments = backend.pendingFragments
        /\ backend'.currentFragmentIndex = backend.currentFragmentIndex
        /\ backend'.isFragmentSendingInProgress = backend.isFragmentSendingInProgress
    BY <2>5 DEF BackendFields, SavedData
  <2>7. CompleteData' = CompleteData
    BY <1>1 DEF CompleteData
  <2>8. BackendRight'
    BY <1>1, <2>3, <2>4, <2>6 DEF FragmentsRight, BackendRight
  <2>9. HandlerForgets'
    <3>1. hd.pc = "idle"
      BY <1>1 DEF TimedInv, RowsInv, PoliteInv, HandlerAlone
    <3> QED
      BY <1>1, <3>1 DEF HandlerForgets
  <2>10. InTurn'
    BY <2>1, <2>6 DEF InTurn
  <2>11. RunSends'
    <3>1. deviceConfigured /\ Saved'
      BY <1>1, <1>2, <2>2 DEF FragmentsRight, RunSends, Saved
    <3> QED
      BY <1>1, <1>2, <2>3, <2>6, <2>7, <3>1 DEF RunSends, Left
  <2> QED
    BY <1>1, <1>2, <2>8, <2>9, <2>10, <2>11 DEF FragmentsRight, StoppedLeaves
<1> QED
  BY <1>4, <1>5

-----------------------------------------------------------------------------
(* The step that sends.                                                    *)

\* What OnSlotChanged is told of the slot.
SlotInfoRight ==
  isRunning => slotInfo = SlotInfoOf(config, slotInfo.currentSlot)

LEMMA SlotInfoNext ==
  ASSUME InTime, TimedInv, SlotInfoRight, [Next]_vars
  PROVE  SlotInfoRight'
<1>1. CASE HandlerReceive \/ Handler
  BY <1>1, HandlerWhileStopped DEF InTime, TimedInv, RowsInv, SlotInfoRight
<1>2. CASE DcStartScheduler
  <2>1. ~isRunning /\ isConfigured
    BY <1>2 DEF DcStartScheduler, TimedInv, RowsInv, PoliteInv, StartsRight, Starting,
      ConfigurationsAgree, Agreed, HandlerAlone, Quiet
  <2>2. slotInfo' = SlotInfoOf(config, 0) /\ config' = config
    BY <1>2, <2>1 DEF DcStartScheduler, StartScheduler, Start
  <2>3. slotInfo'.currentSlot = 0
    BY <2>2 DEF SlotInfoOf
  <2> QED
    BY <2>2, <2>3 DEF SlotInfoRight
<1>3. CASE DcProcessSlot
  <2>1. CASE ProcessFirst
    BY <2>1 DEF ProcessFirst, SlotInfoRight
  <2>2. CASE ProcessSwitch(SyncTime)
    <3>1. /\ isRunning /\ config' = config
          /\ slotInfo' = SlotInfoOf(config, ExpectedSlot(SyncTime))
      BY <2>2 DEF ProcessSwitch
    <3>2. slotInfo'.currentSlot = ExpectedSlot(SyncTime)
      BY <3>1 DEF SlotInfoOf
    <3> QED
      BY <3>1, <3>2 DEF SlotInfoRight
  <2> QED
    BY <1>3, <2>1, <2>2 DEF DcProcessSlot
<1>4. CASE DcProcessCycleEnd
  BY <1>4 DEF DcProcessCycleEnd, ProcessCycleEnd, SlotInfoRight
<1>5. CASE UNCHANGED smVars
  BY <1>5 DEF smVars, SlotInfoRight
<1>6. UNCHANGED smVars \/ HandlerReceive \/ Handler \/ DcStartScheduler
        \/ DcProcessSlot \/ DcProcessCycleEnd
  BY DEF Next, Tick, TimeUp, vars, HandlerAnswers, Radio, RadioTake, RadioTransmit, DataCollection,
    DcWake, DcCheck, DcConfigureCollector, DcStartCollector, DcStarted, DcObserve,
    DcStopDetect, DcProcessNothing, DcSlotIdle, DcSlot, DcMeasure, DcSave, DcSend,
    DcBurst, DcAfter
<1> QED
  BY <1>1, <1>2, <1>3, <1>4, <1>5, <1>6

(* A slave sends in its own slots, and pin by pin.                         *)
LEMMA OwnSlotFacts ==
  ASSUME InTime, TimedInv, FragmentsRight, SlotInfoRight, dc.pc = "send"
  PROVE  LET s == slotInfo.currentSlot IN
         /\ isRunning /\ ~isFirstProcess /\ s \in Nat /\ s < config.total
         /\ IsActive <=> s \in OwnSlots(config)
         /\ IsActive => slotInfo.activePin = s - config.startSlot
         /\ config.startSlot \in Nat /\ config.count \in Nat \ {0}
         /\ config.startSlot + config.count <= config.total /\ config.total \in Nat
         /\ status = "COMPLETED" => s = config.total - 1
         /\ currentConfig.testCount = config.count
<1>1. isRunning /\ ~isFirstProcess /\ isConfigured /\ hd.pc = "idle"
  BY DEF TimedInv, RowsInv, PoliteInv, RunsRight, InSlot, TasksInv, SchedulerInv,
    HandlerAlone, Quiet
<1>2. slotInfo.currentSlot < config.total
  BY <1>1 DEF TimedInv, RowsInv, PoliteInv, RunsRight
<1>3. slotInfo.currentSlot \in U16 /\ config \in SlotConfig
  BY DEF TimedInv, RowsInv, PoliteInv, TasksInv, SchedulerInv, SMTypeOK, SlotInfo
<1>4. slotInfo.currentSlot \in Nat
  BY <1>3, Widths
<1>5. /\ IsActive <=> slotInfo.currentSlot \in OwnSlots(config)
      /\ IsActive => slotInfo.activePin = slotInfo.currentSlot - config.startSlot
  BY <1>1, <1>2, <1>3, SlotInfoOfFacts DEF SlotInfoRight, IsActive
<1>6. status = "COMPLETED" => slotInfo.currentSlot = config.total - 1
  BY <1>1 DEF TimedInv, NoSlotPassedOver
<1>7. currentConfig.testCount = config.count
  BY <1>1 DEF FragmentsRight, RunSends, TimedInv, RowsInv, PoliteInv,
    ConfigurationsAgree, Agreed
<1>8. /\ config.startSlot \in Nat /\ config.count \in Nat \ {0} /\ config.total \in Nat
      /\ config.startSlot + config.count <= config.total
  BY <1>1, FrameFacts DEF TimedInv, RowsInv
<1> QED
  BY <1>1, <1>2, <1>4, <1>5, <1>6, <1>7, <1>8

\* Nothing goes out in this slot: there is nothing to send, or the slot is not
\* the slave's.
NothingSent ==
  /\ backend' = backend /\ ~backend.isFragmentSendingInProgress
  /\ SavedData # NoData =>
       IF Saved THEN ~OwnSlotIsLast ELSE slotInfo.currentSlot < config.startSlot

\* The last fragment goes out, which is the only one in the last slot.
LastSent ==
  /\ SavedData # NoData
  /\ Saved => FragmentCount(SavedData) = 1
  /\ BackendFields(backend', NoData, FALSE, <<>>, 0, FALSE,
                   DataFrame(SavedData, FragmentCount(SavedData) - 1))

\* Another fragment goes out, that of this slot.
OneSent ==
  LET next == slotInfo.currentSlot + 1 - config.startSlot IN
  /\ SavedData # NoData /\ ~Saved
  /\ 0 < next /\ next < FragmentCount(SavedData)
  /\ FragmentCount(SavedData) <= config.count
  /\ BackendFields(backend', SavedData, TRUE, Packed(SavedData), next, TRUE,
                   backend'.handed)

LEMMA FragmentCountTyped ==
  ASSUME InTime, TimedInv, FragmentsRight, isRunning, SavedData # NoData
  PROVE  FragmentCount(SavedData) \in 1 .. config.count /\ config.count \in Nat
<1>1. SavedData \in Rows /\ Len(SavedData) = config.total
  BY DEF FragmentsRight, BackendRight
<1>2. isConfigured
  BY DEF TimedInv, RowsInv, PoliteInv, TasksInv, SchedulerInv
<1> QED
  BY <1>1, <1>2, FrameFacts DEF TimedInv, RowsInv

LEMMA SendOutcome ==
  ASSUME InTime, TimedInv, FragmentsRight, SlotInfoRight, DcSend
  PROVE  NothingSent \/ LastSent \/ OneSent
<1> DEFINE s == slotInfo.currentSlot
           k == s - config.startSlot
           f == FragmentCount(SavedData)
           pin == slotInfo.activePin
           active == IsActive
<1>1. /\ dc.pc = "send" /\ deviceConfigured /\ isConfigured
      /\ SentSlots = s /\ (Saved <=> status = "COMPLETED")
      /\ HasFields(backend)
      /\ backend.hasDataToSend = (SavedData # NoData)
      /\ backend.lastCollectionData = SavedData
  BY DEF DcSend, FragmentsRight, RunSends, SentSlots, Saved, BackendRight, SavedData,
    TimedInv, RowsInv, PoliteInv, RunsRight, InSlot, TasksInv, SchedulerInv
<1>2. backend' = SendInSlot(backend, active, pin, TRUE, TRUE)
  BY <1>1 DEF DcSend, InTime, PromptTasks
<1>3. /\ s \in Nat /\ s < config.total /\ config.total \in Nat
      /\ config.startSlot \in Nat /\ config.count \in Nat \ {0}
      /\ config.startSlot + config.count <= config.total
      /\ active <=> s \in OwnSlots(config)
      /\ active => pin = k
      /\ Saved => s = config.total - 1
  BY <1>1, OwnSlotFacts
<1>4. active <=> k \in 0 .. (config.count - 1)
  BY <1>3 DEF OwnSlots
<1>5. SavedData # NoData => f \in 1 .. config.count
  BY <1>1, FragmentCountTyped DEF TimedInv, RowsInv, PoliteInv, RunsRight, InSlot
<1>6. Saved => (k = 0 => config.count = 1) /\ (OwnSlotIsLast <=> k = 0)
  BY <1>3 DEF OwnSlotIsLast
<1>7. backend.isFragmentSendingInProgress \in BOOLEAN
  BY DEF FragmentsRight, BackendRight
<1> HIDE DEF active, pin
<1>8. CASE SavedData = NoData
  <2>1. ~backend.isFragmentSendingInProgress
    BY <1>8 DEF FragmentsRight, InTurn
  <2>2. backend' = backend
    BY <1>1, <1>2, <1>8, <2>1 DEF SendInSlot, SendDataToBackend
  <2> QED
    BY <1>8, <2>1, <2>2 DEF NothingSent
<1>9. CASE SavedData # NoData /\ ~active
  <2>1. ~backend.isFragmentSendingInProgress
    <3>1. SUFFICES ASSUME backend.isFragmentSendingInProgress
                   PROVE  FALSE
      OBVIOUS
    <3>2. k > 0 /\ k < f
      BY <1>1, <3>1 DEF FragmentsRight, InTurn
    <3> QED
      BY <1>3, <1>4, <1>5, <1>9, <3>2
  <2>2. backend' = backend
    BY <1>2, <1>9 DEF SendInSlot
  <2>3. Saved => ~OwnSlotIsLast
    BY <1>3, <1>4, <1>6, <1>9
  <2>4. ~Saved => s <= config.startSlot
    BY <1>1, <1>3, <1>9, <2>1 DEF FragmentsRight, RunSends, TimedInv, RowsInv,
      PoliteInv, RunsRight, InSlot
  <2>5. ~Saved => s < config.startSlot
    BY <1>3, <1>4, <1>9, <2>4
  <2> QED
    BY <2>1, <2>2, <2>3, <2>5 DEF NothingSent
<1>10. CASE SavedData # NoData /\ active /\ backend.isFragmentSendingInProgress
  <2>1. /\ ~Saved /\ backend.pendingFragments = Packed(SavedData)
        /\ k > 0 /\ k < f /\ f \in Nat
    BY <1>1, <1>5, <1>10 DEF FragmentsRight, InTurn
  <2>2. Len(backend.pendingFragments) = f
    BY <2>1, PackedFacts
  <2> DEFINE atPin == [backend EXCEPT !.currentFragmentIndex = pin]
  <2>3. BackendFields(atPin, SavedData, TRUE, Packed(SavedData), k, TRUE,
                      backend.handed)
    BY <1>1, <1>3, <1>10, <2>1 DEF BackendFields, HasFields
  <2>4. backend' = SendDataToBackend(atPin, TRUE, TRUE)
    BY <1>2, <1>3, <1>10, <2>1, <2>2 DEF SendInSlot
  <2> HIDE DEF atPin
  <2>5. backend' = SendFragment(atPin, TRUE)
    <3>1. atPin.isFragmentSendingInProgress /\ atPin.currentFragmentIndex = k
          /\ atPin.pendingFragments = Packed(SavedData)
      BY <2>3 DEF BackendFields
    <3> QED
      BY <2>1, <2>2, <2>4, <3>1 DEF SendDataToBackend
  <2>6. k \in 0 .. (f - 1) /\ k + 1 = s + 1 - config.startSlot
    BY <1>3, <2>1
  <2>7. IF k + 1 >= f
          THEN BackendFields(backend', NoData, FALSE, <<>>, 0, FALSE, DataFrame(SavedData, k))
          ELSE BackendFields(backend', SavedData, TRUE, Packed(SavedData), k + 1, TRUE,
                             DataFrame(SavedData, k))
    BY <2>1, <2>3, <2>5, <2>6, SendFragmentFields
  <2>8. CASE k + 1 >= f
    <3>1. k = f - 1
      BY <2>6, <2>8, <2>1
    <3> QED
      BY <1>10, <2>1, <2>7, <2>8, <3>1 DEF LastSent
  <2>9. CASE ~(k + 1 >= f)
    <3>1. BackendFields(backend', SavedData, TRUE, Packed(SavedData), k + 1, TRUE,
                        backend'.handed)
      BY <2>7, <2>9 DEF BackendFields
    <3>2. 0 < k + 1 /\ k + 1 < f /\ f <= config.count
      BY <1>3, <1>5, <1>10, <2>1, <2>6, <2>9
    <3> QED
      BY <1>10, <2>1, <2>6, <3>1, <3>2 DEF OneSent
  <2> QED
    BY <2>8, <2>9
<1>11. CASE SavedData # NoData /\ active /\ ~backend.isFragmentSendingInProgress /\ k = 0
  <2>1. backend' = SendDataToBackend(backend, TRUE, TRUE)
    BY <1>2, <1>3, <1>11 DEF SendInSlot
  <2>2. BackendFields(backend, SavedData, TRUE, <<>>, 0, FALSE, backend.handed)
    BY <1>1, <1>7, <1>11 DEF FragmentsRight, BackendRight, BackendFields
  <2>3. f \in Nat \ {0}
    BY <1>3, <1>5, <1>11
  <2>4. IF 1 >= f
          THEN BackendFields(backend', NoData, FALSE, <<>>, 0, FALSE, DataFrame(SavedData, 0))
          ELSE BackendFields(backend', SavedData, TRUE, Packed(SavedData), 1, TRUE,
                             DataFrame(SavedData, 0))
    BY <1>11, <2>1, <2>2, <2>3, SendStartFields
  <2>5. CASE 1 >= f
    <3>1. f = 1 /\ f - 1 = 0
      BY <2>3, <2>5
    <3> QED
      BY <1>11, <2>4, <2>5, <3>1 DEF LastSent
  <2>6. CASE ~(1 >= f)
    <3>1. BackendFields(backend', SavedData, TRUE, Packed(SavedData), 1, TRUE,
                        backend'.handed)
      BY <2>4, <2>6 DEF BackendFields
    <3>2. s + 1 - config.startSlot = 1 /\ 1 < f /\ f <= config.count
      BY <1>3, <1>5, <1>11, <2>3, <2>6
    <3>3. ~Saved
      BY <1>3, <1>6, <1>11, <3>2, <2>3
    <3>4. BackendFields(backend', SavedData, TRUE, Packed(SavedData),
                        s + 1 - config.startSlot, TRUE, backend'.handed)
      BY <3>1, <3>2
    <3>5. 0 < s + 1 - config.startSlot /\ s + 1 - config.startSlot < f
      BY <3>2
    <3> QED
      BY <1>11, <3>2, <3>3, <3>4, <3>5 DEF OneSent
  <2> QED
    BY <2>5, <2>6
<1>12. CASE SavedData # NoData /\ active /\ ~backend.isFragmentSendingInProgress /\ k # 0
  <2>1. backend' = backend
    BY <1>2, <1>3, <1>12 DEF SendInSlot
  <2>2. Saved
    BY <1>1, <1>3, <1>4, <1>12 DEF FragmentsRight, RunSends, TimedInv, RowsInv,
      PoliteInv, RunsRight, InSlot
  <2> QED
    BY <1>6, <1>12, <2>1, <2>2 DEF NothingSent
<1> QED
  BY <1>7, <1>8, <1>9, <1>10, <1>11, <1>12

LEMMA FragmentsSend ==
  ASSUME InTime, TimedInv, FragmentsRight, SlotInfoRight, DcSend
  PROVE  FragmentsRight' /\ dc'.pc = "after"
<1> DEFINE s == slotInfo.currentSlot
           f == FragmentCount(SavedData)
           pin == slotInfo.activePin
<1>1. /\ dc.pc = "send" /\ dc \in CollectionState /\ isRunning /\ deviceConfigured
      /\ UNCHANGED <<config, run, isRunning, isFirstProcess, slotInfo, deviceConfigured,
                     hd, isCollecting, status>>
      /\ SentSlots = s
      /\ hd.pc = "idle"
  <2>1. /\ dc.pc = "send"
        /\ UNCHANGED <<smVars, colVars, run, deviceConfigured, hd, isCollecting>>
    BY DEF DcSend, history
  <2>2. isRunning /\ hd.pc = "idle"
    BY <2>1 DEF TimedInv, RowsInv, PoliteInv, RunsRight, InSlot, HandlerAlone, Quiet
  <2> QED
    BY <2>1, <2>2, PoliteTypes
       DEF TimedInv, RowsInv, smVars, colVars, SentSlots, FragmentsRight, RunSends
<1>2. /\ s \in Nat /\ s < config.total /\ config.total \in Nat
      /\ config.startSlot \in Nat /\ config.count \in Nat \ {0}
      /\ config.startSlot + config.count <= config.total
      /\ IsActive => pin = s - config.startSlot
      /\ Saved => s = config.total - 1
      /\ currentConfig.testCount = config.count
  BY <1>1, OwnSlotFacts DEF Saved
<1>3. ~(ReachesBurst(backend, IsActive, pin, currentConfig.testCount)
          /\ FragmentsRemain(backend'))
  <2>1. CASE NothingSent
    BY <2>1 DEF NothingSent, ReachesBurst
  <2>2. CASE LastSent
    <3>1. backend'.currentFragmentIndex = 0 /\ backend'.pendingFragments = <<>>
      BY <2>2 DEF LastSent, BackendFields
    <3> QED
      BY <3>1 DEF FragmentsRemain
  <2>3. CASE OneSent
    <3>1. s + 1 - config.startSlot < config.count
      <4>1. s + 1 - config.startSlot < f /\ f <= config.count
        BY <2>3 DEF OneSent
      <4>2. f \in Nat
        BY <2>3, <1>1, FragmentCountTyped DEF OneSent
      <4> QED
        BY <1>2, <4>1, <4>2
    <3>2. ~(IsActive /\ pin = config.count - 1)
      BY <1>2, <3>1
    <3> QED
      BY <1>2, <3>2 DEF ReachesBurst
  <2> QED
    BY <2>1, <2>2, <2>3, SendOutcome
<1>4. dc'.pc = "after"
  BY <1>1, <1>3 DEF DcSend, DcGoto, CollectionState
<1>5. /\ SentSlots' = s + 1 /\ (Saved' <=> Saved)
      /\ CompleteData' = CompleteData /\ (OwnSlotIsLast' <=> OwnSlotIsLast)
  <2>1. ~isFirstProcess
    BY <1>1 DEF TimedInv, RowsInv, PoliteInv, RunsRight, InSlot
  <2> QED
    BY <1>1, <1>4, <2>1 DEF SentSlots, Saved, CompleteData, OwnSlotIsLast
<1>6. HandlerForgets' /\ StoppedLeaves'
  BY <1>1 DEF HandlerForgets, StoppedLeaves
<1>7. CASE NothingSent
  <2>1. backend' = backend /\ SavedData' = SavedData
        /\ ~backend.isFragmentSendingInProgress
    BY <1>7 DEF NothingSent, SavedData
  <2>2. BackendRight' /\ InTurn'
    BY <1>1, <2>1 DEF FragmentsRight, BackendRight, InTurn
  <2>3. RunSends'
    <3>1. ASSUME ~Saved, SavedData # NoData
          PROVE  ~OwnSlotIsLast /\ s + 1 <= config.startSlot
      BY <1>1, <1>2, <1>7, <3>1 DEF NothingSent, FragmentsRight, RunSends
    <3>2. ASSUME Saved
          PROVE  SavedData = CompleteData /\ (SavedData # NoData => ~OwnSlotIsLast)
      BY <1>1, <1>7, <3>2 DEF NothingSent, FragmentsRight, RunSends
    <3> QED
      BY <1>1, <1>4, <1>5, <2>1, <3>1, <3>2 DEF RunSends, Left
  <2> QED
    BY <1>4, <1>6, <2>2, <2>3 DEF FragmentsRight
<1>8. CASE LastSent
  <2>1. /\ HasFields(backend') /\ SavedData' = NoData /\ backend'.hasDataToSend = FALSE
        /\ backend'.pendingFragments = <<>> /\ backend'.currentFragmentIndex = 0
        /\ backend'.isFragmentSendingInProgress = FALSE
        /\ backend'.handed = DataFrame(SavedData, f - 1)
    BY <1>8 DEF LastSent, BackendFields, SavedData
  <2>2. BackendRight' /\ InTurn'
    BY <2>1 DEF BackendRight, InTurn
  <2>3. Saved => backend'.handed = DataFrame(CompleteData, 0)
    BY <1>1, <1>8, <2>1 DEF LastSent, FragmentsRight, RunSends
  <2>4. RunSends'
    BY <1>1, <1>4, <1>5, <2>1, <2>3 DEF RunSends, Left
  <2> QED
    BY <1>4, <1>6, <2>2, <2>4 DEF FragmentsRight
<1>9. CASE OneSent
  <2> DEFINE next == s + 1 - config.startSlot
  <2>1. /\ SavedData # NoData /\ ~Saved /\ 0 < next /\ next < f
        /\ BackendFields(backend', SavedData, TRUE, Packed(SavedData), next, TRUE,
                         backend'.handed)
    BY <1>9 DEF OneSent
  <2>2. /\ HasFields(backend') /\ SavedData' = SavedData
        /\ backend'.hasDataToSend = TRUE
        /\ backend'.pendingFragments = Packed(SavedData)
        /\ backend'.currentFragmentIndex = next
        /\ backend'.isFragmentSendingInProgress = TRUE
    BY <2>1 DEF BackendFields, SavedData
  <2>3. BackendRight'
    BY <1>1, <2>1, <2>2 DEF FragmentsRight, BackendRight
  <2>4. InTurn'
    BY <1>1, <1>2, <1>5, <2>1, <2>2 DEF InTurn
  <2>5. ~OwnSlotIsLast
    BY <1>1, <2>1 DEF FragmentsRight, RunSends
  <2>6. RunSends'
    BY <1>1, <1>5, <2>1, <2>2, <2>5 DEF RunSends
  <2> QED
    BY <1>4, <1>6, <2>3, <2>4, <2>6 DEF FragmentsRight
<1> QED
  BY <1>4, <1>7, <1>8, <1>9, SendOutcome

-----------------------------------------------------------------------------
(* The handler, the end of a slot, and the steps of the others.            *)

(* While the handler works nothing is being sent, so that only what it     *)
(* forgets and what it makes of the frame matter.                          *)
LEMMA FragmentsWhileStopped ==
  ASSUME InTime, TimedInv, FragmentsRight, HandlerReceive \/ Handler,
         BackendRight', HandlerForgets',
         ~backend'.isFragmentSendingInProgress,
         SavedData' # NoData => ~OwnSlotIsLast'
  PROVE  FragmentsRight'
<1>1. dc' = dc /\ ~isRunning /\ ~isRunning' /\ isCollecting' = isCollecting
      /\ dc.pc \in Quiet
  BY HandlerWhileStopped DEF InTime, TimedInv, RowsInv
<1>2. ~isCollecting
  <2>1. CASE HandlerReceive
    BY <2>1 DEF HandlerReceive, InTime, PoliteMaster
  <2>2. CASE Handler
    <3>1. hd.pc # "idle"
      BY <2>2 DEF Handler, HandlerSync, HandlerForget, HandlerAdopt,
        HandlerSchedule, HandlerConfigureCollector, HandlerStop,
        HandlerConfigureScheduler, HandlerDecide, HandlerStartCollector,
        HandlerStartScheduler, HandlerRunning
    <3> QED
      BY <3>1 DEF TimedInv, RowsInv, PoliteInv, HandlerAlone
  <2> QED
    BY <2>1, <2>2
<1>3. InTurn' /\ RunSends' /\ StoppedLeaves'
  BY <1>1, <1>2 DEF InTurn, RunSends, StoppedLeaves
<1> QED
  BY <1>1, <1>3 DEF FragmentsRight, Quiet

LEMMA FragmentsHandler ==
  ASSUME InTime, TimedInv, FragmentsRight, HandlerReceive \/ Handler
  PROVE  FragmentsRight'
<1>1. /\ ~isRunning /\ hd \in HandlerState
      /\ ~backend.isFragmentSendingInProgress
      /\ SavedData # NoData => ~OwnSlotIsLast
  BY HandlerWhileStopped, PoliteTypes
     DEF InTime, TimedInv, RowsInv, FragmentsRight, InTurn, StoppedLeaves
<1>2. CASE UNCHANGED <<config, backend>> /\ HandlerForgets'
  <2>1. SavedData' = SavedData /\ (OwnSlotIsLast' <=> OwnSlotIsLast)
    BY <1>2 DEF SavedData, OwnSlotIsLast
  <2>2. BackendRight'
    BY <1>2, <2>1 DEF FragmentsRight, BackendRight
  <2> QED
    BY <1>1, <1>2, <2>1, <2>2, FragmentsWhileStopped
<1>3. CASE HandlerReceive
  <2>1. UNCHANGED <<config, backend>>
    BY <1>3 DEF HandlerReceive, smVars, devVars
  <2>2. hd'.pc = "sync"
    BY <1>3, <1>1 DEF HandlerReceive, HandlerState
  <2> QED
    BY <1>2, <2>1, <2>2 DEF HandlerForgets
<1>4. CASE HandlerSync
  <2> DEFINE to == hd.msg.to
             changed == ConfigChanged(to)
             configure == ConfigChanged(to) \/ ~deviceConfigured
  <2>1. UNCHANGED <<config, backend>>
    BY <1>4 DEF HandlerSync, smVars
  <2>2. \/ hd' = [hd EXCEPT !.pc = "idle"]
        \/ /\ hd' = [hd EXCEPT !.pc = "forget", !.changed = changed,
                               !.configure = configure]
           /\ to # Unassigned /\ to.mode \in KnownModes
    BY <1>4 DEF HandlerSync
  <2>3. CASE hd' = [hd EXCEPT !.pc = "idle"]
    <3>1. hd'.pc = "idle"
      BY <1>1, <2>3 DEF HandlerState
    <3> QED
      BY <1>2, <2>1, <3>1 DEF HandlerForgets
  <2>4. CASE /\ hd' = [hd EXCEPT !.pc = "forget", !.changed = changed,
                                 !.configure = configure]
             /\ to # Unassigned /\ to.mode \in KnownModes
    <3>1. to \in Assignments
      BY <1>1, <2>4 DEF HandlerState, Message, AssignmentOf
    <3>2. to.total \in Nat /\ to.total > 0
      BY <2>4, <3>1, AssignmentFacts, Widths DEF InTime, PoliteMaster
    <3>3. configure => changed
      BY <3>2 DEF ConfigChanged
    <3>4. hd'.pc = "forget" /\ hd'.changed = changed /\ hd'.configure = configure
      <4> HIDE DEF changed, configure
      <4> QED
        BY <1>1, <2>4 DEF HandlerState
    <3> HIDE DEF changed, configure
    <3>5. HandlerForgets'
      BY <3>3, <3>4 DEF HandlerForgets
    <3> QED
      BY <1>2, <2>1, <3>5
  <2> QED
    BY <2>2, <2>3, <2>4
<1>5. CASE HandlerForget
  <2>1. hd.pc = "forget" /\ hd' = [hd EXCEPT !.pc = "adopt"] /\ config' = config
    BY <1>5 DEF HandlerForget, smVars
  <2>2. hd'.pc = "adopt" /\ hd'.configure = hd.configure
    BY <1>1, <2>1 DEF HandlerState
  <2>3. CASE hd.changed
    <3>1. backend' = ForgetAll(backend) /\ HasFields(backend)
      BY <1>5, <2>3 DEF HandlerForget, FragmentsRight, BackendRight
    <3>2. BackendFields(backend', NoData, FALSE, <<>>, 0, FALSE, backend.handed)
      BY <3>1, ForgetAllFields
    <3>3. /\ SavedData' = NoData /\ HasFields(backend') /\ backend'.hasDataToSend = FALSE
          /\ backend'.pendingFragments = <<>> /\ backend'.currentFragmentIndex = 0
          /\ backend'.isFragmentSendingInProgress = FALSE
      BY <3>2 DEF BackendFields, SavedData
    <3>4. BackendRight' /\ HandlerForgets'
      BY <2>2, <3>3 DEF BackendRight, HandlerForgets
    <3> QED
      BY <3>3, <3>4, FragmentsWhileStopped
  <2>4. CASE ~hd.changed
    <3>1. backend' = backend
      BY <1>5, <2>4 DEF HandlerForget
    <3>2. ~hd'.configure
      BY <2>1, <2>2, <2>4 DEF FragmentsRight, HandlerForgets
    <3> QED
      BY <1>2, <2>1, <2>2, <3>1, <3>2 DEF HandlerForgets
  <2> QED
    BY <2>3, <2>4
<1>6. CASE HandlerAdopt \/ HandlerSchedule
  <2>1. /\ UNCHANGED <<config, backend>>
        /\ \/ hd.pc = "adopt" /\ hd' = [hd EXCEPT !.pc = "schedule"]
           \/ hd.pc = "schedule" /\ hd.configure /\ hd' = [hd EXCEPT !.pc = "collector"]
           \/ hd.pc = "schedule" /\ ~hd.configure /\ hd' = [hd EXCEPT !.pc = "decide"]
    BY <1>6 DEF HandlerAdopt, HandlerSchedule, smVars
  <2>2. /\ hd'.configure = hd.configure
        /\ \/ hd.pc = "adopt" /\ hd'.pc = "schedule"
           \/ hd.pc = "schedule" /\ hd.configure /\ hd'.pc = "collector"
           \/ hd'.pc = "decide"
    BY <1>1, <2>1 DEF HandlerState
  <2>3. SavedData' = SavedData
    BY <2>1 DEF SavedData
  <2>4. HandlerForgets'
    BY <2>2, <2>3 DEF FragmentsRight, HandlerForgets
  <2> QED
    BY <1>2, <2>1, <2>4
<1>7. CASE HandlerConfigureCollector \/ HandlerStop \/ HandlerDecide
  <2>1. /\ UNCHANGED <<config, backend>>
        /\ \/ /\ hd.pc \in {"collector", "stop"}
              /\ \/ hd' = [hd EXCEPT !.pc = "stop"]
                 \/ hd' = [hd EXCEPT !.pc = "scheduler"]
           \/ hd' = [hd EXCEPT !.pc = "idle"]
           \/ hd' = [hd EXCEPT !.pc = "startCollector"]
    BY <1>1, <1>7 DEF HandlerConfigureCollector, HandlerError, HandlerStop, HandlerDecide,
      Stop, smVars, devVars
  <2>2. \/ hd.pc \in {"collector", "stop"} /\ hd'.pc \in {"stop", "scheduler"}
        \/ hd'.pc \in {"idle", "startCollector"}
    BY <1>1, <2>1 DEF HandlerState
  <2>3. SavedData' = SavedData
    BY <2>1 DEF SavedData
  <2>4. HandlerForgets'
    BY <2>2, <2>3 DEF FragmentsRight, HandlerForgets
  <2> QED
    BY <1>2, <2>1, <2>4
<1>8. CASE HandlerConfigureScheduler
  <2>1. /\ hd.pc = "scheduler" /\ backend' = backend
        /\ \/ hd' = [hd EXCEPT !.pc = "decide"]
           \/ hd' = [hd EXCEPT !.pc = "idle"]
    BY <1>8 DEF HandlerConfigureScheduler, HandlerError
  <2>2. hd'.pc \in {"decide", "idle"}
    BY <1>1, <2>1 DEF HandlerState
  <2>3. SavedData = NoData /\ SavedData' = NoData
    BY <2>1 DEF FragmentsRight, HandlerForgets, SavedData
  <2>4. BackendRight' /\ HandlerForgets'
    BY <2>1, <2>2, <2>3 DEF FragmentsRight, BackendRight, HandlerForgets
  <2> QED
    BY <1>1, <2>1, <2>3, <2>4, FragmentsWhileStopped
<1>9. ~HandlerStartCollector /\ ~HandlerStartScheduler /\ ~HandlerRunning
  BY DEF HandlerStartCollector, HandlerStartScheduler, HandlerRunning, TimedInv, RowsInv,
    PoliteInv, HandlerAlone
<1> QED
  BY <1>3, <1>4, <1>5, <1>6, <1>7, <1>8, <1>9 DEF Handler

LEMMA FragmentsAfter ==
  ASSUME InTime, TimedInv, FragmentsRight, DcAfter
  PROVE  FragmentsRight'
<1>1. /\ UNCHANGED <<config, run, isRunning, isFirstProcess, slotInfo, deviceConfigured,
                     hd, isCollecting, backend, status>>
      /\ dc.pc = "after" /\ dc \in CollectionState
  BY PoliteTypes DEF DcAfter, SetAllPinsToInputMode, AsInputs, smVars, colVars, devVars,
    history, TimedInv, RowsInv
<1>2. dc'.pc = "sleep"
  <2> DEFINE next == tick + 1
  <2>1. dc' = [dc EXCEPT !.pc = "sleep", !.wake = next]
    BY DEF DcAfter, DcSleepFor
  <2> HIDE DEF next
  <2> QED
    BY <1>1, <2>1 DEF CollectionState
<1>3. SentSlots' = SentSlots /\ (Saved' <=> Saved)
  BY <1>1, <1>2 DEF SentSlots, Saved
<1> QED
  BY <1>1, <1>2, <1>3, FragmentsKept, SameBackendKept

LEMMA FragmentsOthers ==
  ASSUME InTime, TimedInv, FragmentsRight,
         Tick \/ HandlerAnswers \/ Radio \/ TimeUp \/ UNCHANGED vars
  PROVE  FragmentsRight'
<1>1. /\ UNCHANGED <<config, run, isRunning, isFirstProcess, slotInfo, deviceConfigured,
                     hd, isCollecting, status, dc>>
      /\ \/ backend' = backend
         \/ backend' = [backend EXCEPT !.txSemaphore = FALSE]
         \/ backend' = SendData(backend, Answer)
  BY DEF Tick, HandlerAnswers, Radio, RadioTake, RadioTransmit, TimeUp, vars, smVars, colVars, devVars,
    history
<1>2. BackendKept /\ backend'.handed = backend.handed
  <2>1. CASE backend' = backend
    BY <2>1, SameBackendKept
  <2>2. CASE backend' = [backend EXCEPT !.txSemaphore = FALSE]
    BY <2>2 DEF FragmentsRight, BackendRight, BackendKept, BackendFields, HasFields,
      SavedData
  <2>3. CASE backend' = SendData(backend, Answer)
    BY <2>3, AnswerKeeps DEF FragmentsRight, BackendRight, BackendKept, BackendFields,
      SavedData
  <2> QED
    BY <1>1, <2>1, <2>2, <2>3
<1>3. /\ SentSlots' = SentSlots /\ (Saved' <=> Saved)
      /\ dc.pc # "burst"
  BY <1>1 DEF SentSlots, Saved, FragmentsRight
<1>4. CASE isRunning /\ Saved /\ dc.pc = "send"
  <2>1. /\ SavedData' = SavedData /\ backend'.hasDataToSend = backend.hasDataToSend
        /\ backend'.pendingFragments = backend.pendingFragments
        /\ backend'.currentFragmentIndex = backend.currentFragmentIndex
        /\ backend'.isFragmentSendingInProgress = backend.isFragmentSendingInProgress
        /\ backend'.handed = backend.handed
        /\ HasFields(backend')
    BY <1>2 DEF BackendKept, BackendFields, SavedData
  <2>2. CompleteData' = CompleteData /\ (OwnSlotIsLast' <=> OwnSlotIsLast)
    BY <1>1 DEF CompleteData, OwnSlotIsLast
  <2> QED
    BY <1>1, <1>3, <2>1, <2>2 DEF FragmentsRight, BackendRight, HandlerForgets, InTurn,
      RunSends, StoppedLeaves, Left
<1>5. CASE ~(isRunning /\ Saved /\ dc.pc = "send")
  BY <1>1, <1>2, <1>3, <1>5, FragmentsKept
<1> QED
  BY <1>4, <1>5

LEMMA FragmentsNext ==
  ASSUME InTime, TimedInv, FragmentsRight, SlotInfoRight, [Next]_vars
  PROVE  FragmentsRight'
<1>1. ~DcSlotIdle /\ ~DcBurst
  BY DEF DcSlotIdle, DcBurst, FragmentsRight, TimedInv, RowsInv, PoliteInv, RunsRight,
    InSlot
<1> QED
  BY <1>1, FragmentsBetweenSlots, FragmentsEnterSlot, FragmentsMeasure, FragmentsStart,
     FragmentsCycleEnd, FragmentsSave, FragmentsSend, FragmentsHandler, FragmentsAfter,
     FragmentsOthers
     DEF Next, DataCollection

-----------------------------------------------------------------------------
(* The mailbox.                                                            *)

LEMMA MailboxNext ==
  ASSUME InTime, TimedInv, FragmentsRight, SlotInfoRight, MailboxRight, [Next]_vars
  PROVE  MailboxRight'
<1>1. /\ dc \in CollectionState /\ tick \in Nat /\ HasFields(backend)
      /\ SettleTime \in Nat \ {0}
  BY PoliteTypes, SlaveDeviceAssumption
     DEF TimedInv, RowsInv, FragmentsRight, BackendRight
<1>2. CASE Tick
  <2>1. Idle /\ UNCHANGED <<backend, radio>>
    <3>1. ~(lag < MaxLag)
      BY DEF InTime, PromptTasks, TimedInv, RowsInv, PoliteInv, HandlerAlone
    <3> QED
      BY <1>2, <3>1 DEF Tick, devVars
  <2> QED
    BY <2>1 DEF Idle, MailboxRight, FrameWaits
<1>3. CASE Radio
  BY <1>3 DEF Radio, RadioTake, RadioTransmit, Blocked, MailboxRight, clock
<1>10. CASE HandlerAnswers
  <2>1. UNCHANGED <<dc, tick, radio>>
    BY <1>10 DEF HandlerAnswers, clock
  <2>2. backend' = backend \/ backend'.txBuffer = Answer
    BY <1>1, <1>10, AnswerKeeps DEF HandlerAnswers
  <2> QED
    BY <2>1, <2>2 DEF MailboxRight, FrameWaits
<1>4. CASE HandlerReceive \/ Handler
  <2>1. dc' = dc /\ tick' = tick
    BY <1>4, HandlerWhileStopped DEF InTime, TimedInv, RowsInv
  <2>2. radio' = radio /\ (backend' = backend \/ backend' = ForgetAll(backend))
    BY <1>4 DEF HandlerReceive, Handler, HandlerSync, HandlerForget, HandlerAdopt,
      HandlerSchedule, HandlerConfigureCollector, HandlerStop,
      HandlerConfigureScheduler, HandlerDecide, HandlerStartCollector,
      HandlerStartScheduler, HandlerRunning, devVars
  <2>3. /\ backend'.txSemaphore = backend.txSemaphore
        /\ backend'.txBuffer = backend.txBuffer
    BY <1>1, <2>2, ForgetAllFields
  <2> QED
    BY <2>1, <2>2, <2>3 DEF MailboxRight, FrameWaits
<1>5. CASE UNCHANGED vars
  BY <1>5 DEF vars, clock, devVars, MailboxRight, FrameWaits
<1>6. CASE DcSlot
  <2>1. dc.pc = "slot" /\ CanMeasure
    BY <1>6 DEF DcSlot, CanMeasure, TimedInv, RowsInv, PoliteInv, RunsRight, InSlot,
      NoSlotPassedOver
  <2> DEFINE wake == tick + SettleTime
             row == [run |-> run, slot |-> slotInfo.currentSlot]
  <2>2. dc' = [dc EXCEPT !.pc = "settle", !.wake = wake, !.row = row] /\ tick' = tick
    BY <1>6, <2>1 DEF DcSlot, IgnoreSlot, clock
  <2>3. wake > tick
    BY <1>1
  <2> HIDE DEF wake, row
  <2> QED
    BY <1>1, <2>2, <2>3 DEF MailboxRight, CollectionState
<1>7. CASE DcSend
  BY <1>7, FragmentsSend DEF MailboxRight
<1>8. CASE DcAfter
  <2> DEFINE next == tick + 1
  <2>1. dc' = [dc EXCEPT !.pc = "sleep", !.wake = next] /\ tick' = tick
    BY <1>8 DEF DcAfter, DcSleepFor, clock
  <2>2. next > tick
    BY <1>1
  <2> HIDE DEF next
  <2> QED
    BY <1>1, <2>1, <2>2 DEF MailboxRight, CollectionState
<1>9. CASE DataCollection /\ ~DcSlot /\ ~DcSend /\ ~DcAfter
  <2>1. ~DcSlotIdle /\ ~DcBurst
    BY DEF DcSlotIdle, DcBurst, FragmentsRight, TimedInv, RowsInv, PoliteInv, RunsRight,
      InSlot
  <2>2. /\ radio' = radio
        /\ \/ backend' = backend
           \/ backend' = SaveCollection(backend, dataMatrix)
        /\ \/ dc.pc \notin {"sleep", "settle", "after"}
           \/ dc.pc \in {"sleep", "settle"} /\ dc.wake <= tick
    BY <1>9, <2>1 DEF DataCollection, DcWake, DcCheck, DcConfigureCollector,
      DcStartCollector, DcStartScheduler, DcStarted, DcObserve, DcStopDetect,
      DcProcessNothing, DcProcessCycleEnd, DcProcessSlot, DcMeasure, DcSave, devVars
  <2>3. ~FrameWaits
    BY <1>1, <2>2 DEF MailboxRight, CollectionState
  <2>4. /\ backend'.txSemaphore = backend.txSemaphore
        /\ backend'.txBuffer = backend.txBuffer
    BY <1>1, <2>2 DEF SaveCollection, HasFields
  <2> QED
    BY <2>2, <2>3, <2>4 DEF FrameWaits, MailboxRight
<1> QED
  BY <1>2, <1>3, <1>4, <1>5, <1>6, <1>7, <1>8, <1>9, <1>10 DEF Next, TimeUp

-----------------------------------------------------------------------------
(* What the tasks in time promise.                                         *)

SendingInv == TimedInv /\ SlotInfoRight /\ FragmentsRight /\ MailboxRight

LEMMA SendingInvInit == Init => SendingInv
<1> SUFFICES ASSUME Init PROVE SendingInv
  OBVIOUS
<1>1. /\ RowsInv /\ ~isRunning /\ ~isCollecting /\ dc.pc = "check" /\ hd.pc = "idle"
      /\ backend = BackendInit /\ radio = "idle"
  BY RowsInvInit DEF Init, SMInit
<1>2. TimedInv /\ SlotInfoRight
  BY <1>1 DEF TimedInv, TimesRight, NoSlotPassedOver, SlotInfoRight
<1>3. BackendRight
  BY <1>1 DEF BackendInit, BackendRight, HasFields, SavedData
<1>4. FragmentsRight
  BY <1>1, <1>3
     DEF BackendInit, FragmentsRight, HandlerForgets, InTurn, RunSends, StoppedLeaves,
       SavedData
<1>5. MailboxRight
  BY <1>1 DEF BackendInit, MailboxRight, FrameWaits
<1> QED
  BY <1>2, <1>4, <1>5 DEF SendingInv

LEMMA SendingInvNext ==
  ASSUME InTime, SendingInv, [Next]_vars
  PROVE  SendingInv'
  BY TimedInvNext, SlotInfoNext, FragmentsNext, MailboxNext DEF SendingInv

(* The steps that change the backend, by what they are for.                *)
LEMMA SendingSteps ==
  ASSUME InTime, SendingInv, [Next]_vars
  PROVE  \/ UNCHANGED backend
         \/ backend' = [backend EXCEPT !.txSemaphore = FALSE]
         \/ backend' = SendData(backend, Answer)
         \/ hd' # hd /\ backend' = ForgetAll(backend)
         \/ dc.pc = "slot" /\ backend' = HandOver(backend, ResetResponse)
         \/ DcSave /\ IsCollectionComplete /\ backend' = SaveCollection(backend, dataMatrix)
         \/ DcSend
<1>1. CASE HandlerReceive \/ Handler
  <2>1. CASE HandlerForget
    <3>1. hd \in HandlerState
      BY PoliteTypes DEF SendingInv, TimedInv, RowsInv
    <3>2. hd' # hd
      BY <2>1, <3>1 DEF HandlerForget, HandlerState
    <3> QED
      BY <2>1, <3>2 DEF HandlerForget
  <2>2. CASE ~HandlerForget
    BY <1>1, <2>2 DEF HandlerReceive, Handler, HandlerSync, HandlerAdopt, HandlerSchedule,
      HandlerConfigureCollector, HandlerStop, HandlerConfigureScheduler, HandlerDecide,
      HandlerStartCollector, HandlerStartScheduler, HandlerRunning, devVars
  <2> QED
    BY <2>1, <2>2
<1>2. CASE DataCollection
  <2>1. ~DcSlotIdle /\ ~DcBurst
    BY DEF DcSlotIdle, DcBurst, SendingInv, FragmentsRight, TimedInv, RowsInv, PoliteInv,
      RunsRight, InSlot
  <2>2. CASE DcSlot
    BY <2>2 DEF DcSlot, SendPendingResponses
  <2>3. CASE ~DcSlot
    BY <1>2, <2>1, <2>3 DEF DataCollection, DcWake, DcCheck, DcConfigureCollector,
      DcStartCollector, DcStartScheduler, DcStarted, DcObserve, DcStopDetect,
      DcProcessNothing, DcProcessCycleEnd, DcProcessSlot, DcMeasure, DcSave, DcAfter,
      devVars
  <2> QED
    BY <2>2, <2>3
<1>3. CASE Tick \/ TimeUp \/ HandlerAnswers \/ Radio \/ UNCHANGED vars
  BY <1>3 DEF Tick, TimeUp, HandlerAnswers, Radio, RadioTake, RadioTransmit, vars, devVars
<1> QED
  BY <1>1, <1>2, <1>3 DEF Next

(* A collection that ends has left the data of all of its slots, each in   *)
(* the row of its slot, either saved for the backend or in the frame given *)
(* to MasterComm last: no tick between two steps of the tasks and no order *)
(* of theirs loses a row.                                                  *)
THEOREM CollectionLeavesData ==
  ASSUME InTime
  PROVE  Spec => CollectionLeavesItsData
<1>1. SendingInv /\ [Next]_vars =>
        [isCollecting /\ ~isCollecting' =>
           \/ backend.lastCollectionData = CompleteData
           \/ backend.handed = DataFrame(CompleteData, 0)]_vars
  <2>1. SUFFICES ASSUME SendingInv, Next, isCollecting, ~isCollecting'
                 PROVE  Left
    BY DEF Left, SavedData
  <2>2. ~(HandlerReceive \/ Handler)
    BY <2>1, HandlerWhileStopped DEF InTime, SendingInv, TimedInv, RowsInv
  <2>3. DcStopDetect /\ ~dc.running
    BY <2>1, <2>2 DEF Next, Tick, TimeUp, HandlerAnswers, Radio, RadioTake, RadioTransmit, vars, devVars,
      DataCollection, DcWake, DcCheck, DcConfigureCollector, DcStartCollector,
      DcStartScheduler, DcStarted, DcObserve, DcStopDetect, DcProcessNothing,
      DcProcessCycleEnd, DcProcessSlot, DcSlotIdle, DcSlot, DcMeasure, DcSave, DcSend,
      DcBurst, DcAfter
  <2>4. ~isRunning
    BY <2>1, <2>3 DEF DcStopDetect, SendingInv, TimedInv, RowsInv, PoliteInv, StartsRight
  <2> QED
    BY <2>1, <2>4 DEF SendingInv, FragmentsRight, StoppedLeaves
<1>2. SendingInv /\ [Next]_vars => SendingInv'
  BY SendingInvNext
<1> QED
  BY <1>1, <1>2, SendingInvInit, PTL DEF Spec, CollectionLeavesItsData

(* DataCollectionTask never replaces a frame of its own that still waits   *)
(* in the mailbox, which holds one frame and does not refuse a second: its *)
(* frames are lost to an answer to a ping or a short id, or not at all.    *)
THEOREM FrameLeavesMailboxFirst ==
  ASSUME InTime
  PROVE  Spec => NoFrameOverwritten
<1>1. SendingInv /\ [Next]_vars =>
        [(backend.txSemaphore \/ radio = "taken")
         /\ backend'.txBuffer # backend.txBuffer
           => Answer \in {backend.txBuffer, backend'.txBuffer}]_vars
  <2>1. SUFFICES ASSUME SendingInv, Next, backend.txSemaphore \/ radio = "taken",
                        backend.txBuffer # Answer, backend'.txBuffer # Answer
                 PROVE  backend'.txBuffer = backend.txBuffer
    OBVIOUS
  <2>2. dc.pc \notin {"slot", "send"} /\ HasFields(backend)
    BY <2>1 DEF SendingInv, MailboxRight, FrameWaits, FragmentsRight, BackendRight
  <2>3. ~DcSend
    BY <2>2 DEF DcSend
  <2>4. CASE backend' = ForgetAll(backend)
    BY <2>2, <2>4, ForgetAllFields
  <2>5. CASE \/ backend' = SaveCollection(backend, dataMatrix)
             \/ backend' = [backend EXCEPT !.txSemaphore = FALSE]
             \/ UNCHANGED backend
    BY <2>2, <2>5 DEF SaveCollection, HasFields
  <2>6. backend' # SendData(backend, Answer)
    BY <2>1, <2>2, AnswerKeeps
  <2> QED
    BY <2>1, <2>2, <2>3, <2>4, <2>5, <2>6, SendingSteps
<1>2. SendingInv /\ [Next]_vars => SendingInv'
  BY SendingInvNext
<1> QED
  BY <1>1, <1>2, SendingInvInit, PTL DEF Spec, NoFrameOverwritten

(* Cached data is dropped only once its last fragment is given to          *)
(* MasterComm, or when a sync message changes the configuration: the next  *)
(* collection never replaces data of which a fragment is still to go out.  *)
THEOREM SavedDataGoesOut ==
  ASSUME InTime
  PROVE  Spec => SavedDataIsSent
<1>1. SendingInv /\ [Next]_vars =>
        [LET data == backend.lastCollectionData IN
         data # NoData /\ backend'.lastCollectionData # data /\ hd' = hd
           => backend'.handed = DataFrame(data, FragmentCount(data) - 1)]_vars
  <2>1. SUFFICES ASSUME SendingInv, Next, SavedData # NoData, SavedData' # SavedData,
                        hd' = hd
                 PROVE  backend'.handed
                          = DataFrame(SavedData, FragmentCount(SavedData) - 1)
    BY DEF SavedData
  <2>2. HasFields(backend)
    BY <2>1 DEF SendingInv, FragmentsRight, BackendRight
  <2>3. CASE DcSave /\ IsCollectionComplete
    <3>1. dc.pc = "save" /\ status = "COMPLETED"
      BY <2>3 DEF DcSave, IsCollectionComplete
    <3> QED
      BY <2>1, <3>1, NothingLeftToSend DEF SendingInv
  <2>4. CASE DcSend
    <3>1. LastSent
      BY <2>1, <2>4, SendOutcome
         DEF SendingInv, NothingSent, OneSent, BackendFields, SavedData
    <3> QED
      BY <3>1 DEF LastSent, BackendFields
  <2>5. CASE \/ UNCHANGED backend
             \/ backend' = [backend EXCEPT !.txSemaphore = FALSE]
             \/ backend' = HandOver(backend, ResetResponse)
             \/ backend' = SendData(backend, Answer)
    BY <2>1, <2>2, <2>5, HandOverKeeps, AnswerKeeps DEF HasFields, SavedData
  <2> QED
    BY <2>1, <2>3, <2>4, <2>5, SendingSteps
<1>2. SendingInv /\ [Next]_vars => SendingInv'
  BY SendingInvNext
<1> QED
  BY <1>1, <1>2, SendingInvInit, PTL DEF Spec, SavedDataIsSent
=============================================================================
