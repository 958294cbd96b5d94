----------------------------- MODULE SlaveDevice -----------------------------
(***************************************************************************)
(* A slave: the task that handles the master's messages (SlaveDataProcT:   *)
(* SyncMessageHandler, and the requests answered at once), the task that   *)
(* runs the slots (DataCollectionTask, calling SlotManager,                *)
(* ContinuityCollector and the backend) and the radio task (UwbCommTask),  *)
(* sharing the state of class SlaveDevice without locks.                   *)
(*                                                                         *)
(* The first two tasks have one priority; a tick or the lock of the logger *)
(* switches between them wherever they are.  A call of an operation of     *)
(* another object is a step of its own, and so is a block of assignments;  *)
(* hd.pc and dc.pc say which comes next.  Blocks are not split further.    *)
(* The radio task has a lower priority: it moves only while both others    *)
(* are blocked.                                                            *)
(***************************************************************************)
EXTENDS SlotManager, ContinuityCollector, Backend

CONSTANTS
  Assignments,   (* What a sync message can assign to this slave: mode,    *)
                 (* interval, timeSlot, testCount, startSlot and total.    *)
  Leads,         (* How far ahead of the clock a message puts startTime.   *)
  Resets,        (* Values of the reset request of a message.              *)
  Offsets,       (* Values of the master's clock minus the local clock.    *)
  SettleTime,    (* Ticks ProcessSlot waits for the pins to settle.        *)
  SendResults,   (* {TRUE}, or BOOLEAN when SendData may time out.         *)
  MaxTick,       (* Bounds the local clock.                                *)
  MaxSyncs,      (* Bounds the number of sync messages ...                 *)
  MaxRequests,   (* ... and of pings and short id assignments.             *)
  MaxLag,        (* Bounds the ticks in a row that find a task at work.    *)
  Polite         (* TRUE: the master waits for the end of a collection     *)
                 (* before it sends the next sync message.                 *)

\* A message that has no entry for this slave.
Unassigned == [mode |-> "none"]

KnownModes == {"CONDUCTION", "RESISTANCE", "CLIP"}

\* The widths of what a message assigns (struct SlaveConfig, SlotConfig).
Assignment == [mode : STRING, interval : Nat, timeSlot : U8, testCount : U8,
               startSlot : U16, total : U16]

ASSUME SlaveDeviceAssumption ==
  /\ Assignments \subseteq Assignment
  /\ SettleTime \in Nat \ {0}
  /\ MaxTick \in Nat /\ MaxSyncs \in Nat /\ MaxRequests \in Nat
  /\ MaxLag \in Nat /\ Polite \in BOOLEAN
  /\ Leads \subseteq Int /\ Offsets \subseteq Nat /\ Resets \subseteq BOOLEAN
  /\ SendResults \subseteq BOOLEAN

\* The clock, and the end of a frame started at any time, fit the clock word.
ASSUME ClockWordAssumption ==
  \A o \in Offsets \union {0} :
    /\ MaxTick + o < TimeWord
    /\ \A a \in Assignments : MaxTick + o + a.total * a.interval < TimeWord

VARIABLES
  tick,                  (* HptimerGetUs(), in ticks.                      *)
  timeOffset,
  currentConfig,         (* mode, interval, timeSlot, testCount            *)
  deviceConfigured,      (* SlaveDevice::m_isConfigured                    *)
  deviceState,
  isCollecting,
  isScheduledToStart,
  scheduledStartTime,
  hasPendingResetResponse,
  backend,               (* See module Backend.                            *)
  hd,                    (* SlaveDataProcT: pc, message and locals.        *)
  dc,                    (* DataCollectionTask: pc, wake-up time, locals.  *)
  radio,                 (* UwbCommTask: idle, or about to read txBuffer.  *)
  lag,                   (* Ticks in a row that found a task at work.      *)
  syncs,                 (* History: sync messages received ...            *)
  requests,              (* ... and requests answered.                     *)
  accepted,              (* History: the last assignment adopted.          *)
  run                    (* History: number of starts of the scheduler.    *)

devVars == <<timeOffset, currentConfig, deviceConfigured, deviceState,
             isCollecting, isScheduledToStart, scheduledStartTime,
             hasPendingResetResponse, backend>>

clock == <<tick, lag>>

history == <<syncs, requests, accepted, run>>

vars == <<smVars, colVars, devVars, clock, hd, dc, radio, history>>

SyncTime == tick + timeOffset

DefaultConfig == [mode |-> "CONDUCTION", interval |-> 100, timeSlot |-> 0,
                  testCount |-> 2]

NoMessage == [to |-> Unassigned, startTime |-> 0, currentTime |-> 0, reset |-> FALSE]

Init ==
  /\ SMInit /\ CollectorInit
  /\ tick = 0 /\ lag = 0 /\ timeOffset = 0
  /\ currentConfig = DefaultConfig
  /\ deviceConfigured = FALSE
  /\ deviceState = "IDLE"
  /\ isCollecting = FALSE
  /\ isScheduledToStart = FALSE /\ scheduledStartTime = 0
  /\ hasPendingResetResponse = FALSE
  /\ backend = BackendInit
  /\ hd = [pc |-> "idle", msg |-> NoMessage, changed |-> FALSE, configure |-> FALSE]
  /\ dc = [pc |-> "check", wake |-> 0, wasRunning |-> FALSE, running |-> FALSE,
           row |-> Blank, endsCycle |-> FALSE]
  /\ radio = "idle"
  /\ syncs = 0 /\ requests = 0 /\ accepted = Unassigned /\ run = 0

Blocked ==
  /\ hd.pc = "idle"
  /\ dc.pc \in {"sleep", "settle"} /\ dc.wake > tick

Idle == Blocked /\ ~backend.txSemaphore /\ radio = "idle"

\* A tick may find a task anywhere in its work, and then wakes the other one.
Tick ==
  /\ tick < MaxTick
  /\ Idle \/ lag < MaxLag
  /\ tick' = tick + 1
  /\ lag' = IF Idle THEN 0 ELSE lag + 1
  /\ UNCHANGED <<smVars, colVars, devVars, hd, dc, radio, history>>

-----------------------------------------------------------------------------
(* SyncMessageHandler::ProcessMessage                                      *)

\* A message of the master.  MaxTick leaves room for the cycle it starts, at
\* the earliest at once.
HandlerReceive ==
  /\ hd.pc = "idle"
  /\ syncs < MaxSyncs
  /\ Polite => ~isCollecting /\ ~isScheduledToStart /\ ~isRunning
  /\ \E to \in Assignments \union {Unassigned}, lead \in Leads,
        offset \in Offsets, reset \in Resets :
       LET now == tick + offset
           due == IF lead > 0 THEN tick + lead ELSE tick
       IN
       /\ now + lead >= 0
       /\ to # Unassigned => due + (to.total + 2) * to.interval <= MaxTick
       /\ hd' = [hd EXCEPT !.pc = "sync",
                           !.msg = [to |-> to, startTime |-> now + lead,
                                    currentTime |-> now, reset |-> reset]]
  /\ syncs' = syncs + 1
  /\ UNCHANGED <<smVars, colVars, devVars, clock, dc, radio, requests, accepted, run>>

\* The old configuration is compared field by field, and by the total the
\* scheduler was given; startSlot is not part of the comparison.
ConfigChanged(to) ==
  \/ <<to.mode, to.interval, to.timeSlot, to.testCount>>
       # <<currentConfig.mode, currentConfig.interval, currentConfig.timeSlot,
           currentConfig.testCount>>
  \/ to.total # (IF deviceConfigured THEN config.total ELSE 0)

\* Lines 26 to 131: the clock is set, the entry of this slave looked up.
HandlerSync ==
  LET to == hd.msg.to IN
  /\ hd.pc = "sync"
  /\ timeOffset' = hd.msg.currentTime - tick
  /\ IF to = Unassigned
       THEN hd' = [hd EXCEPT !.pc = "idle"] /\ deviceConfigured' = FALSE
     ELSE IF to.mode \notin KnownModes
       THEN hd' = [hd EXCEPT !.pc = "idle"] /\ UNCHANGED deviceConfigured
     ELSE /\ hd' = [hd EXCEPT !.pc = "forget", !.changed = ConfigChanged(to),
                              !.configure = ConfigChanged(to) \/ ~deviceConfigured]
          /\ UNCHANGED deviceConfigured
  /\ UNCHANGED <<smVars, colVars, currentConfig, deviceState, isCollecting,
                 isScheduledToStart, scheduledStartTime, hasPendingResetResponse,
                 backend, clock, dc, radio, history>>

\* Lines 134 to 148: a changed configuration makes the cached data stale.
HandlerForget ==
  /\ hd.pc = "forget"
  /\ hd' = [hd EXCEPT !.pc = "adopt"]
  /\ backend' = IF hd.changed THEN ForgetAll(backend) ELSE backend
  /\ UNCHANGED <<smVars, colVars, timeOffset, currentConfig, deviceConfigured,
                 deviceState, isCollecting, isScheduledToStart, scheduledStartTime,
                 hasPendingResetResponse, clock, dc, radio, history>>

\* Lines 151 to 174.
HandlerAdopt ==
  LET to == hd.msg.to IN
  /\ hd.pc = "adopt"
  /\ hd' = [hd EXCEPT !.pc = "schedule"]
  /\ currentConfig' = [mode |-> to.mode, interval |-> to.interval,
                       timeSlot |-> to.timeSlot, testCount |-> to.testCount]
  /\ deviceConfigured' = TRUE
  /\ hasPendingResetResponse' = (hasPendingResetResponse \/ hd.msg.reset)
  /\ accepted' = to
  /\ UNCHANGED <<smVars, colVars, timeOffset, deviceState, isCollecting,
                 isScheduledToStart, scheduledStartTime, backend, clock, dc, radio,
                 syncs, requests, run>>

\* Lines 177 and 178.
HandlerSchedule ==
  /\ hd.pc = "schedule"
  /\ hd' = [hd EXCEPT !.pc = IF hd.configure THEN "collector" ELSE "decide"]
  /\ scheduledStartTime' = hd.msg.startTime
  /\ isScheduledToStart' = TRUE
  /\ UNCHANGED <<smVars, colVars, timeOffset, currentConfig, deviceConfigured,
                 deviceState, isCollecting, hasPendingResetResponse, backend,
                 clock, dc, radio, history>>

\* The handler gives up.
HandlerError ==
  /\ hd' = [hd EXCEPT !.pc = "idle"]
  /\ deviceState' = "DEV_ERR"

HandlerConfigureCollector ==
  LET to == hd.msg.to IN
  /\ hd.pc = "collector"
  /\ \/ /\ ConfigureCollector(to.testCount, to.total)
        /\ hd' = [hd EXCEPT !.pc = "stop"]
        /\ UNCHANGED deviceState
     \/ /\ ~CanConfigureCollector(to.testCount)
        /\ HandlerError
        /\ UNCHANGED colVars
  /\ UNCHANGED <<smVars, timeOffset, currentConfig, deviceConfigured, isCollecting,
                 isScheduledToStart, scheduledStartTime, hasPendingResetResponse,
                 backend, clock, dc, radio, history>>

HandlerStop ==
  /\ hd.pc = "stop"
  /\ hd' = [hd EXCEPT !.pc = "scheduler"]
  /\ Stop \/ (~isRunning /\ UNCHANGED smVars)
  /\ UNCHANGED <<colVars, devVars, clock, dc, radio, history>>

SlotConfigOf(to) ==
  [startSlot |-> to.startSlot, count |-> to.testCount, total |-> to.total,
   interval |-> to.interval, single |-> TRUE]

HandlerConfigureScheduler ==
  LET c == SlotConfigOf(hd.msg.to) IN
  /\ hd.pc = "scheduler"
  /\ \/ /\ Configure(c)
        /\ hd' = [hd EXCEPT !.pc = "decide"]
        /\ UNCHANGED deviceState
     \/ /\ ~CanConfigure(c)
        /\ HandlerError
        /\ UNCHANGED smVars
  /\ UNCHANGED <<colVars, timeOffset, currentConfig, deviceConfigured, isCollecting,
                 isScheduledToStart, scheduledStartTime, hasPendingResetResponse,
                 backend, clock, dc, radio, history>>

\* Lines 266 to 295: start now, or leave it to DataCollectionTask.
HandlerDecide ==
  /\ hd.pc = "decide"
  /\ IF SyncTime >= hd.msg.startTime
       THEN hd' = [hd EXCEPT !.pc = "startCollector"] /\ UNCHANGED deviceState
       ELSE hd' = [hd EXCEPT !.pc = "idle"] /\ deviceState' = "READY"
  /\ UNCHANGED <<smVars, colVars, timeOffset, currentConfig, deviceConfigured,
                 isCollecting, isScheduledToStart, scheduledStartTime,
                 hasPendingResetResponse, backend, clock, dc, radio, history>>

HandlerStartCollector ==
  /\ hd.pc = "startCollector"
  /\ \/ /\ StartCollection
        /\ hd' = [hd EXCEPT !.pc = "startScheduler"]
        /\ UNCHANGED deviceState
     \/ /\ ~CanStartCollection
        /\ HandlerError
        /\ UNCHANGED colVars
  /\ UNCHANGED <<smVars, timeOffset, currentConfig, deviceConfigured, isCollecting,
                 isScheduledToStart, scheduledStartTime, hasPendingResetResponse,
                 backend, clock, dc, radio, history>>

\* SlotManager::Start as its callers see it: TRUE when it was running already.
StartScheduler ==
  \/ Start(SyncTime) /\ run' = run + 1
  \/ isConfigured /\ isRunning /\ UNCHANGED <<smVars, run>>

HandlerStartScheduler ==
  /\ hd.pc = "startScheduler"
  /\ \/ /\ StartScheduler
        /\ hd' = [hd EXCEPT !.pc = "running"]
        /\ UNCHANGED deviceState
     \/ /\ ~isConfigured
        /\ HandlerError
        /\ UNCHANGED <<smVars, run>>
  /\ UNCHANGED <<colVars, timeOffset, currentConfig, deviceConfigured, isCollecting,
                 isScheduledToStart, scheduledStartTime, hasPendingResetResponse,
                 backend, clock, dc, radio, syncs, requests, accepted>>

\* The schedule set in HandlerSchedule stays in place.
HandlerRunning ==
  /\ hd.pc = "running"
  /\ hd' = [hd EXCEPT !.pc = "idle"]
  /\ isCollecting' = TRUE
  /\ deviceState' = "RUNNING"
  /\ UNCHANGED <<smVars, colVars, timeOffset, currentConfig, deviceConfigured,
                 isScheduledToStart, scheduledStartTime, hasPendingResetResponse,
                 backend, clock, dc, radio, history>>

\* A ping or a short id is answered at once, in whatever slot and state of the
\* collection.
HandlerAnswers ==
  /\ hd.pc = "idle"
  /\ requests < MaxRequests
  /\ requests' = requests + 1
  /\ \E ok \in SendResults :
       backend' = IF ok THEN SendData(backend, Answer) ELSE backend
  /\ UNCHANGED <<smVars, colVars, timeOffset, currentConfig, deviceConfigured,
                 deviceState, isCollecting, isScheduledToStart, scheduledStartTime,
                 hasPendingResetResponse, clock, hd, dc, radio, syncs, accepted, run>>

Handler ==
  \/ HandlerSync \/ HandlerForget \/ HandlerAdopt \/ HandlerSchedule
  \/ HandlerConfigureCollector \/ HandlerStop \/ HandlerConfigureScheduler
  \/ HandlerDecide \/ HandlerStartCollector \/ HandlerStartScheduler
  \/ HandlerRunning

-----------------------------------------------------------------------------
(* DataCollectionTask::task, one round per tick                            *)

DcGoto(pc) == dc' = [dc EXCEPT !.pc = pc]

DcSleepFor(pc, ticks) == dc' = [dc EXCEPT !.pc = pc, !.wake = tick + ticks]

DcWake ==
  /\ dc.pc = "sleep" /\ dc.wake <= tick
  /\ DcGoto("check")
  /\ UNCHANGED <<smVars, colVars, devVars, clock, hd, radio, history>>

\* processDataCollection: is a scheduled start due?
DcCheck ==
  /\ dc.pc = "check"
  /\ DcGoto(IF isScheduledToStart /\ ~isCollecting /\ SyncTime >= scheduledStartTime
              THEN "collector" ELSE "observe")
  /\ UNCHANGED <<smVars, colVars, devVars, clock, hd, radio, history>>

DcConfigureCollector ==
  /\ dc.pc = "collector"
  /\ \/ /\ ConfigureCollector(currentConfig.testCount, config.total)
        /\ DcGoto("startCollector")
     \/ /\ ~CanConfigureCollector(currentConfig.testCount)
        /\ DcGoto("failed")
        /\ UNCHANGED colVars
  /\ UNCHANGED <<smVars, devVars, clock, hd, radio, history>>

\* A bug: with the collector the scheduler counts as started.
DcStartCollectorOnly ==
  /\ dc.pc = "startCollector"
  /\ \/ StartCollection /\ DcGoto("running")
     \/ ~CanStartCollection /\ DcGoto("failed") /\ UNCHANGED colVars
  /\ UNCHANGED <<smVars, devVars, clock, hd, radio, history>>

DcStartCollector ==
  /\ dc.pc = "startCollector"
  /\ \/ StartCollection /\ DcGoto("startScheduler")
     \/ ~CanStartCollection /\ DcGoto("failed") /\ UNCHANGED colVars
  /\ UNCHANGED <<smVars, devVars, clock, hd, radio, history>>

DcStartScheduler ==
  /\ dc.pc = "startScheduler"
  /\ \/ StartScheduler /\ DcGoto("running")
     \/ ~isConfigured /\ DcGoto("failed") /\ UNCHANGED <<smVars, run>>
  /\ UNCHANGED <<colVars, devVars, clock, hd, radio, syncs, requests, accepted>>

\* The start is done, or given up; either way it is no longer scheduled.
DcStarted ==
  /\ \/ dc.pc = "running" /\ isCollecting' = TRUE /\ deviceState' = "RUNNING"
     \/ dc.pc = "failed" /\ deviceState' = "DEV_ERR" /\ UNCHANGED isCollecting
  /\ DcGoto("observe")
  /\ isScheduledToStart' = FALSE
  /\ scheduledStartTime' = 0
  /\ UNCHANGED <<smVars, colVars, timeOffset, currentConfig, deviceConfigured,
                 hasPendingResetResponse, backend, clock, hd, radio, history>>

\* IsRunning() is read once, and used after other tasks may have changed it.
DcObserve ==
  /\ dc.pc = "observe"
  /\ dc' = [dc EXCEPT !.pc = "stopped", !.running = isRunning]
  /\ UNCHANGED <<smVars, colVars, devVars, clock, hd, radio, history>>

\* A bug: what was seen is not kept for the next round.
DcStopNeverDetected ==
  /\ dc.pc = "stopped"
  /\ DcGoto("process")
  /\ UNCHANGED <<smVars, colVars, devVars, clock, hd, radio, history>>

\* The end of a cycle: whatever is scheduled by now is cancelled with it.
DcStopDetect ==
  /\ dc.pc = "stopped"
  /\ dc' = [dc EXCEPT !.pc = "process", !.wasRunning = dc.running]
  /\ IF dc.wasRunning /\ ~dc.running /\ isCollecting
       THEN /\ isCollecting' = FALSE
            /\ deviceState' = "IDLE"
            /\ isScheduledToStart' = FALSE
            /\ scheduledStartTime' = 0
       ELSE UNCHANGED <<isCollecting, deviceState, isScheduledToStart,
                        scheduledStartTime>>
  /\ UNCHANGED <<smVars, colVars, timeOffset, currentConfig, deviceConfigured,
                 hasPendingResetResponse, backend, clock, hd, radio, history>>

\* SlotManager::Process: nothing to do, the end of the cycle, or a slot.
DcProcessNothing ==
  /\ dc.pc = "process"
  /\ ~ProcessDue(SyncTime)
  /\ DcSleepFor("sleep", 1)
  /\ UNCHANGED <<smVars, colVars, devVars, clock, hd, radio, history>>

DcProcessCycleEnd ==
  /\ dc.pc = "process"
  /\ ProcessCycleEnd(SyncTime)
  /\ SetAllPinsToInputMode
  /\ DcSleepFor("sleep", 1)
  /\ UNCHANGED <<devVars, clock, hd, radio, history>>

DcProcessSlot ==
  /\ dc.pc = "process"
  /\ \/ /\ ProcessFirst
        /\ dc' = [dc EXCEPT !.pc = "slot", !.endsCycle = FALSE]
     \/ /\ ProcessSwitch(SyncTime)
        /\ dc' = [dc EXCEPT !.pc = "slot", !.endsCycle = SwitchEndsCycle(SyncTime)]
  /\ UNCHANGED <<colVars, devVars, clock, hd, radio, history>>

IsActive == slotInfo.slotType = "ACTIVE"
IsFirstActive == IsActive /\ slotInfo.activePin = 0

\* sendPendingResponses: the response is dropped even when SendData fails.
SendPendingResponses ==
  IF hasPendingResetResponse
    THEN /\ \E ok \in SendResults :
              backend' = IF ok THEN HandOver(backend, ResetResponse) ELSE backend
         /\ hasPendingResetResponse' = FALSE
    ELSE UNCHANGED <<backend, hasPendingResetResponse>>

\* OnSlotChanged up to ProcessSlot's delay.
DcSlotIdle ==
  /\ dc.pc = "slot"
  /\ ~isCollecting
  /\ IF IsFirstActive THEN SendPendingResponses
                      ELSE UNCHANGED <<backend, hasPendingResetResponse>>
  /\ DcGoto("after")
  /\ UNCHANGED <<smVars, colVars, timeOffset, currentConfig, deviceConfigured,
                 deviceState, isCollecting, isScheduledToStart, scheduledStartTime,
                 clock, hd, radio, history>>

DcSlot ==
  /\ dc.pc = "slot"
  /\ isCollecting
  /\ IF IsFirstActive THEN SendPendingResponses
                      ELSE UNCHANGED <<backend, hasPendingResetResponse>>
  /\ \/ /\ DrivePins(slotInfo.activePin, IsActive)
        /\ dc' = [dc EXCEPT !.pc = "settle", !.wake = tick + SettleTime,
                            !.row = [run |-> run, slot |-> slotInfo.currentSlot]]
     \/ /\ IgnoreSlot
        /\ DcGoto("save")
  /\ UNCHANGED <<smVars, timeOffset, currentConfig, deviceConfigured, deviceState,
                 isCollecting, isScheduledToStart, scheduledStartTime, clock, hd,
                 radio, history>>

\* The rest of ProcessSlot.  A row says for which slot of which run the pins
\* were set when it was measured.
DcMeasure ==
  /\ dc.pc = "settle" /\ dc.wake <= tick
  /\ MeasureSlot(dc.row)
  /\ DcGoto("save")
  /\ UNCHANGED <<smVars, devVars, clock, hd, radio, history>>

\* A bug: the rows are kept after they were cleared.
DcSaveCleared ==
  /\ dc.pc = "save"
  /\ IF IsCollectionComplete
       THEN ClearData /\ backend' = SaveCollection(backend, dataMatrix')
       ELSE UNCHANGED <<colVars, backend>>
  /\ DcGoto("send")
  /\ UNCHANGED <<smVars, timeOffset, currentConfig, deviceConfigured, deviceState,
                 isCollecting, isScheduledToStart, scheduledStartTime,
                 hasPendingResetResponse, clock, hd, radio, history>>

\* A complete collection is kept for the next cycle and its rows cleared.
DcSave ==
  /\ dc.pc = "save"
  /\ IF IsCollectionComplete
       THEN ClearData /\ backend' = SaveCollection(backend, dataMatrix)
       ELSE UNCHANGED <<colVars, backend>>
  /\ DcGoto("send")
  /\ UNCHANGED <<smVars, timeOffset, currentConfig, deviceConfigured, deviceState,
                 isCollecting, isScheduledToStart, scheduledStartTime,
                 hasPendingResetResponse, clock, hd, radio, history>>

\* The rest of OnSlotChanged, with the slot information as it is by now.
DcSend ==
  /\ dc.pc = "send"
  /\ \E ok \in SendResults :
       backend' = SendInSlot(backend, IsActive, slotInfo.activePin, deviceConfigured, ok)
  /\ DcGoto(IF ReachesBurst(backend, IsActive, slotInfo.activePin,
                            currentConfig.testCount) /\ FragmentsRemain(backend')
              THEN "burst" ELSE "after")
  /\ UNCHANGED <<smVars, colVars, timeOffset, currentConfig, deviceConfigured,
                 deviceState, isCollecting, isScheduledToStart, scheduledStartTime,
                 hasPendingResetResponse, clock, hd, radio, history>>

\* The loop that sends all remaining fragments in the last slot.
DcBurst ==
  /\ dc.pc = "burst"
  /\ \/ /\ FragmentsRemain(backend)
        /\ \E ok \in SendResults :
             backend' = SendDataToBackend(backend, deviceConfigured, ok)
        /\ UNCHANGED dc
     \/ /\ ~FragmentsRemain(backend)
        /\ DcGoto("after")
        /\ UNCHANGED backend
  /\ UNCHANGED <<smVars, colVars, timeOffset, currentConfig, deviceConfigured,
                 deviceState, isCollecting, isScheduledToStart, scheduledStartTime,
                 hasPendingResetResponse, clock, hd, radio, history>>

\* Process() after the slot callback: the cycle-end callback of a continuous run.
DcAfter ==
  /\ dc.pc = "after"
  /\ IF dc.endsCycle THEN SetAllPinsToInputMode ELSE UNCHANGED colVars
  /\ DcSleepFor("sleep", 1)
  /\ UNCHANGED <<smVars, devVars, clock, hd, radio, history>>

DataCollection ==
  \/ DcWake \/ DcCheck \/ DcConfigureCollector \/ DcStartCollector
  \/ DcStartScheduler \/ DcStarted \/ DcObserve \/ DcStopDetect
  \/ DcProcessNothing \/ DcProcessCycleEnd \/ DcProcessSlot
  \/ DcSlotIdle \/ DcSlot \/ DcMeasure \/ DcSave \/ DcSend \/ DcBurst \/ DcAfter

-----------------------------------------------------------------------------
(* UwbCommTask: the semaphore is taken, then txBuffer read under its mutex.*)

RadioTake ==
  /\ Blocked
  /\ radio = "idle" /\ backend.txSemaphore
  /\ radio' = "taken"
  /\ backend' = [backend EXCEPT !.txSemaphore = FALSE]
  /\ UNCHANGED <<smVars, colVars, timeOffset, currentConfig, deviceConfigured,
                 deviceState, isCollecting, isScheduledToStart, scheduledStartTime,
                 hasPendingResetResponse, clock, hd, dc, history>>

RadioTransmit ==
  /\ Blocked
  /\ radio = "taken"
  /\ radio' = "idle"
  /\ UNCHANGED <<smVars, colVars, devVars, clock, hd, dc, history>>

Radio == RadioTake \/ RadioTransmit

\* The bound on time is reached.
TimeUp == tick = MaxTick /\ UNCHANGED vars

Next == Tick \/ TimeUp \/ HandlerReceive \/ HandlerAnswers \/ Handler \/ DataCollection \/ Radio

Spec == Init /\ [][Next]_vars

\* Every task runs when it is its turn, and time passes.
FairSpec ==
  /\ Spec
  /\ WF_vars(Tick) /\ WF_vars(Handler) /\ WF_vars(DataCollection) /\ WF_vars(Radio)

-----------------------------------------------------------------------------
AssignmentOf == Assignments \union {Unassigned}

Rows == Seq({Blank} \union [run : Nat, slot : U16])

TypeOK ==
  /\ SMTypeOK
  /\ num \in 1..MaxGpioPins /\ detections \in Nat \ {0}
  /\ status \in {"IDLE", "RUNNING", "COMPLETED"}
  /\ currentCycle \in 0 .. detections /\ dataMatrix \in Rows
  /\ outputs \subseteq 0 .. (MaxGpioPins - 1)
  /\ tick \in 0..MaxTick
  /\ hd.msg.to \in AssignmentOf /\ accepted \in AssignmentOf
  /\ deviceState \in {"IDLE", "READY", "RUNNING", "DEV_ERR"}
  /\ backend.lastCollectionData \in Rows \union {NoData}
  /\ backend.currentFragmentIndex \in 0 .. Len(backend.pendingFragments)

(* A slave drives a pin of the harness only while its scheduler runs, in   *)
(* a slot of its own, and then only the one pin of that slot, so that two  *)
(* slaves with disjoint slots never drive at once.  (Between the switch to *)
(* a slot and its callback the pin of the slot before is still driven.)    *)
DrivesOnlyInOwnSlot ==
  outputs # {} /\ dc.pc # "slot" =>
    /\ isRunning
    /\ slotInfo.slotType = "ACTIVE"
    /\ outputs = {slotInfo.activePin}

(* While a collection runs, the collector measures as many rows as the     *)
(* scheduler has slots, and drives as many pins as it has own slots.       *)
CollectorMatchesScheduler ==
  isCollecting /\ isRunning => detections = config.total /\ num = config.count

(* No order of handler and polling task steps fails a start.               *)
NoStartFails == deviceState # "DEV_ERR"

(* A collection that ends has left the data of all of its slots, each in   *)
(* the row of its slot, either saved for the backend or in the frame       *)
(* DataCollectionTask gave MasterComm last.                                *)
CompleteData == [i \in 1..config.total |-> [run |-> run, slot |-> i - 1]]

CollectionLeavesItsData ==
  [][ isCollecting /\ ~isCollecting' =>
        \/ backend.lastCollectionData = CompleteData
        \/ backend.handed = DataFrame(CompleteData, 0) ]_vars

(* A frame handed to the radio is transmitted before DataCollectionTask    *)
(* replaces it in the mailbox, or it was an answer; and what that task has *)
(* handed over is lost only to an answer.  SlaveDataProcT has its priority *)
(* and writes to the same mailbox whenever a request arrives.              *)
NoFrameOverwritten ==
  [][ (backend.txSemaphore \/ radio = "taken") /\ backend'.txBuffer # backend.txBuffer
        => Answer \in {backend.txBuffer, backend'.txBuffer} ]_vars

(* Cached data is dropped only once its last fragment is given to          *)
(* MasterComm, or when a sync message changes the configuration.           *)
SavedDataIsSent ==
  [][ LET data == backend.lastCollectionData IN
      data # NoData /\ backend'.lastCollectionData # data /\ hd' = hd
        => backend'.handed = DataFrame(data, FragmentCount(data) - 1) ]_vars

(* The loop that sends the remaining fragments in the last slot ends.      *)
BurstEnds == dc.pc = "burst" ~> dc.pc # "burst"

(* While the scheduler runs and the handler is idle, the slots it serves   *)
(* are those of the last assignment accepted.                              *)
AssignmentInForce ==
  isRunning /\ hd.pc = "idle" => config = SlotConfigOf(accepted)

(* The data cached for the backend holds the measurements of one run, each *)
(* in the row of its slot, however late the polling: rows are filled in    *)
(* callback order, so a slot that is passed over must keep the collection  *)
(* from completing.  Of a master that announces its starts, whenever its   *)
(* messages arrive, and of one that starts cycles at once but waits for    *)
(* the end of the one before.  A message that starts a cycle at once while *)
(* a slot of another is being measured can spoil the rows.                 *)
SavedDataCoherent ==
  LET data == backend.lastCollectionData IN
  data # NoData =>
    \E r \in 1..run : \A i \in DOMAIN data : data[i] = [run |-> r, slot |-> i - 1]

(* Every sync message accepted for a later start starts a cycle of its own *)
(* (slot_manager_optimization.md: one complete cycle per SyncMessage).     *)
EverySyncStartsACycle ==
  \A n \in 0..MaxSyncs :
    (hd.pc = "idle" /\ isScheduledToStart /\ SyncTime < scheduledStartTime /\ run = n)
      ~> run = n + 1

(* A collection ends, so that the next one can be scheduled.               *)
CollectionEnds == isCollecting ~> ~isCollecting
=============================================================================
