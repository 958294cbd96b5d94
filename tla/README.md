# Verification of the wire-harness slave

The repository is the firmware of a slave (STM32F4 class, FreeRTOS, a CX310 UWB radio) of a
wire-harness tester.  A master sends *sync messages* that set the slave's clock and assign
every slave a share of a TDMA frame.  In each of its own slots a slave drives one pin and
measures all pins; the rows it collected are sent to a backend, in fragments, in the own slots of
the *next* frame.  The slave also drives a lock, and is updated through a boot loader that it enters on
a command at its RS485 port or on a message of the LTLP transfer protocol.  This directory models
these parts of the firmware, checks them with TLC and proves their main properties with TLAPS.

The models form three compositions: **the collection** (`SlaveDevice`: scheduler, collector,
backend, sync handler), **the receive path** (`ReceivePath`: radio task, reassembly, message handlers, lock) and
**maintenance** (`Maintenance`: LTLP, OTA task, command line, boot flag).

## 1. Inventory

| component (src/) | state | operations | interacts with |
|---|---|---|---|
| **SlotManager** `User/slot_manager/` | slot configuration, `m_IsConfigured`, `m_IsRunning`, `m_IsFirstProcess`, `m_CycleCompleted`, `m_StartTimeUs`, `m_CurrentSlotInfo` | `Configure`, `Start`, `Stop`, `Process` | called by handler and polling task; calls back `OnSlotChanged`, the cycle-end callback |
| **ContinuityCollector** `User/continuity_collector/` | `m_config`, `m_status`, `m_currentCycle`, `m_dataMatrix`, `m_lastActivePin`, the GPIO directions | `Configure`, `StartCollection`, `ProcessSlot` (sleeps in the middle), `ClearData`, `SetAllPinsToInputMode` | called by handler, slot callback, cycle-end callback |
| **Backend transmission** `slave_device.cpp` 240-525, 785-919; `task/MasterComm.cpp` 325-348 | cached collection, pending fragments and their index, `txBuffer`, `uwbTxSemaphore` | `sendDataToBackend`, the burst of the last slot, `SendData` | polling task and `SlaveDataProcT` (answers) write, radio task takes |
| **SyncMessageHandler** `app/master_slave_message_handlers.cpp` | locals; writes the state of SlaveDevice, SlotManager and collector | `ProcessMessage` | runs in `SlaveDataProcT` |
| **SlaveDevice** `app/slave_device.cpp` | `m_timeOffset`, `currentConfig`, `m_isConfigured`, `m_deviceState`, `m_isCollecting`, the scheduled start, the pending reset response | `DataCollectionTask`, `SlaveDataProcT`, `AccessoryTask`, `OnSlotChanged` | everything above, without locks but for the clock offset |
| **Ping and short-id handlers** `app/` | `m_shortId`, `m_isJoined` | answer a message | run in `SlaveDataProcT`, answer through `txBuffer` |
| **ProtocolProcessor** `protocol/` | `receiveBuffer_`, `fragmentMap_`, `completeFrames_` | `processReceivedData` with `extractCompleteFrames` and `reassembleFragments`, `getNextCompleteFrame` | SlaveDataProcT; messages and their layout are conversions without state |
| **MasterComm** `task/MasterComm.cpp`, CX310 | `rxBuffer`, `txBuffer` and their semaphores; what the chip has received | rounds of `UwbCommTask`: transmit, receive, delay | SlaveDataProcT on both mailboxes |
| **Accessories** `accessory/` | button edges, valves, `m_state` | `Update` (every 300 ms), `Reset` | AccessoryTask and sync handler, without a lock |
| **LTLP** `ota/ltlp/` | sender, receiver, kernel and parser states, tries, times, a transfer put off | `ltlpSendData`, `ltlpParse`, `ltlpRun` | OTA task and its port; callbacks |
| **OTA task** `User/ota/`, `ota/ota.c` | `m_upgradeFlag` | `processOta`, `ltlpRun`, `ota_enter_bootloader` | LTLP, boot flag. Built only with `ENABLE_OTA_TASK` (0 in config.h:82) |
| **Boot flag** `bootloader/bootloader_flag.c` | two words of flash | erase, write, check | OTA task and command line write it, the boot loader reads it |
| **Command line** `bootloader/uart_cmd_handler.c` | `uart_cmd_buffer`, `uart_cmd_index`, `cmd_ready_flag` | receive interrupt; `uart_cmd_handler_task` | shared by the two without a lock; gets every byte of the port, those of LTLP frames too; built always |
| Factory test, timer, start-up; vendored code | | | not program logic |

**Hard behaviours.** Two tasks of one priority (28) share `SlaveDevice`, `SlotManager` and the
collector without locks: `SlaveDataProcT`, which runs a handler of eleven calls and blocks of
assignments, and `DataCollectionTask`, which polls once per millisecond and *sleeps inside* a slot
callback.  The radio task (24) runs only when both wait.  Time is read twice, converted between
widths, moved either way by sync messages, and falls by 2^32 when the microsecond timer wraps.  Polls may be
late by more than a slot.  What a collection leaves behind is sent one frame later, while the next
collection fills the same buffers.  Every mailbox holds one frame, and the one for transmission has two
writers that do not know of each other.  The interrupt of the RS485 port puts every byte into both the LTLP queue and
the command buffer.  The air loses fragments, the
RS485 line loses and garbles bytes, answers come late, flash operations fail, power goes.  `PROJECT.json`
lists each such hazard at its line.

**What makes the components correct.**

* Scheduler: the slot served is a slot of the present configuration, never early, never twice in a
  cycle; a cycle ends after its full duration, ends once the clock can show its end, and nothing is served after it.
* Collector: pins are driven only in the own slot; rows are in the order of slots.
* Backend: what is kept is sent once completely before it is dropped; no frame of the polling task is overwritten by its next.
* Handler and tasks: the slots served are those assigned; scheduler and collector agree; every
  accepted sync message starts a cycle; a collection ends; no start fails; what a collection leaves is complete.
* Receive path: a message is handled whole, once, in order, if its fragments arrive; no reception is lost in
  the mailbox; a request is answered.
* Lock: valves and `m_state`, from which the status is reported, agree.
* LTLP: a transfer of acknowledged frames that is reported done has arrived in order, every transfer ends,
  and fails only for a cause.
* Boot flag and command line: the boot loader is entered if a request message or the command arrived, and
  only if one of them did.

## 2. Modules

| module | stands for |
|---|---|
| `SlotManager` | state and operations of `SlotManager`, one operator per operation; `Process` is split at its early returns (`ProcessFirst`, `ProcessCycleEnd`, `ProcessSwitch`, `~ProcessDue`). `CanConfigure` are the checks of `Configure` |
| `SlotCycle` | `SlotManager` under an owner that configures, starts, stops and polls it in every order, and a clock: a timer that wraps (`Tick`) plus an offset (`SetTimeOffset`). `served`, `cycleEnds`, `late`, `putBack` record callbacks and what the clock did |
| `SlotManagerProofs` | lemmas about the scheduler's arithmetic and slots, for both of its owners |
| `SlotCycleProofs` | theorems about `SlotCycle` |
| `ContinuityCollector` | state and operations of the collector; `ProcessSlot` is two operators, `DrivePins` before its delay and `MeasureSlot` after it. A row of the matrix is recorded as (run, slot) for which the pins were set |
| `Backend` | cached data, fragments and transmit mailbox as one record, with an operator per operation; the ghost `handed` is what the polling task last put into the mailbox. `FragmentCount` is the number of fragments a collection packs into |
| `SlaveDevice` | the three tasks, composing the modules above, and the answers to pings and short ids that share the mailbox (`HandlerAnswers`); one action per call of another object or block of assignments, in the order of the code |
| `SlaveDeviceProofs` | types and bounds of `SlaveDevice`, for any master; pins, starts and agreement of scheduler and collector, under a polite one |
| `CollectionProofs` | what a collection leaves and what becomes of it, under a polite master and with tasks in time |
| `Reassembly` | the receiving side of `ProtocolProcessor`; bytes counted in halves of a fragment, so that a reception may end inside one. `ProcessReceivedData` puts a reception behind what is in the buffer (`unread`), each `Extract` looks at one unit of it, and a frame is taken out when all were looked at |
| `LockController` | both buttons, the valves one by one, `Update` in AccessoryTask and `Reset` in the sync handler |
| `ReceivePath` | master, other slaves and air; `UwbCommTask`, `SlaveDataProcT`, AccessoryTask and the tick; DataCollectionTask as the other sender, at any time (`CollectionSends`); composes the two modules above. What the environment may do is `traffic`, spent step by step |
| `ReceivePathProofs` | theorems about `ReceivePath`: mailbox, lock, types, and what becomes of a message |
| `TransferService` | what LTLP promises: an abstract specification without frames on a line, timers or retries, of the actions `Ask`, `Deliver`, `Finish`, `Fail` |
| `Ltlp` | the library at any node: one operator per branch of sender, receiver, kernel and parser; what it sends and which callback it makes are parameters |
| `LtlpTransfer` | two nodes with `Ltlp` over a line with faults and delays; `Service` instantiates `TransferService` |
| `BootFlag` | the two words of flash and who writes them, with failed operations and power loss; the boot loader by what Docs/flash_flag_implementation.md:138-146 requires of it |
| `CommandLine` | buffer, index and flag; interrupt against task, each statement of the task a step; `spelled` is how much of the command has come in order |
| `Maintenance` | composes the three: host or terminal on the port (`setup`), the interrupt that feeds both (`PortReceives`), OTA task, command task, resets |
| `TransferProofs` | types of both LTLP nodes and of the line; that every frame belongs to a transfer asked for; the invariant `LinkOK` of the two ends and the line, and the moves that keep it |
| `MaintenanceProofs` | theorems about `Maintenance`: types, command line, flag, who asked |
| `ServiceProofs` | that every step of both nodes, the line and the clock is one of these moves, and of `TransferService` |
| `MCSlotCycle`, `MCSlaveDevice`, `MCReceivePath`, `MCMaintenance` | instances for TLC |

In `SlaveDevice`, `hd.pc` says where `SyncMessageHandler::ProcessMessage` is, `dc.pc` where the
polling task is:

    hd: idle -> sync -> forget -> adopt -> schedule -> collector -> stop -> scheduler -> decide
                                              \------- (nothing changed) ------------^    |
                          idle <------- running <- startScheduler <- startCollector <-----/ start now
    dc: sleep -> check -> (collector -> startCollector -> startScheduler -> running|failed) -> observe
              -> stopped -> process -> slot -> settle -> save -> send -> (burst) -> after -> sleep

In `ReceivePath`, `radio` and `handler` say where the two polling tasks are in their round, `accessory` and
`resetting` which valve is next:

    radio:   sleep -> tx -> rx -> sleep         handler: sleep -> poll -> (process: a unit each, then a frame each) -> sleep
    accessory: sleep -> scan -> (open valves -> Locked) -> (close valves -> Unlocked) -> status -> sleep

In `Maintenance` a chunk (`chunk`) is what one call of `ltlpParse` was given, `step` the next flash operation of
`setter`, and `task` the next statement of the command task.

**Granularity and scheduling.** `configUSE_TIME_SLICING` is 0, `configUSE_PREEMPTION` 1,
and a task woken by the tick preempts one of its own priority (FreeRTOS V10.3.1, tasks.c:2804).
The logger takes a semaphore (`easylogger/port/elog_port.c`:93), so that log calls are switch
points too.  The models therefore switch between the two tasks at every call and between blocks of
assignments; a block is not split, and Process is split only where it calls back.  `Tick` normally
fires when every task waits; `MaxLag` allows that many ticks in a row that find a task at work.

**Abstractions.** A frame is (data, index); the bytes, compression and log texts are left out.  One
clock unit of `SlotCycle` stands for a millisecond of the code's microsecond clock, and a tick of
`SlaveDevice` likewise; elapsed time is modulo `TimeWord` for 2^64, the timer of `SlotCycle` modulo
`TimerWord` for 2^32.  A sync message sets the offset between the two, so that the clock may move while
a cycle is scheduled or running; in `SlotCycle` at most once between two starts.  The wrap of the timer is in `SlotCycle`
only: `tick` of `SlaveDevice` is bounded, and stands for a lap of 71 minutes at most.
`MaxDetections` stands for 65535, `MaxGpioPins` for 64.

In `ReceivePath` SlaveDataProcT and AccessoryTask (28) run before the radio task (24), each of the two polling
tasks sleeps until the next tick, and AccessoryTask sleeps at least one round of the radio.  There is no
checksum in the protocol: a frame whose bytes are cut off is completed by bytes of the next, and its parts then
are not `intact`.  A message that is not whole may still parse; the model lets the slave carry it out or ignore it.

In `Maintenance` a unit of time is a second of the code's 3 s timeout, time does not pass while
`ltlpKernelRun` has something to do (it runs every few milliseconds), and `DelayAssumption` says that an
answer on the line comes before the sender's timeout: it is the line's round trip, some milliseconds for a
frame at the port's speed, against 3 s.  `ltlpResetParser` zeroes the parser's time (ltlp_kernel.c:43), so that
a header begun in the same chunk is dropped by the next `ltlpKernelRun`; the code does so from 12 s after
start-up on, the model always.  A handshake and an answer are one piece, an application frame two: header and
payload.  `trim_string` is one step against the interrupt.  The command line gets any byte while a frame is on its
way to the slave: which bytes a frame holds is not modelled.  What a terminal types also enters the LTLP queue; as
the terminal is then alone on the port, the parser finds no header in it and no transfer to disturb, and this is left out.

## 3. Runs

| run | question | expected |
|---|---|---|
| `slot_cycle` | does the scheduler keep its promises, in single and continuous mode, polled up to 4 units (a slot or more) late, with a timer that wraps and a clock corrected either way? | pass |
| `slot_cycle_skip` | is every own slot served by the end of a cycle, as a document says? | violated |
| `slave_polite` | under a master that waits for the end of a collection and announces the next start: does every accepted message start a cycle, does it end, leave complete data and hand all of it to the radio? Two frames of different size alternate, with reset requests and a ping at any point | pass |
| `slave_start_now` | start times that have passed, a moving clock, more fragments than own slots: is what is kept coherent, sent before it is dropped, does the fragment loop end? | pass |
| `slave_any_time` | messages at any point that announce their starts, rejected ones among them, failing sends, ticks that find a task at work: is what is kept one run in the order of slots? | pass |
| `maintenance` | does LTLP implement `TransferService`; does a request for the boot loader, by message or by command, lead there, and nothing else, with frames that reach the command line too? | pass |
| `receive_path` | are messages handled whole and in order, is no reception lost, is a request answered beside the frames of DataCollectionTask, does the lock stay coherent? | pass |
| `slave_early_sync`, `slave_shifted`, `slave_burst`, `slave_discard`, `slave_unassigned` | the disagreements of section 5 | violated |

*Bounds.* `SlotCycle`: a timer of 12 values, a clock of 64, offsets of -3, 0 and 4, single cycles of 2 slots of 3 units and of
3 slots of 2, own slots first and last, a continuous frame of 2 slots of 2, and arguments that
`Configure` rejects: a poll that is 4 units late passes over one slot or two, the last included;
a frame of 6 does not always fit what is left of a lap, so that its end may be out of reach; an offset of -3 puts the clock
behind the start and, after a wrap, past its word; one of 4 takes it over slots.  `SlaveDevice`: a ping in
`slave_polite` and `slave_burst` (the other runs say nothing of the mailbox); two messages (three in `slave_unassigned`), frames of 2 and 3 slots of 2 ticks, and `MaxTick` from 18 to 26,
room for both cycles; a third cycle meets no state a second does not, as all that
survives a cycle is the cached collection, the fragments and the configuration, each of which the second cycle
finds set.  The number of fragments is set to fit the own slots (`FragmentsFit`) or to exceed them
by one or two (`FragmentsExceed`), so that index and loop are both reached.

`Maintenance`: a host with two transfers of two frames, acknowledged or not, or of the upgrade request; the second may be
asked for while the first is under way (put off) and after it.  Two troubles in all, of which one of flash or
power; a terminal with five keys and the same troubles; a host with one transfer of text or of an
unacknowledged request, of whose bytes the command line takes three: enough to hold the command and a line end.  Two line faults are what it takes to lose a frame and its repetition, or to exceed the tries by two NACKs
(each counts for two).  A buffer of four places, a two-letter command
and five keys: a full buffer, blanks after and before the command, a line over a line, backspace over the
beginning.  The host and the terminal are alternatives: one port.
`ReceivePath`: six kinds of traffic, each a few messages: two messages of 2 or 3 fragments with one
fragment lost; a series of 3 with one lost (a message in between heals the one before); requests, messages for others and
other slaves' data mixed; resets with buttons pressed; a message of 4 fragments with a tiny last one before and after
shorter ones; two requests with two frames of DataCollectionTask.  A mailbox of three halves
is cut in the middle of a second fragment, as FRAME_LEN_MAX (1016) is by two fragments of up to 800
(slave_device.cpp:77).  Two valves: the first moved, the last not yet.

*Fairness.* In `SlotCycle` weak fairness of the timer and the polls, and strong fairness of `PollCycleEnd`: a poll
is at most `MaxJump` late, so that what holds in every lap of the timer for as long as that is found by a poll.
In `SlaveDevice` weak fairness of `Tick` (time passes), of the handler (it never waits for anything
but its turn), of `DataCollection` (1 ms delay, then ready at the highest priority in use) and of the radio
(runs when the others wait, which they do, as each blocks for a tick in every round).  Sync messages
are not fair: none need ever arrive.  In `slave_burst` and the others fairness is there to let the
counterexample be one of a running system.
In `Maintenance` weak fairness of `SystemStep` as a whole (device, host and clock go on as long as they
can: a running processor); requests, keys and faults are not fair.  In `ReceivePath` the tick, a fragment on
the air, AccessoryTask and SlaveDataProcT are weakly fair; the radio task is strongly fair, as each tick
takes the processor from it and gives it back when the tasks above sleep.  Messages, losses and buttons are not fair.

*Environments that the passing runs leave out, on purpose.*
`Polite` masters, equal frame totals and announced starts in `slave_any_time`, and one assignment in `slave_start_now`
exclude four races the code has, all of which the model shows when the restriction is lifted:

1. Between the handler's Stop (line 219) and Configure (237) the polling task can start the
   scheduler with the old frame after the collector was given the rows of the new one.  With
   different totals what is then saved is a short or blank-ended matrix.
2. An immediate start leaves `m_isScheduledToStart` set (178), so that `DataCollectionTask` may start
   the same cycle: one of the two finds the collector configured under its feet (`DEV_ERR`).
3. An immediate start sets `m_isCollecting` after it started the scheduler; a second message that
   stops the scheduler before the polling task saw it run leaves `m_isCollecting` set for ever.  A
   slot 0 served in that window is not measured, and the collection stays incomplete.
4. A message that starts a cycle at once, with another share of a frame of the same total, may come while
   `ProcessSlot` sleeps (continuity_collector.cpp:190) or a slot callback is about to call it.  It
   configures and starts the collector anew, and the pending measurement, of a slot of the old
   cycle, becomes row 0 of the new one: the matrix is full before its last slot, and what is saved is incoherent.
   With `Leads` {0, 3} in `slave_any_time` TLC finds `SavedDataCoherent` violated in this way.

These are hazards of the list, with the line where each bites; no document of the repository says
that they cannot happen, so that they are not stated as findings.  No property of a passing run covers them, and the
hazards that are about them name none.

## 4. Properties

Each is stated with its comment in the module.  Scheduler: `SlotInfoMatchesConfig`, `NeverAhead`,
`PromptCycleServesAll`, `SlotsAdvance`, `CycleEndAfterFullDuration`, `NothingServedAfterCycleEnd`,
`SingleCycleEnds`.  All but the first and the last are about runs that are `Steady`: since the start the clock did not
go back, by a correction or the wrap of the timer, where the unsigned difference of slot_manager.cpp:183
underflows and the slots computed from it are any, and the frame ends within the clock's word.
`SingleCycleEnds` includes the others.  The end of a cycle is an absolute time (slot_manager.cpp:195), so that a cycle whose
end lies beyond the last value of the timer does *not* end after the wrap: the clock starts again from its offset and
stays below the end until the next wrap, and so on in every lap.  The property claims the end only of a cycle whose end the clock
shows in each lap for longer than a poll can be late (`EndInReach`), and a correction by a sync message is what
brings such an end into reach.  With a negative offset the wrap takes the clock past its word, to values above
any end, and ends the cycle at once.  Slave: `DrivesOnlyInOwnSlot`,
`CollectorMatchesScheduler`, `NoStartFails`, `SavedDataCoherent`, `CollectionLeavesItsData`, `NoFrameOverwritten`,
`SavedDataIsSent`, `EverySyncStartsACycle`, `CollectionEnds`, `BurstEnds`.

Receive path: `NoReceptionOverwritten`, `HandledWholeInOrder`, `MessageIsHandled`, `LastRequestIsAnswered`,
`ValvesFollowState`.  Maintenance: `ServiceSpec` (the refinement, safety and liveness), `ReportedComplete`,
`FailsOnlyForCause` (the cause may be another transfer, even one asked for later, by which one put off can be
overtaken), `ReceiverComesToRest`, `LineEndsInBuffer`, `LineComparedIsLineEntered`, `OtaResetFindsFlag`,
`RequestIsCarriedOut`, `UpgradeWasAsked`.

What these except is what the code does not give, and was found by checking the property without it:

* *An inner fragment lost.*  Fragments are collected by packet id and counted, so that the part that is left is joined
  with later messages, for ever: `cleanupExpiredFragments` (ProtocolProcessor.cpp:1033) does nothing, although
  Docs/slave2master_protocol.md:519 says that an incomplete group is dropped after 5 seconds
  ("如果5秒内未收到所有分片，丢弃该分片组") and `FRAGMENT_TIMEOUT_MS` is declared (ProtocolProcessor.h:170).  A lost
  *last* fragment heals, unless the messages that follow are shorter by two fragments or more: what was left has
  more parts than they have and is never counted complete (`Obstructed`).  This disagreement has no run of its own.
* *A reception cut off at the mailbox*, when two fragments come in one: as above, and nothing has a checksum.
* *A last fragment of less than five bytes* is refused (887) and its message never complete.
* *A reset that meets a pressed button* leaves valves and `m_state` apart until the next press or reset.
* *A request handled after another in one reception*: only the last answer is transmitted.
* *Two writers of the transmit mailbox*: an answer to a ping or a short id (slave_device.cpp:559-577) replaces a fragment or a
  reset response that the radio task has not read yet, and the other way round; both tasks run before the
  radio task.  `NoFrameOverwritten` and `SavedDataIsSent` are therefore about what `DataCollectionTask` does to its own
  frames, and `LastRequestIsAnswered` excepts the answers that were `replaced`.
* *An answer lost on the line*: the receiver counts the repeated frame, ends early and reports the transfer
  complete without its last frame; the sender fails, since nobody answers any more.  A lost handshake is not
  repeated.  A NACK counts for two of the four tries.
* *A flash operation that fails*: the OTA task goes on as if nothing had been asked although the host was told
  its message arrived; the command line resets into the application.
* *A key hit before the line was handled* may be joined with it, or be lost with the buffer.
* *A frame that holds the command as a line*, or bytes that make up that line with what is in the buffer, enters the
  boot loader though nobody asked: the command line looks at the bytes of LTLP frames as well
  (uart_cmd_handler.c:232-270).  `UpgradeWasAsked` says only that the characters of the command have come in, in order.

Continuous mode is in `SlotManager` and `SlotCycle` although the handler only ever asks for a single cycle
(master_slave_message_handlers.cpp:237); nothing is stated of it but type, slot information and no service after an end.

## 5. Disagreements found while modelling

| run | the code | the text |
|---|---|---|
| `slot_cycle_skip` | a late poll passes over own slots | Docs/slot_skipping_issue_fix.md:182 |
| `slave_early_sync` | the end of a collection cancels a start scheduled meanwhile | Docs/slot_manager_optimization.md:98 |
| `slave_shifted` | startSlot is not compared when a sync message changes the frame | master_slave_message_handlers.cpp:120 |
| `slave_burst` | fragments of one slot overwrite each other in the mailbox | Docs/fragment_sending_fix.md:112 |
| `slave_discard` | the last old fragment drops the new collection | slave_device.cpp:429 |
| `slave_unassigned` | the fragment loop spins once the device counts as unconfigured | slave_device.cpp:478 |

## 6. Proofs

Each theorem holds for every value of the constants that meets the assumptions named with it; an
invariant in bold is the inductive one it rests on.  The properties are those of section 4, so that each
is also checked by a run on a small instance.

### Scheduler (`SlotCycleProofs`)

Seven theorems for every set of configurations, length of the timer, set of offsets and bound on lateness:
`TypeCorrect`, `SlotInfoAlwaysMatches`, `SlotNeverAhead`, `SlotsOnlyAdvance`, `CycleEndIsComplete`,
`EndedCycleStaysEnded`, `PromptCycleIsServed`.  Assumptions: `TimeWordAssumption`
(the word is a positive number), `ConfigArgsAssumption` (arguments have the types of `Configure`'s
parameters) and `ClockAssumption` (types of `TimerWord`, `Offsets`, `MaxJump`).  That a frame ends within the clock's
word is not assumed but a part of `Steady`, of which the theorems about time speak: with the offset of a master
behind the timer the clock does get past its word.

* **`SlotInv`** adds to the types that a configured scheduler holds a configuration that
  `Configure` accepts, that only a configured one runs, and `SlotInfoMatchesConfig`.
  The latter is not inductive alone: that the next slot exists rests on `expectedSlot` being a
  remainder by a total that is not 0, which only the checks of `Configure` give; and a `Configure` while
  running would break it, which is refused.
* **`MonoInv`** adds that a running cycle is not completed and, while the run is `Steady`, that
  the start lies in the past, that a slot already entered has begun (`NeverAhead`) and that a
  single cycle that called its end back no longer runs.
  `SlotsAdvance` then needs the arithmetic that as long as the cycle is not over, the
  quotient of elapsed time and interval is below the total, so that the remainder does not wrap
  (`ExpectedSlotExact`), and that a quotient is at least the slot already begun
  (`DivisionAtLeast`): the slots entered are the values of a function that does not decrease.
* **`PromptInv`** adds that up to now, in a cycle polled in time, the slots served are all those from the
  first to the present one, and that the clock has not passed the end of the present slot (`PromptSoFar`); so the
  end of the cycle cannot be reached before the last slot was served.

### Slave (`SlaveDeviceProofs`, `CollectionProofs`)

The module's own assumptions are `SlaveDeviceAssumption` and `ClockWordAssumption` (the clock and the end of a
frame fit the word).  Three levels, each with hypotheses of its own, which the theorems state:

1. *Any master, any lag, any failure of a send.*  `DeviceTypeCorrect` needs only that a collection packs into a
   number of fragments (`FragmentsCounted`).  **`DeviceInv`** = **`TasksInv`** and `BackendOK`.  That the
   current slot exists needs the checks of `Configure`, that the matrix keeps its index needs that a row is
   waited for only while one is missing (`DataCollectionInv`), whatever the handler does during the wait, and
   that the fragment index stays within its fragments needs that they are forgotten together.
2. *A polite master* (`PoliteMaster`): it waits for the end of a collection, announces each start further
   ahead than a task can lag, and assigns shares that fit the frame; what it assigns for a mode the slave does not
   know is free.  `StartsSucceed`, `PinsDrivenInOwnSlots`, `CollectorFollowsScheduler` (this one for test
   counts of at most `MaxGpioPins`, since the collector caps them) and `SavedDataIsCoherent`.
   **`PoliteInv`** consists of `TasksInv` and five parts: the handler works alone, and what it schedules is not
   due before it is through (`HandlerAlone`); the scheduler's configuration is the device's wherever one of
   the tasks relies on it (`ConfigurationsAgree`); at each place of a start the steps before have succeeded
   (`StartsRight`); a running scheduler has a collector with its frame, and no more rows are measured than slots
   entered (`RunsRight`); pins (`PinsRight`).  None is inductive without the others: that a start does not
   fail rests on nobody having taken the collector away since, that on the handler being idle, and that on the
   schedule being in the future.
   **`RowsInv`** adds the matter of late polls: either each slot so far has its row in its place,
   or the rows stay behind the slots for the rest of the run, and then the collection does not complete.
3. *Tasks in time* (`InTime`): besides, a task is through before the next tick (`MaxLag` is 0), a slot is longer
   than the pins need to settle, sends do not time out, and the slave has a slot of its own for each
   fragment (`FragmentsFitSlots`: when the slave's slots are the last of the frame, but for the very last slot,
   in which the next data is saved; and the empty data is no collection).  `CollectionLeavesData`,
   `FrameLeavesMailboxFirst`, `SavedDataGoesOut`.
   **`SendingInv`** consists of:
   * `TimedInv`: the next look at the clock comes before the end of the slot after the present one
     (`TimesRight`), from which no slot is passed over (`NoSlotPassedOver`) and a cycle that ends is complete
     (`CycleEndsComplete`);
   * `FragmentsRight`: the index of a fragment is the distance from the first own slot (`InTurn`), what was saved in
     the run before is sent from that slot on (`RunSends`), the handler forgets what is saved before it changes
     the frame (`HandlerForgets`), and a stopped run has left its data (`StoppedLeaves`).  By it the loop
     that sends several fragments in one slot is never entered;
   * `MailboxRight`: a frame other than an answer waits in the mailbox, or is being read, only until
     `DataCollectionTask` wakes (`FrameWaits`).  Answers come at any time, so that they may replace such a frame and
     be replaced; what was handed over last is therefore kept in `handed`, and `FrameLeavesMailboxFirst` says that
     no frame is replaced by another but from or to an answer.

   The instance of `slave_polite` meets `InTime`.  `slave_burst`, `slave_discard` and `slave_early_sync` show
   that the theorems fail where there are more fragments than own slots or the master is impolite.

### Receive path (`ReceivePathProofs`)

For every traffic, mailbox, buffer, set of packet ids and number of valves (`TrafficAssumption`: messages have at
least one fragment; `PacketAssumption`: both packet ids are heard; `MailboxAssumption`: the buffer holds at
least four receptions):

* **`ReceptionsAreTaken`** rests on `MailboxInv`: the mailbox is full only from the round of the radio task that
  wrote it (after which the task sleeps) to the next tick, and a tick wakes SlaveDataProcT with it, which has the
  processor first; so the radio task is never about to receive with the mailbox full.
* **`ValvesAreWhereTheStateSays`** rests on `LockInv`, which says which valves a task in the middle of a
  loop has passed, and that two loops overlap only if `overlapped` says so.
* **`ReceiveTypeCorrect`** rests on `TypeInv`: a frame, wherever its bytes are (on the air, in the chip, the
  mailbox or the buffer), is a fragment of a message that was sent or another slave's data, and so are the parts kept of
  it; what is kept of a packet id is not complete, for whatever bytes were cut off.
* **`MessagesWholeInOrder`** (`HandledWholeInOrder`) rests, besides, on **`StreamInv`**, which holds until an inner
  fragment was lost or a reception cut.  `Stream` are the units on their way from the chip to the buffer, in the
  order in which they will be looked at; every task only moves the border between its parts.
  * `BytesAligned`: the two halves of a fragment are together, in the chip, in the mailbox, and in the buffer with
    what is unread, so that `Extract` completes each fragment with its own bytes (`ExtractAligned`).
  * `InOrderSent`, `NoneMissing`: the master's fragments in `Stream`, and then those it has yet to send, are in the
    order of sending; every fragment before one of them in its message is before it in `Stream` too, or is kept.
  * `PartsRight`: the parts kept are the first *k* fragments of messages no younger than what comes, with their own bytes, and
    `total` is 0 or below *k*.  They need not be of one message, as an older message that lost its last fragment is
    written over part by part; but when the last fragment *s* of a message comes, those before it have
    taken the places 0 .. *s* - 1 (`NoneMissing`), so that if the count fits, all are of this message
    (`StoredFits`, `FlowAccepts`).
  * `FramesRight`: the messages put together and those handled are whole, in order, and older than all that comes.

  A lost last fragment keeps all this (`FlowLost`): no fragment of its message comes after it.

### Maintenance (`TransferProofs`, `MaintenanceProofs`, `ServiceProofs`)

For every set-up of the port, job, alphabet, buffer size and number of faults, transfers and of losses of power:

* **`LinesEnd`** from `BufferInv`: the last place is never written to by anything but NUL.
* **`OtaResetsWithFlag`** from `SettingInv`, which ties the step of the one who sets the flag to the words it
  has written.
* **`LineIsCompared`** from `TypingInv`: without haste the buffer holds the line being typed and NULs
  behind it, then the line entered; that the string ends there (`Text`) and its trimmed form is the one of
  `Trim` needs that a line that is not blank has a last place that is not, which `HasGreatest` derives from the
  well-foundedness of the naturals without induction over an operator.

* **`MaintenanceTypeCorrect`** and **`UpgradeNeedsRequest`** rest on **`TransferInv`**: the types of both
  nodes (`LibInv`) and, which makes them inductive, that every frame of a sender, of a parser and on the line is
  one of a transfer that was asked for (`JobsAsked`, `ParserInv`, `LineInv`).  No loss, garbling,
  repetition or restart makes a frame up, so that the upgrade message that sets `m_upgradeFlag` was sent;
  `WantedInv` carries this over to the words in flash.  For the command line, which looks at the bytes of frames too,
  `TypingInv` says that a line compared without haste was entered, and `SpellInv` that the buffer, whatever trims, rewinds
  and bytes between the task's statements have left in it, holds no more of the command than has come in order.

* **`ReportedIsComplete`** (`ReportedComplete`) and **`ServiceIsSafe`** (each step is one of `TransferService`, or none: its
  liveness stays with TLC) hold as long as neither flash nor power fails, for every number of transfers, of
  tries and of faults of the line.  They rest on **`LinkOK`**, which relates the sender, the receiver and all that is on
  the two lines, and on `TransferInv`:
  * `CarriedOK`: the frames on the line and in the slave's parser are the sender's, or what is left of one earlier
    transfer; nothing of a transfer that waits or shakes hands has been seen.
  * `AckedOK`, stop and wait: they all have the number the sender is at, and delivered are either the frames before
    it, with no ACK on the way, or this one too, and then its ACK is on the way or was lost.  So an ACK moves the sender on only
    from a frame that was delivered.  `PlainOK` and `SpentOK` say the like of frames without ACK, and of
    those left when the sender has given up.
  * `CountOK`: the receiver's count is the number of frames delivered, unless an answer was lost; as the numbers lie
    below the total (`AllFrames`), the count of the total means all of them.
  * `TimingOK`, `AckOK`, `AheadOK`: nothing on the line is older than the sender's wait, so that with
    `DelayAssumption` the line is empty when it times out, and an ACK that comes before the connection is the handshake's.
  * `Listening`: a slave that answers a handshake, or has one before it, in the middle of a transfer is receiving
    already and does not take it.  A restart breaks just this: `UnharmedInv` says that without a failure the slave restarts
    only with both words of the flag written, and then nobody listens until the end.

  `TransferProofs` shows that each *move* keeps `LinkOK`: units fade, an answer goes, the slave takes a header, refuses,
  accepts, delivers, the host shakes hands, sends, takes an ACK, sends again, ends.  `ServiceProofs` shows that each
  branch of `ltlpKernelParse` and `ltlpKernelRun`, each call of `ltlpSendData`, fault and tick is one of the moves.

Assumptions are those named in the modules (`NumValvesAssumption`, `MailboxAssumption`, `BufferAssumption`,
`KeysAssumption`, `JobAssumption`, ...).

### Only model-checked, and why

* Liveness (`SingleCycleEnds`, `CollectionEnds`, `EverySyncStartsACycle`, `BurstEnds`,
  `ReceiverComesToRest`, `RequestIsCarriedOut`, `MessageIsHandled`, `LastRequestIsAnswered`): out of the provers'
  reach.
* `FailsOnlyForCause`: it rests on `LTLP_MAX_RETRY_TIMES` being 3 (ltlp_def.h): with one try it is false, as one garbled frame
  counts for two.  For 3 TLC finds it to hold with three transfers and three faults of the line.
* `ReportedComplete` and the safety half of `ServiceSpec` when power fails.  These are claims about at most one loss of
  power: `maintenance` has one, and TLC finds them to hold with three transfers, three faults of the line and
  one.  With two losses of power, three transfers and a garbled frame both are false: the boot of the slave takes no time in the
  model, so that the answer to the handshake of a transfer given up can be taken for the answer to the first frame of
  the next one, which is then reported done with a part of it delivered.  The liveness half of `ServiceSpec`.
* `SavedDataCoherent` and `SavedDataIsSent` under masters that are not polite but announce their starts
  (`slave_any_time`), or start at once after the end of the cycle before (`slave_start_now`); `DrivesOnlyInOwnSlot` in `slave_start_now`.

## 7. Plan

Order of further work, the most important behaviour first.

1. `ServiceIsSafe` with one loss of power: `Listening` then holds but for the one handshake that the slave takes anew,
   whose ACK must be shown to be gone when the next frame is waited for.  `FailsOnlyForCause` from `LinkOK`, with
   the tries counted against `faults`.
2. `SavedDataCoherent` without `PoliteMaster`, for assignments of one total and announced starts (an immediate start
   breaks it, section 3): the collector may then be taken away
   and started again during a run, and the rows remain those of the last start.
3. `CollectionService`: an abstract slave that is idle, scheduled, collecting, has data, sends;
   `SlaveDevice` under a polite master shown to implement it, from `SendingInv`.
4. `TdmaFrame`: several slaves with disjoint shares, each a `SlotManager`, of which at most one drives; follows
   from `PinsDrivenInOwnSlots` and `NeverAhead` when the clocks agree.

## 8. Not modelled

* The UCI driver of the radio chip (`CX310/`): requests and responses with timeouts, whose results `UwbCommTask`
  ignores and whose other side, the chip, is not in the repository.  `ReceivePath` has what it receives.
* The second LTLP port, over UWB (`uwb_ltlp_queue.c`): queues of bytes that the RS485 port has as well.
* The layout of messages and the compression of the data: conversions without state.
* `m_inTdmaMode` and the heartbeats it would switch (commented out); sensors, battery, DIP switches (read-outs).
* Factory test (pins one by one, from a console), start-up, vendored and generated code.
