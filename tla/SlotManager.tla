----------------------------- MODULE SlotManager -----------------------------
(***************************************************************************)
(* The TDMA slot scheduler of a slave, User/slot_manager/slot_manager.cpp. *)
(*                                                                         *)
(* This module holds the state of the SlotManager class and one action per *)
(* operation.  Operations that read the synchronised clock take its value  *)
(* as the parameter `now'; the module that closes the system supplies it   *)
(* and says what the callbacks do.  Time is counted in the clock's own     *)
(* unit: `interval' is the slot length in that unit (m_SlotIntervalMs *    *)
(* 1000 in the code).  The clock is an unsigned word of TimeWord values    *)
(* (2^64 in the code), so differences and sums are taken modulo TimeWord.  *)
(*                                                                         *)
(* A call that changes nothing (Configure while running or with bad        *)
(* parameters, Start when unconfigured or already running, Stop or Process *)
(* when stopped, Process within the current slot) enables no action here;  *)
(* a caller that goes on from the returned value says so itself.           *)
(***************************************************************************)
EXTENDS Integers

CONSTANT TimeWord   (* The number of values of the clock word.           *)

U8  == {n \in Nat : n <= 255}
U16 == {n \in Nat : n <= 65535}

\* The widths of Configure's parameters.
SlotConfig == [startSlot : U16, count : U8, total : U16,
               interval : Nat, single : BOOLEAN]

ASSUME TimeWordAssumption == TimeWord \in Nat \ {0}

VARIABLES
  config,          (* The five configuration members.                    *)
  isConfigured,
  isRunning,
  isFirstProcess,
  cycleCompleted,
  startTime,       (* m_StartTimeUs, set by Start.                       *)
  slotInfo         (* m_CurrentSlotInfo: slot, type and logical pin.     *)

smVars == <<config, isConfigured, isRunning, isFirstProcess, cycleCompleted,
            startTime, slotInfo>>

Unconfigured == [startSlot |-> 0, count |-> 0, total |-> 0, interval |-> 0,
                 single |-> FALSE]

InvalidPin == 255

SlotInfo == [currentSlot : U16, slotType : {"ACTIVE", "INACTIVE"}, activePin : U8]

\* CalculateSlotType and the activePin computation that always follows it.
OwnSlots(c) == c.startSlot .. (c.startSlot + c.count - 1)

\* A bug: the pin of a slot is computed whether the slot is active or not.
SlotInfoOfAnySlot(c, slot) ==
  [currentSlot |-> slot, activePin |-> slot - c.startSlot,
   slotType |-> IF slot \in OwnSlots(c) THEN "ACTIVE" ELSE "INACTIVE"]

SlotInfoOf(c, slot) ==
  IF slot \in OwnSlots(c)
    THEN [currentSlot |-> slot, slotType |-> "ACTIVE",
          activePin |-> slot - c.startSlot]
    ELSE [currentSlot |-> slot, slotType |-> "INACTIVE",
          activePin |-> InvalidPin]

SMTypeOK ==
  /\ config \in SlotConfig
  /\ isConfigured \in BOOLEAN
  /\ isRunning \in BOOLEAN
  /\ isFirstProcess \in BOOLEAN
  /\ cycleCompleted \in BOOLEAN
  /\ startTime \in 0 .. (TimeWord - 1)
  /\ slotInfo \in SlotInfo

SMInit ==
  /\ config = Unconfigured
  /\ isConfigured = FALSE
  /\ isRunning = FALSE
  /\ isFirstProcess = TRUE
  /\ cycleCompleted = FALSE
  /\ startTime = 0
  /\ slotInfo = [currentSlot |-> 0, slotType |-> "INACTIVE",
                 activePin |-> InvalidPin]

-----------------------------------------------------------------------------
\* A bug: a slave whose slots reach to the end of the frame is refused.
CanConfigureStrict(c) ==
  /\ ~isRunning
  /\ c.count > 0 /\ c.total > 0 /\ c.interval > 0
  /\ c.startSlot + c.count < c.total

CanConfigure(c) ==
  /\ ~isRunning
  /\ c.count > 0 /\ c.total > 0 /\ c.interval > 0
  /\ c.startSlot < c.total
  /\ c.startSlot + c.count <= c.total

Configure(c) ==
  /\ CanConfigure(c)
  /\ config' = c
  /\ cycleCompleted' = FALSE
  /\ isConfigured' = TRUE
  /\ UNCHANGED <<isRunning, isFirstProcess, startTime, slotInfo>>

\* A bug: the slot of the run before is kept.
StartKeepsSlot(now) ==
  /\ isConfigured
  /\ ~isRunning
  /\ isRunning' = TRUE
  /\ isFirstProcess' = TRUE
  /\ cycleCompleted' = FALSE
  /\ startTime' = now
  /\ UNCHANGED <<config, isConfigured, slotInfo>>

Start(now) ==
  /\ isConfigured
  /\ ~isRunning
  /\ isRunning' = TRUE
  /\ isFirstProcess' = TRUE
  /\ cycleCompleted' = FALSE
  /\ startTime' = now
  /\ slotInfo' = SlotInfoOf(config, 0)
  /\ UNCHANGED <<config, isConfigured>>

Stop ==
  /\ isRunning
  /\ isRunning' = FALSE
  /\ UNCHANGED <<config, isConfigured, isFirstProcess, cycleCompleted,
                 startTime, slotInfo>>

-----------------------------------------------------------------------------
\* What Process() computes from the clock.
Elapsed(now)      == (now - startTime) % TimeWord
TotalCycles(now)  == Elapsed(now) \div config.interval

\* A bug: the slot whose end the clock approaches, not the one it is in.
ExpectedSlotNext(now) == (TotalCycles(now) + 1) % config.total

ExpectedSlot(now) == TotalCycles(now) % config.total

\* A bug: the start of the last slot taken for its end.
LastSlotStart == (startTime + (config.total - 1) * config.interval) % TimeWord

LastSlotEnd       == (startTime + config.total * config.interval) % TimeWord

\* A bug: the instant at which the last slot ends is not yet the end.
CycleIsOverLater(now) == config.single /\ ~cycleCompleted /\ now > LastSlotEnd

CycleIsOver(now) == config.single /\ ~cycleCompleted /\ now >= LastSlotEnd

\* Process(), first call after Start: slot 0 is handled whatever the clock says.
ProcessFirst ==
  /\ isRunning
  /\ isFirstProcess
  /\ isFirstProcess' = FALSE
  /\ UNCHANGED <<config, isConfigured, isRunning, cycleCompleted, startTime,
                 slotInfo>>

\* A bug: the callback without the Stop.
ProcessCycleEndOnly(now) ==
  /\ isRunning
  /\ ~isFirstProcess
  /\ CycleIsOver(now)
  /\ cycleCompleted' = TRUE
  /\ UNCHANGED <<config, isConfigured, isRunning, isFirstProcess, startTime,
                 slotInfo>>

\* Process(), single-cycle mode: the cycle-end callback, then Stop().
ProcessCycleEnd(now) ==
  /\ isRunning
  /\ ~isFirstProcess
  /\ CycleIsOver(now)
  /\ cycleCompleted' = TRUE
  /\ isRunning' = FALSE
  /\ UNCHANGED <<config, isConfigured, isFirstProcess, startTime, slotInfo>>

\* Process(), SwitchToSlot(expectedSlot): slots passed over get no callback.
ProcessSwitch(now) ==
  /\ isRunning
  /\ ~isFirstProcess
  /\ ~CycleIsOver(now)
  /\ ExpectedSlot(now) # slotInfo.currentSlot
  /\ slotInfo' = SlotInfoOf(config, ExpectedSlot(now))
  /\ UNCHANGED <<config, isConfigured, isRunning, isFirstProcess,
                 cycleCompleted, startTime>>

\* Whether a switch at `now' also fires the cycle-end callback.
SwitchEndsCycle(now) ==
  /\ slotInfo.currentSlot = config.total - 1
  /\ ExpectedSlot(now) = 0
  /\ TotalCycles(now) >= config.total

\* Whether a call of Process at `now' would change anything.
ProcessDue(now) ==
  /\ isRunning
  /\ isFirstProcess \/ CycleIsOver(now) \/ ExpectedSlot(now) # slotInfo.currentSlot
=============================================================================
