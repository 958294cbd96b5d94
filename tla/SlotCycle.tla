------------------------------ MODULE SlotCycle ------------------------------
(***************************************************************************)
(* A SlotManager with its owner and its clock: the owner configures,       *)
(* starts and stops it, the polling task calls Process, and the            *)
(* synchronised clock moves, by more than one slot when the polling task   *)
(* was kept from running.  The clock is the sum of a short timer, which    *)
(* wraps to 0, and an offset, which a sync message sets: a wrap takes the  *)
(* clock back by the length of the timer, or past the end of its own word, *)
(* and a correction either way.                                            *)
(***************************************************************************)
EXTENDS SlotManager, FiniteSets

CONSTANTS
  ConfigArgs,   (* The argument records passed to Configure.             *)
  TimerWord,    (* The number of values of the timer (2^32 in the code). *)
  Offsets,      (* What a sync message may set the offset to, at most    *)
                (* once between two starts.                              *)
  MaxJump       (* Most clock units that pass between two observations.  *)

ASSUME ConfigArgsAssumption == ConfigArgs \subseteq SlotConfig

ASSUME ClockAssumption ==
  /\ TimerWord \in Nat \ {0}
  /\ Offsets \subseteq Int
  /\ MaxJump \in Nat \ {0}

VARIABLES
  timer,        (* HptimerGetUs(), the count of TIM2.                    *)
  timeOffset,   (* Master's clock minus timer, as of the last message.   *)
  corrected,    (* Whether the offset was set since the last Start.      *)
  served,       (* Slots whose callback ran since then.                  *)
  cycleEnds,    (* Whether the cycle-end callback ran since then.        *)
  late,         (* Whether the clock has left, since then, a slot or a   *)
                (* cycle end that Process had not yet handled.           *)
  putBack       (* Whether the clock went back since then.               *)

clock == <<timer, timeOffset, corrected>>
ghosts == <<served, cycleEnds, late, putBack>>
vars == <<smVars, clock, ghosts>>

\* GetSyncTimestampUs(): the sum is a word of the clock.
ClockAt(count) == (count + timeOffset) % TimeWord
syncTime == ClockAt(timer)

TypeOK ==
  /\ SMTypeOK
  /\ timer \in 0..(TimerWord - 1)
  /\ timeOffset \in Offsets \union {0}
  /\ corrected \in BOOLEAN
  /\ served \subseteq U16
  /\ cycleEnds \in BOOLEAN
  /\ late \in BOOLEAN
  /\ putBack \in BOOLEAN

Init ==
  /\ SMInit
  /\ timer = 0 /\ timeOffset = 0
  /\ corrected = FALSE
  /\ served = {}
  /\ cycleEnds = FALSE
  /\ late = FALSE
  /\ putBack = FALSE

\* What a move of the clock from syncTime to syncTime' does to the ghosts.
Watched ==
  /\ late' = (late \/ \E t \in syncTime .. (syncTime' - 1) : ProcessDue(t))
  /\ putBack' = (putBack \/ syncTime' < syncTime)
  /\ UNCHANGED <<served, cycleEnds>>

\* The timer counts on, and after its last value from 0.
Tick ==
  /\ \E d \in 1..MaxJump : timer' = (timer + d) % TimerWord
  /\ UNCHANGED <<smVars, timeOffset, corrected>>
  /\ Watched

\* SetTimeOffset, when a sync message brings the time of the master.
SetTimeOffset ==
  /\ ~corrected
  /\ corrected' = TRUE
  /\ timeOffset' \in Offsets
  /\ UNCHANGED <<smVars, timer>>
  /\ Watched

OwnerConfigure ==
  /\ \E c \in ConfigArgs : Configure(c)
  /\ UNCHANGED <<clock, ghosts>>

OwnerStart ==
  /\ Start(syncTime)
  /\ served' = {}
  /\ cycleEnds' = FALSE
  /\ late' = FALSE
  /\ putBack' = FALSE
  /\ corrected' = FALSE
  /\ UNCHANGED <<timer, timeOffset>>

OwnerStop ==
  /\ Stop
  /\ UNCHANGED <<clock, ghosts>>

PollFirst ==
  /\ ProcessFirst
  /\ served' = served \union {slotInfo.currentSlot}
  /\ UNCHANGED <<clock, cycleEnds, late, putBack>>

PollCycleEnd ==
  /\ ProcessCycleEnd(syncTime)
  /\ cycleEnds' = TRUE
  /\ UNCHANGED <<clock, served, late, putBack>>

PollSwitch ==
  /\ ProcessSwitch(syncTime)
  /\ served' = served \union {slotInfo'.currentSlot}
  /\ cycleEnds' = (cycleEnds \/ SwitchEndsCycle(syncTime))
  /\ UNCHANGED <<clock, late, putBack>>

Poll == PollFirst \/ PollCycleEnd \/ PollSwitch

Next ==
  \/ Tick
  \/ SetTimeOffset
  \/ OwnerConfigure
  \/ OwnerStart
  \/ OwnerStop
  \/ Poll

Spec == Init /\ [][Next]_vars

\* The timer runs and DataCollectionTask calls Process every millisecond: no
\* more than the lateness of a poll passes without one, so that a condition
\* which holds in every lap of the timer is found by a poll in the end.
FairSpec ==
  Spec /\ WF_vars(Tick) /\ WF_vars(Poll) /\ SF_vars(PollCycleEnd)

-----------------------------------------------------------------------------
(* While the scheduler runs, the slot information handed to the callbacks  *)
(* agrees with the configuration in force: the slot exists, it is ACTIVE   *)
(* exactly when it lies in this slave's own range, and the pin to drive is *)
(* then a valid pin of the device.  What could break it is a stale         *)
(* m_CurrentSlotInfo surviving Stop, Configure and Start.                  *)
SlotInfoMatchesConfig ==
  isRunning =>
    /\ slotInfo.currentSlot < config.total
    /\ (slotInfo.slotType = "ACTIVE") <=> (slotInfo.currentSlot \in OwnSlots(config))
    /\ slotInfo.slotType = "ACTIVE" =>
         /\ slotInfo.activePin = slotInfo.currentSlot - config.startSlot
         /\ slotInfo.activePin < config.count
         /\ slotInfo.activePin # InvalidPin

\* Since Start the clock did not go back, and the end of the frame fits its word.
Steady == ~putBack /\ startTime + config.total * config.interval < TimeWord

(* In a single cycle, slots are entered in increasing order, so no slot is *)
(* entered twice, however late or irregular the polling is: Process must   *)
(* end the cycle before expectedSlot wraps to slot 0.  This and the next   *)
(* four properties except runs in which the clock was put back or the      *)
(* timer wrapped: there the unsigned difference of slot_manager.cpp:183    *)
(* underflows and the slots computed from it are any.                      *)
SlotsAdvance ==
  [][ isRunning /\ isRunning' /\ config.single /\ Steady /\ slotInfo' # slotInfo
        => slotInfo'.currentSlot > slotInfo.currentSlot ]_vars

(* In a single cycle the scheduler never enters a slot before the clock    *)
(* has reached it, whatever the order of Configure, Start, Stop and        *)
(* polling.                                                                *)
NeverAhead ==
  isRunning /\ config.single /\ Steady =>
    startTime + slotInfo.currentSlot * config.interval <= syncTime

(* The cycle-end callback (all pins back to input) runs only when the last *)
(* slot has lasted its full length: slot_manager.cpp:228-229 takes         *)
(* totalCycles >= m_TotalSlotCount as the proof of it.                     *)
CycleEndAfterFullDuration ==
  [][ ~cycleEnds /\ cycleEnds' /\ Steady
        => syncTime >= startTime + config.total * config.interval ]_vars

(* Once a single cycle has ended no slot is served until the next Start,   *)
(* so the pins the cycle-end callback released stay released.              *)
NothingServedAfterCycleEnd ==
  [][ config.single /\ cycleEnds /\ Steady /\ served' # served
        => served' = {} ]_vars

(* A single cycle that ran to its end with Process called in every slot    *)
(* has served every slot of the frame.                                     *)
PromptCycleServesAll ==
  config.single /\ cycleCompleted /\ ~late /\ Steady
    => served = 0 .. (config.total - 1)


\* Of a lap of the timer the clock is, for longer than a poll can be late, at
\* or past the end that Process compares it with.
EndInReach ==
  Cardinality({k \in 0..(TimerWord - 1) : ClockAt(k) >= LastSlotEnd}) >= MaxJump

(* A started single cycle ends by itself if its end is in reach, also when *)
(* the clock went back behind its start: the end is compared as an         *)
(* absolute time (slot_manager.cpp:195) and found in the same lap or, when *)
(* the timer wraps before it, in the next.  A cycle whose end is beyond    *)
(* the last value of the timer does not end, until a correction of the     *)
(* clock brings the end into reach.                                        *)
SingleCycleEnds ==
  (isRunning /\ config.single /\ EndInReach) ~> (~isRunning \/ ~EndInReach)
=============================================================================
