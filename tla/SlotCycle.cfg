\* Polling may be late by up to four clock units, at least one slot of every
\* frame; the timer wraps, and the clock may be corrected either way, behind
\* the start time and past the ends of its word included.
SPECIFICATION FairSpec
CONSTANTS
  TimeWord = 64
  ConfigArgs <- MixedConfigs
  TimerWord = 12
  Offsets <- AnyOffset
  MaxJump = 4
INVARIANTS TypeOK SlotInfoMatchesConfig NeverAhead PromptCycleServesAll
PROPERTIES SlotsAdvance CycleEndAfterFullDuration NothingServedAfterCycleEnd SingleCycleEnds
