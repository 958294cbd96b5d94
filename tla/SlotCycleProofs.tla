--------------------------- MODULE SlotCycleProofs ---------------------------
(***************************************************************************)
(* Proofs about SlotCycle, for every clock word, frame layout and bound.   *)
(***************************************************************************)
EXTENDS SlotCycle, SlotManagerProofs

(* What a configured scheduler knows of its configuration.                 *)
ConfigInv ==
  /\ isRunning => isConfigured
  /\ isConfigured =>
       /\ config \in ConfigArgs
       /\ config.count > 0
       /\ config.total > 0
       /\ config.interval > 0
       /\ config.startSlot + config.count <= config.total

(* slotInfo is rewritten only together with a slot of the frame in force.  *)
SlotInv == TypeOK /\ ConfigInv /\ SlotInfoMatchesConfig

(* Whatever the timer and the offset, the clock is a value of its word.    *)
LEMMA ClockIsAWord ==
  ASSUME NEW t \in Int, NEW o \in Int
  PROVE  (t + o) % TimeWord \in 0..(TimeWord - 1)
  BY TimeWordAssumption, SMTT(30)

LEMMA ClockTyped == TypeOK => syncTime \in 0..(TimeWord - 1) /\ syncTime \in Nat
<1> SUFFICES ASSUME TypeOK PROVE syncTime \in 0..(TimeWord - 1)
  BY TimeWordAssumption
<1>1. timer \in Int /\ timeOffset \in Int
  BY ClockAssumption DEF TypeOK
<1> QED
  BY <1>1, ClockIsAWord DEF syncTime, ClockAt

LEMMA ClockTypedNext == TypeOK' => syncTime' \in 0..(TimeWord - 1) /\ syncTime' \in Nat
<1> SUFFICES ASSUME TypeOK' PROVE syncTime' \in 0..(TimeWord - 1)
  BY TimeWordAssumption
<1>1. timer' \in Int /\ timeOffset' \in Int
  BY ClockAssumption DEF TypeOK
<1> QED
  BY <1>1, ClockIsAWord DEF syncTime, ClockAt

LEMMA ClockStays == UNCHANGED <<timer, timeOffset>> => syncTime' = syncTime
  BY DEF syncTime, ClockAt

(* Both moves of the clock leave the scheduler alone.                      *)
LEMMA ClockMoves == Tick \/ SetTimeOffset => UNCHANGED smVars /\ Watched
  BY DEF Tick, SetTimeOffset

(* The slot Process computes is a slot of the frame.                       *)
LEMMA ExpectedSlotInFrame ==
  ASSUME SlotInv, isRunning
  PROVE  /\ ExpectedSlot(syncTime) \in U16
         /\ ExpectedSlot(syncTime) < config.total
<1>1. /\ config \in SlotConfig
      /\ startTime \in Int /\ syncTime \in Int
  BY ClockTyped DEF SlotInv, TypeOK, SMTypeOK
<1>2. config.total > 0 /\ config.interval > 0
  BY DEF SlotInv, ConfigInv
<1> QED
  BY <1>1, <1>2, ExpectedSlotInFrameAt

LEMMA SlotInvInit == Init => SlotInv
<1> SUFFICES ASSUME Init PROVE SlotInv
  OBVIOUS
<1>1. config \in SlotConfig /\ slotInfo \in SlotInfo
  BY Widths DEF Init, SMInit, SlotConfig, Unconfigured, SlotInfo
<1>2. TypeOK
  <2>1. startTime \in 0..(TimeWord - 1) /\ timer \in 0..(TimerWord - 1)
    BY TimeWordAssumption, ClockAssumption DEF Init, SMInit
  <2>2. SMTypeOK
    BY <1>1, <2>1 DEF Init, SMInit, SMTypeOK
  <2> QED
    BY <2>1, <2>2 DEF Init, TypeOK
<1>3. ConfigInv /\ SlotInfoMatchesConfig
  BY DEF Init, SMInit, ConfigInv, SlotInfoMatchesConfig
<1> QED
  BY <1>2, <1>3 DEF SlotInv

LEMMA SlotInvNext == SlotInv /\ [Next]_vars => SlotInv'
<1> SUFFICES ASSUME SlotInv, [Next]_vars
             PROVE  SlotInv'
  OBVIOUS
<1> USE DEF SlotInv
<1>1. CASE Tick
  <2>1. PICK d \in 1..MaxJump : timer' = (timer + d) % TimerWord
    BY <1>1 DEF Tick
  <2>2. timer' \in 0..(TimerWord - 1)
    <3>1. timer + d \in Int /\ TimerWord \in Nat \ {0}
      BY ClockAssumption DEF TypeOK
    <3> QED
      BY <2>1, <3>1, SMTT(30)
  <2> QED
    BY <1>1, <2>2
       DEF Tick, Watched, smVars, TypeOK, SMTypeOK, ConfigInv, SlotInfoMatchesConfig
<1>2. CASE SetTimeOffset
  BY <1>2 DEF SetTimeOffset, Watched, smVars, TypeOK, SMTypeOK, ConfigInv,
              SlotInfoMatchesConfig
<1>3. CASE OwnerConfigure
  <2>1. PICK c \in ConfigArgs : Configure(c)
    BY <1>3 DEF OwnerConfigure
  <2>2. c \in SlotConfig
    BY ConfigArgsAssumption
  <2>3. ~isRunning /\ ~isRunning'
    BY <2>1 DEF Configure, CanConfigure, TypeOK, SMTypeOK
  <2>4. TypeOK'
    BY <1>3, <2>1, <2>2 DEF OwnerConfigure, Configure, clock, ghosts, TypeOK, SMTypeOK
  <2>5. ConfigInv'
    BY <2>1, <2>2, <2>3 DEF Configure, CanConfigure, ConfigInv, SlotConfig
  <2> QED
    BY <2>3, <2>4, <2>5 DEF SlotInfoMatchesConfig
<1>4. CASE OwnerStart
  <2>1. /\ Start(syncTime)
        /\ served' = {} /\ cycleEnds' = FALSE /\ late' = FALSE /\ putBack' = FALSE
        /\ corrected' = FALSE /\ UNCHANGED <<timer, timeOffset>>
    BY <1>4 DEF OwnerStart
  <2>2. config \in SlotConfig /\ 0 < config.total /\ config.total \in U16
    BY <2>1 DEF Start, ConfigInv, TypeOK, SMTypeOK, SlotConfig
  <2>3. /\ config' = config
        /\ slotInfo' = SlotInfoOf(config, 0)
    BY <2>1 DEF Start
  <2>4. /\ slotInfo' \in SlotInfo
        /\ SlotInfoMatchesConfig'
    <3>1. 0 \in U16
      BY Widths
    <3> QED
      BY <2>2, <2>3, <3>1, SlotInfoOfFacts DEF SlotInfoMatchesConfig
  <2>5. TypeOK'
    <3>1. startTime' \in 0..(TimeWord - 1)
      BY <2>1, ClockTyped DEF Start
    <3>2. SMTypeOK'
      BY <2>1, <2>4, <3>1 DEF Start, TypeOK, SMTypeOK
    <3> QED
      BY <2>1, <3>2 DEF TypeOK
  <2>6. ConfigInv'
    BY <2>1 DEF Start, ConfigInv
  <2> QED
    BY <2>4, <2>5, <2>6
<1>5. CASE OwnerStop
  BY <1>5 DEF OwnerStop, Stop, clock, ghosts, TypeOK, SMTypeOK, ConfigInv,
              SlotInfoMatchesConfig
<1>6. CASE PollFirst
  <2>1. SMTypeOK'
    BY <1>6 DEF PollFirst, ProcessFirst, TypeOK, SMTypeOK
  <2>2. TypeOK'
    <3>1. slotInfo.currentSlot \in U16
      BY DEF TypeOK, SMTypeOK, SlotInfo
    <3>2. served' \subseteq U16
      BY <1>6, <3>1 DEF PollFirst, TypeOK
    <3>3. UNCHANGED <<timer, timeOffset, corrected, cycleEnds, late, putBack>>
      BY <1>6 DEF PollFirst, clock
    <3> QED
      BY <2>1, <3>2, <3>3 DEF TypeOK
  <2> QED
    BY <1>6, <2>2
       DEF PollFirst, ProcessFirst, ConfigInv, SlotInfoMatchesConfig
<1>7. CASE PollCycleEnd
  BY <1>7 DEF PollCycleEnd, ProcessCycleEnd, clock, TypeOK, SMTypeOK, ConfigInv,
              SlotInfoMatchesConfig
<1>8. CASE PollSwitch
  <2>1. /\ isRunning /\ isRunning' = isRunning
        /\ config' = config /\ isConfigured' = isConfigured
        /\ slotInfo' = SlotInfoOf(config, ExpectedSlot(syncTime))
    BY <1>8 DEF PollSwitch, ProcessSwitch
  <2>2. /\ ExpectedSlot(syncTime) \in U16
        /\ ExpectedSlot(syncTime) < config.total
    BY <2>1, ExpectedSlotInFrame
  <2>3. config \in SlotConfig
    BY DEF TypeOK, SMTypeOK
  <2>4. /\ slotInfo' \in SlotInfo
        /\ SlotInfoMatchesConfig'
    BY <2>1, <2>2, <2>3, SlotInfoOfFacts DEF SlotInfoMatchesConfig
  <2>5. TypeOK'
    <3>1. served' \subseteq U16
      BY <1>8, <2>4 DEF PollSwitch, TypeOK, SlotInfo
    <3>2. cycleEnds' \in BOOLEAN /\ UNCHANGED clock
      BY <1>8 DEF PollSwitch, TypeOK
    <3> QED
      BY <1>8, <2>4, <3>1, <3>2 DEF PollSwitch, ProcessSwitch, clock, TypeOK, SMTypeOK
  <2>6. ConfigInv'
    BY <2>1 DEF ConfigInv
  <2> QED
    BY <2>4, <2>5, <2>6
<1>9. CASE UNCHANGED vars
  BY <1>9 DEF vars, smVars, clock, ghosts, TypeOK, SMTypeOK, ConfigInv,
              SlotInfoMatchesConfig
<1> QED
  BY <1>1, <1>2, <1>3, <1>4, <1>5, <1>6, <1>7, <1>8, <1>9 DEF Next, Poll

(* Every reachable state is well typed, for every set of configurations,   *)
(* clock word, timer and offset, wraps and corrections included.           *)
THEOREM TypeCorrect == Spec => []TypeOK
<1>1. SlotInv => TypeOK
  BY DEF SlotInv
<1> QED
  BY <1>1, SlotInvInit, SlotInvNext, PTL DEF Spec

(* A running scheduler never hands its callbacks slot information of       *)
(* another configuration, nor an ACTIVE slot that is not its own, nor the  *)
(* invalid pin in an ACTIVE slot.                                          *)
THEOREM SlotInfoAlwaysMatches == Spec => []SlotInfoMatchesConfig
<1>1. SlotInv => SlotInfoMatchesConfig
  BY DEF SlotInv
<1> QED
  BY <1>1, SlotInvInit, SlotInvNext, PTL DEF Spec

-----------------------------------------------------------------------------
(* The timing invariant: unless the clock went back, the run started in    *)
(* the past and has not handled the end of its cycle.                      *)
MonoInv ==
  /\ SlotInv
  /\ isRunning => ~cycleCompleted
  /\ isRunning /\ Steady => startTime <= syncTime
  /\ config.single /\ cycleEnds /\ Steady => ~isRunning
  /\ NeverAhead

(* While running, the modular clock arithmetic of Process is exact.        *)
LEMMA RunningFacts ==
  ASSUME MonoInv, isRunning, Steady
  PROVE  /\ ClockExact(syncTime)
         /\ config.total \in Nat \ {0} /\ config.interval \in Nat \ {0}
         /\ startTime \in Nat /\ syncTime \in Nat /\ slotInfo.currentSlot \in Nat
         /\ startTime <= syncTime
         /\ Elapsed(syncTime) = syncTime - startTime
         /\ LastSlotEnd = startTime + config.total * config.interval
<1>1. ClockExact(syncTime)
  <2>1. /\ config \in SlotConfig
        /\ startTime \in Nat /\ syncTime \in Nat /\ syncTime < TimeWord
        /\ startTime <= syncTime
    BY ClockTyped, TimeWordAssumption DEF MonoInv, SlotInv, TypeOK, SMTypeOK
  <2>2. config.total > 0 /\ config.interval > 0
    BY DEF MonoInv, SlotInv, ConfigInv
  <2>3. startTime + config.total * config.interval < TimeWord
    BY DEF Steady
  <2> QED
    BY <2>1, <2>2, <2>3 DEF ClockExact
<1>2. slotInfo.currentSlot \in Nat
  <2>1. slotInfo.currentSlot \in U16
    BY DEF MonoInv, SlotInv, TypeOK, SMTypeOK, SlotInfo
  <2> QED
    BY <2>1, Widths
<1> QED
  BY <1>1, <1>2, ExactArithmetic DEF MonoInv

(* Both ways a cycle ends leave a whole frame behind the start.            *)
LEMMA CycleEndTimes ==
  ASSUME MonoInv, isRunning, Steady,
         CycleIsOver(syncTime) \/ SwitchEndsCycle(syncTime)
  PROVE  syncTime >= startTime + config.total * config.interval
<1>1. CASE CycleIsOver(syncTime)
  BY <1>1, RunningFacts DEF CycleIsOver
<1>2. CASE SwitchEndsCycle(syncTime)
  <2> DEFINE e == Elapsed(syncTime)
             n == config.interval
  <2>1. e \in Nat /\ n \in Nat \ {0} /\ e = syncTime - startTime
    BY RunningFacts
  <2>2. config.total <= e \div n
    BY <1>2 DEF SwitchEndsCycle, TotalCycles
  <2>3. (e \div n) \in Nat /\ (e \div n) * n <= e
    BY <2>1, DivisionBounds
  <2> DEFINE q == e \div n
  <2> HIDE DEF e, n, q
  <2>4. config.total * n <= q * n
    BY <2>1, <2>2, <2>3, RunningFacts, SMTT(30) DEF q
  <2>5. config.total * n <= e
    BY <2>1, <2>3, <2>4, RunningFacts, SMTT(30) DEF q
  <2> QED
    BY <2>1, <2>5, RunningFacts, SMTT(30) DEF n
<1> QED
  BY <1>1, <1>2

(* A move of the clock keeps the run steady only if it goes forward.       *)
LEMMA SteadyMeansForward ==
  ASSUME TypeOK, TypeOK', Tick \/ SetTimeOffset, Steady'
  PROVE  Steady /\ syncTime <= syncTime'
<1>1. UNCHANGED <<config, startTime>> /\ putBack' = (putBack \/ syncTime' < syncTime)
  BY ClockMoves DEF Watched, smVars
<1>2. putBack \in BOOLEAN /\ ~putBack'
  BY DEF TypeOK, Steady
<1>3. ~putBack /\ ~(syncTime' < syncTime)
  BY <1>1, <1>2, Zenon
<1>4. syncTime \in Nat /\ syncTime' \in Nat
  BY ClockTyped, ClockTypedNext
<1>5. syncTime <= syncTime'
  BY <1>3, <1>4
<1>6. Steady
  BY <1>1, <1>3 DEF Steady
<1> QED
  BY <1>5, <1>6

LEMMA MonoInvInit == Init => MonoInv
<1> SUFFICES ASSUME Init PROVE MonoInv
  OBVIOUS
<1>1. SlotInv
  BY SlotInvInit
<1>2. ~isRunning /\ ~cycleEnds
  BY DEF Init, SMInit
<1> QED
  BY <1>1, <1>2 DEF MonoInv, NeverAhead

(* A switch in a single cycle goes forward, to a slot the clock reached.   *)
LEMMA SwitchGoesForward ==
  ASSUME MonoInv, PollSwitch, config.single, Steady
  PROVE  /\ ~SwitchEndsCycle(syncTime)
         /\ slotInfo'.currentSlot = TotalCycles(syncTime)
         /\ slotInfo'.currentSlot \in Nat
         /\ slotInfo'.currentSlot > slotInfo.currentSlot
         /\ startTime + slotInfo'.currentSlot * config.interval <= syncTime
<1>1. ProcessSwitch(syncTime) /\ isRunning
  BY DEF PollSwitch, ProcessSwitch
<1>2. /\ ~cycleCompleted
      /\ startTime + slotInfo.currentSlot * config.interval <= syncTime
  BY <1>1 DEF MonoInv, NeverAhead
<1>3. ClockExact(syncTime) /\ slotInfo.currentSlot \in Nat
  BY <1>1, RunningFacts
<1> QED
  BY <1>1, <1>2, <1>3, SwitchForward

LEMMA MonoInvNext == MonoInv /\ [Next]_vars => MonoInv'
<1> SUFFICES ASSUME MonoInv, [Next]_vars
             PROVE  MonoInv'
  OBVIOUS
<1>1. SlotInv'
  BY SlotInvNext DEF MonoInv
<1>2. CASE Tick \/ SetTimeOffset
  <2>1. UNCHANGED smVars /\ cycleEnds' = cycleEnds
    BY <1>2, ClockMoves DEF Watched
  <2>2. syncTime \in Nat /\ syncTime' \in Nat
    BY <1>1, ClockTyped, ClockTypedNext DEF MonoInv, SlotInv
  <2>3. Steady' => Steady /\ syncTime <= syncTime'
    BY <1>1, <1>2, SteadyMeansForward DEF MonoInv, SlotInv
  <2>4. CASE isRunning /\ Steady'
    <3> DEFINE p == slotInfo.currentSlot * config.interval
    <3>1. p \in Nat /\ startTime \in Nat
      BY <2>3, <2>4, RunningFacts, SMTT(30)
    <3>2. config.single => startTime + p <= syncTime
      BY <2>3, <2>4 DEF MonoInv, NeverAhead
    <3> HIDE DEF p
    <3>3. config.single => startTime + p <= syncTime'
      BY <2>2, <2>3, <2>4, <3>1, <3>2
    <3>4. NeverAhead'
      BY <2>1, <3>3 DEF smVars, NeverAhead, p
    <3>5. startTime <= syncTime' /\ ~cycleCompleted /\ ~(config.single /\ cycleEnds)
      BY <2>2, <2>3, <2>4, <3>1 DEF MonoInv
    <3> QED
      BY <1>1, <2>1, <3>4, <3>5 DEF smVars, MonoInv
  <2>5. CASE ~isRunning \/ ~Steady'
    BY <1>1, <2>1, <2>5 DEF smVars, MonoInv, NeverAhead
  <2> QED
    BY <2>4, <2>5
<1>4. CASE OwnerConfigure
  <2>1. ~isRunning /\ isRunning' = isRunning
    BY <1>4 DEF OwnerConfigure, Configure, CanConfigure
  <2> QED
    BY <1>1, <2>1 DEF MonoInv, NeverAhead
<1>5. CASE OwnerStart
  <2>1. /\ isConfigured /\ config' = config /\ ~cycleCompleted' /\ ~cycleEnds'
        /\ startTime' = syncTime /\ syncTime' = syncTime
        /\ slotInfo' = SlotInfoOf(config, 0)
    BY <1>5, ClockStays DEF OwnerStart, Start
  <2>2. /\ config \in SlotConfig /\ syncTime \in Nat
    BY ClockTyped DEF MonoInv, SlotInv, TypeOK, SMTypeOK
  <2>3. slotInfo'.currentSlot = 0
    BY <2>1 DEF SlotInfoOf
  <2>4. 0 * config.interval = 0
    BY <2>2 DEF SlotConfig
  <2>5. startTime' + slotInfo'.currentSlot * config'.interval <= syncTime'
    BY <2>1, <2>2, <2>3, <2>4
  <2>6. startTime' <= syncTime'
    BY <2>1, <2>2
  <2> QED
    BY <1>1, <2>1, <2>5, <2>6 DEF MonoInv, NeverAhead
<1>6. CASE OwnerStop
  BY <1>1, <1>6 DEF OwnerStop, Stop, MonoInv, NeverAhead
<1>7. CASE PollFirst
  BY <1>1, <1>7, ClockStays DEF PollFirst, ProcessFirst, clock, MonoInv, NeverAhead, Steady
<1>8. CASE PollCycleEnd
  <2>1. ~isRunning'
    BY <1>8 DEF PollCycleEnd, ProcessCycleEnd
  <2> QED
    BY <1>1, <2>1 DEF MonoInv, NeverAhead
<1>9. CASE PollSwitch
  <2>1. /\ isRunning /\ isRunning' = isRunning /\ config' = config
        /\ cycleCompleted' = cycleCompleted /\ startTime' = startTime
        /\ syncTime' = syncTime /\ Steady' = Steady
        /\ cycleEnds' = (cycleEnds \/ SwitchEndsCycle(syncTime))
    BY <1>9, ClockStays DEF PollSwitch, ProcessSwitch, clock, Steady
  <2>2. CASE config.single /\ Steady
    <3>1. /\ ~SwitchEndsCycle(syncTime)
          /\ startTime + slotInfo'.currentSlot * config.interval <= syncTime
      BY <1>9, <2>2, SwitchGoesForward
    <3>2. ~cycleEnds'
      BY <2>1, <2>2, <3>1 DEF MonoInv
    <3> QED
      BY <1>1, <2>1, <3>1, <3>2 DEF MonoInv, NeverAhead
  <2>3. CASE ~config.single \/ ~Steady
    BY <1>1, <2>1, <2>3 DEF MonoInv, NeverAhead
  <2> QED
    BY <2>2, <2>3
<1>10. CASE UNCHANGED vars
  BY <1>1, <1>10, ClockStays DEF vars, smVars, clock, ghosts, MonoInv, NeverAhead, Steady
<1> QED
  BY <1>2, <1>4, <1>5, <1>6, <1>7, <1>8, <1>9, <1>10 DEF Next, Poll

(* What a run that was polled in every slot has done so far: nothing, or   *)
(* the slots up to the current one, whose end the clock has not passed.    *)
PromptSoFar ==
  isRunning /\ config.single /\ ~late /\ Steady =>
    /\ isFirstProcess =>
         served = {} /\ slotInfo.currentSlot = 0 /\ syncTime = startTime
    /\ ~isFirstProcess =>
         /\ served = 0 .. slotInfo.currentSlot
         /\ syncTime <= startTime + (slotInfo.currentSlot + 1) * config.interval

PromptInv == MonoInv /\ PromptCycleServesAll /\ PromptSoFar

(* An instant at which Process had nothing to do lies within the current   *)
(* slot of a single cycle.                                                 *)
LEMMA NotDueInSlot ==
  ASSUME MonoInv, isRunning, ~isFirstProcess, config.single, Steady,
         NEW t \in Nat, syncTime <= t, t < TimeWord, ~ProcessDue(t)
  PROVE  t < startTime + (slotInfo.currentSlot + 1) * config.interval
<1>1. ClockExact(t)
  <2>1. ClockExact(syncTime)
    BY RunningFacts
  <2>3. startTime \in Nat /\ syncTime \in Nat /\ startTime <= t
    BY RunningFacts
  <2>4. startTime + config.total * config.interval < TimeWord
    BY <2>1 DEF ClockExact
  <2>5. config \in SlotConfig /\ config.total > 0 /\ config.interval > 0
    BY <2>1 DEF ClockExact
  <2> QED
    BY <2>3, <2>4, <2>5 DEF ClockExact
<1>2. ~cycleCompleted
  BY DEF MonoInv
<1>3. ~CycleIsOver(t) /\ ExpectedSlot(t) = slotInfo.currentSlot
  BY DEF ProcessDue
<1>4. /\ TotalCycles(t) = slotInfo.currentSlot
      /\ t - startTime < (TotalCycles(t) + 1) * config.interval
  BY <1>1, <1>2, <1>3, ExpectedSlotExact
<1> DEFINE end == (slotInfo.currentSlot + 1) * config.interval
<1>5. end \in Nat /\ startTime \in Nat /\ t - startTime < end
  <2>1. slotInfo.currentSlot \in Nat /\ config.interval \in Nat /\ startTime \in Nat
    BY RunningFacts
  <2> QED
    BY <1>4, <2>1, SMTT(30)
<1> HIDE DEF end
<1>6. t < startTime + end
  BY <1>5
<1> QED
  BY <1>6 DEF end

LEMMA PromptInvInit == Init => PromptInv
  BY MonoInvInit DEF Init, SMInit, PromptInv, PromptCycleServesAll, PromptSoFar

LEMMA PromptInvNext == PromptInv /\ [Next]_vars => PromptInv'
<1> SUFFICES ASSUME PromptInv, [Next]_vars
             PROVE  PromptInv'
  OBVIOUS
<1>1. MonoInv /\ MonoInv'
  BY MonoInvNext DEF PromptInv
<1>2. CASE Tick \/ SetTimeOffset
  <2>1. /\ UNCHANGED smVars /\ served' = served
        /\ late' = (late \/ \E t \in syncTime .. (syncTime' - 1) : ProcessDue(t))
    BY <1>2, ClockMoves DEF Watched
  <2>2. /\ syncTime \in Nat /\ syncTime' \in Nat /\ syncTime' < TimeWord
    BY <1>1, ClockTyped, ClockTypedNext, TimeWordAssumption DEF MonoInv, SlotInv
  <2>3. Steady' => Steady /\ syncTime <= syncTime'
    BY <1>1, <1>2, SteadyMeansForward DEF MonoInv, SlotInv
  <2>4. PromptCycleServesAll'
    BY <2>1, <2>3 DEF PromptInv, PromptCycleServesAll, smVars
  <2>5. PromptSoFar'
    <3> SUFFICES ASSUME isRunning, config.single, ~late', Steady'
                 PROVE  PromptSoFar'
      BY <2>1 DEF PromptSoFar, smVars
    <3>1. ~late /\ Steady
      BY <2>1, <2>3
    <3>2. CASE syncTime' = syncTime
      BY <2>1, <3>1, <3>2 DEF PromptInv, PromptSoFar, smVars
    <3>3. CASE syncTime < syncTime'
      <4>0. PICK after \in Nat : after = syncTime' /\ syncTime < after /\ after < TimeWord
        BY <2>2, <3>3, Zenon
      <4> DEFINE t == after - 1
      <4>1. t \in Nat /\ syncTime <= t /\ t < TimeWord /\ t \in syncTime .. (after - 1)
        <5>1. syncTime \in Nat /\ after \in Nat /\ syncTime < after /\ after < TimeWord
          BY <2>2, <4>0, Zenon
        <5> QED
          BY <5>1, TimeWordAssumption DEF t
      <4>2. ~ProcessDue(t)
        BY <2>1, <4>0, <4>1, Zenon
      <4>3. ~isFirstProcess
        BY <4>2 DEF ProcessDue
      <4>4. served = 0 .. slotInfo.currentSlot
        BY <3>1, <4>3 DEF PromptInv, PromptSoFar
      <4> HIDE DEF t
      <4>5. t < startTime + (slotInfo.currentSlot + 1) * config.interval
        BY <1>1, <3>1, <4>1, <4>2, <4>3, NotDueInSlot
      <4> DEFINE end == startTime + (slotInfo.currentSlot + 1) * config.interval
      <4>6. end \in Nat
        <5>1. slotInfo.currentSlot \in Nat /\ config.interval \in Nat /\ startTime \in Nat
          BY <1>1, <3>1, RunningFacts
        <5> QED
          BY <5>1, SMTT(30)
      <4>7. t < end
        BY <4>5
      <4> HIDE DEF end
      <4>8. syncTime' <= end
        <5>1. after <= end
          BY <4>6, <4>7 DEF t
        <5> QED
          BY <4>0, <5>1, Zenon
      <4> QED
        BY <2>1, <4>3, <4>4, <4>8 DEF PromptSoFar, smVars, end
    <3> QED
      BY <2>2, <2>3, <3>2, <3>3
  <2> QED
    BY <1>1, <2>4, <2>5 DEF PromptInv
<1>4. CASE OwnerConfigure
  <2>1. ~cycleCompleted' /\ ~isRunning'
    BY <1>4 DEF OwnerConfigure, Configure, CanConfigure
  <2> QED
    BY <1>1, <2>1 DEF PromptInv, PromptCycleServesAll, PromptSoFar
<1>5. CASE OwnerStart
  <2>1. /\ isFirstProcess' /\ ~cycleCompleted' /\ served' = {}
        /\ startTime' = syncTime /\ syncTime' = syncTime
        /\ slotInfo' = SlotInfoOf(config, 0)
    BY <1>5, ClockStays DEF OwnerStart, Start
  <2>2. slotInfo'.currentSlot = 0
    BY <2>1 DEF SlotInfoOf
  <2> QED
    BY <1>1, <2>1, <2>2 DEF PromptInv, PromptCycleServesAll, PromptSoFar
<1>6. CASE OwnerStop
  <2>1. /\ ~isRunning' /\ Steady' = Steady
        /\ UNCHANGED <<config, cycleCompleted, served, late>>
    BY <1>6 DEF OwnerStop, Stop, ghosts, Steady
  <2> QED
    BY <1>1, <2>1 DEF PromptInv, PromptCycleServesAll, PromptSoFar
<1>7. CASE PollFirst
  <2>1. /\ isRunning /\ isFirstProcess /\ ~isFirstProcess'
        /\ served' = served \union {slotInfo.currentSlot}
        /\ UNCHANGED <<config, isRunning, cycleCompleted, startTime, slotInfo,
                       syncTime, late>>
        /\ Steady' = Steady
    BY <1>7, ClockStays DEF PollFirst, ProcessFirst, clock, Steady
  <2>2. PromptCycleServesAll'
    BY <1>1, <2>1 DEF MonoInv, PromptCycleServesAll
  <2>3. PromptSoFar'
    <3> SUFFICES ASSUME config.single, ~late, Steady
                 PROVE  PromptSoFar'
      BY <2>1 DEF PromptSoFar
    <3>1. served = {} /\ slotInfo.currentSlot = 0 /\ syncTime = startTime
      BY <2>1 DEF PromptInv, PromptSoFar
    <3>2. served' = 0 .. slotInfo'.currentSlot
      BY <2>1, <3>1
    <3>3. syncTime' <= startTime' + (slotInfo'.currentSlot + 1) * config'.interval
      <4>1. startTime \in Nat /\ config.interval \in Nat
        BY <1>1, <2>1, RunningFacts
      <4> QED
        BY <2>1, <3>1, <4>1
    <3> QED
      BY <2>1, <3>2, <3>3 DEF PromptSoFar
  <2> QED
    BY <1>1, <2>2, <2>3 DEF PromptInv
<1>8. CASE PollCycleEnd
  <2>1. /\ isRunning /\ ~isFirstProcess /\ CycleIsOver(syncTime) /\ ~isRunning'
        /\ UNCHANGED <<config, served, late>> /\ Steady' = Steady
    BY <1>8 DEF PollCycleEnd, ProcessCycleEnd, Steady
  <2>2. PromptCycleServesAll'
    <3> SUFFICES ASSUME config.single, ~late, Steady
                 PROVE  served = 0 .. (config.total - 1)
      BY <2>1 DEF PromptCycleServesAll
    <3> DEFINE s == slotInfo.currentSlot
    <3>1. /\ served = 0 .. s
          /\ syncTime <= startTime + (s + 1) * config.interval
      BY <2>1 DEF PromptInv, PromptSoFar
    <3>2. syncTime >= startTime + config.total * config.interval
      BY <1>1, <2>1, CycleEndTimes
    <3>3. /\ s \in Nat /\ config.total \in Nat /\ config.interval \in Nat \ {0}
          /\ startTime \in Nat /\ syncTime \in Nat
      BY <1>1, <2>1, RunningFacts
    <3>4. config.total * config.interval <= (s + 1) * config.interval
      <4> DEFINE a == config.total * config.interval
                 b == (s + 1) * config.interval
      <4>1. a \in Nat /\ b \in Nat
        BY <3>3, SMTT(30)
      <4>2. syncTime <= startTime + b /\ syncTime >= startTime + a
        BY <3>1, <3>2
      <4> HIDE DEF a, b
      <4>3. a <= b
        BY <3>3, <4>1, <4>2
      <4> QED
        BY <4>3 DEF a, b
    <3>5. config.total <= s + 1
      BY <3>3, <3>4, SlotStartsOrdered
    <3>6. s < config.total
      BY <1>1, <2>1 DEF MonoInv, SlotInv, SlotInfoMatchesConfig
    <3>7. s = config.total - 1
      BY <3>3, <3>5, <3>6
    <3> QED
      BY <3>1, <3>7
  <2> QED
    BY <1>1, <2>1, <2>2 DEF PromptInv, PromptSoFar
<1>9. CASE PollSwitch
  <2>1. /\ isRunning /\ ~isFirstProcess /\ ~isFirstProcess'
        /\ ~CycleIsOver(syncTime)
        /\ served' = served \union {slotInfo'.currentSlot}
        /\ UNCHANGED <<config, isRunning, cycleCompleted, startTime, syncTime,
                       late>>
        /\ Steady' = Steady
    BY <1>9, ClockStays DEF PollSwitch, ProcessSwitch, clock, Steady
  <2>2. PromptCycleServesAll'
    BY <1>1, <2>1 DEF MonoInv, PromptCycleServesAll
  <2>3. PromptSoFar'
    <3> SUFFICES ASSUME config.single, ~late, Steady
                 PROVE  PromptSoFar'
      BY <2>1 DEF PromptSoFar
    <3> DEFINE s == slotInfo.currentSlot
               q == slotInfo'.currentSlot
               n == config.interval
    <3>1. served = 0 .. s /\ syncTime <= startTime + (s + 1) * n
      BY <2>1 DEF PromptInv, PromptSoFar
    <3>2. q = TotalCycles(syncTime) /\ q \in Nat /\ q > s
          /\ startTime + q * n <= syncTime
      BY <1>1, <1>9, SwitchGoesForward
    <3>3. /\ s \in Nat /\ n \in Nat \ {0} /\ startTime \in Nat /\ syncTime \in Nat
          /\ ClockExact(syncTime)
      BY <1>1, <2>1, RunningFacts
    <3>4. q <= s + 1
      <4> DEFINE a == q * n
                 b == (s + 1) * n
      <4>1. a \in Nat /\ b \in Nat
        BY <3>2, <3>3, SMTT(30)
      <4>2. syncTime <= startTime + b /\ startTime + a <= syncTime
        BY <3>1, <3>2
      <4> HIDE DEF a, b, q, s, n
      <4>3. a <= b
        BY <3>3, <4>1, <4>2
      <4> QED
        BY <3>2, <3>3, <4>3, SlotStartsOrdered DEF a, b
    <3>5. served' = 0 .. q
      <4>1. q = s + 1
        BY <3>2, <3>3, <3>4
      <4> HIDE DEF q, s
      <4>2. 0 .. (s + 1) = (0 .. s) \union {s + 1}
        BY <3>3
      <4> QED
        BY <2>1, <3>1, <4>1, <4>2 DEF q
    <3>6. syncTime <= startTime + (q + 1) * n
      <4>1. syncTime - startTime < (q + 1) * n
        <5>1. ~cycleCompleted
          BY <1>1, <2>1 DEF MonoInv
        <5> QED
          BY <2>1, <3>2, <3>3, <5>1, ExpectedSlotExact
      <4> DEFINE b == (q + 1) * n
      <4>2. b \in Nat /\ syncTime - startTime < b
        BY <3>2, <3>3, <4>1, SMTT(30)
      <4> HIDE DEF b
      <4>3. syncTime <= startTime + b
        BY <3>3, <4>2
      <4> QED
        BY <4>3 DEF b
    <3> QED
      BY <2>1, <3>5, <3>6 DEF PromptSoFar
  <2> QED
    BY <1>1, <2>2, <2>3 DEF PromptInv
<1>10. CASE UNCHANGED vars
  BY <1>1, <1>10, ClockStays
     DEF vars, smVars, clock, ghosts, PromptInv, PromptCycleServesAll, PromptSoFar, Steady
<1> QED
  BY <1>2, <1>4, <1>5, <1>6, <1>7, <1>8, <1>9, <1>10 DEF Next, Poll

(* A single cycle never enters a slot before its time, for every frame,    *)
(* slot length and lateness of polling, unless the clock goes back.        *)
THEOREM SlotNeverAhead == Spec => []NeverAhead
<1>1. MonoInv => NeverAhead
  BY DEF MonoInv
<1> QED
  BY <1>1, MonoInvInit, MonoInvNext, PTL DEF Spec

(* Nor does it go back to an earlier slot, or enter a slot twice.          *)
THEOREM SlotsOnlyAdvance == Spec => SlotsAdvance
<1> DEFINE Forward == isRunning /\ isRunning' /\ config.single /\ Steady /\ slotInfo' # slotInfo
                        => slotInfo'.currentSlot > slotInfo.currentSlot
<1>1. MonoInv /\ [Next]_vars => [Forward]_vars
  <2> SUFFICES ASSUME MonoInv, Next, isRunning, isRunning', config.single,
                      Steady, slotInfo' # slotInfo
               PROVE  slotInfo'.currentSlot > slotInfo.currentSlot
    OBVIOUS
  <2>1. ~Tick /\ ~SetTimeOffset /\ ~OwnerConfigure /\ ~OwnerStop /\ ~PollFirst /\ ~PollCycleEnd
    BY DEF Tick, SetTimeOffset, OwnerConfigure, Configure, OwnerStop, Stop, PollFirst,
           ProcessFirst, PollCycleEnd, ProcessCycleEnd, smVars
  <2>2. ~OwnerStart
    BY DEF OwnerStart, Start
  <2>3. PollSwitch
    BY <2>1, <2>2 DEF Next, Poll
  <2> QED
    BY <2>3, SwitchGoesForward
<1> HIDE DEF Forward
<1>2. Spec => [][Forward]_vars
  BY <1>1, MonoInvInit, MonoInvNext, PTL DEF Spec
<1> QED
  BY <1>2 DEF SlotsAdvance, Forward

(* The pins are released only after the last slot's full length.           *)
THEOREM CycleEndIsComplete == Spec => CycleEndAfterFullDuration
<1> DEFINE Full == ~cycleEnds /\ cycleEnds' /\ Steady
                     => syncTime >= startTime + config.total * config.interval
<1>1. MonoInv /\ [Next]_vars => [Full]_vars
  <2> SUFFICES ASSUME MonoInv, Next, ~cycleEnds, cycleEnds', Steady
               PROVE  syncTime >= startTime + config.total * config.interval
    OBVIOUS
  <2>1. PollCycleEnd \/ PollSwitch
    BY DEF Next, Poll, Tick, SetTimeOffset, Watched, OwnerConfigure, OwnerStart,
           OwnerStop, PollFirst, ghosts
  <2>2. CASE PollCycleEnd
    BY <2>2, CycleEndTimes DEF PollCycleEnd, ProcessCycleEnd
  <2>3. CASE PollSwitch
    <3>1. isRunning /\ SwitchEndsCycle(syncTime)
      BY <2>3 DEF PollSwitch, ProcessSwitch
    <3> QED
      BY <3>1, CycleEndTimes
  <2> QED
    BY <2>1, <2>2, <2>3
<1> HIDE DEF Full
<1>2. Spec => [][Full]_vars
  BY <1>1, MonoInvInit, MonoInvNext, PTL DEF Spec
<1> QED
  BY <1>2 DEF CycleEndAfterFullDuration, Full

(* And once they are, no slot is served until the next Start.              *)
THEOREM EndedCycleStaysEnded == Spec => NothingServedAfterCycleEnd
<1> DEFINE Quiet == config.single /\ cycleEnds /\ Steady /\ served' # served
                      => served' = {}
<1>1. MonoInv /\ [Next]_vars => [Quiet]_vars
  <2> SUFFICES ASSUME MonoInv, Next, config.single, cycleEnds, Steady,
                      served' # served
               PROVE  served' = {}
    OBVIOUS
  <2>1. ~isRunning
    BY DEF MonoInv
  <2>2. ~PollFirst /\ ~PollSwitch
    BY <2>1 DEF PollFirst, ProcessFirst, PollSwitch, ProcessSwitch
  <2> QED
    BY <2>2 DEF Next, Poll, Tick, SetTimeOffset, Watched, OwnerConfigure, OwnerStart,
                OwnerStop, PollCycleEnd, ghosts
<1> HIDE DEF Quiet
<1>2. Spec => [][Quiet]_vars
  BY <1>1, MonoInvInit, MonoInvNext, PTL DEF Spec
<1> QED
  BY <1>2 DEF NothingServedAfterCycleEnd, Quiet

(* A cycle that was polled in every slot has served every slot, and each   *)
(* in its time, when it ends.                                              *)
THEOREM PromptCycleIsServed == Spec => []PromptCycleServesAll
<1>1. PromptInv => PromptCycleServesAll
  BY DEF PromptInv
<1> QED
  BY <1>1, PromptInvInit, PromptInvNext, PTL DEF Spec
=============================================================================
