-------------------------- MODULE SlotManagerProofs --------------------------
(***************************************************************************)
(* Facts about the operators of SlotManager that the proofs about its      *)
(* users rest on: integer division, the slot information, and what Process *)
(* makes of a clock that has not wrapped since the start.                  *)
(***************************************************************************)
EXTENDS SlotManager, TLAPS

(* Integer division, as Process uses it to turn elapsed time into a slot.  *)
LEMMA DivisionBounds ==
  ASSUME NEW e \in Nat, NEW n \in Nat \ {0}
  PROVE  /\ e \div n \in Nat
         /\ (e \div n) * n <= e
         /\ e < (e \div n + 1) * n
  BY SMTT(30)

(* A time before the end of slot t - 1 lies in a slot below t.             *)
LEMMA DivisionBelow ==
  ASSUME NEW e \in Nat, NEW n \in Nat \ {0}, NEW t \in Nat, e < t * n
  PROVE  e \div n < t
<1> DEFINE q == e \div n
<1>1. q \in Nat /\ q * n <= e
  BY DivisionBounds
<1>2. q * n < t * n
  BY <1>1, SMTT(30)
<1>3. CASE q >= t
  <2>1. q * n >= t * n
    BY <1>1, <1>3, SMTT(30)
  <2> QED
    BY <1>2, <2>1, <1>1, SMTT(30)
<1> QED
  BY <1>1, <1>3

(* Below the modulus, the remainder is the number itself.                  *)
LEMMA RemainderBelow ==
  ASSUME NEW a \in Nat, NEW t \in Nat \ {0}, a < t
  PROVE  a % t = a
  BY SMTT(30)

(* A slot whose start has been reached is at most the current one.         *)
LEMMA DivisionAtLeast ==
  ASSUME NEW e \in Nat, NEW n \in Nat \ {0}, NEW s \in Nat, s * n <= e
  PROVE  s <= e \div n
<1> DEFINE q == e \div n
<1>1. q \in Nat /\ e < (q + 1) * n
  BY DivisionBounds
<1>2. CASE q + 1 <= s
  <2>1. (q + 1) * n <= s * n
    BY <1>1, <1>2, SMTT(30)
  <2> QED
    BY <1>1, <2>1, SMTT(30)
<1> QED
  BY <1>1, <1>2

(* Slots that start no later than another are not after it.                *)
LEMMA SlotStartsOrdered ==
  ASSUME NEW a \in Nat, NEW b \in Nat, NEW n \in Nat \ {0}, a * n <= b * n
  PROVE  a <= b
<1>1. CASE b + 1 <= a
  <2>1. (b + 1) * n <= a * n /\ (b + 1) * n = b * n + n
    BY <1>1, SMTT(30)
  <2>2. b * n \in Nat /\ a * n \in Nat
    BY SMTT(30)
  <2> QED
    BY <2>1, <2>2, SMTT(30)
<1> QED
  BY <1>1

-----------------------------------------------------------------------------
(* The unsigned widths: 255, the invalid pin, is never below a uint8_t.    *)
LEMMA Widths ==
  /\ U8 \subseteq Nat /\ U16 \subseteq Nat
  /\ 0 \in U16 /\ 0 \in U8 /\ InvalidPin \in U8
  /\ \A t \in U16, x \in Nat : x < t => x \in U16
  /\ \A t \in U8, x \in Nat : x < t => x \in U8 /\ x # InvalidPin
  BY SMTT(30) DEF U8, U16, InvalidPin

(* SlotInfoOf yields well-typed information that satisfies the three       *)
(* clauses of SlotInfoMatchesConfig, for every slot of the frame.          *)
LEMMA SlotInfoOfFacts ==
  ASSUME NEW c \in SlotConfig, NEW slot \in U16, slot < c.total
  PROVE  LET info == SlotInfoOf(c, slot) IN
         /\ info \in SlotInfo
         /\ info.currentSlot = slot
         /\ (info.slotType = "ACTIVE") <=> (slot \in OwnSlots(c))
         /\ info.slotType = "ACTIVE" =>
              /\ info.activePin = slot - c.startSlot
              /\ info.activePin < c.count
              /\ info.activePin # InvalidPin
<1>1. /\ c.startSlot \in Nat /\ c.count \in U8 /\ c.count \in Nat
      /\ slot \in Nat
  BY Widths DEF SlotConfig
<1>2. CASE slot \in OwnSlots(c)
  <2>1. SlotInfoOf(c, slot) = [currentSlot |-> slot, slotType |-> "ACTIVE",
                               activePin |-> slot - c.startSlot]
    BY <1>2 DEF SlotInfoOf
  <2>2. slot - c.startSlot \in Nat /\ slot - c.startSlot < c.count
    BY <1>1, <1>2 DEF OwnSlots
  <2>3. slot - c.startSlot \in U8 /\ slot - c.startSlot # InvalidPin
    BY <1>1, <2>2, Widths
  <2> QED
    BY <1>2, <2>1, <2>2, <2>3 DEF SlotInfo
<1>3. CASE slot \notin OwnSlots(c)
  <2>1. SlotInfoOf(c, slot) = [currentSlot |-> slot, slotType |-> "INACTIVE",
                               activePin |-> InvalidPin]
    BY <1>3 DEF SlotInfoOf
  <2> QED
    BY <1>3, <2>1, Widths DEF SlotInfo
<1> QED
  BY <1>2, <1>3

(* The slot Process computes is a slot of the frame, whatever the clock.   *)
LEMMA ExpectedSlotInFrameAt ==
  ASSUME NEW now \in Int, startTime \in Int, config \in SlotConfig,
         config.total > 0, config.interval > 0
  PROVE  /\ ExpectedSlot(now) \in U16
         /\ ExpectedSlot(now) < config.total
<1>1. /\ config.total \in U16 /\ config.interval \in Nat \ {0}
  BY DEF SlotConfig
<1>2. config.total \in Nat
  BY <1>1, Widths
<1>3. Elapsed(now) \in Nat
  BY TimeWordAssumption, SMTT(30) DEF Elapsed
<1>4. TotalCycles(now) \in Nat
  BY <1>1, <1>3, DivisionBounds DEF TotalCycles
<1>5. ExpectedSlot(now) \in Nat /\ ExpectedSlot(now) < config.total
  BY <1>2, <1>4, SMTT(30) DEF ExpectedSlot
<1> QED
  BY <1>1, <1>5, Widths

-----------------------------------------------------------------------------
(* A valid configuration, and a clock that has not gone back or wrapped    *)
(* since Start and will not before the end of the frame.                   *)
ClockExact(now) ==
  /\ config \in SlotConfig /\ config.total > 0 /\ config.interval > 0
  /\ startTime \in Nat /\ now \in Nat
  /\ startTime <= now /\ now < TimeWord
  /\ startTime + config.total * config.interval < TimeWord

(* The arithmetic of Process on unsigned words is then that on integers.   *)
LEMMA ExactArithmetic ==
  ASSUME NEW now, ClockExact(now)
  PROVE  /\ config.total \in Nat \ {0} /\ config.total \in U16
         /\ config.interval \in Nat \ {0}
         /\ startTime \in Nat /\ now \in Nat /\ now - startTime \in Nat
         /\ Elapsed(now) = now - startTime
         /\ LastSlotEnd = startTime + config.total * config.interval
<1>1. /\ config.total \in U16 /\ config.interval \in Nat \ {0}
      /\ config.total > 0
  BY DEF ClockExact, SlotConfig
<1>2. config.total \in Nat \ {0}
  <2>1. config.total \in Nat
    BY <1>1, Widths
  <2> QED
    BY <1>1, <2>1
<1>3. Elapsed(now) = now - startTime /\ now - startTime \in Nat
  <2>1. now - startTime \in 0..(TimeWord - 1)
    BY TimeWordAssumption DEF ClockExact
  <2> QED
    BY <2>1, TimeWordAssumption, SMTT(30) DEF Elapsed
<1>4. LastSlotEnd = startTime + config.total * config.interval
  <2> DEFINE frame == config.total * config.interval
  <2>1. frame \in Nat
    BY <1>1, <1>2, SMTT(30)
  <2>2. startTime \in Nat /\ startTime + frame < TimeWord
    BY DEF ClockExact
  <2> HIDE DEF frame
  <2>3. (startTime + frame) % TimeWord = startTime + frame
    BY <2>1, <2>2, TimeWordAssumption, RemainderBelow
  <2> QED
    BY <2>3 DEF LastSlotEnd, frame
<1> QED
  BY <1>1, <1>2, <1>3, <1>4 DEF ClockExact

(* In a single cycle that is not over, the expected slot is the number of  *)
(* slot lengths elapsed: it has not wrapped to the next frame.             *)
LEMMA ExpectedSlotExact ==
  ASSUME NEW now, ClockExact(now), config.single, ~cycleCompleted, ~CycleIsOver(now)
  PROVE  /\ TotalCycles(now) \in Nat
         /\ TotalCycles(now) < config.total
         /\ ExpectedSlot(now) = TotalCycles(now)
         /\ ExpectedSlot(now) \in U16
         /\ TotalCycles(now) * config.interval <= now - startTime
         /\ now - startTime < (TotalCycles(now) + 1) * config.interval
<1> DEFINE frame == config.total * config.interval
           e == now - startTime
<1>1. e \in Nat /\ e < frame
  <2>1. frame \in Nat /\ e \in Nat
    BY ExactArithmetic, SMTT(30)
  <2>2. ~(now >= startTime + frame)
    BY ExactArithmetic DEF CycleIsOver
  <2> HIDE DEF frame
  <2> QED
    BY <2>1, <2>2, ExactArithmetic
<1>2. TotalCycles(now) = e \div config.interval
  BY ExactArithmetic DEF TotalCycles
<1> HIDE DEF e
<1>3. TotalCycles(now) \in Nat /\ TotalCycles(now) < config.total
  BY <1>1, <1>2, ExactArithmetic, DivisionBounds, DivisionBelow
<1>4. ExpectedSlot(now) = TotalCycles(now)
  BY <1>3, ExactArithmetic, RemainderBelow DEF ExpectedSlot
<1>5. ExpectedSlot(now) \in U16
  BY <1>3, <1>4, ExactArithmetic, Widths
<1>6. /\ TotalCycles(now) * config.interval <= e
      /\ e < (TotalCycles(now) + 1) * config.interval
  BY <1>1, <1>2, ExactArithmetic, DivisionBounds
<1> QED
  BY <1>3, <1>4, <1>5, <1>6 DEF e

(* A switch in a single cycle goes to a later slot, one that exists and    *)
(* that the clock has reached, and never ends the cycle.                   *)
LEMMA SwitchForward ==
  ASSUME NEW now, ClockExact(now), config.single, ~cycleCompleted,
         slotInfo.currentSlot \in Nat,
         startTime + slotInfo.currentSlot * config.interval <= now,
         ProcessSwitch(now)
  PROVE  /\ ~SwitchEndsCycle(now)
         /\ slotInfo' = SlotInfoOf(config, TotalCycles(now))
         /\ slotInfo'.currentSlot = TotalCycles(now)
         /\ slotInfo'.currentSlot \in Nat
         /\ slotInfo'.currentSlot > slotInfo.currentSlot
         /\ slotInfo'.currentSlot < config.total
         /\ startTime + slotInfo'.currentSlot * config.interval <= now
<1> DEFINE e == now - startTime
           n == config.interval
           s == slotInfo.currentSlot
           q == e \div n
<1>1. /\ ~CycleIsOver(now)
      /\ ExpectedSlot(now) # s
      /\ slotInfo' = SlotInfoOf(config, ExpectedSlot(now))
  BY DEF ProcessSwitch
<1>2. /\ e \in Nat /\ n \in Nat \ {0} /\ s \in Nat
      /\ startTime \in Nat /\ now \in Nat
  BY ExactArithmetic
<1>3. q \in Nat /\ q < config.total /\ ExpectedSlot(now) = q /\ q \in U16
      /\ TotalCycles(now) = q
  BY <1>1, ExactArithmetic, ExpectedSlotExact DEF TotalCycles
<1>4. slotInfo'.currentSlot = q
  <2>1. config \in SlotConfig
    BY DEF ClockExact
  <2> QED
    BY <1>1, <1>3, <2>1, SlotInfoOfFacts
<1>5. q * n <= e
  BY <1>2, DivisionBounds
<1>6. s * n <= e
  <2>1. startTime + s * n <= now
    OBVIOUS
  <2> QED
    BY <1>2, <2>1, SMTT(30)
<1>7. s <= q
  BY <1>2, <1>6, DivisionAtLeast
<1>8. ~SwitchEndsCycle(now)
  BY <1>1, <1>3, ExactArithmetic DEF SwitchEndsCycle
<1>9. startTime + q * n <= now
  <2> DEFINE p == q * n
  <2>1. p \in Nat /\ p <= e
    BY <1>2, <1>3, <1>5, SMTT(30)
  <2> HIDE DEF p
  <2> QED
    BY <1>2, <2>1 DEF p
<1>10. slotInfo'.currentSlot > slotInfo.currentSlot
  <2> HIDE DEF e, n, q
  <2> QED
    BY <1>1, <1>2, <1>3, <1>4, <1>7
<1>11. startTime + slotInfo'.currentSlot * config.interval <= now
  <2> HIDE DEF e, q
  <2> QED
    BY <1>4, <1>9 DEF n
<1>12. slotInfo' = SlotInfoOf(config, TotalCycles(now))
  BY <1>1, <1>3
<1> QED
  <2> HIDE DEF e, n, s, q
  <2> QED
    BY <1>3, <1>4, <1>8, <1>10, <1>11, <1>12
=============================================================================
