------------------------- MODULE ContinuityCollector -------------------------
(***************************************************************************)
(* The collector of pin readings,                                          *)
(* User/continuity_collector/continuity_collector.cpp.                     *)
(*                                                                         *)
(* One row of the data matrix is measured per slot callback.  What is read *)
(* from the pins is abstracted to a tag the caller supplies, so that one   *)
(* can say in which slot of which run a row was measured.  Rows are filled *)
(* in the order of the callbacks: the slot number is not used.             *)
(***************************************************************************)
EXTENDS Integers, Sequences

CONSTANTS
  MaxGpioPins,     (* MAX_GPIO_PINS                                        *)
  MaxDetections,   (* The rows of a CollectorConfig made for no rows.      *)
  Blank            (* A row nothing was measured into: all DISCONNECTED.   *)

\* The default of m_num is 2.
ASSUME CollectorAssumption ==
  MaxGpioPins \in Nat \ {0, 1} /\ MaxDetections \in Nat \ {0}

VARIABLES
  num,             (* m_config.m_num, pins of this device                  *)
  detections,      (* m_config.m_totalDetectionNum, rows to measure        *)
  status,
  currentCycle,
  dataMatrix,
  lastActivePin,
  outputs          (* The logical pins set to output high.                 *)

colVars == <<num, detections, status, currentCycle, dataMatrix, lastActivePin,
             outputs>>

NoPin == -1

CollectorInit ==
  /\ num = 2
  /\ detections = 4
  /\ status = "IDLE"
  /\ currentCycle = 0
  /\ dataMatrix = <<>>
  /\ lastActivePin = NoPin
  /\ outputs = {}

\* Pins 0 to n-1 become inputs; a pin driven under a larger m_num stays high.
AsInputs(n) == outputs \ (0 .. (n - 1))

BlankMatrix(n) == [row \in 1..n |-> Blank]

\* The CollectorConfig made of the arguments is kept within bounds.
PinsOf(n)     == IF n > MaxGpioPins THEN MaxGpioPins ELSE n
RowsOf(total) == IF total = 0 THEN MaxDetections ELSE total

CanConfigureCollector(n) == n > 0

\* A bug: the new number of pins is not taken over.
ConfigureCollectorRows(n, total) ==
  /\ CanConfigureCollector(n)
  /\ detections' = RowsOf(total)
  /\ dataMatrix' = BlankMatrix(RowsOf(total))
  /\ currentCycle' = 0
  /\ outputs' = AsInputs(PinsOf(n))
  /\ status' = "IDLE"
  /\ UNCHANGED <<num, lastActivePin>>

\* Configure(): allowed in every status, RUNNING included.
ConfigureCollector(n, total) ==
  /\ CanConfigureCollector(n)
  /\ num' = PinsOf(n)
  /\ detections' = RowsOf(total)
  /\ dataMatrix' = BlankMatrix(RowsOf(total))
  /\ currentCycle' = 0
  /\ outputs' = AsInputs(PinsOf(n))
  /\ status' = "IDLE"
  /\ UNCHANGED lastActivePin

\* StartCollection(): its call of StopCollection finds nothing to stop.
CanStartCollection == status # "RUNNING"

StartCollection ==
  /\ CanStartCollection
  /\ currentCycle' = 0
  /\ status' = "RUNNING"
  /\ lastActivePin' = NoPin
  /\ UNCHANGED <<num, detections, dataMatrix, outputs>>

\* A bug: the last pin is forgotten, and stays driven.
ForgetLastPin ==
  /\ lastActivePin' = NoPin
  /\ UNCHANGED <<num, detections, status, currentCycle, dataMatrix, outputs>>

SetAllPinsToInputMode ==
  /\ outputs' = AsInputs(num)
  /\ lastActivePin' = NoPin
  /\ UNCHANGED <<num, detections, status, currentCycle, dataMatrix>>

-----------------------------------------------------------------------------
CanMeasure == status = "RUNNING" /\ currentCycle < detections

\* A bug: the pin of the slot before is not released.
DrivePinsNoRelease(pin, isActive) ==
  LET driven == isActive /\ pin < num IN
  /\ CanMeasure
  /\ outputs' = outputs \union (IF driven THEN {pin} ELSE {})
  /\ lastActivePin' = IF driven THEN pin ELSE NoPin
  /\ UNCHANGED <<num, detections, status, currentCycle, dataMatrix>>

\* ProcessSlot() up to its delay: only the pin of an active slot is driven.
DrivePins(pin, isActive) ==
  LET driven == isActive /\ pin < num IN
  /\ CanMeasure
  /\ outputs' = AsInputs(num) \union (IF driven THEN {pin} ELSE {})
  /\ lastActivePin' = IF driven THEN pin ELSE NoPin
  /\ UNCHANGED <<num, detections, status, currentCycle, dataMatrix>>

\* ProcessSlot() when it returns at once: not running, or no row left.
IgnoreSlot ==
  /\ ~CanMeasure
  /\ status' = IF status = "RUNNING" THEN "COMPLETED" ELSE status
  /\ UNCHANGED <<num, detections, currentCycle, dataMatrix, lastActivePin, outputs>>


\* ProcessSlot() after its delay, with what another task made of the
\* collector in the meantime.
MeasureSlot(row) ==
  /\ dataMatrix' = IF currentCycle < Len(dataMatrix)
                     THEN [dataMatrix EXCEPT ![currentCycle + 1] = row]
                     ELSE dataMatrix
  /\ currentCycle' = currentCycle + 1
  /\ status' = IF currentCycle' >= detections THEN "COMPLETED" ELSE status
  /\ UNCHANGED <<num, detections, lastActivePin, outputs>>

\* It stays complete, also after ClearData, until the next start.
IsCollectionComplete == status = "COMPLETED"

ClearData ==
  /\ dataMatrix' = BlankMatrix(Len(dataMatrix))
  /\ currentCycle' = 0
  /\ UNCHANGED <<num, detections, status, lastActivePin, outputs>>
=============================================================================
