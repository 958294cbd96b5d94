--------------------------- MODULE LockController ---------------------------
(***************************************************************************)
(* The lock (src/User/accessory): AccessoryTask polls two buttons and      *)
(* opens or closes all valves; the sync message handler resets the lock.   *)
(* Both tasks have the same priority and take turns at the tick interrupt, *)
(* that is between any two steps.                                          *)
(***************************************************************************)
EXTENDS Integers

CONSTANT
  NumValves

ASSUME NumValvesAssumption == NumValves \in Nat \ {0}

VARIABLES
  pressed,     (* The buttons held down: "key", "unlock".                  *)
  lastState,   (* m_LastState of each button: those seen held down.        *)
  edge,        (* m_PressedEdge likewise.                                  *)
  open,        (* The open valves.                                         *)
  lockState,   (* m_state.                                                 *)
  lockStatus,  (* m_deviceStatus.electromagneticLock1.                     *)
  accessory,   (* Where AccessoryTask is, and its next valve.              *)
  resetting,   (* The next valve of Reset, 0 when it is not running.       *)
  overlapped   (* Ghost: Reset and a button ran into each other last time. *)

lockVars == <<pressed, lastState, edge, open, lockState, lockStatus, accessory, resetting, overlapped>>

Button == {"key", "unlock"}
Valve == 1 .. NumValves
\* After the last valve m_state is set.
StateStep == NumValves + 1

LockInit ==
  /\ pressed = {}
  /\ lastState = {}
  /\ edge = {}
  /\ open = {}
  /\ lockState = "Unlocked"
  /\ lockStatus = FALSE
  /\ accessory = [at |-> "sleep", valve |-> 1]
  /\ resetting = 0
  /\ overlapped = FALSE

LockTypeOK ==
  /\ pressed \subseteq Button /\ lastState \subseteq Button /\ edge \subseteq Button
  /\ open \subseteq Valve
  /\ lockState \in {"Unlocked", "Locked"}
  /\ lockStatus \in BOOLEAN
  /\ accessory \in [at : {"sleep", "scan", "open", "close", "status"}, valve : 1 .. StateStep]
  /\ resetting \in 0 .. StateStep
  /\ overlapped \in BOOLEAN

Goto(place) == accessory' = [at |-> place, valve |-> 1]

\* The user presses or releases a button.
Touch(b) ==
  /\ pressed' = IF b \in pressed THEN pressed \ {b} ELSE pressed \union {b}
  /\ UNCHANGED <<lastState, edge, open, lockState, lockStatus, accessory, resetting, overlapped>>

-----------------------------------------------------------------------------
(* LockController::Update and updateDeviceStatus, called by AccessoryTask. *)

Wake ==
  /\ accessory.at = "sleep"
  /\ Goto("scan")
  /\ UNCHANGED <<pressed, lastState, edge, open, lockState, lockStatus, resetting, overlapped>>

\* HalButton::Update of both buttons
Scan ==
  /\ accessory.at = "scan"
  /\ edge' = pressed \ lastState
  /\ lastState' = pressed
  /\ Goto(IF "key" \in edge' THEN "open" ELSE IF "unlock" \in edge' THEN "close" ELSE "status")
  /\ overlapped' = IF edge' = {} THEN overlapped ELSE resetting # 0
  /\ UNCHANGED <<pressed, open, lockState, lockStatus, resetting>>

\* A bug: the loop starts at the second valve.
MoveValveAllButOne(place, to) ==
  /\ accessory.at = place /\ accessory.valve # StateStep
  /\ open' = IF accessory.valve = 1 THEN open ELSE to
  /\ accessory' = [accessory EXCEPT !.valve = @ + 1]
  /\ UNCHANGED <<pressed, lastState, edge, lockState, lockStatus, resetting, overlapped>>

MoveValve(place, to) ==
  /\ accessory.at = place /\ accessory.valve # StateStep
  /\ open' = to
  /\ accessory' = [accessory EXCEPT !.valve = @ + 1]
  /\ UNCHANGED <<pressed, lastState, edge, lockState, lockStatus, resetting, overlapped>>

OpenValve == MoveValve("open", open \union {accessory.valve})
CloseValve == MoveValve("close", open \ {accessory.valve})

SetLocked ==
  /\ accessory = [at |-> "open", valve |-> StateStep]
  /\ lockState' = "Locked"
  /\ Goto(IF "unlock" \in edge THEN "close" ELSE "status")
  /\ UNCHANGED <<pressed, lastState, edge, open, lockStatus, resetting, overlapped>>

SetUnlocked ==
  /\ accessory = [at |-> "close", valve |-> StateStep]
  /\ lockState' = "Unlocked"
  /\ Goto("status")
  /\ UNCHANGED <<pressed, lastState, edge, open, lockStatus, resetting, overlapped>>

UpdateDeviceStatus ==
  /\ accessory.at = "status"
  /\ lockStatus' = (lockState = "Locked")
  /\ Goto("sleep")
  /\ UNCHANGED <<pressed, lastState, edge, open, lockState, resetting, overlapped>>

UpdateStep == Scan \/ OpenValve \/ CloseValve \/ SetLocked \/ SetUnlocked \/ UpdateDeviceStatus

-----------------------------------------------------------------------------
(* LockController::Reset, called by the sync message handler.              *)

ResetBegins ==
  /\ resetting' = 1
  /\ overlapped' = (accessory.at \in {"open", "close"})
  /\ UNCHANGED <<pressed, lastState, edge, open, lockState, lockStatus, accessory>>

\* A bug: one valve more than there are.
ResetStepTooFar ==
  /\ resetting # 0
  /\ IF resetting > StateStep
     THEN lockState' = "Unlocked" /\ resetting' = 0 /\ UNCHANGED open
     ELSE open' = open \ {resetting} /\ resetting' = resetting + 1 /\ UNCHANGED lockState
  /\ UNCHANGED <<pressed, lastState, edge, lockStatus, accessory, overlapped>>

ResetStep ==
  /\ resetting # 0
  /\ IF resetting = StateStep
     THEN lockState' = "Unlocked" /\ resetting' = 0 /\ UNCHANGED open
     ELSE open' = open \ {resetting} /\ resetting' = resetting + 1 /\ UNCHANGED lockState
  /\ UNCHANGED <<pressed, lastState, edge, lockStatus, accessory, overlapped>>

-----------------------------------------------------------------------------
(* Once both tasks are through, all valves are where m_state, and with it  *)
(* the status sent to the master, says: open if locked, closed if not.     *)
(* The one exception is a Reset that met an Update with a button pressed,  *)
(* and it ends with the next of them that runs by itself.                  *)
ValvesFollowState ==
  (resetting = 0 /\ accessory.at \notin {"open", "close"} /\ ~overlapped) =>
    open = IF lockState = "Locked" THEN Valve ELSE {}
=============================================================================
