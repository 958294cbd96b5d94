-------------------------- MODULE ReceivePathProofs --------------------------
(***************************************************************************)
(* Theorems of ReceivePath, for every traffic, every mailbox and buffer,   *)
(* every set of packet ids and every number of valves: a reception is      *)
(* never overwritten, the valves follow the state of the lock, what is     *)
(* kept of a message is never complete, and the messages handled are whole *)
(* and in the order they were sent unless a fragment inside one was lost.  *)
(***************************************************************************)
EXTENDS ReceivePath, TLAPS, FiniteSetTheorems, SequenceTheorems, WellFoundedInduction

-----------------------------------------------------------------------------
(* A reception that waits in the mailbox was put there by a radio task     *)
(* that has slept since, or SlaveDataProcT is about to take it out.        *)
MailboxInv ==
  rxReady => handler = "poll" \/ (radio = "sleep" /\ handler = "sleep")

(* One action of the radio task or of SlaveDataProcT, or one of those that *)
(* leave both tasks and the receive mailbox alone.                         *)
LEMMA MailboxStep ==
  ASSUME MailboxInv, [Next]_vars
  PROVE  MailboxInv' /\ (rxMailbox' # rxMailbox => ~rxReady)
<1> USE DEF MailboxInv
<1>1. CASE MasterBegins
  BY <1>1 DEF MasterBegins, mail, tasks
<1>2. CASE FragmentArrives
  BY <1>2 DEF FragmentArrives, mail, tasks
<1>3. CASE FragmentLost
  BY <1>3 DEF FragmentLost, mail, tasks
<1>4. CASE OtherSlaveSends
  BY <1>4 DEF OtherSlaveSends, mail, tasks
<1>5. CASE TouchButton \/ CollectionSends
  BY <1>5 DEF TouchButton, CollectionSends, mail, tasks
<1>6. CASE Tick
  BY <1>6 DEF Tick, mail
<1>7. CASE AccessoryStep
  BY <1>7 DEF AccessoryStep, mail
<1>8. CASE RadioTransmit
  BY <1>8 DEF RadioTransmit, RadioRuns
<1>9. CASE RadioReceive
  BY <1>9 DEF RadioReceive, RadioRuns
<1>10. CASE HandlerReceives
  BY <1>10 DEF HandlerReceives
<1>11. CASE HandlerFindsNothing
  BY <1>11 DEF HandlerFindsNothing, mail
<1>12. CASE HandlerDone \/ HandlerExtracts
  BY <1>12 DEF HandlerDone, HandlerExtracts, mail, tasks
<1>13. CASE HandlerIgnores
  BY <1>13 DEF HandlerIgnores, Taken, mail, tasks
<1>14. CASE HandlerAnswers
  BY <1>14 DEF HandlerAnswers, Taken, tasks
<1>15. CASE HandlerSync
  BY <1>15 DEF HandlerSync, Taken, mail, tasks
<1>16. CASE HandlerResets
  BY <1>16 DEF HandlerResets, mail, tasks
<1>17. CASE UNCHANGED vars
  BY <1>17 DEF vars, mail, tasks
<1>18. QED
  BY <1>1, <1>2, <1>3, <1>4, <1>5, <1>6, <1>7, <1>8, <1>9, <1>10, <1>11, <1>12, <1>13,
     <1>14, <1>15, <1>16, <1>17 DEF Next, RadioStep, HandlerPolls, HandlerProcesses

(* No reception overwrites one that SlaveDataProcT has not taken out of    *)
(* the mailbox of one (MasterComm.cpp:200): it polls each tick, the radio  *)
(* task sleeps one after each round, and SlaveDataProcT goes first.        *)
THEOREM ReceptionsAreTaken == Spec => NoReceptionOverwritten
<1>1. Init => MailboxInv
  BY DEF Init, MailboxInv
<1>2. MailboxInv /\ [Next]_vars => MailboxInv' /\ (rxMailbox' # rxMailbox => ~rxReady)
  BY MailboxStep
<1>3. QED
  BY <1>1, <1>2, PTL DEF Spec, NoReceptionOverwritten

-----------------------------------------------------------------------------
(* The lock.  As long as Reset and a pressed button have not run into each *)
(* other, only one of them moves valves, and those it has passed are where *)
(* it is taking them.                                                      *)
OneMover == resetting = 0 \/ accessory.at \notin {"open", "close"}

OpenPassed == accessory.at = "open" => \A v \in Valve : v < accessory.valve => v \in open
ClosePassed == accessory.at = "close" => \A v \in Valve : v < accessory.valve => v \notin open
ResetPassed == resetting # 0 => \A v \in Valve : v < resetting => v \notin open

LockInv ==
  /\ LockTypeOK
  /\ ~overlapped => OneMover /\ OpenPassed /\ ClosePassed /\ ResetPassed
  /\ ValvesFollowState

LEMMA LockInitially == LockInit => LockInv
<1> SUFFICES ASSUME LockInit PROVE LockInv
  OBVIOUS
<1> USE NumValvesAssumption DEF LockInit
<1>1. LockTypeOK
  <2>1. accessory \in [at : {"sleep", "scan", "open", "close", "status"}, valve : 1 .. StateStep]
    BY DEF StateStep
  <2>2. resetting \in 0 .. StateStep
    BY DEF StateStep
  <2>3. QED
    BY <2>1, <2>2 DEF LockTypeOK
<1>2. OneMover /\ OpenPassed /\ ClosePassed /\ ResetPassed
  BY DEF OneMover, OpenPassed, ClosePassed, ResetPassed
<1>3. ValvesFollowState
  BY DEF ValvesFollowState
<1>4. QED
  BY <1>1, <1>2, <1>3 DEF LockInv

(* A valve that OpenValve or CloseValve moves joins those passed.          *)
LEMMA UpdateKeepsLockInv ==
  ASSUME LockInv, Wake \/ UpdateStep
  PROVE  LockInv'
<1> USE NumValvesAssumption DEF LockInv, LockTypeOK, OneMover, Valve, StateStep, Goto, Button
<1>1. CASE Wake
  BY <1>1 DEF Wake, OpenPassed, ClosePassed, ResetPassed, ValvesFollowState
<1>2. CASE Scan
  <2> USE <1>2 DEF Scan
  <2>1. /\ accessory'.valve = 1
        /\ accessory'.at = IF "key" \in edge' THEN "open"
                           ELSE IF "unlock" \in edge' THEN "close" ELSE "status"
    OBVIOUS
  <2>2. edge' # {} => "key" \in edge' \/ "unlock" \in edge'
    OBVIOUS
  <2>3. /\ edge' = {} => accessory'.at = "status" /\ overlapped' = overlapped
        /\ edge' # {} => accessory'.at \in {"open", "close"} /\ overlapped' = (resetting # 0)
    BY <2>1, <2>2
  <2>4. LockTypeOK'
    <3>1. overlapped' \in BOOLEAN
      BY <2>3
    <3>2. accessory' \in [at : {"sleep", "scan", "open", "close", "status"}, valve : 1 .. StateStep]
      OBVIOUS
    <3>3. QED
      BY <3>1, <3>2
  <2>5. ~overlapped' => OneMover' /\ OpenPassed' /\ ClosePassed' /\ ResetPassed'
    <3>1. CASE edge' = {}
      BY <2>1, <2>3, <3>1 DEF OpenPassed, ClosePassed, ResetPassed
    <3>2. CASE edge' # {}
      <4>1. overlapped' <=> resetting # 0
        BY <2>3, <3>2, Zenon
      <4>2. QED
        BY <2>1, <4>1 DEF OpenPassed, ClosePassed, ResetPassed
    <3>3. QED
      BY <3>1, <3>2
  <2>6. ValvesFollowState'
    BY <2>1, <2>3 DEF ValvesFollowState
  <2>7. QED
    BY <2>4, <2>5, <2>6
<1>3. CASE OpenValve
  <2> USE <1>3 DEF OpenValve, MoveValve
  <2>1. LockTypeOK'
    OBVIOUS
  <2>2. ~overlapped' => OneMover' /\ OpenPassed'
    BY DEF OpenPassed
  <2>3. ~overlapped' => ClosePassed' /\ ResetPassed'
    BY DEF ClosePassed, ResetPassed
  <2>4. ValvesFollowState'
    BY DEF ValvesFollowState
  <2>5. QED
    BY <2>1, <2>2, <2>3, <2>4
<1>4. CASE CloseValve
  <2> USE <1>4 DEF CloseValve, MoveValve
  <2>1. LockTypeOK'
    OBVIOUS
  <2>2. ~overlapped' => OneMover' /\ OpenPassed'
    BY DEF OpenPassed
  <2>3. ~overlapped' => ClosePassed' /\ ResetPassed'
    BY DEF ClosePassed, ResetPassed
  <2>4. ValvesFollowState'
    BY DEF ValvesFollowState
  <2>5. QED
    BY <2>1, <2>2, <2>3, <2>4
<1>5. CASE SetLocked
  <2> USE <1>5 DEF SetLocked
  <2>1. accessory.at = "open" /\ accessory.valve = StateStep /\ accessory'.at \in {"close", "status"}
        /\ accessory'.valve = 1
    OBVIOUS
  <2>2. LockTypeOK'
    OBVIOUS
  <2>3. ~overlapped' => OneMover' /\ OpenPassed' /\ ClosePassed' /\ ResetPassed'
    BY <2>1 DEF OpenPassed, ClosePassed, ResetPassed
  <2>4. ~overlapped => open = Valve
    <3>1. ASSUME ~overlapped, NEW v \in Valve
          PROVE  v \in open
      BY <2>1, <3>1 DEF OpenPassed
    <3>2. QED
      BY <3>1
  <2>5. ValvesFollowState'
    BY <2>1, <2>4 DEF ValvesFollowState
  <2>6. QED
    BY <2>2, <2>3, <2>5
<1>6. CASE SetUnlocked
  BY <1>6 DEF SetUnlocked, OpenPassed, ClosePassed, ResetPassed, ValvesFollowState
<1>7. CASE UpdateDeviceStatus
  BY <1>7 DEF UpdateDeviceStatus, OpenPassed, ClosePassed, ResetPassed, ValvesFollowState
<1>8. QED
  BY <1>1, <1>2, <1>3, <1>4, <1>5, <1>6, <1>7 DEF UpdateStep

(* Reset, and a button that is touched.                                    *)
LEMMA ResetKeepsLockInv ==
  ASSUME LockInv,
         \/ ResetBegins /\ resetting = 0
         \/ ResetStep
         \/ \E b \in Button : Touch(b)
         \/ UNCHANGED lockVars
  PROVE  LockInv'
<1> USE NumValvesAssumption DEF LockInv, LockTypeOK, OneMover, Valve, StateStep, Button
<1>1. CASE ResetBegins /\ resetting = 0
  <2> USE <1>1 DEF ResetBegins
  <2>1. LockTypeOK'
    OBVIOUS
  <2>2. ~overlapped' => accessory.at \notin {"open", "close"}
    BY Zenon
  <2>3. ~overlapped' => OneMover' /\ OpenPassed' /\ ClosePassed' /\ ResetPassed'
    BY <2>2 DEF OpenPassed, ClosePassed, ResetPassed
  <2>4. ValvesFollowState'
    BY DEF ValvesFollowState
  <2>5. QED
    BY <2>1, <2>3, <2>4
<1>2. CASE ResetStep
  <2> USE <1>2 DEF ResetStep
  <2>1. LockTypeOK'
    <3>1. open' \subseteq Valve /\ lockState' \in {"Unlocked", "Locked"}
      OBVIOUS
    <3>2. resetting' \in 0 .. StateStep
      OBVIOUS
    <3>3. QED
      BY <3>1, <3>2
  <2>2. ~overlapped' => OneMover' /\ OpenPassed' /\ ClosePassed'
    BY DEF OpenPassed, ClosePassed
  <2>3. ~overlapped' => ResetPassed'
    BY DEF ResetPassed
  <2>4. ValvesFollowState'
    <3>1. CASE resetting = StateStep
      <4>1. ASSUME ~overlapped, NEW v \in Valve
            PROVE  v \notin open
        BY <3>1, <4>1 DEF ResetPassed
      <4>2. ~overlapped => open' = {}
        BY <3>1, <4>1
      <4>3. QED
        BY <3>1, <4>2 DEF ValvesFollowState
    <3>2. CASE resetting # StateStep
      <4>1. resetting' # 0
        BY <3>2
      <4>2. QED
        BY <4>1 DEF ValvesFollowState
    <3>3. QED
      BY <3>1, <3>2
  <2>5. QED
    BY <2>1, <2>2, <2>3, <2>4
<1>3. CASE \E b \in Button : Touch(b)
  BY <1>3 DEF Touch, OpenPassed, ClosePassed, ResetPassed, ValvesFollowState
<1>4. CASE UNCHANGED lockVars
  BY <1>4 DEF lockVars, OpenPassed, ClosePassed, ResetPassed, ValvesFollowState
<1>5. QED
  BY <1>1, <1>2, <1>3, <1>4

\* A step of the receive path is one of those, or leaves the lock alone.
LEMMA LockStep ==
  ASSUME [Next]_vars
  PROVE  \/ Wake \/ UpdateStep
         \/ ResetBegins /\ resetting = 0
         \/ ResetStep
         \/ \E b \in Button : Touch(b)
         \/ UNCHANGED lockVars
<1>1. CASE TouchButton
  BY <1>1 DEF TouchButton
<1>2. CASE AccessoryStep
  BY <1>2 DEF AccessoryStep
<1>3. CASE HandlerSync
  BY <1>3 DEF HandlerSync, Taken
<1>4. CASE HandlerResets
  BY <1>4 DEF HandlerResets
<1>5. CASE \/ MasterBegins \/ FragmentArrives \/ FragmentLost \/ OtherSlaveSends \/ CollectionSends
           \/ Tick
  BY <1>5 DEF MasterBegins, FragmentArrives, FragmentLost, OtherSlaveSends, CollectionSends, Tick
<1>6. CASE RadioStep
  BY <1>6 DEF RadioStep, RadioTransmit, RadioReceive
<1>7. CASE HandlerPolls \/ HandlerExtracts \/ HandlerDone \/ HandlerIgnores \/ HandlerAnswers
  BY <1>7 DEF HandlerPolls, HandlerReceives, HandlerFindsNothing, HandlerExtracts, HandlerDone,
              HandlerIgnores, HandlerAnswers
<1>8. CASE UNCHANGED vars
  BY <1>8 DEF vars
<1>9. QED
  BY <1>1, <1>2, <1>3, <1>4, <1>5, <1>6, <1>7, <1>8 DEF Next, HandlerProcesses

(* However the resets the master asks for and the presses of the buttons   *)
(* fall, and however many valves there are: once neither moves valves, all *)
(* are open if the lock's state is locked and closed if not, unless Reset  *)
(* and a pressed button ran into each other last time                      *)
(* (LockController.cpp:18-53).                                             *)
THEOREM ValvesAreWhereTheStateSays == Spec => []ValvesFollowState
<1>1. Init => LockInv
  BY LockInitially DEF Init
<1>2. LockInv /\ [Next]_vars => LockInv'
  BY LockStep, UpdateKeepsLockInv, ResetKeepsLockInv
<1>3. LockInv => ValvesFollowState
  BY DEF LockInv
<1>4. QED
  BY <1>1, <1>2, <1>3, PTL DEF Spec

-----------------------------------------------------------------------------
(* Types.  A frame on the air is one of a message sent or of another       *)
(* slave's data, wherever its bytes are; a part says of which message.     *)
Frames ==
  {f \in [packet : {MASTER_TO_SLAVE, SLAVE_TO_MASTER}, msg : Nat, seq : Nat, last : BOOLEAN, tiny : BOOLEAN] :
     /\ f.tiny => f.last
     /\ f.packet = MASTER_TO_SLAVE =>
          /\ f.msg \in DOMAIN messages
          /\ f.seq < messages[f.msg].n
          /\ f.last <=> f.seq + 1 = messages[f.msg].n}

Units ==
  {u \in [part : {"head", "tail", "all"}, frame : Frames] : u.part = "all" <=> ~IsFragment(u.frame)}

TrafficOK ==
  traffic \in [kinds : SUBSET MessageKind, messages : Nat, losses : Nat, others : Nat,
              touches : Nat, frames : Nat]

EnvironmentOK ==
  /\ TrafficOK
  /\ messages \in Seq(MessageKind)
  /\ sending \in Seq({f \in Frames : f.packet = MASTER_TO_SLAVE})

BytesOK ==
  /\ chip \in Seq(Units) /\ rxMailbox \in Seq(Units)
  /\ receiveBuffer \in Seq(Units) /\ unread \in Seq(Units)
  /\ Len(rxMailbox) <= MailboxSize
  /\ handler # "process" => unread = <<>>

\* Of the message or data that the parts of packet p are of.
OfMessage(p, msg) == p = MASTER_TO_SLAVE => msg \in DOMAIN messages

InfoOK(p, info) ==
  /\ info.total \in Nat
  /\ IsFiniteSet(DOMAIN info.parts) /\ DOMAIN info.parts \subseteq Nat
  /\ \A s \in DOMAIN info.parts : OfMessage(p, info.parts[s].msg)
  /\ ~IsComplete(info)

FragmentsOK ==
  /\ DOMAIN fragmentMap = Packet
  /\ \A p \in Packet : InfoOK(p, fragmentMap[p])

FramesOK ==
  /\ \E S : completeFrames \in Seq(S)
  /\ \A i \in DOMAIN completeFrames : OfMessage(completeFrames[i].packet, completeFrames[i].parts[1].msg)
  /\ \E S : handled \in Seq(S)
  /\ \A i \in DOMAIN handled : handled[i][1].msg \in DOMAIN messages

TasksOK ==
  /\ radio \in {"sleep", "tx", "rx"}
  /\ handler \in {"sleep", "poll", "process"}
  /\ txMailbox \in {NoAnswer} \union DOMAIN messages
  /\ resetting # 0 => handler = "process"

TypeInv == EnvironmentOK /\ BytesOK /\ FragmentsOK /\ FramesOK /\ TasksOK


-----------------------------------------------------------------------------
\* A set of naturals has a least element.
LEMMA HasLeast ==
  ASSUME NEW T \in SUBSET Nat, T # {}
  PROVE  \E m \in T : \A j \in T : m <= j
<1> DEFINE Below == OpToRel(<, Nat)
<1>1. IsWellFoundedOn(Below, Nat)
  BY NatLessThanWellFounded, Zenon
<1>2. PICK m \in T : \A j \in T : ~(<<j, m>> \in Below)
  <2> HIDE DEF Below
  <2> QED
    BY <1>1, WFMin
<1>3. ASSUME NEW j \in T PROVE m <= j
  <2>1. j \in Nat /\ m \in Nat
    OBVIOUS
  <2>2. ASSUME j < m PROVE <<j, m>> \in Below
    BY <2>1, <2>2 DEF OpToRel
  <2>3. ~(j < m)
    BY <1>2, <2>2
  <2>4. QED
    BY <2>1, <2>3
<1>4. QED
  BY <1>3

LEMMA LeastChosen ==
  ASSUME NEW T \in SUBSET Nat, T # {}
  PROVE  (CHOOSE i \in T : \A j \in T : i <= j) \in T
<1>1. \E m \in T : \A j \in T : m <= j
  BY HasLeast
<1>2. QED
  BY <1>1, Zenon

\* A message that is begun leaves those sent before as they are.
LEMMA MessagesGrow ==
  ASSUME EnvironmentOK, NEW k \in MessageKind, messages' = Append(messages, k)
  PROVE  /\ \A m \in DOMAIN messages : m \in DOMAIN messages' /\ messages'[m] = messages[m]
         /\ Frames \subseteq Frames'
         /\ Units \subseteq Units'
<1>1. \A m \in DOMAIN messages : m \in DOMAIN messages' /\ messages'[m] = messages[m]
  BY DEF EnvironmentOK
<1>2. Frames \subseteq Frames'
  BY <1>1 DEF Frames
<1>3. Units \subseteq Units'
  BY <1>2 DEF Units, IsFragment
<1>4. QED
  BY <1>1, <1>2, <1>3

LEMMA MessagesStay ==
  ASSUME UNCHANGED messages
  PROVE  Frames' = Frames /\ Units' = Units
<1>1. Frames' = Frames
  BY DEF Frames
<1>2. QED
  BY <1>1 DEF Units, IsFragment

LEMMA UnitsOfFrame ==
  ASSUME NEW f \in Frames
  PROVE  /\ UnitsOf(f) \in Seq(Units)
         /\ UnitsOf(f) = IF IsFragment(f)
                         THEN <<[part |-> "head", frame |-> f], [part |-> "tail", frame |-> f]>>
                         ELSE <<[part |-> "all", frame |-> f]>>
<1>1. IsFragment(f) => [part |-> "head", frame |-> f] \in Units /\ [part |-> "tail", frame |-> f] \in Units
  BY DEF Units
<1>2. ~IsFragment(f) => [part |-> "all", frame |-> f] \in Units
  BY DEF Units
<1>3. QED
  BY <1>1, <1>2 DEF UnitsOf

LEMMA OthersFrame ==
  ASSUME NEW seq \in 0 .. 1
  PROVE  Fragment(SLAVE_TO_MASTER, 0, seq, seq = 1, FALSE) \in Frames
  BY DEF Fragment, Frames, SLAVE_TO_MASTER, MASTER_TO_SLAVE

-----------------------------------------------------------------------------
(* What a step of extractCompleteFrames does to the buffer.                *)
LEMMA ExtractCases ==
  ASSUME BytesOK, Extract
  PROVE  /\ unread # <<>> /\ unread' = Tail(unread)
         /\ \/ /\ receiveBuffer' = <<>>
               /\ \E f \in Frames, intact \in BOOLEAN : AcceptWhole(f, intact)
            \/ /\ receiveBuffer' = Append(receiveBuffer, Head(unread))
               /\ UNCHANGED <<fragmentMap, completeFrames>>
<1> DEFINE unit == Head(unread)
           rest == Append(receiveBuffer, unit)
           heads == {i \in DOMAIN rest : rest[i].part = "head"}
           start == CHOOSE i \in heads : \A j \in heads : i <= j
           Intact == start + 1 = Len(rest) /\ unit = [part |-> "tail", frame |-> rest[start].frame]
<1>1. unread # <<>> /\ unread' = Tail(unread) /\ unit \in Units /\ rest \in Seq(Units)
  <2>1. unread # <<>> /\ unread' = Tail(unread)
    BY Zenon DEF Extract
  <2>2. QED
    BY <2>1 DEF BytesOK
<1>2. \/ heads = {} /\ unit.part = "all" /\ receiveBuffer' = <<>> /\ AcceptWhole(unit.frame, TRUE)
      \/ heads # {} /\ receiveBuffer' = <<>> /\ AcceptWhole(rest[start].frame, Intact)
      \/ receiveBuffer' = rest /\ UNCHANGED <<fragmentMap, completeFrames>>
  BY Zenon DEF Extract
<1>3. CASE receiveBuffer' = <<>> /\ AcceptWhole(unit.frame, TRUE)
  <2>1. unit.frame \in Frames
    BY <1>1 DEF Units
  <2>2. QED
    BY <1>1, <1>3, <2>1
<1>4. CASE heads # {} /\ receiveBuffer' = <<>> /\ AcceptWhole(rest[start].frame, Intact)
  <2>1. heads \in SUBSET Nat /\ heads \subseteq DOMAIN rest
    BY <1>1
  <2>2. start \in heads
    <3> HIDE DEF heads
    <3>1. (CHOOSE i \in heads : \A j \in heads : i <= j) \in heads
      BY <1>4, <2>1, LeastChosen
    <3>2. QED
      BY <3>1
  <2>3. rest[start].frame \in Frames
    BY <1>1, <2>1, <2>2 DEF Units
  <2>4. Intact \in BOOLEAN
    OBVIOUS
  <2>5. QED
    BY <1>1, <1>4, <2>3, <2>4
<1>5. QED
  BY <1>1, <1>2, <1>3, <1>4

LEMMA SeqOfValues ==
  ASSUME NEW S, NEW n \in Nat, NEW s, s = [i \in 1 .. n |-> s[i]], \A i \in 1 .. n : s[i] \in S
  PROVE  s \in Seq(S) /\ Len(s) = n
  OBVIOUS

LEMMA TrafficStep ==
  ASSUME TrafficOK,
         MasterBegins \/ FragmentLost \/ OtherSlaveSends \/ TouchButton \/ CollectionSends
  PROVE  TrafficOK'
<1>1. CASE MasterBegins
  BY <1>1 DEF MasterBegins, TrafficOK
<1>2. CASE FragmentLost
  <2>1. traffic.losses - 1 \in Nat /\ traffic' = [traffic EXCEPT !.losses = traffic.losses - 1]
    BY <1>2 DEF FragmentLost, TrafficOK
  <2>2. QED
    BY <2>1 DEF TrafficOK
<1>3. CASE OtherSlaveSends
  BY <1>3 DEF OtherSlaveSends, TrafficOK
<1>4. CASE TouchButton \/ CollectionSends
  BY <1>4 DEF TouchButton, CollectionSends, TrafficOK
<1>5. QED
  BY <1>1, <1>2, <1>3, <1>4

LEMMA EnvironmentStep ==
  ASSUME EnvironmentOK, [Next]_vars
  PROVE  EnvironmentOK'
<1> USE DEF EnvironmentOK
<1>1. CASE MasterBegins
  <2>1. PICK k \in traffic.kinds : /\ messages' = Append(messages, k)
                                   /\ sending' = FragmentsOf(Len(messages) + 1, k)
    BY <1>1 DEF MasterBegins
  <2>2. k \in MessageKind
    BY DEF TrafficOK
  <2>3. messages' \in Seq(MessageKind) /\ messages'[Len(messages) + 1] = k /\ Len(messages) + 1 \in DOMAIN messages'
    BY <2>1, <2>2
  <2>4. k.n \in Nat /\ k.n > 0 /\ k.tiny \in BOOLEAN
    BY <2>2 DEF MessageKind
  <2>5. sending' = [i \in 1 .. k.n |-> sending'[i]]
    BY <2>1 DEF FragmentsOf
  <2>6. ASSUME NEW i \in 1 .. k.n
        PROVE  sending'[i] \in {f \in Frames' : f.packet = MASTER_TO_SLAVE}
    <3> DEFINE f == Fragment(MASTER_TO_SLAVE, Len(messages) + 1, i - 1, i = k.n, k.tiny /\ i = k.n)
    <3>1. sending'[i] = f
      BY <2>1 DEF FragmentsOf
    <3>2. /\ f.packet = MASTER_TO_SLAVE /\ f.msg = Len(messages) + 1 /\ f.seq = i - 1
          /\ f.last = (i = k.n) /\ f.tiny = (k.tiny /\ i = k.n)
      BY DEF Fragment
    <3>3. f \in [packet : {MASTER_TO_SLAVE, SLAVE_TO_MASTER}, msg : Nat, seq : Nat, last : BOOLEAN, tiny : BOOLEAN]
      BY <2>4 DEF Fragment
    <3>4. /\ f.msg \in DOMAIN messages' /\ messages'[f.msg].n = k.n
          /\ f.seq < k.n
      <4> HIDE DEF f
      <4> QED
        BY <2>3, <2>4, <3>2
    <3>5. (f.last <=> f.seq + 1 = k.n) /\ (f.tiny => f.last)
      <4>1. (f.last <=> i = k.n) /\ (f.tiny <=> k.tiny /\ i = k.n)
        BY Zenon DEF Fragment
      <4>2. f.seq + 1 = i
        BY <3>2
      <4>3. QED
        BY <4>1, <4>2, Zenon
    <3>6. f \in Frames'
      <4> HIDE DEF f
      <4> QED
        BY <3>3, <3>4, <3>5 DEF Frames, MASTER_TO_SLAVE, SLAVE_TO_MASTER
    <3>7. QED
      BY <3>1, <3>2, <3>6
  <2>7. sending' \in Seq({f \in Frames' : f.packet = MASTER_TO_SLAVE})
    BY <2>4, <2>5, <2>6, SeqOfValues
  <2>8. QED
    BY <1>1, <2>3, <2>7, TrafficStep DEF MASTER_TO_SLAVE
<1>2. CASE FragmentArrives \/ FragmentLost
  <2>1. UNCHANGED messages /\ sending # <<>> /\ sending' = Tail(sending)
    BY <1>2 DEF FragmentArrives, FragmentLost
  <2>2. TrafficOK'
    BY <1>2, TrafficStep DEF FragmentArrives, TrafficOK
  <2>3. sending' \in Seq({f \in Frames : f.packet = MASTER_TO_SLAVE})
    BY <2>1
  <2>4. QED
    BY <2>1, <2>2, <2>3, MessagesStay
<1>3. CASE OtherSlaveSends \/ TouchButton \/ CollectionSends
  <2>1. UNCHANGED <<messages, sending>>
    BY <1>3 DEF OtherSlaveSends, TouchButton, CollectionSends
  <2>2. QED
    BY <1>3, <2>1, MessagesStay, TrafficStep
<1>4. CASE UNCHANGED environment
  BY <1>4, MessagesStay DEF environment, TrafficOK
<1>5. CASE Tick \/ AccessoryStep \/ HandlerPolls \/ HandlerProcesses \/ RadioStep \/ UNCHANGED vars
  <2>1. UNCHANGED environment
    BY <1>5 DEF Tick, AccessoryStep, HandlerPolls, HandlerReceives, HandlerFindsNothing, HandlerProcesses,
         HandlerExtracts, HandlerDone, HandlerIgnores, HandlerAnswers, HandlerSync, HandlerResets,
         RadioStep, RadioTransmit, RadioReceive, vars
  <2>2. QED
    BY <1>4, <2>1
<1>6. QED
  BY <1>1, <1>2, <1>3, <1>5 DEF Next

\* Sequences of units, seen after a message has been begun.
LEMMA UnitsKept ==
  ASSUME EnvironmentOK, Units \subseteq Units', NEW q \in Seq(Units)
  PROVE  q \in Seq(Units')
<1>1. \A i \in 1 .. Len(q) : q[i] \in Units'
  OBVIOUS
<1>2. QED
  BY <1>1

LEMMA NoUnits == <<>> \in Seq(Units)
  BY EmptySeq

LEMMA NextUnit ==
  ASSUME NEW S, NEW r \in Seq(S), NEW q \in Seq(S), q # <<>>
  PROVE  Head(q) \in S /\ Tail(q) \in Seq(S) /\ Append(r, Head(q)) \in Seq(S)
  OBVIOUS

LEMMA ReceptionIsPart ==
  ASSUME BytesOK
  PROVE  /\ Reception \in Seq(Units)
         /\ Len(Reception) <= MailboxSize
         /\ Len(chip) <= MailboxSize => Reception = chip
<1>1. Len(chip) \in Nat /\ MailboxSize \in Nat /\ chip \in Seq(Units)
  BY MailboxAssumption DEF BytesOK
<1>2. ASSUME NEW a \in Nat, NEW b \in Nat
      PROVE  Min({a, b}) = IF a <= b THEN a ELSE b
  BY DEF Min
<1>3. Min({Len(chip), MailboxSize}) = IF Len(chip) <= MailboxSize THEN Len(chip) ELSE MailboxSize
  BY <1>1, <1>2
<1>4. CASE Len(chip) <= MailboxSize
  <2>1. Reception = chip
    BY <1>1, <1>3, <1>4, SubSeqFull DEF Reception
  <2>2. QED
    BY <1>1, <1>4, <2>1
<1>5. CASE ~(Len(chip) <= MailboxSize)
  <2>1. Reception = SubSeq(chip, 1, MailboxSize)
    BY <1>3, <1>5 DEF Reception
  <2>2. QED
    BY <1>1, <1>5, <2>1
<1>6. QED
  BY <1>4, <1>5

(* Bytes come from frames on the air, and all but those being processed    *)
(* are in the chip, the mailbox or receiveBuffer_.                         *)
LEMMA BytesStep ==
  ASSUME EnvironmentOK, BytesOK, [Next]_vars
  PROVE  BytesOK'
<1>1. CASE MasterBegins
  <2>1. Units \subseteq Units'
    <3>1. PICK k \in traffic.kinds : messages' = Append(messages, k)
      BY <1>1 DEF MasterBegins
    <3>2. k \in MessageKind
      BY DEF EnvironmentOK, TrafficOK
    <3>3. QED
      BY <3>1, <3>2, MessagesGrow
  <2>2. UNCHANGED <<chip, rxMailbox, receiveBuffer, unread, handler>>
    BY <1>1 DEF MasterBegins, mail, tasks, processorVars
  <2>3. QED
    BY <2>1, <2>2, UnitsKept DEF BytesOK
<1> USE DEF BytesOK
<1>2. CASE FragmentArrives
  <2>1. Head(sending) \in Frames
    BY <1>2 DEF FragmentArrives, EnvironmentOK
  <2>2. chip' = chip \o UnitsOf(Head(sending)) /\ UNCHANGED <<messages, rxMailbox, receiveBuffer, unread, handler>>
    BY <1>2 DEF FragmentArrives, mail, tasks, processorVars
  <2>3. chip' \in Seq(Units)
    BY <2>1, <2>2, UnitsOfFrame
  <2>4. QED
    BY <2>2, <2>3, MessagesStay
<1>3. CASE OtherSlaveSends
  <2>1. PICK seq \in 0 .. 1 : chip' = chip \o UnitsOf(Fragment(SLAVE_TO_MASTER, 0, seq, seq = 1, FALSE))
    BY <1>3 DEF OtherSlaveSends
  <2>2. UNCHANGED <<messages, rxMailbox, receiveBuffer, unread, handler>>
    BY <1>3 DEF OtherSlaveSends, mail, tasks, processorVars
  <2>3. chip' \in Seq(Units)
    <3> DEFINE f == Fragment(SLAVE_TO_MASTER, 0, seq, seq = 1, FALSE)
    <3>1. f \in Frames
      BY OthersFrame, Zenon
    <3>2. chip' = chip \o UnitsOf(f)
      BY <2>1, Zenon
    <3> HIDE DEF f
    <3>3. UnitsOf(f) \in Seq(Units)
      BY <3>1, UnitsOfFrame
    <3>4. QED
      BY <3>2, <3>3
  <2>4. QED
    BY <2>2, <2>3, MessagesStay
<1>4. CASE RadioReceive
  <2>1. UNCHANGED <<messages, receiveBuffer, unread, handler>> /\ chip' \in {chip, <<>>}
        /\ rxMailbox' \in {rxMailbox, Reception}
    BY <1>4 DEF RadioReceive, environment, processorVars
  <2>2. chip' \in Seq(Units) /\ rxMailbox' \in Seq(Units) /\ Len(rxMailbox') <= MailboxSize
    BY <2>1, ReceptionIsPart, NoUnits
  <2>3. QED
    BY <2>1, <2>2, MessagesStay
<1>5. CASE HandlerReceives
  <2>1. /\ UNCHANGED <<messages, chip, rxMailbox>>
        /\ receiveBuffer' \in {receiveBuffer, <<>>} /\ unread' = rxMailbox /\ handler' = "process"
    BY <1>5 DEF HandlerReceives, ProcessReceivedData, environment
  <2>2. receiveBuffer' \in Seq(Units)
    BY <2>1, NoUnits
  <2>3. QED
    BY <2>1, <2>2, MessagesStay
<1>6. CASE HandlerExtracts
  <2>1. /\ UNCHANGED <<messages, chip, rxMailbox, handler>> /\ handler = "process"
        /\ receiveBuffer' \in {<<>>, Append(receiveBuffer, Head(unread))}
        /\ unread # <<>> /\ unread' = Tail(unread)
    BY <1>6, ExtractCases DEF HandlerExtracts, environment, mail, tasks
  <2>2. Append(receiveBuffer, Head(unread)) \in Seq(Units) /\ Tail(unread) \in Seq(Units)
    BY <2>1, NextUnit
  <2>3. receiveBuffer' \in Seq(Units) /\ unread' \in Seq(Units)
    BY <2>1, <2>2, NoUnits
  <2>4. QED
    BY <2>1, <2>3, MessagesStay
<1>7. CASE HandlerDone
  BY <1>7, MessagesStay DEF HandlerDone, environment, mail, processorVars
<1>8. CASE Tick
  BY <1>8, MessagesStay DEF Tick, environment, mail, processorVars
<1>9. CASE HandlerFindsNothing
  BY <1>9, MessagesStay DEF HandlerFindsNothing, environment, mail, processorVars
<1>10. CASE UNCHANGED <<messages, chip, rxMailbox, receiveBuffer, unread, handler>>
  BY <1>10, MessagesStay
<1>11. CASE \/ FragmentLost \/ TouchButton \/ CollectionSends \/ AccessoryStep \/ RadioTransmit
            \/ UNCHANGED vars
  BY <1>11, <1>10 DEF FragmentLost, TouchButton, CollectionSends, AccessoryStep, RadioTransmit, vars,
       environment, mail, tasks, processorVars
<1>12. CASE HandlerIgnores \/ HandlerAnswers \/ HandlerSync \/ HandlerResets
  BY <1>12, <1>10 DEF HandlerIgnores, HandlerAnswers, HandlerSync, HandlerResets, Taken, NextCompleteFrame,
       environment, mail, tasks, processorVars
<1>13. QED
  BY <1>1, <1>2, <1>3, <1>4, <1>5, <1>6, <1>7, <1>8, <1>9, <1>11, <1>12
     DEF Next, HandlerPolls, HandlerProcesses, RadioStep

-----------------------------------------------------------------------------
(* What a fragment adds to those that were kept of its packet id.          *)
LEMMA StoredParts ==
  ASSUME FragmentsOK, NEW f \in Frames, NEW part
  PROVE  /\ f.packet \in Packet /\ f.seq \in Nat /\ f.last \in BOOLEAN
         /\ Stored(f, part).total = IF f.last THEN f.seq + 1 ELSE fragmentMap[f.packet].total
         /\ Stored(f, part).total \in Nat
         /\ DOMAIN Stored(f, part).parts = {f.seq} \union DOMAIN fragmentMap[f.packet].parts
         /\ IsFiniteSet(DOMAIN Stored(f, part).parts) /\ DOMAIN Stored(f, part).parts \subseteq Nat
         /\ Stored(f, part).parts[f.seq] = part
         /\ \A s \in DOMAIN fragmentMap[f.packet].parts :
              s # f.seq => Stored(f, part).parts[s] = fragmentMap[f.packet].parts[s]
<1> DEFINE old == fragmentMap[f.packet]
<1>1. f.packet \in Packet /\ f.seq \in Nat /\ f.last \in BOOLEAN
  BY PacketAssumption DEF Frames
<1>2. InfoOK(f.packet, old)
  BY <1>1 DEF FragmentsOK
<1>3. /\ Stored(f, part).total = IF f.last THEN f.seq + 1 ELSE old.total
      /\ Stored(f, part).parts =
           [s \in {f.seq} \union DOMAIN old.parts |-> IF s = f.seq THEN part ELSE old.parts[s]]
  BY DEF Stored
<1>4. /\ DOMAIN Stored(f, part).parts = {f.seq} \union DOMAIN old.parts
      /\ Stored(f, part).parts[f.seq] = part
      /\ \A s \in DOMAIN old.parts : s # f.seq => Stored(f, part).parts[s] = old.parts[s]
  <2> DEFINE stored == Stored(f, part)
  <2>1. stored.parts = [s \in {f.seq} \union DOMAIN old.parts |-> IF s = f.seq THEN part ELSE old.parts[s]]
    BY <1>3
  <2> HIDE DEF old, stored
  <2>2. DOMAIN stored.parts = {f.seq} \union DOMAIN old.parts /\ stored.parts[f.seq] = part
    BY <2>1
  <2>3. \A s \in DOMAIN old.parts : s # f.seq => stored.parts[s] = old.parts[s]
    BY <2>1
  <2>4. QED
    BY <2>2, <2>3 DEF stored
<1>5. IsFiniteSet({f.seq} \union DOMAIN old.parts)
  BY <1>2, FS_Singleton, FS_Union DEF InfoOK
<1>6. old.total \in Nat /\ DOMAIN old.parts \subseteq Nat
  BY <1>2 DEF InfoOK
<1>7. QED
  BY <1>1, <1>3, <1>4, <1>5, <1>6

\* The first part of a frame put together is one of those collected.
LEMMA FirstInOrder ==
  ASSUME NEW parts, IsFiniteSet(DOMAIN parts), DOMAIN parts \subseteq Nat, 0 \in DOMAIN parts,
         NEW total \in Nat, Cardinality(DOMAIN parts) = total
  PROVE  \E s \in DOMAIN parts : InOrder(parts, total)[1] = parts[s]
<1> DEFINE seqs == DOMAIN parts \intersect 0 .. total - 1
           Nth(i) == CHOOSE q \in seqs : Cardinality({r \in seqs : r < q}) = i - 1
<1>1. total # 0
  BY FS_EmptySet
<1>2. 0 \in seqs /\ seqs \subseteq Nat
  BY <1>1
<1>3. IsFiniteSet(seqs) /\ Cardinality(seqs) \in Nat /\ Cardinality(seqs) # 0
  <2>1. IsFiniteSet(seqs)
    BY FS_Subset
  <2>2. QED
    BY <1>2, <2>1, FS_CardinalityType, FS_EmptySet
<1>4. {r \in seqs : r < 0} = {}
  BY <1>2
<1>5. Cardinality({r \in seqs : r < 0}) = 1 - 1
  BY <1>4, FS_EmptySet
<1>6. Nth(1) \in seqs
  <2> HIDE DEF seqs
  <2> QED
    BY <1>2, <1>5
<1>7. InOrder(parts, total) = [i \in 1 .. Cardinality(seqs) |-> parts[Nth(i)]]
  BY DEF InOrder
<1>8. InOrder(parts, total)[1] = parts[Nth(1)]
  <2> HIDE DEF seqs, Nth
  <2> QED
    BY <1>3, <1>7
<1>9. QED
  BY <1>6, <1>8

LEMMA AppendAny ==
  ASSUME NEW q, \E S : q \in Seq(S), NEW x
  PROVE  /\ \E S : Append(q, x) \in Seq(S)
         /\ Len(q) \in Nat /\ DOMAIN q = 1 .. Len(q)
         /\ DOMAIN Append(q, x) = 1 .. Len(q) + 1
         /\ \A i \in DOMAIN q : Append(q, x)[i] = q[i]
         /\ Append(q, x)[Len(q) + 1] = x
<1>1. PICK S : q \in Seq(S)
  OBVIOUS
<1>2. q \in Seq(S \union {x}) /\ x \in S \union {x}
  BY <1>1, SeqMonotonic
<1>3. QED
  BY <1>2

LEMMA FramesGrow ==
  ASSUME FramesOK, NEW frame, completeFrames' = Append(completeFrames, frame)
  PROVE  /\ \E S : completeFrames' \in Seq(S)
         /\ DOMAIN completeFrames = 1 .. Len(completeFrames) /\ Len(completeFrames) \in Nat
         /\ DOMAIN completeFrames' = 1 .. Len(completeFrames) + 1
         /\ \A i \in DOMAIN completeFrames : completeFrames'[i] = completeFrames[i]
         /\ completeFrames'[Len(completeFrames) + 1] = frame
<1> DEFINE longer == Append(completeFrames, frame)
<1>1. \E S : completeFrames \in Seq(S)
  BY DEF FramesOK
<1>2. /\ \E S : longer \in Seq(S)
      /\ Len(completeFrames) \in Nat /\ DOMAIN completeFrames = 1 .. Len(completeFrames)
      /\ DOMAIN longer = 1 .. Len(completeFrames) + 1
      /\ \A i \in DOMAIN completeFrames : longer[i] = completeFrames[i]
      /\ longer[Len(completeFrames) + 1] = frame
  BY <1>1, AppendAny, Zenon
<1>3. completeFrames' = longer
  OBVIOUS
<1> HIDE DEF longer
<1>4. QED
  BY <1>2, <1>3

LEMMA HandledGrow ==
  ASSUME FramesOK, NEW x
  PROVE  /\ DOMAIN handled = 1 .. Len(handled) /\ Len(handled) \in Nat
         /\ DOMAIN Append(handled, x) = 1 .. Len(handled) + 1
         /\ \A i \in DOMAIN handled : Append(handled, x)[i] = handled[i]
         /\ Append(handled, x)[Len(handled) + 1] = x
<1>1. PICK S : handled \in Seq(S)
  BY DEF FramesOK
<1>2. handled \in Seq(S \union {x}) /\ x \in S \union {x}
  BY <1>1, SeqMonotonic
<1>3. QED
  BY <1>2

(* A frame accepted leaves the parts it completes, or is kept with them.   *)
LEMMA AcceptKeeps ==
  ASSUME FragmentsOK, FramesOK, UNCHANGED <<messages, handled>>,
         NEW f \in Frames, NEW intact \in BOOLEAN, AcceptWhole(f, intact)
  PROVE  FragmentsOK' /\ FramesOK'
<1> DEFINE part == [msg |-> f.msg, seq |-> f.seq, intact |-> intact]
           info == Stored(f, part)
           new == Frame(f.packet, InOrder(info.parts, info.total))
<1>1. OfMessage(f.packet, part.msg)
  BY DEF OfMessage, Frames
<1>2. ASSUME NEW p, NEW m PROVE OfMessage(p, m)' <=> OfMessage(p, m)
  BY DEF OfMessage
<1>3. UNCHANGED <<fragmentMap, completeFrames>> => FragmentsOK' /\ FramesOK'
  BY <1>2 DEF FragmentsOK, FramesOK, InfoOK, IsComplete
<1>4. /\ f.packet \in Packet /\ info.total \in Nat
      /\ IsFiniteSet(DOMAIN info.parts) /\ DOMAIN info.parts \subseteq Nat
  BY StoredParts, Zenon
<1>5. ASSUME NEW s \in DOMAIN info.parts
      PROVE  OfMessage(f.packet, info.parts[s].msg)
  <2>1. InfoOK(f.packet, fragmentMap[f.packet])
    BY <1>4 DEF FragmentsOK
  <2>2. /\ DOMAIN info.parts = {f.seq} \union DOMAIN fragmentMap[f.packet].parts
        /\ info.parts[f.seq] = part
        /\ \A r \in DOMAIN fragmentMap[f.packet].parts :
             r # f.seq => info.parts[r] = fragmentMap[f.packet].parts[r]
    <3> HIDE DEF part
    <3>1. QED
      BY StoredParts
  <2> HIDE DEF info, part
  <2>3. QED
    BY <1>1, <2>1, <2>2 DEF InfoOK
<1>6. ASSUME NEW frame, completeFrames' = Append(completeFrames, frame),
             OfMessage(frame.packet, frame.parts[1].msg)
      PROVE  FramesOK'
  <2>1. /\ \E S : completeFrames' \in Seq(S)
        /\ DOMAIN completeFrames = 1 .. Len(completeFrames) /\ Len(completeFrames) \in Nat
        /\ DOMAIN completeFrames' = 1 .. Len(completeFrames) + 1
        /\ \A i \in DOMAIN completeFrames : completeFrames'[i] = completeFrames[i]
        /\ completeFrames'[Len(completeFrames) + 1] = frame
    BY <1>6, FramesGrow
  <2>2. ASSUME NEW i \in DOMAIN completeFrames'
        PROVE  OfMessage(completeFrames'[i].packet, completeFrames'[i].parts[1].msg)
    BY <1>6, <2>1 DEF FramesOK
  <2>3. QED
    BY <1>2, <2>1, <2>2 DEF FramesOK
<1>7. ASSUME NEW g, InfoOK(f.packet, g), fragmentMap' = [fragmentMap EXCEPT ![f.packet] = g]
      PROVE  FragmentsOK'
  <2>1. DOMAIN fragmentMap' = Packet
    BY <1>7 DEF FragmentsOK
  <2>2. ASSUME NEW p \in Packet PROVE InfoOK(p, fragmentMap'[p])
    <3>1. fragmentMap'[p] = IF p = f.packet THEN g ELSE fragmentMap[p]
      BY <1>7 DEF FragmentsOK
    <3>2. QED
      BY <1>7, <3>1 DEF FragmentsOK
  <2>3. ASSUME NEW p \in Packet PROVE InfoOK(p, fragmentMap[p])'
    BY <1>2, <2>2 DEF InfoOK, IsComplete
  <2>4. QED
    BY <2>1, <2>3 DEF FragmentsOK
<1>8. CASE ~IsFragment(f)
  <2>1. completeFrames' = Append(completeFrames, Frame(f.packet, <<part>>)) /\ UNCHANGED fragmentMap
    BY <1>8, Zenon DEF AcceptWhole
  <2>2. FragmentsOK'
    BY <1>2, <2>1 DEF FragmentsOK, InfoOK, IsComplete
  <2>3. Frame(f.packet, <<part>>).packet = f.packet /\ Frame(f.packet, <<part>>).parts[1] = part
    <3> HIDE DEF part
    <3> QED
      BY DEF Frame
  <2>4. QED
    <3> HIDE DEF part
    <3> QED
      BY <1>1, <1>6, <2>1, <2>2, <2>3
<1>9. CASE IsFragment(f)
  <2>1. \/ UNCHANGED <<fragmentMap, completeFrames>>
        \/ /\ IsComplete(info)
           /\ fragmentMap' = [fragmentMap EXCEPT ![f.packet] = NoFragments]
           /\ completeFrames' = Append(completeFrames, new)
        \/ /\ ~IsComplete(info)
           /\ fragmentMap' = [fragmentMap EXCEPT ![f.packet] = info]
           /\ UNCHANGED completeFrames
    BY <1>9, Zenon DEF AcceptWhole, Reassemble
  <2> HIDE DEF info
  <2>2. CASE /\ IsComplete(info)
             /\ fragmentMap' = [fragmentMap EXCEPT ![f.packet] = NoFragments]
             /\ completeFrames' = Append(completeFrames, new)
    <3>1. InfoOK(f.packet, NoFragments)
      <4>1. NoFragments.parts = <<>> /\ NoFragments.total = 0 /\ DOMAIN <<>> = {}
        BY DEF NoFragments
      <4>2. QED
        BY <4>1, FS_EmptySet DEF InfoOK, IsComplete
    <3>2. \E s \in DOMAIN info.parts : InOrder(info.parts, info.total)[1] = info.parts[s]
      BY <1>4, <2>2, FirstInOrder DEF IsComplete
    <3>3. new.packet = f.packet /\ new.parts = InOrder(info.parts, info.total)
      BY DEF Frame
    <3>4. OfMessage(new.packet, new.parts[1].msg)
      BY <1>5, <3>2, <3>3
    <3> HIDE DEF new
    <3>5. QED
      BY <1>6, <1>7, <2>2, <3>1, <3>4
  <2>3. CASE /\ ~IsComplete(info)
             /\ fragmentMap' = [fragmentMap EXCEPT ![f.packet] = info]
             /\ UNCHANGED completeFrames
    <3>1. InfoOK(f.packet, info)
      BY <1>4, <1>5, <2>3 DEF InfoOK
    <3>2. FramesOK'
      BY <1>2, <2>3 DEF FramesOK
    <3>3. QED
      BY <1>7, <2>3, <3>1, <3>2
  <2>4. QED
    BY <1>3, <2>1, <2>2, <2>3
<1>10. QED
  BY <1>8, <1>9

\* A frame that is taken was put together, and comes to those handled.
LEMMA TakenKeeps ==
  ASSUME FramesOK, UNCHANGED messages, NEW frame, Taken(frame)
  PROVE  /\ FramesOK' /\ UNCHANGED fragmentMap
         /\ OfMessage(frame.packet, frame.parts[1].msg)
<1> USE DEF Taken, NextCompleteFrame
<1>1. ASSUME NEW p, NEW m PROVE OfMessage(p, m)' <=> OfMessage(p, m)
  BY DEF OfMessage
<1>2. PICK S : completeFrames \in Seq(S)
  BY DEF FramesOK
<1>3. /\ completeFrames' \in Seq(S) /\ frame = completeFrames[1] /\ 1 \in DOMAIN completeFrames
      /\ \A i \in DOMAIN completeFrames' : i + 1 \in DOMAIN completeFrames /\ completeFrames'[i] = completeFrames[i + 1]
  BY <1>2
<1>4. OfMessage(frame.packet, frame.parts[1].msg)
  BY <1>3 DEF FramesOK
<1>5. /\ \E T : completeFrames' \in Seq(T)
      /\ \A i \in DOMAIN completeFrames' : OfMessage(completeFrames'[i].packet, completeFrames'[i].parts[1].msg)
  BY <1>3 DEF FramesOK
<1>6. /\ \E T : handled' \in Seq(T)
      /\ \A i \in DOMAIN handled' : handled'[i][1].msg \in DOMAIN messages
  <2>1. CASE frame.packet = MASTER_TO_SLAVE
    <3> DEFINE longer == Append(handled, frame.parts)
    <3>1. \E T : handled \in Seq(T)
      BY DEF FramesOK
    <3>2. /\ \E T : longer \in Seq(T)
          /\ Len(handled) \in Nat /\ DOMAIN handled = 1 .. Len(handled)
          /\ DOMAIN longer = 1 .. Len(handled) + 1
          /\ \A i \in DOMAIN handled : longer[i] = handled[i]
          /\ longer[Len(handled) + 1] = frame.parts
      BY <3>1, AppendAny, Zenon
    <3>3. handled' = longer
      BY <2>1, Zenon
    <3> HIDE DEF longer
    <3>4. frame.parts[1].msg \in DOMAIN messages
      BY <1>4, <2>1 DEF OfMessage
    <3>5. \E T : handled' \in Seq(T)
      BY <3>2, <3>3, Zenon
    <3>6. \A i \in DOMAIN handled : handled[i][1].msg \in DOMAIN messages
      BY DEF FramesOK
    <3>7. ASSUME NEW i \in 1 .. Len(handled) + 1
          PROVE  handled'[i][1].msg \in DOMAIN messages
      <4>1. CASE i = Len(handled) + 1
        BY <3>2, <3>3, <3>4, <4>1
      <4>2. CASE i \in DOMAIN handled
        BY <3>2, <3>3, <3>6, <4>2
      <4>3. QED
        BY <3>2, <4>1, <4>2
    <3>8. DOMAIN handled' = 1 .. Len(handled) + 1
      BY <3>2, <3>3
    <3>9. QED
      BY <3>5, <3>7, <3>8
  <2>2. CASE frame.packet # MASTER_TO_SLAVE
    BY <2>2 DEF FramesOK
  <2>3. QED
    BY <2>1, <2>2
<1>7. QED
  BY <1>1, <1>4, <1>5, <1>6 DEF FramesOK

(* What was put together, or is kept of a message to come, is of messages  *)
(* that were sent.                                                         *)
LEMMA FramesStep ==
  ASSUME EnvironmentOK, BytesOK, FragmentsOK, FramesOK, [Next]_vars
  PROVE  FragmentsOK' /\ FramesOK'
<1>1. ASSUME UNCHANGED <<fragmentMap, completeFrames, handled>>,
             \A m \in DOMAIN messages : m \in DOMAIN messages'
      PROVE  FragmentsOK' /\ FramesOK'
  <2>1. ASSUME NEW p, NEW m, OfMessage(p, m) PROVE OfMessage(p, m)'
    BY <1>1, <2>1 DEF OfMessage
  <2>2. FragmentsOK'
    BY <1>1, <2>1 DEF FragmentsOK, InfoOK, IsComplete
  <2>3. FramesOK'
    BY <1>1, <2>1 DEF FramesOK
  <2>4. QED
    BY <2>2, <2>3
<1>2. CASE MasterBegins
  <2>1. PICK k \in traffic.kinds : messages' = Append(messages, k)
    BY <1>2 DEF MasterBegins
  <2>2. k \in MessageKind
    BY DEF EnvironmentOK, TrafficOK
  <2>3. UNCHANGED <<fragmentMap, completeFrames, handled>>
    BY <1>2 DEF MasterBegins, ghosts, processorVars
  <2>4. QED
    BY <1>1, <2>1, <2>2, <2>3, MessagesGrow
<1>3. CASE HandlerExtracts
  <2>1. UNCHANGED <<messages, handled>> /\ Extract
    BY <1>3 DEF HandlerExtracts, environment, ghosts
  <2>2. CASE \E f \in Frames, intact \in BOOLEAN : AcceptWhole(f, intact)
    BY <2>1, <2>2, AcceptKeeps
  <2>3. CASE UNCHANGED <<fragmentMap, completeFrames>>
    BY <1>1, <2>1, <2>3
  <2>4. QED
    BY <2>1, <2>2, <2>3, ExtractCases
<1>4. CASE HandlerIgnores \/ HandlerAnswers \/ HandlerSync
  <2>1. UNCHANGED messages /\ \E frame : Taken(frame)
    BY <1>4 DEF HandlerIgnores, HandlerAnswers, HandlerSync, environment
  <2>2. PICK frame : Taken(frame)
    BY <2>1
  <2>3. FramesOK' /\ UNCHANGED fragmentMap
    BY <2>1, <2>2, TakenKeeps
  <2>4. FragmentsOK'
    BY <2>1, <2>3 DEF FragmentsOK, InfoOK, IsComplete, OfMessage
  <2>5. QED
    BY <2>3, <2>4
<1>5. CASE \/ FragmentArrives \/ FragmentLost \/ OtherSlaveSends \/ TouchButton \/ CollectionSends
           \/ Tick \/ AccessoryStep \/ RadioStep \/ HandlerPolls \/ HandlerDone \/ HandlerResets \/ UNCHANGED vars
  <2>1. UNCHANGED <<fragmentMap, completeFrames, handled, messages>>
    BY <1>5 DEF FragmentArrives, FragmentLost, OtherSlaveSends, TouchButton, CollectionSends, Tick,
         AccessoryStep, RadioStep,
         RadioTransmit, RadioReceive, HandlerPolls, HandlerReceives, ProcessReceivedData, HandlerFindsNothing,
         HandlerDone, HandlerResets, vars, environment, ghosts, processorVars
  <2>2. QED
    BY <1>1, <2>1
<1>6. QED
  BY <1>2, <1>3, <1>4, <1>5 DEF Next, HandlerProcesses

(* Where the tasks are, and the answer that waits.                         *)
LEMMA TasksStep ==
  ASSUME EnvironmentOK, FramesOK, TasksOK, [Next]_vars
  PROVE  TasksOK'
<1> USE DEF TasksOK
<1>1. CASE MasterBegins
  <2>1. PICK k \in traffic.kinds : messages' = Append(messages, k)
    BY <1>1 DEF MasterBegins
  <2>2. k \in MessageKind
    BY DEF EnvironmentOK, TrafficOK
  <2>3. \A m \in DOMAIN messages : m \in DOMAIN messages'
    BY <2>1, <2>2, MessagesGrow
  <2>4. UNCHANGED <<txMailbox, radio, handler, resetting>>
    BY <1>1 DEF MasterBegins, mail, tasks, lockVars
  <2>5. QED
    BY <2>3, <2>4
<1>2. CASE HandlerAnswers
  <2>1. PICK frame : /\ Taken(frame) /\ IsForUs(frame) /\ txMailbox' = frame.parts[1].msg
    BY <1>2 DEF HandlerAnswers
  <2>2. UNCHANGED <<messages, radio, handler>> /\ handler = "process"
    BY <1>2 DEF HandlerAnswers, Taken, environment, tasks
  <2>3. frame.parts[1].msg \in DOMAIN messages
    BY <2>1, <2>2, TakenKeeps DEF OfMessage, IsForUs
  <2>4. QED
    BY <2>1, <2>2, <2>3
<1>3. CASE HandlerIgnores
  <2>1. UNCHANGED <<messages, txMailbox, radio, handler>> /\ handler = "process"
    BY <1>3 DEF HandlerIgnores, Taken, environment, mail, tasks
  <2>2. QED
    BY <2>1
<1>4. CASE HandlerSync
  <2>1. UNCHANGED <<messages, txMailbox, radio, handler>> /\ handler = "process"
    BY <1>4 DEF HandlerSync, Taken, environment, mail, tasks
  <2>2. QED
    BY <2>1
<1>5. CASE HandlerResets
  BY <1>5 DEF HandlerResets, environment, mail, tasks
<1>6. CASE HandlerExtracts
  BY <1>6 DEF HandlerExtracts, environment, mail, tasks
<1>7. CASE HandlerReceives
  BY <1>7 DEF HandlerReceives, environment
<1>8. CASE HandlerFindsNothing \/ HandlerDone
  BY <1>8 DEF HandlerFindsNothing, HandlerDone, environment, mail, lockVars
<1>9. CASE Tick
  BY <1>9 DEF Tick, environment, mail, lockVars
<1>10. CASE RadioTransmit
  BY <1>10 DEF RadioTransmit, environment, lockVars
<1>11. CASE RadioReceive
  BY <1>11 DEF RadioReceive, environment, lockVars
<1>12. CASE AccessoryStep
  <2>1. UNCHANGED <<messages, txMailbox, radio, handler, resetting>>
    BY <1>12 DEF AccessoryStep, Wake, UpdateStep, Scan, OpenValve, CloseValve, MoveValve, SetLocked,
         SetUnlocked, UpdateDeviceStatus, environment, mail
  <2>2. QED
    BY <2>1
<1>13. CASE TouchButton
  BY <1>13 DEF TouchButton, Touch, mail, tasks
<1>14. CASE FragmentArrives \/ FragmentLost \/ OtherSlaveSends \/ UNCHANGED vars
  BY <1>14 DEF FragmentArrives, FragmentLost, OtherSlaveSends, vars, environment, mail, tasks, lockVars
<1>15. CASE CollectionSends
  BY <1>15 DEF CollectionSends, tasks, lockVars
<1>16. QED
  BY <1>1, <1>2, <1>3, <1>4, <1>5, <1>6, <1>7, <1>8, <1>9, <1>10, <1>11, <1>12, <1>13, <1>14, <1>15
     DEF Next, HandlerPolls, HandlerProcesses, RadioStep

LEMMA TypesInitially == Init => TypeInv
<1> SUFFICES ASSUME Init PROVE TypeInv
  OBVIOUS
<1> USE DEF Init, ProcessorInit
<1>1. TrafficOK
  BY TrafficAssumption DEF TrafficOK
<1>2. EnvironmentOK
  BY <1>1, EmptySeq DEF EnvironmentOK
<1>3. BytesOK
  BY NoUnits, MailboxAssumption DEF BytesOK
<1>4. FragmentsOK
  <2>1. ASSUME NEW p \in Packet PROVE fragmentMap[p] = NoFragments
    OBVIOUS
  <2>2. NoFragments.parts = <<>> /\ NoFragments.total = 0 /\ DOMAIN <<>> = {}
    BY DEF NoFragments
  <2>3. QED
    BY <2>1, <2>2, FS_EmptySet DEF FragmentsOK, InfoOK, IsComplete
<1>5. FramesOK
  <2>1. <<>> \in Seq({}) /\ DOMAIN <<>> = {}
    BY EmptySeq
  <2>2. QED
    BY <2>1 DEF FramesOK
<1>6. TasksOK
  BY DEF TasksOK, LockInit
<1>7. QED
  BY <1>2, <1>3, <1>4, <1>5, <1>6 DEF TypeInv

(* The variables have their types, whatever is on the air; the parts kept  *)
(* of a packet id are never complete (ProtocolProcessor.cpp:876-931), and  *)
(* an answer is one to a message that was sent.                            *)
THEOREM ReceiveTypeCorrect == Spec => []TypeOK
<1>1. Init => TypeInv /\ LockInv
  BY TypesInitially, LockInitially DEF Init
<1>2. TypeInv /\ LockInv /\ [Next]_vars => TypeInv' /\ LockInv'
  BY EnvironmentStep, BytesStep, FramesStep, TasksStep, LockStep, UpdateKeepsLockInv, ResetKeepsLockInv
     DEF TypeInv
<1>3. TypeInv /\ LockInv => TypeOK
  <2> SUFFICES ASSUME TypeInv, LockInv PROVE TypeOK
    OBVIOUS
  <2>1. ASSUME NEW p \in Packet, 0 \in DOMAIN fragmentMap[p].parts
        PROVE  Cardinality(DOMAIN fragmentMap[p].parts) # fragmentMap[p].total
    BY <2>1 DEF TypeInv, FragmentsOK, InfoOK, IsComplete
  <2>2. QED
    BY <2>1 DEF TypeInv, BytesOK, TasksOK, LockInv, TypeOK
<1>4. QED
  BY <1>1, <1>2, <1>3, PTL DEF Spec

-----------------------------------------------------------------------------
(* The units that have arrived, in the order in which they are looked at.  *)
Received == IF rxReady THEN rxMailbox ELSE <<>>
Stream == unread \o Received \o chip

\* A unit that completes a frame of the master.
Completes(u) == u.part # "head" /\ u.frame.packet = MASTER_TO_SLAVE

Earlier(f, g) == f.msg < g.msg \/ (f.msg = g.msg /\ f.seq < g.seq)

(* Heads and tails are together.                                           *)
Aligned(q) ==
  \A i \in DOMAIN q :
    /\ q[i].part = "head" => i + 1 \in DOMAIN q /\ q[i + 1] = [part |-> "tail", frame |-> q[i].frame]
    /\ q[i].part = "tail" => i - 1 \in DOMAIN q /\ q[i - 1] = [part |-> "head", frame |-> q[i].frame]

BytesAligned ==
  /\ Aligned(chip) /\ Aligned(Received) /\ Aligned(receiveBuffer \o unread)
  /\ receiveBuffer = <<>> \/ (Len(receiveBuffer) = 1 /\ receiveBuffer[1].part = "head")

(* The master sends the fragments of its last message one after the other. *)
SendingRest ==
  \A k \in DOMAIN sending :
    /\ sending[k].msg = Len(messages)
    /\ sending[k].seq = messages[Len(messages)].n - Len(sending) + k - 1

InOrderSent ==
  /\ \A i, j \in DOMAIN Stream :
       i < j /\ Completes(Stream[i]) /\ Completes(Stream[j]) => Earlier(Stream[i].frame, Stream[j].frame)
  /\ \A i \in DOMAIN Stream, k \in DOMAIN sending :
       Completes(Stream[i]) => Earlier(Stream[i].frame, sending[k])

Kept == fragmentMap[MASTER_TO_SLAVE]

\* Fragment s of message m is before the i-th of the units q, or was kept.
Before(q, kept, m, s, i) ==
  \/ \E j \in 1 .. i - 1 : Completes(q[j]) /\ q[j].frame.msg = m /\ q[j].frame.seq = s
  \/ s \in DOMAIN kept.parts /\ kept.parts[s].msg = m

NoneMissing ==
  /\ \A i \in DOMAIN Stream :
       Completes(Stream[i]) =>
         \A s \in 0 .. Stream[i].frame.seq - 1 : Before(Stream, Kept, Stream[i].frame.msg, s, i)
  /\ sending # <<>> =>
       \A s \in 0 .. sending[1].seq - 1 : Before(Stream, Kept, sending[1].msg, s, Len(Stream) + 1)

\* p is fragment s of its message, with its own bytes.
IsPart(p, s) == p = [msg |-> p.msg, seq |-> s, intact |-> TRUE]

PartsRight ==
  /\ \E k \in Nat : DOMAIN Kept.parts = 0 .. k - 1 /\ (Kept.total = 0 \/ k > Kept.total)
  /\ \A s \in DOMAIN Kept.parts :
       /\ IsPart(Kept.parts[s], s)
       /\ \A i \in DOMAIN Stream : Completes(Stream[i]) => Kept.parts[s].msg <= Stream[i].frame.msg

\* Message m is older than all that comes.
Past(q, rest, m) ==
  /\ \A i \in DOMAIN q : Completes(q[i]) => m < q[i].frame.msg
  /\ \A k \in DOMAIN rest : m < rest[k].msg

\* parts are the message they say, as it was sent.
IsWhole(sent, parts) ==
  /\ Len(parts) = sent[parts[1].msg].n
  /\ \A i \in DOMAIN parts : parts[i] = [msg |-> parts[1].msg, seq |-> i - 1, intact |-> TRUE]

FramesRight ==
  /\ \A i \in DOMAIN completeFrames : completeFrames[i].packet = MASTER_TO_SLAVE =>
       /\ IsWhole(messages, completeFrames[i].parts)
       /\ Past(Stream, sending, completeFrames[i].parts[1].msg)
       /\ \A j \in DOMAIN completeFrames : j < i /\ completeFrames[j].packet = MASTER_TO_SLAVE =>
            completeFrames[j].parts[1].msg < completeFrames[i].parts[1].msg
       /\ \A j \in DOMAIN handled : handled[j][1].msg < completeFrames[i].parts[1].msg
  /\ \A i \in DOMAIN handled :
       /\ IsWhole(messages, handled[i])
       /\ Past(Stream, sending, handled[i][1].msg)
       /\ \A j \in DOMAIN handled : j < i => handled[j][1].msg < handled[i][1].msg

Spoiled == Lost({"inside", "cut"})

FlowInv == SendingRest /\ InOrderSent /\ NoneMissing /\ PartsRight /\ FramesRight

StreamInv == ~Spoiled => BytesAligned /\ FlowInv

-----------------------------------------------------------------------------
(* Where units go.                                                         *)
LEMMA StreamIsOfUnits ==
  ASSUME BytesOK
  PROVE  Received \in Seq(Units) /\ Stream \in Seq(Units)
<1>1. Received \in Seq(Units)
  BY NoUnits DEF Received, BytesOK
<1>2. QED
  BY <1>1 DEF Stream, BytesOK

\* A frame on the air comes to the end of what has arrived.
LEMMA StreamGrows ==
  ASSUME BytesOK, NEW f \in Frames, chip' = chip \o UnitsOf(f), UNCHANGED <<rxMailbox, rxReady, unread>>
  PROVE  Stream' = Stream \o UnitsOf(f)
<1>1. UnitsOf(f) \in Seq(Units) /\ Received \in Seq(Units) /\ unread \in Seq(Units) /\ chip \in Seq(Units)
  BY UnitsOfFrame, StreamIsOfUnits DEF BytesOK
<1>2. unread \o Received \in Seq(Units)
  BY <1>1, ConcatProperties
<1>3. (unread \o Received) \o (chip \o UnitsOf(f)) = ((unread \o Received) \o chip) \o UnitsOf(f)
  <2>1. ASSUME NEW a \in Seq(Units), NEW b \in Seq(Units), NEW c \in Seq(Units)
        PROVE  (a \o b) \o c = a \o (b \o c)
    BY ConcatAssociative
  <2>2. QED
    BY <1>1, <1>2, <2>1, Zenon
<1>4. Received' = Received
  BY DEF Received
<1>5. Stream' = (unread \o Received) \o (chip \o UnitsOf(f))
  BY <1>4 DEF Stream
<1>6. QED
  BY <1>3, <1>5, Zenon DEF Stream

LEMMA StreamPassedOn ==
  ASSUME BytesOK, MailboxInv, RadioReceive, Len(chip) <= MailboxSize
  PROVE  /\ Stream' = Stream
         /\ Received = <<>> \/ chip = <<>>
         /\ \/ Received' = chip /\ chip' = <<>>
            \/ UNCHANGED <<Received, chip>>
<1>1. ~rxReady /\ UNCHANGED unread
  BY DEF RadioReceive, RadioRuns, MailboxInv, processorVars
<1>2. Received = <<>> /\ Reception = chip
  BY <1>1, ReceptionIsPart DEF Received
<1>3. \/ rxMailbox' = chip /\ rxReady' /\ chip' = <<>>
      \/ chip = <<>> /\ UNCHANGED <<rxMailbox, rxReady, chip>>
  BY <1>2 DEF RadioReceive
<1>4. \/ Received' = chip /\ chip' = <<>>
      \/ UNCHANGED <<Received, chip>>
  BY <1>3 DEF Received
<1>5. unread \in Seq(Units) /\ chip \in Seq(Units) /\ unread \o <<>> = unread
  BY DEF BytesOK
<1>6. (unread \o chip) \o <<>> = unread \o chip
  BY <1>5, ConcatEmptySeq
<1>7. Stream' = Stream
  BY <1>1, <1>2, <1>4, <1>5, <1>6 DEF Stream
<1>8. QED
  BY <1>2, <1>4, <1>7

LEMMA StreamTakenOut ==
  ASSUME BytesOK, HandlerReceives
  PROVE  /\ Stream' = Stream
         /\ unread = <<>> /\ unread' = Received /\ Received' = <<>>
         /\ UNCHANGED chip /\ receiveBuffer' \in {receiveBuffer, <<>>}
<1>1. /\ unread = <<>> /\ unread' = Received /\ Received' = <<>>
      /\ UNCHANGED chip /\ receiveBuffer' \in {receiveBuffer, <<>>}
  BY DEF BytesOK, HandlerReceives, ProcessReceivedData, Received
<1>2. <<>> \o Received = Received /\ Received \o <<>> = Received
  BY StreamIsOfUnits, ConcatEmptySeq
<1>3. Stream' = Stream
  BY <1>1, <1>2 DEF Stream
<1>4. QED
  BY <1>1, <1>3

LEMMA StreamLookedAt ==
  ASSUME BytesOK, unread # <<>>, unread' = Tail(unread), UNCHANGED <<rxMailbox, rxReady, chip>>
  PROVE  Stream # <<>> /\ Stream[1] = Head(unread) /\ Stream' = Tail(Stream)
<1>1. Received \in Seq(Units) /\ unread \in Seq(Units) /\ chip \in Seq(Units)
  BY StreamIsOfUnits DEF BytesOK
<1>2. ASSUME NEW T, NEW a \in Seq(T), a # <<>>, NEW b \in Seq(T)
      PROVE  a \o b # <<>> /\ (a \o b)[1] = Head(a) /\ Tail(a) \o b = Tail(a \o b)
  <2>1. Len(a) \in Nat /\ Len(a) > 0
    BY <1>2, EmptySeq
  <2>2. a \o b # <<>> /\ (a \o b)[1] = Head(a)
    BY <2>1
  <2>3. Tail(a) \o b \in Seq(T) /\ Tail(a \o b) \in Seq(T)
    BY <1>2, <2>2
  <2>4. Len(Tail(a) \o b) = Len(Tail(a \o b))
    <3>1. Len(Tail(a)) = Len(a) - 1 /\ Tail(a) \in Seq(T)
      BY <1>2
    <3>2. Len(a \o b) = Len(a) + Len(b) /\ a \o b \in Seq(T)
      OBVIOUS
    <3>3. Len(Tail(a \o b)) = Len(a) + Len(b) - 1
      BY <2>2, <3>2
    <3>4. Len(Tail(a) \o b) = Len(a) - 1 + Len(b)
      BY <3>1
    <3>5. QED
      BY <2>1, <3>3, <3>4
  <2>5. ASSUME NEW i \in 1 .. Len(Tail(a) \o b)
        PROVE  (Tail(a) \o b)[i] = Tail(a \o b)[i]
    BY <2>1, <2>2, <2>4
  <2>6. QED
    BY <2>2, <2>3, <2>4, <2>5, SeqEqual
<1>3. Received' = Received
  BY DEF Received
<1>4. /\ unread \o Received # <<>> /\ (unread \o Received)[1] = Head(unread)
      /\ unread \o Received \in Seq(Units)
      /\ Tail(unread) \o Received = Tail(unread \o Received)
  BY <1>1, <1>2
<1>5. /\ Stream # <<>> /\ Stream[1] = Head(unread \o Received)
      /\ Tail(unread \o Received) \o chip = Tail(Stream)
  BY <1>1, <1>2, <1>4 DEF Stream
<1>6. Head(unread \o Received) = Head(unread)
  BY <1>4
<1>7. QED
  BY <1>3, <1>4, <1>5, <1>6 DEF Stream

-----------------------------------------------------------------------------
(* Heads and tails stay together.                                          *)
LEMMA AlignedGrows ==
  ASSUME NEW q \in Seq(Units), Aligned(q), NEW f \in Frames
  PROVE  Aligned(q \o UnitsOf(f))
<1> DEFINE h == [part |-> "head", frame |-> f]
           t == [part |-> "tail", frame |-> f]
           a == [part |-> "all", frame |-> f]
<1>1. CASE IsFragment(f)
  <2>1. q \o UnitsOf(f) = q \o <<h, t>>
    BY <1>1 DEF UnitsOf
  <2>2. h.part = "head" /\ t.part = "tail" /\ h.frame = f /\ t = [part |-> "tail", frame |-> h.frame]
        /\ h = [part |-> "head", frame |-> t.frame]
    OBVIOUS
  <2> HIDE DEF h, t
  <2>3. Len(q) \in Nat /\ DOMAIN q = 1 .. Len(q) /\ DOMAIN (q \o <<h, t>>) = 1 .. Len(q) + 2
        /\ (\A i \in DOMAIN q : (q \o <<h, t>>)[i] = q[i])
        /\ (q \o <<h, t>>)[Len(q) + 1] = h /\ (q \o <<h, t>>)[Len(q) + 2] = t
    OBVIOUS
  <2> DEFINE r == q \o <<h, t>>
  <2>4. Aligned(r)
    <3> HIDE DEF r
    <3>1. ASSUME NEW i \in DOMAIN r
          PROVE  i \in DOMAIN q \/ i = Len(q) + 1 \/ i = Len(q) + 2
      BY <2>3 DEF r
    <3>2. ASSUME NEW i \in DOMAIN q
          PROVE  /\ r[i].part = "head" => i + 1 \in DOMAIN r /\ r[i + 1] = [part |-> "tail", frame |-> r[i].frame]
                 /\ r[i].part = "tail" => i - 1 \in DOMAIN r /\ r[i - 1] = [part |-> "head", frame |-> r[i].frame]
      BY <2>3 DEF r, Aligned
    <3>3. /\ r[Len(q) + 1].part = "head" /\ Len(q) + 1 + 1 \in DOMAIN r
          /\ r[Len(q) + 1 + 1] = [part |-> "tail", frame |-> r[Len(q) + 1].frame]
      BY <2>2, <2>3 DEF r
    <3>4. /\ r[Len(q) + 2].part = "tail" /\ Len(q) + 2 - 1 \in DOMAIN r
          /\ r[Len(q) + 2 - 1] = [part |-> "head", frame |-> r[Len(q) + 2].frame]
      <4>1. Len(q) + 2 - 1 = Len(q) + 1
        BY <2>3
      <4>2. QED
        BY <2>2, <2>3, <4>1 DEF r
    <3>5. QED
      BY <3>1, <3>2, <3>3, <3>4 DEF Aligned
  <2>5. QED
    BY <2>1, <2>4
<1>2. CASE ~IsFragment(f)
  <2>1. q \o UnitsOf(f) = q \o <<a>>
    BY <1>2 DEF UnitsOf
  <2>2. a.part = "all"
    OBVIOUS
  <2> HIDE DEF a
  <2>3. Len(q) \in Nat /\ DOMAIN q = 1 .. Len(q) /\ DOMAIN (q \o <<a>>) = 1 .. Len(q) + 1
        /\ (\A i \in DOMAIN q : (q \o <<a>>)[i] = q[i])
        /\ (q \o <<a>>)[Len(q) + 1] = a
    OBVIOUS
  <2> DEFINE r == q \o <<a>>
  <2>4. Aligned(r)
    BY <2>2, <2>3 DEF Aligned
  <2>5. QED
    BY <2>1, <2>4
<1>3. QED
  BY <1>1, <1>2

LEMMA AlignedAt ==
  ASSUME NEW q \in Seq(Units), Aligned(q)
  PROVE  /\ \A i, j \in Int : j = i + 1 /\ i \in DOMAIN q =>
              (q[i].part = "head" => j \in DOMAIN q /\ q[j] = [part |-> "tail", frame |-> q[i].frame])
         /\ \A i, j \in Int : j = i - 1 /\ i \in DOMAIN q =>
              (q[i].part = "tail" => j \in DOMAIN q /\ q[j] = [part |-> "head", frame |-> q[i].frame])
  BY DEF Aligned

\* Of aligned units that begin with no tail, a head stands alone nowhere.
LEMMA AlignedRest ==
  ASSUME NEW q \in Seq(Units), q # <<>>, Aligned(q)
  PROVE  /\ Head(q).part # "tail"
         /\ Head(q).part = "all" => Aligned(Tail(q))
         /\ Head(q).part = "head" => /\ Tail(q) # <<>> /\ Head(Tail(q)) = [part |-> "tail", frame |-> Head(q).frame]
                                     /\ Aligned(Tail(Tail(q)))
<1>1. Len(q) \in Nat /\ Len(q) > 0 /\ DOMAIN q = 1 .. Len(q) /\ Head(q) = q[1]
  BY EmptySeq
<1>2. /\ DOMAIN Tail(q) = 1 .. Len(q) - 1 /\ Tail(q) \in Seq(Units)
      /\ \A i \in DOMAIN Tail(q) : Tail(q)[i] = q[i + 1]
  BY <1>1
<1>3. /\ \A i, j \in Int : j = i + 1 /\ i \in DOMAIN q =>
           (q[i].part = "head" => j \in DOMAIN q /\ q[j] = [part |-> "tail", frame |-> q[i].frame])
      /\ \A i, j \in Int : j = i - 1 /\ i \in DOMAIN q =>
           (q[i].part = "tail" => j \in DOMAIN q /\ q[j] = [part |-> "head", frame |-> q[i].frame])
  BY AlignedAt
<1>4. Head(q).part # "tail"
  <2>1. 1 \in DOMAIN q /\ 1 \in Int /\ 0 \in Int /\ 0 = 1 - 1 /\ ~(0 \in DOMAIN q)
    BY <1>1
  <2>2. 1 \in DOMAIN q => (q[1].part = "tail" => 0 \in DOMAIN q)
    BY <1>3, <2>1
  <2>3. QED
    BY <1>1, <2>1, <2>2
<1>5. ASSUME Head(q).part = "all"
      PROVE  Aligned(Tail(q))
  <2>1. ASSUME NEW i \in DOMAIN Tail(q), Tail(q)[i].part = "head"
        PROVE  i + 1 \in DOMAIN Tail(q) /\ Tail(q)[i + 1] = [part |-> "tail", frame |-> Tail(q)[i].frame]
    <3>1. i + 1 \in DOMAIN q /\ q[i + 1].part = "head"
      BY <1>1, <1>2, <2>1
    <3>2. i + 2 \in DOMAIN q /\ q[i + 2] = [part |-> "tail", frame |-> q[i + 1].frame]
      <4>1. i + 2 = i + 1 + 1 /\ i + 1 \in Int /\ i + 2 \in Int
        BY <1>1, <1>2
      <4>2. QED
        BY <1>3, <3>1, <4>1
    <3>3. QED
      BY <1>1, <1>2, <3>1, <3>2
  <2>2. ASSUME NEW i \in DOMAIN Tail(q), Tail(q)[i].part = "tail"
        PROVE  i - 1 \in DOMAIN Tail(q) /\ Tail(q)[i - 1] = [part |-> "head", frame |-> Tail(q)[i].frame]
    <3>1. i + 1 \in DOMAIN q /\ q[i + 1].part = "tail"
      BY <1>1, <1>2, <2>2
    <3>2. i \in DOMAIN q /\ q[i] = [part |-> "head", frame |-> q[i + 1].frame]
      <4>1. i = i + 1 - 1 /\ i + 1 \in Int /\ i \in Int
        BY <1>1, <1>2
      <4>2. QED
        BY <1>3, <3>1, <4>1
    <3>3. i # 1
      BY <1>1, <1>5, <3>2
    <3>4. i - 1 \in DOMAIN Tail(q) /\ i - 1 + 1 = i
      BY <1>1, <1>2, <3>3
    <3>5. QED
      BY <1>1, <1>2, <3>1, <3>2, <3>4
  <2>3. QED
    BY <2>1, <2>2 DEF Aligned
<1>6. ASSUME Head(q).part = "head"
      PROVE  /\ Tail(q) # <<>> /\ Head(Tail(q)) = [part |-> "tail", frame |-> Head(q).frame]
             /\ Aligned(Tail(Tail(q)))
  <2>1. 1 \in DOMAIN q /\ 1 \in Int /\ 2 \in Int /\ 2 = 1 + 1 /\ q[1].part = "head"
    BY <1>1, <1>6
  <2>2. 2 \in DOMAIN q /\ q[2] = [part |-> "tail", frame |-> q[1].frame]
    BY <1>3, <2>1
  <2>3. 1 \in DOMAIN Tail(q) /\ Tail(q)[1] = q[2]
    BY <1>1, <1>2, <2>2
  <2>4. Tail(q) # <<>> /\ Head(Tail(q)) = [part |-> "tail", frame |-> Head(q).frame]
    <3>1. Tail(q) # <<>>
      <4>1. DOMAIN <<>> = {}
        OBVIOUS
      <4>2. QED
        BY <2>3, <4>1
    <3>2. Head(Tail(q)) = Tail(q)[1]
      BY <1>2, <3>1
    <3>3. QED
      BY <1>1, <2>2, <2>3, <3>1, <3>2, Zenon
  <2> DEFINE r == Tail(Tail(q))
  <2>5. DOMAIN r = 1 .. Len(q) - 2 /\ \A i \in DOMAIN r : r[i] = q[i + 2]
    <3>1. Len(Tail(q)) = Len(q) - 1
      BY <1>1, <1>2
    <3>2. DOMAIN r = 1 .. Len(q) - 2 /\ \A i \in DOMAIN r : r[i] = Tail(q)[i + 1]
      BY <1>1, <1>2, <2>4, <3>1
    <3>3. QED
      BY <1>1, <1>2, <3>2
  <2>6. ASSUME NEW i \in DOMAIN r, r[i].part = "head"
        PROVE  i + 1 \in DOMAIN r /\ r[i + 1] = [part |-> "tail", frame |-> r[i].frame]
    <3> HIDE DEF r
    <3>1. i + 2 \in DOMAIN q /\ q[i + 2].part = "head"
      BY <1>1, <2>5, <2>6
    <3>2. i + 3 \in DOMAIN q /\ q[i + 3] = [part |-> "tail", frame |-> q[i + 2].frame]
      <4>1. i + 3 = i + 2 + 1 /\ i + 2 \in Int /\ i + 3 \in Int
        BY <1>1, <2>5
      <4>2. QED
        BY <1>3, <3>1, <4>1
    <3>3. QED
      BY <1>1, <2>5, <3>1, <3>2
  <2>7. ASSUME NEW i \in DOMAIN r, r[i].part = "tail"
        PROVE  i - 1 \in DOMAIN r /\ r[i - 1] = [part |-> "head", frame |-> r[i].frame]
    <3> HIDE DEF r
    <3>1. i + 2 \in DOMAIN q /\ q[i + 2].part = "tail"
      BY <1>1, <2>5, <2>7
    <3>2. i + 1 \in DOMAIN q /\ q[i + 1] = [part |-> "head", frame |-> q[i + 2].frame]
      <4> DEFINE a == i + 2
                 b == i + 1
      <4>1. b = a - 1 /\ a \in Int /\ b \in Int
        BY <1>1, <2>5
      <4>2. a \in DOMAIN q /\ q[a].part = "tail"
        BY <3>1
      <4>3. b \in DOMAIN q /\ q[b] = [part |-> "head", frame |-> q[a].frame]
        <5> HIDE DEF a, b
        <5> QED
          BY <1>3, <4>1, <4>2
      <4>4. QED
        BY <4>3
    <3>3. i # 1
      BY <1>1, <2>2, <3>2
    <3>4. i - 1 \in DOMAIN r /\ i - 1 + 2 = i + 1
      BY <1>1, <2>5, <3>3
    <3>5. QED
      BY <1>1, <2>5, <3>1, <3>2, <3>4
  <2>8. QED
    BY <2>4, <2>6, <2>7 DEF Aligned
<1>7. QED
  BY <1>4, <1>5, <1>6

(* While the bytes are together, extractCompleteFrames accepts each frame  *)
(* with its own bytes, at its last unit.                                   *)
LEMMA ExtractAligned ==
  ASSUME BytesOK, BytesAligned, Extract
  PROVE  /\ unread # <<>> /\ unread' = Tail(unread) /\ Head(unread) \in Units
         /\ \/ /\ Head(unread).part = "head"
               /\ receiveBuffer' = <<Head(unread)>> /\ UNCHANGED <<fragmentMap, completeFrames>>
            \/ /\ Head(unread).part # "head"
               /\ receiveBuffer' = <<>> /\ AcceptWhole(Head(unread).frame, TRUE)
         /\ Aligned(receiveBuffer' \o unread')
<1> DEFINE unit == Head(unread)
           rest == Append(receiveBuffer, unit)
           heads == {i \in DOMAIN rest : rest[i].part = "head"}
           start == CHOOSE i \in heads : \A j \in heads : i <= j
           Intact == start + 1 = Len(rest) /\ unit = [part |-> "tail", frame |-> rest[start].frame]
<1>1. unread # <<>> /\ unread' = Tail(unread) /\ unit \in Units /\ unread \in Seq(Units) /\ Tail(unread) \in Seq(Units)
  <2>1. unread # <<>> /\ unread' = Tail(unread)
    BY Zenon DEF Extract
  <2>2. QED
    BY <2>1 DEF BytesOK
<1>2. IF heads = {} /\ unit.part = "all"
      THEN receiveBuffer' = <<>> /\ AcceptWhole(unit.frame, TRUE)
      ELSE IF heads # {} /\ start < Len(rest) /\ unit.part # "all"
      THEN receiveBuffer' = <<>> /\ AcceptWhole(rest[start].frame, Intact)
      ELSE receiveBuffer' = rest /\ UNCHANGED <<fragmentMap, completeFrames>>
  BY Zenon DEF Extract
<1>3. unit.part \in {"head", "tail", "all"}
  BY <1>1 DEF Units
<1>4. \A q \in Seq(Units) : <<>> \o q = q
  BY ConcatEmptySeq
<1>5. CASE receiveBuffer = <<>>
  <2>1. Aligned(unread)
    BY <1>1, <1>4, <1>5 DEF BytesAligned
  <2>2. /\ unit.part # "tail"
        /\ unit.part = "all" => Aligned(Tail(unread))
    BY <1>1, <2>1, AlignedRest
  <2>3. Len(rest) = 1 /\ DOMAIN rest = {1} /\ rest[1] = unit /\ rest = <<unit>>
    BY <1>5
  <2>4. CASE unit.part = "all"
    <3>1. heads = {}
      BY <2>3, <2>4
    <3>2. receiveBuffer' = <<>> /\ AcceptWhole(unit.frame, TRUE)
      BY <1>2, <2>4, <3>1, Zenon
    <3>3. Aligned(receiveBuffer' \o unread')
      BY <1>1, <1>4, <2>2, <2>4, <3>2
    <3>4. QED
      BY <1>1, <2>4, <3>2, <3>3
  <2>5. CASE unit.part = "head"
    <3>1. heads = {1}
      BY <2>3, <2>5
    <3>2. start = 1
      <4> HIDE DEF heads
      <4> QED
        BY <3>1
    <3>3. ~(start < Len(rest))
      <4> HIDE DEF start, rest
      <4> QED
        BY <2>3, <3>2
    <3>4. ~(unit.part = "all")
      BY <2>5
    <3>5. receiveBuffer' = rest /\ UNCHANGED <<fragmentMap, completeFrames>>
      BY <1>2, <3>3, <3>4, Zenon
    <3>6. <<unit>> \o Tail(unread) = unread
      BY <1>1
    <3>7. Aligned(receiveBuffer' \o unread')
      BY <1>1, <2>1, <2>3, <3>5, <3>6
    <3>8. QED
      BY <1>1, <2>3, <2>5, <3>5, <3>7
  <2>6. QED
    BY <1>3, <2>2, <2>4, <2>5
<1>6. CASE receiveBuffer # <<>>
  <2> DEFINE h == receiveBuffer[1]
  <2>1. h \in Units /\ h.part = "head" /\ receiveBuffer = <<h>>
    BY <1>6 DEF BytesAligned, BytesOK
  <2> HIDE DEF h
  <2>2. /\ <<h>> \o unread \in Seq(Units) /\ <<h>> \o unread # <<>>
        /\ Head(<<h>> \o unread) = h /\ Tail(<<h>> \o unread) = unread
    BY <1>1, <2>1
  <2>3. Aligned(<<h>> \o unread)
    BY <2>1 DEF BytesAligned
  <2>4. unit = [part |-> "tail", frame |-> h.frame] /\ Aligned(Tail(unread))
    BY <2>1, <2>2, <2>3, AlignedRest
  <2>5. Len(rest) = 2 /\ DOMAIN rest = {1, 2} /\ rest[1] = h /\ rest[2] = unit
    BY <2>1
  <2>6. unit.part = "tail" /\ unit.frame = h.frame
    BY <2>4
  <2>7. heads = {1}
    BY <2>1, <2>5, <2>6
  <2>8. start = 1
    <3> HIDE DEF heads
    <3> QED
      BY <2>7
  <2>9. start < Len(rest) /\ heads # {} /\ unit.part # "all"
    <3> HIDE DEF start, rest, heads
    <3> QED
      BY <2>5, <2>6, <2>7, <2>8
  <2>10. start + 1 = Len(rest) /\ rest[start].frame = h.frame
    <3> HIDE DEF start, rest
    <3> QED
      BY <2>5, <2>8
  <2>11. Intact = TRUE
    <3>1. unit = [part |-> "tail", frame |-> rest[start].frame]
      BY <2>4, <2>10, Zenon
    <3>2. QED
      BY <2>10, <3>1, Zenon
  <2>12. receiveBuffer' = <<>> /\ AcceptWhole(rest[start].frame, Intact)
    BY <1>2, <2>9, Zenon
  <2>13. AcceptWhole(unit.frame, TRUE)
    BY <2>6, <2>10, <2>11, <2>12, Zenon
  <2>14. Aligned(receiveBuffer' \o unread')
    BY <1>1, <1>4, <2>4, <2>12
  <2>15. QED
    BY <1>1, <2>6, <2>12, <2>13, <2>14
<1>7. QED
  BY <1>5, <1>6

LEMMA ReceptionFits ==
  ASSUME BytesOK, RadioReceive, ~Spoiled'
  PROVE  Len(chip) <= MailboxSize
<1>1. Len(chip) > MailboxSize => chip # <<>>
  BY MailboxAssumption
<1>2. ASSUME Len(chip) > MailboxSize PROVE [what |-> "cut", msg |-> 0] \in troubles'
  BY <1>1, <1>2 DEF RadioReceive
<1>3. ASSUME Len(chip) > MailboxSize PROVE FALSE
  BY <1>2, <1>3 DEF Spoiled, Lost
<1>4. Len(chip) \in Nat
  BY DEF BytesOK
<1>5. QED
  BY <1>3, <1>4, MailboxAssumption

LEMMA BytesAlignedStep ==
  ASSUME EnvironmentOK, BytesOK, MailboxInv, BytesAligned, [Next]_vars, ~Spoiled'
  PROVE  BytesAligned'
<1>1. Aligned(<<>>)
  BY DEF Aligned
<1>2. \A q \in Seq(Units) : <<>> \o q = q /\ q \o <<>> = q
  BY ConcatEmptySeq
<1>3. Received \in Seq(Units) /\ chip \in Seq(Units) /\ unread \in Seq(Units) /\ receiveBuffer \in Seq(Units)
  BY StreamIsOfUnits DEF BytesOK
<1>4. CASE UNCHANGED <<chip, rxMailbox, rxReady, receiveBuffer, unread>>
  BY <1>4 DEF BytesAligned, Received
<1>5. ASSUME NEW f \in Frames, chip' = chip \o UnitsOf(f), UNCHANGED <<rxMailbox, rxReady, receiveBuffer, unread>>
      PROVE  BytesAligned'
  <2>1. Aligned(chip')
    BY <1>3, <1>5, AlignedGrows DEF BytesAligned
  <2>2. QED
    BY <1>5, <2>1 DEF BytesAligned, Received
<1>6. CASE FragmentArrives
  <2>1. Head(sending) \in Frames /\ chip' = chip \o UnitsOf(Head(sending))
    BY <1>6 DEF FragmentArrives, EnvironmentOK
  <2>2. UNCHANGED <<rxMailbox, rxReady, receiveBuffer, unread>>
    BY <1>6 DEF FragmentArrives, mail, processorVars
  <2>3. QED
    BY <1>5, <2>1, <2>2
<1>7. CASE OtherSlaveSends
  <2>1. PICK seq \in 0 .. 1 : chip' = chip \o UnitsOf(Fragment(SLAVE_TO_MASTER, 0, seq, seq = 1, FALSE))
    BY <1>7 DEF OtherSlaveSends
  <2> DEFINE f == Fragment(SLAVE_TO_MASTER, 0, seq, seq = 1, FALSE)
  <2>2. f \in Frames
    BY OthersFrame, Zenon
  <2>3. chip' = chip \o UnitsOf(f)
    BY <2>1, Zenon
  <2>4. UNCHANGED <<rxMailbox, rxReady, receiveBuffer, unread>>
    BY <1>7 DEF OtherSlaveSends, mail, processorVars
  <2> HIDE DEF f
  <2>5. QED
    BY <1>5, <2>2, <2>3, <2>4
<1>8. CASE RadioReceive
  <2>1. Len(chip) <= MailboxSize
    BY <1>8, ReceptionFits
  <2>2. \/ Received' = chip /\ chip' = <<>>
        \/ UNCHANGED <<Received, chip>>
    BY <1>8, <2>1, StreamPassedOn
  <2>3. UNCHANGED <<receiveBuffer, unread>>
    BY <1>8 DEF RadioReceive, processorVars
  <2>4. QED
    BY <1>1, <2>2, <2>3 DEF BytesAligned
<1>9. CASE HandlerReceives
  <2>1. /\ unread = <<>> /\ unread' = Received /\ Received' = <<>>
        /\ UNCHANGED chip /\ receiveBuffer' \in {receiveBuffer, <<>>}
    BY <1>9, StreamTakenOut
  <2>2. Aligned(receiveBuffer)
    BY <1>2, <1>3, <2>1 DEF BytesAligned
  <2>3. receiveBuffer = <<>>
    <3>1. ASSUME Len(receiveBuffer) = 1, receiveBuffer[1].part = "head"
          PROVE  FALSE
      <4>1. 1 \in DOMAIN receiveBuffer /\ 1 \in Int /\ 2 \in Int /\ 2 = 1 + 1 /\ ~(2 \in DOMAIN receiveBuffer)
        BY <1>3, <3>1
      <4>2. receiveBuffer[1].part = "head" => 2 \in DOMAIN receiveBuffer
        BY <1>3, <2>2, <4>1, AlignedAt
      <4>3. QED
        BY <3>1, <4>1, <4>2
    <3>2. QED
      BY <3>1 DEF BytesAligned
  <2>4. receiveBuffer' = <<>> /\ receiveBuffer' \o unread' = Received
    BY <1>2, <1>3, <2>1, <2>3
  <2>5. QED
    BY <1>1, <2>1, <2>4 DEF BytesAligned
<1>10. CASE HandlerExtracts
  <2>1. Extract /\ UNCHANGED <<chip, rxMailbox, rxReady>>
    BY <1>10 DEF HandlerExtracts, mail
  <2>2. \/ Head(unread).part = "head" /\ receiveBuffer' = <<Head(unread)>>
        \/ receiveBuffer' = <<>>
    BY <2>1, ExtractAligned
  <2>3. Aligned(receiveBuffer' \o unread')
    BY <2>1, ExtractAligned
  <2>4. receiveBuffer' = <<>> \/ (Len(receiveBuffer') = 1 /\ receiveBuffer'[1].part = "head")
    BY <2>2
  <2>5. Received' = Received
    BY <2>1 DEF Received
  <2>6. QED
    BY <2>1, <2>3, <2>4, <2>5 DEF BytesAligned
<1>11. CASE \/ MasterBegins \/ FragmentLost \/ TouchButton \/ CollectionSends \/ Tick \/ AccessoryStep
            \/ RadioTransmit \/ UNCHANGED vars
  BY <1>4, <1>11 DEF MasterBegins, FragmentLost, TouchButton, CollectionSends, Tick, AccessoryStep,
       RadioTransmit, vars, mail, processorVars
<1>12. CASE HandlerFindsNothing \/ HandlerDone \/ HandlerIgnores \/ HandlerAnswers \/ HandlerSync \/ HandlerResets
  BY <1>4, <1>12 DEF HandlerFindsNothing, HandlerDone, HandlerIgnores, HandlerAnswers, HandlerSync, HandlerResets,
       Taken, NextCompleteFrame, mail, processorVars
<1>13. QED
  BY <1>6, <1>7, <1>8, <1>9, <1>10, <1>11, <1>12 DEF Next, HandlerPolls, HandlerProcesses, RadioStep

-----------------------------------------------------------------------------
(* The flow of the master's frames.                                        *)
LEMMA FrameOfMessage ==
  ASSUME EnvironmentOK, NEW f \in Frames, f.packet = MASTER_TO_SLAVE
  PROVE  /\ f.msg \in DOMAIN messages /\ f.msg \in Nat /\ f.msg <= Len(messages)
         /\ f.seq \in Nat /\ messages[f.msg].n \in Nat /\ f.seq < messages[f.msg].n
         /\ f.last \in BOOLEAN /\ (f.last <=> f.seq + 1 = messages[f.msg].n)
         /\ f.tiny => f.last
<1>1. f.msg \in DOMAIN messages /\ f.seq \in Nat /\ f.seq < messages[f.msg].n /\ f.last \in BOOLEAN
      /\ (f.tiny => f.last)
  BY DEF Frames
<1>2. f.last <=> f.seq + 1 = messages[f.msg].n
  BY DEF Frames
<1>3. messages \in Seq(MessageKind) /\ messages[f.msg] \in MessageKind
  BY <1>1 DEF EnvironmentOK
<1>4. QED
  BY <1>1, <1>2, <1>3 DEF MessageKind

LEMMA FlowSame ==
  ASSUME FlowInv, UNCHANGED <<Stream, sending, messages, Kept, completeFrames, handled>>
  PROVE  FlowInv'
<1> USE DEF FlowInv
<1>1. SendingRest'
  BY DEF SendingRest
<1>2. InOrderSent'
  BY DEF InOrderSent, Completes, Earlier
<1>3. NoneMissing'
  BY DEF NoneMissing
<1>4. PartsRight'
  BY DEF PartsRight, Completes
<1>5. FramesRight'
  BY DEF FramesRight
<1>6. QED
  BY <1>1, <1>2, <1>3, <1>4, <1>5

LEMMA GrownStream ==
  ASSUME BytesOK, NEW f \in Frames, Stream' = Stream \o UnitsOf(f)
  PROVE  /\ Len(Stream) \in Nat /\ DOMAIN Stream = 1 .. Len(Stream)
         /\ Len(Stream') \in Nat /\ DOMAIN Stream' = 1 .. Len(Stream') /\ Len(Stream) < Len(Stream')
         /\ \A i \in DOMAIN Stream : i \in DOMAIN Stream' /\ Stream'[i] = Stream[i]
         /\ \A i \in DOMAIN Stream' : i \in DOMAIN Stream \/ i = Len(Stream') \/ ~Completes(Stream'[i])
         /\ Stream'[Len(Stream')].frame = f
         /\ Completes(Stream'[Len(Stream')]) <=> f.packet = MASTER_TO_SLAVE
<1> DEFINE h == [part |-> "head", frame |-> f]
           t == [part |-> "tail", frame |-> f]
           a == [part |-> "all", frame |-> f]
<1>1. /\ ~Completes(h) /\ t.frame = f /\ a.frame = f
      /\ Completes(t) <=> f.packet = MASTER_TO_SLAVE
      /\ Completes(a) <=> f.packet = MASTER_TO_SLAVE
  BY DEF Completes
<1>2. Stream \in Seq(Units)
  BY StreamIsOfUnits
<1>3. Stream' = Stream \o <<h, t>> \/ Stream' = Stream \o <<a>>
  BY DEF UnitsOf
<1> HIDE DEF h, t, a
<1>4. CASE Stream' = Stream \o <<h, t>>
  <2>1. /\ Len(Stream) \in Nat /\ DOMAIN Stream = 1 .. Len(Stream)
        /\ Len(Stream') = Len(Stream) + 2 /\ DOMAIN Stream' = 1 .. Len(Stream')
        /\ \A i \in DOMAIN Stream : Stream'[i] = Stream[i]
        /\ Stream'[Len(Stream) + 1] = h /\ Stream'[Len(Stream) + 2] = t
    BY <1>2, <1>4
  <2>2. QED
    BY <1>1, <2>1
<1>5. CASE Stream' = Stream \o <<a>>
  <2>1. /\ Len(Stream) \in Nat /\ DOMAIN Stream = 1 .. Len(Stream)
        /\ Len(Stream') = Len(Stream) + 1 /\ DOMAIN Stream' = 1 .. Len(Stream')
        /\ \A i \in DOMAIN Stream : Stream'[i] = Stream[i]
        /\ Stream'[Len(Stream) + 1] = a
    BY <1>2, <1>5
  <2>2. QED
    BY <1>1, <2>1
<1>6. QED
  BY <1>3, <1>4, <1>5

\* Other slaves' frames do not matter.
LEMMA FlowOthers ==
  ASSUME BytesOK, FlowInv, NEW f \in Frames, f.packet # MASTER_TO_SLAVE, Stream' = Stream \o UnitsOf(f),
         UNCHANGED <<sending, messages, Kept, completeFrames, handled>>
  PROVE  FlowInv'
<1> USE DEF FlowInv
<1>1. /\ Len(Stream) \in Nat /\ DOMAIN Stream = 1 .. Len(Stream)
      /\ Len(Stream') \in Nat /\ DOMAIN Stream' = 1 .. Len(Stream') /\ Len(Stream) < Len(Stream')
      /\ \A i \in DOMAIN Stream : i \in DOMAIN Stream' /\ Stream'[i] = Stream[i]
      /\ \A i \in DOMAIN Stream' : Completes(Stream'[i]) => i \in DOMAIN Stream
  BY GrownStream
<1>2. SendingRest'
  BY DEF SendingRest
<1>3. InOrderSent'
  <2>1. ASSUME NEW i \in DOMAIN Stream', NEW j \in DOMAIN Stream', i < j, Completes(Stream'[i]), Completes(Stream'[j])
        PROVE  Earlier(Stream'[i].frame, Stream'[j].frame)
    <3>1. i \in DOMAIN Stream /\ j \in DOMAIN Stream /\ Stream'[i] = Stream[i] /\ Stream'[j] = Stream[j]
      BY <1>1, <2>1
    <3>2. QED
      BY <2>1, <3>1 DEF InOrderSent
  <2>2. ASSUME NEW i \in DOMAIN Stream', NEW k \in DOMAIN sending, Completes(Stream'[i])
        PROVE  Earlier(Stream'[i].frame, sending[k])
    <3>1. i \in DOMAIN Stream /\ Stream'[i] = Stream[i]
      BY <1>1, <2>2
    <3>2. QED
      BY <2>2, <3>1 DEF InOrderSent
  <2>3. QED
    BY <2>1, <2>2 DEF InOrderSent
<1>4. ASSUME NEW m, NEW s, NEW i \in 1 .. Len(Stream) + 1, Before(Stream, Kept, m, s, i),
             NEW k \in Nat, i <= k
      PROVE  Before(Stream', Kept', m, s, k)
  <2>1. CASE s \in DOMAIN Kept.parts /\ Kept.parts[s].msg = m
    BY <2>1 DEF Before
  <2>2. CASE \E j \in 1 .. i - 1 : Completes(Stream[j]) /\ Stream[j].frame.msg = m /\ Stream[j].frame.seq = s
    <3>1. PICK j \in 1 .. i - 1 : Completes(Stream[j]) /\ Stream[j].frame.msg = m /\ Stream[j].frame.seq = s
      BY <2>2
    <3>2. j \in DOMAIN Stream /\ j \in 1 .. k - 1
      BY <1>1, <1>4
    <3>3. QED
      BY <1>1, <3>1, <3>2 DEF Before
  <2>3. QED
    BY <1>4, <2>1, <2>2 DEF Before
<1>5. NoneMissing'
  <2>1. ASSUME NEW i \in DOMAIN Stream', Completes(Stream'[i]), NEW s \in 0 .. Stream'[i].frame.seq - 1
        PROVE  Before(Stream', Kept', Stream'[i].frame.msg, s, i)
    <3>1. i \in DOMAIN Stream /\ Stream'[i] = Stream[i]
      BY <1>1, <2>1
    <3>2. Before(Stream, Kept, Stream[i].frame.msg, s, i)
      BY <2>1, <3>1 DEF NoneMissing
    <3>3. i \in 1 .. Len(Stream) + 1 /\ i \in Nat
      BY <1>1, <3>1
    <3>4. QED
      BY <1>4, <3>1, <3>2, <3>3
  <2>2. ASSUME sending' # <<>>, NEW s \in 0 .. sending'[1].seq - 1
        PROVE  Before(Stream', Kept', sending'[1].msg, s, Len(Stream') + 1)
    <3>1. Before(Stream, Kept, sending[1].msg, s, Len(Stream) + 1)
      BY <2>2 DEF NoneMissing
    <3>2. Len(Stream) + 1 \in 1 .. Len(Stream) + 1 /\ Len(Stream') + 1 \in Nat /\ Len(Stream) + 1 <= Len(Stream') + 1
      BY <1>1
    <3>3. QED
      BY <1>4, <3>1, <3>2
  <2>3. QED
    BY <2>1, <2>2 DEF NoneMissing
<1>6. PartsRight'
  BY <1>1 DEF PartsRight
<1>7. FramesRight'
  <2>1. ASSUME NEW m, Past(Stream, sending, m) PROVE Past(Stream', sending', m)
    BY <1>1, <2>1 DEF Past
  <2>2. QED
    BY <2>1 DEF FramesRight
<1>8. QED
  BY <1>2, <1>3, <1>5, <1>6, <1>7

LEMMA FrameInStream ==
  ASSUME EnvironmentOK, BytesOK, NEW i \in DOMAIN Stream
  PROVE  /\ Stream[i] \in Units /\ Stream[i].frame \in Frames
         /\ Completes(Stream[i]) => Stream[i].frame.packet = MASTER_TO_SLAVE
         /\ Completes(Stream[i]) => Stream[i].frame.msg \in Nat /\ Stream[i].frame.msg <= Len(messages)
<1>1. Stream[i] \in Units
  BY StreamIsOfUnits
<1>2. Stream[i].frame \in Frames
  BY <1>1 DEF Units
<1>3. Completes(Stream[i]) => Stream[i].frame.packet = MASTER_TO_SLAVE
  BY DEF Completes
<1>4. QED
  BY <1>1, <1>2, <1>3, FrameOfMessage

\* The next message is younger than whatever has been sent.
LEMMA FlowBegins ==
  ASSUME EnvironmentOK, BytesOK, FragmentsOK, FramesOK, FlowInv, MasterBegins
  PROVE  FlowInv'
<1> USE DEF FlowInv
<1>1. PICK k \in traffic.kinds : /\ messages' = Append(messages, k)
                                 /\ sending' = FragmentsOf(Len(messages) + 1, k)
  BY DEF MasterBegins
<1>2. k \in MessageKind /\ messages \in Seq(MessageKind) /\ k.n \in Nat /\ k.n > 0 /\ Len(messages) \in Nat
  BY DEF EnvironmentOK, TrafficOK, MessageKind
<1>3. sending = <<>> /\ UNCHANGED <<Stream, Kept, completeFrames, handled>>
  BY DEF MasterBegins, ghosts, processorVars, mail, Stream, Received, Kept
<1>4. Len(messages') = Len(messages) + 1 /\ messages'[Len(messages')] = k
      /\ \A m \in DOMAIN messages : m \in Nat /\ m <= Len(messages) /\ messages'[m] = messages[m]
  BY <1>1, <1>2
<1>5. /\ DOMAIN sending' = 1 .. k.n /\ Len(sending') = k.n
      /\ \A i \in 1 .. k.n : sending'[i].msg = Len(messages) + 1 /\ sending'[i].seq = i - 1
  BY <1>1, <1>2 DEF FragmentsOf, Fragment
<1>6. SendingRest'
  BY <1>2, <1>4, <1>5 DEF SendingRest
<1>7. InOrderSent'
  <2>1. ASSUME NEW i \in DOMAIN Stream, NEW j \in DOMAIN sending', Completes(Stream[i])
        PROVE  Earlier(Stream[i].frame, sending'[j])
    <3>1. Stream[i].frame.msg \in Nat /\ Stream[i].frame.msg <= Len(messages)
      BY <2>1, FrameInStream
    <3>2. QED
      BY <1>2, <1>5, <3>1 DEF Earlier
  <2>2. QED
    BY <1>3, <2>1 DEF InOrderSent
<1>8. NoneMissing'
  <2>1. sending'[1].seq = 0
    BY <1>2, <1>5
  <2>2. QED
    BY <1>3, <2>1 DEF NoneMissing
<1>9. PartsRight'
  BY <1>3 DEF PartsRight
<1>10. FramesRight'
  <2>1. ASSUME NEW m \in DOMAIN messages, Past(Stream, sending, m)
        PROVE  Past(Stream, sending', m)
    BY <1>2, <1>4, <1>5, <2>1 DEF Past
  <2>2. ASSUME NEW p, p[1].msg \in DOMAIN messages, IsWhole(messages, p)
        PROVE  IsWhole(messages', p)
    BY <1>4, <2>2 DEF IsWhole
  <2>3. ASSUME NEW i \in DOMAIN completeFrames, completeFrames[i].packet = MASTER_TO_SLAVE
        PROVE  completeFrames[i].parts[1].msg \in DOMAIN messages
    BY <2>3 DEF FramesOK, OfMessage
  <2>4. ASSUME NEW i \in DOMAIN handled
        PROVE  handled[i][1].msg \in DOMAIN messages
    BY DEF FramesOK
  <2>5. QED
    BY <1>3, <2>1, <2>2, <2>3, <2>4 DEF FramesRight
<1>11. QED
  BY <1>6, <1>7, <1>8, <1>9, <1>10

\* A fragment that is lost, if not inside a message, was its last.
LEMMA FlowLost ==
  ASSUME EnvironmentOK, FlowInv, FragmentLost, ~Spoiled'
  PROVE  FlowInv'
<1> USE DEF FlowInv
<1> DEFINE f == Head(sending)
<1>1. /\ sending # <<>> /\ sending' = Tail(sending)
      /\ UNCHANGED <<messages, Stream, Kept, completeFrames, handled>>
  BY DEF FragmentLost, mail, processorVars, Stream, Received, Kept
<1>2. f.last
  <2>1. ASSUME ~f.last PROVE FALSE
    <3>1. [what |-> "inside", msg |-> f.msg] \in troubles'
      BY <2>1 DEF FragmentLost
    <3>2. QED
      BY <3>1 DEF Spoiled, Lost
  <2>2. QED
    BY <2>1
<1>3. f \in Frames /\ f.packet = MASTER_TO_SLAVE /\ Len(sending) \in Nat /\ 1 \in DOMAIN sending /\ f = sending[1]
  BY <1>1 DEF EnvironmentOK
<1>4. /\ f.seq + 1 = messages[f.msg].n /\ messages[f.msg].n \in Nat /\ f.seq \in Nat
  BY <1>2, <1>3, FrameOfMessage
<1>5. f.msg = Len(messages) /\ f.seq = messages[Len(messages)].n - Len(sending) + 1 - 1
  BY <1>3 DEF SendingRest
<1>6. Len(sending) = 1
  <2> DEFINE n == messages[Len(messages)].n
             l == Len(sending)
  <2>1. n \in Nat /\ f.seq + 1 = n /\ f.seq \in Nat
    BY <1>4, <1>5
  <2>2. f.seq = n - l + 1 - 1
    BY <1>5
  <2>3. l \in Nat
    BY <1>3
  <2> HIDE DEF f, n, l
  <2>4. l = 1
    BY <2>1, <2>2, <2>3
  <2>5. QED
    BY <2>4 DEF l
<1>7. sending' = <<>>
  BY <1>1, <1>6 DEF EnvironmentOK
<1>8. SendingRest' /\ InOrderSent' /\ NoneMissing'
  BY <1>1, <1>7 DEF SendingRest, InOrderSent, NoneMissing
<1>9. PartsRight'
  BY <1>1 DEF PartsRight
<1>10. FramesRight'
  <2>1. ASSUME NEW m, Past(Stream, sending, m) PROVE Past(Stream, sending', m)
    BY <1>7, <2>1 DEF Past
  <2>2. QED
    BY <1>1, <2>1 DEF FramesRight
<1>11. QED
  BY <1>8, <1>9, <1>10

\* A fragment that arrives is the next of its message.
LEMMA FlowArrives ==
  ASSUME EnvironmentOK, BytesOK, FragmentsOK, FlowInv, FragmentArrives
  PROVE  FlowInv'
<1> USE DEF FlowInv
<1> DEFINE f == sending[1]
           n == messages[Len(messages)].n
           L == Len(sending)
<1>1. /\ sending # <<>> /\ sending' = Tail(sending) /\ f = Head(sending)
      /\ sending \in Seq({x \in Frames : x.packet = MASTER_TO_SLAVE})
      /\ UNCHANGED <<messages, Kept, completeFrames, handled>>
  BY DEF FragmentArrives, ghosts, processorVars, Kept, EnvironmentOK
<1>2. /\ L \in Nat /\ L > 0 /\ DOMAIN sending = 1 .. L
      /\ f \in Frames /\ f.packet = MASTER_TO_SLAVE
  BY <1>1, EmptySeq
<1>3. /\ Len(sending') = L - 1 /\ DOMAIN sending' = 1 .. L - 1
      /\ \A k \in 1 .. L - 1 : sending'[k] = sending[k + 1]
  BY <1>1, <1>2
<1>4. Stream' = Stream \o UnitsOf(f)
  <2>1. chip' = chip \o UnitsOf(f) /\ UNCHANGED <<rxMailbox, rxReady, unread>>
    BY <1>1 DEF FragmentArrives, mail, processorVars
  <2> HIDE DEF f
  <2>2. QED
    BY <1>2, <2>1, StreamGrows
<1>5. f.msg = Len(messages) /\ f.seq = n - L /\ n \in Nat /\ f.msg \in Nat /\ f.seq \in Nat
  <2>1. f.msg = Len(messages) /\ f.seq = n - L + 1 - 1
    BY <1>2 DEF SendingRest
  <2>2. n \in Nat /\ f.msg \in Nat /\ f.seq \in Nat
    BY <1>2, <2>1, FrameOfMessage
  <2> HIDE DEF n, L
  <2>3. QED
    BY <1>2, <2>1, <2>2
<1>6. ASSUME NEW k \in 1 .. L - 1
      PROVE  sending'[k].msg = f.msg /\ sending'[k].seq = f.seq + k
  <2>1. k + 1 \in DOMAIN sending /\ sending'[k] = sending[k + 1]
    BY <1>2, <1>3
  <2>2. sending[k + 1].msg = Len(messages) /\ sending[k + 1].seq = n - L + (k + 1) - 1
    BY <2>1 DEF SendingRest
  <2> HIDE DEF n, L, f
  <2>3. QED
    BY <1>2, <1>5, <2>1, <2>2
<1> HIDE DEF f, L
<1>7. SendingRest'
  <2>1. ASSUME NEW k \in DOMAIN sending'
        PROVE  /\ sending'[k].msg = Len(messages)
               /\ sending'[k].seq = n - Len(sending') + k - 1
    <3> HIDE DEF n
    <3> QED
      BY <1>2, <1>3, <1>5, <1>6
  <2>2. QED
    BY <1>1, <2>1 DEF SendingRest
<1> HIDE DEF n
<1>8. /\ Len(Stream) \in Nat /\ DOMAIN Stream = 1 .. Len(Stream)
      /\ Len(Stream') \in Nat /\ DOMAIN Stream' = 1 .. Len(Stream') /\ Len(Stream) < Len(Stream')
      /\ \A i \in DOMAIN Stream : i \in DOMAIN Stream' /\ Stream'[i] = Stream[i]
      /\ \A i \in DOMAIN Stream' : i \in DOMAIN Stream \/ i = Len(Stream') \/ ~Completes(Stream'[i])
      /\ Stream'[Len(Stream')].frame = f /\ Completes(Stream'[Len(Stream')])
  BY <1>2, <1>4, GrownStream
<1>9. InOrderSent'
  <2>1. ASSUME NEW i \in DOMAIN Stream', NEW j \in DOMAIN Stream', i < j, Completes(Stream'[i]), Completes(Stream'[j])
        PROVE  Earlier(Stream'[i].frame, Stream'[j].frame)
    <3>1. i \in DOMAIN Stream /\ Stream'[i] = Stream[i]
      BY <1>8, <2>1
    <3>2. CASE j \in DOMAIN Stream
      BY <1>8, <2>1, <3>1, <3>2 DEF InOrderSent
    <3>3. CASE j = Len(Stream')
      <4>1. Earlier(Stream[i].frame, f)
        BY <1>2, <2>1, <3>1 DEF InOrderSent, f
      <4>2. QED
        BY <1>8, <3>1, <3>3, <4>1
    <3>4. QED
      BY <1>8, <2>1, <3>2, <3>3
  <2>2. ASSUME NEW i \in DOMAIN Stream', NEW k \in DOMAIN sending', Completes(Stream'[i])
        PROVE  Earlier(Stream'[i].frame, sending'[k])
    <3>1. CASE i \in DOMAIN Stream
      <4>1. Stream'[i] = Stream[i] /\ k + 1 \in DOMAIN sending /\ sending'[k] = sending[k + 1]
        BY <1>2, <1>3, <1>8, <3>1
      <4>2. Earlier(Stream[i].frame, sending[k + 1])
        BY <2>2, <3>1, <4>1 DEF InOrderSent
      <4>3. QED
        BY <4>1, <4>2
    <3>2. CASE i = Len(Stream')
      <4>1. Stream'[i].frame = f
        BY <1>8, <3>2
      <4>2. sending'[k].msg = f.msg /\ sending'[k].seq = f.seq + k /\ k \in Nat /\ k > 0
        BY <1>2, <1>3, <1>6
      <4>3. QED
        BY <1>5, <4>1, <4>2 DEF Earlier
    <3>3. QED
      BY <1>8, <2>2, <3>1, <3>2
  <2>3. QED
    BY <2>1, <2>2 DEF InOrderSent
<1>10. ASSUME NEW m, NEW s, NEW i \in 1 .. Len(Stream) + 1, Before(Stream, Kept, m, s, i),
              NEW k \in Nat, i <= k
       PROVE  Before(Stream', Kept', m, s, k)
  <2>1. CASE s \in DOMAIN Kept.parts /\ Kept.parts[s].msg = m
    BY <1>1, <2>1 DEF Before
  <2>2. CASE \E j \in 1 .. i - 1 : Completes(Stream[j]) /\ Stream[j].frame.msg = m /\ Stream[j].frame.seq = s
    <3>1. PICK j \in 1 .. i - 1 : Completes(Stream[j]) /\ Stream[j].frame.msg = m /\ Stream[j].frame.seq = s
      BY <2>2
    <3>2. j \in DOMAIN Stream /\ j \in 1 .. k - 1
      BY <1>8, <1>10
    <3>3. QED
      BY <1>8, <3>1, <3>2 DEF Before
  <2>3. QED
    BY <1>10, <2>1, <2>2 DEF Before
<1>11. NoneMissing'
  <2>1. ASSUME NEW i \in Nat, Len(Stream) + 1 <= i, NEW s \in 0 .. f.seq - 1
        PROVE  Before(Stream', Kept', f.msg, s, i)
    <3>1. Before(Stream, Kept, f.msg, s, Len(Stream) + 1)
      BY <1>1 DEF NoneMissing, f
    <3>2. Len(Stream) + 1 \in 1 .. Len(Stream) + 1
      BY <1>8
    <3>3. QED
      BY <1>10, <2>1, <3>1, <3>2
  <2>2. ASSUME NEW i \in DOMAIN Stream', Completes(Stream'[i]), NEW s \in 0 .. Stream'[i].frame.seq - 1
        PROVE  Before(Stream', Kept', Stream'[i].frame.msg, s, i)
    <3>1. CASE i \in DOMAIN Stream
      <4>1. Stream'[i] = Stream[i]
        BY <1>8, <3>1
      <4>2. Before(Stream, Kept, Stream[i].frame.msg, s, i)
        BY <2>2, <3>1, <4>1 DEF NoneMissing
      <4>3. i \in 1 .. Len(Stream) + 1 /\ i \in Nat
        BY <1>8, <3>1
      <4>4. QED
        BY <1>10, <4>1, <4>2, <4>3
    <3>2. CASE i = Len(Stream')
      <4>1. Stream'[i].frame = f /\ i \in Nat /\ Len(Stream) + 1 <= i
        BY <1>8, <3>2
      <4>2. QED
        BY <2>1, <4>1
    <3>3. QED
      BY <1>8, <2>2, <3>1, <3>2
  <2>3. ASSUME sending' # <<>>, NEW s \in 0 .. sending'[1].seq - 1
        PROVE  Before(Stream', Kept', sending'[1].msg, s, Len(Stream') + 1)
    <3>1. 1 \in 1 .. L - 1
      <4>1. sending' \in Seq({x \in Frames : x.packet = MASTER_TO_SLAVE})
        BY <1>1
      <4>2. Len(sending') # 0
        BY <2>3, <4>1
      <4>3. QED
        BY <1>2, <1>3, <4>2
    <3>2. sending'[1].msg = f.msg /\ sending'[1].seq = f.seq + 1
      BY <1>6, <3>1
    <3>3. s \in 0 .. f.seq
      BY <1>5, <3>2
    <3>4. CASE s = f.seq
      <4>1. Len(Stream') \in 1 .. Len(Stream') + 1 - 1
        BY <1>8
      <4>2. QED
        BY <1>8, <3>2, <3>4, <4>1 DEF Before
    <3>5. CASE s # f.seq
      <4>1. s \in 0 .. f.seq - 1 /\ Len(Stream') + 1 \in Nat /\ Len(Stream) + 1 <= Len(Stream') + 1
        BY <1>5, <1>8, <3>3, <3>5
      <4>2. QED
        BY <2>1, <3>2, <4>1
    <3>6. QED
      BY <3>4, <3>5
  <2>4. QED
    BY <2>2, <2>3 DEF NoneMissing
<1>12. PartsRight'
  <2>1. ASSUME NEW s \in DOMAIN Kept.parts, NEW i \in DOMAIN Stream', Completes(Stream'[i])
        PROVE  Kept.parts[s].msg <= Stream'[i].frame.msg
    <3>1. CASE i \in DOMAIN Stream
      BY <1>8, <2>1, <3>1 DEF PartsRight
    <3>2. CASE i = Len(Stream')
      <4>1. Kept.parts[s].msg \in DOMAIN messages
        BY PacketAssumption DEF FragmentsOK, InfoOK, OfMessage, Kept
      <4>2. Kept.parts[s].msg <= Len(messages)
        BY <4>1 DEF EnvironmentOK
      <4>3. QED
        BY <1>5, <1>8, <3>2, <4>2
    <3>3. QED
      BY <1>8, <2>1, <3>1, <3>2
  <2>2. QED
    BY <1>1, <2>1 DEF PartsRight
<1>13. FramesRight'
  <2>1. ASSUME NEW m, Past(Stream, sending, m) PROVE Past(Stream', sending', m)
    <3>1. ASSUME NEW i \in DOMAIN Stream', Completes(Stream'[i])
          PROVE  m < Stream'[i].frame.msg
      <4>1. m < f.msg
        BY <1>2, <2>1 DEF Past, f
      <4>2. QED
        BY <1>8, <2>1, <3>1, <4>1 DEF Past
    <3>2. ASSUME NEW k \in DOMAIN sending'
          PROVE  m < sending'[k].msg
      <4>1. k + 1 \in DOMAIN sending /\ sending'[k] = sending[k + 1]
        BY <1>2, <1>3
      <4>2. QED
        BY <2>1, <4>1 DEF Past
    <3>3. QED
      BY <3>1, <3>2 DEF Past
  <2>2. QED
    BY <1>1, <2>1 DEF FramesRight
<1>14. QED
  BY <1>7, <1>9, <1>11, <1>12, <1>13

\* The oldest frame is handled: it is younger than those handled before.
LEMMA FlowTaken ==
  ASSUME FramesOK, FlowInv, UNCHANGED <<Stream, sending, messages, Kept>>, NEW frame, Taken(frame)
  PROVE  FlowInv'
<1> USE DEF FlowInv
<1>1. SendingRest' /\ InOrderSent' /\ NoneMissing' /\ PartsRight'
  BY DEF SendingRest, InOrderSent, NoneMissing, PartsRight
<1>2. /\ frame = Head(completeFrames) /\ completeFrames # <<>> /\ completeFrames' = Tail(completeFrames)
      /\ handled' = IF frame.packet = MASTER_TO_SLAVE THEN Append(handled, frame.parts) ELSE handled
  BY DEF Taken, NextCompleteFrame
<1>3. PICK S : completeFrames \in Seq(S)
  BY DEF FramesOK
<1>4. /\ 1 \in DOMAIN completeFrames /\ frame = completeFrames[1] /\ DOMAIN completeFrames' \subseteq Nat
      /\ \A i \in DOMAIN completeFrames' :
           /\ i + 1 \in DOMAIN completeFrames /\ completeFrames'[i] = completeFrames[i + 1] /\ 1 < i + 1
  BY <1>2, <1>3
<1>5. /\ DOMAIN handled \subseteq Nat
      /\ IF frame.packet = MASTER_TO_SLAVE
         THEN /\ DOMAIN handled' = DOMAIN handled \union {Len(handled) + 1}
              /\ \A i \in DOMAIN handled : handled'[i] = handled[i] /\ i < Len(handled) + 1
              /\ handled'[Len(handled) + 1] = frame.parts /\ Len(handled) + 1 \in Nat
         ELSE handled' = handled
  <2>1. \E T : handled \in Seq(T)
    BY DEF FramesOK
  <2>2. DOMAIN handled \subseteq Nat
    BY <2>1
  <2>3. CASE frame.packet = MASTER_TO_SLAVE
    <3> DEFINE longer == Append(handled, frame.parts)
    <3>1. /\ Len(handled) \in Nat /\ DOMAIN handled = 1 .. Len(handled)
          /\ DOMAIN longer = 1 .. Len(handled) + 1
          /\ \A i \in DOMAIN handled : longer[i] = handled[i]
          /\ longer[Len(handled) + 1] = frame.parts
      BY HandledGrow, Zenon
    <3>2. handled' = longer
      BY <1>2, <2>3, Zenon
    <3> HIDE DEF longer
    <3>3. QED
      BY <2>2, <2>3, <3>1, <3>2
  <2>4. QED
    BY <1>2, <2>2, <2>3
<1>6. ASSUME NEW i \in DOMAIN completeFrames, completeFrames[i].packet = MASTER_TO_SLAVE
      PROVE  /\ IsWhole(messages, completeFrames[i].parts)
             /\ Past(Stream, sending, completeFrames[i].parts[1].msg)
             /\ \A j \in DOMAIN completeFrames : j < i /\ completeFrames[j].packet = MASTER_TO_SLAVE =>
                  completeFrames[j].parts[1].msg < completeFrames[i].parts[1].msg
             /\ \A j \in DOMAIN handled : handled[j][1].msg < completeFrames[i].parts[1].msg
  BY <1>6, Zenon DEF FramesRight
<1>7. ASSUME NEW i \in DOMAIN handled
      PROVE  /\ IsWhole(messages, handled[i])
             /\ Past(Stream, sending, handled[i][1].msg)
             /\ \A j \in DOMAIN handled : j < i => handled[j][1].msg < handled[i][1].msg
  BY Zenon DEF FramesRight
<1>8. ASSUME NEW i \in DOMAIN completeFrames', completeFrames'[i].packet = MASTER_TO_SLAVE
      PROVE  /\ IsWhole(messages', completeFrames'[i].parts)
             /\ Past(Stream', sending', completeFrames'[i].parts[1].msg)
             /\ \A j \in DOMAIN completeFrames' : j < i /\ completeFrames'[j].packet = MASTER_TO_SLAVE =>
                  completeFrames'[j].parts[1].msg < completeFrames'[i].parts[1].msg
             /\ \A j \in DOMAIN handled' : handled'[j][1].msg < completeFrames'[i].parts[1].msg
  <2>1. /\ IsWhole(messages', completeFrames'[i].parts)
        /\ Past(Stream', sending', completeFrames'[i].parts[1].msg)
    BY <1>4, <1>6, <1>8
  <2>2. ASSUME NEW j \in DOMAIN completeFrames', j < i, completeFrames'[j].packet = MASTER_TO_SLAVE
        PROVE  completeFrames'[j].parts[1].msg < completeFrames'[i].parts[1].msg
    <3>1. j + 1 < i + 1
      BY <1>4, <2>2
    <3>2. QED
      BY <1>4, <1>6, <1>8, <2>2, <3>1
  <2>3. ASSUME NEW j \in DOMAIN handled'
        PROVE  handled'[j][1].msg < completeFrames'[i].parts[1].msg
    <3>1. CASE frame.packet = MASTER_TO_SLAVE /\ j = Len(handled) + 1
      <4>1. completeFrames[1].parts[1].msg < completeFrames[i + 1].parts[1].msg
        BY <1>4, <1>6, <1>8, <3>1
      <4>2. QED
        BY <1>4, <1>5, <3>1, <4>1
    <3>2. CASE j \in DOMAIN handled /\ handled'[j] = handled[j]
      BY <1>4, <1>6, <1>8, <3>2
    <3>3. QED
      BY <1>5, <3>1, <3>2
  <2>4. QED
    BY <2>1, <2>2, <2>3
<1>9. ASSUME NEW i \in DOMAIN handled'
      PROVE  /\ IsWhole(messages', handled'[i])
             /\ Past(Stream', sending', handled'[i][1].msg)
             /\ \A j \in DOMAIN handled' : j < i => handled'[j][1].msg < handled'[i][1].msg
  <2>1. CASE frame.packet = MASTER_TO_SLAVE /\ i = Len(handled) + 1
    <3>1. handled'[i] = completeFrames[1].parts
      BY <1>4, <1>5, <2>1
    <3>2. IsWhole(messages', handled'[i]) /\ Past(Stream', sending', handled'[i][1].msg)
      BY <1>4, <1>6, <2>1, <3>1
    <3>3. ASSUME NEW j \in DOMAIN handled', j < i
          PROVE  handled'[j][1].msg < handled'[i][1].msg
      <4>1. j \in DOMAIN handled /\ handled'[j] = handled[j]
        BY <1>5, <2>1, <3>3
      <4>2. QED
        BY <1>4, <1>6, <2>1, <3>1, <4>1
    <3>4. QED
      BY <3>2, <3>3
  <2>2. CASE i \in DOMAIN handled /\ handled'[i] = handled[i]
    <3>1. IsWhole(messages', handled'[i]) /\ Past(Stream', sending', handled'[i][1].msg)
      BY <1>7, <2>2
    <3>2. ASSUME NEW j \in DOMAIN handled', j < i
          PROVE  handled'[j][1].msg < handled'[i][1].msg
      <4>1. j \in DOMAIN handled /\ handled'[j] = handled[j]
        BY <1>5, <2>2, <3>2
      <4>2. QED
        BY <1>7, <2>2, <3>2, <4>1
    <3>3. QED
      BY <3>1, <3>2
  <2>3. QED
    BY <1>5, <2>1, <2>2
<1>10. FramesRight'
  BY <1>8, <1>9, Zenon DEF FramesRight
<1>11. QED
  BY <1>1, <1>10

-----------------------------------------------------------------------------
(* What extractCompleteFrames makes of it.                                 *)
LEMMA ShorterStream ==
  ASSUME BytesOK, Stream # <<>>, Stream' = Tail(Stream)
  PROVE  /\ Len(Stream) \in Nat /\ Len(Stream) > 0 /\ DOMAIN Stream = 1 .. Len(Stream)
         /\ Len(Stream') = Len(Stream) - 1 /\ DOMAIN Stream' = 1 .. Len(Stream) - 1
         /\ \A i \in DOMAIN Stream' : i + 1 \in DOMAIN Stream /\ Stream'[i] = Stream[i + 1]
<1>1. Stream \in Seq(Units)
  BY StreamIsOfUnits
<1>2. Len(Stream) \in Nat /\ Len(Stream) > 0 /\ DOMAIN Stream = 1 .. Len(Stream)
  BY <1>1, EmptySeq
<1>3. Len(Stream') = Len(Stream) - 1 /\ DOMAIN Stream' = 1 .. Len(Stream) - 1
  BY <1>1, <1>2
<1>4. \A i \in DOMAIN Stream' : i + 1 \in DOMAIN Stream /\ Stream'[i] = Stream[i + 1]
  BY <1>1, <1>2, <1>3
<1>5. QED
  BY <1>2, <1>3, <1>4

\* What is before unit i + 1 is before the i-th of the rest, or was the first.
LEMMA BeforeInRest ==
  ASSUME BytesOK, Stream # <<>>, Stream' = Tail(Stream), NEW kept, NEW m, NEW s,
         NEW i \in 1 .. Len(Stream), Before(Stream, kept, m, s, i + 1)
  PROVE  \/ Before(Stream', kept, m, s, i)
         \/ Completes(Stream[1]) /\ Stream[1].frame.msg = m /\ Stream[1].frame.seq = s
<1>1. CASE s \in DOMAIN kept.parts /\ kept.parts[s].msg = m
  BY <1>1 DEF Before
<1>2. CASE \E j \in 1 .. i + 1 - 1 : Completes(Stream[j]) /\ Stream[j].frame.msg = m /\ Stream[j].frame.seq = s
  <2>1. PICK j \in 1 .. i + 1 - 1 : Completes(Stream[j]) /\ Stream[j].frame.msg = m /\ Stream[j].frame.seq = s
    BY <1>2
  <2>2. CASE j = 1
    BY <2>1, <2>2
  <2>3. CASE j # 1
    <3> DEFINE l == j - 1
    <3>1. l \in 1 .. i - 1 /\ l \in DOMAIN Stream' /\ l + 1 = j
      BY <2>3, ShorterStream
    <3>2. Stream'[l] = Stream[j]
      <4>1. Stream'[l] = Stream[l + 1]
        <5> HIDE DEF l
        <5> QED
          BY <3>1, ShorterStream
      <4>2. QED
        BY <3>1, <4>1
    <3> HIDE DEF l
    <3>3. QED
      BY <2>1, <3>1, <3>2 DEF Before
  <2>4. QED
    BY <2>2, <2>3
<1>3. QED
  BY <1>1, <1>2 DEF Before

\* A unit is looked at: what is still to come keeps its order.
LEMMA OrderOfRest ==
  ASSUME BytesOK, SendingRest, InOrderSent, Stream # <<>>, Stream' = Tail(Stream), UNCHANGED <<sending, messages>>
  PROVE  /\ SendingRest' /\ InOrderSent'
         /\ \A m : Past(Stream, sending, m) => Past(Stream', sending', m)
<1>1. /\ Len(Stream) \in Nat /\ DOMAIN Stream' = 1 .. Len(Stream) - 1
      /\ \A i \in DOMAIN Stream' : i + 1 \in DOMAIN Stream /\ Stream'[i] = Stream[i + 1]
  BY ShorterStream
<1>2. SendingRest'
  BY DEF SendingRest
<1>3. InOrderSent'
  <2>1. ASSUME NEW i \in DOMAIN Stream', NEW j \in DOMAIN Stream', i < j, Completes(Stream'[i]), Completes(Stream'[j])
        PROVE  Earlier(Stream'[i].frame, Stream'[j].frame)
    <3>1. i + 1 < j + 1
      BY <1>1, <2>1
    <3>2. QED
      BY <1>1, <2>1, <3>1 DEF InOrderSent
  <2>2. ASSUME NEW i \in DOMAIN Stream', NEW k \in DOMAIN sending', Completes(Stream'[i])
        PROVE  Earlier(Stream'[i].frame, sending'[k])
    BY <1>1, <2>2 DEF InOrderSent
  <2>3. QED
    BY <2>1, <2>2 DEF InOrderSent
<1>4. ASSUME NEW m, Past(Stream, sending, m) PROVE Past(Stream', sending', m)
  BY <1>1, <1>4 DEF Past
<1>5. QED
  BY <1>2, <1>3, <1>4

\* The fragments of a whole message, one after the other.
LEMMA InOrderWhole ==
  ASSUME NEW parts, NEW n \in Nat \ {0}, DOMAIN parts = 0 .. n - 1
  PROVE  InOrder(parts, n) = [i \in 1 .. n |-> parts[i - 1]]
<1> DEFINE seqs == DOMAIN parts \intersect 0 .. n - 1
           Nth(i) == CHOOSE q \in seqs : Cardinality({r \in seqs : r < q}) = i - 1
<1>1. seqs = 0 .. n - 1
  OBVIOUS
<1>2. Cardinality(seqs) = n
  <2>1. Cardinality(0 .. n - 1) = n
    BY FS_Interval
  <2>2. QED
    BY <1>1, <2>1, Zenon
<1>3. ASSUME NEW q \in 0 .. n - 1
      PROVE  Cardinality({r \in seqs : r < q}) = q
  <2>1. {r \in seqs : r < q} = 0 .. q - 1
    BY <1>1
  <2>2. Cardinality(0 .. q - 1) = q
    BY FS_Interval
  <2>3. QED
    BY <2>1, <2>2, Zenon
<1>4. ASSUME NEW i \in 1 .. n
      PROVE  Nth(i) = i - 1
  <2>1. i - 1 \in seqs /\ Cardinality({r \in seqs : r < i - 1}) = i - 1
    BY <1>1, <1>3
  <2>2. ASSUME NEW q \in seqs, Cardinality({r \in seqs : r < q}) = i - 1
        PROVE  q = i - 1
    BY <1>1, <1>3, <2>2
  <2>3. QED
    <3> HIDE DEF seqs
    <3> QED
      BY <2>1, <2>2
<1>5. InOrder(parts, n) = [i \in 1 .. Cardinality(seqs) |-> parts[Nth(i)]]
  BY DEF InOrder
<1>6. QED
  <2> HIDE DEF seqs, Nth
  <2> QED
    BY <1>2, <1>4, <1>5

(* A unit that completes no frame of the master changes nothing of it.     *)
LEMMA FlowPasses ==
  ASSUME BytesOK, FramesOK, FlowInv, Stream # <<>>, Stream' = Tail(Stream), ~Completes(Stream[1]),
         UNCHANGED <<sending, messages, Kept, handled>>,
         \/ UNCHANGED completeFrames
         \/ \E frame : completeFrames' = Append(completeFrames, frame) /\ frame.packet # MASTER_TO_SLAVE
  PROVE  FlowInv'
<1> USE DEF FlowInv
<1>1. /\ Len(Stream) \in Nat /\ Len(Stream) > 0 /\ DOMAIN Stream' = 1 .. Len(Stream) - 1
      /\ Len(Stream') = Len(Stream) - 1
      /\ \A i \in DOMAIN Stream' : i + 1 \in DOMAIN Stream /\ Stream'[i] = Stream[i + 1]
  BY ShorterStream
<1>2. /\ SendingRest' /\ InOrderSent'
      /\ \A m : Past(Stream, sending, m) => Past(Stream', sending', m)
  BY OrderOfRest
<1>3. NoneMissing'
  <2>1. ASSUME NEW i \in DOMAIN Stream', Completes(Stream'[i]), NEW s \in 0 .. Stream'[i].frame.seq - 1
        PROVE  Before(Stream', Kept', Stream'[i].frame.msg, s, i)
    <3>1. Before(Stream, Kept, Stream'[i].frame.msg, s, i + 1) /\ i \in 1 .. Len(Stream)
      BY <1>1, <2>1 DEF NoneMissing
    <3>2. QED
      BY <3>1, BeforeInRest
  <2>2. ASSUME sending' # <<>>, NEW s \in 0 .. sending'[1].seq - 1
        PROVE  Before(Stream', Kept', sending'[1].msg, s, Len(Stream') + 1)
    <3>1. Before(Stream, Kept, sending[1].msg, s, Len(Stream) + 1) /\ Len(Stream) \in 1 .. Len(Stream)
      BY <1>1, <2>2 DEF NoneMissing
    <3>2. Before(Stream', Kept, sending[1].msg, s, Len(Stream))
      BY <3>1, BeforeInRest
    <3>3. Len(Stream') + 1 = Len(Stream)
      BY <1>1
    <3>4. QED
      BY <3>2, <3>3
  <2>3. QED
    BY <2>1, <2>2 DEF NoneMissing
<1>4. PartsRight'
  <2>1. ASSUME NEW s \in DOMAIN Kept.parts, NEW i \in DOMAIN Stream', Completes(Stream'[i])
        PROVE  Kept.parts[s].msg <= Stream'[i].frame.msg
    BY <1>1, <2>1 DEF PartsRight
  <2>2. QED
    BY <2>1 DEF PartsRight
<1>5. FramesRight'
  <2>1. ASSUME NEW i \in DOMAIN completeFrames', completeFrames'[i].packet = MASTER_TO_SLAVE
        PROVE  i \in DOMAIN completeFrames /\ completeFrames'[i] = completeFrames[i]
    <3>1. CASE UNCHANGED completeFrames
      BY <3>1
    <3>2. CASE \E frame : completeFrames' = Append(completeFrames, frame) /\ frame.packet # MASTER_TO_SLAVE
      <4>1. PICK frame : completeFrames' = Append(completeFrames, frame) /\ frame.packet # MASTER_TO_SLAVE
        BY <3>2
      <4>2. /\ Len(completeFrames) \in Nat /\ DOMAIN completeFrames = 1 .. Len(completeFrames)
            /\ DOMAIN completeFrames' = 1 .. Len(completeFrames) + 1
            /\ \A j \in DOMAIN completeFrames : completeFrames'[j] = completeFrames[j]
            /\ completeFrames'[Len(completeFrames) + 1] = frame
        BY <4>1, FramesGrow
      <4>3. i \in 1 .. Len(completeFrames) + 1 /\ i # Len(completeFrames) + 1
        BY <2>1, <4>1, <4>2
      <4>4. i \in DOMAIN completeFrames
        BY <4>2, <4>3
      <4>5. QED
        BY <4>2, <4>4
    <3>3. QED
      BY <3>1, <3>2
  <2>2. QED
    BY <1>2, <2>1 DEF FramesRight
<1>6. QED
  BY <1>2, <1>3, <1>4, <1>5

(* A frame of the master is completed.  What was kept of it before is kept *)
(* as long as fragments are to come that need it, and a message that is    *)
(* put together with it is younger than all before.                        *)
LEMMA FlowTakesFrame ==
  ASSUME EnvironmentOK, BytesOK, FramesOK, FlowInv, Stream # <<>>, Stream' = Tail(Stream),
         UNCHANGED <<sending, messages, handled>>,
         NEW f \in Frames, f = Stream[1].frame, Completes(Stream[1]),
         \A x, r \in Nat :
           /\ f.msg <= x /\ (f.last => f.msg < x)
           /\ (r \in DOMAIN Kept.parts /\ Kept.parts[r].msg = x) \/ (x = f.msg /\ r = f.seq)
           => r \in DOMAIN Kept'.parts /\ Kept'.parts[r].msg = x,
         \E k \in Nat : DOMAIN Kept'.parts = 0 .. k - 1 /\ (Kept'.total = 0 \/ k > Kept'.total),
         \A s \in DOMAIN Kept'.parts :
           /\ IsPart(Kept'.parts[s], s)
           /\ Kept'.parts[s].msg \in Nat /\ Kept'.parts[s].msg <= f.msg,
         \/ UNCHANGED completeFrames
         \/ /\ f.last
            /\ \E frame : /\ completeFrames' = Append(completeFrames, frame)
                          /\ IsWhole(messages, frame.parts) /\ frame.parts[1].msg = f.msg
  PROVE  FlowInv'
<1> USE DEF FlowInv
<1>1. /\ Len(Stream) \in Nat /\ Len(Stream) > 0 /\ DOMAIN Stream' = 1 .. Len(Stream) - 1
      /\ Len(Stream') = Len(Stream) - 1 /\ 1 \in DOMAIN Stream
      /\ \A i \in DOMAIN Stream' : i + 1 \in DOMAIN Stream /\ Stream'[i] = Stream[i + 1]
  BY ShorterStream
<1>2. /\ SendingRest' /\ InOrderSent'
      /\ \A m : Past(Stream, sending, m) => Past(Stream', sending', m)
  BY OrderOfRest
<1>3. /\ f.msg \in Nat /\ f.seq \in Nat /\ messages[f.msg].n \in Nat
      /\ f.last => f.seq + 1 = messages[f.msg].n
  BY <1>1, FrameInStream, FrameOfMessage
<1>4. ASSUME NEW g \in Frames, g.packet = MASTER_TO_SLAVE, Earlier(f, g)
      PROVE  g.msg \in Nat /\ g.seq \in Nat /\ f.msg <= g.msg /\ (f.last => f.msg < g.msg)
  <2>1. g.msg \in Nat /\ g.seq \in Nat /\ messages[g.msg].n \in Nat /\ g.seq < messages[g.msg].n
    BY <1>4, FrameOfMessage
  <2>2. f.msg <= g.msg
    BY <1>3, <1>4, <2>1 DEF Earlier
  <2>3. ASSUME f.last, g.msg = f.msg PROVE FALSE
    BY <1>3, <1>4, <2>1, <2>3 DEF Earlier
  <2>4. QED
    BY <1>3, <2>1, <2>2, <2>3
<1>5. ASSUME NEW i \in DOMAIN Stream', Completes(Stream'[i])
      PROVE  /\ Stream'[i].frame.msg \in Nat /\ Stream'[i].frame.seq \in Nat
             /\ f.msg <= Stream'[i].frame.msg /\ (f.last => f.msg < Stream'[i].frame.msg)
  <2>1. 1 < i + 1 /\ i + 1 \in DOMAIN Stream /\ Stream'[i] = Stream[i + 1]
    BY <1>1
  <2>2. Earlier(f, Stream'[i].frame)
    BY <1>1, <1>5, <2>1 DEF InOrderSent
  <2>3. Stream'[i].frame \in Frames /\ Stream'[i].frame.packet = MASTER_TO_SLAVE
    BY <1>5, <2>1, FrameInStream
  <2>4. QED
    BY <1>4, <2>2, <2>3
<1>6. ASSUME NEW k \in DOMAIN sending
      PROVE  /\ sending[k].msg \in Nat /\ sending[k].seq \in Nat
             /\ f.msg <= sending[k].msg /\ (f.last => f.msg < sending[k].msg)
  <2>1. Earlier(f, sending[k])
    BY <1>1, <1>6 DEF InOrderSent
  <2>2. sending[k] \in Frames /\ sending[k].packet = MASTER_TO_SLAVE
    BY <1>6 DEF EnvironmentOK
  <2>3. QED
    BY <1>4, <2>1, <2>2
<1>7. ASSUME NEW x \in Nat, f.msg <= x, f.last => f.msg < x, NEW r \in Nat, NEW i \in 1 .. Len(Stream),
             Before(Stream, Kept, x, r, i + 1)
      PROVE  Before(Stream', Kept', x, r, i)
  <2>1. CASE \/ r \in DOMAIN Kept.parts /\ Kept.parts[r].msg = x
             \/ x = f.msg /\ r = f.seq
    <3>1. r \in DOMAIN Kept'.parts /\ Kept'.parts[r].msg = x
      BY <1>7, <2>1
    <3>2. QED
      BY <3>1 DEF Before
  <2>2. CASE ~(\/ r \in DOMAIN Kept.parts /\ Kept.parts[r].msg = x
               \/ x = f.msg /\ r = f.seq)
    <3>1. Before(Stream', Kept, x, r, i)
      BY <1>7, <2>2, BeforeInRest
    <3>2. QED
      BY <2>2, <3>1 DEF Before
  <2>3. QED
    BY <2>1, <2>2
<1>8. NoneMissing'
  <2>1. ASSUME NEW i \in DOMAIN Stream', Completes(Stream'[i]), NEW s \in 0 .. Stream'[i].frame.seq - 1
        PROVE  Before(Stream', Kept', Stream'[i].frame.msg, s, i)
    <3>1. Before(Stream, Kept, Stream'[i].frame.msg, s, i + 1) /\ i \in 1 .. Len(Stream)
      BY <1>1, <2>1 DEF NoneMissing
    <3>2. s \in Nat
      BY <1>5, <2>1
    <3>3. QED
      BY <1>5, <1>7, <2>1, <3>1, <3>2
  <2>2. ASSUME sending' # <<>>, NEW s \in 0 .. sending'[1].seq - 1
        PROVE  Before(Stream', Kept', sending'[1].msg, s, Len(Stream') + 1)
    <3>1. Before(Stream, Kept, sending[1].msg, s, Len(Stream) + 1) /\ Len(Stream) \in 1 .. Len(Stream)
      BY <1>1, <2>2 DEF NoneMissing
    <3>2. 1 \in DOMAIN sending
      BY <2>2 DEF EnvironmentOK
    <3>3. s \in Nat
      BY <1>6, <2>2, <3>2
    <3>4. Before(Stream', Kept', sending[1].msg, s, Len(Stream))
      BY <1>6, <1>7, <3>1, <3>2, <3>3
    <3>5. Len(Stream') + 1 = Len(Stream)
      BY <1>1
    <3>6. QED
      BY <3>4, <3>5
  <2>3. QED
    BY <2>1, <2>2 DEF NoneMissing
<1>9. PartsRight'
  <2>1. ASSUME NEW s \in DOMAIN Kept'.parts, NEW i \in DOMAIN Stream', Completes(Stream'[i])
        PROVE  Kept'.parts[s].msg <= Stream'[i].frame.msg
    <3>1. Kept'.parts[s].msg \in Nat /\ Kept'.parts[s].msg <= f.msg
      OBVIOUS
    <3> DEFINE m == Kept'.parts[s].msg
               g == Stream'[i].frame
    <3>2. g.msg \in Nat /\ f.msg <= g.msg
      BY <1>5, <2>1, Zenon
    <3>3. m \in Nat /\ m <= f.msg
      BY <3>1
    <3> HIDE DEF m, g
    <3>4. m <= g.msg
      BY <1>3, <3>2, <3>3
    <3>5. QED
      BY <3>4 DEF m, g
  <2>2. QED
    BY <2>1 DEF PartsRight
<1>10. FramesRight'
  <2>1. ASSUME UNCHANGED completeFrames
        PROVE  FramesRight'
    BY <1>2, <2>1 DEF FramesRight
  <2>2. ASSUME f.last, NEW frame, completeFrames' = Append(completeFrames, frame),
               IsWhole(messages, frame.parts), frame.parts[1].msg = f.msg
        PROVE  FramesRight'
    <3>1. /\ Len(completeFrames) \in Nat /\ DOMAIN completeFrames = 1 .. Len(completeFrames)
          /\ DOMAIN completeFrames' = 1 .. Len(completeFrames) + 1
          /\ \A j \in DOMAIN completeFrames : completeFrames'[j] = completeFrames[j]
          /\ completeFrames'[Len(completeFrames) + 1] = frame
      BY <2>2, FramesGrow
    <3>2. Past(Stream', sending', f.msg)
      BY <1>5, <1>6, <2>2 DEF Past
    <3>3. ASSUME NEW m, Past(Stream, sending, m)
          PROVE  m < f.msg
      BY <1>1, <3>3 DEF Past
    <3>4. ASSUME NEW i \in DOMAIN completeFrames', completeFrames'[i].packet = MASTER_TO_SLAVE
          PROVE  /\ IsWhole(messages', completeFrames'[i].parts)
                 /\ Past(Stream', sending', completeFrames'[i].parts[1].msg)
                 /\ \A j \in DOMAIN completeFrames' : j < i /\ completeFrames'[j].packet = MASTER_TO_SLAVE =>
                      completeFrames'[j].parts[1].msg < completeFrames'[i].parts[1].msg
                 /\ \A j \in DOMAIN handled' : handled'[j][1].msg < completeFrames'[i].parts[1].msg
      <4>1. CASE i = Len(completeFrames) + 1
        <5>1. completeFrames'[i] = frame
          BY <3>1, <4>1
        <5>2. ASSUME NEW j \in DOMAIN completeFrames', j < i, completeFrames'[j].packet = MASTER_TO_SLAVE
              PROVE  completeFrames'[j].parts[1].msg < f.msg
          <6>1. j \in DOMAIN completeFrames /\ completeFrames'[j] = completeFrames[j]
            BY <3>1, <4>1, <5>2
          <6>2. Past(Stream, sending, completeFrames[j].parts[1].msg)
            BY <5>2, <6>1 DEF FramesRight
          <6>3. QED
            BY <3>3, <6>1, <6>2
        <5>3. ASSUME NEW j \in DOMAIN handled
              PROVE  handled[j][1].msg < f.msg
          BY <3>3 DEF FramesRight
        <5>4. QED
          BY <2>2, <3>2, <5>1, <5>2, <5>3
      <4>2. CASE i \in DOMAIN completeFrames
        <5>1. completeFrames'[i] = completeFrames[i]
          BY <3>1, <4>2
        <5>2. ASSUME NEW j \in DOMAIN completeFrames', j < i
              PROVE  j \in DOMAIN completeFrames /\ completeFrames'[j] = completeFrames[j]
          BY <3>1, <4>2, <5>2
        <5>3. QED
          BY <1>2, <3>4, <4>2, <5>1, <5>2 DEF FramesRight
      <4>3. QED
        BY <3>1, <4>1, <4>2
    <3>5. ASSUME NEW i \in DOMAIN handled'
          PROVE  /\ IsWhole(messages', handled'[i])
                 /\ Past(Stream', sending', handled'[i][1].msg)
                 /\ \A j \in DOMAIN handled' : j < i => handled'[j][1].msg < handled'[i][1].msg
      BY <1>2 DEF FramesRight
    <3>6. QED
      BY <3>4, <3>5, Zenon DEF FramesRight
  <2>3. QED
    BY <2>1, <2>2
<1>11. QED
  BY <1>2, <1>8, <1>9, <1>10

\* The fragments before the one that is completed were kept, none is of a younger message.
LEMMA KeptFits ==
  ASSUME EnvironmentOK, BytesOK, FragmentsOK, FlowInv, Stream # <<>>, Completes(Stream[1]),
         NEW f, f = Stream[1].frame
  PROVE  /\ \A r \in 0 .. f.seq - 1 : r \in DOMAIN Kept.parts /\ Kept.parts[r].msg = f.msg
         /\ \A s \in DOMAIN Kept.parts :
              /\ IsPart(Kept.parts[s], s)
              /\ Kept.parts[s].msg \in Nat /\ Kept.parts[s].msg <= f.msg
         /\ \E k \in Nat : DOMAIN Kept.parts = 0 .. k - 1 /\ (Kept.total = 0 \/ k > Kept.total)
         /\ Kept.total \in Nat
<1> USE DEF FlowInv
<1>1. 1 \in DOMAIN Stream
  BY StreamIsOfUnits, EmptySeq
<1>2. ASSUME NEW r \in 0 .. f.seq - 1
      PROVE  r \in DOMAIN Kept.parts /\ Kept.parts[r].msg = f.msg
  <2>1. Before(Stream, Kept, f.msg, r, 1)
    BY <1>1 DEF NoneMissing
  <2>2. 1 .. 1 - 1 = {}
    OBVIOUS
  <2>3. QED
    BY <2>1, <2>2 DEF Before
<1>3. InfoOK(MASTER_TO_SLAVE, Kept)
  BY PacketAssumption DEF FragmentsOK, Kept
<1>4. ASSUME NEW s \in DOMAIN Kept.parts
      PROVE  /\ IsPart(Kept.parts[s], s)
             /\ Kept.parts[s].msg \in Nat /\ Kept.parts[s].msg <= f.msg
  <2>1. Kept.parts[s].msg \in DOMAIN messages
    BY <1>3 DEF InfoOK, OfMessage
  <2>2. Kept.parts[s].msg \in Nat
    BY <2>1 DEF EnvironmentOK
  <2>3. Kept.parts[s].msg <= f.msg
    BY <1>1 DEF PartsRight
  <2>4. IsPart(Kept.parts[s], s)
    BY DEF PartsRight
  <2>5. QED
    BY <2>2, <2>3, <2>4
<1>5. QED
  BY <1>2, <1>3, <1>4 DEF PartsRight, InfoOK

\* The first k fragments are there, too many or too few to be complete.
Incomplete(info) ==
  \E k \in Nat : DOMAIN info.parts = 0 .. k - 1 /\ (info.total = 0 \/ k > info.total)

(* A fragment that is not the last completes nothing, the last one only    *)
(* its own message.                                                        *)
LEMMA StoredFits ==
  ASSUME EnvironmentOK, BytesOK, FragmentsOK, FlowInv, Stream # <<>>, Completes(Stream[1]),
         NEW f \in Frames, f = Stream[1].frame, NEW part
  PROVE  /\ DOMAIN Stored(f, part).parts = {f.seq} \union DOMAIN Kept.parts
         /\ Stored(f, part).parts[f.seq] = part
         /\ \A s \in DOMAIN Kept.parts : s # f.seq => Stored(f, part).parts[s] = Kept.parts[s]
         /\ IsComplete(Stored(f, part)) =>
              f.last /\ Stored(f, part).total = f.seq + 1 /\ DOMAIN Stored(f, part).parts = 0 .. f.seq
         /\ ~IsComplete(Stored(f, part)) => Incomplete(Stored(f, part))
<1> DEFINE info == Stored(f, part)
<1>1. f.packet = MASTER_TO_SLAVE /\ fragmentMap[f.packet] = Kept
  BY DEF Completes, Kept
<1>2. /\ f.seq \in Nat /\ f.last \in BOOLEAN
      /\ info.total = IF f.last THEN f.seq + 1 ELSE Kept.total
      /\ DOMAIN info.parts = {f.seq} \union DOMAIN Kept.parts
      /\ info.parts[f.seq] = part
      /\ \A s \in DOMAIN Kept.parts : s # f.seq => info.parts[s] = Kept.parts[s]
  <2> HIDE DEF info
  <2>1. f.seq \in Nat /\ f.last \in BOOLEAN
    BY StoredParts
  <2>2. info.total = IF f.last THEN f.seq + 1 ELSE fragmentMap[f.packet].total
    BY StoredParts DEF info
  <2>3. DOMAIN info.parts = {f.seq} \union DOMAIN fragmentMap[f.packet].parts /\ info.parts[f.seq] = part
    BY StoredParts DEF info
  <2>4. \A s \in DOMAIN fragmentMap[f.packet].parts :
          s # f.seq => info.parts[s] = fragmentMap[f.packet].parts[s]
    BY StoredParts DEF info
  <2>5. QED
    BY <1>1, <2>1, <2>2, <2>3, <2>4, Zenon
<1>3. PICK k \in Nat : DOMAIN Kept.parts = 0 .. k - 1 /\ (Kept.total = 0 \/ k > Kept.total)
  BY KeptFits
<1>4. Kept.total \in Nat
  BY KeptFits
<1>5. f.seq <= k
  <2>1. ASSUME f.seq > k PROVE FALSE
    <3>1. k \in 0 .. f.seq - 1
      BY <1>2, <2>1
    <3>2. k \in DOMAIN Kept.parts
      BY <3>1, KeptFits
    <3>3. QED
      BY <1>3, <3>2
  <2>2. QED
    BY <1>2, <2>1
<1> DEFINE l == IF f.seq < k THEN k ELSE f.seq + 1
<1>6. l \in Nat \ {0} /\ l >= k /\ l >= f.seq + 1 /\ DOMAIN info.parts = 0 .. l - 1
  <2>1. l \in Nat \ {0} /\ l >= k /\ l >= f.seq + 1
    BY <1>2
  <2>2. {f.seq} \union 0 .. k - 1 = 0 .. l - 1
    BY <1>2, <1>5
  <2>3. QED
    BY <1>2, <1>3, <2>1, <2>2, Zenon
<1>7. Cardinality(0 .. l - 1) = l
  <2>1. ASSUME NEW n \in Nat \ {0} PROVE Cardinality(0 .. n - 1) = n
    BY FS_Interval
  <2> HIDE DEF l
  <2>2. QED
    BY <1>6, <2>1
<1> HIDE DEF l
<1>8. IsComplete(info) <=> l = info.total
  BY <1>6, <1>7 DEF IsComplete
<1>9. CASE f.last
  <2>1. info.total = f.seq + 1
    BY <1>2, <1>9
  <2>2. ASSUME IsComplete(info) PROVE DOMAIN info.parts = 0 .. f.seq
    <3>1. l = f.seq + 1 /\ l - 1 = f.seq
      BY <1>2, <1>8, <2>1, <2>2
    <3>2. QED
      BY <1>6, <3>1
  <2>3. ASSUME ~IsComplete(info) PROVE l > info.total
    <3>1. l # info.total
      BY <1>8, <2>3, Zenon
    <3>2. QED
      BY <1>2, <1>6, <2>1, <3>1
  <2>4. QED
    BY <1>2, <1>6, <1>9, <2>1, <2>2, <2>3 DEF Incomplete
<1>10. CASE ~f.last
  <2>1. info.total = Kept.total
    BY <1>2, <1>10
  <2>2. info.total = 0 \/ l > info.total
    BY <1>3, <1>4, <1>6, <2>1
  <2>3. ~IsComplete(info)
    BY <1>4, <1>6, <1>8, <2>1, <2>2
  <2>4. QED
    BY <1>2, <1>6, <2>2, <2>3 DEF Incomplete
<1>11. QED
  BY <1>9, <1>10

\* A frame of another packet id leaves the master's fragments alone.
LEMMA OthersLeaveKept ==
  ASSUME FragmentsOK, NEW f, f.packet # MASTER_TO_SLAVE, AcceptWhole(f, TRUE)
  PROVE  /\ UNCHANGED Kept
         /\ \/ UNCHANGED completeFrames
            \/ \E frame : completeFrames' = Append(completeFrames, frame) /\ frame.packet # MASTER_TO_SLAVE
<1> DEFINE part == [msg |-> f.msg, seq |-> f.seq, intact |-> TRUE]
           info == Stored(f, part)
           whole == InOrder(info.parts, info.total)
<1>1. \/ UNCHANGED <<fragmentMap, completeFrames>>
      \/ UNCHANGED fragmentMap /\ completeFrames' = Append(completeFrames, Frame(f.packet, <<part>>))
      \/ /\ fragmentMap' = [fragmentMap EXCEPT ![f.packet] = NoFragments]
         /\ completeFrames' = Append(completeFrames, Frame(f.packet, whole))
      \/ /\ fragmentMap' = [fragmentMap EXCEPT ![f.packet] = info]
         /\ UNCHANGED completeFrames
  BY Zenon DEF AcceptWhole, Reassemble
<1> HIDE DEF part, info, whole
<1>2. DOMAIN fragmentMap = Packet /\ MASTER_TO_SLAVE \in Packet
  BY PacketAssumption DEF FragmentsOK
<1>3. ASSUME NEW g PROVE [fragmentMap EXCEPT ![f.packet] = g][MASTER_TO_SLAVE] = fragmentMap[MASTER_TO_SLAVE]
  BY <1>2
<1>4. UNCHANGED Kept
  BY <1>1, <1>3, Zenon DEF Kept
<1>5. \A parts : Frame(f.packet, parts).packet # MASTER_TO_SLAVE
  BY DEF Frame
<1>6. \/ UNCHANGED completeFrames
      \/ \E frame : completeFrames' = Append(completeFrames, frame) /\ frame.packet # MASTER_TO_SLAVE
  BY <1>1, <1>5, Zenon
<1>7. QED
  BY <1>4, <1>6

(* A frame of the master is accepted: alone, with those kept before it, or *)
(* to be kept with them.                                                   *)
LEMMA FlowAccepts ==
  ASSUME EnvironmentOK, BytesOK, FragmentsOK, FramesOK, FlowInv, Stream # <<>>, Stream' = Tail(Stream),
         UNCHANGED <<sending, messages, handled>>, Completes(Stream[1]),
         NEW f \in Frames, f = Stream[1].frame, AcceptWhole(f, TRUE)
  PROVE  FlowInv'
<1> DEFINE part == [msg |-> f.msg, seq |-> f.seq, intact |-> TRUE]
           info == Stored(f, part)
           Taking(frame) == /\ completeFrames' = Append(completeFrames, frame)
                            /\ IsWhole(messages, frame.parts) /\ frame.parts[1].msg = f.msg
<1>1. \/ UNCHANGED <<fragmentMap, completeFrames>> /\ IsFragment(f) /\ f.tiny
      \/ /\ ~IsFragment(f) /\ UNCHANGED fragmentMap
         /\ completeFrames' = Append(completeFrames, Frame(f.packet, <<part>>))
      \/ /\ IsComplete(info)
         /\ fragmentMap' = [fragmentMap EXCEPT ![f.packet] = NoFragments]
         /\ completeFrames' = Append(completeFrames, Frame(f.packet, InOrder(info.parts, info.total)))
      \/ /\ ~IsComplete(info)
         /\ fragmentMap' = [fragmentMap EXCEPT ![f.packet] = info]
         /\ UNCHANGED completeFrames
  BY Zenon DEF AcceptWhole, Reassemble
<1>2. f.packet = MASTER_TO_SLAVE /\ DOMAIN fragmentMap = Packet /\ MASTER_TO_SLAVE \in Packet
  BY PacketAssumption DEF Completes, FragmentsOK
<1>3. /\ f.msg \in DOMAIN messages /\ f.msg \in Nat /\ f.seq \in Nat /\ messages[f.msg].n \in Nat
      /\ f.last \in BOOLEAN /\ (f.last <=> f.seq + 1 = messages[f.msg].n) /\ (f.tiny => f.last)
  BY <1>2, FrameOfMessage
<1>4. /\ \A r \in 0 .. f.seq - 1 : r \in DOMAIN Kept.parts /\ Kept.parts[r].msg = f.msg
      /\ \A s \in DOMAIN Kept.parts :
           /\ IsPart(Kept.parts[s], s)
           /\ Kept.parts[s].msg \in Nat /\ Kept.parts[s].msg <= f.msg
      /\ \E k \in Nat : DOMAIN Kept.parts = 0 .. k - 1 /\ (Kept.total = 0 \/ k > Kept.total)
  BY KeptFits
<1>5. /\ DOMAIN info.parts = {f.seq} \union DOMAIN Kept.parts
      /\ info.parts[f.seq] = part
      /\ \A s \in DOMAIN Kept.parts : s # f.seq => info.parts[s] = Kept.parts[s]
      /\ IsComplete(info) => f.last /\ info.total = f.seq + 1 /\ DOMAIN info.parts = 0 .. f.seq
      /\ ~IsComplete(info) => Incomplete(info)
  <2> HIDE DEF part, info
  <2>1. DOMAIN info.parts = {f.seq} \union DOMAIN Kept.parts /\ info.parts[f.seq] = part
    BY StoredFits DEF info
  <2>2. \A s \in DOMAIN Kept.parts : s # f.seq => info.parts[s] = Kept.parts[s]
    BY StoredFits DEF info
  <2>3. IsComplete(info) => f.last /\ info.total = f.seq + 1 /\ DOMAIN info.parts = 0 .. f.seq
    BY StoredFits DEF info
  <2>4. ~IsComplete(info) => Incomplete(info)
    BY StoredFits DEF info
  <2>5. QED
    BY <2>1, <2>2, <2>3, <2>4
<1>6. part.msg = f.msg /\ IsPart(part, f.seq)
  BY DEF IsPart
<1>7. ASSUME UNCHANGED Kept, f.last, UNCHANGED completeFrames \/ \E frame : Taking(frame)
      PROVE  FlowInv'
  <2>1. \A x, r \in Nat :
          /\ f.msg <= x /\ (f.last => f.msg < x)
          /\ (r \in DOMAIN Kept.parts /\ Kept.parts[r].msg = x) \/ (x = f.msg /\ r = f.seq)
          => r \in DOMAIN Kept.parts /\ Kept.parts[r].msg = x
    BY <1>3, <1>7
  <2>2. /\ \A x, r \in Nat :
             /\ f.msg <= x /\ (f.last => f.msg < x)
             /\ (r \in DOMAIN Kept.parts /\ Kept.parts[r].msg = x) \/ (x = f.msg /\ r = f.seq)
             => r \in DOMAIN Kept'.parts /\ Kept'.parts[r].msg = x
        /\ \A s \in DOMAIN Kept'.parts :
             /\ IsPart(Kept'.parts[s], s)
             /\ Kept'.parts[s].msg \in Nat /\ Kept'.parts[s].msg <= f.msg
        /\ \E k \in Nat : DOMAIN Kept'.parts = 0 .. k - 1 /\ (Kept'.total = 0 \/ k > Kept'.total)
    BY <1>4, <1>7, <2>1, Zenon
  <2>3. QED
    BY <1>7, <2>2, FlowTakesFrame
<1>8. CASE UNCHANGED <<fragmentMap, completeFrames>> /\ IsFragment(f) /\ f.tiny
  BY <1>3, <1>7, <1>8 DEF Kept
<1>9. CASE /\ ~IsFragment(f) /\ UNCHANGED fragmentMap
           /\ completeFrames' = Append(completeFrames, Frame(f.packet, <<part>>))
  <2>1. f.last /\ f.seq = 0
    BY <1>3, <1>9 DEF IsFragment
  <2> HIDE DEF part
  <2>2. /\ Frame(f.packet, <<part>>).parts = <<part>>
        /\ <<part>>[1] = part /\ Len(<<part>>) = 1 /\ DOMAIN <<part>> = {1}
    BY DEF Frame
  <2>3. IsWhole(messages, <<part>>)
    <3>1. Len(<<part>>) = messages[f.msg].n
      BY <1>3, <2>1, <2>2
    <3>2. part = [msg |-> f.msg, seq |-> 1 - 1, intact |-> TRUE]
      BY <1>6, <2>1 DEF IsPart
    <3>3. QED
      BY <1>6, <2>2, <3>1, <3>2 DEF IsWhole
  <2>4. Taking(Frame(f.packet, <<part>>))
    BY <1>6, <1>9, <2>2, <2>3
  <2>5. UNCHANGED Kept
    BY <1>9 DEF Kept
  <2>6. QED
    BY <1>7, <2>1, <2>4, <2>5
<1> HIDE DEF info, part
<1>10. CASE /\ IsComplete(info)
            /\ fragmentMap' = [fragmentMap EXCEPT ![f.packet] = NoFragments]
            /\ completeFrames' = Append(completeFrames, Frame(f.packet, InOrder(info.parts, info.total)))
  <2>1. f.last /\ info.total = f.seq + 1 /\ DOMAIN info.parts = 0 .. f.seq
    BY <1>5, <1>10
  <2>2. Kept' = NoFragments /\ NoFragments.total = 0 /\ DOMAIN NoFragments.parts = {}
    BY <1>2, <1>10 DEF Kept, NoFragments
  <2>3. DOMAIN info.parts = 0 .. info.total - 1 /\ info.total \in Nat \ {0}
    BY <1>3, <2>1
  <2> DEFINE whole == InOrder(info.parts, info.total)
  <2>4. whole = [i \in 1 .. info.total |-> info.parts[i - 1]]
    BY <2>3, InOrderWhole
  <2> HIDE DEF whole
  <2>5. ASSUME NEW r \in 0 .. f.seq
        PROVE  info.parts[r] = [msg |-> f.msg, seq |-> r, intact |-> TRUE]
    <3>1. CASE r = f.seq
      BY <1>5, <1>6, <3>1 DEF IsPart
    <3>2. CASE r # f.seq
      <4>1. r \in DOMAIN Kept.parts /\ Kept.parts[r].msg = f.msg
        BY <1>3, <1>4, <3>2
      <4>2. info.parts[r] = Kept.parts[r]
        BY <1>5, <3>2, <4>1
      <4>3. IsPart(Kept.parts[r], r)
        BY <1>4, <4>1, Zenon
      <4>4. QED
        BY <4>1, <4>2, <4>3, Zenon DEF IsPart
    <3>3. QED
      BY <3>1, <3>2
  <2>6. ASSUME NEW i \in 1 .. info.total
        PROVE  whole[i] = [msg |-> f.msg, seq |-> i - 1, intact |-> TRUE]
    <3>1. i - 1 \in 0 .. f.seq
      BY <1>3, <2>1
    <3>2. QED
      BY <2>4, <2>5, <3>1
  <2>7. Len(whole) = info.total /\ DOMAIN whole = 1 .. info.total /\ 1 \in 1 .. info.total
    BY <2>3, <2>4
  <2>8. whole[1].msg = f.msg
    <3>1. whole[1] = [msg |-> f.msg, seq |-> 1 - 1, intact |-> TRUE]
      BY <2>6, <2>7, Zenon
    <3>2. QED
      BY <3>1
  <2>9. IsWhole(messages, whole)
    <3>1. Len(whole) = messages[f.msg].n
      BY <1>3, <2>1, <2>7
    <3>2. QED
      BY <2>6, <2>7, <2>8, <3>1, Zenon DEF IsWhole
  <2>10. Frame(f.packet, whole).parts = whole
    BY DEF Frame
  <2>11. Taking(Frame(f.packet, whole))
    BY <1>10, <2>8, <2>9, <2>10, Zenon DEF whole
  <2>12. ASSUME NEW x \in Nat, NEW r \in Nat, f.msg < x,
                (r \in DOMAIN Kept.parts /\ Kept.parts[r].msg = x) \/ (x = f.msg /\ r = f.seq)
         PROVE  FALSE
    <3>1. CASE r \in DOMAIN Kept.parts /\ Kept.parts[r].msg = x
      <4>1. x <= f.msg
        BY <1>4, <3>1
      <4>2. QED
        BY <1>3, <2>12, <4>1
    <3>2. CASE x = f.msg
      BY <1>3, <2>12, <3>2
    <3>3. QED
      BY <2>12, <3>1, <3>2
  <2>13. DOMAIN Kept'.parts = {} /\ DOMAIN Kept'.parts = 0 .. 0 - 1 /\ Kept'.total = 0 /\ 0 \in Nat
    BY <2>2
  <2>14. \E k \in Nat : DOMAIN Kept'.parts = 0 .. k - 1 /\ (Kept'.total = 0 \/ k > Kept'.total)
    BY <2>13
  <2>15. \E frame : Taking(frame)
    BY <2>11, Zenon
  <2>16. /\ \A x, r \in Nat :
              /\ f.msg <= x /\ (f.last => f.msg < x)
              /\ (r \in DOMAIN Kept.parts /\ Kept.parts[r].msg = x) \/ (x = f.msg /\ r = f.seq)
              => r \in DOMAIN Kept'.parts /\ Kept'.parts[r].msg = x
         /\ \A s \in DOMAIN Kept'.parts :
              /\ IsPart(Kept'.parts[s], s)
              /\ Kept'.parts[s].msg \in Nat /\ Kept'.parts[s].msg <= f.msg
    <3>1. \A s \in DOMAIN Kept'.parts : FALSE
      BY <2>13
    <3>2. QED
      BY <2>1, <2>12, <3>1, Zenon
  <2>17. QED
    BY <2>1, <2>14, <2>15, <2>16, FlowTakesFrame
<1>11. CASE /\ ~IsComplete(info)
            /\ fragmentMap' = [fragmentMap EXCEPT ![f.packet] = info]
            /\ UNCHANGED completeFrames
  <2>1. Kept' = info
    BY <1>2, <1>11 DEF Kept
  <2>2. ASSUME NEW x \in Nat, NEW r \in Nat, f.msg <= x,
               (r \in DOMAIN Kept.parts /\ Kept.parts[r].msg = x) \/ (x = f.msg /\ r = f.seq)
        PROVE  r \in DOMAIN info.parts /\ info.parts[r].msg = x
    <3>1. CASE r = f.seq
      <4>1. x = f.msg
        <5>1. CASE r \in DOMAIN Kept.parts /\ Kept.parts[r].msg = x
          <6>1. x <= f.msg
            BY <1>4, <5>1
          <6>2. QED
            BY <1>3, <2>2, <6>1
        <5>2. QED
          BY <2>2, <5>1
      <4>2. QED
        BY <1>5, <1>6, <3>1, <4>1
    <3>2. CASE r # f.seq
      BY <1>5, <2>2, <3>2
    <3>3. QED
      BY <3>1, <3>2
  <2>3. ASSUME NEW s \in DOMAIN info.parts
        PROVE  /\ IsPart(info.parts[s], s)
               /\ info.parts[s].msg \in Nat /\ info.parts[s].msg <= f.msg
    <3>1. CASE s = f.seq
      <4>1. info.parts[s] = part
        BY <1>5, <3>1, Zenon
      <4>2. IsPart(info.parts[s], s)
        BY <1>6, <3>1, <4>1, Zenon
      <4>3. info.parts[s].msg = f.msg
        BY <1>6, <4>1, Zenon
      <4>4. QED
        BY <1>3, <4>2, <4>3
    <3>2. CASE s # f.seq
      <4>1. s \in DOMAIN Kept.parts /\ info.parts[s] = Kept.parts[s]
        BY <1>5, <3>2
      <4>2. QED
        BY <1>4, <4>1, Zenon
    <3>3. QED
      BY <3>1, <3>2
  <2>4. /\ \A x, r \in Nat :
             /\ f.msg <= x /\ (f.last => f.msg < x)
             /\ (r \in DOMAIN Kept.parts /\ Kept.parts[r].msg = x) \/ (x = f.msg /\ r = f.seq)
             => r \in DOMAIN Kept'.parts /\ Kept'.parts[r].msg = x
        /\ \A s \in DOMAIN Kept'.parts :
             /\ IsPart(Kept'.parts[s], s)
             /\ Kept'.parts[s].msg \in Nat /\ Kept'.parts[s].msg <= f.msg
        /\ \E k \in Nat : DOMAIN Kept'.parts = 0 .. k - 1 /\ (Kept'.total = 0 \/ k > Kept'.total)
    BY <1>5, <1>11, <2>1, <2>2, <2>3, Zenon DEF Incomplete
  <2>5. QED
    BY <1>11, <2>4, FlowTakesFrame
<1>12. QED
  BY <1>1, <1>8, <1>9, <1>10, <1>11

LEMMA FlowExtracts ==
  ASSUME EnvironmentOK, BytesOK, FragmentsOK, FramesOK, BytesAligned, FlowInv, HandlerExtracts
  PROVE  FlowInv'
<1>1. Extract /\ UNCHANGED <<sending, messages, handled, rxMailbox, rxReady, chip>>
  BY DEF HandlerExtracts, environment, ghosts, mail
<1>2. Stream # <<>> /\ Stream[1] = Head(unread) /\ Stream' = Tail(Stream)
  <2>1. unread # <<>> /\ unread' = Tail(unread)
    BY <1>1, ExtractAligned
  <2>2. QED
    BY <1>1, <2>1, StreamLookedAt
<1> DEFINE u == Stream[1]
           f == u.frame
<1>3. u \in Units
  BY <1>1, <1>2, ExtractAligned
<1>4. f \in Frames /\ f.packet \in {MASTER_TO_SLAVE, SLAVE_TO_MASTER}
  <2>1. f \in Frames
    BY <1>3 DEF Units
  <2> HIDE DEF f
  <2>2. QED
    BY <2>1 DEF Frames
<1>5. \/ u.part = "head" /\ UNCHANGED <<fragmentMap, completeFrames>>
      \/ u.part # "head" /\ AcceptWhole(f, TRUE)
  <2>1. \/ Head(unread).part = "head" /\ UNCHANGED <<fragmentMap, completeFrames>>
        \/ Head(unread).part # "head" /\ AcceptWhole(Head(unread).frame, TRUE)
    BY <1>1, ExtractAligned
  <2>2. QED
    BY <1>2, <2>1, Zenon
<1>6. CASE Completes(u)
  <2>1. AcceptWhole(f, TRUE)
    BY <1>5, <1>6 DEF Completes
  <2>2. f = Stream[1].frame /\ Completes(Stream[1])
    BY <1>6
  <2> HIDE DEF f
  <2>3. QED
    BY <1>1, <1>2, <1>4, <2>1, <2>2, FlowAccepts
<1>7. CASE ~Completes(u)
  <2>1. \/ UNCHANGED <<fragmentMap, completeFrames>>
        \/ f.packet # MASTER_TO_SLAVE /\ AcceptWhole(f, TRUE)
    BY <1>5, <1>7 DEF Completes
  <2> HIDE DEF f
  <2>2. /\ UNCHANGED Kept
        /\ \/ UNCHANGED completeFrames
           \/ \E frame : completeFrames' = Append(completeFrames, frame) /\ frame.packet # MASTER_TO_SLAVE
    BY <1>4, <2>1, OthersLeaveKept DEF Kept
  <2>3. QED
    BY <1>1, <1>2, <1>7, <2>2, FlowPasses
<1>8. QED
  BY <1>6, <1>7

LEMMA FlowStep ==
  ASSUME TypeInv, MailboxInv, BytesAligned, FlowInv, [Next]_vars, ~Spoiled'
  PROVE  FlowInv'
<1> USE DEF TypeInv
<1>1. CASE UNCHANGED <<Stream, sending, messages, Kept, completeFrames, handled>>
  BY <1>1, FlowSame
<1>2. CASE OtherSlaveSends
  <2>1. PICK seq \in 0 .. 1 : chip' = chip \o UnitsOf(Fragment(SLAVE_TO_MASTER, 0, seq, seq = 1, FALSE))
    BY <1>2 DEF OtherSlaveSends
  <2> DEFINE f == Fragment(SLAVE_TO_MASTER, 0, seq, seq = 1, FALSE)
  <2>2. f.packet # MASTER_TO_SLAVE
    BY DEF Fragment, MASTER_TO_SLAVE, SLAVE_TO_MASTER
  <2>3. f \in Frames /\ chip' = chip \o UnitsOf(f)
    BY <2>1, OthersFrame, Zenon
  <2>4. UNCHANGED <<rxMailbox, rxReady, unread, sending, messages, Kept, completeFrames, handled>>
    BY <1>2 DEF OtherSlaveSends, mail, ghosts, processorVars, Kept
  <2> HIDE DEF f
  <2>5. Stream' = Stream \o UnitsOf(f)
    BY <2>3, <2>4, StreamGrows
  <2>6. QED
    BY <2>2, <2>3, <2>4, <2>5, FlowOthers
<1>3. CASE RadioReceive
  <2>1. Len(chip) <= MailboxSize
    BY <1>3, ReceptionFits
  <2>2. UNCHANGED Stream
    BY <1>3, <2>1, StreamPassedOn
  <2>3. UNCHANGED <<sending, messages, Kept, completeFrames, handled>>
    BY <1>3 DEF RadioReceive, environment, processorVars, Kept
  <2>4. QED
    BY <1>1, <2>2, <2>3
<1>4. CASE HandlerReceives
  <2>1. UNCHANGED Stream
    BY <1>4, StreamTakenOut
  <2>2. UNCHANGED <<sending, messages, Kept, completeFrames, handled>>
    BY <1>4 DEF HandlerReceives, ProcessReceivedData, environment, ghosts, Kept
  <2>3. QED
    BY <1>1, <2>1, <2>2
<1>5. CASE HandlerIgnores \/ HandlerAnswers \/ HandlerSync
  <2>1. PICK frame : Taken(frame)
    BY <1>5 DEF HandlerIgnores, HandlerAnswers, HandlerSync
  <2>2. UNCHANGED <<sending, messages, chip, rxMailbox, rxReady>>
    BY <1>5 DEF HandlerIgnores, HandlerAnswers, HandlerSync, environment, mail
  <2>3. UNCHANGED <<unread, fragmentMap>>
    BY <2>1 DEF Taken, NextCompleteFrame
  <2>4. UNCHANGED <<Stream, Kept>>
    BY <2>2, <2>3 DEF Stream, Received, Kept
  <2>5. QED
    BY <2>1, <2>2, <2>4, FlowTaken
<1>6. CASE MasterBegins \/ FragmentArrives \/ FragmentLost \/ HandlerExtracts
  BY <1>6, FlowBegins, FlowArrives, FlowLost, FlowExtracts
<1>7. CASE \/ TouchButton \/ CollectionSends \/ Tick \/ AccessoryStep \/ RadioTransmit \/ HandlerFindsNothing
           \/ HandlerDone \/ HandlerResets \/ UNCHANGED vars
  <2>1. UNCHANGED <<sending, messages, fragmentMap, completeFrames, handled>>
    BY <1>7 DEF TouchButton, CollectionSends, Tick, AccessoryStep, RadioTransmit, HandlerFindsNothing,
         HandlerDone, HandlerResets, vars, environment, ghosts, processorVars
  <2>2. UNCHANGED <<unread, rxMailbox, rxReady, chip>>
    BY <1>7 DEF TouchButton, CollectionSends, Tick, AccessoryStep, RadioTransmit, HandlerFindsNothing,
         HandlerDone, HandlerResets, vars, mail, processorVars
  <2>3. UNCHANGED <<Stream, Kept>>
    BY <2>1, <2>2 DEF Stream, Received, Kept
  <2>4. QED
    BY <1>1, <2>1, <2>3
<1>8. QED
  BY <1>2, <1>3, <1>4, <1>5, <1>6, <1>7 DEF Next, HandlerPolls, HandlerProcesses, RadioStep

\* What was lost stays lost.
LEMMA SpoiledForGood ==
  ASSUME [Next]_vars, Spoiled
  PROVE  Spoiled'
<1>1. troubles \subseteq troubles'
  <2>1. CASE FragmentLost \/ RadioReceive \/ CollectionSends
    BY <2>1 DEF FragmentLost, RadioReceive, CollectionSends
  <2>2. CASE UNCHANGED troubles
    BY <2>2
  <2>3. CASE \/ MasterBegins \/ FragmentArrives \/ OtherSlaveSends \/ TouchButton \/ Tick \/ AccessoryStep
             \/ RadioTransmit \/ HandlerPolls \/ HandlerProcesses \/ UNCHANGED vars
    BY <2>2, <2>3 DEF MasterBegins, FragmentArrives, OtherSlaveSends, TouchButton, Tick, AccessoryStep, RadioTransmit,
         HandlerPolls, HandlerReceives, HandlerFindsNothing, HandlerProcesses, HandlerExtracts, HandlerDone,
         HandlerIgnores, HandlerAnswers, HandlerSync, HandlerResets, vars, ghosts
  <2>4. QED
    BY <2>1, <2>3 DEF Next, RadioStep
<1>2. QED
  BY <1>1 DEF Spoiled, Lost

LEMMA StreamInitially == Init => StreamInv
<1> SUFFICES ASSUME Init PROVE BytesAligned /\ FlowInv
  BY DEF StreamInv
<1>1. /\ messages = <<>> /\ sending = <<>> /\ chip = <<>> /\ unread = <<>> /\ receiveBuffer = <<>>
      /\ Received = <<>> /\ completeFrames = <<>> /\ handled = <<>>
  BY DEF Init, ProcessorInit, Received
<1>2. Kept = NoFragments
  BY PacketAssumption DEF Init, ProcessorInit, Kept
<1>3. <<>> \o <<>> = <<>> /\ DOMAIN <<>> = {}
  BY EmptySeq
<1>4. Stream = <<>>
  BY <1>1, <1>3 DEF Stream
<1>5. BytesAligned
  BY <1>1, <1>3 DEF BytesAligned, Aligned
<1>6. SendingRest /\ InOrderSent /\ NoneMissing
  BY <1>1, <1>3, <1>4 DEF SendingRest, InOrderSent, NoneMissing
<1>7. PartsRight
  <2>1. DOMAIN Kept.parts = {} /\ Kept.total = 0
    BY <1>2, <1>3 DEF NoFragments
  <2>2. {} = 0 .. 0 - 1 /\ 0 \in Nat
    OBVIOUS
  <2>3. QED
    BY <2>1, <2>2 DEF PartsRight
<1>8. FramesRight
  BY <1>1, <1>3 DEF FramesRight
<1>9. QED
  BY <1>5, <1>6, <1>7, <1>8 DEF FlowInv

(* As long as no inner fragment was lost and no reception cut, the         *)
(* messages handled are whole, each once and in the order they were sent   *)
(* (ProtocolProcessor.cpp:741-943): the bytes of a frame stay together,    *)
(* and of a message that is put together every fragment was kept.          *)
THEOREM MessagesWholeInOrder == Spec => []HandledWholeInOrder
<1>1. Init => TypeInv /\ LockInv /\ MailboxInv /\ StreamInv
  <2>1. Init => MailboxInv
    BY DEF Init, MailboxInv
  <2>2. QED
    BY <2>1, TypesInitially, LockInitially, StreamInitially DEF Init
<1>2. TypeInv /\ LockInv /\ MailboxInv /\ [Next]_vars => TypeInv' /\ LockInv' /\ MailboxInv'
  BY EnvironmentStep, BytesStep, FramesStep, TasksStep, LockStep, UpdateKeepsLockInv, ResetKeepsLockInv, MailboxStep
     DEF TypeInv
<1>3. TypeInv /\ MailboxInv /\ StreamInv /\ [Next]_vars => StreamInv'
  <2> SUFFICES ASSUME TypeInv, MailboxInv, StreamInv, [Next]_vars, ~Spoiled'
               PROVE  BytesAligned' /\ FlowInv'
    BY DEF StreamInv
  <2>1. BytesAligned /\ FlowInv
    BY SpoiledForGood DEF StreamInv
  <2>2. BytesAligned'
    BY <2>1, BytesAlignedStep DEF TypeInv
  <2>3. FlowInv'
    BY <2>1, FlowStep
  <2>4. QED
    BY <2>2, <2>3
<1>4. TypeInv /\ StreamInv => HandledWholeInOrder
  <2> SUFFICES ASSUME TypeInv, StreamInv, ~Spoiled PROVE HandledWholeInOrder
    BY DEF HandledWholeInOrder, Spoiled
  <2>1. FramesRight
    BY DEF StreamInv, FlowInv
  <2>2. ASSUME NEW i \in DOMAIN handled PROVE Whole(handled[i])
    BY <2>1 DEF FramesRight, IsWhole, Whole
  <2>3. ASSUME NEW i \in DOMAIN handled, NEW j \in DOMAIN handled, i < j
        PROVE  handled[i][1].msg < handled[j][1].msg
    BY <2>1, <2>3 DEF FramesRight
  <2>4. QED
    BY <2>2, <2>3 DEF HandledWholeInOrder
<1>5. QED
  BY <1>1, <1>2, <1>3, <1>4, PTL DEF Spec
=============================================================================
