----------------------------- MODULE ReceivePath -----------------------------
(***************************************************************************)
(* What becomes of the master's messages: the radio chip hands frames to   *)
(* the radio task, which puts them into a mailbox for one reception;       *)
(* SlaveDataProcT takes them out, puts fragments together, handles the     *)
(* messages and answers requests through a mailbox for one frame, which    *)
(* DataCollectionTask uses as well.  A sync message may reset the lock,    *)
(* next to AccessoryTask.                                                  *)
(*                                                                         *)
(* SlaveDataProcT, AccessoryTask and DataCollectionTask have the same      *)
(* priority, above the radio task; radio task and SlaveDataProcT sleep     *)
(* until the next tick after each round.  The slots a sync message is      *)
(* about, and when DataCollectionTask sends, are the matter of             *)
(* SlaveDevice: here it may do so at any time.                             *)
(***************************************************************************)
EXTENDS Reassembly, LockController

CONSTANTS
  Traffic,       (* What the environment may do in a behaviour: a set of   *)
                 (* [kinds, messages, losses, others, touches, frames].    *)
  MailboxSize    (* FRAME_LEN_MAX, in units.                               *)

Requests == {"ping", "shortId"}
MASTER_TO_SLAVE == "m2s"
SLAVE_TO_MASTER == "s2m"
NoAnswer == 0

(* A kind of message: a sync message or a request, in n fragments, for     *)
(* this slave or all, the reset flag of this slave's entry, and whether    *)
(* the last fragment is tiny.                                              *)
MessageKind ==
  [kind : Requests \union {"sync"}, n : Nat \ {0}, mine : BOOLEAN, reset : BOOLEAN, tiny : BOOLEAN]

ASSUME PacketAssumption == MASTER_TO_SLAVE \in Packet /\ SLAVE_TO_MASTER \in Packet
ASSUME TrafficAssumption ==
  Traffic \subseteq [kinds : SUBSET MessageKind, messages : Nat, losses : Nat, others : Nat,
                      touches : Nat, frames : Nat]
ASSUME MailboxAssumption == MailboxSize \in Nat \ {0} /\ MaxBuffer >= 4 * MailboxSize

VARIABLES
  traffic,     (* What is left of it.                                      *)
  messages,    (* The kinds of the messages sent; a message is its index.  *)
  sending,     (* The fragments the master has yet to send.                *)
  chip,        (* transparent_data: what the radio chip has received.      *)
  rxMailbox,   (* rxBuffer.                                                *)
  rxReady,     (* uwbRxSemaphore.                                          *)
  txMailbox,   (* txBuffer, by the request it answers; NoAnswer for a      *)
               (* frame of DataCollectionTask.                             *)
  txReady,     (* uwbTxSemaphore.                                          *)
  radio,       (* Where the radio task is in its round.                    *)
  handler,     (* Where SlaveDataProcT is.                                 *)
  idle,        (* A round of the radio task since AccessoryTask last woke. *)
  joined,      (* m_isJoined, set with m_shortId.                          *)
  handled,     (* Ghost: the master's messages taken, as their parts.      *)
  answered,    (* Ghost: the requests whose answer was transmitted.        *)
  troubles     (* Ghost: what was lost, "inside" or the "last" of a message *)
               (* [what, msg], "cut" off at the mailbox, or the answer     *)
               (* "replaced" before it was transmitted.                    *)

environment == <<traffic, messages, sending>>
tasks == <<radio, handler, idle>>
mail == <<rxMailbox, rxReady, txMailbox, txReady>>
ghosts == <<handled, answered, troubles>>
vars == <<environment, chip, mail, tasks, joined, ghosts, processorVars, lockVars>>

Init ==
  /\ traffic \in Traffic
  /\ messages = <<>> /\ sending = <<>>
  /\ chip = <<>>
  /\ rxMailbox = <<>> /\ rxReady = FALSE
  /\ txMailbox = NoAnswer /\ txReady = FALSE
  /\ radio = "sleep" /\ handler = "sleep" /\ idle = TRUE
  /\ joined = FALSE
  /\ handled = <<>> /\ answered = {} /\ troubles = {}
  /\ ProcessorInit
  /\ LockInit

-----------------------------------------------------------------------------
MaxMessages == Max({x.messages : x \in Traffic})

(* The air.  packMaster2SlaveMessage makes the fragments; those of other   *)
(* slaves' data are heard as well.                                         *)

FragmentsOf(m, k) ==
  [i \in 1 .. k.n |-> Fragment(MASTER_TO_SLAVE, m, i - 1, i = k.n, k.tiny /\ i = k.n)]

MasterBegins ==
  /\ sending = <<>>
  /\ traffic.messages > 0
  /\ \E k \in traffic.kinds :
       /\ messages' = Append(messages, k)
       /\ sending' = FragmentsOf(Len(messages) + 1, k)
  /\ traffic' = [traffic EXCEPT !.messages = @ - 1]
  /\ UNCHANGED <<chip, mail, tasks, joined, ghosts, processorVars, lockVars>>

FragmentArrives ==
  /\ sending # <<>>
  /\ chip' = chip \o UnitsOf(Head(sending))
  /\ sending' = Tail(sending)
  /\ UNCHANGED <<traffic, messages, mail, tasks, joined, ghosts, processorVars, lockVars>>

FragmentLost ==
  /\ sending # <<>>
  /\ traffic.losses > 0
  /\ traffic' = [traffic EXCEPT !.losses = @ - 1]
  /\ troubles' = troubles \union
       {[what |-> IF Head(sending).last THEN "last" ELSE "inside", msg |-> Head(sending).msg]}
  /\ sending' = Tail(sending)
  /\ UNCHANGED <<messages, chip, mail, tasks, joined, handled, answered, processorVars, lockVars>>

OtherSlaveSends ==
  /\ traffic.others > 0
  /\ traffic' = [traffic EXCEPT !.others = @ - 1]
  /\ \E seq \in 0 .. 1 :
       chip' = chip \o UnitsOf(Fragment(SLAVE_TO_MASTER, 0, seq, seq = 1, FALSE))
  /\ UNCHANGED <<messages, sending, mail, tasks, joined, ghosts, processorVars, lockVars>>

TouchButton ==
  /\ traffic.touches > 0
  /\ traffic' = [traffic EXCEPT !.touches = @ - 1]
  /\ \E b \in Button : Touch(b)
  /\ UNCHANGED <<messages, sending, chip, mail, tasks, joined, ghosts, processorVars>>

(* DataCollectionTask hands over a fragment or the response to a reset     *)
(* request: an answer that waits in the mailbox is lost.                   *)
CollectionSends ==
  /\ traffic.frames > 0
  /\ traffic' = [traffic EXCEPT !.frames = @ - 1]
  /\ txMailbox' = NoAnswer
  /\ txReady' = TRUE
  /\ troubles' = IF txReady /\ txMailbox # NoAnswer
                   THEN troubles \union {[what |-> "replaced", msg |-> txMailbox]}
                   ELSE troubles
  /\ UNCHANGED <<messages, sending, chip, rxMailbox, rxReady, tasks, joined, handled, answered,
                 processorVars, lockVars>>

-----------------------------------------------------------------------------
(* The tick interrupt ends the sleep of one tick.                          *)
Tick ==
  /\ radio = "sleep" \/ handler = "sleep"
  /\ radio' = IF radio = "sleep" THEN "tx" ELSE radio
  /\ handler' = IF handler = "sleep" THEN "poll" ELSE handler
  /\ UNCHANGED <<idle, environment, chip, mail, joined, ghosts, processorVars, lockVars>>

(* AccessoryTask sleeps UPDATE_INTERVAL_MS, several ticks, in which the    *)
(* radio task gets through a round.                                        *)
AccessoryStep ==
  /\ \/ Wake /\ idle /\ idle' = FALSE
     \/ UpdateStep /\ UNCHANGED idle
  /\ UNCHANGED <<environment, chip, mail, radio, handler, joined, ghosts, processorVars>>

-----------------------------------------------------------------------------
(* MasterComm::UwbCommTask.                                                *)

RadioRuns == handler = "sleep" /\ accessory.at = "sleep"

RadioTransmit ==
  /\ RadioRuns
  /\ radio = "tx"
  /\ IF txReady
     THEN answered' = answered \union {txMailbox} /\ txReady' = FALSE
     ELSE UNCHANGED <<answered, txReady>>
  /\ radio' = "rx"
  /\ UNCHANGED <<environment, chip, rxMailbox, rxReady, txMailbox, handler, idle, joined,
                 handled, troubles, processorVars, lockVars>>

\* What of the bytes of the chip fits into the mailbox.
Reception == SubSeq(chip, 1, Min({Len(chip), MailboxSize}))

\* A bug: the round starts again at once.
RadioReceiveAtOnce ==
  /\ RadioRuns
  /\ radio = "rx"
  /\ IF chip # <<>>
     THEN /\ rxMailbox' = Reception
          /\ rxReady' = TRUE
          /\ chip' = <<>>
          /\ troubles' = IF Len(chip) > MailboxSize THEN troubles \union {[what |-> "cut", msg |-> 0]} ELSE troubles
     ELSE UNCHANGED <<rxMailbox, rxReady, chip, troubles>>
  /\ radio' = "tx"
  /\ idle' = TRUE
  /\ UNCHANGED <<environment, txMailbox, txReady, handler, joined, handled, answered,
                 processorVars, lockVars>>

(* get_recv_data takes all the chip has; what does not fit into the        *)
(* mailbox is dropped.                                                     *)
RadioReceive ==
  /\ RadioRuns
  /\ radio = "rx"
  /\ IF chip # <<>>
     THEN /\ rxMailbox' = Reception
          /\ rxReady' = TRUE
          /\ chip' = <<>>
          /\ troubles' = IF Len(chip) > MailboxSize THEN troubles \union {[what |-> "cut", msg |-> 0]} ELSE troubles
     ELSE UNCHANGED <<rxMailbox, rxReady, chip, troubles>>
  /\ radio' = "sleep"
  /\ idle' = TRUE
  /\ UNCHANGED <<environment, txMailbox, txReady, handler, joined, handled, answered,
                 processorVars, lockVars>>

-----------------------------------------------------------------------------
(* SlaveDataProcT::task.                                                   *)

HandlerReceives ==
  /\ handler = "poll"
  /\ rxReady
  /\ rxReady' = FALSE
  /\ ProcessReceivedData(rxMailbox)
  /\ handler' = "process"
  /\ UNCHANGED <<environment, chip, rxMailbox, txMailbox, txReady, radio, idle, joined, ghosts, lockVars>>

HandlerFindsNothing ==
  /\ handler = "poll"
  /\ ~rxReady
  /\ handler' = "sleep"
  /\ UNCHANGED <<environment, chip, mail, radio, idle, joined, ghosts, processorVars, lockVars>>

HandlerExtracts ==
  /\ handler = "process"
  /\ Extract
  /\ UNCHANGED <<environment, chip, mail, tasks, joined, ghosts, lockVars>>

\* A bug: what is left of completeFrames waits for the next reception.
HandlerDoneEarly ==
  /\ handler = "process"
  /\ unread = <<>>
  /\ resetting = 0
  /\ handler' = "sleep"
  /\ UNCHANGED <<environment, chip, mail, radio, idle, joined, ghosts, processorVars, lockVars>>

HandlerDone ==
  /\ handler = "process"
  /\ unread = <<>> /\ completeFrames = <<>>
  /\ resetting = 0
  /\ handler' = "sleep"
  /\ UNCHANGED <<environment, chip, mail, radio, idle, joined, ghosts, processorVars, lockVars>>

Whole(parts) ==
  /\ Len(parts) = messages[parts[1].msg].n
  /\ \A i \in DOMAIN parts : parts[i] = [msg |-> parts[1].msg, seq |-> i - 1, intact |-> TRUE]

KindOf(parts) == messages[parts[1].msg]

\* Another slave's data, or a message for another slave, is of no interest.
IsForUs(frame) == frame.packet = MASTER_TO_SLAVE /\ KindOf(frame.parts).mine

(* One frame of processFrame.  The head of a message says what it is, the  *)
(* entry of this slave is in its last part; one that is not whole may      *)
(* still parse, and is then carried out.                                   *)
Taken(frame) ==
  /\ handler = "process"
  /\ resetting = 0
  /\ NextCompleteFrame(frame)
  /\ handled' = IF frame.packet = MASTER_TO_SLAVE THEN Append(handled, frame.parts) ELSE handled

HandlerIgnores ==
  \E frame \in ToSet(completeFrames) :
    /\ Taken(frame)
    /\ IsForUs(frame) => ~Whole(frame.parts)
    /\ UNCHANGED <<environment, chip, mail, tasks, joined, answered, troubles, lockVars>>

\* A bug: the radio task is not told of the response.
HandlerAnswersSilently ==
  \E frame \in ToSet(completeFrames) :
    /\ Taken(frame)
    /\ IsForUs(frame) /\ KindOf(frame.parts).kind \in Requests
    /\ joined' = (joined \/ KindOf(frame.parts).kind = "shortId")
    /\ txMailbox' = frame.parts[1].msg
    /\ UNCHANGED <<environment, chip, rxMailbox, rxReady, txReady, tasks, answered, troubles, lockVars>>

\* PingRequestHandler and ShortIdAssignHandler, with SendData of the response.
HandlerAnswers ==
  \E frame \in ToSet(completeFrames) :
    /\ Taken(frame)
    /\ IsForUs(frame) /\ KindOf(frame.parts).kind \in Requests
    /\ joined' = (joined \/ KindOf(frame.parts).kind = "shortId")
    /\ txMailbox' = frame.parts[1].msg
    /\ txReady' = TRUE
    /\ UNCHANGED <<environment, chip, rxMailbox, rxReady, tasks, answered, troubles, lockVars>>

\* The part of SyncMessageHandler that is not in SlaveDevice: resetDevice.
HandlerSync ==
  \E frame \in ToSet(completeFrames) :
    /\ Taken(frame)
    /\ IsForUs(frame) /\ KindOf(frame.parts).kind = "sync"
    /\ \E reset \in IF Whole(frame.parts) THEN {KindOf(frame.parts).reset} ELSE BOOLEAN :
         IF reset THEN ResetBegins ELSE UNCHANGED lockVars
    /\ UNCHANGED <<environment, chip, mail, tasks, joined, answered, troubles>>

HandlerResets ==
  /\ handler = "process"
  /\ ResetStep
  /\ UNCHANGED <<environment, chip, mail, tasks, joined, ghosts, processorVars>>

-----------------------------------------------------------------------------
HandlerPolls == HandlerReceives \/ HandlerFindsNothing
HandlerProcesses ==
  HandlerExtracts \/ HandlerDone \/ HandlerIgnores \/ HandlerAnswers \/ HandlerSync \/ HandlerResets

RadioStep == RadioTransmit \/ RadioReceive

Next ==
  \/ MasterBegins \/ FragmentArrives \/ FragmentLost \/ OtherSlaveSends
  \/ TouchButton \/ CollectionSends \/ Tick \/ AccessoryStep
  \/ HandlerPolls \/ HandlerProcesses \/ RadioStep

Spec == Init /\ [][Next]_vars

(* The tick interrupt and the tasks go on; the tasks of higher priority    *)
(* sleep most of the time, so that the radio task gets its turn although   *)
(* each tick takes the processor from it.  That SlaveDataProcT does not    *)
(* stay in its poll is fairness of HandlerPolls, said of handler alone.    *)
FairSpec ==
  /\ Spec
  /\ WF_vars(FragmentArrives) /\ WF_vars(Tick) /\ WF_vars(AccessoryStep) /\ SF_vars(RadioStep)
  /\ WF_handler(handler = "poll" /\ handler' \in {"process", "sleep"})
  /\ WF_vars(HandlerProcesses)

-----------------------------------------------------------------------------
(* The variables have their types; what is kept of a packet id is not      *)
(* complete, and a message number is that of a message sent.               *)
TypeOK ==
  /\ LockTypeOK
  /\ radio \in {"sleep", "tx", "rx"}
  /\ handler \in {"sleep", "poll", "process"}
  /\ Len(rxMailbox) <= MailboxSize
  /\ txMailbox \in {NoAnswer} \union DOMAIN messages
  /\ \A p \in Packet : 0 \in DOMAIN fragmentMap[p].parts =>
       Cardinality(DOMAIN fragmentMap[p].parts) # fragmentMap[p].total
  /\ resetting # 0 => handler = "process"

Lost(what) == \E x \in troubles : x.what \in what

(* The messages handled are whole, each once and in the order they were    *)
(* sent, whatever other slaves send in between, even when the last         *)
(* fragment of one was lost: the next message takes the place of what came *)
(* of it.  An inner fragment lost, or a reception cut at the mailbox,      *)
(* leaves a part that reassembleFragments joins with later messages.       *)
HandledWholeInOrder ==
  ~Lost({"inside", "cut"}) =>
    /\ \A i \in DOMAIN handled : Whole(handled[i])
    /\ \A i, j \in DOMAIN handled : i < j => handled[i][1].msg < handled[j][1].msg

\* Message m was taken as it was sent.
IsHandled(m) == \E i \in DOMAIN handled : handled[i][1].msg = m /\ Whole(handled[i])

RequestHandled(m) ==
  IsHandled(m) /\ messages[m].mine /\ messages[m].kind \in Requests

\* Of message y all fragments but the last were kept.
LeavesParts(y) == messages[y].tiny \/ [what |-> "last", msg |-> y] \in troubles

\* What an earlier message left has more parts than m has, and no message between made use of it.
Obstructed(m) ==
  \E y \in 1 .. m - 1 :
    /\ LeavesParts(y)
    /\ messages[m].n \in 2 .. messages[y].n - 2
    /\ \A z \in y + 1 .. m - 1 : messages[z].n < messages[y].n - 1 \/ LeavesParts(z)

(* A message whose fragments all arrive is handled in the end: the two     *)
(* polling tasks pass every reception on, and a message that lost its last *)
(* fragment does not stand in the way of the ones after it, unless it left *)
(* more parts than they have.  A last fragment of less than five bytes is  *)
(* not accepted (ProtocolProcessor.cpp:887).                               *)
MessageIsHandled ==
  \A m \in 1 .. MaxMessages :
    (m \in DOMAIN messages) ~>
      \/ IsHandled(m)
      \/ Lost({"inside", "cut"})
      \/ m \in DOMAIN messages /\ (messages[m].tiny \/ Obstructed(m) \/ [what |-> "last", msg |-> m] \in troubles)

(* A reception is taken out of the one-frame mailbox before the next one   *)
(* is written: both tasks sleep one tick and SlaveDataProcT goes first.    *)
NoReceptionOverwritten == [][rxMailbox' # rxMailbox => ~rxReady]_vars

(* A request handled is answered on the air, unless DataCollectionTask     *)
(* replaced the answer before the radio task read it, or another request   *)
(* is handled after it: when both came in one reception, its answer may    *)
(* overwrite the first.  A mailbox that is full refuses nothing.           *)
LastRequestIsAnswered ==
  \A m \in 1 .. MaxMessages :
    RequestHandled(m) ~>
      \/ m \in answered
      \/ [what |-> "replaced", msg |-> m] \in troubles
      \/ \E r \in m + 1 .. MaxMessages : RequestHandled(r)
=============================================================================
