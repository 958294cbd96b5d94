-------------------------------- MODULE Ltlp --------------------------------
(***************************************************************************)
(* The LTLP library (src/ota/ltlp): the state of the nodes that run it and *)
(* its operations, one operator per branch of the code.                    *)
(*                                                                         *)
(* An operation of node n takes two more arguments that stand for what it  *)
(* hands to its environment: send, the frames it gives to sendPortFunc,    *)
(* and call, the callback it makes ("none" if it makes none).  The caller  *)
(* binds them with \E over small sets.                                     *)
(*                                                                         *)
(* Timers are kept as the time since they were set, up to the value that   *)
(* the code compares them with; a timer that no branch reads is 0.         *)
(***************************************************************************)
EXTENDS Integers, Sequences

CONSTANTS
  Node,       (* The nodes, each with its own copy of the library.         *)
  Timeout,    (* LTLP_TIMEOUT_MS, in units of the clock.                   *)
  MaxRetry    (* LTLP_MAX_RETRY_TIMES.                                     *)

ASSUME TimeoutAssumption == Timeout \in Nat \ {0}
ASSUME MaxRetryAssumption == MaxRetry \in Nat

\* LtlpSysFrameMsgTypeDef; the user's message types share their numbers.
ACK == 0
NACK == 1
HANDSHAKE == 2

VARIABLES
  kernel,     (* g_kernelState.                                            *)
  waiting,    (* g_waitToSend, the transfer put off, or NoJob.             *)
  snd,        (* g_senderState, g_sendCtrl, g_lastSendTime.                *)
  rcv,        (* g_receiverState, g_recvCtrl.                              *)
  parser      (* g_kernelParseState, g_parserCtrl.                         *)

libVars == <<kernel, waiting, snd, rcv, parser>>

(* A transfer as ltlpSendData is asked for it: id tells transfers apart,   *)
(* total is what caculateFrameNum makes of the payload.                    *)
NoJob == [id |-> 0, msg |-> 0, total |-> 1, needAck |-> FALSE]

(* LtlpFrame; job is the transfer a frame is sent for, or answers to.      *)
SysFrame(msg, job) ==
  [type |-> "SYS", msg |-> msg, total |-> 1, needAck |-> (msg = HANDSHAKE),
   seq |-> 0, job |-> job.id]
AppFrame(job, seq) ==
  [type |-> "APP", msg |-> job.msg, total |-> job.total, needAck |-> job.needAck,
   seq |-> seq, job |-> job.id]
Answer(msg, f) == [SysFrame(msg, NoJob) EXCEPT !.job = f.job]
NoFrame == SysFrame(ACK, NoJob)

IdleSender == [state |-> "IDLE", job |-> NoJob, seq |-> 0, sent |-> 0, tries |-> 0, age |-> 0]
IdleReceiver == [state |-> "IDLE", count |-> 0, age |-> 0]
\* ltlpResetParser
EmptyParser == [state |-> "HEADER", frame |-> NoFrame, spoiled |-> FALSE, age |-> 0]

ReceiveLimit == Timeout * (MaxRetry + 1)
\* A parser this old is reset by ltlpKernelRun.
Stale == ReceiveLimit + 1

\* ltlpInit: ltlpKernelReset and ltlpSenderReset, in memory that is zero at start-up.
LibInit ==
  /\ kernel = [n \in Node |-> "IDLE"]
  /\ waiting = [n \in Node |-> NoJob]
  /\ snd = [n \in Node |-> IdleSender]
  /\ rcv = [n \in Node |-> IdleReceiver]
  /\ parser = [n \in Node |-> EmptyParser]

LibRestart(n) ==
  /\ kernel' = [kernel EXCEPT ![n] = "IDLE"]
  /\ waiting' = [waiting EXCEPT ![n] = NoJob]
  /\ snd' = [snd EXCEPT ![n] = IdleSender]
  /\ rcv' = [rcv EXCEPT ![n] = IdleReceiver]
  /\ parser' = [parser EXCEPT ![n] = EmptyParser]

-----------------------------------------------------------------------------
(* The sender, ltlp_sender.c.                                              *)

\* ltlpSenderReset after an error
GiveUp(n) == snd' = [snd EXCEPT ![n] = IdleSender]

\* A bug: the reset of the sender leaves its transfer in place.
NextFrameStateOnly(n, call) ==
  LET s == snd[n] IN
  IF s.sent + 1 = s.job.total
  THEN snd' = [snd EXCEPT ![n].state = "IDLE"] /\ call = "SEND_ALL_DATA_DONE"
  ELSE /\ snd' = [snd EXCEPT ![n] = [s EXCEPT !.sent = @ + 1, !.tries = 0,
                                              !.age = 0, !.state = "SENDING"]]
       /\ call = "none"

\* A bug: the frame after this one is not sent.
NextFrameEarly(n, call) ==
  LET s == snd[n] IN
  IF s.sent + 2 >= s.job.total
  THEN GiveUp(n) /\ call = "SEND_ALL_DATA_DONE"
  ELSE /\ snd' = [snd EXCEPT ![n] = [s EXCEPT !.sent = @ + 1, !.tries = 0,
                                              !.age = 0, !.state = "SENDING"]]
       /\ call = "none"

\* A frame is through: the next one, or the end of the transfer.
NextFrame(n, call) ==
  LET s == snd[n] IN
  IF s.sent + 1 = s.job.total
  THEN /\ snd' = [snd EXCEPT ![n] = IdleSender]
       /\ call = "SEND_ALL_DATA_DONE"
  ELSE /\ snd' = [snd EXCEPT ![n] = [s EXCEPT !.sent = @ + 1, !.tries = 0,
                                              !.age = 0, !.state = "SENDING"]]
       /\ call = "none"

\* ltlpSenderHandleSysFrame: the type of the frame is not looked at.
HandshakeAnswered(n, f, call) ==
  /\ snd[n].state = "HANDSHAKE"
  /\ f.msg = ACK
  /\ snd' = [snd EXCEPT ![n].state = "SENDING", ![n].age = 0]
  /\ call = "none"

HandshakeRefused(n, f, call) ==
  /\ snd[n].state = "HANDSHAKE"
  /\ f.msg = NACK
  /\ GiveUp(n)
  /\ call = "HANDSHAKE_ERROR"

FrameAcked(n, f, call) ==
  /\ snd[n].state = "WAIT_ACK"
  /\ f.msg = ACK
  /\ NextFrame(n, call)

FrameNacked(n, f, call) ==
  /\ snd[n].state = "WAIT_ACK"
  /\ f.msg = NACK
  /\ IF snd[n].tries + 1 <= MaxRetry
     THEN /\ snd' = [snd EXCEPT ![n].tries = @ + 1, ![n].age = 0, ![n].state = "SENDING"]
          /\ call = "none"
     ELSE /\ GiveUp(n)
          /\ call = "SEND_ERROR"

SenderIgnores(n, f, call) ==
  /\ snd[n].state \in {"IDLE", "SENDING"} \/ f.msg \notin {ACK, NACK}
  /\ call = "none"
  /\ UNCHANGED snd

SenderHandleSysFrame(n, f, call) ==
  \/ HandshakeAnswered(n, f, call)
  \/ HandshakeRefused(n, f, call)
  \/ FrameAcked(n, f, call)
  \/ FrameNacked(n, f, call)
  \/ SenderIgnores(n, f, call)

\* A bug: the header is filled in for repeated frames only.
FrameNumberStale(s) == IF s.tries = 0 THEN s.seq ELSE s.sent

(* ltlpSendOneFrame fills the header in only for the first try: a repeated *)
(* frame carries the number it carried before.                             *)
FrameNumber(s) == IF s.tries = 0 THEN s.sent ELSE s.seq

SendFrame(n, send, call) ==
  /\ snd[n].state = "SENDING"
  /\ LET s == snd[n]
         seq == FrameNumber(s)
     IN /\ send = <<AppFrame(s.job, seq)>>
        /\ IF s.job.needAck
           THEN /\ snd' = [snd EXCEPT ![n] = [s EXCEPT !.seq = seq, !.tries = @ + 1,
                                                       !.age = 0, !.state = "WAIT_ACK"]]
                /\ call = "none"
           ELSE NextFrame(n, call)

SenderTimedOut(n) ==
  /\ snd[n].state \in {"HANDSHAKE", "WAIT_ACK"}
  /\ snd[n].age >= Timeout

HandshakeTimeout(n, send, call) ==
  /\ snd[n].state = "HANDSHAKE"
  /\ SenderTimedOut(n)
  /\ GiveUp(n)
  /\ send = <<>>
  /\ call = "HANDSHAKE_ERROR"

\* A bug: the test of the tries is the wrong way round.
AckTimeoutReversed(n, send, call) ==
  /\ snd[n].state = "WAIT_ACK"
  /\ SenderTimedOut(n)
  /\ send = <<>>
  /\ IF snd[n].tries <= MaxRetry
     THEN GiveUp(n) /\ call = "SEND_ERROR"
     ELSE /\ snd' = [snd EXCEPT ![n].state = "SENDING", ![n].age = 0]
          /\ call = "none"

AckTimeout(n, send, call) ==
  /\ snd[n].state = "WAIT_ACK"
  /\ SenderTimedOut(n)
  /\ send = <<>>
  /\ IF snd[n].tries <= MaxRetry
     THEN /\ snd' = [snd EXCEPT ![n].state = "SENDING", ![n].age = 0]
          /\ call = "none"
     ELSE /\ GiveUp(n)
          /\ call = "SEND_ERROR"

SenderRun(n, send, call) ==
  \/ SendFrame(n, send, call)
  \/ HandshakeTimeout(n, send, call)
  \/ AckTimeout(n, send, call)

-----------------------------------------------------------------------------
(* The receiver, ltlp_receiver.c.  Every frame, of use or not, restarts    *)
(* its timer.                                                              *)

AcceptHandshake(n, f, send, call) ==
  /\ rcv[n].state = "IDLE"
  /\ f.type = "SYS" /\ f.msg = HANDSHAKE
  /\ rcv' = [rcv EXCEPT ![n].state = "RECVING", ![n].age = 0]
  /\ send = <<Answer(ACK, f)>>
  /\ call = "none"

AcceptFrame(n, f, send, call) ==
  /\ rcv[n].state = "RECVING"
  /\ f.type = "APP"
  /\ send = IF f.needAck THEN <<Answer(ACK, f)>> ELSE <<>>
  /\ IF rcv[n].count + 1 = f.total
     THEN /\ rcv' = [rcv EXCEPT ![n] = IdleReceiver]
          /\ call = "RECV_ALL_DATA"
     ELSE /\ rcv' = [rcv EXCEPT ![n].count = @ + 1, ![n].age = 0]
          /\ call = "RECV_ONE_FRAME"

ReceiverIgnores(n, f, send, call) ==
  /\ IF rcv[n].state = "IDLE" THEN ~(f.type = "SYS" /\ f.msg = HANDSHAKE) ELSE f.type = "SYS"
  /\ rcv' = [rcv EXCEPT ![n].age = 0]
  /\ send = <<>>
  /\ call = "none"

ReceiverHandleFrame(n, f, send, call) ==
  \/ AcceptHandshake(n, f, send, call)
  \/ AcceptFrame(n, f, send, call)
  \/ ReceiverIgnores(n, f, send, call)

ReceiverTimedOut(n) == rcv[n].state = "RECVING" /\ rcv[n].age >= ReceiveLimit

-----------------------------------------------------------------------------
(* The kernel, ltlp_kernel.c.                                              *)

\* ltlpKernelStartToSend; a sender is idle whenever its kernel is.
StartNow(n, job, send) ==
  /\ kernel[n] = "IDLE"
  /\ snd[n].state = "IDLE"
  /\ kernel' = [kernel EXCEPT ![n] = "SENDING"]
  /\ snd' = [snd EXCEPT ![n] = [IdleSender EXCEPT !.state = "HANDSHAKE", !.job = job]]
  /\ send = <<SysFrame(HANDSHAKE, job)>>

PutOff(n, job) ==
  /\ kernel[n] # "IDLE"
  /\ waiting[n] = NoJob
  /\ waiting' = [waiting EXCEPT ![n] = job]

\* ltlpKernelHandleFrame
KernelHandleFrame(n, f, send, call) ==
  \/ /\ kernel[n] = "IDLE"
     /\ f.type = "SYS" /\ f.msg = HANDSHAKE
     /\ ReceiverHandleFrame(n, f, send, call)
     /\ kernel' = [kernel EXCEPT ![n] = "RECEIVING"]
     /\ UNCHANGED snd
  \/ /\ kernel[n] = "IDLE"
     /\ ~(f.type = "SYS" /\ f.msg = HANDSHAKE)
     /\ send = <<>> /\ call = "none"
     /\ UNCHANGED <<kernel, snd, rcv>>
  \/ /\ kernel[n] = "SENDING"
     /\ send = <<>>
     /\ SenderHandleSysFrame(n, f, call)
     /\ UNCHANGED <<kernel, rcv>>
  \/ /\ kernel[n] = "RECEIVING"
     /\ ReceiverHandleFrame(n, f, send, call)
     /\ UNCHANGED <<kernel, snd>>

(* ltlpKernelParse on the bytes of one unit u of a frame: its header, or   *)
(* its payload with the CRC.  A system frame is all header.  age is the    *)
(* age of the parser: 0 at the start of a chunk, Stale once ltlpResetParser*)
(* has cleared its time within the chunk.                                  *)
Finished(n) == parser' = [parser EXCEPT ![n] = EmptyParser]

ParseHeader(n, u, age, send, call) ==
  /\ parser[n].state = "HEADER"
  /\ u.part = "header"
  /\ IF u.frame.type = "APP"
     THEN /\ parser' = [parser EXCEPT ![n] = [state |-> "PAYLOAD", frame |-> u.frame,
                                              spoiled |-> FALSE, age |-> age]]
          /\ send = <<>> /\ call = "none"
          /\ UNCHANGED <<kernel, snd, rcv>>
     ELSE /\ KernelHandleFrame(n, u.frame, send, call)
          /\ Finished(n)

\* Bytes without a start of frame are passed over.
ParseNoise(n, u, send, call) ==
  /\ parser[n].state = "HEADER"
  /\ u.part = "payload"
  /\ send = <<>> /\ call = "none"
  /\ UNCHANGED <<kernel, snd, rcv, parser>>

\* The payload that belongs to the header, its CRC correct.
ParsePayload(n, u, send, call) ==
  /\ parser[n].state = "PAYLOAD" /\ ~parser[n].spoiled
  /\ u.part = "payload" /\ u.frame = parser[n].frame /\ u.intact
  /\ KernelHandleFrame(n, u.frame, send, call)
  /\ Finished(n)

(* Any other bytes are taken for the payload all the same.  When they make *)
(* up its length the CRC does not match and a NACK is sent; a payload at   *)
(* least as long as the missing one always does.  Only the last frame of a *)
(* transfer may be shorter than the others.                                *)
IsLast(f) == f.seq = f.total - 1

ParseGarbled(n, u, age, send, call) ==
  /\ parser[n].state = "PAYLOAD"
  /\ ~(~parser[n].spoiled /\ u.part = "payload" /\ u.frame = parser[n].frame /\ u.intact)
  /\ call = "none"
  /\ \/ /\ send = <<Answer(NACK, parser[n].frame)>>
        /\ Finished(n)
     \/ /\ u.part = "header" \/ (IsLast(u.frame) /\ ~IsLast(parser[n].frame))
        /\ send = <<>>
        /\ parser' = [parser EXCEPT ![n].spoiled = TRUE, ![n].age = age]
  /\ UNCHANGED <<kernel, snd, rcv>>

ParseUnit(n, u, age, send, call) ==
  /\ \/ ParseHeader(n, u, age, send, call)
     \/ ParseNoise(n, u, send, call)
     \/ ParsePayload(n, u, send, call)
     \/ ParseGarbled(n, u, age, send, call)
  /\ UNCHANGED waiting

(* ltlpKernelRun, split at what it does.  The parser that has waited too   *)
(* long for the rest of a frame is reset on the way.                       *)
AgedParser(p) == IF p.age = Stale THEN EmptyParser ELSE p

RunStartsWaiting(n, send, call) ==
  /\ kernel[n] = "IDLE"
  /\ waiting[n] # NoJob
  /\ StartNow(n, waiting[n], send)
  /\ waiting' = [waiting EXCEPT ![n] = NoJob]
  /\ call = "none"
  /\ UNCHANGED <<rcv, parser>>

RunSender(n, send, call) ==
  /\ kernel[n] = "SENDING"
  /\ SenderRun(n, send, call)
  /\ kernel' = [kernel EXCEPT ![n] = IF snd'[n].state = "IDLE" THEN "IDLE" ELSE @]
  /\ parser' = [parser EXCEPT ![n] = IF snd'[n].state = "IDLE" THEN EmptyParser ELSE AgedParser(@)]
  /\ UNCHANGED <<waiting, rcv>>

\* A bug: the callback is made, but the receiver is not reset.
RunReceiverTimeoutTold(n, send, call) ==
  /\ kernel[n] = "RECEIVING"
  /\ ReceiverTimedOut(n)
  /\ parser' = [parser EXCEPT ![n] = AgedParser(@)]
  /\ send = <<>>
  /\ call = "RECV_TIMEOUT"
  /\ UNCHANGED <<kernel, waiting, snd, rcv>>

RunReceiverTimeout(n, send, call) ==
  /\ kernel[n] = "RECEIVING"
  /\ ReceiverTimedOut(n)
  /\ rcv' = [rcv EXCEPT ![n] = IdleReceiver]
  /\ kernel' = [kernel EXCEPT ![n] = "IDLE"]
  /\ parser' = [parser EXCEPT ![n] = EmptyParser]
  /\ send = <<>>
  /\ call = "RECV_TIMEOUT"
  /\ UNCHANGED <<waiting, snd>>

\* Sender or receiver ended while a frame was handled.
RunGoesIdle(n, send, call) ==
  /\ \/ kernel[n] = "SENDING" /\ snd[n].state = "IDLE"
     \/ kernel[n] = "RECEIVING" /\ rcv[n].state = "IDLE"
  /\ kernel' = [kernel EXCEPT ![n] = "IDLE"]
  /\ parser' = [parser EXCEPT ![n] = EmptyParser]
  /\ send = <<>>
  /\ call = "none"
  /\ UNCHANGED <<waiting, snd, rcv>>

\* Nothing is due but the reset of an aged parser.
RunDropsPartial(n, send, call) ==
  /\ parser[n].age = Stale
  /\ \/ kernel[n] = "SENDING" /\ snd[n].state \in {"HANDSHAKE", "WAIT_ACK"} /\ ~SenderTimedOut(n)
     \/ kernel[n] = "RECEIVING" /\ rcv[n].state = "RECVING" /\ ~ReceiverTimedOut(n)
  /\ parser' = [parser EXCEPT ![n] = EmptyParser]
  /\ send = <<>>
  /\ call = "none"
  /\ UNCHANGED <<kernel, waiting, snd, rcv>>

KernelRun(n, send, call) ==
  \/ RunStartsWaiting(n, send, call)
  \/ RunSender(n, send, call)
  \/ RunReceiverTimeout(n, send, call)
  \/ RunGoesIdle(n, send, call)
  \/ RunDropsPartial(n, send, call)

\* Whether ltlpKernelRun has something to do.
RunDue(n) ==
  \/ kernel[n] = "IDLE" /\ waiting[n] # NoJob
  \/ kernel[n] = "SENDING" /\ (snd[n].state \in {"IDLE", "SENDING"} \/ SenderTimedOut(n))
  \/ kernel[n] = "RECEIVING" /\ (rcv[n].state = "IDLE" \/ ReceiverTimedOut(n))
  \/ kernel[n] # "IDLE" /\ parser[n].age = Stale

-----------------------------------------------------------------------------
(* One unit of time passes for the timers in use.                          *)

Older(age, limit) == IF age < limit THEN age + 1 ELSE limit

AgeTimers ==
  /\ snd' = [n \in Node |->
       IF snd[n].state \in {"HANDSHAKE", "WAIT_ACK"}
       THEN [snd[n] EXCEPT !.age = Older(@, Timeout)] ELSE snd[n]]
  /\ rcv' = [n \in Node |->
       IF rcv[n].state = "RECVING" THEN [rcv[n] EXCEPT !.age = Older(@, ReceiveLimit)] ELSE rcv[n]]
  /\ parser' = [n \in Node |->
       IF parser[n].state = "PAYLOAD" THEN [parser[n] EXCEPT !.age = Older(@, Stale)] ELSE parser[n]]
  /\ UNCHANGED <<kernel, waiting>>
=============================================================================
