---------------------------- MODULE LtlpTransfer ----------------------------
(***************************************************************************)
(* Two nodes that run the LTLP library over a line with faults: a host     *)
(* that asks for transfers and the slave, whose OtaTask only receives.     *)
(*                                                                         *)
(* A frame travels as its header and, if it is an application frame, its   *)
(* payload.  The line keeps their order and delays them by at most         *)
(* MaxDelay; it may lose or garble them, MaxFaults times in all.  Each     *)
(* unit of time is as long as many rounds of the tasks, so that time does  *)
(* not pass while ltlpKernelRun has something to do.                       *)
(***************************************************************************)
EXTENDS Ltlp, FiniteSets, SequencesExt

CONSTANTS
  Host, Slave,
  Job,          (* What the host can ask for.                              *)
  MaxTransfers, (* Bounds the number of transfers asked for.               *)
  MaxDelay,     (* Longest time on the line.                               *)
  MaxFaults     (* Bounds what is lost or garbled.                         *)

ASSUME NodesAssumption == Host # Slave /\ Node = {Host, Slave}
\* No answer arrives after the sender has stopped waiting for it.
ASSUME DelayAssumption == MaxDelay \in Nat /\ 2 * MaxDelay < Timeout
\* An id of 0 stands for no transfer; the library gives Ask its number.
\* caculateFrameNum makes at least one frame of every payload.
ASSUME JobAssumption ==
  Job \subseteq [id : {0}, msg : Nat, total : Nat \ {0}, needAck : BOOLEAN]

\* MSG_ENTER_UPGRADE of msg_def.h
ENTER_UPGRADE == 1

VARIABLES
  upgradeFlag,  (* m_upgradeFlag of the slave's OtaTask.                   *)
  line,         (* line[n] are the units on their way to n.                *)
  chunk,        (* chunk[n] is what a call of ltlpKernelParse has left to  *)
                (* do: units, and the age of a parser that starts on them. *)
  asked,        (* asked[x] is the job of transfer x, or NoJob.            *)
  status,       (* What the host's callbacks have said of x.               *)
  delivered,    (* The frames of x given to ON_RECV_ONE_FRAME.             *)
  reported,     (* Transfers given to ON_RECV_ALL_DATA.                    *)
  faults        (* faults[x][k] frames of kind k went wrong on the line.   *)

ghosts == <<asked, status, delivered, reported, faults>>
transferVars == <<libVars, upgradeFlag, line, chunk, ghosts>>

Transfers == 1..MaxTransfers
NoChunk == [left |-> 0, age |-> 0]
Kinds == {"handshake", "answer", "data"}
Other(n) == CHOOSE m \in Node : m # n

Units(f) ==
  LET unit(part) == [part |-> part, frame |-> f, intact |-> TRUE, age |-> 0]
  IN IF f.type = "APP" THEN <<unit("header"), unit("payload")>> ELSE <<unit("header")>>
OnLine(frames) == IF frames = <<>> THEN <<>> ELSE Units(frames[1])

TransferInit ==
  /\ LibInit
  /\ upgradeFlag = FALSE
  /\ line = [n \in Node |-> <<>>]
  /\ chunk = [n \in Node |-> NoChunk]
  /\ asked = [x \in Transfers |-> NoJob]
  /\ status = [x \in Transfers |-> "none"]
  /\ delivered = [x \in Transfers |-> {}]
  /\ reported = {}
  /\ faults = [x \in Transfers |-> [k \in Kinds |-> 0]]

\* The frames that ltlpKernelRun and ltlpKernelParse may send.
SentByRun(n) ==
  {<<>>, IF snd[n].state = "SENDING" THEN <<AppFrame(snd[n].job, FrameNumber(snd[n]))>>
         ELSE <<SysFrame(HANDSHAKE, waiting[n])>>}
SentByParse(n, u) == {<<>>, <<Answer(ACK, u.frame)>>, <<Answer(NACK, parser[n].frame)>>}

\* The callbacks of each side; the kernel is one or the other.
CallsOf(n) ==
  {"none"} \union (IF kernel[n] = "SENDING"
                   THEN {"HANDSHAKE_ERROR", "SEND_ALL_DATA_DONE", "SEND_ERROR"}
                   ELSE {"RECV_ONE_FRAME", "RECV_ALL_DATA", "RECV_TIMEOUT"})

\* What the callbacks of node n tell of the transfer of its sender ...
SenderCalls(n, call) ==
  LET x == snd[n].job.id IN
  status' = CASE call = "SEND_ALL_DATA_DONE" -> [status EXCEPT ![x] = "done"]
              [] call \in {"SEND_ERROR", "HANDSHAKE_ERROR"} -> [status EXCEPT ![x] = "failed"]
              [] OTHER -> status
\* ... and of the frame f its receiver was given, with OtaTask::onLtlpRecvOneFrame.
ReceiverCalls(f, call) ==
  /\ delivered' = IF call \in {"RECV_ONE_FRAME", "RECV_ALL_DATA"}
                  THEN [delivered EXCEPT ![f.job] = @ \union {f.seq}] ELSE delivered
  /\ upgradeFlag' = (upgradeFlag \/ (call \in {"RECV_ONE_FRAME", "RECV_ALL_DATA"}
                                      /\ f.msg = ENTER_UPGRADE))
  /\ reported' = IF call = "RECV_ALL_DATA" THEN reported \union {f.job} ELSE reported

-----------------------------------------------------------------------------
(* ltlpSendData, called by the host's program.  With a transfer under way  *)
(* and another waiting it returns false and changes nothing.               *)

Ask(x, job) ==
  /\ status[x] = "none" /\ \A y \in 1 .. x - 1 : status[y] # "none"
  /\ chunk[Host] = NoChunk
  /\ status' = [status EXCEPT ![x] = "accepted"]
  /\ asked' = [asked EXCEPT ![x] = job]
  /\ UNCHANGED <<rcv, parser, upgradeFlag, chunk, delivered, reported, faults>>

AskNow(x, job) ==
  /\ Ask(x, job)
  /\ StartNow(Host, job, <<SysFrame(HANDSHAKE, job)>>)
  /\ line' = [line EXCEPT ![Slave] = @ \o Units(SysFrame(HANDSHAKE, job))]
  /\ UNCHANGED waiting

AskLater(x, job) ==
  /\ Ask(x, job)
  /\ PutOff(Host, job)
  /\ UNCHANGED <<kernel, snd, line>>

HostAsks ==
  \E x \in Transfers, j \in Job :
    LET job == [j EXCEPT !.id = x] IN AskNow(x, job) \/ AskLater(x, job)

-----------------------------------------------------------------------------
(* A call of ltlpKernelParse is given some of the units that have arrived  *)
(* and handles them one after another.                                     *)

\* Whether the step resets the parser, which clears its time as well.
Resets(n) ==
  /\ parser'[n].state = "HEADER"
  /\ parser[n].state = "PAYLOAD" \/ Head(line[n]).part = "header"

ParseNext(n, left, age) ==
  LET u == Head(line[n]) IN
  /\ \E send \in SentByParse(n, u), call \in CallsOf(n) :
       /\ ParseUnit(n, u, age, send, call)
       /\ line' = [line EXCEPT ![n] = Tail(@), ![Other(n)] = @ \o OnLine(send)]
       /\ SenderCalls(n, call)
       /\ ReceiverCalls(u.frame, call)
  /\ chunk' = [chunk EXCEPT ![n] =
       IF left = 1 THEN NoChunk
       ELSE [left |-> left - 1, age |-> IF Resets(n) THEN Stale ELSE age]]
  /\ UNCHANGED <<asked, faults>>

Parse(n) ==
  /\ line[n] # <<>>
  /\ IF chunk[n] = NoChunk
     THEN \E k \in 1 .. Len(line[n]) : ParseNext(n, k, 0)
     ELSE ParseNext(n, chunk[n].left, chunk[n].age)

Run(n) ==
  /\ chunk[n] = NoChunk
  /\ \E send \in SentByRun(n), call \in CallsOf(n) :
       /\ KernelRun(n, send, call)
       /\ line' = [line EXCEPT ![Other(n)] = @ \o OnLine(send)]
       /\ SenderCalls(n, call)
  /\ UNCHANGED <<upgradeFlag, chunk, asked, delivered, reported, faults>>

-----------------------------------------------------------------------------
(* The line.                                                               *)

Kind(f) == IF f.type = "APP" THEN "data" ELSE IF f.msg = HANDSHAKE THEN "handshake" ELSE "answer"
FaultsOf(x) == faults[x]["handshake"] + faults[x]["answer"] + faults[x]["data"]

LineFaults == FoldSet(LAMBDA x, sum : FaultsOf(x) + sum, 0, Transfers)

Fault(n, f) ==
  /\ chunk[n] = NoChunk
  /\ LineFaults < MaxFaults
  /\ faults' = [faults EXCEPT ![f.job][Kind(f)] = @ + 1]
  /\ UNCHANGED <<libVars, upgradeFlag, chunk, asked, status, delivered, reported>>

LoseUnit(n) ==
  \E i \in 1 .. Len(line[n]) :
    /\ Fault(n, line[n][i].frame)
    /\ line' = [line EXCEPT ![n] = RemoveAt(@, i)]

GarbleUnit(n) ==
  \E i \in 1 .. Len(line[n]) :
    /\ line[n][i].part = "payload" /\ line[n][i].intact
    /\ Fault(n, line[n][i].frame)
    /\ line' = [line EXCEPT ![n][i].intact = FALSE]

Pass ==
  /\ \A n \in Node : /\ chunk[n] = NoChunk
                     /\ ~RunDue(n)
                     /\ \A i \in 1 .. Len(line[n]) : line[n][i].age < MaxDelay
  /\ AgeTimers
  /\ line' = [n \in Node |-> [i \in 1 .. Len(line[n]) |-> [line[n][i] EXCEPT !.age = @ + 1]]]
  /\ UNCHANGED <<upgradeFlag, chunk, ghosts>>

\* Node n starts anew; what is on its way to it is not received.
Restart(n) ==
  /\ LibRestart(n)
  /\ upgradeFlag' = (upgradeFlag /\ n # Slave)
  /\ line' = [line EXCEPT ![n] = <<>>]
  /\ chunk' = [chunk EXCEPT ![n] = NoChunk]
  /\ UNCHANGED ghosts

\* Nobody listens at n.
Unheard(n) ==
  /\ line[n] # <<>>
  /\ line' = [line EXCEPT ![n] = Tail(@)]
  /\ UNCHANGED <<libVars, upgradeFlag, chunk, ghosts>>

-----------------------------------------------------------------------------
AsDemand(j) == [total |-> j.total, needAck |-> j.needAck]

Service ==
  INSTANCE TransferService WITH
    Demand <- {AsDemand(j) : j \in Job},
    asked <- [x \in Transfers |-> AsDemand(asked[x])]
=============================================================================
