---------------------------- MODULE TransferProofs ----------------------------
(***************************************************************************)
(* Facts about the LTLP library and its transfers, for every set of jobs,  *)
(* every timeout and any number of faults: the states of sender, receiver  *)
(* and kernel fit together, every application frame on the line is of a    *)
(* transfer that was asked for, and what the two ends and the line between *)
(* them do keeps LinkOK, by which done means delivered.                    *)
(***************************************************************************)
EXTENDS LtlpTransfer, TLAPS, FiniteSetTheorems

JobRecord == [id : Nat, msg : Nat, total : Nat \ {0}, needAck : BOOLEAN]

Sender == [state : {"IDLE", "HANDSHAKE", "SENDING", "WAIT_ACK"}, job : JobRecord,
           seq : Nat, sent : Nat, tries : Nat, age : Nat]

Receiver == [state : {"IDLE", "RECVING"}, count : Nat, age : Nat]

LEMMA IdleRecords ==
  /\ NoJob \in JobRecord
  /\ IdleSender \in Sender /\ IdleSender.state = "IDLE"
  /\ IdleReceiver \in Receiver /\ IdleReceiver.state = "IDLE"
<1>1. NoJob \in JobRecord
  BY DEF NoJob, JobRecord
<1> QED
  BY <1>1 DEF IdleSender, IdleReceiver, Sender, Receiver

LEMMA TimeLimits == Timeout \in Nat \ {0} /\ MaxRetry \in Nat /\ ReceiveLimit \in Nat
  BY TimeoutAssumption, MaxRetryAssumption, SMTT(30) DEF ReceiveLimit

-----------------------------------------------------------------------------
(* What a step of a node's sender, and of its receiver, comes down to: it  *)
(* goes to rest, or goes on with the transfer it has.                      *)

SenderGoesOn(n) ==
  /\ snd' \in [Node -> Sender]
  /\ \A m \in Node : m # n => snd'[m] = snd[m]
  /\ \/ snd'[n] = IdleSender
     \/ snd'[n].state # "IDLE" /\ snd[n].state # "IDLE" /\ snd'[n].job = snd[n].job

ReceiverGoesOn(n) ==
  /\ rcv' \in [Node -> Receiver]
  /\ \A m \in Node : m # n => rcv'[m] = rcv[m]
  /\ rcv'[n].state = "IDLE" => rcv'[n] = IdleReceiver

LEMMA SenderUpdated ==
  ASSUME snd \in [Node -> Sender], NEW n \in Node, NEW s \in Sender,
         snd' = [snd EXCEPT ![n] = s],
         \/ s = IdleSender
         \/ s.state # "IDLE" /\ snd[n].state # "IDLE" /\ s.job = snd[n].job
  PROVE  SenderGoesOn(n)
  BY DEF SenderGoesOn

LEMMA SenderGivesUp ==
  ASSUME snd \in [Node -> Sender], NEW n \in Node, GiveUp(n)
  PROVE  SenderGoesOn(n)
  BY IdleRecords DEF GiveUp, SenderGoesOn

LEMMA NextFrameGoesOn ==
  ASSUME snd \in [Node -> Sender], NEW n \in Node, NEW call, snd[n].state # "IDLE",
         NextFrame(n, call)
  PROVE  SenderGoesOn(n)
<1> DEFINE s == [snd[n] EXCEPT !.sent = @ + 1, !.tries = 0, !.age = 0, !.state = "SENDING"]
<1>1. snd[n] \in Sender
  OBVIOUS
<1>2. s \in Sender /\ s.state = "SENDING" /\ s.job = snd[n].job
  <2> DEFINE sent == snd[n].sent + 1
  <2>1. sent \in Nat /\ s = [snd[n] EXCEPT !.sent = sent, !.tries = 0, !.age = 0, !.state = "SENDING"]
    BY <1>1 DEF Sender
  <2> HIDE DEF sent
  <2> QED
    BY <1>1, <2>1 DEF Sender
<1>3. snd' = [snd EXCEPT ![n] = IdleSender] \/ snd' = [snd EXCEPT ![n] = s]
  BY DEF NextFrame
<1> HIDE DEF s
<1> QED
  BY <1>2, <1>3, IdleRecords, SenderUpdated

LEMMA SenderHandles ==
  ASSUME snd \in [Node -> Sender], NEW n \in Node, NEW f, NEW call,
         SenderHandleSysFrame(n, f, call)
  PROVE  SenderGoesOn(n) \/ UNCHANGED snd
<1>1. snd[n] \in Sender
  OBVIOUS
<1>2. CASE HandshakeAnswered(n, f, call)
  <2> DEFINE s == [snd[n] EXCEPT !.state = "SENDING", !.age = 0]
  <2>1. s \in Sender /\ s.state = "SENDING" /\ s.job = snd[n].job
    BY <1>1 DEF Sender
  <2>2. snd' = [snd EXCEPT ![n] = s] /\ snd[n].state # "IDLE"
    BY <1>1, <1>2 DEF HandshakeAnswered, Sender
  <2> HIDE DEF s
  <2> QED
    BY <2>1, <2>2, SenderUpdated
<1>3. CASE HandshakeRefused(n, f, call)
  BY <1>3, SenderGivesUp DEF HandshakeRefused
<1>4. CASE FrameAcked(n, f, call)
  BY <1>4, NextFrameGoesOn DEF FrameAcked
<1>5. CASE FrameNacked(n, f, call)
  <2> DEFINE tries == snd[n].tries + 1
             s == [snd[n] EXCEPT !.tries = tries, !.age = 0, !.state = "SENDING"]
  <2>1. tries \in Nat
    BY <1>1 DEF Sender
  <2>2. \/ GiveUp(n)
        \/ snd' = [snd EXCEPT ![n] = s] /\ snd[n].state # "IDLE"
    BY <1>1, <1>5 DEF FrameNacked, Sender
  <2> HIDE DEF tries
  <2>3. s \in Sender /\ s.state = "SENDING" /\ s.job = snd[n].job
    BY <1>1, <2>1 DEF Sender
  <2> HIDE DEF s
  <2> QED
    BY <2>2, <2>3, SenderUpdated, SenderGivesUp
<1>6. CASE SenderIgnores(n, f, call)
  BY <1>6 DEF SenderIgnores
<1> QED
  BY <1>2, <1>3, <1>4, <1>5, <1>6 DEF SenderHandleSysFrame

LEMMA SenderRuns ==
  ASSUME snd \in [Node -> Sender], NEW n \in Node, NEW send, NEW call,
         SenderRun(n, send, call)
  PROVE  /\ SenderGoesOn(n)
         /\ snd[n].state # "IDLE"
<1>1. snd[n] \in Sender
  OBVIOUS
<1>2. CASE SendFrame(n, send, call)
  <2> DEFINE seq == FrameNumber(snd[n])
             tries == snd[n].tries + 1
             s == [snd[n] EXCEPT !.seq = seq, !.tries = tries, !.age = 0, !.state = "WAIT_ACK"]
  <2>1. seq \in Nat /\ tries \in Nat
    BY <1>1 DEF Sender, FrameNumber
  <2>2. /\ snd[n].state = "SENDING"
        /\ snd' = [snd EXCEPT ![n] = s] \/ NextFrame(n, call)
    BY <1>1, <1>2 DEF SendFrame, Sender
  <2> HIDE DEF seq, tries
  <2>3. s \in Sender /\ s.state = "WAIT_ACK" /\ s.job = snd[n].job
    BY <1>1, <2>1 DEF Sender
  <2> HIDE DEF s
  <2> QED
    BY <2>2, <2>3, SenderUpdated, NextFrameGoesOn
<1>3. CASE HandshakeTimeout(n, send, call)
  BY <1>3, SenderGivesUp DEF HandshakeTimeout
<1>4. CASE AckTimeout(n, send, call)
  <2> DEFINE s == [snd[n] EXCEPT !.state = "SENDING", !.age = 0]
  <2>1. s \in Sender /\ s.state = "SENDING" /\ s.job = snd[n].job
    BY <1>1 DEF Sender
  <2>2. /\ snd[n].state = "WAIT_ACK"
        /\ snd' = [snd EXCEPT ![n] = s] \/ GiveUp(n)
    BY <1>1, <1>4 DEF AckTimeout, Sender
  <2> HIDE DEF s
  <2> QED
    BY <2>1, <2>2, SenderUpdated, SenderGivesUp
<1> QED
  BY <1>2, <1>3, <1>4 DEF SenderRun

LEMMA ReceiverHandles ==
  ASSUME rcv \in [Node -> Receiver], NEW n \in Node, NEW f, NEW send, NEW call,
         rcv[n].state = "IDLE" => rcv[n] = IdleReceiver,
         ReceiverHandleFrame(n, f, send, call)
  PROVE  ReceiverGoesOn(n)
<1>1. rcv[n] \in Receiver
  OBVIOUS
<1>2. ASSUME NEW r \in Receiver, rcv' = [rcv EXCEPT ![n] = r],
             r.state = "IDLE" => r = IdleReceiver
      PROVE  ReceiverGoesOn(n)
  BY <1>2 DEF ReceiverGoesOn
<1>3. CASE AcceptHandshake(n, f, send, call)
  <2> DEFINE r == [rcv[n] EXCEPT !.state = "RECVING", !.age = 0]
  <2>1. r \in Receiver /\ r.state = "RECVING"
    BY <1>1 DEF Receiver
  <2>2. rcv' = [rcv EXCEPT ![n] = r]
    BY <1>1, <1>3 DEF AcceptHandshake, Receiver
  <2> HIDE DEF r
  <2> QED
    BY <1>2, <2>1, <2>2
<1>4. CASE AcceptFrame(n, f, send, call)
  <2> DEFINE count == rcv[n].count + 1
             r == [rcv[n] EXCEPT !.count = count, !.age = 0]
  <2>1. count \in Nat
    BY <1>1 DEF Receiver
  <2>2. /\ rcv[n].state = "RECVING"
        /\ rcv' = [rcv EXCEPT ![n] = IdleReceiver] \/ rcv' = [rcv EXCEPT ![n] = r]
    BY <1>1, <1>4 DEF AcceptFrame, Receiver
  <2> HIDE DEF count
  <2>3. r \in Receiver /\ r.state = rcv[n].state
    BY <1>1, <2>1 DEF Receiver
  <2> HIDE DEF r
  <2> QED
    BY <1>2, <2>2, <2>3, IdleRecords
<1>5. CASE ReceiverIgnores(n, f, send, call)
  <2> DEFINE r == [rcv[n] EXCEPT !.age = 0]
  <2>1. r \in Receiver /\ (r.state = "IDLE" => r = IdleReceiver)
    BY <1>1 DEF Receiver, IdleReceiver
  <2>2. rcv' = [rcv EXCEPT ![n] = r]
    BY <1>1, <1>5 DEF ReceiverIgnores, Receiver
  <2> HIDE DEF r
  <2> QED
    BY <1>2, <2>1, <2>2
<1> QED
  BY <1>3, <1>4, <1>5 DEF ReceiverHandleFrame

-----------------------------------------------------------------------------
(* The library: a kernel that does not send has a sender at rest, one that *)
(* does not receive a receiver at rest.                                    *)

KernelState == {"IDLE", "SENDING", "RECEIVING"}

LibInv ==
  /\ kernel \in [Node -> KernelState]
  /\ snd \in [Node -> Sender]
  /\ rcv \in [Node -> Receiver]
  /\ \A n \in Node :
       /\ snd[n].state = "IDLE" => snd[n] = IdleSender
       /\ rcv[n].state = "IDLE" => rcv[n] = IdleReceiver
       /\ kernel[n] # "SENDING" => snd[n] = IdleSender
       /\ kernel[n] # "RECEIVING" => rcv[n] = IdleReceiver

(* The steps of one node that keep this.                                   *)
LEMMA SenderStepKeeps ==
  ASSUME LibInv, NEW n \in Node, SenderGoesOn(n), kernel[n] = "SENDING", rcv' = rcv,
         \/ kernel' = kernel
         \/ kernel' = [kernel EXCEPT ![n] = "IDLE"] /\ snd'[n].state = "IDLE"
  PROVE  LibInv'
<1>1. snd' \in [Node -> Sender] /\ kernel' \in [Node -> KernelState]
  BY DEF SenderGoesOn, LibInv, KernelState
<1>2. ASSUME NEW m \in Node
      PROVE  /\ snd'[m].state = "IDLE" => snd'[m] = IdleSender
             /\ rcv'[m].state = "IDLE" => rcv'[m] = IdleReceiver
             /\ kernel'[m] # "SENDING" => snd'[m] = IdleSender
             /\ kernel'[m] # "RECEIVING" => rcv'[m] = IdleReceiver
  <2>1. CASE m = n
    BY <2>1 DEF SenderGoesOn, LibInv
  <2>2. CASE m # n
    BY <2>2 DEF SenderGoesOn, LibInv
  <2> QED
    BY <2>1, <2>2
<1> QED
  BY <1>1, <1>2 DEF LibInv

LEMMA ReceiverStepKeeps ==
  ASSUME LibInv, NEW n \in Node, ReceiverGoesOn(n), snd' = snd,
         \/ kernel[n] = "RECEIVING" /\ kernel' = kernel
         \/ kernel[n] = "IDLE" /\ kernel' = [kernel EXCEPT ![n] = "RECEIVING"]
         \/ /\ kernel[n] = "RECEIVING" /\ kernel' = [kernel EXCEPT ![n] = "IDLE"]
            /\ rcv'[n].state = "IDLE"
  PROVE  LibInv'
<1>1. rcv' \in [Node -> Receiver] /\ kernel' \in [Node -> KernelState]
  BY DEF ReceiverGoesOn, LibInv, KernelState
<1>2. ASSUME NEW m \in Node
      PROVE  /\ snd'[m].state = "IDLE" => snd'[m] = IdleSender
             /\ rcv'[m].state = "IDLE" => rcv'[m] = IdleReceiver
             /\ kernel'[m] # "SENDING" => snd'[m] = IdleSender
             /\ kernel'[m] # "RECEIVING" => rcv'[m] = IdleReceiver
  <2>1. CASE m = n
    BY <2>1 DEF ReceiverGoesOn, LibInv
  <2>2. CASE m # n
    BY <2>2 DEF ReceiverGoesOn, LibInv
  <2> QED
    BY <2>1, <2>2
<1> QED
  BY <1>1, <1>2 DEF LibInv

LEMMA KernelHandles ==
  ASSUME LibInv, NEW n \in Node, NEW f, NEW send, NEW call,
         KernelHandleFrame(n, f, send, call)
  PROVE  LibInv' /\ (UNCHANGED snd \/ SenderGoesOn(n))
<1>1. CASE ReceiverHandleFrame(n, f, send, call) /\ snd' = snd /\
           \/ kernel[n] = "IDLE" /\ kernel' = [kernel EXCEPT ![n] = "RECEIVING"]
           \/ kernel[n] = "RECEIVING" /\ kernel' = kernel
  <2>1. ReceiverGoesOn(n)
    BY <1>1, ReceiverHandles DEF LibInv
  <2> QED
    BY <1>1, <2>1, ReceiverStepKeeps
<1>2. CASE UNCHANGED <<kernel, snd, rcv>>
  BY <1>2 DEF LibInv
<1>3. CASE /\ kernel[n] = "SENDING" /\ SenderHandleSysFrame(n, f, call)
           /\ UNCHANGED <<kernel, rcv>>
  <2>1. SenderGoesOn(n) \/ UNCHANGED snd
    BY <1>3, SenderHandles DEF LibInv
  <2>2. UNCHANGED snd => LibInv'
    BY <1>3 DEF LibInv
  <2> QED
    BY <1>3, <2>1, <2>2, SenderStepKeeps
<1> QED
  BY <1>1, <1>2, <1>3 DEF KernelHandleFrame

LEMMA ParseKeeps ==
  ASSUME LibInv, NEW n \in Node, NEW u, NEW age, NEW send, NEW call,
         ParseUnit(n, u, age, send, call)
  PROVE  LibInv' /\ (UNCHANGED snd \/ SenderGoesOn(n)) /\ waiting' = waiting
<1>1. \/ KernelHandleFrame(n, u.frame, send, call)
      \/ UNCHANGED <<kernel, snd, rcv>>
  BY DEF ParseUnit, ParseHeader, ParseNoise, ParsePayload, ParseGarbled
<1>2. UNCHANGED <<kernel, snd, rcv>> => LibInv'
  BY DEF LibInv
<1> QED
  BY <1>1, <1>2, KernelHandles DEF ParseUnit

LEMMA StartKeepsLib ==
  ASSUME LibInv, NEW n \in Node, NEW job \in JobRecord, NEW send, StartNow(n, job, send),
         rcv' = rcv
  PROVE  /\ LibInv'
         /\ \A m \in Node : m # n => snd'[m] = snd[m]
         /\ snd'[n].job = job
<1> DEFINE s == [IdleSender EXCEPT !.state = "HANDSHAKE", !.job = job]
<1>1. s \in Sender /\ s.state = "HANDSHAKE" /\ s.job = job
  BY IdleRecords DEF Sender
<1>2. /\ snd' = [snd EXCEPT ![n] = s]
      /\ kernel[n] = "IDLE" /\ kernel' = [kernel EXCEPT ![n] = "SENDING"]
  BY DEF StartNow
<1> HIDE DEF s
<1>3. snd' \in [Node -> Sender] /\ kernel' \in [Node -> KernelState]
  BY <1>1, <1>2 DEF LibInv, KernelState
<1>4. ASSUME NEW m \in Node
      PROVE  /\ snd'[m].state = "IDLE" => snd'[m] = IdleSender
             /\ rcv'[m].state = "IDLE" => rcv'[m] = IdleReceiver
             /\ kernel'[m] # "SENDING" => snd'[m] = IdleSender
             /\ kernel'[m] # "RECEIVING" => rcv'[m] = IdleReceiver
  <2>1. CASE m = n
    BY <1>1, <1>2, <2>1 DEF LibInv
  <2>2. CASE m # n
    BY <1>2, <2>2 DEF LibInv
  <2> QED
    BY <2>1, <2>2
<1>5. (\A m \in Node : m # n => snd'[m] = snd[m]) /\ snd'[n].job = job
  BY <1>1, <1>2 DEF LibInv
<1> QED
  BY <1>3, <1>4, <1>5 DEF LibInv

LEMMA RunKeeps ==
  ASSUME LibInv, waiting \in [Node -> JobRecord], NEW n \in Node, NEW send, NEW call,
         KernelRun(n, send, call)
  PROVE  /\ LibInv'
         /\ \/ UNCHANGED <<snd, waiting>>
            \/ SenderGoesOn(n) /\ waiting' = waiting
            \/ /\ waiting[n] # NoJob /\ waiting' = [waiting EXCEPT ![n] = NoJob]
               /\ \A m \in Node : m # n => snd'[m] = snd[m]
               /\ snd'[n].job = waiting[n]
<1>1. CASE RunStartsWaiting(n, send, call)
  <2>1. /\ waiting[n] \in JobRecord /\ StartNow(n, waiting[n], send) /\ rcv' = rcv
        /\ waiting[n] # NoJob /\ waiting' = [waiting EXCEPT ![n] = NoJob]
    BY <1>1 DEF RunStartsWaiting
  <2> QED
    BY <2>1, StartKeepsLib
<1>2. CASE RunSender(n, send, call)
  <2>1. /\ SenderGoesOn(n) /\ kernel[n] = "SENDING" /\ rcv' = rcv /\ waiting' = waiting
    BY <1>2, SenderRuns DEF RunSender, LibInv
  <2>2. \/ kernel' = kernel
        \/ kernel' = [kernel EXCEPT ![n] = "IDLE"] /\ snd'[n].state = "IDLE"
    BY <1>2 DEF RunSender, LibInv
  <2> QED
    BY <2>1, <2>2, SenderStepKeeps
<1>3. CASE RunReceiverTimeout(n, send, call)
  <2>1. /\ ReceiverGoesOn(n) /\ UNCHANGED <<snd, waiting>>
        /\ kernel[n] = "RECEIVING" /\ kernel' = [kernel EXCEPT ![n] = "IDLE"]
        /\ rcv'[n].state = "IDLE"
    BY <1>3, IdleRecords DEF RunReceiverTimeout, ReceiverGoesOn, LibInv
  <2> QED
    BY <2>1, ReceiverStepKeeps
<1>4. CASE RunGoesIdle(n, send, call)
  <2>1. /\ UNCHANGED <<snd, rcv, waiting>>
        /\ kernel' = [kernel EXCEPT ![n] = "IDLE"]
        /\ snd[n] = IdleSender /\ rcv[n] = IdleReceiver
    BY <1>4 DEF RunGoesIdle, LibInv
  <2> QED
    BY <2>1 DEF LibInv, KernelState
<1>5. CASE RunDropsPartial(n, send, call)
  BY <1>5 DEF RunDropsPartial, LibInv
<1> QED
  BY <1>1, <1>2, <1>3, <1>4, <1>5 DEF KernelRun

LEMMA RestartKeepsLib ==
  ASSUME LibInv, NEW n \in Node, LibRestart(n)
  PROVE  LibInv' /\ \A m \in Node : snd'[m] = snd[m] \/ snd'[m] = IdleSender
  BY IdleRecords DEF LibRestart, LibInv, KernelState

LEMMA AgeKeepsLib ==
  ASSUME LibInv, AgeTimers
  PROVE  /\ LibInv'
         /\ \A n \in Node : snd'[n].state = snd[n].state /\ snd'[n].job = snd[n].job
<1>1. ASSUME NEW n \in Node
      PROVE  /\ snd'[n] \in Sender /\ snd'[n].state = snd[n].state /\ snd'[n].job = snd[n].job
             /\ snd[n].state = "IDLE" => snd'[n] = snd[n]
  <2> DEFINE age == Older(snd[n].age, Timeout)
  <2>1. snd[n] \in Sender
    BY DEF LibInv
  <2>2. age \in Nat
    BY <2>1, TimeLimits DEF Sender, Older
  <2>3. snd'[n] = IF snd[n].state \in {"HANDSHAKE", "WAIT_ACK"}
                  THEN [snd[n] EXCEPT !.age = age] ELSE snd[n]
    BY <2>1 DEF AgeTimers, Sender
  <2> HIDE DEF age
  <2> QED
    BY <2>1, <2>2, <2>3 DEF Sender
<1>2. ASSUME NEW n \in Node
      PROVE  /\ rcv'[n] \in Receiver /\ rcv'[n].state = rcv[n].state
             /\ rcv[n].state = "IDLE" => rcv'[n] = rcv[n]
  <2> DEFINE age == Older(rcv[n].age, ReceiveLimit)
  <2>1. rcv[n] \in Receiver
    BY DEF LibInv
  <2>2. age \in Nat
    BY <2>1, TimeLimits DEF Receiver, Older
  <2>3. rcv'[n] = IF rcv[n].state = "RECVING" THEN [rcv[n] EXCEPT !.age = age] ELSE rcv[n]
    BY <2>1 DEF AgeTimers, Receiver
  <2> HIDE DEF age
  <2> QED
    BY <2>1, <2>2, <2>3 DEF Receiver
<1>3. snd' \in [Node -> Sender] /\ rcv' \in [Node -> Receiver] /\ kernel' = kernel
  <2>1. DOMAIN snd' = Node /\ DOMAIN rcv' = Node /\ kernel' = kernel
    BY DEF AgeTimers
  <2>2. snd' = [n \in Node |-> snd'[n]] /\ rcv' = [n \in Node |-> rcv'[n]]
    BY DEF AgeTimers
  <2> QED
    BY <1>1, <1>2, <2>1, <2>2
<1> QED
  BY <1>1, <1>2, <1>3, IdleRecords DEF LibInv

-----------------------------------------------------------------------------
(* Frames, and the units they travel in.                                   *)

Frame == [type : {"SYS", "APP"}, msg : Nat, total : Nat, needAck : BOOLEAN,
          seq : Nat, job : Nat]

ParserState == [state : {"HEADER", "PAYLOAD"}, frame : Frame, spoiled : BOOLEAN, age : Nat]

Chunk == {NoChunk} \union [left : Nat \ {0}, age : Nat]

\* An application frame is of a transfer asked for, with its message type.
FrameAsked(f) ==
  f.type = "APP" =>
    f.job \in Transfers /\ status[f.job] # "none" /\ f.msg = asked[f.job].msg

Unit == [part : {"header", "payload"}, frame : Frame, intact : BOOLEAN, age : Nat]

AskedUnit == {u \in Unit : FrameAsked(u.frame)}

IsAsked(job) ==
  job.id \in Transfers /\ status[job.id] # "none" /\ asked[job.id] = job

LEMMA SysFrames ==
  ASSUME NEW msg \in Nat, NEW job \in JobRecord
  PROVE  SysFrame(msg, job) \in Frame /\ SysFrame(msg, job).type = "SYS"
<1> DEFINE needAck == msg = HANDSHAKE
<1>1. needAck \in BOOLEAN /\ job.id \in Nat
  BY DEF JobRecord
<1>2. SysFrame(msg, job) =
        [type |-> "SYS", msg |-> msg, total |-> 1, needAck |-> needAck, seq |-> 0,
         job |-> job.id]
  BY DEF SysFrame
<1> HIDE DEF needAck
<1> QED
  BY <1>1, <1>2 DEF Frame

LEMMA Answers ==
  ASSUME NEW msg \in Nat, NEW f \in Frame
  PROVE  Answer(msg, f) \in Frame /\ Answer(msg, f).type = "SYS"
<1>1. SysFrame(msg, NoJob) \in Frame /\ SysFrame(msg, NoJob).type = "SYS" /\ f.job \in Nat
  BY SysFrames, IdleRecords DEF Frame
<1> QED
  BY <1>1 DEF Answer, Frame

LEMMA AppFrames ==
  ASSUME NEW job \in JobRecord, NEW seq \in Nat, IsAsked(job)
  PROVE  AppFrame(job, seq) \in Frame /\ FrameAsked(AppFrame(job, seq))
<1>1. AppFrame(job, seq) \in Frame
  BY DEF AppFrame, Frame, JobRecord
<1>2. AppFrame(job, seq).job = job.id /\ AppFrame(job, seq).msg = job.msg
  BY DEF AppFrame
<1> QED
  BY <1>1, <1>2 DEF FrameAsked, IsAsked

LEMMA UnitsAsked ==
  ASSUME NEW f \in Frame, FrameAsked(f)
  PROVE  Units(f) \in Seq(AskedUnit)
<1>1. \A part \in {"header", "payload"} :
        [part |-> part, frame |-> f, intact |-> TRUE, age |-> 0] \in AskedUnit
  BY DEF AskedUnit, Unit
<1> QED
  BY <1>1 DEF Units

\* What a step sends: nothing, or one such frame.
LEMMA OnLineAsked ==
  ASSUME NEW send, send = <<>> \/ \E f \in Frame : FrameAsked(f) /\ send = <<f>>
  PROVE  OnLine(send) \in Seq(AskedUnit)
<1>1. CASE send = <<>>
  BY <1>1 DEF OnLine
<1>2. CASE \E f \in Frame : FrameAsked(f) /\ send = <<f>>
  <2>1. PICK f \in Frame : FrameAsked(f) /\ send = <<f>>
    BY <1>2
  <2>2. send # <<>> /\ send[1] = f
    BY <2>1
  <2>3. OnLine(send) = Units(f)
    BY <2>2 DEF OnLine
  <2> QED
    BY <2>1, <2>3, UnitsAsked
<1> QED
  BY <1>1, <1>2

-----------------------------------------------------------------------------
(* The invariant: what is on its way was asked for.                        *)

HistoryInv ==
  /\ asked \in [Transfers -> JobRecord]
  /\ status \in [Transfers -> {"none", "accepted", "done", "failed"}]
  /\ delivered \in [Transfers -> SUBSET Nat]
  /\ \A x \in Transfers : status[x] = "none" => asked[x] = NoJob

JobsAsked ==
  /\ waiting \in [Node -> JobRecord]
  /\ \A n \in Node : waiting[n] # NoJob => IsAsked(waiting[n])
  /\ \A n \in Node : snd[n].state # "IDLE" => IsAsked(snd[n].job)

ParserInv ==
  /\ parser \in [Node -> ParserState]
  /\ chunk \in [Node -> Chunk]

LineInv == line \in [Node -> Seq(AskedUnit)]

UpgradeAsked ==
  \E x \in Transfers : asked[x].msg = ENTER_UPGRADE /\ delivered[x] # {}

TransferInv ==
  /\ LibInv
  /\ HistoryInv
  /\ JobsAsked
  /\ ParserInv
  /\ LineInv
  /\ upgradeFlag \in BOOLEAN
  /\ upgradeFlag => UpgradeAsked

(* What was asked for and delivered stays so.                              *)
HistoryGrows ==
  \A x \in Transfers :
    /\ status[x] # "none" => status'[x] # "none" /\ asked'[x] = asked[x]
    /\ delivered[x] \subseteq delivered'[x]

LEMMA AskedStays ==
  ASSUME HistoryInv, HistoryGrows
  PROVE  /\ \A job \in JobRecord : IsAsked(job) => IsAsked(job)'
         /\ Seq(AskedUnit) \subseteq Seq(AskedUnit')
         /\ UpgradeAsked => UpgradeAsked'
<1>1. \A job \in JobRecord : IsAsked(job) => IsAsked(job)'
  BY DEF IsAsked, HistoryGrows
<1>2. AskedUnit \subseteq AskedUnit'
  BY DEF AskedUnit, FrameAsked, HistoryGrows
<1>3. UpgradeAsked => UpgradeAsked'
  <2>1. NoJob.msg # ENTER_UPGRADE
    BY DEF NoJob, ENTER_UPGRADE
  <2> QED
    BY <2>1 DEF UpgradeAsked, HistoryInv, HistoryGrows
<1>4. Seq(AskedUnit) \subseteq Seq(AskedUnit')
  <2> DEFINE S == AskedUnit
             T == AskedUnit'
  <2>1. S \subseteq T
    BY <1>2
  <2> HIDE DEF S, T
  <2>2. Seq(S) \subseteq Seq(T)
    BY <2>1
  <2> QED
    BY <2>2 DEF S, T
<1> QED
  BY <1>1, <1>3, <1>4

LEMMA EmptyParserIsOne == EmptyParser \in ParserState
<1>1. NoFrame \in Frame
  BY SysFrames, IdleRecords DEF NoFrame, ACK
<1> QED
  BY <1>1 DEF EmptyParser, ParserState

LEMMA TransferInitially == TransferInit => TransferInv
<1> SUFFICES ASSUME TransferInit PROVE TransferInv
  OBVIOUS
<1> USE DEF TransferInit, LibInit
<1>1. LibInv
  BY IdleRecords DEF LibInv, KernelState
<1>2. HistoryInv
  BY IdleRecords DEF HistoryInv
<1>3. JobsAsked
  BY IdleRecords DEF JobsAsked
<1>4. ParserInv
  BY EmptyParserIsOne DEF ParserInv, Chunk
<1>5. upgradeFlag = FALSE
  OBVIOUS
<1>6. LineInv
  BY DEF LineInv
<1> QED
  BY <1>1, <1>2, <1>3, <1>4, <1>5, <1>6 DEF TransferInv

-----------------------------------------------------------------------------
(* The parser keeps whole frames, and only an application frame is given   *)
(* to the callbacks of the receiver.                                       *)

LEMMA ParserSteps ==
  ASSUME ParserInv, NEW n \in Node, NEW u \in Unit, NEW age \in Nat, NEW send, NEW call,
         ParseUnit(n, u, age, send, call)
  PROVE  parser' \in [Node -> ParserState]
<1> DEFINE held == [state |-> "PAYLOAD", frame |-> u.frame, spoiled |-> FALSE, age |-> age]
           spoilt == [parser[n] EXCEPT !.spoiled = TRUE, !.age = age]
<1>1. held \in ParserState /\ spoilt \in ParserState
  BY DEF ParserInv, ParserState, Unit
<1>2. \/ parser' = parser
      \/ parser' = [parser EXCEPT ![n] = EmptyParser]
      \/ parser' = [parser EXCEPT ![n] = held]
      \/ parser' = [parser EXCEPT ![n] = spoilt]
  BY DEF ParseUnit, ParseHeader, ParseNoise, ParsePayload, ParseGarbled, Finished,
         ParserInv, ParserState
<1> HIDE DEF held, spoilt
<1> QED
  BY <1>1, <1>2, EmptyParserIsOne DEF ParserInv

LEMMA ReceivedFramesAreApp ==
  ASSUME NEW n \in Node, NEW u, NEW age, NEW send, NEW call,
         ParseUnit(n, u, age, send, call), call \in {"RECV_ONE_FRAME", "RECV_ALL_DATA"}
  PROVE  u.frame.type = "APP"
<1>1. KernelHandleFrame(n, u.frame, send, call)
  BY DEF ParseUnit, ParseHeader, ParseNoise, ParsePayload, ParseGarbled
<1>2. ~SenderHandleSysFrame(n, u.frame, call)
  BY DEF SenderHandleSysFrame, HandshakeAnswered, HandshakeRefused, FrameAcked, FrameNacked,
         SenderIgnores, NextFrame
<1>3. ReceiverHandleFrame(n, u.frame, send, call)
  BY <1>1, <1>2 DEF KernelHandleFrame
<1> QED
  BY <1>3 DEF ReceiverHandleFrame, AcceptHandshake, AcceptFrame, ReceiverIgnores

(* What the callbacks note adds to what was noted before.                  *)
LEMMA SenderNotes ==
  ASSUME HistoryInv, NEW n, NEW call, SenderCalls(n, call)
  PROVE  /\ status' \in [Transfers -> {"none", "accepted", "done", "failed"}]
         /\ \A x \in Transfers : status'[x] = "none" => status[x] = "none"
<1> DEFINE y == snd[n].job.id
<1>1. \/ status' = [status EXCEPT ![y] = "done"]
      \/ status' = [status EXCEPT ![y] = "failed"]
      \/ status' = status
  BY DEF SenderCalls
<1> HIDE DEF y
<1>2. ASSUME NEW r \in {"done", "failed"}, status' = [status EXCEPT ![y] = r]
      PROVE  /\ status' \in [Transfers -> {"none", "accepted", "done", "failed"}]
             /\ \A x \in Transfers : status'[x] = "none" => status[x] = "none"
  BY <1>2 DEF HistoryInv
<1> QED
  BY <1>1, <1>2 DEF HistoryInv

LEMMA ReceiverNotes ==
  ASSUME HistoryInv, upgradeFlag \in BOOLEAN, upgradeFlag => UpgradeAsked,
         NEW f \in Frame, FrameAsked(f), NEW call, ReceiverCalls(f, call),
         call \in {"RECV_ONE_FRAME", "RECV_ALL_DATA"} => f.type = "APP",
         asked' = asked
  PROVE  /\ delivered' \in [Transfers -> SUBSET Nat]
         /\ \A x \in Transfers : delivered[x] \subseteq delivered'[x]
         /\ upgradeFlag' \in BOOLEAN
         /\ upgradeFlag' => UpgradeAsked'
<1> DEFINE x == f.job
           q == f.seq
<1>1. q \in Nat
  BY DEF Frame
<1>2. CASE call \in {"RECV_ONE_FRAME", "RECV_ALL_DATA"}
  <2>1. x \in Transfers /\ f.msg = asked[x].msg
    BY <1>2 DEF FrameAsked
  <2>2. /\ delivered' = [delivered EXCEPT ![x] = @ \union {q}]
        /\ upgradeFlag' = (upgradeFlag \/ f.msg = ENTER_UPGRADE)
    BY <1>2 DEF ReceiverCalls
  <2> HIDE DEF x, q
  <2>3. /\ delivered' \in [Transfers -> SUBSET Nat]
        /\ \A y \in Transfers : delivered[y] \subseteq delivered'[y]
        /\ delivered'[x] # {}
    BY <1>1, <2>1, <2>2 DEF HistoryInv
  <2>4. upgradeFlag' => UpgradeAsked'
    BY <2>1, <2>2, <2>3 DEF UpgradeAsked
  <2> QED
    BY <2>2, <2>3, <2>4
<1>3. CASE call \notin {"RECV_ONE_FRAME", "RECV_ALL_DATA"}
  <2>1. delivered' = delivered /\ upgradeFlag' = (upgradeFlag \/ FALSE)
    BY <1>3 DEF ReceiverCalls
  <2> QED
    BY <2>1 DEF HistoryInv, UpgradeAsked
<1> QED
  BY <1>2, <1>3

-----------------------------------------------------------------------------
(* Every step keeps the invariant, and what was asked for and delivered.   *)

TransferKept == TransferInv' /\ (UpgradeAsked => UpgradeAsked')

(* A node's transfers are those it had: it ends the one under way, goes on *)
(* with it, or starts the one that waits.                                  *)
LEMMA JobsStay ==
  ASSUME LibInv, HistoryInv, JobsAsked, HistoryGrows, waiting' \in [Node -> JobRecord],
         \A m \in Node : waiting'[m] = NoJob \/ waiting'[m] = waiting[m],
         \A m \in Node :
           \/ snd'[m].state = "IDLE"
           \/ snd[m].state # "IDLE" /\ snd'[m].job = snd[m].job
           \/ waiting[m] # NoJob /\ snd'[m].job = waiting[m]
  PROVE  JobsAsked'
<1>1. ASSUME NEW m \in Node, waiting'[m] # NoJob
      PROVE  IsAsked(waiting[m])' /\ waiting'[m] = waiting[m]
  BY <1>1 DEF IsAsked, JobsAsked, HistoryGrows
<1>2. ASSUME NEW m \in Node, snd'[m].state # "IDLE"
      PROVE  IsAsked(snd[m].job)'
  <2>1. CASE snd[m].state # "IDLE" /\ snd'[m].job = snd[m].job
    BY <2>1 DEF IsAsked, JobsAsked, HistoryGrows
  <2>2. CASE waiting[m] # NoJob /\ snd'[m].job = waiting[m]
    BY <2>2 DEF IsAsked, JobsAsked, HistoryGrows
  <2> QED
    BY <1>2, <2>1, <2>2
<1> QED
  BY <1>1, <1>2 DEF JobsAsked

LEMMA LineMoves ==
  ASSUME NEW S, NEW T, S \subseteq T, line \in [Node -> Seq(S)], NEW n \in Node, NEW o,
         o # n, NEW more \in Seq(T), line[n] # <<>>,
         line' = [line EXCEPT ![n] = Tail(@), ![o] = @ \o more]
  PROVE  line' \in [Node -> Seq(T)]
<1>1. Seq(S) \subseteq Seq(T)
  OBVIOUS
<1>2. Tail(line[n]) \in Seq(T)
  BY <1>1
<1>3. ASSUME NEW m \in Node
      PROVE  line'[m] \in Seq(T)
  <2>1. line'[m] = IF m = o THEN line[o] \o more ELSE IF m = n THEN Tail(line[n]) ELSE line[m]
    OBVIOUS
  <2>2. line[m] \in Seq(T)
    BY <1>1
  <2>3. line[m] \o more \in Seq(T)
    BY <2>2
  <2> QED
    BY <1>2, <2>1, <2>2, <2>3
<1> QED
  BY <1>3

LEMMA OtherIsOther ==
  ASSUME NEW n \in Node
  PROVE  Other(n) # n
  BY NodesAssumption DEF Other

LEMMA ParseNextKeeps ==
  ASSUME TransferInv, NEW n \in Node, line[n] # <<>>,
         NEW left \in Nat \ {0}, NEW age \in Nat, ParseNext(n, left, age)
  PROVE  TransferKept
<1> DEFINE u == Head(line[n])
<1> USE DEF TransferInv
<1>1. u \in Unit /\ u.frame \in Frame /\ FrameAsked(u.frame)
  <2>1. line[n] \in Seq(AskedUnit)
    BY DEF LineInv
  <2>2. u \in AskedUnit
    BY <2>1
  <2> HIDE DEF u
  <2> QED
    BY <2>2 DEF AskedUnit, Unit
<1>2. PICK send \in SentByParse(n, u), call \in CallsOf(n) :
        /\ ParseUnit(n, u, age, send, call)
        /\ line' = [line EXCEPT ![n] = Tail(@), ![Other(n)] = @ \o OnLine(send)]
        /\ SenderCalls(n, call)
        /\ ReceiverCalls(u.frame, call)
  BY DEF ParseNext
<1>3. asked' = asked
  BY DEF ParseNext
<1> HIDE DEF u
<1>4. LibInv' /\ (UNCHANGED snd \/ SenderGoesOn(n)) /\ waiting' = waiting
  BY <1>2, ParseKeeps
<1>5. /\ delivered' \in [Transfers -> SUBSET Nat]
      /\ \A x \in Transfers : delivered[x] \subseteq delivered'[x]
      /\ upgradeFlag' \in BOOLEAN
      /\ upgradeFlag' => UpgradeAsked'
  BY <1>1, <1>2, <1>3, ReceivedFramesAreApp, ReceiverNotes
<1>6. /\ status' \in [Transfers -> {"none", "accepted", "done", "failed"}]
      /\ \A x \in Transfers : status'[x] = "none" => status[x] = "none"
  BY <1>2, SenderNotes
<1>7. HistoryInv' /\ HistoryGrows
  BY <1>3, <1>5, <1>6 DEF HistoryInv, HistoryGrows
<1>8. JobsAsked'
  <2>1. ASSUME NEW m \in Node
        PROVE  \/ snd'[m].state = "IDLE"
               \/ snd[m].state # "IDLE" /\ snd'[m].job = snd[m].job
    BY <1>4, IdleRecords DEF SenderGoesOn, LibInv
  <2> QED
    BY <1>4, <1>7, <2>1, JobsStay DEF JobsAsked
<1>9. ParserInv'
  <2> DEFINE c == IF left = 1 THEN NoChunk
                  ELSE [left |-> left - 1, age |-> IF Resets(n) THEN Stale ELSE age]
  <2>1. Stale \in Nat
    BY TimeLimits DEF Stale
  <2>2. c \in Chunk
    <3> DEFINE older == IF Resets(n) THEN Stale ELSE age
               fewer == left - 1
    <3>1. older \in Nat /\ (left # 1 => fewer \in Nat \ {0})
      BY <2>1
    <3> HIDE DEF older, fewer
    <3> QED
      BY <3>1 DEF Chunk, older, fewer
  <2>3. chunk' = [chunk EXCEPT ![n] = c]
    BY DEF ParseNext
  <2> HIDE DEF c
  <2>4. chunk' \in [Node -> Chunk]
    BY <2>2, <2>3 DEF ParserInv
  <2> QED
    BY <1>1, <1>2, <2>4, ParserSteps DEF ParserInv
<1>10. LineInv'
  <2> DEFINE more == OnLine(send)
             o == Other(n)
             T == AskedUnit'
  <2>1. AskedUnit \subseteq T
    BY <1>7 DEF AskedUnit, FrameAsked, HistoryGrows
  <2>2. more \in Seq(T)
    <3>1. \A f \in Frame : f.type = "SYS" => FrameAsked(f)
      BY DEF FrameAsked
    <3>2. parser[n].frame \in Frame
      BY DEF ParserInv, ParserState
    <3>3. send = <<>> \/ send = <<Answer(ACK, u.frame)>> \/ send = <<Answer(NACK, parser[n].frame)>>
      BY DEF SentByParse
    <3>4. \E f \in Frame : FrameAsked(f) /\ (send = <<>> \/ send = <<f>>)
      BY <1>1, <3>1, <3>2, <3>3, Answers DEF ACK, NACK
    <3>5. OnLine(send) \in Seq(AskedUnit)
      BY <3>4, OnLineAsked
    <3> QED
      BY <1>7, <3>5, AskedStays
  <2>3. o # n /\ line' = [line EXCEPT ![n] = Tail(@), ![o] = @ \o more]
    BY <1>2, OtherIsOther
  <2> HIDE DEF more, o, T
  <2>4. line' \in [Node -> Seq(T)]
    BY <2>1, <2>2, <2>3, LineMoves DEF LineInv
  <2> QED
    BY <2>4 DEF LineInv, T
<1> QED
  BY <1>4, <1>5, <1>7, <1>8, <1>9, <1>10, AskedStays DEF TransferKept

LEMMA ParseKeepsAll ==
  ASSUME TransferInv, NEW n \in Node, Parse(n)
  PROVE  TransferKept
<1>1. CASE chunk[n] = NoChunk
  <2>1. PICK k \in 1 .. Len(line[n]) : ParseNext(n, k, 0)
    BY <1>1 DEF Parse
  <2>2. k \in Nat \ {0} /\ line[n] # <<>>
    BY DEF Parse, TransferInv, LineInv
  <2> QED
    BY <2>1, <2>2, ParseNextKeeps
<1>2. CASE chunk[n] # NoChunk
  <2>1. chunk[n] \in [left : Nat \ {0}, age : Nat]
    BY <1>2 DEF TransferInv, ParserInv, Chunk
  <2> QED
    BY <1>2, <2>1, ParseNextKeeps DEF Parse
<1> QED
  BY <1>1, <1>2

LEMMA HostAsksKeeps ==
  ASSUME TransferInv, HostAsks
  PROVE  TransferKept
<1> USE DEF TransferInv
<1>1. PICK x \in Transfers, j \in Job :
        AskNow(x, [j EXCEPT !.id = x]) \/ AskLater(x, [j EXCEPT !.id = x])
  BY DEF HostAsks
<1> DEFINE job == [j EXCEPT !.id = x]
<1>2. job \in JobRecord /\ job.id = x
  BY JobAssumption DEF JobRecord, Transfers
<1>3. AskNow(x, job) \/ AskLater(x, job)
  BY <1>1
<1> HIDE DEF job
<1>4. Ask(x, job)
  BY <1>3 DEF AskNow, AskLater
<1>5. HistoryInv' /\ HistoryGrows /\ IsAsked(job)' /\ status[x] = "none"
  BY <1>2, <1>4 DEF Ask, HistoryInv, HistoryGrows, IsAsked
<1>6. Host \in Node /\ Slave \in Node
  BY NodesAssumption
<1>7. CASE AskNow(x, job)
  <2> DEFINE f == SysFrame(HANDSHAKE, job)
             more == Units(f)
  <2>1. f \in Frame /\ FrameAsked(f)
    BY <1>2, SysFrames DEF HANDSHAKE, FrameAsked
  <2>2. more \in Seq(AskedUnit)
    BY <2>1, UnitsAsked
  <2>3. line' = [line EXCEPT ![Slave] = @ \o more]
    BY <1>7 DEF AskNow
  <2>4. /\ StartNow(Host, job, <<f>>)
        /\ rcv' = rcv /\ waiting' = waiting
    BY <1>7 DEF AskNow, Ask
  <2> HIDE DEF f, more
  <2>5. line' \in [Node -> Seq(AskedUnit)]
    BY <1>6, <2>2, <2>3 DEF LineInv
  <2>6. LineInv'
    BY <1>5, <2>5, AskedStays DEF LineInv
  <2>7. /\ LibInv'
        /\ \A m \in Node : m # Host => snd'[m] = snd[m]
        /\ snd'[Host].job = job
    BY <1>2, <1>6, <2>4, StartKeepsLib
  <2>8. JobsAsked'
    <3>1. ASSUME NEW m \in Node, waiting[m] # NoJob
          PROVE  IsAsked(waiting[m])'
      BY <1>5, <2>4, <3>1 DEF JobsAsked, HistoryGrows, IsAsked
    <3>2. ASSUME NEW m \in Node, snd'[m].state # "IDLE"
          PROVE  IsAsked(snd[m].job)'
      <4>1. CASE m = Host
        BY <1>5, <2>7, <4>1 DEF IsAsked
      <4>2. CASE m # Host
        BY <1>5, <2>7, <3>2, <4>2 DEF JobsAsked, HistoryGrows, IsAsked
      <4> QED
        BY <4>1, <4>2
    <3> QED
      BY <2>4, <3>1, <3>2 DEF JobsAsked
  <2> QED
    BY <1>4, <1>5, <2>6, <2>7, <2>8, AskedStays DEF Ask, ParserInv, TransferKept
<1>8. CASE AskLater(x, job)
  <2>1. /\ UNCHANGED <<kernel, snd, rcv, line>>
        /\ waiting' = [waiting EXCEPT ![Host] = job]
    BY <1>8 DEF AskLater, PutOff, Ask
  <2>2. LibInv'
    BY <2>1 DEF LibInv
  <2>3. LineInv'
    BY <1>5, <2>1, AskedStays DEF LineInv
  <2>4. JobsAsked'
    <3>1. waiting' \in [Node -> JobRecord]
      BY <1>2, <2>1 DEF JobsAsked
    <3>2. ASSUME NEW m \in Node, waiting'[m] # NoJob
          PROVE  IsAsked(waiting[m])'
      <4>1. waiting'[m] = job \/ waiting'[m] = waiting[m]
        BY <2>1 DEF JobsAsked
      <4> QED
        BY <1>5, <3>2, <4>1 DEF JobsAsked, HistoryGrows, IsAsked
    <3>3. ASSUME NEW m \in Node, snd'[m].state # "IDLE"
          PROVE  IsAsked(snd[m].job)'
      BY <1>5, <2>1, <3>3 DEF JobsAsked, HistoryGrows, IsAsked
    <3> QED
      BY <3>1, <3>2, <3>3 DEF JobsAsked
  <2> QED
    BY <1>4, <1>5, <2>2, <2>3, <2>4, AskedStays DEF Ask, ParserInv, TransferKept
<1> QED
  BY <1>3, <1>7, <1>8

LEMMA RunKeepsAll ==
  ASSUME TransferInv, NEW n \in Node, Run(n)
  PROVE  TransferKept
<1> USE DEF TransferInv
<1>1. PICK send \in SentByRun(n), call \in CallsOf(n) :
        /\ KernelRun(n, send, call)
        /\ line' = [line EXCEPT ![Other(n)] = @ \o OnLine(send)]
        /\ SenderCalls(n, call)
  BY DEF Run
<1>2. UNCHANGED <<upgradeFlag, chunk, asked, delivered>>
  BY DEF Run
<1>3. /\ LibInv'
      /\ \/ UNCHANGED <<snd, waiting>>
         \/ SenderGoesOn(n) /\ waiting' = waiting
         \/ /\ waiting[n] # NoJob /\ waiting' = [waiting EXCEPT ![n] = NoJob]
            /\ \A m \in Node : m # n => snd'[m] = snd[m]
            /\ snd'[n].job = waiting[n]
  BY <1>1, RunKeeps DEF JobsAsked
<1>4. /\ status' \in [Transfers -> {"none", "accepted", "done", "failed"}]
      /\ \A x \in Transfers : status'[x] = "none" => status[x] = "none"
  BY <1>1, SenderNotes
<1>5. HistoryInv' /\ HistoryGrows
  BY <1>2, <1>4 DEF HistoryInv, HistoryGrows
<1>6. JobsAsked'
  <2>1. /\ waiting' \in [Node -> JobRecord]
        /\ \A m \in Node : waiting'[m] = NoJob \/ waiting'[m] = waiting[m]
    BY <1>3, IdleRecords DEF JobsAsked
  <2>2. ASSUME NEW m \in Node
        PROVE  \/ snd'[m].state = "IDLE"
               \/ snd[m].state # "IDLE" /\ snd'[m].job = snd[m].job
               \/ waiting[m] # NoJob /\ snd'[m].job = waiting[m]
    BY <1>3, IdleRecords DEF SenderGoesOn, LibInv
  <2> QED
    BY <1>5, <2>1, <2>2, JobsStay
<1>7. ParserInv'
  <2>1. \A p \in ParserState : AgedParser(p) \in ParserState
    BY EmptyParserIsOne DEF AgedParser
  <2> DEFINE aged == AgedParser(parser[n])
  <2>2. aged \in ParserState
    BY <2>1 DEF ParserInv
  <2>3. \/ parser' = parser
        \/ parser' = [parser EXCEPT ![n] = EmptyParser]
        \/ parser' = [parser EXCEPT ![n] = aged]
    BY <1>1 DEF KernelRun, RunStartsWaiting, RunSender, RunReceiverTimeout, RunGoesIdle,
                RunDropsPartial
  <2> HIDE DEF aged
  <2> QED
    BY <1>2, <2>2, <2>3, EmptyParserIsOne DEF ParserInv
<1>8. LineInv'
  <2> DEFINE more == OnLine(send)
             o == Other(n)
  <2>1. more \in Seq(AskedUnit)
    <3>1. CASE snd[n].state = "SENDING"
      <4> DEFINE seq == FrameNumber(snd[n])
                 job == snd[n].job
      <4>1. seq \in Nat /\ job \in JobRecord /\ IsAsked(job)
        BY <3>1 DEF LibInv, Sender, FrameNumber, JobsAsked
      <4>2. send = <<>> \/ send = <<AppFrame(job, seq)>>
        BY <3>1 DEF SentByRun
      <4> HIDE DEF seq, job
      <4>3. AppFrame(job, seq) \in Frame /\ FrameAsked(AppFrame(job, seq))
        BY <4>1, AppFrames
      <4> QED
        BY <4>2, <4>3, OnLineAsked
    <3>2. CASE snd[n].state # "SENDING"
      <4> DEFINE job == waiting[n]
      <4>1. job \in JobRecord
        BY DEF JobsAsked
      <4>2. send = <<>> \/ send = <<SysFrame(HANDSHAKE, job)>>
        BY <3>2 DEF SentByRun
      <4> HIDE DEF job
      <4>3. SysFrame(HANDSHAKE, job) \in Frame /\ FrameAsked(SysFrame(HANDSHAKE, job))
        BY <4>1, SysFrames DEF FrameAsked, HANDSHAKE
      <4> QED
        BY <4>2, <4>3, OnLineAsked
    <3> QED
      BY <3>1, <3>2
  <2>2. line' = [line EXCEPT ![o] = @ \o more]
    BY <1>1
  <2> HIDE DEF more, o
  <2>3. line' \in [Node -> Seq(AskedUnit)]
    <3>1. ASSUME NEW m \in Node
          PROVE  line'[m] \in Seq(AskedUnit)
      <4>1. line[m] \in Seq(AskedUnit)
        BY DEF LineInv
      <4>2. line[m] \o more \in Seq(AskedUnit)
        BY <2>1, <4>1
      <4>3. line'[m] = line[m] \/ line'[m] = line[m] \o more
        BY <2>2 DEF LineInv
      <4> QED
        BY <4>1, <4>2, <4>3
    <3> QED
      BY <2>2, <3>1 DEF LineInv
  <2> QED
    BY <1>5, <2>3, AskedStays DEF LineInv
<1> QED
  BY <1>2, <1>3, <1>5, <1>6, <1>7, <1>8, AskedStays DEF TransferKept

(* Steps of the line alone.                                                *)
LEMMA LineKeeps ==
  ASSUME TransferInv, UNCHANGED <<libVars, chunk, asked, status, delivered>>,
         upgradeFlag' = upgradeFlag \/ upgradeFlag' = FALSE,
         line' \in [Node -> Seq(AskedUnit)]
  PROVE  TransferKept
<1> USE DEF TransferInv, libVars
<1>1. LibInv'
  BY DEF LibInv
<1>2. HistoryInv' /\ HistoryGrows
  BY DEF HistoryInv, HistoryGrows
<1>3. JobsAsked'
  BY <1>2, JobsStay DEF JobsAsked
<1>4. ParserInv'
  BY DEF ParserInv
<1>5. LineInv' /\ (UpgradeAsked => UpgradeAsked')
  BY <1>2, AskedStays DEF LineInv
<1>6. upgradeFlag' \in BOOLEAN /\ (upgradeFlag' => UpgradeAsked')
  <2>1. CASE upgradeFlag' = upgradeFlag
    BY <1>5, <2>1
  <2>2. CASE upgradeFlag' = FALSE
    BY <2>2
  <2> QED
    BY <2>1, <2>2
<1> QED
  BY <1>1, <1>2, <1>3, <1>4, <1>5, <1>6 DEF TransferKept

LEMMA UnitKeptAsked ==
  ASSUME NEW u \in AskedUnit, NEW age \in Nat
  PROVE  [u EXCEPT !.intact = FALSE] \in AskedUnit /\ [u EXCEPT !.age = age] \in AskedUnit
  BY DEF AskedUnit, Unit, FrameAsked

LEMMA LoseUnitKeeps ==
  ASSUME TransferInv, NEW n \in Node, LoseUnit(n)
  PROVE  TransferKept
<1>1. PICK i \in 1 .. Len(line[n]) :
        /\ Fault(n, line[n][i].frame)
        /\ line' = [line EXCEPT ![n] = RemoveAt(@, i)]
  BY DEF LoseUnit
<1> DEFINE rest == RemoveAt(line[n], i)
<1>2. line[n] \in Seq(AskedUnit)
  BY DEF TransferInv, LineInv
<1>3. rest \in Seq(AskedUnit)
  <2>1. /\ SubSeq(line[n], 1, i - 1) \in Seq(AskedUnit)
        /\ SubSeq(line[n], i + 1, Len(line[n])) \in Seq(AskedUnit)
    BY <1>2
  <2> QED
    BY <2>1 DEF RemoveAt
<1>4. line' = [line EXCEPT ![n] = rest]
  BY <1>1
<1> HIDE DEF rest
<1>5. line' \in [Node -> Seq(AskedUnit)]
  BY <1>3, <1>4 DEF TransferInv, LineInv
<1> QED
  BY <1>1, <1>5, LineKeeps DEF Fault

LEMMA GarbleUnitKeeps ==
  ASSUME TransferInv, NEW n \in Node, GarbleUnit(n)
  PROVE  TransferKept
<1>1. PICK i \in 1 .. Len(line[n]) :
        /\ Fault(n, line[n][i].frame)
        /\ line' = [line EXCEPT ![n][i].intact = FALSE]
  BY DEF GarbleUnit
<1> DEFINE u == [line[n][i] EXCEPT !.intact = FALSE]
           l == [line[n] EXCEPT ![i] = u]
<1>2. line[n] \in Seq(AskedUnit)
  BY DEF TransferInv, LineInv
<1>3. u \in AskedUnit
  <2>1. line[n][i] \in AskedUnit /\ 0 \in Nat
    BY <1>2
  <2> QED
    BY <2>1, UnitKeptAsked
<1>4. line' = [line EXCEPT ![n] = l]
  BY <1>1
<1> HIDE DEF u
<1>5. l \in Seq(AskedUnit)
  BY <1>2, <1>3
<1> HIDE DEF l
<1>6. line' \in [Node -> Seq(AskedUnit)]
  BY <1>4, <1>5 DEF TransferInv, LineInv
<1> QED
  BY <1>1, <1>6, LineKeeps DEF Fault

LEMMA UnheardKeeps ==
  ASSUME TransferInv, NEW n \in Node, Unheard(n)
  PROVE  TransferKept
<1>1. line' = [line EXCEPT ![n] = Tail(@)] /\ line[n] # <<>>
  BY DEF Unheard
<1>2. line' \in [Node -> Seq(AskedUnit)]
  BY <1>1 DEF TransferInv, LineInv
<1> QED
  BY <1>2, LineKeeps DEF Unheard, ghosts

(* Steps of the clock, and of a node that starts anew.                     *)
LEMMA PassKeeps ==
  ASSUME TransferInv, Pass
  PROVE  TransferKept
<1> USE DEF TransferInv
<1>1. AgeTimers /\ UNCHANGED <<upgradeFlag, chunk, asked, status, delivered>>
  BY DEF Pass, ghosts
<1>2. LibInv' /\ \A n \in Node : snd'[n].state = snd[n].state /\ snd'[n].job = snd[n].job
  BY <1>1, AgeKeepsLib
<1>3. HistoryInv' /\ HistoryGrows
  BY <1>1 DEF HistoryInv, HistoryGrows
<1>4. JobsAsked'
  BY <1>1, <1>2, <1>3, JobsStay DEF JobsAsked, AgeTimers
<1>5. ParserInv'
  <2>1. Stale \in Nat
    BY TimeLimits DEF Stale
  <2>2. ASSUME NEW n \in Node
        PROVE  parser'[n] \in ParserState
    <3> DEFINE age == Older(parser[n].age, Stale)
    <3>1. parser[n] \in ParserState
      BY DEF ParserInv
    <3>2. age \in Nat
      BY <2>1, <3>1 DEF ParserState, Older
    <3>3. parser'[n] = IF parser[n].state = "PAYLOAD"
                       THEN [parser[n] EXCEPT !.age = age] ELSE parser[n]
      BY <1>1, <3>1 DEF AgeTimers, ParserState
    <3> HIDE DEF age
    <3> QED
      BY <3>1, <3>2, <3>3 DEF ParserState
  <2>3. parser' = [n \in Node |-> parser'[n]]
    BY <1>1 DEF AgeTimers
  <2> QED
    BY <1>1, <2>2, <2>3 DEF ParserInv
<1>6. LineInv'
  <2>1. ASSUME NEW n \in Node
        PROVE  line'[n] \in Seq(AskedUnit)
    <3>1. line[n] \in Seq(AskedUnit)
      BY DEF LineInv
    <3>2. ASSUME NEW i \in 1 .. Len(line[n])
          PROVE  [line[n][i] EXCEPT !.age = @ + 1] \in AskedUnit
      <4> DEFINE u == line[n][i]
                 age == u.age + 1
      <4>1. u \in AskedUnit
        BY <3>1
      <4>2. age \in Nat
        BY <4>1 DEF AskedUnit, Unit
      <4>3. [u EXCEPT !.age = age] \in AskedUnit
        <5> HIDE DEF age
        <5> QED
          BY <4>1, <4>2, UnitKeptAsked
      <4>4. [line[n][i] EXCEPT !.age = @ + 1] = [u EXCEPT !.age = age]
        OBVIOUS
      <4> QED
        BY <4>3, <4>4
    <3>3. line'[n] = [i \in 1 .. Len(line[n]) |-> [line[n][i] EXCEPT !.age = @ + 1]]
      BY DEF Pass
    <3>4. Len(line[n]) \in Nat
      BY <3>1
    <3>5. line'[n] \in [1 .. Len(line[n]) -> AskedUnit]
      BY <3>2, <3>3
    <3> QED
      BY <3>4, <3>5
  <2>2. line' = [n \in Node |-> line'[n]]
    BY DEF Pass
  <2>3. line' \in [Node -> Seq(AskedUnit)]
    BY <2>1, <2>2
  <2> QED
    BY <1>3, <2>3, AskedStays DEF LineInv
<1> QED
  BY <1>1, <1>2, <1>3, <1>4, <1>5, <1>6, AskedStays DEF TransferKept

LEMMA RestartKeeps ==
  ASSUME TransferInv, NEW n \in Node, Restart(n)
  PROVE  TransferKept
<1> USE DEF TransferInv
<1>1. /\ LibRestart(n) /\ UNCHANGED <<asked, status, delivered>>
      /\ upgradeFlag' = (upgradeFlag /\ n # Slave)
      /\ line' = [line EXCEPT ![n] = <<>>]
      /\ chunk' = [chunk EXCEPT ![n] = NoChunk]
  BY DEF Restart, ghosts
<1>2. LibInv' /\ \A m \in Node : snd'[m] = snd[m] \/ snd'[m] = IdleSender
  BY <1>1, RestartKeepsLib
<1>3. HistoryInv' /\ HistoryGrows
  BY <1>1 DEF HistoryInv, HistoryGrows
<1>4. JobsAsked'
  <2>1. /\ waiting' \in [Node -> JobRecord]
        /\ \A m \in Node : waiting'[m] = NoJob \/ waiting'[m] = waiting[m]
    BY <1>1, IdleRecords DEF LibRestart, JobsAsked
  <2>2. ASSUME NEW m \in Node
        PROVE  \/ snd'[m].state = "IDLE"
               \/ snd[m].state # "IDLE" /\ snd'[m].job = snd[m].job
    BY <1>2, IdleRecords
  <2> QED
    BY <1>3, <2>1, <2>2, JobsStay
<1>5. ParserInv'
  <2>1. parser' = [parser EXCEPT ![n] = EmptyParser]
    BY <1>1 DEF LibRestart
  <2> QED
    BY <1>1, <2>1, EmptyParserIsOne DEF ParserInv, Chunk
<1>6. LineInv'
  <2>1. line' \in [Node -> Seq(AskedUnit)]
    BY <1>1 DEF LineInv
  <2> QED
    BY <1>3, <2>1, AskedStays DEF LineInv
<1>7. upgradeFlag' \in BOOLEAN /\ (upgradeFlag' => UpgradeAsked')
  BY <1>1, <1>3, AskedStays
<1> QED
  BY <1>2, <1>3, <1>4, <1>5, <1>6, <1>7, AskedStays DEF TransferKept

-----------------------------------------------------------------------------
(* Names for the two ends and the two directions of the line.              *)
Sndr == snd[Host]
Rcvr == rcv[Slave]
Held == parser[Slave]
Waits == waiting[Host]
Outward == line[Slave]
Homeward == line[Host]

Current == Sndr.job.id
Connected == Sndr.state \in {"SENDING", "WAIT_ACK"}
Open == Rcvr.state = "RECVING"
Holding == Held.state = "PAYLOAD"

IsApp(u) == u.frame.type = "APP"
IsHead(u) == IsApp(u) /\ u.part = "header"
IsAck(u) == u.frame.msg = ACK

NoApp == \A i \in 1 .. Len(Outward) : ~IsApp(Outward[i])
NoHead == \A i \in 1 .. Len(Outward) : ~IsHead(Outward[i])
NoAck == \A i \in 1 .. Len(Homeward) : ~IsAck(Homeward[i])

\* The application frames that are on the line or in the slave's parser.
Carried(f) ==
  \/ Holding /\ f = Held.frame
  \/ \E i \in 1 .. Len(Outward) : IsApp(Outward[i]) /\ f = Outward[i].frame

\* A handshake from before the connection, or before frames of one.
Ahead(i) ==
  /\ ~IsApp(Outward[i])
  /\ Connected \/ \E j \in 1 .. Len(Outward) : i < j /\ IsApp(Outward[j])

AnswerLost(x) == faults[x]["answer"] > 0

-----------------------------------------------------------------------------
(* The invariant of the two ends and the line, as long as the slave does   *)
(* not restart.                                                            *)

\* What the host is sending.
SenderOK ==
  /\ Connected => Sndr.sent < Sndr.job.total
  /\ Sndr.state = "HANDSHAKE" => Sndr.sent = 0 /\ Sndr.tries = 0
  /\ Sndr.state = "WAIT_ACK" => Sndr.job.needAck /\ Sndr.tries > 0
  /\ Sndr.tries > 0 => Sndr.seq = Sndr.sent
  /\ Sndr.state # "IDLE" => status[Current] = "accepted"
  /\ Waits # NoJob => /\ status[Waits.id] = "accepted"
                      /\ Sndr.state # "IDLE" => Waits.id # Current

\* Nothing is on the line any more when the sender's time is up.
TimingOK ==
  /\ \A i \in 1 .. Len(Outward) : Sndr.age <= Outward[i].age
  /\ \A i \in 1 .. Len(Homeward) : Sndr.age <= Homeward[i].age + MaxDelay

Untouched(x) == delivered[x] = {} /\ \A f \in Frame : Carried(f) => f.job # x

Unsent(x) ==
  \/ status[x] = "none"
  \/ Waits # NoJob /\ x = Waits.id
  \/ Sndr.state = "HANDSHAKE" /\ x = Current

CarriedOK ==
  /\ \A x \in Transfers : Unsent(x) => Untouched(x)
  /\ \A f \in Frame : Carried(f) =>
       f.job \in Transfers /\ f = AppFrame(asked[f.job], f.seq) /\ f.seq < f.total
  /\ \A f, g \in Frame : Carried(f) /\ Carried(g) => f.job = g.job
  /\ Connected => \A f \in Frame : Carried(f) => f.job = Current
  /\ \A x \in Transfers : delivered[x] \subseteq 0 .. asked[x].total - 1

\* The receiver's count is that of the frames it was given.
CountOK ==
  Open => \A x \in Transfers :
    (Connected /\ x = Current) \/ (\E f \in Frame : Carried(f) /\ f.job = x) =>
      Rcvr.count = Cardinality(delivered[x]) \/ AnswerLost(x)

\* The transfer under way, of frames that are acknowledged.
AckedOK ==
  Connected /\ Sndr.job.needAck =>
    /\ \A f \in Frame : Carried(f) => f.seq = Sndr.sent
    /\ \/ delivered[Current] = 0 .. Sndr.sent - 1 /\ NoAck
       \/ /\ delivered[Current] = 0 .. Sndr.sent
          /\ Sndr.tries > 0
          /\ NoAck => AnswerLost(Current)
    /\ Sndr.state = "SENDING" =>
         /\ Homeward = <<>>
         /\ Outward = <<>> \/ (~Holding /\ NoHead)
    /\ Sndr.state = "WAIT_ACK" =>
         /\ Len(Homeward) <= 1
         /\ Homeward # <<>> => ~Holding /\ NoHead
         /\ ~NoAck => NoApp /\ Homeward[1].frame.job = Current
         /\ \A i, j \in 1 .. Len(Outward) : i < j /\ IsHead(Outward[i]) =>
              IsApp(Outward[j]) /\ ~IsHead(Outward[j]) /\ j = Len(Outward)
         /\ Holding => \A i, j \in 1 .. Len(Outward) : i < j => IsHead(Outward[i])

\* Frames that are not acknowledged follow one another.
Precedes(f, u) == f.seq < u.frame.seq \/ (f.seq = u.frame.seq /\ ~IsHead(u))

PlainOK ==
  /\ \A f \in Frame : Carried(f) /\ ~f.needAck => \A q \in delivered[f.job] : q < f.seq
  /\ Connected /\ ~Sndr.job.needAck =>
       /\ \A f \in Frame : Carried(f) => f.seq < Sndr.sent
       /\ \A q \in delivered[Current] : q < Sndr.sent
  /\ \A i, j \in 1 .. Len(Outward) :
       i < j /\ IsApp(Outward[i]) /\ ~Outward[i].frame.needAck /\ IsApp(Outward[j]) =>
         /\ Precedes(Outward[i].frame, Outward[j])
         /\ Outward[i].frame.seq = Outward[j].frame.seq => IsHead(Outward[i])
  /\ Holding /\ ~Held.frame.needAck =>
       \A j \in 1 .. Len(Outward) : IsApp(Outward[j]) => Precedes(Held.frame, Outward[j])

\* What is left of a transfer of acknowledged frames is no whole frame.
SpentOK ==
  ~Connected /\ (\E f \in Frame : Carried(f) /\ f.needAck) => NoApp \/ (~Holding /\ NoHead)

\* An ACK comes last; before the connection it is that of a handshake just taken.
AckOK ==
  /\ \A i, j \in 1 .. Len(Homeward) : i < j => ~IsAck(Homeward[i])
  /\ Connected /\ ~Sndr.job.needAck => NoAck
  /\ ~Connected => \A i \in 1 .. Len(Homeward) : IsAck(Homeward[i]) =>
       /\ NoApp /\ ~Holding
       /\ Open => Rcvr.count = 0 /\ Rcvr.age <= Homeward[i].age

AheadOK ==
  \A i \in 1 .. Len(Outward) : Ahead(i) =>
    /\ \A j \in 1 .. Len(Outward) : j <= i => ~IsApp(Outward[j])
    /\ ~Holding
    /\ Open => Rcvr.age <= MaxDelay + Outward[i].age

\* A slave that is up takes no handshake in the middle of a transfer.
Listening ==
  /\ ~Connected /\ ~NoAck => Open
  /\ (\E i \in 1 .. Len(Outward) : Ahead(i)) => Open

LinkOK ==
  /\ SenderOK
  /\ TimingOK
  /\ CarriedOK
  /\ CountOK
  /\ AckedOK
  /\ PlainOK
  /\ SpentOK
  /\ AckOK
  /\ AheadOK

\* What the service promises of the end of a transfer, and what is reported.
EndOK ==
  /\ \A x \in Transfers : status[x] = "done" /\ asked[x].needAck =>
       delivered[x] = 0 .. asked[x].total - 1
  /\ reported \subseteq Transfers
  /\ \A x \in reported : AnswerLost(x) \/ delivered[x] = 0 .. asked[x].total - 1
-----------------------------------------------------------------------------
(* The types that these facts speak about.                                 *)
OutUnit == {u \in Unit : u.age <= MaxDelay /\
              (u.frame.type = "APP" \/ (u.frame.msg = HANDSHAKE /\ u.part = "header"))}

HomeUnit == {u \in Unit : u.age <= MaxDelay /\ u.part = "header" /\
               u.frame.type = "SYS" /\ u.frame.msg \in {ACK, NACK}}

LinkTyped ==
  /\ Sndr \in Sender
  /\ Rcvr \in Receiver
  /\ Held \in ParserState
  /\ Waits \in JobRecord
  /\ Outward \in Seq(OutUnit)
  /\ Homeward \in Seq(HomeUnit)
  /\ asked \in [Transfers -> JobRecord]
  /\ status \in [Transfers -> {"none", "accepted", "done", "failed"}]
  /\ delivered \in [Transfers -> SUBSET Nat]
  /\ faults \in [Transfers -> [Kinds -> Nat]]
  /\ Sndr.state # "IDLE" => IsAsked(Sndr.job)
  /\ Waits # NoJob => IsAsked(Waits)
  /\ Sndr.state = "IDLE" => Sndr = IdleSender
  /\ Rcvr.state = "IDLE" => Rcvr = IdleReceiver
  /\ Holding => Held.frame.type = "APP"

UnitFacts ==
  /\ Len(Outward) \in Nat /\ Len(Homeward) \in Nat
  /\ \A i \in 1 .. Len(Outward) :
       Outward[i].age \in 0 .. MaxDelay /\ Outward[i].frame \in Frame
  /\ \A i \in 1 .. Len(Homeward) :
       Homeward[i].age \in 0 .. MaxDelay /\ Homeward[i].frame \in Frame
  /\ Outward = <<>> <=> Len(Outward) = 0
  /\ Homeward = <<>> <=> Len(Homeward) = 0
  /\ MaxDelay \in Nat /\ 2 * MaxDelay < Timeout /\ Timeout \in Nat
  /\ Rcvr.age \in Nat /\ Rcvr.count \in Nat
  /\ Sndr.age \in Nat /\ Sndr.sent \in Nat /\ Sndr.tries \in Nat /\ Sndr.seq \in Nat
  /\ Sndr.job \in JobRecord
  /\ Sndr.state \in {"IDLE", "HANDSHAKE", "SENDING", "WAIT_ACK"}
  /\ Holding => Held.frame \in Frame

LEMMA UnitsAreUnits == LinkTyped => UnitFacts
<1> SUFFICES ASSUME LinkTyped PROVE UnitFacts
  OBVIOUS
<1>1. /\ Outward \in Seq(OutUnit) /\ Homeward \in Seq(HomeUnit)
      /\ Sndr \in Sender /\ Rcvr \in Receiver /\ Held \in ParserState
  BY DEF LinkTyped
<1>2. \A u \in OutUnit \union HomeUnit : u.age \in 0 .. MaxDelay /\ u.frame \in Frame
  BY DEF OutUnit, HomeUnit, Unit
<1>3. /\ Len(Outward) \in Nat /\ Len(Homeward) \in Nat
      /\ \A i \in 1 .. Len(Outward) : Outward[i] \in OutUnit
      /\ \A i \in 1 .. Len(Homeward) : Homeward[i] \in HomeUnit
      /\ Outward = <<>> <=> Len(Outward) = 0
      /\ Homeward = <<>> <=> Len(Homeward) = 0
  BY <1>1
<1> QED
  BY <1>1, <1>2, <1>3, DelayAssumption, TimeoutAssumption
  DEF UnitFacts, Sender, Receiver, ParserState

LEMMA UnitsStayUnits == LinkTyped' => UnitFacts'
  BY UnitsAreUnits, PTL

-----------------------------------------------------------------------------
(* Time passes, units are lost on the way to the slave, or it goes on or   *)
(* starts afresh with what it has: g tells which units are left, d how     *)
(* much older they are.                                                    *)

SenderGoesUnchanged ==
  /\ Sndr'.state = Sndr.state /\ Sndr'.job = Sndr.job /\ Sndr'.seq = Sndr.seq
  /\ Sndr'.sent = Sndr.sent /\ Sndr'.tries = Sndr.tries
  /\ Waits' = Waits /\ asked' = asked /\ status' = status

Fades(d, g) ==
  /\ g \in [1 .. Len(Outward') -> 1 .. Len(Outward)]
  /\ SenderGoesUnchanged
  /\ Sndr'.age <= Sndr.age + d
  /\ delivered' = delivered
  /\ \A x \in Transfers : AnswerLost(x) => AnswerLost(x)'
  /\ \A i, j \in 1 .. Len(Outward') : i < j => g[i] < g[j]
  /\ \A i \in 1 .. Len(Outward') :
       LET u == Outward[g[i]] IN
       /\ Outward'[i].frame = u.frame /\ Outward'[i].part = u.part
       /\ Outward'[i].age = u.age + d
  /\ Len(Homeward') = Len(Homeward)
  /\ \A i \in 1 .. Len(Homeward) :
       Homeward'[i].frame = Homeward[i].frame /\ Homeward'[i].age = Homeward[i].age + d
  /\ Holding' => Holding /\ Held'.frame = Held.frame
  /\ Open' => Open /\ Rcvr'.count = Rcvr.count /\ Rcvr'.age <= Rcvr.age + d

FadingGaps(d, g) ==
  /\ Current' = Current /\ (Connected' <=> Connected)
  /\ \A f \in Frame : Carried(f)' => Carried(f)
  /\ NoApp => NoApp'
  /\ NoHead => NoHead'
  /\ Outward = <<>> => Outward' = <<>>
  /\ Homeward = <<>> <=> Homeward' = <<>>
  /\ NoAck' <=> NoAck
  /\ Homeward # <<>> => Homeward'[1].frame = Homeward[1].frame
  /\ \A i \in 1 .. Len(Outward') :
       /\ g[i] \in 1 .. Len(Outward)
       /\ IsApp(Outward'[i]) <=> IsApp(Outward[g[i]])
       /\ IsHead(Outward'[i]) <=> IsHead(Outward[g[i]])
       /\ Ahead(i)' => Ahead(g[i])

LEMMA Fading ==
  ASSUME LinkTyped, LinkTyped', NEW d \in Nat, NEW g, Fades(d, g)
  PROVE  FadingGaps(d, g)
<1>1. /\ Len(Outward) \in Nat /\ Len(Outward') \in Nat /\ Len(Homeward) \in Nat
      /\ Outward = <<>> <=> Len(Outward) = 0
      /\ Homeward = <<>> <=> Len(Homeward) = 0
      /\ Outward' = <<>> <=> Len(Outward') = 0
      /\ Homeward' = <<>> <=> Len(Homeward') = 0
  BY UnitsAreUnits, UnitsStayUnits DEF UnitFacts
<1>2. Current' = Current /\ (Connected' <=> Connected)
  BY DEF Fades, SenderGoesUnchanged, Current, Connected
<1>3. \A i \in 1 .. Len(Outward') :
        /\ g[i] \in 1 .. Len(Outward)
        /\ Outward'[i].frame = Outward[g[i]].frame /\ Outward'[i].part = Outward[g[i]].part
  BY DEF Fades
<1>4. \A i \in 1 .. Len(Outward') :
       /\ IsApp(Outward'[i]) <=> IsApp(Outward[g[i]])
       /\ IsHead(Outward'[i]) <=> IsHead(Outward[g[i]])
  BY <1>3 DEF IsApp, IsHead
<1>5. ASSUME NEW f \in Frame, Carried(f)'
      PROVE  Carried(f)
  <2>1. CASE Holding' /\ f = Held'.frame
    BY <2>1 DEF Carried, Fades
  <2>2. CASE \E i \in 1 .. Len(Outward') : IsApp(Outward'[i]) /\ f = Outward'[i].frame
    BY <1>3, <1>4, <2>2 DEF Carried
  <2> QED
    BY <1>5, <2>1, <2>2 DEF Carried
<1>6. (NoApp => NoApp') /\ (NoHead => NoHead')
  BY <1>3, <1>4 DEF NoApp, NoHead
<1>7. Outward = <<>> => Outward' = <<>>
  <2>1. ASSUME Len(Outward) = 0, Len(Outward') # 0
        PROVE  FALSE
    <3>1. 1 \in 1 .. Len(Outward')
      BY <1>1, <2>1
    <3>2. g[1] \in 1 .. 0
      BY <1>3, <2>1, <3>1
    <3> QED
      BY <3>2
  <2> QED
    BY <1>1, <2>1
<1>8. /\ Homeward = <<>> <=> Homeward' = <<>>
      /\ NoAck' <=> NoAck
      /\ Homeward # <<>> => Homeward'[1].frame = Homeward[1].frame
  <2>1. /\ Len(Homeward') = Len(Homeward)
        /\ \A i \in 1 .. Len(Homeward) : Homeward'[i].frame = Homeward[i].frame
    BY DEF Fades
  <2>2. NoAck' <=> NoAck
    BY <2>1 DEF NoAck, IsAck
  <2>3. Homeward # <<>> => 1 \in 1 .. Len(Homeward)
    BY <1>1
  <2> QED
    BY <1>1, <2>1, <2>2, <2>3
<1>9. ASSUME NEW i \in 1 .. Len(Outward'), Ahead(i)'
      PROVE  Ahead(g[i])
  <2>1. ~IsApp(Outward[g[i]])
    BY <1>4, <1>9 DEF Ahead
  <2>2. CASE \E j \in 1 .. Len(Outward') : i < j /\ IsApp(Outward'[j])
    <3>1. PICK j \in 1 .. Len(Outward') : i < j /\ IsApp(Outward'[j])
      BY <2>2
    <3>2. g[i] < g[j] /\ IsApp(Outward[g[j]]) /\ g[j] \in 1 .. Len(Outward)
      BY <1>3, <1>4, <3>1 DEF Fades
    <3> QED
      BY <2>1, <3>2 DEF Ahead
  <2> QED
    BY <1>2, <1>9, <2>1, <2>2 DEF Ahead
<1> QED
  BY <1>2, <1>3, <1>4, <1>5, <1>6, <1>7, <1>8, <1>9 DEF FadingGaps

LEMMA FadesSender ==
  ASSUME LinkTyped, LinkTyped', NEW d \in Nat, NEW g, Fades(d, g), LinkOK
  PROVE  SenderOK' /\ TimingOK'
<1>1. FadingGaps(d, g)
  BY Fading
<1>2. SenderOK'
  BY <1>1 DEF FadingGaps, Fades, SenderGoesUnchanged, LinkOK, SenderOK
<1>3. ASSUME NEW i \in 1 .. Len(Outward')
      PROVE  Sndr'.age <= Outward'[i].age
  <2>1. /\ g[i] \in 1 .. Len(Outward) /\ Outward'[i].age = Outward[g[i]].age + d
        /\ Sndr'.age <= Sndr.age + d
    BY DEF Fades
  <2>2. Sndr.age <= Outward[g[i]].age
    BY <2>1 DEF LinkOK, TimingOK
  <2>3. Outward[g[i]].age \in 0 .. MaxDelay /\ MaxDelay \in Nat /\ Sndr.age \in Nat
    BY <2>1, UnitsAreUnits DEF UnitFacts
  <2>4. Sndr'.age \in Nat
    BY UnitsStayUnits DEF UnitFacts
  <2> QED
    BY <2>1, <2>2, <2>3, <2>4
<1>4. ASSUME NEW i \in 1 .. Len(Homeward')
      PROVE  Sndr'.age <= Homeward'[i].age + MaxDelay
  <2>1. /\ i \in 1 .. Len(Homeward) /\ Homeward'[i].age = Homeward[i].age + d
        /\ Sndr'.age <= Sndr.age + d
    BY DEF Fades
  <2>2. Sndr.age <= Homeward[i].age + MaxDelay
    BY <2>1 DEF LinkOK, TimingOK
  <2>3. Homeward[i].age \in 0 .. MaxDelay /\ Sndr.age \in Nat /\ MaxDelay \in Nat
    BY <2>1, UnitsAreUnits DEF UnitFacts
  <2>4. Sndr'.age \in Nat
    BY UnitsStayUnits DEF UnitFacts
  <2> QED
    BY <2>1, <2>2, <2>3, <2>4
<1> QED
  BY <1>2, <1>3, <1>4 DEF TimingOK

LEMMA FadesCarried ==
  ASSUME LinkTyped, LinkTyped', NEW d \in Nat, NEW g, Fades(d, g), LinkOK
  PROVE  CarriedOK' /\ CountOK' /\ SpentOK'
<1>1. /\ Current' = Current /\ (Connected' <=> Connected)
      /\ \A f \in Frame : Carried(f)' => Carried(f)
      /\ NoApp => NoApp'
      /\ NoHead => NoHead'
  BY Fading DEF FadingGaps
<1>2. /\ Sndr'.state = Sndr.state /\ Waits' = Waits /\ asked' = asked /\ status' = status
      /\ delivered' = delivered
  BY DEF Fades, SenderGoesUnchanged
<1>3. CarriedOK'
  <2>1. CarriedOK
    BY DEF LinkOK
  <2>2. \A x \in Transfers : Unsent(x)' => Unsent(x)
    BY <1>1, <1>2 DEF Unsent
  <2>3. \A x \in Transfers : Untouched(x) => Untouched(x)'
    BY <1>1, <1>2 DEF Untouched
  <2> QED
    BY <1>1, <1>2, <2>1, <2>2, <2>3 DEF CarriedOK
<1>4. CountOK'
  <2>1. CountOK
    BY DEF LinkOK
  <2>2. /\ Open' => Open /\ Rcvr'.count = Rcvr.count
        /\ \A x \in Transfers : AnswerLost(x) => AnswerLost(x)'
    BY DEF Fades
  <2> QED
    BY <1>1, <1>2, <2>1, <2>2 DEF CountOK
<1>5. SpentOK'
  <2>1. SpentOK /\ (Holding' => Holding)
    BY DEF LinkOK, Fades
  <2> QED
    BY <1>1, <2>1 DEF SpentOK
<1> QED
  BY <1>3, <1>4, <1>5

LEMMA FadesAcked ==
  ASSUME LinkTyped, LinkTyped', NEW d \in Nat, NEW g, Fades(d, g), LinkOK
  PROVE  AckedOK'
<1> SUFFICES ASSUME Connected', Sndr'.job.needAck
             PROVE  AckedOK'
  BY DEF AckedOK
<1>1. FadingGaps(d, g)
  BY Fading
<1>2. /\ Sndr'.state = Sndr.state /\ Sndr'.sent = Sndr.sent /\ Sndr'.tries = Sndr.tries
      /\ Sndr'.job = Sndr.job /\ delivered' = delivered
      /\ Len(Homeward') = Len(Homeward)
      /\ Holding' => Holding
      /\ \A i, j \in 1 .. Len(Outward') : i < j => g[i] < g[j]
  BY DEF Fades, SenderGoesUnchanged
<1>3. Connected /\ Sndr.job.needAck /\ AckedOK /\ Current' = Current
  BY <1>1, <1>2 DEF LinkOK, FadingGaps
<1>4. Current \in Transfers /\ (AnswerLost(Current) => AnswerLost(Current)')
  <2>1. Current \in Transfers
    BY <1>3 DEF LinkTyped, Connected, IsAsked, Current
  <2> QED
    BY <1>3, <2>1 DEF Fades, AnswerLost
<1>5. /\ \A f \in Frame : Carried(f)' => f.seq = Sndr'.sent
      /\ \/ delivered'[Current'] = 0 .. Sndr'.sent - 1 /\ NoAck'
         \/ /\ delivered'[Current'] = 0 .. Sndr'.sent
            /\ Sndr'.tries > 0
            /\ NoAck' => AnswerLost(Current)'
  <2>1. \A f \in Frame : Carried(f)' => f.seq = Sndr'.sent
    BY <1>1, <1>2, <1>3 DEF AckedOK, FadingGaps
  <2>2. \/ delivered[Current] = 0 .. Sndr.sent - 1 /\ NoAck
        \/ /\ delivered[Current] = 0 .. Sndr.sent
           /\ Sndr.tries > 0
           /\ NoAck => AnswerLost(Current)
    BY <1>3 DEF AckedOK
  <2>3. NoAck' <=> NoAck
    BY <1>1 DEF FadingGaps
  <2> QED
    BY <1>2, <1>3, <1>4, <2>1, <2>2, <2>3
<1>6. Sndr'.state = "SENDING" => /\ Homeward' = <<>>
                                 /\ Outward' = <<>> \/ (~Holding' /\ NoHead')
  BY <1>1, <1>2, <1>3 DEF AckedOK, FadingGaps
<1>7. Sndr'.state = "WAIT_ACK" =>
        /\ Len(Homeward') <= 1
        /\ Homeward' # <<>> => ~Holding' /\ NoHead'
        /\ ~NoAck' => NoApp' /\ Homeward'[1].frame.job = Current'
  <2>1. ~NoAck => Homeward # <<>>
    BY UnitsAreUnits, UnitsStayUnits DEF UnitFacts, NoAck
  <2> QED
    BY <1>1, <1>2, <1>3, <2>1 DEF AckedOK, FadingGaps
<1>8. ASSUME Sndr'.state = "WAIT_ACK", NEW i \in 1 .. Len(Outward'), NEW j \in 1 .. Len(Outward'),
             i < j
      PROVE  /\ IsHead(Outward'[i]) =>
                  IsApp(Outward'[j]) /\ ~IsHead(Outward'[j]) /\ j = Len(Outward')
             /\ Holding' => IsHead(Outward'[i])
  <2>1. /\ g[i] \in 1 .. Len(Outward) /\ g[j] \in 1 .. Len(Outward) /\ g[i] < g[j]
        /\ IsApp(Outward'[j]) <=> IsApp(Outward[g[j]])
        /\ IsHead(Outward'[j]) <=> IsHead(Outward[g[j]])
        /\ IsHead(Outward'[i]) <=> IsHead(Outward[g[i]])
    BY <1>1, <1>2, <1>8 DEF FadingGaps
  <2>2. /\ IsHead(Outward[g[i]]) =>
             IsApp(Outward[g[j]]) /\ ~IsHead(Outward[g[j]]) /\ g[j] = Len(Outward)
        /\ Holding => IsHead(Outward[g[i]])
    BY <1>2, <1>3, <1>8, <2>1 DEF AckedOK
  <2>3. g[j] = Len(Outward) => j = Len(Outward')
    <3>1. Len(Outward') \in Nat /\ Len(Outward) \in Nat
      BY UnitsAreUnits, UnitsStayUnits DEF UnitFacts
    <3>2. ASSUME j # Len(Outward')
          PROVE  g[j] # Len(Outward)
      <4>1. Len(Outward') \in 1 .. Len(Outward') /\ j < Len(Outward')
        BY <3>1, <3>2
      <4>2. g[j] < g[Len(Outward')] /\ g[Len(Outward')] \in 1 .. Len(Outward)
        BY <1>1, <1>2, <4>1 DEF FadingGaps
      <4> QED
        BY <2>1, <3>1, <4>2
    <3> QED
      BY <3>2
  <2> QED
    BY <1>2, <2>1, <2>2, <2>3
<1> QED
  BY <1>5, <1>6, <1>7, <1>8 DEF AckedOK

LEMMA FadesPlain ==
  ASSUME LinkTyped, LinkTyped', NEW d \in Nat, NEW g, Fades(d, g), LinkOK
  PROVE  PlainOK'
<1>1. FadingGaps(d, g)
  BY Fading
<1>2. /\ Sndr'.sent = Sndr.sent /\ Sndr'.job = Sndr.job /\ delivered' = delivered
      /\ Holding' => Holding /\ Held'.frame = Held.frame
      /\ \A i, j \in 1 .. Len(Outward') : i < j => g[i] < g[j]
      /\ \A i \in 1 .. Len(Outward') :
           g[i] \in 1 .. Len(Outward) /\ Outward'[i].frame = Outward[g[i]].frame
  BY DEF Fades, SenderGoesUnchanged
<1>3. PlainOK
  BY DEF LinkOK
<1>4. \A f \in Frame : Carried(f)' /\ ~f.needAck => \A q \in delivered'[f.job] : q < f.seq
  BY <1>1, <1>2, <1>3 DEF PlainOK, FadingGaps
<1>5. Connected' /\ ~Sndr'.job.needAck =>
       /\ \A f \in Frame : Carried(f)' => f.seq < Sndr'.sent
       /\ \A q \in delivered'[Current'] : q < Sndr'.sent
  BY <1>1, <1>2, <1>3 DEF PlainOK, FadingGaps
<1>6. ASSUME NEW i \in 1 .. Len(Outward'), NEW j \in 1 .. Len(Outward'), i < j,
             IsApp(Outward'[i]), ~Outward'[i].frame.needAck, IsApp(Outward'[j])
      PROVE  /\ Precedes(Outward'[i].frame, Outward'[j])
             /\ Outward'[i].frame.seq = Outward'[j].frame.seq => IsHead(Outward'[i])
  <2>1. /\ g[i] \in 1 .. Len(Outward) /\ g[j] \in 1 .. Len(Outward) /\ g[i] < g[j]
        /\ Outward'[i].frame = Outward[g[i]].frame /\ Outward'[j].frame = Outward[g[j]].frame
        /\ IsApp(Outward[g[j]]) /\ IsApp(Outward[g[i]])
        /\ IsHead(Outward'[j]) <=> IsHead(Outward[g[j]])
        /\ IsHead(Outward'[i]) <=> IsHead(Outward[g[i]])
    BY <1>1, <1>2, <1>6 DEF FadingGaps
  <2>2. /\ Precedes(Outward[g[i]].frame, Outward[g[j]])
        /\ Outward[g[i]].frame.seq = Outward[g[j]].frame.seq => IsHead(Outward[g[i]])
    BY <1>3, <1>6, <2>1 DEF PlainOK
  <2> QED
    BY <2>1, <2>2 DEF Precedes
<1>7. ASSUME Holding', ~Held'.frame.needAck, NEW j \in 1 .. Len(Outward'), IsApp(Outward'[j])
      PROVE  Precedes(Held'.frame, Outward'[j])
  <2>1. /\ g[j] \in 1 .. Len(Outward) /\ Outward'[j].frame = Outward[g[j]].frame
        /\ IsApp(Outward[g[j]]) /\ (IsHead(Outward'[j]) <=> IsHead(Outward[g[j]]))
        /\ Holding /\ Held'.frame = Held.frame
    BY <1>1, <1>2, <1>7 DEF FadingGaps
  <2>2. Precedes(Held.frame, Outward[g[j]])
    BY <1>3, <1>7, <2>1 DEF PlainOK
  <2> QED
    BY <2>1, <2>2 DEF Precedes
<1> QED
  BY <1>4, <1>5, <1>6, <1>7 DEF PlainOK

LEMMA FadesAck ==
  ASSUME LinkTyped, LinkTyped', NEW d \in Nat, NEW g, Fades(d, g), LinkOK
  PROVE  AckOK' /\ AheadOK'
<1>1. FadingGaps(d, g)
  BY Fading
<1>2. /\ Len(Homeward') = Len(Homeward) /\ Sndr'.job = Sndr.job
      /\ \A i \in 1 .. Len(Homeward) :
           Homeward'[i].frame = Homeward[i].frame /\ Homeward'[i].age = Homeward[i].age + d
      /\ Holding' => Holding
      /\ Open' => Open /\ Rcvr'.count = Rcvr.count /\ Rcvr'.age <= Rcvr.age + d
      /\ \A i, j \in 1 .. Len(Outward') : i < j => g[i] < g[j]
      /\ \A i \in 1 .. Len(Outward') :
           g[i] \in 1 .. Len(Outward) /\ Outward'[i].age = Outward[g[i]].age + d
  BY DEF Fades, SenderGoesUnchanged
<1>3. AckOK /\ AheadOK
  BY DEF LinkOK
<1>4. ASSUME NEW i \in 1 .. Len(Homeward')
      PROVE  /\ i \in 1 .. Len(Homeward) /\ (IsAck(Homeward'[i]) <=> IsAck(Homeward[i]))
             /\ (Open' => Rcvr.age <= Homeward[i].age) => (Open' => Rcvr'.age <= Homeward'[i].age)
  <2>1. i \in 1 .. Len(Homeward)
    BY <1>2
  <2>2. Rcvr.age \in Nat /\ Homeward[i].age \in 0 .. MaxDelay /\ MaxDelay \in Nat
    BY <2>1, UnitsAreUnits DEF UnitFacts
  <2>3. Rcvr'.age \in Nat
    BY UnitsStayUnits DEF UnitFacts
  <2>4. /\ Homeward'[i].frame = Homeward[i].frame /\ Homeward'[i].age = Homeward[i].age + d
        /\ Open' => Open /\ Rcvr'.age <= Rcvr.age + d
    BY <1>2, <2>1
  <2>5. (Open' => Rcvr.age <= Homeward[i].age) => (Open' => Rcvr'.age <= Homeward'[i].age)
    BY <2>2, <2>3, <2>4
  <2> QED
    BY <2>1, <2>4, <2>5 DEF IsAck
<1>5. \A i, j \in 1 .. Len(Homeward') : i < j => ~IsAck(Homeward'[i])
  BY <1>2, <1>3, <1>4 DEF AckOK
<1>6. Connected' /\ ~Sndr'.job.needAck => NoAck'
  BY <1>1, <1>2, <1>3 DEF AckOK, FadingGaps
<1>7. ASSUME ~Connected', NEW i \in 1 .. Len(Homeward'), IsAck(Homeward'[i])
      PROVE  /\ NoApp' /\ ~Holding'
             /\ Open' => Rcvr'.count = 0 /\ Rcvr'.age <= Homeward'[i].age
  <2>1. /\ NoApp /\ ~Holding
        /\ Open => Rcvr.count = 0 /\ Rcvr.age <= Homeward[i].age
    BY <1>1, <1>3, <1>4, <1>7 DEF AckOK, FadingGaps
  <2> QED
    BY <1>1, <1>2, <1>4, <2>1 DEF FadingGaps
<1>8. ASSUME NEW i \in 1 .. Len(Outward'), Ahead(i)'
      PROVE  /\ \A j \in 1 .. Len(Outward') : j <= i => ~IsApp(Outward'[j])
             /\ ~Holding'
             /\ Open' => Rcvr'.age <= MaxDelay + Outward'[i].age
  <2>1. /\ g[i] \in 1 .. Len(Outward) /\ Ahead(g[i])
        /\ Outward'[i].age = Outward[g[i]].age + d
    BY <1>1, <1>2, <1>8 DEF FadingGaps
  <2>2. /\ \A j \in 1 .. Len(Outward) : j <= g[i] => ~IsApp(Outward[j])
        /\ ~Holding
        /\ Open => Rcvr.age <= MaxDelay + Outward[g[i]].age
    BY <1>3, <2>1 DEF AheadOK
  <2>3. ASSUME NEW j \in 1 .. Len(Outward'), j <= i
        PROVE  ~IsApp(Outward'[j])
    <3>1. g[j] \in 1 .. Len(Outward) /\ g[j] <= g[i]
      <4>1. j = i \/ j < i
        BY <2>3, UnitsAreUnits, UnitsStayUnits DEF UnitFacts
      <4> QED
        BY <1>2, <2>1, <4>1
    <3> QED
      BY <1>1, <2>2, <3>1 DEF FadingGaps
  <2>4. Open' => Rcvr'.age <= MaxDelay + Outward'[i].age
    <3>1. Rcvr.age \in Nat /\ Outward[g[i]].age \in 0 .. MaxDelay /\ MaxDelay \in Nat
      BY <2>1, UnitsAreUnits DEF UnitFacts
    <3>2. Rcvr'.age \in Nat /\ Outward'[i].age \in 0 .. MaxDelay
      BY UnitsStayUnits DEF UnitFacts
    <3> SUFFICES ASSUME Open' PROVE Rcvr'.age <= MaxDelay + Outward'[i].age
      OBVIOUS
    <3>3. Open /\ Rcvr'.age <= Rcvr.age + d
      BY <1>2
    <3>4. Rcvr.age <= MaxDelay + Outward[g[i]].age
      BY <2>2, <3>3
    <3>5. Outward'[i].age = Outward[g[i]].age + d
      BY <2>1
    <3> DEFINE a == Rcvr.age
               b == Outward[g[i]].age
               p == Rcvr'.age
               q == Outward'[i].age
    <3>6. /\ a \in Nat /\ b \in Nat /\ p \in Nat /\ q \in Nat
          /\ p <= a + d /\ a <= MaxDelay + b /\ q = b + d /\ MaxDelay \in Nat
      BY <3>1, <3>2, <3>3, <3>4, <3>5
    <3> HIDE DEF a, b, p, q
    <3>7. p <= MaxDelay + q
      BY <3>6
    <3> QED
      BY <3>7 DEF p, q
  <2>5. ~Holding'
    BY <1>2, <2>2
  <2> QED
    BY <2>3, <2>4, <2>5
<1>9. AckOK'
  BY <1>5, <1>6, <1>7 DEF AckOK
<1> QED
  BY <1>8, <1>9 DEF AheadOK

\* The receiver that gives up waiting has nothing to come.
LEMMA FadesListening ==
  ASSUME LinkTyped, LinkTyped', NEW d \in Nat, NEW g, Fades(d, g), LinkOK, Listening,
         Open => Open' \/ Rcvr.age >= Timeout
  PROVE  Listening'
<1>1. FadingGaps(d, g)
  BY Fading
<1>2. ASSUME ~Connected', ~NoAck'
      PROVE  Open'
  <2>1. ~Connected /\ ~NoAck /\ Open
    BY <1>1, <1>2 DEF FadingGaps, Listening
  <2>2. PICK i \in 1 .. Len(Homeward) : IsAck(Homeward[i])
    BY <2>1 DEF NoAck
  <2>3. Rcvr.age <= Homeward[i].age
    BY <2>1, <2>2 DEF LinkOK, AckOK
  <2>4. /\ Homeward[i].age \in 0 .. MaxDelay /\ Rcvr.age \in Nat
        /\ MaxDelay \in Nat /\ 2 * MaxDelay < Timeout /\ Timeout \in Nat
    BY <2>2, UnitsAreUnits DEF UnitFacts
  <2>5. ~(Rcvr.age >= Timeout)
    BY <2>3, <2>4
  <2> QED
    BY <2>1, <2>5
<1>3. ASSUME NEW i \in 1 .. Len(Outward'), Ahead(i)'
      PROVE  Open'
  <2>1. g[i] \in 1 .. Len(Outward) /\ Ahead(g[i])
    BY <1>1, <1>3 DEF FadingGaps
  <2>2. Open /\ Rcvr.age <= MaxDelay + Outward[g[i]].age
    BY <2>1 DEF LinkOK, AheadOK, Listening
  <2>3. /\ Outward[g[i]].age \in 0 .. MaxDelay /\ Rcvr.age \in Nat
        /\ MaxDelay \in Nat /\ 2 * MaxDelay < Timeout /\ Timeout \in Nat
    BY <2>1, UnitsAreUnits DEF UnitFacts
  <2>4. ~(Rcvr.age >= Timeout)
    BY <2>2, <2>3
  <2> QED
    BY <2>2, <2>4
<1> QED
  BY <1>2, <1>3 DEF Listening

LEMMA FadesKeeps ==
  ASSUME LinkTyped, LinkTyped', NEW d \in Nat, NEW g, Fades(d, g), LinkOK
  PROVE  LinkOK'
  BY FadesSender, FadesCarried, FadesAcked, FadesPlain, FadesAck DEF LinkOK

-----------------------------------------------------------------------------
(* An answer is lost, or comes to a host that has no use for it.           *)

HostRests == Sndr' = Sndr /\ Waits' = Waits /\ asked' = asked /\ status' = status
SlaveRests == Rcvr' = Rcvr /\ Held' = Held /\ delivered' = delivered

AnswerGone(g) ==
  /\ HostRests
  /\ SlaveRests
  /\ Outward' = Outward
  /\ \A x \in Transfers : AnswerLost(x) => AnswerLost(x)'
  /\ g \in [1 .. Len(Homeward') -> 1 .. Len(Homeward)]
  /\ \A i, j \in 1 .. Len(Homeward') : i < j => g[i] < g[j]
  /\ \A i \in 1 .. Len(Homeward') : Homeward'[i] = Homeward[g[i]]
  /\ Connected /\ Sndr.job.needAck /\ ~NoAck => ~NoAck' \/ AnswerLost(Current)'

LEMMA SlaveSideStays ==
  ASSUME SlaveRests, Outward' = Outward
  PROVE  /\ \A f : Carried(f)' <=> Carried(f)
         /\ NoApp' <=> NoApp
         /\ NoHead' <=> NoHead
         /\ Open' <=> Open
         /\ Holding' <=> Holding
         /\ Held'.frame = Held.frame
  BY DEF SlaveRests, Carried, NoApp, NoHead, Open, Holding

LEMMA HostSideStays ==
  ASSUME HostRests
  PROVE  /\ Current' = Current
         /\ Connected' <=> Connected
         /\ Sndr' = Sndr
         /\ SenderOK => SenderOK'
         /\ \A x : Unsent(x)' <=> Unsent(x)
  BY DEF HostRests, Current, Connected, SenderOK, Unsent

LEMMA AheadStays ==
  ASSUME Outward' = Outward, Connected' <=> Connected
  PROVE  \A i : Ahead(i)' <=> Ahead(i)
  BY DEF Ahead

(* What does not speak of the line to the host.                            *)
LEMMA AnswerGoneKeepsRest ==
  ASSUME LinkTyped, LinkTyped', LinkOK, NEW g, AnswerGone(g)
  PROVE  SenderOK' /\ CarriedOK' /\ CountOK' /\ PlainOK' /\ SpentOK' /\ AheadOK'
<1>1. HostRests /\ SlaveRests /\ Outward' = Outward /\ LinkOK
      /\ \A x \in Transfers : AnswerLost(x) => AnswerLost(x)'
  BY DEF AnswerGone
<1>2. /\ \A f : Carried(f)' <=> Carried(f)
      /\ NoApp' <=> NoApp
      /\ NoHead' <=> NoHead
      /\ Open' <=> Open
      /\ Holding' <=> Holding
      /\ Held'.frame = Held.frame
      /\ Current' = Current
      /\ Connected' <=> Connected
      /\ Sndr' = Sndr
      /\ \A x : Unsent(x)' <=> Unsent(x)
      /\ \A i : Ahead(i)' <=> Ahead(i)
  BY <1>1, SlaveSideStays, HostSideStays, AheadStays
<1>3. SenderOK'
  BY <1>1, HostSideStays DEF LinkOK
<1>4. CarriedOK'
  BY <1>1, <1>2 DEF LinkOK, CarriedOK, Untouched, HostRests, SlaveRests
<1>5. CountOK'
  BY <1>1, <1>2 DEF LinkOK, CountOK, SlaveRests
<1>6. PlainOK'
  BY <1>1, <1>2 DEF LinkOK, PlainOK, SlaveRests
<1>7. SpentOK'
  BY <1>1, <1>2 DEF LinkOK, SpentOK
<1>8. AheadOK'
  BY <1>1, <1>2 DEF LinkOK, AheadOK, SlaveRests
<1> QED
  BY <1>3, <1>4, <1>5, <1>6, <1>7, <1>8

LEMMA AnswerGoneKeepsAcks ==
  ASSUME LinkTyped, LinkTyped', LinkOK, NEW g, AnswerGone(g)
  PROVE  TimingOK' /\ AckOK' /\ (Listening => Listening')
<1>1. /\ HostRests /\ SlaveRests /\ Outward' = Outward
      /\ \A i, j \in 1 .. Len(Homeward') : i < j => g[i] < g[j]
      /\ \A i \in 1 .. Len(Homeward') : g[i] \in 1 .. Len(Homeward) /\ Homeward'[i] = Homeward[g[i]]
  BY DEF AnswerGone
<1>2. /\ NoApp' <=> NoApp
      /\ Open' <=> Open
      /\ Holding' <=> Holding
      /\ Connected' <=> Connected
      /\ Sndr' = Sndr
      /\ Rcvr' = Rcvr
      /\ \A i : Ahead(i)' <=> Ahead(i)
  BY <1>1, SlaveSideStays, HostSideStays, AheadStays DEF SlaveRests
<1>3. TimingOK'
  BY <1>1, <1>2 DEF LinkOK, TimingOK
<1>4. NoAck => NoAck'
  BY <1>1 DEF NoAck
<1>5. AckOK'
  <2>1. \A i, j \in 1 .. Len(Homeward') : i < j => ~IsAck(Homeward'[i])
    BY <1>1 DEF LinkOK, AckOK
  <2>2. Connected' /\ ~Sndr'.job.needAck => NoAck'
    BY <1>2, <1>4 DEF LinkOK, AckOK
  <2>3. ASSUME ~Connected', NEW i \in 1 .. Len(Homeward'), IsAck(Homeward'[i])
        PROVE  /\ NoApp' /\ ~Holding'
               /\ Open' => Rcvr'.count = 0 /\ Rcvr'.age <= Homeward'[i].age
    <3>1. g[i] \in 1 .. Len(Homeward) /\ Homeward'[i] = Homeward[g[i]]
      BY <1>1
    <3> QED
      BY <1>2, <2>3, <3>1 DEF LinkOK, AckOK
  <2> QED
    BY <2>1, <2>2, <2>3 DEF AckOK
<1>6. Listening => Listening'
  BY <1>1, <1>2, <1>4 DEF Listening
<1> QED
  BY <1>3, <1>5, <1>6

LEMMA AnswerGoneKeepsAcked ==
  ASSUME LinkTyped, LinkTyped', LinkOK, NEW g, AnswerGone(g)
  PROVE  AckedOK'
<1>1. /\ HostRests /\ SlaveRests /\ Outward' = Outward
      /\ \A x \in Transfers : AnswerLost(x) => AnswerLost(x)'
      /\ \A i \in 1 .. Len(Homeward') : g[i] \in 1 .. Len(Homeward) /\ Homeward'[i] = Homeward[g[i]]
  BY DEF AnswerGone
<1>2. /\ \A f : Carried(f)' <=> Carried(f)
      /\ NoApp' <=> NoApp
      /\ NoHead' <=> NoHead
      /\ Holding' <=> Holding
      /\ Current' = Current
      /\ Connected' <=> Connected
      /\ Sndr' = Sndr
      /\ delivered' = delivered
  BY <1>1, SlaveSideStays, HostSideStays DEF SlaveRests
<1> SUFFICES ASSUME Connected, Sndr.job.needAck
             PROVE  AckedOK'
  BY <1>2 DEF AckedOK
<1>3. AckedOK
  BY DEF LinkOK
<1>4. NoAck => NoAck'
  BY <1>1 DEF NoAck
<1>5. NoAck' => NoAck \/ AnswerLost(Current)'
  BY DEF AnswerGone
<1>6. AnswerLost(Current) => AnswerLost(Current)'
  <2>1. Current \in Transfers
    BY DEF LinkTyped, Connected, IsAsked, Current
  <2> QED
    BY <1>1, <1>2, <2>1 DEF AnswerLost
<1>7. /\ \A f \in Frame : Carried(f)' => f.seq = Sndr'.sent
      /\ \/ delivered'[Current'] = 0 .. Sndr'.sent - 1 /\ NoAck'
         \/ /\ delivered'[Current'] = 0 .. Sndr'.sent
            /\ Sndr'.tries > 0
            /\ NoAck' => AnswerLost(Current)'
  BY <1>2, <1>3, <1>4, <1>5, <1>6 DEF AckedOK
<1>8. /\ Homeward = <<>> => Homeward' = <<>>
      /\ Len(Homeward) <= 1 => Len(Homeward') <= 1
      /\ Homeward' # <<>> /\ Len(Homeward) <= 1 => Homeward'[1] = Homeward[1]
  <2>1. /\ Len(Homeward) \in Nat /\ Len(Homeward') \in Nat
        /\ Homeward = <<>> <=> Len(Homeward) = 0
        /\ Homeward' = <<>> <=> Len(Homeward') = 0
    BY UnitsAreUnits, UnitsStayUnits DEF UnitFacts
  <2>2. Len(Homeward') # 0 => 1 \in 1 .. Len(Homeward')
    BY <2>1
  <2>3. Len(Homeward') > 1 => 1 \in 1 .. Len(Homeward') /\ 2 \in 1 .. Len(Homeward')
    BY <2>1
  <2>4. ASSUME Len(Homeward') > 1, Len(Homeward) <= 1
        PROVE  FALSE
    <3>1. g[1] < g[2] /\ g[1] \in 1 .. Len(Homeward) /\ g[2] \in 1 .. Len(Homeward)
      BY <2>3, <2>4, <1>1 DEF AnswerGone
    <3> QED
      BY <2>1, <2>4, <3>1
  <2>5. Len(Homeward') # 0 => g[1] \in 1 .. Len(Homeward) /\ Homeward'[1] = Homeward[g[1]]
    BY <1>1, <2>2
  <2>6. Len(Homeward') # 0 /\ Len(Homeward) <= 1 => g[1] = 1
    BY <2>1, <2>5
  <2> QED
    BY <2>1, <2>4, <2>5, <2>6
<1>9. Sndr'.state = "SENDING" => /\ Homeward' = <<>>
                                 /\ Outward' = <<>> \/ (~Holding' /\ NoHead')
  BY <1>1, <1>2, <1>3, <1>8 DEF AckedOK
<1>10. Sndr'.state = "WAIT_ACK" =>
         /\ Len(Homeward') <= 1
         /\ Homeward' # <<>> => ~Holding' /\ NoHead'
         /\ ~NoAck' => NoApp' /\ Homeward'[1].frame.job = Current'
  <2>1. ~NoAck' => Homeward' # <<>>
    BY UnitsStayUnits DEF UnitFacts, NoAck
  <2>2. Homeward' # <<>> => Homeward # <<>>
    BY <1>8
  <2> QED
    BY <1>2, <1>3, <1>4, <1>8, <2>1, <2>2 DEF AckedOK
<1>11. Sndr'.state = "WAIT_ACK" =>
         /\ \A i, j \in 1 .. Len(Outward') : i < j /\ IsHead(Outward'[i]) =>
              IsApp(Outward'[j]) /\ ~IsHead(Outward'[j]) /\ j = Len(Outward')
         /\ Holding' => \A i, j \in 1 .. Len(Outward') : i < j => IsHead(Outward'[i])
  BY <1>1, <1>2, <1>3 DEF AckedOK
<1> QED
  BY <1>7, <1>9, <1>10, <1>11 DEF AckedOK

LEMMA AnswerGoneKeeps ==
  ASSUME LinkTyped, LinkTyped', LinkOK, NEW g, AnswerGone(g)
  PROVE  LinkOK' /\ (Listening => Listening')
  BY AnswerGoneKeepsRest, AnswerGoneKeepsAcks, AnswerGoneKeepsAcked DEF LinkOK

-----------------------------------------------------------------------------
(* The slave takes a unit from the line, and may answer.                   *)

Pops == Outward # <<>> /\ Outward' = Tail(Outward)

PopGaps ==
  /\ 1 \in 1 .. Len(Outward) /\ Len(Outward') = Len(Outward) - 1
  /\ \A i \in 1 .. Len(Outward') : i + 1 \in 1 .. Len(Outward) /\ Outward'[i] = Outward[i + 1]
  /\ NoApp => NoApp'
  /\ NoHead => NoHead'
  /\ \A f \in Frame : (\E i \in 1 .. Len(Outward') : IsApp(Outward'[i]) /\ f = Outward'[i].frame) =>
       Carried(f)
  /\ (Connected' <=> Connected) => \A i \in 1 .. Len(Outward') : Ahead(i)' => Ahead(i + 1)

LEMMA PopsFacts ==
  ASSUME LinkTyped, Pops
  PROVE  PopGaps
<1>1. /\ 1 \in 1 .. Len(Outward) /\ Len(Outward') = Len(Outward) - 1 /\ Len(Outward) \in Nat
      /\ \A i \in 1 .. Len(Outward') : i + 1 \in 1 .. Len(Outward) /\ Outward'[i] = Outward[i + 1]
  <2>1. Outward \in Seq(OutUnit) /\ Outward # <<>> /\ Outward' = Tail(Outward)
    BY DEF LinkTyped, Pops
  <2> QED
    BY <2>1
<1>2. (NoApp => NoApp') /\ (NoHead => NoHead')
  BY <1>1 DEF NoApp, NoHead
<1>3. \A f \in Frame : (\E i \in 1 .. Len(Outward') : IsApp(Outward'[i]) /\ f = Outward'[i].frame) =>
        Carried(f)
  BY <1>1 DEF Carried
<1>4. ASSUME Connected' <=> Connected, NEW i \in 1 .. Len(Outward'), Ahead(i)'
      PROVE  Ahead(i + 1)
  <2>1. ~IsApp(Outward[i + 1])
    BY <1>1, <1>4 DEF Ahead
  <2>2. CASE \E j \in 1 .. Len(Outward') : i < j /\ IsApp(Outward'[j])
    <3>1. PICK j \in 1 .. Len(Outward') : i < j /\ IsApp(Outward'[j])
      BY <2>2
    <3>2. j + 1 \in 1 .. Len(Outward) /\ i + 1 < j + 1 /\ IsApp(Outward[j + 1])
      BY <1>1, <3>1
    <3> QED
      BY <2>1, <3>2 DEF Ahead
  <2> QED
    BY <1>4, <2>1, <2>2 DEF Ahead
<1> QED
  BY <1>1, <1>2, <1>3, <1>4 DEF PopGaps

(* It sends one more answer.                                               *)
Replies(u) == Homeward' = Append(Homeward, u)

ReplyGaps(u) ==
  /\ Len(Homeward') = Len(Homeward) + 1
  /\ Homeward'[Len(Homeward')] = u
  /\ \A i \in 1 .. Len(Homeward) : i \in 1 .. Len(Homeward') /\ Homeward'[i] = Homeward[i]
  /\ \A i \in 1 .. Len(Homeward') : i \in 1 .. Len(Homeward) \/ i = Len(Homeward')
  /\ \A i, j \in 1 .. Len(Homeward') : i < j => i \in 1 .. Len(Homeward)
  /\ Homeward = <<>> => Len(Homeward') = 1 /\ Homeward'[1] = u
  /\ ~IsAck(u) => (NoAck' <=> NoAck)
  /\ IsAck(u) => ~NoAck'

LEMMA RepliesFacts ==
  ASSUME LinkTyped, NEW u, Replies(u)
  PROVE  ReplyGaps(u)
<1>1. Homeward \in Seq(HomeUnit) /\ Len(Homeward) \in Nat
  BY DEF LinkTyped
<1> DEFINE T == HomeUnit \union {u}
<1>2. Homeward \in Seq(T) /\ u \in T
  BY <1>1
<1> HIDE DEF T
<1>3. /\ Len(Homeward') = Len(Homeward) + 1
      /\ Homeward'[Len(Homeward')] = u
      /\ \A i \in 1 .. Len(Homeward) : i \in 1 .. Len(Homeward') /\ Homeward'[i] = Homeward[i]
  BY <1>1, <1>2 DEF Replies
<1>4. /\ \A i \in 1 .. Len(Homeward') : i \in 1 .. Len(Homeward) \/ i = Len(Homeward')
      /\ \A i, j \in 1 .. Len(Homeward') : i < j => i \in 1 .. Len(Homeward)
      /\ Len(Homeward') \in 1 .. Len(Homeward')
  BY <1>1, <1>3
<1>5. Homeward = <<>> => Len(Homeward') = 1 /\ Homeward'[1] = u
  BY <1>1, <1>3
<1>6. (~IsAck(u) => (NoAck' <=> NoAck)) /\ (IsAck(u) => ~NoAck')
  <2>1. NoAck' => NoAck /\ ~IsAck(u)
    BY <1>3, <1>4 DEF NoAck
  <2>2. NoAck /\ ~IsAck(u) => NoAck'
    BY <1>3, <1>4 DEF NoAck
  <2> QED
    BY <2>1, <2>2
<1> QED
  BY <1>3, <1>4, <1>5, <1>6 DEF ReplyGaps

-----------------------------------------------------------------------------
(* It takes the header of an application frame.                            *)
TakesHeader ==
  /\ HostRests
  /\ Rcvr' = Rcvr /\ delivered' = delivered /\ faults' = faults /\ Homeward' = Homeward
  /\ Pops
  /\ IsHead(Outward[1])
  /\ ~Holding /\ Holding' /\ Held'.frame = Outward[1].frame

LEMMA TakesHeaderKeepsRest ==
  ASSUME LinkTyped, LinkTyped', LinkOK, TakesHeader
  PROVE  /\ SenderOK' /\ TimingOK' /\ CarriedOK' /\ CountOK' /\ SpentOK' /\ AckOK' /\ AheadOK'
         /\ Listening => Listening'
<1>1. /\ HostRests /\ Rcvr' = Rcvr /\ delivered' = delivered /\ faults' = faults
      /\ Homeward' = Homeward /\ IsHead(Outward[1]) /\ IsApp(Outward[1])
      /\ ~Holding /\ Holding' /\ Held'.frame = Outward[1].frame
  BY DEF TakesHeader, IsHead
<1>2. /\ Current' = Current
      /\ Connected' <=> Connected
      /\ Sndr' = Sndr
      /\ \A x : Unsent(x)' <=> Unsent(x)
      /\ Open' <=> Open
      /\ NoAck' <=> NoAck
      /\ \A x : AnswerLost(x)' <=> AnswerLost(x)
  BY <1>1, HostSideStays DEF Open, NoAck, AnswerLost
<1>3. /\ PopGaps
      /\ 1 \in 1 .. Len(Outward) /\ ~NoHead /\ ~NoApp
  BY <1>1, PopsFacts DEF TakesHeader, PopGaps, NoHead, NoApp
<1>4. \A f \in Frame : Carried(f)' => Carried(f)
  BY <1>1, <1>3 DEF Carried, PopGaps
<1>5. SenderOK'
  BY <1>1, HostSideStays DEF LinkOK
<1>6. TimingOK'
  BY <1>1, <1>2, <1>3 DEF LinkOK, TimingOK, PopGaps
<1>7. CarriedOK'
  BY <1>1, <1>2, <1>4 DEF LinkOK, CarriedOK, Untouched, HostRests
<1>8. CountOK'
  BY <1>1, <1>2, <1>4 DEF LinkOK, CountOK
<1>9. SpentOK'
  BY <1>2, <1>3, <1>4 DEF LinkOK, SpentOK, TakesHeader
<1>10. AckOK'
  BY <1>1, <1>2, <1>3 DEF LinkOK, AckOK
<1>11. \A i \in 1 .. Len(Outward') : ~Ahead(i)'
  <2>1. ASSUME NEW i \in 1 .. Len(Outward'), Ahead(i)'
        PROVE  FALSE
    <3>1. Ahead(i + 1) /\ i + 1 \in 1 .. Len(Outward)
      BY <1>2, <1>3, <2>1 DEF PopGaps
    <3>2. 1 <= i + 1
      BY <2>1
    <3> QED
      BY <1>1, <1>3, <3>1, <3>2 DEF LinkOK, AheadOK
  <2> QED
    BY <2>1
<1>12. Listening => Listening'
  BY <1>2, <1>11 DEF Listening
<1> QED
  BY <1>5, <1>6, <1>7, <1>8, <1>9, <1>10, <1>11, <1>12 DEF AheadOK

LEMMA TakesHeaderKeepsAcked ==
  ASSUME LinkTyped, LinkTyped', LinkOK, TakesHeader
  PROVE  AckedOK'
<1>1. /\ HostRests /\ delivered' = delivered /\ faults' = faults
      /\ Homeward' = Homeward /\ IsHead(Outward[1]) /\ IsApp(Outward[1])
      /\ ~Holding /\ Holding' /\ Held'.frame = Outward[1].frame
  BY DEF TakesHeader, IsHead
<1>2. /\ Current' = Current
      /\ Connected' <=> Connected
      /\ Sndr' = Sndr
      /\ NoAck' <=> NoAck
      /\ \A x : AnswerLost(x)' <=> AnswerLost(x)
  BY <1>1, HostSideStays DEF NoAck, AnswerLost
<1>3. /\ PopGaps
      /\ 1 \in 1 .. Len(Outward) /\ ~NoHead /\ ~NoApp /\ Outward # <<>>
  BY <1>1, PopsFacts DEF TakesHeader, PopGaps, NoHead, NoApp, Pops
<1>4. \A f \in Frame : Carried(f)' => Carried(f)
  BY <1>1, <1>3 DEF Carried, PopGaps
<1> SUFFICES ASSUME Connected, Sndr.job.needAck
             PROVE  AckedOK'
  BY <1>2 DEF AckedOK
<1>5. AckedOK
  BY DEF LinkOK
<1>6. Sndr.state = "WAIT_ACK" /\ Homeward = <<>> /\ NoAck
  BY <1>3, <1>5 DEF AckedOK, Connected
<1>7. Len(Outward) <= 2 /\ Len(Outward') \in Nat /\ Len(Outward') <= 1
  <2>1. Len(Outward) \in Nat /\ Len(Outward') = Len(Outward) - 1
    BY <1>3, UnitsAreUnits DEF UnitFacts, PopGaps
  <2>2. ASSUME Len(Outward) > 2
        PROVE  FALSE
    <3>1. 2 \in 1 .. Len(Outward) /\ 1 < 2 /\ 2 # Len(Outward)
      BY <2>1, <2>2
    <3> QED
      BY <1>1, <1>3, <1>5, <1>6, <3>1 DEF AckedOK
  <2>3. Len(Outward) >= 1
    BY <1>3
  <2> QED
    BY <2>1, <2>2, <2>3
<1>8. \A i, j \in 1 .. Len(Outward') : ~(i < j)
  BY <1>7
<1>9. /\ \A f \in Frame : Carried(f)' => f.seq = Sndr'.sent
      /\ \/ delivered'[Current'] = 0 .. Sndr'.sent - 1 /\ NoAck'
         \/ /\ delivered'[Current'] = 0 .. Sndr'.sent
            /\ Sndr'.tries > 0
            /\ NoAck' => AnswerLost(Current)'
  BY <1>1, <1>2, <1>4, <1>5 DEF AckedOK, AnswerLost
<1>10. Homeward' = <<>> /\ Len(Homeward') <= 1 /\ NoAck' /\ Sndr'.state = "WAIT_ACK"
  BY <1>1, <1>2, <1>6
<1> QED
  BY <1>8, <1>9, <1>10 DEF AckedOK

LEMMA TakesHeaderKeepsPlain ==
  ASSUME LinkTyped, LinkTyped', LinkOK, TakesHeader
  PROVE  PlainOK'
<1>1. /\ HostRests /\ delivered' = delivered
      /\ IsHead(Outward[1]) /\ IsApp(Outward[1])
      /\ Held'.frame = Outward[1].frame
  BY DEF TakesHeader, IsHead
<1>2. Current' = Current /\ (Connected' <=> Connected) /\ Sndr' = Sndr
  BY <1>1, HostSideStays
<1>3. PopGaps
  BY PopsFacts DEF TakesHeader
<1>4. \A f \in Frame : Carried(f)' => Carried(f)
  BY <1>1, <1>3 DEF Carried, PopGaps
<1>5. PlainOK
  BY DEF LinkOK
<1>6. /\ \A f \in Frame : Carried(f)' /\ ~f.needAck => \A q \in delivered'[f.job] : q < f.seq
      /\ Connected' /\ ~Sndr'.job.needAck =>
           /\ \A f \in Frame : Carried(f)' => f.seq < Sndr'.sent
           /\ \A q \in delivered'[Current'] : q < Sndr'.sent
  BY <1>1, <1>2, <1>4, <1>5 DEF PlainOK
<1>7. ASSUME NEW i \in 1 .. Len(Outward'), NEW j \in 1 .. Len(Outward'), i < j,
             IsApp(Outward'[i]), ~Outward'[i].frame.needAck, IsApp(Outward'[j])
      PROVE  /\ Precedes(Outward'[i].frame, Outward'[j])
             /\ Outward'[i].frame.seq = Outward'[j].frame.seq => IsHead(Outward'[i])
  <2>1. /\ i + 1 \in 1 .. Len(Outward) /\ j + 1 \in 1 .. Len(Outward) /\ i + 1 < j + 1
        /\ Outward'[i] = Outward[i + 1] /\ Outward'[j] = Outward[j + 1]
    BY <1>3, <1>7 DEF PopGaps
  <2> QED
    BY <1>5, <1>7, <2>1 DEF PlainOK
<1>8. ASSUME ~Held'.frame.needAck, NEW j \in 1 .. Len(Outward'), IsApp(Outward'[j])
      PROVE  Precedes(Held'.frame, Outward'[j])
  <2>1. /\ 1 \in 1 .. Len(Outward) /\ j + 1 \in 1 .. Len(Outward) /\ 1 < j + 1
        /\ Outward'[j] = Outward[j + 1]
    BY <1>3, <1>8 DEF PopGaps
  <2> QED
    BY <1>1, <1>5, <1>8, <2>1 DEF PlainOK
<1> QED
  BY <1>6, <1>7, <1>8 DEF PlainOK

LEMMA TakesHeaderKeeps ==
  ASSUME LinkTyped, LinkTyped', LinkOK, TakesHeader
  PROVE  LinkOK' /\ (Listening => Listening')
  BY TakesHeaderKeepsRest, TakesHeaderKeepsAcked, TakesHeaderKeepsPlain DEF LinkOK

LEMMA RepliesInTime ==
  ASSUME LinkTyped, TimingOK, HostRests, PopGaps, NEW u, ReplyGaps(u), u.age = 0
  PROVE  TimingOK'
<1>1. Sndr' = Sndr
  BY DEF HostRests
<1>2. \A i \in 1 .. Len(Outward') : Sndr'.age <= Outward'[i].age
  BY <1>1 DEF TimingOK, PopGaps
<1>3. Sndr.age <= MaxDelay
  <2>1. Sndr.age <= Outward[1].age /\ 1 \in 1 .. Len(Outward)
    BY DEF TimingOK, PopGaps
  <2>2. Outward[1].age \in 0 .. MaxDelay /\ MaxDelay \in Nat /\ Sndr.age \in Nat
    BY <2>1, UnitsAreUnits DEF UnitFacts
  <2> QED
    BY <2>1, <2>2
<1>4. Sndr.age \in Nat /\ MaxDelay \in Nat
  BY UnitsAreUnits DEF UnitFacts
<1>5. ASSUME NEW i \in 1 .. Len(Homeward')
      PROVE  Sndr'.age <= Homeward'[i].age + MaxDelay
  <2>1. CASE i \in 1 .. Len(Homeward)
    BY <1>1, <2>1 DEF TimingOK, ReplyGaps
  <2>2. CASE i = Len(Homeward')
    <3>1. Homeward'[i].age = 0
      BY <2>2 DEF ReplyGaps
    <3> QED
      BY <1>1, <1>3, <1>4, <3>1
  <2> QED
    BY <2>1, <2>2 DEF ReplyGaps
<1> QED
  BY <1>2, <1>5 DEF TimingOK

-----------------------------------------------------------------------------
(* What it holds does not become a frame: it asks for it again.            *)
Nacks(u) ==
  /\ HostRests
  /\ Rcvr' = Rcvr /\ delivered' = delivered /\ faults' = faults
  /\ Pops
  /\ Holding /\ ~Holding'
  /\ Replies(u) /\ ~IsAck(u) /\ u.age = 0

LEMMA NacksKeepsRest ==
  ASSUME LinkTyped, LinkTyped', LinkOK, NEW u, Nacks(u)
  PROVE  /\ SenderOK' /\ TimingOK' /\ CarriedOK' /\ CountOK' /\ SpentOK' /\ AckOK' /\ AheadOK'
         /\ Listening => Listening'
<1>1. /\ HostRests /\ Rcvr' = Rcvr /\ delivered' = delivered /\ faults' = faults
      /\ Holding /\ ~Holding' /\ ~IsAck(u) /\ u.age = 0
  BY DEF Nacks
<1>2. /\ Current' = Current
      /\ Connected' <=> Connected
      /\ Sndr' = Sndr
      /\ \A x : Unsent(x)' <=> Unsent(x)
      /\ Open' <=> Open
      /\ \A x : AnswerLost(x)' <=> AnswerLost(x)
  BY <1>1, HostSideStays DEF Open, AnswerLost
<1>3. PopGaps /\ ReplyGaps(u)
  BY PopsFacts, RepliesFacts DEF Nacks
<1>4. \A f \in Frame : Carried(f)' => Carried(f)
  BY <1>1, <1>3 DEF Carried, PopGaps
<1>5. NoAck /\ NoAck'
  <2>1. CASE Connected /\ Sndr.job.needAck
    <3>1. Homeward = <<>>
      BY <1>1, <2>1 DEF LinkOK, AckedOK, Connected
    <3> QED
      BY <1>1, <1>3, <3>1 DEF NoAck, ReplyGaps
  <2>2. CASE Connected /\ ~Sndr.job.needAck
    BY <1>1, <1>3, <2>2 DEF LinkOK, AckOK, ReplyGaps
  <2>3. CASE ~Connected
    BY <1>1, <1>3, <2>3 DEF LinkOK, AckOK, NoAck, ReplyGaps
  <2> QED
    BY <2>1, <2>2, <2>3
<1>6. SenderOK'
  BY <1>1, HostSideStays DEF LinkOK
<1>7. TimingOK'
  BY <1>1, <1>3, RepliesInTime DEF LinkOK
<1>8. CarriedOK'
  BY <1>1, <1>2, <1>4 DEF LinkOK, CarriedOK, Untouched, HostRests
<1>9. CountOK'
  BY <1>1, <1>2, <1>4 DEF LinkOK, CountOK
<1>10. SpentOK'
  BY <1>1, <1>2, <1>3, <1>4 DEF LinkOK, SpentOK, PopGaps
<1>11. AckOK'
  BY <1>5 DEF AckOK, NoAck
<1>12. \A i \in 1 .. Len(Outward') : ~Ahead(i)'
  <2>1. ASSUME NEW i \in 1 .. Len(Outward'), Ahead(i)'
        PROVE  FALSE
    <3>1. Ahead(i + 1) /\ i + 1 \in 1 .. Len(Outward)
      BY <1>2, <1>3, <2>1 DEF PopGaps
    <3> QED
      BY <1>1, <3>1 DEF LinkOK, AheadOK
  <2> QED
    BY <2>1
<1> QED
  BY <1>5, <1>6, <1>7, <1>8, <1>9, <1>10, <1>11, <1>12 DEF AheadOK, Listening

LEMMA NacksKeepsAcked ==
  ASSUME LinkTyped, LinkTyped', LinkOK, NEW u, Nacks(u)
  PROVE  AckedOK'
<1>1. /\ HostRests /\ delivered' = delivered /\ faults' = faults
      /\ Holding /\ ~Holding' /\ ~IsAck(u) /\ Outward # <<>>
  BY DEF Nacks, Pops
<1>2. /\ Current' = Current
      /\ Connected' <=> Connected
      /\ Sndr' = Sndr
      /\ \A x : AnswerLost(x)' <=> AnswerLost(x)
  BY <1>1, HostSideStays DEF AnswerLost
<1>3. PopGaps /\ ReplyGaps(u)
  BY PopsFacts, RepliesFacts DEF Nacks
<1>4. \A f \in Frame : Carried(f)' => Carried(f)
  BY <1>1, <1>3 DEF Carried, PopGaps
<1> SUFFICES ASSUME Connected, Sndr.job.needAck
             PROVE  AckedOK'
  BY <1>2 DEF AckedOK
<1>5. AckedOK
  BY DEF LinkOK
<1>6. Sndr.state = "WAIT_ACK" /\ Homeward = <<>>
  BY <1>1, <1>5 DEF AckedOK, Connected
<1>7. NoAck' /\ NoAck /\ Len(Homeward') = 1
  BY <1>1, <1>3, <1>6 DEF ReplyGaps, NoAck
<1>8. /\ \A f \in Frame : Carried(f)' => f.seq = Sndr'.sent
      /\ \/ delivered'[Current'] = 0 .. Sndr'.sent - 1 /\ NoAck'
         \/ /\ delivered'[Current'] = 0 .. Sndr'.sent
            /\ Sndr'.tries > 0
            /\ NoAck' => AnswerLost(Current)'
  BY <1>1, <1>2, <1>4, <1>5, <1>7 DEF AckedOK, AnswerLost
<1>9. NoHead'
  <2>1. ASSUME NEW i \in 1 .. Len(Outward')
        PROVE  ~IsHead(Outward'[i])
    <3>1. /\ 1 \in 1 .. Len(Outward) /\ i + 1 \in 1 .. Len(Outward) /\ 1 < i + 1
          /\ Outward'[i] = Outward[i + 1]
      BY <1>3, <2>1 DEF PopGaps
    <3>2. IsHead(Outward[1])
      BY <1>1, <1>5, <1>6, <3>1 DEF AckedOK
    <3> QED
      BY <1>5, <1>6, <3>1, <3>2 DEF AckedOK
  <2> QED
    BY <2>1 DEF NoHead
<1> QED
  BY <1>1, <1>2, <1>6, <1>7, <1>8, <1>9 DEF AckedOK, NoHead

LEMMA PopKeepsPlain ==
  ASSUME LinkTyped, LinkTyped', LinkOK, HostRests, delivered' = delivered, Pops, ~Holding'
  PROVE  PlainOK'
<1>2. Current' = Current /\ (Connected' <=> Connected) /\ Sndr' = Sndr
  BY HostSideStays
<1>3. PopGaps
  BY PopsFacts
<1>4. \A f \in Frame : Carried(f)' => Carried(f)
  BY <1>3 DEF Carried, PopGaps
<1>5. PlainOK
  BY DEF LinkOK
<1>6. /\ \A f \in Frame : Carried(f)' /\ ~f.needAck => \A q \in delivered'[f.job] : q < f.seq
      /\ Connected' /\ ~Sndr'.job.needAck =>
           /\ \A f \in Frame : Carried(f)' => f.seq < Sndr'.sent
           /\ \A q \in delivered'[Current'] : q < Sndr'.sent
  BY <1>2, <1>4, <1>5 DEF PlainOK
<1>7. ASSUME NEW i \in 1 .. Len(Outward'), NEW j \in 1 .. Len(Outward'), i < j,
             IsApp(Outward'[i]), ~Outward'[i].frame.needAck, IsApp(Outward'[j])
      PROVE  /\ Precedes(Outward'[i].frame, Outward'[j])
             /\ Outward'[i].frame.seq = Outward'[j].frame.seq => IsHead(Outward'[i])
  <2>1. /\ i + 1 \in 1 .. Len(Outward) /\ j + 1 \in 1 .. Len(Outward) /\ i + 1 < j + 1
        /\ Outward'[i] = Outward[i + 1] /\ Outward'[j] = Outward[j + 1]
    BY <1>3, <1>7 DEF PopGaps
  <2> QED
    BY <1>5, <1>7, <2>1 DEF PlainOK
<1> QED
  BY <1>6, <1>7 DEF PlainOK

LEMMA NacksKeeps ==
  ASSUME LinkTyped, LinkTyped', LinkOK, NEW u, Nacks(u)
  PROVE  LinkOK' /\ (Listening => Listening')
<1>1. PlainOK'
  BY PopKeepsPlain DEF Nacks
<1> QED
  BY <1>1, NacksKeepsRest, NacksKeepsAcked DEF LinkOK

-----------------------------------------------------------------------------
(* It takes a handshake: the last transfer is over by now.                 *)
Accepts(u) ==
  /\ HostRests
  /\ delivered' = delivered /\ faults' = faults
  /\ Pops
  /\ ~IsApp(Outward[1])
  /\ ~Holding /\ ~Holding'
  /\ ~Open /\ Open' /\ Rcvr'.count = 0 /\ Rcvr'.age = 0
  /\ Replies(u) /\ IsAck(u) /\ u.age = 0

LEMMA AcceptsKeepsRest ==
  ASSUME LinkTyped, LinkTyped', LinkOK, Listening, NEW u, Accepts(u)
  PROVE  /\ SenderOK' /\ TimingOK' /\ CarriedOK' /\ CountOK' /\ AckedOK' /\ SpentOK' /\ AckOK'
         /\ AheadOK' /\ Listening'
<1>1. /\ HostRests /\ delivered' = delivered /\ faults' = faults /\ ~IsApp(Outward[1])
      /\ ~Holding /\ ~Holding' /\ IsAck(u) /\ u.age = 0
      /\ ~Open /\ Open' /\ Rcvr'.count = 0 /\ Rcvr'.age = 0
  BY DEF Accepts
<1>2. /\ Current' = Current
      /\ Connected' <=> Connected
      /\ Sndr' = Sndr
      /\ \A x : Unsent(x)' <=> Unsent(x)
  BY <1>1, HostSideStays
<1>3. PopGaps /\ ReplyGaps(u)
  BY PopsFacts, RepliesFacts DEF Accepts
<1>4. ~Connected /\ NoApp /\ NoApp'
  <2>1. 1 \in 1 .. Len(Outward) /\ ~Ahead(1)
    BY <1>1, <1>3 DEF Listening, PopGaps
  <2>2. ~Connected /\ \A j \in 1 .. Len(Outward) : 1 < j => ~IsApp(Outward[j])
    BY <1>1, <2>1 DEF Ahead
  <2>3. \A j \in 1 .. Len(Outward) : 1 < j \/ j = 1
    OBVIOUS
  <2>4. NoApp
    BY <1>1, <2>2, <2>3 DEF NoApp
  <2> QED
    BY <1>3, <2>2, <2>4 DEF PopGaps
<1>5. NoAck
  BY <1>1, <1>4 DEF Listening
<1>6. \A f : ~Carried(f)'
  BY <1>1, <1>4 DEF Carried, NoApp
<1>7. SenderOK'
  BY <1>1, HostSideStays DEF LinkOK
<1>8. TimingOK'
  BY <1>1, <1>3, RepliesInTime DEF LinkOK
<1>9. CarriedOK'
  BY <1>1, <1>2, <1>6 DEF LinkOK, CarriedOK, Untouched, HostRests
<1>10. CountOK' /\ AckedOK' /\ SpentOK'
  BY <1>2, <1>4, <1>6 DEF CountOK, AckedOK, SpentOK
<1>11. AckOK'
  <2>1. \A i, j \in 1 .. Len(Homeward') : i < j => ~IsAck(Homeward'[i])
    BY <1>3, <1>5 DEF NoAck, ReplyGaps
  <2>2. ASSUME NEW i \in 1 .. Len(Homeward'), IsAck(Homeward'[i])
        PROVE  Rcvr'.age <= Homeward'[i].age
    <3>1. Homeward'[i].age \in 0 .. MaxDelay
      BY UnitsStayUnits DEF UnitFacts
    <3> QED
      BY <1>1, <3>1
  <2> QED
    BY <1>1, <1>2, <1>4, <2>1, <2>2 DEF AckOK
<1>12. AheadOK'
  BY <1>2, <1>4 DEF AheadOK, Ahead, NoApp
<1>13. Listening'
  BY <1>1 DEF Listening
<1> QED
  BY <1>7, <1>8, <1>9, <1>10, <1>11, <1>12, <1>13

LEMMA AcceptsKeeps ==
  ASSUME LinkTyped, LinkTyped', LinkOK, Listening, NEW u, Accepts(u)
  PROVE  LinkOK' /\ Listening'
<1>1. PlainOK'
  BY PopKeepsPlain DEF Accepts
<1> QED
  BY <1>1, AcceptsKeepsRest DEF LinkOK

-----------------------------------------------------------------------------
(* It gives a frame to the callback, and acknowledges it if asked to.      *)
Delivers(u) ==
  LET f == Held.frame IN
  /\ HostRests
  /\ faults' = faults
  /\ Pops
  /\ Holding /\ ~Holding'
  /\ Outward[1].frame = f /\ ~IsHead(Outward[1])
  /\ Open /\ (Open' => Rcvr'.count = Rcvr.count + 1)
  /\ delivered' = [delivered EXCEPT ![f.job] = @ \union {f.seq}]
  /\ IF f.needAck THEN Replies(u) /\ IsAck(u) /\ u.age = 0 /\ u.frame.job = f.job
     ELSE Homeward' = Homeward

\* What is known of a frame that is held when its payload comes.
HeldFacts(f) ==
  /\ f = Held.frame /\ f \in Frame /\ f.job \in Transfers /\ f.seq \in Nat /\ f.type = "APP"
  /\ Carried(f)
  /\ f.needAck = asked[f.job].needAck /\ f.total = asked[f.job].total /\ f.seq < f.total
  /\ \A g \in Frame : Carried(g) => g.job = f.job /\ g.needAck = f.needAck
  /\ Connected => f.job = Current /\ f.needAck = Sndr.job.needAck
  /\ f.needAck => /\ Connected /\ Sndr.state = "WAIT_ACK" /\ f.seq = Sndr.sent
                  /\ Homeward = <<>> /\ Len(Outward) = 1
  /\ NoAck

LEMMA HeldFrame ==
  ASSUME LinkTyped, LinkOK, Holding, Outward # <<>>, Outward[1].frame = Held.frame,
         ~IsHead(Outward[1])
  PROVE  HeldFacts(Held.frame)
<1> DEFINE f == Held.frame
<1>1. f \in Frame /\ f.type = "APP" /\ Carried(f)
  BY UnitsAreUnits DEF UnitFacts, LinkTyped, Carried
<1>2. f.job \in Transfers /\ f = AppFrame(asked[f.job], f.seq) /\ f.seq < f.total
  BY <1>1 DEF LinkOK, CarriedOK
<1>3. f.needAck = asked[f.job].needAck /\ f.total = asked[f.job].total /\ f.seq \in Nat
  BY <1>1, <1>2 DEF AppFrame, Frame
<1>4. \A g \in Frame : Carried(g) => g.job = f.job /\ g.needAck = f.needAck
  <2>1. ASSUME NEW g \in Frame, Carried(g)
        PROVE  g.job = f.job /\ g.needAck = f.needAck
    <3>1. g.job = f.job
      BY <1>1, <2>1 DEF LinkOK, CarriedOK
    <3>2. g = AppFrame(asked[g.job], g.seq)
      BY <2>1 DEF LinkOK, CarriedOK
    <3>3. g.needAck = asked[g.job].needAck
      BY <3>2 DEF AppFrame
    <3> QED
      BY <1>3, <3>1, <3>3
  <2> QED
    BY <2>1
<1>5. Connected => f.job = Current /\ f.needAck = Sndr.job.needAck
  <2>1. Connected => f.job = Current
    BY <1>1 DEF LinkOK, CarriedOK
  <2>2. Connected => asked[Current] = Sndr.job
    BY DEF LinkTyped, Connected, IsAsked, Current
  <2> QED
    BY <1>3, <2>1, <2>2
<1>6. 1 \in 1 .. Len(Outward) /\ IsApp(Outward[1]) /\ ~NoApp
  BY <1>1, UnitsAreUnits DEF UnitFacts, IsApp, NoApp
<1>7. f.needAck => Connected
  BY <1>1, <1>6 DEF LinkOK, SpentOK
<1>8. ASSUME f.needAck
      PROVE  /\ Sndr.state = "WAIT_ACK" /\ f.seq = Sndr.sent
             /\ Homeward = <<>> /\ Len(Outward) = 1
  <2>1. Connected /\ Sndr.job.needAck /\ AckedOK
    BY <1>5, <1>7, <1>8 DEF LinkOK
  <2>2. Sndr.state = "WAIT_ACK" /\ Homeward = <<>> /\ f.seq = Sndr.sent
    BY <1>1, <2>1 DEF AckedOK, Connected
  <2>3. ASSUME Len(Outward) # 1
        PROVE  FALSE
    <3>1. Len(Outward) \in Nat
      BY UnitsAreUnits DEF UnitFacts
    <3> DEFINE n == Len(Outward)
    <3>2. n \in Nat /\ 1 \in 1 .. n /\ n # 1
      BY <1>6, <2>3, <3>1
    <3> HIDE DEF n
    <3>3. 2 \in 1 .. n
      BY <3>2
    <3> QED
      BY <1>1, <1>6, <2>1, <2>2, <3>3 DEF AckedOK, n
  <2> QED
    BY <2>2, <2>3
<1>9. NoAck
  <2>1. f.needAck => NoAck
    BY <1>8 DEF NoAck
  <2>2. Connected /\ ~f.needAck => NoAck
    BY <1>5 DEF LinkOK, AckOK
  <2>3. ~Connected => NoAck
    BY DEF LinkOK, AckOK, NoAck
  <2> QED
    BY <2>1, <2>2, <2>3
<1> QED
  BY <1>1, <1>2, <1>3, <1>4, <1>5, <1>7, <1>8, <1>9 DEF HeldFacts

(* A frame that comes again is one whose ACK was lost.                     *)
LEMMA ComesOnce ==
  ASSUME LinkTyped, LinkOK, NEW f, HeldFacts(f), ~AnswerLost(f.job)
  PROVE  f.seq \notin delivered[f.job]
<1>1. CASE ~f.needAck
  <2>1. \A q \in delivered[f.job] : q < f.seq
    BY <1>1 DEF HeldFacts, LinkOK, PlainOK
  <2> QED
    BY <2>1 DEF HeldFacts
<1>2. CASE f.needAck
  <2>1. /\ Connected /\ Sndr.job.needAck /\ AckedOK
        /\ f.job = Current /\ f.seq = Sndr.sent /\ NoAck /\ f.seq \in Nat
    BY <1>2 DEF HeldFacts, LinkOK
  <2>2. delivered[Current] = 0 .. Sndr.sent - 1
    BY <2>1 DEF AckedOK
  <2> QED
    BY <2>1, <2>2
<1> QED
  BY <1>1, <1>2

DeliveryFacts(f) ==
  /\ HeldFacts(f) /\ PopGaps
  /\ \A g \in Frame : Carried(g)' => Carried(g)
  /\ \A x \in Transfers : delivered'[x] =
       IF x = f.job THEN delivered[x] \union {f.seq} ELSE delivered[x]
  /\ Current' = Current
  /\ Connected' <=> Connected
  /\ Sndr' = Sndr
  /\ asked' = asked /\ status' = status
  /\ \A x : Unsent(x)' <=> Unsent(x)
  /\ \A x : AnswerLost(x)' <=> AnswerLost(x)

LEMMA Delivery ==
  ASSUME LinkTyped, LinkOK, NEW u, Delivers(u)
  PROVE  DeliveryFacts(Held.frame)
<1>1. /\ HostRests /\ faults' = faults /\ Holding /\ ~Holding' /\ Pops
      /\ Outward[1].frame = Held.frame /\ ~IsHead(Outward[1]) /\ Outward # <<>>
      /\ delivered' = [delivered EXCEPT ![Held.frame.job] = @ \union {Held.frame.seq}]
  BY DEF Delivers, Pops
<1>2. HeldFacts(Held.frame) /\ PopGaps
  BY <1>1, HeldFrame, PopsFacts
<1>3. \A g \in Frame : Carried(g)' => Carried(g)
  BY <1>1, <1>2 DEF Carried, PopGaps
<1>4. \A x \in Transfers : delivered'[x] =
       IF x = Held.frame.job THEN delivered[x] \union {Held.frame.seq} ELSE delivered[x]
  BY <1>1, <1>2 DEF LinkTyped
<1>5. asked' = asked /\ status' = status /\ \A x : AnswerLost(x)' <=> AnswerLost(x)
  BY <1>1 DEF HostRests, AnswerLost
<1> QED
  BY <1>1, <1>2, <1>3, <1>4, <1>5, HostSideStays DEF DeliveryFacts

LEMMA DeliversKeepsCarried ==
  ASSUME LinkTyped, LinkTyped', LinkOK, NEW f, DeliveryFacts(f)
  PROVE  CarriedOK' /\ SpentOK'
<1> USE DEF DeliveryFacts
<1>1. CarriedOK /\ Carried(f) /\ f \in Frame /\ f.job \in Transfers
  BY DEF LinkOK, HeldFacts
<1>2. ASSUME NEW x \in Transfers, Unsent(x)'
      PROVE  Untouched(x)'
  <2>1. Untouched(x)
    BY <1>1, <1>2 DEF CarriedOK
  <2>2. x # f.job
    BY <1>1, <2>1 DEF Untouched
  <2> QED
    BY <2>1, <2>2 DEF Untouched
<1>3. ASSUME NEW x \in Transfers
      PROVE  delivered'[x] \subseteq 0 .. asked'[x].total - 1
  <2>1. delivered[x] \subseteq 0 .. asked[x].total - 1
    BY <1>1 DEF CarriedOK
  <2>2. CASE x # f.job
    BY <2>1, <2>2
  <2>3. CASE x = f.job
    <3>1. f.seq \in Nat /\ f.seq < asked[x].total /\ asked[x].total \in Nat
      BY <2>3 DEF HeldFacts, LinkTyped, JobRecord
    <3>2. f.seq \in 0 .. asked[x].total - 1
      BY <3>1
    <3> QED
      BY <2>1, <2>3, <3>2
  <2> QED
    BY <2>2, <2>3
<1>4. CarriedOK'
  BY <1>1, <1>2, <1>3 DEF CarriedOK
<1>5. SpentOK'
  BY DEF SpentOK, HeldFacts
<1> QED
  BY <1>4, <1>5

LEMMA DeliversKeepsCount ==
  ASSUME LinkTyped, LinkTyped', LinkOK, NEW f, DeliveryFacts(f),
         Open, Open' => Rcvr'.count = Rcvr.count + 1
  PROVE  CountOK'
<1> USE DEF DeliveryFacts
<1> SUFFICES ASSUME Open', NEW x \in Transfers,
                    (Connected /\ x = Current) \/ (\E h \in Frame : Carried(h) /\ h.job = x)
             PROVE  Rcvr'.count = Cardinality(delivered'[x]) \/ AnswerLost(x)
  BY DEF CountOK
<1>1. x = f.job /\ Carried(f) /\ f \in Frame
  BY DEF HeldFacts
<1>2. Rcvr.count = Cardinality(delivered[x]) \/ AnswerLost(x)
  BY <1>1 DEF LinkOK, CountOK
<1>3. ASSUME ~AnswerLost(x)
      PROVE  Rcvr'.count = Cardinality(delivered'[x])
  <2>1. f.seq \notin delivered[x] /\ delivered'[x] = delivered[x] \union {f.seq}
    BY <1>1, <1>3, ComesOnce
  <2>2. IsFiniteSet(delivered[x])
    <3>1. delivered[x] \subseteq 0 .. asked[x].total - 1
      BY DEF LinkOK, CarriedOK
    <3> DEFINE n == asked[x].total - 1
    <3>2. n \in Int
      BY DEF LinkTyped, JobRecord
    <3> HIDE DEF n
    <3>3. IsFiniteSet(0 .. n)
      BY <3>2, FS_Interval
    <3> QED
      BY <3>1, <3>3, FS_Subset DEF n
  <2>3. Cardinality(delivered'[x]) = Cardinality(delivered[x]) + 1
    <3> DEFINE D == delivered[x]
               q == f.seq
    <3>1. IsFiniteSet(D) /\ q \notin D /\ delivered'[x] = D \union {q}
      BY <2>1, <2>2
    <3> HIDE DEF D, q
    <3>2. Cardinality(D \union {q}) = Cardinality(D) + 1
      BY <3>1, FS_AddElement
    <3> QED
      BY <3>1, <3>2 DEF D
  <2> QED
    BY <1>2, <1>3, <2>3
<1> QED
  BY <1>3

LEMMA DeliversKeepsPlain ==
  ASSUME LinkTyped, LinkTyped', LinkOK, NEW f, DeliveryFacts(f), ~Holding',
         Outward[1].frame = f, ~IsHead(Outward[1])
  PROVE  PlainOK'
<1> USE DEF DeliveryFacts
<1>1. /\ PlainOK /\ Carried(f) /\ f \in Frame /\ f.job \in Transfers
      /\ 1 \in 1 .. Len(Outward) /\ IsApp(Outward[1])
  BY DEF LinkOK, HeldFacts, PopGaps, IsApp
\* What is behind it has a greater number.
<1>2. ASSUME ~f.needAck, NEW i \in 1 .. Len(Outward'), IsApp(Outward'[i])
      PROVE  f.seq < Outward'[i].frame.seq
  <2>1. i + 1 \in 1 .. Len(Outward) /\ Outward'[i] = Outward[i + 1] /\ 1 < i + 1
    BY <1>2 DEF PopGaps
  <2> QED
    BY <1>1, <1>2, <2>1 DEF PlainOK, Precedes
<1>3. ASSUME NEW g \in Frame, Carried(g)', ~g.needAck, NEW q \in delivered'[g.job]
      PROVE  q < g.seq
  <2>1. g.job = f.job /\ g.needAck = f.needAck /\ Carried(g)
    BY <1>3 DEF HeldFacts
  <2>2. f.seq < g.seq
    BY <1>2, <1>3, <2>1 DEF Carried
  <2>3. \A r \in delivered[g.job] : r < g.seq
    BY <1>1, <1>3, <2>1 DEF PlainOK
  <2>4. delivered'[g.job] = delivered[g.job] \union {f.seq}
    BY <1>1, <2>1
  <2> QED
    BY <1>3, <2>2, <2>3, <2>4
<1>4. ASSUME Connected', ~Sndr'.job.needAck
      PROVE  /\ \A g \in Frame : Carried(g)' => g.seq < Sndr'.sent
             /\ \A q \in delivered'[Current'] : q < Sndr'.sent
  <2>1. f.job = Current /\ f.seq < Sndr.sent
    BY <1>1, <1>4 DEF HeldFacts, PlainOK
  <2>2. delivered'[Current] = delivered[Current] \union {f.seq}
    BY <1>1, <2>1
  <2>3. /\ \A g \in Frame : Carried(g) => g.seq < Sndr.sent
        /\ \A q \in delivered[Current] : q < Sndr.sent
    BY <1>1, <1>4 DEF PlainOK
  <2> QED
    BY <2>1, <2>2, <2>3
<1>5. ASSUME NEW i \in 1 .. Len(Outward'), NEW j \in 1 .. Len(Outward'), i < j,
             IsApp(Outward'[i]), ~Outward'[i].frame.needAck, IsApp(Outward'[j])
      PROVE  /\ Precedes(Outward'[i].frame, Outward'[j])
             /\ Outward'[i].frame.seq = Outward'[j].frame.seq => IsHead(Outward'[i])
  <2>1. /\ i + 1 \in 1 .. Len(Outward) /\ j + 1 \in 1 .. Len(Outward) /\ i + 1 < j + 1
        /\ Outward'[i] = Outward[i + 1] /\ Outward'[j] = Outward[j + 1]
    BY <1>5 DEF PopGaps
  <2> QED
    BY <1>1, <1>5, <2>1 DEF PlainOK
<1> QED
  BY <1>3, <1>4, <1>5 DEF PlainOK

LEMMA DeliversKeepsAcks ==
  ASSUME LinkTyped, LinkTyped', LinkOK, NEW u, Delivers(u)
  PROVE  TimingOK' /\ AckedOK' /\ AckOK' /\ AheadOK' /\ Listening'
<1> DEFINE f == Held.frame
<1>1. /\ HostRests /\ Holding /\ ~Holding' /\ Outward # <<>>
  BY DEF Delivers, Pops
<1>2. DeliveryFacts(f) /\ HeldFacts(f) /\ PopGaps
  BY Delivery DEF DeliveryFacts
<1>3. f.needAck => ReplyGaps(u) /\ IsAck(u) /\ u.age = 0 /\ u.frame.job = f.job
  BY RepliesFacts DEF Delivers
<1>4. ~f.needAck => Homeward' = Homeward
  BY DEF Delivers
<1> HIDE DEF f
<1>5. Sndr' = Sndr /\ Current' = Current /\ (Connected' <=> Connected) /\ NoAck
  BY <1>2 DEF DeliveryFacts, HeldFacts
<1>6. TimingOK'
  <2>1. CASE f.needAck
    BY <1>1, <1>2, <1>3, <2>1, RepliesInTime DEF LinkOK
  <2>2. CASE ~f.needAck
    BY <1>2, <1>4, <1>5, <2>2 DEF LinkOK, TimingOK, PopGaps
  <2> QED
    BY <2>1, <2>2
<1>7. \A i \in 1 .. Len(Outward') : ~Ahead(i)'
  <2>1. ASSUME NEW i \in 1 .. Len(Outward'), Ahead(i)'
        PROVE  FALSE
    <3>1. Ahead(i + 1) /\ i + 1 \in 1 .. Len(Outward)
      BY <1>2, <1>5, <2>1 DEF PopGaps
    <3> QED
      BY <1>1, <3>1 DEF LinkOK, AheadOK
  <2> QED
    BY <2>1
<1>8. ASSUME f.needAck
      PROVE  /\ Connected /\ Sndr.job.needAck /\ Sndr.state = "WAIT_ACK"
             /\ f.seq = Sndr.sent /\ f.job = Current
             /\ Len(Homeward') = 1 /\ Homeward'[1] = u /\ ~NoAck'
             /\ Len(Outward') = 0
  <2>1. /\ Connected /\ Sndr.job.needAck /\ Sndr.state = "WAIT_ACK"
        /\ f.seq = Sndr.sent /\ f.job = Current /\ Homeward = <<>> /\ Len(Outward) = 1
    BY <1>2, <1>8 DEF HeldFacts
  <2>2. Len(Homeward') = 1 /\ Homeward'[1] = u /\ ~NoAck'
    BY <1>3, <1>8, <2>1 DEF ReplyGaps
  <2>3. Len(Outward') = 0
    BY <1>2, <2>1 DEF PopGaps
  <2> QED
    BY <2>1, <2>2, <2>3
<1>9. ~f.needAck => (NoAck' <=> NoAck)
  BY <1>4 DEF NoAck
<1>10. AckOK' /\ (~Connected' => NoAck')
  <2>1. CASE f.needAck
    <3>1. \A i, j \in 1 .. Len(Homeward') : ~(i < j)
      BY <1>8, <2>1
    <3> QED
      BY <1>5, <1>8, <2>1, <3>1 DEF AckOK
  <2>2. CASE ~f.needAck
    BY <1>5, <1>9, <2>2 DEF AckOK, NoAck
  <2> QED
    BY <2>1, <2>2
<1>11. AckedOK'
  <2> SUFFICES ASSUME Connected, Sndr.job.needAck
               PROVE  AckedOK'
    BY <1>5 DEF AckedOK
  <2>1. f.needAck /\ AckedOK
    BY <1>2 DEF HeldFacts, LinkOK
  <2>2. \A g \in Frame : ~Carried(g)'
    BY <1>1, <1>8, <2>1 DEF Carried
  <2>3. delivered'[Current] = delivered[Current] \union {Sndr.sent}
    BY <1>2, <1>8, <2>1 DEF DeliveryFacts, HeldFacts
  <2>4. delivered[Current] = 0 .. Sndr.sent - 1 \/ delivered[Current] = 0 .. Sndr.sent
    BY <2>1 DEF AckedOK
  <2>5. delivered'[Current] = 0 .. Sndr.sent
    <3>1. Sndr.sent \in Nat
      BY UnitsAreUnits DEF UnitFacts
    <3> QED
      BY <2>3, <2>4, <3>1
  <2>6. Sndr.tries > 0
    BY <1>8, <2>1 DEF LinkOK, SenderOK
  <2>7. NoApp' /\ NoHead' /\ \A i \in 1 .. Len(Outward') : FALSE
    BY <1>8, <2>1 DEF NoApp, NoHead
  <2>8. Sndr'.state = "WAIT_ACK" /\ Len(Homeward') <= 1 /\ Homeward'[1].frame.job = Current
        /\ ~NoAck'
    <3>1. Sndr.state = "WAIT_ACK" /\ Len(Homeward') = 1 /\ Homeward'[1] = u /\ ~NoAck'
          /\ f.job = Current
      BY <1>8, <2>1
    <3> QED
      BY <1>3, <1>5, <2>1, <3>1
  <2> QED
    BY <1>1, <1>5, <2>2, <2>5, <2>6, <2>7, <2>8 DEF AckedOK
<1> QED
  BY <1>6, <1>7, <1>10, <1>11 DEF AheadOK, Listening

LEMMA DeliversKeeps ==
  ASSUME LinkTyped, LinkTyped', LinkOK, NEW u, Delivers(u)
  PROVE  LinkOK' /\ Listening'
<1>1. SenderOK'
  BY HostSideStays DEF LinkOK, Delivers
<1>2. DeliveryFacts(Held.frame)
  BY Delivery
<1>3. CarriedOK' /\ SpentOK'
  BY <1>2, DeliversKeepsCarried
<1>4. CountOK'
  BY <1>2, DeliversKeepsCount DEF Delivers
<1>5. PlainOK'
  BY <1>2, DeliversKeepsPlain DEF Delivers
<1> QED
  BY <1>1, <1>3, <1>4, <1>5, DeliversKeepsAcks DEF LinkOK

-----------------------------------------------------------------------------
(* The host: it is asked for a transfer that has to wait.                  *)
AsksLater(x) ==
  /\ SlaveRests /\ Outward' = Outward /\ Homeward' = Homeward /\ faults' = faults
  /\ Sndr' = Sndr
  /\ x \in Transfers /\ status[x] = "none" /\ status'[x] = "accepted"
  /\ \A y \in Transfers : y # x => status'[y] = status[y] /\ asked'[y] = asked[y]
  /\ Waits = NoJob /\ Waits'.id = x

(* It starts with one: either has Unsent(x) up to then.                    *)
Starts(x, h) ==
  /\ SlaveRests /\ Homeward' = Homeward /\ faults' = faults
  /\ Outward' = Append(Outward, h) /\ ~IsApp(h) /\ h.age = 0
  /\ Sndr.state = "IDLE" /\ Sndr'.state = "HANDSHAKE" /\ Current' = x
  /\ Sndr'.sent = 0 /\ Sndr'.tries = 0 /\ Sndr'.age = 0
  /\ x \in Transfers /\ Unsent(x) /\ status'[x] = "accepted"
  /\ \A y \in Transfers : y # x => status'[y] = status[y] /\ asked'[y] = asked[y]
  /\ Waits' # NoJob => Waits' = Waits /\ Waits.id # x

(* What was asked for does not change for what is on its way.              *)
LEMMA AskingKeepsCarried ==
  ASSUME LinkTyped, LinkTyped', LinkOK, SlaveRests, NEW x \in Transfers, Unsent(x),
         \A f : Carried(f)' <=> Carried(f),
         \A y \in Transfers : y # x => status'[y] = status[y] /\ asked'[y] = asked[y],
         \A y \in Transfers : Unsent(y)' => Unsent(y),
         Connected' => Connected /\ Current' = Current
  PROVE  CarriedOK'
<1>1. CarriedOK /\ Untouched(x) /\ delivered' = delivered
  BY DEF LinkOK, CarriedOK, SlaveRests
<1>2. \A f \in Frame : Carried(f)' => f.job # x
  BY <1>1 DEF Untouched
<1>3. \A y \in Transfers : delivered'[y] \subseteq 0 .. asked'[y].total - 1
  BY <1>1 DEF CarriedOK, Untouched
<1>4. \A f \in Frame : Carried(f)' =>
        f.job \in Transfers /\ f = AppFrame(asked'[f.job], f.seq) /\ f.seq < f.total
  BY <1>1, <1>2 DEF CarriedOK
<1>5. \A y \in Transfers : Unsent(y)' => Untouched(y)'
  BY <1>1 DEF CarriedOK, Untouched
<1>6. Connected' => \A f \in Frame : Carried(f)' => f.job = Current'
  BY <1>1 DEF CarriedOK
<1> QED
  BY <1>1, <1>3, <1>4, <1>5, <1>6 DEF CarriedOK

LEMMA AskingKeepsEnd ==
  ASSUME LinkTyped, LinkTyped', LinkOK, EndOK, SlaveRests, faults' = faults,
         reported' = reported, NEW x \in Transfers, Unsent(x), status'[x] = "accepted",
         \A y \in Transfers : y # x => status'[y] = status[y] /\ asked'[y] = asked[y]
  PROVE  EndOK'
<1>1. delivered[x] = {} /\ delivered' = delivered
  BY DEF LinkOK, CarriedOK, SlaveRests, Untouched
<1>2. asked[x].total \in Nat \ {0}
  BY DEF LinkTyped, JobRecord
<1>3. x \in reported => AnswerLost(x)
  <2>1. 0 \in 0 .. asked[x].total - 1
    BY <1>2
  <2> QED
    BY <1>1, <2>1 DEF EndOK
<1>4. \A y : AnswerLost(y)' <=> AnswerLost(y)
  BY DEF AnswerLost
<1> QED
  BY <1>1, <1>3, <1>4 DEF EndOK

LEMMA AsksLaterKeeps ==
  ASSUME LinkTyped, LinkTyped', LinkOK, NEW x, AsksLater(x)
  PROVE  LinkOK' /\ (Listening => Listening')
<1>1. /\ SlaveRests /\ Outward' = Outward /\ Homeward' = Homeward /\ faults' = faults
      /\ Sndr' = Sndr
      /\ x \in Transfers /\ status[x] = "none" /\ status'[x] = "accepted"
      /\ \A y \in Transfers : y # x => status'[y] = status[y] /\ asked'[y] = asked[y]
      /\ Waits = NoJob /\ Waits'.id = x
  BY DEF AsksLater
<1>2. /\ Current' = Current /\ (Connected' <=> Connected)
      /\ Rcvr' = Rcvr /\ delivered' = delivered
      /\ NoAck' <=> NoAck
      /\ \A y : AnswerLost(y)' <=> AnswerLost(y)
      /\ \A f : Carried(f)' <=> Carried(f)
      /\ NoApp' <=> NoApp
      /\ NoHead' <=> NoHead
      /\ Open' <=> Open
      /\ Holding' <=> Holding
      /\ Held'.frame = Held.frame
      /\ \A i : Ahead(i)' <=> Ahead(i)
  BY <1>1, SlaveSideStays, AheadStays DEF Current, Connected, SlaveRests, NoAck, AnswerLost
<1>3. SenderOK'
  <2>1. Sndr.state # "IDLE" => Current \in Transfers /\ status[Current] = "accepted"
    BY DEF LinkTyped, IsAsked, Current, LinkOK, SenderOK
  <2>2. Sndr.state # "IDLE" => status'[Current] = "accepted" /\ Current # x
    BY <1>1, <2>1
  <2> QED
    BY <1>1, <1>2, <2>2 DEF LinkOK, SenderOK
<1>4. CarriedOK'
  <2>1. Unsent(x) /\ \A y \in Transfers : Unsent(y)' => Unsent(y)
    BY <1>1, <1>2 DEF Unsent
  <2> QED
    BY <1>1, <1>2, <2>1, AskingKeepsCarried
<1>5. TimingOK'
  BY <1>1 DEF LinkOK, TimingOK
<1>6. CountOK'
  BY <1>1, <1>2 DEF LinkOK, CountOK
<1>7. AckedOK'
  BY <1>1, <1>2 DEF LinkOK, AckedOK
<1>8. PlainOK'
  BY <1>1, <1>2 DEF LinkOK, PlainOK
<1>9. SpentOK'
  BY <1>1, <1>2 DEF LinkOK, SpentOK
<1>10. AckOK'
  BY <1>1, <1>2 DEF LinkOK, AckOK
<1>11. AheadOK' /\ (Listening => Listening')
  BY <1>1, <1>2 DEF LinkOK, AheadOK, Listening
<1> QED
  BY <1>3, <1>4, <1>5, <1>6, <1>7, <1>8, <1>9, <1>10, <1>11 DEF LinkOK

PushGaps(h) ==
  /\ Len(Outward') = Len(Outward) + 1
  /\ Outward'[Len(Outward')] = h
  /\ \A i \in 1 .. Len(Outward) : i \in 1 .. Len(Outward') /\ Outward'[i] = Outward[i]
  /\ \A i \in 1 .. Len(Outward') : i \in 1 .. Len(Outward) \/ i = Len(Outward')
  /\ \A i, j \in 1 .. Len(Outward') : i < j => i \in 1 .. Len(Outward)

LEMMA PushFacts ==
  ASSUME LinkTyped, NEW h, Outward' = Append(Outward, h)
  PROVE  PushGaps(h)
<1>1. Outward \in Seq(OutUnit) /\ Len(Outward) \in Nat
  BY DEF LinkTyped
<1> DEFINE T == OutUnit \union {h}
<1>2. Outward \in Seq(T) /\ h \in T
  BY <1>1
<1> HIDE DEF T
<1>3. /\ Len(Outward') = Len(Outward) + 1
      /\ Outward'[Len(Outward')] = h
      /\ \A i \in 1 .. Len(Outward) : i \in 1 .. Len(Outward') /\ Outward'[i] = Outward[i]
  BY <1>1, <1>2
<1>4. /\ \A i \in 1 .. Len(Outward') : i \in 1 .. Len(Outward) \/ i = Len(Outward')
      /\ \A i, j \in 1 .. Len(Outward') : i < j => i \in 1 .. Len(Outward)
  BY <1>1, <1>3
<1> QED
  BY <1>3, <1>4 DEF PushGaps

LEMMA StartsKeeps ==
  ASSUME LinkTyped, LinkTyped', LinkOK, NEW x, NEW h, Starts(x, h)
  PROVE  LinkOK' /\ (Listening => Listening')
<1>1. /\ SlaveRests /\ Homeward' = Homeward /\ faults' = faults
      /\ ~IsApp(h) /\ h.age = 0
      /\ Sndr.state = "IDLE" /\ Sndr'.state = "HANDSHAKE" /\ Current' = x
      /\ Sndr'.sent = 0 /\ Sndr'.tries = 0 /\ Sndr'.age = 0
      /\ x \in Transfers /\ Unsent(x) /\ status'[x] = "accepted"
      /\ \A y \in Transfers : y # x => status'[y] = status[y] /\ asked'[y] = asked[y]
      /\ Waits' # NoJob => Waits' = Waits /\ Waits.id # x
  BY DEF Starts
<1>2. PushGaps(h)
  BY PushFacts DEF Starts
<1>3. /\ ~Connected /\ ~Connected'
      /\ Rcvr' = Rcvr /\ delivered' = delivered
      /\ NoAck' <=> NoAck
      /\ \A y : AnswerLost(y)' <=> AnswerLost(y)
      /\ Open' <=> Open
      /\ Holding' <=> Holding
      /\ Held' = Held
  BY <1>1 DEF Connected, SlaveRests, NoAck, AnswerLost, Open, Holding
<1>4. /\ \A i \in 1 .. Len(Outward') : IsApp(Outward'[i]) =>
           i \in 1 .. Len(Outward) /\ Outward'[i] = Outward[i]
      /\ \A i \in 1 .. Len(Outward) : i \in 1 .. Len(Outward') /\ Outward'[i] = Outward[i]
  BY <1>1, <1>2 DEF PushGaps
<1>5. /\ NoApp' <=> NoApp
      /\ NoHead' <=> NoHead
      /\ \A f : Carried(f)' <=> Carried(f)
  BY <1>3, <1>4 DEF NoApp, NoHead, IsHead, Carried
<1>6. SenderOK'
  <2>1. Waits' # NoJob => status'[Waits'.id] = "accepted" /\ Waits'.id # Current'
    <3>1. Waits # NoJob => Waits.id \in Transfers /\ status[Waits.id] = "accepted"
      BY DEF LinkTyped, IsAsked, LinkOK, SenderOK
    <3> QED
      BY <1>1, <3>1
  <2> QED
    BY <1>1, <1>3, <2>1 DEF SenderOK
<1>7. CarriedOK'
  <2>1. \A y \in Transfers : Unsent(y)' => Unsent(y)
    BY <1>1 DEF Unsent
  <2> QED
    BY <1>1, <1>3, <1>5, <2>1, AskingKeepsCarried
<1>8. TimingOK'
  <2>1. ASSUME NEW i \in 1 .. Len(Outward')
        PROVE  Sndr'.age <= Outward'[i].age
    <3>1. Outward'[i].age \in 0 .. MaxDelay
      BY UnitsStayUnits DEF UnitFacts
    <3> QED
      BY <1>1, <3>1
  <2>2. ASSUME NEW i \in 1 .. Len(Homeward')
        PROVE  Sndr'.age <= Homeward'[i].age + MaxDelay
    <3>1. Homeward'[i].age \in 0 .. MaxDelay /\ MaxDelay \in Nat
      BY UnitsStayUnits DEF UnitFacts
    <3> QED
      BY <1>1, <3>1
  <2> QED
    BY <2>1, <2>2 DEF TimingOK
<1>9. CountOK' /\ AckedOK'
  BY <1>3, <1>5 DEF LinkOK, CountOK, AckedOK
<1>10. PlainOK'
  <2>1. PlainOK
    BY DEF LinkOK
  <2>2. \A f \in Frame : Carried(f)' /\ ~f.needAck => \A q \in delivered'[f.job] : q < f.seq
    BY <1>3, <1>5, <2>1 DEF PlainOK
  <2>3. \A i, j \in 1 .. Len(Outward') :
          i < j /\ IsApp(Outward'[i]) /\ ~Outward'[i].frame.needAck /\ IsApp(Outward'[j]) =>
            /\ Precedes(Outward'[i].frame, Outward'[j])
            /\ Outward'[i].frame.seq = Outward'[j].frame.seq => IsHead(Outward'[i])
    BY <1>4, <2>1 DEF PlainOK
  <2>4. Holding' /\ ~Held'.frame.needAck =>
          \A j \in 1 .. Len(Outward') : IsApp(Outward'[j]) => Precedes(Held'.frame, Outward'[j])
    BY <1>3, <1>4, <2>1 DEF PlainOK
  <2> QED
    BY <1>3, <2>2, <2>3, <2>4 DEF PlainOK
<1>11. SpentOK'
  BY <1>3, <1>5 DEF LinkOK, SpentOK
<1>12. AckOK'
  BY <1>1, <1>3, <1>5 DEF LinkOK, AckOK
<1>13. \A i \in 1 .. Len(Outward') : Ahead(i)' =>
         i \in 1 .. Len(Outward) /\ Ahead(i) /\ Outward'[i] = Outward[i]
  <2>1. ASSUME NEW i \in 1 .. Len(Outward'), Ahead(i)'
        PROVE  i \in 1 .. Len(Outward) /\ Ahead(i) /\ Outward'[i] = Outward[i]
    <3>1. PICK j \in 1 .. Len(Outward') : i < j /\ IsApp(Outward'[j])
      BY <1>3, <2>1 DEF Ahead
    <3>2. i \in 1 .. Len(Outward) /\ Outward'[i] = Outward[i]
      BY <1>2, <3>1 DEF PushGaps
    <3>3. j \in 1 .. Len(Outward) /\ Outward'[j] = Outward[j]
      BY <1>4, <3>1
    <3> QED
      BY <2>1, <3>1, <3>2, <3>3 DEF Ahead
  <2> QED
    BY <2>1
<1>14. AheadOK'
  <2>1. ASSUME NEW i \in 1 .. Len(Outward'), Ahead(i)'
        PROVE  /\ \A j \in 1 .. Len(Outward') : j <= i => ~IsApp(Outward'[j])
               /\ ~Holding'
               /\ Open' => Rcvr'.age <= MaxDelay + Outward'[i].age
    <3>1. i \in 1 .. Len(Outward) /\ Ahead(i) /\ Outward'[i] = Outward[i]
      BY <1>13, <2>1
    <3>2. /\ \A j \in 1 .. Len(Outward) : j <= i => ~IsApp(Outward[j])
          /\ ~Holding
          /\ Open => Rcvr.age <= MaxDelay + Outward[i].age
      BY <3>1 DEF LinkOK, AheadOK
    <3> QED
      BY <1>3, <1>4, <3>1, <3>2
  <2> QED
    BY <2>1 DEF AheadOK
<1>15. Listening => Listening'
  BY <1>3, <1>13 DEF Listening
<1> QED
  BY <1>6, <1>7, <1>8, <1>9, <1>10, <1>11, <1>12, <1>14, <1>15 DEF LinkOK

-----------------------------------------------------------------------------
(* The host takes an answer from the line.                                 *)
TakesAnswer == Homeward # <<>> /\ Homeward' = Tail(Homeward)

AnswerGaps ==
  /\ 1 \in 1 .. Len(Homeward) /\ Len(Homeward') = Len(Homeward) - 1 /\ Len(Homeward) \in Nat
  /\ \A i \in 1 .. Len(Homeward') : i + 1 \in 1 .. Len(Homeward) /\ Homeward'[i] = Homeward[i + 1]
  /\ NoAck => NoAck'
  /\ IsAck(Homeward[1]) => ~NoAck
  /\ Len(Homeward) <= 1 => Homeward' = <<>>

LEMMA AnswerFacts ==
  ASSUME LinkTyped, TakesAnswer
  PROVE  AnswerGaps
<1>1. Homeward \in Seq(HomeUnit) /\ Homeward # <<>> /\ Homeward' = Tail(Homeward)
  BY DEF LinkTyped, TakesAnswer
<1>2. /\ 1 \in 1 .. Len(Homeward) /\ Len(Homeward') = Len(Homeward) - 1 /\ Len(Homeward) \in Nat
      /\ \A i \in 1 .. Len(Homeward') : i + 1 \in 1 .. Len(Homeward) /\ Homeward'[i] = Homeward[i + 1]
  BY <1>1
<1>3. Homeward' \in Seq(HomeUnit)
  BY <1>1
<1>4. Len(Homeward) <= 1 => Homeward' = <<>>
  <2>1. Len(Homeward) <= 1 => Len(Homeward') = 0
    BY <1>2
  <2> QED
    BY <1>3, <2>1
<1>5. (NoAck => NoAck') /\ (IsAck(Homeward[1]) => ~NoAck)
  BY <1>2 DEF NoAck
<1> QED
  BY <1>2, <1>4, <1>5 DEF AnswerGaps

\* The slave's side does not change, nor do frames of an earlier connection.
LEMMA HostKeepsAhead ==
  ASSUME SlaveRests, AheadOK,
         \A i \in 1 .. Len(Outward) : Outward'[i] = Outward[i],
         \A i \in 1 .. Len(Outward') : Ahead(i)' =>
           /\ i \in 1 .. Len(Outward) /\ Ahead(i)
           /\ \A j \in 1 .. Len(Outward') : j <= i => j \in 1 .. Len(Outward)
  PROVE  /\ AheadOK'
         /\ Listening /\ (~Connected' /\ ~NoAck' => ~Connected /\ ~NoAck) => Listening'
<1>1. Rcvr' = Rcvr /\ Held' = Held /\ (Open' <=> Open) /\ (Holding' <=> Holding)
  BY DEF SlaveRests, Open, Holding
<1>2. ASSUME NEW i \in 1 .. Len(Outward'), Ahead(i)'
      PROVE  /\ \A j \in 1 .. Len(Outward') : j <= i => ~IsApp(Outward'[j])
             /\ ~Holding'
             /\ Open' => Rcvr'.age <= MaxDelay + Outward'[i].age
  <2>1. i \in 1 .. Len(Outward) /\ Ahead(i) /\ Outward'[i] = Outward[i]
    BY <1>2
  <2>2. /\ \A j \in 1 .. Len(Outward) : j <= i => ~IsApp(Outward[j])
        /\ ~Holding
        /\ Open => Rcvr.age <= MaxDelay + Outward[i].age
    BY <2>1 DEF AheadOK
  <2>3. ASSUME NEW j \in 1 .. Len(Outward'), j <= i
        PROVE  ~IsApp(Outward'[j])
    <3>1. j \in 1 .. Len(Outward) /\ Outward'[j] = Outward[j]
      BY <1>2, <2>3
    <3> QED
      BY <2>2, <2>3, <3>1
  <2> QED
    BY <1>1, <2>1, <2>2, <2>3
<1>3. AheadOK'
  BY <1>2 DEF AheadOK
<1>4. (\E i \in 1 .. Len(Outward') : Ahead(i)') => \E i \in 1 .. Len(Outward) : Ahead(i)
  OBVIOUS
<1>5. Listening /\ (~Connected' /\ ~NoAck' => ~Connected /\ ~NoAck) => Listening'
  BY <1>1, <1>4 DEF Listening
<1> QED
  BY <1>3, <1>5

LEMMA SameLineKeepsAhead ==
  ASSUME LinkTyped, SlaveRests, AheadOK, Outward' = Outward, Connected' => Connected
  PROVE  /\ AheadOK'
         /\ Listening /\ (~Connected' /\ ~NoAck' => ~Connected /\ ~NoAck) => Listening'
<1>1. \A i \in 1 .. Len(Outward') : Ahead(i)' => Ahead(i)
  BY DEF Ahead
<1> QED
  BY <1>1, HostKeepsAhead

(* The sender's timer starts again.                                        *)
LEMMA TimerStarts ==
  ASSUME LinkTyped', Sndr'.age = 0
  PROVE  TimingOK'
<1>1. ASSUME NEW i \in 1 .. Len(Outward')
      PROVE  Sndr'.age <= Outward'[i].age
  <2>1. Outward'[i].age \in 0 .. MaxDelay
    BY UnitsStayUnits DEF UnitFacts
  <2> QED
    BY <2>1
<1>2. ASSUME NEW i \in 1 .. Len(Homeward')
      PROVE  Sndr'.age <= Homeward'[i].age + MaxDelay
  <2>1. Homeward'[i].age \in 0 .. MaxDelay /\ MaxDelay \in Nat
    BY UnitsStayUnits DEF UnitFacts
  <2> QED
    BY <2>1
<1> QED
  BY <1>1, <1>2 DEF TimingOK

-----------------------------------------------------------------------------
(* Its handshake is answered: whoever answered has just been opened.       *)
Answered ==
  /\ SlaveRests /\ Outward' = Outward /\ faults' = faults
  /\ Waits' = Waits /\ asked' = asked /\ status' = status
  /\ TakesAnswer /\ IsAck(Homeward[1])
  /\ Sndr.state = "HANDSHAKE" /\ Sndr'.state = "SENDING" /\ Sndr'.job = Sndr.job
  /\ Sndr'.sent = Sndr.sent /\ Sndr'.tries = Sndr.tries /\ Sndr'.age = 0

AnsweredFacts ==
  /\ ~Connected /\ Connected' /\ Current \in Transfers /\ Current' = Current
  /\ Sndr.sent = 0 /\ Sndr.tries = 0 /\ Sndr.job.total \in Nat \ {0}
  /\ Open => Rcvr.count = 0 /\ Rcvr.age <= MaxDelay
  /\ NoApp /\ NoHead /\ ~Holding
  /\ Homeward' = <<>> /\ NoAck'
  /\ \A f : ~Carried(f) /\ ~Carried(f)'
  /\ delivered[Current] = {} /\ delivered' = delivered
  /\ \A x \in Transfers : Unsent(x)' => Unsent(x)
  /\ Rcvr' = Rcvr /\ Held' = Held
  /\ (NoApp' <=> NoApp) /\ (NoHead' <=> NoHead) /\ (Open' <=> Open) /\ (Holding' <=> Holding)

LEMMA AnsweredHasFacts ==
  ASSUME LinkTyped, LinkTyped', LinkOK, Answered
  PROVE  AnsweredFacts
<1>1. /\ SlaveRests /\ Outward' = Outward
      /\ Waits' = Waits /\ asked' = asked /\ status' = status
      /\ IsAck(Homeward[1])
      /\ Sndr.state = "HANDSHAKE" /\ Sndr'.state = "SENDING" /\ Sndr'.job = Sndr.job
  BY DEF Answered
<1>2. /\ ~Connected /\ Connected' /\ Current' = Current
      /\ Sndr.sent = 0 /\ Sndr.tries = 0
  BY <1>1 DEF Connected, Current, LinkOK, SenderOK
<1>3. Current \in Transfers /\ Sndr.job.total \in Nat \ {0}
  BY <1>1, UnitsAreUnits DEF LinkTyped, IsAsked, Current, UnitFacts, JobRecord
<1>4. AnswerGaps /\ ~NoAck
  BY <1>1, AnswerFacts DEF Answered, AnswerGaps
<1>5. NoApp /\ ~Holding /\ (Open => Rcvr.count = 0 /\ Rcvr.age <= Homeward[1].age)
  BY <1>1, <1>2, <1>4 DEF LinkOK, AckOK, AnswerGaps
<1>6. Open => Rcvr.age <= MaxDelay
  <2>1. Homeward[1].age \in 0 .. MaxDelay /\ Rcvr.age \in Nat /\ MaxDelay \in Nat
    BY <1>4, UnitsAreUnits DEF UnitFacts, AnswerGaps
  <2> QED
    BY <1>5, <2>1
<1>7. Len(Homeward) <= 1
  <2>1. ASSUME ~(Len(Homeward) <= 1)
        PROVE  FALSE
    <3>1. 2 \in 1 .. Len(Homeward) /\ 1 \in 1 .. Len(Homeward)
      BY <1>4, <2>1 DEF AnswerGaps
    <3> QED
      BY <1>1, <3>1 DEF LinkOK, AckOK
  <2> QED
    BY <2>1
<1>8. Homeward' = <<>> /\ NoAck'
  BY <1>4, <1>7 DEF AnswerGaps, NoAck
<1>9. NoHead /\ \A f : ~Carried(f)
  BY <1>5 DEF NoHead, NoApp, IsHead, Carried
<1>10. delivered[Current] = {}
  BY <1>1, <1>3 DEF LinkOK, CarriedOK, Unsent, Untouched
<1>11. \A x \in Transfers : Unsent(x)' => Unsent(x)
  BY <1>1 DEF Unsent
<1>12. /\ \A f : Carried(f)' <=> Carried(f)
       /\ (NoApp' <=> NoApp) /\ (NoHead' <=> NoHead) /\ (Open' <=> Open) /\ (Holding' <=> Holding)
       /\ Rcvr' = Rcvr /\ Held' = Held /\ delivered' = delivered
  BY <1>1, SlaveSideStays DEF SlaveRests
<1> QED
  BY <1>2, <1>3, <1>5, <1>6, <1>8, <1>9, <1>10, <1>11, <1>12 DEF AnsweredFacts

LEMMA AnsweredKeeps ==
  ASSUME LinkTyped, LinkTyped', LinkOK, Answered
  PROVE  LinkOK' /\ (Listening => Listening')
<1>1. AnsweredFacts
  BY AnsweredHasFacts
<1>2. /\ SlaveRests /\ Outward' = Outward /\ faults' = faults
      /\ Waits' = Waits /\ asked' = asked /\ status' = status
      /\ Sndr.state = "HANDSHAKE" /\ Sndr'.state = "SENDING" /\ Sndr'.job = Sndr.job
      /\ Sndr'.sent = Sndr.sent /\ Sndr'.tries = Sndr.tries /\ Sndr'.age = 0
  BY DEF Answered
<1>3. SenderOK'
  BY <1>1, <1>2 DEF AnsweredFacts, LinkOK, SenderOK
<1>4. TimingOK'
  BY <1>2, TimerStarts
<1>5. CarriedOK'
  BY <1>1, <1>2 DEF AnsweredFacts, LinkOK, CarriedOK, Untouched
<1>6. CountOK'
  <2>1. Cardinality(delivered'[Current']) = 0
    BY <1>1, FS_EmptySet DEF AnsweredFacts
  <2> QED
    BY <1>1, <2>1 DEF AnsweredFacts, CountOK
<1>7. AckedOK'
  BY <1>1, <1>2 DEF AnsweredFacts, AckedOK
<1>8. PlainOK'
  <2>1. \A i \in 1 .. Len(Outward') : ~IsApp(Outward'[i])
    BY <1>1 DEF AnsweredFacts, NoApp
  <2> QED
    BY <1>1, <1>2, <2>1 DEF AnsweredFacts, PlainOK
<1>9. SpentOK' /\ AckOK'
  BY <1>1 DEF AnsweredFacts, SpentOK, AckOK, NoAck
<1>10. AheadOK'
  <2>1. ASSUME NEW i \in 1 .. Len(Outward')
        PROVE  Open' => Rcvr'.age <= MaxDelay + Outward'[i].age
    <3>1. Outward'[i].age \in 0 .. MaxDelay /\ MaxDelay \in Nat /\ Rcvr'.age \in Nat
      BY UnitsStayUnits DEF UnitFacts
    <3>2. Open' => Rcvr'.age <= MaxDelay
      BY <1>1 DEF AnsweredFacts
    <3> QED
      BY <3>1, <3>2
  <2> QED
    BY <1>1, <2>1 DEF AnsweredFacts, AheadOK, NoApp
<1>11. Listening => Listening'
  <2>1. IsAck(Homeward[1]) /\ AnswerGaps
    BY AnswerFacts DEF Answered
  <2>2. ~NoAck
    BY <2>1 DEF AnswerGaps
  <2> QED
    BY <1>1, <2>2 DEF AnsweredFacts, Listening
<1> QED
  BY <1>3, <1>4, <1>5, <1>6, <1>7, <1>8, <1>9, <1>10, <1>11 DEF LinkOK

-----------------------------------------------------------------------------
(* What does not depend on how far the sender is.                          *)
HostGoesOn ==
  /\ SlaveRests /\ Outward' = Outward /\ faults' = faults
  /\ Waits' = Waits /\ asked' = asked /\ status' = status
  /\ Connected /\ Connected' /\ Sndr'.job = Sndr.job /\ Sndr'.age = 0
  /\ Sndr.job.needAck
  /\ Homeward' = <<>>

LEMMA HostGoesOnKeeps ==
  ASSUME LinkTyped, LinkTyped', LinkOK, HostGoesOn
  PROVE  /\ TimingOK' /\ CarriedOK' /\ CountOK' /\ SpentOK' /\ AckOK' /\ AheadOK'
         /\ Listening => Listening'
<1>1. /\ SlaveRests /\ Outward' = Outward /\ faults' = faults
      /\ Waits' = Waits /\ asked' = asked /\ status' = status
      /\ Connected /\ Connected' /\ Current' = Current /\ Sndr'.age = 0
      /\ Homeward' = <<>> /\ Sndr'.job.needAck
      /\ Sndr.state # "HANDSHAKE" /\ Sndr'.state # "HANDSHAKE"
  BY DEF HostGoesOn, Current, Connected
<1>2. /\ \A f : Carried(f)' <=> Carried(f)
      /\ (Open' <=> Open)
      /\ Rcvr' = Rcvr /\ delivered' = delivered
      /\ \A x : AnswerLost(x)' <=> AnswerLost(x)
  BY <1>1, SlaveSideStays DEF SlaveRests, AnswerLost
<1>3. NoAck'
  BY <1>1 DEF NoAck
<1>4. TimingOK'
  BY <1>1, TimerStarts
<1>5. CarriedOK'
  <2>1. \A x \in Transfers : Unsent(x)' => Unsent(x)
    BY <1>1 DEF Unsent
  <2> QED
    BY <1>1, <1>2, <2>1 DEF LinkOK, CarriedOK, Untouched
<1>6. CountOK'
  BY <1>1, <1>2 DEF LinkOK, CountOK
<1>7. SpentOK' /\ AckOK'
  BY <1>1, <1>3 DEF SpentOK, AckOK, NoAck
<1>8. AheadOK' /\ (Listening => Listening')
  BY <1>1, <1>3, SameLineKeepsAhead DEF LinkOK
<1> QED
  BY <1>4, <1>5, <1>6, <1>7, <1>8

(* A frame is sent again: it was refused, or nobody answered.              *)
Resends ==
  /\ HostGoesOn
  /\ Sndr.state = "WAIT_ACK" /\ Sndr'.state = "SENDING"
  /\ Sndr'.sent = Sndr.sent /\ Sndr'.seq = Sndr.seq /\ Sndr'.tries >= Sndr.tries
  /\ NoAck /\ (Outward = <<>> \/ (~Holding /\ NoHead))

LEMMA ResendsKeeps ==
  ASSUME LinkTyped, LinkTyped', LinkOK, Resends
  PROVE  LinkOK' /\ (Listening => Listening')
<1>1. HostGoesOn
  BY DEF Resends
<1>2. /\ SlaveRests /\ Outward' = Outward /\ faults' = faults
      /\ Waits' = Waits /\ status' = status
      /\ Connected /\ Connected' /\ Current' = Current /\ Sndr'.job = Sndr.job
      /\ Homeward' = <<>> /\ Sndr.job.needAck
      /\ Sndr.state = "WAIT_ACK" /\ Sndr'.state = "SENDING"
      /\ Sndr'.sent = Sndr.sent /\ Sndr'.seq = Sndr.seq
      /\ NoAck /\ (Outward = <<>> \/ (~Holding /\ NoHead))
  BY DEF Resends, HostGoesOn, Current
<1>3. /\ \A f : Carried(f)' <=> Carried(f)
      /\ (NoHead' <=> NoHead) /\ (Holding' <=> Holding) /\ Held'.frame = Held.frame
      /\ delivered' = delivered
      /\ \A x : AnswerLost(x)' <=> AnswerLost(x)
  BY <1>2, SlaveSideStays DEF SlaveRests, AnswerLost
<1>4. Sndr.tries > 0 /\ Sndr'.tries > 0
  <2>1. Sndr.tries > 0
    BY <1>2 DEF LinkOK, SenderOK
  <2>2. Sndr.tries \in Nat
    BY UnitsAreUnits DEF UnitFacts
  <2>3. Sndr'.tries \in Nat
    BY UnitsStayUnits DEF UnitFacts
  <2>4. Sndr'.tries >= Sndr.tries
    BY DEF Resends
  <2> QED
    BY <2>1, <2>2, <2>3, <2>4
<1>5. NoAck'
  BY <1>2 DEF NoAck
<1>6. SenderOK'
  BY <1>2, <1>4 DEF LinkOK, SenderOK
<1>7. AckedOK'
  BY <1>2, <1>3, <1>4, <1>5 DEF LinkOK, AckedOK
<1>8. PlainOK'
  BY <1>2, <1>3 DEF LinkOK, PlainOK
<1> QED
  BY <1>1, <1>6, <1>7, <1>8, HostGoesOnKeeps DEF LinkOK

(* The ACK that the sender waits for: there is nothing else on the line.   *)
AckComes ==
  /\ Connected /\ Sndr.job.needAck /\ Sndr.state = "WAIT_ACK"
  /\ TakesAnswer /\ IsAck(Homeward[1])

AckFacts ==
  /\ Homeward' = <<>> /\ NoApp /\ NoHead /\ ~Holding
  /\ \A f : ~Carried(f)
  /\ delivered[Current] = 0 .. Sndr.sent

LEMMA AckHasFacts ==
  ASSUME LinkTyped, LinkOK, AckComes
  PROVE  AckFacts
<1>1. Connected /\ Sndr.job.needAck /\ Sndr.state = "WAIT_ACK" /\ AckedOK
  BY DEF AckComes, LinkOK
<1>2. AnswerGaps /\ ~NoAck
  BY AnswerFacts DEF AckComes, AnswerGaps
<1>3. Homeward' = <<>> /\ NoApp /\ ~Holding
  <2>1. Homeward # <<>> /\ Len(Homeward) <= 1
    BY <1>1 DEF AckComes, TakesAnswer, AckedOK
  <2> QED
    BY <1>1, <1>2, <2>1 DEF AckedOK, AnswerGaps
<1>4. NoHead /\ \A f : ~Carried(f)
  BY <1>3 DEF NoHead, NoApp, IsHead, Carried
<1>5. delivered[Current] = 0 .. Sndr.sent
  BY <1>1, <1>2 DEF AckedOK
<1> QED
  BY <1>3, <1>4, <1>5 DEF AckFacts

(* It is acknowledged, and another frame follows.                          *)
GoesToNext ==
  /\ AckComes
  /\ HostGoesOn
  /\ Sndr.sent + 1 # Sndr.job.total
  /\ Sndr'.state = "SENDING" /\ Sndr'.sent = Sndr.sent + 1 /\ Sndr'.tries = 0

LEMMA GoesToNextKeeps ==
  ASSUME LinkTyped, LinkTyped', LinkOK, GoesToNext
  PROVE  LinkOK' /\ (Listening => Listening')
<1>1. HostGoesOn /\ AckFacts
  BY AckHasFacts DEF GoesToNext
<1>2. /\ SlaveRests /\ Outward' = Outward
      /\ Waits' = Waits /\ status' = status
      /\ Connected /\ Connected' /\ Current' = Current /\ Sndr'.job = Sndr.job
      /\ Homeward' = <<>> /\ Sndr.job.needAck
      /\ Sndr.state = "WAIT_ACK" /\ Sndr'.state = "SENDING"
      /\ Sndr'.sent = Sndr.sent + 1 /\ Sndr'.tries = 0
      /\ Sndr.sent + 1 # Sndr.job.total
  BY DEF GoesToNext, AckComes, HostGoesOn, Current
<1>3. /\ \A f : ~Carried(f)'
      /\ NoApp' /\ NoHead' /\ ~Holding'
      /\ delivered' = delivered /\ NoAck'
  BY <1>1, <1>2, SlaveSideStays DEF SlaveRests, AckFacts, NoAck
<1>4. Sndr.sent \in Nat /\ Sndr.job.total \in Nat
  BY UnitsAreUnits DEF UnitFacts, JobRecord
<1>5. SenderOK'
  <2>1. Sndr.sent < Sndr.job.total
    BY <1>2 DEF LinkOK, SenderOK
  <2>2. Sndr'.sent < Sndr'.job.total
    BY <1>2, <1>4, <2>1
  <2> QED
    BY <1>2, <2>2 DEF LinkOK, SenderOK
<1>6. AckedOK'
  <2>1. delivered'[Current'] = 0 .. Sndr'.sent - 1
    BY <1>1, <1>2, <1>3, <1>4 DEF AckFacts
  <2> QED
    BY <1>2, <1>3, <2>1 DEF AckedOK
<1>7. PlainOK'
  <2>1. \A i \in 1 .. Len(Outward') : ~IsApp(Outward'[i])
    BY <1>3 DEF NoApp
  <2> QED
    BY <1>2, <1>3, <2>1 DEF PlainOK
<1> QED
  BY <1>1, <1>5, <1>6, <1>7, HostGoesOnKeeps DEF LinkOK

-----------------------------------------------------------------------------
(* The transfer ends, with the result r.                                   *)
Ends(r) ==
  /\ SlaveRests /\ Outward' = Outward /\ faults' = faults
  /\ Waits' = Waits /\ asked' = asked
  /\ Sndr.state # "IDLE" /\ Sndr' = IdleSender
  /\ r \in {"done", "failed"} /\ status' = [status EXCEPT ![Current] = r]
  /\ Homeward' = Homeward \/ TakesAnswer
  /\ Connected => Homeward' = <<>> /\ (NoApp \/ (~Holding /\ NoHead))
  /\ r = "done" /\ Sndr.job.needAck => delivered[Current] = 0 .. Sndr.job.total - 1

\* What is known of a transfer that ends.
LEMMA EndedTransfer ==
  ASSUME LinkTyped, LinkOK, Sndr.state # "IDLE", Waits' = Waits, Sndr' = IdleSender,
         NEW r \in {"done", "failed"}, status' = [status EXCEPT ![Current] = r]
  PROVE  /\ Current \in Transfers /\ asked[Current] = Sndr.job
         /\ \A x \in Transfers : status'[x] = IF x = Current THEN r ELSE status[x]
         /\ \A x \in Transfers : Unsent(x)' => Unsent(x)
         /\ SenderOK'
<1>1. Current \in Transfers /\ asked[Current] = Sndr.job
  BY DEF LinkTyped, IsAsked, Current
<1>2. \A x \in Transfers : status'[x] = IF x = Current THEN r ELSE status[x]
  BY DEF LinkTyped
<1>3. /\ status[Current] = "accepted"
      /\ Waits # NoJob => /\ status[Waits.id] = "accepted" /\ Waits.id # Current
                          /\ Waits.id \in Transfers
  BY DEF LinkOK, SenderOK, LinkTyped, IsAsked
<1>4. ASSUME NEW x \in Transfers, Unsent(x)'
      PROVE  Unsent(x)
  <2>1. CASE Waits' # NoJob /\ x = Waits'.id
    BY <2>1 DEF Unsent
  <2>2. CASE status'[x] = "none"
    <3>1. status[x] = "none"
      BY <1>2, <2>2
    <3> QED
      BY <3>1 DEF Unsent
  <2> QED
    BY <1>4, <2>1, <2>2 DEF Unsent, IdleSender
<1>5. SenderOK'
  BY <1>2, <1>3 DEF SenderOK, Connected, IdleSender
<1> QED
  BY <1>1, <1>2, <1>4, <1>5

\* What does not depend on what the transfer leaves on the line.
LEMMA EndsKeepsEnd ==
  ASSUME LinkTyped, LinkTyped', LinkOK, EndOK, reported' = reported, NEW r, Ends(r)
  PROVE  EndOK'
<1>1. /\ delivered' = delivered /\ asked' = asked /\ faults' = faults
      /\ Sndr.state # "IDLE" /\ Sndr' = IdleSender /\ Waits' = Waits
      /\ r \in {"done", "failed"} /\ status' = [status EXCEPT ![Current] = r]
      /\ r = "done" /\ Sndr.job.needAck => delivered[Current] = 0 .. Sndr.job.total - 1
  BY DEF Ends, SlaveRests
<1>2. /\ asked[Current] = Sndr.job
      /\ \A x \in Transfers : status'[x] = IF x = Current THEN r ELSE status[x]
  BY <1>1, EndedTransfer
<1>3. \A x \in Transfers : status'[x] = "done" /\ asked[x].needAck =>
        delivered[x] = 0 .. asked[x].total - 1
  BY <1>1, <1>2 DEF EndOK
<1> QED
  BY <1>1, <1>3 DEF EndOK, AnswerLost

LEMMA EndsKeeps ==
  ASSUME LinkTyped, LinkTyped', LinkOK, NEW r, Ends(r)
  PROVE  LinkOK' /\ (Listening => Listening')
<1>1. /\ SlaveRests /\ Outward' = Outward /\ faults' = faults
      /\ Waits' = Waits /\ asked' = asked
      /\ Sndr.state # "IDLE" /\ Sndr' = IdleSender
      /\ r \in {"done", "failed"} /\ status' = [status EXCEPT ![Current] = r]
      /\ Homeward' = Homeward \/ TakesAnswer
      /\ Connected => Homeward' = <<>> /\ (NoApp \/ (~Holding /\ NoHead))
  BY DEF Ends
<1>2. /\ \A x \in Transfers : Unsent(x)' => Unsent(x)
      /\ SenderOK'
  BY <1>1, EndedTransfer
<1>3. /\ \A f : Carried(f)' <=> Carried(f)
      /\ (NoApp' <=> NoApp) /\ (NoHead' <=> NoHead)
      /\ (Open' <=> Open) /\ (Holding' <=> Holding) /\ Held'.frame = Held.frame
      /\ Rcvr' = Rcvr /\ delivered' = delivered
      /\ \A x : AnswerLost(x)' <=> AnswerLost(x)
      /\ ~Connected' /\ Sndr'.age = 0
  BY <1>1, SlaveSideStays DEF SlaveRests, AnswerLost, Connected, IdleSender
<1>4. TimingOK'
  BY <1>3, TimerStarts
<1>5. CarriedOK'
  BY <1>1, <1>2, <1>3 DEF LinkOK, CarriedOK, Untouched
<1>6. CountOK' /\ AckedOK'
  BY <1>3 DEF LinkOK, CountOK, AckedOK
<1>7. PlainOK'
  BY <1>1, <1>3 DEF LinkOK, PlainOK
<1>8. SpentOK'
  BY <1>1, <1>3 DEF LinkOK, SpentOK
<1>9. AnswerGaps \/ Homeward' = Homeward
  BY <1>1, AnswerFacts
<1>10. AckOK' /\ (~NoAck' => ~Connected /\ ~NoAck)
  <2>1. CASE Connected
    <3>1. NoAck'
      BY <1>1, <2>1 DEF NoAck
    <3> QED
      BY <3>1 DEF AckOK, NoAck
  <2>2. CASE ~Connected
    <3>1. AckOK
      BY DEF LinkOK
    <3>2. CASE Homeward' = Homeward
      BY <1>3, <2>2, <3>1, <3>2 DEF AckOK, NoAck
    <3>3. CASE AnswerGaps
      <4>1. /\ \A i \in 1 .. Len(Homeward') : i + 1 \in 1 .. Len(Homeward) /\ Homeward'[i] = Homeward[i + 1]
            /\ NoAck => NoAck'
        BY <3>3 DEF AnswerGaps
      <4>2. \A i, j \in 1 .. Len(Homeward') : i < j => ~IsAck(Homeward'[i])
        BY <3>1, <4>1 DEF AckOK
      <4> QED
        BY <1>3, <2>2, <3>1, <4>1, <4>2 DEF AckOK
    <3> QED
      BY <1>9, <3>2, <3>3
  <2> QED
    BY <2>1, <2>2
<1>11. AheadOK' /\ (Listening => Listening')
  BY <1>1, <1>3, <1>10, SameLineKeepsAhead DEF LinkOK
<1> QED
  BY <1>2, <1>4, <1>5, <1>6, <1>7, <1>8, <1>10, <1>11 DEF LinkOK

-----------------------------------------------------------------------------
(* It sends a frame, as a header and a payload.                            *)
NextUp == AppFrame(Sndr.job, Sndr.sent)

Sends(h, p) ==
  /\ SlaveRests /\ Homeward' = Homeward /\ faults' = faults
  /\ Waits' = Waits /\ asked' = asked
  /\ Outward' = Outward \o <<h, p>>
  /\ h.frame = NextUp /\ h.part = "header"
  /\ p.frame = NextUp /\ p.part = "payload"
  /\ Sndr.state = "SENDING" /\ Sndr'.age = 0

SendGaps(h, p) ==
  /\ Len(Outward') = Len(Outward) + 2 /\ Len(Outward) \in Nat
  /\ Outward'[Len(Outward) + 1] = h /\ Outward'[Len(Outward) + 2] = p
  /\ \A i \in 1 .. Len(Outward) : i \in 1 .. Len(Outward') /\ Outward'[i] = Outward[i]
  /\ Len(Outward) + 1 \in 1 .. Len(Outward') /\ Len(Outward) + 2 \in 1 .. Len(Outward')
  /\ \A i \in 1 .. Len(Outward') :
       i \in 1 .. Len(Outward) \/ i = Len(Outward) + 1 \/ i = Len(Outward) + 2
  /\ \A i, j \in 1 .. Len(Outward') : i < j =>
       \/ i \in 1 .. Len(Outward) /\ (j \in 1 .. Len(Outward) \/ Outward'[j] \in {h, p})
       \/ i = Len(Outward) + 1 /\ j = Len(Outward) + 2
  /\ \A i \in 1 .. Len(Outward) : \A j \in 1 .. Len(Outward') : j <= i => j \in 1 .. Len(Outward)

LEMMA AppendTwo ==
  ASSUME LinkTyped, NEW h, NEW p, Outward' = Outward \o <<h, p>>
  PROVE  SendGaps(h, p)
<1>1. Outward \in Seq(OutUnit) /\ Len(Outward) \in Nat
  BY DEF LinkTyped
<1> DEFINE T == OutUnit \union {h, p}
<1>2. Outward \in Seq(T) /\ h \in T /\ p \in T
  BY <1>1
<1> HIDE DEF T
<1>3. <<h, p>> \in Seq(T) /\ Len(<<h, p>>) = 2 /\ <<h, p>>[1] = h /\ <<h, p>>[2] = p
  BY <1>2
<1>4. /\ Len(Outward') = Len(Outward) + 2
      /\ Outward'[Len(Outward) + 1] = h /\ Outward'[Len(Outward) + 2] = p
      /\ \A i \in 1 .. Len(Outward) : Outward'[i] = Outward[i]
  BY <1>1, <1>2, <1>3
<1> DEFINE n == Len(Outward)
           m == Len(Outward')
<1>5. n \in Nat /\ m = n + 2
  BY <1>1, <1>4
<1> HIDE DEF n, m
<1>6. /\ \A i \in 1 .. n : i \in 1 .. m
      /\ n + 1 \in 1 .. m /\ n + 2 \in 1 .. m
      /\ \A i \in 1 .. m : i \in 1 .. n \/ i = n + 1 \/ i = n + 2
      /\ \A i, j \in 1 .. m : i < j =>
           \/ i \in 1 .. n /\ (j \in 1 .. n \/ j = n + 1 \/ j = n + 2)
           \/ i = n + 1 /\ j = n + 2
      /\ \A i \in 1 .. n : \A j \in 1 .. m : j <= i => j \in 1 .. n
  BY <1>5
<1> QED
  BY <1>1, <1>4, <1>6 DEF SendGaps, n, m

SendFacts(h, p) ==
  /\ SendGaps(h, p)
  /\ Connected /\ Current \in Transfers /\ asked[Current] = Sndr.job
  /\ Sndr.sent \in Nat /\ Sndr.job.total \in Nat /\ Sndr.sent < Sndr.job.total
  /\ NextUp \in Frame /\ NextUp.type = "APP" /\ NextUp.job = Current
  /\ NextUp.seq = Sndr.sent /\ NextUp.needAck = Sndr.job.needAck
  /\ NextUp.total = Sndr.job.total
  /\ IsHead(h) /\ IsApp(h) /\ IsApp(p) /\ ~IsHead(p)
  /\ \A f \in Frame : Carried(f)' <=> Carried(f) \/ f = NextUp
  /\ \A f \in Frame : Carried(f)' => f.job = Current /\ f.needAck = Sndr.job.needAck
  /\ (Open' <=> Open) /\ (Holding' <=> Holding) /\ Held'.frame = Held.frame
  /\ Rcvr' = Rcvr /\ delivered' = delivered /\ (NoAck' <=> NoAck)
  /\ \A x : AnswerLost(x)' <=> AnswerLost(x)
  /\ TimingOK' /\ AheadOK'

LEMMA SendsHasFacts ==
  ASSUME LinkTyped, LinkTyped', LinkOK, NEW h, NEW p, Sends(h, p)
  PROVE  SendFacts(h, p)
<1>1. /\ SlaveRests /\ Homeward' = Homeward /\ faults' = faults
      /\ Outward' = Outward \o <<h, p>>
      /\ h.frame = NextUp /\ h.part = "header"
      /\ p.frame = NextUp /\ p.part = "payload"
      /\ Sndr.state = "SENDING" /\ Sndr'.age = 0
  BY DEF Sends
<1>2. SendGaps(h, p)
  BY <1>1, AppendTwo
<1>3. /\ Connected /\ Current \in Transfers /\ asked[Current] = Sndr.job /\ IsAsked(Sndr.job)
      /\ Sndr.sent \in Nat /\ Sndr.job.total \in Nat /\ Sndr.sent < Sndr.job.total
      /\ Sndr.job \in JobRecord
  <2>1. Connected
    BY <1>1 DEF Connected
  <2>2. Sndr.sent \in Nat /\ Sndr.job \in JobRecord
    BY UnitsAreUnits DEF UnitFacts
  <2> QED
    BY <1>1, <2>1, <2>2 DEF LinkTyped, IsAsked, Current, LinkOK, SenderOK, JobRecord
<1>4. NextUp \in Frame
  BY <1>3, AppFrames DEF NextUp
<1>5. /\ NextUp.type = "APP" /\ NextUp.job = Current
      /\ NextUp.seq = Sndr.sent /\ NextUp.needAck = Sndr.job.needAck
      /\ NextUp.total = Sndr.job.total
  BY DEF NextUp, AppFrame, Current
<1>6. IsHead(h) /\ IsApp(h) /\ IsApp(p) /\ ~IsHead(p)
  BY <1>1, <1>5 DEF IsHead, IsApp
<1>7. /\ (Open' <=> Open) /\ (Holding' <=> Holding) /\ Held'.frame = Held.frame
      /\ Rcvr' = Rcvr /\ delivered' = delivered /\ (NoAck' <=> NoAck)
      /\ \A x : AnswerLost(x)' <=> AnswerLost(x)
  BY <1>1 DEF SlaveRests, Open, Holding, NoAck, AnswerLost
<1>8. ASSUME NEW f \in Frame
      PROVE  Carried(f)' <=> Carried(f) \/ f = NextUp
  <2>1. (\E i \in 1 .. Len(Outward') : IsApp(Outward'[i]) /\ f = Outward'[i].frame) =>
          \/ f = NextUp
          \/ \E i \in 1 .. Len(Outward) : IsApp(Outward[i]) /\ f = Outward[i].frame
    BY <1>1, <1>2 DEF SendGaps
  <2>2. (\E i \in 1 .. Len(Outward) : IsApp(Outward[i]) /\ f = Outward[i].frame) =>
          \E i \in 1 .. Len(Outward') : IsApp(Outward'[i]) /\ f = Outward'[i].frame
    BY <1>2 DEF SendGaps
  <2>3. \E i \in 1 .. Len(Outward') : IsApp(Outward'[i]) /\ NextUp = Outward'[i].frame
    BY <1>1, <1>2, <1>6 DEF SendGaps
  <2> QED
    BY <1>7, <2>1, <2>2, <2>3 DEF Carried
<1>9. ASSUME NEW f \in Frame, Carried(f)'
      PROVE  f.job = Current /\ f.needAck = Sndr.job.needAck
  <2>1. CASE f = NextUp
    BY <1>5, <2>1
  <2>2. CASE Carried(f)
    <3>1. f.job = Current /\ f = AppFrame(asked[f.job], f.seq)
      BY <1>3, <2>2 DEF LinkOK, CarriedOK
    <3>2. f.needAck = asked[f.job].needAck
      BY <3>1 DEF AppFrame
    <3> QED
      BY <1>3, <3>1, <3>2
  <2> QED
    BY <1>8, <1>9, <2>1, <2>2
<1>10. TimingOK'
  BY <1>1, TimerStarts
<1>11. AheadOK'
  <2>1. ASSUME NEW i \in 1 .. Len(Outward'), Ahead(i)'
        PROVE  /\ i \in 1 .. Len(Outward) /\ Ahead(i)
               /\ \A j \in 1 .. Len(Outward') : j <= i => j \in 1 .. Len(Outward)
    BY <1>2, <1>3, <1>6, <2>1 DEF Ahead, SendGaps
  <2>2. \A i \in 1 .. Len(Outward) : Outward'[i] = Outward[i]
    BY <1>2 DEF SendGaps
  <2> QED
    BY <1>1, <2>1, <2>2, HostKeepsAhead DEF LinkOK
<1> QED
  BY <1>2, <1>3, <1>4, <1>5, <1>6, <1>7, <1>8, <1>9, <1>10, <1>11 DEF SendFacts

LEMMA SendsKeepsListening ==
  ASSUME LinkTyped, LinkTyped', LinkOK, NEW h, NEW p, Sends(h, p), NoAck, Listening
  PROVE  Listening'
<1>1. SendFacts(h, p)
  BY SendsHasFacts
<1>2. \A i \in 1 .. Len(Outward') : Ahead(i)' => i \in 1 .. Len(Outward) /\ Ahead(i)
  BY <1>1 DEF SendFacts, SendGaps, Ahead
<1> QED
  BY <1>1, <1>2 DEF SendFacts, Listening

LEMMA SendsKeepsCarried ==
  ASSUME LinkTyped, LinkTyped', LinkOK, NEW h, NEW p, Sends(h, p),
         \A x \in Transfers : Unsent(x)' => Unsent(x),
         Connected' => Current' = Current
  PROVE  CarriedOK' /\ CountOK'
<1>1. SendFacts(h, p)
  BY SendsHasFacts
<1>2. CarriedOK /\ CountOK /\ asked' = asked /\ Sndr.state = "SENDING"
  BY DEF LinkOK, Sends
<1>3. \A x \in Transfers : Unsent(x) => x # Current
  BY <1>2 DEF LinkOK, SenderOK, Unsent
<1>4. \A x \in Transfers : Unsent(x)' => Untouched(x)'
  BY <1>1, <1>2, <1>3 DEF SendFacts, CarriedOK, Untouched
<1>5. \A f \in Frame : Carried(f)' =>
        f.job \in Transfers /\ f = AppFrame(asked'[f.job], f.seq) /\ f.seq < f.total
  <2>1. NextUp = AppFrame(asked[NextUp.job], NextUp.seq) /\ NextUp.seq < NextUp.total
    BY <1>1 DEF SendFacts, NextUp
  <2> QED
    BY <1>1, <1>2, <2>1 DEF SendFacts, CarriedOK
<1>6. \A f, g \in Frame : Carried(f)' /\ Carried(g)' => f.job = g.job
  BY <1>1 DEF SendFacts
<1>7. CarriedOK'
  BY <1>1, <1>2, <1>4, <1>5, <1>6 DEF SendFacts, CarriedOK
<1>8. CountOK'
  BY <1>1, <1>2 DEF SendFacts, CountOK
<1> QED
  BY <1>7, <1>8

(* A frame to be acknowledged.                                             *)
SendsAcked(h, p) ==
  /\ Sends(h, p)
  /\ status' = status
  /\ Sndr.job.needAck
  /\ Sndr'.state = "WAIT_ACK" /\ Sndr'.job = Sndr.job /\ Sndr'.sent = Sndr.sent
  /\ Sndr'.seq = Sndr.sent /\ Sndr'.tries = Sndr.tries + 1

LEMMA SendsAckedKeeps ==
  ASSUME LinkTyped, LinkTyped', LinkOK, NEW h, NEW p, SendsAcked(h, p)
  PROVE  LinkOK' /\ (Listening => Listening')
<1>1. Sends(h, p) /\ SendFacts(h, p)
  BY SendsHasFacts DEF SendsAcked
<1>2. /\ status' = status /\ Waits' = Waits /\ Homeward' = Homeward
      /\ Sndr.job.needAck /\ Sndr.state = "SENDING"
      /\ Sndr'.state = "WAIT_ACK" /\ Sndr'.job = Sndr.job /\ Sndr'.sent = Sndr.sent
      /\ Sndr'.seq = Sndr.sent /\ Current' = Current /\ Connected /\ Connected'
  BY DEF SendsAcked, Sends, Current, Connected
<1>3. Sndr'.tries > 0
  <2>1. Sndr.tries \in Nat /\ Sndr'.tries = Sndr.tries + 1
    BY UnitsAreUnits DEF UnitFacts, SendsAcked
  <2> QED
    BY <2>1
<1>4. AckedOK /\ Homeward = <<>> /\ NoAck /\ (Outward = <<>> \/ (~Holding /\ NoHead))
  BY <1>2 DEF LinkOK, AckedOK, NoAck
<1>5. SenderOK'
  BY <1>1, <1>2, <1>3 DEF SendFacts, LinkOK, SenderOK
<1>6. CarriedOK' /\ CountOK'
  <2>1. \A x \in Transfers : Unsent(x)' => Unsent(x)
    BY <1>2 DEF Unsent
  <2> QED
    BY <1>1, <1>2, <2>1, SendsKeepsCarried
<1>7. AckedOK'
  <2>1. \A f \in Frame : Carried(f)' => f.seq = Sndr'.sent
    BY <1>1, <1>2, <1>4 DEF SendFacts, AckedOK
  <2>2. \/ delivered'[Current'] = 0 .. Sndr'.sent - 1 /\ NoAck'
        \/ /\ delivered'[Current'] = 0 .. Sndr'.sent
           /\ Sndr'.tries > 0
           /\ NoAck' => AnswerLost(Current)'
    BY <1>1, <1>2, <1>3, <1>4 DEF SendFacts, AckedOK
  <2>3. ASSUME NEW i \in 1 .. Len(Outward'), NEW j \in 1 .. Len(Outward'), i < j
        PROVE  /\ IsHead(Outward'[i]) =>
                    IsApp(Outward'[j]) /\ ~IsHead(Outward'[j]) /\ j = Len(Outward')
               /\ Holding' => IsHead(Outward'[i])
    <3>1. \/ i \in 1 .. Len(Outward) /\ Outward'[i] = Outward[i]
          \/ i = Len(Outward) + 1 /\ j = Len(Outward) + 2
      BY <1>1, <2>3 DEF SendFacts, SendGaps
    <3>2. CASE i \in 1 .. Len(Outward) /\ Outward'[i] = Outward[i]
      <4>1. Outward # <<>>
        BY <3>2, UnitsAreUnits DEF UnitFacts
      <4> QED
        BY <1>1, <1>4, <3>2, <4>1 DEF SendFacts, NoHead
    <3>3. CASE i = Len(Outward) + 1 /\ j = Len(Outward) + 2
      BY <1>1, <3>3 DEF SendFacts, SendGaps
    <3> QED
      BY <3>1, <3>2, <3>3
  <2>4. Len(Homeward') <= 1 /\ NoAck' /\ Homeward' = <<>>
    BY <1>1, <1>2, <1>4 DEF SendFacts
  <2> QED
    BY <1>2, <2>1, <2>2, <2>3, <2>4 DEF AckedOK
<1>8. PlainOK'
  <2>1. PlainOK
    BY DEF LinkOK
  <2>2. \A f \in Frame : Carried(f)' => f.needAck
    BY <1>1, <1>2 DEF SendFacts
  <2>3. ASSUME NEW i \in 1 .. Len(Outward'), IsApp(Outward'[i])
        PROVE  Outward'[i].frame.needAck
    <3>1. Outward'[i].frame \in Frame
      BY UnitsStayUnits DEF UnitFacts
    <3>2. \A f \in Frame : f = Outward'[i].frame => Carried(f)'
      BY <2>3 DEF Carried
    <3> QED
      BY <2>2, <3>1, <3>2
  <2>4. Holding' => Held'.frame.needAck
    <3>1. Holding' => Held'.frame \in Frame
      BY UnitsStayUnits DEF UnitFacts
    <3>2. \A f \in Frame : Holding' /\ f = Held'.frame => Carried(f)'
      BY DEF Carried
    <3> QED
      BY <2>2, <3>1, <3>2
  <2> QED
    BY <1>2, <2>2, <2>3, <2>4 DEF PlainOK
<1>9. SpentOK' /\ AckOK'
  BY <1>2, <1>4 DEF SpentOK, AckOK
<1>10. Listening => Listening'
  BY <1>1, <1>4, SendsKeepsListening
<1> QED
  BY <1>1, <1>5, <1>6, <1>7, <1>8, <1>9, <1>10 DEF LinkOK, SendFacts

(* A frame that is not: the next one follows, or the transfer is done.     *)
SendsPlain(h, p) ==
  /\ Sends(h, p)
  /\ ~Sndr.job.needAck
  /\ \/ /\ Sndr.sent + 1 # Sndr.job.total
        /\ status' = status
        /\ Sndr'.state = "SENDING" /\ Sndr'.job = Sndr.job
        /\ Sndr'.sent = Sndr.sent + 1 /\ Sndr'.tries = 0
     \/ /\ Sndr' = IdleSender
        /\ status' = [status EXCEPT ![Current] = "done"]

LEMMA SendsPlainKeeps ==
  ASSUME LinkTyped, LinkTyped', LinkOK, NEW h, NEW p, SendsPlain(h, p)
  PROVE  LinkOK' /\ (Listening => Listening')
<1>1. Sends(h, p) /\ SendFacts(h, p)
  BY SendsHasFacts DEF SendsPlain
<1>2. ~Sndr.job.needAck /\ Sndr.state = "SENDING" /\ Waits' = Waits /\ Homeward' = Homeward
  BY DEF SendsPlain, Sends
<1>3. \/ /\ status' = status /\ Connected'
         /\ Sndr.sent + 1 # Sndr.job.total
         /\ Sndr'.state = "SENDING" /\ Sndr'.job = Sndr.job /\ Current' = Current
         /\ Sndr'.sent = Sndr.sent + 1 /\ Sndr'.tries = 0
      \/ /\ Sndr' = IdleSender /\ ~Connected'
         /\ status' = [status EXCEPT ![Current] = "done"]
  BY DEF SendsPlain, Connected, Current, IdleSender
<1>4. NoAck /\ NoAck'
  BY <1>1, <1>2 DEF SendFacts, LinkOK, AckOK
<1>5. SenderOK' /\ \A x \in Transfers : Unsent(x)' => Unsent(x)
  <2>1. CASE Sndr' = IdleSender /\ status' = [status EXCEPT ![Current] = "done"]
    BY <1>2, <2>1, EndedTransfer
  <2>2. CASE /\ status' = status
             /\ Sndr.sent + 1 # Sndr.job.total
             /\ Sndr'.state = "SENDING" /\ Sndr'.job = Sndr.job /\ Current' = Current
             /\ Sndr'.sent = Sndr.sent + 1 /\ Sndr'.tries = 0
    <3>1. Sndr'.sent < Sndr'.job.total
      BY <1>1, <2>2 DEF SendFacts
    <3> QED
      BY <1>2, <2>2, <3>1 DEF LinkOK, SenderOK, Unsent
  <2> QED
    BY <1>3, <2>1, <2>2
<1>6. CarriedOK' /\ CountOK'
  BY <1>1, <1>3, <1>5, SendsKeepsCarried
<1>7. AckedOK' /\ SpentOK' /\ AckOK'
  <2>1. \A f \in Frame : Carried(f)' => ~f.needAck
    BY <1>1, <1>2 DEF SendFacts
  <2> QED
    BY <1>2, <1>3, <1>4, <2>1 DEF AckedOK, SpentOK, AckOK, NoAck
<1>8. \A f \in Frame : (Carried(f) => f.seq < Sndr.sent) /\ f.seq \in Nat
  BY <1>1, <1>2 DEF SendFacts, LinkOK, PlainOK, Frame
<1>9. ASSUME NEW i \in 1 .. Len(Outward), IsApp(Outward[i])
      PROVE  Outward[i].frame \in Frame /\ Outward[i].frame.seq < Sndr.sent
  <2>1. Outward[i].frame \in Frame
    BY UnitsAreUnits DEF UnitFacts
  <2>2. Carried(Outward[i].frame)
    BY <1>9 DEF Carried
  <2> QED
    BY <1>8, <2>1, <2>2
<1>10. PlainOK'
  <2>1. PlainOK
    BY DEF LinkOK
  <2>2. \A q \in delivered[Current] : q < Sndr.sent
    BY <1>1, <1>2, <2>1 DEF SendFacts, PlainOK
  <2>3. \A f \in Frame : Carried(f)' /\ ~f.needAck => \A q \in delivered'[f.job] : q < f.seq
    BY <1>1, <2>1, <2>2 DEF SendFacts, PlainOK
  <2>4. Connected' /\ ~Sndr'.job.needAck =>
          /\ \A f \in Frame : Carried(f)' => f.seq < Sndr'.sent
          /\ \A q \in delivered'[Current'] : q < Sndr'.sent
    <3> SUFFICES ASSUME Connected'
                 PROVE  /\ \A f \in Frame : Carried(f)' => f.seq < Sndr'.sent
                        /\ \A q \in delivered'[Current'] : q < Sndr'.sent
      OBVIOUS
    <3>1. Sndr'.sent = Sndr.sent + 1 /\ Current' = Current /\ Sndr.sent \in Nat
      BY <1>1, <1>3 DEF SendFacts
    <3>2. \A f \in Frame : Carried(f)' => f.seq < Sndr'.sent
      <4>1. ASSUME NEW f \in Frame, Carried(f)'
            PROVE  f.seq < Sndr'.sent
        <5>1. f.seq < Sndr.sent \/ f.seq = Sndr.sent
          BY <1>1, <1>8, <4>1 DEF SendFacts
        <5>2. f.seq \in Nat
          BY <1>8
        <5> QED
          BY <3>1, <5>1, <5>2
      <4> QED
        BY <4>1
    <3>3. \A q \in delivered'[Current'] : q < Sndr'.sent
      <4>1. delivered'[Current'] = delivered[Current] /\ delivered[Current] \subseteq Nat
        BY <1>1, <3>1 DEF SendFacts, LinkTyped
      <4> QED
        BY <2>2, <3>1, <4>1
    <3> QED
      BY <3>2, <3>3
  <2>5. ASSUME NEW i \in 1 .. Len(Outward'), NEW j \in 1 .. Len(Outward'), i < j,
               IsApp(Outward'[i]), ~Outward'[i].frame.needAck, IsApp(Outward'[j])
        PROVE  /\ Precedes(Outward'[i].frame, Outward'[j])
               /\ Outward'[i].frame.seq = Outward'[j].frame.seq => IsHead(Outward'[i])
    <3>1. CASE i \in 1 .. Len(Outward) /\ j \in 1 .. Len(Outward)
      <4>1. Outward'[i] = Outward[i] /\ Outward'[j] = Outward[j]
        BY <1>1, <3>1 DEF SendFacts, SendGaps
      <4> QED
        BY <2>1, <2>5, <3>1, <4>1 DEF PlainOK
    <3>2. CASE i \in 1 .. Len(Outward) /\ Outward'[j] \in {h, p}
      <4>1. Outward'[i] = Outward[i] /\ Outward'[j].frame.seq = Sndr.sent /\ Sndr.sent \in Nat
        BY <1>1, <3>2 DEF SendFacts, SendGaps, Sends
      <4>2. Outward'[i].frame.seq < Sndr.sent /\ Outward'[i].frame.seq \in Nat
        BY <1>8, <1>9, <2>5, <3>2, <4>1
      <4> QED
        BY <4>1, <4>2 DEF Precedes
    <3>3. CASE i = Len(Outward) + 1 /\ j = Len(Outward) + 2
      <4>1. Outward'[i] = h /\ Outward'[j] = p /\ h.frame = p.frame
        BY <1>1, <3>3 DEF SendFacts, SendGaps, Sends
      <4> QED
        BY <1>1, <4>1 DEF SendFacts, Precedes
    <3> QED
      BY <1>1, <2>5, <3>1, <3>2, <3>3 DEF SendFacts, SendGaps
  <2>6. ASSUME Holding', ~Held'.frame.needAck, NEW j \in 1 .. Len(Outward'), IsApp(Outward'[j])
        PROVE  Precedes(Held'.frame, Outward'[j])
    <3>1. Holding /\ Held'.frame = Held.frame /\ Held.frame \in Frame /\ Carried(Held.frame)
      BY <1>1, <2>6, UnitsAreUnits DEF SendFacts, UnitFacts, Carried
    <3>2. CASE j \in 1 .. Len(Outward)
      <4>1. Outward'[j] = Outward[j]
        BY <1>1, <3>2 DEF SendFacts, SendGaps
      <4> QED
        BY <2>1, <2>6, <3>1, <3>2, <4>1 DEF PlainOK
    <3>3. CASE j \notin 1 .. Len(Outward)
      <4>1. Outward'[j].frame.seq = Sndr.sent
        BY <1>1, <3>3 DEF SendFacts, SendGaps, Sends
      <4> QED
        BY <1>8, <3>1, <4>1 DEF Precedes
    <3> QED
      BY <3>2, <3>3
  <2> QED
    BY <2>3, <2>4, <2>5, <2>6 DEF PlainOK
<1>11. Listening => Listening'
  BY <1>1, <1>4, SendsKeepsListening
<1> QED
  BY <1>1, <1>5, <1>6, <1>7, <1>10, <1>11 DEF LinkOK, SendFacts

LEMMA SendsPlainKeepsEnd ==
  ASSUME LinkTyped, LinkTyped', LinkOK, EndOK, reported' = reported, NEW h, NEW p,
         SendsPlain(h, p)
  PROVE  EndOK'
<1>1. /\ delivered' = delivered /\ asked' = asked /\ faults' = faults
      /\ ~Sndr.job.needAck /\ asked[Current] = Sndr.job
  BY SendsHasFacts DEF SendsPlain, Sends, SlaveRests, SendFacts
<1>2. status' = status \/ status' = [status EXCEPT ![Current] = "done"]
  BY DEF SendsPlain
<1>3. \A x \in Transfers : status'[x] = "done" /\ asked[x].needAck => status[x] = "done"
  BY <1>1, <1>2 DEF LinkTyped
<1> QED
  BY <1>1, <1>3 DEF EndOK, AnswerLost
=============================================================================
