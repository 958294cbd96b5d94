---------------------------- MODULE ServiceProofs ----------------------------
(***************************************************************************)
(* LTLP does what TransferService promises, and reports what it has, for   *)
(* every set of jobs, every timeout, number of tries and delay, and any    *)
(* number of faults of the line.  Every handler of the host and the slave, *)
(* every fault of the line and every tick is one of the moves of           *)
(* TransferProofs, and with it keeps LinkOK.                               *)
(***************************************************************************)
EXTENDS MaintenanceProofs


-----------------------------------------------------------------------------
(* What the ends are for, and what is on the line.                         *)
Roles ==
  /\ kernel[Slave] # "SENDING" /\ waiting[Slave] = NoJob
  /\ kernel[Host] # "RECEIVING" /\ parser[Host].state = "HEADER"
  /\ Outward \in Seq(OutUnit)
  /\ Homeward \in Seq(HomeUnit)
  /\ faults \in [Transfers -> [Kinds -> Nat]]
  /\ Holding => Held.frame.type = "APP"

LEMMA TwoNodes ==
  /\ Host \in Node /\ Slave \in Node /\ Host # Slave
  /\ \A n \in Node : n = Host \/ n = Slave
  /\ Other(Host) = Slave /\ Other(Slave) = Host
<1>1. Host \in Node /\ Slave \in Node /\ Host # Slave /\ \A n \in Node : n = Host \/ n = Slave
  BY NodesAssumption
<1>2. Other(Host) = Slave
  <2>1. \A m \in Node : m # Host <=> m = Slave
    BY <1>1
  <2>2. Other(Host) \in Node /\ Other(Host) # Host
    BY <1>1 DEF Other
  <2> QED
    BY <2>1, <2>2
<1>3. Other(Slave) = Host
  <2>1. \A m \in Node : m # Slave <=> m = Host
    BY <1>1
  <2>2. Other(Slave) \in Node /\ Other(Slave) # Slave
    BY <1>1 DEF Other
  <2> QED
    BY <2>1, <2>2
<1> QED
  BY <1>1, <1>2, <1>3

LEMMA LinkIsTyped == TransferInv /\ Roles => LinkTyped
<1> SUFFICES ASSUME TransferInv, Roles PROVE LinkTyped
  OBVIOUS
<1>1. Host \in Node /\ Slave \in Node
  BY TwoNodes
<1> QED
  BY <1>1 DEF LinkTyped, Roles, TransferInv, LibInv, HistoryInv, JobsAsked, ParserInv,
              Sndr, Rcvr, Held, Waits, Outward, Homeward, Holding

LEMMA LinkStaysTyped == TransferInv' /\ Roles' => LinkTyped'
  BY LinkIsTyped, PTL

-----------------------------------------------------------------------------
(* The end of a transfer and the report of it, if neither is reached.      *)
LEMMA EndStays ==
  ASSUME EndOK, delivered' = delivered, asked' = asked, status' = status, reported' = reported,
         \A x \in Transfers : AnswerLost(x) => AnswerLost(x)'
  PROVE  EndOK'
  BY DEF EndOK

\* A set of n frames out of 0 .. n - 1 is all of them.
LEMMA AllFrames ==
  ASSUME NEW n \in Nat, NEW S, S \subseteq 0 .. n - 1, Cardinality(S) = n
  PROVE  S = 0 .. n - 1
<1> DEFINE T == 0 .. n - 1
<1>1. IsFiniteSet(T) /\ Cardinality(T) = n
  <2>1. IsFiniteSet(0 .. n - 1) /\ Cardinality(0 .. n - 1) =
          IF 0 > n - 1 THEN 0 ELSE n - 1 - 0 + 1
    BY FS_Interval
  <2> QED
    BY <2>1
<1>2. S \subseteq T
  OBVIOUS
<1> HIDE DEF T
<1>3. Cardinality(S) = Cardinality(T) => S = T
  BY <1>1, <1>2, FS_Subset
<1> QED
  BY <1>1, <1>3 DEF T

LEMMA DeliversKeepsEnd ==
  ASSUME LinkTyped, LinkTyped', LinkOK, EndOK, NEW u, Delivers(u),
         NEW f, f = Held.frame,
         reported' = reported \/ (Rcvr.count + 1 = f.total /\ reported' = reported \union {f.job})
  PROVE  EndOK'
<1>1. DeliveryFacts(f)
  BY Delivery
<1>2. HeldFacts(f) /\ f.job \in Transfers /\ f.seq \in Nat /\ f.seq < asked[f.job].total
      /\ f.total = asked[f.job].total
  BY <1>1 DEF DeliveryFacts, HeldFacts
<1>3. /\ \A x \in Transfers : delivered'[x] =
           IF x = f.job THEN delivered[x] \union {f.seq} ELSE delivered[x]
      /\ asked' = asked /\ status' = status
      /\ \A x : AnswerLost(x)' <=> AnswerLost(x)
  BY <1>1 DEF DeliveryFacts
<1>4. asked[f.job].total \in Nat
  BY <1>2 DEF LinkTyped, JobRecord
<1>5. f.seq \in 0 .. asked[f.job].total - 1
  BY <1>2, <1>4
\* What is complete stays so.
<1>6. ASSUME NEW x \in Transfers, delivered[x] = 0 .. asked[x].total - 1
      PROVE  delivered'[x] = 0 .. asked[x].total - 1
  BY <1>3, <1>5, <1>6
<1>7. ASSUME Rcvr.count + 1 = f.total
      PROVE  AnswerLost(f.job) \/ delivered'[f.job] = 0 .. asked[f.job].total - 1
  <2> SUFFICES ASSUME ~AnswerLost(f.job)
               PROVE  delivered'[f.job] = 0 .. asked[f.job].total - 1
    OBVIOUS
  <2>1. Rcvr.count = Cardinality(delivered[f.job])
    <3>1. Open /\ Carried(f) /\ f \in Frame
      BY <1>2 DEF Delivers, HeldFacts
    <3> QED
      BY <1>2, <3>1 DEF LinkOK, CountOK
  <2>2. f.seq \notin delivered[f.job]
    BY <1>2, ComesOnce
  <2>3. delivered[f.job] \subseteq 0 .. asked[f.job].total - 1
    BY <1>2 DEF LinkOK, CarriedOK
  <2> DEFINE D == delivered[f.job]
             q == f.seq
             n == asked[f.job].total
  <2>4. IsFiniteSet(0 .. n - 1)
    BY <1>4, FS_Interval
  <2>5. delivered'[f.job] = D \union {q} /\ D \subseteq 0 .. n - 1 /\ q \notin D
        /\ q \in 0 .. n - 1 /\ Rcvr.count = Cardinality(D) /\ n \in Nat /\ Rcvr.count + 1 = n
    BY <1>2, <1>3, <1>4, <1>5, <1>7, <2>1, <2>2, <2>3
  <2> HIDE DEF D, q, n
  <2>6. IsFiniteSet(D)
    BY <2>4, <2>5, FS_Subset
  <2>7. Cardinality(D \union {q}) = Cardinality(D) + 1
    BY <2>5, <2>6, FS_AddElement
  <2>8. D \union {q} \subseteq 0 .. n - 1 /\ Cardinality(D \union {q}) = n
    BY <2>5, <2>7
  <2>9. D \union {q} = 0 .. n - 1
    BY <2>5, <2>8, AllFrames
  <2> QED
    BY <2>5, <2>9 DEF n
<1>8. \A x \in Transfers : status'[x] = "done" /\ asked'[x].needAck =>
        delivered'[x] = 0 .. asked'[x].total - 1
  BY <1>3, <1>6 DEF EndOK
<1>9. reported' \subseteq Transfers
  BY <1>2 DEF EndOK
<1>10. ASSUME NEW x \in reported'
       PROVE  AnswerLost(x)' \/ delivered'[x] = 0 .. asked'[x].total - 1
  <2>1. CASE x \in reported
    BY <1>3, <1>6, <1>9, <2>1 DEF EndOK
  <2>2. CASE x = f.job /\ Rcvr.count + 1 = f.total
    BY <1>3, <1>7, <2>2
  <2> QED
    BY <1>10, <2>1, <2>2
<1> QED
  BY <1>8, <1>9, <1>10 DEF EndOK

-----------------------------------------------------------------------------
(* What the moves are for the service.                                     *)
ServiceStep == [Service!Next]_(Service!serviceVars)

LEMMA ServiceRests ==
  ASSUME status' = status, delivered' = delivered, asked' = asked
  PROVE  ServiceStep
<1>1. [x \in Transfers |-> AsDemand(asked[x])]' = [x \in Transfers |-> AsDemand(asked[x])]
  OBVIOUS
<1> QED
  BY <1>1 DEF ServiceStep, Service!serviceVars

LEMMA ServiceAsked ==
  ASSUME HistoryInv, NEW x \in Transfers, NEW j \in Job, status[x] = "none",
         status' = [status EXCEPT ![x] = "accepted"],
         asked' = [asked EXCEPT ![x] = [j EXCEPT !.id = x]],
         delivered' = delivered
  PROVE  ServiceStep
<1> DEFINE demand == AsDemand(j)
<1>1. /\ asked \in [Transfers -> JobRecord]
      /\ j \in [id : {0}, msg : Nat, total : Nat \ {0}, needAck : BOOLEAN]
  BY JobAssumption DEF HistoryInv
<1>2. AsDemand([j EXCEPT !.id = x]) = demand
  BY <1>1 DEF AsDemand
<1>3. \A y \in Transfers : AsDemand(asked[y])' = IF y = x THEN demand ELSE AsDemand(asked[y])
  BY <1>1, <1>2 DEF AsDemand
<1>4. demand \in {AsDemand(k) : k \in Job}
  OBVIOUS
<1> HIDE DEF demand
<1>5. [y \in Transfers |-> AsDemand(asked[y])]' =
        [[y \in Transfers |-> AsDemand(asked[y])] EXCEPT ![x] = demand]
  BY <1>3
<1>6. Service!Ask(x)
  BY <1>4, <1>5 DEF Service!Ask
<1> QED
  BY <1>6 DEF ServiceStep, Service!Next

LEMMA ServiceDelivers ==
  ASSUME NEW x \in Transfers, status[x] # "none", NEW k \in 0 .. asked[x].total - 1,
         asked[x].needAck => 0 .. k - 1 \subseteq delivered[x],
         delivered' = [delivered EXCEPT ![x] = @ \union {k}],
         status' = status, asked' = asked
  PROVE  ServiceStep
<1> DEFINE demands == [y \in Transfers |-> AsDemand(asked[y])]
<1>1. demands[x].total = asked[x].total /\ demands[x].needAck = asked[x].needAck
  BY DEF AsDemand
<1>2. demands' = demands
  OBVIOUS
<1>3. Service!Deliver(x, k) <=>
        /\ status[x] # "none"
        /\ k \in 0 .. demands[x].total - 1
        /\ demands[x].needAck => 0 .. k - 1 \subseteq delivered[x]
        /\ delivered' = [delivered EXCEPT ![x] = @ \union {k}]
        /\ UNCHANGED <<demands, status>>
  BY DEF Service!Deliver
<1>4. k \in 0 .. demands[x].total - 1 /\ (demands[x].needAck => 0 .. k - 1 \subseteq delivered[x])
  BY <1>1
<1>5. Service!Deliver(x, k)
  <2> HIDE DEF demands
  <2> QED
    BY <1>2, <1>3, <1>4
<1> QED
  BY <1>4, <1>5 DEF ServiceStep, Service!Next

LEMMA ServiceEnds ==
  ASSUME NEW x \in Transfers, status[x] = "accepted", NEW r \in {"done", "failed"},
         status' = [status EXCEPT ![x] = r],
         r = "done" /\ asked[x].needAck => delivered[x] = 0 .. asked[x].total - 1,
         delivered' = delivered, asked' = asked
  PROVE  ServiceStep
<1>1. [y \in Transfers |-> AsDemand(asked[y])][x] =
        [total |-> asked[x].total, needAck |-> asked[x].needAck]
  BY DEF AsDemand
<1>2. [y \in Transfers |-> AsDemand(asked[y])]' = [y \in Transfers |-> AsDemand(asked[y])]
  OBVIOUS
<1>3. Service!Finish(x) \/ Service!Fail(x)
  <2>1. CASE r = "done"
    BY <1>1, <1>2, <2>1 DEF Service!Finish, Service!Complete
  <2>2. CASE r = "failed"
    BY <1>2, <2>2 DEF Service!Fail
  <2> QED
    BY <2>1, <2>2
<1> QED
  BY <1>3 DEF ServiceStep, Service!Next

-----------------------------------------------------------------------------
(* What every move has to keep.                                            *)
Kept == LinkOK' /\ EndOK' /\ ServiceStep

LEMMA FadesKept ==
  ASSUME LinkTyped, LinkTyped', LinkOK, EndOK, NEW d \in Nat, NEW g, Fades(d, g),
         reported' = reported
  PROVE  Kept
<1>1. LinkOK'
  BY FadesKeeps
<1>2. /\ delivered' = delivered /\ asked' = asked /\ status' = status
      /\ \A x \in Transfers : AnswerLost(x) => AnswerLost(x)'
  BY DEF Fades, SenderGoesUnchanged
<1> QED
  BY <1>1, <1>2, EndStays, ServiceRests DEF Kept

LEMMA AnswerGoneKept ==
  ASSUME LinkTyped, LinkTyped', LinkOK, EndOK, NEW g, AnswerGone(g), reported' = reported
  PROVE  Kept /\ (Listening => Listening')
<1>1. LinkOK' /\ (Listening => Listening')
  BY AnswerGoneKeeps
<1>2. /\ delivered' = delivered /\ asked' = asked /\ status' = status
      /\ \A x \in Transfers : AnswerLost(x) => AnswerLost(x)'
  BY DEF AnswerGone, HostRests, SlaveRests
<1> QED
  BY <1>1, <1>2, EndStays, ServiceRests DEF Kept

\* What the slave may forget of a frame, and of a transfer.
Forgets ==
  /\ Holding' => Holding /\ Held'.frame = Held.frame
  /\ Open' => Open /\ Rcvr'.count = Rcvr.count /\ Rcvr'.age <= Rcvr.age

(* The slave takes a unit that is of no use to it.                         *)
LEMMA PassesOver ==
  ASSUME LinkTyped, LinkTyped', LinkOK, EndOK, HostRests, delivered' = delivered,
         faults' = faults, reported' = reported, Pops, Homeward' = Homeward, Forgets
  PROVE  Kept /\ ((Open => Open') /\ Listening => Listening')
<1> DEFINE g == [i \in 1 .. Len(Outward') |-> i + 1]
<1>1. PopGaps
  BY PopsFacts
<1>2. /\ \A i \in 1 .. Len(Outward') : i + 1 \in 1 .. Len(Outward) /\ Outward'[i] = Outward[i + 1]
      /\ Len(Outward') \in Nat
  BY <1>1, UnitsStayUnits DEF PopGaps, UnitFacts
<1>3. /\ g \in [1 .. Len(Outward') -> 1 .. Len(Outward)]
      /\ \A i \in 1 .. Len(Outward') : g[i] = i + 1 /\ Outward'[i] = Outward[g[i]]
      /\ \A i, j \in 1 .. Len(Outward') : i < j => g[i] < g[j]
  BY <1>2
<1> HIDE DEF g
<1>4. \A i \in 1 .. Len(Outward') : Outward'[i].age = Outward[g[i]].age + 0
  <2>1. ASSUME NEW i \in 1 .. Len(Outward')
        PROVE  Outward'[i].age = Outward[g[i]].age + 0
    <3>1. Outward'[i].age = Outward[g[i]].age /\ Outward'[i].age \in 0 .. MaxDelay
      BY <1>3, UnitsStayUnits DEF UnitFacts
    <3> QED
      BY <3>1
  <2> QED
    BY <2>1
<1>5. \A i \in 1 .. Len(Homeward) : Homeward'[i].age = Homeward[i].age + 0
  <2>1. ASSUME NEW i \in 1 .. Len(Homeward)
        PROVE  Homeward'[i].age = Homeward[i].age + 0
    <3>1. Homeward'[i].age = Homeward[i].age /\ Homeward[i].age \in 0 .. MaxDelay
      BY UnitsAreUnits DEF UnitFacts
    <3> QED
      BY <3>1
  <2> QED
    BY <2>1
<1>6. Sndr'.age <= Sndr.age + 0 /\ (Open' => Rcvr'.age <= Rcvr.age + 0)
  <2>1. Sndr'.age = Sndr.age /\ Sndr.age \in Nat /\ Rcvr.age \in Nat
    BY UnitsAreUnits DEF UnitFacts, HostRests
  <2> QED
    BY <2>1 DEF Forgets
<1>7. Fades(0, g)
  BY <1>3, <1>4, <1>5, <1>6 DEF Fades, SenderGoesUnchanged, HostRests, Forgets, AnswerLost
<1>8. (Open => Open') /\ Listening => Listening'
  BY <1>7, FadesListening
<1> QED
  BY <1>7, <1>8, FadesKept

(* The line rests; the slave forgets.                                      *)
LEMMA ForgetsOnly ==
  ASSUME LinkTyped, LinkTyped', LinkOK, EndOK, HostRests, delivered' = delivered,
         faults' = faults, reported' = reported, Outward' = Outward, Homeward' = Homeward,
         Forgets
  PROVE  Kept /\ ((Open => Open' \/ Rcvr.age >= Timeout) /\ Listening => Listening')
<1> DEFINE g == [i \in 1 .. Len(Outward') |-> i]
<1>1. Len(Outward') \in Nat
  BY UnitsStayUnits DEF UnitFacts
<1>2. /\ g \in [1 .. Len(Outward') -> 1 .. Len(Outward)]
      /\ \A i \in 1 .. Len(Outward') : g[i] = i
  OBVIOUS
<1> HIDE DEF g
<1>3. \A i \in 1 .. Len(Outward') : Outward'[i].age = Outward[g[i]].age + 0
  <2>1. ASSUME NEW i \in 1 .. Len(Outward')
        PROVE  Outward'[i].age = Outward[g[i]].age + 0
    <3>1. Outward'[i].age = Outward[g[i]].age /\ Outward'[i].age \in 0 .. MaxDelay
      BY <1>2, UnitsStayUnits DEF UnitFacts
    <3> QED
      BY <3>1
  <2> QED
    BY <2>1
<1>4. \A i \in 1 .. Len(Homeward) : Homeward'[i].age = Homeward[i].age + 0
  <2>1. ASSUME NEW i \in 1 .. Len(Homeward)
        PROVE  Homeward'[i].age = Homeward[i].age + 0
    <3>1. Homeward'[i].age = Homeward[i].age /\ Homeward[i].age \in 0 .. MaxDelay
      BY UnitsAreUnits DEF UnitFacts
    <3> QED
      BY <3>1
  <2> QED
    BY <2>1
<1>5. Sndr'.age <= Sndr.age + 0 /\ (Open' => Rcvr'.age <= Rcvr.age + 0)
  <2>1. Sndr'.age = Sndr.age /\ Sndr.age \in Nat /\ Rcvr.age \in Nat
    BY UnitsAreUnits DEF UnitFacts, HostRests
  <2> QED
    BY <2>1 DEF Forgets
<1>6. Fades(0, g)
  BY <1>2, <1>3, <1>4, <1>5 DEF Fades, SenderGoesUnchanged, HostRests, Forgets, AnswerLost
<1>7. (Open => Open' \/ Rcvr.age >= Timeout) /\ Listening => Listening'
  BY <1>6, FadesListening
<1> QED
  BY <1>6, <1>7, FadesKept

LEMMA DeliversKept ==
  ASSUME LinkTyped, LinkTyped', LinkOK, EndOK, NEW u, Delivers(u), NEW f, f = Held.frame,
         reported' = reported \/ (Rcvr.count + 1 = f.total /\ reported' = reported \union {f.job})
  PROVE  Kept /\ Listening'
<1>1. LinkOK' /\ EndOK' /\ Listening'
  BY DeliversKeeps, DeliversKeepsEnd
<1>2. HeldFacts(f)
  BY Delivery DEF DeliveryFacts
<1>3. f.job \in Transfers /\ f.seq \in Nat /\ f.seq < asked[f.job].total /\ Carried(f)
      /\ f \in Frame /\ asked[f.job].total \in Nat
  BY <1>2 DEF HeldFacts, LinkTyped, JobRecord
<1>4. status[f.job] # "none"
  BY <1>3 DEF LinkOK, CarriedOK, Unsent, Untouched
<1>5. f.seq \in 0 .. asked[f.job].total - 1
  BY <1>3
<1>6. ASSUME asked[f.job].needAck
      PROVE  0 .. f.seq - 1 \subseteq delivered[f.job]
  <2>1. /\ Connected /\ Sndr.job.needAck /\ f.job = Current /\ f.seq = Sndr.sent
    BY <1>2, <1>6 DEF HeldFacts
  <2>2. delivered[Current] = 0 .. Sndr.sent - 1 \/ delivered[Current] = 0 .. Sndr.sent
    BY <2>1 DEF LinkOK, AckedOK
  <2>3. Sndr.sent \in Nat
    BY UnitsAreUnits DEF UnitFacts
  <2> QED
    BY <2>1, <2>2, <2>3
<1>7. /\ delivered' = [delivered EXCEPT ![f.job] = @ \union {f.seq}]
      /\ status' = status /\ asked' = asked
  BY DEF Delivers, HostRests
<1>8. ServiceStep
  BY <1>3, <1>4, <1>5, <1>6, <1>7, ServiceDelivers
<1> QED
  BY <1>1, <1>8 DEF Kept

LEMMA EndsKept ==
  ASSUME LinkTyped, LinkTyped', LinkOK, EndOK, NEW r, Ends(r), reported' = reported
  PROVE  Kept /\ (Listening => Listening')
<1>1. LinkOK' /\ EndOK' /\ (Listening => Listening')
  BY EndsKeeps, EndsKeepsEnd
<1>2. /\ r \in {"done", "failed"} /\ status' = [status EXCEPT ![Current] = r]
      /\ Sndr.state # "IDLE" /\ asked' = asked /\ delivered' = delivered
      /\ r = "done" /\ Sndr.job.needAck => delivered[Current] = 0 .. Sndr.job.total - 1
  BY DEF Ends, SlaveRests
<1>3. Current \in Transfers /\ asked[Current] = Sndr.job /\ status[Current] = "accepted"
  BY <1>2 DEF LinkTyped, IsAsked, Current, LinkOK, SenderOK
<1>4. ServiceStep
  BY <1>2, <1>3, ServiceEnds
<1> QED
  BY <1>1, <1>4 DEF Kept

LEMMA SendsPlainKept ==
  ASSUME LinkTyped, LinkTyped', LinkOK, EndOK, NEW h, NEW p, SendsPlain(h, p),
         reported' = reported
  PROVE  Kept /\ (Listening => Listening')
<1>1. LinkOK' /\ EndOK' /\ (Listening => Listening')
  BY SendsPlainKeeps, SendsPlainKeepsEnd
<1>2. asked' = asked /\ delivered' = delivered /\ Sndr.state # "IDLE" /\ ~Sndr.job.needAck
      /\ (status' = status \/ status' = [status EXCEPT ![Current] = "done"])
  BY DEF SendsPlain, Sends, SlaveRests
<1>3. Current \in Transfers /\ asked[Current] = Sndr.job /\ status[Current] = "accepted"
  BY <1>2 DEF LinkTyped, IsAsked, Current, LinkOK, SenderOK
<1>4. ServiceStep
  BY <1>2, <1>3, ServiceEnds, ServiceRests
<1> QED
  BY <1>1, <1>4 DEF Kept

LEMMA NothingNoted ==
  ASSUME LinkOK', EndOK, delivered' = delivered, asked' = asked, status' = status,
         reported' = reported, faults' = faults
  PROVE  Kept
  BY EndStays, ServiceRests DEF Kept, AnswerLost

-----------------------------------------------------------------------------
(* The slave takes a unit.                                                 *)
AnswerUnit(msg, f) ==
  [part |-> "header", frame |-> Answer(msg, f), intact |-> TRUE, age |-> 0]

LEMMA AnswerOnLine ==
  ASSUME NEW f \in Frame, NEW msg \in {ACK, NACK}
  PROVE  /\ OnLine(<<Answer(msg, f)>>) = <<AnswerUnit(msg, f)>>
         /\ AnswerUnit(msg, f) \in HomeUnit
         /\ IsAck(AnswerUnit(msg, f)) <=> msg = ACK
         /\ AnswerUnit(msg, f).age = 0 /\ AnswerUnit(msg, f).frame.job = f.job
<1>1. msg \in Nat
  BY DEF ACK, NACK
<1>2. Answer(msg, f) \in Frame /\ Answer(msg, f).type = "SYS"
  BY <1>1, Answers
<1>3. Answer(msg, f).msg = msg /\ Answer(msg, f).job = f.job
  <2>1. SysFrame(msg, NoJob) \in Frame /\ SysFrame(msg, NoJob).msg = msg
    BY <1>1, SysFrames, IdleRecords DEF SysFrame
  <2> QED
    BY <2>1 DEF Answer, Frame
<1> DEFINE a == Answer(msg, f)
<1> HIDE DEF a
<1>4. [part |-> "header", frame |-> a, intact |-> TRUE, age |-> 0] \in HomeUnit
  BY <1>2, <1>3, DelayAssumption DEF HomeUnit, Unit, a
<1>5. OnLine(<<a>>) = <<[part |-> "header", frame |-> a, intact |-> TRUE, age |-> 0]>>
  <2>1. <<a>> # <<>> /\ <<a>>[1] = a
    OBVIOUS
  <2>2. a.type # "APP"
    BY <1>2 DEF a
  <2>3. OnLine(<<a>>) = Units(a)
    BY <2>1 DEF OnLine
  <2> QED
    BY <2>2, <2>3 DEF Units
<1> QED
  BY <1>3, <1>4, <1>5 DEF AnswerUnit, IsAck, a

LEMMA SlaveHandles ==
  ASSUME TransferInv, Roles, NEW f, NEW send, NEW call, KernelHandleFrame(Slave, f, send, call)
  PROVE  /\ snd' = snd /\ kernel'[Slave] # "SENDING" /\ kernel'[Host] = kernel[Host]
         /\ \/ /\ f.type = "SYS" /\ f.msg = HANDSHAKE
               /\ ~Open /\ Open' /\ Rcvr'.count = 0 /\ Rcvr'.age = 0
               /\ send = <<Answer(ACK, f)>> /\ call = "none"
            \/ /\ f.type = "APP" /\ Open
               /\ send = IF f.needAck THEN <<Answer(ACK, f)>> ELSE <<>>
               /\ \/ Rcvr.count + 1 = f.total /\ ~Open' /\ call = "RECV_ALL_DATA"
                  \/ Open' /\ Rcvr'.count = Rcvr.count + 1 /\ call = "RECV_ONE_FRAME"
            \/ /\ send = <<>> /\ call = "none"
               /\ Open' <=> Open
               /\ Open' => Rcvr'.count = Rcvr.count /\ Rcvr'.age <= Rcvr.age
<1>1. Host \in Node /\ Slave \in Node /\ Host # Slave
  BY TwoNodes
<1>2. /\ kernel \in [Node -> KernelState] /\ kernel[Slave] # "SENDING"
      /\ rcv \in [Node -> Receiver] /\ Rcvr \in Receiver
      /\ Rcvr.state = "IDLE" => Rcvr = IdleReceiver
      /\ kernel[Slave] # "RECEIVING" => Rcvr = IdleReceiver
  BY <1>1 DEF TransferInv, LibInv, Roles, Rcvr
<1>3. CASE /\ kernel[Slave] = "IDLE" /\ ~(f.type = "SYS" /\ f.msg = HANDSHAKE)
           /\ send = <<>> /\ call = "none" /\ UNCHANGED <<kernel, snd, rcv>>
  BY <1>1, <1>2, <1>3 DEF Open, Rcvr, Receiver
<1>4. CASE /\ ReceiverHandleFrame(Slave, f, send, call) /\ snd' = snd
           /\ \/ kernel[Slave] = "IDLE" /\ kernel' = [kernel EXCEPT ![Slave] = "RECEIVING"]
              \/ kernel[Slave] = "RECEIVING" /\ kernel' = kernel
  <2>1. snd' = snd /\ kernel'[Slave] # "SENDING" /\ kernel'[Host] = kernel[Host]
    BY <1>1, <1>2, <1>4
  <2>2. CASE AcceptHandshake(Slave, f, send, call)
    <3>1. /\ Rcvr.state = "IDLE" /\ Rcvr.count = 0
          /\ f.type = "SYS" /\ f.msg = HANDSHAKE
          /\ send = <<Answer(ACK, f)>> /\ call = "none"
      BY <1>2, <2>2 DEF AcceptHandshake, IdleReceiver, Rcvr
    <3>2. Rcvr' = [Rcvr EXCEPT !.state = "RECVING", !.age = 0]
      BY <1>1, <1>2, <2>2 DEF AcceptHandshake, Rcvr
    <3> QED
      BY <1>2, <2>1, <3>1, <3>2 DEF Open, Receiver
  <2>3. CASE AcceptFrame(Slave, f, send, call)
    <3>1. /\ Rcvr.state = "RECVING" /\ f.type = "APP"
          /\ send = IF f.needAck THEN <<Answer(ACK, f)>> ELSE <<>>
      BY <2>3 DEF AcceptFrame, Rcvr
    <3>2. CASE Rcvr.count + 1 = f.total
      <4>1. Rcvr' = IdleReceiver /\ call = "RECV_ALL_DATA"
        BY <1>1, <1>2, <2>3, <3>2 DEF AcceptFrame, Rcvr
      <4> QED
        BY <2>1, <3>1, <3>2, <4>1 DEF Open, IdleReceiver
    <3>3. CASE Rcvr.count + 1 # f.total
      <4>1. Rcvr' = [Rcvr EXCEPT !.count = @ + 1, !.age = 0] /\ call = "RECV_ONE_FRAME"
        BY <1>1, <1>2, <2>3, <3>3 DEF AcceptFrame, Rcvr
      <4>2. Rcvr'.count = Rcvr.count + 1 /\ Rcvr'.state = Rcvr.state
        BY <1>2, <4>1 DEF Receiver
      <4> QED
        BY <2>1, <3>1, <4>1, <4>2 DEF Open
    <3> QED
      BY <3>2, <3>3
  <2>4. CASE ReceiverIgnores(Slave, f, send, call)
    <3>1. send = <<>> /\ call = "none" /\ Rcvr' = [Rcvr EXCEPT !.age = 0]
      BY <1>1, <1>2, <2>4 DEF ReceiverIgnores, Rcvr
    <3>2. Rcvr'.state = Rcvr.state /\ Rcvr'.count = Rcvr.count /\ Rcvr'.age <= Rcvr.age
      BY <1>2, <3>1 DEF Receiver
    <3> QED
      BY <2>1, <3>1, <3>2 DEF Open
  <2> QED
    BY <1>4, <2>2, <2>3, <2>4 DEF ReceiverHandleFrame
<1> QED
  BY <1>2, <1>3, <1>4 DEF KernelHandleFrame

\* A unit that the slave takes in a call of ltlpKernelParse.
SlaveTakes(u, age, send, call) ==
  /\ u = Outward[1] /\ u \in OutUnit /\ Pops
  /\ ParseUnit(Slave, u, age, send, call)
  /\ send \in SentByParse(Slave, u)
  /\ Homeward' = Homeward \o OnLine(send)
  /\ ReceiverCalls(u.frame, call)
  /\ HostRests /\ faults' = faults
  /\ kernel'[Slave] # "SENDING" /\ kernel'[Host] = kernel[Host]
  /\ parser'[Host] = parser[Host] /\ waiting' = waiting

LEMMA SlaveTakesUnit ==
  ASSUME TransferInv, Roles, line[Slave] # <<>>, NEW left, NEW age, ParseNext(Slave, left, age)
  PROVE  \E send, call : SlaveTakes(Outward[1], age, send, call)
<1>1. Host \in Node /\ Slave \in Node /\ Host # Slave /\ Other(Slave) = Host
  BY TwoNodes
<1>2. Outward # <<>> /\ Outward[1] = Head(line[Slave]) /\ Outward[1] \in OutUnit
  BY DEF Roles, Outward
<1>3. PICK send \in SentByParse(Slave, Outward[1]), call \in CallsOf(Slave) :
        /\ ParseUnit(Slave, Outward[1], age, send, call)
        /\ line' = [line EXCEPT ![Slave] = Tail(@), ![Other(Slave)] = @ \o OnLine(send)]
        /\ SenderCalls(Slave, call)
        /\ ReceiverCalls(Outward[1].frame, call)
  BY <1>2 DEF ParseNext
<1>4. asked' = asked /\ faults' = faults
  BY DEF ParseNext
<1>5. line \in [Node -> Seq(AskedUnit)]
  BY DEF TransferInv, LineInv
<1>6. Pops /\ Homeward' = Homeward \o OnLine(send)
  BY <1>1, <1>2, <1>3, <1>5 DEF Pops, Outward, Homeward
<1>7. waiting' = waiting
  BY <1>3 DEF ParseUnit
<1>8. /\ snd' = snd /\ kernel'[Slave] # "SENDING" /\ kernel'[Host] = kernel[Host]
  <2>1. \/ \E f : KernelHandleFrame(Slave, f, send, call)
        \/ UNCHANGED <<kernel, snd, rcv>>
    BY <1>3 DEF ParseUnit, ParseHeader, ParseNoise, ParsePayload, ParseGarbled
  <2> QED
    BY <2>1, SlaveHandles DEF Roles
<1>9. parser'[Host] = parser[Host]
  <2>1. parser \in [Node -> ParserState]
    BY DEF TransferInv, ParserInv
  <2> QED
    BY <1>1, <1>3, <2>1 DEF ParseUnit, ParseHeader, ParseNoise, ParsePayload, ParseGarbled, Finished
<1>10. status' = status
  <2>1. call \in {"none", "RECV_ONE_FRAME", "RECV_ALL_DATA", "RECV_TIMEOUT"}
    BY <1>3 DEF CallsOf, Roles
  <2> QED
    BY <1>3, <2>1 DEF SenderCalls
<1>11. HostRests
  BY <1>4, <1>7, <1>8, <1>10 DEF HostRests, Sndr, Waits
<1>12. SlaveTakes(Outward[1], age, send, call)
  BY <1>2, <1>3, <1>4, <1>6, <1>7, <1>8, <1>9, <1>11 DEF SlaveTakes
<1> QED
  BY <1>12

LEMMA SlaveTakesRoles ==
  ASSUME TransferInv, Roles, NEW u, NEW age, NEW send, NEW call, SlaveTakes(u, age, send, call)
  PROVE  Roles'
<1>1. Host \in Node /\ Slave \in Node /\ Host # Slave
  BY TwoNodes
<1>2. u \in OutUnit /\ u.frame \in Frame /\ (u.frame.type = "APP" \/ u.frame.type = "SYS")
  BY DEF SlaveTakes, OutUnit, Unit, Frame
<1>3. /\ parser \in [Node -> ParserState]
      /\ Held \in ParserState
  BY <1>1 DEF TransferInv, ParserInv, Held
<1>4. Outward' \in Seq(OutUnit)
  BY DEF SlaveTakes, Pops, Roles
<1>5. Homeward' \in Seq(HomeUnit)
  <2>1. send = <<>> \/ \E f \in Frame, msg \in {ACK, NACK} : send = <<Answer(msg, f)>>
    BY <1>2, <1>3 DEF SlaveTakes, SentByParse, ParserState, Held
  <2>2. OnLine(send) \in Seq(HomeUnit)
    <3>1. CASE send = <<>>
      BY <3>1 DEF OnLine
    <3>2. CASE \E f \in Frame, msg \in {ACK, NACK} : send = <<Answer(msg, f)>>
      <4>1. PICK f \in Frame, msg \in {ACK, NACK} : send = <<Answer(msg, f)>>
        BY <3>2
      <4>2. OnLine(send) = <<AnswerUnit(msg, f)>> /\ AnswerUnit(msg, f) \in HomeUnit
        BY <4>1, AnswerOnLine
      <4> QED
        BY <4>2
    <3> QED
      BY <2>1, <3>1, <3>2
  <2>3. Homeward \in Seq(HomeUnit) /\ Homeward' = Homeward \o OnLine(send)
    BY DEF Roles, SlaveTakes
  <2> DEFINE more == OnLine(send)
             S == HomeUnit
  <2> HIDE DEF more, S
  <2>4. Homeward \o more \in Seq(S)
    BY <2>2, <2>3 DEF more, S
  <2> QED
    BY <2>3, <2>4 DEF more, S
<1>6. Holding' => Held'.frame.type = "APP"
  <2>1. ParseUnit(Slave, u, age, send, call)
    BY DEF SlaveTakes
  <2>2. CASE ParseHeader(Slave, u, age, send, call)
    BY <1>1, <1>3, <2>2 DEF ParseHeader, Finished, EmptyParser, Held, Holding
  <2>3. CASE ParseNoise(Slave, u, send, call)
    BY <2>3 DEF ParseNoise, Held, Holding
  <2>4. CASE ParsePayload(Slave, u, send, call)
    BY <1>1, <1>3, <2>4 DEF ParsePayload, Finished, EmptyParser, Held, Holding
  <2>5. CASE ParseGarbled(Slave, u, age, send, call)
    <3>1. \/ Held' = EmptyParser
          \/ Held' = [Held EXCEPT !.spoiled = TRUE, !.age = age]
      BY <1>1, <1>3, <2>5 DEF ParseGarbled, Finished, Held
    <3>2. Held.frame.type = "APP"
      BY <2>5 DEF ParseGarbled, Roles, Holding, Held
    <3>3. CASE Held' = EmptyParser
      BY <3>3 DEF EmptyParser, Holding
    <3>4. CASE Held' = [Held EXCEPT !.spoiled = TRUE, !.age = age]
      <4>1. Held'.frame = Held.frame
        BY <1>3, <3>4 DEF ParserState
      <4> QED
        BY <3>2, <4>1
    <3> QED
      BY <3>1, <3>3, <3>4
  <2> QED
    BY <2>1, <2>2, <2>3, <2>4, <2>5 DEF ParseUnit
<1>7. /\ kernel'[Slave] # "SENDING" /\ waiting'[Slave] = NoJob
      /\ kernel'[Host] # "RECEIVING" /\ parser'[Host].state = "HEADER"
      /\ faults' \in [Transfers -> [Kinds -> Nat]]
  BY DEF SlaveTakes, Roles
<1> QED
  BY <1>4, <1>5, <1>6, <1>7 DEF Roles

\* One more answer, on its way home.
LEMMA OneAnswer ==
  ASSUME NEW f \in Frame, NEW msg \in {ACK, NACK}, Roles,
         Homeward' = Homeward \o OnLine(<<Answer(msg, f)>>)
  PROVE  /\ Replies(AnswerUnit(msg, f))
         /\ IsAck(AnswerUnit(msg, f)) <=> msg = ACK
         /\ AnswerUnit(msg, f).age = 0 /\ AnswerUnit(msg, f).frame.job = f.job
<1> DEFINE v == AnswerUnit(msg, f)
<1>1. /\ OnLine(<<Answer(msg, f)>>) = <<v>> /\ v \in HomeUnit
      /\ IsAck(v) <=> msg = ACK
      /\ v.age = 0 /\ v.frame.job = f.job
  BY AnswerOnLine
<1>2. Homeward \in Seq(HomeUnit)
  BY DEF Roles
<1>3. Homeward' = Homeward \o <<v>>
  BY <1>1
<1> HIDE DEF v
<1>4. Homeward' = Append(Homeward, v)
  BY <1>1, <1>2, <1>3
<1> QED
  BY <1>1, <1>4 DEF Replies, v

LEMMA NoAnswer ==
  ASSUME Roles, Homeward' = Homeward \o OnLine(<<>>)
  PROVE  Homeward' = Homeward
  BY DEF OnLine, Roles

LEMMA SlaveTakesHeader ==
  ASSUME TransferInv, Roles, LinkTyped, LinkTyped', LinkOK, EndOK, Listening,
         NEW u, NEW age, NEW send, NEW call, SlaveTakes(u, age, send, call),
         ParseHeader(Slave, u, age, send, call)
  PROVE  Kept /\ Listening'
<1>1. Slave \in Node /\ parser \in [Node -> ParserState] /\ rcv \in [Node -> Receiver]
  BY TwoNodes DEF TransferInv, ParserInv, LibInv
<1>2. /\ u = Outward[1] /\ u \in OutUnit /\ Pops
      /\ Homeward' = Homeward \o OnLine(send)
      /\ ReceiverCalls(u.frame, call)
      /\ HostRests /\ faults' = faults /\ asked' = asked /\ status' = status
  BY DEF SlaveTakes, HostRests
<1>3. u.frame \in Frame /\ Held.state = "HEADER" /\ u.part = "header" /\ ~Holding
  BY <1>2 DEF OutUnit, Unit, ParseHeader, Held, Holding
<1>4. CASE u.frame.type = "APP"
  <2>1. /\ send = <<>> /\ call = "none" /\ Rcvr' = Rcvr
        /\ Held' = [state |-> "PAYLOAD", frame |-> u.frame, spoiled |-> FALSE, age |-> age]
    BY <1>1, <1>4 DEF ParseHeader, Held, Rcvr
  <2>2. delivered' = delivered /\ reported' = reported
    BY <1>2, <2>1 DEF ReceiverCalls
  <2>3. Homeward' = Homeward
    BY <1>2, <2>1, NoAnswer
  <2>4. Holding' /\ Held'.frame = u.frame
    BY <2>1 DEF Holding
  <2>5. TakesHeader
    BY <1>2, <1>3, <1>4, <2>1, <2>2, <2>3, <2>4 DEF TakesHeader, IsHead, IsApp
  <2> QED
    BY <1>2, <2>2, <2>5, TakesHeaderKeeps, NothingNoted
<1>5. CASE u.frame.type # "APP"
  <2>1. KernelHandleFrame(Slave, u.frame, send, call) /\ Held' = EmptyParser
    BY <1>1, <1>5 DEF ParseHeader, Finished, Held
  <2>2. ~Holding'
    BY <2>1 DEF Holding, EmptyParser
  <2>3. CASE /\ ~Open /\ Open' /\ Rcvr'.count = 0 /\ Rcvr'.age = 0
             /\ send = <<Answer(ACK, u.frame)>> /\ call = "none"
    <3>1. delivered' = delivered /\ reported' = reported
      BY <1>2, <2>3 DEF ReceiverCalls
    <3> DEFINE a == AnswerUnit(ACK, u.frame)
    <3>2. Replies(a) /\ IsAck(a) /\ a.age = 0
      BY <1>2, <1>3, <2>3, OneAnswer
    <3> HIDE DEF a
    <3>3. Accepts(a)
      BY <1>2, <1>3, <1>5, <2>2, <2>3, <3>1, <3>2 DEF Accepts, IsApp
    <3> QED
      BY <1>2, <3>1, <3>3, AcceptsKeeps, NothingNoted
  <2>4. CASE /\ send = <<>> /\ call = "none"
             /\ Open' <=> Open
             /\ Open' => Rcvr'.count = Rcvr.count /\ Rcvr'.age <= Rcvr.age
    <3>1. delivered' = delivered /\ reported' = reported /\ Homeward' = Homeward
      BY <1>2, <2>4, NoAnswer DEF ReceiverCalls
    <3>2. Forgets
      BY <2>2, <2>4 DEF Forgets
    <3> QED
      BY <1>2, <2>4, <3>1, <3>2, PassesOver
  <2> QED
    BY <1>5, <2>1, <2>3, <2>4, SlaveHandles
<1> QED
  BY <1>4, <1>5

LEMMA SlaveTakesPayload ==
  ASSUME TransferInv, Roles, LinkTyped, LinkTyped', LinkOK, EndOK, Listening,
         NEW u, NEW age, NEW send, NEW call, SlaveTakes(u, age, send, call),
         ParsePayload(Slave, u, send, call)
  PROVE  Kept /\ Listening'
<1>1. Slave \in Node /\ parser \in [Node -> ParserState] /\ rcv \in [Node -> Receiver]
  BY TwoNodes DEF TransferInv, ParserInv, LibInv
<1> DEFINE f == Held.frame
<1>2. /\ u = Outward[1] /\ Pops
      /\ Homeward' = Homeward \o OnLine(send)
      /\ ReceiverCalls(u.frame, call)
      /\ HostRests /\ faults' = faults /\ asked' = asked /\ status' = status
  BY DEF SlaveTakes, HostRests
<1>3. /\ Holding /\ u.part = "payload" /\ u.frame = f /\ f \in Frame
      /\ f.type = "APP"
      /\ KernelHandleFrame(Slave, f, send, call) /\ Held' = EmptyParser
  BY <1>1 DEF ParsePayload, Finished, Held, Holding, Roles, ParserState
<1>4. ~Holding'
  BY <1>3 DEF Holding, EmptyParser
<1>5. CASE /\ Open
           /\ send = IF f.needAck THEN <<Answer(ACK, f)>> ELSE <<>>
           /\ \/ Rcvr.count + 1 = f.total /\ ~Open' /\ call = "RECV_ALL_DATA"
              \/ Open' /\ Rcvr'.count = Rcvr.count + 1 /\ call = "RECV_ONE_FRAME"
  <2> DEFINE a == AnswerUnit(ACK, f)
  <2>1. /\ delivered' = [delivered EXCEPT ![f.job] = @ \union {f.seq}]
        /\ reported' = reported \/ (Rcvr.count + 1 = f.total /\ reported' = reported \union {f.job})
    BY <1>2, <1>3, <1>5 DEF ReceiverCalls
  <2>2. IF f.needAck THEN Replies(a) /\ IsAck(a) /\ a.age = 0 /\ a.frame.job = f.job
        ELSE Homeward' = Homeward
    <3>1. CASE f.needAck
      BY <1>2, <1>3, <1>5, <3>1, OneAnswer
    <3>2. CASE ~f.needAck
      BY <1>2, <1>5, <3>2, NoAnswer
    <3> QED
      BY <3>1, <3>2
  <2>3. ~IsHead(Outward[1])
    BY <1>2, <1>3 DEF IsHead
  <2> HIDE DEF a
  <2>4. Delivers(a)
    BY <1>2, <1>3, <1>4, <1>5, <2>1, <2>2, <2>3 DEF Delivers
  <2> QED
    BY <2>1, <2>4, DeliversKept
<1>6. CASE /\ send = <<>> /\ call = "none"
           /\ Open' <=> Open
           /\ Open' => Rcvr'.count = Rcvr.count /\ Rcvr'.age <= Rcvr.age
  <2>1. delivered' = delivered /\ reported' = reported /\ Homeward' = Homeward
    BY <1>2, <1>6, NoAnswer DEF ReceiverCalls
  <2>2. Forgets
    BY <1>4, <1>6 DEF Forgets
  <2> QED
    BY <1>2, <1>6, <2>1, <2>2, PassesOver
<1> QED
  BY <1>3, <1>5, <1>6, SlaveHandles

LEMMA SlaveTakesOther ==
  ASSUME TransferInv, Roles, LinkTyped, LinkTyped', LinkOK, EndOK, Listening,
         NEW u, NEW age, NEW send, NEW call, SlaveTakes(u, age, send, call),
         ParseNoise(Slave, u, send, call) \/ ParseGarbled(Slave, u, age, send, call)
  PROVE  Kept /\ Listening'
<1>1. Slave \in Node /\ parser \in [Node -> ParserState] /\ Held \in ParserState
  BY TwoNodes DEF TransferInv, ParserInv, Held
<1>2. /\ Pops /\ call = "none"
      /\ Homeward' = Homeward \o OnLine(send)
      /\ ReceiverCalls(u.frame, call)
      /\ HostRests /\ faults' = faults /\ asked' = asked /\ status' = status
  BY DEF SlaveTakes, HostRests, ParseNoise, ParseGarbled
<1>3. Rcvr' = Rcvr /\ (Open' <=> Open)
  BY DEF ParseNoise, ParseGarbled, Rcvr, Open
<1>4. delivered' = delivered /\ reported' = reported
  BY <1>2 DEF ReceiverCalls
<1>5. ASSUME send = <<>>, Holding' => Holding /\ Held'.frame = Held.frame
      PROVE  Kept /\ Listening'
  <2>1. Homeward' = Homeward
    BY <1>2, <1>5, NoAnswer
  <2>2. Forgets
    <3>1. Rcvr.age \in Nat
      BY UnitsAreUnits DEF UnitFacts
    <3> QED
      BY <1>3, <1>5, <3>1 DEF Forgets
  <2> QED
    BY <1>2, <1>3, <1>4, <2>1, <2>2, PassesOver
<1>6. CASE ParseNoise(Slave, u, send, call)
  <2>1. send = <<>> /\ Held' = Held
    BY <1>6 DEF ParseNoise, Held
  <2>2. Holding' => Holding /\ Held'.frame = Held.frame
    BY <2>1 DEF Holding
  <2> QED
    BY <1>5, <2>1, <2>2
<1>7. CASE ParseGarbled(Slave, u, age, send, call)
  <2>1. Holding /\ Held.frame \in Frame
    BY <1>1, <1>7 DEF ParseGarbled, Holding, Held, ParserState
  <2>2. CASE send = <<Answer(NACK, Held.frame)>> /\ Finished(Slave)
    <3>1. ~Holding'
      BY <1>1, <2>2 DEF Finished, Holding, Held, EmptyParser
    <3> DEFINE a == AnswerUnit(NACK, Held.frame)
    <3>2. Replies(a) /\ ~IsAck(a) /\ a.age = 0
      <4>1. NACK # ACK
        BY DEF NACK, ACK
      <4> QED
        BY <1>2, <2>1, <2>2, <4>1, OneAnswer
    <3> HIDE DEF a
    <3>3. Nacks(a)
      BY <1>2, <1>3, <1>4, <2>1, <3>1, <3>2 DEF Nacks
    <3> QED
      BY <1>2, <1>4, <3>3, NacksKeeps, NothingNoted
  <2>3. CASE /\ send = <<>>
             /\ parser' = [parser EXCEPT ![Slave].spoiled = TRUE, ![Slave].age = age]
    <3>1. Held' = [Held EXCEPT !.spoiled = TRUE, !.age = age]
      BY <1>1, <2>3 DEF Held
    <3>2. Held'.frame = Held.frame
      BY <1>1, <3>1 DEF ParserState
    <3> QED
      BY <1>5, <2>1, <2>3, <3>2
  <2> QED
    BY <1>7, <2>2, <2>3 DEF ParseGarbled, Held
<1> QED
  BY <1>6, <1>7

LEMMA SlaveParsesKept ==
  ASSUME TransferInv, TransferInv', Roles, LinkOK, EndOK, Listening, Parse(Slave)
  PROVE  Roles' /\ Kept /\ Listening'
<1>1. PICK left, age : ParseNext(Slave, left, age)
  BY DEF Parse
<1>2. line[Slave] # <<>>
  BY DEF Parse
<1>3. PICK send, call : SlaveTakes(Outward[1], age, send, call)
  BY <1>1, <1>2, SlaveTakesUnit
<1> DEFINE u == Outward[1]
<1> HIDE DEF u
<1>4. SlaveTakes(u, age, send, call)
  BY <1>3 DEF u
<1>5. Roles'
  BY <1>4, SlaveTakesRoles
<1>6. LinkTyped /\ LinkTyped'
  BY <1>5, LinkIsTyped, LinkStaysTyped
<1>7. ParseUnit(Slave, u, age, send, call)
  BY <1>4 DEF SlaveTakes
<1> QED
  BY <1>4, <1>5, <1>6, <1>7, SlaveTakesHeader, SlaveTakesPayload, SlaveTakesOther
  DEF ParseUnit

-----------------------------------------------------------------------------
(* The host takes an answer.                                               *)
HostTakes(u, call) ==
  /\ u = Homeward[1] /\ u \in HomeUnit /\ TakesAnswer
  /\ \/ kernel[Host] = "SENDING" /\ SenderHandleSysFrame(Host, u.frame, call)
     \/ kernel[Host] = "IDLE" /\ snd' = snd /\ call = "none"
  /\ SenderCalls(Host, call)
  /\ SlaveRests /\ Outward' = Outward /\ faults' = faults
  /\ asked' = asked /\ Waits' = Waits /\ reported' = reported
  /\ kernel' = kernel /\ waiting' = waiting
  /\ parser'[Host].state = "HEADER"

LEMMA HostTakesAnswer ==
  ASSUME TransferInv, Roles, line[Host] # <<>>, NEW left, NEW age, ParseNext(Host, left, age)
  PROVE  \E call : HostTakes(Homeward[1], call)
<1>1. Host \in Node /\ Slave \in Node /\ Host # Slave /\ Other(Host) = Slave
  BY TwoNodes
<1>2. Homeward # <<>> /\ Homeward[1] = Head(line[Host]) /\ Homeward[1] \in HomeUnit
  BY DEF Roles, Homeward
<1> DEFINE u == Homeward[1]
<1>3. PICK send \in SentByParse(Host, u), call \in CallsOf(Host) :
        /\ ParseUnit(Host, u, age, send, call)
        /\ line' = [line EXCEPT ![Host] = Tail(@), ![Other(Host)] = @ \o OnLine(send)]
        /\ SenderCalls(Host, call)
        /\ ReceiverCalls(u.frame, call)
  BY <1>2 DEF ParseNext
<1>4. asked' = asked /\ faults' = faults
  BY DEF ParseNext
<1>5. u.part = "header" /\ u.frame.type = "SYS" /\ u.frame.msg # HANDSHAKE
  BY <1>2 DEF HomeUnit, ACK, NACK, HANDSHAKE
<1> HIDE DEF u
<1>6. KernelHandleFrame(Host, u.frame, send, call) /\ Finished(Host) /\ waiting' = waiting
  BY <1>3, <1>5 DEF ParseUnit, ParseHeader, ParseNoise, ParsePayload, ParseGarbled, Roles
<1>7. /\ send = <<>> /\ UNCHANGED <<kernel, rcv>>
      /\ \/ kernel[Host] = "SENDING" /\ SenderHandleSysFrame(Host, u.frame, call)
         \/ kernel[Host] = "IDLE" /\ snd' = snd /\ call = "none"
  BY <1>5, <1>6 DEF KernelHandleFrame, Roles
<1>8. call \notin {"RECV_ONE_FRAME", "RECV_ALL_DATA"}
  BY <1>3, <1>7 DEF CallsOf
<1>9. delivered' = delivered /\ reported' = reported
  BY <1>3, <1>8 DEF ReceiverCalls
<1>10. line \in [Node -> Seq(AskedUnit)] /\ parser \in [Node -> ParserState]
       /\ Outward \in Seq(OutUnit)
  BY DEF TransferInv, LineInv, ParserInv, Roles
<1>11. TakesAnswer /\ Outward' = Outward
  <2>1. Homeward' = Tail(Homeward)
    BY <1>1, <1>3, <1>10 DEF Homeward
  <2>2. Outward' = Outward \o <<>>
    BY <1>1, <1>3, <1>7, <1>10 DEF Outward, OnLine
  <2> QED
    BY <1>2, <1>10, <2>1, <2>2 DEF TakesAnswer
<1>12. SlaveRests /\ parser'[Host].state = "HEADER"
  BY <1>1, <1>6, <1>7, <1>9, <1>10 DEF SlaveRests, Rcvr, Held, Finished, EmptyParser
<1>13. Waits' = Waits
  BY <1>6 DEF Waits
<1>14. HostTakes(u, call)
  BY <1>2, <1>3, <1>4, <1>6, <1>7, <1>9, <1>11, <1>12, <1>13 DEF HostTakes, u
<1> QED
  BY <1>14 DEF u

LEMMA HostTakesRoles ==
  ASSUME TransferInv, Roles, NEW u, NEW call, HostTakes(u, call)
  PROVE  Roles'
<1>1. Homeward' \in Seq(HomeUnit)
  BY DEF HostTakes, TakesAnswer, Roles
<1> QED
  BY <1>1 DEF HostTakes, Roles, SlaveRests, Holding

\* An answer is ignored by a sender at rest, or one that has a frame to send.
LEMMA HostIgnores ==
  ASSUME LinkTyped, LinkTyped', LinkOK, EndOK, NEW u, NEW call, HostTakes(u, call),
         snd' = snd, status' = status, Sndr.state \in {"IDLE", "SENDING"}
  PROVE  Kept /\ (Listening => Listening')
<1> DEFINE g == [i \in 1 .. Len(Homeward') |-> i + 1]
<1>1. AnswerGaps
  BY AnswerFacts DEF HostTakes
<1>2. /\ \A i \in 1 .. Len(Homeward') : i + 1 \in 1 .. Len(Homeward) /\ Homeward'[i] = Homeward[i + 1]
      /\ Len(Homeward') \in Nat
  BY <1>1, UnitsStayUnits DEF AnswerGaps, UnitFacts
<1>3. /\ g \in [1 .. Len(Homeward') -> 1 .. Len(Homeward)]
      /\ \A i \in 1 .. Len(Homeward') : Homeward'[i] = Homeward[g[i]]
      /\ \A i, j \in 1 .. Len(Homeward') : i < j => g[i] < g[j]
  BY <1>2
<1> HIDE DEF g
<1>4. ~(Connected /\ Sndr.job.needAck)
  BY DEF HostTakes, TakesAnswer, LinkOK, AckedOK, Connected
<1>5. HostRests /\ SlaveRests /\ Outward' = Outward /\ faults' = faults /\ reported' = reported
  BY DEF HostTakes, HostRests, Sndr
<1>6. AnswerGone(g)
  BY <1>3, <1>4, <1>5 DEF AnswerGone, AnswerLost
<1> QED
  BY <1>5, <1>6, AnswerGoneKept

LEMMA HostTakesKept ==
  ASSUME TransferInv, LinkTyped, LinkTyped', LinkOK, EndOK, NEW u, NEW call, HostTakes(u, call)
  PROVE  Kept /\ (Listening => Listening')
<1>1. Host \in Node /\ snd \in [Node -> Sender] /\ Sndr \in Sender
  BY TwoNodes DEF TransferInv, LibInv, Sndr
<1>2. /\ u = Homeward[1] /\ u \in HomeUnit /\ TakesAnswer
      /\ SlaveRests /\ Outward' = Outward /\ faults' = faults
      /\ asked' = asked /\ Waits' = Waits /\ reported' = reported
      /\ delivered' = delivered
      /\ SenderCalls(Host, call)
  BY DEF HostTakes, SlaveRests
<1>3. call = "none" => status' = status
  BY <1>2 DEF SenderCalls
<1>4. call \in {"SEND_ERROR", "HANDSHAKE_ERROR"} => status' = [status EXCEPT ![Current] = "failed"]
  BY <1>2 DEF SenderCalls, Current, Sndr
<1>5. call = "SEND_ALL_DATA_DONE" => status' = [status EXCEPT ![Current] = "done"]
  BY <1>2 DEF SenderCalls, Current, Sndr
<1>6. GiveUp(Host) => Sndr' = IdleSender
  BY <1>1 DEF GiveUp, Sndr
<1>7. AnswerGaps
  BY <1>2, AnswerFacts
\* Of frames that are acknowledged there is one answer at a time.
<1>8. ASSUME Connected, Sndr.state = "WAIT_ACK"
      PROVE  Sndr.job.needAck /\ Homeward' = <<>> /\ ~Holding /\ NoHead
  <2>1. Sndr.job.needAck /\ Len(Homeward) <= 1 /\ ~Holding /\ NoHead
    BY <1>2, <1>8 DEF LinkOK, SenderOK, AckedOK, TakesAnswer
  <2> QED
    BY <1>7, <2>1 DEF AnswerGaps
<1>9. CASE HandshakeAnswered(Host, u.frame, call)
  <2>1. /\ Sndr.state = "HANDSHAKE" /\ IsAck(u) /\ status' = status
        /\ Sndr' = [Sndr EXCEPT !.state = "SENDING", !.age = 0]
    BY <1>1, <1>3, <1>9 DEF HandshakeAnswered, Sndr, IsAck
  <2>2. Sndr'.state = "SENDING" /\ Sndr'.job = Sndr.job /\ Sndr'.sent = Sndr.sent
        /\ Sndr'.tries = Sndr.tries /\ Sndr'.age = 0
    BY <1>1, <2>1 DEF Sender
  <2>3. Answered
    BY <1>2, <2>1, <2>2 DEF Answered
  <2> QED
    BY <1>2, <2>1, <2>3, AnsweredKeeps, NothingNoted
<1>10. CASE HandshakeRefused(Host, u.frame, call)
  <2>1. Sndr.state = "HANDSHAKE" /\ Sndr' = IdleSender /\ call = "HANDSHAKE_ERROR"
    BY <1>6, <1>10 DEF HandshakeRefused, Sndr
  <2>2. Ends("failed")
    BY <1>2, <1>4, <2>1 DEF Ends, Connected
  <2> QED
    BY <1>2, <2>2, EndsKept
<1>11. CASE FrameAcked(Host, u.frame, call)
  <2>1. Sndr.state = "WAIT_ACK" /\ IsAck(u) /\ NextFrame(Host, call)
    BY <1>11 DEF FrameAcked, Sndr, IsAck
  <2>2. Connected /\ Sndr.job.needAck /\ Homeward' = <<>>
    BY <1>8, <2>1 DEF Connected
  <2>3. AckComes
    BY <1>2, <2>1, <2>2 DEF AckComes
  <2>4. AckFacts
    BY <2>3, AckHasFacts
  <2>5. CASE Sndr.sent + 1 = Sndr.job.total
    <3>1. Sndr' = IdleSender /\ call = "SEND_ALL_DATA_DONE"
      BY <1>1, <2>1, <2>5 DEF NextFrame, Sndr
    <3>2. delivered[Current] = 0 .. Sndr.job.total - 1
      <4>1. Sndr.sent \in Nat /\ delivered[Current] = 0 .. Sndr.sent
        BY <1>1, <2>4 DEF Sender, AckFacts
      <4>2. Sndr.job.total - 1 = Sndr.sent
        BY <2>5, <4>1
      <4> QED
        BY <4>1, <4>2
    <3>3. Ends("done")
      BY <1>2, <1>5, <2>1, <2>2, <2>4, <3>1, <3>2 DEF Ends, AckFacts
    <3> QED
      BY <1>2, <3>3, EndsKept
  <2>6. CASE Sndr.sent + 1 # Sndr.job.total
    <3>1. /\ Sndr' = [Sndr EXCEPT !.sent = @ + 1, !.tries = 0, !.age = 0, !.state = "SENDING"]
          /\ call = "none"
      BY <1>1, <2>1, <2>6 DEF NextFrame, Sndr
    <3>2. Sndr'.state = "SENDING" /\ Sndr'.job = Sndr.job /\ Sndr'.sent = Sndr.sent + 1
          /\ Sndr'.tries = 0 /\ Sndr'.age = 0
      BY <1>1, <3>1 DEF Sender
    <3>3. Connected'
      BY <3>2 DEF Connected
    <3>4. GoesToNext
      BY <1>2, <1>3, <2>2, <2>3, <2>6, <3>1, <3>2, <3>3 DEF GoesToNext, HostGoesOn
    <3> QED
      BY <1>2, <1>3, <3>1, <3>4, GoesToNextKeeps, NothingNoted
  <2> QED
    BY <2>5, <2>6
<1>12. CASE FrameNacked(Host, u.frame, call)
  <2>1. Sndr.state = "WAIT_ACK" /\ ~IsAck(u)
    BY <1>12 DEF FrameNacked, Sndr, IsAck, ACK, NACK
  <2>2. Connected /\ Sndr.job.needAck /\ Homeward' = <<>> /\ ~Holding /\ NoHead
    BY <1>8, <2>1 DEF Connected
  <2>3. CASE Sndr.tries + 1 <= MaxRetry
    <3>1. /\ Sndr' = [Sndr EXCEPT !.tries = @ + 1, !.age = 0, !.state = "SENDING"]
          /\ call = "none"
      BY <1>1, <1>12, <2>3 DEF FrameNacked, Sndr
    <3>2. Sndr'.state = "SENDING" /\ Sndr'.job = Sndr.job /\ Sndr'.sent = Sndr.sent
          /\ Sndr'.seq = Sndr.seq /\ Sndr'.tries >= Sndr.tries /\ Sndr'.age = 0
      BY <1>1, <3>1 DEF Sender
    <3>3. NoAck
      <4>1. Len(Homeward) <= 1 /\ 1 \in 1 .. Len(Homeward) /\ Len(Homeward) \in Nat
        BY <1>2, <1>7, <2>1, <2>2 DEF AnswerGaps, LinkOK, AckedOK
      <4>2. \A i \in 1 .. Len(Homeward) : i = 1
        BY <4>1
      <4> QED
        BY <1>2, <2>1, <4>2 DEF NoAck
    <3>4. Connected'
      BY <3>2 DEF Connected
    <3>5. Resends
      BY <1>2, <1>3, <2>1, <2>2, <3>1, <3>2, <3>3, <3>4 DEF Resends, HostGoesOn
    <3> QED
      BY <1>2, <1>3, <3>1, <3>5, ResendsKeeps, NothingNoted
  <2>4. CASE ~(Sndr.tries + 1 <= MaxRetry)
    <3>1. Sndr' = IdleSender /\ call = "SEND_ERROR"
      BY <1>6, <1>12, <2>4 DEF FrameNacked, Sndr
    <3>2. Ends("failed")
      BY <1>2, <1>4, <2>1, <2>2, <3>1 DEF Ends
    <3> QED
      BY <1>2, <3>2, EndsKept
  <2> QED
    BY <2>3, <2>4
<1>13. CASE SenderIgnores(Host, u.frame, call)
  <2>1. snd' = snd /\ call = "none" /\ Sndr.state \in {"IDLE", "SENDING"}
    BY <1>2, <1>13 DEF SenderIgnores, Sndr, HomeUnit
  <2> QED
    BY <1>3, <2>1, HostIgnores
<1>14. CASE kernel[Host] = "IDLE" /\ snd' = snd /\ call = "none"
  <2>1. Sndr.state = "IDLE"
    BY <1>1, <1>14, IdleRecords DEF TransferInv, LibInv, Sndr
  <2> QED
    BY <1>3, <1>14, <2>1, HostIgnores
<1> QED
  BY <1>9, <1>10, <1>11, <1>12, <1>13, <1>14 DEF HostTakes, SenderHandleSysFrame

LEMMA HostParsesKept ==
  ASSUME TransferInv, TransferInv', Roles, LinkOK, EndOK, Parse(Host)
  PROVE  Roles' /\ Kept /\ (Listening => Listening')
<1>1. PICK left, age : ParseNext(Host, left, age)
  BY DEF Parse
<1>2. line[Host] # <<>>
  BY DEF Parse
<1>3. PICK call : HostTakes(Homeward[1], call)
  BY <1>1, <1>2, HostTakesAnswer
<1> DEFINE u == Homeward[1]
<1> HIDE DEF u
<1>4. HostTakes(u, call)
  BY <1>3 DEF u
<1>5. Roles'
  BY <1>4, HostTakesRoles
<1>6. LinkTyped /\ LinkTyped'
  BY <1>5, LinkIsTyped, LinkStaysTyped
<1> QED
  BY <1>4, <1>5, <1>6, HostTakesKept

-----------------------------------------------------------------------------
(* The host's ltlpKernelRun.                                               *)
HandshakeUnit(job) ==
  [part |-> "header", frame |-> SysFrame(HANDSHAKE, job), intact |-> TRUE, age |-> 0]

DataUnit(part, job, seq) ==
  [part |-> part, frame |-> AppFrame(job, seq), intact |-> TRUE, age |-> 0]

LEMMA HandshakeOnLine ==
  ASSUME NEW job \in JobRecord
  PROVE  /\ Units(SysFrame(HANDSHAKE, job)) = <<HandshakeUnit(job)>>
         /\ OnLine(<<SysFrame(HANDSHAKE, job)>>) = <<HandshakeUnit(job)>>
         /\ HandshakeUnit(job) \in OutUnit
         /\ ~IsApp(HandshakeUnit(job)) /\ HandshakeUnit(job).age = 0
<1> DEFINE f == SysFrame(HANDSHAKE, job)
<1>1. f \in Frame /\ f.type = "SYS" /\ f.msg = HANDSHAKE
  BY SysFrames DEF SysFrame, HANDSHAKE
<1> HIDE DEF f
<1>2. [part |-> "header", frame |-> f, intact |-> TRUE, age |-> 0] \in OutUnit
  BY <1>1, DelayAssumption DEF OutUnit, Unit
<1>3. Units(f) = <<[part |-> "header", frame |-> f, intact |-> TRUE, age |-> 0]>>
  BY <1>1 DEF Units
<1>4. <<f>> # <<>> /\ <<f>>[1] = f
  OBVIOUS
<1>5. OnLine(<<f>>) = Units(f)
  BY <1>4 DEF OnLine
<1> QED
  BY <1>1, <1>2, <1>3, <1>5 DEF HandshakeUnit, IsApp, f

LEMMA DataOnLine ==
  ASSUME NEW job \in JobRecord, NEW seq \in Nat
  PROVE  /\ OnLine(<<AppFrame(job, seq)>>) =
              <<DataUnit("header", job, seq), DataUnit("payload", job, seq)>>
         /\ DataUnit("header", job, seq) \in OutUnit
         /\ DataUnit("payload", job, seq) \in OutUnit
<1> DEFINE f == AppFrame(job, seq)
<1>1. f \in Frame /\ f.type = "APP"
  BY DEF AppFrame, Frame, JobRecord
<1> HIDE DEF f
<1>2. \A part \in {"header", "payload"} :
        [part |-> part, frame |-> f, intact |-> TRUE, age |-> 0] \in OutUnit
  BY <1>1, DelayAssumption DEF OutUnit, Unit
<1>3. Units(f) = <<[part |-> "header", frame |-> f, intact |-> TRUE, age |-> 0],
                   [part |-> "payload", frame |-> f, intact |-> TRUE, age |-> 0]>>
  BY <1>1 DEF Units
<1>4. <<f>> # <<>> /\ <<f>>[1] = f
  OBVIOUS
<1>5. OnLine(<<f>>) = Units(f)
  BY <1>4 DEF OnLine
<1> QED
  BY <1>2, <1>3, <1>5 DEF DataUnit, f

HostRuns(send, call) ==
  /\ KernelRun(Host, send, call)
  /\ SenderCalls(Host, call)
  /\ Outward' = Outward \o OnLine(send)
  /\ Homeward' = Homeward /\ SlaveRests /\ faults' = faults
  /\ asked' = asked /\ reported' = reported

LEMMA HostRunsOnce ==
  ASSUME TransferInv, TransferInv', Roles, Run(Host)
  PROVE  Roles' /\ \E send, call : HostRuns(send, call)
<1>1. Host \in Node /\ Slave \in Node /\ Host # Slave /\ Other(Host) = Slave
  BY TwoNodes
<1>2. PICK send \in SentByRun(Host), call \in CallsOf(Host) :
        /\ KernelRun(Host, send, call)
        /\ line' = [line EXCEPT ![Slave] = @ \o OnLine(send)]
        /\ SenderCalls(Host, call)
  BY <1>1 DEF Run
<1>3. asked' = asked /\ delivered' = delivered /\ reported' = reported /\ faults' = faults
  BY DEF Run
<1>4. /\ line \in [Node -> Seq(AskedUnit)] /\ parser \in [Node -> ParserState]
      /\ kernel \in [Node -> KernelState] /\ snd \in [Node -> Sender]
      /\ rcv \in [Node -> Receiver] /\ waiting \in [Node -> JobRecord]
  BY DEF TransferInv, LineInv, ParserInv, LibInv, JobsAsked
<1>5. Outward' = Outward \o OnLine(send) /\ Homeward' = Homeward
  BY <1>1, <1>2, <1>4 DEF Outward, Homeward
<1>6. /\ rcv'[Slave] = rcv[Slave] /\ parser'[Slave] = parser[Slave]
      /\ kernel'[Slave] = kernel[Slave] /\ waiting'[Slave] = waiting[Slave]
  BY <1>1, <1>2, <1>4 DEF KernelRun, RunStartsWaiting, StartNow, RunSender, RunReceiverTimeout,
     RunGoesIdle, RunDropsPartial
<1>7. SlaveRests
  BY <1>3, <1>6 DEF SlaveRests, Rcvr, Held
<1>8. HostRuns(send, call)
  BY <1>2, <1>3, <1>5, <1>7 DEF HostRuns
<1>9. kernel'[Host] # "RECEIVING"
  BY <1>1, <1>2, <1>4 DEF KernelRun, RunStartsWaiting, StartNow, RunSender, RunReceiverTimeout,
     RunGoesIdle, RunDropsPartial, Roles
<1>10. parser'[Host].state = "HEADER"
  <2>1. EmptyParser.state = "HEADER" /\ AgedParser(parser[Host]).state = "HEADER"
    BY DEF EmptyParser, AgedParser, Roles
  <2> DEFINE aged == AgedParser(parser[Host])
  <2>2. \/ parser' = parser
        \/ parser' = [parser EXCEPT ![Host] = EmptyParser]
        \/ parser' = [parser EXCEPT ![Host] = aged]
    BY <1>2 DEF KernelRun, RunStartsWaiting, RunSender, RunReceiverTimeout, RunGoesIdle,
       RunDropsPartial
  <2>3. aged.state = "HEADER"
    BY <2>1
  <2> HIDE DEF aged
  <2> QED
    BY <1>1, <1>4, <2>1, <2>2, <2>3 DEF Roles
<1>11. Outward' \in Seq(OutUnit)
  <2>1. OnLine(send) \in Seq(OutUnit)
    <3>1. CASE send = <<>>
      BY <3>1 DEF OnLine
    <3>2. CASE snd[Host].state = "SENDING" /\ send = <<AppFrame(snd[Host].job, FrameNumber(snd[Host]))>>
      <4> DEFINE job == snd[Host].job
                 seq == FrameNumber(snd[Host])
      <4>1. job \in JobRecord /\ seq \in Nat
        BY <1>1, <1>4 DEF Sender, FrameNumber
      <4> HIDE DEF job, seq
      <4>2. /\ OnLine(<<AppFrame(job, seq)>>) =
                 <<DataUnit("header", job, seq), DataUnit("payload", job, seq)>>
            /\ DataUnit("header", job, seq) \in OutUnit
            /\ DataUnit("payload", job, seq) \in OutUnit
        BY <4>1, DataOnLine
      <4>3. OnLine(<<AppFrame(job, seq)>>) \in Seq(OutUnit)
        BY <4>2
      <4> QED
        BY <3>2, <4>3 DEF job, seq
    <3>3. CASE send = <<SysFrame(HANDSHAKE, waiting[Host])>>
      <4> DEFINE job == waiting[Host]
      <4>1. job \in JobRecord
        BY <1>1, <1>4
      <4> HIDE DEF job
      <4>2. OnLine(<<SysFrame(HANDSHAKE, job)>>) = <<HandshakeUnit(job)>> /\ HandshakeUnit(job) \in OutUnit
        BY <4>1, HandshakeOnLine
      <4> DEFINE h == HandshakeUnit(job)
      <4> HIDE DEF h
      <4>3. OnLine(send) = <<h>> /\ h \in OutUnit
        BY <3>3, <4>2 DEF h, job
      <4> QED
        BY <4>3
    <3> QED
      BY <1>2, <3>1, <3>2, <3>3 DEF SentByRun
  <2> DEFINE more == OnLine(send)
             S == OutUnit
  <2>2. Outward \in Seq(S) /\ more \in Seq(S) /\ Outward' = Outward \o more
    BY <1>5, <2>1 DEF Roles
  <2> HIDE DEF more, S
  <2>3. Outward \o more \in Seq(S)
    BY <2>2
  <2> QED
    BY <2>2, <2>3 DEF S
<1>12. Homeward' \in Seq(HomeUnit) /\ faults' \in [Transfers -> [Kinds -> Nat]]
  BY <1>3, <1>5 DEF Roles
<1>13. Holding' => Held'.frame.type = "APP"
  BY <1>6 DEF Roles, Holding, Held
<1>14. Roles'
  BY <1>6, <1>9, <1>10, <1>11, <1>12, <1>13 DEF Roles
<1> QED
  BY <1>8, <1>14

\* When the sender's time is up there is nothing on the line.
LEMMA LineIsEmpty ==
  ASSUME LinkTyped, LinkOK, Sndr.age >= Timeout
  PROVE  Outward = <<>> /\ Homeward = <<>>
<1>1. /\ Len(Outward) \in Nat /\ Len(Homeward) \in Nat
      /\ Outward = <<>> <=> Len(Outward) = 0
      /\ Homeward = <<>> <=> Len(Homeward) = 0
      /\ MaxDelay \in Nat /\ 2 * MaxDelay < Timeout /\ Timeout \in Nat /\ Sndr.age \in Nat
  BY UnitsAreUnits DEF UnitFacts
<1>2. ASSUME 1 \in 1 .. Len(Outward)
      PROVE  FALSE
  <2>1. Sndr.age <= Outward[1].age /\ Outward[1].age \in 0 .. MaxDelay
    BY <1>2, UnitsAreUnits DEF UnitFacts, LinkOK, TimingOK
  <2> QED
    BY <1>1, <2>1
<1>3. ASSUME 1 \in 1 .. Len(Homeward)
      PROVE  FALSE
  <2>1. Sndr.age <= Homeward[1].age + MaxDelay /\ Homeward[1].age \in 0 .. MaxDelay
    BY <1>3, UnitsAreUnits DEF UnitFacts, LinkOK, TimingOK
  <2> QED
    BY <1>1, <2>1
<1> QED
  BY <1>1, <1>2, <1>3

LEMMA HostSendsFrame ==
  ASSUME TransferInv, LinkTyped, LinkTyped', LinkOK, EndOK, NEW send, NEW call,
         HostRuns(send, call), SendFrame(Host, send, call), Waits' = Waits
  PROVE  Kept /\ (Listening => Listening')
<1>1. Host \in Node /\ snd \in [Node -> Sender] /\ Sndr \in Sender
  BY TwoNodes DEF TransferInv, LibInv, Sndr
<1>2. /\ Outward' = Outward \o OnLine(send) /\ SenderCalls(Host, call)
      /\ Homeward' = Homeward /\ SlaveRests /\ faults' = faults
      /\ asked' = asked /\ reported' = reported /\ delivered' = delivered
  BY DEF HostRuns, SlaveRests
<1>3. Sndr.state = "SENDING" /\ FrameNumber(Sndr) = Sndr.sent
  <2>1. Sndr.state = "SENDING" /\ Sndr.tries \in Nat
    BY <1>1 DEF SendFrame, Sndr, Sender
  <2>2. Sndr.tries > 0 => Sndr.seq = Sndr.sent
    BY DEF LinkOK, SenderOK
  <2> QED
    BY <2>1, <2>2 DEF FrameNumber
<1>4. send = <<AppFrame(Sndr.job, Sndr.sent)>>
  BY <1>3 DEF SendFrame, Sndr
<1> DEFINE h == DataUnit("header", Sndr.job, Sndr.sent)
           p == DataUnit("payload", Sndr.job, Sndr.sent)
<1>5. Outward' = Outward \o <<h, p>>
  <2>1. Sndr.job \in JobRecord /\ Sndr.sent \in Nat
    BY <1>1 DEF Sender
  <2>2. OnLine(<<AppFrame(Sndr.job, Sndr.sent)>>) = <<h, p>>
    BY <2>1, DataOnLine
  <2> HIDE DEF h, p
  <2> QED
    BY <1>2, <1>4, <2>2
<1>6. /\ h.frame = NextUp /\ h.part = "header"
      /\ p.frame = NextUp /\ p.part = "payload"
  BY DEF DataUnit, NextUp
<1> HIDE DEF h, p
<1>7. CASE Sndr.job.needAck
  <2>1. /\ Sndr' = [Sndr EXCEPT !.seq = Sndr.sent, !.tries = @ + 1, !.age = 0, !.state = "WAIT_ACK"]
        /\ call = "none"
    BY <1>1, <1>3, <1>7 DEF SendFrame, Sndr
  <2>2. /\ Sndr'.state = "WAIT_ACK" /\ Sndr'.job = Sndr.job /\ Sndr'.sent = Sndr.sent
        /\ Sndr'.seq = Sndr.sent /\ Sndr'.tries = Sndr.tries + 1 /\ Sndr'.age = 0
    BY <1>1, <2>1 DEF Sender
  <2>3. status' = status
    BY <1>2, <2>1 DEF SenderCalls
  <2>4. SendsAcked(h, p)
    BY <1>2, <1>3, <1>5, <1>6, <1>7, <2>2, <2>3 DEF SendsAcked, Sends
  <2> QED
    BY <1>2, <2>3, <2>4, SendsAckedKeeps, NothingNoted
<1>8. CASE ~Sndr.job.needAck
  <2>1. NextFrame(Host, call)
    BY <1>8 DEF SendFrame, Sndr
  <2>2. CASE Sndr.sent + 1 = Sndr.job.total
    <3>1. Sndr' = IdleSender /\ call = "SEND_ALL_DATA_DONE"
      BY <1>1, <2>1, <2>2 DEF NextFrame, Sndr
    <3>2. status' = [status EXCEPT ![Current] = "done"] /\ Sndr'.age = 0
      BY <1>2, <3>1 DEF SenderCalls, Current, Sndr, IdleSender
    <3>3. SendsPlain(h, p)
      BY <1>2, <1>3, <1>5, <1>6, <1>8, <3>1, <3>2 DEF SendsPlain, Sends
    <3> QED
      BY <1>2, <3>3, SendsPlainKept
  <2>3. CASE Sndr.sent + 1 # Sndr.job.total
    <3>1. /\ Sndr' = [Sndr EXCEPT !.sent = @ + 1, !.tries = 0, !.age = 0, !.state = "SENDING"]
          /\ call = "none"
      BY <1>1, <2>1, <2>3 DEF NextFrame, Sndr
    <3>2. Sndr'.state = "SENDING" /\ Sndr'.job = Sndr.job /\ Sndr'.sent = Sndr.sent + 1
          /\ Sndr'.tries = 0 /\ Sndr'.age = 0
      BY <1>1, <3>1 DEF Sender
    <3>3. status' = status
      BY <1>2, <3>1 DEF SenderCalls
    <3>4. SendsPlain(h, p)
      BY <1>2, <1>3, <1>5, <1>6, <1>8, <2>3, <3>2, <3>3 DEF SendsPlain, Sends
    <3> QED
      BY <1>2, <3>4, SendsPlainKept
  <2> QED
    BY <2>2, <2>3
<1> QED
  BY <1>7, <1>8

LEMMA HostTimesOut ==
  ASSUME TransferInv, LinkTyped, LinkTyped', LinkOK, EndOK, NEW send, NEW call,
         HostRuns(send, call), Waits' = Waits,
         HandshakeTimeout(Host, send, call) \/ AckTimeout(Host, send, call)
  PROVE  Kept /\ (Listening => Listening')
<1>1. Host \in Node /\ snd \in [Node -> Sender] /\ Sndr \in Sender
  BY TwoNodes DEF TransferInv, LibInv, Sndr
<1>2. /\ send = <<>> /\ Sndr.state \in {"HANDSHAKE", "WAIT_ACK"} /\ Sndr.age >= Timeout
  BY DEF HandshakeTimeout, AckTimeout, SenderTimedOut, Sndr
<1>3. /\ Outward' = Outward \o OnLine(send) /\ SenderCalls(Host, call)
      /\ Homeward' = Homeward /\ SlaveRests /\ faults' = faults
      /\ asked' = asked /\ reported' = reported /\ delivered' = delivered
  BY DEF HostRuns, SlaveRests
<1>4. Outward = <<>> /\ Homeward = <<>> /\ NoApp /\ NoAck
  <2>1. Outward = <<>> /\ Homeward = <<>>
    BY <1>2, LineIsEmpty
  <2> QED
    BY <2>1 DEF NoApp, NoAck
<1>5. Outward' = Outward
  BY <1>2, <1>3, <1>4 DEF OnLine
<1>6. ASSUME GiveUp(Host), call \in {"SEND_ERROR", "HANDSHAKE_ERROR"}
      PROVE  Kept /\ (Listening => Listening')
  <2>1. Sndr' = IdleSender /\ status' = [status EXCEPT ![Current] = "failed"]
    BY <1>1, <1>3, <1>6 DEF GiveUp, SenderCalls, Current, Sndr
  <2>2. Ends("failed")
    BY <1>2, <1>3, <1>4, <1>5, <2>1 DEF Ends
  <2> QED
    BY <1>3, <2>2, EndsKept
<1>7. CASE HandshakeTimeout(Host, send, call)
  BY <1>6, <1>7 DEF HandshakeTimeout
<1>8. CASE AckTimeout(Host, send, call)
  <2>1. CASE snd[Host].tries <= MaxRetry
    <3>1. Sndr' = [Sndr EXCEPT !.state = "SENDING", !.age = 0] /\ call = "none"
      BY <1>1, <1>8, <2>1 DEF AckTimeout, Sndr
    <3>2. /\ Sndr'.state = "SENDING" /\ Sndr'.job = Sndr.job /\ Sndr'.sent = Sndr.sent
          /\ Sndr'.seq = Sndr.seq /\ Sndr'.tries = Sndr.tries /\ Sndr'.age = 0
          /\ Sndr.tries \in Nat
      BY <1>1, <3>1 DEF Sender
    <3>3. status' = status
      BY <1>3, <3>1 DEF SenderCalls
    <3>4. Sndr.state = "WAIT_ACK" /\ Connected /\ Connected' /\ Sndr.job.needAck
      BY <1>8, <3>2 DEF AckTimeout, Sndr, Connected, LinkOK, SenderOK
    <3>5. Sndr'.tries >= Sndr.tries
      BY <3>2
    <3>6. Resends
      BY <1>3, <1>4, <1>5, <3>2, <3>3, <3>4, <3>5 DEF Resends, HostGoesOn
    <3> QED
      BY <1>3, <3>3, <3>6, ResendsKeeps, NothingNoted
  <2>2. CASE ~(snd[Host].tries <= MaxRetry)
    BY <1>6, <1>8, <2>2 DEF AckTimeout
  <2> QED
    BY <2>1, <2>2
<1> QED
  BY <1>7, <1>8

LEMMA HostStartsWaiting ==
  ASSUME TransferInv, Roles, LinkTyped, LinkTyped', LinkOK, EndOK, NEW send, NEW call,
         HostRuns(send, call), RunStartsWaiting(Host, send, call)
  PROVE  Kept /\ (Listening => Listening')
<1>1. Host \in Node /\ snd \in [Node -> Sender] /\ waiting \in [Node -> JobRecord]
  BY TwoNodes DEF TransferInv, LibInv, JobsAsked
<1>2. /\ Outward' = Outward \o OnLine(send) /\ SenderCalls(Host, call)
      /\ Homeward' = Homeward /\ SlaveRests /\ faults' = faults
      /\ asked' = asked /\ reported' = reported /\ delivered' = delivered
  BY DEF HostRuns, SlaveRests
<1>3. /\ Waits # NoJob /\ Waits \in JobRecord /\ Waits' = NoJob
      /\ send = <<SysFrame(HANDSHAKE, Waits)>> /\ call = "none"
      /\ Sndr.state = "IDLE"
      /\ Sndr' = [IdleSender EXCEPT !.state = "HANDSHAKE", !.job = Waits]
  BY <1>1 DEF RunStartsWaiting, StartNow, Waits, Sndr
<1>4. status' = status
  BY <1>2, <1>3 DEF SenderCalls
<1> DEFINE x == Waits.id
           h == HandshakeUnit(Waits)
<1>5. x \in Transfers /\ Unsent(x) /\ status[x] = "accepted"
  BY <1>3 DEF LinkTyped, IsAsked, Unsent, LinkOK, SenderOK
<1>6. Outward' = Append(Outward, h) /\ ~IsApp(h) /\ h.age = 0
  <2>1. OnLine(send) = <<h>> /\ ~IsApp(h) /\ h.age = 0 /\ h \in OutUnit
    BY <1>3, HandshakeOnLine
  <2>2. Outward \in Seq(OutUnit)
    BY DEF Roles
  <2> HIDE DEF h
  <2> QED
    BY <1>2, <2>1, <2>2
<1>7. Sndr'.state = "HANDSHAKE" /\ Sndr'.job = Waits /\ Sndr'.sent = 0 /\ Sndr'.tries = 0
      /\ Sndr'.age = 0
  BY <1>3 DEF IdleSender
<1> HIDE DEF h
<1>8. Current' = x
  BY <1>7 DEF Current
<1> HIDE DEF x
<1>9. Starts(x, h)
  BY <1>2, <1>3, <1>4, <1>5, <1>6, <1>7, <1>8 DEF Starts
<1>10. LinkOK' /\ (Listening => Listening')
  BY <1>9, StartsKeeps
<1> QED
  BY <1>2, <1>4, <1>10, NothingNoted

LEMMA HostRunsKept ==
  ASSUME TransferInv, TransferInv', Roles, LinkOK, EndOK, Run(Host)
  PROVE  Roles' /\ Kept /\ (Listening => Listening')
<1>1. Roles'
  BY HostRunsOnce
<1>2. PICK send, call : HostRuns(send, call)
  BY HostRunsOnce
<1>3. LinkTyped /\ LinkTyped'
  BY <1>1, LinkIsTyped, LinkStaysTyped
<1>4. /\ Outward' = Outward \o OnLine(send) /\ SenderCalls(Host, call)
      /\ Homeward' = Homeward /\ SlaveRests /\ faults' = faults
      /\ asked' = asked /\ reported' = reported /\ delivered' = delivered
  BY <1>2 DEF HostRuns, SlaveRests
<1>5. CASE RunStartsWaiting(Host, send, call)
  BY <1>1, <1>2, <1>3, <1>5, HostStartsWaiting
<1>6. CASE RunSender(Host, send, call)
  <2>1. SenderRun(Host, send, call) /\ Waits' = Waits
    BY <1>6 DEF RunSender, Waits
  <2> QED
    BY <1>1, <1>2, <1>3, <2>1, HostSendsFrame, HostTimesOut DEF SenderRun
<1>7. CASE RunGoesIdle(Host, send, call) \/ RunDropsPartial(Host, send, call)
  <2>1. send = <<>> /\ call = "none" /\ snd' = snd /\ waiting' = waiting
    BY <1>7 DEF RunGoesIdle, RunDropsPartial
  <2>2. status' = status
    BY <1>4, <2>1 DEF SenderCalls
  <2>3. Outward' = Outward
    BY <1>4, <2>1 DEF OnLine, Roles
  <2>4. HostRests
    BY <1>4, <2>1, <2>2 DEF HostRests, Sndr, Waits
  <2>5. Rcvr' = Rcvr /\ Held' = Held
    BY <1>4 DEF SlaveRests
  <2>6. Forgets /\ (Open => Open')
    <3>1. Rcvr.age \in Nat
      BY <1>3, UnitsAreUnits DEF UnitFacts
    <3> QED
      BY <2>5, <3>1 DEF Forgets, Holding, Open
  <2> QED
    BY <1>1, <1>3, <1>4, <2>3, <2>4, <2>6, ForgetsOnly
<1>8. ~RunReceiverTimeout(Host, send, call)
  BY DEF RunReceiverTimeout, Roles
<1> QED
  BY <1>2, <1>5, <1>6, <1>7, <1>8 DEF HostRuns, KernelRun

-----------------------------------------------------------------------------
(* The slave's ltlpKernelRun: it has nothing to send.                      *)
LEMMA LimitIsLong == ReceiveLimit >= Timeout
<1>1. Timeout \in Nat /\ MaxRetry \in Nat
  BY TimeoutAssumption, MaxRetryAssumption
<1>2. Timeout * (MaxRetry + 1) = Timeout * MaxRetry + Timeout
  BY <1>1, SMTT(30)
<1>3. Timeout * MaxRetry \in Nat
  BY <1>1, SMTT(30)
<1> DEFINE more == Timeout * MaxRetry
<1> HIDE DEF more
<1>4. more + Timeout >= Timeout
  BY <1>1, <1>3 DEF more
<1> QED
  BY <1>2, <1>4 DEF ReceiveLimit, more

LEMMA SlaveRunsKept ==
  ASSUME TransferInv, TransferInv', Roles, LinkOK, EndOK, Run(Slave)
  PROVE  Roles' /\ Kept /\ (Listening => Listening')
<1>1. Host \in Node /\ Slave \in Node /\ Host # Slave /\ Other(Slave) = Host
  BY TwoNodes
<1>2. PICK send \in SentByRun(Slave), call \in CallsOf(Slave) :
        /\ KernelRun(Slave, send, call)
        /\ line' = [line EXCEPT ![Host] = @ \o OnLine(send)]
        /\ SenderCalls(Slave, call)
  BY <1>1 DEF Run
<1>3. asked' = asked /\ delivered' = delivered /\ reported' = reported /\ faults' = faults
  BY DEF Run
<1>4. /\ line \in [Node -> Seq(AskedUnit)] /\ parser \in [Node -> ParserState]
      /\ kernel \in [Node -> KernelState] /\ rcv \in [Node -> Receiver]
      /\ Outward \in Seq(OutUnit) /\ Homeward \in Seq(HomeUnit)
  BY DEF TransferInv, LineInv, ParserInv, LibInv, Roles
<1>5. \/ RunReceiverTimeout(Slave, send, call)
      \/ RunGoesIdle(Slave, send, call)
      \/ RunDropsPartial(Slave, send, call)
  BY <1>2 DEF KernelRun, RunStartsWaiting, RunSender, Roles
<1>6. send = <<>> /\ call \in {"none", "RECV_TIMEOUT"} /\ snd' = snd /\ waiting' = waiting
  BY <1>5 DEF RunReceiverTimeout, RunGoesIdle, RunDropsPartial
<1>7. status' = status
  BY <1>2, <1>6 DEF SenderCalls
<1>8. HostRests
  BY <1>3, <1>6, <1>7 DEF HostRests, Sndr, Waits
<1>9. Outward' = Outward /\ Homeward' = Homeward
  <2>1. Homeward' = Homeward \o <<>> /\ Outward' = Outward
    BY <1>1, <1>2, <1>4, <1>6 DEF Homeward, Outward, OnLine
  <2> QED
    BY <1>4, <2>1
<1>10. /\ kernel'[Slave] # "SENDING" /\ kernel'[Host] = kernel[Host]
       /\ parser'[Host] = parser[Host]
  BY <1>1, <1>4, <1>5 DEF RunReceiverTimeout, RunGoesIdle, RunDropsPartial, Roles
<1>11. Holding' => Holding /\ Held' = Held
  <2>1. Held' = EmptyParser \/ Held' = Held
    BY <1>1, <1>4, <1>5 DEF RunReceiverTimeout, RunGoesIdle, RunDropsPartial, Held
  <2> QED
    BY <2>1 DEF Holding, EmptyParser
<1>12. Roles'
  BY <1>3, <1>6, <1>9, <1>10, <1>11 DEF Roles
<1>13. LinkTyped /\ LinkTyped'
  BY <1>12, LinkIsTyped, LinkStaysTyped
<1>14. \/ Rcvr' = Rcvr
       \/ ~Open' /\ Rcvr.age >= ReceiveLimit
  BY <1>1, <1>4, <1>5 DEF RunReceiverTimeout, RunGoesIdle, RunDropsPartial, ReceiverTimedOut,
     Open, Rcvr, IdleReceiver
<1>15. Rcvr.age \in Nat /\ ReceiveLimit \in Nat /\ Timeout \in Nat /\ ReceiveLimit >= Timeout
  BY <1>13, UnitsAreUnits, TimeLimits, LimitIsLong DEF UnitFacts
<1> DEFINE limit == ReceiveLimit
<1>16. Open => Open' \/ Rcvr.age >= Timeout
  <2>1. Rcvr.age >= limit => Rcvr.age >= Timeout
    <3>1. limit \in Nat /\ limit >= Timeout
      BY <1>15
    <3> HIDE DEF limit
    <3> QED
      BY <1>15, <3>1
  <2> QED
    BY <1>14, <2>1 DEF Open
<1>17. Forgets
  BY <1>11, <1>14, <1>15 DEF Forgets, Open
<1> QED
  BY <1>3, <1>8, <1>9, <1>12, <1>13, <1>16, <1>17, ForgetsOnly

-----------------------------------------------------------------------------
(* The host is asked for a transfer.                                       *)
LEMMA HostAsksKept ==
  ASSUME TransferInv, TransferInv', Roles, LinkOK, EndOK, HostAsks
  PROVE  Roles' /\ Kept /\ (Listening => Listening')
<1>1. Host \in Node /\ Slave \in Node /\ Host # Slave
  BY TwoNodes
<1>2. PICK x \in Transfers, j \in Job :
        AskNow(x, [j EXCEPT !.id = x]) \/ AskLater(x, [j EXCEPT !.id = x])
  BY DEF HostAsks
<1> DEFINE job == [j EXCEPT !.id = x]
<1>3. job \in JobRecord /\ job.id = x
  BY JobAssumption DEF JobRecord, Transfers
<1>4. AskNow(x, job) \/ AskLater(x, job)
  BY <1>2
<1>5. /\ status[x] = "none"
      /\ status' = [status EXCEPT ![x] = "accepted"]
      /\ asked' = [asked EXCEPT ![x] = job]
      /\ UNCHANGED <<rcv, parser, delivered, reported, faults>>
  BY <1>4 DEF AskNow, AskLater, Ask
<1>6. ServiceStep
  <2>1. HistoryInv
    BY DEF TransferInv
  <2> QED
    BY <1>5, <2>1, ServiceAsked
<1> HIDE DEF job
<1>7. /\ line \in [Node -> Seq(AskedUnit)] /\ kernel \in [Node -> KernelState]
      /\ snd \in [Node -> Sender] /\ waiting \in [Node -> JobRecord]
      /\ Outward \in Seq(OutUnit) /\ Homeward \in Seq(HomeUnit)
  BY DEF TransferInv, LineInv, LibInv, JobsAsked, Roles
<1>8. /\ asked \in [Transfers -> JobRecord]
      /\ status \in [Transfers -> {"none", "accepted", "done", "failed"}]
  BY DEF TransferInv, HistoryInv
<1>9. /\ SlaveRests /\ Unsent(x)
      /\ status'[x] = "accepted"
      /\ \A y \in Transfers : y # x => status'[y] = status[y] /\ asked'[y] = asked[y]
  BY <1>5, <1>8 DEF SlaveRests, Rcvr, Held, Unsent
<1>10. CASE AskNow(x, job)
  <2> DEFINE h == HandshakeUnit(job)
  <2>1. Units(SysFrame(HANDSHAKE, job)) = <<h>> /\ h \in OutUnit /\ ~IsApp(h) /\ h.age = 0
    BY <1>3, HandshakeOnLine
  <2> HIDE DEF h
  <2>2. /\ Sndr.state = "IDLE"
        /\ Sndr' = [IdleSender EXCEPT !.state = "HANDSHAKE", !.job = job]
        /\ waiting' = waiting /\ kernel'[Slave] = kernel[Slave] /\ kernel'[Host] = "SENDING"
    BY <1>1, <1>7, <1>10 DEF AskNow, StartNow, Sndr
  <2>3. Outward' = Append(Outward, h) /\ Homeward' = Homeward
    BY <1>1, <1>7, <1>10, <2>1 DEF AskNow, Outward, Homeward
  <2>4. Outward' \in Seq(OutUnit)
    BY <1>7, <2>1, <2>3
  <2>5. Roles'
    BY <1>5, <2>2, <2>3, <2>4 DEF Roles, Holding, Held
  <2>6. LinkTyped /\ LinkTyped'
    BY <2>5, LinkIsTyped, LinkStaysTyped
  <2>7. /\ Sndr'.state = "HANDSHAKE" /\ Sndr'.job = job /\ Sndr'.sent = 0 /\ Sndr'.tries = 0
        /\ Sndr'.age = 0
    BY <2>2 DEF IdleSender
  <2>8. Current' = x
    BY <1>3, <2>7 DEF Current
  <2>9. Waits' = Waits /\ (Waits # NoJob => Waits.id # x)
    <3>1. Waits # NoJob => status[Waits.id] = "accepted"
      BY DEF LinkOK, SenderOK
    <3> QED
      BY <1>5, <2>2, <3>1 DEF Waits
  <2>10. Starts(x, h)
    BY <1>5, <1>9, <2>1, <2>2, <2>3, <2>7, <2>8, <2>9 DEF Starts
  <2>11. LinkOK' /\ (Listening => Listening')
    BY <2>6, <2>10, StartsKeeps
  <2>12. EndOK'
    BY <1>5, <1>9, <2>6, AskingKeepsEnd
  <2> QED
    BY <1>6, <2>5, <2>11, <2>12 DEF Kept
<1>11. CASE AskLater(x, job)
  <2>1. /\ kernel' = kernel /\ snd' = snd /\ line' = line
        /\ Waits = NoJob /\ Waits' = job /\ waiting'[Slave] = waiting[Slave]
    BY <1>1, <1>7, <1>11 DEF AskLater, PutOff, Waits
  <2>2. Roles'
    BY <1>5, <2>1 DEF Roles, Outward, Homeward, Holding, Held
  <2>3. LinkTyped /\ LinkTyped'
    BY <2>2, LinkIsTyped, LinkStaysTyped
  <2>4. AsksLater(x)
    BY <1>3, <1>5, <1>9, <2>1 DEF AsksLater, Outward, Homeward, Sndr
  <2>5. LinkOK' /\ (Listening => Listening')
    BY <2>3, <2>4, AsksLaterKeeps
  <2>6. EndOK'
    BY <1>5, <1>9, <2>3, AskingKeepsEnd
  <2> QED
    BY <1>6, <2>2, <2>5, <2>6 DEF Kept
<1> QED
  BY <1>4, <1>10, <1>11
-----------------------------------------------------------------------------
(* The line loses and garbles units.                                       *)
LEMMA Removed ==
  ASSUME NEW S, NEW s \in Seq(S), NEW i \in 1 .. Len(s)
  PROVE  /\ RemoveAt(s, i) \in Seq(S)
         /\ Len(RemoveAt(s, i)) = Len(s) - 1
         /\ \A j \in 1 .. Len(s) - 1 : RemoveAt(s, i)[j] = s[IF j < i THEN j ELSE j + 1]
<1> DEFINE a == SubSeq(s, 1, i - 1)
           b == SubSeq(s, i + 1, Len(s))
           n == Len(s)
<1>1. n \in Nat /\ i \in 1 .. n /\ \A j \in 1 .. n : s[j] \in S
  OBVIOUS
<1>2. /\ a \in Seq(S) /\ Len(a) = i - 1
      /\ \A j \in 1 .. i - 1 : a[j] = s[j]
  <2>1. i - 1 \in 0 .. n
    BY <1>1
  <2>2. a \in Seq(S)
    BY <1>1, <2>1
  <2> QED
    BY <1>1, <2>1, <2>2
<1>3. /\ b \in Seq(S) /\ Len(b) = n - i
      /\ \A j \in 1 .. n - i : b[j] = s[j + i]
  <2>1. \A j \in i + 1 .. n : s[j] \in S
    BY <1>1
  <2>2. b \in Seq(S)
    BY <1>1, <2>1
  <2>3. Len(b) = n - i
    BY <1>1
  <2>4. \A j \in 1 .. n - i : b[j] = s[j + i]
    BY <1>1
  <2> QED
    BY <2>2, <2>3, <2>4
<1>4. RemoveAt(s, i) = a \o b
  BY DEF RemoveAt
<1> HIDE DEF a, b
<1>5. a \o b \in Seq(S) /\ Len(a \o b) = n - 1
  <2>1. a \in Seq(S) /\ b \in Seq(S)
    BY <1>2, <1>3
  <2>2. a \o b \in Seq(S)
    BY <2>1
  <2>3. Len(a \o b) = Len(a) + Len(b)
    BY <2>1
  <2> HIDE DEF n
  <2>4. Len(a) + Len(b) = n - 1
    BY <1>1, <1>2, <1>3
  <2> QED
    BY <2>2, <2>3, <2>4
<1>6. ASSUME NEW j \in 1 .. n - 1
      PROVE  (a \o b)[j] = s[IF j < i THEN j ELSE j + 1]
  <2>1. CASE j < i
    BY <1>1, <1>2, <1>3, <2>1
  <2>2. CASE ~(j < i)
    <3>1. (a \o b)[j] = b[j - (i - 1)]
      BY <1>1, <1>2, <1>3, <2>2
    <3>2. j - (i - 1) \in 1 .. n - i /\ (j - (i - 1)) + i = j + 1
      BY <1>1, <2>2
    <3>3. b[j - (i - 1)] = s[j + 1]
      BY <1>3, <3>2
    <3> QED
      BY <2>2, <3>1, <3>3
  <2> QED
    BY <2>1, <2>2
<1> QED
  BY <1>4, <1>5, <1>6

LEMMA FaultCounts ==
  ASSUME faults \in [Transfers -> [Kinds -> Nat]], NEW n, NEW f, Fault(n, f)
  PROVE  /\ faults' \in [Transfers -> [Kinds -> Nat]]
         /\ \A x \in Transfers : AnswerLost(x) => AnswerLost(x)'
         /\ f.job \in Transfers /\ Kind(f) = "answer" => AnswerLost(f.job)'
<1> DEFINE k == Kind(f)
           more == faults[f.job][k] + 1
<1>1. faults' = [faults EXCEPT ![f.job][k] = more]
  BY DEF Fault
<1>2. k \in Kinds /\ "answer" \in Kinds
  BY DEF Kind, Kinds
<1> HIDE DEF k
<1>3. \A x \in Transfers, m \in Kinds :
        faults[x][m] \in Nat /\ faults[x] \in [Kinds -> Nat]
  OBVIOUS
<1>4. ASSUME f.job \in Transfers
      PROVE  more \in Nat /\ more > faults[f.job][k] /\ more > 0
  BY <1>2, <1>3, <1>4
<1> HIDE DEF more
<1>5. CASE f.job \notin Transfers
  <2>1. faults' = faults
    BY <1>1, <1>5
  <2> QED
    BY <1>5, <2>1 DEF AnswerLost
<1>6. CASE f.job \in Transfers
  <2>1. faults' \in [Transfers -> [Kinds -> Nat]]
    BY <1>1, <1>2, <1>3, <1>4, <1>6
  <2>2. \A x \in Transfers : faults'[x]["answer"] =
          IF x = f.job /\ k = "answer" THEN more ELSE faults[x]["answer"]
    BY <1>1, <1>2, <1>3, <1>6
  <2> QED
    BY <1>3, <1>4, <1>6, <2>1, <2>2 DEF AnswerLost, k
<1> QED
  BY <1>5, <1>6

\* What stays the same when a unit is hit on its way to n.
LEMMA FaultRests ==
  ASSUME NEW n \in Node, NEW f, Fault(n, f), NEW l, line' = [line EXCEPT ![n] = l],
         TransferInv, Roles
  PROVE  /\ HostRests /\ SlaveRests /\ reported' = reported
         /\ kernel' = kernel /\ waiting' = waiting /\ parser' = parser
         /\ n = Slave => Outward' = l /\ Homeward' = Homeward
         /\ n = Host => Homeward' = l /\ Outward' = Outward
<1>1. line \in [Node -> Seq(AskedUnit)]
  BY DEF TransferInv, LineInv
<1> QED
  BY <1>1, TwoNodes DEF Fault, libVars, HostRests, SlaveRests, Sndr, Waits, Rcvr, Held, Outward,
     Homeward

\* Units for the slave are lost or spoiled, nothing else happens.
LEMMA ThinsOut ==
  ASSUME LinkTyped, LinkTyped', LinkOK, EndOK, HostRests, SlaveRests, reported' = reported,
         Homeward' = Homeward, \A x \in Transfers : AnswerLost(x) => AnswerLost(x)',
         NEW g, g \in [1 .. Len(Outward') -> 1 .. Len(Outward)],
         \A i, j \in 1 .. Len(Outward') : i < j => g[i] < g[j],
         \A i \in 1 .. Len(Outward') :
           /\ Outward'[i].frame = Outward[g[i]].frame /\ Outward'[i].part = Outward[g[i]].part
           /\ Outward'[i].age = Outward[g[i]].age
  PROVE  Kept /\ (Listening => Listening')
<1>1. \A i \in 1 .. Len(Outward') : Outward'[i].age = Outward[g[i]].age + 0
  <2>1. ASSUME NEW i \in 1 .. Len(Outward')
        PROVE  Outward'[i].age = Outward[g[i]].age + 0
    <3>1. Outward'[i].age = Outward[g[i]].age /\ Outward'[i].age \in 0 .. MaxDelay
      BY UnitsStayUnits DEF UnitFacts
    <3> QED
      BY <3>1
  <2> QED
    BY <2>1
<1>2. \A i \in 1 .. Len(Homeward) : Homeward'[i].age = Homeward[i].age + 0
  <2>1. ASSUME NEW i \in 1 .. Len(Homeward)
        PROVE  Homeward'[i].age = Homeward[i].age + 0
    <3>1. Homeward'[i].age = Homeward[i].age /\ Homeward[i].age \in 0 .. MaxDelay
      BY UnitsAreUnits DEF UnitFacts
    <3> QED
      BY <3>1
  <2> QED
    BY <2>1
<1>3. Sndr'.age <= Sndr.age + 0 /\ Rcvr'.age <= Rcvr.age + 0
  <2>1. Sndr'.age = Sndr.age /\ Sndr.age \in Nat /\ Rcvr'.age = Rcvr.age /\ Rcvr.age \in Nat
    BY UnitsAreUnits DEF UnitFacts, HostRests, SlaveRests
  <2> QED
    BY <2>1
<1>4. Fades(0, g)
  BY <1>1, <1>2, <1>3 DEF Fades, SenderGoesUnchanged, HostRests, SlaveRests, Holding, Open
<1>5. Open => Open'
  BY DEF SlaveRests, Open
<1> QED
  BY <1>4, <1>5, FadesListening, FadesKept

LEMMA SlaveLosesKept ==
  ASSUME TransferInv, TransferInv', Roles, LinkOK, EndOK, LoseUnit(Slave)
  PROVE  Roles' /\ Kept /\ (Listening => Listening')
<1>1. PICK i \in 1 .. Len(Outward) :
        /\ Fault(Slave, Outward[i].frame)
        /\ line' = [line EXCEPT ![Slave] = RemoveAt(Outward, i)]
  BY DEF LoseUnit, Outward
<1> DEFINE rest == RemoveAt(Outward, i)
           n == Len(Outward)
           g == [j \in 1 .. Len(Outward') |-> IF j < i THEN j ELSE j + 1]
<1>2. /\ Outward \in Seq(OutUnit) /\ n \in Nat /\ faults \in [Transfers -> [Kinds -> Nat]]
      /\ Slave \in Node /\ Host # Slave
  BY TwoNodes DEF Roles
<1>3. /\ rest \in Seq(OutUnit) /\ Len(rest) = n - 1
      /\ \A j \in 1 .. n - 1 : rest[j] = Outward[IF j < i THEN j ELSE j + 1]
  BY <1>2, Removed
<1>4. line' = [line EXCEPT ![Slave] = rest]
  BY <1>1
<1> HIDE DEF rest
<1>5. /\ HostRests /\ SlaveRests /\ reported' = reported
      /\ kernel' = kernel /\ waiting' = waiting /\ parser' = parser
      /\ Outward' = rest /\ Homeward' = Homeward
  BY <1>1, <1>2, <1>4, FaultRests
<1>6. /\ faults' \in [Transfers -> [Kinds -> Nat]]
      /\ \A x \in Transfers : AnswerLost(x) => AnswerLost(x)'
  BY <1>1, <1>2, FaultCounts
<1>7. Roles'
  BY <1>3, <1>5, <1>6 DEF Roles, Holding, Held
<1>8. LinkTyped /\ LinkTyped'
  BY <1>7, LinkIsTyped, LinkStaysTyped
<1>9. Len(Outward') = n - 1
  BY <1>3, <1>5
<1>10. /\ g \in [1 .. Len(Outward') -> 1 .. Len(Outward)]
       /\ \A j, k \in 1 .. Len(Outward') : j < k => g[j] < g[k]
       /\ \A j \in 1 .. Len(Outward') : Outward'[j] = Outward[g[j]]
  <2>1. \A j \in 1 .. n - 1 : (IF j < i THEN j ELSE j + 1) \in 1 .. n
    BY <1>2
  <2>2. g \in [1 .. Len(Outward') -> 1 .. Len(Outward)]
    BY <1>9, <2>1
  <2>3. \A j, k \in 1 .. n - 1 : j < k =>
          (IF j < i THEN j ELSE j + 1) < (IF k < i THEN k ELSE k + 1)
    BY <1>2
  <2>4. \A j, k \in 1 .. Len(Outward') : j < k => g[j] < g[k]
    BY <1>9, <2>3
  <2>5. \A j \in 1 .. Len(Outward') : Outward'[j] = Outward[g[j]]
    BY <1>3, <1>5, <1>9
  <2> QED
    BY <2>2, <2>4, <2>5
<1> HIDE DEF g, n
<1>11. \A j \in 1 .. Len(Outward') :
         /\ Outward'[j].frame = Outward[g[j]].frame /\ Outward'[j].part = Outward[g[j]].part
         /\ Outward'[j].age = Outward[g[j]].age
  BY <1>10
<1>12. Kept /\ (Listening => Listening')
  BY <1>5, <1>6, <1>8, <1>10, <1>11, ThinsOut
<1> QED
  BY <1>7, <1>12

LEMMA SlaveGarbledKept ==
  ASSUME TransferInv, TransferInv', Roles, LinkOK, EndOK, GarbleUnit(Slave)
  PROVE  Roles' /\ Kept /\ (Listening => Listening')
<1>1. PICK i \in 1 .. Len(Outward) :
        /\ Fault(Slave, Outward[i].frame)
        /\ line' = [line EXCEPT ![Slave][i].intact = FALSE]
  BY DEF GarbleUnit, Outward
<1> DEFINE u == [Outward[i] EXCEPT !.intact = FALSE]
           l == [Outward EXCEPT ![i] = u]
           g == [j \in 1 .. Len(Outward') |-> j]
<1>2. /\ Outward \in Seq(OutUnit) /\ faults \in [Transfers -> [Kinds -> Nat]]
      /\ Slave \in Node /\ Host # Slave /\ line \in [Node -> Seq(AskedUnit)]
  BY TwoNodes DEF Roles, TransferInv, LineInv
<1>3. /\ u \in OutUnit
      /\ u.frame = Outward[i].frame /\ u.part = Outward[i].part /\ u.age = Outward[i].age
  <2>1. Outward[i] \in OutUnit
    BY <1>2
  <2> QED
    BY <2>1 DEF OutUnit, Unit
<1>4. line' = [line EXCEPT ![Slave] = l]
  BY <1>1, <1>2 DEF Outward
<1> HIDE DEF u
<1>5. /\ l \in Seq(OutUnit) /\ Len(l) = Len(Outward)
      /\ \A j \in 1 .. Len(Outward) : l[j] = IF j = i THEN u ELSE Outward[j]
  BY <1>2, <1>3
<1> HIDE DEF l
<1>6. /\ HostRests /\ SlaveRests /\ reported' = reported
      /\ kernel' = kernel /\ waiting' = waiting /\ parser' = parser
      /\ Outward' = l /\ Homeward' = Homeward
  BY <1>1, <1>2, <1>4, FaultRests
<1>7. /\ faults' \in [Transfers -> [Kinds -> Nat]]
      /\ \A x \in Transfers : AnswerLost(x) => AnswerLost(x)'
  BY <1>1, <1>2, FaultCounts
<1>8. Roles'
  BY <1>5, <1>6, <1>7 DEF Roles, Holding, Held
<1>9. LinkTyped /\ LinkTyped'
  BY <1>8, LinkIsTyped, LinkStaysTyped
<1>10. /\ g \in [1 .. Len(Outward') -> 1 .. Len(Outward)]
       /\ \A j \in 1 .. Len(Outward') : g[j] = j
  BY <1>5, <1>6
<1> HIDE DEF g
<1>11. \A j \in 1 .. Len(Outward') :
         /\ Outward'[j].frame = Outward[g[j]].frame /\ Outward'[j].part = Outward[g[j]].part
         /\ Outward'[j].age = Outward[g[j]].age
  BY <1>3, <1>5, <1>6, <1>10
<1>12. \A j, k \in 1 .. Len(Outward') : j < k => g[j] < g[k]
  BY <1>10
<1>13. Kept /\ (Listening => Listening')
  BY <1>6, <1>7, <1>9, <1>10, <1>11, <1>12, ThinsOut
<1> QED
  BY <1>8, <1>13

\* An answer that is lost is that of the transfer under way.
LEMMA HostLosesKept ==
  ASSUME TransferInv, TransferInv', Roles, LinkOK, EndOK, LoseUnit(Host)
  PROVE  Roles' /\ Kept /\ (Listening => Listening')
<1>1. PICK i \in 1 .. Len(Homeward) :
        /\ Fault(Host, Homeward[i].frame)
        /\ line' = [line EXCEPT ![Host] = RemoveAt(Homeward, i)]
  BY DEF LoseUnit, Homeward
<1> DEFINE rest == RemoveAt(Homeward, i)
           n == Len(Homeward)
           g == [j \in 1 .. Len(Homeward') |-> IF j < i THEN j ELSE j + 1]
<1>2. /\ Homeward \in Seq(HomeUnit) /\ n \in Nat /\ faults \in [Transfers -> [Kinds -> Nat]]
      /\ Host \in Node /\ Host # Slave /\ i \in 1 .. n
  BY TwoNodes DEF Roles
<1>3. /\ rest \in Seq(HomeUnit) /\ Len(rest) = n - 1
      /\ \A j \in 1 .. n - 1 : rest[j] = Homeward[IF j < i THEN j ELSE j + 1]
  BY <1>2, Removed
<1>4. line' = [line EXCEPT ![Host] = rest]
  BY <1>1
<1> HIDE DEF rest
<1>5. /\ HostRests /\ SlaveRests /\ reported' = reported
      /\ kernel' = kernel /\ waiting' = waiting /\ parser' = parser
      /\ Homeward' = rest /\ Outward' = Outward
  BY <1>1, <1>2, <1>4, FaultRests
<1>6. /\ faults' \in [Transfers -> [Kinds -> Nat]]
      /\ \A x \in Transfers : AnswerLost(x) => AnswerLost(x)'
  BY <1>1, <1>2, FaultCounts
<1>7. Roles'
  BY <1>3, <1>5, <1>6 DEF Roles, Holding, Held
<1>8. LinkTyped /\ LinkTyped'
  BY <1>7, LinkIsTyped, LinkStaysTyped
<1>9. Len(Homeward') = n - 1
  BY <1>3, <1>5
<1>10. /\ g \in [1 .. Len(Homeward') -> 1 .. Len(Homeward)]
       /\ \A j, k \in 1 .. Len(Homeward') : j < k => g[j] < g[k]
       /\ \A j \in 1 .. Len(Homeward') : Homeward'[j] = Homeward[g[j]]
  <2>1. \A j \in 1 .. n - 1 : (IF j < i THEN j ELSE j + 1) \in 1 .. n
    BY <1>2
  <2>2. g \in [1 .. Len(Homeward') -> 1 .. Len(Homeward)]
    BY <1>9, <2>1
  <2>3. \A j, k \in 1 .. n - 1 : j < k =>
          (IF j < i THEN j ELSE j + 1) < (IF k < i THEN k ELSE k + 1)
    BY <1>2
  <2>4. \A j, k \in 1 .. Len(Homeward') : j < k => g[j] < g[k]
    BY <1>9, <2>3
  <2>5. \A j \in 1 .. Len(Homeward') : Homeward'[j] = Homeward[g[j]]
    BY <1>3, <1>5, <1>9
  <2> QED
    BY <2>2, <2>4, <2>5
<1> HIDE DEF g
<1>11. ASSUME Connected, Sndr.job.needAck, ~NoAck
       PROVE  AnswerLost(Current)'
  <2>1. /\ Sndr.state = "WAIT_ACK"
        /\ n <= 1 /\ Homeward[1].frame.job = Current
    <3>1. AckedOK /\ Homeward # <<>>
      BY <1>2, <1>11 DEF LinkOK, NoAck
    <3> QED
      BY <1>11, <3>1 DEF AckedOK, Connected
  <2>2. i = 1
    BY <1>2, <2>1
  <2>3. Current \in Transfers /\ Current' = Current
    BY <1>5, <1>8, <2>1 DEF LinkTyped, IsAsked, Current, HostRests
  <2>4. Homeward[1].frame.type = "SYS" /\ Homeward[1].frame.msg # HANDSHAKE
    <3>1. Homeward[1] \in HomeUnit
      BY <1>2, <2>2
    <3> QED
      BY <3>1 DEF HomeUnit, HANDSHAKE, ACK, NACK
  <2>5. PICK f : f = Homeward[1].frame
    OBVIOUS
  <2>6. Kind(f) = "answer" /\ Fault(Host, f) /\ f.job = Current
    BY <1>1, <2>1, <2>2, <2>4, <2>5 DEF Kind
  <2>7. AnswerLost(f.job)'
    BY <1>2, <2>3, <2>6, FaultCounts
  <2> QED
    BY <2>3, <2>6, <2>7 DEF AnswerLost
<1> HIDE DEF n
<1>12. AnswerGone(g)
  BY <1>5, <1>6, <1>10, <1>11 DEF AnswerGone
<1> QED
  BY <1>5, <1>7, <1>8, <1>12, AnswerGoneKept

\* Answers are headers.
LEMMA AnswersStayIntact == Roles => ~GarbleUnit(Host)
<1> SUFFICES ASSUME Roles, GarbleUnit(Host) PROVE FALSE
  OBVIOUS
<1>1. PICK i \in 1 .. Len(Homeward) : Homeward[i].part = "payload"
  BY DEF GarbleUnit, Homeward
<1>2. Homeward[i] \in HomeUnit
  BY DEF Roles
<1> QED
  BY <1>1, <1>2 DEF HomeUnit
-----------------------------------------------------------------------------
(* The slave starts anew, or nobody listens there.                         *)
LEMMA SlaveRestartsKept ==
  ASSUME TransferInv, TransferInv', Roles, LinkOK, EndOK, Restart(Slave)
  PROVE  Roles' /\ Kept
<1>1. /\ Host \in Node /\ Slave \in Node /\ Host # Slave
      /\ line \in [Node -> Seq(AskedUnit)] /\ parser \in [Node -> ParserState]
      /\ kernel \in [Node -> KernelState] /\ snd \in [Node -> Sender]
      /\ rcv \in [Node -> Receiver] /\ waiting \in [Node -> JobRecord]
  BY TwoNodes DEF TransferInv, LineInv, ParserInv, LibInv, JobsAsked
<1>2. /\ LibRestart(Slave) /\ line' = [line EXCEPT ![Slave] = <<>>]
      /\ asked' = asked /\ status' = status /\ delivered' = delivered /\ reported' = reported
      /\ faults' = faults
  BY DEF Restart, ghosts
<1>3. Outward' = <<>> /\ Homeward' = Homeward
  BY <1>1, <1>2 DEF Outward, Homeward
<1>4. /\ Held' = EmptyParser /\ Rcvr' = IdleReceiver /\ HostRests
      /\ kernel'[Slave] = "IDLE" /\ kernel'[Host] = kernel[Host]
      /\ waiting'[Slave] = NoJob /\ parser'[Host] = parser[Host]
  BY <1>1, <1>2 DEF LibRestart, Held, Rcvr, HostRests, Sndr, Waits
<1>5. ~Holding' /\ ~Open'
  BY <1>4 DEF Holding, Open, EmptyParser, IdleReceiver
<1>6. Roles'
  <2>1. Outward' \in Seq(OutUnit)
    BY <1>3
  <2> QED
    BY <1>2, <1>3, <1>4, <1>5, <2>1 DEF Roles
<1>7. LinkTyped /\ LinkTyped'
  BY <1>6, LinkIsTyped, LinkStaysTyped
<1> DEFINE g == [i \in 1 .. 0 |-> i]
<1>8. Len(Outward') = 0
  BY <1>3
<1>9. g \in [1 .. 0 -> 1 .. Len(Outward)] /\ \A i \in 1 .. Len(Outward') : FALSE
  BY <1>8
<1> HIDE DEF g
<1>10. \A i \in 1 .. Len(Homeward) : Homeward'[i].age = Homeward[i].age + 0
  <2>1. ASSUME NEW i \in 1 .. Len(Homeward)
        PROVE  Homeward'[i].age = Homeward[i].age + 0
    <3>1. Homeward'[i].age = Homeward[i].age /\ Homeward[i].age \in 0 .. MaxDelay
      BY <1>3, <1>7, UnitsAreUnits DEF UnitFacts
    <3> QED
      BY <3>1
  <2> QED
    BY <2>1
<1>11. Sndr'.age <= Sndr.age + 0
  <2>1. Sndr'.age = Sndr.age /\ Sndr.age \in Nat
    BY <1>4, <1>7, UnitsAreUnits DEF UnitFacts, HostRests
  <2> QED
    BY <2>1
<1>12. Fades(0, g)
  BY <1>2, <1>3, <1>4, <1>5, <1>8, <1>9, <1>10, <1>11
  DEF Fades, SenderGoesUnchanged, HostRests, AnswerLost
<1> QED
  BY <1>2, <1>6, <1>7, <1>12, FadesKept

LEMMA UnheardKept ==
  ASSUME TransferInv, TransferInv', Roles, LinkOK, EndOK, Unheard(Slave)
  PROVE  Roles' /\ Kept /\ (Listening => Listening')
<1>1. /\ Host \in Node /\ Slave \in Node /\ Host # Slave
      /\ line \in [Node -> Seq(AskedUnit)] /\ Outward \in Seq(OutUnit)
  BY TwoNodes DEF TransferInv, LineInv, Roles
<1>2. /\ Outward # <<>> /\ Outward' = Tail(Outward) /\ Homeward' = Homeward
      /\ UNCHANGED <<libVars, asked, status, delivered, reported, faults>>
  BY <1>1 DEF Unheard, ghosts, Outward, Homeward
<1>3. Outward' \in Seq(OutUnit)
  BY <1>1, <1>2
<1>4. HostRests /\ Held' = Held /\ Rcvr' = Rcvr
  BY <1>2 DEF HostRests, libVars, Sndr, Waits, Held, Rcvr
<1>5. Roles'
  BY <1>2, <1>3, <1>4 DEF Roles, libVars, Holding
<1>6. LinkTyped /\ LinkTyped'
  BY <1>5, LinkIsTyped, LinkStaysTyped
<1>7. Forgets /\ (Open => Open')
  <2>1. Rcvr.age \in Nat
    BY <1>6, UnitsAreUnits DEF UnitFacts
  <2> QED
    BY <1>4, <2>1 DEF Forgets, Holding, Open
<1> QED
  BY <1>2, <1>4, <1>5, <1>6, <1>7, PassesOver DEF Pops

-----------------------------------------------------------------------------
(* Time passes.                                                            *)

LEMMA OlderByOne ==
  ASSUME NEW age \in Nat, NEW limit \in Nat
  PROVE  Older(age, limit) \in Nat /\ Older(age, limit) <= age + 1
  BY DEF Older

LEMMA UnitAged ==
  ASSUME NEW u \in Unit, NEW v, v = [u EXCEPT !.age = @ + 1]
  PROVE  /\ v \in Unit /\ v.age = u.age + 1
         /\ v.frame = u.frame /\ v.part = u.part
  BY DEF Unit

Aged(s) == [i \in 1 .. Len(s) |-> [s[i] EXCEPT !.age = @ + 1]]

LEMMA UnitsAge ==
  ASSUME NEW s \in Seq(OutUnit \union HomeUnit),
         \A i \in 1 .. Len(s) : s[i].age < MaxDelay,
         NEW t, t = Aged(s)
  PROVE  /\ Len(t) = Len(s)
         /\ \A i \in 1 .. Len(s) :
              t[i].frame = s[i].frame /\ t[i].part = s[i].part /\ t[i].age = s[i].age + 1
         /\ s \in Seq(OutUnit) => t \in Seq(OutUnit)
         /\ s \in Seq(HomeUnit) => t \in Seq(HomeUnit)
<1>1. Len(s) \in Nat /\ \A i \in 1 .. Len(s) : s[i] \in OutUnit \union HomeUnit
  OBVIOUS
<1>2. \A u \in OutUnit \union HomeUnit : u \in Unit /\ u.age \in Nat
  BY DEF OutUnit, HomeUnit, Unit
<1>3. ASSUME NEW i \in 1 .. Len(s)
      PROVE  /\ t[i] \in Unit /\ t[i].age = s[i].age + 1
             /\ t[i].frame = s[i].frame /\ t[i].part = s[i].part
             /\ t[i].age <= MaxDelay
  <2> DEFINE v == t[i]
             u == s[i]
  <2>1. u \in Unit /\ u.age \in Nat /\ v = [u EXCEPT !.age = @ + 1] /\ u.age < MaxDelay
    BY <1>1, <1>2 DEF Aged
  <2> HIDE DEF u, v
  <2>2. v \in Unit /\ v.age = u.age + 1 /\ v.frame = u.frame /\ v.part = u.part
    BY <2>1, UnitAged
  <2>3. v.age <= MaxDelay
    BY <2>1, <2>2, DelayAssumption
  <2> QED
    BY <2>2, <2>3 DEF u, v
<1>4. Len(t) = Len(s) /\ DOMAIN t = 1 .. Len(s) /\ t \in [1 .. Len(s) -> Unit]
  <2>1. t \in [1 .. Len(s) -> Unit]
    BY <1>3 DEF Aged
  <2>2. t \in Seq(Unit)
    BY <1>1, <2>1
  <2> QED
    BY <1>1, <2>1, <2>2
<1>5. ASSUME s \in Seq(OutUnit) PROVE t \in Seq(OutUnit)
  <2>1. \A i \in 1 .. Len(s) : t[i] \in OutUnit
    <3>1. \A i \in 1 .. Len(s) : s[i] \in OutUnit
      BY <1>5
    <3> QED
      BY <1>3, <3>1 DEF OutUnit
  <2>2. t \in [1 .. Len(s) -> OutUnit]
    BY <1>4, <2>1
  <2> QED
    BY <1>1, <2>2
<1>6. ASSUME s \in Seq(HomeUnit) PROVE t \in Seq(HomeUnit)
  <2>1. \A i \in 1 .. Len(s) : t[i] \in HomeUnit
    <3>1. \A i \in 1 .. Len(s) : s[i] \in HomeUnit
      BY <1>6
    <3> QED
      BY <1>3, <3>1 DEF HomeUnit
  <2>2. t \in [1 .. Len(s) -> HomeUnit]
    BY <1>4, <2>1
  <2> QED
    BY <1>1, <2>2
<1> QED
  BY <1>3, <1>4, <1>5, <1>6

LEMMA PassKept ==
  ASSUME TransferInv, TransferInv', Roles, LinkOK, EndOK, Pass
  PROVE  Roles' /\ Kept /\ (Listening => Listening')
<1>1. /\ Host \in Node /\ Slave \in Node /\ Host # Slave
      /\ snd \in [Node -> Sender] /\ rcv \in [Node -> Receiver]
      /\ parser \in [Node -> ParserState]
      /\ Outward \in Seq(OutUnit) /\ Homeward \in Seq(HomeUnit)
  BY TwoNodes DEF TransferInv, ParserInv, LibInv, Roles
<1>2. /\ AgeTimers
      /\ asked' = asked /\ status' = status /\ delivered' = delivered /\ reported' = reported
      /\ faults' = faults /\ kernel' = kernel /\ waiting' = waiting
  BY DEF Pass, ghosts, AgeTimers
<1>3. /\ \A i \in 1 .. Len(Outward) : Outward[i].age < MaxDelay
      /\ \A i \in 1 .. Len(Homeward) : Homeward[i].age < MaxDelay
      /\ Outward' = Aged(Outward) /\ Homeward' = Aged(Homeward)
  BY <1>1 DEF Pass, Outward, Homeward, Aged
<1>4. /\ Len(Outward') = Len(Outward) /\ Outward' \in Seq(OutUnit)
      /\ \A i \in 1 .. Len(Outward) :
           /\ Outward'[i].frame = Outward[i].frame /\ Outward'[i].part = Outward[i].part
           /\ Outward'[i].age = Outward[i].age + 1
  <2>1. PICK s, t : s = Outward /\ t = Outward'
    OBVIOUS
  <2>2. /\ s \in Seq(OutUnit) /\ s \in Seq(OutUnit \union HomeUnit)
        /\ \A i \in 1 .. Len(s) : s[i].age < MaxDelay
        /\ t = Aged(s)
    BY <1>1, <1>3, <2>1
  <2>3. /\ Len(t) = Len(s) /\ t \in Seq(OutUnit)
        /\ \A i \in 1 .. Len(s) :
             t[i].frame = s[i].frame /\ t[i].part = s[i].part /\ t[i].age = s[i].age + 1
    BY <2>2, UnitsAge
  <2> QED
    BY <2>1, <2>3
<1>5. /\ Len(Homeward') = Len(Homeward) /\ Homeward' \in Seq(HomeUnit)
      /\ \A i \in 1 .. Len(Homeward) :
           Homeward'[i].frame = Homeward[i].frame /\ Homeward'[i].age = Homeward[i].age + 1
  <2>1. PICK s, t : s = Homeward /\ t = Homeward'
    OBVIOUS
  <2>2. /\ s \in Seq(HomeUnit) /\ s \in Seq(OutUnit \union HomeUnit)
        /\ \A i \in 1 .. Len(s) : s[i].age < MaxDelay
        /\ t = Aged(s)
    BY <1>1, <1>3, <2>1
  <2>3. /\ Len(t) = Len(s) /\ t \in Seq(HomeUnit)
        /\ \A i \in 1 .. Len(s) :
             t[i].frame = s[i].frame /\ t[i].part = s[i].part /\ t[i].age = s[i].age + 1
    BY <2>2, UnitsAge
  <2> QED
    BY <2>1, <2>3
<1>6. /\ Sndr'.state = Sndr.state /\ Sndr'.job = Sndr.job /\ Sndr'.seq = Sndr.seq
      /\ Sndr'.sent = Sndr.sent /\ Sndr'.tries = Sndr.tries
      /\ Sndr'.age <= Sndr.age + 1
  <2> DEFINE age == Older(Sndr.age, Timeout)
  <2>1. Sndr \in Sender /\ Sndr.age \in Nat
    BY <1>1 DEF Sndr, Sender
  <2>2. age \in Nat /\ age <= Sndr.age + 1
    BY <2>1, TimeLimits, OlderByOne
  <2>3. Sndr' = IF Sndr.state \in {"HANDSHAKE", "WAIT_ACK"}
                THEN [Sndr EXCEPT !.age = age] ELSE Sndr
    BY <1>1, <1>2, <2>1 DEF AgeTimers, Sndr, Sender
  <2> HIDE DEF age
  <2> QED
    BY <2>1, <2>2, <2>3 DEF Sender
<1>7. Rcvr'.state = Rcvr.state /\ Rcvr'.count = Rcvr.count /\ Rcvr'.age <= Rcvr.age + 1
  <2> DEFINE age == Older(Rcvr.age, ReceiveLimit)
  <2>1. Rcvr \in Receiver /\ Rcvr.age \in Nat
    BY <1>1 DEF Rcvr, Receiver
  <2>2. age \in Nat /\ age <= Rcvr.age + 1
    BY <2>1, TimeLimits, OlderByOne
  <2>3. Rcvr' = IF Rcvr.state = "RECVING" THEN [Rcvr EXCEPT !.age = age] ELSE Rcvr
    BY <1>1, <1>2, <2>1 DEF AgeTimers, Rcvr, Receiver
  <2> HIDE DEF age
  <2> QED
    BY <2>1, <2>2, <2>3 DEF Receiver
<1>8. \A n \in Node : parser'[n].state = parser[n].state /\ parser'[n].frame = parser[n].frame
  <2>1. ASSUME NEW n \in Node
        PROVE  parser'[n].state = parser[n].state /\ parser'[n].frame = parser[n].frame
    <3> DEFINE age == Older(parser[n].age, Stale)
    <3>1. parser[n] \in ParserState
      BY <1>1
    <3>2. parser'[n] = IF parser[n].state = "PAYLOAD"
                       THEN [parser[n] EXCEPT !.age = age] ELSE parser[n]
      BY <1>2, <3>1 DEF AgeTimers, ParserState
    <3> HIDE DEF age
    <3> QED
      BY <3>1, <3>2 DEF ParserState
  <2> QED
    BY <2>1
<1>9. (Holding' <=> Holding) /\ Held'.frame = Held.frame
  BY <1>1, <1>8 DEF Holding, Held
<1>10. Roles'
  BY <1>1, <1>2, <1>4, <1>5, <1>8, <1>9 DEF Roles
<1>11. LinkTyped /\ LinkTyped'
  BY <1>10, LinkIsTyped, LinkStaysTyped
<1> DEFINE g == [i \in 1 .. Len(Outward') |-> i]
<1>12. /\ g \in [1 .. Len(Outward') -> 1 .. Len(Outward)]
       /\ \A i \in 1 .. Len(Outward') : g[i] = i
  BY <1>4
<1> HIDE DEF g
<1>13. Waits' = Waits
  BY <1>2 DEF Waits
<1>14. Fades(1, g)
  BY <1>2, <1>4, <1>5, <1>6, <1>7, <1>9, <1>12, <1>13
  DEF Fades, SenderGoesUnchanged, Open, AnswerLost
<1>15. Open => Open'
  BY <1>7 DEF Open
<1> QED
  BY <1>2, <1>10, <1>11, <1>14, <1>15, FadesListening, FadesKept
-----------------------------------------------------------------------------
(* As long as neither flash nor power fails, the slave restarts only to    *)
(* enter its boot loader, which finds the flag and stays: the transfers go *)
(* on with both ends as they were, or with a slave that hears nothing.     *)
UnharmedInv ==
  flashFaults = 0 =>
    /\ Roles /\ LinkOK /\ EndOK
    /\ device = "app" => Listening
    /\ step \in {"flag", "leave"} => magic = "set"
    /\ step = "leave" => flag = "set"
    /\ device = "reset" => FlagIsSet
    /\ device # "app" => step = "none"

\* What a step for both ends and the line, or for the flag, has to keep.
TransfersGoOn == Roles' /\ Kept /\ (device = "app" /\ Listening /\ device' = "app" => Listening')

FlagGoesOn ==
  /\ step' \in {"flag", "leave"} => magic' = "set"
  /\ step' = "leave" => flag' = "set"
  /\ device' = "reset" => FlagIsSet'
  /\ device' # "app" => step' = "none"
  /\ device' = "app" => device = "app"

LEMMA UnharmedInitially == Init => UnharmedInv
<1> SUFFICES ASSUME Init PROVE UnharmedInv
  OBVIOUS
<1>1. Host \in Node /\ Slave \in Node
  BY TwoNodes
<1>2. /\ kernel = [n \in Node |-> "IDLE"] /\ waiting = [n \in Node |-> NoJob]
      /\ snd = [n \in Node |-> IdleSender] /\ rcv = [n \in Node |-> IdleReceiver]
      /\ parser = [n \in Node |-> EmptyParser] /\ line = [n \in Node |-> <<>>]
      /\ asked = [x \in Transfers |-> NoJob] /\ status = [x \in Transfers |-> "none"]
      /\ delivered = [x \in Transfers |-> {}] /\ reported = {}
      /\ faults = [x \in Transfers |-> [k \in Kinds |-> 0]]
  BY DEF Init, TransferInit, LibInit
<1>3. /\ Outward = <<>> /\ Homeward = <<>> /\ Sndr = IdleSender /\ Rcvr = IdleReceiver
      /\ Held = EmptyParser /\ Waits = NoJob
  BY <1>1, <1>2 DEF Outward, Homeward, Sndr, Rcvr, Held, Waits
<1>4. Len(Outward) = 0 /\ Len(Homeward) = 0 /\ ~Holding /\ ~Open /\ ~Connected
      /\ Sndr.state = "IDLE" /\ Sndr.tries = 0
  BY <1>3 DEF Holding, Open, Connected, EmptyParser, IdleReceiver, IdleSender
<1>5. Roles
  <2>1. faults \in [Transfers -> [Kinds -> Nat]]
    BY <1>2
  <2>2. Outward \in Seq(OutUnit) /\ Homeward \in Seq(HomeUnit)
    BY <1>3
  <2> QED
    BY <1>1, <1>2, <1>4, <2>1, <2>2 DEF Roles, EmptyParser
<1>6. /\ \A i \in 1 .. Len(Outward) : FALSE
      /\ \A i \in 1 .. Len(Homeward) : FALSE
  BY <1>4
<1> HIDE DEF Init
<1>7. \A f : ~Carried(f)
  BY <1>4, <1>6 DEF Carried
<1>8. LinkOK
  <2>1. SenderOK /\ TimingOK
    BY <1>3, <1>4, <1>6 DEF SenderOK, TimingOK
  <2>2. CarriedOK /\ CountOK /\ SpentOK
    BY <1>2, <1>4, <1>7 DEF CarriedOK, Untouched, CountOK, SpentOK
  <2>3. AckedOK /\ PlainOK
    BY <1>4, <1>6, <1>7 DEF AckedOK, PlainOK
  <2>4. AckOK /\ AheadOK
    BY <1>4, <1>6 DEF AckOK, AheadOK, NoAck
  <2> QED
    BY <2>1, <2>2, <2>3, <2>4 DEF LinkOK
<1>9. EndOK /\ Listening
  BY <1>2, <1>6 DEF EndOK, Listening, NoAck
<1> QED
  BY <1>5, <1>8, <1>9 DEF UnharmedInv, Init, BootInit

LEMMA TransfersRest ==
  ASSUME Roles, LinkOK, EndOK, libVars' = libVars, line' = line, ghosts' = ghosts
  PROVE  TransfersGoOn
<1>1. UNCHANGED <<kernel, waiting, snd, rcv, parser, line, asked, status, delivered, reported, faults>>
  BY DEF libVars, ghosts
<1>2. /\ Outward' = Outward /\ Homeward' = Homeward /\ Sndr' = Sndr /\ Rcvr' = Rcvr
      /\ Held' = Held /\ Waits' = Waits
  BY <1>1 DEF Outward, Homeward, Sndr, Rcvr, Held, Waits
<1>3. Roles' /\ (Listening => Listening')
  BY <1>1, <1>2 DEF Roles, Holding, Listening, Connected, NoAck, Open, Ahead, IsApp
<1>4. LinkOK' /\ EndOK'
  <2>1. SenderOK' /\ TimingOK'
    BY <1>1, <1>2 DEF LinkOK, SenderOK, TimingOK, Connected, Current
  <2>2. \A f : Carried(f)' <=> Carried(f)
    BY <1>2 DEF Carried, Holding, IsApp
  <2>3. (Connected' <=> Connected) /\ (Open' <=> Open) /\ (Holding' <=> Holding)
        /\ Current' = Current /\ (NoApp' <=> NoApp) /\ (NoHead' <=> NoHead) /\ (NoAck' <=> NoAck)
        /\ (\A x : AnswerLost(x)' <=> AnswerLost(x))
    BY <1>1, <1>2 DEF Connected, Open, Holding, Current, NoApp, NoHead, NoAck, AnswerLost
  <2>4. CarriedOK'
    BY <1>1, <1>2, <2>2, <2>3 DEF LinkOK, CarriedOK, Unsent, Untouched
  <2>5. CountOK'
    BY <1>1, <1>2, <2>2, <2>3 DEF LinkOK, CountOK
  <2>6. AckedOK'
    BY <1>1, <1>2, <2>2, <2>3 DEF LinkOK, AckedOK
  <2>7. PlainOK' /\ SpentOK'
    BY <1>1, <1>2, <2>2, <2>3 DEF LinkOK, PlainOK, SpentOK
  <2>8. AckOK'
    BY <1>1, <1>2, <2>3 DEF LinkOK, AckOK
  <2>9. AheadOK'
    BY <1>1, <1>2, <2>3 DEF LinkOK, AheadOK, Ahead
  <2>10. EndOK'
    BY <1>1, <2>3 DEF EndOK
  <2> QED
    BY <2>1, <2>4, <2>5, <2>6, <2>7, <2>8, <2>9, <2>10 DEF LinkOK
<1>5. ServiceStep
  BY <1>1, ServiceRests
<1> QED
  BY <1>3, <1>4, <1>5 DEF TransfersGoOn, Kept

LEMMA TransfersStep ==
  ASSUME TransferInv, TransferInv', Roles, LinkOK, EndOK, device = "app" => Listening,
         [Next]_vars
  PROVE  TransfersGoOn
<1> USE DEF TransfersGoOn
<1>1. CASE HostStep
  BY <1>1, HostParsesKept, HostRunsKept DEF HostStep
<1>2. CASE HostRequest
  BY <1>2, HostAsksKept DEF HostRequest
<1>3. CASE ProcessOta
  BY <1>3, SlaveParsesKept DEF ProcessOta, OtaTaskRuns
<1>4. CASE EnterUpgrade
  BY <1>4, TransfersRest DEF EnterUpgrade
<1>5. CASE LtlpRun
  BY <1>5, SlaveRunsKept DEF LtlpRun
<1>6. CASE LineFault
  <2>1. PICK n \in Node : LoseUnit(n) \/ GarbleUnit(n)
    BY <1>6 DEF LineFault
  <2>2. n = Host \/ n = Slave
    BY TwoNodes
  <2> QED
    BY <2>1, <2>2, SlaveLosesKept, SlaveGarbledKept, HostLosesKept, AnswersStayIntact
<1>7. CASE ResetStep \/ PowerFault
  <2>1. Restart(Slave) /\ device' # "app"
    BY <1>7 DEF ResetStep, PowerFault, GoDown, SystemReset, PowerLoss
  <2> QED
    BY <2>1, SlaveRestartsKept
<1>8. CASE NotHeard
  BY <1>8, UnheardKept DEF NotHeard
<1>9. CASE TimePasses
  BY <1>9, PassKept DEF TimePasses
<1>10. CASE CommandStep \/ FlashStep \/ BootLoaderStep \/ PortReceives \/ UNCHANGED vars
  <2>1. UNCHANGED transferVars
    BY <1>10 DEF CommandStep, FlashStep, BootLoaderStep, PortReceives, vars
  <2>2. libVars' = libVars /\ line' = line /\ ghosts' = ghosts
    BY <2>1 DEF transferVars
  <2> QED
    BY <2>2, TransfersRest
<1> QED
  BY <1>1, <1>2, <1>3, <1>4, <1>5, <1>6, <1>7, <1>8, <1>9, <1>10
  DEF Next, SystemStep, OtaTaskStep

\* Only a step that is counted makes the flag's words other than they should be.
LEMMA FlagStep ==
  ASSUME SettingInv, UnharmedInv, [Next]_vars, flashFaults' = 0
  PROVE  flashFaults = 0 /\ FlagGoesOn
<1> USE DEF SettingInv, UnharmedInv, FlagIsSet, FlagGoesOn
<1>1. CASE BeginSetting("ota") \/ BeginSetting("command")
  BY <1>1 DEF BeginSetting
<1>2. CASE EraseSector
  BY <1>2 DEF EraseSector
<1>3. CASE WriteMagic
  BY <1>3 DEF WriteMagic
<1>4. CASE WriteFlag
  BY <1>4 DEF WriteFlag
<1>5. CASE OperationFails \/ PowerLoss
  <2>1. flashFaults' = flashFaults + 1 /\ flashFaults \in Nat
    BY <1>5 DEF OperationFails, PowerLoss, FlashFault
  <2> QED
    BY <2>1
<1>6. CASE SystemReset
  BY <1>6 DEF SystemReset
<1>7. CASE BootLoaderUpgrades \/ BootLoaderStarts
  BY <1>7 DEF BootLoaderUpgrades, BootLoaderStarts
<1>8. CASE UNCHANGED bootVars
  BY <1>8 DEF bootVars
<1> QED
  BY FlagActions, <1>1, <1>2, <1>3, <1>4, <1>5, <1>6, <1>7, <1>8

LEMMA UnharmedStep ==
  ASSUME TransferInv, TransferInv', SettingInv, UnharmedInv, [Next]_vars
  PROVE  UnharmedInv' /\ (flashFaults' = 0 => ServiceStep)
<1> SUFFICES ASSUME flashFaults' = 0
             PROVE  UnharmedInv' /\ ServiceStep
  BY DEF UnharmedInv
<1>1. flashFaults = 0 /\ FlagGoesOn
  BY FlagStep
<1>2. TransfersGoOn
  BY <1>1, TransfersStep DEF UnharmedInv
<1> QED
  BY <1>1, <1>2 DEF UnharmedInv, TransfersGoOn, Kept, FlagGoesOn

(* The receiver counts frames without looking at their numbers             *)
(* (ltlp_receiver.c:31): whatever the line loses, and however a transfer   *)
(* follows on another that failed or was given up, what it reports as the  *)
(* whole is the whole, unless an answer to this transfer was lost.         *)
THEOREM ReportedIsComplete == Spec => [](flashFaults = 0 => ReportedComplete)
<1> DEFINE I == TransferInv /\ SettingInv /\ UnharmedInv
<1>1. Init => I
  BY TransferInitially, UnharmedInitially DEF Init, BootInit, SettingInv
<1>2. I /\ [Next]_vars => I'
  BY TransferStep, SettingStep, UnharmedStep DEF TransferKept
<1>3. I => (flashFaults = 0 => ReportedComplete)
  BY DEF UnharmedInv, EndOK, AnswerLost, ReportedComplete
<1> QED
  BY <1>1, <1>2, <1>3, PTL DEF Spec

(* LTLP keeps what TransferService promises: acknowledged frames reach the *)
(* callback in order and only of what was asked for, and done means all of *)
(* them, for every line that loses, garbles and delays frames by less than *)
(* half a timeout, as long as neither flash nor power fails.               *)
THEOREM ServiceIsSafe ==
  Spec /\ [](flashFaults = 0) => Service!Init /\ [][Service!Next]_(Service!serviceVars)
<1> DEFINE I == TransferInv /\ SettingInv /\ UnharmedInv
           Unharmed == flashFaults = 0
<1>1. Init => I
  BY TransferInitially, UnharmedInitially DEF Init, BootInit, SettingInv
<1>2. I /\ [Next]_vars => I' /\ (Unharmed' => [Service!Next]_(Service!serviceVars))
  BY TransferStep, SettingStep, UnharmedStep DEF TransferKept, ServiceStep
<1>3. Init => Service!Init
  <2>1. AsDemand(NoJob) = Service!NotAsked
    BY DEF AsDemand, NoJob, Service!NotAsked
  <2> QED
    BY <2>1 DEF Init, TransferInit, Service!Init
<1> HIDE DEF I, Unharmed
<1>4. Spec /\ []Unharmed => Service!Init /\ [][Service!Next]_(Service!serviceVars)
  BY <1>1, <1>2, <1>3, PTL DEF Spec
<1> QED
  BY <1>4 DEF Unharmed
=============================================================================
