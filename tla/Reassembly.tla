----------------------------- MODULE Reassembly -----------------------------
(***************************************************************************)
(* The receiving side of the protocol processor                            *)
(* (src/protocol/ProtocolProcessor.cpp): frames are cut out of a buffer of *)
(* received bytes, fragments are collected by packet id, and a frame is    *)
(* made of them when as many have come as the last of them announced.      *)
(*                                                                         *)
(* Bytes are counted in units of half a fragment: a fragment arrives as    *)
(* its "head" (header and first half) and its "tail"; the short frame of a *)
(* request is one unit, "all".  The code has no checksum: a frame whose    *)
(* bytes are not its own is accepted.                                      *)
(***************************************************************************)
EXTENDS Integers, Sequences, FiniteSets, SequencesExt

CONSTANTS
  Packet,      (* The packet ids heard on the air.                         *)
  MaxBuffer    (* MAX_RECEIVE_BUFFER_SIZE, in units.                       *)

ASSUME MaxBufferAssumption == MaxBuffer \in Nat

VARIABLES
  receiveBuffer,   (* receiveBuffer_, as far as it was looked at.          *)
  unread,          (* The rest of it, of a reception being processed.      *)
  fragmentMap,     (* fragmentMap_, a FragmentInfo for each packet id.     *)
  completeFrames   (* completeFrames_: packet id and parts of each frame.  *)

processorVars == <<receiveBuffer, unread, fragmentMap, completeFrames>>

(* A frame on the air: fragment seq of message msg; last is the absence of *)
(* moreFragmentsFlag; tiny, that its payload has less than five bytes.     *)
Fragment(packet, msg, seq, last, tiny) ==
  [packet |-> packet, msg |-> msg, seq |-> seq, last |-> last, tiny |-> tiny]

IsFragment(f) == f.seq > 0 \/ ~f.last

UnitsOf(f) ==
  IF IsFragment(f)
  THEN <<[part |-> "head", frame |-> f], [part |-> "tail", frame |-> f]>>
  ELSE <<[part |-> "all", frame |-> f]>>

NoFragments == [total |-> 0, parts |-> <<>>]

ProcessorInit ==
  /\ receiveBuffer = <<>> /\ unread = <<>>
  /\ fragmentMap = [p \in Packet |-> NoFragments]
  /\ completeFrames = <<>>

(* The parts at 0 .. total - 1, one after the other; gaps are passed over: *)
(* the i-th has i - 1 before it.                                           *)
InOrder(parts, total) ==
  LET seqs == DOMAIN parts \intersect 0 .. total - 1
      Nth(i) == CHOOSE q \in seqs : Cardinality({r \in seqs : r < q}) = i - 1
  IN [i \in 1 .. Cardinality(seqs) |-> parts[Nth(i)]]

Frame(packet, parts) == [packet |-> packet, parts |-> parts]

\* fragmentInfo with the fragment f stored in it.
Stored(f, part) ==
  LET kept == fragmentMap[f.packet] IN
  [total |-> IF f.last THEN f.seq + 1 ELSE kept.total,
   parts |-> [s \in {f.seq} \union DOMAIN kept.parts |-> IF s = f.seq THEN part ELSE kept.parts[s]]]

IsComplete(info) == Cardinality(DOMAIN info.parts) = info.total /\ 0 \in DOMAIN info.parts

\* A bug: the fragments of a complete message are kept.
ReassembleKeeping(f, part) ==
  LET info == Stored(f, part) IN
  IF f.tiny
  THEN UNCHANGED <<fragmentMap, completeFrames>>
  ELSE /\ fragmentMap' = [fragmentMap EXCEPT ![f.packet] = info]
       /\ completeFrames' = IF IsComplete(info)
                            THEN Append(completeFrames, Frame(f.packet, InOrder(info.parts, info.total)))
                            ELSE completeFrames

(* reassembleFragments.  The parts are counted, not looked at: those of an *)
(* older message count, and nothing removes them but completion.           *)
Reassemble(f, part) ==
  LET info == Stored(f, part) IN
  IF f.tiny
  THEN UNCHANGED <<fragmentMap, completeFrames>>
  ELSE IF IsComplete(info)
  THEN /\ fragmentMap' = [fragmentMap EXCEPT ![f.packet] = NoFragments]
       /\ completeFrames' = Append(completeFrames, Frame(f.packet, InOrder(info.parts, info.total)))
  ELSE /\ fragmentMap' = [fragmentMap EXCEPT ![f.packet] = info]
       /\ UNCHANGED completeFrames

AcceptWhole(f, intact) ==
  LET part == [msg |-> f.msg, seq |-> f.seq, intact |-> intact] IN
  IF IsFragment(f)
  THEN Reassemble(f, part)
  ELSE /\ completeFrames' = Append(completeFrames, Frame(f.packet, <<part>>))
       /\ UNCHANGED fragmentMap

(* extractCompleteFrames, one unit further: bytes before a frame's header  *)
(* are passed over, its length is taken from whatever follows.             *)
Extract ==
  LET unit == Head(unread)
      rest == Append(receiveBuffer, unit)
      heads == {i \in DOMAIN rest : rest[i].part = "head"}
      start == CHOOSE i \in heads : \A j \in heads : i <= j
  IN /\ unread # <<>>
     /\ unread' = Tail(unread)
     /\ IF heads = {} /\ unit.part = "all"
        THEN receiveBuffer' = <<>> /\ AcceptWhole(unit.frame, TRUE)
        ELSE IF heads # {} /\ start < Len(rest) /\ unit.part # "all"
        THEN /\ receiveBuffer' = <<>>
             /\ AcceptWhole(rest[start].frame,
                  start + 1 = Len(rest) /\ unit = [part |-> "tail", frame |-> rest[start].frame])
        ELSE receiveBuffer' = rest /\ UNCHANGED <<fragmentMap, completeFrames>>

\* processReceivedData, up to its call of extractCompleteFrames
ProcessReceivedData(data) ==
  /\ receiveBuffer' = IF Len(receiveBuffer) + Len(data) > MaxBuffer THEN <<>> ELSE receiveBuffer
  /\ unread' = data
  /\ UNCHANGED <<fragmentMap, completeFrames>>

\* getNextCompleteFrame, called when processReceivedData has returned
NextCompleteFrame(frame) ==
  /\ unread = <<>>
  /\ completeFrames # <<>>
  /\ frame = Head(completeFrames)
  /\ completeFrames' = Tail(completeFrames)
  /\ UNCHANGED <<receiveBuffer, unread, fragmentMap>>
=============================================================================
