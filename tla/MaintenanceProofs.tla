-------------------------- MODULE MaintenanceProofs --------------------------
(***************************************************************************)
(* Theorems of Maintenance, for every buffer, key set and command, every   *)
(* host, whatever bytes its frames are made of, and any number of faults.  *)
(***************************************************************************)
EXTENDS Maintenance, TransferProofs, WellFoundedInduction, SequenceTheorems

USE DEF Place

-----------------------------------------------------------------------------
(* What a step of the system is for the command line, and for the flag.    *)

LEMMA CommandActions ==
  ASSUME [Next]_vars
  PROVE  \/ \E c \in Key : TypeChar(c)
         \/ TakeZero
         \/ TypeBackspace
         \/ TypeNewline
         \/ HandleLine
         \/ CommandRestart
         \/ UNCHANGED commandVars
<1>1. CASE HostStep \/ OtaTaskStep \/ FlashStep \/ BootLoaderStep \/ NotHeard \/ TimePasses
  BY <1>1 DEF HostStep, OtaTaskStep, ProcessOta, EnterUpgrade, LtlpRun, FlashStep,
              BootLoaderStep, NotHeard, TimePasses
<1>2. CASE CommandStep
  BY <1>2 DEF CommandStep
<1>3. CASE ResetStep \/ PowerFault
  BY <1>3 DEF ResetStep, PowerFault, GoDown
<1>4. CASE PortReceives
  BY <1>4 DEF PortReceives, ReceiveByte
<1>5. CASE HostRequest \/ LineFault
  BY <1>5 DEF HostRequest, LineFault
<1>6. CASE UNCHANGED vars
  BY <1>6 DEF vars
<1>7. QED
  BY <1>1, <1>2, <1>3, <1>4, <1>5, <1>6 DEF Next, SystemStep

LEMMA FlagActions ==
  ASSUME [Next]_vars
  PROVE  \/ BeginSetting("ota") \/ BeginSetting("command")
         \/ EraseSector \/ WriteMagic \/ WriteFlag \/ OperationFails
         \/ SystemReset \/ PowerLoss
         \/ BootLoaderUpgrades \/ BootLoaderStarts
         \/ UNCHANGED bootVars
<1>1. CASE HostStep \/ NotHeard \/ TimePasses \/ HostRequest \/ LineFault \/ PortReceives
  BY <1>1 DEF HostStep, NotHeard, TimePasses, HostRequest, LineFault, PortReceives
<1>2. CASE OtaTaskStep
  BY <1>2 DEF OtaTaskStep, ProcessOta, EnterUpgrade, LtlpRun
<1>3. CASE CommandStep
  BY <1>3 DEF CommandStep
<1>4. CASE FlashStep \/ BootLoaderStep
  BY <1>4 DEF FlashStep, BootLoaderStep
<1>5. CASE ResetStep \/ PowerFault
  BY <1>5 DEF ResetStep, PowerFault
<1>6. CASE UNCHANGED vars
  BY <1>6 DEF vars
<1>7. QED
  BY <1>1, <1>2, <1>3, <1>4, <1>5, <1>6 DEF Next, SystemStep

-----------------------------------------------------------------------------
(* The end of the buffer.                                                  *)
BufferInv ==
  /\ buffer \in [Place -> Key \union {NUL}]
  /\ index \in Place
  /\ LineEndsInBuffer

LEMMA BufferInitially == CommandInit => BufferInv
  BY BufferAssumption DEF CommandInit, BufferInv, LineEndsInBuffer, EmptyBuffer

LEMMA BufferStep ==
  ASSUME BufferInv, [Next]_vars
  PROVE  BufferInv'
<1> USE BufferAssumption, KeysAssumption DEF BufferInv, LineEndsInBuffer
<1>1. CASE \E c \in Key : TypeChar(c)
  BY <1>1 DEF TypeChar
<1>2. CASE TypeBackspace
  BY <1>2 DEF TypeBackspace
<1>3. CASE TypeNewline
  BY <1>3 DEF TypeNewline
<1>4. CASE HandleLine
  BY <1>4 DEF HandleLine, TakeLine, TrimLine, LineIsOther, RewindIndex, WipeBuffer, EmptyBuffer
<1>5. CASE CommandRestart
  BY <1>5 DEF CommandRestart, EmptyBuffer
<1>6. CASE UNCHANGED commandVars
  BY <1>6 DEF commandVars
<1>7. CASE TakeZero
  BY <1>7 DEF TakeZero
<1>8. QED
  BY CommandActions, <1>1, <1>2, <1>3, <1>4, <1>5, <1>6, <1>7

(* The interrupt may come between any two steps of the task, and a line    *)
(* may be longer than the buffer: what is compared as a string always ends *)
(* in it (uart_cmd_handler.c:152, 265).                                    *)
THEOREM LinesEnd == Spec => []LineEndsInBuffer
<1>1. Init => BufferInv
  BY BufferInitially DEF Init
<1>2. BufferInv /\ [Next]_vars => BufferInv'
  BY BufferStep
<1>3. BufferInv => LineEndsInBuffer
  BY DEF BufferInv
<1>4. QED
  BY <1>1, <1>2, <1>3, PTL DEF Spec

-----------------------------------------------------------------------------
(* The flag: who writes it is running, and ota_enter_bootloader gets to    *)
(* its reset only through both words.                                      *)
SettingInv ==
  /\ flashFaults \in Nat
  /\ setter # "none" => device = "app"
  /\ step \in {"none", "erase", "magic", "flag", "leave"}
  /\ setter = "ota" /\ step \in {"flag", "leave"} => magic = "set"
  /\ setter = "ota" /\ step = "leave" => flag = "set"

LEMMA SettingStep ==
  ASSUME SettingInv, [Next]_vars
  PROVE  /\ SettingInv'
         /\ (setter = "ota" /\ device' = "reset" /\ flashFaults' = flashFaults) => FlagIsSet'
<1> USE DEF SettingInv, FlagIsSet
<1>1. CASE BeginSetting("ota") \/ BeginSetting("command")
  BY <1>1 DEF BeginSetting, Busy
<1>2. CASE EraseSector
  BY <1>2 DEF EraseSector
<1>3. CASE WriteMagic
  BY <1>3 DEF WriteMagic
<1>4. CASE WriteFlag
  BY <1>4 DEF WriteFlag
<1>5. CASE OperationFails
  BY <1>5 DEF OperationFails, FlashFault
<1>6. CASE SystemReset
  BY <1>6 DEF SystemReset
<1>7. CASE PowerLoss
  BY <1>7 DEF PowerLoss, FlashFault
<1>8. CASE BootLoaderUpgrades \/ BootLoaderStarts
  BY <1>8 DEF BootLoaderUpgrades, BootLoaderStarts
<1>9. CASE UNCHANGED bootVars
  BY <1>9 DEF bootVars
<1>10. QED
  BY FlagActions, <1>1, <1>2, <1>3, <1>4, <1>5, <1>6, <1>7, <1>8, <1>9

(* Whatever fails while ota_enter_bootloader writes the flag (ota.c:116),  *)
(* it resets the device only when the boot loader will find both words.    *)
THEOREM OtaResetsWithFlag == Spec => OtaResetFindsFlag
<1>1. Init => SettingInv
  BY DEF Init, BootInit, SettingInv
<1>2. SettingInv /\ [Next]_vars =>
        /\ SettingInv'
        /\ (setter = "ota" /\ device' = "reset" /\ flashFaults' = flashFaults) => FlagIsSet'
  BY SettingStep
<1>3. QED
  BY <1>1, <1>2, PTL DEF Spec, OtaResetFindsFlag

-----------------------------------------------------------------------------
(* The line compared.  The buffer begins with the characters of s, and     *)
(* holds s as a string if NUL follows.                                     *)
Begins(s) ==
  /\ s \in Seq(Key)
  /\ Len(s) \in Place
  /\ \A i \in 0 .. Len(s) - 1 : buffer[i] = s[i + 1]

Holds(s) == Begins(s) /\ buffer[Len(s)] = NUL

LEMMA TextHeld ==
  ASSUME NEW s, Holds(s), buffer \in [Place -> Key \union {NUL}]
  PROVE  Text = s
<1> USE BufferAssumption, KeysAssumption DEF Holds, Begins
<1>1. Len(s) \in Terminators
  BY DEF Terminators
<1>2. \A i \in Terminators : Len(s) <= i
  <2>1. ASSUME NEW i \in Terminators, i < Len(s)
        PROVE  FALSE
    <3>1. i \in 0 .. Len(s) - 1 /\ buffer[i] = NUL
      BY <2>1 DEF Terminators
    <3>2. s[i + 1] \in Key
      BY <3>1
    <3>3. QED
      BY <3>1, <3>2
  <2>2. QED
    BY <2>1 DEF Terminators
<1>3. StringEnd \in Terminators /\ \A j \in Terminators : StringEnd <= j
  BY <1>1, <1>2 DEF StringEnd
<1>4. StringEnd = Len(s)
  BY <1>1, <1>2, <1>3 DEF Terminators
<1>5. \A i \in 1 .. Len(s) : buffer[i - 1] = s[i]
  <2>1. ASSUME NEW i \in 1 .. Len(s)
        PROVE  buffer[i - 1] = s[i]
    <3>1. i - 1 \in 0 .. Len(s) - 1 /\ (i - 1) + 1 = i
      OBVIOUS
    <3>2. QED
      BY <3>1
  <2>2. QED
    BY <2>1
<1>6. QED
  BY <1>4, <1>5 DEF Text

\* A set of naturals with a bound has a greatest element.
LEMMA HasGreatest ==
  ASSUME NEW n \in Nat, NEW T \in SUBSET (0 .. n), T # {}
  PROVE  \E m \in T : \A j \in T : j <= m
<1> DEFINE Below == OpToRel(<, Nat)
           U == {i \in Nat : n - i \in T}
<1>1. U # {}
  <2>1. PICK i \in T : TRUE
    OBVIOUS
  <2>2. n - i \in Nat /\ n - (n - i) = i
    BY <2>1
  <2> QED
    BY <2>1, <2>2
<1>2. IsWellFoundedOn(Below, Nat)
  BY NatLessThanWellFounded, Zenon
<1>3. U \subseteq Nat
  OBVIOUS
<1>4. PICK x \in U : \A y \in U : ~(<<y, x>> \in Below)
  <2> HIDE DEF Below, U
  <2> QED
    BY <1>1, <1>2, <1>3, WFMin
<1>5. \A y \in U : ~(y < x)
  <2>1. ASSUME NEW y \in U, y < x PROVE <<y, x>> \in Below
    BY <2>1 DEF OpToRel
  <2> QED
    BY <2>1, <1>4
<1>6. ASSUME NEW j \in T PROVE j <= n - x
  <2>1. n - j \in Nat /\ n - (n - j) = j
    OBVIOUS
  <2>2. n - j \in U
    BY <2>1
  <2>3. ~(n - j < x)
    BY <1>5, <2>2
  <2> QED
    BY <2>3
<1> QED BY <1>6

\* The place where a line that is not blank is cut.
LEMMA LastNonBlankIsLast ==
  ASSUME NEW s \in Seq(Key), ~IsBlank(s)
  PROVE  /\ LastNonBlank(s) \in 1 .. Len(s)
         /\ Trim(s) \in Seq(Key)
         /\ Len(Trim(s)) = LastNonBlank(s)
         /\ \A i \in 1 .. LastNonBlank(s) : Trim(s)[i] = s[i]
<1> DEFINE NonBlank == {i \in 1 .. Len(s) : s[i] # Blank}
<1>1. \E m \in NonBlank : \A j \in NonBlank : j <= m
  <2>1. NonBlank # {} /\ NonBlank \in SUBSET (0 .. Len(s)) /\ Len(s) \in Nat
    BY DEF IsBlank
  <2> HIDE DEF NonBlank
  <2>2. QED
    BY <2>1, HasGreatest
<1>2. \E i \in 1 .. Len(s) : s[i] # Blank /\ \A j \in i + 1 .. Len(s) : s[j] = Blank
  BY <1>1
<1>3. LastNonBlank(s) \in 1 .. Len(s)
  BY <1>2 DEF LastNonBlank
<1>4. Trim(s) = SubSeq(s, 1, LastNonBlank(s))
  BY DEF Trim
<1>5. QED
  BY <1>3, <1>4

\* An empty line, and what trimming leaves of any line.
LEMMA TrimShortens ==
  ASSUME NEW s \in Seq(Key)
  PROVE  Trim(s) \in Seq(Key) /\ Len(Trim(s)) <= Len(s)
<1>1. CASE IsBlank(s)
  BY <1>1 DEF Trim
<1>2. CASE ~IsBlank(s)
  BY <1>2, LastNonBlankIsLast
<1>3. QED
  BY <1>1, <1>2

LEMMA TrimEmpty == Trim(<<>>) = <<>>
  BY DEF Trim, IsBlank

(* Until a key is hit too soon, the buffer holds the line being typed, the *)
(* line entered, the same trimmed, and nothing, one after the other.       *)
TypingInv ==
  /\ BufferInv
  /\ task \in {"wait", "trim", "compare", "rewind", "wipe"}
  /\ ready \in BOOLEAN
  /\ ~hasty =>
       /\ task = "wait" /\ ~ready =>
            Begins(typing) /\ index = Len(typing) /\ entered = <<>>
       /\ (task = "wait" /\ ready) \/ task = "trim" =>
            Holds(entered) /\ index = Len(entered) /\ typing = <<>>
       /\ task = "compare" =>
            /\ Holds(Trim(entered)) /\ entered \in Seq(Key)
            /\ index = Len(entered) /\ typing = <<>>
       /\ task = "rewind" => typing = <<>>
       /\ task = "wipe" => index = 0 /\ typing = <<>>

LEMMA TypingInitially == CommandInit => TypingInv
<1> SUFFICES ASSUME CommandInit PROVE TypingInv
  OBVIOUS
<1>1. BufferInv
  BY BufferInitially
<1>2. Holds(<<>>)
  BY BufferAssumption DEF CommandInit, Holds, Begins, EmptyBuffer
<1>3. QED
  BY <1>1, <1>2 DEF CommandInit, TypingInv, Holds

\* The line grows by a character at its end, and shrinks by one.
LEMMA LineGrows ==
  ASSUME BufferInv, Begins(typing), index = Len(typing),
         NEW c \in Key, TypeChar(c)
  PROVE  Begins(typing)' /\ index' = Len(typing')
<1> USE BufferAssumption, KeysAssumption DEF Begins, TypeChar, BufferInv
<1>1. CASE index < BufferSize - 1
  <2>1. /\ typing' = Append(typing, c) /\ typing' \in Seq(Key)
        /\ Len(typing') = Len(typing) + 1 /\ Len(typing') \in Place
    <3>1. typing' = Append(typing, c)
      BY <1>1
    <3>2. typing' \in Seq(Key) /\ Len(typing') = Len(typing) + 1
      BY <3>1
    <3>3. Len(typing') \in Place
      BY <1>1, <3>2
    <3>4. QED
      BY <3>1, <3>2, <3>3
  <2>2. ASSUME NEW i \in 0 .. Len(typing') - 1
        PROVE  buffer'[i] = typing'[i + 1]
    <3>1. CASE i = index
      BY <1>1, <2>1, <3>1
    <3>2. CASE i # index
      <4>1. i \in 0 .. Len(typing) - 1 /\ typing'[i + 1] = typing[i + 1]
        BY <2>1, <3>2
      <4>2. buffer'[i] = buffer[i]
        BY <1>1, <3>2, <4>1
      <4>3. QED
        BY <4>1, <4>2
    <3>3. QED
      BY <3>1, <3>2
  <2>3. QED
    BY <1>1, <2>1, <2>2
<1>2. CASE ~(index < BufferSize - 1)
  BY <1>2
<1>3. QED
  BY <1>1, <1>2

LEMMA LineWithoutLast ==
  ASSUME NEW S, NEW s \in Seq(S), Len(s) > 0
  PROVE  SubSeq(s, 1, Len(s) - 1) \in Seq(S) /\ Len(SubSeq(s, 1, Len(s) - 1)) = Len(s) - 1
<1>1. Len(s) \in Nat /\ \A i \in 1 .. Len(s) : s[i] \in S
  OBVIOUS
<1> DEFINE n == Len(s) - 1
<1>2. n \in Nat /\ \A i \in 1 .. n : s[i] \in S
  BY <1>1
<1> HIDE DEF n
<1>3. /\ SubSeq(s, 1, n) \in Seq(S)
      /\ Len(SubSeq(s, 1, n)) = IF 1 <= n THEN n - 1 + 1 ELSE 0
  BY <1>2, SubSeqProperties
<1>4. Len(SubSeq(s, 1, n)) = n
  BY <1>2, <1>3
<1> QED
  BY <1>3, <1>4, Zenon DEF n

LEMMA LineShrinks ==
  ASSUME BufferInv, Begins(typing), index = Len(typing), TypeBackspace
  PROVE  Begins(typing)' /\ index' = Len(typing')
<1> USE BufferAssumption, KeysAssumption DEF Begins, TypeBackspace, BufferInv
<1>1. CASE typing = <<>>
  BY <1>1
<1>2. CASE typing # <<>>
  <2>1. typing' = SubSeq(typing, 1, Len(typing) - 1) /\ Len(typing) > 0
    BY <1>2 DEF Front
  <2>2. /\ typing' \in Seq(Key) /\ Len(typing') = Len(typing) - 1 /\ Len(typing') \in Place
        /\ \A i \in 1 .. Len(typing') : typing'[i] = typing[i]
    <3>1. Len(typing) - 1 \in 0 .. Len(typing) /\ Len(typing) - 1 \in Place
      BY <2>1
    <3>2. typing' \in Seq(Key) /\ Len(typing') = Len(typing) - 1
      BY <2>1, LineWithoutLast
    <3>3. QED
      BY <2>1, <3>1, <3>2
  <2>3. ASSUME NEW i \in 0 .. Len(typing') - 1
        PROVE  buffer'[i] = typing'[i + 1]
    <3>1. buffer'[i] = buffer[i] /\ i \in 0 .. Len(typing) - 1
      BY <2>1, <2>2
    <3>2. i + 1 \in 1 .. Len(typing')
      BY <2>2
    <3>3. QED
      BY <2>2, <3>1, <3>2
  <2>4. QED
    BY <2>1, <2>2, <2>3
<1>3. QED
  BY <1>1, <1>2

LEMMA TypingStep ==
  ASSUME TypingInv, [Next]_vars
  PROVE  TypingInv'
<1> USE BufferAssumption, KeysAssumption DEF TypingInv
<1>0. BufferInv'
  BY BufferStep
<1>1. CASE \E c \in Key : TypeChar(c)
  <2>1. PICK c \in Key : TypeChar(c)
    BY <1>1
  <2>2. CASE hasty'
    BY <1>0, <2>1, <2>2 DEF TypeChar, KeyHit
  <2>3. CASE ~hasty'
    <3>1. ~hasty /\ task = "wait" /\ ~ready
      BY <2>1, <2>3 DEF TypeChar, Quiet
    <3>2. Begins(typing)' /\ index' = Len(typing')
      BY <2>1, <3>1, LineGrows
    <3>3. QED
      BY <1>0, <2>1, <3>1, <3>2 DEF TypeChar, KeyHit
  <2>4. QED
    BY <2>2, <2>3
<1>2. CASE TypeBackspace
  <2>1. CASE hasty'
    BY <1>0, <1>2, <2>1 DEF TypeBackspace, KeyHit
  <2>2. CASE ~hasty'
    <3>1. ~hasty /\ task = "wait" /\ ~ready
      BY <1>2, <2>2 DEF TypeBackspace, Quiet
    <3>2. Begins(typing)' /\ index' = Len(typing')
      BY <1>2, <3>1, LineShrinks
    <3>3. QED
      BY <1>0, <1>2, <3>1, <3>2 DEF TypeBackspace, KeyHit
  <2>3. QED
    BY <2>1, <2>2
<1>3. CASE TypeNewline
  <2> USE <1>3 DEF TypeNewline, KeyHit, BufferInv
  <2>1. CASE hasty
    BY <1>0, <2>1
  <2>2. CASE ~hasty /\ task = "wait" /\ ~ready
    <3>1. CASE typing = <<>>
      BY <1>0, <2>2, <3>1 DEF Begins
    <3>2. CASE typing # <<>>
      <4>1. index > 0 /\ entered' = typing /\ typing' = <<>> /\ ready' /\ index' = index
        BY <2>2, <3>2 DEF Begins
      <4>2. Holds(entered)'
        BY <2>2, <4>1 DEF Holds, Begins
      <4>3. QED
        BY <1>0, <2>2, <4>1, <4>2
    <3>3. QED
      BY <3>1, <3>2
  <2>3. CASE ~hasty /\ ((task = "wait" /\ ready) \/ task = "trim")
    <3>1. typing = <<>> /\ entered' = entered /\ typing' = <<>> /\ index' = index
      BY <2>3
    <3>2. Holds(entered)'
      BY <2>3, <3>1 DEF Holds, Begins
    <3>3. (task = "wait" /\ ready) => ready'
      OBVIOUS
    <3>4. QED
      BY <1>0, <2>3, <3>1, <3>2, <3>3
  <2>4. CASE ~hasty /\ task = "compare"
    <3>1. typing = <<>> /\ entered' = entered /\ typing' = <<>> /\ index' = index
      BY <2>4
    <3>2. Holds(Trim(entered))'
      BY <2>4, <3>1, TrimShortens DEF Holds, Begins
    <3>3. QED
      BY <1>0, <2>4, <3>1, <3>2
  <2>5. CASE ~hasty /\ task \in {"rewind", "wipe"}
    BY <1>0, <2>5
  <2>6. QED
    BY <2>1, <2>2, <2>3, <2>4, <2>5
<1>4. CASE TakeLine
  BY <1>0, <1>4 DEF TakeLine, Holds, Begins
<1>5. CASE TrimLine
  <2> USE <1>5 DEF TrimLine
  <2>1. CASE hasty
    BY <1>0, <2>1
  <2>2. CASE ~hasty
    <3> DEFINE s == entered
    <3>1. Holds(s) /\ index = Len(s) /\ typing = <<>> /\ s \in Seq(Key)
      BY <2>2 DEF Holds, Begins
    <3>2. Text = s
      BY <3>1, TextHeld DEF BufferInv
    <3>3. Holds(Trim(entered))'
      <4>1. CASE IsBlank(s)
        <5>1. buffer' = buffer /\ entered' = entered /\ Trim(s) = s
          BY <3>2, <4>1 DEF Trim
        <5>2. QED
          BY <3>1, <5>1 DEF Holds, Begins
      <4>2. CASE ~IsBlank(s)
        <5> DEFINE k == LastNonBlank(s)
        <5>1. /\ k \in 1 .. Len(s) /\ Trim(s) \in Seq(Key) /\ Len(Trim(s)) = k
              /\ \A i \in 1 .. k : Trim(s)[i] = s[i]
          BY <3>1, <4>2, LastNonBlankIsLast
        <5>2. buffer' = [buffer EXCEPT ![k] = NUL] /\ entered' = entered
          BY <3>2, <4>2
        <5> HIDE DEF k
        <5>3. k \in Place /\ buffer'[k] = NUL
          BY <3>1, <5>1, <5>2 DEF Holds, Begins, BufferInv
        <5>4. ASSUME NEW i \in 0 .. k - 1
              PROVE  buffer'[i] = Trim(s)[i + 1]
          <6>1. i \in 0 .. Len(s) - 1 /\ i + 1 \in 1 .. k /\ i # k
            BY <3>1, <5>1
          <6>2. buffer'[i] = buffer[i] /\ buffer[i] = s[i + 1]
            BY <3>1, <5>2, <6>1 DEF Holds, Begins, BufferInv
          <6>3. QED
            BY <5>1, <6>1, <6>2
        <5>5. QED
          BY <5>1, <5>2, <5>3, <5>4 DEF Holds, Begins
      <4>3. QED
        BY <4>1, <4>2
    <3>4. QED
      BY <1>0, <2>2, <3>1, <3>3
  <2>3. QED
    BY <2>1, <2>2
<1>6. CASE LineIsOther \/ RewindIndex
  BY <1>0, <1>6 DEF LineIsOther, RewindIndex
<1>7. CASE WipeBuffer
  <2>1. (Begins(<<>>) /\ Holds(<<>>))' /\ entered' = <<>>
    BY <1>7 DEF WipeBuffer, Holds, Begins, EmptyBuffer
  <2>2. ~hasty => typing' = <<>> /\ index' = 0
    BY <1>7 DEF WipeBuffer
  <2>3. task' = "wait" /\ ready' = ready /\ hasty' = hasty
    BY <1>7 DEF WipeBuffer
  <2>4. QED
    BY <1>0, <2>1, <2>2, <2>3
<1>8. CASE CommandRestart
  <2>1. (Begins(<<>>) /\ Holds(<<>>))' /\ entered' = <<>> /\ typing' = <<>> /\ index' = 0
    BY <1>8 DEF CommandRestart, Holds, Begins, EmptyBuffer
  <2>2. task' = "wait" /\ ready' = FALSE /\ hasty' = hasty
    BY <1>8 DEF CommandRestart
  <2>3. QED
    BY <1>0, <2>1, <2>2
<1>9. CASE UNCHANGED commandVars
  BY <1>0, <1>9 DEF commandVars, Holds, Begins
<1>10. CASE TakeZero
  BY <1>0, <1>10 DEF TakeZero, KeyHit
<1>11. QED
  BY CommandActions, <1>1, <1>2, <1>3, <1>4, <1>5, <1>6, <1>7, <1>8, <1>9, <1>10 DEF HandleLine

(* Typed at whatever moments, as long as no key is hit before the line     *)
(* before it is handled, the line that process_uart_command compares       *)
(* (uart_cmd_handler.c:197) is the line entered without its blank end.     *)
THEOREM LineIsCompared == Spec => []LineComparedIsLineEntered
<1>1. Init => TypingInv
  BY TypingInitially DEF Init
<1>2. TypingInv /\ [Next]_vars => TypingInv'
  BY TypingStep
<1>3. TypingInv => LineComparedIsLineEntered
  BY TextHeld DEF TypingInv, BufferInv, LineComparedIsLineEntered
<1>4. QED
  BY <1>1, <1>2, <1>3, PTL DEF Spec

-----------------------------------------------------------------------------
(* What a step of the system is for the transfers.                         *)
LEMMA TransferStep ==
  ASSUME TransferInv, [Next]_vars
  PROVE  TransferKept
<1> USE NodesAssumption
<1>1. CASE HostStep
  BY <1>1, ParseKeepsAll, RunKeepsAll DEF HostStep
<1>2. CASE HostRequest
  BY <1>2, HostAsksKeeps DEF HostRequest
<1>3. CASE ProcessOta
  BY <1>3, ParseKeepsAll DEF ProcessOta
<1>4. CASE EnterUpgrade
  <2>1. /\ upgradeFlag' = FALSE
        /\ UNCHANGED <<libVars, chunk, asked, status, delivered>> /\ line' = line
    BY <1>4 DEF EnterUpgrade, ghosts
  <2> QED
    BY <2>1, LineKeeps DEF TransferInv, LineInv
<1>5. CASE LtlpRun
  BY <1>5, RunKeepsAll DEF LtlpRun
<1>6. CASE LineFault
  BY <1>6, LoseUnitKeeps, GarbleUnitKeeps DEF LineFault
<1>7. CASE ResetStep \/ PowerFault
  BY <1>7, RestartKeeps DEF ResetStep, PowerFault, GoDown
<1>8. CASE NotHeard
  BY <1>8, UnheardKeeps DEF NotHeard
<1>9. CASE TimePasses
  BY <1>9, PassKeeps DEF TimePasses
<1>10. CASE CommandStep \/ FlashStep \/ BootLoaderStep \/ PortReceives \/ UNCHANGED vars
  <2>1. UNCHANGED transferVars
    BY <1>10 DEF CommandStep, FlashStep, BootLoaderStep, PortReceives, vars
  <2>2. /\ upgradeFlag' = upgradeFlag
        /\ UNCHANGED <<libVars, chunk, asked, status, delivered>> /\ line' = line
    BY <2>1 DEF transferVars, ghosts
  <2> QED
    BY <2>2, LineKeeps DEF TransferInv, LineInv
<1> QED
  BY <1>1, <1>2, <1>3, <1>4, <1>5, <1>6, <1>7, <1>8, <1>9, <1>10
  DEF Next, SystemStep, OtaTaskStep

-----------------------------------------------------------------------------
(* The types.                                                              *)

LEMMA BootTypeStep ==
  ASSUME BootTypeOK, [Next]_vars
  PROVE  BootTypeOK'
<1> USE FlashFaultsAssumption DEF BootTypeOK, Word
<1>1. CASE BeginSetting("ota") \/ BeginSetting("command")
  BY <1>1 DEF BeginSetting
<1>2. CASE EraseSector \/ WriteMagic \/ WriteFlag
  BY <1>2 DEF EraseSector, WriteMagic, WriteFlag
<1>3. Spoils => magic' \in Word /\ flag' \in Word
  BY DEF Spoils
<1>4. CASE OperationFails
  BY <1>3, <1>4 DEF OperationFails, FlashFault
<1>5. CASE PowerLoss
  BY <1>3, <1>5 DEF PowerLoss, FlashFault
<1>6. CASE SystemReset \/ BootLoaderUpgrades \/ BootLoaderStarts
  BY <1>6 DEF SystemReset, BootLoaderUpgrades, BootLoaderStarts
<1>7. CASE UNCHANGED bootVars
  BY <1>7 DEF bootVars
<1> QED
  BY FlagActions, <1>1, <1>2, <1>4, <1>5, <1>6, <1>7

LEMMA CommandTypeInitially ==
  ASSUME BufferInv, CommandInit
  PROVE  CommandTypeOK
<1>1. ready \in BOOLEAN /\ hasty \in BOOLEAN
  BY DEF CommandInit
<1> QED
  BY <1>1, KeysAssumption, UpgradeAssumption DEF CommandInit, CommandTypeOK, BufferInv

LEMMA CommandTypeStep ==
  ASSUME BufferInv, CommandTypeOK, [Next]_vars
  PROVE  CommandTypeOK'
<1> DEFINE Rest == /\ ready \in BOOLEAN
                   /\ task \in {"wait", "trim", "compare", "rewind", "wipe"}
                   /\ keys \in 0 .. MaxKeys
                   /\ typing \in Seq(Key)
                   /\ entered \in Seq(Key)
                   /\ hasty \in BOOLEAN
                   /\ spelled \in 0 .. Len(Upgrade)
<1>0. BufferInv' /\ Rest
  BY BufferStep DEF CommandTypeOK
<1> SUFFICES Rest'
  BY <1>0 DEF CommandTypeOK, BufferInv
<1> USE KeysAssumption, UpgradeAssumption
<1>1. CASE \E c \in Key : TypeChar(c)
  <2>1. PICK c \in Key : TypeChar(c)
    BY <1>1
  <2>2. Append(typing, c) \in Seq(Key)
    BY <1>0
  <2>3. spelled' \in 0 .. Len(Upgrade)
    BY <1>0, <2>1 DEF TypeChar, Spells
  <2>4. typing' \in Seq(Key) /\ entered' = entered
    BY <1>0, <2>1, <2>2 DEF TypeChar
  <2>5. ready' \in BOOLEAN /\ hasty' \in BOOLEAN
    BY <1>0, <2>1 DEF TypeChar
  <2> QED
    BY <1>0, <2>1, <2>3, <2>4, <2>5 DEF TypeChar, KeyHit
<1>2. CASE TypeBackspace
  <2>1. typing # <<>> => Front(typing) \in Seq(Key)
    BY <1>0 DEF Front
  <2>2. typing' \in Seq(Key)
    BY <1>2, <2>1 DEF TypeBackspace
  <2> QED
    BY <1>0, <1>2, <2>2 DEF TypeBackspace, KeyHit
<1>3. CASE TypeNewline
  <2>1. ready' \in BOOLEAN /\ hasty' \in BOOLEAN
    BY <1>0, <1>3 DEF TypeNewline
  <2> QED
    BY <1>0, <1>3, <2>1 DEF TypeNewline, KeyHit
<1>4. CASE HandleLine
  <2>1. ready' \in BOOLEAN /\ hasty' \in BOOLEAN
    BY <1>0, <1>4 DEF HandleLine, TakeLine, TrimLine, LineIsOther, RewindIndex, WipeBuffer
  <2>2. task' \in {"wait", "trim", "compare", "rewind", "wipe"}
    BY <1>4 DEF HandleLine, TakeLine, TrimLine, LineIsOther, RewindIndex, WipeBuffer
  <2>3. entered' = entered \/ entered' = <<>>
    BY <1>4 DEF HandleLine, TakeLine, TrimLine, LineIsOther, RewindIndex, WipeBuffer
  <2>4. keys' = keys /\ typing' = typing /\ spelled' = spelled
    BY <1>4 DEF HandleLine, TakeLine, TrimLine, LineIsOther, RewindIndex, WipeBuffer
  <2>5. keys' \in 0 .. MaxKeys /\ typing' \in Seq(Key) /\ spelled' \in 0 .. Len(Upgrade)
    BY <1>0, <2>4
  <2>6. entered' \in Seq(Key)
    <3>1. <<>> \in Seq(Key) /\ entered \in Seq(Key)
      BY <1>0
    <3> QED
      BY <2>3, <3>1
  <2> QED
    BY <2>1, <2>2, <2>5, <2>6
<1>5. CASE CommandRestart
  <2>1. ready' \in BOOLEAN /\ hasty' \in BOOLEAN
    BY <1>0, <1>5 DEF CommandRestart
  <2> QED
    BY <1>0, <1>5, <2>1 DEF CommandRestart
<1>6. CASE UNCHANGED commandVars
  BY <1>0, <1>6 DEF commandVars
<1>7. CASE TakeZero
  <2>1. ready' \in BOOLEAN /\ hasty' \in BOOLEAN
    BY <1>0, <1>7 DEF TakeZero
  <2> QED
    BY <1>0, <1>7, <2>1 DEF TakeZero, KeyHit
<1> QED
  BY CommandActions, <1>1, <1>2, <1>3, <1>4, <1>5, <1>6, <1>7

(* The variables of library, flag and command line keep their types, and a *)
(* kernel of the library at rest has reset its sender and its receiver     *)
(* (ltlp_kernel.c:58-75), whatever is lost, garbled, restarted or typed.   *)
THEOREM MaintenanceTypeCorrect == Spec => []TypeOK
<1> DEFINE I == TransferInv /\ BootTypeOK /\ BufferInv /\ CommandTypeOK
<1>1. Init => I
  <2> SUFFICES ASSUME Init PROVE I
    OBVIOUS
  <2>1. TransferInv
    BY TransferInitially DEF Init
  <2>2. BootTypeOK
    <3>1. BootInit
      BY DEF Init
    <3>2. wanted \in BOOLEAN
      BY <3>1 DEF BootInit
    <3> QED
      BY <3>1, <3>2, FlashFaultsAssumption DEF BootInit, BootTypeOK, Word
  <2>3. BufferInv
    BY BufferInitially DEF Init
  <2>4. CommandTypeOK
    BY <2>3, CommandTypeInitially DEF Init
  <2> QED
    BY <2>1, <2>2, <2>3, <2>4
<1>2. I /\ [Next]_vars => I'
  BY TransferStep, BootTypeStep, BufferStep, CommandTypeStep DEF TransferKept
<1>3. I => TypeOK
  BY DEF TransferInv, LibInv, HistoryInv, KernelState, TypeOK
<1> QED
  BY <1>1, <1>2, <1>3, PTL DEF Spec

-----------------------------------------------------------------------------
(* What the buffer begins with has come in through the port, in that       *)
(* order: until the index is set back nothing follows the bytes it has     *)
(* put there, and then the buffer is wiped before it is compared again.    *)
BeginsLikeUpgrade(n) == \A i \in 0 .. n - 1 : buffer[i] = Upgrade[i + 1]

SpellInv ==
  /\ spelled \in 0 .. Len(Upgrade)
  /\ task # "wipe" =>
       /\ \A i \in index .. BufferSize - 1 : buffer[i] = NUL
       /\ \A n \in 1 .. Len(Upgrade) : BeginsLikeUpgrade(n) => n <= spelled

LEMMA UpgradeFits ==
  /\ Len(Upgrade) \in Nat \ {0} /\ BufferSize \in Nat /\ Len(Upgrade) < BufferSize
  /\ \A i \in 1 .. Len(Upgrade) : Upgrade[i] \in Key /\ Upgrade[i] # NUL
  BY UpgradeAssumption, BufferAssumption, KeysAssumption

LEMMA SpellInitially ==
  ASSUME CommandInit PROVE SpellInv
<1>1. \A i \in Place : buffer[i] = NUL
  BY UpgradeFits DEF CommandInit, EmptyBuffer
<1>2. ASSUME NEW n \in 1 .. Len(Upgrade) PROVE ~BeginsLikeUpgrade(n)
  <2>1. 0 \in Place /\ 0 \in 0 .. n - 1 /\ 1 \in 1 .. Len(Upgrade)
    BY UpgradeFits
  <2> QED
    BY <1>1, <2>1, UpgradeFits DEF BeginsLikeUpgrade
<1> QED
  BY <1>1, <1>2, UpgradeFits DEF CommandInit, SpellInv

\* Places may be cleared without harm.
LEMMA SpellCleared ==
  ASSUME SpellInv, BufferInv, task # "wipe", spelled' = spelled, task' # "wipe",
         \A i \in Place : buffer'[i] = buffer[i] \/ buffer'[i] = NUL,
         index' \in Place, \A i \in index' .. BufferSize - 1 : buffer'[i] = NUL
  PROVE  SpellInv'
<1>1. ASSUME NEW n \in 1 .. Len(Upgrade), BeginsLikeUpgrade(n)'
      PROVE  BeginsLikeUpgrade(n)
  <2>1. ASSUME NEW i \in 0 .. n - 1 PROVE buffer[i] = Upgrade[i + 1]
    <3>1. buffer'[i] = Upgrade[i + 1]
      BY <1>1 DEF BeginsLikeUpgrade
    <3>2. i \in Place /\ Upgrade[i + 1] # NUL
      BY UpgradeFits
    <3> QED
      BY <3>1, <3>2
  <2> QED
    BY <2>1 DEF BeginsLikeUpgrade
<1> QED
  BY <1>1 DEF SpellInv

LEMMA SpellGrows ==
  ASSUME SpellInv, BufferInv, task # "wipe", NEW c \in Key, TypeChar(c)
  PROVE  SpellInv'
<1>1. task' = task /\ spelled \in 0 .. Len(Upgrade) /\ index \in Place
  BY DEF TypeChar, KeyHit, BufferInv, SpellInv
<1>2. spelled' \in 0 .. Len(Upgrade) /\ spelled <= spelled'
  BY <1>1, UpgradeFits DEF TypeChar, Spells
<1>3. CASE ~(index < BufferSize - 1)
  <2>1. buffer' = buffer /\ index' = index
    BY <1>3 DEF TypeChar
  <2> QED
    BY <1>1, <1>2, <2>1 DEF SpellInv, BeginsLikeUpgrade
<1>4. CASE index < BufferSize - 1
  <2>1. /\ index' = index + 1 /\ index + 1 \in Place /\ buffer'[index] = c
        /\ \A i \in Place : i # index => buffer'[i] = buffer[i]
    <3>1. buffer' = [buffer EXCEPT ![index] = c] /\ index' = index + 1
      BY <1>4 DEF TypeChar
    <3>2. buffer \in [Place -> Key \union {NUL}]
      BY DEF BufferInv
    <3>3. index + 1 \in Place
      BY <1>1, <1>4, UpgradeFits
    <3> QED
      BY <1>1, <3>1, <3>2, <3>3
  <2>2. \A i \in index .. BufferSize - 1 : buffer[i] = NUL
    BY DEF SpellInv
  <2>3. \A i \in index' .. BufferSize - 1 : buffer'[i] = NUL
    BY <1>1, <2>1, <2>2, UpgradeFits
  <2>4. ASSUME NEW n \in 1 .. Len(Upgrade), BeginsLikeUpgrade(n)'
        PROVE  n <= spelled'
    <3>1. \A i \in 0 .. n - 1 : buffer'[i] = Upgrade[i + 1] /\ Upgrade[i + 1] # NUL
      BY <2>4, UpgradeFits DEF BeginsLikeUpgrade
    <3>2. n <= index + 1
      BY <1>1, <2>1, <2>3, <3>1, UpgradeFits
    <3>3. CASE n <= index
      <4>1. BeginsLikeUpgrade(n)
        BY <1>1, <2>1, <3>1, <3>3, UpgradeFits DEF BeginsLikeUpgrade
      <4> QED
        BY <1>1, <1>2, <4>1 DEF SpellInv
    <3>4. CASE n = index + 1
      <4>1. index <= spelled
        <5>1. CASE index = 0
          BY <1>1, <5>1
        <5>2. CASE index # 0
          <6>1. BeginsLikeUpgrade(index) /\ index \in 1 .. Len(Upgrade)
            BY <1>1, <2>1, <3>1, <3>4, <5>2, UpgradeFits DEF BeginsLikeUpgrade
          <6> QED
            BY <6>1 DEF SpellInv
        <5> QED
          BY <5>1, <5>2
      <4>2. c = Upgrade[index + 1]
        BY <1>1, <2>1, <3>1, <3>4
      <4>3. CASE spelled = index
        <5>1. Spells(c)
          BY <1>1, <3>4, <4>2, <4>3, UpgradeFits DEF Spells
        <5> QED
          BY <3>4, <4>3, <5>1 DEF TypeChar
      <4> QED
        BY <1>1, <1>2, <3>4, <4>1, <4>3
    <3> QED
      BY <1>1, <3>2, <3>3, <3>4
  <2> QED
    BY <1>2, <2>3, <2>4 DEF SpellInv
<1> QED
  BY <1>3, <1>4

LEMMA SpellStep ==
  ASSUME SpellInv, BufferInv, task \in {"wait", "trim", "compare", "rewind", "wipe"}, [Next]_vars
  PROVE  SpellInv'
<1>0. spelled \in 0 .. Len(Upgrade) /\ index \in Place /\ BufferSize \in Nat
  BY UpgradeFits DEF SpellInv, BufferInv
<1>1. CASE \E c \in Key : TypeChar(c)
  <2>1. PICK c \in Key : TypeChar(c)
    BY <1>1
  <2>2. CASE task = "wipe"
    BY <1>0, <2>1, <2>2, UpgradeFits DEF TypeChar, KeyHit, Spells, SpellInv
  <2> QED
    BY <2>1, <2>2, SpellGrows
<1>2. CASE TakeZero \/ TypeBackspace \/ TypeNewline
  <2>1. spelled' = spelled /\ task' = task
    BY <1>2 DEF TakeZero, TypeBackspace, TypeNewline, KeyHit
  <2>2. CASE task = "wipe"
    BY <2>1, <2>2 DEF SpellInv
  <2>3. CASE task # "wipe"
    <3>1. \A i \in index .. BufferSize - 1 : buffer[i] = NUL
      BY <2>3 DEF SpellInv
    <3>2. /\ index' \in Place
          /\ \A i \in Place : buffer'[i] = buffer[i] \/ buffer'[i] = NUL
          /\ \A i \in index' .. BufferSize - 1 : buffer'[i] = NUL
      BY <1>0, <1>2, <3>1 DEF TakeZero, TypeBackspace, TypeNewline, BufferInv
    <3> QED
      BY <2>1, <2>3, <3>2, SpellCleared
  <2> QED
    BY <2>2, <2>3
<1>3. CASE TakeLine \/ LineIsOther \/ TrimLine
  <2>1. spelled' = spelled /\ task # "wipe" /\ task' # "wipe" /\ index' = index
    BY <1>3 DEF TakeLine, LineIsOther, TrimLine
  <2>2. \A i \in index .. BufferSize - 1 : buffer[i] = NUL
    BY <2>1 DEF SpellInv
  <2>3. \A i \in Place : buffer'[i] = buffer[i] \/ buffer'[i] = NUL
    BY <1>0, <1>3 DEF TakeLine, LineIsOther, TrimLine, BufferInv
  <2>4. \A i \in index' .. BufferSize - 1 : buffer'[i] = NUL
    BY <1>0, <2>1, <2>2, <2>3
  <2> QED
    BY <1>0, <2>1, <2>3, <2>4, SpellCleared
<1>4. CASE RewindIndex
  BY <1>4 DEF RewindIndex, SpellInv
<1>5. CASE WipeBuffer \/ CommandRestart
  <2>1. buffer' = EmptyBuffer /\ spelled' = spelled
    BY <1>5 DEF WipeBuffer, CommandRestart
  <2>2. \A i \in Place : buffer'[i] = NUL
    BY <2>1 DEF EmptyBuffer
  <2>3. index' \in Place
    BY <1>0, <1>5 DEF WipeBuffer, CommandRestart
  <2>4. ASSUME NEW n \in 1 .. Len(Upgrade) PROVE ~BeginsLikeUpgrade(n)'
    <3>1. 0 \in Place /\ 0 \in 0 .. n - 1 /\ 1 \in 1 .. Len(Upgrade)
      BY UpgradeFits
    <3> QED
      BY <2>2, <3>1, UpgradeFits DEF BeginsLikeUpgrade
  <2> QED
    BY <1>0, <2>1, <2>2, <2>3, <2>4 DEF SpellInv
<1>6. CASE UNCHANGED commandVars
  BY <1>6 DEF commandVars, SpellInv, BeginsLikeUpgrade
<1> QED
  BY CommandActions, <1>1, <1>2, <1>3, <1>4, <1>5, <1>6 DEF HandleLine

\* A line that is compared and found to be the command has come in.
LEMMA UpgradeIsSpelled ==
  ASSUME SpellInv, LineIsUpgrade
  PROVE  spelled = Len(Upgrade)
<1>1. ASSUME NEW i \in 0 .. Len(Upgrade) - 1
      PROVE  buffer[i] = Upgrade[i + 1]
  <2>1. Text = Upgrade /\ i + 1 \in DOMAIN Upgrade
    BY UpgradeFits, UpgradeAssumption DEF LineIsUpgrade
  <2>2. Text[i + 1] = buffer[(i + 1) - 1]
    BY <2>1 DEF Text
  <2> QED
    BY <2>1, <2>2
<1>2. BeginsLikeUpgrade(Len(Upgrade))
  BY <1>1 DEF BeginsLikeUpgrade
<1> QED
  BY <1>2, UpgradeFits DEF SpellInv, LineIsUpgrade

-----------------------------------------------------------------------------
(* Who has asked for an upgrade: a line that says so or bytes that spell   *)
(* it, too soon to be one line, or a transfer that has arrived.            *)
Asked == typed \/ (hasty /\ spelled = Len(Upgrade)) \/ UpgradeAsked

(* Until someone has, no one writes the flag and neither word is set; a    *)
(* line that says "upgrade" has been entered.                              *)
WantedInv ==
  /\ typed \in BOOLEAN
  /\ wanted => Asked
  /\ ~wanted => /\ setter = "none" /\ step = "none" /\ device # "upgrade"
                /\ magic # "set" /\ flag # "set"
  /\ ~hasty /\ Trim(entered) = Upgrade => typed

LEMMA AskedStaysAsked ==
  ASSUME TransferInv, CommandTypeOK, typed \in BOOLEAN, [Next]_vars
  PROVE  /\ Asked => Asked'
         /\ hasty => hasty'
         /\ typed => typed'
         /\ typed' \in BOOLEAN
<1>1. UpgradeAsked => UpgradeAsked'
  BY TransferStep DEF TransferKept
<1>2. hasty => hasty'
  BY CommandActions DEF TypeChar, TakeZero, TypeBackspace, TypeNewline, HandleLine, TakeLine, TrimLine,
     LineIsOther, RewindIndex, WipeBuffer, CommandRestart, commandVars
<1>5. spelled = Len(Upgrade) => spelled' = Len(Upgrade)
  <2>1. CASE \E c \in Key : TypeChar(c)
    <3>1. spelled = Len(Upgrade) => \A c : ~Spells(c)
      BY UpgradeFits DEF Spells
    <3> QED
      BY <2>1, <3>1 DEF TypeChar
  <2>2. CASE spelled' = spelled
    BY <2>2
  <2> QED
    BY CommandActions, <2>1, <2>2 DEF TakeZero, TypeBackspace, TypeNewline, HandleLine,
       TakeLine, TrimLine, LineIsOther, RewindIndex, WipeBuffer, CommandRestart, commandVars
<1>3. PortReceives \/ typed' = typed
  BY DEF Next, SystemStep, HostStep, OtaTaskStep, ProcessOta, EnterUpgrade, LtlpRun,
     CommandStep, FlashStep, ResetStep, PowerFault, GoDown, BootLoaderStep, NotHeard,
     TimePasses, HostRequest, LineFault, vars
<1>4. (typed => typed') /\ typed' \in BOOLEAN
  <2>1. CASE PortReceives
    BY <2>1 DEF PortReceives
  <2>2. CASE typed' = typed
    BY <2>2
  <2> QED
    BY <1>3, <2>1, <2>2
<1> QED
  BY <1>1, <1>2, <1>4, <1>5 DEF Asked

\* What is entered, and by whom.
LEMMA UpgradeIsTyped ==
  ASSUME WantedInv, [Next]_vars, hasty => hasty', typed => typed', ~hasty',
         Trim(entered') = Upgrade
  PROVE  typed'
<1> USE DEF WantedInv
<1>1. CASE PortReceives
  BY <1>1 DEF PortReceives
<1>2. CASE entered' = entered
  BY <1>2
<1>3. CASE entered' = <<>>
  BY <1>3, TrimEmpty, UpgradeAssumption
<1>4. PortReceives \/ entered' = entered \/ entered' = <<>>
  <2>1. CASE PortReceives
    BY <2>1
  <2>2. CASE CommandStep
    BY <2>2 DEF CommandStep, HandleLine, TakeLine, TrimLine, LineIsOther, RewindIndex,
                WipeBuffer, commandVars
  <2>3. CASE ResetStep \/ PowerFault
    BY <2>3 DEF ResetStep, PowerFault, GoDown, CommandRestart
  <2>4. CASE \/ HostStep \/ OtaTaskStep \/ FlashStep \/ BootLoaderStep \/ NotHeard
             \/ TimePasses \/ HostRequest \/ LineFault \/ UNCHANGED vars
    BY <2>4 DEF HostStep, OtaTaskStep, ProcessOta, EnterUpgrade, LtlpRun, FlashStep,
                BootLoaderStep, NotHeard, TimePasses, HostRequest, LineFault, vars,
                commandVars
  <2> QED
    BY <2>1, <2>2, <2>3, <2>4 DEF Next, SystemStep
<1> QED
  BY <1>1, <1>2, <1>3, <1>4

LEMMA WantedStep ==
  ASSUME TransferInv, TypingInv, CommandTypeOK, SpellInv, WantedInv, [Next]_vars
  PROVE  WantedInv'
<1> DEFINE Quiescent == /\ setter = "none" /\ step = "none" /\ device # "upgrade"
                        /\ magic # "set" /\ flag # "set"
<1>1. /\ Asked => Asked'
      /\ hasty => hasty'
      /\ typed => typed'
      /\ typed' \in BOOLEAN
  BY AskedStaysAsked DEF WantedInv
<1>2. ~hasty' /\ Trim(entered') = Upgrade => typed'
  BY <1>1, UpgradeIsTyped
<1>3. (wanted => Asked) /\ (~wanted => Quiescent)
  BY DEF WantedInv
<1> SUFFICES (wanted' => Asked') /\ (~wanted' => Quiescent')
  BY <1>1, <1>2 DEF WantedInv
<1>4. CASE EnterUpgrade
  BY <1>1, <1>4 DEF EnterUpgrade, BeginSetting, TransferInv, Asked
<1>5. CASE LineIsUpgrade /\ BeginSetting("command")
  <2>1. hasty \/ Text = Trim(entered)
    BY <1>5, TextHeld DEF LineIsUpgrade, TypingInv, BufferInv
  <2>2. Asked
    BY <1>5, <2>1, UpgradeIsSpelled DEF LineIsUpgrade, WantedInv, Asked
  <2> QED
    BY <1>1, <1>5, <2>2 DEF BeginSetting
<1>6. CASE FlashStep
  BY <1>1, <1>3, <1>6 DEF FlashStep, EraseSector, WriteMagic, WriteFlag, OperationFails, FlashFault
<1>7. CASE ResetStep
  BY <1>1, <1>3, <1>7 DEF ResetStep, SystemReset
<1>8. CASE PowerFault
  <2>1. PowerLoss /\ wanted' = wanted
    BY <1>8 DEF PowerFault, PowerLoss, FlashFault
  <2>2. ASSUME ~wanted
        PROVE  Quiescent'
    BY <1>3, <2>1, <2>2 DEF PowerLoss, Spoils
  <2> QED
    BY <1>1, <1>3, <2>1, <2>2
<1>9. CASE BootLoaderStep
  BY <1>1, <1>3, <1>9 DEF BootLoaderStep, BootLoaderUpgrades, BootLoaderStarts, FlagIsSet
<1>10. CASE UNCHANGED bootVars
  BY <1>1, <1>3, <1>10 DEF bootVars
<1>11. CASE HostStep \/ ProcessOta \/ LtlpRun \/ NotHeard \/ TimePasses \/ HostRequest
            \/ LineFault \/ PortReceives \/ UNCHANGED vars
  BY <1>10, <1>11 DEF HostStep, ProcessOta, LtlpRun, NotHeard, TimePasses, HostRequest,
                      LineFault, PortReceives, vars
<1>12. CASE CommandStep
  BY <1>5, <1>10, <1>12 DEF CommandStep
<1> QED
  BY <1>4, <1>6, <1>7, <1>8, <1>9, <1>11, <1>12 DEF Next, SystemStep, OtaTaskStep

(* Whatever the order of the receive interrupt, the two tasks that write   *)
(* the flag, failed flash operations, faults of the line and restarts, and *)
(* whatever bytes the frames of a host are made of: the boot loader finds  *)
(* its flag only after a host's MSG_ENTER_UPGRADE has arrived, or after    *)
(* the characters of the command have come in through the port.            *)
THEOREM UpgradeNeedsRequest == Spec => []UpgradeWasAsked
<1> DEFINE I == TransferInv /\ TypingInv /\ CommandTypeOK /\ SpellInv /\ WantedInv
<1>1. Init => I
  <2> SUFFICES ASSUME Init PROVE I
    OBVIOUS
  <2>1. TransferInv /\ TypingInv /\ SpellInv
    BY TransferInitially, TypingInitially, SpellInitially DEF Init
  <2>2. CommandTypeOK
    BY <2>1, CommandTypeInitially DEF Init, TypingInv
  <2>3. WantedInv
    <3>1. BootInit /\ CommandInit /\ typed = FALSE
      BY DEF Init
    <3>2. typed \in BOOLEAN /\ ~wanted
      BY <3>1 DEF BootInit
    <3>3. Trim(entered) # Upgrade
      BY <3>1, TrimEmpty, UpgradeAssumption DEF CommandInit
    <3> QED
      BY <3>1, <3>2, <3>3 DEF BootInit, WantedInv
  <2> QED
    BY <2>1, <2>2, <2>3
<1>2. I /\ [Next]_vars => I'
  BY TransferStep, TypingStep, CommandTypeStep, SpellStep, WantedStep DEF TransferKept, TypingInv
<1>3. I => UpgradeWasAsked
  BY DEF WantedInv, Asked, UpgradeAsked, UpgradeWasAsked
<1> QED
  BY <1>1, <1>2, <1>3, PTL DEF Spec
=============================================================================
