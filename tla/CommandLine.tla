----------------------------- MODULE CommandLine -----------------------------
(***************************************************************************)
(* The command line of the RS485 port                                      *)
(* (src/bootloader/uart_cmd_handler.c): the receive interrupt puts         *)
(* characters into a buffer, a low-priority task polls a flag every 10 ms  *)
(* and handles the line.  They share buffer, index and flag without a      *)
(* lock, and the interrupt may come between any two steps of the task.     *)
(*                                                                         *)
(* Every byte that the port receives is a character here, be it of a user  *)
(* who types or of a frame; a zero byte takes a place and ends the string. *)
(*                                                                         *)
(* The ghosts are the view of whoever sends: the line begun, the line      *)
(* entered and not yet handled, whether a byte came that a patient typist  *)
(* does not send, and how much of the command has come at all.             *)
(***************************************************************************)
EXTENDS Integers, Sequences, SequencesExt

CONSTANTS
  Key,          (* The bytes but for zero.  Blank is one of them.          *)
  Blank,
  NUL,
  BufferSize,   (* UART_CMD_BUFFER_SIZE.                                   *)
  Upgrade,      (* CMD_BOOTLOADER_UPGRADE, as a sequence of characters.    *)
  MaxKeys       (* Bounds the bytes received.                              *)

ASSUME BufferAssumption == BufferSize \in Nat /\ BufferSize > Len(Upgrade)
ASSUME KeysAssumption == Blank \in Key /\ NUL \notin Key /\ MaxKeys \in Nat
ASSUME UpgradeAssumption == Upgrade \in Seq(Key) /\ Upgrade # <<>>

VARIABLES
  buffer,       (* uart_cmd_buffer.                                        *)
  index,        (* uart_cmd_index.                                         *)
  ready,        (* cmd_ready_flag.                                         *)
  task,         (* Where uart_cmd_handler_task is.                         *)
  keys,         (* Bytes received so far.                                  *)
  typing,       (* The line being typed.                                   *)
  entered,      (* The line last entered, until the task is through it.    *)
  hasty,        (* Whether a byte came before the line was handled, or a   *)
                (* zero byte.                                              *)
  spelled       (* So many characters of Upgrade came one after another,   *)
                (* others perhaps in between.                              *)

commandVars == <<buffer, index, ready, task, keys, typing, entered, hasty, spelled>>

Place == 0 .. BufferSize - 1
EmptyBuffer == [i \in Place |-> NUL]

CommandTypeOK ==
  /\ buffer \in [Place -> Key \union {NUL}]
  /\ index \in Place
  /\ ready \in BOOLEAN
  /\ task \in {"wait", "trim", "compare", "rewind", "wipe"}
  /\ keys \in 0..MaxKeys
  /\ typing \in Seq(Key)
  /\ entered \in Seq(Key)
  /\ hasty \in BOOLEAN
  /\ spelled \in 0 .. Len(Upgrade)

\* uart_cmd_handler_init, and the task at its first look at the flag
CommandInit ==
  /\ buffer = EmptyBuffer
  /\ index = 0
  /\ ready = FALSE
  /\ task = "wait"
  /\ keys = 0
  /\ typing = <<>>
  /\ entered = <<>>
  /\ hasty = FALSE
  /\ spelled = 0

\* A reset clears all but the memory of what was received.
CommandRestart ==
  /\ buffer' = EmptyBuffer
  /\ index' = 0
  /\ ready' = FALSE
  /\ task' = "wait"
  /\ typing' = <<>>
  /\ entered' = <<>>
  /\ UNCHANGED <<keys, hasty, spelled>>

\* The string a C function sees in the buffer, and where it ends.
Terminators == {i \in Place : buffer[i] = NUL}
StringEnd == CHOOSE i \in Terminators : \A j \in Terminators : i <= j
Text == [i \in 1 .. StringEnd |-> buffer[i - 1]]

\* trim_string: of a string that is not all blank it cuts the end only, as
\* the caller keeps its own pointer to the beginning.
LastNonBlank(s) == CHOOSE i \in 1 .. Len(s) : s[i] # Blank /\ \A j \in i + 1 .. Len(s) : s[j] = Blank
IsBlank(s) == \A i \in 1 .. Len(s) : s[i] = Blank
Trim(s) == IF IsBlank(s) THEN s ELSE SubSeq(s, 1, LastNonBlank(s))

-----------------------------------------------------------------------------
(* HAL_UART_RxCpltCallback, one byte.                                      *)

Quiet == task = "wait" /\ ~ready

KeyHit ==
  /\ keys < MaxKeys
  /\ keys' = keys + 1
  /\ UNCHANGED task

Spells(c) == spelled < Len(Upgrade) /\ c = Upgrade[spelled + 1]

\* A bug: the last place of the buffer is written to as well.
TypeCharLastPlace(c) ==
  /\ KeyHit
  /\ buffer' = [buffer EXCEPT ![index] = c]
  /\ index' = IF index < BufferSize - 1 THEN index + 1 ELSE index
  /\ typing' = Append(typing, c)
  /\ hasty' = (hasty \/ ~Quiet)
  /\ spelled' = IF Spells(c) THEN spelled + 1 ELSE spelled
  /\ UNCHANGED <<ready, entered>>

TypeChar(c) ==
  /\ KeyHit
  /\ IF index < BufferSize - 1
     THEN /\ buffer' = [buffer EXCEPT ![index] = c]
          /\ index' = index + 1
          /\ typing' = Append(typing, c)
     ELSE UNCHANGED <<buffer, index, typing>>
  /\ hasty' = (hasty \/ ~Quiet)
  /\ spelled' = IF Spells(c) THEN spelled + 1 ELSE spelled
  /\ UNCHANGED <<ready, entered>>

TakeZero ==
  /\ KeyHit
  /\ IF index < BufferSize - 1
     THEN /\ buffer' = [buffer EXCEPT ![index] = NUL]
          /\ index' = index + 1
     ELSE UNCHANGED <<buffer, index>>
  /\ hasty' = TRUE
  /\ UNCHANGED <<ready, typing, entered, spelled>>

TypeBackspace ==
  /\ KeyHit
  /\ IF index > 0
     THEN /\ index' = index - 1
          /\ buffer' = [buffer EXCEPT ![index - 1] = NUL]
     ELSE UNCHANGED <<buffer, index>>
  /\ typing' = IF typing = <<>> THEN <<>> ELSE Front(typing)
  /\ hasty' = (hasty \/ ~Quiet)
  /\ UNCHANGED <<ready, entered, spelled>>

\* A second end of line, as of a terminal that sends CR and LF, is not hasty.
TypeNewline ==
  /\ KeyHit
  /\ IF index > 0
     THEN /\ buffer' = [buffer EXCEPT ![index] = NUL]
          /\ ready' = TRUE
     ELSE UNCHANGED <<buffer, ready>>
  /\ entered' = IF typing = <<>> THEN entered ELSE typing
  /\ typing' = <<>>
  /\ UNCHANGED <<index, hasty, spelled>>

ReceiveByte ==
  \/ \E c \in Key : TypeChar(c)
  \/ TakeZero
  \/ TypeBackspace
  \/ TypeNewline

-----------------------------------------------------------------------------
(* uart_cmd_handler_task.                                                  *)

TakeLine ==
  /\ task = "wait"
  /\ ready
  /\ ready' = FALSE
  /\ task' = "trim"
  /\ UNCHANGED <<buffer, index, keys, typing, entered, hasty, spelled>>

\* A bug: the blanks at the end are found and left where they are.
TrimLineNothing ==
  /\ task = "trim"
  /\ task' = "compare"
  /\ UNCHANGED <<buffer, index, ready, keys, typing, entered, hasty, spelled>>

TrimLine ==
  /\ task = "trim"
  /\ buffer' = IF IsBlank(Text) THEN buffer ELSE [buffer EXCEPT ![LastNonBlank(Text)] = NUL]
  /\ task' = "compare"
  /\ UNCHANGED <<index, ready, keys, typing, entered, hasty, spelled>>

\* A bug: only as many characters are compared as the line has.
LineIsUpgradePrefix == task = "compare" /\ IsPrefix(Text, Upgrade)

\* process_uart_command; its other commands only write to the log.
LineIsUpgrade == task = "compare" /\ Text = Upgrade

LineIsOther ==
  /\ task = "compare"
  /\ Text # Upgrade
  /\ task' = "rewind"
  /\ UNCHANGED <<buffer, index, ready, keys, typing, entered, hasty, spelled>>

\* A bug: the index keeps its value.
RewindIndexNot ==
  /\ task = "rewind"
  /\ task' = "wipe"
  /\ UNCHANGED <<buffer, index, ready, keys, typing, entered, hasty, spelled>>

RewindIndex ==
  /\ task = "rewind"
  /\ index' = 0
  /\ task' = "wipe"
  /\ UNCHANGED <<buffer, ready, keys, typing, entered, hasty, spelled>>

WipeBuffer ==
  /\ task = "wipe"
  /\ buffer' = EmptyBuffer
  /\ task' = "wait"
  /\ entered' = <<>>
  /\ UNCHANGED <<index, ready, keys, typing, hasty, spelled>>

HandleLine == TakeLine \/ TrimLine \/ LineIsOther \/ RewindIndex \/ WipeBuffer

-----------------------------------------------------------------------------
(* What a C function reads from the buffer ends inside it, however the     *)
(* interrupt and the task interleave: strlen and strcmp of                 *)
(* process_uart_command rely on it.                                        *)
LineEndsInBuffer == buffer[BufferSize - 1] = NUL

(* As long as whoever types leaves the task the time to handle a line, the *)
(* line compared is the line entered, once and without its blank end; what *)
(* a second end of line makes the task look at is empty.                   *)
LineComparedIsLineEntered == (task = "compare" /\ ~hasty) => Text = Trim(entered)
=============================================================================
