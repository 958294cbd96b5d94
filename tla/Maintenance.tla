----------------------------- MODULE Maintenance -----------------------------
(***************************************************************************)
(* How the slave is brought into its boot loader: the RS485 port has a     *)
(* host that speaks LTLP to the OTA task, or a terminal whose user types   *)
(* commands; either may ask for an upgrade.  The interrupt gives every     *)
(* byte to both of them, so that frames reach the command line too.  The   *)
(* device may lose power at any time and starts again.                     *)
(***************************************************************************)
EXTENDS LtlpTransfer, BootFlag, CommandLine

CONSTANTS
  Setups         (* What may be connected: a peer, "host" or "terminal".   *)
                 (* The rest are bounds: the jobs and the number of        *)
                 (* transfers that a host asks for, the bytes that the     *)
                 (* command line is given, and the faults of line, flash   *)
                 (* and power together.                                    *)

ASSUME SetupsAssumption ==
  Setups \subseteq [peer : {"host", "terminal"}, jobs : SUBSET Job, transfers : Nat,
                    bytes : Nat, troubles : Nat]

VARIABLES
  setup,         (* What is connected to the port.                         *)
  typed          (* Whether the upgrade command was entered as a line,     *)
                 (* without haste.                                         *)

vars == <<transferVars, bootVars, commandVars, setup, typed>>

Init ==
  /\ TransferInit
  /\ BootInit
  /\ CommandInit
  /\ setup \in Setups
  /\ typed = FALSE

Trouble == LineFaults + flashFaults < setup.troubles

HostRequest ==
  /\ setup.peer = "host"
  /\ HostAsks
  /\ \A x \in Transfers : asked'[x] # asked[x] =>
       x <= setup.transfers /\ [asked'[x] EXCEPT !.id = 0] \in setup.jobs
  /\ UNCHANGED <<bootVars, commandVars, setup, typed>>

\* The host's side of a transfer.
HostStep ==
  /\ setup.peer = "host"
  /\ Parse(Host) \/ Run(Host)
  /\ UNCHANGED <<bootVars, commandVars, setup, typed>>

LineFault ==
  /\ Trouble
  /\ \E n \in Node : LoseUnit(n) \/ GarbleUnit(n)
  /\ UNCHANGED <<bootVars, commandVars, setup, typed>>

(* A round of OtaTask::task: processOta, the upgrade if it was asked for,  *)
(* ltlpRun.                                                                *)
OtaTaskRuns == device = "app" /\ setter # "ota"

ProcessOta ==
  /\ OtaTaskRuns
  /\ ~upgradeFlag \/ chunk[Slave] # NoChunk
  /\ Parse(Slave)
  /\ UNCHANGED <<bootVars, commandVars, setup, typed>>

EnterUpgrade ==
  /\ OtaTaskRuns
  /\ upgradeFlag
  /\ chunk[Slave] = NoChunk
  /\ upgradeFlag' = FALSE
  /\ BeginSetting("ota")
  /\ UNCHANGED <<libVars, line, chunk, ghosts, commandVars, setup, typed>>

LtlpRun ==
  /\ OtaTaskRuns
  /\ ~upgradeFlag
  /\ Run(Slave)
  /\ UNCHANGED <<bootVars, commandVars, setup, typed>>

OtaTaskStep == ProcessOta \/ EnterUpgrade \/ LtlpRun

(* HAL_UART_RxCpltCallback for the command line: a key of the user, or a   *)
(* byte of a frame that is on its way from the host.  Which bytes a frame  *)
(* is made of is not modelled: it may be any.                              *)
PortReceives ==
  /\ device = "app"
  /\ setup.peer = "terminal" \/ line[Slave] # <<>>
  /\ keys < setup.bytes
  /\ ReceiveByte
  /\ typed' = (typed \/ (~hasty' /\ Trim(entered') = Upgrade))
  /\ UNCHANGED <<transferVars, bootVars, setup>>

CommandTaskRuns == device = "app" /\ setter # "command"

CommandStep ==
  /\ CommandTaskRuns
  /\ \/ HandleLine /\ UNCHANGED bootVars
     \/ LineIsUpgrade /\ BeginSetting("command") /\ UNCHANGED commandVars
  /\ UNCHANGED <<transferVars, setup, typed>>

FlashStep ==
  /\ EraseSector \/ WriteMagic \/ WriteFlag \/ (Trouble /\ OperationFails)
  /\ UNCHANGED <<transferVars, commandVars, setup, typed>>

GoDown ==
  /\ Restart(Slave)
  /\ CommandRestart
  /\ UNCHANGED <<setup, typed>>

ResetStep == SystemReset /\ GoDown
PowerFault == Trouble /\ PowerLoss /\ GoDown

BootLoaderStep ==
  /\ BootLoaderUpgrades \/ BootLoaderStarts
  /\ UNCHANGED <<transferVars, commandVars, setup, typed>>

\* Bytes for a device that is down.
NotHeard ==
  /\ device # "app"
  /\ Unheard(Slave)
  /\ UNCHANGED <<bootVars, commandVars, setup, typed>>

\* The steps of the device are short against the unit of time.
TimePasses ==
  /\ device # "reset" /\ ~Busy /\ ~upgradeFlag
  /\ Pass
  /\ UNCHANGED <<bootVars, commandVars, setup, typed>>

\* What the device, the host and the clock do by themselves ...
SystemStep ==
  \/ HostStep
  \/ OtaTaskStep
  \/ CommandStep
  \/ FlashStep
  \/ ResetStep
  \/ BootLoaderStep
  \/ NotHeard
  \/ TimePasses

\* ... and what is done to them.
Next ==
  \/ SystemStep
  \/ HostRequest
  \/ PortReceives
  \/ LineFault
  \/ PowerFault

Spec == Init /\ [][Next]_vars

\* The system goes on as long as it can.
FairSpec == Spec /\ WF_vars(SystemStep)

-----------------------------------------------------------------------------
(* The variables of the three parts have their types; a library at rest    *)
(* has a sender and a receiver at rest (ltlpKernelRun resets both before   *)
(* its kernel goes idle).                                                  *)
TypeOK ==
  /\ BootTypeOK
  /\ CommandTypeOK
  /\ kernel \in [Node -> {"IDLE", "SENDING", "RECEIVING"}]
  /\ \A n \in Node : kernel[n] = "IDLE" => snd[n] = IdleSender /\ rcv[n] = IdleReceiver
  /\ status \in [Transfers -> {"none", "accepted", "done", "failed"}]
  /\ upgradeFlag \in BOOLEAN

(* LTLP implements TransferService on a line that loses and garbles frames *)
(* and with a receiver that restarts: acknowledged frames reach the        *)
(* callback in order, a transfer of them is reported as done only when the *)
(* other side has all of them, and every transfer that ltlpSendData        *)
(* accepts ends.                                                           *)
ServiceSpec == Service!Spec

(* What the receiver reports by ON_RECV_ALL_DATA it has all of. It counts  *)
(* frames without looking at their numbers (ltlp_receiver.c:31), so that a *)
(* repeated frame stands for a missing one: this may happen only to a      *)
(* transfer that lost an answer.                                           *)
ReportedComplete ==
  \A x \in reported : faults[x]["answer"] = 0 => delivered[x] = 0 .. asked[x].total - 1

(* A transfer fails only if its handshake or an answer was lost, its data  *)
(* was hit twice (one garbled frame counts for two tries,                  *)
(* ltlp_sender.c:95), the device went down, or another one that had ended  *)
(* went wrong and left the receiver or its parser in the middle of a       *)
(* frame.  That one may have been asked for later: ltlpSendData starts at  *)
(* once what it is asked for between the end of a transfer and the next    *)
(* ltlpRun, before the one that waits.                                     *)
FailsOnlyForCause ==
  \A x \in Transfers : status[x] = "failed" =>
    \/ faults[x]["handshake"] + faults[x]["answer"] > 0
    \/ faults[x]["data"] > 1
    \/ \E y \in Transfers \ {x} :
         status[y] = "failed" \/ (status[y] = "done" /\ y \notin reported)
    \/ wanted \/ flashFaults > 0

(* A receiver does not wait for ever: by the last frame, the timeout of    *)
(* ltlp_receiver.c:68 or a restart the kernel becomes idle, and with it    *)
(* able to send and to take a new handshake.                               *)
ReceiverComesToRest == (kernel[Slave] = "RECEIVING") ~> (kernel[Slave] = "IDLE")

(* ota_enter_bootloader resets the device only with both words of the flag *)
(* written, so that the boot loader does not start the application again;  *)
(* a loss of power aside.                                                  *)
OtaResetFindsFlag ==
  [][(setter = "ota" /\ device' = "reset" /\ flashFaults' = flashFaults) => FlagIsSet']_vars

(* A host that was told its MSG_ENTER_UPGRADE has arrived, and a user who  *)
(* typed the command and left the task time for it, find the device in its *)
(* boot loader in the end, unless flash or power failed.                   *)
RequestIsCarriedOut ==
  (typed \/ \E x \in Transfers : status[x] = "done" /\ asked[x].msg = ENTER_UPGRADE)
    ~> (device = "upgrade" \/ flashFaults > 0 \/ hasty)

(* The boot loader finds the flag only if a request for an upgrade has     *)
(* arrived as a message, or the characters of the command have come in     *)
(* through the port: no interleaving of the interrupt, the two tasks,      *)
(* failed writes and restarts leaves a valid pair of words or makes        *)
(* another line into the command.  Whose characters they are the code does *)
(* not ask: a frame that holds the line is as good as a user who types it, *)
(* and bytes that come too soon may join with those before them.           *)
UpgradeWasAsked ==
  device = "upgrade" =>
    \/ \E x \in Transfers : asked[x].msg = ENTER_UPGRADE /\ delivered[x] # {}
    \/ typed
    \/ hasty /\ spelled = Len(Upgrade)
=============================================================================
