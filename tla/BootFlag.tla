------------------------------ MODULE BootFlag ------------------------------
(***************************************************************************)
(* The two words in flash sector 23 by which the application asks the boot *)
(* loader for an upgrade, and the two functions that write them:           *)
(* ota_enter_bootloader (src/ota/ota.c) of the OTA task and                *)
(* trigger_system_reset_to_bootloader (src/bootloader/bootloader_flag.c)   *)
(* of the command line.  Both use the same address and values.             *)
(*                                                                         *)
(* A flash operation may fail, and power may go in the middle of one; a    *)
(* word that was being written is then "torn": neither erased nor set.     *)
(* The boot loader is not in the repository: it is modelled by what        *)
(* Docs/flash_flag_implementation.md (138-146) requires of it.             *)
(***************************************************************************)
EXTENDS Naturals

CONSTANT
  MaxFlashFaults   (* Bounds failed operations and losses of power.        *)

ASSUME FlashFaultsAssumption == MaxFlashFaults \in Nat

VARIABLES
  device,     (* "app", "reset" (about to run the boot loader), "upgrade". *)
  setter,     (* Who is writing the flag: "none", "ota" or "command".      *)
  step,       (* Its next flash operation.                                 *)
  magic,      (* The first word: "erased", "set" or "torn".                *)
  flag,       (* The second word, likewise.                                *)
  wanted,     (* Whether anyone has asked for an upgrade.                  *)
  flashFaults

bootVars == <<device, setter, step, magic, flag, wanted, flashFaults>>

Word == {"erased", "set", "torn"}

BootTypeOK ==
  /\ device \in {"app", "reset", "upgrade"}
  /\ setter \in {"none", "ota", "command"}
  /\ step \in {"none", "erase", "magic", "flag", "leave"}
  /\ magic \in Word
  /\ flag \in Word
  /\ wanted \in BOOLEAN
  /\ flashFaults \in 0..MaxFlashFaults

BootInit ==
  /\ device = "app"
  /\ setter = "none"
  /\ step = "none"
  /\ magic = "erased"
  /\ flag = "erased"
  /\ wanted = FALSE
  /\ flashFaults = 0

\* check_bootloader_upgrade_flag
FlagIsSet == magic = "set" /\ flag = "set"

Busy == setter # "none"

BeginSetting(who) ==
  /\ device = "app"
  /\ ~Busy
  /\ setter' = who
  /\ step' = "erase"
  /\ wanted' = TRUE
  /\ UNCHANGED <<device, magic, flag, flashFaults>>

\* flash_erase_flag_sector
EraseSector ==
  /\ step = "erase"
  /\ magic' = "erased" /\ flag' = "erased"
  /\ step' = "magic"
  /\ UNCHANGED <<device, setter, wanted, flashFaults>>

\* A bug: the loop over the words ends one too early.
WriteMagicOnly ==
  /\ step = "magic"
  /\ magic' = "set"
  /\ step' = "leave"
  /\ UNCHANGED <<device, setter, flag, wanted, flashFaults>>

\* flash_write_flag_data: one word after the other.
WriteMagic ==
  /\ step = "magic"
  /\ magic' = "set"
  /\ step' = "flag"
  /\ UNCHANGED <<device, setter, flag, wanted, flashFaults>>

WriteFlag ==
  /\ step = "flag"
  /\ flag' = "set"
  /\ step' = "leave"
  /\ UNCHANGED <<device, setter, magic, wanted, flashFaults>>

\* The words an operation that does not end well may leave.
Spoils ==
  /\ magic' \in CASE step = "erase" -> {magic, "erased", "torn"}
                  [] step = "magic" -> {magic, "torn"}
                  [] OTHER -> {magic}
  /\ flag' \in CASE step = "erase" -> {flag, "erased", "torn"}
                 [] step = "flag" -> {flag, "torn"}
                 [] OTHER -> {flag}

FlashFault ==
  /\ flashFaults < MaxFlashFaults
  /\ flashFaults' = flashFaults + 1
  /\ UNCHANGED wanted

(* A status other than HAL_OK: set_bootloader_upgrade_flag returns to a    *)
(* caller that resets all the same; ota_enter_bootloader returns to the    *)
(* OTA task, which goes on.                                                *)
OperationFails ==
  /\ step \in {"erase", "magic", "flag"}
  /\ FlashFault
  /\ Spoils
  /\ IF setter = "command"
     THEN step' = "leave" /\ UNCHANGED setter
     ELSE step' = "none" /\ setter' = "none"
  /\ UNCHANGED device

\* NVIC_SystemReset
SystemReset ==
  /\ step = "leave"
  /\ device' = "reset"
  /\ setter' = "none"
  /\ step' = "none"
  /\ UNCHANGED <<magic, flag, wanted, flashFaults>>

PowerLoss ==
  /\ device = "app"
  /\ FlashFault
  /\ Spoils
  /\ device' = "reset"
  /\ setter' = "none"
  /\ step' = "none"

\* The boot loader clears a flag that it finds and stays; else it starts the application.
BootLoaderUpgrades ==
  /\ device = "reset"
  /\ FlagIsSet
  /\ device' = "upgrade"
  /\ magic' = "erased" /\ flag' = "erased"
  /\ UNCHANGED <<setter, step, wanted, flashFaults>>

BootLoaderStarts ==
  /\ device = "reset"
  /\ ~FlagIsSet
  /\ device' = "app"
  /\ UNCHANGED <<setter, step, magic, flag, wanted, flashFaults>>
=============================================================================
