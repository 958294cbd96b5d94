----------------------------- MODULE MCSlotCycle -----------------------------
(***************************************************************************)
(* Instances of SlotCycle for TLC.                                         *)
(***************************************************************************)
EXTENDS SlotCycle

Cfg(start, count, total, interval, single) ==
  [startSlot |-> start, count |-> count, total |-> total,
   interval |-> interval, single |-> single]

\* Two frames of different shape in single-cycle mode, and a call that
\* Configure rejects because the device's slots exceed the frame.
SingleConfigs == {Cfg(1, 2, 3, 2, TRUE), Cfg(0, 1, 2, 3, TRUE), Cfg(2, 2, 3, 2, TRUE)}

\* The same with a continuous frame, for the mode the application never selects.
MixedConfigs == SingleConfigs \union {Cfg(1, 1, 2, 2, FALSE)}

\* The master's clock behind the timer, equal to it and ahead of it.
AnyOffset == {-3, 0, 4}
=============================================================================
