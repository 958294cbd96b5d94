---------------------------- MODULE MCSlaveDevice ----------------------------
(***************************************************************************)
(* Instances of SlaveDevice for TLC.                                       *)
(***************************************************************************)
EXTENDS SlaveDevice

Assign(timeSlot, count, start, total) ==
  [mode |-> "CONDUCTION", interval |-> 2, timeSlot |-> timeSlot,
   testCount |-> count, startSlot |-> start, total |-> total]

\* The slave as the last of two and, in another frame, as the first.
TwoFrames == {Assign(1, 1, 1, 2), Assign(0, 2, 0, 3)}

\* The last of two again, with the slots of an earlier slave moved to a later one.
SameButShifted == {Assign(1, 1, 2, 3), Assign(1, 1, 1, 3)}
FirstOfTwo == {Assign(0, 2, 0, 3)}
LastOfTwo == {Assign(1, 2, 1, 3)}

\* Shares of one frame: a testCount that changes between messages, one above
\* the number of pins (MaxGpioPins = 2), and two assignments the device
\* rejects, no pin and an unknown mode.
MixedShares == {Assign(1, 1, 1, 3), Assign(0, 2, 0, 3), Assign(0, 3, 0, 3),
                Assign(0, 0, 0, 3)}
               \union {[Assign(0, 1, 0, 3) EXCEPT !.mode = "unknown"]}

\* The fragments of a frame fit the slave's own slots, or exceed them by one.
FragmentsFit(data) == IF Len(data) = 3 THEN 2 ELSE 1
FragmentsExceed(data) == 3

\* How far ahead a start is announced; StartsNow takes the immediate branch.
StartsNow == {-1, 0}
StartsNext == {1, 2}
StartsSoon == {3}
StartsLater == {4}

NoOffset == {0}
ClockMoves == {0, 2}
Never == {FALSE}
Always == {TRUE}
AnyResult == BOOLEAN
=============================================================================
