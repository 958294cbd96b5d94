------------------------------- MODULE Backend -------------------------------
(***************************************************************************)
(* How a slave hands its measured data to the radio: the fragment state of *)
(* SlaveDevice (User/app/slave_device.cpp) and the one-message transmit    *)
(* mailbox of MasterComm (User/task/MasterComm.cpp).                       *)
(*                                                                         *)
(* The state is one record, and the functions of the code are operators    *)
(* from a record to the record they leave behind, because OnSlotChanged    *)
(* calls them in sequence and in a loop within one uninterrupted stretch   *)
(* of its task.  The mailbox has another writer: SlaveDataProcT answers    *)
(* requests of the master through it.  The field "handed" is a ghost: what *)
(* DataCollectionTask last put into the mailbox.                           *)
(***************************************************************************)
EXTENDS Integers, Sequences

CONSTANTS
  NoData,            (* The empty lastCollectionData.                      *)
  FragmentCount(_)   (* Fragments packSlave2MasterMessage makes of data.   *)

\* The frames: the answer to a reset request, that to a ping or to a short id,
\* the fragments of data, and what the mailbox holds before its first use.
NoFrame       == [kind |-> "none"]
ResetResponse == [kind |-> "response"]
Answer        == [kind |-> "answer"]
DataFrame(data, i) ==
  [kind |-> "data", data |-> data, fragment |-> i, total |-> FragmentCount(data)]

BackendInit ==
  [lastCollectionData |-> NoData, hasDataToSend |-> FALSE,
   pendingFragments |-> <<>>, currentFragmentIndex |-> 0,
   isFragmentSendingInProgress |-> FALSE,
   txBuffer |-> NoFrame, txSemaphore |-> FALSE, handed |-> NoFrame]

\* packSlave2MasterMessage, by what a receiver tells fragments apart by.
Packed(data) == [i \in 1..FragmentCount(data) |-> DataFrame(data, i - 1)]

\* MasterComm::SendData: an untransmitted frame in the mailbox is overwritten,
\* the binary semaphore stays given.
SendData(b, frame) == [b EXCEPT !.txBuffer = frame, !.txSemaphore = TRUE]

\* The same, called by DataCollectionTask.
HandOver(b, frame) == [SendData(b, frame) EXCEPT !.handed = frame]

\* A bug: the index outlives the fragments.
ForgetFragmentsOnly(b) ==
  [b EXCEPT !.pendingFragments = <<>>, !.isFragmentSendingInProgress = FALSE]

ForgetFragments(b) ==
  [b EXCEPT !.pendingFragments = <<>>, !.currentFragmentIndex = 0,
            !.isFragmentSendingInProgress = FALSE]

\* Both the fragments and the cached data they came from, or newer data.
ForgetAll(b) ==
  [ForgetFragments(b) EXCEPT !.lastCollectionData = NoData, !.hasDataToSend = FALSE]

SaveCollection(b, data) ==
  [b EXCEPT !.lastCollectionData = data, !.hasDataToSend = TRUE]

\* A bug: everything is forgotten one fragment early.
SendFragmentAllButOne(b, ok) ==
  LET sent == HandOver(b, b.pendingFragments[b.currentFragmentIndex + 1])
      next == b.currentFragmentIndex + 1
  IN  IF ~ok THEN b
      ELSE IF next >= Len(b.pendingFragments) - 1 THEN ForgetAll(sent)
      ELSE [sent EXCEPT !.currentFragmentIndex = next]

\* The current fragment goes out; after the last one everything is forgotten.
\* When SendData fails (ok is FALSE) nothing changes.
SendFragment(b, ok) ==
  LET sent == HandOver(b, b.pendingFragments[b.currentFragmentIndex + 1])
      next == b.currentFragmentIndex + 1
  IN  IF ~ok THEN b
      ELSE IF next >= Len(b.pendingFragments) THEN ForgetAll(sent)
      ELSE [sent EXCEPT !.currentFragmentIndex = next]

\* sendDataToBackend, by the branches it takes in order.
SendDataToBackend(b, isConfigured, ok) ==
  IF ~isConfigured THEN b
  ELSE IF b.isFragmentSendingInProgress THEN
    IF b.currentFragmentIndex < Len(b.pendingFragments)
      THEN SendFragment(b, ok)
      ELSE ForgetAll(b)
  ELSE IF ~b.hasDataToSend \/ b.lastCollectionData = NoData THEN b
  ELSE SendFragment([b EXCEPT !.pendingFragments = Packed(b.lastCollectionData),
                              !.currentFragmentIndex = 0,
                              !.isFragmentSendingInProgress = TRUE], ok)

\* A bug: one round more than there are fragments.
FragmentsRemainInclusive(b) == b.currentFragmentIndex <= Len(b.pendingFragments)

\* Whether OnSlotChanged's loop over the remaining fragments has more to do.
FragmentsRemain(b) == b.currentFragmentIndex < Len(b.pendingFragments)

\* OnSlotChanged after the measurement, up to that loop: in a slot of its own
\* the device sends the fragment of that slot, or starts sending in pin 0's.
SendInSlot(b, active, pin, isConfigured, ok) ==
  IF ~active THEN b
  ELSE IF b.isFragmentSendingInProgress THEN
    IF pin < Len(b.pendingFragments)
      THEN SendDataToBackend([b EXCEPT !.currentFragmentIndex = pin], isConfigured, ok)
      ELSE ForgetFragments(b)
  ELSE IF pin = 0 THEN SendDataToBackend(b, isConfigured, ok)
  ELSE b

\* A bug: the loop runs in every slot of the slave.
ReachesBurstAlways(b, active, pin, testCount) == active

\* Whether that loop is reached: not when the fragments were found used up,
\* and not in the slot in which sending starts.
ReachesBurst(b, active, pin, testCount) ==
  /\ active /\ b.isFragmentSendingInProgress
  /\ pin < Len(b.pendingFragments)
  /\ pin = IF testCount > 0 THEN testCount - 1 ELSE 0
=============================================================================
