--------------------------- MODULE TransferService ---------------------------
(***************************************************************************)
(* What LTLP promises its users: the frames of a transfer that was         *)
(* accepted reach the other side, in order if they are acknowledged; every *)
(* transfer ends; one of acknowledged frames ends as done only if every    *)
(* frame has arrived.                                                      *)
(***************************************************************************)
EXTENDS Integers

CONSTANTS
  Transfers,  (* The transfers asked for, in any order.                    *)
  Demand      (* What can be asked for: a set of [total, needAck].         *)

VARIABLES
  asked,      (* asked[x] is the demand made with x, or NotAsked.          *)
  status,     (* What the user of the sender knows of x.                   *)
  delivered   (* The frames of x the user of the receiver was handed.      *)

serviceVars == <<asked, status, delivered>>

NotAsked == [total |-> 1, needAck |-> FALSE]

Init ==
  /\ asked = [x \in Transfers |-> NotAsked]
  /\ status = [x \in Transfers |-> "none"]
  /\ delivered = [x \in Transfers |-> {}]

Ask(x) ==
  /\ status[x] = "none"
  /\ asked' \in {[asked EXCEPT ![x] = d] : d \in Demand}
  /\ status' = [status EXCEPT ![x] = "accepted"]
  /\ UNCHANGED delivered

\* In order means: after all frames before it.  A frame may arrive late.
Deliver(x, k) ==
  /\ status[x] # "none"
  /\ k \in 0 .. asked[x].total - 1
  /\ asked[x].needAck => 0 .. k - 1 \subseteq delivered[x]
  /\ delivered' = [delivered EXCEPT ![x] = @ \union {k}]
  /\ UNCHANGED <<asked, status>>

Complete(x) == delivered[x] = 0 .. asked[x].total - 1

Finish(x) ==
  /\ status[x] = "accepted"
  /\ asked[x].needAck => Complete(x)
  /\ status' = [status EXCEPT ![x] = "done"]
  /\ UNCHANGED <<asked, delivered>>

Fail(x) ==
  /\ status[x] = "accepted"
  /\ status' = [status EXCEPT ![x] = "failed"]
  /\ UNCHANGED <<asked, delivered>>

Next ==
  \E x \in Transfers :
    \/ Ask(x)
    \/ \E k \in 0 .. asked[x].total - 1 : Deliver(x, k)
    \/ Finish(x)
    \/ Fail(x)

\* Every transfer that is accepted ends.
Spec ==
  /\ Init /\ [][Next]_serviceVars
  /\ \A x \in Transfers : WF_serviceVars(Finish(x) \/ Fail(x))
=============================================================================
