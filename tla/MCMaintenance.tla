--------------------------- MODULE MCMaintenance ---------------------------
(***************************************************************************)
(* Instance of Maintenance for TLC.                                        *)
(***************************************************************************)
EXTENDS Maintenance

MCJob(msg, total, needAck) == [id |-> 0, msg |-> msg, total |-> total, needAck |-> needAck]

\* Two frames with and without acknowledgement, and the request for an upgrade.
Transferred == {MCJob(0, 2, TRUE), MCJob(0, 2, FALSE), MCJob(ENTER_UPGRADE, 1, TRUE)}
\* One frame of text, and a request that is not acknowledged.
Text1 == {MCJob(0, 1, FALSE), MCJob(ENTER_UPGRADE, 1, FALSE)}
Jobs == Transferred \union Text1

Setup(peer, jobs, transfers, bytes, troubles) ==
  [peer |-> peer, jobs |-> jobs, transfers |-> transfers, bytes |-> bytes, troubles |-> troubles]

\* A user who types; a host with any two transfers; a host with one whose
\* frames are looked at by the command line too.
AnySetup == {Setup("terminal", {}, 0, 5, 2),
             Setup("host", Transferred, 2, 0, 2),
             Setup("host", Text1, 1, 3, 0)}

UpgradeWord == <<"u", "p">>
=============================================================================
