--------------------------- MODULE MCReceivePath ---------------------------
(***************************************************************************)
(* Instances of ReceivePath for TLC.                                       *)
(***************************************************************************)
EXTENDS ReceivePath

Sync(n, reset, tiny) == [kind |-> "sync", n |-> n, mine |-> TRUE, reset |-> reset, tiny |-> tiny]
Ping == [kind |-> "ping", n |-> 1, mine |-> TRUE, reset |-> FALSE, tiny |-> FALSE]
ShortId == [Ping EXCEPT !.kind = "shortId"]
NotForUs == [Ping EXCEPT !.mine = FALSE]

Calm == [kinds |-> {}, messages |-> 0, losses |-> 0, others |-> 0, touches |-> 0,
         frames |-> 0]

\* Messages of two and three fragments, of which one is lost.
Fragments ==
  [Calm EXCEPT !.kinds = {Sync(2, FALSE, FALSE), Sync(3, FALSE, FALSE)},
               !.messages = 2, !.losses = 1]
\* A longer series, of which one fragment is lost.
Series ==
  [Calm EXCEPT !.kinds = {Sync(2, FALSE, FALSE)}, !.messages = 3, !.losses = 1]
\* Requests and messages for others among sync messages and other slaves' data.
Mixture ==
  [Calm EXCEPT !.kinds = {Sync(2, FALSE, FALSE), Ping, NotForUs},
               !.messages = 2, !.others = 1]
\* Resets while buttons are pressed.
Buttons ==
  [Calm EXCEPT !.kinds = {Sync(1, TRUE, FALSE)}, !.messages = 2, !.touches = 2]
\* Messages whose last fragment is tiny, before and after others.
Tiny ==
  [Calm EXCEPT !.kinds = {Sync(4, FALSE, TRUE), Sync(2, FALSE, FALSE), ShortId}, !.messages = 2]

\* Requests while DataCollectionTask sends as well.
Collecting == [Calm EXCEPT !.kinds = {Ping, ShortId}, !.messages = 2, !.frames = 2]

AnyTraffic == {Fragments, Series, Mixture, Buttons, Tiny, Collecting}
=============================================================================
