---------------------------- MODULE FrameChannel ----------------------------
(***************************************************************************)
(* What the order-entry message pump promises its dispatcher: the frames  *)
(* the exchange writes to the TCP connection are handed to handleMessage  *)
(* in the order they were written, each exactly once, and every one of    *)
(* them eventually is.  A frame is named by its position in the stream;   *)
(* its declared SoupBinTCP length is all the pump looks at.               *)
(***************************************************************************)
EXTENDS Naturals, Sequences

CONSTANTS
  Lengths,    \* the packet-length fields the exchange may declare
  MaxFrames   \* how many frames the exchange writes at most

VARIABLES
  sent,       \* declared length of every frame written, in order
  got,        \* the frames handed to the dispatcher, in order
  closed      \* the exchange has closed the connection

vars == <<sent, got, closed>>

Init ==
  /\ sent = <<>>
  /\ got = <<>>
  /\ closed = FALSE

Send(len) ==
  /\ ~closed
  /\ Len(sent) < MaxFrames
  /\ sent' = Append(sent, len)
  /\ UNCHANGED <<got, closed>>

Close ==
  /\ ~closed
  /\ closed' = TRUE
  /\ UNCHANGED <<sent, got>>

\* One or more of the next frames reach the dispatcher.
Deliver ==
  \E m \in 1..(Len(sent) - Len(got)) :
    /\ got' = got \o [i \in 1..m |-> Len(got) + i]
    /\ UNCHANGED <<sent, closed>>

Next ==
  \/ \E len \in Lengths : Send(len)
  \/ Close
  \/ Deliver

SafeSpec == Init /\ [][Next]_vars

\* Every frame written is eventually delivered.
Liveness == WF_vars(Deliver)

Spec == SafeSpec /\ Liveness

=============================================================================
