--------------------------- MODULE MessageChannel ---------------------------
(***************************************************************************)
(* What the peer-wire codec over a TCP connection promises its two ends    *)
(* (spec 4.3 and 8): the receiving side obtains the messages the sending   *)
(* side wrote, one at a time, in the order written and unchanged, and     *)
(* every message written is eventually obtained.  Framing, byte chunks    *)
(* and the extension id tables are not visible at this level.             *)
(***************************************************************************)
EXTENDS Naturals, Sequences

CONSTANTS
    Messages,       \* the messages a sender may write
    MaxMessages     \* bound on the messages written

VARIABLES
    sent,       \* messages written, in order
    received    \* messages obtained by the receiver, in order

cvars == <<sent, received>>

Init == sent = <<>> /\ received = <<>>

\* The sender writes one more message.
Send ==
    /\ Len(sent) < MaxMessages
    /\ \E m \in Messages : sent' = Append(sent, m)
    /\ UNCHANGED received

\* The receiver obtains the oldest message it has not obtained yet.
Obtain ==
    /\ Len(received) < Len(sent)
    /\ received' = Append(received, sent[Len(received) + 1])
    /\ UNCHANGED sent

Next == Send \/ Obtain

Spec == Init /\ [][Next]_cvars /\ WF_cvars(Obtain)
==============================================================================
