---------------------------- MODULE DatagramQueue ----------------------------
(***************************************************************************)
(* What the dispatcher's outbound queue promises its user (spec 4.6, 5     *)
(* and 7): datagrams are enqueued, and leave the queue from the head one   *)
(* at a time, each either put on the wire or dropped by a failed send; a   *)
(* datagram that is queued eventually leaves.  The datagrams of one        *)
(* ready event may leave and be enqueued in one step: the write path runs  *)
(* first and the incoming callback may then enqueue.                       *)
(***************************************************************************)
EXTENDS Naturals, Sequences

CONSTANT MaxSend    \* bound on the datagrams enqueued

VARIABLES
    queue,      \* datagrams waiting, oldest first
    wire,       \* datagrams put on the wire, in order
    enqueued    \* datagrams enqueued so far (the last id given out)

avars == <<queue, wire, enqueued>>

Init == queue = <<>> /\ wire = <<>> /\ enqueued = 0

\* The head leaves the queue: onto the wire, or dropped.
Leave ==
    /\ queue # <<>>
    /\ wire' \in {wire, Append(wire, Head(queue))}

\* The next datagram is enqueued behind the queue q.
EnqueueBehind(q) ==
    /\ enqueued < MaxSend
    /\ queue' = Append(q, enqueued + 1)
    /\ enqueued' = enqueued + 1

Send == EnqueueBehind(queue) /\ UNCHANGED wire

Transmit == Leave /\ queue' = Tail(queue) /\ UNCHANGED enqueued

TransmitThenSend == Leave /\ EnqueueBehind(Tail(queue))

Next == Send \/ Transmit \/ TransmitThenSend

Spec == Init /\ [][Next]_avars /\ WF_avars(Transmit \/ TransmitThenSend)
==============================================================================
