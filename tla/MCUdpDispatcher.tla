--------------------------- MODULE MCUdpDispatcher ---------------------------
(***************************************************************************)
(* Model-checking instance of UdpDispatcher.  The pass run lets four     *)
(* outbound datagrams be enqueued, so three can wait behind the one being  *)
(* written; three inbound datagrams with two queued in the kernel at once, *)
(* so a read event handles one and leaves one; two notifications pending  *)
(* and two timeouts outstanding, so callbacks of every kind interleave.   *)
(***************************************************************************)
EXTENDS UdpDispatcher

MCSendOutcomes == {"ok", "wouldblock"}
MCRecvOutcomes == {"ok", "error"}
MCLossOutcomes == {"ok", "wouldblock"}
MCPanicOutcomes == {"ok", "error"}
MCRecvOk == {"ok"}

AbstractQueue == INSTANCE DatagramQueue WITH queue <- outq, wire <- wire, enqueued <- sent

(***************************************************************************)
(* The out queue of DispatchHandler implements DatagramQueue: every step  *)
(* of handle_write, the Provider and the callbacks takes datagrams off the *)
(* head only (each once, onto the wire or dropped) and enqueues behind the *)
(* tail, and under the loop's fairness every queued datagram leaves, which *)
(* needs tick to keep the socket registered writable.                     *)
(***************************************************************************)
OutQueueRefinesDatagramQueue == AbstractQueue!Spec
==============================================================================
