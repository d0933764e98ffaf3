---------------------------- MODULE UdpDispatcher ----------------------------
(***************************************************************************)
(* The single-socket UDP event dispatcher of umio                          *)
(* (src/contrib/umio/src/dispatcher.rs) running on a mio 0.5 event loop.   *)
(*                                                                         *)
(* One loop iteration of mio is: poll for readiness, process the I/O       *)
(* events (the socket token and the notification channel), process the     *)
(* expired timers, then call Handler::tick.  The dispatcher's handlers     *)
(* (ready, notify, timeout, tick) each run to completion on the loop       *)
(* thread, so each is one atomic action here.                              *)
(*                                                                         *)
(* Datagrams are identified by the order in which they were produced:      *)
(* outbound datagram i is the i-th one enqueued by the user's callbacks    *)
(* through the Provider, inbound datagram i the i-th one the kernel        *)
(* queued on the socket.  Buffers are counted, not named: the pool is a    *)
(* grow-on-demand free list, so only how many are free matters.           *)
(***************************************************************************)
EXTENDS Naturals, Sequences, SequencesExt

CONSTANTS
    MaxSend,        \* bound on datagrams the user's callbacks enqueue
    MaxArrive,      \* bound on datagrams arriving from the network
    RxCap,          \* kernel receive queue capacity
    ChanCap,        \* capacity of mio's notification channel
    MaxPosts,       \* bound on notifications posted in a behaviour
    MaxTimers,      \* bound on outstanding timeouts
    SendOutcomes,   \* what UdpSocket::send_to may return
    RecvOutcomes    \* what UdpSocket::recv_from may return

ASSUME SendOutcomes \subseteq {"ok", "wouldblock", "error"} /\ SendOutcomes # {}
ASSUME RecvOutcomes \subseteq {"ok", "error"} /\ "ok" \in RecvOutcomes

VARIABLES
    rx,         \* kernel receive queue of the socket (inbound ids)
    arrived,    \* inbound datagrams produced so far
    outq,       \* DispatchHandler.out_queue (outbound ids)
    sent,       \* outbound datagrams enqueued so far
    wire,       \* history: outbound ids the kernel accepted, in order
    pool,       \* free buffers in DispatchHandler.buffer_pool
    chan,       \* messages waiting in the notification channel
    posted,     \* notifications posted so far
    timers,     \* outstanding timeouts registered through the Provider
    interest,   \* DispatchHandler.current_set as registered with mio
    events,     \* readiness reported for the socket by the current poll
    pc,         \* phase of the mio loop iteration
    panicked    \* the loop thread panicked (an unwrap failed)

vars == <<rx, arrived, outq, sent, wire, pool, chan, posted,
          timers, interest, events, pc, panicked>>

Readable == "r"
Writable == "w"

TypeOK ==
    /\ rx \in Seq(1..MaxArrive) /\ Len(rx) <= RxCap
    /\ arrived \in 0..MaxArrive
    /\ outq \in Seq(1..MaxSend)
    /\ sent \in 0..MaxSend
    /\ wire \in Seq(1..MaxSend)
    /\ pool \in Nat
    /\ chan \in 0..ChanCap /\ posted \in 0..MaxPosts
    /\ timers \in 0..MaxTimers
    /\ interest \in SUBSET {Readable, Writable}
    /\ events \in SUBSET {Readable, Writable}
    /\ pc \in {"poll", "io", "timers", "tick"}
    /\ panicked \in BOOLEAN

(***************************************************************************)
(* DispatchHandler::new: empty pool and queue, socket registered readable, *)
(* edge-triggered.                                                         *)
(***************************************************************************)
Init ==
    /\ rx = <<>> /\ arrived = 0
    /\ outq = <<>> /\ sent = 0 /\ wire = <<>>
    /\ pool = 0
    /\ chan = 0 /\ posted = 0 /\ timers = 0
    /\ interest = {Readable}
    /\ events = {}
    /\ pc = "poll"
    /\ panicked = FALSE

(***************************************************************************)
(* BufferPool::pop: reuse a free buffer, or allocate a fresh one if none  *)
(* is free.  Result: the number of free buffers left.                      *)
(***************************************************************************)
\* Mutant: pop takes from the free list without allocating when it is empty.
PoolPop_NoAlloc(p) == p - 1

PoolPop(p) == IF p > 0 THEN p - 1 ELSE 0

(***************************************************************************)
(* One invocation of a user callback (Dispatcher::incoming, notify or      *)
(* timeout).  The user code is arbitrary; what it can do to the            *)
(* dispatcher goes through the Provider: take a buffer from the pool and   *)
(* send it, set or clear a timeout, or post a message to itself.  ctx is   *)
(* the dispatcher-owned state the callback starts from; after it returns,  *)
(* ret buffers (the one the read path lent to incoming) go back to the     *)
(* pool.                                                                   *)
(***************************************************************************)
Ctx(p, q, c, t) == [pool |-> p, outq |-> q, chan |-> c, timers |-> t]

SetCtx(ctx) ==
    /\ pool' = ctx.pool /\ outq' = ctx.outq
    /\ chan' = ctx.chan /\ timers' = ctx.timers

ProviderSend(ctx, ret) ==
    /\ sent < MaxSend
    /\ SetCtx([ctx EXCEPT !.pool = PoolPop(@) + ret, !.outq = Append(@, sent + 1)])
    /\ sent' = sent + 1
    /\ UNCHANGED posted

ProviderSetTimeout(ctx, ret) ==
    /\ ctx.timers < MaxTimers
    /\ SetCtx([ctx EXCEPT !.pool = @ + ret, !.timers = @ + 1])
    /\ UNCHANGED <<sent, posted>>

ProviderClearTimeout(ctx, ret) ==
    /\ ctx.timers > 0
    /\ SetCtx([ctx EXCEPT !.pool = @ + ret, !.timers = @ - 1])
    /\ UNCHANGED <<sent, posted>>

ProviderNotify(ctx, ret) ==
    /\ ctx.chan < ChanCap /\ posted < MaxPosts
    /\ SetCtx([ctx EXCEPT !.pool = @ + ret, !.chan = @ + 1])
    /\ posted' = posted + 1
    /\ UNCHANGED sent

CallbackReturns(ctx, ret) ==
    /\ SetCtx([ctx EXCEPT !.pool = @ + ret])
    /\ UNCHANGED <<sent, posted>>

Callback(ctx, ret) ==
    \/ CallbackReturns(ctx, ret)
    \/ ProviderSend(ctx, ret)
    \/ ProviderSetTimeout(ctx, ret)
    \/ ProviderClearTimeout(ctx, ret)
    \/ ProviderNotify(ctx, ret)

(***************************************************************************)
(* DispatchHandler::handle_write, when the socket was reported writable:   *)
(* pop the head of the out queue, send it, and push its buffer back to the *)
(* pool whatever send_to returned.  mio 0.5's send_to returns Ok(None)     *)
(* when the kernel would block; a hard error makes the unwrap panic.       *)
(***************************************************************************)
WriteAttempted == Writable \in events /\ outq # <<>>

\* Mutant: handle_write reads the head with front() and never pops it.
CtxAfterWriteNoPop ==
    IF WriteAttempted
    THEN Ctx(pool + 1, outq, chan, timers)
    ELSE Ctx(pool, outq, chan, timers)

CtxAfterWrite ==
    IF WriteAttempted
    THEN Ctx(pool + 1, Tail(outq), chan, timers)
    ELSE Ctx(pool, outq, chan, timers)

WireAfterWrite(so) ==
    IF WriteAttempted /\ so = "ok" THEN Append(wire, Head(outq)) ELSE wire

(***************************************************************************)
(* DispatchHandler::handle_read and the rest of ready: pop a buffer,       *)
(* recv_from into it; on a datagram hand it to incoming and push the       *)
(* buffer back afterwards; on no datagram (an error, or WouldBlock) return *)
(* early, the popped buffer being dropped.                                 *)
(***************************************************************************)
ReadPath(ctx) ==
    LET lent == [ctx EXCEPT !.pool = PoolPop(@)]
    IN  \/ /\ Readable \notin events
           /\ SetCtx(ctx)
           /\ UNCHANGED <<rx, sent, posted>>
        \/ /\ Readable \in events
           /\ "error" \in RecvOutcomes
           /\ SetCtx(lent)
           /\ UNCHANGED <<rx, sent, posted>>
        \/ /\ Readable \in events
           /\ rx # <<>>
           /\ rx' = Tail(rx)
           /\ Callback(lent, 1)

(***************************************************************************)
(* Handler::ready for the socket token: write first if writable, then read *)
(* if readable.                                                            *)
(***************************************************************************)
Ready ==
    /\ pc = "io" /\ events # {} /\ ~panicked
    /\ \E so \in SendOutcomes :
        \/ /\ WriteAttempted /\ so = "error"
           /\ panicked' = TRUE
           /\ UNCHANGED <<rx, arrived, outq, sent, wire, pool, chan,
                          posted, timers, interest, events, pc>>
        \/ /\ ~(WriteAttempted /\ so = "error")
           /\ wire' = WireAfterWrite(so)
           /\ ReadPath(CtxAfterWrite)
           /\ events' = {}
           /\ UNCHANGED <<arrived, interest, pc, panicked>>

(***************************************************************************)
(* Handler::notify: one message taken from the channel goes to             *)
(* Dispatcher::notify.                                                     *)
(***************************************************************************)
Notify ==
    /\ pc = "io" /\ chan > 0 /\ ~panicked
    /\ Callback(Ctx(pool, outq, chan - 1, timers), 0)
    /\ UNCHANGED <<rx, arrived, wire, interest, events, pc, panicked>>

(***************************************************************************)
(* Handler::timeout: an expired timeout goes to Dispatcher::timeout.       *)
(***************************************************************************)
Timeout ==
    /\ pc = "timers" /\ timers > 0 /\ ~panicked
    /\ Callback(Ctx(pool, outq, chan, timers - 1), 0)
    /\ UNCHANGED <<rx, arrived, wire, interest, events, pc, panicked>>

(***************************************************************************)
(* Handler::tick, at the end of every loop iteration: re-register the      *)
(* socket readable, plus writable when the out queue is not empty.         *)
(* Re-registering re-arms the edge-triggered registration, so the next     *)
(* poll reports whatever the socket is ready for.                          *)
(***************************************************************************)
\* Mutant: tick re-registers the socket readable only.
TickReadableOnly ==
    /\ pc = "tick" /\ ~panicked
    /\ interest' = {Readable}
    /\ pc' = "poll"
    /\ UNCHANGED <<rx, arrived, outq, sent, wire, pool, chan, posted,
                   timers, events, panicked>>

Tick ==
    /\ pc = "tick" /\ ~panicked
    /\ interest' = IF outq = <<>> THEN {Readable} ELSE {Readable, Writable}
    /\ pc' = "poll"
    /\ UNCHANGED <<rx, arrived, outq, sent, wire, pool, chan, posted,
                   timers, events, panicked>>

(***************************************************************************)
(* The mio event loop around the handlers.  Poll reports the readiness the *)
(* socket is registered for: readable when a datagram is queued, writable  *)
(* always (the send buffer is not modelled; a send the kernel refuses is   *)
(* the "wouldblock" outcome of send_to).  Poll may also return with no     *)
(* event (timer wheel tick or spurious wakeup).                            *)
(***************************************************************************)
Poll ==
    /\ pc = "poll" /\ ~panicked
    /\ events' = interest \cap ({Writable} \cup IF rx # <<>> THEN {Readable} ELSE {})
    /\ pc' = "io"
    /\ UNCHANGED <<rx, arrived, outq, sent, wire, pool, chan, posted,
                   timers, interest, panicked>>

IoDone ==
    /\ pc = "io" /\ events = {} /\ ~panicked
    /\ pc' = "timers"
    /\ UNCHANGED <<rx, arrived, outq, sent, wire, pool, chan, posted,
                   timers, interest, events, panicked>>

TimersDone ==
    /\ pc = "timers" /\ ~panicked
    /\ pc' = "tick"
    /\ UNCHANGED <<rx, arrived, outq, sent, wire, pool, chan, posted,
                   timers, interest, events, panicked>>

(***************************************************************************)
(* The environment: datagrams arrive from the network into the kernel      *)
(* queue, and other threads post messages through the notification         *)
(* channel (the Sender half mio hands out).                                *)
(***************************************************************************)
Arrive ==
    /\ arrived < MaxArrive /\ Len(rx) < RxCap
    /\ rx' = Append(rx, arrived + 1)
    /\ arrived' = arrived + 1
    /\ UNCHANGED <<outq, sent, wire, pool, chan, posted, timers,
                   interest, events, pc, panicked>>

ExternalNotify ==
    /\ chan < ChanCap /\ posted < MaxPosts
    /\ chan' = chan + 1 /\ posted' = posted + 1
    /\ UNCHANGED <<rx, arrived, outq, sent, wire, pool, timers,
                   interest, events, pc, panicked>>

LoopStep == Poll \/ Ready \/ Notify \/ IoDone \/ Timeout \/ TimersDone \/ Tick

Next == LoopStep \/ Arrive \/ ExternalNotify

(***************************************************************************)
(* The loop thread keeps running (weak fairness on each of its phases);    *)
(* the network, other threads and timer expiry are not forced to act.      *)
(***************************************************************************)
Fairness ==
    /\ WF_vars(Poll) /\ WF_vars(Ready) /\ WF_vars(IoDone)
    /\ WF_vars(TimersDone) /\ WF_vars(Tick)

Spec == Init /\ [][Next]_vars /\ Fairness

-----------------------------------------------------------------------------
(***************************************************************************)
(* Ordering (spec 5): datagrams enqueued through the Provider reach the    *)
(* wire in the order they were enqueued, each at most once, and everything *)
(* already on the wire was enqueued before everything still queued.  A     *)
(* wrong end popped in handle_write, or a head sent without being          *)
(* removed, breaks it only once two datagrams are queued.                  *)
(***************************************************************************)
WireFollowsEnqueueOrder == IsSorted(wire \o outq, LAMBDA x, y : x < y)

(***************************************************************************)
(* Spec 4.6: "a send that would block leaves the item at the head" -- no   *)
(* enqueued datagram is lost: each is on the wire or still queued.         *)
(***************************************************************************)
NoDatagramLost == wire \o outq = [i \in 1..sent |-> i]

(***************************************************************************)
(* Spec 7: the dispatcher never panics on transient I/O errors.            *)
(***************************************************************************)
NeverPanics == ~panicked

(***************************************************************************)
(* Spec 8: the buffers the dispatcher holds (free in the pool or carrying  *)
(* a queued datagram) are never fewer after a step than before it: the    *)
(* pool only grows on demand and every buffer taken from it comes back.   *)
(***************************************************************************)
BuffersConserved == [][pool' + Len(outq') >= pool + Len(outq)]_vars
==============================================================================
