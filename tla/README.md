# TLA+ models of the BitTorrent infrastructure crates

This directory holds TLA+ specifications of the parts of this repository whose
behaviour depends on interleavings, message loss or boundary arithmetic. Each
specification is model-checked with TLC. All code paths below are relative to
the repository root.

## The system and its parts

The spec (`spec.md`) names seven components, C1 to C7. The source shipped under
`src/` is a subset of them.

| Component | Source under `src/` | Status | Module |
|---|---|---|---|
| C6 UDP event dispatcher | `contrib/umio/src/dispatcher.rs` | modelled | `UdpDispatcher`, abstract `DatagramQueue` |
| C7 Metainfo builder | `packages/metainfo/src/builder/mod.rs` | modelled | `MetainfoBuilder` |
| C4 DHT message codec (announce_peer, response dispatch and validation) | `packages/dht/src/message/{announce_peer,response}.rs` | partly | `DhtAnnounce` |
| C5 UDP tracker codec | `packages/utracker/src/request.rs` | modelled | `TrackerRequest`, with `BigEndian` |
| C3 Peer-wire codec | `bip_peer/src/message/standard.rs` | modelled | `PeerWire`, with `BigEndian`; abstract `MessageChannel` |
| Peer protocol traits | `packages/peer/src/protocol/mod.rs` | not modelled | trait declarations with no bodies; `PeerWire` models their contract from spec 4.3 |
| Disk blocks | `packages/disk/src/memory/block.rs` | not modelled | value types with no operation beyond construction and access |
| Select errors, test utilities, tracker test | `packages/select/...`, `packages/util/src/test.rs`, `packages/utracker/tests/...` | not modelled | no runtime state |
| C1 bencode, C2 framing | none | not modelled | abstracted |

How the parts interact: the dispatcher owns one UDP socket. It hands each
incoming datagram to a user handler, such as a DHT node or a UDP tracker
client. The handler parses the datagram with the DHT or tracker codec and
answers through the dispatcher's `Provider`, which gives out buffers, queues
datagrams, and sets timeouts and self-notifications. The metainfo builder runs
on its own and feeds SHA-1 worker threads, which are external.

## Modules

### `UdpDispatcher` (C6)

The state is the `DispatchHandler` fields, plus the environment:
- `outq` is `out_queue`.
- `pool` is the number of free buffers in `buffer_pool`.
- `interest` is `current_set`.
- `rx` is the kernel receive queue.
- `chan` is mio's notify channel.
- `timers` is the registered timeouts.
- `pc` is the phase of a mio 0.5 loop iteration: poll, I/O events, timers, tick.

Every dispatcher handler is one atomic action, because each runs to completion
on the loop thread:
- `Ready` covers `ready`, `handle_write` and `handle_read`.
- `Notify` and `Timeout` call the user callback.
- `Tick` re-registers the socket readable, plus writable when the out queue is
  non-empty.

A user callback is the `Callback` disjunction over the `Provider` operations.
Those operations (`ProviderSend`, set/clear timeout, notify) and `BufferPool::pop`
are modelled from spec 4.6, because their code is not under `src/`.

mio 0.5's `send_to` returns `Ok(None)` on WouldBlock. The constant
`SendOutcomes` chooses which outcomes a run allows: ok, wouldblock, error.

Datagrams are numbered by enqueue order, so ordering and loss are statements
about sequences. `wire` is a history variable of what the kernel accepted.

### `DatagramQueue` (abstract C6)

`DatagramQueue` states what the out queue promises (spec 4.6, 5, 7):
- Datagrams are enqueued behind the tail.
- They leave from the head one at a time, onto the wire or dropped by a failed
  send.
- Every queued datagram eventually leaves (weak fairness).

One ready event may do both a leave and an enqueue, because the write path
runs before the incoming callback. `MCUdpDispatcher` instantiates it with
`INSTANCE ... WITH` and checks `AbstractQueue!Spec` as a PROPERTY.

### `MetainfoBuilder` (C7)

The state is:
- which builder the caller holds, `MetainfoBuilder` or `InfoBuilder`;
- the keys present in the `MetainfoBuilder`'s root dictionary (`announce`,
  `announce-list`, `creation date`, `comment`, `created by`). Only whether a
  key is present is kept; URLs, dates and text are data no property reads;
- the `piece_length` strategy;
- the `private` key of the info dictionary;
- a history variable `requested`, holding the last argument of
  `set_private_flag`;
- the `output` of the build.

The actions are the five root setters (`SetTrackers`, `SetMainTracker`,
`SetCreationDate`, `SetComment`, `SetCreatedBy`; `Some` inserts the key,
`None` removes it), `SetPieceLength`, `SetPrivateFlag`, `Build` and
`InfoBuild`:
- `SetPrivateFlag` translates the `insert`/`or_else(remove)` chain literally.
- `Build` is `MetainfoBuilder::build` and `InfoBuild` is `InfoBuilder::build`.
  Both may fail in `into_accessor` (`AccessorError`). Otherwise both run
  `build_with_accessor`, `Build` with `Some(root)` and `InfoBuild` with `None`.
- `BuildResult` is `build_with_accessor`. It asserts `threads != 0`, sums the
  file lengths, calls
  `determine_piece_length` and `calculate_piece_length`, computes
  ceil(total/len), and applies the range assert. It then picks the single- or
  multi-file layout, panicking at `files_info[0]` when there is no file, and
  puts the info dictionary under `info` in the root, if there is one.

`calculate_piece_length` uses exact integer arithmetic for the code's
`(size / n + 0.5) as u64`, and a RECURSIVE `next_power_of_two`.

The piece count, `(total as f64 / len as f64).ceil() as u64`, is modelled
with f64 arithmetic:
- A float is a record `[m, e]` whose value is m·2^e.
- `m` keeps at most `F64Mantissa` significant bits (53 for f64).
- `ToF64` is the `as f64` conversion, and `F64Div` is IEEE division. Both
  round half to even.
- `F64Ceil` is `ceil` followed by `as u64`.
`PiecesCoverFiles` states that this count is exactly the number of pieces
needed to cover the files.

The 16 MiB constants do not fit TLC's integers together with real file sizes in
an exhaustive run. So the constants are CONSTANTS, scaled down in the pass run.
The budget run uses the real constants, with sizes around the interesting
boundary.

### `DhtAnnounce` (C4)

The model has three actors:
- Node A issues `ping` and `announce_peer` queries and keeps the expected
  response table `trans id -> ExpectedResponse` (spec 4.4).
- Node B parses announces with `AnnouncePeerRequest::from_parts` and answers
  with `AnnouncePeerResponse`.
- Foreign nodes inject hand-made announces and forged replies.

The network `net` is a set of datagrams. `Lose` removes one. Delivery does not
remove one, so every datagram can be delivered again (duplication) and in any
order.

A bencoded value is abstracted to its type and one integer: the value of an int,
the length of a byte string. This keeps exactly what `from_parts` validates.

- `AnnounceArgs` is `encode`.
- `AnnounceAccepted` and `AnnouncePort` are `from_parts`, including the
  `implied_port` fallthrough and `unsigned_abs() as u16`.
- `ParseResponse` is `ResponseType::from_parts`, with its order kept: the `r`
  lookup comes before the match on the expected kind.
- `KindAccepted` is that match: `validate_nodes` (compact node info is a
  multiple of 26 bytes) for `find_node`; for `get_peers` a token, then `nodes`
  and/or `values`, with `validate_values` checking every value is a 6-byte
  byte string.

Node A also sends `find_node` and `get_peers` lookups (`SendLookup`). Their
queries go to nodes outside the model, so their replies come from
`ForeignReply`, drawn from well- and ill-formed `nodes`, `values` and `token`
fields.

The caller's table handling (`HandleReply`, `TimeoutTransaction`), ping and the
lookups' sending side are modelled from the spec.

### `TrackerRequest` (C5)

A client writes `TrackerRequest`s into datagrams with `write_bytes`, and a
tracker parses each one with `parse_request`. `written` is a history of the
requests. `datagrams` and `parsed` are the two ends.

Bytes are integers in 0..255. `BytesBE` and `FromBE`, in the shared module
`BigEndian`, are byteorder's and nom's big-endian integers: a RECURSIVE
operator and a fold. A u64 connection id is the pair of its 32-bit halves: TLC's
integers are 32-bit, and the halves keep the protocol id 0x0417_2710_1980
exact.

`ActionId` picks the announce action from the IP family, as `write_bytes`
does. `parse_request` matches on (connection id, action) in the code's order,
and a connect is accepted only with the protocol id. The announce and scrape
bodies are modelled from spec 4.5, because their code is not under `src/`. They
keep only the fields whose width differs by family (the IP), plus the event and
the port.

### `PeerWire` (C3)

A sender writes standard peer messages as frames into a TCP byte stream:
- a u32 length of id and body;
- the id;
- the body.

`Deliver` hands the receiver the next 1 to `MaxChunk` bytes, so TCP may split a
frame anywhere. `Receive` asks `bytes_needed` how long the next frame is and,
once it holds that many bytes, parses the frame and removes it from its buffer.

The remote peer may misbehave. `WriteOversized` announces a length past the
receiver's configured maximum, `MaxLength`. `bytes_needed` then returns its
error (`TooLong`), and `DropConnection` drops the connection, as the
`PeerProtocol` contract in `packages/peer/src/protocol/mod.rs` requires.
Nothing more is delivered, written or parsed after that. The framing, the
writer, `bytes_needed`, `Receive` and `DropConnection` are modelled from spec
4.3: `protocol/mod.rs` only declares the traits.

- `HaveMessage`, `RequestMessage`, `PieceMessage` and `CancelMessage` are the
  constructors in `standard.rs`.
- `BitFieldMessage_new` computes ceil(total_pieces / 8) by hand, as the code
  does.
- `parse_have`, `parse_bitfield`, `parse_request`, `parse_piece` and
  `parse_cancel` read the same fields in the same order as the code.
- `parse_piece` takes the block length from its caller and does not read the
  block.

Extension messages (id 20) carry a sub-id. Sub-id 0 is the extension
handshake, whose `m` dictionary maps extension names to sub-ids; any other
sub-id names the extension the last handshake mapped to it. The sender's
table (`advertised`) changes when it writes a handshake, and it writes an
extension message only under the id it advertised (`Writable`). The
receiver's table (`nested`) changes in the same `Receive` step that parses
the handshake, as the `NestedPeerProtocol` contract of
`packages/peer/src/protocol/mod.rs` requires (`received_message`
before the next frame is sized). The frames after a handshake are therefore
resolved through the new table.

The framing, the writer, `bytes_needed` and the extension encoding are
modelled from spec 4.3, because their code is not under `src/`.

### `MessageChannel` (abstract C3)

`MessageChannel` states what a peer connection promises its user (spec 4.3,
8): the messages come out in the order they were sent, each exactly once, and
every sent message is eventually received (weak fairness of `Obtain`).
`MCPeerWire` instantiates it with `sent <- WellFormedPrefix(sent)` (the
messages before any oversized frame) and `received <- received`,
so the byte stream, chunks and buffer are hidden. It checks
`Channel!Spec` as the PROPERTY `PeerWireRefinesChannel`. A `Receive` that
parses a frame is an `Obtain`. A `Write` before any oversized frame is a
`Send`. `Deliver`, `WriteOversized`, `DropConnection` and later writes are
stuttering steps.

## Runs

Every run has an MC module, `MC<Module>.tla`, and a cfg.

| Run | Expect | Properties | What it shows |
|---|---|---|---|
| udp_pass | pass | TypeOK, WireFollowsEnqueueOrder, OutQueueRefinesDatagramQueue | Datagrams reach the wire in enqueue order. Under the refinement mapping (`queue <- outq`, `wire <- wire`, `enqueued <- sent`), the dispatcher implements `DatagramQueue`, including its fairness: each queued datagram eventually leaves, which depends on `tick` re-arming writability. |
| udp_loss | violation | NoDatagramLost | A WouldBlock send loses the popped datagram (spec 4.6 says it stays at the head). |
| udp_panic | violation | NeverPanics | `send_to(..).unwrap()` panics on a hard error (spec 7). |
| udp_buffers | violation | BuffersConserved | A read with no datagram drops its buffer (spec 8 buffer invariant). |
| metainfo_pass | pass | TypeOK, PieceLengthValid, PieceLengthMonotone, PiecesCoverFiles | Every Opt strategy yields a power of two in [min, cap], monotone in the total size. The piece count, computed as `ceil(total as f64 / len as f64)`, is exactly the number of pieces that cover the files. |
| metainfo_budget | violation | PieceHashesWithinBudget | OptTransfer at 3072001 bytes: 3001 pieces × 20 = 60020 > 60000 (spec 8). |
| metainfo_private | violation | PrivateFlagHonoured | `set_private_flag(Some(_))` on a fresh builder leaves the key absent. |
| dht_pass | pass | TypeOK, ConnectPortPreserved, ResponseValidatedAsExpected | Despite loss, duplication, forged replies and timeouts, the announced port round-trips. A reply is accepted only when it is well formed for the kind its trans id expects, checked against a reference definition of compact nodes and values. |
| dht_port | violation | ExplicitPortIsSentPort | Port 72417 or -6881 is accepted as Explicit(6881). |
| tracker_pass | pass | TypeOK, RoundTrip | Every connect, v4/v6 announce and scrape, with ids at the ends of their range, parses back identically. |
| peer_pass | pass | TypeOK, StreamRoundTrip, BitFieldCoversPieces, PeerWireRefinesChannel | However TCP chunks the stream, the receiver parses exactly the messages sent, in order, with extension messages resolved through the handshake before them. A bitfield keeps one bit per piece. The stream implements `MessageChannel`, including its fairness, under the mapping `sent <- WellFormedPrefix(sent)` (what the peer wrote before it misbehaved) and `received <- received`: each such message is eventually parsed, even when the peer then misbehaves. |
| dht_unsolicited | violation | UnknownTransIsUnsolicited | A stray reply without `r` is a conversion error, not UnsolicitedResponse. |

`PROJECT.json` lists for every pass-run property a mutant: a plausible bug in the
mapped code, defined in the module just before the definition it replaces.
TLC finds each of them.

### Bounds and why they suffice

- **Dispatcher:**
  - MaxSend = 4, so three datagrams can wait behind the one being written;
    reordering needs two.
  - MaxArrive = 3 and RxCap = 2, so a read event can handle one queued
    datagram and leave one.
  - ChanCap = 2, MaxPosts = 3, MaxTimers = 2.

  Every callback can therefore run from every handler, and a callback can
  enqueue while a write is pending.
- **Metainfo:**
  - Scaled run: ShaHashLen 20, with budgets of 4, 2 and 6 pieces and a cap of
    16. File lengths go up to 40 in up to 2 files, so totals reach 80 and cross
    both clamp boundaries of every strategy. Custom lengths are {0, 5}.
  - F64Mantissa = 7 in the scaled runs. Totals up to 80 fit in 7 bits, so the
    f64 division is exact there, as it is for real totals below 2^53. At 5
    bits, 33 bytes in pieces of 8 round to 32 and give 4 pieces, and
    `PiecesCoverFiles` fails; this is the precision loss the code would have
    above 2^53 bytes. The budget run uses 53 bits.
  - Budget run: the real constants and a single file of 3072000 to 3074000
    bytes, the first window where the half-up rounding overshoots.
- **DHT:**
  - Two trans ids and announce ports 0 and 65535, the ends of the u16 range.
  - One foreign datagram, drawn from announces that vary `port`
    (absent/int/out of range/negative/bytes) against `implied_port`
    (absent/0/1/2/bytes), or from replies with 20-byte, 19-byte or int ids, an
    empty `r`, or no `r`.
  - Lookup replies with `nodes` of 26, 25 and 52 bytes or an empty list, and
    with a token plus `values` of a 6-byte, a 5-byte or an int element. Each
    arm of `validate_nodes` and `validate_values` is therefore reached.

- **Tracker:**
  - Connection ids: the protocol id, <<0, 5>>, and both halves at 2^31-1.
  - Transaction ids 0 and 2^31-1, events 0 and 3, ports 0, 6881 and 65535.
  - Scrapes of one or two hashes, and two requests per behaviour, so that two
    different kinds follow each other.

- **Peer wire:**
  - Piece indices 0 and 2^31-1, and offsets and request lengths of 16 KiB.
  - Piece blocks of 1 and 2 bytes.
  - Bitfields for 9 pieces (one bit past a byte) and for 16 pieces (two whole
    bytes).
  - MaxLength = 17, the longest honest frame here (a Request or Cancel).
    Oversized lengths are 14, the first past it, and 2^31-1, the largest TLC
    holds. A limit off by one therefore refuses an honest frame.
  - Two messages, and chunks of 1 to 3 bytes. A 4-byte length prefix can
    therefore arrive split, and one chunk can end one frame and start the next.
  - One extension name, `ut_metadata`, under sub-id 1 or 2. A handshake
    followed by an extension message is reached. A second handshake that
    re-maps the name needs three messages. The refinement check was run once
    at that size and held (470k states, about 15 minutes), which is too
    slow for the run.

The tracker round trip holds only for connect requests built with the protocol
id. `TrackerRequest::new` accepts a Connect with any id, and `write_bytes`
writes it, but `parse_request` rejects it. The pass
run keeps `ConnectIds` at the protocol id, as every client in the crate does.

### Fairness

Only the loop thread's own steps are weakly fair: Poll, Ready, IoDone,
TimersDone and Tick. mio's loop runs them whenever they are enabled. Arrivals,
notifications from other threads and timer expiry are not forced. The metainfo
and DHT runs check only safety.

The peer-wire run assumes weak fairness of `Deliver`, `Receive` and
`DropConnection`. It checks liveness through the refinement of
`MessageChannel`, whose `Obtain` is weakly fair. TCP keeps delivering the bytes of an open
connection. The receiver's read loop parses every complete frame it holds,
and it acts on an error from `bytes_needed`. The sender's `Write` is not forced.

`MCDhtAnnounce.cfg`, `MCMetainfoBuilder.cfg`, the tracker cfg and the
peer-wire cfg set
`CHECK_DEADLOCK FALSE`:
- The builder is consumed by `build`.
- A DHT node whose bounded trans ids are spent and whose network has drained is
  simply idle.
- The tracker client, and the peer-wire sender, write their bounded number
  of requests or messages and then have nothing to send.

## Not modelled, and why

- **Bencode and framing primitives (C1, C2):** no source under `src/`.
- **Provider, BufferPool, mio internals:** no source under `src/`; modelled from
  spec 4.6.
- **SHA-1 workers and `map_pieces_list`:** piece data, external per spec 1.
- **The values of the tracker URL, comment, date and created-by setters:**
  only whether each key is present is modelled.
- **DHT `get_data`/`put_data` responses:** `from_parts` reaches
  `unimplemented!()` for them, but nothing under `src/` registers those kinds,
  so that arm is unreachable.
- **Disk blocks (`block.rs`):** `Block`, `BlockMut` and `BlockMetadata` are
  value types. They are built and read, and `BlockMut -> Block` moves the
  bytes. No state changes in a way a model could check.
- **The peer protocol traits (`protocol/mod.rs`):** trait declarations with
  doc comments and no bodies, and their implementors are not under `src/`.
  The contract is modelled from spec 4.3 in `PeerWire`, and the map marks
  those definitions as modelled from the spec.
- **Transaction bookkeeping of the DHT caller:** the table of expected kinds
  and the timeout are not under `src/`. They are modelled from spec 4.4 to
  drive `ResponseType::from_parts`, and no property is stated about them
  alone.
- **The root setters' values:** the setters insert or remove one key each.
  No property is stated about the root: one would only restate those
  assignments.
- **A Piece frame shorter than 9 bytes:** the caller of `parse_piece` that
  computes `length - 9` is not under `src/`, and the spec does not say what it
  does with such a frame.
- **f64 precision above 2^53:** the real widths are outside TLC's integers.
  The f64 model runs at a width of 7 bits, which is exact for the scaled
  totals. At 5 bits the same model shows the loss (listed as a hazard).

## Plan for the next modules

1. A second extension handshake that re-maps a name. The `MessageChannel`
   refinement holds at three messages, but the check takes about 15 minutes.
