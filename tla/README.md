# TLA+ models of the feo tracing pipeline

This directory holds TLA+ models of the eclipse-score/feo sources under
`src/`, the TLC configurations that check them, and `PROJECT.json`, which
maps every modelled definition to the lines of code it translates and lists
the runs, mutants, findings and hazards.

## 1. Inventory

### Components

| Component | Source | State it keeps | Operations |
|---|---|---|---|
| Instrumentation facade (`Subscriber` as `tracing::Subscriber`) | `src/src/feo-tracing/src/subscriber.rs` 169-312 | `max_level`, a clone of the `enabled` latch, the channel's `SyncSender` | `enabled`, `new_span`, `record`, `event`, `enter`, `exit`, and the private `send` |
| Span-id allocator | subscriber.rs 180-189 | `static NEXT_ID: AtomicU64`, starts at 1 | `new_span_id` (relaxed `fetch_add(1)`) |
| Bounded channel | subscriber.rs 44, 210, 240 (std `sync_channel`) | up to `MPSC_CHANNEL_BOUND` = 512 queued packets; connected while the worker's `Receiver` lives | blocking `send`, blocking `recv`; dropping the receiver disconnects |
| Transport worker (`Subscriber::thread_main`) | subscriber.rs 191-233 | the `UnixStream`, the encode buffer, a `BufWriter` of `512 * MAX_PACKET_SIZE` bytes, `last_flush` | connect, receive, serialize (postcard + COBS), `write_all`, timed `flush` |
| Initialisation (`init`) | subscriber.rs 43-60 | creates channel, latch, worker thread; installs the global default | `init(level)` |
| Error formatting adapters | subscriber.rs 62-167, `src/src/feo/src/debug_fmt.rs` | none | map error kinds to log strings; render a `Debug` value into a fixed buffer |
| Wire protocol (`TracePacket`, `TraceData`, `truncate`) | `feo-tracing/src/protocol.rs`, not under `src/` | none | packet shapes, name truncation at a UTF-8 boundary |
| Recording deserializer (`adas_deserializer`) | `src/examples/rust/mini-adas/src/bin/adas_deserializer.rs` | the remaining byte slice | decode records, decode or skip the data record that follows a description |
| Scaled-time example | `src/src/feo-time/examples/time_speedrun.rs` | none (prints) | sleeps and prints elapsed times |
| Perfetto model | `src/src/perfetto-model/src/lib.rs` | none | re-exports generated protobuf types |

### How they interact

Application threads call the facade through the `tracing` crate. A callsite
first asks `enabled(level)`; only enabled callsites call `new_span` or
`event`, and `record`/`enter`/`exit` only reach the subscriber for spans it
created. Every callback builds one packet and calls `send`, which loads the
shared `enabled` latch (relaxed) and, if set, calls `sender.send`: this
blocks while the channel holds 512 packets and fails once the worker's
receiver has been dropped, in which case `send` clears the latch.

The worker is the only consumer. It connects once (failure: clear the latch
and return), then loops: `recv` (blocks), serialize (failure: drop the
packet, `continue`), `write_all` into the `BufWriter` (which writes to the
socket only when the packet does not fit; failure: clear the latch and
return), and, if more than 500 ms have passed since the last flush,
`flush().expect(..)` (failure: panic). Returning or panicking drops the
receiver, which disconnects the channel and discards what it still holds.

### What is hard here

* Many producers and one consumer interleave on a bounded channel;
  producers block (backpressure) and must be released when the consumer
  dies.
* The `enabled` latch is read by producers before `send` and written by the
  worker and by producers; it can be stale when used.
* Partial failure: a socket write can fail half way through the buffered
  data; a flush failure panics instead of clearing the latch.
* Timing: delivery of buffered data depends on when the flush check runs.
* The connect has no retry; everything queued before a failure is lost.
* Socket writes block with no timeout: a collector that stops reading
  stalls the worker and, through the full channel, every producer.

### Properties that make each component correct

* Facade: per-thread FIFO from call to socket; events carry the thread's
  entered span as `parent_span`; the latch is cleared only when the
  transport is really gone; severity filtering.
* Allocator: ids unique and non-zero.
* Channel: no loss, duplication or invention of packets; a blocked sender is
  released.
* Worker: packets reach the socket in the order received; buffered data is
  delivered within the flush interval; a failure ends delivery for good.
* Deserializer: every byte of the recording is consumed by exactly one
  record or data payload; a skip never runs past the end.

## 2. Plan

Modules, with their status:

1. `TraceSubscriber` (done): facade, allocator, channel and worker composed
   in one module, since they share the latch and the channel. One action per
   callback (`NewSpan`, `Record`, `Event`, `Enter`, `Exit`), per step of
   `send` (`CheckEnabled`, `SendPacket`) and per step of `thread_main`
   (`Connect`, `Recv`, `Write`, `FlushCheck`), plus `Tick` for time.
2. `MC_TraceSubscriber` (done) with seven configurations (below).
3. `TracePipeline` (done): the abstract promise of the pipeline, a lossy
   FIFO from `send` to the socket in which loss happens only by a
   serialization error or when the transport fails for good.
   `TraceSubscriber` implements it (`PipelineRefinement`).
4. `SubscriberInit` (done): repeated `init` calls, each spawning its worker
   before `set_global_default` decides.
5. `Utf8` (done): UTF-8 bytes at the level of character widths, for
   `ScoreDebugDebug`. (`protocol::truncate` is not modelled: its code is not
   in this tree, see section 5.)
6. `AdasDeserializer` (done): the record loop of `adas_deserializer.rs` over
   small recordings cut at any byte, with the panics as error states.
7. `ScoreDebugDebug` (done): the fixed-buffer `Debug` rendering of
   `debug_fmt.rs` and its panic when the output does not fit.
8. (done) The worker's shutdown in `TraceSubscriber` as separate steps:
   `enabled.store(false)`, then `Return`, in which the `BufWriter`'s
   destructor flushes what is left before the receiver is dropped.

Not planned: the error-kind-to-string adapters (pure formatting), the
scaled-time example (sequential prints), the generated Perfetto types.

## 3. The model of the subscriber (`TraceSubscriber.tla`)

Data is abstracted: a packet is its thread, its per-thread call number,
its `TraceData` kind and the span id it carries (`None` = 0), plus a history
field `ctx`, the span the application had entered when it made the call.
The `BufWriter` is counted in packets (`BufCap`): it spills, i.e. writes
to the socket, when a packet arrives and it is full.

| Variable | Code |
|---|---|
| `enabled` | the `Arc<AtomicBool>` shared by facade and worker |
| `nextId` | `NEXT_ID` |
| `chan` | the `sync_channel` contents |
| `wpc`, `inhand`, `buf`, `elapsed` | the worker's position, received packet, `BufWriter` contents and `last_flush.elapsed() > FLUSH_INTERVAL` |
| `sink` | what the feo-tracer daemon has received |
| `ppc`, `pkt`, `calls`, `stack`, `spans` | each thread's position in its callback, the packet it is sending, its call count, the spans it has entered, the ids returned by `new_span` |
| `sent`, `dropped` | history: packets pushed into the channel, packets the worker discarded |

Each step of `send` and of the worker loop is a separate action because
other threads can run between them: the latch is loaded before
`sender.send`, and the worker can die in between. Encoding is merged into
`Write` since it touches no shared state. A socket error is a
nondeterministic outcome of the I/O that `write_all` (spill) or `flush`
does; a failure after `k` packets went out delivers those `k` (a torn frame
counts as lost) and drains them from the buffer, as `BufWriter::flush_buf`
does. The worker ends in two steps: the failing step clears `enabled`
(worker state `stopping`; a flush panic leaves it set, state `unwinding`),
and `Return` drops the locals in reverse order: the `BufWriter`'s destructor
flushes what it still holds, ignoring errors (any further prefix may get
out), the packet in hand is lost, and the receiver, a parameter, is dropped
last, which disconnects the channel. Between the two steps producers can
still queue packets that will be discarded.

`CurrentSpan(t)` is `None`: `Subscriber` does not override
`tracing::Subscriber::current_span`, whose default returns
`Current::unknown()`, and `Current::id()` of that is `None`.

Fairness. Weak fairness for each thread's `CheckEnabled` and `SendPacket`
(OS threads run when runnable), for `Tick` (time advances) and for every
worker step that does not call into the socket (`WorkerStep /\ ~AtSocket`).
`AtSocket` is the worker about to spill a full `BufWriter` with `write_all`
(line 220) or to make the timed `flush` (line 229): those calls block on a
`UnixStream` with no timeout, so they return only if the collector keeps
reading or closes the connection. That is an assumption about the
collector, not about scheduling, and it is stated separately as
`CollectorResponsive`; `CollectorSpec` is `Spec` with it. `connect` on a
Unix socket returns at once (connected or refused), and the destructor's
flush in `Return` only follows a socket error, which a stream socket keeps
reporting, so both are left fair. The application's calls are not fair: a
program may stop tracing at any time, which is also why the runs say
`CHECK_DEADLOCK FALSE` (all threads done and the worker blocked in `recv`
forever is a real final state of the program).

## Refinement (`TracePipeline.tla`)

`TracePipeline` has an in-flight queue, the delivered sequence and an `up`
flag, and four actions: `Accept` (a send while up), `Deliver` (a prefix of
the queue reaches the collector), `Lose` (one message dropped: a
serialization error) and `Fail` (a last prefix gets out, the rest is lost,
the transport is down for good). `TraceSubscriber` maps onto it with
packet identities (thread, call number): `inflight` is `buf \o inhand \o
chan` while the worker lives and empty after, `out` is `sink`, `up` is
"the worker has not ended". `PipelineRefinement == TP!PSpec` is checked as a
temporal property.

## 3d. Fixed-buffer Debug rendering (`ScoreDebugDebug.tla`)

`ScoreDebugDebug::fmt` renders a value with `write!` into a
`Cursor` over a zeroed `[u8; MAX_LENGTH]`. The value's `Debug` impl is
any sequence of `write_str` pieces (`Init`); `NextPiece` hands one to
`write_all`, `CursorWrite` is one turn of its loop (copy what fits;
`Ok(0)` is `WriteZero` and the first `expect` panics), and `Finish` takes
`buf[0..position]`, runs `from_utf8` (the recursive `Utf8Valid`) and the
second `expect`, and passes the `str` on. Characters are abstracted to
their UTF-8 width, so a piece can be cut inside a character.

## 3b. Repeated `init` (`SubscriberInit.tla`)

Each call of `init` is an actor with its own channel, latch and worker:
`Spawn` (lines 44-51), `Install` (`set_global_default(..).expect`, success
or panic dropping the `Sender`), and the worker's `Connect` and
`RecvDisconnected` (`recv().expect` with no `Sender` left). Packets are
left to `TraceSubscriber`. Fairness: weak for installing and for the
worker's steps (threads run); the program's decision to call `init` is not
fair.

## 3c. The recording reader (`AdasDeserializer.tla`)

A recording is a sequence of at most `MaxRecords` records, each a
`DataDescription` (type, `data_size` up to `MaxSize`) followed by its
message, or another record. Bytes are tokens: two per record header, one
per message byte, so the file can be cut inside a header or a message.
`Init` takes any recording and any cut (the recorder may be killed).
`Iteration` is one pass of the `while` loop: `RecordFails` (the
`deserializing failed` expect), `KnownMessage` (decode and print, or the
expect in `try_deserialization_as_a` panics), `SkipUnknown` (the slice
panics when `data_size` runs past the end) and `OtherRecord`. Bytes that
are not a record header decode to any record or fail, as postcard may do
with arbitrary bytes. The model assumes the recorder's `data_size` is the
encoded length of the message that follows.

## 4. Runs

| Run | Config | Checks | Result |
|---|---|---|---|
| `subscriber_safety` | `MC_TraceSubscriber.cfg` | `TypeOK`, `PerThreadOrder`, `PacketConservation`, `DisabledOnlyWhenDisconnected`, `NothingAcceptedAfterDisable` | pass |
| `subscriber_backpressure` | `MC_TraceSubscriber_live.cfg` | `NoProducerBlockedForever` under `CollectorSpec` | pass |
| `stalled_collector` | `MC_TraceSubscriber_stall.cfg` | `NoProducerBlockedForever` under `Spec` | violation |
| `flush_bound` | `MC_TraceSubscriber_flush.cfg` | `BufferedPacketDelivered` under `CollectorSpec` | violation |
| `event_parent` | `MC_TraceSubscriber_parent.cfg` | `EventParentIsEnteredSpan` | violation |
| `pipeline_refinement` | `MC_TraceSubscriber_refine.cfg` | `PipelineRefinement` | pass |
| `init_orphan_ends` | `MC_SubscriberInit.cfg` | `OrphanWorkerEnds` | pass |
| `transport_one_way` | `MC_TraceSubscriber_oneway.cfg` | `NoDeliveryAfterTransportFailure` | violation |
| `debug_render` | `MC_ScoreDebugDebug.cfg` | `NoUtf8Panic`, `LoggedIffFits` | pass |
| `deserializer` | `MC_AdasDeserializer.cfg` | `OutputIsPrefix`, `CompleteFileFullyDecoded` | pass |

Bounds. Two threads, two calls each, a channel of two slots and a buffer of
two packets (`subscriber_safety`, with thread symmetry): the channel fills
while the worker is still connecting, a third send blocks, the buffer
spills on the third packet, and every failure point (connect, spill, flush,
serialization) is reached with packets of both threads in flight.
`subscriber_backpressure` uses one slot and one packet so that a producer is
blocked when the worker dies. `IdBits = 3` leaves the counter below its
wraparound, as the code assumes for 64 bits. `pipeline_refinement` uses the
safety bounds without symmetry (the mapping names threads). `SubscriberInit`
uses three calls, so that two calls lose to the installed one in every
order. `deserializer` enumerates every recording of up to three records of
two types (one known), with messages of up to two bytes, cut at every byte.
`debug_render` enumerates every rendering of up to three pieces of up to two
characters of width 1 or 2 into a 3-byte buffer: renderings shorter than,
equal to and longer than the buffer, and pieces cut inside a character.

What the runs show:

* Per-thread order holds from call to socket, across spills and failures.
* No packet is duplicated or invented, and every loss is accounted for by a
  serialization error or by the worker ending.
* `enabled` is only cleared by a worker that has given up or after it has
  ended. The converse does not hold: after a panicking flush the latch
  stays set until some producer's `send` fails.
* Once `enabled` is cleared nothing new enters the transport: only what the
  `BufWriter` already held can still reach the daemon, through its
  destructor's flush (`NothingAcceptedAfterDisable`).
* With a collector that keeps reading or closes the socket, a blocked
  producer is always released, by the worker or by the channel's
  disconnect when the worker ends. With unboundedly many producers
  `sync_channel` gives no fairness among senders.
* `stalled_collector` (violation): without that assumption, a collector
  that stays connected but stops reading leaves the worker blocked in its
  timed `flush`, the channel fills, and a producer stays blocked in
  `sender.send` for ever. Spec section 7 allows only a bounded
  backpressure wait while the pipeline is healthy; the code has no timeout
  on the socket.
* `flush_bound` is checked under `CollectorSpec`, so its counterexample is
  not a stalled socket: the worker sits in `recv` with the interval
  elapsed.
* `flush_bound` (violation): the worker checks the timer only after a
  write, and `recv` blocks without a timeout, so the last packets of a burst
  stay in the `BufWriter` until another packet arrives, contrary to the
  spec's flush bound.
* `event_parent` (violation): every `Event` carries `parent_span: None`
  even inside an entered span, contrary to spec section 4.1.

* `pipeline_refinement`: every behaviour of the subscriber is a behaviour of
  the lossy FIFO: no reordering across threads' interleavings, and after the
  worker ends nothing more reaches the daemon.
* `init_orphan_ends`: the worker of a losing `init` always ends (connect
  failure or the `recv` expect), since unwinding drops its only `Sender`.
* `deserializer`: output is always a prefix of what was recorded, also for
  a cut file (which panics, at the first cut record); a complete file is
  read to its end and printed in full.

* `transport_one_way` (violation): spec section 8 says no packet reaches
  the sink once a transport failure occurred. After a failed `write_all`
  (return) or `flush` (panic), dropping `socket_writer` makes the
  `BufWriter` flush its buffer once more, so buffered packets still reach
  the collector when the error was transient.
* `debug_render`: a rendering is logged unchanged exactly when it fits,
  including one that fills the buffer to its last byte; the UTF-8 `expect`
  can never fire, because a cut character always comes with the write
  error that panics first.

## 5. Not modelled

* The payload (`EventInfo`, timestamps) is abstracted away; the severity
  filter is a guard on the callsite and is not stated as a property since
  it would hold by the shape of the model.
* The packet layout, postcard encoding and COBS framing: `protocol.rs` is
  not in this tree and the encoders are external crates; packets stay
  abstract. `protocol::truncate` (the cut of a name at a UTF-8 boundary)
  is not modelled either: a version written from the spec's rule and
  checked against that rule would say nothing about the code.
* The error-kind-to-name adapters of `subscriber.rs` (lines 62-167) and the
  `HashSet`/`BTreeSet` adapters of `debug_fmt.rs`: they map each variant to
  a fixed string or hand everything to score_log's `DebugSet`; there is no
  state and no failure path to check.
* The scaled-time example `time_speedrun.rs`: a single thread that sleeps
  and prints; the scaled clock it exercises (`feo_time`) is not in this
  source tree and is out of the spec's scope.
* The Perfetto model: re-exported generated protobuf code.
* `NEXT_ID` wraparound at 2^64 (the counter is kept below its wrap): spec
  section 4.2 leaves it unhandled as unreachable.
* A second `init` opens a second connection (its worker connects before
  `set_global_default` fails) and the call panics; spec sections 6 and 9
  ask for exactly that visible setup error, so it is not a finding.
  `init_orphan_ends` checks that this worker then ends.
