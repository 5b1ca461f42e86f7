--------------------------- MODULE TraceSubscriber ---------------------------
(***************************************************************************)
(* The feo-tracing subscriber (src/src/feo-tracing/src/subscriber.rs):     *)
(* application threads call the tracing callbacks (new_span, record,       *)
(* event, enter, exit); each builds a TracePacket and hands it to          *)
(* Subscriber::send, which checks the `enabled` latch and pushes the       *)
(* packet into a bounded std::sync::mpsc::sync_channel.  One worker thread *)
(* (Subscriber::thread_main) connects to the tracer socket, receives       *)
(* packets, serializes them (postcard + COBS) and writes them through an   *)
(* io::BufWriter, flushing when FLUSH_INTERVAL has elapsed.                *)
(*                                                                         *)
(* Data is abstracted: a packet is its producing thread, the thread's      *)
(* call number, its TraceData kind and the span id it carries.  Bytes are  *)
(* abstracted to packets: the BufWriter holds up to BufCap packets.        *)
(***************************************************************************)
EXTENDS Naturals, Sequences, SequencesExt, FiniteSets

CONSTANTS
    Threads,    \* application threads calling the subscriber
    MaxLevel,   \* the LevelFilter given to init: 0 = OFF, 1 = ERROR .. 5 = TRACE
    ChanBound,  \* MPSC_CHANNEL_BOUND (512 in the code)
    BufCap,     \* BUFWRITER_SIZE, counted in packets (at least 512 in the code)
    MaxCalls,   \* bound on the tracing callbacks one thread makes
    IdBits      \* width of the NEXT_ID counter (64 in the code)

ASSUME
    /\ Threads # {}
    /\ MaxLevel \in 0..5
    /\ ChanBound \in Nat \ {0}
    /\ BufCap \in Nat \ {0}
    /\ MaxCalls \in Nat \ {0}
    /\ IdBits \in Nat \ {0}
    \* the model stays below the wraparound of NEXT_ID, as the code assumes
    /\ Cardinality(Threads) * MaxCalls < 2^IdBits

Levels == 1..5                 \* tracing::Level: ERROR = 1 .. TRACE = 5
IdMod  == 2^IdBits
None   == 0                    \* span id 0: "no span" (span::Id is non-zero)
Kinds  == {"NewSpan", "Record", "Event", "Enter", "Exit"}

\* A TracePacket. `ctx` is a history field, not sent on the wire: the span
\* the calling thread had entered when it made the call.
Packet == [thr : Threads, n : 1..MaxCalls, kind : Kinds,
           span : 0..(IdMod - 1), ctx : 0..(IdMod - 1)]

VARIABLES
    enabled,   \* Subscriber.enabled: the shared AtomicBool latch
    nextId,    \* NEXT_ID, the process-wide span id counter
    chan,      \* the sync_channel's queued packets
    wpc,       \* where the worker thread is in thread_main
    inhand,    \* the packet the worker has received and not yet buffered
    buf,       \* the BufWriter's buffered, not yet flushed packets
    elapsed,   \* last_flush.elapsed() > FLUSH_INTERVAL
    sink,      \* packets delivered to the feo-tracer socket, in order
    ppc,       \* where each application thread is in its callback
    pkt,       \* the packet each application thread is sending
    calls,     \* callbacks made by each thread so far
    stack,     \* spans each thread has entered (the application's view)
    spans,     \* span ids new_span has returned to the application
    sent,      \* history: every packet pushed into the channel
    dropped    \* history: packets the worker discarded

vars == <<enabled, nextId, chan, wpc, inhand, buf, elapsed, sink,
          ppc, pkt, calls, stack, spans, sent, dropped>>
facade == <<ppc, pkt, calls, stack, spans, nextId>>
worker == <<wpc, inhand, buf, elapsed, sink, dropped>>

WorkerStates == {"connect", "recv", "write", "flush", "stopping", "unwinding",
                 "exited", "panicked"}

\* The worker thread has ended; its Receiver is dropped, so the channel is
\* disconnected and whatever it still holds is never delivered.
Disconnected == wpc \in {"exited", "panicked"}

\* Everything the pipeline holds, oldest first.
Pipeline == sink \o buf \o inhand \o chan

-----------------------------------------------------------------------------
(* Instrumentation facade                                                  *)

\* tracing::Subscriber::enabled: at or below the configured maximum level.
Enabled(level) == level <= MaxLevel

\* Subscriber::current_span is not overridden, so tracing-core's default
\* applies: Current::unknown(), whose id() is None.
CurrentSpan(t) == None

\* The span the application has entered on thread t.
EnteredSpan(t) == IF stack[t] = <<>> THEN None ELSE Last(stack[t])

\* A callback on thread t builds packet (kind, span) and calls send.
Emit(t, kind, span) ==
    /\ ppc[t] = "idle"
    /\ calls[t] < MaxCalls
    /\ pkt' = [pkt EXCEPT ![t] = [thr |-> t, n |-> calls[t] + 1, kind |-> kind,
                                  span |-> span, ctx |-> EnteredSpan(t)]]
    /\ calls' = [calls EXCEPT ![t] = @ + 1]
    /\ ppc' = [ppc EXCEPT ![t] = "check"]

\* new_span_id: NEXT_ID.fetch_add(1, Relaxed) returns the old value and
\* stores the successor, wrapping at the counter's width.
NewSpanId == nextId
NextIdAfterFetchAdd == (nextId + 1) % IdMod

\* new_span: allocate an id, then send a NewSpan packet; the id is
\* returned to the caller whatever send does.
NewSpan(t) ==
    /\ \E level \in Levels : Enabled(level)
    /\ nextId' = NextIdAfterFetchAdd
    /\ spans' = spans \cup {NewSpanId}
    /\ Emit(t, "NewSpan", NewSpanId)
    /\ UNCHANGED <<stack, enabled, sent>>

Record(t) ==
    /\ \E s \in spans : Emit(t, "Record", s)
    /\ UNCHANGED <<nextId, spans, stack, enabled, sent>>

Event(t) ==
    /\ \E level \in Levels : Enabled(level)
    /\ Emit(t, "Event", CurrentSpan(t))
    /\ UNCHANGED <<nextId, spans, stack, enabled, sent>>

Enter(t) ==
    /\ \E s \in spans :
        /\ Emit(t, "Enter", s)
        /\ stack' = [stack EXCEPT ![t] = Append(@, s)]
    /\ UNCHANGED <<nextId, spans, enabled, sent>>

\* The Entered guard is dropped: exit of the innermost entered span.
Exit(t) ==
    /\ stack[t] # <<>>
    /\ Emit(t, "Exit", Last(stack[t]))
    /\ stack' = [stack EXCEPT ![t] = Front(@)]
    /\ UNCHANGED <<nextId, spans, enabled, sent>>

\* send, first statement: the Relaxed load of `enabled`.
CheckEnabled(t) ==
    /\ ppc[t] = "check"
    /\ ppc' = [ppc EXCEPT ![t] = IF enabled THEN "send" ELSE "idle"]
    /\ UNCHANGED <<pkt, calls, stack, spans, nextId, enabled, chan, sent>>

\* Mutant: channel capacity checked off by one.
SendPacket_OffByOne(t) ==
    /\ ppc[t] = "send"
    /\ \/ /\ Disconnected
          /\ enabled' = FALSE
          /\ UNCHANGED <<chan, sent>>
       \/ /\ ~Disconnected
          /\ Len(chan) <= ChanBound
          /\ chan' = Append(chan, pkt[t])
          /\ sent' = sent \cup {pkt[t]}
          /\ UNCHANGED enabled
    /\ ppc' = [ppc EXCEPT ![t] = "idle"]
    /\ UNCHANGED <<pkt, calls, stack, spans, nextId>>

\* Mutant: try_send instead of send, treating a full channel as failure.
SendPacket_TrySend(t) ==
    /\ ppc[t] = "send"
    /\ \/ /\ Disconnected \/ Len(chan) = ChanBound
          /\ enabled' = FALSE
          /\ UNCHANGED <<chan, sent>>
       \/ /\ ~Disconnected
          /\ Len(chan) < ChanBound
          /\ chan' = Append(chan, pkt[t])
          /\ sent' = sent \cup {pkt[t]}
          /\ UNCHANGED enabled
    /\ ppc' = [ppc EXCEPT ![t] = "idle"]
    /\ UNCHANGED <<pkt, calls, stack, spans, nextId>>

\* Mutant: a send that waits for room and never observes disconnection.
SendPacket_IgnoreDisconnect(t) ==
    /\ ppc[t] = "send"
    /\ Len(chan) < ChanBound
    /\ chan' = Append(chan, pkt[t])
    /\ sent' = sent \cup {pkt[t]}
    /\ ppc' = [ppc EXCEPT ![t] = "idle"]
    /\ UNCHANGED <<pkt, calls, stack, spans, nextId, enabled>>

\* send, sender.send(packet): blocks while the channel is full; fails when
\* the receiver is gone, and the failure clears `enabled`.
SendPacket(t) ==
    /\ ppc[t] = "send"
    /\ \/ /\ Disconnected
          /\ enabled' = FALSE
          /\ UNCHANGED <<chan, sent>>
       \/ /\ ~Disconnected
          /\ Len(chan) < ChanBound
          /\ chan' = Append(chan, pkt[t])
          /\ sent' = sent \cup {pkt[t]}
          /\ UNCHANGED enabled
    /\ ppc' = [ppc EXCEPT ![t] = "idle"]
    /\ UNCHANGED <<pkt, calls, stack, spans, nextId>>

-----------------------------------------------------------------------------
(* Transport worker: Subscriber::thread_main                               *)

\* UnixStream::connect: on failure, log, clear `enabled`, then return.
Connect ==
    /\ wpc = "connect"
    /\ \/ wpc' = "recv" /\ UNCHANGED enabled
       \/ wpc' = "stopping" /\ enabled' = FALSE
    /\ UNCHANGED <<chan, inhand, buf, elapsed, sink, dropped>>

\* receiver.recv() blocks until a packet is queued (the facade's sender is
\* never dropped, so the expect never fires).
Recv ==
    /\ wpc = "recv"
    /\ chan # <<>>
    /\ inhand' = <<Head(chan)>>
    /\ chan' = Tail(chan)
    /\ wpc' = "write"
    /\ UNCHANGED <<enabled, buf, elapsed, sink, dropped>>

\* Mutant: a BufWriter that keeps what it wrote when a write fails.
FailedFlush_NoDrain(k) ==
    /\ sink' = sink \o SubSeq(buf, 1, k)
    /\ buf' = buf

\* BufWriter::flush_buf writing until an error after the first k buffered
\* packets got out (a torn frame counts as undelivered); what was written
\* is drained from the buffer, the rest stays.
FailedFlush(k) ==
    /\ sink' = sink \o SubSeq(buf, 1, k)
    /\ buf' = SubSeq(buf, k + 1, Len(buf))

\* Mutant: a packet that does not fit is written straight to the socket
\* without first writing out the buffer.
Write_Bypass ==
    /\ wpc = "write"
    /\ \/ /\ dropped' = dropped \cup Range(inhand)
          /\ wpc' = "recv"
          /\ UNCHANGED <<enabled, buf, sink>>
       \/ /\ Len(buf) < BufCap
          /\ buf' = buf \o inhand
          /\ wpc' = "flush"
          /\ UNCHANGED <<enabled, sink, dropped>>
       \/ /\ Len(buf) = BufCap
          /\ sink' = sink \o inhand
          /\ wpc' = "flush"
          /\ UNCHANGED <<enabled, buf, dropped>>
    /\ inhand' = <<>>
    /\ UNCHANGED <<chan, elapsed>>

\* Mutant: a failed write is logged but the loop goes on (missing return).
Write_NoReturn ==
    /\ wpc = "write"
    /\ \/ /\ dropped' = dropped \cup Range(inhand)
          /\ wpc' = "recv"
          /\ UNCHANGED <<enabled, buf, sink>>
       \/ /\ Len(buf) < BufCap
          /\ buf' = buf \o inhand
          /\ wpc' = "flush"
          /\ UNCHANGED <<enabled, sink, dropped>>
       \/ /\ Len(buf) = BufCap
          /\ sink' = sink \o buf
          /\ buf' = inhand
          /\ wpc' = "flush"
          /\ UNCHANGED <<enabled, dropped>>
       \/ /\ Len(buf) = BufCap
          /\ \E k \in 0..(Len(buf) - 1) : FailedFlush(k)
          /\ dropped' = dropped \cup Range(inhand)
          /\ enabled' = FALSE
          /\ wpc' = "recv"
    /\ inhand' = <<>>
    /\ UNCHANGED <<chan, elapsed>>

\* postcard::to_slice_cobs, then socket_writer.write_all.  A serialization
\* error drops the packet and `continue`s (skipping the flush check).  The
\* BufWriter only does I/O when the packet does not fit: it first writes
\* out its buffer; a failure there clears `enabled` and returns.
Write ==
    /\ wpc = "write"
    /\ \/ /\ dropped' = dropped \cup Range(inhand)
          /\ inhand' = <<>>
          /\ wpc' = "recv"
          /\ UNCHANGED <<enabled, buf, sink>>
       \/ /\ Len(buf) < BufCap
          /\ buf' = buf \o inhand
          /\ inhand' = <<>>
          /\ wpc' = "flush"
          /\ UNCHANGED <<enabled, sink, dropped>>
       \/ /\ Len(buf) = BufCap
          /\ sink' = sink \o buf
          /\ buf' = inhand
          /\ inhand' = <<>>
          /\ wpc' = "flush"
          /\ UNCHANGED <<enabled, dropped>>
       \/ /\ Len(buf) = BufCap
          /\ \E k \in 0..(Len(buf) - 1) : FailedFlush(k)
          /\ enabled' = FALSE
          /\ wpc' = "stopping"
          /\ UNCHANGED <<inhand, dropped>>
    /\ UNCHANGED <<chan, elapsed>>

\* Mutant: the buffer is not reset after a successful flush.
FlushCheck_NoReset ==
    /\ wpc = "flush"
    /\ \/ /\ ~elapsed
          /\ wpc' = "recv"
          /\ UNCHANGED <<buf, sink, elapsed>>
       \/ /\ elapsed
          /\ sink' = sink \o buf
          /\ elapsed' = FALSE
          /\ wpc' = "recv"
          /\ UNCHANGED buf
    /\ UNCHANGED <<enabled, chan, inhand, dropped>>

\* The timed flush.  socket_writer.flush().expect(..): a failure panics the
\* worker thread, which unwinds and leaves `enabled` set.
FlushCheck ==
    /\ wpc = "flush"
    /\ \/ /\ ~elapsed
          /\ wpc' = "recv"
          /\ UNCHANGED <<buf, sink, elapsed>>
       \/ /\ elapsed
          /\ sink' = sink \o buf
          /\ buf' = <<>>
          /\ elapsed' = FALSE
          /\ wpc' = "recv"
       \/ /\ elapsed
          /\ \E k \in 0..(Len(buf) - 1) : FailedFlush(k)
          /\ wpc' = "unwinding"
          /\ UNCHANGED elapsed
    /\ UNCHANGED <<enabled, chan, inhand, dropped>>

\* Leaving thread_main, by return or by unwinding from the flush panic.
\* Locals drop in reverse order: socket_writer first, whose destructor
\* flushes what is left and ignores the error, so a further prefix of the
\* buffer may still get out; the packet in hand is lost.  The Receiver, a
\* parameter, drops last and disconnects the channel.
Return ==
    /\ wpc \in {"stopping", "unwinding"}
    /\ \E j \in 0..Len(buf) : FailedFlush(j)
    /\ dropped' = dropped \cup Range(inhand)
    /\ inhand' = <<>>
    /\ wpc' = IF wpc = "stopping" THEN "exited" ELSE "panicked"
    /\ UNCHANGED <<enabled, chan, elapsed>>

\* Time passes beyond FLUSH_INTERVAL since the last flush (last_flush is
\* taken once connected).
Tick ==
    /\ wpc # "connect"
    /\ ~Disconnected
    /\ ~elapsed
    /\ elapsed' = TRUE
    /\ UNCHANGED <<enabled, chan, wpc, inhand, buf, sink, dropped>>

-----------------------------------------------------------------------------

\* State right after init: the subscriber is installed, the worker thread is
\* spawned and about to connect.
Init ==
    /\ enabled = TRUE
    /\ nextId = 1
    /\ chan = <<>>
    /\ wpc = "connect"
    /\ inhand = <<>>
    /\ buf = <<>>
    /\ elapsed = FALSE
    /\ sink = <<>>
    /\ ppc = [t \in Threads |-> "idle"]
    /\ pkt = [t \in Threads |-> [thr |-> t, n |-> 1, kind |-> "Event",
                                 span |-> None, ctx |-> None]]
    /\ calls = [t \in Threads |-> 0]
    /\ stack = [t \in Threads |-> <<>>]
    /\ spans = {}
    /\ sent = {}
    /\ dropped = {}

Callback(t) == NewSpan(t) \/ Record(t) \/ Event(t) \/ Enter(t) \/ Exit(t)

WorkerStep == Connect \/ Recv \/ Write \/ FlushCheck \/ Return

Next ==
    \/ \E t \in Threads : Callback(t) /\ UNCHANGED <<chan, worker>>
    \/ \E t \in Threads : CheckEnabled(t) /\ UNCHANGED worker
    \/ \E t \in Threads : SendPacket(t) /\ UNCHANGED worker
    \/ WorkerStep /\ UNCHANGED <<facade, sent>>
    \/ Tick /\ UNCHANGED <<facade, sent>>

\* The worker is about to write to the socket in its loop: write_all
\* spilling a full BufWriter (220), or the timed flush (229).  These calls
\* block until the collector takes the data or the socket fails; nothing
\* in the code bounds how long.  connect on a Unix socket returns at once
\* (connected or refused), and the destructor's flush only follows a
\* socket error, which a stream socket reports again at once.
AtSocket ==
    \/ wpc = "write" /\ Len(buf) = BufCap
    \/ wpc = "flush" /\ elapsed

\* The worker and the sending half of each callback are OS threads that run
\* when runnable, and time advances; a worker step that does not call into
\* the socket is therefore taken.  Socket calls are not fair: a collector
\* that stops reading without closing the socket blocks them for ever.
\* The application is free to stop calling.
Fairness ==
    /\ WF_vars(WorkerStep /\ ~AtSocket /\ UNCHANGED <<facade, sent>>)
    /\ WF_vars(Tick /\ UNCHANGED <<facade, sent>>)
    /\ \A t \in Threads :
        /\ WF_vars(CheckEnabled(t) /\ UNCHANGED worker)
        /\ WF_vars(SendPacket(t) /\ UNCHANGED worker)

Spec == Init /\ [][Next]_vars /\ Fairness

\* Assumption about the collector: it keeps reading, or closes the socket,
\* so every socket call the worker makes eventually returns (with success
\* or with an error).
CollectorResponsive == WF_vars(WorkerStep /\ AtSocket /\ UNCHANGED <<facade, sent>>)

CollectorSpec == Spec /\ CollectorResponsive

-----------------------------------------------------------------------------
(* Properties                                                              *)

TypeOK ==
    /\ enabled \in BOOLEAN
    /\ nextId \in 0..(IdMod - 1)
    /\ chan \in Seq(Packet) /\ Len(chan) <= ChanBound
    /\ wpc \in WorkerStates
    /\ inhand \in Seq(Packet) /\ Len(inhand) <= 1
    /\ buf \in Seq(Packet) /\ Len(buf) <= BufCap
    /\ elapsed \in BOOLEAN
    /\ sink \in Seq(Packet)
    /\ ppc \in [Threads -> {"idle", "check", "send"}]
    /\ pkt \in [Threads -> Packet]
    /\ calls \in [Threads -> 0..MaxCalls]
    /\ stack \in [Threads -> Seq(1..(IdMod - 1))]
    /\ spans \subseteq 1..(IdMod - 1)
    /\ sent \subseteq Packet
    /\ dropped \subseteq Packet

\* Per-thread FIFO (spec section 5): the packets of one thread reach the
\* socket in the order the thread made the calls, through the channel, the
\* worker's hand-off and the BufWriter's flushes.
PerThreadOrder ==
    \A i, j \in DOMAIN sink :
        (i < j /\ sink[i].thr = sink[j].thr) => sink[i].n < sink[j].n

\* No packet is lost, duplicated or invented between send and the socket:
\* every packet pushed into the channel is, exactly once, in the channel,
\* in the worker's hand, in the BufWriter or delivered, or was dropped by
\* the worker (serialization error or the I/O failure that ended it).
PacketConservation ==
    /\ Len(Pipeline) = Cardinality(Range(Pipeline))
    /\ Range(Pipeline) \cap dropped = {}
    /\ Range(Pipeline) \cup dropped = sent

\* The one-way degrade is only taken when the transport is really gone:
\* `enabled` is cleared only by a worker that has given up (it is about to
\* return, or has ended) or by a send that found the receiver dropped.
DisabledOnlyWhenDisconnected ==
    ~enabled => (Disconnected \/ wpc = "stopping")

\* Once `enabled` is cleared the transport takes nothing more: what has
\* been delivered plus what the BufWriter holds never grows again, so only
\* packets already buffered (flushed by its destructor) can still arrive.
NothingAcceptedAfterDisable ==
    [][~enabled => IsPrefix(sink' \o buf', sink \o buf)]_vars

\* Spec section 8 (one-way disablement): once a transport failure has
\* occurred, zero further packets reach the sink.  Checked against the
\* worker's failure paths (write_all error, flush panic) and its return.
NoDeliveryAfterTransportFailure ==
    [][(wpc \in {"stopping", "unwinding", "exited", "panicked"}) => UNCHANGED sink]_vars

\* Spec section 7: the application is never blocked by the tracer beyond
\* the bounded backpressure wait: an application thread blocked in
\* sender.send is released, either by the worker freeing a slot or by the
\* channel disconnecting when the worker ends.  Under CollectorSpec it
\* checks the disconnect wake-up; under Spec, a collector that stops
\* reading leaves the worker blocked in the socket with the channel full.
NoProducerBlockedForever ==
    \A t \in Threads : ppc[t] = "send" ~> ppc[t] = "idle"

\* A packet is identified by its thread and call number.
PacketIds(s) == [i \in DOMAIN s |-> <<s[i].thr, s[i].n>>]

\* Spec section 4.1: an event carries the calling thread's currently
\* entered span as parent_span.
EventParentIsEnteredSpan ==
    \A i \in DOMAIN Pipeline :
        Pipeline[i].kind = "Event" => Pipeline[i].span = Pipeline[i].ctx

\* Spec sections 4.3 and 8 (flush bound): buffered data is delivered within
\* the flush interval even when no further packet arrives.
BufferedPacketDelivered ==
    \A p \in Packet :
        p \in Range(buf) ~> (p \in Range(sink) \/ Disconnected)

\* Refinement: the subscriber implements the lossy FIFO of TracePipeline.
\* What the worker holds (BufWriter, the received packet, the channel) is
\* the abstract in-flight queue, and all of it is lost once the worker ends.
\* The payload is carried unchanged by every action, so identities suffice.
TP == INSTANCE TracePipeline
        WITH Msgs <- Threads \X (1..MaxCalls),
             inflight <- IF Disconnected THEN <<>>
                         ELSE PacketIds(buf \o inhand \o chan),
             out <- PacketIds(sink),
             up <- ~Disconnected

\* The subscriber's behaviours are behaviours of the abstract pipeline:
\* order, single losses while the transport is up, and the final failure.
PipelineRefinement == TP!PSpec

====
