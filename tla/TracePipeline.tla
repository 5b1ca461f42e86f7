---------------------------- MODULE TracePipeline ----------------------------
(***************************************************************************)
(* What the tracing pipeline promises its users, independent of channels, *)
(* threads and buffers: a lossy FIFO from Subscriber::send to the          *)
(* feo-tracer socket.                                                      *)
(*                                                                         *)
(*  - a message is accepted only while the transport is up;                *)
(*  - messages leave in the order they were accepted, the oldest first;    *)
(*  - while up, a message is lost only one at a time (one that cannot be   *)
(*    serialized); nothing is duplicated or invented;                      *)
(*  - the transport goes down once and for all, possibly after a last      *)
(*    prefix of what it held got out; everything else it held is lost.    *)
(***************************************************************************)
EXTENDS Sequences, SequencesExt

CONSTANT Msgs       \* the messages that can be traced

VARIABLES
    inflight,       \* accepted messages not yet delivered, oldest first
    out,            \* messages delivered to the collector, in order
    up              \* the transport is still alive

pvars == <<inflight, out, up>>

PInit ==
    /\ inflight = <<>>
    /\ out = <<>>
    /\ up = TRUE

Accept(m) ==
    /\ up
    /\ inflight' = Append(inflight, m)
    /\ UNCHANGED <<out, up>>

\* The k oldest messages reach the collector.
Deliver(k) ==
    /\ up
    /\ out' = out \o SubSeq(inflight, 1, k)
    /\ inflight' = SubSeq(inflight, k + 1, Len(inflight))
    /\ UNCHANGED up

\* One message is dropped (it could not be serialized).
Lose(i) ==
    /\ up
    /\ inflight' = RemoveAt(inflight, i)
    /\ UNCHANGED <<out, up>>

\* The transport fails after the k oldest messages got out.
Fail(k) ==
    /\ up
    /\ out' = out \o SubSeq(inflight, 1, k)
    /\ inflight' = <<>>
    /\ up' = FALSE

PNext ==
    \/ \E m \in Msgs : Accept(m)
    \/ \E k \in 1..Len(inflight) : Deliver(k)
    \/ \E i \in 1..Len(inflight) : Lose(i)
    \/ \E k \in 0..Len(inflight) : Fail(k)

PSpec == PInit /\ [][PNext]_pvars

====
