---------------------------- MODULE SubscriberInit ----------------------------
(***************************************************************************)
(* feo_tracing::subscriber::init (src/src/feo-tracing/src/subscriber.rs)  *)
(* called once or more, possibly from several threads.  Each call creates  *)
(* its own channel and latch and spawns its own worker thread *before*     *)
(* set_global_default tells whether a subscriber is already installed.  A  *)
(* call that loses panics at the expect; unwinding drops its Subscriber    *)
(* and with it the channel's only Sender, while its worker, already        *)
(* spawned, connects to the daemon and then finds the channel closed.      *)
(*                                                                         *)
(* Packets are not modelled here (TraceSubscriber does that); only the     *)
(* life of each call's worker and connection.                              *)
(***************************************************************************)
EXTENDS Naturals

CONSTANTS
    Calls,      \* the calls of init made by the program
    NoCall      \* model value: no subscriber installed yet

ASSUME NoCall \notin Calls

VARIABLES
    global,     \* the installed global default: the call that installed it
    ipc,        \* where each call of init is
    senderLive, \* the call's Subscriber, holding the Sender, still exists
    wpc         \* where each call's worker thread is in thread_main

vars == <<global, ipc, senderLive, wpc>>

InitStates   == {"idle", "spawned", "returned", "panicked"}
WorkerStates == {"none", "connect", "recv", "exited", "panicked"}

-----------------------------------------------------------------------------

\* sync_channel, the enabled latch, thread::spawn(thread_main).
Spawn(c) ==
    /\ ipc[c] = "idle"
    /\ ipc' = [ipc EXCEPT ![c] = "spawned"]
    /\ senderLive' = [senderLive EXCEPT ![c] = TRUE]
    /\ wpc' = [wpc EXCEPT ![c] = "connect"]
    /\ UNCHANGED global

\* set_global_default(subscriber).expect(..): installs the subscriber if
\* none is installed; otherwise the call panics and the subscriber, with
\* its Sender, is dropped.
Install(c) ==
    /\ ipc[c] = "spawned"
    /\ \/ /\ global = NoCall
          /\ global' = c
          /\ ipc' = [ipc EXCEPT ![c] = "returned"]
          /\ UNCHANGED senderLive
       \/ /\ global # NoCall
          /\ ipc' = [ipc EXCEPT ![c] = "panicked"]
          /\ senderLive' = [senderLive EXCEPT ![c] = FALSE]
          /\ UNCHANGED global
    /\ UNCHANGED wpc

\* UnixStream::connect: success opens a connection to the daemon; failure
\* clears the latch and returns.
Connect(c) ==
    /\ wpc[c] = "connect"
    /\ \E ok \in BOOLEAN :
        wpc' = [wpc EXCEPT ![c] = IF ok THEN "recv" ELSE "exited"]
    /\ UNCHANGED <<global, ipc, senderLive>>

\* Mutant: a receive loop that treats a closed channel like a timeout and
\* waits again.
RecvDisconnected_Retry(c) ==
    /\ wpc[c] = "recv"
    /\ ~senderLive[c]
    /\ UNCHANGED <<global, ipc, senderLive, wpc>>

\* receiver.recv().expect(..): with no Sender left (and nothing queued,
\* since nobody could send), recv fails and the worker panics.  With a live
\* Sender it blocks until a packet comes (TraceSubscriber).
RecvDisconnected(c) ==
    /\ wpc[c] = "recv"
    /\ ~senderLive[c]
    /\ wpc' = [wpc EXCEPT ![c] = "panicked"]
    /\ UNCHANGED <<global, ipc, senderLive>>

Init ==
    /\ global = NoCall
    /\ ipc = [c \in Calls |-> "idle"]
    /\ senderLive = [c \in Calls |-> FALSE]
    /\ wpc = [c \in Calls |-> "none"]

Next ==
    \E c \in Calls :
        \/ Spawn(c)
        \/ Install(c)
        \/ Connect(c)
        \/ RecvDisconnected(c)

\* Threads run when runnable; the program decides whether to call init.
Fairness ==
    \A c \in Calls :
        /\ WF_vars(Install(c))
        /\ WF_vars(Connect(c))
        /\ WF_vars(RecvDisconnected(c))

Spec == Init /\ [][Next]_vars /\ Fairness

-----------------------------------------------------------------------------

\* The worker of a failed init does not linger: it eventually ends, either
\* by failing to connect or by the recv expect.
OrphanWorkerEnds ==
    \A c \in Calls :
        ipc[c] = "panicked" ~> wpc[c] \in {"exited", "panicked"}

====
