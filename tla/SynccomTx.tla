------------------------------ MODULE SynccomTx ------------------------------
(* The transmit path of the driver: SyncComEvtIoWrite, oframe_worker and the *)
(* functions it calls, tx_completion (isr.c) and PURGE_TX (port.c), with the *)
(* adapter's two FIFOs and the two USB pipes that fill them.  The pipes are  *)
(* not ordered with respect to each other.  A step is a region under one     *)
(* lock or the code between two; writes_in_flight is changed under no lock,  *)
(* so each change is a load and a store.                                     *)
EXTENDS SynccomFrame

CONSTANTS
    WriteLengths,   \* lengths of the writes of the application
    MaxWrites,      \* bound on how many it issues
    OutputCap,      \* memory_cap.output
    FifoSpace,      \* most bytes one data write carries: 4092 in the code
    MaxPending,     \* max_pending_writes
    Workers,        \* executions of oframe_worker that may overlap
    MaxPurges,      \* bound on PURGE_TX ioctls
    MaxFailures,    \* bound on allocations and USB sends that fail
    None            \* no frame, no holder of a lock

\* Byte i of the k-th frame accepted, and what pads the last word of a frame.
Pad == <<0, 0>>
Bytes == {Pad} \cup ((1..MaxWrites) \X Nat)
FrameBytes(k, length) == [i \in 1..length |-> <<k, i>>]

ASSUME TxAssumption ==
    /\ WriteLengths \subseteq Nat
    /\ MaxWrites \in Nat
    /\ OutputCap \in Nat
    /\ FifoSpace \in Nat \ {0} /\ FifoSpace % 4 = 0
    /\ MaxPending \in Nat \ {0}
    /\ MaxPurges \in Nat /\ MaxFailures \in Nat
    /\ None \notin Workers /\ None \notin Frames(Bytes)

VARIABLES
    evt,          \* SyncComEvtIoWrite: [pc, length, usage]
    accepted,     \* history: the lengths of the writes completed with success
    refused,      \* number of writes completed with an error
    queued_oframes, pending_oframe,
    writes_in_flight,
    oframe_dpc,   \* a WdfDpcEnqueue is outstanding
    worker,       \* the executions of oframe_worker: [pc, loaded, first]
    lock,         \* who holds board_tx_spinlock and pending_oframe_spinlock
    dataPipe,     \* data writes sent, not yet in the adapter
    arrived,      \* data writes in the adapter whose completion has not run
    completion,   \* tx_completion: [pc, loaded]
    pipe,         \* register commands sent, not yet executed
    txFifo,       \* adapter: the bytes to transmit
    txSizes,      \* adapter: the sizes of the frames to transmit
    transmitting, \* adapter: it has been told to transmit
    sent,         \* history: the frames on the wire
    purge,        \* the next statement of synccom_port_purge_tx
    bound         \* counters of the bounded events: [purges, failures]

writeVars   == <<evt, accepted, refused>>
queueVars   == <<queued_oframes, pending_oframe>>
workerVars  == <<worker, lock>>
usbVars     == <<dataPipe, arrived, completion>>
adapterVars == <<txFifo, txSizes, transmitting, sent>>
vars == <<writeVars, queueVars, workerVars, usbVars, adapterVars,
          writes_in_flight, oframe_dpc, pipe, purge, bound>>

IdleWrite  == [pc |-> "idle", length |-> 0, usage |-> 0]
IdleWorker == [pc |-> "idle", loaded |-> 0, first |-> FALSE]

Init ==
    /\ evt = IdleWrite /\ accepted = <<>> /\ refused = 0
    /\ queued_oframes = EmptyList /\ pending_oframe = None
    /\ writes_in_flight = 0
    /\ oframe_dpc = FALSE
    /\ worker = [w \in Workers |-> IdleWorker] /\ lock = None
    /\ dataPipe = <<>> /\ arrived = 0
    /\ completion = [pc |-> "idle", loaded |-> 0]
    /\ pipe = <<>>
    /\ txFifo = <<>> /\ txSizes = <<>> /\ transmitting = FALSE /\ sent = <<>>
    /\ purge = "idle"
    /\ bound = [purges |-> 0, failures |-> 0]

Fail == /\ bound.failures < MaxFailures
        /\ bound' = [bound EXCEPT !.failures = @ + 1]

----------------------------------------------------------------------------
(* SyncComEvtIoWrite.  The write queue is sequential: one write at a time.   *)

WriteUnchanged == UNCHANGED <<pending_oframe, workerVars, usbVars, adapterVars,
                              writes_in_flight, pipe, purge>>

\* While PURGE_TX purges the queues the framework refuses requests; a write
\* of no bytes completes at once.
WriteArrives ==
    /\ evt.pc = "idle" /\ purge # "drain"
    /\ Len(accepted) + refused < MaxWrites
    /\ \E length \in WriteLengths :
          evt' = IF length = 0 THEN IdleWrite
                 ELSE [pc |-> "queued", length |-> length, usage |-> 0]
    /\ UNCHANGED <<accepted, refused, queued_oframes, oframe_dpc, bound>> /\ WriteUnchanged

\* synccom_port_get_output_memory_usage, one lock at a time.
WriteUsageQueued ==
    /\ evt.pc = "queued"
    /\ evt' = [evt EXCEPT !.usage = queued_oframes.estimated_memory_usage, !.pc = "pending"]
    /\ UNCHANGED <<accepted, refused, queued_oframes, oframe_dpc, bound>> /\ WriteUnchanged

PendingLength == IF pending_oframe = None THEN 0 ELSE DataLength(pending_oframe)

WriteUsagePending ==
    /\ evt.pc = "pending" /\ lock = None
    /\ evt' = [evt EXCEPT !.usage = @ + PendingLength, !.pc = "check"]
    /\ UNCHANGED <<accepted, refused, queued_oframes, oframe_dpc, bound>> /\ WriteUnchanged

\* The frame is queued, the write is completed, the worker is enqueued.
Accept(frame) ==
    /\ queued_oframes' = AddFrame(queued_oframes, [frame EXCEPT !.frame_size = evt.length])
    /\ accepted' = Append(accepted, evt.length)
    /\ oframe_dpc' = TRUE
    /\ UNCHANGED refused

Refuse == refused' = refused + 1 /\ UNCHANGED <<accepted, queued_oframes, oframe_dpc>>

OverCapAlready == evt.usage > OutputCap     \* mutant: the new write is not counted
OverCap == evt.usage + evt.length > OutputCap

WriteTooBig ==
    /\ evt.pc = "check" /\ OverCap
    /\ evt' = IdleWrite
    /\ Refuse
    /\ UNCHANGED bound /\ WriteUnchanged

WriteQueue ==
    /\ evt.pc = "check" /\ ~OverCap
    /\ evt' = IdleWrite
    /\ Accept(AddData(NewFrame, FrameBytes(Len(accepted) + 1, evt.length)))
    /\ UNCHANGED bound /\ WriteUnchanged

\* An allocation fails: the one of the frame fails the write, the one of its
\* buffer in add_data goes unnoticed and an empty frame is queued.
WriteNoMemory ==
    /\ evt.pc = "check" /\ ~OverCap
    /\ Fail
    /\ evt' = IdleWrite
    /\ Refuse \/ Accept(NewFrame)
    /\ WriteUnchanged

----------------------------------------------------------------------------
(* oframe_worker. *)

WorkerUnchanged == UNCHANGED <<writeVars, completion, arrived, adapterVars, purge>>

OframeStart(w) ==
    /\ oframe_dpc /\ worker[w].pc = "idle"
    /\ oframe_dpc' = FALSE
    /\ worker' = [worker EXCEPT ![w].pc = "check"]
    /\ UNCHANGED <<queueVars, lock, dataPipe, writes_in_flight, pipe, bound>> /\ WorkerUnchanged

OframeCheck(w) ==
    /\ worker[w].pc = "check"
    /\ worker' = [worker EXCEPT ![w].pc =
                     IF writes_in_flight > MaxPending THEN "idle" ELSE "lock"]
    /\ UNCHANGED <<queueVars, lock, dataPipe, writes_in_flight, oframe_dpc, pipe, bound>>
    /\ WorkerUnchanged

\* Take the locks; without a pending frame, take the first queued one.
OframeTake(w) ==
    /\ worker[w].pc = "lock" /\ lock = None
    /\ IF pending_oframe = None /\ IsEmptyList(queued_oframes)
       THEN /\ worker' = [worker EXCEPT ![w] = IdleWorker]
            /\ UNCHANGED <<lock, queueVars>>
       ELSE /\ worker' = [worker EXCEPT ![w].pc = "send"]
            /\ lock' = w
            /\ IF pending_oframe = None
               THEN /\ pending_oframe' = PeekFront(queued_oframes)
                    /\ queued_oframes' = RemoveFrame(queued_oframes)
               ELSE UNCHANGED queueVars
    /\ UNCHANGED <<dataPipe, writes_in_flight, oframe_dpc, pipe, bound>> /\ WorkerUnchanged

TransmitLength(frame) == Least(Align4(DataLength(frame)), FifoSpace)

\* The bytes of the buffer that go out: the data, then what pads its last word.
Chunk(frame) ==
    [i \in 1..TransmitLength(frame) |->
        IF i <= DataLength(frame) THEN frame.data[i] ELSE Pad]

IsFirst(frame) == DataLength(frame) = frame.frame_size

\* A frame without data: the worker gives up and does not enqueue itself.
OframeEmpty(w) ==
    /\ worker[w].pc = "send" /\ TransmitLength(pending_oframe) < 1
    /\ worker' = [worker EXCEPT ![w] = IdleWorker]
    /\ lock' = None
    /\ UNCHANGED <<queueVars, dataPipe, writes_in_flight, oframe_dpc, pipe, bound>>
    /\ WorkerUnchanged

OframeSend(w) ==
    /\ worker[w].pc = "send" /\ TransmitLength(pending_oframe) >= 1
    /\ dataPipe' = Append(dataPipe, Chunk(pending_oframe))
    /\ pending_oframe' = RemoveData(pending_oframe, TransmitLength(pending_oframe))
    /\ worker' = [worker EXCEPT ![w].first = IsFirst(pending_oframe), ![w].pc = "load"]
    /\ UNCHANGED <<queued_oframes, lock, writes_in_flight, oframe_dpc, pipe, bound>>
    /\ WorkerUnchanged

\* mutant: a data write that is on its way is reported as failed.
OframeSendFailsLate(w) ==
    /\ worker[w].pc = "send" /\ TransmitLength(pending_oframe) >= 1
    /\ Fail
    /\ dataPipe' = Append(dataPipe, Chunk(pending_oframe))
    /\ worker' = [worker EXCEPT ![w].first = IsFirst(pending_oframe), ![w].pc = "load"]
    /\ UNCHANGED <<queueVars, lock, writes_in_flight, oframe_dpc, pipe>>
    /\ WorkerUnchanged

\* data_write fails: before WdfRequestSend it returns without counting the
\* write, after it the write is counted all the same.
OframeSendFails(w) ==
    /\ worker[w].pc = "send" /\ TransmitLength(pending_oframe) >= 1
    /\ Fail
    /\ \E next \in {"load", "command"} :
          worker' = [worker EXCEPT ![w].first = IsFirst(pending_oframe), ![w].pc = next]
    /\ UNCHANGED <<queueVars, lock, dataPipe, writes_in_flight, oframe_dpc, pipe>>
    /\ WorkerUnchanged

OframeLoad(w) ==
    /\ worker[w].pc = "load"
    /\ worker' = [worker EXCEPT ![w].loaded = writes_in_flight, ![w].pc = "store"]
    /\ UNCHANGED <<queueVars, lock, dataPipe, writes_in_flight, oframe_dpc, pipe, bound>>
    /\ WorkerUnchanged

OframeStore(w) ==
    /\ worker[w].pc = "store"
    /\ writes_in_flight' = worker[w].loaded + 1
    /\ worker' = [worker EXCEPT ![w].pc = "command"]
    /\ UNCHANGED <<queueVars, lock, dataPipe, oframe_dpc, pipe, bound>> /\ WorkerUnchanged

\* mutant: the size sent is the one rounded up to words.
SizeCommandAligned(first) ==
    IF first THEN <<[op |-> "BC_FIFO_L", value |-> Align4(pending_oframe.frame_size)]>> ELSE <<>>

SizeCommand(first) ==
    IF first THEN <<[op |-> "BC_FIFO_L", value |-> pending_oframe.frame_size]>> ELSE <<>>

TransmitCommandsNone == <<[op |-> "FIFO_BC", value |-> 0]>>     \* mutant: XF is forgotten
TransmitCommands == <<[op |-> "FIFO_BC", value |-> 0], [op |-> "XF", value |-> 0]>>

\* With the first data of a frame goes its size, with all data a read of the
\* FIFO's count and the transmit command; a frame that is all out is deleted.
OframeCommand(w) ==
    /\ worker[w].pc = "command"
    /\ pipe' = pipe \o SizeCommand(worker[w].first) \o TransmitCommands
    /\ pending_oframe' = IF DataLength(pending_oframe) = 0 THEN None ELSE pending_oframe
    /\ worker' = [worker EXCEPT ![w] = IdleWorker]
    /\ lock' = None
    /\ oframe_dpc' = TRUE
    /\ UNCHANGED <<queued_oframes, dataPipe, writes_in_flight, bound>> /\ WorkerUnchanged

oframe_worker(w) ==
    \/ OframeCheck(w) \/ OframeTake(w) \/ OframeEmpty(w) \/ OframeSend(w)
    \/ OframeLoad(w) \/ OframeStore(w) \/ OframeCommand(w)

Timer ==
    /\ ~oframe_dpc
    /\ oframe_dpc' = TRUE
    /\ UNCHANGED <<writeVars, queueVars, workerVars, usbVars, adapterVars,
                   writes_in_flight, pipe, purge, bound>>

----------------------------------------------------------------------------
(* The data pipe and tx_completion, which runs for one write at a time.      *)

CompletionUnchanged == UNCHANGED <<writeVars, queueVars, workerVars, txSizes, transmitting, sent,
                                   oframe_dpc, pipe, purge>>

DataArrives ==
    /\ dataPipe # <<>>
    /\ txFifo' = txFifo \o Head(dataPipe)
    /\ dataPipe' = Tail(dataPipe)
    /\ arrived' = arrived + 1
    /\ UNCHANGED <<completion, writes_in_flight, bound>> /\ CompletionUnchanged

TxCompletionLoad ==
    /\ arrived > 0 /\ completion.pc = "idle"
    /\ arrived' = arrived - 1
    /\ completion' = [pc |-> "store", loaded |-> writes_in_flight]
    /\ UNCHANGED <<dataPipe, txFifo, writes_in_flight, bound>> /\ CompletionUnchanged

TxCompletionStore ==
    /\ completion.pc = "store"
    /\ writes_in_flight' = completion.loaded - 1
    /\ completion' = [pc |-> "idle", loaded |-> 0]
    /\ UNCHANGED <<dataPipe, arrived, txFifo, bound>> /\ CompletionUnchanged

----------------------------------------------------------------------------
(* The adapter executes register commands in order and transmits a frame     *)
(* once it has its size and all its words.                                   *)

AdapterUnchanged == UNCHANGED <<writeVars, queueVars, workerVars, usbVars,
                                writes_in_flight, purge, bound>>

Execute(op) == pipe # <<>> /\ Head(pipe).op = op /\ pipe' = Tail(pipe)

ExecuteSize ==
    /\ Execute("BC_FIFO_L")
    /\ txSizes' = Append(txSizes, Head(pipe).value)
    /\ UNCHANGED <<txFifo, transmitting, sent, oframe_dpc>> /\ AdapterUnchanged

\* The answer of FIFO_BC only makes register_completion enqueue the worker.
ExecuteFifoCount ==
    /\ Execute("FIFO_BC")
    /\ oframe_dpc' = TRUE
    /\ UNCHANGED adapterVars /\ AdapterUnchanged

ExecuteTransmit ==
    /\ Execute("XF")
    /\ transmitting' = TRUE
    /\ UNCHANGED <<txFifo, txSizes, sent, oframe_dpc>> /\ AdapterUnchanged

ExecuteTransmitReset ==
    /\ Execute("TRES")
    /\ txFifo' = <<>> /\ txSizes' = <<>> /\ transmitting' = FALSE
    /\ UNCHANGED <<sent, oframe_dpc>> /\ AdapterUnchanged

WireFrame ==
    LET size == Head(txSizes)
    IN  /\ transmitting /\ txSizes # <<>> /\ Len(txFifo) >= Align4(size)
        /\ sent' = Append(sent, SubSeq(txFifo, 1, size))
        /\ txFifo' = SubSeq(txFifo, Align4(size) + 1, Len(txFifo))
        /\ txSizes' = Tail(txSizes)
        /\ UNCHANGED <<transmitting, oframe_dpc, pipe>> /\ AdapterUnchanged

----------------------------------------------------------------------------
(* PURGE_TX. *)

PurgeUnchanged == UNCHANGED <<writeVars, workerVars, usbVars, adapterVars,
                              writes_in_flight, oframe_dpc>>

PurgeReset ==
    /\ purge = "idle" /\ bound.purges < MaxPurges /\ lock = None
    /\ bound' = [bound EXCEPT !.purges = @ + 1]
    /\ pipe' = Append(pipe, [op |-> "TRES", value |-> 0])
    /\ purge' = "queued"
    /\ UNCHANGED queueVars /\ PurgeUnchanged

PurgeQueued ==
    /\ purge = "queued"
    /\ queued_oframes' = EmptyList
    /\ purge' = "pending"
    /\ UNCHANGED <<pending_oframe, pipe, bound>> /\ PurgeUnchanged

PurgePending ==
    /\ purge = "pending" /\ lock = None
    /\ pending_oframe' = None
    /\ purge' = "drain"
    /\ UNCHANGED <<queued_oframes, pipe, bound>> /\ PurgeUnchanged

\* WdfIoQueuePurgeSynchronously waits for the write being handled.
PurgeDrain ==
    /\ purge = "drain" /\ evt.pc = "idle"
    /\ purge' = "idle"
    /\ UNCHANGED <<queueVars, pipe, bound>> /\ PurgeUnchanged

----------------------------------------------------------------------------
EvtIoWrite == WriteUsageQueued \/ WriteUsagePending \/ WriteTooBig \/ WriteQueue

Adapter == ExecuteSize \/ ExecuteFifoCount \/ ExecuteTransmit \/ ExecuteTransmitReset \/ WireFrame

DataCompletion == DataArrives \/ TxCompletionLoad \/ TxCompletionStore

PurgeStep == PurgeQueued \/ PurgePending \/ PurgeDrain

Next ==
    \/ WriteArrives \/ EvtIoWrite \/ WriteNoMemory
    \/ Timer
    \/ \E w \in Workers : OframeStart(w) \/ oframe_worker(w) \/ OframeSendFails(w)
    \/ DataCompletion \/ Adapter
    \/ PurgeReset \/ PurgeStep

Spec == Init /\ [][Next]_vars

(* Fairness: USB writes arrive and complete, the adapter works, an enqueued  *)
(* DPC runs to its end and the timer fires.  A worker and the handler of a   *)
(* write may wait for the locks while other workers take them again and      *)
(* again, so they get strong fairness: a spin lock is obtained eventually.   *)
Fairness ==
    /\ SF_vars(EvtIoWrite \/ PurgeStep)
    /\ WF_vars(Timer)
    /\ WF_vars(DataCompletion) /\ WF_vars(Adapter)
    /\ \A w \in Workers : SF_vars(OframeStart(w) \/ oframe_worker(w))

FairSpec == Spec /\ Fairness

----------------------------------------------------------------------------
(* Properties. *)

Oframes == Frames(Bytes)

WorkerStates == [pc : {"idle", "check", "lock", "send", "load", "store", "command"},
                 loaded : Int, first : BOOLEAN]

Commands == [op : {"BC_FIFO_L", "FIFO_BC", "XF", "TRES"}, value : Nat]

TypeOK ==
    /\ evt \in [pc : {"idle", "queued", "pending", "check"}, length : Nat, usage : Int]
    /\ accepted \in Seq(Nat) /\ refused \in Nat
    /\ queued_oframes \in Lists(Bytes) /\ queued_oframes.estimated_memory_usage >= 0
    /\ pending_oframe \in Oframes \cup {None}
    /\ writes_in_flight \in Int
    /\ oframe_dpc \in BOOLEAN
    /\ worker \in [Workers -> WorkerStates]
    /\ lock \in Workers \cup {None}
    /\ dataPipe \in Seq(Seq(Bytes)) /\ arrived \in Nat
    /\ completion \in [pc : {"idle", "store"}, loaded : Int]
    /\ pipe \in Seq(Commands)
    /\ txFifo \in Seq(Bytes) /\ txSizes \in Seq(Nat) /\ transmitting \in BOOLEAN
    /\ sent \in Seq(Seq(Bytes))
    /\ purge \in {"idle", "queued", "pending", "drain"}
    /\ bound \in [purges : Nat, failures : Nat]

\* The frames on the wire are the writes accepted: each whole, in order, none
\* twice, although its words and its size travel in pipes that race.
WireIntact ==
    \A k \in DOMAIN sent : k <= Len(accepted) /\ sent[k] = FrameBytes(k, accepted[k])

\* A data write that fails is tried again and announces the frame's size again
\* (oframe_worker, isr.c), and PURGE_TX resets the adapter between two data
\* writes of a frame: the boundaries of the frames on the wire may then be
\* wrong and bytes may be missing, but no byte goes out twice and none goes
\* out before one that was written earlier.
WireBytesInOrder == InOrder(sent, {Pad})

\* The frames the callers can write: the k-th write, of any length.
Writable == {FrameBytes(k, length) : k \in 1..MaxWrites, length \in WriteLengths}

\* The transmit path is a channel of frames: one enters when its write is
\* accepted, and leaves when the adapter transmits it.
Channel == INSTANCE FrameChannel WITH
    Contents <- Writable,
    entered <- [k \in DOMAIN accepted |-> FrameBytes(k, accepted[k])],
    left <- sent

\* Without failures and purges the transmit path implements the channel: the
\* adapter transmits what was written, write by write, and nothing before it
\* was accepted, although a frame goes out in chunks of words in one pipe and
\* its size and the command in another.
TransmitsInOrder == Channel!Spec

\* queued_oframes.estimated_memory_usage, one of the two terms of the cap, is
\* what its frames hold.
QueuedEstimateExact ==
    queued_oframes.estimated_memory_usage = TotalLength(queued_oframes.frames)

\* The driver never holds more output than the cap (docs/memory-cap.md),
\* although a write is checked against two values read under different locks
\* while workers move frames from one place to the other.
OutputWithinCap == queued_oframes.estimated_memory_usage + PendingLength <= OutputCap

\* A data write, whose length is rounded up to whole words, never reads past
\* the buffer of the frame (synccom_port_data_write copies that many bytes).
TransmitWithinBuffer ==
    pending_oframe # None => TransmitLength(pending_oframe) <= pending_oframe.buffer_size

InFlight == Len(dataPipe) + arrived + (IF completion.pc = "store" THEN 1 ELSE 0)

\* docs/max-writes.md: max_pending_writes is "the maximum number of pending
\* writes to the Sync Com".
InFlightWithinMax == InFlight <= MaxPending

\* Every write that is accepted is transmitted, unless writes_in_flight drifts
\* above the maximum with no write in flight, which stops the worker for good.
Drifted == InFlight = 0 /\ writes_in_flight > MaxPending
SentOrDrifted == \A k \in 1..MaxWrites : (Len(accepted) >= k) ~> (Len(sent) >= k \/ Drifted)

=============================================================================
