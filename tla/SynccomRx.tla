------------------------------ MODULE SynccomRx ------------------------------
(* The receive path of the driver (isr.c, the purge and usage functions of   *)
(* port.c) with the adapter and the USB pipes around it.  The actors are     *)
(*   - the adapter: bytes arrive on the wire, register commands execute in   *)
(*     the order of the register pipe, data goes out in USB packets;         *)
(*   - port_received_data, the completion of the one data read (rx);         *)
(*   - register_completion, one response at a time;                          *)
(*   - the iframe and process_read DPCs and the timer that enqueues one;     *)
(*   - the application: reads, and the PURGE_RX ioctl (purge).               *)
(* A step is a region under one lock, or the code between two of them.       *)
EXTENDS SynccomFrame, FiniteSets

CONSTANTS
    FrameLengths,    \* lengths of the frames of the wire, status included, in order
    DummySizes,      \* what reading an empty frame-size FIFO may return
    MaxPacket,       \* payload of one USB packet at most
    InputCap,        \* memory_cap.input
    Modes,           \* the modes of the port considered: streaming or not
    AppendStatus, AppendTimestamp, RxMultiple,   \* the settings of the port
    StatusLength,    \* bytes of status at the end of a frame: 2 in the code
    TimestampLength, \* sizeof(LARGE_INTEGER)
    ReadDpcs,        \* executions of process_read_dpc that may overlap
    MaxReads,        \* bound on the reads the application issues
    ReadLengths,     \* the buffer lengths it passes
    MaxPurges,       \* bound on PURGE_RX ioctls
    MaxFailures,     \* bound on register reads that complete with an error
    MaxFailedReads   \* bound on reads of the application the framework fails

NFrames == Len(FrameLengths)

FrameBytes(k) == [i \in 1..FrameLengths[k] |-> <<k, i>>]

Bytes == UNION {{k} \X (1..FrameLengths[k]) : k \in 1..NFrames}

ASSUME RxAssumption ==
    /\ FrameLengths \in Seq(Nat \ {0}) /\ StatusLength \in Nat
    /\ \A k \in 1..NFrames : FrameLengths[k] >= StatusLength
    /\ DummySizes \subseteq Nat
    /\ MaxPacket \in Nat \ {0}
    /\ InputCap \in Nat
    /\ Modes \subseteq BOOLEAN
    /\ AppendStatus \in BOOLEAN /\ AppendTimestamp \in BOOLEAN /\ RxMultiple \in BOOLEAN
    /\ TimestampLength \in Nat
    /\ MaxReads \in Nat /\ ReadLengths \subseteq Nat
    /\ MaxPurges \in Nat /\ MaxFailures \in Nat /\ MaxFailedReads \in Nat

\* A size fits the register it is read from, and a timestamp an int.
ASSUME WidthAssumption ==
    /\ \A k \in 1..NFrames : FrameLengths[k] < WORD
    /\ TimestampLength <= WORD \div 2

VARIABLES
    streaming,   \* synccom_port_is_streaming: the port carries raw bytes, no frames
    wire,        \* adapter: [frame, bytes]: frame being received, its bytes so far
    dataFifo,    \* adapter: received bytes not yet sent over USB
    sizeFifo,    \* adapter: the frames whose sizes BC_FIFO_L has not returned yet
    pipe,        \* register commands sent, not yet executed by the adapter
    responses,   \* register reads executed, not yet completed
    to_send,     \* register_completion: the reads it has left to send: [sizes, count]
    pending_frame_size_reads,
    istream, pending_iframes, queued_iframes,
    iframe_dpc, process_read_dpc,   \* a WdfDpcEnqueue is outstanding
    iframe_pc,   \* iframe_worker: "loop" while it holds istream and pending_iframes
    rx,          \* port_received_data: [pc, packet, usage]
    dpc,         \* the executions of SynccomProcessRead: [pc, req, out]
    read_queue2, \* the read requests forwarded, in order
    reads,       \* the requests issued: [length, status, out]
    taken,       \* history: the frames removed from queued_iframes
    outdated,    \* history: the runs since whose check queued_iframes has lost frames
    purge,       \* the next statement of synccom_port_purge_rx
    bound,       \* counters of the bounded events: [purges, failures]
    tally,       \* history of the frame-size reads: [sized, issued, popped, completed]
    overread     \* history: BC_FIFO_L was read with no size to return

adapterVars  == <<streaming, wire, dataFifo, sizeFifo>>
registerVars == <<pipe, responses, to_send, pending_frame_size_reads, tally, overread>>
bufferVars   == <<istream, pending_iframes, queued_iframes>>
readVars     == <<dpc, read_queue2, reads, taken, outdated>>
vars == <<adapterVars, registerVars, bufferVars, readVars,
          iframe_dpc, process_read_dpc, iframe_pc, rx, purge, bound>>

IdleRx   == [pc |-> "idle", packet |-> <<>>, usage |-> 0]
IdleRead == [pc |-> "idle", req |-> 0, out |-> 0]
NothingToSend == [sizes |-> 0, count |-> FALSE]

Init ==
    /\ streaming \in Modes
    /\ wire = [frame |-> 1, bytes |-> 0]
    /\ dataFifo = <<>> /\ sizeFifo = <<>>
    /\ pipe = <<>> /\ responses = <<>> /\ to_send = NothingToSend
    /\ pending_frame_size_reads = 0
    /\ istream = NewFrame
    /\ pending_iframes = EmptyList /\ queued_iframes = EmptyList
    /\ iframe_dpc = FALSE /\ process_read_dpc = FALSE
    /\ iframe_pc = "idle"
    /\ rx = IdleRx
    /\ dpc = [d \in ReadDpcs |-> IdleRead]
    /\ read_queue2 = <<>> /\ reads = <<>> /\ taken = <<>> /\ outdated = {}
    /\ purge = "idle"
    /\ bound = [purges |-> 0, failures |-> 0]
    /\ tally = [sized |-> 0, issued |-> 0, popped |-> 0, completed |-> 0]
    /\ overread = FALSE

\* istream_spinlock and pending_iframes_spinlock are free: only iframe_worker
\* holds them over more than one step.
StreamLockFree == iframe_pc = "idle"

----------------------------------------------------------------------------
(* The adapter. *)

\* One byte arrives; with the last byte of a frame its size becomes readable.
WireByte ==
    LET k    == wire.frame
        last == wire.bytes + 1 = FrameLengths[k]
    IN  /\ k <= NFrames
        /\ dataFifo' = Append(dataFifo, <<k, wire.bytes + 1>>)
        /\ wire' = IF last THEN [frame |-> k + 1, bytes |-> 0]
                           ELSE [wire EXCEPT !.bytes = @ + 1]
        /\ sizeFifo' = IF last /\ ~streaming THEN Append(sizeFifo, k) ELSE sizeFifo
        /\ tally' = [tally EXCEPT !.sized = IF last /\ ~streaming THEN @ + 1 ELSE @]
        /\ UNCHANGED <<streaming, pipe, responses, to_send, pending_frame_size_reads, overread,
                       bufferVars, readVars, iframe_dpc, process_read_dpc, iframe_pc, rx, purge, bound>>

Executing(op) == pipe # <<>> /\ Head(pipe).op = op /\ pipe' = Tail(pipe)

Respond(value) ==
    responses' = Append(responses, [op |-> Head(pipe).op, value |-> value, nth |-> Head(pipe).nth])

ExecuteFrameCount ==
    /\ Executing("FIFO_FC")
    /\ Respond(Len(sizeFifo))
    /\ UNCHANGED <<adapterVars, to_send, pending_frame_size_reads, tally, overread, bufferVars,
                   readVars, iframe_dpc, process_read_dpc, iframe_pc, rx, purge, bound>>

\* Reading the size FIFO pops it; when it is empty the value is a dummy.
ExecuteFrameSize ==
    /\ Executing("BC_FIFO_L")
    /\ IF sizeFifo = <<>>
       THEN /\ \E dummy \in DummySizes : Respond(dummy)
            /\ overread' = TRUE
            /\ UNCHANGED sizeFifo
       ELSE /\ Respond(FrameLengths[Head(sizeFifo)])
            /\ sizeFifo' = Tail(sizeFifo)
            /\ UNCHANGED overread
    /\ tally' = [tally EXCEPT !.popped = @ + 1]
    /\ UNCHANGED <<streaming, wire, dataFifo, to_send, pending_frame_size_reads, bufferVars,
                   readVars, iframe_dpc, process_read_dpc, iframe_pc, rx, purge, bound>>

\* The receiver reset drops all it holds and the frame it is receiving.
ExecuteReceiverReset ==
    /\ Executing("RRES")
    /\ dataFifo' = <<>> /\ sizeFifo' = <<>>
    /\ wire' = IF wire.bytes = 0 THEN wire ELSE [frame |-> wire.frame + 1, bytes |-> 0]
    /\ UNCHANGED <<streaming, responses, to_send, pending_frame_size_reads, tally, overread,
                   bufferVars, readVars, iframe_dpc, process_read_dpc, iframe_pc, rx, purge, bound>>

----------------------------------------------------------------------------
(* Sending register commands.  nth is the number of frame-size reads issued  *)
(* up to the command; it is history, nothing reads it.                       *)

Send(op) == pipe' = Append(pipe, [op |-> op, nth |-> tally.issued])

----------------------------------------------------------------------------
(* port_received_data: ask how many frames are complete, compute the memory  *)
(* in use one lock at a time, trim the packet to the cap, append it.         *)

RxPacket ==
    /\ rx.pc = "idle"
    /\ \E n \in 1..Least(MaxPacket, Len(dataFifo)) :
        /\ rx' = [IdleRx EXCEPT !.pc = "queued", !.packet = SubSeq(dataFifo, 1, n)]
        /\ dataFifo' = SubSeq(dataFifo, n + 1, Len(dataFifo))
    /\ Send("FIFO_FC")
    /\ UNCHANGED <<streaming, wire, sizeFifo, responses, to_send, pending_frame_size_reads, tally,
                   overread, bufferVars, readVars, iframe_dpc, process_read_dpc, iframe_pc, purge, bound>>

AddUsage(amount, next) == rx' = [rx EXCEPT !.usage = (@ + amount) % WORD, !.pc = next]

RxUnchanged == UNCHANGED <<adapterVars, registerVars, readVars, process_read_dpc,
                           iframe_pc, purge, bound>>

RxUsageQueued ==
    /\ rx.pc = "queued"
    /\ AddUsage(queued_iframes.estimated_memory_usage, "istream")
    /\ UNCHANGED <<bufferVars, iframe_dpc>> /\ RxUnchanged

RxUsageStream ==
    /\ rx.pc = "istream" /\ StreamLockFree
    /\ AddUsage(DataLength(istream), "pending")
    /\ UNCHANGED <<bufferVars, iframe_dpc>> /\ RxUnchanged

RxUsagePending ==
    /\ rx.pc = "pending" /\ StreamLockFree
    /\ AddUsage(pending_iframes.estimated_memory_usage, "trim")
    /\ UNCHANGED <<bufferVars, iframe_dpc>> /\ RxUnchanged

\* How much of a packet fits under the cap.
KeptWhole(size) == size     \* mutant: the packet is never trimmed

Kept(size) ==
    IF size + rx.usage <= InputCap THEN size
    ELSE IF rx.usage >= InputCap THEN 0 ELSE InputCap - rx.usage

\* What does not fit under the cap is dropped and, unless streaming, charged
\* to the last pending frame.  No lock is held here.
RxTrim ==
    LET size == Len(rx.packet)
        kept == Kept(size)
        last == Len(pending_iframes.frames)
    IN  /\ rx.pc = "trim"
        /\ rx' = IF kept = 0 THEN IdleRx
                  ELSE [rx EXCEPT !.packet = SubSeq(@, 1, kept), !.pc = "add"]
        /\ pending_iframes' =
              IF kept < size /\ ~streaming /\ last > 0
              THEN [pending_iframes EXCEPT !.frames[last].lost_bytes = @ + (size - kept)]
              ELSE pending_iframes
        /\ UNCHANGED <<istream, queued_iframes, iframe_dpc>> /\ RxUnchanged

RxAdd ==
    /\ rx.pc = "add" /\ StreamLockFree
    /\ istream' = AddData(istream, rx.packet)
    /\ rx' = IdleRx
    /\ iframe_dpc' = TRUE
    /\ UNCHANGED <<pending_iframes, queued_iframes>> /\ RxUnchanged

RxStep == RxUsageQueued \/ RxUsageStream \/ RxUsagePending \/ RxTrim \/ RxAdd

----------------------------------------------------------------------------
(* register_completion.  Responses complete one at a time, in order: the next *)
(* one once the last has sent what it has left to send.  A step is what it   *)
(* does up to one send or one other lock.  (Only completions touch           *)
(* pending_frame_size_reads, so its own lock makes no step.)                 *)

Completing(op) ==
    /\ to_send = NothingToSend
    /\ responses # <<>> /\ Head(responses).op = op
    /\ responses' = Tail(responses)

\* As many size reads as the count covers beyond the ones still waited for.
FreshAll(count) == count    \* mutant: the reads still waited for are ignored

\* mutant: the loop that sends the reads starts at one.
FreshLess(count) ==
    LET missing == count - pending_frame_size_reads
    IN  IF count > 0 /\ missing > 1 THEN missing - 1 ELSE 0

Fresh(count) ==
    LET missing == count - pending_frame_size_reads
    IN  IF count > 0 /\ missing > 0 THEN missing ELSE 0

CompleteFrameCount ==
    /\ Completing("FIFO_FC")
    /\ to_send' = [to_send EXCEPT !.sizes = Fresh(Head(responses).value)]
    /\ UNCHANGED <<adapterVars, pipe, pending_frame_size_reads, tally, overread, bufferVars,
                   readVars, iframe_dpc, process_read_dpc, iframe_pc, rx, purge, bound>>

\* One round of the loop over the size reads; others send in between.
SendSizeRead ==
    /\ to_send.sizes > 0
    /\ pipe' = Append(pipe, [op |-> "BC_FIFO_L", nth |-> tally.issued + 1])
    /\ pending_frame_size_reads' = pending_frame_size_reads + 1
    /\ to_send' = [to_send EXCEPT !.sizes = @ - 1]
    /\ tally' = [tally EXCEPT !.issued = @ + 1]
    /\ UNCHANGED <<adapterVars, responses, overread, bufferVars, readVars, iframe_dpc,
                   process_read_dpc, iframe_pc, rx, purge, bound>>

CountDownEarly(n) == IF n > 1 THEN n - 1 ELSE n     \* mutant: the last one stays

CountDown(n) == IF n > 0 THEN n - 1 ELSE n

\* A size that was waited for opens a frame...
CompleteFrameSize ==
    LET value == Head(responses).value
        frame == [NewFrame EXCEPT !.frame_size = value]
    IN  /\ Completing("BC_FIFO_L") /\ StreamLockFree
        /\ pending_frame_size_reads' = CountDown(pending_frame_size_reads)
        /\ pending_iframes' = IF value > 0 /\ pending_frame_size_reads > 0
                              THEN AddFrame(pending_iframes, frame) ELSE pending_iframes
        /\ to_send' = [to_send EXCEPT !.count = TRUE]
        /\ tally' = [tally EXCEPT !.completed = @ + 1]
        /\ UNCHANGED <<adapterVars, pipe, overread, istream, queued_iframes, readVars, iframe_dpc,
                       process_read_dpc, iframe_pc, rx, purge, bound>>

\* ... then the count is read again, and the DPC that fills frames enqueued.
SendCountRead ==
    /\ to_send.count
    /\ Send("FIFO_FC")
    /\ to_send' = [to_send EXCEPT !.count = FALSE]
    /\ iframe_dpc' = TRUE
    /\ UNCHANGED <<adapterVars, responses, pending_frame_size_reads, tally, overread, bufferVars,
                   readVars, process_read_dpc, iframe_pc, rx, purge, bound>>

\* A read that completes with an error is deleted and nothing else happens.
CompleteWithError ==
    /\ bound.failures < MaxFailures
    /\ to_send = NothingToSend
    /\ responses # <<>>
    /\ responses' = Tail(responses)
    /\ bound' = [bound EXCEPT !.failures = @ + 1]
    /\ tally' = IF Head(responses).op = "BC_FIFO_L"
                THEN [tally EXCEPT !.completed = @ + 1] ELSE tally
    /\ UNCHANGED <<adapterVars, pipe, to_send, pending_frame_size_reads, overread, bufferVars,
                   readVars, iframe_dpc, process_read_dpc, iframe_pc, rx, purge>>

----------------------------------------------------------------------------
(* The timer and iframe_worker. *)

Timer ==
    /\ ~iframe_dpc
    /\ iframe_dpc' = TRUE
    /\ UNCHANGED <<adapterVars, registerVars, bufferVars, readVars, process_read_dpc,
                   iframe_pc, rx, purge, bound>>

IframeStart ==
    /\ iframe_dpc /\ iframe_pc = "idle"
    /\ iframe_dpc' = FALSE
    /\ iframe_pc' = "loop"
    /\ UNCHANGED <<adapterVars, registerVars, bufferVars, readVars, process_read_dpc,
                   rx, purge, bound>>

IframeReady == DataLength(istream) > 0 /\ ~IsEmptyList(pending_iframes)

\* mutant: a frame is complete one byte early.
CompleteEarly(frame) == (DataLength(frame) + frame.lost_bytes + 1) % WORD >= frame.frame_size

Complete(frame) == (DataLength(frame) + frame.lost_bytes) % WORD >= frame.frame_size

\* The first pending frame takes bytes of the stream; once it is complete its
\* data moves to a fresh frame on queued_iframes and it is removed.
IframeLoop ==
    LET first == PeekFront(pending_iframes)
        fresh == [NewFrame EXCEPT !.frame_size = first.frame_size]
        First(frame) == [pending_iframes EXCEPT !.frames[1] = frame]
    IN  /\ iframe_pc = "loop" /\ IframeReady
        /\ IF first.frame_size = 0
           THEN /\ pending_iframes' = RemoveFrame(pending_iframes)
                /\ UNCHANGED <<istream, queued_iframes>>
           ELSE \E filled \in {CopyTo(first, istream)} :
                /\ istream' = CopyFrom(first, istream)
                /\ IF Complete(filled)
                   THEN /\ queued_iframes' = AddFrame(queued_iframes, CopyTo(fresh, filled))
                        /\ pending_iframes' = RemoveFrame(First(CopyFrom(fresh, filled)))
                   ELSE /\ pending_iframes' = First(filled)
                        /\ UNCHANGED queued_iframes
        /\ UNCHANGED <<adapterVars, registerVars, readVars, iframe_dpc, process_read_dpc,
                       iframe_pc, rx, purge, bound>>

\* mutant: iframe_worker does not enqueue process_read_dpc.
IframeEndQuietly ==
    /\ iframe_pc = "loop" /\ ~IframeReady
    /\ iframe_pc' = "idle"
    /\ UNCHANGED <<adapterVars, registerVars, bufferVars, readVars, iframe_dpc, process_read_dpc,
                   rx, purge, bound>>

\* mutant: without a frame iframe_worker returns and keeps its locks.
IframeEndHolding ==
    /\ iframe_pc = "loop" /\ ~IframeReady
    /\ iframe_pc' = IF IsEmptyList(pending_iframes) THEN "returned" ELSE "idle"
    /\ process_read_dpc' = TRUE
    /\ UNCHANGED <<adapterVars, registerVars, bufferVars, readVars, iframe_dpc,
                   rx, purge, bound>>

IframeEnd ==
    /\ iframe_pc = "loop" /\ ~IframeReady
    /\ iframe_pc' = "idle"
    /\ process_read_dpc' = TRUE
    /\ UNCHANGED <<adapterVars, registerVars, bufferVars, readVars, iframe_dpc,
                   rx, purge, bound>>

----------------------------------------------------------------------------
(* Reads.  The application's request is forwarded to read_queue2; one run of *)
(* SynccomProcessRead serves at most one request.                            *)

ReadUnchanged == UNCHANGED <<adapterVars, registerVars, pending_iframes, iframe_dpc, iframe_pc,
                             rx, purge, bound>>

MayFail == Cardinality({r \in DOMAIN reads : reads[r].status = "failed"}) < MaxFailedReads

\* A read of no bytes succeeds at once; one that cannot be forwarded fails.
\* While PURGE_RX purges the queues the framework refuses requests.
SyncComEvtIoRead ==
    /\ Len(reads) < MaxReads /\ purge # "drain"
    /\ \E length \in ReadLengths, status \in {"success", "queued", "failed"} :
        /\ status = "success" <=> length = 0
        /\ status = "failed" => MayFail
        /\ reads' = Append(reads, [length |-> length, status |-> status, out |-> 0])
        /\ IF status = "queued"
           THEN /\ read_queue2' = Append(read_queue2, Len(reads) + 1)
                /\ process_read_dpc' = TRUE
           ELSE UNCHANGED <<read_queue2, process_read_dpc>>
    /\ UNCHANGED <<istream, queued_iframes, dpc, taken, outdated>> /\ ReadUnchanged

ReadStart(d) ==
    /\ process_read_dpc /\ dpc[d].pc = "idle"
    /\ process_read_dpc' = FALSE
    /\ dpc' = [dpc EXCEPT ![d].pc = "check"]
    /\ UNCHANGED <<istream, queued_iframes, read_queue2, reads, taken, outdated>> /\ ReadUnchanged

HasIncomingDataAlways == TRUE   \* mutant: the check before the request is gone

HasIncomingData ==
    IF streaming THEN DataLength(istream) > 0 ELSE ~IsEmptyList(queued_iframes)

ReadCheck(d) ==
    /\ dpc[d].pc = "check"
    /\ dpc' = [dpc EXCEPT ![d].pc = IF HasIncomingData THEN "retrieve" ELSE "idle"]
    /\ UNCHANGED <<istream, queued_iframes, process_read_dpc, read_queue2, reads, taken, outdated>>
    /\ ReadUnchanged

\* The runs of SynccomProcessRead that have found data and not ended.
Checked == {d \in ReadDpcs : dpc[d].pc \in {"retrieve", "read"}}

\* mutant: the request that is retrieved stays on the queue.
RetrievedKeeps(queue) == queue

Retrieved(queue) == Tail(queue)

\* The first request is held, or fails when its buffer cannot be had.
ReadRetrieve(d) ==
    /\ dpc[d].pc = "retrieve"
    /\ IF read_queue2 = <<>>
       THEN /\ dpc' = [dpc EXCEPT ![d] = IdleRead]
            /\ UNCHANGED <<read_queue2, reads>>
       ELSE /\ read_queue2' = Retrieved(read_queue2)
            /\ \E status \in {"held", "failed"} :
                /\ status = "failed" => MayFail
                /\ reads' = [reads EXCEPT ![Head(read_queue2)].status = status]
                /\ dpc' = [dpc EXCEPT ![d] = IF status = "failed" THEN IdleRead
                              ELSE [pc |-> "read", req |-> Head(read_queue2), out |-> 0]]
    /\ outdated' = outdated \cap Checked'
    /\ UNCHANGED <<istream, queued_iframes, process_read_dpc, taken>> /\ ReadUnchanged

\* WdfRequestComplete(WithInformation) and the end of the DPC.
CompleteRead(d, status, length) ==
    /\ reads' = [reads EXCEPT ![dpc[d].req].status = status, ![dpc[d].req].out = length]
    /\ dpc' = [dpc EXCEPT ![d] = IdleRead]

StreamRead(d) ==
    LET length == Least(reads[dpc[d].req].length, DataLength(istream))
    IN  /\ dpc[d].pc = "read" /\ streaming /\ StreamLockFree
        /\ istream' = RemoveData(istream, length)
        /\ taken' = Append(taken, [req |-> dpc[d].req, data |-> Removed(istream, length)])
        /\ CompleteRead(d, "success", length)
        /\ outdated' = outdated \cap Checked'
        /\ UNCHANGED <<queued_iframes, process_read_dpc, read_queue2>> /\ ReadUnchanged

\* The assignment of an unsigned value to an int.
AsInt(n) == IF n % WORD < WORD \div 2 THEN n % WORD ELSE (n % WORD) - WORD

\* mutant: the timestamp is not counted.
MaxFrameLengthUntimed(d) ==
    AsInt(reads[dpc[d].req].length - dpc[d].out + (IF AppendStatus THEN 0 ELSE StatusLength))

MaxFrameLength(d) ==
    AsInt(reads[dpc[d].req].length - dpc[d].out
          + (IF AppendStatus THEN 0 ELSE StatusLength)
          - (IF AppendTimestamp THEN TimestampLength ELSE 0))

\* One iteration of the loop of synccom_port_frame_read that finds a frame...
FrameReadTake(d) ==
    LET frame  == PeekFront(queued_iframes)
        length == (DataLength(frame) - (IF AppendStatus THEN 0 ELSE StatusLength)) % WORD
        out    == dpc[d].out + length + (IF AppendTimestamp THEN TimestampLength ELSE 0)
    IN  /\ dpc[d].pc = "read" /\ ~streaming
        /\ MaxFrameLength(d) >= 0 /\ CanRemoveLte(queued_iframes, MaxFrameLength(d))
        /\ queued_iframes' = RemoveFrame(queued_iframes)
        /\ taken' = Append(taken, [req |-> dpc[d].req, data |-> frame.data])
        /\ IF RxMultiple
           THEN dpc' = [dpc EXCEPT ![d].out = out] /\ UNCHANGED reads
           ELSE CompleteRead(d, IF out = 0 THEN "too_small" ELSE "success", out)
        /\ outdated' = Checked'
        /\ UNCHANGED <<istream, process_read_dpc, read_queue2>> /\ ReadUnchanged

\* ... and one that does not, which ends the read.
FrameReadEnd(d) ==
    /\ dpc[d].pc = "read" /\ ~streaming
    /\ ~(MaxFrameLength(d) >= 0 /\ CanRemoveLte(queued_iframes, MaxFrameLength(d)))
    /\ CompleteRead(d, IF dpc[d].out = 0 THEN "too_small" ELSE "success", dpc[d].out)
    /\ outdated' = outdated \cap Checked'
    /\ UNCHANGED <<istream, queued_iframes, process_read_dpc, read_queue2, taken>>
    /\ ReadUnchanged

SynccomProcessRead(d) ==
    \/ ReadCheck(d) \/ ReadRetrieve(d) \/ StreamRead(d) \/ FrameReadTake(d) \/ FrameReadEnd(d)

----------------------------------------------------------------------------
(* PURGE_RX: reset the receiver, clear the three buffers one lock at a time, *)
(* then cancel the waiting reads and wait for the one being served.          *)

PurgeUnchanged == UNCHANGED <<adapterVars, responses, to_send, pending_frame_size_reads, tally,
                              overread, iframe_dpc, process_read_dpc, iframe_pc, rx, dpc, taken>>

PurgeReset ==
    /\ purge = "idle" /\ bound.purges < MaxPurges
    /\ bound' = [bound EXCEPT !.purges = @ + 1]
    /\ Send("RRES")
    /\ purge' = "queued"
    /\ UNCHANGED <<bufferVars, read_queue2, reads, outdated>> /\ PurgeUnchanged

PurgeQueued ==
    /\ purge = "queued"
    /\ queued_iframes' = EmptyList
    /\ outdated' = Checked
    /\ purge' = "istream"
    /\ UNCHANGED <<istream, pending_iframes, pipe, read_queue2, reads, bound>> /\ PurgeUnchanged

PurgeStream ==
    /\ purge = "istream" /\ StreamLockFree
    /\ istream' = ClearFrame(istream)
    /\ purge' = "pending"
    /\ UNCHANGED <<pending_iframes, queued_iframes, pipe, read_queue2, reads, outdated, bound>>
    /\ PurgeUnchanged

PurgePending ==
    /\ purge = "pending" /\ StreamLockFree
    /\ pending_iframes' = EmptyList
    /\ purge' = "cancel"
    /\ UNCHANGED <<istream, queued_iframes, pipe, read_queue2, reads, outdated, bound>>
    /\ PurgeUnchanged

\* mutant: the read being served is cancelled too.
CancelledAlso(read) ==
    IF read.status \in {"queued", "held"} THEN [read EXCEPT !.status = "cancelled"] ELSE read

Cancelled(read) == IF read.status = "queued" THEN [read EXCEPT !.status = "cancelled"] ELSE read

PurgeCancel ==
    /\ purge = "cancel"
    /\ read_queue2' = <<>>
    /\ reads' = [r \in DOMAIN reads |-> Cancelled(reads[r])]
    /\ purge' = "drain"
    /\ UNCHANGED <<bufferVars, pipe, outdated, bound>> /\ PurgeUnchanged

\* WdfIoQueuePurgeSynchronously waits until no request is held.
NoneHeldEver == TRUE        \* mutant: it does not wait
NoneHeld == \A r \in DOMAIN reads : reads[r].status # "held"

PurgeDrain ==
    /\ purge = "drain" /\ NoneHeld
    /\ purge' = "idle"
    /\ UNCHANGED <<bufferVars, pipe, read_queue2, reads, outdated, bound>> /\ PurgeUnchanged

PurgeStep == PurgeQueued \/ PurgeStream \/ PurgePending \/ PurgeCancel \/ PurgeDrain

----------------------------------------------------------------------------
Adapter == ExecuteFrameCount \/ ExecuteFrameSize \/ ExecuteReceiverReset

SendRead == SendSizeRead \/ SendCountRead

RegisterCompletion == CompleteFrameCount \/ CompleteFrameSize \/ SendRead \/ CompleteWithError

IframeWorker == IframeStart \/ IframeLoop \/ IframeEnd

Next ==
    \/ WireByte \/ Adapter \/ RegisterCompletion
    \/ RxPacket \/ RxStep
    \/ Timer \/ IframeWorker
    \/ SyncComEvtIoRead
    \/ \E d \in ReadDpcs : ReadStart(d) \/ SynccomProcessRead(d)
    \/ PurgeReset \/ PurgeStep

Spec == Init /\ [][Next]_vars

(* Fairness.  The adapter executes the commands it is sent and sends what it *)
(* received, USB requests complete and their completions and PURGE_RX run to *)
(* the end; an enqueued DPC runs to its end and the timer fires.  A step that*)
(* waits for a spin lock iframe_worker may hold is not enabled all the time, *)
(* so it gets strong fairness: the worker runs for moments, 4 times a second.*)
(* One condition for all Transfer steps is weaker than one for each thread.  *)
Transfer == \/ Adapter \/ CompleteFrameCount \/ CompleteFrameSize \/ SendRead
            \/ RxPacket \/ RxStep \/ PurgeStep

Fairness ==
    /\ SF_vars(Transfer)
    /\ WF_vars(Timer) /\ WF_vars(IframeWorker)
    /\ \A d \in ReadDpcs : SF_vars(ReadStart(d) \/ SynccomProcessRead(d))

FairSpec == Spec /\ Fairness

----------------------------------------------------------------------------
(* Properties. *)

TypeOK ==
    /\ streaming \in BOOLEAN
    /\ wire \in [frame : 1..NFrames + 1, bytes : Nat]
    /\ dataFifo \in Seq(Bytes) /\ sizeFifo \in Seq(1..NFrames)
    /\ pipe \in Seq([op : {"FIFO_FC", "BC_FIFO_L", "RRES"}, nth : Nat])
    /\ responses \in Seq([op : {"FIFO_FC", "BC_FIFO_L"}, value : Nat, nth : Nat])
    /\ to_send \in [sizes : Nat, count : BOOLEAN]
    /\ pending_frame_size_reads \in Nat
    /\ istream \in Frames(Bytes)
    /\ pending_iframes \in Lists(Bytes) /\ queued_iframes \in Lists(Bytes)
    /\ queued_iframes.estimated_memory_usage >= 0
    /\ iframe_dpc \in BOOLEAN /\ process_read_dpc \in BOOLEAN
    /\ iframe_pc \in {"idle", "loop"}
    /\ rx \in [pc : {"idle", "queued", "istream", "pending", "trim", "add"},
               packet : Seq(Bytes), usage : Nat]
    /\ dpc \in [ReadDpcs -> [pc : {"idle", "check", "retrieve", "read"},
                             req : 0..Len(reads), out : Nat]]
    /\ read_queue2 \in Seq(1..Len(reads))
    /\ reads \in Seq([length : Nat, out : Nat,
                      status : {"queued", "held", "success", "too_small", "cancelled", "failed"}])
    /\ taken \in Seq([req : 1..Len(reads), data : Seq(Bytes)]) /\ outdated \subseteq ReadDpcs
    /\ purge \in {"idle", "queued", "istream", "pending", "cancel", "drain"}
    /\ bound \in [purges : Nat, failures : Nat]
    /\ tally \in [sized : Nat, issued : Nat, popped : Nat, completed : Nat]
    /\ overread \in BOOLEAN

\* The frame-size FIFO is never read while it is empty (isr.c:508-511: "if you
\* over-read the 'frame size' register, you get invalid and dummy data").
NoOverread == ~overread

\* The frames handed to reads, then the ones queued, are the frames of the
\* wire: each whole, none missing, none twice, in order, wherever the packet
\* boundaries fell and however late each size arrived.
FramesIntact ==
    LET seen == [i \in DOMAIN taken |-> taken[i].data]
                  \o [i \in DOMAIN queued_iframes.frames |-> queued_iframes.frames[i].data]
    IN  ~streaming => \A k \in DOMAIN seen : k <= NFrames /\ seen[k] = FrameBytes(k)

\* The receive path is a channel of frames: one enters when its last byte
\* arrives, and leaves into a read.
Channel == INSTANCE FrameChannel WITH
    Contents <- {FrameBytes(k) : k \in 1..NFrames},
    entered <- [k \in 1..(wire.frame - 1) |-> FrameBytes(k)],
    left <- [i \in DOMAIN taken |-> taken[i].data]

\* Without losses the receive path implements the channel: reads get the frames
\* of the wire, each once, whole and in order, one at a time, and never one
\* that has not arrived, although data and sizes come in different pipes.
ReceivesInOrder == Channel!Spec

\* pending_frame_size_reads counts every size read that is on its way, and no
\* more than the failed ones besides: each of those keeps the driver from asking
\* for one size (register_completion returns before it counts them down), and
\* nothing else does, however counts, sizes and sends interleave.
SizeReadsTracked ==
    LET underway == tally.issued - tally.completed
    IN  underway <= pending_frame_size_reads /\ pending_frame_size_reads <= underway + bound.failures

Holders(r) == {d \in ReadDpcs : dpc[d].pc = "read" /\ dpc[d].req = r}

\* Every read request is in exactly one place: waiting in read_queue2, held by
\* one run of SynccomProcessRead, or completed.
RequestsHeldOnce ==
    \A r \in DOMAIN reads :
        /\ Cardinality({i \in DOMAIN read_queue2 : read_queue2[i] = r})
              = (IF reads[r].status = "queued" THEN 1 ELSE 0)
        /\ Cardinality(Holders(r)) = (IF reads[r].status = "held" THEN 1 ELSE 0)

\* A read fails for its buffer in this step.
FailsSmall(r) == reads[r].status # "too_small" /\ reads'[r].status = "too_small"

\* The buffer of a read is too small for the first frame queued, if any, or
\* even for the timestamp of an empty one.
BufferTooSmall(r) ==
    reads[r].length + (IF AppendStatus THEN 0 ELSE StatusLength)
        < (IF IsEmptyList(queued_iframes) THEN 0 ELSE DataLength(PeekFront(queued_iframes)))
          + (IF AppendTimestamp THEN TimestampLength ELSE 0)

\* docs/read.md says of ERROR_INSUFFICIENT_BUFFER: "The buffer size is smaller
\* than the next frame".
TooSmallMeansTooSmall ==
    [][\A r \in DOMAIN reads : FailsSmall(r) =>
           ~IsEmptyList(queued_iframes) /\ BufferTooSmall(r)]_vars

\* What the code keeps of it: a read is answered ERROR_INSUFFICIENT_BUFFER for
\* a buffer that is too small, or because frames have left queued_iframes since
\* its run of SynccomProcessRead found some there: taken by another run, purged,
\* or taken by this one with no byte in them but their status.
TooSmallExplained ==
    [][\A d \in ReadDpcs : dpc[d].pc = "read" /\ FailsSmall(dpc[d].req) =>
           BufferTooSmall(dpc[d].req) \/ d \in outdated \/ taken' # taken]_vars

\* A read is never answered with more bytes than its buffer has room for,
\* whatever status and timestamps are cut from or added to each frame and
\* however many frames one read takes.
ReadWithinBuffer ==
    /\ \A r \in DOMAIN reads : reads[r].out <= reads[r].length
    /\ \A d \in ReadDpcs : dpc[d].pc = "read" => dpc[d].out <= reads[dpc[d].req].length

\* Every frame that has arrived reaches queued_iframes, although nothing but a
\* USB packet or the completion of a size read asks how many frames there are.
FramesReachQueue ==
    LET behind == ~streaming /\ wire.frame - 1 > Len(taken) + Len(queued_iframes.frames)
    IN  behind ~> ~behind

Answered(r) == reads[r].status \notin {"queued", "held"}

\* Reads do not wait while frames are queued, or not for long, although one run
\* of SynccomProcessRead serves one request and does not enqueue the next.
ReadsAnswered ==
    LET stuck == (\E r \in DOMAIN reads : ~Answered(r)) /\ ~IsEmptyList(queued_iframes)
    IN  stuck ~> ~stuck

\* PURGE_RX returns, although it waits for locks and for the read being served.
PurgeReturns == purge # "idle" ~> purge = "idle"

\* No read is completed a second time: the purge cancels what waits on the
\* queue, and the executions of SynccomProcessRead what each of them retrieved.
AnsweredOnce ==
    [][\A r \in DOMAIN reads : Answered(r) => reads'[r] = reads[r]]_vars

\* When PURGE_RX returns, every read that was waiting has been answered.
PurgeAnswersReads ==
    [][purge = "drain" /\ purge' = "idle" => \A r \in DOMAIN reads : Answered(r)]_vars

\* queued_iframes.estimated_memory_usage, kept by additions and subtractions
\* in three functions of flist.c, is what its frames hold.
QueuedEstimateExact ==
    queued_iframes.estimated_memory_usage = TotalLength(queued_iframes.frames)

\* Bytes of received data the driver holds in its three buffers.
Held ==
    queued_iframes.estimated_memory_usage + DataLength(istream)
    + (IF IsEmptyList(pending_iframes) THEN 0 ELSE DataLength(PeekFront(pending_iframes)))

\* The driver never holds more than the cap (docs/memory-cap.md: the caps are
\* "safety checks in place to prevent spurious incoming data from overrunning
\* your system").
HeldWithinCap == Held <= InputCap

\* pending_iframes.estimated_memory_usage starts at zero and only falls: the
\* bytes a frame takes of istream are not added, the ones left over are
\* subtracted.  The driver takes itself to hold so many bytes less.
Drift == 0 - pending_iframes.estimated_memory_usage

\* Whatever the three usage reads miss, one packet can only bring the driver
\* to twice the cap, twice what the estimate has drifted, and what was put
\* together of one frame that has arrived.
HeldBounded ==
    LET Within(rest) == Held <= 2 * (InputCap + Drift) + rest
    IN  Within(0) \/ \E k \in 1..wire.frame - 1 : Within(FrameLengths[k] - 1)

\* istream, which grows by one packet at a time, passes the cap by no more than
\* the estimate of pending_iframes has drifted.
StreamWithinCap == DataLength(istream) <= InputCap + Drift

\* All received bytes still known, from the ones given to reads to the ones
\* the adapter holds.
Flow ==
    [i \in DOMAIN taken |-> taken[i].data]
    \o [i \in DOMAIN queued_iframes.frames |-> queued_iframes.frames[i].data]
    \o <<IF IsEmptyList(pending_iframes) THEN <<>> ELSE PeekFront(pending_iframes).data,
         istream.data, rx.packet, dataFifo>>

\* Whatever is dropped (at the cap, by a purge, by a failed size read), no byte
\* overtakes another and none is delivered twice.
BytesInOrder == InOrder(Flow, {})

=============================================================================
