# TLA+ verification of the SyncCom Windows driver

The repository is a WDF kernel driver for the SyncCom, a USB serial adapter for
HDLC frames, X-Sync and transparent (raw) data. The driver's core is the code in
`src/src/` that moves data and register commands between applications and four
USB pipes: `isr.c` (the handlers of the pipes and the DPCs), `port.c` (the
operations on a port and the ioctls), `frame.c` and `flist.c` (its buffers).
This directory models that core in TLA+, checks it with TLC on small instances and
proves part of it with TLAPS for every instance.

## 1. The system

| Component | State | Operations | Modelled by |
|---|---|---|---|
| frame and flist (`frame.c`, `flist.c`) | a frame: data, `data_length`, `buffer_size`, `frame_size`, `lost_bytes`; a list: frames, `estimated_memory_usage` | add, remove, copy and clear data; add and remove frames | `SynccomFrame` |
| receive path (`isr.c`, `port.c`) | `istream`, `pending_iframes`, `queued_iframes`, `pending_frame_size_reads`, `read_queue2` | `port_received_data`, `register_completion`, `iframe_worker`, `SynccomProcessRead`, `synccom_port_frame_read`, `synccom_port_stream_read`, `synccom_port_purge_rx`, the timer | `SynccomRx` |
| transmit path (`isr.c`, `port.c`) | `queued_oframes`, `pending_oframe`, `writes_in_flight`, the locks around them | `SyncComEvtIoWrite`, `oframe_worker`, `prepare_frame_for_fifo`, `synccom_port_data_write`, `tx_completion`, `synccom_port_purge_tx` | `SynccomTx` |
| adapter and USB (not in the repository) | the data FIFO, the frame-size FIFO, the transmit FIFO and sizes; commands and packets in flight | receive and transmit on the wire, execute register commands | environment of `SynccomRx` and `SynccomTx` |
| registers (`port.c`, `isr.c`, `utils.c`) | `register_storage`, the cache of the adapter's registers; the commands and read requests on their way | SET/GET_REGISTERS, SET_CLOCK_BITS, the default registers, `register_completion` | `SynccomRegs` |
| non-volatile and firmware requests (`port.c`) | `nonvolatile_reg`, `fx2_firmware_rev`, `fpga_firmware_rev` | SET/GET_NONVOLATILE, REPROGRAM, the revisions | `SynccomRegs` |
| settings ioctls (`port.c`) | append status, append timestamp, rx multiple, `ignore_timeout`, caps, modifiers, max writes | set; the settings of the registry | `SynccomDevice`; constants of the data paths |
| device lifecycle (`device.c`, `driver.c`) | the locks, DPCs, timer, queues and buffers themselves; the counter of instances; the registry | `synccom_port_new`, Prepare/ReleaseHardware, D0Entry/D0Exit | `SynccomDevice` |
| clock bits calculator (`lib/raw/calculate-clock-bits.c`) | none | a floating-point search | not modelled: no useful arithmetic in TLA+ |
| tracing, tools, examples | none | - | not modelled |

How they interact. An application's requests arrive in three sequential queues.
Reads are forwarded to a manual queue, `read_queue2`, and served by
`process_read_dpc`. Writes become frames in `queued_oframes`, sent by
`oframe_dpc`. On the other side a continuous reader delivers packets of received
bytes on the data pipe (`port_received_data`), and register commands go out on one
pipe and are answered on another (`register_completion`). The adapter puts the
bytes of all frames into one stream; the *sizes* of the frames must be asked for,
one by one, over the register pipe. `iframe_worker` joins the two: it opens a
frame for every size and cuts the stream at those lengths.

```
            data pipe                       iframe_dpc               process_read_dpc
 adapter ------------> istream  --------->  pending_iframes -> queued_iframes -> reads
    |   \-- register pipe: FIFO_FC (count), BC_FIFO_L (size) ----^
    |
    <------- data pipe, BC_FIFO_L, XF -- pending_oframe <- queued_oframes <- writes
```

What is hard:

* *Concurrency.* Four spin locks protect four places, and most operations need two
  or three, one after the other: the memory usage checks, a purge, a read. WDF serializes
  DPC callbacks only when a synchronization scope is set; `device.c` sets none, so
  a DPC that is enqueued again may run on a second processor while the first run
  is not finished. `writes_in_flight` is changed under no lock at all.
* *Ordering.* Sizes and data travel on different pipes. A count of frames is stale when
  it arrives; the size FIFO must never be read when it is empty.
* *Failure.* A register read can complete with an error, a send or an allocation
  can fail, and the memory caps drop bytes in the middle of frames.
* *Purges.* They reset the adapter with a command that is still queued when the
  buffers are cleared, and they race all of the above.
* *Liveness.* Nothing but packets and completions asks how many frames there are,
  and a run of `SynccomProcessRead` serves one request and does not enqueue the next.

What makes each component correct:

* frame and flist: no bytes are lost or reordered by a move, the estimate of a list
  is what its frames hold, the buffer is never smaller than what is sent from it.
* receive path: frames reach reads whole and in order; the size FIFO is never
  over-read; every request is in one place and answered once; memory is bounded;
  every frame arrives and every read is answered; a purge returns.
* transmit path: accepted writes reach the wire whole and in order, every one of
  them; output is bounded by its cap; the limit of pending writes is kept.
* registers: the cache holds each register's own value and never goes back; what is
  set is applied; every read request is completed; an adapter is asked only for what it has.
* lifecycle: no two device objects share a name; nothing is used before it is made
  or after it is freed; a start puts the stored settings in force.

The hazards of the code, each at its line, are listed in `PROJECT.json` with the
properties that watch over them.

## 2. The modules

**`SynccomFrame`** has no state. A frame is a record whose `data` is the sequence of
its valid bytes (so `data_length` is its length), a list is a record of a sequence of frames and
the estimate. Every operator is one function of `frame.c` or `flist.c`:
`AddData`, `RemoveData`, `CopyTo`/`CopyFrom` (`copy_data`, with its unsigned
subtraction modulo `WORD`), `UpdateBufferSize` (which rounds to words),
`AddFrame`, `RemoveFrame`, `CanRemoveLte`. Bytes are abstract values
`<<frame, position>>`, so a property can see each of them.

**`SynccomRx`** is the receive path. A step is a region under one lock, or the code
between two regions. Operations that take one lock at a time are several actions:
`port_received_data` is `RxPacket` (which sends the count command), three
`RxUsage*` steps, `RxTrim` and `RxAdd`; the purge is `PurgeReset` to `PurgeDrain`; a
read is `ReadCheck`, `ReadRetrieve` and then `StreamRead` or the iterations
`FrameReadTake`/`FrameReadEnd`. `iframe_worker` holds the istream and the pending
lock over its whole loop, so `IframeLoop` is one iteration and the steps that
need one of those locks wait (`StreamLockFree`). `register_completion` is
`CompleteFrameCount`, `CompleteFrameSize` and `CompleteWithError`; the reads it sends
are steps of their own (`SendSizeRead`, `SendCountRead`), between which others send theirs.
`to_send` holds what it has left to send, and the next response waits for it. A read also fails when it
cannot be forwarded or its buffer cannot be retrieved (`MayFail`). `streaming` is
`synccom_port_is_streaming`, chosen once. The history variable `outdated` names the runs of
`SynccomProcessRead` since whose check frames have left `queued_iframes`.

**`SynccomTx`** is the transmit path, with the same granularity. `oframe_worker` is
`OframeCheck` to `OframeCommand` and holds the board and the pending lock (`lock`)
from `OframeTake` on; `writes_in_flight++` and `--` are a load and a store each.

**`SynccomRegs`** is the registers. The "ioctl" thread runs the start of a device and then
the handlers of the one sequential ioctl queue; the "data" thread asks for FIFO_FC.
`script` holds what a thread still has to send: commands, and read requests ("post")
that carry the answers. Each is sent by a call of its own under `request_spinlock`, so `Send` is one
item and threads interleave between a command and its read request. A send may
fail (`SendFails`), which skips the read request of a read. Answers and read requests meet
in order (`Meet`), whoever sent them; an answer longer than the request fails and is lost.
`register_completion` tells them apart by size and address only (`CachedAt`). A value is where it
belongs (space and address), who chose it, what it does to the lines of the clock chip in FCR and, as
history, the number of its write; its other bits are abstracted. The 320 bit writes of
`set_clock_bits` are one.

**`SynccomDevice`** is the device objects. `synccom_port_new` is one action per thing it makes, in order,
each of which may fail; then PrepareHardware, D0Entry, D0Exit and the two frames ReleaseHardware frees.
The callbacks are reduced to what they touch: the objects they need (`early` records what was not made yet)
and the frames they follow a pointer to (`late` records that one was freed). Several device
objects are built at a time; `Followed` names those whose life after that is followed, because
what a finished port does is nothing to another. Settings are taken from the registry at a start and
changed by ioctls, through the conversions to int and flag of the code.

**`FrameChannel`** is the abstract specification of the data paths, for behaviours in which nothing is lost or purged:
frames leave whole, once, in the order in which they entered. Both paths implement it (`INSTANCE FrameChannel
WITH ...`):

| | `entered` | `left` |
|---|---|---|
| `SynccomRx!ReceivesInOrder` | the frames whose last byte has arrived on the wire | the frames that reads have taken |
| `SynccomTx!TransmitsInOrder` | the writes that were accepted | the frames the adapter has transmitted |

Every step of a path is a step of the channel or leaves it alone, although a frame passes through three
buffers, two pipes and several threads in between.

**`MCRx`, `MCTx`, `MCRegs`, `MCDevice`** define the instances for TLC: values of the constants,
constraints, a symmetry, and claims that do not hold. The properties themselves are in the modules
they are about, where the theorems can name them.

The theorems are in modules of their own. `SynccomFrame_proofs` has the lemmas about frames, lists
and the order of bytes; `SynccomTx_proofs`, `SynccomRegs_proofs` and `SynccomDevice_proofs` each
prove about one module. The receive path takes four, each on top of the one before:
`SynccomRx_proofs` (the size FIFO), `SynccomRxTypes_proofs` (types, places of requests, order of
bytes, memory), `SynccomRxFrames_proofs` (whole frames and the frame channel) and
`SynccomRxReads_proofs` (what reads answer).

The environment, which is not in the repository, is modelled from how the code uses it:

* The adapter executes register commands in the order they were sent, and a
  response completes in that order, one at a time. The two USB data pipes are not ordered
  with respect to the register pipes.
* `FIFO_FC` answers the number of complete frames whose size has not been read;
  `BC_FIFO_L` answers and removes the oldest of those sizes, or any member of
  `DummySizes` when there is none (`isr.c:511`).
* `RRES` drops all received bytes and sizes and the frame being received; `TRES`
  drops the transmit FIFO and its sizes.
* A read command of a register puts one answer on the second pipe, 6 bytes long, 4 for the non-volatile
  register and 2 for the revision of the FX2 firmware; a read request takes the oldest answer (`SynccomRegs`).
* The framework calls PrepareHardware, D0Entry, D0Exit and ReleaseHardware one at a time for
  a device, may start a device it stopped again, and deletes the queues, DPCs and the timer with the device object.
* The adapter transmits a frame once it has been told to, has its size and has
  all its words.

Further assumptions: settings and caps do not change within a behaviour of the data paths; in the
receive path allocations succeed; a register command that cannot be sent has the effect of one
whose completion reports an error. While the queues are purged the framework refuses new requests.
`port_received_data` uses the last frame of `pending_iframes` without holding a lock
(`isr.c:657`); `RxTrim` gives that region the effect it has when the list does not
change during it, and does not model the pointer outliving its frame.

`tx_cap` takes the executions of the worker as symmetric: nothing tells one from another.
`WORD` stands for 2^32: the runs use 64, which no legal length of an instance
reaches, so a value wraps in the model exactly when it does in the code.
`StatusLength` is 2 in the code; the runs use 1 so that frames of one and two
bytes remain interesting. `FifoSpace` is 4092 in the code and 4 in the runs, so
that a write of 5 bytes needs two chunks. `SynccomDevice` uses 64 and 16 for 2^32 and 2^8; its theorems hold for any.

## 3. The runs

All bounds are constants of the modules (`MaxReads`, `MaxWrites`, `MaxPurges`,
`MaxFailures`, `MaxFailedReads`, the lengths of the frames, `MaxPacket`; `MaxInPipe`, `MaxIoctls`, `MaxEvents`; `MaxPorts`,
`MaxStarts`, `Followed`). One packet in flight is not a
bound: the reader is configured so that one completion runs at a time.

| Run | Question | Bounds, and why they are enough |
|---|---|---|
| `rx_frames` | Do frames reach reads whole, in order and within their buffers, with rx_multiple, no status and timestamps? Is the size FIFO never over-read? Is the path a `FrameChannel`? | two frames of 2 and 1 bytes in packets of up to 2: packets with part of a frame, a whole one, and parts of both; reads of 1 (room for a timestamp only) and 3 bytes (room for one or for both) |
| `rx_live` | Does every frame reach the queue and is every read answered? | two frames, two reads, so that the second size, frame and request each depend on what the first leaves behind; one read that fails |
| `rx_purge` | With a purge and two overlapping runs of the DPC, is every request in one place, is it answered once, and by the time the purge returns, does the purge return? Does a read fail for its buffer only with a reason? | one read, which a purge finds unissued, queued, being taken or served; both modes |
| `rx_memory` | At the cap and with a failing register read, is the size FIFO still never over-read, does the count of size reads lose no more than the failed one, is the accounting exact, is the memory bounded, do bytes keep their order? | frames of 1 and 6 bytes, packets of up to 2 and a cap of 2: packets are trimmed and dropped, and a frame charged with more than it misses takes bytes of no frame, so that the estimate of `pending_iframes` drifts below zero; at most two commands and answers in flight and three bytes between wire and `istream`, and a failed size read or a read (`Prompt`), to keep that reachable |
| `tx_frames` | Are writes transmitted whole, in order, and all of them? Is the path a `FrameChannel`? | writes of 3 and 5 bytes: a padded frame in one chunk and one in two, two frames that share the FIFOs |
| `tx_cap` | Is the output cap kept with two workers, a purge, a failure? Does the wire carry every byte at most once and in order, whatever a retry or a purge between two chunks does to the frames? | two writes of two chunks that fit together only when the first is partly out; one fault in a behaviour, and overlapping workers only where it is not a purge (`OneFault`) |
| `regs` | Does the cache stay true and move forward, is what is set applied, is the clock left idle, is the non-volatile register only used where there is one and does it settle, does every read request complete? | CMDR (write-only), CCR1 and FCR, which share the address 0x20 on two pages; the start and any two ioctls, one of which is enough to disturb what the other started; one packet or one failed send, at any point; two commands in the pipe, so that a command, its answer and a later command are in flight at once; firmware with and without the non-volatile register |
| `device` | Are names distinct, is nothing used before it is made, do only the workers use freed frames, does a start apply the stored settings? | two adapters and two device objects, built at the same time or one after the other, failing at each step; two starts of the first one, so that a restart finds what the first life left; registries with nothing and with values that need a conversion (40 of 64, a modifier there is not, a flag of 16 = 0 modulo 16); one ioctl with a negative number or not |

Four runs show that the code does not do what a document or a comment of the repository says:

| Run | What it shows |
|---|---|
| `rx_cap` | The input cap is exceeded: the usage is summed under three locks, one after the other, and the frame that is being filled is not counted at all (`HeldWithinCap`). `rx_memory` checks the bound that does hold: twice the cap, a frame, and twice the drift of the next run. |
| `rx_overread` | A purge lets the driver read an empty size FIFO: `RRES` empties it while an answer to `FIFO_FC` is on its way (`NoOverread`). Without a purge it never happens, which is proved. |
| `rx_wrap` | Bytes lost at the cap are charged to the wrong frame, `frame_size - (data_length + lost_bytes)` wraps and with it the memory estimate (`UsageNeverWraps`). What the estimate falls below zero (`Drift`) the driver takes itself to hold less: as long as the other two parts of the sum are at least as large the sum wraps back and the cap is too high by that much; when they are smaller it is near 2^32 and every packet is dropped. |
| `regs_fcr` | SET_CLOCK_BITS writes back the FCR of the cache, which is not the one that was set last while the answer to its read is on its way (`FcrAsSet`). |

Four more configurations are kept as counterexamples. TLC finds each of them within seconds:

| Configuration | Module | What it shows |
|---|---|---|
| `rx_too_small.cfg` | `MCRx` | A read whose buffer is big enough fails with `ERROR_INSUFFICIENT_BUFFER`, of which `docs/read.md:14` says "The buffer size is smaller than the next frame" (`TooSmallMeansTooSmall`): a purge, or a second run of the DPC, takes the frame between the check and the read. |
| `tx_max.cfg` | `MCTx` | One write more than `max_pending_writes` is in flight, because the worker compares with `>` (`InFlightWithinMax`; `docs/max-writes.md:3`). |
| `regs_get.cfg` | `MCRegs` | GET_REGISTERS returns the cached value and asks for the new one afterwards; FCR is asked for at an address it does not have (`GetReturnsRegister`; `docs/registers.md`). |
| `device_number.cfg` | `MCDevice` | The port number is written to the registry at each start and never read back: an adapter that comes back gets another (`NumberRemembered`; `ChangeLog.md`, 1.2.4). |

`rx_memory` and `rx_cap` use small caps. Where a property is not in a run, the code does not
promise it there: `FramesIntact` is for behaviours without losses (no purge, no failure, no
cap reached), `BytesInOrder` is what remains with any loss. `TooSmallExplained` is what remains of `TooSmallMeansTooSmall`:
the buffer is too small, or frames have left the queue since the run of `SynccomProcessRead` found some there.

`HeldBounded` and `StreamWithinCap` allow for the drift because the proofs would not go through without it:
the invariant that istream stays within the cap is lost when the usage is summed, since the sum may be too small by
what the estimate has drifted. An instance with a longer frame (1 and 6 bytes instead of three frames of 1)
then showed that the bounds without it are violated.

`WireBytesInOrder` is what remains of `WireIntact` with failures and purges: a
failed first chunk announces its size once more and a purge resets the adapter
between chunks, so the boundaries of the frames on the wire may be wrong from
then on, but no byte goes out twice or early.

**Fairness.** `Spec` has none; the two `FairSpec` are used for liveness. The adapter
executes what it is sent, USB requests complete (a WDF target with no timeout completes or is
cancelled), an enqueued DPC runs to its end, the 250 ms timer enqueues
`iframe_dpc` and `oframe_dpc` again and again. Nothing is assumed of the application, the wire,
errors or the start of a purge. Steps that need a spin lock are enabled again and
again and not all the time, because the worker may take the lock between any two; they get strong fairness: a
spin lock is obtained eventually. One condition covers the disjunction of all transfer steps,
which is weaker than one for each thread. In `SynccomRegs` a handler that runs goes on, the adapter executes
what it gets and completions run (weak fairness each): a completion that waits for `board_settings_spinlock`
stays enabled once the handler, which takes the lock for one ioctl at a time, is done. `SynccomDevice` claims no
liveness and has no fairness. Ioctls, packets and failures need never come.

`SentOrDrifted` names the one way the transmitter stops in behaviours without failures and purges:
a lost update of `writes_in_flight` leaves the counter above its maximum while nothing is
in flight, and `oframe_worker` returns at once from then on. The property says that nothing else
stops it.

Every property of a passing run has a mutant in `PROJECT.json`: a small change of
one definition, the kind of slip the code could contain, that makes TLC find the
property violated in that run.

## 4. What is proved

Each theorem holds for every value of the constants that satisfies `WordAssumption`, `RxAssumption`
and `WidthAssumption`, `TxAssumption`, `RegsAssumption` or `DeviceAssumption`, which TLC evaluates in every
run, and the hypotheses given here.

| Theorem | Statement | Hypotheses |
|---|---|---|
| **receive path** | | |
| `SynccomRx_proofs!NeverOverread` | `Spec => []NoOverread` | no purge |
| `SynccomRx_proofs!SizeReadsCounted` | `Spec => []SizeReadsTracked` | no purge |
| `SynccomRxTypes_proofs!TypeCorrect` | `Spec => []TypeOK` | |
| `SynccomRxTypes_proofs!EstimateStaysExact` | `Spec => []QueuedEstimateExact` | |
| `SynccomRxTypes_proofs!RequestsStayHeldOnce` | `Spec => []RequestsHeldOnce` | |
| `SynccomRxTypes_proofs!ReadsAreAnsweredOnce` | `Spec => AnsweredOnce` | |
| `SynccomRxTypes_proofs!PurgeAnswers` | `Spec => PurgeAnswersReads` | |
| `SynccomRxTypes_proofs!BytesStayInOrder` | `Spec => []BytesInOrder` | |
| `SynccomRxTypes_proofs!StreamStaysBoundedThroughPurges` | `Spec => [](DataLength(istream) <= InputCap + d)` | less than `WORD` bytes held, `[](Drift <= d)` |
| `SynccomRxTypes_proofs!HeldStaysBoundedThroughPurges` | `Spec => []HeldWithin(d)` | `[]CountersFit`, `[](Drift <= d)` |
| `SynccomRxTypes_proofs!StreamStaysWithinCap` | `Spec => []StreamWithinCap` | no purge, less than `WORD` bytes held |
| `SynccomRxTypes_proofs!HeldStaysBounded` | `Spec => []HeldBounded` | no purge, `[]CountersFit` |
| `SynccomRxFrames_proofs!FramesStayIntact` | `Spec => []FramesIntact` | no purge, no failure, `[]Untrimmed` |
| `SynccomRxFrames_proofs!FramesStayIntactUnderCap` | `Spec => []FramesIntact` | no purge, no failure, a cap that holds all frames |
| `SynccomRxFrames_proofs!ReceivesFramesInOrder` | `Spec => ReceivesInOrder` | no purge, no failure, `[]Untrimmed`, not streaming |
| `SynccomRxFrames_proofs!ReceivesInOrderUnderCap` | `Spec => ReceivesInOrder` | no purge, no failure, a cap that holds all frames, not streaming |
| `SynccomRxReads_proofs!ReadsStayWithinBuffer` | `Spec => []ReadWithinBuffer` | status appended, `LengthsFit` |
| `SynccomRxReads_proofs!ReadsStayWithinBufferUnderCap` | `Spec => []ReadWithinBuffer` | no purge, no failure, a cap that holds all frames, `LengthsFit` |
| `SynccomRxReads_proofs!TooSmallHasReason` | `Spec => TooSmallExplained` | `LengthsFitInt` |
| **transmit path** | | |
| `SynccomTx_proofs!TypeCorrect` | `Spec => []TypeOK` | |
| `SynccomTx_proofs!EstimateStaysExact` | `Spec => []QueuedEstimateExact` | |
| `SynccomTx_proofs!CapHolds` | `Spec => []OutputWithinCap` | |
| `SynccomTx_proofs!TransmitStaysInBuffer` | `Spec => []TransmitWithinBuffer` | |
| `SynccomTx_proofs!WireStaysIntact` | `Spec => []WireIntact` | no purge, no failure |
| `SynccomTx_proofs!TransmitsFramesInOrder` | `Spec => TransmitsInOrder` | no purge, no failure |
| `SynccomTx_proofs!WireBytesStayInOrder` | `Spec => []WireBytesInOrder` | |
| **registers** | | |
| `SynccomRegs_proofs!TypeCorrect` | `Spec => []TypeOK` | |
| `SynccomRegs_proofs!CacheStaysTrue` | `Spec => []CacheTrue` | |
| `SynccomRegs_proofs!CacheMovesForward` | `Spec => ReadsForward` | |
| `SynccomRegs_proofs!NonvolatileOnlyWhereSupported` | `Spec => []NvSupported` | |
| `SynccomRegs_proofs!ChoicesReachAdapter` | `Spec => []SettingsApplied` | |
| `SynccomRegs_proofs!NonvolatileSettles` | `Spec => []NvSettles` | |
| `SynccomRegs_proofs!ClockLinesLeftIdle` | `Spec => []ClockLeftIdle` | FCR is among the registers with defaults, and the registry's FCR leaves the clock alone |
| `SynccomRegs_proofs!ClockNeverHalfDone` | `Spec => []ClockProgrammed` | |
| **lifecycle** | | |
| `SynccomDevice_proofs!TypeCorrect` | `Spec => []TypeOK` | |
| `SynccomDevice_proofs!NamesStayDistinct` | `Spec => []NamesDistinct` | |
| `SynccomDevice_proofs!NothingUsedBeforeMade` | `Spec => []MadeBeforeUse` | |
| `SynccomDevice_proofs!FirstLifeSafe` | `Spec => []OnlyWorkersLate` | |
| `SynccomDevice_proofs!EachStartAsStored` | `Spec => []StartsAsStored` | |

"No purge" and "no failure" are `MaxPurges = 0` and `MaxFailures = 0`: the property fails with them, as the runs
and section 5 say, and not for want of a proof. (`StreamWithinCap` fails with a purge, which
sets the estimate, and with it the drift, to zero after istream may have filled again under the old drift; TLC finds that with
frames of 1, 6 and 12 bytes. `HeldBounded` loses its invariant the same way, and whether the longer sums it allows are ever reached
then is open. The theorems "through purges" say what remains.) The runs that check a property satisfy the hypotheses of
its theorem: `rx_frames` those of the receive path (its reads cut the status off, and its cap holds both frames, which
is what `ReadsStayWithinBufferUnderCap` asks), `rx_memory` those about memory and the count of size reads,
`rx_purge` that of `TooSmallHasReason`, `tx_frames` those of the
transmit path, `regs` those of the clock.

*Sums without recursion.* The prover has no induction over data, so a sum over a sequence is stated by the
function that has the running sums: `Counted` for the estimate of a list, `Table` and `Offsets` for the places of the frames in
the stream of the wire, `Words` for their places in the data FIFO. Each action says how the function changes.

*Transmit types and cap.* `TypeInv` adds to the types that the worker that holds the locks
is the only one beyond `OframeTake` and has a pending frame, that accepted and refused writes stay
within `MaxWrites`, and that the queue's estimate is exact. The cap
itself is not inductive: a write is checked against two values read at different times. `UsageAhead`
says why this is safe: until the write is queued, what it has read so far is at least what is in those
places now, because only this handler adds output and a worker moves
frames only from the queue, which is read first, to the pending frame, which is read
second. (With the order reversed the moved frame would be missed.)

*Buffers.* The length sent is rounded up to words. `BuffersFit` says that the buffer of every queued
or pending frame is at least as long as its data, rounded up; sending removes whole words from the
front and keeps the buffer.

*The wire.* `OrderInv` follows a write through the queue, the pending frame, the data pipe and the FIFO.
`FramesCut` numbers the frames (the queue continues the pending frame, which is the rest of its write from some word on),
`SizesAnnounced` counts the announcements in the pipe and at the adapter (each frame once, in turn, the pending
one after its first chunk), and `BytesPlaced` says that FIFO, pipe and pending frame hold one stretch of the
concatenation of all padded writes. The adapter takes the next size and as many words: the two agree although they
travel apart. The refinement is then a case for each action: one enters, one leaves, the others do neither.

*The wire with failures and purges.* Sizes and bytes need not agree any more, but their order holds, by the argument of
the receive path: the bytes of the writes, padding aside, are in order in each of the five stages (queue, pending frame,
data pipe, FIFO, wire), and all of a later stage comes before all of an earlier one. A send that fails leaves its chunk
in the pending frame and nothing in the pipe, a purge empties stages: both keep it. `WireBytesInOrder` has no hypothesis.

*Over-reading.* `SizesInv` numbers the size reads with the history variable `tally`: sized >= issued >=
popped >= completed. `Chain` says that the commands in the pipe and the responses carry consecutive numbers,
`SizeReadsTracked` that `pending_frame_size_reads` is at least the number of reads issued and not completed (and more
only by the failed ones), `SizesLeft` that the reads a completion has still to send are for frames already counted, and
`CountsTrue` that a frame count in flight is at most the frames sized and not popped when it was answered. Responses complete in order, so when the count is compared every read popped before
the count was taken has completed: the reads the driver still waits for are all counted, and what
it adds is covered by frames. With a purge the count is no longer true, and
`rx_overread` is the counterexample.

*Receive types and requests.* `TypeInv` adds that a frame being received is one of the wire and that a run of
`SynccomProcessRead` in "read" holds a request. `PlacesInv` has the three ways a request could be in two places or none:
a request is held by the run that has it and by one run only (`HeldOnce`), the queue has no request twice and only
requests that wait (`QueuedOnce`), and no request waits while a purge drains (`DrainingEmpty`).
They give `AnsweredOnce` too: the purge answers what waits on the queue and a run what it holds, and neither can be
a request that was answered.

*Order of bytes.* On their way from the adapter to the reads bytes pass six places. `FlowInv` says that each place is
in order, that all of a place comes before all of the next (`Staged`), and that no byte is ahead of the wire
(`Seen`): a byte that arrives is later than all that are known. A loss keeps it, and every move takes from the front of a
place to the end of the one before. It needs that only the first pending frame has data (`OthersEmpty`) and that a
streaming port has no frames (`FramesIdle`). `BytesInOrder` then has no hypothesis: neither the cap, nor a purge, nor a failed
read, nor a frame whose lost bytes wrap its length makes a byte overtake another.

*Memory.* The usage is summed in three steps while `iframe_worker` moves bytes. `StreamBy(d)` and `HeldBy(d)` say, for each
point of the sum, what can still be missing from it when the estimate has drifted by d or less: after istream is added all
later moves only take from istream, so the sum covers istream up to the drift, and the packet is trimmed to what the sum
leaves of the cap. What is held besides, queued bytes that were in istream or the pending frame when the queue was read, is
bounded by what istream could hold then and an unfinished frame, whose length is one the driver was told (`SizesKnown`): of a
frame that has arrived or, once a purge let it read a size too many, what such a read answers. A purge only takes bytes away
and sets the drift to zero, which keeps the bound of any d that the drift never passes. Without purges the drift
never falls, so d can be the drift of the moment, which gives `StreamWithinCap` and, with `NeverOverread`, `HeldBounded`.
`CountersFit` excludes that 2^32 bytes are held or charged as lost.

*Whole frames.* `WholeInv` names every size on its way by the number of its read (`SizesNamed`), so the n-th frame
opened has the length of frame n (`FramesOpened`); the stream is one stretch of the wire that starts where the
first pending frame stops (`StreamPlaced`); so the frame that is completed is frame n (`FramesDone`). This is true
as long as no packet is trimmed (`Untrimmed`). `UsageInv` shows that none is when the cap holds all that
arrives: a byte is never counted in two of the three parts of the usage, because bytes move the way the parts are read.

*Reads.* `max_frame_length` is an int computed from unsigned values; `LengthsFit` (`LengthsFitInt`) says that the buffers of reads
are short enough for it not to wrap (for it to be positive when it should). Cutting the status is safe only for frames that
have one, hence the cap. `TooSmallHasReason` holds with any number of runs, purges, drops
and failures: a run that found frames still finds some unless it is outdated (`FoundInv`), so a read that ends with
nothing was refused the first frame by `max_frame_length`, which does not wrap for its length (`RoomInv`), or has just taken
frames of which only the status was left.

*Registers.* An answer does not say who asked for it, so the invariant follows values, not requests: every value in the
adapter, in the pipe and among the answers carries the address it is of, and `CachedAt` sends it to the place of that
register only (`CacheTrue`). That the cache moves forward needs an order along the whole loop: the stamp in the cache of
a register is at most that of every answer for it, answers are sorted by stamp, none is newer than the adapter, and every write still in the
pipe is newer than the adapter's value and sorted too. The loss of an answer or of a request keeps all of it. For the non-volatile register the
invariant says that `fx2_firmware_rev` is 0 or the adapter's revision, which no command writes, and that a script or pipe
holds a command for that register only when the revision allows it.

*What settles.* A choice is on its way in one of three forms (`Applying`): still to be sent, last in the pipe, or in the
adapter; and unless the register is write-only a read follows it (`Refreshing`): to be sent, in the pipe behind every write,
or answered last. When all is quiet only the last form of each is left (`ApplyInv`; `NvInv` is the same for the
non-volatile register). For the clock, `ClockInv` says that each script that programs it restores the lines at its end and
that reads of FCR are sent only while they are at rest. If two sends fail in one behaviour the lines can be left high, so the
property is about behaviours in which nothing was lost, and says so.

*Lifecycle.* `DeviceInv` has a part about all ports and parts about each. `RegistrySound` bounds what the registry can
hold. `Counted` says that the numbers of ports that exist are below `instance` and distinct. Of each port,
`Built` relates the phase to the number of things made and to which callbacks can be pending: before the last step
only the answer with the revision is, and `AnswerNeeds` says that its completion takes no lock. `Alive` relates the pointers to
the phase and the number of starts: in the first life a frame is freed only after D0Exit stopped the reader, so whoever else
than a worker could use it is not enabled. `Legal` bounds the modifiers, and the conversions of stored values give the same
result at each start (`EachStartAsStored`). None of the properties is inductive without them.

Only model-checked: the liveness properties `FramesReachQueue`, `ReadsAnswered`, `PurgeReturns`, `SentOrDrifted` and
`ReadsComplete` (fairness is beyond the prover).

## 5. Not modelled

* Changing settings, caps and the mode while data moves, and what `synccom_port_frame_read` does when
  they change between its reads of them. Frames truncated at the cap with append_status off.
* Failures in `tx_frames`: a send that fails after its first chunk announces the size again (`isr.c:262`)
  and is counted in `writes_in_flight` (`isr.c:332`). Purging while chunks are in the data pipe.
* `ignore_timeout` beyond its value, the frame numbers (traces).
* The reserved register at address 0 in the registers: the answer to a read of it on the upper page is taken for
  the revision of the adapter (`isr.c:494`), which `RegsAssumption` leaves out.
* The life of USB request objects (`port.c:916` deletes one that deletes itself), the leak of the stream when `synccom_port_new`
  fails later (`device.c:139`), failed allocations outside the transmit path.
* The clock bits calculator: floating-point arithmetic over a large range, no state. The tools, which are clients,
  and tracing.

## 6. Plan

What would come next, in this order:

1. `SynccomSettings`: `synccom_port_frame_read` with settings and truncated frames that vary;
   abstract promise: a read of n bytes gets at most n (`docs/rx-multiple.md`).
2. Transmit failures: `tx_frames` with `MaxFailures = 1`, with the ways the transmitter stops named as
   `SentOrDrifted` does for the lost update.
