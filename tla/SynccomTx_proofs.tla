--------------------------- MODULE SynccomTx_proofs ---------------------------
(* What holds of SynccomTx for every value of its constants: its type        *)
(* invariant, the memory cap, the bound on what a data write reads, the      *)
(* exact byte estimate and, whatever is purged or fails, the order of the    *)
(* bytes on the wire; with neither purges nor failures, the frames on the    *)
(* wire, with which the transmit path implements FrameChannel.               *)
EXTENDS SynccomTx, SynccomFrame_proofs, SequenceTheorems

\* The program points at which oframe_worker holds the locks.
Holding == {"send", "load", "store", "command"}

\* The locks exclude: the worker that holds them is the one in lock, and the
\* frame it works on stays where it is.
LocksExclude ==
    /\ \A w \in Workers : worker[w].pc \in Holding => lock = w
    /\ lock # None => pending_oframe \in Oframes

\* The write being handled has a number left in the bound.
WritesBounded == evt.pc # "idle" => Len(accepted) + refused < MaxWrites

TypeInv == TypeOK /\ LocksExclude /\ WritesBounded /\ Counted(queued_oframes)

\* The usage that SyncComEvtIoWrite has read so far is not below what the
\* driver holds now: between its two locks frames only move from the queue to
\* the place it reads second, or leave.
UsageAhead ==
    /\ evt.pc = "pending" => queued_oframes.estimated_memory_usage <= evt.usage
    /\ evt.pc = "check" =>
          queued_oframes.estimated_memory_usage + PendingLength <= evt.usage

CapInv == TypeInv /\ UsageAhead /\ OutputWithinCap

\* Every frame of the path has a buffer that ends at a word.
BuffersFit ==
    /\ \A i \in DOMAIN queued_oframes.frames : Fits(queued_oframes.frames[i])
    /\ pending_oframe # None => Fits(pending_oframe)

----------------------------------------------------------------------------
(* What the actions write. *)

LEMMA FrameBytesFacts ==
    ASSUME NEW k \in 1..MaxWrites, NEW length \in Nat
    PROVE  FrameBytes(k, length) \in Seq(Bytes) /\ Len(FrameBytes(k, length)) = length
BY DEF FrameBytes, Bytes

LEMMA NewWriteFacts ==
    ASSUME NEW k \in 1..MaxWrites, NEW length \in Nat
    PROVE  LET frame == [AddData(NewFrame, FrameBytes(k, length)) EXCEPT !.frame_size = length]
           IN  frame \in Oframes /\ DataLength(frame) = length /\ Fits(frame)
BY FrameBytesFacts, FirstDataFacts DEF Oframes

LEMMA EmptyWriteFacts ==
    ASSUME NEW length \in Nat
    PROVE  LET frame == [NewFrame EXCEPT !.frame_size = length]
           IN  frame \in Oframes /\ DataLength(frame) = 0 /\ Fits(frame)
<1>1. <<>> \in Seq(Bytes) /\ Len(<<>>) = 0 /\ AddData(NewFrame, <<>>) = NewFrame
  BY DEF AddData
<1> QED
  BY <1>1, FirstDataFacts DEF Oframes

LEMMA ChunkFacts ==
    ASSUME TxAssumption, NEW frame \in Oframes
    PROVE  /\ TransmitLength(frame) \in Nat
           /\ Chunk(frame) \in Seq(Bytes)
           /\ RemoveData(frame, TransmitLength(frame)) \in Oframes
           /\ DataLength(RemoveData(frame, TransmitLength(frame))) <= DataLength(frame)
           /\ Fits(frame) => Fits(RemoveData(frame, TransmitLength(frame)))
<1>1. DataLength(frame) \in Nat /\ frame.data \in Seq(Bytes)
  BY DEF Oframes, Frames, DataLength
<1>2. Align4(DataLength(frame)) \in Nat
  BY <1>1, Align4Facts
<1>3. TransmitLength(frame) \in Nat
  BY <1>2 DEF TransmitLength, Least, TxAssumption
<1>4. Chunk(frame) \in Seq(Bytes)
  <2>1. Pad \in Bytes
    BY DEF Bytes
  <2>2. \A i \in 1..TransmitLength(frame) : i <= DataLength(frame) => frame.data[i] \in Bytes
    BY <1>1, <1>3 DEF DataLength
  <2> QED
    BY <1>3, <2>1, <2>2 DEF Chunk
<1> QED
  BY <1>3, <1>4, RemoveDataFacts DEF Oframes

----------------------------------------------------------------------------
(* The type invariant. *)

LEMMA TypeInit == ASSUME TxAssumption, Init PROVE TypeInv
<1>1. EmptyList \in Lists(Bytes)
  BY DEF EmptyList, Lists
<1>2. \A S : <<>> \in Seq(S)
  OBVIOUS
<1>3. queued_oframes \in Lists(Bytes) /\ Counted(queued_oframes)
      /\ queued_oframes.estimated_memory_usage >= 0
  BY <1>1, CountedEmpty, CountedFacts DEF Init
<1>4. evt \in [pc : {"idle", "queued", "pending", "check"}, length : Nat, usage : Int]
  BY DEF Init, IdleWrite
<1>5. worker \in [Workers -> WorkerStates]
  BY DEF Init, IdleWorker, WorkerStates
<1>6. /\ accepted \in Seq(Nat) /\ dataPipe \in Seq(Seq(Bytes)) /\ pipe \in Seq(Commands)
      /\ txFifo \in Seq(Bytes) /\ txSizes \in Seq(Nat) /\ sent \in Seq(Seq(Bytes))
  BY <1>2 DEF Init
<1>7. TypeOK
  <2>1. /\ completion \in [pc : {"idle", "store"}, loaded : Int]
        /\ bound \in [purges : Nat, failures : Nat]
    BY DEF Init
  <2> QED
    BY <1>3, <1>4, <1>5, <1>6, <2>1 DEF Init, TypeOK
<1>8. LocksExclude /\ WritesBounded
  BY DEF Init, LocksExclude, WritesBounded, Holding, IdleWrite, IdleWorker
<1> QED
  BY <1>3, <1>7, <1>8 DEF TypeInv

\* A worker that goes from one point to another, both with the locks or both
\* without, keeps the types and the exclusion.
LEMMA WorkerMoves ==
    ASSUME TypeInv, NEW w \in Workers, NEW state \in WorkerStates,
           worker' = [worker EXCEPT ![w] = state],
           state.pc \in Holding => worker[w].pc \in Holding,
           lock' = lock, pending_oframe' = pending_oframe
    PROVE  worker' \in [Workers -> WorkerStates] /\ LocksExclude'
BY DEF TypeInv, TypeOK, LocksExclude

LEMMA WorkerUpdates ==
    ASSUME NEW states \in [Workers -> WorkerStates], NEW w \in Workers, NEW first \in BOOLEAN,
           NEW pc \in {"idle", "check", "lock", "send", "load", "store", "command"}
    PROVE  /\ [states EXCEPT ![w].pc = pc] \in [Workers -> WorkerStates]
           /\ [states EXCEPT ![w].first = first, ![w].pc = pc] \in [Workers -> WorkerStates]
<1>1. [states[w] EXCEPT !.pc = pc] \in WorkerStates
  BY DEF WorkerStates
<1>2. [[states[w] EXCEPT !.first = first] EXCEPT !.pc = pc] \in WorkerStates
  BY DEF WorkerStates
<1>3. [states EXCEPT ![w].first = first, ![w].pc = pc]
        = [states EXCEPT ![w] = [[states[w] EXCEPT !.first = first] EXCEPT !.pc = pc]]
  OBVIOUS
<1>4. [states EXCEPT ![w].pc = pc] = [states EXCEPT ![w] = [states[w] EXCEPT !.pc = pc]]
  OBVIOUS
<1> HIDE DEF WorkerStates
<1> QED
  BY <1>1, <1>2, <1>3, <1>4

LEMMA BoundFacts ==
    ASSUME bound \in [purges : Nat, failures : Nat]
    PROVE  /\ [bound EXCEPT !.purges = @ + 1] \in [purges : Nat, failures : Nat]
           /\ [bound EXCEPT !.failures = @ + 1] \in [purges : Nat, failures : Nat]
OBVIOUS

LEMMA WireFacts ==
    ASSUME txFifo \in Seq(Bytes), txSizes \in Seq(Nat), sent \in Seq(Seq(Bytes)), WireFrame
    PROVE  txFifo' \in Seq(Bytes) /\ txSizes' \in Seq(Nat) /\ sent' \in Seq(Seq(Bytes))
<1> DEFINE size == Head(txSizes)
<1>1. txSizes # <<>> /\ Len(txFifo) >= Align4(size)
      /\ sent' = Append(sent, SubSeq(txFifo, 1, size))
      /\ txFifo' = SubSeq(txFifo, Align4(size) + 1, Len(txFifo))
      /\ txSizes' = Tail(txSizes)
  BY DEF WireFrame
<1>2. size \in Nat
  BY <1>1
<1> HIDE DEF size
<1>3. Align4(size) \in Nat /\ size <= Align4(size)
  BY <1>2, Align4Facts
<1>4. SubSeq(txFifo, 1, size) \in Seq(Bytes)
  BY <1>1, <1>2, <1>3
<1>5. SubSeq(txFifo, Align4(size) + 1, Len(txFifo)) \in Seq(Bytes)
  BY <1>3
<1> QED
  BY <1>1, <1>4, <1>5

\* One step per action of Next; the conjuncts an action leaves alone follow
\* from its UNCHANGED.
LEMMA TypeStep == ASSUME TxAssumption, TypeInv, [Next]_vars PROVE TypeInv'
<1> USE DEF TypeInv, TypeOK, WritesBounded,
            writeVars, queueVars, workerVars, usbVars, adapterVars
<1>1. CASE WriteArrives
  BY <1>1 DEF WriteArrives, WriteUnchanged, IdleWrite, TxAssumption, LocksExclude
<1>2. CASE WriteUsageQueued
  BY <1>2 DEF WriteUsageQueued, WriteUnchanged, Lists, LocksExclude
<1>3. CASE WriteUsagePending
  <2>1. PendingLength \in Nat
    BY DEF PendingLength, DataLength, Oframes, Frames
  <2>2. evt' \in [pc : {"idle", "queued", "pending", "check"}, length : Nat, usage : Int]
        /\ evt.pc # "idle"
    <3>1. evt.usage + PendingLength \in Int
      BY <2>1
    <3>2. evt' = [evt EXCEPT !.usage = evt.usage + PendingLength, !.pc = "check"] /\ evt.pc = "pending"
      BY <1>3 DEF WriteUsagePending
    <3> HIDE DEF PendingLength
    <3> QED
      BY <3>1, <3>2
  <2> QED
    BY <1>3, <2>2 DEF WriteUsagePending, WriteUnchanged, LocksExclude
<1>4. CASE WriteTooBig
  BY <1>4 DEF WriteTooBig, WriteUnchanged, Refuse, IdleWrite, LocksExclude
<1>5. CASE WriteQueue
  <2>1. Len(accepted) + 1 \in 1..MaxWrites /\ evt.length \in Nat
    BY <1>5 DEF WriteQueue, TxAssumption
  <2> DEFINE frame == AddData(NewFrame, FrameBytes(Len(accepted) + 1, evt.length))
             sized == [frame EXCEPT !.frame_size = evt.length]
  <2>2. sized \in Frames(Bytes)
    BY <2>1, NewWriteFacts DEF Oframes
  <2>3. queued_oframes' = AddFrame(queued_oframes, sized) /\ accepted' = Append(accepted, evt.length)
        /\ oframe_dpc' = TRUE
    BY <1>5 DEF WriteQueue, Accept
  <2> HIDE DEF frame, sized
  <2>4. queued_oframes' \in Lists(Bytes) /\ Counted(queued_oframes)'
        /\ queued_oframes'.estimated_memory_usage >= 0
    BY <2>2, <2>3, AddFrameFacts, CountedFacts
  <2>5. accepted' \in Seq(Nat)
    BY <2>1, <2>3
  <2> QED
    BY <1>5, <2>3, <2>4, <2>5 DEF WriteQueue, Accept, WriteUnchanged, IdleWrite, LocksExclude
<1>6. CASE WriteNoMemory
  <2>1. evt.length \in Nat
    OBVIOUS
  <2> DEFINE sized == [NewFrame EXCEPT !.frame_size = evt.length]
  <2>2. sized \in Frames(Bytes)
    BY <2>1, EmptyWriteFacts DEF Oframes
  <2>3. bound' \in [purges : Nat, failures : Nat]
    BY <1>6, BoundFacts DEF WriteNoMemory, Fail
  <2>4. CASE Refuse
    BY <1>6, <2>3, <2>4 DEF WriteNoMemory, Refuse, WriteUnchanged, IdleWrite, LocksExclude
  <2>5. CASE Accept(NewFrame)
    <3>1. queued_oframes' = AddFrame(queued_oframes, sized) /\ accepted' = Append(accepted, evt.length)
          /\ oframe_dpc' = TRUE /\ refused' = refused
      BY <2>5 DEF Accept
    <3> HIDE DEF sized
    <3>2. queued_oframes' \in Lists(Bytes) /\ Counted(queued_oframes)'
          /\ queued_oframes'.estimated_memory_usage >= 0
      BY <2>2, <3>1, AddFrameFacts, CountedFacts
    <3>3. accepted' \in Seq(Nat)
      BY <2>1, <3>1
    <3> QED
      BY <1>6, <2>3, <3>1, <3>2, <3>3 DEF WriteNoMemory, WriteUnchanged, IdleWrite, LocksExclude
  <2> QED
    BY <1>6, <2>4, <2>5 DEF WriteNoMemory
<1>7. CASE Timer
  BY <1>7 DEF Timer, LocksExclude
<1>8. ASSUME NEW w \in Workers, OframeStart(w) PROVE TypeInv'
  <2> DEFINE state == [worker[w] EXCEPT !.pc = "check"]
  <2>0. worker[w] \in WorkerStates
        /\ worker' = [worker EXCEPT ![w].pc = "check"]
    BY <1>8 DEF OframeStart
  <2>1. state \in WorkerStates /\ state.pc \notin Holding
    BY <2>0 DEF WorkerStates, Holding
  <2>3. worker' = [worker EXCEPT ![w] = state]
    BY <2>0
  <2>2. worker' \in [Workers -> WorkerStates] /\ LocksExclude'
    BY <1>8, <2>1, <2>3, WorkerMoves DEF OframeStart
  <2> QED
    BY <1>8, <2>2 DEF OframeStart, WorkerUnchanged
<1>9. ASSUME NEW w \in Workers, OframeCheck(w) PROVE TypeInv'
  <2> DEFINE state == [worker[w] EXCEPT !.pc = IF writes_in_flight > MaxPending THEN "idle" ELSE "lock"]
  <2>0. worker[w] \in WorkerStates
        /\ worker' = [worker EXCEPT ![w].pc = IF writes_in_flight > MaxPending THEN "idle" ELSE "lock"]
    BY <1>9 DEF OframeCheck
  <2>1. state \in WorkerStates /\ state.pc \notin Holding
    BY <2>0 DEF WorkerStates, Holding
  <2>3. worker' = [worker EXCEPT ![w] = state]
    BY <2>0
  <2>2. worker' \in [Workers -> WorkerStates] /\ LocksExclude'
    BY <1>9, <2>1, <2>3, WorkerMoves DEF OframeCheck
  <2> QED
    BY <1>9, <2>2 DEF OframeCheck, WorkerUnchanged
<1>10. ASSUME NEW w \in Workers, OframeTake(w) PROVE TypeInv'
  <2>1. CASE pending_oframe = None /\ IsEmptyList(queued_oframes)
    <3>1. worker' = [worker EXCEPT ![w] = IdleWorker] /\ IdleWorker \in WorkerStates
          /\ IdleWorker.pc \notin Holding
      BY <1>10, <2>1 DEF OframeTake, WorkerStates, Holding, IdleWorker
    <3>2. worker' \in [Workers -> WorkerStates] /\ LocksExclude'
      BY <1>10, <2>1, <3>1, WorkerMoves DEF OframeTake
    <3> QED
      BY <1>10, <2>1, <3>2 DEF OframeTake, WorkerUnchanged
  <2>2. CASE ~(pending_oframe = None /\ IsEmptyList(queued_oframes))
    <3>1. worker' \in [Workers -> WorkerStates]
      <4>1. worker' = [worker EXCEPT ![w].pc = "send"]
        BY <1>10, <2>2 DEF OframeTake
      <4> QED
        BY <4>1, WorkerUpdates
    <3>2. /\ pending_oframe' \in Oframes
          /\ queued_oframes' \in Lists(Bytes) /\ Counted(queued_oframes)'
          /\ queued_oframes'.estimated_memory_usage >= 0
      <4>1. CASE pending_oframe = None
        <5>1. pending_oframe' = PeekFront(queued_oframes)
              /\ queued_oframes' = RemoveFrame(queued_oframes) /\ ~IsEmptyList(queued_oframes)
          BY <1>10, <2>2, <4>1 DEF OframeTake
        <5> QED
          BY <5>1, RemoveFrameFacts, CountedFacts DEF Oframes
      <4>2. CASE pending_oframe # None
        BY <1>10, <4>2 DEF OframeTake
      <4> QED
        BY <4>1, <4>2
    <3>3. LocksExclude'
      BY <1>10, <2>2, <3>2 DEF OframeTake, LocksExclude
    <3> QED
      BY <1>10, <2>2, <3>1, <3>2, <3>3 DEF OframeTake, WorkerUnchanged
  <2> QED
    BY <2>1, <2>2
<1>11. ASSUME NEW w \in Workers, OframeEmpty(w) PROVE TypeInv'
  <2>1. worker' \in [Workers -> WorkerStates]
    BY <1>11 DEF OframeEmpty, WorkerStates, IdleWorker
  <2>2. LocksExclude'
    BY <1>11, TxAssumption DEF OframeEmpty, LocksExclude, Holding, IdleWorker, TxAssumption
  <2> QED
    BY <1>11, <2>1, <2>2 DEF OframeEmpty, WorkerUnchanged
<1>12. ASSUME NEW w \in Workers, OframeSend(w) PROVE TypeInv'
  <2>1. worker[w].pc \in Holding /\ lock = w /\ lock # None /\ pending_oframe \in Oframes
    BY <1>12 DEF OframeSend, LocksExclude, Holding, TxAssumption
  <2>2. /\ pending_oframe' \in Oframes
        /\ Chunk(pending_oframe) \in Seq(Bytes)
    BY <1>12, <2>1, ChunkFacts DEF OframeSend
  <2>3. worker' \in [Workers -> WorkerStates]
    BY <1>12, WorkerUpdates, ZenonT(30) DEF OframeSend, IsFirst
  <2>4. LocksExclude'
    BY <1>12, <2>1, <2>2 DEF OframeSend, LocksExclude, Holding
  <2>5. dataPipe' \in Seq(Seq(Bytes))
    BY <1>12, <2>2 DEF OframeSend
  <2> QED
    BY <1>12, <2>2, <2>3, <2>4, <2>5 DEF OframeSend, WorkerUnchanged
<1>13. ASSUME NEW w \in Workers, OframeSendFails(w) PROVE TypeInv'
  <2>1. PICK next \in {"load", "command"} :
          worker' = [worker EXCEPT ![w].first = IsFirst(pending_oframe), ![w].pc = next]
    BY <1>13 DEF OframeSendFails
  <2>2. worker' \in [Workers -> WorkerStates]
    BY <2>1, WorkerUpdates, ZenonT(30) DEF IsFirst
  <2>3. LocksExclude'
    BY <1>13, <2>1 DEF OframeSendFails, LocksExclude, Holding
  <2>4. bound' \in [purges : Nat, failures : Nat]
    BY <1>13, BoundFacts DEF OframeSendFails, Fail
  <2> QED
    BY <1>13, <2>2, <2>3, <2>4 DEF OframeSendFails, WorkerUnchanged
<1>14. ASSUME NEW w \in Workers, OframeLoad(w) PROVE TypeInv'
  <2> DEFINE state == [worker[w] EXCEPT !.loaded = writes_in_flight, !.pc = "store"]
  <2>1. worker[w] \in WorkerStates /\ worker[w].pc \in Holding
        /\ worker' = [worker EXCEPT ![w].loaded = writes_in_flight, ![w].pc = "store"]
    BY <1>14 DEF OframeLoad, Holding
  <2>2. state \in WorkerStates
    BY <2>1 DEF WorkerStates
  <2>3. worker' = [worker EXCEPT ![w] = state]
    BY <2>1
  <2>4. worker' \in [Workers -> WorkerStates] /\ LocksExclude'
    BY <1>14, <2>1, <2>2, <2>3, WorkerMoves DEF OframeLoad
  <2> QED
    BY <1>14, <2>4 DEF OframeLoad, WorkerUnchanged
<1>15. ASSUME NEW w \in Workers, OframeStore(w) PROVE TypeInv'
  <2> DEFINE state == [worker[w] EXCEPT !.pc = "command"]
  <2>0. worker[w] \in WorkerStates /\ worker[w].pc \in Holding
        /\ worker' = [worker EXCEPT ![w].pc = "command"]
    BY <1>15 DEF OframeStore, Holding
  <2>1. state \in WorkerStates
    BY <2>0 DEF WorkerStates
  <2>4. worker' = [worker EXCEPT ![w] = state]
    BY <2>0
  <2>2. worker' \in [Workers -> WorkerStates] /\ LocksExclude'
    BY <1>15, <2>0, <2>1, <2>4, WorkerMoves DEF OframeStore
  <2>3. writes_in_flight' \in Int
    <3>1. worker[w].loaded \in Int
      BY DEF WorkerStates
    <3>2. writes_in_flight' = worker[w].loaded + 1
      BY <1>15 DEF OframeStore
    <3> QED
      BY <3>1, <3>2
  <2> QED
    BY <1>15, <2>2, <2>3 DEF OframeStore, WorkerUnchanged
<1>16. ASSUME NEW w \in Workers, OframeCommand(w) PROVE TypeInv'
  <2>1. lock = w /\ lock # None /\ pending_oframe \in Oframes
    BY <1>16 DEF OframeCommand, LocksExclude, Holding, TxAssumption
  <2>2. worker' \in [Workers -> WorkerStates]
    BY <1>16 DEF OframeCommand, WorkerStates, IdleWorker
  <2>3. LocksExclude'
    BY <1>16, <2>1 DEF OframeCommand, LocksExclude, Holding, IdleWorker
  <2>4. pending_oframe' \in Oframes \cup {None}
    BY <1>16, <2>1 DEF OframeCommand
  <2> DEFINE size == [op |-> "BC_FIFO_L", value |-> pending_oframe.frame_size]
             count == [op |-> "FIFO_BC", value |-> 0]
             transmit == [op |-> "XF", value |-> 0]
             front == SizeCommand(worker[w].first)
  <2>5. size \in Commands /\ count \in Commands /\ transmit \in Commands
    BY <2>1 DEF Commands, Oframes, Frames
  <2>6. /\ pipe' = pipe \o front \o <<count, transmit>>
        /\ front = IF worker[w].first THEN <<size>> ELSE <<>>
    BY <1>16 DEF OframeCommand, SizeCommand, TransmitCommands
  <2> HIDE DEF size, count, transmit, front
  <2>7. front \in Seq(Commands) /\ <<count, transmit>> \in Seq(Commands)
    BY <2>5, <2>6
  <2>8. pipe' \in Seq(Commands)
    BY <2>6, <2>7
  <2> QED
    BY <1>16, <2>2, <2>3, <2>4, <2>8 DEF OframeCommand, WorkerUnchanged
<1>17. CASE DataArrives
  BY <1>17 DEF DataArrives, CompletionUnchanged, LocksExclude
<1>18. CASE TxCompletionLoad
  BY <1>18 DEF TxCompletionLoad, CompletionUnchanged, LocksExclude
<1>19. CASE TxCompletionStore
  BY <1>19 DEF TxCompletionStore, CompletionUnchanged, LocksExclude
<1>20. CASE Adapter
  <2>1. ASSUME NEW op, Execute(op)
        PROVE  Head(pipe) \in Commands /\ pipe' \in Seq(Commands)
    BY <2>1 DEF Execute
  <2>2. CASE ExecuteSize
    BY <2>1, <2>2 DEF ExecuteSize, AdapterUnchanged, Commands, LocksExclude
  <2>3. CASE ExecuteFifoCount
    BY <2>1, <2>3 DEF ExecuteFifoCount, AdapterUnchanged, LocksExclude
  <2>4. CASE ExecuteTransmit
    BY <2>1, <2>4 DEF ExecuteTransmit, AdapterUnchanged, LocksExclude
  <2>5. CASE ExecuteTransmitReset
    <3>1. txFifo' \in Seq(Bytes) /\ txSizes' \in Seq(Nat)
      BY <2>5 DEF ExecuteTransmitReset
    <3> QED
      BY <2>1, <2>5, <3>1 DEF ExecuteTransmitReset, AdapterUnchanged, LocksExclude
  <2>6. CASE WireFrame
    <3>1. txFifo' \in Seq(Bytes) /\ txSizes' \in Seq(Nat) /\ sent' \in Seq(Seq(Bytes))
      BY <2>6, WireFacts
    <3> QED
      BY <2>6, <3>1 DEF WireFrame, AdapterUnchanged, LocksExclude
  <2> QED
    BY <1>20, <2>2, <2>3, <2>4, <2>5, <2>6 DEF Adapter
<1>21. CASE PurgeReset
  <2>1. bound' \in [purges : Nat, failures : Nat]
    BY <1>21, BoundFacts DEF PurgeReset
  <2>2. pipe' \in Seq(Commands)
    BY <1>21 DEF PurgeReset, Commands
  <2> QED
    BY <1>21, <2>1, <2>2 DEF PurgeReset, PurgeUnchanged, LocksExclude
<1>22. CASE PurgeStep
  <2>1. CASE PurgeQueued
    <3>1. queued_oframes' \in Lists(Bytes) /\ Counted(queued_oframes)'
          /\ queued_oframes'.estimated_memory_usage >= 0
      <4>1. EmptyList \in Lists(Bytes)
        BY DEF EmptyList, Lists
      <4> QED
        BY <2>1, <4>1, CountedEmpty, CountedFacts DEF PurgeQueued
    <3> QED
      BY <2>1, <3>1 DEF PurgeQueued, PurgeUnchanged, LocksExclude
  <2>2. CASE PurgePending
    BY <2>2 DEF PurgePending, PurgeUnchanged, LocksExclude
  <2>3. CASE PurgeDrain
    BY <2>3 DEF PurgeDrain, PurgeUnchanged, LocksExclude
  <2> QED
    BY <1>22, <2>1, <2>2, <2>3 DEF PurgeStep
<1>23. CASE UNCHANGED vars
  BY <1>23 DEF vars, LocksExclude
<1> QED
  BY <1>1, <1>2, <1>3, <1>4, <1>5, <1>6, <1>7, <1>8, <1>9, <1>10, <1>11, <1>12, <1>13, <1>14,
     <1>15, <1>16, <1>17, <1>18, <1>19, <1>20, <1>21, <1>22, <1>23
  DEF Next, EvtIoWrite, oframe_worker, DataCompletion

\* Every variable keeps its type: no step of the transmit path reads a pending
\* frame that is not there or takes from a queue that is empty.
THEOREM TypeCorrect == Spec => []TypeOK
<1>1. Init => TypeInv
  BY TypeInit, TxAssumption
<1>2. TypeInv /\ [Next]_vars => TypeInv'
  BY TypeStep, TxAssumption
<1>3. TypeInv => TypeOK
  BY DEF TypeInv
<1> QED
  BY <1>1, <1>2, <1>3, PTL DEF Spec

\* The estimate of queued_oframes, which the memory cap is compared with, is
\* the sum of the lengths of its frames after every write, worker and purge
\* (add_frame, remove_frame and clear of flist.c).
THEOREM EstimateStaysExact == Spec => []QueuedEstimateExact
<1>1. Init => TypeInv
  BY TypeInit, TxAssumption
<1>2. TypeInv /\ [Next]_vars => TypeInv'
  BY TypeStep, TxAssumption
<1>3. TypeInv => QueuedEstimateExact
  BY EstimateIsTotal DEF TypeInv, TypeOK, QueuedEstimateExact
<1> QED
  BY <1>1, <1>2, <1>3, PTL DEF Spec

----------------------------------------------------------------------------
(* The memory cap. *)

\* A step of a write, which moves no frame, or of another actor, which adds none.
LEMMA UsageOnlyFalls ==
    ASSUME TxAssumption, TypeInv, TypeInv', UsageAhead, OutputWithinCap, evt' = evt,
           queued_oframes'.estimated_memory_usage <= queued_oframes.estimated_memory_usage,
           queued_oframes'.estimated_memory_usage + PendingLength'
              <= queued_oframes.estimated_memory_usage + PendingLength
    PROVE  UsageAhead' /\ OutputWithinCap'
<1>1. /\ PendingLength \in Nat /\ PendingLength' \in Nat
      /\ queued_oframes.estimated_memory_usage \in Nat
      /\ queued_oframes'.estimated_memory_usage \in Nat
  <2>1. PendingLength \in Nat
    BY DEF TypeInv, TypeOK, PendingLength, DataLength, Oframes, Frames
  <2>2. PendingLength' \in Nat
    BY DEF TypeInv, TypeOK, PendingLength, DataLength, Oframes, Frames
  <2>3. queued_oframes.estimated_memory_usage \in Nat
    BY CountedFacts DEF TypeInv, TypeOK
  <2>4. queued_oframes'.estimated_memory_usage \in Nat
    BY CountedFacts DEF TypeInv, TypeOK
  <2> QED
    BY <2>1, <2>2, <2>3, <2>4
<1>2. evt.usage \in Int
  BY DEF TypeInv, TypeOK
<1>3. OutputCap \in Nat
  BY DEF TxAssumption
<1> QED
  BY <1>1, <1>2, <1>3 DEF UsageAhead, OutputWithinCap

\* A write that is queued under the check of the cap.
LEMMA UsageAfterQueue ==
    ASSUME TxAssumption, TypeInv, UsageAhead, OutputWithinCap,
           evt.pc = "check", evt.usage + evt.length <= OutputCap, evt' = IdleWrite,
           pending_oframe' = pending_oframe,
           queued_oframes'.estimated_memory_usage
              <= queued_oframes.estimated_memory_usage + evt.length,
           queued_oframes'.estimated_memory_usage \in Int
    PROVE  UsageAhead' /\ OutputWithinCap'
<1>1. PendingLength \in Nat /\ PendingLength' = PendingLength
  BY DEF TypeInv, TypeOK, PendingLength, DataLength, Oframes, Frames
<1>2. evt.usage \in Int /\ evt.length \in Nat /\ queued_oframes.estimated_memory_usage \in Int
      /\ OutputCap \in Nat
  BY DEF TypeInv, TypeOK, Lists, TxAssumption
<1>3. queued_oframes.estimated_memory_usage + PendingLength <= evt.usage
  BY DEF UsageAhead
<1>4. evt'.pc = "idle"
  BY DEF IdleWrite
<1> QED
  BY <1>1, <1>2, <1>3, <1>4 DEF UsageAhead, OutputWithinCap

LEMMA CapInit == ASSUME TxAssumption, Init PROVE UsageAhead /\ OutputWithinCap
BY DEF Init, UsageAhead, OutputWithinCap, IdleWrite, EmptyList, PendingLength, TxAssumption

LEMMA CapStep ==
    ASSUME TxAssumption, TypeInv, TypeInv', UsageAhead, OutputWithinCap, [Next]_vars
    PROVE  UsageAhead' /\ OutputWithinCap'
<1> DEFINE queued == queued_oframes.estimated_memory_usage
<1>1. /\ queued \in Nat /\ queued' \in Nat
      /\ evt.usage \in Int /\ evt.length \in Nat /\ OutputCap \in Nat
  BY CountedFacts DEF TypeInv, TypeOK, TxAssumption
<1>2. PendingLength \in Nat /\ PendingLength' \in Nat
  <2>1. PendingLength \in Nat
    BY DEF TypeInv, TypeOK, PendingLength, DataLength, Oframes, Frames
  <2>2. PendingLength' \in Nat
    BY DEF TypeInv, TypeOK, PendingLength, DataLength, Oframes, Frames
  <2> QED
    BY <2>1, <2>2
<1>3. ASSUME evt' = evt, queued_oframes' = queued_oframes, pending_oframe' = pending_oframe
      PROVE  UsageAhead' /\ OutputWithinCap'
  BY <1>3 DEF UsageAhead, OutputWithinCap, PendingLength
<1>4. CASE WriteArrives
  BY <1>4 DEF WriteArrives, WriteUnchanged, IdleWrite, UsageAhead, OutputWithinCap, PendingLength
<1>5. CASE WriteUsageQueued
  <2>1. evt'.pc = "pending" /\ evt'.usage = queued /\ queued' = queued
        /\ pending_oframe' = pending_oframe
    BY <1>5 DEF WriteUsageQueued, WriteUnchanged, TypeInv, TypeOK
  <2> QED
    BY <2>1, <1>1 DEF UsageAhead, OutputWithinCap, PendingLength
<1>6. CASE WriteUsagePending
  <2>1. /\ evt.pc = "pending" /\ evt'.pc = "check" /\ evt'.usage = evt.usage + PendingLength
        /\ queued' = queued /\ pending_oframe' = pending_oframe
    BY <1>6 DEF WriteUsagePending, WriteUnchanged, TypeInv, TypeOK
  <2>2. PendingLength' = PendingLength
    BY <2>1 DEF PendingLength
  <2> QED
    BY <2>1, <2>2, <1>1, <1>2 DEF UsageAhead, OutputWithinCap
<1>7. CASE WriteTooBig
  BY <1>7 DEF WriteTooBig, Refuse, WriteUnchanged, IdleWrite, UsageAhead, OutputWithinCap,
              PendingLength
<1>8. CASE WriteQueue
  <2> DEFINE frame == AddData(NewFrame, FrameBytes(Len(accepted) + 1, evt.length))
             sized == [frame EXCEPT !.frame_size = evt.length]
  <2>1. Len(accepted) + 1 \in 1..MaxWrites
    <3>1. evt.pc # "idle" /\ Len(accepted) \in Nat /\ refused \in Nat /\ MaxWrites \in Nat
      BY <1>8 DEF WriteQueue, TxAssumption, TypeInv, TypeOK
    <3>2. Len(accepted) + refused < MaxWrites
      BY <3>1 DEF TypeInv, WritesBounded
    <3> QED
      BY <3>1, <3>2
  <2>2. sized \in Frames(Bytes) /\ DataLength(sized) = evt.length
    BY <2>1, <1>1, NewWriteFacts DEF Oframes
  <2>3. queued_oframes' = AddFrame(queued_oframes, sized)
    BY <1>8 DEF WriteQueue, Accept
  <2> HIDE DEF frame, sized
  <2>4. queued' = queued + evt.length
    <3>1. queued_oframes \in Lists(Bytes) /\ Counted(queued_oframes)
      BY DEF TypeInv, TypeOK
    <3> QED
      BY <3>1, <2>2, <2>3, AddFrameFacts
  <2> QED
    BY <1>8, <1>1, <2>4, UsageAfterQueue DEF WriteQueue, OverCap, WriteUnchanged
<1>9. CASE WriteNoMemory
  <2>1. CASE Refuse
    BY <1>9, <2>1 DEF WriteNoMemory, Refuse, WriteUnchanged, IdleWrite, UsageAhead,
                      OutputWithinCap, PendingLength
  <2>2. CASE Accept(NewFrame)
    <3> DEFINE sized == [NewFrame EXCEPT !.frame_size = evt.length]
    <3>1. sized \in Frames(Bytes) /\ DataLength(sized) = 0
      BY <1>1, EmptyWriteFacts DEF Oframes
    <3>2. queued_oframes' = AddFrame(queued_oframes, sized)
      BY <2>2 DEF Accept
    <3> HIDE DEF sized
    <3>3. queued' = queued
      <4>1. queued_oframes \in Lists(Bytes) /\ Counted(queued_oframes)
        BY DEF TypeInv, TypeOK
      <4>2. queued' = queued + DataLength(sized)
        BY <3>1, <3>2, <4>1, AddFrameFacts
      <4> QED
        BY <1>1, <3>1, <4>2
    <3> QED
      BY <1>9, <1>1, <3>3, UsageAfterQueue DEF WriteNoMemory, OverCap, WriteUnchanged
  <2> QED
    BY <1>9, <2>1, <2>2 DEF WriteNoMemory
<1>10. ASSUME NEW w \in Workers, OframeTake(w) PROVE UsageAhead' /\ OutputWithinCap'
  <2>1. evt' = evt
    BY <1>10 DEF OframeTake, WorkerUnchanged, writeVars
  <2>2. CASE pending_oframe = None /\ ~IsEmptyList(queued_oframes)
    <3> DEFINE first == PeekFront(queued_oframes)
    <3>1. pending_oframe' = first /\ queued_oframes' = RemoveFrame(queued_oframes)
      BY <1>10, <2>2 DEF OframeTake
    <3>2. queued' + DataLength(first) = queued /\ first \in Frames(Bytes)
      BY <2>2, <3>1, RemoveFrameFacts DEF TypeInv, TypeOK
    <3>3. DataLength(first) \in Nat
      BY <3>2 DEF Frames, DataLength
    <3>4. PendingLength = 0 /\ PendingLength' <= DataLength(first)
      BY <2>2, <3>1, <3>3 DEF PendingLength
    <3> QED
      BY <1>1, <1>2, <2>1, <3>2, <3>3, <3>4, UsageOnlyFalls
  <2>3. CASE ~(pending_oframe = None /\ ~IsEmptyList(queued_oframes))
    BY <1>3, <1>10, <2>1, <2>3 DEF OframeTake, queueVars
  <2> QED
    BY <2>2, <2>3
<1>11. ASSUME NEW w \in Workers, OframeSend(w) PROVE UsageAhead' /\ OutputWithinCap'
  <2>1. lock # None /\ pending_oframe \in Oframes
    BY <1>11 DEF OframeSend, TypeInv, LocksExclude, Holding, TxAssumption
  <2>2. /\ evt' = evt /\ queued_oframes' = queued_oframes
        /\ pending_oframe' = RemoveData(pending_oframe, TransmitLength(pending_oframe))
    BY <1>11 DEF OframeSend, WorkerUnchanged, writeVars
  <2>3. DataLength(pending_oframe') <= DataLength(pending_oframe) /\ pending_oframe' \in Oframes
    BY <2>1, <2>2, ChunkFacts
  <2>4. PendingLength' <= PendingLength
    <3>1. pending_oframe # None /\ pending_oframe' # None
      BY <2>1, <2>3 DEF TxAssumption, Oframes
    <3> QED
      BY <2>3, <3>1 DEF PendingLength
  <2> QED
    BY <1>1, <1>2, <2>2, <2>4, UsageOnlyFalls
<1>12. ASSUME NEW w \in Workers, OframeCommand(w) PROVE UsageAhead' /\ OutputWithinCap'
  <2>1. evt' = evt /\ queued_oframes' = queued_oframes
        /\ pending_oframe' \in {None, pending_oframe}
    BY <1>12 DEF OframeCommand, WorkerUnchanged, writeVars
  <2>2. PendingLength' <= PendingLength
    BY <1>2, <2>1 DEF PendingLength
  <2> QED
    BY <1>1, <1>2, <2>1, <2>2, UsageOnlyFalls
<1>13. CASE PurgeQueued
  <2>1. evt' = evt /\ queued' = 0 /\ pending_oframe' = pending_oframe
    BY <1>13 DEF PurgeQueued, PurgeUnchanged, writeVars, EmptyList
  <2>2. PendingLength' = PendingLength
    BY <2>1 DEF PendingLength
  <2> QED
    BY <1>1, <1>2, <2>1, <2>2, UsageOnlyFalls
<1>14. CASE PurgePending
  <2>1. evt' = evt /\ queued_oframes' = queued_oframes /\ PendingLength' = 0
    BY <1>14 DEF PurgePending, PurgeUnchanged, writeVars, PendingLength
  <2> QED
    BY <1>1, <1>2, <2>1, UsageOnlyFalls
<1>15. CASE \/ Timer \/ DataCompletion \/ Adapter \/ PurgeReset \/ PurgeDrain \/ UNCHANGED vars
            \/ \E w \in Workers : \/ OframeStart(w) \/ OframeCheck(w) \/ OframeEmpty(w)
                                  \/ OframeSendFails(w) \/ OframeLoad(w) \/ OframeStore(w)
  <2>1. evt' = evt /\ queued_oframes' = queued_oframes /\ pending_oframe' = pending_oframe
    BY <1>15
    DEF Timer, DataCompletion, DataArrives, TxCompletionLoad, TxCompletionStore,
        CompletionUnchanged, Adapter, ExecuteSize, ExecuteFifoCount, ExecuteTransmit,
        ExecuteTransmitReset, WireFrame, AdapterUnchanged, PurgeReset, PurgeDrain, PurgeUnchanged,
        OframeStart, OframeCheck, OframeEmpty, OframeSendFails, OframeLoad, OframeStore,
        WorkerUnchanged, vars, writeVars, queueVars
  <2> QED
    BY <1>3, <2>1
<1> QED
  BY <1>4, <1>5, <1>6, <1>7, <1>8, <1>9, <1>10, <1>11, <1>12, <1>13, <1>14, <1>15
  DEF Next, EvtIoWrite, oframe_worker, PurgeStep

\* The driver never holds more output than memory_cap.output: the two reads of
\* synccom_port_get_output_memory_usage may be overtaken by any number of
\* workers, but only downwards.
THEOREM CapHolds == Spec => []OutputWithinCap
<1>1. Init => TypeInv /\ UsageAhead /\ OutputWithinCap
  BY TypeInit, CapInit, TxAssumption
<1>2. TypeInv /\ UsageAhead /\ OutputWithinCap /\ [Next]_vars
        => (TypeInv /\ UsageAhead /\ OutputWithinCap)'
  BY TypeStep, CapStep, TxAssumption
<1> QED
  BY <1>1, <1>2, PTL DEF Spec

----------------------------------------------------------------------------
(* The buffers. *)

LEMMA BuffersInit == ASSUME TxAssumption, Init PROVE BuffersFit
<1>1. queued_oframes.frames = <<>> /\ pending_oframe = None
  BY DEF Init, EmptyList
<1> QED
  BY <1>1 DEF BuffersFit

\* A frame that joins the queue with a buffer that fits.
LEMMA BuffersAfterQueue ==
    ASSUME TypeInv, BuffersFit, NEW frame \in Frames(Bytes), Fits(frame),
           queued_oframes' = AddFrame(queued_oframes, frame), pending_oframe' = pending_oframe
    PROVE  BuffersFit'
<1>1. queued_oframes'.frames = Append(queued_oframes.frames, frame)
      /\ queued_oframes.frames \in Seq(Frames(Bytes))
  BY DEF AddFrame, TypeInv, TypeOK, Lists
<1>2. \A i \in DOMAIN queued_oframes'.frames :
         queued_oframes'.frames[i] = frame \/ \E j \in DOMAIN queued_oframes.frames :
                                                 queued_oframes'.frames[i] = queued_oframes.frames[j]
  BY <1>1
<1> QED
  BY <1>2 DEF BuffersFit

LEMMA BuffersStep ==
    ASSUME TxAssumption, TypeInv, BuffersFit, [Next]_vars
    PROVE  BuffersFit'
<1>1. CASE WriteQueue
  <2> DEFINE frame == AddData(NewFrame, FrameBytes(Len(accepted) + 1, evt.length))
             sized == [frame EXCEPT !.frame_size = evt.length]
  <2>1. Len(accepted) + 1 \in 1..MaxWrites /\ evt.length \in Nat
    <3>1. evt.pc # "idle" /\ Len(accepted) \in Nat /\ refused \in Nat /\ MaxWrites \in Nat
          /\ evt.length \in Nat
      BY <1>1 DEF WriteQueue, TxAssumption, TypeInv, TypeOK
    <3>2. Len(accepted) + refused < MaxWrites
      BY <3>1 DEF TypeInv, WritesBounded
    <3> QED
      BY <3>1, <3>2
  <2>2. sized \in Frames(Bytes) /\ Fits(sized)
    BY <2>1, NewWriteFacts DEF Oframes
  <2>3. queued_oframes' = AddFrame(queued_oframes, sized) /\ pending_oframe' = pending_oframe
    BY <1>1 DEF WriteQueue, Accept, WriteUnchanged
  <2> HIDE DEF frame, sized
  <2> QED
    BY <2>2, <2>3, BuffersAfterQueue
<1>2. CASE WriteNoMemory
  <2>1. CASE Refuse
    BY <1>2, <2>1 DEF WriteNoMemory, Refuse, WriteUnchanged, BuffersFit
  <2>2. CASE Accept(NewFrame)
    <3> DEFINE sized == [NewFrame EXCEPT !.frame_size = evt.length]
    <3>1. evt.length \in Nat
      BY DEF TypeInv, TypeOK
    <3>2. sized \in Frames(Bytes) /\ Fits(sized)
      BY <3>1, EmptyWriteFacts DEF Oframes
    <3>3. queued_oframes' = AddFrame(queued_oframes, sized) /\ pending_oframe' = pending_oframe
      BY <1>2, <2>2 DEF Accept, WriteNoMemory, WriteUnchanged
    <3> HIDE DEF sized
    <3> QED
      BY <3>2, <3>3, BuffersAfterQueue
  <2> QED
    BY <1>2, <2>1, <2>2 DEF WriteNoMemory
<1>3. ASSUME NEW w \in Workers, OframeTake(w) PROVE BuffersFit'
  <2>1. CASE pending_oframe = None /\ ~IsEmptyList(queued_oframes)
    <3>1. pending_oframe' = Head(queued_oframes.frames)
          /\ queued_oframes'.frames = Tail(queued_oframes.frames)
      BY <1>3, <2>1 DEF OframeTake, PeekFront, RemoveFrame
    <3>2. queued_oframes.frames \in Seq(Frames(Bytes)) /\ queued_oframes.frames # <<>>
      BY <2>1 DEF TypeInv, TypeOK, Lists, IsEmptyList
    <3>3. pending_oframe' = queued_oframes.frames[1] /\ 1 \in DOMAIN queued_oframes.frames
      BY <3>1, <3>2
    <3>4. \A i \in DOMAIN queued_oframes'.frames :
             i + 1 \in DOMAIN queued_oframes.frames
             /\ queued_oframes'.frames[i] = queued_oframes.frames[i + 1]
      BY <3>1, <3>2
    <3> QED
      BY <3>3, <3>4 DEF BuffersFit
  <2>2. CASE ~(pending_oframe = None /\ ~IsEmptyList(queued_oframes))
    BY <1>3, <2>2 DEF OframeTake, queueVars, BuffersFit
  <2> QED
    BY <2>1, <2>2
<1>4. ASSUME NEW w \in Workers, OframeSend(w) PROVE BuffersFit'
  <2>1. pending_oframe \in Oframes /\ pending_oframe # None
    BY <1>4 DEF OframeSend, TypeInv, LocksExclude, Holding, TxAssumption, Oframes
  <2>2. queued_oframes' = queued_oframes
        /\ pending_oframe' = RemoveData(pending_oframe, TransmitLength(pending_oframe))
    BY <1>4 DEF OframeSend
  <2>3. Fits(pending_oframe')
    BY <2>1, <2>2, ChunkFacts DEF BuffersFit
  <2> QED
    BY <2>2, <2>3 DEF BuffersFit
<1>5. ASSUME NEW w \in Workers, OframeCommand(w) PROVE BuffersFit'
  <2>1. queued_oframes' = queued_oframes /\ pending_oframe' \in {None, pending_oframe}
    BY <1>5 DEF OframeCommand
  <2> QED
    BY <2>1 DEF BuffersFit
<1>6. CASE PurgeQueued
  <2>1. queued_oframes'.frames = <<>> /\ pending_oframe' = pending_oframe
    BY <1>6 DEF PurgeQueued, EmptyList
  <2> QED
    BY <2>1 DEF BuffersFit
<1>7. CASE PurgePending
  BY <1>7 DEF PurgePending, BuffersFit
<1>8. CASE \/ Timer \/ DataCompletion \/ Adapter \/ PurgeReset \/ PurgeDrain \/ UNCHANGED vars
           \/ WriteArrives \/ WriteUsageQueued \/ WriteUsagePending \/ WriteTooBig
           \/ \E w \in Workers : \/ OframeStart(w) \/ OframeCheck(w) \/ OframeEmpty(w)
                                 \/ OframeSendFails(w) \/ OframeLoad(w) \/ OframeStore(w)
  <2>1. queued_oframes' = queued_oframes /\ pending_oframe' = pending_oframe
    BY <1>8
    DEF Timer, DataCompletion, DataArrives, TxCompletionLoad, TxCompletionStore,
        CompletionUnchanged, Adapter, ExecuteSize, ExecuteFifoCount, ExecuteTransmit,
        ExecuteTransmitReset, WireFrame, AdapterUnchanged, PurgeReset, PurgeDrain, PurgeUnchanged,
        WriteArrives, WriteUsageQueued, WriteUsagePending, WriteTooBig, Refuse, WriteUnchanged,
        OframeStart, OframeCheck, OframeEmpty, OframeSendFails, OframeLoad, OframeStore,
        WorkerUnchanged, vars, queueVars
  <2> QED
    BY <2>1 DEF BuffersFit
<1> QED
  BY <1>1, <1>2, <1>3, <1>4, <1>5, <1>6, <1>7, <1>8 DEF Next, EvtIoWrite, oframe_worker, PurgeStep

\* A data write never reads past the buffer of its frame: rounding the length
\* up to words stays within a buffer that ends at a word.
THEOREM TransmitStaysInBuffer == Spec => []TransmitWithinBuffer
<1>1. Init => TypeInv /\ BuffersFit
  BY TypeInit, BuffersInit, TxAssumption
<1>2. TypeInv /\ BuffersFit /\ [Next]_vars => (TypeInv /\ BuffersFit)'
  BY TypeStep, BuffersStep, TxAssumption
<1>3. TypeInv /\ BuffersFit => TransmitWithinBuffer
  <2> SUFFICES ASSUME TypeInv, BuffersFit, pending_oframe # None
               PROVE  TransmitLength(pending_oframe) <= pending_oframe.buffer_size
    BY DEF TransmitWithinBuffer
  <2> DEFINE n == DataLength(pending_oframe)
             m == pending_oframe.buffer_size
  <2>1. n \in Nat /\ m \in Nat
    BY DEF TypeInv, TypeOK, Oframes, Frames, DataLength
  <2>2. n <= m /\ m % 4 = 0
    BY DEF BuffersFit, Fits
  <2>3. Align4(n) \in Nat /\ Align4(n) <= m
    BY <2>1, <2>2, Align4Facts
  <2>4. TransmitLength(pending_oframe) <= Align4(n)
    BY <2>3, TxAssumption DEF TransmitLength, Least, TxAssumption
  <2>5. TransmitLength(pending_oframe) \in Int
    BY <2>3, TxAssumption DEF TransmitLength, Least, TxAssumption
  <2> QED
    BY <2>1, <2>3, <2>4, <2>5
<1> QED
  BY <1>1, <1>2, <1>3, PTL DEF Spec

----------------------------------------------------------------------------
(* The frames on the wire, when nothing fails and nothing is purged.         *)
(* Three facts make WireIntact inductive: a frame is cut at words            *)
(* (FramesCut), the sizes that travel in the pipe of commands are those of   *)
(* the writes, in order (SizesAnnounced), and each byte that travels in the  *)
(* data pipe has its place in the sequence of all words (BytesPlaced).       *)

Faultless == MaxPurges = 0 /\ MaxFailures = 0

\* How many of the accepted writes have left the queue of frames.
Taken == Len(accepted) - Len(queued_oframes.frames)

\* The program points at which a chunk of the pending frame is out and the
\* commands that belong to it are not.
Busy == {"load", "store", "command"}

\* What is left of frame k, of the given length: its last bytes, cut at a word.
Rest(frame, k, length) ==
    /\ frame.frame_size = length
    /\ DataLength(frame) <= length
    /\ DataLength(frame) > 0 => (length - DataLength(frame)) % 4 = 0
    /\ \A i \in 1..DataLength(frame) : frame.data[i] = <<k, length - DataLength(frame) + i>>

FramesCut ==
    /\ Taken \in Nat
    /\ \A k \in 1..Len(accepted) : accepted[k] \in WriteLengths \ {0}
    /\ evt.pc # "idle" => evt.length \in WriteLengths \ {0}
    /\ \A i \in 1..Len(queued_oframes.frames) :
          /\ queued_oframes.frames[i].frame_size = accepted[Taken + i]
          /\ queued_oframes.frames[i].data = FrameBytes(Taken + i, accepted[Taken + i])
    /\ pending_oframe # None => Taken >= 1 /\ Rest(pending_oframe, Taken, accepted[Taken])
    /\ \A w \in Workers : worker[w].pc \in Busy => PendingLength < accepted[Taken]

\* The size of a frame is announced after its first chunk went out.
Unannounced ==
    /\ pending_oframe # None
    /\ \/ PendingLength = accepted[Taken]
       \/ \E w \in Workers : worker[w].pc \in Busy /\ worker[w].first

Announced == IF Unannounced THEN Taken - 1 ELSE Taken

\* N[j] sizes have been announced up to command j, the one of frame N[j] last.
Counts(N, commands, lengths, from, to) ==
    /\ N \in [0..Len(commands) -> Nat] /\ N[0] = from /\ N[Len(commands)] = to
    /\ \A j \in 0..Len(commands) : N[j] <= to
    /\ \A j \in 1..Len(commands) :
          IF commands[j].op = "BC_FIFO_L"
          THEN N[j] = N[j - 1] + 1 /\ commands[j].value = lengths[N[j]]
          ELSE N[j] = N[j - 1]

SizesAnnounced ==
    /\ \A i \in 1..Len(txSizes) : txSizes[i] = accepted[Len(sent) + i]
    /\ \E N : Counts(N, pipe, accepted, Len(sent) + Len(txSizes), Announced)

\* W[k] is the number of bytes that the words of the first k frames hold.
Words(W, lengths) ==
    /\ W \in [0..Len(lengths) -> Nat] /\ W[0] = 0
    /\ \A k \in 1..Len(lengths) : W[k] = W[k - 1] + Align4(lengths[k])
    /\ \A k, l \in 0..Len(lengths) : k <= l => W[k] <= W[l]

\* The byte at place p of the sequence of all words.
At(W, lengths, p, byte) ==
    \E k \in 1..Len(lengths) : \E o \in 1..Align4(lengths[k]) :
        p = W[k - 1] + o /\ byte = IF o <= lengths[k] THEN <<k, o>> ELSE Pad

Laid(W, lengths, bytes, from) == \A i \in 1..Len(bytes) : At(W, lengths, from + i, bytes[i])

\* The chunks follow one another, chunk j from the place after D[j - 1].
Chunks(D, W, lengths, chunks, from, to) ==
    /\ D \in [0..Len(chunks) -> Nat] /\ D[0] = from /\ D[Len(chunks)] = to
    /\ \A j \in 1..Len(chunks) :
          D[j] = D[j - 1] + Len(chunks[j]) /\ Laid(W, lengths, chunks[j], D[j - 1])

Placed(W) ==
    /\ Words(W, accepted)
    /\ Laid(W, accepted, txFifo, W[Len(sent)])
    /\ \E D : Chunks(D, W, accepted, dataPipe,
                     W[Len(sent)] + Len(txFifo), W[Taken] - Align4(PendingLength))

BytesPlaced == \E W : Placed(W)

\* No purge is under way and no reset on its way to the adapter.
NoReset == purge = "idle" /\ \A j \in 1..Len(pipe) : pipe[j].op # "TRES"

OrderInv == NoReset /\ FramesCut /\ SizesAnnounced /\ BytesPlaced /\ WireIntact

----------------------------------------------------------------------------
(* Words, places and counts. *)

LEMMA AppendIndexes ==
    ASSUME NEW S, NEW q \in Seq(S), NEW x \in S
    PROVE  /\ Append(q, x) \in Seq(S) /\ Len(Append(q, x)) = Len(q) + 1
           /\ Append(q, x)[Len(q) + 1] = x
           /\ \A i \in 1..Len(q) : Append(q, x)[i] = q[i]
OBVIOUS

LEMMA TailIndexes ==
    ASSUME NEW S, NEW q \in Seq(S), q # <<>>
    PROVE  /\ Head(q) = q[1] /\ Head(q) \in S /\ Len(q) >= 1
           /\ Tail(q) \in Seq(S) /\ Len(Tail(q)) = Len(q) - 1
           /\ \A i \in 1..Len(q) - 1 : Tail(q)[i] = q[i + 1]
OBVIOUS

\* Cutting a frame at a word cuts as much from its words.
LEMMA AlignCut ==
    ASSUME NEW n \in Nat, NEW m \in Nat, m <= n, (n - m) % 4 = 0
    PROVE  Align4(n) - Align4(m) = n - m
<1>1. n % 4 = m % 4
  OBVIOUS
<1> QED
  BY <1>1 DEF Align4

\* What a data write takes from n bytes and from their words.
LEMMA ChunkCut ==
    ASSUME NEW n \in Nat, n > 0, NEW space \in Nat, space > 0, space % 4 = 0
    PROVE  LET t == Least(Align4(n), space)
               m == n - Least(t, n)
           IN  /\ t \in Nat /\ t > 0 /\ t <= Align4(n)
               /\ m \in Nat /\ m < n /\ Align4(m) = Align4(n) - t
               /\ m > 0 => t % 4 = 0 /\ m = n - t
<1> DEFINE t == Least(Align4(n), space)
           m == n - Least(t, n)
<1>1. Align4(n) \in Nat /\ n <= Align4(n) /\ Align4(n) % 4 = 0
      /\ (n <= space => Align4(n) <= space)
  BY Align4Facts
<1>2. t \in Nat /\ t > 0 /\ t <= Align4(n)
  BY <1>1 DEF Least
<1>3. CASE Align4(n) <= space
  <2>1. t = Align4(n) /\ m = 0
    BY <1>1, <1>3 DEF Least
  <2>2. Align4(0) = 0
    BY DEF Align4
  <2> HIDE DEF t, m
  <2>3. Align4(m) = Align4(n) - t
    BY <1>1, <2>1, <2>2
  <2> QED
    BY <1>1, <1>2, <2>1, <2>3 DEF t, m
<1>4. CASE ~(Align4(n) <= space)
  <2>1. t = space /\ space < n
    BY <1>1, <1>4 DEF Least
  <2>2. m = n - t /\ m \in Nat /\ m <= n
    BY <2>1 DEF Least
  <2> HIDE DEF t, m
  <2>3. (n - m) % 4 = 0 /\ n - m = t /\ t % 4 = 0
    BY <1>2, <2>1, <2>2
  <2>4. Align4(n) - Align4(m) = n - m
    BY <2>2, <2>3, AlignCut
  <2>5. Align4(m) \in Nat
    BY <2>2, Align4Facts
  <2>6. Align4(m) = Align4(n) - t
    BY <1>1, <1>2, <2>3, <2>4, <2>5
  <2> QED
    BY <1>2, <2>1, <2>2, <2>3, <2>6 DEF t, m
<1> QED
  BY <1>3, <1>4

\* A place belongs to one byte of one frame.
LEMMA PlaceUnique ==
    ASSUME NEW lengths \in Seq(Nat), NEW W, Words(W, lengths),
           NEW k \in 1..Len(lengths), NEW o \in 1..Align4(lengths[k]),
           NEW l \in 1..Len(lengths), NEW p \in 1..Align4(lengths[l]),
           W[k - 1] + o = W[l - 1] + p
    PROVE  k = l /\ o = p
<1> DEFINE size(f) == Align4(lengths[f])
<1>1. \A f \in 1..Len(lengths) : size(f) \in Nat
  <2> TAKE f \in 1..Len(lengths)
  <2>1. lengths[f] \in Nat
    OBVIOUS
  <2> QED
    BY <2>1, Align4Facts
<1>2. /\ \A f \in 0..Len(lengths) : W[f] \in Nat
      /\ \A f \in 1..Len(lengths) : W[f] = W[f - 1] + size(f)
      /\ \A f, g \in 0..Len(lengths) : f <= g => W[f] <= W[g]
  BY DEF Words
<1> HIDE DEF size
<1>3. ASSUME NEW f \in 1..Len(lengths), NEW g \in 1..Len(lengths),
             NEW x \in 1..size(f), NEW y \in 1..size(g), W[f - 1] + x = W[g - 1] + y
      PROVE  ~(f < g)
  <2> SUFFICES ASSUME f < g PROVE FALSE
    OBVIOUS
  <2>1. /\ f - 1 \in 0..Len(lengths) /\ g - 1 \in 0..Len(lengths) /\ f \in 0..Len(lengths)
        /\ f <= g - 1
    BY SMTT(30)
  <2>2. /\ W[f - 1] \in Nat /\ W[g - 1] \in Nat /\ W[f] = W[f - 1] + size(f)
        /\ W[f] <= W[g - 1]
    BY <1>2, <2>1
  <2>3. size(f) \in Nat /\ size(g) \in Nat
    BY <1>1
  <2>4. x \in Nat /\ x <= size(f) /\ y \in Nat /\ y >= 1
    BY <2>3
  <2> DEFINE here == W[f - 1]
             there == W[g - 1]
             next == W[f]
             most == size(f)
  <2>5. here \in Nat /\ there \in Nat /\ next = here + most /\ next <= there /\ most \in Nat
    BY <2>2, <2>3
  <2>6. here + x = there + y /\ x <= most
    BY <1>3, <2>4
  <2> HIDE DEF here, there, next, most
  <2> QED
    BY <2>4, <2>5, <2>6
<1>4. o \in 1..size(k) /\ p \in 1..size(l)
  BY DEF size
<1>5. ~(k < l) /\ ~(l < k)
  BY <1>3, <1>4
<1>6. k = l
  BY <1>5
<1>7. W[k - 1] \in Nat /\ size(k) \in Nat
  BY <1>1, <1>2
<1> QED
  BY <1>4, <1>6, <1>7

\* One more write: the places of the others stay.
LEMMA WordsExtend ==
    ASSUME NEW lengths \in Seq(Nat), NEW x \in Nat, NEW W, Words(W, lengths)
    PROVE  \E V : Words(V, Append(lengths, x)) /\ \A k \in 0..Len(lengths) : V[k] = W[k]
<1> DEFINE n == Len(lengths)
           longer == Append(lengths, x)
           V == [k \in 0..n + 1 |-> IF k = n + 1 THEN W[n] + Align4(x) ELSE W[k]]
<1>1. n \in Nat /\ Align4(x) \in Nat
  BY Align4Facts
<1>2. Len(longer) = n + 1 /\ longer[n + 1] = x /\ \A i \in 1..n : longer[i] = lengths[i]
  BY AppendIndexes
<1>3. /\ W[0] = 0 /\ \A k \in 0..n : W[k] \in Nat
      /\ \A k \in 1..n : W[k] = W[k - 1] + Align4(lengths[k])
      /\ \A k, l \in 0..n : k <= l => W[k] <= W[l]
  BY DEF Words
<1>4. /\ V \in [0..n + 1 -> Nat] /\ V[n + 1] = W[n] + Align4(x)
      /\ \A k \in 0..n : V[k] = W[k]
  <2>1. W[n] + Align4(x) \in Nat
    BY <1>1, <1>3
  <2>2. \A k \in 0..n + 1 : k = n + 1 \/ (k \in 0..n /\ k # n + 1)
    BY <1>1
  <2>3. \A k \in 0..n : k \in 0..n + 1 /\ k # n + 1
    BY <1>1
  <2>4. n + 1 \in 0..n + 1
    BY <1>1
  <2> HIDE DEF n
  <2> QED
    BY <1>3, <2>1, <2>2, <2>3, <2>4
<1> HIDE DEF n, V, longer
<1>5. ASSUME NEW k \in 1..n + 1 PROVE V[k] = V[k - 1] + Align4(longer[k])
  <2>1. CASE k = n + 1
    <3>1. k - 1 = n /\ n \in 0..n
      BY <1>1, <2>1
    <3> QED
      BY <1>2, <1>4, <2>1, <3>1
  <2>2. CASE k # n + 1
    <3>1. k \in 1..n /\ k \in 0..n /\ k - 1 \in 0..n
      BY <1>1, <2>2
    <3> QED
      BY <1>2, <1>3, <1>4, <3>1
  <2> QED
    BY <2>1, <2>2
<1>6. ASSUME NEW k \in 0..n + 1, NEW l \in 0..n + 1, k <= l PROVE V[k] <= V[l]
  <2>1. CASE l \in 0..n
    <3>1. k \in 0..n
      BY <1>1, <1>6, <2>1
    <3> QED
      BY <1>3, <1>4, <1>6, <2>1, <3>1
  <2>2. CASE l = n + 1 /\ k \in 0..n
    <3>1. n \in 0..n /\ k <= n
      BY <1>1, <2>2
    <3>2. W[k] <= W[n] /\ W[k] \in Nat /\ W[n] \in Nat
      BY <1>3, <2>2, <3>1
    <3> QED
      BY <1>1, <1>4, <2>2, <3>2
  <2>3. CASE l = n + 1 /\ k = n + 1
    BY <1>4, <2>3
  <2> QED
    BY <1>1, <2>1, <2>2, <2>3
<1>7. V[0] = 0
  BY <1>1, <1>3, <1>4
<1>8. Words(V, longer)
  BY <1>2, <1>4, <1>5, <1>6, <1>7 DEF Words
<1> QED
  BY <1>4, <1>8 DEF n, longer

LEMMA LaidExtend ==
    ASSUME NEW lengths \in Seq(Nat), NEW x \in Nat, NEW W, NEW V, NEW bytes, NEW from,
           \A k \in 0..Len(lengths) : V[k] = W[k], Laid(W, lengths, bytes, from)
    PROVE  Laid(V, Append(lengths, x), bytes, from)
<1> DEFINE longer == Append(lengths, x)
<1>1. Len(lengths) \in Nat /\ Len(longer) = Len(lengths) + 1
      /\ \A i \in 1..Len(lengths) : longer[i] = lengths[i]
  BY AppendIndexes
<1> HIDE DEF longer
<1>2. ASSUME NEW p, NEW byte, At(W, lengths, p, byte) PROVE At(V, longer, p, byte)
  <2>1. PICK k \in 1..Len(lengths) : \E o \in 1..Align4(lengths[k]) :
          p = W[k - 1] + o /\ byte = IF o <= lengths[k] THEN <<k, o>> ELSE Pad
    BY <1>2 DEF At
  <2>2. k \in 1..Len(longer) /\ longer[k] = lengths[k] /\ V[k - 1] = W[k - 1]
    BY <1>1
  <2> QED
    BY <2>1, <2>2 DEF At
<1> QED
  BY <1>2 DEF Laid, longer

LEMMA LaidConcat ==
    ASSUME NEW S, NEW s \in Seq(S), NEW t \in Seq(S), NEW W, NEW lengths, NEW from \in Nat,
           Laid(W, lengths, s, from), Laid(W, lengths, t, from + Len(s))
    PROVE  Laid(W, lengths, s \o t, from)
<1> DEFINE n == Len(s)
<1>1. n \in Nat /\ Len(t) \in Nat /\ Len(s \o t) = n + Len(t)
      /\ (\A i \in 1..n : (s \o t)[i] = s[i])
      /\ \A i \in 1..Len(t) : (s \o t)[n + i] = t[i]
  BY ConcatProperties
<1> SUFFICES ASSUME NEW i \in 1..Len(s \o t) PROVE At(W, lengths, from + i, (s \o t)[i])
  BY DEF Laid
<1>2. CASE i \in 1..n
  BY <1>1, <1>2 DEF Laid
<1>3. CASE i \notin 1..n
  <2>1. i - n \in 1..Len(t) /\ n + (i - n) = i /\ (from + n) + (i - n) = from + i
    BY <1>1, <1>3
  <2>2. (s \o t)[i] = t[i - n]
    BY <1>1, <2>1
  <2>3. At(W, lengths, (from + n) + (i - n), t[i - n])
    BY <2>1 DEF Laid
  <2> QED
    BY <2>1, <2>2, <2>3
<1> QED
  BY <1>2, <1>3

LEMMA LaidRest ==
    ASSUME NEW S, NEW s \in Seq(S), NEW c \in Nat, c <= Len(s), NEW W, NEW lengths,
           NEW from \in Nat, Laid(W, lengths, s, from)
    PROVE  Laid(W, lengths, SubSeq(s, c + 1, Len(s)), from + c)
<1> DEFINE rest == SubSeq(s, c + 1, Len(s))
<1>1. Len(s) \in Nat /\ Len(rest) = Len(s) - c
      /\ \A i \in 1..Len(s) - c : rest[i] = s[c + i]
  OBVIOUS
<1> HIDE DEF rest
<1> SUFFICES ASSUME NEW i \in 1..Len(rest) PROVE At(W, lengths, (from + c) + i, rest[i])
  BY DEF Laid, rest
<1>2. c + i \in 1..Len(s) /\ from + (c + i) = (from + c) + i /\ rest[i] = s[c + i]
  BY <1>1
<1>3. At(W, lengths, from + (c + i), s[c + i])
  BY <1>2 DEF Laid
<1> QED
  BY <1>2, <1>3

\* What the adapter takes for frame k, once it has all its words, is frame k.
LEMMA FrontFrame ==
    ASSUME NEW lengths \in Seq(Nat), NEW W, Words(W, lengths), NEW k \in 1..Len(lengths),
           NEW S, NEW s \in Seq(S), Len(s) >= Align4(lengths[k]), Laid(W, lengths, s, W[k - 1])
    PROVE  SubSeq(s, 1, lengths[k]) = FrameBytes(k, lengths[k])
<1> DEFINE n == lengths[k]
<1>0. n \in Nat
  OBVIOUS
<1>1. n \in Nat /\ Align4(n) \in Nat /\ n <= Align4(n)
  BY <1>0, Align4Facts
<1> HIDE DEF n
<1>2. ASSUME NEW i \in 1..n PROVE s[i] = <<k, i>>
  <2>1. i \in 1..Len(s) /\ i \in 1..Align4(n)
    BY <1>1 DEF n
  <2>2. At(W, lengths, W[k - 1] + i, s[i])
    BY <2>1 DEF Laid
  <2>3. PICK l \in 1..Len(lengths) : \E o \in 1..Align4(lengths[l]) :
          W[k - 1] + i = W[l - 1] + o /\ s[i] = IF o <= lengths[l] THEN <<l, o>> ELSE Pad
    BY <2>2 DEF At
  <2>4. PICK o \in 1..Align4(lengths[l]) :
          W[k - 1] + i = W[l - 1] + o /\ s[i] = IF o <= lengths[l] THEN <<l, o>> ELSE Pad
    BY <2>3
  <2>5. i \in 1..Align4(lengths[k])
    BY <2>1 DEF n
  <2>6. k = l /\ i = o
    BY <2>4, <2>5, PlaceUnique
  <2>7. i <= lengths[k]
    BY <1>1 DEF n
  <2> QED
    BY <2>4, <2>6, <2>7
<1>3. SubSeq(s, 1, n) = [i \in 1..n |-> s[i]]
  BY <1>1 DEF n
<1> QED
  BY <1>2, <1>3 DEF FrameBytes, n

LEMMA ChunksExtend ==
    ASSUME NEW lengths \in Seq(Nat), NEW x \in Nat, NEW W, NEW V, NEW D, NEW chunks,
           NEW from, NEW to,
           \A k \in 0..Len(lengths) : V[k] = W[k], Chunks(D, W, lengths, chunks, from, to)
    PROVE  Chunks(D, V, Append(lengths, x), chunks, from, to)
<1>1. \A j \in 1..Len(chunks) : Laid(V, Append(lengths, x), chunks[j], D[j - 1])
  BY LaidExtend DEF Chunks
<1> QED
  BY <1>1 DEF Chunks

LEMMA ChunksAppend ==
    ASSUME NEW S, NEW chunks \in Seq(Seq(S)), NEW chunk \in Seq(S), NEW W, NEW lengths,
           NEW D, NEW from, NEW to \in Nat, Chunks(D, W, lengths, chunks, from, to),
           Laid(W, lengths, chunk, to)
    PROVE  \E E : Chunks(E, W, lengths, Append(chunks, chunk), from, to + Len(chunk))
<1> DEFINE n == Len(chunks)
           longer == Append(chunks, chunk)
           E == [j \in 0..n + 1 |-> IF j = n + 1 THEN to + Len(chunk) ELSE D[j]]
<1>1. n \in Nat /\ Len(chunk) \in Nat /\ Len(longer) = n + 1 /\ longer[n + 1] = chunk
      /\ \A i \in 1..n : longer[i] = chunks[i]
  <2> DEFINE T == Seq(S)
  <2>1. chunks \in Seq(T) /\ chunk \in T
    OBVIOUS
  <2>2. Len(chunk) \in Nat
    OBVIOUS
  <2> HIDE DEF T
  <2>3. Len(chunks) \in Nat
    BY <2>1
  <2> QED
    BY <2>1, <2>2, <2>3, AppendIndexes
<1>2. /\ \A j \in 0..n : D[j] \in Nat
      /\ D[0] = from /\ D[n] = to
      /\ \A j \in 1..n : D[j] = D[j - 1] + Len(chunks[j]) /\ Laid(W, lengths, chunks[j], D[j - 1])
  BY DEF Chunks
<1>3. /\ E \in [0..n + 1 -> Nat] /\ E[n + 1] = to + Len(chunk)
      /\ \A j \in 0..n : E[j] = D[j]
  BY <1>1, <1>2
<1>4. E[0] = from
  BY <1>1, <1>2, <1>3
<1> HIDE DEF n, longer, E
<1>5. ASSUME NEW j \in 1..n + 1
      PROVE  E[j] = E[j - 1] + Len(longer[j]) /\ Laid(W, lengths, longer[j], E[j - 1])
  <2>1. CASE j = n + 1
    <3>1. j - 1 = n /\ n \in 0..n
      BY <1>1, <2>1
    <3>2. E[j - 1] = to /\ longer[j] = chunk /\ E[j] = to + Len(chunk)
      BY <1>1, <1>2, <1>3, <2>1, <3>1
    <3> QED
      BY <3>2
  <2>2. CASE j # n + 1
    <3>1. j \in 1..n /\ j \in 0..n /\ j - 1 \in 0..n
      BY <1>1, <2>2
    <3> QED
      BY <1>1, <1>2, <1>3, <3>1
  <2> QED
    BY <2>1, <2>2
<1>6. Chunks(E, W, lengths, longer, from, to + Len(chunk))
  BY <1>1, <1>3, <1>4, <1>5 DEF Chunks
<1> QED
  BY <1>6 DEF longer

LEMMA ChunksTail ==
    ASSUME NEW S, NEW chunks \in Seq(Seq(S)), chunks # <<>>, NEW W, NEW lengths,
           NEW D, NEW from, NEW to, Chunks(D, W, lengths, chunks, from, to)
    PROVE  /\ Laid(W, lengths, Head(chunks), from)
           /\ \E E : Chunks(E, W, lengths, Tail(chunks), from + Len(Head(chunks)), to)
<1> DEFINE n == Len(chunks)
           shorter == Tail(chunks)
           E == [j \in 0..n - 1 |-> D[j + 1]]
<1>1. n \in Nat /\ n >= 1 /\ Head(chunks) = chunks[1] /\ Len(shorter) = n - 1
      /\ \A i \in 1..n - 1 : shorter[i] = chunks[i + 1]
  <2> DEFINE T == Seq(S)
  <2>1. chunks \in Seq(T)
    OBVIOUS
  <2> HIDE DEF T
  <2>2. Len(chunks) \in Nat
    BY <2>1
  <2> QED
    BY <2>1, <2>2, TailIndexes
<1>2. /\ \A j \in 0..n : D[j] \in Nat
      /\ D[0] = from /\ D[n] = to
      /\ \A j \in 1..n : D[j] = D[j - 1] + Len(chunks[j]) /\ Laid(W, lengths, chunks[j], D[j - 1])
  BY DEF Chunks
<1>3. /\ E \in [0..n - 1 -> Nat] /\ \A j \in 0..n - 1 : E[j] = D[j + 1]
  BY <1>1, <1>2
<1> HIDE DEF n, shorter, E
<1>4. 1 \in 1..n /\ 1 - 1 = 0 /\ 0 \in 0..n - 1 /\ 0 + 1 = 1 /\ n - 1 \in 0..n - 1
      /\ (n - 1) + 1 = n
  BY <1>1
<1>5. D[1] = from + Len(Head(chunks)) /\ Laid(W, lengths, Head(chunks), from)
  BY <1>1, <1>2, <1>4
<1>6. E[0] = from + Len(Head(chunks)) /\ E[n - 1] = to
  BY <1>2, <1>3, <1>4, <1>5
<1>7. ASSUME NEW j \in 1..n - 1
      PROVE  E[j] = E[j - 1] + Len(shorter[j]) /\ Laid(W, lengths, shorter[j], E[j - 1])
  <2>1. j \in 0..n - 1 /\ j - 1 \in 0..n - 1 /\ (j - 1) + 1 = j /\ j + 1 \in 1..n
        /\ (j + 1) - 1 = j
    BY <1>1
  <2>2. E[j] = D[j + 1] /\ E[j - 1] = D[j] /\ shorter[j] = chunks[j + 1]
    BY <1>1, <1>3, <2>1
  <2>3. D[j + 1] = D[j] + Len(chunks[j + 1]) /\ Laid(W, lengths, chunks[j + 1], D[j])
    BY <1>2, <2>1
  <2> QED
    BY <2>2, <2>3
<1>8. Chunks(E, W, lengths, shorter, from + Len(Head(chunks)), to)
  BY <1>1, <1>3, <1>6, <1>7 DEF Chunks
<1> QED
  BY <1>5, <1>8 DEF shorter

LEMMA CountsExtend ==
    ASSUME NEW lengths \in Seq(Nat), NEW x \in Nat, NEW N, NEW commands, NEW from, NEW to \in Nat,
           to <= Len(lengths), Len(commands) \in Nat, Counts(N, commands, lengths, from, to)
    PROVE  Counts(N, commands, Append(lengths, x), from, to)
<1>1. Len(lengths) \in Nat /\ \A i \in 1..Len(lengths) : Append(lengths, x)[i] = lengths[i]
  BY AppendIndexes
<1>2. ASSUME NEW j \in 1..Len(commands), commands[j].op = "BC_FIFO_L"
      PROVE  Append(lengths, x)[N[j]] = lengths[N[j]]
  <2>1. j \in 0..Len(commands) /\ j - 1 \in 0..Len(commands)
    OBVIOUS
  <2>2. N[j] = N[j - 1] + 1 /\ N[j] <= to /\ N[j] \in Nat /\ N[j - 1] \in Nat
    BY <1>2, <2>1 DEF Counts
  <2>3. N[j] \in 1..Len(lengths)
    BY <1>1, <2>2
  <2> QED
    BY <1>1, <2>3
<1> QED
  BY <1>2 DEF Counts

LEMMA CountsAppend ==
    ASSUME NEW S, NEW commands \in Seq(S), NEW command \in S, NEW lengths, NEW N,
           NEW from, NEW to \in Nat, NEW more \in Nat, Counts(N, commands, lengths, from, to),
           IF command.op = "BC_FIFO_L"
           THEN more = to + 1 /\ command.value = lengths[more]
           ELSE more = to
    PROVE  \E M : Counts(M, Append(commands, command), lengths, from, more)
<1> DEFINE n == Len(commands)
           longer == Append(commands, command)
           M == [j \in 0..n + 1 |-> IF j = n + 1 THEN more ELSE N[j]]
<1>1. n \in Nat /\ Len(longer) = n + 1 /\ longer[n + 1] = command
      /\ \A i \in 1..n : longer[i] = commands[i]
  BY AppendIndexes
<1>2. /\ \A j \in 0..n : N[j] \in Nat /\ N[j] <= to
      /\ N[0] = from /\ N[n] = to
      /\ \A j \in 1..n : IF commands[j].op = "BC_FIFO_L"
                         THEN N[j] = N[j - 1] + 1 /\ commands[j].value = lengths[N[j]]
                         ELSE N[j] = N[j - 1]
  BY DEF Counts
<1>3. /\ M \in [0..n + 1 -> Nat] /\ M[n + 1] = more /\ \A j \in 0..n : M[j] = N[j]
  BY <1>1, <1>2
<1>4. M[0] = from /\ to <= more
  BY <1>1, <1>2, <1>3
<1> HIDE DEF n, longer, M
<1>5. ASSUME NEW j \in 0..n + 1 PROVE M[j] <= more
  <2>1. CASE j \in 0..n
    <3>1. M[j] = N[j] /\ N[j] \in Nat /\ N[j] <= to
      BY <1>2, <1>3, <2>1
    <3> QED
      BY <1>4, <3>1
  <2>2. CASE j = n + 1
    BY <1>3, <2>2
  <2> QED
    BY <1>1, <2>1, <2>2
<1>6. ASSUME NEW j \in 1..n + 1
      PROVE  IF longer[j].op = "BC_FIFO_L"
             THEN M[j] = M[j - 1] + 1 /\ longer[j].value = lengths[M[j]]
             ELSE M[j] = M[j - 1]
  <2>1. CASE j = n + 1
    <3>1. j - 1 = n /\ n \in 0..n
      BY <1>1, <2>1
    <3>2. longer[j] = command /\ M[j] = more /\ M[j - 1] = to
      BY <1>1, <1>2, <1>3, <2>1, <3>1
    <3> QED
      BY <3>2
  <2>2. CASE j # n + 1
    <3>1. j \in 1..n /\ j \in 0..n /\ j - 1 \in 0..n
      BY <1>1, <2>2
    <3>2. longer[j] = commands[j] /\ M[j] = N[j] /\ M[j - 1] = N[j - 1]
      BY <1>1, <1>3, <3>1
    <3> QED
      BY <1>2, <3>1, <3>2
  <2> QED
    BY <2>1, <2>2
<1>7. Counts(M, longer, lengths, from, more)
  BY <1>1, <1>3, <1>4, <1>5, <1>6 DEF Counts
<1> QED
  BY <1>7 DEF longer

LEMMA CountsTail ==
    ASSUME NEW S, NEW commands \in Seq(S), commands # <<>>, NEW lengths, NEW N,
           NEW from \in Nat, NEW to \in Nat, Counts(N, commands, lengths, from, to)
    PROVE  LET first == Head(commands)
               next  == IF first.op = "BC_FIFO_L" THEN from + 1 ELSE from
           IN  /\ next <= to
               /\ first.op = "BC_FIFO_L" => first.value = lengths[next]
               /\ \E M : Counts(M, Tail(commands), lengths, next, to)
<1> DEFINE n == Len(commands)
           first == Head(commands)
           next == IF first.op = "BC_FIFO_L" THEN from + 1 ELSE from
           shorter == Tail(commands)
           M == [j \in 0..n - 1 |-> N[j + 1]]
<1>1. n \in Nat /\ n >= 1 /\ first = commands[1] /\ Len(shorter) = n - 1
      /\ \A i \in 1..n - 1 : shorter[i] = commands[i + 1]
  BY TailIndexes
<1>2. /\ \A j \in 0..n : N[j] \in Nat /\ N[j] <= to
      /\ N[0] = from /\ N[n] = to
      /\ \A j \in 1..n : IF commands[j].op = "BC_FIFO_L"
                         THEN N[j] = N[j - 1] + 1 /\ commands[j].value = lengths[N[j]]
                         ELSE N[j] = N[j - 1]
  BY DEF Counts
<1>3. /\ M \in [0..n - 1 -> Nat] /\ \A j \in 0..n - 1 : M[j] = N[j + 1]
  BY <1>1, <1>2
<1> HIDE DEF n, first, next, shorter, M
<1>4. 1 \in 1..n /\ 1 \in 0..n /\ 1 - 1 = 0 /\ 0 \in 0..n - 1 /\ 0 + 1 = 1 /\ n - 1 \in 0..n - 1
      /\ (n - 1) + 1 = n
  BY <1>1
<1>5. N[1] = next /\ next <= to /\ (first.op = "BC_FIFO_L" => first.value = lengths[next])
  BY <1>1, <1>2, <1>4 DEF next
<1>6. M[0] = next /\ M[n - 1] = to
  BY <1>2, <1>3, <1>4, <1>5
<1>7. ASSUME NEW j \in 0..n - 1 PROVE M[j] <= to
  <2>1. j + 1 \in 0..n
    BY <1>1
  <2> QED
    BY <1>2, <1>3, <2>1
<1>8. ASSUME NEW j \in 1..n - 1
      PROVE  IF shorter[j].op = "BC_FIFO_L"
             THEN M[j] = M[j - 1] + 1 /\ shorter[j].value = lengths[M[j]]
             ELSE M[j] = M[j - 1]
  <2>1. j \in 0..n - 1 /\ j - 1 \in 0..n - 1 /\ (j - 1) + 1 = j /\ j + 1 \in 1..n
        /\ (j + 1) - 1 = j
    BY <1>1
  <2>2. M[j] = N[j + 1] /\ M[j - 1] = N[j] /\ shorter[j] = commands[j + 1]
    BY <1>1, <1>3, <2>1
  <2>3. IF commands[j + 1].op = "BC_FIFO_L"
        THEN N[j + 1] = N[(j + 1) - 1] + 1 /\ commands[j + 1].value = lengths[N[j + 1]]
        ELSE N[j + 1] = N[(j + 1) - 1]
    BY <1>2, <2>1
  <2> QED
    BY <2>1, <2>2, <2>3
<1>9. Counts(M, shorter, lengths, next, to)
  BY <1>1, <1>3, <1>6, <1>7, <1>8 DEF Counts
<1> QED
  BY <1>5, <1>9 DEF first, next, shorter

----------------------------------------------------------------------------
(* How the steps cut the frames and announce their sizes. *)

LEMMA OrderFacts ==
    ASSUME TxAssumption, TypeInv, FramesCut
    PROVE  /\ accepted \in Seq(Nat) /\ Len(accepted) \in Nat
           /\ \A k \in 1..Len(accepted) : accepted[k] \in Nat /\ accepted[k] > 0
           /\ queued_oframes.frames \in Seq(Frames(Bytes)) /\ Len(queued_oframes.frames) \in Nat
           /\ Taken \in Nat /\ Taken = Len(accepted) - Len(queued_oframes.frames)
           /\ Taken <= Len(accepted)
           /\ PendingLength \in Nat
           /\ pending_oframe = None => PendingLength = 0 /\ Announced = Taken
           /\ pending_oframe # None => /\ pending_oframe \in Oframes
                                       /\ pending_oframe.data \in Seq(Bytes)
                                       /\ PendingLength = Len(pending_oframe.data)
                                       /\ PendingLength = DataLength(pending_oframe)
                                       /\ Taken \in 1..Len(accepted)
                                       /\ PendingLength <= accepted[Taken]
           /\ Announced \in Nat /\ Announced <= Taken
           /\ lock # None => pending_oframe # None
           /\ \A w \in Workers : worker[w].pc \in Busy => lock = w /\ lock # None
<1>1. accepted \in Seq(Nat) /\ Len(accepted) \in Nat
  BY DEF TypeInv, TypeOK
<1>2. \A k \in 1..Len(accepted) : accepted[k] \in Nat /\ accepted[k] > 0
  <2> TAKE k \in 1..Len(accepted)
  <2>1. accepted[k] \in WriteLengths \ {0}
    BY DEF FramesCut
  <2>2. accepted[k] \in Nat \ {0}
    BY <2>1 DEF TxAssumption
  <2> QED
    BY <2>2
<1>3. queued_oframes.frames \in Seq(Frames(Bytes)) /\ Len(queued_oframes.frames) \in Nat
  BY DEF TypeInv, TypeOK, Lists
<1>4. Taken \in Nat /\ Taken = Len(accepted) - Len(queued_oframes.frames)
      /\ Taken <= Len(accepted)
  BY <1>1, <1>3 DEF FramesCut, Taken
<1>5. None \notin Workers /\ None \notin Oframes
  BY DEF TxAssumption, Oframes
<1>6. lock # None => pending_oframe # None
  BY <1>5 DEF TypeInv, LocksExclude
<1>7. \A w \in Workers : worker[w].pc \in Busy => lock = w /\ lock # None
  BY <1>5 DEF TypeInv, LocksExclude, Busy, Holding
<1>8. CASE pending_oframe = None
  <2>1. PendingLength = 0 /\ Announced = Taken
    BY <1>8 DEF PendingLength, Announced, Unannounced
  <2> QED
    BY <1>1, <1>2, <1>3, <1>4, <1>6, <1>7, <1>8, <2>1
<1>9. CASE pending_oframe # None
  <2>1. pending_oframe \in Oframes
    BY <1>9 DEF TypeInv, TypeOK
  <2>2. pending_oframe.data \in Seq(Bytes) /\ PendingLength = Len(pending_oframe.data)
        /\ PendingLength = DataLength(pending_oframe) /\ PendingLength \in Nat
    BY <1>9, <2>1 DEF Oframes, Frames, PendingLength, DataLength
  <2>3. Taken >= 1 /\ DataLength(pending_oframe) <= accepted[Taken]
    BY <1>9 DEF FramesCut, Rest
  <2>4. Taken \in 1..Len(accepted)
    BY <1>1, <1>4, <2>3
  <2>5. Announced \in Nat /\ Announced <= Taken
    <3>1. Announced = Taken \/ Announced = Taken - 1
      BY DEF Announced
    <3>2. Taken \in Nat /\ Taken >= 1
      BY <1>4, <2>3
    <3> QED
      BY <3>1, <3>2
  <2> QED
    BY <1>1, <1>2, <1>3, <1>4, <1>6, <1>7, <1>9, <2>1, <2>2, <2>3, <2>4, <2>5
<1> QED
  BY <1>8, <1>9

\* A step that leaves the frames where they are, and the workers inside or
\* outside of their critical section.
LEMMA CutStill ==
    ASSUME FramesCut, UNCHANGED <<accepted, queued_oframes, pending_oframe>>,
           evt'.pc # "idle" => evt'.length \in WriteLengths \ {0},
           \A w \in Workers : /\ worker'[w].pc \in Busy <=> worker[w].pc \in Busy
                              /\ worker[w].pc \in Busy => worker'[w].first = worker[w].first
    PROVE  /\ FramesCut' /\ Taken' = Taken /\ PendingLength' = PendingLength
           /\ Announced' = Announced
<1>1. Taken' = Taken /\ PendingLength' = PendingLength
  BY DEF Taken, PendingLength
<1>2. Announced' = Announced
  BY <1>1 DEF Announced, Unannounced
<1>3. FramesCut'
  BY <1>1 DEF FramesCut
<1> QED
  BY <1>1, <1>2, <1>3

LEMMA CutQueue ==
    ASSUME TxAssumption, TypeInv, FramesCut, WriteQueue
    PROVE  /\ FramesCut' /\ Taken' = Taken /\ PendingLength' = PendingLength
           /\ Announced' = Announced
           /\ evt.length \in Nat /\ accepted' = Append(accepted, evt.length)
<1> DEFINE n == Len(accepted)
           length == evt.length
           bytes == FrameBytes(n + 1, length)
           frame == [AddData(NewFrame, bytes) EXCEPT !.frame_size = length]
           frames == queued_oframes.frames
<1>1. /\ length \in WriteLengths \ {0} /\ length \in Nat
      /\ accepted' = Append(accepted, length) /\ pending_oframe' = pending_oframe
      /\ queued_oframes'.frames = Append(frames, frame) /\ worker' = worker /\ evt' = IdleWrite
  BY DEF WriteQueue, Accept, AddFrame, WriteUnchanged, workerVars, FramesCut, TxAssumption
<1>2. /\ accepted \in Seq(Nat) /\ n \in Nat /\ frames \in Seq(Frames(Bytes)) /\ Len(frames) \in Nat
      /\ Taken = n - Len(frames) /\ Taken \in Nat /\ Taken <= n
      /\ pending_oframe # None => Taken \in 1..n
      /\ \A w \in Workers : worker[w].pc \in Busy => pending_oframe # None
  BY OrderFacts
<1>a. /\ n \in Nat /\ Len(frames) \in Nat /\ Taken \in Nat /\ Taken = n - Len(frames)
  BY <1>2
<1>3. n + 1 \in 1..MaxWrites
  <2>1. evt.pc # "idle" /\ refused \in Nat /\ MaxWrites \in Nat
    BY DEF WriteQueue, TxAssumption, TypeInv, TypeOK
  <2>2. n + refused < MaxWrites
    BY <2>1 DEF TypeInv, WritesBounded
  <2> QED
    BY <1>2, <2>1, <2>2
<1>4. bytes \in Seq(Bytes) /\ frame \in Frames(Bytes) /\ frame.frame_size = length
      /\ frame.data = bytes
  <2>1. bytes \in Seq(Bytes)
    BY <1>1, <1>3, FrameBytesFacts
  <2>2. frame \in Frames(Bytes)
    BY <1>1, <1>3, NewWriteFacts DEF Oframes
  <2>3. NewFrame \in Frames(Bytes) /\ NewFrame.data = <<>>
    BY DEF NewFrame, Frames
  <2>4. AddData(NewFrame, bytes) \in Frames(Bytes) /\ AddData(NewFrame, bytes).data = <<>> \o bytes
    BY <2>1, <2>3, AddDataFacts, ZenonT(30)
  <2>5. <<>> \o bytes = bytes
    BY <2>1
  <2> HIDE DEF bytes
  <2>6. frame.frame_size = length /\ frame.data = AddData(NewFrame, bytes).data
    BY <2>4 DEF Frames
  <2> QED
    BY <2>1, <2>2, <2>4, <2>5, <2>6
<1> HIDE DEF frame, bytes, length
<1>5. /\ Len(accepted') = n + 1 /\ accepted'[n + 1] = length
      /\ \A i \in 1..n : accepted'[i] = accepted[i]
  BY <1>1, <1>2, AppendIndexes
<1>6. /\ Len(queued_oframes'.frames) = Len(frames) + 1
      /\ queued_oframes'.frames[Len(frames) + 1] = frame
      /\ \A i \in 1..Len(frames) : queued_oframes'.frames[i] = frames[i]
  BY <1>1, <1>2, <1>4, AppendIndexes
<1>7. Taken' = Taken /\ PendingLength' = PendingLength
  <2>1. Taken' = (n + 1) - (Len(frames) + 1)
    BY <1>5, <1>6 DEF Taken
  <2> QED
    BY <1>1, <1>2, <2>1 DEF PendingLength
<1>8. pending_oframe # None => accepted'[Taken] = accepted[Taken]
  BY <1>2, <1>5
<1>9. Announced' = Announced
  BY <1>1, <1>7, <1>8 DEF Announced, Unannounced
<1>10. FramesCut'
  <2>1. \A k \in 1..Len(accepted') : accepted'[k] \in WriteLengths \ {0}
    <3> TAKE k \in 1..Len(accepted')
    <3>1. k = n + 1 \/ k \in 1..n
      BY <1>a, <1>5
    <3> QED
      BY <1>1, <1>5, <3>1 DEF FramesCut
  <2>2. ASSUME NEW i \in 1..Len(queued_oframes'.frames)
        PROVE  /\ queued_oframes'.frames[i].frame_size = accepted'[Taken + i]
               /\ queued_oframes'.frames[i].data = FrameBytes(Taken + i, accepted'[Taken + i])
    <3>1. CASE i = Len(frames) + 1
      <4>1. Taken + i = n + 1
        <5> DEFINE l == Len(frames)
        <5>1. n \in Nat /\ l \in Nat /\ Taken \in Nat /\ Taken = n - l /\ i = l + 1
          BY <1>a, <3>1
        <5> HIDE DEF l, n
        <5> QED
          BY <5>1
      <4> QED
        BY <1>4, <1>5, <1>6, <3>1, <4>1 DEF bytes
    <3>2. CASE i # Len(frames) + 1
      <4>1. i \in 1..Len(frames) /\ Taken + i \in 1..n
        <5> DEFINE l == Len(frames)
        <5>1. n \in Nat /\ l \in Nat /\ Taken \in Nat /\ Taken = n - l /\ i \in 1..l + 1 /\ i # l + 1
          BY <1>a, <1>6, <3>2
        <5> HIDE DEF l, n
        <5>2. i \in 1..l /\ Taken + i \in 1..n
          BY <5>1
        <5> QED
          BY <5>2 DEF l
      <4>2. /\ frames[i].frame_size = accepted[Taken + i]
            /\ frames[i].data = FrameBytes(Taken + i, accepted[Taken + i])
        BY <4>1 DEF FramesCut
      <4> QED
        BY <1>5, <1>6, <4>1, <4>2
    <3> QED
      BY <3>1, <3>2
  <2>3. pending_oframe' # None => Taken >= 1 /\ Rest(pending_oframe', Taken, accepted'[Taken])
    BY <1>1, <1>8 DEF FramesCut
  <2>4. \A w \in Workers : worker'[w].pc \in Busy => PendingLength < accepted'[Taken]
    BY <1>1, <1>2, <1>8 DEF FramesCut
  <2>5. evt'.pc = "idle"
    BY <1>1 DEF IdleWrite
  <2> QED
    BY <1>2, <1>7, <2>1, <2>2, <2>3, <2>4, <2>5 DEF FramesCut
<1> QED
  BY <1>1, <1>7, <1>9, <1>10 DEF length

\* The worker takes the first frame of the queue.
LEMMA CutTake ==
    ASSUME TxAssumption, TypeInv, FramesCut, NEW w \in Workers, OframeTake(w),
           pending_oframe = None, ~IsEmptyList(queued_oframes)
    PROVE  /\ FramesCut' /\ Taken' = Taken + 1 /\ Taken + 1 \in 1..Len(accepted)
           /\ PendingLength = 0 /\ PendingLength' = accepted[Taken + 1]
           /\ Announced' = Announced
<1> DEFINE frames == queued_oframes.frames
           k == Taken + 1
<1>1. /\ pending_oframe' = Head(frames) /\ queued_oframes'.frames = Tail(frames)
      /\ worker' = [worker EXCEPT ![w].pc = "send"] /\ lock = None /\ frames # <<>>
      /\ accepted' = accepted /\ evt' = evt
  BY DEF OframeTake, PeekFront, RemoveFrame, IsEmptyList, WorkerUnchanged, writeVars
<1>2. /\ accepted \in Seq(Nat) /\ Len(accepted) \in Nat
      /\ frames \in Seq(Frames(Bytes)) /\ Len(frames) \in Nat
      /\ Taken \in Nat /\ Taken = Len(accepted) - Len(frames)
      /\ PendingLength = 0 /\ Announced = Taken
      /\ \A v \in Workers : worker[v].pc \notin Busy
      /\ \A j \in 1..Len(accepted) : accepted[j] \in Nat
  BY <1>1, OrderFacts
<1>3. /\ Head(frames) = frames[1] /\ Head(frames) \in Frames(Bytes) /\ Len(frames) >= 1
      /\ Len(Tail(frames)) = Len(frames) - 1
      /\ \A i \in 1..Len(frames) - 1 : Tail(frames)[i] = frames[i + 1]
  BY <1>1, <1>2, TailIndexes
<1>a. /\ Len(accepted) \in Nat /\ Len(frames) \in Nat /\ Len(frames) >= 1
      /\ Taken \in Nat /\ Taken = Len(accepted) - Len(frames)
  BY <1>2, <1>3
<1>4. k \in 1..Len(accepted) /\ 1 \in 1..Len(frames) /\ accepted[k] \in Nat
  <2> DEFINE l == Len(frames)
             n == Len(accepted)
  <2>1. n \in Nat /\ l \in Nat /\ l >= 1 /\ Taken \in Nat /\ Taken = n - l
    BY <1>a
  <2> HIDE DEF l, n
  <2>2. k \in 1..n /\ 1 \in 1..l
    BY <2>1
  <2> QED
    BY <1>2, <2>2 DEF l, n
<1>5. /\ Head(frames).frame_size = accepted[k]
      /\ Head(frames).data = FrameBytes(k, accepted[k])
  BY <1>3, <1>4 DEF FramesCut
<1>6. DataLength(Head(frames)) = accepted[k]
      /\ \A i \in 1..accepted[k] : Head(frames).data[i] = <<k, i>>
  BY <1>4, <1>5 DEF DataLength, FrameBytes
<1>7. Head(frames) # None
  BY <1>3 DEF TxAssumption
<1>8. Taken' = k /\ PendingLength' = accepted[k]
  <2>1. Taken' = Len(accepted) - (Len(frames) - 1)
    BY <1>1, <1>3 DEF Taken
  <2>2. PendingLength' = DataLength(Head(frames))
    BY <1>1, <1>7 DEF PendingLength
  <2> QED
    <3> DEFINE l == Len(frames)
               n == Len(accepted)
    <3>1. n \in Nat /\ l \in Nat /\ Taken = n - l /\ Taken' = n - (l - 1)
      BY <1>a, <2>1
    <3> HIDE DEF l, n
    <3>2. Taken' = Taken + 1
      BY <3>1
    <3> QED
      BY <1>6, <2>2, <3>2
<1>9. \A v \in Workers : worker'[v].pc \notin Busy
  <2>1. worker \in [Workers -> WorkerStates]
    BY DEF TypeInv, TypeOK
  <2>2. "send" \notin Busy
    BY DEF Busy
  <2> QED
    BY <1>1, <1>2, <2>1, <2>2 DEF WorkerStates
<1> HIDE DEF k
<1>10. Rest(Head(frames), k, accepted[k])
  <2>1. accepted[k] - accepted[k] = 0 /\ 0 % 4 = 0 /\ \A i \in 1..accepted[k] : 0 + i = i
    BY <1>4
  <2> QED
    BY <1>4, <1>5, <1>6, <2>1 DEF Rest
<1>11. Announced' = Announced
  <2>1. Unannounced'
    BY <1>1, <1>7, <1>8 DEF Unannounced
  <2> QED
    <3>1. Announced' = Taken' - 1
      BY <2>1 DEF Announced
    <3>2. k - 1 = Taken
      BY <1>a DEF k
    <3> QED
      BY <1>2, <1>8, <3>1, <3>2
<1>12. FramesCut'
  <2>1. ASSUME NEW i \in 1..Len(queued_oframes'.frames)
        PROVE  /\ queued_oframes'.frames[i].frame_size = accepted[k + i]
               /\ queued_oframes'.frames[i].data = FrameBytes(k + i, accepted[k + i])
    <3>1. i \in 1..Len(frames) - 1 /\ i + 1 \in 1..Len(frames) /\ Taken + (i + 1) = k + i
      <4> DEFINE l == Len(frames)
      <4>1. l \in Nat /\ l >= 1 /\ Taken \in Nat /\ i \in 1..l - 1
        BY <1>1, <1>3, <1>a
      <4> HIDE DEF l
      <4>2. i \in 1..l - 1 /\ i + 1 \in 1..l /\ Taken + (i + 1) = k + i
        BY <4>1 DEF k
      <4> QED
        BY <4>2 DEF l
    <3>2. /\ frames[i + 1].frame_size = accepted[Taken + (i + 1)]
          /\ frames[i + 1].data = FrameBytes(Taken + (i + 1), accepted[Taken + (i + 1)])
      BY <3>1 DEF FramesCut
    <3> QED
      BY <1>1, <1>3, <3>1, <3>2
  <2>2. k \in Nat /\ k >= 1
    BY <1>4
  <2>3. /\ \A j \in 1..Len(accepted') : accepted'[j] \in WriteLengths \ {0}
        /\ evt'.pc # "idle" => evt'.length \in WriteLengths \ {0}
    BY <1>1 DEF FramesCut
  <2> QED
    BY <1>1, <1>8, <1>9, <1>10, <2>1, <2>2, <2>3 DEF FramesCut
<1> QED
  BY <1>2, <1>4, <1>8, <1>11, <1>12 DEF k

\* A data write takes what it carries from the pending frame: cut at a word,
\* the words that are left are that many less.
LEMMA CutSend ==
    ASSUME TxAssumption, TypeInv, FramesCut, NEW w \in Workers, OframeSend(w)
    PROVE  /\ FramesCut' /\ Taken' = Taken /\ Announced' = Announced
           /\ Align4(PendingLength') = Align4(PendingLength) - TransmitLength(pending_oframe)
<1> DEFINE f == pending_oframe
           n == DataLength(f)
           t == TransmitLength(f)
           m == n - Least(t, n)
           a == accepted[Taken]
<1>1. /\ worker[w].pc = "send" /\ t >= 1 /\ f' = RemoveData(f, t)
      /\ worker' = [worker EXCEPT ![w].first = IsFirst(f), ![w].pc = "load"]
      /\ UNCHANGED <<accepted, queued_oframes, evt>>
  BY DEF OframeSend, WorkerUnchanged, writeVars
<1>2. lock = w /\ lock # None
  BY <1>1 DEF TypeInv, LocksExclude, Holding, TxAssumption
<1>3. /\ f # None /\ f \in Oframes /\ f.data \in Seq(Bytes) /\ PendingLength = n
      /\ n \in Nat /\ n = Len(f.data) /\ a \in Nat /\ n <= a /\ Taken \in Nat /\ Taken >= 1
  BY <1>2, OrderFacts
<1>4. Rest(f, Taken, a) /\ f.frame_size = a
  BY <1>3 DEF FramesCut, Rest
<1>5. n > 0
  <2>1. Align4(0) = 0 /\ FifoSpace \in Nat
    BY DEF Align4, TxAssumption
  <2>2. n = 0 => t = 0
    BY <2>1 DEF TransmitLength, Least
  <2> QED
    BY <1>1, <1>3, <2>2
<1>6. /\ t \in Nat /\ t > 0 /\ t <= Align4(n) /\ m \in Nat /\ m < n
      /\ Align4(m) = Align4(n) - t /\ (m > 0 => t % 4 = 0 /\ m = n - t)
  <2>1. FifoSpace \in Nat /\ FifoSpace > 0 /\ FifoSpace % 4 = 0
    BY DEF TxAssumption
  <2>2. t = Least(Align4(n), FifoSpace)
    BY DEF TransmitLength
  <2> HIDE DEF n, t
  <2>3. n \in Nat /\ n > 0
    BY <1>3, <1>5
  <2> QED
    BY <2>1, <2>2, <2>3, ChunkCut
<1>7. (a - n) % 4 = 0 /\ \A i \in 1..n : f.data[i] = <<Taken, a - n + i>>
  BY <1>4, <1>5 DEF Rest
<1>8. /\ f'.data = SubSeq(f.data, Least(t, n) + 1, n) /\ f'.frame_size = a
      /\ f' \in Oframes
  <2>1. f' = [f EXCEPT !.data = SubSeq(f.data, Least(t, n) + 1, n)]
    BY <1>1, <1>3 DEF RemoveData, DataLength
  <2>2. f' \in Oframes
    BY <1>1, <1>3, ChunkFacts
  <2> QED
    BY <1>3, <1>4, <2>1, <2>2 DEF Oframes, Frames
<1> DEFINE c == Least(t, n)
<1>9. c \in Nat /\ c <= n /\ m = n - c
  BY <1>3, <1>6 DEF Least
<1> HIDE DEF c, m, t, n, a
<1>10. /\ Len(f'.data) = m /\ \A i \in 1..m : f'.data[i] = f.data[c + i]
  <2>1. f'.data = SubSeq(f.data, c + 1, Len(f.data)) /\ f.data \in Seq(Bytes)
        /\ c \in Nat /\ c <= Len(f.data) /\ m = Len(f.data) - c
    BY <1>3, <1>8, <1>9 DEF c
  <2> DEFINE d == f.data
  <2>2. d \in Seq(Bytes) /\ c <= Len(d) /\ m = Len(d) - c /\ f'.data = SubSeq(d, c + 1, Len(d))
    BY <2>1
  <2> HIDE DEF d
  <2>3. Len(SubSeq(d, c + 1, Len(d))) = Len(d) - c
        /\ \A i \in 1..Len(d) - c : SubSeq(d, c + 1, Len(d))[i] = d[c + i]
    BY <1>9, <2>2
  <2> QED
    BY <2>2, <2>3 DEF d
<1>11. f' # None /\ Taken' = Taken /\ PendingLength' = m /\ DataLength(f') = m
  <2>1. f' # None
    BY <1>8 DEF TxAssumption, Oframes
  <2> QED
    BY <1>1, <1>10, <2>1 DEF PendingLength, DataLength, Taken
<1>12. Rest(f', Taken, a)
  <2>1. m <= a
    BY <1>3, <1>6
  <2>2. m > 0 => (a - m) % 4 = 0
    <3> SUFFICES ASSUME m > 0 PROVE (a - m) % 4 = 0
      OBVIOUS
    <3>1. a - m = (a - n) + t /\ t % 4 = 0
      BY <1>3, <1>6
    <3>2. a - n \in Nat
      BY <1>3
    <3> DEFINE z == a - n
    <3> HIDE DEF z
    <3>3. (z + t) % 4 = 0
      BY <1>6, <1>7, <3>1, <3>2 DEF z
    <3> QED
      BY <3>1, <3>3 DEF z
  <2>3. ASSUME NEW i \in 1..m PROVE f'.data[i] = <<Taken, a - m + i>>
    <3>1. c + i \in 1..n /\ (a - n) + (c + i) = (a - m) + i
      BY <1>3, <1>6, <1>9
    <3>2. f.data[c + i] = <<Taken, (a - n) + (c + i)>>
      BY <1>7, <3>1
    <3> QED
      BY <1>10, <3>1, <3>2
  <2> QED
    BY <1>8, <1>11, <2>1, <2>2, <2>3 DEF Rest
<1>13. \A v \in Workers : v # w => worker[v].pc \notin Busy /\ worker'[v] = worker[v]
  <2>1. \A v \in Workers : worker[v].pc \in Busy => lock = v
    BY OrderFacts
  <2>2. worker \in [Workers -> WorkerStates]
    BY DEF TypeInv, TypeOK
  <2> QED
    BY <1>1, <1>2, <2>1, <2>2
<1>14. worker'[w].pc \in Busy /\ worker'[w].first = (n = a) /\ worker[w].pc \notin Busy
  <2>1. worker \in [Workers -> WorkerStates]
    BY DEF TypeInv, TypeOK
  <2>2. worker'[w].pc = "load" /\ worker'[w].first = IsFirst(f)
    BY <1>1, <2>1 DEF WorkerStates
  <2> QED
    BY <1>1, <1>4, <2>2 DEF IsFirst, Busy, n
<1>15. Announced' = Announced
  <2>1. Unannounced <=> n = a
    BY <1>3, <1>13, <1>14 DEF Unannounced, a
  <2>2. a' = a
    BY <1>1, <1>11 DEF a
  <2>3. m # a
    BY <1>3, <1>6
  <2>4. Unannounced' <=> n = a
    BY <1>11, <1>13, <1>14, <2>2, <2>3 DEF Unannounced, a
  <2> QED
    BY <1>11, <2>1, <2>4 DEF Announced
<1>16. FramesCut'
  <2>1. m < a
    BY <1>3, <1>6
  <2> QED
    BY <1>1, <1>3, <1>11, <1>12, <2>1 DEF FramesCut, a
<1> QED
  BY <1>3, <1>6, <1>11, <1>15, <1>16 DEF t

\* The commands go out: a frame whose first chunk went out is announced.
LEMMA CutCommand ==
    ASSUME TxAssumption, TypeInv, FramesCut, NEW w \in Workers, OframeCommand(w)
    PROVE  /\ FramesCut' /\ Taken' = Taken /\ PendingLength' = PendingLength
           /\ Announced' = Taken
           /\ IF worker[w].first
              THEN Taken = Announced + 1 /\ pending_oframe.frame_size = accepted[Taken]
              ELSE Taken = Announced
<1> DEFINE f == pending_oframe
           a == accepted[Taken]
<1>1. /\ worker[w].pc = "command" /\ worker[w].pc \in Busy
      /\ f' = IF DataLength(f) = 0 THEN None ELSE f
      /\ worker' = [worker EXCEPT ![w] = IdleWorker]
      /\ UNCHANGED <<accepted, queued_oframes, evt>>
  BY DEF OframeCommand, WorkerUnchanged, writeVars, Busy
<1>2. lock = w /\ lock # None
  BY <1>1, OrderFacts
<1>3. /\ f # None /\ PendingLength = DataLength(f) /\ PendingLength \in Nat /\ Taken \in Nat
      /\ Taken >= 1 /\ a \in Nat
  BY <1>2, OrderFacts
<1>4. PendingLength < a /\ f.frame_size = a
  BY <1>1, <1>3 DEF FramesCut, Rest
<1>5. \A v \in Workers : v # w => worker[v].pc \notin Busy /\ worker'[v] = worker[v]
  BY <1>1, <1>2, OrderFacts
<1>6. worker'[w].pc \notin Busy
  BY <1>1 DEF TypeInv, TypeOK, IdleWorker, Busy
<1>7. Taken' = Taken /\ PendingLength' = PendingLength
  BY <1>1, <1>3 DEF Taken, PendingLength
<1>8. a' = a
  BY <1>1, <1>7
<1> HIDE DEF a
<1>9. Unannounced <=> worker[w].first
  BY <1>1, <1>3, <1>4, <1>5 DEF Unannounced, a
<1>10. ~Unannounced'
  <2>1. PendingLength # a
    BY <1>3, <1>4
  <2> QED
    BY <1>5, <1>6, <1>7, <1>8, <2>1 DEF Unannounced, a
<1>11. FramesCut'
  BY <1>1, <1>5, <1>6, <1>7 DEF FramesCut
<1> QED
  BY <1>3, <1>4, <1>7, <1>9, <1>10, <1>11 DEF Announced, a

----------------------------------------------------------------------------
(* Where the bytes and the sizes travel. *)

\* The bytes of a data write have the next places of the frame they come from.
LEMMA ChunkPlaced ==
    ASSUME TxAssumption, TypeInv, FramesCut, pending_oframe # None,
           TransmitLength(pending_oframe) >= 1, NEW W, Words(W, accepted)
    PROVE  /\ Chunk(pending_oframe) \in Seq(Bytes)
           /\ Len(Chunk(pending_oframe)) = TransmitLength(pending_oframe)
           /\ W[Taken] - Align4(PendingLength) \in Nat
           /\ Laid(W, accepted, Chunk(pending_oframe), W[Taken] - Align4(PendingLength))
<1> DEFINE f == pending_oframe
           n == DataLength(f)
           t == TransmitLength(f)
           a == accepted[Taken]
           before == W[Taken - 1]
           o == a - n
<1>1. /\ f \in Oframes /\ n \in Nat /\ PendingLength = n /\ Taken \in 1..Len(accepted)
      /\ Len(accepted) \in Nat /\ a \in Nat /\ n <= a
  BY OrderFacts
<1>2. /\ t \in Nat /\ Chunk(f) \in Seq(Bytes)
  BY <1>1, ChunkFacts
<1>3. /\ Align4(n) \in Nat /\ Align4(a) \in Nat /\ Align4(0) = 0 /\ FifoSpace \in Nat
  BY <1>1, Align4Facts DEF TxAssumption, Align4
<1>4. t <= Align4(n) /\ (n = 0 => t = 0)
  BY <1>3 DEF TransmitLength, Least
<1>5. n > 0
  BY <1>1, <1>2, <1>4
<1>6. o \in Nat /\ o % 4 = 0 /\ \A i \in 1..n : f.data[i] = <<Taken, o + i>>
  BY <1>1, <1>5 DEF FramesCut, Rest
<1>7. Align4(a) - Align4(n) = o
  BY <1>1, <1>6, AlignCut
<1>8. before \in Nat /\ W[Taken] = before + Align4(a)
  <2>1. Taken - 1 \in 0..Len(accepted)
    BY <1>1
  <2> QED
    BY <1>1, <2>1 DEF Words
<1>9. /\ Len(Chunk(f)) = t
      /\ \A i \in 1..t : Chunk(f)[i] = IF i <= n THEN f.data[i] ELSE Pad
  BY <1>2 DEF Chunk
<1> HIDE DEF n, t, a, o, before, f
<1>10. W[Taken] - Align4(n) = before + o
  BY <1>3, <1>6, <1>7, <1>8
<1>11. ASSUME NEW i \in 1..t PROVE At(W, accepted, (before + o) + i, Chunk(f)[i])
  <2>1. o + i \in 1..Align4(a) /\ (before + o) + i = before + (o + i)
        /\ (o + i <= a <=> i <= n) /\ i \in Nat /\ i >= 1
    <3> DEFINE p == Align4(n)
               q == Align4(a)
    <3>1. /\ p \in Nat /\ q \in Nat /\ q - p = o /\ t \in Nat /\ t <= p /\ o \in Nat
          /\ before \in Nat /\ n \in Nat /\ a \in Nat
      BY <1>1, <1>2, <1>3, <1>4, <1>6, <1>7, <1>8
    <3>2. o = a - n
      BY DEF o
    <3> HIDE DEF p, q
    <3>3. o + i \in 1..q /\ (before + o) + i = before + (o + i)
          /\ (o + i <= a <=> i <= n) /\ i \in Nat /\ i >= 1
      BY <3>1, <3>2
    <3> QED
      BY <3>3 DEF q
  <2>2. Chunk(f)[i] = IF o + i <= a THEN <<Taken, o + i>> ELSE Pad
    <3>1. i <= n => i \in 1..n
      BY <1>1, <2>1
    <3> QED
      BY <1>6, <1>9, <2>1, <3>1
  <2> QED
    BY <1>1, <2>1, <2>2 DEF At, a, before
<1>12. Laid(W, accepted, Chunk(f), before + o)
  BY <1>9, <1>11 DEF Laid
<1>13. before + o \in Nat
  BY <1>6, <1>8
<1> QED
  BY <1>1, <1>2, <1>9, <1>10, <1>12, <1>13 DEF f, t

\* The sizes in the adapter are of frames that are taken from the queue.
LEMMA SizesWithin ==
    ASSUME TxAssumption, TypeInv, FramesCut, SizesAnnounced
    PROVE  /\ Len(sent) \in Nat /\ Len(txSizes) \in Nat
           /\ Len(sent) + Len(txSizes) <= Announced
           /\ Len(sent) + Len(txSizes) <= Len(accepted)
<1>1. Len(sent) \in Nat /\ Len(txSizes) \in Nat /\ Len(pipe) \in Nat
  <2>1. txSizes \in Seq(Nat) /\ pipe \in Seq(Commands)
    BY DEF TypeInv, TypeOK
  <2>2. Len(sent) \in Nat
    <3> DEFINE S == Seq(Bytes)
    <3>1. sent \in Seq(S)
      BY DEF TypeInv, TypeOK
    <3> HIDE DEF S
    <3> QED
      BY <3>1
  <2> HIDE DEF Commands
  <2> QED
    BY <2>1, <2>2
<1>2. PICK N : Counts(N, pipe, accepted, Len(sent) + Len(txSizes), Announced)
  BY DEF SizesAnnounced
<1>3. 0 \in 0..Len(pipe)
  BY <1>1
<1>4. Len(sent) + Len(txSizes) <= Announced
  BY <1>2, <1>3 DEF Counts
<1> QED
  BY <1>1, <1>4, OrderFacts

LEMMA SizesStill ==
    ASSUME SizesAnnounced, UNCHANGED <<accepted, sent, txSizes, pipe>>, Announced' = Announced
    PROVE  SizesAnnounced'
<1>1. PICK N : Counts(N, pipe, accepted, Len(sent) + Len(txSizes), Announced)
  BY DEF SizesAnnounced
<1>2. Counts(N, pipe', accepted', Len(sent') + Len(txSizes'), Announced')
  BY <1>1
<1> QED
  BY <1>2 DEF SizesAnnounced

LEMMA PlacedStill ==
    ASSUME BytesPlaced, UNCHANGED <<accepted, sent, txFifo, dataPipe>>,
           Taken' = Taken, PendingLength' = PendingLength
    PROVE  BytesPlaced'
<1>1. PICK W : Placed(W)
  BY DEF BytesPlaced
<1>2. PICK D : Chunks(D, W, accepted, dataPipe,
                      W[Len(sent)] + Len(txFifo), W[Taken] - Align4(PendingLength))
  BY <1>1 DEF Placed
<1>3. Words(W, accepted') /\ Laid(W, accepted', txFifo', W[Len(sent')])
  BY <1>1 DEF Placed
<1>4. Chunks(D, W, accepted', dataPipe',
             W[Len(sent')] + Len(txFifo'), W[Taken'] - Align4(PendingLength'))
  BY <1>2
<1> QED
  BY <1>3, <1>4 DEF Placed, BytesPlaced

\* The adapter takes a command from the pipe.
LEMMA CommandTaken ==
    ASSUME TypeInv, SizesAnnounced, pipe # <<>>, pipe' = Tail(pipe), Announced' = Announced,
           Announced \in Nat, UNCHANGED <<accepted, sent>>,
           IF Head(pipe).op = "BC_FIFO_L"
           THEN txSizes' = Append(txSizes, Head(pipe).value)
           ELSE txSizes' = txSizes
    PROVE  SizesAnnounced'
<1> DEFINE from == Len(sent) + Len(txSizes)
           first == Head(pipe)
           next == IF first.op = "BC_FIFO_L" THEN from + 1 ELSE from
<1>1. Len(sent) \in Nat /\ Len(txSizes) \in Nat /\ txSizes \in Seq(Nat)
  <2>1. txSizes \in Seq(Nat)
    BY DEF TypeInv, TypeOK
  <2>2. Len(sent) \in Nat
    <3> DEFINE S == Seq(Bytes)
    <3>1. sent \in Seq(S)
      BY DEF TypeInv, TypeOK
    <3> HIDE DEF S
    <3> QED
      BY <3>1
  <2> QED
    BY <2>1, <2>2
<1>2. pipe \in Seq(Commands) /\ first \in Commands /\ first.value \in Nat
  <2>1. pipe \in Seq(Commands)
    BY DEF TypeInv, TypeOK
  <2>2. first \in Commands
    BY <2>1, TailIndexes
  <2> QED
    BY <2>1, <2>2 DEF Commands
<1>3. PICK N : Counts(N, pipe, accepted, from, Announced)
  BY DEF SizesAnnounced
<1>4. from \in Nat
  BY <1>1
<1> HIDE DEF from
<1>5. /\ first.op = "BC_FIFO_L" => first.value = accepted[next]
      /\ \E M : Counts(M, Tail(pipe), accepted, next, Announced)
  <2> HIDE DEF Commands
  <2> QED
    BY <1>2, <1>3, <1>4, CountsTail
<1>6. next = Len(sent) + Len(txSizes')
      /\ \A i \in 1..Len(txSizes') : txSizes'[i] = accepted[Len(sent) + i]
  <2>1. CASE first.op = "BC_FIFO_L"
    <3> DEFINE n == Len(txSizes)
    <3>1. /\ Len(txSizes') = n + 1 /\ txSizes'[n + 1] = first.value
          /\ \A i \in 1..n : txSizes'[i] = txSizes[i]
      <4>1. txSizes' = Append(txSizes, first.value)
        BY <2>1
      <4> HIDE DEF first
      <4> QED
        BY <1>1, <1>2, <4>1, AppendIndexes
    <3>2. next = Len(sent) + (n + 1)
      BY <1>1, <2>1 DEF from
    <3>3. \A i \in 1..n : txSizes[i] = accepted[Len(sent) + i]
      BY DEF SizesAnnounced
    <3>4. n \in Nat /\ first.value = accepted[next]
      BY <1>1, <1>5, <2>1
    <3> HIDE DEF n, next
    <3>5. \A i \in 1..n + 1 : i \in 1..n \/ i = n + 1
      BY <3>4
    <3> QED
      BY <3>1, <3>2, <3>3, <3>4, <3>5
  <2>2. CASE first.op # "BC_FIFO_L"
    BY <2>2 DEF from, SizesAnnounced
  <2> QED
    BY <2>1, <2>2
<1>7. PICK M : Counts(M, Tail(pipe), accepted, next, Announced)
  BY <1>5
<1> HIDE DEF next
<1>8. Counts(M, pipe', accepted', Len(sent') + Len(txSizes'), Announced')
  BY <1>6, <1>7
<1> QED
  BY <1>6, <1>8 DEF SizesAnnounced

\* A transmit command follows others in the pipe.
LEMMA CommandsSent ==
    ASSUME TypeInv, SizesAnnounced, NEW first \in BOOLEAN, NEW size \in Nat, Announced \in Nat,
           NEW more \in Nat,
           IF first THEN more = Announced + 1 /\ size = accepted[more] ELSE more = Announced
    PROVE  LET bc == IF first THEN <<[op |-> "BC_FIFO_L", value |-> size]>> ELSE <<>>
               after == pipe \o bc \o TransmitCommands
           IN  /\ \E M : Counts(M, after, accepted, Len(sent) + Len(txSizes), more)
               /\ (\A j \in 1..Len(pipe) : pipe[j].op # "TRES")
                    => \A j \in 1..Len(after) : after[j].op # "TRES"
<1> DEFINE from == Len(sent) + Len(txSizes)
           sized == [op |-> "BC_FIFO_L", value |-> size]
           count == [op |-> "FIFO_BC", value |-> 0]
           go == [op |-> "XF", value |-> 0]
           bc == IF first THEN <<sized>> ELSE <<>>
           base == pipe \o bc
           after == base \o TransmitCommands
<1>1. pipe \in Seq(Commands) /\ sized \in Commands /\ count \in Commands /\ go \in Commands
  BY DEF TypeInv, TypeOK, Commands
<1>2. sized.op = "BC_FIFO_L" /\ sized.value = size /\ count.op = "FIFO_BC" /\ go.op = "XF"
      /\ TransmitCommands = <<count, go>>
  BY DEF TransmitCommands
<1> HIDE DEF Commands, sized, count, go, from
<1>3. PICK N : Counts(N, pipe, accepted, from, Announced)
  BY DEF SizesAnnounced, from
<1>4. /\ base \in Seq(Commands)
      /\ \E M : Counts(M, base, accepted, from, more)
      /\ (\A j \in 1..Len(pipe) : pipe[j].op # "TRES") => \A j \in 1..Len(base) : base[j].op # "TRES"
  <2>1. CASE first
    <3>1. base = Append(pipe, sized)
      BY <1>1, <2>1
    <3>2. /\ base \in Seq(Commands) /\ Len(base) = Len(pipe) + 1 /\ base[Len(pipe) + 1] = sized
          /\ \A i \in 1..Len(pipe) : base[i] = pipe[i]
      BY <1>1, <3>1, AppendIndexes
    <3>3. \E M : Counts(M, Append(pipe, sized), accepted, from, more)
      BY <1>1, <1>2, <1>3, <2>1, CountsAppend
    <3>4. \A j \in 1..Len(base) : j \in 1..Len(pipe) \/ j = Len(pipe) + 1
      BY <1>1, <3>2
    <3> HIDE DEF base
    <3> QED
      BY <1>2, <3>1, <3>2, <3>3, <3>4
  <2>2. CASE ~first
    <3>1. base = pipe
      BY <1>1, <2>2
    <3> QED
      BY <1>1, <1>3, <2>2, <3>1
  <2> QED
    BY <2>1, <2>2
<1> HIDE DEF base
<1>5. PICK M : Counts(M, base, accepted, from, more)
  BY <1>4
<1>6. after = Append(Append(base, count), go)
  BY <1>1, <1>2, <1>4
<1>7. /\ Append(base, count) \in Seq(Commands)
      /\ Len(Append(base, count)) = Len(base) + 1 /\ Append(base, count)[Len(base) + 1] = count
      /\ \A i \in 1..Len(base) : Append(base, count)[i] = base[i]
  BY <1>1, <1>4, AppendIndexes
<1>8. \E L : Counts(L, Append(base, count), accepted, from, more)
  <2>1. IF count.op = "BC_FIFO_L" THEN more = more + 1 /\ count.value = accepted[more] ELSE more = more
    BY <1>2
  <2> QED
    BY <1>1, <1>4, <1>5, <2>1, CountsAppend
<1>9. PICK L : Counts(L, Append(base, count), accepted, from, more)
  BY <1>8
<1>10. \E K : Counts(K, Append(Append(base, count), go), accepted, from, more)
  <2>1. IF go.op = "BC_FIFO_L" THEN more = more + 1 /\ go.value = accepted[more] ELSE more = more
    BY <1>2
  <2> QED
    BY <1>1, <1>7, <1>9, <2>1, CountsAppend
<1>11. (\A j \in 1..Len(pipe) : pipe[j].op # "TRES") => \A j \in 1..Len(after) : after[j].op # "TRES"
  <2> SUFFICES ASSUME \A j \in 1..Len(pipe) : pipe[j].op # "TRES", NEW j \in 1..Len(after)
               PROVE  after[j].op # "TRES"
    OBVIOUS
  <2> DEFINE n == Len(base)
  <2>1. /\ Len(after) = (n + 1) + 1 /\ after[(n + 1) + 1] = go
        /\ \A i \in 1..n + 1 : after[i] = Append(base, count)[i]
    BY <1>1, <1>6, <1>7, AppendIndexes
  <2>2. n \in Nat
    BY <1>4
  <2>3. j \in 1..n \/ j = n + 1 \/ j = (n + 1) + 1
    BY <2>1, <2>2
  <2>4. \A i \in 1..n : i \in 1..n + 1
    BY <2>2
  <2>5. n + 1 \in 1..n + 1
    BY <2>2
  <2> HIDE DEF after, n
  <2> QED
    BY <1>2, <1>4, <1>7, <2>1, <2>3, <2>4, <2>5 DEF n
<1> HIDE DEF after
<1>12. \E K : Counts(K, after, accepted, from, more)
  BY <1>6, <1>10
<1> QED
  BY <1>11, <1>12 DEF after, base, bc, sized, from

----------------------------------------------------------------------------
(* The frames on the wire. *)

LEMMA OrderInit == ASSUME TxAssumption, Init PROVE OrderInv
<1>1. /\ accepted = <<>> /\ queued_oframes.frames = <<>> /\ pending_oframe = None
      /\ txSizes = <<>> /\ sent = <<>> /\ pipe = <<>> /\ txFifo = <<>> /\ dataPipe = <<>>
      /\ evt.pc = "idle" /\ purge = "idle"
      /\ \A w \in Workers : worker[w].pc = "idle"
  BY DEF Init, EmptyList, IdleWrite, IdleWorker
<1>2. Len(<<>>) = 0
  OBVIOUS
<1>3. Taken = 0 /\ PendingLength = 0 /\ Announced = 0
  BY <1>1, <1>2 DEF Taken, PendingLength, Announced, Unannounced
<1>4. FramesCut
  BY <1>1, <1>2, <1>3 DEF FramesCut, Busy
<1>5. SizesAnnounced
  <2> DEFINE N == [j \in 0..0 |-> 0]
  <2>1. Counts(N, <<>>, <<>>, 0 + 0, 0)
    BY <1>2 DEF Counts
  <2> HIDE DEF N
  <2> QED
    BY <1>1, <1>2, <1>3, <2>1 DEF SizesAnnounced
<1>6. BytesPlaced
  <2> DEFINE W == [k \in 0..0 |-> 0]
  <2>1. Words(W, <<>>) /\ W[0] = 0
    BY <1>2 DEF Words
  <2>2. Laid(W, <<>>, <<>>, 0)
    BY <1>2 DEF Laid
  <2>3. Align4(0) = 0
    BY DEF Align4
  <2>4. Chunks(W, W, <<>>, <<>>, 0 + 0, 0 - 0)
    BY <1>2 DEF Chunks
  <2> HIDE DEF W
  <2> QED
    BY <1>1, <1>2, <1>3, <2>1, <2>2, <2>3, <2>4 DEF Placed, BytesPlaced
<1> QED
  BY <1>1, <1>2, <1>4, <1>5, <1>6 DEF OrderInv, NoReset, WireIntact

\* A step that leaves the pipes, the adapter and the places of the frames as
\* they are.
LEMMA OrderStill ==
    ASSUME OrderInv, UNCHANGED <<accepted, sent, txSizes, pipe, txFifo, dataPipe, purge>>,
           FramesCut', Taken' = Taken, PendingLength' = PendingLength, Announced' = Announced
    PROVE  OrderInv'
<1>1. SizesAnnounced' /\ BytesPlaced'
  BY SizesStill, PlacedStill DEF OrderInv
<1>2. NoReset' /\ WireIntact'
  BY DEF OrderInv, NoReset, WireIntact
<1> QED
  BY <1>1, <1>2 DEF OrderInv

LEMMA OrderQueue ==
    ASSUME TxAssumption, TypeInv, OrderInv, WriteQueue
    PROVE  OrderInv'
<1> DEFINE x == evt.length
<1>1. FramesCut /\ SizesAnnounced /\ BytesPlaced /\ NoReset /\ WireIntact
  BY DEF OrderInv
<1>2. /\ FramesCut' /\ Taken' = Taken /\ PendingLength' = PendingLength /\ Announced' = Announced
      /\ x \in Nat /\ accepted' = Append(accepted, x)
  BY <1>1, CutQueue
<1>3. UNCHANGED <<sent, txSizes, pipe, txFifo, dataPipe, purge>>
  BY DEF WriteQueue, WriteUnchanged, adapterVars, usbVars
<1>4. /\ accepted \in Seq(Nat) /\ Len(accepted) \in Nat /\ Taken \in Nat /\ Taken <= Len(accepted)
      /\ Announced \in Nat /\ Announced <= Taken
  BY <1>1, OrderFacts
<1>5. /\ Len(sent) \in Nat /\ Len(txSizes) \in Nat /\ Len(sent) + Len(txSizes) <= Len(accepted)
  BY <1>1, SizesWithin
<1> HIDE DEF x
<1>6. /\ Len(accepted') = Len(accepted) + 1
      /\ \A i \in 1..Len(accepted) : accepted'[i] = accepted[i]
  BY <1>2, <1>4, AppendIndexes
<1>7. SizesAnnounced'
  <2>1. PICK N : Counts(N, pipe, accepted, Len(sent) + Len(txSizes), Announced)
    BY <1>1 DEF SizesAnnounced
  <2>2. Len(pipe) \in Nat /\ Announced <= Len(accepted)
    <3>1. pipe \in Seq(Commands)
      BY DEF TypeInv, TypeOK
    <3> HIDE DEF Commands
    <3> QED
      BY <1>4, <3>1
  <2>3. Counts(N, pipe, accepted', Len(sent) + Len(txSizes), Announced)
    BY <1>2, <1>4, <2>1, <2>2, CountsExtend
  <2>4. \A i \in 1..Len(txSizes) : Len(sent) + i \in 1..Len(accepted)
    BY <1>4, <1>5
  <2>5. \A i \in 1..Len(txSizes) : txSizes[i] = accepted'[Len(sent) + i]
    BY <1>1, <1>6, <2>4 DEF SizesAnnounced
  <2> QED
    BY <1>2, <1>3, <2>3, <2>5 DEF SizesAnnounced
<1>8. BytesPlaced'
  <2>1. PICK W : Placed(W)
    BY <1>1 DEF BytesPlaced
  <2>2. PICK D : Chunks(D, W, accepted, dataPipe,
                        W[Len(sent)] + Len(txFifo), W[Taken] - Align4(PendingLength))
    BY <2>1 DEF Placed
  <2>3. PICK V : Words(V, Append(accepted, x)) /\ \A k \in 0..Len(accepted) : V[k] = W[k]
    BY <1>2, <1>4, <2>1, WordsExtend DEF Placed
  <2>4. Len(sent) \in 0..Len(accepted) /\ Taken \in 0..Len(accepted)
    BY <1>4, <1>5
  <2>5. V[Len(sent)] = W[Len(sent)] /\ V[Taken] = W[Taken]
    BY <2>3, <2>4
  <2>6. Laid(V, Append(accepted, x), txFifo, W[Len(sent)])
    BY <1>2, <1>4, <2>1, <2>3, LaidExtend DEF Placed
  <2>7. Chunks(D, V, Append(accepted, x), dataPipe,
               W[Len(sent)] + Len(txFifo), W[Taken] - Align4(PendingLength))
    BY <1>2, <1>4, <2>2, <2>3, ChunksExtend
  <2>8. /\ Words(V, accepted') /\ Laid(V, accepted', txFifo', V[Len(sent')])
        /\ Chunks(D, V, accepted', dataPipe',
                  V[Len(sent')] + Len(txFifo'), V[Taken'] - Align4(PendingLength'))
    BY <1>2, <1>3, <2>3, <2>5, <2>6, <2>7
  <2> QED
    BY <2>8 DEF Placed, BytesPlaced
<1>9. WireIntact' /\ NoReset'
  <2>1. \A k \in DOMAIN sent : k \in 1..Len(accepted)
    <3>1. DOMAIN sent = 1..Len(sent)
      <4> DEFINE S == Seq(Bytes)
      <4>1. sent \in Seq(S)
        BY DEF TypeInv, TypeOK
      <4> HIDE DEF S
      <4> QED
        BY <4>1
    <3> QED
      BY <1>4, <1>5, <3>1
  <2> QED
    BY <1>1, <1>3, <1>4, <1>6, <2>1 DEF WireIntact, NoReset
<1> QED
  BY <1>2, <1>7, <1>8, <1>9 DEF OrderInv

LEMMA OrderTake ==
    ASSUME TxAssumption, TypeInv, OrderInv, NEW w \in Workers, OframeTake(w),
           pending_oframe = None, ~IsEmptyList(queued_oframes)
    PROVE  OrderInv'
<1>1. FramesCut /\ SizesAnnounced /\ BytesPlaced /\ NoReset /\ WireIntact
  BY DEF OrderInv
<1>2. /\ FramesCut' /\ Taken' = Taken + 1 /\ Taken + 1 \in 1..Len(accepted)
      /\ PendingLength = 0 /\ PendingLength' = accepted[Taken + 1] /\ Announced' = Announced
  BY <1>1, CutTake
<1>3. UNCHANGED <<accepted, sent, txSizes, pipe, txFifo, dataPipe, purge>>
  BY DEF OframeTake, WorkerUnchanged, writeVars, adapterVars
<1>4. accepted \in Seq(Nat) /\ Taken \in Nat /\ Len(accepted) \in Nat
      /\ accepted[Taken + 1] \in Nat
  BY <1>1, <1>2, OrderFacts
<1>5. SizesAnnounced' /\ WireIntact' /\ NoReset'
  BY <1>1, <1>2, <1>3, SizesStill DEF WireIntact, NoReset
<1>6. BytesPlaced'
  <2>1. PICK W : Placed(W)
    BY <1>1 DEF BytesPlaced
  <2>2. PICK D : Chunks(D, W, accepted, dataPipe,
                        W[Len(sent)] + Len(txFifo), W[Taken] - Align4(PendingLength))
    BY <2>1 DEF Placed
  <2>3. Align4(0) = 0 /\ Align4(accepted[Taken + 1]) \in Nat
    BY <1>4, Align4Facts DEF Align4
  <2>4. W[Taken] \in Nat /\ W[Taken + 1] = W[Taken] + Align4(accepted[Taken + 1])
    <3>1. (Taken + 1) - 1 = Taken /\ Taken \in 0..Len(accepted)
      BY <1>2, <1>4
    <3> QED
      BY <1>2, <2>1, <3>1 DEF Placed, Words
  <2>5. W[Taken'] - Align4(PendingLength') = W[Taken] - Align4(PendingLength)
    BY <1>2, <2>3, <2>4
  <2> QED
    BY <1>3, <2>1, <2>2, <2>5 DEF Placed, BytesPlaced
<1> QED
  BY <1>2, <1>5, <1>6 DEF OrderInv

LEMMA OrderSend ==
    ASSUME TxAssumption, TypeInv, OrderInv, NEW w \in Workers, OframeSend(w)
    PROVE  OrderInv'
<1> DEFINE chunk == Chunk(pending_oframe)
           t == TransmitLength(pending_oframe)
<1>1. FramesCut /\ SizesAnnounced /\ BytesPlaced /\ NoReset /\ WireIntact
  BY DEF OrderInv
<1>2. /\ FramesCut' /\ Taken' = Taken /\ Announced' = Announced
      /\ Align4(PendingLength') = Align4(PendingLength) - t
  BY <1>1, CutSend
<1>3. /\ UNCHANGED <<accepted, sent, txSizes, pipe, txFifo, purge>>
      /\ dataPipe' = Append(dataPipe, chunk) /\ t >= 1 /\ worker[w].pc = "send"
  BY DEF OframeSend, WorkerUnchanged, writeVars, adapterVars
<1>4. pending_oframe # None
  <2>1. lock = w /\ lock # None
    BY <1>3 DEF TypeInv, LocksExclude, Holding, TxAssumption
  <2> QED
    BY <1>1, <2>1, OrderFacts
<1>5. SizesAnnounced' /\ WireIntact' /\ NoReset'
  BY <1>1, <1>2, <1>3, SizesStill DEF WireIntact, NoReset
<1>6. BytesPlaced'
  <2>1. PICK W : Placed(W)
    BY <1>1 DEF BytesPlaced
  <2> DEFINE from == W[Len(sent)] + Len(txFifo)
             to == W[Taken] - Align4(PendingLength)
  <2>2. PICK D : Chunks(D, W, accepted, dataPipe, from, to)
    BY <2>1 DEF Placed
  <2>3. /\ chunk \in Seq(Bytes) /\ Len(chunk) = t /\ to \in Nat /\ Laid(W, accepted, chunk, to)
    BY <1>1, <1>3, <1>4, <2>1, ChunkPlaced DEF Placed
  <2>4. dataPipe \in Seq(Seq(Bytes))
    BY DEF TypeInv, TypeOK
  <2>5. W[Taken'] - Align4(PendingLength') = to + t
    <3>1. W[Taken] \in Nat /\ Align4(PendingLength) \in Nat
      <4>1. Taken \in 0..Len(accepted) /\ PendingLength \in Nat
        BY <1>1, OrderFacts
      <4> QED
        BY <2>1, <4>1, Align4Facts DEF Placed, Words
    <3>2. t \in Nat
      BY <2>3
    <3> QED
      BY <1>2, <3>1, <3>2
  <2> HIDE DEF chunk, t, to, from
  <2>6. \E E : Chunks(E, W, accepted, Append(dataPipe, chunk), from, to + t)
    BY <2>2, <2>3, <2>4, ChunksAppend
  <2>7. /\ W[Len(sent')] + Len(txFifo') = from
    BY <1>3 DEF from
  <2>8. \E E : Chunks(E, W, accepted', dataPipe',
                      W[Len(sent')] + Len(txFifo'), W[Taken'] - Align4(PendingLength'))
    BY <1>3, <2>5, <2>6, <2>7
  <2>9. Words(W, accepted') /\ Laid(W, accepted', txFifo', W[Len(sent')])
    BY <1>3, <2>1 DEF Placed
  <2> QED
    BY <2>8, <2>9 DEF Placed, BytesPlaced
<1> QED
  BY <1>2, <1>5, <1>6 DEF OrderInv

LEMMA OrderCommand ==
    ASSUME TxAssumption, TypeInv, OrderInv, NEW w \in Workers, OframeCommand(w)
    PROVE  OrderInv'
<1> DEFINE first == worker[w].first
           size == IF first THEN pending_oframe.frame_size ELSE 0
           after == pipe \o (IF first THEN <<[op |-> "BC_FIFO_L", value |-> size]>> ELSE <<>>)
                         \o TransmitCommands
<1>1. FramesCut /\ SizesAnnounced /\ BytesPlaced /\ NoReset /\ WireIntact
  BY DEF OrderInv
<1>2. /\ FramesCut' /\ Taken' = Taken /\ PendingLength' = PendingLength /\ Announced' = Taken
      /\ IF first
         THEN Taken = Announced + 1 /\ pending_oframe.frame_size = accepted[Taken]
         ELSE Taken = Announced
  BY <1>1, CutCommand
<1>3. UNCHANGED <<accepted, sent, txSizes, txFifo, dataPipe, purge>>
  BY DEF OframeCommand, WorkerUnchanged, writeVars, adapterVars
<1>4. pipe' = after
  <2>1. CASE first
    BY <2>1 DEF OframeCommand, SizeCommand
  <2>2. CASE ~first
    BY <2>2 DEF OframeCommand, SizeCommand
  <2> QED
    BY <2>1, <2>2
<1>5. first \in BOOLEAN /\ Announced \in Nat /\ Taken \in Nat /\ size \in Nat
  <2>1. first \in BOOLEAN
    BY DEF TypeInv, TypeOK, WorkerStates
  <2>2. Announced \in Nat /\ Taken \in Nat
    BY <1>1, OrderFacts
  <2>3. size \in Nat
    <3>1. CASE first
      <4>1. Taken \in 1..Len(accepted)
        <5>1. lock = w /\ lock # None
          BY <1>1, OrderFacts DEF OframeCommand, Busy
        <5> QED
          BY <1>1, <5>1, OrderFacts
      <4>2. accepted[Taken] \in Nat
        BY <1>1, <4>1, OrderFacts
      <4> QED
        BY <1>2, <3>1, <4>2
    <3>2. CASE ~first
      BY <3>2
    <3> QED
      BY <3>1, <3>2
  <2> QED
    BY <2>1, <2>2, <2>3
<1>6. IF first THEN Taken = Announced + 1 /\ size = accepted[Taken] ELSE Taken = Announced
  BY <1>2
<1>7. /\ \E M : Counts(M, after, accepted, Len(sent) + Len(txSizes), Taken)
      /\ (\A j \in 1..Len(pipe) : pipe[j].op # "TRES") => \A j \in 1..Len(after) : after[j].op # "TRES"
  <2> HIDE DEF first, size
  <2> QED
    BY <1>1, <1>5, <1>6, CommandsSent
<1> HIDE DEF after
<1>8. SizesAnnounced'
  BY <1>1, <1>2, <1>3, <1>4, <1>7 DEF SizesAnnounced
<1>9. BytesPlaced'
  BY <1>1, <1>2, <1>3, PlacedStill
<1>10. WireIntact' /\ NoReset'
  BY <1>1, <1>3, <1>4, <1>7 DEF WireIntact, NoReset
<1> QED
  BY <1>2, <1>8, <1>9, <1>10 DEF OrderInv

\* A step of the adapter or of a completion touches neither the frames of the
\* driver nor the program points of the workers.
LEMMA CutOutside ==
    ASSUME TxAssumption, TypeInv, FramesCut,
           UNCHANGED <<accepted, queued_oframes, pending_oframe, worker, evt>>
    PROVE  /\ FramesCut' /\ Taken' = Taken /\ PendingLength' = PendingLength
           /\ Announced' = Announced
<1>1. evt'.pc # "idle" => evt'.length \in WriteLengths \ {0}
  BY DEF FramesCut
<1> QED
  BY <1>1, CutStill

LEMMA OrderArrives ==
    ASSUME TxAssumption, TypeInv, OrderInv, DataArrives
    PROVE  OrderInv'
<1>1. FramesCut /\ SizesAnnounced /\ BytesPlaced /\ NoReset /\ WireIntact
  BY DEF OrderInv
<1>2. /\ UNCHANGED <<accepted, queued_oframes, pending_oframe, worker, evt>>
      /\ UNCHANGED <<sent, txSizes, pipe, purge>>
      /\ dataPipe # <<>> /\ txFifo' = txFifo \o Head(dataPipe) /\ dataPipe' = Tail(dataPipe)
  BY DEF DataArrives, CompletionUnchanged, writeVars, queueVars, workerVars
<1>3. /\ FramesCut' /\ Taken' = Taken /\ PendingLength' = PendingLength /\ Announced' = Announced
  BY <1>1, <1>2, CutOutside
<1>4. SizesAnnounced' /\ WireIntact' /\ NoReset'
  BY <1>1, <1>2, <1>3, SizesStill DEF WireIntact, NoReset
<1>5. BytesPlaced'
  <2>1. PICK W : Placed(W)
    BY <1>1 DEF BytesPlaced
  <2> DEFINE start == W[Len(sent)]
             from == start + Len(txFifo)
             to == W[Taken] - Align4(PendingLength)
  <2>2. PICK D : Chunks(D, W, accepted, dataPipe, from, to)
    BY <2>1 DEF Placed
  <2>3. dataPipe \in Seq(Seq(Bytes)) /\ txFifo \in Seq(Bytes)
    BY DEF TypeInv, TypeOK
  <2>4. Head(dataPipe) \in Seq(Bytes)
    <3> DEFINE S == Seq(Bytes)
    <3>1. dataPipe \in Seq(S)
      BY <2>3
    <3> HIDE DEF S
    <3>2. Head(dataPipe) \in S
      BY <1>2, <3>1, TailIndexes
    <3> QED
      BY <3>2 DEF S
  <2>5. start \in Nat /\ Len(txFifo) \in Nat /\ Len(Head(dataPipe)) \in Nat
    <3>1. Len(sent) \in 0..Len(accepted)
      BY <1>1, SizesWithin, OrderFacts
    <3> QED
      BY <2>1, <2>3, <2>4, <3>1 DEF Placed, Words
  <2>6. /\ Laid(W, accepted, Head(dataPipe), from)
        /\ \E E : Chunks(E, W, accepted, Tail(dataPipe), from + Len(Head(dataPipe)), to)
    <3> HIDE DEF from, to
    <3> QED
      BY <1>2, <2>2, <2>3, ChunksTail
  <2>7. Laid(W, accepted, txFifo, start)
    BY <2>1 DEF Placed
  <2> HIDE DEF start, to
  <2>8. Laid(W, accepted, txFifo \o Head(dataPipe), start)
    BY <2>3, <2>4, <2>5, <2>6, <2>7, LaidConcat
  <2>9. Len(txFifo \o Head(dataPipe)) = Len(txFifo) + Len(Head(dataPipe))
    BY <2>3, <2>4, ConcatProperties
  <2>10. start + Len(txFifo') = from + Len(Head(dataPipe))
    <3>1. Len(txFifo') = Len(txFifo) + Len(Head(dataPipe))
      BY <1>2, <2>9
    <3> DEFINE old == Len(txFifo)
               new == Len(txFifo')
               more == Len(Head(dataPipe))
    <3>2. start \in Nat /\ old \in Nat /\ more \in Nat /\ new = old + more
      BY <2>5, <3>1
    <3> HIDE DEF old, new, more
    <3>3. start + new = (start + old) + more
      BY <3>2
    <3> QED
      BY <3>3 DEF old, new, more
  <2>11. W[Len(sent')] = start /\ W[Taken'] - Align4(PendingLength') = to
    BY <1>2, <1>3 DEF start, to
  <2> HIDE DEF from
  <2>12. /\ Words(W, accepted') /\ Laid(W, accepted', txFifo', W[Len(sent')])
         /\ \E E : Chunks(E, W, accepted', dataPipe',
                          W[Len(sent')] + Len(txFifo'), W[Taken'] - Align4(PendingLength'))
    <3>1. Words(W, accepted)
      BY <2>1 DEF Placed
    <3> QED
      BY <1>2, <2>6, <2>8, <2>10, <2>11, <3>1
  <2> QED
    BY <2>12 DEF Placed, BytesPlaced
<1> QED
  BY <1>3, <1>4, <1>5 DEF OrderInv

LEMMA OrderExecute ==
    ASSUME TxAssumption, TypeInv, OrderInv, ExecuteSize \/ ExecuteFifoCount \/ ExecuteTransmit
    PROVE  OrderInv'
<1>1. FramesCut /\ SizesAnnounced /\ BytesPlaced /\ NoReset /\ WireIntact
  BY DEF OrderInv
<1>2. /\ UNCHANGED <<accepted, queued_oframes, pending_oframe, worker, evt>>
      /\ UNCHANGED <<sent, txFifo, dataPipe, purge>>
      /\ pipe # <<>> /\ pipe' = Tail(pipe)
      /\ IF Head(pipe).op = "BC_FIFO_L"
         THEN txSizes' = Append(txSizes, Head(pipe).value)
         ELSE txSizes' = txSizes
  BY DEF ExecuteSize, ExecuteFifoCount, ExecuteTransmit, Execute, AdapterUnchanged, writeVars,
         queueVars, workerVars, usbVars, adapterVars
<1>3. /\ FramesCut' /\ Taken' = Taken /\ PendingLength' = PendingLength /\ Announced' = Announced
  BY <1>1, <1>2, CutOutside
<1>4. Announced \in Nat
  BY <1>1, OrderFacts
<1>5. SizesAnnounced'
  BY <1>1, <1>2, <1>3, <1>4, CommandTaken
<1>6. BytesPlaced'
  BY <1>1, <1>2, <1>3, PlacedStill
<1>7. WireIntact' /\ NoReset'
  <2>1. /\ Len(pipe') = Len(pipe) - 1 /\ Len(pipe) \in Nat
        /\ \A j \in 1..Len(pipe) - 1 : pipe'[j] = pipe[j + 1]
    <3>1. pipe \in Seq(Commands)
      BY DEF TypeInv, TypeOK
    <3> HIDE DEF Commands
    <3> QED
      BY <1>2, <3>1, TailIndexes
  <2>2. \A j \in 1..Len(pipe') : j + 1 \in 1..Len(pipe) /\ pipe'[j] = pipe[j + 1]
    BY <2>1
  <2> QED
    BY <1>1, <1>2, <2>2 DEF WireIntact, NoReset
<1> QED
  BY <1>3, <1>5, <1>6, <1>7 DEF OrderInv

LEMMA OrderWire ==
    ASSUME TxAssumption, TypeInv, OrderInv, WireFrame
    PROVE  OrderInv' /\ Len(sent) + 1 \in 1..Len(accepted)
           /\ sent' = Append(sent, FrameBytes(Len(sent) + 1, accepted[Len(sent) + 1]))
<1> DEFINE k == Len(sent) + 1
           size == Head(txSizes)
<1>1. FramesCut /\ SizesAnnounced /\ BytesPlaced /\ NoReset /\ WireIntact
  BY DEF OrderInv
<1>2. /\ UNCHANGED <<accepted, queued_oframes, pending_oframe, worker, evt>>
      /\ UNCHANGED <<pipe, dataPipe, purge>>
      /\ txSizes # <<>> /\ Len(txFifo) >= Align4(size)
      /\ sent' = Append(sent, SubSeq(txFifo, 1, size))
      /\ txFifo' = SubSeq(txFifo, Align4(size) + 1, Len(txFifo))
      /\ txSizes' = Tail(txSizes)
  BY DEF WireFrame, AdapterUnchanged, writeVars, queueVars, workerVars, usbVars
<1>3. /\ FramesCut' /\ Taken' = Taken /\ PendingLength' = PendingLength /\ Announced' = Announced
  BY <1>1, <1>2, CutOutside
<1>4. /\ accepted \in Seq(Nat) /\ Len(accepted) \in Nat
      /\ \A j \in 1..Len(accepted) : accepted[j] \in Nat
  BY <1>1, OrderFacts
<1>5. /\ txSizes \in Seq(Nat) /\ txFifo \in Seq(Bytes) /\ sent \in Seq(Seq(Bytes))
      /\ Len(txFifo) \in Nat
  BY DEF TypeInv, TypeOK
<1>6. /\ size = txSizes[1] /\ size \in Nat /\ Len(txSizes) >= 1
      /\ Len(txSizes') = Len(txSizes) - 1
      /\ \A i \in 1..Len(txSizes) - 1 : txSizes'[i] = txSizes[i + 1]
  BY <1>2, <1>5, TailIndexes
<1>7. /\ Len(sent) \in Nat /\ Len(txSizes) \in Nat
      /\ Len(sent) + Len(txSizes) <= Len(accepted)
  BY <1>1, SizesWithin
<1>8. k \in 1..Len(accepted) /\ k - 1 = Len(sent) /\ k \in Nat
  BY <1>4, <1>6, <1>7
<1>9. size = accepted[k]
  <2>1. 1 \in 1..Len(txSizes)
    BY <1>6, <1>7
  <2> QED
    BY <1>1, <1>6, <2>1 DEF SizesAnnounced
<1>10. PICK W : Placed(W)
  BY <1>1 DEF BytesPlaced
<1>11. Words(W, accepted) /\ Laid(W, accepted, txFifo, W[k - 1])
  BY <1>8, <1>10 DEF Placed
<1>12. SubSeq(txFifo, 1, size) = FrameBytes(k, size)
  <2>1. Len(txFifo) >= Align4(accepted[k])
    BY <1>2, <1>9
  <2> HIDE DEF k, size
  <2>2. SubSeq(txFifo, 1, accepted[k]) = FrameBytes(k, accepted[k])
    BY <1>4, <1>5, <1>8, <1>11, <2>1, FrontFrame
  <2> QED
    BY <1>9, <2>2
<1>13. sent' = Append(sent, FrameBytes(k, accepted[k]))
  BY <1>2, <1>9, <1>12
<1>14. /\ Len(sent') = k /\ sent'[k] = FrameBytes(k, accepted[k])
       /\ \A i \in 1..Len(sent) : sent'[i] = sent[i]
       /\ DOMAIN sent' = 1..k /\ DOMAIN sent = 1..Len(sent)
  <2> DEFINE S == Seq(Bytes)
             x == SubSeq(txFifo, 1, size)
  <2>1. sent \in Seq(S)
    BY <1>5
  <2>2. x \in S
    <3>1. Align4(size) \in Nat /\ size <= Align4(size)
      BY <1>6, Align4Facts
    <3>2. size <= Len(txFifo)
      BY <1>2, <1>5, <1>6, <3>1
    <3> HIDE DEF size
    <3> QED
      BY <1>5, <1>6, <3>2
  <2>3. sent' = Append(sent, x)
    BY <1>2
  <2>4. x = FrameBytes(k, accepted[k])
    BY <1>9, <1>12
  <2> HIDE DEF S, x
  <2>5. /\ Len(sent') = Len(sent) + 1 /\ sent'[Len(sent) + 1] = x /\ sent' \in Seq(S)
        /\ \A i \in 1..Len(sent) : sent'[i] = sent[i]
    BY <2>1, <2>2, <2>3, AppendIndexes
  <2>6. DOMAIN sent' = 1..Len(sent') /\ DOMAIN sent = 1..Len(sent)
    BY <2>1, <2>5
  <2> QED
    BY <2>4, <2>5, <2>6
<1> HIDE DEF size
<1>15. SizesAnnounced'
  <2>1. PICK N : Counts(N, pipe, accepted, Len(sent) + Len(txSizes), Announced)
    BY <1>1 DEF SizesAnnounced
  <2>2. Len(sent') + Len(txSizes') = Len(sent) + Len(txSizes)
    BY <1>6, <1>7, <1>14
  <2>3. \A i \in 1..Len(txSizes') : i + 1 \in 1..Len(txSizes) /\ Len(sent) + (i + 1) = k + i
    BY <1>6, <1>7
  <2>4. \A i \in 1..Len(txSizes') : txSizes'[i] = accepted[k + i]
    <3> TAKE i \in 1..Len(txSizes')
    <3>1. txSizes'[i] = txSizes[i + 1]
      BY <1>6
    <3>2. i + 1 \in 1..Len(txSizes) /\ Len(sent) + (i + 1) = k + i
      BY <2>3
    <3>3. txSizes[i + 1] = accepted[Len(sent) + (i + 1)]
      BY <1>1, <3>2 DEF SizesAnnounced
    <3> QED
      BY <3>1, <3>2, <3>3
  <2>5. Counts(N, pipe', accepted', Len(sent') + Len(txSizes'), Announced')
    BY <1>2, <1>3, <2>1, <2>2
  <2> HIDE DEF k
  <2> QED
    BY <1>2, <1>14, <2>4, <2>5 DEF SizesAnnounced
<1>16. BytesPlaced'
  <2> DEFINE c == Align4(accepted[k])
             to == W[Taken] - Align4(PendingLength)
  <2>1. PICK D : Chunks(D, W, accepted, dataPipe, W[k - 1] + Len(txFifo), to)
    BY <1>8, <1>10 DEF Placed
  <2>2. c \in Nat /\ c <= Len(txFifo)
    BY <1>2, <1>4, <1>8, <1>9, Align4Facts
  <2>3. W[k - 1] \in Nat /\ W[k] = W[k - 1] + c
    <3>1. k - 1 \in 0..Len(accepted)
      BY <1>4, <1>8
    <3> QED
      BY <1>8, <1>11, <3>1 DEF Words
  <2>4. txFifo' = SubSeq(txFifo, c + 1, Len(txFifo))
    BY <1>2, <1>9
  <2> HIDE DEF k, c, to
  <2>5. Laid(W, accepted, SubSeq(txFifo, c + 1, Len(txFifo)), W[k - 1] + c)
    BY <1>5, <1>11, <2>2, <2>3, LaidRest
  <2>6. Len(txFifo') = Len(txFifo) - c
    BY <1>5, <2>2, <2>4
  <2>7. W[k] + Len(txFifo') = W[k - 1] + Len(txFifo)
    BY <1>5, <2>2, <2>3, <2>6
  <2>8. /\ Words(W, accepted') /\ Laid(W, accepted', txFifo', W[Len(sent')])
        /\ Chunks(D, W, accepted', dataPipe',
                  W[Len(sent')] + Len(txFifo'), W[Taken'] - Align4(PendingLength'))
    BY <1>2, <1>3, <1>11, <1>14, <2>1, <2>3, <2>4, <2>5, <2>7 DEF to
  <2> QED
    BY <2>8 DEF Placed, BytesPlaced
<1>17. WireIntact' /\ NoReset'
  <2>1. \A i \in 1..k : i \in 1..Len(sent) \/ i = k
    BY <1>7
  <2>2. k <= Len(accepted)
    BY <1>4, <1>8
  <2> HIDE DEF k
  <2> QED
    BY <1>1, <1>2, <1>14, <2>1, <2>2 DEF WireIntact, NoReset
<1> QED
  BY <1>3, <1>8, <1>13, <1>15, <1>16, <1>17 DEF OrderInv

\* Every other step leaves the writes and the frames on the wire alone.
LEMMA OrderOthers ==
    ASSUME TxAssumption, Faultless, TypeInv, OrderInv, [Next]_vars, ~WriteQueue, ~WireFrame
    PROVE  OrderInv' /\ UNCHANGED <<accepted, sent>>
<1>1. FramesCut /\ SizesAnnounced /\ BytesPlaced /\ NoReset /\ WireIntact
  BY DEF OrderInv
<1>2. ~WriteNoMemory /\ ~PurgeReset /\ \A w \in Workers : ~OframeSendFails(w)
  <2>1. bound.failures \in Nat /\ bound.purges \in Nat
    BY DEF TypeInv, TypeOK
  <2>2. ~(bound.failures < MaxFailures) /\ ~(bound.purges < MaxPurges)
    BY <2>1 DEF Faultless
  <2> QED
    BY <2>2 DEF WriteNoMemory, PurgeReset, OframeSendFails, Fail
<1>3. ~PurgeStep
  BY <1>1 DEF NoReset, PurgeStep, PurgeQueued, PurgePending, PurgeDrain
<1>4. ~ExecuteTransmitReset
  <2>1. pipe # <<>> => 1 \in 1..Len(pipe) /\ Head(pipe) = pipe[1]
    <3>1. pipe \in Seq(Commands)
      BY DEF TypeInv, TypeOK
    <3> HIDE DEF Commands
    <3> QED
      BY <3>1
  <2> QED
    BY <1>1, <2>1 DEF NoReset, ExecuteTransmitReset, Execute
<1>5. worker \in [Workers -> WorkerStates]
  BY DEF TypeInv, TypeOK
<1>6. CASE \/ WriteArrives \/ WriteUsageQueued \/ WriteUsagePending \/ WriteTooBig \/ Timer
           \/ UNCHANGED vars
  <2>1. /\ UNCHANGED <<accepted, queued_oframes, pending_oframe, worker>>
        /\ UNCHANGED <<sent, txSizes, pipe, txFifo, dataPipe, purge>>
    BY <1>6
    DEF WriteArrives, WriteUsageQueued, WriteUsagePending, WriteTooBig, Refuse, Timer, WriteUnchanged,
        vars, writeVars, queueVars, workerVars, usbVars, adapterVars
  <2>2. evt'.pc # "idle" => evt'.length \in WriteLengths \ {0}
    <3>1. evt.pc # "idle" => evt.length \in WriteLengths \ {0}
      BY <1>1 DEF FramesCut
    <3>2. CASE WriteArrives
      <4>1. PICK length \in WriteLengths :
              evt' = IF length = 0 THEN IdleWrite
                     ELSE [pc |-> "queued", length |-> length, usage |-> 0]
        BY <3>2 DEF WriteArrives
      <4> QED
        BY <4>1 DEF IdleWrite
    <3>3. CASE WriteUsageQueued \/ WriteUsagePending
      <4>1. /\ evt.pc # "idle" /\ evt'.length = evt.length
        BY <3>3 DEF WriteUsageQueued, WriteUsagePending, TypeInv, TypeOK
      <4> QED
        BY <3>1, <4>1
    <3>4. CASE WriteTooBig
      BY <3>4 DEF WriteTooBig, IdleWrite
    <3>5. CASE Timer \/ UNCHANGED vars
      BY <3>1, <3>5 DEF Timer, vars, writeVars
    <3> QED
      BY <1>6, <3>2, <3>3, <3>4, <3>5
  <2>3. /\ FramesCut' /\ Taken' = Taken /\ PendingLength' = PendingLength /\ Announced' = Announced
    BY <1>1, <2>1, <2>2, CutStill
  <2> QED
    BY <2>1, <2>3, OrderStill
<1>7. ASSUME NEW w \in Workers, OframeStart(w) \/ oframe_worker(w)
      PROVE  OrderInv' /\ UNCHANGED <<accepted, sent>>
  <2>1. UNCHANGED <<accepted, sent, evt>>
    BY <1>7
    DEF OframeStart, oframe_worker, OframeCheck, OframeTake, OframeEmpty, OframeSend, OframeLoad,
        OframeStore, OframeCommand, WorkerUnchanged, writeVars, adapterVars
  <2>2. CASE OframeTake(w) /\ pending_oframe = None /\ ~IsEmptyList(queued_oframes)
    BY <2>1, <2>2, OrderTake
  <2>3. CASE OframeSend(w)
    BY <2>1, <2>3, OrderSend
  <2>4. CASE OframeCommand(w)
    BY <2>1, <2>4, OrderCommand
  <2>5. CASE \/ OframeStart(w) \/ OframeCheck(w) \/ OframeEmpty(w) \/ OframeLoad(w) \/ OframeStore(w)
             \/ OframeTake(w) /\ ~(pending_oframe = None /\ ~IsEmptyList(queued_oframes))
    <3>1. /\ UNCHANGED <<queued_oframes, pending_oframe>>
          /\ UNCHANGED <<txSizes, pipe, txFifo, dataPipe, purge>>
      BY <2>5
      DEF OframeStart, OframeCheck, OframeTake, OframeEmpty, OframeLoad, OframeStore,
          WorkerUnchanged, queueVars, adapterVars
    <3>2. /\ worker'[w].pc \in Busy <=> worker[w].pc \in Busy
          /\ worker[w].pc \in Busy => worker'[w].first = worker[w].first
      <4>1. CASE OframeStart(w) \/ OframeCheck(w)
        BY <1>5, <4>1 DEF OframeStart, OframeCheck, Busy, WorkerStates
      <4>2. CASE OframeEmpty(w) \/ OframeTake(w)
        BY <1>5, <4>2 DEF OframeEmpty, OframeTake, Busy, WorkerStates, IdleWorker
      <4>3. CASE OframeLoad(w) \/ OframeStore(w)
        BY <1>5, <4>3 DEF OframeLoad, OframeStore, Busy, WorkerStates
      <4> QED
        BY <2>5, <4>1, <4>2, <4>3
    <3>3. \A v \in Workers : v # w => worker'[v] = worker[v]
      BY <1>5, <2>5 DEF OframeStart, OframeCheck, OframeEmpty, OframeLoad, OframeStore, OframeTake
    <3>4. \A v \in Workers : /\ worker'[v].pc \in Busy <=> worker[v].pc \in Busy
                             /\ worker[v].pc \in Busy => worker'[v].first = worker[v].first
      BY <3>2, <3>3
    <3>5. evt'.pc # "idle" => evt'.length \in WriteLengths \ {0}
      BY <1>1, <2>1 DEF FramesCut
    <3>6. /\ FramesCut' /\ Taken' = Taken /\ PendingLength' = PendingLength /\ Announced' = Announced
      BY <1>1, <2>1, <3>1, <3>4, <3>5, CutStill
    <3> QED
      BY <2>1, <3>1, <3>6, OrderStill
  <2> QED
    BY <1>7, <2>2, <2>3, <2>4, <2>5 DEF oframe_worker
<1>8. CASE DataArrives
  BY <1>8, OrderArrives DEF DataArrives, CompletionUnchanged, writeVars
<1>9. CASE TxCompletionLoad \/ TxCompletionStore
  <2>1. /\ UNCHANGED <<accepted, queued_oframes, pending_oframe, worker, evt>>
        /\ UNCHANGED <<sent, txSizes, pipe, txFifo, dataPipe, purge>>
    BY <1>9
    DEF TxCompletionLoad, TxCompletionStore, CompletionUnchanged, writeVars, queueVars, workerVars
  <2>2. /\ FramesCut' /\ Taken' = Taken /\ PendingLength' = PendingLength /\ Announced' = Announced
    BY <1>1, <2>1, CutOutside
  <2> QED
    BY <2>1, <2>2, OrderStill
<1>10. CASE ExecuteSize \/ ExecuteFifoCount \/ ExecuteTransmit
  BY <1>10, OrderExecute
  DEF ExecuteSize, ExecuteFifoCount, ExecuteTransmit, AdapterUnchanged, writeVars, adapterVars
<1>11. CASE Next
  BY <1>2, <1>3, <1>4, <1>6, <1>7, <1>8, <1>9, <1>10, <1>11
  DEF Next, EvtIoWrite, DataCompletion, Adapter
<1> QED
  BY <1>6, <1>11

LEMMA OrderStep ==
    ASSUME TxAssumption, Faultless, TypeInv, OrderInv, [Next]_vars
    PROVE  OrderInv'
BY OrderQueue, OrderWire, OrderOthers

\* The frames on the wire are the writes that were accepted: each whole, in
\* order, none twice, for any number of workers, writes and lengths
\* (oframe_worker sends a frame in chunks of words, and its size by another
\* pipe after the first of them).
THEOREM WireStaysIntact ==
    ASSUME MaxPurges = 0, MaxFailures = 0
    PROVE  Spec => []WireIntact
<1>1. Init => TypeInv /\ OrderInv
  BY TypeInit, OrderInit, TxAssumption
<1>2. TypeInv /\ OrderInv /\ [Next]_vars => (TypeInv /\ OrderInv)'
  BY TypeStep, OrderStep, TxAssumption DEF Faultless
<1>3. OrderInv => WireIntact
  BY DEF OrderInv
<1> QED
  BY <1>1, <1>2, <1>3, PTL DEF Spec

----------------------------------------------------------------------------
(* The refinement of the frame channel. *)

Entered == [k \in DOMAIN accepted |-> FrameBytes(k, accepted[k])]

LEMMA ChannelInit == ASSUME Init PROVE Channel!Init
<1>1. accepted = <<>> /\ sent = <<>>
  BY DEF Init
<1>2. [k \in DOMAIN <<>> |-> FrameBytes(k, <<>>[k])] = <<>>
  OBVIOUS
<1> QED
  BY <1>1, <1>2 DEF Channel!Init

LEMMA ChannelStep ==
    ASSUME TxAssumption, Faultless, TypeInv, OrderInv, [Next]_vars
    PROVE  [Channel!Next]_<<Entered, sent>>
<1> DEFINE n == Len(accepted)
           S == Seq(Bytes)
<1>1. accepted \in Seq(Nat) /\ n \in Nat /\ FramesCut
      /\ \A k \in 1..n : accepted[k] \in Nat
  BY OrderFacts DEF OrderInv
<1>2. CASE WriteQueue
  <2> DEFINE x == evt.length
             frame == FrameBytes(n + 1, x)
  <2>1. x \in Nat /\ accepted' = Append(accepted, x) /\ sent' = sent
    BY <1>1, <1>2, CutQueue DEF WriteQueue, WriteUnchanged, adapterVars
  <2>2. n + 1 \in 1..MaxWrites /\ x \in WriteLengths
    <3>1. evt.pc # "idle" /\ refused \in Nat /\ MaxWrites \in Nat
      BY <1>2 DEF WriteQueue, TxAssumption, TypeInv, TypeOK
    <3>2. n + refused < MaxWrites
      BY <3>1 DEF TypeInv, WritesBounded
    <3> QED
      BY <1>1, <3>1, <3>2 DEF FramesCut
  <2> HIDE DEF x
  <2>3. /\ Len(accepted') = n + 1 /\ accepted'[n + 1] = x /\ accepted' \in Seq(Nat)
        /\ \A k \in 1..n : accepted'[k] = accepted[k]
    BY <1>1, <2>1, AppendIndexes
  <2>4. Entered' = Append(Entered, frame)
    <3> DEFINE f == Entered'
               g == Entered
    <3>1. f = [k \in 1..n + 1 |-> FrameBytes(k, accepted'[k])]
          /\ g = [k \in 1..n |-> FrameBytes(k, accepted[k])]
      <4>1. DOMAIN accepted' = 1..n + 1 /\ DOMAIN accepted = 1..n
        BY <1>1, <2>3
      <4> QED
        BY <4>1 DEF Entered
    <3>2. PICK T : /\ frame \in T /\ \A k \in 1..n : FrameBytes(k, accepted[k]) \in T
      <4> WITNESS {frame} \cup {FrameBytes(k, accepted[k]) : k \in 1..n}
      <4> QED
        OBVIOUS
    <3> HIDE DEF frame, n
    <3>3. g \in Seq(T) /\ Len(g) = n /\ \A k \in 1..n : g[k] = FrameBytes(k, accepted[k])
      BY <1>1, <3>1, <3>2
    <3> DEFINE h == Append(g, frame)
    <3> HIDE DEF f, g
    <3>4. /\ h \in Seq(T) /\ Len(h) = n + 1 /\ h[n + 1] = frame
          /\ \A k \in 1..n : h[k] = g[k]
      BY <3>2, <3>3, AppendIndexes
    <3> HIDE DEF h
    <3>5. \A k \in 1..n + 1 : f[k] = h[k]
      <4>1. \A k \in 1..n + 1 : k \in 1..n \/ k = n + 1
        BY <1>1
      <4>2. \A k \in 1..n + 1 : f[k] = FrameBytes(k, accepted'[k])
        BY <3>1
      <4>3. f[n + 1] = frame
        <5>1. n + 1 \in 1..n + 1
          BY <1>1
        <5> QED
          BY <2>3, <4>2, <5>1 DEF frame
      <4>4. \A k \in 1..n : f[k] = g[k]
        <5>1. \A k \in 1..n : k \in 1..n + 1
          BY <1>1
        <5> QED
          BY <2>3, <3>3, <4>2, <5>1
      <4> QED
        BY <3>4, <4>1, <4>3, <4>4
    <3>6. h = [k \in 1..n + 1 |-> h[k]] /\ f = [k \in 1..n + 1 |-> f[k]]
      <4>1. h = [k \in 1..n + 1 |-> h[k]]
        BY <3>4
      <4>2. f = [k \in 1..n + 1 |-> f[k]]
        BY <3>1
      <4> QED
        BY <4>1, <4>2
    <3>7. f = h
      BY <3>5, <3>6
    <3> QED
      BY <3>7 DEF f, g, h
  <2>5. frame \in Writable
    BY <2>2 DEF Writable
  <2> HIDE DEF frame
  <2>6. Channel!Enter
    <3>1. \E f \in Writable : Entered' = Append(Entered, f)
      BY <2>4, <2>5
    <3>2. UNCHANGED sent
      BY <2>1
    <3> QED
      BY <3>1, <3>2, Zenon DEF Channel!Enter, Entered
  <2> QED
    BY <2>6 DEF Channel!Next
<1>3. CASE WireFrame
  <2>1. /\ Len(sent) + 1 \in 1..n
        /\ sent' = Append(sent, FrameBytes(Len(sent) + 1, accepted[Len(sent) + 1]))
    BY <1>3, OrderWire
  <2>2. Len(sent) \in Nat
    <3>1. sent \in Seq(S)
      BY DEF TypeInv, TypeOK
    <3> HIDE DEF S
    <3> QED
      BY <3>1
  <2>3. Entered' = Entered
    BY <1>3 DEF WireFrame, AdapterUnchanged, writeVars, Entered
  <2>4. Entered = [k \in 1..n |-> FrameBytes(k, accepted[k])]
    BY <1>1 DEF Entered
  <2>5. Len(Entered) = n /\ Entered[Len(sent) + 1] = FrameBytes(Len(sent) + 1, accepted[Len(sent) + 1])
    BY <1>1, <2>1, <2>4
  <2>6. Len(sent) < Len(Entered)
    BY <1>1, <2>1, <2>2, <2>5
  <2>7. Channel!Leave
    BY <2>1, <2>3, <2>5, <2>6 DEF Channel!Leave, Entered
  <2> QED
    BY <2>7 DEF Channel!Next
<1>4. CASE ~WriteQueue /\ ~WireFrame
  <2>1. UNCHANGED <<accepted, sent>>
    BY <1>4, OrderOthers
  <2> QED
    BY <2>1 DEF Entered
<1> QED
  BY <1>2, <1>3, <1>4

\* The transmit path implements the frame channel: a step accepts a write,
\* puts the oldest one that is not yet out on the wire, or changes neither end.
THEOREM TransmitsFramesInOrder ==
    ASSUME MaxPurges = 0, MaxFailures = 0
    PROVE  Spec => TransmitsInOrder
<1>1. Init => TypeInv /\ OrderInv /\ Channel!Init
  BY TypeInit, OrderInit, ChannelInit, TxAssumption
<1>2. TypeInv /\ OrderInv /\ [Next]_vars => (TypeInv /\ OrderInv)'
  BY TypeStep, OrderStep, TxAssumption DEF Faultless
<1>3. TypeInv /\ OrderInv /\ [Next]_vars => [Channel!Next]_<<Entered, sent>>
  BY ChannelStep, TxAssumption DEF Faultless
<1> QED
  BY <1>1, <1>2, <1>3, PTL DEF Spec, TransmitsInOrder, Channel!Spec, Entered

----------------------------------------------------------------------------
(* The order of the bytes, with failures and purges.  On their way to the    *)
(* wire they pass five stages; the bytes of a stage, padding aside, come     *)
(* before those of the next, and none are of a write still to be accepted.   *)

Remaining == IF pending_oframe = None THEN <<>> ELSE pending_oframe.data

Bare(bytes) == bytes \ {Pad}

Stages ==
    <<Bare(AllItems(sent)), Bare(Items(txFifo)), Bare(AllItems(dataPipe)), Bare(Items(Remaining)),
      Bare(AllItems(DataOf(queued_oframes.frames)))>>

\* The bytes of the writes accepted.
Written == {b \in Bytes : b[1] <= Len(accepted)}

StagesInv == Staged(Stages, {Pad}) /\ \A k \in 1..5 : Stages[k] \subseteq Written

PiecesInv ==
    /\ InOrder(sent, {Pad}) /\ Rising(txFifo, {Pad}) /\ InOrder(dataPipe, {Pad})
    /\ Rising(Remaining, {Pad}) /\ InOrder(DataOf(queued_oframes.frames), {Pad})

FlowInv == StagesInv /\ PiecesInv

LEMMA StageFacts ==
    /\ Len(Stages) = 5 /\ Len(Stages') = 5
    /\ Stages[1] = Bare(AllItems(sent)) /\ Stages'[1] = Bare(AllItems(sent'))
    /\ Stages[2] = Bare(Items(txFifo)) /\ Stages'[2] = Bare(Items(txFifo'))
    /\ Stages[3] = Bare(AllItems(dataPipe)) /\ Stages'[3] = Bare(AllItems(dataPipe'))
    /\ Stages[4] = Bare(Items(Remaining)) /\ Stages'[4] = Bare(Items(Remaining'))
    /\ Stages[5] = Bare(AllItems(DataOf(queued_oframes.frames)))
    /\ Stages'[5] = Bare(AllItems(DataOf(queued_oframes'.frames)))
BY DEF Stages, Bare, AllItems, Items, DataOf, Remaining

\* Padding has no place in the order.
LEMMA BareAhead ==
    ASSUME NEW A, NEW B
    PROVE  Ahead(A, B, {Pad}) <=> Ahead(Bare(A), Bare(B), {Pad})
BY DEF Ahead, Ordered, Bare

LEMMA StageAhead ==
    ASSUME StagesInv, NEW m \in 1..5, NEW n \in 1..5, m < n, NEW A, NEW B,
           Bare(A) \subseteq Stages[m], Bare(B) \subseteq Stages[n]
    PROVE  Ahead(A, B, {Pad})
<1>1. Ahead(Stages[m], Stages[n], {Pad})
  BY StageFacts DEF StagesInv, Staged
<1>2. Ahead(Bare(A), Bare(B), {Pad})
  BY <1>1 DEF Ahead
<1> QED
  BY <1>2, BareAhead

LEMMA DropFacts ==
    ASSUME StagesInv, \A k \in 1..5 : Stages'[k] \subseteq Stages[k], Written \subseteq Written'
    PROVE  StagesInv'
<1>1. Len(Stages) = 5 /\ Len(Stages') = 5
  BY StageFacts
<1>2. Staged(Stages', {Pad})
  BY <1>1 DEF StagesInv, Staged, Ahead
<1>3. \A k \in 1..5 : Stages'[k] \subseteq Written'
  BY DEF StagesInv
<1> QED
  BY <1>2, <1>3 DEF StagesInv

\* What is moved leaves one stage for the one below it; nothing else is new.
Passes(lo, hi, moved) ==
    /\ lo \in 1..5 /\ hi \in 1..5 /\ hi = lo + 1
    /\ moved \subseteq Stages[hi] /\ Stages'[lo] \subseteq Stages[lo] \cup moved
    /\ \A k \in 1..5 : k # lo => Stages'[k] \subseteq Stages[k]
    /\ Ahead(moved, Stages'[hi], {Pad})

LEMMA PassFacts ==
    ASSUME StagesInv, Written \subseteq Written',
           NEW lo, NEW hi, NEW moved, Passes(lo, hi, moved)
    PROVE  StagesInv'
<1>1. Len(Stages) = 5 /\ Len(Stages') = 5
  BY StageFacts
<1>2. Staged(Stages', {Pad})
  <2>1. /\ Staged(Stages, {Pad}) /\ Len(Stages) \in Nat /\ Len(Stages') = Len(Stages)
        /\ lo \in 1..Len(Stages) /\ hi \in 1..Len(Stages) /\ lo < hi
        /\ \A k \in 1..Len(Stages) : k # lo => Stages'[k] \subseteq Stages[k]
        /\ \A k \in 1..Len(Stages) : lo < k /\ k < hi => Stages'[k] = {}
    BY <1>1 DEF StagesInv, Passes
  <2>2. /\ moved \subseteq Stages[hi] /\ Stages'[lo] \subseteq Stages[lo] \cup moved
        /\ Ahead(moved, Stages'[hi], {Pad})
    BY DEF Passes
  <2> QED
    BY <2>1, <2>2, StagedPass
<1>3. \A k \in 1..5 : Stages'[k] \subseteq Written'
  BY DEF StagesInv, Passes
<1> QED
  BY <1>2, <1>3 DEF StagesInv

LEMMA FlowTypes ==
    ASSUME TypeInv
    PROVE  /\ sent \in Seq(Seq(Bytes)) /\ txFifo \in Seq(Bytes) /\ dataPipe \in Seq(Seq(Bytes))
           /\ Remaining \in Seq(Bytes)
           /\ queued_oframes.frames \in Seq(Oframes)
           /\ DataOf(queued_oframes.frames) \in Seq(Seq(Bytes))
           /\ \A frame \in Oframes : frame.data \in Seq(Bytes)
           /\ accepted \in Seq(Nat) /\ Len(accepted) \in Nat
<1>1. \A frame \in Oframes : frame.data \in Seq(Bytes)
  BY DEF Oframes, Frames
<1>2. queued_oframes.frames \in Seq(Oframes)
  BY DEF TypeInv, TypeOK, Lists, Oframes
<1>3. DataOf(queued_oframes.frames) \in Seq(Seq(Bytes))
  BY <1>1, <1>2, DataFacts
<1>4. /\ sent \in Seq(Seq(Bytes)) /\ txFifo \in Seq(Bytes) /\ dataPipe \in Seq(Seq(Bytes))
      /\ accepted \in Seq(Nat) /\ pending_oframe \in Oframes \cup {None}
  BY DEF TypeInv, TypeOK
<1>5. Remaining \in Seq(Bytes)
  BY <1>1, <1>4 DEF Remaining
<1> QED
  BY <1>1, <1>2, <1>3, <1>4, <1>5

LEMMA FlowInit == ASSUME Init PROVE FlowInv
<1>1. /\ sent = <<>> /\ txFifo = <<>> /\ dataPipe = <<>> /\ Remaining = <<>>
      /\ queued_oframes.frames = <<>>
  BY DEF Init, EmptyList, Remaining
<1>2. DataOf(<<>>) = <<>>
  BY DEF DataOf
<1>3. PiecesInv
  BY <1>1, <1>2, NoPieces DEF PiecesInv
<1>4. \A k \in 1..5 : Stages[k] = {}
  BY <1>1, <1>2, NoPieces, StageFacts DEF Bare
<1>5. StagesInv
  BY <1>4, StageFacts DEF StagesInv, Staged, Ahead
<1> QED
  BY <1>3, <1>5 DEF FlowInv

\* A step that moves nothing and may drop what a stage holds.
LEMMA FlowDrops ==
    ASSUME FlowInv, Written \subseteq Written', UNCHANGED <<sent, dataPipe>>,
           txFifo' \in {txFifo, <<>>}, Remaining' \in {Remaining, <<>>},
           queued_oframes'.frames \in {queued_oframes.frames, <<>>}
    PROVE  FlowInv'
<1>1. /\ StagesInv /\ PiecesInv
      /\ DataOf(<<>>) = <<>> /\ AllItems(<<>>) = {} /\ Items(<<>>) = {}
      /\ InOrder(<<>>, {Pad}) /\ Rising(<<>>, {Pad})
  BY NoPieces DEF FlowInv, DataOf
<1>2. /\ Stages'[2] \subseteq Stages[2] /\ Stages'[4] \subseteq Stages[4]
      /\ Stages'[5] \subseteq Stages[5]
  BY <1>1, StageFacts DEF Bare
<1>3. Stages'[1] \subseteq Stages[1] /\ Stages'[3] \subseteq Stages[3]
  BY StageFacts
<1>4. \A m \in 1..5 : Stages'[m] \subseteq Stages[m]
  BY <1>2, <1>3
<1>5. StagesInv'
  BY <1>1, <1>4, DropFacts
<1>6. Rising(txFifo', {Pad}) /\ Rising(Remaining', {Pad})
      /\ InOrder(DataOf(queued_oframes'.frames), {Pad})
  BY <1>1 DEF PiecesInv
<1>7. PiecesInv'
  BY <1>1, <1>6 DEF PiecesInv
<1> QED
  BY <1>5, <1>7 DEF FlowInv

\* The bytes of a write come after those of all accepted before it.
LEMMA WriteBytes ==
    ASSUME TxAssumption, TypeInv, Len(accepted) < MaxWrites, NEW length \in Nat
    PROVE  LET data == FrameBytes(Len(accepted) + 1, length)
           IN  /\ data \in Seq(Bytes) /\ Rising(data, {Pad}) /\ Ahead(Written, Items(data), {Pad})
               /\ \A b \in Items(data) : b[1] = Len(accepted) + 1
<1> DEFINE k == Len(accepted) + 1
           data == FrameBytes(k, length)
<1>1. k \in 1..MaxWrites /\ Len(accepted) \in Nat
  BY FlowTypes DEF TxAssumption
<1>2. data \in Seq(Bytes) /\ Len(data) = length
  BY <1>1, FrameBytesFacts
<1>3. \A i \in 1..length : data[i] = <<k, i>> /\ data[i][1] = k /\ data[i][2] = i
  BY DEF FrameBytes
<1> HIDE DEF data
<1>4. Rising(data, {Pad})
  BY <1>1, <1>2, <1>3 DEF Rising, Ordered, Precedes
<1>5. \A b \in Items(data) : b[1] = k
  BY <1>2, <1>3 DEF Items
<1>6. \A b \in Written : b[1] \in Int
  BY DEF Written, Bytes, Pad, TxAssumption
<1>7. Ahead(Written, Items(data), {Pad})
  BY <1>1, <1>5, <1>6 DEF Written, Ahead, Ordered, Precedes
<1> QED
  BY <1>2, <1>4, <1>5, <1>7 DEF data

\* A write is accepted, with its bytes or, when memory is short, none.
LEMMA AcceptFlow ==
    ASSUME TypeInv, FlowInv, NEW data \in Seq(Bytes), Rising(data, {Pad}),
           Ahead(Written, Items(data), {Pad}), Items(data) \subseteq Written',
           Written \subseteq Written', NEW frame \in Oframes, frame.data = data,
           queued_oframes'.frames = Append(queued_oframes.frames, frame),
           UNCHANGED <<sent, txFifo, dataPipe, pending_oframe>>
    PROVE  FlowInv'
<1> DEFINE Q == DataOf(queued_oframes.frames)
           R == DataOf(queued_oframes'.frames)
<1>1. Q \in Seq(Seq(Bytes)) /\ R = Append(Q, data)
  <2>1. DataOf(Append(queued_oframes.frames, frame))
           = Append(DataOf(queued_oframes.frames), frame.data)
    BY FlowTypes, DataAppend
  <2> QED
    BY <2>1, FlowTypes
<1> HIDE DEF Q, R
<1>2. AllItems(R) = AllItems(Q) \cup Items(data)
  BY <1>1, PieceAppend
<1>3. StagesInv /\ PiecesInv /\ InOrder(Q, {Pad}) /\ Stages[5] = Bare(AllItems(Q))
      /\ Stages'[5] = Bare(AllItems(R))
  BY StageFacts DEF FlowInv, PiecesInv, Q, R
<1>4. Ahead(AllItems(Q), Items(data), {Pad})
  <2>1. Bare(AllItems(Q)) \subseteq Written
    BY <1>3 DEF StagesInv
  <2>2. Ahead(Bare(AllItems(Q)), Bare(Items(data)), {Pad})
    BY <2>1 DEF Ahead, Bare
  <2> QED
    BY <2>2, BareAhead
<1>5. InOrder(R, {Pad})
  BY <1>1, <1>3, <1>4, PieceAppend
<1>6. \A m \in 1..5 : m # 5 => Stages'[m] = Stages[m]
  BY StageFacts DEF Remaining
<1>7. Stages'[5] = Stages[5] \cup Bare(Items(data))
  BY <1>2, <1>3 DEF Bare
<1>8. Staged(Stages', {Pad})
  <2>1. \A m \in 1..5 : Ahead(Stages[m], Bare(Items(data)), {Pad})
    BY <1>3 DEF StagesInv, Ahead, Bare
  <2>2. /\ Staged(Stages, {Pad}) /\ Len(Stages) \in Nat \ {0} /\ Len(Stages') = Len(Stages)
        /\ Stages'[Len(Stages)] \subseteq Stages[Len(Stages)] \cup Bare(Items(data))
        /\ \A m \in 1..Len(Stages) : m # Len(Stages) => Stages'[m] \subseteq Stages[m]
        /\ \A m \in 1..Len(Stages) : Ahead(Stages[m], Bare(Items(data)), {Pad})
    BY <1>3, <1>6, <1>7, <2>1, StageFacts DEF StagesInv
  <2> QED
    BY <2>2, StagedEnter
<1>9. StagesInv'
  <2>1. Bare(Items(data)) \subseteq Written'
    BY DEF Bare
  <2> QED
    BY <1>3, <1>6, <1>7, <1>8, <2>1 DEF StagesInv
<1>10. PiecesInv'
  BY <1>3, <1>5 DEF PiecesInv, Remaining, R
<1> QED
  BY <1>9, <1>10 DEF FlowInv

LEMMA QueueFlow ==
    ASSUME TxAssumption, TypeInv, FlowInv, WriteQueue \/ WriteNoMemory
    PROVE  FlowInv'
<1> DEFINE n == Len(accepted) + 1
           full == AddData(NewFrame, FrameBytes(n, evt.length))
<1>1. /\ Len(accepted) \in Nat /\ Len(accepted) < MaxWrites /\ n \in 1..MaxWrites
      /\ evt.length \in Nat /\ evt.pc = "check"
  <2>1. /\ evt.pc = "check" /\ refused \in Nat /\ evt.length \in Nat /\ Len(accepted) \in Nat
    BY FlowTypes DEF TypeInv, TypeOK, WriteQueue, WriteNoMemory
  <2> QED
    BY <2>1 DEF TypeInv, WritesBounded, TxAssumption
<1>2. UNCHANGED <<sent, txFifo, dataPipe, pending_oframe>>
  BY DEF WriteQueue, WriteNoMemory, WriteUnchanged, usbVars, adapterVars
<1>3. CASE Refuse
  <2>1. Written \subseteq Written' /\ Remaining' = Remaining /\ queued_oframes' = queued_oframes
    BY <1>2, <1>3 DEF Refuse, Written, Remaining
  <2> QED
    BY <1>2, <2>1, FlowDrops
<1>4. ASSUME NEW frame, frame \in {full, NewFrame}, Accept(frame) PROVE FlowInv'
  <2> DEFINE whole == [frame EXCEPT !.frame_size = evt.length]
  <2>1. whole \in Oframes /\ whole.data = frame.data
    <3>1. [full EXCEPT !.frame_size = evt.length] \in Oframes
      BY <1>1, NewWriteFacts
    <3>2. [NewFrame EXCEPT !.frame_size = evt.length] \in Oframes
      BY <1>1, EmptyWriteFacts
    <3> QED
      BY <1>4, <3>1, <3>2 DEF Oframes, Frames
  <2>2. /\ queued_oframes'.frames = Append(queued_oframes.frames, whole)
        /\ accepted' = Append(accepted, evt.length)
    BY <1>4 DEF Accept, AddFrame
  <2>3. Len(accepted') = n
    BY <2>2, <1>1, FlowTypes
  <2>4. Written \subseteq Written'
    <3>1. \A b \in Bytes : b[1] \in Int
      BY DEF Bytes, Pad, TxAssumption
    <3> QED
      BY <1>1, <2>3, <3>1 DEF Written
  <2>5. /\ frame.data \in Seq(Bytes) /\ Rising(frame.data, {Pad})
        /\ Ahead(Written, Items(frame.data), {Pad}) /\ Items(frame.data) \subseteq Written'
    <3>1. CASE frame = NewFrame
      <4>1. frame.data = <<>>
        BY <3>1 DEF NewFrame
      <4> QED
        BY <4>1, NoPieces DEF Ahead
    <3>2. CASE frame = full
      <4> DEFINE data == FrameBytes(n, evt.length)
      <4>1. /\ data \in Seq(Bytes) /\ Rising(data, {Pad}) /\ Ahead(Written, Items(data), {Pad})
            /\ \A b \in Items(data) : b[1] = n
        BY <1>1, WriteBytes
      <4> HIDE DEF data
      <4>2. frame.data = data
        <5>1. NewFrame \in Frames(Bytes) /\ NewFrame.data = <<>>
          BY DEF NewFrame, Frames
        <5>2. AddData(NewFrame, data).data = NewFrame.data \o data
          BY <4>1, <5>1, AddDataFacts
        <5>3. <<>> \o data = data
          BY <4>1
        <5> QED
          BY <3>2, <5>1, <5>2, <5>3 DEF data
      <4>3. Items(data) \subseteq Bytes
        BY <4>1 DEF Items
      <4>4. Items(data) \subseteq Written'
        BY <1>1, <2>3, <4>1, <4>3 DEF Written
      <4> QED
        BY <4>1, <4>2, <4>4
    <3> QED
      BY <1>4, <3>1, <3>2
  <2> HIDE DEF whole
  <2> QED
    BY <1>2, <2>1, <2>2, <2>4, <2>5, AcceptFlow
<1> QED
  BY <1>3, <1>4 DEF WriteQueue, WriteNoMemory

\* The worker takes the first queued frame.
LEMMA TakeFlow ==
    ASSUME TypeInv, FlowInv, NEW w \in Workers, OframeTake(w)
    PROVE  FlowInv'
<1>1. UNCHANGED <<sent, txFifo, dataPipe, accepted>>
  BY DEF OframeTake, WorkerUnchanged, adapterVars, writeVars
<1>2. Written \subseteq Written'
  BY <1>1 DEF Written
<1>3. CASE UNCHANGED queueVars
  <2>1. Remaining' = Remaining /\ queued_oframes' = queued_oframes
    BY <1>3 DEF queueVars, Remaining
  <2> QED
    BY <1>1, <1>2, <2>1, FlowDrops
<1>4. CASE /\ pending_oframe = None /\ ~IsEmptyList(queued_oframes)
           /\ pending_oframe' = PeekFront(queued_oframes)
           /\ queued_oframes' = RemoveFrame(queued_oframes)
  <2> DEFINE frames == queued_oframes.frames
             first == Head(frames)
             Q == DataOf(frames)
             rest == DataOf(queued_oframes'.frames)
  <2>1. frames \in Seq(Oframes) /\ frames # <<>>
    BY <1>4, FlowTypes DEF IsEmptyList
  <2>2. first \in Oframes /\ first.data \in Seq(Bytes)
    BY <2>1, FlowTypes
  <2>3. pending_oframe' = first /\ queued_oframes'.frames = Tail(frames)
    BY <1>4 DEF PeekFront, RemoveFrame
  <2>4. first # None
    BY <2>2, TxAssumption DEF Oframes, TxAssumption
  <2>5. Remaining = <<>> /\ Remaining' = first.data
    BY <1>4, <2>3, <2>4 DEF Remaining
  <2>6. Q \in Seq(Seq(Bytes)) /\ Q # <<>> /\ Head(Q) = first.data /\ rest = Tail(Q)
    <3>1. DataOf(Tail(frames)) = Tail(DataOf(frames)) /\ Head(DataOf(frames)) = Head(frames).data
          /\ DataOf(frames) # <<>> /\ DataOf(frames) \in Seq(Seq(Bytes))
      BY <2>1, FlowTypes, DataFacts
    <3> QED
      BY <2>3, <3>1
  <2>7. /\ StagesInv /\ PiecesInv /\ InOrder(Q, {Pad}) /\ Stages[5] = Bare(AllItems(Q))
        /\ Stages'[5] = Bare(AllItems(rest)) /\ Stages'[4] = Bare(Items(first.data))
    BY <2>5, StageFacts DEF FlowInv, PiecesInv
  <2> HIDE DEF Q, rest, first
  <2>8. /\ Items(first.data) \subseteq AllItems(Q) /\ AllItems(rest) \subseteq AllItems(Q)
        /\ Rising(first.data, {Pad}) /\ InOrder(rest, {Pad})
        /\ Ahead(Items(first.data), AllItems(rest), {Pad})
    BY <2>6, <2>7, PieceTail
  <2>9. StagesInv'
    <3>0. PICK moved : moved = Bare(Items(first.data))
      OBVIOUS
    <3>1. moved \subseteq Stages[5] /\ Stages'[4] \subseteq Stages[4] \cup moved
      BY <2>7, <2>8, <3>0 DEF Bare
    <3>2. Ahead(moved, Stages'[5], {Pad})
      BY <2>7, <2>8, <3>0, BareAhead
    <3>3. \A m \in 1..5 : m # 4 => Stages'[m] \subseteq Stages[m]
      <4>1. Stages'[5] \subseteq Stages[5]
        BY <2>7, <2>8 DEF Bare
      <4>2. Stages'[1] = Stages[1] /\ Stages'[2] = Stages[2] /\ Stages'[3] = Stages[3]
        BY <1>1, StageFacts
      <4> QED
        BY <4>1, <4>2
    <3>4. 4 \in 1..5 /\ 5 \in 1..5 /\ 5 = 4 + 1
      OBVIOUS
    <3>5. Passes(4, 5, moved)
      BY <3>1, <3>2, <3>3, <3>4 DEF Passes
    <3> QED
      BY <1>2, <2>7, <3>5, PassFacts
  <2>10. PiecesInv'
    BY <1>1, <2>5, <2>7, <2>8 DEF PiecesInv, rest
  <2> QED
    BY <2>9, <2>10 DEF FlowInv
<1> QED
  BY <1>3, <1>4 DEF OframeTake

\* A chunk of the pending frame goes out, its last word padded.
LEMMA SendFlow ==
    ASSUME TxAssumption, TypeInv, FlowInv, NEW w \in Workers, OframeSend(w)
    PROVE  FlowInv'
<1> DEFINE n == TransmitLength(pending_oframe)
           data == pending_oframe.data
           m == Least(n, Len(data))
           front == SubSeq(data, 1, m)
           rest == SubSeq(data, m + 1, Len(data))
           chunk == Chunk(pending_oframe)
<1>1. /\ pending_oframe \in Oframes /\ pending_oframe # None
      /\ dataPipe' = Append(dataPipe, chunk) /\ pending_oframe' = RemoveData(pending_oframe, n)
      /\ UNCHANGED <<sent, txFifo, accepted, queued_oframes>>
  <2>1. worker[w].pc = "send"
    BY DEF OframeSend
  <2>2. pending_oframe \in Oframes
    BY <2>1 DEF TypeInv, LocksExclude, Holding, TxAssumption
  <2>3. pending_oframe # None
    BY <2>2 DEF Oframes, TxAssumption
  <2> QED
    BY <2>2, <2>3 DEF OframeSend, WorkerUnchanged, adapterVars, writeVars
<1>2. /\ n \in Nat /\ chunk \in Seq(Bytes) /\ pending_oframe' \in Oframes
      /\ data \in Seq(Bytes) /\ Len(data) \in Nat /\ DataLength(pending_oframe) = Len(data)
  BY <1>1, ChunkFacts, FlowTypes DEF DataLength
<1> HIDE DEF n
<1>3. m \in Nat /\ m <= Len(data) /\ m <= n
  BY <1>2 DEF Least
<1>4. pending_oframe'.data = rest
  <2>1. pending_oframe \in Frames(Bytes)
    BY <1>1 DEF Oframes
  <2>2. RemoveData(pending_oframe, n).data
        = SubSeq(data, Least(n, DataLength(pending_oframe)) + 1, DataLength(pending_oframe))
    BY <1>2, <2>1, RemovedFacts
  <2> QED
    BY <1>1, <1>2, <2>2
<1>5. Remaining = data /\ Remaining' = rest
  <2>1. pending_oframe' # None
    BY <1>2 DEF Oframes, TxAssumption
  <2> QED
    BY <1>1, <1>4, <2>1 DEF Remaining
<1>6. /\ Len(chunk) = n
      /\ \A i \in 1..n : i <= m => chunk[i] = front[i] /\ i \in 1..Len(front)
      /\ \A i \in 1..n : i > m => chunk[i] = Pad
  <2>1. chunk = [i \in 1..n |-> IF i <= Len(data) THEN data[i] ELSE Pad]
    BY <1>2 DEF Chunk, n
  <2>2. Len(front) = m /\ \A i \in 1..m : front[i] = data[i]
    BY <1>2, <1>3
  <2>3. Len(chunk) = n /\ \A i \in 1..n : chunk[i] = IF i <= Len(data) THEN data[i] ELSE Pad
    BY <1>2, <2>1
  <2>4. \A i \in 1..n : (i <= m <=> i <= Len(data))
    BY <1>2 DEF Least
  <2> HIDE DEF chunk, front, m, data
  <2> QED
    BY <1>2, <1>3, <2>2, <2>3, <2>4
<1>7. /\ StagesInv /\ PiecesInv /\ Rising(data, {Pad}) /\ InOrder(dataPipe, {Pad})
      /\ dataPipe \in Seq(Seq(Bytes)) /\ Written \subseteq Written'
  BY <1>1, <1>5, FlowTypes DEF FlowInv, PiecesInv, Written
<1>8. /\ Items(front) \subseteq Items(data) /\ Rising(front, {Pad})
  BY <1>2, <1>3, <1>7, PrefixFacts
<1>9. Items(rest) \subseteq Items(data) /\ Rising(rest, {Pad})
  <2>1. Len(data) <= Len(data)
    BY <1>2
  <2> QED
    BY <1>2, <1>3, <1>7, <2>1, RunFacts, Zenon
<1>10. Ahead(Items(front), Items(rest), {Pad})
  BY <1>2, <1>3, <1>7, SplitFacts
<1> HIDE DEF front, rest, chunk, data, m
<1>11. Rising(chunk, {Pad}) /\ Items(chunk) \subseteq Items(front) \cup {Pad}
  <2>1. Rising(chunk, {Pad})
    BY <1>2, <1>3, <1>6, <1>8 DEF Rising, Ordered
  <2>2. Items(chunk) \subseteq Items(front) \cup {Pad}
    BY <1>2, <1>3, <1>6 DEF Items
  <2> QED
    BY <2>1, <2>2
<1>12. AllItems(dataPipe') = AllItems(dataPipe) \cup Items(chunk)
  BY <1>1, <1>2, <1>7, PieceAppend
<1>13. InOrder(dataPipe', {Pad})
  <2>1. Bare(Items(chunk)) \subseteq Stages[4] /\ Bare(AllItems(dataPipe)) \subseteq Stages[3]
    BY <1>5, <1>8, <1>11, StageFacts DEF Bare
  <2>2. Ahead(AllItems(dataPipe), Items(chunk), {Pad})
    <3>1. 3 \in 1..5 /\ 4 \in 1..5 /\ 3 < 4
      OBVIOUS
    <3> QED
      BY <1>7, <2>1, <3>1, StageAhead, Zenon
  <2> QED
    BY <1>1, <1>2, <1>7, <1>11, <2>2, PieceAppend
<1>14. StagesInv'
  <2>0. PICK moved : moved = Bare(Items(chunk))
    OBVIOUS
  <2>1. moved \subseteq Stages[4] /\ Stages'[3] \subseteq Stages[3] \cup moved
    BY <1>5, <1>8, <1>11, <1>12, <2>0, StageFacts DEF Bare
  <2>2. Ahead(moved, Stages'[4], {Pad})
    <3>1. moved \subseteq Items(front) /\ Stages'[4] \subseteq Items(rest)
      BY <1>5, <1>11, <2>0, StageFacts DEF Bare
    <3> QED
      BY <1>10, <3>1 DEF Ahead
  <2>3. \A k \in 1..5 : k # 3 => Stages'[k] \subseteq Stages[k]
    <3>1. Stages'[4] \subseteq Stages[4]
      BY <1>5, <1>9, StageFacts DEF Bare
    <3>2. Stages'[1] = Stages[1] /\ Stages'[2] = Stages[2] /\ Stages'[5] = Stages[5]
      BY <1>1, StageFacts
    <3> QED
      BY <3>1, <3>2
  <2>4. 3 \in 1..5 /\ 4 \in 1..5 /\ 4 = 3 + 1
    OBVIOUS
  <2>5. Passes(3, 4, moved)
    BY <2>1, <2>2, <2>3, <2>4 DEF Passes
  <2> QED
    BY <1>7, <2>5, PassFacts
<1>15. PiecesInv'
  BY <1>1, <1>5, <1>7, <1>9, <1>13 DEF PiecesInv
<1> QED
  BY <1>14, <1>15 DEF FlowInv

\* A data write reaches the adapter's FIFO.
LEMMA ArriveFlow ==
    ASSUME TypeInv, FlowInv, DataArrives
    PROVE  FlowInv'
<1> DEFINE chunk == Head(dataPipe)
<1>1. /\ dataPipe # <<>> /\ txFifo' = txFifo \o chunk /\ dataPipe' = Tail(dataPipe)
      /\ UNCHANGED <<sent, accepted, pending_oframe, queued_oframes>>
  BY DEF DataArrives, CompletionUnchanged, writeVars, queueVars
<1>2. /\ StagesInv /\ PiecesInv /\ InOrder(dataPipe, {Pad}) /\ Rising(txFifo, {Pad})
      /\ dataPipe \in Seq(Seq(Bytes)) /\ txFifo \in Seq(Bytes)
      /\ Written \subseteq Written' /\ Remaining' = Remaining
  BY <1>1, FlowTypes DEF FlowInv, PiecesInv, Written, Remaining
<1>3. /\ chunk \in Seq(Bytes) /\ Rising(chunk, {Pad}) /\ InOrder(dataPipe', {Pad})
      /\ Items(chunk) \subseteq AllItems(dataPipe) /\ AllItems(dataPipe') \subseteq AllItems(dataPipe)
      /\ Ahead(Items(chunk), AllItems(dataPipe'), {Pad})
  BY <1>1, <1>2, PieceTail
<1> HIDE DEF chunk
<1>4. Items(txFifo') = Items(txFifo) \cup Items(chunk)
  BY <1>1, <1>2, <1>3, JoinFacts
<1>5. Rising(txFifo', {Pad})
  <2>1. Bare(Items(txFifo)) \subseteq Stages[2] /\ Bare(Items(chunk)) \subseteq Stages[3]
    BY <1>3, StageFacts DEF Bare
  <2>2. Ahead(Items(txFifo), Items(chunk), {Pad})
    <3>1. 2 \in 1..5 /\ 3 \in 1..5 /\ 2 < 3
      OBVIOUS
    <3> QED
      BY <1>2, <2>1, <3>1, StageAhead, Zenon
  <2> QED
    BY <1>1, <1>2, <1>3, <2>2, JoinFacts
<1>6. StagesInv'
  <2>0. PICK moved : moved = Bare(Items(chunk))
    OBVIOUS
  <2>1. moved \subseteq Stages[3] /\ Stages'[2] \subseteq Stages[2] \cup moved
    BY <1>3, <1>4, <2>0, StageFacts DEF Bare
  <2>2. Ahead(moved, Stages'[3], {Pad})
    BY <1>3, <2>0, BareAhead, StageFacts
  <2>3. \A k \in 1..5 : k # 2 => Stages'[k] \subseteq Stages[k]
    <3>1. Stages'[3] \subseteq Stages[3]
      BY <1>3, StageFacts DEF Bare
    <3>2. Stages'[1] = Stages[1] /\ Stages'[4] = Stages[4] /\ Stages'[5] = Stages[5]
      BY <1>1, <1>2, StageFacts
    <3> QED
      BY <3>1, <3>2
  <2>4. 2 \in 1..5 /\ 3 \in 1..5 /\ 3 = 2 + 1
    OBVIOUS
  <2>5. Passes(2, 3, moved)
    BY <2>1, <2>2, <2>3, <2>4 DEF Passes
  <2> QED
    BY <1>2, <2>5, PassFacts
<1>7. PiecesInv'
  BY <1>1, <1>2, <1>3, <1>5 DEF PiecesInv
<1> QED
  BY <1>6, <1>7 DEF FlowInv

\* The adapter transmits the front of its FIFO.
LEMMA WireFlow ==
    ASSUME TypeInv, FlowInv, WireFrame
    PROVE  FlowInv'
<1> DEFINE size == Head(txSizes)
           words == Align4(size)
           front == SubSeq(txFifo, 1, size)
           rest == SubSeq(txFifo, words + 1, Len(txFifo))
<1>1. /\ sent' = Append(sent, front) /\ txFifo' = rest
      /\ UNCHANGED <<accepted, pending_oframe, queued_oframes, dataPipe>>
      /\ txSizes # <<>> /\ Len(txFifo) >= words
  BY DEF WireFrame, AdapterUnchanged, writeVars, queueVars, usbVars
<1>2. /\ size \in Nat /\ txFifo \in Seq(Bytes) /\ Len(txFifo) \in Nat
  <2>1. txSizes \in Seq(Nat) /\ txFifo \in Seq(Bytes)
    BY DEF TypeInv, TypeOK
  <2> QED
    BY <1>1, <2>1
<1>3. words \in Nat /\ size <= words /\ words <= Len(txFifo) /\ size <= Len(txFifo)
  <2>1. words \in Nat /\ size <= words
    BY <1>2, Align4Facts
  <2> HIDE DEF size, words
  <2> QED
    BY <1>1, <1>2, <2>1
<1> HIDE DEF size, words
<1>4. /\ StagesInv /\ PiecesInv /\ Rising(txFifo, {Pad}) /\ InOrder(sent, {Pad})
      /\ sent \in Seq(Seq(Bytes)) /\ Written \subseteq Written' /\ Remaining' = Remaining
  BY <1>1, FlowTypes DEF FlowInv, PiecesInv, Written, Remaining
<1>5. front \in Seq(Bytes) /\ Items(front) \subseteq Items(txFifo) /\ Rising(front, {Pad})
  BY <1>2, <1>3, <1>4, PrefixFacts
<1>6. Items(rest) \subseteq Items(txFifo) /\ Rising(rest, {Pad})
  <2>1. Len(txFifo) <= Len(txFifo)
    BY <1>2
  <2> QED
    BY <1>2, <1>3, <1>4, <2>1, RunFacts, Zenon
<1>7. Ahead(Items(front), Items(rest), {Pad})
  BY <1>2, <1>3, <1>4, SplitFacts
<1> HIDE DEF front, rest
<1>8. AllItems(sent') = AllItems(sent) \cup Items(front)
  BY <1>1, <1>4, <1>5, PieceAppend
<1>9. InOrder(sent', {Pad})
  <2>1. Bare(AllItems(sent)) \subseteq Stages[1] /\ Bare(Items(front)) \subseteq Stages[2]
    BY <1>5, StageFacts DEF Bare
  <2>2. Ahead(AllItems(sent), Items(front), {Pad})
    <3>1. 1 \in 1..5 /\ 2 \in 1..5 /\ 1 < 2
      OBVIOUS
    <3> QED
      BY <1>4, <2>1, <3>1, StageAhead, Zenon
  <2> QED
    BY <1>1, <1>4, <1>5, <2>2, PieceAppend
<1>10. StagesInv'
  <2>0. PICK moved : moved = Bare(Items(front))
    OBVIOUS
  <2>1. moved \subseteq Stages[2] /\ Stages'[1] \subseteq Stages[1] \cup moved
    BY <1>5, <1>8, <2>0, StageFacts DEF Bare
  <2>2. Ahead(moved, Stages'[2], {Pad})
    BY <1>1, <1>7, <2>0, BareAhead, StageFacts
  <2>3. \A k \in 1..5 : k # 1 => Stages'[k] \subseteq Stages[k]
    <3>1. Stages'[2] \subseteq Stages[2]
      BY <1>1, <1>6, StageFacts DEF Bare
    <3>2. Stages'[3] = Stages[3] /\ Stages'[4] = Stages[4] /\ Stages'[5] = Stages[5]
      BY <1>1, <1>4, StageFacts
    <3> QED
      BY <3>1, <3>2
  <2>4. 1 \in 1..5 /\ 2 \in 1..5 /\ 2 = 1 + 1
    OBVIOUS
  <2>5. Passes(1, 2, moved)
    BY <2>1, <2>2, <2>3, <2>4 DEF Passes
  <2> QED
    BY <1>4, <2>5, PassFacts
<1>11. PiecesInv'
  BY <1>1, <1>4, <1>6, <1>9 DEF PiecesInv
<1> QED
  BY <1>10, <1>11 DEF FlowInv

LEMMA FlowStep ==
    ASSUME TxAssumption, TypeInv, FlowInv, [Next]_vars
    PROVE  FlowInv'
<1>1. ASSUME UNCHANGED <<sent, txFifo, dataPipe, accepted, pending_oframe, queued_oframes>>
      PROVE  FlowInv'
  <2>1. Written \subseteq Written' /\ Remaining' = Remaining
    BY <1>1 DEF Written, Remaining
  <2> QED
    BY <1>1, <2>1, FlowDrops
<1>2. CASE WriteQueue \/ WriteNoMemory \/ DataArrives \/ WireFrame
  BY <1>2, QueueFlow, ArriveFlow, WireFlow
<1>3. ASSUME NEW w \in Workers, OframeTake(w) \/ OframeSend(w) PROVE FlowInv'
  BY <1>3, TakeFlow, SendFlow
<1>4. ASSUME NEW w \in Workers, OframeCommand(w) PROVE FlowInv'
  <2>1. UNCHANGED <<sent, txFifo, dataPipe, accepted, queued_oframes>>
    BY <1>4 DEF OframeCommand, WorkerUnchanged, adapterVars, writeVars
  <2>2. pending_oframe' \in {pending_oframe, None}
    BY <1>4 DEF OframeCommand
  <2>3. Written \subseteq Written' /\ Remaining' \in {Remaining, <<>>}
    BY <2>1, <2>2 DEF Written, Remaining
  <2> QED
    BY <2>1, <2>3, FlowDrops
<1>5. CASE ExecuteTransmitReset
  <2>1. txFifo' = <<>> /\ UNCHANGED <<sent, dataPipe, accepted, pending_oframe, queued_oframes>>
    BY <1>5 DEF ExecuteTransmitReset, AdapterUnchanged, writeVars, queueVars, usbVars
  <2>2. Written \subseteq Written' /\ Remaining' = Remaining
    BY <2>1 DEF Written, Remaining
  <2> QED
    BY <2>1, <2>2, FlowDrops
<1>6. CASE PurgeQueued \/ PurgePending
  <2>1. /\ UNCHANGED <<sent, txFifo, dataPipe, accepted>>
        /\ pending_oframe' \in {pending_oframe, None}
        /\ queued_oframes'.frames \in {queued_oframes.frames, <<>>}
    BY <1>6 DEF PurgeQueued, PurgePending, PurgeUnchanged, writeVars, usbVars, adapterVars, EmptyList
  <2>2. Written \subseteq Written' /\ Remaining' \in {Remaining, <<>>}
    BY <2>1 DEF Written, Remaining
  <2> QED
    BY <2>1, <2>2, FlowDrops
<1>7. CASE WriteArrives \/ WriteUsageQueued \/ WriteUsagePending \/ WriteTooBig
  BY <1>1, <1>7 DEF WriteArrives, WriteUsageQueued, WriteUsagePending, WriteTooBig, Refuse,
                    WriteUnchanged, usbVars, adapterVars
<1>8. ASSUME NEW w \in Workers,
             \/ OframeStart(w) \/ OframeCheck(w) \/ OframeEmpty(w) \/ OframeSendFails(w)
             \/ OframeLoad(w) \/ OframeStore(w)
      PROVE  FlowInv'
  BY <1>1, <1>8 DEF OframeStart, OframeCheck, OframeEmpty, OframeSendFails, OframeLoad, OframeStore,
                    WorkerUnchanged, adapterVars, writeVars, queueVars
<1>9. CASE Timer \/ TxCompletionLoad \/ TxCompletionStore
  BY <1>1, <1>9 DEF Timer, TxCompletionLoad, TxCompletionStore, CompletionUnchanged,
                    adapterVars, writeVars, queueVars, usbVars
<1>10. CASE ExecuteSize \/ ExecuteFifoCount \/ ExecuteTransmit
  BY <1>1, <1>10 DEF ExecuteSize, ExecuteFifoCount, ExecuteTransmit, AdapterUnchanged,
                     adapterVars, writeVars, queueVars, usbVars
<1>11. CASE PurgeReset \/ PurgeDrain
  BY <1>1, <1>11 DEF PurgeReset, PurgeDrain, PurgeUnchanged, adapterVars, writeVars, queueVars, usbVars
<1>12. CASE UNCHANGED vars
  BY <1>1, <1>12 DEF vars, adapterVars, writeVars, queueVars, usbVars
<1> QED
  BY <1>2, <1>3, <1>4, <1>5, <1>6, <1>7, <1>8, <1>9, <1>10, <1>11, <1>12
  DEF Next, EvtIoWrite, oframe_worker, DataCompletion, Adapter, PurgeStep

\* Whatever fails and is tried again and whatever a purge takes away, no byte
\* of a write goes out on the wire twice or before one written earlier.
THEOREM WireBytesStayInOrder == Spec => []WireBytesInOrder
<1>1. Init => TypeInv /\ FlowInv
  BY TypeInit, FlowInit, TxAssumption
<1>2. TypeInv /\ FlowInv /\ [Next]_vars => (TypeInv /\ FlowInv)'
  BY TypeStep, FlowStep, TxAssumption
<1>3. FlowInv => WireBytesInOrder
  BY DEF FlowInv, PiecesInv, WireBytesInOrder
<1> QED
  BY <1>1, <1>2, <1>3, PTL DEF Spec

=============================================================================
