------------------------ MODULE SynccomRxTypes_proofs ------------------------
(* What holds of SynccomRx for every value of its constants, whatever is     *)
(* purged, dropped at the cap or fails: its type invariant, the exact        *)
(* estimate of queued_iframes, where each read request is and how it is      *)
(* answered, the order of the bytes, and how many of them the driver holds.  *)
EXTENDS SynccomRx_proofs, SynccomFrame_proofs, FiniteSetTheorems

\* The frame the adapter is receiving is one of the wire, and not complete.
WireInside ==
    wire.bytes # 0 => wire.frame \in 1..NFrames /\ wire.bytes < FrameLengths[wire.frame]

\* TypeInv is TypeOK and what its proof needs, by the variables it is about.
AdapterTypes ==
    /\ streaming \in BOOLEAN
    /\ wire \in [frame : 1..NFrames + 1, bytes : Nat] /\ WireInside
    /\ dataFifo \in Seq(Bytes) /\ sizeFifo \in Seq(1..NFrames)

Commands    == [op : {"FIFO_FC", "BC_FIFO_L", "RRES"}, nth : Nat]
Completions == [op : {"FIFO_FC", "BC_FIFO_L"}, value : Nat, nth : Nat]
Counts      == [sized : Nat, issued : Nat, popped : Nat, completed : Nat]

CommandTypes ==
    /\ pipe \in Seq(Commands) /\ responses \in Seq(Completions)
    /\ to_send \in Unsent /\ pending_frame_size_reads \in Nat
    /\ tally \in Counts
    /\ overread \in BOOLEAN

BufferTypes ==
    /\ istream \in Frames(Bytes)
    /\ pending_iframes \in Lists(Bytes) /\ queued_iframes \in Lists(Bytes)
    /\ Counted(queued_iframes)

ReadStates ==
    [length : Nat, out : Nat,
     status : {"queued", "held", "success", "too_small", "cancelled", "failed"}]

DpcStates(n) == [pc : {"idle", "check", "retrieve", "read"}, req : 0..n, out : Nat]

ReadTypes ==
    /\ reads \in Seq(ReadStates)
    /\ dpc \in [ReadDpcs -> DpcStates(Len(reads))]
    /\ \A d \in ReadDpcs : dpc[d].pc = "read" => dpc[d].req \in 1..Len(reads)
    /\ read_queue2 \in Seq(1..Len(reads))
    /\ taken \in Seq([req : 1..Len(reads), data : Seq(Bytes)]) /\ outdated \subseteq ReadDpcs

RxStates == [pc : {"idle", "queued", "istream", "pending", "trim", "add"},
             packet : Seq(Bytes), usage : Nat]

ControlTypes ==
    /\ iframe_dpc \in BOOLEAN /\ process_read_dpc \in BOOLEAN
    /\ iframe_pc \in {"idle", "loop"}
    /\ rx \in RxStates
    /\ purge \in {"idle", "queued", "istream", "pending", "cancel", "drain"}
    /\ bound \in [purges : Nat, failures : Nat]

TypeInv == AdapterTypes /\ CommandTypes /\ BufferTypes /\ ReadTypes /\ ControlTypes

----------------------------------------------------------------------------
(* The type invariant, one part at a time. *)

LEMMA TypeInit == ASSUME RxAssumption, Init PROVE TypeInv
<1>1. \A S : <<>> \in Seq(S)
  OBVIOUS
<1>2. NFrames \in Nat
  BY DEF RxAssumption, NFrames
<1>3. AdapterTypes
  BY <1>1, <1>2 DEF Init, AdapterTypes, WireInside, RxAssumption
<1>4. CommandTypes
  BY <1>1 DEF Init, CommandTypes, Commands, Completions, Counts, NothingToSend, Unsent
<1>5. BufferTypes
  <2>1. EmptyList \in Lists(Bytes) /\ NewFrame \in Frames(Bytes)
    BY <1>1 DEF EmptyList, Lists, NewFrame, Frames
  <2> QED
    BY <2>1, CountedEmpty DEF Init, BufferTypes
<1>6. ReadTypes
  <2>1. IdleRead \in DpcStates(0) /\ IdleRead.pc = "idle"
    BY DEF IdleRead, DpcStates
  <2> QED
    BY <1>1, <2>1 DEF Init, ReadTypes
<1>7. ControlTypes
  BY <1>1 DEF Init, ControlTypes, IdleRx, RxStates
<1> QED
  BY <1>3, <1>4, <1>5, <1>6, <1>7 DEF TypeInv

LEMMA SeqFacts ==
    ASSUME NEW S, NEW q \in Seq(S)
    PROVE  /\ \A x \in S : Append(q, x) \in Seq(S)
           /\ q # <<>> => Head(q) \in S /\ Tail(q) \in Seq(S)
           /\ \A m, n \in Int : 1 <= m /\ n <= Len(q) => SubSeq(q, m, n) \in Seq(S)
OBVIOUS

LEMMA ConcatLength ==
    ASSUME NEW S, NEW s \in Seq(S), NEW t \in Seq(S)
    PROVE  Len(s \o t) = Len(s) + Len(t) /\ s \o t \in Seq(S)
OBVIOUS

LEMMA SeqWidens == ASSUME NEW S, NEW T, S \subseteq T, NEW q \in Seq(S) PROVE q \in Seq(T)
OBVIOUS

\* The bytes of the wire, and each frame of it.
LEMMA BytesFacts ==
    ASSUME RxAssumption
    PROVE  /\ NFrames \in Nat
           /\ \A k \in 1..NFrames :
                 /\ FrameLengths[k] \in Nat /\ FrameLengths[k] >= 1
                 /\ FrameLengths[k] >= StatusLength
                 /\ \A i \in 1..FrameLengths[k] : <<k, i>> \in Bytes
                 /\ FrameBytes(k) \in Seq(Bytes) /\ Len(FrameBytes(k)) = FrameLengths[k]
           /\ \A b \in Bytes : \E k \in 1..NFrames : \E i \in 1..FrameLengths[k] : b = <<k, i>>
<1>1. NFrames \in Nat /\ \A k \in 1..NFrames : FrameLengths[k] \in Nat \ {0}
  BY DEF RxAssumption, NFrames
<1>2. ASSUME NEW k \in 1..NFrames, NEW i \in 1..FrameLengths[k] PROVE <<k, i>> \in Bytes
  <2>1. <<k, i>> \in {k} \X (1..FrameLengths[k])
    OBVIOUS
  <2> QED
    BY <2>1 DEF Bytes
<1>3. ASSUME NEW k \in 1..NFrames
      PROVE  FrameBytes(k) \in Seq(Bytes) /\ Len(FrameBytes(k)) = FrameLengths[k]
  BY <1>1, <1>2 DEF FrameBytes
<1>4. ASSUME NEW b \in Bytes
      PROVE  \E k \in 1..NFrames : \E i \in 1..FrameLengths[k] : b = <<k, i>>
  <2>1. PICK k \in 1..NFrames : b \in {k} \X (1..FrameLengths[k])
    BY DEF Bytes
  <2> QED
    BY <2>1
<1> QED
  BY <1>1, <1>2, <1>3, <1>4 DEF RxAssumption

LEMMA AdapterTypesStep ==
    ASSUME RxAssumption, TypeInv, [Next]_vars
    PROVE  AdapterTypes'
<1>1. /\ AdapterTypes /\ streaming \in BOOLEAN /\ WireInside
      /\ wire \in [frame : 1..NFrames + 1, bytes : Nat]
      /\ dataFifo \in Seq(Bytes) /\ sizeFifo \in Seq(1..NFrames)
  BY DEF TypeInv, AdapterTypes
<1>2. NFrames \in Nat /\ \A k \in 1..NFrames : FrameLengths[k] \in Nat \ {0}
  BY DEF RxAssumption, NFrames
<1>3. CASE WireByte
  <2> DEFINE k == wire.frame
  <2>0. k \in 1..NFrames /\ wire.bytes \in Nat
    BY <1>1, <1>2, <1>3 DEF WireByte
  <2>1. k \in 1..NFrames /\ wire.bytes \in Nat /\ wire.bytes + 1 <= FrameLengths[k]
        /\ wire.bytes + 1 \in 1..FrameLengths[k]
    <3>1. FrameLengths[k] \in Nat /\ FrameLengths[k] >= 1
      BY <2>0, BytesFacts
    <3>2. wire.bytes # 0 => wire.bytes < FrameLengths[k]
      BY <1>1 DEF WireInside
    <3> QED
      BY <2>0, <3>1, <3>2
  <2>2. <<k, wire.bytes + 1>> \in Bytes
    BY <2>1, BytesFacts
  <2>3. dataFifo' \in Seq(Bytes) /\ sizeFifo' \in Seq(1..NFrames)
    <3>1. dataFifo' = Append(dataFifo, <<k, wire.bytes + 1>>)
          /\ (sizeFifo' = sizeFifo \/ sizeFifo' = Append(sizeFifo, k))
      BY <1>3 DEF WireByte
    <3> QED
      <4> DEFINE S == 1..NFrames
      <4>1. sizeFifo \in Seq(S) /\ k \in S
        BY <1>1, <2>1
      <4> HIDE DEF S
      <4>2. Append(sizeFifo, k) \in Seq(S)
        BY <4>1
      <4>3. sizeFifo' \in Seq(S)
        BY <3>1, <4>1, <4>2
      <4>4. dataFifo' \in Seq(Bytes)
        BY <1>1, <2>2, <3>1
      <4> QED
        BY <4>3, <4>4 DEF S
  <2>4. wire' \in [frame : 1..NFrames + 1, bytes : Nat] /\ WireInside'
    <3>1. CASE wire.bytes + 1 = FrameLengths[k]
      <4>1. wire' = [frame |-> k + 1, bytes |-> 0]
        BY <1>3, <3>1 DEF WireByte
      <4> QED
        BY <1>2, <2>1, <4>1 DEF WireInside
    <3>2. CASE wire.bytes + 1 # FrameLengths[k]
      <4>1. wire' = [wire EXCEPT !.bytes = wire.bytes + 1]
        BY <1>3, <3>2 DEF WireByte
      <4>2. wire'.frame = k /\ wire'.bytes = wire.bytes + 1
        BY <1>1, <4>1
      <4>3. wire.bytes + 1 < FrameLengths[k]
        BY <1>2, <2>1, <3>2
      <4>4. wire' \in [frame : 1..NFrames + 1, bytes : Nat]
        <5>1. wire.frame \in 1..NFrames + 1 /\ wire.bytes + 1 \in Nat
          BY <1>1, <2>1
        <5> QED
          BY <1>1, <4>1, <5>1
      <4> QED
        BY <2>1, <4>2, <4>3, <4>4 DEF WireInside
    <3> QED
      BY <3>1, <3>2
  <2> QED
    BY <1>1, <1>3, <2>3, <2>4 DEF WireByte, AdapterTypes
<1>4. CASE ExecuteFrameSize
  <2>1. sizeFifo' \in Seq(1..NFrames)
    <3>1. sizeFifo' = sizeFifo \/ (sizeFifo # <<>> /\ sizeFifo' = Tail(sizeFifo))
      BY <1>4 DEF ExecuteFrameSize
    <3> QED
      <4> DEFINE S == 1..NFrames
      <4>1. sizeFifo \in Seq(S)
        BY <1>1
      <4> HIDE DEF S
      <4>2. sizeFifo # <<>> => Tail(sizeFifo) \in Seq(S)
        BY <4>1
      <4>3. sizeFifo' \in Seq(S)
        BY <3>1, <4>1, <4>2
      <4> QED
        BY <4>3 DEF S
  <2> QED
    BY <1>1, <1>4, <2>1 DEF ExecuteFrameSize, AdapterTypes, WireInside
<1>5. CASE ExecuteReceiverReset
  <2>1. wire' \in [frame : 1..NFrames + 1, bytes : Nat] /\ WireInside'
    BY <1>1, <1>2, <1>5 DEF ExecuteReceiverReset, WireInside
  <2>2. dataFifo' \in Seq(Bytes) /\ sizeFifo' \in Seq(1..NFrames)
    BY <1>5 DEF ExecuteReceiverReset
  <2> QED
    BY <1>1, <1>5, <2>1, <2>2 DEF ExecuteReceiverReset, AdapterTypes
<1>6. CASE RxPacket
  <2>1. dataFifo' \in Seq(Bytes)
    <3>1. PICK n \in 1..Least(MaxPacket, Len(dataFifo)) :
                  dataFifo' = SubSeq(dataFifo, n + 1, Len(dataFifo))
      BY <1>6 DEF RxPacket
    <3> QED
      BY <1>1, <3>1
  <2> QED
    BY <1>1, <1>6, <2>1 DEF RxPacket, AdapterTypes, WireInside
<1>7. ASSUME UNCHANGED adapterVars PROVE AdapterTypes'
  BY <1>1, <1>7 DEF adapterVars, AdapterTypes, WireInside
<1>8. CASE ExecuteFrameCount \/ RegisterCompletion
  BY <1>7, <1>8 DEF ExecuteFrameCount, RegisterCompletion, CompleteFrameCount, CompleteFrameSize,
                    CompleteWithError, SendRead, SendSizeRead, SendCountRead
<1>9. CASE RxStep \/ Timer \/ IframeWorker
  BY <1>7, <1>9 DEF RxStep, RxUsageQueued, RxUsageStream, RxUsagePending, RxTrim, RxAdd,
                    RxUnchanged, Timer, IframeWorker, IframeStart, IframeLoop, IframeEnd
<1>10. CASE \/ SyncComEvtIoRead
            \/ \E d \in ReadDpcs : ReadStart(d) \/ SynccomProcessRead(d)
  BY <1>7, <1>10 DEF SyncComEvtIoRead, ReadStart, SynccomProcessRead, ReadCheck, ReadRetrieve,
                     StreamRead, FrameReadTake, FrameReadEnd, ReadUnchanged
<1>11. CASE PurgeReset \/ PurgeStep
  BY <1>7, <1>11 DEF PurgeReset, PurgeStep, PurgeQueued, PurgeStream, PurgePending, PurgeCancel,
                     PurgeDrain, PurgeUnchanged
<1>12. CASE UNCHANGED vars
  BY <1>7, <1>12 DEF vars
<1> QED
  BY <1>3, <1>4, <1>5, <1>6, <1>8, <1>9, <1>10, <1>11, <1>12 DEF Next, Adapter

LEMMA CountsFacts ==
    ASSUME NEW t \in Counts, NEW n \in Nat
    PROVE  /\ t.sized \in Nat /\ t.issued \in Nat /\ t.popped \in Nat /\ t.completed \in Nat
           /\ [t EXCEPT !.sized = n] \in Counts /\ [t EXCEPT !.issued = n] \in Counts
           /\ [t EXCEPT !.popped = n] \in Counts /\ [t EXCEPT !.completed = n] \in Counts
BY DEF Counts

LEMMA SendTypes ==
    ASSUME CommandTypes, NEW op \in {"FIFO_FC", "RRES"}, Send(op)
    PROVE  pipe' \in Seq(Commands)
<1>1. [op |-> op, nth |-> tally.issued] \in Commands
  BY CountsFacts DEF CommandTypes, Commands
<1> QED
  BY <1>1, SeqFacts DEF CommandTypes, Send

LEMMA ExecuteTypes ==
    ASSUME CommandTypes, NEW op \in {"FIFO_FC", "BC_FIFO_L"}, Executing(op),
           NEW value \in Nat, Respond(value)
    PROVE  pipe' \in Seq(Commands) /\ responses' \in Seq(Completions)
<1>1. pipe # <<>> /\ Head(pipe) \in Commands /\ pipe' = Tail(pipe) /\ Tail(pipe) \in Seq(Commands)
  BY SeqFacts DEF CommandTypes, Executing
<1>2. [op |-> Head(pipe).op, value |-> value, nth |-> Head(pipe).nth] \in Completions
  BY <1>1 DEF Commands, Completions, Executing
<1> QED
  BY <1>1, <1>2, SeqFacts DEF CommandTypes, Respond

LEMMA CompletionTypes ==
    ASSUME CommandTypes, responses # <<>>, responses' = Tail(responses)
    PROVE  responses' \in Seq(Completions) /\ Head(responses) \in Completions
BY SeqFacts DEF CommandTypes

LEMMA CommandTypesStep ==
    ASSUME RxAssumption, TypeInv, [Next]_vars
    PROVE  CommandTypes'
<1>1. /\ CommandTypes /\ pipe \in Seq(Commands) /\ responses \in Seq(Completions)
      /\ to_send \in Unsent /\ pending_frame_size_reads \in Nat
      /\ tally \in Counts /\ overread \in BOOLEAN
      /\ tally.sized \in Nat /\ tally.issued \in Nat /\ tally.popped \in Nat
      /\ tally.completed \in Nat /\ sizeFifo \in Seq(1..NFrames)
  BY CountsFacts DEF TypeInv, CommandTypes, AdapterTypes
<1>t. tally \in Counts
  BY <1>1
<1>p. pending_frame_size_reads \in Nat
  BY <1>1
<1>2. CASE WireByte
  <2> DEFINE n == IF wire.bytes + 1 = FrameLengths[wire.frame] /\ ~streaming
                  THEN tally.sized + 1 ELSE tally.sized
  <2>0. n \in Nat
    BY <1>1
  <2>1. tally' = [tally EXCEPT !.sized = n] /\ n \in Nat
    <3>1. tally' = [tally EXCEPT !.sized = n]
      BY <1>2 DEF WireByte
    <3> QED
      BY <2>0, <3>1
  <2> HIDE DEF n
  <2>2. tally' \in Counts
    BY <1>t, <2>1, CountsFacts
  <2> QED
    BY <1>1, <1>2, <2>2 DEF WireByte, CommandTypes
<1>3. CASE ExecuteFrameCount
  <2>1. Len(sizeFifo) \in Nat
    BY <1>1
  <2>2. pipe' \in Seq(Commands) /\ responses' \in Seq(Completions)
    BY <1>1, <1>3, <2>1, ExecuteTypes DEF ExecuteFrameCount
  <2> QED
    BY <1>1, <1>3, <2>2 DEF ExecuteFrameCount, CommandTypes
<1>4. CASE ExecuteFrameSize
  <2>1. PICK value \in Nat : Respond(value)
    <3>1. CASE sizeFifo = <<>>
      BY <1>4, <3>1 DEF ExecuteFrameSize, RxAssumption
    <3>2. CASE sizeFifo # <<>>
      <4>1. Respond(FrameLengths[Head(sizeFifo)])
        BY <1>4, <3>2 DEF ExecuteFrameSize
      <4>2. Head(sizeFifo) \in 1..NFrames
        <5>1. sizeFifo \in Seq(1..NFrames)
          BY <1>1
        <5>2. \A S : \A q \in Seq(S) : q # <<>> => Head(q) \in S
          OBVIOUS
        <5> QED
          BY <3>2, <5>1, <5>2
      <4> QED
        BY <4>1, <4>2, BytesFacts
    <3> QED
      BY <3>1, <3>2
  <2>2. pipe' \in Seq(Commands) /\ responses' \in Seq(Completions)
    BY <1>1, <1>4, <2>1, ExecuteTypes DEF ExecuteFrameSize
  <2>3. tally' = [tally EXCEPT !.popped = tally.popped + 1]
    BY <1>4 DEF ExecuteFrameSize
  <2>4. tally' \in Counts
    <3>1. tally.popped + 1 \in Nat
      BY <1>1
    <3> QED
      BY <1>t, <2>3, <3>1, CountsFacts
  <2>5. overread' \in BOOLEAN
    BY <1>1, <1>4 DEF ExecuteFrameSize
  <2> QED
    BY <1>1, <1>4, <2>2, <2>4, <2>5 DEF ExecuteFrameSize, CommandTypes
<1>5. CASE ExecuteReceiverReset
  <2>1. pipe' \in Seq(Commands)
    BY <1>1, <1>5, SeqFacts DEF ExecuteReceiverReset, Executing
  <2> QED
    BY <1>1, <1>5, <2>1 DEF ExecuteReceiverReset, CommandTypes
<1>6. CASE RxPacket
  <2>1. pipe' \in Seq(Commands)
    BY <1>1, <1>6, SendTypes DEF RxPacket
  <2> QED
    BY <1>1, <1>6, <2>1 DEF RxPacket, CommandTypes
<1>7. CASE CompleteFrameCount
  <2> DEFINE fresh == Fresh(Head(responses).value)
  <2>1. /\ responses # <<>> /\ responses' = Tail(responses)
        /\ to_send' = [to_send EXCEPT !.sizes = fresh]
        /\ UNCHANGED <<pipe, pending_frame_size_reads, tally, overread>>
    BY <1>7 DEF CompleteFrameCount, Completing
  <2>2. responses' \in Seq(Completions) /\ Head(responses) \in Completions
    BY <1>1, <2>1, CompletionTypes
  <2>3. fresh \in Nat
    BY <1>1, <2>2 DEF Fresh, Completions
  <2> HIDE DEF fresh
  <2>4. to_send' \in Unsent
    BY <1>1, <2>1, <2>3 DEF Unsent
  <2> QED
    BY <1>1, <2>1, <2>2, <2>4 DEF CommandTypes
<1>8. CASE CompleteFrameSize
  <2>1. /\ responses # <<>> /\ responses' = Tail(responses)
        /\ to_send' = [to_send EXCEPT !.count = TRUE]
        /\ tally' = [tally EXCEPT !.completed = tally.completed + 1]
        /\ UNCHANGED <<pipe, overread>>
        /\ pending_frame_size_reads' = CountDown(pending_frame_size_reads)
    BY <1>8 DEF CompleteFrameSize, Completing
  <2>2. responses' \in Seq(Completions) /\ to_send' \in Unsent
    BY <1>1, <2>1, CompletionTypes DEF Unsent
  <2>3. tally' \in Counts /\ pending_frame_size_reads' \in Nat
    <3>1. tally.completed + 1 \in Nat
      BY <1>1
    <3>2. pending_frame_size_reads' \in Nat
      BY <1>p, <2>1 DEF CountDown
    <3> QED
      BY <1>t, <2>1, <3>1, <3>2, CountsFacts
  <2> QED
    BY <1>1, <2>1, <2>2, <2>3 DEF CommandTypes
<1>16. CASE SendSizeRead
  <2>1. /\ to_send.sizes > 0 /\ pipe' = Append(pipe, [op |-> "BC_FIFO_L", nth |-> tally.issued + 1])
        /\ pending_frame_size_reads' = pending_frame_size_reads + 1
        /\ to_send' = [to_send EXCEPT !.sizes = to_send.sizes - 1]
        /\ tally' = [tally EXCEPT !.issued = tally.issued + 1]
        /\ UNCHANGED <<responses, overread>>
    BY <1>16 DEF SendSizeRead
  <2>2. tally.issued + 1 \in Nat
    BY <1>1
  <2>7. pending_frame_size_reads' \in Nat
    BY <1>p, <2>1
  <2>3. [op |-> "BC_FIFO_L", nth |-> tally.issued + 1] \in Commands
    BY <2>2 DEF Commands
  <2>4. pipe' \in Seq(Commands)
    BY <1>1, <2>1, <2>3, SeqFacts
  <2>5. tally' \in Counts
    BY <1>t, <2>1, <2>2, CountsFacts
  <2>6. to_send' \in Unsent
    <3>1. to_send.sizes \in Nat /\ to_send \in Unsent
      BY <1>1 DEF Unsent
    <3>2. to_send.sizes - 1 \in Nat
      BY <2>1, <3>1
    <3> QED
      BY <2>1, <3>1, <3>2 DEF Unsent
  <2> QED
    BY <1>1, <2>1, <2>4, <2>5, <2>6, <2>7 DEF CommandTypes
<1>17. CASE SendCountRead
  <2>1. /\ Send("FIFO_FC") /\ to_send' = [to_send EXCEPT !.count = FALSE]
        /\ UNCHANGED <<responses, pending_frame_size_reads, tally, overread>>
    BY <1>17 DEF SendCountRead
  <2>2. pipe' \in Seq(Commands) /\ to_send' \in Unsent
    BY <1>1, <2>1, SendTypes DEF Unsent
  <2> QED
    BY <1>1, <2>1, <2>2 DEF CommandTypes
<1>9. CASE CompleteWithError
  <2>1. /\ responses # <<>> /\ responses' = Tail(responses)
        /\ UNCHANGED <<pipe, to_send, pending_frame_size_reads, overread>>
        /\ tally' = [tally EXCEPT !.completed = tally.completed + 1] \/ tally' = tally
    BY <1>9 DEF CompleteWithError
  <2>2. responses' \in Seq(Completions) /\ tally' \in Counts
    <3>1. tally.completed + 1 \in Nat
      BY <1>1
    <3>2. tally' \in Counts
      BY <1>t, <2>1, <3>1, CountsFacts
    <3> QED
      BY <1>1, <2>1, <3>2, CompletionTypes
  <2> QED
    BY <1>1, <2>1, <2>2 DEF CommandTypes
<1>10. CASE PurgeReset
  <2>1. pipe' \in Seq(Commands)
    BY <1>1, <1>10, SendTypes DEF PurgeReset
  <2> QED
    BY <1>1, <1>10, <2>1 DEF PurgeReset, PurgeUnchanged, CommandTypes
<1>11. ASSUME UNCHANGED registerVars PROVE CommandTypes'
  BY <1>1, <1>11 DEF registerVars, CommandTypes
<1>12. CASE RxStep \/ Timer \/ IframeWorker
  BY <1>11, <1>12 DEF RxStep, RxUsageQueued, RxUsageStream, RxUsagePending, RxTrim, RxAdd,
                      RxUnchanged, Timer, IframeWorker, IframeStart, IframeLoop, IframeEnd
<1>13. CASE \/ SyncComEvtIoRead
            \/ \E d \in ReadDpcs : ReadStart(d) \/ SynccomProcessRead(d)
  BY <1>11, <1>13 DEF SyncComEvtIoRead, ReadStart, SynccomProcessRead, ReadCheck, ReadRetrieve,
                      StreamRead, FrameReadTake, FrameReadEnd, ReadUnchanged
<1>14. CASE PurgeStep
  BY <1>11, <1>14 DEF PurgeStep, PurgeQueued, PurgeStream, PurgePending, PurgeCancel,
                      PurgeDrain, PurgeUnchanged, registerVars
<1>15. CASE UNCHANGED vars
  BY <1>11, <1>15 DEF vars
<1> QED
  BY <1>2, <1>3, <1>4, <1>5, <1>6, <1>7, <1>8, <1>9, <1>10, <1>12, <1>13, <1>14, <1>15,
     <1>16, <1>17
  DEF Next, Adapter, RegisterCompletion, SendRead

----------------------------------------------------------------------------
(* The buffers. *)

\* A list whose first or last frame is replaced by another frame.
LEMMA ReplaceTypes ==
    ASSUME NEW B, NEW flist \in Lists(B), NEW i \in DOMAIN flist.frames, NEW frame \in Frames(B)
    PROVE  /\ [flist EXCEPT !.frames[i] = frame] \in Lists(B)
           /\ Len([flist EXCEPT !.frames[i] = frame].frames) = Len(flist.frames)
           /\ [flist EXCEPT !.frames[i] = frame].frames = [flist.frames EXCEPT ![i] = frame]
<1>1. flist.frames \in Seq(Frames(B)) /\ flist.estimated_memory_usage \in Int
  BY DEF Lists
<1>2. [flist EXCEPT !.frames[i] = frame]
        = [frames |-> [flist.frames EXCEPT ![i] = frame],
           estimated_memory_usage |-> flist.estimated_memory_usage]
  BY SMTT(30) DEF Lists
<1> HIDE DEF Frames
<1>3. [flist.frames EXCEPT ![i] = frame] \in Seq(Frames(B))
      /\ Len([flist.frames EXCEPT ![i] = frame]) = Len(flist.frames)
  BY <1>1
<1> QED
  BY <1>1, <1>2, <1>3 DEF Lists

LEMMA NewFrameTypes ==
    ASSUME NEW B, NEW n \in Nat
    PROVE  [NewFrame EXCEPT !.frame_size = n] \in Frames(B)
           /\ [NewFrame EXCEPT !.frame_size = n]
                = [data |-> <<>>, buffer_size |-> 0, frame_size |-> n, lost_bytes |-> 0]
<1> DEFINE frame == [data |-> <<>>, buffer_size |-> 0, frame_size |-> n, lost_bytes |-> 0]
<1>1. [NewFrame EXCEPT !.frame_size = n] = frame
  BY DEF NewFrame
<1>2. frame \in Frames(B)
  <2>1. <<>> \in Seq(B)
    OBVIOUS
  <2> QED
    BY <2>1 DEF Frames
<1> QED
  BY <1>1, <1>2

\* A list keeps its type when a frame is added or its first one removed,
\* whatever its estimate.
LEMMA ListTypes ==
    ASSUME NEW B, NEW flist \in Lists(B)
    PROVE  /\ flist.frames \in Seq(Frames(B)) /\ flist.estimated_memory_usage \in Int
           /\ \A frame \in Frames(B) : AddFrame(flist, frame) \in Lists(B)
           /\ ~IsEmptyList(flist) =>
                 /\ PeekFront(flist) \in Frames(B) /\ PeekFront(flist) = flist.frames[1]
                 /\ 1 \in DOMAIN flist.frames
                 /\ RemoveFrame(flist) \in Lists(B)
<1>1. flist.frames \in Seq(Frames(B)) /\ flist.estimated_memory_usage \in Int
  BY DEF Lists
<1>2. \A frame \in Frames(B) : DataLength(frame) \in Nat
  BY DEF Frames, DataLength
<1>3. \A frame \in Frames(B) : Append(flist.frames, frame) \in Seq(Frames(B))
  BY <1>1
<1>4. ~IsEmptyList(flist) =>
         /\ Head(flist.frames) \in Frames(B) /\ Head(flist.frames) = flist.frames[1]
         /\ 1 \in DOMAIN flist.frames /\ Tail(flist.frames) \in Seq(Frames(B))
  <2> HIDE DEF Frames
  <2> QED
    BY <1>1 DEF IsEmptyList
<1> QED
  BY <1>1, <1>2, <1>3, <1>4 DEF AddFrame, RemoveFrame, PeekFront, Lists

LEMMA BufferTypesStep ==
    ASSUME RxAssumption, TypeInv, [Next]_vars
    PROVE  BufferTypes'
<1>1. /\ BufferTypes /\ istream \in Frames(Bytes)
      /\ pending_iframes \in Lists(Bytes) /\ queued_iframes \in Lists(Bytes)
      /\ Counted(queued_iframes)
      /\ rx \in RxStates /\ responses \in Seq(Completions)
      /\ reads \in Seq(ReadStates)
      /\ \A d \in ReadDpcs : dpc[d].pc = "read" => dpc[d].req \in 1..Len(reads)
  BY DEF TypeInv, BufferTypes, ControlTypes, CommandTypes, ReadTypes
<1>2. EmptyList \in Lists(Bytes)
  BY DEF EmptyList, Lists
<1>3. CASE RxTrim
  <2> DEFINE size == Len(rx.packet)
             lost == size - Kept(size)
             last == Len(pending_iframes.frames)
             old  == pending_iframes.frames[last]
             new  == [old EXCEPT !.lost_bytes = old.lost_bytes + lost]
  <2>1. istream' = istream /\ queued_iframes' = queued_iframes
    BY <1>3 DEF RxTrim
  <2>2. pending_iframes' \in Lists(Bytes)
    <3>1. CASE pending_iframes' = pending_iframes
      BY <1>1, <3>1
    <3>2. CASE pending_iframes' # pending_iframes
      <4>1. last > 0 /\ pending_iframes' = [pending_iframes EXCEPT !.frames[last] = new]
        BY <1>3, <3>2 DEF RxTrim
      <4>2. size \in Nat /\ rx.usage \in Nat
        BY <1>1 DEF RxStates
      <4>3. lost \in Nat
        BY <4>2 DEF Kept, RxAssumption
      <4>4. last \in DOMAIN pending_iframes.frames /\ old \in Frames(Bytes)
        <5>1. pending_iframes.frames \in Seq(Frames(Bytes))
          BY <1>1, ListTypes
        <5> HIDE DEF Frames
        <5> QED
          BY <4>1, <5>1
      <4> HIDE DEF lost
      <4>5. new \in Frames(Bytes)
        <5> DEFINE total == old.lost_bytes + lost
        <5>1. total \in Nat
          BY <4>3, <4>4 DEF Frames
        <5> HIDE DEF total, old
        <5>2. [old EXCEPT !.lost_bytes = total] \in Frames(Bytes)
          BY <4>4, <5>1 DEF Frames
        <5> QED
          BY <5>2 DEF total
      <4> HIDE DEF new, last
      <4> QED
        BY <1>1, <4>1, <4>4, <4>5, ReplaceTypes
    <3> QED
      BY <3>1, <3>2
  <2> QED
    BY <1>1, <2>1, <2>2 DEF BufferTypes
<1>4. CASE RxAdd
  <2>1. rx.packet \in Seq(Bytes)
    BY <1>1 DEF RxStates
  <2>2. istream' \in Frames(Bytes)
    BY <1>1, <1>4, <2>1, AddDataFacts DEF RxAdd
  <2> QED
    BY <1>1, <1>4, <2>2 DEF RxAdd, BufferTypes
<1>5. CASE CompleteFrameSize
  <2>1. responses # <<>> /\ Head(responses) \in Completions
    BY <1>1, <1>5, SeqFacts DEF CompleteFrameSize, Completing
  <2>2. Head(responses).value \in Nat
    BY <2>1 DEF Completions
  <2> DEFINE frame == [NewFrame EXCEPT !.frame_size = Head(responses).value]
  <2>3. frame \in Frames(Bytes)
    BY <2>2, NewFrameTypes
  <2>4. pending_iframes' = pending_iframes \/ pending_iframes' = AddFrame(pending_iframes, frame)
    BY <1>5 DEF CompleteFrameSize
  <2>5. pending_iframes' \in Lists(Bytes)
    BY <1>1, <2>3, <2>4, ListTypes
  <2> QED
    BY <1>1, <1>5, <2>5 DEF CompleteFrameSize, BufferTypes
<1>6. CASE IframeLoop
  <2> DEFINE first == PeekFront(pending_iframes)
             fresh == [NewFrame EXCEPT !.frame_size = first.frame_size]
             filled == CopyTo(first, istream)
             rest == CopyFrom(fresh, filled)
  <2>1. /\ first \in Frames(Bytes) /\ 1 \in DOMAIN pending_iframes.frames
        /\ ~IsEmptyList(pending_iframes)
    BY <1>1, <1>6, ListTypes DEF IframeLoop, IframeReady
  <2>2. fresh \in Frames(Bytes)
    BY <2>1, NewFrameTypes DEF Frames
  <2>3. filled \in Frames(Bytes) /\ CopyFrom(first, istream) \in Frames(Bytes)
    BY <1>1, <2>1, CopyFacts
  <2>4. rest \in Frames(Bytes) /\ CopyTo(fresh, filled) \in Frames(Bytes)
    BY <2>2, <2>3, CopyFacts
  <2>5. /\ [pending_iframes EXCEPT !.frames[1] = filled] \in Lists(Bytes)
        /\ [pending_iframes EXCEPT !.frames[1] = rest] \in Lists(Bytes)
        /\ ~IsEmptyList([pending_iframes EXCEPT !.frames[1] = rest])
    <3>1. /\ [pending_iframes EXCEPT !.frames[1] = filled] \in Lists(Bytes)
          /\ [pending_iframes EXCEPT !.frames[1] = rest] \in Lists(Bytes)
          /\ Len([pending_iframes EXCEPT !.frames[1] = rest].frames) = Len(pending_iframes.frames)
      <4> HIDE DEF filled, rest
      <4>0. pending_iframes \in Lists(Bytes) /\ 1 \in DOMAIN pending_iframes.frames
        BY <1>1, <2>1
      <4>1. ASSUME NEW frame \in Frames(Bytes)
            PROVE  /\ [pending_iframes EXCEPT !.frames[1] = frame] \in Lists(Bytes)
                   /\ Len([pending_iframes EXCEPT !.frames[1] = frame].frames)
                        = Len(pending_iframes.frames)
        BY <4>0, ReplaceTypes
      <4> QED
        BY <2>3, <2>4, <4>1
    <3>2. Len(pending_iframes.frames) # 0
      BY <2>1
    <3>3. Len(<<>>) = 0
      OBVIOUS
    <3> QED
      BY <3>1, <3>2, <3>3 DEF IsEmptyList
  <2>6. CASE first.frame_size = 0
    <3>1. UNCHANGED <<istream, queued_iframes>> /\ pending_iframes' = RemoveFrame(pending_iframes)
      BY <1>6, <2>6 DEF IframeLoop
    <3>2. pending_iframes' \in Lists(Bytes)
      BY <1>1, <2>1, <3>1, ListTypes
    <3> QED
      BY <1>1, <3>1, <3>2 DEF BufferTypes
  <2>7. CASE first.frame_size # 0 /\ Complete(filled)
    <3>1. /\ istream' = CopyFrom(first, istream)
          /\ queued_iframes' = AddFrame(queued_iframes, CopyTo(fresh, filled))
          /\ pending_iframes' = RemoveFrame([pending_iframes EXCEPT !.frames[1] = rest])
      BY <1>6, <2>7 DEF IframeLoop
    <3>2. queued_iframes' \in Lists(Bytes) /\ Counted(queued_iframes')
      BY <1>1, <2>4, <3>1, AddFrameFacts
    <3>3. pending_iframes' \in Lists(Bytes)
      BY <2>5, <3>1, ListTypes
    <3> QED
      BY <2>3, <3>1, <3>2, <3>3 DEF BufferTypes
  <2>8. CASE first.frame_size # 0 /\ ~Complete(filled)
    <3>1. /\ istream' = CopyFrom(first, istream) /\ queued_iframes' = queued_iframes
          /\ pending_iframes' = [pending_iframes EXCEPT !.frames[1] = filled]
      BY <1>6, <2>8 DEF IframeLoop
    <3> QED
      BY <1>1, <2>3, <2>5, <3>1 DEF BufferTypes
  <2> QED
    BY <2>6, <2>7, <2>8
<1>7. ASSUME NEW d \in ReadDpcs, StreamRead(d) PROVE BufferTypes'
  <2> DEFINE length == Least(reads[dpc[d].req].length, DataLength(istream))
  <2>1. dpc[d].req \in 1..Len(reads) /\ dpc[d].req \in DOMAIN reads
    BY <1>1, <1>7 DEF StreamRead
  <2>2. reads[dpc[d].req].length \in Nat /\ DataLength(istream) \in Nat
    <3>1. reads[dpc[d].req] \in ReadStates
      BY <1>1, <2>1
    <3>2. istream.data \in Seq(Bytes)
      BY <1>1 DEF Frames
    <3> QED
      BY <3>1, <3>2 DEF ReadStates, DataLength
  <2>3. length \in Nat /\ istream' = RemoveData(istream, length)
    BY <1>7, <2>2 DEF StreamRead, Least
  <2> HIDE DEF length
  <2>4. istream' \in Frames(Bytes)
    BY <1>1, <2>3, RemoveDataFacts
  <2> QED
    BY <1>1, <1>7, <2>4 DEF StreamRead, ReadUnchanged, BufferTypes
<1>8. ASSUME NEW d \in ReadDpcs, FrameReadTake(d) PROVE BufferTypes'
  <2>1. ~IsEmptyList(queued_iframes) /\ queued_iframes' = RemoveFrame(queued_iframes)
    BY <1>8 DEF FrameReadTake, CanRemoveLte
  <2>2. queued_iframes' \in Lists(Bytes) /\ Counted(queued_iframes')
    BY <1>1, <2>1, RemoveFrameFacts
  <2> QED
    BY <1>1, <1>8, <2>2 DEF FrameReadTake, ReadUnchanged, BufferTypes
<1>9. CASE PurgeQueued
  BY <1>1, <1>2, <1>9, CountedEmpty DEF PurgeQueued, BufferTypes
<1>10. CASE PurgeStream
  <2>1. istream' \in Frames(Bytes)
    BY <1>1, <1>10, ClearFacts DEF PurgeStream
  <2> QED
    BY <1>1, <1>10, <2>1 DEF PurgeStream, BufferTypes
<1>11. CASE PurgePending
  BY <1>1, <1>2, <1>11 DEF PurgePending, BufferTypes
<1>12. ASSUME UNCHANGED bufferVars PROVE BufferTypes'
  BY <1>1, <1>12 DEF bufferVars, BufferTypes
<1>13. CASE WireByte \/ Adapter \/ CompleteFrameCount \/ CompleteWithError \/ SendRead \/ RxPacket
  BY <1>12, <1>13 DEF WireByte, Adapter, ExecuteFrameCount, ExecuteFrameSize,
                      ExecuteReceiverReset, CompleteFrameCount, CompleteWithError,
                      SendRead, SendSizeRead, SendCountRead, RxPacket
<1>14. CASE \/ RxUsageQueued \/ RxUsageStream \/ RxUsagePending
            \/ Timer \/ IframeStart \/ IframeEnd
  BY <1>12, <1>14 DEF RxUsageQueued, RxUsageStream, RxUsagePending, RxUnchanged,
                      Timer, IframeStart, IframeEnd
<1>15. CASE \/ SyncComEvtIoRead
            \/ \E d \in ReadDpcs : ReadStart(d) \/ ReadCheck(d) \/ ReadRetrieve(d)
                                   \/ FrameReadEnd(d)
  BY <1>12, <1>15 DEF SyncComEvtIoRead, ReadStart, ReadCheck, ReadRetrieve, FrameReadEnd,
                      ReadUnchanged, bufferVars
<1>16. CASE PurgeReset \/ PurgeCancel \/ PurgeDrain
  BY <1>12, <1>16 DEF PurgeReset, PurgeCancel, PurgeDrain
<1>17. CASE UNCHANGED vars
  BY <1>12, <1>17 DEF vars
<1> QED
  BY <1>3, <1>4, <1>5, <1>6, <1>7, <1>8, <1>9, <1>10, <1>11, <1>13, <1>14, <1>15, <1>16, <1>17
  DEF Next, RegisterCompletion, RxStep, IframeWorker, SynccomProcessRead, PurgeStep

----------------------------------------------------------------------------
(* The reads. *)

Statuses == {"queued", "held", "success", "too_small", "cancelled", "failed"}

\* What the answer to a read changes.
LEMMA CompleteReadFacts ==
    ASSUME ReadTypes, NEW d \in ReadDpcs, dpc[d].pc = "read", NEW status \in Statuses,
           NEW length \in Nat, CompleteRead(d, status, length)
    PROVE  LET r == dpc[d].req
           IN  /\ r \in 1..Len(reads)
               /\ reads' \in Seq(ReadStates) /\ Len(reads') = Len(reads)
               /\ \A q \in 1..Len(reads) : q # r => reads'[q] = reads[q]
               /\ reads'[r] = [length |-> reads[r].length, status |-> status, out |-> length]
               /\ dpc' \in [ReadDpcs -> DpcStates(Len(reads))]
               /\ dpc'[d] = IdleRead
               /\ \A e \in ReadDpcs : e # d => dpc'[e] = dpc[e]
<1> DEFINE r == dpc[d].req
           old == reads[r]
           new == [length |-> old.length, status |-> status, out |-> length]
<1>1. reads \in Seq(ReadStates) /\ dpc \in [ReadDpcs -> DpcStates(Len(reads))] /\ r \in 1..Len(reads)
  BY DEF ReadTypes
<1>2. old \in ReadStates
  BY <1>1
<1>3. new \in ReadStates
  BY <1>2 DEF ReadStates, Statuses
<1>4. reads' = [reads EXCEPT ![r] = new]
  <2>1. reads' = [reads EXCEPT ![r] = [[old EXCEPT !.status = status] EXCEPT !.out = length]]
    <3>1. reads' = [reads EXCEPT ![r].status = status, ![r].out = length]
      BY DEF CompleteRead
    <3> QED
      BY <1>1, <3>1
  <2>2. new = [[old EXCEPT !.status = status] EXCEPT !.out = length]
    <3> DEFINE a == [old EXCEPT !.status = status]
    <3>1. a = [length |-> old.length, status |-> status, out |-> old.out]
      BY <1>2 DEF ReadStates
    <3> HIDE DEF a
    <3>2. [a EXCEPT !.out = length] = new
      BY <3>1
    <3> QED
      BY <3>2 DEF a
  <2> QED
    BY <2>1, <2>2
<1>5. reads' \in Seq(ReadStates) /\ Len(reads') = Len(reads) /\ reads'[r] = new
      /\ \A q \in 1..Len(reads) : q # r => reads'[q] = reads[q]
  <2> HIDE DEF ReadStates, new, r
  <2> QED
    BY <1>1, <1>3, <1>4
<1>6. IdleRead \in DpcStates(Len(reads))
  BY <1>1 DEF IdleRead, DpcStates
<1>7. dpc' \in [ReadDpcs -> DpcStates(Len(reads))] /\ dpc'[d] = IdleRead
      /\ \A e \in ReadDpcs : e # d => dpc'[e] = dpc[e]
  BY <1>1, <1>6 DEF CompleteRead
<1> QED
  BY <1>1, <1>5, <1>7

\* What one read takes from the front of queued_iframes.
TakenLength(d) ==
    (DataLength(PeekFront(queued_iframes)) - (IF AppendStatus THEN 0 ELSE StatusLength)) % WORD
TakenOut(d) ==
    dpc[d].out + TakenLength(d) + (IF AppendTimestamp THEN TimestampLength ELSE 0)

LEMMA TakeFacts ==
    ASSUME RxAssumption, WordAssumption, BufferTypes, ReadTypes, NEW d \in ReadDpcs, FrameReadTake(d)
    PROVE  /\ queued_iframes.frames # <<>> /\ PeekFront(queued_iframes) \in Frames(Bytes)
           /\ PeekFront(queued_iframes) = queued_iframes.frames[1]
           /\ TakenLength(d) \in Nat /\ TakenOut(d) \in Nat
           /\ taken' = Append(taken, [req |-> dpc[d].req, data |-> PeekFront(queued_iframes).data])
           /\ [req |-> dpc[d].req, data |-> PeekFront(queued_iframes).data]
                 \in [req : 1..Len(reads), data : Seq(Bytes)]
           /\ IF RxMultiple
              THEN dpc' = [dpc EXCEPT ![d].out = TakenOut(d)] /\ reads' = reads
              ELSE CompleteRead(d, IF TakenOut(d) = 0 THEN "too_small" ELSE "success",
                                TakenOut(d))
<1>1. ~IsEmptyList(queued_iframes)
  BY DEF FrameReadTake, CanRemoveLte
<1>2. PeekFront(queued_iframes) \in Frames(Bytes) /\ PeekFront(queued_iframes) = queued_iframes.frames[1]
  BY <1>1, ListTypes DEF BufferTypes
<1>3. DataLength(PeekFront(queued_iframes)) \in Nat /\ PeekFront(queued_iframes).data \in Seq(Bytes)
  BY <1>2 DEF Frames, DataLength
<1>4. TakenLength(d) \in Nat
  <2>1. \A n \in Int : n % WORD \in Nat
    BY DEF WordAssumption
  <2> QED
    BY <1>3, <2>1, SMTT(30) DEF TakenLength, RxAssumption
<1>5. dpc[d].out \in Nat /\ dpc[d].req \in 1..Len(reads)
  BY DEF ReadTypes, DpcStates, FrameReadTake
<1>6. TakenOut(d) \in Nat
  BY <1>4, <1>5 DEF TakenOut, RxAssumption
<1>7. /\ taken' = Append(taken, [req |-> dpc[d].req, data |-> PeekFront(queued_iframes).data])
      /\ IF RxMultiple
         THEN dpc' = [dpc EXCEPT ![d].out = TakenOut(d)] /\ reads' = reads
         ELSE CompleteRead(d, IF TakenOut(d) = 0 THEN "too_small" ELSE "success", TakenOut(d))
  BY DEF FrameReadTake, TakenOut, TakenLength
<1> QED
  BY <1>1, <1>2, <1>3, <1>4, <1>5, <1>6, <1>7 DEF IsEmptyList

\* What a step may make of the runs that are outdated.
LEMMA OutdatedStep ==
    ASSUME [Next]_vars
    PROVE  outdated' \in {outdated, outdated \cap Checked', Checked, Checked'}
<1>1. CASE WireByte \/ Adapter \/ RegisterCompletion \/ RxPacket \/ RxStep
  BY <1>1 DEF WireByte, Adapter, ExecuteFrameCount, ExecuteFrameSize, ExecuteReceiverReset,
              RegisterCompletion, CompleteFrameCount, CompleteFrameSize, CompleteWithError,
              SendRead, SendSizeRead, SendCountRead,
              RxPacket, RxStep, RxUsageQueued, RxUsageStream, RxUsagePending, RxTrim, RxAdd,
              RxUnchanged, readVars
<1>2. CASE Timer \/ IframeWorker
  BY <1>2 DEF Timer, IframeWorker, IframeStart, IframeLoop, IframeEnd, readVars
<1>3. CASE \/ SyncComEvtIoRead
           \/ \E d \in ReadDpcs : ReadStart(d) \/ SynccomProcessRead(d)
  BY <1>3 DEF SyncComEvtIoRead, ReadStart, SynccomProcessRead, ReadCheck, ReadRetrieve,
              StreamRead, FrameReadTake, FrameReadEnd
<1>4. CASE PurgeReset \/ PurgeStep
  BY <1>4 DEF PurgeReset, PurgeStep, PurgeQueued, PurgeStream, PurgePending, PurgeCancel,
              PurgeDrain
<1>5. CASE UNCHANGED vars
  BY <1>5 DEF vars, readVars
<1> QED
  BY <1>1, <1>2, <1>3, <1>4, <1>5 DEF Next

LEMMA ReadTypesStep ==
    ASSUME RxAssumption, WordAssumption, TypeInv, [Next]_vars
    PROVE  ReadTypes'
<1>1. /\ ReadTypes /\ BufferTypes /\ reads \in Seq(ReadStates) /\ Len(reads) \in Nat
      /\ dpc \in [ReadDpcs -> DpcStates(Len(reads))]
      /\ read_queue2 \in Seq(1..Len(reads))
      /\ taken \in Seq([req : 1..Len(reads), data : Seq(Bytes)])
  BY DEF TypeInv, ReadTypes
<1>2. \A d \in ReadDpcs : dpc[d].pc = "read" => dpc[d].req \in 1..Len(reads)
  BY <1>1 DEF ReadTypes
<1>3. IdleRead \in DpcStates(Len(reads)) /\ IdleRead.pc = "idle"
  BY <1>1 DEF IdleRead, DpcStates
<1>o. outdated' \subseteq ReadDpcs
  <2>1. Checked \subseteq ReadDpcs /\ Checked' \subseteq ReadDpcs
    BY DEF Checked
  <2> QED
    BY <1>1, <2>1, OutdatedStep DEF ReadTypes
<1>4. CASE SyncComEvtIoRead
  <2> DEFINE read(length, status) ==
                 [length |-> length, status |-> status, out |-> 0]
  <2>1. PICK length \in ReadLengths :
            /\ \/ /\ \E status \in {"success", "failed"} :
                        reads' = Append(reads, read(length, status))
                  /\ read_queue2' = read_queue2
               \/ /\ reads' = Append(reads, read(length, "queued"))
                  /\ read_queue2' = Append(read_queue2, Len(reads) + 1)
            /\ dpc' = dpc /\ taken' = taken
    BY <1>4 DEF SyncComEvtIoRead
  <2>2. \A status \in {"success", "failed", "queued"} : read(length, status) \in ReadStates
    BY DEF ReadStates, RxAssumption
  <2>3. reads' \in Seq(ReadStates) /\ Len(reads') = Len(reads) + 1
    <3>1. PICK new \in ReadStates : reads' = Append(reads, new)
      BY <2>1, <2>2
    <3> HIDE DEF ReadStates
    <3> QED
      BY <1>1, <3>1
  <2>4. read_queue2' \in Seq(1..Len(reads'))
    <3> DEFINE S == 1..Len(reads')
    <3>1. Len(reads) + 1 \in S /\ 1..Len(reads) \subseteq S
      BY <1>1, <2>3
    <3> HIDE DEF S
    <3>2. read_queue2 \in Seq(S)
      BY <1>1, <3>1, SeqWidens
    <3>3. Append(read_queue2, Len(reads) + 1) \in Seq(S)
      BY <3>1, <3>2, SeqFacts
    <3>4. read_queue2' \in Seq(S)
      BY <2>1, <3>2, <3>3
    <3> QED
      BY <3>4 DEF S
  <2>5. dpc' \in [ReadDpcs -> DpcStates(Len(reads'))]
    BY <1>1, <2>1, <2>3 DEF DpcStates
  <2>6. taken' \in Seq([req : 1..Len(reads'), data : Seq(Bytes)])
    <3>1. 1..Len(reads) \subseteq 1..Len(reads')
      BY <1>1, <2>3
    <3>2. [req : 1..Len(reads), data : Seq(Bytes)] \subseteq [req : 1..Len(reads'), data : Seq(Bytes)]
      BY <3>1
    <3> QED
      BY <1>1, <2>1, <3>2, SeqWidens, ZenonT(30)
  <2>7. \A d \in ReadDpcs : dpc'[d].pc = "read" => dpc'[d].req \in 1..Len(reads')
    BY <1>1, <1>2, <2>1, <2>3
  <2> QED
    BY <1>o, <2>3, <2>4, <2>5, <2>6, <2>7 DEF ReadTypes
<1>5. ASSUME NEW d \in ReadDpcs, NEW state \in DpcStates(Len(reads)),
             state.pc = "read" => state.req \in 1..Len(reads),
             dpc' = [dpc EXCEPT ![d] = state]
      PROVE  /\ dpc' \in [ReadDpcs -> DpcStates(Len(reads))]
             /\ \A e \in ReadDpcs : dpc'[e].pc = "read" => dpc'[e].req \in 1..Len(reads)
  <2> HIDE DEF DpcStates
  <2> QED
    BY <1>1, <1>2, <1>5
<1>6. ASSUME NEW d \in ReadDpcs, NEW pc \in {"idle", "check", "retrieve"},
             dpc' = [dpc EXCEPT ![d].pc = pc], UNCHANGED <<reads, read_queue2, taken>>
      PROVE  ReadTypes'
  <2>1. dpc[d] \in DpcStates(Len(reads))
    BY <1>1
  <2>2. [dpc[d] EXCEPT !.pc = pc] \in DpcStates(Len(reads)) /\ [dpc[d] EXCEPT !.pc = pc].pc = pc
    BY <2>1 DEF DpcStates
  <2>3. dpc' = [dpc EXCEPT ![d] = [dpc[d] EXCEPT !.pc = pc]]
    BY <1>6
  <2>4. /\ dpc' \in [ReadDpcs -> DpcStates(Len(reads))]
        /\ \A e \in ReadDpcs : dpc'[e].pc = "read" => dpc'[e].req \in 1..Len(reads)
    BY <1>5, <2>2, <2>3
  <2> QED
    BY <1>o, <1>1, <1>6, <2>4 DEF ReadTypes
<1>7. ASSUME NEW d \in ReadDpcs, ReadRetrieve(d) PROVE ReadTypes'
  <2>1. CASE read_queue2 = <<>>
    <3>1. dpc' = [dpc EXCEPT ![d] = IdleRead] /\ UNCHANGED <<reads, read_queue2, taken>>
      BY <1>7, <2>1 DEF ReadRetrieve
    <3> QED
      BY <1>o, <1>1, <1>3, <1>5, <3>1 DEF ReadTypes
  <2>2. CASE read_queue2 # <<>>
    <3> DEFINE r == Head(read_queue2)
               held == [pc |-> "read", req |-> r, out |-> 0]
    <3>1. PICK status \in {"held", "failed"} :
             /\ dpc' = [dpc EXCEPT ![d] = IF status = "failed" THEN IdleRead ELSE held]
             /\ reads' = [reads EXCEPT ![r].status = status]
             /\ read_queue2' = Tail(read_queue2) /\ taken' = taken
      BY <1>7, <2>2 DEF ReadRetrieve, Retrieved
    <3> DEFINE state == IF status = "failed" THEN IdleRead ELSE held
    <3>2. r \in 1..Len(reads) /\ read_queue2' \in Seq(1..Len(reads))
      <4> DEFINE S == 1..Len(reads)
      <4>1. read_queue2 \in Seq(S)
        BY <1>1
      <4> HIDE DEF S
      <4>2. Head(read_queue2) \in S /\ Tail(read_queue2) \in Seq(S)
        BY <2>2, <4>1
      <4> QED
        BY <3>1, <4>2 DEF S
    <3>3. state \in DpcStates(Len(reads)) /\ (state.pc = "read" => state.req \in 1..Len(reads))
      <4>1. held \in DpcStates(Len(reads)) /\ held.req = r
        BY <1>1, <3>2 DEF DpcStates
      <4> QED
        BY <1>3, <3>2, <4>1
    <3>4. reads' \in Seq(ReadStates) /\ Len(reads') = Len(reads)
      <4>1. reads[r] \in ReadStates
        BY <1>1, <3>2
      <4>2. [reads[r] EXCEPT !.status = status] \in ReadStates
        BY <4>1 DEF ReadStates
      <4>3. reads' = [reads EXCEPT ![r] = [reads[r] EXCEPT !.status = status]]
        BY <3>1
      <4> HIDE DEF ReadStates, r
      <4> QED
        BY <1>1, <3>2, <4>2, <4>3
    <3>5. dpc' = [dpc EXCEPT ![d] = state]
      BY <3>1
    <3> HIDE DEF state
    <3>6. /\ dpc' \in [ReadDpcs -> DpcStates(Len(reads))]
          /\ \A e \in ReadDpcs : dpc'[e].pc = "read" => dpc'[e].req \in 1..Len(reads)
      BY <1>5, <3>3, <3>5
    <3> QED
      BY <1>o, <1>1, <3>1, <3>2, <3>4, <3>6 DEF ReadTypes
  <2> QED
    BY <2>1, <2>2
<1>8. ASSUME NEW d \in ReadDpcs, dpc[d].pc = "read", NEW status \in Statuses,
             NEW length \in Nat, CompleteRead(d, status, length),
             read_queue2' = read_queue2,
             taken' \in Seq([req : 1..Len(reads), data : Seq(Bytes)])
      PROVE  ReadTypes'
  <2>1. /\ reads' \in Seq(ReadStates) /\ Len(reads') = Len(reads)
        /\ dpc' \in [ReadDpcs -> DpcStates(Len(reads))]
        /\ dpc'[d] = IdleRead /\ \A e \in ReadDpcs : e # d => dpc'[e] = dpc[e]
    BY <1>1, <1>8, CompleteReadFacts
  <2>2. \A e \in ReadDpcs : dpc'[e].pc = "read" => dpc'[e].req \in 1..Len(reads)
    BY <1>2, <1>3, <2>1
  <2> QED
    BY <1>o, <1>1, <1>8, <2>1, <2>2 DEF ReadTypes
<1>9. ASSUME NEW d \in ReadDpcs, StreamRead(d) PROVE ReadTypes'
  <2> DEFINE length == Least(reads[dpc[d].req].length, DataLength(istream))
             entry == [req |-> dpc[d].req, data |-> Removed(istream, length)]
  <2>1. dpc[d].pc = "read" /\ dpc[d].req \in 1..Len(reads)
    BY <1>2, <1>9 DEF StreamRead
  <2>2. length \in Nat
    <3>1. reads[dpc[d].req] \in ReadStates
      BY <1>1, <2>1
    <3>2. istream.data \in Seq(Bytes)
      BY <1>1 DEF BufferTypes, Frames
    <3> QED
      BY <3>1, <3>2 DEF ReadStates, DataLength, Least
  <2>3. /\ taken' = Append(taken, entry) /\ CompleteRead(d, "success", length)
        /\ read_queue2' = read_queue2
    BY <1>9 DEF StreamRead
  <2> HIDE DEF length
  <2>4. Removed(istream, length) \in Seq(Bytes)
    BY <1>1, <2>2, RemovedFacts DEF BufferTypes
  <2>5. entry \in [req : 1..Len(reads), data : Seq(Bytes)]
    BY <2>1, <2>4
  <2> HIDE DEF entry
  <2>6. taken' \in Seq([req : 1..Len(reads), data : Seq(Bytes)])
    BY <1>1, <2>3, <2>5, SeqFacts
  <2>7. "success" \in Statuses
    BY DEF Statuses
  <2> QED
    BY <1>8, <2>1, <2>2, <2>3, <2>6, <2>7
<1>10. ASSUME NEW d \in ReadDpcs, FrameReadTake(d) PROVE ReadTypes'
  <2> DEFINE entry == [req |-> dpc[d].req, data |-> PeekFront(queued_iframes).data]
             S == [req : 1..Len(reads), data : Seq(Bytes)]
  <2>1. /\ TakenOut(d) \in Nat /\ taken' = Append(taken, entry) /\ entry \in S
        /\ IF RxMultiple
           THEN dpc' = [dpc EXCEPT ![d].out = TakenOut(d)] /\ reads' = reads
           ELSE CompleteRead(d, IF TakenOut(d) = 0 THEN "too_small" ELSE "success",
                             TakenOut(d))
    BY <1>1, <1>10, TakeFacts
  <2>2. dpc[d].pc = "read" /\ dpc[d].req \in 1..Len(reads) /\ read_queue2' = read_queue2
    BY <1>2, <1>10 DEF FrameReadTake
  <2>3. taken' \in Seq(S)
    <3> HIDE DEF entry, S
    <3>1. taken \in Seq(S)
      BY <1>1 DEF S
    <3> QED
      BY <2>1, <3>1, SeqFacts
  <2>4. CASE RxMultiple
    <3>1. dpc' = [dpc EXCEPT ![d] = [dpc[d] EXCEPT !.out = TakenOut(d)]] /\ reads' = reads
      BY <2>1, <2>4
    <3>2. /\ [dpc[d] EXCEPT !.out = TakenOut(d)] \in DpcStates(Len(reads))
          /\ [dpc[d] EXCEPT !.out = TakenOut(d)].req = dpc[d].req
      <4>1. dpc[d] \in DpcStates(Len(reads))
        BY <1>1
      <4> QED
        BY <2>1, <4>1 DEF DpcStates
    <3>3. /\ dpc' \in [ReadDpcs -> DpcStates(Len(reads))]
          /\ \A e \in ReadDpcs : dpc'[e].pc = "read" => dpc'[e].req \in 1..Len(reads)
      BY <1>5, <2>2, <3>1, <3>2
    <3> QED
      BY <1>o, <1>1, <2>2, <2>3, <3>1, <3>3 DEF ReadTypes
  <2>5. CASE ~RxMultiple
    <3>1. PICK status \in Statuses : CompleteRead(d, status, TakenOut(d))
      BY <2>1, <2>5 DEF Statuses
    <3> QED
      BY <1>8, <2>1, <2>2, <2>3, <3>1
  <2> QED
    BY <2>4, <2>5
<1>11. ASSUME NEW d \in ReadDpcs, FrameReadEnd(d) PROVE ReadTypes'
  <2>1. PICK status \in Statuses : CompleteRead(d, status, dpc[d].out)
    BY <1>11 DEF FrameReadEnd, Statuses
  <2>2. dpc[d].pc = "read" /\ read_queue2' = read_queue2 /\ taken' = taken
    BY <1>11 DEF FrameReadEnd
  <2>3. dpc[d].out \in Nat
    BY <1>1 DEF DpcStates
  <2> QED
    BY <1>1, <1>8, <2>1, <2>2, <2>3
<1>12. CASE PurgeCancel
  <2>1. /\ read_queue2' = <<>> /\ dpc' = dpc /\ taken' = taken
        /\ reads' = [r \in DOMAIN reads |-> Cancelled(reads[r])]
    BY <1>12 DEF PurgeCancel, PurgeUnchanged
  <2>2. \A read \in ReadStates : Cancelled(read) \in ReadStates
    BY DEF Cancelled, ReadStates
  <2>3. DOMAIN reads = 1..Len(reads) /\ \A r \in 1..Len(reads) : reads[r] \in ReadStates
    <3> HIDE DEF ReadStates
    <3> QED
      BY <1>1
  <2>4. reads' \in Seq(ReadStates) /\ Len(reads') = Len(reads)
    <3> HIDE DEF ReadStates
    <3> QED
      BY <1>1, <2>1, <2>2, <2>3
  <2>5. read_queue2' \in Seq(1..Len(reads'))
    BY <2>1
  <2> QED
    BY <1>o, <1>1, <1>2, <2>1, <2>4, <2>5 DEF ReadTypes
<1>13. ASSUME UNCHANGED readVars PROVE ReadTypes'
  BY <1>1, <1>13 DEF readVars, ReadTypes
<1>14. CASE WireByte \/ Adapter \/ RegisterCompletion \/ RxPacket \/ RxStep
  BY <1>13, <1>14 DEF WireByte, Adapter, ExecuteFrameCount, ExecuteFrameSize, ExecuteReceiverReset,
                      RegisterCompletion, CompleteFrameCount, CompleteFrameSize, CompleteWithError,
                      SendRead, SendSizeRead, SendCountRead,
                      RxPacket, RxStep, RxUsageQueued, RxUsageStream, RxUsagePending, RxTrim, RxAdd,
                      RxUnchanged
<1>15. CASE Timer \/ IframeWorker
  BY <1>13, <1>15 DEF Timer, IframeWorker, IframeStart, IframeLoop, IframeEnd
<1>16. ASSUME NEW d \in ReadDpcs, ReadStart(d) \/ ReadCheck(d) PROVE ReadTypes'
  <2>1. PICK pc \in {"idle", "check", "retrieve"} :
            dpc' = [dpc EXCEPT ![d].pc = pc] /\ UNCHANGED <<reads, read_queue2, taken>>
    BY <1>16 DEF ReadStart, ReadCheck
  <2> QED
    BY <1>6, <2>1
<1>17. CASE PurgeReset \/ PurgeQueued \/ PurgeStream \/ PurgePending \/ PurgeDrain
  <2>1. UNCHANGED <<dpc, read_queue2, reads, taken>>
    BY <1>17 DEF PurgeReset, PurgeQueued, PurgeStream, PurgePending, PurgeDrain, PurgeUnchanged
  <2> QED
    BY <1>o, <1>1, <2>1 DEF ReadTypes
<1>18. CASE UNCHANGED vars
  BY <1>13, <1>18 DEF vars
<1> QED
  BY <1>4, <1>7, <1>9, <1>10, <1>11, <1>12, <1>14, <1>15, <1>16, <1>17, <1>18
  DEF Next, SynccomProcessRead, PurgeStep

----------------------------------------------------------------------------
(* The flags, the completion of the data read, the purge and the bounds. *)

LEMMA ControlTypesStep ==
    ASSUME RxAssumption, WordAssumption, TypeInv, [Next]_vars
    PROVE  ControlTypes'
<1>1. /\ ControlTypes /\ BufferTypes
      /\ iframe_dpc \in BOOLEAN /\ process_read_dpc \in BOOLEAN /\ iframe_pc \in {"idle", "loop"}
      /\ rx \in RxStates /\ dataFifo \in Seq(Bytes)
      /\ purge \in {"idle", "queued", "istream", "pending", "cancel", "drain"}
      /\ bound \in [purges : Nat, failures : Nat]
  BY DEF TypeInv, ControlTypes, AdapterTypes
<1>2. /\ rx.packet \in Seq(Bytes) /\ rx.usage \in Nat
      /\ rx.pc \in {"idle", "queued", "istream", "pending", "trim", "add"}
  BY <1>1 DEF RxStates
<1>3. IdleRx \in RxStates
  <2>1. <<>> \in Seq(Bytes)
    OBVIOUS
  <2> QED
    BY <2>1 DEF IdleRx, RxStates
<1>4. ASSUME rx' \in RxStates, iframe_dpc' \in BOOLEAN, UNCHANGED <<process_read_dpc, iframe_pc, purge, bound>>
      PROVE  ControlTypes'
  BY <1>1, <1>4 DEF ControlTypes
<1>5. CASE RxPacket
  <2>1. PICK n \in 1..Least(MaxPacket, Len(dataFifo)) :
            rx' = [IdleRx EXCEPT !.pc = "queued", !.packet = SubSeq(dataFifo, 1, n)]
    BY <1>5 DEF RxPacket
  <2>2. n \in 1..Len(dataFifo)
    BY <1>1, <2>1 DEF Least, RxAssumption
  <2>3. SubSeq(dataFifo, 1, n) \in Seq(Bytes)
    BY <1>1, <2>2
  <2>4. rx' = [pc |-> "queued", packet |-> SubSeq(dataFifo, 1, n), usage |-> 0]
    BY <2>1 DEF IdleRx
  <2>5. rx' \in RxStates
    BY <2>3, <2>4 DEF RxStates
  <2> QED
    BY <1>1, <1>4, <1>5, <2>5 DEF RxPacket
<1>6. CASE RxUsageQueued \/ RxUsageStream \/ RxUsagePending
  <2>1. PICK amount \in Int, pc \in {"istream", "pending", "trim"} : AddUsage(amount, pc)
    <3>1. /\ queued_iframes.estimated_memory_usage \in Int
          /\ pending_iframes.estimated_memory_usage \in Int
          /\ DataLength(istream) \in Int
      BY <1>1 DEF BufferTypes, Lists, Frames, DataLength
    <3> QED
      BY <1>6, <3>1 DEF RxUsageQueued, RxUsageStream, RxUsagePending
  <2> DEFINE usage == (rx.usage + amount) % WORD
  <2>2. usage \in Nat
    <3>1. rx.usage + amount \in Int
      BY <1>2
    <3>2. \A n \in Int : n % WORD \in Nat
      BY DEF WordAssumption
    <3> QED
      BY <3>1, <3>2
  <2>3. rx' = [[rx EXCEPT !.usage = usage] EXCEPT !.pc = pc]
    BY <2>1 DEF AddUsage
  <2> HIDE DEF usage
  <2>4. rx' \in RxStates
    BY <1>1, <2>2, <2>3 DEF RxStates
  <2> QED
    BY <1>1, <1>4, <1>6, <2>4 DEF RxUsageQueued, RxUsageStream, RxUsagePending, RxUnchanged
<1>7. CASE RxTrim
  <2> DEFINE kept == Kept(Len(rx.packet))
  <2>1. kept \in 0..Len(rx.packet)
    BY <1>2 DEF Kept, RxAssumption
  <2>2. rx' = IdleRx \/ rx' = [[rx EXCEPT !.packet = SubSeq(rx.packet, 1, kept)] EXCEPT !.pc = "add"]
    BY <1>7 DEF RxTrim
  <2> HIDE DEF kept
  <2>3. SubSeq(rx.packet, 1, kept) \in Seq(Bytes)
    BY <1>2, <2>1
  <2>4. rx' \in RxStates
    BY <1>1, <1>3, <2>2, <2>3 DEF RxStates
  <2> QED
    BY <1>1, <1>4, <1>7, <2>4 DEF RxTrim, RxUnchanged
<1>8. CASE RxAdd
  BY <1>1, <1>3, <1>4, <1>8 DEF RxAdd, RxUnchanged
<1>9. CASE CompleteWithError \/ PurgeReset
  <2>1. bound' = [bound EXCEPT !.failures = bound.failures + 1]
        \/ bound' = [bound EXCEPT !.purges = bound.purges + 1]
    BY <1>9 DEF CompleteWithError, PurgeReset
  <2>2. bound.failures + 1 \in Nat /\ bound.purges + 1 \in Nat
    BY <1>1
  <2>3. bound' \in [purges : Nat, failures : Nat]
    BY <1>1, <2>1, <2>2
  <2> QED
    BY <1>1, <1>9, <2>3 DEF CompleteWithError, PurgeReset, PurgeUnchanged, ControlTypes
<1>10. CASE WireByte \/ Adapter
  BY <1>1, <1>10 DEF WireByte, Adapter, ExecuteFrameCount, ExecuteFrameSize,
                     ExecuteReceiverReset, ControlTypes
<1>11. CASE \/ CompleteFrameCount \/ CompleteFrameSize \/ SendRead
            \/ Timer \/ IframeWorker
  BY <1>1, <1>11 DEF CompleteFrameCount, CompleteFrameSize, SendRead, SendSizeRead, SendCountRead,
                     Timer, IframeWorker, IframeStart,
                     IframeLoop, IframeEnd, ControlTypes
<1>12. CASE \/ SyncComEvtIoRead
            \/ \E d \in ReadDpcs : ReadStart(d) \/ SynccomProcessRead(d)
  <2>1. UNCHANGED <<iframe_dpc, iframe_pc, rx, purge, bound>>
    BY <1>12 DEF SyncComEvtIoRead, ReadStart, SynccomProcessRead, ReadCheck, ReadRetrieve,
                 StreamRead, FrameReadTake, FrameReadEnd, ReadUnchanged
  <2>2. process_read_dpc' \in BOOLEAN
    BY <1>1, <1>12 DEF SyncComEvtIoRead, ReadStart, SynccomProcessRead, ReadCheck, ReadRetrieve,
                       StreamRead, FrameReadTake, FrameReadEnd
  <2> QED
    BY <1>1, <2>1, <2>2 DEF ControlTypes
<1>13. CASE PurgeStep
  BY <1>1, <1>13 DEF PurgeStep, PurgeQueued, PurgeStream, PurgePending, PurgeCancel,
                     PurgeDrain, PurgeUnchanged, ControlTypes
<1>14. CASE UNCHANGED vars
  BY <1>1, <1>14 DEF vars, ControlTypes
<1> QED
  BY <1>5, <1>6, <1>7, <1>8, <1>9, <1>10, <1>11, <1>12, <1>13, <1>14
  DEF Next, RegisterCompletion, RxStep

LEMMA TypeStep ==
    ASSUME RxAssumption, WordAssumption, TypeInv, [Next]_vars
    PROVE  TypeInv'
<1>1. AdapterTypes' /\ CommandTypes'
  BY AdapterTypesStep, CommandTypesStep
<1>2. BufferTypes' /\ ReadTypes' /\ ControlTypes'
  BY BufferTypesStep, ReadTypesStep, ControlTypesStep
<1> QED
  BY <1>1, <1>2 DEF TypeInv

LEMMA TypeInvariant == Spec => []TypeInv
<1>1. Init => TypeInv
  BY TypeInit, RxAssumption
<1>2. TypeInv /\ [Next]_vars => TypeInv'
  BY TypeStep, RxAssumption, WordAssumption
<1> QED
  BY <1>1, <1>2, PTL DEF Spec

\* Every variable of the receive path keeps its type: no step takes from a
\* queue that is empty, charges a frame that is not there or answers a request
\* it does not hold, whatever is purged and whichever register reads fail.
THEOREM TypeCorrect == Spec => []TypeOK
<1>1. TypeInv => TypeOK
  <2>1. TypeInv => queued_iframes.estimated_memory_usage >= 0
    BY CountedFacts DEF TypeInv, BufferTypes
  <2> QED
    BY <2>1 DEF TypeInv, AdapterTypes, CommandTypes, BufferTypes, ReadTypes, ControlTypes,
                Commands, Completions, Counts, Unsent, ReadStates, DpcStates, RxStates,
                TypeOK
<1> QED
  BY <1>1, TypeInvariant, PTL

\* The estimate of queued_iframes is the sum of the lengths of its frames
\* (add_frame, remove_frame and clear of flist.c), although iframe_worker, the
\* reads and PURGE_RX change the list and its estimate in turn.
THEOREM EstimateStaysExact == Spec => []QueuedEstimateExact
<1>1. TypeInv => QueuedEstimateExact
  BY EstimateIsTotal DEF TypeInv, BufferTypes, QueuedEstimateExact
<1> QED
  BY <1>1, TypeInvariant, PTL

----------------------------------------------------------------------------
(* Where each read request is. *)

HeldOnce ==
    /\ \A d \in ReadDpcs : dpc[d].pc = "read" => reads[dpc[d].req].status = "held"
    /\ \A d, e \in ReadDpcs :
          dpc[d].pc = "read" /\ dpc[e].pc = "read" /\ dpc[d].req = dpc[e].req => d = e
    /\ \A r \in 1..Len(reads) :
          reads[r].status = "held" => \E d \in ReadDpcs : dpc[d].pc = "read" /\ dpc[d].req = r

QueuedOnce ==
    /\ \A i \in 1..Len(read_queue2) : reads[read_queue2[i]].status = "queued"
    /\ \A i, j \in 1..Len(read_queue2) : read_queue2[i] = read_queue2[j] => i = j
    /\ \A r \in 1..Len(reads) :
          reads[r].status = "queued" => \E i \in 1..Len(read_queue2) : read_queue2[i] = r

\* While PURGE_RX waits for the read being served, none is waiting.
DrainingEmpty ==
    purge = "drain" => \A r \in 1..Len(reads) : reads[r].status # "queued"

PlacesInv == HeldOnce /\ QueuedOnce /\ DrainingEmpty

LEMMA PlacesInit == ASSUME Init PROVE PlacesInv
<1>1. Len(reads) = 0 /\ Len(read_queue2) = 0 /\ purge = "idle"
      /\ \A d \in ReadDpcs : dpc[d].pc = "idle"
  BY DEF Init, IdleRead
<1> QED
  BY <1>1 DEF PlacesInv, HeldOnce, QueuedOnce, DrainingEmpty

LEMMA CompletePlaces ==
    ASSUME ReadTypes, PlacesInv, NEW d \in ReadDpcs, dpc[d].pc = "read",
           NEW status \in {"success", "too_small"}, NEW length \in Nat,
           CompleteRead(d, status, length), read_queue2' = read_queue2, purge' = purge
    PROVE  PlacesInv'
<1> DEFINE r == dpc[d].req
<1>1. /\ r \in 1..Len(reads) /\ Len(reads') = Len(reads)
      /\ \A q \in 1..Len(reads) : q # r => reads'[q] = reads[q]
      /\ reads'[r].status = status
      /\ dpc'[d].pc = "idle" /\ \A e \in ReadDpcs : e # d => dpc'[e] = dpc[e]
  <2>1. status \in Statuses
    BY DEF Statuses
  <2>2. /\ r \in 1..Len(reads) /\ Len(reads') = Len(reads)
        /\ \A q \in 1..Len(reads) : q # r => reads'[q] = reads[q]
        /\ reads'[r] = [length |-> reads[r].length, status |-> status, out |-> length]
        /\ dpc'[d] = IdleRead
        /\ \A e \in ReadDpcs : e # d => dpc'[e] = dpc[e]
    BY <2>1, CompleteReadFacts
  <2>3. reads'[r].status = status /\ dpc'[d].pc = "idle"
    BY <2>2 DEF IdleRead
  <2> QED
    BY <2>2, <2>3
<1>2. /\ Len(reads) \in Nat /\ reads[r].status = "held"
      /\ \A e \in ReadDpcs : dpc[e].pc = "read" => dpc[e].req \in 1..Len(reads)
      /\ \A i \in 1..Len(read_queue2) : read_queue2[i] \in 1..Len(reads)
  BY DEF ReadTypes, PlacesInv, HeldOnce
<1>3. HeldOnce'
  <2>1. \A e \in ReadDpcs : dpc'[e].pc = "read" => e # d /\ dpc[e].pc = "read" /\ dpc'[e] = dpc[e]
                                                  /\ dpc[e].req # r
    BY <1>1 DEF PlacesInv, HeldOnce
  <2>2. \A q \in 1..Len(reads) : reads'[q].status = "held" => q # r /\ reads[q].status = "held"
    BY <1>1
  <2>3. \A q \in 1..Len(reads) : reads'[q].status = "held" =>
            \E e \in ReadDpcs : dpc'[e].pc = "read" /\ dpc'[e].req = q
    BY <1>1, <2>2 DEF PlacesInv, HeldOnce
  <2>4. \A e \in ReadDpcs : dpc'[e].pc = "read" => reads'[dpc'[e].req].status = "held"
    BY <1>1, <1>2, <2>1 DEF PlacesInv, HeldOnce
  <2>5. \A e, f \in ReadDpcs :
            dpc'[e].pc = "read" /\ dpc'[f].pc = "read" /\ dpc'[e].req = dpc'[f].req => e = f
    BY <2>1 DEF PlacesInv, HeldOnce
  <2> QED
    BY <1>1, <2>3, <2>4, <2>5 DEF HeldOnce
<1>4. QueuedOnce'
  <2>1. \A q \in 1..Len(reads) : reads'[q].status = "queued" <=> reads[q].status = "queued"
    BY <1>1, <1>2
  <2> QED
    BY <1>1, <1>2, <2>1 DEF PlacesInv, QueuedOnce
<1>5. DrainingEmpty'
  BY <1>1, <1>2 DEF PlacesInv, DrainingEmpty
<1> QED
  BY <1>3, <1>4, <1>5 DEF PlacesInv

LEMMA PlacesStep ==
    ASSUME RxAssumption, WordAssumption, TypeInv, PlacesInv, [Next]_vars
    PROVE  PlacesInv'
<1>1. /\ ReadTypes /\ BufferTypes /\ reads \in Seq(ReadStates) /\ Len(reads) \in Nat
      /\ dpc \in [ReadDpcs -> DpcStates(Len(reads))]
      /\ read_queue2 \in Seq(1..Len(reads)) /\ Len(read_queue2) \in Nat
  BY DEF TypeInv, ReadTypes
<1>2. /\ \A d \in ReadDpcs : dpc[d].pc = "read" => dpc[d].req \in 1..Len(reads)
      /\ \A i \in 1..Len(read_queue2) : read_queue2[i] \in 1..Len(reads)
  BY <1>1 DEF ReadTypes
<1>3. HeldOnce /\ QueuedOnce /\ DrainingEmpty
  BY DEF PlacesInv
<1>4. ASSUME UNCHANGED <<reads, read_queue2>>, purge' = "drain" => purge = "drain",
             \A d \in ReadDpcs : dpc'[d].pc = "read" <=> dpc[d].pc = "read",
             \A d \in ReadDpcs : dpc'[d].pc = "read" => dpc'[d].req = dpc[d].req
      PROVE  PlacesInv'
  <2>1. HeldOnce'
    BY <1>3, <1>4 DEF HeldOnce
  <2>2. QueuedOnce' /\ DrainingEmpty'
    BY <1>3, <1>4 DEF QueuedOnce, DrainingEmpty
  <2> QED
    BY <2>1, <2>2 DEF PlacesInv
<1>5. CASE SyncComEvtIoRead
  <2> DEFINE read(length, status) ==
                 [length |-> length, status |-> status, out |-> 0]
             n == Len(reads) + 1
  <2>1. PICK length \in ReadLengths :
            /\ \/ /\ \E status \in {"success", "failed"} :
                        reads' = Append(reads, read(length, status))
                  /\ read_queue2' = read_queue2
               \/ reads' = Append(reads, read(length, "queued")) /\ read_queue2' = Append(read_queue2, n)
            /\ dpc' = dpc /\ purge' = purge /\ purge # "drain"
    BY <1>5 DEF SyncComEvtIoRead, ReadUnchanged
  <2>2. /\ Len(reads') = n /\ n \in Nat /\ \A r \in 1..Len(reads) : reads'[r] = reads[r]
        /\ reads'[n].status \in {"success", "failed", "queued"}
        /\ \/ reads'[n].status # "queued" /\ read_queue2' = read_queue2
           \/ reads'[n].status = "queued" /\ read_queue2' = Append(read_queue2, n)
    <3>1. PICK new : reads' = Append(reads, new) /\ new.status \in {"success", "failed", "queued"}
                  /\ \/ new.status # "queued" /\ read_queue2' = read_queue2
                     \/ new.status = "queued" /\ read_queue2' = Append(read_queue2, n)
      BY <2>1
    <3> HIDE DEF ReadStates
    <3> QED
      BY <1>1, <3>1
  <2>3. \A r \in 1..n : r \in 1..Len(reads) \/ r = n
    <3>1. Len(reads) \in Nat
      BY <1>1
    <3> QED
      BY <3>1
  <2> HIDE DEF n
  <2>4. HeldOnce'
    <3>1. \A d \in ReadDpcs : dpc'[d].pc = "read" => reads'[dpc'[d].req].status = "held"
      BY <1>2, <1>3, <2>1, <2>2 DEF HeldOnce
    <3>2. \A r \in 1..n : reads'[r].status = "held" =>
              \E d \in ReadDpcs : dpc'[d].pc = "read" /\ dpc'[d].req = r
      <4> TAKE r \in 1..n
      <4> HAVE reads'[r].status = "held"
      <4>1. r # n
        BY <2>2
      <4>2. r \in 1..Len(reads) /\ reads[r].status = "held"
        BY <2>2, <2>3, <4>1
      <4> QED
        BY <1>3, <2>1, <4>2 DEF HeldOnce
    <3>3. \A d, e \in ReadDpcs :
              dpc'[d].pc = "read" /\ dpc'[e].pc = "read" /\ dpc'[d].req = dpc'[e].req => d = e
      BY <1>3, <2>1 DEF HeldOnce
    <3> QED
      BY <2>2, <3>1, <3>2, <3>3 DEF HeldOnce
  <2>5. CASE reads'[n].status # "queued" /\ read_queue2' = read_queue2
    BY <1>2, <1>3, <2>1, <2>2, <2>3, <2>4, <2>5 DEF QueuedOnce, DrainingEmpty, PlacesInv
  <2>6. CASE reads'[n].status = "queued" /\ read_queue2' = Append(read_queue2, n)
    <3> DEFINE m == Len(read_queue2) + 1
    <3>1. /\ Len(read_queue2') = m /\ read_queue2'[m] = n /\ m \in 1..m
          /\ \A i \in 1..Len(read_queue2) : read_queue2'[i] = read_queue2[i] /\ i \in 1..m
          /\ \A i \in 1..m : i \in 1..Len(read_queue2) \/ i = m
      BY <1>1, <2>6
    <3>2. \A i \in 1..Len(read_queue2) : read_queue2[i] # n
      BY <1>1, <1>2 DEF n
    <3> HIDE DEF m
    <3>3. \A i \in 1..m : reads'[read_queue2'[i]].status = "queued"
      <4> TAKE i \in 1..m
      <4>1. CASE i = m
        BY <2>6, <3>1, <4>1
      <4>2. CASE i # m
        <5>1. i \in 1..Len(read_queue2) /\ read_queue2'[i] = read_queue2[i]
          BY <3>1, <4>2
        <5>2. read_queue2[i] \in 1..Len(reads) /\ reads[read_queue2[i]].status = "queued"
          BY <1>2, <1>3, <5>1 DEF QueuedOnce
        <5> QED
          BY <2>2, <5>1, <5>2
      <4> QED
        BY <4>1, <4>2
    <3>4. \A i, j \in 1..m : read_queue2'[i] = read_queue2'[j] => i = j
      BY <1>3, <3>1, <3>2 DEF QueuedOnce
    <3>5. \A r \in 1..n : reads'[r].status = "queued" => \E i \in 1..m : read_queue2'[i] = r
      BY <1>3, <2>2, <2>3, <3>1 DEF QueuedOnce
    <3> QED
      BY <2>1, <2>2, <2>4, <3>1, <3>3, <3>4, <3>5 DEF QueuedOnce, DrainingEmpty, PlacesInv
  <2> QED
    BY <2>2, <2>5, <2>6
<1>6. ASSUME NEW d \in ReadDpcs, ReadStart(d) \/ ReadCheck(d) PROVE PlacesInv'
  <2>1. PICK pc \in {"idle", "check", "retrieve"} : dpc' = [dpc EXCEPT ![d].pc = pc]
    BY <1>6 DEF ReadStart, ReadCheck
  <2>2. dpc[d].pc # "read" /\ UNCHANGED <<reads, read_queue2, purge>>
    BY <1>6 DEF ReadStart, ReadCheck, ReadUnchanged
  <2>3. dpc' = [dpc EXCEPT ![d] = [dpc[d] EXCEPT !.pc = pc]] /\ [dpc[d] EXCEPT !.pc = pc].pc = pc
    BY <1>1, <2>1 DEF DpcStates
  <2>4. dpc'[d].pc = pc /\ \A e \in ReadDpcs : e # d => dpc'[e] = dpc[e]
    BY <1>1, <2>3
  <2> QED
    BY <1>4, <2>2, <2>4
<1>7. ASSUME NEW d \in ReadDpcs, ReadRetrieve(d) PROVE PlacesInv'
  <2>1. dpc[d].pc = "retrieve" /\ purge' = purge
    BY <1>7 DEF ReadRetrieve, ReadUnchanged
  <2>2. CASE read_queue2 = <<>>
    <3>1. dpc' = [dpc EXCEPT ![d] = IdleRead] /\ UNCHANGED <<reads, read_queue2>>
      BY <1>7, <2>2 DEF ReadRetrieve
    <3>2. dpc'[d].pc = "idle" /\ \A e \in ReadDpcs : e # d => dpc'[e] = dpc[e]
      BY <1>1, <3>1 DEF IdleRead
    <3> QED
      BY <1>4, <2>1, <3>1, <3>2
  <2>3. CASE read_queue2 # <<>>
    <3> DEFINE r == Head(read_queue2)
               held == [pc |-> "read", req |-> r, out |-> 0]
               n == Len(read_queue2)
    <3>1. PICK status \in {"held", "failed"} :
             /\ dpc' = [dpc EXCEPT ![d] = IF status = "failed" THEN IdleRead ELSE held]
             /\ reads' = [reads EXCEPT ![r].status = status]
             /\ read_queue2' = Tail(read_queue2)
      BY <1>7, <2>3 DEF ReadRetrieve, Retrieved
    <3>2. /\ n \in Nat /\ n >= 1 /\ r = read_queue2[1] /\ r \in 1..Len(reads)
          /\ Len(read_queue2') = n - 1
          /\ \A i \in 1..n - 1 : read_queue2'[i] = read_queue2[i + 1] /\ i + 1 \in 1..n
          /\ \A i \in 1..n : i = 1 \/ (i - 1 \in 1..n - 1 /\ i = (i - 1) + 1)
      <4>1. n \in Nat /\ n >= 1 /\ r = read_queue2[1] /\ 1 \in 1..n
        BY <1>1, <2>3
      <4>2. Len(Tail(read_queue2)) = n - 1
            /\ \A i \in 1..n - 1 : Tail(read_queue2)[i] = read_queue2[i + 1]
        BY <1>1, <2>3
      <4>3. r \in 1..Len(reads)
        BY <1>2, <4>1
      <4> HIDE DEF n, r
      <4>4. /\ \A i \in 1..n - 1 : i + 1 \in 1..n
            /\ \A i \in 1..n : i = 1 \/ (i - 1 \in 1..n - 1 /\ i = (i - 1) + 1)
        BY <4>1
      <4> QED
        BY <3>1, <4>1, <4>2, <4>3, <4>4
    <3>3. /\ status = "held" => dpc'[d].pc = "read" /\ dpc'[d].req = r
          /\ status = "failed" => dpc'[d].pc = "idle"
          /\ \A e \in ReadDpcs : e # d => dpc'[e] = dpc[e]
      BY <1>1, <3>1 DEF IdleRead
    <3>4. /\ Len(reads') = Len(reads) /\ reads'[r].status = status
          /\ \A q \in 1..Len(reads) : q # r => reads'[q] = reads[q]
      <4>1. reads[r] \in ReadStates
        BY <1>1, <3>2
      <4>2. [reads[r] EXCEPT !.status = status].status = status
        BY <4>1 DEF ReadStates
      <4>3. reads' = [reads EXCEPT ![r] = [reads[r] EXCEPT !.status = status]]
        BY <3>1
      <4> HIDE DEF ReadStates, r
      <4> QED
        BY <1>1, <3>2, <4>2, <4>3
    <3> HIDE DEF r, n
    <3>5. reads[r].status = "queued" /\ \A i \in 1..n : i # 1 => read_queue2[i] # r
      <4>1. n \in Nat /\ 1 \in 1..n /\ r = read_queue2[1]
        BY <3>2
      <4> QED
        BY <1>3, <4>1 DEF QueuedOnce, n
    <3>6. \A e \in ReadDpcs : dpc[e].pc = "read" => dpc[e].req # r
      BY <1>3, <3>5 DEF HeldOnce
    <3>7. HeldOnce'
      <4>1. \A e \in ReadDpcs : dpc'[e].pc = "read" =>
                \/ e = d /\ dpc'[e].req = r /\ status = "held"
                \/ e # d /\ dpc[e].pc = "read" /\ dpc'[e].req = dpc[e].req /\ dpc[e].req # r
        BY <3>3, <3>6
      <4>2. \A e \in ReadDpcs : dpc'[e].pc = "read" => reads'[dpc'[e].req].status = "held"
        BY <1>2, <1>3, <3>4, <4>1 DEF HeldOnce
      <4>3. \A e, f \in ReadDpcs :
                dpc'[e].pc = "read" /\ dpc'[f].pc = "read" /\ dpc'[e].req = dpc'[f].req => e = f
        BY <1>3, <4>1 DEF HeldOnce
      <4>4. \A q \in 1..Len(reads) : reads'[q].status = "held" =>
                \E e \in ReadDpcs : dpc'[e].pc = "read" /\ dpc'[e].req = q
        <5> TAKE q \in 1..Len(reads)
        <5> HAVE reads'[q].status = "held"
        <5>1. CASE q = r
          BY <3>3, <3>4, <5>1
        <5>2. CASE q # r
          <6>1. PICK e \in ReadDpcs : dpc[e].pc = "read" /\ dpc[e].req = q
            BY <1>3, <3>4, <5>2 DEF HeldOnce
          <6>2. e # d
            BY <2>1, <6>1
          <6> QED
            BY <3>3, <6>1, <6>2
        <5> QED
          BY <5>1, <5>2
      <4> QED
        BY <3>4, <4>2, <4>3, <4>4 DEF HeldOnce
    <3>8. QueuedOnce'
      <4>1. \A i \in 1..n - 1 : reads'[read_queue2'[i]].status = "queued"
        <5> TAKE i \in 1..n - 1
        <5>1. i + 1 \in 1..n /\ i + 1 # 1 /\ read_queue2'[i] = read_queue2[i + 1]
          BY <3>2
        <5>2. read_queue2[i + 1] \in 1..Len(reads) /\ read_queue2[i + 1] # r
              /\ reads[read_queue2[i + 1]].status = "queued"
          BY <1>2, <1>3, <3>5, <5>1 DEF QueuedOnce, n
        <5> QED
          BY <3>4, <5>1, <5>2
      <4>2. \A i, j \in 1..n - 1 : read_queue2'[i] = read_queue2'[j] => i = j
        <5> TAKE i, j \in 1..n - 1
        <5> HAVE read_queue2'[i] = read_queue2'[j]
        <5>1. i + 1 = j + 1
          BY <1>3, <3>2, SMTT(30) DEF QueuedOnce, n
        <5> QED
          BY <5>1
      <4>3. \A q \in 1..Len(reads) : reads'[q].status = "queued" =>
                \E i \in 1..n - 1 : read_queue2'[i] = q
        <5> TAKE q \in 1..Len(reads)
        <5> HAVE reads'[q].status = "queued"
        <5>1. q # r /\ reads[q].status = "queued"
          BY <3>4
        <5>2. PICK i \in 1..n : read_queue2[i] = q
          BY <1>3, <5>1 DEF QueuedOnce, n
        <5>3. i - 1 \in 1..n - 1 /\ i = (i - 1) + 1
          BY <3>2, <5>1, <5>2
        <5> QED
          BY <3>2, <5>2, <5>3
      <4> QED
        BY <3>2, <3>4, <4>1, <4>2, <4>3 DEF QueuedOnce
    <3>9. DrainingEmpty'
      BY <1>3, <2>1, <3>2, <3>5 DEF DrainingEmpty
    <3> QED
      BY <3>7, <3>8, <3>9 DEF PlacesInv
  <2> QED
    BY <2>2, <2>3
<1>8. ASSUME NEW d \in ReadDpcs, StreamRead(d) PROVE PlacesInv'
  <2> DEFINE length == Least(reads[dpc[d].req].length, DataLength(istream))
  <2>1. /\ dpc[d].pc = "read" /\ CompleteRead(d, "success", length)
        /\ read_queue2' = read_queue2 /\ purge' = purge
    BY <1>8 DEF StreamRead, ReadUnchanged
  <2>2. length \in Nat
    <3>1. reads[dpc[d].req] \in ReadStates
      BY <1>1, <1>2, <2>1
    <3>2. istream.data \in Seq(Bytes)
      BY <1>1 DEF BufferTypes, Frames
    <3> QED
      BY <3>1, <3>2 DEF ReadStates, DataLength, Least
  <2> HIDE DEF length
  <2> QED
    BY <1>1, <2>1, <2>2, CompletePlaces
<1>9. ASSUME NEW d \in ReadDpcs, FrameReadTake(d) PROVE PlacesInv'
  <2>1. /\ TakenOut(d) \in Nat
        /\ IF RxMultiple
           THEN dpc' = [dpc EXCEPT ![d].out = TakenOut(d)] /\ reads' = reads
           ELSE CompleteRead(d, IF TakenOut(d) = 0 THEN "too_small" ELSE "success",
                             TakenOut(d))
    BY <1>1, <1>9, TakeFacts
  <2>2. dpc[d].pc = "read" /\ read_queue2' = read_queue2 /\ purge' = purge
    BY <1>9 DEF FrameReadTake, ReadUnchanged
  <2>3. CASE RxMultiple
    <3>1. dpc' = [dpc EXCEPT ![d] = [dpc[d] EXCEPT !.out = TakenOut(d)]] /\ reads' = reads
      BY <2>1, <2>3
    <3>2. /\ [dpc[d] EXCEPT !.out = TakenOut(d)].req = dpc[d].req
          /\ [dpc[d] EXCEPT !.out = TakenOut(d)].pc = dpc[d].pc
      BY <1>1 DEF DpcStates
    <3>3. \A e \in ReadDpcs : dpc'[e].req = dpc[e].req /\ dpc'[e].pc = dpc[e].pc
      BY <1>1, <3>1, <3>2
    <3> QED
      BY <1>4, <2>2, <3>1, <3>3
  <2>4. CASE ~RxMultiple
    <3>1. PICK status \in {"success", "too_small"} : CompleteRead(d, status, TakenOut(d))
      BY <2>1, <2>4
    <3> QED
      BY <1>1, <2>1, <2>2, <3>1, CompletePlaces
  <2> QED
    BY <2>3, <2>4
<1>10. ASSUME NEW d \in ReadDpcs, FrameReadEnd(d) PROVE PlacesInv'
  <2>1. PICK status \in {"success", "too_small"} : CompleteRead(d, status, dpc[d].out)
    BY <1>10 DEF FrameReadEnd
  <2>2. dpc[d].pc = "read" /\ read_queue2' = read_queue2 /\ purge' = purge
    BY <1>10 DEF FrameReadEnd, ReadUnchanged
  <2>3. dpc[d].out \in Nat
    BY <1>1 DEF DpcStates
  <2> QED
    BY <1>1, <2>1, <2>2, <2>3, CompletePlaces
<1>11. CASE PurgeCancel
  <2>1. /\ read_queue2' = <<>> /\ dpc' = dpc
        /\ reads' = [r \in DOMAIN reads |-> Cancelled(reads[r])]
    BY <1>11 DEF PurgeCancel, PurgeUnchanged
  <2>2. \A read \in ReadStates :
            /\ Cancelled(read).status # "queued"
            /\ Cancelled(read).status = "held" <=> read.status = "held"
    BY DEF Cancelled, ReadStates
  <2>3. /\ DOMAIN reads = 1..Len(reads) /\ \A r \in 1..Len(reads) : reads[r] \in ReadStates
    <3> HIDE DEF ReadStates
    <3> QED
      BY <1>1
  <2>4. /\ Len(reads') = Len(reads)
        /\ \A r \in 1..Len(reads) : reads'[r].status # "queued"
        /\ \A r \in 1..Len(reads) : reads'[r].status = "held" <=> reads[r].status = "held"
    <3>1. Len(reads') = Len(reads)
      BY <1>1, <2>1, <2>3
    <3> QED
      BY <2>1, <2>2, <2>3, <3>1
  <2>5. HeldOnce'
    BY <1>2, <1>3, <2>1, <2>4 DEF HeldOnce
  <2>6. Len(read_queue2') = 0
    BY <2>1
  <2>7. \A r \in 1..Len(reads') : reads'[r].status # "queued"
    <3> TAKE r \in 1..Len(reads')
    <3>1. r \in 1..Len(reads)
      BY <2>4
    <3> QED
      BY <2>4, <3>1
  <2>8. QueuedOnce'
    <3>1. 1..Len(read_queue2') = {}
      BY <2>6
    <3> QED
      BY <2>7, <3>1 DEF QueuedOnce
  <2> QED
    BY <2>5, <2>7, <2>8 DEF PlacesInv, DrainingEmpty
<1>12. CASE PurgeDrain \/ PurgeReset \/ PurgeQueued \/ PurgeStream \/ PurgePending
  BY <1>4, <1>12 DEF PurgeDrain, PurgeReset, PurgeQueued, PurgeStream, PurgePending, PurgeUnchanged
<1>13. CASE WireByte \/ Adapter \/ RegisterCompletion \/ RxPacket \/ RxStep
  BY <1>4, <1>13 DEF WireByte, Adapter, ExecuteFrameCount, ExecuteFrameSize, ExecuteReceiverReset,
                     RegisterCompletion, CompleteFrameCount, CompleteFrameSize, CompleteWithError,
                     SendRead, SendSizeRead, SendCountRead,
                     RxPacket, RxStep, RxUsageQueued, RxUsageStream, RxUsagePending, RxTrim, RxAdd,
                     RxUnchanged, readVars
<1>14. CASE Timer \/ IframeWorker
  BY <1>4, <1>14 DEF Timer, IframeWorker, IframeStart, IframeLoop, IframeEnd, readVars
<1>15. CASE UNCHANGED vars
  BY <1>4, <1>15 DEF vars, readVars
<1> QED
  BY <1>5, <1>6, <1>7, <1>8, <1>9, <1>10, <1>11, <1>12, <1>13, <1>14, <1>15
  DEF Next, SynccomProcessRead, PurgeStep

LEMMA PlacesInvariant == Spec => [](TypeInv /\ PlacesInv)
<1>1. Init => TypeInv /\ PlacesInv
  BY TypeInit, PlacesInit, RxAssumption
<1>2. TypeInv /\ PlacesInv /\ [Next]_vars => (TypeInv /\ PlacesInv)'
  BY TypeStep, PlacesStep, RxAssumption, WordAssumption
<1> QED
  BY <1>1, <1>2, PTL DEF Spec

\* A read that is completed is one that was held, by the execution completing it.
LEMMA CompletesHeld ==
    ASSUME PlacesInv, NEW d \in ReadDpcs, dpc[d].pc = "read", NEW status, NEW length,
           CompleteRead(d, status, length), NEW r \in DOMAIN reads, Answered(r)
    PROVE  reads'[r] = reads[r]
<1>1. r # dpc[d].req
  BY DEF PlacesInv, HeldOnce, Answered
<1> QED
  BY <1>1 DEF CompleteRead

LEMMA AnsweredStays ==
    ASSUME TypeInv, PlacesInv, [Next]_vars, NEW r \in DOMAIN reads, Answered(r)
    PROVE  reads'[r] = reads[r]
<1>1. /\ reads \in Seq(ReadStates) /\ DOMAIN reads = 1..Len(reads) /\ Len(reads) \in Nat
      /\ read_queue2 \in Seq(1..Len(reads))
  BY DEF TypeInv, ReadTypes
<1>2. CASE SyncComEvtIoRead
  <2>1. PICK new : reads' = Append(reads, new)
    BY <1>2 DEF SyncComEvtIoRead
  <2> HIDE DEF ReadStates
  <2> QED
    BY <1>1, <2>1
<1>3. ASSUME NEW d \in ReadDpcs, ReadRetrieve(d) PROVE reads'[r] = reads[r]
  <2>1. CASE read_queue2 = <<>>
    BY <1>3, <2>1 DEF ReadRetrieve
  <2>2. CASE read_queue2 # <<>>
    <3>1. reads[Head(read_queue2)].status = "queued"
      <4>1. 1 \in 1..Len(read_queue2) /\ Head(read_queue2) = read_queue2[1]
        BY <1>1, <2>2
      <4> QED
        BY <4>1 DEF PlacesInv, QueuedOnce
    <3>2. PICK status : reads' = [reads EXCEPT ![Head(read_queue2)].status = status]
      BY <1>3, <2>2 DEF ReadRetrieve
    <3>3. r # Head(read_queue2)
      BY <3>1 DEF Answered
    <3> QED
      BY <3>2, <3>3
  <2> QED
    BY <2>1, <2>2
<1>4. ASSUME NEW d \in ReadDpcs, StreamRead(d) \/ FrameReadTake(d) \/ FrameReadEnd(d)
      PROVE  reads'[r] = reads[r]
  <2>1. dpc[d].pc = "read"
    BY <1>4 DEF StreamRead, FrameReadTake, FrameReadEnd
  <2>2. \/ reads' = reads
        \/ \E status, length : CompleteRead(d, status, length)
    BY <1>4, Zenon DEF StreamRead, FrameReadTake, FrameReadEnd
  <2> QED
    BY <2>1, <2>2, CompletesHeld
<1>5. CASE PurgeCancel
  <2>1. reads'[r] = Cancelled(reads[r])
    BY <1>5 DEF PurgeCancel
  <2> QED
    BY <2>1 DEF Cancelled, Answered
<1>6. ASSUME NEW d \in ReadDpcs, ReadStart(d) \/ ReadCheck(d) PROVE reads'[r] = reads[r]
  BY <1>6 DEF ReadStart, ReadCheck
<1>7. CASE PurgeDrain \/ PurgeReset \/ PurgeQueued \/ PurgeStream \/ PurgePending
  BY <1>7 DEF PurgeDrain, PurgeReset, PurgeQueued, PurgeStream, PurgePending, PurgeUnchanged
<1>8. CASE WireByte \/ Adapter \/ RegisterCompletion \/ RxPacket \/ RxStep
  BY <1>8 DEF WireByte, Adapter, ExecuteFrameCount, ExecuteFrameSize, ExecuteReceiverReset,
              RegisterCompletion, CompleteFrameCount, CompleteFrameSize, CompleteWithError,
              SendRead, SendSizeRead, SendCountRead,
              RxPacket, RxStep, RxUsageQueued, RxUsageStream, RxUsagePending, RxTrim, RxAdd,
              RxUnchanged, readVars
<1>9. CASE Timer \/ IframeWorker
  BY <1>9 DEF Timer, IframeWorker, IframeStart, IframeLoop, IframeEnd, readVars
<1>10. CASE UNCHANGED vars
  BY <1>10 DEF vars, readVars
<1> QED
  BY <1>2, <1>3, <1>4, <1>5, <1>6, <1>7, <1>8, <1>9, <1>10 DEF Next, SynccomProcessRead, PurgeStep

\* Between the purge, which cancels what waits on the queue, and the executions
\* of SynccomProcessRead, each with a read of its own, none is completed twice.
THEOREM ReadsAreAnsweredOnce == Spec => AnsweredOnce
<1>1. ASSUME TypeInv, PlacesInv, [Next]_vars
      PROVE  [\A r \in DOMAIN reads : Answered(r) => reads'[r] = reads[r]]_vars
  BY <1>1, AnsweredStays
<1> QED
  BY <1>1, PlacesInvariant, PTL DEF Spec, AnsweredOnce

\* One element or none, by a condition.
LEMMA AtMostOne ==
    ASSUME NEW S, NEW here \in BOOLEAN, here <=> S # {}, \A x, y \in S : x = y
    PROVE  Cardinality(S) = (IF here THEN 1 ELSE 0)
<1>1. CASE S = {}
  BY <1>1, FS_EmptySet
<1>2. CASE S # {}
  <2>1. PICK x \in S : TRUE
    BY <1>2
  <2>2. S = {x}
    BY <2>1
  <2>3. Cardinality({x}) = 1
    BY FS_Singleton
  <2> QED
    BY <1>2, <2>2, <2>3
<1> QED
  BY <1>1, <1>2

\* Every read request is in exactly one place, however many runs of
\* SynccomProcessRead overlap and whatever PURGE_RX cancels: waiting in
\* read_queue2, held by one of them, or completed.
THEOREM RequestsStayHeldOnce == Spec => []RequestsHeldOnce
<1>1. ASSUME TypeInv, PlacesInv, NEW r \in DOMAIN reads
      PROVE  /\ Cardinality({i \in DOMAIN read_queue2 : read_queue2[i] = r})
                   = (IF reads[r].status = "queued" THEN 1 ELSE 0)
             /\ Cardinality(Holders(r)) = (IF reads[r].status = "held" THEN 1 ELSE 0)
  <2>1. DOMAIN reads = 1..Len(reads) /\ DOMAIN read_queue2 = 1..Len(read_queue2)
    <3>1. reads \in Seq(ReadStates) /\ read_queue2 \in Seq(1..Len(reads))
      BY <1>1 DEF TypeInv, ReadTypes
    <3> HIDE DEF ReadStates
    <3> QED
      BY <3>1
  <2> DEFINE places == {i \in DOMAIN read_queue2 : read_queue2[i] = r}
  <2>2. (reads[r].status = "queued") <=> places # {}
    BY <1>1, <2>1 DEF PlacesInv, QueuedOnce
  <2>3. \A i, j \in places : i = j
    BY <1>1, <2>1 DEF PlacesInv, QueuedOnce
  <2>4. (reads[r].status = "held") <=> Holders(r) # {}
    BY <1>1, <2>1 DEF PlacesInv, HeldOnce, Holders
  <2>5. \A d, e \in Holders(r) : d = e
    BY <1>1 DEF PlacesInv, HeldOnce, Holders
  <2> HIDE DEF places
  <2>6. Cardinality(places) = (IF reads[r].status = "queued" THEN 1 ELSE 0)
    BY <2>2, <2>3, AtMostOne
  <2>7. Cardinality(Holders(r)) = (IF reads[r].status = "held" THEN 1 ELSE 0)
    BY <2>4, <2>5, AtMostOne
  <2> QED
    BY <2>6, <2>7 DEF places
<1>2. TypeInv /\ PlacesInv => RequestsHeldOnce
  BY <1>1 DEF RequestsHeldOnce
<1> QED
  BY <1>2, PlacesInvariant, PTL

\* When PURGE_RX returns, every read that was waiting when it cancelled them
\* and the one being served have been answered.
THEOREM PurgeAnswers == Spec => PurgeAnswersReads
<1>1. ASSUME TypeInv, PlacesInv, [Next]_vars
      PROVE  purge = "drain" /\ purge' = "idle" => \A r \in DOMAIN reads : Answered(r)
  <2> SUFFICES ASSUME purge = "drain", purge' = "idle", NEW r \in DOMAIN reads
               PROVE  Answered(r)
    OBVIOUS
  <2>1. CASE PurgeDrain
    <3>1. reads[r].status # "held"
      BY <2>1 DEF PurgeDrain, NoneHeld
    <3>2. reads[r].status # "queued"
      <4>1. reads \in Seq(ReadStates)
        BY <1>1 DEF TypeInv, ReadTypes
      <4>2. r \in 1..Len(reads)
        <5> HIDE DEF ReadStates
        <5> QED
          BY <4>1
      <4> QED
        BY <1>1, <4>2 DEF PlacesInv, DrainingEmpty
    <3> QED
      BY <3>1, <3>2 DEF Answered
  <2>2. CASE PurgeReset \/ PurgeQueued \/ PurgeStream \/ PurgePending \/ PurgeCancel
    BY <2>2 DEF PurgeReset, PurgeQueued, PurgeStream, PurgePending, PurgeCancel
  <2>3. CASE WireByte \/ Adapter \/ RegisterCompletion \/ RxPacket \/ RxStep
    BY <2>3 DEF WireByte, Adapter, ExecuteFrameCount, ExecuteFrameSize, ExecuteReceiverReset,
                RegisterCompletion, CompleteFrameCount, CompleteFrameSize, CompleteWithError,
                SendRead, SendSizeRead, SendCountRead,
                RxPacket, RxStep, RxUsageQueued, RxUsageStream, RxUsagePending, RxTrim, RxAdd,
                RxUnchanged
  <2>4. CASE Timer \/ IframeWorker
    BY <2>4 DEF Timer, IframeWorker, IframeStart, IframeLoop, IframeEnd
  <2>5. CASE \/ SyncComEvtIoRead
             \/ \E d \in ReadDpcs : ReadStart(d) \/ SynccomProcessRead(d)
    BY <2>5 DEF SyncComEvtIoRead, ReadStart, SynccomProcessRead, ReadCheck, ReadRetrieve,
                StreamRead, FrameReadTake, FrameReadEnd, ReadUnchanged
  <2>6. CASE UNCHANGED vars
    BY <2>6 DEF vars
  <2> QED
    BY <1>1, <2>1, <2>2, <2>3, <2>4, <2>5, <2>6 DEF Next, PurgeStep
<1>2. TypeInv /\ PlacesInv /\ [Next]_vars
        => [purge = "drain" /\ purge' = "idle" => \A r \in DOMAIN reads : Answered(r)]_vars
  BY <1>1
<1> QED
  BY <1>2, PlacesInvariant, PTL DEF Spec, PurgeAnswersReads

----------------------------------------------------------------------------
(* A port that is streaming has no frames: the adapter makes no sizes, so no *)
(* count is ever above zero and no size is asked for.                        *)

FramesIdle ==
    streaming =>
        /\ sizeFifo = <<>> /\ to_send = NothingToSend
        /\ \A i \in 1..Len(pipe) : pipe[i].op # "BC_FIFO_L"
        /\ \A i \in 1..Len(responses) : responses[i].op = "FIFO_FC" /\ responses[i].value = 0
        /\ pending_iframes = EmptyList /\ queued_iframes = EmptyList

LEMMA IdleInit == ASSUME Init PROVE FramesIdle
BY DEF Init, FramesIdle

\* A port is opened in one mode and keeps it.
LEMMA StreamingStays == ASSUME [Next]_vars PROVE streaming' = streaming
BY DEF Next, vars, adapterVars, WireByte, Adapter, ExecuteFrameCount, ExecuteFrameSize,
       ExecuteReceiverReset, RegisterCompletion, CompleteFrameCount, CompleteFrameSize,
       CompleteWithError, SendRead, SendSizeRead, SendCountRead,
       RxPacket, RxStep, RxUsageQueued, RxUsageStream, RxUsagePending, RxTrim,
       RxAdd, RxUnchanged, Timer, IframeWorker, IframeStart, IframeLoop, IframeEnd,
       SyncComEvtIoRead, ReadStart, SynccomProcessRead, ReadCheck, ReadRetrieve, StreamRead,
       FrameReadTake, FrameReadEnd, ReadUnchanged, PurgeReset, PurgeStep, PurgeQueued,
       PurgeStream, PurgePending, PurgeCancel, PurgeDrain, PurgeUnchanged

LEMMA IdleStep ==
    ASSUME RxAssumption, TypeInv, FramesIdle, [Next]_vars
    PROVE  FramesIdle'
<1>1. streaming' = streaming
  BY StreamingStays
<1> SUFFICES ASSUME streaming
             PROVE  /\ sizeFifo' = <<>> /\ to_send' = NothingToSend
                    /\ \A i \in 1..Len(pipe') : pipe'[i].op # "BC_FIFO_L"
                    /\ \A i \in 1..Len(responses') :
                          responses'[i].op = "FIFO_FC" /\ responses'[i].value = 0
                    /\ pending_iframes' = EmptyList /\ queued_iframes' = EmptyList
  BY <1>1 DEF FramesIdle
<1>2. /\ sizeFifo = <<>> /\ pending_iframes = EmptyList /\ queued_iframes = EmptyList
      /\ to_send = NothingToSend
      /\ pipe \in Seq(Commands) /\ \A i \in 1..Len(pipe) : pipe[i].op # "BC_FIFO_L"
      /\ responses \in Seq(Completions)
      /\ \A i \in 1..Len(responses) : responses[i].op = "FIFO_FC" /\ responses[i].value = 0
  BY DEF FramesIdle, TypeInv, CommandTypes
<1> DEFINE Pipe(q) == \A i \in 1..Len(q) : q[i].op # "BC_FIFO_L"
           ZeroCounts(q) == \A i \in 1..Len(q) : q[i].op = "FIFO_FC" /\ q[i].value = 0
           Lists0 == UNCHANGED <<pending_iframes, queued_iframes>>
<1>3. /\ pipe # <<>> => Pipe(Tail(pipe)) /\ Head(pipe).op # "BC_FIFO_L"
      /\ responses # <<>> =>
            ZeroCounts(Tail(responses)) /\ Head(responses).op = "FIFO_FC" /\ Head(responses).value = 0
  BY <1>2
<1>4. \A c \in Commands : c.op # "BC_FIFO_L" => Pipe(Append(pipe, c))
  BY <1>2
<1>5. ASSUME NEW op \in {"FIFO_FC", "RRES"}, Send(op) PROVE Pipe(pipe')
  <2> DEFINE c == [op |-> op, nth |-> tally.issued]
  <2>1. c \in Commands /\ c.op # "BC_FIFO_L" /\ pipe' = Append(pipe, c)
    BY <1>5, CountsFacts DEF Send, TypeInv, CommandTypes, Commands
  <2> QED
    BY <1>4, <2>1
<1>6. CASE WireByte
  BY <1>2, <1>6 DEF WireByte, bufferVars
<1>7. CASE ExecuteFrameCount
  <2> DEFINE r == [op |-> Head(pipe).op, value |-> Len(sizeFifo), nth |-> Head(pipe).nth]
  <2>1. Head(pipe).op = "FIFO_FC" /\ Len(sizeFifo) = 0 /\ responses' = Append(responses, r)
    BY <1>2, <1>7 DEF ExecuteFrameCount, Executing, Respond
  <2>2. r.op = "FIFO_FC" /\ r.value = 0
    BY <2>1
  <2> HIDE DEF r
  <2>3. ZeroCounts(responses')
    BY <1>2, <2>1, <2>2
  <2> QED
    BY <1>2, <1>3, <1>7, <2>3 DEF ExecuteFrameCount, Executing, adapterVars, bufferVars
<1>8. CASE ExecuteFrameSize
  BY <1>3, <1>8 DEF ExecuteFrameSize, Executing
<1>9. CASE ExecuteReceiverReset
  BY <1>2, <1>3, <1>9 DEF ExecuteReceiverReset, Executing, bufferVars
<1>10. CASE CompleteFrameCount
  <2>1. Fresh(Head(responses).value) = 0 /\ ZeroCounts(responses')
    BY <1>3, <1>10 DEF CompleteFrameCount, Completing, Fresh
  <2>2. to_send' = NothingToSend
    BY <1>2, <1>10, <2>1 DEF CompleteFrameCount, NothingToSend
  <2> QED
    BY <1>2, <1>10, <2>1, <2>2 DEF CompleteFrameCount, adapterVars, bufferVars
<1>11. CASE CompleteFrameSize
  BY <1>3, <1>11 DEF CompleteFrameSize, Completing
<1>12. CASE CompleteWithError
  BY <1>2, <1>3, <1>12 DEF CompleteWithError, adapterVars, bufferVars
<1>23. CASE SendRead
  BY <1>2, <1>23 DEF SendRead, SendSizeRead, SendCountRead, NothingToSend
<1>13. CASE RxPacket
  BY <1>2, <1>5, <1>13 DEF RxPacket, bufferVars
<1>14. CASE PurgeReset
  BY <1>2, <1>5, <1>14 DEF PurgeReset, PurgeUnchanged, adapterVars, bufferVars
<1>15. CASE IframeLoop
  BY <1>2, <1>15 DEF IframeLoop, IframeReady, IsEmptyList, EmptyList
<1>16. ASSUME UNCHANGED <<adapterVars, pipe, responses, to_send>>,
              pending_iframes' \in {pending_iframes, EmptyList},
              queued_iframes' \in {queued_iframes, EmptyList}
       PROVE  Pipe(pipe') /\ ZeroCounts(responses') /\ sizeFifo' = <<>>
              /\ to_send' = NothingToSend
              /\ pending_iframes' = EmptyList /\ queued_iframes' = EmptyList
  BY <1>2, <1>16 DEF adapterVars
<1>17. CASE RxTrim
  BY <1>16, <1>17 DEF RxTrim, RxUnchanged, registerVars
<1>18. CASE \/ RxUsageQueued \/ RxUsageStream \/ RxUsagePending \/ RxAdd
            \/ Timer \/ IframeStart \/ IframeEnd
  BY <1>16, <1>18 DEF RxUsageQueued, RxUsageStream, RxUsagePending, RxAdd, RxUnchanged,
                      Timer, IframeStart, IframeEnd, registerVars, bufferVars
<1>19. ASSUME NEW d \in ReadDpcs, FrameReadTake(d) PROVE FALSE
  BY <1>19 DEF FrameReadTake
<1>20. CASE \/ SyncComEvtIoRead
            \/ \E d \in ReadDpcs : ReadStart(d) \/ ReadCheck(d) \/ ReadRetrieve(d)
                                   \/ StreamRead(d) \/ FrameReadEnd(d)
  BY <1>16, <1>20 DEF SyncComEvtIoRead, ReadStart, ReadCheck, ReadRetrieve, StreamRead,
                      FrameReadEnd, ReadUnchanged, registerVars
<1>21. CASE PurgeQueued \/ PurgeStream \/ PurgePending \/ PurgeCancel \/ PurgeDrain
  BY <1>16, <1>21 DEF PurgeQueued, PurgeStream, PurgePending, PurgeCancel, PurgeDrain,
                      PurgeUnchanged, bufferVars
<1>22. CASE UNCHANGED vars
  BY <1>16, <1>22 DEF vars, registerVars, bufferVars
<1> QED
  BY <1>6, <1>7, <1>8, <1>9, <1>10, <1>11, <1>12, <1>13, <1>14, <1>15, <1>17, <1>18, <1>19, <1>20,
     <1>21, <1>22, <1>23
  DEF Next, Adapter, RegisterCompletion, RxStep, IframeWorker, SynccomProcessRead, PurgeStep

----------------------------------------------------------------------------
(* What one iteration of iframe_worker does to the bytes. *)

\* The first frame takes n bytes of the stream.
Taking(n) ==
    /\ n \in Nat /\ n <= Len(istream.data)
    /\ istream'.data = SubSeq(istream.data, n + 1, Len(istream.data))

Filled(n) == Head(pending_iframes.frames).data \o SubSeq(istream.data, 1, n)

\* It is complete, and its data goes to queued_iframes.
Finishing(n) ==
    /\ pending_iframes'.frames = Tail(pending_iframes.frames)
    /\ \E m \in Nat : \E done \in Frames(Bytes) :
          /\ m <= Len(Filled(n)) /\ done.data = SubSeq(Filled(n), 1, m)
          /\ queued_iframes' = AddFrame(queued_iframes, done)
          /\ pending_iframes'.estimated_memory_usage + (Len(Filled(n)) - m)
               = pending_iframes.estimated_memory_usage

\* It is not, and stays the first.
Filling(n) ==
    /\ UNCHANGED queued_iframes
    /\ pending_iframes'.estimated_memory_usage = pending_iframes.estimated_memory_usage
    /\ \E frame \in Frames(Bytes) :
          /\ pending_iframes'.frames = [pending_iframes.frames EXCEPT ![1] = frame]
          /\ frame.data = Filled(n) /\ ~Complete(frame)
          /\ frame.frame_size = Head(pending_iframes.frames).frame_size
          /\ frame.lost_bytes = Head(pending_iframes.frames).lost_bytes

\* A frame without a size is removed.
Skipping ==
    /\ UNCHANGED <<istream, queued_iframes>>
    /\ pending_iframes' = RemoveFrame(pending_iframes)

LEMMA LoopFacts ==
    ASSUME BufferTypes, IframeLoop
    PROVE  /\ pending_iframes.frames # <<>>
           /\ pending_iframes.frames \in Seq(Frames(Bytes))
           /\ Skipping \/ \E n : Taking(n) /\ (Finishing(n) \/ Filling(n))
<1> DEFINE first == PeekFront(pending_iframes)
           fresh == [NewFrame EXCEPT !.frame_size = first.frame_size]
           filled == CopyTo(first, istream)
           rest == CopyFrom(fresh, filled)
           done == CopyTo(fresh, filled)
           n == AmountToMove(first, istream)
           m == AmountToMove(fresh, filled)
<1>1. /\ istream \in Frames(Bytes) /\ pending_iframes \in Lists(Bytes)
      /\ queued_iframes \in Lists(Bytes)
  BY DEF BufferTypes
<1>2. /\ first \in Frames(Bytes) /\ 1 \in DOMAIN pending_iframes.frames
      /\ pending_iframes.frames # <<>> /\ first = Head(pending_iframes.frames)
      /\ pending_iframes.frames \in Seq(Frames(Bytes))
      /\ pending_iframes.estimated_memory_usage \in Int
  BY <1>1, ListTypes DEF IframeLoop, IframeReady, IsEmptyList, PeekFront
<1>3. /\ fresh \in Frames(Bytes) /\ fresh.data = <<>>
  BY <1>2, NewFrameTypes DEF Frames
<1>4. ASSUME NEW d \in Frames(Bytes), NEW s \in Frames(Bytes)
      PROVE  LET a == AmountToMove(d, s)
             IN  /\ a \in 0..DataLength(s) /\ CopyTo(d, s) \in Frames(Bytes)
                 /\ CopyTo(d, s).data = d.data \o SubSeq(s.data, 1, a)
                 /\ CopyTo(d, s).frame_size = d.frame_size
                 /\ CopyTo(d, s).lost_bytes = d.lost_bytes
                 /\ CopyFrom(d, s) \in Frames(Bytes)
                 /\ CopyFrom(d, s).data = SubSeq(s.data, a + 1, DataLength(s))
  <2>1. /\ AmountToMove(d, s) \in 0..DataLength(s) /\ CopyTo(d, s) \in Frames(Bytes)
        /\ CopyFrom(d, s) \in Frames(Bytes)
    BY CopyFacts
  <2>2. CopyTo(d, s).data = d.data \o SubSeq(s.data, 1, AmountToMove(d, s))
    <3>1. PICK moved \in Seq(Bytes) : moved = Removed(s, AmountToMove(d, s))
      BY <2>1, RemovedFacts, SMTT(30) DEF DataLength, Frames
    <3>2. AddData(d, moved).data = d.data \o moved
      BY AddDataFacts
    <3>3. moved = SubSeq(s.data, 1, AmountToMove(d, s))
      <4>1. s.data \in Seq(Bytes) /\ DataLength(s) \in Nat
        BY DEF DataLength, Frames
      <4>2. Least(AmountToMove(d, s), DataLength(s)) = AmountToMove(d, s)
        BY <2>1, <4>1 DEF Least
      <4> QED
        BY <3>1, <4>2 DEF Removed
    <3> QED
      BY <3>1, <3>2, <3>3 DEF CopyTo
  <2>3. CopyTo(d, s).frame_size = d.frame_size /\ CopyTo(d, s).lost_bytes = d.lost_bytes
    BY CopyFacts
  <2>4. CopyFrom(d, s).data = SubSeq(s.data, AmountToMove(d, s) + 1, DataLength(s))
    BY CopyFacts
  <2> QED
    BY <2>1, <2>2, <2>3, <2>4
<1> HIDE DEF first, fresh
<1>15. /\ n \in 0..DataLength(istream) /\ filled \in Frames(Bytes)
       /\ filled.data = first.data \o SubSeq(istream.data, 1, n)
       /\ filled.frame_size = first.frame_size /\ filled.lost_bytes = first.lost_bytes
       /\ CopyFrom(first, istream).data = SubSeq(istream.data, n + 1, DataLength(istream))
  BY <1>1, <1>2, <1>4
<1> HIDE DEF filled
<1>5. /\ m \in 0..DataLength(filled) /\ done \in Frames(Bytes) /\ rest \in Frames(Bytes)
      /\ done.data = fresh.data \o SubSeq(filled.data, 1, m)
      /\ rest.data = SubSeq(filled.data, m + 1, DataLength(filled))
  BY <1>3, <1>4, <1>15
<1>6. /\ filled.data \in Seq(Bytes) /\ istream.data \in Seq(Bytes)
  BY <1>1, <1>15 DEF Frames
<1>7. done.data = SubSeq(filled.data, 1, m)
  <2>0. m \in 0..Len(filled.data)
    BY <1>5 DEF DataLength
  <2> HIDE DEF m
  <2>1. SubSeq(filled.data, 1, m) \in Seq(Bytes)
    BY <1>6, <2>0
  <2> HIDE DEF fresh, filled, done, m
  <2> QED
    BY <1>3, <1>5, <2>1
<1>8. DataLength(rest) = Len(filled.data) - m /\ DataLength(rest) \in Nat
  <2>1. m \in 0..Len(filled.data)
    BY <1>5 DEF DataLength
  <2>2. rest.data = SubSeq(filled.data, m + 1, Len(filled.data))
    BY <1>5 DEF DataLength
  <2> HIDE DEF fresh, filled, done, m, rest
  <2>3. Len(SubSeq(filled.data, m + 1, Len(filled.data))) = Len(filled.data) - m
    BY <1>6, <2>1
  <2> QED
    BY <1>6, <2>1, <2>2, <2>3 DEF DataLength
<1>9. \A frame \in Frames(Bytes) :
         LET list == [pending_iframes EXCEPT !.frames[1] = frame]
         IN  /\ list.frames = [pending_iframes.frames EXCEPT ![1] = frame]
             /\ list.estimated_memory_usage = pending_iframes.estimated_memory_usage
             /\ Tail(list.frames) = Tail(pending_iframes.frames)
             /\ PeekFront(list) = frame
  <2> DEFINE T == Frames(Bytes)
             frames == pending_iframes.frames
  <2> TAKE frame \in T
  <2> DEFINE list == [pending_iframes EXCEPT !.frames[1] = frame]
             next == [frames EXCEPT ![1] = frame]
  <2>1. list.frames = next /\ list.estimated_memory_usage = pending_iframes.estimated_memory_usage
    BY <1>1 DEF Lists
  <2>2. frames \in Seq(T) /\ frame \in T /\ frames # <<>>
    BY <1>2
  <2> HIDE DEF T, frames
  <2>3. /\ next \in Seq(T) /\ Len(next) = Len(frames) /\ next[1] = frame
        /\ \A i \in 1..Len(frames) : i # 1 => next[i] = frames[i]
        /\ Len(frames) \in Nat /\ Len(frames) >= 1
    BY <2>2
  <2> HIDE DEF next
  <2>4. /\ Tail(next) \in Seq(T) /\ Len(Tail(next)) = Len(frames) - 1
        /\ Tail(frames) \in Seq(T) /\ Len(Tail(frames)) = Len(frames) - 1
        /\ \A i \in 1..Len(frames) - 1 : Tail(next)[i] = next[i + 1] /\ Tail(frames)[i] = frames[i + 1]
        /\ Head(next) = next[1]
    BY <2>2, <2>3
  <2>5. \A i \in 1..Len(frames) - 1 : Tail(next)[i] = Tail(frames)[i]
    BY <2>3, <2>4
  <2> DEFINE a == Tail(next)
             b == Tail(frames)
  <2>6. a = b
    <3>1. /\ a \in Seq(T) /\ b \in Seq(T) /\ Len(a) = Len(b)
          /\ \A i \in 1..Len(a) : a[i] = b[i]
      BY <2>4, <2>5
    <3> HIDE DEF a, b
    <3> QED
      BY <3>1
  <2> QED
    BY <2>1, <2>3, <2>4, <2>6 DEF PeekFront, frames
<1>10. CASE first.frame_size = 0
  BY <1>2, <1>10 DEF IframeLoop, Skipping, first
<1>11. first.frame_size # 0 => Taking(n)
  <2>1. first.frame_size # 0 => istream' = CopyFrom(first, istream)
    BY DEF IframeLoop, first
  <2> QED
    BY <1>15, <2>1 DEF Taking, DataLength
<1>12. Filled(n) = filled.data
  BY <1>2, <1>15 DEF Filled
<1>13. CASE first.frame_size # 0 /\ Complete(filled)
  <2>1. /\ queued_iframes' = AddFrame(queued_iframes, done)
        /\ pending_iframes' = RemoveFrame([pending_iframes EXCEPT !.frames[1] = rest])
    BY <1>13 DEF IframeLoop, first, fresh, filled
  <2> HIDE DEF fresh, filled, rest, done, m, n
  <2>2. /\ pending_iframes'.frames = Tail(pending_iframes.frames)
        /\ pending_iframes'.estimated_memory_usage
             = pending_iframes.estimated_memory_usage - DataLength(rest)
    BY <1>5, <1>9, <2>1 DEF RemoveFrame
  <2>3. pending_iframes'.estimated_memory_usage + (Len(filled.data) - m)
          = pending_iframes.estimated_memory_usage
    BY <1>2, <1>8, <2>2
  <2>4. m \in Nat /\ m <= Len(filled.data)
    BY <1>5 DEF DataLength
  <2>5. Finishing(n)
    BY <1>5, <1>7, <1>12, <2>1, <2>2, <2>3, <2>4 DEF Finishing
  <2> QED
    BY <1>2, <1>11, <1>13, <2>5
<1>14. CASE first.frame_size # 0 /\ ~Complete(filled)
  <2>1. /\ queued_iframes' = queued_iframes
        /\ pending_iframes' = [pending_iframes EXCEPT !.frames[1] = filled]
    BY <1>14 DEF IframeLoop, first, fresh, filled
  <2> HIDE DEF fresh, filled, rest, done, m, n
  <2>2. /\ pending_iframes'.frames = [pending_iframes.frames EXCEPT ![1] = filled]
        /\ pending_iframes'.estimated_memory_usage = pending_iframes.estimated_memory_usage
    BY <1>9, <1>15, <2>1
  <2>3. Filling(n)
    BY <1>2, <1>12, <1>14, <1>15, <2>1, <2>2 DEF Filling
  <2> QED
    BY <1>2, <1>11, <1>14, <2>3
<1> QED
  BY <1>2, <1>10, <1>13, <1>14

----------------------------------------------------------------------------
(* The order of the bytes.  On their way to the reads they pass six stages;  *)
(* the bytes of a stage come before those of the next, and none are ahead of *)
(* the wire.                                                                 *)

Front == IF IsEmptyList(pending_iframes) THEN <<>> ELSE PeekFront(pending_iframes).data

Stages ==
    <<AllItems(DataOf(taken)), AllItems(DataOf(queued_iframes.frames)), Items(Front),
      Items(istream.data), Items(rx.packet), Items(dataFifo)>>

\* The bytes that have arrived.
Seen == {b \in Bytes : b[1] < wire.frame \/ (b[1] = wire.frame /\ b[2] <= wire.bytes)}

StagesInv == Staged(Stages, {}) /\ \A k \in 1..6 : Stages[k] \subseteq Seen

PiecesInv ==
    /\ InOrder(DataOf(taken), {}) /\ InOrder(DataOf(queued_iframes.frames), {})
    /\ Rising(Front, {}) /\ Rising(istream.data, {})
    /\ Rising(rx.packet, {}) /\ Rising(dataFifo, {})

\* Only the first pending frame has data.
OthersEmpty ==
    \A i \in 2..Len(pending_iframes.frames) : pending_iframes.frames[i].data = <<>>

FlowInv == StagesInv /\ PiecesInv /\ OthersEmpty

LEMMA StageFacts ==
    /\ Len(Stages) = 6 /\ Len(Stages') = 6
    /\ Stages[1] = AllItems(DataOf(taken)) /\ Stages'[1] = AllItems(DataOf(taken))'
    /\ Stages[2] = AllItems(DataOf(queued_iframes.frames))
    /\ Stages'[2] = AllItems(DataOf(queued_iframes.frames))'
    /\ Stages[3] = Items(Front) /\ Stages'[3] = Items(Front)'
    /\ Stages[4] = Items(istream.data) /\ Stages'[4] = Items(istream.data)'
    /\ Stages[5] = Items(rx.packet) /\ Stages'[5] = Items(rx.packet)'
    /\ Stages[6] = Items(dataFifo) /\ Stages'[6] = Items(dataFifo)'
BY DEF Stages

LEMMA DropFacts ==
    ASSUME StagesInv, \A k \in 1..6 : Stages'[k] \subseteq Stages[k], Seen \subseteq Seen'
    PROVE  StagesInv'
<1>1. Len(Stages) = 6 /\ Len(Stages') = 6
  BY StageFacts
<1>2. Staged(Stages', {})
  BY <1>1 DEF StagesInv, Staged, Ahead
<1>3. \A k \in 1..6 : Stages'[k] \subseteq Seen'
  BY DEF StagesInv
<1> QED
  BY <1>2, <1>3 DEF StagesInv

LEMMA PassFacts ==
    ASSUME StagesInv, NEW lo \in 1..6, NEW hi \in 1..6, lo < hi, Seen \subseteq Seen',
           NEW moved, moved \subseteq Stages[hi], Stages'[lo] \subseteq Stages[lo] \cup moved,
           \A k \in 1..6 : k # lo => Stages'[k] \subseteq Stages[k],
           \A k \in 1..6 : lo < k /\ k < hi => Stages'[k] = {},
           Ahead(moved, Stages'[hi], {})
    PROVE  StagesInv'
<1>1. Len(Stages) = 6 /\ Len(Stages') = 6
  BY StageFacts
<1>2. Staged(Stages', {})
  <2>1. /\ Staged(Stages, {}) /\ Len(Stages) \in Nat /\ Len(Stages') = Len(Stages)
        /\ lo \in 1..Len(Stages) /\ hi \in 1..Len(Stages)
        /\ \A k \in 1..Len(Stages) : k # lo => Stages'[k] \subseteq Stages[k]
        /\ \A k \in 1..Len(Stages) : lo < k /\ k < hi => Stages'[k] = {}
    BY <1>1 DEF StagesInv
  <2> QED
    BY <2>1, StagedPass
<1>3. \A k \in 1..6 : Stages'[k] \subseteq Seen'
  BY DEF StagesInv
<1> QED
  BY <1>2, <1>3 DEF StagesInv

LEMMA FlowInit == ASSUME Init PROVE FlowInv
<1>1. /\ taken = <<>> /\ queued_iframes.frames = <<>> /\ Front = <<>> /\ istream.data = <<>>
      /\ rx.packet = <<>> /\ dataFifo = <<>> /\ Len(pending_iframes.frames) = 0
  BY DEF Init, EmptyList, NewFrame, IdleRx, Front, IsEmptyList
<1>2. DataOf(<<>>) = <<>>
  BY DEF DataOf
<1>3. PiecesInv
  BY <1>1, <1>2, NoPieces DEF PiecesInv
<1>4. \A k \in 1..6 : Stages[k] = {}
  BY <1>1, <1>2, NoPieces, StageFacts
<1>5. StagesInv
  BY <1>4, StageFacts DEF StagesInv, Staged, Ahead
<1> QED
  BY <1>1, <1>3, <1>5 DEF FlowInv, OthersEmpty

\* Types of the stages.
LEMMA FlowTypes ==
    ASSUME TypeInv
    PROVE  /\ taken \in Seq([req : Nat, data : Seq(Bytes)])
           /\ DataOf(taken) \in Seq(Seq(Bytes))
           /\ queued_iframes.frames \in Seq(Frames(Bytes))
           /\ DataOf(queued_iframes.frames) \in Seq(Seq(Bytes))
           /\ pending_iframes.frames \in Seq(Frames(Bytes))
           /\ Front \in Seq(Bytes) /\ istream.data \in Seq(Bytes) /\ istream \in Frames(Bytes)
           /\ rx.packet \in Seq(Bytes) /\ dataFifo \in Seq(Bytes)
<1> DEFINE T == [req : Nat, data : Seq(Bytes)]
<1>1. taken \in Seq(T)
  <2>1. taken \in Seq([req : 1..Len(reads), data : Seq(Bytes)]) /\ reads \in Seq(ReadStates)
    BY DEF TypeInv, ReadTypes
  <2>2. [req : 1..Len(reads), data : Seq(Bytes)] \subseteq T
    OBVIOUS
  <2> HIDE DEF T
  <2> QED
    BY <2>1, <2>2, SeqWidens
<1>2. queued_iframes.frames \in Seq(Frames(Bytes)) /\ pending_iframes.frames \in Seq(Frames(Bytes))
  BY ListTypes DEF TypeInv, BufferTypes
<1>3. (\A t \in T : t.data \in Seq(Bytes)) /\ \A frame \in Frames(Bytes) : frame.data \in Seq(Bytes)
  BY DEF Frames
<1>4. DataOf(taken) \in Seq(Seq(Bytes))
  <2> HIDE DEF T
  <2> QED
    BY <1>1, <1>3, DataFacts
<1>5. DataOf(queued_iframes.frames) \in Seq(Seq(Bytes))
  BY <1>2, <1>3, DataFacts
<1>6. Front \in Seq(Bytes)
  <2>1. CASE IsEmptyList(pending_iframes)
    BY <2>1 DEF Front
  <2>2. CASE ~IsEmptyList(pending_iframes)
    <3>1. PeekFront(pending_iframes) \in Frames(Bytes)
      BY <2>2, ListTypes DEF TypeInv, BufferTypes
    <3> QED
      BY <1>3, <2>2, <3>1 DEF Front
  <2> QED
    BY <2>1, <2>2
<1>7. /\ istream \in Frames(Bytes) /\ istream.data \in Seq(Bytes)
      /\ rx.packet \in Seq(Bytes) /\ dataFifo \in Seq(Bytes)
  BY <1>3 DEF TypeInv, BufferTypes, ControlTypes, RxStates, AdapterTypes
<1> QED
  BY <1>1, <1>2, <1>4, <1>5, <1>6, <1>7

\* A byte that arrives comes after all that have.
LEMMA WireFlow ==
    ASSUME RxAssumption, TypeInv, FlowInv, WireByte
    PROVE  FlowInv'
<1> DEFINE k == wire.frame
           b == <<k, wire.bytes + 1>>
<1>1. /\ k \in 1..NFrames /\ wire.bytes \in Nat /\ FrameLengths[k] \in Nat
      /\ wire.bytes + 1 \in 1..FrameLengths[k]
  <2>1. NFrames \in Nat /\ \A j \in 1..NFrames : FrameLengths[j] \in Nat /\ FrameLengths[j] >= 1
    BY BytesFacts
  <2>2. k \in 1..NFrames + 1 /\ wire.bytes \in Nat /\ (wire.bytes # 0 => wire.bytes < FrameLengths[k])
    BY DEF TypeInv, AdapterTypes, WireInside
  <2>3. k <= NFrames
    BY DEF WireByte
  <2> HIDE DEF k
  <2> QED
    BY <2>1, <2>2, <2>3
<1>2. b \in Bytes /\ b[1] = k /\ b[2] = wire.bytes + 1
  BY <1>1, BytesFacts
<1>3. /\ dataFifo' = Append(dataFifo, b)
      /\ UNCHANGED <<taken, queued_iframes, pending_iframes, istream, rx>>
  BY DEF WireByte, bufferVars, readVars
<1>4. \/ wire'.frame = k + 1 /\ wire'.bytes = 0
      \/ wire'.frame = k /\ wire'.bytes = wire.bytes + 1
  <2>1. wire \in [frame : 1..NFrames + 1, bytes : Nat]
    BY DEF TypeInv, AdapterTypes
  <2> QED
    BY <2>1 DEF WireByte
<1>5. \A c \in Bytes : c[1] \in Int /\ c[2] \in Int
  BY BytesFacts
<1>6. Ahead(Seen, {b}, {})
  BY <1>1, <1>2, <1>5 DEF Seen, Ahead, Ordered, Precedes
<1>7. Seen \subseteq Seen' /\ b \in Seen'
  BY <1>1, <1>2, <1>4, <1>5, SMTT(30) DEF Seen
<1>8. dataFifo \in Seq(Bytes)
  BY FlowTypes
<1> HIDE DEF b
<1>9. Items(dataFifo') = Items(dataFifo) \cup {b}
  <2>1. b \in Bytes
    BY <1>2
  <2>2. Items(Append(dataFifo, b)) = Items(dataFifo) \cup {b}
    BY <1>8, <2>1, LastItems
  <2> QED
    BY <1>3, <2>2
<1>10. \A m \in 1..6 : Stages[m] \subseteq Seen /\ Ahead(Stages[m], {b}, {})
  BY <1>6 DEF FlowInv, StagesInv, Ahead
<1>11. Rising(dataFifo', {})
  <2>1. b \in Bytes /\ Rising(dataFifo, {}) /\ Ahead(Items(dataFifo), {b}, {})
    BY <1>2, <1>10, StageFacts DEF FlowInv, PiecesInv
  <2>2. Rising(Append(dataFifo, b), {})
    BY <1>8, <2>1, LastFacts
  <2> QED
    BY <1>3, <2>2
<1>12. (\A m \in 1..6 : m # 6 => Stages'[m] = Stages[m]) /\ Stages'[6] = Stages[6] \cup {b}
  BY <1>3, <1>9, StageFacts DEF Front
<1>13. Staged(Stages', {})
  <2>1. /\ Staged(Stages, {}) /\ Len(Stages) \in Nat \ {0} /\ Len(Stages') = Len(Stages)
        /\ Stages'[Len(Stages)] \subseteq Stages[Len(Stages)] \cup {b}
        /\ \A m \in 1..Len(Stages) : m # Len(Stages) => Stages'[m] \subseteq Stages[m]
        /\ \A m \in 1..Len(Stages) : Ahead(Stages[m], {b}, {})
    BY <1>10, <1>12, StageFacts DEF FlowInv, StagesInv
  <2> QED
    BY <2>1, StagedEnter
<1>14. StagesInv'
  BY <1>7, <1>10, <1>12, <1>13 DEF StagesInv
<1>15. PiecesInv'
  BY <1>3, <1>11 DEF FlowInv, PiecesInv, Front
<1>16. OthersEmpty'
  BY <1>3 DEF FlowInv, OthersEmpty
<1> QED
  BY <1>14, <1>15, <1>16 DEF FlowInv

\* The next packet is the front of what the adapter holds.
LEMMA PacketFlow ==
    ASSUME RxAssumption, TypeInv, FlowInv, RxPacket
    PROVE  FlowInv'
<1>1. dataFifo \in Seq(Bytes) /\ Len(dataFifo) \in Nat
  BY FlowTypes
<1>2. PICK n \in 1..Least(MaxPacket, Len(dataFifo)) :
         /\ rx' = [IdleRx EXCEPT !.pc = "queued", !.packet = SubSeq(dataFifo, 1, n)]
         /\ dataFifo' = SubSeq(dataFifo, n + 1, Len(dataFifo))
  BY DEF RxPacket
<1>3. UNCHANGED <<wire, taken, queued_iframes, pending_iframes, istream>>
  BY DEF RxPacket, bufferVars, readVars
<1>4. n \in Nat /\ n <= Len(dataFifo)
  BY <1>1 DEF Least, RxAssumption
<1>5. rx'.packet = SubSeq(dataFifo, 1, n)
  BY <1>2 DEF IdleRx
<1> DEFINE moved == Items(rx'.packet)
<1>6. Rising(dataFifo, {})
  BY DEF FlowInv, PiecesInv
<1>7. /\ Items(dataFifo') \subseteq Items(dataFifo) /\ Rising(dataFifo', {})
  <2>1. Len(dataFifo) <= Len(dataFifo)
    BY <1>1
  <2>2. /\ Items(SubSeq(dataFifo, n + 1, Len(dataFifo))) \subseteq Items(dataFifo)
        /\ Rising(SubSeq(dataFifo, n + 1, Len(dataFifo)), {})
    BY <1>1, <1>4, <1>6, <2>1, RunFacts, Zenon
  <2> QED
    BY <1>2, <2>2
<1>8. moved \subseteq Items(dataFifo) /\ Rising(rx'.packet, {})
  BY <1>1, <1>4, <1>5, <1>6, PrefixFacts
<1>9. Ahead(moved, Items(dataFifo'), {})
  BY <1>1, <1>2, <1>4, <1>5, <1>6, SplitFacts, SMTT(30)
<1> HIDE DEF moved
<1>10. /\ \A m \in 1..4 : Stages'[m] = Stages[m]
       /\ Stages'[5] = moved /\ Stages'[6] = Items(dataFifo') /\ Stages[6] = Items(dataFifo)
  BY <1>3, StageFacts DEF Front, moved
<1>11. StagesInv'
  <2>1. Seen \subseteq Seen' /\ StagesInv
    BY <1>3 DEF Seen, FlowInv
  <2>2. \A m \in 1..6 : m # 5 => Stages'[m] \subseteq Stages[m]
    BY <1>7, <1>10
  <2>3. \A m \in 1..6 : ~(5 < m /\ m < 6)
    OBVIOUS
  <2>4. moved \subseteq Stages[6] /\ Ahead(moved, Stages'[6], {})
        /\ Stages'[5] \subseteq Stages[5] \cup moved
    BY <1>8, <1>9, <1>10
  <2> QED
    BY <2>1, <2>2, <2>3, <2>4, PassFacts, SMTT(30)
<1>12. PiecesInv'
  BY <1>3, <1>7, <1>8 DEF FlowInv, PiecesInv, Front
<1>13. OthersEmpty'
  BY <1>3 DEF FlowInv, OthersEmpty
<1> QED
  BY <1>11, <1>12, <1>13 DEF FlowInv

\* What is kept of the packet is appended to the stream.
LEMMA AddFlow ==
    ASSUME TypeInv, FlowInv, RxAdd
    PROVE  FlowInv'
<1>1. istream \in Frames(Bytes) /\ istream.data \in Seq(Bytes) /\ rx.packet \in Seq(Bytes)
  BY FlowTypes
<1>2. istream'.data = istream.data \o rx.packet
  BY <1>1, AddDataFacts DEF RxAdd
<1>3. /\ rx'.packet = <<>> /\ UNCHANGED <<wire, dataFifo, taken, queued_iframes, pending_iframes>>
  BY DEF RxAdd, RxUnchanged, adapterVars, readVars, IdleRx
<1>4. Items(istream'.data) = Items(istream.data) \cup Items(rx.packet)
  BY <1>1, <1>2, JoinFacts
<1>5. Ahead(Items(istream.data), Items(rx.packet), {})
  BY StageFacts DEF FlowInv, StagesInv, Staged
<1>6. Rising(istream'.data, {})
  BY <1>1, <1>2, <1>5, JoinFacts DEF FlowInv, PiecesInv
<1>7. Items(rx'.packet) = {} /\ Rising(rx'.packet, {})
  BY <1>3, NoPieces
<1>8. /\ \A m \in 1..3 : Stages'[m] = Stages[m]
      /\ Stages'[4] = Stages[4] \cup Stages[5] /\ Stages'[5] = {} /\ Stages'[6] = Stages[6]
  BY <1>3, <1>4, <1>7, StageFacts DEF Front
<1>9. StagesInv'
  <2>1. Seen \subseteq Seen' /\ StagesInv
    BY <1>3 DEF Seen, FlowInv
  <2>2. \A m \in 1..6 : m # 4 => Stages'[m] \subseteq Stages[m]
    BY <1>8
  <2>3. \A m \in 1..6 : ~(4 < m /\ m < 5)
    OBVIOUS
  <2>4. Ahead(Stages[5], Stages'[5], {})
    BY <1>8 DEF Ahead
  <2> QED
    BY <1>8, <2>1, <2>2, <2>3, <2>4, PassFacts
<1>10. PiecesInv'
  BY <1>3, <1>6, <1>7 DEF FlowInv, PiecesInv, Front
<1>11. OthersEmpty'
  BY <1>3 DEF FlowInv, OthersEmpty
<1> QED
  BY <1>9, <1>10, <1>11 DEF FlowInv

\* The first pending frame leaves, and only frames without data follow.
LEMMA TailFront ==
    ASSUME TypeInv, OthersEmpty, pending_iframes.frames # <<>>,
           pending_iframes'.frames = Tail(pending_iframes.frames)
    PROVE  Front' = <<>> /\ OthersEmpty'
<1> DEFINE T == Frames(Bytes)
           F == pending_iframes.frames
           G == pending_iframes'.frames
<1>1. F \in Seq(T) /\ F # <<>> /\ G = Tail(F)
  BY FlowTypes
<1> HIDE DEF T, F, G
<1>2. Len(F) \in Nat /\ Len(G) = Len(F) - 1 /\ \A i \in 1..Len(G) : G[i] = F[i + 1]
  BY <1>1
<1>3. \A i \in 2..Len(F) : F[i].data = <<>>
  BY DEF OthersEmpty, F
<1>4. \A i \in 1..Len(G) : G[i].data = <<>>
  BY <1>2, <1>3
<1>5. G # <<>> => Head(G) = G[1] /\ 1 \in 1..Len(G)
  <2>1. G \in Seq(T)
    BY <1>1
  <2> QED
    BY <2>1
<1>6. Front' = IF G = <<>> THEN <<>> ELSE Head(G).data
  BY DEF Front, IsEmptyList, PeekFront, G
<1> QED
  BY <1>4, <1>5, <1>6 DEF OthersEmpty, G

\* The first pending frame changes.
LEMMA FillFront ==
    ASSUME TypeInv, OthersEmpty, pending_iframes.frames # <<>>, NEW frame \in Frames(Bytes),
           pending_iframes'.frames = [pending_iframes.frames EXCEPT ![1] = frame]
    PROVE  Front' = frame.data /\ OthersEmpty'
<1> DEFINE T == Frames(Bytes)
           F == pending_iframes.frames
           G == pending_iframes'.frames
<1>1. F \in Seq(T) /\ F # <<>> /\ G = [F EXCEPT ![1] = frame] /\ frame \in T
  BY FlowTypes
<1> HIDE DEF T, F, G
<1>2. /\ Len(F) \in Nat /\ Len(F) >= 1 /\ Len(G) = Len(F) /\ G[1] = frame /\ G \in Seq(T)
      /\ \A i \in 1..Len(G) : i # 1 => G[i] = F[i]
  BY <1>1
<1>3. \A i \in 2..Len(F) : F[i].data = <<>>
  BY DEF OthersEmpty, F
<1>4. \A i \in 2..Len(G) : G[i].data = <<>>
  BY <1>2, <1>3
<1>5. G # <<>> /\ Head(G) = frame
  BY <1>2
<1>6. Front' = IF G = <<>> THEN <<>> ELSE Head(G).data
  BY DEF Front, IsEmptyList, PeekFront, G
<1> QED
  BY <1>4, <1>5, <1>6 DEF OthersEmpty, G

\* iframe_worker moves bytes of the stream to the first pending frame, and the
\* data of that frame to queued_iframes.
LEMMA LoopFlow ==
    ASSUME TypeInv, FlowInv, IframeLoop
    PROVE  FlowInv'
<1> DEFINE F == pending_iframes.frames
<1>1. /\ F # <<>> /\ F \in Seq(Frames(Bytes))
      /\ Skipping \/ \E n : Taking(n) /\ (Finishing(n) \/ Filling(n))
  BY LoopFacts DEF TypeInv
<1>2. UNCHANGED <<wire, dataFifo, taken, rx>>
  BY DEF IframeLoop, adapterVars, readVars
<1>3. Front = Head(F).data
  BY <1>1 DEF Front, IsEmptyList, PeekFront
<1>4. StagesInv /\ PiecesInv /\ OthersEmpty /\ Seen \subseteq Seen'
  BY <1>2 DEF FlowInv, Seen
<1>5. CASE Skipping
  <2>1. Front' = <<>> /\ OthersEmpty' /\ UNCHANGED <<istream, queued_iframes>>
    BY <1>1, <1>4, <1>5, TailFront DEF Skipping, RemoveFrame
  <2>2. Items(Front') = {} /\ Rising(Front', {})
    BY <2>1, NoPieces
  <2>3. \A m \in 1..6 : Stages'[m] \subseteq Stages[m]
    BY <1>2, <2>1, <2>2, StageFacts
  <2>4. StagesInv'
    BY <1>4, <2>3, DropFacts
  <2>5. PiecesInv'
    BY <1>2, <1>4, <2>1, <2>2 DEF PiecesInv
  <2> QED
    BY <2>1, <2>4, <2>5 DEF FlowInv
<1>6. ASSUME NEW n, Taking(n), Finishing(n) \/ Filling(n) PROVE FlowInv'
  <2> DEFINE front == SubSeq(istream.data, 1, n)
             rest == SubSeq(istream.data, n + 1, Len(istream.data))
             filled == Filled(n)
  <2>1. /\ istream.data \in Seq(Bytes) /\ Front \in Seq(Bytes) /\ Len(istream.data) \in Nat
        /\ n \in Nat /\ n <= Len(istream.data) /\ istream'.data = rest
        /\ Rising(istream.data, {}) /\ Rising(Front, {})
    BY <1>4, <1>6, FlowTypes DEF Taking, PiecesInv
  <2>2. front \in Seq(Bytes) /\ Items(front) \subseteq Items(istream.data) /\ Rising(front, {})
    BY <2>1, PrefixFacts
  <2>3. Items(rest) \subseteq Items(istream.data) /\ Rising(rest, {})
    <3>1. Len(istream.data) <= Len(istream.data)
      BY <2>1
    <3> QED
      BY <2>1, <3>1, RunFacts, Zenon
  <2>4. Ahead(Items(front), Items(rest), {})
    BY <2>1, SplitFacts
  <2>5. filled = Front \o front
    BY <1>3 DEF Filled
  <2> HIDE DEF front, rest
  <2>6. Ahead(Items(Front), Items(front), {})
    <3>1. Ahead(Items(Front), Items(istream.data), {})
      BY <1>4, StageFacts DEF StagesInv, Staged
    <3> QED
      BY <2>2, <3>1 DEF Ahead
  <2>7. filled \in Seq(Bytes) /\ Rising(filled, {}) /\ Items(filled) = Items(Front) \cup Items(front)
    <3>1. Rising(Front \o front, {})
      BY <2>1, <2>2, <2>6, JoinFacts
    <3>2. Items(Front \o front) = Items(Front) \cup Items(front)
      BY <2>1, <2>2, JoinFacts
    <3>3. Front \o front \in Seq(Bytes)
      BY <2>1, <2>2
    <3> QED
      BY <2>5, <3>1, <3>2, <3>3
  <2> HIDE DEF filled
  <2> DEFINE mid == <<Stages[1], Stages[2], Items(filled), Items(rest), Stages[5], Stages[6]>>
  <2>8. /\ Len(mid) = 6 /\ mid[1] = Stages[1] /\ mid[2] = Stages[2] /\ mid[3] = Items(filled)
        /\ mid[4] = Items(rest) /\ mid[5] = Stages[5] /\ mid[6] = Stages[6]
    OBVIOUS
  <2> HIDE DEF mid
  <2>9. Staged(mid, {})
    <3>1. /\ Staged(Stages, {}) /\ Len(Stages) \in Nat /\ Len(mid) = Len(Stages)
          /\ 3 \in 1..Len(Stages) /\ 4 \in 1..Len(Stages)
          /\ Items(front) \subseteq Stages[4] /\ mid[3] \subseteq Stages[3] \cup Items(front)
          /\ Ahead(Items(front), mid[4], {})
      BY <1>4, <2>2, <2>4, <2>7, <2>8, StageFacts DEF StagesInv
    <3>2. \A k \in 1..Len(Stages) : k # 3 => mid[k] \subseteq Stages[k]
      BY <2>3, <2>8, StageFacts
    <3>3. \A k \in 1..Len(Stages) : 3 < k /\ k < 4 => mid[k] = {}
      BY StageFacts
    <3>4. Moving(Stages, mid, 3, 4, Items(front), {})
      BY <3>1, <3>2, <3>3 DEF Moving
    <3> QED
      BY <3>1, <3>4, StagedMove
  <2>10. \A m \in 1..6 : mid[m] \subseteq Seen
    BY <1>4, <2>2, <2>3, <2>7, <2>8, StageFacts DEF StagesInv
  <2>11. CASE Filling(n)
    <3>1. PICK frame \in Frames(Bytes) :
             pending_iframes'.frames = [F EXCEPT ![1] = frame] /\ frame.data = filled
      BY <2>11, Zenon DEF Filling, filled
    <3>2. Front' = filled /\ OthersEmpty'
      BY <1>1, <1>4, <3>1, FillFront
    <3>3. UNCHANGED queued_iframes
      BY <2>11 DEF Filling
    <3>4. \A m \in 1..6 : Stages'[m] = mid[m]
      BY <1>2, <2>1, <2>8, <3>2, <3>3, StageFacts
    <3>5. StagesInv'
      BY <1>4, <2>8, <2>9, <2>10, <3>4, StageFacts DEF StagesInv, Staged
    <3>6. PiecesInv'
      BY <1>2, <1>4, <2>1, <2>3, <2>7, <3>2, <3>3 DEF PiecesInv
    <3> QED
      BY <3>2, <3>5, <3>6 DEF FlowInv
  <2>12. CASE Finishing(n)
    <3>1. PICK m \in Nat : \E done \in Frames(Bytes) :
             /\ m <= Len(filled) /\ done.data = SubSeq(filled, 1, m)
             /\ queued_iframes' = AddFrame(queued_iframes, done)
      BY <2>12, Zenon DEF Finishing, filled
    <3>2. PICK done \in Frames(Bytes) :
             /\ m <= Len(filled) /\ done.data = SubSeq(filled, 1, m)
             /\ queued_iframes' = AddFrame(queued_iframes, done)
      BY <3>1
    <3>3. Front' = <<>> /\ OthersEmpty'
      BY <1>1, <1>4, <2>12, TailFront DEF Finishing
    <3>4. done.data \in Seq(Bytes) /\ Items(done.data) \subseteq Items(filled)
          /\ Rising(done.data, {})
      BY <2>7, <3>2, PrefixFacts
    <3> DEFINE Q == DataOf(queued_iframes.frames)
               R == DataOf(queued_iframes'.frames)
    <3>5. Q \in Seq(Seq(Bytes)) /\ R = Append(Q, done.data)
      <4>1. queued_iframes'.frames = Append(queued_iframes.frames, done)
        BY <3>2 DEF AddFrame
      <4>2. \A frame \in Frames(Bytes) : frame.data \in Seq(Bytes)
        BY DEF Frames
      <4>3. queued_iframes.frames \in Seq(Frames(Bytes)) /\ Q \in Seq(Seq(Bytes))
        BY FlowTypes
      <4>4. DataOf(Append(queued_iframes.frames, done)) = Append(Q, done.data)
        BY <3>4, <4>2, <4>3, DataAppend
      <4> QED
        BY <4>1, <4>3, <4>4
    <3> HIDE DEF Q, R
    <3>6. AllItems(R) = AllItems(Q) \cup Items(done.data)
      BY <3>4, <3>5, PieceAppend
    <3>7. InOrder(Q, {}) /\ Stages[2] = AllItems(Q) /\ Stages'[2] = AllItems(R)
      BY <1>4, StageFacts DEF PiecesInv, Q, R
    <3>8. Ahead(AllItems(Q), Items(done.data), {})
      BY <2>8, <2>9, <3>4, <3>7 DEF Staged, Ahead
    <3>9. InOrder(R, {})
      BY <3>4, <3>5, <3>7, <3>8, PieceAppend
    <3>10. Items(Front') = {} /\ Rising(Front', {})
      BY <3>3, NoPieces
    <3>11. /\ Stages'[1] = mid[1] /\ Stages'[2] = mid[2] \cup Items(done.data) /\ Stages'[3] = {}
           /\ Stages'[4] = mid[4] /\ Stages'[5] = mid[5] /\ Stages'[6] = mid[6]
      BY <1>2, <2>1, <2>8, <3>6, <3>7, <3>10, StageFacts
    <3>12. Staged(Stages', {})
      <4>1. /\ Len(mid) \in Nat /\ Len(Stages') = Len(mid)
            /\ 2 \in 1..Len(mid) /\ 3 \in 1..Len(mid)
            /\ Items(done.data) \subseteq mid[3]
            /\ Stages'[2] \subseteq mid[2] \cup Items(done.data)
            /\ Ahead(Items(done.data), Stages'[3], {})
        BY <2>8, <3>4, <3>11, StageFacts DEF Ahead
      <4>2. \A k \in 1..Len(mid) : k # 2 => Stages'[k] \subseteq mid[k]
        BY <2>8, <3>11
      <4>3. \A k \in 1..Len(mid) : 2 < k /\ k < 3 => Stages'[k] = {}
        BY <2>8
      <4>4. Moving(mid, Stages', 2, 3, Items(done.data), {})
        BY <4>1, <4>2, <4>3 DEF Moving
      <4> QED
        BY <2>9, <4>4, StagedMove
    <3>13. StagesInv'
      <4>1. \A k \in 1..6 : Stages'[k] \subseteq Seen
        BY <2>8, <2>10, <3>4, <3>11
      <4> QED
        BY <1>4, <3>12, <4>1 DEF StagesInv
    <3>14. PiecesInv'
      BY <1>2, <1>4, <2>1, <2>3, <3>9, <3>10 DEF PiecesInv, R
    <3> QED
      BY <3>3, <3>13, <3>14 DEF FlowInv
  <2> QED
    BY <1>6, <2>11, <2>12
<1> QED
  BY <1>1, <1>5, <1>6

\* A read of a streaming port takes the front of the stream.
LEMMA StreamFlow ==
    ASSUME RxAssumption, TypeInv, FlowInv, FramesIdle, NEW d \in ReadDpcs, StreamRead(d)
    PROVE  FlowInv'
<1> DEFINE length == reads[dpc[d].req].length
           n == Least(Least(length, DataLength(istream)), DataLength(istream))
           front == SubSeq(istream.data, 1, n)
           rest == SubSeq(istream.data, n + 1, Len(istream.data))
           piece == [req |-> dpc[d].req, data |-> front]
           T == [req : Nat, data : Seq(Bytes)]
<1>1. /\ istream \in Frames(Bytes) /\ istream.data \in Seq(Bytes)
      /\ DataLength(istream) = Len(istream.data) /\ Len(istream.data) \in Nat
      /\ dpc[d].req \in Nat /\ length \in Nat
  <2>1. istream \in Frames(Bytes) /\ istream.data \in Seq(Bytes)
    BY FlowTypes
  <2>2. dpc[d].req \in 1..Len(reads) /\ reads \in Seq(ReadStates)
    BY DEF TypeInv, ReadTypes, StreamRead
  <2>3. reads[dpc[d].req] \in ReadStates
    BY <2>2
  <2> QED
    BY <2>1, <2>2, <2>3, SMTT(30) DEF DataLength, ReadStates
<1>2. Least(length, DataLength(istream)) \in Nat /\ n \in Nat /\ n <= Len(istream.data)
  <2> HIDE DEF length
  <2> QED
    BY <1>1 DEF Least
<1>3. istream'.data = rest /\ taken' = Append(taken, piece)
  <2>1. /\ istream' = RemoveData(istream, Least(length, DataLength(istream)))
        /\ taken' = Append(taken, [req |-> dpc[d].req,
                                   data |-> Removed(istream, Least(length, DataLength(istream)))])
    BY DEF StreamRead
  <2> DEFINE l == Least(length, DataLength(istream))
  <2>2. l \in Nat
    BY <1>2
  <2> HIDE DEF l
  <2>3. /\ Removed(istream, l) = SubSeq(istream.data, 1, Least(l, DataLength(istream)))
        /\ RemoveData(istream, l).data
              = SubSeq(istream.data, Least(l, DataLength(istream)) + 1, DataLength(istream))
    BY <1>1, <2>2, RemovedFacts
  <2> QED
    BY <1>1, <2>1, <2>3 DEF l
<1>4. UNCHANGED <<wire, dataFifo, queued_iframes, pending_iframes, rx>>
  BY DEF StreamRead, ReadUnchanged, adapterVars
<1> HIDE DEF n
<1>5. Rising(istream.data, {}) /\ InOrder(DataOf(taken), {}) /\ OthersEmpty /\ StagesInv
      /\ Seen \subseteq Seen'
  BY <1>4 DEF FlowInv, PiecesInv, Seen
<1>6. front \in Seq(Bytes) /\ Items(front) \subseteq Items(istream.data) /\ Rising(front, {})
  BY <1>1, <1>2, <1>5, PrefixFacts
<1>7. Items(rest) \subseteq Items(istream.data) /\ Rising(rest, {})
  <2>1. Len(istream.data) <= Len(istream.data)
    BY <1>1
  <2> QED
    BY <1>1, <1>2, <1>5, <2>1, RunFacts, Zenon
<1>8. Ahead(Items(front), Items(rest), {})
  BY <1>1, <1>2, <1>5, SplitFacts
<1> HIDE DEF front, rest, length
<1> DEFINE P == DataOf(taken)
           R == DataOf(taken')
<1>9. P \in Seq(Seq(Bytes)) /\ R = Append(P, front)
  <2>1. taken \in Seq(T) /\ P \in Seq(Seq(Bytes)) /\ piece \in T /\ piece.data = front
        /\ \A other \in T : other.data \in Seq(Bytes)
    BY <1>1, <1>6, FlowTypes
  <2> HIDE DEF T, piece
  <2>2. DataOf(Append(taken, piece)) = Append(DataOf(taken), piece.data)
    BY <1>6, <2>1, DataAppend
  <2> QED
    BY <1>3, <2>1, <2>2
<1> HIDE DEF P, R
<1>10. AllItems(R) = AllItems(P) \cup Items(front)
  BY <1>6, <1>9, PieceAppend
<1>11. InOrder(P, {}) /\ Stages[1] = AllItems(P) /\ Stages'[1] = AllItems(R)
  BY <1>5, StageFacts DEF P, R
<1>12. Ahead(AllItems(P), Items(front), {})
  <2>1. Ahead(Stages[1], Stages[4], {})
    BY <1>5, StageFacts DEF StagesInv, Staged
  <2> QED
    BY <1>6, <1>11, <2>1, StageFacts DEF Ahead
<1>13. InOrder(R, {})
  BY <1>6, <1>9, <1>11, <1>12, PieceAppend
<1>14. Stages'[2] = {} /\ Stages'[3] = {}
  <2>1. queued_iframes'.frames = <<>> /\ Front' = <<>>
    BY <1>4 DEF StreamRead, FramesIdle, EmptyList, Front, IsEmptyList
  <2>2. DataOf(<<>>) = <<>>
    BY DEF DataOf
  <2> QED
    BY <2>1, <2>2, NoPieces, StageFacts
<1>15. /\ Stages'[1] = Stages[1] \cup Items(front) /\ Stages'[4] = Items(rest)
       /\ Stages[4] = Items(istream.data) /\ Stages'[5] = Stages[5] /\ Stages'[6] = Stages[6]
  BY <1>3, <1>4, <1>10, <1>11, StageFacts
<1>16. StagesInv'
  <2>1. \A m \in 1..6 : m # 1 => Stages'[m] \subseteq Stages[m]
    BY <1>7, <1>14, <1>15
  <2>2. \A m \in 1..6 : 1 < m /\ m < 4 => Stages'[m] = {}
    BY <1>14
  <2>3. Items(front) \subseteq Stages[4] /\ Ahead(Items(front), Stages'[4], {})
        /\ Stages'[1] \subseteq Stages[1] \cup Items(front)
    BY <1>6, <1>8, <1>15
  <2> QED
    BY <1>5, <2>1, <2>2, <2>3, PassFacts, SMTT(30)
<1>17. PiecesInv'
  BY <1>3, <1>4, <1>7, <1>13 DEF FlowInv, PiecesInv, Front, R
<1>18. OthersEmpty'
  BY <1>4, <1>5 DEF OthersEmpty
<1> QED
  BY <1>16, <1>17, <1>18 DEF FlowInv

\* A read takes the first queued frame.
LEMMA TakeFlow ==
    ASSUME RxAssumption, WordAssumption, TypeInv, FlowInv, NEW d \in ReadDpcs, FrameReadTake(d)
    PROVE  FlowInv'
<1> DEFINE first == PeekFront(queued_iframes)
           piece == [req |-> dpc[d].req, data |-> first.data]
           T == [req : Nat, data : Seq(Bytes)]
           frames == queued_iframes.frames
<1>1. /\ frames # <<>> /\ first \in Frames(Bytes) /\ first = Head(frames)
      /\ taken' = Append(taken, piece) /\ dpc[d].req \in Nat
  <2>1. /\ frames # <<>> /\ first \in Frames(Bytes) /\ taken' = Append(taken, piece)
        /\ dpc[d].req \in 1..Len(reads)
    BY TakeFacts DEF TypeInv, ReadTypes, FrameReadTake
  <2> QED
    BY <2>1 DEF PeekFront
<1>2. queued_iframes'.frames = Tail(frames)
  BY DEF FrameReadTake, RemoveFrame
<1>3. UNCHANGED <<wire, dataFifo, istream, pending_iframes, rx>>
  BY DEF FrameReadTake, ReadUnchanged, adapterVars
<1>4. /\ InOrder(DataOf(frames), {}) /\ InOrder(DataOf(taken), {}) /\ OthersEmpty /\ StagesInv
      /\ Seen \subseteq Seen' /\ first.data \in Seq(Bytes) /\ frames \in Seq(Frames(Bytes))
  BY <1>1, <1>3, FlowTypes DEF FlowInv, PiecesInv, Seen, Frames
<1> DEFINE P == DataOf(taken)
           R == DataOf(taken')
           Q == DataOf(frames)
           rest == DataOf(queued_iframes'.frames)
<1>5. P \in Seq(Seq(Bytes)) /\ R = Append(P, first.data)
  <2>1. taken \in Seq(T) /\ P \in Seq(Seq(Bytes)) /\ piece \in T /\ piece.data = first.data
        /\ \A other \in T : other.data \in Seq(Bytes)
    BY <1>1, <1>4, FlowTypes
  <2> HIDE DEF T, piece
  <2>2. DataOf(Append(taken, piece)) = Append(DataOf(taken), piece.data)
    BY <1>4, <2>1, DataAppend
  <2> QED
    BY <1>1, <2>1, <2>2
<1>6. Q \in Seq(Seq(Bytes)) /\ Q # <<>> /\ Head(Q) = first.data /\ rest = Tail(Q)
  <2>1. \A frame \in Frames(Bytes) : frame.data \in Seq(Bytes)
    BY DEF Frames
  <2>2. DataOf(Tail(frames)) = Tail(DataOf(frames)) /\ Head(DataOf(frames)) = Head(frames).data
        /\ DataOf(frames) # <<>> /\ DataOf(frames) \in Seq(Seq(Bytes))
    BY <1>1, <1>4, <2>1, DataFacts
  <2> QED
    BY <1>1, <1>2, <2>2
<1> HIDE DEF P, R, Q, rest, first, frames
<1>7. /\ InOrder(Q, {}) /\ InOrder(P, {}) /\ Stages[1] = AllItems(P) /\ Stages'[1] = AllItems(R)
      /\ Stages[2] = AllItems(Q) /\ Stages'[2] = AllItems(rest)
  BY <1>4, StageFacts DEF P, Q, R, rest, frames
<1>8. /\ Items(Head(Q)) \subseteq AllItems(Q) /\ AllItems(Tail(Q)) \subseteq AllItems(Q)
      /\ Rising(Head(Q), {}) /\ InOrder(Tail(Q), {})
      /\ Ahead(Items(Head(Q)), AllItems(Tail(Q)), {})
  BY <1>6, <1>7, PieceTail
<1>9. AllItems(R) = AllItems(P) \cup Items(first.data)
  BY <1>4, <1>5, PieceAppend
<1>10. Ahead(AllItems(P), Items(first.data), {})
  <2>1. Ahead(Stages[1], Stages[2], {})
    BY <1>4, StageFacts DEF StagesInv, Staged
  <2> QED
    BY <1>6, <1>7, <1>8, <2>1 DEF Ahead
<1>11. InOrder(R, {})
  <2>1. Rising(first.data, {})
    BY <1>6, <1>8
  <2> QED
    BY <1>4, <1>5, <1>7, <1>10, <2>1, PieceAppend
<1>12. StagesInv'
  <2>0. PICK moved : moved = Items(first.data)
    OBVIOUS
  <2>1. /\ moved \subseteq Stages[2] /\ Ahead(moved, Stages'[2], {})
        /\ Stages'[1] \subseteq Stages[1] \cup moved
    BY <1>6, <1>7, <1>8, <1>9, <2>0
  <2>2. \A m \in 1..6 : m # 1 => Stages'[m] \subseteq Stages[m]
    BY <1>3, <1>6, <1>7, <1>8, StageFacts DEF Front
  <2>3. \A m \in 1..6 : ~(1 < m /\ m < 2)
    OBVIOUS
  <2>4. /\ 1 \in 1..6 /\ 2 \in 1..6 /\ 1 < 2 /\ Seen \subseteq Seen' /\ StagesInv
        /\ \A m \in 1..6 : 1 < m /\ m < 2 => Stages'[m] = {}
    BY <1>4, <2>3
  <2> QED
    BY <2>1, <2>2, <2>4, PassFacts
<1>13. PiecesInv'
  BY <1>3, <1>6, <1>8, <1>11 DEF FlowInv, PiecesInv, Front, R, rest
<1>14. OthersEmpty'
  BY <1>3, <1>4 DEF OthersEmpty
<1> QED
  BY <1>12, <1>13, <1>14 DEF FlowInv

\* A step that moves nothing and may drop what a stage holds.
LEMMA DropFlow ==
    ASSUME FlowInv, Seen \subseteq Seen', UNCHANGED taken,
           queued_iframes'.frames \in {queued_iframes.frames, <<>>}, Front' \in {Front, <<>>},
           istream'.data \in {istream.data, <<>>}, dataFifo' \in {dataFifo, <<>>},
           Items(rx'.packet) \subseteq Items(rx.packet), Rising(rx'.packet, {}), OthersEmpty'
    PROVE  FlowInv'
<1>1. /\ StagesInv /\ PiecesInv
      /\ DataOf(<<>>) = <<>> /\ AllItems(<<>>) = {} /\ Items(<<>>) = {}
      /\ InOrder(<<>>, {}) /\ Rising(<<>>, {})
  BY NoPieces DEF FlowInv, DataOf
<1>2. /\ Stages'[2] \subseteq Stages[2] /\ Stages'[3] \subseteq Stages[3]
      /\ Stages'[4] \subseteq Stages[4] /\ Stages'[6] \subseteq Stages[6]
  BY <1>1, StageFacts
<1>3. Stages'[1] \subseteq Stages[1] /\ Stages'[5] \subseteq Stages[5]
  BY StageFacts
<1>4. \A m \in 1..6 : Stages'[m] \subseteq Stages[m]
  BY <1>2, <1>3
<1>5. StagesInv'
  BY <1>1, <1>4, DropFacts
<1>6. InOrder(DataOf(queued_iframes'.frames), {}) /\ Rising(Front', {})
      /\ Rising(istream'.data, {}) /\ Rising(dataFifo', {})
  BY <1>1 DEF PiecesInv
<1>7. PiecesInv'
  BY <1>1, <1>6 DEF PiecesInv
<1> QED
  BY <1>5, <1>7 DEF FlowInv

\* Charging a pending frame with lost bytes leaves the data of all.
LEMMA TrimFront ==
    ASSUME RxAssumption, TypeInv, OthersEmpty, RxTrim
    PROVE  /\ Front' = Front /\ OthersEmpty'
           /\ Len(pending_iframes'.frames) = Len(pending_iframes.frames)
           /\ \A i \in 1..Len(pending_iframes.frames) :
                 pending_iframes'.frames[i].frame_size = pending_iframes.frames[i].frame_size
           /\ pending_iframes'.estimated_memory_usage = pending_iframes.estimated_memory_usage
<1> DEFINE F == pending_iframes.frames
           G == pending_iframes'.frames
           T == Frames(Bytes)
<1>1. F \in Seq(T) /\ rx.packet \in Seq(Bytes) /\ Len(rx.packet) \in Nat /\ rx.usage \in Nat
  BY FlowTypes DEF TypeInv, ControlTypes, RxStates
<1>2. /\ Len(G) = Len(F) /\ Len(F) \in Nat
      /\ \A i \in 1..Len(F) : G[i].data = F[i].data /\ G[i].frame_size = F[i].frame_size
      /\ (G = <<>> <=> F = <<>>)
      /\ pending_iframes'.estimated_memory_usage = pending_iframes.estimated_memory_usage
  <2>1. CASE pending_iframes' = pending_iframes
    BY <1>1, <2>1
  <2>2. CASE pending_iframes' # pending_iframes
    <3>1. PICK l \in Nat : /\ pending_iframes'
                                = [pending_iframes EXCEPT !.frames[Len(F)].lost_bytes = l]
                           /\ Len(F) > 0
      <4>1. PICK c \in Nat : c <= Len(rx.packet) /\ c = Kept(Len(rx.packet))
        BY <1>1 DEF Kept, RxAssumption
      <4>2. /\ pending_iframes' = [pending_iframes EXCEPT !.frames[Len(F)].lost_bytes
                                                             = @ + (Len(rx.packet) - c)]
            /\ Len(F) > 0
        BY <2>2, <4>1 DEF RxTrim
      <4>3. F[Len(F)] \in T
        BY <1>1, <4>2
      <4>4. F[Len(F)].lost_bytes + (Len(rx.packet) - c) \in Nat
        <5>1. F[Len(F)].lost_bytes \in Nat
          BY <4>3 DEF Frames
        <5> DEFINE lost == F[Len(F)].lost_bytes
                   size == Len(rx.packet)
        <5>2. lost \in Nat /\ size \in Nat /\ c <= size
          BY <1>1, <4>1, <5>1
        <5> HIDE DEF lost, size
        <5>3. lost + (size - c) \in Nat
          BY <5>2
        <5> QED
          BY <5>3 DEF lost, size
      <4> QED
        BY <4>2, <4>4
    <3> DEFINE changed == [F[Len(F)] EXCEPT !.lost_bytes = l]
    <3>2. pending_iframes \in Lists(Bytes) /\ Len(F) \in DOMAIN F /\ F[Len(F)] \in T
      <4>1. Len(F) \in DOMAIN F /\ F[Len(F)] \in T
        <5> HIDE DEF T, F
        <5> QED
          BY <1>1, <3>1
      <4> QED
        BY <4>1 DEF TypeInv, BufferTypes
    <3>3. /\ changed \in T /\ changed.data = F[Len(F)].data
          /\ changed.frame_size = F[Len(F)].frame_size
      BY <3>2 DEF Frames
    <3>4. /\ G = [F EXCEPT ![Len(F)] = changed]
          /\ pending_iframes'.estimated_memory_usage = pending_iframes.estimated_memory_usage
      BY <3>1, <3>2 DEF Lists
    <3> HIDE DEF changed, T, F, G
    <3> QED
      BY <1>1, <3>1, <3>2, <3>3, <3>4
  <2> QED
    BY <2>1, <2>2
<1>3. Front' = Front
  <2>1. F # <<>> => Head(F) = F[1] /\ 1 \in 1..Len(F)
    <3> HIDE DEF T, F
    <3> QED
      BY <1>1
  <2>2. G # <<>> => Head(G) = G[1]
    OBVIOUS
  <2> QED
    BY <1>2, <2>1, <2>2 DEF Front, IsEmptyList, PeekFront
<1>4. OthersEmpty'
  BY <1>2 DEF OthersEmpty
<1> QED
  BY <1>2, <1>3, <1>4

LEMMA TrimFlow ==
    ASSUME RxAssumption, TypeInv, FlowInv, RxTrim
    PROVE  FlowInv'
<1>1. rx.packet \in Seq(Bytes) /\ Len(rx.packet) \in Nat /\ rx.usage \in Nat
  BY FlowTypes DEF TypeInv, ControlTypes, RxStates
<1>2. Front' = Front /\ OthersEmpty'
  BY TrimFront DEF FlowInv
<1>3. /\ UNCHANGED <<wire, taken, queued_iframes, istream, dataFifo>> /\ Seen \subseteq Seen'
      /\ Rising(rx.packet, {})
  BY DEF RxTrim, RxUnchanged, adapterVars, readVars, Seen, FlowInv, PiecesInv
<1>4. Items(rx'.packet) \subseteq Items(rx.packet) /\ Rising(rx'.packet, {})
  <2>1. CASE rx' = IdleRx
    BY <2>1, NoPieces DEF IdleRx
  <2>2. CASE rx' # IdleRx
    <3>1. PICK c \in Nat : c <= Len(rx.packet) /\ c = Kept(Len(rx.packet))
      BY <1>1 DEF Kept, RxAssumption
    <3>2. rx'.packet = SubSeq(rx.packet, 1, c)
      <4>1. rx' = [rx EXCEPT !.packet = SubSeq(rx.packet, 1, c), !.pc = "add"]
        BY <2>2, <3>1 DEF RxTrim
      <4>2. rx \in RxStates
        BY DEF TypeInv, ControlTypes
      <4> QED
        BY <4>1, <4>2 DEF RxStates
    <3> QED
      BY <1>1, <1>3, <3>1, <3>2, PrefixFacts
  <2> QED
    BY <2>1, <2>2
<1> QED
  BY <1>2, <1>3, <1>4, DropFlow

\* A frame that is opened has no data yet.
LEMMA OpenFront ==
    ASSUME TypeInv, OthersEmpty, CompleteFrameSize
    PROVE  /\ Front' = Front /\ OthersEmpty'
           /\ \/ pending_iframes'.frames = pending_iframes.frames
              \/ \E frame \in Frames(Bytes) :
                    /\ frame.data = <<>> /\ frame.frame_size = Head(responses).value
                    /\ pending_iframes'.frames = Append(pending_iframes.frames, frame)
           /\ pending_iframes'.estimated_memory_usage = pending_iframes.estimated_memory_usage
<1> DEFINE F == pending_iframes.frames
           G == pending_iframes'.frames
           T == Frames(Bytes)
<1>1. F \in Seq(T)
  BY FlowTypes
<1>2. /\ G = F \/ \E frame \in T : /\ frame.data = <<>> /\ G = Append(F, frame)
                                    /\ frame.frame_size = Head(responses).value
      /\ pending_iframes'.estimated_memory_usage = pending_iframes.estimated_memory_usage
  <2> DEFINE value == Head(responses).value
             frame == [NewFrame EXCEPT !.frame_size = value]
  <2>1. value \in Nat
    <3>1. responses \in Seq(Completions) /\ responses # <<>>
      BY DEF TypeInv, CommandTypes, CompleteFrameSize, Completing
    <3>2. Head(responses) \in Completions
      BY <3>1
    <3> QED
      BY <3>2 DEF Completions
  <2>2. frame \in T /\ frame.data = <<>> /\ frame.frame_size = value
    <3>1. frame \in T /\ frame = [data |-> <<>>, buffer_size |-> 0, frame_size |-> value,
                                  lost_bytes |-> 0]
      BY <2>1, NewFrameTypes
    <3> QED
      BY <3>1
  <2>3. pending_iframes' = pending_iframes \/ pending_iframes' = AddFrame(pending_iframes, frame)
    BY DEF CompleteFrameSize
  <2>4. G = F \/ G = Append(F, frame)
    BY <2>3 DEF AddFrame
  <2>5. pending_iframes'.estimated_memory_usage = pending_iframes.estimated_memory_usage
    <3>1. pending_iframes.estimated_memory_usage \in Int
      BY DEF TypeInv, BufferTypes, Lists
    <3> QED
      BY <2>2, <2>3, <3>1 DEF AddFrame, DataLength
  <2> QED
    BY <2>2, <2>4, <2>5
<1>3. Front' = Front /\ OthersEmpty'
  <2>1. CASE G = F
    BY <2>1 DEF Front, IsEmptyList, PeekFront, OthersEmpty
  <2>2. CASE G # F
    <3>1. PICK frame \in T : frame.data = <<>> /\ G = Append(F, frame)
      BY <1>2, <2>2
    <3> HIDE DEF T, F, G
    <3>2. /\ Len(F) \in Nat /\ G # <<>> /\ Len(G) = Len(F) + 1 /\ G[Len(F) + 1] = frame
          /\ \A i \in 1..Len(F) : G[i] = F[i]
      BY <1>1, <3>1
    <3>3. \A i \in 2..Len(F) : F[i].data = <<>>
      BY DEF OthersEmpty, F
    <3>4. \A i \in 2..Len(G) : i \in 2..Len(F) \/ i = Len(F) + 1
      BY <3>2
    <3>5. \A i \in 2..Len(G) : G[i].data = <<>>
      <4>1. \A i \in 2..Len(F) : i \in 1..Len(F)
        BY <3>2
      <4> QED
        BY <3>1, <3>2, <3>3, <3>4, <4>1
    <3>6. Head(G).data = IF F = <<>> THEN <<>> ELSE Head(F).data
      <4>1. Head(G) = G[1]
        BY <1>1, <3>1
      <4>2. F # <<>> => Head(F) = F[1] /\ 1 \in 1..Len(F)
        BY <1>1
      <4>3. F = <<>> => Len(F) = 0
        BY <1>1
      <4> QED
        BY <3>1, <3>2, <4>1, <4>2, <4>3
    <3> QED
      BY <3>2, <3>5, <3>6 DEF Front, IsEmptyList, PeekFront, OthersEmpty, F, G
  <2> QED
    BY <2>1, <2>2
<1> QED
  BY <1>2, <1>3

LEMMA OpenFlow ==
    ASSUME TypeInv, FlowInv, CompleteFrameSize
    PROVE  FlowInv'
<1>1. Front' = Front /\ OthersEmpty'
  BY OpenFront DEF FlowInv
<1>2. /\ UNCHANGED <<wire, taken, queued_iframes, istream, dataFifo, rx>> /\ Seen \subseteq Seen'
      /\ Rising(rx.packet, {})
  BY DEF CompleteFrameSize, adapterVars, readVars, Seen, FlowInv, PiecesInv
<1> QED
  BY <1>1, <1>2, DropFlow

LEMMA FlowStep ==
    ASSUME RxAssumption, WordAssumption, TypeInv, FramesIdle, FlowInv, [Next]_vars
    PROVE  FlowInv'
<1>1. FlowInv /\ Rising(rx.packet, {}) /\ OthersEmpty
  BY DEF FlowInv, PiecesInv
<1>2. ASSUME UNCHANGED <<wire, dataFifo, bufferVars, taken, rx>> PROVE FlowInv'
  <2>1. Seen \subseteq Seen' /\ Front' = Front /\ OthersEmpty'
    BY <1>1, <1>2 DEF Seen, Front, bufferVars, OthersEmpty
  <2> QED
    BY <1>1, <1>2, <2>1, DropFlow DEF bufferVars
<1>3. CASE WireByte \/ RxPacket \/ RxAdd \/ RxTrim \/ CompleteFrameSize \/ IframeLoop
  BY <1>3, WireFlow, PacketFlow, AddFlow, TrimFlow, OpenFlow, LoopFlow
<1>4. ASSUME NEW d \in ReadDpcs, StreamRead(d) \/ FrameReadTake(d) PROVE FlowInv'
  BY <1>4, StreamFlow, TakeFlow
<1>5. CASE ExecuteReceiverReset
  <2>1. /\ dataFifo' = <<>> /\ UNCHANGED <<bufferVars, taken, rx>>
        /\ wire' = (IF wire.bytes = 0 THEN wire ELSE [frame |-> wire.frame + 1, bytes |-> 0])
        /\ wire.frame \in Int /\ wire.bytes \in Nat
    <3>1. wire \in [frame : 1..NFrames + 1, bytes : Nat]
      BY DEF TypeInv, AdapterTypes
    <3> QED
      BY <1>5, <3>1 DEF ExecuteReceiverReset, readVars
  <2>2. \A b \in Bytes : b[1] \in Int
    BY BytesFacts
  <2>3. Seen \subseteq Seen'
    BY <2>1, <2>2 DEF Seen
  <2>4. Front' = Front /\ OthersEmpty'
    BY <1>1, <2>1 DEF Front, bufferVars, OthersEmpty
  <2> QED
    BY <1>1, <2>1, <2>3, <2>4, DropFlow DEF bufferVars
<1>6. CASE PurgeQueued
  <2>1. /\ queued_iframes'.frames = <<>>
        /\ UNCHANGED <<wire, dataFifo, istream, pending_iframes, taken, rx>>
    BY <1>6 DEF PurgeQueued, PurgeUnchanged, adapterVars, EmptyList
  <2>2. Seen \subseteq Seen' /\ Front' = Front /\ OthersEmpty'
    BY <1>1, <2>1 DEF Seen, Front, OthersEmpty
  <2> QED
    BY <1>1, <2>1, <2>2, DropFlow
<1>7. CASE PurgeStream
  <2>1. UNCHANGED <<wire, dataFifo, queued_iframes, pending_iframes, taken, rx>>
    BY <1>7 DEF PurgeStream, PurgeUnchanged, adapterVars
  <2>2. istream'.data = <<>>
    BY <1>7, FlowTypes, ClearFacts DEF PurgeStream
  <2>3. Seen \subseteq Seen' /\ Front' = Front /\ OthersEmpty'
    BY <1>1, <2>1 DEF Seen, Front, OthersEmpty
  <2> QED
    BY <1>1, <2>1, <2>2, <2>3, DropFlow
<1>8. CASE PurgePending
  <2>1. /\ pending_iframes'.frames = <<>>
        /\ UNCHANGED <<wire, dataFifo, queued_iframes, istream, taken, rx>>
    BY <1>8 DEF PurgePending, PurgeUnchanged, adapterVars, EmptyList
  <2>2. Len(<<>>) = 0
    OBVIOUS
  <2>3. Seen \subseteq Seen' /\ Front' = <<>> /\ OthersEmpty'
    BY <2>1, <2>2 DEF Seen, Front, IsEmptyList, OthersEmpty
  <2> QED
    BY <1>1, <2>1, <2>3, DropFlow
<1>9. CASE ExecuteFrameCount \/ ExecuteFrameSize \/ CompleteFrameCount \/ CompleteWithError \/ SendRead
  BY <1>2, <1>9 DEF ExecuteFrameCount, ExecuteFrameSize, CompleteFrameCount, CompleteWithError,
                    SendRead, SendSizeRead, SendCountRead,
                    adapterVars, readVars
<1>10. CASE RxUsageQueued \/ RxUsageStream \/ RxUsagePending
  <2>1. UNCHANGED <<wire, dataFifo, bufferVars, taken>>
    BY <1>10 DEF RxUsageQueued, RxUsageStream, RxUsagePending, RxUnchanged, adapterVars, readVars
  <2>2. rx'.packet = rx.packet
    <3>1. rx \in RxStates
      BY DEF TypeInv, ControlTypes
    <3> QED
      BY <1>10, <3>1 DEF RxUsageQueued, RxUsageStream, RxUsagePending, AddUsage, RxStates
  <2>3. Seen \subseteq Seen' /\ Front' = Front /\ OthersEmpty'
    BY <1>1, <2>1 DEF Seen, Front, bufferVars, OthersEmpty
  <2> QED
    BY <1>1, <2>1, <2>2, <2>3, DropFlow DEF bufferVars
<1>11. CASE Timer \/ IframeStart \/ IframeEnd \/ PurgeReset \/ PurgeCancel \/ PurgeDrain
  BY <1>2, <1>11 DEF Timer, IframeStart, IframeEnd, PurgeReset, PurgeCancel, PurgeDrain,
                     PurgeUnchanged, adapterVars, readVars
<1>12. CASE \/ SyncComEvtIoRead
            \/ \E d \in ReadDpcs : ReadStart(d) \/ ReadCheck(d) \/ ReadRetrieve(d) \/ FrameReadEnd(d)
  BY <1>2, <1>12 DEF SyncComEvtIoRead, ReadStart, ReadCheck, ReadRetrieve, FrameReadEnd,
                     ReadUnchanged, adapterVars, bufferVars
<1>13. CASE UNCHANGED vars
  BY <1>2, <1>13 DEF vars, adapterVars, readVars
<1> QED
  BY <1>3, <1>4, <1>5, <1>6, <1>7, <1>8, <1>9, <1>10, <1>11, <1>12, <1>13
  DEF Next, Adapter, RegisterCompletion, RxStep, IframeWorker, SynccomProcessRead, PurgeStep

LEMMA FlowInvariant == Spec => [](TypeInv /\ FramesIdle /\ FlowInv)
<1>1. Init => FramesIdle /\ FlowInv
  BY IdleInit, FlowInit
<1>2. TypeInv /\ FramesIdle /\ FlowInv /\ [Next]_vars => FramesIdle' /\ FlowInv'
  BY IdleStep, FlowStep, RxAssumption, WordAssumption
<1> QED
  BY <1>1, <1>2, TypeInvariant, PTL DEF Spec

\* Whatever is dropped (at the cap, by a purge, by a failed size read) and in
\* both modes of the port, the bytes given to reads, queued, put together,
\* streamed, in the packet and in the adapter are, one after the other, in the
\* order of the wire and none is there twice.
THEOREM BytesStayInOrder == Spec => []BytesInOrder
<1>1. ASSUME TypeInv, FlowInv PROVE BytesInOrder
  <2> DEFINE P == DataOf(taken)
             Q == DataOf(queued_iframes.frames)
             A == P \o Q
             B == Append(A, Front)
             C == Append(B, istream.data)
             D == Append(C, rx.packet)
             E == Append(D, dataFifo)
             U == Seq(Bytes)
  <2>1. /\ P \in Seq(U) /\ Q \in Seq(U) /\ Front \in U /\ istream.data \in U
        /\ rx.packet \in U /\ dataFifo \in U
    BY <1>1, FlowTypes
  <2>2. Flow = E
    <3>1. taken \in Seq([req : Nat, data : U]) /\ queued_iframes.frames \in Seq(Frames(Bytes))
      BY <1>1, FlowTypes
    <3>2. /\ P = [i \in DOMAIN taken |-> taken[i].data]
          /\ Q = [i \in DOMAIN queued_iframes.frames |-> queued_iframes.frames[i].data]
      <4> HIDE DEF U
      <4> QED
        BY <3>1 DEF DataOf
    <3>3. Flow = A \o <<Front, istream.data, rx.packet, dataFifo>>
      BY <3>2 DEF Flow, Front
    <3>4. A \in Seq(U)
      <4> HIDE DEF U, P, Q
      <4> QED
        BY <2>1
    <3>5. A \o <<Front, istream.data, rx.packet, dataFifo>> = E
      <4>1. PICK a \in U, b \in U, c \in U, d \in U :
               a = Front /\ b = istream.data /\ c = rx.packet /\ d = dataFifo
        BY <2>1
      <4> HIDE DEF U, A
      <4>2. A \o <<a, b, c, d>> = Append(Append(Append(Append(A, a), b), c), d)
        BY <3>4
      <4> QED
        BY <4>1, <4>2
    <3> QED
      BY <3>3, <3>5
  <2>3. /\ Stages[1] = AllItems(P) /\ Stages[2] = AllItems(Q) /\ Stages[3] = Items(Front)
        /\ Stages[4] = Items(istream.data) /\ Stages[5] = Items(rx.packet)
        /\ Stages[6] = Items(dataFifo)
        /\ \A m, n \in 1..6 : m < n => Ahead(Stages[m], Stages[n], {})
    BY <1>1, StageFacts DEF FlowInv, StagesInv, Staged
  <2>4. /\ InOrder(P, {}) /\ InOrder(Q, {}) /\ Rising(Front, {}) /\ Rising(istream.data, {})
        /\ Rising(rx.packet, {}) /\ Rising(dataFifo, {})
    BY <1>1 DEF FlowInv, PiecesInv
  <2> HIDE DEF P, Q
  <2>5. A \in Seq(U) /\ InOrder(A, {}) /\ AllItems(A) = Stages[1] \cup Stages[2]
    <3>1. A \in Seq(U)
      <4> HIDE DEF U
      <4> QED
        BY <2>1
    <3>2. Ahead(AllItems(P), AllItems(Q), {})
      BY <2>3
    <3> QED
      BY <2>1, <2>3, <2>4, <3>1, <3>2, PiecesJoin
  <2> HIDE DEF A
  <2>6. B \in Seq(U) /\ InOrder(B, {}) /\ AllItems(B) = Stages[1] \cup Stages[2] \cup Stages[3]
    <3>1. B \in Seq(U)
      <4> HIDE DEF U
      <4> QED
        BY <2>1, <2>5
    <3>2. Ahead(AllItems(A), Items(Front), {})
      BY <2>3, <2>5 DEF Ahead
    <3> QED
      <4>1. AllItems(Append(A, Front)) = AllItems(A) \cup Items(Front)
        BY <2>1, <2>5, PieceAppend
      <4>2. InOrder(Append(A, Front), {})
        BY <2>1, <2>4, <2>5, <3>2, PieceAppend
      <4> QED
        BY <2>3, <2>5, <3>1, <4>1, <4>2
  <2> HIDE DEF B
  <2>7. C \in Seq(U) /\ InOrder(C, {})
        /\ AllItems(C) = Stages[1] \cup Stages[2] \cup Stages[3] \cup Stages[4]
    <3>1. C \in Seq(U)
      <4> HIDE DEF U
      <4> QED
        BY <2>1, <2>6
    <3>2. Ahead(AllItems(B), Items(istream.data), {})
      BY <2>3, <2>6 DEF Ahead
    <3> QED
      <4>1. AllItems(Append(B, istream.data)) = AllItems(B) \cup Items(istream.data)
        BY <2>1, <2>6, PieceAppend
      <4>2. InOrder(Append(B, istream.data), {})
        BY <2>1, <2>4, <2>6, <3>2, PieceAppend
      <4> QED
        BY <2>3, <2>6, <3>1, <4>1, <4>2
  <2> HIDE DEF C
  <2>8. D \in Seq(U) /\ InOrder(D, {})
        /\ AllItems(D) = Stages[1] \cup Stages[2] \cup Stages[3] \cup Stages[4] \cup Stages[5]
    <3>1. D \in Seq(U)
      <4> HIDE DEF U
      <4> QED
        BY <2>1, <2>7
    <3>2. Ahead(AllItems(C), Items(rx.packet), {})
      BY <2>3, <2>7 DEF Ahead
    <3> QED
      <4>1. AllItems(Append(C, rx.packet)) = AllItems(C) \cup Items(rx.packet)
        BY <2>1, <2>7, PieceAppend
      <4>2. InOrder(Append(C, rx.packet), {})
        BY <2>1, <2>4, <2>7, <3>2, PieceAppend
      <4> QED
        BY <2>3, <2>7, <3>1, <4>1, <4>2
  <2> HIDE DEF D
  <2>9. InOrder(E, {})
    <3>1. Ahead(AllItems(D), Items(dataFifo), {})
      BY <2>3, <2>8 DEF Ahead
    <3> QED
      BY <2>1, <2>4, <2>8, <3>1, PieceAppend
  <2> QED
    BY <2>2, <2>9 DEF BytesInOrder
<1>2. TypeInv /\ FlowInv => BytesInOrder
  BY <1>1
<1> QED
  BY <1>2, FlowInvariant, PTL


----------------------------------------------------------------------------
(* How many bytes the driver holds, whatever a purge discards meanwhile: the  *)
(* estimate of pending_iframes drifts below zero, and by no more than d.      *)

\* The sizes the driver can know: the lengths of the frames that have arrived
\* and, once a size too many was read, what such a read may answer.
Known == {FrameLengths[k] : k \in 1..wire.frame - 1} \cup (IF overread THEN DummySizes ELSE {})

SizesKnown ==
    /\ \A i \in 1..Len(sizeFifo) : sizeFifo[i] \in 1..wire.frame - 1
    /\ \A i \in 1..Len(responses) :
          responses[i].op = "BC_FIFO_L" => responses[i].value \in Known
    /\ \A i \in 1..Len(pending_iframes.frames) :
          pending_iframes.frames[i].frame_size \in Known

\* n is zero or less, or less than one of the sizes.
AtMost(n, sizes) == n <= 0 \/ \E length \in sizes : n <= length - 1

\* Before istream is added to the usage, after it, after the estimate of
\* pending_iframes, and after the packet was trimmed.
StreamBy(d) ==
    /\ rx.pc = "queued" => rx.usage = 0
    /\ rx.pc = "istream" => rx.usage + DataLength(istream) < WORD
    /\ rx.pc = "pending" => DataLength(istream) <= rx.usage /\ rx.usage < WORD
    /\ rx.pc = "trim" => DataLength(istream) <= rx.usage + d
    /\ rx.pc = "add" => DataLength(istream) + Len(rx.packet) <= InputCap + d
    /\ DataLength(istream) <= InputCap + d
    /\ 0 <= Drift /\ Drift <= d

HeldBy(d) ==
    LET limit == InputCap + d
    IN  /\ rx.pc \in {"istream", "pending"} => AtMost(Held - (rx.usage + limit), Known)
        /\ rx.pc = "trim" => AtMost(Held - (rx.usage + limit + d), Known)
        /\ rx.pc = "add" => AtMost(Held + Len(rx.packet) - 2 * limit, Known)
        /\ AtMost(Held - 2 * limit, Known)
        /\ AtMost(Len(Front), Known)

\* The counters of the driver do not wrap: it holds less than WORD bytes, and a
\* frame that could take all of istream would account for less.
CountersFit ==
    /\ Held < WORD
    /\ ~IsEmptyList(pending_iframes) =>
          DataLength(PeekFront(pending_iframes)) + PeekFront(pending_iframes).lost_bytes
             + DataLength(istream) < WORD

LEMMA NumberTypes ==
    ASSUME TypeInv
    PROVE  /\ DataLength(istream) \in Nat /\ Len(Front) \in Nat
           /\ queued_iframes.estimated_memory_usage \in Nat
           /\ pending_iframes.estimated_memory_usage \in Int
           /\ Drift \in Int /\ Drift = 0 - pending_iframes.estimated_memory_usage
           /\ Held = queued_iframes.estimated_memory_usage + DataLength(istream) + Len(Front)
           /\ Held \in Nat /\ rx \in RxStates /\ rx.usage \in Nat /\ Len(rx.packet) \in Nat
           /\ wire.frame \in 1..NFrames + 1
<1>1. istream.data \in Seq(Bytes) /\ Front \in Seq(Bytes) /\ rx.packet \in Seq(Bytes)
  BY FlowTypes
<1>2. queued_iframes.estimated_memory_usage \in Nat
  BY CountedFacts DEF TypeInv, BufferTypes
<1>3. pending_iframes.estimated_memory_usage \in Int
  BY DEF TypeInv, BufferTypes, Lists
<1>4. Held = queued_iframes.estimated_memory_usage + DataLength(istream) + Len(Front)
  BY DEF Held, Front, DataLength
<1>5. rx \in RxStates /\ wire.frame \in 1..NFrames + 1
  BY DEF TypeInv, ControlTypes, AdapterTypes
<1> QED
  BY <1>1, <1>2, <1>3, <1>4, <1>5 DEF DataLength, Drift, RxStates

LEMMA NumberTypesNext ==
    ASSUME TypeInv'
    PROVE  /\ DataLength(istream') \in Nat /\ Drift' \in Int /\ Held' \in Nat
           /\ wire'.frame \in 1..NFrames + 1
<1>1. istream'.data \in Seq(Bytes)
  BY DEF TypeInv, BufferTypes, Frames
<1>2. queued_iframes'.estimated_memory_usage \in Nat
  BY CountedFacts DEF TypeInv, BufferTypes
<1>3. pending_iframes'.estimated_memory_usage \in Int /\ wire'.frame \in 1..NFrames + 1
  BY DEF TypeInv, BufferTypes, AdapterTypes, Lists
<1>4. ~IsEmptyList(pending_iframes') => PeekFront(pending_iframes') \in Frames(Bytes)
  BY ListTypes DEF TypeInv, BufferTypes
<1>5. ~IsEmptyList(pending_iframes') => PeekFront(pending_iframes').data \in Seq(Bytes)
  BY <1>4 DEF Frames
<1> QED
  BY <1>1, <1>2, <1>3, <1>5 DEF DataLength, Drift, Held

LEMMA AtMostFacts ==
    ASSUME NEW n \in Int, NEW m \in Int, m <= n, NEW sizes, NEW more,
           sizes \subseteq more, more \subseteq Int, AtMost(n, sizes)
    PROVE  AtMost(m, more)
BY DEF AtMost

LEMMA KnownTypes ==
    ASSUME RxAssumption
    PROVE  /\ TypeInv => Known \subseteq Int
           /\ TypeInv' => Known' \subseteq Int
<1>1. \A k \in 1..NFrames : FrameLengths[k] \in Int
  BY DEF RxAssumption, NFrames
<1>2. NFrames \in Int /\ DummySizes \subseteq Int
  BY DEF RxAssumption, NFrames
<1>3. ASSUME TypeInv PROVE Known \subseteq Int
  <2>1. wire.frame \in 1..NFrames + 1
    BY <1>3 DEF TypeInv, AdapterTypes
  <2>2. 1..wire.frame - 1 \subseteq 1..NFrames
    BY <1>2, <2>1
  <2>3. {FrameLengths[k] : k \in 1..wire.frame - 1} \subseteq Int
    BY <1>1, <2>2
  <2> QED
    BY <1>2, <2>3 DEF Known
<1>4. ASSUME TypeInv' PROVE Known' \subseteq Int
  <2>1. wire'.frame \in 1..NFrames + 1
    BY <1>4 DEF TypeInv, AdapterTypes
  <2>2. 1..wire'.frame - 1 \subseteq 1..NFrames
    BY <1>2, <2>1
  <2>3. {FrameLengths[k] : k \in 1..wire'.frame - 1} \subseteq Int
    BY <1>1, <2>2
  <2> QED
    BY <1>2, <2>3 DEF Known
<1> QED
  BY <1>3, <1>4

\* The sizes known only grow.
LEMMA KnownGrows ==
    ASSUME RxAssumption, TypeInv, [Next]_vars
    PROVE  1..wire.frame - 1 \subseteq 1..wire'.frame - 1 /\ Known \subseteq Known'
<1>1. wire \in [frame : 1..NFrames + 1, bytes : Nat] /\ NFrames \in Nat /\ wire.frame \in Nat
  BY DEF TypeInv, AdapterTypes, RxAssumption, NFrames
<1>2. ASSUME wire'.frame \in {wire.frame, wire.frame + 1}, overread => overread'
      PROVE  1..wire.frame - 1 \subseteq 1..wire'.frame - 1 /\ Known \subseteq Known'
  <2>1. 1..wire.frame - 1 \subseteq 1..wire'.frame - 1
    BY <1>1, <1>2
  <2> QED
    BY <1>2, <2>1 DEF Known
<1>3. CASE WireByte \/ ExecuteReceiverReset
  <2>1. wire'.frame \in {wire.frame, wire.frame + 1}
    BY <1>1, <1>3 DEF WireByte, ExecuteReceiverReset
  <2>2. overread' = overread
    BY <1>3 DEF WireByte, ExecuteReceiverReset, registerVars
  <2> QED
    BY <1>2, <2>1, <2>2
<1>4. CASE ExecuteFrameSize
  BY <1>2, <1>4 DEF ExecuteFrameSize
<1>5. CASE ExecuteFrameCount \/ CompleteFrameCount \/ CompleteFrameSize \/ CompleteWithError \/ SendRead
  BY <1>2, <1>5 DEF ExecuteFrameCount, CompleteFrameCount, CompleteFrameSize, CompleteWithError,
                    SendRead, SendSizeRead, SendCountRead,
                    adapterVars
<1>6. CASE RxPacket \/ RxStep \/ Timer \/ IframeWorker
  BY <1>2, <1>6 DEF RxPacket, RxStep, RxUsageQueued, RxUsageStream, RxUsagePending, RxTrim, RxAdd,
                    RxUnchanged, Timer, IframeWorker, IframeStart, IframeLoop, IframeEnd,
                    adapterVars, registerVars
<1>7. CASE \/ SyncComEvtIoRead
           \/ \E d \in ReadDpcs : ReadStart(d) \/ SynccomProcessRead(d)
  BY <1>2, <1>7 DEF SyncComEvtIoRead, ReadStart, SynccomProcessRead, ReadCheck, ReadRetrieve,
                    StreamRead, FrameReadTake, FrameReadEnd, ReadUnchanged, adapterVars, registerVars
<1>8. CASE PurgeReset \/ PurgeStep
  BY <1>2, <1>8 DEF PurgeReset, PurgeStep, PurgeQueued, PurgeStream, PurgePending, PurgeCancel,
                    PurgeDrain, PurgeUnchanged, adapterVars
<1>9. CASE UNCHANGED vars
  BY <1>2, <1>9 DEF vars, adapterVars, registerVars
<1> QED
  BY <1>3, <1>4, <1>5, <1>6, <1>7, <1>8, <1>9 DEF Next, Adapter, RegisterCompletion

\* The frame that iframe_worker fills is not complete.
LEMMA FrontBound ==
    ASSUME RxAssumption, WordAssumption, TypeInv, CountersFit, SizesKnown,
           pending_iframes.frames # <<>>, NEW n, Taking(n), NEW frame \in Frames(Bytes),
           frame.data = Filled(n), ~Complete(frame),
           frame.frame_size = Head(pending_iframes.frames).frame_size,
           frame.lost_bytes = Head(pending_iframes.frames).lost_bytes
    PROVE  /\ Len(frame.data) = Len(Front) + n
           /\ AtMost(Len(frame.data), Known)
<1> DEFINE first == Head(pending_iframes.frames)
           B == Bytes
<1>1. /\ first \in Frames(B) /\ Front = first.data /\ first = pending_iframes.frames[1]
      /\ 1 \in 1..Len(pending_iframes.frames)
  <2>1. pending_iframes.frames \in Seq(Frames(B))
    BY FlowTypes
  <2> QED
    BY <2>1 DEF Front, IsEmptyList, PeekFront
<1>2. istream.data \in Seq(B) /\ first.data \in Seq(B)
  BY <1>1, FlowTypes
<1>3. n \in 0..Len(istream.data) /\ Len(istream.data) \in Nat /\ Len(first.data) \in Nat
  BY <1>2 DEF Taking
<1>4. Len(frame.data) = Len(first.data) + n
  <2>1. SubSeq(istream.data, 1, n) \in Seq(B) /\ Len(SubSeq(istream.data, 1, n)) = n
    <3> HIDE DEF B
    <3> QED
      BY <1>2, <1>3
  <2> HIDE DEF B, first
  <2> QED
    BY <1>2, <2>1 DEF Filled, first
<1>5. Len(first.data) + first.lost_bytes + Len(istream.data) < WORD
  BY DEF CountersFit, IsEmptyList, PeekFront, DataLength
<1>6. (Len(frame.data) + first.lost_bytes) % WORD < first.frame_size
  <2>1. ~((Len(frame.data) + first.lost_bytes) % WORD >= first.frame_size)
    BY DEF Complete, DataLength
  <2>2. first.frame_size \in Int /\ first.lost_bytes \in Nat /\ WORD \in Nat \ {0}
    BY <1>1, WordAssumption DEF Frames
  <2>3. Len(frame.data) \in Nat
    BY <1>3, <1>4
  <2> DEFINE x == (Len(frame.data) + first.lost_bytes) % WORD
  <2>4. x \in Int
    BY <2>2, <2>3
  <2> DEFINE z == first.frame_size
  <2>5. z \in Int /\ ~(x >= z)
    BY <2>1, <2>2
  <2> HIDE DEF x, z
  <2>6. x < z
    BY <2>4, <2>5
  <2> QED
    BY <2>6 DEF x, z
<1>7. Len(frame.data) < first.frame_size
  <2> DEFINE x == Len(frame.data)
             l == first.lost_bytes
             z == first.frame_size
             s == Len(istream.data)
             f == Len(first.data)
  <2>1. l \in Nat /\ z \in Nat /\ s \in Nat /\ f \in Nat /\ n \in Nat /\ n <= s /\ x = f + n
        /\ f + l + s < WORD /\ WORD \in Nat \ {0} /\ (x + l) % WORD < z
    BY <1>1, <1>3, <1>4, <1>5, <1>6, WordAssumption DEF Frames
  <2> HIDE DEF x, l, z, s, f
  <2>2. (x + l) % WORD = x + l
    <3>1. x + l \in Nat /\ x + l < WORD
      BY <2>1
    <3> QED
      BY <3>1, ModuloSmall
  <2>3. x < z
    BY <2>1, <2>2
  <2> QED
    BY <2>3 DEF x, z
<1>8. first.frame_size \in Known
  BY <1>1 DEF SizesKnown
<1>9. Len(frame.data) <= first.frame_size - 1
  <2> DEFINE x == Len(frame.data)
             z == first.frame_size
  <2>1. x \in Nat /\ z \in Nat /\ x < z
    BY <1>1, <1>3, <1>4, <1>7 DEF Frames
  <2> HIDE DEF x, z
  <2>2. x <= z - 1
    BY <2>1
  <2> QED
    BY <2>2 DEF x, z
<1> QED
  BY <1>1, <1>4, <1>8, <1>9 DEF AtMost

LEMMA KnownInit == ASSUME Init PROVE SizesKnown
BY DEF Init, SizesKnown, EmptyList

LEMMA KnownStep ==
    ASSUME RxAssumption, TypeInv, OthersEmpty, SizesKnown, [Next]_vars
    PROVE  SizesKnown'
<1> DEFINE P == pending_iframes.frames
           Q == pending_iframes'.frames
           R == responses
           top == wire.frame - 1
           T == Frames(Bytes)
<1>1. /\ P \in Seq(T) /\ sizeFifo \in Seq(1..NFrames) /\ R \in Seq(Completions)
      /\ wire.frame \in 1..NFrames + 1 /\ wire.bytes \in Nat
  BY FlowTypes DEF TypeInv, AdapterTypes, CommandTypes
<1>2. /\ \A i \in 1..Len(sizeFifo) : sizeFifo[i] \in 1..top
      /\ \A i \in 1..Len(R) : R[i].op = "BC_FIFO_L" => R[i].value \in Known
      /\ \A i \in 1..Len(P) : P[i].frame_size \in Known
      /\ 1..top \subseteq 1..wire'.frame - 1 /\ Known \subseteq Known'
  BY KnownGrows DEF SizesKnown
<1>3. ASSUME UNCHANGED <<wire, sizeFifo, responses, pending_iframes>> PROVE SizesKnown'
  BY <1>2, <1>3 DEF SizesKnown
<1>4. CASE WireByte
  <2>1. /\ wire'.frame \in {wire.frame, wire.frame + 1} /\ UNCHANGED <<responses, pending_iframes>>
        /\ sizeFifo' = sizeFifo
              \/ (wire'.frame = wire.frame + 1 /\ sizeFifo' = Append(sizeFifo, wire.frame))
    <3>1. wire \in [frame : 1..NFrames + 1, bytes : Nat]
      BY DEF TypeInv, AdapterTypes
    <3> QED
      BY <1>4, <3>1 DEF WireByte, bufferVars
  <2>2. \A i \in 1..Len(sizeFifo') : sizeFifo'[i] \in 1..wire'.frame - 1
    <3>1. CASE sizeFifo' = sizeFifo
      BY <1>2, <3>1
    <3>2. CASE sizeFifo' = Append(sizeFifo, wire.frame) /\ wire'.frame = wire.frame + 1
      <4>1. /\ Len(sizeFifo) \in Nat /\ Len(sizeFifo') = Len(sizeFifo) + 1
            /\ sizeFifo'[Len(sizeFifo) + 1] = wire.frame
            /\ \A i \in 1..Len(sizeFifo) : sizeFifo'[i] = sizeFifo[i]
        BY <1>1, <3>2
      <4>2. wire.frame \in 1..wire'.frame - 1
        BY <1>1, <3>2
      <4>3. \A i \in 1..Len(sizeFifo') : i \in 1..Len(sizeFifo) \/ i = Len(sizeFifo) + 1
        BY <4>1
      <4> QED
        BY <1>2, <4>1, <4>2, <4>3
    <3> QED
      BY <2>1, <3>1, <3>2
  <2> QED
    BY <1>2, <2>1, <2>2 DEF SizesKnown
<1>5. CASE ExecuteFrameSize
  <2>1. PICK value \in Known' :
           /\ responses' = Append(responses, [op |-> Head(pipe).op, value |-> value,
                                              nth |-> Head(pipe).nth])
           /\ sizeFifo' \in {sizeFifo, Tail(sizeFifo)} /\ (sizeFifo = <<>> => sizeFifo' = sizeFifo)
    <3>1. CASE sizeFifo = <<>>
      <4>1. PICK dummy \in DummySizes :
               responses' = Append(responses, [op |-> Head(pipe).op, value |-> dummy,
                                               nth |-> Head(pipe).nth])
        BY <1>5, <3>1 DEF ExecuteFrameSize, Respond
      <4>2. overread' /\ sizeFifo' = sizeFifo
        BY <1>5, <3>1 DEF ExecuteFrameSize
      <4>3. dummy \in Known'
        BY <4>2 DEF Known
      <4> QED
        BY <4>1, <4>2, <4>3
    <3>2. CASE sizeFifo # <<>>
      <4>1. /\ responses' = Append(responses, [op |-> Head(pipe).op,
                                               value |-> FrameLengths[Head(sizeFifo)],
                                               nth |-> Head(pipe).nth])
            /\ sizeFifo' = Tail(sizeFifo)
        BY <1>5, <3>2 DEF ExecuteFrameSize, Respond
      <4>2. Head(sizeFifo) = sizeFifo[1] /\ 1 \in 1..Len(sizeFifo)
        BY <1>1, <3>2
      <4>3. FrameLengths[Head(sizeFifo)] \in Known
        BY <1>2, <4>2 DEF Known
      <4> QED
        BY <1>2, <3>2, <4>1, <4>3
    <3> QED
      BY <3>1, <3>2
  <2>2. pending_iframes' = pending_iframes
    BY <1>5 DEF ExecuteFrameSize, bufferVars
  <2> DEFINE r == [op |-> Head(pipe).op, value |-> value, nth |-> Head(pipe).nth]
  <2>3. r.value = value /\ responses' = Append(responses, r)
    BY <2>1
  <2> HIDE DEF r
  <2>4. /\ Len(R) \in Nat /\ Len(responses') = Len(R) + 1
        /\ responses'[Len(R) + 1] = r /\ \A i \in 1..Len(R) : responses'[i] = R[i]
    BY <1>1, <2>3
  <2>5. \A i \in 1..Len(responses') :
           responses'[i].op = "BC_FIFO_L" => responses'[i].value \in Known'
    <3>1. \A i \in 1..Len(responses') : i \in 1..Len(R) \/ i = Len(R) + 1
      BY <2>4
    <3> QED
      BY <1>2, <2>3, <2>4, <3>1
  <2>6. \A i \in 1..Len(sizeFifo') : sizeFifo'[i] \in 1..top
    <3>1. CASE sizeFifo' = sizeFifo
      BY <1>2, <3>1
    <3>2. CASE sizeFifo' = Tail(sizeFifo) /\ sizeFifo # <<>>
      <4>1. Len(sizeFifo) \in Nat /\ Len(sizeFifo') = Len(sizeFifo) - 1
            /\ \A i \in 1..Len(sizeFifo') : sizeFifo'[i] = sizeFifo[i + 1]
        BY <1>1, <3>2
      <4>2. \A i \in 1..Len(sizeFifo') : i + 1 \in 1..Len(sizeFifo)
        BY <4>1
      <4> QED
        BY <1>2, <4>1, <4>2
    <3> QED
      BY <2>1, <3>1, <3>2
  <2> QED
    BY <1>2, <2>2, <2>5, <2>6 DEF SizesKnown
<1>6. CASE ExecuteFrameCount
  <2>1. /\ UNCHANGED <<wire, sizeFifo, pending_iframes>>
        /\ Head(pipe).op = "FIFO_FC"
        /\ responses' = Append(responses, [op |-> "FIFO_FC", value |-> Len(sizeFifo),
                                           nth |-> Head(pipe).nth])
    BY <1>6 DEF ExecuteFrameCount, Executing, Respond, adapterVars, bufferVars
  <2> DEFINE r == [op |-> "FIFO_FC", value |-> Len(sizeFifo), nth |-> Head(pipe).nth]
  <2>2. r.op # "BC_FIFO_L" /\ responses' = Append(responses, r)
    BY <2>1
  <2> HIDE DEF r
  <2>3. /\ Len(R) \in Nat /\ Len(responses') = Len(R) + 1
        /\ responses'[Len(R) + 1] = r /\ \A i \in 1..Len(R) : responses'[i] = R[i]
    BY <1>1, <2>2
  <2>4. \A i \in 1..Len(responses') : i \in 1..Len(R) \/ i = Len(R) + 1
    BY <2>3
  <2> QED
    BY <1>2, <2>1, <2>2, <2>3, <2>4 DEF SizesKnown
<1>7. ASSUME responses # <<>>, responses' = Tail(responses)
      PROVE  \A i \in 1..Len(responses') :
                responses'[i].op = "BC_FIFO_L" => responses'[i].value \in Known'
  <2>1. /\ Len(R) \in Nat /\ Len(responses') = Len(R) - 1
        /\ \A i \in 1..Len(responses') : responses'[i] = R[i + 1]
    BY <1>1, <1>7
  <2>2. \A i \in 1..Len(responses') : i + 1 \in 1..Len(R)
    BY <2>1
  <2> QED
    BY <1>2, <2>1, <2>2
<1>8. CASE ExecuteReceiverReset
  <2>1. sizeFifo' = <<>> /\ UNCHANGED <<responses, pending_iframes>>
    BY <1>8 DEF ExecuteReceiverReset, bufferVars
  <2>2. Len(<<>>) = 0
    OBVIOUS
  <2> QED
    BY <1>2, <2>1, <2>2 DEF SizesKnown
<1>9. CASE CompleteFrameCount \/ CompleteWithError
  <2>1. /\ UNCHANGED <<wire, sizeFifo, pending_iframes>>
        /\ responses # <<>> /\ responses' = Tail(responses)
    BY <1>9 DEF CompleteFrameCount, CompleteWithError, Completing, adapterVars, bufferVars
  <2> QED
    BY <1>2, <1>7, <2>1 DEF SizesKnown
<1>10. CASE CompleteFrameSize
  <2>1. /\ UNCHANGED <<wire, sizeFifo>> /\ responses # <<>> /\ responses' = Tail(responses)
        /\ Head(responses).op = "BC_FIFO_L"
    BY <1>10 DEF CompleteFrameSize, Completing, adapterVars
  <2>2. Head(responses).value \in Known
    <3>1. Head(R) = R[1] /\ 1 \in 1..Len(R)
      BY <1>1, <2>1
    <3> QED
      BY <1>2, <2>1, <3>1
  <2>3. \A i \in 1..Len(Q) : Q[i].frame_size \in Known
    <3>1. CASE Q = P
      BY <1>2, <3>1
    <3>2. ASSUME NEW frame \in T, frame.frame_size = Head(responses).value, Q = Append(P, frame)
          PROVE  \A i \in 1..Len(Q) : Q[i].frame_size \in Known
      <4> HIDE DEF P, Q, T
      <4>1. /\ Len(P) \in Nat /\ Len(Q) = Len(P) + 1 /\ Q[Len(P) + 1] = frame
            /\ \A i \in 1..Len(P) : Q[i] = P[i]
        BY <1>1, <3>2
      <4>2. \A i \in 1..Len(Q) : i \in 1..Len(P) \/ i = Len(P) + 1
        BY <4>1
      <4> QED
        BY <1>2, <2>2, <3>2, <4>1, <4>2
    <3> QED
      BY <1>10, <3>1, <3>2, OpenFront
  <2> QED
    BY <1>2, <1>7, <2>1, <2>3 DEF SizesKnown
<1>11. CASE IframeLoop
  <2>1. UNCHANGED <<wire, sizeFifo, responses>>
    BY <1>11 DEF IframeLoop, adapterVars, registerVars
  <2>2. /\ P # <<>>
        /\ Q = Tail(P) \/ \E frame \in T : /\ Q = [P EXCEPT ![1] = frame]
                                           /\ frame.frame_size = Head(P).frame_size
    <3>1. BufferTypes
      BY DEF TypeInv
    <3>2. P # <<>> /\ (Skipping \/ \E n : Taking(n) /\ (Finishing(n) \/ Filling(n)))
      BY <1>11, <3>1, LoopFacts
    <3>3. Skipping => Q = Tail(P)
      BY DEF Skipping, RemoveFrame
    <3>4. ASSUME NEW n, Finishing(n) PROVE Q = Tail(P)
      BY <3>4 DEF Finishing
    <3>5. ASSUME NEW n, Filling(n)
          PROVE  \E frame \in T : /\ Q = [P EXCEPT ![1] = frame]
                                  /\ frame.frame_size = Head(P).frame_size
      BY <3>5 DEF Filling
    <3> HIDE DEF P, Q, T
    <3> QED
      BY <3>2, <3>3, <3>4, <3>5
  <2>3. \A i \in 1..Len(Q) : Q[i].frame_size \in Known
    <3> HIDE DEF P, Q, T
    <3>1. CASE Q = Tail(P)
      <4>1. /\ Len(P) \in Nat /\ Len(Q) = Len(P) - 1 /\ \A i \in 1..Len(Q) : Q[i] = P[i + 1]
        BY <1>1, <2>2, <3>1
      <4>2. \A i \in 1..Len(Q) : i + 1 \in 1..Len(P)
        BY <4>1
      <4> QED
        BY <1>2, <4>1, <4>2
    <3>2. CASE Q # Tail(P)
      <4>1. PICK frame \in T : Q = [P EXCEPT ![1] = frame] /\ frame.frame_size = Head(P).frame_size
        BY <2>2, <3>2
      <4>2. Len(P) \in Nat /\ Len(P) >= 1 /\ Head(P) = P[1] /\ Len(Q) = Len(P)
        BY <1>1, <2>2, <4>1
      <4>3. Q[1] = frame /\ \A i \in 1..Len(P) : i # 1 => Q[i] = P[i]
        BY <1>1, <4>1, <4>2
      <4> QED
        BY <1>2, <4>1, <4>2, <4>3
    <3> QED
      BY <3>1, <3>2
  <2> QED
    BY <1>2, <2>1, <2>3 DEF SizesKnown
<1>12. CASE RxTrim
  <2>1. UNCHANGED <<wire, sizeFifo, responses>>
    BY <1>12 DEF RxTrim, RxUnchanged, adapterVars, registerVars
  <2>2. /\ Len(Q) = Len(P) /\ \A i \in 1..Len(P) : Q[i].frame_size = P[i].frame_size
    BY <1>12, TrimFront
  <2> QED
    BY <1>2, <2>1, <2>2 DEF SizesKnown
<1>13. CASE RxPacket \/ RxUsageQueued \/ RxUsageStream \/ RxUsagePending \/ RxAdd
  BY <1>3, <1>13 DEF RxPacket, RxUsageQueued, RxUsageStream, RxUsagePending, RxAdd, RxUnchanged,
                     adapterVars, registerVars, bufferVars
<1>14. CASE Timer \/ IframeStart \/ IframeEnd \/ PurgeReset \/ PurgeQueued \/ PurgeStream
           \/ PurgeCancel \/ PurgeDrain
  BY <1>3, <1>14 DEF Timer, IframeStart, IframeEnd, PurgeReset, PurgeQueued, PurgeStream,
                     PurgeCancel, PurgeDrain, PurgeUnchanged, adapterVars, registerVars, bufferVars
<1>15. CASE \/ SyncComEvtIoRead
            \/ \E d \in ReadDpcs : ReadStart(d) \/ ReadCheck(d) \/ ReadRetrieve(d) \/ StreamRead(d)
                                   \/ FrameReadTake(d) \/ FrameReadEnd(d)
  BY <1>3, <1>15 DEF SyncComEvtIoRead, ReadStart, ReadCheck, ReadRetrieve, StreamRead,
                     FrameReadTake, FrameReadEnd, ReadUnchanged, adapterVars, registerVars
<1>16. CASE PurgePending
  <2>1. UNCHANGED <<wire, sizeFifo, responses>> /\ Q = <<>>
    BY <1>16 DEF PurgePending, PurgeUnchanged, adapterVars, EmptyList
  <2>2. Len(Q) = 0
    BY <2>1
  <2>3. \A i \in 1..Len(Q) : Q[i].frame_size \in Known'
    BY <2>2
  <2> HIDE DEF Q
  <2> QED
    BY <1>2, <2>1, <2>3 DEF SizesKnown, Q
<1>17. CASE SendRead \/ UNCHANGED vars
  BY <1>3, <1>17 DEF SendRead, SendSizeRead, SendCountRead, vars, adapterVars, registerVars,
                     bufferVars
<1> QED
  BY <1>4, <1>5, <1>6, <1>8, <1>9, <1>10, <1>11, <1>12, <1>13, <1>14, <1>15, <1>16, <1>17
  DEF Next, Adapter, RegisterCompletion, RxStep, IframeWorker, SynccomProcessRead, PurgeStep

\* A step that leaves the packet and its sum alone and moves bytes on towards
\* the reads, or away.
LEMMA CalmKeeps ==
    ASSUME RxAssumption, TypeInv, TypeInv', NEW d \in Int, NEW e \in Int, d <= e, StreamBy(d),
           rx' = rx, DataLength(istream') <= DataLength(istream), 0 <= Drift', Drift' <= e
    PROVE  /\ StreamBy(e)'
           /\ HeldBy(d) /\ Held' <= Held /\ Known \subseteq Known'
                 /\ AtMost(Len(Front'), Known') => HeldBy(e)'
<1> DEFINE S == DataLength(istream)
           D == d
           H == Held
           W == Known
           S2 == DataLength(istream')
           D2 == e
           H2 == Held'
           W2 == Known'
           u == rx.usage
           P == Len(rx.packet)
<1>1. /\ S \in Nat /\ D \in Int /\ H \in Nat /\ u \in Nat /\ P \in Nat
      /\ InputCap \in Nat /\ WORD \in Nat
  BY NumberTypes, WordAssumption DEF RxAssumption
<1>2. S2 \in Nat /\ D2 \in Int /\ H2 \in Nat /\ W2 \subseteq Int
  BY NumberTypesNext, KnownTypes
<1>3. S2 <= S /\ D <= D2
  OBVIOUS
<1>4. /\ rx.pc = "queued" => u = 0
      /\ rx.pc = "istream" => u + S < WORD
      /\ rx.pc = "pending" => S <= u /\ u < WORD
      /\ rx.pc = "trim" => S <= u + D
      /\ rx.pc = "add" => S + P <= InputCap + D
      /\ S <= InputCap + D
  BY DEF StreamBy
<1>5. StreamBy(e)'
  <2> HIDE DEF S, D, S2, D2, u, P
  <2>1. /\ rx.pc = "queued" => u = 0
        /\ rx.pc = "istream" => u + S2 < WORD
        /\ rx.pc = "pending" => S2 <= u /\ u < WORD
        /\ rx.pc = "trim" => S2 <= u + D2
        /\ rx.pc = "add" => S2 + P <= InputCap + D2
        /\ S2 <= InputCap + D2
    BY <1>1, <1>2, <1>3, <1>4
  <2> QED
    BY <2>1 DEF StreamBy, S2, D2, u, P
<1>6. ASSUME HeldBy(d), H2 <= H, W \subseteq W2, AtMost(Len(Front'), W2) PROVE HeldBy(e)'
  <2>1. /\ rx.pc \in {"istream", "pending"} => AtMost(H - (u + (InputCap + D)), W)
        /\ rx.pc = "trim" => AtMost(H - (u + (InputCap + D) + D), W)
        /\ rx.pc = "add" => AtMost(H + P - 2 * (InputCap + D), W)
        /\ AtMost(H - 2 * (InputCap + D), W)
    BY <1>6 DEF HeldBy
  <2>2. ASSUME NEW a \in Int, NEW b \in Int, b <= a, AtMost(a, W) PROVE AtMost(b, W2)
    <3> HIDE DEF W, W2
    <3> QED
      BY <1>2, <1>6, <2>2, AtMostFacts
  <2> HIDE DEF S, D, H, W, S2, D2, H2, W2, u, P
  <2>3. /\ rx.pc \in {"istream", "pending"} => AtMost(H2 - (u + (InputCap + D2)), W2)
        /\ rx.pc = "trim" => AtMost(H2 - (u + (InputCap + D2) + D2), W2)
        /\ rx.pc = "add" => AtMost(H2 + P - 2 * (InputCap + D2), W2)
        /\ AtMost(H2 - 2 * (InputCap + D2), W2)
    <3>1. /\ H2 - (u + (InputCap + D2)) <= H - (u + (InputCap + D))
          /\ H2 - (u + (InputCap + D2) + D2) <= H - (u + (InputCap + D) + D)
          /\ H2 + P - 2 * (InputCap + D2) <= H + P - 2 * (InputCap + D)
          /\ H2 - 2 * (InputCap + D2) <= H - 2 * (InputCap + D)
      BY <1>1, <1>2, <1>3, <1>6
    <3>2. /\ H2 - (u + (InputCap + D2)) \in Int /\ H - (u + (InputCap + D)) \in Int
          /\ H2 - (u + (InputCap + D2) + D2) \in Int /\ H - (u + (InputCap + D) + D) \in Int
          /\ H2 + P - 2 * (InputCap + D2) \in Int /\ H + P - 2 * (InputCap + D) \in Int
          /\ H2 - 2 * (InputCap + D2) \in Int /\ H - 2 * (InputCap + D) \in Int
      BY <1>1, <1>2
    <3>3. rx.pc \in {"istream", "pending"} => AtMost(H2 - (u + (InputCap + D2)), W2)
      BY <2>1, <2>2, <3>1, <3>2
    <3>4. rx.pc = "trim" => AtMost(H2 - (u + (InputCap + D2) + D2), W2)
      BY <2>1, <2>2, <3>1, <3>2
    <3>5. rx.pc = "add" => AtMost(H2 + P - 2 * (InputCap + D2), W2)
      BY <2>1, <2>2, <3>1, <3>2
    <3>6. AtMost(H2 - 2 * (InputCap + D2), W2)
      BY <2>1, <2>2, <3>1, <3>2
    <3> QED
      BY <3>3, <3>4, <3>5, <3>6
  <2> QED
    BY <1>6, <2>3 DEF HeldBy, D2, H2, W2, u, P
<1> QED
  BY <1>5, <1>6

\* iframe_worker.
LEMMA LoopKeeps ==
    ASSUME RxAssumption, WordAssumption, TypeInv, TypeInv', OthersEmpty, IframeLoop,
           NEW d \in Int, NEW e \in Int, d <= e, StreamBy(d)
    PROVE  /\ Drift <= Drift'
           /\ Drift' <= e => StreamBy(e)'
           /\ Drift' <= e /\ HeldBy(d) /\ SizesKnown /\ CountersFit => HeldBy(e)'
<1> DEFINE S == DataLength(istream)
           E == pending_iframes.estimated_memory_usage
           Q == queued_iframes.estimated_memory_usage
           F == Len(Front)
           S2 == DataLength(istream')
           E2 == pending_iframes'.estimated_memory_usage
           Q2 == queued_iframes'.estimated_memory_usage
           F2 == Len(Front')
           P == pending_iframes.frames
<1>1. /\ S \in Nat /\ F \in Nat /\ Q \in Nat /\ E \in Int /\ Held = Q + S + F
      /\ Drift = 0 - E
  BY NumberTypes
<1>2. Held' = Q2 + S2 + F2 /\ Drift' = 0 - E2
  BY DEF Held, Front, DataLength, Drift
<1>3. rx' = rx /\ Known' = Known
  BY DEF IframeLoop, adapterVars, registerVars, Known
<1>4. /\ P # <<>> /\ P \in Seq(Frames(Bytes)) /\ Front = Head(P).data
      /\ Skipping \/ \E n : Taking(n) /\ (Finishing(n) \/ Filling(n))
  BY LoopFacts DEF TypeInv, Front, IsEmptyList, PeekFront
<1>5. ASSUME NEW n, Taking(n)
      PROVE  n \in Nat /\ S2 + n = S /\ Len(Filled(n)) = F + n /\ Filled(n) \in Seq(Bytes)
  <2>1. istream.data \in Seq(Bytes) /\ Front \in Seq(Bytes)
    BY FlowTypes
  <2> DEFINE front == SubSeq(istream.data, 1, n)
             rest == SubSeq(istream.data, n + 1, Len(istream.data))
             B == Bytes
  <2>2. n \in Nat /\ n <= Len(istream.data) /\ istream'.data = rest
    BY <1>5 DEF Taking
  <2>3. front \in Seq(B) /\ Len(front) = n /\ Len(rest) = Len(istream.data) - n
    <3> DEFINE q == istream.data
    <3>1. q \in Seq(B) /\ n \in Nat /\ n <= Len(q)
      BY <2>1, <2>2
    <3> HIDE DEF B, q
    <3>2. SubSeq(q, 1, n) \in Seq(B)
      BY <3>1
    <3>3. Len(SubSeq(q, 1, n)) = n /\ Len(SubSeq(q, n + 1, Len(q))) = Len(q) - n
      BY <3>1
    <3> QED
      BY <3>2, <3>3 DEF q
  <2>4. Filled(n) = Front \o front
    BY <1>4 DEF Filled
  <2>5. Len(Filled(n)) = Len(Front) + n /\ Filled(n) \in Seq(B)
    <3> DEFINE f == Front
    <3>1. f \in Seq(B) /\ front \in Seq(B) /\ Len(front) = n
      BY <2>1, <2>3
    <3> HIDE DEF f, front, B
    <3>2. Len(f \o front) = Len(f) + Len(front) /\ f \o front \in Seq(B)
      BY <3>1, ConcatLength
    <3> QED
      BY <2>4, <3>1, <3>2 DEF f
  <2> HIDE DEF front, rest, B
  <2>6. Len(rest) + n = Len(istream.data)
    BY <2>1, <2>2, <2>3
  <2> QED
    BY <2>2, <2>5, <2>6 DEF DataLength, B
<1>6. ASSUME Skipping PROVE S2 = S /\ Q2 = Q /\ F2 = 0 /\ E2 = E - F
  <2>1. /\ istream' = istream /\ queued_iframes' = queued_iframes
        /\ pending_iframes'.frames = Tail(P) /\ E2 = E - DataLength(PeekFront(pending_iframes))
    BY <1>6 DEF Skipping, RemoveFrame
  <2>2. Front' = <<>>
    BY <1>4, <2>1, TailFront
  <2> QED
    BY <1>4, <2>1, <2>2 DEF DataLength, PeekFront
<1>7. ASSUME NEW n, Taking(n), Finishing(n)
      PROVE  \E m \in Nat : m <= F + n /\ Q2 = Q + m /\ E2 + ((F + n) - m) = E /\ F2 = 0
  <2>1. PICK m \in Nat :
           \E done \in Frames(Bytes) :
              /\ m <= Len(Filled(n)) /\ done.data = SubSeq(Filled(n), 1, m)
              /\ queued_iframes' = AddFrame(queued_iframes, done)
              /\ E2 + (Len(Filled(n)) - m) = E
    BY <1>7, Zenon DEF Finishing
  <2>2. PICK done \in Frames(Bytes) :
              /\ m <= Len(Filled(n)) /\ done.data = SubSeq(Filled(n), 1, m)
              /\ queued_iframes' = AddFrame(queued_iframes, done)
              /\ E2 + (Len(Filled(n)) - m) = E
    BY <2>1
  <2>3. Len(done.data) = m
    <3> DEFINE filled == Filled(n)
               B == Bytes
    <3>1. filled \in Seq(B) /\ m \in Nat /\ m <= Len(filled) /\ done.data = SubSeq(filled, 1, m)
      BY <1>5, <1>7, <2>2
    <3> HIDE DEF filled, B
    <3> QED
      BY <3>1
  <2>4. Q2 = Q + m
    BY <2>2, <2>3 DEF AddFrame, DataLength
  <2>5. Front' = <<>>
    BY <1>4, <1>7, TailFront DEF Finishing
  <2>6. Len(Filled(n)) = F + n
    BY <1>5, <1>7
  <2> QED
    BY <2>2, <2>4, <2>5, <2>6
<1>8. ASSUME NEW n, Taking(n), Filling(n)
      PROVE  /\ Q2 = Q /\ E2 = E /\ F2 = F + n
             /\ SizesKnown /\ CountersFit => AtMost(F2, Known)
  <2>1. PICK frame \in Frames(Bytes) :
            /\ pending_iframes'.frames = [P EXCEPT ![1] = frame]
            /\ frame.data = Filled(n) /\ ~Complete(frame)
            /\ frame.frame_size = Head(P).frame_size
            /\ frame.lost_bytes = Head(P).lost_bytes
    BY <1>8 DEF Filling
  <2>2. Front' = frame.data
    BY <1>4, <2>1, FillFront
  <2>3. Len(Filled(n)) = F + n
    BY <1>5, <1>8
  <2>4. SizesKnown /\ CountersFit => AtMost(Len(frame.data), Known)
    BY <1>4, <1>8, <2>1, FrontBound
  <2> QED
    BY <1>8, <2>1, <2>2, <2>3, <2>4 DEF Filling
<1>9. AtMost(0, Known)
  BY DEF AtMost
<1>10. /\ S2 <= S /\ Drift <= Drift' /\ Held' <= Held
       /\ SizesKnown /\ CountersFit => AtMost(F2, Known)
  <2> HIDE DEF S, E, Q, F, S2, E2, Q2, F2
  <2>1. CASE Skipping
    BY <1>1, <1>2, <1>6, <1>9, <2>1
  <2>2. ASSUME NEW n, Taking(n), Finishing(n)
        PROVE  /\ S2 <= S /\ Drift <= Drift' /\ Held' <= Held
               /\ AtMost(F2, Known)
    <3>1. n \in Nat /\ S2 + n = S
      BY <1>5, <2>2
    <3>2. PICK m \in Nat : m <= F + n /\ Q2 = Q + m /\ E2 + ((F + n) - m) = E /\ F2 = 0
      BY <1>7, <2>2
    <3>3. S2 \in Int /\ E2 \in Int
      BY NumberTypesNext, <1>2 DEF S2, E2, TypeInv, BufferTypes, Lists
    <3>4. S2 <= S /\ 0 - E <= 0 - E2 /\ Q2 + S2 + F2 <= Q + S + F
      BY <1>1, <3>1, <3>2, <3>3
    <3> QED
      BY <1>1, <1>2, <1>9, <3>2, <3>4
  <2>3. ASSUME NEW n, Taking(n), Filling(n)
        PROVE  /\ S2 <= S /\ Drift <= Drift' /\ Held' <= Held
               /\ SizesKnown /\ CountersFit => AtMost(F2, Known)
    <3>1. n \in Nat /\ S2 + n = S
      BY <1>5, <2>3
    <3>2. /\ Q2 = Q /\ E2 = E /\ F2 = F + n
          /\ SizesKnown /\ CountersFit => AtMost(F2, Known)
      BY <1>8, <2>3
    <3>3. S2 \in Int
      BY NumberTypesNext DEF S2
    <3>4. S2 <= S /\ Q2 + S2 + F2 <= Q + S + F
      BY <1>1, <3>1, <3>2, <3>3
    <3> QED
      BY <1>1, <1>2, <3>2, <3>4
  <2> QED
    BY <1>4, <2>1, <2>2, <2>3
<1>11. 0 <= Drift'
  <2>1. 0 <= Drift /\ Drift \in Int /\ Drift' \in Int
    BY NumberTypes, NumberTypesNext DEF StreamBy
  <2> QED
    BY <1>10, <2>1
<1> QED
  BY <1>3, <1>10, <1>11, CalmKeeps

\* port_received_data: the packet, and the three readings of its sum.
LEMMA SumKeeps ==
    ASSUME RxAssumption, WordAssumption, TypeInv, NEW d \in Int, StreamBy(d), Held < WORD,
           RxPacket \/ RxUsageQueued \/ RxUsageStream \/ RxUsagePending
    PROVE  StreamBy(d)' /\ (HeldBy(d) => HeldBy(d)')
<1> DEFINE S == DataLength(istream)
           D == d
           E == pending_iframes.estimated_memory_usage
           Q == queued_iframes.estimated_memory_usage
           F == Len(Front)
           H == Held
           W == Known
           u == rx.usage
           C == InputCap
<1>1. /\ S \in Nat /\ D \in Int /\ H \in Nat /\ u \in Nat /\ Q \in Nat /\ F \in Nat /\ C \in Nat
      /\ E \in Int /\ H = Q + S + F /\ 0 <= 0 - E /\ 0 - E <= D /\ WORD \in Nat /\ H < WORD
  BY NumberTypes, WordAssumption DEF RxAssumption, StreamBy
<1>2. W \subseteq Int
  BY KnownTypes
<1>3. /\ DataLength(istream') = S /\ Drift' = Drift /\ Held' = H /\ Front' = Front
      /\ Known' = Known
  <2>1. UNCHANGED <<istream, pending_iframes, queued_iframes, wire, overread>>
    BY DEF RxPacket, RxUsageQueued, RxUsageStream, RxUsagePending, RxUnchanged, adapterVars,
           bufferVars, registerVars
  <2> QED
    BY <2>1 DEF Held, Front, Drift, Known
<1>4. S <= C + D /\ 0 <= Drift /\ Drift <= D
  BY DEF StreamBy
<1>5. HeldBy(d) => AtMost(H - 2 * (C + D), W) /\ AtMost(F, W)
  BY DEF HeldBy
<1>6. ASSUME NEW a \in Int, NEW b \in Int, b <= a, AtMost(a, W) PROVE AtMost(b, W)
  <2> HIDE DEF W
  <2> QED
    BY <1>2, <1>6, AtMostFacts
<1>7. rx \in RxStates
  BY NumberTypes
<1>8. CASE RxPacket
  <2>1. rx'.pc = "queued" /\ rx'.usage = 0
    BY <1>8 DEF RxPacket, IdleRx
  <2> QED
    BY <1>3, <1>4, <1>5, <2>1 DEF StreamBy, HeldBy
<1>9. CASE RxUsageQueued
  <2>1. rx'.pc = "istream" /\ rx'.usage = (u + Q) % WORD /\ u = 0
    BY <1>7, <1>9 DEF RxUsageQueued, AddUsage, RxStates, StreamBy
  <2>2. rx'.usage = Q
    <3> HIDE DEF S, Q, F, H, u
    <3>1. u + Q = Q /\ Q < WORD
      BY <1>1, <2>1
    <3> QED
      BY <1>1, <2>1, <3>1, ModuloSmall
  <2>3. Q + S < WORD
    <3> HIDE DEF S, Q, F, H
    <3> QED
      BY <1>1
  <2>4. StreamBy(d)'
    BY <1>3, <1>4, <2>1, <2>2, <2>3 DEF StreamBy
  <2>5. HeldBy(d) => AtMost(H - (Q + (C + D)), W)
    <3>1. H - (Q + (C + D)) \in Int /\ H - (Q + (C + D)) <= F
      <4> HIDE DEF S, D, E, Q, F, H, u, C
      <4> QED
        BY <1>1, <1>4
    <3> HIDE DEF S, Q, F, H, C, D, W
    <3> QED
      BY <1>1, <1>5, <1>6, <3>1
  <2>6. HeldBy(d) => HeldBy(d)'
    BY <1>3, <1>5, <2>1, <2>2, <2>5 DEF HeldBy
  <2> QED
    BY <2>4, <2>6
<1>10. CASE RxUsageStream
  <2>1. rx.pc = "istream" /\ rx'.pc = "pending" /\ rx'.usage = (u + S) % WORD
    BY <1>7, <1>10 DEF RxUsageStream, AddUsage, RxStates
  <2>2. u + S < WORD
    BY <2>1 DEF StreamBy
  <2>3. rx'.usage = u + S
    <3> HIDE DEF S, u
    <3>1. u + S \in Nat
      BY <1>1
    <3> QED
      BY <2>1, <2>2, <3>1, ModuloSmall
  <2>4. S <= u + S
    <3> HIDE DEF S, u
    <3> QED
      BY <1>1
  <2>5. StreamBy(d)'
    BY <1>3, <1>4, <2>1, <2>2, <2>3, <2>4 DEF StreamBy
  <2>6. HeldBy(d) => AtMost(H - ((u + S) + (C + D)), W)
    <3>1. HeldBy(d) => AtMost(H - (u + (C + D)), W)
      BY <2>1 DEF HeldBy
    <3>2. /\ H - (u + (C + D)) \in Int /\ H - ((u + S) + (C + D)) \in Int
          /\ H - ((u + S) + (C + D)) <= H - (u + (C + D))
      <4> HIDE DEF S, D, E, Q, F, H, u, C
      <4> QED
        BY <1>1
    <3> HIDE DEF S, H, C, D, W, u
    <3> QED
      BY <1>6, <3>1, <3>2
  <2>7. HeldBy(d) => HeldBy(d)'
    BY <1>3, <1>5, <2>1, <2>3, <2>6 DEF HeldBy
  <2> QED
    BY <2>5, <2>7
<1>11. CASE RxUsagePending
  <2> DEFINE v == rx'.usage
  <2>1. rx.pc = "pending" /\ rx'.pc = "trim" /\ v = (u + E) % WORD
    BY <1>7, <1>11 DEF RxUsagePending, AddUsage, RxStates
  <2>2. S <= u /\ u < WORD
    BY <2>1 DEF StreamBy
  <2>3. v \in Nat /\ u <= v + D
    <3> HIDE DEF S, u, D, E, v
    <3>1. u + E \in Int /\ u + E < WORD
      BY <1>1, <2>2
    <3>2. v \in Nat /\ u + E <= v
      BY <2>1, <3>1, ModuloAbove
    <3> QED
      BY <1>1, <3>2
  <2>4. S <= v + D
    <3> HIDE DEF S, u, D, v
    <3> QED
      BY <1>1, <2>2, <2>3
  <2>5. StreamBy(d)'
    BY <1>3, <1>4, <2>1, <2>4 DEF StreamBy
  <2>6. HeldBy(d) => AtMost(H - (v + (C + D) + D), W)
    <3>1. HeldBy(d) => AtMost(H - (u + (C + D)), W)
      BY <2>1 DEF HeldBy
    <3>2. /\ H - (u + (C + D)) \in Int /\ H - (v + (C + D) + D) \in Int
          /\ H - (v + (C + D) + D) <= H - (u + (C + D))
      <4> HIDE DEF S, D, E, Q, F, H, u, C, v
      <4> QED
        BY <1>1, <2>3
    <3> HIDE DEF H, C, D, W, u, v
    <3> QED
      BY <1>6, <3>1, <3>2
  <2>7. HeldBy(d) => HeldBy(d)'
    BY <1>3, <1>5, <2>1, <2>6 DEF HeldBy
  <2> QED
    BY <2>5, <2>7
<1> QED
  BY <1>8, <1>9, <1>10, <1>11

\* ... the trimming of the packet ...
LEMMA TrimKeeps ==
    ASSUME RxAssumption, TypeInv, OthersEmpty, NEW d \in Int, StreamBy(d), RxTrim
    PROVE  StreamBy(d)' /\ (HeldBy(d) => HeldBy(d)')
<1> DEFINE S == DataLength(istream)
           D == d
           H == Held
           W == Known
           u == rx.usage
           C == InputCap
           size == Len(rx.packet)
           kept == Kept(size)
<1>1. /\ S \in Nat /\ D \in Int /\ H \in Nat /\ u \in Nat /\ C \in Nat /\ size \in Nat
  BY NumberTypes DEF RxAssumption
<1>2. W \subseteq Int
  BY KnownTypes
<1>3. Front' = Front /\ pending_iframes'.estimated_memory_usage = pending_iframes.estimated_memory_usage
  BY TrimFront
<1>4. UNCHANGED <<istream, queued_iframes>> /\ Known' = Known
  BY DEF RxTrim, RxUnchanged, adapterVars, registerVars, Known
<1>5. DataLength(istream') = S /\ Drift' = Drift /\ Held' = H
  <2>1. /\ Held = queued_iframes.estimated_memory_usage + DataLength(istream) + Len(Front)
        /\ Held' = queued_iframes'.estimated_memory_usage + DataLength(istream') + Len(Front')
    BY DEF Held, Front, DataLength
  <2> QED
    BY <1>3, <1>4, <2>1 DEF Drift
<1>6. S <= C + D /\ 0 <= Drift /\ Drift <= D /\ S <= u + D
  BY DEF StreamBy, RxTrim
<1>7. HeldBy(d) => /\ AtMost(H - 2 * (C + D), W) /\ AtMost(Len(Front), W)
                 /\ AtMost(H - (u + (C + D) + D), W)
  BY DEF HeldBy, RxTrim
<1>10. ASSUME NEW a \in Int, NEW b \in Int, b <= a, AtMost(a, W)
       PROVE  AtMost(b, W)
  <2> HIDE DEF W
  <2> QED
    BY <1>2, <1>10, AtMostFacts
<1>8. CASE kept = 0
  <2>1. rx' = IdleRx
    BY <1>8 DEF RxTrim
  <2>2. rx'.pc = "idle"
    BY <2>1 DEF IdleRx
  <2> QED
    BY <1>3, <1>4, <1>5, <1>6, <1>7, <2>2 DEF StreamBy, HeldBy
<1>9. CASE kept # 0
  <2>1. kept \in Nat /\ kept <= size /\ kept + u <= C
    <3>1. kept = IF size + u <= C THEN size ELSE IF u >= C THEN 0 ELSE C - u
      BY DEF Kept
    <3> HIDE DEF kept, size, u, C
    <3> QED
      BY <1>1, <1>9, <3>1
  <2>2. rx'.pc = "add" /\ rx'.packet = SubSeq(rx.packet, 1, kept)
    <3>1. rx \in RxStates
      BY NumberTypes
    <3>2. rx' = [rx EXCEPT !.packet = SubSeq(@, 1, kept), !.pc = "add"]
      BY <1>9 DEF RxTrim
    <3> HIDE DEF kept
    <3> QED
      BY <3>1, <3>2 DEF RxStates
  <2>3. Len(rx'.packet) = kept
    <3> DEFINE B == Bytes
               q == rx.packet
    <3>1. q \in Seq(B)
      BY FlowTypes
    <3>2. kept \in Nat /\ kept <= Len(q)
      BY <2>1
    <3> HIDE DEF B, q, kept
    <3>3. Len(SubSeq(q, 1, kept)) = kept
      BY <3>1, <3>2
    <3> QED
      BY <2>2, <3>3 DEF q
  <2>4. S + kept <= C + D
    <3> HIDE DEF S, D, H, u, C, size, kept
    <3> QED
      BY <1>1, <1>6, <2>1
  <2>5. StreamBy(d)'
    BY <1>5, <1>6, <2>2, <2>3, <2>4 DEF StreamBy
  <2>6. HeldBy(d) => AtMost(H + kept - 2 * (C + D), W)
    <3>1. /\ H - (u + (C + D) + D) \in Int /\ H + kept - 2 * (C + D) \in Int
          /\ H + kept - 2 * (C + D) <= H - (u + (C + D) + D)
      <4> HIDE DEF S, D, H, u, C, size, kept
      <4> QED
        BY <1>1, <2>1
    <3>2. HeldBy(d) => AtMost(H - (u + (C + D) + D), W)
      BY <1>7
    <3> HIDE DEF S, D, H, W, u, C, size, kept
    <3> QED
      BY <1>10, <3>1, <3>2
  <2>7. HeldBy(d) => HeldBy(d)'
    BY <1>3, <1>4, <1>5, <1>7, <2>2, <2>3, <2>6 DEF HeldBy
  <2> QED
    BY <2>5, <2>7
<1> QED
  BY <1>8, <1>9

\* ... and what is left of it goes to istream.
LEMMA AddKeeps ==
    ASSUME RxAssumption, TypeInv, NEW d \in Int, StreamBy(d), RxAdd
    PROVE  StreamBy(d)' /\ (HeldBy(d) => HeldBy(d)')
<1> DEFINE S == DataLength(istream)
           D == d
           H == Held
           Q == queued_iframes.estimated_memory_usage
           F == Len(Front)
           P == Len(rx.packet)
<1>1. S \in Nat /\ D \in Int /\ H \in Nat /\ P \in Nat /\ Q \in Nat /\ F \in Nat /\ H = Q + S + F
  BY NumberTypes
<1>2. /\ UNCHANGED <<pending_iframes, queued_iframes>> /\ Known' = Known
      /\ istream' = AddData(istream, rx.packet)
  BY DEF RxAdd, RxUnchanged, adapterVars, registerVars, Known
<1>3. DataLength(istream') = S + P
  <2>1. istream \in Frames(Bytes) /\ rx.packet \in Seq(Bytes) /\ istream.data \in Seq(Bytes)
    BY FlowTypes
  <2>2. istream'.data = istream.data \o rx.packet
    BY <1>2, <2>1, AddDataFacts
  <2> QED
    BY <2>1, <2>2, ConcatLength DEF DataLength
<1>4. Drift' = Drift /\ Front' = Front /\ Held' = Q + (S + P) + F
  <2>1. Held' = queued_iframes'.estimated_memory_usage + DataLength(istream') + Len(Front')
    BY DEF Held, Front, DataLength
  <2> QED
    BY <1>2, <1>3, <2>1 DEF Drift, Front
<1>5. Held' = H + P
  <2> HIDE DEF S, D, H, Q, F, P
  <2> QED
    BY <1>1, <1>4
<1>6. rx'.pc = "idle"
  BY DEF RxAdd, IdleRx
<1>7. S + P <= InputCap + D /\ 0 <= Drift /\ Drift <= D
  BY DEF StreamBy, RxAdd
<1>8. HeldBy(d) => AtMost(H + P - 2 * (InputCap + D), Known) /\ AtMost(F, Known)
  BY DEF HeldBy, RxAdd
<1>9. StreamBy(d)'
  BY <1>3, <1>4, <1>6, <1>7 DEF StreamBy
<1>10. ASSUME HeldBy(d) PROVE HeldBy(d)'
  <2>1. Held' - 2 * (InputCap + d) = H + P - 2 * (InputCap + D)
    <3> DEFINE h == Held'
               e == 2 * (InputCap + D)
    <3>1. /\ h = H + P
          /\ e \in Int
      BY <1>1, <1>5 DEF RxAssumption
    <3> HIDE DEF h, H, P, e
    <3>2. h - e = H + P - e
      BY <1>1, <3>1
    <3> QED
      BY <3>2 DEF h, e
  <2>2. AtMost(H + P - 2 * (InputCap + D), Known')
    BY <1>2, <1>8, <1>10
  <2>3. AtMost(Held' - 2 * (InputCap + d), Known')
    <3> DEFINE a == Held' - 2 * (InputCap + d)
               b == H + P - 2 * (InputCap + D)
    <3>1. a = b /\ AtMost(b, Known')
      BY <2>1, <2>2
    <3> HIDE DEF a, b
    <3>2. AtMost(a, Known')
      BY <3>1
    <3> QED
      BY <3>2 DEF a
  <2>4. AtMost(Len(Front'), Known')
    BY <1>2, <1>4, <1>8, <1>10
  <2>5. rx'.pc \notin {"istream", "pending", "trim", "add"}
    BY <1>6
  <2> QED
    BY <2>3, <2>4, <2>5 DEF HeldBy
<1> QED
  BY <1>9, <1>10

\* The steps that only take bytes away, or leave the buffers alone.
LEMMA OthersKeep ==
    ASSUME RxAssumption, TypeInv, TypeInv', OthersEmpty, NEW d \in Int, StreamBy(d), rx' = rx,
           Known \subseteq Known',
           \/ UNCHANGED bufferVars
           \/ CompleteFrameSize
           \/ \E r \in ReadDpcs : StreamRead(r) \/ FrameReadTake(r)
    PROVE  Drift' = Drift /\ StreamBy(d)' /\ (HeldBy(d) => HeldBy(d)')
<1> DEFINE S == DataLength(istream)
           Q == queued_iframes.estimated_memory_usage
           F == Len(Front)
           S2 == DataLength(istream')
           Q2 == queued_iframes'.estimated_memory_usage
<1>1. S \in Nat /\ Q \in Nat /\ F \in Nat /\ Drift \in Int /\ Held = Q + S + F
  BY NumberTypes
<1>2. Held' = Q2 + S2 + Len(Front')
  BY DEF Held, Front, DataLength
<1>3. Front' = Front /\ Drift' = Drift /\ S2 \in Int /\ Q2 \in Int /\ S2 <= S /\ Q2 <= Q
  <2>1. CASE UNCHANGED bufferVars
    BY <1>1, <2>1 DEF bufferVars, Front, Drift
  <2>2. CASE CompleteFrameSize
    <3>1. istream' = istream /\ queued_iframes' = queued_iframes
      BY <2>2 DEF CompleteFrameSize
    <3>2. /\ Front' = Front
          /\ pending_iframes'.estimated_memory_usage = pending_iframes.estimated_memory_usage
      BY <2>2, OpenFront
    <3> QED
      BY <1>1, <3>1, <3>2 DEF Drift
  <2>3. ASSUME NEW r \in ReadDpcs, StreamRead(r)
        PROVE  Front' = Front /\ Drift' = Drift /\ S2 \in Int /\ Q2 \in Int /\ S2 <= S /\ Q2 <= Q
    <3>1. UNCHANGED <<pending_iframes, queued_iframes>>
      BY <2>3 DEF StreamRead, ReadUnchanged
    <3>2. PICK length : istream' = RemoveData(istream, length) /\ length \in Nat
      <4>1. istream' = RemoveData(istream, Least(reads[dpc[r].req].length, S))
        BY <2>3 DEF StreamRead
      <4>2. reads[dpc[r].req].length \in Nat
        <5>1. dpc[r].req \in 1..Len(reads) /\ reads \in Seq(ReadStates)
          BY <2>3 DEF TypeInv, ReadTypes, StreamRead
        <5>2. reads[dpc[r].req] \in ReadStates
          BY <5>1
        <5> QED
          BY <5>2 DEF ReadStates
      <4>3. Least(reads[dpc[r].req].length, S) \in Nat
        BY <1>1, <4>2 DEF Least
      <4> QED
        BY <4>1, <4>3
    <3>3. istream \in Frames(Bytes)
      BY FlowTypes
    <3>4. RemoveData(istream, length) \in Frames(Bytes) /\ DataLength(RemoveData(istream, length)) <= S
      BY <3>2, <3>3, RemoveDataFacts
    <3>5. S2 <= S /\ S2 \in Nat
      BY <3>2, <3>4, NumberTypesNext
    <3> QED
      BY <1>1, <3>1, <3>5 DEF Front, Drift
  <2>4. ASSUME NEW r \in ReadDpcs, FrameReadTake(r)
        PROVE  Front' = Front /\ Drift' = Drift /\ S2 \in Int /\ Q2 \in Int /\ S2 <= S /\ Q2 <= Q
    <3>1. /\ UNCHANGED <<pending_iframes, istream>> /\ queued_iframes' = RemoveFrame(queued_iframes)
          /\ ~IsEmptyList(queued_iframes)
      BY <2>4 DEF FrameReadTake, ReadUnchanged, CanRemoveLte
    <3>2. queued_iframes \in Lists(Bytes) /\ PeekFront(queued_iframes) \in Frames(Bytes)
      BY <3>1, ListTypes DEF TypeInv, BufferTypes
    <3>3. DataLength(PeekFront(queued_iframes)) \in Nat
      <4>1. PeekFront(queued_iframes).data \in Seq(Bytes)
        BY <3>2 DEF Frames
      <4> QED
        BY <4>1 DEF DataLength
    <3>4. Q2 = Q - DataLength(PeekFront(queued_iframes))
      BY <3>1 DEF RemoveFrame
    <3> QED
      BY <1>1, <3>1, <3>3, <3>4 DEF Front, Drift
  <2> QED
    BY <2>1, <2>2, <2>3, <2>4
<1>4. Held' <= Held
  <2> HIDE DEF S, Q, F, S2, Q2
  <2> QED
    BY <1>1, <1>2, <1>3 DEF F
<1>5. HeldBy(d) => AtMost(Len(Front'), Known')
  <2>1. ASSUME HeldBy(d) PROVE AtMost(Len(Front), Known)
    BY <2>1 DEF HeldBy
  <2>2. Known' \subseteq Int /\ Len(Front) \in Int /\ Len(Front) <= Len(Front) /\ Front' = Front
    BY <1>1, <1>3, KnownTypes
  <2> HIDE DEF F
  <2> QED
    BY <2>1, <2>2, AtMostFacts
<1>6. 0 <= Drift' /\ Drift' <= d /\ d <= d
  BY <1>3 DEF StreamBy
<1> QED
  BY <1>3, <1>4, <1>5, <1>6, CalmKeeps

\* A purge takes bytes away, and forgets what the estimate has drifted.
LEMMA PurgeKeeps ==
    ASSUME RxAssumption, TypeInv, TypeInv', NEW d \in Int, StreamBy(d), Known \subseteq Known',
           PurgeStep
    PROVE  StreamBy(d)' /\ (HeldBy(d) => HeldBy(d)')
<1> DEFINE S == DataLength(istream)
           Q == queued_iframes.estimated_memory_usage
           F == Len(Front)
           S2 == DataLength(istream')
           Q2 == queued_iframes'.estimated_memory_usage
           F2 == Len(Front')
<1>1. /\ S \in Nat /\ Q \in Nat /\ F \in Nat /\ Drift \in Int /\ Held = Q + S + F
      /\ 0 <= Drift /\ Drift <= d
  BY NumberTypes DEF StreamBy
<1>2. Held' = Q2 + S2 + F2
  BY DEF Held, Front, DataLength
<1>3. /\ S2 \in {S, 0} /\ Q2 \in {Q, 0} /\ Front' \in {Front, <<>>} /\ Drift' \in {Drift, 0}
  <2>1. CASE PurgeQueued
    BY <2>1 DEF PurgeQueued, EmptyList, Front, Drift
  <2>2. CASE PurgeStream
    <3>1. UNCHANGED <<pending_iframes, queued_iframes>> /\ istream' = ClearFrame(istream)
      BY <2>2 DEF PurgeStream
    <3>2. S2 = 0
      BY <3>1, ClearFacts, FlowTypes DEF DataLength
    <3> QED
      BY <3>1, <3>2 DEF Front, Drift
  <2>3. CASE PurgePending
    BY <2>3 DEF PurgePending, EmptyList, IsEmptyList, Front, Drift
  <2>4. CASE PurgeCancel \/ PurgeDrain
    BY <2>4 DEF PurgeCancel, PurgeDrain, bufferVars, Front, Drift
  <2> QED
    BY <2>1, <2>2, <2>3, <2>4 DEF PurgeStep
<1>4. rx' = rx
  BY DEF PurgeStep, PurgeQueued, PurgeStream, PurgePending, PurgeCancel, PurgeDrain, PurgeUnchanged
<1>5. F2 \in {F, 0}
  <2>1. Len(<<>>) = 0
    OBVIOUS
  <2> QED
    BY <1>3, <2>1
<1>6. S2 <= S /\ Held' <= Held /\ 0 <= Drift' /\ Drift' <= d /\ d <= d
  <2> HIDE DEF S, Q, F, S2, Q2, F2
  <2> QED
    BY <1>1, <1>2, <1>3, <1>5
<1>7. ASSUME HeldBy(d) PROVE AtMost(F2, Known')
  <2>1. AtMost(F, Known)
    BY <1>7 DEF HeldBy
  <2>2. Known' \subseteq Int /\ F \in Int /\ F2 \in Int /\ F2 <= F
    BY <1>1, <1>5, KnownTypes
  <2> HIDE DEF F, F2
  <2> QED
    BY <2>1, <2>2, AtMostFacts
<1> QED
  BY <1>4, <1>6, <1>7, CalmKeeps

LEMMA MemoryStep ==
    ASSUME RxAssumption, WordAssumption, TypeInv, TypeInv', OthersEmpty, Held < WORD, [Next]_vars,
           NEW d \in Int, Drift' <= d, StreamBy(d)
    PROVE  /\ StreamBy(d)'
           /\ HeldBy(d) /\ SizesKnown /\ CountersFit => HeldBy(d)'
<1>1. Known \subseteq Known'
  BY KnownGrows
<1>2. CASE IframeLoop
  <2>1. d <= d
    OBVIOUS
  <2> QED
    BY <1>2, <2>1, LoopKeeps
<1>3. CASE RxPacket \/ RxUsageQueued \/ RxUsageStream \/ RxUsagePending
  BY <1>3, SumKeeps
<1>4. CASE RxTrim \/ RxAdd
  BY <1>4, TrimKeeps, AddKeeps
<1>5. CASE PurgeStep
  BY <1>1, <1>5, PurgeKeeps
<1>6. ASSUME rx' = rx,
             \/ UNCHANGED bufferVars
             \/ CompleteFrameSize
             \/ \E r \in ReadDpcs : StreamRead(r) \/ FrameReadTake(r)
      PROVE  StreamBy(d)' /\ (HeldBy(d) => HeldBy(d)')
  BY <1>1, <1>6, OthersKeep
<1>7. CASE \/ CompleteFrameSize
           \/ \E r \in ReadDpcs : StreamRead(r) \/ FrameReadTake(r)
  BY <1>6, <1>7 DEF CompleteFrameSize, StreamRead, FrameReadTake, ReadUnchanged
<1>8. CASE \/ WireByte \/ ExecuteReceiverReset \/ ExecuteFrameCount \/ ExecuteFrameSize
           \/ CompleteFrameCount \/ CompleteWithError \/ SendRead
  BY <1>6, <1>8 DEF WireByte, ExecuteReceiverReset, ExecuteFrameCount, ExecuteFrameSize,
                    CompleteFrameCount, CompleteWithError, SendRead, SendSizeRead, SendCountRead
<1>9. CASE Timer \/ IframeStart \/ IframeEnd \/ PurgeReset
  BY <1>6, <1>9 DEF Timer, IframeStart, IframeEnd, PurgeReset, PurgeUnchanged
<1>10. CASE \/ SyncComEvtIoRead
            \/ \E r \in ReadDpcs : ReadStart(r) \/ ReadCheck(r) \/ ReadRetrieve(r) \/ FrameReadEnd(r)
  BY <1>6, <1>10 DEF SyncComEvtIoRead, ReadStart, ReadCheck, ReadRetrieve, FrameReadEnd,
                     ReadUnchanged, bufferVars
<1>11. CASE UNCHANGED vars
  BY <1>6, <1>11 DEF vars
<1> QED
  BY <1>2, <1>3, <1>4, <1>5, <1>7, <1>8, <1>9, <1>10, <1>11
  DEF Next, Adapter, RegisterCompletion, RxStep, IframeWorker, SynccomProcessRead

LEMMA MemoryInit ==
    ASSUME RxAssumption, Init, NEW d \in Int, Drift <= d
    PROVE  Drift = 0 /\ StreamBy(d) /\ HeldBy(d)
<1>1. /\ DataLength(istream) = 0 /\ Drift = 0 /\ Held = 0 /\ Len(Front) = 0 /\ rx.pc = "idle"
      /\ InputCap \in Nat
  BY DEF Init, NewFrame, EmptyList, DataLength, Drift, Held, Front, IsEmptyList, IdleRx,
         RxAssumption
<1>2. AtMost(Len(Front), Known)
  BY <1>1 DEF AtMost
<1>3. AtMost(Held - 2 * (InputCap + d), Known)
  <2>1. Held - 2 * (InputCap + d) <= 0
    BY <1>1
  <2> QED
    BY <2>1 DEF AtMost
<1>4. 0 <= InputCap + d
  BY <1>1
<1> QED
  BY <1>1, <1>2, <1>3, <1>4 DEF StreamBy, HeldBy

\* With purges, too: as long as the driver holds less than an unsigned counts,
\* istream passes the cap by no more than the most that the estimate of
\* pending_iframes has ever drifted below zero.
THEOREM StreamStaysBoundedThroughPurges ==
    ASSUME NEW d \in Nat
    PROVE  Spec /\ [](Held < WORD) /\ [](Drift <= d) => [](DataLength(istream) <= InputCap + d)
<1>1. Init /\ Drift <= d => StreamBy(d)
  BY MemoryInit, RxAssumption
<1>2. /\ TypeInv /\ TypeInv' /\ FlowInv /\ StreamBy(d) /\ Held < WORD /\ (Drift <= d)' /\ [Next]_vars
      => StreamBy(d)'
  BY MemoryStep, RxAssumption, WordAssumption DEF FlowInv
<1>3. StreamBy(d) => DataLength(istream) <= InputCap + d
  BY DEF StreamBy
<1> QED
  BY <1>1, <1>2, <1>3, FlowInvariant, PTL DEF Spec

\* What the driver holds at most when the estimate has drifted by d or less.
HeldWithin(d) ==
    LET Within(rest) == Held <= 2 * (InputCap + d) + rest
    IN  Within(0) \/ \E length \in Known : Within(length - 1)

LEMMA WithinFacts ==
    ASSUME RxAssumption, TypeInv, NEW d \in Int, HeldBy(d)
    PROVE  HeldWithin(d)
<1> DEFINE limit == 2 * (InputCap + d)
<1>1. Held \in Int /\ limit \in Int
  BY NumberTypes DEF RxAssumption
<1>2. Known \subseteq Int
  BY KnownTypes
<1>3. AtMost(Held - limit, Known)
  BY DEF HeldBy
<1> HIDE DEF limit
<1>4. Held <= limit + 0 \/ \E length \in Known : Held <= limit + (length - 1)
  <2>1. CASE Held - limit <= 0
    BY <1>1, <2>1
  <2>2. ASSUME NEW length \in Known, Held - limit <= length - 1
        PROVE  Held <= limit + (length - 1)
    BY <1>1, <1>2, <2>2
  <2> QED
    BY <1>3, <2>1, <2>2 DEF AtMost
<1> QED
  BY <1>4 DEF HeldWithin, limit

\* With purges, which also let sizes be read that do not exist: the driver
\* never holds more than twice the cap, twice the most that the estimate has
\* drifted, and one unfinished frame of a size it was told.
THEOREM HeldStaysBoundedThroughPurges ==
    ASSUME NEW d \in Nat
    PROVE  Spec /\ []CountersFit /\ [](Drift <= d) => []HeldWithin(d)
<1>1. Init /\ Drift <= d => StreamBy(d) /\ SizesKnown /\ HeldBy(d)
  BY KnownInit, MemoryInit, RxAssumption
<1>2. /\ TypeInv /\ TypeInv' /\ FlowInv /\ StreamBy(d) /\ SizesKnown /\ HeldBy(d)
      /\ CountersFit /\ (Drift <= d)' /\ [Next]_vars
      => StreamBy(d)' /\ SizesKnown' /\ HeldBy(d)'
  <2>1. CountersFit => Held < WORD
    BY DEF CountersFit
  <2> QED
    BY <2>1, MemoryStep, KnownStep, RxAssumption, WordAssumption DEF FlowInv
<1>3. TypeInv /\ HeldBy(d) => HeldWithin(d)
  BY WithinFacts, RxAssumption
<1> QED
  BY <1>1, <1>2, <1>3, FlowInvariant, PTL DEF Spec

----------------------------------------------------------------------------
(* Without a purge the estimate only drifts further, and the bound is what   *)
(* it has drifted so far.                                                    *)

\* No purge ever starts.
NoPurge == purge = "idle"

LEMMA NoPurgeStep ==
    ASSUME MaxPurges = 0, TypeInv, NoPurge, [Next]_vars
    PROVE  NoPurge' /\ ~PurgeReset /\ ~PurgeStep
<1>1. ~PurgeReset
  <2>1. bound.purges \in Nat
    BY DEF TypeInv, ControlTypes
  <2> QED
    BY <2>1 DEF PurgeReset
<1>2. ~PurgeStep
  BY DEF NoPurge, PurgeStep, PurgeQueued, PurgeStream, PurgePending, PurgeCancel, PurgeDrain
<1> QED
  BY <1>1, <1>2 DEF NoPurge, Next, vars, adapterVars, WireByte, Adapter, ExecuteFrameCount,
     ExecuteFrameSize, ExecuteReceiverReset, RegisterCompletion, CompleteFrameCount,
     CompleteFrameSize, CompleteWithError,
     SendRead, SendSizeRead, SendCountRead, RxPacket, RxStep, RxUsageQueued, RxUsageStream,
     RxUsagePending, RxTrim, RxAdd, RxUnchanged, Timer, IframeWorker, IframeStart, IframeLoop,
     IframeEnd, SyncComEvtIoRead, ReadStart, SynccomProcessRead, ReadCheck, ReadRetrieve,
     StreamRead, FrameReadTake, FrameReadEnd, ReadUnchanged

StreamInv == StreamBy(Drift)

HeldInv == HeldBy(Drift)

LEMMA DriftingInit == ASSUME RxAssumption, Init PROVE NoPurge /\ StreamInv /\ HeldInv
<1>1. PICK d \in Int : d = 0
  OBVIOUS
<1>2. Drift = 0
  BY DEF Init, EmptyList, Drift
<1>3. StreamBy(d) /\ HeldBy(d)
  BY <1>1, <1>2, MemoryInit
<1> QED
  BY <1>1, <1>2, <1>3 DEF StreamInv, HeldInv, NoPurge, Init

LEMMA DriftStep ==
    ASSUME RxAssumption, TypeInv, OthersEmpty, ~PurgeStep, ~IframeLoop, [Next]_vars
    PROVE  Drift' = Drift
<1>1. ASSUME pending_iframes'.estimated_memory_usage = pending_iframes.estimated_memory_usage
      PROVE  Drift' = Drift
  BY <1>1 DEF Drift
<1>2. CASE RxTrim \/ CompleteFrameSize
  BY <1>1, <1>2, TrimFront, OpenFront
<1>3. CASE WireByte \/ Adapter \/ CompleteFrameCount \/ CompleteWithError \/ SendRead
  BY <1>1, <1>3 DEF WireByte, Adapter, ExecuteFrameCount, ExecuteFrameSize, ExecuteReceiverReset,
                    CompleteFrameCount, CompleteWithError,
                    SendRead, SendSizeRead, SendCountRead, bufferVars
<1>4. CASE RxPacket \/ RxUsageQueued \/ RxUsageStream \/ RxUsagePending \/ RxAdd
  BY <1>1, <1>4 DEF RxPacket, RxUsageQueued, RxUsageStream, RxUsagePending, RxAdd, RxUnchanged,
                    bufferVars
<1>5. CASE Timer \/ IframeStart \/ IframeEnd \/ PurgeReset
  BY <1>1, <1>5 DEF Timer, IframeStart, IframeEnd, PurgeReset, PurgeUnchanged, bufferVars
<1>6. CASE \/ SyncComEvtIoRead
           \/ \E r \in ReadDpcs : ReadStart(r) \/ SynccomProcessRead(r)
  BY <1>1, <1>6 DEF SyncComEvtIoRead, ReadStart, SynccomProcessRead, ReadCheck, ReadRetrieve,
                    StreamRead, FrameReadTake, FrameReadEnd, ReadUnchanged, bufferVars
<1>7. CASE UNCHANGED vars
  BY <1>1, <1>7 DEF vars, bufferVars
<1> QED
  BY <1>2, <1>3, <1>4, <1>5, <1>6, <1>7 DEF Next, RegisterCompletion, RxStep, IframeWorker

LEMMA DriftingStep ==
    ASSUME RxAssumption, WordAssumption, TypeInv, TypeInv', OthersEmpty, StreamInv,
           ~PurgeStep, Held < WORD, [Next]_vars
    PROVE  /\ StreamInv'
           /\ HeldInv /\ SizesKnown /\ CountersFit => HeldInv'
<1>1. Drift \in Int /\ Drift' \in Int
  BY NumberTypes, NumberTypesNext
<1>2. PICK d \in Int, e \in Int : d = Drift /\ e = Drift'
  BY <1>1
<1>3. StreamBy(d) /\ (HeldInv => HeldBy(d))
  BY <1>2 DEF StreamInv, HeldInv, StreamBy, HeldBy
<1>4. ASSUME StreamBy(e)' PROVE StreamInv'
  BY <1>2, <1>4 DEF StreamInv, StreamBy
<1>5. ASSUME HeldBy(e)' PROVE HeldInv'
  BY <1>2, <1>5 DEF HeldInv, HeldBy
<1>6. CASE IframeLoop
  <2>1. d <= d /\ e <= e
    OBVIOUS
  <2>2. d <= e
    BY <1>2, <1>3, <1>6, <2>1, LoopKeeps
  <2> QED
    BY <1>2, <1>3, <1>4, <1>5, <1>6, <2>1, <2>2, LoopKeeps
<1>7. CASE ~IframeLoop
  <2>1. Drift' = Drift
    BY <1>7, DriftStep
  <2>2. e = d /\ Drift' <= d
    BY <1>1, <1>2, <2>1
  <2> QED
    BY <1>3, <1>4, <1>5, <2>2, MemoryStep
<1> QED
  BY <1>6, <1>7

LEMMA StreamInvariant ==
    ASSUME MaxPurges = 0
    PROVE  Spec /\ [](Held < WORD) => [](NoPurge /\ StreamInv)
<1>1. Init => NoPurge /\ StreamInv
  BY DriftingInit, RxAssumption
<1>2. /\ TypeInv /\ TypeInv' /\ FlowInv /\ NoPurge /\ StreamInv /\ Held < WORD /\ [Next]_vars
      => NoPurge' /\ StreamInv'
  BY NoPurgeStep, DriftingStep, RxAssumption, WordAssumption DEF FlowInv
<1> QED
  BY <1>1, <1>2, FlowInvariant, PTL DEF Spec

\* As long as no purge forgets the drift and the driver holds less than an
\* unsigned counts, istream passes the cap by no more than the estimate of
\* pending_iframes has drifted below zero.
THEOREM StreamStaysWithinCap ==
    ASSUME MaxPurges = 0
    PROVE  Spec /\ [](Held < WORD) => []StreamWithinCap
<1>1. StreamInv => StreamWithinCap
  BY DEF StreamInv, StreamBy, StreamWithinCap
<1> QED
  BY <1>1, StreamInvariant, PTL

LEMMA HeldInvariant ==
    ASSUME MaxPurges = 0
    PROVE  Spec /\ []CountersFit => [](NoPurge /\ StreamInv /\ SizesKnown /\ HeldInv)
<1>1. Init => SizesKnown /\ HeldInv
  BY KnownInit, DriftingInit, RxAssumption
<1>2. /\ TypeInv /\ TypeInv' /\ FlowInv /\ NoPurge /\ StreamInv /\ SizesKnown /\ HeldInv
      /\ CountersFit /\ [Next]_vars
      => SizesKnown' /\ HeldInv'
  <2>1. CountersFit => Held < WORD
    BY DEF CountersFit
  <2> QED
    BY <2>1, NoPurgeStep, DriftingStep, KnownStep, RxAssumption, WordAssumption DEF FlowInv
<1>3. CountersFit => Held < WORD
  BY DEF CountersFit
<1> QED
  BY <1>1, <1>2, <1>3, StreamInvariant, FlowInvariant, PTL DEF Spec

\* The driver reads the three parts of its memory usage one lock at a time and
\* adds a packet to what it then takes itself to hold: whatever moves between
\* the three readings, it never comes to hold more than twice the cap, twice
\* what the estimate has drifted, and an unfinished frame.
THEOREM HeldStaysBounded ==
    ASSUME MaxPurges = 0
    PROVE  Spec /\ []CountersFit => []HeldBounded
<1>1. ASSUME TypeInv, HeldInv, NoOverread PROVE HeldBounded
  <2>1. HeldWithin(Drift)
    <3>1. PICK d \in Int : d = Drift
      BY <1>1, NumberTypes
    <3>2. HeldWithin(d)
      BY <1>1, <3>1, WithinFacts, RxAssumption DEF HeldInv
    <3> QED
      BY <3>1, <3>2
  <2>2. Known = {FrameLengths[k] : k \in 1..wire.frame - 1}
    BY <1>1 DEF Known, NoOverread
  <2> QED
    BY <2>1, <2>2 DEF HeldWithin, HeldBounded
<1> QED
  BY <1>1, HeldInvariant, NeverOverread, TypeInvariant, PTL
=============================================================================
