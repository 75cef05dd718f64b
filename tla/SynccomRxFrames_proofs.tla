------------------------ MODULE SynccomRxFrames_proofs ------------------------
(* While nothing is purged, no register read fails and no packet is trimmed, *)
(* the receive path delivers the frames of the wire, each whole, each once   *)
(* and in order.  The argument follows the sizes and the bytes separately    *)
(* until iframe_worker joins them: the size read numbered n returns the size *)
(* of frame n, so the frame that is n-th to be opened has the length of      *)
(* frame n; and the bytes the driver and the adapter hold are one stretch of *)
(* the wire, so the bytes that fill it are those of frame n.                 *)
EXTENDS SynccomRx_proofs, SynccomRxTypes_proofs

\* No byte of a packet is dropped at the memory cap.
Untrimmed == ~streaming /\ rx.pc = "trim" => Kept(Len(rx.packet)) = Len(rx.packet)

\* Frames that are complete: the ones reads took and the ones waiting for a read.
Done == Len(taken) + Len(queued_iframes.frames)

\* Bytes of the frame being put together.
Started == IF IsEmptyList(pending_iframes) THEN 0 ELSE DataLength(PeekFront(pending_iframes))

\* The sizes on their way to the driver are those of the frames in turn.
SizesNamed ==
    /\ tally.sized = wire.frame - 1
    /\ \A i \in 1..Len(sizeFifo) : sizeFifo[i] = tally.popped + i
    /\ \A i \in 1..Len(responses) :
          responses[i].op = "BC_FIFO_L" => responses[i].value = FrameLengths[responses[i].nth]

\* The pending frames are the next ones of the wire, with its lengths, and only
\* the first of them has bytes: its own first ones, and not all.
FramesOpened ==
    /\ tally.completed = Done + Len(pending_iframes.frames)
    /\ \A i \in 1..Len(pending_iframes.frames) :
          /\ pending_iframes.frames[i].frame_size = FrameLengths[Done + i]
          /\ pending_iframes.frames[i].lost_bytes = 0
          /\ i > 1 => pending_iframes.frames[i].data = <<>>
    /\ Len(pending_iframes.frames) > 0 =>
          /\ Started < FrameLengths[Done + 1]
          /\ \A j \in 1..Started : pending_iframes.frames[1].data[j] = <<Done + 1, j>>

FramesDone ==
    /\ \A k \in 1..Len(taken) : taken[k].data = FrameBytes(k)
    /\ \A i \in 1..Len(queued_iframes.frames) :
          queued_iframes.frames[i].data = FrameBytes(Len(taken) + i)

\* T[k] is the number of bytes of the first k frames of the wire.
Table(T) ==
    /\ T \in [0..NFrames -> Nat] /\ T[0] = 0
    /\ \A k \in 1..NFrames : T[k] = T[k - 1] + FrameLengths[k]
    /\ \A i, j \in 0..NFrames : i <= j => T[i] <= T[j]

\* W is that table for the frames before the one numbered top.
Offsets(W, top) ==
    /\ W \in [0..top - 1 -> Nat] /\ W[0] = 0
    /\ \A k \in 1..top - 1 : W[k] = W[k - 1] + FrameLengths[k]
    /\ \A i, j \in 0..top - 1 : i <= j => W[i] <= W[j]
    /\ \A T : Table(T) => \A i \in 0..top - 1 : W[i] = T[i]

\* The bytes of s follow one another on the wire, after the first `from' ones.
Placed(W, top, s, from) ==
    \A i \in 1..Len(s) : s[i][1] <= top /\ W[s[i][1] - 1] + s[i][2] = from + i

\* What the driver and the adapter hold is the wire from the first byte no
\* frame has to the last one received.
Stretch(W) ==
    LET first  == W[Done] + Started
        second == first + DataLength(istream)
        third  == second + Len(rx.packet)
    IN  /\ Placed(W, wire.frame, istream.data, first)
        /\ Placed(W, wire.frame, rx.packet, second)
        /\ Placed(W, wire.frame, dataFifo, third)
        /\ third + Len(dataFifo) = W[wire.frame - 1] + wire.bytes

StreamPlaced ==
    /\ rx.pc = "idle" => rx.packet = <<>>
    /\ \E W : Offsets(W, wire.frame) /\ Stretch(W)

FramesPlaced == FramesOpened /\ FramesDone /\ StreamPlaced

WholeInv == TypeInv /\ SizesInv /\ purge = "idle" /\ (~streaming => SizesNamed /\ FramesPlaced)

----------------------------------------------------------------------------
(* The sizes. *)

LEMMA ChainOrder ==
    ASSUME NEW T, \A x \in T : x.nth \in Nat, NEW q \in Seq(T), NEW a \in Nat, NEW b \in Nat,
           Chain(q, a, b)
    PROVE  a <= b
<1>1. CASE q = <<>>
  BY <1>1 DEF Chain
<1>2. CASE q # <<>>
  <2>1. Head(q).nth <= b /\ Before(Head(q)) = a /\ Head(q) \in T
    BY <1>2, ChainTail
  <2> QED
    BY <2>1 DEF Before
<1> QED
  BY <1>1, <1>2

LEMMA TallyOrder ==
    ASSUME SizesInv
    PROVE  /\ tally.completed <= tally.popped /\ tally.popped <= tally.issued
           /\ tally.issued <= tally.sized
           /\ tally.completed \in Nat /\ tally.popped \in Nat
           /\ tally.issued \in Nat /\ tally.sized \in Nat
<1>1. /\ tally.completed \in Nat /\ tally.popped \in Nat /\ tally.issued \in Nat
      /\ tally.sized \in Nat
      /\ responses \in Seq(Answers) /\ pipe \in Seq(Requests)
      /\ Chain(responses, tally.completed, tally.popped) /\ Chain(pipe, tally.popped, tally.issued)
  BY DEF SizesInv, RegisterTypes, Tallies
<1>2. tally.issued <= tally.sized
  <2>1. to_send.sizes \in Nat
    BY DEF SizesInv, RegisterTypes, Unsent
  <2>2. tally.issued + to_send.sizes <= tally.sized
    BY DEF SizesInv, SizesLeft
  <2> QED
    BY <1>1, <2>1, <2>2
<1>3. (\A x \in Requests : x.nth \in Nat) /\ (\A x \in Answers : x.nth \in Nat)
  BY DEF Requests, Answers
<1>4. tally.completed <= tally.popped
  BY <1>1, <1>3, ChainOrder
<1>5. tally.popped <= tally.issued
  BY <1>1, <1>3, ChainOrder
<1> QED
  BY <1>1, <1>4, <1>5, <1>2

LEMMA TallyFields ==
    ASSUME SizesInv, NEW n
    PROVE  /\ [tally EXCEPT !.sized = n].sized = n
           /\ [tally EXCEPT !.sized = n].popped = tally.popped
           /\ [tally EXCEPT !.sized = n].completed = tally.completed
           /\ [tally EXCEPT !.issued = n].sized = tally.sized
           /\ [tally EXCEPT !.issued = n].popped = tally.popped
           /\ [tally EXCEPT !.issued = n].completed = tally.completed
           /\ [tally EXCEPT !.popped = n].sized = tally.sized
           /\ [tally EXCEPT !.popped = n].popped = n
           /\ [tally EXCEPT !.popped = n].completed = tally.completed
           /\ [tally EXCEPT !.completed = n].sized = tally.sized
           /\ [tally EXCEPT !.completed = n].popped = tally.popped
           /\ [tally EXCEPT !.completed = n].completed = n
<1>1. tally \in [sized : Nat, issued : Nat, popped : Nat, completed : Nat]
  BY DEF SizesInv, RegisterTypes, Tallies
<1> QED
  BY <1>1

\* Answers added behind and taken from the front.
LEMMA ValuesAppend ==
    ASSUME NEW q \in Seq(Answers), NEW r \in Answers,
           \A i \in 1..Len(q) : q[i].op = "BC_FIFO_L" => q[i].value = FrameLengths[q[i].nth],
           r.op = "BC_FIFO_L" => r.value = FrameLengths[r.nth]
    PROVE  \A i \in 1..Len(Append(q, r)) :
               Append(q, r)[i].op = "BC_FIFO_L"
                   => Append(q, r)[i].value = FrameLengths[Append(q, r)[i].nth]
<1>1. \A i \in 1..Len(Append(q, r)) :
          Append(q, r)[i] = r \/ (i \in 1..Len(q) /\ Append(q, r)[i] = q[i])
  OBVIOUS
<1> QED
  BY <1>1

LEMMA SizesNamedStep ==
    ASSUME RxAssumption, ~streaming, TypeInv, SizesInv, SizesInv', SizesNamed, [Next]_vars
    PROVE  SizesNamed'
<1>1. /\ tally.sized = wire.frame - 1
      /\ \A i \in 1..Len(sizeFifo) : sizeFifo[i] = tally.popped + i
      /\ \A i \in 1..Len(responses) :
            responses[i].op = "BC_FIFO_L" => responses[i].value = FrameLengths[responses[i].nth]
  BY DEF SizesNamed
<1>2. /\ sizeFifo \in Seq(1..NFrames) /\ responses \in Seq(Answers) /\ pipe \in Seq(Requests)
      /\ Len(sizeFifo) = tally.sized - tally.popped /\ RegisterTypes
      /\ Chain(responses, tally.completed, tally.popped) /\ Chain(pipe, tally.popped, tally.issued)
  BY DEF SizesInv, RegisterTypes
<1>3. /\ tally.completed \in Nat /\ tally.popped \in Nat /\ tally.issued \in Nat
      /\ tally.sized \in Nat
  BY TallyOrder
<1>4. wire.frame \in Nat /\ wire.bytes \in Nat
  BY DEF SizesInv, RegisterTypes
<1>5. CASE WireByte
  <2>1. UNCHANGED responses
    BY <1>5 DEF WireByte
  <2>2. CASE wire.bytes + 1 = FrameLengths[wire.frame]
    <3>1. /\ wire' = [frame |-> wire.frame + 1, bytes |-> 0]
          /\ sizeFifo' = Append(sizeFifo, wire.frame)
          /\ tally' = [tally EXCEPT !.sized = tally.sized + 1]
      BY <1>5, <2>2 DEF WireByte
    <3>2. tally'.sized = tally.sized + 1 /\ tally'.popped = tally.popped
      BY <3>1, TallyFields
    <3>3. \A i \in 1..Len(sizeFifo') : sizeFifo'[i] = tally.popped + i
      <4>1. /\ Len(sizeFifo') = Len(sizeFifo) + 1 /\ sizeFifo'[Len(sizeFifo) + 1] = wire.frame
            /\ \A i \in 1..Len(sizeFifo) : sizeFifo'[i] = sizeFifo[i]
        BY <1>2, <3>1
      <4>2. wire.frame = tally.popped + (Len(sizeFifo) + 1)
        BY <1>1, <1>2, <1>3, <1>4, SMTT(30)
      <4>3. Len(sizeFifo) \in Nat
        BY <1>2
      <4> QED
        BY <1>1, <4>1, <4>2, <4>3
    <3>4. wire'.frame = wire.frame + 1
      BY <3>1
    <3>5. tally'.sized = wire'.frame - 1
      BY <1>1, <1>3, <1>4, <3>2, <3>4
    <3> QED
      BY <1>1, <2>1, <3>2, <3>3, <3>5 DEF SizesNamed
  <2>3. CASE wire.bytes + 1 # FrameLengths[wire.frame]
    <3>1. /\ wire'.frame = wire.frame /\ sizeFifo' = sizeFifo
          /\ tally' = [tally EXCEPT !.sized = tally.sized]
      BY <1>5, <2>3 DEF WireByte, SizesInv, RegisterTypes
    <3>2. tally'.sized = tally.sized /\ tally'.popped = tally.popped
      BY <3>1, TallyFields
    <3> QED
      BY <1>1, <2>1, <3>1, <3>2 DEF SizesNamed
  <2> QED
    BY <2>2, <2>3
<1>6. CASE ExecuteFrameCount
  <2> DEFINE r == [op |-> Head(pipe).op, value |-> Len(sizeFifo), nth |-> Head(pipe).nth]
  <2>1. /\ responses' = Append(responses, r) /\ Head(pipe).op = "FIFO_FC" /\ pipe # <<>>
        /\ UNCHANGED <<wire, sizeFifo, tally>>
    BY <1>6 DEF ExecuteFrameCount, Executing, Respond, adapterVars
  <2>2. Head(pipe) \in Requests /\ Len(sizeFifo) \in Nat
    BY <1>2, <2>1, SeqFacts
  <2>3. r \in Answers /\ r.op = "FIFO_FC"
    BY <2>1, <2>2 DEF Requests, Answers
  <2> HIDE DEF r
  <2>4. \A i \in 1..Len(responses') : responses'[i].op = "BC_FIFO_L"
                                         => responses'[i].value = FrameLengths[responses'[i].nth]
    BY <1>1, <1>2, <2>1, <2>3, ValuesAppend
  <2> QED
    BY <1>1, <2>1, <2>4 DEF SizesNamed
<1>7. CASE ExecuteFrameSize
  <2>1. sizeFifo # <<>>
    <3>1. ~overread'
      BY DEF SizesInv, NoOverread
    <3> QED
      BY <1>7, <3>1 DEF ExecuteFrameSize
  <2> DEFINE value == FrameLengths[Head(sizeFifo)]
             r == [op |-> Head(pipe).op, value |-> value, nth |-> Head(pipe).nth]
  <2>2. /\ responses' = Append(responses, r) /\ Respond(value) /\ Executing("BC_FIFO_L")
        /\ Head(pipe).op = "BC_FIFO_L" /\ pipe # <<>> /\ sizeFifo' = Tail(sizeFifo)
        /\ tally' = [tally EXCEPT !.popped = tally.popped + 1] /\ wire' = wire
    BY <1>7, <2>1 DEF ExecuteFrameSize, Executing, Respond
  <2>3. /\ Len(sizeFifo) >= 1 /\ Head(sizeFifo) = sizeFifo[1]
        /\ Len(sizeFifo') = Len(sizeFifo) - 1
        /\ \A i \in 1..Len(sizeFifo) - 1 :
              sizeFifo'[i] = sizeFifo[i + 1] /\ i + 1 \in 1..Len(sizeFifo)
    <3> DEFINE S == 1..NFrames
    <3>1. sizeFifo \in Seq(S)
      BY <1>2
    <3> HIDE DEF S
    <3> QED
      BY <2>1, <2>2, <3>1, SMTT(30)
  <2>4. Head(sizeFifo) = tally.popped + 1 /\ Head(sizeFifo) \in 1..NFrames
    <3> DEFINE S == 1..NFrames
    <3>1. sizeFifo \in Seq(S)
      BY <1>2
    <3> HIDE DEF S
    <3>2. Head(sizeFifo) \in S
      BY <2>1, <3>1, SeqFacts
    <3>3. 1 \in 1..Len(sizeFifo)
      BY <2>3, <3>1
    <3> QED
      BY <1>1, <2>3, <3>2, <3>3 DEF S
  <2>5. value \in Nat
    BY <2>4, BytesFacts
  <2>6. Head(pipe) \in Requests /\ Head(pipe).nth = tally.popped + 1
    <3>1. Head(pipe) \in Requests /\ Before(Head(pipe)) = tally.popped
      BY <1>2, <2>2, <2>5, ExecuteFacts
    <3>2. Before(Head(pipe)) = Head(pipe).nth - 1
      BY <2>2 DEF Before
    <3>3. Head(pipe).nth \in Nat
      BY <3>1 DEF Requests
    <3>4. tally.popped \in Nat
      BY <1>3
    <3> QED
      BY <3>1, <3>2, <3>3, <3>4
  <2>7. r \in Answers /\ r.value = FrameLengths[r.nth]
    BY <2>4, <2>5, <2>6, <2>2 DEF Answers, Requests
  <2> HIDE DEF r, value
  <2>8. \A i \in 1..Len(responses') : responses'[i].op = "BC_FIFO_L"
                                         => responses'[i].value = FrameLengths[responses'[i].nth]
    BY <1>1, <1>2, <2>2, <2>7, ValuesAppend
  <2>9. tally'.sized = tally.sized /\ tally'.popped = tally.popped + 1
    BY <2>2, TallyFields
  <2>10. \A i \in 1..Len(sizeFifo') : sizeFifo'[i] = tally.popped + 1 + i
    <3> TAKE i \in 1..Len(sizeFifo')
    <3>1. Len(sizeFifo) \in Nat
      BY <1>2
    <3>2. i \in 1..Len(sizeFifo) - 1 /\ i + 1 \in 1..Len(sizeFifo)
      BY <2>3, <3>1
    <3>3. sizeFifo'[i] = tally.popped + (i + 1)
      BY <1>1, <2>3, <3>2
    <3>4. i \in Nat
      BY <3>1, <3>2
    <3>5. tally.popped + (i + 1) = tally.popped + 1 + i
      <4>1. \A a, b \in Nat : a + (b + 1) = a + 1 + b
        OBVIOUS
      <4> QED
        BY <1>3, <3>4, <4>1
    <3> QED
      BY <3>3, <3>5
  <2> QED
    BY <1>1, <2>2, <2>8, <2>9, <2>10 DEF SizesNamed
<1>8. CASE ExecuteReceiverReset
  <2>1. pipe # <<>> /\ Head(pipe).op = "RRES"
    BY <1>8 DEF ExecuteReceiverReset, Executing
  <2> QED
    <3>1. Head(pipe) \in Requests
      BY <1>2, <2>1, SeqFacts
    <3> QED
      BY <2>1, <3>1 DEF Requests
<1>9. CASE CompleteFrameCount \/ CompleteFrameSize \/ CompleteWithError
  <2>1. /\ responses # <<>> /\ responses' = Tail(responses) /\ UNCHANGED <<wire, sizeFifo>>
        /\ tally'.sized = tally.sized /\ tally'.popped = tally.popped
    <3>1. responses # <<>> /\ responses' = Tail(responses) /\ UNCHANGED <<wire, sizeFifo>>
      BY <1>9 DEF CompleteFrameCount, CompleteFrameSize, CompleteWithError, Completing, adapterVars
    <3>2. PICK n : tally' = tally \/ tally' = [tally EXCEPT !.completed = n]
      BY <1>9 DEF CompleteFrameCount, CompleteFrameSize, CompleteWithError
    <3>3. CASE tally' = tally
      BY <3>1, <3>3
    <3>4. CASE tally' = [tally EXCEPT !.completed = n]
      BY <3>1, <3>4, TallyFields
    <3> QED
      BY <3>2, <3>3, <3>4
  <2>2. /\ Len(responses') = Len(responses) - 1
        /\ \A i \in 1..Len(responses') : responses'[i] = responses[i + 1]
    BY <1>2, <2>1, CompleteFacts
  <2>3. \A i \in 1..Len(responses') : i + 1 \in 1..Len(responses)
    BY <1>2, <2>2
  <2> QED
    BY <1>1, <2>1, <2>2, <2>3 DEF SizesNamed
<1>10. ASSUME UNCHANGED <<wire, sizeFifo, responses, tally>> PROVE SizesNamed'
  BY <1>1, <1>10 DEF SizesNamed
<1>11. CASE RxPacket \/ RxStep \/ Timer \/ IframeWorker
  BY <1>10, <1>11 DEF RxPacket, RxStep, RxUsageQueued, RxUsageStream, RxUsagePending, RxTrim,
                      RxAdd, RxUnchanged, Timer, IframeWorker, IframeStart, IframeLoop,
                      IframeEnd, adapterVars, registerVars
<1>12. CASE \/ SyncComEvtIoRead
            \/ \E d \in ReadDpcs : ReadStart(d) \/ SynccomProcessRead(d)
  <2>1. SyncComEvtIoRead => UNCHANGED <<wire, sizeFifo, responses, tally>>
    <3>1. SyncComEvtIoRead => ReadUnchanged
      BY Zenon DEF SyncComEvtIoRead
    <3> QED
      BY <3>1 DEF ReadUnchanged, adapterVars, registerVars
  <2>2. ASSUME NEW d \in ReadDpcs, ReadStart(d) \/ SynccomProcessRead(d)
        PROVE  UNCHANGED <<wire, sizeFifo, responses, tally>>
    <3>1. ReadUnchanged
      BY <2>2, Zenon DEF ReadStart, SynccomProcessRead, ReadCheck, ReadRetrieve, StreamRead,
                         FrameReadTake, FrameReadEnd
    <3> QED
      BY <3>1 DEF ReadUnchanged, adapterVars, registerVars
  <2> QED
    BY <1>10, <1>12, <2>1, <2>2
<1>13. CASE PurgeReset \/ PurgeStep
  BY <1>10, <1>13 DEF PurgeReset, PurgeStep, PurgeQueued, PurgeStream, PurgePending, PurgeCancel,
                      PurgeDrain, PurgeUnchanged, adapterVars
<1>14. CASE SendRead
  <2>1. UNCHANGED <<wire, sizeFifo, responses>>
    BY <1>14 DEF SendRead, SendSizeRead, SendCountRead, adapterVars
  <2>2. PICK n : tally' = tally \/ tally' = [tally EXCEPT !.issued = n]
    BY <1>14 DEF SendRead, SendSizeRead, SendCountRead
  <2>3. tally'.sized = tally.sized /\ tally'.popped = tally.popped
    <3>1. CASE tally' = tally
      BY <3>1
    <3>2. CASE tally' = [tally EXCEPT !.issued = n]
      BY <3>2, TallyFields
    <3> QED
      BY <2>2, <3>1, <3>2
  <2> QED
    BY <1>1, <2>1, <2>3 DEF SizesNamed
<1>15. CASE UNCHANGED vars
  BY <1>10, <1>15 DEF vars, adapterVars, registerVars
<1> QED
  BY <1>5, <1>6, <1>7, <1>8, <1>9, <1>11, <1>12, <1>13, <1>14, <1>15
     DEF Next, Adapter, RegisterCompletion

----------------------------------------------------------------------------
(* The bytes. *)

\* The bytes of a stretch that is added to, split, joined to the next one, or
\* kept while the table of offsets grows.
LEMMA PlacedFacts ==
    ASSUME NEW W, NEW top, NEW s \in Seq(Bytes), NEW from \in Nat, Placed(W, top, s, from)
    PROVE  /\ \A b \in Bytes :
                 b[1] <= top /\ W[b[1] - 1] + b[2] = from + Len(s) + 1
                     => Placed(W, top, Append(s, b), from)
           /\ \A n \in 0..Len(s) :
                 /\ Placed(W, top, SubSeq(s, 1, n), from)
                 /\ Placed(W, top, SubSeq(s, n + 1, Len(s)), from + n)
           /\ \A t \in Seq(Bytes) : Placed(W, top, t, from + Len(s)) => Placed(W, top, s \o t, from)
<1>1. \A i \in 1..Len(s) : s[i][1] <= top /\ W[s[i][1] - 1] + s[i][2] = from + i
  BY DEF Placed
<1>2. ASSUME NEW b \in Bytes, b[1] <= top, W[b[1] - 1] + b[2] = from + Len(s) + 1
      PROVE  Placed(W, top, Append(s, b), from)
  <2>1. /\ Len(Append(s, b)) = Len(s) + 1 /\ Append(s, b)[Len(s) + 1] = b
        /\ \A i \in 1..Len(s) : Append(s, b)[i] = s[i]
        /\ \A i \in 1..Len(s) + 1 : i \in 1..Len(s) \/ i = Len(s) + 1
        /\ from + Len(s) + 1 = from + (Len(s) + 1)
    OBVIOUS
  <2> DEFINE longer == Append(s, b)
  <2> HIDE DEF longer
  <2>2. Placed(W, top, longer, from)
    BY <1>1, <1>2, <2>1 DEF Placed, longer
  <2> QED
    BY <2>2 DEF longer
<1>3. ASSUME NEW n \in 0..Len(s)
      PROVE  /\ Placed(W, top, SubSeq(s, 1, n), from)
             /\ Placed(W, top, SubSeq(s, n + 1, Len(s)), from + n)
  <2> DEFINE front == SubSeq(s, 1, n)
             back == SubSeq(s, n + 1, Len(s))
  <2>1. /\ Len(front) = n /\ \A i \in 1..n : front[i] = s[i] /\ i \in 1..Len(s)
        /\ Len(back) = Len(s) - n
        /\ \A i \in 1..Len(s) - n : back[i] = s[n + i] /\ n + i \in 1..Len(s)
                                    /\ from + (n + i) = (from + n) + i
    <3>1. Len(s) \in Nat /\ n \in Nat /\ n <= Len(s)
      OBVIOUS
    <3>2. Len(front) = n /\ \A i \in 1..n : front[i] = s[i] /\ i \in 1..Len(s)
      BY <3>1
    <3>3. Len(back) = Len(s) - n
      BY <3>1
    <3>4. \A i \in 1..Len(s) - n : back[i] = s[n + i] /\ n + i \in 1..Len(s)
      BY <3>1
    <3>5. \A i \in 1..Len(s) - n : from + (n + i) = (from + n) + i
      BY <3>1
    <3> HIDE DEF front, back
    <3> QED
      BY <3>2, <3>3, <3>4, <3>5
  <2> HIDE DEF front, back
  <2>2. Placed(W, top, front, from)
    BY <1>1, <2>1 DEF Placed
  <2>3. Placed(W, top, back, from + n)
    <3> SUFFICES ASSUME NEW i \in 1..Len(back)
                 PROVE  back[i][1] <= top /\ W[back[i][1] - 1] + back[i][2] = (from + n) + i
      BY DEF Placed
    <3>1. back[i] = s[n + i] /\ n + i \in 1..Len(s) /\ from + (n + i) = (from + n) + i
      BY <2>1
    <3> QED
      BY <1>1, <3>1
  <2> QED
    BY <2>2, <2>3 DEF front, back
<1>4. ASSUME NEW t \in Seq(Bytes), Placed(W, top, t, from + Len(s))
      PROVE  Placed(W, top, s \o t, from)
  <2> DEFINE joined == s \o t
  <2>1. /\ Len(joined) = Len(s) + Len(t) /\ \A i \in 1..Len(s) : joined[i] = s[i]
        /\ \A i \in 1..Len(joined) : i \notin 1..Len(s) =>
              /\ i - Len(s) \in 1..Len(t) /\ joined[i] = t[i - Len(s)]
              /\ (from + Len(s)) + (i - Len(s)) = from + i
    <3>1. Len(s) \in Nat /\ Len(t) \in Nat
      OBVIOUS
    <3>2. Len(joined) = Len(s) + Len(t) /\ \A i \in 1..Len(s) : joined[i] = s[i]
      BY <3>1
    <3>3. \A i \in 1..Len(s) + Len(t) : i \notin 1..Len(s) =>
              /\ i - Len(s) \in 1..Len(t) /\ (from + Len(s)) + (i - Len(s)) = from + i
      BY <3>1
    <3>4. \A i \in 1..Len(s) + Len(t) : i \notin 1..Len(s) => joined[i] = t[i - Len(s)]
      BY <3>1
    <3> HIDE DEF joined
    <3> QED
      BY <3>2, <3>3, <3>4
  <2> HIDE DEF joined
  <2>2. Placed(W, top, joined, from)
    <3> SUFFICES ASSUME NEW i \in 1..Len(joined)
                 PROVE  joined[i][1] <= top /\ W[joined[i][1] - 1] + joined[i][2] = from + i
      BY DEF Placed
    <3>1. CASE i \in 1..Len(s)
      BY <1>1, <2>1, <3>1
    <3>2. CASE i \notin 1..Len(s)
      BY <1>4, <2>1, <3>2 DEF Placed
    <3> QED
      BY <3>1, <3>2
  <2> QED
    BY <2>2 DEF joined
<1> QED
  BY <1>2, <1>3, <1>4

\* The table of offsets after one frame more.
LEMMA OffsetsExtend ==
    ASSUME RxAssumption, NEW W, NEW top \in 1..NFrames, Offsets(W, top)
    PROVE  LET V == [i \in 0..top |-> IF i = top THEN W[top - 1] + FrameLengths[top] ELSE W[i]]
           IN  /\ Offsets(V, top + 1)
               /\ V[top] = W[top - 1] + FrameLengths[top]
               /\ \A i \in 0..top - 1 : V[i] = W[i]
               /\ \A s \in Seq(Bytes) : \A from \in Nat :
                     Placed(W, top, s, from) => Placed(V, top + 1, s, from)
<1> DEFINE V == [i \in 0..top |-> IF i = top THEN W[top - 1] + FrameLengths[top] ELSE W[i]]
<1>1. /\ top \in Nat /\ top >= 1 /\ FrameLengths[top] \in Nat
  BY BytesFacts
<1>2. /\ W \in [0..top - 1 -> Nat] /\ W[0] = 0
      /\ \A k \in 1..top - 1 : W[k] = W[k - 1] + FrameLengths[k]
      /\ \A i, j \in 0..top - 1 : i <= j => W[i] <= W[j]
  BY DEF Offsets
<1>3. /\ \A i \in 0..top - 1 : V[i] = W[i] /\ W[i] \in Nat /\ W[i] <= W[top - 1]
      /\ V[top] = W[top - 1] + FrameLengths[top] /\ V[top] \in Nat
      /\ top - 1 \in 0..top - 1 /\ 0 \in 0..top - 1
      /\ \A i \in 0..top : i \in 0..top - 1 \/ i = top
      /\ (top + 1) - 1 = top
  BY <1>1, <1>2
<1>4. V \in [0..top -> Nat]
  BY <1>3
<1> HIDE DEF V
<1>5. \A k \in 1..top : V[k] = V[k - 1] + FrameLengths[k]
  <2> TAKE k \in 1..top
  <2>1. CASE k = top
    BY <1>3, <2>1
  <2>2. CASE k # top
    <3>1. k \in 1..top - 1 /\ k \in 0..top - 1 /\ k - 1 \in 0..top - 1
      BY <1>1, <2>2
    <3> QED
      BY <1>2, <1>3, <3>1
  <2> QED
    BY <2>1, <2>2
<1>6. \A i, j \in 0..top : i <= j => V[i] <= V[j]
  <2> TAKE i, j \in 0..top
  <2> HAVE i <= j
  <2>1. CASE j = top
    <3>1. i = top \/ (i \in 0..top - 1 /\ V[i] \in Nat /\ V[i] <= W[top - 1] /\ W[top - 1] \in Nat)
      BY <1>3
    <3> QED
      BY <1>1, <1>3, <2>1, <3>1
  <2>2. CASE j # top
    <3>1. i \in 0..top - 1 /\ j \in 0..top - 1
      BY <1>1, <2>2
    <3> QED
      BY <1>2, <1>3, <3>1
  <2> QED
    BY <2>1, <2>2
<1>9. \A T : Table(T) => \A i \in 0..top : V[i] = T[i]
  <2> SUFFICES ASSUME NEW T, Table(T), NEW i \in 0..top PROVE V[i] = T[i]
    OBVIOUS
  <2>1. \A j \in 0..top - 1 : W[j] = T[j]
    BY DEF Offsets
  <2>2. T[top] = T[top - 1] + FrameLengths[top]
    BY DEF Table
  <2> QED
    BY <1>3, <2>1, <2>2
<1>7. Offsets(V, top + 1)
  BY <1>2, <1>3, <1>4, <1>5, <1>6, <1>9 DEF Offsets
<1>8. ASSUME NEW s \in Seq(Bytes), NEW from \in Nat, Placed(W, top, s, from)
      PROVE  Placed(V, top + 1, s, from)
  <2> SUFFICES ASSUME NEW i \in 1..Len(s)
               PROVE  s[i][1] <= top + 1 /\ V[s[i][1] - 1] + s[i][2] = from + i
    BY DEF Placed
  <2>1. s[i] \in Bytes
    BY <1>8
  <2>2. s[i][1] \in Nat /\ s[i][1] >= 1
    <3>1. PICK k \in 1..NFrames : \E n \in 1..FrameLengths[k] : s[i] = <<k, n>>
      BY <2>1, BytesFacts
    <3> QED
      BY <3>1
  <2>3. s[i][1] <= top /\ W[s[i][1] - 1] + s[i][2] = from + i
    BY <1>8 DEF Placed
  <2>4. s[i][1] - 1 \in 0..top - 1 /\ s[i][1] <= top + 1
    <3>1. \A a, t \in Nat : a >= 1 /\ a <= t => a - 1 \in 0..t - 1 /\ a <= t + 1
      OBVIOUS
    <3> QED
      BY <1>1, <2>2, <2>3, <3>1
  <2>5. V[s[i][1] - 1] = W[s[i][1] - 1]
    BY <1>3, <2>4
  <2> QED
    BY <2>3, <2>4, <2>5
<1> QED
  BY <1>3, <1>7, <1>8 DEF V

\* Only byte j of frame n is j bytes after the frames before it.
LEMMA OffsetsUnique ==
    ASSUME RxAssumption, NEW W, NEW top \in 1..NFrames + 1, Offsets(W, top),
           NEW n \in 1..top - 1, NEW j \in 1..FrameLengths[n],
           NEW b \in Bytes, b[1] <= top, W[b[1] - 1] + b[2] = W[n - 1] + j
    PROVE  b = <<n, j>>
<1>1. PICK k \in 1..NFrames : \E i \in 1..FrameLengths[k] : b = <<k, i>>
  BY BytesFacts
<1>0. PICK i \in 1..FrameLengths[k] : b = <<k, i>>
  BY <1>1
<1>2. /\ k \in Nat /\ k >= 1 /\ k <= top /\ i \in Nat /\ i >= 1 /\ i <= FrameLengths[k]
      /\ top \in Nat /\ n \in Nat /\ n >= 1 /\ n <= top - 1 /\ n \in 1..NFrames
      /\ FrameLengths[k] \in Nat /\ W[k - 1] + i = W[n - 1] + j
  <2>1. b[1] = k /\ b[2] = i
    BY <1>0
  <2>2. NFrames \in Nat /\ FrameLengths[k] \in Nat
    BY BytesFacts
  <2>3. k <= top /\ W[k - 1] + i = W[n - 1] + j
    BY <2>1
  <2>4. k \in Nat /\ k >= 1 /\ i \in Nat /\ i >= 1 /\ i <= FrameLengths[k]
    BY <2>2
  <2>5. top \in Nat /\ n \in Nat /\ n >= 1 /\ n <= top - 1 /\ n \in 1..NFrames
    BY <2>2
  <2> QED
    BY <2>2, <2>3, <2>4, <2>5
<1>3. /\ j \in Nat /\ j >= 1 /\ j <= FrameLengths[n] /\ FrameLengths[n] \in Nat
  BY <1>2, BytesFacts, SMTT(30)
<1>4. /\ \A m \in 0..top - 1 : W[m] \in Nat
      /\ \A m \in 1..top - 1 : W[m] = W[m - 1] + FrameLengths[m]
      /\ \A l, m \in 0..top - 1 : l <= m => W[l] <= W[m]
  BY DEF Offsets
<1>5. /\ k - 1 \in 0..top - 1 /\ n - 1 \in 0..top - 1 /\ n \in 0..top - 1
      /\ W[n] = W[n - 1] + FrameLengths[n]
  BY <1>2, <1>4
<1>6. W[k - 1] \in Nat /\ W[n - 1] \in Nat
  BY <1>4, <1>5
<1>7. ~(k < n)
  <2> SUFFICES ASSUME k < n PROVE FALSE
    OBVIOUS
  <2>1. k \in 1..top - 1 /\ k \in 0..top - 1 /\ k <= n - 1
    BY <1>2
  <2>2. W[k] = W[k - 1] + FrameLengths[k] /\ W[k] <= W[n - 1]
    BY <1>4, <1>5, <2>1
  <2> DEFINE here  == W[k - 1]
             there == W[n - 1]
             next  == W[k]
             size  == FrameLengths[k]
  <2>3. /\ here \in Nat /\ there \in Nat /\ next \in Nat /\ size \in Nat
        /\ next = here + size /\ next <= there
        /\ here + i = there + j
    BY <1>2, <1>4, <1>6, <2>1, <2>2
  <2>4. i \in Nat /\ j \in Nat /\ i <= size /\ j >= 1
    BY <1>2, <1>3
  <2> HIDE DEF here, there, next, size
  <2> QED
    BY <2>3, <2>4
<1>8. ~(n < k)
  <2> SUFFICES ASSUME n < k PROVE FALSE
    OBVIOUS
  <2>1. n <= k - 1
    BY <1>2
  <2>2. W[n] <= W[k - 1]
    BY <1>4, <1>5, <2>1
  <2> DEFINE here  == W[k - 1]
             there == W[n - 1]
             next  == W[n]
             size  == FrameLengths[n]
  <2>3. /\ here \in Nat /\ there \in Nat /\ next \in Nat /\ size \in Nat
        /\ next = there + size /\ next <= here
        /\ here + i = there + j
    BY <1>2, <1>3, <1>4, <1>5, <1>6, <2>2
  <2>4. i \in Nat /\ j \in Nat /\ j <= size /\ i >= 1
    BY <1>2, <1>3
  <2> HIDE DEF here, there, next, size
  <2> QED
    BY <2>3, <2>4
<1>9. k = n
  BY <1>2, <1>7, <1>8
<1>10. i = j
  BY <1>2, <1>3, <1>6, <1>9
<1> QED
  BY <1>0, <1>9, <1>10

----------------------------------------------------------------------------
(* The frames, one action at a time. *)

LEMMA WholeInit == ASSUME RxAssumption, Init PROVE WholeInv
<1>1. TypeInv /\ SizesInv
  BY TypeInit, SizesInit
<1>2. SizesNamed
  <2>1. Len(<<>>) = 0
    OBVIOUS
  <2> QED
    BY <2>1 DEF Init, SizesNamed
<1>3. Done = 0 /\ Started = 0 /\ Len(pending_iframes.frames) = 0 /\ Len(taken) = 0
      /\ Len(queued_iframes.frames) = 0
  <2>1. Len(<<>>) = 0
    OBVIOUS
  <2>2. taken = <<>> /\ queued_iframes.frames = <<>> /\ pending_iframes.frames = <<>>
    BY DEF Init, EmptyList
  <2> QED
    BY <2>1, <2>2 DEF Done, Started, IsEmptyList
<1>4. FramesOpened /\ FramesDone
  BY <1>3 DEF FramesOpened, FramesDone, Init
<1>5. StreamPlaced
  <2> DEFINE W == [i \in 0..0 |-> 0]
  <2>1. /\ wire.frame = 1 /\ wire.bytes = 0 /\ istream.data = <<>> /\ rx.packet = <<>>
        /\ dataFifo = <<>> /\ Len(<<>>) = 0
    BY DEF Init, NewFrame, IdleRx
  <2>2. Offsets(W, 1) /\ W[0] = 0
    <3>1. \A T : Table(T) => T[0] = 0
      BY DEF Table
    <3> QED
      BY <3>1 DEF Offsets
  <2> HIDE DEF W
  <2>3. Stretch(W)
    BY <1>3, <2>1, <2>2 DEF Stretch, Placed, DataLength
  <2> QED
    BY <2>1, <2>2, <2>3 DEF StreamPlaced
<1> QED
  BY <1>1, <1>2, <1>4, <1>5 DEF WholeInv, FramesPlaced, Init

\* Where the frames of the wire are: done, opened, or not opened yet.
LEMMA OpenedFacts ==
    ASSUME RxAssumption, TypeInv, SizesInv, SizesNamed, FramesOpened
    PROVE  LET opened == Len(pending_iframes.frames)
           IN  /\ Done \in Nat /\ Started \in Nat /\ opened \in Nat
               /\ Len(taken) \in Nat /\ Len(queued_iframes.frames) \in Nat
               /\ Done + opened = tally.completed
               /\ Done + opened <= tally.popped /\ tally.popped <= tally.sized
               /\ tally.sized = wire.frame - 1
               /\ wire.frame \in 1..NFrames + 1 /\ wire.bytes \in Nat /\ NFrames \in Nat
               /\ \A i \in 1..opened : Done + i \in 1..NFrames /\ Done + i \in 1..wire.frame - 1
<1> DEFINE opened == Len(pending_iframes.frames)
<1>1. /\ taken \in Seq([req : 1..Len(reads), data : Seq(Bytes)])
      /\ queued_iframes.frames \in Seq(Frames(Bytes))
      /\ pending_iframes.frames \in Seq(Frames(Bytes))
      /\ wire.frame \in 1..NFrames + 1 /\ wire.bytes \in Nat
  BY ListTypes DEF TypeInv, BufferTypes, ReadTypes, AdapterTypes
<1>2. Len(taken) \in Nat /\ Len(queued_iframes.frames) \in Nat /\ opened \in Nat
  BY <1>1
<1>3. Done \in Nat
  BY <1>2 DEF Done
<1>4. Started \in Nat
  <2>1. ~IsEmptyList(pending_iframes) => PeekFront(pending_iframes).data \in Seq(Bytes)
    <3>1. ~IsEmptyList(pending_iframes) => PeekFront(pending_iframes) \in Frames(Bytes)
      BY ListTypes DEF TypeInv, BufferTypes
    <3> QED
      BY <3>1 DEF Frames
  <2>2. ~IsEmptyList(pending_iframes) => DataLength(PeekFront(pending_iframes)) \in Nat
    BY <2>1 DEF DataLength
  <2> QED
    BY <2>2 DEF Started
<1>5. Done + opened = tally.completed /\ tally.sized = wire.frame - 1
  BY DEF FramesOpened, SizesNamed
<1>6. /\ tally.completed <= tally.popped /\ tally.popped <= tally.sized
      /\ tally.popped \in Nat /\ tally.sized \in Nat
  BY TallyOrder
<1>7. NFrames \in Nat
  BY BytesFacts
<1> HIDE DEF opened
<1>8. \A i \in 1..opened : Done + i \in 1..NFrames /\ Done + i \in 1..wire.frame - 1
  <2>1. PICK top : top = wire.frame
    OBVIOUS
  <2>2. PICK p, z : p = tally.popped /\ z = tally.sized
    OBVIOUS
  <2>3. top \in Nat /\ top - 1 <= NFrames
    BY <1>1, <1>7, <2>1
  <2>4. p \in Nat /\ z \in Nat /\ Done + opened <= p /\ p <= z /\ z = top - 1
    BY <1>5, <1>6, <2>1, <2>2
  <2>5. \A i \in 1..opened : Done + i \in 1..NFrames /\ Done + i \in 1..top - 1
    BY <1>2, <1>3, <1>7, <2>3, <2>4
  <2> QED
    BY <2>1, <2>5
<1> QED
  BY <1>1, <1>2, <1>3, <1>4, <1>5, <1>6, <1>7, <1>8 DEF opened

\* A step that leaves the bytes and the frames alone.
LEMMA KeptPlaced ==
    ASSUME FramesPlaced,
           UNCHANGED <<wire, dataFifo, istream, pending_iframes, queued_iframes, taken>>,
           tally'.completed = tally.completed, rx'.packet = rx.packet,
           rx'.pc = "idle" => rx'.packet = <<>>
    PROVE  FramesPlaced'
<1>1. Done' = Done /\ Started' = Started
  BY DEF Done, Started, IsEmptyList, PeekFront, DataLength
<1>2. FramesOpened'
  BY <1>1 DEF FramesPlaced, FramesOpened
<1>3. FramesDone'
  BY DEF FramesPlaced, FramesDone
<1>4. StreamPlaced'
  <2>1. PICK W : Offsets(W, wire.frame) /\ Stretch(W)
    BY DEF FramesPlaced, StreamPlaced
  <2>2. Offsets(W, wire'.frame) /\ Stretch(W)'
    BY <1>1, <2>1 DEF Stretch, DataLength
  <2> QED
    BY <2>2 DEF StreamPlaced
<1> QED
  BY <1>2, <1>3, <1>4 DEF FramesPlaced

\* Where the stretches begin are numbers.
LEMMA StretchFacts ==
    ASSUME RxAssumption, TypeInv, SizesInv, SizesNamed, FramesPlaced, NEW W, Offsets(W, wire.frame)
    PROVE  LET first  == W[Done] + Started
               second == first + DataLength(istream)
               third  == second + Len(rx.packet)
           IN  /\ Done \in 0..wire.frame - 1 /\ Done \in Nat /\ Started \in Nat
               /\ W[Done] \in Nat /\ W[wire.frame - 1] \in Nat
               /\ dataFifo \in Seq(Bytes) /\ istream.data \in Seq(Bytes) /\ rx.packet \in Seq(Bytes)
               /\ first \in Nat /\ second \in Nat /\ third \in Nat
<1> DEFINE first  == W[Done] + Started
           second == first + DataLength(istream)
           third  == second + Len(rx.packet)
<1>1. PICK k : k = wire.frame
  OBVIOUS
<1>2. k \in Nat /\ k - 1 \in Nat
  <2>1. wire.frame \in Nat /\ wire.frame - 1 \in Nat
    BY OpenedFacts DEF FramesPlaced
  <2> QED
    BY <1>1, <2>1
<1>3. dataFifo \in Seq(Bytes) /\ istream.data \in Seq(Bytes) /\ rx.packet \in Seq(Bytes)
  BY DEF TypeInv, AdapterTypes, BufferTypes, ControlTypes, Frames, RxStates
<1>4. Done \in 0..k - 1 /\ Done \in Nat /\ Started \in Nat
  <2>1. PICK p, z, o : p = tally.popped /\ z = tally.sized /\ o = Len(pending_iframes.frames)
    OBVIOUS
  <2>2. /\ Done \in Nat /\ Started \in Nat /\ o \in Nat /\ p \in Nat
        /\ Done + o <= p /\ p <= z /\ z = k - 1
    BY <1>1, <2>1, OpenedFacts, TallyOrder DEF FramesPlaced
  <2> QED
    BY <1>2, <2>2
<1>5. W[Done] \in Nat /\ W[k - 1] \in Nat
  <2>1. k - 1 \in 0..k - 1
    BY <1>2
  <2> QED
    BY <1>1, <1>4, <2>1 DEF Offsets
<1>6. first \in Nat /\ second \in Nat /\ third \in Nat
  <2>1. DataLength(istream) \in Nat /\ Len(rx.packet) \in Nat
    BY <1>3 DEF DataLength
  <2>2. first \in Nat
    BY <1>4, <1>5
  <2> HIDE DEF first
  <2>3. second \in Nat
    BY <2>1, <2>2
  <2> HIDE DEF second
  <2> QED
    BY <2>1, <2>2, <2>3
<1> HIDE DEF first, second, third
<1> QED
  BY <1>1, <1>3, <1>4, <1>5, <1>6 DEF first, second, third

\* A byte arrives behind the ones the adapter holds.
LEMMA WireBytePlaced ==
    ASSUME RxAssumption, TypeInv, SizesInv, SizesNamed, FramesPlaced, WireByte
    PROVE  FramesPlaced'
<1>1. UNCHANGED <<istream, pending_iframes, queued_iframes, taken, rx>>
      /\ tally'.completed = tally.completed
  <2>1. PICK n : tally' = [tally EXCEPT !.sized = n]
    BY DEF WireByte
  <2>2. tally'.completed = tally.completed
    BY <2>1, TallyFields
  <2> QED
    BY <2>2 DEF WireByte, bufferVars, readVars
<1>2. Done' = Done /\ Started' = Started
  BY <1>1 DEF Done, Started, IsEmptyList, PeekFront, DataLength
<1>3. FramesOpened' /\ FramesDone'
  BY <1>1, <1>2 DEF FramesPlaced, FramesOpened, FramesDone
<1>4. PICK k, j : k = wire.frame /\ j = wire.bytes
  OBVIOUS
<1>10. PICK W : Offsets(W, k) /\ Stretch(W)
  BY <1>4 DEF FramesPlaced, StreamPlaced
<1>5. /\ k \in 1..NFrames /\ k \in Nat /\ k - 1 \in Nat /\ j \in Nat
      /\ j + 1 <= FrameLengths[k] /\ FrameLengths[k] \in Nat
  <2>1. k \in 1..NFrames + 1 /\ j \in Nat /\ k <= NFrames /\ NFrames \in Nat
    BY <1>4, BytesFacts DEF TypeInv, AdapterTypes, WireByte
  <2>2. k \in 1..NFrames /\ k \in Nat /\ k - 1 \in Nat
    BY <2>1
  <2>3. FrameLengths[k] \in Nat /\ FrameLengths[k] >= 1
    BY <2>2, BytesFacts
  <2>4. j # 0 => j < FrameLengths[k]
    BY <1>4 DEF TypeInv, AdapterTypes, WireInside
  <2>5. j + 1 <= FrameLengths[k]
    BY <2>1, <2>3, <2>4
  <2> QED
    BY <2>1, <2>2, <2>3, <2>5
<1>6. dataFifo \in Seq(Bytes) /\ istream.data \in Seq(Bytes) /\ rx.packet \in Seq(Bytes)
  BY <1>4, <1>10, StretchFacts
<1>7. PICK b : b = <<k, j + 1>>
  OBVIOUS
<1>8. b \in Bytes /\ b[1] = k /\ b[2] = j + 1
  <2>1. j + 1 \in 1..FrameLengths[k]
    BY <1>5
  <2> QED
    BY <1>5, <1>7, <2>1, BytesFacts
<1>9. PICK longer \in Seq(Bytes) : longer = Append(dataFifo, b) /\ dataFifo' = longer
                                   /\ Len(longer) = Len(dataFifo) + 1
  <2>1. dataFifo' = Append(dataFifo, b)
    BY <1>4, <1>7 DEF WireByte
  <2>2. Append(dataFifo, b) \in Seq(Bytes) /\ Len(Append(dataFifo, b)) = Len(dataFifo) + 1
    BY <1>6, <1>8
  <2> QED
    BY <2>1, <2>2
<1> DEFINE first  == W[Done] + Started
           second == first + DataLength(istream)
           third  == second + Len(rx.packet)
<1>11. /\ Placed(W, k, istream.data, first) /\ Placed(W, k, rx.packet, second)
       /\ Placed(W, k, dataFifo, third) /\ third + Len(dataFifo) = W[k - 1] + j
  BY <1>4, <1>10 DEF Stretch
<1>12. Done \in 0..k - 1 /\ Done \in Nat /\ Started \in Nat
  BY <1>4, <1>10, StretchFacts
<1>13. W[Done] \in Nat /\ W[k - 1] \in Nat
  BY <1>4, <1>10, StretchFacts
<1>14. first \in Nat /\ second \in Nat /\ third \in Nat
  BY <1>4, <1>10, StretchFacts
<1> HIDE DEF first, second, third
<1>15. third + Len(dataFifo) + 1 = W[k - 1] + (j + 1) /\ third + Len(longer) = W[k - 1] + (j + 1)
  <2>1. PICK w, n : w = W[k - 1] /\ n = Len(dataFifo)
    OBVIOUS
  <2>2. w \in Nat /\ n \in Nat /\ third + n = w + j
    BY <1>6, <1>11, <1>13, <2>1
  <2>3. third + n + 1 = w + (j + 1) /\ third + (n + 1) = w + (j + 1)
    BY <1>5, <1>14, <2>2
  <2> QED
    BY <1>9, <2>1, <2>3
<1>16. Placed(W, k, longer, third)
  <2>1. b[1] <= k /\ W[b[1] - 1] + b[2] = third + Len(dataFifo) + 1
    BY <1>5, <1>8, <1>15
  <2> QED
    BY <1>6, <1>8, <1>9, <1>11, <1>14, <2>1, PlacedFacts
<1>17. ASSUME NEW V, Offsets(V, wire'.frame), V[Done] = W[Done],
              Placed(V, wire'.frame, istream.data, first),
              Placed(V, wire'.frame, rx.packet, second),
              Placed(V, wire'.frame, longer, third),
              third + Len(longer) = V[wire'.frame - 1] + wire'.bytes
       PROVE  StreamPlaced'
  <2>1. Stretch(V)'
    BY <1>1, <1>2, <1>9, <1>17 DEF Stretch, first, second, third, DataLength
  <2>2. rx'.pc = "idle" => rx'.packet = <<>>
    BY <1>1 DEF FramesPlaced, StreamPlaced
  <2> QED
    BY <1>17, <2>1, <2>2 DEF StreamPlaced
<1>18. CASE j + 1 = FrameLengths[k]
  <2>1. PICK V : /\ Offsets(V, k + 1) /\ V[k] = W[k - 1] + FrameLengths[k]
                 /\ \A i \in 0..k - 1 : V[i] = W[i]
                 /\ \A s \in Seq(Bytes) : \A from \in Nat :
                       Placed(W, k, s, from) => Placed(V, k + 1, s, from)
    BY <1>5, <1>10, OffsetsExtend
  <2>2. wire'.frame = k + 1 /\ wire'.bytes = 0
    BY <1>4, <1>18 DEF WireByte
  <2>3. V[Done] = W[Done]
    BY <1>12, <2>1
  <2>4. /\ Placed(V, k + 1, istream.data, first) /\ Placed(V, k + 1, rx.packet, second)
        /\ Placed(V, k + 1, longer, third)
    BY <1>6, <1>11, <1>14, <1>16, <2>1
  <2>5. (k + 1) - 1 = k
    BY <1>5
  <2>6. V[k] + 0 = W[k - 1] + (j + 1)
    <3>1. W[k - 1] + FrameLengths[k] \in Nat
      BY <1>5, <1>13
    <3> QED
      BY <1>18, <2>1, <3>1
  <2>7. third + Len(longer) = V[(k + 1) - 1] + 0
    BY <1>15, <2>5, <2>6
  <2>8. /\ Offsets(V, wire'.frame) /\ Placed(V, wire'.frame, istream.data, first)
        /\ Placed(V, wire'.frame, rx.packet, second) /\ Placed(V, wire'.frame, longer, third)
        /\ third + Len(longer) = V[wire'.frame - 1] + wire'.bytes
    BY <2>1, <2>2, <2>4, <2>7
  <2> QED
    BY <1>3, <1>17, <2>3, <2>8 DEF FramesPlaced
<1>19. CASE j + 1 # FrameLengths[k]
  <2>1. wire'.frame = k /\ wire'.bytes = j + 1
    <3>1. wire' = [wire EXCEPT !.bytes = wire.bytes + 1]
      BY <1>4, <1>19 DEF WireByte
    <3>2. wire \in [frame : 1..NFrames + 1, bytes : Nat]
      BY DEF TypeInv, AdapterTypes
    <3> QED
      BY <1>4, <3>1, <3>2
  <2>2. /\ Offsets(W, wire'.frame) /\ Placed(W, wire'.frame, istream.data, first)
        /\ Placed(W, wire'.frame, rx.packet, second) /\ Placed(W, wire'.frame, longer, third)
        /\ third + Len(longer) = W[wire'.frame - 1] + wire'.bytes
    BY <1>10, <1>11, <1>15, <1>16, <2>1
  <2> QED
    BY <1>3, <1>17, <2>2 DEF FramesPlaced
<1> QED
  BY <1>3, <1>18, <1>19 DEF FramesPlaced

\* A packet is the front of what the adapter holds.
LEMMA RxPacketPlaced ==
    ASSUME RxAssumption, TypeInv, SizesInv, SizesNamed, FramesPlaced, RxPacket
    PROVE  FramesPlaced'
<1>1. UNCHANGED <<wire, istream, pending_iframes, queued_iframes, taken, tally>>
  BY DEF RxPacket, bufferVars, readVars
<1>2. Done' = Done /\ Started' = Started
  BY <1>1 DEF Done, Started, IsEmptyList, PeekFront, DataLength
<1>3. FramesOpened' /\ FramesDone'
  BY <1>1, <1>2 DEF FramesPlaced, FramesOpened, FramesDone
<1>4. PICK W : Offsets(W, wire.frame) /\ Stretch(W)
  BY DEF FramesPlaced, StreamPlaced
<1> DEFINE second == W[Done] + Started + DataLength(istream)
<1>5. dataFifo \in Seq(Bytes) /\ second \in Nat
  BY <1>4, StretchFacts
<1>6. rx.packet = <<>> /\ Len(rx.packet) = 0
  <2>1. Len(<<>>) = 0
    OBVIOUS
  <2> QED
    BY <2>1 DEF RxPacket, FramesPlaced, StreamPlaced
<1>7. PICK n \in 1..Least(MaxPacket, Len(dataFifo)) :
          /\ rx' = [IdleRx EXCEPT !.pc = "queued", !.packet = SubSeq(dataFifo, 1, n)]
          /\ dataFifo' = SubSeq(dataFifo, n + 1, Len(dataFifo))
  BY Zenon DEF RxPacket
<1>8. n \in 0..Len(dataFifo) /\ Len(dataFifo) \in Nat
  BY <1>5, <1>7 DEF Least, RxAssumption
<1>9. rx'.packet = SubSeq(dataFifo, 1, n) /\ rx'.pc = "queued"
  BY <1>7 DEF IdleRx
<1>10. /\ Len(SubSeq(dataFifo, 1, n)) = n
       /\ Len(SubSeq(dataFifo, n + 1, Len(dataFifo))) = Len(dataFifo) - n
  BY <1>5, <1>8
<1> HIDE DEF second
<1>11. /\ Placed(W, wire.frame, istream.data, W[Done] + Started)
       /\ Placed(W, wire.frame, dataFifo, second + 0)
       /\ second + 0 + Len(dataFifo) = W[wire.frame - 1] + wire.bytes
  BY <1>4, <1>6 DEF Stretch, second
<1>12. second + 0 = second /\ second + n + (Len(dataFifo) - n) = second + 0 + Len(dataFifo)
  BY <1>5, <1>8
<1>13. /\ Placed(W, wire.frame, SubSeq(dataFifo, 1, n), second)
       /\ Placed(W, wire.frame, SubSeq(dataFifo, n + 1, Len(dataFifo)), second + n)
  BY <1>5, <1>8, <1>11, <1>12, PlacedFacts
<1>14. Stretch(W)'
  <2>1. /\ Placed(W, wire'.frame, istream'.data, W[Done'] + Started')
        /\ Placed(W, wire'.frame, rx'.packet, second)
        /\ Placed(W, wire'.frame, dataFifo', second + Len(rx'.packet))
        /\ second + Len(rx'.packet) + Len(dataFifo') = W[wire'.frame - 1] + wire'.bytes
    BY <1>1, <1>2, <1>7, <1>9, <1>10, <1>11, <1>12, <1>13
  <2> QED
    BY <1>1, <1>2, <2>1 DEF Stretch, second, DataLength
<1> QED
  BY <1>1, <1>3, <1>4, <1>9, <1>14 DEF FramesPlaced, StreamPlaced

\* A packet goes behind the stream.
LEMMA RxAddPlaced ==
    ASSUME RxAssumption, WordAssumption, TypeInv, SizesInv, SizesNamed, FramesPlaced, RxAdd
    PROVE  FramesPlaced'
<1>1. /\ UNCHANGED <<wire, dataFifo, pending_iframes, queued_iframes, taken, tally>>
      /\ istream' = AddData(istream, rx.packet) /\ rx' = IdleRx
  BY DEF RxAdd, RxUnchanged, adapterVars, registerVars, readVars
<1>2. Done' = Done /\ Started' = Started
  BY <1>1 DEF Done, Started, IsEmptyList, PeekFront, DataLength
<1>3. FramesOpened' /\ FramesDone'
  BY <1>1, <1>2 DEF FramesPlaced, FramesOpened, FramesDone
<1>4. PICK W : Offsets(W, wire.frame) /\ Stretch(W)
  BY DEF FramesPlaced, StreamPlaced
<1> DEFINE first == W[Done] + Started
<1>5. istream.data \in Seq(Bytes) /\ rx.packet \in Seq(Bytes) /\ first \in Nat
  BY <1>4, StretchFacts
<1>6. istream'.data = istream.data \o rx.packet
  <2>1. istream \in Frames(Bytes)
    BY DEF TypeInv, BufferTypes
  <2>2. AddData(istream, rx.packet).data = istream.data \o rx.packet
    BY <1>5, <2>1, AddDataFacts
  <2> QED
    BY <1>1, <2>2
<1>7. rx'.packet = <<>> /\ Len(<<>>) = 0
  BY <1>1 DEF IdleRx
<1> HIDE DEF first
<1>8. /\ Placed(W, wire.frame, istream.data, first)
      /\ Placed(W, wire.frame, rx.packet, first + Len(istream.data))
      /\ Placed(W, wire.frame, dataFifo, first + Len(istream.data) + Len(rx.packet))
      /\ first + Len(istream.data) + Len(rx.packet) + Len(dataFifo) = W[wire.frame - 1] + wire.bytes
  BY <1>4 DEF Stretch, first, DataLength
<1>9. Placed(W, wire.frame, istream.data \o rx.packet, first)
  BY <1>5, <1>8, PlacedFacts
<1>10. first + Len(istream.data \o rx.packet) + 0 = first + Len(istream.data) + Len(rx.packet)
  <2>1. PICK m, n : m = Len(istream.data) /\ n = Len(rx.packet)
    OBVIOUS
  <2>2. m \in Nat /\ n \in Nat /\ Len(istream.data \o rx.packet) = m + n
    BY <1>5, <2>1
  <2>3. first + (m + n) + 0 = first + m + n
    BY <1>5, <2>2
  <2> QED
    BY <2>1, <2>2, <2>3
<1>11. Stretch(W)'
  <2>1. /\ Placed(W, wire'.frame, istream'.data, first)
        /\ Placed(W, wire'.frame, rx'.packet, first + Len(istream'.data))
        /\ Placed(W, wire'.frame, dataFifo', first + Len(istream'.data) + Len(rx'.packet))
        /\ first + Len(istream'.data) + Len(rx'.packet) + Len(dataFifo')
              = W[wire'.frame - 1] + wire'.bytes
    <3>1. Placed(W, wire.frame, <<>>, first + Len(istream'.data))
      BY <1>7 DEF Placed
    <3> QED
      BY <1>1, <1>6, <1>7, <1>8, <1>9, <1>10, <3>1
  <2> QED
    BY <1>2, <2>1 DEF Stretch, first, DataLength
<1> QED
  BY <1>1, <1>3, <1>4, <1>7, <1>11 DEF FramesPlaced, StreamPlaced

\* The size that completes is the one of the next frame to be opened.
LEMMA NextSize ==
    ASSUME RxAssumption, TypeInv, SizesInv, SizesNamed, FramesOpened, Completing("BC_FIFO_L")
    PROVE  LET next == Done + Len(pending_iframes.frames) + 1
           IN  /\ next \in 1..NFrames /\ Head(responses).value = FrameLengths[next]
               /\ pending_frame_size_reads > 0
<1>1. /\ responses # <<>> /\ Head(responses).op = "BC_FIFO_L" /\ responses' = Tail(responses)
      /\ RegisterTypes /\ responses \in Seq(Answers)
      /\ Chain(responses, tally.completed, tally.popped) /\ Chain(pipe, tally.popped, tally.issued)
  BY DEF Completing, SizesInv, RegisterTypes
<1>2. Head(responses) \in Answers /\ Before(Head(responses)) = tally.completed
  BY <1>1, CompleteFacts
<1>3. 1 \in 1..Len(responses) /\ Head(responses) = responses[1]
  BY <1>1
<1>4. PICK c, p, q, z, n : c = tally.completed /\ p = tally.popped /\ q = tally.issued
                           /\ z = tally.sized /\ n = Head(responses).nth
  OBVIOUS
<1>5. /\ c \in Nat /\ p \in Nat /\ q \in Nat /\ z \in Nat /\ c <= p /\ p <= q /\ q <= z
      /\ pending_frame_size_reads \in Nat /\ q - c <= pending_frame_size_reads
  <2>1. pending_frame_size_reads \in Nat /\ q - c <= pending_frame_size_reads
    BY <1>4 DEF SizesInv, RegisterTypes, SizeReadsTracked
  <2> QED
    BY <1>4, <2>1, TallyOrder
<1>6. n \in Nat /\ n - 1 = c /\ n <= p
  <2>1. n \in Nat
    BY <1>2, <1>4 DEF Answers
  <2>2. n - 1 = c
    BY <1>1, <1>2, <1>4 DEF Before
  <2>3. n <= p
    BY <1>1, <1>3, <1>4 DEF Chain
  <2> QED
    BY <2>1, <2>2, <2>3
<1>7. pending_frame_size_reads > 0
  BY <1>5, <1>6
<1>8. n = Done + Len(pending_iframes.frames) + 1 /\ n \in 1..NFrames
  <2>1. PICK o, top : o = Done + Len(pending_iframes.frames) /\ top = wire.frame
    OBVIOUS
  <2>2. o = c /\ z = top - 1 /\ top \in 1..NFrames + 1 /\ NFrames \in Nat
    BY <1>4, <2>1, OpenedFacts
  <2>3. n = c + 1 /\ n \in 1..NFrames
    BY <1>5, <1>6, <2>2
  <2> QED
    BY <2>1, <2>2, <2>3
<1>9. Head(responses).value = FrameLengths[n]
  BY <1>1, <1>3, <1>4 DEF SizesNamed
<1> QED
  BY <1>7, <1>8, <1>9

LEMMA CompleteFrameSizePlaced ==
    ASSUME RxAssumption, WordAssumption, TypeInv, SizesInv, SizesNamed, FramesPlaced,
           CompleteFrameSize
    PROVE  FramesPlaced'
<1>1. /\ UNCHANGED <<wire, dataFifo, istream, queued_iframes, taken, rx>>
      /\ tally' = [tally EXCEPT !.completed = tally.completed + 1]
      /\ Completing("BC_FIFO_L")
  BY DEF CompleteFrameSize, adapterVars, readVars
<1>2. tally'.completed = tally.completed + 1
  BY <1>1, TallyFields
<1>3. PICK frames : frames = pending_iframes.frames
  OBVIOUS
<1>4. PICK done, opened : done = Done /\ opened = Len(frames)
  OBVIOUS
<1>5. /\ done \in Nat /\ opened \in Nat /\ done + opened = tally.completed
      /\ frames \in Seq(Frames(Bytes)) /\ Done = Len(taken) + Len(queued_iframes.frames)
  <2>1. pending_iframes \in Lists(Bytes)
    BY DEF TypeInv, BufferTypes
  <2>2. frames \in Seq(Frames(Bytes))
    BY <1>3, <2>1, ListTypes
  <2> QED
    BY <1>3, <1>4, <2>2, OpenedFacts DEF FramesPlaced, Done
<1> DEFINE value == Head(responses).value
<1>6. /\ done + opened + 1 \in 1..NFrames /\ value = FrameLengths[done + opened + 1]
      /\ pending_frame_size_reads > 0 /\ value \in Nat /\ value > 0
  <2>1. /\ done + opened + 1 \in 1..NFrames /\ value = FrameLengths[done + opened + 1]
        /\ pending_frame_size_reads > 0
    BY <1>1, <1>3, <1>4, NextSize DEF FramesPlaced
  <2>2. \A k \in 1..NFrames : FrameLengths[k] \in Nat /\ FrameLengths[k] > 0
    BY BytesFacts
  <2> HIDE DEF value
  <2>3. value \in Nat /\ value > 0
    BY <2>1, <2>2
  <2> QED
    BY <2>1, <2>3
<1> HIDE DEF value
<1>7. PICK frame \in Frames(Bytes) :
         /\ frame = [NewFrame EXCEPT !.frame_size = value]
         /\ frame.data = <<>> /\ frame.lost_bytes = 0
         /\ frame.frame_size = FrameLengths[done + opened + 1]
  BY <1>6, NewFrameTypes
<1>8. pending_iframes'.frames = Append(frames, frame)
  <2>1. pending_iframes' = AddFrame(pending_iframes, frame)
    BY <1>6, <1>7 DEF CompleteFrameSize, value
  <2> QED
    BY <1>3, <2>1 DEF AddFrame
<1>9. PICK longer : /\ longer = Append(frames, frame) /\ Len(longer) = opened + 1
                    /\ longer[opened + 1] = frame /\ \A i \in 1..opened : longer[i] = frames[i]
                    /\ longer # <<>> /\ Head(longer) = longer[1]
  <2> DEFINE T == Frames(Bytes)
  <2>1. frames \in Seq(T) /\ frame \in T
    BY <1>5
  <2> HIDE DEF T
  <2>2. /\ Len(Append(frames, frame)) = Len(frames) + 1
        /\ Append(frames, frame)[Len(frames) + 1] = frame
        /\ \A i \in 1..Len(frames) : Append(frames, frame)[i] = frames[i]
        /\ Append(frames, frame) \in Seq(T)
    BY <2>1
  <2>3. \A q \in Seq(T) : Len(q) \in Nat /\ (Len(q) > 0 => q # <<>> /\ Head(q) = q[1])
    OBVIOUS
  <2>4. Len(Append(frames, frame)) > 0
    BY <2>1, <2>2, <2>3
  <2> QED
    BY <1>4, <2>2, <2>3, <2>4
<1>10. pending_iframes'.frames = longer
  BY <1>8, <1>9
<1>11. Done' = Done
  BY <1>1 DEF Done
<1>12. (opened = 0 => frames = <<>>) /\ (opened > 0 => frames # <<>> /\ Head(frames) = frames[1])
  <2> DEFINE T == Frames(Bytes)
  <2>1. frames \in Seq(T)
    BY <1>5
  <2> HIDE DEF T
  <2>2. \A q \in Seq(T) : (Len(q) = 0 => q = <<>>) /\ (Len(q) > 0 => q # <<>> /\ Head(q) = q[1])
    OBVIOUS
  <2> QED
    BY <1>4, <2>1, <2>2
<1>13. Started' = Started
  <2>1. CASE opened = 0
    <3>1. Started = 0
      BY <1>3, <1>12, <2>1 DEF Started, IsEmptyList
    <3>2. PeekFront(pending_iframes)' = frame /\ ~IsEmptyList(pending_iframes)'
      BY <1>9, <1>10, <2>1 DEF PeekFront, IsEmptyList
    <3>3. Len(<<>>) = 0
      OBVIOUS
    <3> QED
      BY <1>7, <3>1, <3>2, <3>3 DEF Started, DataLength
  <2>2. CASE opened > 0
    <3>1. 1 \in 1..opened
      BY <1>5, <2>2
    <3>2. Head(longer) = Head(frames) /\ frames # <<>>
      BY <1>9, <1>12, <2>2, <3>1
    <3> QED
      BY <1>3, <1>9, <1>10, <3>2 DEF Started, IsEmptyList, PeekFront
  <2> QED
    BY <1>5, <2>1, <2>2
<1>14. /\ \A i \in 1..opened : /\ frames[i].frame_size = FrameLengths[done + i]
                               /\ frames[i].lost_bytes = 0 /\ (i > 1 => frames[i].data = <<>>)
       /\ opened > 0 => /\ Started < FrameLengths[done + 1]
                        /\ \A j \in 1..Started : frames[1].data[j] = <<done + 1, j>>
  BY <1>3, <1>4 DEF FramesPlaced, FramesOpened
<1>15. \A i \in 1..opened + 1 :
          /\ longer[i].frame_size = FrameLengths[done + i]
          /\ longer[i].lost_bytes = 0 /\ (i > 1 => longer[i].data = <<>>)
  <2> TAKE i \in 1..opened + 1
  <2>1. CASE i \in 1..opened
    BY <1>9, <1>14, <2>1
  <2>2. CASE i = opened + 1
    <3>1. done + opened + 1 = done + (opened + 1)
      BY <1>5
    <3> QED
      BY <1>7, <1>9, <2>2, <3>1
  <2>3. i \in 1..opened \/ i = opened + 1
    BY <1>5
  <2> QED
    BY <2>1, <2>2, <2>3
<1>16. /\ Started < FrameLengths[done + 1]
       /\ \A j \in 1..Started : longer[1].data[j] = <<done + 1, j>>
  <2>1. CASE opened = 0
    <3>1. Started = 0 /\ FrameLengths[done + 1] = value
      <4>1. done + 0 + 1 = done + 1
        BY <1>5
      <4> QED
        BY <1>3, <1>6, <1>12, <2>1, <4>1 DEF Started, IsEmptyList
    <3> QED
      BY <1>6, <3>1
  <2>2. CASE opened > 0
    <3>1. 1 \in 1..opened
      BY <1>5, <2>2
    <3> QED
      BY <1>9, <1>14, <2>2, <3>1
  <2> QED
    BY <1>5, <2>1, <2>2
<1>17. FramesOpened'
  <2>1. tally'.completed = Done' + Len(pending_iframes'.frames)
    <3>1. done + opened + 1 = done + (opened + 1)
      BY <1>5
    <3> QED
      BY <1>2, <1>4, <1>5, <1>9, <1>10, <1>11, <3>1
  <2> QED
    BY <1>4, <1>9, <1>10, <1>11, <1>13, <1>15, <1>16, <2>1 DEF FramesOpened
<1>18. FramesDone'
  BY <1>1 DEF FramesPlaced, FramesDone
<1>19. StreamPlaced'
  <2>1. PICK W : Offsets(W, wire.frame) /\ Stretch(W)
    BY DEF FramesPlaced, StreamPlaced
  <2>2. Offsets(W, wire'.frame) /\ Stretch(W)'
    BY <1>1, <1>11, <1>13, <2>1 DEF Stretch, DataLength
  <2> QED
    BY <1>1, <2>2 DEF FramesPlaced, StreamPlaced
<1> QED
  BY <1>17, <1>18, <1>19 DEF FramesPlaced

\* A read takes the first frame that is complete.
LEMMA FrameReadTakePlaced ==
    ASSUME RxAssumption, WordAssumption, TypeInv, SizesInv, SizesNamed, FramesPlaced,
           NEW d \in ReadDpcs, FrameReadTake(d)
    PROVE  /\ FramesPlaced' /\ Done' = Done /\ Len(queued_iframes.frames) > 0
           /\ Len(taken') = Len(taken) + 1
           /\ \A k \in 1..Len(taken) : taken'[k] = taken[k]
           /\ taken'[Len(taken) + 1].data = FrameBytes(Len(taken) + 1)
<1>1. /\ UNCHANGED <<wire, dataFifo, istream, pending_iframes, rx, tally>>
      /\ queued_iframes' = RemoveFrame(queued_iframes)
  BY DEF FrameReadTake, ReadUnchanged, adapterVars, registerVars
<1>2. PICK frames : frames = queued_iframes.frames
  OBVIOUS
<1>3. PICK n, m : n = Len(taken) /\ m = Len(frames)
  OBVIOUS
<1>4. PICK entry \in [req : 1..Len(reads), data : Seq(Bytes)] :
          taken' = Append(taken, entry) /\ entry.data = frames[1].data
      /\ frames # <<>> /\ frames \in Seq(Frames(Bytes))
      /\ taken \in Seq([req : 1..Len(reads), data : Seq(Bytes)])
  <2> DEFINE entry == [req |-> dpc[d].req, data |-> PeekFront(queued_iframes).data]
  <2>1. /\ entry \in [req : 1..Len(reads), data : Seq(Bytes)] /\ taken' = Append(taken, entry)
        /\ frames # <<>> /\ PeekFront(queued_iframes) = frames[1]
    BY <1>2, TakeFacts DEF TypeInv
  <2>2. frames \in Seq(Frames(Bytes))
    BY <1>2, ListTypes DEF TypeInv, BufferTypes
  <2>3. taken \in Seq([req : 1..Len(reads), data : Seq(Bytes)])
    BY DEF TypeInv, ReadTypes
  <2>4. entry.data = frames[1].data
    BY <2>1
  <2> QED
    BY <2>1, <2>2, <2>3, <2>4
<1>5. /\ n \in Nat /\ m \in Nat /\ m > 0
      /\ queued_iframes'.frames = Tail(frames) /\ Len(Tail(frames)) = m - 1
      /\ \A i \in 1..m - 1 : Tail(frames)[i] = frames[i + 1]
  <2> DEFINE T == Frames(Bytes)
  <2>1. frames \in Seq(T) /\ frames # <<>>
    BY <1>4
  <2>2. queued_iframes'.frames = Tail(frames)
    BY <1>1, <1>2 DEF RemoveFrame
  <2> HIDE DEF T
  <2>3. /\ m \in Nat /\ m > 0 /\ Len(Tail(frames)) = m - 1
        /\ \A i \in 1..m - 1 : Tail(frames)[i] = frames[i + 1]
    BY <1>3, <2>1
  <2>4. n \in Nat
    BY <1>3, <1>4
  <2> QED
    BY <2>2, <2>3, <2>4
<1>6. /\ Len(taken') = n + 1 /\ taken'[n + 1] = entry
      /\ \A k \in 1..n : taken'[k] = taken[k]
  <2> DEFINE T == [req : 1..Len(reads), data : Seq(Bytes)]
  <2>1. taken \in Seq(T) /\ entry \in T
    BY <1>4
  <2> HIDE DEF T
  <2> QED
    BY <1>3, <1>4, <2>1
<1>7. Done' = Done /\ Started' = Started
  <2>1. Done = n + m /\ Done' = (n + 1) + (m - 1)
    BY <1>2, <1>3, <1>5, <1>6 DEF Done
  <2>2. (n + 1) + (m - 1) = n + m
    BY <1>5
  <2> QED
    BY <1>1, <2>1, <2>2 DEF Started, IsEmptyList, PeekFront, DataLength
<1>8. /\ \A k \in 1..n : taken[k].data = FrameBytes(k)
      /\ \A i \in 1..m : frames[i].data = FrameBytes(n + i)
  BY <1>2, <1>3 DEF FramesPlaced, FramesDone
<1>9. entry.data = FrameBytes(n + 1)
  <2>1. 1 \in 1..m
    BY <1>5
  <2> QED
    BY <1>4, <1>8, <2>1
<1>10. FramesDone'
  <2>1. \A k \in 1..n + 1 : taken'[k].data = FrameBytes(k)
    <3>1. \A k \in 1..n + 1 : k \in 1..n \/ k = n + 1
      BY <1>5
    <3> QED
      BY <1>6, <1>8, <1>9, <3>1
  <2>2. \A i \in 1..m - 1 : Tail(frames)[i].data = FrameBytes((n + 1) + i)
    <3> TAKE i \in 1..m - 1
    <3>1. i + 1 \in 1..m /\ n + (i + 1) = (n + 1) + i
      BY <1>5
    <3> QED
      BY <1>5, <1>8, <3>1
  <2> QED
    BY <1>5, <1>6, <2>1, <2>2 DEF FramesDone
<1>11. FramesOpened'
  BY <1>1, <1>7 DEF FramesPlaced, FramesOpened
<1>12. StreamPlaced'
  <2>1. PICK W : Offsets(W, wire.frame) /\ Stretch(W)
    BY DEF FramesPlaced, StreamPlaced
  <2>2. Offsets(W, wire'.frame) /\ Stretch(W)'
    BY <1>1, <1>7, <2>1 DEF Stretch, DataLength
  <2> QED
    BY <1>1, <2>2 DEF FramesPlaced, StreamPlaced
<1> QED
  BY <1>2, <1>3, <1>5, <1>6, <1>7, <1>9, <1>10, <1>11, <1>12 DEF FramesPlaced

LEMMA ConcatFacts ==
    ASSUME NEW T, NEW s \in Seq(T), NEW t \in Seq(T)
    PROVE  /\ Len(s \o t) = Len(s) + Len(t) /\ \A j \in 1..Len(s) : (s \o t)[j] = s[j]
           /\ \A j \in 1..Len(s) + Len(t) :
                 j \notin 1..Len(s) => j - Len(s) \in 1..Len(t) /\ (s \o t)[j] = t[j - Len(s)]
<1>1. Len(s) \in Nat /\ Len(t) \in Nat
  OBVIOUS
<1>2. Len(s \o t) = Len(s) + Len(t) /\ \A j \in 1..Len(s) : (s \o t)[j] = s[j]
  BY <1>1
<1>3. \A j \in 1..Len(s) + Len(t) : j \notin 1..Len(s) => j - Len(s) \in 1..Len(t)
  BY <1>1
<1>4. \A j \in 1..Len(s) + Len(t) : j \notin 1..Len(s) => (s \o t)[j] = t[j - Len(s)]
  BY <1>1
<1> QED
  BY <1>2, <1>3, <1>4

\* What the first pending frame is after it took bytes of the stream: the first
\* bytes of the frame of the wire it stands for, and complete with the last one.
LEMMA FilledFacts ==
    ASSUME RxAssumption, WidthAssumption, WordAssumption, TypeInv, SizesInv, SizesNamed,
           FramesPlaced, IframeReady
    PROVE  LET first  == PeekFront(pending_iframes)
               size   == FrameLengths[Done + 1]
               n      == AmountToMove(first, istream)
               filled == CopyTo(first, istream)
           IN  /\ pending_iframes.frames # <<>> /\ first = pending_iframes.frames[1]
               /\ Done + 1 \in 1..NFrames /\ Done + 1 \in 1..wire.frame - 1
               /\ first.frame_size = size /\ size \in Nat /\ size > 0 /\ size < WORD
               /\ first \in Frames(Bytes) /\ Started = Len(first.data)
               /\ n \in 0..Len(istream.data) /\ Started + n <= size
               /\ filled \in Frames(Bytes) /\ filled.frame_size = size /\ filled.lost_bytes = 0
               /\ Len(filled.data) = Started + n
               /\ \A j \in 1..Started + n : filled.data[j] = <<Done + 1, j>>
               /\ Complete(filled) <=> Started + n = size
               /\ CopyFrom(first, istream) \in Frames(Bytes)
               /\ CopyFrom(first, istream).data
                     = SubSeq(istream.data, n + 1, Len(istream.data))
<1>1. PICK first, filled, rest : /\ first = PeekFront(pending_iframes)
                                 /\ filled = CopyTo(first, istream)
                                 /\ rest = CopyFrom(first, istream)
  OBVIOUS
<1>2. PICK done, size, n, m : /\ done = Done + 1 /\ size = FrameLengths[done] /\ m = Started
                              /\ n = AmountToMove(first, istream)
  OBVIOUS
<1>3. /\ pending_iframes.frames # <<>> /\ first = pending_iframes.frames[1]
      /\ first \in Frames(Bytes) /\ Len(pending_iframes.frames) > 0
      /\ 1 \in 1..Len(pending_iframes.frames)
  <2> DEFINE T == Frames(Bytes)
  <2>1. /\ pending_iframes.frames # <<>> /\ first = pending_iframes.frames[1] /\ first \in T
        /\ pending_iframes.frames \in Seq(T)
    BY <1>1, ListTypes DEF IframeReady, IsEmptyList, TypeInv, BufferTypes
  <2> HIDE DEF T
  <2>2. \A q \in Seq(T) : q # <<>> => Len(q) > 0 /\ 1 \in 1..Len(q)
    OBVIOUS
  <2> QED
    BY <2>1, <2>2 DEF T
<1>4. m = Len(first.data) /\ m \in Nat /\ first.data \in Seq(Bytes)
  BY <1>1, <1>2, <1>3 DEF Started, IsEmptyList, DataLength, Frames
<1>5. done \in 1..NFrames /\ done \in 1..wire.frame - 1 /\ done = Done + 1
  BY <1>2, <1>3, OpenedFacts DEF FramesPlaced
<1>6. /\ first.frame_size = size /\ first.lost_bytes = 0 /\ m < size
      /\ \A j \in 1..m : first.data[j] = <<done, j>>
  BY <1>2, <1>3, <1>5 DEF FramesPlaced, FramesOpened
<1>7. size \in Nat /\ size > 0 /\ size < WORD
  <2>1. size \in Nat /\ size >= 1
    BY <1>2, <1>5, BytesFacts
  <2>2. size < WORD
    BY <1>2, <1>5 DEF WidthAssumption
  <2> QED
    BY <2>1, <2>2
<1>8. /\ istream \in Frames(Bytes) /\ istream.data \in Seq(Bytes) /\ Len(istream.data) \in Nat
      /\ DataLength(istream) = Len(istream.data)
  BY DEF TypeInv, BufferTypes, Frames, DataLength
<1>9. /\ n \in 0..Len(istream.data)
      /\ filled \in Frames(Bytes) /\ filled.data = first.data \o SubSeq(istream.data, 1, n)
      /\ filled.frame_size = size /\ filled.lost_bytes = 0
      /\ rest \in Frames(Bytes) /\ rest.data = SubSeq(istream.data, n + 1, Len(istream.data))
  <2>1. /\ AmountToMove(first, istream) \in 0..DataLength(istream)
        /\ CopyTo(first, istream) \in Frames(Bytes)
        /\ CopyTo(first, istream).data
              = first.data \o SubSeq(istream.data, 1, AmountToMove(first, istream))
        /\ CopyTo(first, istream).frame_size = first.frame_size
        /\ CopyTo(first, istream).lost_bytes = first.lost_bytes
        /\ CopyFrom(first, istream) \in Frames(Bytes)
        /\ CopyFrom(first, istream).data
              = SubSeq(istream.data, AmountToMove(first, istream) + 1, DataLength(istream))
    <3>1. first \in Frames(Bytes) /\ istream \in Frames(Bytes)
      BY <1>3, <1>8
    <3> QED
      <4>1. AmountToMove(first, istream) \in 0..DataLength(istream)
        BY <3>1, CopyFacts
      <4>2. CopyTo(first, istream) \in Frames(Bytes)
        BY <3>1, CopyFacts
      <4>3. CopyTo(first, istream).data
              = first.data \o SubSeq(istream.data, 1, AmountToMove(first, istream))
        <5>1. PICK moved \in Seq(Bytes) : moved = Removed(istream, AmountToMove(first, istream))
          BY <3>1, <4>1, RemovedFacts DEF DataLength, Frames
        <5>2. AddData(first, moved).data = first.data \o moved
          BY <3>1, AddDataFacts
        <5>3. moved = SubSeq(istream.data, 1, AmountToMove(first, istream))
          <6>1. Least(AmountToMove(first, istream), DataLength(istream)) = AmountToMove(first, istream)
            BY <1>8, <4>1 DEF Least
          <6> QED
            BY <5>1, <6>1 DEF Removed
        <5> QED
          BY <5>1, <5>2, <5>3 DEF CopyTo
      <4>4. /\ CopyTo(first, istream).frame_size = first.frame_size
            /\ CopyTo(first, istream).lost_bytes = first.lost_bytes
        BY <3>1, CopyFacts
      <4>5. CopyFrom(first, istream) \in Frames(Bytes)
        BY <3>1, CopyFacts
      <4>6. CopyFrom(first, istream).data
              = SubSeq(istream.data, AmountToMove(first, istream) + 1, DataLength(istream))
        BY <3>1, CopyFacts
      <4> QED
        BY <4>1, <4>2, <4>3, <4>4, <4>5, <4>6
  <2> QED
    BY <1>1, <1>2, <1>6, <1>8, <2>1, Zenon
<1>10. n <= size - m
  <2>1. n = Least(Len(istream.data), (size - (m + 0)) % WORD)
    BY <1>2, <1>4, <1>6, <1>8 DEF AmountToMove, DataLength
  <2>2. size - (m + 0) = size - m /\ size - m \in Nat /\ size - m < WORD
    BY <1>4, <1>6, <1>7, WordAssumption
  <2>3. (size - m) % WORD = size - m
    BY <2>2, ModuloSmall
  <2>4. n = Least(Len(istream.data), size - m)
    BY <2>1, <2>2, <2>3
  <2>5. \A a, b \in Nat : Least(a, b) <= b
    BY DEF Least
  <2> QED
    BY <1>8, <2>2, <2>4, <2>5
<1>11. PICK moved \in Seq(Bytes) : /\ moved = SubSeq(istream.data, 1, n) /\ Len(moved) = n
                                   /\ \A i \in 1..n : moved[i] = istream.data[i]
                                                      /\ i \in 1..Len(istream.data)
  <2>1. /\ SubSeq(istream.data, 1, n) \in Seq(Bytes) /\ Len(SubSeq(istream.data, 1, n)) = n
        /\ \A i \in 1..n : SubSeq(istream.data, 1, n)[i] = istream.data[i]
                           /\ i \in 1..Len(istream.data)
    BY <1>8, <1>9
  <2> QED
    BY <2>1
<1>12. /\ Len(filled.data) = m + n /\ \A j \in 1..m : filled.data[j] = first.data[j]
       /\ \A j \in 1..m + n : j \notin 1..m => j - m \in 1..n /\ filled.data[j] = moved[j - m]
  <2>1. filled.data = first.data \o moved
    BY <1>9, <1>11
  <2> QED
    BY <1>4, <1>11, <2>1, ConcatFacts
<1>13. \A i \in 1..n : moved[i] = <<done, m + i>>
  <2> TAKE i \in 1..n
  <2>1. PICK W : Offsets(W, wire.frame) /\ Stretch(W)
    BY DEF FramesPlaced, StreamPlaced
  <2>2. PICK b \in Bytes : b = moved[i] /\ b = istream.data[i]
    BY <1>8, <1>11
  <2>3. b[1] <= wire.frame /\ W[b[1] - 1] + b[2] = W[Done] + m + i
    BY <1>2, <1>11, <2>1, <2>2 DEF Stretch, Placed
  <2>4. Done = done - 1 /\ Done \in Nat /\ W[Done] \in Nat /\ wire.frame \in 1..NFrames + 1
    <3>1. Done \in Nat /\ wire.frame \in 1..NFrames + 1
      BY OpenedFacts DEF FramesPlaced
    <3>2. W[Done] \in Nat
      BY <2>1, StretchFacts
    <3>3. Done = done - 1
      BY <1>5, <3>1
    <3> QED
      BY <3>1, <3>2, <3>3
  <2>5. m + i \in 1..FrameLengths[done] /\ W[Done] + m + i = W[done - 1] + (m + i)
    <3>1. m + i \in 1..size
      BY <1>4, <1>7, <1>9, <1>10
    <3>2. i \in Nat
      BY <1>9
    <3>3. W[Done] + m + i = W[Done] + (m + i)
      BY <1>4, <2>4, <3>2
    <3> QED
      BY <1>2, <2>4, <3>1, <3>3
  <2>6. PICK top, j : top = wire.frame /\ j = m + i
    OBVIOUS
  <2>7. /\ top \in 1..NFrames + 1 /\ Offsets(W, top) /\ done \in 1..top - 1
        /\ j \in 1..FrameLengths[done] /\ b[1] <= top
        /\ W[b[1] - 1] + b[2] = W[done - 1] + j
    BY <1>5, <2>1, <2>3, <2>4, <2>5, <2>6
  <2>8. b = <<done, j>>
    BY <2>7, OffsetsUnique
  <2> QED
    BY <2>2, <2>6, <2>8
<1>14. \A j \in 1..m + n : filled.data[j] = <<done, j>>
  <2> TAKE j \in 1..m + n
  <2>1. CASE j \in 1..m
    BY <1>6, <1>12, <2>1
  <2>2. CASE j \notin 1..m
    <3>1. j - m \in 1..n /\ filled.data[j] = moved[j - m]
      BY <1>12, <2>2
    <3>2. m + (j - m) = j
      BY <1>4, <1>9
    <3> QED
      BY <1>13, <3>1, <3>2
  <2> QED
    BY <2>1, <2>2
<1>15. m + n \in Nat /\ m + n <= size
  BY <1>4, <1>7, <1>9, <1>10
<1>16. Complete(filled) <=> m + n = size
  <2>1. (m + n + 0) % WORD = m + n
    <3>1. m + n + 0 = m + n /\ m + n < WORD
      BY <1>7, <1>15, WordAssumption
    <3> QED
      BY <1>15, <3>1, ModuloSmall
  <2>2. Complete(filled) <=> m + n >= size
    BY <1>9, <1>12, <2>1 DEF Complete, DataLength
  <2> QED
    BY <1>7, <1>15, <2>2
<1> QED
  BY <1>1, <1>2, <1>3, <1>4, <1>5, <1>6, <1>7, <1>9, <1>12, <1>14, <1>15, <1>16

\* A complete frame moves whole to the fresh one.
LEMMA MovesWhole ==
    ASSUME WordAssumption, NEW B, NEW filled \in Frames(B), NEW size \in Nat,
           size > 0, size < WORD, Len(filled.data) = size
    PROVE  /\ CopyTo([NewFrame EXCEPT !.frame_size = size], filled).data = filled.data
           /\ DataLength(CopyFrom([NewFrame EXCEPT !.frame_size = size], filled)) = 0
<1>1. PICK fresh \in Frames(B) : /\ fresh = [NewFrame EXCEPT !.frame_size = size]
                                 /\ fresh.data = <<>> /\ fresh.lost_bytes = 0
                                 /\ fresh.frame_size = size
  BY NewFrameTypes
<1>2. DataLength(filled) = size /\ DataLength(fresh) = 0 /\ filled.data \in Seq(B)
  <2>1. Len(<<>>) = 0
    OBVIOUS
  <2> QED
    BY <1>1, <2>1 DEF DataLength, Frames
<1>3. AmountToMove(fresh, filled) = size
  <2>1. AmountToMove(fresh, filled) = Least(size, (size - (0 + 0)) % WORD)
    BY <1>1, <1>2 DEF AmountToMove
  <2>2. (size - (0 + 0)) % WORD = size
    <3>1. size - (0 + 0) = size
      OBVIOUS
    <3> QED
      BY <3>1, ModuloSmall
  <2> QED
    BY <2>1, <2>2 DEF Least
<1>4. PICK moved \in Seq(B) : moved = Removed(filled, size)
  BY <1>2, RemovedFacts
<1>5. moved = filled.data
  <2>1. moved = SubSeq(filled.data, 1, Least(size, size))
    BY <1>2, <1>4 DEF Removed
  <2>2. Least(size, size) = size
    BY DEF Least
  <2>3. SubSeq(filled.data, 1, Len(filled.data)) = filled.data
    BY <1>2
  <2> QED
    BY <2>1, <2>2, <2>3
<1>6. AddData(fresh, moved).data = fresh.data \o moved
  <2>1. fresh \in Frames(B) /\ moved \in Seq(B)
    BY <1>1, <1>4
  <2> QED
    BY <2>1, AddDataFacts
<1>7. <<>> \o moved = moved
  OBVIOUS
<1>8. CopyTo(fresh, filled).data = filled.data
  BY <1>1, <1>3, <1>4, <1>5, <1>6, <1>7 DEF CopyTo
<1>9. DataLength(CopyFrom(fresh, filled)) = 0
  <2>1. CopyFrom(fresh, filled).data = SubSeq(filled.data, size + 1, size)
    BY <1>1, <1>2, <1>3, CopyFacts
  <2>2. Len(SubSeq(filled.data, size + 1, size)) = 0
    BY <1>2
  <2> QED
    BY <2>1, <2>2 DEF DataLength
<1> QED
  BY <1>1, <1>8, <1>9

\* iframe_worker opens no frame and drops no byte: what leaves the stream is in
\* the first pending frame, or in the frame it completed.
LEMMA IframeLoopPlaced ==
    ASSUME RxAssumption, WidthAssumption, WordAssumption, TypeInv, SizesInv, SizesNamed,
           FramesPlaced, IframeLoop
    PROVE  /\ FramesPlaced' /\ Done' \in {Done, Done + 1}
           /\ pending_iframes'.estimated_memory_usage = pending_iframes.estimated_memory_usage
<1>1. UNCHANGED <<wire, dataFifo, taken, rx, tally>> /\ IframeReady
  BY DEF IframeLoop, adapterVars, registerVars, readVars
<1>2. PICK first, filled, rest, frames, waiting :
         /\ first = PeekFront(pending_iframes) /\ filled = CopyTo(first, istream)
         /\ rest = CopyFrom(first, istream)
         /\ frames = pending_iframes.frames /\ waiting = queued_iframes.frames
  OBVIOUS
<1>3. PICK done, size, n, m, opened, ready :
         /\ done = Done /\ size = FrameLengths[Done + 1] /\ n = AmountToMove(first, istream)
         /\ m = Started /\ opened = Len(frames) /\ ready = Len(waiting)
  OBVIOUS
<1>4. /\ frames # <<>> /\ first = frames[1] /\ first \in Frames(Bytes)
      /\ done + 1 \in 1..NFrames /\ done + 1 \in 1..wire.frame - 1
      /\ first.frame_size = size /\ size \in Nat /\ size > 0 /\ size < WORD
      /\ n \in 0..Len(istream.data) /\ m + n <= size
      /\ filled \in Frames(Bytes) /\ filled.frame_size = size /\ filled.lost_bytes = 0
      /\ Len(filled.data) = m + n
      /\ \A j \in 1..m + n : filled.data[j] = <<done + 1, j>>
      /\ Complete(filled) <=> m + n = size
      /\ rest.data = SubSeq(istream.data, n + 1, Len(istream.data))
  BY <1>1, <1>2, <1>3, FilledFacts
<1>5. /\ done \in Nat /\ m \in Nat /\ opened \in Nat /\ ready \in Nat
      /\ done = Len(taken) + ready /\ Len(taken) \in Nat /\ done + opened = tally.completed
  BY <1>2, <1>3, OpenedFacts DEF FramesPlaced, Done
<1>6. /\ frames \in Seq(Frames(Bytes)) /\ waiting \in Seq(Frames(Bytes))
      /\ pending_iframes \in Lists(Bytes) /\ queued_iframes \in Lists(Bytes)
      /\ istream.data \in Seq(Bytes) /\ n \in Nat /\ opened > 0
      /\ 1 \in DOMAIN pending_iframes.frames
  <2> DEFINE T == Frames(Bytes)
  <2>1. /\ frames \in Seq(T) /\ waiting \in Seq(T)
        /\ pending_iframes \in Lists(Bytes) /\ queued_iframes \in Lists(Bytes)
    BY <1>2, ListTypes DEF TypeInv, BufferTypes
  <2>2. istream.data \in Seq(Bytes)
    BY DEF TypeInv, BufferTypes, Frames
  <2>3. n \in Nat
    BY <1>4
  <2> HIDE DEF T
  <2>4. Len(frames) > 0 /\ 1 \in DOMAIN frames
    BY <1>4, <2>1
  <2> QED
    BY <1>2, <1>3, <2>1, <2>2, <2>3, <2>4 DEF T
<1>7. /\ \A i \in 1..opened : /\ frames[i].frame_size = FrameLengths[done + i]
                              /\ frames[i].lost_bytes = 0 /\ (i > 1 => frames[i].data = <<>>)
      /\ \A k \in 1..Len(taken) : taken[k].data = FrameBytes(k)
      /\ \A i \in 1..ready : waiting[i].data = FrameBytes(Len(taken) + i)
  BY <1>2, <1>3 DEF FramesPlaced, FramesOpened, FramesDone
<1> DEFINE First(frame) == [pending_iframes EXCEPT !.frames[1] = frame]
           fresh == [NewFrame EXCEPT !.frame_size = size]
<1>8. \A frame \in Frames(Bytes) :
         /\ First(frame).frames \in Seq(Frames(Bytes)) /\ Len(First(frame).frames) = opened
         /\ First(frame).frames[1] = frame
         /\ \A i \in 1..opened : i > 1 => First(frame).frames[i] = frames[i]
         /\ First(frame).frames # <<>>
         /\ First(frame).estimated_memory_usage = pending_iframes.estimated_memory_usage
  <2> TAKE frame \in Frames(Bytes)
  <2>7. First(frame).estimated_memory_usage = pending_iframes.estimated_memory_usage
    BY <1>6 DEF Lists
  <2>1. /\ First(frame) \in Lists(Bytes) /\ Len(First(frame).frames) = opened
        /\ First(frame).frames = [frames EXCEPT ![1] = frame]
    <3>1. pending_iframes \in Lists(Bytes) /\ 1 \in DOMAIN pending_iframes.frames
      BY <1>6
    <3>2. /\ [pending_iframes EXCEPT !.frames[1] = frame] \in Lists(Bytes)
          /\ Len([pending_iframes EXCEPT !.frames[1] = frame].frames)
                   = Len(pending_iframes.frames)
          /\ [pending_iframes EXCEPT !.frames[1] = frame].frames
                   = [pending_iframes.frames EXCEPT ![1] = frame]
      BY <3>1, ReplaceTypes, SMTT(30)
    <3> QED
      BY <1>2, <1>3, <3>2
  <2>2. PICK q : q = First(frame).frames
    OBVIOUS
  <2>3. q \in Seq(Frames(Bytes)) /\ Len(q) = opened /\ q = [frames EXCEPT ![1] = frame]
    BY <2>1, <2>2, ListTypes
  <2> DEFINE T == Frames(Bytes)
  <2>4. frames \in Seq(T) /\ q \in Seq(T)
    BY <1>6, <2>3
  <2> HIDE DEF T, First
  <2>5. q[1] = frame /\ (\A i \in 1..opened : i > 1 => q[i] = frames[i])
    BY <1>3, <1>6, <2>3, <2>4
  <2>6. q # <<>>
    <3>1. \A s \in Seq(T) : Len(s) > 0 => s # <<>>
      OBVIOUS
    <3> QED
      BY <1>6, <2>3, <2>4, <3>1
  <2> QED
    BY <2>2, <2>3, <2>5, <2>6, <2>7
<1>9. /\ istream' = rest
      /\ IF Complete(filled)
         THEN /\ queued_iframes' = AddFrame(queued_iframes, CopyTo(fresh, filled))
              /\ pending_iframes' = RemoveFrame(First(CopyFrom(fresh, filled)))
         ELSE pending_iframes' = First(filled) /\ UNCHANGED queued_iframes
  <2>1. first.frame_size # 0
    BY <1>4
  <2> QED
    BY <1>2, <1>4, <2>1, SMTT(30) DEF IframeLoop
<1> HIDE DEF First, fresh
<1>10. PICK W : Offsets(W, wire.frame) /\ Stretch(W)
  BY DEF FramesPlaced, StreamPlaced
<1>11. W[done] \in Nat
  BY <1>3, <1>10, StretchFacts
<1>12. ASSUME FramesOpened', FramesDone', W[Done'] + Started' = W[done] + m + n
       PROVE  FramesPlaced'
  <2>1. /\ Placed(W, wire.frame, istream.data, W[done] + m)
        /\ Placed(W, wire.frame, rx.packet, W[done] + m + Len(istream.data))
        /\ Placed(W, wire.frame, dataFifo, W[done] + m + Len(istream.data) + Len(rx.packet))
        /\ W[done] + m + Len(istream.data) + Len(rx.packet) + Len(dataFifo)
              = W[wire.frame - 1] + wire.bytes
    BY <1>3, <1>10 DEF Stretch, DataLength
  <2>2. Placed(W, wire.frame, rest.data, W[done] + m + n)
    <3>1. PICK from \in Nat : from = W[done] + m
      BY <1>5, <1>11
    <3>2. Placed(W, wire.frame, istream.data, from)
      BY <2>1, <3>1
    <3>3. Placed(W, wire.frame, SubSeq(istream.data, n + 1, Len(istream.data)), from + n)
      BY <1>4, <1>6, <3>1, <3>2, PlacedFacts
    <3> QED
      BY <1>4, <3>1, <3>3
  <2>3. W[done] + m + n + Len(rest.data) = W[done] + m + Len(istream.data)
    <3>1. Len(rest.data) = Len(istream.data) - n /\ Len(istream.data) \in Nat
      BY <1>4, <1>6
    <3>2. \A a, b, c, l \in Nat : a + b + c + (l - c) = a + b + l
      OBVIOUS
    <3> QED
      BY <1>5, <1>6, <1>11, <3>1, <3>2, SMTT(30)
  <2>4. Stretch(W)'
    BY <1>1, <1>9, <1>12, <2>1, <2>2, <2>3 DEF Stretch, DataLength
  <2> QED
    BY <1>1, <1>10, <1>12, <2>4 DEF FramesPlaced, StreamPlaced
<1> DEFINE Estimate == pending_iframes.estimated_memory_usage
<1>13. CASE ~Complete(filled)
  <2>e. Estimate' = Estimate
    BY <1>4, <1>8, <1>9, <1>13
  <2>1. pending_iframes' = First(filled) /\ UNCHANGED queued_iframes /\ Done' = done
    BY <1>1, <1>3, <1>9, <1>13 DEF Done
  <2>2. PICK next : next = First(filled).frames
    OBVIOUS
  <2>3. /\ next \in Seq(Frames(Bytes)) /\ Len(next) = opened /\ next # <<>>
        /\ next[1] = filled /\ \A i \in 1..opened : i > 1 => next[i] = frames[i]
    BY <1>4, <1>8, <2>2
  <2>4. pending_iframes'.frames = next /\ Head(next) = filled
    <3> DEFINE T == Frames(Bytes)
    <3>1. next \in Seq(T)
      BY <2>3
    <3> HIDE DEF T
    <3>2. \A q \in Seq(T) : q # <<>> => Head(q) = q[1]
      OBVIOUS
    <3> QED
      BY <2>1, <2>2, <2>3, <3>1, <3>2
  <2>5. Started' = m + n
    BY <1>4, <2>3, <2>4 DEF Started, IsEmptyList, PeekFront, DataLength
  <2>6. m + n < size
    BY <1>4, <1>5, <1>6, <1>13
  <2>7. \A i \in 1..opened : /\ next[i].frame_size = FrameLengths[done + i]
                             /\ next[i].lost_bytes = 0 /\ (i > 1 => next[i].data = <<>>)
    <3> TAKE i \in 1..opened
    <3>1. CASE i = 1
      BY <1>3, <1>4, <2>3, <3>1, SMTT(30)
    <3>2. CASE i # 1
      <4>1. i > 1
        BY <1>5, <3>2
      <4> QED
        BY <1>7, <2>3, <4>1
    <3> QED
      BY <3>1, <3>2
  <2>8. FramesOpened'
    <3>1. tally'.completed = Done' + Len(pending_iframes'.frames)
      BY <1>1, <1>5, <2>1, <2>3, <2>4
    <3>2. \A j \in 1..m + n : next[1].data[j] = <<done + 1, j>>
      BY <1>4, <2>3
    <3> QED
      BY <1>3, <2>1, <2>3, <2>4, <2>5, <2>6, <2>7, <3>1, <3>2 DEF FramesOpened
  <2>9. FramesDone'
    BY <1>1, <2>1 DEF FramesPlaced, FramesDone
  <2>10. W[Done'] + Started' = W[done] + m + n
    <3>1. \A a, b, c \in Nat : a + (b + c) = a + b + c
      OBVIOUS
    <3> QED
      BY <1>5, <1>6, <1>11, <2>1, <2>5, <3>1
  <2> QED
    BY <1>3, <1>12, <2>1, <2>8, <2>9, <2>10, <2>e
<1>14. CASE Complete(filled)
  <2>1. PICK whole, empty : whole = CopyTo(fresh, filled) /\ empty = CopyFrom(fresh, filled)
    OBVIOUS
  <2>2. m + n = size
    BY <1>4, <1>14
  <2>3. whole \in Frames(Bytes) /\ empty \in Frames(Bytes) /\ whole.data = filled.data
    <3>1. fresh \in Frames(Bytes)
      BY <1>4, NewFrameTypes DEF fresh
    <3>2. whole.data = filled.data
      BY <1>4, <2>1, <2>2, MovesWhole DEF fresh
    <3> QED
      BY <1>4, <2>1, <3>1, <3>2, CopyFacts
  <2>4. filled.data = FrameBytes(done + 1)
    <3>1. filled.data \in Seq(Bytes)
      BY <1>4 DEF Frames
    <3>2. filled.data = [j \in 1..Len(filled.data) |-> filled.data[j]]
      BY <3>1
    <3>3. /\ filled.data = [j \in 1..size |-> filled.data[j]]
          /\ \A j \in 1..size : filled.data[j] = <<done + 1, j>>
      BY <1>4, <2>2, <3>2
    <3> QED
      BY <1>3, <3>3 DEF FrameBytes
  <2>5. /\ queued_iframes' = AddFrame(queued_iframes, whole)
        /\ pending_iframes' = RemoveFrame(First(empty))
    BY <1>9, <1>14, <2>1
  <2>6. PICK old, next : old = First(empty).frames /\ next = Tail(old)
    OBVIOUS
  <2>7. /\ old \in Seq(Frames(Bytes)) /\ Len(old) = opened /\ old # <<>>
        /\ \A i \in 1..opened : i > 1 => old[i] = frames[i]
        /\ old[1] = empty
    BY <1>8, <2>3, <2>6
  <2>8. /\ pending_iframes'.frames = next /\ next \in Seq(Frames(Bytes)) /\ Len(next) = opened - 1
        /\ \A i \in 1..opened - 1 : next[i] = frames[i + 1]
    <3> DEFINE T == Frames(Bytes)
    <3>1. old \in Seq(T)
      BY <2>7
    <3>2. pending_iframes'.frames = next
      BY <2>5, <2>6 DEF RemoveFrame
    <3> HIDE DEF T
    <3>3. next \in Seq(T) /\ Len(next) = opened - 1 /\ \A i \in 1..opened - 1 : next[i] = old[i + 1]
      BY <2>6, <2>7, <3>1
    <3>4. \A i \in 1..opened - 1 : i + 1 \in 1..opened /\ i + 1 > 1
      BY <1>5
    <3> QED
      BY <2>7, <3>2, <3>3, <3>4 DEF T
  <2>9. PICK more : /\ queued_iframes'.frames = more /\ Len(more) = ready + 1
                    /\ more[ready + 1] = whole /\ \A i \in 1..ready : more[i] = waiting[i]
    <3> DEFINE T == Frames(Bytes)
    <3>1. waiting \in Seq(T) /\ whole \in T
      BY <1>6, <2>3
    <3>2. queued_iframes'.frames = Append(waiting, whole)
      BY <1>2, <2>5 DEF AddFrame
    <3> HIDE DEF T
    <3>3. /\ Len(Append(waiting, whole)) = ready + 1 /\ Append(waiting, whole)[ready + 1] = whole
          /\ \A i \in 1..ready : Append(waiting, whole)[i] = waiting[i]
      BY <1>3, <3>1
    <3> QED
      BY <3>2, <3>3
  <2>10. Done' = done + 1
    <3>1. Done' = Len(taken) + (ready + 1)
      BY <1>1, <2>9 DEF Done
    <3> QED
      BY <1>5, <3>1
  <2>11. Started' = 0
    <3>1. CASE next = <<>>
      BY <2>8, <3>1 DEF Started, IsEmptyList
    <3>2. CASE next # <<>>
      <4> DEFINE T == Frames(Bytes)
      <4>1. next \in Seq(T)
        BY <2>8
      <4> HIDE DEF T
      <4>2. \A q \in Seq(T) : q # <<>> => Head(q) = q[1] /\ 1 \in 1..Len(q)
        OBVIOUS
      <4>3. Head(next) = next[1] /\ 1 \in 1..opened - 1
        BY <2>8, <3>2, <4>1, <4>2
      <4>4. next[1] = frames[1 + 1] /\ 1 + 1 \in 1..opened /\ 1 + 1 > 1
        BY <1>5, <2>8, <4>3
      <4>5. Head(next).data = <<>> /\ Len(<<>>) = 0
        BY <1>7, <4>3, <4>4
      <4> QED
        BY <2>8, <3>2, <4>5 DEF Started, IsEmptyList, PeekFront, DataLength
    <3> QED
      BY <3>1, <3>2
  <2>12. \A i \in 1..opened - 1 : /\ next[i].frame_size = FrameLengths[(done + 1) + i]
                                  /\ next[i].lost_bytes = 0 /\ next[i].data = <<>>
    <3> TAKE i \in 1..opened - 1
    <3>1. i + 1 \in 1..opened /\ i + 1 > 1 /\ done + (i + 1) = (done + 1) + i
      BY <1>5
    <3> QED
      BY <1>7, <2>8, <3>1
  <2>13. FramesOpened'
    <3>1. tally'.completed = Done' + Len(next)
      <4>1. (done + 1) + (opened - 1) = done + opened
        BY <1>5
      <4> QED
        BY <1>1, <1>5, <2>8, <2>10, <4>1
    <3>2. Len(next) > 0 => Started' < FrameLengths[Done' + 1]
      <4>1. Len(next) > 0 => 1 \in 1..opened
        BY <1>5, <2>8
      <4>2. Len(next) > 0 => (done + 1) + 1 \in 1..NFrames
        <5>1. PICK c, z, top, p : /\ c = tally.completed /\ z = tally.sized /\ top = wire.frame
                                  /\ p = tally.popped
          OBVIOUS
        <5>2. /\ done + opened <= p /\ p <= z /\ z = top - 1 /\ top \in 1..NFrames + 1
              /\ NFrames \in Nat /\ p \in Nat
          BY <1>2, <1>3, <5>1, OpenedFacts, TallyOrder DEF FramesPlaced
        <5> QED
          BY <1>5, <2>8, <5>2
      <4>3. \A k \in 1..NFrames : FrameLengths[k] \in Nat /\ FrameLengths[k] >= 1
        BY BytesFacts
      <4> QED
        BY <2>10, <2>11, <4>2, <4>3
    <3> QED
      BY <2>8, <2>10, <2>11, <2>12, <3>1, <3>2 DEF FramesOpened
  <2>14. FramesDone'
    <3>1. \A i \in 1..ready + 1 : more[i].data = FrameBytes(Len(taken) + i)
      <4> TAKE i \in 1..ready + 1
      <4>1. CASE i \in 1..ready
        BY <1>7, <2>9, <4>1
      <4>2. CASE i = ready + 1
        <5>1. done + 1 = Len(taken) + (ready + 1)
          BY <1>5
        <5> QED
          BY <2>3, <2>4, <2>9, <4>2, <5>1
      <4>3. i \in 1..ready \/ i = ready + 1
        BY <1>5
      <4> QED
        BY <4>1, <4>2, <4>3
    <3> QED
      BY <1>1, <1>7, <2>9, <3>1 DEF FramesDone
  <2>15. W[Done'] + Started' = W[done] + m + n
    <3>1. W[done + 1] = W[(done + 1) - 1] + FrameLengths[done + 1] /\ (done + 1) - 1 = done
      <4>1. \A k \in 1..wire.frame - 1 : W[k] = W[k - 1] + FrameLengths[k]
        BY <1>10 DEF Offsets
      <4>2. (done + 1) - 1 = done
        BY <1>5
      <4> QED
        BY <1>4, <4>1, <4>2
    <3>2. W[done + 1] = W[done] + size
      BY <1>3, <3>1
    <3>3. W[done] + size = W[done] + m + n /\ W[done] + size \in Nat
      <4>1. \A a, b, c \in Nat : a + (b + c) = a + b + c /\ a + (b + c) \in Nat
        OBVIOUS
      <4> QED
        BY <1>5, <1>6, <1>11, <2>2, <4>1, SMTT(30)
    <3> QED
      BY <2>10, <2>11, <3>2, <3>3
  <2>16. Estimate' = Estimate
    <3> DEFINE T == Frames(Bytes)
    <3>1. old \in Seq(T)
      BY <2>7
    <3> HIDE DEF T
    <3>2. \A q \in Seq(T) : q # <<>> => Head(q) = q[1]
      OBVIOUS
    <3>3. PeekFront(First(empty)) = empty
      BY <2>6, <2>7, <3>1, <3>2 DEF PeekFront
    <3>4. DataLength(empty) = 0
      BY <1>4, <2>1, <2>2, MovesWhole DEF fresh
    <3>5. First(empty).estimated_memory_usage = Estimate /\ Estimate \in Int
      BY <1>6, <1>8, <2>3, ListTypes
    <3>6. Estimate' = Estimate - 0
      BY <2>5, <3>3, <3>4, <3>5 DEF RemoveFrame
    <3> QED
      BY <3>5, <3>6
  <2> QED
    BY <1>3, <1>12, <2>10, <2>13, <2>14, <2>15, <2>16
<1> QED
  BY <1>13, <1>14

LEMMA FramesPlacedStep ==
    ASSUME RxAssumption, WidthAssumption, WordAssumption, MaxPurges = 0, MaxFailures = 0,
           Untrimmed, WholeInv, ~streaming, [Next]_vars
    PROVE  FramesPlaced'
<1>1. /\ TypeInv /\ SizesInv /\ SizesNamed /\ FramesPlaced /\ purge = "idle"
      /\ rx.pc = "idle" => rx.packet = <<>>
  BY DEF WholeInv, FramesPlaced, StreamPlaced
<1>2. rx \in RxStates /\ rx.packet \in Seq(Bytes) /\ bound.purges \in Nat /\ bound.failures \in Nat
  BY <1>1 DEF TypeInv, ControlTypes, RxStates
<1>3. CASE WireByte
  BY <1>1, <1>3, WireBytePlaced
<1>4. CASE ExecuteReceiverReset
  <2>1. pipe # <<>> /\ Head(pipe).op = "RRES" /\ pipe \in Seq(Requests)
    BY <1>1, <1>4 DEF ExecuteReceiverReset, Executing, SizesInv, RegisterTypes
  <2>2. Head(pipe) \in Requests
    BY <2>1, SeqFacts
  <2> QED
    BY <2>1, <2>2 DEF Requests
<1>5. ASSUME UNCHANGED <<wire, dataFifo, istream, pending_iframes, queued_iframes, taken, rx>>,
             tally'.completed = tally.completed
      PROVE  FramesPlaced'
  BY <1>1, <1>5, KeptPlaced
<1>6. CASE ExecuteFrameCount \/ ExecuteFrameSize
  <2>1. UNCHANGED <<wire, dataFifo, istream, pending_iframes, queued_iframes, taken, rx>>
    BY <1>6 DEF ExecuteFrameCount, ExecuteFrameSize, adapterVars, bufferVars, readVars
  <2>2. PICK n : tally' = tally \/ tally' = [tally EXCEPT !.popped = n]
    BY <1>6 DEF ExecuteFrameCount, ExecuteFrameSize
  <2>3. tally'.completed = tally.completed
    <3>1. CASE tally' = tally
      BY <3>1
    <3>2. CASE tally' = [tally EXCEPT !.popped = n]
      BY <1>1, <3>2, TallyFields
    <3> QED
      BY <2>2, <3>1, <3>2
  <2> QED
    BY <1>5, <2>1, <2>3
<1>7. CASE CompleteFrameCount \/ SendRead
  <2>1. UNCHANGED <<wire, dataFifo, istream, pending_iframes, queued_iframes, taken, rx>>
    BY <1>7 DEF CompleteFrameCount, SendRead, SendSizeRead, SendCountRead, adapterVars, bufferVars,
                readVars
  <2>2. PICK n : tally' = tally \/ tally' = [tally EXCEPT !.issued = n]
    BY <1>7 DEF CompleteFrameCount, SendRead, SendSizeRead, SendCountRead
  <2>3. tally'.completed = tally.completed
    <3>1. CASE tally' = tally
      BY <3>1
    <3>2. CASE tally' = [tally EXCEPT !.issued = n]
      BY <1>1, <3>2, TallyFields
    <3> QED
      BY <2>2, <3>1, <3>2
  <2> QED
    BY <1>5, <2>1, <2>3
<1>8. CASE CompleteFrameSize
  BY <1>1, <1>8, CompleteFrameSizePlaced
<1>9. CASE CompleteWithError
  <2>1. bound.failures < MaxFailures
    BY <1>9 DEF CompleteWithError
  <2> QED
    BY <1>2, <2>1
<1>10. CASE RxPacket
  BY <1>1, <1>10, RxPacketPlaced
<1>11. CASE RxUsageQueued \/ RxUsageStream \/ RxUsagePending
  <2>1. /\ UNCHANGED <<wire, dataFifo, istream, pending_iframes, queued_iframes, taken, tally>>
    BY <1>11 DEF RxUsageQueued, RxUsageStream, RxUsagePending, RxUnchanged, adapterVars,
                 bufferVars, readVars, registerVars
  <2>2. rx'.packet = rx.packet /\ rx'.pc # "idle"
    <3>1. CASE RxUsageQueued
      <4> DEFINE u == (rx.usage + queued_iframes.estimated_memory_usage) % WORD
      <4>1. rx' = [rx EXCEPT !.usage = u, !.pc = "istream"]
        BY <3>1 DEF RxUsageQueued, AddUsage
      <4> HIDE DEF u
      <4> QED
        BY <1>2, <4>1 DEF RxStates
    <3>2. CASE RxUsageStream
      <4> DEFINE u == (rx.usage + DataLength(istream)) % WORD
      <4>1. rx' = [rx EXCEPT !.usage = u, !.pc = "pending"]
        BY <3>2 DEF RxUsageStream, AddUsage
      <4> HIDE DEF u
      <4> QED
        BY <1>2, <4>1 DEF RxStates
    <3>3. CASE RxUsagePending
      <4> DEFINE u == (rx.usage + pending_iframes.estimated_memory_usage) % WORD
      <4>1. rx' = [rx EXCEPT !.usage = u, !.pc = "trim"]
        BY <3>3 DEF RxUsagePending, AddUsage
      <4> HIDE DEF u
      <4> QED
        BY <1>2, <4>1 DEF RxStates
    <3> QED
      BY <1>11, <3>1, <3>2, <3>3
  <2> QED
    BY <1>1, <2>1, <2>2, KeptPlaced
<1>12. CASE RxTrim
  <2>1. Kept(Len(rx.packet)) = Len(rx.packet) /\ Len(rx.packet) \in Nat
    BY <1>2, <1>12 DEF RxTrim, Untrimmed
  <2>2. /\ UNCHANGED <<wire, dataFifo, istream, pending_iframes, queued_iframes, taken, tally>>
        /\ rx' = IF Len(rx.packet) = 0 THEN IdleRx
                 ELSE [rx EXCEPT !.packet = SubSeq(rx.packet, 1, Len(rx.packet)), !.pc = "add"]
    BY <1>12, <2>1 DEF RxTrim, RxUnchanged, adapterVars, readVars, registerVars
  <2>3. SubSeq(rx.packet, 1, Len(rx.packet)) = rx.packet
        /\ (Len(rx.packet) = 0 => rx.packet = <<>>)
    BY <1>2
  <2>4. rx'.packet = rx.packet /\ (rx'.pc = "idle" => rx'.packet = <<>>)
    <3>1. CASE Len(rx.packet) = 0
      BY <2>2, <2>3, <3>1 DEF IdleRx
    <3>2. CASE Len(rx.packet) # 0
      <4>1. rx' = [rx EXCEPT !.packet = rx.packet, !.pc = "add"]
        BY <2>2, <2>3, <3>2
      <4> QED
        BY <1>2, <4>1 DEF RxStates
    <3> QED
      BY <3>1, <3>2
  <2> QED
    BY <1>1, <2>2, <2>4, KeptPlaced
<1>13. CASE RxAdd
  BY <1>1, <1>13, RxAddPlaced
<1>14. CASE Timer \/ IframeStart \/ IframeEnd
  BY <1>5, <1>14 DEF Timer, IframeStart, IframeEnd, adapterVars, bufferVars, readVars, registerVars
<1>15. CASE IframeLoop
  BY <1>1, <1>15, IframeLoopPlaced
<1>16. CASE SyncComEvtIoRead
  BY <1>5, <1>16 DEF SyncComEvtIoRead, ReadUnchanged, adapterVars, registerVars
<1>17. ASSUME NEW d \in ReadDpcs, ReadStart(d) \/ ReadCheck(d) \/ ReadRetrieve(d) \/ FrameReadEnd(d)
       PROVE  FramesPlaced'
  BY <1>5, <1>17 DEF ReadStart, ReadCheck, ReadRetrieve, FrameReadEnd, ReadUnchanged, adapterVars,
                     registerVars
<1>18. ASSUME NEW d \in ReadDpcs, FrameReadTake(d)
       PROVE  FramesPlaced'
  BY <1>1, <1>18, FrameReadTakePlaced
<1>19. ASSUME NEW d \in ReadDpcs, StreamRead(d)
       PROVE  FramesPlaced'
  BY <1>19 DEF StreamRead
<1>20. CASE PurgeReset \/ PurgeStep
  BY <1>1, <1>2, <1>20 DEF PurgeReset, PurgeStep, PurgeQueued, PurgeStream, PurgePending,
                           PurgeCancel, PurgeDrain
<1>21. CASE UNCHANGED vars
  BY <1>5, <1>21 DEF vars, adapterVars, bufferVars, readVars, registerVars
<1> QED
  BY <1>3, <1>4, <1>6, <1>7, <1>8, <1>9, <1>10, <1>11, <1>12, <1>13, <1>14, <1>15, <1>16, <1>17,
     <1>18, <1>19, <1>20, <1>21
     DEF Next, Adapter, RegisterCompletion, RxStep, IframeWorker, SynccomProcessRead

\* The mode of the port stays, and no purge starts.
LEMMA ModeStep ==
    ASSUME TypeInv, MaxPurges = 0, purge = "idle", [Next]_vars
    PROVE  streaming' = streaming /\ purge' = "idle"
<1>1. bound.purges \in Nat
  BY DEF TypeInv, ControlTypes
<1>2. ~(PurgeReset \/ PurgeStep)
  BY <1>1 DEF PurgeReset, PurgeStep, PurgeQueued, PurgeStream, PurgePending, PurgeCancel, PurgeDrain
<1>3. purge' = "idle"
  <2>1. CASE WireByte \/ Adapter \/ RegisterCompletion
    BY <2>1 DEF WireByte, Adapter, ExecuteFrameCount, ExecuteFrameSize, ExecuteReceiverReset,
                RegisterCompletion, CompleteFrameCount, CompleteFrameSize, CompleteWithError,
                SendRead, SendSizeRead, SendCountRead
  <2>2. CASE RxPacket \/ RxStep \/ Timer \/ IframeWorker
    BY <2>2 DEF RxPacket, RxStep, RxUsageQueued, RxUsageStream, RxUsagePending, RxTrim, RxAdd,
                RxUnchanged, Timer, IframeWorker, IframeStart, IframeLoop, IframeEnd
  <2>3. CASE \/ SyncComEvtIoRead
             \/ \E d \in ReadDpcs : ReadStart(d) \/ SynccomProcessRead(d)
    BY <2>3 DEF SyncComEvtIoRead, ReadStart, SynccomProcessRead, ReadCheck, ReadRetrieve,
                StreamRead, FrameReadTake, FrameReadEnd, ReadUnchanged
  <2> QED
    BY <1>2, <2>1, <2>2, <2>3 DEF Next, vars
<1> QED
  BY <1>3, StreamingStays

LEMMA WholeStep ==
    ASSUME RxAssumption, WidthAssumption, WordAssumption, MaxPurges = 0, MaxFailures = 0,
           Untrimmed, WholeInv, [Next]_vars
    PROVE  WholeInv'
<1>1. TypeInv' /\ SizesInv'
  BY TypeStep, SizesStep DEF WholeInv
<1>2. streaming' = streaming /\ purge' = "idle"
  BY ModeStep DEF WholeInv
<1>3. ~streaming => SizesNamed' /\ FramesPlaced'
  <2> SUFFICES ASSUME ~streaming PROVE SizesNamed' /\ FramesPlaced'
    OBVIOUS
  <2>1. SizesNamed'
    BY <1>1, SizesNamedStep DEF WholeInv
  <2> QED
    BY <2>1, FramesPlacedStep
<1> QED
  BY <1>1, <1>2, <1>3 DEF WholeInv

\* What the invariant says of the frames a reader sees.
LEMMA WholeIntact ==
    ASSUME RxAssumption, WholeInv
    PROVE  FramesIntact
<1> SUFFICES ASSUME ~streaming PROVE FramesIntact
  BY DEF FramesIntact
<1>1. PICK n, m, waiting : n = Len(taken) /\ m = Len(waiting) /\ waiting = queued_iframes.frames
  OBVIOUS
<1>2. /\ n \in Nat /\ m \in Nat /\ Done = n + m /\ NFrames \in Nat /\ n + m <= NFrames
  <2>1. PICK o, z, top, p : /\ o = Len(pending_iframes.frames) /\ z = tally.sized
                            /\ top = wire.frame /\ p = tally.popped
    OBVIOUS
  <2>2. TypeInv /\ SizesInv /\ SizesNamed /\ FramesOpened
    BY DEF WholeInv, FramesPlaced
  <2>3. /\ n \in Nat /\ m \in Nat /\ Done = n + m /\ NFrames \in Nat /\ o \in Nat
        /\ Done + o <= p /\ p <= z /\ z = top - 1 /\ top \in 1..NFrames + 1 /\ p \in Nat
    BY <1>1, <2>1, <2>2, OpenedFacts, TallyOrder DEF Done
  <2> QED
    BY <2>3
<1>3. /\ taken \in Seq([req : 1..Len(reads), data : Seq(Bytes)])
      /\ waiting \in Seq(Frames(Bytes))
  BY <1>1, ListTypes DEF WholeInv, TypeInv, ReadTypes, BufferTypes
<1>4. PICK a : a = [i \in DOMAIN taken |-> taken[i].data]
  OBVIOUS
<1>5. PICK b : b = [i \in DOMAIN waiting |-> waiting[i].data]
  OBVIOUS
<1>6. a \in Seq(Seq(Bytes)) /\ Len(a) = n /\ \A k \in 1..n : a[k] = FrameBytes(k)
  <2> DEFINE T == [req : 1..Len(reads), data : Seq(Bytes)]
  <2>1. taken \in Seq(T) /\ \A x \in T : x.data \in Seq(Bytes)
    BY <1>3
  <2> HIDE DEF T
  <2>2. DOMAIN taken = 1..n /\ \A k \in 1..n : taken[k] \in T
    BY <1>1, <2>1
  <2>3. a = [i \in 1..n |-> taken[i].data] /\ \A i \in 1..n : taken[i].data \in Seq(Bytes)
    BY <1>4, <2>1, <2>2
  <2>4. \A k \in 1..n : taken[k].data = FrameBytes(k)
    BY <1>1 DEF WholeInv, FramesPlaced, FramesDone
  <2> DEFINE S == Seq(Bytes)
  <2>5. a \in [1..n -> S]
    BY <2>3
  <2> HIDE DEF S
  <2>6. a \in Seq(S) /\ Len(a) = n
    BY <1>2, <2>5
  <2> QED
    BY <2>3, <2>4, <2>6 DEF S
<1>7. b \in Seq(Seq(Bytes)) /\ Len(b) = m /\ \A k \in 1..m : b[k] = FrameBytes(n + k)
  <2> DEFINE T == Frames(Bytes)
  <2>1. waiting \in Seq(T) /\ \A x \in T : x.data \in Seq(Bytes)
    BY <1>3 DEF Frames
  <2> HIDE DEF T
  <2>2. DOMAIN waiting = 1..m /\ \A k \in 1..m : waiting[k] \in T
    BY <1>1, <2>1
  <2>3. b = [i \in 1..m |-> waiting[i].data] /\ \A i \in 1..m : waiting[i].data \in Seq(Bytes)
    BY <1>5, <2>1, <2>2
  <2>4. \A k \in 1..m : waiting[k].data = FrameBytes(n + k)
    BY <1>1 DEF WholeInv, FramesPlaced, FramesDone
  <2> DEFINE S == Seq(Bytes)
  <2>5. b \in [1..m -> S]
    BY <2>3
  <2> HIDE DEF S
  <2>6. b \in Seq(S) /\ Len(b) = m
    BY <1>2, <2>5
  <2> QED
    BY <2>3, <2>4, <2>6 DEF S
<1>8. PICK seen : seen = a \o b
  OBVIOUS
<1>9. /\ DOMAIN seen = 1..n + m
      /\ \A k \in 1..n + m : seen[k] = FrameBytes(k)
  <2> DEFINE S == Seq(Bytes)
  <2>1. a \in Seq(S) /\ b \in Seq(S)
    BY <1>6, <1>7
  <2> HIDE DEF S
  <2>2. /\ Len(seen) = n + m /\ \A k \in 1..n : seen[k] = a[k]
        /\ \A k \in 1..n + m : k \notin 1..n => k - n \in 1..m /\ seen[k] = b[k - n]
    <3>1. Len(a) = n /\ Len(b) = m
      BY <1>6, <1>7
    <3>2. /\ Len(a \o b) = Len(a) + Len(b) /\ \A j \in 1..Len(a) : (a \o b)[j] = a[j]
          /\ \A j \in 1..Len(a) + Len(b) :
                j \notin 1..Len(a) => j - Len(a) \in 1..Len(b) /\ (a \o b)[j] = b[j - Len(a)]
      BY <2>1, ConcatFacts, Zenon
    <3> QED
      BY <1>8, <3>1, <3>2
  <2>3. seen \in Seq(S)
    BY <1>8, <2>1
  <2>4. DOMAIN seen = 1..n + m
    BY <2>2, <2>3
  <2>5. ASSUME NEW k \in 1..n + m PROVE seen[k] = FrameBytes(k)
    <3>1. CASE k \in 1..n
      BY <1>6, <2>2, <3>1
    <3>2. CASE k \notin 1..n
      <4>1. k - n \in 1..m /\ seen[k] = b[k - n] /\ n + (k - n) = k
        BY <1>2, <2>2, <3>2
      <4> QED
        BY <1>7, <4>1
    <3> QED
      BY <3>1, <3>2
  <2> QED
    BY <2>4, <2>5
<1>10. \A k \in DOMAIN seen : k <= NFrames /\ seen[k] = FrameBytes(k)
  BY <1>2, <1>9
<1> QED
  BY <1>1, <1>4, <1>5, <1>8, <1>10 DEF FramesIntact

----------------------------------------------------------------------------
(* The memory in use, as the completion of a data read adds it up, never     *)
(* passes what has arrived: a byte moves on from istream to queued_iframes,  *)
(* and the three readings follow it in the other direction.                  *)

\* Bytes of the wire from its start to the end of istream.
UpToStream(T) == T[Done] + Started + DataLength(istream)

UsageInv(T) ==
    /\ pending_iframes.estimated_memory_usage = 0
    /\ rx.pc = "queued" => rx.usage = 0
    /\ rx.pc = "istream" => rx.usage <= T[Done]
    /\ rx.pc \in {"pending", "trim"} => rx.usage <= UpToStream(T)

\* What is in memory, the packet and the adapter is what has arrived.
Arrived(T) ==
    /\ Done \in 0..NFrames /\ T[Done] \in Nat /\ Started \in Nat
    /\ DataLength(istream) \in Nat /\ Len(rx.packet) \in Nat /\ Len(dataFifo) \in Nat
    /\ UpToStream(T) \in Nat /\ rx.usage \in Nat
    /\ UpToStream(T) + Len(rx.packet) + Len(dataFifo) = T[wire.frame - 1] + wire.bytes
    /\ T[wire.frame - 1] + wire.bytes <= T[NFrames] /\ T[NFrames] \in Nat

LEMMA ArrivedFacts ==
    ASSUME RxAssumption, WholeInv, ~streaming, NEW T, Table(T)
    PROVE  Arrived(T)
<1>1. TypeInv /\ SizesInv /\ SizesNamed /\ FramesPlaced /\ FramesOpened
  BY DEF WholeInv, FramesPlaced
<1>2. PICK W : Offsets(W, wire.frame) /\ Stretch(W)
  BY <1>1 DEF FramesPlaced, StreamPlaced
<1>3. PICK top, bytes : top = wire.frame /\ bytes = wire.bytes
  OBVIOUS
<1>4. /\ top \in 1..NFrames + 1 /\ NFrames \in Nat /\ bytes \in Nat
      /\ bytes # 0 => top \in 1..NFrames /\ bytes < FrameLengths[top]
  BY <1>1, <1>3, OpenedFacts DEF TypeInv, AdapterTypes, WireInside
<1>5. /\ Done \in 0..top - 1 /\ Started \in Nat /\ DataLength(istream) \in Nat
      /\ Len(rx.packet) \in Nat /\ Len(dataFifo) \in Nat
      /\ \A i \in 0..top - 1 : W[i] = T[i]
  <2>1. /\ Done \in 0..top - 1 /\ Started \in Nat /\ istream.data \in Seq(Bytes)
        /\ rx.packet \in Seq(Bytes) /\ dataFifo \in Seq(Bytes)
    BY <1>1, <1>2, <1>3, StretchFacts
  <2>2. \A i \in 0..top - 1 : W[i] = T[i]
    BY <1>2, <1>3 DEF Offsets
  <2>3. DataLength(istream) \in Nat /\ Len(rx.packet) \in Nat /\ Len(dataFifo) \in Nat
    BY <2>1 DEF DataLength
  <2> QED
    BY <2>1, <2>2, <2>3
<1>6. top - 1 \in 0..top - 1 /\ top - 1 \in 0..NFrames /\ Done \in 0..NFrames
  BY <1>4, <1>5
<1>7. T[Done] \in Nat /\ T[top - 1] \in Nat /\ T[NFrames] \in Nat
  <2>1. NFrames \in 0..NFrames
    BY <1>4
  <2> QED
    BY <1>6, <2>1 DEF Table
<1>8. UpToStream(T) + Len(rx.packet) + Len(dataFifo) = T[top - 1] + bytes
  BY <1>2, <1>3, <1>5, <1>6 DEF Stretch, UpToStream
<1>9. UpToStream(T) \in Nat
  BY <1>5, <1>7 DEF UpToStream
<1>10. T[top - 1] + bytes <= T[NFrames]
  <2>1. CASE bytes = 0
    <3>1. T[top - 1] <= T[NFrames]
      BY <1>4, <1>6 DEF Table
    <3> QED
      BY <1>7, <2>1, <3>1
  <2>2. CASE bytes # 0
    <3>1. top \in 1..NFrames /\ bytes < FrameLengths[top] /\ FrameLengths[top] \in Nat
      BY <1>4, <2>2, BytesFacts
    <3>2. T[top] = T[top - 1] + FrameLengths[top] /\ T[top] <= T[NFrames] /\ T[top] \in Nat
      <4>1. top \in 0..NFrames /\ NFrames \in 0..NFrames /\ top <= NFrames
        BY <1>4, <3>1
      <4> QED
        BY <3>1, <4>1 DEF Table
    <3>3. \A a, f, b, c, x \in Nat : b = a + f /\ b <= c /\ x < f => a + x <= c
      OBVIOUS
    <3> QED
      BY <1>4, <1>7, <3>1, <3>2, <3>3
  <2> QED
    BY <2>1, <2>2
<1>11. rx.usage \in Nat
  BY <1>1 DEF TypeInv, ControlTypes, RxStates
<1> QED
  BY <1>3, <1>5, <1>6, <1>7, <1>8, <1>9, <1>10, <1>11 DEF Arrived

\* A cap for all that arrives trims nothing.
LEMMA UsageUntrimmed ==
    ASSUME RxAssumption, WholeInv, NEW T, Table(T), T[NFrames] <= InputCap,
           ~streaming => UsageInv(T)
    PROVE  Untrimmed
<1> SUFFICES ASSUME ~streaming, rx.pc = "trim" PROVE Kept(Len(rx.packet)) = Len(rx.packet)
  BY DEF Untrimmed
<1>1. PICK up, n, m, all, sum : /\ up = UpToStream(T) /\ n = Len(rx.packet) /\ m = Len(dataFifo)
                                /\ all = T[NFrames] /\ sum = T[wire.frame - 1] + wire.bytes
  OBVIOUS
<1>2. /\ up \in Nat /\ n \in Nat /\ m \in Nat /\ up + n + m = sum /\ sum <= all /\ all \in Nat
      /\ rx.usage \in Nat /\ rx.usage <= up
  BY <1>1, ArrivedFacts DEF UsageInv, Arrived
<1>3. InputCap \in Nat /\ all <= InputCap
  BY <1>1 DEF RxAssumption
<1>4. n + rx.usage <= InputCap
  BY <1>2, <1>3
<1> QED
  BY <1>1, <1>4 DEF Kept

\* The estimate of queued_iframes is what the complete frames not yet read hold.
LEMMA QueuedEstimate ==
    ASSUME RxAssumption, WholeInv, ~streaming, NEW T, Table(T)
    PROVE  /\ queued_iframes.estimated_memory_usage \in Nat
           /\ queued_iframes.estimated_memory_usage <= T[Done]
<1>1. PICK n, frames, m, est : /\ n = Len(taken) /\ frames = queued_iframes.frames
                               /\ m = Len(frames) /\ est = queued_iframes.estimated_memory_usage
  OBVIOUS
<1>2. /\ n \in Nat /\ m \in Nat /\ Done = n + m /\ NFrames \in Nat /\ n + m <= NFrames
  <2>1. Done \in 0..NFrames /\ NFrames \in Nat
    BY ArrivedFacts, BytesFacts DEF Arrived
  <2>2. n \in Nat /\ m \in Nat /\ Done = n + m
    BY <1>1, OpenedFacts DEF WholeInv, FramesPlaced, Done
  <2> QED
    BY <2>1, <2>2
<1> DEFINE p == [i \in 0..m |-> T[n + i]]
<1>3. \A i \in 0..m : n + i \in 0..NFrames /\ T[n + i] \in Nat
  <2>1. \A i \in 0..m : n + i \in 0..NFrames
    BY <1>2
  <2> QED
    BY <2>1 DEF Table
<1>4. \A i \in 1..m : p[i] = p[i - 1] + DataLength(frames[i])
  <2> TAKE i \in 1..m
  <2>1. n + i \in 1..NFrames /\ i \in 0..m /\ i - 1 \in 0..m /\ n + (i - 1) = (n + i) - 1
    BY <1>2
  <2>2. T[n + i] = T[(n + i) - 1] + FrameLengths[n + i]
    BY <2>1 DEF Table
  <2>3. frames[i].data = FrameBytes(n + i) /\ Len(FrameBytes(n + i)) = FrameLengths[n + i]
    BY <1>1, <2>1, BytesFacts DEF WholeInv, FramesPlaced, FramesDone
  <2> QED
    BY <2>1, <2>2, <2>3 DEF DataLength
<1>5. p[0] = T[n] /\ p[m] = T[n + m] /\ T[n] \in Nat /\ T[n + m] \in Nat /\ p \in [0..m -> Nat]
  <2>1. 0 \in 0..m /\ m \in 0..m /\ n + 0 = n
    BY <1>2
  <2> QED
    BY <1>3, <2>1
<1>6. p = [i \in 0..m |-> p[i]]
  OBVIOUS
<1> HIDE DEF p
<1>7. Solves(p, frames, T[n])
  <2>1. \A i \in 0..m : p[i] = IF i = 0 THEN T[n] ELSE p[i - 1] + DataLength(frames[i])
    <3>1. \A i \in 0..m : i = 0 \/ i \in 1..m
      BY <1>2
    <3>2. 0 \notin 1..m
      OBVIOUS
    <3> QED
      BY <1>4, <1>5, <3>1, <3>2
  <2>2. p = [i \in 0..m |-> IF i = 0 THEN T[n] ELSE p[i - 1] + DataLength(frames[i])]
    BY <1>6, <2>1
  <2> QED
    BY <1>1, <2>2 DEF Solves
<1>8. Unique(queued_iframes) /\ est \in Int /\ \E q : Sums(q, queued_iframes)
  BY <1>1, ListTypes DEF WholeInv, TypeInv, BufferTypes, Counted
<1>9. p[m] = est + T[n]
  BY <1>1, <1>5, <1>7, <1>8 DEF Unique
<1>10. est \in Nat
  <2>1. PICK q : Sums(q, queued_iframes)
    BY <1>8
  <2>2. q \in [0..m -> Nat] /\ q[m] = est /\ m \in 0..m
    BY <1>1, <1>2, <2>1 DEF Sums
  <2> QED
    BY <2>2
<1> QED
  BY <1>1, <1>2, <1>5, <1>9, <1>10

\* A step that leaves the packet and its sum alone.
LEMMA UsageKept ==
    ASSUME RxAssumption, NEW T, Table(T), UsageInv(T), Arrived(T), Arrived(T)',
           rx' = rx, Done <= Done', UpToStream(T) <= UpToStream(T)',
           pending_iframes'.estimated_memory_usage = 0
    PROVE  UsageInv(T)'
<1>1. T[Done] <= T[Done']
  BY DEF Table, Arrived
<1>2. PICK up, up2, a, b, u : /\ up = UpToStream(T) /\ up2 = UpToStream(T)' /\ a = T[Done]
                              /\ b = T[Done'] /\ u = rx.usage
  OBVIOUS
<1>3. /\ up \in Nat /\ up2 \in Nat /\ a \in Nat /\ b \in Nat /\ u \in Nat /\ a <= b /\ up <= up2
  BY <1>1, <1>2 DEF Arrived
<1>4. /\ rx.pc = "queued" => u = 0
      /\ rx.pc = "istream" => u <= b
      /\ rx.pc \in {"pending", "trim"} => u <= up2
  BY <1>2, <1>3 DEF UsageInv
<1> QED
  BY <1>2, <1>4 DEF UsageInv

LEMMA UsageStep ==
    ASSUME RxAssumption, WidthAssumption, WordAssumption, MaxPurges = 0, Untrimmed, WholeInv,
           ~streaming, NEW T, Table(T), UsageInv(T), Arrived(T), Arrived(T)', [Next]_vars
    PROVE  UsageInv(T)'
<1>1. /\ TypeInv /\ SizesInv /\ SizesNamed /\ FramesPlaced /\ purge = "idle"
      /\ rx \in RxStates /\ bound.purges \in Nat /\ rx.usage \in Nat
  BY DEF WholeInv, TypeInv, ControlTypes, RxStates
<1>2. pending_iframes.estimated_memory_usage = 0 /\ pending_iframes \in Lists(Bytes)
  BY <1>1 DEF UsageInv, TypeInv, BufferTypes
<1>3. ASSUME UNCHANGED <<wire, dataFifo, rx>>, Done' \in {Done, Done + 1},
             pending_iframes'.estimated_memory_usage = 0
      PROVE  UsageInv(T)'
  <2>1. Done <= Done'
    BY <1>3 DEF Arrived
  <2>2. UpToStream(T) <= UpToStream(T)'
    <3>1. PICK up, up2, n, m, sum : /\ up = UpToStream(T) /\ up2 = UpToStream(T)'
                                    /\ n = Len(rx.packet) /\ m = Len(dataFifo)
                                    /\ sum = T[wire.frame - 1] + wire.bytes
      OBVIOUS
    <3>2. /\ up \in Nat /\ up2 \in Nat /\ n \in Nat /\ m \in Nat
          /\ up + n + m = up2 + n + m
      BY <1>3, <3>1 DEF Arrived
    <3>3. \A a, b, c, d \in Nat : a + c + d = b + c + d => a <= b
      OBVIOUS
    <3> QED
      BY <3>1, <3>2, <3>3
  <2> QED
    BY <1>3, <2>1, <2>2, UsageKept
<1>4. ASSUME UNCHANGED <<istream, pending_iframes, queued_iframes, taken, rx>>
      PROVE  UsageInv(T)'
  <2>1. Done' = Done /\ UpToStream(T)' = UpToStream(T)
    BY <1>4 DEF Done, Started, UpToStream, IsEmptyList, PeekFront, DataLength
  <2>2. Done <= Done' /\ UpToStream(T) <= UpToStream(T)'
    BY <2>1 DEF Arrived
  <2> QED
    BY <1>2, <1>4, <2>2, UsageKept
<1>5. CASE WireByte \/ Adapter
  BY <1>4, <1>5 DEF WireByte, Adapter, ExecuteFrameCount, ExecuteFrameSize, ExecuteReceiverReset,
                    bufferVars, readVars
<1>6. CASE CompleteFrameCount \/ CompleteWithError \/ SendRead
  BY <1>4, <1>6 DEF CompleteFrameCount, CompleteWithError, SendRead, SendSizeRead, SendCountRead,
                    bufferVars, readVars
<1>7. CASE CompleteFrameSize
  <2> DEFINE frame == [NewFrame EXCEPT !.frame_size = Head(responses).value]
  <2>1. /\ UNCHANGED <<wire, dataFifo, rx, queued_iframes, taken>>
        /\ \/ pending_iframes' = AddFrame(pending_iframes, frame)
           \/ pending_iframes' = pending_iframes
    BY <1>7 DEF CompleteFrameSize, adapterVars, readVars
  <2>2. DataLength(frame) = 0
    <3>1. frame.data = <<>> /\ Len(<<>>) = 0
      BY DEF NewFrame
    <3> QED
      BY <3>1 DEF DataLength
  <2> HIDE DEF frame
  <2>3. pending_iframes'.estimated_memory_usage = 0
    BY <1>2, <2>1, <2>2 DEF AddFrame
  <2>4. Done' = Done
    BY <2>1 DEF Done
  <2> QED
    BY <1>3, <2>1, <2>3, <2>4
<1>8. CASE RxPacket
  <2>1. PICK packet : rx' = [IdleRx EXCEPT !.pc = "queued", !.packet = packet]
    BY <1>8, Zenon DEF RxPacket
  <2>2. rx'.pc = "queued" /\ rx'.usage = 0 /\ pending_iframes' = pending_iframes
    BY <1>8, <2>1 DEF RxPacket, bufferVars, IdleRx
  <2> QED
    BY <1>2, <2>2 DEF UsageInv
<1>9. ASSUME NEW amount \in Nat, NEW next, AddUsage(amount, next)
      PROVE  rx'.pc = next /\ rx'.usage \in Nat /\ rx'.usage <= rx.usage + amount
  <2>1. PICK sum \in Nat : sum = rx.usage + amount
    <3>1. rx.usage + amount \in Nat
      BY <1>1
    <3> QED
      BY <3>1
  <2>2. rx' = [rx EXCEPT !.usage = sum % WORD, !.pc = next]
    BY <1>9, <2>1 DEF AddUsage
  <2>3. rx'.pc = next /\ rx'.usage = sum % WORD
    BY <1>1, <2>2 DEF RxStates
  <2> QED
    BY <2>1, <2>3, ModuloBelow
<1>10. CASE RxUsageQueued
  <2>1. PICK est \in Nat : est = queued_iframes.estimated_memory_usage /\ est <= T[Done]
    BY QueuedEstimate
  <2>2. /\ rx.usage = 0 /\ rx'.pc = "istream" /\ rx'.usage \in Nat /\ rx'.usage <= rx.usage + est
        /\ UNCHANGED <<pending_iframes, queued_iframes, taken>>
    BY <1>9, <1>10, <2>1 DEF RxUsageQueued, RxUnchanged, UsageInv, bufferVars, readVars
  <2>3. Done' = Done
    BY <2>2 DEF Done
  <2>4. rx'.usage <= T[Done]
    <3>1. PICK a, u : a = T[Done] /\ u = rx'.usage
      OBVIOUS
    <3>2. a \in Nat /\ u \in Nat /\ u <= 0 + est /\ est <= a
      BY <2>1, <2>2, <3>1 DEF Arrived
    <3> QED
      BY <2>1, <3>1, <3>2
  <2> QED
    BY <1>2, <2>2, <2>3, <2>4 DEF UsageInv
<1>11. CASE RxUsageStream
  <2>1. PICK len \in Nat : len = DataLength(istream)
    BY DEF Arrived
  <2>2. /\ rx.usage <= T[Done] /\ rx'.pc = "pending" /\ rx'.usage \in Nat
        /\ rx'.usage <= rx.usage + len
        /\ UNCHANGED <<istream, pending_iframes, queued_iframes, taken>>
    BY <1>9, <1>11, <2>1 DEF RxUsageStream, RxUnchanged, UsageInv, bufferVars, readVars
  <2>3. UpToStream(T)' = UpToStream(T)
    BY <2>2 DEF UpToStream, Done, Started, IsEmptyList, PeekFront, DataLength
  <2>4. rx'.usage <= UpToStream(T)
    <3>1. PICK a, b, u : a = T[Done] /\ b = Started /\ u = rx.usage
      OBVIOUS
    <3>2. /\ a \in Nat /\ b \in Nat /\ u \in Nat /\ UpToStream(T) = a + b + len /\ u <= a
          /\ rx'.usage <= u + len
      BY <2>1, <2>2, <3>1 DEF UpToStream, Arrived
    <3> QED
      BY <2>2, <3>2
  <2> QED
    BY <1>2, <2>2, <2>3, <2>4 DEF UsageInv
<1>12. CASE RxUsagePending
  <2>1. /\ rx.usage <= UpToStream(T) /\ rx'.pc = "trim" /\ rx'.usage \in Nat
        /\ rx'.usage <= rx.usage + 0
        /\ UNCHANGED <<istream, pending_iframes, queued_iframes, taken>>
    BY <1>2, <1>9, <1>12 DEF RxUsagePending, RxUnchanged, UsageInv, bufferVars, readVars
  <2>2. UpToStream(T)' = UpToStream(T)
    BY <2>1 DEF UpToStream, Done, Started, IsEmptyList, PeekFront, DataLength
  <2>3. rx'.usage <= UpToStream(T)
    <3>1. PICK up, u : up = UpToStream(T) /\ u = rx'.usage
      OBVIOUS
    <3>2. up \in Nat /\ u \in Nat /\ u <= rx.usage + 0 /\ rx.usage <= up
      BY <2>1, <3>1 DEF Arrived
    <3> QED
      BY <1>1, <3>1, <3>2
  <2> QED
    BY <1>2, <2>1, <2>2, <2>3 DEF UsageInv
<1>13. CASE RxTrim
  <2>1. Kept(Len(rx.packet)) = Len(rx.packet) /\ Len(rx.packet) \in Nat
    BY <1>13 DEF RxTrim, Untrimmed, Arrived
  <2>2. pending_iframes' = pending_iframes
    BY <1>13, <2>1 DEF RxTrim
  <2>3. PICK packet : rx' = IdleRx \/ rx' = [rx EXCEPT !.packet = packet, !.pc = "add"]
    <3>1. PICK kept : kept = Kept(Len(rx.packet))
      OBVIOUS
    <3>2. rx' = IdleRx \/ rx' = [rx EXCEPT !.packet = SubSeq(rx.packet, 1, kept), !.pc = "add"]
      BY <1>13, <3>1, Zenon DEF RxTrim
    <3> QED
      BY <3>2, Zenon
  <2>4. rx'.pc \in {"idle", "add"}
    <3>1. CASE rx' = IdleRx
      BY <3>1 DEF IdleRx
    <3>2. CASE rx' = [rx EXCEPT !.packet = packet, !.pc = "add"]
      BY <1>1, <3>2 DEF RxStates
    <3> QED
      BY <2>3, <3>1, <3>2
  <2> QED
    BY <1>2, <2>2, <2>4 DEF UsageInv
<1>14. CASE RxAdd
  BY <1>2, <1>14 DEF RxAdd, UsageInv, IdleRx
<1>15. CASE Timer \/ IframeStart \/ IframeEnd
  BY <1>4, <1>15 DEF Timer, IframeStart, IframeEnd, bufferVars, readVars
<1>16. CASE IframeLoop
  <2>1. /\ Done' \in {Done, Done + 1}
        /\ pending_iframes'.estimated_memory_usage = pending_iframes.estimated_memory_usage
    BY <1>1, <1>16, IframeLoopPlaced
  <2>2. UNCHANGED <<wire, dataFifo, rx>>
    BY <1>16 DEF IframeLoop, adapterVars
  <2> QED
    BY <1>2, <1>3, <2>1, <2>2
<1>17. CASE SyncComEvtIoRead
  BY <1>4, <1>17 DEF SyncComEvtIoRead, ReadUnchanged
<1>18. ASSUME NEW d \in ReadDpcs, ReadStart(d) \/ ReadCheck(d) \/ ReadRetrieve(d) \/ FrameReadEnd(d)
       PROVE  UsageInv(T)'
  BY <1>4, <1>18 DEF ReadStart, ReadCheck, ReadRetrieve, FrameReadEnd, ReadUnchanged
<1>19. ASSUME NEW d \in ReadDpcs, FrameReadTake(d)
       PROVE  UsageInv(T)'
  <2>1. Done' = Done
    BY <1>1, <1>19, FrameReadTakePlaced
  <2>2. UNCHANGED <<wire, dataFifo, rx, pending_iframes>>
    BY <1>19 DEF FrameReadTake, ReadUnchanged, adapterVars
  <2> QED
    BY <1>2, <1>3, <2>1, <2>2
<1>20. ASSUME NEW d \in ReadDpcs, StreamRead(d)
       PROVE  UsageInv(T)'
  BY <1>20 DEF StreamRead
<1>21. CASE PurgeReset \/ PurgeStep
  BY <1>1, <1>21 DEF PurgeReset, PurgeStep, PurgeQueued, PurgeStream, PurgePending, PurgeCancel,
                     PurgeDrain
<1>22. CASE UNCHANGED vars
  BY <1>4, <1>22 DEF vars, bufferVars, readVars
<1> QED
  BY <1>5, <1>6, <1>7, <1>8, <1>10, <1>11, <1>12, <1>13, <1>14, <1>15, <1>16, <1>17, <1>18, <1>19,
     <1>20, <1>21, <1>22
     DEF Next, RegisterCompletion, RxStep, IframeWorker, SynccomProcessRead

LEMMA UsageInit == ASSUME Init, NEW T PROVE UsageInv(T)
BY DEF Init, UsageInv, EmptyList, IdleRx

----------------------------------------------------------------------------
(* The receive path is a channel of frames. *)

Entered == [k \in 1..(wire.frame - 1) |-> FrameBytes(k)]
Left    == [i \in DOMAIN taken |-> taken[i].data]

\* Only the wire and the reads are seen from outside.
LEMMA VisibleSteps ==
    ASSUME RxAssumption, MaxPurges = 0, WholeInv, ~streaming, [Next]_vars,
           ~WireByte, \A d \in ReadDpcs : ~FrameReadTake(d)
    PROVE  UNCHANGED <<wire, taken>>
<1>1. CASE ExecuteFrameCount \/ ExecuteFrameSize
  BY <1>1 DEF ExecuteFrameCount, ExecuteFrameSize, adapterVars, readVars
<1>2. CASE ExecuteReceiverReset
  <2>1. pipe # <<>> /\ Head(pipe).op = "RRES" /\ pipe \in Seq(Requests)
    BY <1>2 DEF ExecuteReceiverReset, Executing, WholeInv, SizesInv, RegisterTypes
  <2>2. Head(pipe) \in Requests
    BY <2>1, SeqFacts
  <2> QED
    BY <2>1, <2>2 DEF Requests
<1>3. CASE RegisterCompletion
  BY <1>3 DEF RegisterCompletion, CompleteFrameCount, CompleteFrameSize, CompleteWithError,
              SendRead, SendSizeRead, SendCountRead, adapterVars, readVars
<1>4. CASE RxPacket
  BY <1>4 DEF RxPacket, readVars
<1>5. CASE RxStep
  BY <1>5 DEF RxStep, RxUsageQueued, RxUsageStream, RxUsagePending, RxTrim, RxAdd, RxUnchanged,
              adapterVars, readVars
<1>6. CASE Timer \/ IframeWorker
  BY <1>6 DEF Timer, IframeWorker, IframeStart, IframeLoop, IframeEnd, adapterVars, readVars
<1>7. CASE SyncComEvtIoRead
  BY <1>7 DEF SyncComEvtIoRead, ReadUnchanged, adapterVars
<1>8. ASSUME NEW d \in ReadDpcs, ReadStart(d) \/ SynccomProcessRead(d)
      PROVE  UNCHANGED <<wire, taken>>
  <2>1. ReadStart(d) \/ ReadCheck(d) \/ ReadRetrieve(d) \/ FrameReadEnd(d)
    BY <1>8 DEF SynccomProcessRead, StreamRead
  <2> QED
    BY <2>1 DEF ReadStart, ReadCheck, ReadRetrieve, FrameReadEnd, ReadUnchanged, adapterVars
<1>9. CASE PurgeReset \/ PurgeStep
  <2>1. bound.purges \in Nat /\ purge = "idle"
    BY DEF WholeInv, TypeInv, ControlTypes
  <2> QED
    BY <1>9, <2>1 DEF PurgeReset, PurgeStep, PurgeQueued, PurgeStream, PurgePending,
                      PurgeCancel, PurgeDrain
<1>10. CASE UNCHANGED vars
  BY <1>10 DEF vars, adapterVars, readVars
<1> QED
  BY <1>1, <1>2, <1>3, <1>4, <1>5, <1>6, <1>7, <1>8, <1>9, <1>10 DEF Next, Adapter

LEMMA ChannelInit == ASSUME Init PROVE Channel!Init
<1>1. wire.frame = 1 /\ taken = <<>>
  BY DEF Init
<1>2. 1..(wire.frame - 1) = {} /\ DOMAIN taken = {}
  BY <1>1
<1>3. \A f : [k \in {} |-> f[k]] = <<>>
  OBVIOUS
<1> QED
  BY <1>1, <1>2, <1>3 DEF Channel!Init

LEMMA ChannelStep ==
    ASSUME RxAssumption, WordAssumption, MaxPurges = 0, WholeInv, ~streaming, [Next]_vars
    PROVE  [Channel!Next]_<<Entered, Left>>
<1>1. /\ TypeInv /\ SizesInv /\ SizesNamed /\ FramesPlaced /\ FramesOpened
  BY DEF WholeInv, FramesPlaced
<1>2. PICK top, n : top = wire.frame /\ n = Len(taken)
  OBVIOUS
<1>3. /\ top \in 1..NFrames + 1 /\ NFrames \in Nat /\ top \in Nat /\ n \in Nat
      /\ taken \in Seq([req : 1..Len(reads), data : Seq(Bytes)])
      /\ wire \in [frame : 1..NFrames + 1, bytes : Nat]
  <2>1. top \in 1..NFrames + 1 /\ NFrames \in Nat /\ n \in Nat
    BY <1>1, <1>2, OpenedFacts
  <2> QED
    BY <1>1, <2>1 DEF TypeInv, ReadTypes, AdapterTypes
<1>4. CASE WireByte
  <2>1. Left' = Left /\ top <= NFrames
    BY <1>2, <1>4 DEF WireByte, readVars, Left
  <2>2. CASE wire.bytes + 1 = FrameLengths[top]
    <3>1. wire'.frame = top + 1
      BY <1>2, <1>4, <2>2 DEF WireByte
    <3>2. top \in 1..NFrames /\ (top + 1) - 1 = top
      BY <1>3, <2>1
    <3>3. Entered' = [k \in 1..top |-> FrameBytes(k)] /\ Entered = [k \in 1..top - 1 |-> FrameBytes(k)]
      BY <1>2, <3>1, <3>2 DEF Entered
    <3>4. [k \in 1..top |-> FrameBytes(k)] = Append([k \in 1..top - 1 |-> FrameBytes(k)], FrameBytes(top))
      <4> DEFINE S == Seq(Bytes)
                 f == [k \in 1..top |-> FrameBytes(k)]
                 g == [k \in 1..top - 1 |-> FrameBytes(k)]
      <4>1. \A k \in 1..top : FrameBytes(k) \in S
        BY <1>3, <2>1, BytesFacts
      <4>2. f \in Seq(S) /\ Len(f) = top /\ \A k \in 1..top : f[k] = FrameBytes(k)
        <5> HIDE DEF S
        <5> QED
          BY <1>3, <4>1
      <4>3. g \in Seq(S) /\ Len(g) = top - 1 /\ \A k \in 1..top - 1 : g[k] = FrameBytes(k)
        <5> HIDE DEF S
        <5> QED
          BY <1>3, <4>1
      <4>4. FrameBytes(top) \in S
        BY <3>2, <4>1, <1>3
      <4> HIDE DEF S, f, g
      <4>5. /\ Append(g, FrameBytes(top)) \in Seq(S) /\ Len(Append(g, FrameBytes(top))) = top
            /\ Append(g, FrameBytes(top))[top] = FrameBytes(top)
            /\ \A k \in 1..top - 1 : Append(g, FrameBytes(top))[k] = g[k]
        BY <1>3, <4>3, <4>4
      <4>6. \A k \in 1..top : f[k] = Append(g, FrameBytes(top))[k]
        <5>1. \A k \in 1..top : k \in 1..top - 1 \/ k = top
          BY <1>3
        <5> QED
          BY <4>2, <4>3, <4>5, <5>1
      <4>7. \A q \in Seq(S) : q = [k \in 1..Len(q) |-> q[k]]
        OBVIOUS
      <4>8. f = Append(g, FrameBytes(top))
        <5> DEFINE h == Append(g, FrameBytes(top))
        <5>1. h \in Seq(S) /\ Len(h) = top /\ \A k \in 1..top : f[k] = h[k]
          BY <4>5, <4>6
        <5> HIDE DEF h
        <5>2. h = [k \in 1..top |-> h[k]] /\ f = [k \in 1..top |-> f[k]]
          BY <4>2, <4>7, <5>1
        <5>3. f = h
          BY <5>1, <5>2
        <5> QED
          BY <5>3 DEF h
      <4> QED
        BY <4>8 DEF f, g
    <3>5. Entered' = Append(Entered, FrameBytes(top))
      BY <3>3, <3>4
    <3>6. Channel!Enter
      BY <2>1, <3>2, <3>5 DEF Channel!Enter, Entered, Left
    <3> QED
      BY <3>6 DEF Channel!Next
  <2>3. CASE wire.bytes + 1 # FrameLengths[top]
    <3>1. wire' = [wire EXCEPT !.bytes = wire.bytes + 1]
      BY <1>2, <1>4, <2>3 DEF WireByte
    <3>2. wire'.frame = wire.frame
      BY <1>3, <3>1
    <3> QED
      BY <2>1, <3>2 DEF Entered
  <2> QED
    BY <2>2, <2>3
<1>5. ASSUME NEW d \in ReadDpcs, FrameReadTake(d)
      PROVE  Channel!Leave
  <2>1. /\ Len(queued_iframes.frames) > 0 /\ Len(taken') = n + 1
        /\ \A k \in 1..n : taken'[k] = taken[k]
        /\ taken'[n + 1].data = FrameBytes(n + 1)
    BY <1>1, <1>2, <1>5, FrameReadTakePlaced
  <2>2. Entered' = Entered
    BY <1>5 DEF FrameReadTake, ReadUnchanged, adapterVars, Entered
  <2>3. n + 1 \in 1..top - 1
    <3>1. PICK o, z, p, w : /\ o = Len(pending_iframes.frames) /\ z = tally.sized
                            /\ p = tally.popped /\ w = Len(queued_iframes.frames)
      OBVIOUS
    <3>2. /\ w \in Nat /\ Done = n + w /\ o \in Nat /\ p \in Nat /\ w > 0
          /\ Done + o <= p /\ p <= z /\ z = top - 1
      BY <1>1, <1>2, <2>1, <3>1, OpenedFacts, TallyOrder DEF Done
    <3> QED
      BY <1>3, <3>2
  <2>4. PICK T : taken \in Seq(T) /\ taken' \in Seq(T)
    <3>1. TypeInv'
      BY <1>1, TypeStep
    <3>2. taken' \in Seq([req : 1..Len(reads'), data : Seq(Bytes)])
      BY <3>1 DEF TypeInv, ReadTypes
    <3> DEFINE A == [req : 1..Len(reads), data : Seq(Bytes)]
               B == [req : 1..Len(reads'), data : Seq(Bytes)]
    <3>3. taken \in Seq(A) /\ taken' \in Seq(B)
      BY <1>3, <3>2
    <3> HIDE DEF A, B
    <3>4. taken \in Seq(A \cup B) /\ taken' \in Seq(A \cup B)
      BY <3>3, SeqWidens
    <3> QED
      BY <3>4
  <2>5. Left = [i \in 1..n |-> taken[i].data] /\ Left' = [i \in 1..n + 1 |-> taken'[i].data]
    <3>1. DOMAIN taken = 1..n /\ DOMAIN taken' = 1..n + 1
      BY <1>2, <2>1, <2>4
    <3> QED
      BY <3>1 DEF Left
  <2>6. /\ Left \in Seq(Seq(Bytes)) /\ Len(Left) = n
        /\ Left' = Append(Left, FrameBytes(n + 1))
    <3> DEFINE S == Seq(Bytes)
    <3>1. \A i \in 1..n : taken[i].data \in S
      <4> DEFINE R == [req : 1..Len(reads), data : Seq(Bytes)]
      <4>1. taken \in Seq(R) /\ \A x \in R : x.data \in S
        BY <1>3
      <4> HIDE DEF R, S
      <4> QED
        BY <1>2, <4>1
    <3>2. FrameBytes(n + 1) \in S
      <4>1. n + 1 \in 1..NFrames
        BY <1>3, <2>3
      <4> QED
        BY <4>1, BytesFacts
    <3> HIDE DEF S
    <3>3. Left \in Seq(S) /\ Len(Left) = n /\ \A i \in 1..n : Left[i] = taken[i].data
      BY <1>3, <2>5, <3>1
    <3>4. PICK longer : longer = Append(Left, FrameBytes(n + 1))
      OBVIOUS
    <3>5. /\ longer \in Seq(S) /\ Len(longer) = n + 1 /\ longer[n + 1] = FrameBytes(n + 1)
          /\ \A i \in 1..n : longer[i] = Left[i]
      BY <1>3, <3>2, <3>3, <3>4
    <3>6. longer = [i \in 1..n + 1 |-> taken'[i].data]
      <4>1. \A i \in 1..n + 1 : longer[i] = taken'[i].data
        <5>1. \A i \in 1..n + 1 : i \in 1..n \/ i = n + 1
          BY <1>3
        <5> QED
          BY <2>1, <3>3, <3>5, <5>1
      <4>2. longer = [i \in 1..n + 1 |-> longer[i]]
        BY <3>5
      <4> QED
        BY <4>1, <4>2
    <3> QED
      BY <2>5, <3>3, <3>4, <3>6 DEF S
  <2>7. Entered[n + 1] = FrameBytes(n + 1) /\ Len(Entered) = top - 1
    <3>1. Entered = [k \in 1..top - 1 |-> FrameBytes(k)] /\ top - 1 \in Nat
      BY <1>2, <1>3 DEF Entered
    <3> QED
      BY <2>3, <3>1
  <2>8. n < top - 1
    BY <1>3, <2>3
  <2> QED
    BY <2>2, <2>6, <2>7, <2>8 DEF Channel!Leave, Entered, Left
<1>6. CASE ~WireByte /\ \A d \in ReadDpcs : ~FrameReadTake(d)
  <2>1. UNCHANGED <<wire, taken>>
    BY <1>6, VisibleSteps
  <2> QED
    BY <2>1 DEF Entered, Left
<1> QED
  BY <1>4, <1>5, <1>6 DEF Channel!Next

----------------------------------------------------------------------------
(* FramesIntact and ReceivesInOrder, as long as nothing is purged, fails or  *)
(* is trimmed.                                                               *)

LEMMA WholeInvariant ==
    ASSUME MaxPurges = 0, MaxFailures = 0
    PROVE  Spec /\ []Untrimmed => []WholeInv
<1>1. Init => WholeInv
  BY RxAssumption, WholeInit
<1>2. WholeInv /\ Untrimmed /\ [Next]_vars => WholeInv'
  BY RxAssumption, WidthAssumption, WordAssumption, WholeStep
<1> QED
  BY <1>1, <1>2, PTL DEF Spec

\* The frames reads took and the ones queued for them are those of the wire,
\* each whole, none missing, none twice, in order (synccom_port_frame_read gets
\* what iframe_worker put together from data and sizes that come separately).
THEOREM FramesStayIntact ==
    ASSUME MaxPurges = 0, MaxFailures = 0
    PROVE  Spec /\ []Untrimmed => []FramesIntact
<1>1. WholeInv => FramesIntact
  BY RxAssumption, WholeIntact
<1> QED
  BY <1>1, WholeInvariant, PTL

\* The receive path implements the frame channel: every step enters the next
\* frame, takes the oldest one, or changes neither end.
THEOREM ReceivesFramesInOrder ==
    ASSUME MaxPurges = 0, MaxFailures = 0, TRUE \notin Modes
    PROVE  Spec /\ []Untrimmed => ReceivesInOrder
<1>1. Init => Channel!Init /\ ~streaming
  BY ChannelInit, RxAssumption DEF Init, RxAssumption
<1>2. ~streaming /\ WholeInv /\ [Next]_vars => ~streaming'
  BY ModeStep DEF WholeInv
<1>3. ~streaming /\ WholeInv /\ [Next]_vars => [Channel!Next]_<<Entered, Left>>
  BY RxAssumption, WordAssumption, ChannelStep
<1> QED
  BY <1>1, <1>2, <1>3, WholeInvariant, PTL
     DEF Spec, ReceivesInOrder, Channel!Spec, Entered, Left

(* A cap for all the bytes of the wire makes "nothing is trimmed" a fact.    *)

LEMMA UsageInvariant ==
    ASSUME MaxPurges = 0, MaxFailures = 0, NEW T, Table(T), T[NFrames] <= InputCap
    PROVE  Spec => [](WholeInv /\ Untrimmed)
<1> DEFINE Room == ~streaming => UsageInv(T)
<1>1. Init => WholeInv /\ Room
  BY RxAssumption, WholeInit, UsageInit
<1>2. WholeInv => (~streaming => Arrived(T))
  BY RxAssumption, ArrivedFacts
<1>3. WholeInv /\ Room => Untrimmed
  BY RxAssumption, UsageUntrimmed
<1>4. WholeInv /\ Untrimmed /\ [Next]_vars => WholeInv' /\ (streaming' = streaming)
  BY RxAssumption, WidthAssumption, WordAssumption, WholeStep, ModeStep DEF WholeInv
<1>5. /\ WholeInv /\ Room /\ Untrimmed /\ [Next]_vars
      /\ (streaming' = streaming)
      /\ (~streaming => Arrived(T)) /\ (~streaming => Arrived(T))'
      => Room'
  BY RxAssumption, WidthAssumption, WordAssumption, UsageStep
<1> HIDE DEF Room
<1> QED
  BY <1>1, <1>2, <1>3, <1>4, <1>5, PTL DEF Spec

\* With a cap no smaller than all that arrives (memory_cap.input, T adds up the
\* frames) the two results hold with no condition on the run.
THEOREM FramesStayIntactUnderCap ==
    ASSUME MaxPurges = 0, MaxFailures = 0, NEW T, Table(T), T[NFrames] <= InputCap
    PROVE  Spec => []FramesIntact
<1>1. Spec => [](WholeInv /\ Untrimmed)
  BY UsageInvariant
<1>2. Spec /\ []Untrimmed => []FramesIntact
  BY FramesStayIntact
<1> QED
  BY <1>1, <1>2, PTL

THEOREM ReceivesInOrderUnderCap ==
    ASSUME MaxPurges = 0, MaxFailures = 0, TRUE \notin Modes, NEW T, Table(T),
           T[NFrames] <= InputCap
    PROVE  Spec => ReceivesInOrder
<1>1. Spec => [](WholeInv /\ Untrimmed)
  BY UsageInvariant
<1>2. Spec /\ []Untrimmed => ReceivesInOrder
  BY ReceivesFramesInOrder
<1> QED
  BY <1>1, <1>2, PTL

=============================================================================
