------------------------ MODULE SynccomRxReads_proofs ------------------------
(* What the answer to a read says, for every value of the constants: it is   *)
(* never longer than the buffer of the read, and why a read fails for its    *)
(* buffer.                                                                   *)
EXTENDS SynccomRxFrames_proofs

\* What a read cuts from each frame, and what it adds.
Cut   == IF AppendStatus THEN 0 ELSE StatusLength
Stamp == IF AppendTimestamp THEN TimestampLength ELSE 0

----------------------------------------------------------------------------
(* The arithmetic of max_frame_length, an int made of unsigned values. *)

LEMMA ModuloBorrow ==
    ASSUME NEW x \in Int, x < 0, -x <= WORD
    PROVE  x % WORD = (IF x = -WORD THEN 0 ELSE x + WORD)
BY WordAssumption

LEMMA AsIntFacts ==
    ASSUME NEW x \in Int, -x <= WORD \div 2, x < WORD
    PROVE  AsInt(x) \in Int /\ (AsInt(x) >= 0 => AsInt(x) = x)
           /\ (x >= 0 /\ x < WORD \div 2 => AsInt(x) = x)
<1>1. WORD \in Nat /\ WORD > 0 /\ WORD \div 2 \in Nat /\ 2 * (WORD \div 2) <= WORD
      /\ WORD < 2 * (WORD \div 2) + 2
  BY WordAssumption
<1>2. CASE x >= 0
  <2>1. x % WORD = x
    BY <1>2, ModuloSmall
  <2> QED
    BY <1>1, <1>2, <2>1 DEF AsInt
<1>3. CASE x < 0
  <2>1. x % WORD = (IF x = -WORD THEN 0 ELSE x + WORD)
    BY <1>1, <1>3, ModuloBorrow
  <2>2. x # -WORD
    BY <1>1, <1>3
  <2>3. x % WORD = x + WORD /\ x + WORD >= WORD \div 2 /\ x + WORD < WORD
    BY <1>1, <1>3, <2>1, <2>2
  <2>4. AsInt(x) = (x + WORD) - WORD
    BY <1>1, <2>3 DEF AsInt
  <2> QED
    BY <1>1, <1>3, <2>4
<1> QED
  BY <1>2, <1>3

\* What max_frame_length admits leaves room for the frame.
LEMMA RoomFacts ==
    ASSUME RxAssumption, WidthAssumption, WordAssumption, NEW room \in Nat, NEW out \in Nat,
           out <= room, room + StatusLength < WORD
    PROVE  /\ AsInt(room - out + Cut - Stamp) \in Int
           /\ Cut \in Nat /\ Stamp \in Nat
           /\ \A length \in Nat :
                 /\ AsInt(room - out + Cut - Stamp) >= 0
                 /\ length <= AsInt(room - out + Cut - Stamp)
                 => /\ length < WORD
                    /\ length >= Cut => /\ (length - Cut) % WORD = length - Cut
                                        /\ out + (length - Cut) + Stamp <= room
<1>1. /\ Cut \in Nat /\ Stamp \in Nat /\ Cut <= StatusLength /\ Stamp <= WORD \div 2
      /\ StatusLength \in Nat /\ WORD \in Nat /\ WORD \div 2 \in Nat
  BY DEF RxAssumption, WidthAssumption, WordAssumption, Cut, Stamp
<1>2. PICK x \in Int : x = room - out + Cut - Stamp
  BY <1>1
<1>3. -x <= WORD \div 2 /\ x < WORD
  BY <1>1, <1>2
<1>4. AsInt(x) \in Int /\ (AsInt(x) >= 0 => AsInt(x) = x)
  BY <1>3, AsIntFacts
<1>5. ASSUME NEW length \in Nat, AsInt(x) >= 0, length <= AsInt(x)
      PROVE  /\ length < WORD
             /\ length >= Cut => /\ (length - Cut) % WORD = length - Cut
                                 /\ out + (length - Cut) + Stamp <= room
  <2>1. length <= x
    BY <1>4, <1>5
  <2>2. length < WORD
    BY <1>1, <1>3, <2>1
  <2>3. ASSUME length >= Cut
        PROVE  /\ (length - Cut) % WORD = length - Cut
               /\ out + (length - Cut) + Stamp <= room
    <3>1. length - Cut \in Nat /\ length - Cut < WORD
      BY <1>1, <2>2, <2>3
    <3>2. (length - Cut) % WORD = length - Cut
      BY <3>1, ModuloSmall
    <3>3. out + (length - Cut) + Stamp <= room
      BY <1>1, <1>2, <2>1
    <3> QED
      BY <3>2, <3>3
  <2> QED
    BY <2>2, <2>3
<1> QED
  BY <1>1, <1>2, <1>4, <1>5

----------------------------------------------------------------------------
(* Reads within their buffers. *)

\* The buffers are no longer than an unsigned counts.
LengthsFit == \A length \in ReadLengths : length + StatusLength < WORD

\* The frames on queued_iframes have the status a read may cut.
HasStatus ==
    ~streaming => \A i \in 1..Len(queued_iframes.frames) :
                      DataLength(queued_iframes.frames[i]) >= Cut

FitInv ==
    /\ \A r \in 1..Len(reads) : reads[r].length \in ReadLengths /\ reads[r].out <= reads[r].length
    /\ \A d \in ReadDpcs : dpc[d].pc = "read" => dpc[d].out <= reads[dpc[d].req].length

\* What one iteration of synccom_port_frame_read takes fits what is left.
LEMMA TakeFits ==
    ASSUME RxAssumption, WidthAssumption, WordAssumption, LengthsFit, TypeInv, FitInv, HasStatus,
           NEW d \in ReadDpcs, FrameReadTake(d)
    PROVE  LET length == DataLength(queued_iframes.frames[1])
           IN  /\ length \in Nat /\ length >= Cut
               /\ TakenOut(d) = dpc[d].out + (length - Cut) + Stamp
               /\ TakenOut(d) <= reads[dpc[d].req].length
<1>1. /\ PeekFront(queued_iframes) = queued_iframes.frames[1]
      /\ PeekFront(queued_iframes) \in Frames(Bytes) /\ queued_iframes.frames # <<>>
  BY TakeFacts DEF TypeInv
<1>2. PICK length, room, out : /\ length = DataLength(queued_iframes.frames[1])
                               /\ room = reads[dpc[d].req].length /\ out = dpc[d].out
  OBVIOUS
<1>3. length \in Nat
  BY <1>1, <1>2 DEF Frames, DataLength
<1>4. length >= Cut
  <2> DEFINE T == Frames(Bytes)
  <2>1. queued_iframes.frames \in Seq(T)
    BY ListTypes DEF TypeInv, BufferTypes
  <2> HIDE DEF T
  <2>2. 1 \in 1..Len(queued_iframes.frames)
    BY <1>1, <2>1
  <2>3. ~streaming
    BY DEF FrameReadTake
  <2> QED
    BY <1>2, <2>2, <2>3 DEF HasStatus
<1>5. /\ room \in Nat /\ out \in Nat /\ out <= room /\ room + StatusLength < WORD
      /\ dpc[d].pc = "read"
  <2>1. dpc[d].pc = "read" /\ dpc[d].req \in 1..Len(reads) /\ dpc[d].out \in Nat
    BY DEF FrameReadTake, TypeInv, ReadTypes, DpcStates
  <2>2. room \in ReadLengths /\ out <= room
    BY <1>2, <2>1 DEF FitInv
  <2> QED
    BY <1>2, <2>1, <2>2 DEF LengthsFit, RxAssumption
<1>6. MaxFrameLength(d) = AsInt(room - out + Cut - Stamp)
  BY <1>2 DEF MaxFrameLength, Cut, Stamp
<1>7. MaxFrameLength(d) >= 0 /\ length <= MaxFrameLength(d)
  BY <1>1, <1>2 DEF FrameReadTake, CanRemoveLte
<1>8. /\ (length - Cut) % WORD = length - Cut /\ out + (length - Cut) + Stamp <= room
  BY <1>3, <1>4, <1>5, <1>6, <1>7, RoomFacts
<1>9. TakenOut(d) = out + (length - Cut) + Stamp
  BY <1>1, <1>2, <1>8 DEF TakenOut, TakenLength, Cut, Stamp
<1> QED
  BY <1>2, <1>3, <1>4, <1>8, <1>9

LEMMA CompleteFits ==
    ASSUME ReadTypes, FitInv, NEW d \in ReadDpcs, dpc[d].pc = "read", NEW status \in Statuses,
           NEW length \in Nat, CompleteRead(d, status, length),
           length <= reads[dpc[d].req].length
    PROVE  FitInv'
<1> DEFINE r == dpc[d].req
<1>1. /\ r \in 1..Len(reads) /\ Len(reads') = Len(reads)
      /\ \A q \in 1..Len(reads) : q # r => reads'[q] = reads[q]
      /\ reads'[r].length = reads[r].length /\ reads'[r].out = length
      /\ dpc'[d].pc = "idle" /\ \A e \in ReadDpcs : e # d => dpc'[e] = dpc[e]
  <2>1. /\ r \in 1..Len(reads) /\ Len(reads') = Len(reads)
        /\ \A q \in 1..Len(reads) : q # r => reads'[q] = reads[q]
        /\ reads'[r] = [length |-> reads[r].length, status |-> status, out |-> length]
        /\ dpc'[d] = IdleRead
        /\ \A e \in ReadDpcs : e # d => dpc'[e] = dpc[e]
    BY CompleteReadFacts
  <2> QED
    BY <2>1 DEF IdleRead
<1>2. \A q \in 1..Len(reads) : reads'[q].length = reads[q].length
  BY <1>1
<1>3. \A q \in 1..Len(reads) : reads'[q].out <= reads'[q].length
  BY <1>1 DEF FitInv
<1>4. \A e \in ReadDpcs : dpc'[e].pc = "read" =>
          /\ dpc[e].pc = "read" /\ dpc'[e] = dpc[e] /\ dpc[e].req \in 1..Len(reads)
  BY <1>1 DEF ReadTypes
<1> QED
  BY <1>1, <1>2, <1>3, <1>4 DEF FitInv

\* A read is issued: the others stay, and no run serves it.
LEMMA IssueFacts ==
    ASSUME TypeInv, SyncComEvtIoRead
    PROVE  /\ dpc' = dpc /\ queued_iframes' = queued_iframes
           /\ Len(reads) \in Nat /\ Len(reads') = Len(reads) + 1
           /\ \A r \in 1..Len(reads) : reads'[r] = reads[r]
           /\ \A r \in 1..Len(reads') : r \in 1..Len(reads) \/ r = Len(reads) + 1
           /\ LET new == reads'[Len(reads) + 1]
              IN  /\ new.length \in ReadLengths /\ new.out = 0
                  /\ new.status \in {"success", "queued", "failed"}
<1> DEFINE read(length, status) ==
               [length |-> length, status |-> status, out |-> 0]
<1>1. PICK length \in ReadLengths, status \in {"success", "queued", "failed"} :
          reads' = Append(reads, read(length, status))
  BY DEF SyncComEvtIoRead
<1>2. PICK new : /\ reads' = Append(reads, new) /\ new.length \in ReadLengths /\ new.out = 0
                 /\ new.status \in {"success", "queued", "failed"}
  BY <1>1
<1>3. reads \in Seq(ReadStates)
  BY DEF TypeInv, ReadTypes
<1>4. /\ Len(reads) \in Nat /\ Len(reads') = Len(reads) + 1 /\ reads'[Len(reads) + 1] = new
      /\ \A r \in 1..Len(reads) : reads'[r] = reads[r]
  <2> HIDE DEF ReadStates
  <2> QED
    BY <1>2, <1>3
<1>5. \A r \in 1..Len(reads') : r \in 1..Len(reads) \/ r = Len(reads) + 1
  BY <1>4
<1> QED
  BY <1>2, <1>4, <1>5 DEF SyncComEvtIoRead

\* A run of SynccomProcessRead moves on without a read, or gets its read.
LEMMA AdvanceFacts ==
    ASSUME TypeInv, PlacesInv, NEW d \in ReadDpcs, ReadStart(d) \/ ReadCheck(d) \/ ReadRetrieve(d)
    PROVE  /\ queued_iframes' = queued_iframes /\ Len(reads') = Len(reads)
           /\ \A e \in ReadDpcs : e # d => dpc'[e] = dpc[e]
           /\ \A r \in 1..Len(reads) : /\ reads'[r].length = reads[r].length
                                       /\ reads'[r].out = reads[r].out
                                       /\ \/ reads'[r].status = reads[r].status
                                          \/ reads'[r].status \in {"held", "failed"}
           /\ dpc'[d].pc = "read" => /\ dpc[d].pc = "retrieve" /\ dpc'[d].out = 0
                                     /\ dpc'[d].req \in 1..Len(reads)
           /\ dpc'[d].pc = "retrieve" => ReadCheck(d) /\ HasIncomingData
<1>1. /\ reads \in Seq(ReadStates) /\ dpc \in [ReadDpcs -> DpcStates(Len(reads))]
      /\ read_queue2 \in Seq(1..Len(reads))
  BY DEF TypeInv, ReadTypes
<1>2. ASSUME NEW state, dpc' = [dpc EXCEPT ![d] = state]
      PROVE  dpc'[d] = state /\ \A e \in ReadDpcs : e # d => dpc'[e] = dpc[e]
  BY <1>1, <1>2
<1>3. CASE ReadStart(d) \/ ReadCheck(d)
  <2>1. PICK pc \in {"idle", "check", "retrieve"} :
            /\ dpc' = [dpc EXCEPT ![d].pc = pc]
            /\ pc = "retrieve" => ReadCheck(d) /\ HasIncomingData
    BY <1>3 DEF ReadStart, ReadCheck
  <2>2. dpc' = [dpc EXCEPT ![d] = [dpc[d] EXCEPT !.pc = pc]] /\ [dpc[d] EXCEPT !.pc = pc].pc = pc
    BY <1>1, <2>1 DEF DpcStates
  <2>3. dpc'[d].pc = pc /\ \A e \in ReadDpcs : e # d => dpc'[e] = dpc[e]
    BY <1>2, <2>2
  <2> QED
    BY <1>3, <2>1, <2>3 DEF ReadStart, ReadCheck
<1>4. CASE ReadRetrieve(d) /\ read_queue2 = <<>>
  <2>1. dpc'[d] = IdleRead /\ \A e \in ReadDpcs : e # d => dpc'[e] = dpc[e]
    BY <1>2, <1>4 DEF ReadRetrieve
  <2> QED
    BY <1>4, <2>1 DEF ReadRetrieve, IdleRead
<1>5. CASE ReadRetrieve(d) /\ read_queue2 # <<>>
  <2>1. PICK r : r = Head(read_queue2)
    OBVIOUS
  <2>2. r \in 1..Len(reads)
    <3> DEFINE S == 1..Len(reads)
    <3>1. read_queue2 \in Seq(S)
      BY <1>1
    <3> HIDE DEF S
    <3>2. Head(read_queue2) \in S
      BY <1>5, <3>1, SeqFacts
    <3> QED
      BY <2>1, <3>2 DEF S
  <2>3. PICK status \in {"held", "failed"} :
            /\ dpc[d].pc = "retrieve" /\ queued_iframes' = queued_iframes
            /\ dpc' = [dpc EXCEPT ![d] = IF status = "failed" THEN IdleRead
                                         ELSE [pc |-> "read", req |-> r, out |-> 0]]
            /\ reads' = [reads EXCEPT ![r].status = status]
    BY <1>5, <2>1 DEF ReadRetrieve
  <2>4. /\ dpc'[d] \in {IdleRead, [pc |-> "read", req |-> r, out |-> 0]}
        /\ \A e \in ReadDpcs : e # d => dpc'[e] = dpc[e]
    BY <1>2, <2>3
  <2>5. PICK new : /\ reads' = [reads EXCEPT ![r] = new] /\ new.length = reads[r].length
                   /\ new.out = reads[r].out /\ new.status = status
    <3>1. reads[r] \in ReadStates
      BY <1>1, <2>2
    <3>2. reads' = [reads EXCEPT ![r] = [reads[r] EXCEPT !.status = status]]
      BY <2>3
    <3>3. /\ [reads[r] EXCEPT !.status = status].length = reads[r].length
          /\ [reads[r] EXCEPT !.status = status].out = reads[r].out
          /\ [reads[r] EXCEPT !.status = status].status = status
      BY <3>1 DEF ReadStates
    <3> QED
      BY <3>2, <3>3
  <2>6. /\ Len(reads') = Len(reads) /\ reads'[r] = new
        /\ \A q \in 1..Len(reads) : q # r => reads'[q] = reads[q]
    <3> HIDE DEF ReadStates
    <3> QED
      BY <1>1, <2>2, <2>5
  <2>7. /\ dpc'[d].pc = "read" => dpc'[d].out = 0 /\ dpc'[d].req = r
        /\ dpc'[d].pc # "retrieve"
    BY <2>4 DEF IdleRead
  <2> QED
    BY <2>2, <2>3, <2>4, <2>5, <2>6, <2>7
<1> QED
  BY <1>3, <1>4, <1>5

\* PURGE_RX cancels what waits and touches nothing else of a read.
LEMMA CancelFacts ==
    ASSUME TypeInv, PurgeCancel
    PROVE  /\ dpc' = dpc /\ Len(reads') = Len(reads)
           /\ \A r \in 1..Len(reads) : /\ reads'[r].length = reads[r].length
                                       /\ reads'[r].out = reads[r].out
<1>1. reads \in Seq(ReadStates)
  BY DEF TypeInv, ReadTypes
<1>2. dpc' = dpc /\ reads' = [r \in DOMAIN reads |-> Cancelled(reads[r])]
  BY DEF PurgeCancel, PurgeUnchanged
<1>3. \A read \in ReadStates :
          Cancelled(read).length = read.length /\ Cancelled(read).out = read.out
  BY DEF Cancelled, ReadStates
<1>4. DOMAIN reads = 1..Len(reads) /\ \A r \in 1..Len(reads) : reads[r] \in ReadStates
  <2> HIDE DEF ReadStates
  <2> QED
    BY <1>1
<1>5. Len(reads') = Len(reads)
  BY <1>1, <1>2, <1>4
<1> QED
  BY <1>2, <1>3, <1>4, <1>5

\* The steps of the other actors leave the reads alone.
LEMMA OthersKeepReads ==
    ASSUME [Next]_vars, ~SyncComEvtIoRead, ~PurgeCancel,
           \A d \in ReadDpcs : ~(ReadStart(d) \/ SynccomProcessRead(d))
    PROVE  UNCHANGED <<reads, dpc>>
<1>1. CASE WireByte \/ Adapter \/ RegisterCompletion \/ RxPacket \/ RxStep
  BY <1>1 DEF WireByte, Adapter, ExecuteFrameCount, ExecuteFrameSize, ExecuteReceiverReset,
              RegisterCompletion, CompleteFrameCount, CompleteFrameSize, CompleteWithError,
              SendRead, SendSizeRead, SendCountRead,
              RxPacket, RxStep, RxUsageQueued, RxUsageStream, RxUsagePending, RxTrim, RxAdd,
              RxUnchanged, readVars
<1>2. CASE Timer \/ IframeWorker
  BY <1>2 DEF Timer, IframeWorker, IframeStart, IframeLoop, IframeEnd, readVars
<1>3. CASE PurgeReset \/ PurgeStep
  BY <1>3 DEF PurgeReset, PurgeStep, PurgeQueued, PurgeStream, PurgePending, PurgeDrain,
              PurgeUnchanged
<1>4. CASE UNCHANGED vars
  BY <1>4 DEF vars, readVars
<1> QED
  BY <1>1, <1>2, <1>3, <1>4 DEF Next

LEMMA FitStep ==
    ASSUME RxAssumption, WidthAssumption, WordAssumption, LengthsFit, TypeInv, PlacesInv, FitInv,
           HasStatus, [Next]_vars
    PROVE  FitInv'
<1>1. /\ ReadTypes /\ BufferTypes /\ reads \in Seq(ReadStates) /\ Len(reads) \in Nat
      /\ dpc \in [ReadDpcs -> DpcStates(Len(reads))]
      /\ \A d \in ReadDpcs : dpc[d].pc = "read" => dpc[d].req \in 1..Len(reads)
  BY DEF TypeInv, ReadTypes
<1>2. /\ \A r \in 1..Len(reads) : /\ reads[r].length \in ReadLengths
                                  /\ reads[r].out <= reads[r].length /\ reads[r].length \in Nat
      /\ \A d \in ReadDpcs : dpc[d].pc = "read" => dpc[d].out <= reads[dpc[d].req].length
  BY DEF FitInv, RxAssumption
<1>3. CASE SyncComEvtIoRead
  <2>1. PICK new : new = reads'[Len(reads) + 1]
    OBVIOUS
  <2>2. /\ dpc' = dpc /\ Len(reads') = Len(reads) + 1
        /\ \A r \in 1..Len(reads) : reads'[r] = reads[r]
        /\ \A r \in 1..Len(reads') : r \in 1..Len(reads) \/ r = Len(reads) + 1
        /\ new.length \in ReadLengths /\ new.out = 0
    BY <1>3, <2>1, IssueFacts
  <2>3. new.out <= new.length
    <3>1. ReadLengths \subseteq Nat
      BY DEF RxAssumption
    <3>2. new.length \in Nat
      BY <2>2, <3>1
    <3> QED
      BY <2>2, <3>2
  <2> QED
    BY <1>1, <1>2, <2>1, <2>2, <2>3 DEF FitInv
<1>4. ASSUME NEW d \in ReadDpcs, ReadStart(d) \/ ReadCheck(d) \/ ReadRetrieve(d)
      PROVE  FitInv'
  <2>1. /\ Len(reads') = Len(reads)
        /\ \A e \in ReadDpcs : e # d => dpc'[e] = dpc[e]
        /\ \A r \in 1..Len(reads) : /\ reads'[r].length = reads[r].length
                                    /\ reads'[r].out = reads[r].out
        /\ dpc'[d].pc = "read" => dpc'[d].out = 0 /\ dpc'[d].req \in 1..Len(reads)
    BY <1>4, AdvanceFacts
  <2>2. \A e \in ReadDpcs : dpc'[e].pc = "read" =>
            dpc'[e].req \in 1..Len(reads) /\ dpc'[e].out <= reads[dpc'[e].req].length
    <3> TAKE e \in ReadDpcs
    <3>1. CASE e = d
      BY <1>2, <2>1, <3>1
    <3>2. CASE e # d
      BY <1>1, <1>2, <2>1, <3>2
    <3> QED
      BY <3>1, <3>2
  <2> QED
    BY <1>2, <2>1, <2>2 DEF FitInv
<1>5. ASSUME NEW d \in ReadDpcs, StreamRead(d)
      PROVE  FitInv'
  <2>1. PICK length : /\ length = Least(reads[dpc[d].req].length, DataLength(istream))
                      /\ dpc[d].pc = "read" /\ CompleteRead(d, "success", length)
    BY <1>5 DEF StreamRead
  <2>2. length \in Nat /\ length <= reads[dpc[d].req].length
    <3>1. reads[dpc[d].req].length \in Nat
      BY <1>1, <1>2, <2>1
    <3>2. DataLength(istream) \in Nat
      BY <1>1 DEF BufferTypes, Frames, DataLength
    <3> QED
      BY <2>1, <3>1, <3>2 DEF Least
  <2>3. "success" \in Statuses
    BY DEF Statuses
  <2> QED
    BY <1>1, <2>1, <2>2, <2>3, CompleteFits
<1>6. ASSUME NEW d \in ReadDpcs, FrameReadTake(d)
      PROVE  FitInv'
  <2>1. /\ TakenOut(d) \in Nat
        /\ IF RxMultiple
           THEN dpc' = [dpc EXCEPT ![d].out = TakenOut(d)] /\ reads' = reads
           ELSE CompleteRead(d, IF TakenOut(d) = 0 THEN "too_small" ELSE "success",
                             TakenOut(d))
    BY <1>1, <1>6, TakeFacts
  <2>2. dpc[d].pc = "read" /\ TakenOut(d) <= reads[dpc[d].req].length
    BY <1>6, TakeFits DEF FrameReadTake
  <2>3. CASE RxMultiple
    <3>1. PICK out : out = TakenOut(d)
      OBVIOUS
    <3>2. dpc' = [dpc EXCEPT ![d] = [dpc[d] EXCEPT !.out = out]] /\ reads' = reads
      BY <2>1, <2>3, <3>1
    <3>3. [dpc[d] EXCEPT !.out = out].req = dpc[d].req /\ [dpc[d] EXCEPT !.out = out].out = out
      BY <1>1 DEF DpcStates
    <3>4. /\ dpc'[d].req = dpc[d].req /\ dpc'[d].out = out
          /\ \A e \in ReadDpcs : e # d => dpc'[e] = dpc[e]
      BY <1>1, <3>2, <3>3
    <3> QED
      BY <1>2, <2>2, <3>1, <3>2, <3>4 DEF FitInv
  <2>4. CASE ~RxMultiple
    <3>1. PICK status \in {"success", "too_small"} : CompleteRead(d, status, TakenOut(d))
      BY <2>1, <2>4
    <3>2. status \in Statuses
      BY DEF Statuses
    <3> QED
      BY <1>1, <2>1, <2>2, <3>1, <3>2, CompleteFits
  <2> QED
    BY <2>3, <2>4
<1>7. ASSUME NEW d \in ReadDpcs, FrameReadEnd(d)
      PROVE  FitInv'
  <2>1. PICK status \in {"success", "too_small"} : CompleteRead(d, status, dpc[d].out)
    BY <1>7 DEF FrameReadEnd
  <2>2. dpc[d].pc = "read" /\ dpc[d].out \in Nat /\ dpc[d].out <= reads[dpc[d].req].length
    BY <1>1, <1>2, <1>7 DEF FrameReadEnd, DpcStates
  <2>3. status \in Statuses
    BY DEF Statuses
  <2> QED
    BY <1>1, <2>1, <2>2, <2>3, CompleteFits
<1>8. CASE PurgeCancel
  <2>1. /\ dpc' = dpc /\ Len(reads') = Len(reads)
        /\ \A r \in 1..Len(reads) : /\ reads'[r].length = reads[r].length
                                    /\ reads'[r].out = reads[r].out
    BY <1>8, CancelFacts
  <2> QED
    BY <1>1, <1>2, <2>1 DEF FitInv
<1>9. ASSUME UNCHANGED <<reads, dpc>> PROVE FitInv'
  BY <1>9 DEF FitInv
<1> QED
  BY <1>3, <1>4, <1>5, <1>6, <1>7, <1>8, <1>9, OthersKeepReads DEF SynccomProcessRead

LEMMA FitInit == ASSUME Init PROVE FitInv
<1>1. Len(reads) = 0 /\ \A d \in ReadDpcs : dpc[d].pc = "idle"
  BY DEF Init, IdleRead
<1> QED
  BY <1>1 DEF FitInv

LEMMA FitMeans == ASSUME TypeInv, FitInv PROVE ReadWithinBuffer
<1>1. DOMAIN reads = 1..Len(reads)
  <2>1. reads \in Seq(ReadStates)
    BY DEF TypeInv, ReadTypes
  <2> HIDE DEF ReadStates
  <2> QED
    BY <2>1
<1> QED
  BY <1>1 DEF FitInv, ReadWithinBuffer

\* A read that keeps the status never answers with more than its buffer holds,
\* whatever is purged, dropped or fails (synccom_port_frame_read, port.c).
THEOREM ReadsStayWithinBuffer ==
    ASSUME LengthsFit, AppendStatus \/ StatusLength = 0
    PROVE  Spec => []ReadWithinBuffer
<1>1. Init => FitInv
  BY FitInit
<1>2. TypeInv => HasStatus
  <2>1. Cut = 0
    BY DEF Cut
  <2>2. ASSUME TypeInv, NEW i \in 1..Len(queued_iframes.frames)
        PROVE  DataLength(queued_iframes.frames[i]) >= 0
    <3> DEFINE T == Frames(Bytes)
    <3>1. queued_iframes.frames \in Seq(T)
      BY <2>2, ListTypes DEF TypeInv, BufferTypes
    <3> HIDE DEF T
    <3>2. queued_iframes.frames[i] \in T
      BY <2>2, <3>1
    <3> QED
      BY <3>2 DEF T, Frames, DataLength
  <2> QED
    BY <2>1, <2>2 DEF HasStatus
<1>3. TypeInv /\ PlacesInv /\ FitInv /\ HasStatus /\ [Next]_vars => FitInv'
  BY RxAssumption, WidthAssumption, WordAssumption, FitStep
<1>4. TypeInv /\ FitInv => ReadWithinBuffer
  BY FitMeans
<1> QED
  BY <1>1, <1>2, <1>3, <1>4, PlacesInvariant, PTL DEF Spec

\* Whole frames have their status, so the cut never goes below zero.
LEMMA WholeHasStatus ==
    ASSUME RxAssumption, WholeInv
    PROVE  /\ HasStatus
           /\ ~streaming => \A i \in 1..Len(queued_iframes.frames) :
                 \E k \in 1..NFrames : DataLength(queued_iframes.frames[i]) = FrameLengths[k]
<1>1. ASSUME ~streaming, NEW i \in 1..Len(queued_iframes.frames)
      PROVE  \E k \in 1..NFrames : DataLength(queued_iframes.frames[i]) = FrameLengths[k]
  <2>1. PICK n, m : n = Len(taken) /\ m = Len(queued_iframes.frames)
    OBVIOUS
  <2>2. WholeInv /\ FramesOpened /\ FramesDone
    BY <1>1 DEF WholeInv, FramesPlaced
  <2>3. n \in Nat /\ m \in Nat /\ n + m <= NFrames /\ NFrames \in Nat
    <3>1. PICK o, z, top, p : /\ o = Len(pending_iframes.frames) /\ z = tally.sized
                              /\ top = wire.frame /\ p = tally.popped
      OBVIOUS
    <3>2. TypeInv /\ SizesInv /\ SizesNamed
      BY <1>1 DEF WholeInv
    <3>3. /\ n \in Nat /\ m \in Nat /\ Done = n + m /\ NFrames \in Nat /\ o \in Nat
          /\ Done + o <= p /\ p <= z /\ z = top - 1 /\ top \in 1..NFrames + 1 /\ p \in Nat
      BY <2>1, <2>2, <3>1, <3>2, OpenedFacts, TallyOrder DEF Done
    <3> QED
      BY <3>3
  <2>4. n + i \in 1..NFrames /\ i \in 1..m
    BY <1>1, <2>1, <2>3
  <2>5. queued_iframes.frames[i].data = FrameBytes(n + i)
    BY <2>1, <2>2, <2>4 DEF FramesDone
  <2>6. Len(FrameBytes(n + i)) = FrameLengths[n + i]
    BY <2>4, BytesFacts
  <2> QED
    BY <2>4, <2>5, <2>6 DEF DataLength
<1>2. \A k \in 1..NFrames : FrameLengths[k] >= Cut
  <2>1. \A k \in 1..NFrames : FrameLengths[k] \in Nat /\ FrameLengths[k] >= StatusLength
    BY BytesFacts DEF RxAssumption
  <2>2. Cut \in Nat /\ Cut <= StatusLength /\ StatusLength \in Nat
    BY DEF Cut, RxAssumption
  <2> QED
    BY <2>1, <2>2
<1> QED
  BY <1>1, <1>2 DEF HasStatus

\* Reads that cut the status never answer with more than their buffers hold
\* either, as long as every frame keeps its status.
THEOREM ReadsStayWithinBufferUnderCap ==
    ASSUME LengthsFit, MaxPurges = 0, MaxFailures = 0, NEW T, Table(T), T[NFrames] <= InputCap
    PROVE  Spec => []ReadWithinBuffer
<1>1. Init => FitInv
  BY FitInit
<1>2. WholeInv => HasStatus /\ TypeInv
  BY RxAssumption, WholeHasStatus DEF WholeInv
<1>3. TypeInv /\ PlacesInv /\ FitInv /\ HasStatus /\ [Next]_vars => FitInv'
  BY RxAssumption, WidthAssumption, WordAssumption, FitStep
<1>4. TypeInv /\ FitInv => ReadWithinBuffer
  BY FitMeans
<1> QED
  BY <1>1, <1>2, <1>3, <1>4, PlacesInvariant, UsageInvariant, PTL DEF Spec

----------------------------------------------------------------------------
(* STATUS_BUFFER_TOO_SMALL. *)

\* The buffers are no longer than an int counts.
LengthsFitInt == \A length \in ReadLengths : length + StatusLength < WORD \div 2

RoomInv == \A r \in 1..Len(reads) : reads[r].length \in ReadLengths

\* A run of SynccomProcessRead that found frames still finds some, unless
\* frames have left queued_iframes since.
FoundInv ==
    ~streaming => \A d \in Checked : d \notin outdated => queued_iframes.frames # <<>>

LEMMA RoomStep ==
    ASSUME RxAssumption, WordAssumption, TypeInv, PlacesInv, RoomInv, [Next]_vars
    PROVE  RoomInv'
<1>1. ReadTypes /\ BufferTypes /\ Len(reads) \in Nat
  BY DEF TypeInv, ReadTypes
<1>2. ASSUME Len(reads') = Len(reads), \A r \in 1..Len(reads) : reads'[r].length = reads[r].length
      PROVE  RoomInv'
  BY <1>2 DEF RoomInv
<1>3. CASE SyncComEvtIoRead
  <2>1. PICK new : new = reads'[Len(reads) + 1]
    OBVIOUS
  <2>2. /\ Len(reads') = Len(reads) + 1 /\ new.length \in ReadLengths
        /\ \A r \in 1..Len(reads) : reads'[r] = reads[r]
        /\ \A r \in 1..Len(reads') : r \in 1..Len(reads) \/ r = Len(reads) + 1
    BY <1>3, <2>1, IssueFacts
  <2> QED
    BY <2>1, <2>2 DEF RoomInv
<1>4. ASSUME NEW d \in ReadDpcs, ReadStart(d) \/ ReadCheck(d) \/ ReadRetrieve(d)
      PROVE  RoomInv'
  BY <1>2, <1>4, AdvanceFacts
<1>5. ASSUME NEW d \in ReadDpcs, dpc[d].pc = "read", NEW status \in Statuses, NEW length \in Nat,
             CompleteRead(d, status, length)
      PROVE  RoomInv'
  <2>1. PICK r \in 1..Len(reads) :
            /\ Len(reads') = Len(reads) /\ \A q \in 1..Len(reads) : q # r => reads'[q] = reads[q]
            /\ reads'[r] = [length |-> reads[r].length, status |-> status, out |-> length]
    BY <1>1, <1>5, CompleteReadFacts
  <2> QED
    BY <1>2, <2>1
<1>6. ASSUME NEW d \in ReadDpcs, StreamRead(d)
      PROVE  RoomInv'
  <2>1. PICK length : /\ length = Least(reads[dpc[d].req].length, DataLength(istream))
                      /\ dpc[d].pc = "read" /\ CompleteRead(d, "success", length)
    BY <1>6 DEF StreamRead
  <2>2. reads[dpc[d].req].length \in Nat
    BY <1>1, <2>1 DEF ReadTypes, RoomInv, RxAssumption
  <2>3. DataLength(istream) \in Nat
    BY <1>1 DEF BufferTypes, Frames, DataLength
  <2>4. length \in Nat /\ "success" \in Statuses
    BY <2>1, <2>2, <2>3 DEF Least, Statuses
  <2> QED
    BY <1>5, <2>1, <2>4
<1>7. ASSUME NEW d \in ReadDpcs, FrameReadTake(d)
      PROVE  RoomInv'
  <2>1. /\ TakenOut(d) \in Nat /\ dpc[d].pc = "read"
        /\ \/ reads' = reads
           \/ CompleteRead(d, IF TakenOut(d) = 0 THEN "too_small" ELSE "success", TakenOut(d))
    BY <1>1, <1>7, TakeFacts DEF FrameReadTake
  <2>2. CASE reads' = reads
    BY <1>2, <2>2
  <2>3. CASE reads' # reads
    <3>1. PICK status \in Statuses : CompleteRead(d, status, TakenOut(d))
      BY <2>1, <2>3 DEF Statuses
    <3> QED
      BY <1>5, <2>1, <3>1
  <2> QED
    BY <2>2, <2>3
<1>8. ASSUME NEW d \in ReadDpcs, FrameReadEnd(d)
      PROVE  RoomInv'
  <2>1. PICK status \in Statuses : CompleteRead(d, status, dpc[d].out) /\ dpc[d].pc = "read"
    BY <1>8 DEF FrameReadEnd, Statuses
  <2>2. dpc[d].out \in Nat
    BY <1>1 DEF ReadTypes, DpcStates
  <2> QED
    BY <1>5, <2>1, <2>2
<1>9. CASE PurgeCancel
  BY <1>2, <1>9, CancelFacts
<1>10. CASE UNCHANGED <<reads, dpc>>
  BY <1>2, <1>10
<1> QED
  BY <1>3, <1>4, <1>6, <1>7, <1>8, <1>9, <1>10, OthersKeepReads DEF SynccomProcessRead

\* Only a read and PURGE_RX take from queued_iframes.
LEMMA QueuedStays ==
    ASSUME TypeInv, [Next]_vars, ~PurgeQueued,
           \A d \in ReadDpcs : ~FrameReadTake(d), queued_iframes.frames # <<>>
    PROVE  queued_iframes'.frames # <<>>
<1>1. CASE IframeLoop
  <2>1. PICK frame : queued_iframes' = queued_iframes \/ queued_iframes' = AddFrame(queued_iframes, frame)
    BY <1>1 DEF IframeLoop
  <2>2. CASE queued_iframes' = AddFrame(queued_iframes, frame)
    <3>1. queued_iframes'.frames = Append(queued_iframes.frames, frame)
      BY <2>2 DEF AddFrame
    <3>2. Len(queued_iframes'.frames) = Len(queued_iframes.frames) + 1
          /\ Len(queued_iframes.frames) \in Nat
      <4> DEFINE T == Frames(Bytes)
      <4>1. queued_iframes.frames \in Seq(T)
        BY ListTypes DEF TypeInv, BufferTypes
      <4> HIDE DEF T
      <4> QED
        BY <3>1, <4>1
    <3> QED
      BY <3>2
  <2> QED
    BY <2>1, <2>2
<1>2. CASE WireByte \/ Adapter \/ RegisterCompletion
  BY <1>2 DEF WireByte, Adapter, ExecuteFrameCount, ExecuteFrameSize, ExecuteReceiverReset,
              RegisterCompletion, CompleteFrameCount, CompleteFrameSize, CompleteWithError,
              SendRead, SendSizeRead, SendCountRead,
              bufferVars
<1>3. CASE RxPacket \/ RxStep \/ Timer \/ IframeStart \/ IframeEnd
  BY <1>3 DEF RxPacket, RxStep, RxUsageQueued, RxUsageStream, RxUsagePending, RxTrim, RxAdd,
              RxUnchanged, Timer, IframeStart, IframeEnd, bufferVars
<1>4. CASE \/ SyncComEvtIoRead
           \/ \E d \in ReadDpcs : ReadStart(d) \/ SynccomProcessRead(d)
  BY <1>4 DEF SyncComEvtIoRead, ReadStart, SynccomProcessRead, ReadCheck, ReadRetrieve,
              StreamRead, FrameReadEnd, ReadUnchanged
<1>5. CASE PurgeReset \/ PurgeStep
  BY <1>5 DEF PurgeReset, PurgeStep, PurgeStream, PurgePending, PurgeCancel, PurgeDrain, bufferVars
<1>6. CASE UNCHANGED vars
  BY <1>6 DEF vars, bufferVars
<1> QED
  BY <1>1, <1>2, <1>3, <1>4, <1>5, <1>6 DEF Next, IframeWorker

\* Only the runs of SynccomProcessRead and PURGE_RX change which are outdated.
LEMMA OthersKeepOutdated ==
    ASSUME [Next]_vars, ~PurgeQueued, \A d \in ReadDpcs : ~SynccomProcessRead(d)
    PROVE  outdated' = outdated
<1>1. CASE WireByte \/ Adapter \/ RegisterCompletion \/ RxPacket \/ RxStep
  BY <1>1 DEF WireByte, Adapter, ExecuteFrameCount, ExecuteFrameSize, ExecuteReceiverReset,
              RegisterCompletion, CompleteFrameCount, CompleteFrameSize, CompleteWithError,
              SendRead, SendSizeRead, SendCountRead,
              RxPacket, RxStep, RxUsageQueued, RxUsageStream, RxUsagePending, RxTrim, RxAdd,
              RxUnchanged, readVars
<1>2. CASE Timer \/ IframeWorker
  BY <1>2 DEF Timer, IframeWorker, IframeStart, IframeLoop, IframeEnd, readVars
<1>3. CASE SyncComEvtIoRead \/ \E d \in ReadDpcs : ReadStart(d)
  BY <1>3 DEF SyncComEvtIoRead, ReadStart
<1>4. CASE PurgeReset \/ PurgeStep
  BY <1>4 DEF PurgeReset, PurgeStep, PurgeStream, PurgePending, PurgeCancel, PurgeDrain
<1>5. CASE UNCHANGED vars
  BY <1>5 DEF vars, readVars
<1> QED
  BY <1>1, <1>2, <1>3, <1>4, <1>5 DEF Next

LEMMA FoundStep ==
    ASSUME RxAssumption, TypeInv, PlacesInv, FoundInv, [Next]_vars
    PROVE  FoundInv'
<1>1. streaming' = streaming
  BY StreamingStays
<1>2. CASE PurgeQueued \/ \E d \in ReadDpcs : FrameReadTake(d)
  <2>1. Checked' \subseteq outdated'
    <3>1. CASE PurgeQueued
      BY <3>1 DEF PurgeQueued, PurgeUnchanged, Checked
    <3>2. CASE \E d \in ReadDpcs : FrameReadTake(d)
      BY <3>2 DEF FrameReadTake
    <3> QED
      BY <1>2, <3>1, <3>2
  <2> QED
    BY <2>1 DEF FoundInv
<1>3. ASSUME queued_iframes.frames # <<>> => queued_iframes'.frames # <<>>, Checked' \subseteq Checked,
             outdated \cap Checked' \subseteq outdated'
      PROVE  FoundInv'
  BY <1>1, <1>3 DEF FoundInv
<1>4. ASSUME NEW d \in ReadDpcs, ReadStart(d) \/ ReadCheck(d) \/ ReadRetrieve(d)
      PROVE  FoundInv'
  <2>1. /\ queued_iframes' = queued_iframes /\ \A e \in ReadDpcs : e # d => dpc'[e] = dpc[e]
        /\ dpc'[d].pc = "read" => dpc[d].pc = "retrieve"
        /\ dpc'[d].pc = "retrieve" => HasIncomingData
    BY <1>4, AdvanceFacts
  <2>2. outdated \cap Checked' \subseteq outdated'
    BY <1>4 DEF ReadStart, ReadCheck, ReadRetrieve
  <2>3. CASE dpc'[d].pc = "retrieve"
    BY <1>1, <2>1, <2>3 DEF HasIncomingData, IsEmptyList, FoundInv
  <2>4. CASE dpc'[d].pc # "retrieve"
    BY <1>3, <2>1, <2>2, <2>4 DEF Checked
  <2> QED
    BY <2>3, <2>4
<1>5. ASSUME NEW d \in ReadDpcs, StreamRead(d)
      PROVE  FoundInv'
  BY <1>1, <1>5 DEF StreamRead, FoundInv
<1>6. ASSUME NEW d \in ReadDpcs, FrameReadEnd(d)
      PROVE  FoundInv'
  <2>1. dpc' = [dpc EXCEPT ![d] = IdleRead] /\ queued_iframes' = queued_iframes
        /\ outdated' = outdated \cap Checked'
    BY <1>6 DEF FrameReadEnd, CompleteRead
  <2>2. Checked' \subseteq Checked
    <3>1. dpc \in [ReadDpcs -> DpcStates(Len(reads))]
      BY DEF TypeInv, ReadTypes
    <3>2. dpc'[d].pc = "idle" /\ \A e \in ReadDpcs : e # d => dpc'[e] = dpc[e]
      BY <2>1, <3>1 DEF IdleRead
    <3> QED
      BY <3>2 DEF Checked
  <2> QED
    BY <1>3, <2>1, <2>2
<1>7. CASE SyncComEvtIoRead \/ PurgeCancel
  <2>1. UNCHANGED <<dpc, outdated, queued_iframes>>
    BY <1>7 DEF SyncComEvtIoRead, PurgeCancel, PurgeUnchanged, bufferVars
  <2> QED
    BY <1>3, <2>1 DEF Checked
<1>8. ASSUME ~SyncComEvtIoRead, ~PurgeCancel, ~PurgeQueued,
             \A d \in ReadDpcs : ~(ReadStart(d) \/ SynccomProcessRead(d))
      PROVE  FoundInv'
  <2>1. dpc' = dpc
    BY <1>8, OthersKeepReads
  <2>2. queued_iframes.frames # <<>> => queued_iframes'.frames # <<>>
    BY <1>8, QueuedStays DEF SynccomProcessRead
  <2>3. outdated' = outdated
    BY <1>8, OthersKeepOutdated
  <2> QED
    BY <1>3, <2>1, <2>2, <2>3 DEF Checked
<1> QED
  BY <1>2, <1>4, <1>5, <1>6, <1>7, <1>8 DEF SynccomProcessRead

ExplainInv == RoomInv /\ FoundInv

LEMMA ExplainInit == ASSUME Init PROVE ExplainInv
<1>1. Len(reads) = 0 /\ \A d \in ReadDpcs : dpc[d].pc = "idle"
  BY DEF Init, IdleRead
<1> QED
  BY <1>1 DEF ExplainInv, RoomInv, FoundInv, Checked

\* A frame that max_frame_length does not admit is too big.
LEMMA RefusedFacts ==
    ASSUME RxAssumption, WidthAssumption, WordAssumption, NEW room \in Nat, NEW length \in Nat,
           room + StatusLength < WORD \div 2,
           ~(AsInt(room - 0 + Cut - Stamp) >= 0 /\ length <= AsInt(room - 0 + Cut - Stamp))
    PROVE  room + Cut < length + Stamp
<1>1. /\ Cut \in Nat /\ Stamp \in Nat /\ Cut <= StatusLength /\ Stamp <= WORD \div 2
      /\ StatusLength \in Nat /\ WORD \in Nat /\ WORD \div 2 \in Nat /\ WORD \div 2 <= WORD
  BY DEF RxAssumption, WidthAssumption, WordAssumption, Cut, Stamp
<1>2. PICK x \in Int : x = room - 0 + Cut - Stamp
  BY <1>1
<1>3. -x <= WORD \div 2 /\ x < WORD /\ x < WORD \div 2
  BY <1>1, <1>2
<1>4. x >= 0 => AsInt(x) = x
  BY <1>3, AsIntFacts
<1>5. x < 0 \/ length > x
  BY <1>2, <1>4
<1> QED
  BY <1>1, <1>2, <1>5

\* A read that a run which found frames ends with none is too small for them.
LEMMA EndExplained ==
    ASSUME RxAssumption, WidthAssumption, WordAssumption, LengthsFitInt, TypeInv, ExplainInv,
           NEW d \in ReadDpcs, FrameReadEnd(d), dpc[d].out = 0, d \notin outdated
    PROVE  BufferTooSmall(dpc[d].req)
<1>1. /\ dpc[d].pc = "read" /\ ~streaming /\ dpc[d].req \in 1..Len(reads)
      /\ ~(MaxFrameLength(d) >= 0 /\ CanRemoveLte(queued_iframes, MaxFrameLength(d)))
  BY DEF FrameReadEnd, TypeInv, ReadTypes
<1>2. ~IsEmptyList(queued_iframes)
  BY <1>1 DEF ExplainInv, FoundInv, Checked, IsEmptyList
<1>3. PICK room, length : /\ room = reads[dpc[d].req].length
                          /\ length = DataLength(PeekFront(queued_iframes))
  OBVIOUS
<1>4. length \in Nat
  <2>1. PeekFront(queued_iframes) \in Frames(Bytes)
    BY <1>2, ListTypes DEF TypeInv, BufferTypes
  <2> QED
    BY <1>3, <2>1 DEF Frames, DataLength
<1>5. room \in Nat /\ room + StatusLength < WORD \div 2
  <2>1. room \in ReadLengths
    BY <1>1, <1>3 DEF ExplainInv, RoomInv
  <2> QED
    BY <2>1 DEF LengthsFitInt, RxAssumption
<1>6. MaxFrameLength(d) = AsInt(room - 0 + Cut - Stamp)
  BY <1>3 DEF MaxFrameLength, Cut, Stamp
<1>7. ~(MaxFrameLength(d) >= 0 /\ length <= MaxFrameLength(d))
  BY <1>1, <1>2, <1>3 DEF CanRemoveLte
<1>8. room + Cut < length + Stamp
  BY <1>4, <1>5, <1>6, <1>7, RefusedFacts
<1> QED
  BY <1>2, <1>3, <1>8 DEF BufferTooSmall, Cut, Stamp

\* Only the end of its own run fails a read for its buffer, or a run that takes
\* frames.
LEMMA SmallByEnd ==
    ASSUME RxAssumption, WordAssumption, TypeInv, PlacesInv, [Next]_vars, taken' = taken,
           NEW d \in ReadDpcs, dpc[d].pc = "read", FailsSmall(dpc[d].req)
    PROVE  FrameReadEnd(d) /\ dpc[d].out = 0
<1> DEFINE r == dpc[d].req
<1>1. /\ reads \in Seq(ReadStates) /\ Len(reads) \in Nat /\ r \in 1..Len(reads) /\ ReadTypes
      /\ dpc \in [ReadDpcs -> DpcStates(Len(reads))]
  BY DEF TypeInv, ReadTypes
<1>2. reads[r].status # "too_small" /\ reads'[r].status = "too_small"
  BY DEF FailsSmall
<1>3. ~SyncComEvtIoRead
  <2>1. SyncComEvtIoRead => reads'[r] = reads[r]
    BY <1>1, IssueFacts
  <2> QED
    BY <1>2, <2>1
<1>4. ASSUME NEW e \in ReadDpcs, ReadStart(e) \/ ReadCheck(e) \/ ReadRetrieve(e) PROVE FALSE
  <2>1. reads'[r].status = reads[r].status \/ reads'[r].status \in {"held", "failed"}
    BY <1>1, <1>4, AdvanceFacts
  <2> QED
    BY <1>2, <2>1
<1>5. ~PurgeCancel
  <2>1. PurgeCancel => reads'[r] = Cancelled(reads[r])
    <3>1. DOMAIN reads = 1..Len(reads)
      <4> HIDE DEF ReadStates
      <4> QED
        BY <1>1
    <3> QED
      BY <1>1, <3>1 DEF PurgeCancel
  <2>2. Cancelled(reads[r]).status \in {reads[r].status, "cancelled"}
    <3>1. reads[r] \in ReadStates
      BY <1>1
    <3> QED
      BY <3>1 DEF Cancelled, ReadStates
  <2> QED
    BY <1>2, <2>1, <2>2
<1>6. ASSUME NEW e \in ReadDpcs, StreamRead(e) \/ FrameReadTake(e) PROVE FALSE
  <2>1. PICK entry : taken' = Append(taken, entry)
    BY <1>6 DEF StreamRead, FrameReadTake
  <2>2. taken \in Seq([req : 1..Len(reads), data : Seq(Bytes)])
    BY DEF TypeInv, ReadTypes
  <2>3. Len(taken') = Len(taken) + 1 /\ Len(taken) \in Nat
    BY <2>1, <2>2
  <2> QED
    BY <2>3
<1>7. ASSUME NEW e \in ReadDpcs, FrameReadEnd(e)
      PROVE  e = d /\ dpc[d].out = 0
  <2>1. /\ dpc[e].pc = "read" /\ dpc[e].out \in Nat
        /\ CompleteRead(e, IF dpc[e].out = 0 THEN "too_small" ELSE "success", dpc[e].out)
    BY <1>1, <1>7 DEF FrameReadEnd, DpcStates
  <2>2. PICK status \in Statuses : /\ CompleteRead(e, status, dpc[e].out)
                                   /\ status = "too_small" => dpc[e].out = 0
    BY <2>1 DEF Statuses
  <2>3. /\ dpc[e].req # r => reads'[r] = reads[r]
        /\ reads'[dpc[e].req].status = status
    <3>1. /\ \A q \in 1..Len(reads) : q # dpc[e].req => reads'[q] = reads[q]
          /\ reads'[dpc[e].req] = [length |-> reads[dpc[e].req].length, status |-> status,
                                   out |-> dpc[e].out]
      BY <1>1, <2>1, <2>2, CompleteReadFacts
    <3> QED
      BY <1>1, <3>1
  <2>4. dpc[e].req = r
    BY <1>2, <2>3
  <2>5. e = d
    BY <2>1, <2>4 DEF PlacesInv, HeldOnce
  <2> QED
    BY <1>2, <2>2, <2>3, <2>5
<1>8. ~UNCHANGED <<reads, dpc>>
  BY <1>2
<1> QED
  BY <1>3, <1>4, <1>5, <1>6, <1>7, <1>8, OthersKeepReads DEF SynccomProcessRead

LEMMA ExplainStep ==
    ASSUME RxAssumption, WidthAssumption, WordAssumption, LengthsFitInt, TypeInv, PlacesInv,
           ExplainInv, [Next]_vars, NEW d \in ReadDpcs, dpc[d].pc = "read", FailsSmall(dpc[d].req)
    PROVE  BufferTooSmall(dpc[d].req) \/ d \in outdated \/ taken' # taken
<1> SUFFICES ASSUME d \notin outdated, taken' = taken
             PROVE  BufferTooSmall(dpc[d].req)
  OBVIOUS
<1> QED
  BY SmallByEnd, EndExplained

\* A read is answered ERROR_INSUFFICIENT_BUFFER for a buffer too small for the
\* first queued frame, or because frames left queued_iframes between the check
\* of its run of SynccomProcessRead and the end of it, however many runs
\* overlap, whatever PURGE_RX clears, the cap drops and fails (isr.c, port.c).
THEOREM TooSmallHasReason ==
    ASSUME LengthsFitInt
    PROVE  Spec => TooSmallExplained
<1>1. Init => ExplainInv
  BY ExplainInit
<1>2. TypeInv /\ PlacesInv /\ ExplainInv /\ [Next]_vars => ExplainInv'
  <2> SUFFICES ASSUME TypeInv, PlacesInv, ExplainInv, [Next]_vars PROVE ExplainInv'
    OBVIOUS
  <2>1. RoomInv /\ FoundInv
    BY DEF ExplainInv
  <2>2. RoomInv'
    BY <2>1, RxAssumption, WordAssumption, RoomStep
  <2>3. FoundInv'
    BY <2>1, RxAssumption, FoundStep
  <2> QED
    BY <2>2, <2>3 DEF ExplainInv
<1>3. ASSUME TypeInv, PlacesInv, ExplainInv, [Next]_vars
      PROVE  [\A d \in ReadDpcs : dpc[d].pc = "read" /\ FailsSmall(dpc[d].req) =>
                  BufferTooSmall(dpc[d].req) \/ d \in outdated \/ taken' # taken]_vars
  BY <1>3, RxAssumption, WidthAssumption, WordAssumption, ExplainStep
<1> QED
  BY <1>1, <1>2, <1>3, PlacesInvariant, PTL DEF Spec, TooSmallExplained

=============================================================================
