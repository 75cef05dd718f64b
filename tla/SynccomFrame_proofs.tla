------------------------- MODULE SynccomFrame_proofs -------------------------
(* Facts about the operators of SynccomFrame that the proofs about the two   *)
(* paths cite.  Their statements hold for frames over any set of bytes.      *)
EXTENDS SynccomFrame, TLAPS

\* What the buffer of a frame guarantees (update_buffer_size): it covers the
\* data and ends at a word.
Fits(frame) == DataLength(frame) <= frame.buffer_size /\ frame.buffer_size % 4 = 0

\* The estimate of a list is the sum of the lengths of its frames, said without
\* recursion: p[i] is the sum of the first i lengths.
Sums(p, flist) ==
    /\ p \in [0..Len(flist.frames) -> Nat]
    /\ p[0] = 0
    /\ p[Len(flist.frames)] = flist.estimated_memory_usage
    /\ \A i \in 1..Len(flist.frames) : p[i] = p[i - 1] + DataLength(flist.frames[i])
    /\ \A i, j \in 0..Len(flist.frames) : i <= j => p[i] <= p[j]

\* p solves the recursion of TotalLength, started at c.
Solves(p, frames, c) ==
    p = [i \in 0..Len(frames) |-> IF i = 0 THEN c ELSE p[i - 1] + DataLength(frames[i])]

\* Every solution of the recursion ends the estimate further than it starts.
Unique(flist) ==
    \A p : \A c \in Int :
        Solves(p, flist.frames, c)
            => p[Len(flist.frames)] = flist.estimated_memory_usage + c

\* Both: the sums exist, and there is no other value TotalLength could have.
Counted(flist) == (\E p : Sums(p, flist)) /\ Unique(flist)

\* Reduction modulo WORD leaves what fits alone, never adds to a number that is
\* not negative, and never takes from one that is too small to wrap upwards.
LEMMA ModuloSmall == ASSUME NEW x \in Nat, x < WORD PROVE x % WORD = x
BY WordAssumption

LEMMA ModuloBelow == ASSUME NEW x \in Nat PROVE x % WORD \in Nat /\ x % WORD <= x
BY WordAssumption

LEMMA ModuloAbove == ASSUME NEW x \in Int, x < WORD PROVE x % WORD \in Nat /\ x <= x % WORD
<1>1. CASE x \in Nat
  BY <1>1, ModuloSmall
<1>2. CASE x < 0
  BY <1>2, WordAssumption
<1> QED
  BY <1>1, <1>2

\* Rounding up to words: at most 3 bytes more, and never past a whole number
\* of words that covers n (prepare_frame_for_fifo and update_buffer_size).
LEMMA Align4Facts ==
    ASSUME NEW n \in Nat
    PROVE  /\ Align4(n) \in Nat /\ n <= Align4(n) /\ Align4(n) % 4 = 0
           /\ \A m \in Nat : n <= m /\ m % 4 = 0 => Align4(n) <= m
<1>1. n % 4 \in 0..3
  OBVIOUS
<1>2. CASE n % 4 = 0
  BY <1>2 DEF Align4
<1>3. CASE n % 4 # 0
  <2>1. Align4(n) = n + (4 - (n % 4))
    BY <1>3 DEF Align4
  <2>2. Align4(n) \in Nat /\ n <= Align4(n) /\ Align4(n) % 4 = 0
    BY <2>1, <1>1
  <2>3. ASSUME NEW m \in Nat, n <= m, m % 4 = 0
        PROVE  Align4(n) <= m
    BY <2>1, <2>3, <1>1, <1>3
  <2> QED
    BY <2>2, <2>3
<1> QED
  BY <1>2, <1>3

\* remove_data leaves a frame of at most the length it had, in the same buffer.
LEMMA RemoveDataFacts ==
    ASSUME NEW Bytes, NEW frame \in Frames(Bytes), NEW length \in Nat
    PROVE  /\ RemoveData(frame, length) \in Frames(Bytes)
           /\ DataLength(RemoveData(frame, length)) <= DataLength(frame)
           /\ Fits(frame) => Fits(RemoveData(frame, length))
<1> DEFINE kept == SubSeq(frame.data, Least(length, Len(frame.data)) + 1, Len(frame.data))
<1>1. frame.data \in Seq(Bytes) /\ frame.buffer_size \in Nat
  BY DEF Frames
<1>2. Least(length, Len(frame.data)) \in 0..Len(frame.data)
  BY <1>1 DEF Least
<1>3. kept \in Seq(Bytes) /\ Len(kept) <= Len(frame.data)
  BY <1>1, <1>2
<1>4. RemoveData(frame, length) = [frame EXCEPT !.data = kept]
  BY DEF RemoveData
<1>5. /\ RemoveData(frame, length) \in Frames(Bytes)
      /\ RemoveData(frame, length).data = kept
      /\ RemoveData(frame, length).buffer_size = frame.buffer_size
  BY <1>3, <1>4 DEF Frames
<1> QED
  BY <1>1, <1>3, <1>5 DEF DataLength, Fits

\* add_data to a new frame: the frame holds the bytes and its buffer fits.
LEMMA FirstDataFacts ==
    ASSUME NEW Bytes, NEW bytes \in Seq(Bytes), NEW size \in Nat
    PROVE  LET frame == [AddData(NewFrame, bytes) EXCEPT !.frame_size = size]
           IN  /\ frame \in Frames(Bytes)
               /\ DataLength(frame) = Len(bytes)
               /\ Fits(frame)
<1> DEFINE buffer == IF bytes = <<>> THEN 0 ELSE Align4(Len(bytes))
           frame == [data |-> bytes, buffer_size |-> buffer, frame_size |-> size, lost_bytes |-> 0]
<1>1. [AddData(NewFrame, bytes) EXCEPT !.frame_size = size] = frame
  <2>1. CASE bytes = <<>>
    <3>1. AddData(NewFrame, bytes) = NewFrame
      BY <2>1 DEF AddData
    <3> QED
      BY <2>1, <3>1 DEF NewFrame
  <2>2. CASE bytes # <<>>
    <3> DEFINE Rec(data, buf, fs) ==
                 [data |-> data, buffer_size |-> buf, frame_size |-> fs, lost_bytes |-> 0]
    <3>1. \A d, e, b, c : [Rec(d, b, 0) EXCEPT !.data = e, !.buffer_size = c] = Rec(e, c, 0)
      <4> TAKE d, e, b, c
      <4>1. [Rec(d, b, 0) EXCEPT !.data = e] = Rec(e, b, 0)
        OBVIOUS
      <4>2. [Rec(e, b, 0) EXCEPT !.buffer_size = c] = Rec(e, c, 0)
        OBVIOUS
      <4> HIDE DEF Rec
      <4>3. [Rec(d, b, 0) EXCEPT !.data = e, !.buffer_size = c]
              = [[Rec(d, b, 0) EXCEPT !.data = e] EXCEPT !.buffer_size = c]
        OBVIOUS
      <4> QED
        BY <4>1, <4>2, <4>3
    <3>2. \A d, e, b, c : /\ [Rec(d, b, 0) EXCEPT !.data = e] = Rec(e, b, 0)
                          /\ [Rec(d, b, 0) EXCEPT !.frame_size = c] = Rec(d, b, c)
                          /\ Rec(d, b, 0).data = d
                          /\ Rec(d, b, 0).buffer_size = b
      OBVIOUS
    <3>3. PICK none : none = <<>> /\ none \o bytes = bytes
      <4>1. <<>> \o bytes = bytes
        OBVIOUS
      <4> QED
        BY <4>1
    <3>4. NewFrame = Rec(none, 0, 0)
      BY <3>3 DEF NewFrame
    <3> HIDE DEF Rec
    <3>5. Len(bytes) \in Nat /\ Len(bytes) # 0
      BY <2>2
    <3>6. NewFrame.data = none /\ NewFrame.buffer_size = 0 /\ DataLength(NewFrame) = 0
      <4>1. Len(<<>>) = 0
        OBVIOUS
      <4> QED
        BY <4>1, <3>2, <3>3, <3>4 DEF DataLength
    <3>7. SubSeq(NewFrame.data, 1, Least(Len(NewFrame.data), Len(bytes))) = none
      <4>1. Len(NewFrame.data) = 0
        BY <3>6 DEF DataLength
      <4>2. Least(0, Len(bytes)) = 0
        BY <3>5 DEF Least
      <4>3. SubSeq(<<>>, 1, 0) = <<>>
        OBVIOUS
      <4> QED
        BY <4>1, <4>2, <4>3, <3>3, <3>6
    <3>8. UpdateBufferSize(NewFrame, Len(bytes)) = Rec(none, Align4(Len(bytes)), 0)
      <4>1. UpdateBufferSize(NewFrame, Len(bytes))
              = [NewFrame EXCEPT !.data = SubSeq(NewFrame.data, 1, Least(Len(NewFrame.data), Len(bytes))),
                                 !.buffer_size = Align4(Len(bytes))]
        BY <3>5 DEF UpdateBufferSize
      <4>2. UpdateBufferSize(NewFrame, Len(bytes))
              = [Rec(none, 0, 0) EXCEPT !.data = none, !.buffer_size = Align4(Len(bytes))]
        BY <4>1, <3>4, <3>7
      <4>3. [Rec(none, 0, 0) EXCEPT !.data = none, !.buffer_size = Align4(Len(bytes))]
              = Rec(none, Align4(Len(bytes)), 0)
        BY <3>1, ZenonT(30)
      <4> QED
        BY <4>2, <4>3
    <3>9. AddData(NewFrame, bytes)
            = [UpdateBufferSize(NewFrame, Len(bytes)) EXCEPT
                 !.data = UpdateBufferSize(NewFrame, Len(bytes)).data \o bytes]
      <4>1. 0 + Len(bytes) > 0 /\ 0 + Len(bytes) = Len(bytes)
        BY <3>5
      <4> HIDE DEF NewFrame
      <4> QED
        BY <2>2, <3>6, <4>1 DEF AddData
    <3>10. AddData(NewFrame, bytes) = Rec(bytes, Align4(Len(bytes)), 0)
      BY <3>2, <3>3, <3>8, <3>9
    <3>11. frame = Rec(bytes, Align4(Len(bytes)), size)
      BY <2>2 DEF Rec
    <3> QED
      BY <3>2, <3>10, <3>11
  <2> QED
    BY <2>1, <2>2
<1>2. Len(bytes) \in Nat /\ (bytes = <<>> => Len(bytes) = 0)
  OBVIOUS
<1>3. buffer \in Nat /\ Len(bytes) <= buffer /\ buffer % 4 = 0
  BY <1>2, Align4Facts
<1>4. frame \in Frames(Bytes)
  BY <1>3 DEF Frames
<1>5. DataLength(frame) = Len(bytes) /\ Fits(frame)
  BY <1>3 DEF DataLength, Fits
<1> QED
  BY <1>1, <1>4, <1>5

\* add_data appends: a buffer that grows keeps what it holds.
LEMMA AddDataFacts ==
    ASSUME NEW Bytes, NEW frame \in Frames(Bytes), NEW bytes \in Seq(Bytes)
    PROVE  /\ AddData(frame, bytes) \in Frames(Bytes)
           /\ AddData(frame, bytes).data = frame.data \o bytes
           /\ AddData(frame, bytes).frame_size = frame.frame_size
           /\ AddData(frame, bytes).lost_bytes = frame.lost_bytes
<1> DEFINE total == DataLength(frame) + Len(bytes)
<1>1. /\ frame.data \in Seq(Bytes) /\ frame.buffer_size \in Nat
      /\ Len(frame.data) \in Nat /\ Len(bytes) \in Nat
  BY DEF Frames
<1>2. CASE bytes = <<>>
  <2>1. AddData(frame, bytes) = frame
    BY <1>2 DEF AddData
  <2>2. frame.data \o <<>> = frame.data
    BY <1>1
  <2> QED
    BY <1>2, <2>1, <2>2
<1>3. CASE bytes # <<>>
  <2> DEFINE grown == [frame EXCEPT !.data = SubSeq(frame.data, 1, Least(Len(frame.data), total)),
                                    !.buffer_size = Align4(total)]
             room  == IF total > frame.buffer_size THEN UpdateBufferSize(frame, total) ELSE frame
  <2>1. total \in Nat /\ total # 0 /\ Align4(total) \in Nat
    <3>1. Len(bytes) # 0
      BY <1>3
    <3>2. total \in Nat /\ total # 0
      BY <1>1, <3>1 DEF DataLength
    <3> QED
      BY <3>2, Align4Facts
  <2>2. SubSeq(frame.data, 1, Least(Len(frame.data), total)) = frame.data
    <3>1. Least(Len(frame.data), total) = Len(frame.data)
      BY <1>1 DEF Least, DataLength
    <3>2. SubSeq(frame.data, 1, Len(frame.data)) = frame.data
      BY <1>1
    <3> QED
      BY <3>1, <3>2
  <2>3. UpdateBufferSize(frame, total) = [frame EXCEPT !.data = frame.data, !.buffer_size = Align4(total)]
    BY <2>1, <2>2 DEF UpdateBufferSize
  <2>4. [frame EXCEPT !.data = frame.data, !.buffer_size = Align4(total)]
          = [frame EXCEPT !.buffer_size = Align4(total)]
    BY DEF Frames
  <2>5. /\ room \in Frames(Bytes) /\ room.data = frame.data
        /\ room.frame_size = frame.frame_size /\ room.lost_bytes = frame.lost_bytes
    BY <2>1, <2>3, <2>4 DEF Frames
  <2>6. AddData(frame, bytes) = [room EXCEPT !.data = room.data \o bytes]
    BY <1>3 DEF AddData
  <2>7. frame.data \o bytes \in Seq(Bytes)
    BY <1>1
  <2> HIDE DEF room
  <2> QED
    BY <2>5, <2>6, <2>7 DEF Frames
<1> QED
  BY <1>2, <1>3

\* remove_data splits the data: what it returns, then what it leaves.
LEMMA RemovedFacts ==
    ASSUME NEW Bytes, NEW frame \in Frames(Bytes), NEW length \in Nat
    PROVE  LET n == Least(length, DataLength(frame))
           IN  /\ n \in 0..DataLength(frame)
               /\ Removed(frame, length) = SubSeq(frame.data, 1, n)
               /\ Removed(frame, length) \in Seq(Bytes)
               /\ RemoveData(frame, length) \in Frames(Bytes)
               /\ RemoveData(frame, length).data = SubSeq(frame.data, n + 1, DataLength(frame))
               /\ RemoveData(frame, length).frame_size = frame.frame_size
               /\ RemoveData(frame, length).lost_bytes = frame.lost_bytes
<1> DEFINE n == Least(length, DataLength(frame))
<1>1. frame.data \in Seq(Bytes) /\ DataLength(frame) = Len(frame.data) /\ Len(frame.data) \in Nat
  BY DEF Frames, DataLength
<1>2. n \in 0..DataLength(frame)
  BY <1>1 DEF Least
<1>3. Removed(frame, length) = SubSeq(frame.data, 1, n)
  BY DEF Removed
<1>4. SubSeq(frame.data, 1, n) \in Seq(Bytes)
      /\ SubSeq(frame.data, n + 1, DataLength(frame)) \in Seq(Bytes)
  BY <1>1, <1>2
<1>5. RemoveData(frame, length) = [frame EXCEPT !.data = SubSeq(frame.data, n + 1, DataLength(frame))]
  BY <1>1 DEF RemoveData
<1> HIDE DEF n
<1>6. /\ RemoveData(frame, length) \in Frames(Bytes)
      /\ RemoveData(frame, length).data = SubSeq(frame.data, n + 1, DataLength(frame))
      /\ RemoveData(frame, length).frame_size = frame.frame_size
      /\ RemoveData(frame, length).lost_bytes = frame.lost_bytes
  BY <1>4, <1>5 DEF Frames
<1> QED
  BY <1>2, <1>3, <1>4, <1>6 DEF n

\* copy_data moves the front of the source to the end of the destination.
LEMMA CopyFacts ==
    ASSUME NEW Bytes, NEW destination \in Frames(Bytes), NEW source \in Frames(Bytes)
    PROVE  LET n == AmountToMove(destination, source)
           IN  /\ n \in 0..DataLength(source)
               /\ CopyTo(destination, source) \in Frames(Bytes)
               /\ CopyTo(destination, source).data
                     = destination.data \o SubSeq(source.data, 1, n)
               /\ CopyTo(destination, source).frame_size = destination.frame_size
               /\ CopyTo(destination, source).lost_bytes = destination.lost_bytes
               /\ CopyFrom(destination, source) \in Frames(Bytes)
               /\ CopyFrom(destination, source).data
                     = SubSeq(source.data, n + 1, DataLength(source))
               /\ CopyFrom(destination, source).frame_size = source.frame_size
               /\ CopyFrom(destination, source).lost_bytes = source.lost_bytes
<1> DEFINE n == AmountToMove(destination, source)
           room == (destination.frame_size
                      - (DataLength(destination) + destination.lost_bytes)) % WORD
<1>1. DataLength(source) \in Nat /\ DataLength(destination) \in Nat
      /\ destination.frame_size \in Nat /\ destination.lost_bytes \in Nat
  BY DEF Frames, DataLength
<1>2. room \in Nat
  BY <1>1, WordAssumption
<1>3. n = Least(DataLength(source), room)
  BY DEF AmountToMove
<1>4. n \in 0..DataLength(source) /\ Least(n, DataLength(source)) = n
  <2> HIDE DEF room, n
  <2> QED
    BY <1>1, <1>2, <1>3 DEF Least
<1>5. /\ Removed(source, n) = SubSeq(source.data, 1, n) /\ Removed(source, n) \in Seq(Bytes)
      /\ RemoveData(source, n) \in Frames(Bytes)
      /\ RemoveData(source, n).data = SubSeq(source.data, n + 1, DataLength(source))
      /\ RemoveData(source, n).frame_size = source.frame_size
      /\ RemoveData(source, n).lost_bytes = source.lost_bytes
  <2> HIDE DEF n
  <2>1. n \in Nat
    BY <1>1, <1>4
  <2> QED
    BY <1>4, <2>1, RemovedFacts
<1>6. CopyTo(destination, source) = AddData(destination, Removed(source, n))
      /\ CopyFrom(destination, source) = RemoveData(source, n)
  BY DEF CopyTo, CopyFrom
<1>7. /\ CopyTo(destination, source) \in Frames(Bytes)
      /\ CopyTo(destination, source).data = destination.data \o SubSeq(source.data, 1, n)
      /\ CopyTo(destination, source).frame_size = destination.frame_size
      /\ CopyTo(destination, source).lost_bytes = destination.lost_bytes
  <2> DEFINE moved == Removed(source, n)
  <2>1. moved \in Seq(Bytes) /\ moved = SubSeq(source.data, 1, n)
        /\ CopyTo(destination, source) = AddData(destination, moved)
    BY <1>5, <1>6
  <2> HIDE DEF n, moved
  <2>2. /\ AddData(destination, moved) \in Frames(Bytes)
        /\ AddData(destination, moved).data = destination.data \o moved
        /\ AddData(destination, moved).frame_size = destination.frame_size
        /\ AddData(destination, moved).lost_bytes = destination.lost_bytes
    BY <2>1, AddDataFacts
  <2> QED
    BY <2>1, <2>2
<1> HIDE DEF n
<1>8. n \in 0..DataLength(source)
  BY <1>4
<1> QED
  BY <1>5, <1>6, <1>7, <1>8 DEF n

\* A buffer of size zero holds nothing.
LEMMA ClearFacts ==
    ASSUME NEW Bytes, NEW frame \in Frames(Bytes)
    PROVE  ClearFrame(frame) \in Frames(Bytes) /\ ClearFrame(frame).data = <<>>
<1>1. ClearFrame(frame) = [frame EXCEPT !.data = <<>>, !.buffer_size = 0]
  BY DEF ClearFrame, UpdateBufferSize
<1>2. <<>> \in Seq(Bytes)
  OBVIOUS
<1>3. [frame EXCEPT !.data = <<>>, !.buffer_size = 0]
        = [[frame EXCEPT !.data = <<>>] EXCEPT !.buffer_size = 0]
  OBVIOUS
<1>4. [frame EXCEPT !.data = <<>>] \in Frames(Bytes) /\ [frame EXCEPT !.data = <<>>].data = <<>>
  BY <1>2 DEF Frames
<1> DEFINE empty == [frame EXCEPT !.data = <<>>]
<1>5. [empty EXCEPT !.buffer_size = 0] \in Frames(Bytes) /\ [empty EXCEPT !.buffer_size = 0].data = <<>>
  <2> HIDE DEF empty
  <2>1. empty \in Frames(Bytes) /\ empty.data = <<>>
    BY <1>4 DEF empty
  <2> QED
    BY <2>1 DEF Frames
<1> QED
  BY <1>1, <1>3, <1>5

\* The three list operations of flist.c keep every solution at the estimate.
LEMMA UniqueEmpty == Unique(EmptyList)
<1>1. Len(EmptyList.frames) = 0 /\ EmptyList.estimated_memory_usage = 0
  BY DEF EmptyList
<1>2. ASSUME NEW p, NEW c \in Int, Solves(p, EmptyList.frames, c) PROVE p[0] = c
  BY <1>1, <1>2 DEF Solves
<1> QED
  BY <1>1, <1>2 DEF Unique

LEMMA UniqueAdd ==
    ASSUME NEW Bytes, NEW flist \in Lists(Bytes), NEW frame \in Frames(Bytes), Unique(flist)
    PROVE  Unique(AddFrame(flist, frame))
<1> DEFINE n == Len(flist.frames)
           longer == AddFrame(flist, frame).frames
<1>1. n \in Nat /\ flist.frames \in Seq(Frames(Bytes))
  BY DEF Lists
<1>2. longer = Append(flist.frames, frame)
      /\ AddFrame(flist, frame).estimated_memory_usage
           = flist.estimated_memory_usage + DataLength(frame)
  BY DEF AddFrame
<1>3. Len(longer) = n + 1 /\ longer[n + 1] = frame /\ \A i \in 1..n : longer[i] = flist.frames[i]
  BY <1>1, <1>2
<1> HIDE DEF longer
<1>4. ASSUME NEW p, NEW c \in Int, Solves(p, longer, c)
      PROVE  p[n + 1] = flist.estimated_memory_usage + DataLength(frame) + c
  <2> DEFINE q == [i \in 0..n |-> p[i]]
  <2>1. \A i \in 0..n + 1 : p[i] = IF i = 0 THEN c ELSE p[i - 1] + DataLength(longer[i])
    BY <1>1, <1>3, <1>4 DEF Solves
  <2>2. \A i \in 0..n : q[i] = IF i = 0 THEN c ELSE q[i - 1] + DataLength(flist.frames[i])
    <3> SUFFICES ASSUME NEW i \in 0..n
                 PROVE  q[i] = IF i = 0 THEN c ELSE q[i - 1] + DataLength(flist.frames[i])
      OBVIOUS
    <3>1. i \in 0..n + 1 /\ (i # 0 => i - 1 \in 0..n /\ longer[i] = flist.frames[i])
      BY <1>1, <1>3
    <3>2. q[i] = p[i] /\ (i # 0 => q[i - 1] = p[i - 1])
      BY <3>1
    <3> QED
      BY <2>1, <3>1, <3>2
  <2>3. Solves(q, flist.frames, c)
    BY <2>2 DEF Solves
  <2>4. q[n] = flist.estimated_memory_usage + c /\ q[n] = p[n]
    BY <1>1, <2>3 DEF Unique
  <2>5. p[n + 1] = p[(n + 1) - 1] + DataLength(longer[n + 1])
    BY <1>1, <2>1
  <2>6. (n + 1) - 1 = n
    BY <1>1
  <2>7. flist.estimated_memory_usage \in Int /\ DataLength(frame) \in Nat
    BY DEF Lists, Frames, DataLength
  <2> QED
    BY <1>3, <2>4, <2>5, <2>6, <2>7
<1> QED
  BY <1>2, <1>3, <1>4 DEF Unique, longer

LEMMA UniqueRemove ==
    ASSUME NEW Bytes, NEW flist \in Lists(Bytes), Unique(flist), ~IsEmptyList(flist)
    PROVE  Unique(RemoveFrame(flist))
<1> DEFINE n == Len(flist.frames)
           shorter == RemoveFrame(flist).frames
           first == DataLength(PeekFront(flist))
<1>1. n \in Nat /\ n >= 1 /\ flist.frames \in Seq(Frames(Bytes)) /\ flist.frames # <<>>
      /\ flist.estimated_memory_usage \in Int
  BY DEF Lists, IsEmptyList
<1>2. shorter = Tail(flist.frames)
      /\ RemoveFrame(flist).estimated_memory_usage = flist.estimated_memory_usage - first
  BY DEF RemoveFrame
<1>3. Len(shorter) = n - 1 /\ PeekFront(flist) = flist.frames[1]
      /\ \A i \in 1..n - 1 : shorter[i] = flist.frames[i + 1]
  BY <1>1, <1>2 DEF PeekFront
<1>4. first \in Nat
  <2>1. PeekFront(flist) \in Frames(Bytes)
    BY <1>1, <1>3
  <2> QED
    BY <2>1 DEF Frames, DataLength
<1> HIDE DEF shorter, first
<1>5. ASSUME NEW p, NEW c \in Int, Solves(p, shorter, c)
      PROVE  p[n - 1] = flist.estimated_memory_usage - first + c
  <2> DEFINE q == [i \in 0..n |-> IF i = 0 THEN c - first ELSE p[i - 1]]
  <2>1. \A i \in 0..n - 1 : p[i] = IF i = 0 THEN c ELSE p[i - 1] + DataLength(shorter[i])
    BY <1>1, <1>3, <1>5 DEF Solves
  <2>2. p[0] = c
    BY <1>1, <2>1
  <2>3. \A i \in 0..n : q[i] = IF i = 0 THEN c - first
                                        ELSE q[i - 1] + DataLength(flist.frames[i])
    <3> TAKE i \in 0..n
    <3>0. CASE i = 0
      BY <1>1, <3>0
    <3>1. i # 0 => q[i] = p[i - 1]
      BY <1>1
    <3>2. CASE i = 1
      <4>1. q[i - 1] = c - first /\ DataLength(flist.frames[i]) = first
        BY <1>1, <1>3, <3>2 DEF first
      <4> QED
        BY <4>1, <3>1, <3>2, <2>2, <1>4
    <3>3. CASE i # 0 /\ i # 1
      <4>1. i - 1 \in 1..n - 1 /\ i - 1 \in 0..n - 1 /\ (i - 1) + 1 = i
        BY <1>1, <3>3
      <4>2. p[i - 1] = p[(i - 1) - 1] + DataLength(shorter[i - 1])
        BY <2>1, <4>1
      <4>3. q[i - 1] = p[(i - 1) - 1] /\ shorter[i - 1] = flist.frames[i]
        BY <4>1, <1>1, <1>3
      <4> QED
        BY <3>1, <4>2, <4>3
    <3> QED
      BY <3>0, <3>2, <3>3
  <2>4. Solves(q, flist.frames, c - first)
    BY <2>3 DEF Solves
  <2>5. q[n] = flist.estimated_memory_usage + (c - first)
    <3>1. c - first \in Int
      BY <1>4
    <3> HIDE DEF q
    <3> QED
      BY <2>4, <3>1 DEF Unique
  <2>6. q[n] = p[n - 1]
    BY <1>1
  <2> QED
    BY <2>5, <2>6, <1>1, <1>4
<1>6. ASSUME NEW p, NEW c \in Int, Solves(p, shorter, c)
      PROVE  p[Len(shorter)] = RemoveFrame(flist).estimated_memory_usage + c
  BY <1>2, <1>3, <1>5, <1>6
<1> QED
  BY <1>6 DEF Unique, shorter

\* A list that is counted has the estimate it should have.
LEMMA EstimateIsTotal ==
    ASSUME NEW Bytes, NEW flist \in Lists(Bytes), Counted(flist)
    PROVE  flist.estimated_memory_usage = TotalLength(flist.frames)
<1>1. PICK p : Sums(p, flist)
  BY DEF Counted
<1>2. Solves(p, flist.frames, 0)
  <2>1. /\ p \in [0..Len(flist.frames) -> Nat] /\ p[0] = 0
        /\ \A i \in 1..Len(flist.frames) : p[i] = p[i - 1] + DataLength(flist.frames[i])
    BY <1>1 DEF Sums
  <2>2. \A i \in 0..Len(flist.frames) :
            p[i] = IF i = 0 THEN 0 ELSE p[i - 1] + DataLength(flist.frames[i])
    <3>1. Len(flist.frames) \in Nat
      BY DEF Lists
    <3> QED
      BY <2>1, <3>1
  <2> QED
    BY <2>1, <2>2 DEF Solves
<1> DEFINE chosen == CHOOSE s : Solves(s, flist.frames, 0)
<1>3. Solves(chosen, flist.frames, 0)
  BY <1>2
<1>4. TotalLength(flist.frames) = chosen[Len(flist.frames)]
  BY DEF TotalLength, Solves
<1>5. chosen[Len(flist.frames)] = flist.estimated_memory_usage + 0
  <2> HIDE DEF chosen
  <2> QED
    BY <1>3 DEF Counted, Unique
<1>6. flist.estimated_memory_usage \in Int
  BY DEF Lists
<1> QED
  BY <1>4, <1>5, <1>6

\* The three list operations of flist.c keep the estimate the sum.
LEMMA CountedEmpty == Counted(EmptyList)
<1> DEFINE p == [i \in 0..0 |-> 0]
<1>1. EmptyList.frames = <<>> /\ EmptyList.estimated_memory_usage = 0 /\ Len(<<>>) = 0
  BY DEF EmptyList
<1>2. Sums(p, EmptyList)
  BY <1>1 DEF Sums
<1> QED
  BY <1>2, UniqueEmpty DEF Counted

LEMMA CountedFacts ==
    ASSUME NEW Bytes, NEW flist \in Lists(Bytes), Counted(flist)
    PROVE  flist.estimated_memory_usage \in Nat
<1>1. PICK p : Sums(p, flist)
  BY DEF Counted
<1>2. Len(flist.frames) \in Nat
  BY DEF Lists
<1> QED
  BY <1>1, <1>2 DEF Sums

LEMMA AddFrameFacts ==
    ASSUME NEW Bytes, NEW flist \in Lists(Bytes), NEW frame \in Frames(Bytes), Counted(flist)
    PROVE  /\ AddFrame(flist, frame) \in Lists(Bytes)
           /\ AddFrame(flist, frame).estimated_memory_usage
                = flist.estimated_memory_usage + DataLength(frame)
           /\ Counted(AddFrame(flist, frame))
<1>1. PICK p : Sums(p, flist)
  BY DEF Counted
<1> DEFINE n == Len(flist.frames)
           longer == AddFrame(flist, frame)
           total == flist.estimated_memory_usage + DataLength(frame)
           q == [i \in 0..n + 1 |-> IF i = n + 1 THEN total ELSE p[i]]
<1>2. n \in Nat /\ DataLength(frame) \in Nat /\ flist.frames \in Seq(Frames(Bytes))
      /\ flist.estimated_memory_usage \in Int
  BY DEF Lists, Frames, DataLength
<1>3. longer.frames = Append(flist.frames, frame) /\ longer.estimated_memory_usage = total
  BY DEF AddFrame
<1>4. longer \in Lists(Bytes)
  BY <1>2 DEF AddFrame, Lists
<1>5. Len(longer.frames) = n + 1
  BY <1>2, <1>3
<1>6. \A i \in 1..n : longer.frames[i] = flist.frames[i]
  BY <1>2, <1>3
<1>7. longer.frames[n + 1] = frame
  BY <1>2, <1>3
<1>8. p[n] = flist.estimated_memory_usage /\ p \in [0..n -> Nat] /\ p[0] = 0
  BY <1>1 DEF Sums
<1>9. total \in Nat
  BY <1>2, <1>8
<1>10. q \in [0..n + 1 -> Nat] /\ q[0] = 0 /\ q[n + 1] = total
  BY <1>2, <1>8, <1>9
<1>11. \A i \in 1..n + 1 : q[i] = q[i - 1] + DataLength(longer.frames[i])
  <2> TAKE i \in 1..n + 1
  <2>1. CASE i = n + 1
    <3>1. q[i] = total /\ q[i - 1] = p[n]
      BY <1>2, <2>1
    <3> QED
      BY <3>1, <2>1, <1>7, <1>8
  <2>2. CASE i # n + 1
    <3>1. i \in 1..n /\ i - 1 \in 0..n /\ i - 1 # n + 1
      BY <1>2, <2>2
    <3>2. q[i] = p[i] /\ q[i - 1] = p[i - 1]
      BY <1>2, <2>2, <3>1
    <3>3. p[i] = p[i - 1] + DataLength(flist.frames[i])
      BY <1>1, <3>1 DEF Sums
    <3> QED
      BY <3>1, <3>2, <3>3, <1>6
  <2> QED
    BY <2>1, <2>2
<1>12. \A i, j \in 0..n + 1 : i <= j => q[i] <= q[j]
  <2>1. \A i, j \in 0..n : i <= j => p[i] <= p[j]
    BY <1>1 DEF Sums
  <2>2. \A i \in 0..n : p[i] <= total
    BY <2>1, <1>2, <1>8, SMTT(30)
  <2> QED
    BY <2>1, <2>2, <1>2, <1>9, SMTT(30)
<1>13. Sums(q, longer)
  <2> HIDE DEF q, longer
  <2> QED
    BY <1>3, <1>5, <1>10, <1>11, <1>12 DEF Sums
<1>14. Unique(AddFrame(flist, frame))
  BY UniqueAdd DEF Counted
<1> QED
  BY <1>3, <1>4, <1>13, <1>14 DEF Counted

LEMMA RemoveFrameFacts ==
    ASSUME NEW Bytes, NEW flist \in Lists(Bytes), Counted(flist), ~IsEmptyList(flist)
    PROVE  /\ RemoveFrame(flist) \in Lists(Bytes)
           /\ PeekFront(flist) \in Frames(Bytes)
           /\ RemoveFrame(flist).estimated_memory_usage + DataLength(PeekFront(flist))
                = flist.estimated_memory_usage
           /\ Counted(RemoveFrame(flist))
<1>1. PICK p : Sums(p, flist)
  BY DEF Counted
<1> DEFINE n == Len(flist.frames)
           first == Head(flist.frames)
           shorter == RemoveFrame(flist)
           total == flist.estimated_memory_usage - DataLength(first)
           q == [i \in 0..n - 1 |-> p[i + 1] - p[1]]
<1>2. flist.frames \in Seq(Frames(Bytes)) /\ flist.frames # <<>>
      /\ flist.estimated_memory_usage \in Int
  BY DEF Lists, IsEmptyList
<1>3. n \in Nat /\ n >= 1 /\ first \in Frames(Bytes) /\ first = flist.frames[1]
  BY <1>2
<1>4. DataLength(first) \in Nat
  BY <1>3 DEF Frames, DataLength
<1>5. shorter.frames = Tail(flist.frames) /\ shorter.estimated_memory_usage = total
  BY DEF RemoveFrame, PeekFront
<1>6. shorter \in Lists(Bytes)
  BY <1>2, <1>4 DEF RemoveFrame, Lists, PeekFront
<1>7. Len(shorter.frames) = n - 1
  BY <1>2, <1>3, <1>5
<1>8. \A i \in 1..n - 1 : shorter.frames[i] = flist.frames[i + 1]
  BY <1>2, <1>3, <1>5
<1>9. /\ p \in [0..n -> Nat] /\ p[0] = 0 /\ p[n] = flist.estimated_memory_usage
      /\ \A i \in 1..n : p[i] = p[i - 1] + DataLength(flist.frames[i])
      /\ \A i, j \in 0..n : i <= j => p[i] <= p[j]
  BY <1>1 DEF Sums
<1>10. p[1] = DataLength(first)
  <2>1. p[1] = p[0] + DataLength(flist.frames[1])
    BY <1>3, <1>9
  <2> QED
    BY <2>1, <1>3, <1>4, <1>9
<1>11. \A i \in 0..n - 1 : p[i + 1] \in Nat /\ p[1] \in Nat /\ p[1] <= p[i + 1]
  <2> TAKE i \in 0..n - 1
  <2>1. i + 1 \in 0..n /\ 1 \in 0..n /\ 1 <= i + 1
    BY <1>3
  <2> QED
    BY <2>1, <1>9
<1>12. q \in [0..n - 1 -> Nat] /\ q[0] = 0 /\ q[n - 1] = total
  BY <1>3, <1>9, <1>10, <1>11
<1>13. \A i \in 1..n - 1 : q[i] = q[i - 1] + DataLength(shorter.frames[i])
  <2> TAKE i \in 1..n - 1
  <2>1. q[i] = p[i + 1] - p[1] /\ q[i - 1] = p[i] - p[1]
    BY <1>3
  <2>2. i \in 0..n - 1 /\ i - 1 \in 0..n - 1 /\ i + 1 \in 1..n
    BY <1>3
  <2>3. p[i + 1] = p[i] + DataLength(flist.frames[i + 1])
    BY <2>2, <1>9, (i + 1) - 1 = i
  <2>4. p[i] \in Nat /\ p[1] \in Nat /\ flist.frames[i + 1] \in Frames(Bytes)
    BY <2>2, <1>9, <1>2, <1>3, SMTT(30)
  <2>5. DataLength(flist.frames[i + 1]) \in Nat
    BY <2>4 DEF Frames, DataLength
  <2> HIDE DEF q
  <2> QED
    BY <2>1, <2>3, <2>4, <2>5, <1>8
<1>14. \A i, j \in 0..n - 1 : i <= j => q[i] <= q[j]
  <2> TAKE i, j \in 0..n - 1
  <2> HAVE i <= j
  <2>1. p[i + 1] <= p[j + 1]
    BY <1>3, <1>9
  <2> QED
    BY <2>1, <1>11
<1>15. Sums(q, shorter)
  <2> HIDE DEF q, shorter
  <2> QED
    BY <1>5, <1>7, <1>12, <1>13, <1>14 DEF Sums
<1>16. shorter.estimated_memory_usage + DataLength(first) = flist.estimated_memory_usage
  BY <1>2, <1>4, <1>5
<1>17. Unique(RemoveFrame(flist))
  BY UniqueRemove DEF Counted
<1> QED
  BY <1>3, <1>6, <1>15, <1>16, <1>17 DEF Counted, PeekFront

----------------------------------------------------------------------------
(* The order of bytes, of one sequence, of a sequence of pieces, and of the  *)
(* sets of bytes that stages of a path hold.                                 *)

\* a may come before b.
Ordered(a, b, padding) == a \in padding \/ b \in padding \/ Precedes(a, b)

Rising(s, padding) == \A i, j \in 1..Len(s) : i < j => Ordered(s[i], s[j], padding)

Items(s) == {s[i] : i \in 1..Len(s)}

AllItems(pieces) == UNION {Items(pieces[k]) : k \in 1..Len(pieces)}

Ahead(A, B, padding) == \A a \in A, b \in B : Ordered(a, b, padding)

\* A run of a rising sequence is one, and holds no new bytes.
LEMMA RunFacts ==
    ASSUME NEW S, NEW s \in Seq(S), NEW m \in Nat, NEW n \in Nat, m <= n, n <= Len(s)
    PROVE  /\ SubSeq(s, m + 1, n) \in Seq(S)
           /\ Items(SubSeq(s, m + 1, n)) \subseteq Items(s)
           /\ \A padding : Rising(s, padding) => Rising(SubSeq(s, m + 1, n), padding)
<1> DEFINE t == SubSeq(s, m + 1, n)
<1>1. t \in Seq(S) /\ Len(t) = n - m /\ Len(s) \in Nat
  OBVIOUS
<1>2. \A i \in 1..n - m : t[i] = s[m + i] /\ m + i \in 1..Len(s)
  OBVIOUS
<1> HIDE DEF t
<1>3. \A i \in 1..Len(t) : t[i] = s[m + i] /\ m + i \in 1..Len(s)
  BY <1>1, <1>2
<1>4. Items(t) \subseteq Items(s)
  BY <1>3 DEF Items
<1>5. ASSUME NEW padding, Rising(s, padding), NEW i \in 1..Len(t), NEW j \in 1..Len(t), i < j
      PROVE  Ordered(t[i], t[j], padding)
  <2>1. m + i < m + j
    BY <1>5
  <2> QED
    BY <1>3, <1>5, <2>1 DEF Rising
<1> QED
  BY <1>1, <1>4, <1>5 DEF Rising, t

LEMMA PrefixFacts ==
    ASSUME NEW S, NEW s \in Seq(S), NEW n \in Nat, n <= Len(s)
    PROVE  /\ SubSeq(s, 1, n) \in Seq(S)
           /\ Items(SubSeq(s, 1, n)) \subseteq Items(s)
           /\ \A padding : Rising(s, padding) => Rising(SubSeq(s, 1, n), padding)
<1>1. 0 \in Nat /\ 0 <= n /\ 0 + 1 = 1
  OBVIOUS
<1>2. /\ SubSeq(s, 0 + 1, n) \in Seq(S)
      /\ Items(SubSeq(s, 0 + 1, n)) \subseteq Items(s)
      /\ \A padding : Rising(s, padding) => Rising(SubSeq(s, 0 + 1, n), padding)
  BY <1>1, RunFacts
<1> QED
  BY <1>1, <1>2

\* What is taken from the front of a rising sequence comes before what is left.
LEMMA SplitFacts ==
    ASSUME NEW S, NEW s \in Seq(S), NEW m \in Nat, NEW n \in Nat, m <= n, n <= Len(s),
           NEW padding, Rising(s, padding)
    PROVE  Ahead(Items(SubSeq(s, 1, m)), Items(SubSeq(s, n + 1, Len(s))), padding)
<1> DEFINE t == SubSeq(s, 1, m)
           u == SubSeq(s, n + 1, Len(s))
<1>1. Len(t) = m /\ Len(u) = Len(s) - n /\ Len(s) \in Nat
  OBVIOUS
<1>2. /\ \A i \in 1..m : t[i] = s[i] /\ i \in 1..Len(s)
      /\ \A i \in 1..Len(s) - n : u[i] = s[n + i] /\ n + i \in 1..Len(s)
  OBVIOUS
<1> HIDE DEF t, u
<1>3. ASSUME NEW i \in 1..Len(t), NEW j \in 1..Len(u) PROVE Ordered(t[i], u[j], padding)
  <2>1. i < n + j
    BY <1>1
  <2> QED
    BY <1>1, <1>2, <1>3, <2>1 DEF Rising
<1>4. Ahead(Items(t), Items(u), padding)
  BY <1>3 DEF Ahead, Items
<1> QED
  BY <1>4 DEF t, u

LEMMA JoinFacts ==
    ASSUME NEW S, NEW s \in Seq(S), NEW t \in Seq(S)
    PROVE  /\ Items(s \o t) = Items(s) \cup Items(t)
           /\ \A padding : Rising(s, padding) /\ Rising(t, padding)
                              /\ Ahead(Items(s), Items(t), padding) => Rising(s \o t, padding)
<1> DEFINE u == s \o t
           m == Len(s)
           n == Len(t)
<1>1. m \in Nat /\ n \in Nat /\ Len(u) = m + n
  OBVIOUS
<1>2. /\ \A i \in 1..m : u[i] = s[i]
      /\ \A i \in 1..n : u[m + i] = t[i]
  OBVIOUS
<1> HIDE DEF u
<1>3. \A i \in 1..m + n : i \in 1..m \/ (i - m \in 1..n /\ m + (i - m) = i)
  BY <1>1
<1>4. Items(u) = Items(s) \cup Items(t)
  <2>1. \A i \in 1..m : i \in 1..Len(u)
    BY <1>1
  <2>2. \A i \in 1..n : m + i \in 1..Len(u)
    BY <1>1
  <2>3. Items(s) \subseteq Items(u)
    BY <1>2, <2>1 DEF Items
  <2>4. Items(t) \subseteq Items(u)
    BY <1>2, <2>2 DEF Items
  <2>5. Items(u) \subseteq Items(s) \cup Items(t)
    <3> SUFFICES ASSUME NEW i \in 1..m + n PROVE u[i] \in Items(s) \cup Items(t)
      BY <1>1 DEF Items
    <3>1. CASE i \in 1..m
      BY <1>2, <3>1 DEF Items
    <3>2. CASE i - m \in 1..n /\ m + (i - m) = i
      <4>1. u[i] = t[i - m]
        BY <1>2, <3>2
      <4> QED
        BY <3>2, <4>1 DEF Items
    <3> QED
      BY <1>3, <3>1, <3>2
  <2> QED
    BY <2>3, <2>4, <2>5
<1>5. ASSUME NEW padding, Rising(s, padding), Rising(t, padding),
             Ahead(Items(s), Items(t), padding),
             NEW i \in 1..Len(u), NEW j \in 1..Len(u), i < j
      PROVE  Ordered(u[i], u[j], padding)
  <2>1. CASE j \in 1..m
    <3>1. i \in 1..m
      BY <1>1, <1>5, <2>1
    <3> QED
      BY <1>2, <1>5, <2>1, <3>1 DEF Rising
  <2>2. CASE i \in 1..m /\ j - m \in 1..n /\ m + (j - m) = j
    <3>1. u[i] = s[i] /\ u[j] = t[j - m]
      BY <1>2, <2>2
    <3>2. s[i] \in Items(s) /\ t[j - m] \in Items(t)
      BY <2>2 DEF Items
    <3> QED
      BY <1>5, <3>1, <3>2 DEF Ahead
  <2>3. CASE i - m \in 1..n /\ m + (i - m) = i /\ j - m \in 1..n /\ m + (j - m) = j
    <3>1. u[i] = t[i - m] /\ u[j] = t[j - m]
      BY <1>2, <2>3
    <3>2. i - m < j - m
      BY <1>1, <1>5
    <3> QED
      BY <1>5, <2>3, <3>1, <3>2 DEF Rising
  <2> QED
    BY <1>1, <1>3, <1>5, <2>1, <2>2, <2>3
<1> QED
  BY <1>4, <1>5 DEF Rising, u

LEMMA LastItems ==
    ASSUME NEW S, NEW s \in Seq(S), NEW e \in S
    PROVE  Items(Append(s, e)) = Items(s) \cup {e}
<1> DEFINE one == <<e>>
<1>1. one \in Seq(S) /\ Len(one) = 1 /\ one[1] = e /\ Append(s, e) = s \o one
  OBVIOUS
<1>2. \A i \in 1..1 : i = 1
  OBVIOUS
<1> HIDE DEF one
<1>3. Items(one) = {e}
  BY <1>1, <1>2 DEF Items
<1>4. Items(s \o one) = Items(s) \cup Items(one)
  BY <1>1, JoinFacts
<1> QED
  BY <1>1, <1>3, <1>4

LEMMA LastFacts ==
    ASSUME NEW S, NEW s \in Seq(S), NEW e \in S, NEW padding,
           Rising(s, padding), Ahead(Items(s), {e}, padding)
    PROVE  Rising(Append(s, e), padding)
<1> DEFINE one == <<e>>
<1>1. one \in Seq(S) /\ Len(one) = 1 /\ one[1] = e /\ Append(s, e) = s \o one
  OBVIOUS
<1>2. \A i, j \in 1..1 : i = 1 /\ ~(i < j)
  OBVIOUS
<1> HIDE DEF one
<1>3. Items(one) = {e} /\ Rising(one, padding)
  BY <1>1, <1>2 DEF Items, Rising
<1>4. Rising(s \o one, padding)
  BY <1>1, <1>3, JoinFacts
<1> QED
  BY <1>1, <1>4

\* The order of pieces, said with their lengths.
LEMMA PiecesOrder ==
    ASSUME NEW S, NEW pieces \in Seq(Seq(S)), NEW padding
    PROVE  InOrder(pieces, padding)
             <=> /\ \A k \in 1..Len(pieces) : Rising(pieces[k], padding)
                 /\ \A k, l \in 1..Len(pieces) :
                       k < l => Ahead(Items(pieces[k]), Items(pieces[l]), padding)
<1> DEFINE N == Len(pieces)
           T == Seq(S)
<1>1. DOMAIN pieces = 1..N /\ N \in Nat /\ \A k \in 1..N : pieces[k] \in T
  <2>1. pieces \in Seq(T)
    OBVIOUS
  <2> HIDE DEF T
  <2> QED
    BY <2>1
<1>2. \A k \in 1..N : DOMAIN pieces[k] = 1..Len(pieces[k]) /\ Len(pieces[k]) \in Nat
  BY <1>1
<1>3. ASSUME InOrder(pieces, padding)
      PROVE  /\ \A k \in 1..N : Rising(pieces[k], padding)
             /\ \A k, l \in 1..N : k < l => Ahead(Items(pieces[k]), Items(pieces[l]), padding)
  <2>1. ASSUME NEW k \in 1..N, NEW i \in 1..Len(pieces[k]), NEW j \in 1..Len(pieces[k]), i < j
        PROVE  Ordered(pieces[k][i], pieces[k][j], padding)
    BY <1>1, <1>2, <1>3, <2>1 DEF InOrder, Ordered
  <2>2. ASSUME NEW k \in 1..N, NEW l \in 1..N, k < l,
               NEW i \in 1..Len(pieces[k]), NEW j \in 1..Len(pieces[l])
        PROVE  Ordered(pieces[k][i], pieces[l][j], padding)
    BY <1>1, <1>2, <1>3, <2>2 DEF InOrder, Ordered
  <2> QED
    BY <2>1, <2>2 DEF Rising, Ahead, Items
<1>4. ASSUME \A k \in 1..N : Rising(pieces[k], padding),
             \A k, l \in 1..N : k < l => Ahead(Items(pieces[k]), Items(pieces[l]), padding)
      PROVE  InOrder(pieces, padding)
  <2> SUFFICES ASSUME NEW k \in 1..N, NEW l \in 1..N,
                      NEW i \in 1..Len(pieces[k]), NEW j \in 1..Len(pieces[l]),
                      k < l \/ (k = l /\ i < j)
               PROVE  Ordered(pieces[k][i], pieces[l][j], padding)
    BY <1>1, <1>2 DEF InOrder, Ordered
  <2>1. CASE k < l
    BY <1>4, <2>1 DEF Ahead, Items
  <2>2. CASE k = l /\ i < j
    BY <1>4, <2>2 DEF Rising
  <2> QED
    BY <2>1, <2>2
<1> QED
  BY <1>3, <1>4

LEMMA ItemsMembers ==
    ASSUME NEW pieces
    PROVE  /\ \A k \in 1..Len(pieces) : Items(pieces[k]) \subseteq AllItems(pieces)
           /\ \A b : b \in AllItems(pieces) <=> \E k \in 1..Len(pieces) : b \in Items(pieces[k])
BY DEF AllItems

LEMMA NoPieces == \A padding : InOrder(<<>>, padding) /\ AllItems(<<>>) = {}
                               /\ Rising(<<>>, padding) /\ Items(<<>>) = {}
<1>1. Len(<<>>) = 0 /\ <<>> \in Seq(Seq({}))
  OBVIOUS
<1>2. \A k : k \notin 1..0
  OBVIOUS
<1> QED
  BY <1>1, <1>2 DEF InOrder, AllItems, Rising, Items

\* Two sequences of pieces, one after the other.
LEMMA PiecesJoin ==
    ASSUME NEW S, NEW P \in Seq(Seq(S)), NEW R \in Seq(Seq(S))
    PROVE  /\ AllItems(P \o R) = AllItems(P) \cup AllItems(R)
           /\ \A padding : InOrder(P, padding) /\ InOrder(R, padding)
                              /\ Ahead(AllItems(P), AllItems(R), padding)
                           => InOrder(P \o R, padding)
<1> DEFINE T == Seq(S)
           U == P \o R
           m == Len(P)
           n == Len(R)
<1>1. U \in Seq(T) /\ m \in Nat /\ n \in Nat /\ Len(U) = m + n
  <2>1. P \in Seq(T) /\ R \in Seq(T)
    OBVIOUS
  <2> HIDE DEF T
  <2> QED
    BY <2>1
<1>2. /\ \A k \in 1..m : U[k] = P[k]
      /\ \A k \in 1..n : U[m + k] = R[k]
  <2>1. P \in Seq(T) /\ R \in Seq(T)
    OBVIOUS
  <2> HIDE DEF T
  <2> QED
    BY <2>1
<1> HIDE DEF U
<1>3. \A k \in 1..m + n : k \in 1..m \/ (k - m \in 1..n /\ m + (k - m) = k)
  BY <1>1
<1>4. AllItems(U) = AllItems(P) \cup AllItems(R)
  <2>1. \A k \in 1..m : k \in 1..Len(U)
    BY <1>1
  <2>2. \A k \in 1..n : m + k \in 1..Len(U)
    BY <1>1
  <2>3. AllItems(P) \subseteq AllItems(U)
    BY <1>2, <2>1, ItemsMembers
  <2>4. AllItems(R) \subseteq AllItems(U)
    BY <1>2, <2>2, ItemsMembers
  <2>5. ASSUME NEW b \in AllItems(U) PROVE b \in AllItems(P) \cup AllItems(R)
    <3>1. PICK k \in 1..m + n : b \in Items(U[k])
      BY <1>1, ItemsMembers
    <3>2. CASE k \in 1..m
      BY <1>2, <3>1, <3>2, ItemsMembers
    <3>3. CASE k - m \in 1..n /\ m + (k - m) = k
      <4>1. U[k] = R[k - m]
        BY <1>2, <3>3
      <4> QED
        BY <3>1, <3>3, <4>1, ItemsMembers
    <3> QED
      BY <1>3, <3>2, <3>3
  <2> QED
    BY <2>3, <2>4, <2>5
<1>5. ASSUME NEW padding, InOrder(P, padding), InOrder(R, padding),
             Ahead(AllItems(P), AllItems(R), padding)
      PROVE  InOrder(U, padding)
  <2>1. /\ \A k \in 1..m : Rising(P[k], padding)
        /\ \A k, l \in 1..m : k < l => Ahead(Items(P[k]), Items(P[l]), padding)
        /\ \A k \in 1..n : Rising(R[k], padding)
        /\ \A k, l \in 1..n : k < l => Ahead(Items(R[k]), Items(R[l]), padding)
    BY <1>5, PiecesOrder
  <2>2. ASSUME NEW k \in 1..m + n PROVE Rising(U[k], padding)
    <3>1. CASE k \in 1..m
      BY <1>2, <2>1, <3>1
    <3>2. CASE k - m \in 1..n /\ m + (k - m) = k
      <4>1. U[k] = R[k - m]
        BY <1>2, <3>2
      <4> QED
        BY <2>1, <3>2, <4>1
    <3> QED
      BY <1>3, <3>1, <3>2
  <2>3. ASSUME NEW k \in 1..m + n, NEW l \in 1..m + n, k < l
        PROVE  Ahead(Items(U[k]), Items(U[l]), padding)
    <3>1. CASE l \in 1..m
      <4>1. k \in 1..m
        BY <1>1, <2>3, <3>1
      <4> QED
        BY <1>2, <2>1, <2>3, <3>1, <4>1
    <3>2. CASE k \in 1..m /\ l - m \in 1..n /\ m + (l - m) = l
      <4>1. U[k] = P[k] /\ U[l] = R[l - m]
        BY <1>2, <3>2
      <4>2. Items(P[k]) \subseteq AllItems(P) /\ Items(R[l - m]) \subseteq AllItems(R)
        BY <3>2, ItemsMembers
      <4> QED
        BY <1>5, <4>1, <4>2 DEF Ahead
    <3>3. CASE k - m \in 1..n /\ m + (k - m) = k /\ l - m \in 1..n /\ m + (l - m) = l
      <4>1. U[k] = R[k - m] /\ U[l] = R[l - m]
        BY <1>2, <3>3
      <4>2. k - m < l - m
        BY <1>1, <2>3
      <4> QED
        BY <2>1, <3>3, <4>1, <4>2
    <3> QED
      BY <1>1, <1>3, <2>3, <3>1, <3>2, <3>3
  <2> QED
    BY <1>1, <2>2, <2>3, PiecesOrder
<1> QED
  BY <1>4, <1>5 DEF U

LEMMA OnePiece ==
    ASSUME NEW S, NEW t \in Seq(S)
    PROVE  /\ <<t>> \in Seq(Seq(S)) /\ AllItems(<<t>>) = Items(t)
           /\ \A padding : Rising(t, padding) => InOrder(<<t>>, padding)
<1> DEFINE T == Seq(S)
           one == <<t>>
<1>1. one \in Seq(T) /\ Len(one) = 1 /\ one[1] = t
  <2>1. t \in T
    OBVIOUS
  <2> HIDE DEF T
  <2> QED
    BY <2>1
<1>2. \A k \in 1..1 : k = 1
  OBVIOUS
<1>3. \A k, l \in 1..1 : ~(k < l)
  OBVIOUS
<1> HIDE DEF one
<1>4. AllItems(one) = Items(t)
  <2>1. 1 \in 1..1
    OBVIOUS
  <2>2. \A c : c \in AllItems(one) <=> c \in Items(t)
    BY <1>1, <1>2, <2>1, ItemsMembers
  <2> QED
    BY <2>2
<1>5. ASSUME NEW padding, Rising(t, padding) PROVE InOrder(one, padding)
  BY <1>1, <1>2, <1>3, <1>5, PiecesOrder
<1> QED
  BY <1>1, <1>4, <1>5 DEF one

\* A piece at the end.
LEMMA PieceAppend ==
    ASSUME NEW S, NEW P \in Seq(Seq(S)), NEW t \in Seq(S)
    PROVE  /\ AllItems(Append(P, t)) = AllItems(P) \cup Items(t)
           /\ \A padding : InOrder(P, padding) /\ Rising(t, padding)
                              /\ Ahead(AllItems(P), Items(t), padding)
                           => InOrder(Append(P, t), padding)
<1> DEFINE T == Seq(S)
           one == <<t>>
<1>1. Append(P, t) = P \o one
  <2>1. P \in Seq(T) /\ t \in T
    OBVIOUS
  <2> HIDE DEF T
  <2> QED
    BY <2>1
<1>2. /\ one \in Seq(Seq(S)) /\ AllItems(one) = Items(t)
      /\ \A padding : Rising(t, padding) => InOrder(one, padding)
  BY OnePiece
<1> HIDE DEF one
<1>3. AllItems(P \o one) = AllItems(P) \cup Items(t)
  BY <1>2, PiecesJoin
<1>4. ASSUME NEW padding, InOrder(P, padding), Rising(t, padding),
             Ahead(AllItems(P), Items(t), padding)
      PROVE  InOrder(P \o one, padding)
  BY <1>2, <1>4, PiecesJoin
<1> QED
  BY <1>1, <1>3, <1>4

\* A piece taken from the front.
LEMMA PieceTail ==
    ASSUME NEW S, NEW P \in Seq(Seq(S)), P # <<>>
    PROVE  /\ Head(P) \in Seq(S) /\ Tail(P) \in Seq(Seq(S))
           /\ Items(Head(P)) \subseteq AllItems(P) /\ AllItems(Tail(P)) \subseteq AllItems(P)
           /\ \A padding : InOrder(P, padding) =>
                 /\ Rising(Head(P), padding) /\ InOrder(Tail(P), padding)
                 /\ Ahead(Items(Head(P)), AllItems(Tail(P)), padding)
<1> DEFINE T == Seq(S)
           R == Tail(P)
           n == Len(P)
<1>1. /\ n \in Nat /\ n >= 1 /\ Head(P) = P[1] /\ P[1] \in T
      /\ R \in Seq(T) /\ Len(R) = n - 1
  <2>1. P \in Seq(T)
    OBVIOUS
  <2> HIDE DEF T
  <2> QED
    BY <2>1
<1>2. \A k \in 1..n - 1 : R[k] = P[k + 1]
  <2> HIDE DEF T
  <2> QED
    BY <1>1
<1> HIDE DEF R
<1>3. 1 \in 1..n /\ \A k \in 1..n - 1 : k + 1 \in 1..n /\ 1 < k + 1
  BY <1>1
<1>4. Items(P[1]) \subseteq AllItems(P)
  BY <1>3, ItemsMembers
<1>5. ASSUME NEW b \in AllItems(R) PROVE \E k \in 1..n - 1 : b \in Items(P[k + 1])
  <2>1. PICK k \in 1..Len(R) : b \in Items(R[k])
    BY <1>5, ItemsMembers
  <2>2. k \in 1..n - 1
    BY <1>1, <2>1
  <2>3. b \in Items(P[k + 1])
    BY <1>2, <2>1, <2>2
  <2> QED
    BY <2>2, <2>3
<1>6. AllItems(R) \subseteq AllItems(P)
  BY <1>3, <1>5, ItemsMembers
<1>7. ASSUME NEW padding, InOrder(P, padding)
      PROVE  /\ Rising(P[1], padding) /\ InOrder(R, padding)
             /\ Ahead(Items(P[1]), AllItems(R), padding)
  <2>1. /\ \A k \in 1..n : Rising(P[k], padding)
        /\ \A k, l \in 1..n : k < l => Ahead(Items(P[k]), Items(P[l]), padding)
    BY <1>7, PiecesOrder
  <2>2. \A k \in 1..n - 1 : Rising(R[k], padding)
    BY <1>2, <1>3, <2>1
  <2>3. \A k, l \in 1..n - 1 : k < l => Ahead(Items(R[k]), Items(R[l]), padding)
    <3> TAKE k, l \in 1..n - 1
    <3> HAVE k < l
    <3>1. k + 1 < l + 1
      OBVIOUS
    <3> QED
      BY <1>2, <1>3, <2>1, <3>1
  <2>4. InOrder(R, padding)
    BY <1>1, <2>2, <2>3, PiecesOrder
  <2>5. Ahead(Items(P[1]), AllItems(R), padding)
    <3> SUFFICES ASSUME NEW a \in Items(P[1]), NEW b \in AllItems(R) PROVE Ordered(a, b, padding)
      BY DEF Ahead
    <3>1. PICK k \in 1..n - 1 : b \in Items(P[k + 1])
      BY <1>5
    <3> QED
      BY <1>3, <2>1, <3>1 DEF Ahead
  <2> QED
    BY <1>3, <2>1, <2>4, <2>5
<1> QED
  BY <1>1, <1>4, <1>6, <1>7 DEF R

\* Stages of a path, each with the set of bytes it holds: every byte of an
\* earlier stage may come before every byte of a later one.
Staged(stages, padding) ==
    \A m, n \in 1..Len(stages) : m < n => Ahead(stages[m], stages[n], padding)

\* Bytes move from one stage to an earlier one, over empty ones, and any bytes
\* are dropped.
LEMMA StagedPass ==
    ASSUME NEW stages, NEW next, NEW padding, Staged(stages, padding),
           Len(stages) \in Nat, Len(next) = Len(stages),
           NEW lo \in 1..Len(stages), NEW hi \in 1..Len(stages), lo < hi,
           NEW moved, moved \subseteq stages[hi], next[lo] \subseteq stages[lo] \cup moved,
           \A k \in 1..Len(stages) : k # lo => next[k] \subseteq stages[k],
           \A k \in 1..Len(stages) : lo < k /\ k < hi => next[k] = {},
           Ahead(moved, next[hi], padding)
    PROVE  Staged(next, padding)
<1> DEFINE N == Len(stages)
<1> SUFFICES ASSUME NEW m \in 1..N, NEW n \in 1..N, m < n, NEW a \in next[m], NEW b \in next[n]
             PROVE  Ordered(a, b, padding)
  BY DEF Staged, Ahead
<1>1. \A k, l \in 1..N : k < l => \A c \in stages[k], d \in stages[l] : Ordered(c, d, padding)
  BY DEF Staged, Ahead
<1>2. CASE a \in stages[m] /\ b \in stages[n]
  BY <1>1, <1>2
<1>3. CASE m = lo /\ a \in moved
  <2>1. n < hi \/ n = hi \/ n > hi
    OBVIOUS
  <2>2. CASE n < hi
    BY <1>3, <2>2
  <2>3. CASE n = hi
    BY <1>3, <2>3 DEF Ahead
  <2>4. CASE n > hi
    <3>1. a \in stages[hi] /\ b \in stages[n]
      BY <1>3, <2>4
    <3> QED
      BY <1>1, <2>4, <3>1
  <2> QED
    BY <2>1, <2>2, <2>3, <2>4
<1>4. CASE n = lo /\ b \in moved
  <2>1. a \in stages[m] /\ b \in stages[hi] /\ m < hi
    BY <1>4
  <2> QED
    BY <1>1, <2>1
<1>5. /\ a \in stages[m] \/ (m = lo /\ a \in moved)
      /\ b \in stages[n] \/ (n = lo /\ b \in moved)
  OBVIOUS
<1> QED
  BY <1>2, <1>3, <1>4, <1>5

\* The same, with what the move must satisfy under one name.
Moving(stages, next, lo, hi, moved, padding) ==
    /\ Len(stages) \in Nat /\ Len(next) = Len(stages)
    /\ lo \in 1..Len(stages) /\ hi \in 1..Len(stages) /\ lo < hi
    /\ moved \subseteq stages[hi] /\ next[lo] \subseteq stages[lo] \cup moved
    /\ \A k \in 1..Len(stages) : k # lo => next[k] \subseteq stages[k]
    /\ \A k \in 1..Len(stages) : lo < k /\ k < hi => next[k] = {}
    /\ Ahead(moved, next[hi], padding)

LEMMA StagedMove ==
    ASSUME NEW stages, NEW next, NEW padding, NEW lo, NEW hi, NEW moved,
           Staged(stages, padding), Moving(stages, next, lo, hi, moved, padding)
    PROVE  Staged(next, padding)
<1>1. /\ Len(stages) \in Nat /\ Len(next) = Len(stages)
      /\ lo \in 1..Len(stages) /\ hi \in 1..Len(stages) /\ lo < hi
  BY DEF Moving
<1>2. /\ moved \subseteq stages[hi] /\ next[lo] \subseteq stages[lo] \cup moved
      /\ \A k \in 1..Len(stages) : k # lo => next[k] \subseteq stages[k]
      /\ \A k \in 1..Len(stages) : lo < k /\ k < hi => next[k] = {}
      /\ Ahead(moved, next[hi], padding)
  BY DEF Moving
<1> QED
  BY <1>1, <1>2, StagedPass

\* Bytes enter the last stage, and any bytes are dropped.
LEMMA StagedEnter ==
    ASSUME NEW stages, NEW next, NEW padding, Staged(stages, padding),
           Len(stages) \in Nat \ {0}, Len(next) = Len(stages),
           NEW new, next[Len(stages)] \subseteq stages[Len(stages)] \cup new,
           \A k \in 1..Len(stages) : k # Len(stages) => next[k] \subseteq stages[k],
           \A k \in 1..Len(stages) : Ahead(stages[k], new, padding)
    PROVE  Staged(next, padding)
<1> DEFINE N == Len(stages)
<1> SUFFICES ASSUME NEW m \in 1..N, NEW n \in 1..N, m < n, NEW a \in next[m], NEW b \in next[n]
             PROVE  Ordered(a, b, padding)
  BY DEF Staged, Ahead
<1>1. a \in stages[m]
  OBVIOUS
<1>2. b \in stages[n] \/ b \in new
  OBVIOUS
<1> QED
  BY <1>1, <1>2 DEF Staged, Ahead

\* The data of a sequence of frames, frame by frame.
DataOf(frames) == [i \in 1..Len(frames) |-> frames[i].data]

LEMMA DataFacts ==
    ASSUME NEW S, NEW T, NEW frames \in Seq(T), \A frame \in T : frame.data \in Seq(S)
    PROVE  /\ DataOf(frames) \in Seq(Seq(S)) /\ Len(DataOf(frames)) = Len(frames)
           /\ frames # <<>> => /\ DataOf(Tail(frames)) = Tail(DataOf(frames))
                               /\ Head(DataOf(frames)) = Head(frames).data
                               /\ DataOf(frames) # <<>>
<1> DEFINE U == Seq(S)
           n == Len(frames)
           d == DataOf(frames)
<1>1. n \in Nat /\ \A i \in 1..n : frames[i] \in T /\ frames[i].data \in U
  OBVIOUS
<1>2. d = [i \in 1..n |-> frames[i].data]
  BY DEF DataOf
<1> HIDE DEF d, U
<1>3. d \in Seq(U) /\ Len(d) = n /\ \A i \in 1..n : d[i] = frames[i].data
  BY <1>1, <1>2
<1>5. ASSUME frames # <<>>
      PROVE  /\ DataOf(Tail(frames)) = Tail(d) /\ Head(d) = Head(frames).data /\ d # <<>>
  <2> DEFINE fewer == Tail(frames)
             e == Tail(d)
  <2>1. n >= 1 /\ Len(fewer) = n - 1 /\ \A i \in 1..n - 1 : fewer[i] = frames[i + 1]
    BY <1>1, <1>5
  <2>2. d # <<>> /\ Head(d) = d[1] /\ Head(frames) = frames[1]
    BY <1>3, <1>5, <2>1
  <2>3. e \in Seq(U) /\ Len(e) = n - 1 /\ \A i \in 1..n - 1 : e[i] = d[i + 1]
    BY <1>1, <1>3, <2>1, <2>2
  <2> HIDE DEF fewer, e
  <2>4. \A i \in 1..n - 1 : i + 1 \in 1..n
    BY <1>1
  <2>5. \A i \in 1..n - 1 : fewer[i].data = e[i]
    BY <1>3, <2>1, <2>3, <2>4
  <2>6. e = [i \in 1..n - 1 |-> e[i]]
    BY <2>3
  <2>7. DataOf(fewer) = e
    BY <2>1, <2>5, <2>6 DEF DataOf
  <2>8. Head(d) = Head(frames).data
    BY <1>1, <1>3, <2>1, <2>2
  <2> QED
    BY <2>2, <2>7, <2>8 DEF fewer, e
<1> QED
  BY <1>3, <1>5 DEF d, U

LEMMA DataAppend ==
    ASSUME NEW S, NEW T, NEW frames \in Seq(T), NEW frame \in T, frame.data \in Seq(S),
           \A other \in T : other.data \in Seq(S)
    PROVE  DataOf(Append(frames, frame)) = Append(DataOf(frames), frame.data)
<1> DEFINE U == Seq(S)
           n == Len(frames)
           d == DataOf(frames)
           more == Append(frames, frame)
           e == Append(d, frame.data)
<1>1. n \in Nat /\ \A i \in 1..n : frames[i] \in T /\ frames[i].data \in U
  OBVIOUS
<1>2. d \in Seq(U) /\ Len(d) = n /\ \A i \in 1..n : d[i] = frames[i].data
  <2>1. d = [i \in 1..n |-> frames[i].data]
    BY DEF DataOf
  <2> HIDE DEF d, U
  <2> QED
    BY <1>1, <2>1
<1>3. frame.data \in U
  OBVIOUS
<1>4. Len(more) = n + 1 /\ more[n + 1] = frame /\ \A i \in 1..n : more[i] = frames[i]
  BY <1>1
<1> HIDE DEF d, U
<1>5. /\ e \in Seq(U) /\ Len(e) = n + 1 /\ e[n + 1] = frame.data
      /\ \A i \in 1..n : e[i] = d[i]
  BY <1>1, <1>2, <1>3
<1> HIDE DEF more, e
<1>6. \A i \in 1..n + 1 : i \in 1..n \/ i = n + 1
  BY <1>1
<1>7. \A i \in 1..n + 1 : more[i].data = e[i]
  BY <1>2, <1>4, <1>5, <1>6
<1>8. e = [i \in 1..n + 1 |-> e[i]]
  BY <1>5
<1>9. DataOf(more) = e
  BY <1>4, <1>7, <1>8 DEF DataOf
<1> QED
  BY <1>9 DEF more, e, d

=============================================================================
