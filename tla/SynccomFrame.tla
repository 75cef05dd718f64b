---------------------------- MODULE SynccomFrame ----------------------------
(* The data structures every path of the driver is built from: a frame       *)
(* (frame.c), a growing byte buffer with a declared size, and an flist       *)
(* (flist.c), a FIFO of frames with a running estimate of the bytes it holds.*)
(* A frame's data is the sequence of its valid bytes, so data_length is the  *)
(* length of that sequence; the list is a sequence of frames.                *)
EXTENDS Integers, Sequences

CONSTANT WORD       \* 2^w for the w-bit `unsigned' of the lengths

ASSUME WordAssumption == WORD \in Nat \ {0}

Least(a, b) == IF a <= b THEN a ELSE b

----------------------------------------------------------------------------
(* frame.c *)

Frames(Bytes) == [data : Seq(Bytes), buffer_size : Nat, frame_size : Nat, lost_bytes : Nat]

NewFrame == [data |-> <<>>, buffer_size |-> 0, frame_size |-> 0, lost_bytes |-> 0]

DataLength(frame) == Len(frame.data)

Align4(n) == IF n % 4 = 0 THEN n ELSE n + (4 - (n % 4))

\* mutant: the buffer is as long as the data.
UpdateBufferSizeExact(frame, size) ==
    [frame EXCEPT !.data = SubSeq(@, 1, Least(Len(@), size)), !.buffer_size = size]

\* Size 0 frees the buffer; any other size reallocates and truncates the data.
UpdateBufferSize(frame, size) ==
    IF size = 0
    THEN [frame EXCEPT !.data = <<>>, !.buffer_size = 0]
    ELSE [frame EXCEPT !.data = SubSeq(@, 1, Least(Len(@), size)),
                       !.buffer_size = Align4(size)]

ClearFrame(frame) == UpdateBufferSize(frame, 0)

\* Append bytes; the buffer is only reallocated when they do not fit.
AddData(frame, bytes) ==
    LET total == DataLength(frame) + Len(bytes)
        room  == IF total > frame.buffer_size THEN UpdateBufferSize(frame, total) ELSE frame
    IN  IF bytes = <<>> THEN frame ELSE [room EXCEPT !.data = @ \o bytes]

\* What remove_data copies out and what it leaves: the front of the data.
Removed(frame, length) == SubSeq(frame.data, 1, Least(length, DataLength(frame)))

RemoveData(frame, length) ==
    [frame EXCEPT !.data = SubSeq(@, Least(length, Len(@)) + 1, Len(@))]

\* The unsigned subtraction of copy_data: it wraps when the destination
\* already accounts for more bytes than its frame_size.
AmountToMove(destination, source) ==
    Least(DataLength(source),
          (destination.frame_size - (DataLength(destination) + destination.lost_bytes)) % WORD)

\* copy_data: the destination and the source after the move.
CopyTo(destination, source) ==
    AddData(destination, Removed(source, AmountToMove(destination, source)))

\* mutant: the bytes that are copied stay in the source.
CopyFromKeeps(destination, source) == source

CopyFrom(destination, source) ==
    RemoveData(source, AmountToMove(destination, source))

----------------------------------------------------------------------------
(* flist.c.  The estimate is kept unreduced; a reader reduces it modulo WORD. *)

Lists(Bytes) == [frames : Seq(Frames(Bytes)), estimated_memory_usage : Int]

EmptyList == [frames |-> <<>>, estimated_memory_usage |-> 0]

IsEmptyList(flist) == flist.frames = <<>>

PeekFront(flist) == Head(flist.frames)

\* mutant: the estimate forgets the frame.
AddFrameUncounted(flist, frame) == [flist EXCEPT !.frames = Append(@, frame)]

AddFrame(flist, frame) ==
    [frames |-> Append(flist.frames, frame),
     estimated_memory_usage |-> flist.estimated_memory_usage + DataLength(frame)]

\* mutant: the estimate keeps the frame.
RemoveFrameUncounted(flist) == [flist EXCEPT !.frames = Tail(@)]

\* For a list that is not empty.
RemoveFrame(flist) ==
    [frames |-> Tail(flist.frames),
     estimated_memory_usage |-> flist.estimated_memory_usage - DataLength(PeekFront(flist))]

\* What the estimate of a list stands for: the bytes its frames hold.
TotalLength(frames) ==
    LET sum[i \in 0..Len(frames)] ==
            IF i = 0 THEN 0 ELSE sum[i - 1] + DataLength(frames[i])
    IN  sum[Len(frames)]

\* remove_frame_if_lte succeeds only for a first frame of at most size bytes.
CanRemoveLte(flist, size) ==
    ~IsEmptyList(flist) /\ DataLength(PeekFront(flist)) <= size

----------------------------------------------------------------------------
(* The order of the bytes: <<k, i>> is byte i of the k-th frame. *)

Precedes(a, b) == a[1] < b[1] \/ (a[1] = b[1] /\ a[2] < b[2])

\* Read one after the other the pieces hold no byte twice and none before one
\* that precedes it, what only pads them aside.
InOrder(pieces, padding) ==
    \A k, l \in DOMAIN pieces : \A i \in DOMAIN pieces[k], j \in DOMAIN pieces[l] :
        k < l \/ (k = l /\ i < j) =>
            \/ pieces[k][i] \in padding \/ pieces[l][j] \in padding
            \/ Precedes(pieces[k][i], pieces[l][j])

=============================================================================
