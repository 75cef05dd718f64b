--------------------------- MODULE SynccomRx_proofs ---------------------------
(* While PURGE_RX is not used, the frame-size FIFO is never over-read, however*)
(* many frame counts and sizes are in flight.  The argument: the commands and *)
(* the responses in flight form one chain of numbered size reads, from the    *)
(* last one completed to the last one issued; a frame count taken after size  *)
(* read t says how many sizes follow t, so issuing no more than the count     *)
(* minus the reads still waited for never passes the last size there is.      *)
EXTENDS SynccomRx, TLAPS

\* The number of the last size read before command or response r.
Before(r) == IF r.op = "BC_FIFO_L" THEN r.nth - 1 ELSE r.nth

\* q continues the numbering after a and ends with b.
Chain(q, a, b) ==
    /\ q = <<>> => a = b
    /\ q # <<>> => Before(q[1]) = a /\ q[Len(q)].nth = b
    /\ \A i \in 2..Len(q) : Before(q[i]) = q[i - 1].nth
    /\ \A i \in 1..Len(q) : q[i].nth <= b

\* The size reads still to send were counted when they were decided on.
SizesLeft == tally.issued + to_send.sizes <= tally.sized

\* A frame count on its way back is the number of sizes that follow the size
\* reads made before it.
CountsTrue ==
    \A i \in 1..Len(responses) :
        responses[i].op = "FIFO_FC" => responses[i].value + responses[i].nth <= tally.sized

Requests == [op : {"FIFO_FC", "BC_FIFO_L"}, nth : Nat]
Answers  == [op : {"FIFO_FC", "BC_FIFO_L"}, value : Nat, nth : Nat]

Unsent   == [sizes : Nat, count : BOOLEAN]
Tallies  == [sized : Nat, issued : Nat, popped : Nat, completed : Nat]

RegisterTypes ==
    /\ wire \in [frame : Nat \ {0}, bytes : Nat]
    /\ sizeFifo \in Seq(1..NFrames)
    /\ pipe \in Seq(Requests) /\ responses \in Seq(Answers)
    /\ to_send \in Unsent /\ pending_frame_size_reads \in Nat
    /\ tally \in Tallies
    /\ bound \in [purges : Nat, failures : Nat]

SizesInv ==
    /\ RegisterTypes
    /\ Chain(responses, tally.completed, tally.popped)
    /\ Chain(pipe, tally.popped, tally.issued)
    /\ SizesLeft
    /\ Len(sizeFifo) = tally.sized - tally.popped
    /\ SizeReadsTracked
    /\ CountsTrue
    /\ NoOverread

----------------------------------------------------------------------------
(* Chains. *)

LEMMA ChainTail ==
    ASSUME NEW T, \A r \in T : r.nth \in Nat, NEW q \in Seq(T), NEW a \in Nat, NEW b \in Nat,
           q # <<>>, Chain(q, a, b)
    PROVE  /\ Chain(Tail(q), Head(q).nth, b)
           /\ Before(Head(q)) = a
           /\ Head(q).nth <= b
<1>1. Len(q) \in Nat /\ Len(q) >= 1 /\ Head(q) = q[1]
  OBVIOUS
<1>2. Len(Tail(q)) = Len(q) - 1 /\ \A i \in 1..Len(q) - 1 : Tail(q)[i] = q[i + 1]
  OBVIOUS
<1>3. Tail(q) = <<>> <=> Len(q) = 1
  <2>1. Tail(q) \in Seq(T)
    OBVIOUS
  <2>2. \A s \in Seq(T) : s = <<>> <=> Len(s) = 0
    OBVIOUS
  <2> DEFINE rest == Tail(q)
  <2>3. rest \in Seq(T) /\ Len(rest) = Len(q) - 1
    BY <2>1, <1>2
  <2> HIDE DEF rest
  <2>4. rest = <<>> <=> Len(rest) = 0
    BY <2>2, <2>3
  <2>5. rest = <<>> <=> Len(q) = 1
    BY <2>3, <2>4, <1>1
  <2> QED
    BY <2>5 DEF rest
<1>4. Tail(q) # <<>> => Before(Tail(q)[1]) = Head(q).nth /\ Tail(q)[Len(Tail(q))].nth = b
  <2> SUFFICES ASSUME Tail(q) # <<>> PROVE Before(Tail(q)[1]) = Head(q).nth /\ Tail(q)[Len(Tail(q))].nth = b
    OBVIOUS
  <2>1. Len(q) >= 2 /\ Tail(q)[1] = q[2] /\ Tail(q)[Len(q) - 1] = q[Len(q)]
    BY <1>1, <1>2, <1>3
  <2>2. Before(q[2]) = q[2 - 1].nth
    BY <2>1, <1>1 DEF Chain
  <2> QED
    BY <2>1, <2>2, <1>1, <1>2 DEF Chain
<1>5. \A i \in 2..Len(Tail(q)) : Before(Tail(q)[i]) = Tail(q)[i - 1].nth
  <2> TAKE i \in 2..Len(Tail(q))
  <2>1. i + 1 \in 2..Len(q) /\ Tail(q)[i] = q[i + 1] /\ Tail(q)[i - 1] = q[i]
    BY <1>1, <1>2
  <2>2. Before(q[i + 1]) = q[(i + 1) - 1].nth
    BY <2>1 DEF Chain
  <2> QED
    BY <2>1, <2>2
<1>6. \A i \in 1..Len(Tail(q)) : Tail(q)[i].nth <= b
  BY <1>1, <1>2 DEF Chain
<1>7. Tail(q) = <<>> => Head(q).nth = b
  BY <1>1, <1>3 DEF Chain
<1> QED
  BY <1>1, <1>4, <1>5, <1>6, <1>7 DEF Chain

LEMMA ChainAppend ==
    ASSUME NEW T, \A x \in T : x.nth \in Nat, NEW q \in Seq(T), NEW r \in T,
           NEW a \in Nat, NEW b \in Nat, Chain(q, a, b), Before(r) = b
    PROVE  Chain(Append(q, r), a, r.nth)
<1> DEFINE longer == Append(q, r)
<1>1. /\ Len(q) \in Nat /\ Len(longer) = Len(q) + 1 /\ longer # <<>>
      /\ longer[Len(q) + 1] = r
      /\ \A i \in 1..Len(q) : longer[i] = q[i]
  OBVIOUS
<1>2. b <= r.nth /\ r.nth \in Nat
  BY DEF Before
<1>3. \A i \in 1..Len(q) : q[i].nth \in Nat /\ q[i].nth <= b
  BY DEF Chain
<1>4. Before(longer[1]) = a
  <2>1. CASE q = <<>>
    <3>1. Len(q) = 0 /\ a = b
      BY <2>1 DEF Chain
    <3> QED
      BY <1>1, <3>1
  <2>2. CASE q # <<>>
    <3>1. 1 \in 1..Len(q)
      BY <2>2, <1>1
    <3> QED
      BY <2>2, <3>1, <1>1 DEF Chain
  <2> QED
    BY <2>1, <2>2
<1>5. \A i \in 2..Len(longer) : Before(longer[i]) = longer[i - 1].nth
  <2> TAKE i \in 2..Len(longer)
  <2>1. CASE i = Len(q) + 1
    <3>1. q # <<>> /\ i - 1 = Len(q) /\ i - 1 \in 1..Len(q)
      BY <2>1, <1>1
    <3>2. q[Len(q)].nth = b /\ longer[i - 1] = q[Len(q)] /\ longer[i] = r
      BY <2>1, <3>1, <1>1 DEF Chain
    <3> QED
      BY <3>2
  <2>2. CASE i # Len(q) + 1
    <3>1. i \in 2..Len(q) /\ i \in 1..Len(q) /\ i - 1 \in 1..Len(q)
      BY <2>2, <1>1
    <3>2. Before(q[i]) = q[i - 1].nth
      BY <3>1 DEF Chain
    <3>3. longer[i] = q[i] /\ longer[i - 1] = q[i - 1]
      BY <3>1, <1>1
    <3> QED
      BY <3>2, <3>3
  <2> QED
    BY <2>1, <2>2
<1>6. \A i \in 1..Len(longer) : longer[i].nth <= r.nth
  BY <1>1, <1>2, <1>3
<1> HIDE DEF longer
<1> QED
  BY <1>1, <1>4, <1>5, <1>6 DEF Chain

----------------------------------------------------------------------------
(* The invariant. *)

LEMMA TrackedArithmetic ==
    ASSUME NEW i \in Nat, NEW c \in Nat, NEW p \in Nat, NEW f \in Nat, NEW d \in Nat,
           i - c <= p, p <= (i - c) + f, d >= c, d <= c + 1
    PROVE  /\ i - (c + 1) <= p - 1 /\ p - 1 <= (i - (c + 1)) + f
           /\ i - d <= p /\ p <= (i - d) + (f + 1)
OBVIOUS

LEMMA SizesInit == ASSUME Init PROVE SizesInv
<1>1. \A S : <<>> \in Seq(S) /\ Len(<<>>) = 0
  OBVIOUS
<1>2. RegisterTypes
  <2>1. sizeFifo \in Seq(1..NFrames)
        /\ pipe \in Seq(Requests) /\ responses \in Seq(Answers)
    BY <1>1 DEF Init
  <2>2. tally \in Tallies /\ to_send \in Unsent /\ wire \in [frame : Nat \ {0}, bytes : Nat]
        /\ bound \in [purges : Nat, failures : Nat]
    BY DEF Init, Tallies, NothingToSend, Unsent
  <2> QED
    BY <2>1, <2>2 DEF Init, RegisterTypes
<1>3. Chain(responses, tally.completed, tally.popped) /\ Chain(pipe, tally.popped, tally.issued)
  <2>1. responses = <<>> /\ pipe = <<>> /\ tally.completed = 0 /\ tally.popped = 0
        /\ tally.issued = 0
    BY DEF Init
  <2>2. Len(responses) = 0 /\ Len(pipe) = 0
    BY <2>1, <1>1
  <2> QED
    BY <2>1, <2>2 DEF Chain
<1>4. SizesLeft /\ Len(sizeFifo) = tally.sized - tally.popped /\ SizeReadsTracked
  BY <1>1 DEF Init, SizesLeft, NothingToSend, SizeReadsTracked
<1>5. CountsTrue /\ NoOverread
  BY <1>1 DEF Init, CountsTrue, NoOverread
<1> QED
  BY <1>2, <1>3, <1>4, <1>5 DEF SizesInv

\* Sending a count, and executing or completing the first of a chain.
LEMMA SendFacts ==
    ASSUME RegisterTypes, Chain(pipe, tally.popped, tally.issued), Send("FIFO_FC")
    PROVE  pipe' \in Seq(Requests) /\ Chain(pipe', tally.popped, tally.issued)
<1> DEFINE r == [op |-> "FIFO_FC", nth |-> tally.issued]
<1>1. pipe' = Append(pipe, r) /\ pipe \in Seq(Requests) /\ tally.issued \in Nat
      /\ tally.popped \in Nat
  BY DEF Send, RegisterTypes, Tallies
<1>2. r \in Requests /\ Before(r) = tally.issued /\ r.nth = tally.issued
  BY <1>1 DEF Requests, Before
<1>3. \A x \in Requests : x.nth \in Nat
  BY DEF Requests
<1> HIDE DEF r
<1>4. Chain(Append(pipe, r), tally.popped, r.nth)
  BY <1>1, <1>2, <1>3, ChainAppend
<1> QED
  BY <1>1, <1>2, <1>4

LEMMA ExecuteFacts ==
    ASSUME RegisterTypes, Chain(pipe, tally.popped, tally.issued),
           Chain(responses, tally.completed, tally.popped),
           NEW op, Executing(op), NEW value \in Nat, Respond(value)
    PROVE  /\ Head(pipe) \in Requests /\ Before(Head(pipe)) = tally.popped
           /\ Head(pipe).nth <= tally.issued
           /\ pipe' \in Seq(Requests) /\ Chain(pipe', Head(pipe).nth, tally.issued)
           /\ responses' \in Seq(Answers)
           /\ Chain(responses', tally.completed, Head(pipe).nth)
<1> DEFINE r == [op |-> Head(pipe).op, value |-> value, nth |-> Head(pipe).nth]
<1>1. /\ pipe # <<>> /\ pipe' = Tail(pipe) /\ responses' = Append(responses, r)
      /\ pipe \in Seq(Requests) /\ responses \in Seq(Answers)
      /\ tally.issued \in Nat /\ tally.popped \in Nat /\ tally.completed \in Nat
  BY DEF Executing, Respond, RegisterTypes, Tallies
<1>2. (\A x \in Requests : x.nth \in Nat) /\ (\A x \in Answers : x.nth \in Nat)
  BY DEF Requests, Answers
<1>3. Head(pipe) \in Requests /\ pipe' \in Seq(Requests)
  BY <1>1
<1>4. /\ Chain(Tail(pipe), Head(pipe).nth, tally.issued)
      /\ Before(Head(pipe)) = tally.popped /\ Head(pipe).nth <= tally.issued
  BY <1>1, <1>2, ChainTail
<1>5. r \in Answers /\ Before(r) = tally.popped /\ r.nth = Head(pipe).nth
  BY <1>3, <1>4 DEF Requests, Answers, Before
<1> HIDE DEF r
<1>6. Chain(responses, tally.completed, Before(r)) /\ tally.completed \in Nat /\ Before(r) \in Nat
  BY <1>1, <1>5
<1>7. Chain(Append(responses, r), tally.completed, r.nth)
  BY <1>1, <1>2, <1>5, <1>6, ChainAppend
<1>8. Append(responses, r) \in Seq(Answers)
  BY <1>1, <1>5
<1> QED
  BY <1>1, <1>3, <1>4, <1>5, <1>7, <1>8

LEMMA CompleteFacts ==
    ASSUME RegisterTypes, Chain(responses, tally.completed, tally.popped),
           responses # <<>>, responses' = Tail(responses)
    PROVE  /\ Head(responses) \in Answers /\ Before(Head(responses)) = tally.completed
           /\ responses' \in Seq(Answers)
           /\ Chain(responses', Head(responses).nth, tally.popped)
           /\ Len(responses') = Len(responses) - 1
           /\ \A i \in 1..Len(responses') : responses'[i] = responses[i + 1]
<1>1. /\ responses \in Seq(Answers) /\ tally.popped \in Nat /\ tally.completed \in Nat
  BY DEF RegisterTypes, Tallies
<1>2. \A x \in Answers : x.nth \in Nat
  BY DEF Answers
<1>3. /\ Chain(Tail(responses), Head(responses).nth, tally.popped)
      /\ Before(Head(responses)) = tally.completed
  BY <1>1, <1>2, ChainTail
<1>4. /\ Head(responses) \in Answers /\ responses' \in Seq(Answers)
      /\ Len(responses') = Len(responses) - 1
      /\ \A i \in 1..Len(responses') : responses'[i] = responses[i + 1]
  BY <1>1
<1> QED
  BY <1>3, <1>4

----------------------------------------------------------------------------

LEMMA SizesStep ==
    ASSUME RxAssumption, MaxPurges = 0, SizesInv, [Next]_vars
    PROVE  SizesInv'
<1>0. /\ wire \in [frame : Nat \ {0}, bytes : Nat] /\ sizeFifo \in Seq(1..NFrames)
      /\ pipe \in Seq(Requests) /\ responses \in Seq(Answers)
      /\ to_send \in Unsent /\ pending_frame_size_reads \in Nat
      /\ tally \in Tallies
      /\ bound \in [purges : Nat, failures : Nat]
      /\ RegisterTypes
  BY DEF SizesInv, RegisterTypes
<1>1. /\ Chain(responses, tally.completed, tally.popped)
      /\ Chain(pipe, tally.popped, tally.issued)
      /\ SizesLeft
      /\ Len(sizeFifo) = tally.sized - tally.popped
      /\ SizeReadsTracked /\ CountsTrue /\ NoOverread
  BY DEF SizesInv
<1>a. /\ tally.sized \in Nat /\ tally.issued \in Nat /\ tally.popped \in Nat
      /\ tally.completed \in Nat /\ pending_frame_size_reads \in Nat
  BY <1>0 DEF Tallies
<1>e. to_send.sizes \in Nat /\ bound.failures \in Nat
  BY <1>0 DEF Unsent
<1>b. tally \in Tallies
  BY <1>0
<1>d. /\ tally.issued - tally.completed <= pending_frame_size_reads
      /\ pending_frame_size_reads <= (tally.issued - tally.completed) + bound.failures
      /\ tally.issued + to_send.sizes <= tally.sized /\ tally.issued <= tally.sized
      /\ Len(sizeFifo) = tally.sized - tally.popped
  BY <1>1, <1>a, <1>e DEF SizeReadsTracked, SizesLeft
<1>c. responses \in Seq(Answers) /\ Len(sizeFifo) \in Nat
  BY <1>0
<1>2. ASSUME UNCHANGED <<wire, sizeFifo, registerVars, bound>> PROVE SizesInv'
  BY <1>0, <1>1, <1>2 DEF registerVars, SizesInv, RegisterTypes, SizesLeft, SizeReadsTracked, CountsTrue, NoOverread
<1>3. CASE WireByte
  <2>1. /\ UNCHANGED <<pipe, responses, to_send, pending_frame_size_reads, overread, bound>>
        /\ wire.frame <= NFrames /\ NFrames \in Nat
    BY <1>3 DEF WireByte, NFrames, RxAssumption
  <2>2. wire' \in [frame : Nat \ {0}, bytes : Nat]
    <3>1. \/ wire' = [frame |-> wire.frame + 1, bytes |-> 0]
          \/ wire' = [wire EXCEPT !.bytes = wire.bytes + 1]
      BY <1>3 DEF WireByte
    <3>2. wire \in [frame : Nat \ {0}, bytes : Nat]
      BY <1>0
    <3> QED
      BY <3>1, <3>2
  <2> DEFINE whole == wire.bytes + 1 = FrameLengths[wire.frame] /\ ~streaming
  <2>3. CASE ~whole
    <3>1. sizeFifo' = sizeFifo /\ tally' = [tally EXCEPT !.sized = tally.sized]
      BY <1>3, <2>3 DEF WireByte
    <3>2. /\ tally' \in Tallies
          /\ tally'.sized = tally.sized /\ tally'.issued = tally.issued
          /\ tally'.popped = tally.popped /\ tally'.completed = tally.completed
      <4>1. tally' = [tally EXCEPT !.sized = tally.sized] /\ tally.sized \in Nat
        BY <1>a, <3>1
      <4> QED
        BY <1>b, <4>1 DEF Tallies
    <3> QED
      BY <1>0, <1>1, <2>1, <2>2, <3>1, <3>2
      DEF SizesInv, RegisterTypes, SizesLeft, SizeReadsTracked, CountsTrue, NoOverread
  <2>4. CASE whole
    <3>1. /\ sizeFifo' = Append(sizeFifo, wire.frame)
          /\ tally' = [tally EXCEPT !.sized = tally.sized + 1]
      BY <1>3, <2>4 DEF WireByte
    <3>2. /\ tally' \in Tallies
          /\ tally'.sized = tally.sized + 1 /\ tally'.issued = tally.issued
          /\ tally'.popped = tally.popped /\ tally'.completed = tally.completed
      <4>1. tally' = [tally EXCEPT !.sized = tally.sized + 1] /\ tally.sized + 1 \in Nat
        BY <1>a, <3>1
      <4> QED
        BY <1>b, <4>1 DEF Tallies
    <3>3. wire.frame \in 1..NFrames
      BY <1>0, <2>1
    <3>4. sizeFifo' \in Seq(1..NFrames) /\ Len(sizeFifo') = Len(sizeFifo) + 1
      BY <1>0, <3>1, <3>3
    <3>5. CountsTrue'
      <4> SUFFICES ASSUME NEW i \in 1..Len(responses), responses[i].op = "FIFO_FC"
                   PROVE  responses[i].value + responses[i].nth <= tally'.sized
        BY <2>1 DEF CountsTrue
      <4>1. responses[i].value + responses[i].nth <= tally.sized
        BY <1>1 DEF CountsTrue
      <4>2. responses[i].value \in Nat /\ responses[i].nth \in Nat
        <5>1. responses[i] \in Answers
          BY <1>c
        <5> QED
          BY <5>1 DEF Answers
      <4> QED
        BY <1>a, <3>2, <4>1, <4>2, SMTT(30)
    <3>6. /\ Chain(responses, tally.completed, tally.popped)'
          /\ Chain(pipe, tally.popped, tally.issued)'
      BY <1>1, <2>1, <3>2
    <3>7. /\ SizesLeft'
          /\ Len(sizeFifo') = tally'.sized - tally'.popped
          /\ SizeReadsTracked'
      <4>1. pending_frame_size_reads' = pending_frame_size_reads /\ to_send' = to_send
            /\ bound' = bound
        BY <2>1
      <4>2. SizesLeft'
        <5>1. tally.issued + to_send.sizes <= tally.sized + 1
          BY <1>a, <1>e, <1>d
        <5> QED
          BY <3>2, <4>1, <5>1 DEF SizesLeft
      <4>3. SizeReadsTracked'
        BY <1>1, <3>2, <4>1 DEF SizeReadsTracked
      <4> QED
        BY <1>a, <1>c, <1>d, <3>2, <3>4, <4>2, <4>3, SMTT(30)
    <3>8. RegisterTypes'
      BY <1>0, <2>1, <2>2, <3>2, <3>4 DEF RegisterTypes
    <3>9. NoOverread'
      BY <1>1, <2>1 DEF NoOverread
    <3> QED
      BY <3>5, <3>6, <3>7, <3>8, <3>9 DEF SizesInv
  <2> QED
    BY <2>3, <2>4
<1>4. CASE ExecuteFrameCount
  <2>1. /\ UNCHANGED <<wire, sizeFifo, to_send, pending_frame_size_reads, tally, overread, bound>>
        /\ Executing("FIFO_FC") /\ Respond(Len(sizeFifo)) /\ Len(sizeFifo) \in Nat
    BY <1>0, <1>4 DEF ExecuteFrameCount, adapterVars
  <2>2. /\ Before(Head(pipe)) = tally.popped
        /\ pipe' \in Seq(Requests) /\ Chain(pipe', Head(pipe).nth, tally.issued)
        /\ responses' \in Seq(Answers) /\ Chain(responses', tally.completed, Head(pipe).nth)
    BY <1>0, <1>1, <2>1, ExecuteFacts
  <2>3. Head(pipe).op = "FIFO_FC" /\ Head(pipe).nth = tally.popped
    BY <2>1, <2>2 DEF Executing, Before
  <2>4. CountsTrue'
    <3> DEFINE r == [op |-> Head(pipe).op, value |-> Len(sizeFifo), nth |-> Head(pipe).nth]
    <3>1. responses' = Append(responses, r)
      BY <2>1 DEF Respond
    <3>2. r.value + r.nth <= tally.sized
      BY <1>a, <1>d, <2>1, <2>3
    <3> HIDE DEF r
    <3>3. \A i \in 1..Len(responses') : responses'[i] = r \/ (i \in 1..Len(responses)
                                                             /\ responses'[i] = responses[i])
      BY <1>c, <3>1
    <3> QED
      BY <1>1, <2>1, <3>2, <3>3 DEF CountsTrue
  <2>5. RegisterTypes'
    BY <1>0, <2>1, <2>2 DEF RegisterTypes
  <2>6. SizesLeft' /\ SizeReadsTracked' /\ NoOverread'
    BY <1>1, <2>1 DEF SizesLeft, SizeReadsTracked, NoOverread
  <2> QED
    BY <1>1, <2>1, <2>2, <2>3, <2>4, <2>5, <2>6 DEF SizesInv
<1>5. CASE ExecuteFrameSize
  <2>1. /\ UNCHANGED <<wire, to_send, pending_frame_size_reads, bound>>
        /\ Executing("BC_FIFO_L") /\ Head(pipe).op = "BC_FIFO_L" /\ pipe # <<>>
        /\ tally' = [tally EXCEPT !.popped = @ + 1]
    BY <1>5 DEF ExecuteFrameSize, Executing
  <2>2. Head(pipe) \in Requests /\ Before(Head(pipe)) = tally.popped /\ Head(pipe).nth <= tally.issued
    <3>1. \A x \in Requests : x.nth \in Nat
      BY DEF Requests
    <3>2. pipe \in Seq(Requests) /\ Head(pipe) \in Requests
      BY <1>0, <2>1
    <3> QED
      BY <1>a, <1>1, <2>1, <3>1, <3>2, ChainTail
  <2>3. Head(pipe).nth = tally.popped + 1
    BY <1>a, <2>1, <2>2 DEF Before, Requests
  <2>4. sizeFifo # <<>> /\ Len(sizeFifo) >= 1
    <3>1. Len(sizeFifo) >= 1
      BY <1>a, <1>c, <1>d, <2>2, <2>3
    <3> QED
      BY <3>1
  <2>5. /\ Respond(FrameLengths[Head(sizeFifo)]) /\ sizeFifo' = Tail(sizeFifo)
        /\ overread' = overread
    BY <1>5, <2>4 DEF ExecuteFrameSize
  <2>6. FrameLengths[Head(sizeFifo)] \in Nat
    <3>1. Head(sizeFifo) \in 1..NFrames
      <4>1. sizeFifo \in Seq(1..NFrames) /\ sizeFifo # <<>>
        BY <1>0, <2>4
      <4>2. \A S : \A q \in Seq(S) : q # <<>> => Head(q) \in S
        OBVIOUS
      <4> QED
        BY <4>1, <4>2
    <3> QED
      BY <3>1 DEF RxAssumption, NFrames
  <2>7. /\ pipe' \in Seq(Requests) /\ Chain(pipe', tally.popped + 1, tally.issued)
        /\ responses' \in Seq(Answers) /\ Chain(responses', tally.completed, tally.popped + 1)
    BY <1>0, <1>1, <2>1, <2>3, <2>5, <2>6, ExecuteFacts
  <2>8. /\ tally' \in Tallies
        /\ tally'.sized = tally.sized /\ tally'.issued = tally.issued
        /\ tally'.popped = tally.popped + 1 /\ tally'.completed = tally.completed
    <3>1. tally' = [tally EXCEPT !.popped = tally.popped + 1] /\ tally.popped + 1 \in Nat
      BY <1>a, <2>1
    <3> QED
      BY <1>b, <3>1 DEF Tallies
  <2>9. CountsTrue'
    <3> DEFINE r == [op |-> Head(pipe).op, value |-> FrameLengths[Head(sizeFifo)],
                     nth |-> Head(pipe).nth]
    <3>1. responses' = Append(responses, r) /\ r.op = "BC_FIFO_L"
      BY <2>1, <2>5 DEF Respond
    <3> HIDE DEF r
    <3>2. \A i \in 1..Len(responses') : responses'[i] = r \/ (i \in 1..Len(responses)
                                                             /\ responses'[i] = responses[i])
      BY <1>c, <3>1
    <3> QED
      BY <1>1, <2>8, <3>1, <3>2 DEF CountsTrue
  <2>10. sizeFifo' \in Seq(1..NFrames) /\ Len(sizeFifo') = Len(sizeFifo) - 1
    BY <1>0, <2>4, <2>5
  <2>11. RegisterTypes'
    BY <1>0, <2>1, <2>7, <2>8, <2>10 DEF RegisterTypes
  <2>12. /\ SizesLeft'
         /\ Len(sizeFifo') = tally'.sized - tally'.popped
         /\ SizeReadsTracked'
    <3>1. pending_frame_size_reads' = pending_frame_size_reads
      BY <2>1
    <3>2. SizeReadsTracked'
      BY <1>1, <2>1, <2>8, <3>1 DEF SizeReadsTracked
    <3>3. SizesLeft'
      BY <1>1, <2>1, <2>8 DEF SizesLeft
    <3>4. Len(sizeFifo') = tally'.sized - tally'.popped
      <4>1. Len(sizeFifo) = tally.sized - tally.popped
        BY <1>d
      <4>2. tally.sized \in Nat /\ tally.popped \in Nat
        BY <1>a
      <4>3. /\ Len(sizeFifo') = (tally.sized - tally.popped) - 1
            /\ tally'.sized - tally'.popped = tally.sized - (tally.popped + 1)
        BY <2>8, <2>10, <4>1
      <4> QED
        BY <4>2, <4>3
    <3> QED
      BY <3>2, <3>3, <3>4
  <2>13. NoOverread'
    BY <1>1, <2>5 DEF NoOverread
  <2> QED
    BY <2>7, <2>8, <2>9, <2>11, <2>12, <2>13 DEF SizesInv
<1>6. CASE ExecuteReceiverReset
  <2>1. Head(pipe) \in Requests /\ Head(pipe).op = "RRES"
    BY <1>0, <1>6 DEF ExecuteReceiverReset, Executing
  <2> QED
    BY <2>1 DEF Requests
<1>7. CASE RxPacket
  <2>1. pipe' \in Seq(Requests) /\ Chain(pipe', tally.popped, tally.issued)
    BY <1>0, <1>1, <1>7, SendFacts DEF RxPacket
  <2> QED
    BY <1>0, <1>1, <1>7, <2>1
    DEF RxPacket, SizesInv, RegisterTypes, SizesLeft, SizeReadsTracked, CountsTrue, NoOverread
<1>8. CASE CompleteFrameCount
  <2> DEFINE head == Head(responses)
             fresh == Fresh(head.value)
  <2>1. /\ UNCHANGED <<wire, sizeFifo, pipe, pending_frame_size_reads, tally, overread, bound>>
        /\ responses # <<>> /\ head.op = "FIFO_FC" /\ responses' = Tail(responses)
        /\ to_send' = [to_send EXCEPT !.sizes = fresh]
    BY <1>8 DEF CompleteFrameCount, Completing, adapterVars
  <2>2. /\ head \in Answers /\ Before(head) = tally.completed
        /\ responses' \in Seq(Answers) /\ Chain(responses', head.nth, tally.popped)
        /\ Len(responses') = Len(responses) - 1
        /\ \A i \in 1..Len(responses') : responses'[i] = responses[i + 1]
    BY <1>0, <1>1, <2>1, CompleteFacts
  <2>3. head.value \in Nat /\ head.nth = tally.completed
    BY <2>1, <2>2 DEF Answers, Before
  <2>4. head.value + tally.completed <= tally.sized
    <3>1. 1 \in 1..Len(responses) /\ head = responses[1]
      BY <1>0, <2>1
    <3> QED
      BY <1>1, <2>1, <2>3, <3>1 DEF CountsTrue
  <2>5. fresh \in Nat /\ (fresh = 0 \/ fresh = head.value - pending_frame_size_reads)
    BY <1>a, <2>3 DEF Fresh
  <2> HIDE DEF fresh, head
  <2>6. to_send' \in Unsent /\ to_send'.sizes = fresh
    BY <1>0, <2>1, <2>5 DEF Unsent
  <2>7. SizesLeft'
    <3>1. tally.issued + fresh <= tally.sized
      <4>1. CASE fresh = 0
        BY <1>a, <1>d, <4>1
      <4>2. CASE fresh = head.value - pending_frame_size_reads
        BY <1>a, <1>d, <2>3, <2>4, <4>2
      <4> QED
        BY <2>5, <4>1, <4>2
    <3> QED
      BY <2>1, <2>6, <3>1 DEF SizesLeft
  <2>8. SizeReadsTracked' /\ NoOverread'
    BY <1>1, <2>1 DEF SizeReadsTracked, NoOverread
  <2>9. CountsTrue'
    <3> SUFFICES ASSUME NEW i \in 1..Len(responses'), responses'[i].op = "FIFO_FC"
                 PROVE  responses'[i].value + responses'[i].nth <= tally'.sized
      BY DEF CountsTrue
    <3>1. i + 1 \in 1..Len(responses) /\ responses'[i] = responses[i + 1]
      BY <1>0, <2>2
    <3> QED
      BY <1>1, <2>1, <3>1 DEF CountsTrue
  <2>10. RegisterTypes'
    BY <1>0, <2>1, <2>2, <2>6 DEF RegisterTypes
  <2> QED
    BY <1>1, <2>1, <2>2, <2>3, <2>7, <2>8, <2>9, <2>10 DEF SizesInv
<1>17. CASE SendSizeRead
  <2> DEFINE r == [op |-> "BC_FIFO_L", nth |-> tally.issued + 1]
  <2>1. /\ UNCHANGED <<wire, sizeFifo, responses, overread, bound>>
        /\ to_send.sizes > 0 /\ to_send' = [to_send EXCEPT !.sizes = @ - 1]
        /\ pipe' = Append(pipe, r)
        /\ pending_frame_size_reads' = pending_frame_size_reads + 1
        /\ tally' = [tally EXCEPT !.issued = @ + 1]
    BY <1>17 DEF SendSizeRead, adapterVars
  <2>2. /\ tally' \in Tallies
        /\ tally'.sized = tally.sized /\ tally'.issued = tally.issued + 1
        /\ tally'.popped = tally.popped /\ tally'.completed = tally.completed
    <3>1. tally' = [tally EXCEPT !.issued = tally.issued + 1]
      BY <2>1, Zenon
    <3>2. tally.issued + 1 \in Nat
      BY <1>a
    <3> QED
      BY <1>b, <3>1, <3>2 DEF Tallies
  <2>3. pipe' \in Seq(Requests) /\ Chain(pipe', tally.popped, tally.issued + 1)
    <3>1. \A x \in Requests : x.nth \in Nat
      BY DEF Requests
    <3>2. r \in Requests /\ Before(r) = tally.issued /\ r.nth = tally.issued + 1
      BY <1>a DEF Requests, Before
    <3> HIDE DEF r
    <3>3. Chain(Append(pipe, r), tally.popped, r.nth)
      BY <1>0, <1>1, <1>a, <3>1, <3>2, ChainAppend
    <3> QED
      BY <1>0, <2>1, <3>2, <3>3
  <2>4. to_send' \in Unsent /\ to_send'.sizes = to_send.sizes - 1
    <3>1. to_send' = [to_send EXCEPT !.sizes = to_send.sizes - 1]
      BY <2>1, Zenon
    <3>2. to_send.sizes - 1 \in Nat
      BY <1>e, <2>1
    <3> QED
      BY <1>0, <3>1, <3>2 DEF Unsent
  <2>5. SizesLeft' /\ SizeReadsTracked'
    <3>1. SizesLeft'
      BY <1>a, <1>e, <1>d, <2>2, <2>4 DEF SizesLeft
    <3>2. pending_frame_size_reads' = pending_frame_size_reads + 1 /\ bound' = bound
      BY <2>1
    <3> QED
      BY <1>a, <1>d, <1>e, <2>2, <3>1, <3>2 DEF SizeReadsTracked
  <2>6. CountsTrue' /\ NoOverread'
    BY <1>1, <2>1, <2>2 DEF CountsTrue, NoOverread
  <2>7. pending_frame_size_reads' \in Nat
    BY <1>a, <2>1
  <2>8. RegisterTypes'
    BY <1>0, <2>1, <2>2, <2>3, <2>4, <2>7 DEF RegisterTypes
  <2> QED
    BY <1>1, <2>1, <2>2, <2>3, <2>5, <2>6, <2>8 DEF SizesInv
<1>18. CASE SendCountRead
  <2>1. /\ UNCHANGED <<wire, sizeFifo, responses, pending_frame_size_reads, tally, overread, bound>>
        /\ Send("FIFO_FC") /\ to_send' = [to_send EXCEPT !.count = FALSE]
    BY <1>18 DEF SendCountRead, adapterVars
  <2>2. pipe' \in Seq(Requests) /\ Chain(pipe', tally.popped, tally.issued)
    BY <1>0, <1>1, <2>1, SendFacts
  <2>3. to_send' \in Unsent /\ to_send'.sizes = to_send.sizes
    BY <1>0, <2>1 DEF Unsent
  <2> QED
    BY <1>0, <1>1, <2>1, <2>2, <2>3
    DEF SizesInv, RegisterTypes, SizesLeft, SizeReadsTracked, CountsTrue, NoOverread
<1>9. CASE CompleteFrameSize
  <2>1. /\ UNCHANGED <<wire, sizeFifo, overread, bound>>
        /\ responses # <<>> /\ Head(responses).op = "BC_FIFO_L" /\ responses' = Tail(responses)
        /\ pending_frame_size_reads' = CountDown(pending_frame_size_reads)
        /\ to_send' = [to_send EXCEPT !.count = TRUE] /\ pipe' = pipe
        /\ tally' = [tally EXCEPT !.completed = @ + 1]
    BY <1>9 DEF CompleteFrameSize, Completing, adapterVars
  <2>2. to_send' \in Unsent /\ to_send'.sizes = to_send.sizes
    BY <1>0, <2>1 DEF Unsent
  <2>3. /\ Head(responses) \in Answers /\ Before(Head(responses)) = tally.completed
        /\ responses' \in Seq(Answers) /\ Chain(responses', Head(responses).nth, tally.popped)
        /\ Len(responses') = Len(responses) - 1
        /\ \A i \in 1..Len(responses') : responses'[i] = responses[i + 1]
    BY <1>0, <1>1, <2>1, CompleteFacts
  <2>4. Head(responses).nth = tally.completed + 1
    BY <1>a, <2>1, <2>3, SMTT(30) DEF Answers, Before
  <2>5. /\ tally' \in Tallies
        /\ tally'.sized = tally.sized /\ tally'.issued = tally.issued
        /\ tally'.popped = tally.popped /\ tally'.completed = tally.completed + 1
    <3>1. tally' = [tally EXCEPT !.completed = tally.completed + 1] /\ tally.completed + 1 \in Nat
      BY <1>a, <2>1, SMTT(30)
    <3> QED
      BY <1>b, <3>1 DEF Tallies
  <2>9. tally.completed + 1 <= tally.issued
    <3>1. Head(responses).nth <= tally.popped /\ tally.popped <= tally.issued
      <4>1. (\A x \in Requests : x.nth \in Nat) /\ \A x \in Answers : x.nth \in Nat
        BY DEF Requests, Answers
      <4>2. Head(responses).nth <= tally.popped
        BY <1>0, <1>1, <1>a, <2>1, <4>1, ChainTail
      <4>3. tally.popped <= tally.issued
        <5>1. CASE pipe = <<>>
          BY <1>1, <1>a, <5>1 DEF Chain
        <5>2. CASE pipe # <<>>
          <6>1. Before(Head(pipe)) = tally.popped /\ Head(pipe).nth <= tally.issued
            BY <1>0, <1>1, <1>a, <4>1, <5>2, ChainTail
          <6>2. Head(pipe) \in Requests
            BY <1>0, <5>2
          <6> QED
            BY <1>a, <6>1, <6>2 DEF Before, Requests
        <5> QED
          BY <5>1, <5>2
      <4> QED
        BY <4>2, <4>3
    <3> QED
      BY <1>a, <2>4, <3>1
  <2>6. SizesLeft' /\ SizeReadsTracked' /\ NoOverread' /\ pending_frame_size_reads' \in Nat
    <3>1. pending_frame_size_reads' = pending_frame_size_reads - 1 /\ pending_frame_size_reads > 0
      BY <1>a, <1>d, <2>1, <2>9 DEF CountDown
    <3>2. NoOverread' /\ SizesLeft'
      BY <1>1, <2>1, <2>2, <2>5 DEF NoOverread, SizesLeft
    <3>3. bound' = bound
      BY <2>1
    <3> QED
      <4>0. tally.completed >= tally.completed /\ tally.completed <= tally.completed + 1
        BY <1>a
      <4>1. /\ tally.issued - (tally.completed + 1) <= pending_frame_size_reads - 1
            /\ pending_frame_size_reads - 1
                  <= (tally.issued - (tally.completed + 1)) + bound.failures
        BY <1>a, <1>d, <1>e, <4>0, TrackedArithmetic
      <4>2. SizeReadsTracked'
        BY <3>1, <3>3, <2>5, <4>1 DEF SizeReadsTracked
      <4> QED
        BY <1>a, <3>1, <3>2, <4>2
  <2>7. CountsTrue'
    <3> SUFFICES ASSUME NEW i \in 1..Len(responses'), responses'[i].op = "FIFO_FC"
                 PROVE  responses'[i].value + responses'[i].nth <= tally'.sized
      BY DEF CountsTrue
    <3>1. i + 1 \in 1..Len(responses) /\ responses'[i] = responses[i + 1]
      BY <1>0, <2>3
    <3> QED
      BY <1>1, <2>5, <3>1 DEF CountsTrue
  <2>8. RegisterTypes'
    BY <1>0, <2>1, <2>2, <2>3, <2>5, <2>6 DEF RegisterTypes
  <2> QED
    BY <1>0, <1>1, <2>1, <2>2, <2>3, <2>4, <2>5, <2>6, <2>7, <2>8 DEF SizesInv
<1>10. CASE CompleteWithError
  <2>1. /\ UNCHANGED <<wire, sizeFifo, overread, pipe, to_send, pending_frame_size_reads>>
        /\ responses # <<>> /\ responses' = Tail(responses)
        /\ tally' = IF Head(responses).op = "BC_FIFO_L"
                    THEN [tally EXCEPT !.completed = @ + 1] ELSE tally
        /\ bound' \in [purges : Nat, failures : Nat] /\ bound'.failures = bound.failures + 1
    <3>1. bound' = [bound EXCEPT !.failures = @ + 1]
      BY <1>10 DEF CompleteWithError
    <3>2. bound \in [purges : Nat, failures : Nat]
      BY <1>0
    <3>3. bound' \in [purges : Nat, failures : Nat] /\ bound'.failures = bound.failures + 1
      BY <3>1, <3>2
    <3> QED
      BY <1>10, <3>3 DEF CompleteWithError, adapterVars
  <2>2. /\ Head(responses) \in Answers /\ Before(Head(responses)) = tally.completed
        /\ responses' \in Seq(Answers) /\ Chain(responses', Head(responses).nth, tally.popped)
        /\ Len(responses') = Len(responses) - 1
        /\ \A i \in 1..Len(responses') : responses'[i] = responses[i + 1]
    BY <1>0, <1>1, <2>1, CompleteFacts
  <2>3. /\ tally' \in Tallies
        /\ tally'.sized = tally.sized /\ tally'.issued = tally.issued
        /\ tally'.popped = tally.popped
        /\ tally'.completed = Head(responses).nth /\ tally'.completed >= tally.completed
        /\ tally'.completed <= tally.completed + 1
        /\ tally'.completed \in Nat
    <3>1. Head(responses).nth \in Nat /\ Head(responses).op \in {"FIFO_FC", "BC_FIFO_L"}
      BY <2>2 DEF Answers
    <3>2. CASE Head(responses).op = "BC_FIFO_L"
      <4>1. Head(responses).nth = tally.completed + 1
        BY <1>a, <2>2, <3>1, <3>2 DEF Before
      <4>2. tally' = [tally EXCEPT !.completed = tally.completed + 1]
            /\ tally.completed + 1 \in Nat
        <5>1. tally' = [tally EXCEPT !.completed = tally.completed + 1]
          BY <2>1, <3>2, Zenon
        <5>2. tally.completed + 1 \in Nat
          BY <1>a
        <5> QED
          BY <5>1, <5>2
      <4>3. /\ tally' \in Tallies
            /\ tally'.sized = tally.sized /\ tally'.issued = tally.issued
            /\ tally'.popped = tally.popped /\ tally'.completed = tally.completed + 1
        BY <1>b, <4>2 DEF Tallies
      <4> QED
        BY <1>a, <4>1, <4>3
    <3>3. CASE Head(responses).op # "BC_FIFO_L"
      BY <1>a, <1>b, <2>1, <2>2, <3>1, <3>3 DEF Before
    <3> QED
      BY <3>2, <3>3
  <2>4. SizesLeft' /\ SizeReadsTracked' /\ NoOverread'
    <3>1. pending_frame_size_reads' = pending_frame_size_reads
          /\ bound'.failures = bound.failures + 1
      BY <2>1
    <3>2. NoOverread' /\ SizesLeft'
      BY <1>1, <2>1, <2>3 DEF NoOverread, SizesLeft
    <3> QED
      <4> DEFINE c == tally'.completed
      <4>2. c \in Nat /\ c >= tally.completed /\ c <= tally.completed + 1
        BY <2>3
      <4> HIDE DEF c
      <4>1. /\ tally.issued - c <= pending_frame_size_reads
            /\ pending_frame_size_reads <= (tally.issued - c) + (bound.failures + 1)
        BY <1>a, <1>d, <1>e, <4>2, TrackedArithmetic
      <4>3. SizeReadsTracked'
        BY <3>1, <2>3, <4>1 DEF SizeReadsTracked, c
      <4> QED
        BY <3>2, <4>3
  <2>5. CountsTrue'
    <3> SUFFICES ASSUME NEW i \in 1..Len(responses'), responses'[i].op = "FIFO_FC"
                 PROVE  responses'[i].value + responses'[i].nth <= tally'.sized
      BY DEF CountsTrue
    <3>1. i + 1 \in 1..Len(responses) /\ responses'[i] = responses[i + 1]
      BY <1>0, <2>2
    <3> QED
      BY <1>1, <2>3, <3>1 DEF CountsTrue
  <2>6. RegisterTypes'
    BY <1>0, <2>1, <2>2, <2>3 DEF RegisterTypes
  <2> QED
    BY <1>1, <2>1, <2>2, <2>3, <2>4, <2>5, <2>6 DEF SizesInv
<1>11. CASE PurgeReset
  <2>1. bound.purges \in Nat /\ bound.purges < 0
    BY <1>0, <1>11 DEF PurgeReset
  <2> QED
    BY <2>1
<1>12. CASE RxStep
  BY <1>2, <1>12 DEF RxStep, RxUsageQueued, RxUsageStream, RxUsagePending, RxTrim, RxAdd,
                     RxUnchanged, adapterVars
<1>13. CASE Timer \/ IframeWorker
  BY <1>2, <1>13 DEF Timer, IframeWorker, IframeStart, IframeLoop, IframeEnd, adapterVars
<1>14. CASE \/ SyncComEvtIoRead
            \/ \E d \in ReadDpcs : ReadStart(d) \/ SynccomProcessRead(d)
  BY <1>2, <1>14 DEF SyncComEvtIoRead, ReadStart, SynccomProcessRead, ReadCheck, ReadRetrieve,
                     StreamRead, FrameReadTake, FrameReadEnd, ReadUnchanged, adapterVars
<1>15. CASE PurgeStep
  BY <1>2, <1>15 DEF PurgeStep, PurgeQueued, PurgeStream, PurgePending, PurgeCancel, PurgeDrain,
                     PurgeUnchanged, adapterVars, registerVars
<1>16. CASE UNCHANGED vars
  BY <1>2, <1>16 DEF vars, adapterVars
<1> QED
  BY <1>3, <1>4, <1>5, <1>6, <1>7, <1>8, <1>9, <1>10, <1>11, <1>12, <1>13, <1>14, <1>15, <1>16,
     <1>17, <1>18
  DEF Next, Adapter, RegisterCompletion, SendRead

\* Without PURGE_RX the frame-size FIFO is never read while it is empty, for
\* any frames, packets, failures and order of completions of register_completion.
THEOREM NeverOverread == ASSUME MaxPurges = 0 PROVE Spec => []NoOverread
<1>1. Init => SizesInv
  BY SizesInit
<1>2. SizesInv /\ [Next]_vars => SizesInv'
  BY SizesStep, RxAssumption
<1>3. SizesInv => NoOverread
  BY DEF SizesInv
<1> QED
  BY <1>1, <1>2, <1>3, PTL DEF Spec

\* Without PURGE_RX the count of pending size reads is never below the size
\* reads on their way, and above them by no more than the reads that failed.
THEOREM SizeReadsCounted == ASSUME MaxPurges = 0 PROVE Spec => []SizeReadsTracked
<1>1. Init => SizesInv
  BY SizesInit
<1>2. SizesInv /\ [Next]_vars => SizesInv'
  BY SizesStep, RxAssumption
<1>3. SizesInv => SizeReadsTracked
  BY DEF SizesInv
<1> QED
  BY <1>1, <1>2, <1>3, PTL DEF Spec

=============================================================================
