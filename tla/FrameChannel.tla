---------------------------- MODULE FrameChannel ----------------------------
(* What each direction of the driver promises of the frames it carries when  *)
(* none is dropped and nothing is purged: they leave whole, in the order in  *)
(* which they entered, each once, and none leaves before all of it entered.  *)
(* Receiving, a frame enters when its last byte arrives on the wire and      *)
(* leaves into a read; sending, it enters when its write is accepted and     *)
(* leaves when the adapter transmits it.                                     *)
EXTENDS Naturals, Sequences

CONSTANT Contents   \* what a frame may hold

VARIABLES entered, left

Init == entered = <<>> /\ left = <<>>

Enter ==
    /\ \E frame \in Contents : entered' = Append(entered, frame)
    /\ UNCHANGED left

Leave ==
    /\ Len(left) < Len(entered)
    /\ left' = Append(left, entered[Len(left) + 1])
    /\ UNCHANGED entered

Next == Enter \/ Leave

Spec == Init /\ [][Next]_<<entered, left>>

\* The frames that left are the first ones that entered.
Delivered == /\ Len(left) <= Len(entered)
             /\ \A k \in DOMAIN left : left[k] = entered[k]

=============================================================================
