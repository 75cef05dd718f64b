-------------------------------- MODULE MCRx --------------------------------
(* Instances of SynccomRx for TLC: the lengths of the frames of the wire, a  *)
(* constraint, and a claim that does not hold.                               *)
EXTENDS SynccomRx

Lengths1  == <<1>>
Lengths11 == <<1, 1>>
Lengths112 == <<1, 1, 2>>
Lengths111 == <<1, 1, 1>>
Lengths21 == <<2, 1>>
Lengths32 == <<3, 2>>
Lengths16 == <<1, 6>>

\* The adapter answers register commands before many more are sent, its data is
\* fetched before much has gathered, and either a size read fails or the
\* application reads.
Prompt ==
    /\ Len(pipe) + Len(responses) <= 2
    /\ Len(dataFifo) + Len(rx.packet) <= 3
    /\ bound.failures + Len(reads) <= 1

\* The estimate of pending_iframes is unsigned: it never falls below zero
\* (ChangeLog.md: "Fixed an integer overflow when receiving data").
UsageNeverWraps == pending_iframes.estimated_memory_usage >= 0

=============================================================================
