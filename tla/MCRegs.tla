------------------------------- MODULE MCRegs -------------------------------
(* Instances of SynccomRegs for TLC.  CCR1 is at 32, the address FCR has on  *)
(* its own page.                                                             *)
EXTENDS SynccomRegs

CCR1 == 32

Slots == {CMDR_OFFSET, CCR1, FCR_SLOT}
Defaults == {CCR1, FCR_SLOT}
SetSome == {{CMDR_OFFSET, CCR1}, {FCR_SLOT}}
GetSome == {CCR1, FCR_SLOT}
OldAndNew == {271, 272}

=============================================================================
