------------------------------ MODULE MCDevice ------------------------------
(* Instances of SynccomDevice for TLC. *)
EXTENDS SynccomDevice

Nothing == [s \in Settings |-> Missing]
Values == [s \in Settings |-> CASE s = "MAX_WRITES" -> 40 [] s = "TX_MODIFIERS" -> 6 [] OTHER -> 16]
Numbers == {-1, 2}
Stocked == {Nothing, Values}

=============================================================================
