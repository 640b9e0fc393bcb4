-------------------------- MODULE MCSlotGeneration --------------------------
(***************************************************************************)
(* One artist of a branch that opens for two hours.                         *)
(***************************************************************************)
EXTENDS SlotGeneration

TwoHours == {<<1, 3>>}

WorksTwo == [a \in Artist |-> 2]

=============================================================================
