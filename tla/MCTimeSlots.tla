---------------------------- MODULE MCTimeSlots ----------------------------
(***************************************************************************)
(* TimeSlots with few nodes and short slots.                               *)
(***************************************************************************)
EXTENDS TimeSlots, TLC

CONSTANTS m0, s1, s2

OneSlave  == {s1}
TwoSlaves == {s1, s2}

(* All clocks are right, or the slave's is one unit ahead. *)
SameClocks == [n \in Nodes |-> 0]
SlaveAhead == [n \in Nodes |-> IF n = s1 THEN 1 ELSE 0]

=============================================================================
