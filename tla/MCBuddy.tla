------------------------------- MODULE MCBuddy -------------------------------
(* An instance of Buddy for TLC. *)
EXTENDS Buddy

ShiftDef == [o \in 0 .. order_max |-> 2 ^ o]
=============================================================================
