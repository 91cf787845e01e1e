------------------------------- MODULE MCPipe -------------------------------
(* Instances of Pipe for TLC. *)
EXTENDS Pipe, TLC

CONSTANT MaxCount  \* the longest read or write

ByteDef == {0, 1}

\* Nothing, less than the capacity, and more than the capacity.
FifoInputs == {<<>>, <<1>>, <<1, 0, 0>>}

\* Every length, for the run that does not look at the bytes.
ZeroInputs == {[i \in 1 .. n |-> 0] : n \in 0 .. MaxCount}
=============================================================================
