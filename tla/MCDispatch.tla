----------------------------- MODULE MCDispatch -----------------------------
(* Instances of Dispatch for TLC. *)
EXTENDS Dispatch

CONSTANTS o1, n1

RoomForOne == [n \in Nodes |-> 1]

=============================================================================
