----------------------------- MODULE MCLifecycle -----------------------------
(* Instances of Lifecycle for TLC. *)
EXTENDS Lifecycle, TLC

CONSTANTS o1, n1

RoomForTwo == [n \in Nodes |-> 2]

\* Every report the Store's validation lets through.
AllReports == Report

=============================================================================
