--------------------------- MODULE MCContentSwitch ---------------------------
(* Three releases of a map, two contents, two processes and two faults. *)
EXTENDS ContentSwitch
CONSTANTS v1, v2, v3, c1, c2, t1, t2
=============================================================================
