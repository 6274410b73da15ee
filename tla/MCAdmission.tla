----------------------------- MODULE MCAdmission -----------------------------
(* Instances of Admission for TLC. *)
EXTENDS Admission, TLC

CONSTANTS o1, o2, o3, n1, n2

RoomForOne == [n \in Nodes |-> 1]
FirstFirst == [n \in Nodes |-> IF n = n1 THEN 2 ELSE 1]

\* Only reports of creates that never had an effect: they free a place and send
\* the request back to waiting.
Rejections == {rep \in Report : rep.state = "rejected_no_effect" /\ ~rep.untrusted}

OwnerSymmetry == Permutations(Owners)

=============================================================================
