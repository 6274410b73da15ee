------------------------------- MODULE MCParty -------------------------------
(* Instances of Party for TLC. *)
EXTENDS Party, TLC

CONSTANTS u1, u2

\* Everybody does everything that touches places, invites and sizes.
PlacesOps ==
  [u \in Users \cup {None} |->
     {"configure", "create", "reset", "join", "leave", "remove", "disband", "request", "cancel"}]

\* u1 leads, u2 joins or asks for a server alone; requests go their way.
LocksOps ==
  [u \in Users \cup {None} |->
     CASE u = u1 -> {"create", "disband", "request", "stop", "abandon"}
       [] u = u2 -> {"join", "request"}
       [] OTHER  -> {"configure", "progress"}]

\* The paths that come to a request and its owner from different sides.
CancelOps ==
  [u \in Users \cup {None} |-> {"request", "cancel", "stop", "progress"}]

\* Ids are only compared.
Interchangeable == Permutations(Parties) \cup Permutations(Requests) \cup Permutations(Sessions)
Symmetry == Permutations(Users) \cup Interchangeable
=============================================================================
