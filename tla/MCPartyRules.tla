---------------------------- MODULE MCPartyRules ----------------------------
(* An instance of PartyRules for TLC. *)
EXTENDS PartyRules, TLC

\* Ids are only compared.
Symmetry == Permutations(Users) \cup Permutations(Parties) \cup Permutations(Requests)
=============================================================================
