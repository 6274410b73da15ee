------------------------------- MODULE Server -------------------------------
(***************************************************************************)
(* What the Platform and the Controllers promise together about the        *)
(* servers of the attempts, in four sentences, one per action.  It is the  *)
(* specification Dispatch implements.                                      *)
(***************************************************************************)
CONSTANT Plays      \* attempts ever made

VARIABLES
  held,     \* held[p]: does p count against the capacity of its node
  server    \* server[p]: the one server p may have

vars == <<held, server>>

Init == /\ held = [p \in Plays |-> "free"]
        /\ server = [p \in Plays |-> "none"]

\* Capacity is set aside before anything is started,
Hold(p) == /\ held[p] = "free"
           /\ held' = [held EXCEPT ![p] = "held"]
           /\ UNCHANGED server

\* a server starts only while its capacity is held, and only once,
Start(p) == /\ held[p] = "held" /\ server[p] = "none"
            /\ server' = [server EXCEPT ![p] = "live"]
            /\ UNCHANGED held

\* it ends for good,
End(p) == /\ server[p] = "live"
          /\ server' = [server EXCEPT ![p] = "gone"]
          /\ UNCHANGED held

\* and capacity is given back only when no server lives, for ever.
Release(p) == /\ held[p] = "held" /\ server[p] # "live"
              /\ held' = [held EXCEPT ![p] = "released"]
              /\ UNCHANGED server

Next == \E p \in Plays : Hold(p) \/ Start(p) \/ End(p) \/ Release(p)

Spec == Init /\ [][Next]_vars

\* No server lives on a node that does not count it.
NoStrayServer == \A p \in Plays : server[p] = "live" => held[p] = "held"

=============================================================================
