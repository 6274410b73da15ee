----------------------------- MODULE Admission -----------------------------
(***************************************************************************)
(* The allocation pass of the serve loop, statement by statement, over the *)
(* rows of Lifecycle.                                                      *)
(*                                                                         *)
(* A pass is one transaction at READ COMMITTED: it locks the requests that *)
(* wait, takes them in turn and reads, for each one anew, the switches and *)
(* the occupancy of its nodes.  Other transactions commit between those    *)
(* reads wherever the pass does not hold a row they need; in particular a  *)
(* pending attempt can be terminated, which gives a place back behind the  *)
(* pass.  Every step here is a step of Lifecycle or changes none of its    *)
(* variables.                                                              *)
(***************************************************************************)
EXTENDS Lifecycle

CONSTANT Priority   \* Priority[n]: rank of n for automatic selection, ties broken

ASSUME AdmissionAssumption ==
  /\ Priority \in [Nodes -> Int]
  /\ \A m, n \in Nodes : Priority[m] = Priority[n] => m = n

VARIABLE pass   \* the transaction of the pass that is under way, NoPass if none

\* left: requests still to come, the current one included; passed: requests no
\* node could serve; seen: nodes of the current request found unavailable;
\* freed (history): nodes found unavailable that lost an attempt since.
NoPass == [left |-> {}, passed |-> {}, seen |-> {}, freed |-> {}]

admissionVars == <<vars, pass>>

-----------------------------------------------------------------------------
(* What the pass has read and what it holds until it ends. *)

UnderWay == pass.left # {}

\* ORDER BY requested_at, id.
Current(r) == r \in pass.left /\ \A q \in pass.left : r <= q

\* The nodes whose occupancy the pass has counted.
Counted ==
  IF catalog = "open" THEN pass.seen \cup (UNION {Candidates(q) : q \in pass.passed})
                      ELSE {}

\* SELECT ... FROM server_requests WHERE state='waiting' ... FOR UPDATE
LockedRequests == pass.left \cup pass.passed

\* FOR SHARE OF s, g, p: from the first request on.
CatalogLocked == pass.passed \cup pass.seen # {}

\* Faulty: gives the nodes of a request back before the next one.
LockedNodesOfCurrent == pass.seen

\* SELECT ... FROM nodes ... FOR UPDATE: all nodes of a request before the first
\* of them is counted.
LockedNodes ==
  Counted \cup {n \in Nodes : pass.seen # {} /\ \E r \in pass.left :
                                Current(r) /\ n \in Candidates(r)}

\* A node that a transaction about attempt a, or about what request r occupies,
\* locks or refers to.
NodeFree(a)    == allocations[a].node \notin LockedNodes
ServerFree(r)  == \A a \in Attempts(r) : Occupying(a) => NodeFree(a)

-----------------------------------------------------------------------------
(* The pass. *)

\* The advisory lock keeps passes apart.
BeginPass ==
  /\ ~UnderWay
  /\ \E r \in RequestIds : requests[r].state = "waiting"
  /\ pass' = [NoPass EXCEPT !.left = {r \in RequestIds : requests[r].state = "waiting"}]
  /\ UNCHANGED vars

\* No node serves r: the next request, or the end of the pass.
PassOver(r) ==
  pass' = IF pass.left = {r} THEN NoPass
          ELSE [pass EXCEPT !.left = @ \ {r}, !.passed = @ \cup {r}, !.seen = {}]

GiveUpInTurn(r) ==
  /\ Current(r)
  /\ GiveUp(r)
  /\ pass' = NoPass

SkipClosed(r) ==
  /\ Current(r)
  /\ catalog = "closed"
  /\ PassOver(r)
  /\ UNCHANGED vars

\* ORDER BY priority DESC: the node to look at next.
Nearest(r, n) ==
  /\ Current(r)
  /\ catalog = "open"
  /\ n \in Candidates(r) \ pass.seen
  /\ \A m \in Candidates(r) \ pass.seen : Priority[m] <= Priority[n]

FindUnavailable(r, n) ==
  /\ Nearest(r, n)
  /\ ~Available(n)
  /\ IF Candidates(r) \ pass.seen = {n} THEN PassOver(r)
                                        ELSE pass' = [pass EXCEPT !.seen = @ \cup {n}]
  /\ UNCHANGED vars

ReserveInTurn(r, n) ==
  /\ Nearest(r, n)
  /\ Reserve(r, n)
  /\ pass' = NoPass

\* The five seconds of a cycle are over, or a statement has failed.
AbortPass ==
  /\ UnderWay
  /\ pass' = NoPass
  /\ UNCHANGED vars

-----------------------------------------------------------------------------
(* Everything else, as far as the locks of the pass let it. *)

\* The attempt's own rows are all it locks, not the node.
TerminateBehind(a) ==
  /\ TerminatePending(a)
  /\ pass' = [pass EXCEPT !.freed = @ \cup ({allocations[a].node} \cap Counted)]

OnRequests ==
  \/ \E o \in Owners, t \in (Nodes \cup {AnyNode}) \ LockedNodes : CreateUserRequest(o, t)
  \/ \E r \in RequestIds :
       \/ r \notin LockedRequests /\ CancelUserRequest(r)
       \/ /\ ServerFree(r)
          /\ \/ \E next \in BOOLEAN : StopUserRequest(r, next)
             \/ AdminStopRequest(r)
       \/ /\ intents[r] \in {"pending", "paused"} => requests[r].target \notin LockedNodes
          /\ AbandonQuarantinedUserRequest(r)

\* Claims, operation starts, reports and facts lock the row of their node.
OnAttempts ==
  \E a \in AllocationIds :
    \/ /\ NodeFree(a)
       /\ \/ ClaimCreate(a) \/ ClaimStop(a)
          \/ BeginCreate(a) \/ BeginStop(a)
          \/ \E rep \in Reports : ReportCreate(a, rep) \/ ReportStop(a, rep)
          \/ ReportInstanceFact(a)
    \/ PrepareCreate(a)
    \/ MarkAllocationQuarantined(a) \/ QuarantineOneUnreachable(a)

\* A heartbeat that stays away needs no lock.
OnNodes ==
  \/ \E n \in Nodes \ LockedNodes : \/ Heartbeat(n)
                                    \/ \E g \in Gates : SetGate(n, g)
                                    \/ \E d \in Desires : SetDesiredCapacity(n, d)
  \/ \E n \in Nodes : Lapse(n)
  \/ ~CatalogLocked /\ \E c \in Catalogs : SetCatalog(c)

-----------------------------------------------------------------------------
AdmissionInit == Init /\ pass = NoPass

PassStep ==
  \/ BeginPass \/ AbortPass
  \/ \E r \in RequestIds :
       \/ GiveUpInTurn(r) \/ SkipClosed(r)
       \/ \E n \in Nodes : FindUnavailable(r, n) \/ ReserveInTurn(r, n)

AdmissionNext ==
  \/ PassStep
  \/ \E a \in AllocationIds : TerminateBehind(a)
  \/ (OnRequests \/ OnAttempts \/ OnNodes) /\ UNCHANGED pass

AdmissionSpec == AdmissionInit /\ [][AdmissionNext]_admissionVars

-----------------------------------------------------------------------------
(* Properties. *)

\* A pass reserves a place only within the capacity the administrator set.  It
\* never takes it from an older request that waited when the pass began, nor
\* from a better node, with one exception: the place was given back by an
\* administrator who terminated a pending attempt after the pass had counted
\* that node as full.  Capacity raised, drains lifted, heartbeats and reports
\* that come in behind the pass would be others, if it did not hold the nodes.
AdmittedInTurn ==
  [][\A a \in AllocationIds, n \in Nodes, r \in RequestIds :
       /\ allocations[a].state = "none"
       /\ allocations'[a].node = n /\ allocations'[a].request = r
       => /\ Cardinality(Occupants(n)') <= nodes[n].desired
          /\ \A q \in LockedRequests : q < r /\ n \in Candidates(q) => n \in pass.freed
          /\ \A m \in Candidates(r) :
               Available(m) /\ Priority[m] > Priority[n] => m \in pass.freed
    ]_admissionVars

=============================================================================
