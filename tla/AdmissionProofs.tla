-------------------------- MODULE AdmissionProofs --------------------------
(* Proofs about Admission: a pass taken statement by statement commits what *)
(* Lifecycle allows, and serves in turn except where an administrator has   *)
(* given a place back behind it.                                            *)
EXTENDS Admission, HistoryProofs

-----------------------------------------------------------------------------
(* The steps. *)

\* What other transactions commit, whatever becomes of the pass: mostly steps
\* that heed its locks.
Heeding == OnRequests \/ OnAttempts \/ OnNodes

Others == Heeding \/ \E a \in AllocationIds : TerminatePending(a)

\* Each of them is a step of Lifecycle.
LEMMA OthersStep == ASSUME Others PROVE Next
<1>1. CASE OnRequests
  BY <1>1 DEF OnRequests, Next, Player, Administrator
<1>2. CASE OnAttempts
  BY <1>2 DEF OnAttempts, Next, Controller, Administrator, Platform
<1>3. CASE OnNodes
  BY <1>3 DEF OnNodes, Next, Administrator, Platform
<1>4. CASE \E a \in AllocationIds : TerminatePending(a)
  BY <1>4 DEF Next, Administrator
<1>5. QED
  BY <1>1, <1>2, <1>3, <1>4 DEF Others, Heeding

\* So is each step of a pass, if it commits anything.
LEMMA PassStepIsStep == ASSUME PassStep PROVE [Next]_vars
<1>1. TryAllocateOne => Next
  BY DEF Next, Platform
<1>2. QED
  BY <1>1 DEF PassStep, BeginPass, AbortPass, GiveUpInTurn, SkipClosed, FindUnavailable,
              ReserveInTurn, TryAllocateOne

\* And each step of the whole.
LEMMA StepIsStep == ASSUME [AdmissionNext]_admissionVars PROVE [Next]_vars
BY OthersStep, PassStepIsStep DEF AdmissionNext, Others, Heeding, TerminateBehind, admissionVars

\* Whatever other transactions do between its statements, what the passes commit
\* is what Lifecycle says, and so is every property proved of it.
THEOREM PassesCommitSteps == AdmissionSpec => Spec
<1>1. AdmissionInit => Init
  BY DEF AdmissionInit
<1>2. [AdmissionNext]_admissionVars => [Next]_vars
  BY StepIsStep
<1>3. QED
  BY <1>1, <1>2, PTL DEF AdmissionSpec, Spec

-----------------------------------------------------------------------------
(* What other transactions leave as the pass has read it. *)

\* An attempt on a locked node goes on occupying it.
LEMMA HeedingMove ==
  ASSUME Inv, Heeding
  PROVE  \/ UNCHANGED allocations
         \/ \E b \in AllocationIds, s \in OccupyingStates \cup Released :
              allocations' = AllocationTo(b, s) /\ (s \in OccupyingStates \/ NodeFree(b))
<1>1. /\ {"stopping", "creating", "create_unknown", "running", "quarantined",
          "failed_unreclaimed"} \subseteq OccupyingStates
      /\ {"reclaimed", "released_no_effect"} \subseteq Released
  BY DEF OccupyingStates, Starting, Released
<1>2. CASE OnRequests
  BY <1>1, <1>2 DEF OnRequests, CreateUserRequest, CancelUserRequest, StopUserRequest,
                    AdminStopRequest, AbandonQuarantinedUserRequest, Move, Attempts
<1>3. ASSUME NEW a \in AllocationIds, NodeFree(a),
             \/ ClaimCreate(a) \/ ClaimStop(a)
             \/ BeginCreate(a) \/ BeginStop(a)
             \/ \E rep \in Reports : ReportCreate(a, rep) \/ ReportStop(a, rep)
             \/ ReportInstanceFact(a)
      PROVE  UNCHANGED allocations \/ \E s \in OccupyingStates \cup Released :
                                        allocations' = AllocationTo(a, s)
  <2>1. CASE ClaimCreate(a) \/ ClaimStop(a)
    BY <2>1 DEF ClaimCreate, ClaimStop
  <2>2. ASSUME NEW rep, ReportCreate(a, rep)
        PROVE  UNCHANGED allocations \/ \E s \in OccupyingStates \cup Released :
                                          allocations' = AllocationTo(a, s)
    BY <1>1, <2>2 DEF ReportCreate, ApplyCreateReport, CreateFailed, Quarantined, Move
  <2>3. ASSUME NEW rep, ReportStop(a, rep)
        PROVE  UNCHANGED allocations \/ \E s \in OccupyingStates \cup Released :
                                          allocations' = AllocationTo(a, s)
    BY <1>1, <2>3 DEF ReportStop, ApplyStopReport, StopSucceeded, Quarantined, Move
  <2>4. CASE ReportInstanceFact(a)
    BY <1>1, <2>4 DEF ReportInstanceFact, ReclaimedFact, FailedFact, DriftedFact,
                      CreateFailed, Quarantined, Move
  <2>5. CASE BeginCreate(a) \/ BeginStop(a)
    BY <2>2, <2>3, <2>5 DEF BeginCreate, BeginStop
  <2>6. QED
    BY <1>3, <2>1, <2>2, <2>3, <2>4, <2>5
<1>4. ASSUME NEW a \in AllocationIds,
             PrepareCreate(a) \/ MarkAllocationQuarantined(a) \/ QuarantineOneUnreachable(a)
      PROVE  UNCHANGED allocations \/ \E s \in OccupyingStates : allocations' = AllocationTo(a, s)
  BY <1>1, <1>4 DEF PrepareCreate, MarkAllocationQuarantined, QuarantineOneUnreachable,
                    Quarantined, Move
<1>5. CASE OnAttempts
  BY <1>3, <1>4, <1>5 DEF OnAttempts
<1>6. CASE OnNodes
  BY <1>6 DEF OnNodes, Heartbeat, Lapse, SetGate, SetDesiredCapacity, SetCatalog
<1>7. QED
  BY <1>2, <1>5, <1>6 DEF Heeding

\* Every attempt stays where it is.
LEMMA OthersMoveNone ==
  ASSUME Inv, Others
  PROVE  \A a \in AllocationIds : /\ allocations'[a].request = allocations[a].request
                                  /\ allocations'[a].node = allocations[a].node
BY HeedingMove, AllocationToEffect DEF Others, TerminatePending, Move, Inv

\* No attempt of a waiting request is in flight.
LEMMA WaitingIsFree ==
  ASSUME Inv, NEW a \in AllocationIds, requests[allocations[a].request].state = "waiting"
  PROVE  ~Occupying(a)
<1>1. Occupying(a) => requests[allocations[a].request].state \in StatesFor(allocations[a].state)
  BY DEF Inv, RequestMirrorsAttempt
<1>2. QED
  BY <1>1, StatesDisjoint DEF Occupying, Blocking

\* A step about one attempt leaves a waiting request alone, unless the attempt is
\* one of its own, and then the attempt is released.
LEMMA StepOfLetsWait ==
  ASSUME Inv, NEW r \in RequestIds, requests[r].state = "waiting",
         NEW a \in AllocationIds, StepOf(a)
  PROVE  \/ requests'[r] = requests[r]
         \/ allocations[a].request = r /\ allocations[a].state \in Released
<1>1. CASE allocations[a].request # r
  BY <1>1 DEF StepOf, Touches
<1>2. CASE allocations[a].request = r
  BY <1>2, WaitingIsFree, AttemptFacts DEF StepOf, Occupying
<1>3. QED
  BY <1>1, <1>2

\* And then a report comes too late to change the request.
LEMMA ReportLetsWait ==
  ASSUME Inv, NEW r \in RequestIds, requests[r].state = "waiting",
         NEW a \in AllocationIds, NEW rep \in Report, ReportCreate(a, rep) \/ ReportStop(a, rep)
  PROVE  requests'[r] = requests[r]
<1>1. StepOf(a)
  BY ReportCreateStep, ReportStopStep
<1>2. CASE allocations[a].state \in Released
  BY <1>2 DEF ReportCreate, ApplyCreateReport, ReportStop, ApplyStopReport, TooLate
<1>3. QED
  BY <1>1, <1>2, StepOfLetsWait

\* As does every other step about an attempt.
LEMMA AttemptStepLetsWait ==
  ASSUME Inv, NEW r \in RequestIds, requests[r].state = "waiting", OnAttempts
  PROVE  requests'[r] = requests[r]
<1>1. Reports \subseteq Report
  BY LifecycleAssumption
<1>2. PICK a \in AllocationIds :
        \/ ClaimCreate(a) \/ ClaimStop(a)
        \/ BeginCreate(a) \/ BeginStop(a)
        \/ \E rep \in Reports : ReportCreate(a, rep) \/ ReportStop(a, rep)
        \/ ReportInstanceFact(a)
        \/ PrepareCreate(a)
        \/ MarkAllocationQuarantined(a) \/ QuarantineOneUnreachable(a)
  BY DEF OnAttempts
<1>3. CASE \E rep \in Report : ReportCreate(a, rep) \/ ReportStop(a, rep)
  BY <1>3, ReportLetsWait
<1>4. CASE BeginCreate(a) \/ BeginStop(a)
  <2>1. [state |-> "unknown", ids |-> {}, untrusted |-> FALSE] \in Report
    BY DEF Report
  <2>2. QED
    BY <1>3, <1>4, <2>1 DEF BeginCreate, BeginStop
<1>5. CASE ClaimCreate(a) \/ ClaimStop(a)
  BY <1>5 DEF ClaimCreate, ClaimStop
<1>6. CASE PrepareCreate(a)
  <2>1. CASE allocations[a].request = r
    BY <1>6, <2>1 DEF PrepareCreate
  <2>2. CASE allocations[a].request # r
    BY <1>6, <2>2, PrepareStep, StepOfLetsWait
  <2>3. QED
    BY <2>1, <2>2
<1>7. CASE ReportInstanceFact(a)
  BY <1>7, FactStep, StepOfLetsWait DEF ReportInstanceFact
<1>8. CASE MarkAllocationQuarantined(a) \/ QuarantineOneUnreachable(a)
  <2>1. allocations[a].state \notin Released
    BY <1>8, StatesDisjoint DEF MarkAllocationQuarantined, QuarantineOneUnreachable, Occupying,
                                OccupyingStates, Starting, Released
  <2>2. QED
    BY <1>8, <2>1, QuarantineStep, StepOfLetsWait
<1>9. QED
  BY <1>1, <1>2, <1>3, <1>4, <1>5, <1>6, <1>7, <1>8

\* The requests a pass has locked go on waiting until it ends.
LEMMA OthersLetWait ==
  ASSUME Inv, Others, NEW r \in RequestIds, r \in LockedRequests, requests[r].state = "waiting"
  PROVE  requests'[r] = requests[r]
<1>1. CASE OnAttempts
  BY <1>1, AttemptStepLetsWait
<1>2. CASE OnNodes
  BY <1>2 DEF OnNodes, Heartbeat, Lapse, SetGate, SetDesiredCapacity, SetCatalog
<1>3. ASSUME NEW a \in AllocationIds, TerminatePending(a)
      PROVE  requests'[r] = requests[r]
  <2>1. allocations[a].state \notin Released
    BY <1>3 DEF TerminatePending, Released
  <2>2. QED
    BY <1>3, <2>1, TerminateStep, StepOfLetsWait
<1>4. CASE OnRequests
  <2>1. ASSUME NEW o \in Owners, NEW t \in Nodes \cup {AnyNode}, CreateUserRequest(o, t)
        PROVE  requests'[r] = requests[r]
    BY <2>1 DEF CreateUserRequest, FreeRequest
  <2>2. ASSUME NEW q \in RequestIds \ LockedRequests, CancelUserRequest(q)
        PROVE  requests'[r] = requests[r]
    <3>1. q # r /\ TypeOK
      BY <2>2 DEF Inv
    <3>2. QED
      BY <2>2, <3>1, RequestToEffect DEF CancelUserRequest
  <2>3. ASSUME NEW q \in RequestIds, requests[q].state # "waiting",
               \/ \E next \in BOOLEAN : StopUserRequest(q, next)
               \/ AdminStopRequest(q)
        PROVE  requests'[r] = requests[r]
    <3>1. q # r /\ TypeOK
      BY <2>3 DEF Inv
    <3>2. UNCHANGED requests \/ requests' = RequestTo(q, "stopping")
      BY <2>3 DEF StopUserRequest, AdminStopRequest, Move, Attempts
    <3>3. QED
      BY <3>1, <3>2, RequestToEffect
  <2>4. ASSUME NEW q \in RequestIds, AbandonQuarantinedUserRequest(q)
        PROVE  requests'[r] = requests[r]
    <3>1. q # r /\ TypeOK /\ Continues(q)
      BY <2>4 DEF Inv, AbandonQuarantinedUserRequest, Continues
    <3>2. /\ \A s : RequestTo(q, s)[r] = requests[r]
          /\ \A s : DOMAIN RequestTo(q, s) = RequestIds
      BY <3>1, RequestToEffect DEF RequestTo, TypeOK
    <3>3. CASE \E s : requests' = RequestTo(q, s)
      BY <3>2, <3>3
    <3>4. ASSUME NEW s, NEW p \in RequestIds, NEW row, requests[p].state = "none",
                 requests' = [RequestTo(q, s) EXCEPT ![p] = row]
          PROVE  requests'[r] = requests[r]
      <4>. DEFINE reqs == RequestTo(q, s)
      <4>1. r \in DOMAIN reqs /\ reqs[r] = requests[r] /\ p # r
        BY <3>2, <3>4
      <4>2. requests' = [reqs EXCEPT ![p] = row]
        BY <3>4
      <4>. HIDE DEF reqs
      <4>3. QED
        BY <4>1, <4>2
    <3>5. \/ \E s : requests' = RequestTo(q, s)
          \/ \E s, row : \E p \in RequestIds :
               requests[p].state = "none" /\ requests' = [RequestTo(q, s) EXCEPT ![p] = row]
      <4>1. PICK s \in {"ended", "quarantined", "abandoned"} :
              \/ requests' = RequestTo(q, s)
              \/ \E p \in RequestIds \ {q} :
                   /\ requests[p].state = "none"
                   /\ requests' = [RequestTo(q, s) EXCEPT ![p] =
                        [state |-> "waiting", owner |-> requests[q].owner,
                         target |-> requests[q].target, origin |-> q]]
        BY <3>1, ContinuesEffect
      <4>2. QED
        BY <4>1, Zenon
    <3>6. QED
      BY <3>3, <3>4, <3>5
  <2>5. ASSUME NEW q \in RequestIds,
               (\E next \in BOOLEAN : StopUserRequest(q, next)) \/ AdminStopRequest(q)
        PROVE  requests[q].state # "waiting"
    BY <2>5 DEF StopUserRequest, AdminStopRequest
  <2>6. QED
    BY <1>4, <2>1, <2>2, <2>3, <2>4, <2>5 DEF OnRequests
<1>5. QED
  BY <1>1, <1>2, <1>3, <1>4 DEF Others, Heeding

\* While they do, so does the list of their nodes.
LEMMA CandidatesKept ==
  ASSUME Inv, Others, NEW r \in RequestIds, requests[r].state = "waiting",
         requests'[r] = requests[r]
  PROVE  Candidates(r)' = Candidates(r)
<1>1. TypeOK /\ Next
  BY OthersStep DEF Inv
<1>2. \A a \in AllocationIds : /\ allocations'[a].request = allocations[a].request
                               /\ allocations'[a].node = allocations[a].node
  BY OthersMoveNone
<1>3. \A a \in Attempts(r) : allocations'[a].state = allocations[a].state
  <2>1. SUFFICES ASSUME NEW a \in Attempts(r)
                 PROVE  allocations[a].state \in Released
    BY <1>1, NothingLateStep DEF Attempts
  <2>2. a \in AllocationIds /\ allocations[a].request = r
    BY DEF Attempts
  <2>3. allocations[a].state # "none"
    BY <2>2 DEF Inv, RowsAgree, NoAllocation, RequestIds
  <2>4. QED
    BY <2>2, <2>3, WaitingIsFree, AttemptFacts DEF Occupying
<1>4. Attempts(r)' = Attempts(r)
  BY <1>2 DEF Attempts
<1>5. \A n : Refused(r, n)' <=> Refused(r, n)
  BY <1>2, <1>3, <1>4 DEF Refused, Attempts
<1>6. QED
  BY <1>5 DEF Candidates

\* Nothing makes a locked node more eligible.
LEMMA OthersKeepNodes ==
  ASSUME Inv, Others, NEW n \in Nodes, n \in LockedNodes
  PROVE  /\ nodes'[n].gate = nodes[n].gate
         /\ nodes'[n].desired = nodes[n].desired
         /\ nodes'[n].online => nodes[n].online
<1>1. nodes \in [Nodes -> NodeRow]
  BY DEF Inv, TypeOK
<1>2. CASE OnRequests
  BY <1>2 DEF OnRequests, CreateUserRequest, CancelUserRequest, StopUserRequest,
              AdminStopRequest, AbandonQuarantinedUserRequest
<1>3. CASE OnAttempts
  BY <1>3 DEF OnAttempts, ClaimCreate, ClaimStop, BeginCreate, BeginStop, ReportCreate,
              ReportStop, ReportInstanceFact, PrepareCreate, MarkAllocationQuarantined,
              QuarantineOneUnreachable
<1>4. CASE OnNodes
  <2>1. CASE ~CatalogLocked /\ \E c \in Catalogs : SetCatalog(c)
    BY <2>1 DEF SetCatalog
  <2>2. ASSUME NEW m \in Nodes \ LockedNodes,
               \/ Heartbeat(m)
               \/ \E g \in Gates : SetGate(m, g)
               \/ \E d \in Desires : SetDesiredCapacity(m, d)
        PROVE  nodes'[n] = nodes[n]
    BY <1>1, <2>2 DEF Heartbeat, SetGate, SetDesiredCapacity
  <2>3. ASSUME NEW m \in Nodes, Lapse(m)
        PROVE  /\ nodes'[n].gate = nodes[n].gate
               /\ nodes'[n].desired = nodes[n].desired
               /\ nodes'[n].online => nodes[n].online
    BY <1>1, <2>3 DEF Lapse, NodeRow
  <2>4. QED
    BY <1>4, <2>1, <2>2, <2>3 DEF OnNodes
<1>5. CASE \E a \in AllocationIds : TerminatePending(a)
  BY <1>5 DEF TerminatePending
<1>6. QED
  BY <1>2, <1>3, <1>4, <1>5 DEF Others, Heeding

\* A node the pass has locked gains a place only when an attempt of it is
\* terminated.
LEMMA OthersLeaveFull ==
  ASSUME Inv, NEW n \in Nodes, n \in LockedNodes, Available(n)',
         Heeding \/ \E a \in AllocationIds : TerminatePending(a) /\ allocations[a].node # n
  PROVE  Available(n)
<1>1. TypeOK /\ Others
  BY DEF Inv, Others
<1>2. Occupants(n) \subseteq Occupants(n)'
  <2>1. SUFFICES ASSUME NEW c \in Occupants(n)
                 PROVE  c \in Occupants(n)'
    OBVIOUS
  <2>2. c \in AllocationIds /\ allocations[c].state \in OccupyingStates /\ allocations[c].node = n
    BY DEF Occupants, Occupying
  <2>3. allocations'[c].state \in OccupyingStates /\ allocations'[c].node = n
    <3>1. CASE UNCHANGED allocations
      BY <2>2, <3>1
    <3>2. ASSUME NEW b \in AllocationIds, NEW s,
                 allocations' = AllocationTo(b, s),
                 s \in OccupyingStates \/ allocations[b].node # n
          PROVE  allocations'[c].state \in OccupyingStates /\ allocations'[c].node = n
      BY <1>1, <2>2, <3>2, AllocationToEffect
    <3>3. CASE Heeding
      BY <3>1, <3>2, <3>3, HeedingMove DEF NodeFree
    <3>4. QED
      BY <3>2, <3>3 DEF TerminatePending, Move
  <2>4. QED
    BY <2>2, <2>3 DEF Occupants, Occupying
<1>3. Cardinality(Occupants(n)) <= Cardinality(Occupants(n)')
  BY <1>2, OccupantsPrimedFinite, FS_Subset
<1>4. Capacity(n)' = Capacity(n) /\ Capacity(n) \in Nat
  BY <1>1, OthersKeepNodes, LifecycleAssumption DEF Capacity, Inv, TypeOK, NodeRow
<1>5. nodes[n].online /\ nodes[n].gate = "open"
  BY <1>1, OthersKeepNodes DEF Available
<1>6. Cardinality(Occupants(n)') < Capacity(n)
  BY <1>4 DEF Available
<1>7. QED
  BY <1>3, <1>4, <1>5, <1>6, OccupantsFinite, OccupantsPrimedFinite DEF Available

-----------------------------------------------------------------------------
(* What a pass may rely on. *)

PassType == [left : SUBSET RequestIds, passed : SUBSET RequestIds,
             seen : SUBSET Nodes, freed : SUBSET Nodes]

\* The requests it holds wait, in their order, and of the nodes it has counted
\* only those are eligible where an attempt has been terminated since.
PassOK ==
  /\ pass \in PassType
  /\ ~UnderWay => pass = NoPass
  /\ \A r \in LockedRequests : requests[r].state = "waiting"
  /\ \A q \in pass.passed, r \in pass.left : q < r
  /\ \A n \in Nodes : n \in Counted /\ Available(n) => n \in pass.freed

\* What has been counted stays counted.
LEMMA CountedKept ==
  ASSUME Inv, PassOK, Others, pass'.passed = pass.passed, pass'.seen = pass.seen
  PROVE  /\ Counted' = Counted
         /\ \A r \in LockedRequests : requests'[r].state = "waiting"
<1>1. \A r \in LockedRequests : r \in RequestIds /\ requests[r].state = "waiting"
  BY DEF PassOK, PassType, LockedRequests
<1>2. \A r \in LockedRequests : requests'[r] = requests[r]
  BY <1>1, OthersLetWait
<1>3. \A r \in pass.passed : Candidates(r)' = Candidates(r)
  BY <1>1, <1>2, CandidatesKept DEF LockedRequests
<1>4. ASSUME CatalogLocked PROVE Counted' = Counted
  <2>1. catalog' = catalog
    BY <1>4 DEF Others, Heeding, OnRequests, OnAttempts, OnNodes, CreateUserRequest, CancelUserRequest,
                StopUserRequest, AdminStopRequest, AbandonQuarantinedUserRequest,
                ClaimCreate, ClaimStop, BeginCreate, BeginStop, ReportCreate, ReportStop,
                ReportInstanceFact, PrepareCreate, MarkAllocationQuarantined,
                QuarantineOneUnreachable, Heartbeat, Lapse, SetGate, SetDesiredCapacity,
                TerminatePending
  <2>2. (UNION {Candidates(q) : q \in pass.passed})' = UNION {Candidates(q) : q \in pass.passed}
    BY <1>3
  <2>3. QED
    BY <2>1, <2>2 DEF Counted
<1>5. ASSUME ~CatalogLocked PROVE Counted' = Counted
  <2>1. pass.passed = {} /\ pass.seen = {}
    BY <1>5 DEF CatalogLocked
  <2>2. Counted = {} /\ Counted' = {}
    BY <2>1 DEF Counted
  <2>3. QED
    BY <2>2
<1>6. QED
  BY <1>1, <1>2, <1>4, <1>5

\* Other transactions leave a pass what it relies on.
LEMMA OthersKeepPass ==
  ASSUME Inv, PassOK,
         \/ Heeding /\ UNCHANGED pass
         \/ \E a \in AllocationIds : TerminateBehind(a)
  PROVE  PassOK'
<1>1. Others
  BY DEF Others, TerminateBehind
<1>2. /\ pass \in PassType /\ pass' \in PassType
      /\ pass'.left = pass.left /\ pass'.passed = pass.passed /\ pass'.seen = pass.seen
      /\ pass.freed \subseteq pass'.freed
      /\ \/ pass'.freed = pass.freed
         \/ \E a \in AllocationIds :
              pass'.freed = pass.freed \cup ({allocations[a].node} \cap Counted)
  <2>1. pass \in PassType
    BY DEF PassOK
  <2>2. ASSUME NEW a \in AllocationIds, TerminateBehind(a)
        PROVE  /\ pass' = [pass EXCEPT !.freed = @ \cup ({allocations[a].node} \cap Counted)]
               /\ {allocations[a].node} \cap Counted \subseteq Nodes
    <3>1. allocations[a].node \in Nodes
      BY <2>2 DEF TerminateBehind, TerminatePending, Inv, RowsAgree
    <3>2. QED
      BY <2>2, <3>1 DEF TerminateBehind
  <2>3. CASE UNCHANGED pass
    BY <2>1, <2>3
  <2>4. QED
    BY <2>1, <2>2, <2>3 DEF PassType
<1>3. /\ Counted' = Counted
      /\ \A r \in LockedRequests : requests'[r].state = "waiting"
  BY <1>1, <1>2, CountedKept
<1>4. LockedRequests' = LockedRequests
  BY <1>2 DEF LockedRequests
<1>5. ASSUME NEW n \in Nodes, n \in Counted, Available(n)'
      PROVE  n \in pass'.freed
  <2>1. n \in LockedNodes
    BY <1>5 DEF LockedNodes
  <2>2. CASE Available(n)
    BY <1>2, <1>5, <2>2 DEF PassOK
  <2>3. CASE Heeding
    BY <1>5, <2>1, <2>2, <2>3, OthersLeaveFull
  <2>4. ASSUME NEW a \in AllocationIds, TerminateBehind(a)
        PROVE  n \in pass'.freed
    <3>1. CASE allocations[a].node = n
      BY <1>2, <1>5, <2>4, <3>1 DEF TerminateBehind, PassType
    <3>2. CASE allocations[a].node # n
      <4>1. TerminatePending(a)
        BY <2>4 DEF TerminateBehind
      <4>2. QED
        BY <1>5, <2>1, <2>2, <3>2, <4>1, OthersLeaveFull
    <3>3. QED
      BY <3>1, <3>2
  <2>5. QED
    BY <2>3, <2>4
<1>6. ASSUME ~UnderWay' PROVE pass' = NoPass
  <2>1. pass = NoPass /\ Counted = {}
    BY <1>2, <1>6 DEF UnderWay, PassOK, Counted, NoPass
  <2>2. ASSUME NEW a \in AllocationIds,
               pass'.freed = pass.freed \cup ({allocations[a].node} \cap Counted)
        PROVE  pass'.freed = {}
    BY <2>1, <2>2 DEF NoPass
  <2>3. pass'.freed = {}
    BY <1>2, <2>1, <2>2 DEF NoPass
  <2>4. QED
    BY <1>2, <2>1, <2>3 DEF PassType, NoPass
<1>7. QED
  BY <1>2, <1>3, <1>4, <1>5, <1>6 DEF PassOK

\* A statement of the pass leaves what it relies on, too.
LEMMA PassStepKeepsPass ==
  ASSUME Inv, PassOK, PassStep
  PROVE  PassOK'
<1>1. ASSUME pass' = NoPass PROVE PassOK'
  BY <1>1 DEF PassOK, PassType, NoPass, UnderWay, LockedRequests, Counted
<1>2. CASE BeginPass
  <2>1. pass' = [left |-> {r \in RequestIds : requests[r].state = "waiting"},
                 passed |-> {}, seen |-> {}, freed |-> {}]
    BY <1>2 DEF BeginPass, NoPass
  <2>2. requests' = requests /\ \E r \in RequestIds : requests[r].state = "waiting"
    BY <1>2 DEF BeginPass, vars
  <2>3. Counted' = {}
    BY <2>1 DEF Counted
  <2>4. QED
    BY <2>1, <2>2, <2>3 DEF PassOK, PassType, UnderWay, LockedRequests
<1>3. ASSUME NEW r \in RequestIds, Current(r), PassOver(r), UNCHANGED vars,
             \A n \in Nodes : n \in Counted' /\ Available(n) => n \in pass.freed
      PROVE  PassOK'
  <2>1. CASE pass.left = {r}
    BY <1>1, <1>3, <2>1 DEF PassOver
  <2>2. CASE pass.left # {r}
    <3>1. /\ pass \in PassType
          /\ pass' = [pass EXCEPT !.left = @ \ {r}, !.passed = @ \cup {r}, !.seen = {}]
      BY <1>3, <2>2 DEF PassOK, PassOver
    <3>2. /\ pass' \in PassType
          /\ pass'.left = pass.left \ {r} /\ pass'.passed = pass.passed \cup {r}
          /\ pass'.freed = pass.freed
      BY <3>1 DEF PassType
    <3>3. UnderWay' /\ LockedRequests' = LockedRequests
      BY <1>3, <2>2, <3>2 DEF UnderWay, LockedRequests, Current
    <3>4. \A q \in pass'.passed, p \in pass'.left : q < p
      <4>1. pass.left \subseteq Nat /\ r \in Nat
        BY <3>1 DEF PassType, RequestIds
      <4>2. QED
        BY <1>3, <3>2, <4>1 DEF PassOK, Current
    <3>5. \A n \in Nodes : Available(n)' <=> Available(n)
      BY <1>3 DEF vars, Available, Occupants, Occupying, Capacity
    <3>6. requests' = requests
      BY <1>3 DEF vars
    <3>7. QED
      BY <1>3, <3>2, <3>3, <3>4, <3>5, <3>6 DEF PassOK
  <2>3. QED
    BY <2>1, <2>2
<1>4. ASSUME NEW r \in RequestIds, SkipClosed(r)
      PROVE  PassOK'
  <2>1. Counted' = {}
    BY <1>4 DEF SkipClosed, Counted, vars
  <2>2. QED
    BY <1>3, <1>4, <2>1 DEF SkipClosed
<1>5. ASSUME NEW r \in RequestIds, NEW n \in Nodes, FindUnavailable(r, n)
      PROVE  PassOK'
  <2>1. /\ pass \in PassType /\ UNCHANGED vars /\ Nearest(r, n) /\ ~Available(n)
        /\ Current(r) /\ catalog = "open" /\ n \in Candidates(r)
    BY <1>5 DEF FindUnavailable, Nearest, PassOK
  <2>2. \A q : Candidates(q)' = Candidates(q)
    BY <2>1 DEF vars, Candidates, Refused, Attempts
  <2>3. \A m \in Nodes : Available(m)' <=> Available(m)
    BY <2>1 DEF vars, Available, Occupants, Occupying, Capacity
  <2>4. ASSUME NEW m \in Nodes, Available(m), m \in Counted \cup {n}
        PROVE  m \in pass.freed
    BY <2>1, <2>4 DEF PassOK
  <2>5. CASE Candidates(r) \ pass.seen = {n}
    <3>1. PassOver(r)
      BY <1>5, <2>5 DEF FindUnavailable
    <3>2. Counted' \subseteq Counted \cup {n}
      <4>1. CASE pass' = NoPass
        BY <4>1 DEF NoPass, Counted
      <4>2. CASE pass' = [pass EXCEPT !.left = @ \ {r}, !.passed = @ \cup {r}, !.seen = {}]
        <5>1. pass'.passed = pass.passed \cup {r} /\ pass'.seen = {}
          BY <2>1, <4>2 DEF PassType
        <5>2. Counted' = UNION {Candidates(q) : q \in pass.passed \cup {r}}
          BY <2>1, <2>2, <5>1 DEF Counted, vars
        <5>3. Counted = pass.seen \cup (UNION {Candidates(q) : q \in pass.passed})
          BY <2>1 DEF Counted
        <5>4. Candidates(r) \subseteq pass.seen \cup {n}
          BY <2>5
        <5>5. QED
          BY <5>2, <5>3, <5>4
      <4>3. QED
        BY <3>1, <4>1, <4>2 DEF PassOver
    <3>3. QED
      BY <1>3, <2>1, <2>4, <3>1, <3>2
  <2>6. CASE Candidates(r) \ pass.seen # {n}
    <3>1. pass' = [pass EXCEPT !.seen = @ \cup {n}]
      BY <1>5, <2>6 DEF FindUnavailable
    <3>2. /\ pass' \in PassType
          /\ pass'.left = pass.left /\ pass'.passed = pass.passed /\ pass'.freed = pass.freed
          /\ pass'.seen = pass.seen \cup {n}
      BY <2>1, <3>1 DEF PassType
    <3>3. Counted' = Counted \cup {n}
      <4>1. Counted' = (pass.seen \cup {n}) \cup (UNION {Candidates(q) : q \in pass.passed})
        BY <2>1, <2>2, <3>2 DEF Counted, vars
      <4>2. Counted = pass.seen \cup (UNION {Candidates(q) : q \in pass.passed})
        BY <2>1 DEF Counted
      <4>3. QED
        BY <4>1, <4>2
    <3>4. UnderWay' /\ LockedRequests' = LockedRequests
      BY <2>1, <3>2 DEF UnderWay, LockedRequests, Current
    <3>5. requests' = requests
      BY <2>1 DEF vars
    <3>6. QED
      BY <2>3, <2>4, <3>2, <3>3, <3>4, <3>5 DEF PassOK
  <2>7. QED
    BY <2>5, <2>6
<1>6. QED
  BY <1>1, <1>2, <1>4, <1>5 DEF PassStep, AbortPass, GiveUpInTurn, ReserveInTurn

\* Together, at every step.
LEMMA PassKept ==
  ASSUME Inv, PassOK, [AdmissionNext]_admissionVars
  PROVE  PassOK'
<1>1. CASE UNCHANGED admissionVars
  BY <1>1 DEF admissionVars, vars, PassOK, UnderWay, LockedRequests, Counted, Candidates,
              Refused, Attempts, Available, Occupants, Occupying, Capacity
<1>2. CASE AdmissionNext
  BY <1>2, OthersKeepPass, PassStepKeepsPass DEF AdmissionNext, Heeding
<1>3. QED
  BY <1>1, <1>2

-----------------------------------------------------------------------------
(* Who is served. *)

\* Only the pass fills a row, with the request and the node it has come to.
LEMMA OnlyPassReserves ==
  ASSUME Inv, [AdmissionNext]_admissionVars,
         NEW a \in AllocationIds, NEW r \in RequestIds, NEW n \in Nodes,
         allocations[a].state = "none",
         allocations'[a].request = r, allocations'[a].node = n
  PROVE  ReserveInTurn(r, n)
<1>1. allocations[a].request = 0 /\ r # 0
  BY DEF Inv, RowsAgree, NoAllocation, RequestIds
<1>2. ~Others /\ ~UNCHANGED allocations
  BY <1>1, OthersMoveNone
<1>3. PassStep
  BY <1>2 DEF AdmissionNext, Others, Heeding, TerminateBehind, admissionVars, vars
<1>4. PICK q \in RequestIds, m \in Nodes : ReserveInTurn(q, m)
  BY <1>2, <1>3 DEF PassStep, BeginPass, AbortPass, GiveUpInTurn, GiveUp, SkipClosed,
                    FindUnavailable, vars
<1>5. PICK b \in AllocationIds :
        allocations' = [allocations EXCEPT ![b] = [state |-> "reserved", request |-> q, node |-> m]]
  BY <1>4 DEF ReserveInTurn, Reserve
<1>6. q = r /\ m = n
  BY <1>1, <1>5 DEF Inv, TypeOK
<1>7. QED
  BY <1>4, <1>6

\* What a pass reserves is within the desired capacity and has been taken from no
\* older request and no better node that it had found full, but for places that
\* terminated attempts have given back since.
THEOREM InTurn == AdmissionSpec => AdmittedInTurn
<1>. DEFINE Turn ==
       \A a \in AllocationIds, n \in Nodes, r \in RequestIds :
         /\ allocations[a].state = "none"
         /\ allocations'[a].node = n /\ allocations'[a].request = r
         => /\ Cardinality(Occupants(n)') <= nodes[n].desired
            /\ \A q \in LockedRequests : q < r /\ n \in Candidates(q) => n \in pass.freed
            /\ \A m \in Candidates(r) :
                 Available(m) /\ Priority[m] > Priority[n] => m \in pass.freed
<1>1. ASSUME Inv, PassOK, [AdmissionNext]_admissionVars
      PROVE  Turn
  <2>1. SUFFICES ASSUME NEW a \in AllocationIds, NEW n \in Nodes, NEW r \in RequestIds,
                        allocations[a].state = "none",
                        allocations'[a].node = n, allocations'[a].request = r
                 PROVE  /\ Cardinality(Occupants(n)') <= nodes[n].desired
                        /\ \A q \in LockedRequests : q < r /\ n \in Candidates(q) => n \in pass.freed
                        /\ \A m \in Candidates(r) :
                             Available(m) /\ Priority[m] > Priority[n] => m \in pass.freed
    OBVIOUS
  <2>2. ReserveFor(a, r, n) /\ Serves(r, n)
    BY <1>1, <2>1, OnlyReserveFills, StepIsStep
  <2>3. Nearest(r, n)
    BY <1>1, <2>1, OnlyPassReserves DEF ReserveInTurn
  <2>4. Cardinality(Occupants(n)') <= nodes[n].desired
    BY <1>1, <2>2, ReservedWithin
  <2>5. ASSUME NEW q \in LockedRequests, q < r, n \in Candidates(q)
        PROVE  n \in pass.freed
    <3>1. q \in pass.passed
      <4>1. pass.left \subseteq Nat
        BY <1>1 DEF PassOK, PassType, RequestIds
      <4>2. QED
        BY <2>3, <2>5, <4>1 DEF Nearest, Current, LockedRequests, RequestIds
    <3>2. n \in Counted
      BY <2>3, <2>5, <3>1 DEF Nearest, Counted
    <3>3. QED
      BY <1>1, <2>2, <3>2 DEF PassOK, Serves
  <2>6. ASSUME NEW m \in Candidates(r), Available(m), Priority[m] > Priority[n]
        PROVE  m \in pass.freed
    <3>1. m \in Nodes
      <4>1. Candidates(r) \subseteq Nodes \/ Candidates(r) = {n}
        BY <2>3 DEF Nearest, Candidates
      <4>2. QED
        BY <4>1
    <3>2. m \in pass.seen
      BY <2>3, <2>6, <3>1, AdmissionAssumption DEF Nearest
    <3>3. m \in Counted
      BY <2>3, <3>2 DEF Nearest, Counted
    <3>4. QED
      BY <1>1, <2>6, <3>1, <3>3 DEF PassOK
  <2>7. QED
    BY <2>4, <2>5, <2>6
<1>2. AdmissionInit => PassOK
  BY DEF AdmissionInit, PassOK, PassType, NoPass, UnderWay, LockedRequests, Counted
<1>3. Inv /\ PassOK /\ [AdmissionNext]_admissionVars => PassOK'
  BY PassKept
<1>4. AdmissionSpec => []Inv
  BY PassesCommitSteps, InvHolds, PTL
<1>5. Inv /\ PassOK /\ [AdmissionNext]_admissionVars => [Turn]_admissionVars
  BY <1>1
<1>6. QED
  BY <1>2, <1>3, <1>4, <1>5, PTL DEF AdmissionSpec, AdmittedInTurn
=============================================================================
