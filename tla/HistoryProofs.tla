--------------------------- MODULE HistoryProofs ---------------------------
(* Proofs about what Lifecycle's rows remember: which request a next game   *)
(* comes from, and which nodes a request has been to.                       *)
EXTENDS LifecycleProofs

-----------------------------------------------------------------------------
(* The forms in which a step writes requests and intents. *)

\* A request goes back to waiting only when its attempt in flight is rejected.
MayBecome(r, s) ==
  /\ requests[r].state # "none"
  /\ s = "waiting" =>
       /\ requests[r].target = AnyNode
       /\ \E a \in Attempts(r) : /\ allocations[a].state \notin Released \cup {"none"}
                                 /\ allocations' = AllocationTo(a, "released_no_effect")

\* No intent becomes or ceases to be consumed.
ConsumedStays ==
  \A r \in RequestIds : (intents'[r] = "consumed") <=> (intents[r] = "consumed")

\* One request changes its state, or none does.
Rewrites ==
  /\ ConsumedStays
  /\ \/ UNCHANGED requests
     \/ \E r \in RequestIds, s \in RequestStates :
          MayBecome(r, s) /\ requests' = RequestTo(r, s)

\* A request is submitted.
Asks ==
  /\ UNCHANGED intents
  /\ \E q \in RequestIds, o \in Owners, t \in Nodes \cup {AnyNode} :
       /\ requests[q].state = "none"
       /\ requests' = [requests EXCEPT ![q] =
            [state |-> "waiting", owner |-> o, target |-> t, origin |-> 0]]

\* A request ends and its intent is looked at.
Continues(r) ==
  /\ requests[r].state # "none"
  /\ \E s \in {"ended", "quarantined", "abandoned"}, after \in BOOLEAN :
       ConsumeIntent(r, RequestTo(r, s), after)

\* The rows an attempt takes along with it.
LEMMA MoveWrites ==
  ASSUME Inv, NEW a \in AllocationIds, allocations[a].state # "none",
         NEW s, NEW q \in RequestStates \ {"waiting"}, Move(a, s, q),
         UNCHANGED intents \/ intents' = PauseIntent(allocations[a].request)
  PROVE  Rewrites
<1>1. allocations[a].request \in RequestIds /\ requests[allocations[a].request].state # "none"
  BY DEF Inv, RowsAgree
<1>2. ConsumedStays
  BY DEF ConsumedStays, PauseIntent, Inv, TypeOK
<1>3. QED
  BY <1>1, <1>2 DEF Rewrites, MayBecome, Move

\* A step about other rows.
LEMMA StillWrites ==
  ASSUME UNCHANGED <<requests, intents>>
  PROVE  Rewrites
BY DEF Rewrites, ConsumedStays

\* Quarantine never sends a request back.
LEMMA QuarantineWrites ==
  ASSUME Inv, NEW a \in AllocationIds, allocations[a].state # "none", Quarantined(a)
  PROVE  Rewrites
<1>1. "quarantined" \in RequestStates \ {"waiting"}
  BY DEF RequestStates, Blocking
<1>2. QED
  BY <1>1, MoveWrites DEF Quarantined

\* Nor does a create that failed with an effect.
LEMMA FailedWrites ==
  ASSUME Inv, NEW a \in AllocationIds, allocations[a].state # "none",
         NEW known, NEW untrusted, CreateFailed(a, known, untrusted)
  PROVE  Rewrites
<1>1. {"stopping", "failed_unreclaimed"} \subseteq RequestStates \ {"waiting"}
  BY DEF RequestStates, Blocking
<1>2. CASE Quarantined(a)
  BY <1>2, QuarantineWrites
<1>3. CASE ~Quarantined(a)
  BY <1>1, <1>3, MoveWrites DEF CreateFailed
<1>4. QED
  BY <1>2, <1>3

\* Of the reports of a create, only the rejection without effect sends a request back.
LEMMA CreateWrites ==
  ASSUME Inv, NEW a \in AllocationIds, NEW rep \in Report, ReportCreate(a, rep)
  PROVE  Rewrites
<1>1. creates[a].state \in OpenJob
  BY DEF ReportCreate, CreateReportFits, ReportFits, Permitted, OpenJob, Unresolved
<1>2. allocations[a].state # "none"
  BY <1>1, StatesDisjoint DEF Inv, RowsAgree, NoCreate
<1>3. {"creating", "running"} \subseteq RequestStates \ {"waiting"}
  BY DEF RequestStates, Blocking
<1>4. CASE UNCHANGED <<requests, intents>>
  BY <1>4, StillWrites
<1>5. CASE CreateFailed(a, "instance" \in creates[a].ids \cup rep.ids, rep.untrusted)
  BY <1>2, <1>5, FailedWrites
<1>6. CASE \E s, q \in {"creating", "create_unknown", "running"} :
             q # "create_unknown" /\ Move(a, s, q) /\ UNCHANGED intents
  BY <1>2, <1>3, <1>6, MoveWrites
<1>7. CASE /\ ~TooLate(a, TRUE) /\ UNCHANGED intents
           /\ Move(a, "released_no_effect",
                   IF requests[allocations[a].request].target = AnyNode
                     THEN "waiting" ELSE "unavailable")
  <2>. DEFINE r == allocations[a].request
              s == IF requests[r].target = AnyNode THEN "waiting" ELSE "unavailable"
  <2>1. r \in RequestIds /\ requests[r].state # "none" /\ a \in Attempts(r)
    BY <1>2 DEF Inv, RowsAgree, Attempts
  <2>2. s \in RequestStates
    BY DEF RequestStates, Blocking
  <2>3. MayBecome(r, s)
    BY <1>2, <1>7, <2>1 DEF MayBecome, TooLate, Move
  <2>4. QED
    BY <1>7, <2>1, <2>2, <2>3 DEF Rewrites, ConsumedStays, Move
<1>8. QED
  BY <1>4, <1>5, <1>6, <1>7 DEF ReportCreate, ApplyCreateReport

\* A stop that succeeds ends the request, and may continue it with a next game.
LEMMA StopWrites ==
  ASSUME Inv, NEW a \in AllocationIds, NEW rep \in Report, ReportStop(a, rep)
  PROVE  Rewrites \/ \E r \in RequestIds : Continues(r)
<1>1. stops[a].state \in OpenJob
  BY DEF ReportStop, ReportFits, Permitted, OpenJob, Unresolved
<1>2. allocations[a].state # "none"
  BY <1>1, StatesDisjoint DEF Inv, RowsAgree, NoStop
<1>3. /\ allocations[a].request \in RequestIds
      /\ requests[allocations[a].request].state # "none"
  BY <1>2 DEF Inv, RowsAgree
<1>4. {"stopping", "quarantined", "ended"} \subseteq RequestStates \ {"waiting"}
  BY DEF RequestStates, Blocking
<1>5. CASE UNCHANGED <<requests, intents>>
  BY <1>5, StillWrites
<1>6. CASE Quarantined(a)
  BY <1>2, <1>6, QuarantineWrites
<1>7. CASE Move(a, "stopping", "stopping") /\ UNCHANGED intents
  BY <1>2, <1>4, <1>7, MoveWrites
<1>8. CASE StopSucceeded(a)
  <2>1. CASE requests' = RequestTo(allocations[a].request,
                IF intents[allocations[a].request] \in PausedIntent THEN "quarantined"
                                                                   ELSE "ended")
             /\ UNCHANGED intents
    BY <1>3, <1>4, <2>1 DEF Rewrites, MayBecome, ConsumedStays
  <2>2. CASE ConsumeIntent(allocations[a].request,
                RequestTo(allocations[a].request,
                  IF intents[allocations[a].request] \in PausedIntent THEN "quarantined"
                                                                     ELSE "ended"), FALSE)
    BY <1>3, <2>2 DEF Continues
  <2>3. QED
    BY <1>8, <2>1, <2>2 DEF StopSucceeded
<1>9. QED
  BY <1>5, <1>6, <1>7, <1>8 DEF ReportStop, ApplyStopReport

\* So does an instance reported gone.
LEMMA FactWrites ==
  ASSUME Inv, NEW a \in AllocationIds, ReportInstanceFact(a)
  PROVE  Rewrites \/ \E r \in RequestIds : Continues(r)
<1>1. allocations[a].state # "none"
  BY DEF Inv, RowsAgree, ReportInstanceFact, NoCreate
<1>2. /\ allocations[a].request \in RequestIds
      /\ requests[allocations[a].request].state # "none"
  BY <1>1 DEF Inv, RowsAgree
<1>3. CASE ReclaimedFact(a)
  BY <1>2, <1>3, StillWrites DEF ReclaimedFact, Continues
<1>4. CASE FailedFact(a)
  BY <1>1, <1>4, FailedWrites DEF FailedFact
<1>5. CASE DriftedFact(a)
  BY <1>1, <1>5, QuarantineWrites DEF DriftedFact
<1>6. QED
  BY <1>3, <1>4, <1>5 DEF ReportInstanceFact

\* The player, the Controller, the administrator and the platform.
LEMMA PlayerWrites ==
  ASSUME Inv, Player
  PROVE  Rewrites \/ Asks \/ \E r \in RequestIds : Continues(r)
<1>1. ASSUME NEW o \in Owners, NEW t \in Nodes \cup {AnyNode}, CreateUserRequest(o, t) PROVE Asks
  BY <1>1 DEF CreateUserRequest, FreeRequest, Asks
<1>2. ASSUME NEW r \in RequestIds, CancelUserRequest(r) PROVE Rewrites
  BY <1>2, StatesTyped DEF CancelUserRequest, Rewrites, MayBecome, ConsumedStays
<1>3. ASSUME NEW r \in RequestIds, NEW next \in BOOLEAN, StopUserRequest(r, next) PROVE Rewrites
  <2>1. ConsumedStays
    BY <1>3 DEF StopUserRequest, ConsumedStays, Inv, TypeOK
  <2>2. QED
    BY <1>3, <2>1, StatesTyped DEF StopUserRequest, Rewrites, MayBecome
<1>4. ASSUME NEW r \in RequestIds, AbandonQuarantinedUserRequest(r) PROVE Continues(r)
  BY <1>4 DEF AbandonQuarantinedUserRequest, Continues
<1>5. QED
  BY <1>1, <1>2, <1>3, <1>4 DEF Player

LEMMA ControllerWrites ==
  ASSUME Inv, Controller
  PROVE  Rewrites \/ \E r \in RequestIds : Continues(r)
<1>1. PICK a \in AllocationIds :
        \/ ClaimCreate(a) \/ ClaimStop(a)
        \/ PrepareCreate(a)
        \/ BeginCreate(a) \/ BeginStop(a)
        \/ \E rep \in Reports : ReportCreate(a, rep) \/ ReportStop(a, rep)
        \/ ReportInstanceFact(a)
  BY DEF Controller
<1>2. CASE ClaimCreate(a) \/ ClaimStop(a)
  BY <1>2, StillWrites DEF ClaimCreate, ClaimStop
<1>3. CASE PrepareCreate(a)
  <2>1. creates[a].state # "none" /\ allocations[a].state # "none"
    BY <1>3 DEF PrepareCreate, Unresolved, Inv, RowsAgree, NoCreate
  <2>2. /\ allocations[a].request \in RequestIds
        /\ requests[allocations[a].request].state # "none"
    BY <2>1 DEF Inv, RowsAgree
  <2>3. QED
    BY <1>3, <2>2, StillWrites, StatesTyped DEF PrepareCreate, Rewrites, MayBecome, ConsumedStays
<1>4. CASE \E rep \in Report : ReportCreate(a, rep) \/ ReportStop(a, rep)
  BY <1>4, CreateWrites, StopWrites
<1>5. CASE BeginCreate(a) \/ BeginStop(a)
  <2>1. [state |-> "unknown", ids |-> {}, untrusted |-> FALSE] \in Report
    BY DEF Report
  <2>2. QED
    BY <1>4, <1>5, <2>1 DEF BeginCreate, BeginStop
<1>6. QED
  BY <1>1, <1>2, <1>3, <1>4, <1>5, FactWrites, LifecycleAssumption

LEMMA AdministratorWrites == ASSUME Inv, Administrator PROVE Rewrites
<1>1. ASSUME NEW r \in RequestIds, CancelUserRequest(r) PROVE Rewrites
  BY <1>1, StatesTyped DEF CancelUserRequest, Rewrites, MayBecome, ConsumedStays
<1>2. ASSUME NEW r \in RequestIds, AdminStopRequest(r) PROVE Rewrites
  <2>1. PICK a \in Attempts(r) :
          IF requests[r].state = "running" THEN Move(a, "stopping", "stopping")
                                           ELSE UNCHANGED <<requests, allocations>>
    BY <1>2 DEF AdminStopRequest
  <2>2. UNCHANGED intents /\ requests[r].state # "none" /\ allocations[a].request = r
    BY <1>2, <2>1 DEF AdminStopRequest, Attempts
  <2>3. QED
    BY <2>1, <2>2, StillWrites, StatesTyped DEF Move, Rewrites, MayBecome, ConsumedStays
<1>3. ASSUME NEW a \in AllocationIds, MarkAllocationQuarantined(a) PROVE Rewrites
  BY <1>3, QuarantineWrites, StatesDisjoint DEF MarkAllocationQuarantined, Occupying
<1>4. ASSUME NEW a \in AllocationIds, TerminatePending(a) PROVE Rewrites
  BY <1>4, MoveWrites, StatesTyped DEF TerminatePending
<1>5. CASE \/ \E n \in Nodes : \/ \E g \in Gates : SetGate(n, g)
                               \/ \E d \in Desires : SetDesiredCapacity(n, d)
           \/ \E c \in Catalogs : SetCatalog(c)
  BY <1>5, StillWrites DEF SetGate, SetDesiredCapacity, SetCatalog
<1>6. QED
  BY <1>1, <1>2, <1>3, <1>4, <1>5 DEF Administrator

LEMMA PlatformWrites == ASSUME Inv, Platform PROVE Rewrites
<1>1. ASSUME NEW r \in RequestIds, GiveUp(r) PROVE Rewrites
  BY <1>1, StatesTyped DEF GiveUp, Rewrites, MayBecome, ConsumedStays
<1>2. ASSUME NEW r \in RequestIds, NEW n \in Nodes, Reserve(r, n) PROVE Rewrites
  BY <1>2, StatesTyped DEF Reserve, Rewrites, MayBecome, ConsumedStays
<1>3. ASSUME NEW a \in AllocationIds, QuarantineOneUnreachable(a) PROVE Rewrites
  BY <1>3, QuarantineWrites, StatesDisjoint DEF QuarantineOneUnreachable
<1>4. CASE \E n \in Nodes : Heartbeat(n) \/ Lapse(n)
  BY <1>4, StillWrites DEF Heartbeat, Lapse
<1>5. QED
  BY <1>1, <1>2, <1>3, <1>4 DEF Platform, TryAllocateOne

\* Every step of the Store writes requests and intents in one of three forms.
LEMMA Writes ==
  ASSUME Inv, [Next]_vars
  PROVE  Rewrites \/ Asks \/ \E r \in RequestIds : Continues(r)
<1>1. CASE UNCHANGED vars
  BY <1>1, StillWrites DEF vars
<1>2. CASE Next
  BY <1>2, PlayerWrites, ControllerWrites, AdministratorWrites, PlatformWrites DEF Next
<1>3. QED
  BY <1>1, <1>2

\* A rewritten request, and the request a consumed intent adds.
LEMMA ContinuesEffect ==
  ASSUME Inv, NEW r \in RequestIds, Continues(r)
  PROVE  /\ requests[r].state # "none"
         /\ \E s \in {"ended", "quarantined", "abandoned"} :
              \/ /\ requests' = RequestTo(r, s)
                 /\ ConsumedStays
              \/ \E q \in RequestIds \ {r} :
                   /\ requests[q].state = "none"
                   /\ requests' = [RequestTo(r, s) EXCEPT ![q] =
                        [state |-> "waiting", owner |-> requests[r].owner,
                         target |-> requests[r].target, origin |-> r]]
                   /\ intents[r] # "consumed"
                   /\ intents' = [intents EXCEPT ![r] = "consumed"]
<1>1. requests[r].state # "none" /\ intents \in [RequestIds -> IntentStates]
  BY DEF Continues, Inv, TypeOK
<1>2. PICK s \in {"ended", "quarantined", "abandoned"}, after \in BOOLEAN :
        ConsumeIntent(r, RequestTo(r, s), after)
  BY DEF Continues
<1>3. CASE requests' = RequestTo(r, s) /\ UNCHANGED intents
  BY <1>1, <1>3 DEF ConsumedStays
<1>4. CASE /\ requests' = RequestTo(r, s) /\ intents[r] \in {"pending", "paused"}
           /\ intents' = [intents EXCEPT ![r] = "refused"]
  BY <1>1, <1>4 DEF ConsumedStays
<1>5. CASE /\ intents[r] \in {"pending", "paused"}
           /\ \E q \in RequestIds :
                /\ FreeRequest(q)
                /\ requests' = [RequestTo(r, s) EXCEPT ![q] =
                     [state |-> "waiting", owner |-> requests[r].owner,
                      target |-> requests[r].target, origin |-> r]]
           /\ intents' = [intents EXCEPT ![r] = "consumed"]
  BY <1>1, <1>5 DEF FreeRequest
<1>6. QED
  BY <1>2, <1>3, <1>4, <1>5 DEF ConsumeIntent

\* A request keeps its owner, target and origin for ever, and comes back to
\* waiting only by a rejection of its attempt in flight.
LEMMA RequestKept ==
  ASSUME Inv, [Next]_vars, NEW q \in RequestIds, requests[q].state # "none"
  PROVE  /\ requests'[q].state # "none"
         /\ requests'[q].owner = requests[q].owner
         /\ requests'[q].target = requests[q].target
         /\ requests'[q].origin = requests[q].origin
         /\ requests'[q].state = "waiting" =>
              requests[q].state = "waiting" \/ MayBecome(q, "waiting")
<1>1. TypeOK /\ requests \in [RequestIds -> RequestRow]
  BY DEF Inv, TypeOK
<1>2. CASE Rewrites
  <2>1. CASE UNCHANGED requests
    BY <2>1
  <2>2. ASSUME NEW r \in RequestIds, NEW s \in RequestStates, MayBecome(r, s),
               requests' = RequestTo(r, s)
        PROVE  /\ requests'[q].state # "none"
               /\ requests'[q].owner = requests[q].owner
               /\ requests'[q].target = requests[q].target
               /\ requests'[q].origin = requests[q].origin
               /\ requests'[q].state = "waiting" =>
                    requests[q].state = "waiting" \/ MayBecome(q, "waiting")
    BY <1>1, <2>2, RequestToEffect, StatesDisjoint
  <2>3. QED
    BY <1>2, <2>1, <2>2 DEF Rewrites
<1>3. CASE Asks
  BY <1>1, <1>3 DEF Asks
<1>4. ASSUME NEW r \in RequestIds, Continues(r)
      PROVE  /\ requests'[q].state # "none"
             /\ requests'[q].owner = requests[q].owner
             /\ requests'[q].target = requests[q].target
             /\ requests'[q].origin = requests[q].origin
             /\ requests'[q].state = "waiting" => requests[q].state = "waiting"
  <2>1. PICK s \in {"ended", "quarantined", "abandoned"} :
          \/ requests' = RequestTo(r, s)
          \/ \E p \in RequestIds \ {r} :
               /\ requests[p].state = "none"
               /\ requests' = [RequestTo(r, s) EXCEPT ![p] =
                    [state |-> "waiting", owner |-> requests[r].owner,
                     target |-> requests[r].target, origin |-> r]]
    BY <1>4, ContinuesEffect
  <2>2. requests'[q] = RequestTo(r, s)[q]
    BY <1>1, <2>1 DEF RequestTo
  <2>3. QED
    BY <1>1, <2>2, RequestToEffect
<1>5. QED
  BY <1>2, <1>3, <1>4, Writes

-----------------------------------------------------------------------------
(* Where a next game comes from. *)

\* The successors of r, and that they are its owner's and for its target.
Sources(r) ==
  /\ IF intents[r] = "consumed" THEN \E q \in RequestIds : Successors(r) = {q}
                                ELSE Successors(r) = {}
  /\ \A q \in Successors(r) : /\ requests[q].owner = requests[r].owner
                              /\ requests[q].target = requests[r].target

\* No successor comes or goes, and nothing becomes or ceases to be consumed.
LEMMA SourcesUntouched ==
  ASSUME Inv, [Next]_vars, NEW r \in RequestIds, Sources(r),
         Successors(r)' = Successors(r), ConsumedStays
  PROVE  Sources(r)'
<1>1. IF intents'[r] = "consumed" THEN \E q \in RequestIds : Successors(r)' = {q}
                                  ELSE Successors(r)' = {}
  BY DEF Sources, ConsumedStays
<1>2. ASSUME NEW q \in Successors(r)'
      PROVE  /\ requests'[q].owner = requests'[r].owner
             /\ requests'[q].target = requests'[r].target
  <2>1. q \in Successors(r) /\ q \in RequestIds /\ requests[q].origin = r
    BY <1>2 DEF Successors
  <2>2. requests[q].state # "none"
    BY <2>1 DEF Inv, RowsAgree, NoRequest, RequestIds
  <2>3. requests[r].state # "none"
    BY <2>1 DEF Sources, Inv, RowsAgree
  <2>4. QED
    BY <2>1, <2>2, <2>3, RequestKept DEF Sources
<1>3. QED
  BY <1>1, <1>2 DEF Sources

\* Every step keeps the sources of all next games.
LEMMA SourcesKept ==
  ASSUME Inv, [Next]_vars, \A r \in RequestIds : Sources(r)
  PROVE  \A r \in RequestIds : Sources(r)'
<1>1. /\ TypeOK /\ requests \in [RequestIds -> RequestRow]
      /\ intents \in [RequestIds -> IntentStates]
  BY DEF Inv, TypeOK
<1>2. CASE Rewrites
  <2>1. \A q \in RequestIds : requests'[q].origin = requests[q].origin
    BY <1>1, <1>2, RequestToEffect DEF Rewrites
  <2>2. \A r \in RequestIds : Successors(r)' = Successors(r)
    BY <2>1 DEF Successors
  <2>3. QED
    BY <1>2, <2>2, SourcesUntouched DEF Rewrites
<1>3. CASE Asks
  <2>1. \A q \in RequestIds : requests'[q].origin = requests[q].origin
    BY <1>1, <1>3 DEF Asks, Inv, RowsAgree, NoRequest
  <2>2. \A r \in RequestIds : Successors(r)' = Successors(r)
    BY <2>1 DEF Successors
  <2>3. QED
    BY <1>3, <2>2, SourcesUntouched DEF Asks, ConsumedStays
<1>4. ASSUME NEW r \in RequestIds, Continues(r), NEW p \in RequestIds
      PROVE  Sources(p)'
  <2>1. PICK s \in {"ended", "quarantined", "abandoned"} :
          \/ requests' = RequestTo(r, s) /\ ConsumedStays
          \/ \E q \in RequestIds \ {r} :
               /\ requests[q].state = "none"
               /\ requests' = [RequestTo(r, s) EXCEPT ![q] =
                    [state |-> "waiting", owner |-> requests[r].owner,
                     target |-> requests[r].target, origin |-> r]]
               /\ intents[r] # "consumed"
               /\ intents' = [intents EXCEPT ![r] = "consumed"]
    BY <1>4, ContinuesEffect
  <2>2. \A q \in RequestIds : RequestTo(r, s)[q].origin = requests[q].origin
    BY <1>1, RequestToEffect
  <2>3. CASE requests' = RequestTo(r, s) /\ ConsumedStays
    <3>1. Successors(p)' = Successors(p)
      BY <2>2, <2>3 DEF Successors
    <3>2. QED
      BY <2>3, <3>1, SourcesUntouched
  <2>4. ASSUME NEW q \in RequestIds \ {r},
               requests[q].state = "none",
               requests' = [RequestTo(r, s) EXCEPT ![q] =
                 [state |-> "waiting", owner |-> requests[r].owner,
                  target |-> requests[r].target, origin |-> r]],
               intents[r] # "consumed", intents' = [intents EXCEPT ![r] = "consumed"]
        PROVE  Sources(p)'
    <3>1. /\ requests'[q].origin = r /\ requests[q].origin = 0
          /\ requests'[q].owner = requests[r].owner /\ requests'[q].target = requests[r].target
      BY <1>1, <2>4 DEF Inv, RowsAgree, NoRequest, RequestTo
    <3>2. \A u \in RequestIds \ {q} : requests'[u].origin = requests[u].origin
      BY <1>1, <2>2, <2>4 DEF RequestTo
    <3>3. CASE p = r
      <4>1. Successors(r) = {} /\ intents'[r] = "consumed"
        BY <1>1, <2>4 DEF Sources
      <4>2. Successors(r)' = {q}
        BY <3>1, <3>2, <4>1 DEF Successors
      <4>3. /\ requests'[r].owner = requests[r].owner
            /\ requests'[r].target = requests[r].target
        BY <1>4, RequestKept, ContinuesEffect
      <4>4. QED
        BY <3>1, <3>3, <4>1, <4>2, <4>3 DEF Sources
    <3>4. CASE p # r
      <4>1. Successors(p)' = Successors(p)
        BY <3>1, <3>2, <3>4 DEF Successors, RequestIds
      <4>2. intents'[p] = intents[p]
        BY <1>1, <2>4, <3>4
      <4>3. ASSUME NEW u \in Successors(p)
            PROVE  /\ requests'[u].owner = requests'[p].owner
                   /\ requests'[u].target = requests'[p].target
        <5>1. u \in RequestIds /\ requests[u].state # "none"
          BY <4>3 DEF Successors, Inv, RowsAgree, NoRequest, RequestIds
        <5>2. requests[p].state # "none"
          BY <4>3 DEF Sources, Inv, RowsAgree
        <5>3. QED
          BY <4>3, <5>1, <5>2, RequestKept DEF Sources
      <4>4. QED
        BY <4>1, <4>2, <4>3 DEF Sources
    <3>5. QED
      BY <3>3, <3>4
  <2>5. QED
    BY <2>1, <2>3, <2>4
<1>5. QED
  BY <1>2, <1>3, <1>4, Writes

\* An intent is consumed once, by a request of the same owner for the same
\* target, and only when the old request is over.
THEOREM NextOnce == Spec => []NextGameOnce
<1>1. Init => \A r \in RequestIds : Sources(r)
  BY DEF Init, Sources, Successors, NoRequest, RequestIds
<1>2. Inv /\ (\A r \in RequestIds : Sources(r)) /\ [Next]_vars
      => (\A r \in RequestIds : Sources(r))'
  BY SourcesKept
<1>3. Inv /\ (\A r \in RequestIds : Sources(r)) => NextGameOnce
  <2>1. SUFFICES ASSUME Inv, NEW r \in RequestIds, Sources(r)
                 PROVE  /\ Cardinality(Successors(r)) =
                             IF intents[r] = "consumed" THEN 1 ELSE 0
                        /\ intents[r] \in {"consumed", "refused"} =>
                             requests[r].state \in {"ended", "abandoned"}
                        /\ \A q \in Successors(r) :
                             /\ requests[q].owner = requests[r].owner
                             /\ requests[q].target = requests[r].target
    BY DEF NextGameOnce
  <2>2. Cardinality(Successors(r)) = IF intents[r] = "consumed" THEN 1 ELSE 0
    BY <2>1, FS_EmptySet, FS_Singleton DEF Sources
  <2>3. QED
    BY <2>1, <2>2 DEF Inv, IntentAgrees, Sources
<1>4. QED
  BY <1>1, <1>2, <1>3, InvHolds, PTL DEF Spec

-----------------------------------------------------------------------------
(* Which nodes a request has been to. *)

\* The attempt had no effect, and may be followed by one on another node.
Rejected(a) ==
  /\ allocations[a].state = "released_no_effect"
  /\ requests[allocations[a].request].target = AnyNode

\* Every attempt of a waiting request, and every one that another has followed.
EarlierRejected ==
  \A a \in AllocationIds :
    allocations[a].state # "none"
    /\ (requests[allocations[a].request].state = "waiting" \/ ~Latest(a))
    => Rejected(a)

\* Once rejected, an attempt is rejected for ever.
LEMMA RejectedStays ==
  ASSUME Inv, [Next]_vars, NEW a \in AllocationIds, Rejected(a)
  PROVE  allocations'[a] = allocations[a] /\ Rejected(a)'
<1>1. allocations'[a] = allocations[a]
  BY NothingLateStep DEF Rejected, Released, vars
<1>2. /\ allocations[a].request \in RequestIds
      /\ requests[allocations[a].request].state # "none"
  BY DEF Rejected, Inv, RowsAgree
<1>3. QED
  BY <1>1, <1>2, RequestKept DEF Rejected

\* A step that reserves nothing leaves the attempts where they are.
LEMMA AttemptsStay ==
  ASSUME Inv, [Next]_vars,
         ~\E a \in AllocationIds, r \in RequestIds, n \in Nodes :
            ReserveFor(a, r, n) /\ Serves(r, n)
  PROVE  \A a \in AllocationIds :
           /\ allocations'[a].request = allocations[a].request
           /\ allocations'[a].node = allocations[a].node
           /\ allocations'[a].state = "none" <=> allocations[a].state = "none"
<1>1. CASE UNCHANGED vars
  BY <1>1 DEF vars
<1>2. CASE NoStep
  BY <1>2 DEF NoStep
<1>3. CASE \E r \in RequestIds : RequestStep(r)
  BY <1>3 DEF RequestStep
<1>4. CASE \E a \in AllocationIds : StepOf(a)
  BY <1>4 DEF StepOf, Touches
<1>5. QED
  BY <1>1, <1>2, <1>3, <1>4, NextCases

\* Such a step keeps what is known of the earlier attempts.
LEMMA EarlierKeptWithout ==
  ASSUME Inv, EarlierRejected, [Next]_vars,
         ~\E a \in AllocationIds, r \in RequestIds, n \in Nodes :
            ReserveFor(a, r, n) /\ Serves(r, n)
  PROVE  EarlierRejected'
<1>1. \A a \in AllocationIds :
        /\ allocations'[a].request = allocations[a].request
        /\ allocations'[a].state = "none" <=> allocations[a].state = "none"
        /\ Latest(a)' <=> Latest(a)
  BY AttemptsStay DEF Latest, Attempts
<1>2. SUFFICES ASSUME NEW a \in AllocationIds, allocations'[a].state # "none",
                      requests'[allocations'[a].request].state = "waiting" \/ ~Latest(a)'
               PROVE  Rejected(a)'
  BY DEF EarlierRejected
<1>. DEFINE r == allocations[a].request
<1>3. allocations[a].state # "none" /\ r \in RequestIds /\ requests[r].state # "none"
  BY <1>1, <1>2 DEF Inv, RowsAgree
<1>4. CASE ~Latest(a) \/ requests[r].state = "waiting"
  BY <1>3, <1>4, RejectedStays DEF EarlierRejected
<1>5. CASE Latest(a) /\ requests[r].state # "waiting"
  <2>1. MayBecome(r, "waiting")
    BY <1>1, <1>2, <1>3, <1>5, RequestKept
  <2>2. PICK c \in Attempts(r) : /\ allocations[c].state \notin Released \cup {"none"}
                                 /\ allocations' = AllocationTo(c, "released_no_effect")
    BY <2>1 DEF MayBecome
  <2>3. c \in AllocationIds /\ allocations[c].request = r /\ Latest(c)
    BY <2>2, AttemptFacts DEF Attempts
  <2>4. a = c
    BY <1>5, <2>3 DEF Latest, Attempts, AllocationIds
  <2>5. TypeOK /\ requests[r].target = AnyNode
    BY <2>1 DEF Inv, MayBecome
  <2>6. allocations'[a].state = "released_no_effect" /\ requests'[r].target = AnyNode
    BY <1>3, <2>2, <2>4, <2>5, AllocationToEffect, RequestKept
  <2>7. QED
    BY <1>1, <2>6 DEF Rejected
<1>6. QED
  BY <1>4, <1>5

\* The node a waiting request is sent to has held no attempt of it.
LEMMA ReservedNodeIsNew ==
  ASSUME Inv, EarlierRejected, NEW r \in RequestIds, NEW n \in Nodes,
         requests[r].state = "waiting", Serves(r, n),
         NEW a \in Attempts(r)
  PROVE  a \in AllocationIds /\ allocations[a].node # n /\ Rejected(a)
<1>1. a \in AllocationIds /\ allocations[a].request = r /\ allocations[a].state # "none"
  BY DEF Attempts, Inv, RowsAgree, NoAllocation, RequestIds
<1>2. Rejected(a)
  BY <1>1 DEF EarlierRejected
<1>3. QED
  BY <1>1, <1>2 DEF Rejected, Serves, Candidates, Refused

\* A reservation goes to a node that no attempt of the request has been on.
LEMMA ReserveKeepsNodes ==
  ASSUME Inv, EarlierRejected, NoNodeTwice, [Next]_vars,
         NEW a \in AllocationIds, NEW r \in RequestIds, NEW n \in Nodes,
         ReserveFor(a, r, n), Serves(r, n)
  PROVE  EarlierRejected' /\ NoNodeTwice'
<1>1. Reserved(a, r, n)
  BY ReserveRows
<1>2. /\ allocations[a].state = "none" /\ allocations[a].request = 0
      /\ allocations'[a].request = r /\ allocations'[a].node = n
      /\ \A b \in AllocationIds \ {a} : /\ allocations'[b] = allocations[b]
                                        /\ b > a => allocations[b].request = 0
      /\ requests[r].state = "waiting" /\ requests'[r].state = "allocating"
      /\ \A q \in RequestIds \ {r} : requests'[q] = requests[q]
  BY <1>1 DEF Reserved, NoAllocation
<1>3. \A b \in Attempts(r) : b \in AllocationIds /\ allocations[b].node # n /\ Rejected(b)
  BY <1>2, ReservedNodeIsNew
<1>4. ASSUME NEW b \in AllocationIds, allocations'[b].state # "none",
             requests'[allocations'[b].request].state = "waiting" \/ ~Latest(b)'
      PROVE  Rejected(b)'
  <2>1. CASE b = a
    <3>1. Latest(a)'
      BY <1>2 DEF Latest, Attempts, AllocationIds, RequestIds
    <3>2. QED
      BY <1>2, <1>4, <2>1, <3>1
  <2>2. CASE b # a /\ allocations[b].request = r
    BY <1>3, <2>2, RejectedStays DEF Attempts
  <2>3. CASE b # a /\ allocations[b].request # r
    <3>1. allocations'[b] = allocations[b] /\ allocations[b].request \in RequestIds \ {r}
      BY <1>2, <1>4, <2>3 DEF Inv, RowsAgree
    <3>2. Latest(b)' <=> Latest(b)
      BY <1>2, <3>1 DEF Latest, Attempts, RequestIds
    <3>3. Rejected(b)
      BY <1>2, <1>4, <3>1, <3>2 DEF EarlierRejected
    <3>4. QED
      BY <3>3, RejectedStays
  <2>4. QED
    BY <2>1, <2>2, <2>3
<1>5. ASSUME NEW b \in AllocationIds, NEW c \in AllocationIds,
             b # c, allocations'[b].state # "none",
             allocations'[b].request = allocations'[c].request
      PROVE  allocations'[b].node # allocations'[c].node
  <2>1. CASE b # a /\ c # a
    BY <1>2, <1>5, <2>1 DEF NoNodeTwice
  <2>2. CASE b = a \/ c = a
    BY <1>2, <1>3, <1>5, <2>2 DEF Attempts
  <2>3. QED
    BY <2>1, <2>2
<1>6. QED
  BY <1>4, <1>5 DEF EarlierRejected, NoNodeTwice

\* An automatic request never comes back to a node that has rejected it, however
\* often it is sent on.
THEOREM NodesOnce == Spec => []NoNodeTwice
<1>1. Init => EarlierRejected /\ NoNodeTwice
  BY DEF Init, EarlierRejected, NoNodeTwice, NoAllocation
<1>2. Inv /\ (EarlierRejected /\ NoNodeTwice) /\ [Next]_vars
      => (EarlierRejected /\ NoNodeTwice)'
  <2>. SUFFICES ASSUME Inv, EarlierRejected, NoNodeTwice, [Next]_vars
                PROVE  EarlierRejected' /\ NoNodeTwice'
    OBVIOUS
  <2>1. CASE \E a \in AllocationIds, r \in RequestIds, n \in Nodes :
               ReserveFor(a, r, n) /\ Serves(r, n)
    BY <2>1, ReserveKeepsNodes
  <2>2. CASE ~\E a \in AllocationIds, r \in RequestIds, n \in Nodes :
                ReserveFor(a, r, n) /\ Serves(r, n)
    BY <2>2, EarlierKeptWithout, AttemptsStay DEF NoNodeTwice
  <2>3. QED
    BY <2>1, <2>2
<1>3. QED
  BY <1>1, <1>2, InvHolds, PTL DEF Spec
=============================================================================
