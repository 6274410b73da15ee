-------------------------- MODULE LifecycleProofs --------------------------
(* Proofs about Lifecycle for every number of owners, nodes, requests and   *)
(* attempts.                                                                *)
EXTENDS Lifecycle, FiniteSetTheorems, TLAPS

-----------------------------------------------------------------------------
(* The inductive invariant. *)

\* Ids are handed out in order and a row never refers to one that is not there.
RowsAgree ==
  /\ \A r \in RequestIds :
       IF requests[r].state = "none"
         THEN requests[r] = NoRequest /\ intents[r] = "none"
         ELSE requests[r].owner \in Owners
  /\ \A a \in AllocationIds :
       IF allocations[a].state = "none"
         THEN allocations[a] = NoAllocation /\ creates[a] = NoCreate /\ stops[a] = NoStop
         ELSE /\ allocations[a].request \in RequestIds
              /\ allocations[a].node \in Nodes
              /\ requests[allocations[a].request].state # "none"
  /\ \A a, b \in AllocationIds :
       b < a /\ allocations[a].state # "none" => allocations[b].state # "none"

\* What an attempt and its jobs say of each other.
AttemptAgrees(a) ==
  /\ creates[a].state \in OpenJob => allocations[a].state \in Starting \cup {"quarantined"}
  /\ creates[a].state = "pending" => allocations[a].state = "reserved"
  /\ stops[a].state \in OpenJob =>
       allocations[a].state \in {"stopping", "quarantined"} \cup Released
  /\ ~(creates[a].state \in Unresolved /\ stops[a].state \in Unresolved)
  /\ allocations[a].state \in Starting => creates[a].state \in OpenJob
  /\ allocations[a].state = "stopping" => stops[a].state \in OpenJob
  /\ allocations[a].state = "running" =>
       /\ creates[a].state = "succeeded" /\ creates[a].ids = CoreIds
       /\ stops[a].state \notin OpenJob

\* How far the intent of a request is along with it.
IntentAgrees(r) ==
  /\ intents[r] = "pending" => requests[r].state = "stopping"
  /\ intents[r] = "paused" => requests[r].state = "quarantined"
  /\ intents[r] \in {"consumed", "refused"} => requests[r].state \in {"ended", "abandoned"}

\* The create of an attempt with an intent is closed, so that no late rejection
\* of it can send the request back to waiting.
ClosedBeforeIntent(a) ==
  allocations[a].state # "none" /\ intents[allocations[a].request] # "none"
  => creates[a].state \notin OpenJob

Inv ==
  /\ TypeOK
  /\ RowsAgree
  /\ \A a \in AllocationIds : AttemptAgrees(a) /\ ClosedBeforeIntent(a)
  /\ \A r \in RequestIds : IntentAgrees(r)
  /\ RequestMirrorsAttempt
  /\ QuarantinedCanBeAbandoned
  /\ OneBlockingRequest

-----------------------------------------------------------------------------
(* Types. *)

\* A request row whose state is rewritten keeps its type.
LEMMA RequestToType ==
  ASSUME TypeOK, NEW r, NEW s \in RequestStates
  PROVE  RequestTo(r, s) \in [RequestIds -> RequestRow]
<1> DEFINE t == IF requests[r].state = "abandoned" THEN "abandoned" ELSE s
<1>1. requests \in [RequestIds -> RequestRow]
  BY DEF TypeOK
<1>2. ASSUME r \in RequestIds
      PROVE  [requests[r] EXCEPT !.state = t] \in RequestRow
  BY <1>1, <1>2 DEF RequestRow
<1>3. RequestTo(r, s) = [requests EXCEPT ![r] = [requests[r] EXCEPT !.state = t]]
  BY DEF RequestTo
<1> QED BY <1>1, <1>2, <1>3

\* An attempt row whose state is rewritten keeps its type.
LEMMA AllocationToType ==
  ASSUME TypeOK, NEW a, NEW s \in OccupyingStates \cup Released
  PROVE  AllocationTo(a, s) \in [AllocationIds -> AllocationRow]
BY DEF TypeOK, AllocationTo, AllocationRow

\* A new stop job is a stop row.
LEMMA NewStopType ==
  ASSUME TypeOK, NEW a
  PROVE  [stops EXCEPT ![a] = NewStop] \in [AllocationIds -> StopRow]
BY DEF TypeOK, StopRow, NewStop, CoreIds, OpenJob

\* Pausing an intent keeps the type of the intents.
LEMMA PauseIntentType ==
  ASSUME TypeOK, NEW r
  PROVE  PauseIntent(r) \in [RequestIds -> IntentStates]
BY DEF TypeOK, PauseIntent, IntentStates, PausedIntent

\* Moving an attempt together with its request keeps both types.
LEMMA MoveType ==
  ASSUME TypeOK, NEW a, NEW s \in OccupyingStates \cup Released, NEW q \in RequestStates,
         Move(a, s, q)
  PROVE  /\ requests' \in [RequestIds -> RequestRow]
         /\ allocations' \in [AllocationIds -> AllocationRow]
BY RequestToType, AllocationToType DEF Move

\* Quarantining an attempt keeps the types of the rows it touches.
LEMMA QuarantinedType ==
  ASSUME TypeOK, NEW a, Quarantined(a)
  PROVE  /\ requests' \in [RequestIds -> RequestRow]
         /\ allocations' \in [AllocationIds -> AllocationRow]
         /\ intents' \in [RequestIds -> IntentStates]
<1>1. "quarantined" \in OccupyingStates \cup Released /\ "quarantined" \in RequestStates
  BY DEF OccupyingStates, RequestStates, Blocking
<1> QED BY <1>1, MoveType, PauseIntentType DEF Quarantined

\* Consuming an intent keeps the types of requests and intents.
LEMMA ConsumeType ==
  ASSUME TypeOK, NEW r \in RequestIds,
         NEW reqs \in [RequestIds -> RequestRow], NEW b \in BOOLEAN,
         ConsumeIntent(r, reqs, b)
  PROVE  /\ requests' \in [RequestIds -> RequestRow]
         /\ intents' \in [RequestIds -> IntentStates]
<1>1. requests[r] \in RequestRow
  BY DEF TypeOK
<1>2. \A q \in RequestIds :
         [reqs EXCEPT ![q] = [state |-> "waiting", owner |-> requests[r].owner,
                              target |-> requests[r].target, origin |-> r]]
         \in [RequestIds -> RequestRow]
  BY <1>1 DEF RequestRow, RequestStates, Blocking
<1>3. /\ [intents EXCEPT ![r] = "refused"] \in [RequestIds -> IntentStates]
      /\ [intents EXCEPT ![r] = "consumed"] \in [RequestIds -> IntentStates]
  BY DEF TypeOK, IntentStates, PausedIntent
<1> QED BY <1>2, <1>3 DEF ConsumeIntent, TypeOK

\* The fields of a report are a job state, core ids and a Boolean.
LEMMA ReportTyped ==
  ASSUME NEW rep \in Report
  PROVE  /\ rep.state \in OpenJob \cup ClosedJob
         /\ rep.ids \in SUBSET CoreIds
         /\ rep.untrusted \in BOOLEAN
BY DEF Report, OpenJob, Unresolved, ClosedJob

\* The states the handlers write are states of the tables.
LEMMA StatesTyped ==
  /\ Blocking \cup {"ended", "cancelled", "unavailable", "abandoned"} = RequestStates
  /\ {"waiting", "allocating", "creating", "running", "stopping", "failed_unreclaimed",
      "quarantined", "ended", "cancelled", "unavailable", "abandoned"} \subseteq RequestStates
  /\ {"reserved", "creating", "create_unknown", "running", "stopping", "failed_unreclaimed",
      "quarantined", "reclaimed", "released_no_effect"} \subseteq OccupyingStates \cup Released
BY DEF Blocking, RequestStates, OccupyingStates, Starting, Released

\* The handling of a failed create keeps the types.
LEMMA CreateFailedType ==
  ASSUME TypeOK, NEW a, NEW known, NEW untrusted, CreateFailed(a, known, untrusted)
  PROVE  /\ requests' \in [RequestIds -> RequestRow]
         /\ allocations' \in [AllocationIds -> AllocationRow]
         /\ intents' \in [RequestIds -> IntentStates]
         /\ stops' \in [AllocationIds -> StopRow]
<1>1. CASE Quarantined(a) /\ UNCHANGED stops
  BY <1>1, QuarantinedType DEF TypeOK
<1>2. CASE /\ Move(a, "stopping", "stopping")
           /\ stops' = IF stops[a].state \in OpenJob THEN stops
                                                     ELSE [stops EXCEPT ![a] = NewStop]
           /\ UNCHANGED intents
  BY <1>2, MoveType, StatesTyped, NewStopType DEF TypeOK
<1>3. CASE Move(a, "failed_unreclaimed", "failed_unreclaimed") /\ UNCHANGED <<intents, stops>>
  BY <1>3, MoveType, StatesTyped DEF TypeOK
<1> QED BY <1>1, <1>2, <1>3 DEF CreateFailed

\* A create report keeps every row within its type.
LEMMA ReportCreateType ==
  ASSUME TypeOK, NEW a \in AllocationIds, NEW rep \in Report, ReportCreate(a, rep)
  PROVE  TypeOK'
<1>1. creates' \in [AllocationIds -> CreateRow]
  <2> DEFINE c == [state |-> rep.state, ids |-> creates[a].ids \cup rep.ids,
                   frozen |-> creates[a].frozen, untrusted |-> rep.untrusted]
  <2>1. creates[a] \in CreateRow
    BY DEF TypeOK
  <2>2. c \in CreateRow
    BY <2>1, ReportTyped DEF CreateRow
  <2>3. creates' = [creates EXCEPT ![a] = c]
    BY <2>1 DEF ReportCreate, TypeOK, CreateRow
  <2> QED BY <2>2, <2>3 DEF TypeOK
<1>2. /\ requests' \in [RequestIds -> RequestRow]
      /\ allocations' \in [AllocationIds -> AllocationRow]
      /\ intents' \in [RequestIds -> IntentStates]
      /\ stops' \in [AllocationIds -> StopRow]
  <2>1. CASE UNCHANGED <<requests, allocations, stops, intents>>
    BY <2>1 DEF TypeOK
  <2>2. CASE \E s \in OccupyingStates \cup Released, q \in RequestStates :
               Move(a, s, q) /\ UNCHANGED <<stops, intents>>
    BY <2>2, MoveType DEF TypeOK
  <2>3. CASE CreateFailed(a, "instance" \in creates[a].ids \cup rep.ids, rep.untrusted)
    BY <2>3, CreateFailedType
  <2> QED BY <2>1, <2>2, <2>3, StatesTyped DEF ReportCreate, ApplyCreateReport
<1> QED BY <1>1, <1>2 DEF ReportCreate, TypeOK

\* The handling of a stop that succeeded keeps the types.
LEMMA StopSucceededType ==
  ASSUME TypeOK, NEW a \in AllocationIds, allocations[a].request \in RequestIds,
         StopSucceeded(a)
  PROVE  /\ requests' \in [RequestIds -> RequestRow]
         /\ allocations' \in [AllocationIds -> AllocationRow]
         /\ intents' \in [RequestIds -> IntentStates]
<1> DEFINE r     == allocations[a].request
           ended == RequestTo(r, IF intents[r] \in PausedIntent THEN "quarantined" ELSE "ended")
<1>1. ended \in [RequestIds -> RequestRow]
  BY RequestToType, StatesTyped
<1>2. allocations' \in [AllocationIds -> AllocationRow]
  BY AllocationToType, StatesTyped DEF StopSucceeded
<1>3. CASE requests' = ended /\ UNCHANGED intents
  BY <1>1, <1>2, <1>3 DEF TypeOK
<1>4. CASE ConsumeIntent(r, ended, FALSE)
  BY <1>1, <1>2, <1>4, ConsumeType
<1> QED BY <1>3, <1>4 DEF StopSucceeded

\* A stop report keeps every row within its type.
LEMMA ReportStopType ==
  ASSUME TypeOK, NEW a \in AllocationIds, allocations[a].request \in RequestIds,
         NEW rep \in Report, ReportStop(a, rep)
  PROVE  TypeOK'
<1>1. stops' \in [AllocationIds -> StopRow]
  <2> DEFINE c == [state |-> rep.state, ids |-> stops[a].ids \cup rep.ids]
  <2>1. stops[a] \in StopRow
    BY DEF TypeOK
  <2>2. c \in StopRow
    BY <2>1, ReportTyped DEF StopRow
  <2>3. stops' = [stops EXCEPT ![a] = c]
    BY <2>1 DEF ReportStop, TypeOK, StopRow
  <2> QED BY <2>2, <2>3 DEF TypeOK
<1>2. /\ requests' \in [RequestIds -> RequestRow]
      /\ allocations' \in [AllocationIds -> AllocationRow]
      /\ intents' \in [RequestIds -> IntentStates]
  <2>1. CASE UNCHANGED <<requests, allocations, intents>>
    BY <2>1 DEF TypeOK
  <2>2. CASE Move(a, "stopping", "stopping") /\ UNCHANGED intents
    BY <2>2, MoveType, StatesTyped DEF TypeOK
  <2>3. CASE StopSucceeded(a)
    BY <2>3, StopSucceededType
  <2>4. CASE Quarantined(a)
    BY <2>4, QuarantinedType
  <2> QED BY <2>1, <2>2, <2>3, <2>4 DEF ReportStop, ApplyStopReport
<1> QED BY <1>1, <1>2 DEF ReportStop, TypeOK

\* An instance fact keeps every row within its type.
LEMMA FactType ==
  ASSUME TypeOK, NEW a \in AllocationIds, allocations[a].request \in RequestIds,
         ReportInstanceFact(a)
  PROVE  TypeOK'
<1> DEFINE r == allocations[a].request
<1>1. CASE ReclaimedFact(a)
  <2>1. allocations' \in [AllocationIds -> AllocationRow] /\ UNCHANGED stops
    BY <1>1, AllocationToType, StatesTyped DEF ReclaimedFact
  <2>2. CASE ConsumeIntent(r, RequestTo(r, "ended"), FALSE)
    <3>1. RequestTo(r, "ended") \in [RequestIds -> RequestRow]
      BY RequestToType, StatesTyped
    <3>2. /\ requests' \in [RequestIds -> RequestRow]
          /\ intents' \in [RequestIds -> IntentStates]
      BY <2>2, <3>1, ConsumeType
    <3> QED BY <2>1, <3>2 DEF ReportInstanceFact, TypeOK
  <2>3. CASE UNCHANGED <<requests, intents>>
    BY <2>1, <2>3 DEF ReportInstanceFact, TypeOK
  <2> QED BY <1>1, <2>2, <2>3 DEF ReclaimedFact
<1>2. CASE FailedFact(a)
  BY <1>2, CreateFailedType DEF FailedFact, ReportInstanceFact, TypeOK
<1>3. CASE DriftedFact(a)
  BY <1>3, QuarantinedType DEF DriftedFact, ReportInstanceFact, TypeOK
<1> QED BY <1>1, <1>2, <1>3 DEF ReportInstanceFact

-----------------------------------------------------------------------------
(* What the steps do to rows, whatever else they do. *)

\* requests' is reqs, or reqs with a first use of an id; intents follow.
LEMMA ConsumeEffect ==
  ASSUME TypeOK, RowsAgree, NEW r \in RequestIds, requests[r].state # "none",
         NEW reqs \in [RequestIds -> RequestRow],
         \A q \in RequestIds : reqs[q].state = "none" <=> requests[q].state = "none",
         NEW b \in BOOLEAN, ConsumeIntent(r, reqs, b)
  PROVE  /\ \A q \in RequestIds :
              \/ requests'[q] = reqs[q]
              \/ /\ requests[q].state = "none"
                 /\ requests'[q].state = "waiting" /\ requests'[q].owner = requests[r].owner
                 /\ intents[r] \in {"pending", "paused"} /\ intents'[r] = "consumed"
         /\ \A p, q \in RequestIds :
              requests'[p] # reqs[p] /\ requests'[q] # reqs[q] => p = q
         /\ \A q \in RequestIds : q # r => intents'[q] = intents[q]
         /\ IF intents[r] = "pending" \/ (b /\ intents[r] = "paused")
              THEN intents'[r] \in {"consumed", "refused"}
              ELSE intents'[r] = intents[r]
BY DEF ConsumeIntent, FreeRequest, TypeOK

\* RequestTo changes at most the state of its request.
LEMMA RequestToEffect ==
  ASSUME TypeOK, NEW r \in RequestIds, NEW s
  PROVE  /\ \A q \in RequestIds : q # r => RequestTo(r, s)[q] = requests[q]
         /\ RequestTo(r, s)[r].state = IF requests[r].state = "abandoned"
                                         THEN "abandoned" ELSE s
         /\ requests[r].state = "abandoned" => RequestTo(r, s)[r] = requests[r]
         /\ RequestTo(r, s)[r].owner = requests[r].owner
         /\ RequestTo(r, s)[r].target = requests[r].target
         /\ RequestTo(r, s)[r].origin = requests[r].origin
BY DEF TypeOK, RequestTo, RequestRow

\* AllocationTo changes the state of its attempt and nothing else.
LEMMA AllocationToEffect ==
  ASSUME TypeOK, NEW a \in AllocationIds, NEW s
  PROVE  /\ \A b \in AllocationIds : b # a => AllocationTo(a, s)[b] = allocations[b]
         /\ AllocationTo(a, s)[a].state = s
         /\ AllocationTo(a, s)[a].request = allocations[a].request
         /\ AllocationTo(a, s)[a].node = allocations[a].node
BY DEF TypeOK, AllocationTo, AllocationRow

\* A step about attempt a leaves every other attempt alone, and every other
\* request except one it may add.
Touches(a) ==
  LET r == allocations[a].request
  IN /\ \A b \in AllocationIds \ {a} :
          allocations'[b] = allocations[b] /\ creates'[b] = creates[b] /\ stops'[b] = stops[b]
     /\ allocations'[a].request = r /\ allocations'[a].node = allocations[a].node
     /\ \A q \in RequestIds \ {r} :
          /\ intents'[q] = intents[q]
          /\ \/ requests'[q] = requests[q]
             \/ /\ requests[q].state = "none"
                /\ requests'[q].state = "waiting" /\ requests'[q].owner = requests[r].owner
                /\ intents[r] \in {"pending", "paused"} /\ intents'[r] = "consumed"
     /\ \A p, q \in RequestIds \ {r} :
          requests'[p] # requests[p] /\ requests'[q] # requests[q] => p = q
     /\ requests'[r].owner = requests[r].owner
     /\ requests[r].state = "abandoned" => requests'[r] = requests[r]

\* Where the step leads the attempt and its request.
Leads(a, attempt, request) ==
  LET r == allocations[a].request
  IN /\ allocations'[a].state = attempt
     /\ requests'[r].state = IF requests[r].state = "abandoned" THEN "abandoned" ELSE request

Stays(a) ==
  LET r == allocations[a].request
  IN /\ allocations'[a] = allocations[a]
     /\ requests'[r] = requests[r]

IntentKept(a)  == intents'[allocations[a].request] = intents[allocations[a].request]
IntentPaused(a) ==
  intents'[allocations[a].request] =
    IF intents[allocations[a].request] = "pending" THEN "paused"
                                                   ELSE intents[allocations[a].request]

\* Move, row by row.
LEMMA MoveEffect ==
  ASSUME TypeOK, NEW a \in AllocationIds, allocations[a].request \in RequestIds,
         NEW s, NEW q, Move(a, s, q), UNCHANGED intents,
         \A b \in AllocationIds \ {a} : creates'[b] = creates[b] /\ stops'[b] = stops[b]
  PROVE  Touches(a) /\ Leads(a, s, q) /\ IntentKept(a)
BY RequestToEffect, AllocationToEffect DEF Move, Touches, Leads, IntentKept

\* Quarantined, row by row.
LEMMA QuarantinedEffect ==
  ASSUME TypeOK, NEW a \in AllocationIds, allocations[a].request \in RequestIds,
         Quarantined(a),
         \A b \in AllocationIds \ {a} : creates'[b] = creates[b] /\ stops'[b] = stops[b]
  PROVE  Touches(a) /\ Leads(a, "quarantined", "quarantined") /\ IntentPaused(a)
<1>1. intents' = PauseIntent(allocations[a].request)
  BY DEF Quarantined
<1>2. /\ IntentPaused(a)
      /\ \A q \in RequestIds \ {allocations[a].request} : intents'[q] = intents[q]
  BY <1>1 DEF PauseIntent, IntentPaused, TypeOK
<1> QED
  BY <1>2, RequestToEffect, AllocationToEffect DEF Quarantined, Move, Touches, Leads

\* What is left of attempt a and of its jobs after its create has failed.
FailsCreate(a, untrusted) ==
  \/ /\ untrusted /\ stops'[a] = stops[a]
     /\ Leads(a, "quarantined", "quarantined") /\ IntentPaused(a)
  \/ /\ ~untrusted
     /\ stops'[a] = IF stops[a].state \in OpenJob THEN stops[a] ELSE NewStop
     /\ Leads(a, "stopping", "stopping") /\ IntentKept(a)
  \/ /\ ~untrusted /\ stops'[a] = stops[a]
     /\ Leads(a, "failed_unreclaimed", "failed_unreclaimed") /\ IntentKept(a)

\* CreateFailed, row by row.
LEMMA CreateFailedEffect ==
  ASSUME TypeOK, NEW a \in AllocationIds, allocations[a].request \in RequestIds,
         NEW known, NEW untrusted \in BOOLEAN, CreateFailed(a, known, untrusted),
         \A b \in AllocationIds \ {a} : creates'[b] = creates[b]
  PROVE  Touches(a) /\ FailsCreate(a, untrusted)
<1>1. CASE untrusted /\ Quarantined(a) /\ UNCHANGED stops
  BY <1>1, QuarantinedEffect DEF FailsCreate
<1>2. CASE /\ ~untrusted
           /\ Move(a, "stopping", "stopping")
           /\ stops' = IF stops[a].state \in OpenJob THEN stops
                                                     ELSE [stops EXCEPT ![a] = NewStop]
           /\ UNCHANGED intents
  <2>1. /\ stops'[a] = IF stops[a].state \in OpenJob THEN stops[a] ELSE NewStop
        /\ \A b \in AllocationIds \ {a} : stops'[b] = stops[b]
    BY <1>2 DEF TypeOK
  <2> QED BY <1>2, <2>1, MoveEffect DEF FailsCreate
<1>3. CASE /\ ~untrusted
           /\ Move(a, "failed_unreclaimed", "failed_unreclaimed")
           /\ UNCHANGED <<intents, stops>>
  BY <1>3, MoveEffect DEF FailsCreate
<1> QED BY <1>1, <1>2, <1>3 DEF CreateFailed

ReportsCreate(a, rep) ==
  LET late == TooLate(a, rep.state = "rejected_no_effect")
  IN /\ Touches(a)
     /\ creates'[a] = [state |-> rep.state, ids |-> creates[a].ids \cup rep.ids,
                       frozen |-> creates[a].frozen, untrusted |-> rep.untrusted]
     /\ \/ late /\ Stays(a) /\ stops'[a] = stops[a] /\ IntentKept(a)
        \/ ~late /\ rep.state = "failed_with_effect" /\ FailsCreate(a, rep.untrusted)
        \/ /\ ~late /\ stops'[a] = stops[a] /\ IntentKept(a)
           /\ \/ rep.state = "accepted" /\ Leads(a, "creating", "creating")
              \/ rep.state = "unknown" /\ Leads(a, "create_unknown", "creating")
              \/ rep.state = "succeeded" /\ Leads(a, "running", "running")
              \/ /\ rep.state = "rejected_no_effect"
                 /\ \/ Leads(a, "released_no_effect", "waiting")
                    \/ Leads(a, "released_no_effect", "unavailable")

\* ReportCreate, row by row: which pairs of states it leads to.
LEMMA ReportCreateEffect ==
  ASSUME TypeOK, NEW a \in AllocationIds, allocations[a].request \in RequestIds,
         NEW rep \in Report, ReportCreate(a, rep)
  PROVE  ReportsCreate(a, rep)
<1>1. /\ creates'[a] = [state |-> rep.state, ids |-> creates[a].ids \cup rep.ids,
                        frozen |-> creates[a].frozen, untrusted |-> rep.untrusted]
      /\ \A b \in AllocationIds \ {a} : creates'[b] = creates[b]
  BY DEF ReportCreate, TypeOK
<1>2. rep.untrusted \in BOOLEAN
  BY ReportTyped
<1>3. CASE TooLate(a, rep.state = "rejected_no_effect")
  <2>1. UNCHANGED <<requests, allocations, stops, intents>>
    BY <1>3 DEF ReportCreate, ApplyCreateReport
  <2> QED BY <1>1, <1>3, <2>1 DEF Touches, Stays, IntentKept, ReportsCreate
<1>4. CASE ~TooLate(a, rep.state = "rejected_no_effect") /\ rep.state = "failed_with_effect"
  <2>1. CreateFailed(a, TRUE, rep.untrusted) \/ CreateFailed(a, FALSE, rep.untrusted)
    BY <1>4 DEF ReportCreate, ApplyCreateReport, CreateFailed
  <2>2. Touches(a) /\ FailsCreate(a, rep.untrusted)
    BY <1>1, <1>2, <2>1, CreateFailedEffect
  <2> QED BY <1>1, <1>4, <2>2 DEF ReportsCreate
<1>5. CASE ~TooLate(a, rep.state = "rejected_no_effect") /\ rep.state # "failed_with_effect"
  <2>1. UNCHANGED <<stops, intents>>
    BY <1>5 DEF ReportCreate, ApplyCreateReport
  <2>2. \/ rep.state = "accepted" /\ Move(a, "creating", "creating")
        \/ rep.state = "unknown" /\ Move(a, "create_unknown", "creating")
        \/ rep.state = "succeeded" /\ Move(a, "running", "running")
        \/ /\ rep.state = "rejected_no_effect"
           /\ \/ Move(a, "released_no_effect", "waiting")
              \/ Move(a, "released_no_effect", "unavailable")
    BY <1>5 DEF ReportCreate, ApplyCreateReport, Move
  <2> QED BY <1>1, <1>5, <2>1, <2>2, MoveEffect DEF ReportsCreate
<1> QED BY <1>3, <1>4, <1>5

\* The attempt is reclaimed; a paused next game waits for the owner's decision.
Reclaims(a) ==
  LET r == allocations[a].request
  IN /\ allocations'[a].state = "reclaimed"
     /\ \/ /\ intents[r] \in PausedIntent /\ IntentKept(a)
           /\ requests'[r].state = requests[r].state
        \/ /\ intents[r] \notin PausedIntent
           /\ requests'[r].state =
                IF requests[r].state = "abandoned" THEN "abandoned" ELSE "ended"
           /\ IF intents[r] = "pending" THEN intents'[r] \in {"consumed", "refused"}
                                        ELSE IntentKept(a)

\* What the states of a request and its attempt say of the intent.
PauseAgrees(a) ==
  LET r == allocations[a].request
  IN /\ intents[r] = "paused" => requests[r].state = "quarantined"
     /\ intents[r] = "refused" => requests[r].state = "abandoned"
     /\ allocations[a].state = "quarantined" => intents[r] # "pending"

\* StopSucceeded, row by row, with the intent it may consume.
LEMMA StopSucceededEffect ==
  ASSUME TypeOK, RowsAgree, NEW a \in AllocationIds, allocations[a].state # "none",
         PauseAgrees(a), StopSucceeded(a),
         \A b \in AllocationIds \ {a} : creates'[b] = creates[b] /\ stops'[b] = stops[b]
  PROVE  Touches(a) /\ Reclaims(a)
<1> DEFINE r     == allocations[a].request
           ended == RequestTo(r, IF intents[r] \in PausedIntent THEN "quarantined" ELSE "ended")
<1>1. r \in RequestIds /\ requests[r].state # "none"
  BY DEF RowsAgree
<1>2. /\ ended \in [RequestIds -> RequestRow]
      /\ \A q \in RequestIds \ {r} : ended[q] = requests[q]
      /\ ended[r].owner = requests[r].owner
      /\ requests[r].state = "abandoned" => ended[r] = requests[r]
      /\ ended[r].state = IF requests[r].state = "abandoned" THEN "abandoned"
                          ELSE IF intents[r] \in PausedIntent THEN "quarantined" ELSE "ended"
  BY <1>1, RequestToType, RequestToEffect, StatesTyped
<1>3. /\ allocations'[a].state = "reclaimed"
      /\ allocations'[a].request = r /\ allocations'[a].node = allocations[a].node
      /\ \A b \in AllocationIds \ {a} : allocations'[b] = allocations[b]
  BY AllocationToEffect DEF StopSucceeded
<1>4. CASE ConsumeIntent(r, ended, FALSE)
  <2>1. \/ requests' = ended
        \/ \E q \in RequestIds :
             /\ requests[q].state = "none" /\ intents[r] = "pending" /\ intents'[r] = "consumed"
             /\ requests' = [ended EXCEPT ![q] =
                  [state |-> "waiting", owner |-> requests[r].owner,
                   target |-> requests[r].target, origin |-> r]]
    BY <1>1, <1>4 DEF ConsumeIntent, FreeRequest, TypeOK
  <2>2. /\ \A q \in RequestIds \ {r} : intents'[q] = intents[q]
        /\ IF intents[r] = "pending" THEN intents'[r] \in {"consumed", "refused"}
                                     ELSE intents'[r] = intents[r]
    BY <1>1, <1>4 DEF ConsumeIntent, TypeOK
  <2>3. CASE requests' = ended
    BY <1>1, <1>2, <1>3, <2>2, <2>3 DEF Touches, Reclaims, PauseAgrees, IntentKept, PausedIntent
  <2>4. ASSUME NEW q \in RequestIds,
               requests[q].state = "none", intents[r] = "pending", intents'[r] = "consumed",
               requests' = [ended EXCEPT ![q] =
                  [state |-> "waiting", owner |-> requests[r].owner,
                   target |-> requests[r].target, origin |-> r]]
        PROVE  Touches(a) /\ Reclaims(a)
    <3> HIDE DEF ended
    <3>1. /\ q # r
          /\ requests'[q].state = "waiting" /\ requests'[q].owner = requests[r].owner
          /\ \A p \in RequestIds \ {q} : requests'[p] = ended[p]
      BY <1>1, <1>2, <2>4
    <3> QED
      BY <1>1, <1>2, <1>3, <2>2, <2>4, <3>1 DEF Touches, Reclaims, PausedIntent
  <2> QED BY <2>1, <2>3, <2>4
<1>5. CASE /\ allocations[a].state = "quarantined"
           /\ requests' = ended /\ UNCHANGED intents
  BY <1>1, <1>2, <1>3, <1>5 DEF Touches, Reclaims, PauseAgrees, IntentKept, PausedIntent, TypeOK, IntentStates
<1> QED BY <1>4, <1>5 DEF StopSucceeded

-----------------------------------------------------------------------------
(* A step about one attempt. *)

\* What every step about attempt a obeys: either only its jobs change, or it is
\* the newest attempt of a request that is not over, and the two move together.
StepOf(a) ==
  LET r == allocations[a].request
  IN /\ allocations[a].state # "none" /\ allocations'[a].state # "none"
     /\ requests'[r].state # "none"
     /\ Touches(a)
     /\ AttemptAgrees(a)'
     /\ creates'[a].state \in OpenJob => creates[a].state \in OpenJob /\ IntentKept(a)
     /\ \/ Stays(a) /\ IntentKept(a)
        \/ /\ Latest(a) /\ requests[r].state \in Blocking \cup {"abandoned"}
           /\ allocations[a].state \in Released => allocations'[a] = allocations[a]
           /\ allocations[a].state = "quarantined" =>
                allocations'[a].state \in {"quarantined"} \cup Released
           /\ IntentAgrees(r)'
           /\ \/ /\ allocations'[a].state \in OccupyingStates
                 /\ requests'[r].state \in StatesFor(allocations'[a].state)
              \/ /\ allocations'[a].state \in Released
                 /\ \/ requests'[r].state \in {"waiting", "unavailable", "ended", "abandoned"}
                    \/ /\ allocations'[a].state = "reclaimed"
                       /\ requests'[r].state = "quarantined" /\ intents'[r] = "paused"

\* No state of an attempt both occupies capacity and has released it.
LEMMA StatesDisjoint ==
  /\ OccupyingStates \cap Released = {}
  /\ "none" \notin OccupyingStates \cup Released \cup RequestStates \cup OpenJob
  /\ \A s \in OccupyingStates :
       /\ StatesFor(s) \subseteq (Blocking \ {"waiting"}) \cup {"abandoned"}
       /\ ("abandoned" \in StatesFor(s) \/ "quarantined" \in StatesFor(s)) => s = "quarantined"
       /\ s \in {"running", "stopping"} => StatesFor(s) = {s}
  /\ \A s \in Starting : StatesFor(s) \subseteq {"allocating", "creating"}
BY DEF OccupyingStates, Starting, Released, RequestStates, Blocking, OpenJob, Unresolved, StatesFor

\* The attempt a step is about keeps its place among the attempts.
LEMMA AttemptsKept ==
  ASSUME TypeOK, NEW a \in AllocationIds, Touches(a)
  PROVE  /\ \A b \in AllocationIds : allocations'[b].request = allocations[b].request
         /\ \A b \in AllocationIds : Latest(b)' <=> Latest(b)
         /\ \A r \in RequestIds : Attempts(r)' = Attempts(r)
<1>1. \A b \in AllocationIds : allocations'[b].request = allocations[b].request
  BY DEF Touches
<1> QED BY <1>1 DEF Attempts, Latest

\* A step about one attempt leaves the ids in order.
LEMMA StepOfKeepsRows ==
  ASSUME TypeOK, RowsAgree, NEW a \in AllocationIds, StepOf(a)
  PROVE  RowsAgree'
<1> DEFINE r == allocations[a].request
<1>1. r \in RequestIds /\ requests[r].state # "none" /\ requests[r].owner \in Owners
  BY DEF RowsAgree, StepOf
<1>2. \A q \in RequestIds :
        IF requests'[q].state = "none"
          THEN requests'[q] = NoRequest /\ intents'[q] = "none"
          ELSE requests'[q].owner \in Owners
  BY <1>1 DEF RowsAgree, StepOf, Touches
<1>3. \A q \in RequestIds : requests[q].state # "none" => requests'[q].state # "none"
  BY <1>1 DEF StepOf, Touches
<1>4. \A b \in AllocationIds : allocations'[b].state = "none" <=> allocations[b].state = "none"
  BY DEF StepOf, Touches
<1>5. \A b \in AllocationIds :
        IF allocations'[b].state = "none"
          THEN allocations'[b] = NoAllocation /\ creates'[b] = NoCreate /\ stops'[b] = NoStop
          ELSE /\ allocations'[b].request \in RequestIds
               /\ allocations'[b].node \in Nodes
               /\ requests'[allocations'[b].request].state # "none"
  BY <1>1, <1>3 DEF RowsAgree, StepOf, Touches
<1> QED BY <1>2, <1>4, <1>5 DEF RowsAgree

\* A step about one attempt leaves requests and newest attempts agreeing.
LEMMA StepOfKeepsMirror ==
  ASSUME Inv, NEW a \in AllocationIds, StepOf(a)
  PROVE  RequestMirrorsAttempt'
<1> DEFINE r == allocations[a].request
<1>1. r \in RequestIds /\ TypeOK
  BY DEF Inv, RowsAgree, StepOf
<1>2. CASE Stays(a) /\ IntentKept(a)
  <2>1. \A b \in AllocationIds : allocations'[b] = allocations[b]
    BY <1>2 DEF StepOf, Touches, Stays
  <2>2. \A q \in RequestIds : requests'[q] = requests[q]
    BY <1>1, <1>2 DEF StepOf, Touches, Stays, IntentKept
  <2>3. \A b \in AllocationIds : Occupying(b) => allocations[b].request \in RequestIds
    BY StatesDisjoint DEF Inv, RowsAgree, Occupying
  <2>4. RequestMirrorsAttempt
    BY DEF Inv
  <2>5. \A b \in AllocationIds : Occupying(b)' <=> Occupying(b)
    BY <2>1 DEF Occupying
  <2>6. ASSUME NEW b \in AllocationIds, Occupying(b)'
        PROVE  Latest(b)' /\ requests'[allocations'[b].request].state \in StatesFor(allocations'[b].state)
    BY <1>1, <2>1, <2>2, <2>3, <2>4, <2>5, <2>6, AttemptsKept DEF RequestMirrorsAttempt, StepOf
  <2>7. ASSUME NEW q \in RequestIds, requests'[q].state \in Blocking \ {"waiting", "quarantined"}
        PROVE  \E b \in Attempts(q)' : Occupying(b)'
    <3>1. PICK b \in Attempts(q) : Occupying(b)
      BY <2>2, <2>4, <2>7 DEF RequestMirrorsAttempt
    <3> QED BY <1>1, <2>5, <3>1, AttemptsKept DEF StepOf, Attempts
  <2> QED BY <2>6, <2>7 DEF RequestMirrorsAttempt
<1>3. CASE ~(Stays(a) /\ IntentKept(a))
  <2>1. /\ Latest(a)
        /\ \/ /\ allocations'[a].state \in OccupyingStates
              /\ requests'[r].state \in StatesFor(allocations'[a].state)
           \/ /\ allocations'[a].state \in Released
              /\ requests'[r].state \notin Blocking \ {"waiting", "quarantined"}
    BY <1>3 DEF StepOf, Blocking
  <2>2. ASSUME NEW b \in AllocationIds, Occupying(b)'
        PROVE  Latest(b)' /\ requests'[allocations'[b].request].state \in StatesFor(allocations'[b].state)
    <3>1. CASE b = a
      BY <1>1, <2>1, <2>2, <3>1, AttemptsKept, StatesDisjoint DEF Occupying, StepOf
    <3>2. CASE b # a
      <4>1. allocations'[b] = allocations[b] /\ Occupying(b)
        BY <2>2, <3>2 DEF StepOf, Touches, Occupying
      <4>2. Latest(b) /\ requests[allocations[b].request].state \in StatesFor(allocations[b].state)
        BY <4>1 DEF Inv, RequestMirrorsAttempt
      <4>3. allocations[b].request \in RequestIds /\ requests[allocations[b].request].state # "none"
        BY <4>1, StatesDisjoint DEF Inv, RowsAgree, Occupying
      <4>4. allocations[b].request # r
        BY <2>1, <3>2, <4>2 DEF Latest, Attempts, AllocationIds
      <4>5. requests'[allocations[b].request] = requests[allocations[b].request]
        BY <4>3, <4>4 DEF StepOf, Touches
      <4> QED BY <1>1, <4>1, <4>2, <4>5, AttemptsKept DEF StepOf
    <3> QED BY <3>1, <3>2
  <2>3. ASSUME NEW q \in RequestIds, requests'[q].state \in Blocking \ {"waiting", "quarantined"}
        PROVE  \E b \in Attempts(q)' : Occupying(b)'
    <3>1. CASE q = r
      BY <1>1, <2>1, <2>3, <3>1, AttemptsKept DEF Occupying, StepOf, Attempts
    <3>2. CASE q # r
      <4>1. requests'[q] = requests[q]
        BY <2>3, <3>2 DEF StepOf, Touches
      <4>2. PICK b \in Attempts(q) : Occupying(b)
        BY <2>3, <4>1 DEF Inv, RequestMirrorsAttempt
      <4>3. b \in AllocationIds /\ allocations'[b] = allocations[b]
        BY <3>2, <4>2 DEF StepOf, Touches, Attempts
      <4> QED BY <1>1, <4>2, <4>3, AttemptsKept DEF Occupying, StepOf
    <3> QED BY <3>1, <3>2
  <2> QED BY <2>2, <2>3 DEF RequestMirrorsAttempt
<1> QED BY <1>2, <1>3

\* A step about one attempt leaves attempts, jobs and intents agreeing.
LEMMA StepOfKeepsAgreement ==
  ASSUME Inv, NEW a \in AllocationIds, StepOf(a)
  PROVE  /\ \A b \in AllocationIds : (AttemptAgrees(b) /\ ClosedBeforeIntent(b))'
         /\ \A q \in RequestIds : IntentAgrees(q)'
<1> DEFINE r == allocations[a].request
<1>1. r \in RequestIds /\ TypeOK
  BY DEF Inv, RowsAgree, StepOf
<1>2. ASSUME NEW b \in AllocationIds
      PROVE  AttemptAgrees(b)'
  <2>1. CASE b = a
    BY <2>1 DEF StepOf
  <2>2. CASE b # a
    BY <2>2 DEF Inv, AttemptAgrees, StepOf, Touches
  <2> QED BY <2>1, <2>2
<1>3. ASSUME NEW b \in AllocationIds
      PROVE  ClosedBeforeIntent(b)'
  <2>1. CASE b = a
    BY <1>1, <2>1, AttemptsKept DEF Inv, ClosedBeforeIntent, StepOf, IntentKept
  <2>2. CASE b # a /\ allocations[b].request # r
    <3>1. allocations[b].state # "none" => allocations[b].request \in RequestIds
      BY DEF Inv, RowsAgree
    <3> QED BY <2>2, <3>1 DEF Inv, ClosedBeforeIntent, StepOf, Touches
  <2>3. CASE b # a /\ allocations[b].request = r
    <3>1. CASE Stays(a) /\ IntentKept(a)
      BY <2>3, <3>1 DEF Inv, ClosedBeforeIntent, StepOf, Touches, IntentKept
    <3>2. CASE Latest(a)
      <4>1. ~Occupying(b)
        BY <2>3, <3>2 DEF Inv, RequestMirrorsAttempt, Latest, Attempts, AllocationIds
      <4>2. creates[b].state \notin OpenJob
        BY <4>1 DEF Inv, AttemptAgrees, Occupying, OccupyingStates
      <4> QED BY <2>3, <4>2 DEF ClosedBeforeIntent, StepOf, Touches
    <3> QED BY <3>1, <3>2 DEF StepOf
  <2> QED BY <2>1, <2>2, <2>3
<1>4. ASSUME NEW q \in RequestIds
      PROVE  IntentAgrees(q)'
  <2>1. CASE q = r /\ Stays(a) /\ IntentKept(a)
    BY <2>1 DEF Inv, IntentAgrees, Stays, IntentKept
  <2>2. CASE q = r /\ ~(Stays(a) /\ IntentKept(a))
    BY <1>1, <2>2, AttemptsKept DEF StepOf, IntentAgrees
  <2>3. CASE q # r
    BY <2>3 DEF Inv, RowsAgree, IntentAgrees, StepOf, Touches
  <2> QED BY <2>1, <2>2, <2>3
<1> QED BY <1>2, <1>3, <1>4

\* No request becomes blocking but one that a consumed intent adds.
LEMMA StepOfBlocks ==
  ASSUME Inv, NEW a \in AllocationIds, StepOf(a)
  PROVE  LET r == allocations[a].request
         IN /\ \A q \in RequestIds : requests[q].state # "none" => requests'[q].owner = requests[q].owner
            /\ \A q \in RequestIds : requests'[q].state \in Blocking =>
                 \/ requests[q].state \in Blocking
                 \/ /\ requests[q].state = "none" /\ requests'[q].owner = requests[r].owner
                    /\ requests[r].state \in Blocking /\ requests'[r].state \notin Blocking
            /\ \A p, q \in RequestIds :
                 /\ requests[p].state = "none" /\ requests'[p].state \in Blocking
                 /\ requests[q].state = "none" /\ requests'[q].state \in Blocking
                 => p = q
<1> DEFINE r == allocations[a].request
<1>1. r \in RequestIds /\ requests[r].state # "none" /\ IntentAgrees(r)
  BY DEF Inv, RowsAgree, StepOf
<1>2. requests'[r].state \in Blocking => requests[r].state \in Blocking
  BY <1>1 DEF StepOf, Stays, Touches, Blocking
<1>3. intents[r] \in {"pending", "paused"} /\ intents'[r] = "consumed" =>
        requests[r].state \in Blocking /\ requests'[r].state \notin Blocking
  BY <1>1 DEF StepOf, Touches, IntentKept, IntentAgrees, Blocking
<1>4. Touches(a) /\ "none" \notin Blocking /\ "waiting" \in Blocking
  BY DEF StepOf, Blocking
<1>5. \A q \in RequestIds : requests[q].state # "none" => requests'[q].owner = requests[q].owner
  BY <1>4 DEF Touches
<1>6. \A q \in RequestIds : requests'[q].state \in Blocking =>
        \/ requests[q].state \in Blocking
        \/ /\ requests[q].state = "none" /\ requests'[q].owner = requests[r].owner
           /\ requests[r].state \in Blocking /\ requests'[r].state \notin Blocking
  BY <1>2, <1>3, <1>4 DEF Touches
<1>7. \A p, q \in RequestIds :
        /\ requests[p].state = "none" /\ requests'[p].state \in Blocking
        /\ requests[q].state = "none" /\ requests'[q].state \in Blocking
        => p = q
  <2> SUFFICES ASSUME NEW p \in RequestIds, NEW q \in RequestIds,
                      requests[p].state = "none", requests'[p].state \in Blocking,
                      requests[q].state = "none", requests'[q].state \in Blocking
               PROVE  p = q
    OBVIOUS
  <2>1. requests'[p] # requests[p] /\ requests'[q] # requests[q] /\ p # r /\ q # r
    BY <1>1, <1>4
  <2> QED BY <1>4, <2>1 DEF Touches
<1> QED BY <1>5, <1>6, <1>7

\* A step about one attempt gives no owner a second blocking request.
LEMMA StepOfKeepsOneBlocking ==
  ASSUME Inv, NEW a \in AllocationIds, StepOf(a)
  PROVE  OneBlockingRequest'
<1> DEFINE r == allocations[a].request
<1>1. r \in RequestIds /\ requests[r].state # "none"
  BY DEF Inv, RowsAgree, StepOf
<1>2. ASSUME NEW p \in RequestIds, NEW q \in RequestIds,
             requests'[p].state \in Blocking, requests'[q].state \in Blocking,
             requests'[p].owner = requests'[q].owner
      PROVE  p = q
  BY <1>1, <1>2, StepOfBlocks DEF Inv, OneBlockingRequest, Blocking
<1> QED BY <1>2 DEF OneBlockingRequest

\* A step about one attempt leaves every quarantined request its way out.
LEMMA StepOfKeepsExit ==
  ASSUME Inv, NEW a \in AllocationIds, StepOf(a)
  PROVE  QuarantinedCanBeAbandoned'
<1> DEFINE r == allocations[a].request
<1>1. r \in RequestIds /\ TypeOK
  BY DEF Inv, RowsAgree, StepOf
<1>2. ASSUME NEW q \in RequestIds, requests'[q].state = "quarantined",
             ~(q = r /\ ~(Stays(a) /\ IntentKept(a)))
      PROVE  \E b \in Attempts(q)' :
               /\ Latest(b)'
               /\ \/ allocations'[b].state = "quarantined"
                  \/ allocations'[b].state = "reclaimed" /\ intents'[q] = "paused"
  <2>1. requests[q].state = "quarantined" /\ intents'[q] = intents[q]
    BY <1>2 DEF StepOf, Touches, Stays, IntentKept
  <2>2. PICK b \in Attempts(q) :
               /\ Latest(b)
               /\ \/ allocations[b].state = "quarantined"
                  \/ allocations[b].state = "reclaimed" /\ intents[q] = "paused"
    BY <2>1 DEF Inv, QuarantinedCanBeAbandoned
  <2>3. b \in AllocationIds /\ allocations'[b] = allocations[b]
    BY <1>2, <2>2 DEF StepOf, Touches, Stays, Attempts
  <2> QED BY <1>1, <2>1, <2>2, <2>3, AttemptsKept DEF StepOf
<1>3. ASSUME NEW q \in RequestIds, q = r, requests'[q].state = "quarantined",
             ~(Stays(a) /\ IntentKept(a))
      PROVE  \E b \in Attempts(q)' :
               /\ Latest(b)'
               /\ \/ allocations'[b].state = "quarantined"
                  \/ allocations'[b].state = "reclaimed" /\ intents'[q] = "paused"
  <2>1. a \in Attempts(q)' /\ Latest(a)'
    BY <1>1, <1>3, AttemptsKept DEF StepOf, Attempts
  <2>2. \/ allocations'[a].state = "quarantined"
        \/ allocations'[a].state = "reclaimed" /\ intents'[q] = "paused"
    BY <1>3, StatesDisjoint DEF StepOf
  <2> QED BY <2>1, <2>2
<1>4. ASSUME NEW q \in RequestIds, requests'[q].state = "quarantined"
      PROVE  \E b \in Attempts(q)' :
               /\ Latest(b)'
               /\ \/ allocations'[b].state = "quarantined"
                  \/ allocations'[b].state = "reclaimed" /\ intents'[q] = "paused"
  <2>1. CASE q = r /\ ~(Stays(a) /\ IntentKept(a))
    BY <1>3, <1>4, <2>1
  <2>2. CASE ~(q = r /\ ~(Stays(a) /\ IntentKept(a)))
    BY <1>2, <1>4, <2>2
  <2> QED BY <2>1, <2>2
<1> QED BY <1>4 DEF QuarantinedCanBeAbandoned

\* A step about one attempt preserves the inductive invariant.
LEMMA StepOfKeepsInv ==
  ASSUME Inv, NEW a \in AllocationIds, StepOf(a), TypeOK'
  PROVE  Inv'
<1>1. TypeOK /\ RowsAgree
  BY DEF Inv
<1> QED
  BY <1>1, StepOfKeepsRows, StepOfKeepsMirror, StepOfKeepsAgreement, StepOfKeepsOneBlocking,
     StepOfKeepsExit
  DEF Inv

-----------------------------------------------------------------------------
(* The steps about one attempt. *)

\* What the invariant says of an attempt that is there, of its request and of
\* its jobs.
LEMMA AttemptFacts ==
  ASSUME Inv, NEW a \in AllocationIds, allocations[a].state # "none"
  PROVE  LET r == allocations[a].request
         IN /\ TypeOK /\ RowsAgree /\ AttemptAgrees(a) /\ ClosedBeforeIntent(a)
            /\ r \in RequestIds /\ a \in Attempts(r)
            /\ requests[r].state # "none" /\ IntentAgrees(r)
            /\ allocations[a].state \in OccupyingStates \cup Released
            /\ allocations[a].state \in OccupyingStates =>
                 /\ Latest(a) /\ requests[r].state \in StatesFor(allocations[a].state)
                 /\ requests[r].state \in Blocking \cup {"abandoned"}
                 /\ requests[r].state = "abandoned" => allocations[a].state = "quarantined"
                 /\ PauseAgrees(a)
<1> DEFINE r == allocations[a].request
<1>1. /\ TypeOK /\ RowsAgree /\ AttemptAgrees(a) /\ ClosedBeforeIntent(a)
      /\ r \in RequestIds /\ requests[r].state # "none" /\ IntentAgrees(r)
  BY DEF Inv, RowsAgree
<1>2. allocations[a].state \in OccupyingStates \cup Released
  BY <1>1 DEF TypeOK, AllocationRow
<1>3. ASSUME allocations[a].state \in OccupyingStates
      PROVE  /\ Latest(a) /\ requests[r].state \in StatesFor(allocations[a].state)
             /\ requests[r].state \in Blocking \cup {"abandoned"}
             /\ requests[r].state = "abandoned" => allocations[a].state = "quarantined"
  BY <1>3, StatesDisjoint DEF Inv, RequestMirrorsAttempt, Occupying
<1>4. ASSUME allocations[a].state \in OccupyingStates
      PROVE  PauseAgrees(a)
  BY <1>1, <1>3, <1>4 DEF IntentAgrees, PauseAgrees, Blocking, StatesFor
<1> QED BY <1>1, <1>2, <1>3, <1>4 DEF Attempts

\* A claim of either job is a step about one attempt.
LEMMA ClaimStep ==
  ASSUME Inv, NEW a \in AllocationIds, ClaimCreate(a) \/ ClaimStop(a)
  PROVE  StepOf(a) /\ TypeOK'
<1>1. allocations[a].state # "none"
  BY DEF Inv, RowsAgree, ClaimCreate, ClaimStop, NoCreate, NoStop
<1>2. TypeOK /\ AttemptAgrees(a) /\ requests[allocations[a].request].state # "none"
  BY <1>1, AttemptFacts
<1>3. CASE ClaimCreate(a)
  <2>1. /\ creates'[a] = [creates[a] EXCEPT !.state = "claimed"]
        /\ creates'[a].state = "claimed" /\ creates' \in [AllocationIds -> CreateRow]
        /\ \A b \in AllocationIds \ {a} : creates'[b] = creates[b]
    BY <1>2, <1>3 DEF ClaimCreate, TypeOK, CreateRow, OpenJob, Unresolved
  <2>2. AttemptAgrees(a)'
    BY <1>2, <1>3, <2>1 DEF ClaimCreate, AttemptAgrees, OpenJob, Unresolved, Starting
  <2> QED
    BY <1>1, <1>2, <1>3, <2>1, <2>2
    DEF ClaimCreate, StepOf, Touches, Stays, IntentKept, TypeOK, OpenJob
<1>4. CASE ClaimStop(a)
  <2>1. /\ stops'[a].state = "claimed" /\ stops' \in [AllocationIds -> StopRow]
        /\ \A b \in AllocationIds \ {a} : stops'[b] = stops[b]
    BY <1>2, <1>4 DEF ClaimStop, TypeOK, StopRow, OpenJob, Unresolved
  <2>2. AttemptAgrees(a)'
    BY <1>2, <1>4, <2>1 DEF ClaimStop, AttemptAgrees, OpenJob, Unresolved
  <2> QED
    BY <1>1, <1>2, <1>4, <2>1, <2>2
    DEF ClaimStop, StepOf, Touches, Stays, IntentKept, TypeOK
<1> QED BY <1>3, <1>4

\* PrepareCreate is a step about one attempt.
LEMMA PrepareStep ==
  ASSUME Inv, NEW a \in AllocationIds, PrepareCreate(a)
  PROVE  StepOf(a) /\ TypeOK'
<1> DEFINE r == allocations[a].request
<1>1. allocations[a].state # "none"
  BY DEF Inv, RowsAgree, PrepareCreate, NoCreate, Unresolved
<1>2. /\ TypeOK /\ AttemptAgrees(a) /\ r \in RequestIds
      /\ requests[r].state # "none" /\ IntentAgrees(r)
  BY <1>1, AttemptFacts
<1>3. /\ allocations[a].state \in Starting \cup {"quarantined"}
      /\ Latest(a) /\ requests[r].state \in StatesFor(allocations[a].state)
      /\ requests[r].state \in Blocking \cup {"abandoned"}
  BY <1>1, <1>2, AttemptFacts DEF PrepareCreate, AttemptAgrees, OpenJob, OccupyingStates
<1>4. /\ creates'[a].state = creates[a].state /\ creates[a].state \in Unresolved
      /\ creates' \in [AllocationIds -> CreateRow]
      /\ \A b \in AllocationIds \ {a} : creates'[b] = creates[b]
  <2>1. creates \in [AllocationIds -> CreateRow] /\ creates[a].state \in Unresolved
    BY <1>2 DEF PrepareCreate, TypeOK
  <2>2. [creates[a] EXCEPT !.frozen = TRUE] \in CreateRow
    BY <2>1 DEF CreateRow
  <2>3. creates' = [creates EXCEPT ![a] = [creates[a] EXCEPT !.frozen = TRUE]]
    BY DEF PrepareCreate
  <2>4. creates'[a].state = creates[a].state
    BY <2>1, <2>3 DEF CreateRow
  <2> QED BY <2>1, <2>2, <2>3, <2>4
<1>5. CASE allocations[a].state = "quarantined"
  <2>1. UNCHANGED <<requests, allocations>>
    BY <1>3, <1>5 DEF PrepareCreate, StatesFor, Starting
  <2>2. AttemptAgrees(a)'
    BY <1>2, <1>4, <1>5, <2>1 DEF PrepareCreate, AttemptAgrees, OpenJob, Unresolved, Starting
  <2> QED
    BY <1>1, <1>2, <1>4, <2>1, <2>2 DEF PrepareCreate, StepOf, Touches, Stays, IntentKept, TypeOK
<1>6. CASE allocations[a].state \in Starting
  <2>1. allocations' = AllocationTo(a, "creating")
    BY <1>6 DEF PrepareCreate
  <2>2. /\ requests' \in [RequestIds -> RequestRow]
        /\ \A q \in RequestIds \ {r} : requests'[q] = requests[q]
        /\ requests'[r].state = "creating" /\ requests'[r].owner = requests[r].owner
        /\ requests[r].state # "abandoned"
    BY <1>2, <1>3, <1>6, RequestToType, RequestToEffect, StatesTyped
    DEF PrepareCreate, StatesFor, Starting, TypeOK
  <2>3. AttemptAgrees(a)'
    <3>1. allocations'[a].state = "creating" /\ UNCHANGED stops
      BY <1>2, <2>1, AllocationToEffect DEF PrepareCreate
    <3> QED
      BY <1>2, <1>4, <1>6, <3>1 DEF AttemptAgrees, OpenJob, Unresolved, Starting, Released
  <2>4. Touches(a) /\ allocations'[a].state = "creating" /\ UNCHANGED intents
    <3>1. UNCHANGED <<stops, intents>>
      BY DEF PrepareCreate
    <3>2. /\ allocations'[a].state = "creating" /\ allocations'[a].request = r
          /\ allocations'[a].node = allocations[a].node
          /\ \A b \in AllocationIds \ {a} : allocations'[b] = allocations[b]
      BY <1>2, <2>1, AllocationToEffect
    <3> QED BY <1>4, <2>2, <3>1, <3>2 DEF Touches
  <2>5. intents[r] = "none"
    BY <1>1, <1>4, AttemptFacts DEF ClosedBeforeIntent, OpenJob
  <2>6. IntentAgrees(r)'
    BY <2>4, <2>5 DEF IntentAgrees, Touches
  <2>7. TypeOK'
    BY <1>2, <1>4, <2>1, <2>2, AllocationToType, StatesTyped DEF PrepareCreate, TypeOK
  <2>8. "creating" \in StatesFor("creating") /\ "creating" \in OccupyingStates
    BY DEF StatesFor, OccupyingStates, Starting
  <2> QED
    BY <1>1, <1>2, <1>3, <1>4, <1>6, <2>2, <2>3, <2>4, <2>6, <2>7, <2>8, StatesDisjoint
    DEF StepOf, IntentKept, Starting, OccupyingStates
<1> QED BY <1>3, <1>5, <1>6

\* StatesFor, spelled out state by state.
LEMMA StatesForEach ==
  /\ StatesFor("creating") = {"creating"} /\ StatesFor("create_unknown") = {"creating"}
  /\ StatesFor("running") = {"running"} /\ StatesFor("stopping") = {"stopping"}
  /\ StatesFor("failed_unreclaimed") = {"failed_unreclaimed"}
  /\ StatesFor("quarantined") = {"quarantined", "abandoned"}
  /\ {"creating", "create_unknown", "running", "stopping", "failed_unreclaimed", "quarantined"}
     \subseteq OccupyingStates
BY DEF StatesFor, OccupyingStates, Starting

\* A step that leads an attempt and its request to states that agree.
LEMMA LeadsStep ==
  ASSUME Inv, NEW a \in AllocationIds, Occupying(a), Touches(a), AttemptAgrees(a)',
         creates'[a].state \in OpenJob => creates[a].state \in OpenJob /\ IntentKept(a),
         NEW s \in OccupyingStates, NEW q \in StatesFor(s), Leads(a, s, q),
         allocations[a].state = "quarantined" => s = "quarantined",
         \/ /\ IntentKept(a)
            /\ \/ intents[allocations[a].request] = "none"
               \/ q = requests[allocations[a].request].state
         \/ IntentPaused(a) /\ q = "quarantined"
  PROVE  StepOf(a)
<1> DEFINE r == allocations[a].request
<1>1. allocations[a].state # "none" /\ allocations[a].state \notin Released
  BY StatesDisjoint DEF Occupying
<1>2. /\ r \in RequestIds /\ IntentAgrees(r) /\ Latest(a) /\ requests[r].state # "none"
      /\ requests[r].state \in Blocking \cup {"abandoned"}
      /\ requests[r].state = "abandoned" => allocations[a].state = "quarantined"
      /\ PauseAgrees(a)
      /\ intents[r] \in IntentStates
  BY <1>1, AttemptFacts DEF Occupying, TypeOK
<1>3. allocations'[a].state = s /\ requests'[r].state \in StatesFor(s)
  BY <1>2, StatesForEach DEF Leads
<1>4. IntentAgrees(r)'
  <2>1. allocations'[a].request = r
    BY DEF Touches
  <2>2. CASE requests[r].state = "abandoned"
    BY <1>2, <2>1, <2>2 DEF IntentAgrees, Leads, IntentKept, IntentPaused, PauseAgrees
  <2>3. CASE requests[r].state # "abandoned"
    BY <1>2, <2>1, <2>3
    DEF IntentAgrees, Leads, IntentKept, IntentPaused, Blocking, IntentStates, PausedIntent
  <2> QED BY <2>2, <2>3
<1>5. "none" \notin Blocking \cup {"abandoned"} /\ StatesFor(s) \subseteq Blocking \cup {"abandoned"}
  BY StatesDisjoint DEF Blocking
<1> QED BY <1>1, <1>2, <1>3, <1>4, <1>5, StatesDisjoint DEF StepOf

\* A create report is a step about one attempt.
LEMMA ReportCreateStep ==
  ASSUME Inv, NEW a \in AllocationIds, NEW rep \in Report, ReportCreate(a, rep)
  PROVE  StepOf(a) /\ TypeOK'
<1> DEFINE r == allocations[a].request
<1>1. creates[a].state \in Unresolved /\ rep.state \in Permitted(creates[a].state)
  BY DEF ReportCreate, CreateReportFits, ReportFits, Permitted, Unresolved
<1>2. allocations[a].state # "none"
  BY <1>1 DEF Inv, RowsAgree, NoCreate, Unresolved
<1>3. /\ TypeOK /\ AttemptAgrees(a) /\ r \in RequestIds /\ requests[r].state # "none"
      /\ intents[r] = "none"
      /\ stops[a].state \notin Unresolved
      /\ allocations[a].state \in Starting \cup {"quarantined"}
  BY <1>1, <1>2, AttemptFacts DEF ClosedBeforeIntent, AttemptAgrees, OpenJob
<1>4. /\ Latest(a) /\ Occupying(a) /\ requests[r].state \in StatesFor(allocations[a].state)
      /\ requests[r].state \in Blocking \cup {"abandoned"}
  BY <1>2, <1>3, AttemptFacts DEF OccupyingStates, Occupying
<1>5. ReportsCreate(a, rep) /\ TypeOK'
  BY <1>3, ReportCreateEffect, ReportCreateType
<1>6. Touches(a) /\ creates'[a].state = rep.state
  BY <1>5 DEF ReportsCreate
<1>7. /\ allocations[a].state \in Starting => stops[a].state \notin OpenJob
      /\ TooLate(a, rep.state = "rejected_no_effect")
         <=> allocations[a].state = "quarantined" /\ rep.state # "rejected_no_effect"
  BY <1>3 DEF AttemptAgrees, Starting, Released, TooLate
<1>8. CASE TooLate(a, rep.state = "rejected_no_effect")
  <2>1. Stays(a) /\ stops'[a] = stops[a] /\ IntentKept(a)
    BY <1>5, <1>8 DEF ReportsCreate
  <2>2. AttemptAgrees(a)'
    BY <1>1, <1>3, <1>6, <1>7, <1>8, <2>1
    DEF AttemptAgrees, Stays, Permitted, Unresolved, ClosedJob, OpenJob, Starting
  <2> QED
    BY <1>1, <1>2, <1>3, <1>5, <1>6, <2>1, <2>2 DEF StepOf, Stays, OpenJob
<1>9. CASE ~TooLate(a, rep.state = "rejected_no_effect") /\ rep.state = "failed_with_effect"
  <2>1. FailsCreate(a, rep.untrusted) /\ allocations[a].state \in Starting
    BY <1>3, <1>5, <1>7, <1>9 DEF ReportsCreate
  <2>2. creates'[a].state \notin OpenJob
    BY <1>6, <1>9 DEF OpenJob, Unresolved
  <2>3. AttemptAgrees(a)'
    BY <1>6, <1>7, <1>9, <2>1, <2>2
    DEF AttemptAgrees, FailsCreate, Leads, NewStop, Starting, OpenJob, Unresolved
  <2>4. "quarantined" \notin Starting
    BY DEF Starting
  <2> QED
    BY <1>3, <1>4, <1>5, <1>6, <2>1, <2>2, <2>3, <2>4, LeadsStep, StatesForEach DEF FailsCreate
<1>10. CASE ~TooLate(a, rep.state = "rejected_no_effect") /\ rep.state = "rejected_no_effect"
  <2>1. /\ stops'[a] = stops[a] /\ IntentKept(a)
        /\ \/ Leads(a, "released_no_effect", "waiting")
           \/ Leads(a, "released_no_effect", "unavailable")
    BY <1>5, <1>10 DEF ReportsCreate
  <2>2. AttemptAgrees(a)'
    BY <1>3, <1>6, <1>7, <1>10, <2>1
    DEF AttemptAgrees, Leads, Starting, OpenJob, Unresolved, Released
  <2>3. IntentAgrees(r)'
    BY <1>3, <1>6, <2>1 DEF IntentAgrees, IntentKept, Touches
  <2>4. /\ allocations'[a].state \in Released
        /\ requests'[r].state \in {"waiting", "unavailable", "abandoned"}
        /\ allocations[a].state \notin Released
        /\ creates'[a].state \notin OpenJob
    BY <1>3, <1>6, <1>10, <2>1 DEF Leads, Released, Starting, OpenJob, Unresolved
  <2> QED
    BY <1>2, <1>3, <1>4, <1>5, <1>6, <2>2, <2>3, <2>4, StatesDisjoint DEF StepOf, Released
<1>11. CASE /\ ~TooLate(a, rep.state = "rejected_no_effect")
            /\ rep.state \notin {"failed_with_effect", "rejected_no_effect"}
  <2>1. /\ stops'[a] = stops[a] /\ IntentKept(a) /\ allocations[a].state \in Starting
        /\ \/ rep.state = "accepted" /\ Leads(a, "creating", "creating")
           \/ rep.state = "unknown" /\ Leads(a, "create_unknown", "creating")
           \/ rep.state = "succeeded" /\ Leads(a, "running", "running")
    BY <1>3, <1>5, <1>7, <1>11 DEF ReportsCreate
  <2>2. rep.state = "succeeded" => creates'[a].ids = CoreIds
    <3>1. rep.state = "succeeded" => creates[a].ids \cup rep.ids = CoreIds
      BY DEF ReportCreate, CreateReportFits, ReportFits
    <3>2. creates'[a].ids = creates[a].ids \cup rep.ids
      BY <1>5 DEF ReportsCreate
    <3> QED BY <3>1, <3>2
  <2>3. AttemptAgrees(a)'
    BY <1>3, <1>6, <1>7, <2>1, <2>2
    DEF AttemptAgrees, Leads, Starting, OpenJob, Unresolved, Released
  <2>4. "quarantined" \notin Starting /\ creates[a].state \in OpenJob
    BY <1>1 DEF Starting, OpenJob
  <2> QED
    BY <1>3, <1>4, <1>5, <1>6, <2>1, <2>3, <2>4, LeadsStep, StatesForEach
<1> QED BY <1>8, <1>9, <1>10, <1>11

\* The attempt is reclaimed by a stop report or by a fact.
LEMMA ReclaimStep ==
  ASSUME Inv, NEW a \in AllocationIds, Occupying(a), Touches(a), Reclaims(a),
         AttemptAgrees(a)', creates'[a].state \notin OpenJob
  PROVE  StepOf(a)
<1> DEFINE r == allocations[a].request
<1>1. allocations[a].state # "none" /\ allocations[a].state \notin Released
  BY StatesDisjoint DEF Occupying
<1>2. /\ r \in RequestIds /\ IntentAgrees(r) /\ Latest(a) /\ requests[r].state # "none"
      /\ requests[r].state \in Blocking \cup {"abandoned"}
      /\ PauseAgrees(a)
      /\ intents[r] \in IntentStates
  BY <1>1, AttemptFacts DEF Occupying, TypeOK
<1>3. allocations'[a].state = "reclaimed" /\ allocations'[a].request = r
  BY DEF Reclaims, Touches
<1>4. IntentAgrees(r)'
  BY <1>2, <1>3
  DEF Reclaims, IntentAgrees, IntentKept, PausedIntent, IntentStates, PauseAgrees, Blocking
<1>5. \/ requests'[r].state \in {"ended", "abandoned"}
      \/ requests'[r].state = "quarantined" /\ intents'[r] = "paused"
  BY <1>2 DEF Reclaims, IntentAgrees, IntentKept, PausedIntent, PauseAgrees
<1> QED BY <1>1, <1>2, <1>3, <1>4, <1>5 DEF StepOf, Released

\* A stop report is a step about one attempt.
LEMMA ReportStopStep ==
  ASSUME Inv, NEW a \in AllocationIds, NEW rep \in Report, ReportStop(a, rep)
  PROVE  StepOf(a) /\ TypeOK'
<1> DEFINE r == allocations[a].request
<1>1. stops[a].state \in Unresolved /\ rep.state \in Permitted(stops[a].state)
  BY DEF ReportStop, ReportFits, Permitted, Unresolved
<1>2. allocations[a].state # "none"
  BY <1>1 DEF Inv, RowsAgree, NoStop, Unresolved
<1>3. /\ TypeOK /\ RowsAgree /\ AttemptAgrees(a) /\ r \in RequestIds /\ requests[r].state # "none"
      /\ creates[a].state \notin OpenJob
      /\ allocations[a].state \in {"stopping", "quarantined"} \cup Released
      /\ allocations[a].state \in OccupyingStates =>
           /\ PauseAgrees(a) /\ requests[r].state \in StatesFor(allocations[a].state)
  BY <1>1, <1>2, AttemptFacts
  DEF AttemptAgrees, OpenJob, Unresolved, Starting, Released
<1>4. /\ stops'[a].state = rep.state
      /\ UNCHANGED creates
      /\ \A b \in AllocationIds \ {a} : creates'[b] = creates[b] /\ stops'[b] = stops[b]
  BY <1>3 DEF ReportStop, TypeOK, StopRow
<1>5. TypeOK'
  BY <1>3, ReportStopType
<1>6. CASE TooLate(a, rep.state = "succeeded")
  <2>1. UNCHANGED <<requests, allocations, intents, creates>>
    BY <1>6 DEF ReportStop, ApplyStopReport
  <2>2. AttemptAgrees(a)'
    BY <1>1, <1>3, <1>4, <1>6, <2>1
    DEF AttemptAgrees, TooLate, Released, OpenJob, Unresolved, Starting
  <2> QED
    BY <1>2, <1>3, <1>4, <1>5, <2>1, <2>2 DEF StepOf, Touches, Stays, IntentKept
<1>7. CASE ~TooLate(a, rep.state = "succeeded")
  <2>1. /\ Occupying(a) /\ PauseAgrees(a) /\ requests[r].state \in StatesFor(allocations[a].state)
        /\ allocations[a].state = "stopping" \/ rep.state = "succeeded"
    BY <1>3, <1>7 DEF TooLate, Occupying, OccupyingStates
  <2>2. CASE rep.state \in {"accepted", "unknown"}
    <3>1. Move(a, "stopping", "stopping") /\ UNCHANGED intents /\ allocations[a].state = "stopping"
      BY <1>7, <2>1, <2>2 DEF ReportStop, ApplyStopReport
    <3>2. Touches(a) /\ Leads(a, "stopping", "stopping") /\ IntentKept(a)
      BY <1>3, <1>4, <3>1, MoveEffect
    <3>3. AttemptAgrees(a)' /\ requests[r].state = "stopping"
      BY <1>3, <1>4, <2>1, <2>2, <3>1, <3>2, StatesForEach
      DEF AttemptAgrees, Leads, OpenJob, Unresolved, Starting
    <3> QED
      BY <1>3, <1>4, <1>5, <2>1, <3>1, <3>2, <3>3, LeadsStep, StatesForEach
  <2>3. CASE rep.state = "failed_with_effect"
    <3>1. Quarantined(a)
      BY <1>7, <2>3 DEF ReportStop, ApplyStopReport
    <3>2. Touches(a) /\ Leads(a, "quarantined", "quarantined") /\ IntentPaused(a)
      BY <1>3, <1>4, <3>1, QuarantinedEffect
    <3>3. AttemptAgrees(a)'
      BY <1>3, <1>4, <2>3, <3>2 DEF AttemptAgrees, Leads, OpenJob, Unresolved, Starting
    <3> QED
      BY <1>3, <1>4, <1>5, <2>1, <3>1, <3>2, <3>3, LeadsStep, StatesForEach
  <2>4. CASE rep.state = "succeeded"
    <3>1. StopSucceeded(a)
      BY <1>7, <2>4 DEF ReportStop, ApplyStopReport
    <3>2. Touches(a) /\ Reclaims(a)
      BY <1>2, <1>3, <1>4, <2>1, <3>1, StopSucceededEffect
    <3>3. AttemptAgrees(a)'
      BY <1>3, <1>4, <2>4, <3>2
      DEF AttemptAgrees, Reclaims, OpenJob, Unresolved, Starting, Released
    <3> QED
      BY <1>3, <1>4, <1>5, <2>1, <3>2, <3>3, ReclaimStep
  <2> QED BY <1>7, <2>2, <2>3, <2>4 DEF ReportStop, ApplyStopReport
<1> QED BY <1>6, <1>7

\* ReclaimedFact, row by row, with the intent it may consume.
LEMMA ReclaimedFactEffect ==
  ASSUME TypeOK, RowsAgree, NEW a \in AllocationIds, allocations[a].state # "none",
         PauseAgrees(a), ReclaimedFact(a), UNCHANGED creates
  PROVE  Touches(a) /\ Reclaims(a)
<1> DEFINE r     == allocations[a].request
           ended == RequestTo(r, "ended")
<1>1. r \in RequestIds /\ requests[r].state # "none"
  BY DEF RowsAgree
<1>2. /\ ended \in [RequestIds -> RequestRow]
      /\ \A q \in RequestIds \ {r} : ended[q] = requests[q]
      /\ ended[r].owner = requests[r].owner
      /\ requests[r].state = "abandoned" => ended[r] = requests[r]
      /\ ended[r].state = IF requests[r].state = "abandoned" THEN "abandoned" ELSE "ended"
  BY <1>1, RequestToType, RequestToEffect, StatesTyped
<1>3. /\ allocations'[a].state = "reclaimed"
      /\ allocations'[a].request = r /\ allocations'[a].node = allocations[a].node
      /\ \A b \in AllocationIds \ {a} : allocations'[b] = allocations[b]
      /\ UNCHANGED stops
  BY AllocationToEffect DEF ReclaimedFact
<1>4. CASE intents[r] \notin PausedIntent /\ ConsumeIntent(r, ended, FALSE)
  <2>1. \/ requests' = ended
        \/ \E q \in RequestIds :
             /\ requests[q].state = "none" /\ intents[r] = "pending" /\ intents'[r] = "consumed"
             /\ requests' = [ended EXCEPT ![q] =
                  [state |-> "waiting", owner |-> requests[r].owner,
                   target |-> requests[r].target, origin |-> r]]
    BY <1>1, <1>4 DEF ConsumeIntent, FreeRequest, TypeOK
  <2>2. /\ \A q \in RequestIds \ {r} : intents'[q] = intents[q]
        /\ IF intents[r] = "pending" THEN intents'[r] \in {"consumed", "refused"}
                                     ELSE intents'[r] = intents[r]
    BY <1>1, <1>4 DEF ConsumeIntent, TypeOK
  <2>3. CASE requests' = ended
    BY <1>1, <1>2, <1>3, <1>4, <2>2, <2>3 DEF Touches, Reclaims, IntentKept
  <2>4. ASSUME NEW q \in RequestIds,
               requests[q].state = "none", intents[r] = "pending", intents'[r] = "consumed",
               requests' = [ended EXCEPT ![q] =
                  [state |-> "waiting", owner |-> requests[r].owner,
                   target |-> requests[r].target, origin |-> r]]
        PROVE  Touches(a) /\ Reclaims(a)
    <3> HIDE DEF ended
    <3>1. /\ q # r
          /\ requests'[q].state = "waiting" /\ requests'[q].owner = requests[r].owner
          /\ \A p \in RequestIds \ {q} : requests'[p] = ended[p]
      BY <1>1, <1>2, <2>4
    <3> QED
      BY <1>1, <1>2, <1>3, <1>4, <2>2, <2>4, <3>1 DEF Touches, Reclaims
  <2> QED BY <2>1, <2>3, <2>4
<1>5. CASE intents[r] \in PausedIntent /\ UNCHANGED <<requests, intents>>
  BY <1>1, <1>3, <1>5 DEF Touches, Reclaims, IntentKept, PausedIntent
<1> QED BY <1>4, <1>5 DEF ReclaimedFact

\* An instance fact is a step about one attempt.
LEMMA FactStep ==
  ASSUME Inv, NEW a \in AllocationIds, ReportInstanceFact(a)
  PROVE  StepOf(a) /\ TypeOK'
<1> DEFINE r == allocations[a].request
<1>1. allocations[a].state # "none" /\ allocations[a].state \notin Released
  BY DEF Inv, RowsAgree, ReportInstanceFact, NoCreate
<1>2. /\ TypeOK /\ RowsAgree /\ AttemptAgrees(a) /\ r \in RequestIds
      /\ Occupying(a) /\ PauseAgrees(a) /\ requests[r].state # "none"
      /\ requests[r].state \in StatesFor(allocations[a].state)
      /\ intents[r] \in IntentStates /\ IntentAgrees(r)
  BY <1>1, AttemptFacts DEF Occupying, TypeOK
<1>3. UNCHANGED creates /\ creates[a].state \notin OpenJob /\ allocations[a].state \notin Starting
  BY <1>2 DEF ReportInstanceFact, ClosedJob, OpenJob, Unresolved, AttemptAgrees
<1>4. TypeOK'
  BY <1>2, FactType
<1>5. CASE ReclaimedFact(a)
  <2>1. Touches(a) /\ Reclaims(a) /\ UNCHANGED stops
    BY <1>1, <1>2, <1>3, <1>5, ReclaimedFactEffect DEF ReclaimedFact
  <2>2. AttemptAgrees(a)'
    BY <1>2, <1>3, <2>1 DEF AttemptAgrees, Reclaims, OpenJob, Unresolved, Starting, Released
  <2> QED BY <1>2, <1>3, <1>4, <2>1, <2>2, ReclaimStep
<1>6. CASE DriftedFact(a)
  <2>1. Quarantined(a) /\ UNCHANGED stops
    BY <1>6 DEF DriftedFact
  <2>2. Touches(a) /\ Leads(a, "quarantined", "quarantined") /\ IntentPaused(a)
    BY <1>2, <1>3, <2>1, QuarantinedEffect
  <2>3. AttemptAgrees(a)'
    BY <1>2, <1>3, <2>1, <2>2 DEF AttemptAgrees, Leads, OpenJob, Unresolved, Starting
  <2> QED BY <1>2, <1>3, <1>4, <2>2, <2>3, LeadsStep, StatesForEach
<1>7. CASE FailedFact(a)
  <2>1. /\ allocations[a].state \in {"running", "failed_unreclaimed"}
        /\ intents[r] = "none"
    BY <1>1, <1>2, <1>3, <1>7
    DEF FailedFact, Occupying, OccupyingStates, IntentAgrees, IntentStates, PausedIntent,
        StatesFor
  <2>2. Touches(a) /\ FailsCreate(a, FALSE)
    BY <1>2, <1>3, <1>7, CreateFailedEffect DEF FailedFact
  <2>3. AttemptAgrees(a)'
    BY <1>2, <1>3, <2>1, <2>2
    DEF AttemptAgrees, FailsCreate, Leads, NewStop, OpenJob, Unresolved, Starting
  <2> QED
    BY <1>2, <1>3, <1>4, <2>1, <2>2, <2>3, LeadsStep, StatesForEach DEF FailsCreate
<1> QED BY <1>5, <1>6, <1>7 DEF ReportInstanceFact

\* Quarantine, by the serve loop or an administrator, is a step about one attempt.
LEMMA QuarantineStep ==
  ASSUME Inv, NEW a \in AllocationIds, QuarantineOneUnreachable(a) \/ MarkAllocationQuarantined(a)
  PROVE  StepOf(a) /\ TypeOK'
<1> DEFINE r == allocations[a].request
<1>1. allocations[a].state # "none" /\ Occupying(a)
  BY StatesDisjoint
  DEF QuarantineOneUnreachable, MarkAllocationQuarantined, Occupying, OccupyingStates, Starting
<1>2. /\ TypeOK /\ AttemptAgrees(a) /\ r \in RequestIds
      /\ requests[r].state \in StatesFor(allocations[a].state)
  BY <1>1, AttemptFacts DEF Occupying
<1>3. Quarantined(a) /\ UNCHANGED <<creates, stops, nodes, catalog>>
  BY DEF QuarantineOneUnreachable, MarkAllocationQuarantined
<1>4. creates[a].state # "pending"
  BY <1>2
  DEF QuarantineOneUnreachable, MarkAllocationQuarantined, AttemptAgrees, Unresolved, OpenJob,
      OccupyingStates
<1>5. Touches(a) /\ Leads(a, "quarantined", "quarantined") /\ IntentPaused(a)
  BY <1>2, <1>3, QuarantinedEffect
<1>6. AttemptAgrees(a)'
  BY <1>2, <1>3, <1>4, <1>5 DEF AttemptAgrees, Leads, OpenJob, Unresolved, Starting, Released
<1>7. TypeOK'
  BY <1>2, <1>3, QuarantinedType DEF TypeOK
<1>8. creates'[a].state \in OpenJob => creates[a].state \in OpenJob /\ IntentKept(a)
  BY <1>1, <1>2, <1>3, <1>5, AttemptFacts DEF ClosedBeforeIntent, IntentPaused, IntentKept
<1> QED BY <1>1, <1>5, <1>6, <1>7, <1>8, LeadsStep, StatesForEach

\* TerminatePending is a step about one attempt.
LEMMA TerminateStep ==
  ASSUME Inv, NEW a \in AllocationIds, TerminatePending(a)
  PROVE  StepOf(a) /\ TypeOK'
<1> DEFINE r == allocations[a].request
<1>1. allocations[a].state = "reserved" /\ creates[a].state = "pending"
  BY DEF TerminatePending
<1>2. /\ TypeOK /\ AttemptAgrees(a) /\ r \in RequestIds /\ requests[r].state # "none"
      /\ intents[r] = "none" /\ Latest(a) /\ requests[r].state \in Blocking \cup {"abandoned"}
  BY <1>1, AttemptFacts DEF OccupyingStates, Starting, ClosedBeforeIntent, OpenJob
<1>3. /\ creates'[a].state = "rejected_no_effect" /\ creates' \in [AllocationIds -> CreateRow]
      /\ \A b \in AllocationIds \ {a} : creates'[b] = creates[b]
  BY <1>2 DEF TerminatePending, TypeOK, CreateRow, ClosedJob
<1>4. Move(a, "released_no_effect", "unavailable") /\ UNCHANGED <<stops, intents, nodes, catalog>>
  BY DEF TerminatePending
<1>5. Touches(a) /\ Leads(a, "released_no_effect", "unavailable") /\ IntentKept(a)
  BY <1>2, <1>3, <1>4, MoveEffect
<1>6. AttemptAgrees(a)'
  BY <1>1, <1>2, <1>3, <1>4, <1>5
  DEF AttemptAgrees, Leads, OpenJob, Unresolved, Starting, Released
<1>7. IntentAgrees(r)'
  BY <1>2, <1>5 DEF IntentAgrees, IntentKept, Touches
<1>8. TypeOK'
  BY <1>2, <1>3, <1>4, MoveType, StatesTyped DEF TypeOK
<1>9. /\ allocations'[a].state \in Released /\ allocations[a].state \notin Released
      /\ requests'[r].state \in {"unavailable", "abandoned"} /\ creates'[a].state \notin OpenJob
  BY <1>1, <1>3, <1>5 DEF Leads, Released, OpenJob, Unresolved
<1> QED BY <1>1, <1>2, <1>5, <1>6, <1>7, <1>8, <1>9, StatesDisjoint DEF StepOf, Released

\* A stop job is added to the newest attempt of a request.
LEMMA NewStopEffect ==
  ASSUME TypeOK, NEW a \in AllocationIds, stops' = [stops EXCEPT ![a] = NewStop]
  PROVE  /\ stops'[a].state = "pending" /\ stops' \in [AllocationIds -> StopRow]
         /\ \A b \in AllocationIds \ {a} : stops'[b] = stops[b]
BY NewStopType DEF TypeOK, NewStop

\* The administrator's stop is a step about one attempt.
LEMMA AdminStopStep ==
  ASSUME Inv, NEW r \in RequestIds, AdminStopRequest(r)
  PROVE  (\E a \in AllocationIds : StepOf(a)) /\ TypeOK'
<1>1. PICK a \in Attempts(r) :
        /\ allocations[a].state \in {"running", "quarantined"}
        /\ "instance" \in creates[a].ids
        /\ requests[r].state = "abandoned" => allocations[a].state = "quarantined"
        /\ stops[a].state \notin OpenJob
        /\ stops' = [stops EXCEPT ![a] = NewStop]
        /\ IF requests[r].state = "running" THEN Move(a, "stopping", "stopping")
                                            ELSE UNCHANGED <<requests, allocations>>
  BY DEF AdminStopRequest
<1>2. /\ a \in AllocationIds /\ allocations[a].request = r
      /\ allocations[a].state # "none" /\ Occupying(a)
      /\ UNCHANGED <<creates, intents, nodes, catalog>>
      /\ requests[r].state \in {"running", "quarantined", "abandoned"}
  BY <1>1 DEF Attempts, Occupying, OccupyingStates, AdminStopRequest
<1>3. /\ TypeOK /\ AttemptAgrees(a) /\ requests[r].state # "none"
      /\ requests[r].state \in StatesFor(allocations[a].state)
  BY <1>2, AttemptFacts DEF Occupying
<1>4. /\ stops'[a].state = "pending" /\ stops' \in [AllocationIds -> StopRow]
      /\ \A b \in AllocationIds \ {a} : stops'[b] = stops[b]
  BY <1>1, <1>2, <1>3, NewStopEffect
<1>5. CASE requests[r].state = "running"
  <2>1. allocations[a].state = "running" /\ intents[r] = "none"
    BY <1>1, <1>2, <1>3, <1>5, StatesForEach, AttemptFacts
    DEF IntentAgrees, TypeOK, IntentStates, PausedIntent
  <2>2. Move(a, "stopping", "stopping")
    BY <1>1, <1>5
  <2>3. Touches(a) /\ Leads(a, "stopping", "stopping") /\ IntentKept(a)
    BY <1>2, <1>3, <1>4, <2>2, MoveEffect
  <2>4. AttemptAgrees(a)' /\ creates'[a].state \notin OpenJob
    BY <1>2, <1>3, <1>4, <2>1, <2>3
    DEF AttemptAgrees, Leads, OpenJob, Unresolved, Starting, Released
  <2>5. StepOf(a)
    BY <1>2, <2>1, <2>3, <2>4, LeadsStep, StatesForEach
  <2>6. TypeOK'
    BY <1>2, <1>3, <1>4, <2>2, MoveType, StatesTyped DEF TypeOK
  <2> QED BY <1>2, <2>5, <2>6
<1>6. CASE requests[r].state # "running"
  <2>1. UNCHANGED <<requests, allocations>> /\ allocations[a].state = "quarantined"
    BY <1>1, <1>2, <1>3, <1>6, StatesForEach
  <2>2. AttemptAgrees(a)'
    BY <1>2, <1>3, <1>4, <2>1 DEF AttemptAgrees, OpenJob, Unresolved, Starting
  <2>3. StepOf(a)
    BY <1>2, <1>3, <1>4, <2>1, <2>2 DEF StepOf, Touches, Stays, IntentKept
  <2>4. TypeOK'
    BY <1>2, <1>3, <1>4, <2>1 DEF TypeOK
  <2> QED BY <1>2, <2>3, <2>4
<1> QED BY <1>5, <1>6

\* The player's stop, next game included, is a step about one attempt.
LEMMA StopUserStep ==
  ASSUME Inv, NEW r \in RequestIds, NEW next \in BOOLEAN, StopUserRequest(r, next)
  PROVE  (\E a \in AllocationIds : StepOf(a)) /\ TypeOK'
<1>1. PICK a \in Attempts(r) :
        /\ allocations[a].state = "running"
        /\ creates[a].state = "succeeded"
        /\ stops[a].state \notin OpenJob
        /\ stops' = [stops EXCEPT ![a] = NewStop]
        /\ allocations' = AllocationTo(a, "stopping")
  BY DEF StopUserRequest
<1>2. /\ a \in AllocationIds /\ allocations[a].request = r
      /\ allocations[a].state # "none" /\ Occupying(a)
      /\ UNCHANGED <<creates, nodes, catalog>> /\ requests[r].state = "running"
      /\ requests' = RequestTo(r, "stopping")
  BY <1>1 DEF Attempts, Occupying, OccupyingStates, StopUserRequest
<1>3. /\ TypeOK /\ AttemptAgrees(a) /\ requests[r].state # "none" /\ Latest(a)
      /\ intents[r] = "none"
  BY <1>2, AttemptFacts DEF Occupying, IntentAgrees, TypeOK, IntentStates, PausedIntent
<1>4. /\ stops'[a].state = "pending" /\ stops' \in [AllocationIds -> StopRow]
      /\ \A b \in AllocationIds \ {a} : stops'[b] = stops[b]
  BY <1>1, <1>2, <1>3, NewStopEffect
<1>5. /\ intents' \in [RequestIds -> IntentStates] /\ intents'[r] \in {"none", "pending"}
      /\ \A q \in RequestIds \ {r} : intents'[q] = intents[q]
  BY <1>3 DEF StopUserRequest, TypeOK, IntentStates
<1>6. /\ requests' \in [RequestIds -> RequestRow]
      /\ \A q \in RequestIds \ {r} : requests'[q] = requests[q]
      /\ requests'[r].state = "stopping" /\ requests'[r].owner = requests[r].owner
  BY <1>2, <1>3, RequestToType, RequestToEffect, StatesTyped
<1>7. /\ allocations' \in [AllocationIds -> AllocationRow]
      /\ \A b \in AllocationIds \ {a} : allocations'[b] = allocations[b]
      /\ allocations'[a].state = "stopping" /\ allocations'[a].request = r
      /\ allocations'[a].node = allocations[a].node
  BY <1>1, <1>2, <1>3, AllocationToType, AllocationToEffect, StatesTyped
<1>8. Touches(a)
  BY <1>2, <1>4, <1>5, <1>6, <1>7 DEF Touches
<1>9. AttemptAgrees(a)' /\ creates'[a].state \notin OpenJob
  BY <1>1, <1>2, <1>3, <1>4, <1>7
  DEF AttemptAgrees, OpenJob, Unresolved, Starting
<1>10. IntentAgrees(r)'
  BY <1>5, <1>6, <1>7 DEF IntentAgrees
<1>11. StepOf(a)
  BY <1>1, <1>2, <1>3, <1>6, <1>7, <1>8, <1>9, <1>10, StatesForEach DEF StepOf, Released, Blocking
<1>12. TypeOK'
  BY <1>2, <1>3, <1>4, <1>5, <1>6, <1>7 DEF TypeOK
<1> QED BY <1>2, <1>11, <1>12

\* Abandoning a quarantined request is a step about its newest attempt.
LEMMA AbandonStep ==
  ASSUME Inv, NEW r \in RequestIds, AbandonQuarantinedUserRequest(r)
  PROVE  (\E a \in AllocationIds : StepOf(a)) /\ TypeOK'
<1> DEFINE over == RequestTo(r, "abandoned")
<1>1. PICK a \in Attempts(r) :
        /\ Latest(a)
        /\ \/ allocations[a].state = "quarantined"
           \/ allocations[a].state = "reclaimed" /\ intents[r] \in PausedIntent
  BY DEF AbandonQuarantinedUserRequest
<1>2. /\ a \in AllocationIds /\ allocations[a].request = r
      /\ allocations[a].state # "none" /\ requests[r].state = "quarantined"
      /\ UNCHANGED <<allocations, creates, stops, nodes, catalog>>
      /\ ConsumeIntent(r, over, TRUE)
  BY <1>1 DEF Attempts, AbandonQuarantinedUserRequest
<1>3. /\ TypeOK /\ AttemptAgrees(a) /\ IntentAgrees(r) /\ ClosedBeforeIntent(a)
      /\ intents[r] \in {"none", "paused"}
  BY <1>2, AttemptFacts DEF IntentAgrees, TypeOK, IntentStates, PausedIntent
<1>4. /\ over \in [RequestIds -> RequestRow]
      /\ \A q \in RequestIds \ {r} : over[q] = requests[q]
      /\ over[r].owner = requests[r].owner /\ over[r].state = "abandoned"
  BY <1>3, RequestToType, RequestToEffect, StatesTyped
<1>5. /\ requests' \in [RequestIds -> RequestRow]
      /\ intents' \in [RequestIds -> IntentStates]
  BY <1>2, <1>3, <1>4, ConsumeType
<1>6. /\ \A q \in RequestIds \ {r} : intents'[q] = intents[q]
      /\ intents'[r] \in {"none", "consumed", "refused"}
      /\ intents[r] = "none" => intents'[r] = "none"
  BY <1>2, <1>3 DEF ConsumeIntent, TypeOK
<1>7. \/ requests' = over
      \/ \E q \in RequestIds :
           /\ requests[q].state = "none" /\ intents[r] = "paused" /\ intents'[r] = "consumed"
           /\ requests' = [over EXCEPT ![q] =
                [state |-> "waiting", owner |-> requests[r].owner,
                 target |-> requests[r].target, origin |-> r]]
  BY <1>2, <1>3 DEF ConsumeIntent, FreeRequest, TypeOK
<1>8. Touches(a) /\ requests'[r].state = "abandoned"
  <2>1. CASE requests' = over
    BY <1>2, <1>4, <1>6, <2>1 DEF Touches
  <2>2. ASSUME NEW q \in RequestIds,
               requests[q].state = "none", intents[r] = "paused", intents'[r] = "consumed",
               requests' = [over EXCEPT ![q] =
                  [state |-> "waiting", owner |-> requests[r].owner,
                   target |-> requests[r].target, origin |-> r]]
        PROVE  Touches(a) /\ requests'[r].state = "abandoned"
    <3> HIDE DEF over
    <3>1. /\ q # r
          /\ requests'[q].state = "waiting" /\ requests'[q].owner = requests[r].owner
          /\ \A p \in RequestIds \ {q} : requests'[p] = over[p]
      BY <1>2, <1>4, <2>2
    <3> QED BY <1>2, <1>4, <1>6, <2>2, <3>1 DEF Touches
  <2> QED BY <1>7, <2>1, <2>2
<1>9. AttemptAgrees(a)' /\ IntentAgrees(r)'
  BY <1>2, <1>3, <1>6, <1>8 DEF AttemptAgrees, IntentAgrees
<1>10. creates'[a].state \in OpenJob => creates[a].state \in OpenJob /\ IntentKept(a)
  BY <1>2, <1>3, <1>6 DEF ClosedBeforeIntent, IntentKept
<1>11. StepOf(a)
  BY <1>1, <1>2, <1>8, <1>9, <1>10, StatesForEach DEF StepOf, Released, Blocking
<1>12. TypeOK'
  BY <1>2, <1>3, <1>5 DEF TypeOK
<1> QED BY <1>2, <1>11, <1>12

-----------------------------------------------------------------------------
(* The steps about a request that has no server. *)

RequestStep(r) ==
  /\ UNCHANGED <<allocations, creates, stops, intents>>
  /\ \A q \in RequestIds \ {r} : requests'[q] = requests[q]
  /\ requests[r].state \in {"none", "waiting"}
  /\ requests'[r].state \in {"waiting", "cancelled", "unavailable"}
  /\ requests'[r].owner \in Owners
  /\ requests[r].state = "waiting" => requests'[r].owner = requests[r].owner
  /\ requests[r].state = "none" => ~Busy(requests'[r].owner)

\* A step about a request without a live attempt preserves the invariant.
LEMMA RequestStepKeepsInv ==
  ASSUME Inv, NEW r \in RequestIds, RequestStep(r), TypeOK'
  PROVE  Inv'
<1>1. intents[r] = "none"
  BY DEF Inv, TypeOK, IntentStates, PausedIntent, IntentAgrees, RowsAgree, RequestStep
<1>2. /\ \A q \in RequestIds : Attempts(q)' = Attempts(q)
      /\ \A a \in AllocationIds : (Latest(a)' <=> Latest(a)) /\ (Occupying(a)' <=> Occupying(a))
  BY DEF RequestStep, Attempts, Latest, Occupying
<1>3. ASSUME NEW a \in AllocationIds, Occupying(a)
      PROVE  allocations[a].request \in RequestIds \ {r}
  <2>1. allocations[a].state # "none"
    BY <1>3, StatesDisjoint DEF Occupying
  <2> QED
    BY <1>3, <2>1, AttemptFacts, StatesDisjoint DEF Occupying, RequestStep, Blocking
<1>4. RowsAgree'
  BY DEF Inv, RowsAgree, RequestStep
<1>5. /\ \A a \in AllocationIds : (AttemptAgrees(a) /\ ClosedBeforeIntent(a))'
      /\ \A q \in RequestIds : IntentAgrees(q)'
  BY <1>1 DEF Inv, AttemptAgrees, ClosedBeforeIntent, IntentAgrees, RequestStep
<1>6. RequestMirrorsAttempt'
  <2>1. RequestMirrorsAttempt
    BY DEF Inv
  <2>2. ASSUME NEW a \in AllocationIds, Occupying(a)'
        PROVE  Latest(a)' /\ requests'[allocations'[a].request].state \in StatesFor(allocations'[a].state)
    BY <1>2, <1>3, <2>1, <2>2 DEF RequestMirrorsAttempt, RequestStep
  <2>3. ASSUME NEW q \in RequestIds, requests'[q].state \in Blocking \ {"waiting", "quarantined"}
        PROVE  \E a \in Attempts(q)' : Occupying(a)'
    <3>1. requests[q].state \in Blocking \ {"waiting", "quarantined"}
      BY <2>3 DEF RequestStep, Blocking
    <3>2. PICK a \in Attempts(q) : Occupying(a)
      BY <2>1, <3>1 DEF RequestMirrorsAttempt
    <3> QED BY <1>2, <3>2 DEF Attempts
  <2> QED BY <2>2, <2>3 DEF RequestMirrorsAttempt
<1>7. QuarantinedCanBeAbandoned'
  <2>1. ASSUME NEW q \in RequestIds, requests'[q].state = "quarantined"
        PROVE  \E b \in Attempts(q)' :
                 /\ Latest(b)'
                 /\ \/ allocations'[b].state = "quarantined"
                    \/ allocations'[b].state = "reclaimed" /\ intents'[q] = "paused"
    <3>1. requests[q].state = "quarantined"
      BY <2>1 DEF RequestStep
    <3>2. PICK b \in Attempts(q) :
                 /\ Latest(b)
                 /\ \/ allocations[b].state = "quarantined"
                    \/ allocations[b].state = "reclaimed" /\ intents[q] = "paused"
      BY <3>1 DEF Inv, QuarantinedCanBeAbandoned
    <3> QED BY <1>2, <3>2 DEF RequestStep, Attempts
  <2> QED BY <2>1 DEF QuarantinedCanBeAbandoned
<1>8. OneBlockingRequest'
  BY DEF Inv, OneBlockingRequest, RequestStep, Busy, Blocking
<1> QED BY <1>4, <1>5, <1>6, <1>7, <1>8 DEF Inv

\* Submitting a request is such a step.
LEMMA CreateUserStep ==
  ASSUME Inv, NEW o \in Owners, NEW t \in Nodes \cup {AnyNode}, CreateUserRequest(o, t)
  PROVE  (\E r \in RequestIds : RequestStep(r)) /\ TypeOK'
<1> DEFINE row == [state |-> "waiting", owner |-> o, target |-> t, origin |-> 0]
<1>1. PICK r \in RequestIds : FreeRequest(r) /\ requests' = [requests EXCEPT ![r] = row]
  BY DEF CreateUserRequest
<1>2. row \in RequestRow
  <2>1. /\ "waiting" \in RequestStates \cup {"none"} /\ o \in Owners \cup {None}
        /\ t \in Nodes \cup {AnyNode, None} /\ 0 \in RequestIds \cup {0}
    BY StatesTyped
  <2> QED BY <2>1 DEF RequestRow
<1>3. requests' \in [RequestIds -> RequestRow] /\ requests'[r] = row
  BY <1>1, <1>2 DEF Inv, TypeOK
<1> QED
  BY <1>1, <1>3 DEF CreateUserRequest, FreeRequest, RequestStep, Inv, TypeOK

\* Cancelling a waiting request, or giving it up, is such a step.
LEMMA CloseWaitingStep ==
  ASSUME Inv, NEW r \in RequestIds, CancelUserRequest(r) \/ GiveUp(r)
  PROVE  RequestStep(r) /\ TypeOK'
<1>1. /\ TypeOK /\ RowsAgree /\ requests[r].state = "waiting"
      /\ requests' = RequestTo(r, "cancelled") \/ requests' = RequestTo(r, "unavailable")
      /\ UNCHANGED <<allocations, creates, stops, intents, nodes, catalog>>
  BY DEF Inv, CancelUserRequest, GiveUp
<1>2. /\ requests' \in [RequestIds -> RequestRow]
      /\ \A q \in RequestIds \ {r} : requests'[q] = requests[q]
      /\ requests'[r].state \in {"cancelled", "unavailable"}
      /\ requests'[r].owner = requests[r].owner
  BY <1>1, RequestToType, RequestToEffect, StatesTyped
<1>3. requests[r].owner \in Owners
  BY <1>1 DEF RowsAgree
<1> QED BY <1>1, <1>2, <1>3 DEF RequestStep, TypeOK

-----------------------------------------------------------------------------
(* A new attempt. *)

\* Id a is the first free one, and it goes to request r on node n.
ReserveFor(a, r, n) ==
  /\ FreeAllocation(a)
  /\ allocations' = [allocations EXCEPT ![a] = [state |-> "reserved", request |-> r, node |-> n]]
  /\ creates' = [creates EXCEPT ![a] = [NoCreate EXCEPT !.state = "pending"]]
  /\ requests[r].state = "waiting"
  /\ requests' = RequestTo(r, "allocating")
  /\ UNCHANGED <<stops, intents, nodes, catalog>>

\* What Reserve does, row by row.
Reserved(a, r, n) ==
  /\ allocations[a] = NoAllocation
  /\ \A b \in AllocationIds \ {a} :
       /\ allocations'[b] = allocations[b] /\ creates'[b] = creates[b]
       /\ b > a => allocations[b] = NoAllocation
  /\ allocations'[a] = [state |-> "reserved", request |-> r, node |-> n]
  /\ creates'[a].state = "pending" /\ stops'[a] = NoStop
  /\ \A q \in RequestIds \ {r} : requests'[q] = requests[q]
  /\ requests[r].state = "waiting"
  /\ requests'[r].state = "allocating" /\ requests'[r].owner = requests[r].owner
  /\ intents[r] = "none"

LEMMA ReserveRows ==
  ASSUME Inv, NEW r \in RequestIds, NEW n \in Nodes, NEW a \in AllocationIds, ReserveFor(a, r, n)
  PROVE  TypeOK' /\ RowsAgree' /\ Reserved(a, r, n)
<1>1. TypeOK /\ RowsAgree /\ IntentAgrees(r) /\ intents[r] \in IntentStates
  BY DEF Inv, TypeOK
<1>2. requests[r].state = "waiting" /\ intents[r] = "none"
  BY <1>1 DEF ReserveFor, IntentAgrees, IntentStates, PausedIntent
<1>3. /\ requests' \in [RequestIds -> RequestRow]
      /\ \A q \in RequestIds \ {r} : requests'[q] = requests[q]
      /\ requests'[r].state = "allocating" /\ requests'[r].owner = requests[r].owner
  BY <1>1, <1>2, RequestToType, RequestToEffect, StatesTyped DEF ReserveFor
<1>4. /\ allocations[a].state = "none" /\ \A b \in 1..(a - 1) : allocations[b].state # "none"
      /\ allocations[a] = NoAllocation /\ stops[a] = NoStop
      /\ \A b \in AllocationIds : b > a => allocations[b] = NoAllocation
  BY <1>1 DEF ReserveFor, FreeAllocation, RowsAgree
<1>5. /\ allocations'[a] = [state |-> "reserved", request |-> r, node |-> n]
      /\ \A b \in AllocationIds \ {a} : allocations'[b] = allocations[b]
  BY <1>1 DEF ReserveFor, TypeOK
<1>6. /\ creates'[a] = [NoCreate EXCEPT !.state = "pending"]
      /\ \A b \in AllocationIds \ {a} : creates'[b] = creates[b]
  BY <1>1 DEF ReserveFor, TypeOK
<1>7. allocations' \in [AllocationIds -> AllocationRow]
  <2>1. "reserved" \in OccupyingStates \cup Released \cup {"none"}
    BY StatesTyped
  <2>2. [state |-> "reserved", request |-> r, node |-> n] \in AllocationRow
    BY <2>1 DEF AllocationRow
  <2> QED BY <1>1, <2>2 DEF ReserveFor, TypeOK
<1>8. creates' \in [AllocationIds -> CreateRow] /\ creates'[a].state = "pending"
  <2>1. [NoCreate EXCEPT !.state = "pending"] \in CreateRow
    BY DEF NoCreate, CreateRow, OpenJob
  <2> QED BY <1>1, <1>6, <2>1 DEF ReserveFor, TypeOK, NoCreate
<1>9. TypeOK'
  BY <1>1, <1>3, <1>7, <1>8 DEF ReserveFor, TypeOK
<1>10. RowsAgree'
  <2>1. \A q \in RequestIds :
          IF requests'[q].state = "none"
            THEN requests'[q] = NoRequest /\ intents'[q] = "none"
            ELSE requests'[q].owner \in Owners
    BY <1>1, <1>2, <1>3 DEF RowsAgree, ReserveFor
  <2>2. \A b \in AllocationIds :
          IF allocations'[b].state = "none"
            THEN allocations'[b] = NoAllocation /\ creates'[b] = NoCreate /\ stops'[b] = NoStop
            ELSE /\ allocations'[b].request \in RequestIds
                 /\ allocations'[b].node \in Nodes
                 /\ requests'[allocations'[b].request].state # "none"
    BY <1>1, <1>3, <1>5, <1>6 DEF RowsAgree, ReserveFor
  <2>3. \A c, b \in AllocationIds :
          b < c /\ allocations'[c].state # "none" => allocations'[b].state # "none"
    BY <1>1, <1>4, <1>5 DEF RowsAgree, AllocationIds, NoAllocation
  <2> QED BY <2>1, <2>2, <2>3 DEF RowsAgree
<1>11. Reserved(a, r, n)
  BY <1>2, <1>3, <1>4, <1>5, <1>6, <1>8 DEF ReserveFor, Reserved
<1> QED BY <1>9, <1>10, <1>11

\* Reserving a new attempt for a waiting request preserves the invariant.
LEMMA ReserveKeepsInv ==
  ASSUME Inv, NEW r \in RequestIds, NEW n \in Nodes, NEW a \in AllocationIds, ReserveFor(a, r, n)
  PROVE  Inv'
<1>1. /\ TypeOK' /\ RowsAgree'
      /\ allocations[a] = NoAllocation
      /\ \A b \in AllocationIds \ {a} :
           /\ allocations'[b] = allocations[b] /\ creates'[b] = creates[b]
           /\ b > a => allocations[b] = NoAllocation
      /\ allocations'[a] = [state |-> "reserved", request |-> r, node |-> n]
      /\ creates'[a].state = "pending" /\ stops'[a] = NoStop
      /\ \A q \in RequestIds \ {r} : requests'[q] = requests[q]
      /\ requests'[r].state = "allocating" /\ requests'[r].owner = requests[r].owner
      /\ intents[r] = "none"
      /\ intents' = intents /\ stops' = stops /\ requests[r].state = "waiting"
  <2>1. intents' = intents /\ stops' = stops
    BY DEF ReserveFor
  <2>2. TypeOK' /\ RowsAgree' /\ Reserved(a, r, n)
    BY ReserveRows
  <2> QED BY <2>1, <2>2 DEF Reserved
<1>2. \A q \in RequestIds : q # 0
  BY DEF RequestIds
<1>3. \A q \in RequestIds \ {r} : Attempts(q)' = Attempts(q) /\ a \notin Attempts(q)
  BY <1>1, <1>2 DEF Attempts, NoAllocation
<1>4. a \in Attempts(r)' /\ Latest(a)' /\ Occupying(a)'
  BY <1>1, <1>2 DEF Attempts, Latest, Occupying, NoAllocation, OccupyingStates, Starting, AllocationIds
<1>5. ASSUME NEW b \in AllocationIds \ {a}, Occupying(b)
      PROVE  /\ allocations[b].request \in RequestIds \ {r}
             /\ Latest(b) /\ requests[allocations[b].request].state \in StatesFor(allocations[b].state)
  <2>1. allocations[b].state # "none"
    BY <1>5, StatesDisjoint DEF Occupying
  <2> QED BY <1>1, <1>5, <2>1, AttemptFacts, StatesDisjoint DEF Occupying
<1>6. ASSUME NEW b \in AllocationIds
      PROVE  AttemptAgrees(b)' /\ ClosedBeforeIntent(b)'
  <2>1. CASE b = a
    BY <1>1, <2>1
    DEF AttemptAgrees, ClosedBeforeIntent, NoStop, OpenJob, Unresolved, Starting
  <2>2. CASE b # a
    BY <1>1, <2>2 DEF Inv, AttemptAgrees, ClosedBeforeIntent
  <2> QED BY <2>1, <2>2
<1>7. \A q \in RequestIds : IntentAgrees(q)'
  BY <1>1 DEF Inv, IntentAgrees
<1>8. RequestMirrorsAttempt'
  <2>1. ASSUME NEW b \in AllocationIds, Occupying(b)'
        PROVE  Latest(b)' /\ requests'[allocations'[b].request].state \in StatesFor(allocations'[b].state)
    <3>1. CASE b = a
      BY <1>1, <1>4, <3>1 DEF StatesFor
    <3>2. CASE b # a
      <4>1. Occupying(b) /\ allocations'[b] = allocations[b]
        BY <1>1, <2>1, <3>2 DEF Occupying
      <4>2. /\ allocations[b].request \in RequestIds \ {r}
            /\ Latest(b) /\ requests[allocations[b].request].state \in StatesFor(allocations[b].state)
        BY <1>5, <3>2, <4>1
      <4>3. Latest(b)'
        BY <1>3, <4>1, <4>2 DEF Latest
      <4> QED BY <1>1, <4>1, <4>2, <4>3
    <3> QED BY <3>1, <3>2
  <2>2. ASSUME NEW q \in RequestIds, requests'[q].state \in Blocking \ {"waiting", "quarantined"}
        PROVE  \E b \in Attempts(q)' : Occupying(b)'
    <3>1. CASE q = r
      BY <1>4, <3>1
    <3>2. CASE q # r
      <4>1. PICK b \in Attempts(q) : Occupying(b)
        BY <1>1, <2>2, <3>2 DEF Inv, RequestMirrorsAttempt
      <4>2. b \in AllocationIds \ {a}
        BY <1>3, <3>2, <4>1 DEF Attempts
      <4> QED BY <1>1, <1>3, <3>2, <4>1, <4>2 DEF Occupying
    <3> QED BY <3>1, <3>2
  <2> QED BY <2>1, <2>2 DEF RequestMirrorsAttempt
<1>9. QuarantinedCanBeAbandoned'
  <2>1. ASSUME NEW q \in RequestIds, requests'[q].state = "quarantined"
        PROVE  \E b \in Attempts(q)' :
                 /\ Latest(b)'
                 /\ \/ allocations'[b].state = "quarantined"
                    \/ allocations'[b].state = "reclaimed" /\ intents'[q] = "paused"
    <3>1. q # r /\ requests[q].state = "quarantined"
      BY <1>1, <2>1
    <3>2. PICK b \in Attempts(q) :
                 /\ Latest(b)
                 /\ \/ allocations[b].state = "quarantined"
                    \/ allocations[b].state = "reclaimed" /\ intents[q] = "paused"
      BY <3>1 DEF Inv, QuarantinedCanBeAbandoned
    <3>3. b \in AllocationIds \ {a} /\ allocations[b].request = q
      BY <1>3, <3>1, <3>2 DEF Attempts
    <3>4. Latest(b)'
      BY <1>1, <1>3, <3>1, <3>2, <3>3 DEF Latest
    <3> QED BY <1>1, <1>3, <3>1, <3>2, <3>3, <3>4
  <2> QED BY <2>1 DEF QuarantinedCanBeAbandoned
<1>10. OneBlockingRequest'
  BY <1>1 DEF Inv, OneBlockingRequest, Blocking
<1> QED BY <1>1, <1>6, <1>7, <1>8, <1>9, <1>10 DEF Inv

-----------------------------------------------------------------------------
(* The theorems. *)

\* The steps that leave the rows of the play as they are.
NoStep == UNCHANGED <<requests, allocations, creates, stops, intents>>

\* Every step is about one attempt, about a request without a server, reserves
\* a new attempt, or changes none of these rows.
LEMMA NextCases ==
  ASSUME Inv, Next
  PROVE  /\ TypeOK'
         /\ \/ \E a \in AllocationIds : StepOf(a)
            \/ \E r \in RequestIds : RequestStep(r)
            \/ \E a \in AllocationIds, r \in RequestIds, n \in Nodes :
                 ReserveFor(a, r, n) /\ Serves(r, n)
            \/ NoStep
<1>1. TypeOK /\ Reports \subseteq Report /\ Desires \subseteq Nat
  BY LifecycleAssumption DEF Inv
<1>2. CASE Player
  <2>1. CASE \E o \in Owners, t \in Nodes \cup {AnyNode} : CreateUserRequest(o, t)
    BY <2>1, CreateUserStep
  <2>2. CASE \E r \in RequestIds : CancelUserRequest(r)
    BY <2>2, CloseWaitingStep
  <2>3. CASE \E r \in RequestIds : \E next \in BOOLEAN : StopUserRequest(r, next)
    BY <2>3, StopUserStep
  <2>4. CASE \E r \in RequestIds : AbandonQuarantinedUserRequest(r)
    BY <2>4, AbandonStep
  <2> QED BY <1>2, <2>1, <2>2, <2>3, <2>4 DEF Player
<1>3. CASE Controller
  <2>1. PICK a \in AllocationIds :
          \/ ClaimCreate(a) \/ ClaimStop(a)
          \/ PrepareCreate(a)
          \/ BeginCreate(a) \/ BeginStop(a)
          \/ \E rep \in Reports : ReportCreate(a, rep) \/ ReportStop(a, rep)
          \/ ReportInstanceFact(a)
    BY <1>3 DEF Controller
  <2>2. CASE \E rep \in Report : ReportCreate(a, rep) \/ ReportStop(a, rep)
    BY <2>2, ReportCreateStep, ReportStopStep
  <2>3. CASE BeginCreate(a) \/ BeginStop(a)
    <3>1. [state |-> "unknown", ids |-> {}, untrusted |-> FALSE] \in Report
      BY DEF Report
    <3> QED BY <2>2, <2>3, <3>1 DEF BeginCreate, BeginStop
  <2> QED
    BY <1>1, <2>1, <2>2, <2>3, ClaimStep, PrepareStep, FactStep
<1>4. CASE Administrator
  <2>1. CASE \E r \in RequestIds : CancelUserRequest(r) \/ AdminStopRequest(r)
    BY <2>1, CloseWaitingStep, AdminStopStep
  <2>2. CASE \E a \in AllocationIds : MarkAllocationQuarantined(a) \/ TerminatePending(a)
    BY <2>2, QuarantineStep, TerminateStep
  <2>3. CASE \E n \in Nodes : \/ \E g \in Gates : SetGate(n, g)
                              \/ \E d \in Desires : SetDesiredCapacity(n, d)
    BY <1>1, <2>3 DEF SetGate, SetDesiredCapacity, TypeOK, NodeRow, NoStep
  <2>4. CASE \E c \in Catalogs : SetCatalog(c)
    BY <1>1, <2>4 DEF SetCatalog, TypeOK, NoStep
  <2> QED BY <1>4, <2>1, <2>2, <2>3, <2>4 DEF Administrator
<1>5. CASE Platform
  <2>1. CASE \E r \in RequestIds : GiveUp(r)
    BY <2>1, CloseWaitingStep
  <2>2. CASE \E r \in RequestIds, n \in Nodes : Reserve(r, n)
    <3>1. PICK r \in RequestIds, n \in Nodes : Reserve(r, n)
      BY <2>2
    <3>2. PICK a \in AllocationIds : ReserveFor(a, r, n)
      BY <3>1 DEF Reserve, ReserveFor
    <3>3. TypeOK'
      BY <3>2, ReserveRows
    <3> QED BY <3>1, <3>2, <3>3 DEF Reserve
  <2>3. CASE \E a \in AllocationIds : QuarantineOneUnreachable(a)
    BY <2>3, QuarantineStep
  <2>4. CASE \E n \in Nodes : Heartbeat(n) \/ Lapse(n)
    <3>1. PICK n \in Nodes : Heartbeat(n) \/ Lapse(n)
      BY <2>4
    <3>2. NoStep /\ catalog' = catalog
          /\ \E up \in BOOLEAN : nodes' = [nodes EXCEPT ![n].online = up]
      BY <3>1 DEF Heartbeat, Lapse, NoStep
    <3>3. nodes' \in [Nodes -> NodeRow]
      BY <1>1, <3>2 DEF TypeOK, NodeRow
    <3> QED BY <1>1, <3>2, <3>3 DEF TypeOK, NoStep
  <2> QED BY <1>5, <2>1, <2>2, <2>3, <2>4 DEF Platform, TryAllocateOne
<1> QED BY <1>2, <1>3, <1>4, <1>5 DEF Next

\* A step that changes none of the rows the invariant reads preserves it.
LEMMA NoStepKeepsInv ==
  ASSUME Inv, NoStep, TypeOK'
  PROVE  Inv'
<1>1. \A a \in AllocationIds : (Latest(a)' <=> Latest(a)) /\ (Occupying(a)' <=> Occupying(a))
  BY DEF NoStep, Latest, Occupying, Attempts
<1>2. \A r \in RequestIds : Attempts(r)' = Attempts(r)
  BY DEF NoStep, Attempts
<1>3. RowsAgree' /\ OneBlockingRequest' /\ \A r \in RequestIds : IntentAgrees(r)'
  BY DEF Inv, NoStep, RowsAgree, OneBlockingRequest, IntentAgrees
<1>4. \A a \in AllocationIds : (AttemptAgrees(a) /\ ClosedBeforeIntent(a))'
  BY DEF Inv, NoStep, AttemptAgrees, ClosedBeforeIntent
<1>5. RequestMirrorsAttempt'
  <2>1. RequestMirrorsAttempt
    BY DEF Inv
  <2>2. ASSUME NEW a \in AllocationIds, Occupying(a)'
        PROVE  Latest(a)' /\ requests'[allocations'[a].request].state \in StatesFor(allocations'[a].state)
    BY <1>1, <2>1, <2>2 DEF NoStep, RequestMirrorsAttempt
  <2>3. ASSUME NEW r \in RequestIds, requests'[r].state \in Blocking \ {"waiting", "quarantined"}
        PROVE  \E a \in Attempts(r)' : Occupying(a)'
    BY <1>1, <1>2, <2>1, <2>3 DEF NoStep, RequestMirrorsAttempt, Attempts
  <2> QED BY <2>2, <2>3 DEF RequestMirrorsAttempt
<1>6. QuarantinedCanBeAbandoned'
  BY <1>1, <1>2 DEF Inv, NoStep, QuarantinedCanBeAbandoned, Attempts
<1> QED BY <1>3, <1>4, <1>5, <1>6 DEF Inv

\* The invariant holds of the empty database.
LEMMA InitInv == Init => Inv
<1> SUFFICES ASSUME Init PROVE Inv
  OBVIOUS
<1>1. \A a \in AllocationIds : allocations[a] = NoAllocation /\ creates[a] = NoCreate /\ stops[a] = NoStop
  BY DEF Init
<1>2. \A r \in RequestIds : requests[r] = NoRequest /\ intents[r] = "none"
  BY DEF Init
<1>3. TypeOK
  <2>1. NoRequest \in RequestRow
    BY DEF NoRequest, RequestRow
  <2>2. NoAllocation \in AllocationRow /\ NoCreate \in CreateRow /\ NoStop \in StopRow
    BY DEF NoAllocation, AllocationRow, NoCreate, CreateRow, NoStop, StopRow
  <2>3. nodes \in [Nodes -> NodeRow]
    BY LifecycleAssumption DEF Init, NodeRow
  <2> QED BY <2>1, <2>2, <2>3 DEF Init, TypeOK, IntentStates
<1>4. \A a \in AllocationIds : ~Occupying(a)
  BY <1>1, StatesDisjoint DEF Occupying, NoAllocation
<1>5. RowsAgree /\ \A r \in RequestIds : IntentAgrees(r)
  BY <1>1, <1>2 DEF RowsAgree, IntentAgrees, NoRequest, NoAllocation
<1>6. \A a \in AllocationIds : AttemptAgrees(a) /\ ClosedBeforeIntent(a)
  BY <1>1 DEF AttemptAgrees, ClosedBeforeIntent, NoAllocation, NoCreate, NoStop, OpenJob,
              Unresolved, Starting
<1>7. RequestMirrorsAttempt /\ QuarantinedCanBeAbandoned /\ OneBlockingRequest
  BY <1>2, <1>4
  DEF RequestMirrorsAttempt, QuarantinedCanBeAbandoned, OneBlockingRequest, NoRequest, Blocking
<1> QED BY <1>3, <1>5, <1>6, <1>7 DEF Inv

\* Every step of the system preserves the invariant.
LEMMA NextKeepsInv ==
  Inv /\ [Next]_vars => Inv'
<1> SUFFICES ASSUME Inv, [Next]_vars PROVE Inv'
  OBVIOUS
<1>1. CASE Next
  BY <1>1, NextCases, StepOfKeepsInv, RequestStepKeepsInv, ReserveKeepsInv, NoStepKeepsInv
<1>2. CASE UNCHANGED vars
  <2>1. TypeOK' /\ NoStep
    BY <1>2 DEF vars, NoStep, Inv, TypeOK
  <2> QED BY <2>1, NoStepKeepsInv
<1> QED BY <1>1, <1>2

\* The inductive invariant holds in every reachable state of the Store.
THEOREM InvHolds == Spec => []Inv
BY InitInv, NextKeepsInv, PTL DEF Spec

\* Whatever the order of submissions, reports, facts, quarantines, abandonments
\* and administrator actions, each row stays within its type.
THEOREM TypeCorrect == Spec => []TypeOK
<1>1. Inv => TypeOK
  BY DEF Inv
<1> QED BY <1>1, InvHolds, PTL

\* No owner ever has two blocking requests: the partial unique indexes are never
\* what makes consumeNextGameIntent fail.
THEOREM OneBlocking == Spec => []OneBlockingRequest
<1>1. Inv => OneBlockingRequest
  BY DEF Inv
<1> QED BY <1>1, InvHolds, PTL

\* A request and its newest attempt always tell the same story.
THEOREM Mirrors == Spec => []RequestMirrorsAttempt
<1>1. Inv => RequestMirrorsAttempt
  BY DEF Inv
<1> QED BY <1>1, InvHolds, PTL

\* The owner of a quarantined request can always leave it.
THEOREM ExitFromQuarantine == Spec => []QuarantinedCanBeAbandoned
<1>1. Inv => QuarantinedCanBeAbandoned
  BY DEF Inv
<1> QED BY <1>1, InvHolds, PTL

\* Every attempt in flight has the job that drives it.
THEOREM Driven == Spec => []AttemptHasDriver
<1>1. Inv => AttemptHasDriver
  BY DEF Inv, AttemptAgrees, AttemptHasDriver
<1> QED BY <1>1, InvHolds, PTL

\* The create and the stop of an attempt are never unresolved together.
THEOREM OneJob == Spec => []OneUnresolvedJob
<1>1. Inv => OneUnresolvedJob
  BY DEF Inv, AttemptAgrees, OneUnresolvedJob
<1> QED BY <1>1, InvHolds, PTL

-----------------------------------------------------------------------------
(* Capacity. *)

\* A node has finitely many occupants.
LEMMA OccupantsFinite ==
  ASSUME NEW n
  PROVE  IsFiniteSet(Occupants(n)) /\ Cardinality(Occupants(n)) \in Nat
<1>1. IsFiniteSet(AllocationIds)
  BY FS_Interval, LifecycleAssumption DEF AllocationIds
<1>2. Occupants(n) \subseteq AllocationIds
  BY DEF Occupants
<1> QED BY <1>1, <1>2, FS_Subset, FS_CardinalityType

\* The same after a step.
LEMMA OccupantsPrimedFinite ==
  ASSUME NEW n
  PROVE  IsFiniteSet(Occupants(n)') /\ Cardinality(Occupants(n)') \in Nat
<1>1. IsFiniteSet(AllocationIds)
  BY FS_Interval, LifecycleAssumption DEF AllocationIds
<1>2. Occupants(n)' \subseteq AllocationIds
  BY DEF Occupants
<1> QED BY <1>1, <1>2, FS_Subset, FS_CardinalityType

\* A step adds no occupant to a node unless it reserves one there.
LEMMA OccupantsGrow ==
  ASSUME Inv, [Next]_vars, NEW n \in Nodes
  PROVE  \/ Occupants(n)' \subseteq Occupants(n)
         \/ \E a \in AllocationIds, r \in RequestIds :
              /\ ReserveFor(a, r, n) /\ Serves(r, n)
              /\ Occupants(n)' = Occupants(n) \cup {a} /\ a \notin Occupants(n)
<1>1. CASE UNCHANGED vars \/ NoStep \/ \E r \in RequestIds : RequestStep(r)
  BY <1>1 DEF vars, NoStep, RequestStep, Occupants, Occupying
<1>2. ASSUME NEW a \in AllocationIds, StepOf(a)
      PROVE  Occupants(n)' \subseteq Occupants(n)
  <2>1. allocations'[a].state \in OccupyingStates => allocations[a].state \in OccupyingStates
    <3>1. allocations[a].state \in OccupyingStates \cup Released
      BY <1>2, AttemptFacts DEF StepOf
    <3> QED BY <1>2, <3>1, StatesDisjoint DEF StepOf, Stays
  <2> QED BY <1>2, <2>1 DEF StepOf, Touches, Occupants, Occupying
<1>3. ASSUME NEW a \in AllocationIds, NEW r \in RequestIds, NEW m \in Nodes,
             ReserveFor(a, r, m), Serves(r, m)
      PROVE  \/ m # n /\ Occupants(n)' \subseteq Occupants(n)
             \/ /\ m = n
                /\ Occupants(n)' = Occupants(n) \cup {a} /\ a \notin Occupants(n)
  <2>1. /\ allocations'[a] = [state |-> "reserved", request |-> r, node |-> m]
        /\ allocations[a] = NoAllocation
        /\ \A b \in AllocationIds \ {a} : allocations'[b] = allocations[b]
    <3>1. Reserved(a, r, m)
      BY <1>3, ReserveRows
    <3> QED BY <3>1 DEF Reserved
  <2>2. "reserved" \in OccupyingStates /\ "none" \notin OccupyingStates
    BY DEF OccupyingStates, Starting
  <2> QED BY <2>1, <2>2 DEF Occupants, Occupying, NoAllocation
<1>4. CASE Next
  BY <1>1, <1>2, <1>3, <1>4, NextCases
<1> QED BY <1>1, <1>4

\* No step brings a node above its hard maximum.
LEMMA CapacityKept ==
  ASSUME Inv, CapacityRespected, [Next]_vars
  PROVE  CapacityRespected'
<1> SUFFICES ASSUME NEW n \in Nodes
             PROVE  Cardinality(Occupants(n)') <= Hard[n]
  BY DEF CapacityRespected
<1>1. Cardinality(Occupants(n)) <= Hard[n] /\ Hard[n] \in Nat
  BY LifecycleAssumption DEF CapacityRespected
<1>2. CASE Occupants(n)' \subseteq Occupants(n)
  <2>1. Cardinality(Occupants(n)') <= Cardinality(Occupants(n))
    BY <1>2, OccupantsFinite, FS_Subset
  <2> QED BY <1>1, <2>1, OccupantsFinite, OccupantsPrimedFinite
<1>3. ASSUME NEW a \in AllocationIds, NEW r \in RequestIds, Serves(r, n),
             Occupants(n)' = Occupants(n) \cup {a}, a \notin Occupants(n)
      PROVE  Cardinality(Occupants(n)') <= Hard[n]
  <2>1. Cardinality(Occupants(n)') = Cardinality(Occupants(n)) + 1
    BY <1>3, OccupantsFinite, FS_AddElement
  <2>2. nodes[n].desired \in Nat
    BY DEF Inv, TypeOK, NodeRow
  <2>3. Capacity(n) <= Hard[n] /\ Capacity(n) \in Nat
    BY <1>1, <2>2 DEF Capacity
  <2>4. Cardinality(Occupants(n)) < Capacity(n)
    BY <1>3 DEF Serves, Available
  <2> QED BY <1>1, <2>1, <2>3, <2>4, OccupantsFinite
<1> QED BY <1>2, <1>3, OccupantsGrow

\* No node ever holds more attempts than its hard maximum, quarantined and
\* unreclaimed ones included.
THEOREM WithinCapacity == Spec => []CapacityRespected
<1>1. Init => CapacityRespected
  <2> SUFFICES ASSUME Init, NEW n \in Nodes
               PROVE  Cardinality(Occupants(n)) <= Hard[n]
    BY DEF CapacityRespected
  <2>1. Occupants(n) = {}
    BY StatesDisjoint DEF Init, Occupants, Occupying, NoAllocation
  <2> QED BY <2>1, FS_EmptySet, LifecycleAssumption
<1>2. Inv /\ CapacityRespected /\ [Next]_vars => CapacityRespected'
  BY CapacityKept
<1> QED BY <1>1, <1>2, InvHolds, PTL DEF Spec

-----------------------------------------------------------------------------
(* Reservations. *)

\* A step that fills a row reserves it.
LEMMA OnlyReserveFills ==
  ASSUME Inv, [Next]_vars, NEW a \in AllocationIds, NEW r \in RequestIds, NEW n \in Nodes,
         allocations[a].state = "none",
         allocations'[a].request = r, allocations'[a].node = n
  PROVE  ReserveFor(a, r, n) /\ Serves(r, n)
<1>1. allocations'[a] # allocations[a]
  <2>1. allocations[a] = NoAllocation
    BY DEF Inv, RowsAgree
  <2> QED BY <2>1 DEF NoAllocation, RequestIds
<1>2. Next /\ ~NoStep /\ ~\E q \in RequestIds : RequestStep(q)
  BY <1>1 DEF vars, NoStep, RequestStep
<1>3. ~\E b \in AllocationIds : StepOf(b)
  BY <1>1 DEF StepOf, Touches
<1>4. PICK b \in AllocationIds, q \in RequestIds, m \in Nodes :
        ReserveFor(b, q, m) /\ Serves(q, m)
  BY <1>2, <1>3, NextCases
<1>5. /\ \A c \in AllocationIds \ {b} : allocations'[c] = allocations[c]
      /\ allocations'[b] = [state |-> "reserved", request |-> q, node |-> m]
  <2>1. Reserved(b, q, m)
    BY <1>4, ReserveRows
  <2> QED BY <2>1 DEF Reserved
<1>6. a = b /\ r = q /\ n = m
  BY <1>1, <1>5
<1> QED BY <1>4, <1>6

\* A reservation respects the capacity that the administrator desires.
LEMMA ReservedWithin ==
  ASSUME Inv, NEW a \in AllocationIds, NEW r \in RequestIds, NEW n \in Nodes,
         ReserveFor(a, r, n), Serves(r, n)
  PROVE  Cardinality(Occupants(n)') <= nodes[n].desired
<1>1. Occupants(n)' \subseteq Occupants(n) \cup {a}
  <2>1. Reserved(a, r, n)
    BY ReserveRows
  <2> QED BY <2>1 DEF Reserved, Occupants, Occupying
<1>2. nodes[n].desired \in Nat /\ Hard[n] \in Nat
  BY LifecycleAssumption DEF Inv, TypeOK, NodeRow
<1>3. Cardinality(Occupants(n)) < nodes[n].desired
  <2>1. Cardinality(Occupants(n)) < Capacity(n)
    BY DEF Serves, Available
  <2> QED BY <1>2, <2>1, OccupantsFinite DEF Capacity
<1>4. Cardinality(Occupants(n)') <= Cardinality(Occupants(n)) + 1
  <2>1. /\ IsFiniteSet(Occupants(n) \cup {a})
        /\ Cardinality(Occupants(n) \cup {a}) \in
             {Cardinality(Occupants(n)), Cardinality(Occupants(n)) + 1}
    <3>1. CASE a \in Occupants(n)
      <4>1. Occupants(n) \cup {a} = Occupants(n)
        BY <3>1
      <4> QED BY <4>1, OccupantsFinite
    <3>2. CASE a \notin Occupants(n)
      BY <3>2, OccupantsFinite, FS_AddElement
    <3> QED BY <3>1, <3>2
  <2>2. Cardinality(Occupants(n)') <= Cardinality(Occupants(n) \cup {a})
    BY <1>1, <2>1, FS_Subset
  <2> QED BY <2>1, <2>2, OccupantsFinite, OccupantsPrimedFinite, FS_CardinalityType
<1> QED BY <1>2, <1>3, <1>4, OccupantsFinite, OccupantsPrimedFinite

-----------------------------------------------------------------------------
(* Late reports. *)

\* No step changes what is released or over, or revives what is quarantined.
LEMMA NothingLateStep ==
  ASSUME Inv, Next
  PROVE  /\ \A a \in AllocationIds :
              /\ allocations[a].state \in Released => allocations'[a] = allocations[a]
              /\ allocations[a].state = "quarantined" =>
                   allocations'[a].state \in {"quarantined"} \cup Released
         /\ \A r \in RequestIds :
              requests[r].state \in RequestStates \ Blocking => requests'[r] = requests[r]
<1>1. CASE NoStep
  BY <1>1 DEF NoStep
<1>2. CASE \E r \in RequestIds : RequestStep(r)
  BY <1>2 DEF RequestStep, RequestStates, Blocking
<1>3. ASSUME NEW a \in AllocationIds, StepOf(a)
      PROVE  /\ \A b \in AllocationIds :
                  /\ allocations[b].state \in Released => allocations'[b] = allocations[b]
                  /\ allocations[b].state = "quarantined" =>
                       allocations'[b].state \in {"quarantined"} \cup Released
             /\ \A r \in RequestIds :
                  requests[r].state \in RequestStates \ Blocking => requests'[r] = requests[r]
  <2>1. \A b \in AllocationIds \ {a} : allocations'[b] = allocations[b]
    BY <1>3 DEF StepOf, Touches
  <2>2. /\ allocations[a].state \in Released => allocations'[a] = allocations[a]
        /\ allocations[a].state = "quarantined" =>
             allocations'[a].state \in {"quarantined"} \cup Released
    BY <1>3 DEF StepOf, Stays
  <2>3. \A r \in RequestIds \ {allocations[a].request} :
          requests[r].state # "none" => requests'[r] = requests[r]
    BY <1>3 DEF StepOf, Touches
  <2>4. LET r == allocations[a].request
        IN requests[r].state \in RequestStates \ Blocking => requests'[r] = requests[r]
    BY <1>3 DEF StepOf, Stays, Touches
  <2> QED BY <2>1, <2>2, <2>3, <2>4, StatesDisjoint
<1>4. ASSUME NEW a \in AllocationIds, NEW r \in RequestIds, NEW n \in Nodes, ReserveFor(a, r, n)
      PROVE  /\ \A b \in AllocationIds :
                  /\ allocations[b].state \in Released => allocations'[b] = allocations[b]
                  /\ allocations[b].state = "quarantined" =>
                       allocations'[b].state \in {"quarantined"} \cup Released
             /\ \A q \in RequestIds :
                  requests[q].state \in RequestStates \ Blocking => requests'[q] = requests[q]
  <2>1. /\ allocations[a] = NoAllocation
        /\ \A b \in AllocationIds \ {a} : allocations'[b] = allocations[b]
        /\ \A q \in RequestIds \ {r} : requests'[q] = requests[q]
        /\ requests[r].state = "waiting"
    <3>1. Reserved(a, r, n)
      BY <1>4, ReserveRows
    <3> QED BY <3>1 DEF Reserved
  <2> QED BY <2>1 DEF NoAllocation, Released, Blocking
<1> QED BY <1>1, <1>2, <1>3, <1>4, NextCases

\* What is released stays released, quarantine ends only in release, and a
\* request that is over stays over, whatever arrives late.
THEOREM LateReports == Spec => LateReportsChangeNothing
<1> DEFINE Late == /\ \A a \in AllocationIds :
                        /\ allocations[a].state \in Released => allocations'[a] = allocations[a]
                        /\ allocations[a].state = "quarantined" =>
                             allocations'[a].state \in {"quarantined"} \cup Released
                   /\ \A r \in RequestIds :
                        requests[r].state \in RequestStates \ Blocking => requests'[r] = requests[r]
<1>1. Inv /\ [Next]_vars => [Late]_vars
  <2> SUFFICES ASSUME Inv, Next PROVE Late
    OBVIOUS
  <2> QED BY NothingLateStep
<1> QED BY <1>1, InvHolds, PTL DEF Spec, LateReportsChangeNothing

=============================================================================
