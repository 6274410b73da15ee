----------------------------- MODULE Lifecycle -----------------------------
(***************************************************************************)
(* The Platform Store's life of one play: ServerRequest, Allocation        *)
(* (attempt), its create and stop NodeJobs and the next-game intent.       *)
(*                                                                         *)
(* Every action is one PostgreSQL transaction of internal/platform/store,  *)
(* whole: the row locks it takes make it atomic, and an action that the    *)
(* code answers with a conflict or a rollback is simply not enabled.  Of   *)
(* the allocation pass, whose reads other transactions can come between,   *)
(* only what it commits is here; Admission takes it statement by           *)
(* statement.  The Controller appears only through the reports and facts   *)
(* it may send, so what is proved of this module holds for any Controller  *)
(* that the Store's own validation lets through.                           *)
(*                                                                         *)
(* Ids are numbers handed out in creation order, so the order on ids is    *)
(* requested_at for requests and attempt_sequence for the attempts of one  *)
(* request.  An owner is a user or a party: the leader check belongs to    *)
(* the party component.                                                    *)
(***************************************************************************)
EXTENDS Integers, FiniteSets

CONSTANTS
  Owners,          \* users or parties that may own a request
  Nodes,           \* registered nodes
  Hard,            \* Hard[n]: hard_max_instances reported by n's heartbeat
  MaxRequests,     \* bound: requests ever submitted
  MaxAllocations,  \* bound: attempts ever reserved
  V102,            \* TRUE when the preset's validation contract is v1_0_2
  Gates,           \* bound: gate values the administrator uses
  Desires,         \* bound: desired capacities the administrator sets
  Catalogs,        \* bound: catalog values the administrator uses
  Unsteady,        \* bound: nodes whose heartbeat, gate and capacity change
  Reports,         \* bound: reports the Controllers send, all of Report or fewer
  AnyNode,         \* target of an automatic request
  None             \* SQL NULL

RequestIds    == 1..MaxRequests
AllocationIds == 1..MaxAllocations

ClosedJob  == {"succeeded", "rejected_no_effect", "failed_with_effect"}
CoreIds == {"instance", "operation"}    \* core identities a job may have recorded

\* A report that passes ReportRequest.Validate.  untrusted stands for the error
\* code IDENTITY_UNVERIFIED, which any state may carry: neither Validate nor
\* reportJob ties an error code to a state.
Report == [state : {"accepted", "unknown"} \cup ClosedJob,
           ids : SUBSET CoreIds, untrusted : BOOLEAN]

ASSUME LifecycleAssumption ==
  /\ MaxRequests \in Nat /\ MaxAllocations \in Nat
  /\ Nodes # {}
  /\ Hard \in [Nodes -> Nat]
  /\ V102 \in BOOLEAN
  /\ Gates \subseteq {"open", "closed", "disabled"}
  /\ Desires \subseteq Nat
  /\ Catalogs \subseteq {"open", "closed", "disabled"}
  /\ Unsteady \subseteq Nodes
  /\ Reports \subseteq Report
  /\ AnyNode \notin Nodes /\ None \notin Nodes \cup {AnyNode} /\ None \notin Owners

VARIABLES
  requests,     \* server_requests
  allocations,  \* allocations
  creates,      \* node_jobs of kind create, with its node_job_executions row
  stops,        \* latest node_job of kind stop of the allocation
  intents,      \* next_game_intents, keyed by source request
  nodes,        \* nodes and their latest report
  catalog       \* admission switches of platform, game and preset

vars == <<requests, allocations, creates, stops, intents, nodes, catalog>>

-----------------------------------------------------------------------------
(* States, as the migrations' CHECK constraints list them. *)

Blocking == {"waiting", "allocating", "creating", "running", "stopping",
             "failed_unreclaimed", "quarantined"}
RequestStates == Blocking \cup {"ended", "cancelled", "unavailable", "abandoned"}

Released == {"reclaimed", "released_no_effect"}
Starting == {"reserved", "creating", "create_unknown"}
OccupyingStates ==
  Starting \cup {"running", "stopping", "failed_unreclaimed", "quarantined"}

Unresolved == {"claimed", "accepted", "unknown"}
OpenJob    == {"pending"} \cup Unresolved

\* "refused" is state 'paused' with a failure_reason.
PausedIntent == {"paused", "refused"}
IntentStates == {"none", "pending", "consumed"} \cup PausedIntent

NoRequest    == [state |-> "none", owner |-> None, target |-> None, origin |-> 0]
NoAllocation == [state |-> "none", request |-> 0, node |-> None]
NoCreate     == [state |-> "none", ids |-> {}, frozen |-> FALSE, untrusted |-> FALSE]
NoStop       == [state |-> "none", ids |-> {}]

-----------------------------------------------------------------------------
(* Questions the handlers ask. *)

Attempts(r)   == {a \in AllocationIds : allocations[a].request = r}
Latest(a)     == \A b \in Attempts(allocations[a].request) : b <= a
Occupying(a)  == allocations[a].state \in OccupyingStates
Occupants(n)  == {a \in AllocationIds : Occupying(a) /\ allocations[a].node = n}
\* Faulty: quarantine does not block its owner.
BusyUnlessQuarantined(o) == \E r \in RequestIds : /\ requests[r].owner = o
                                                  /\ requests[r].state \in Blocking \ {"quarantined"}
Busy(o)       == \E r \in RequestIds : /\ requests[r].owner = o
                                       /\ requests[r].state \in Blocking
Capacity(n)   == IF nodes[n].desired < Hard[n] THEN nodes[n].desired ELSE Hard[n]

\* Reason(...) = "available".  The gate stands for enabled, accepting, draining,
\* the template binding, the content facts and, under v1_0_2, the effective
\* validation proof; an incompatible node is one that is not online.
\* Faulty: admits one attempt too many.
AvailableOffByOne(n) ==
  nodes[n].online /\ nodes[n].gate = "open" /\ Cardinality(Occupants(n)) <= Capacity(n)

Available(n) ==
  /\ nodes[n].online
  /\ nodes[n].gate = "open"
  /\ Cardinality(Occupants(n)) < Capacity(n)

\* The node still has no-effect rejections of this request to its name.
Refused(r, n) == \E a \in Attempts(r) : /\ allocations[a].node = n
                                        /\ allocations[a].state = "released_no_effect"

\* Faulty: retries a node that has rejected the request.
CandidatesRefusedToo(r) ==
  IF requests[r].target = AnyNode THEN Nodes ELSE {requests[r].target}

Candidates(r) ==
  IF requests[r].target = AnyNode THEN {n \in Nodes : ~Refused(r, n)}
                               ELSE {requests[r].target}

FreshRequestAllowed(t) ==
  /\ catalog = "open"
  /\ t # AnyNode => nodes[t].gate # "disabled"

FreeRequest(q) == /\ requests[q].state = "none"
                  /\ \A p \in 1..(q - 1) : requests[p].state # "none"
FreeAllocation(a) == /\ allocations[a].state = "none"
                     /\ \A b \in 1..(a - 1) : allocations[b].state # "none"

-----------------------------------------------------------------------------
(* Row updates several handlers share. *)

\* Faulty: the update forgets AND state<>'abandoned'.
RequestToEvenAbandoned(r, s) == [requests EXCEPT ![r].state = s]

\* UPDATE server_requests SET state=s ... WHERE id=r AND state<>'abandoned'
RequestTo(r, s) ==
  [requests EXCEPT ![r].state = IF @ = "abandoned" THEN @ ELSE s]

AllocationTo(a, s) == [allocations EXCEPT ![a].state = s]

NewStop == [state |-> "pending", ids |-> {"instance"}]

PauseIntent(r) == [intents EXCEPT ![r] = IF @ = "pending" THEN "paused" ELSE @]

\* Faulty: forgets that a consumed intent is done with.
ConsumeIntentAgain(r, reqs, afterAbandon) ==
  IF intents[r] # "none"
    THEN /\ \E q \in RequestIds :
              /\ FreeRequest(q)
              /\ requests' = [reqs EXCEPT ![q] =
                   [state |-> "waiting", owner |-> requests[r].owner,
                    target |-> requests[r].target, origin |-> r]]
         /\ intents' = [intents EXCEPT ![r] = "consumed"]
    ELSE requests' = reqs /\ UNCHANGED intents

\* consumeNextGameIntent: reqs is server_requests as the same transaction has
\* already changed it.
ConsumeIntent(r, reqs, afterAbandon) ==
  LET due     == intents[r] = "pending" \/ (afterAbandon /\ intents[r] = "paused")
      allowed == FreshRequestAllowed(requests[r].target)
  IN \/ /\ ~due
        /\ requests' = reqs
        /\ UNCHANGED intents
     \/ /\ due /\ ~allowed
        /\ requests' = reqs
        /\ intents' = [intents EXCEPT ![r] = "refused"]
     \/ /\ due /\ allowed
        /\ \E q \in RequestIds :
             /\ FreeRequest(q)
             /\ requests' = [reqs EXCEPT ![q] =
                  [state |-> "waiting", owner |-> requests[r].owner,
                   target |-> requests[r].target, origin |-> r]]
        /\ intents' = [intents EXCEPT ![r] = "consumed"]

-----------------------------------------------------------------------------
(* The player. *)

CreateUserRequest(o, t) ==
  /\ ~Busy(o)
  /\ FreshRequestAllowed(t)
  /\ \E r \in RequestIds :
       /\ FreeRequest(r)
       /\ requests' = [requests EXCEPT ![r] =
            [state |-> "waiting", owner |-> o, target |-> t, origin |-> 0]]
  /\ UNCHANGED <<allocations, creates, stops, intents, nodes, catalog>>

CancelUserRequest(r) ==
  /\ requests[r].state = "waiting"
  /\ Attempts(r) = {}
  /\ requests' = RequestTo(r, "cancelled")
  /\ UNCHANGED <<allocations, creates, stops, intents, nodes, catalog>>

\* StopUserRequest, and NextGameUserRequest when next holds.
StopUserRequest(r, next) ==
  /\ requests[r].state = "running"
  /\ \E a \in Attempts(r) :
       /\ allocations[a].state = "running"
       /\ creates[a].state = "succeeded"
       /\ stops[a].state \notin OpenJob
       /\ stops' = [stops EXCEPT ![a] = NewStop]
       /\ allocations' = AllocationTo(a, "stopping")
  /\ requests' = RequestTo(r, "stopping")
  /\ next => intents[r] = "none"
  /\ intents' = IF next THEN [intents EXCEPT ![r] = "pending"] ELSE intents
  /\ UNCHANGED <<creates, nodes, catalog>>

AbandonQuarantinedUserRequest(r) ==
  /\ requests[r].state = "quarantined"
  /\ \E a \in Attempts(r) :
       /\ Latest(a)
       /\ \/ allocations[a].state = "quarantined"
          \/ allocations[a].state = "reclaimed" /\ intents[r] \in PausedIntent
  /\ ConsumeIntent(r, RequestTo(r, "abandoned"), TRUE)
  /\ UNCHANGED <<allocations, creates, stops, nodes, catalog>>

-----------------------------------------------------------------------------
(* The allocation loop. *)

GivesUp(r) ==
  \/ catalog = "disabled"
  \/ /\ catalog = "open"
     /\ requests[r].target = AnyNode
     /\ Candidates(r) = {}

Serves(r, n) ==
  /\ catalog = "open"
  /\ n \in Candidates(r)
  /\ Available(n)

GiveUp(r) ==
  /\ requests[r].state = "waiting"
  /\ GivesUp(r)
  /\ requests' = RequestTo(r, "unavailable")
  /\ UNCHANGED <<allocations, creates, stops, intents, nodes, catalog>>

Reserve(r, n) ==
  /\ requests[r].state = "waiting"
  /\ Serves(r, n)
  /\ \E a \in AllocationIds :
       /\ FreeAllocation(a)
       /\ allocations' = [allocations EXCEPT ![a] =
            [state |-> "reserved", request |-> r, node |-> n]]
       /\ creates' = [creates EXCEPT ![a] = [NoCreate EXCEPT !.state = "pending"]]
  /\ requests' = RequestTo(r, "allocating")
  /\ UNCHANGED <<stops, intents, nodes, catalog>>

\* What a pass commits.  Which waiting request it serves, and on which of its
\* nodes, depends on what it read statement by statement: Admission says that,
\* and that every pass commits one of these or nothing.
TryAllocateOne == \E r \in RequestIds : GiveUp(r) \/ \E n \in Nodes : Reserve(r, n)

-----------------------------------------------------------------------------
(* NodeJobs: claim, freeze, operation start. *)

\* The Node row lock serialises claims; a job waits while another job of its
\* allocation is unresolved.  Either variant of the claim has this effect.
Claimable(n) == nodes[n].online /\ nodes[n].gate # "disabled"

ClaimCreate(a) ==
  /\ creates[a].state = "pending"
  /\ Claimable(allocations[a].node)
  /\ stops[a].state \notin Unresolved
  /\ creates' = [creates EXCEPT ![a].state = "claimed"]
  /\ UNCHANGED <<requests, allocations, stops, intents, nodes, catalog>>

\* Faulty: claims beside an unresolved create.
ClaimStopUnserialised(a) ==
  /\ stops[a].state = "pending"
  /\ Claimable(allocations[a].node)
  /\ stops' = [stops EXCEPT ![a].state = "claimed"]
  /\ UNCHANGED <<requests, allocations, creates, intents, nodes, catalog>>

ClaimStop(a) ==
  /\ stops[a].state = "pending"
  /\ Claimable(allocations[a].node)
  /\ creates[a].state \notin Unresolved
  /\ stops' = [stops EXCEPT ![a].state = "claimed"]
  /\ UNCHANGED <<requests, allocations, creates, intents, nodes, catalog>>

PrepareCreate(a) ==
  LET r == allocations[a].request
  IN /\ creates[a].state \in Unresolved
     /\ creates' = [creates EXCEPT ![a].frozen = TRUE]
     /\ allocations' = IF allocations[a].state \in Starting
                         THEN AllocationTo(a, "creating") ELSE allocations
     /\ requests' = IF requests[r].state = "allocating"
                      THEN RequestTo(r, "creating") ELSE requests
     /\ UNCHANGED <<stops, intents, nodes, catalog>>

-----------------------------------------------------------------------------
(* NodeJobs: reports. *)

Permitted(old) ==
  CASE old = "claimed"  -> Unresolved \cup (ClosedJob \ {"succeeded"})
    [] old = "accepted" -> Unresolved \cup (ClosedJob \ {"rejected_no_effect"})
    [] old = "unknown"  -> Unresolved \cup ClosedJob
    [] OTHER            -> {}

\* The checks of reportJob common to both kinds; a report of a closed job
\* either repeats it, which changes nothing, or is refused.  permittedTransition
\* lets a job stay as it is, and no report says claimed.
ReportFits(job, rep) ==
  LET ids == job.ids \cup rep.ids
  IN /\ rep.state \in Permitted(job.state)
     /\ V102 /\ job.state = "claimed" => rep.state \notin {"accepted", "succeeded"}
     /\ rep.state \in {"accepted", "succeeded"} => ids = CoreIds
     /\ rep.state = "failed_with_effect" => ids # {}

\* Faulty: quarantine does not hold reports back; nothing does.
TooLateOnceReleased(a, proof) == allocations[a].state \in Released
TooLateNever(a, proof)        == FALSE

\* Resource terminal states never change again, and only a proved release
\* takes an attempt out of quarantine.
TooLate(a, proof) ==
  \/ allocations[a].state \in Released
  \/ allocations[a].state = "quarantined" /\ ~proof

\* An attempt and its request move together.
Move(a, attempt, request) ==
  /\ allocations' = AllocationTo(a, attempt)
  /\ requests' = RequestTo(allocations[a].request, request)

Quarantined(a) ==
  /\ Move(a, "quarantined", "quarantined")
  /\ intents' = PauseIntent(allocations[a].request)

\* Faulty: marks the attempt stopping without adding the job.
CreateFailedJobless(a, known, untrusted) ==
  IF untrusted THEN Quarantined(a) /\ UNCHANGED stops
               ELSE Move(a, "stopping", "stopping") /\ UNCHANGED <<intents, stops>>

\* create, failed_with_effect: the known instance gets its own stop.
CreateFailed(a, known, untrusted) ==
  \/ /\ untrusted
     /\ Quarantined(a)
     /\ UNCHANGED stops
  \/ /\ ~untrusted /\ known
     /\ Move(a, "stopping", "stopping")
     /\ stops' = IF stops[a].state \in OpenJob THEN stops ELSE [stops EXCEPT ![a] = NewStop]
     /\ UNCHANGED intents
  \/ /\ ~untrusted /\ ~known
     /\ Move(a, "failed_unreclaimed", "failed_unreclaimed")
     /\ UNCHANGED <<intents, stops>>

ApplyCreateReport(a, rep) ==
  LET known == "instance" \in creates[a].ids \cup rep.ids
      after == IF requests[allocations[a].request].target = AnyNode
                 THEN "waiting" ELSE "unavailable"
  IN \/ /\ TooLate(a, rep.state = "rejected_no_effect")
        /\ UNCHANGED <<requests, allocations, stops, intents>>
     \/ /\ ~TooLate(a, rep.state = "rejected_no_effect")
        /\ \/ /\ rep.state = "accepted" /\ Move(a, "creating", "creating")
              /\ UNCHANGED <<stops, intents>>
           \/ /\ rep.state = "unknown" /\ Move(a, "create_unknown", "creating")
              /\ UNCHANGED <<stops, intents>>
           \/ /\ rep.state = "succeeded" /\ Move(a, "running", "running")
              /\ UNCHANGED <<stops, intents>>
           \/ /\ rep.state = "rejected_no_effect" /\ Move(a, "released_no_effect", after)
              /\ UNCHANGED <<stops, intents>>
           \/ /\ rep.state = "failed_with_effect"
              /\ CreateFailed(a, known, rep.untrusted)

\* A rejection must come before any possible effect: no core id, no doubt.
CreateReportFits(a, rep) ==
  /\ ReportFits(creates[a], rep)
  /\ ~creates[a].frozen => rep.state = "rejected_no_effect"
  /\ rep.state = "rejected_no_effect" =>
       creates[a].ids \cup rep.ids = {} /\ creates[a].state # "unknown"

ReportCreate(a, rep) ==
  /\ CreateReportFits(a, rep)
  /\ creates' = [creates EXCEPT ![a] =
       [state |-> rep.state, ids |-> @.ids \cup rep.ids,
        frozen |-> @.frozen, untrusted |-> rep.untrusted]]
  /\ ApplyCreateReport(a, rep)
  /\ UNCHANGED <<nodes, catalog>>

\* The durable point before a v1_0_2 core call; a repetition changes nothing.
BeginCreate(a) ==
  /\ V102
  /\ creates[a].state = "claimed" /\ creates[a].frozen /\ creates[a].ids = {}
  /\ ReportCreate(a, [state |-> "unknown", ids |-> {}, untrusted |-> FALSE])

\* Faulty: a quarantined request stays so although nothing is paused.
StopSucceededStaysQuarantined(a) ==
  LET r == allocations[a].request
  IN /\ allocations' = AllocationTo(a, "reclaimed")
     /\ IF allocations[a].state = "quarantined"
          THEN UNCHANGED <<requests, intents>>
          ELSE ConsumeIntent(r, RequestTo(r, "ended"), FALSE)

\* The instance is gone.  Whoever paused the next game has to decide first.
StopSucceeded(a) ==
  LET r      == allocations[a].request
      paused == intents[r] \in PausedIntent
      ended  == RequestTo(r, IF paused THEN "quarantined" ELSE "ended")
  IN /\ allocations' = AllocationTo(a, "reclaimed")
     /\ \/ /\ allocations[a].state # "quarantined"
           /\ ConsumeIntent(r, ended, FALSE)
        \/ /\ allocations[a].state = "quarantined"
           /\ requests' = ended
           /\ UNCHANGED intents

ApplyStopReport(a, rep) ==
  \/ /\ TooLate(a, rep.state = "succeeded")
     /\ UNCHANGED <<requests, allocations, intents>>
  \/ /\ ~TooLate(a, rep.state = "succeeded")
     /\ \/ /\ rep.state \in {"accepted", "unknown"} /\ Move(a, "stopping", "stopping")
           /\ UNCHANGED intents
        \/ /\ rep.state = "succeeded"
           /\ StopSucceeded(a)
        \/ /\ rep.state = "failed_with_effect"
           /\ Quarantined(a)

ReportStop(a, rep) ==
  /\ ReportFits(stops[a], rep)
  /\ rep.state # "rejected_no_effect"
  /\ stops' = [stops EXCEPT ![a] = [state |-> rep.state, ids |-> @.ids \cup rep.ids]]
  /\ ApplyStopReport(a, rep)
  /\ UNCHANGED <<creates, nodes, catalog>>

BeginStop(a) ==
  /\ V102
  /\ stops[a].state = "claimed" /\ stops[a].ids = {"instance"}
  /\ ReportStop(a, [state |-> "unknown", ids |-> {}, untrusted |-> FALSE])

-----------------------------------------------------------------------------
(* Facts about an instance, which the Controller reports when the inventory  *)
(* it lists shows no open job; a stop may have been added since, but a       *)
(* create that was closed stays closed.                                      *)

ReclaimedFact(a) ==
  LET r      == allocations[a].request
      paused == intents[r] \in PausedIntent
  IN /\ allocations' = AllocationTo(a, "reclaimed")
     /\ \/ ~paused /\ ConsumeIntent(r, RequestTo(r, "ended"), FALSE)
        \/ paused /\ UNCHANGED <<requests, intents>>
     /\ UNCHANGED stops

FailedFact(a) ==
  /\ allocations[a].state \notin {"quarantined", "stopping"}
  /\ CreateFailed(a, TRUE, FALSE)

\* The identity of the instance, or its port, is not the one recorded.
DriftedFact(a) == Quarantined(a) /\ UNCHANGED stops

ReportInstanceFact(a) ==
  /\ "instance" \in creates[a].ids
  /\ creates[a].state \in ClosedJob
  /\ allocations[a].state \notin Released
  /\ ReclaimedFact(a) \/ FailedFact(a) \/ DriftedFact(a)
  /\ UNCHANGED <<creates, nodes, catalog>>

-----------------------------------------------------------------------------
(* The serve loop and the administrator. *)

\* A heartbeat older than the quarantine threshold; the model does not tell that
\* threshold from the shorter window within which a node counts as online.
QuarantineOneUnreachable(a) ==
  /\ \/ allocations[a].state \in OccupyingStates \ {"reserved", "quarantined"}
     \/ /\ allocations[a].state = "reserved"
        /\ creates[a].state \in Unresolved \cup {"failed_with_effect"}
  /\ ~nodes[allocations[a].node].online
  /\ Quarantined(a)
  /\ UNCHANGED <<creates, stops, nodes, catalog>>

\* MarkAllocationQuarantined and the action allocation.quarantine.
MarkAllocationQuarantined(a) ==
  /\ Occupying(a) /\ allocations[a].state # "quarantined"
  /\ allocations[a].state = "reserved" => creates[a].state # "pending"
  /\ Quarantined(a)
  /\ UNCHANGED <<creates, stops, nodes, catalog>>

\* Faulty: writes the job's state into the request.
TerminatePendingJobState(a) ==
  /\ allocations[a].state = "reserved"
  /\ creates[a].state = "pending"
  /\ creates' = [creates EXCEPT ![a].state = "rejected_no_effect"]
  /\ Move(a, "released_no_effect", "rejected_no_effect")
  /\ UNCHANGED <<stops, intents, nodes, catalog>>

TerminatePending(a) ==
  /\ allocations[a].state = "reserved"
  /\ creates[a].state = "pending"
  /\ creates' = [creates EXCEPT ![a].state = "rejected_no_effect"]
  /\ Move(a, "released_no_effect", "unavailable")
  /\ UNCHANGED <<stops, intents, nodes, catalog>>

\* request.stop: also for what is left of a quarantined or abandoned request.
AdminStopRequest(r) ==
  LET stoppable == {a \in Attempts(r) : /\ allocations[a].state \in {"running", "quarantined"}
                                        /\ "instance" \in creates[a].ids}
  IN /\ requests[r].state \in {"running", "quarantined", "abandoned"}
     /\ \E a \in stoppable :
          /\ \A b \in stoppable : b <= a
          /\ requests[r].state = "abandoned" => allocations[a].state = "quarantined"
          /\ ~creates[a].untrusted
          /\ stops[a].state \notin OpenJob
          /\ stops' = [stops EXCEPT ![a] = NewStop]
          /\ IF requests[r].state = "running"
               THEN Move(a, "stopping", "stopping")
               ELSE UNCHANGED <<requests, allocations>>
     /\ UNCHANGED <<creates, intents, nodes, catalog>>

Heartbeat(n) ==
  /\ ~nodes[n].online
  /\ nodes' = [nodes EXCEPT ![n].online = TRUE]
  /\ UNCHANGED <<requests, allocations, creates, stops, intents, catalog>>

\* Time passes without a heartbeat of n.
Lapse(n) ==
  /\ n \in Unsteady
  /\ nodes[n].online
  /\ nodes' = [nodes EXCEPT ![n].online = FALSE]
  /\ UNCHANGED <<requests, allocations, creates, stops, intents, catalog>>

\* SetNodeDrain, node.update and binding.update as far as eligibility sees them.
SetGate(n, g) ==
  /\ n \in Unsteady
  /\ nodes[n].gate # g
  /\ nodes' = [nodes EXCEPT ![n].gate = g]
  /\ UNCHANGED <<requests, allocations, creates, stops, intents, catalog>>

SetDesiredCapacity(n, d) ==
  /\ n \in Unsteady
  /\ nodes[n].desired # d /\ d <= Hard[n]
  /\ nodes' = [nodes EXCEPT ![n].desired = d]
  /\ UNCHANGED <<requests, allocations, creates, stops, intents, catalog>>

\* global.update, game.update and preset.update.
SetCatalog(c) ==
  /\ catalog # c
  /\ catalog' = c
  /\ UNCHANGED <<requests, allocations, creates, stops, intents, nodes>>

-----------------------------------------------------------------------------
\* The administrator has registered the nodes and set their desired capacity,
\* which the schema starts at 0, and each node has reported once.
Init ==
  /\ requests = [r \in RequestIds |-> NoRequest]
  /\ allocations = [a \in AllocationIds |-> NoAllocation]
  /\ creates = [a \in AllocationIds |-> NoCreate]
  /\ stops = [a \in AllocationIds |-> NoStop]
  /\ intents = [r \in RequestIds |-> "none"]
  /\ nodes = [n \in Nodes |-> [online |-> TRUE, gate |-> "open", desired |-> Hard[n]]]
  /\ catalog = "open"

Player ==
  \/ \E o \in Owners, t \in Nodes \cup {AnyNode} : CreateUserRequest(o, t)
  \/ \E r \in RequestIds :
       \/ CancelUserRequest(r)
       \/ \E next \in BOOLEAN : StopUserRequest(r, next)
       \/ AbandonQuarantinedUserRequest(r)

Controller ==
  \E a \in AllocationIds :
    \/ ClaimCreate(a) \/ ClaimStop(a)
    \/ PrepareCreate(a)
    \/ BeginCreate(a) \/ BeginStop(a)
    \/ \E rep \in Reports : ReportCreate(a, rep) \/ ReportStop(a, rep)
    \/ ReportInstanceFact(a)

Administrator ==
  \/ \E r \in RequestIds : CancelUserRequest(r) \/ AdminStopRequest(r)
  \/ \E a \in AllocationIds : MarkAllocationQuarantined(a) \/ TerminatePending(a)
  \/ \E n \in Nodes : \/ \E g \in Gates : SetGate(n, g)
                      \/ \E d \in Desires : SetDesiredCapacity(n, d)
  \/ \E c \in Catalogs : SetCatalog(c)

Platform ==
  \/ TryAllocateOne
  \/ \E a \in AllocationIds : QuarantineOneUnreachable(a)
  \/ \E n \in Nodes : Heartbeat(n) \/ Lapse(n)

Next == Player \/ Controller \/ Administrator \/ Platform

Spec == Init /\ [][Next]_vars

-----------------------------------------------------------------------------
(* Properties. *)

RequestRow    == [state : RequestStates \cup {"none"}, owner : Owners \cup {None},
                  target : Nodes \cup {AnyNode, None}, origin : RequestIds \cup {0}]
AllocationRow == [state : OccupyingStates \cup Released \cup {"none"},
                  request : RequestIds \cup {0}, node : Nodes \cup {None}]
CreateRow     == [state : OpenJob \cup ClosedJob \cup {"none"}, ids : SUBSET CoreIds,
                  frozen : BOOLEAN, untrusted : BOOLEAN]
StopRow       == [state : OpenJob \cup ClosedJob \cup {"none"}, ids : SUBSET CoreIds]
NodeRow       == [online : BOOLEAN, gate : {"open"} \cup Gates, desired : Nat]

\* Every row stays within its type: the CHECK constraints of the schema.
TypeOK ==
  /\ requests \in [RequestIds -> RequestRow]
  /\ allocations \in [AllocationIds -> AllocationRow]
  /\ creates \in [AllocationIds -> CreateRow]
  /\ stops \in [AllocationIds -> StopRow]
  /\ intents \in [RequestIds -> IntentStates]
  /\ nodes \in [Nodes -> NodeRow]
  /\ catalog \in {"open"} \cup Catalogs

\* An owner never has two blocking requests: neither submitting nor the
\* consumption of a next-game intent by a late report can add a second one.
\* The indexes server_requests_one_blocking_user and _party would otherwise
\* make the report that releases the instance fail for ever.
OneBlockingRequest ==
  \A r, q \in RequestIds :
    /\ requests[r].state \in Blocking /\ requests[q].state \in Blocking
    /\ requests[r].owner = requests[q].owner
    => r = q

\* The states a request may have while its attempt is in state s.
StatesFor(s) ==
  CASE s = "reserved"                       -> {"allocating"}
    [] s \in {"creating", "create_unknown"} -> {"creating"}
    [] s = "quarantined"                    -> {"quarantined", "abandoned"}
    [] OTHER                                -> {s}

\* A request and its newest attempt tell the same story, and no other attempt of
\* it holds capacity: whatever the order of reports, facts, quarantines and
\* administrator actions, a request that is over holds no server except the one
\* its owner abandoned, and a request said to have a server has one.
RequestMirrorsAttempt ==
  /\ \A a \in AllocationIds : Occupying(a) =>
       /\ Latest(a)
       /\ requests[allocations[a].request].state \in StatesFor(allocations[a].state)
  /\ \A r \in RequestIds : requests[r].state \in Blocking \ {"waiting", "quarantined"} =>
       \E a \in Attempts(r) : Occupying(a)

\* A node never holds more attempts than its hard maximum.
CapacityRespected == \A n \in Nodes : Cardinality(Occupants(n)) <= Hard[n]

\* Somebody is due to act on every attempt in flight: while it starts, its
\* create job is open; while it stops, a stop job of it is open; while it runs,
\* its create has given both core ids and no stop is under way, so that the
\* player can stop it.
AttemptHasDriver ==
  \A a \in AllocationIds :
    /\ allocations[a].state \in Starting => creates[a].state \in OpenJob
    /\ allocations[a].state = "stopping" => stops[a].state \in OpenJob
    /\ allocations[a].state = "running" =>
         /\ creates[a].state = "succeeded" /\ creates[a].ids = CoreIds
         /\ stops[a].state \notin OpenJob

\* The owner can always leave a quarantined request: AbandonQuarantinedUserRequest
\* finds the quarantined attempt, or a reclaimed one with the next game paused.
QuarantinedCanBeAbandoned ==
  \A r \in RequestIds : requests[r].state = "quarantined" =>
    \E a \in Attempts(r) :
      /\ Latest(a)
      /\ \/ allocations[a].state = "quarantined"
         \/ allocations[a].state = "reclaimed" /\ intents[r] = "paused"

\* A next-game intent yields exactly one new request, for the same owner and
\* target, and only once the old server is released or its owner gave it up.
Successors(r) == {q \in RequestIds : requests[q].origin = r}

NextGameOnce ==
  \A r \in RequestIds :
    /\ Cardinality(Successors(r)) = IF intents[r] = "consumed" THEN 1 ELSE 0
    /\ intents[r] \in {"consumed", "refused"} => requests[r].state \in {"ended", "abandoned"}
    /\ \A q \in Successors(r) : /\ requests[q].owner = requests[r].owner
                                /\ requests[q].target = requests[r].target

\* A stop never starts before the create of its attempt is closed, and an
\* attempt has at most one unresolved job: the Store's claim serialises the
\* Controller's work on one server.
OneUnresolvedJob ==
  \A a \in AllocationIds :
    ~(creates[a].state \in Unresolved /\ stops[a].state \in Unresolved)

\* Released attempts never change again; a quarantined one changes only by being
\* released; an abandoned request stays so.  Late or repeated reports of the
\* Controller are how this would break.
LateReportsChangeNothing ==
  [][ /\ \A a \in AllocationIds :
           /\ allocations[a].state \in Released => allocations'[a] = allocations[a]
           /\ allocations[a].state = "quarantined" =>
                allocations'[a].state \in {"quarantined"} \cup Released
      /\ \A r \in RequestIds :
           requests[r].state \in RequestStates \ Blocking => requests'[r] = requests[r]
    ]_vars

\* An automatic request is never sent twice to a node that rejected it.
NoNodeTwice ==
  \A a, b \in AllocationIds :
    /\ a # b /\ allocations[a].state # "none"
    /\ allocations[a].request = allocations[b].request
    => allocations[a].node # allocations[b].node

=============================================================================
