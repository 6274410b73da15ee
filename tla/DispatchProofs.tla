--------------------------- MODULE DispatchProofs ---------------------------
(* Proofs about Dispatch for every number of owners, nodes, requests,       *)
(* attempts, faults and stop jobs, and for every choice of the contracts     *)
(* whose requests may be processed late.                                    *)
EXTENDS Dispatch, LifecycleProofs

-----------------------------------------------------------------------------
(* The inductive invariant. *)

Lives    == {"none", "booting", "ready", "down", "doubt", "gone"}
OpStates == {"running", "succeeded", "failed"}
Outcomes == {"reclaimed", "failed", "identity_unverified"}

CoreRow   == [life : Lives, known : BOOLEAN,
              boot : {"none", "running", "succeeded", "failed"}]
ReportRow == [state : {"none", "accepted", "unknown"} \cup ClosedJob \cup Outcomes,
              ids : SUBSET CoreIds, untrusted : BOOLEAN]
WorkRow   == [at : {"idle"} \cup ToPlatform \cup ToCore, job : Nat, retrying : BOOLEAN,
              report : ReportRow, op : Nat, seen : [life : Lives, op : Nat]]
Message   == [a : AllocationIds, at : ToPlatform, job : Nat, report : ReportRow, op : Nat]

NodeTyped ==
  /\ contract \in [AllocationIds -> Contracts]
  /\ core \in [AllocationIds -> CoreRow]
  /\ ops \in [AllocationIds -> Seq(OpStates)]
  /\ worker \in [AllocationIds -> WorkRow]
  /\ stopJob \in [AllocationIds -> [number : 0..MaxStopJobs, op : Nat]]
  /\ old \in [AllocationIds -> BOOLEAN]
  /\ calls \subseteq AllocationIds \X (0..MaxStopJobs)
  /\ late \subseteq Message

\* The core has not been called for a's create, and no call is under way that
\* nobody waits for.
NoEffect(a) == core[a].life = "none" /\ <<a, 0>> \notin calls

\* States of a create the core knows nothing of, as long as the contract makes
\* the Controller announce the call.
Unannounced == {"none", "pending", "claimed", "rejected_no_effect"}

\* What the core keeps; a forgotten key is not used again.
CoreAgrees(a) ==
  /\ core[a].life = "none" => core[a] = NoInstance /\ ops[a] = <<>>
  /\ ~core[a].known /\ core[a].life # "none" => Gone(a) /\ old[a] /\ <<a, 0>> \notin calls

\* What the create job says of the core.
CreateAgrees(a) ==
  /\ creates[a].state \in {"none", "pending"} => ~creates[a].frozen /\ creates[a].ids = {}
  /\ ~creates[a].frozen => NoEffect(a) /\ ~old[a]
  /\ V(a) /\ ~NoEffect(a) => creates[a].state \notin Unannounced

\* What the stop job says of the core, and how many there have been.
StopAgrees(a) ==
  /\ stopJob[a].op \in 0..LastOp(a)
  /\ stops[a].state \in {"accepted", "succeeded"} => stopJob[a].op # 0
  /\ stops[a].state = "succeeded" => Gone(a)
  /\ stopJob[a].number = 0 <=> stops[a] = NoStop

\* No attempt is stopped before it is stopping or quarantined.
FirstStopAgrees(a) ==
  allocations[a].state \in Starting \cup {"running", "failed_unreclaimed"} => stops[a] = NoStop

\* A late rejection under the first contract could release an attempt whose
\* create a later cycle has repeated; under the second there is none.
OnTime(a) == V(a) \/ "legacy_v1" \notin Late

\* Capacity is given back once no server lives or will.
ReleaseAgrees(a) ==
  OnTime(a) /\ allocations[a].state \in Released =>
    Gone(a) \/ (NoEffect(a) /\ creates[a].state = "rejected_no_effect")

\* A request to the Platform tells the truth, and still does when it is late.
Truthful(m) ==
  LET a == m.a
  IN /\ m.at = "report" => m.report \in Report
     /\ m.at = "report" /\ m.job # 0 =>
          /\ m.op \in 0..LastOp(a)
          /\ m.report.state \in {"accepted", "succeeded"} => m.op # 0
          /\ m.report.state = "succeeded" => Gone(a)
     /\ m.at = "fact" =>
          /\ "instance" \in creates[a].ids /\ creates[a].state \in ClosedJob
          /\ m.report.state \in Outcomes
          /\ m.report.state = "reclaimed" => Gone(a)

AboutToCreate(w) == w.job = 0 /\ w.at = "call"

\* What a worker relies on in its next step.
WorkAgrees(a, w) ==
  /\ w.job <= stopJob[a].number
  /\ w.op \in 0..LastOp(a) /\ w.seen.op \in 0..LastOp(a)
  /\ w.at = "prepare" => w.job = 0 /\ ~w.retrying
  /\ w.at \in {"status", "operation"} => w.job # 0
  /\ w.at = "observe" /\ w.job # 0 => w.op # 0
  /\ w.job = 0 /\ w.at \in {"begin", "call"} =>
       creates[a].frozen /\ (core[a].known \/ core[a].life = "none")
  /\ w.job = 0 /\ w.at \in {"prepare", "begin", "call"} /\ ~w.retrying => NoEffect(a)
  /\ w.job = 0 /\ w.at = "report" /\ w.report.state = "rejected_no_effect" => NoEffect(a)
  /\ V(a) /\ AboutToCreate(w) => creates[a].state \notin Unannounced
  /\ OnTime(a) /\ AboutToCreate(w) => allocations[a].state \notin Released \/ Gone(a)

WorkerAgrees(a) ==
  /\ WorkAgrees(a, worker[a])
  /\ worker[a].at \in ToPlatform => Truthful(Request(a))

LateAgrees(a) ==
  \A m \in late : m.a = a => contract[a] \in Late /\ Truthful(m)

PlayAgrees(a) ==
  /\ CoreAgrees(a) /\ CreateAgrees(a) /\ StopAgrees(a) /\ FirstStopAgrees(a)
  /\ ReleaseAgrees(a)

DispatchInv ==
  /\ Inv
  /\ NodeTyped
  /\ \A a \in AllocationIds : PlayAgrees(a) /\ WorkerAgrees(a) /\ LateAgrees(a)


-----------------------------------------------------------------------------
(* Records. *)

\* A worker at rest is a row of work that relies on nothing.
LEMMA IdleTyped == Idle \in WorkRow /\ Idle.at = "idle" /\ Idle.job = 0 /\ ~Idle.retrying
BY DEF Idle, WorkRow, NoReport, ReportRow, Lives

\* Going on to another remote step keeps the rest of the work.
LEMMA StepTyped ==
  ASSUME NEW w \in WorkRow, NEW s \in {"idle"} \cup ToPlatform \cup ToCore
  PROVE  /\ Step(w, s) \in WorkRow /\ Step(w, s).at = s
         /\ Step(w, s).job = w.job /\ Step(w, s).retrying = w.retrying
         /\ Step(w, s).report = w.report /\ Step(w, s).op = w.op /\ Step(w, s).seen = w.seen
BY DEF Step, WorkRow

\* What a report says, as a record.
Said(s, ids, untrusted) == [state |-> s, ids |-> ids, untrusted |-> untrusted]

\* A report to come is the one that was said, about the job under work.
LEMMA SayTyped ==
  ASSUME NEW w \in WorkRow, NEW s, NEW ids, NEW untrusted, NEW op \in Nat,
         Said(s, ids, untrusted) \in Report
  PROVE  /\ Say(w, s, ids, untrusted, op) \in WorkRow
         /\ Say(w, s, ids, untrusted, op).at = "report"
         /\ Say(w, s, ids, untrusted, op).op = op
         /\ Say(w, s, ids, untrusted, op).job = w.job
         /\ Say(w, s, ids, untrusted, op).seen = w.seen
         /\ Say(w, s, ids, untrusted, op).report \in Report
         /\ Say(w, s, ids, untrusted, op).report.state = s
<1> DEFINE v == Say(w, s, ids, untrusted, op)
<1>1. Said(s, ids, untrusted) \in ReportRow /\ Said(s, ids, untrusted).state = s
  BY DEF Said, Report, ReportRow
<1>2. v = [w EXCEPT !.at = "report", !.op = op, !.report = Said(s, ids, untrusted)]
  BY DEF Say, Said
<1> HIDE DEF v
<1>3. /\ v \in WorkRow /\ v.at = "report" /\ v.op = op
      /\ v.job = w.job /\ v.seen = w.seen /\ v.report = Said(s, ids, untrusted)
  BY <1>1, <1>2 DEF WorkRow, ToPlatform
<1>4. v.report \in Report /\ v.report.state = s
  BY <1>1, <1>3
<1> QED BY <1>3, <1>4 DEF v

\* A worker about to report rep.
Reporting(w, rep, op) == [w EXCEPT !.at = "report", !.op = op, !.report = rep]

\* Its row, when the report is one that passes the validation.
LEMMA ReportingTyped ==
  ASSUME NEW work \in WorkRow, NEW rep \in Report, NEW n, n \in Nat
  PROVE  LET v == Reporting(work, rep, n)
         IN /\ v \in WorkRow /\ v.at = "report" /\ v.op = n
            /\ v.job = work.job /\ v.seen = work.seen /\ v.report = rep
<1>1. rep \in ReportRow
  BY DEF Report, ReportRow
<1> QED BY <1>1 DEF WorkRow, ToPlatform, Reporting

\* What the Controller reports passes the validation of a report.
LEMMA ReportsTyped ==
  /\ \A ids \in SUBSET CoreIds :
       /\ Said("unknown", ids, FALSE) \in Report
       /\ Said("failed_with_effect", ids, FALSE) \in Report
       /\ Said("failed_with_effect", ids, TRUE) \in Report
       /\ Said("accepted", ids, FALSE) \in Report
       /\ Said("succeeded", ids, FALSE) \in Report
       /\ Said("rejected_no_effect", ids, FALSE) \in Report
  /\ {} \in SUBSET CoreIds /\ {"instance"} \in SUBSET CoreIds /\ CoreIds \in SUBSET CoreIds
  /\ Uncertain \in Report /\ Uncertain.state = "unknown"
BY DEF Said, Report, ClosedJob, CoreIds, Uncertain

\* The rows of one attempt, typed.
LEMMA NodeRows ==
  ASSUME NodeTyped, NEW a \in AllocationIds
  PROVE  /\ contract[a] \in Contracts /\ core[a] \in CoreRow /\ ops[a] \in Seq(OpStates)
         /\ worker[a] \in WorkRow /\ stopJob[a] \in [number : 0..MaxStopJobs, op : Nat]
         /\ old[a] \in BOOLEAN /\ LastOp(a) \in Nat
BY DEF NodeTyped, LastOp

-----------------------------------------------------------------------------
(* A step of the Controller or of the core, which leaves the Store alone. *)

\* The step is about attempt a and about nothing else.
NodeTouches(a) ==
  /\ UNCHANGED <<vars, contract, stopJob>>
  /\ \A b \in AllocationIds \ {a} :
       /\ core'[b] = core[b] /\ ops'[b] = ops[b] /\ worker'[b] = worker[b] /\ old'[b] = old[b]
       /\ <<b, 0>> \in calls' <=> <<b, 0>> \in calls

\* Operations are only added, and a reclaimed instance stays reclaimed.
Progress(a) ==
  /\ Gone(a) => Gone(a)'
  /\ LastOp(a) <= LastOp(a)'

\* The request a worker in state w sends.
Sent(a, w) == [a |-> a, at |-> w.at, job |-> w.job, report |-> w.report, op |-> w.op]

\* What was true of the core when a request was written stays true.
LEMMA TruthfulKept ==
  ASSUME NodeTyped, NodeTyped', NEW m, m.a \in AllocationIds, Truthful(m),
         UNCHANGED creates, Progress(m.a)
  PROVE  Truthful(m)'
<1>1. LastOp(m.a) \in Nat /\ LastOp(m.a)' \in Nat
  BY DEF NodeTyped, LastOp
<1> QED BY <1>1 DEF Truthful, Progress

\* What a worker relies on, once its row is named.
LEMMA WorkNamed ==
  ASSUME NEW a \in AllocationIds, NEW w, w = worker'[a], WorkAgrees(a, w)',
         w.at \in ToPlatform => Truthful(Sent(a, w))'
  PROVE  WorkerAgrees(a)'
<1>1. WorkAgrees(a, worker[a])'
  BY DEF WorkAgrees, AboutToCreate
<1>2. worker'[a].at \in ToPlatform => Truthful(Request(a))'
  BY DEF Truthful, Request, Sent
<1> QED BY <1>1, <1>2 DEF WorkerAgrees

\* An attempt that a step leaves alone keeps what was known of it.
LEMMA OthersKept ==
  ASSUME NodeTyped, NEW a \in AllocationIds, NodeTouches(a), NEW b \in AllocationIds \ {a},
         PlayAgrees(b), WorkerAgrees(b)
  PROVE  PlayAgrees(b)' /\ WorkerAgrees(b)'
<1>1. /\ UNCHANGED <<vars, contract, stopJob>>
      /\ core'[b] = core[b] /\ ops'[b] = ops[b] /\ worker'[b] = worker[b] /\ old'[b] = old[b]
      /\ <<b, 0>> \in calls' <=> <<b, 0>> \in calls
  BY DEF NodeTouches
<1>2. /\ Gone(b)' <=> Gone(b)
      /\ LastOp(b)' = LastOp(b) /\ V(b)' = V(b) /\ NoEffect(b)' = NoEffect(b)
  BY <1>1 DEF Gone, LastOp, V, NoEffect
<1>3. PlayAgrees(b)'
  BY <1>1, <1>2
  DEF OnTime, V, PlayAgrees, CoreAgrees, CreateAgrees, StopAgrees, FirstStopAgrees,
       ReleaseAgrees, vars
<1>4. WorkAgrees(b, worker[b])'
  BY <1>1, <1>2 DEF OnTime, V, WorkerAgrees, WorkAgrees, AboutToCreate, vars
<1>5. worker'[b].at \in ToPlatform => Truthful(Request(b))'
  BY <1>1, <1>2 DEF WorkerAgrees, Truthful, Request, vars
<1> QED BY <1>3, <1>4, <1>5 DEF WorkerAgrees

\* A step about a preserves the invariant if it keeps what is known of a.
LEMMA NodeStepKeepsInv ==
  ASSUME DispatchInv, NodeTyped', NEW a \in AllocationIds, NodeTouches(a), Progress(a),
         \A m \in late' : \/ m \in late
                          \/ /\ m = Request(a) /\ worker[a].at \in ToPlatform
                             /\ contract[a] \in Late,
         PlayAgrees(a)', WorkerAgrees(a)'
  PROVE  DispatchInv'
<1>1. /\ Inv /\ NodeTyped
      /\ \A b \in AllocationIds : PlayAgrees(b) /\ WorkerAgrees(b) /\ LateAgrees(b)
  BY DEF DispatchInv
<1>2. UNCHANGED vars /\ UNCHANGED contract /\ UNCHANGED creates
  BY DEF NodeTouches, vars
<1>3. Inv'
  BY <1>1, <1>2, NextKeepsInv
<1>4. ASSUME NEW b \in AllocationIds
      PROVE  PlayAgrees(b)' /\ WorkerAgrees(b)'
  <2>1. CASE b = a
    BY <2>1
  <2>2. CASE b # a
    BY <1>1, <2>2, OthersKept
  <2> QED BY <2>1, <2>2
<1>5. ASSUME NEW b \in AllocationIds
      PROVE  LateAgrees(b)'
  <2>1. Progress(b)
    <3>1. CASE b = a
      BY <3>1
    <3>2. CASE b # a
      <4>1. (Gone(b)' <=> Gone(b)) /\ LastOp(b)' = LastOp(b)
        BY <3>2 DEF NodeTouches, Gone, LastOp
      <4>2. LastOp(b) \in Nat
        BY <1>1, NodeRows
      <4> QED BY <4>1, <4>2 DEF Progress
    <3> QED BY <3>1, <3>2
  <2>2. ASSUME NEW m \in late', m.a = b
        PROVE  contract'[b] \in Late /\ Truthful(m)'
    <3>1. contract[b] \in Late /\ Truthful(m)
      <4>1. CASE m \in late
        BY <1>1, <2>2, <4>1 DEF LateAgrees
      <4>2. CASE m = Request(a) /\ worker[a].at \in ToPlatform /\ contract[a] \in Late
        BY <1>1, <2>2, <4>2 DEF WorkerAgrees, Request
      <4> QED BY <4>1, <4>2
    <3> QED BY <1>1, <1>2, <2>1, <2>2, <3>1, TruthfulKept
  <2> QED BY <2>2 DEF LateAgrees
<1> QED BY <1>3, <1>4, <1>5 DEF DispatchInv

-----------------------------------------------------------------------------
(* The core, and calls that nobody waits for. *)

\* A step of the core about a: it never undoes a reclamation, gives no effect to
\* an attempt that has had none, and forgets only what nobody is about to use.
CoreMoves(a) ==
  /\ core'[a].life = "none" => core'[a] = NoInstance /\ ops'[a] = <<>>
  /\ ~core'[a].known /\ core'[a].life # "none" =>
       core'[a].life = "gone" /\ old[a] /\ <<a, 0>> \notin calls'
  /\ NoEffect(a) => NoEffect(a)'
  /\ worker[a].at \in {"begin", "call"} => (core[a].known => core'[a].known)
                                           /\ (core[a].life # "none" => core'[a].life # "none")
  /\ worker[a].at \in {"begin", "call"} /\ core[a].life = "none" =>
       core'[a].known \/ core'[a].life = "none"

\* Such a step preserves the invariant.
LEMMA CoreStepKeepsInv ==
  ASSUME DispatchInv, NEW a \in AllocationIds,
         UNCHANGED <<vars, contract, worker, late, stopJob, old>>,
         core' \in [AllocationIds -> CoreRow], ops' \in [AllocationIds -> Seq(OpStates)],
         calls' \subseteq calls,
         \A b \in AllocationIds \ {a} : /\ core'[b] = core[b] /\ ops'[b] = ops[b]
                                        /\ <<b, 0>> \in calls' <=> <<b, 0>> \in calls,
         CoreMoves(a), Progress(a)
  PROVE  DispatchInv'
<1>1. NodeTyped /\ PlayAgrees(a) /\ WorkerAgrees(a)
  BY DEF DispatchInv
<1>2. NodeTyped'
  BY <1>1 DEF NodeTyped
<1>3. LastOp(a) \in Nat /\ LastOp(a)' \in Nat /\ LastOp(a) <= LastOp(a)' /\ V(a)' = V(a)
  BY <1>1, <1>2 DEF NodeTyped, LastOp, Progress, V
<1>4. Gone(a) => Gone(a)'
  BY DEF Progress
<1>5. PlayAgrees(a)'
  <2>1. CoreAgrees(a)'
    BY DEF CoreMoves, CoreAgrees, Gone
  <2>2. CreateAgrees(a)' /\ FirstStopAgrees(a)'
    BY <1>1, <1>3 DEF CoreMoves, PlayAgrees, CreateAgrees, FirstStopAgrees, vars
  <2>3. StopAgrees(a)'
    <3>1. /\ stopJob'[a] = stopJob[a] /\ stops'[a] = stops[a]
          /\ stopJob[a].op \in 0..LastOp(a)
      BY <1>1 DEF PlayAgrees, StopAgrees, vars
    <3> QED BY <1>1, <1>3, <1>4, <3>1 DEF PlayAgrees, StopAgrees
  <2>4. ReleaseAgrees(a)'
    BY <1>1, <1>4 DEF OnTime, V, CoreMoves, PlayAgrees, ReleaseAgrees, vars
  <2> QED BY <2>1, <2>2, <2>3, <2>4 DEF PlayAgrees
<1>6. WorkerAgrees(a)'
  <2>1. /\ worker'[a] = worker[a] /\ WorkAgrees(a, worker[a]) /\ worker[a] \in WorkRow
        /\ creates'[a] = creates[a] /\ stopJob'[a] = stopJob[a]
        /\ allocations'[a] = allocations[a]
    BY <1>1, NodeRows DEF WorkerAgrees, vars
  <2>2. worker[a].op \in 0..LastOp(a)' /\ worker[a].seen.op \in 0..LastOp(a)'
    BY <1>3, <2>1 DEF WorkAgrees
  <2>3. worker[a].at \in {"begin", "call"} /\ (core[a].known \/ core[a].life = "none") =>
          core'[a].known \/ core'[a].life = "none"
    BY DEF CoreMoves
  <2>4. NoEffect(a) => NoEffect(a)'
    BY DEF CoreMoves
  <2>5. WorkAgrees(a, worker[a])'
    BY <1>3, <1>4, <2>1, <2>2, <2>3, <2>4 DEF OnTime, V, WorkAgrees, AboutToCreate
  <2>6. worker'[a].at \in ToPlatform => Truthful(Request(a))'
    <3>1. ASSUME worker[a].at \in ToPlatform
          PROVE  Truthful(Request(a))'
      <4>1. Request(a)' = Request(a) /\ Request(a).a = a
        BY <2>1 DEF Request
      <4>2. Truthful(Request(a)) /\ UNCHANGED creates
        BY <1>1, <3>1 DEF WorkerAgrees, vars
      <4>3. \A m : m = Request(a) => Truthful(m)'
        BY <1>1, <1>2, <4>1, <4>2, TruthfulKept
      <4> QED BY <2>1, <4>3 DEF Truthful, Request
    <3> QED BY <2>1, <3>1
  <2> QED BY <2>5, <2>6 DEF WorkerAgrees
<1>7. NodeTouches(a)
  BY DEF NodeTouches
<1>8. \A m \in late' : m \in late
  OBVIOUS
<1> QED BY <1>2, <1>5, <1>6, <1>7, <1>8, NodeStepKeepsInv

\* The row of the core and its operations, with what is known of them.
LEMMA CoreRows ==
  ASSUME DispatchInv, NEW a \in AllocationIds
  PROVE  /\ NodeTyped /\ core[a] \in CoreRow /\ ops[a] \in Seq(OpStates) /\ LastOp(a) \in Nat
         /\ CoreAgrees(a) /\ CreateAgrees(a)
         /\ (core[a].known \/ core[a].boot # "none" \/ ops[a] # <<>>) => core[a].life # "none"
<1>1. /\ NodeTyped /\ CoreAgrees(a) /\ CreateAgrees(a)
      /\ core[a] \in CoreRow /\ ops[a] \in Seq(OpStates) /\ LastOp(a) \in Nat
  BY NodeRows DEF DispatchInv, PlayAgrees
<1> QED BY <1>1 DEF CoreAgrees, NoInstance

\* A change of a's row in the core that keeps it alive or ends it.
LEMMA CoreRowStep ==
  ASSUME DispatchInv, NEW a \in AllocationIds, NEW c \in CoreRow,
         core' = [core EXCEPT ![a] = c],
         UNCHANGED <<vars, contract, ops, worker, calls, late, stopJob, old>>,
         core[a].life # "none", c.life # "none", Gone(a) => c.life = "gone",
         \/ c.known = core[a].known /\ (~c.known => c.life = "gone")
         \/ /\ ~c.known /\ c.life = "gone" /\ old[a] /\ <<a, 0>> \notin calls
            /\ worker[a].at \notin {"begin", "call"}
  PROVE  DispatchInv'
<1>1. /\ NodeTyped /\ CoreAgrees(a) /\ LastOp(a) \in Nat
  BY CoreRows
<1>2. core' \in [AllocationIds -> CoreRow] /\ core'[a] = c /\ ops' = ops
      /\ \A b \in AllocationIds \ {a} : core'[b] = core[b]
  BY <1>1 DEF NodeTyped
<1>3. CoreMoves(a)
  BY <1>1, <1>2 DEF CoreMoves, CoreAgrees, NoEffect, Gone
<1>4. Progress(a)
  <2>1. LastOp(a)' = LastOp(a)
    BY <1>2 DEF LastOp
  <2> QED BY <1>1, <1>2, <2>1 DEF Progress, Gone
<1> QED BY <1>1, <1>2, <1>3, <1>4, CoreStepKeepsInv DEF NodeTyped

\* The end of a create operation, the decay of a server, the cleanup of a dead
\* one and the expiry of a reclaimed one preserve the invariant.
LEMMA CoreOwnSteps ==
  ASSUME DispatchInv, NEW a \in AllocationIds,
         FinishCreate(a) \/ Decay(a) \/ Reclaim(a) \/ Forget(a)
  PROVE  DispatchInv'
<1>1. /\ NodeTyped /\ core[a] \in CoreRow /\ CoreAgrees(a)
      /\ (core[a].known \/ core[a].boot # "none" \/ ops[a] # <<>>) => core[a].life # "none"
  BY CoreRows
<1>2. CASE FinishCreate(a)
  <2>1. PICK end \in {<<"succeeded", "ready">>, <<"failed", "down">>} :
          core' = [core EXCEPT ![a].boot = end[1],
                               ![a].life = IF @ = "booting" THEN end[2] ELSE @]
    BY <1>2 DEF FinishCreate
  <2> DEFINE life == IF core[a].life = "booting" THEN end[2] ELSE core[a].life
             c    == [core[a] EXCEPT !.boot = end[1], !.life = life]
  <2>2. /\ c \in CoreRow /\ c.known = core[a].known
        /\ c.life = IF core[a].life = "booting" THEN end[2] ELSE core[a].life
    <3>1. end[1] \in {"succeeded", "failed"} /\ end[2] \in {"ready", "down"}
      OBVIOUS
    <3>2. life \in Lives
      BY <1>1, <3>1 DEF CoreRow, Lives
    <3> QED BY <1>1, <3>1, <3>2 DEF CoreRow
  <2>3. core' = [core EXCEPT ![a] = c]
    BY <1>1, <2>1 DEF NodeTyped, CoreRow
  <2>4. core[a].boot = "running" /\ core[a].life # "gone"
        /\ UNCHANGED <<vars, contract, ops, worker, calls, late, stopJob, old>>
    BY <1>2 DEF FinishCreate
  <2> HIDE DEF c
  <2>5. core[a].life # "none" /\ c.life # "none" /\ c.known
    BY <1>1, <2>2, <2>4 DEF CoreAgrees, Gone
  <2> QED BY <2>2, <2>3, <2>4, <2>5, CoreRowStep DEF Gone
<1>3. CASE Decay(a)
  <2>1. PICK life \in {"down", "doubt"} : core' = [core EXCEPT ![a].life = life]
    BY <1>3 DEF Decay
  <2> DEFINE c == [core[a] EXCEPT !.life = life]
  <2>2. c \in CoreRow /\ c.known = core[a].known /\ c.life = life
    BY <1>1 DEF CoreRow, Lives
  <2>3. core' = [core EXCEPT ![a] = c]
    BY <1>1, <2>1 DEF NodeTyped
  <2>4. core[a].life \in {"booting", "ready"}
        /\ UNCHANGED <<vars, contract, ops, worker, calls, late, stopJob, old>>
    BY <1>3 DEF Decay
  <2> HIDE DEF c
  <2>5. c.known
    BY <1>1, <2>2, <2>4 DEF CoreAgrees, Gone
  <2> QED BY <2>2, <2>3, <2>4, <2>5, CoreRowStep DEF Gone
<1>4. CASE Reclaim(a)
  <2> DEFINE c == [core[a] EXCEPT !.life = "gone"]
  <2>1. c \in CoreRow /\ c.known = core[a].known /\ c.life = "gone"
    BY <1>1 DEF CoreRow, Lives
  <2>2. core' = [core EXCEPT ![a] = c] /\ core[a].life = "down"
        /\ UNCHANGED <<vars, contract, ops, worker, calls, late, stopJob, old>>
    BY <1>1, <1>4 DEF NodeTyped, Reclaim
  <2> HIDE DEF c
  <2> QED BY <2>1, <2>2, CoreRowStep
<1>5. CASE Forget(a)
  <2> DEFINE c == [core[a] EXCEPT !.known = FALSE]
  <2>1. c \in CoreRow /\ ~c.known /\ c.life = core[a].life
    BY <1>1 DEF CoreRow
  <2>2. core' = [core EXCEPT ![a] = c] /\ core[a].life = "gone"
        /\ old[a] /\ worker[a].at \notin {"begin", "call"} /\ <<a, 0>> \notin calls
        /\ UNCHANGED <<vars, contract, ops, worker, calls, late, stopJob, old>>
    BY <1>1, <1>5 DEF NodeTyped, Forget, Gone
  <2> HIDE DEF c
  <2> QED BY <2>1, <2>2, CoreRowStep
<1> QED BY <1>2, <1>3, <1>4, <1>5

\* The end of a stop operation preserves the invariant.
LEMMA FinishStopStep ==
  ASSUME DispatchInv, NEW a \in AllocationIds, FinishStop(a)
  PROVE  DispatchInv'
<1>1. /\ NodeTyped /\ core[a] \in CoreRow /\ ops[a] \in Seq(OpStates) /\ LastOp(a) \in Nat
      /\ CoreAgrees(a) /\ core[a].life # "none" /\ ops[a] # <<>>
  BY CoreRows DEF FinishStop
<1>2. PICK end \in {"succeeded", "failed"}, life \in {"gone", "down"} :
        /\ ops' = [ops EXCEPT ![a][LastOp(a)] = end]
        /\ core' = [core EXCEPT ![a].life = IF @ = "gone" THEN @ ELSE life,
                                ![a].boot = IF @ = "running" THEN "failed" ELSE @]
  BY DEF FinishStop
<1> DEFINE c == [core[a] EXCEPT !.life = IF core[a].life = "gone" THEN core[a].life ELSE life,
                                !.boot = IF core[a].boot = "running" THEN "failed"
                                                                     ELSE core[a].boot]
           o == [ops[a] EXCEPT ![LastOp(a)] = end]
<1>3. /\ c \in CoreRow /\ c.known = core[a].known
      /\ c.life = IF core[a].life = "gone" THEN core[a].life ELSE life
  BY <1>1 DEF CoreRow, Lives
<1>4. core' = [core EXCEPT ![a] = c]
  BY <1>1, <1>2 DEF NodeTyped, CoreRow
<1>5. o \in Seq(OpStates) /\ Len(o) = LastOp(a)
  BY <1>1 DEF OpStates, LastOp
<1>6. ops' = [ops EXCEPT ![a] = o]
  BY <1>2
<1>7. UNCHANGED <<vars, contract, worker, calls, late, stopJob, old>>
  BY DEF FinishStop
<1> HIDE DEF c, o
<1>8. /\ core' \in [AllocationIds -> CoreRow] /\ ops' \in [AllocationIds -> Seq(OpStates)]
      /\ core'[a] = c /\ ops'[a] = o
      /\ \A b \in AllocationIds \ {a} : core'[b] = core[b] /\ ops'[b] = ops[b]
  BY <1>1, <1>3, <1>4, <1>5, <1>6 DEF NodeTyped
<1>9. CoreMoves(a)
  BY <1>1, <1>3, <1>7, <1>8 DEF CoreMoves, CoreAgrees, NoEffect, Gone
<1>10. Progress(a)
  <2>1. LastOp(a)' = LastOp(a)
    BY <1>5, <1>8 DEF LastOp
  <2> QED BY <1>1, <1>3, <1>8, <2>1 DEF Progress, Gone
<1> QED BY <1>7, <1>8, <1>9, <1>10, CoreStepKeepsInv

\* A new operation is added to those of an instance.
LEMMA NewStopOpEffect ==
  ASSUME NodeTyped, NEW a \in AllocationIds, NewStopOp(a)
  PROVE  /\ ops' \in [AllocationIds -> Seq(OpStates)] /\ ops'[a] # <<>>
         /\ LastOp(a)' = LastOp(a) + 1 /\ LastOp(a) \in Nat
         /\ \A b \in AllocationIds \ {a} : ops'[b] = ops[b]
<1> DEFINE s == IF Gone(a) THEN "succeeded" ELSE "running"
           o == Append(ops[a], s)
<1>1. s \in OpStates /\ ops[a] \in Seq(OpStates) /\ LastOp(a) \in Nat
  BY NodeRows DEF OpStates
<1>2. ops' = [ops EXCEPT ![a] = o]
  BY DEF NewStopOp
<1> HIDE DEF s
<1>3. o \in Seq(OpStates) /\ Len(o) = LastOp(a) + 1 /\ o # <<>>
  BY <1>1 DEF LastOp
<1> HIDE DEF o
<1>4. ops' \in [AllocationIds -> Seq(OpStates)] /\ ops'[a] = o
      /\ \A b \in AllocationIds \ {a} : ops'[b] = ops[b]
  BY <1>2, <1>3 DEF NodeTyped
<1> QED BY <1>1, <1>3, <1>4 DEF LastOp

\* A new instance under a's key.
LEMMA NewInstanceEffect ==
  ASSUME NodeTyped, NEW a \in AllocationIds, NewInstance(a)
  PROVE  /\ core' \in [AllocationIds -> CoreRow]
         /\ core'[a].life = "booting" /\ core'[a].known
         /\ \A b \in AllocationIds \ {a} : core'[b] = core[b]
BY DEF NodeTyped, NewInstance, CoreRow, Lives

\* A call whose caller is gone preserves the invariant.
LEMMA FinishCallStep ==
  ASSUME DispatchInv, NEW c \in calls, FinishCall(c)
  PROVE  DispatchInv'
<1> DEFINE a == c[1]
<1>1. /\ a \in AllocationIds /\ c = <<a, c[2]>>
  BY DEF DispatchInv, NodeTyped
<1>2. /\ NodeTyped /\ LastOp(a) \in Nat /\ CoreAgrees(a) /\ CreateAgrees(a)
      /\ (core[a].known \/ core[a].boot # "none" \/ ops[a] # <<>>) => core[a].life # "none"
  BY <1>1, CoreRows
<1>3. /\ UNCHANGED <<vars, contract, worker, late, stopJob, old>> /\ calls' = calls \ {c}
  BY DEF FinishCall
<1>4. calls' \subseteq calls
      /\ \A b \in AllocationIds \ {a} : <<b, 0>> \in calls' <=> <<b, 0>> \in calls
  BY <1>1, <1>3
<1> HIDE DEF a
<1>5. CASE UNCHANGED <<core, ops>>
  <2>1. CoreMoves(a)
    BY <1>2, <1>4, <1>5 DEF CoreMoves, CoreAgrees, NoEffect, Gone
  <2>2. Progress(a)
    BY <1>2, <1>5 DEF Progress, Gone, LastOp
  <2> QED BY <1>1, <1>2, <1>3, <1>4, <1>5, <2>1, <2>2, CoreStepKeepsInv DEF NodeTyped
<1>6. CASE c[2] = 0 /\ ~core[a].known /\ NewInstance(a) /\ UNCHANGED ops
  <2>1. core[a].life = "none" /\ ~NoEffect(a)
    BY <1>1, <1>2, <1>6 DEF CoreAgrees, NoEffect
  <2>2. /\ core' \in [AllocationIds -> CoreRow]
        /\ core'[a].life = "booting" /\ core'[a].known
        /\ \A b \in AllocationIds \ {a} : core'[b] = core[b]
    BY <1>1, <1>2, <1>6, NewInstanceEffect
  <2>3. CoreMoves(a)
    BY <2>1, <2>2 DEF CoreMoves
  <2>4. Progress(a)
    <3>1. LastOp(a)' = LastOp(a)
      BY <1>6 DEF LastOp
    <3> QED BY <1>2, <2>1, <3>1 DEF Progress, Gone
  <2> QED BY <1>1, <1>2, <1>3, <1>4, <1>6, <2>2, <2>3, <2>4, CoreStepKeepsInv DEF NodeTyped
<1>7. CASE c[2] # 0 /\ core[a].known /\ NewStopOp(a) /\ UNCHANGED core
  <2>1. /\ ops' \in [AllocationIds -> Seq(OpStates)]
        /\ LastOp(a)' = LastOp(a) + 1
        /\ \A b \in AllocationIds \ {a} : ops'[b] = ops[b]
    BY <1>1, <1>2, <1>7, NewStopOpEffect
  <2>2. CoreMoves(a)
    BY <1>2, <1>4, <1>7 DEF CoreMoves, NoEffect
  <2>3. Progress(a)
    BY <1>2, <1>7, <2>1 DEF Progress, Gone
  <2> QED BY <1>1, <1>2, <1>3, <1>4, <1>7, <2>1, <2>2, <2>3, CoreStepKeepsInv DEF NodeTyped
<1> QED BY <1>5, <1>6, <1>7 DEF FinishCall, a

-----------------------------------------------------------------------------
(* The Controller's own steps. *)

\* What the invariant says of one attempt.
LEMMA PlayFacts ==
  ASSUME DispatchInv, NEW a \in AllocationIds
  PROVE  /\ NodeTyped /\ Inv
         /\ CoreAgrees(a) /\ CreateAgrees(a) /\ StopAgrees(a) /\ FirstStopAgrees(a)
         /\ ReleaseAgrees(a) /\ WorkAgrees(a, worker[a])
         /\ worker[a].at \in ToPlatform => Truthful(Request(a))
         /\ worker[a] \in WorkRow /\ core[a] \in CoreRow /\ LastOp(a) \in Nat
         /\ ops[a] \in Seq(OpStates) /\ stopJob[a] \in [number : 0..MaxStopJobs, op : Nat]
         /\ creates[a] \in CreateRow /\ stops[a] \in StopRow
BY NodeRows DEF DispatchInv, PlayAgrees, WorkerAgrees, Inv, TypeOK

\* A step that changes the work on a alone, to work that agrees with the rest.
LEMMA WorkStep ==
  ASSUME DispatchInv, NEW a \in AllocationIds, NEW w \in WorkRow, Do(a, w),
         UNCHANGED <<vars, contract, core, ops, calls, late, stopJob, old>>,
         WorkAgrees(a, w), w.at \in ToPlatform => Truthful(Sent(a, w))
  PROVE  DispatchInv'
<1>1. NodeTyped /\ PlayAgrees(a) /\ LastOp(a) \in Nat
  BY NodeRows DEF DispatchInv
<1>2. worker'[a] = w /\ \A b \in AllocationIds \ {a} : worker'[b] = worker[b]
  BY <1>1 DEF Do, NodeTyped
<1>3. NodeTyped'
  BY <1>1 DEF NodeTyped, Do
<1>4. NodeTouches(a)
  BY <1>2 DEF NodeTouches
<1>5. Progress(a)
  BY <1>1 DEF Progress, Gone, LastOp
<1>6. PlayAgrees(a)'
  BY <1>1 DEF OnTime, PlayAgrees, CoreAgrees, CreateAgrees, StopAgrees, FirstStopAgrees,
       ReleaseAgrees,
              NoEffect, Gone, V, LastOp, vars
<1>7. WorkAgrees(a, w)'
  BY DEF OnTime, WorkAgrees, AboutToCreate, NoEffect, Gone, V, LastOp, vars
<1>8. w.at \in ToPlatform => Truthful(Sent(a, w))'
  BY DEF Truthful, Gone, LastOp, Sent, vars
<1>9. WorkerAgrees(a)'
  BY <1>2, <1>7, <1>8, WorkNamed
<1> QED BY <1>3, <1>4, <1>5, <1>6, <1>9, NodeStepKeepsInv

\* Resting relies on nothing.
LEMMA IdleAgrees ==
  ASSUME NodeTyped, NEW a \in AllocationIds
  PROVE  WorkAgrees(a, Idle) /\ Idle.at \notin ToPlatform
BY NodeRows DEF WorkAgrees, Idle, ToPlatform, AboutToCreate

\* Work that ends in a report which claims nothing.
LEMMA SaysAgrees ==
  ASSUME NodeTyped, NEW a \in AllocationIds, NEW w \in WorkRow,
         w.job <= stopJob[a].number, w.op \in 0..LastOp(a), w.seen.op \in 0..LastOp(a),
         NEW s, NEW ids, NEW untrusted, NEW op \in 0..LastOp(a),
         Said(s, ids, untrusted) \in Report,
         w.job = 0 /\ s = "rejected_no_effect" => NoEffect(a),
         w.job # 0 /\ s \in {"accepted", "succeeded"} => op # 0,
         w.job # 0 /\ s = "succeeded" => Gone(a)
  PROVE  LET v == Say(w, s, ids, untrusted, op)
         IN v \in WorkRow /\ WorkAgrees(a, v) /\ Truthful(Sent(a, v))
<1> DEFINE v == Say(w, s, ids, untrusted, op)
<1>1. LastOp(a) \in Nat /\ op \in Nat
  BY NodeRows
<1>2. /\ v \in WorkRow /\ v.at = "report" /\ v.op = op
      /\ v.job = w.job /\ v.seen = w.seen
      /\ v.report \in Report /\ v.report.state = s
  BY <1>1, SayTyped
<1> HIDE DEF v
<1>3. WorkAgrees(a, v)
  BY <1>2 DEF WorkAgrees, AboutToCreate
<1>4. Truthful(Sent(a, v))
  BY <1>2 DEF Truthful, Sent
<1> QED BY <1>2, <1>3, <1>4 DEF v

\* Taking a create job: a key that has aged is not used, and only a job that is
\* not frozen may be rejected out of hand.
LEMMA TakeCreateStep ==
  ASSUME DispatchInv, NEW a \in AllocationIds, TakeCreate(a)
  PROVE  DispatchInv'
<1> DEFINE w == [Idle EXCEPT !.retrying = creates[a].frozen]
<1>1. /\ NodeTyped /\ CoreAgrees(a) /\ CreateAgrees(a) /\ ReleaseAgrees(a)
      /\ creates[a] \in CreateRow /\ creates[a].state \in Unresolved
      /\ LastOp(a) \in Nat /\ stopJob[a].number \in Nat
      /\ UNCHANGED <<vars, contract, core, ops, calls, late, stopJob, old>>
  BY PlayFacts DEF TakeCreate
<1>2. /\ w \in WorkRow /\ w.job = 0 /\ w.at = "idle" /\ w.op = 0 /\ w.seen.op = 0
      /\ w.retrying = creates[a].frozen
  BY <1>1 DEF Idle, WorkRow, NoReport, ReportRow, Lives, CreateRow
<1>3. /\ w.job <= stopJob[a].number
      /\ w.op \in 0..LastOp(a) /\ w.seen.op \in 0..LastOp(a) /\ 0 \in 0..LastOp(a)
  BY <1>1, <1>2
<1>4. \/ Do(a, Step(w, "observe"))
      \/ ~creates[a].frozen /\ Do(a, Step(w, "prepare"))
      \/ ~creates[a].frozen /\ Do(a, Say(w, "rejected_no_effect", {}, FALSE, 0))
      \/ /\ creates[a].frozen /\ ~old[a]
         /\ (~V(a) /\ Do(a, Step(w, "call"))) \/ Do(a, Step(w, "begin"))
      \/ Do(a, Say(w, "unknown", {}, FALSE, 0))
  BY <1>2 DEF TakeCreate, Execute, WithinHistory
<1> HIDE DEF w
<1>5. CASE Do(a, Step(w, "observe"))
  <2>1. WorkAgrees(a, Step(w, "observe")) /\ "observe" \notin ToPlatform
    BY <1>2, <1>3, StepTyped DEF WorkAgrees, ToCore, AboutToCreate, ToPlatform
  <2> QED BY <1>1, <1>2, <1>5, <2>1, StepTyped, WorkStep DEF ToCore
<1>6. CASE ~creates[a].frozen /\ Do(a, Step(w, "prepare"))
  <2>1. WorkAgrees(a, Step(w, "prepare"))
    <3>1. NoEffect(a)
      BY <1>1, <1>6 DEF CreateAgrees
    <3> DEFINE v == Step(w, "prepare")
    <3>2. /\ v.at = "prepare" /\ v.job = 0 /\ ~v.retrying /\ v.op = 0 /\ v.seen.op = 0
      BY <1>2, <1>6, StepTyped DEF ToPlatform
    <3> HIDE DEF v
    <3>3. WorkAgrees(a, v)
      BY <1>2, <1>3, <3>1, <3>2 DEF WorkAgrees, AboutToCreate
    <3> QED BY <3>3 DEF v
  <2>2. Truthful(Sent(a, Step(w, "prepare")))
    <3>1. Step(w, "prepare").at = "prepare"
      BY <1>2, StepTyped DEF ToPlatform
    <3>2. \A r : r.at = "prepare" => Truthful(Sent(a, r))
      BY DEF Truthful, Sent
    <3> QED BY <3>1, <3>2, Zenon
  <2> QED BY <1>1, <1>2, <1>6, <2>1, <2>2, StepTyped, WorkStep DEF ToPlatform
<1>7. CASE ~creates[a].frozen /\ Do(a, Say(w, "rejected_no_effect", {}, FALSE, 0))
  <2>1. NoEffect(a)
    BY <1>1, <1>7 DEF CreateAgrees
  <2>2. LET v == Say(w, "rejected_no_effect", {}, FALSE, 0)
        IN v \in WorkRow /\ WorkAgrees(a, v) /\ Truthful(Sent(a, v))
    BY <1>1, <1>2, <1>3, <2>1, ReportsTyped, SaysAgrees
  <2> QED BY <1>1, <1>7, <2>2, WorkStep
<1>8. CASE /\ creates[a].frozen /\ ~old[a]
           /\ (~V(a) /\ Do(a, Step(w, "call"))) \/ Do(a, Step(w, "begin"))
  <2>1. creates[a].frozen /\ (core[a].known \/ core[a].life = "none")
    BY <1>1, <1>8 DEF CoreAgrees
  <2>2. OnTime(a) => allocations[a].state \notin Released \/ Gone(a)
    BY <1>1 DEF ReleaseAgrees, Unresolved
  <2>3. /\ ~V(a) => WorkAgrees(a, Step(w, "call"))
        /\ "call" \notin ToPlatform /\ "call" \in ToCore
    BY <1>2, <1>3, <2>1, <2>2, StepTyped DEF WorkAgrees, ToCore, AboutToCreate, ToPlatform
  <2>4. WorkAgrees(a, Step(w, "begin"))
    BY <1>2, <1>3, <2>1, StepTyped DEF WorkAgrees, ToPlatform, AboutToCreate
  <2>5. Truthful(Sent(a, Step(w, "begin")))
    <3>1. Step(w, "begin").at = "begin"
      BY <1>2, StepTyped DEF ToPlatform
    <3> QED BY <3>1 DEF Truthful, Sent
  <2>6. CASE ~V(a) /\ Do(a, Step(w, "call"))
    BY <1>1, <1>2, <2>3, <2>6, StepTyped, WorkStep
  <2>7. CASE Do(a, Step(w, "begin"))
    BY <1>1, <1>2, <2>4, <2>5, <2>7, StepTyped, WorkStep DEF ToPlatform
  <2> QED BY <1>8, <2>6, <2>7
<1>9. CASE Do(a, Say(w, "unknown", {}, FALSE, 0))
  <2>1. LET v == Say(w, "unknown", {}, FALSE, 0)
        IN v \in WorkRow /\ WorkAgrees(a, v) /\ Truthful(Sent(a, v))
    BY <1>1, <1>2, <1>3, ReportsTyped, SaysAgrees
  <2> QED BY <1>1, <1>9, <2>1, WorkStep
<1> QED BY <1>4, <1>5, <1>6, <1>7, <1>8, <1>9

\* Work on a that is going on keeps to its bounds.
LEMMA WorkBounds ==
  ASSUME DispatchInv, NEW a \in AllocationIds
  PROVE  LET w == worker[a]
         IN /\ w \in WorkRow /\ w.job \in Nat /\ w.op \in Nat /\ LastOp(a) \in Nat
            /\ stopJob[a].number \in Nat /\ w.job <= stopJob[a].number
            /\ w.op \in 0..LastOp(a) /\ w.seen.op \in 0..LastOp(a) /\ 0 \in 0..LastOp(a)
<1>1. /\ worker[a] \in WorkRow /\ LastOp(a) \in Nat /\ WorkAgrees(a, worker[a])
      /\ stopJob[a] \in [number : 0..MaxStopJobs, op : Nat]
  BY PlayFacts
<1> QED BY <1>1 DEF WorkRow, WorkAgrees

\* Observing a create ends in a report that claims nothing of the core, or in rest.
LEMMA ObserveCreateStep ==
  ASSUME DispatchInv, NEW a \in AllocationIds, ObserveCreate(a)
  PROVE  DispatchInv'
<1> DEFINE w == worker[a]
<1>1. /\ NodeTyped /\ w.job = 0
      /\ UNCHANGED <<vars, contract, core, ops, calls, late, stopJob, old>>
  BY PlayFacts DEF ObserveCreate
<1>2. CASE Rest(a)
  BY <1>1, <1>2, IdleTyped, IdleAgrees, WorkStep DEF Rest
<1>3. CASE \E s \in {"unknown", "failed_with_effect", "succeeded"}, untrusted \in BOOLEAN :
             /\ s # "failed_with_effect" => ~untrusted
             /\ Do(a, Say(w, s, CoreIds, untrusted, 0))
  <2>1. PICK s \in {"unknown", "failed_with_effect", "succeeded"}, untrusted \in BOOLEAN :
             /\ s # "failed_with_effect" => ~untrusted
             /\ Do(a, Say(w, s, CoreIds, untrusted, 0))
    BY <1>3
  <2>2. Said(s, CoreIds, untrusted) \in Report
    BY <2>1, ReportsTyped
  <2>3. LET v == Say(w, s, CoreIds, untrusted, 0)
        IN v \in WorkRow /\ WorkAgrees(a, v) /\ Truthful(Sent(a, v))
    BY <1>1, <2>2, WorkBounds, SaysAgrees
  <2> QED BY <1>1, <2>1, <2>3, WorkStep
<1> QED BY <1>2, <1>3 DEF ObserveCreate

\* Taking a stop job, which has a number and, once accepted, an operation.
LEMMA TakeStopStep ==
  ASSUME DispatchInv, NEW a \in AllocationIds, TakeStop(a)
  PROVE  DispatchInv'
<1> DEFINE w == [Idle EXCEPT !.job = stopJob[a].number]
<1>1. /\ NodeTyped /\ StopAgrees(a) /\ stopJob[a] \in [number : 0..MaxStopJobs, op : Nat]
      /\ LastOp(a) \in Nat /\ stops[a].state \in Unresolved
      /\ UNCHANGED <<vars, contract, core, ops, calls, late, stopJob, old>>
  BY PlayFacts DEF TakeStop
<1>2. stopJob[a].number # 0 /\ stopJob[a].number \in Nat
  BY <1>1, DispatchAssumption DEF StopAgrees, NoStop, Unresolved
<1>3. /\ w \in WorkRow /\ w.job = stopJob[a].number /\ w.at = "idle" /\ w.op = 0 /\ w.seen.op = 0
  BY <1>2 DEF Idle, WorkRow, NoReport, ReportRow, Lives
<1>4. \/ /\ stopJob[a].op # 0
         /\ Do(a, [Step(w, "observe") EXCEPT !.op = stopJob[a].op])
      \/ Do(a, Step(w, "status"))
  BY <1>1 DEF TakeStop, StopAgrees
<1> HIDE DEF w
<1>5. CASE /\ stopJob[a].op # 0
           /\ Do(a, [Step(w, "observe") EXCEPT !.op = stopJob[a].op])
  <2> DEFINE v == [Step(w, "observe") EXCEPT !.op = stopJob[a].op]
  <2>1. /\ v \in WorkRow /\ v.at = "observe" /\ v.job = stopJob[a].number
        /\ v.op = stopJob[a].op /\ v.seen.op = 0
    BY <1>1, <1>3, StepTyped DEF WorkRow, ToCore
  <2> HIDE DEF v
  <2>2. WorkAgrees(a, v) /\ v.at \notin ToPlatform
    BY <1>1, <1>2, <1>5, <2>1 DEF WorkAgrees, StopAgrees, AboutToCreate, ToPlatform
  <2> QED BY <1>1, <1>5, <2>1, <2>2, WorkStep DEF v
<1>6. CASE Do(a, Step(w, "status"))
  <2>1. WorkAgrees(a, Step(w, "status")) /\ "status" \notin ToPlatform /\ "status" \in ToCore
    BY <1>1, <1>2, <1>3, StepTyped DEF WorkAgrees, ToCore, AboutToCreate, ToPlatform
  <2> QED BY <1>1, <1>3, <1>6, <2>1, StepTyped, WorkStep
<1> QED BY <1>4, <1>5, <1>6

\* A failed stop names the instance and claims nothing else.
LEMMA FailedAgrees ==
  ASSUME DispatchInv, NEW a \in AllocationIds
  PROVE  Failed(a) \in WorkRow /\ WorkAgrees(a, Failed(a)) /\ Truthful(Sent(a, Failed(a)))
<1>1. NodeTyped
  BY PlayFacts
<1> QED BY <1>1, WorkBounds, ReportsTyped, SaysAgrees DEF Failed

\* Reading the status of an instance that is to be stopped.
LEMMA ReadStatusStep ==
  ASSUME DispatchInv, NEW a \in AllocationIds, ReadStatus(a)
  PROVE  DispatchInv'
<1>1. /\ NodeTyped /\ core[a] \in CoreRow /\ worker[a].at = "status"
      /\ WorkAgrees(a, worker[a])
      /\ UNCHANGED <<vars, contract, core, ops, calls, late, stopJob, old>>
  BY PlayFacts DEF ReadStatus, At
<1>2. CASE Do(a, Failed(a))
  BY <1>1, <1>2, FailedAgrees, WorkStep
<1>3. CASE Do(a, [Step(worker[a], "operation") EXCEPT
                    !.seen = [life |-> core[a].life, op |-> LastOp(a)]])
  <2> DEFINE w == worker[a]
             v == [Step(w, "operation") EXCEPT !.seen = [life |-> core[a].life, op |-> LastOp(a)]]
  <2>1. w \in WorkRow /\ LastOp(a) \in Nat /\ w.job # 0
    BY <1>1, WorkBounds DEF WorkAgrees
  <2>2. /\ v \in WorkRow /\ v.at = "operation" /\ v.job = w.job /\ v.op = w.op
        /\ v.seen.op = LastOp(a)
    BY <1>1, <2>1, StepTyped DEF WorkRow, CoreRow, ToCore
  <2> HIDE DEF v
  <2>3. WorkAgrees(a, v) /\ v.at \notin ToPlatform
    BY <1>1, <2>1, <2>2 DEF WorkAgrees, AboutToCreate, ToPlatform
  <2> QED BY <1>1, <1>3, <2>2, <2>3, WorkStep DEF v
<1> QED BY <1>2, <1>3 DEF ReadStatus

\* Reading the operation: it is adopted, or a stop is called for.
LEMMA ReadOperationStep ==
  ASSUME DispatchInv, NEW a \in AllocationIds, ReadOperation(a)
  PROVE  DispatchInv'
<1> DEFINE w == worker[a]
<1>1. /\ NodeTyped /\ w \in WorkRow /\ w.at = "operation" /\ w.job # 0 /\ WorkAgrees(a, w)
      /\ UNCHANGED <<vars, contract, core, ops, calls, late, stopJob, old>>
  BY PlayFacts DEF ReadOperation, At, WorkAgrees
<1>2. CASE Adopts(a) /\ Do(a, Say(w, "accepted", CoreIds, FALSE, w.seen.op))
  <2>1. w.seen.op # 0 /\ w.seen.op \in 0..LastOp(a)
    BY <1>1, <1>2 DEF Adopts, WorkAgrees
  <2>2. LET v == Say(w, "accepted", CoreIds, FALSE, w.seen.op)
        IN v \in WorkRow /\ WorkAgrees(a, v) /\ Truthful(Sent(a, v))
    BY <1>1, <2>1, WorkBounds, ReportsTyped, SaysAgrees
  <2> QED BY <1>1, <1>2, <2>2, WorkStep
<1>3. CASE \E s \in {"begin", "call"} : Do(a, Step(w, s))
  <2>1. PICK s \in {"begin", "call"} : Do(a, Step(w, s))
    BY <1>3
  <2>2. /\ s \in {"idle"} \cup ToPlatform \cup ToCore
        /\ s # "observe" /\ s # "status" /\ s # "prepare" /\ s # "report" /\ s # "fact"
    BY DEF ToPlatform, ToCore
  <2>3. WorkAgrees(a, Step(w, s))
    BY <1>1, <2>2, StepTyped DEF WorkAgrees, AboutToCreate
  <2>4. Truthful(Sent(a, Step(w, s)))
    BY <1>1, <2>2, StepTyped DEF Truthful, Sent
  <2> QED BY <1>1, <2>1, <2>2, <2>3, <2>4, StepTyped, WorkStep
<1> QED BY <1>2, <1>3 DEF ReadOperation

\* Observing a stop: success is reported of a reclaimed instance only.
LEMMA ObserveStopStep ==
  ASSUME DispatchInv, NEW a \in AllocationIds, ObserveStop(a)
  PROVE  DispatchInv'
<1> DEFINE w == worker[a]
<1>1. /\ NodeTyped /\ w.at = "observe" /\ w.job # 0 /\ WorkAgrees(a, w)
      /\ UNCHANGED <<vars, contract, core, ops, calls, late, stopJob, old>>
  BY PlayFacts DEF ObserveStop, At
<1>2. CASE Rest(a)
  BY <1>1, <1>2, IdleTyped, IdleAgrees, WorkStep DEF Rest
<1>3. CASE Gone(a) /\ Do(a, Say(w, "succeeded", CoreIds, FALSE, w.op))
  <2>1. w.op # 0
    BY <1>1 DEF WorkAgrees
  <2>2. LET v == Say(w, "succeeded", CoreIds, FALSE, w.op)
        IN v \in WorkRow /\ WorkAgrees(a, v) /\ Truthful(Sent(a, v))
    BY <1>1, <1>3, <2>1, WorkBounds, ReportsTyped, SaysAgrees
  <2> QED BY <1>1, <1>3, <2>2, WorkStep
<1>4. CASE Do(a, Failed(a))
  BY <1>1, <1>4, FailedAgrees, WorkStep
<1> QED BY <1>2, <1>3, <1>4 DEF ObserveStop

\* A fact is reported of an instance whose create is closed; reclaimed means gone.
LEMMA ReconcileActiveStep ==
  ASSUME DispatchInv, NEW a \in AllocationIds, ReconcileActive(a)
  PROVE  DispatchInv'
<1> DEFINE v == [Step(Idle, "fact") EXCEPT !.report.state = Outcome(a)]
<1>1. /\ NodeTyped /\ creates[a] \in CreateRow /\ "instance" \in creates[a].ids
      /\ creates[a].state \notin OpenJob /\ Outcome(a) # "active" /\ Do(a, v)
      /\ CreateAgrees(a) /\ CoreAgrees(a) /\ LastOp(a) \in Nat /\ Inv
      /\ UNCHANGED <<vars, contract, core, ops, calls, late, stopJob, old>>
  BY PlayFacts DEF ReconcileActive
<1>2. Outcome(a) \in Outcomes /\ (Outcome(a) = "reclaimed" => Gone(a))
  BY <1>1 DEF Outcome, Outcomes, Gone
<1>3. creates[a].state \in ClosedJob
  <2>1. creates[a].state # "none"
    BY <1>1 DEF CreateAgrees
  <2> QED BY <1>1, <2>1 DEF CreateRow
<1>4. v = [Idle EXCEPT !.at = "fact", !.report = [NoReport EXCEPT !.state = Outcome(a)]]
  BY DEF Step, Idle, NoReport
<1>5. [NoReport EXCEPT !.state = Outcome(a)] \in ReportRow
      /\ [NoReport EXCEPT !.state = Outcome(a)].state = Outcome(a)
  BY <1>2 DEF NoReport, ReportRow
<1>6. /\ v \in WorkRow /\ v.at = "fact" /\ v.job = 0 /\ v.op = 0 /\ v.seen.op = 0
      /\ v.report.state = Outcome(a)
  <2> DEFINE rep == [NoReport EXCEPT !.state = Outcome(a)]
  <2>1. v = [Idle EXCEPT !.at = "fact", !.report = rep]
    BY <1>4
  <2>2. rep \in ReportRow /\ rep.state = Outcome(a)
    BY <1>5
  <2>3. Idle \in WorkRow /\ Idle.job = 0 /\ Idle.op = 0 /\ Idle.seen.op = 0
    BY IdleTyped DEF Idle
  <2> HIDE DEF rep
  <2>4. /\ v.at = "fact" /\ v.job = 0 /\ v.op = 0 /\ v.seen = Idle.seen
        /\ v.report = rep
    BY <2>1, <2>3 DEF WorkRow
  <2>5. v \in WorkRow
    BY <2>1, <2>2, <2>3 DEF WorkRow, ToPlatform
  <2> QED BY <2>2, <2>3, <2>4, <2>5
<1> HIDE DEF v
<1>7. WorkAgrees(a, v)
  <2>1. stopJob[a].number \in Nat
    BY WorkBounds
  <2> QED BY <1>1, <1>6, <2>1 DEF WorkAgrees, AboutToCreate
<1>8. Truthful(Sent(a, v))
  BY <1>1, <1>2, <1>3, <1>6 DEF Truthful, Sent
<1> QED BY <1>1, <1>6, <1>7, <1>8, WorkStep

-----------------------------------------------------------------------------
(* Calls of the core, time, and giving up. *)

\* A worker that is about to create relies on the key being known or never used.
LEMMA AboutToCreateFacts ==
  ASSUME DispatchInv, NEW a \in AllocationIds, At(a, "call"), worker[a].job = 0
  PROVE  /\ creates[a].frozen /\ (core[a].known \/ core[a].life = "none")
         /\ ~worker[a].retrying => NoEffect(a)
         /\ V(a) => creates[a].state \notin Unannounced
         /\ OnTime(a) => allocations[a].state \notin Released \/ Gone(a)
BY PlayFacts DEF At, WorkAgrees, AboutToCreate

\* The step in which a create call starts an instance, its answer received or not.
LEMMA StartsInstance ==
  ASSUME DispatchInv, NEW a \in AllocationIds, At(a, "call"), worker[a].job = 0,
         ~core[a].known, NewInstance(a),
         NEW w \in WorkRow, Do(a, w), w.at = "report", w.job = 0, w.op = 0,
         w.seen.op \in 0..LastOp(a), w.report \in Report, w.report.state # "rejected_no_effect",
         UNCHANGED <<vars, contract, ops, calls, late, stopJob, old>>
  PROVE  DispatchInv'
<1>1. /\ NodeTyped /\ core[a].life = "none" /\ LastOp(a) \in Nat /\ ~Gone(a)
      /\ CreateAgrees(a) /\ StopAgrees(a) /\ FirstStopAgrees(a)
      /\ creates[a].frozen /\ (V(a) => creates[a].state \notin Unannounced)
      /\ OnTime(a) => allocations[a].state \notin Released
      /\ stopJob[a].number \in Nat
  BY PlayFacts, AboutToCreateFacts, WorkBounds DEF Gone
<1>2. /\ core' \in [AllocationIds -> CoreRow] /\ core'[a].life = "booting" /\ core'[a].known
      /\ \A b \in AllocationIds \ {a} : core'[b] = core[b]
  BY <1>1, NewInstanceEffect
<1>3. /\ worker'[a] = w /\ worker' \in [AllocationIds -> WorkRow]
      /\ \A b \in AllocationIds \ {a} : worker'[b] = worker[b]
  BY <1>1 DEF NodeTyped, Do
<1>4. NodeTyped'
  BY <1>1, <1>2, <1>3 DEF NodeTyped
<1>5. NodeTouches(a)
  BY <1>2, <1>3 DEF NodeTouches
<1>6. LastOp(a)' = LastOp(a) /\ V(a)' = V(a) /\ ~Gone(a)' /\ ~NoEffect(a)'
  BY <1>2 DEF LastOp, V, Gone, NoEffect
<1>7. Progress(a)
  BY <1>1, <1>6 DEF Progress
<1>8. PlayAgrees(a)'
  BY <1>1, <1>2, <1>6
  DEF OnTime, V, PlayAgrees, CoreAgrees, CreateAgrees, StopAgrees, FirstStopAgrees,
       ReleaseAgrees, vars
<1>9. WorkAgrees(a, w)'
  BY <1>1, <1>6 DEF WorkAgrees, AboutToCreate
<1>10. Truthful(Sent(a, w))'
  BY DEF Truthful, Sent
<1>11. WorkerAgrees(a)'
  BY <1>3, <1>9, <1>10, WorkNamed
<1> QED BY <1>4, <1>5, <1>7, <1>8, <1>11, NodeStepKeepsInv

\* The create call: it starts an instance only under a key never used before.
LEMMA CallCreateStep ==
  ASSUME DispatchInv, NEW a \in AllocationIds, CallCreate(a)
  PROVE  DispatchInv'
<1> DEFINE w == worker[a]
<1>1. /\ NodeTyped /\ At(a, "call") /\ w.job = 0 /\ w \in WorkRow
      /\ w.job <= stopJob[a].number /\ w.op \in 0..LastOp(a)
      /\ w.seen.op \in 0..LastOp(a) /\ 0 \in 0..LastOp(a)
      /\ UNCHANGED <<vars, contract, ops, calls, late, stopJob, old>>
  BY PlayFacts, WorkBounds DEF CallCreate
<1>2. ~w.retrying => NoEffect(a)
  BY <1>1, AboutToCreateFacts
<1>3. CASE \E s \in {"accepted", "unknown"}, ids \in SUBSET CoreIds :
             /\ IF core[a].known THEN UNCHANGED core ELSE NewInstance(a)
             /\ Do(a, Say(w, s, ids, FALSE, 0))
  <2>1. PICK s \in {"accepted", "unknown"}, ids \in SUBSET CoreIds :
             /\ IF core[a].known THEN UNCHANGED core ELSE NewInstance(a)
             /\ Do(a, Say(w, s, ids, FALSE, 0))
    BY <1>3
  <2> DEFINE v == Say(w, s, ids, FALSE, 0)
  <2>2. Said(s, ids, FALSE) \in Report
    BY ReportsTyped
  <2>3. CASE core[a].known
    <3>1. v \in WorkRow /\ WorkAgrees(a, v) /\ Truthful(Sent(a, v))
      BY <1>1, <2>2, SaysAgrees
    <3> QED BY <1>1, <2>1, <2>3, <3>1, WorkStep
  <2>4. CASE ~core[a].known
    <3>1. /\ v \in WorkRow /\ v.at = "report" /\ v.op = 0 /\ v.job = w.job /\ v.seen = w.seen
          /\ v.report \in Report /\ v.report.state = s
      <4> DEFINE rep == Said(s, ids, FALSE)
      <4>1. w \in WorkRow /\ 0 \in Nat
        BY <1>1
      <4>2. v = Reporting(w, rep, 0) /\ rep.state = s
        BY DEF Say, Said, Reporting
      <4>3. rep \in Report
        BY <2>2
      <4> HIDE DEF rep, v
      <4> QED BY <4>1, <4>2, <4>3, ReportingTyped
    <3> HIDE DEF v
    <3>2. v.report \in Report /\ v.report.state # "rejected_no_effect"
          /\ v.seen.op \in 0..LastOp(a)
      BY <1>1, <2>2, <3>1
    <3>3. Do(a, v) /\ NewInstance(a)
      BY <2>1, <2>4 DEF v
    <3> QED BY <1>1, <2>4, <3>1, <3>2, <3>3, StartsInstance
  <2> QED BY <2>3, <2>4
<1>4. CASE \E s \in {"rejected_no_effect", "unknown"} :
             /\ UNCHANGED core /\ (s = "rejected_no_effect" => ~w.retrying)
             /\ Do(a, Say(w, s, {}, FALSE, 0))
  <2>1. PICK s \in {"rejected_no_effect", "unknown"} :
             /\ UNCHANGED core /\ (s = "rejected_no_effect" => ~w.retrying)
             /\ Do(a, Say(w, s, {}, FALSE, 0))
    BY <1>4
  <2>2. Said(s, {}, FALSE) \in Report
    BY ReportsTyped
  <2>3. LET v == Say(w, s, {}, FALSE, 0)
        IN v \in WorkRow /\ WorkAgrees(a, v) /\ Truthful(Sent(a, v))
    BY <1>1, <1>2, <2>1, <2>2, SaysAgrees
  <2> QED BY <1>1, <2>1, <2>3, WorkStep
<1>5. \/ \E s \in {"accepted", "unknown"}, ids \in SUBSET CoreIds :
           /\ IF core[a].known THEN UNCHANGED core ELSE NewInstance(a)
           /\ Do(a, Say(w, s, ids, FALSE, 0))
      \/ \E s \in {"rejected_no_effect", "unknown"} :
           /\ UNCHANGED core /\ (s = "rejected_no_effect" => ~w.retrying)
           /\ Do(a, Say(w, s, {}, FALSE, 0))
  BY ReportsTyped DEF CallCreate, RejectionCounts
<1> QED BY <1>3, <1>4, <1>5

\* What a stop call answers speaks of an operation of the instance.
LEMMA StopAnsweredAgrees ==
  ASSUME DispatchInv, NEW a \in AllocationIds, NEW op \in Nat, op # 0, worker[a].job # 0,
         NEW w \in {StopAnswered(a, op), Failed(a)}
  PROVE  /\ w \in WorkRow /\ w.at = "report" /\ w.job = worker[a].job
         /\ w.seen = worker[a].seen /\ w.op \in {0, op, worker[a].op}
         /\ w.report \in Report /\ w.report.state # "succeeded"
         /\ w.report.state = "accepted" => w.op # 0
         /\ w = Failed(a) => w.op = worker[a].op
<1>1. worker[a] \in WorkRow /\ worker[a].op \in Nat /\ 0 \in Nat
  BY WorkBounds
<1> DEFINE unknown  == Said("unknown", {"instance"}, FALSE)
           accepted == Said("accepted", CoreIds, FALSE)
           failed   == Said("failed_with_effect", {"instance"}, FALSE)
<1>2. /\ unknown \in Report /\ unknown.state = "unknown"
      /\ accepted \in Report /\ accepted.state = "accepted"
      /\ failed \in Report /\ failed.state = "failed_with_effect"
  BY ReportsTyped DEF Said
<1>3. Failed(a) = Reporting(worker[a], failed, worker[a].op)
  BY DEF Failed, Say, Said, Reporting
<1>4. \/ w = Reporting(worker[a], unknown, 0)
      \/ w = Reporting(worker[a], accepted, op)
      \/ w = Failed(a)
  BY DEF StopAnswered, Say, Said, Reporting
<1> HIDE DEF unknown, accepted, failed
<1>5. worker[a] \in WorkRow
  BY <1>1
<1>6. unknown \in Report /\ accepted \in Report /\ failed \in Report
  BY <1>2
<1>7. LET v == Reporting(worker[a], failed, worker[a].op)
      IN /\ v \in WorkRow /\ v.at = "report" /\ v.op = worker[a].op /\ v.job = worker[a].job
         /\ v.seen = worker[a].seen /\ v.report = failed
  <2>1. worker[a].op \in Nat
    BY <1>1
  <2> QED BY <1>5, <1>6, <2>1, ReportingTyped
<1>8. CASE w = Reporting(worker[a], unknown, 0)
  <2>1. LET v == Reporting(worker[a], unknown, 0)
        IN /\ v \in WorkRow /\ v.at = "report" /\ v.op = 0 /\ v.job = worker[a].job
           /\ v.seen = worker[a].seen /\ v.report = unknown
    BY <1>5, <1>6, ReportingTyped
  <2> QED BY <1>2, <1>3, <1>7, <1>8, <2>1
<1>9. CASE w = Reporting(worker[a], accepted, op)
  <2>1. LET v == Reporting(worker[a], accepted, op)
        IN /\ v \in WorkRow /\ v.at = "report" /\ v.op = op /\ v.job = worker[a].job
           /\ v.seen = worker[a].seen /\ v.report = accepted
    BY <1>5, <1>6, ReportingTyped
  <2> QED BY <1>2, <1>3, <1>7, <1>9, <2>1
<1>10. CASE w = Failed(a)
  BY <1>2, <1>3, <1>7, <1>10
<1> QED BY <1>4, <1>8, <1>9, <1>10

\* A worker that has spoken of a stop, its operation among those of the instance.
LEMMA StopSaidStep ==
  ASSUME DispatchInv, NEW a \in AllocationIds, NEW op \in Nat, op # 0, worker[a].job # 0,
         NEW w \in {StopAnswered(a, op), Failed(a)}, Do(a, w),
         \/ UNCHANGED ops /\ (op <= LastOp(a) \/ w = Failed(a))
         \/ NewStopOp(a) /\ op = LastOp(a) + 1 /\ core[a].known,
         UNCHANGED <<vars, contract, core, calls, late, stopJob, old>>
  PROVE  DispatchInv'
<1>1. /\ NodeTyped /\ LastOp(a) \in Nat /\ CoreAgrees(a) /\ CreateAgrees(a) /\ StopAgrees(a)
      /\ FirstStopAgrees(a) /\ ReleaseAgrees(a) /\ stopJob[a].number \in Nat
      /\ worker[a].job <= stopJob[a].number
      /\ worker[a].op \in 0..LastOp(a) /\ worker[a].seen.op \in 0..LastOp(a)
      /\ (core[a].known \/ core[a].boot # "none" \/ ops[a] # <<>>) => core[a].life # "none"
  BY PlayFacts, WorkBounds, CoreRows
<1>2. /\ w \in WorkRow /\ w.at = "report" /\ w.job = worker[a].job
      /\ w.seen = worker[a].seen /\ w.op \in {0, op, worker[a].op}
      /\ w.report \in Report /\ w.report.state # "succeeded"
      /\ w.report.state = "accepted" => w.op # 0
      /\ w = Failed(a) => w.op = worker[a].op
  BY StopAnsweredAgrees
<1>3. /\ worker'[a] = w /\ worker' \in [AllocationIds -> WorkRow]
      /\ \A b \in AllocationIds \ {a} : worker'[b] = worker[b]
  BY <1>1, <1>2 DEF NodeTyped, Do
<1>4. /\ ops' \in [AllocationIds -> Seq(OpStates)]
      /\ LastOp(a)' \in Nat /\ LastOp(a) <= LastOp(a)' /\ w.op \in 0..LastOp(a)'
      /\ \A b \in AllocationIds \ {a} : ops'[b] = ops[b]
      /\ ops'[a] = ops[a] \/ core[a].life # "none"
  <2>1. CASE UNCHANGED ops /\ (op <= LastOp(a) \/ w = Failed(a))
    <3>1. LastOp(a)' = LastOp(a)
      BY <2>1 DEF LastOp
    <3> QED BY <1>1, <1>2, <2>1, <3>1 DEF NodeTyped
  <2>2. CASE NewStopOp(a) /\ op = LastOp(a) + 1 /\ core[a].known
    <3>1. /\ ops' \in [AllocationIds -> Seq(OpStates)] /\ LastOp(a)' = LastOp(a) + 1
          /\ \A b \in AllocationIds \ {a} : ops'[b] = ops[b]
      BY <1>1, <2>2, NewStopOpEffect
    <3> QED BY <1>1, <1>2, <2>2, <3>1
  <2> QED BY <2>1, <2>2
<1>5. NodeTyped'
  BY <1>1, <1>3, <1>4 DEF NodeTyped
<1>6. NodeTouches(a)
  BY <1>3, <1>4 DEF NodeTouches
<1>7. V(a)' = V(a) /\ Gone(a)' = Gone(a) /\ NoEffect(a)' = NoEffect(a)
  BY DEF V, Gone, NoEffect
<1>8. Progress(a)
  BY <1>4, <1>7 DEF Progress
<1>9. StopAgrees(a)'
  <2>1. stopJob[a].op \in 0..LastOp(a)'
    BY <1>1, <1>4 DEF StopAgrees
  <2> QED BY <1>1, <1>7, <2>1 DEF StopAgrees, vars
<1>10. PlayAgrees(a)'
  BY <1>1, <1>4, <1>7, <1>9
  DEF OnTime, V, PlayAgrees, CoreAgrees, CreateAgrees, FirstStopAgrees, ReleaseAgrees, vars
<1>11. WorkAgrees(a, w)'
  <2>1. w.seen.op \in 0..LastOp(a)' /\ w.job <= stopJob'[a].number
    BY <1>1, <1>2, <1>4
  <2> QED BY <1>2, <1>4, <2>1 DEF WorkAgrees, AboutToCreate
<1>12. Truthful(Sent(a, w))'
  BY <1>2, <1>4 DEF Truthful, Sent
<1>13. WorkerAgrees(a)'
  BY <1>3, <1>11, <1>12, WorkNamed
<1> QED BY <1>5, <1>6, <1>8, <1>10, <1>13, NodeStepKeepsInv

\* The stop call.
LEMMA CallStopStep ==
  ASSUME DispatchInv, NEW a \in AllocationIds, CallStop(a)
  PROVE  DispatchInv'
<1>1. /\ LastOp(a) \in Nat /\ worker[a].job # 0
      /\ UNCHANGED <<vars, contract, core, calls, late, stopJob, old>>
  BY PlayFacts DEF CallStop
<1>2. CASE UNCHANGED ops /\ LastOp(a) # 0 /\ Do(a, StopAnswered(a, LastOp(a)))
  BY <1>1, <1>2, StopSaidStep
<1>3. CASE core[a].known /\ NewStopOp(a) /\ Do(a, StopAnswered(a, LastOp(a) + 1))
  <2>1. LastOp(a) + 1 \in Nat /\ LastOp(a) + 1 # 0
    BY <1>1
  <2> QED BY <1>1, <1>3, <2>1, StopSaidStep
<1>4. CASE UNCHANGED ops /\ Do(a, Failed(a))
  <2>1. 1 \in Nat /\ 1 # 0
    OBVIOUS
  <2> QED BY <1>1, <1>4, <2>1, StopSaidStep
<1> QED BY <1>2, <1>3, <1>4 DEF CallStop, StopOpRuns

\* A frozen create gets old.
LEMMA AgeStep ==
  ASSUME DispatchInv, NEW a \in AllocationIds, Age(a)
  PROVE  DispatchInv'
<1>1. /\ NodeTyped /\ LastOp(a) \in Nat /\ CoreAgrees(a) /\ CreateAgrees(a) /\ StopAgrees(a)
      /\ FirstStopAgrees(a) /\ ReleaseAgrees(a)
      /\ WorkerAgrees(a) /\ creates[a].frozen /\ old' = [old EXCEPT ![a] = TRUE]
      /\ UNCHANGED <<vars, contract, core, ops, worker, calls, late, stopJob, faults>>
  BY PlayFacts DEF Age, DispatchInv
<1>2. /\ old'[a] /\ old' \in [AllocationIds -> BOOLEAN]
      /\ \A b \in AllocationIds \ {a} : old'[b] = old[b]
  BY <1>1 DEF NodeTyped
<1>3. NodeTyped' /\ NodeTouches(a)
  BY <1>1, <1>2 DEF NodeTyped, NodeTouches
<1>4. /\ LastOp(a)' = LastOp(a) /\ V(a)' = V(a) /\ Gone(a)' = Gone(a)
      /\ NoEffect(a)' = NoEffect(a)
  BY <1>1 DEF LastOp, V, Gone, NoEffect
<1>5. Progress(a)
  BY <1>1, <1>4 DEF Progress
<1>6. PlayAgrees(a)'
  BY <1>1, <1>2, <1>4
  DEF OnTime, V, PlayAgrees, CoreAgrees, CreateAgrees, StopAgrees, FirstStopAgrees,
       ReleaseAgrees, vars
<1>7. WorkerAgrees(a)'
  <2>1. WorkAgrees(a, worker[a])'
    BY <1>1, <1>4 DEF OnTime, V, WorkerAgrees, WorkAgrees, AboutToCreate, vars
  <2>2. worker'[a].at \in ToPlatform => Truthful(Request(a))'
    BY <1>1, <1>4 DEF WorkerAgrees, Truthful, Request, vars
  <2> QED BY <2>1, <2>2 DEF WorkerAgrees
<1>8. \A m \in late' : m \in late
  BY <1>1
<1> QED BY <1>3, <1>5, <1>6, <1>7, <1>8, NodeStepKeepsInv

\* Giving up leaves the request or the call of the worker behind.
LEMMA BreakOffStep ==
  ASSUME DispatchInv, NEW a \in AllocationIds, BreakOff(a)
  PROVE  DispatchInv'
<1> DEFINE w == worker[a]
<1>1. /\ NodeTyped /\ LastOp(a) \in Nat /\ CoreAgrees(a) /\ CreateAgrees(a) /\ StopAgrees(a)
      /\ FirstStopAgrees(a) /\ ReleaseAgrees(a) /\ worker[a] \in WorkRow
      /\ w.job \in Nat /\ w.job <= stopJob[a].number
      /\ stopJob[a] \in [number : 0..MaxStopJobs, op : Nat]
      /\ UNCHANGED <<vars, contract, core, ops, stopJob, old>> /\ Rest(a)
  BY PlayFacts, WorkBounds DEF BreakOff
<1>2. /\ worker'[a] = Idle /\ worker' \in [AllocationIds -> WorkRow]
      /\ \A b \in AllocationIds \ {a} : worker'[b] = worker[b]
  BY <1>1, IdleTyped DEF NodeTyped, Rest, Do
<1>3. \A m \in late' : \/ m \in late
                       \/ m = Request(a) /\ w.at \in ToPlatform /\ contract[a] \in Late
  BY DEF BreakOff
<1>4. /\ calls' \subseteq calls \cup {<<a, w.job>>}
      /\ calls' = calls \/ At(a, "call")
  BY DEF BreakOff
<1>5. \A b \in AllocationIds \ {a} : <<b, 0>> \in calls' <=> <<b, 0>> \in calls
  BY DEF BreakOff
<1>6. NodeTyped'
  <2>1. w.at \in ToPlatform => Request(a) \in Message
    BY <1>1 DEF Request, Message, WorkRow
  <2>2. late' \subseteq Message
    BY <1>1, <1>3, <2>1 DEF NodeTyped
  <2>3. <<a, w.job>> \in AllocationIds \X (0..MaxStopJobs)
    BY <1>1, DispatchAssumption
  <2>4. calls' \subseteq AllocationIds \X (0..MaxStopJobs)
    BY <1>1, <1>4, <2>3 DEF NodeTyped
  <2> QED BY <1>1, <1>2, <2>2, <2>4 DEF NodeTyped
<1>7. NodeTouches(a)
  BY <1>1, <1>2, <1>5 DEF NodeTouches
<1>8. /\ LastOp(a)' = LastOp(a) /\ V(a)' = V(a) /\ Gone(a)' = Gone(a)
  BY <1>1 DEF LastOp, V, Gone
<1>9. Progress(a)
  BY <1>1, <1>8 DEF Progress
<1>10. \/ NoEffect(a)' = NoEffect(a) /\ (<<a, 0>> \in calls' <=> <<a, 0>> \in calls)
       \/ /\ At(a, "call") /\ w.job = 0
          /\ <<a, 0>> \in calls' /\ ~NoEffect(a)'
  BY <1>1, <1>4 DEF NoEffect, BreakOff
<1>11. PlayAgrees(a)'
  <2>1. CASE NoEffect(a)' = NoEffect(a) /\ (<<a, 0>> \in calls' <=> <<a, 0>> \in calls)
    BY <1>1, <1>8, <2>1
    DEF OnTime, V, PlayAgrees, CoreAgrees, CreateAgrees, StopAgrees, FirstStopAgrees,
         ReleaseAgrees, vars
  <2>2. CASE /\ At(a, "call") /\ w.job = 0 /\ <<a, 0>> \in calls' /\ ~NoEffect(a)'
    <3>1. /\ creates[a].frozen /\ (core[a].known \/ core[a].life = "none")
          /\ V(a) => creates[a].state \notin Unannounced
          /\ OnTime(a) => allocations[a].state \notin Released \/ Gone(a)
      BY <2>2, AboutToCreateFacts
    <3>2. CoreAgrees(a)' /\ CreateAgrees(a)' /\ ReleaseAgrees(a)'
      BY <1>1, <1>8, <2>2, <3>1 DEF OnTime, V, CoreAgrees, CreateAgrees, ReleaseAgrees, vars
    <3> QED
      BY <1>1, <1>8, <3>2 DEF PlayAgrees, StopAgrees, FirstStopAgrees, vars
  <2> QED BY <1>10, <2>1, <2>2
<1>12. WorkerAgrees(a)'
  <2>1. LastOp(a)' \in Nat /\ stopJob'[a].number \in Nat
    BY <1>1, <1>8
  <2>2. WorkAgrees(a, Idle)' /\ Idle.at \notin ToPlatform
    BY <2>1 DEF WorkAgrees, Idle, ToPlatform, AboutToCreate
  <2> QED BY <1>2, <2>2, WorkNamed
<1> QED BY <1>3, <1>6, <1>7, <1>9, <1>11, <1>12, NodeStepKeepsInv

\* A new session only makes requests invalid.
LEMMA IssueSessionStep ==
  ASSUME DispatchInv, IssueSession
  PROVE  DispatchInv'
<1>1. /\ Inv /\ NodeTyped /\ late' \subseteq late
      /\ \A b \in AllocationIds : PlayAgrees(b) /\ WorkerAgrees(b) /\ LateAgrees(b)
      /\ UNCHANGED <<vars, contract, core, ops, worker, calls, stopJob, old, faults>>
  BY DEF DispatchInv, IssueSession
<1>2. Inv' /\ NodeTyped'
  <2>1. UNCHANGED vars
    BY <1>1
  <2> QED BY <1>1, <2>1, NextKeepsInv DEF NodeTyped
<1>3. ASSUME NEW b \in AllocationIds
      PROVE  PlayAgrees(b)' /\ WorkerAgrees(b)' /\ LateAgrees(b)'
  <2>1. /\ LastOp(b)' = LastOp(b) /\ V(b)' = V(b) /\ Gone(b)' = Gone(b)
        /\ NoEffect(b)' = NoEffect(b)
    BY <1>1 DEF LastOp, V, Gone, NoEffect
  <2>2. PlayAgrees(b)'
    BY <1>1, <2>1
    DEF OnTime, V, PlayAgrees, CoreAgrees, CreateAgrees, StopAgrees, FirstStopAgrees,
         ReleaseAgrees, vars
  <2>3. WorkAgrees(b, worker[b])'
    BY <1>1, <2>1 DEF OnTime, V, WorkerAgrees, WorkAgrees, AboutToCreate, vars
  <2>4. worker'[b].at \in ToPlatform => Truthful(Request(b))'
    BY <1>1, <2>1 DEF WorkerAgrees, Truthful, Request, vars
  <2>5. ASSUME NEW m \in late', m.a = b
        PROVE  contract'[b] \in Late /\ Truthful(m)'
    <3>1. contract[b] \in Late /\ Truthful(m)
      BY <1>1, <2>5 DEF LateAgrees
    <3> QED BY <1>1, <2>1, <2>5, <3>1 DEF Truthful, vars
  <2> QED BY <2>2, <2>3, <2>4, <2>5 DEF WorkerAgrees, LateAgrees
<1> QED BY <1>2, <1>3 DEF DispatchInv

-----------------------------------------------------------------------------
(* A transaction of the Store, which leaves the core alone. *)

\* What a transaction may do to attempt a and its jobs: a closed create stays as
\* it is, a frozen one stays frozen, stop jobs are only added, and capacity is
\* given back only if no server lives or will.
StoreKeeps(a) ==
  /\ creates[a].state \in ClosedJob => creates'[a] = creates[a]
  /\ creates[a].frozen => creates'[a].frozen
  /\ creates'[a].state \in Unannounced => creates[a].state \in Unannounced
  /\ creates'[a].state \in {"none", "pending"} => ~creates'[a].frozen /\ creates'[a].ids = {}
  /\ stopJob[a].number <= stopJob'[a].number
  /\ StopAgrees(a)' /\ FirstStopAgrees(a)'
  /\ OnTime(a) /\ allocations'[a].state \in Released =>
       \/ allocations[a].state \in Released \/ Gone(a)
       \/ /\ NoEffect(a) /\ creates'[a].state = "rejected_no_effect"
          /\ ~AboutToCreate(worker[a])

RowsKept(a) ==
  /\ allocations'[a] = allocations[a] /\ creates'[a] = creates[a]
  /\ stops'[a] = stops[a] /\ stopJob'[a] = stopJob[a]

NodeKept == UNCHANGED <<contract, core, ops, calls, old>>

\* The transaction as a whole, without what becomes of the workers.
StoreMoves ==
  /\ Inv'
  /\ stopJob' \in [AllocationIds -> [number : 0..MaxStopJobs, op : Nat]]
  /\ \A b \in AllocationIds : RowsKept(b) \/ StoreKeeps(b)

\* The core is as it was.
LEMMA NodeSame ==
  ASSUME NodeKept, NEW a \in AllocationIds
  PROVE  /\ V(a)' = V(a) /\ Gone(a)' = Gone(a) /\ NoEffect(a)' = NoEffect(a)
         /\ LastOp(a)' = LastOp(a) /\ core'[a] = core[a] /\ ops'[a] = ops[a]
         /\ old'[a] = old[a] /\ contract'[a] = contract[a]
         /\ <<a, 0>> \in calls' <=> <<a, 0>> \in calls
BY DEF NodeKept, V, Gone, NoEffect, LastOp

\* An attempt whose rows are left alone is kept in particular.
LEMMA RowsKeptAreKept ==
  ASSUME DispatchInv, NodeKept, NEW a \in AllocationIds, RowsKept(a)
  PROVE  StoreKeeps(a)
<1>1. /\ CreateAgrees(a) /\ StopAgrees(a) /\ FirstStopAgrees(a) /\ stopJob[a].number \in Nat
  BY PlayFacts, WorkBounds
<1>2. StopAgrees(a)' /\ FirstStopAgrees(a)'
  BY <1>1, NodeSame DEF RowsKept, StopAgrees, FirstStopAgrees
<1>3. stopJob[a].number <= stopJob'[a].number
  BY <1>1 DEF RowsKept
<1> QED BY <1>1, <1>2, <1>3 DEF RowsKept, StoreKeeps, CreateAgrees

\* A transaction keeps what the invariant says of the attempt.
LEMMA StoreKeepsPlay ==
  ASSUME DispatchInv, NodeKept, NEW a \in AllocationIds, StoreKeeps(a)
  PROVE  PlayAgrees(a)'
<1>1. /\ CoreAgrees(a) /\ CreateAgrees(a) /\ ReleaseAgrees(a) /\ creates[a] \in CreateRow
  BY PlayFacts
<1>2. CoreAgrees(a)'
  BY <1>1, NodeSame DEF CoreAgrees
<1>3. CreateAgrees(a)'
  BY <1>1, NodeSame DEF CreateAgrees, StoreKeeps
<1>4. ReleaseAgrees(a)'
  <2>1. "rejected_no_effect" \in ClosedJob
    BY DEF ClosedJob
  <2> QED BY <1>1, <2>1, NodeSame DEF OnTime, V, ReleaseAgrees, StoreKeeps
<1> QED BY <1>2, <1>3, <1>4 DEF PlayAgrees, StoreKeeps

\* It keeps what a worker relies on that is not about to create while the
\* capacity is given back.
LEMMA StoreKeepsWork ==
  ASSUME DispatchInv, NodeKept, NEW a \in AllocationIds, StoreKeeps(a),
         stopJob' \in [AllocationIds -> [number : 0..MaxStopJobs, op : Nat]],
         NEW w, w \in WorkRow, WorkAgrees(a, w),
         OnTime(a) /\ AboutToCreate(w) /\ allocations'[a].state \in Released =>
           allocations[a].state \in Released \/ Gone(a)
  PROVE  WorkAgrees(a, w)'
<1>1. /\ stopJob[a].number \in Nat /\ stopJob'[a].number \in Nat /\ w.job \in Nat
      /\ stopJob[a].number <= stopJob'[a].number
  BY WorkBounds DEF StoreKeeps, WorkRow
<1>2. w.job <= stopJob'[a].number
  BY <1>1 DEF WorkAgrees
<1> QED BY <1>2, NodeSame DEF OnTime, V, WorkAgrees, AboutToCreate, StoreKeeps

\* It leaves true what a request says.
LEMMA StoreKeepsTruth ==
  ASSUME DispatchInv, NodeKept, NEW m, m.a \in AllocationIds, StoreKeeps(m.a), Truthful(m)
  PROVE  Truthful(m)'
BY NodeSame DEF Truthful, StoreKeeps

\* A transaction preserves the invariant if the workers it answers agree with it.
LEMMA StoreStepKeepsInv ==
  ASSUME DispatchInv, NodeKept, StoreMoves,
         worker' \in [AllocationIds -> WorkRow], late' \subseteq late,
         \A b \in AllocationIds : worker'[b] = worker[b] \/ WorkerAgrees(b)'
  PROVE  DispatchInv'
<1>1. /\ NodeTyped
      /\ \A b \in AllocationIds : PlayAgrees(b) /\ WorkerAgrees(b) /\ LateAgrees(b)
      /\ Inv' /\ stopJob' \in [AllocationIds -> [number : 0..MaxStopJobs, op : Nat]]
  BY DEF DispatchInv, StoreMoves
<1>2. \A b \in AllocationIds : StoreKeeps(b)
  BY RowsKeptAreKept DEF StoreMoves
<1>3. NodeTyped'
  BY <1>1 DEF NodeTyped, NodeKept
<1>4. ASSUME NEW b \in AllocationIds
      PROVE  PlayAgrees(b)' /\ WorkerAgrees(b)' /\ LateAgrees(b)'
  <2>1. PlayAgrees(b)'
    BY <1>2, StoreKeepsPlay
  <2>2. ASSUME worker'[b] = worker[b]
        PROVE  WorkerAgrees(b)'
    <3>1. /\ WorkAgrees(b, worker[b]) /\ worker[b] \in WorkRow
          /\ worker[b].at \in ToPlatform => Truthful(Request(b))
      BY PlayFacts
    <3>2. OnTime(b) /\ AboutToCreate(worker[b]) /\ allocations'[b].state \in Released =>
            allocations[b].state \in Released \/ Gone(b)
      BY <1>2 DEF StoreKeeps
    <3>3. WorkAgrees(b, worker[b])'
      <4>1. \A w : w = worker[b] => WorkAgrees(b, w)'
        BY <1>1, <1>2, <3>1, <3>2, StoreKeepsWork
      <4> QED BY <2>2, <4>1 DEF WorkAgrees, AboutToCreate
    <3>4. worker'[b].at \in ToPlatform => Truthful(Request(b))'
      <4>1. Request(b)' = Request(b) /\ Request(b).a = b
        BY <2>2 DEF Request
      <4>2. \A m : m = Request(b) /\ Truthful(m) => Truthful(m)'
        BY <1>2, <4>1, StoreKeepsTruth
      <4> QED BY <2>2, <3>1, <4>1, <4>2 DEF Truthful, Request
    <3> QED BY <3>3, <3>4 DEF WorkerAgrees
  <2>3. ASSUME NEW m \in late', m.a = b
        PROVE  contract'[b] \in Late /\ Truthful(m)'
    <3>1. contract[b] \in Late /\ Truthful(m)
      BY <1>1, <2>3 DEF LateAgrees
    <3> QED BY <1>2, <2>3, <3>1, NodeSame, StoreKeepsTruth
  <2> QED BY <2>1, <2>2, <2>3 DEF LateAgrees
<1> QED BY <1>1, <1>3, <1>4 DEF DispatchInv

-----------------------------------------------------------------------------
(* The transactions, one by one. *)

\* A step about attempt a that preserves the Store's invariant.
LEMMA StepMoves ==
  ASSUME DispatchInv, NEW a \in AllocationIds, StepOf(a), TypeOK', StoreKeeps(a),
         stopJob' \in [AllocationIds -> [number : 0..MaxStopJobs, op : Nat]],
         \A b \in AllocationIds \ {a} : stopJob'[b] = stopJob[b]
  PROVE  StoreMoves
<1>1. Inv'
  BY StepOfKeepsInv DEF DispatchInv
<1>2. \A b \in AllocationIds \ {a} : RowsKept(b)
  BY DEF StepOf, Touches, RowsKept
<1> QED BY <1>1, <1>2 DEF StoreMoves

\* The stop jobs stay as they are.
LEMMA StopJobsKept ==
  ASSUME NodeTyped, UNCHANGED stopJob
  PROVE  /\ stopJob' \in [AllocationIds -> [number : 0..MaxStopJobs, op : Nat]]
         /\ \A b \in AllocationIds : stopJob'[b] = stopJob[b]
BY DEF NodeTyped

\* An attempt with an open stop is past its start.
LEMMA OpenStopIsLate ==
  ASSUME Inv', NEW a \in AllocationIds, stops'[a].state \in OpenJob
  PROVE  FirstStopAgrees(a)'
<1>1. AttemptAgrees(a)'
  BY DEF Inv
<1> QED BY <1>1 DEF AttemptAgrees, FirstStopAgrees, Starting, Released

\* What is known of an attempt that is there, and of its jobs.
LEMMA JobFacts ==
  ASSUME DispatchInv, NEW a \in AllocationIds
  PROVE  /\ Inv /\ NodeTyped /\ TypeOK /\ AttemptAgrees(a) /\ stopJob[a].number \in Nat
         /\ stopJob[a] \in [number : 0..MaxStopJobs, op : Nat]
         /\ creates[a] \in CreateRow /\ stops[a] \in StopRow
         /\ CreateAgrees(a) /\ StopAgrees(a) /\ FirstStopAgrees(a) /\ LastOp(a) \in Nat
         /\ (creates[a].state \in OpenJob \cup ClosedJob \/ stops[a].state \in OpenJob) =>
              allocations[a].state # "none"
<1>1. /\ Inv /\ NodeTyped /\ stopJob[a].number \in Nat
      /\ stopJob[a] \in [number : 0..MaxStopJobs, op : Nat]
      /\ creates[a] \in CreateRow /\ stops[a] \in StopRow
      /\ CreateAgrees(a) /\ StopAgrees(a) /\ FirstStopAgrees(a) /\ LastOp(a) \in Nat
  BY PlayFacts, WorkBounds
<1>2. TypeOK /\ AttemptAgrees(a)
  BY <1>1 DEF Inv
<1>3. (creates[a].state \in OpenJob \cup ClosedJob \/ stops[a].state \in OpenJob) =>
        allocations[a].state # "none"
  BY <1>1 DEF Inv, RowsAgree, NoCreate, NoStop, OpenJob, Unresolved, ClosedJob
<1> QED BY <1>1, <1>2, <1>3

\* The rejection of a create in time, or in the state the core was left in.
Harmless(a, rep) ==
  OnTime(a) /\ rep.state = "rejected_no_effect" => NoEffect(a) /\ ~AboutToCreate(worker[a])

\* Under the second contract the state of the job shows that a rejection is harmless.
LEMMA AnnouncedRejection ==
  ASSUME DispatchInv, NEW a \in AllocationIds, V(a), NEW rep, CreateReportFits(a, rep)
  PROVE  Harmless(a, rep)
<1>1. /\ CreateAgrees(a) /\ WorkAgrees(a, worker[a])
  BY PlayFacts
<1>2. rep.state = "rejected_no_effect" => creates[a].state = "claimed"
  BY DEF CreateReportFits, ReportFits, Permitted, Unresolved, ClosedJob
<1> QED BY <1>1, <1>2 DEF Harmless, CreateAgrees, WorkAgrees, Unannounced

\* A stop job added to those of a.
Added(a) == [number |-> stopJob[a].number + 1, op |-> 0]

\* The stop jobs that a transaction adds are numbered.
LEMMA RenumberEffect ==
  ASSUME DispatchInv, Renumber, NEW a \in AllocationIds
  PROVE  /\ stops'[a] = stops[a] => stopJob'[a] = stopJob[a]
         /\ stops'[a] = NewStop /\ stops[a].state \notin OpenJob => stopJob'[a] = Added(a)
BY DEF Renumber, Added, NewStop, OpenJob

\* A stop job that is added agrees with the core.
LEMMA AddedAgrees ==
  ASSUME DispatchInv, NEW a \in AllocationIds, stops'[a] = NewStop, stopJob'[a] = Added(a),
         LastOp(a)' \in Nat
  PROVE  StopAgrees(a)' /\ stopJob[a].number <= stopJob'[a].number
<1>1. stopJob[a].number \in Nat
  BY WorkBounds
<1>2. /\ stopJob'[a].op = 0 /\ stopJob'[a].number = stopJob[a].number + 1
      /\ stops'[a].state = "pending" /\ stops'[a] # NoStop
  BY DEF Added, NewStop, NoStop
<1>3. stopJob'[a].number # 0 /\ stopJob[a].number <= stopJob'[a].number
  BY <1>1, <1>2
<1> QED BY <1>2, <1>3 DEF StopAgrees

\* A stop job that is left as it is keeps agreeing with the core.
LEMMA StopKept ==
  ASSUME DispatchInv, NodeKept, NEW a \in AllocationIds,
         stops'[a] = stops[a], stopJob'[a] = stopJob[a]
  PROVE  StopAgrees(a)' /\ stopJob[a].number <= stopJob'[a].number
<1>1. StopAgrees(a) /\ stopJob[a].number \in Nat
  BY PlayFacts, WorkBounds
<1>2. stopJob[a].number <= stopJob'[a].number
  BY <1>1
<1> QED BY <1>1, <1>2, NodeSame DEF StopAgrees

\* The claim of a job.
LEMMA ClaimMoves ==
  ASSUME DispatchInv, NodeKept, UNCHANGED stopJob,
         NEW a \in AllocationIds, ClaimCreate(a) \/ ClaimStop(a)
  PROVE  StoreMoves
<1>1. StepOf(a) /\ TypeOK' /\ Inv'
  BY ClaimStep, StepOfKeepsInv DEF DispatchInv
<1>2. StoreKeeps(a)
  <2>1. /\ CreateAgrees(a) /\ StopAgrees(a) /\ FirstStopAgrees(a) /\ stopJob[a].number \in Nat
        /\ TypeOK /\ allocations' = allocations
    BY JobFacts DEF ClaimCreate, ClaimStop
  <2>2. CASE ClaimCreate(a)
    <3>1. /\ creates'[a].state = "claimed" /\ creates'[a].frozen = creates[a].frozen
          /\ creates[a].state = "pending" /\ stops'[a] = stops[a]
      BY <2>1, <2>2 DEF ClaimCreate, TypeOK, CreateRow
    <3>2. StopAgrees(a)' /\ FirstStopAgrees(a)' /\ stopJob[a].number <= stopJob'[a].number
      BY <2>1, <3>1, StopKept DEF FirstStopAgrees
    <3> QED BY <2>1, <3>1, <3>2 DEF StoreKeeps, Unannounced, ClosedJob
  <2>3. CASE ClaimStop(a)
    <3>1. /\ stops'[a].state = "claimed" /\ stops[a].state = "pending" /\ creates' = creates
          /\ stops'[a] # NoStop /\ stops[a] # NoStop
      BY <2>1, <2>3 DEF ClaimStop, TypeOK, StopRow, NoStop
    <3>2. StopAgrees(a)'
      BY <2>1, <3>1, NodeSame DEF StopAgrees
    <3>3. FirstStopAgrees(a)'
      BY <1>1, <3>1, OpenStopIsLate DEF OpenJob, Unresolved
    <3>4. stopJob[a].number <= stopJob'[a].number
      BY <2>1
    <3> QED BY <2>1, <3>1, <3>2, <3>3, <3>4 DEF StoreKeeps, CreateAgrees
  <2> QED BY <2>2, <2>3
<1>3. NodeTyped
  BY DEF DispatchInv
<1> QED BY <1>1, <1>2, <1>3, StopJobsKept, StepMoves

\* The preparation of a create.
LEMMA PrepareMoves ==
  ASSUME DispatchInv, NodeKept, UNCHANGED stopJob,
         NEW a \in AllocationIds, PrepareCreate(a)
  PROVE  StoreMoves /\ creates'[a].frozen /\ creates'[a].state \in Unresolved
<1>1. StepOf(a) /\ TypeOK' /\ Inv'
  BY PrepareStep, StepOfKeepsInv DEF DispatchInv
<1>2. /\ CreateAgrees(a) /\ StopAgrees(a) /\ FirstStopAgrees(a) /\ stopJob[a].number \in Nat
      /\ TypeOK /\ AttemptAgrees(a) /\ NodeTyped
  BY JobFacts
<1>3. /\ creates'[a].frozen /\ creates'[a].state = creates[a].state
      /\ creates[a].state \in Unresolved /\ stops' = stops
  BY <1>2 DEF PrepareCreate, TypeOK, CreateRow
<1>4. allocations'[a].state \in Starting <=> allocations[a].state \in Starting
  BY <1>2, AllocationToEffect DEF PrepareCreate, Starting
<1>5. allocations'[a].state \notin Starting => allocations'[a].state = allocations[a].state
  BY <1>2, AllocationToEffect DEF PrepareCreate, Starting
<1>6. StoreKeeps(a)
  <2>1. StopAgrees(a)' /\ stopJob[a].number <= stopJob'[a].number
    BY <1>3, StopKept
  <2>2. FirstStopAgrees(a)'
    BY <1>2, <1>3, <1>4, <1>5 DEF FirstStopAgrees
  <2>3. allocations'[a].state \in Released => allocations[a].state \in Released
    BY <1>4, <1>5 DEF Starting, Released
  <2> QED
    BY <1>3, <2>1, <2>2, <2>3 DEF StoreKeeps, Unresolved, ClosedJob
<1> QED BY <1>1, <1>2, <1>3, <1>6, StopJobsKept, StepMoves

-----------------------------------------------------------------------------
(* Reports and facts. *)

\* Stop jobs that are added within the bound keep their type.
LEMMA RenumberTyped ==
  ASSUME DispatchInv, Renumber, \A b \in AllocationIds : stopJob'[b].number <= MaxStopJobs
  PROVE  stopJob' \in [AllocationIds -> [number : 0..MaxStopJobs, op : Nat]]
<1>1. \A b \in AllocationIds :
        stopJob[b].number \in Nat /\ stopJob[b] \in [number : 0..MaxStopJobs, op : Nat]
  BY JobFacts
<1>2. ASSUME NEW b \in AllocationIds
      PROVE  stopJob'[b] \in [number : 0..MaxStopJobs, op : Nat]
  <2>1. stopJob'[b] = stopJob[b] \/ stopJob'[b] = Added(b)
    BY DEF Renumber, Added
  <2>2. stopJob'[b].number <= MaxStopJobs
    OBVIOUS
  <2>3. CASE stopJob'[b] = Added(b)
    <3>1. Added(b).number = stopJob[b].number + 1 /\ Added(b).number \in Nat
      BY <1>1 DEF Added
    <3>2. Added(b).number \in 0..MaxStopJobs
      BY <2>2, <2>3, <3>1, DispatchAssumption
    <3> QED BY <2>3, <3>2 DEF Added
  <2> QED BY <1>1, <2>1, <2>3
<1> QED BY <1>2 DEF Renumber

\* The first stop job of an attempt, or none.
LEMMA FirstStopAdded ==
  ASSUME DispatchInv, NodeKept, NEW a \in AllocationIds, Renumber,
         \A b \in AllocationIds \ {a} : stops'[b] = stops[b],
         stops'[a] = stops[a] \/ (stops'[a] = NewStop /\ stops[a] = NoStop)
  PROVE  /\ stopJob' \in [AllocationIds -> [number : 0..MaxStopJobs, op : Nat]]
         /\ \A b \in AllocationIds \ {a} : stopJob'[b] = stopJob[b]
         /\ StopAgrees(a)' /\ stopJob[a].number <= stopJob'[a].number
<1>1. \A b \in AllocationIds \ {a} : stopJob'[b] = stopJob[b]
  BY RenumberEffect
<1>2. \A b \in AllocationIds : stopJob[b].number \in Nat /\ stopJob[b].number <= MaxStopJobs
  <2>1. \A b \in AllocationIds : stopJob[b] \in [number : 0..MaxStopJobs, op : Nat]
    BY JobFacts
  <2> QED BY <2>1, DispatchAssumption
<1>3. CASE stops'[a] = stops[a]
  <2>1. stopJob'[a] = stopJob[a]
    BY <1>3, RenumberEffect
  <2>2. \A b \in AllocationIds : stopJob'[b].number <= MaxStopJobs
    BY <1>1, <1>2, <2>1
  <2> QED BY <1>1, <1>3, <2>1, <2>2, RenumberTyped, StopKept
<1>4. CASE stops'[a] = NewStop /\ stops[a] = NoStop
  <2>1. stops[a].state \notin OpenJob /\ stopJob[a].number = 0
    BY <1>4, JobFacts DEF StopAgrees, NoStop, OpenJob, Unresolved
  <2>2. stopJob'[a] = Added(a)
    BY <1>4, <2>1, RenumberEffect
  <2>3. stopJob'[a].number = 1 /\ 1 <= MaxStopJobs
    BY <2>1, <2>2, DispatchAssumption DEF Added
  <2>4. \A b \in AllocationIds : stopJob'[b].number <= MaxStopJobs
    BY <1>1, <1>2, <2>3
  <2>5. LastOp(a)' \in Nat
    BY JobFacts, NodeSame
  <2> QED BY <1>1, <1>4, <2>2, <2>4, <2>5, RenumberTyped, AddedAgrees
<1> QED BY <1>3, <1>4

\* A create report, which only releases what it can be trusted with.
LEMMA ReportCreateMoves ==
  ASSUME DispatchInv, NodeKept, NEW a \in AllocationIds, NEW rep \in Report,
         ReportCreate(a, rep), Harmless(a, rep),
         Renumber \/ (UNCHANGED stopJob /\ rep.state # "failed_with_effect")
  PROVE  StoreMoves /\ creates'[a].state = rep.state /\ creates'[a].frozen = creates[a].frozen
<1>1. /\ Inv /\ TypeOK /\ NodeTyped /\ AttemptAgrees(a) /\ StopAgrees(a) /\ FirstStopAgrees(a)
      /\ CreateAgrees(a)
  BY JobFacts
<1>2. StepOf(a) /\ TypeOK'
  BY <1>1, ReportCreateStep
<1>3. /\ creates[a].state \in Unresolved /\ rep.state \in Permitted(creates[a].state)
      /\ rep.state = "rejected_no_effect" => creates[a].state = "claimed"
  BY DEF ReportCreate, CreateReportFits, ReportFits, Permitted, Unresolved, ClosedJob
<1>4. /\ creates'[a].state = rep.state /\ creates'[a].frozen = creates[a].frozen
      /\ creates[a].state \notin ClosedJob
      /\ creates'[a].state \in {"accepted", "unknown"} \cup ClosedJob
  BY <1>1, <1>3 DEF ReportCreate, TypeOK, Unresolved, ClosedJob, Report
<1>5. /\ allocations[a].request \in RequestIds
      /\ allocations[a].state \in Starting \cup {"quarantined"}
  <2>1. allocations[a].state # "none" /\ creates[a].state \in OpenJob
    BY <1>3, JobFacts DEF OpenJob
  <2> QED BY <1>1, <2>1, AttemptFacts DEF AttemptAgrees
<1>6. ReportsCreate(a, rep)
  BY <1>1, <1>5, ReportCreateEffect
<1>7. allocations[a].state \in Starting => stops[a] = NoStop
  BY <1>1 DEF FirstStopAgrees
<1>8. \/ allocations'[a] = allocations[a] /\ stops'[a] = stops[a]
      \/ /\ allocations[a].state \in Starting
         /\ \/ stops'[a] = stops[a]
            \/ /\ stops'[a] = NewStop /\ rep.state = "failed_with_effect"
               /\ allocations'[a].state = "stopping"
         /\ allocations'[a].state \in Released => rep.state = "rejected_no_effect"
      \/ /\ allocations[a].state = "quarantined" /\ stops'[a] = stops[a]
         /\ allocations'[a].state = "released_no_effect" /\ rep.state = "rejected_no_effect"
  <2>1. TooLate(a, rep.state = "rejected_no_effect") <=>
          allocations[a].state = "quarantined" /\ rep.state # "rejected_no_effect"
    BY <1>5 DEF TooLate, Starting, Released
  <2>2. stops[a] = NoStop => stops[a].state \notin OpenJob
    BY DEF NoStop, OpenJob, Unresolved
  <2>3. CASE TooLate(a, rep.state = "rejected_no_effect")
    BY <1>6, <2>1, <2>3 DEF ReportsCreate, Stays
  <2>4. CASE ~TooLate(a, rep.state = "rejected_no_effect") /\ rep.state = "failed_with_effect"
    <3>1. allocations[a].state \in Starting
      BY <1>5, <2>1, <2>4
    <3>2. FailsCreate(a, rep.untrusted)
      BY <1>6, <2>4 DEF ReportsCreate
    <3> QED BY <1>7, <2>2, <2>4, <3>1, <3>2 DEF FailsCreate, Leads, Released
  <2>5. CASE ~TooLate(a, rep.state = "rejected_no_effect") /\ rep.state = "rejected_no_effect"
    BY <1>5, <1>6, <2>5 DEF ReportsCreate, Leads
  <2>6. CASE /\ ~TooLate(a, rep.state = "rejected_no_effect")
             /\ rep.state \notin {"rejected_no_effect", "failed_with_effect"}
    <3>1. allocations[a].state \in Starting
      BY <1>5, <2>1, <2>6
    <3> QED BY <1>6, <2>6, <3>1 DEF ReportsCreate, Leads, Released
  <2> QED BY <2>3, <2>4, <2>5, <2>6
<1>9. stops'[a] = stops[a] \/ (stops'[a] = NewStop /\ stops[a] = NoStop)
  BY <1>7, <1>8
<1>10. \A b \in AllocationIds \ {a} : stops'[b] = stops[b]
  BY <1>2 DEF StepOf, Touches
<1>11. /\ stopJob' \in [AllocationIds -> [number : 0..MaxStopJobs, op : Nat]]
       /\ \A b \in AllocationIds \ {a} : stopJob'[b] = stopJob[b]
       /\ StopAgrees(a)' /\ stopJob[a].number <= stopJob'[a].number
  <2>1. CASE Renumber
    BY <1>9, <1>10, <2>1, FirstStopAdded
  <2>2. CASE UNCHANGED stopJob /\ rep.state # "failed_with_effect"
    <3>1. stops'[a] = stops[a]
      BY <1>8, <2>2
    <3> QED BY <1>1, <2>2, <3>1, StopJobsKept, StopKept
  <2> QED BY <2>1, <2>2
<1>12. FirstStopAgrees(a)'
  BY <1>1, <1>7, <1>8 DEF FirstStopAgrees, Starting, Released
<1>13. StoreKeeps(a)
  <2>1. rep.state \in Unannounced => creates[a].state \in Unannounced
    BY <1>3, <1>4 DEF Unannounced, ClosedJob
  <2>2. rep.state \notin {"none", "pending"}
    BY <1>4 DEF ClosedJob
  <2>3. OnTime(a) /\ allocations'[a].state \in Released =>
          \/ allocations[a].state \in Released
          \/ NoEffect(a) /\ rep.state = "rejected_no_effect" /\ ~AboutToCreate(worker[a])
    <3>1. allocations'[a].state \in Released =>
            allocations[a].state \in Released \/ rep.state = "rejected_no_effect"
      BY <1>8
    <3> QED BY <3>1 DEF Harmless
  <2> QED BY <1>4, <1>11, <1>12, <2>1, <2>2, <2>3 DEF StoreKeeps
<1> QED BY <1>2, <1>4, <1>11, <1>13, StepMoves

\* A stop report, with the operation it names; success means the instance is gone.
LEMMA ReportStopMoves ==
  ASSUME DispatchInv, NodeKept, NEW a \in AllocationIds, NEW rep \in Report,
         ReportStop(a, rep), NEW op, op \in 0..LastOp(a),
         stopJob' = IF op = 0 THEN stopJob ELSE [stopJob EXCEPT ![a].op = op],
         rep.state \in {"accepted", "succeeded"} => op # 0,
         rep.state = "succeeded" => Gone(a)
  PROVE  StoreMoves
<1>1. /\ Inv /\ TypeOK /\ NodeTyped /\ AttemptAgrees(a) /\ StopAgrees(a) /\ FirstStopAgrees(a)
      /\ CreateAgrees(a) /\ LastOp(a) \in Nat
      /\ stopJob[a] \in [number : 0..MaxStopJobs, op : Nat] /\ stopJob[a].number \in Nat
  BY JobFacts
<1>2. StepOf(a) /\ TypeOK' /\ Inv'
  BY <1>1, ReportStopStep, StepOfKeepsInv
<1>3. /\ stops[a].state \in Unresolved /\ UNCHANGED creates
      /\ stops'[a].state = rep.state
      /\ rep.state \in {"accepted", "unknown"} \cup ClosedJob
  BY <1>1 DEF ReportStop, ReportFits, Permitted, Unresolved, TypeOK, Report
<1>4. allocations[a].state \in {"stopping", "quarantined"} \cup Released
  BY <1>1, <1>3 DEF AttemptAgrees, OpenJob
<1>5. \/ allocations' = allocations
      \/ \E s \in {"stopping", "quarantined", "reclaimed"} :
           /\ allocations' = AllocationTo(a, s)
           /\ s = "reclaimed" => rep.state = "succeeded"
  BY DEF ReportStop, ApplyStopReport, Move, Quarantined, StopSucceeded
<1>6. \/ allocations'[a].state = allocations[a].state
      \/ allocations'[a].state \in {"stopping", "quarantined"}
      \/ allocations'[a].state = "reclaimed" /\ Gone(a)
  BY <1>1, <1>5, AllocationToEffect
<1>7. /\ stopJob' \in [AllocationIds -> [number : 0..MaxStopJobs, op : Nat]]
      /\ \A b \in AllocationIds \ {a} : stopJob'[b] = stopJob[b]
      /\ stopJob'[a].number = stopJob[a].number
      /\ stopJob'[a].op = IF op = 0 THEN stopJob[a].op ELSE op
  <2>1. CASE op = 0
    BY <1>1, <2>1 DEF NodeTyped
  <2>2. CASE op # 0
    <3> DEFINE row == [stopJob[a] EXCEPT !.op = op]
    <3>1. op \in Nat
      BY <1>1
    <3>2. /\ row \in [number : 0..MaxStopJobs, op : Nat]
          /\ row.number = stopJob[a].number /\ row.op = op
      BY <1>1, <3>1
    <3>3. stopJob' = [stopJob EXCEPT ![a] = row]
      BY <2>2
    <3> HIDE DEF row
    <3> QED BY <1>1, <2>2, <3>2, <3>3 DEF NodeTyped
  <2> QED BY <2>1, <2>2
<1>8. StopAgrees(a)'
  <2>1. stops'[a] # NoStop /\ stops[a] # NoStop
    BY <1>3 DEF NoStop, ClosedJob, Unresolved
  <2>2. stopJob'[a].op \in 0..LastOp(a)
    BY <1>1, <1>7 DEF StopAgrees
  <2>3. stops'[a].state \in {"accepted", "succeeded"} => stopJob'[a].op # 0
    BY <1>3, <1>7
  <2> QED BY <1>1, <1>3, <1>7, <2>1, <2>2, <2>3, NodeSame DEF StopAgrees
<1>9. FirstStopAgrees(a)'
  BY <1>4, <1>6 DEF FirstStopAgrees, Starting, Released
<1>10. StoreKeeps(a)
  <2>1. stopJob[a].number <= stopJob'[a].number
    BY <1>1, <1>7
  <2>2. allocations'[a].state \in Released => allocations[a].state \in Released \/ Gone(a)
    BY <1>6 DEF Released
  <2> QED BY <1>1, <1>3, <1>8, <1>9, <2>1, <2>2 DEF StoreKeeps, CreateAgrees
<1> QED BY <1>2, <1>7, <1>10, StepMoves

\* A fact about an instance whose create is closed.
LEMMA FactMoves ==
  ASSUME DispatchInv, NodeKept, NEW a \in AllocationIds, Renumber,
         "instance" \in creates[a].ids, creates[a].state \in ClosedJob,
         allocations[a].state \notin Released,
         NEW outcome, ApplyFact(a, outcome), outcome = "reclaimed" => Gone(a)
  PROVE  StoreMoves
<1>1. /\ Inv /\ TypeOK /\ NodeTyped /\ AttemptAgrees(a) /\ FirstStopAgrees(a) /\ CreateAgrees(a)
      /\ creates[a] \in CreateRow
  BY JobFacts
<1>2. UNCHANGED <<creates, nodes, catalog>>
  BY DEF ApplyFact
<1>3. CASE UNCHANGED <<requests, allocations, stops, intents>>
  <2>1. UNCHANGED vars
    BY <1>2, <1>3 DEF vars
  <2>2. Inv'
    BY <1>1, <2>1, NextKeepsInv
  <2>3. stopJob' \in [AllocationIds -> [number : 0..MaxStopJobs, op : Nat]]
    BY <1>3, FirstStopAdded
  <2>4. \A b \in AllocationIds : RowsKept(b)
    BY <1>2, <1>3, RenumberEffect DEF RowsKept
  <2> QED BY <2>2, <2>3, <2>4 DEF StoreMoves
<1>4. CASE \/ outcome = "reclaimed" /\ ReclaimedFact(a)
           \/ FailedFact(a) \/ DriftedFact(a)
  <2>1. StepOf(a) /\ TypeOK'
    BY <1>1, <1>2, <1>4, FactStep DEF ReportInstanceFact
  <2>2. \A b \in AllocationIds \ {a} : stops'[b] = stops[b]
    BY <2>1 DEF StepOf, Touches
  <2>3. /\ allocations'[a].state \in {"reclaimed", "quarantined", "stopping"}
        /\ allocations'[a].state = "reclaimed" => Gone(a)
        /\ stops'[a] = stops[a] \/ (stops'[a] = NewStop /\ stops[a] = NoStop)
    <3>1. CASE outcome = "reclaimed" /\ ReclaimedFact(a)
      BY <1>1, <3>1, AllocationToEffect DEF ReclaimedFact
    <3>2. CASE DriftedFact(a)
      BY <1>1, <3>2, AllocationToEffect DEF DriftedFact, Quarantined, Move
    <3>3. CASE FailedFact(a)
      <4>1. allocations[a].state # "none"
        BY JobFacts
      <4>2. allocations[a].state \in {"running", "failed_unreclaimed"}
        <5>1. creates[a].state \notin OpenJob
          BY DEF ClosedJob, OpenJob, Unresolved
        <5>2. allocations[a].state \notin Starting
          BY <1>1, <5>1 DEF AttemptAgrees
        <5>3. allocations[a].state \in OccupyingStates
          BY <1>1, <4>1, AttemptFacts
        <5> QED BY <3>3, <5>2, <5>3 DEF FailedFact, OccupyingStates
      <4>3. stops[a] = NoStop /\ stops[a].state \notin OpenJob
        BY <1>1, <4>2 DEF FirstStopAgrees, NoStop, OpenJob, Unresolved
      <4>4. /\ allocations' = AllocationTo(a, "stopping")
            /\ stops' = [stops EXCEPT ![a] = NewStop]
        BY <3>3, <4>3 DEF FailedFact, CreateFailed, Move
      <4> QED BY <1>1, <4>3, <4>4, AllocationToEffect, NewStopEffect DEF TypeOK
    <3> QED BY <1>4, <3>1, <3>2, <3>3
  <2>4. /\ stopJob' \in [AllocationIds -> [number : 0..MaxStopJobs, op : Nat]]
        /\ \A b \in AllocationIds \ {a} : stopJob'[b] = stopJob[b]
        /\ StopAgrees(a)' /\ stopJob[a].number <= stopJob'[a].number
    BY <2>2, <2>3, FirstStopAdded
  <2>5. FirstStopAgrees(a)'
    BY <2>3 DEF FirstStopAgrees, Starting
  <2>6. StoreKeeps(a)
    BY <1>1, <1>2, <2>3, <2>4, <2>5 DEF StoreKeeps, CreateAgrees, Released
  <2> QED BY <2>1, <2>4, <2>6, StepMoves
<1> QED BY <1>3, <1>4 DEF ApplyFact

-----------------------------------------------------------------------------
(* What else happens to an attempt. *)

\* A step of the Store about a alone, with its stop jobs numbered.
LEMMA NumberedMoves ==
  ASSUME DispatchInv, NodeKept, NEW a \in AllocationIds, Next, Renumber,
         \A b \in AllocationIds : stopJob'[b].number <= MaxStopJobs,
         \A b \in AllocationIds \ {a} : /\ allocations'[b] = allocations[b]
                                        /\ creates'[b] = creates[b] /\ stops'[b] = stops[b],
         StoreKeeps(a)
  PROVE  StoreMoves
<1>1. Inv'
  BY NextKeepsInv DEF DispatchInv
<1>2. stopJob' \in [AllocationIds -> [number : 0..MaxStopJobs, op : Nat]]
  BY RenumberTyped
<1>3. \A b \in AllocationIds \ {a} : RowsKept(b)
  BY RenumberEffect DEF RowsKept
<1> QED BY <1>1, <1>2, <1>3 DEF StoreMoves

\* A stop that the player or an administrator asks for.
LEMMA StopAskedKeeps ==
  ASSUME DispatchInv, NodeKept, NEW a \in AllocationIds, Next, Renumber,
         stops' = [stops EXCEPT ![a] = NewStop], stops[a].state \notin OpenJob,
         UNCHANGED creates,
         allocations' = allocations \/ allocations' = AllocationTo(a, "stopping")
  PROVE  StoreKeeps(a)
<1>1. /\ Inv /\ TypeOK /\ CreateAgrees(a) /\ LastOp(a) \in Nat
  BY JobFacts
<1>2. Inv'
  BY <1>1, NextKeepsInv
<1>3. stops'[a] = NewStop /\ stopJob'[a] = Added(a) /\ LastOp(a)' \in Nat
  BY <1>1, RenumberEffect, NodeSame DEF TypeOK
<1>4. StopAgrees(a)' /\ stopJob[a].number <= stopJob'[a].number
  BY <1>3, AddedAgrees
<1>5. FirstStopAgrees(a)'
  BY <1>2, <1>3, OpenStopIsLate DEF NewStop, OpenJob
<1>6. allocations'[a].state \in Released => allocations[a].state \in Released
  BY <1>1, AllocationToEffect DEF Released
<1> QED BY <1>1, <1>4, <1>5, <1>6 DEF StoreKeeps, CreateAgrees

\* A step that leaves the jobs of a alone, and does not give back its capacity.
LEMMA JobsLeftKeep ==
  ASSUME DispatchInv, NodeKept, NEW a \in AllocationIds, Renumber,
         UNCHANGED <<creates, stops>>, allocations' = AllocationTo(a, "quarantined")
  PROVE  StoreKeeps(a)
<1>1. TypeOK /\ CreateAgrees(a)
  BY JobFacts
<1>2. allocations'[a].state = "quarantined"
  BY <1>1, AllocationToEffect
<1>3. StopAgrees(a)' /\ stopJob[a].number <= stopJob'[a].number
  BY RenumberEffect, StopKept
<1>4. FirstStopAgrees(a)'
  BY <1>2 DEF FirstStopAgrees, Starting
<1> QED BY <1>1, <1>2, <1>3, <1>4 DEF StoreKeeps, CreateAgrees, Released

\* A pending create that is called off has had no effect.
LEMMA TerminateKeeps ==
  ASSUME DispatchInv, NodeKept, NEW a \in AllocationIds, Renumber, TerminatePending(a)
  PROVE  StoreKeeps(a)
<1>1. TypeOK /\ CreateAgrees(a) /\ FirstStopAgrees(a) /\ WorkAgrees(a, worker[a])
  BY JobFacts, PlayFacts
<1>2. /\ creates[a].state = "pending" /\ stops' = stops
      /\ creates'[a].state = "rejected_no_effect" /\ creates'[a].frozen = creates[a].frozen
      /\ allocations' = AllocationTo(a, "released_no_effect")
  BY <1>1 DEF TerminatePending, Move, TypeOK, CreateRow
<1>3. allocations'[a].state = "released_no_effect"
  BY <1>1, <1>2, AllocationToEffect
<1>4. StopAgrees(a)' /\ stopJob[a].number <= stopJob'[a].number
  BY <1>2, RenumberEffect, StopKept
<1>5. FirstStopAgrees(a)'
  BY <1>3 DEF FirstStopAgrees, Starting
<1>6. NoEffect(a) /\ ~AboutToCreate(worker[a])
  BY <1>1, <1>2 DEF CreateAgrees, WorkAgrees, AboutToCreate
<1> QED BY <1>2, <1>4, <1>5, <1>6 DEF StoreKeeps, Unannounced, ClosedJob

\* A new attempt.
LEMMA ReservedKeeps ==
  ASSUME DispatchInv, NodeKept, NEW a \in AllocationIds, NEW r \in RequestIds, NEW n \in Nodes,
         Renumber, ReserveFor(a, r, n)
  PROVE  StoreKeeps(a)
<1>1. Inv /\ TypeOK
  BY JobFacts
<1>2. allocations[a] = NoAllocation /\ allocations'[a].state = "reserved"
  <2>1. Reserved(a, r, n)
    BY <1>1, ReserveRows
  <2>2. allocations[a] = NoAllocation
    BY <2>1 DEF Reserved
  <2>3. allocations'[a].state = "reserved"
    BY <2>1 DEF Reserved
  <2> QED BY <2>2, <2>3
<1>3. creates[a] = NoCreate /\ stops[a] = NoStop
  BY <1>1, <1>2 DEF Inv, RowsAgree, NoAllocation
<1>4. /\ stops' = stops
      /\ creates'[a].state = "pending" /\ ~creates'[a].frozen /\ creates'[a].ids = {}
  BY <1>1 DEF ReserveFor, NoCreate, TypeOK
<1>5. StopAgrees(a)' /\ stopJob[a].number <= stopJob'[a].number
  BY <1>4, RenumberEffect, StopKept
<1>6. FirstStopAgrees(a)'
  BY <1>3, <1>4 DEF FirstStopAgrees
<1> QED
  BY <1>2, <1>3, <1>4, <1>5, <1>6
  DEF StoreKeeps, NoCreate, ClosedJob, Unannounced, Released

\* Every other step of the Store keeps the invariant.
LEMMA ElsewhereMoves ==
  ASSUME DispatchInv, Elsewhere
  PROVE  DispatchInv'
<1>1. /\ Renumber /\ NodeKept /\ UNCHANGED <<worker, late>>
      /\ \A b \in AllocationIds : stopJob'[b].number <= MaxStopJobs
      /\ Inv /\ TypeOK /\ NodeTyped
  BY DEF Elsewhere, NodeKept, DispatchInv, Inv
<1>2. ASSUME UNCHANGED <<allocations, creates, stops>>, Next
      PROVE  StoreMoves
  <2>1. \A b \in AllocationIds : RowsKept(b)
    BY <1>1, <1>2, RenumberEffect DEF RowsKept
  <2>2. Inv'
    BY <1>1, <1>2, NextKeepsInv
  <2>3. stopJob' \in [AllocationIds -> [number : 0..MaxStopJobs, op : Nat]]
    BY <1>1, RenumberTyped
  <2>4. StoreMoves
    BY <2>1, <2>2, <2>3 DEF StoreMoves
  <2> QED BY <2>4
<1>3. ASSUME NEW r \in RequestIds, NEW n \in Nodes, Reserve(r, n)
      PROVE  StoreMoves
  <2>1. PICK a \in AllocationIds : ReserveFor(a, r, n)
    BY <1>3 DEF Reserve, ReserveFor
  <2>2. Next
    BY <1>3 DEF Next, Platform, TryAllocateOne
  <2>3. \A b \in AllocationIds \ {a} : /\ allocations'[b] = allocations[b]
                                       /\ creates'[b] = creates[b] /\ stops'[b] = stops[b]
    BY <1>1, <2>1, ReserveRows DEF Reserved, ReserveFor
  <2> QED BY <1>1, <2>1, <2>2, <2>3, ReservedKeeps, NumberedMoves
<1>4. ASSUME NEW r \in RequestIds, StopUserRequest(r, FALSE) \/ AdminStopRequest(r)
      PROVE  StoreMoves
  <2>1. Next
    BY <1>4 DEF Next, Player, Administrator
  <2>2. PICK a \in Attempts(r) : /\ stops[a].state \notin OpenJob
                                 /\ stops' = [stops EXCEPT ![a] = NewStop]
                                 /\ \/ allocations' = allocations
                                    \/ allocations' = AllocationTo(a, "stopping")
    BY <1>4 DEF StopUserRequest, AdminStopRequest, Move
  <2>3. a \in AllocationIds /\ UNCHANGED creates
    BY <1>4 DEF Attempts, StopUserRequest, AdminStopRequest
  <2>4. \A b \in AllocationIds \ {a} : /\ allocations'[b] = allocations[b]
                                       /\ creates'[b] = creates[b] /\ stops'[b] = stops[b]
    BY <1>1, <2>2, <2>3, AllocationToEffect, NewStopEffect
  <2> QED BY <1>1, <2>1, <2>2, <2>3, <2>4, StopAskedKeeps, NumberedMoves
<1>5. ASSUME NEW a \in AllocationIds, MarkAllocationQuarantined(a)
      PROVE  StoreMoves
  <2>1. Next
    BY <1>5 DEF Next, Administrator
  <2>2. UNCHANGED <<creates, stops>> /\ allocations' = AllocationTo(a, "quarantined")
    BY <1>5 DEF MarkAllocationQuarantined, Quarantined, Move
  <2>3. \A b \in AllocationIds \ {a} : /\ allocations'[b] = allocations[b]
                                       /\ creates'[b] = creates[b] /\ stops'[b] = stops[b]
    BY <1>1, <2>2, AllocationToEffect
  <2> QED BY <1>1, <2>1, <2>2, <2>3, JobsLeftKeep, NumberedMoves
<1>6. ASSUME NEW a \in AllocationIds, TerminatePending(a)
      PROVE  StoreMoves
  <2>1. Next
    BY <1>6 DEF Next, Administrator
  <2>2. /\ creates' = [creates EXCEPT ![a].state = "rejected_no_effect"]
        /\ UNCHANGED stops /\ allocations' = AllocationTo(a, "released_no_effect")
    BY <1>6 DEF TerminatePending, Move
  <2>3. \A b \in AllocationIds \ {a} : /\ allocations'[b] = allocations[b]
                                       /\ creates'[b] = creates[b] /\ stops'[b] = stops[b]
    BY <1>1, <2>2, AllocationToEffect DEF TypeOK
  <2> QED BY <1>1, <1>6, <2>1, <2>3, TerminateKeeps, NumberedMoves
<1>7. \/ UNCHANGED <<allocations, creates, stops>> /\ Next
      \/ \E r \in RequestIds, n \in Nodes : Reserve(r, n)
      \/ \E r \in RequestIds : StopUserRequest(r, FALSE) \/ AdminStopRequest(r)
      \/ \E a \in AllocationIds : MarkAllocationQuarantined(a) \/ TerminatePending(a)
  <2>1. CASE \E o \in Owners, t \in Nodes : CreateUserRequest(o, t)
    BY <2>1 DEF CreateUserRequest, Next, Player
  <2>2. CASE TryAllocateOne
    BY <2>2 DEF TryAllocateOne, GiveUp, Next, Platform
  <2>3. CASE \E r \in RequestIds : AbandonQuarantinedUserRequest(r)
    BY <2>3 DEF AbandonQuarantinedUserRequest, Next, Player
  <2> QED BY <2>1, <2>2, <2>3 DEF Elsewhere
<1>8. StoreMoves => DispatchInv'
  BY <1>1, StoreStepKeepsInv DEF NodeTyped
<1> QED BY <1>2, <1>3, <1>4, <1>5, <1>6, <1>7, <1>8

-----------------------------------------------------------------------------
(* Requests that the Store processes. *)

\* The transaction of a request that fits, tells the truth and rejects harmlessly.
LEMMA ApplyMoves ==
  ASSUME DispatchInv, NodeKept, NEW m, m \in Message, Truthful(m), Fits(m), Apply(m),
         m.at = "report" /\ m.job = 0 => Harmless(m.a, m.report)
  PROVE  /\ StoreMoves
         /\ m.at = "prepare" => creates'[m.a].frozen /\ creates'[m.a].state \in Unresolved
         /\ m.at = "begin" /\ m.job = 0 =>
              creates'[m.a].frozen /\ creates'[m.a].state = "unknown"
<1> DEFINE a == m.a
<1>1. /\ a \in AllocationIds /\ m.at \in ToPlatform /\ m.job \in Nat /\ m.op \in Nat
      /\ Inv /\ NodeTyped
  BY DEF Message, DispatchInv
<1>2. /\ Uncertain \in Report /\ Uncertain.state = "unknown"
      /\ Harmless(a, Uncertain)
  BY ReportsTyped DEF Harmless
<1>3. 0 \in 0..LastOp(a)
  BY <1>1, WorkBounds
<1>4. CASE m.at = "prepare"
  <2>1. PrepareCreate(a) /\ UNCHANGED stopJob
    BY <1>4 DEF Apply
  <2> QED BY <1>1, <1>4, <2>1, PrepareMoves
<1>5. CASE m.at = "begin"
  <2>1. UNCHANGED stopJob
    BY <1>5 DEF Apply
  <2>2. CASE m.job = 0 /\ ReportCreate(a, Uncertain)
    <3>1. creates[a].frozen
      BY <1>2, <2>2 DEF ReportCreate, CreateReportFits
    <3> QED BY <1>1, <1>2, <1>5, <2>1, <2>2, <3>1, ReportCreateMoves
  <2>3. CASE m.job # 0 /\ ReportStop(a, Uncertain)
    <3> DEFINE op == 0
    <3>1. op \in 0..LastOp(a) /\ stopJob' = IF op = 0 THEN stopJob
                                             ELSE [stopJob EXCEPT ![a].op = op]
      BY <1>3, <2>1
    <3> HIDE DEF op
    <3> QED BY <1>1, <1>2, <1>5, <2>3, <3>1, ReportStopMoves
  <2>4. CASE /\ (IF m.job = 0 THEN creates[a].state ELSE stops[a].state) = "unknown"
             /\ UNCHANGED vars
    <3>1. Inv' /\ \A b \in AllocationIds : RowsKept(b)
      BY <1>1, <2>1, <2>4, NextKeepsInv DEF RowsKept, vars
    <3>2. StoreMoves
      BY <1>1, <2>1, <3>1, StopJobsKept DEF StoreMoves
    <3>3. m.job = 0 => creates[a].frozen /\ creates[a].state = "unknown"
      BY <1>5, <2>4 DEF Fits
    <3> QED BY <1>5, <2>4, <3>2, <3>3 DEF vars
  <2> QED BY <1>5, <2>2, <2>3, <2>4 DEF Apply
<1>6. CASE m.at = "report"
  <2>1. m.report \in Report
    BY <1>6 DEF Truthful
  <2>2. CASE m.job = 0
    <3>1. ReportCreate(a, m.report) /\ Renumber
      BY <1>6, <2>2 DEF Apply
    <3> QED BY <1>1, <1>6, <2>1, <2>2, <3>1, ReportCreateMoves
  <2>3. CASE m.job # 0
    <3>1. /\ ReportStop(a, m.report)
          /\ stopJob' = IF m.op = 0 THEN stopJob ELSE [stopJob EXCEPT ![a].op = m.op]
      BY <1>6, <2>3 DEF Apply
    <3>2. /\ m.op \in 0..LastOp(a)
          /\ m.report.state \in {"accepted", "succeeded"} => m.op # 0
          /\ m.report.state = "succeeded" => Gone(a)
      BY <1>6, <2>3 DEF Truthful
    <3> QED BY <1>1, <1>6, <2>1, <2>3, <3>1, <3>2, ReportStopMoves
  <2> QED BY <2>2, <2>3
<1>7. CASE m.at = "fact"
  <2>1. ApplyFact(a, m.report.state) /\ Renumber
    BY <1>7 DEF Apply
  <2>2. /\ "instance" \in creates[a].ids /\ creates[a].state \in ClosedJob
        /\ m.report.state = "reclaimed" => Gone(a)
    BY <1>7 DEF Truthful
  <2>3. allocations[a].state \notin Released
    BY <1>7 DEF Fits
  <2> QED BY <1>1, <1>7, <2>1, <2>2, <2>3, FactMoves
<1> QED BY <1>1, <1>4, <1>5, <1>6, <1>7 DEF ToPlatform

\* The worker's own request is a message that tells the truth, and a rejection in
\* it is harmless.
LEMMA OwnRequest ==
  ASSUME DispatchInv, NEW a \in AllocationIds, worker[a].at \in ToPlatform
  PROVE  LET m == Request(a)
         IN /\ m \in Message /\ m.a = a /\ m.at = worker[a].at /\ m.job = worker[a].job
            /\ m.op = worker[a].op /\ m.report = worker[a].report
            /\ Truthful(m)
            /\ Fits(m) /\ m.at = "report" /\ m.job = 0 => Harmless(a, m.report)
<1>1. /\ worker[a] \in WorkRow /\ WorkAgrees(a, worker[a]) /\ Truthful(Request(a))
  BY PlayFacts
<1>2. LET m == Request(a)
      IN /\ m \in Message /\ m.a = a /\ m.at = worker[a].at /\ m.job = worker[a].job
         /\ m.op = worker[a].op /\ m.report = worker[a].report
  BY <1>1 DEF Request, Message, WorkRow
<1>3. ASSUME Fits(Request(a)), worker[a].at = "report", worker[a].job = 0
      PROVE  Harmless(a, worker[a].report)
  <2>1. CASE V(a)
    <3>1. CreateReportFits(a, worker[a].report)
      BY <1>2, <1>3 DEF Fits
    <3> QED BY <2>1, <3>1, AnnouncedRejection
  <2>2. CASE ~V(a)
    BY <1>1, <1>3 DEF WorkAgrees, Harmless, AboutToCreate
  <2> QED BY <2>1, <2>2
<1> QED BY <1>1, <1>2, <1>3

\* So is a late one: if it is in time for the first contract, it is of the second.
LEMMA LateRequest ==
  ASSUME DispatchInv, NEW m \in late
  PROVE  /\ m \in Message /\ m.a \in AllocationIds /\ Truthful(m)
         /\ Fits(m) /\ m.at = "report" /\ m.job = 0 => Harmless(m.a, m.report)
<1>1. m \in Message /\ m.a \in AllocationIds /\ NodeTyped
  BY DEF DispatchInv, NodeTyped, Message
<1>2. contract[m.a] \in Late /\ Truthful(m) /\ contract[m.a] \in Contracts
  BY <1>1 DEF DispatchInv, LateAgrees, NodeTyped
<1>3. OnTime(m.a) => V(m.a)
  BY <1>2 DEF OnTime, V, Contracts
<1>4. ASSUME Fits(m), m.at = "report", m.job = 0
      PROVE  Harmless(m.a, m.report)
  <2>1. CreateReportFits(m.a, m.report)
    BY <1>4 DEF Fits
  <2>2. CASE V(m.a)
    BY <1>1, <2>1, <2>2, AnnouncedRejection
  <2>3. CASE ~OnTime(m.a)
    BY <2>3 DEF Harmless
  <2> QED BY <1>3, <2>2, <2>3
<1> QED BY <1>1, <1>2, <1>4

\* A transaction after which a's worker goes on as w.
LEMMA AnswerStep ==
  ASSUME DispatchInv, NodeKept, StoreMoves, UNCHANGED late, NEW a \in AllocationIds,
         NEW w, w \in WorkRow, Do(a, w), WorkAgrees(a, w)',
         w.at \in ToPlatform => Truthful(Sent(a, w))'
  PROVE  DispatchInv'
<1>1. worker \in [AllocationIds -> WorkRow]
  BY DEF DispatchInv, NodeTyped
<1>2. /\ worker'[a] = w /\ worker' \in [AllocationIds -> WorkRow]
      /\ \A b \in AllocationIds \ {a} : worker'[b] = worker[b]
  BY <1>1 DEF Do
<1>3. WorkerAgrees(a)'
  BY <1>2, WorkNamed
<1> QED BY <1>2, <1>3, StoreStepKeepsInv

\* The bounds of the work hold after a transaction.
LEMMA BoundsKept ==
  ASSUME DispatchInv, NodeKept, StoreMoves, NEW a \in AllocationIds
  PROVE  LET w == worker[a]
         IN /\ w.job <= stopJob'[a].number /\ stopJob'[a].number \in Nat
            /\ w.op \in 0..LastOp(a)' /\ w.seen.op \in 0..LastOp(a)' /\ 0 \in 0..LastOp(a)'
<1>1. LET w == worker[a]
      IN /\ w.job \in Nat /\ stopJob[a].number \in Nat /\ w.job <= stopJob[a].number
         /\ w.op \in 0..LastOp(a) /\ w.seen.op \in 0..LastOp(a) /\ 0 \in 0..LastOp(a)
  BY WorkBounds
<1>2. stopJob'[a].number \in Nat
  <2>1. stopJob'[a] \in [number : 0..MaxStopJobs, op : Nat]
    BY DEF StoreMoves
  <2> QED BY <2>1, DispatchAssumption
<1>3. stopJob[a].number <= stopJob'[a].number
  <2>1. StoreKeeps(a)
    BY RowsKeptAreKept DEF StoreMoves
  <2> QED BY <2>1 DEF StoreKeeps
<1>4. worker[a].job <= stopJob'[a].number
  BY <1>1, <1>2, <1>3
<1> QED BY <1>1, <1>2, <1>4, NodeSame

\* A create that is frozen and open has its attempt still holding capacity.
LEMMA OpenHolds ==
  ASSUME StoreMoves, NEW a \in AllocationIds, creates'[a].state \in Unresolved
  PROVE  allocations'[a].state \notin Released
<1>1. AttemptAgrees(a)'
  BY DEF StoreMoves, Inv
<1> QED BY <1>1 DEF AttemptAgrees, OpenJob, Starting, Released

\* After an answer the worker rests.
LEMMA RestsAfter ==
  ASSUME DispatchInv, NodeKept, StoreMoves, UNCHANGED late, NEW a \in AllocationIds, Rest(a)
  PROVE  DispatchInv'
<1>1. LastOp(a)' \in Nat /\ stopJob'[a].number \in Nat
  BY BoundsKept, JobFacts, NodeSame
<1>2. WorkAgrees(a, Idle)' /\ Idle.at \notin ToPlatform
  BY <1>1 DEF WorkAgrees, Idle, ToPlatform, AboutToCreate
<1> QED BY <1>2, IdleTyped, AnswerStep DEF Rest

\* After its preparation a create is executed: announced, called or rejected.
LEMMA ExecutesAfterPrepare ==
  ASSUME DispatchInv, NodeKept, StoreMoves, UNCHANGED late, NEW a \in AllocationIds,
         worker[a].at = "prepare", creates'[a].frozen, creates'[a].state \in Unresolved,
         Execute(a, worker[a])
  PROVE  DispatchInv'
<1> DEFINE w == worker[a]
<1>1. /\ w \in WorkRow /\ w.job = 0 /\ ~w.retrying /\ NoEffect(a)
  BY PlayFacts DEF WorkAgrees
<1>2. /\ w.job <= stopJob'[a].number /\ 0 \in 0..LastOp(a)'
      /\ w.op \in 0..LastOp(a)' /\ w.seen.op \in 0..LastOp(a)'
  BY BoundsKept
<1>3. /\ NoEffect(a)' /\ V(a)' = V(a) /\ core'[a].life = "none"
      /\ allocations'[a].state \notin Released
  BY <1>1, NodeSame, OpenHolds DEF NoEffect
<1>4. CASE ~V(a) /\ Do(a, Step(w, "call"))
  <2>1. PICK v : v = Step(w, "call")
    OBVIOUS
  <2>2. /\ v \in WorkRow /\ v.at = "call" /\ v.job = 0 /\ v.op = w.op /\ v.seen = w.seen
    BY <1>1, <2>1, StepTyped DEF ToCore
  <2>3. Do(a, v) /\ "call" \notin ToPlatform
    BY <1>4, <2>1 DEF ToPlatform
  <2>4. WorkAgrees(a, v)'
    BY <1>1, <1>2, <1>3, <1>4, <2>2 DEF WorkAgrees, AboutToCreate
  <2> QED BY <2>2, <2>3, <2>4, AnswerStep
<1>5. CASE Do(a, Step(w, "begin"))
  <2>1. PICK v : v = Step(w, "begin")
    OBVIOUS
  <2>2. /\ v \in WorkRow /\ v.at = "begin" /\ v.job = 0 /\ v.op = w.op /\ v.seen = w.seen
    BY <1>1, <2>1, StepTyped DEF ToPlatform
  <2>3. Do(a, v)
    BY <1>5, <2>1
  <2>4. WorkAgrees(a, v)'
    BY <1>1, <1>2, <1>3, <2>2 DEF WorkAgrees, AboutToCreate
  <2>5. Truthful(Sent(a, v))'
    BY <2>2 DEF Truthful, Sent
  <2> QED BY <2>2, <2>3, <2>4, <2>5, AnswerStep
<1>6. CASE Do(a, Say(w, "rejected_no_effect", {}, FALSE, 0))
  <2> DEFINE rep == Said("rejected_no_effect", {}, FALSE)
  <2>1. PICK v : v = Reporting(w, rep, 0)
    OBVIOUS
  <2>2. Do(a, v) /\ rep.state = "rejected_no_effect"
    BY <1>6, <2>1 DEF Say, Said, Reporting
  <2>3. rep \in Report
    BY ReportsTyped
  <2> HIDE DEF rep
  <2>4. /\ v \in WorkRow /\ v.at = "report" /\ v.job = 0 /\ v.op = 0 /\ v.seen = w.seen
        /\ v.report = rep
    BY <1>1, <2>1, <2>3, ReportingTyped
  <2>5. WorkAgrees(a, v)'
    BY <1>1, <1>2, <1>3, <2>4 DEF WorkAgrees, AboutToCreate
  <2>6. Truthful(Sent(a, v))'
    BY <2>3, <2>4 DEF Truthful, Sent
  <2> QED BY <2>2, <2>4, <2>5, <2>6, AnswerStep
<1> QED BY <1>1, <1>4, <1>5, <1>6 DEF Execute

\* After the durable operation start the core is called.
LEMMA CallsAfterBegin ==
  ASSUME DispatchInv, NodeKept, StoreMoves, UNCHANGED late, NEW a \in AllocationIds,
         worker[a].at = "begin",
         worker[a].job = 0 => creates'[a].frozen /\ creates'[a].state = "unknown",
         Do(a, Step(worker[a], "call"))
  PROVE  DispatchInv'
<1> DEFINE w == worker[a]
<1>1. PICK v : v = Step(w, "call")
  OBVIOUS
<1>2. /\ w \in WorkRow /\ WorkAgrees(a, w)
  BY PlayFacts
<1>3. /\ w.job <= stopJob'[a].number
      /\ w.op \in 0..LastOp(a)' /\ w.seen.op \in 0..LastOp(a)'
  BY BoundsKept
<1>4. /\ v \in WorkRow /\ v.at = "call" /\ v.job = w.job /\ v.op = w.op /\ v.seen = w.seen
      /\ v.retrying = w.retrying
  BY <1>1, <1>2, StepTyped DEF ToCore
<1>5. Do(a, v) /\ "call" \notin ToPlatform
  BY <1>1 DEF ToPlatform
<1>6. w.job = 0 => /\ creates'[a].frozen /\ creates'[a].state = "unknown"
                   /\ allocations'[a].state \notin Released
  BY OpenHolds DEF Unresolved
<1>7. w.job = 0 => /\ core[a].known \/ core[a].life = "none"
                   /\ ~w.retrying => NoEffect(a)
  BY <1>2 DEF WorkAgrees
<1>8. WorkAgrees(a, v)'
  BY <1>3, <1>4, <1>6, <1>7, NodeSame DEF WorkAgrees, AboutToCreate, Unannounced
<1> QED BY <1>4, <1>5, <1>8, AnswerStep

\* An accepted job is observed.
LEMMA ObservesAfterAccepted ==
  ASSUME DispatchInv, NodeKept, StoreMoves, UNCHANGED late, NEW a \in AllocationIds,
         worker[a].at = "report", worker[a].report.state = "accepted",
         Do(a, Step(worker[a], "observe"))
  PROVE  DispatchInv'
<1> DEFINE w == worker[a]
<1>1. PICK v : v = Step(w, "observe")
  OBVIOUS
<1>2. /\ w \in WorkRow /\ Truthful(Request(a))
  BY PlayFacts DEF ToPlatform
<1>3. /\ w.job <= stopJob'[a].number
      /\ w.op \in 0..LastOp(a)' /\ w.seen.op \in 0..LastOp(a)'
  BY BoundsKept
<1>4. /\ v \in WorkRow /\ v.at = "observe" /\ v.job = w.job /\ v.op = w.op /\ v.seen = w.seen
  BY <1>1, <1>2, StepTyped DEF ToCore
<1>5. Do(a, v) /\ "observe" \notin ToPlatform
  BY <1>1 DEF ToPlatform
<1>6. w.job # 0 => w.op # 0
  BY <1>2 DEF Truthful, Request
<1>7. WorkAgrees(a, v)'
  BY <1>3, <1>4, <1>6 DEF WorkAgrees, AboutToCreate
<1> QED BY <1>4, <1>5, <1>7, AnswerStep

\* The answer of the Store.
LEMMA AnsweredStep ==
  ASSUME DispatchInv, NEW a \in AllocationIds, Answered(a)
  PROVE  DispatchInv'
<1> DEFINE m == Request(a)
<1>1. /\ worker[a].at \in ToPlatform /\ NodeKept /\ UNCHANGED late /\ NodeTyped
  BY DEF Answered, NodeKept, DispatchInv
<1>2. /\ m \in Message /\ m.a = a /\ m.at = worker[a].at /\ m.job = worker[a].job
      /\ m.op = worker[a].op /\ m.report = worker[a].report
      /\ Truthful(m)
      /\ Fits(m) /\ m.at = "report" /\ m.job = 0 => Harmless(a, m.report)
  BY <1>1, OwnRequest
<1>3. CASE UNCHANGED vars /\ UNCHANGED stopJob /\ Rest(a)
  BY <1>1, <1>3, IdleTyped, IdleAgrees, WorkStep DEF Rest, NodeKept
<1>4. CASE Fits(m) /\ Apply(m)
  <2>1. /\ StoreMoves
        /\ m.at = "prepare" => creates'[a].frozen /\ creates'[a].state \in Unresolved
        /\ m.at = "begin" /\ m.job = 0 => creates'[a].frozen /\ creates'[a].state = "unknown"
    BY <1>1, <1>2, <1>4, ApplyMoves
  <2>2. \/ m.at = "prepare" /\ Execute(a, worker[a])
        \/ m.at = "begin" /\ Do(a, Step(worker[a], "call"))
        \/ m.at = "report" /\ m.report.state = "accepted" /\ Do(a, Step(worker[a], "observe"))
        \/ Rest(a)
    BY <1>2, <1>4 DEF Answered
  <2>3. CASE m.at = "prepare" /\ Execute(a, worker[a])
    BY <1>1, <1>2, <2>1, <2>3, ExecutesAfterPrepare
  <2>4. CASE m.at = "begin" /\ Do(a, Step(worker[a], "call"))
    BY <1>1, <1>2, <2>1, <2>4, CallsAfterBegin
  <2>5. CASE /\ m.at = "report" /\ m.report.state = "accepted"
             /\ Do(a, Step(worker[a], "observe"))
    BY <1>1, <1>2, <2>1, <2>5, ObservesAfterAccepted
  <2>6. CASE Rest(a)
    BY <1>1, <2>1, <2>6, RestsAfter
  <2> QED BY <2>2, <2>3, <2>4, <2>5, <2>6
<1> QED BY <1>3, <1>4 DEF Answered

\* An answer that is lost.
LEMMA AnswerLostStep ==
  ASSUME DispatchInv, NEW a \in AllocationIds, AnswerLost(a)
  PROVE  DispatchInv'
<1> DEFINE m == Request(a)
<1>1. /\ worker[a].at \in ToPlatform /\ NodeKept /\ UNCHANGED late
      /\ Fits(m) /\ Apply(m) /\ Rest(a)
  BY DEF AnswerLost, NodeKept
<1>2. /\ m \in Message /\ m.a = a /\ Truthful(m)
      /\ m.at = "report" /\ m.job = 0 => Harmless(a, m.report)
  BY <1>1, OwnRequest
<1>3. StoreMoves
  BY <1>1, <1>2, ApplyMoves
<1> QED BY <1>1, <1>3, RestsAfter

\* A request that is processed after its sender has given up.
LEMMA ProcessLateStep ==
  ASSUME DispatchInv, NEW m \in late, ProcessLate(m)
  PROVE  DispatchInv'
<1>1. /\ late' = late \ {m} /\ NodeKept /\ UNCHANGED worker /\ NodeTyped /\ Inv
  BY DEF ProcessLate, NodeKept, DispatchInv
<1>2. /\ m \in Message /\ m.a \in AllocationIds /\ Truthful(m)
      /\ Fits(m) /\ m.at = "report" /\ m.job = 0 => Harmless(m.a, m.report)
  BY LateRequest
<1>3. CASE Fits(m) /\ Apply(m)
  <2>1. StoreMoves
    BY <1>1, <1>2, <1>3, ApplyMoves
  <2> QED BY <1>1, <2>1, StoreStepKeepsInv DEF NodeTyped
<1>4. CASE UNCHANGED <<vars, stopJob>>
  <2>1. Inv' /\ \A b \in AllocationIds : RowsKept(b)
    BY <1>1, <1>4, NextKeepsInv DEF RowsKept, vars
  <2>2. StoreMoves
    BY <1>1, <1>4, <2>1, StopJobsKept DEF StoreMoves
  <2> QED BY <1>1, <2>2, StoreStepKeepsInv DEF NodeTyped
<1> QED BY <1>3, <1>4 DEF ProcessLate

\* The claim of a job leaves the Controller to take it up.
LEMMA ClaimJobStep ==
  ASSUME DispatchInv, NEW a \in AllocationIds, ClaimJob(a)
  PROVE  DispatchInv'
<1>1. /\ ClaimCreate(a) \/ ClaimStop(a)
      /\ NodeKept /\ UNCHANGED <<stopJob, worker, late>> /\ NodeTyped
  BY DEF ClaimJob, node, NodeKept, DispatchInv
<1>2. StoreMoves
  BY <1>1, ClaimMoves
<1> QED BY <1>1, <1>2, StoreStepKeepsInv DEF NodeTyped

-----------------------------------------------------------------------------
(* The invariant. *)

\* It holds before anything has happened.
LEMMA DispatchInitInv == DispatchInit => DispatchInv
<1> SUFFICES ASSUME DispatchInit PROVE DispatchInv
  OBVIOUS
<1>1. Inv
  BY InitInv DEF DispatchInit
<1>2. /\ 0 \in 0..MaxStopJobs /\ NoInstance \in CoreRow /\ Idle \in WorkRow
      /\ <<>> \in Seq(OpStates)
  BY DispatchAssumption, IdleTyped DEF NoInstance, CoreRow, Lives
<1>3. NodeTyped
  BY <1>2 DEF DispatchInit, NodeTyped
<1>4. ASSUME NEW a \in AllocationIds
      PROVE  PlayAgrees(a) /\ WorkerAgrees(a) /\ LateAgrees(a)
  <2>1. /\ core[a] = NoInstance /\ ops[a] = <<>> /\ worker[a] = Idle
        /\ stopJob[a].number = 0 /\ stopJob[a].op = 0 /\ ~old[a]
        /\ calls = {} /\ late = {} /\ LastOp(a) = 0
        /\ creates[a] = NoCreate /\ stops[a] = NoStop /\ allocations[a] = NoAllocation
    BY DEF DispatchInit, Init, LastOp
  <2>2. NoEffect(a) /\ core[a].life = "none" /\ ~Gone(a)
    BY <2>1 DEF NoEffect, NoInstance, Gone
  <2>3. CoreAgrees(a) /\ CreateAgrees(a) /\ ReleaseAgrees(a)
    BY <2>1, <2>2 DEF CoreAgrees, CreateAgrees, ReleaseAgrees, NoCreate, NoAllocation, Released
  <2>4. StopAgrees(a) /\ FirstStopAgrees(a)
    BY <2>1 DEF StopAgrees, FirstStopAgrees, NoStop
  <2>5. WorkerAgrees(a) /\ LateAgrees(a)
    BY <1>3, <2>1, IdleAgrees DEF WorkerAgrees, LateAgrees
  <2> QED BY <2>3, <2>4, <2>5 DEF PlayAgrees
<1> QED BY <1>1, <1>3, <1>4 DEF DispatchInv

\* Every step of the Controller, of the core and of the Store preserves it.
LEMMA DispatchNextKeepsInv == DispatchInv /\ [DispatchNext]_all => DispatchInv'
<1> SUFFICES ASSUME DispatchInv, [DispatchNext]_all PROVE DispatchInv'
  OBVIOUS
<1>1. CASE Elsewhere
  BY <1>1, ElsewhereMoves
<1>2. ASSUME NEW a \in AllocationIds, Work(a)
      PROVE  DispatchInv'
  BY <1>2, ClaimJobStep, TakeCreateStep, TakeStopStep, ReconcileActiveStep, AnsweredStep,
     CallCreateStep, ObserveCreateStep, ReadStatusStep, ReadOperationStep, CallStopStep,
     ObserveStopStep
  DEF Work
<1>3. ASSUME NEW a \in AllocationIds, Core(a)
      PROVE  DispatchInv'
  BY <1>3, CoreOwnSteps, FinishStopStep DEF Core
<1>4. CASE Trouble
  BY <1>4, AnswerLostStep, BreakOffStep, AgeStep, ProcessLateStep, IssueSessionStep,
     FinishCallStep
  DEF Trouble
<1>5. CASE UNCHANGED all
  <2>1. NodeKept /\ UNCHANGED <<worker, late, stopJob>> /\ NodeTyped /\ Inv /\ UNCHANGED vars
    BY <1>5 DEF all, node, NodeKept, DispatchInv
  <2>2. Inv' /\ \A b \in AllocationIds : RowsKept(b)
    BY <2>1, NextKeepsInv DEF RowsKept, vars
  <2>3. StoreMoves
    BY <2>1, <2>2, StopJobsKept DEF StoreMoves
  <2> QED BY <2>1, <2>3, StoreStepKeepsInv DEF NodeTyped
<1> QED BY <1>1, <1>2, <1>3, <1>4, <1>5 DEF DispatchNext

-----------------------------------------------------------------------------
(* What the invariant says of the properties. *)

\* The inductive invariant holds in every reachable state of the Store, of the
\* Controllers and of the core together.
THEOREM DispatchInvHolds == DispatchSpec => []DispatchInv
BY DispatchInitInv, DispatchNextKeepsInv, PTL DEF DispatchSpec

\* The work in memory, the core and what is under way stay within their types; an
\* observed stop operation is one the core has.
THEOREM DispatchTypes == DispatchSpec => []DispatchTypeOK
<1>1. DispatchInv => DispatchTypeOK
  <2> SUFFICES ASSUME DispatchInv PROVE DispatchTypeOK
    OBVIOUS
  <2>1. NodeTyped
    BY DEF DispatchInv
  <2>2. ASSUME NEW a \in AllocationIds
        PROVE  /\ worker[a].at \in {"idle"} \cup ToPlatform \cup ToCore
               /\ worker[a].job \in 0..stopJob[a].number
               /\ core[a].life \in {"none", "booting", "ready", "down", "doubt", "gone"}
               /\ ops[a] \in Seq({"running", "succeeded", "failed"})
               /\ stopJob[a].op \in 0..LastOp(a)
               /\ worker[a].job # 0 /\ At(a, "observe") => worker[a].op \in 1..LastOp(a)
    <3>1. /\ worker[a] \in WorkRow /\ core[a] \in CoreRow /\ ops[a] \in Seq(OpStates)
          /\ StopAgrees(a) /\ WorkAgrees(a, worker[a]) /\ LastOp(a) \in Nat
          /\ stopJob[a].number \in Nat
      BY PlayFacts, JobFacts
    <3>2. /\ worker[a].at \in {"idle"} \cup ToPlatform \cup ToCore
          /\ worker[a].job \in Nat /\ worker[a].op \in Nat
          /\ core[a].life \in {"none", "booting", "ready", "down", "doubt", "gone"}
      BY <3>1 DEF WorkRow, CoreRow, Lives
    <3>3. worker[a].job \in 0..stopJob[a].number
      BY <3>1, <3>2 DEF WorkAgrees
    <3>4. worker[a].job # 0 /\ At(a, "observe") => worker[a].op \in 1..LastOp(a)
      BY <3>1, <3>2 DEF WorkAgrees, At
    <3> QED BY <3>1, <3>2, <3>3, <3>4 DEF StopAgrees, OpStates
  <2>3. calls \subseteq AllocationIds \X (0..MaxStopJobs)
    BY <2>1 DEF NodeTyped
  <2>4. \A m \in late : m.at \in ToPlatform
    BY <2>1 DEF NodeTyped, Message
  <2> QED BY <2>2, <2>3, <2>4 DEF DispatchTypeOK
<1> QED BY <1>1, DispatchInvHolds, PTL

\* Before a v1_0_2 call can have an effect the Store knows of it, whatever is lost
\* or late: the durable operation start never comes after the call.
THEOREM EffectsAreAnnounced == DispatchSpec => []EffectIsAnnounced
<1>1. DispatchInv => EffectIsAnnounced
  <2> SUFFICES ASSUME DispatchInv, NEW a \in AllocationIds, V(a),
                      \/ core[a].life # "none" \/ <<a, 0>> \in calls
                      \/ At(a, "call") /\ worker[a].job = 0
               PROVE  creates[a].state \notin {"pending", "claimed", "rejected_no_effect"}
    BY Zenon DEF EffectIsAnnounced
  <2>1. CreateAgrees(a) /\ WorkAgrees(a, worker[a])
    BY PlayFacts
  <2> QED BY <2>1 DEF CreateAgrees, WorkAgrees, NoEffect, AboutToCreate, At, Unannounced
<1> QED BY <1>1, DispatchInvHolds, PTL

\* A stop job speaks of a stop operation of its own instance, and one reported
\* succeeded has seen the instance reclaimed, whoever has sent the report and
\* however late.
THEOREM StopsAreTrue == DispatchSpec => []StopIsTrue
<1>1. DispatchInv => StopIsTrue
  <2> SUFFICES ASSUME DispatchInv PROVE StopIsTrue
    OBVIOUS
  <2>1. \A a \in AllocationIds : StopAgrees(a)
    BY PlayFacts
  <2> QED BY <2>1 DEF StopAgrees, StopIsTrue
<1> QED BY <1>1, DispatchInvHolds, PTL

-----------------------------------------------------------------------------
(* Every step of the Controller is one the Store lets through. *)

\* What a step is to the Store.
Stored ==
  \/ Next
  \/ \E a \in AllocationIds, rep \in Report : ReportCreate(a, rep) \/ ReportStop(a, rep)
  \/ UNCHANGED vars

\* The requests that the Store processes.
LEMMA ApplyStored ==
  ASSUME NEW m, m \in Message, Truthful(m), Fits(m), Apply(m)
  PROVE  Stored
<1> DEFINE a == m.a
<1>1. a \in AllocationIds /\ m.at \in ToPlatform
  BY DEF Message
<1>2. CASE m.at = "prepare"
  BY <1>1, <1>2 DEF Apply, Stored, Next, Controller
<1>3. CASE m.at = "begin"
  <2>1. Uncertain \in Report
    BY ReportsTyped
  <2> QED BY <1>1, <1>3, <2>1 DEF Apply, Stored
<1>4. CASE m.at = "report"
  BY <1>1, <1>4 DEF Apply, Stored, Truthful
<1>5. CASE m.at = "fact"
  <2>1. /\ "instance" \in creates[a].ids /\ creates[a].state \in ClosedJob
        /\ allocations[a].state \notin Released
    BY <1>5 DEF Truthful, Fits
  <2>2. ApplyFact(a, m.report.state)
    BY <1>5 DEF Apply
  <2>3. ReportInstanceFact(a) \/ UNCHANGED vars
    BY <2>1, <2>2 DEF ApplyFact, ReportInstanceFact, vars
  <2> QED BY <1>1, <2>3 DEF Stored, Next, Controller
<1> QED BY <1>1, <1>2, <1>3, <1>4, <1>5 DEF ToPlatform

\* The steps which the Store sees, and the others leave its rows alone.
StoreStep ==
  \/ Elsewhere
  \/ \E a \in AllocationIds : ClaimJob(a) \/ Answered(a) \/ AnswerLost(a)
  \/ \E m \in late : ProcessLate(m)

\* A step which the Store sees is one of its transactions, and leaves the core alone.
LEMMA StoreStepStored ==
  ASSUME DispatchInv, StoreStep
  PROVE  Stored /\ UNCHANGED core
<1>1. CASE Elsewhere
  BY <1>1 DEF Elsewhere, Stored, Next, Player, Platform, Administrator
<1>2. ASSUME NEW a \in AllocationIds, ClaimJob(a)
      PROVE  Stored /\ UNCHANGED core
  BY <1>2 DEF ClaimJob, node, Stored, Next, Controller
<1>3. ASSUME NEW a \in AllocationIds, Answered(a) \/ AnswerLost(a)
      PROVE  Stored /\ UNCHANGED core
  <2>1. worker[a].at \in ToPlatform /\ UNCHANGED core
    BY <1>3 DEF Answered, AnswerLost
  <2>2. (Fits(Request(a)) /\ Apply(Request(a))) \/ UNCHANGED vars
    BY <1>3 DEF Answered, AnswerLost
  <2>3. Request(a) \in Message /\ Truthful(Request(a))
    BY <2>1, OwnRequest
  <2> QED BY <2>1, <2>2, <2>3, ApplyStored DEF Stored
<1>4. ASSUME NEW m \in late, ProcessLate(m)
      PROVE  Stored /\ UNCHANGED core
  <2>1. m \in Message /\ Truthful(m)
    BY LateRequest
  <2> QED BY <1>4, <2>1, ApplyStored DEF ProcessLate, Stored, vars
<1> QED BY <1>1, <1>2, <1>3, <1>4 DEF StoreStep

\* What may happen to the core of a: nothing, its one server starts, or it goes on
\* or ends.
LifeMoves(a) ==
  /\ \A b \in AllocationIds \ {a} : core'[b].life = core[b].life
  /\ \/ core'[a].life = core[a].life
     \/ /\ core[a].life = "none" /\ core'[a].life = "booting"
        /\ <<a, 0>> \in calls \/ AboutToCreate(worker[a])
     \/ /\ core[a].life \notin {"none", "gone"} /\ core'[a].life # "none"

\* The steps of the core, and those of a Controller that calls it.
LEMMA CoreStepMoves ==
  ASSUME DispatchInv, NEW a \in AllocationIds,
         Core(a) \/ CallCreate(a) \/ (\E c \in calls : FinishCall(c) /\ c[1] = a)
  PROVE  LifeMoves(a) /\ UNCHANGED vars
<1>1. /\ NodeTyped /\ core[a] \in CoreRow
      /\ CoreAgrees(a) /\ core \in [AllocationIds -> CoreRow]
      /\ (core[a].known \/ core[a].boot # "none" \/ ops[a] # <<>>) => core[a].life # "none"
  BY CoreRows DEF NodeTyped
<1>2. ASSUME NewInstance(a), ~core[a].known,
             (<<a, 0>> \in calls \/ AboutToCreate(worker[a]))
      PROVE  LifeMoves(a)
  <2>1. core[a].life = "none"
    <3>1. CASE <<a, 0>> \in calls
      BY <1>1, <1>2, <3>1 DEF CoreAgrees
    <3>2. CASE AboutToCreate(worker[a])
      BY <1>2, <3>2, AboutToCreateFacts DEF AboutToCreate, At
    <3> QED BY <1>2, <3>1, <3>2
  <2> QED BY <1>1, <1>2, <2>1, NewInstanceEffect DEF LifeMoves
<1>3. CASE UNCHANGED core /\ UNCHANGED vars
  BY <1>3 DEF LifeMoves
<1>4. CASE FinishCreate(a)
  BY <1>1, <1>4 DEF FinishCreate, LifeMoves, CoreRow, Lives
<1>5. CASE Decay(a)
  BY <1>1, <1>5 DEF Decay, LifeMoves, CoreRow, Lives
<1>6. CASE FinishStop(a)
  BY <1>1, <1>6 DEF FinishStop, LifeMoves, CoreRow, Lives
<1>7. CASE Reclaim(a)
  BY <1>1, <1>7 DEF Reclaim, LifeMoves, CoreRow, Lives
<1>8. CASE Forget(a)
  BY <1>1, <1>8 DEF Forget, LifeMoves, CoreRow, Lives
<1>9. CASE CallCreate(a)
  BY <1>2, <1>3, <1>9 DEF CallCreate, AboutToCreate, At
<1>10. CASE \E c \in calls : FinishCall(c) /\ c[1] = a
  <2>1. PICK c \in calls : FinishCall(c) /\ c[1] = a
    BY <1>10
  <2>2. c = <<a, c[2]>>
    BY <1>1, <2>1 DEF NodeTyped
  <2> QED BY <1>2, <1>3, <2>1, <2>2 DEF FinishCall
<1> QED BY <1>4, <1>5, <1>6, <1>7, <1>8, <1>9, <1>10 DEF Core

\* Every step is one the Store sees, one of the core, or neither.
LEMMA StepCases ==
  ASSUME DispatchInv, [DispatchNext]_all
  PROVE  \/ StoreStep
         \/ \E a \in AllocationIds : LifeMoves(a) /\ UNCHANGED vars
         \/ UNCHANGED <<vars, core>>
<1>1. CASE Elsewhere
  BY <1>1 DEF StoreStep
<1>2. ASSUME NEW a \in AllocationIds, Work(a)
      PROVE  \/ StoreStep \/ (LifeMoves(a) /\ UNCHANGED vars) \/ UNCHANGED <<vars, core>>
  <2>1. CASE ClaimJob(a) \/ Answered(a)
    BY <2>1 DEF StoreStep
  <2>2. CASE CallCreate(a)
    BY <2>2, CoreStepMoves
  <2>3. CASE TakeCreate(a) \/ TakeStop(a) \/ ReconcileActive(a)
    BY <2>3 DEF TakeCreate, TakeStop, ReconcileActive
  <2>4. CASE \/ ObserveCreate(a) \/ ReadStatus(a) \/ ReadOperation(a) \/ CallStop(a)
             \/ ObserveStop(a)
    BY <2>4 DEF ObserveCreate, ReadStatus, ReadOperation, CallStop, ObserveStop
  <2> QED BY <1>2, <2>1, <2>2, <2>3, <2>4 DEF Work
<1>3. ASSUME NEW a \in AllocationIds, Core(a)
      PROVE  LifeMoves(a) /\ UNCHANGED vars
  BY <1>3, CoreStepMoves
<1>4. CASE Trouble
  <2>1. CASE \E a \in AllocationIds : AnswerLost(a)
    BY <2>1 DEF StoreStep
  <2>2. CASE \E a \in AllocationIds : BreakOff(a) \/ Age(a)
    BY <2>2 DEF BreakOff, Age
  <2>3. CASE \E m \in late : ProcessLate(m)
    BY <2>3 DEF StoreStep
  <2>4. CASE IssueSession
    BY <2>4 DEF IssueSession
  <2>5. ASSUME NEW c \in calls, FinishCall(c)
        PROVE  \E a \in AllocationIds : LifeMoves(a) /\ UNCHANGED vars
    <3>1. c[1] \in AllocationIds
      BY DEF DispatchInv, NodeTyped
    <3> QED BY <2>5, <3>1, CoreStepMoves
  <2> QED BY <1>4, <2>1, <2>2, <2>3, <2>4, <2>5 DEF Trouble
<1>5. CASE UNCHANGED all
  BY <1>5 DEF all, node
<1> QED BY <1>1, <1>2, <1>3, <1>4, <1>5 DEF DispatchNext

\* The Controller, its retries, its late requests and its successors after a
\* restart are one of the Controllers that Lifecycle allows, once that module lets
\* Controllers send every report that passes validation: everything proved of
\* the Store holds with this Controller.
THEOREM StoreServesController ==
  ASSUME Reports = Report
  PROVE  DispatchSpec => Spec
<1>1. DispatchInit => Init
  BY DEF DispatchInit
<1>2. Stored => [Next]_vars
  BY DEF Stored, Next, Controller
<1>3. DispatchInv /\ [DispatchNext]_all => [Next]_vars
  BY <1>2, StepCases, StoreStepStored
<1> QED BY <1>1, <1>3, DispatchInvHolds, PTL DEF DispatchSpec, Spec

-----------------------------------------------------------------------------
(* What Server promises. *)

\* What Server sees of an attempt.
HeldAs(a) ==
  IF Occupying(a) THEN "held" ELSE IF allocations[a].state \in Released THEN "released" ELSE "free"
ServerAs(a) == IF core[a].life \in {"none", "gone"} THEN core[a].life ELSE "live"

\* A step that changes what Server sees of one attempt at most, as one of its
\* actions does.
LEMMA PromiseStep ==
  ASSUME NEW a \in AllocationIds,
         \A b \in AllocationIds \ {a} :
           HeldAs(b)' = HeldAs(b) /\ ServerAs(b)' = ServerAs(b),
         \/ HeldAs(a) = "free" /\ HeldAs(a)' = "held" /\ ServerAs(a)' = ServerAs(a)
         \/ /\ HeldAs(a) = "held" /\ HeldAs(a)' = "held"
            /\ ServerAs(a) = "none" /\ ServerAs(a)' = "live"
         \/ HeldAs(a)' = HeldAs(a) /\ ServerAs(a) = "live" /\ ServerAs(a)' = "gone"
         \/ /\ HeldAs(a) = "held" /\ HeldAs(a)' = "released"
            /\ ServerAs(a) # "live" /\ ServerAs(a)' = ServerAs(a)
         \/ HeldAs(a)' = HeldAs(a) /\ ServerAs(a)' = ServerAs(a)
  PROVE  [Promise!Next]_Promise!vars
<1> DEFINE h  == [b \in AllocationIds |-> HeldAs(b)]
           s  == [b \in AllocationIds |-> ServerAs(b)]
           hh == [b \in AllocationIds |-> HeldAs(b)']
           ss == [b \in AllocationIds |-> ServerAs(b)']
<1>1. /\ hh = [h EXCEPT ![a] = HeldAs(a)'] /\ ss = [s EXCEPT ![a] = ServerAs(a)']
      /\ h[a] = HeldAs(a) /\ s[a] = ServerAs(a)
      /\ HeldAs(a)' = HeldAs(a) => hh = h
      /\ ServerAs(a)' = ServerAs(a) => ss = s
  OBVIOUS
<1>2. \/ h[a] = "free" /\ hh = [h EXCEPT ![a] = "held"] /\ ss = s
      \/ h[a] = "held" /\ s[a] = "none" /\ ss = [s EXCEPT ![a] = "live"] /\ hh = h
      \/ s[a] = "live" /\ ss = [s EXCEPT ![a] = "gone"] /\ hh = h
      \/ h[a] = "held" /\ s[a] # "live" /\ hh = [h EXCEPT ![a] = "released"] /\ ss = s
      \/ hh = h /\ ss = s
  <2> HIDE DEF h, s, hh, ss
  <2> QED BY <1>1
<1> QED
  BY <1>2
  DEF Promise!Next, Promise!vars, Promise!Hold, Promise!Start, Promise!End, Promise!Release,
      HeldAs, ServerAs

\* No request of the first contract is late.
NoneLate == "legacy_v1" \notin Late

\* How a transaction moves the capacity of the attempts: of one at most, from free
\* to held or from held to given back.
HeldMoves(a) ==
  /\ \A b \in AllocationIds \ {a} : allocations'[b] = allocations[b]
  /\ \/ allocations'[a] = allocations[a]
     \/ allocations[a] = NoAllocation /\ allocations'[a].state \in OccupyingStates
     \/ /\ allocations[a].state \in OccupyingStates
        /\ allocations'[a].state \in OccupyingStates \cup Released

\* A step about one attempt moves its capacity alone.
LEMMA StepOfHolds ==
  ASSUME Inv, NEW a \in AllocationIds, StepOf(a)
  PROVE  HeldMoves(a)
<1>1. allocations[a].state \in OccupyingStates \cup Released
  BY AttemptFacts DEF Inv, StepOf, TypeOK, AllocationRow
<1>2. \A b \in AllocationIds \ {a} : allocations'[b] = allocations[b]
  BY DEF StepOf, Touches
<1> QED BY <1>1, <1>2 DEF StepOf, Stays, HeldMoves

\* Every transaction does.
LEMMA StoredHolds ==
  ASSUME Inv, Stored
  PROVE  UNCHANGED allocations \/ \E a \in AllocationIds : HeldMoves(a)
<1>1. CASE Next
  <2>1. CASE \E a \in AllocationIds : StepOf(a)
    BY <2>1, StepOfHolds
  <2>2. CASE (\E r \in RequestIds : RequestStep(r)) \/ NoStep
    BY <2>2 DEF RequestStep, NoStep
  <2>3. ASSUME NEW a \in AllocationIds, NEW r \in RequestIds, NEW n \in Nodes,
               ReserveFor(a, r, n)
        PROVE  HeldMoves(a)
    <3>1. Reserved(a, r, n)
      BY <2>3, ReserveRows DEF Inv
    <3> QED BY <3>1 DEF Reserved, HeldMoves, OccupyingStates, Starting
  <2> QED BY <1>1, <2>1, <2>2, <2>3, NextCases
<1>2. ASSUME NEW a \in AllocationIds, NEW rep \in Report,
             ReportCreate(a, rep) \/ ReportStop(a, rep)
      PROVE  HeldMoves(a)
  BY <1>2, ReportCreateStep, ReportStopStep, StepOfHolds
<1> QED BY <1>1, <1>2 DEF Stored, vars

\* A transaction keeps the promise: by the invariant, capacity that is given back
\* is that of a server which is gone or never was.
LEMMA StoredKeepsPromise ==
  ASSUME NoneLate, DispatchInv, DispatchInv', Stored, UNCHANGED core
  PROVE  [Promise!Next]_Promise!vars
<1>1. \A b \in AllocationIds :
        /\ ServerAs(b)' = ServerAs(b)
        /\ allocations'[b] = allocations[b] => HeldAs(b)' = HeldAs(b)
  BY DEF ServerAs, HeldAs, Occupying
<1>2. CASE UNCHANGED allocations
  <2>1. \A b \in AllocationIds : HeldAs(b)' = HeldAs(b) /\ ServerAs(b)' = ServerAs(b)
    BY <1>1, <1>2
  <2> QED BY <2>1 DEF Promise!vars, HeldAs, ServerAs
<1>3. ASSUME NEW a \in AllocationIds, HeldMoves(a)
      PROVE  [Promise!Next]_Promise!vars
  <2>1. /\ \A b \in AllocationIds \ {a} : HeldAs(b)' = HeldAs(b) /\ ServerAs(b)' = ServerAs(b)
        /\ ServerAs(a)' = ServerAs(a)
    BY <1>1, <1>3 DEF HeldMoves
  <2>2. HeldAs(a)' = "released" => ServerAs(a) # "live"
    <3>1. ASSUME allocations'[a].state \in Released
          PROVE  core[a].life \in {"none", "gone"}
      <4>1. ReleaseAgrees(a)'
        BY DEF DispatchInv, PlayAgrees
      <4> QED BY <3>1, <4>1 DEF ReleaseAgrees, Gone, NoEffect, NoneLate, OnTime
    <3> QED BY <3>1 DEF HeldAs, ServerAs
  <2>3. \/ HeldAs(a)' = HeldAs(a)
        \/ HeldAs(a) = "free" /\ HeldAs(a)' = "held"
        \/ HeldAs(a) = "held" /\ HeldAs(a)' = "released"
    BY <1>1, <1>3, StatesDisjoint DEF HeldMoves, HeldAs, Occupying, NoAllocation, Released
  <2> QED BY <2>1, <2>2, <2>3, PromiseStep
<1> QED BY <1>2, <1>3, StoredHolds DEF DispatchInv

\* A step of the core keeps it: a server that starts, however late the call, finds
\* its capacity held.
LEMMA CoreKeepsPromise ==
  ASSUME NoneLate, DispatchInv, NEW a \in AllocationIds, LifeMoves(a), UNCHANGED vars
  PROVE  [Promise!Next]_Promise!vars
<1>1. /\ \A b \in AllocationIds : HeldAs(b)' = HeldAs(b)
      /\ \A b \in AllocationIds \ {a} : ServerAs(b)' = ServerAs(b)
  BY DEF vars, HeldAs, Occupying, LifeMoves, ServerAs
<1>2. ASSUME core[a].life = "none", <<a, 0>> \in calls \/ AboutToCreate(worker[a])
      PROVE  HeldAs(a) = "held"
  <2>1. /\ CreateAgrees(a) /\ ReleaseAgrees(a) /\ WorkAgrees(a, worker[a])
        /\ TypeOK /\ RowsAgree
    BY PlayFacts DEF Inv
  <2>2. allocations[a].state \notin Released
    BY <1>2, <2>1 DEF ReleaseAgrees, WorkAgrees, AboutToCreate, NoEffect, Gone, NoneLate, OnTime
  <2>3. creates[a].frozen
    BY <1>2, <2>1 DEF CreateAgrees, WorkAgrees, AboutToCreate, NoEffect
  <2>4. allocations[a].state # "none"
    BY <2>1, <2>3 DEF RowsAgree, NoCreate
  <2>5. allocations[a].state \in OccupyingStates
    BY <2>1, <2>2, <2>4 DEF TypeOK, AllocationRow
  <2> QED BY <2>5 DEF HeldAs, Occupying
<1>3. \/ ServerAs(a)' = ServerAs(a)
      \/ HeldAs(a) = "held" /\ ServerAs(a) = "none" /\ ServerAs(a)' = "live"
      \/ ServerAs(a) = "live" /\ ServerAs(a)' = "gone"
  BY <1>2 DEF LifeMoves, ServerAs
<1> QED BY <1>1, <1>3, PromiseStep

\* The Platform and the Controllers keep Server's promise, whatever is lost,
\* retried, repeated by a successor or forgotten by the core, as long as no late
\* request of the first contract is processed: an attempt's server starts once and
\* while its capacity is held, and the capacity is given back only when no server
\* of the attempt lives or can come to life.
THEOREM ServersArePromised ==
  ASSUME NoneLate
  PROVE  DispatchSpec => ServerPromise
<1>1. DispatchInit => Promise!Init
  <2> SUFFICES ASSUME DispatchInit PROVE Promise!Init
    OBVIOUS
  <2>1. \A a \in AllocationIds : allocations[a] = NoAllocation /\ core[a] = NoInstance
    BY DEF DispatchInit, Init
  <2> QED
    BY <2>1
    DEF Promise!Init, Occupying, NoAllocation, NoInstance, Released, OccupyingStates, Starting
<1>2. DispatchInv /\ DispatchInv' /\ [DispatchNext]_all => [Promise!Next]_Promise!vars
  <2> SUFFICES ASSUME DispatchInv, DispatchInv', [DispatchNext]_all
               PROVE  [Promise!Next]_Promise!vars
    OBVIOUS
  <2>1. CASE UNCHANGED <<vars, core>>
    BY <2>1, StoredKeepsPromise DEF Stored
  <2> QED BY <2>1, StepCases, StoreStepStored, StoredKeepsPromise, CoreKeepsPromise
<1> QED BY <1>1, <1>2, DispatchInvHolds, PTL DEF DispatchSpec, ServerPromise, Promise!Spec

-----------------------------------------------------------------------------
(* What follows for the nodes. *)

\* The servers that live on node n, whatever the Store believes of them.
Alive(a)    == core[a].life \notin {"none", "gone"}
ServersOn(n) == {a \in AllocationIds : Alive(a) /\ allocations[a].node = n}

\* A server that lives holds capacity of the node it was reserved on.
LEMMA AliveIsHeld ==
  ASSUME DispatchInv, NEW a \in AllocationIds, Alive(a), OnTime(a)
  PROVE  Occupying(a)
<1>1. CreateAgrees(a) /\ ReleaseAgrees(a) /\ TypeOK /\ RowsAgree
  BY PlayFacts DEF Inv
<1>2. creates[a].frozen /\ allocations[a].state \notin Released
  BY <1>1 DEF Alive, CreateAgrees, ReleaseAgrees, NoEffect, Gone
<1>3. allocations[a].state # "none"
  BY <1>1, <1>2 DEF RowsAgree, NoCreate
<1> QED BY <1>1, <1>2, <1>3 DEF TypeOK, AllocationRow, Occupying

\* Of an attempt that no late request can be about, no server lives whose capacity
\* the Platform does not count, with late calls and after restarts of the
\* Controller too; of one under the second contract none, whatever is late.
THEOREM NoServerStrays ==
  DispatchSpec => [](\A a \in AllocationIds : OnTime(a) /\ Alive(a) => Occupying(a))
<1>1. DispatchInv => \A a \in AllocationIds : OnTime(a) /\ Alive(a) => Occupying(a)
  BY AliveIsHeld
<1> QED BY <1>1, DispatchInvHolds, PTL

\* The servers on a node of attempts under the second contract never exceed the
\* hard maximum, whatever is late, and if no request of the first contract is
\* processed late, all its servers together do not.  It needs the Store's count
\* of attempts, the promise of the Controller that an uncounted attempt has no
\* server, and that one attempt has one server.  Hard[n] is constant: the
\* heartbeats of n never report a lower maximum than before.
THEOREM ServersWithinHardMaximum ==
  ASSUME Reports = Report
  PROVE  DispatchSpec =>
           [](\A n \in Nodes : Cardinality({a \in ServersOn(n) : OnTime(a)}) <= Hard[n])
<1>1. DispatchInv /\ CapacityRespected =>
        \A n \in Nodes : Cardinality({a \in ServersOn(n) : OnTime(a)}) <= Hard[n]
  <2> SUFFICES ASSUME DispatchInv, CapacityRespected, NEW n \in Nodes
               PROVE  Cardinality({a \in ServersOn(n) : OnTime(a)}) <= Hard[n]
    OBVIOUS
  <2> DEFINE S == {a \in ServersOn(n) : OnTime(a)}
  <2>1. S \subseteq Occupants(n)
    BY AliveIsHeld DEF ServersOn, Occupants
  <2>2. IsFiniteSet(Occupants(n)) /\ Cardinality(Occupants(n)) \in Nat
    BY OccupantsFinite
  <2> HIDE DEF S
  <2>3. Cardinality(S) <= Cardinality(Occupants(n)) /\ Cardinality(S) \in Nat
    BY <2>1, <2>2, FS_Subset, FS_CardinalityType
  <2>4. Cardinality(Occupants(n)) <= Hard[n] /\ Hard[n] \in Nat
    BY LifecycleAssumption DEF CapacityRespected
  <2>5. Cardinality(S) <= Hard[n]
    BY <2>2, <2>3, <2>4
  <2> QED BY <2>5 DEF S
<1> QED BY <1>1, DispatchInvHolds, StoreServesController, WithinCapacity, PTL
=============================================================================
