------------------------------ MODULE Dispatch ------------------------------
(***************************************************************************)
(* The Node Controller between the Platform's Store and the local core.    *)
(*                                                                         *)
(* The Store half is Lifecycle itself: every request of the Controller is  *)
(* one of Lifecycle's transactions, applied only if the Store's checks let *)
(* it through.  This module adds the Controller's work on a job, remote    *)
(* step by remote step, what the core keeps under the job's idempotency    *)
(* key, and what can go wrong in between: an answer that is lost, a        *)
(* request or a core call that is still under way when the Controller has  *)
(* given up on it or has died, a capability session that is replaced, and  *)
(* a core that has forgotten an old key.                                   *)
(*                                                                         *)
(* A Controller keeps nothing but the work of the running cycle, so its    *)
(* death is that of its workers: each of them just gives up.  A cycle      *)
(* handles a job once and waits for its workers; the next one reads the    *)
(* jobs again, and an attempt has one unresolved job at a time, so that an *)
(* attempt has one worker.                                                 *)
(***************************************************************************)
EXTENDS Lifecycle, Sequences

CONSTANTS
  Late,        \* contracts whose requests may be processed after the sender gave up
  MaxFaults,   \* bound: faults and delays in a behaviour
  MaxStopJobs, \* bound: stop jobs of one attempt, the one a failed create adds included
  MaxOps       \* bound: stop operations of one instance

Contracts == {"legacy_v1", "v1_0_2"}

ASSUME DispatchAssumption ==
  /\ Late \subseteq Contracts
  /\ MaxFaults \in Nat /\ MaxStopJobs \in Nat \ {0} /\ MaxOps \in Nat
  /\ ~V102    \* the contract is told apart per attempt here

VARIABLES
  contract,  \* contract[a]: required_capability of a's jobs
  core,      \* core[a]: the instance the core keeps under a's key
  ops,       \* ops[a]: status of the stop operations on that instance, in order
  worker,    \* worker[a]: what the Controller is doing for a
  calls,     \* core calls under way that nobody waits for
  late,      \* requests to the Platform under way that nobody waits for
  stopJob,   \* stopJob[a]: number of a's latest stop job and the operation in it
  old,       \* old[a]: a's create was prepared about as long ago as the core remembers
  faults     \* how many faults there have been

node == <<contract, core, ops, worker, calls, late, stopJob, old, faults>>
all  == <<vars, node>>

-----------------------------------------------------------------------------
(* Rows and records. *)

NoReport   == [state |-> "none", ids |-> {}, untrusted |-> FALSE]
NoInstance == [life |-> "none", known |-> FALSE, boot |-> "none"]

\* at is the remote step that comes next, job 0 the create job and otherwise the
\* number of the stop job, op the operation to report, seen what status showed.
Idle == [at |-> "idle", job |-> 0, retrying |-> FALSE, report |-> NoReport, op |-> 0,
         seen |-> [life |-> "none", op |-> 0]]

ToPlatform == {"prepare", "begin", "report", "fact"}
ToCore     == {"call", "observe", "status", "operation"}

At(a, step)   == worker[a].at = step
Do(a, w)      == worker' = [worker EXCEPT ![a] = w]
Rest(a)       == Do(a, Idle)
Step(w, s)    == [w EXCEPT !.at = s]
Say(w, s, ids, untrusted, op) ==
  [w EXCEPT !.at = "report", !.op = op,
            !.report = [state |-> s, ids |-> ids, untrusted |-> untrusted]]

V(a)  == contract[a] = "v1_0_2"
Fault == faults < MaxFaults /\ faults' = faults + 1
Calm  == UNCHANGED faults

LastOp(a) == Len(ops[a])
Gone(a)   == core[a].life = "gone"

-----------------------------------------------------------------------------
(* The core, as the Controller relies on it. *)

\* A key the core does not know starts an instance, or is rejected.
NewInstance(a) ==
  core' = [core EXCEPT ![a] = [life |-> "booting", known |-> TRUE, boot |-> "running"]]

FinishCreate(a) ==
  /\ core[a].boot = "running"
  /\ core[a].life # "gone"
  /\ \E end \in {<<"succeeded", "ready">>, <<"failed", "down">>} :
       core' = [core EXCEPT ![a].boot = end[1],
                            ![a].life = IF @ = "booting" THEN end[2] ELSE @]
  /\ UNCHANGED <<vars, contract, ops, worker, calls, late, stopJob, old, faults>>

\* A server crashes, or its process can no longer be identified.
Decay(a) ==
  /\ core[a].life \in {"booting", "ready"} /\ core[a].boot # "running"
  /\ \E life \in {"down", "doubt"} : core' = [core EXCEPT ![a].life = life]
  /\ UNCHANGED <<vars, contract, ops, worker, calls, late, stopJob, old, faults>>

\* An operation that fails may still have reclaimed everything, and one that
\* succeeds may leave the cleanup for later.
FinishStop(a) ==
  /\ ops[a] # <<>> /\ ops[a][LastOp(a)] = "running"
  /\ \E end \in {"succeeded", "failed"}, life \in {"gone", "down"} :
       /\ ops' = [ops EXCEPT ![a][LastOp(a)] = end]
       /\ core' = [core EXCEPT ![a].life = IF @ = "gone" THEN @ ELSE life,
                               ![a].boot = IF @ = "running" THEN "failed" ELSE @]
  /\ UNCHANGED <<vars, contract, worker, calls, late, stopJob, old, faults>>

\* The cleanup of a dead server completes.
Reclaim(a) ==
  /\ core[a].life = "down" /\ core[a].boot # "running"
  /\ core' = [core EXCEPT ![a].life = "gone"]
  /\ UNCHANGED <<vars, contract, ops, worker, calls, late, stopJob, old, faults>>

\* The history of a reclaimed instance expires.  The Controller stops using a key
\* an hour earlier, much longer than any call is under way.
Forget(a) ==
  /\ Gone(a) /\ core[a].known /\ old[a]
  /\ worker[a].at \notin {"begin", "call"} /\ <<a, 0>> \notin calls
  /\ core' = [core EXCEPT ![a].known = FALSE]
  /\ UNCHANGED <<vars, contract, ops, worker, calls, late, stopJob, old, faults>>

Age(a) ==
  /\ creates[a].frozen /\ ~old[a]
  /\ old' = [old EXCEPT ![a] = TRUE]
  /\ UNCHANGED <<vars, contract, core, ops, worker, calls, late, stopJob, faults>>

-----------------------------------------------------------------------------
(* Requests the Store processes: the worker's own, or a late one. *)

Request(a) == [a |-> a, at |-> worker[a].at, job |-> worker[a].job,
               report |-> worker[a].report, op |-> worker[a].op]

StartedDurably(a, job, report) ==
  V(a) /\ job.state = "claimed" => report.state \notin {"accepted", "succeeded"}

\* reportJob and BeginOperation accept the request.
Fits(m) ==
  LET a == m.a
  IN \/ /\ m.at = "prepare"
        /\ creates[a].state \in Unresolved
     \/ /\ m.at = "begin" /\ m.job = 0
        /\ creates[a].state \in {"claimed", "unknown"}
        /\ creates[a].frozen /\ creates[a].ids = {}
     \/ /\ m.at = "begin" /\ m.job # 0
        /\ m.job = stopJob[a].number
        /\ stops[a].state \in {"claimed", "unknown"} /\ stopJob[a].op = 0
     \/ /\ m.at = "report" /\ m.job = 0
        /\ CreateReportFits(a, m.report)
        /\ StartedDurably(a, creates[a], m.report)
     \/ /\ m.at = "report" /\ m.job # 0
        /\ m.job = stopJob[a].number
        /\ ReportFits(stops[a], m.report)
        /\ m.op # 0 => stopJob[a].op \in {0, m.op}
        /\ StartedDurably(a, stops[a], m.report)
     \/ /\ m.at = "fact"
        /\ allocations[a].state \notin Released

\* A stop job added by this step is a's latest.
Renumber ==
  stopJob' = [a \in AllocationIds |->
    IF stops'[a] = NewStop /\ stops[a] # NewStop
      THEN [number |-> stopJob[a].number + 1, op |-> 0] ELSE stopJob[a]]

Uncertain == [state |-> "unknown", ids |-> {}, untrusted |-> FALSE]

ApplyFact(a, outcome) ==
  /\ \/ outcome = "reclaimed" /\ ReclaimedFact(a)
     \/ outcome = "failed" /\ FailedFact(a)
     \/ /\ outcome = "failed" /\ allocations[a].state \in {"quarantined", "stopping"}
        /\ UNCHANGED <<requests, allocations, stops, intents>>
     \/ outcome = "identity_unverified" /\ DriftedFact(a)
  /\ UNCHANGED <<creates, nodes, catalog>>

\* The transaction; an operation start repeated on an unknown job changes nothing.
Apply(m) ==
  LET a == m.a
  IN \/ /\ m.at = "prepare"
        /\ PrepareCreate(a)
        /\ UNCHANGED stopJob
     \/ /\ m.at = "begin"
        /\ \/ m.job = 0 /\ creates[a].state = "claimed" /\ ReportCreate(a, Uncertain)
           \/ m.job # 0 /\ stops[a].state = "claimed" /\ ReportStop(a, Uncertain)
           \/ /\ (IF m.job = 0 THEN creates[a].state ELSE stops[a].state) = "unknown"
              /\ UNCHANGED vars
        /\ UNCHANGED stopJob
     \/ /\ m.at = "report" /\ m.job = 0
        /\ ReportCreate(a, m.report)
        /\ Renumber
     \/ /\ m.at = "report" /\ m.job # 0
        /\ ReportStop(a, m.report)
        /\ stopJob' = IF m.op = 0 THEN stopJob ELSE [stopJob EXCEPT ![a].op = m.op]
     \/ /\ m.at = "fact"
        /\ ApplyFact(a, m.report.state)
        /\ Renumber

-----------------------------------------------------------------------------
(* The Controller's work on a create job. *)

ClaimJob(a) ==
  /\ At(a, "idle")
  /\ ClaimCreate(a) \/ ClaimStop(a)
  /\ UNCHANGED node

\* Faulty: an old key is used again.
AlwaysWithinHistory(a) == TRUE

WithinHistory(a) == ~old[a]

\* Faulty: the core is called without the durable operation start.
ExecuteUnannounced(a, w) ==
  Do(a, Step(w, "call")) /\ Calm

\* The frozen request is about to be executed.  A v1_0_2 job first proves the local
\* files again: until the core may have been called, a mismatch rejects the job.
Execute(a, w) ==
  \/ ~V(a) /\ Do(a, Step(w, "call")) /\ Calm
  \/ V(a) /\ Do(a, Step(w, "begin")) /\ Calm
  \/ /\ V(a) /\ ~w.retrying
     /\ Do(a, Say(w, "rejected_no_effect", {}, FALSE, 0)) /\ Calm
  \/ /\ V(a) /\ w.retrying /\ creates[a].state = "claimed"
     /\ Do(a, Say(w, "unknown", {}, FALSE, 0)) /\ Fault

\* A job that is frozen when it is taken may already have reached the core.  One
\* that was sent is observed, but not while it lacks one of the core's ids.
TakeCreate(a) ==
  LET job  == creates[a]
      w    == [Idle EXCEPT !.retrying = job.frozen]
      sent == job.state = "accepted" \/ (job.state = "unknown" /\ "operation" \in job.ids)
  IN /\ At(a, "idle")
     /\ job.state \in Unresolved
     /\ \/ sent /\ job.ids = CoreIds /\ Do(a, Step(w, "observe")) /\ Calm
        \/ ~sent /\ ~job.frozen /\ Do(a, Step(w, "prepare")) /\ Calm
        \/ /\ ~sent /\ ~job.frozen
           /\ Do(a, Say(w, "rejected_no_effect", {}, FALSE, 0)) /\ Calm
        \/ ~sent /\ job.frozen /\ WithinHistory(a) /\ Execute(a, w)
        \/ /\ ~sent /\ job.frozen /\ ~WithinHistory(a) /\ job.state = "claimed"
           /\ Do(a, Say(w, "unknown", {}, FALSE, 0)) /\ Calm
     /\ UNCHANGED <<vars, contract, core, ops, calls, late, stopJob, old>>

\* Only the first call of a legacy job may be rejected without effect.
RejectionCounts(a, w) == ~V(a) /\ ~w.retrying

CallCreate(a) ==
  LET w == worker[a]
  IN /\ At(a, "call") /\ w.job = 0
     /\ \/ /\ IF core[a].known THEN UNCHANGED core ELSE NewInstance(a)
           /\ \/ Do(a, Say(w, "accepted", CoreIds, FALSE, 0)) /\ Calm
              \/ \E ids \in SUBSET CoreIds : Do(a, Say(w, "unknown", ids, FALSE, 0)) /\ Fault
        \/ /\ ~core[a].known /\ UNCHANGED core
           /\ \/ /\ RejectionCounts(a, w)
                 /\ Do(a, Say(w, "rejected_no_effect", {}, FALSE, 0)) /\ Calm
              \/ /\ ~RejectionCounts(a, w)
                 /\ Do(a, Say(w, "unknown", {}, FALSE, 0)) /\ Fault
     /\ UNCHANGED <<vars, contract, ops, calls, late, stopJob, old>>

\* operation, then status: an operation that has ended stays as it ended.
ObserveCreate(a) ==
  LET w    == worker[a]
      life == core[a].life
  IN /\ At(a, "observe") /\ w.job = 0
     /\ \/ /\ V(a)                                      \* the local files have drifted
           /\ Do(a, Say(w, "unknown", CoreIds, FALSE, 0)) /\ Fault
        \/ /\ ~core[a].known \/ (core[a].boot = "succeeded" /\ life = "doubt")
           /\ Do(a, Say(w, "failed_with_effect", CoreIds, TRUE, 0)) /\ Calm
        \/ /\ core[a].known
           /\ core[a].boot = "failed" \/ (core[a].boot = "succeeded" /\ life \in {"down", "gone"})
           /\ Do(a, Say(w, "failed_with_effect", CoreIds, FALSE, 0)) /\ Calm
        \/ /\ core[a].known /\ core[a].boot = "succeeded" /\ life = "ready"
           /\ Do(a, Say(w, "succeeded", CoreIds, FALSE, 0)) /\ Calm
        \/ /\ core[a].known /\ core[a].boot = "running"
           /\ Rest(a) /\ Calm
     /\ UNCHANGED <<vars, contract, core, ops, calls, late, stopJob, old>>

-----------------------------------------------------------------------------
(* The Controller's work on a stop job. *)

\* Faulty: a stop under way is always looked at through its operation, known or not.
TakeStopObserving(a) ==
  /\ At(a, "idle")
  /\ stops[a].state \in Unresolved
  /\ Do(a, [Idle EXCEPT !.at = "observe", !.job = stopJob[a].number, !.op = LastOp(a)])
  /\ UNCHANGED <<vars, contract, core, ops, calls, late, stopJob, old, faults>>

TakeStop(a) ==
  LET job == stops[a]
      w   == [Idle EXCEPT !.job = stopJob[a].number]
  IN /\ At(a, "idle")
     /\ job.state \in Unresolved
     /\ IF job.state = "accepted" \/ (job.state = "unknown" /\ stopJob[a].op # 0)
          THEN Do(a, [Step(w, "observe") EXCEPT !.op = stopJob[a].op])
          ELSE Do(a, Step(w, "status"))
     /\ UNCHANGED <<vars, contract, core, ops, calls, late, stopJob, old, faults>>

Failed(a) == Say(worker[a], "failed_with_effect", {"instance"}, FALSE, worker[a].op)

ReadStatus(a) ==
  /\ At(a, "status")
  /\ \/ /\ ~core[a].known \/ core[a].life = "doubt"
        /\ Do(a, Failed(a))
     \/ /\ core[a].known
        /\ Do(a, [Step(worker[a], "operation") EXCEPT
                    !.seen = [life |-> core[a].life, op |-> LastOp(a)]])
  /\ UNCHANGED <<vars, contract, core, ops, calls, late, stopJob, old, faults>>

\* Faulty: takes the operation for a stop whatever it is.
AdoptsAnything(a) == worker[a].seen.life = "gone"

\* A stop under way in the core, or one that has reclaimed the instance, is adopted.
Adopts(a) ==
  LET seen == worker[a].seen
  IN seen.op # 0 /\ (ops[a][seen.op] = "running" \/ seen.life = "gone")

ReadOperation(a) ==
  LET w == worker[a]
  IN /\ At(a, "operation")
     /\ \/ /\ Adopts(a)
           /\ Do(a, Say(w, "accepted", CoreIds, FALSE, w.seen.op))
        \/ /\ ~Adopts(a)
           /\ Do(a, Step(w, IF V(a) THEN "begin" ELSE "call"))
     /\ UNCHANGED <<vars, contract, core, ops, calls, late, stopJob, old, faults>>

\* Which operation a stop call is answered with: the one under way, a new one, or,
\* until its worker is torn down, one that has ended.
NewStopOp(a) ==
  /\ LastOp(a) < MaxOps
  /\ ops' = [ops EXCEPT ![a] = Append(@, IF Gone(a) THEN "succeeded" ELSE "running")]
StopOpRuns(a) == LastOp(a) # 0 /\ ops[a][LastOp(a)] = "running"

\* The answer repeats an operation the job has already seen end: not this job's.
StopAnswered(a, op) ==
  IF op = worker[a].seen.op THEN Say(worker[a], "unknown", {"instance"}, FALSE, 0)
                            ELSE Say(worker[a], "accepted", CoreIds, FALSE, op)

CallStop(a) ==
  LET w == worker[a]
  IN /\ At(a, "call") /\ w.job # 0
     /\ \/ /\ core[a].known /\ StopOpRuns(a) /\ UNCHANGED ops
           /\ Do(a, StopAnswered(a, LastOp(a))) /\ Calm
        \/ /\ core[a].known /\ ~StopOpRuns(a) /\ NewStopOp(a)
           /\ Do(a, StopAnswered(a, LastOp(a) + 1)) /\ Calm
        \/ /\ core[a].known /\ ~StopOpRuns(a) /\ LastOp(a) # 0 /\ UNCHANGED ops
           /\ Do(a, StopAnswered(a, LastOp(a))) /\ Fault
        \/ /\ UNCHANGED ops                   \* identity, cleanup or stop failure
           /\ Do(a, Failed(a)) /\ Fault
        \/ /\ ~core[a].known /\ UNCHANGED ops
           /\ Do(a, Failed(a)) /\ Calm
     /\ UNCHANGED <<vars, contract, core, calls, late, stopJob, old>>

\* Faulty: an instance the core does not know any more is waited for.
ObserveStopWaiting(a) ==
  LET w  == worker[a]
      op == ops[a][w.op]
  IN /\ At(a, "observe") /\ w.job # 0
     /\ \/ /\ ~core[a].known \/ op = "running" \/ (op = "succeeded" /\ ~Gone(a))
           /\ Rest(a)
        \/ /\ core[a].known /\ op # "running" /\ Gone(a)
           /\ Do(a, Say(w, "succeeded", CoreIds, FALSE, w.op))
        \/ /\ core[a].known /\ op # "running" /\ ~Gone(a)
           /\ Do(a, Failed(a))
     /\ UNCHANGED <<vars, contract, core, ops, calls, late, stopJob, old, faults>>

ObserveStop(a) ==
  LET w  == worker[a]
      op == ops[a][w.op]
  IN /\ At(a, "observe") /\ w.job # 0
     /\ \/ core[a].known /\ op = "running" /\ Rest(a)
        \/ /\ core[a].known /\ op # "running" /\ Gone(a)
           /\ Do(a, Say(w, "succeeded", CoreIds, FALSE, w.op))
        \/ /\ ~core[a].known \/ (op # "running" /\ ~Gone(a))
           /\ Do(a, Failed(a))
        \/ core[a].known /\ op = "succeeded" /\ ~Gone(a) /\ Rest(a)
     /\ UNCHANGED <<vars, contract, core, ops, calls, late, stopJob, old, faults>>

-----------------------------------------------------------------------------
(* Attempts without an open job: the instance's own facts. *)

\* Faulty: a server whose creation failed is left alone.
OutcomeWhenReady(a) ==
  IF core[a].life = "gone" /\ core[a].boot = "succeeded" THEN "reclaimed" ELSE "active"

Outcome(a) ==
  CASE ~core[a].known \/ core[a].life = "doubt" -> "identity_unverified"
    [] core[a].known /\ core[a].life = "gone"   -> "reclaimed"
    [] core[a].known /\ core[a].life = "down"   -> "failed"
    [] OTHER                                    -> "active"

ReconcileActive(a) ==
  /\ At(a, "idle")
  /\ "instance" \in creates[a].ids
  /\ allocations[a].state \notin Released
  /\ creates[a].state \notin OpenJob /\ stops[a].state \notin OpenJob
  /\ Outcome(a) # "active"
  /\ Do(a, [Step(Idle, "fact") EXCEPT !.report.state = Outcome(a)])
  /\ UNCHANGED <<vars, contract, core, ops, calls, late, stopJob, old, faults>>

-----------------------------------------------------------------------------
(* Sending, waiting, giving up. *)

\* The Store answers.  A conflict ends the work; so does the last report.
Answered(a) ==
  LET m == Request(a)
  IN /\ worker[a].at \in ToPlatform
     /\ \/ /\ ~Fits(m)
           /\ UNCHANGED vars /\ UNCHANGED stopJob
           /\ Rest(a) /\ Calm
        \/ /\ Fits(m)
           /\ Apply(m)
           /\ CASE m.at = "prepare" -> Execute(a, worker[a])
                [] m.at = "begin"   -> Do(a, Step(worker[a], "call")) /\ Calm
                [] m.at = "report" /\ m.report.state = "accepted"
                                    -> Do(a, Step(worker[a], "observe")) /\ Calm
                [] OTHER            -> Rest(a) /\ Calm
     /\ UNCHANGED <<contract, core, ops, calls, late, old>>

\* The Store processes the request, but the answer is lost.
AnswerLost(a) ==
  LET m == Request(a)
  IN /\ worker[a].at \in ToPlatform
     /\ Fits(m) /\ Apply(m)
     /\ Rest(a) /\ Fault
     /\ UNCHANGED <<contract, core, ops, calls, late, old>>

\* A time limit, or the death of the Controller: the request or the call under way
\* is lost, or reaches its end later.
BreakOff(a) ==
  /\ worker[a].at # "idle"
  /\ Rest(a) /\ Fault
  /\ late' = late \/ /\ worker[a].at \in ToPlatform /\ contract[a] \in Late
                     /\ late' = late \cup {Request(a)}
  /\ calls' = calls \/ /\ At(a, "call")
                       /\ calls' = calls \cup {<<a, worker[a].job>>}
  /\ UNCHANGED <<vars, contract, core, ops, stopJob, old>>

ProcessLate(m) ==
  /\ late' = late \ {m}
  /\ IF Fits(m) THEN Apply(m) ELSE UNCHANGED <<vars, stopJob>>
  /\ UNCHANGED <<contract, core, ops, worker, calls, old, faults>>

\* A new session, of this process or of the next, waits for the requests being
\* processed and makes every other request of the old one invalid.
IssueSession ==
  /\ late # {}
  /\ late' = {m \in late : ~V(m.a)}
  /\ UNCHANGED <<vars, contract, core, ops, worker, calls, stopJob, old, faults>>

\* The core executes a call whose caller is gone.
FinishCall(c) ==
  LET a == c[1]
  IN /\ calls' = calls \ {c}
     /\ \/ UNCHANGED <<core, ops>>
        \/ c[2] = 0 /\ ~core[a].known /\ NewInstance(a) /\ UNCHANGED ops
        \/ c[2] # 0 /\ core[a].known /\ ~StopOpRuns(a) /\ NewStopOp(a) /\ UNCHANGED core
     /\ UNCHANGED <<vars, contract, worker, late, stopJob, old, faults>>

-----------------------------------------------------------------------------
(* The specification. *)

DispatchInit ==
  /\ Init
  /\ contract \in [AllocationIds -> Contracts]
  /\ core = [a \in AllocationIds |-> NoInstance]
  /\ ops = [a \in AllocationIds |-> <<>>]
  /\ worker = [a \in AllocationIds |-> Idle]
  /\ calls = {} /\ late = {}
  /\ stopJob = [a \in AllocationIds |-> [number |-> 0, op |-> 0]]
  /\ old = [a \in AllocationIds |-> FALSE]
  /\ faults = 0

\* What else happens to an attempt, as in Lifecycle.  The next game, cancelling and
\* the choice of a node concern requests only.
Elsewhere ==
  /\ \/ \E o \in Owners, t \in Nodes : CreateUserRequest(o, t)
     \/ TryAllocateOne
     \/ \E r \in RequestIds :
          \/ StopUserRequest(r, FALSE)
          \/ AbandonQuarantinedUserRequest(r)
          \/ AdminStopRequest(r)
     \/ \E a \in AllocationIds : MarkAllocationQuarantined(a) \/ TerminatePending(a)
  /\ Renumber
  /\ \A a \in AllocationIds : stopJob'[a].number <= MaxStopJobs
  /\ UNCHANGED <<contract, core, ops, worker, calls, late, old, faults>>

Work(a) ==
  \/ ClaimJob(a) \/ TakeCreate(a) \/ TakeStop(a) \/ ReconcileActive(a)
  \/ Answered(a)
  \/ CallCreate(a) \/ ObserveCreate(a)
  \/ ReadStatus(a) \/ ReadOperation(a) \/ CallStop(a) \/ ObserveStop(a)

Core(a) == FinishCreate(a) \/ Decay(a) \/ FinishStop(a) \/ Reclaim(a) \/ Forget(a)

Trouble ==
  \/ \E a \in AllocationIds : AnswerLost(a) \/ BreakOff(a) \/ Age(a)
  \/ \E m \in late : ProcessLate(m)
  \/ IssueSession
  \/ \E c \in calls : FinishCall(c)

DispatchNext ==
  \/ Elsewhere
  \/ \E a \in AllocationIds : Work(a) \/ Core(a)
  \/ Trouble

\* The Controller starts a cycle every few seconds, as long as it lives, and is
\* restarted when it dies; an operation of the core ends, and a cleanup that a
\* stop has left behind completes.
Fairness ==
  \A a \in AllocationIds :
    /\ WF_all(Work(a))
    /\ WF_all(FinishCreate(a)) /\ WF_all(FinishStop(a))
    /\ WF_all(Reclaim(a) /\ ops[a] # <<>>)

DispatchSpec == DispatchInit /\ [][DispatchNext]_all /\ Fairness

-----------------------------------------------------------------------------
(* Properties. *)

\* The work in memory, the core and what is under way stay within their types.
DispatchTypeOK ==
  /\ \A a \in AllocationIds :
       /\ worker[a].at \in {"idle"} \cup ToPlatform \cup ToCore
       /\ worker[a].job \in 0..stopJob[a].number
       /\ core[a].life \in {"none", "booting", "ready", "down", "doubt", "gone"}
       /\ ops[a] \in Seq({"running", "succeeded", "failed"})
       /\ stopJob[a].op \in 0..LastOp(a)
       /\ worker[a].job # 0 /\ At(a, "observe") => worker[a].op \in 1..LastOp(a)
  /\ calls \subseteq AllocationIds \X (0..MaxStopJobs)
  /\ \A m \in late : m.at \in ToPlatform

\* What Server promises: an attempt's server starts once, while the attempt holds
\* its capacity, and the capacity is given back only when no server of it lives
\* and none can come to life any more.  Retries, late calls, late reports and
\* forgotten keys are how this would break.
Promise == INSTANCE Server WITH
  Plays  <- AllocationIds,
  held   <- [a \in AllocationIds |->
               IF Occupying(a) THEN "held"
               ELSE IF allocations[a].state \in Released THEN "released" ELSE "free"],
  server <- [a \in AllocationIds |->
               IF core[a].life \in {"none", "gone"} THEN core[a].life ELSE "live"]

ServerPromise == Promise!Spec

\* Before a v1_0_2 call can have any effect the Store knows of it: the job is
\* unknown or further, never pending, claimed or rejected.
EffectIsAnnounced ==
  \A a \in AllocationIds :
    /\ V(a)
    /\ core[a].life # "none" \/ <<a, 0>> \in calls \/ (At(a, "call") /\ worker[a].job = 0)
    => creates[a].state \notin {"pending", "claimed", "rejected_no_effect"}

\* A stop job speaks of a stop operation of its own instance, and one reported
\* succeeded has seen the instance reclaimed.
StopIsTrue ==
  \A a \in AllocationIds :
    /\ stopJob[a].op \in 0..LastOp(a)
    /\ stops[a].state \in {"accepted", "succeeded"} => stopJob[a].op # 0
    /\ stops[a].state = "succeeded" => Gone(a)

\* A create left unknown with one of the core's ids missing, whose key has aged,
\* whose operation start is refused because an error has named the instance alone,
\* or which is not observed because an error has named the operation alone:
\* nothing more is learnt of it, and only an administrator can let go of it.
Orphaned(a) == /\ creates[a].state = "unknown" /\ creates[a].ids # CoreIds
               /\ \/ old[a] \/ "operation" \in creates[a].ids
                  \/ V(a) /\ "instance" \in creates[a].ids

\* The first stop job of an attempt is closed in the end, whatever was lost or
\* late.  Of a later one neither this nor the next holds under v1_0_2: it may adopt
\* the operation of the first, and is then refused for ever.
StopConcludes ==
  \A a \in AllocationIds :
    stops[a].state \in OpenJob ~> stops[a].state \notin OpenJob \/ Orphaned(a)

\* An instance that is reclaimed gives its capacity back in the end, even when the
\* operation that reclaimed it was reported failed, unless the core forgets it first.
GoneIsReleased ==
  \A a \in AllocationIds :
    Gone(a) /\ "instance" \in creates[a].ids
      ~> allocations[a].state \in Released \/ ~core[a].known \/ Orphaned(a)

=============================================================================
