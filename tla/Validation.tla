----------------------------- MODULE Validation -----------------------------
(***************************************************************************)
(* Maintenance, validation and release of one game on one Node.            *)
(*                                                                         *)
(* An administrator closes the binding of the game to the Node, which      *)
(* starts a maintenance epoch, has content and template put in place, and  *)
(* starts a validation run: an attempt like a player's, with a create and  *)
(* a stop job of its own.  Somebody plays on it and says pass or fail, the *)
(* server is stopped, and a finaliser in the Platform's serve loop closes  *)
(* the run.  A passed run is a proof as long as the Node reports exactly   *)
(* what it reported when the run was reserved; releases, the binding and   *)
(* the admission of players ask for it.                                    *)
(*                                                                         *)
(* Every action is one transaction of the Store, or something the Node     *)
(* does.  One game, Node, preset and template revision; the Node's own     *)
(* switches (enabled, accepting, draining) are on and it has room.         *)
(***************************************************************************)
EXTENDS Naturals, Sequences

CONSTANTS
  Versions,    \* content versions of the game
  Prints,      \* fingerprints of the template
  Installed,   \* bound: the pairs of version and fingerprint the Node may report
  First,       \* the version that is formal at the start
  FirstSeen,   \* the version the Node reports at the start
  FirstPrint,  \* the fingerprint it reports then, as declared
  MaxRuns,     \* bound: validation runs
  MaxChanges   \* bound: the epoch, the revisions and the generation together, which
               \* are three at the start

ASSUME ValidationAssumption ==
  /\ First \in Versions /\ FirstPrint \in Prints
  /\ Installed \subseteq (Versions \cup {"unknown"}) \X (Prints \cup {"unknown"})
  /\ FirstSeen \in Versions
  /\ "unknown" \notin Versions \cup Prints
  /\ MaxRuns \in Nat /\ MaxChanges \in Nat /\ MaxChanges >= 3

VARIABLES
  binding,    \* node_content_bindings: closed, maintenance epoch
  content,    \* the content version the Node reports, and its revision
  template,   \* the template fingerprint the Node reports, and its revision
  declared,   \* the fingerprint the administrator declared, and its generation
  inventory,  \* the scan the last heartbeat names, and the latest one if newer;
              \* the named one is stale two minutes after that heartbeat
  preset,     \* formal content, accepting, under the v1_0_2 contract
  players,    \* attempts of players of this game on this Node
  runs,       \* validation_runs
  attempts,   \* their allocations
  creates,    \* their create jobs
  stops,      \* their stop jobs, in order
  servers,    \* what is really on the Node: none, up or gone
  drifted     \* history: the facts have changed since the run was reserved

machine == <<content, template, declared, inventory>>
release == <<binding, preset, players>>
work    == <<runs, attempts, creates, stops>>
vars    == <<machine, release, work, servers, drifted>>

-----------------------------------------------------------------------------
(* Rows. *)

RunIds == 1..MaxRuns

Final    == {"passed", "failed"}
Terminal == {"reclaimed", "released_no_effect"}
OpenJob  == {"pending", "claimed", "accepted", "unknown"}

NoRun     == [state |-> "none", human |-> "pending", ready |-> FALSE, join |-> FALSE,
              seen |-> <<>>]
\* join: the attempt has connection data, of the entry configuration in force.
NoAttempt == [state |-> "none", join |-> FALSE]
NoCreate  == [state |-> "none", frozen |-> FALSE, known |-> FALSE]

Used(i)     == runs[i].state # "none"
Released(i) == attempts[i].state \in Terminal
Held(i)     == Used(i) /\ ~Released(i)

StopOpen(i)   == stops[i] # <<>> /\ stops[i][Len(stops[i])].state \in OpenJob
Unresolved(i) == creates[i].state \in OpenJob \/ StopOpen(i)

\* Heartbeat, facts and inventory are less than two minutes old.
fresh == inventory.named # "stale"

\* The machine facts a run freezes, as they are now.
Facts == <<binding.epoch, content, template, declared.generation>>

\* Faulty: what the Node reports is compared, and not how often that has changed.
CurrentByValue(i) ==
  /\ runs[i].seen # <<>> /\ runs[i].seen[1] = binding.epoch
  /\ runs[i].seen[2].value = content.value /\ runs[i].seen[3].value = template.value
  /\ runs[i].seen[4] = declared.generation /\ declared.value = template.value

\* What the Node reports is what the run was reserved for, and what is declared.
Current(i) == runs[i].seen = Facts /\ declared.value = template.value

\* A passed run is a proof only while everything it rests on still holds.
EffectiveProof(i) ==
  /\ runs[i].state = "passed" /\ runs[i].human = "pass"
  /\ runs[i].ready /\ runs[i].join
  /\ attempts[i].state = "reclaimed"
  /\ Current(i)
  /\ inventory = [named |-> "clean", newer |-> "none"]

FormalProof == \E i \in RunIds : EffectiveProof(i) /\ content.value = preset.formal

Changes == binding.epoch + content.revision + template.revision + declared.generation

\* The change of a fact since reservation is remembered for the properties only.
Drift ==
  LET values == <<binding.epoch, content.value, template.value, declared.value>>
  IN  /\ Changes' <= MaxChanges
      /\ drifted' = [i \in RunIds |-> drifted[i] \/ (Used(i) /\ values' # values)]

-----------------------------------------------------------------------------
(* The Node's facts. *)

\* A fact that is missing or cannot be confirmed is unknown; a revision moves when
\* the reported identity does.
Reported(fact, value) ==
  IF fact.value = value THEN fact
  ELSE [value |-> value, revision |-> fact.revision + 1]

\* A scan is clean if it is complete, every instance in it is known for certain,
\* and each belongs to an attempt that is held.
Accounted(i) == servers[i] = "up" => creates[i].known /\ Held(i)

RecordInventory ==
  /\ \E scan \in {"clean", "dirty"} :
       /\ scan = "clean" => \A i \in RunIds : Accounted(i)
       /\ inventory' = [inventory EXCEPT !.newer = scan]
  /\ UNCHANGED <<content, template, declared, release, work, servers, drifted>>

\* The heartbeat names the scan just recorded, or says that there is none to trust.
RecordHeartbeat ==
  /\ \E report \in Installed :
       /\ content'  = Reported(content, report[1])
       /\ template' = Reported(template, report[2])
  /\ \/ inventory' = [inventory EXCEPT !.named = "none"]
     \/ /\ inventory.newer # "none"
        /\ inventory' = [named |-> inventory.newer, newer |-> "none"]
  /\ UNCHANGED <<declared, release, work, servers>>
  /\ Drift

\* Two minutes without a heartbeat.
GoStale ==
  /\ inventory' = [inventory EXCEPT !.named = "stale"]
  /\ UNCHANGED <<content, template, declared, release, work, servers, drifted>>

\* The Node's entry configuration changes: connection data handed out before it
\* are out of date.
EntryChanges ==
  /\ attempts' = [i \in RunIds |-> [attempts[i] EXCEPT !.join = FALSE]]
  /\ UNCHANGED <<machine, release, runs, creates, stops, servers, drifted>>

CoreStarts(i) ==
  /\ creates[i].state = "unknown" /\ servers[i] = "none"
  /\ servers' = [servers EXCEPT ![i] = "up"]
  /\ UNCHANGED <<machine, release, work, drifted>>

ServerGoes(i) ==
  /\ servers[i] = "up" /\ servers' = [servers EXCEPT ![i] = "gone"]
  /\ UNCHANGED <<machine, release, work, drifted>>

-----------------------------------------------------------------------------
(* Maintenance and reservation. *)

BeginMaintenance ==
  /\ binding' = [closed |-> TRUE, epoch |-> binding.epoch + 1]
  /\ UNCHANGED <<machine, preset, players, work, servers>>
  /\ Drift

\* A declaration that changes nothing keeps its generation.
DeclareTemplate ==
  /\ \E p \in Prints :
       declared' = IF declared.value = p THEN declared
                   ELSE [value |-> p, generation |-> declared.generation + 1]
  /\ UNCHANGED <<content, template, inventory, release, work, servers>>
  /\ Drift

ReserveValidation(i) ==
  /\ ~Used(i) /\ \A j \in RunIds : j < i => Used(j)
  /\ binding.closed /\ binding.epoch > 0
  /\ content.value # "unknown" /\ template.value = declared.value
  /\ inventory.named = "clean"
  /\ \A j \in RunIds : ~Held(j) /\ ~Unresolved(j)
  /\ players = 0
  /\ runs'     = [runs EXCEPT ![i] = [NoRun EXCEPT !.state = "create_pending", !.seen = Facts]]
  /\ attempts' = [attempts EXCEPT ![i].state = "reserved"]
  /\ creates'  = [creates EXCEPT ![i].state = "pending"]
  /\ UNCHANGED <<machine, release, stops, servers, drifted>>

-----------------------------------------------------------------------------
(* The run follows its jobs. *)

Advance(run, next) ==
  IF run.state \in Final THEN run
  ELSE [run EXCEPT !.state = next,
                   !.ready = @ \/ next \in {"ready_no_join", "awaiting_human"},
                   !.join  = @ \/ next = "awaiting_human"]

Creating == {"create_pending", "create_observing"}

AfterCreate(run, s, identity, join) ==
  CASE s = "accepted" /\ run.state = "create_pending" -> "create_observing"
    [] s = "unknown" /\ run.state \in Creating       -> "create_unknown"
    [] s = "succeeded"          -> IF join THEN "awaiting_human" ELSE "ready_no_join"
    [] s = "rejected_no_effect" -> "failed"
    [] s = "failed_with_effect" -> IF identity THEN "quarantined" ELSE "cleanup_required"
    [] OTHER                    -> run.state

\* Faulty: the success of a stop leaves a run that may pass where it is.
AfterStopUnmoved(run, s) ==
  CASE s = "accepted"           -> "reclaim_observing"
    [] s = "unknown"            -> "stop_unknown"
    [] s = "succeeded"          -> IF run.human = "fail" THEN "failed" ELSE run.state
    [] s = "failed_with_effect" -> "quarantined"

AfterStop(run, s) ==
  CASE s = "accepted"           -> "reclaim_observing"
    [] s = "unknown"            -> "stop_unknown"
    [] s = "succeeded"          -> IF run.human = "fail" THEN "failed" ELSE "reclaim_observing"
    [] s = "failed_with_effect" -> "quarantined"

PlaceAfterCreate(s, identity) ==
  CASE s = "accepted"           -> "creating"
    [] s = "unknown"            -> "create_unknown"
    [] s = "succeeded"          -> "running"
    [] s = "rejected_no_effect" -> "released_no_effect"
    [] s = "failed_with_effect" -> IF identity THEN "quarantined" ELSE "failed_unreclaimed"

PlaceAfterStop(s) ==
  CASE s \in {"accepted", "unknown"} -> "stopping"
    [] s = "succeeded"               -> "reclaimed"
    [] s = "failed_with_effect"      -> "quarantined"

\* A report that comes after the attempt's end changes the job only, and what
\* leaves quarantine is the proof that there is nothing (left).
Applies(i, proof) ==
  ~Released(i) /\ (attempts[i].state = "quarantined" => proof)

\* A failed create whose instance is known is stopped, by a job there already is or
\* by a new one.
WithStop(i, by) ==
  IF StopOpen(i) THEN stops[i] ELSE Append(stops[i], [state |-> "pending", by |-> by])

ApplyCreate(i, s, known, identity, join) ==
  LET cleanup == s = "failed_with_effect" /\ ~identity /\ known
  IN  IF ~Applies(i, s = "rejected_no_effect") THEN UNCHANGED <<runs, attempts, stops>>
      ELSE /\ runs' = [runs EXCEPT ![i] = Advance(@, AfterCreate(@, s, identity, join))]
           /\ attempts' = [attempts EXCEPT
                ![i].state = IF cleanup THEN "stopping" ELSE PlaceAfterCreate(s, identity),
                ![i].join  = @ \/ join]
           /\ stops' = IF cleanup THEN [stops EXCEPT ![i] = WithStop(i, "failure")] ELSE stops

ApplyStop(i, s) ==
  IF ~Applies(i, s = "succeeded") THEN UNCHANGED <<runs, attempts>>
  ELSE /\ runs' = [runs EXCEPT ![i] = Advance(@, AfterStop(@, s))]
       /\ attempts' = [attempts EXCEPT ![i].state = PlaceAfterStop(s)]

-----------------------------------------------------------------------------
(* The Controller works on the jobs and reports instances. *)

\* No other job of the attempt may be under way.
ClaimCreate(i) ==
  /\ creates[i].state = "pending" /\ fresh
  /\ creates' = [creates EXCEPT ![i].state = "claimed"]
  /\ UNCHANGED <<machine, release, runs, attempts, stops, servers, drifted>>

ClaimStop(i) ==
  /\ stops[i] # <<>> /\ stops[i][Len(stops[i])].state = "pending" /\ fresh
  /\ creates[i].state \notin {"claimed", "accepted", "unknown"}
  /\ stops' = [stops EXCEPT ![i][Len(stops[i])].state = "claimed"]
  /\ UNCHANGED <<machine, release, runs, attempts, creates, servers, drifted>>

PrepareCreate(i) ==
  /\ creates[i].state \in {"claimed", "accepted", "unknown"}
  /\ creates' = [creates EXCEPT ![i].frozen = TRUE]
  /\ attempts' = [attempts EXCEPT
       ![i].state = IF @ \in {"reserved", "create_unknown"} THEN "creating" ELSE @]
  /\ runs' = [runs EXCEPT ![i].state = IF @ = "create_pending" THEN "create_observing" ELSE @]
  /\ UNCHANGED <<machine, release, stops, servers, drifted>>

\* Nothing but the start of the operation, a refusal or a failure follows a claim; a
\* repeated report may add identities.
Permitted(old, new) ==
  CASE old = "claimed"  -> new \in {"unknown", "rejected_no_effect", "failed_with_effect"}
    [] old \in {"accepted", "unknown"} ->
         new \in {"accepted", "unknown", "succeeded", "failed_with_effect"}
    [] OTHER            -> FALSE

ReportCreate(i) ==
  \E s \in {"accepted", "unknown", "succeeded", "rejected_no_effect", "failed_with_effect"},
     knows, identity, join \in BOOLEAN :
    LET known == creates[i].known \/ knows
    IN  /\ Permitted(creates[i].state, s)
        /\ knows => servers[i] # "none"
        /\ s \in {"accepted", "succeeded"} => known
        /\ IF s = "rejected_no_effect" THEN ~known ELSE creates[i].frozen
        /\ s = "failed_with_effect" => servers[i] # "none"
        /\ identity => s = "failed_with_effect"
        /\ join => s = "succeeded"
        /\ creates' = [creates EXCEPT ![i].state = s, ![i].known = known]
        /\ ApplyCreate(i, s, known, identity, join)
        /\ UNCHANGED <<machine, release, servers, drifted>>

ReportStop(i) ==
  /\ stops[i] # <<>>
  /\ \E s \in {"accepted", "unknown", "succeeded", "failed_with_effect"} :
       /\ Permitted(stops[i][Len(stops[i])].state, s)
       /\ s = "succeeded" => servers[i] = "gone"
       /\ stops' = [stops EXCEPT ![i][Len(stops[i])].state = s]
       /\ ApplyStop(i, s)
  /\ UNCHANGED <<machine, release, creates, servers, drifted>>

\* Facts about the instance of a held attempt, read before and reported now.
FactReclaimed(i) ==
  /\ Held(i) /\ creates[i].known /\ servers[i] = "gone"
  /\ attempts' = [attempts EXCEPT ![i].state = "reclaimed"]
  /\ UNCHANGED <<machine, release, runs, creates, stops, servers, drifted>>

FactFailed(i) ==
  /\ Held(i) /\ creates[i].known
  /\ attempts[i].state \notin {"quarantined", "stopping"}
  /\ ApplyCreate(i, "failed_with_effect", TRUE, FALSE, FALSE)
  /\ UNCHANGED <<machine, release, creates, servers, drifted>>

Quarantined(i) ==
  /\ attempts' = [attempts EXCEPT ![i].state = "quarantined"]
  /\ runs' = [runs EXCEPT ![i] = Advance(@, "quarantined")]
  /\ UNCHANGED <<machine, release, creates, stops, servers, drifted>>

FactUnverified(i) ==
  /\ Held(i) /\ creates[i].known
  /\ Quarantined(i)

\* Connection data are taken from a running attempt only.
FactReady(i) ==
  /\ Held(i) /\ creates[i].known /\ servers[i] = "up"
  /\ \E join \in BOOLEAN :
       /\ join => attempts[i].state = "running"
       /\ attempts' = [attempts EXCEPT ![i].join = @ \/ join]
       /\ runs' = [runs EXCEPT ![i] =
            IF @.state \in Creating \cup {"create_unknown", "ready_no_join"}
            THEN Advance(@, IF join THEN "awaiting_human" ELSE "ready_no_join")
            ELSE @]
  /\ UNCHANGED <<machine, release, creates, stops, servers, drifted>>

-----------------------------------------------------------------------------
(* Administrators and the operator. *)

\* Faulty: any number of stops.
ConfirmHumanAnyStop(i) ==
  /\ runs[i].human = "pending"
  /\ creates[i].known /\ creates[i].state = "succeeded" /\ attempts[i].state = "running"
  /\ \E result \in {"pass", "fail"} :
       /\ result = "pass" =>
            /\ runs[i].state = "awaiting_human" /\ runs[i].ready /\ runs[i].join
            /\ attempts[i].join
       /\ runs' = [runs EXCEPT ![i].human = result, ![i].state = "stop_pending"]
  /\ stops'    = [stops EXCEPT ![i] = Append(@, [state |-> "pending", by |-> "human"])]
  /\ attempts' = [attempts EXCEPT ![i].state = "stopping"]
  /\ UNCHANGED <<machine, release, creates, servers, drifted>>

\* The verdict and the stop it asks for; a stop that is under way excludes another.
ConfirmHuman(i) ==
  /\ runs[i].human = "pending"
  /\ creates[i].known /\ creates[i].state = "succeeded" /\ attempts[i].state = "running"
  /\ ~StopOpen(i)
  /\ \E result \in {"pass", "fail"} :
       /\ result = "pass" =>
            /\ runs[i].state = "awaiting_human" /\ runs[i].ready /\ runs[i].join
            /\ attempts[i].join
       /\ runs' = [runs EXCEPT ![i].human = result, ![i].state = "stop_pending"]
  /\ stops'    = [stops EXCEPT ![i] = Append(@, [state |-> "pending", by |-> "human"])]
  /\ attempts' = [attempts EXCEPT ![i].state = "stopping"]
  /\ UNCHANGED <<machine, release, creates, servers, drifted>>

\* Faulty: there need not be an instance yet.
StopValidationEarly(i) ==
  /\ Used(i) /\ runs[i].state \notin Final
  /\ ~Released(i) /\ stops[i] = <<>>
  /\ runs'     = [runs EXCEPT ![i].state = "stop_pending"]
  /\ stops'    = [stops EXCEPT ![i] = <<[state |-> "pending", by |-> "admin"]>>]
  /\ attempts' = [attempts EXCEPT ![i].state = "stopping"]
  /\ UNCHANGED <<machine, release, creates, servers, drifted>>

StopValidation(i) ==
  /\ Used(i) /\ runs[i].state \notin Final
  /\ creates[i].known /\ ~Released(i) /\ stops[i] = <<>>
  /\ runs'     = [runs EXCEPT ![i].state = "stop_pending"]
  /\ stops'    = [stops EXCEPT ![i] = <<[state |-> "pending", by |-> "admin"]>>]
  /\ attempts' = [attempts EXCEPT ![i].state = "stopping"]
  /\ UNCHANGED <<machine, release, creates, servers, drifted>>

TerminatePending(i) ==
  /\ creates[i].state = "pending" /\ attempts[i].state = "reserved"
  /\ creates'  = [creates EXCEPT ![i].state = "rejected_no_effect"]
  /\ attempts' = [attempts EXCEPT ![i].state = "released_no_effect"]
  /\ runs'     = [runs EXCEPT ![i] = Advance(@, "failed")]
  /\ UNCHANGED <<machine, release, stops, servers, drifted>>

\* By an administrator, by the operator, or because the Node has not been heard of
\* for long; a pure reservation is left alone.
Quarantine(i) ==
  /\ Held(i) /\ attempts[i].state # "quarantined"
  /\ attempts[i].state = "reserved" => creates[i].state # "pending"
  /\ Quarantined(i)

-----------------------------------------------------------------------------
(* The finaliser. *)

Waiting(i) == Released(i) /\ runs[i].state \notin Final
Passing(i) == Waiting(i) /\ runs[i].human = "pass" /\ runs[i].state = "reclaim_observing"
Failing(i) == Waiting(i) /\ (runs[i].human # "pass" \/ runs[i].state = "quarantined")

\* Everything but the inventory that a run needs to pass.
Proven(i) ==
  /\ attempts[i].state = "reclaimed" /\ creates[i].state = "succeeded"
  /\ stops[i] # <<>> /\ stops[i][Len(stops[i])].state = "succeeded"
  /\ runs[i].ready /\ runs[i].join
  /\ binding.closed /\ Current(i) /\ fresh
  /\ \A j \in RunIds : ~Unresolved(j) /\ (j # i => ~Held(j))
  /\ players = 0

\* Without an inventory to go by, the cycle ends with an error.
Aborts(i) == Passing(i) /\ Proven(i) /\ inventory.named = "none"
Reached(i) == \A j \in RunIds : j < i => ~Aborts(j)

FinalizeRun(i) ==
  /\ Reached(i) /\ Passing(i) /\ Proven(i) /\ inventory.named = "clean"
  /\ runs' = [runs EXCEPT ![i].state = "passed"]
  /\ UNCHANGED <<machine, release, attempts, creates, stops, servers, drifted>>

\* Faulty: the jobs of the attempt are not looked at.
FinalizeFailureHasty(i) ==
  /\ Reached(i) /\ Failing(i)
  /\ runs' = [runs EXCEPT ![i].state = "failed"]
  /\ UNCHANGED <<machine, release, attempts, creates, stops, servers, drifted>>

FinalizeFailure(i) ==
  /\ Reached(i) /\ Failing(i) /\ ~Unresolved(i)
  /\ runs' = [runs EXCEPT ![i].state = "failed"]
  /\ UNCHANGED <<machine, release, attempts, creates, stops, servers, drifted>>

-----------------------------------------------------------------------------
(* Release, opening, admission. *)

\* A release with a proof opens the preset; the binding is still closed.
PublishRelease(i) ==
  /\ binding.closed /\ EffectiveProof(i)
  /\ preset' = [formal |-> content.value, accepting |-> TRUE, upgraded |-> TRUE]
  /\ UNCHANGED <<machine, binding, players, work, servers, drifted>>

\* A first release, or one that changes the content, may pause the preset instead.
PublishPaused ==
  /\ \E v \in Versions :
       /\ ~preset.upgraded \/ preset.formal # v
       /\ preset' = [formal |-> v, accepting |-> FALSE, upgraded |-> TRUE]
  /\ UNCHANGED <<machine, binding, players, work, servers, drifted>>

UpdatePreset ==
  /\ \E accepting \in BOOLEAN :
       /\ accepting /\ preset.upgraded => ~binding.closed /\ FormalProof
       /\ preset' = [preset EXCEPT !.accepting = accepting]
  /\ UNCHANGED <<machine, binding, players, work, servers, drifted>>

UpdateBinding ==
  /\ \E closed \in BOOLEAN :
       /\ ~closed /\ preset.upgraded => preset.accepting /\ FormalProof
       /\ binding' = [binding EXCEPT !.closed = closed]
  /\ UNCHANGED <<machine, preset, players, work, servers, drifted>>

\* The scheduler puts a player's attempt on this Node.
Admit ==
  /\ players = 0 /\ players' = 1
  /\ preset.accepting /\ ~binding.closed
  /\ fresh /\ content.value = preset.formal
  /\ preset.upgraded => FormalProof
  /\ UNCHANGED <<machine, binding, preset, work, servers, drifted>>

PlayerEnds ==
  /\ players = 1 /\ players' = 0
  /\ UNCHANGED <<machine, binding, preset, work, servers, drifted>>

-----------------------------------------------------------------------------
Init ==
  /\ binding = [closed |-> FALSE, epoch |-> 0]
  /\ content = [value |-> FirstSeen, revision |-> 1]
  /\ template = [value |-> FirstPrint, revision |-> 1]
  /\ declared = [value |-> FirstPrint, generation |-> 1]
  /\ inventory = [named |-> "clean", newer |-> "none"]
  /\ preset = [formal |-> First, accepting |-> TRUE, upgraded |-> FALSE]
  /\ players = 0
  /\ runs = [i \in RunIds |-> NoRun] /\ attempts = [i \in RunIds |-> NoAttempt]
  /\ creates = [i \in RunIds |-> NoCreate] /\ stops = [i \in RunIds |-> <<>>]
  /\ servers = [i \in RunIds |-> "none"] /\ drifted = [i \in RunIds |-> FALSE]

NodeStep ==
  \/ RecordInventory \/ RecordHeartbeat \/ GoStale \/ EntryChanges
  \/ \E i \in RunIds : CoreStarts(i) \/ ServerGoes(i)

JobStep(i) ==
  \/ ClaimCreate(i) \/ ClaimStop(i) \/ PrepareCreate(i) \/ ReportCreate(i) \/ ReportStop(i)
  \/ FactReclaimed(i) \/ FactFailed(i) \/ FactUnverified(i) \/ FactReady(i)

AdminStep ==
  \/ BeginMaintenance \/ DeclareTemplate
  \/ PublishPaused \/ UpdatePreset \/ UpdateBinding
  \/ \E i \in RunIds :
       \/ ReserveValidation(i) \/ ConfirmHuman(i) \/ StopValidation(i)
       \/ TerminatePending(i) \/ Quarantine(i) \/ PublishRelease(i)

ServeStep ==
  \/ Admit \/ PlayerEnds
  \/ \E i \in RunIds : FinalizeRun(i) \/ FinalizeFailure(i)

Next == NodeStep \/ AdminStep \/ ServeStep \/ \E i \in RunIds : JobStep(i)

\* The serve loop runs the finaliser every two seconds.
Fairness == \A i \in RunIds : WF_vars(FinalizeFailure(i)) /\ WF_vars(FinalizeRun(i))

Spec == Init /\ [][Next]_vars /\ Fairness

-----------------------------------------------------------------------------
RunStates ==
  Creating \cup {"none", "create_unknown", "ready_no_join", "awaiting_human", "cleanup_required",
   "stop_pending", "reclaim_observing", "stop_unknown", "quarantined"} \cup Final

JobStates == OpenJob \cup {"succeeded", "rejected_no_effect", "failed_with_effect"}

\* Every variable holds a row the tables can hold: a stop names the instance of the
\* create, and of an attempt's stops only the last is open.
ValidationTypeOK ==
  /\ binding \in [closed : BOOLEAN, epoch : 0..MaxChanges]
  /\ content \in [value : Versions \cup {"unknown"}, revision : 1..MaxChanges]
  /\ template \in [value : Prints \cup {"unknown"}, revision : 1..MaxChanges]
  /\ declared \in [value : Prints, generation : 1..MaxChanges]
  /\ inventory \in [named : {"none", "clean", "dirty", "stale"}, newer : {"none", "clean", "dirty"}]
  /\ preset \in [formal : Versions, accepting : BOOLEAN, upgraded : BOOLEAN]
  /\ players \in 0..1
  /\ \A i \in RunIds :
       /\ runs[i].state \in RunStates
       /\ creates[i].state \in JobStates \cup {"none"}
       /\ Used(i) <=> creates[i].state # "none"
       /\ stops[i] # <<>> => creates[i].known
       /\ \A n \in 1..Len(stops[i]) :
            /\ stops[i][n].state \in JobStates
            /\ n < Len(stops[i]) => stops[i][n].state \notin OpenJob

\* A validation run that has ended, passed or failed, holds no place on the Node
\* and has no job anybody still works on (FinalizeValidationFailure,
\* FinalizeValidationRun, and the reports that end a run by themselves).
EndedRunHoldsNothing ==
  \A i \in RunIds : runs[i].state \in Final => Released(i) /\ ~Unresolved(i)

\* A proof that counts for a release, for opening or for admission rests on facts
\* that have not changed since its run was reserved, not even there and back: the
\* revisions, the generation and the epoch give the change away.
ProofStands == \A i \in RunIds : EffectiveProof(i) => ~drifted[i]

\* What has passed was ready, was joined by a person who said pass, and was taken
\* down by the one stop that verdict asked for: no stop of an administrator or of a
\* failure came in between, although a create's late report can bring an attempt
\* that is being stopped back to running.
PassIsHuman ==
  \A i \in RunIds : runs[i].state = "passed" =>
    /\ runs[i].human = "pass" /\ runs[i].ready /\ runs[i].join
    /\ servers[i] = "gone" /\ attempts[i].state = "reclaimed"
    /\ stops[i] = <<[state |-> "succeeded", by |-> "human"]>>

\* When an attempt is released and none of its jobs is open, its run has ended or
\* is one the finaliser takes up; it looks at no other.  (An instance reported gone
\* while the stop is open is the exception: see the README.)
ReleasedRunIsTakenUp ==
  [][\A i \in RunIds : Held(i) /\ Released(i)' /\ ~Unresolved(i)' =>
       (runs[i].state \in Final \/ Passing(i) \/ Failing(i))']_vars

\* A run that has been in quarantine never passes; it may only fail, once its
\* resources are gone.
QuarantinedNeverPasses ==
  \A i \in RunIds : [](runs[i].state = "quarantined" => [](runs[i].state # "passed"))
=============================================================================
