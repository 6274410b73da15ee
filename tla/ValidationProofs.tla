-------------------------- MODULE ValidationProofs --------------------------
(***************************************************************************)
(* A proof that counts rests on facts that have not changed, a pass is a   *)
(* person's, and no released run is overlooked, for any number of runs,    *)
(* versions, fingerprints and changes.                                     *)
(*                                                                         *)
(* The first argument is about counters.  Every change of a fact, and only *)
(* a change, moves its revision, its generation or the epoch upwards; so a *)
(* run whose facts have changed since its reservation has seen a smaller   *)
(* counter than the one in force.  The others are about stops: whichever   *)
(* way a stop ends, the attempt is released or quarantined, and never gets *)
(* a second one.                                                           *)
(***************************************************************************)
EXTENDS Validation, TLAPS

ContentRow  == [value : Versions \cup {"unknown"}, revision : Nat]
TemplateRow == [value : Prints \cup {"unknown"}, revision : Nat]
Seen        == Nat \X ContentRow \X TemplateRow \X Nat
RunRow      == [state : RunStates, human : {"pending", "pass", "fail"}, ready : BOOLEAN,
                join : BOOLEAN, seen : Seen \cup {<<>>}]

FactsOK ==
  /\ binding \in [closed : BOOLEAN, epoch : Nat]
  /\ content \in ContentRow /\ template \in TemplateRow
  /\ declared \in [value : Prints, generation : Nat]

AttemptStates ==
  Terminal \cup {"none", "reserved", "creating", "create_unknown", "running", "stopping",
                 "failed_unreclaimed", "quarantined"}

AttemptRow == [state : AttemptStates, join : BOOLEAN]
CreateRow  == [state : JobStates \cup {"none"}, frozen : BOOLEAN, known : BOOLEAN]
StopRow    == [state : JobStates, by : {"human", "admin", "failure"}]

Last(st) == st[Len(st)]
Open(st) == st # <<>> /\ Last(st).state \in OpenJob

\* The rows of one run agree.  A create without an instance has no stop, a stop that
\* has been claimed comes after the end of the create, and a run that has ended has
\* neither a place nor work.
RowsAgree(run, att, cr, st) ==
  /\ run.state = "none" => att.state = "none"
  /\ run.state = "none" <=> cr.state = "none"
  /\ st # <<>> => cr.known
  /\ cr.state \in {"none", "pending", "claimed", "rejected_no_effect"} => ~cr.known
  /\ st # <<>> /\ Last(st).state # "pending" => cr.state \notin OpenJob
  /\ run.state \in Final => att.state \in Terminal /\ cr.state \notin OpenJob /\ ~Open(st)

\* The verdict, the one stop and the server of a run agree.  A stop that is over has
\* ended the attempt or put it in quarantine, so that there is never a second one; a
\* verdict has its own stop, and a pass was preceded by a server that was joined.
VerdictAgrees(run, att, st, server) ==
  /\ Len(st) <= 1
  /\ st # <<>> /\ ~Open(st) => att.state \in Terminal \cup {"quarantined"}
  /\ att.state = "quarantined" => run.state = "quarantined"
  /\ run.human # "pending" => st # <<>> /\ Last(st).by = "human"
  /\ run.human = "pass" => run.ready /\ run.join
  /\ st # <<>> /\ Last(st).state = "succeeded" => server = "gone"
  /\ run.state = "passed" => /\ run.human = "pass" /\ att.state = "reclaimed"
                             /\ st # <<>> /\ Last(st).state = "succeeded"

TablesOK ==
  /\ runs \in [RunIds -> RunRow] /\ attempts \in [RunIds -> AttemptRow]
  /\ creates \in [RunIds -> CreateRow] /\ stops \in [RunIds -> Seq(StopRow)]
  /\ servers \in [RunIds -> {"none", "up", "gone"}] /\ drifted \in [RunIds -> BOOLEAN]

WorkAgrees ==
  \A i \in RunIds : /\ RowsAgree(runs[i], attempts[i], creates[i], stops[i])
                    /\ VerdictAgrees(runs[i], attempts[i], stops[i], servers[i])

\* What i has seen is not newer than what is in force, and older if i has drifted.
SeenBefore(i) ==
  LET s == runs[i].seen
  IN  /\ s \in Seen /\ s[2].value # "unknown"
      /\ s[1] <= binding.epoch /\ s[2].revision <= content.revision
      /\ s[3].revision <= template.revision /\ s[4] <= declared.generation
      /\ drifted[i] => \/ s[1] < binding.epoch \/ s[2].revision < content.revision
                       \/ s[3].revision < template.revision \/ s[4] < declared.generation

SeenAgrees == \A i \in RunIds : IF Used(i) THEN SeenBefore(i) ELSE ~drifted[i]

Inv == FactsOK /\ TablesOK /\ WorkAgrees /\ SeenAgrees

-----------------------------------------------------------------------------
(* Steps that change facts. *)

LEMMA ReportedMoves ==
  ASSUME NEW S, NEW fact \in [value : S, revision : Nat], NEW v \in S
  PROVE  LET new == Reported(fact, v)
         IN  /\ new \in [value : S, revision : Nat]
             /\ fact.revision <= new.revision
             /\ new.value # fact.value => fact.revision < new.revision
<1>1. CASE fact.value = v
  BY <1>1 DEF Reported
<1>2. CASE fact.value # v
  <2>. DEFINE new == [value |-> v, revision |-> fact.revision + 1]
  <2>1. Reported(fact, v) = new
    BY <1>2 DEF Reported
  <2>2. new \in [value : S, revision : Nat] /\ new.value = v /\ new.revision = fact.revision + 1
    OBVIOUS
  <2>. HIDE DEF new
  <2>3. QED
    BY <2>1, <2>2
<1>3. QED
  BY <1>1, <1>2

LEMMA FactsMove ==
  ASSUME Inv, FactsOK', UNCHANGED <<work, servers>>, Drift,
         binding.epoch <= binding'.epoch,
         content.revision <= content'.revision,
         template.revision <= template'.revision,
         declared.generation <= declared'.generation,
         content'.value # content.value => content.revision < content'.revision,
         template'.value # template.value => template.revision < template'.revision,
         declared'.value # declared.value => declared.generation < declared'.generation
  PROVE  Inv'
<1>. DEFINE values == <<binding.epoch, content.value, template.value, declared.value>>
<1>1. drifted' = [i \in RunIds |-> drifted[i] \/ (Used(i) /\ values' # values)]
  BY DEF Drift
<1>2. values' # values => \/ binding.epoch < binding'.epoch
                          \/ content.revision < content'.revision
                          \/ template.revision < template'.revision
                          \/ declared.generation < declared'.generation
  BY DEF Inv, FactsOK
<1>. HIDE DEF values
<1>3. TablesOK'
  BY <1>1 DEF Inv, TablesOK, work
<1>4. ASSUME NEW i \in RunIds PROVE IF Used(i)' THEN SeenBefore(i)' ELSE ~drifted'[i]
  <2>1. drifted'[i] <=> drifted[i] \/ (Used(i) /\ values' # values)
    BY <1>1
  <2>2. Used(i)' <=> Used(i)
    BY DEF Used, work
  <2>3. CASE ~Used(i)
    BY <2>1, <2>2, <2>3 DEF Inv, SeenAgrees
  <2>4. CASE Used(i)
    <3>1. SeenBefore(i)
      BY <2>4 DEF Inv, SeenAgrees
    <3>2. SeenBefore(i)'
      BY <1>2, <2>1, <3>1 DEF SeenBefore, Seen, ContentRow, TemplateRow, Inv, FactsOK, work
    <3>3. QED
      BY <2>2, <2>4, <3>2
  <2>5. QED
    BY <2>3, <2>4
<1>5. WorkAgrees'
  BY DEF Inv, WorkAgrees, work
<1>6. QED
  BY <1>3, <1>4, <1>5 DEF Inv, SeenAgrees

LEMMA HeartbeatMoves ==
  ASSUME Inv, RecordHeartbeat
  PROVE  /\ content' \in ContentRow /\ content.revision <= content'.revision
         /\ content'.value # content.value => content.revision < content'.revision
         /\ template' \in TemplateRow /\ template.revision <= template'.revision
         /\ template'.value # template.value => template.revision < template'.revision
<1>1. PICK report \in Installed : /\ content'  = Reported(content, report[1])
                                  /\ template' = Reported(template, report[2])
  BY DEF RecordHeartbeat
<1>2. report[1] \in Versions \cup {"unknown"} /\ report[2] \in Prints \cup {"unknown"}
  BY ValidationAssumption
<1>3. /\ content' \in ContentRow /\ content.revision <= content'.revision
      /\ content'.value # content.value => content.revision < content'.revision
  <2>1. content \in [value : Versions \cup {"unknown"}, revision : Nat]
    BY DEF Inv, FactsOK, ContentRow
  <2>2. PICK v \in Versions \cup {"unknown"} : content' = Reported(content, v)
    BY <1>1, <1>2
  <2>3. QED
    BY <2>1, <2>2, ReportedMoves DEF ContentRow
<1>4. /\ template' \in TemplateRow /\ template.revision <= template'.revision
      /\ template'.value # template.value => template.revision < template'.revision
  <2>1. template \in [value : Prints \cup {"unknown"}, revision : Nat]
    BY DEF Inv, FactsOK, TemplateRow
  <2>2. PICK p \in Prints \cup {"unknown"} : template' = Reported(template, p)
    BY <1>1, <1>2
  <2>3. QED
    BY <2>1, <2>2, ReportedMoves DEF TemplateRow
<1>5. QED
  BY <1>3, <1>4

LEMMA HeartbeatKeeps == ASSUME Inv, RecordHeartbeat PROVE Inv'
<1>1. UNCHANGED <<declared, binding, work, servers>> /\ Drift
  BY DEF RecordHeartbeat, release
<1>2. FactsOK' /\ binding.epoch <= binding'.epoch /\ declared.generation <= declared'.generation
  BY <1>1, HeartbeatMoves DEF Inv, FactsOK
<1>3. QED
  BY <1>1, <1>2, HeartbeatMoves, FactsMove

LEMMA MaintenanceKeeps == ASSUME Inv, BeginMaintenance PROVE Inv'
<1>1. /\ binding' \in [closed : BOOLEAN, epoch : Nat] /\ binding.epoch <= binding'.epoch
      /\ UNCHANGED <<content, template, declared, work, servers>> /\ Drift
  BY DEF BeginMaintenance, machine, Inv, FactsOK
<1>2. FactsOK'
  BY <1>1 DEF Inv, FactsOK
<1>3. QED
  BY <1>1, <1>2, FactsMove DEF Inv, FactsOK, ContentRow, TemplateRow

LEMMA DeclareKeeps == ASSUME Inv, DeclareTemplate PROVE Inv'
<1>1. /\ declared' \in [value : Prints, generation : Nat]
      /\ declared.generation <= declared'.generation
      /\ declared'.value # declared.value => declared.generation < declared'.generation
  BY DEF DeclareTemplate, Inv, FactsOK
<1>2. UNCHANGED <<content, template, binding, work, servers>> /\ Drift
  BY DEF DeclareTemplate, release
<1>3. FactsOK'
  BY <1>1, <1>2 DEF Inv, FactsOK
<1>4. QED
  BY <1>1, <1>2, <1>3, FactsMove DEF Inv, FactsOK, ContentRow, TemplateRow

-----------------------------------------------------------------------------
(* Steps that change rows. *)

\* What else happens leaves the rows alone, and of the facts at most the switch.
LEMMA RowsStay ==
  ASSUME Inv, UNCHANGED <<content, template, declared, drifted, work>>,
         binding' \in [closed : BOOLEAN, epoch : Nat], binding'.epoch = binding.epoch,
         servers' \in [RunIds -> {"none", "up", "gone"}],
         \A i \in RunIds : servers[i] = "gone" => servers'[i] = "gone"
  PROVE  Inv'
<1>1. FactsOK' /\ TablesOK'
  BY DEF Inv, FactsOK, TablesOK, work
<1>2. WorkAgrees'
  BY DEF Inv, WorkAgrees, VerdictAgrees, work
<1>3. SeenAgrees'
  BY DEF Inv, SeenAgrees, SeenBefore, Used, work
<1>4. QED
  BY <1>1, <1>2, <1>3 DEF Inv

LEMMA Rows ==
  ASSUME Inv, NEW i \in RunIds
  PROVE  /\ runs[i] \in RunRow /\ attempts[i] \in AttemptRow
         /\ creates[i] \in CreateRow /\ stops[i] \in Seq(StopRow)
         /\ RowsAgree(runs[i], attempts[i], creates[i], stops[i])
         /\ VerdictAgrees(runs[i], attempts[i], stops[i], servers[i])
         /\ runs = [runs EXCEPT ![i] = runs[i]]
         /\ attempts = [attempts EXCEPT ![i] = attempts[i]]
         /\ creates = [creates EXCEPT ![i] = creates[i]]
         /\ stops = [stops EXCEPT ![i] = stops[i]]
BY DEF Inv, TablesOK, WorkAgrees

\* The rows of i become run, att, cr and st.
LEMMA RowStep ==
  ASSUME Inv, UNCHANGED <<binding, content, template, declared, servers, drifted>>,
         NEW i \in RunIds, NEW run \in RunRow, NEW att \in AttemptRow, NEW cr \in CreateRow,
         NEW st \in Seq(StopRow),
         RowsAgree(run, att, cr, st), VerdictAgrees(run, att, st, servers[i]),
         run.seen = runs[i].seen, run.state = "none" <=> runs[i].state = "none",
         runs' = [runs EXCEPT ![i] = run], attempts' = [attempts EXCEPT ![i] = att],
         creates' = [creates EXCEPT ![i] = cr], stops' = [stops EXCEPT ![i] = st]
  PROVE  Inv'
<1>1. TablesOK' /\ FactsOK'
  BY DEF Inv, TablesOK, FactsOK
<1>2. ASSUME NEW j \in RunIds
      PROVE  /\ RowsAgree(runs'[j], attempts'[j], creates'[j], stops'[j])
             /\ VerdictAgrees(runs'[j], attempts'[j], stops'[j], servers'[j])
             /\ runs'[j].seen = runs[j].seen /\ (Used(j)' <=> Used(j))
  <2>1. CASE j = i
    <3>1. runs'[j] = run /\ attempts'[j] = att /\ creates'[j] = cr /\ stops'[j] = st
      BY <2>1 DEF Inv, TablesOK
    <3>2. QED
      BY <2>1, <3>1 DEF Used
  <2>2. CASE j # i
    <3>1. runs'[j] = runs[j] /\ attempts'[j] = attempts[j] /\ creates'[j] = creates[j]
          /\ stops'[j] = stops[j]
      BY <2>2 DEF Inv, TablesOK
    <3>2. QED
      BY <3>1 DEF Inv, WorkAgrees, Used
  <2>3. QED
    BY <2>1, <2>2
<1>3. WorkAgrees' /\ SeenAgrees'
  <2>1. WorkAgrees'
    BY <1>2 DEF WorkAgrees
  <2>2. SeenAgrees'
    BY <1>2 DEF Inv, SeenAgrees, SeenBefore
  <2>3. QED
    BY <2>1, <2>2
<1>4. QED
  BY <1>1, <1>3 DEF Inv

LEMMA Advances ==
  ASSUME NEW run \in RunRow, NEW next \in RunStates \ {"none"}, run.state # "none",
         run.state \notin Final
  PROVE  /\ Advance(run, next) \in RunRow
         /\ Advance(run, next).seen = run.seen
         /\ Advance(run, next).state = next
         /\ Advance(run, next).human = run.human
         /\ run.ready => Advance(run, next).ready
         /\ run.join => Advance(run, next).join
<1>. DEFINE new == [run EXCEPT !.state = next,
                      !.ready = run.ready \/ next \in {"ready_no_join", "awaiting_human"},
                      !.join  = run.join \/ next = "awaiting_human"]
<1>1. Advance(run, next) = new
  BY DEF Advance
<1>2. /\ new \in RunRow /\ new.seen = run.seen /\ new.state = next
      /\ new.human = run.human /\ (run.ready => new.ready) /\ (run.join => new.join)
  BY DEF RunRow
<1>3. QED
  BY <1>1, <1>2

LEMMA Appended ==
  ASSUME NEW st \in Seq(StopRow), NEW by \in {"human", "admin", "failure"}
  PROVE  LET new == Append(st, [state |-> "pending", by |-> by])
         IN  /\ new \in Seq(StopRow) /\ new # <<>> /\ Len(new) = Len(st) + 1
             /\ Last(new).state = "pending" /\ Last(new).by = by
<1>. DEFINE row == [state |-> "pending", by |-> by]
<1>1. row \in StopRow /\ row.state = "pending" /\ row.by = by
  BY DEF StopRow, JobStates, OpenJob
<1>. HIDE DEF row
<1>2. /\ Append(st, row) \in Seq(StopRow) /\ Append(st, row) # <<>>
      /\ Len(Append(st, row)) = Len(st) + 1 /\ Last(Append(st, row)) = row
  BY <1>1 DEF Last
<1>3. QED
  BY <1>1, <1>2 DEF row

LEMMA FirstStop ==
  ASSUME NEW by \in {"human", "admin", "failure"}
  PROVE  LET new == Append(<<>>, [state |-> "pending", by |-> by])
         IN  /\ new \in Seq(StopRow) /\ new # <<>> /\ Len(new) <= 1 /\ Open(new)
             /\ Last(new).state = "pending" /\ Last(new).by = by
<1>. DEFINE new == Append(<<>>, [state |-> "pending", by |-> by])
<1>1. /\ new \in Seq(StopRow) /\ new # <<>> /\ Len(new) = Len(<<>>) + 1
      /\ Last(new).state = "pending" /\ Last(new).by = by
  <2>1. <<>> \in Seq(StopRow)
    OBVIOUS
  <2>2. QED
    BY <2>1, Appended
<1>. HIDE DEF new
<1>2. Len(<<>>) = 0
  OBVIOUS
<1>3. new \in Seq(StopRow) /\ new # <<>> /\ Len(new) <= 1 /\ Open(new)
      /\ Last(new).state = "pending" /\ Last(new).by = by
  BY <1>1, <1>2 DEF Open, OpenJob
<1>4. QED
  BY <1>3 DEF new

LEMMA LastChanged ==
  ASSUME NEW st \in Seq(StopRow), st # <<>>, NEW s \in JobStates
  PROVE  LET new == [st EXCEPT ![Len(st)].state = s]
         IN  /\ new \in Seq(StopRow) /\ new # <<>> /\ Len(new) = Len(st)
             /\ Last(new).state = s /\ Last(new).by = Last(st).by
<1>. DEFINE row == [st[Len(st)] EXCEPT !.state = s]
            new == [st EXCEPT ![Len(st)] = row]
<1>1. Len(st) \in 1..Len(st)
  OBVIOUS
<1>2. row \in StopRow /\ row.state = s /\ row.by = st[Len(st)].by
  <2>1. st[Len(st)] \in StopRow
    BY <1>1
  <2>2. QED
    BY <2>1 DEF StopRow
<1>. HIDE DEF row
<1>3. new \in Seq(StopRow) /\ Len(new) = Len(st) /\ new[Len(st)] = row
  BY <1>1, <1>2
<1>4. new # <<>> /\ Last(new).state = s /\ Last(new).by = Last(st).by
  BY <1>1, <1>2, <1>3 DEF Last
<1>5. [st EXCEPT ![Len(st)].state = s] = new
  BY <1>1 DEF row
<1>6. QED
  BY <1>3, <1>4, <1>5

LEMMA StopUpdated ==
  ASSUME Inv, NEW i \in RunIds, stops[i] # <<>>, NEW s \in JobStates,
         stops' = [stops EXCEPT ![i][Len(stops[i])].state = s]
  PROVE  \E st \in Seq(StopRow) : /\ stops' = [stops EXCEPT ![i] = st]
                                  /\ st # <<>> /\ Last(st).state = s
                                  /\ Len(st) = Len(stops[i]) /\ Last(st).by = Last(stops[i]).by
<1>1. stops[i] \in Seq(StopRow) /\ i \in DOMAIN stops
  BY DEF Inv, TablesOK
<1>. DEFINE new == [stops[i] EXCEPT ![Len(stops[i])].state = s]
<1>2. stops' = [stops EXCEPT ![i] = new]
  BY <1>1
<1>3. /\ new \in Seq(StopRow) /\ new # <<>> /\ Last(new).state = s
      /\ Len(new) = Len(stops[i]) /\ Last(new).by = Last(stops[i]).by
  BY <1>1, LastChanged, Zenon
<1>. HIDE DEF new
<1>4. QED
  BY <1>2, <1>3

LEMMA ReserveKeeps ==
  ASSUME Inv, NEW i \in RunIds, ReserveValidation(i)
  PROVE  Inv'
<1>. DEFINE run == [NoRun EXCEPT !.state = "create_pending", !.seen = Facts]
            att == [attempts[i] EXCEPT !.state = "reserved"]
            cr  == [creates[i] EXCEPT !.state = "pending"]
<1>1. /\ ~Used(i) /\ runs' = [runs EXCEPT ![i] = run]
      /\ attempts' = [attempts EXCEPT ![i] = att] /\ creates' = [creates EXCEPT ![i] = cr]
      /\ content.value # "unknown"
      /\ UNCHANGED <<binding, content, template, declared, servers, drifted, stops>>
  <2>1. content.value # "unknown" /\ UNCHANGED servers
    BY DEF ReserveValidation
  <2>2. QED
    BY <2>1 DEF ReserveValidation, machine, release, Inv, TablesOK
<1>2. Facts \in Seen
  BY DEF Facts, Seen, Inv, FactsOK
<1>3. /\ run \in RunRow /\ run.seen = Facts /\ run.state = "create_pending"
      /\ run.human = "pending"
  BY <1>2 DEF RunRow, NoRun, RunStates, Creating
<1>4. /\ att \in AttemptRow /\ cr \in CreateRow /\ cr.state = "pending"
      /\ cr.known = creates[i].known /\ att.state = "reserved"
  BY Rows DEF AttemptRow, AttemptStates, CreateRow, JobStates, OpenJob
<1>5. RowsAgree(run, att, cr, stops[i]) /\ VerdictAgrees(run, att, stops[i], servers[i])
  <2>1. stops[i] = <<>>
    BY <1>1, Rows DEF RowsAgree, Used
  <2>2. QED
    BY <1>1, <1>3, <1>4, <2>1, Rows DEF RowsAgree, VerdictAgrees, Used, Final
<1>6. SeenBefore(i)'
  <2>1. runs'[i] = run /\ drifted'[i] = FALSE
    BY <1>1 DEF Inv, TablesOK, SeenAgrees
  <2>. HIDE DEF run
  <2>2. QED
    BY <1>1, <1>2, <1>3, <2>1 DEF SeenBefore, Facts, Inv, FactsOK, ContentRow, TemplateRow
<1>. HIDE DEF run, att, cr
<1>7. TablesOK' /\ FactsOK'
  BY <1>1, <1>3, <1>4 DEF Inv, TablesOK, FactsOK
<1>8. ASSUME NEW j \in RunIds
      PROVE  /\ RowsAgree(runs'[j], attempts'[j], creates'[j], stops'[j])
             /\ VerdictAgrees(runs'[j], attempts'[j], stops'[j], servers'[j])
             /\ IF Used(j)' THEN SeenBefore(j)' ELSE ~drifted'[j]
  <2>1. CASE j = i
    BY <1>1, <1>3, <1>5, <1>6, <2>1 DEF Inv, TablesOK, Used
  <2>2. CASE j # i
    BY <1>1, <2>2 DEF Inv, TablesOK, WorkAgrees, SeenAgrees, SeenBefore, Used
  <2>3. QED
    BY <2>1, <2>2
<1>9. QED
  BY <1>7, <1>8 DEF Inv, WorkAgrees, SeenAgrees

\* A run with a place or with work has been reserved and has not ended.
LEMMA Alive ==
  ASSUME Inv, NEW i \in RunIds,
         Held(i) \/ creates[i].state \in OpenJob \/ StopOpen(i)
  PROVE  runs[i].state \in RunStates \ {"none"} /\ runs[i].state \notin Final
<1>1. runs[i] \in RunRow /\ RowsAgree(runs[i], attempts[i], creates[i], stops[i])
  BY Rows
<1>2. runs[i].state \in RunStates
  BY <1>1 DEF RunRow
<1>3. QED
  BY <1>1, <1>2 DEF RowsAgree, Held, Used, Released, StopOpen, Open, Last, OpenJob

LEMMA ClaimCreateKeeps == ASSUME Inv, NEW i \in RunIds, ClaimCreate(i) PROVE Inv'
<1>. DEFINE cr == [creates[i] EXCEPT !.state = "claimed"]
<1>1. /\ creates[i].state = "pending" /\ creates' = [creates EXCEPT ![i] = cr]
      /\ UNCHANGED <<binding, content, template, declared, servers, drifted, runs, attempts, stops>>
  BY DEF ClaimCreate, machine, release, Inv, TablesOK
<1>2. cr \in CreateRow /\ cr.state = "claimed" /\ cr.known = creates[i].known
  BY Rows DEF CreateRow, JobStates, OpenJob
<1>3. runs[i].state \notin Final /\ runs[i].state # "none"
  BY <1>1, Alive DEF OpenJob
<1>4. RowsAgree(runs[i], attempts[i], cr, stops[i])
  BY <1>1, <1>2, <1>3, Rows DEF RowsAgree
<1>5. VerdictAgrees(runs[i], attempts[i], stops[i], servers[i])
  BY Rows
<1>6. /\ runs' = [runs EXCEPT ![i] = runs[i]] /\ attempts' = [attempts EXCEPT ![i] = attempts[i]]
      /\ stops' = [stops EXCEPT ![i] = stops[i]]
      /\ runs[i] \in RunRow /\ attempts[i] \in AttemptRow /\ stops[i] \in Seq(StopRow)
  BY <1>1, Rows
<1>. HIDE DEF cr
<1>7. QED
  BY <1>1, <1>2, <1>4, <1>5, <1>6, RowStep

LEMMA ClaimStopKeeps == ASSUME Inv, NEW i \in RunIds, ClaimStop(i) PROVE Inv'
<1>1. /\ stops[i] # <<>> /\ Last(stops[i]).state = "pending"
      /\ creates[i].state \notin {"claimed", "accepted", "unknown"}
      /\ stops' = [stops EXCEPT ![i][Len(stops[i])].state = "claimed"]
      /\ UNCHANGED <<binding, content, template, declared, servers, drifted, runs, attempts, creates>>
  BY DEF ClaimStop, machine, release, Last
<1>2. PICK st \in Seq(StopRow) : /\ stops' = [stops EXCEPT ![i] = st]
                                 /\ st # <<>> /\ Last(st).state = "claimed"
                                 /\ Len(st) = Len(stops[i])
                                 /\ Last(st).by = Last(stops[i]).by
  BY <1>1, StopUpdated DEF JobStates, OpenJob
<1>3. runs[i].state \notin Final /\ runs[i].state # "none"
  BY <1>1, Alive DEF StopOpen, Last, OpenJob
<1>4. RowsAgree(runs[i], attempts[i], creates[i], st)
  BY <1>1, <1>2, <1>3, Rows DEF RowsAgree, OpenJob
<1>5. VerdictAgrees(runs[i], attempts[i], st, servers[i])
  BY <1>1, <1>2, <1>3, Rows DEF VerdictAgrees, Open, OpenJob, Final
<1>6. /\ runs' = [runs EXCEPT ![i] = runs[i]] /\ attempts' = [attempts EXCEPT ![i] = attempts[i]]
      /\ creates' = [creates EXCEPT ![i] = creates[i]]
      /\ runs[i] \in RunRow /\ attempts[i] \in AttemptRow /\ creates[i] \in CreateRow
  BY <1>1, Rows
<1>7. UNCHANGED <<binding, content, template, declared, servers, drifted>>
  BY <1>1
<1>8. QED
  BY <1>2, <1>3, <1>4, <1>5, <1>6, <1>7, RowStep

LEMMA PrepareCreateKeeps == ASSUME Inv, NEW i \in RunIds, PrepareCreate(i) PROVE Inv'
<1>. DEFINE cr  == [creates[i] EXCEPT !.frozen = TRUE]
            att == [attempts[i] EXCEPT
                      !.state = IF @ \in {"reserved", "create_unknown"} THEN "creating" ELSE @]
            run == [runs[i] EXCEPT
                      !.state = IF @ = "create_pending" THEN "create_observing" ELSE @]
<1>1. /\ creates[i].state \in {"claimed", "accepted", "unknown"}
      /\ creates' = [creates EXCEPT ![i] = cr] /\ attempts' = [attempts EXCEPT ![i] = att]
      /\ runs' = [runs EXCEPT ![i] = run]
      /\ UNCHANGED <<binding, content, template, declared, servers, drifted, stops>>
  BY DEF PrepareCreate, machine, release, Inv, TablesOK
<1>2. cr \in CreateRow /\ cr.state = creates[i].state /\ cr.known = creates[i].known
  BY Rows DEF CreateRow
<1>3. /\ att \in AttemptRow
      /\ att.state = "quarantined" => attempts[i].state = "quarantined"
      /\ attempts[i].state \in Terminal \cup {"quarantined"} => att.state = attempts[i].state
  BY Rows DEF AttemptRow, AttemptStates, Terminal
<1>4. runs[i].state \notin Final /\ runs[i].state # "none"
  BY <1>1, Alive DEF OpenJob
<1>5. /\ run \in RunRow /\ run.seen = runs[i].seen
      /\ run.state \notin Final /\ run.state # "none"
      /\ run.human = runs[i].human /\ run.ready = runs[i].ready /\ run.join = runs[i].join
      /\ runs[i].state = "quarantined" => run.state = "quarantined"
  BY <1>4, Rows DEF RunRow, RunStates, Creating, Final
<1>. HIDE DEF cr, att, run
<1>6. RowsAgree(run, att, cr, stops[i])
  BY <1>1, <1>2, <1>5, Rows DEF RowsAgree
<1>7. VerdictAgrees(run, att, stops[i], servers[i])
  BY <1>3, <1>5, Rows DEF VerdictAgrees, Final
<1>8. QED
  BY <1>1, <1>2, <1>3, <1>4, <1>5, <1>6, <1>7, Rows, RowStep


LEMMA AfterCreates ==
  ASSUME NEW run \in RunRow, run.state # "none", run.state \notin Final,
         NEW s \in {"accepted", "unknown", "succeeded", "rejected_no_effect", "failed_with_effect"},
         NEW identity \in BOOLEAN, NEW join \in BOOLEAN
  PROVE  LET next == AfterCreate(run, s, identity, join)
         IN  /\ next \in RunStates \ {"none"} /\ next # "passed"
             /\ next \in Final => s = "rejected_no_effect"
             /\ s = "failed_with_effect" /\ identity => next = "quarantined"
             /\ s = "rejected_no_effect" => next = "failed"
<1>1. run.state \in RunStates
  BY DEF RunRow
<1>2. QED
  BY <1>1 DEF AfterCreate, RunStates, Creating, Final

LEMMA ReportCreateKeeps == ASSUME Inv, NEW i \in RunIds, ReportCreate(i) PROVE Inv'
<1>1. PICK s \in {"accepted", "unknown", "succeeded", "rejected_no_effect", "failed_with_effect"},
           knows, identity, join \in BOOLEAN :
        LET known == creates[i].known \/ knows
        IN  /\ Permitted(creates[i].state, s)
            /\ knows => servers[i] # "none"
            /\ s \in {"accepted", "succeeded"} => known
            /\ IF s = "rejected_no_effect" THEN ~known ELSE creates[i].frozen
            /\ s = "failed_with_effect" => servers[i] # "none"
            /\ identity => s = "failed_with_effect"
            /\ join => s = "succeeded"
            /\ creates' = [creates EXCEPT ![i].state = s, ![i].known = known]
            /\ ApplyCreate(i, s, known, identity, join)
            /\ UNCHANGED <<machine, release, servers, drifted>>
  BY DEF ReportCreate
<1>. DEFINE known == creates[i].known \/ knows
            cr    == [creates[i] EXCEPT !.state = s, !.known = known]
            next  == AfterCreate(runs[i], s, identity, join)
<1>2. /\ creates[i].state \in {"claimed", "accepted", "unknown"}
      /\ s = "rejected_no_effect" => ~known
      /\ creates' = [creates EXCEPT ![i] = cr]
      /\ ApplyCreate(i, s, known, identity, join)
      /\ UNCHANGED <<binding, content, template, declared, servers, drifted>>
  BY <1>1 DEF Permitted, Inv, TablesOK, machine, release
<1>3. /\ cr \in CreateRow /\ cr.state = s /\ cr.known = known
      /\ known \in BOOLEAN /\ (creates[i].known => known)
  BY Rows DEF CreateRow, JobStates, OpenJob
<1>4. runs[i].state \in RunStates \ {"none"} /\ runs[i].state \notin Final
  BY <1>2, Alive DEF OpenJob
<1>5. /\ stops[i] # <<>> => known /\ Last(stops[i]).state = "pending"
      /\ s = "rejected_no_effect" => stops[i] = <<>>
  BY <1>2, <1>3, Rows DEF RowsAgree, OpenJob
<1>. HIDE DEF cr, known
<1>6. CASE ~Applies(i, s = "rejected_no_effect")
  <2>1. /\ runs' = [runs EXCEPT ![i] = runs[i]] /\ attempts' = [attempts EXCEPT ![i] = attempts[i]]
        /\ stops' = [stops EXCEPT ![i] = stops[i]]
    BY <1>2, <1>6, Rows DEF ApplyCreate
  <2>2. RowsAgree(runs[i], attempts[i], cr, stops[i])
    BY <1>2, <1>3, <1>4, <1>5, Rows DEF RowsAgree
  <2>3. VerdictAgrees(runs[i], attempts[i], stops[i], servers[i])
    BY Rows
  <2>4. QED
    BY <1>2, <1>3, <1>4, <2>1, <2>2, <2>3, Rows, RowStep
<1>7. CASE Applies(i, s = "rejected_no_effect")
  <2>. DEFINE cleanup == s = "failed_with_effect" /\ ~identity /\ known
              place   == IF cleanup THEN "stopping" ELSE PlaceAfterCreate(s, identity)
              att     == [attempts[i] EXCEPT !.state = place, !.join = @ \/ join]
              run     == Advance(runs[i], next)
              st      == IF cleanup THEN WithStop(i, "failure") ELSE stops[i]
  <2>1. /\ runs' = [runs EXCEPT ![i] = run] /\ attempts' = [attempts EXCEPT ![i] = att]
        /\ stops' = [stops EXCEPT ![i] = st]
    BY <1>2, <1>7, Rows DEF ApplyCreate, Inv, TablesOK
  <2>2. /\ place \in AttemptStates /\ (s = "rejected_no_effect" => place \in Terminal)
        /\ place = "quarantined" => s = "failed_with_effect" /\ identity
    BY DEF PlaceAfterCreate, AttemptStates, Terminal
  <2>3. att \in AttemptRow /\ att.state = place
    <3>. HIDE DEF place
    <3>1. QED
      BY <2>2, Rows DEF AttemptRow
  <2>4. /\ next \in RunStates \ {"none"} /\ next # "passed"
        /\ next \in Final => s = "rejected_no_effect"
        /\ s = "failed_with_effect" /\ identity => next = "quarantined"
    BY <1>4, Rows, AfterCreates
  <2>. HIDE DEF next, place, att
  <2>5. /\ run \in RunRow /\ run.seen = runs[i].seen /\ run.state = next
        /\ run.human = runs[i].human
        /\ (runs[i].ready => run.ready) /\ (runs[i].join => run.join)
    BY <1>4, <2>4, Rows, Advances
  <2>6. /\ st \in Seq(StopRow) /\ (st # <<>> => known /\ Last(st).state = "pending")
        /\ s = "rejected_no_effect" => st = <<>>
        /\ stops[i] # <<>> => st = stops[i]
        /\ Len(st) <= 1
    <3>1. CASE ~cleanup
      BY <1>5, <3>1, Rows DEF VerdictAgrees
    <3>2. CASE cleanup
      <4>1. CASE stops[i] = <<>>
        BY <1>5, <3>2, <4>1, Rows, FirstStop DEF WithStop, StopOpen
      <4>2. CASE stops[i] # <<>>
        <5>1. StopOpen(i) /\ Len(stops[i]) <= 1
          BY <1>5, <4>2, Rows DEF StopOpen, Last, OpenJob, VerdictAgrees
        <5>2. QED
          BY <1>5, <3>2, <4>2, <5>1, Rows DEF WithStop
      <4>3. QED
        BY <4>1, <4>2
    <3>3. QED
      BY <3>1, <3>2
  <2>. HIDE DEF run, st
  <2>7. RowsAgree(run, att, cr, st)
    BY <1>2, <1>3, <2>2, <2>3, <2>4, <2>5, <2>6 DEF RowsAgree, Open, OpenJob
  <2>8. VerdictAgrees(run, att, st, servers[i])
    BY <2>2, <2>3, <2>4, <2>5, <2>6, Rows DEF VerdictAgrees, Open, OpenJob
  <2>9. QED
    BY <1>2, <1>3, <1>4, <2>1, <2>3, <2>4, <2>5, <2>6, <2>7, <2>8, Rows, RowStep
<1>8. QED
  BY <1>6, <1>7

LEMMA ReportStopKeeps == ASSUME Inv, NEW i \in RunIds, ReportStop(i) PROVE Inv'
<1>1. PICK s \in {"accepted", "unknown", "succeeded", "failed_with_effect"} :
        /\ Permitted(Last(stops[i]).state, s)
        /\ stops' = [stops EXCEPT ![i][Len(stops[i])].state = s]
        /\ ApplyStop(i, s) /\ (s = "succeeded" => servers[i] = "gone")
  BY DEF ReportStop, Last
<1>2. /\ stops[i] # <<>> /\ Last(stops[i]).state \in {"claimed", "accepted", "unknown"}
      /\ UNCHANGED <<binding, content, template, declared, servers, drifted, creates>>
  BY <1>1 DEF ReportStop, Permitted, machine, release
<1>3. PICK st \in Seq(StopRow) : /\ stops' = [stops EXCEPT ![i] = st]
                                 /\ st # <<>> /\ Last(st).state = s
                                 /\ Len(st) = Len(stops[i])
                                 /\ Last(st).by = Last(stops[i]).by
  BY <1>1, <1>2, StopUpdated DEF JobStates, OpenJob
<1>4. runs[i].state \in RunStates \ {"none"} /\ runs[i].state \notin Final
  BY <1>2, Alive DEF StopOpen, Last, OpenJob
<1>5. creates[i].state \notin OpenJob /\ creates[i].known
  BY <1>2, Rows DEF RowsAgree
<1>6. creates' = [creates EXCEPT ![i] = creates[i]]
  BY <1>2, Rows
<1>7. CASE ~Applies(i, s = "succeeded")
  <2>1. runs' = [runs EXCEPT ![i] = runs[i]] /\ attempts' = [attempts EXCEPT ![i] = attempts[i]]
    BY <1>1, <1>7, Rows DEF ApplyStop
  <2>2. RowsAgree(runs[i], attempts[i], creates[i], st)
    BY <1>3, <1>4, <1>5, Rows DEF RowsAgree
  <2>3. VerdictAgrees(runs[i], attempts[i], st, servers[i])
    BY <1>1, <1>2, <1>3, <1>4, <1>7, Rows DEF VerdictAgrees, Applies, Released, Final
  <2>4. QED
    BY <1>2, <1>3, <1>4, <1>6, <2>1, <2>2, <2>3, Rows, RowStep
<1>8. CASE Applies(i, s = "succeeded")
  <2>. DEFINE next == AfterStop(runs[i], s)
              run  == Advance(runs[i], next)
              att  == [attempts[i] EXCEPT !.state = PlaceAfterStop(s)]
  <2>1. runs' = [runs EXCEPT ![i] = run] /\ attempts' = [attempts EXCEPT ![i] = att]
    BY <1>1, <1>8, Rows DEF ApplyStop, Inv, TablesOK
  <2>2. /\ next \in RunStates \ {"none"} /\ next # "passed"
        /\ next \in Final => s = "succeeded"
        /\ s = "failed_with_effect" => next = "quarantined"
    BY DEF AfterStop, RunStates, Final
  <2>3. /\ att \in AttemptRow /\ att.state = PlaceAfterStop(s)
        /\ s = "succeeded" => att.state \in Terminal
        /\ s = "failed_with_effect" <=> att.state = "quarantined"
    BY Rows DEF AttemptRow, AttemptStates, Terminal, PlaceAfterStop
  <2>. HIDE DEF next, att
  <2>4. /\ run \in RunRow /\ run.seen = runs[i].seen /\ run.state = next
        /\ run.human = runs[i].human
        /\ (runs[i].ready => run.ready) /\ (runs[i].join => run.join)
    BY <1>4, <2>2, Rows, Advances
  <2>. HIDE DEF run
  <2>5. RowsAgree(run, att, creates[i], st)
    BY <1>3, <1>5, <2>2, <2>3, <2>4, Rows DEF RowsAgree, Open, OpenJob
  <2>6. VerdictAgrees(run, att, st, servers[i])
    BY <1>1, <1>2, <1>3, <2>2, <2>3, <2>4, Rows DEF VerdictAgrees, Open, OpenJob
  <2>7. QED
    BY <1>2, <1>3, <1>4, <1>6, <2>1, <2>2, <2>3, <2>4, <2>5, <2>6, Rows, RowStep
<1>9. QED
  BY <1>7, <1>8

LEMMA FactReclaimedKeeps == ASSUME Inv, NEW i \in RunIds, FactReclaimed(i) PROVE Inv'
<1>. DEFINE att == [attempts[i] EXCEPT !.state = "reclaimed"]
<1>1. /\ Held(i) /\ attempts' = [attempts EXCEPT ![i] = att]
      /\ UNCHANGED <<binding, content, template, declared, servers, drifted>>
  BY DEF FactReclaimed, machine, release, Inv, TablesOK
<1>2. att \in AttemptRow /\ att.state = "reclaimed"
  BY Rows DEF AttemptRow, AttemptStates, Terminal
<1>3. runs[i].state # "none" /\ runs[i].state \notin Final
  BY <1>1, Alive
<1>. HIDE DEF att
<1>4. RowsAgree(runs[i], att, creates[i], stops[i])
  BY <1>3, Rows DEF RowsAgree
<1>5. VerdictAgrees(runs[i], att, stops[i], servers[i])
  BY <1>2, <1>3, Rows DEF VerdictAgrees, Terminal, Final
<1>6. /\ runs' = [runs EXCEPT ![i] = runs[i]] /\ creates' = [creates EXCEPT ![i] = creates[i]]
      /\ stops' = [stops EXCEPT ![i] = stops[i]]
      /\ runs[i] \in RunRow /\ creates[i] \in CreateRow /\ stops[i] \in Seq(StopRow)
  BY Rows DEF FactReclaimed
<1>7. QED
  BY <1>1, <1>2, <1>3, <1>4, <1>5, <1>6, RowStep

LEMMA FactFailedKeeps == ASSUME Inv, NEW i \in RunIds, FactFailed(i) PROVE Inv'
<1>. DEFINE next == AfterCreate(runs[i], "failed_with_effect", FALSE, FALSE)
            run  == Advance(runs[i], next)
            att  == [attempts[i] EXCEPT !.state = "stopping", !.join = @ \/ FALSE]
            st   == WithStop(i, "failure")
<1>1. /\ Held(i) /\ creates[i].known /\ attempts[i].state # "quarantined"
      /\ stops[i] # <<>> => StopOpen(i)
      /\ ApplyCreate(i, "failed_with_effect", TRUE, FALSE, FALSE)
      /\ UNCHANGED <<binding, content, template, declared, servers, drifted, creates>>
  BY Rows DEF FactFailed, machine, release, VerdictAgrees, Held, Released, StopOpen, Open, Last
<1>2. /\ runs' = [runs EXCEPT ![i] = run] /\ attempts' = [attempts EXCEPT ![i] = att]
      /\ stops' = [stops EXCEPT ![i] = st]
  BY <1>1 DEF ApplyCreate, Applies, Held, Inv, TablesOK
<1>3. runs[i].state \in RunStates \ {"none"} /\ runs[i].state \notin Final
  BY <1>1, Alive
<1>4. next \in RunStates \ {"none"} /\ next \notin Final /\ next # "passed"
  BY <1>3, Rows, AfterCreates
<1>5. att \in AttemptRow /\ att.state = "stopping"
  BY Rows DEF AttemptRow, AttemptStates
<1>6. /\ st \in Seq(StopRow) /\ st # <<>> /\ Open(st) /\ Len(st) <= 1
      /\ st = stops[i] \/ (stops[i] = <<>> /\ Last(st).state = "pending")
  <2>1. CASE stops[i] = <<>>
    BY <2>1, Rows, FirstStop DEF WithStop, StopOpen
  <2>2. CASE stops[i] # <<>>
    BY <1>1, <2>2, Rows DEF WithStop, StopOpen, Open, Last, VerdictAgrees
  <2>3. QED
    BY <2>1, <2>2
<1>. HIDE DEF next, att, st
<1>7. /\ run \in RunRow /\ run.seen = runs[i].seen /\ run.state = next
      /\ run.human = runs[i].human
      /\ (runs[i].ready => run.ready) /\ (runs[i].join => run.join)
  BY <1>3, <1>4, Rows, Advances
<1>. HIDE DEF run
<1>8. RowsAgree(run, att, creates[i], st)
  BY <1>1, <1>4, <1>6, <1>7, Rows DEF RowsAgree
<1>9. VerdictAgrees(run, att, st, servers[i])
  BY <1>4, <1>5, <1>6, <1>7, Rows DEF VerdictAgrees, Open, OpenJob
<1>10. creates' = [creates EXCEPT ![i] = creates[i]] /\ creates[i] \in CreateRow
  BY <1>1, Rows
<1>11. QED
  BY <1>1, <1>2, <1>3, <1>4, <1>5, <1>6, <1>7, <1>8, <1>9, <1>10, RowStep

LEMMA QuarantineKeeps == ASSUME Inv, NEW i \in RunIds, Held(i), Quarantined(i) PROVE Inv'
<1>. DEFINE run == Advance(runs[i], "quarantined")
            att == [attempts[i] EXCEPT !.state = "quarantined"]
<1>1. /\ runs' = [runs EXCEPT ![i] = run] /\ attempts' = [attempts EXCEPT ![i] = att]
      /\ UNCHANGED <<binding, content, template, declared, servers, drifted, creates, stops>>
  BY DEF Quarantined, machine, release, Inv, TablesOK
<1>2. runs[i].state # "none" /\ runs[i].state \notin Final
  BY Alive
<1>3. /\ run \in RunRow /\ run.seen = runs[i].seen /\ run.state = "quarantined"
      /\ run.human = runs[i].human
      /\ (runs[i].ready => run.ready) /\ (runs[i].join => run.join)
  BY <1>2, Rows, Advances DEF RunStates
<1>4. att \in AttemptRow /\ att.state = "quarantined"
  BY Rows DEF AttemptRow, AttemptStates
<1>. HIDE DEF run, att
<1>5. RowsAgree(run, att, creates[i], stops[i])
  BY <1>2, <1>3, Rows DEF RowsAgree, Final
<1>6. VerdictAgrees(run, att, stops[i], servers[i])
  BY <1>3, <1>4, Rows DEF VerdictAgrees
<1>7. /\ creates' = [creates EXCEPT ![i] = creates[i]] /\ stops' = [stops EXCEPT ![i] = stops[i]]
      /\ creates[i] \in CreateRow /\ stops[i] \in Seq(StopRow)
  BY <1>1, Rows
<1>8. QED
  BY <1>1, <1>2, <1>3, <1>4, <1>5, <1>6, <1>7, RowStep

LEMMA FactReadyKeeps == ASSUME Inv, NEW i \in RunIds, FactReady(i) PROVE Inv'
<1>1. PICK join \in BOOLEAN :
        /\ attempts' = [attempts EXCEPT ![i].join = @ \/ join]
        /\ runs' = [runs EXCEPT ![i] =
             IF @.state \in Creating \cup {"create_unknown", "ready_no_join"}
             THEN Advance(@, IF join THEN "awaiting_human" ELSE "ready_no_join")
             ELSE @]
  BY DEF FactReady
<1>. DEFINE next == IF join THEN "awaiting_human" ELSE "ready_no_join"
            att  == [attempts[i] EXCEPT !.join = @ \/ join]
            run  == IF runs[i].state \in Creating \cup {"create_unknown", "ready_no_join"}
                    THEN Advance(runs[i], next) ELSE runs[i]
<1>2. /\ Held(i) /\ runs' = [runs EXCEPT ![i] = run] /\ attempts' = [attempts EXCEPT ![i] = att]
      /\ UNCHANGED <<binding, content, template, declared, servers, drifted, creates, stops>>
  BY <1>1 DEF FactReady, machine, release, Inv, TablesOK
<1>3. runs[i].state # "none" /\ runs[i].state \notin Final
  BY <1>2, Alive
<1>4. next \in RunStates \ {"none"} /\ next \notin Final
  BY DEF RunStates, Final
<1>5. att \in AttemptRow /\ att.state = attempts[i].state
  BY Rows DEF AttemptRow
<1>. HIDE DEF next, att
<1>6. /\ run \in RunRow /\ run.seen = runs[i].seen /\ run.state # "none"
      /\ run.state \notin Final /\ run.human = runs[i].human
      /\ (runs[i].ready => run.ready) /\ (runs[i].join => run.join)
      /\ runs[i].state = "quarantined" => run.state = "quarantined"
  BY <1>3, <1>4, Rows, Advances DEF Creating
<1>. HIDE DEF run
<1>7. RowsAgree(run, att, creates[i], stops[i])
  BY <1>3, <1>6, Rows DEF RowsAgree
<1>8. VerdictAgrees(run, att, stops[i], servers[i])
  BY <1>5, <1>6, Rows DEF VerdictAgrees, Final
<1>9. /\ creates' = [creates EXCEPT ![i] = creates[i]] /\ stops' = [stops EXCEPT ![i] = stops[i]]
      /\ creates[i] \in CreateRow /\ stops[i] \in Seq(StopRow)
  BY <1>2, Rows
<1>10. QED
  BY <1>2, <1>3, <1>5, <1>6, <1>7, <1>8, <1>9, RowStep

LEMMA ConfirmKeeps == ASSUME Inv, NEW i \in RunIds, ConfirmHuman(i) PROVE Inv'
<1>1. PICK result \in {"pass", "fail"} :
        /\ result = "pass" => runs[i].ready /\ runs[i].join
        /\ runs' = [runs EXCEPT ![i].human = result, ![i].state = "stop_pending"]
  BY DEF ConfirmHuman
<1>. DEFINE run == [runs[i] EXCEPT !.human = result, !.state = "stop_pending"]
            att == [attempts[i] EXCEPT !.state = "stopping"]
            st  == Append(stops[i], [state |-> "pending", by |-> "human"])
<1>2. /\ ~StopOpen(i) /\ creates[i].known /\ creates[i].state = "succeeded" /\ attempts[i].state = "running"
      /\ runs' = [runs EXCEPT ![i] = run] /\ attempts' = [attempts EXCEPT ![i] = att]
      /\ stops' = [stops EXCEPT ![i] = st]
      /\ UNCHANGED <<binding, content, template, declared, servers, drifted, creates>>
  BY <1>1 DEF ConfirmHuman, machine, release, Inv, TablesOK
<1>3. runs[i].state # "none"
  BY <1>2, Rows DEF RowsAgree
<1>4. /\ run \in RunRow /\ run.seen = runs[i].seen /\ run.state = "stop_pending"
      /\ run.human = result /\ run.ready = runs[i].ready /\ run.join = runs[i].join
  BY Rows DEF RunRow, RunStates
<1>5. att \in AttemptRow /\ att.state = "stopping"
  BY Rows DEF AttemptRow, AttemptStates
<1>6. stops[i] = <<>> /\ stops[i] \in Seq(StopRow)
  BY <1>2, Rows DEF VerdictAgrees, StopOpen, Open, Last, Terminal
<1>7. /\ st \in Seq(StopRow) /\ st # <<>> /\ Len(st) <= 1
      /\ Last(st).state = "pending" /\ Last(st).by = "human"
  BY <1>6, FirstStop
<1>. HIDE DEF run, att, st
<1>8. RowsAgree(run, att, creates[i], st)
  BY <1>2, <1>4 DEF RowsAgree, Final, OpenJob
<1>9. VerdictAgrees(run, att, st, servers[i])
  BY <1>1, <1>4, <1>5, <1>7 DEF VerdictAgrees, Open, OpenJob
<1>10. creates' = [creates EXCEPT ![i] = creates[i]] /\ creates[i] \in CreateRow
  BY <1>2, Rows
<1>11. QED
  BY <1>2, <1>3, <1>4, <1>5, <1>7, <1>8, <1>9, <1>10, RowStep

LEMMA StopKeeps == ASSUME Inv, NEW i \in RunIds, StopValidation(i) PROVE Inv'
<1>. DEFINE row == [state |-> "pending", by |-> "admin"]
            run == [runs[i] EXCEPT !.state = "stop_pending"]
            att == [attempts[i] EXCEPT !.state = "stopping"]
            st  == <<row>>
<1>1. /\ creates[i].known /\ Used(i) /\ stops[i] = <<>>
      /\ runs' = [runs EXCEPT ![i] = run] /\ attempts' = [attempts EXCEPT ![i] = att]
      /\ stops' = [stops EXCEPT ![i] = st]
      /\ UNCHANGED <<binding, content, template, declared, servers, drifted, creates>>
  BY DEF StopValidation, machine, release, Inv, TablesOK
<1>2. /\ run \in RunRow /\ run.seen = runs[i].seen /\ run.state = "stop_pending"
      /\ run.human = runs[i].human /\ run.ready = runs[i].ready /\ run.join = runs[i].join
  BY Rows DEF RunRow, RunStates
<1>3. att \in AttemptRow /\ att.state = "stopping"
  BY Rows DEF AttemptRow, AttemptStates
<1>4. st \in Seq(StopRow) /\ Last(st).state = "pending" /\ st # <<>> /\ Len(st) <= 1
  <2>1. row \in StopRow /\ row.state = "pending"
    BY DEF StopRow, JobStates, OpenJob
  <2>. HIDE DEF row
  <2>2. QED
    BY <2>1 DEF Last
<1>. HIDE DEF run, att, st
<1>5. RowsAgree(run, att, creates[i], st)
  BY <1>1, <1>2, <1>4, Rows DEF RowsAgree, Final
<1>6. VerdictAgrees(run, att, st, servers[i])
  BY <1>1, <1>2, <1>3, <1>4, Rows DEF VerdictAgrees, Open, OpenJob
<1>7. creates' = [creates EXCEPT ![i] = creates[i]] /\ creates[i] \in CreateRow
  BY <1>1, Rows
<1>8. QED
  BY <1>1, <1>2, <1>3, <1>4, <1>5, <1>6, <1>7, RowStep DEF Used

LEMMA TerminateKeeps == ASSUME Inv, NEW i \in RunIds, TerminatePending(i) PROVE Inv'
<1>. DEFINE cr  == [creates[i] EXCEPT !.state = "rejected_no_effect"]
            att == [attempts[i] EXCEPT !.state = "released_no_effect"]
            run == Advance(runs[i], "failed")
<1>1. /\ creates[i].state = "pending" /\ creates' = [creates EXCEPT ![i] = cr]
      /\ runs' = [runs EXCEPT ![i] = run] /\ attempts' = [attempts EXCEPT ![i] = att]
      /\ UNCHANGED <<binding, content, template, declared, servers, drifted, stops>>
  BY DEF TerminatePending, machine, release, Inv, TablesOK
<1>2. runs[i].state # "none" /\ runs[i].state \notin Final
  BY <1>1, Alive DEF OpenJob
<1>3. /\ run \in RunRow /\ run.seen = runs[i].seen /\ run.state = "failed"
      /\ run.human = runs[i].human
      /\ (runs[i].ready => run.ready) /\ (runs[i].join => run.join)
  BY <1>2, Rows, Advances DEF RunStates, Final
<1>4. /\ att \in AttemptRow /\ att.state \in Terminal /\ cr \in CreateRow
      /\ cr.state = "rejected_no_effect" /\ cr.known = creates[i].known
  BY Rows DEF AttemptRow, AttemptStates, Terminal, CreateRow, JobStates
<1>5. ~creates[i].known /\ stops[i] = <<>> /\ stops[i] \in Seq(StopRow)
  BY <1>1, Rows DEF RowsAgree
<1>. HIDE DEF run, att, cr
<1>6. RowsAgree(run, att, cr, stops[i])
  BY <1>3, <1>4, <1>5 DEF RowsAgree, Open, OpenJob
<1>7. VerdictAgrees(run, att, stops[i], servers[i])
  BY <1>3, <1>4, <1>5, Rows DEF VerdictAgrees, Terminal, Open
<1>8. stops' = [stops EXCEPT ![i] = stops[i]]
  BY <1>1, Rows
<1>9. QED
  BY <1>1, <1>2, <1>3, <1>4, <1>5, <1>6, <1>7, <1>8, RowStep

\* A run ends when its attempt is released and nobody works on its jobs.
Ends(i, s) ==
  /\ runs' = [runs EXCEPT ![i].state = s]
  /\ UNCHANGED <<machine, release, attempts, creates, stops, servers, drifted>>

LEMMA EndKeeps ==
  ASSUME Inv, NEW i \in RunIds, NEW s \in Final, Used(i), Released(i), ~Unresolved(i), Ends(i, s),
         s = "passed" => /\ runs[i].human = "pass" /\ attempts[i].state = "reclaimed"
                         /\ stops[i] # <<>> /\ Last(stops[i]).state = "succeeded"
  PROVE  Inv'
<1>. DEFINE run == [runs[i] EXCEPT !.state = s]
<1>1. /\ runs' = [runs EXCEPT ![i] = run]
      /\ UNCHANGED <<binding, content, template, declared, servers, drifted, attempts, creates, stops>>
  BY DEF Ends, machine, release, Inv, TablesOK
<1>2. /\ run \in RunRow /\ run.seen = runs[i].seen /\ run.state \in Final /\ run.state # "none"
      /\ run.human = runs[i].human /\ run.ready = runs[i].ready /\ run.join = runs[i].join
      /\ run.state = s
  BY Rows DEF RunRow, RunStates, Final
<1>. HIDE DEF run
<1>3. RowsAgree(run, attempts[i], creates[i], stops[i])
  <2>1. attempts[i].state \in Terminal /\ creates[i].state \notin OpenJob /\ ~Open(stops[i])
    BY DEF Released, Unresolved, StopOpen, Open, Last
  <2>2. QED
    BY <1>2, <2>1, Rows DEF RowsAgree, Used
<1>4. VerdictAgrees(run, attempts[i], stops[i], servers[i])
  <2>1. attempts[i].state # "quarantined"
    BY DEF Released, Terminal
  <2>2. QED
    BY <1>2, <2>1, Rows DEF VerdictAgrees
<1>5. /\ attempts' = [attempts EXCEPT ![i] = attempts[i]]
      /\ creates' = [creates EXCEPT ![i] = creates[i]] /\ stops' = [stops EXCEPT ![i] = stops[i]]
      /\ attempts[i] \in AttemptRow /\ creates[i] \in CreateRow /\ stops[i] \in Seq(StopRow)
  BY <1>1, Rows
<1>6. /\ runs' = [runs EXCEPT ![i] = run] /\ runs[i].state # "none"
      /\ UNCHANGED <<binding, content, template, declared, servers, drifted>>
  BY <1>1 DEF Used
<1>7. QED
  BY <1>2, <1>3, <1>4, <1>5, <1>6, RowStep

LEMMA FinalizeKeeps ==
  ASSUME Inv, NEW i \in RunIds, FinalizeRun(i) \/ FinalizeFailure(i)
  PROVE  Inv'
<1>1. ASSUME Waiting(i) PROVE Used(i) /\ Released(i)
  BY <1>1, Rows DEF Waiting, Released, Used, RowsAgree, Terminal
<1>2. CASE FinalizeRun(i)
  <2>1. /\ Waiting(i) /\ ~Unresolved(i)
        /\ runs[i].human = "pass" /\ attempts[i].state = "reclaimed"
        /\ stops[i] # <<>> /\ Last(stops[i]).state = "succeeded"
    BY <1>2 DEF FinalizeRun, Passing, Proven, Last
  <2>2. QED
    BY <1>1, <1>2, <2>1, EndKeeps DEF FinalizeRun, Ends, Final
<1>3. CASE FinalizeFailure(i)
  <2>1. Waiting(i) /\ ~Unresolved(i)
    BY <1>3 DEF FinalizeFailure, Failing
  <2>2. QED
    BY <1>1, <1>3, <2>1, EndKeeps DEF FinalizeFailure, Ends, Final
<1>4. QED
  BY <1>2, <1>3

LEMMA EntryKeeps == ASSUME Inv, EntryChanges PROVE Inv'
<1>1. /\ attempts' = [i \in RunIds |-> [attempts[i] EXCEPT !.join = FALSE]]
      /\ UNCHANGED <<binding, content, template, declared, servers, drifted, runs, creates, stops>>
  BY DEF EntryChanges, machine, release
<1>2. ASSUME NEW i \in RunIds
      PROVE  attempts'[i] \in AttemptRow /\ attempts'[i].state = attempts[i].state
  BY <1>1, Rows DEF AttemptRow
<1>3. TablesOK' /\ FactsOK'
  BY <1>1, <1>2 DEF Inv, TablesOK, FactsOK
<1>4. WorkAgrees'
  BY <1>1, <1>2 DEF Inv, WorkAgrees, RowsAgree, VerdictAgrees
<1>5. SeenAgrees'
  BY <1>1 DEF Inv, SeenAgrees, SeenBefore, Used
<1>6. QED
  BY <1>3, <1>4, <1>5 DEF Inv

\* The rest of the steps: scans, servers, releases, switches and players.
LEMMA OthersKeep ==
  ASSUME Inv,
         \/ RecordInventory \/ GoStale \/ PublishPaused \/ UpdatePreset \/ UpdateBinding
         \/ Admit \/ PlayerEnds \/ UNCHANGED vars
         \/ \E i \in RunIds : CoreStarts(i) \/ ServerGoes(i) \/ PublishRelease(i)
  PROVE  Inv'
<1>1. UNCHANGED <<content, template, declared, drifted, work>>
  BY DEF RecordInventory, GoStale, PublishPaused, UpdatePreset, UpdateBinding, Admit, PlayerEnds,
         CoreStarts, ServerGoes, PublishRelease, vars, machine
<1>2. binding' = binding \/ \E closed \in BOOLEAN : binding' = [binding EXCEPT !.closed = closed]
  BY DEF RecordInventory, GoStale, PublishPaused, UpdatePreset, UpdateBinding, Admit, PlayerEnds,
         CoreStarts, ServerGoes, PublishRelease, vars, release
<1>3. binding' \in [closed : BOOLEAN, epoch : Nat] /\ binding'.epoch = binding.epoch
  BY <1>2 DEF Inv, FactsOK
<1>4. /\ servers' \in [RunIds -> {"none", "up", "gone"}]
      /\ \A i \in RunIds : servers[i] = "gone" => servers'[i] = "gone"
  <2>1. CASE servers' = servers
    BY <2>1 DEF Inv, TablesOK
  <2>2. ASSUME NEW i \in RunIds, CoreStarts(i) \/ ServerGoes(i)
        PROVE  /\ servers' \in [RunIds -> {"none", "up", "gone"}]
               /\ \A j \in RunIds : servers[j] = "gone" => servers'[j] = "gone"
    BY <2>2 DEF CoreStarts, ServerGoes, Inv, TablesOK
  <2>3. QED
    BY <2>1, <2>2 DEF RecordInventory, GoStale, PublishPaused, UpdatePreset, UpdateBinding, Admit,
       PlayerEnds, PublishRelease, vars
<1>5. QED
  BY <1>1, <1>3, <1>4, RowsStay

LEMMA InvStarts == Init => Inv
<1>. SUFFICES ASSUME Init PROVE Inv
  OBVIOUS
<1>1. FactsOK
  BY ValidationAssumption DEF Init, FactsOK, ContentRow, TemplateRow
<1>2. NoRun \in RunRow /\ NoAttempt \in AttemptRow /\ NoCreate \in CreateRow
  BY DEF NoRun, NoAttempt, NoCreate, RunRow, AttemptRow, CreateRow, RunStates, AttemptStates
<1>3. TablesOK
  BY <1>2 DEF Init, TablesOK
<1>4. WorkAgrees
  BY DEF Init, WorkAgrees, RowsAgree, VerdictAgrees, NoRun, NoAttempt, NoCreate, Final
<1>5. SeenAgrees
  BY DEF Init, SeenAgrees, Used, NoRun
<1>6. QED
  BY <1>1, <1>3, <1>4, <1>5 DEF Inv

LEMMA InvSteps == Inv /\ [Next]_vars => Inv'
<1>. SUFFICES ASSUME Inv, [Next]_vars PROVE Inv'
  OBVIOUS
<1>1. CASE NodeStep
  BY <1>1, HeartbeatKeeps, EntryKeeps, OthersKeep DEF NodeStep
<1>2. CASE AdminStep
  BY <1>2, MaintenanceKeeps, DeclareKeeps, ReserveKeeps, ConfirmKeeps, StopKeeps, TerminateKeeps,
     QuarantineKeeps, OthersKeep DEF AdminStep, Quarantine
<1>3. CASE ServeStep
  BY <1>3, FinalizeKeeps, OthersKeep DEF ServeStep
<1>4. ASSUME NEW i \in RunIds, JobStep(i) PROVE Inv'
  BY <1>4, ClaimCreateKeeps, ClaimStopKeeps, PrepareCreateKeeps, ReportCreateKeeps,
     ReportStopKeeps, FactReclaimedKeeps, FactFailedKeeps, FactReadyKeeps, QuarantineKeeps
  DEF JobStep, FactUnverified
<1>5. CASE UNCHANGED vars
  BY <1>5, OthersKeep
<1>6. QED
  BY <1>1, <1>2, <1>3, <1>4, <1>5 DEF Next

-----------------------------------------------------------------------------
(* What follows from it. *)

\* The rows and the facts of maintenance agree, however many runs there are and in
\* whatever order reports, facts, administrators and the finaliser come
\* (validation_ledger.go, node_jobs_api.go, nodes.go).
THEOREM InvHolds == Spec => []Inv
<1>. QED
  BY InvStarts, InvSteps, PTL DEF Spec

\* A proof that counts rests on facts that have not changed since its run was
\* reserved: effectiveProof in proof.go compares counters, and each counter moves
\* whenever the fact it stands for does.
THEOREM NoStaleProof == Spec => []ProofStands
<1>1. Inv => ProofStands
  <2>. SUFFICES ASSUME Inv, NEW i \in RunIds, EffectiveProof(i), drifted[i] PROVE FALSE
    BY DEF ProofStands
  <2>1. Used(i) /\ runs[i].seen = Facts
    BY DEF EffectiveProof, Current, Used
  <2>2. SeenBefore(i)
    BY <2>1 DEF Inv, SeenAgrees
  <2>3. /\ binding.epoch \in Nat /\ content.revision \in Nat /\ template.revision \in Nat
        /\ declared.generation \in Nat
    BY DEF Inv, FactsOK, ContentRow, TemplateRow
  <2>4. QED
    BY <2>1, <2>2, <2>3 DEF SeenBefore, Facts
<1>2. QED
  BY <1>1, InvHolds, PTL

\* A validation run that has ended has given back its place, and nobody works on
\* its jobs, by whichever way it ended: a report, an administrator or the finaliser.
THEOREM EndedIsOver == Spec => []EndedRunHoldsNothing
<1>1. Inv => EndedRunHoldsNothing
  BY DEF Inv, WorkAgrees, RowsAgree, EndedRunHoldsNothing, Released, Unresolved, StopOpen,
         Open, Last
<1>2. QED
  BY <1>1, InvHolds, PTL

-----------------------------------------------------------------------------
(* A pass is a person's. *)

LEMMA OneStop ==
  ASSUME NEW st \in Seq(StopRow), st # <<>>, Len(st) <= 1
  PROVE  st = <<Last(st)>> /\ Last(st) \in StopRow
<1>1. Len(st) \in Nat /\ Len(st) # 0
  OBVIOUS
<1>2. Len(st) = 1
  <2>1. \A n \in Nat : n # 0 /\ n <= 1 => n = 1
    OBVIOUS
  <2>2. QED
    BY <1>1, <2>1
<1>3. st[1] \in StopRow
  BY <1>2
<1>4. st = <<st[1]>>
  BY <1>2
<1>5. QED
  BY <1>2, <1>3, <1>4 DEF Last

\* What has passed was ready, joined, said to pass, and taken down by the one stop
\* of that verdict: the guards of ConfirmValidationHuman and FinalizeValidationRun
\* with what VerdictAgrees adds, that a run never has a second stop and that nothing
\* brings an attempt back whose stop is over.
THEOREM PassedByAPerson == Spec => []PassIsHuman
<1>1. Inv => PassIsHuman
  <2>. SUFFICES ASSUME Inv, NEW i \in RunIds, runs[i].state = "passed"
                PROVE  /\ runs[i].human = "pass" /\ runs[i].ready /\ runs[i].join
                       /\ servers[i] = "gone" /\ attempts[i].state = "reclaimed"
                       /\ stops[i] = <<[state |-> "succeeded", by |-> "human"]>>
    BY DEF PassIsHuman
  <2>1. /\ runs[i].human = "pass" /\ attempts[i].state = "reclaimed"
        /\ stops[i] # <<>> /\ Last(stops[i]).state = "succeeded"
        /\ Len(stops[i]) <= 1 /\ stops[i] \in Seq(StopRow)
    BY Rows DEF VerdictAgrees
  <2>2. runs[i].ready /\ runs[i].join /\ servers[i] = "gone" /\ Last(stops[i]).by = "human"
    BY <2>1, Rows DEF VerdictAgrees
  <2>3. stops[i] = <<Last(stops[i])>> /\ Last(stops[i]) \in StopRow
    BY <2>1, OneStop
  <2>4. Last(stops[i]) = [state |-> "succeeded", by |-> "human"]
    BY <2>1, <2>2, <2>3 DEF StopRow
  <2>5. QED
    BY <2>1, <2>2, <2>3, <2>4
<1>2. QED
  BY <1>1, InvHolds, PTL

-----------------------------------------------------------------------------
(* The finaliser misses no run. *)

\* The four ways in which an attempt is released.
LEMMA ReleasedBy ==
  ASSUME Inv, [Next]_vars, NEW i \in RunIds, Held(i), Released(i)'
  PROVE  ReportCreate(i) \/ ReportStop(i) \/ FactReclaimed(i) \/ TerminatePending(i)
<1>1. attempts'[i].state # attempts[i].state
  BY DEF Held, Released
<1>2. CASE NodeStep
  <2>1. CASE EntryChanges
    <3>1. attempts'[i].state = attempts[i].state
      BY <2>1, Rows DEF EntryChanges, AttemptRow
    <3>2. QED
      BY <1>1, <3>1
  <2>2. CASE ~EntryChanges
    BY <1>1, <1>2, <2>2 DEF NodeStep, RecordInventory, RecordHeartbeat, GoStale, CoreStarts,
       ServerGoes, work
  <2>3. QED
    BY <2>1, <2>2
<1>3. CASE ServeStep
  BY <1>1, <1>3 DEF ServeStep, Admit, PlayerEnds, FinalizeRun, FinalizeFailure, work
<1>4. CASE UNCHANGED vars
  BY <1>1, <1>4 DEF vars, work
<1>5. CASE AdminStep
  <2>1. CASE BeginMaintenance \/ DeclareTemplate \/ PublishPaused \/ UpdatePreset \/ UpdateBinding
    BY <1>1, <2>1 DEF BeginMaintenance, DeclareTemplate, PublishPaused, UpdatePreset,
       UpdateBinding, work
  <2>2. ASSUME NEW j \in RunIds,
               \/ ReserveValidation(j) \/ ConfirmHuman(j) \/ StopValidation(j)
               \/ TerminatePending(j) \/ Quarantine(j) \/ PublishRelease(j)
        PROVE  TerminatePending(i)
    <3>1. j = i
      BY <1>1, <2>2 DEF ReserveValidation, ConfirmHuman, StopValidation, TerminatePending,
         Quarantine, Quarantined, PublishRelease, work, Inv, TablesOK
    <3>2. ~ReserveValidation(i) /\ ~ConfirmHuman(i) /\ ~StopValidation(i) /\ ~Quarantine(i)
      BY Rows DEF ReserveValidation, ConfirmHuman, StopValidation, Quarantine, Quarantined,
         Released, Terminal, Inv, TablesOK, AttemptRow
    <3>3. ~PublishRelease(i)
      BY <1>1 DEF PublishRelease, work
    <3>4. QED
      BY <2>2, <3>1, <3>2, <3>3
  <2>3. QED
    BY <1>5, <2>1, <2>2 DEF AdminStep
<1>6. ASSUME NEW j \in RunIds, JobStep(j)
      PROVE  ReportCreate(i) \/ ReportStop(i) \/ FactReclaimed(i)
  <2>1. CASE j # i
    <3>1. ~PrepareCreate(j) /\ ~FactReclaimed(j) /\ ~FactUnverified(j) /\ ~FactReady(j)
      BY <1>1, <2>1 DEF PrepareCreate, FactReclaimed, FactUnverified, FactReady, Quarantined, Inv,
         TablesOK
    <3>2. ~ReportStop(j)
      BY <1>1, <2>1 DEF ReportStop, ApplyStop, Inv, TablesOK
    <3>3. ASSUME NEW s, NEW known, NEW identity, NEW join, ApplyCreate(j, s, known, identity, join)
          PROVE  FALSE
      BY <1>1, <2>1, <3>3 DEF ApplyCreate, Inv, TablesOK
    <3>4. ~ReportCreate(j) /\ ~FactFailed(j)
      BY <3>3 DEF ReportCreate, FactFailed
    <3>5. QED
      BY <1>1, <1>6, <3>1, <3>2, <3>4 DEF JobStep, ClaimCreate, ClaimStop
  <2>2. ~ClaimCreate(i) /\ ~ClaimStop(i)
    BY <1>1 DEF ClaimCreate, ClaimStop
  <2>3. ~PrepareCreate(i) /\ ~FactUnverified(i) /\ ~FactReady(i)
    BY <1>1, Rows DEF PrepareCreate, FactUnverified, Quarantined, FactReady, Released, Terminal,
       Inv, TablesOK, AttemptRow
  <2>4. ~FactFailed(i)
    <3>1. ASSUME ApplyCreate(i, "failed_with_effect", TRUE, FALSE, FALSE)
          PROVE  attempts' = attempts \/ attempts'[i].state = "stopping"
      <4>1. CASE Applies(i, FALSE)
        <5>1. attempts' = [attempts EXCEPT ![i].state = "stopping", ![i].join = @ \/ FALSE]
          BY <3>1, <4>1 DEF ApplyCreate
        <5>2. QED
          BY <5>1, Rows DEF Inv, TablesOK, AttemptRow
      <4>2. QED
        BY <3>1, <4>1 DEF ApplyCreate
    <3>2. QED
      BY <1>1, <3>1 DEF FactFailed, Released, Terminal
  <2>5. QED
    BY <1>6, <2>1, <2>2, <2>3, <2>4 DEF JobStep
<1>7. QED
  BY <1>2, <1>3, <1>4, <1>5, <1>6 DEF Next

LEMMA ReleaseIsTakenUp ==
  ASSUME Inv, [Next]_vars, NEW i \in RunIds, Held(i), Released(i)', ~Unresolved(i)'
  PROVE  (runs[i].state \in Final \/ Passing(i) \/ Failing(i))'
<1>1. runs[i].state # "none" /\ runs[i].state \notin Final
  BY Alive
<1>2. SUFFICES \/ runs'[i].state \in Final \/ runs'[i].human # "pass"
               \/ runs'[i].state \in {"reclaim_observing", "quarantined"}
  BY DEF Passing, Failing, Waiting
<1>3. CASE ReportCreate(i)
  <2>1. PICK s \in {"accepted", "unknown", "succeeded", "rejected_no_effect", "failed_with_effect"},
             known, identity, join \in BOOLEAN : ApplyCreate(i, s, known, identity, join)
    <3>1. creates[i].known \in BOOLEAN
      BY Rows DEF CreateRow
    <3>2. QED
      BY <1>3, <3>1 DEF ReportCreate
  <2>2. s = "rejected_no_effect" /\ runs'[i] = Advance(runs[i], AfterCreate(runs[i], s, identity, join))
    <3>1. Applies(i, s = "rejected_no_effect")
      BY <2>1, Rows DEF ApplyCreate, Held, Released
    <3>2. QED
      BY <2>1, <3>1, Rows DEF ApplyCreate, PlaceAfterCreate, Released, Terminal, Inv, TablesOK, AttemptRow
  <2>3. AfterCreate(runs[i], s, identity, join) = "failed"
    BY <2>2 DEF AfterCreate
  <2>4. runs'[i].state = "failed"
    BY <1>1, <2>2, <2>3, Rows, Advances DEF RunStates, Final
  <2>5. QED
    BY <2>4 DEF Final
<1>4. CASE ReportStop(i)
  <2>1. PICK s \in {"accepted", "unknown", "succeeded", "failed_with_effect"} : ApplyStop(i, s)
    BY <1>4 DEF ReportStop
  <2>2. s = "succeeded" /\ runs'[i] = Advance(runs[i], AfterStop(runs[i], s))
    <3>1. Applies(i, s = "succeeded")
      BY <2>1, Rows DEF ApplyStop, Held, Released
    <3>2. QED
      BY <2>1, <3>1, Rows DEF ApplyStop, PlaceAfterStop, Released, Terminal, Inv, TablesOK, AttemptRow
  <2>3. AfterStop(runs[i], s) \in {"failed", "reclaim_observing"}
    BY <2>2 DEF AfterStop
  <2>4. runs'[i].state \in {"failed", "reclaim_observing"}
    BY <1>1, <2>2, <2>3, Rows, Advances DEF RunStates, Final
  <2>5. QED
    BY <2>4 DEF Final
<1>5. CASE FactReclaimed(i)
  <2>1. UNCHANGED <<runs, creates, stops>>
    BY <1>5 DEF FactReclaimed
  <2>2. CASE runs[i].human = "pass"
    <3>1. stops[i] # <<>> /\ ~Open(stops[i])
      BY <2>1, <2>2, Rows DEF VerdictAgrees, Unresolved, StopOpen, Open, Last
    <3>2. attempts[i].state = "quarantined"
      BY <3>1, Rows DEF VerdictAgrees, Held, Released
    <3>3. QED
      BY <2>1, <3>2, Rows DEF VerdictAgrees
  <2>3. QED
    BY <2>1, <2>2
<1>6. CASE TerminatePending(i)
  <2>1. runs'[i] = Advance(runs[i], "failed")
    BY <1>6 DEF TerminatePending, Inv, TablesOK
  <2>2. QED
    BY <1>1, <2>1, Rows, Advances DEF RunStates, Final
<1>7. QED
  BY <1>3, <1>4, <1>5, <1>6, ReleasedBy

\* Whatever releases an attempt of which no job is open leaves its run ended or to be
\* taken up by the finaliser (validation_finalize.go): a pass whose stop is over in
\* another way has gone through quarantine, and that run may only fail.
THEOREM EveryReleasedRunIsTakenUp == Spec => ReleasedRunIsTakenUp
<1>1. Inv /\ [Next]_vars =>
        [\A i \in RunIds : Held(i) /\ Released(i)' /\ ~Unresolved(i)' =>
           (runs[i].state \in Final \/ Passing(i) \/ Failing(i))']_vars
  BY ReleaseIsTakenUp
<1>2. QED
  BY <1>1, InvHolds, PTL DEF Spec, ReleasedRunIsTakenUp

-----------------------------------------------------------------------------
(* Types and bounds. *)

BoundsOK ==
  /\ Changes <= MaxChanges
  /\ content.revision >= 1 /\ template.revision >= 1 /\ declared.generation >= 1
  /\ inventory \in [named : {"none", "clean", "dirty", "stale"}, newer : {"none", "clean", "dirty"}]
  /\ preset \in [formal : Versions, accepting : BOOLEAN, upgraded : BOOLEAN]
  /\ players \in 0..1

LEMMA BoundsStart == Init => BoundsOK
  BY ValidationAssumption DEF Init, BoundsOK, Changes

\* Facts may change as far as the bound allows.
LEMMA BoundsDrift ==
  ASSUME Inv, BoundsOK, FactsOK', Drift, UNCHANGED <<preset, players>>,
         content.revision <= content'.revision, template.revision <= template'.revision,
         declared.generation <= declared'.generation,
         inventory' \in [named : {"none", "clean", "dirty", "stale"},
                         newer : {"none", "clean", "dirty"}]
  PROVE  BoundsOK'
<1>1. Changes' <= MaxChanges
  BY DEF Drift
<1>2. content'.revision >= 1 /\ template'.revision >= 1 /\ declared'.generation >= 1
  BY DEF BoundsOK, Inv, FactsOK, ContentRow, TemplateRow
<1>3. QED
  BY <1>1, <1>2 DEF BoundsOK

LEMMA BoundsSteps == Inv /\ BoundsOK /\ [Next]_vars => BoundsOK'
<1>. SUFFICES ASSUME Inv, BoundsOK, [Next]_vars PROVE BoundsOK'
  OBVIOUS
<1>. DEFINE Scans    == [named : {"none", "clean", "dirty", "stale"},
                         newer : {"none", "clean", "dirty"}]
            Presets  == [formal : Versions, accepting : BOOLEAN, upgraded : BOOLEAN]
<1>1. inventory \in Scans /\ preset \in Presets /\ players \in 0..1
  BY DEF BoundsOK
<1>2. ASSUME UNCHANGED <<content, template, declared>>, binding'.epoch = binding.epoch,
             inventory' \in Scans, preset' \in Presets, players' \in 0..1
      PROVE  BoundsOK'
  BY <1>2 DEF BoundsOK, Changes
<1>3. CASE UNCHANGED <<machine, release>>
  BY <1>1, <1>2, <1>3 DEF machine, release
<1>. HIDE DEF Presets
<1>4. CASE NodeStep
  <2>1. CASE RecordHeartbeat
    <3>1. inventory' \in Scans
      BY <1>1, <2>1 DEF RecordHeartbeat
    <3>2. content.revision <= content'.revision /\ template.revision <= template'.revision
      BY <2>1, HeartbeatMoves
    <3>3. QED
      BY <2>1, <3>1, <3>2, InvSteps, BoundsDrift DEF RecordHeartbeat, release, Inv, FactsOK
  <2>2. CASE RecordInventory \/ GoStale
    <3>1. inventory' \in Scans
      BY <1>1, <2>2 DEF RecordInventory, GoStale
    <3>2. QED
      BY <1>1, <1>2, <2>2, <3>1 DEF RecordInventory, GoStale, release
  <2>3. QED
    BY <1>3, <1>4, <2>1, <2>2 DEF NodeStep, EntryChanges, CoreStarts, ServerGoes
<1>5. CASE AdminStep
  <2>1. CASE BeginMaintenance
    BY <1>1, <2>1, InvSteps, BoundsDrift DEF BeginMaintenance, machine, Inv, FactsOK, ContentRow,
       TemplateRow
  <2>2. CASE DeclareTemplate
    <3>1. declared.generation <= declared'.generation
      BY <2>2 DEF DeclareTemplate, Inv, FactsOK
    <3>2. QED
      BY <1>1, <2>2, <3>1, InvSteps, BoundsDrift DEF DeclareTemplate, release, Inv, FactsOK,
         ContentRow, TemplateRow
  <2>3. CASE PublishPaused \/ UpdatePreset
    <3>1. preset' \in Presets
      <4>1. CASE PublishPaused
        BY <4>1 DEF PublishPaused, Presets
      <4>2. CASE UpdatePreset
        BY <1>1, <4>2 DEF UpdatePreset, Presets
      <4>3. QED
        BY <2>3, <4>1, <4>2
    <3>2. QED
      BY <1>1, <1>2, <2>3, <3>1 DEF PublishPaused, UpdatePreset, machine
  <2>4. CASE UpdateBinding
    <3>1. binding'.epoch = binding.epoch
      BY <2>4 DEF UpdateBinding, Inv, FactsOK
    <3>2. QED
      BY <1>1, <1>2, <2>4, <3>1 DEF UpdateBinding, machine
  <2>5. ASSUME NEW i \in RunIds, PublishRelease(i) PROVE BoundsOK'
    <3>1. content.value \in Versions
      <4>1. SeenBefore(i) /\ runs[i].seen = Facts
        BY <2>5 DEF PublishRelease, EffectiveProof, Current, Inv, SeenAgrees, Used
      <4>2. QED
        BY <4>1 DEF SeenBefore, Facts, Inv, FactsOK, ContentRow
    <3>2. preset' \in Presets
      BY <2>5, <3>1 DEF PublishRelease, Presets
    <3>3. QED
      BY <1>1, <1>2, <2>5, <3>2 DEF PublishRelease, machine
  <2>6. QED
    BY <1>3, <1>5, <2>1, <2>2, <2>3, <2>4, <2>5 DEF AdminStep, ReserveValidation, ConfirmHuman,
       StopValidation, TerminatePending, Quarantine, Quarantined
<1>6. CASE ServeStep
  <2>1. CASE Admit \/ PlayerEnds
    BY <1>1, <1>2, <2>1 DEF Admit, PlayerEnds, machine
  <2>2. QED
    BY <1>3, <1>6, <2>1 DEF ServeStep, FinalizeRun, FinalizeFailure
<1>7. ASSUME NEW i \in RunIds, JobStep(i) PROVE BoundsOK'
  BY <1>3, <1>7 DEF JobStep, ClaimCreate, ClaimStop, PrepareCreate, ReportCreate, ReportStop,
     FactReclaimed, FactFailed, FactUnverified, FactReady, Quarantined
<1>8. CASE UNCHANGED vars
  BY <1>3, <1>8 DEF vars
<1>9. QED
  BY <1>4, <1>5, <1>6, <1>7, <1>8 DEF Next

\* Every variable keeps its type, and the changes their bound (the tables of
\* migrations/ with the rows the handlers write).
THEOREM TypesHold == Spec => []ValidationTypeOK
<1>1. Inv /\ BoundsOK => ValidationTypeOK
  <2>. SUFFICES ASSUME Inv, BoundsOK PROVE ValidationTypeOK
    OBVIOUS
  <2>1. /\ binding \in [closed : BOOLEAN, epoch : 0..MaxChanges]
        /\ content \in [value : Versions \cup {"unknown"}, revision : 1..MaxChanges]
        /\ template \in [value : Prints \cup {"unknown"}, revision : 1..MaxChanges]
        /\ declared \in [value : Prints, generation : 1..MaxChanges]
    BY ValidationAssumption DEF Inv, FactsOK, ContentRow, TemplateRow, BoundsOK, Changes
  <2>2. ASSUME NEW i \in RunIds
        PROVE  /\ runs[i].state \in RunStates
               /\ creates[i].state \in JobStates \cup {"none"}
               /\ Used(i) <=> creates[i].state # "none"
               /\ stops[i] # <<>> => creates[i].known
    BY Rows DEF RunRow, CreateRow, RowsAgree, Used
  <2>3. ASSUME NEW i \in RunIds, NEW n \in 1..Len(stops[i])
        PROVE  /\ stops[i][n].state \in JobStates
               /\ n < Len(stops[i]) => stops[i][n].state \notin OpenJob
    <3>1. stops[i] \in Seq(StopRow) /\ Len(stops[i]) <= 1
      BY Rows DEF VerdictAgrees
    <3>2. stops[i][n] \in StopRow /\ ~(n < Len(stops[i]))
      BY <3>1
    <3>3. QED
      BY <3>2 DEF StopRow
  <2>4. QED
    BY <2>1, <2>2, <2>3 DEF ValidationTypeOK, BoundsOK
<1>2. QED
  BY <1>1, InvStarts, InvSteps, BoundsStart, BoundsSteps, PTL DEF Spec
=============================================================================
