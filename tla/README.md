# Verification of the Dota 2 Arcade Platform

TLA+ models of the platform's own logic, the TLC configurations that check them
on small instances, and TLAPS proofs of what matters most for every instance.

## The system

A player (or the leader of a party) asks in the browser for a private Dota 2
game server. The **Platform Server** keeps everything in PostgreSQL and never
talks to a game server itself. Each machine that runs game servers is a **node**
with a **Node Controller**, which polls the Platform over HTTPS and drives the
local **d2core** daemon (not in this repository) through a Unix socket or pipe.

    browser -> Caddy -> Platform Server (httpapi -> store -> PostgreSQL)
                              ^  poll: heartbeat, claim, prepare, report, fact
                        Node Controller (runner) -> d2core -> game instances

| component | state it keeps | operations | what makes it correct |
|---|---|---|---|
| request/allocation/job lifecycle (`store/player_requests`, `cancel`, `allocation`, `jobs`, `node_jobs_api`, `reconcile`, `quarantine`, `next_game`, `capacity`, `node_eligibility`) | `server_requests`, `allocations`, `node_jobs` (+ executions), `next_game_intents` | submit, cancel, stop, next game, abandon, reserve, claim, freeze, start, report, fact, quarantine | one blocking request per owner; request and attempt agree; late reports change nothing; capacity; order of admission; every attempt in flight has a job; a quarantined owner can leave |
| users, parties, invites (`store/party`, `identity`, `lock_order`) | `users`, `parties`, `party_members`, `party_invites`, sessions | register, create, join, leave, remove, disband, reset invite | one place at a time, size limit, a reset invite never admits, membership frozen while a party request blocks |
| Node Controller (`controller/runner`, `platformclient`, `cmd/node-controller`) | in-flight jobs, capability session | list, inventory, heartbeat, facts, claim, create, stop, report, retry | no instance nobody knows of, no second instance for one attempt, a stop is carried out in the end |
| node registry (`store/nodes`, `httpapi/node`) | nodes, content facts and revisions, reconcile generations | heartbeat, inventory, drain, reconcile request and completion | revisions grow exactly when facts change; an old completion never closes a newer request |
| capability session and start fence (`httpapi/node_session`, `store/node_capability`, `BeginOperation`) | session, lease, `operation_started` | open, check, replace, begin | a core call starts only under the contract it was fenced for |
| validation ledger, release, maintenance (`store/validation_ledger`, `release`, `proof`) | validation runs, proofs, releases, maintenance windows | begin, reserve, start, confirm, stop, finalise, publish | a version is published only on a proof of the facts in force |
| administrator actions (`store/admin_actions`) | switches, bindings, templates, audit | one transaction per action | only legal transitions, always audited |
| content tool (`contenttool`) | release directories, links, `pending.json` | prepare, switch, recover | a crash at any step leaves a switch that the next run completes or undoes |
| HTTP, authentication, configuration, contracts, front end, deployment | - | - | single-value checks, parsing and rendering: not modelled |

What is hard in it: reports are retried, late and duplicated; two Controllers of
one node may overlap; the unreachability timeout runs against slow nodes; a
report may itself create the next request; administrators act in between; and
everything that frees a server must go through, since a server not freed is lost
capacity. `PROJECT.json` lists these hazards one by one, at their lines.

## Modules

| module | extends | role |
|---|---|---|
| `Lifecycle` | - | the Store's life of one play, transaction by transaction |
| `LifecycleProofs` | `Lifecycle` | proofs |
| `HistoryProofs` | `LifecycleProofs` | proofs about next games and retried attempts |
| `Admission` | `Lifecycle` | the allocation pass statement by statement; implements `Lifecycle` |
| `AdmissionProofs` | `Admission`, `HistoryProofs` | proofs |
| `PartyRules` | - | abstract specification of users, parties and their requests |
| `PartyRulesProofs` | `PartyRules` | proofs |
| `Party` | `PartyRules` | the same transactions statement by statement; implements `PartyRules` |
| `PartyProofs` | `Party`, `PartyRulesProofs` | proofs |
| `Server` | - | abstract specification: what Platform and Controllers promise about servers |
| `Dispatch` | `Lifecycle` | Controller, core and messages around the Store; implements `Server` |
| `DispatchProofs` | `Dispatch`, `LifecycleProofs` | proofs |
| `Validation` | - | maintenance, validation runs, proofs, release, admission by proof |
| `ValidationProofs` | `Validation` | proofs |
| `ContentSwitch` | - | the content tool on the file system |
| `ContentSwitchProofs` | `ContentSwitch` | proofs |
| `MC*` | each its module | definitions for TLC: sets, symmetry, operation lists |

An operator marked "Faulty" is not part of a specification: it is a plausible
mistake in the code, kept beside the definition it would replace. With it TLC
finds the property named in `PROJECT.json` violated.

### Lifecycle

The Store's life of one play. State:

| variable | table or data |
|---|---|
| `requests` | `server_requests`: state, owner, target node or automatic, and for a next game its source |
| `allocations` | `allocations`: the attempts, with request and node; order of ids is `attempt_sequence` |
| `creates`, `stops` | `node_jobs` and their `node_job_executions`, one create and the newest stop per attempt; `ids` says which core identities the row has, `frozen` that the create body is fixed, `untrusted` that the last error was `IDENTITY_UNVERIFIED` |
| `intents` | `next_game_intents` by source request; `refused` is `paused` with a failure reason |
| `nodes` | heartbeat fresh or not, admission gate, desired capacity |
| `catalog` | the switches of platform, game and preset |

An action is one transaction, whole, including the next-game request that a
report or a fact inserts. Where the code answers with a conflict the action is
not enabled. What the model abstracts:

- Rows are locked by the transactions, so they are atomic here. The locks of
  owner, request and settings are modelled in `Party`. The allocation pass is the
  one transaction that decides by rows it has not locked all at once:
  `TryAllocateOne` leaves open which waiting request it serves and on which
  available node, and `Admission` says what the pass makes of that.
- The claim order of jobs is left open (any claimable job may be next), and so
  is which worker or Controller sends a report: any report that
  `ReportRequest.Validate` and `reportJob` let through may arrive at any time.
  The safety properties hold against every Controller, old or new. Neither
  function ties an error code to a state, so a create may succeed with
  `IDENTITY_UNVERIFIED`, which this Controller never sends. The attempt then runs
  with a create that the administrator's `request.stop` refuses
  (`admin_actions.go:618`); its player can still stop it, and that is what
  `AttemptHasDriver` asks of a running attempt.
- A fact is sent only about an attempt whose jobs were all closed in the
  inventory the Controller had listed (`runner.go:148-151`). The create is still
  closed then; a stop may have been added since, and the model lets it.
- A repeated report of an open job that the code treats as a no-op is applied
  again by the model, which allows more than the code.
- The node's `gate` stands for all of enabled, accepting, draining, the template
  binding, the content facts and, under `v1_0_2`, the validation proof.
- One threshold stands for the 2-minute online window and the 15-minute
  quarantine window: a node may be quarantined as soon as it is not online.
- `Hard`, the heartbeat's hard maximum, is constant: what a heartbeat with a lower
  `hard_max_instances` does to attempts already there is not covered.
- `V102` selects the contract of the validation: it adds the operation-start
  fence and withdraws the direct steps from claimed to accepted or succeeded.
- An owner is a user or a party; who may act for a party is in `PartyRules`.
  Validation attempts belong to `Validation`.

### Admission

`Admission` takes `TryAllocateOne` apart. The pass locks the waiting requests
(`BeginPass`), and for each in turn shares the catalog's rows, locks the nodes it
could go to, and counts them one after another in order of `Priority`
(`FindUnavailable`) until it gives the request up, reserves, or goes on to the
next. It runs at READ COMMITTED, so each count sees what has been committed
meanwhile. `pass` is what the transaction has read; the locks follow from it
(`LockedRequests`, `CatalogLocked`, `LockedNodes`). All other transactions are
those of `Lifecycle`, and `OnRequests`, `OnAttempts` and `OnNodes` say which of the
pass's rows each of them locks or refers to (an INSERT refers to its node), so that
it waits. An aborted pass (`AbortPass`: an error, or the five seconds of its cycle)
commits nothing.

One transaction that frees a place waits for no row of the pass:
`allocation.terminate_pending` locks the request, the jobs and the attempt
(`lock_order.go`), but not the node. It can commit after the pass has counted the
node as full for an older request and before it counts it for a younger one, which
then gets the place. `AdmittedInTurn` states the order with exactly this exception,
kept in the history `pass.freed`. The comment of the advisory lock ("so a later
request cannot win a shared last slot while an earlier one is checked",
`allocation.go:23-25`) and the FIFO of `docs/specs/v1.md` 23.3 know no exception;
the older request stays in the queue and is first again in the next pass.

### PartyRules and Party

`PartyRules` is the abstract specification of users, parties, invites and the
requests they own: each operation of `store/party.go`, submission, cancellation,
stop and abandonment, and what the Store does to a request by itself
(`Progress`), is one indivisible step. `members`, `parties` (with the number of
the current invite in place of tokens), `limit` and `requests` are the tables. A
request keeps only what its owner and the party rules can tell apart: waiting
without an attempt, active, stopping, quarantined or over, whether a server is
`held`, and its `next` game. `Moves` is the coarse form of Lifecycle's reports,
facts and administrator actions and allows at least what they do.

`Party` has the same operations as the code runs them on PostgreSQL: a session
executes the statements of one transaction after another; each statement is an
action that sees what is committed then and takes the row locks that the code
asks for, kept to the end. `Statements` lists them in the order of the code,
`Wants` says which row a statement locks, including the `FOR KEY SHARE` that an
INSERT takes on the user it refers to. Writes appear with `Commit`. `Rollback`
is possible at any time: a failed check, a client gone, a victim of a deadlock.
What is committed is in the variables of `PartyRules`; `tx` and `locks` are added.
`RulesKept`, the specification of `PartyRules` over those variables, says that
each transaction has the effect of one step at its commit. Left out:
rows that are always locked after the request's (jobs, attempts, nodes, games,
presets), so `NoWaitCycle` is about users, parties, requests and settings. Of the
allocation pass, which is one kind of `progress`, only the request it moves is
locked here, not all that wait nor the settings it shares: it takes the requests
before anything else and waits, if at all, for settings, whose holder waits for
nobody, so that no circle is lost.

### Server and Dispatch

`Server` has four actions: capacity is held, a server starts while its capacity
is held and only once, it ends for good, and capacity is given back only when no
server lives. `Dispatch` is the machinery that keeps this promise between two
programs and a network, and `ServerPromise` states that it does (`Promise ==
INSTANCE Server WITH ...`: an attempt that occupies capacity is held, an
instance the core keeps and has not reclaimed lives).

`Dispatch` extends `Lifecycle`; every request of the Controller is one of
Lifecycle's transactions, applied if `Fits` (the checks of `reportJob`,
`BeginOperation`, `PrepareJob` and the fact handler) lets it.

| variable | in the code |
|---|---|
| `worker[a]` | what `Runner.create`, `Runner.stop` or `reconcileActive` has in hand for `a`, and the remote step that is next |
| `core[a]`, `ops[a]` | what d2core keeps under `a`'s idempotency key: the instance, its start, its stop operations (external, as `runner.go` relies on it) |
| `calls`, `late` | core calls and Platform requests whose sender has given up or died |
| `stopJob[a]` | number of the newest stop job and the core operation in it |
| `old[a]` | the frozen create is older than the key history (`withinCoreHistory`) |
| `contract[a]` | `required_capability` of the jobs |

A Controller keeps nothing on disk, so that its death, a restart and a timeout
are one action, `BreakOff`: the worker gives up and what it had sent is lost or
arrives later. Under `v1_0_2` a new session (`IssueSession`) waits for requests
being processed and invalidates the rest. Assumptions:

- `Late` holds only `v1_0_2`: under `legacy_v1` no request is processed after its
  sender has given up; without a session nothing in the code would stop one.
- The core does not forget a key (`Forget`) while a call under it is under way:
  the Controller stops using a key an hour before (`runner.go`), and calls have
  time limits of seconds.
- One cycle handles a job once and waits for its workers; an attempt therefore
  has one worker. A second Controller of the same Node is excluded by the
  ownership lock; its leftovers are `late` and `calls`.

`StopConcludes` and `GoneIsReleased` except `Orphaned` attempts: a create left
unknown without an operation, with its key aged or its operation start refused,
teaches nobody anything, and the code leaves it to an administrator; so it does if
the row has an operation and no instance, or the reverse under `v1_0_2`, since
`Runner.create` observes only a create with both (`runner.go:381`). `GoneIsReleased`
also excepts instances the core has forgotten. Both are checked of the first stop
job of an attempt; of a later one neither holds under `v1_0_2`, as `adopt_stop`
shows.

### Validation

One game, Node, preset and template revision. State: `binding` (closed,
maintenance epoch), the Node's reported `content` and `template` with their
revisions, the `declared` template with its generation, `inventory` (the scan the
heartbeat names, and a newer one), `preset`, `players`, and for each run its row
in `runs`, its attempt, its create and its stops. `drifted` is a history variable:
the facts a run has frozen have changed since, even there and back.

An action is one transaction of the Store (`BeginMaintenance`,
`ReserveValidation`, `ConfirmHuman`, `StopValidation`, `TerminatePending`, the
claims, reports and facts with `AfterCreate`/`AfterStop` for
`advanceValidationFromJob`, `FinalizeRun`, `FinalizeFailure`, `PublishRelease`,
`PublishPaused`, `UpdatePreset`, `UpdateBinding`, `Admit`) or something the Node
does (`RecordHeartbeat`, `RecordInventory`, servers starting and going, the entry
configuration changing). What reading and checking it has shown:

- A binding may be reopened and closed again during a run without a new epoch;
  the run may still pass.
- `StopValidation` moves a quarantined attempt to stopping.
- After a paused release of an upgraded game, `preset.update` needs an open
  binding and `binding.update` an accepting preset: only a release with a proof
  reopens the game.
- Exceptions of `ReleasedRunIsTakenUp`: an instance reported gone by a fact while
  the stop of a verdict is still open leaves the run in `stop_pending` or
  `stop_unknown`, where no finaliser looks. A run with a pass verdict whose facts
  have drifted is taken up in every cycle and never ends, since the conflict is
  swallowed. A run of another Node without an inventory ends the finaliser's
  cycle with an error (`Aborts`); with one run per instance the model cannot show
  what this costs the others.
- `UpsertTemplateBinding` and `RecordTemplateFact` have no caller in production
  code; `DeclareTemplate` models the effect of the administrator's route.

### ContentSwitch

The content tool for one map. Every action is one change of the file system:
release directories (`releases`: the VPK and what the metadata record), the addon
`link`, the temporary link, the `backup`, `pending.json`, `current.json`,
`previous.json`, and the lock file. `tools` are the processes and where in
`Prepare`, `switchVersion` or `recoverTransition` each of them is. `Die` leaves
the lock, `Fail` ends a command with an error, and both may happen at every step;
`RemoveLock` is the operator, who has made sure that the process is gone. Left
out: power failures (the file system keeps the order of changes), exits that no
reachable state leads to, and `status`, which changes nothing. Death between the
temporary link and `pending.json` leaves a stray link that nobody uses, and the
model forgets it. A rollback right after an interrupted switch goes back from the
new release or from the old one, depending on where it was interrupted.

## Runs

| run | instance | shows |
|---|---|---|
| `next_game` | 1 owner, 1 node that lapses and is disabled, 3 requests, 1 attempt, `v1_0_2`, all reports, all catalog values | an intent is consumed once, never beside a blocking request, and is never lost to a stuck quarantine |
| `attempts` | 1 owner, 1 node for 2 servers, 2 requests, 2 attempts, legacy contract, all reports, node may lapse, catalog open | requests and attempts agree, every attempt in flight has a driver, late reports change nothing |
| `admission` | 3 owners, 2 nodes for 1 server each, 3 requests, 2 attempts, rejections only, administrator changes the catalog and one node's capacity and gate and terminates attempts, all between the reads of a pass | capacity, admission in turn, retry on another node |
| `party_rules` | 3 users, 2 parties, 3 requests, sizes 1 to 3, preset for 2, 2 invites | the rules keep places, owners, parties and sizes consistent |
| `party_places` | 2 connections, 3 users, 2 parties, 1 request; all operations on places, submissions and cancellations | transactions keep to the rules, a reset invite admits nobody |
| `party_locks` | 2 connections, 2 users, 1 party, 2 requests, preset for 1; one leads, the other joins or asks alone; submission to abandonment, disbanding, configuring | no circular waiting, transactions keep to the rules |
| `cancel_deadlock` | 2 connections, 1 user, 2 requests | violated: cancelling and a report that consumes a next game wait for each other |
| `dispatch` | 1 attempt under either contract, 1 fault, 1 stop job, 3 stop operations | `Server` is implemented; every effect is announced; a succeeded stop is true; stops and reclaimed instances get through |
| `adopt_stop` | the same with 2 stop jobs | violated: under `v1_0_2` a stop that adopts a finished operation is refused for ever |
| `validation` | 2 versions, 2 fingerprints, 1 run, 6 changes of epoch, revisions and generation | a proof in force rests on unchanged facts, a pass is a person's, an ended run holds nothing, the finaliser sees every released run |
| `quarantined_pass` | 2 versions, 1 fingerprint, 1 run, 4 changes | violated: a run that was quarantined after its verdict passes |
| `content_switch` | 3 releases, 2 files, 2 processes, 2 faults | the link is never lost, only complete releases are linked, a rollback goes back once, interrupted transitions end |

Bounds. In Lifecycle's runs `MaxRequests` and `MaxAllocations` cap the ids ever
used. Three requests are the source of a next game, its successor and a
competitor; two attempts are an old one and the new one of the same request, or
of two requests of one owner. In `admission` the three requests are one that holds
a place, an older and a younger one that want it; two attempts are the one that
gives the place back and the one that gets it, or a rejection and its retry. Two
nodes let the better of them be passed over. `Gates`, `Desires`, `Catalogs`,
`Unsteady` (the nodes that lapse and whose gate and capacity change) and `Reports`
restrict what the environment does in a run; `admission` leaves out effects
because its question is about selection, which `attempts` does not vary;
`attempts` leaves out the catalog, which `next_game` closes between stop and
release. Owners are symmetric in `admission`; nodes are not, since `Priority`
orders them.

In the Party runs two connections are enough for any race of two transactions;
circles of three are left open. Two requests are a source and its next game; the
third request of `party_rules` belongs to another owner. Two sizes and a preset
for one or two players make joining fail, succeed and outgrow the preset.
`Operations` selects the transactions of a run. Users, parties, requests and
connections are symmetric: ids are only compared.

`dispatch` follows one attempt, since attempts meet only in the Store, which
`attempts` covers. A fault is an answer lost, a call or request given up, an
error of the core, or a mismatch of local files; one of them at every possible
point, with everything that is still under way arriving at any later time, is
what a retry has to survive. (Two faults have also been checked, with 698,580
states; it takes longer.) Three stop operations are one that fails, its repetition
and one more. In `validation` the Node
reports one version, not yet the formal one, and at times cannot confirm it, while
the administrator may declare either fingerprint. There are six changes in all: the epoch of the run, the
three counters that start at 1, and two more changes, so that a fact can go there
and back. `content_switch` has three releases, so that a rollback has somewhere
else to go than where it came from, and two faults, so that a recovery can be
interrupted too.

All runs but `content_switch` set `CHECK_DEADLOCK FALSE`: when ids and changes
are used up and everything is closed, the bounded system may stop.

## Fairness

- `Dispatch`: weak fairness of each attempt's `Work` (the Controller starts a
  cycle every few seconds and is restarted by its service manager; it handles
  every job of the list), of the core's operations, which end, and of a cleanup
  that a stop has left behind. None for heartbeats, new attempts or faults.
- `Validation`: weak fairness of the finaliser, which `serve` runs every two
  seconds. `ReleasedRunIsTakenUp` itself is an action property.
- `ContentSwitch`: weak fairness of a command's next step and of removing a dead
  process's lock, strong fairness of `Switch`: the operator goes on trying.
- `Lifecycle`, `Admission`, `PartyRules` and `Party` state no fairness; their
  properties are safety.

## Findings

- `cancel_deadlock`: `cancel.go` still locks user and party ahead of the request,
  which stop and abandonment no longer do. When a request that is stopping with a
  next game pending is cancelled (a stale page is enough) while the report of its
  end arrives, each waits for a row of the other and PostgreSQL aborts one.
  Nothing is corrupted; `docs/validation/v1.0.2-i1-schema-store.md:80` had
  rejected the case.
- `adopt_stop`: `Runner.stop` reports a stop it has adopted as accepted straight
  from claimed; for a `v1_0_2` job the Store refuses that report, in every cycle.
  The open job keeps the instance from being reported as a fact, so a server that
  is already gone keeps its capacity. The documents say such a stop is adopted
  (`docs/node-protocol.md:81`) and that full reclaim converges
  (`docs/validation/p4a.md:10`).
- `quarantined_pass`: `advanceValidationFromJob` sets `reclaim_observing` whatever
  the run's state was, so that a run quarantined after a pass verdict passes when
  its stop succeeds late; `docs/specs/v1.0.2-content-maintenance-validation.md:85`
  and `:89` say it never does, and the Store's test covers the fact and not the
  report.

## Proofs

TLAPS proves the following for every value of the constants, from the modules'
named assumptions alone. Each module has an inductive invariant `Inv`, the lemmas
that each kind of step preserves it, and theorems that follow from it.

`LifecycleProofs` (any owners, nodes, requests, attempts, both contracts, any set
of reports): `TypeOK`, `OneBlockingRequest`, `RequestMirrorsAttempt`,
`QuarantinedCanBeAbandoned`, `AttemptHasDriver`, `OneUnresolvedJob`,
`CapacityRespected` and `LateReportsChangeNothing`. `Inv` adds to the checked
properties what the handlers rely on without saying so:

- `RowsAgree`: an attempt exists with its create; requests and attempts that do
  not exist have no rows that depend on them;
- `AttemptAgrees`: which create and stop states go with each state of an
  attempt, and that an attempt about to run has both core ids;
- `ClosedBeforeIntent`: the create of an attempt whose request has an intent is
  closed, so that no late rejection sends that request back to waiting;
- `IntentAgrees`: which request states go with each state of an intent.

`OneBlockingRequest` needs `IntentAgrees` (a consumed intent belongs to a closed
request), which needs `RequestMirrorsAttempt`, which needs `AttemptAgrees`.
Every step is one of four forms (lemma `NextCases`): a step about one attempt, a
step about one request, a reservation, or a step of nodes and catalog only; each
form has its preservation lemmas and the theorems combine them. Capacity follows
separately, since only a reservation adds an occupant. Reports are any that
`Validate` lets through, error codes of every kind included.

`HistoryProofs` (the same constants): `NextGameOnce` and `NoNodeTwice`. `Writes`
says in which forms a step writes requests and intents at all: one request changes
its state, one is submitted, or one ends and its intent is looked at; and that a
request comes back to waiting only by the rejection of its attempt in flight. From
it follow `Sources` (a consumed intent has one successor, any other none) and
`EarlierRejected` (every attempt of a waiting request, and every one that another
has followed, was rejected without effect and its request is automatic), which is
what `Candidates` relies on when it looks at rejections only.

`AdmissionProofs` (the same constants, any priorities): the passes implement
`Lifecycle` (`PassesCommitSteps`), so that all of the above holds with them, and
`AdmittedInTurn`. Its invariant `PassOK` says that the requests of a pass still
wait, that those it has passed over are older than those to come, and that a node
it has counted and that is available now has been given a place back since
(`freed`). The last part is the argument that the locks are enough: whatever else
adds a place, or makes a node or the catalog available, refers to a row that the
pass holds (`HeedingMove` and the lemmas after it), and the candidates of a request
do not change while it waits (`CandidatesKept`).

`PartyRulesProofs` (any users, finitely many; any parties, requests and sizes):
`TypeOK`, `OnePlace`, `OneBlockingRequest`, `BusyPartyLives`, `LeaderIsMember`,
`WithinLimit`. The properties need each other, and one fact the handlers rely on
silently (`PendingStops`): a pending next game belongs to a request that is
stopping, so that the step which inserts the new request ends the old one.

`PartyProofs` (any users, parties, requests and connections, any `Operations`):
`RulesKept`, `InviteIsCurrent`, and `NoWaitCycle` where nobody cancels. The
transactions of `Party` implement `PartyRules` (`TransactionsKeepRules`), so that
what `PartyRulesProofs` shows of single steps holds for concurrent transactions
(`RulesHoldForTransactions`). The inductive invariant `PartyInv` says

- of each session, that it has executed a beginning of the statements of its
  operation and holds exactly the locks these took (`OnTrack`, `Locked`), and that
  locks of different sessions do not conflict (`LocksCompatible`);
- of each statement it has executed, what that statement found and the transaction
  still relies on (`Found`): that the user has no party, that the invite is the
  current one, that the next game is due.

The argument has three parts. A statement finds what it checks when it executes,
under the lock it takes (`LooksKeep` and the lemmas after it). A commit is one
operation of `PartyRules` given what its transaction has found, and it changes no
row it has not locked (`Commits`, `Change`). And what a transaction has found
survives the commits of the others (`FoundStays`): either it holds a row that such
a commit would have to lock, or nothing ever makes the fact false. The second kind
is what makes reading a membership without a lock sound in `allocation.go` and
`quarantine.go`: the reader is told of a party that may since have dissolved, and a
dissolved party neither comes back nor owns a request that runs.

`NoCircle` is the lock order behind that: of those who wait, whoever waits for a
user or a request holds nothing yet; a next game's owner comes before parties, and
parties before the settings, whose holder waits for nobody. Its hypothesis is that
no user's operations include a cancellation, which locks user and party ahead of
the request; `cancel_deadlock` shows the circle that this makes.

`ValidationProofs` (any versions, fingerprints and reports, any number of runs, at
least the three changes a new database needs): `ValidationTypeOK`, `ProofStands`,
`EndedRunHoldsNothing`, `PassIsHuman` and `ReleasedRunIsTakenUp`. For
`ProofStands`, `SeenAgrees`: what a run has seen is not newer than what is in
force, and if a fact has changed since, one of the four counters has grown;
`effectiveProof` compares the counters. For `EndedRunHoldsNothing`, `RowsAgree`:
without an instance there is no stop, a stop that was claimed comes after the end
of the create, a run that has ended has neither place nor work. The last two need
`VerdictAgrees`: a verdict outlives every stop of its run, and whichever way a stop
ends, the attempt is released or quarantined, so that there is never a second one
to set `reclaim_observing` again.

`DispatchProofs` (any owners, nodes, requests, attempts, faults, stop jobs and
operations, either contract per attempt): `DispatchTypeOK`, `EffectIsAnnounced`,
`StopIsTrue`, and that `Dispatch` implements two specifications: `Lifecycle`
(`StoreServesController`: this Controller is one of those whose reports Lifecycle
lets through, so that its theorems hold here too) and `Server`
(`ServersArePromised`, the property `ServerPromise`). Together they bound what
runs on a machine: `ServersWithinHardMaximum` says that the servers that live on a
node, not the rows that say so, never exceed its hard maximum, under the condition
below and for a hard maximum that no heartbeat lowers. `DispatchInv` adds to
Lifecycle's `Inv`:

- `CoreAgrees`: a key that the core has forgotten belonged to a reclaimed instance
  and is too old to be used again, and no call under it is under way;
- `CreateAgrees`: the core knows nothing of a create that is not frozen, and under
  `v1_0_2` nothing of one that has not been announced;
- `StopAgrees`, `FirstStopAgrees`: what a stop job says of the core, and that an
  attempt has no stop before it is stopping or quarantined;
- `ReleaseAgrees`: capacity that is given back is that of a reclaimed instance, or
  of a rejected create of which the core knows nothing and never will;
- `WorkAgrees`, `Truthful`: what a worker relies on in its next step, and that
  what a request says of the core is still true when it is processed late.

A rejection is what makes this delicate: it may be old when the Store applies it.
Under `v1_0_2` the Store itself can tell, since a job whose start is announced is
no longer claimed (`AnnouncedRejection`); under `legacy_v1` it cannot. The
invariant and the theorems about servers therefore speak of the attempts that are
`OnTime`: all of the second contract, whatever is late, and those of the first if
no late request of it is processed. So `NoServerStrays` and
`ServersWithinHardMaximum` hold of `v1_0_2` servers without a condition, and of all
servers under `NoneLate`, which nothing in the code enforces for `legacy_v1` (see
the assumptions of Dispatch above). `ServersArePromised`, which is about every
attempt, assumes `NoneLate`; without it TLC finds `ServerPromise` violated. The
first three need no such assumption.

`ContentSwitchProofs` (any releases, files, processes and number of faults):
`ContentTypeOK`, `LinkIsNeverLost`, `OnlyPreparedIsLinked`, `RollbackOnce`. The
invariant says what a command knows at each of its steps (`PrepareAgrees`,
`SwitchAgrees`, `RecoveryAgrees`), that a record never names one release twice
(`RecordAgrees`) and that after a rollback the way back is closed or leads to
where the link is (`UndoneAgrees`); one process works at a time because of the
lock (`ToolsOK`).

Only model-checked: the liveness properties `StopConcludes` and `GoneIsReleased` of
`Dispatch` and `TransitionsEnd` of `ContentSwitch`. They need the fairness of the
specification and ENABLED, for which the provers have no rules, and inductions over
the number of steps that remain. Every safety invariant and action property of a
passing run is a theorem.

## Not modelled

- Controller ownership lock and network probes: thin wrappers over an OS lock,
  UDP and the core's socket.
- Read models, migrations, the web front end, the prototype, deployment scripts:
  no state of the running system.
- HTTP handlers, sessions and cookies, registration and display names: checks of
  single values before the transactions that are modelled.
- Reconcile generations: two counters that only the Controller's next list
  compares.
- The Controller's worker pool: `Dispatch` has one attempt, so its workers are
  never all taken.
- JoinInfo in detail; in `Validation` it is there or not, and current or not.
- Several games or presets, release rollback and idempotency keys of releases,
  editing games, content records and entries.

## Plan

1. Two validation runs at once, for the finaliser's cycle; two attempts of one
   Node, for the worker pool.
2. Reconcile generations and changing hard capacity.
