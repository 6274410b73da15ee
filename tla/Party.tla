-------------------------------- MODULE Party --------------------------------
(***************************************************************************)
(* The Store's transactions on users, parties, invites and the requests    *)
(* they own, statement by statement, as PostgreSQL runs them under READ    *)
(* COMMITTED: a statement sees what is committed when it runs, row locks   *)
(* are taken as the code asks for them and kept to the end, and the writes *)
(* of a transaction appear with its commit.  A session is one connection:  *)
(* it runs one transaction after another.                                  *)
(*                                                                         *)
(* todo holds the statements a transaction has yet to execute.  One whose  *)
(* check fails rolls the transaction back.  No transaction reads what it   *)
(* has written itself, so the writes and the commit are one step.          *)
(***************************************************************************)
EXTENDS PartyRules, Sequences

CONSTANTS
  Settings,       \* the row of platform_settings
  Sessions,       \* connections of the pool that work at a time
  Operations      \* bound: what each user calls in a run; None for what none calls

\* What is committed is in the variables of PartyRules.
VARIABLES
  tx,             \* transaction of each session
  locks           \* row locks of each session

partyVars == <<vars, tx, locks>>

ASSUME RowsAssumption ==
  /\ Settings \notin Users \cup Parties \cup Requests \cup {None}
  /\ Requests \cap (Users \cup Parties \cup {None}) = {}

-----------------------------------------------------------------------------
(* Transactions. *)

\* Faulty: the invite is not looked at again under the party's lock.
JoinStatementsUnlocked == <<"lockUser", "noParty", "noSolo", "checkInvite", "lockParty",
                            "readLimit", "checkRoom", "commit">>

JoinStatements == <<"lockUser", "noParty", "noSolo", "lockParty", "checkInvite",
                    "readLimit", "checkRoom", "commit">>

\* Faulty: the user is locked ahead of the request.
StopStatementsUserFirst == <<"lockUser", "readMembership", "isLeader", "lockRequest",
                             "recheckOwner", "stillRunning", "commit">>

StopStatements == <<"readMembership", "isLeader", "lockRequest", "recheckOwner",
                    "stillRunning", "commit">>

\* The statements of each operation, in the order of the code.  To find the owner
\* of a request, CreateUserRequest and CancelUserRequest lock its row;
\* stopUserRequest and AbandonQuarantinedUserRequest do not.
Statements(op) ==
  CASE op = "configure" -> <<"lockSettings", "checkLargest", "commit">>
    [] op = "create"    -> <<"lockUser", "readLimit", "noParty", "noSolo", "commit">>
    [] op = "reset"     -> <<"lockLedParty", "commit">>
    [] op = "join"      -> JoinStatements
    [] op = "leave"     -> <<"lockUser", "readMembership", "lockParty", "notLeader", "commit">>
    [] op = "remove"    -> <<"lockTarget", "lockLedParty", "isMember", "commit">>
    [] op = "disband"   -> <<"lockUser", "lockLedParty", "notBusy", "commit">>
    [] op = "request"   -> <<"lockUser", "readMembership", "lockOwner", "noCurrent",
                             "validate", "lockForeignKey", "commit">>
    [] op = "cancel"    -> <<"lockUser", "readMembership", "lockOwner", "lockRequest",
                             "stillWaiting", "commit">>
    [] op = "stop"      -> StopStatements
    [] op = "abandon"   -> <<"readMembership", "isLeader", "lockRequest", "recheckOwner",
                             "stillQuarantined", "commit">>
    [] op = "progress"  -> <<"lockRequest", "move", "commit">>

\* consumeNextGameIntent, before the commit of what ended the request.
Consumption == <<"lockOwner", "validate", "lockForeignKey", "commit">>

NoTx == [op |-> "none", user |-> None, target |-> None, party |-> None, request |-> None,
         arg |-> 0, size |-> 0, move |-> <<"none", FALSE>>, fresh |-> "none", todo |-> <<>>]

Idle(s)    == tx[s].op = "none"
At(s, stm) == ~Idle(s) /\ Head(tx[s].todo) = stm

Proceed(s, t) == tx' = [tx EXCEPT ![s] = [t EXCEPT !.todo = Tail(@)]]
Finish(s)     == /\ tx' = [tx EXCEPT ![s] = NoTx]
                 /\ locks' = [locks EXCEPT ![s] = {}]

\* The transaction gives up: a check failed, the client went away, PostgreSQL
\* chose it as the victim of a deadlock.
Rollback(s) == ~Idle(s) /\ Finish(s) /\ UNCHANGED vars

-----------------------------------------------------------------------------
(* Row locks: "update" for FOR UPDATE and UPDATE, "share" for FOR SHARE and  *)
(* for the FOR KEY SHARE of a foreign-key check.                             *)

Conflict(m, n) == "update" \in {m, n}

Holders(s, row, mode) ==
  {t \in Sessions \ {s} : \E l \in locks[t] : l[1] = row /\ Conflict(l[2], mode)}

\* The party that u leads, if any.
LedBy(u) == {p \in Parties : members[u] = p /\ Leads(u, p)}

\* The row that the current statement of s locks, if any, and how.
Wants(s) ==
  LET t == tx[s]
  IN CASE At(s, "lockSettings")   -> {<<Settings, "update">>}
       [] At(s, "lockUser")       -> {<<t.user, "update">>}
       [] At(s, "lockTarget")     -> {<<t.target, "update">>}
       [] At(s, "readLimit")      -> {<<Settings, "share">>}
       [] At(s, "validate")       -> {<<Settings, "share">>}
       [] At(s, "lockLedParty")   -> {<<p, "update">> : p \in LedBy(t.user)}
       [] At(s, "lockParty")      -> {<<t.party, "update">>} \ {<<None, "update">>}
       [] At(s, "lockOwner")      -> {<<t.party, "update">>} \ {<<None, "update">>}
       [] At(s, "lockRequest")    -> {<<t.request, "update">>}
       [] At(s, "lockForeignKey") -> IF t.party = None /\ t.fresh = "allowed"
                                       THEN {<<t.user, "share">>} ELSE {}
       [] OTHER                   -> {}

WaitsFor(s) == UNION {Holders(s, l[1], l[2]) : l \in Wants(s)}

\* Faulty: the size is read without FOR SHARE.
LockUnlessSettings(s) ==
  /\ WaitsFor(s) = {} \/ At(s, "readLimit")
  /\ locks' = [locks EXCEPT ![s] = @ \cup (Wants(s) \ {<<Settings, "share">>})]

\* Faulty: a request is read without FOR UPDATE.
LockUnlessRequest(s) ==
  /\ WaitsFor(s) = {} \/ At(s, "lockRequest")
  /\ locks' = [locks EXCEPT ![s] = IF At(s, "lockRequest") THEN @ ELSE @ \cup Wants(s)]

Lock(s) == /\ WaitsFor(s) = {}
           /\ locks' = [locks EXCEPT ![s] = @ \cup Wants(s)]

\* The statement stm of s finds ok, or no row, and carries on as t.
Execute(s, stm, ok, t) == /\ At(s, stm)
                          /\ ok
                          /\ Lock(s)
                          /\ Proceed(s, t)
                          /\ UNCHANGED vars

-----------------------------------------------------------------------------
(* Statements.  Where a check fails only Rollback is left. *)

LockUser(s)     == Execute(s, "lockUser", TRUE, tx[s])
LockTarget(s)   == Execute(s, "lockTarget", TRUE, tx[s])
LockSettings(s) == Execute(s, "lockSettings", TRUE, tx[s])

\* memberParty
ReadMembership(s) ==
  Execute(s, "readMembership", TRUE, [tx[s] EXCEPT !.party = members[tx[s].user]])

NoPartyYet(s) == Execute(s, "noParty", members[tx[s].user] = None, tx[s])
NoSolo(s)  == Execute(s, "noSolo", ~Busy(tx[s].user), tx[s])

LockParty(s) == Execute(s, "lockParty", tx[s].party # None /\ Live(tx[s].party), tx[s])

\* The row is found before the wait for its lock.  It is looked at again after
\* that, and the leader of a live party never changes, so one step is enough.
LockLedParty(s) ==
  \E p \in Parties : Execute(s, "lockLedParty", p \in LedBy(tx[s].user),
                             [tx[s] EXCEPT !.party = p])

LedByUser(s) == tx[s].party # None => Leads(tx[s].user, tx[s].party)
LockOwner(s) ==
  Execute(s, "lockOwner", IF tx[s].op \in {"request", "cancel"}
                            THEN LedByUser(s)
                            ELSE tx[s].party # None => Live(tx[s].party), tx[s])
IsLeader(s)  == Execute(s, "isLeader", LedByUser(s), tx[s])
NotLeader(s) == Execute(s, "notLeader", ~Leads(tx[s].user, tx[s].party), tx[s])
IsMember(s)  == Execute(s, "isMember", members[tx[s].target] = tx[s].party, tx[s])
NotBusy(s)   == Execute(s, "notBusy", ~PartyBusy(tx[s].party), tx[s])

CheckInvite(s) == Execute(s, "checkInvite", parties[tx[s].party].invite = tx[s].arg, tx[s])

\* partySize
ReadLimit(s) == Execute(s, "readLimit", limit # 0, [tx[s] EXCEPT !.size = limit])
CheckRoom(s) ==
  Execute(s, "checkRoom", Cardinality(MembersOf(tx[s].party)) < tx[s].size, tx[s])
CheckLargest(s) ==
  Execute(s, "checkLargest",
          \A p \in Parties : Cardinality(MembersOf(p)) <= tx[s].arg, tx[s])

Owner(s) == IF tx[s].party = None THEN tx[s].user ELSE tx[s].party

NoCurrent(s) == Execute(s, "noCurrent", ~Busy(Owner(s)), tx[s])

\* validateFreshRequest.  The switches of platform, game and preset may refuse,
\* which ends a submission but not the consumption of an intent.
Validate(s) ==
  \/ Execute(s, "validate", NotTooLarge(Owner(s)), [tx[s] EXCEPT !.fresh = "allowed"])
  \/ Execute(s, "validate", tx[s].op # "request", [tx[s] EXCEPT !.fresh = "refused"])

\* INSERT INTO server_requests
LockForeignKey(s) == Execute(s, "lockForeignKey", TRUE, tx[s])

LockRequest(s) ==
  Execute(s, "lockRequest",
          tx[s].op # "progress" => requests[tx[s].request].owner = Owner(s), tx[s])

\* requireCurrentRequestOwner
RecheckOwner(s) ==
  Execute(s, "recheckOwner", MayAct(tx[s].user, tx[s].request), tx[s])

StillWaiting(s) ==
  Execute(s, "stillWaiting", requests[tx[s].request].state = "waiting", tx[s])
StillRunning(s) ==
  LET q == requests[tx[s].request]
  IN Execute(s, "stillRunning", q.state = "active" /\ q.held, tx[s])
StillQuarantined(s) ==
  LET q == requests[tx[s].request]
  IN Execute(s, "stillQuarantined", q.state = "quarantined",
             IF q.next = "paused" THEN [tx[s] EXCEPT !.todo = <<Head(@)>> \o Consumption]
                                  ELSE tx[s])

\* The loop, a report, a fact or the administrator moves the request on.
Move(s) ==
  LET r == tx[s].request
      o == requests[r].owner
      t == IF o \in Parties THEN [tx[s] EXCEPT !.party = o] ELSE [tx[s] EXCEPT !.user = o]
  IN At(s, "move") /\ \E m \in Moves(requests[r]) :
       Execute(s, "move", TRUE,
               IF Due(r, m)
                 THEN [t EXCEPT !.move = m, !.todo = <<Head(@)>> \o Consumption]
                 ELSE [t EXCEPT !.move = m])

-----------------------------------------------------------------------------
(* Commits. *)

\* What becomes of requests when the request of s ends as reqs has it.
Ended(s, reqs) ==
  CASE tx[s].fresh = "none"    -> {reqs}
    [] tx[s].fresh = "refused" -> {[reqs EXCEPT ![tx[s].request].next = "refused"]}
    [] tx[s].fresh = "allowed" ->
         Submitted(Owner(s), [reqs EXCEPT ![tx[s].request].next = "consumed"])

Configured(s) == limit' = tx[s].arg /\ UNCHANGED <<members, parties, requests>>

Created(s) ==
  /\ \E p \in Parties :
       /\ parties[p].phase = "none"
       /\ parties' = [parties EXCEPT ![p] =
            [phase |-> "live", leader |-> tx[s].user, invite |-> 1]]
       /\ members' = [members EXCEPT ![tx[s].user] = p]
  /\ UNCHANGED <<limit, requests>>

InviteReset(s) ==
  /\ parties[tx[s].party].invite < MaxInvites
  /\ parties' = [parties EXCEPT ![tx[s].party].invite = @ + 1]
  /\ UNCHANGED <<members, limit, requests>>

Belongs(u, p) == /\ members' = [members EXCEPT ![u] = p]
                 /\ UNCHANGED <<parties, limit, requests>>

Disbanded(s) ==
  /\ parties' = [parties EXCEPT ![tx[s].party].phase = "dissolved",
                                ![tx[s].party].leader = None]
  /\ members' = [u \in Users |-> IF members[u] = tx[s].party THEN None ELSE members[u]]
  /\ UNCHANGED <<limit, requests>>

\* The requests each operation may leave behind.
RequestsAfter(s) ==
  LET r == tx[s].request
  IN CASE tx[s].op = "request"  -> Submitted(Owner(s), requests)
       [] tx[s].op = "cancel"   -> {[requests EXCEPT ![r].state = "over"]}
       [] tx[s].op = "stop"     -> {[requests EXCEPT ![r].state = "stopping",
                                       ![r].next = IF tx[s].arg = 1 THEN "pending" ELSE @]}
       [] tx[s].op = "abandon"  -> Ended(s, [requests EXCEPT ![r].state = "over"])
       [] tx[s].op = "progress" -> Ended(s, Moved(r, tx[s].move))
       [] OTHER                 -> {}

Commit(s) ==
  /\ At(s, "commit")
  /\ \/ tx[s].op = "configure" /\ Configured(s)
     \/ tx[s].op = "create" /\ Created(s)
     \/ tx[s].op = "reset" /\ InviteReset(s)
     \/ tx[s].op = "join" /\ Belongs(tx[s].user, tx[s].party)
     \/ tx[s].op = "leave" /\ Belongs(tx[s].user, None)
     \/ tx[s].op = "remove" /\ Belongs(tx[s].target, None)
     \/ tx[s].op = "disband" /\ Disbanded(s)
     \/ requests' \in RequestsAfter(s) /\ UNCHANGED <<members, parties, limit>>
  /\ Finish(s)

-----------------------------------------------------------------------------
\* The call of op by u, with what it names: a user, a party, a request, a number.
Call(op, u, v, p, r, k) ==
  [NoTx EXCEPT !.op = op, !.user = u, !.target = v, !.party = p, !.request = r, !.arg = k,
               !.todo = Statements(op)]

\* Players and operators call, the loop and the Controllers drive requests on.
\* An invite, once issued, may be used at any later time.
Calls ==
  LET known == {r \in Requests : requests[r].state # "none"}
  IN    {Call("configure", None, None, None, None, n) : n \in Limits}
   \cup {Call(op, u, None, None, None, 0) :
           op \in {"create", "reset", "leave", "disband", "request"}, u \in Users}
   \cup (UNION {{Call("join", u, None, p, None, k) : k \in 1..parties[p].invite} :
                  u \in Users, p \in Parties})
   \cup {Call("remove", u, v, None, None, 0) : u \in Users, v \in Users}
   \cup {Call(op, u, None, None, r, k) :
           op \in {"cancel", "stop", "abandon"}, u \in Users, r \in known, k \in {0, 1}}
   \cup {Call("progress", None, None, None, r, 0) : r \in known}

Begin(s) ==
  /\ Idle(s)
  /\ \E t \in Calls : /\ t.op \in Operations[t.user]
                      /\ t.op = "remove" => t.user # t.target
                      /\ t.arg = 1 => t.op \notin {"cancel", "abandon"}
                      /\ tx' = [tx EXCEPT ![s] = t]
  /\ UNCHANGED <<vars, locks>>

PartyInit ==
  /\ Init
  /\ tx = [s \in Sessions |-> NoTx]
  /\ locks = [s \in Sessions |-> {}]

PartyNext ==
  \E s \in Sessions :
    \/ Begin(s) \/ Rollback(s) \/ Commit(s)
    \/ LockUser(s) \/ LockTarget(s) \/ LockSettings(s) \/ ReadMembership(s)
    \/ NoPartyYet(s) \/ NoSolo(s) \/ LockParty(s) \/ LockLedParty(s) \/ LockOwner(s)
    \/ IsLeader(s) \/ NotLeader(s) \/ IsMember(s) \/ NotBusy(s) \/ CheckInvite(s)
    \/ ReadLimit(s) \/ CheckRoom(s) \/ CheckLargest(s) \/ NoCurrent(s) \/ Validate(s)
    \/ LockForeignKey(s) \/ LockRequest(s) \/ RecheckOwner(s)
    \/ StillWaiting(s) \/ StillRunning(s) \/ StillQuarantined(s) \/ Move(s)

PartySpec == PartyInit /\ [][PartyNext]_partyVars

-----------------------------------------------------------------------------
(* Properties. *)

\* Whatever transactions run together, each has the effect of one operation of
\* PartyRules at the moment of its commit: what it checked before still holds.
RulesKept == Spec

\* A user who is about to join does so with the invite that is current then: a
\* reset that has returned to the leader shuts out every older link.
InviteIsCurrent ==
  \A s \in Sessions : At(s, "commit") /\ tx[s].op = "join" =>
                        tx[s].arg = parties[tx[s].party].invite

\* No transactions wait for each other in a circle, as lock_order.go requires of
\* the paths that hold a request and come to its owner.
NoWaitCycle ==
  \A S \in (SUBSET Sessions) \ {{}} : \E s \in S : WaitsFor(s) \cap S = {}

=============================================================================
