----------------------------- MODULE PartyRules -----------------------------
(***************************************************************************)
(* What the Platform promises about users, parties, invites and the        *)
(* requests they own, each operation as one indivisible step.  Party shows *)
(* that the Store's transactions, statement by statement, keep to this.    *)
(*                                                                         *)
(* A request is seen here as its owner sees it: active stands for all that *)
(* lies between waiting for the first attempt and stopping, over for every *)
(* state that does not block the owner.  Lifecycle has the detail.         *)
(***************************************************************************)
EXTENDS Naturals, FiniteSets

CONSTANTS
  Users, Parties, Requests,   \* ids that may ever be used
  MaxInvites,                 \* bound: invites issued per party
  Limits,                     \* bound: party sizes an operator configures
  MaxPlayers,                 \* max_players of the preset
  None                        \* SQL NULL

ASSUME PartyAssumption ==
  /\ IsFiniteSet(Users)
  /\ MaxInvites \in Nat \ {0} /\ MaxPlayers \in Nat
  /\ Limits \subseteq Nat \ {0}
  /\ Users \cap Parties = {}
  /\ None \notin Users \cup Parties

VARIABLES
  members,    \* party_members: the party of each user
  parties,    \* parties and the number of their current invite
  limit,      \* platform_settings.max_party_size, 0 while it is not set
  requests    \* server_requests with their intents

vars == <<members, parties, limit, requests>>

-----------------------------------------------------------------------------
Blocking == {"waiting", "active", "stopping", "quarantined"}
RequestStates == {"none", "over"} \cup Blocking

NoParty   == [phase |-> "none", leader |-> None, invite |-> 0]
NoRequest == [state |-> "none", owner |-> None, held |-> FALSE, next |-> "none"]

Live(p)        == parties[p].phase = "live"
MembersOf(p)   == {u \in Users : members[u] = p}

\* Faulty: a quarantined request does not count.
BusyUnlessQuarantined(o) ==
  \E r \in Requests : /\ requests[r].owner = o
                      /\ requests[r].state \in Blocking \ {"quarantined"}
Busy(o)        == \E r \in Requests : /\ requests[r].owner = o
                                      /\ requests[r].state \in Blocking
PartyBusy(p)   == \E r \in Requests : /\ requests[r].owner = p
                                      /\ requests[r].state \in Blocking \/ requests[r].held
Leads(u, p)    == Live(p) /\ parties[p].leader = u

\* The owner of the requests u submits, and whether u may act on r.
OwnerFor(u)    == IF members[u] = None THEN u ELSE members[u]
MayAct(u, r)   == /\ requests[r].owner = OwnerFor(u)
                  /\ members[u] # None => Leads(u, members[u])

\* The rest of validateFreshRequest, the switches of platform, game and preset,
\* may turn out either way.
NotTooLarge(o) == o \in Parties => Cardinality(MembersOf(o)) <= MaxPlayers

\* reqs with a new waiting request of o.
Submitted(o, reqs) ==
  {[reqs EXCEPT ![q] = [NoRequest EXCEPT !.state = "waiting", !.owner = o]] :
     q \in {q \in Requests : reqs[q].state = "none"}}

-----------------------------------------------------------------------------
(* Users and parties. *)

ConfigurePartySize(n) ==
  /\ \A p \in Parties : Cardinality(MembersOf(p)) <= n
  /\ limit' = n
  /\ UNCHANGED <<members, parties, requests>>

CreateParty(u, p) ==
  /\ limit # 0
  /\ members[u] = None /\ ~Busy(u)
  /\ parties[p].phase = "none"
  /\ parties' = [parties EXCEPT ![p] = [phase |-> "live", leader |-> u, invite |-> 1]]
  /\ members' = [members EXCEPT ![u] = p]
  /\ UNCHANGED <<limit, requests>>

\* Faulty: the old invite is revoked and no new one is issued.
ResetInviteOnlyRevokes(u, p) ==
  /\ Leads(u, p)
  /\ parties' = [parties EXCEPT ![p].invite = None]
  /\ UNCHANGED <<members, limit, requests>>

ResetInvite(u, p) ==
  /\ Leads(u, p)
  /\ parties[p].invite < MaxInvites
  /\ parties' = [parties EXCEPT ![p].invite = @ + 1]
  /\ UNCHANGED <<members, limit, requests>>

\* Faulty: one member too many.
JoinPartyOffByOne(u, p, invite) ==
  /\ members[u] = None /\ ~Busy(u)
  /\ Live(p) /\ parties[p].invite = invite
  /\ Cardinality(MembersOf(p)) <= limit
  /\ members' = [members EXCEPT ![u] = p]
  /\ UNCHANGED <<parties, limit, requests>>

\* Faulty: users keep their solo requests.
JoinPartyWhileBusy(u, p, invite) ==
  /\ members[u] = None
  /\ Live(p) /\ parties[p].invite = invite
  /\ Cardinality(MembersOf(p)) < limit
  /\ members' = [members EXCEPT ![u] = p]
  /\ UNCHANGED <<parties, limit, requests>>

\* Joining takes the current invite of a live party with room, and a user who
\* has neither a party nor a blocking request.
JoinParty(u, p, invite) ==
  /\ members[u] = None /\ ~Busy(u)
  /\ Live(p) /\ parties[p].invite = invite
  /\ Cardinality(MembersOf(p)) < limit
  /\ members' = [members EXCEPT ![u] = p]
  /\ UNCHANGED <<parties, limit, requests>>

\* Faulty: the leader may leave too.
LeavePartyAnybody(u) ==
  /\ members[u] # None
  /\ members' = [members EXCEPT ![u] = None]
  /\ UNCHANGED <<parties, limit, requests>>

\* LeaveParty and RemovePartyMember: the leader stays.
LeaveParty(u) ==
  /\ members[u] # None /\ ~Leads(u, members[u])
  /\ members' = [members EXCEPT ![u] = None]
  /\ UNCHANGED <<parties, limit, requests>>

\* Faulty: only the state of the requests is looked at, not their servers.
DisbandPartyOverHeld(u, p) ==
  /\ Leads(u, p)
  /\ ~Busy(p)
  /\ parties' = [parties EXCEPT ![p].phase = "dissolved", ![p].leader = None]
  /\ members' = [v \in Users |-> IF members[v] = p THEN None ELSE members[v]]
  /\ UNCHANGED <<limit, requests>>

DisbandParty(u, p) ==
  /\ Leads(u, p)
  /\ ~PartyBusy(p)
  /\ parties' = [parties EXCEPT ![p].phase = "dissolved", ![p].leader = None]
  /\ members' = [v \in Users |-> IF members[v] = p THEN None ELSE members[v]]
  /\ UNCHANGED <<limit, requests>>

-----------------------------------------------------------------------------
(* Requests. *)

CreateUserRequest(u) ==
  LET o == OwnerFor(u)
  IN /\ members[u] # None => Leads(u, o)
     /\ ~Busy(o)
     /\ NotTooLarge(o)
     /\ requests' \in Submitted(o, requests)
     /\ UNCHANGED <<members, parties, limit>>

CancelUserRequest(u, r) ==
  /\ MayAct(u, r)
  /\ requests[r].state = "waiting"
  /\ requests' = [requests EXCEPT ![r].state = "over"]
  /\ UNCHANGED <<members, parties, limit>>

StopUserRequest(u, r, next) ==
  /\ MayAct(u, r)
  /\ requests[r].state = "active" /\ requests[r].held
  /\ requests' = [requests EXCEPT ![r].state = "stopping",
                                  ![r].next = IF next THEN "pending" ELSE @]
  /\ UNCHANGED <<members, parties, limit>>

\* The end of r, with the next game if one is due: reqs already has r as it
\* will be.
Consumed(r, reqs) ==
  {[reqs EXCEPT ![r].next = "refused"]} \cup
  (IF NotTooLarge(requests[r].owner)
     THEN Submitted(requests[r].owner, [reqs EXCEPT ![r].next = "consumed"]) ELSE {})

AbandonQuarantinedUserRequest(u, r) ==
  LET abandoned == [requests EXCEPT ![r].state = "over"]
  IN /\ MayAct(u, r)
     /\ requests[r].state = "quarantined"
     /\ requests' \in IF requests[r].next = "paused" THEN Consumed(r, abandoned) ELSE {abandoned}
     /\ UNCHANGED <<members, parties, limit>>

\* What the Store may do to a request of its own: <<state, held>> pairs.
Moves(q) ==
  CASE q.state = "waiting"                  -> {<<"active", TRUE>>, <<"over", FALSE>>}
    [] q.state = "active" /\ ~q.held        -> {<<"active", TRUE>>, <<"over", FALSE>>}
    [] q.state = "active" /\ q.held         -> {<<"active", FALSE>>, <<"over", FALSE>>,
                                                <<"stopping", TRUE>>, <<"quarantined", TRUE>>}
    [] q.state = "stopping"                 -> {<<"over", FALSE>>, <<"quarantined", TRUE>>}
    [] q.state = "quarantined" /\ q.held    ->
         IF q.next = "paused" THEN {<<"quarantined", FALSE>>}
                              ELSE {<<"over", FALSE>>, <<"active", FALSE>>}
    [] q.state = "over" /\ q.held           -> {<<"over", FALSE>>}
    [] OTHER                                -> {}

\* r after a move; a quarantine pauses the next game.
Moved(r, m) ==
  [requests EXCEPT ![r].state = m[1], ![r].held = m[2],
     ![r].next = IF m[1] = "quarantined" /\ @ = "pending" THEN "paused" ELSE @]

\* The release of the server consumes a next game that is still pending.
Due(r, m) == m[1] = "over" /\ requests[r].next = "pending"

Progress(r) ==
  /\ \E m \in Moves(requests[r]) :
       requests' \in IF Due(r, m) THEN Consumed(r, Moved(r, m)) ELSE {Moved(r, m)}
  /\ UNCHANGED <<members, parties, limit>>

-----------------------------------------------------------------------------
\* The size may have been configured before.
Init ==
  /\ members = [u \in Users |-> None]
  /\ parties = [p \in Parties |-> NoParty]
  /\ limit \in {0} \cup Limits
  /\ requests = [r \in Requests |-> NoRequest]

Next ==
  \/ \E n \in Limits : ConfigurePartySize(n)
  \/ \E u \in Users :
       \/ \E p \in Parties :
            \/ CreateParty(u, p)
            \/ ResetInvite(u, p)
            \/ \E invite \in 1..MaxInvites : JoinParty(u, p, invite)
            \/ DisbandParty(u, p)
       \/ LeaveParty(u)
       \/ CreateUserRequest(u)
       \/ \E r \in Requests :
            \/ CancelUserRequest(u, r)
            \/ \E next \in BOOLEAN : StopUserRequest(u, r, next)
            \/ AbandonQuarantinedUserRequest(u, r)
  \/ \E r \in Requests : Progress(r)

Spec == Init /\ [][Next]_vars

-----------------------------------------------------------------------------
(* Properties. *)

PartyRow   == [phase : {"none", "live", "dissolved"}, leader : Users \cup {None},
               invite : Nat]
RequestRow == [state : RequestStates, owner : Users \cup Parties \cup {None},
               held : BOOLEAN, next : {"none", "pending", "paused", "consumed", "refused"}]

\* Rows keep to the types of the schema.
TypeOK ==
  /\ members \in [Users -> Parties \cup {None}]
  /\ parties \in [Parties -> PartyRow]
  /\ limit \in Nat
  /\ requests \in [Requests -> RequestRow]

\* Nobody who is in a party has a solo request that blocks: otherwise the player
\* could neither see nor end it, since all that players do goes to the party.
OnePlace == \A u \in Users : members[u] # None => ~Busy(u)

\* Owners have one blocking request each, whatever submissions, next games and
\* abandonments come together.
OneBlockingRequest ==
  \A r, q \in Requests :
    /\ requests[r].state \in Blocking /\ requests[q].state \in Blocking
    /\ requests[r].owner = requests[q].owner
    => r = q

\* A party with a request that blocks, or a server not yet given back, is not
\* dissolved: somebody may still act on it, and its next game finds its owner.
BusyPartyLives == \A p \in Parties : PartyBusy(p) => Live(p)

\* A live party has its leader among its members; others have no members.
LeaderIsMember ==
  \A p \in Parties : IF Live(p) THEN parties[p].leader \in MembersOf(p)
                               ELSE MembersOf(p) = {}

\* No party outgrows the configured size, whichever of joining, creating and
\* configuring come together.
WithinLimit == \A p \in Parties : Cardinality(MembersOf(p)) <= limit

=============================================================================
