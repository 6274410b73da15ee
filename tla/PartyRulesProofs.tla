-------------------------- MODULE PartyRulesProofs --------------------------
(***************************************************************************)
(* The properties of PartyRules, for any number of users, parties and      *)
(* requests, any sizes and any number of invites.                          *)
(*                                                                         *)
(* Operations on places leave the requests alone and operations on         *)
(* requests leave the places alone.  The requests need one argument for    *)
(* all their operations: a row either blocks and holds no more than it did *)
(* before, or it is a new one whose owner may have it.                     *)
(***************************************************************************)
EXTENDS PartyRules, FiniteSetTheorems, TLAPS

\* A next game is pending only while its source is being stopped; hence the end of
\* the source, which lets the next game in, is the end of a blocking request.
PendingStops ==
  \A r \in Requests : requests[r].next = "pending" => requests[r].state = "stopping"

Inv ==
  /\ TypeOK /\ PendingStops
  /\ OnePlace /\ OneBlockingRequest /\ BusyPartyLives /\ LeaderIsMember /\ WithinLimit

\* o may own a request that blocks.
Place(o) == (o \in Users => members[o] = None) /\ (o \in Parties => Live(o))

\* What a step does to the row of x.
Weaker(x) ==
  /\ requests'[x].owner = requests[x].owner
  /\ requests'[x].state \in Blocking => requests[x].state \in Blocking
  /\ requests'[x].held => requests[x].state \in Blocking \/ requests[x].held

Fresh(x) ==
  /\ ~requests'[x].held
  /\ Place(requests'[x].owner)
  /\ \A y \in Requests \ {x} :
       requests'[y].owner = requests'[x].owner => requests'[y].state \notin Blocking

LEMMA RequestStep ==
  ASSUME Inv, UNCHANGED <<members, parties, limit>>,
         requests' \in [Requests -> RequestRow], PendingStops',
         \A x \in Requests : Weaker(x) \/ Fresh(x)
  PROVE  Inv'
<1>1. TypeOK'
  BY DEF Inv, TypeOK
<1>2. OnePlace'
  BY DEF Inv, OnePlace, Busy, Weaker, Fresh, Place
<1>3. OneBlockingRequest'
  BY DEF Inv, OneBlockingRequest, Weaker, Fresh
<1>4. BusyPartyLives'
  BY DEF Inv, BusyPartyLives, PartyBusy, Live, Weaker, Fresh, Place
<1>5. LeaderIsMember' /\ WithinLimit'
  BY DEF Inv, LeaderIsMember, WithinLimit, Live, MembersOf
<1>6. QED
  BY <1>1, <1>2, <1>3, <1>4, <1>5 DEF Inv

-----------------------------------------------------------------------------
(* Requests. *)

LEMMA BlockingHasPlace ==
  ASSUME Inv, NEW r \in Requests, requests[r].state \in Blocking
  PROVE  Place(requests[r].owner)
BY DEF Inv, OnePlace, Busy, BusyPartyLives, PartyBusy, Place

\* One row changes, and its owner stays.
LEMMA RowStep ==
  ASSUME Inv, UNCHANGED <<members, parties, limit>>,
         NEW r \in Requests, NEW row \in RequestRow,
         requests' = [requests EXCEPT ![r] = row],
         row.owner = requests[r].owner,
         row.state \in Blocking => requests[r].state \in Blocking,
         row.held => requests[r].state \in Blocking \/ requests[r].held,
         row.next = "pending" => row.state = "stopping"
  PROVE  Inv'
<1>1. requests \in [Requests -> RequestRow]
  BY DEF Inv, TypeOK
<1>2. requests' \in [Requests -> RequestRow]
  BY <1>1
<1>3. PendingStops'
  BY <1>1 DEF Inv, PendingStops
<1>4. \A x \in Requests : Weaker(x)
  BY <1>1 DEF Weaker
<1>5. QED
  BY <1>2, <1>3, <1>4, RequestStep

\* A row is added, while another of the same owner may change.
LEMMA SubmissionStep ==
  ASSUME Inv, UNCHANGED <<members, parties, limit>>,
         NEW reqs \in [Requests -> RequestRow],
         \A x \in Requests : /\ reqs[x].owner = requests[x].owner
                             /\ reqs[x].state \in Blocking => requests[x].state \in Blocking
                             /\ reqs[x].held => requests[x].state \in Blocking \/ requests[x].held
                             /\ reqs[x].next = "pending" => reqs[x].state = "stopping",
         NEW o \in Users \cup Parties \cup {None}, Place(o),
         \A x \in Requests : reqs[x].owner = o => reqs[x].state \notin Blocking,
         requests' \in Submitted(o, reqs)
  PROVE  Inv'
<1>. DEFINE new == [NoRequest EXCEPT !.state = "waiting", !.owner = o]
<1>1. PICK q \in Requests : requests' = [reqs EXCEPT ![q] = new]
  BY DEF Submitted
<1>2. /\ new \in RequestRow
      /\ new.owner = o /\ new.held = FALSE /\ new.next = "none" /\ new.state = "waiting"
  BY DEF RequestRow, RequestStates, Blocking, NoRequest
<1>. HIDE DEF new
<1>3. requests' \in [Requests -> RequestRow]
  BY <1>1, <1>2
<1>4. requests'[q] = new /\ \A x \in Requests \ {q} : requests'[x] = reqs[x]
  BY <1>1
<1>5. PendingStops'
  BY <1>2, <1>4 DEF PendingStops
<1>6. Fresh(q)
  BY <1>2, <1>4 DEF Fresh
<1>7. \A x \in Requests \ {q} : Weaker(x)
  BY <1>4 DEF Weaker
<1>8. QED
  BY <1>3, <1>5, <1>6, <1>7, RequestStep

LEMMA CreateKeeps ==
  ASSUME Inv, NEW u \in Users, CreateUserRequest(u)
  PROVE  Inv'
<1>1. OwnerFor(u) \in Users \cup Parties
  BY DEF OwnerFor, Inv, TypeOK
<1>2. Place(OwnerFor(u))
  BY PartyAssumption DEF CreateUserRequest, OwnerFor, Place, Leads, Inv, TypeOK
<1>3. \A x \in Requests : requests[x].owner = OwnerFor(u) => requests[x].state \notin Blocking
  BY DEF CreateUserRequest, Busy
<1>4. \A x \in Requests : requests[x].next = "pending" => requests[x].state = "stopping"
  BY DEF Inv, PendingStops
<1>5. requests \in [Requests -> RequestRow] /\ requests' \in Submitted(OwnerFor(u), requests)
  BY DEF Inv, TypeOK, CreateUserRequest
<1>6. QED
  BY <1>1, <1>2, <1>3, <1>4, <1>5, SubmissionStep DEF CreateUserRequest

LEMMA CancelKeeps ==
  ASSUME Inv, NEW u \in Users, NEW r \in Requests, CancelUserRequest(u, r)
  PROVE  Inv'
<1>. DEFINE row == [requests[r] EXCEPT !.state = "over"]
<1>1. requests[r] \in RequestRow
  BY DEF Inv, TypeOK
<1>2. /\ row \in RequestRow /\ row.state = "over"
      /\ row.owner = requests[r].owner /\ row.held = requests[r].held
      /\ row.next = requests[r].next
  BY <1>1 DEF RequestRow, RequestStates
<1>3. requests' = [requests EXCEPT ![r] = row] /\ requests[r].state = "waiting"
  BY DEF CancelUserRequest
<1>4. requests[r].next # "pending"
  BY <1>3 DEF Inv, PendingStops
<1>. HIDE DEF row
<1>5. QED
  BY <1>2, <1>3, <1>4, RowStep DEF CancelUserRequest, Blocking

LEMMA StopKeeps ==
  ASSUME Inv, NEW u \in Users, NEW r \in Requests, NEW next \in BOOLEAN,
         StopUserRequest(u, r, next)
  PROVE  Inv'
<1>. DEFINE row == [requests[r] EXCEPT !.state = "stopping",
                                       !.next = IF next THEN "pending" ELSE @]
<1>1. requests[r] \in RequestRow
  BY DEF Inv, TypeOK
<1>2. /\ row \in RequestRow /\ row.state = "stopping"
      /\ row.owner = requests[r].owner /\ row.held = requests[r].held
  BY <1>1 DEF RequestRow, RequestStates, Blocking
<1>3. requests' = [requests EXCEPT ![r] = row] /\ requests[r].state = "active"
  BY <1>1 DEF StopUserRequest, Inv, TypeOK
<1>. HIDE DEF row
<1>4. QED
  BY <1>2, <1>3, RowStep DEF StopUserRequest, Blocking

\* The end of r with its next game: either is refused, or both hold.
LEMMA ConsumptionKeeps ==
  ASSUME Inv, UNCHANGED <<members, parties, limit>>,
         NEW r \in Requests, requests[r].state \in Blocking,
         NEW row \in RequestRow, row.state = "over", row.owner = requests[r].owner,
         requests' \in Consumed(r, [requests EXCEPT ![r] = row])
  PROVE  Inv'
<1>. DEFINE reqs(n) == [[requests EXCEPT ![r] = row] EXCEPT ![r].next = n]
            end(n)  == [row EXCEPT !.next = n]
<1>1. requests \in [Requests -> RequestRow]
  BY DEF Inv, TypeOK
<1>2. ASSUME NEW n \in {"refused", "consumed"}
      PROVE  /\ end(n) \in RequestRow /\ end(n).state = "over"
             /\ end(n).owner = row.owner /\ end(n).next = n
             /\ reqs(n) = [requests EXCEPT ![r] = end(n)]
  BY <1>1 DEF RequestRow
<1>3. CASE requests' = reqs("refused")
  <2>. HIDE DEF end, reqs
  <2>1. QED
    BY <1>2, <1>3, RowStep DEF Blocking
<1>4. CASE requests' \in Submitted(requests[r].owner, reqs("consumed"))
  <2>1. Place(requests[r].owner) /\ requests[r].owner \in Users \cup Parties \cup {None}
    BY <1>1, BlockingHasPlace DEF RequestRow
  <2>. DEFINE all == reqs("consumed")
  <2>2. /\ all \in [Requests -> RequestRow] /\ all[r] = end("consumed")
        /\ \A x \in Requests \ {r} : all[x] = requests[x]
    BY <1>1, <1>2
  <2>3. end("consumed").owner = requests[r].owner /\ end("consumed").state = "over"
        /\ end("consumed").next # "pending"
    BY <1>2
  <2>. HIDE DEF end, all, reqs
  <2>4. \A x \in Requests : /\ all[x].owner = requests[x].owner
                            /\ all[x].state \in Blocking => requests[x].state \in Blocking
                            /\ all[x].held => requests[x].state \in Blocking \/ requests[x].held
                            /\ all[x].next = "pending" => all[x].state = "stopping"
    BY <2>2, <2>3 DEF Inv, PendingStops
  <2>5. \A x \in Requests : all[x].owner = requests[r].owner => all[x].state \notin Blocking
    BY <2>2, <2>3 DEF Inv, OneBlockingRequest, Blocking
  <2>6. requests' \in Submitted(requests[r].owner, all)
    BY <1>4 DEF all
  <2>7. QED
    BY <2>1, <2>2, <2>4, <2>5, <2>6, SubmissionStep
<1>5. QED
  BY <1>3, <1>4 DEF Consumed

LEMMA AbandonKeeps ==
  ASSUME Inv, NEW u \in Users, NEW r \in Requests, AbandonQuarantinedUserRequest(u, r)
  PROVE  Inv'
<1>. DEFINE row       == [requests[r] EXCEPT !.state = "over"]
            abandoned == [requests EXCEPT ![r] = row]
<1>1. requests \in [Requests -> RequestRow]
  BY DEF Inv, TypeOK
<1>2. /\ row \in RequestRow /\ row.state = "over"
      /\ row.owner = requests[r].owner /\ row.held = requests[r].held
      /\ row.next = requests[r].next
  BY <1>1 DEF RequestRow, RequestStates
<1>3. abandoned = [requests EXCEPT ![r].state = "over"]
  BY <1>1
<1>4. requests[r].state = "quarantined" /\ requests[r].next # "pending"
  BY DEF AbandonQuarantinedUserRequest, Inv, PendingStops
<1>5. /\ requests' = abandoned \/ requests' \in Consumed(r, abandoned)
      /\ UNCHANGED <<members, parties, limit>>
  BY <1>3 DEF AbandonQuarantinedUserRequest
<1>. HIDE DEF row
<1>6. CASE requests' = abandoned
  BY <1>2, <1>4, <1>5, <1>6, RowStep DEF Blocking
<1>7. CASE requests' \in Consumed(r, abandoned)
  BY <1>2, <1>4, <1>5, <1>7, ConsumptionKeeps DEF Blocking
<1>8. QED
  BY <1>5, <1>6, <1>7

LEMMA ProgressKeeps ==
  ASSUME Inv, NEW r \in Requests, Progress(r)
  PROVE  Inv'
<1>1. PICK m \in Moves(requests[r]) :
        requests' \in IF Due(r, m) THEN Consumed(r, Moved(r, m)) ELSE {Moved(r, m)}
  BY DEF Progress
<1>. DEFINE row == [requests[r] EXCEPT !.state = m[1], !.held = m[2],
                      !.next = IF m[1] = "quarantined" /\ @ = "pending" THEN "paused" ELSE @]
<1>2. requests \in [Requests -> RequestRow]
  BY DEF Inv, TypeOK
<1>3. /\ m[1] \in RequestStates /\ m[2] \in BOOLEAN
      /\ m[1] \in Blocking => requests[r].state \in Blocking
      /\ m[2] => requests[r].state \in Blocking \/ requests[r].held
      /\ m[1] = "stopping" => requests[r].state = "active"
      /\ requests[r].state = "stopping" => m[1] \in {"over", "quarantined"}
  <2>1. \/ requests[r].state = "waiting" /\ m \in {<<"active", TRUE>>, <<"over", FALSE>>}
        \/ /\ requests[r].state = "active"
           /\ m \in {<<"active", TRUE>>, <<"active", FALSE>>, <<"over", FALSE>>,
                     <<"stopping", TRUE>>, <<"quarantined", TRUE>>}
        \/ requests[r].state = "stopping" /\ m \in {<<"over", FALSE>>, <<"quarantined", TRUE>>}
        \/ /\ requests[r].state = "quarantined"
           /\ m \in {<<"quarantined", FALSE>>, <<"over", FALSE>>, <<"active", FALSE>>}
        \/ requests[r].state = "over" /\ m \in {<<"over", FALSE>>}
    BY <1>1 DEF Moves
  <2>2. PICK s \in RequestStates, h \in BOOLEAN :
          /\ m = <<s, h>>
          /\ s \in Blocking => requests[r].state \in Blocking
          /\ h => requests[r].state \in Blocking
          /\ s = "stopping" => requests[r].state = "active"
          /\ requests[r].state = "stopping" => s \in {"over", "quarantined"}
    BY <2>1 DEF Blocking, RequestStates
  <2>3. m[1] = s /\ m[2] = h
    BY <2>2
  <2>4. QED
    BY <2>2, <2>3
<1>4. /\ row \in RequestRow
      /\ row.state = m[1] /\ row.held = m[2] /\ row.owner = requests[r].owner
      /\ row.next = IF m[1] = "quarantined" /\ requests[r].next = "pending"
                      THEN "paused" ELSE requests[r].next
  BY <1>2, <1>3 DEF RequestRow
<1>5. Moved(r, m) = [requests EXCEPT ![r] = row]
  BY <1>2 DEF Moved
<1>. HIDE DEF row
<1>6. CASE Due(r, m)
  <2>1. requests[r].state = "stopping" /\ row.state = "over"
    BY <1>4, <1>6 DEF Due, Inv, PendingStops
  <2>2. QED
    BY <1>1, <1>4, <1>5, <1>6, <2>1, ConsumptionKeeps DEF Progress, Blocking
<1>7. CASE ~Due(r, m)
  <2>1. row.next = "pending" => row.state = "stopping"
    BY <1>3, <1>4, <1>7 DEF Due, Inv, PendingStops
  <2>2. QED
    BY <1>1, <1>3, <1>4, <1>5, <1>7, <2>1, RowStep DEF Progress
<1>8. QED
  BY <1>6, <1>7

-----------------------------------------------------------------------------
(* Places. *)

LEMMA FewMembers ==
  ASSUME NEW p
  PROVE  IsFiniteSet(MembersOf(p)) /\ Cardinality(MembersOf(p)) \in Nat
BY PartyAssumption, FS_Subset, FS_CardinalityType DEF MembersOf

LEMMA ConfigureKeeps ==
  ASSUME Inv, NEW n \in Limits, ConfigurePartySize(n)
  PROVE  Inv'
<1>1. UNCHANGED <<members, parties, requests>> /\ limit' = n /\ n \in Nat
  BY PartyAssumption DEF ConfigurePartySize
<1>2. TypeOK' /\ PendingStops' /\ OneBlockingRequest'
  BY <1>1 DEF Inv, TypeOK, PendingStops, OneBlockingRequest
<1>3. OnePlace' /\ BusyPartyLives' /\ LeaderIsMember'
  BY <1>1 DEF Inv, OnePlace, BusyPartyLives, LeaderIsMember, Busy, PartyBusy, Live, MembersOf
<1>4. WithinLimit'
  BY <1>1 DEF ConfigurePartySize, WithinLimit, MembersOf
<1>5. QED
  BY <1>2, <1>3, <1>4 DEF Inv

LEMMA CreatePartyKeeps ==
  ASSUME Inv, NEW u \in Users, NEW p \in Parties, CreateParty(u, p)
  PROVE  Inv'
<1>. DEFINE new == [phase |-> "live", leader |-> u, invite |-> 1]
<1>1. /\ members \in [Users -> Parties \cup {None}] /\ parties \in [Parties -> PartyRow]
      /\ limit \in Nat \ {0}
      /\ members[u] = None /\ ~Busy(u) /\ MembersOf(p) = {}
      /\ UNCHANGED <<limit, requests>>
  BY DEF CreateParty, Inv, TypeOK, LeaderIsMember, Live
<1>2. members' = [members EXCEPT ![u] = p] /\ parties' = [parties EXCEPT ![p] = new]
  BY DEF CreateParty
<1>3. new \in PartyRow /\ new.phase = "live" /\ new.leader = u
  BY DEF PartyRow
<1>. HIDE DEF new
<1>4. TypeOK' /\ PendingStops' /\ OneBlockingRequest'
  BY <1>1, <1>2, <1>3 DEF Inv, TypeOK, PendingStops, OneBlockingRequest
<1>5. OnePlace'
  BY <1>1, <1>2 DEF Inv, OnePlace, Busy
<1>6. BusyPartyLives'
  BY <1>1, <1>2, <1>3 DEF Inv, BusyPartyLives, PartyBusy, Live
<1>7. MembersOf(p)' = {u} /\ \A q \in Parties \ {p} : MembersOf(q)' = MembersOf(q)
  BY <1>1, <1>2, PartyAssumption DEF MembersOf
<1>8. LeaderIsMember'
  BY <1>1, <1>2, <1>3, <1>7 DEF Inv, LeaderIsMember, Live
<1>9. WithinLimit'
  <2>1. Cardinality({u}) = 1
    BY FS_Singleton
  <2>2. QED
    BY <1>1, <1>7, <2>1 DEF Inv, WithinLimit
<1>10. QED
  BY <1>4, <1>5, <1>6, <1>8, <1>9 DEF Inv

LEMMA ResetKeeps ==
  ASSUME Inv, NEW u \in Users, NEW p \in Parties, ResetInvite(u, p)
  PROVE  Inv'
<1>. DEFINE new == [parties[p] EXCEPT !.invite = @ + 1]
<1>1. parties \in [Parties -> PartyRow] /\ UNCHANGED <<members, limit, requests>>
  BY DEF Inv, TypeOK, ResetInvite
<1>2. parties' = [parties EXCEPT ![p] = new]
  BY <1>1 DEF ResetInvite
<1>3. new \in PartyRow /\ new.phase = parties[p].phase /\ new.leader = parties[p].leader
  BY <1>1 DEF PartyRow
<1>. HIDE DEF new
<1>4. TypeOK' /\ PendingStops' /\ OneBlockingRequest'
  BY <1>1, <1>2, <1>3 DEF Inv, TypeOK, PendingStops, OneBlockingRequest
<1>5. OnePlace' /\ WithinLimit'
  BY <1>1 DEF Inv, OnePlace, Busy, WithinLimit, MembersOf
<1>6. BusyPartyLives' /\ LeaderIsMember'
  BY <1>1, <1>2, <1>3 DEF Inv, BusyPartyLives, LeaderIsMember, PartyBusy, Live, MembersOf
<1>7. QED
  BY <1>4, <1>5, <1>6 DEF Inv

LEMMA JoinKeeps ==
  ASSUME Inv, NEW u \in Users, NEW p \in Parties, NEW i \in 1..MaxInvites, JoinParty(u, p, i)
  PROVE  Inv'
<1>1. /\ members \in [Users -> Parties \cup {None}]
      /\ members[u] = None /\ ~Busy(u) /\ Live(p)
      /\ members' = [members EXCEPT ![u] = p]
      /\ UNCHANGED <<parties, limit, requests>>
  BY DEF JoinParty, Inv, TypeOK
<1>2. TypeOK' /\ PendingStops' /\ OneBlockingRequest'
  BY <1>1 DEF Inv, TypeOK, PendingStops, OneBlockingRequest
<1>3. OnePlace' /\ BusyPartyLives'
  BY <1>1 DEF Inv, OnePlace, Busy, BusyPartyLives, PartyBusy, Live
<1>4. /\ MembersOf(p)' = MembersOf(p) \cup {u}
      /\ \A q \in Parties \ {p} : MembersOf(q)' = MembersOf(q)
  BY <1>1, PartyAssumption DEF MembersOf
<1>5. LeaderIsMember'
  BY <1>1, <1>4 DEF Inv, LeaderIsMember, Live
<1>6. WithinLimit'
  <2>1. Cardinality(MembersOf(p) \cup {u}) <= Cardinality(MembersOf(p)) + 1
    BY FewMembers, FS_AddElement
  <2>2. Cardinality(MembersOf(p) \cup {u}) \in Nat
    BY FewMembers, FS_AddElement, FS_CardinalityType
  <2>3. Cardinality(MembersOf(p)) \in Nat /\ limit \in Nat
        /\ Cardinality(MembersOf(p)) < limit
    BY FewMembers DEF JoinParty, Inv, TypeOK
  <2>4. Cardinality(MembersOf(p))' <= limit
    BY <1>4, <2>1, <2>2, <2>3
  <2>5. QED
    BY <1>1, <1>4, <2>4 DEF Inv, WithinLimit
<1>7. QED
  BY <1>2, <1>3, <1>5, <1>6 DEF Inv

LEMMA LeaveKeeps ==
  ASSUME Inv, NEW u \in Users, LeaveParty(u)
  PROVE  Inv'
<1>1. /\ members \in [Users -> Parties \cup {None}]
      /\ members' = [members EXCEPT ![u] = None]
      /\ UNCHANGED <<parties, limit, requests>>
  BY DEF LeaveParty, Inv, TypeOK
<1>2. TypeOK' /\ PendingStops' /\ OneBlockingRequest'
  BY <1>1 DEF Inv, TypeOK, PendingStops, OneBlockingRequest
<1>3. OnePlace' /\ BusyPartyLives'
  BY <1>1 DEF Inv, OnePlace, Busy, BusyPartyLives, PartyBusy, Live
<1>4. \A p \in Parties : MembersOf(p)' = MembersOf(p) \ {u}
  BY <1>1, PartyAssumption DEF MembersOf
<1>5. LeaderIsMember'
  BY <1>1, <1>4 DEF LeaveParty, Leads, Inv, LeaderIsMember, Live, MembersOf
<1>6. WithinLimit'
  <2>. SUFFICES ASSUME NEW p \in Parties PROVE (Cardinality(MembersOf(p)) <= limit)'
    BY DEF WithinLimit
  <2>1. Cardinality(MembersOf(p) \ {u}) <= Cardinality(MembersOf(p))
    BY FewMembers, FS_Subset
  <2>2. Cardinality(MembersOf(p) \ {u}) \in Nat /\ Cardinality(MembersOf(p)) \in Nat
    BY FewMembers, FS_Subset, FS_CardinalityType
  <2>3. QED
    BY <1>1, <1>4, <2>1, <2>2 DEF Inv, TypeOK, WithinLimit
<1>7. QED
  BY <1>2, <1>3, <1>5, <1>6 DEF Inv

LEMMA DisbandKeeps ==
  ASSUME Inv, NEW u \in Users, NEW p \in Parties, DisbandParty(u, p)
  PROVE  Inv'
<1>. DEFINE gone == [parties[p] EXCEPT !.phase = "dissolved", !.leader = None]
<1>1. /\ members \in [Users -> Parties \cup {None}] /\ parties \in [Parties -> PartyRow]
      /\ ~PartyBusy(p)
      /\ members' = [v \in Users |-> IF members[v] = p THEN None ELSE members[v]]
      /\ UNCHANGED <<limit, requests>>
  BY DEF DisbandParty, Inv, TypeOK
<1>2. parties' = [parties EXCEPT ![p] = gone]
  BY <1>1 DEF DisbandParty
<1>3. gone \in PartyRow /\ gone.phase = "dissolved"
  BY <1>1 DEF PartyRow
<1>. HIDE DEF gone
<1>4. TypeOK' /\ PendingStops' /\ OneBlockingRequest'
  BY <1>1, <1>2, <1>3 DEF Inv, TypeOK, PendingStops, OneBlockingRequest
<1>5. OnePlace'
  BY <1>1 DEF Inv, OnePlace, Busy
<1>6. BusyPartyLives'
  BY <1>1, <1>2 DEF Inv, BusyPartyLives, PartyBusy, Live
<1>7. MembersOf(p)' = {} /\ \A q \in Parties \ {p} : MembersOf(q)' = MembersOf(q)
  BY <1>1, PartyAssumption DEF MembersOf
<1>8. LeaderIsMember'
  BY <1>1, <1>2, <1>3, <1>7 DEF Inv, LeaderIsMember, Live
<1>9. WithinLimit'
  BY <1>1, <1>7, FS_EmptySet DEF Inv, TypeOK, WithinLimit
<1>10. QED
  BY <1>4, <1>5, <1>6, <1>8, <1>9 DEF Inv

-----------------------------------------------------------------------------
(* The invariant. *)

LEMMA InvInitially == Init => Inv
<1>. SUFFICES ASSUME Init PROVE Inv
  OBVIOUS
<1>1. NoRequest \in RequestRow /\ NoRequest.state = "none" /\ NoRequest.held = FALSE
      /\ NoRequest.next = "none"
  BY DEF NoRequest, RequestRow, RequestStates
<1>2. NoParty \in PartyRow /\ NoParty.phase = "none"
  BY DEF NoParty, PartyRow
<1>3. TypeOK
  BY <1>1, <1>2, PartyAssumption DEF Init, TypeOK
<1>4. PendingStops /\ OneBlockingRequest /\ OnePlace /\ BusyPartyLives
  BY <1>1 DEF Init, PendingStops, OneBlockingRequest, OnePlace, BusyPartyLives, Busy,
              PartyBusy, Blocking
<1>5. \A p \in Parties : MembersOf(p) = {} /\ ~Live(p)
  BY <1>2, PartyAssumption DEF Init, MembersOf, Live
<1>6. LeaderIsMember /\ WithinLimit
  BY <1>3, <1>5, FS_EmptySet DEF LeaderIsMember, WithinLimit, TypeOK
<1>7. QED
  BY <1>3, <1>4, <1>6 DEF Inv

LEMMA InvKept == Inv /\ [Next]_vars => Inv'
<1>. SUFFICES ASSUME Inv, [Next]_vars PROVE Inv'
  OBVIOUS
<1>1. ASSUME NEW u \in Users, NEW p \in Parties,
             CreateParty(u, p) \/ ResetInvite(u, p) \/ DisbandParty(u, p)
             \/ \E i \in 1..MaxInvites : JoinParty(u, p, i)
      PROVE  Inv'
  BY <1>1, CreatePartyKeeps, ResetKeeps, DisbandKeeps, JoinKeeps
<1>2. ASSUME NEW u \in Users, LeaveParty(u) \/ CreateUserRequest(u)
      PROVE  Inv'
  BY <1>2, LeaveKeeps, CreateKeeps
<1>3. ASSUME NEW u \in Users, NEW r \in Requests,
             CancelUserRequest(u, r) \/ AbandonQuarantinedUserRequest(u, r)
             \/ \E next \in BOOLEAN : StopUserRequest(u, r, next)
      PROVE  Inv'
  BY <1>3, CancelKeeps, AbandonKeeps, StopKeeps
<1>4. CASE UNCHANGED vars
  BY <1>4 DEF vars, Inv, TypeOK, PendingStops, OnePlace, OneBlockingRequest, BusyPartyLives,
              LeaderIsMember, WithinLimit, Busy, PartyBusy, Live, MembersOf
<1>5. QED
  BY <1>1, <1>2, <1>3, <1>4, ConfigureKeeps, ProgressKeeps DEF Next

\* The rows of parties, memberships and requests agree in every reachable state.
THEOREM InvHolds == Spec => []Inv
BY InvInitially, InvKept, PTL DEF Spec

\* Rows keep to the types of the schema.
THEOREM TypeCorrect == Spec => []TypeOK
<1>1. Inv => TypeOK
  BY DEF Inv
<1>2. QED
  BY <1>1, InvHolds, PTL

\* Nobody in a party has a solo request that blocks.
THEOREM PlaceIsOne == Spec => []OnePlace
<1>1. Inv => OnePlace
  BY DEF Inv
<1>2. QED
  BY <1>1, InvHolds, PTL

\* No next game, abandonment or submission gives an owner a second blocking request.
THEOREM OneBlocking == Spec => []OneBlockingRequest
<1>1. Inv => OneBlockingRequest
  BY DEF Inv
<1>2. QED
  BY <1>1, InvHolds, PTL

\* A party whose request blocks, or whose server is not given back, is live.
THEOREM BusyLives == Spec => []BusyPartyLives
<1>1. Inv => BusyPartyLives
  BY DEF Inv
<1>2. QED
  BY <1>1, InvHolds, PTL

\* The leader of a live party is one of its members, and only live parties have any.
THEOREM LeaderStays == Spec => []LeaderIsMember
<1>1. Inv => LeaderIsMember
  BY DEF Inv
<1>2. QED
  BY <1>1, InvHolds, PTL

\* No party outgrows the configured size.
THEOREM SizeKept == Spec => []WithinLimit
<1>1. Inv => WithinLimit
  BY DEF Inv
<1>2. QED
  BY <1>1, InvHolds, PTL
=============================================================================
