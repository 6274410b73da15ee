----------------------------- MODULE PartyProofs -----------------------------
(***************************************************************************)
(* The transactions of Party, for any number of users, parties, requests   *)
(* and connections and for any calls: each commit is one step of           *)
(* PartyRules.                                                             *)
(*                                                                         *)
(* A transaction relies on what it has found: Facts says what that is,     *)
(* statement by statement.  What a commit of another connection may        *)
(* change, given the rows it has locked, is Change; a fact survives it     *)
(* because its own transaction holds one of those rows, or because no      *)
(* transaction ever changes it back.                                       *)
(***************************************************************************)
EXTENDS Party, PartyRulesProofs, SequenceTheorems

-----------------------------------------------------------------------------
(* The progress of a transaction. *)

Steps == {"lockSettings", "lockUser", "lockTarget", "lockLedParty", "lockParty", "lockOwner",
          "lockRequest", "lockForeignKey", "checkLargest", "readLimit", "noParty", "noSolo",
          "checkInvite", "checkRoom", "readMembership", "isLeader", "notLeader", "isMember",
          "notBusy", "noCurrent", "validate", "recheckOwner", "stillWaiting", "stillRunning",
          "stillQuarantined", "move", "commit"}

\* The end of the request of t has let a next game in, and the owner comes next.
Consuming(t) ==
  /\ t.op \in {"abandon", "progress"}
  /\ t.fresh # "none" \/ Head(t.todo) \in {"lockOwner", "validate"}

\* All the statements of t, and those it has executed.
Script(t) ==
  CASE ~Consuming(t) -> Statements(t.op)
    [] Consuming(t) /\ t.op = "abandon" ->
         <<"readMembership", "isLeader", "lockRequest", "recheckOwner", "stillQuarantined",
           "lockOwner", "validate", "lockForeignKey", "commit">>
    [] Consuming(t) /\ t.op = "progress" ->
         <<"lockRequest", "move", "lockOwner", "validate", "lockForeignKey", "commit">>
Done(t)   == {Script(t)[i] : i \in 1..(Len(Script(t)) - Len(t.todo))}

OnTrack(t) ==
  \E n \in 1..Len(Script(t)) : t.todo = SubSeq(Script(t), n, Len(Script(t)))

\* The lock that statement stm of t takes.
Taken(t, stm) ==
  CASE stm = "lockUser"     -> {<<t.user, "update">>}
    [] stm = "lockTarget"   -> {<<t.target, "update">>}
    [] stm = "lockSettings" -> {<<Settings, "update">>}
    [] stm \in {"readLimit", "validate"} -> {<<Settings, "share">>}
    [] stm \in {"lockParty", "lockLedParty", "lockOwner"} ->
         {<<p, "update">> : p \in {t.party} \ {None}}
    [] stm = "lockRequest"  -> {<<t.request, "update">>}
    [] stm = "lockForeignKey" /\ t.party = None /\ t.fresh = "allowed" -> {<<t.user, "share">>}
    [] OTHER                -> {}
Locked(t) == UNION {Taken(t, stm) : stm \in Done(t)}

OwnerOf(t) == IF t.party = None THEN t.user ELSE t.party

-----------------------------------------------------------------------------
(* The inductive invariant. *)

Rows == Users \cup Parties \cup Requests \cup {Settings, None}

Called == {"configure", "create", "reset", "join", "leave", "remove", "disband",
           "request", "cancel", "stop", "abandon", "progress"}
OnRequest == {"cancel", "stop", "abandon", "progress"}

TxRow ==
  [op : Called, user : Users \cup {None}, target : Users \cup {None},
   party : Parties \cup {None}, request : Requests \cup {None}, arg : Nat, size : Nat,
   move : ({"none"} \cup RequestStates) \X BOOLEAN, fresh : {"none", "allowed", "refused"},
       todo : Seq(Steps)]

Dissolved(p) == parties[p].phase = "dissolved"

\* The arguments of the call.
CallFacts(t) ==
  /\ t.op \notin {"configure", "progress"} => t.user \in Users
  /\ t.op = "remove" => t.target \in Users \ {t.user}
  /\ t.op = "join" => t.party \in Parties /\ t.arg > 0
  /\ t.op = "configure" => t.arg \in Limits
  /\ t.op \in OnRequest => t.request \in Requests /\ requests[t.request].state # "none"

\* What statement stm of t has found, and t relies on.
Found(t, stm) ==
  LET u == t.user
      p == t.party
      q == requests[t.request]
      readsPlace == t.op \in {"leave", "request", "cancel"}
  IN CASE stm = "noParty"      -> members[u] = None
       [] stm = "noSolo"       -> ~Busy(u)
       [] stm = "readMembership" ->
            IF p = None THEN readsPlace => members[u] = None
                        ELSE Dissolved(p) \/ (Live(p) /\ (readsPlace => members[u] = p))
       [] stm = "lockParty"    -> p \in Parties /\ Live(p)
       [] stm = "lockLedParty" -> p \in Parties /\ Leads(u, p)
       [] stm = "lockOwner"    ->
            p # None => Live(p) /\ (t.op \in {"request", "cancel"} => Leads(u, p))
       [] stm = "isLeader"     -> p # None => Dissolved(p) \/ Leads(u, p)
       [] stm = "notLeader"    -> ~Leads(u, p)
       [] stm = "isMember"     -> members[t.target] = p
       [] stm = "notBusy"      -> ~PartyBusy(p)
       [] stm = "checkInvite"  -> parties[p].invite = t.arg
       [] stm = "readLimit"    -> t.size = limit /\ limit # 0
       [] stm = "checkRoom"    -> Cardinality(MembersOf(p)) < t.size
       [] stm = "checkLargest" -> \A o \in Parties : Cardinality(MembersOf(o)) <= t.arg
       [] stm = "noCurrent"    -> ~Busy(OwnerOf(t))
       [] stm = "validate"     -> /\ t.fresh = "allowed" => NotTooLarge(OwnerOf(t))
                                  /\ t.op = "request" => t.fresh = "allowed"
       [] stm = "lockRequest"  -> t.op # "progress" => q.owner = OwnerOf(t)
       [] stm = "stillWaiting" -> q.state = "waiting"
       [] stm = "stillRunning" -> q.state = "active" /\ q.held
       [] stm = "stillQuarantined" ->
            q.state = "quarantined" /\ (q.next = "paused" <=> Consuming(t))
       [] stm = "move"         -> /\ q.owner = OwnerOf(t)
                                  /\ t.move \in Moves(q)
                                  /\ Due(t.request, t.move) <=> Consuming(t)
       [] OTHER                -> TRUE

Facts(t) ==
  /\ CallFacts(t)
  /\ t.fresh # "none" <=> "validate" \in Done(t)
  /\ t.op = "progress" /\ "move" \notin Done(t) => t.party = None
  /\ \A stm \in Done(t) : Found(t, stm)

\* Sessions that work are on track and hold exactly the locks of what they did.
Session(s) ==
  IF tx[s].op = "none"
    THEN tx[s] = NoTx /\ locks[s] = {}
    ELSE tx[s] \in TxRow /\ OnTrack(tx[s]) /\ locks[s] = Locked(tx[s])

\* The locks of different sessions do not conflict.
LocksCompatible ==
  \A s, t \in Sessions : s # t =>
    \A row \in Rows :
      <<row, "update">> \in locks[s] =>
        <<row, "update">> \notin locks[t] /\ <<row, "share">> \notin locks[t]

PartyInv ==
  /\ Inv
  /\ \A p \in Parties : parties[p].invite <= MaxInvites
  /\ tx \in [Sessions -> {NoTx} \cup TxRow]
  /\ locks \in [Sessions -> SUBSET (Rows \X {"update", "share"})]
  /\ LocksCompatible
  /\ \A s \in Sessions : Session(s) /\ (tx[s].op # "none" => Facts(tx[s]))

-----------------------------------------------------------------------------
(* What one commit may change, given the locks L of its transaction. *)

Change(L) ==
  LET updates(row) == <<row, "update">> \in L
      keeps(row)   == <<row, "update">> \in L \/ <<row, "share">> \in L
  IN /\ \A u \in Users :
          \/ members'[u] = members[u]
          \/ /\ members'[u] = None /\ members[u] # None
             /\ updates(members[u])
             /\ updates(u) \/ parties'[members[u]].phase = "dissolved"
          \/ /\ members[u] = None /\ members'[u] # None
             /\ updates(u) /\ keeps(Settings)
             /\ updates(members'[u]) \/ parties[members'[u]].phase = "none"
     /\ \A p \in Parties :
          \/ parties'[p] = parties[p]
          \/ parties[p].phase = "none"
          \/ /\ Live(p) /\ updates(p)
             /\ Dissolved(p)' \/ (Live(p)' /\ parties'[p].leader = parties[p].leader)
     /\ limit' = limit \/ updates(Settings)
     /\ \A r \in Requests :
          \/ requests'[r] = requests[r]
          \/ requests[r].state # "none" /\ requests'[r].state # "none" /\ updates(r) /\ Weaker(r)
          \/ /\ requests[r].state = "none" /\ requests'[r].state = "waiting"
             /\ keeps(requests'[r].owner)

-----------------------------------------------------------------------------
(* Progress. *)

\* What is left of a script from statement n on.
LEMMA Suffix ==
  ASSUME NEW P \in Seq(Steps), NEW n \in 1..Len(P), NEW q, q = SubSeq(P, n, Len(P))
  PROVE  /\ q \in Seq(Steps) /\ q # <<>> /\ Len(q) = Len(P) - n + 1
         /\ Head(q) = P[n] /\ Tail(q) = SubSeq(P, n + 1, Len(P))
<1>1. /\ q \in Seq(Steps) /\ Len(q) = Len(P) - n + 1 /\ Len(P) \in Nat
      /\ \A i \in 1..(Len(P) - n + 1) : q[i] = P[n + i - 1]
  OBVIOUS
<1>2. Len(P) \in n..Len(P)
  BY <1>1
<1>3. Head(q) = P[n] /\ Tail(q) = SubSeq(P, n + 1, Len(P))
  BY <1>2, HeadTailOfSubSeq
<1>4. Len(q) # 0
  BY <1>1
<1> QED BY <1>1, <1>3, <1>4

\* A transaction on track has executed a beginning of its script.
LEMMA Track ==
  ASSUME NEW t \in TxRow, OnTrack(t), NEW P \in Seq(Steps), P = Script(t)
  PROVE  \E n \in 1..Len(P) : Done(t) = {P[i] : i \in 1..(n - 1)} /\ Head(t.todo) = P[n]
<1>1. PICK n \in 1..Len(P) : t.todo = SubSeq(P, n, Len(P))
  BY DEF OnTrack
<1>2. Head(t.todo) = P[n] /\ Len(P) - Len(t.todo) = n - 1
  BY <1>1, Suffix
<1> QED BY <1>2 DEF Done

\* The next statement tells what has been executed, operation by operation.
LEMMA ConfigureStages ==
  ASSUME NEW t \in TxRow, t.op = "configure", OnTrack(t), NEW h, h = Head(t.todo)
  PROVE  \/ h = "lockSettings" /\ Done(t) = {}
         \/ h = "checkLargest" /\ Done(t) = {"lockSettings"}
         \/ h = "commit" /\ Done(t) = {"lockSettings", "checkLargest"}
<1>1. PICK P : P = Script(t)
  OBVIOUS
<1>2. P = <<"lockSettings", "checkLargest", "commit">>
  BY <1>1 DEF Script, Consuming, Statements
<1>3. P \in Seq(Steps)
  BY <1>2 DEF Steps
<1>4. PICK n \in 1..Len(P) : Done(t) = {P[i] : i \in 1..(n - 1)} /\ h = P[n]
  BY <1>1, <1>3, Track
<1>5. Len(P) = 3 /\ P[1] = "lockSettings" /\ P[2] = "checkLargest" /\ P[3] = "commit"
  BY <1>2
<1> QED BY <1>4, <1>5

LEMMA CreateStages ==
  ASSUME NEW t \in TxRow, t.op = "create", OnTrack(t), NEW h, h = Head(t.todo)
  PROVE  \/ h = "lockUser" /\ Done(t) = {}
         \/ h = "readLimit" /\ Done(t) = {"lockUser"}
         \/ h = "noParty" /\ Done(t) = {"lockUser", "readLimit"}
         \/ h = "noSolo" /\ Done(t) = {"lockUser", "readLimit", "noParty"}
         \/ h = "commit" /\ Done(t) = {"lockUser", "readLimit", "noParty", "noSolo"}
<1>1. PICK P : P = Script(t)
  OBVIOUS
<1>2. P = <<"lockUser", "readLimit", "noParty", "noSolo", "commit">>
  BY <1>1 DEF Script, Consuming, Statements
<1>3. P \in Seq(Steps)
  BY <1>2 DEF Steps
<1>4. PICK n \in 1..Len(P) : Done(t) = {P[i] : i \in 1..(n - 1)} /\ h = P[n]
  BY <1>1, <1>3, Track
<1>5. /\ Len(P) = 5 /\ P[1] = "lockUser" /\ P[2] = "readLimit" /\ P[3] = "noParty"
      /\ P[4] = "noSolo" /\ P[5] = "commit"
  BY <1>2
<1> QED BY <1>4, <1>5

LEMMA ResetStages ==
  ASSUME NEW t \in TxRow, t.op = "reset", OnTrack(t), NEW h, h = Head(t.todo)
  PROVE  \/ h = "lockLedParty" /\ Done(t) = {}
         \/ h = "commit" /\ Done(t) = {"lockLedParty"}
<1>1. PICK P : P = Script(t)
  OBVIOUS
<1>2. P = <<"lockLedParty", "commit">>
  BY <1>1 DEF Script, Consuming, Statements
<1>3. P \in Seq(Steps)
  BY <1>2 DEF Steps
<1>4. PICK n \in 1..Len(P) : Done(t) = {P[i] : i \in 1..(n - 1)} /\ h = P[n]
  BY <1>1, <1>3, Track
<1>5. Len(P) = 2 /\ P[1] = "lockLedParty" /\ P[2] = "commit"
  BY <1>2
<1> QED BY <1>4, <1>5

LEMMA JoinStages ==
  ASSUME NEW t \in TxRow, t.op = "join", OnTrack(t), NEW h, h = Head(t.todo)
  PROVE  \/ h = "lockUser" /\ Done(t) = {}
         \/ h = "noParty" /\ Done(t) = {"lockUser"}
         \/ h = "noSolo" /\ Done(t) = {"lockUser", "noParty"}
         \/ h = "lockParty" /\ Done(t) = {"lockUser", "noParty", "noSolo"}
         \/ h = "checkInvite" /\ Done(t) = {"lockUser", "noParty", "noSolo", "lockParty"}
         \/ h = "readLimit" /\ Done(t) = {"lockUser", "noParty", "noSolo", "lockParty",
                                          "checkInvite"}
         \/ h = "checkRoom" /\ Done(t) = {"lockUser", "noParty", "noSolo", "lockParty",
                                          "checkInvite", "readLimit"}
         \/ h = "commit" /\ Done(t) = {"lockUser", "noParty", "noSolo", "lockParty",
                                       "checkInvite", "readLimit", "checkRoom"}
<1>1. PICK P : P = Script(t)
  OBVIOUS
<1>2. P = <<"lockUser", "noParty", "noSolo", "lockParty", "checkInvite", "readLimit",
            "checkRoom", "commit">>
  BY <1>1 DEF Script, Consuming, Statements, JoinStatements
<1>3. P \in Seq(Steps)
  BY <1>2 DEF Steps
<1>4. PICK n \in 1..Len(P) : Done(t) = {P[i] : i \in 1..(n - 1)} /\ h = P[n]
  BY <1>1, <1>3, Track
<1>5. /\ Len(P) = 8 /\ P[1] = "lockUser" /\ P[2] = "noParty" /\ P[3] = "noSolo"
      /\ P[4] = "lockParty" /\ P[5] = "checkInvite" /\ P[6] = "readLimit"
      /\ P[7] = "checkRoom" /\ P[8] = "commit"
  BY <1>2
<1> QED BY <1>4, <1>5

LEMMA LeaveStages ==
  ASSUME NEW t \in TxRow, t.op = "leave", OnTrack(t), NEW h, h = Head(t.todo)
  PROVE  \/ h = "lockUser" /\ Done(t) = {}
         \/ h = "readMembership" /\ Done(t) = {"lockUser"}
         \/ h = "lockParty" /\ Done(t) = {"lockUser", "readMembership"}
         \/ h = "notLeader" /\ Done(t) = {"lockUser", "readMembership", "lockParty"}
         \/ h = "commit" /\ Done(t) = {"lockUser", "readMembership", "lockParty", "notLeader"}
<1>1. PICK P : P = Script(t)
  OBVIOUS
<1>2. P = <<"lockUser", "readMembership", "lockParty", "notLeader", "commit">>
  BY <1>1 DEF Script, Consuming, Statements
<1>3. P \in Seq(Steps)
  BY <1>2 DEF Steps
<1>4. PICK n \in 1..Len(P) : Done(t) = {P[i] : i \in 1..(n - 1)} /\ h = P[n]
  BY <1>1, <1>3, Track
<1>5. /\ Len(P) = 5 /\ P[1] = "lockUser" /\ P[2] = "readMembership" /\ P[3] = "lockParty"
      /\ P[4] = "notLeader" /\ P[5] = "commit"
  BY <1>2
<1> QED BY <1>4, <1>5

LEMMA RemoveStages ==
  ASSUME NEW t \in TxRow, t.op = "remove", OnTrack(t), NEW h, h = Head(t.todo)
  PROVE  \/ h = "lockTarget" /\ Done(t) = {}
         \/ h = "lockLedParty" /\ Done(t) = {"lockTarget"}
         \/ h = "isMember" /\ Done(t) = {"lockTarget", "lockLedParty"}
         \/ h = "commit" /\ Done(t) = {"lockTarget", "lockLedParty", "isMember"}
<1>1. PICK P : P = Script(t)
  OBVIOUS
<1>2. P = <<"lockTarget", "lockLedParty", "isMember", "commit">>
  BY <1>1 DEF Script, Consuming, Statements
<1>3. P \in Seq(Steps)
  BY <1>2 DEF Steps
<1>4. PICK n \in 1..Len(P) : Done(t) = {P[i] : i \in 1..(n - 1)} /\ h = P[n]
  BY <1>1, <1>3, Track
<1>5. /\ Len(P) = 4 /\ P[1] = "lockTarget" /\ P[2] = "lockLedParty" /\ P[3] = "isMember"
      /\ P[4] = "commit"
  BY <1>2
<1> QED BY <1>4, <1>5

LEMMA DisbandStages ==
  ASSUME NEW t \in TxRow, t.op = "disband", OnTrack(t), NEW h, h = Head(t.todo)
  PROVE  \/ h = "lockUser" /\ Done(t) = {}
         \/ h = "lockLedParty" /\ Done(t) = {"lockUser"}
         \/ h = "notBusy" /\ Done(t) = {"lockUser", "lockLedParty"}
         \/ h = "commit" /\ Done(t) = {"lockUser", "lockLedParty", "notBusy"}
<1>1. PICK P : P = Script(t)
  OBVIOUS
<1>2. P = <<"lockUser", "lockLedParty", "notBusy", "commit">>
  BY <1>1 DEF Script, Consuming, Statements
<1>3. P \in Seq(Steps)
  BY <1>2 DEF Steps
<1>4. PICK n \in 1..Len(P) : Done(t) = {P[i] : i \in 1..(n - 1)} /\ h = P[n]
  BY <1>1, <1>3, Track
<1>5. /\ Len(P) = 4 /\ P[1] = "lockUser" /\ P[2] = "lockLedParty" /\ P[3] = "notBusy"
      /\ P[4] = "commit"
  BY <1>2
<1> QED BY <1>4, <1>5

LEMMA RequestStages ==
  ASSUME NEW t \in TxRow, t.op = "request", OnTrack(t), NEW h, h = Head(t.todo)
  PROVE  \/ h = "lockUser" /\ Done(t) = {}
         \/ h = "readMembership" /\ Done(t) = {"lockUser"}
         \/ h = "lockOwner" /\ Done(t) = {"lockUser", "readMembership"}
         \/ h = "noCurrent" /\ Done(t) = {"lockUser", "readMembership", "lockOwner"}
         \/ h = "validate" /\ Done(t) = {"lockUser", "readMembership", "lockOwner", "noCurrent"}
         \/ h = "lockForeignKey" /\ Done(t) = {"lockUser", "readMembership", "lockOwner",
                                               "noCurrent", "validate"}
         \/ h = "commit" /\ Done(t) = {"lockUser", "readMembership", "lockOwner", "noCurrent",
                                       "validate", "lockForeignKey"}
<1>1. PICK P : P = Script(t)
  OBVIOUS
<1>2. P = <<"lockUser", "readMembership", "lockOwner", "noCurrent", "validate",
            "lockForeignKey", "commit">>
  BY <1>1 DEF Script, Consuming, Statements
<1>3. P \in Seq(Steps)
  BY <1>2 DEF Steps
<1>4. PICK n \in 1..Len(P) : Done(t) = {P[i] : i \in 1..(n - 1)} /\ h = P[n]
  BY <1>1, <1>3, Track
<1>5. /\ Len(P) = 7 /\ P[1] = "lockUser" /\ P[2] = "readMembership" /\ P[3] = "lockOwner"
      /\ P[4] = "noCurrent" /\ P[5] = "validate" /\ P[6] = "lockForeignKey"
      /\ P[7] = "commit"
  BY <1>2
<1> QED BY <1>4, <1>5

LEMMA CancelStages ==
  ASSUME NEW t \in TxRow, t.op = "cancel", OnTrack(t), NEW h, h = Head(t.todo)
  PROVE  \/ h = "lockUser" /\ Done(t) = {}
         \/ h = "readMembership" /\ Done(t) = {"lockUser"}
         \/ h = "lockOwner" /\ Done(t) = {"lockUser", "readMembership"}
         \/ h = "lockRequest" /\ Done(t) = {"lockUser", "readMembership", "lockOwner"}
         \/ h = "stillWaiting" /\ Done(t) = {"lockUser", "readMembership", "lockOwner",
                                             "lockRequest"}
         \/ h = "commit" /\ Done(t) = {"lockUser", "readMembership", "lockOwner",
                                       "lockRequest", "stillWaiting"}
<1>1. PICK P : P = Script(t)
  OBVIOUS
<1>2. P = <<"lockUser", "readMembership", "lockOwner", "lockRequest", "stillWaiting", "commit">>
  BY <1>1 DEF Script, Consuming, Statements
<1>3. P \in Seq(Steps)
  BY <1>2 DEF Steps
<1>4. PICK n \in 1..Len(P) : Done(t) = {P[i] : i \in 1..(n - 1)} /\ h = P[n]
  BY <1>1, <1>3, Track
<1>5. /\ Len(P) = 6 /\ P[1] = "lockUser" /\ P[2] = "readMembership" /\ P[3] = "lockOwner"
      /\ P[4] = "lockRequest" /\ P[5] = "stillWaiting" /\ P[6] = "commit"
  BY <1>2
<1> QED BY <1>4, <1>5

LEMMA StopStages ==
  ASSUME NEW t \in TxRow, t.op = "stop", OnTrack(t), NEW h, h = Head(t.todo)
  PROVE  \/ h = "readMembership" /\ Done(t) = {}
         \/ h = "isLeader" /\ Done(t) = {"readMembership"}
         \/ h = "lockRequest" /\ Done(t) = {"readMembership", "isLeader"}
         \/ h = "recheckOwner" /\ Done(t) = {"readMembership", "isLeader", "lockRequest"}
         \/ h = "stillRunning" /\ Done(t) = {"readMembership", "isLeader", "lockRequest",
                                             "recheckOwner"}
         \/ h = "commit" /\ Done(t) = {"readMembership", "isLeader", "lockRequest",
                                       "recheckOwner", "stillRunning"}
<1>1. PICK P : P = Script(t)
  OBVIOUS
<1>2. P = <<"readMembership", "isLeader", "lockRequest", "recheckOwner", "stillRunning", "commit">>
  BY <1>1 DEF Script, Consuming, Statements, StopStatements
<1>3. P \in Seq(Steps)
  BY <1>2 DEF Steps
<1>4. PICK n \in 1..Len(P) : Done(t) = {P[i] : i \in 1..(n - 1)} /\ h = P[n]
  BY <1>1, <1>3, Track
<1>5. /\ Len(P) = 6 /\ P[1] = "readMembership" /\ P[2] = "isLeader"
      /\ P[3] = "lockRequest" /\ P[4] = "recheckOwner" /\ P[5] = "stillRunning"
      /\ P[6] = "commit"
  BY <1>2
<1> QED BY <1>4, <1>5

LEMMA AbandonStages ==
  ASSUME NEW t \in TxRow, t.op = "abandon", ~Consuming(t), OnTrack(t), NEW h, h = Head(t.todo)
  PROVE  \/ h = "readMembership" /\ Done(t) = {}
         \/ h = "isLeader" /\ Done(t) = {"readMembership"}
         \/ h = "lockRequest" /\ Done(t) = {"readMembership", "isLeader"}
         \/ h = "recheckOwner" /\ Done(t) = {"readMembership", "isLeader", "lockRequest"}
         \/ h = "stillQuarantined" /\ Done(t) = {"readMembership", "isLeader", "lockRequest",
                                                 "recheckOwner"}
         \/ h = "commit" /\ Done(t) = {"readMembership", "isLeader", "lockRequest",
                                       "recheckOwner", "stillQuarantined"}
<1>1. PICK P : P = Script(t)
  OBVIOUS
<1>2. P = <<"readMembership", "isLeader", "lockRequest", "recheckOwner", "stillQuarantined",
            "commit">>
  BY <1>1 DEF Script, Consuming, Statements
<1>3. P \in Seq(Steps)
  BY <1>2 DEF Steps
<1>4. PICK n \in 1..Len(P) : Done(t) = {P[i] : i \in 1..(n - 1)} /\ h = P[n]
  BY <1>1, <1>3, Track
<1>5. /\ Len(P) = 6 /\ P[1] = "readMembership" /\ P[2] = "isLeader"
      /\ P[3] = "lockRequest" /\ P[4] = "recheckOwner" /\ P[5] = "stillQuarantined"
      /\ P[6] = "commit"
  BY <1>2
<1> QED BY <1>4, <1>5

LEMMA ProgressStages ==
  ASSUME NEW t \in TxRow, t.op = "progress", ~Consuming(t), OnTrack(t), NEW h, h = Head(t.todo)
  PROVE  \/ h = "lockRequest" /\ Done(t) = {}
         \/ h = "move" /\ Done(t) = {"lockRequest"}
         \/ h = "commit" /\ Done(t) = {"lockRequest", "move"}
<1>1. PICK P : P = Script(t)
  OBVIOUS
<1>2. P = <<"lockRequest", "move", "commit">>
  BY <1>1 DEF Script, Consuming, Statements
<1>3. P \in Seq(Steps)
  BY <1>2 DEF Steps
<1>4. PICK n \in 1..Len(P) : Done(t) = {P[i] : i \in 1..(n - 1)} /\ h = P[n]
  BY <1>1, <1>3, Track
<1>5. Len(P) = 3 /\ P[1] = "lockRequest" /\ P[2] = "move" /\ P[3] = "commit"
  BY <1>2
<1> QED BY <1>4, <1>5

LEMMA ConsumingAbandonStages ==
  ASSUME NEW t \in TxRow, t.op = "abandon", Consuming(t), OnTrack(t), NEW h, h = Head(t.todo)
  PROVE  \/ h = "readMembership" /\ Done(t) = {}
         \/ h = "isLeader" /\ Done(t) = {"readMembership"}
         \/ h = "lockRequest" /\ Done(t) = {"readMembership", "isLeader"}
         \/ h = "recheckOwner" /\ Done(t) = {"readMembership", "isLeader", "lockRequest"}
         \/ h = "stillQuarantined" /\ Done(t) = {"readMembership", "isLeader", "lockRequest",
                                                 "recheckOwner"}
         \/ h = "lockOwner" /\ Done(t) = {"readMembership", "isLeader", "lockRequest",
                                          "recheckOwner", "stillQuarantined"}
         \/ h = "validate" /\ Done(t) = {"readMembership", "isLeader", "lockRequest",
                                         "recheckOwner", "stillQuarantined", "lockOwner"}
         \/ h = "lockForeignKey" /\ Done(t) = {"readMembership", "isLeader", "lockRequest",
                                               "recheckOwner", "stillQuarantined", "lockOwner",
                                               "validate"}
         \/ h = "commit" /\ Done(t) = {"readMembership", "isLeader", "lockRequest",
                                       "recheckOwner", "stillQuarantined", "lockOwner",
                                       "validate", "lockForeignKey"}
<1>1. PICK P : P = Script(t)
  OBVIOUS
<1>2. P = <<"readMembership", "isLeader", "lockRequest", "recheckOwner", "stillQuarantined",
            "lockOwner", "validate", "lockForeignKey", "commit">>
  BY <1>1 DEF Script, Consuming, Statements
<1>3. P \in Seq(Steps)
  BY <1>2 DEF Steps
<1>4. PICK n \in 1..Len(P) : Done(t) = {P[i] : i \in 1..(n - 1)} /\ h = P[n]
  BY <1>1, <1>3, Track
<1>5. /\ Len(P) = 9 /\ P[1] = "readMembership" /\ P[2] = "isLeader"
      /\ P[3] = "lockRequest" /\ P[4] = "recheckOwner" /\ P[5] = "stillQuarantined"
      /\ P[6] = "lockOwner" /\ P[7] = "validate" /\ P[8] = "lockForeignKey"
      /\ P[9] = "commit"
  BY <1>2
<1> QED BY <1>4, <1>5

LEMMA ConsumingProgressStages ==
  ASSUME NEW t \in TxRow, t.op = "progress", Consuming(t), OnTrack(t), NEW h, h = Head(t.todo)
  PROVE  \/ h = "lockRequest" /\ Done(t) = {}
         \/ h = "move" /\ Done(t) = {"lockRequest"}
         \/ h = "lockOwner" /\ Done(t) = {"lockRequest", "move"}
         \/ h = "validate" /\ Done(t) = {"lockRequest", "move", "lockOwner"}
         \/ h = "lockForeignKey" /\ Done(t) = {"lockRequest", "move", "lockOwner", "validate"}
         \/ h = "commit" /\ Done(t) = {"lockRequest", "move", "lockOwner", "validate",
                                       "lockForeignKey"}
<1>1. PICK P : P = Script(t)
  OBVIOUS
<1>2. P = <<"lockRequest", "move", "lockOwner", "validate", "lockForeignKey", "commit">>
  BY <1>1 DEF Script, Consuming, Statements
<1>3. P \in Seq(Steps)
  BY <1>2 DEF Steps
<1>4. PICK n \in 1..Len(P) : Done(t) = {P[i] : i \in 1..(n - 1)} /\ h = P[n]
  BY <1>1, <1>3, Track
<1>5. /\ Len(P) = 6 /\ P[1] = "lockRequest" /\ P[2] = "move" /\ P[3] = "lockOwner"
      /\ P[4] = "validate" /\ P[5] = "lockForeignKey" /\ P[6] = "commit"
  BY <1>2
<1> QED BY <1>4, <1>5

\* What a transaction whose next statement is h has executed.
LEMMA Stages ==
  ASSUME NEW t \in TxRow, OnTrack(t), t.fresh # "none" <=> "validate" \in Done(t),
         NEW h, h = Head(t.todo)
  PROVE  /\ h = "lockUser" =>
              Done(t) = {} /\ t.op \in {"create", "join", "leave", "disband", "request", "cancel"}
         /\ h = "lockTarget" => Done(t) = {} /\ t.op = "remove"
         /\ h = "lockSettings" => Done(t) = {} /\ t.op = "configure"
         /\ h = "readMembership" =>
              \/ Done(t) = {"lockUser"} /\ t.op \in {"leave", "request", "cancel"}
              \/ Done(t) = {} /\ t.op \in {"stop", "abandon"} /\ ~Consuming(t)
         /\ h = "isLeader" =>
              Done(t) = {"readMembership"} /\ t.op \in {"stop", "abandon"} /\ ~Consuming(t)
         /\ h = "noParty" =>
              \/ Done(t) = {"lockUser", "readLimit"} /\ t.op = "create"
              \/ Done(t) = {"lockUser"} /\ t.op = "join"
         /\ h = "noSolo" =>
              \/ Done(t) = {"lockUser", "readLimit", "noParty"} /\ t.op = "create"
              \/ Done(t) = {"lockUser", "noParty"} /\ t.op = "join"
         /\ h = "readLimit" =>
              \/ Done(t) = {"lockUser"} /\ t.op = "create"
              \/ /\ Done(t) = {"lockUser", "noParty", "noSolo", "lockParty", "checkInvite"}
                 /\ t.op = "join"
         /\ h = "lockParty" =>
              \/ Done(t) = {"lockUser", "noParty", "noSolo"} /\ t.op = "join"
              \/ Done(t) = {"lockUser", "readMembership"} /\ t.op = "leave"
         /\ h = "lockLedParty" =>
              \/ Done(t) = {} /\ t.op = "reset"
              \/ Done(t) = {"lockTarget"} /\ t.op = "remove"
              \/ Done(t) = {"lockUser"} /\ t.op = "disband"
         /\ h = "lockOwner" =>
              \/ Done(t) = {"lockUser", "readMembership"} /\ t.op \in {"request", "cancel"}
              \/ /\ Done(t) = {"readMembership", "isLeader", "lockRequest", "recheckOwner",
                               "stillQuarantined"}
                 /\ t.op = "abandon" /\ Consuming(t)
              \/ Done(t) = {"lockRequest", "move"} /\ t.op = "progress" /\ Consuming(t)
         /\ h = "checkInvite" =>
              Done(t) = {"lockUser", "noParty", "noSolo", "lockParty"} /\ t.op = "join"
         /\ h = "checkRoom" =>
              /\ Done(t) = {"lockUser", "noParty", "noSolo", "lockParty", "checkInvite",
                            "readLimit"}
              /\ t.op = "join"
         /\ h = "checkLargest" => Done(t) = {"lockSettings"} /\ t.op = "configure"
         /\ h = "notLeader" =>
              Done(t) = {"lockUser", "readMembership", "lockParty"} /\ t.op = "leave"
         /\ h = "isMember" => Done(t) = {"lockTarget", "lockLedParty"} /\ t.op = "remove"
         /\ h = "notBusy" => Done(t) = {"lockUser", "lockLedParty"} /\ t.op = "disband"
         /\ h = "noCurrent" =>
              Done(t) = {"lockUser", "readMembership", "lockOwner"} /\ t.op = "request"
         /\ h = "validate" =>
              \/ /\ Done(t) = {"lockUser", "readMembership", "lockOwner", "noCurrent"}
                 /\ t.op = "request"
              \/ /\ Done(t) = {"readMembership", "isLeader", "lockRequest", "recheckOwner",
                               "stillQuarantined", "lockOwner"}
                 /\ t.op = "abandon" /\ Consuming(t)
              \/ Done(t) = {"lockRequest", "move", "lockOwner"} /\ t.op = "progress" /\ Consuming(t)
         /\ h = "lockForeignKey" =>
              \/ /\ Done(t) = {"lockUser", "readMembership", "lockOwner", "noCurrent", "validate"}
                 /\ t.op = "request"
              \/ /\ Done(t) = {"readMembership", "isLeader", "lockRequest", "recheckOwner",
                               "stillQuarantined", "lockOwner", "validate"}
                 /\ t.op = "abandon" /\ Consuming(t)
              \/ /\ Done(t) = {"lockRequest", "move", "lockOwner", "validate"}
                 /\ t.op = "progress" /\ Consuming(t)
         /\ h = "lockRequest" =>
              \/ Done(t) = {"lockUser", "readMembership", "lockOwner"} /\ t.op = "cancel"
              \/ /\ Done(t) = {"readMembership", "isLeader"}
                 /\ t.op \in {"stop", "abandon"} /\ ~Consuming(t)
              \/ Done(t) = {} /\ t.op = "progress" /\ ~Consuming(t)
         /\ h = "recheckOwner" =>
              /\ Done(t) = {"readMembership", "isLeader", "lockRequest"}
              /\ t.op \in {"stop", "abandon"} /\ ~Consuming(t)
         /\ h = "stillWaiting" =>
              /\ Done(t) = {"lockUser", "readMembership", "lockOwner", "lockRequest"}
              /\ t.op = "cancel"
         /\ h = "stillRunning" =>
              /\ Done(t) = {"readMembership", "isLeader", "lockRequest", "recheckOwner"}
              /\ t.op = "stop"
         /\ h = "stillQuarantined" =>
              /\ Done(t) = {"readMembership", "isLeader", "lockRequest", "recheckOwner"}
              /\ t.op = "abandon" /\ ~Consuming(t)
         /\ h = "move" => Done(t) = {"lockRequest"} /\ t.op = "progress" /\ ~Consuming(t)
<1>1. t.op \in {"configure", "create", "reset"} \/ t.op \in {"join", "leave", "remove"}
      \/ t.op \in {"disband", "request", "cancel"} \/ t.op \in {"stop", "abandon", "progress"}
  BY DEF TxRow, Called
<1>2. CASE t.op \in {"configure", "create", "reset"}
  BY <1>2, ConfigureStages, CreateStages, ResetStages
<1>3. CASE t.op \in {"join", "leave", "remove"}
  BY <1>3, JoinStages, LeaveStages, RemoveStages
<1>4. CASE t.op \in {"disband", "request", "cancel"}
  BY <1>4, DisbandStages, RequestStages, CancelStages
<1>5. CASE t.op = "stop"
  BY <1>5, StopStages DEF Consuming
<1>6. CASE t.op \in {"abandon", "progress"} /\ ~Consuming(t)
  BY <1>6, AbandonStages, ProgressStages DEF Consuming
<1>7. CASE t.op \in {"abandon", "progress"} /\ Consuming(t)
  BY <1>7, ConsumingAbandonStages, ConsumingProgressStages DEF Consuming
<1> QED BY <1>1, <1>2, <1>3, <1>4, <1>5, <1>6, <1>7

\* What had been executed before a statement that has been.
LEMMA Order ==
  ASSUME NEW t \in TxRow, OnTrack(t), t.fresh # "none" <=> "validate" \in Done(t)
  PROVE  /\ Done(t) \cap {"noParty", "noSolo", "notLeader", "notBusy", "noCurrent",
                          "readLimit"} # {}
              => "lockUser" \in Done(t)
         /\ "readMembership" \in Done(t) /\ t.op \in {"leave", "request", "cancel"}
              => "lockUser" \in Done(t)
         /\ "checkInvite" \in Done(t) \/ "notLeader" \in Done(t) => "lockParty" \in Done(t)
         /\ "lockUser" \in Done(t) => t.op \notin {"configure", "progress"}
         /\ "isMember" \in Done(t) => t.op = "remove"
         /\ "checkRoom" \in Done(t) => {"lockParty", "readLimit"} \subseteq Done(t)
         /\ "checkLargest" \in Done(t) => "lockSettings" \in Done(t)
         /\ "isMember" \in Done(t) \/ "notBusy" \in Done(t) => "lockLedParty" \in Done(t)
         /\ "noCurrent" \in Done(t) =>
              t.op = "request" /\ {"readMembership", "lockOwner"} \subseteq Done(t)
         /\ t.fresh # "none" =>
              /\ t.op = "request" \/ (t.op \in {"abandon", "progress"} /\ Consuming(t))
              /\ "lockOwner" \in Done(t)
         /\ Done(t) \cap {"stillWaiting", "stillRunning", "stillQuarantined", "move"} # {}
              => "lockRequest" \in Done(t)
         /\ "lockRequest" \in Done(t) \/ Consuming(t) => t.op \in OnRequest
         /\ Consuming(t) => "stillQuarantined" \in Done(t) \/ "move" \in Done(t)
         /\ "isLeader" \in Done(t) => "readMembership" \in Done(t) /\ t.op \in {"stop", "abandon"}
         /\ "readMembership" \in Done(t) =>
              t.op \in {"leave", "request", "cancel", "stop", "abandon"}
         /\ "lockOwner" \in Done(t) =>
              t.op \in {"request", "cancel"} \/ (t.op \in {"abandon", "progress"} /\ Consuming(t))
<1>1. t.op \in {"configure", "create", "reset"} \/ t.op \in {"join", "leave", "remove"}
      \/ t.op \in {"disband", "request", "cancel"} \/ t.op \in {"stop", "abandon", "progress"}
  BY DEF TxRow, Called
<1>2. CASE t.op \in {"configure", "create", "reset"}
  BY <1>2, ConfigureStages, CreateStages, ResetStages DEF Consuming
<1>3. CASE t.op \in {"join", "leave", "remove"}
  BY <1>3, JoinStages, LeaveStages, RemoveStages DEF Consuming
<1>4. CASE t.op \in {"disband", "request", "cancel"}
  BY <1>4, DisbandStages, RequestStages, CancelStages DEF Consuming, OnRequest
<1>5. CASE t.op = "stop"
  BY <1>5, StopStages DEF Consuming, OnRequest
<1>6. CASE t.op \in {"abandon", "progress"} /\ ~Consuming(t)
  BY <1>6, AbandonStages, ProgressStages DEF Consuming, OnRequest
<1>7. CASE t.op \in {"abandon", "progress"} /\ Consuming(t)
  BY <1>7, ConsumingAbandonStages, ConsumingProgressStages DEF Consuming, OnRequest
<1> QED BY <1>1, <1>2, <1>3, <1>4, <1>5, <1>6, <1>7

\* What a transaction that commits has executed.
LEMMA AtCommit ==
  ASSUME NEW t \in TxRow, OnTrack(t), t.fresh # "none" <=> "validate" \in Done(t),
         Head(t.todo) = "commit"
  PROVE  /\ t.op = "configure" => Done(t) = {"lockSettings", "checkLargest"}
         /\ t.op = "create" => Done(t) = {"lockUser", "readLimit", "noParty", "noSolo"}
         /\ t.op = "reset" => Done(t) = {"lockLedParty"}
         /\ t.op = "join" => Done(t) = {"lockUser", "noParty", "noSolo", "lockParty", "checkInvite",
                                        "readLimit", "checkRoom"}
         /\ t.op = "leave" => Done(t) = {"lockUser", "readMembership", "lockParty", "notLeader"}
         /\ t.op = "remove" => Done(t) = {"lockTarget", "lockLedParty", "isMember"}
         /\ t.op = "disband" => Done(t) = {"lockUser", "lockLedParty", "notBusy"}
         /\ t.op = "request" => Done(t) = {"lockUser", "readMembership", "lockOwner", "noCurrent",
                                           "validate", "lockForeignKey"}
         /\ t.op = "cancel" => Done(t) = {"lockUser", "readMembership", "lockOwner", "lockRequest",
                                          "stillWaiting"}
         /\ t.op = "stop" => Done(t) = {"readMembership", "isLeader", "lockRequest",
                                        "recheckOwner", "stillRunning"}
         /\ t.op = "abandon" /\ ~Consuming(t) =>
              Done(t) = {"readMembership", "isLeader", "lockRequest", "recheckOwner",
                         "stillQuarantined"}
         /\ t.op = "progress" /\ ~Consuming(t) => Done(t) = {"lockRequest", "move"}
         /\ t.op = "abandon" /\ Consuming(t) =>
              Done(t) = {"readMembership", "isLeader", "lockRequest", "recheckOwner",
                         "stillQuarantined", "lockOwner", "validate", "lockForeignKey"}
         /\ t.op = "progress" /\ Consuming(t) =>
              Done(t) = {"lockRequest", "move", "lockOwner", "validate", "lockForeignKey"}
<1>1. t.op \in {"configure", "create", "reset"} =>
        /\ t.op = "configure" => Done(t) = {"lockSettings", "checkLargest"}
        /\ t.op = "create" => Done(t) = {"lockUser", "readLimit", "noParty", "noSolo"}
        /\ t.op = "reset" => Done(t) = {"lockLedParty"}
  BY ConfigureStages, CreateStages, ResetStages
<1>2. t.op \in {"join", "leave", "remove", "disband"} =>
        /\ t.op = "join" => Done(t) = {"lockUser", "noParty", "noSolo", "lockParty", "checkInvite",
                                       "readLimit", "checkRoom"}
        /\ t.op = "leave" => Done(t) = {"lockUser", "readMembership", "lockParty", "notLeader"}
        /\ t.op = "remove" => Done(t) = {"lockTarget", "lockLedParty", "isMember"}
        /\ t.op = "disband" => Done(t) = {"lockUser", "lockLedParty", "notBusy"}
  BY JoinStages, LeaveStages, RemoveStages, DisbandStages
<1> QED BY <1>1, <1>2, RequestStages, CancelStages, StopStages, AbandonStages, ProgressStages,
           ConsumingAbandonStages, ConsumingProgressStages

\* A script ends with its commit.
LEMMA ScriptEnds ==
  ASSUME NEW t \in TxRow, NEW P, P = Script(t)
  PROVE  P \in Seq(Steps) /\ P # <<>> /\ P[Len(P)] = "commit"
<1>1. CASE t.op = "configure"
  BY <1>1 DEF Script, Consuming, Statements, Steps
<1>2. CASE t.op = "create"
  BY <1>2 DEF Script, Consuming, Statements, Steps
<1>3. CASE t.op = "reset"
  BY <1>3 DEF Script, Consuming, Statements, Steps
<1>4. CASE t.op = "join"
  BY <1>4 DEF Script, Consuming, Statements, Steps, JoinStatements
<1>5. CASE t.op = "leave"
  BY <1>5 DEF Script, Consuming, Statements, Steps
<1>6. CASE t.op = "remove"
  BY <1>6 DEF Script, Consuming, Statements, Steps
<1>7. CASE t.op = "disband"
  BY <1>7 DEF Script, Consuming, Statements, Steps
<1>8. CASE t.op = "request"
  BY <1>8 DEF Script, Consuming, Statements, Steps
<1>9. CASE t.op = "cancel"
  BY <1>9 DEF Script, Consuming, Statements, Steps
<1>10. CASE t.op = "stop"
  BY <1>10 DEF Script, Consuming, Statements, Steps, StopStatements
<1>11. CASE t.op = "abandon" /\ ~Consuming(t)
  BY <1>11 DEF Script, Statements, Steps
<1>12. CASE t.op = "abandon" /\ Consuming(t)
  BY <1>12 DEF Script, Statements, Steps
<1>13. CASE t.op = "progress" /\ ~Consuming(t)
  BY <1>13 DEF Script, Statements, Steps
<1>15. CASE t.op = "progress" /\ Consuming(t)
  BY <1>15 DEF Script, Statements, Steps
<1> QED BY <1>1, <1>2, <1>3, <1>4, <1>5, <1>6, <1>7, <1>8, <1>9, <1>10, <1>11, <1>12, <1>13,
           <1>15 DEF TxRow, Called

\* A transaction that executes a statement other than the commit stays on track.
LEMMA Advance ==
  ASSUME NEW t \in TxRow, OnTrack(t), NEW h, h = Head(t.todo), h # "commit",
         NEW t1, t1.todo = Tail(t.todo), Script(t1) = Script(t)
  PROVE  OnTrack(t1) /\ Done(t1) = Done(t) \cup {h} /\ t1.todo \in Seq(Steps)
<1>1. PICK P : P = Script(t)
  OBVIOUS
<1>2. P \in Seq(Steps) /\ P # <<>> /\ P[Len(P)] = "commit"
  BY <1>1, ScriptEnds
<1>3. PICK n \in 1..Len(P) : t.todo = SubSeq(P, n, Len(P))
  BY <1>1 DEF OnTrack
<1>4. h = P[n] /\ Len(P) - Len(t.todo) = n - 1 /\ Tail(t.todo) = SubSeq(P, n + 1, Len(P))
  BY <1>2, <1>3, Suffix
<1>5. PICK m \in 1..Len(P) : m = n + 1
  BY <1>2, <1>3, <1>4
<1>6. t1.todo \in Seq(Steps) /\ Len(P) - Len(t1.todo) = n
  <2>1. PICK q : q = SubSeq(P, m, Len(P))
    OBVIOUS
  <2>2. q \in Seq(Steps) /\ Len(q) = Len(P) - m + 1
    BY <1>2, <2>1, Suffix
  <2>3. t1.todo = q /\ Len(P) \in Nat
    BY <1>2, <1>4, <1>5, <2>1
  <2>4. Len(t1.todo) = Len(P) - m + 1
    BY <2>2, <2>3
  <2>5. n \in Int
    BY <1>2
  <2>6. Len(P) \in Int
    BY <1>2
  <2>7. Len(P) - Len(t1.todo) = n
    BY <1>5, <2>4, <2>5, <2>6
  <2> QED BY <2>2, <2>3, <2>7
<1>7. OnTrack(t1)
  BY <1>1, <1>4, <1>5 DEF OnTrack
<1>8. Done(t) = {P[i] : i \in 1..(n - 1)} /\ Done(t1) = {P[i] : i \in 1..n}
  BY <1>1, <1>4, <1>6 DEF Done
<1> QED BY <1>2, <1>3, <1>4, <1>6, <1>7, <1>8

\* The end of a request is consumed from the statement that finds it due on.
LEMMA ConsumingStays ==
  ASSUME NEW t \in TxRow, OnTrack(t), t.fresh # "none" <=> "validate" \in Done(t),
         NEW h, h = Head(t.todo), h \notin {"commit", "validate"},
         NEW t1, t1.op = t.op, t1.fresh = t.fresh, t1.todo = Tail(t.todo)
  PROVE  Consuming(t1) = Consuming(t)
<1>1. CASE t.op \notin {"abandon", "progress"}
  BY <1>1 DEF Consuming
<1>2. CASE t.op \in {"abandon", "progress"}
  <2>1. PICK P : P = Script(t)
    OBVIOUS
  <2>2. P \in Seq(Steps) /\ P # <<>> /\ P[Len(P)] = "commit"
    BY <2>1, ScriptEnds
  <2>3. PICK n \in 1..Len(P) : t.todo = SubSeq(P, n, Len(P))
    BY <2>1 DEF OnTrack
  <2>4. h = P[n] /\ Tail(t.todo) = SubSeq(P, n + 1, Len(P))
    BY <2>2, <2>3, Suffix
  <2>5. PICK m \in 1..Len(P) : m = n + 1
    BY <2>2, <2>3, <2>4
  <2>6. Head(t1.todo) = P[m]
    <3>1. t1.todo = SubSeq(P, m, Len(P))
      BY <2>4, <2>5
    <3> QED BY <2>2, <3>1, Suffix
  <2>7. CASE t.op = "abandon" /\ ~Consuming(t)
    <3>1. P = <<"readMembership", "isLeader", "lockRequest", "recheckOwner",
                "stillQuarantined", "commit">>
      BY <2>1, <2>7 DEF Script, Statements
    <3>2. P[m] \notin {"lockOwner", "validate"}
      BY <3>1
    <3> QED BY <2>6, <2>7, <3>2 DEF Consuming
  <2>8. CASE t.op = "progress" /\ ~Consuming(t)
    <3>1. P = <<"lockRequest", "move", "commit">>
      BY <2>1, <2>8 DEF Script, Statements
    <3>2. P[m] \notin {"lockOwner", "validate"}
      BY <3>1
    <3> QED BY <2>6, <2>8, <3>2 DEF Consuming
  <2>9. CASE Consuming(t) /\ t.fresh # "none"
    BY <2>9 DEF Consuming
  <2>10. CASE Consuming(t) /\ t.fresh = "none"
    <3>1. h = "lockOwner"
      BY <2>10 DEF Consuming
    <3>2. CASE t.op = "abandon"
      <4>1. P = <<"readMembership", "isLeader", "lockRequest", "recheckOwner", "stillQuarantined",
                  "lockOwner", "validate", "lockForeignKey", "commit">>
        BY <2>1, <2>10, <3>2 DEF Script
      <4>2. n = 6
        <5>1. Len(P) = 9 /\ P[1] = "readMembership" /\ P[2] = "isLeader" /\ P[3] = "lockRequest"
              /\ P[4] = "recheckOwner" /\ P[5] = "stillQuarantined" /\ P[7] = "validate"
              /\ P[8] = "lockForeignKey" /\ P[9] = "commit"
          BY <4>1
        <5>2. P[n] = "lockOwner"
          BY <2>4, <3>1
        <5>3. n \in 1..Len(P)
          OBVIOUS
        <5> QED BY <5>1, <5>2, <5>3
      <4>3. P[m] = "validate"
        BY <2>5, <4>1, <4>2
      <4> QED BY <1>2, <2>6, <2>10, <4>3 DEF Consuming
    <3>3. CASE t.op = "progress"
      <4>1. P = <<"lockRequest", "move", "lockOwner", "validate", "lockForeignKey", "commit">>
        BY <2>1, <2>10, <3>3 DEF Script
      <4>2. n = 3
        <5>1. Len(P) = 6 /\ P[1] = "lockRequest" /\ P[2] = "move" /\ P[4] = "validate"
              /\ P[5] = "lockForeignKey" /\ P[6] = "commit"
          BY <4>1
        <5>2. P[n] = "lockOwner"
          BY <2>4, <3>1
        <5>3. n \in 1..Len(P)
          OBVIOUS
        <5> QED BY <5>1, <5>2, <5>3
      <4>3. P[m] = "validate"
        BY <2>5, <4>1, <4>2
      <4> QED BY <1>2, <2>6, <2>10, <4>3 DEF Consuming
    <3> QED BY <1>2, <3>2, <3>3
  <2> QED BY <1>2, <2>7, <2>8, <2>9, <2>10
<1> QED BY <1>1, <1>2

-----------------------------------------------------------------------------
(* Locks. *)

\* A transaction holds what the statements it has executed have locked.
LEMMA Held ==
  ASSUME NEW t
  PROVE  /\ "lockUser" \in Done(t) => <<t.user, "update">> \in Locked(t)
         /\ "lockTarget" \in Done(t) => <<t.target, "update">> \in Locked(t)
         /\ "lockSettings" \in Done(t) => <<Settings, "update">> \in Locked(t)
         /\ "readLimit" \in Done(t) => <<Settings, "share">> \in Locked(t)
         /\ "lockRequest" \in Done(t) => <<t.request, "update">> \in Locked(t)
         /\ Done(t) \cap {"lockParty", "lockLedParty", "lockOwner"} # {} /\ t.party # None =>
              <<t.party, "update">> \in Locked(t)
         /\ "lockForeignKey" \in Done(t) /\ t.party = None /\ t.fresh = "allowed" =>
              <<t.user, "share">> \in Locked(t)
BY DEF Locked, Taken

\* What a statement waits for is what it takes.
LEMMA WantsTaken ==
  ASSUME NEW s \in Sessions, tx[s].op # "none", NEW h, h = Head(tx[s].todo), h # "lockLedParty"
  PROVE  Wants(s) = Taken(tx[s], h)
<1>1. \A stm : At(s, stm) <=> h = stm
  BY DEF At, Idle
<1>2. CASE h \in {"lockParty", "lockOwner"}
  <2>1. Wants(s) = {<<tx[s].party, "update">>} \ {<<None, "update">>}
    BY <1>1, <1>2 DEF Wants
  <2>2. Taken(tx[s], h) = {<<p, "update">> : p \in {tx[s].party} \ {None}}
    BY <1>2 DEF Taken
  <2> QED BY <2>1, <2>2
<1>3. CASE h = "lockForeignKey"
  BY <1>1, <1>3 DEF Wants, Taken
<1>4. CASE h \notin {"lockParty", "lockOwner", "lockForeignKey"}
  BY <1>1, <1>4 DEF Wants, Taken
<1> QED BY <1>2, <1>3, <1>4

\* Facts only depend on what is committed.
LEMMA FactsSame ==
  ASSUME NEW t, Facts(t), UNCHANGED vars
  PROVE  Facts(t)'
<1>1. CallFacts(t)'
  BY DEF Facts, CallFacts, vars
<1>2. ASSUME NEW stm \in Done(t) PROVE Found(t, stm)'
  <2>1. Found(t, stm)
    BY DEF Facts
  <2> QED BY <2>1 DEF Found, vars, Busy, Live, Dissolved, Leads, PartyBusy, MembersOf,
                      NotTooLarge,
                      Due
<1>3. Done(t)' = Done(t)
  BY DEF Done, Script, Consuming
<1> QED BY <1>1, <1>2, <1>3 DEF Facts

\* A statement of s that takes what it wants and finds what t1 says.
LEMMA Executed ==
  ASSUME PartyInv, NEW s \in Sessions, tx[s].op # "none", UNCHANGED vars, Lock(s),
         NEW t1 \in TxRow, tx' = [tx EXCEPT ![s] = t1], OnTrack(t1), Facts(t1),
         NEW h, Done(t1) = Done(tx[s]) \cup {h},
         \A stm \in Done(tx[s]) : Taken(t1, stm) = Taken(tx[s], stm),
         Wants(s) = Taken(t1, h), Wants(s) \subseteq Rows \X {"update", "share"}
  PROVE  PartyInv'
<1>1. Inv' /\ \A p \in Parties : parties'[p].invite <= MaxInvites
  BY InvKept DEF PartyInv, vars
<1>2. /\ locks' \in [Sessions -> SUBSET (Rows \X {"update", "share"})]
      /\ tx' \in [Sessions -> {NoTx} \cup TxRow]
      /\ tx'[s] = t1 /\ locks'[s] = locks[s] \cup Wants(s)
  BY DEF PartyInv, Rows, Lock
<1>3. ASSUME NEW v \in Sessions, v # s PROVE tx'[v] = tx[v] /\ locks'[v] = locks[v]
  BY <1>3 DEF PartyInv, Lock
<1>4. ASSUME NEW v \in Sessions PROVE (Session(v) /\ (tx[v].op # "none" => Facts(tx[v])))'
  <2>1. CASE v = s
    <3>1. Locked(t1) = Locked(tx[s]) \cup Wants(s)
      BY DEF Locked
    <3>2. t1.op # "none"
      BY DEF TxRow, Called
    <3>3. Facts(t1)'
      BY FactsSame
    <3>4. locks[s] = Locked(tx[s])
      BY DEF PartyInv, Session
    <3>5. OnTrack(t1)' /\ Locked(t1)' = Locked(t1)
      BY DEF OnTrack, Locked
    <3>6. \A w : w = t1 => Facts(w)' /\ OnTrack(w) /\ Locked(w) = locks'[s]
      BY <1>2, <3>1, <3>3, <3>4
    <3> QED BY <1>2, <2>1, <3>2, <3>6 DEF Session
  <2>2. CASE v # s
    <3>1. PICK w : w = tx[v]
      OBVIOUS
    <3>2. w.op # "none" => Facts(w)'
      BY <3>1, FactsSame DEF PartyInv
    <3> QED BY <1>3, <2>2, <3>1, <3>2 DEF PartyInv, Session
  <2> QED BY <2>1, <2>2
<1>5. LocksCompatible'
  <2>1. ASSUME NEW v \in Sessions, v # s, NEW row \in Rows, NEW m \in {"update", "share"},
               <<row, m>> \in Wants(s)
        PROVE  /\ <<row, "update">> \notin locks[v]
               /\ m = "update" => <<row, "share">> \notin locks[v]
    BY <2>1 DEF Lock, WaitsFor, Holders, Conflict
  <2>2. SUFFICES ASSUME NEW v \in Sessions, NEW w \in Sessions, v # w, NEW row \in Rows,
                        <<row, "update">> \in locks'[v]
                 PROVE  <<row, "update">> \notin locks'[w] /\ <<row, "share">> \notin locks'[w]
    BY DEF LocksCompatible, Rows
  <2>3. LocksCompatible
    BY DEF PartyInv
  <2>4. CASE v = s
    BY <1>2, <1>3, <2>1, <2>2, <2>3, <2>4 DEF LocksCompatible, Rows
  <2>5. CASE w = s
    BY <1>2, <1>3, <2>1, <2>2, <2>3, <2>5 DEF LocksCompatible, Rows
  <2>6. CASE v # s /\ w # s
    BY <1>3, <2>2, <2>3, <2>6 DEF LocksCompatible, Rows
  <2> QED BY <2>4, <2>5, <2>6
<1> QED BY <1>1, <1>2, <1>4, <1>5 DEF PartyInv, Rows

\* Statements lock rows of the tables.
LEMMA TakenRows ==
  ASSUME NEW t \in TxRow, NEW stm
  PROVE  Taken(t, stm) \subseteq Rows \X {"update", "share"}
BY DEF Taken, TxRow, Rows

-----------------------------------------------------------------------------
(* Statements. *)

\* A statement that goes on as x.
LEMMA Learned ==
  ASSUME PartyInv, NEW s \in Sessions, NEW h, NEW x \in TxRow,
         Execute(s, h, TRUE, x), h # "commit",
         x.op = tx[s].op, x.todo = tx[s].todo, Consuming(x) = Consuming(tx[s]),
         NEW t1, t1 = [x EXCEPT !.todo = Tail(@)], Consuming(t1) = Consuming(tx[s]),
         Wants(s) = Taken(x, h), \A stm \in Done(tx[s]) : Taken(x, stm) = Taken(tx[s], stm),
         CallFacts(x), x.fresh # "none" <=> "validate" \in Done(tx[s]) \cup {h},
         x.op = "progress" /\ "move" \notin Done(tx[s]) \cup {h} => x.party = None,
         \A stm \in Done(tx[s]) \cup {h} : Found(x, stm)
  PROVE  PartyInv'
<1>1. PICK t : t = tx[s]
  OBVIOUS
<1>2. t \in TxRow /\ OnTrack(t) /\ t.op # "none" /\ h = Head(t.todo)
  BY <1>1 DEF Execute, At, Idle, PartyInv, Session
<1>3. /\ t1.todo = Tail(t.todo) /\ t1.op = t.op /\ t1.fresh = x.fresh /\ t1.user = x.user
      /\ t1.target = x.target /\ t1.party = x.party /\ t1.request = x.request
      /\ t1.arg = x.arg /\ t1.size = x.size /\ t1.move = x.move
  BY <1>1 DEF TxRow
<1>4. Script(t1) = Script(t)
  BY <1>1, <1>3 DEF Script
<1>5. OnTrack(t1) /\ Done(t1) = Done(t) \cup {h} /\ t1.todo \in Seq(Steps)
  BY <1>2, <1>3, <1>4, Advance, ZenonT(60)
<1>6. t1 \in TxRow
  BY <1>5 DEF TxRow
<1>7. Facts(t1)
  <2>1. CallFacts(t1)
    BY <1>3 DEF CallFacts
  <2>2. ASSUME NEW stm \in Done(t1) PROVE Found(t1, stm)
    <3>1. Found(x, stm)
      BY <1>1, <1>5, <2>2
    <3>2. OwnerOf(t1) = OwnerOf(x)
      BY <1>3 DEF OwnerOf
    <3> QED BY <1>3, <3>1, <3>2 DEF Found
  <2> QED BY <1>1, <1>3, <1>5, <2>1, <2>2 DEF Facts
<1>8. \A stm : Taken(t1, stm) = Taken(x, stm)
  BY <1>3 DEF Taken
<1>9. Taken(t1, h) \subseteq Rows \X {"update", "share"}
  BY <1>6, TakenRows
<1>10. UNCHANGED vars /\ Lock(s) /\ tx' = [tx EXCEPT ![s] = t1]
  BY DEF Execute, Proceed
<1>11. tx[s].op # "none" /\ Done(t1) = Done(tx[s]) \cup {h}
  BY <1>1, <1>2, <1>5
<1>12. /\ \A stm \in Done(tx[s]) : Taken(t1, stm) = Taken(tx[s], stm)
       /\ Wants(s) = Taken(t1, h) /\ Wants(s) \subseteq Rows \X {"update", "share"}
  BY <1>8, <1>9
<1> QED BY <1>5, <1>6, <1>7, <1>10, <1>11, <1>12, Executed

\* A statement that only looks.
LEMMA Looked ==
  ASSUME PartyInv, NEW s \in Sessions, NEW h,
         Execute(s, h, TRUE, tx[s]), h \notin {"commit", "validate", "lockLedParty", "move"},
         Found(tx[s], h)
  PROVE  PartyInv'
<1>1. PICK t : t = tx[s]
  OBVIOUS
<1>2. /\ t \in TxRow /\ OnTrack(t) /\ Facts(t) /\ t.op # "none" /\ h = Head(t.todo)
      /\ t.fresh # "none" <=> "validate" \in Done(t)
  BY <1>1 DEF Execute, At, Idle, PartyInv, Session, Facts
<1>3. PICK t1 : t1 = [t EXCEPT !.todo = Tail(@)]
  OBVIOUS
<1>4. t1.todo = Tail(t.todo) /\ t1.op = t.op /\ t1.fresh = t.fresh
  BY <1>2, <1>3 DEF TxRow
<1>5. Consuming(t1) = Consuming(t)
  BY <1>2, <1>4, ConsumingStays
<1>6. Wants(s) = Taken(t, h)
  BY <1>1, <1>2, WantsTaken
<1>7. CallFacts(t) /\ (t.op = "progress" /\ "move" \notin Done(t) => t.party = None)
  BY <1>2 DEF Facts
<1>8. \A stm \in Done(t) \cup {h} : Found(t, stm)
  BY <1>1, <1>2 DEF Facts
<1> QED BY <1>1, <1>2, <1>3, <1>5, <1>6, <1>7, <1>8, Learned

\* The statements that find what they check and remember nothing.
LEMMA LooksKeep ==
  ASSUME PartyInv, NEW s \in Sessions,
         \/ LockUser(s) \/ LockTarget(s) \/ LockSettings(s) \/ NoPartyYet(s) \/ NoSolo(s)
         \/ LockParty(s) \/ LockOwner(s) \/ IsLeader(s) \/ NotLeader(s) \/ IsMember(s)
         \/ NotBusy(s) \/ CheckInvite(s) \/ CheckRoom(s) \/ CheckLargest(s) \/ NoCurrent(s)
         \/ LockForeignKey(s) \/ LockRequest(s) \/ RecheckOwner(s) \/ StillWaiting(s)
         \/ StillRunning(s)
  PROVE  PartyInv'
<1>1. PICK t : t = tx[s]
  OBVIOUS
<1>2. PICK h : /\ Execute(s, h, TRUE, t)
               /\ h \notin {"commit", "validate", "lockLedParty", "readMembership", "readLimit",
                            "stillQuarantined", "move"}
               /\ \/ h \in {"lockUser", "lockTarget", "lockSettings", "lockForeignKey",
                            "recheckOwner"}
                  \/ h = "noParty" /\ NoPartyYet(s)
                  \/ h = "noSolo" /\ NoSolo(s)
                  \/ h = "lockParty" /\ LockParty(s)
                  \/ h = "lockOwner" /\ LockOwner(s)
                  \/ h = "isLeader" /\ IsLeader(s)
                  \/ h = "notLeader" /\ NotLeader(s)
                  \/ h = "isMember" /\ IsMember(s)
                  \/ h = "notBusy" /\ NotBusy(s)
                  \/ h = "checkInvite" /\ CheckInvite(s)
                  \/ h = "checkRoom" /\ CheckRoom(s)
                  \/ h = "checkLargest" /\ CheckLargest(s)
                  \/ h = "noCurrent" /\ NoCurrent(s)
                  \/ h = "lockRequest" /\ LockRequest(s)
                  \/ h = "stillWaiting" /\ StillWaiting(s)
                  \/ h = "stillRunning" /\ StillRunning(s)
  BY <1>1 DEF LockUser, LockTarget, LockSettings, NoPartyYet, NoSolo, LockParty, LockOwner,
              IsLeader, NotLeader, IsMember, NotBusy, CheckInvite, CheckRoom, CheckLargest,
              NoCurrent, LockForeignKey, LockRequest, RecheckOwner, StillWaiting, StillRunning,
              Execute
<1>3. t \in TxRow /\ t.party \in Parties \cup {None}
  BY <1>1, <1>2 DEF Execute, At, Idle, PartyInv, Session, TxRow
<1>4. Owner(s) = OwnerOf(t) /\ (LedByUser(s) <=> (t.party # None => Leads(t.user, t.party)))
  BY <1>1 DEF Owner, OwnerOf, LedByUser
<1>5. Found(t, h)
  <2>1. CASE h \in {"noParty", "noSolo", "notLeader", "isMember", "notBusy", "checkInvite"}
    BY <1>1, <1>2, <2>1 DEF Found, NoPartyYet, NoSolo, NotLeader, IsMember, NotBusy,
                            CheckInvite,
                            Execute
  <2>2. CASE h \in {"checkRoom", "checkLargest", "noCurrent", "stillWaiting", "stillRunning",
                    "lockRequest"}
    BY <1>1, <1>2, <1>4, <2>2 DEF Found, CheckRoom, CheckLargest, NoCurrent, StillWaiting,
                                  StillRunning, LockRequest, Execute
  <2>3. CASE h \in {"lockParty", "lockOwner", "isLeader"}
    BY <1>1, <1>2, <1>3, <1>4, <2>3 DEF Found, LockParty, LockOwner, IsLeader, Execute, Leads
  <2>4. CASE h \in {"lockUser", "lockTarget", "lockSettings", "lockForeignKey", "recheckOwner"}
    BY <2>4 DEF Found
  <2> QED BY <1>2, <2>1, <2>2, <2>3, <2>4
<1> QED BY <1>1, <1>2, <1>5, Looked

\* What the proofs about single statements start from.
LEMMA Current ==
  ASSUME PartyInv, NEW s \in Sessions, NEW t, t = tx[s], t.op # "none"
  PROVE  /\ t \in TxRow /\ OnTrack(t) /\ Facts(t) /\ CallFacts(t)
         /\ t.fresh # "none" <=> "validate" \in Done(t)
         /\ t.op = "progress" /\ "move" \notin Done(t) => t.party = None
         /\ \A stm \in Done(t) : Found(t, stm)
         /\ locks[s] = Locked(t)
BY DEF PartyInv, Session, Facts

\* The statements that remember what they find.
LEMMA ReadMembershipKeeps ==
  ASSUME PartyInv, NEW s \in Sessions, ReadMembership(s)
  PROVE  PartyInv'
<1>1. PICK t : t = tx[s]
  OBVIOUS
<1>2. PICK x : x = [t EXCEPT !.party = members[t.user]]
  OBVIOUS
<1>3. Execute(s, "readMembership", TRUE, x) /\ t.op # "none" /\ Head(t.todo) = "readMembership"
  BY <1>1, <1>2 DEF ReadMembership, Execute, At, Idle
<1>4. t \in TxRow
  BY <1>1, <1>3, Current
<1>5. \/ Done(t) = {"lockUser"} /\ t.op \in {"leave", "request", "cancel"}
      \/ Done(t) = {} /\ t.op \in {"stop", "abandon"} /\ ~Consuming(t)
  BY <1>1, <1>3, Current, Stages
<1>6. t.user \in Users /\ members[t.user] \in Parties \cup {None}
  BY <1>1, <1>3, <1>5, Current DEF CallFacts, PartyInv, Inv, TypeOK
<1>7. /\ x \in TxRow /\ x.op = t.op /\ x.user = t.user /\ x.target = t.target
      /\ x.party = members[t.user] /\ x.request = t.request /\ x.arg = t.arg
      /\ x.fresh = t.fresh /\ x.todo = t.todo
  BY <1>2, <1>4, <1>6 DEF TxRow
<1>8. PICK t1 : t1 = [x EXCEPT !.todo = Tail(@)]
  OBVIOUS
<1>9. t1.op = t.op /\ t1.fresh = t.fresh /\ t1.todo = Tail(t.todo)
  BY <1>7, <1>8 DEF TxRow
<1>10. Consuming(x) = Consuming(t) /\ Consuming(t1) = Consuming(t)
  <2>1. Consuming(x) = Consuming(t)
    BY <1>7 DEF Consuming
  <2>2. Consuming(t1) = Consuming(t)
    BY <1>1, <1>3, <1>9, Current, ConsumingStays
  <2> QED BY <2>1, <2>2
<1>11. CallFacts(x)
  BY <1>1, <1>3, <1>5, <1>7, Current DEF CallFacts
<1>12. Wants(s) = Taken(x, "readMembership") /\ \A stm \in Done(t) : Taken(x, stm) = Taken(t, stm)
  BY <1>1, <1>3, <1>5, <1>7, WantsTaken DEF Taken
<1>13. Found(x, "lockUser")
  BY DEF Found
<1>14. Found(x, "readMembership")
  <2>1. x.party # None => Live(x.party)
    BY <1>6, <1>7 DEF PartyInv, Inv, LeaderIsMember, MembersOf
  <2> QED BY <1>7, <2>1 DEF Found
<1>15. x.fresh # "none" <=> "validate" \in Done(t) \cup {"readMembership"}
  BY <1>1, <1>3, <1>7, Current
<1>16. \A stm \in Done(t) \cup {"readMembership"} : Found(x, stm)
  BY <1>5, <1>13, <1>14
<1>17. x.op # "progress"
  BY <1>5, <1>7
<1> QED BY <1>1, <1>3, <1>7, <1>8, <1>10, <1>11, <1>12, <1>15, <1>16, <1>17, Learned

LEMMA ReadLimitKeeps ==
  ASSUME PartyInv, NEW s \in Sessions, ReadLimit(s)
  PROVE  PartyInv'
<1>1. PICK t : t = tx[s]
  OBVIOUS
<1>2. PICK x : x = [t EXCEPT !.size = limit]
  OBVIOUS
<1>3. /\ Execute(s, "readLimit", TRUE, x) /\ t.op # "none" /\ Head(t.todo) = "readLimit"
      /\ limit # 0
  BY <1>1, <1>2 DEF ReadLimit, Execute, At, Idle
<1>4. t \in TxRow
  BY <1>1, <1>3, Current
<1>5. \/ Done(t) = {"lockUser"} /\ t.op = "create"
      \/ Done(t) = {"lockUser", "noParty", "noSolo", "lockParty", "checkInvite"} /\ t.op = "join"
  BY <1>1, <1>3, Current, Stages
<1>6. /\ x \in TxRow /\ x.op = t.op /\ x.user = t.user /\ x.target = t.target
      /\ x.party = t.party /\ x.request = t.request /\ x.arg = t.arg /\ x.size = limit
      /\ x.fresh = t.fresh /\ x.todo = t.todo
  BY <1>2, <1>4 DEF TxRow, PartyInv, Inv, TypeOK
<1>7. PICK t1 : t1 = [x EXCEPT !.todo = Tail(@)]
  OBVIOUS
<1>8. t1.op = t.op
  BY <1>6, <1>7 DEF TxRow
<1>9. Consuming(x) = Consuming(t) /\ Consuming(t1) = Consuming(t)
  BY <1>5, <1>6, <1>8 DEF Consuming
<1>10. CallFacts(x)
  BY <1>1, <1>3, <1>6, Current DEF CallFacts
<1>11. Wants(s) = Taken(x, "readLimit") /\ \A stm \in Done(t) : Taken(x, stm) = Taken(t, stm)
  BY <1>1, <1>3, <1>5, <1>6, WantsTaken DEF Taken
<1>12. ASSUME NEW stm \in Done(t) PROVE Found(x, stm)
  <2>1. Found(t, stm)
    BY <1>1, <1>3, <1>12, Current
  <2> QED BY <1>5, <1>6, <1>12, <2>1 DEF Found
<1>13. Found(x, "readLimit")
  BY <1>3, <1>6 DEF Found
<1>14. x.fresh # "none" <=> "validate" \in Done(t) \cup {"readLimit"}
  BY <1>1, <1>3, <1>6, Current
<1> QED BY <1>1, <1>3, <1>5, <1>6, <1>7, <1>9, <1>10, <1>11, <1>12, <1>13, <1>14, Learned

LEMMA LockLedPartyKeeps ==
  ASSUME PartyInv, NEW s \in Sessions, LockLedParty(s)
  PROVE  PartyInv'
<1>1. PICK t : t = tx[s]
  OBVIOUS
<1>2. PICK p \in Parties : Execute(s, "lockLedParty", p \in LedBy(t.user), [t EXCEPT !.party = p])
  BY <1>1 DEF LockLedParty
<1>3. PICK x : x = [t EXCEPT !.party = p]
  OBVIOUS
<1>4. /\ Execute(s, "lockLedParty", TRUE, x) /\ t.op # "none" /\ Head(t.todo) = "lockLedParty"
      /\ members[t.user] = p /\ Leads(t.user, p)
  BY <1>1, <1>2, <1>3 DEF Execute, At, Idle, LedBy
<1>5. t \in TxRow
  BY <1>1, <1>4, Current
<1>6. \/ Done(t) = {} /\ t.op = "reset"
      \/ Done(t) = {"lockTarget"} /\ t.op = "remove"
      \/ Done(t) = {"lockUser"} /\ t.op = "disband"
  BY <1>1, <1>4, Current, Stages
<1>7. /\ x \in TxRow /\ x.op = t.op /\ x.user = t.user /\ x.target = t.target
      /\ x.party = p /\ x.request = t.request /\ x.arg = t.arg
      /\ x.fresh = t.fresh /\ x.todo = t.todo
  BY <1>3, <1>5 DEF TxRow
<1>8. PICK t1 : t1 = [x EXCEPT !.todo = Tail(@)]
  OBVIOUS
<1>9. t1.op = t.op
  BY <1>7, <1>8 DEF TxRow
<1>10. Consuming(x) = Consuming(t) /\ Consuming(t1) = Consuming(t)
  BY <1>6, <1>7, <1>9 DEF Consuming
<1>11. CallFacts(x)
  BY <1>1, <1>4, <1>6, <1>7, Current DEF CallFacts
<1>12. \A stm \in Done(t) : Taken(x, stm) = Taken(t, stm)
  BY <1>6, <1>7 DEF Taken
<1>13. Wants(s) = Taken(x, "lockLedParty")
  <2>1. LedBy(t.user) = {p}
    BY <1>4 DEF LedBy
  <2>2. Wants(s) = {<<q, "update">> : q \in LedBy(t.user)}
    BY <1>1, <1>4 DEF Wants, At, Idle
  <2>3. p # None
    BY PartyAssumption
  <2> QED BY <1>7, <2>1, <2>2, <2>3 DEF Taken
<1>14. \A stm \in Done(t) \cup {"lockLedParty"} : Found(x, stm)
  BY <1>4, <1>6, <1>7 DEF Found
<1>15. x.fresh # "none" <=> "validate" \in Done(t) \cup {"lockLedParty"}
  BY <1>1, <1>4, <1>7, Current
<1> QED BY <1>1, <1>4, <1>6, <1>7, <1>8, <1>10, <1>11, <1>12, <1>13, <1>14, <1>15, Learned

LEMMA ValidateKeeps ==
  ASSUME PartyInv, NEW s \in Sessions, Validate(s)
  PROVE  PartyInv'
<1>1. PICK t : t = tx[s]
  OBVIOUS
<1>2. PICK f \in {"allowed", "refused"} :
        /\ Execute(s, "validate", TRUE, [t EXCEPT !.fresh = f])
        /\ f = "allowed" => NotTooLarge(OwnerOf(t))
        /\ t.op = "request" => f = "allowed"
  <2>1. Owner(s) = OwnerOf(t)
    BY <1>1 DEF Owner, OwnerOf
  <2> QED BY <1>1, <2>1 DEF Validate, Execute
<1>3. PICK x : x = [t EXCEPT !.fresh = f]
  OBVIOUS
<1>4. Execute(s, "validate", TRUE, x) /\ t.op # "none" /\ Head(t.todo) = "validate"
  BY <1>1, <1>2, <1>3 DEF Execute, At, Idle
<1>5. t \in TxRow
  BY <1>1, <1>4, Current
<1>6. \/ /\ Done(t) = {"lockUser", "readMembership", "lockOwner", "noCurrent"}
         /\ t.op = "request"
      \/ /\ Done(t) = {"readMembership", "isLeader", "lockRequest", "recheckOwner",
                       "stillQuarantined", "lockOwner"}
         /\ t.op = "abandon" /\ Consuming(t)
      \/ Done(t) = {"lockRequest", "move", "lockOwner"} /\ t.op = "progress" /\ Consuming(t)
  BY <1>1, <1>4, Current, Stages
<1>7. /\ x \in TxRow /\ x.op = t.op /\ x.user = t.user /\ x.target = t.target
      /\ x.party = t.party /\ x.request = t.request /\ x.arg = t.arg /\ x.move = t.move
      /\ x.size = t.size /\ x.fresh = f /\ x.todo = t.todo
  BY <1>3, <1>5 DEF TxRow
<1>8. PICK t1 : t1 = [x EXCEPT !.todo = Tail(@)]
  OBVIOUS
<1>9. t1.op = t.op /\ t1.fresh = f
  BY <1>7, <1>8 DEF TxRow
<1>10. Consuming(x) = Consuming(t) /\ Consuming(t1) = Consuming(t)
  BY <1>6, <1>7, <1>9 DEF Consuming
<1>11. CallFacts(x)
  BY <1>1, <1>4, <1>7, Current DEF CallFacts
<1>12. Wants(s) = Taken(x, "validate") /\ \A stm \in Done(t) : Taken(x, stm) = Taken(t, stm)
  BY <1>1, <1>4, <1>6, <1>7, WantsTaken DEF Taken
<1>13. OwnerOf(x) = OwnerOf(t)
  BY <1>7 DEF OwnerOf
<1>14. ASSUME NEW stm \in Done(t) PROVE Found(x, stm)
  <2>1. Found(t, stm) /\ stm # "validate"
    BY <1>1, <1>4, <1>6, <1>14, Current
  <2> QED BY <1>7, <1>10, <1>13, <2>1 DEF Found
<1>15. Found(x, "validate")
  BY <1>2, <1>7, <1>13 DEF Found
<1>16. "validate" # "commit" /\ x.fresh # "none" /\ x.todo = tx[s].todo /\ x.op = tx[s].op
  BY <1>1, <1>2, <1>7
<1>17. x.op = "progress" /\ "move" \notin Done(t) \cup {"validate"} => x.party = None
  BY <1>6, <1>7
<1>18. \A stm \in Done(t) \cup {"validate"} : Found(x, stm)
  BY <1>14, <1>15
<1>19. x.fresh # "none" <=> "validate" \in Done(t) \cup {"validate"}
  BY <1>16
<1> QED BY <1>1, <1>4, <1>7, <1>8, <1>10, <1>11, <1>12, <1>16, <1>17, <1>18, <1>19, Learned,
           ZenonT(30)

\* A statement put ahead of others is the one that goes first.
LEMMA TailOfConcat ==
  ASSUME NEW h \in Steps, NEW c \in Seq(Steps), NEW q, q = <<h>> \o c
  PROVE  q \in Seq(Steps) /\ Tail(q) = c
<1>1. /\ <<h>> \in Seq(Steps) /\ Len(<<h>>) = 1
      /\ q \in Seq(Steps) /\ Len(q) = 1 + Len(c)
      /\ \A i \in 1..(1 + Len(c)) : q[i] = IF i <= 1 THEN <<h>>[i] ELSE c[i - 1]
  <2>1. <<h>> \in Seq(Steps) /\ Len(<<h>>) = 1
    OBVIOUS
  <2>2. /\ <<h>> \o c \in Seq(Steps) /\ Len(<<h>> \o c) = Len(<<h>>) + Len(c)
        /\ \A i \in 1..Len(<<h>>) + Len(c) :
             (<<h>> \o c)[i] = IF i <= Len(<<h>>) THEN <<h>>[i] ELSE c[i - Len(<<h>>)]
    BY <2>1, ConcatProperties
  <2> QED BY <2>1, <2>2
<1>2. Len(q) # 0
  BY <1>1
<1>3. q # <<>>
  BY <1>2
<1>4. Tail(q) \in Seq(Steps) /\ Len(Tail(q)) = Len(c)
      /\ \A i \in 1..Len(c) : Tail(q)[i] = q[i + 1]
  <2>1. /\ Tail(q) \in Seq(Steps) /\ Len(Tail(q)) = Len(q) - 1
        /\ \A i \in 1..Len(Tail(q)) : Tail(q)[i] = q[i + 1]
    BY <1>1, <1>3, HeadTailProperties
  <2> QED BY <1>1, <2>1
<1>5. ASSUME NEW i \in 1..Len(c) PROVE Tail(q)[i] = c[i]
  <2>1. i + 1 \in 1..(1 + Len(c)) /\ ~(i + 1 <= 1) /\ (i + 1) - 1 = i
    OBVIOUS
  <2>2. q[i + 1] = c[i]
    BY <1>1, <2>1
  <2> QED BY <1>4, <2>2
<1> QED BY <1>1, <1>4, <1>5, SeqEqual

\* The statements of a consumption.
LEMMA ConsumptionTyped == Consumption \in Seq(Steps) /\ Len(Consumption) = 4
BY DEF Consumption, Steps

\* A script that ends with the consumption leads to it.
LEMMA ConsumptionTrack ==
  ASSUME NEW t1, NEW P \in Seq(Steps), P = Script(t1), t1.todo = Consumption,
         NEW n \in 1..Len(P), Len(P) = n + 3,
         P[n] = "lockOwner", P[n + 1] = "validate", P[n + 2] = "lockForeignKey",
         P[n + 3] = "commit"
  PROVE  OnTrack(t1) /\ Done(t1) = {P[i] : i \in 1..(n - 1)}
<1>1. PICK q : q = SubSeq(P, n, Len(P))
  OBVIOUS
<1>2. Len(P) \in Int
  OBVIOUS
<1>3. n \in Int
  BY <1>2
<1>4. q \in Seq(Steps) /\ Len(q) = Len(P) - n + 1
  BY <1>1, Suffix
<1>5. Len(q) = 4
  BY <1>2, <1>3, <1>4
<1>6. \A i \in 1..(Len(P) - n + 1) : q[i] = P[n + i - 1]
  BY <1>1
<1>7. PICK c \in Seq(Steps) : c = Consumption /\ Len(c) = 4
  BY ConsumptionTyped
<1>8. c[1] = "lockOwner" /\ c[2] = "validate" /\ c[3] = "lockForeignKey" /\ c[4] = "commit"
  BY <1>7 DEF Consumption
<1>9. Len(P) - n + 1 = 4
  BY <1>2, <1>3
<1>10. \A i \in 1..4 : q[i] = P[n + i - 1]
  BY <1>6, <1>9
<1>11. q[1] = P[n] /\ q[2] = P[n + 1] /\ q[3] = P[n + 2] /\ q[4] = P[n + 3]
  <2>1. n + 1 - 1 = n /\ n + 2 - 1 = n + 1 /\ n + 3 - 1 = n + 2 /\ n + 4 - 1 = n + 3
    BY <1>3
  <2>2. 1 \in 1..4 /\ 2 \in 1..4 /\ 3 \in 1..4 /\ 4 \in 1..4
    OBVIOUS
  <2> QED BY <1>10, <2>1, <2>2
<1>12. \A i \in 1..4 : q[i] = c[i]
  <2>1. \A i \in 1..4 : i = 1 \/ i = 2 \/ i = 3 \/ i = 4
    OBVIOUS
  <2> QED BY <1>8, <1>11, <2>1
<1>13. q = c
  BY <1>4, <1>5, <1>7, <1>12, SeqEqual
<1>14. OnTrack(t1)
  BY <1>1, <1>7, <1>13 DEF OnTrack
<1>15. Len(P) - Len(t1.todo) = n - 1
  BY <1>2, <1>3, <1>7
<1> QED BY <1>14, <1>15 DEF Done

\* The end of a request turns to its next game.
LEMMA ConsumptionBegins ==
  ASSUME PartyInv, NEW s \in Sessions, NEW h, NEW t, t = tx[s], NEW x, Execute(s, h, TRUE, x),
         \/ /\ t.op = "abandon" /\ h = "stillQuarantined"
            /\ Done(t) = {"readMembership", "isLeader", "lockRequest", "recheckOwner"}
         \/ t.op = "progress" /\ h = "move" /\ Done(t) = {"lockRequest"},
         NEW t1 \in TxRow, t1 = [x EXCEPT !.todo = Tail(@)], t1.todo = Consumption,
         t1.op = t.op, t1.fresh = "none",
         \A stm \in Done(t) : Taken(t1, stm) = Taken(t, stm), Taken(t1, h) = Taken(t, h),
         CallFacts(t1),
         Consuming(t1) => \A stm \in Done(t) \cup {h} : Found(t1, stm)
  PROVE  PartyInv'
<1>1. t.op # "none" /\ h = Head(t.todo)
  BY DEF Execute, At, Idle
<1>2. Head(Consumption) = "lockOwner"
  BY DEF Consumption
<1>3. Consuming(t1)
  BY <1>2 DEF Consuming
<1>4. OnTrack(t1) /\ Done(t1) = Done(t) \cup {h}
  <2>1. PICK P : P = Script(t1)
    OBVIOUS
  <2>2. CASE t.op = "abandon"
    <3>1. P = <<"readMembership", "isLeader", "lockRequest", "recheckOwner", "stillQuarantined",
                "lockOwner", "validate", "lockForeignKey", "commit">>
      BY <1>3, <2>1, <2>2 DEF Script
    <3>2. /\ P \in Seq(Steps) /\ Len(P) = 9 /\ P[1] = "readMembership" /\ P[2] = "isLeader"
          /\ P[3] = "lockRequest" /\ P[4] = "recheckOwner" /\ P[5] = "stillQuarantined"
          /\ P[6] = "lockOwner" /\ P[7] = "validate" /\ P[8] = "lockForeignKey" /\ P[9] = "commit"
      BY <3>1 DEF Steps
    <3>3. PICK n \in 1..Len(P) : n = 6
      BY <3>2
    <3>4. /\ Len(P) = n + 3 /\ P[n] = "lockOwner" /\ P[n + 1] = "validate"
          /\ P[n + 2] = "lockForeignKey" /\ P[n + 3] = "commit" /\ n - 1 = 5
      BY <3>2, <3>3
    <3>5. OnTrack(t1) /\ Done(t1) = {P[i] : i \in 1..5}
      <4>1. OnTrack(t1) /\ Done(t1) = {P[i] : i \in 1..(n - 1)}
        BY <2>1, <3>2, <3>4, ConsumptionTrack, ZenonT(30)
      <4>2. 1..(n - 1) = 1..5
        BY <3>4
      <4> QED BY <4>1, <4>2
    <3>6. \A i \in 1..5 : i = 1 \/ i = 2 \/ i = 3 \/ i = 4 \/ i = 5
      OBVIOUS
    <3>7. {P[i] : i \in 1..5} = {P[1], P[2], P[3], P[4], P[5]}
      BY <3>6
    <3>8. Done(t1) = {"readMembership", "isLeader", "lockRequest", "recheckOwner",
                      "stillQuarantined"}
      BY <3>2, <3>5, <3>7
    <3> QED BY <2>2, <3>5, <3>8
  <2>3. CASE t.op = "progress"
    <3>1. P = <<"lockRequest", "move", "lockOwner", "validate", "lockForeignKey", "commit">>
      BY <1>3, <2>1, <2>3 DEF Script
    <3>2. /\ P \in Seq(Steps) /\ Len(P) = 6 /\ P[1] = "lockRequest" /\ P[2] = "move"
          /\ P[3] = "lockOwner" /\ P[4] = "validate" /\ P[5] = "lockForeignKey" /\ P[6] = "commit"
      BY <3>1 DEF Steps
    <3>3. PICK n \in 1..Len(P) : n = 3
      BY <3>2
    <3>4. /\ Len(P) = n + 3 /\ P[n] = "lockOwner" /\ P[n + 1] = "validate"
          /\ P[n + 2] = "lockForeignKey" /\ P[n + 3] = "commit" /\ n - 1 = 2
      BY <3>2, <3>3
    <3>5. OnTrack(t1) /\ Done(t1) = {P[i] : i \in 1..2}
      <4>1. OnTrack(t1) /\ Done(t1) = {P[i] : i \in 1..(n - 1)}
        BY <2>1, <3>2, <3>4, ConsumptionTrack, Zenon
      <4>2. 1..(n - 1) = 1..2
        BY <3>4
      <4> QED BY <4>1, <4>2
    <3>6. {P[i] : i \in 1..2} = {P[1], P[2]}
      OBVIOUS
    <3> QED BY <2>3, <3>2, <3>5, <3>6
  <2> QED BY <2>2, <2>3
<1>5. Facts(t1)
  <2>1. t.op = "progress" => h = "move"
    OBVIOUS
  <2>2. \A stm \in Done(t1) : Found(t1, stm)
    BY <1>3, <1>4
  <2>3. "validate" \notin Done(t1) /\ (t1.op = "progress" => "move" \in Done(t1))
    BY <1>4, <2>1
  <2> QED BY <2>2, <2>3 DEF Facts
<1>6. Wants(s) = Taken(t1, h) /\ Wants(s) \subseteq Rows \X {"update", "share"}
  <2>1. h # "lockLedParty"
    OBVIOUS
  <2>2. Wants(s) = Taken(t1, h)
    BY <1>1, <2>1, WantsTaken
  <2> QED BY <2>2, TakenRows
<1>7. UNCHANGED vars /\ Lock(s) /\ tx' = [tx EXCEPT ![s] = t1]
  BY DEF Execute, Proceed
<1>8. tx[s].op # "none" /\ Done(t1) = Done(tx[s]) \cup {h}
      /\ \A stm \in Done(tx[s]) : Taken(t1, stm) = Taken(tx[s], stm)
  BY <1>1, <1>4
<1>9. t1 \in TxRow /\ OnTrack(t1) /\ Facts(t1)
  BY <1>4, <1>5
<1> QED BY <1>6, <1>7, <1>8, <1>9, Executed, ZenonT(30)

\* What is left when the consumption begins.
LEMMA ConsumptionLeft ==
  ASSUME NEW h \in Steps
  PROVE  Tail(<<h>> \o Consumption) = Consumption
<1>1. PICK c \in Seq(Steps) : c = Consumption
  BY ConsumptionTyped
<1>2. PICK q : q = <<h>> \o c
  OBVIOUS
<1>3. Tail(q) = c
  BY <1>2, TailOfConcat
<1> QED BY <1>1, <1>2, <1>3

\* The statements that may end a request and turn to its next game.
LEMMA StillQuarantinedKeeps ==
  ASSUME PartyInv, NEW s \in Sessions, StillQuarantined(s)
  PROVE  PartyInv'
<1>1. PICK t : t = tx[s]
  OBVIOUS
<1>2. PICK q : q = requests[t.request]
  OBVIOUS
<1>3. /\ At(s, "stillQuarantined") /\ t.op # "none" /\ Head(t.todo) = "stillQuarantined"
      /\ q.state = "quarantined"
  BY <1>1, <1>2 DEF StillQuarantined, Execute, At, Idle
<1>4. /\ t \in TxRow /\ t.op = "abandon" /\ ~Consuming(t) /\ t.fresh = "none"
      /\ Done(t) = {"readMembership", "isLeader", "lockRequest", "recheckOwner"}
  BY <1>1, <1>3, Current, Stages
<1>5. CASE q.next # "paused"
  <2>1. Execute(s, "stillQuarantined", TRUE, tx[s])
    BY <1>1, <1>2, <1>3, <1>5 DEF StillQuarantined, Execute
  <2>2. Found(t, "stillQuarantined")
    BY <1>2, <1>3, <1>4, <1>5 DEF Found
  <2> QED BY <1>1, <2>1, <2>2, Looked
<1>6. CASE q.next = "paused"
  <2>1. PICK x : x = [t EXCEPT !.todo = <<"stillQuarantined">> \o Consumption]
    OBVIOUS
  <2>2. Execute(s, "stillQuarantined", TRUE, x)
    BY <1>1, <1>2, <1>3, <1>6, <2>1 DEF StillQuarantined, Execute
  <2>3. PICK t1 : t1 = [x EXCEPT !.todo = Tail(@)]
    OBVIOUS
  <2>4. /\ t1.op = t.op /\ t1.user = t.user /\ t1.target = t.target /\ t1.party = t.party
        /\ t1.request = t.request /\ t1.arg = t.arg /\ t1.size = t.size /\ t1.move = t.move
        /\ t1.fresh = t.fresh /\ t1.todo = Tail(x.todo)
        /\ x.todo = <<"stillQuarantined">> \o Consumption
    BY <1>4, <2>1, <2>3 DEF TxRow
  <2>5. t1 \in TxRow /\ t1.todo = Consumption
    <3>1. t1.todo = Consumption
      BY <2>4, ConsumptionLeft DEF Steps
    <3>2. t1 = [t EXCEPT !.todo = Consumption]
      BY <1>4, <2>1, <2>3, <2>4, <3>1 DEF TxRow
    <3> QED BY <1>4, <3>1, <3>2, ConsumptionTyped DEF TxRow
  <2>6. \A stm : Taken(t1, stm) = Taken(t, stm)
    BY <2>4 DEF Taken
  <2>7. CallFacts(t1)
    BY <1>1, <1>3, <2>4, Current DEF CallFacts
  <2>8. ASSUME NEW stm \in Done(t) PROVE Found(t1, stm)
    <3>1. Found(t, stm)
      BY <1>1, <1>3, <2>8, Current
    <3>2. OwnerOf(t1) = OwnerOf(t)
      BY <2>4 DEF OwnerOf
    <3> QED BY <1>4, <2>4, <2>8, <3>1, <3>2 DEF Found
  <2>9. Consuming(t1) => Found(t1, "stillQuarantined")
    BY <1>2, <1>3, <1>6, <2>4 DEF Found
  <2>10. Consuming(t1) => \A stm \in Done(t) \cup {"stillQuarantined"} : Found(t1, stm)
    BY <2>8, <2>9
  <2>11. PICK h : h = "stillQuarantined"
    OBVIOUS
  <2>12. Execute(s, h, TRUE, x) /\ Taken(t1, h) = Taken(t, h)
         /\ (Consuming(t1) => \A stm \in Done(t) \cup {h} : Found(t1, stm))
         /\ \A stm \in Done(t) : Taken(t1, stm) = Taken(t, stm)
    BY <2>2, <2>6, <2>10, <2>11
  <2>13. t1.op = t.op /\ t1.fresh = "none" /\ t.op = "abandon"
    BY <1>4, <2>4
  <2> QED BY <1>1, <1>4, <2>3, <2>5, <2>7, <2>11, <2>12, <2>13, ConsumptionBegins
<1> QED BY <1>5, <1>6

\* The moves of a request are pairs of its state and held.
LEMMA MovesTyped ==
  ASSUME NEW q, NEW m \in Moves(q)
  PROVE  m \in ({"none"} \cup RequestStates) \X BOOLEAN
<1>1. m \in {<<"active", TRUE>>, <<"active", FALSE>>, <<"over", FALSE>>, <<"stopping", TRUE>>,
             <<"quarantined", TRUE>>, <<"quarantined", FALSE>>}
  BY Zenon DEF Moves
<1>2. {"active", "over", "stopping", "quarantined"} \subseteq {"none"} \cup RequestStates
  BY DEF RequestStates, Blocking
<1>3. /\ <<"active", TRUE>> \in ({"none"} \cup RequestStates) \X BOOLEAN
      /\ <<"active", FALSE>> \in ({"none"} \cup RequestStates) \X BOOLEAN
      /\ <<"over", FALSE>> \in ({"none"} \cup RequestStates) \X BOOLEAN
      /\ <<"stopping", TRUE>> \in ({"none"} \cup RequestStates) \X BOOLEAN
      /\ <<"quarantined", TRUE>> \in ({"none"} \cup RequestStates) \X BOOLEAN
      /\ <<"quarantined", FALSE>> \in ({"none"} \cup RequestStates) \X BOOLEAN
  BY <1>2
<1> QED BY <1>1, <1>3

LEMMA MoveKeeps ==
  ASSUME PartyInv, NEW s \in Sessions, Move(s)
  PROVE  PartyInv'
<1>1. PICK t : t = tx[s]
  OBVIOUS
<1>2. PICK o : o = requests[t.request].owner
  OBVIOUS
<1>3. PICK y : y = IF o \in Parties THEN [t EXCEPT !.party = o] ELSE [t EXCEPT !.user = o]
  OBVIOUS
<1>4. PICK m \in Moves(requests[t.request]) :
        Execute(s, "move", TRUE, IF Due(t.request, m)
                                   THEN [y EXCEPT !.move = m, !.todo = <<Head(@)>> \o Consumption]
                                   ELSE [y EXCEPT !.move = m])
  BY <1>1, <1>2, <1>3 DEF Move
<1>5. At(s, "move") /\ t.op # "none" /\ Head(t.todo) = "move"
  BY <1>1, <1>4 DEF Execute, At, Idle
<1>6. /\ t \in TxRow /\ t.op = "progress" /\ ~Consuming(t) /\ t.fresh = "none" /\ t.party = None
      /\ Done(t) = {"lockRequest"} /\ t.request \in Requests /\ requests[t.request].state # "none"
  <2>1. t \in TxRow /\ Done(t) = {"lockRequest"} /\ t.op = "progress" /\ ~Consuming(t)
    BY <1>1, <1>5, Current, Stages
  <2>2. t.party = None /\ t.fresh \in {"none", "allowed", "refused"}
    BY <1>1, <1>5, <2>1, Current DEF TxRow
  <2>3. t.fresh = "none"
    BY <1>1, <1>5, <2>1, <2>2, Current
  <2>4. t.request \in Requests /\ requests[t.request].state # "none"
    BY <1>1, <1>5, <2>1, Current DEF CallFacts, OnRequest
  <2> QED BY <2>1, <2>2, <2>3, <2>4
<1>7. o \in Users \cup Parties \cup {None}
  BY <1>2, <1>6 DEF PartyInv, Inv, TypeOK, RequestRow
<1>8. m \in ({"none"} \cup RequestStates) \X BOOLEAN
  BY <1>4, MovesTyped
<1>9. /\ y \in TxRow /\ y.op = t.op /\ y.target = t.target /\ y.request = t.request
      /\ y.arg = t.arg /\ y.size = t.size /\ y.fresh = t.fresh /\ y.todo = t.todo
      /\ y.party = IF o \in Parties THEN o ELSE None
      /\ y.user = IF o \in Parties THEN t.user ELSE o
  BY <1>3, <1>6, <1>7 DEF TxRow
<1>10. PICK w : w = [y EXCEPT !.move = m]
  OBVIOUS
<1>11. /\ w \in TxRow /\ w.op = "progress" /\ w.target = t.target /\ w.request = t.request
       /\ w.arg = t.arg /\ w.size = t.size /\ w.fresh = "none" /\ w.todo = t.todo
       /\ w.party = y.party /\ w.user = y.user /\ w.move = m
  BY <1>6, <1>8, <1>9, <1>10 DEF TxRow
<1>12. OwnerOf(w) = o
  <2>1. None \notin Parties
    BY PartyAssumption
  <2> QED BY <1>9, <1>11, <2>1 DEF OwnerOf
<1>13. CallFacts(w)
  BY <1>6, <1>11 DEF CallFacts
<1>14. /\ \A stm \in Done(t) : Taken(w, stm) = Taken(t, stm)
       /\ Taken(w, "move") = Taken(t, "move") /\ Taken(w, "move") = {}
  BY <1>6, <1>11 DEF Taken
<1>15. CASE ~Due(t.request, m)
  <2>1. Execute(s, "move", TRUE, w)
    BY <1>4, <1>10, <1>15
  <2>2. PICK t1 : t1 = [w EXCEPT !.todo = Tail(@)]
    OBVIOUS
  <2>3. t1.op = t.op /\ t1.fresh = t.fresh /\ t1.todo = Tail(t.todo)
    BY <1>6, <1>11, <2>2 DEF TxRow
  <2>4. Consuming(w) = Consuming(t)
    BY <1>6, <1>11 DEF Consuming
  <2>5. Consuming(t1) = Consuming(t)
    BY <1>1, <1>5, <2>3, Current, ConsumingStays
  <2>6. Wants(s) = Taken(w, "move")
    BY <1>1, <1>5, <1>14, WantsTaken
  <2>7. Found(w, "lockRequest")
    BY <1>11 DEF Found
  <2>8. Found(w, "move")
    BY <1>2, <1>4, <1>6, <1>11, <1>12, <1>15, <2>4 DEF Found
  <2>9. \A stm \in Done(t) \cup {"move"} : Found(w, stm)
    BY <1>6, <2>7, <2>8
  <2>10. w.fresh # "none" <=> "validate" \in Done(t) \cup {"move"}
    BY <1>6, <1>11
  <2>11. w.op = t.op
    BY <1>6, <1>11
  <2> QED BY <1>1, <1>11, <1>13, <1>14, <2>1, <2>2, <2>4, <2>5, <2>6, <2>9, <2>10, <2>11,
             Learned
<1>16. CASE Due(t.request, m)
  <2>1. PICK x : x = [y EXCEPT !.move = m, !.todo = <<Head(@)>> \o Consumption]
    OBVIOUS
  <2>2. Execute(s, "move", TRUE, x)
    BY <1>4, <1>16, <2>1
  <2>3. PICK t1 : t1 = [x EXCEPT !.todo = Tail(@)]
    OBVIOUS
  <2>4. x.todo = <<"move">> \o Consumption
    BY <1>5, <1>9, <2>1 DEF TxRow
  <2>5. t1.todo = Consumption
    <3>1. t1.todo = Tail(x.todo)
      BY <1>9, <2>1, <2>3 DEF TxRow
    <3> QED BY <2>4, <3>1, ConsumptionLeft DEF Steps
  <2>6. t1 = [w EXCEPT !.todo = Consumption]
    BY <1>9, <1>10, <2>1, <2>3, <2>4, <2>5 DEF TxRow
  <2>7. /\ t1 \in TxRow /\ t1.op = "progress" /\ t1.target = w.target /\ t1.request = w.request
        /\ t1.arg = w.arg /\ t1.size = w.size /\ t1.fresh = "none"
        /\ t1.party = w.party /\ t1.user = w.user /\ t1.move = m
    BY <1>11, <2>6, ConsumptionTyped DEF TxRow
  <2>8. \A stm : Taken(t1, stm) = Taken(w, stm)
    BY <1>11, <2>7 DEF Taken
  <2>9. CallFacts(t1)
    BY <1>11, <1>13, <2>7 DEF CallFacts
  <2>10. OwnerOf(t1) = o
    BY <1>12, <2>7 DEF OwnerOf
  <2>11. Found(t1, "lockRequest")
    BY <2>7 DEF Found
  <2>12. Consuming(t1) => Found(t1, "move")
    BY <1>2, <1>4, <1>11, <1>16, <2>7, <2>10 DEF Found
  <2>13. Consuming(t1) => \A stm \in Done(t) \cup {"move"} : Found(t1, stm)
    BY <1>6, <2>11, <2>12
  <2>14. PICK h : h = "move"
    OBVIOUS
  <2>15. /\ Execute(s, h, TRUE, x) /\ Taken(t1, h) = Taken(t, h)
         /\ Consuming(t1) => \A stm \in Done(t) \cup {h} : Found(t1, stm)
         /\ \A stm \in Done(t) : Taken(t1, stm) = Taken(t, stm)
    BY <1>14, <2>2, <2>8, <2>13, <2>14
  <2>16. t1.op = t.op
    BY <1>6, <2>7
  <2> QED BY <1>1, <1>6, <2>3, <2>5, <2>7, <2>9, <2>14, <2>15, <2>16, ConsumptionBegins
<1> QED BY <1>15, <1>16

-----------------------------------------------------------------------------
(* Beginning and giving up. *)

\* No operation begins with the owner or the validation of a next game.
LEMMA StatementsTyped ==
  ASSUME NEW op \in Called, NEW P, P = Statements(op)
  PROVE  P \in Seq(Steps) /\ P # <<>> /\ Head(P) \notin {"lockOwner", "validate"}
<1>1. CASE op = "configure"
  BY <1>1 DEF Statements, Steps
<1>2. CASE op = "create"
  BY <1>2 DEF Statements, Steps
<1>3. CASE op = "reset"
  BY <1>3 DEF Statements, Steps
<1>4. CASE op = "join"
  BY <1>4 DEF Statements, Steps, JoinStatements
<1>5. CASE op = "leave"
  BY <1>5 DEF Statements, Steps
<1>6. CASE op = "remove"
  BY <1>6 DEF Statements, Steps
<1>7. CASE op = "disband"
  BY <1>7 DEF Statements, Steps
<1>8. CASE op = "request"
  BY <1>8 DEF Statements, Steps
<1>9. CASE op = "cancel"
  BY <1>9 DEF Statements, Steps
<1>10. CASE op = "stop"
  BY <1>10 DEF Statements, Steps, StopStatements
<1>11. CASE op = "abandon"
  BY <1>11 DEF Statements, Steps
<1>12. CASE op = "progress"
  BY <1>12 DEF Statements, Steps
<1> QED BY <1>1, <1>2, <1>3, <1>4, <1>5, <1>6, <1>7, <1>8, <1>9, <1>10, <1>11, <1>12 DEF Called

\* The fields of a call.
LEMMA CallTyped ==
  ASSUME NEW op \in Called, NEW u \in Users \cup {None}, NEW v \in Users \cup {None},
         NEW p \in Parties \cup {None}, NEW r \in Requests \cup {None}, NEW k \in Nat,
         NEW t, t = Call(op, u, v, p, r, k)
  PROVE  t \in TxRow
<1>1. PICK P \in Seq(Steps) : P = Statements(op)
  BY StatementsTyped
<1>2. <<"none", FALSE>> \in ({"none"} \cup RequestStates) \X BOOLEAN
  OBVIOUS
<1>3. PICK m \in ({"none"} \cup RequestStates) \X BOOLEAN : m = <<"none", FALSE>>
  BY <1>2
<1>4. t = [op |-> op, user |-> u, target |-> v, party |-> p, request |-> r, arg |-> k,
           size |-> 0, move |-> m, fresh |-> "none", todo |-> P]
  BY <1>1, <1>3 DEF Call, NoTx
<1> QED BY <1>4 DEF TxRow

\* Calls are of users, parties and requests that exist.
LEMMA CallsTyped ==
  ASSUME PartyInv, NEW t \in Calls, t.op = "remove" => t.user # t.target
  PROVE  /\ t \in TxRow /\ t.fresh = "none" /\ t.todo = Statements(t.op)
         /\ t.op = "progress" => t.party = None
         /\ CallFacts(t)
<1>1. Limits \subseteq Nat \ {0} /\ \A p \in Parties : parties[p].invite \in Nat
  BY PartyAssumption DEF PartyInv, Inv, TypeOK, PartyRow
<1>2. CASE \E n \in Limits : t = Call("configure", None, None, None, None, n)
  <2>1. PICK n \in Limits : t = Call("configure", None, None, None, None, n)
    BY <1>2
  <2>2. "configure" \in Called /\ n \in Nat
    BY <1>1, <2>1 DEF Called
  <2>3. t \in TxRow
    BY <2>1, <2>2, CallTyped
  <2>4. /\ t.op = "configure" /\ t.user = None /\ t.target = None /\ t.party = None
        /\ t.request = None /\ t.arg = n /\ t.fresh = "none" /\ t.todo = Statements("configure")
    BY <2>1 DEF Call, NoTx
  <2> QED BY <1>1, <2>1, <2>2, <2>3, <2>4 DEF CallFacts, OnRequest
<1>3. CASE \E op \in {"create", "reset", "leave", "disband", "request"}, u \in Users :
           t = Call(op, u, None, None, None, 0)
  <2>1. PICK op \in {"create", "reset", "leave", "disband", "request"}, u \in Users :
             t = Call(op, u, None, None, None, 0)
    BY <1>3
  <2>2. op \in Called /\ 0 \in Nat
    BY <1>1, <2>1 DEF Called
  <2>3. t \in TxRow
    BY <2>1, <2>2, CallTyped
  <2>4. /\ t.op = op /\ t.user = u /\ t.target = None /\ t.party = None
        /\ t.request = None /\ t.arg = 0 /\ t.fresh = "none" /\ t.todo = Statements(op)
    BY <2>1 DEF Call, NoTx
  <2> QED BY <1>1, <2>1, <2>2, <2>3, <2>4 DEF CallFacts, OnRequest
<1>4. CASE \E u \in Users, p \in Parties, k \in Nat : k > 0 /\ t = Call("join", u, None, p, None, k)
  <2>1. PICK u \in Users, p \in Parties, k \in Nat : k > 0 /\ t = Call("join", u, None, p, None, k)
    BY <1>4
  <2>2. "join" \in Called /\ k \in Nat
    BY <1>1, <2>1 DEF Called
  <2>3. t \in TxRow
    BY <2>1, <2>2, CallTyped
  <2>4. /\ t.op = "join" /\ t.user = u /\ t.target = None /\ t.party = p
        /\ t.request = None /\ t.arg = k /\ t.fresh = "none" /\ t.todo = Statements("join")
    BY <2>1 DEF Call, NoTx
  <2> QED BY <1>1, <2>1, <2>2, <2>3, <2>4 DEF CallFacts, OnRequest
<1>5. CASE \E u \in Users, v \in Users : t = Call("remove", u, v, None, None, 0)
  <2>1. PICK u \in Users, v \in Users : t = Call("remove", u, v, None, None, 0)
    BY <1>5
  <2>2. "remove" \in Called /\ 0 \in Nat
    BY <1>1, <2>1 DEF Called
  <2>3. t \in TxRow
    BY <2>1, <2>2, CallTyped
  <2>4. /\ t.op = "remove" /\ t.user = u /\ t.target = v /\ t.party = None
        /\ t.request = None /\ t.arg = 0 /\ t.fresh = "none" /\ t.todo = Statements("remove")
    BY <2>1 DEF Call, NoTx
  <2> QED BY <1>1, <2>1, <2>2, <2>3, <2>4 DEF CallFacts, OnRequest
<1>6. CASE \E op \in {"cancel", "stop", "abandon"}, u \in Users, r \in Requests, k \in {0, 1} :
           requests[r].state # "none" /\ t = Call(op, u, None, None, r, k)
  <2>1. PICK op \in {"cancel", "stop", "abandon"}, u \in Users, r \in Requests, k \in {0, 1} :
             requests[r].state # "none" /\ t = Call(op, u, None, None, r, k)
    BY <1>6
  <2>2. op \in Called /\ k \in Nat
    BY <1>1, <2>1 DEF Called
  <2>3. t \in TxRow
    BY <2>1, <2>2, CallTyped
  <2>4. /\ t.op = op /\ t.user = u /\ t.target = None /\ t.party = None
        /\ t.request = r /\ t.arg = k /\ t.fresh = "none" /\ t.todo = Statements(op)
    BY <2>1 DEF Call, NoTx
  <2> QED BY <1>1, <2>1, <2>2, <2>3, <2>4 DEF CallFacts, OnRequest
<1>7. CASE \E r \in Requests :
           requests[r].state # "none" /\ t = Call("progress", None, None, None, r, 0)
  <2>1. PICK r \in Requests :
             requests[r].state # "none" /\ t = Call("progress", None, None, None, r, 0)
    BY <1>7
  <2>2. "progress" \in Called /\ 0 \in Nat
    BY <1>1, <2>1 DEF Called
  <2>3. t \in TxRow
    BY <2>1, <2>2, CallTyped
  <2>4. /\ t.op = "progress" /\ t.user = None /\ t.target = None /\ t.party = None
        /\ t.request = r /\ t.arg = 0 /\ t.fresh = "none" /\ t.todo = Statements("progress")
    BY <2>1 DEF Call, NoTx
  <2> QED BY <1>1, <2>1, <2>2, <2>3, <2>4 DEF CallFacts, OnRequest
<1> QED
  <2> DEFINE known   == {r \in Requests : requests[r].state # "none"}
  <2> DEFINE joining ==
        UNION {{Call("join", u, None, p, None, k) : k \in 1..parties[p].invite} :
                 u \in Users, p \in Parties}
  <2>1. \/ t \in {Call("configure", None, None, None, None, n) : n \in Limits}
        \/ t \in {Call(op, u, None, None, None, 0) :
                    op \in {"create", "reset", "leave", "disband", "request"}, u \in Users}
        \/ t \in joining
        \/ t \in {Call("remove", u, v, None, None, 0) : u \in Users, v \in Users}
        \/ t \in {Call(op, u, None, None, r, k) :
                    op \in {"cancel", "stop", "abandon"}, u \in Users, r \in known, k \in {0, 1}}
        \/ t \in {Call("progress", None, None, None, r, 0) : r \in known}
    <3>1. t \in   {Call("configure", None, None, None, None, n) : n \in Limits}
             \cup {Call(op, u, None, None, None, 0) :
                     op \in {"create", "reset", "leave", "disband", "request"}, u \in Users}
             \cup joining
             \cup {Call("remove", u, v, None, None, 0) : u \in Users, v \in Users}
             \cup {Call(op, u, None, None, r, k) :
                     op \in {"cancel", "stop", "abandon"}, u \in Users, r \in known, k \in {0, 1}}
             \cup {Call("progress", None, None, None, r, 0) : r \in known}
      BY DEF Calls
    <3> QED BY <3>1
  <2>2. CASE t \in {Call("configure", None, None, None, None, n) : n \in Limits}
    BY <1>2, <2>2
  <2>3. CASE t \in {Call(op, u, None, None, None, 0) :
                      op \in {"create", "reset", "leave", "disband", "request"}, u \in Users}
    <3>1. \E op \in {"create", "reset", "leave", "disband", "request"}, u \in Users :
            t = Call(op, u, None, None, None, 0)
      BY <2>3
    <3> QED BY <1>3, <3>1
  <2>4. CASE t \in joining
    <3>1. PICK S : S \in {{Call("join", u, None, p, None, k) : k \in 1..parties[p].invite} :
                            u \in Users, p \in Parties}
                   /\ t \in S
      BY <2>4
    <3>2. PICK u \in Users, p \in Parties :
            S = {Call("join", u, None, p, None, k) : k \in 1..parties[p].invite}
      BY <3>1
    <3>3. PICK k \in 1..parties[p].invite : t = Call("join", u, None, p, None, k)
      BY <3>1, <3>2
    <3>4. k \in Nat /\ k > 0
      BY <1>1, <3>3
    <3> QED BY <1>4, <3>3, <3>4
  <2>5. CASE t \in {Call("remove", u, v, None, None, 0) : u \in Users, v \in Users}
    <3>1. \E u \in Users, v \in Users : t = Call("remove", u, v, None, None, 0)
      BY <2>5
    <3> QED BY <1>5, <3>1
  <2>6. CASE t \in {Call(op, u, None, None, r, k) :
                      op \in {"cancel", "stop", "abandon"}, u \in Users, r \in known, k \in {0, 1}}
    <3>1. \E op \in {"cancel", "stop", "abandon"}, u \in Users, r \in known, k \in {0, 1} :
            t = Call(op, u, None, None, r, k)
      BY <2>6
    <3> QED BY <1>6, <3>1
  <2>7. CASE t \in {Call("progress", None, None, None, r, 0) : r \in known}
    BY <1>7, <2>7
  <2> QED BY <2>1, <2>2, <2>3, <2>4, <2>5, <2>6, <2>7

\* A session that changes its row and its locks, while what is committed stays.
LEMMA OwnRow ==
  ASSUME PartyInv, NEW s \in Sessions, UNCHANGED vars,
         NEW x, x \in {NoTx} \cup TxRow, tx' = [tx EXCEPT ![s] = x],
         locks' = [locks EXCEPT ![s] = {}],
         x # NoTx => OnTrack(x) /\ Locked(x) = {} /\ Facts(x)
  PROVE  PartyInv'
<1>1. Inv' /\ \A p \in Parties : parties'[p].invite <= MaxInvites
  BY InvKept DEF PartyInv, vars
<1>2. /\ locks' \in [Sessions -> SUBSET (Rows \X {"update", "share"})]
      /\ tx' \in [Sessions -> {NoTx} \cup TxRow]
      /\ tx'[s] = x /\ locks'[s] = {}
  BY DEF PartyInv, Rows
<1>3. ASSUME NEW v \in Sessions, v # s PROVE tx'[v] = tx[v] /\ locks'[v] = locks[v]
  BY <1>3 DEF PartyInv
<1>4. ASSUME NEW v \in Sessions PROVE (Session(v) /\ (tx[v].op # "none" => Facts(tx[v])))'
  <2>1. CASE v = s
    <3>1. x \in TxRow => x.op # "none"
      BY DEF TxRow, Called
    <3>2. NoTx.op = "none"
      BY DEF NoTx
    <3>3. x # NoTx => Facts(x)'
      BY FactsSame
    <3>4. \A w : w = x => /\ w # NoTx => OnTrack(w) /\ Locked(w) = {} /\ Facts(w)'
      BY <3>3
    <3> QED BY <1>2, <2>1, <3>1, <3>2, <3>4 DEF Session
  <2>2. CASE v # s
    <3>1. PICK w : w = tx[v]
      OBVIOUS
    <3>2. w.op # "none" => Facts(w)'
      BY <3>1, FactsSame DEF PartyInv
    <3> QED BY <1>3, <2>2, <3>1, <3>2 DEF PartyInv, Session
  <2> QED BY <2>1, <2>2
<1>5. LocksCompatible'
  BY <1>2, <1>3 DEF PartyInv, LocksCompatible
<1> QED BY <1>1, <1>2, <1>4, <1>5 DEF PartyInv, Rows

\* Giving up and beginning.
LEMMA RollbackKeeps ==
  ASSUME PartyInv, NEW s \in Sessions, Rollback(s)
  PROVE  PartyInv'
BY OwnRow DEF Rollback, Finish

LEMMA BeginKeeps ==
  ASSUME PartyInv, NEW s \in Sessions, Begin(s)
  PROVE  PartyInv'
<1>1. PICK t \in Calls : (t.op = "remove" => t.user # t.target) /\ tx' = [tx EXCEPT ![s] = t]
  BY DEF Begin
<1>2. PICK P : P = Statements(t.op)
  OBVIOUS
<1>3. P \in Seq(Steps) /\ P # <<>> /\ Head(P) \notin {"lockOwner", "validate"}
  <2>1. t.op \in Called
    BY <1>1, CallsTyped DEF TxRow
  <2> QED BY <1>2, <2>1, StatementsTyped
<1>4. /\ t \in TxRow /\ t.todo = P /\ t.fresh = "none"
      /\ CallFacts(t) /\ (t.op = "progress" => t.party = None)
  BY <1>1, <1>2, CallsTyped
<1>5. ~Consuming(t) /\ Script(t) = P
  BY <1>2, <1>3, <1>4 DEF Consuming, Script
<1>6. Done(t) = {}
  <2>1. Len(P) - Len(t.todo) = 0
    BY <1>3, <1>4
  <2> QED BY <1>5, <2>1 DEF Done
<1>7. OnTrack(t)
  <2>1. PICK n \in 1..Len(P) : n = 1
    BY <1>3
  <2>2. P = SubSeq(P, 1, Len(P))
    BY <1>3
  <2> QED BY <1>4, <1>5, <2>1, <2>2 DEF OnTrack
<1>8. Facts(t) /\ Locked(t) = {}
  BY <1>4, <1>6 DEF Facts, Locked
<1>9. UNCHANGED vars /\ locks' = [locks EXCEPT ![s] = {}]
  <2>1. locks[s] = {} /\ locks' = locks
    BY DEF Begin, Idle, PartyInv, Session
  <2> QED BY <2>1 DEF Begin, PartyInv
<1> QED BY <1>1, <1>4, <1>7, <1>8, <1>9, OwnRow

-----------------------------------------------------------------------------
(* Commits. *)

\* What a transaction that commits knows.
LEMMA AtEnd ==
  ASSUME PartyInv, NEW s \in Sessions, At(s, "commit"), NEW t, t = tx[s]
  PROVE  /\ t.op # "none" /\ Head(t.todo) = "commit" /\ t \in TxRow /\ OnTrack(t)
         /\ t.fresh # "none" <=> "validate" \in Done(t)
         /\ CallFacts(t) /\ locks[s] = Locked(t) /\ Owner(s) = OwnerOf(t)
         /\ \A stm \in Done(t) : Found(t, stm)
<1>1. t.op # "none" /\ Head(t.todo) = "commit" /\ Owner(s) = OwnerOf(t)
  BY DEF At, Idle, Owner, OwnerOf
<1> QED BY <1>1, Current

\* The commits on users and parties, each as one operation of PartyRules.
LEMMA ConfigureCommits ==
  ASSUME PartyInv, NEW s \in Sessions, At(s, "commit"), tx[s].op = "configure", Configured(s)
  PROVE  Next /\ Change(locks[s])
<1>1. PICK t : t = tx[s]
  OBVIOUS
<1>2. Done(t) = {"lockSettings", "checkLargest"}
  BY <1>1, AtEnd, AtCommit
<1>3. t.arg \in Limits /\ <<Settings, "update">> \in locks[s]
  <2>1. CallFacts(t) /\ locks[s] = Locked(t)
    BY <1>1, AtEnd
  <2>2. /\ <<Settings, "update">> \in Locked(t)
    BY <1>2, Held
  <2> QED BY <1>1, <2>1, <2>2 DEF CallFacts
<1>4. Found(t, "checkLargest")
  BY <1>1, <1>2, AtEnd
<1>5. ConfigurePartySize(t.arg)
  BY <1>1, <1>4 DEF Found, ConfigurePartySize, Configured
<1>6. Change(locks[s])
  BY <1>3 DEF Change, Configured
<1> QED BY <1>3, <1>5, <1>6 DEF Next

LEMMA CreateCommits ==
  ASSUME PartyInv, NEW s \in Sessions, At(s, "commit"), tx[s].op = "create", Created(s)
  PROVE  Next /\ Change(locks[s])
<1>1. PICK t : t = tx[s]
  OBVIOUS
<1>2. Done(t) = {"lockUser", "readLimit", "noParty", "noSolo"}
  BY <1>1, AtEnd, AtCommit
<1>3. /\ t.user \in Users
      /\ <<t.user, "update">> \in locks[s] /\ <<Settings, "share">> \in locks[s]
  <2>1. CallFacts(t) /\ locks[s] = Locked(t)
    BY <1>1, AtEnd
  <2>2. /\ <<t.user, "update">> \in Locked(t)
        /\ <<Settings, "share">> \in Locked(t)
    BY <1>2, Held
  <2> QED BY <1>1, <2>1, <2>2 DEF CallFacts
<1>4. Found(t, "noParty") /\ Found(t, "noSolo") /\ Found(t, "readLimit")
  BY <1>1, <1>2, AtEnd
<1>5. members[t.user] = None /\ ~Busy(t.user) /\ limit # 0
  BY <1>4 DEF Found
<1>6. PICK p \in Parties : /\ parties[p].phase = "none"
                           /\ parties' = [parties EXCEPT ![p] =
                                [phase |-> "live", leader |-> t.user, invite |-> 1]]
                           /\ members' = [members EXCEPT ![t.user] = p]
  BY <1>1 DEF Created
<1>7. UNCHANGED <<limit, requests>>
  BY DEF Created
<1>8. CreateParty(t.user, p)
  BY <1>5, <1>6, <1>7 DEF CreateParty
<1>9. Change(locks[s])
  <2>1. members \in [Users -> Parties \cup {None}] /\ parties \in [Parties -> PartyRow]
    BY DEF PartyInv, Inv, TypeOK
  <2>2. \A q \in Parties : parties'[q] = parties[q] \/ parties[q].phase = "none"
    BY <1>6, <2>1
  <2>3. members'[t.user] = p /\ \A u \in Users \ {t.user} : members'[u] = members[u]
    BY <1>3, <1>6, <2>1
  <2>4. p # None
    BY PartyAssumption
  <2> QED BY <1>3, <1>5, <1>6, <1>7, <2>2, <2>3, <2>4 DEF Change
<1> QED BY <1>3, <1>8, <1>9 DEF Next

LEMMA ResetCommits ==
  ASSUME PartyInv, NEW s \in Sessions, At(s, "commit"), tx[s].op = "reset", InviteReset(s)
  PROVE  Next /\ Change(locks[s])
<1>1. PICK t : t = tx[s]
  OBVIOUS
<1>2. Done(t) = {"lockLedParty"}
  BY <1>1, AtEnd, AtCommit
<1>3. Found(t, "lockLedParty")
  BY <1>1, <1>2, AtEnd
<1>4. t.party \in Parties /\ Leads(t.user, t.party)
  BY <1>3 DEF Found
<1>5. t.user \in Users /\ <<t.party, "update">> \in locks[s]
  <2>1. CallFacts(t) /\ locks[s] = Locked(t)
    BY <1>1, AtEnd
  <2>2. /\ <<t.party, "update">> \in Locked(t)
    BY <1>2, <1>4, Held, PartyAssumption
  <2> QED BY <1>1, <1>4, <2>1, <2>2, PartyAssumption DEF CallFacts
<1>6. ResetInvite(t.user, t.party)
  BY <1>1, <1>4 DEF ResetInvite, InviteReset
<1>7. Change(locks[s])
  <2>1. parties \in [Parties -> PartyRow]
    BY DEF PartyInv, Inv, TypeOK
  <2>2. PICK p : p = t.party
    OBVIOUS
  <2>3. parties'[p] = [parties[p] EXCEPT !.invite = @ + 1]
        /\ \A q \in Parties \ {p} : parties'[q] = parties[q]
    BY <1>1, <1>4, <2>1, <2>2 DEF InviteReset
  <2>4. parties'[p].phase = parties[p].phase /\ parties'[p].leader = parties[p].leader
    BY <1>4, <2>1, <2>2, <2>3 DEF PartyRow
  <2>5. UNCHANGED <<members, limit, requests>>
    BY DEF InviteReset
  <2> QED BY <1>4, <1>5, <2>2, <2>3, <2>4, <2>5 DEF Change, Leads, Live
<1> QED BY <1>4, <1>5, <1>6, <1>7 DEF Next

LEMMA JoinCommits ==
  ASSUME PartyInv, NEW s \in Sessions, At(s, "commit"), tx[s].op = "join",
         Belongs(tx[s].user, tx[s].party)
  PROVE  Next /\ Change(locks[s])
<1>1. PICK t : t = tx[s]
  OBVIOUS
<1>2. Done(t) = {"lockUser", "noParty", "noSolo", "lockParty", "checkInvite", "readLimit",
                 "checkRoom"}
  BY <1>1, AtEnd, AtCommit
<1>3. /\ Found(t, "noParty") /\ Found(t, "noSolo") /\ Found(t, "lockParty")
      /\ Found(t, "checkInvite") /\ Found(t, "readLimit") /\ Found(t, "checkRoom")
  BY <1>1, <1>2, AtEnd
<1>4. /\ members[t.user] = None /\ ~Busy(t.user) /\ t.party \in Parties /\ Live(t.party)
      /\ parties[t.party].invite = t.arg /\ Cardinality(MembersOf(t.party)) < limit
  BY <1>3 DEF Found
<1>5. /\ t.user \in Users /\ t.party # None /\ t.arg > 0
      /\ <<t.user, "update">> \in locks[s] /\ <<t.party, "update">> \in locks[s]
      /\ <<Settings, "share">> \in locks[s]
  <2>1. CallFacts(t) /\ locks[s] = Locked(t)
    BY <1>1, AtEnd
  <2>2. /\ <<t.user, "update">> \in Locked(t)
        /\ <<t.party, "update">> \in Locked(t)
        /\ <<Settings, "share">> \in Locked(t)
    BY <1>2, <1>4, Held, PartyAssumption
  <2> QED BY <1>1, <1>4, <2>1, <2>2, PartyAssumption DEF CallFacts
<1>6. JoinParty(t.user, t.party, t.arg)
  BY <1>1, <1>4 DEF JoinParty, Belongs
<1>7. t.arg \in 1..MaxInvites
  <2>1. t.arg <= MaxInvites /\ t.arg \in Nat
    BY <1>4 DEF PartyInv, Inv, TypeOK, PartyRow
  <2> QED BY <1>5, <2>1, PartyAssumption
<1>8. Change(locks[s])
  <2>1. members \in [Users -> Parties \cup {None}]
    BY DEF PartyInv, Inv, TypeOK
  <2>2. members'[t.user] = t.party /\ \A u \in Users \ {t.user} : members'[u] = members[u]
    BY <1>1, <1>5, <2>1 DEF Belongs
  <2>3. UNCHANGED <<parties, limit, requests>>
    BY DEF Belongs
  <2> QED BY <1>4, <1>5, <2>2, <2>3 DEF Change
<1> QED BY <1>4, <1>5, <1>6, <1>7, <1>8 DEF Next

\* A user who is not the leader goes.
LEMMA GoneChanges ==
  ASSUME Inv, NEW L, NEW v \in Users, NEW p \in Parties, members[v] = p, ~Leads(v, p),
         <<v, "update">> \in L, <<p, "update">> \in L, Belongs(v, None)
  PROVE  Next /\ Change(L)
<1>1. p # None
  BY PartyAssumption
<1>2. LeaveParty(v)
  BY <1>1 DEF LeaveParty, Belongs
<1>3. Change(L)
  <2>1. members \in [Users -> Parties \cup {None}]
    BY DEF Inv, TypeOK
  <2>2. members'[v] = None /\ \A u \in Users \ {v} : members'[u] = members[u]
    BY <2>1 DEF Belongs
  <2>3. UNCHANGED <<parties, limit, requests>>
    BY DEF Belongs
  <2> QED BY <1>1, <2>2, <2>3 DEF Change
<1> QED BY <1>2, <1>3 DEF Next

LEMMA LeaveCommits ==
  ASSUME PartyInv, NEW s \in Sessions, At(s, "commit"), tx[s].op = "leave",
         Belongs(tx[s].user, None)
  PROVE  Next /\ Change(locks[s])
<1>1. PICK t : t = tx[s]
  OBVIOUS
<1>2. Done(t) = {"lockUser", "readMembership", "lockParty", "notLeader"}
  BY <1>1, AtEnd, AtCommit
<1>3. Found(t, "readMembership") /\ Found(t, "lockParty") /\ Found(t, "notLeader")
  BY <1>1, <1>2, AtEnd
<1>4. t.party \in Parties /\ Live(t.party) /\ ~Leads(t.user, t.party)
  BY <1>3 DEF Found
<1>5. t.party # None /\ ~Dissolved(t.party)
  BY <1>4, PartyAssumption DEF Live, Dissolved
<1>6. members[t.user] = t.party
  BY <1>1, <1>3, <1>5 DEF Found
<1>7. /\ t.user \in Users
      /\ <<t.user, "update">> \in locks[s] /\ <<t.party, "update">> \in locks[s]
  <2>1. CallFacts(t) /\ locks[s] = Locked(t)
    BY <1>1, AtEnd
  <2>2. /\ <<t.user, "update">> \in Locked(t)
        /\ <<t.party, "update">> \in Locked(t)
    BY <1>2, <1>5, Held
  <2> QED BY <1>1, <1>5, <2>1, <2>2 DEF CallFacts
<1> QED BY <1>1, <1>4, <1>6, <1>7, GoneChanges DEF PartyInv

LEMMA RemoveCommits ==
  ASSUME PartyInv, NEW s \in Sessions, At(s, "commit"), tx[s].op = "remove",
         Belongs(tx[s].target, None)
  PROVE  Next /\ Change(locks[s])
<1>1. PICK t : t = tx[s]
  OBVIOUS
<1>2. Done(t) = {"lockTarget", "lockLedParty", "isMember"}
  BY <1>1, AtEnd, AtCommit
<1>3. Found(t, "lockLedParty") /\ Found(t, "isMember")
  BY <1>1, <1>2, AtEnd
<1>4. t.party \in Parties /\ Leads(t.user, t.party) /\ members[t.target] = t.party
  BY <1>3 DEF Found
<1>5. /\ t.target \in Users /\ t.target # t.user
      /\ <<t.target, "update">> \in locks[s] /\ <<t.party, "update">> \in locks[s]
  <2>1. CallFacts(t) /\ locks[s] = Locked(t)
    BY <1>1, AtEnd
  <2>2. /\ <<t.target, "update">> \in Locked(t)
        /\ <<t.party, "update">> \in Locked(t)
    BY <1>2, <1>4, Held, PartyAssumption
  <2> QED BY <1>1, <1>4, <2>1, <2>2, PartyAssumption DEF CallFacts
<1>6. ~Leads(t.target, t.party)
  BY <1>4, <1>5 DEF Leads
<1> QED BY <1>1, <1>4, <1>5, <1>6, GoneChanges DEF PartyInv

LEMMA DisbandCommits ==
  ASSUME PartyInv, NEW s \in Sessions, At(s, "commit"), tx[s].op = "disband", Disbanded(s)
  PROVE  Next /\ Change(locks[s])
<1>1. PICK t : t = tx[s]
  OBVIOUS
<1>2. Done(t) = {"lockUser", "lockLedParty", "notBusy"}
  BY <1>1, AtEnd, AtCommit
<1>3. Found(t, "lockLedParty") /\ Found(t, "notBusy")
  BY <1>1, <1>2, AtEnd
<1>4. t.party \in Parties /\ Leads(t.user, t.party) /\ ~PartyBusy(t.party)
  BY <1>3 DEF Found
<1>5. t.user \in Users /\ t.party # None /\ <<t.party, "update">> \in locks[s]
  <2>1. CallFacts(t) /\ locks[s] = Locked(t)
    BY <1>1, AtEnd
  <2>2. /\ <<t.party, "update">> \in Locked(t)
    BY <1>2, <1>4, Held, PartyAssumption
  <2> QED BY <1>1, <1>4, <2>1, <2>2, PartyAssumption DEF CallFacts
<1>6. DisbandParty(t.user, t.party)
  BY <1>1, <1>4 DEF DisbandParty, Disbanded
<1>7. Change(locks[s])
  <2>1. PICK p : p = t.party
    OBVIOUS
  <2>2. parties \in [Parties -> PartyRow]
    BY DEF PartyInv, Inv, TypeOK
  <2>3. parties'[p] = [parties[p] EXCEPT !.phase = "dissolved", !.leader = None]
        /\ \A q \in Parties \ {p} : parties'[q] = parties[q]
    BY <1>1, <1>4, <2>1, <2>2 DEF Disbanded
  <2>4. parties'[p].phase = "dissolved"
    BY <1>4, <2>1, <2>2, <2>3 DEF PartyRow
  <2>5. \A u \in Users : members'[u] = IF members[u] = p THEN None ELSE members[u]
    BY <1>1, <2>1 DEF Disbanded
  <2>6. UNCHANGED <<limit, requests>>
    BY DEF Disbanded
  <2> QED BY <1>4, <1>5, <2>1, <2>3, <2>4, <2>5, <2>6 DEF Change, Leads, Live, Dissolved
<1> QED BY <1>4, <1>5, <1>6, <1>7 DEF Next

-----------------------------------------------------------------------------
(* Commits on requests. *)

\* Who led the party of a request that blocks, or owns it alone, may still act on it.
LEMMA ActsStill ==
  ASSUME Inv, NEW t \in TxRow, t.user \in Users, NEW r \in Requests,
         requests[r].state \in Blocking, requests[r].owner = OwnerOf(t),
         t.party # None => Dissolved(t.party) \/ Leads(t.user, t.party)
  PROVE  MayAct(t.user, r)
<1>1. CASE t.party = None
  <2>1. Busy(t.user)
    BY <1>1 DEF Busy, OwnerOf
  <2>2. members[t.user] = None
    BY <2>1 DEF Inv, OnePlace
  <2> QED BY <1>1, <2>2 DEF MayAct, OwnerFor, OwnerOf
<1>2. CASE t.party # None
  <2>1. t.party \in Parties
    BY <1>2 DEF TxRow
  <2>2. PartyBusy(t.party)
    BY <1>2 DEF PartyBusy, OwnerOf
  <2>3. Live(t.party)
    BY <2>1, <2>2 DEF Inv, BusyPartyLives
  <2>4. Leads(t.user, t.party)
    BY <1>2, <2>3 DEF Live, Dissolved
  <2>5. members[t.user] = t.party
    BY <2>1, <2>4 DEF Inv, LeaderIsMember, Leads, MembersOf
  <2> QED BY <1>2, <2>4, <2>5 DEF MayAct, OwnerFor, OwnerOf
<1> QED BY <1>1, <1>2

\* A transaction that submits or cancels has the place of its user before it.
LEMMA PlaceFound ==
  ASSUME Inv, NEW t \in TxRow, t.op \in {"request", "cancel"},
         Found(t, "readMembership"), Found(t, "lockOwner")
  PROVE  members[t.user] = t.party /\ OwnerFor(t.user) = OwnerOf(t)
         /\ (t.party # None => Leads(t.user, t.party))
<1>1. t.party # None => Live(t.party) /\ Leads(t.user, t.party)
  BY DEF Found
<1>2. members[t.user] = t.party
  BY <1>1 DEF Found, Live, Dissolved
<1> QED BY <1>1, <1>2 DEF OwnerFor, OwnerOf

\* A change of the requests.
LEMMA RequestsChange ==
  ASSUME NEW L, UNCHANGED <<members, parties, limit>>,
         \A r \in Requests :
           \/ requests'[r] = requests[r]
           \/ /\ requests[r].state # "none" /\ requests'[r].state # "none"
              /\ <<r, "update">> \in L /\ Weaker(r)
           \/ /\ requests[r].state = "none" /\ requests'[r].state = "waiting"
              /\ \/ <<requests'[r].owner, "update">> \in L
                 \/ <<requests'[r].owner, "share">> \in L
  PROVE  Change(L)
BY DEF Change

\* One request changes and stays.
LEMMA RowChanges ==
  ASSUME Inv, NEW L, UNCHANGED <<members, parties, limit>>, NEW r \in Requests, NEW row,
         requests' = [requests EXCEPT ![r] = row], <<r, "update">> \in L,
         requests[r].state # "none", row.state # "none", row.owner = requests[r].owner,
         row.state \in Blocking => requests[r].state \in Blocking,
         row.held => requests[r].state \in Blocking \/ requests[r].held
  PROVE  Change(L)
<1>1. requests'[r] = row /\ \A x \in Requests \ {r} : requests'[x] = requests[x]
  BY DEF Inv, TypeOK
<1>2. Weaker(r)
  BY <1>1 DEF Weaker
<1> QED BY <1>1, <1>2, RequestsChange

\* A request is added, and another that changes stays.
LEMMA SubmissionChanges ==
  ASSUME Inv, NEW L, UNCHANGED <<members, parties, limit>>,
         NEW reqs \in [Requests -> RequestRow],
         \A x \in Requests :
           \/ reqs[x] = requests[x]
           \/ /\ requests[x].state # "none" /\ reqs[x].state # "none" /\ <<x, "update">> \in L
              /\ reqs[x].owner = requests[x].owner
              /\ reqs[x].state \in Blocking => requests[x].state \in Blocking
              /\ reqs[x].held => requests[x].state \in Blocking \/ requests[x].held,
         NEW o, <<o, "update">> \in L \/ <<o, "share">> \in L, requests' \in Submitted(o, reqs)
  PROVE  Change(L)
<1>1. PICK new : new = [NoRequest EXCEPT !.state = "waiting", !.owner = o]
  OBVIOUS
<1>2. new.owner = o /\ new.state = "waiting"
  BY <1>1 DEF NoRequest
<1>3. PICK q \in Requests : reqs[q].state = "none" /\ requests' = [reqs EXCEPT ![q] = new]
  BY <1>1 DEF Submitted
<1>4. requests'[q] = new /\ \A x \in Requests \ {q} : requests'[x] = reqs[x]
  BY <1>3
<1>5. requests[q].state = "none"
  BY <1>3
<1>6. ASSUME NEW x \in Requests, x # q
      PROVE  \/ requests'[x] = requests[x]
             \/ /\ requests[x].state # "none" /\ requests'[x].state # "none"
                /\ <<x, "update">> \in L /\ Weaker(x)
  BY <1>4, <1>6 DEF Weaker
<1> QED BY <1>2, <1>4, <1>5, <1>6, RequestsChange

\* The commits on requests, each as one operation of PartyRules.
LEMMA RequestCommits ==
  ASSUME PartyInv, NEW s \in Sessions, At(s, "commit"), tx[s].op = "request",
         requests' \in RequestsAfter(s), UNCHANGED <<members, parties, limit>>
  PROVE  Next /\ Change(locks[s])
<1>1. PICK t : t = tx[s]
  OBVIOUS
<1>2. Done(t) = {"lockUser", "readMembership", "lockOwner", "noCurrent", "validate",
                 "lockForeignKey"}
  BY <1>1, AtEnd, AtCommit
<1>3. /\ t \in TxRow /\ CallFacts(t) /\ locks[s] = Locked(t)
      /\ Owner(s) = OwnerOf(t) /\ t.user \in Users
  BY <1>1, AtEnd DEF CallFacts
<1>4. /\ Found(t, "readMembership") /\ Found(t, "lockOwner") /\ Found(t, "noCurrent")
      /\ Found(t, "validate")
  BY <1>1, <1>2, AtEnd
<1>5. members[t.user] = t.party /\ OwnerFor(t.user) = OwnerOf(t)
      /\ (t.party # None => Leads(t.user, t.party))
  BY <1>1, <1>3, <1>4, PlaceFound DEF PartyInv
<1>6. ~Busy(OwnerOf(t)) /\ NotTooLarge(OwnerOf(t))
  BY <1>1, <1>4 DEF Found
<1>7. requests' \in Submitted(OwnerOf(t), requests)
  BY <1>1, <1>3 DEF RequestsAfter
<1>8. CreateUserRequest(t.user)
  BY <1>5, <1>6, <1>7 DEF CreateUserRequest, OwnerOf
<1>9. <<OwnerOf(t), "update">> \in Locked(t)
  BY <1>2, Held DEF OwnerOf
<1>10. requests \in [Requests -> RequestRow]
  BY DEF PartyInv, Inv, TypeOK
<1>11. Change(locks[s])
  BY <1>3, <1>7, <1>9, <1>10, SubmissionChanges DEF PartyInv
<1> QED BY <1>3, <1>8, <1>11 DEF Next

LEMMA CancelCommits ==
  ASSUME PartyInv, NEW s \in Sessions, At(s, "commit"), tx[s].op = "cancel",
         requests' \in RequestsAfter(s), UNCHANGED <<members, parties, limit>>
  PROVE  Next /\ Change(locks[s])
<1>1. PICK t : t = tx[s]
  OBVIOUS
<1>2. Done(t) = {"lockUser", "readMembership", "lockOwner", "lockRequest", "stillWaiting"}
  BY <1>1, AtEnd, AtCommit
<1>3. /\ t \in TxRow /\ CallFacts(t) /\ locks[s] = Locked(t) /\ t.user \in Users
  BY <1>1, AtEnd DEF CallFacts
<1>4. /\ Found(t, "readMembership") /\ Found(t, "lockOwner") /\ Found(t, "lockRequest")
      /\ Found(t, "stillWaiting")
  BY <1>1, <1>2, AtEnd
<1>5. members[t.user] = t.party /\ OwnerFor(t.user) = OwnerOf(t)
      /\ (t.party # None => Leads(t.user, t.party))
  BY <1>1, <1>3, <1>4, PlaceFound DEF PartyInv
<1>6. PICK r \in Requests : r = t.request /\ requests[r].state # "none"
  BY <1>1, <1>3 DEF CallFacts, OnRequest
<1>7. requests[r].owner = OwnerOf(t) /\ requests[r].state = "waiting"
  BY <1>1, <1>4, <1>6 DEF Found
<1>8. requests' = [requests EXCEPT ![r].state = "over"]
  BY <1>1, <1>6 DEF RequestsAfter
<1>9. CancelUserRequest(t.user, r)
  BY <1>5, <1>7, <1>8 DEF CancelUserRequest, MayAct
<1>10. <<r, "update">> \in locks[s]
  BY <1>2, <1>3, <1>6, Held
<1>11. PICK row : row = [requests[r] EXCEPT !.state = "over"]
  OBVIOUS
<1>12. requests[r] \in RequestRow
  BY DEF PartyInv, Inv, TypeOK
<1>13. row.state = "over" /\ row.owner = requests[r].owner /\ row.held = requests[r].held
  BY <1>11, <1>12 DEF RequestRow
<1>14. requests' = [requests EXCEPT ![r] = row]
  BY <1>8, <1>11
<1>15. Change(locks[s])
  BY <1>6, <1>10, <1>13, <1>14, RowChanges DEF PartyInv, Blocking
<1> QED BY <1>3, <1>9, <1>15 DEF Next

LEMMA StopCommits ==
  ASSUME PartyInv, NEW s \in Sessions, At(s, "commit"), tx[s].op = "stop",
         requests' \in RequestsAfter(s), UNCHANGED <<members, parties, limit>>
  PROVE  Next /\ Change(locks[s])
<1>1. PICK t : t = tx[s]
  OBVIOUS
<1>2. Done(t) = {"readMembership", "isLeader", "lockRequest", "recheckOwner", "stillRunning"}
  BY <1>1, AtEnd, AtCommit
<1>3. /\ t \in TxRow /\ CallFacts(t) /\ locks[s] = Locked(t) /\ t.user \in Users
  BY <1>1, AtEnd DEF CallFacts
<1>4. Found(t, "isLeader") /\ Found(t, "lockRequest") /\ Found(t, "stillRunning")
  BY <1>1, <1>2, AtEnd
<1>5. PICK r \in Requests : r = t.request /\ requests[r].state # "none"
  BY <1>1, <1>3 DEF CallFacts, OnRequest
<1>6. /\ requests[r].owner = OwnerOf(t) /\ requests[r].state = "active" /\ requests[r].held
      /\ t.party # None => Dissolved(t.party) \/ Leads(t.user, t.party)
  BY <1>1, <1>4, <1>5 DEF Found
<1>7. MayAct(t.user, r)
  BY <1>3, <1>6, ActsStill DEF PartyInv, Blocking
<1>8. PICK next \in BOOLEAN : next <=> t.arg = 1
  OBVIOUS
<1>9. requests' = [requests EXCEPT ![r].state = "stopping",
                                   ![r].next = IF next THEN "pending" ELSE @]
  BY <1>1, <1>5, <1>8 DEF RequestsAfter
<1>10. StopUserRequest(t.user, r, next)
  BY <1>6, <1>7, <1>9 DEF StopUserRequest
<1>11. <<r, "update">> \in locks[s]
  BY <1>2, <1>3, <1>5, Held
<1>12. PICK row : row = [requests[r] EXCEPT !.state = "stopping",
                                            !.next = IF next THEN "pending" ELSE @]
  OBVIOUS
<1>13. requests \in [Requests -> RequestRow]
  BY DEF PartyInv, Inv, TypeOK
<1>14. row.state = "stopping" /\ row.owner = requests[r].owner /\ row.held = requests[r].held
  BY <1>12, <1>13 DEF RequestRow
<1>15. requests' = [requests EXCEPT ![r] = row]
  BY <1>9, <1>12, <1>13 DEF RequestRow
<1>16. Change(locks[s])
  BY <1>5, <1>6, <1>11, <1>14, <1>15, RowChanges DEF PartyInv, Blocking
<1> QED BY <1>3, <1>10, <1>16 DEF Next

\* The end of a request and its next game, as the commit has it and as the rules do.
LEMMA EndChanges ==
  ASSUME Inv, NEW s \in Sessions, NEW t \in TxRow, t = tx[s], Owner(s) = OwnerOf(t),
         NEW L, NEW r \in Requests, r = t.request, requests[r].owner = OwnerOf(t),
         <<r, "update">> \in L, UNCHANGED <<members, parties, limit>>,
         NEW row \in RequestRow, row.owner = requests[r].owner,
         requests[r].state # "none", row.state # "none",
         row.state \in Blocking => requests[r].state \in Blocking,
         row.held => requests[r].state \in Blocking \/ requests[r].held,
         t.fresh = "allowed" => /\ NotTooLarge(OwnerOf(t))
                                /\ <<OwnerOf(t), "update">> \in L \/ <<OwnerOf(t), "share">> \in L,
         NEW reqs, reqs = [requests EXCEPT ![r] = row], requests' \in Ended(s, reqs)
  PROVE  /\ requests' \in IF t.fresh = "none" THEN {reqs} ELSE Consumed(r, reqs)
         /\ Change(L)
<1>1. requests \in [Requests -> RequestRow]
  BY DEF Inv, TypeOK
<1>2. t.fresh \in {"none", "allowed", "refused"}
  BY DEF TxRow
<1>3. reqs[r] = row
  BY <1>1
<1>4. CASE t.fresh = "none"
  <2>1. requests' = reqs
    BY <1>4 DEF Ended
  <2>2. Change(L)
    BY <2>1, RowChanges
  <2> QED BY <1>4, <2>1, <2>2
<1>5. CASE t.fresh = "refused"
  <2>1. requests' = [reqs EXCEPT ![r].next = "refused"]
    BY <1>5 DEF Ended
  <2>2. PICK end : end = [row EXCEPT !.next = "refused"]
    OBVIOUS
  <2>3. requests' = [requests EXCEPT ![r] = end]
    BY <1>1, <1>3, <2>1, <2>2
  <2>4. end.state = row.state /\ end.owner = row.owner /\ end.held = row.held
    BY <2>2 DEF RequestRow
  <2>5. Change(L)
    BY <2>3, <2>4, RowChanges
  <2> QED BY <1>5, <2>1, <2>5 DEF Consumed
<1>6. CASE t.fresh = "allowed"
  <2>1. PICK end : end = [row EXCEPT !.next = "consumed"]
    OBVIOUS
  <2>2. PICK ended : ended = [reqs EXCEPT ![r].next = "consumed"]
    OBVIOUS
  <2>3. requests' \in Submitted(OwnerOf(t), ended)
    BY <1>6, <2>2 DEF Ended
  <2>4. ended = [requests EXCEPT ![r] = end]
    BY <1>1, <1>3, <2>1, <2>2
  <2>5. end.state = row.state /\ end.owner = row.owner /\ end.held = row.held /\ end \in RequestRow
    BY <2>1 DEF RequestRow
  <2>6. ended \in [Requests -> RequestRow]
    BY <1>1, <2>4, <2>5
  <2>7. ended[r] = end /\ \A x \in Requests \ {r} : ended[x] = requests[x]
    BY <1>1, <2>4
  <2>8. Change(L)
    BY <1>6, <2>3, <2>5, <2>6, <2>7, SubmissionChanges
  <2>9. requests' \in Consumed(r, reqs)
    BY <1>6, <2>2, <2>3 DEF Consumed
  <2> QED BY <1>6, <2>8, <2>9
<1> QED BY <1>2, <1>4, <1>5, <1>6

LEMMA AbandonCommits ==
  ASSUME PartyInv, NEW s \in Sessions, At(s, "commit"), tx[s].op = "abandon",
         requests' \in RequestsAfter(s), UNCHANGED <<members, parties, limit>>
  PROVE  Next /\ Change(locks[s])
<1>1. PICK t : t = tx[s]
  OBVIOUS
<1>2. /\ t \in TxRow /\ CallFacts(t) /\ locks[s] = Locked(t) /\ t.user \in Users
      /\ Owner(s) = OwnerOf(t) /\ (t.fresh # "none" <=> "validate" \in Done(t))
  BY <1>1, AtEnd DEF CallFacts
<1>3. \/ /\ ~Consuming(t)
         /\ Done(t) = {"readMembership", "isLeader", "lockRequest", "recheckOwner",
                       "stillQuarantined"}
      \/ /\ Consuming(t)
         /\ Done(t) = {"readMembership", "isLeader", "lockRequest", "recheckOwner",
                       "stillQuarantined", "lockOwner", "validate", "lockForeignKey"}
  BY <1>1, AtEnd, AtCommit
<1>4. Found(t, "isLeader") /\ Found(t, "lockRequest") /\ Found(t, "stillQuarantined")
  BY <1>1, <1>3, AtEnd
<1>5. PICK r \in Requests : r = t.request /\ requests[r].state # "none"
  BY <1>1, <1>2 DEF CallFacts, OnRequest
<1>6. /\ requests[r].owner = OwnerOf(t) /\ requests[r].state = "quarantined"
      /\ requests[r].next = "paused" <=> Consuming(t)
      /\ t.party # None => Dissolved(t.party) \/ Leads(t.user, t.party)
  BY <1>1, <1>4, <1>5 DEF Found
<1>7. MayAct(t.user, r)
  BY <1>2, <1>6, ActsStill DEF PartyInv, Blocking
<1>8. <<r, "update">> \in locks[s]
  BY <1>2, <1>3, <1>5, Held
<1>9. t.fresh # "none" <=> Consuming(t)
  BY <1>2, <1>3
<1>10. t.fresh = "allowed" =>
         /\ NotTooLarge(OwnerOf(t))
         /\ <<OwnerOf(t), "update">> \in locks[s] \/ <<OwnerOf(t), "share">> \in locks[s]
  <2>1. SUFFICES ASSUME t.fresh = "allowed"
                 PROVE  /\ NotTooLarge(OwnerOf(t))
                        /\ \/ <<OwnerOf(t), "update">> \in Locked(t)
                           \/ <<OwnerOf(t), "share">> \in Locked(t)
    BY <1>2
  <2>2. {"validate", "lockOwner", "lockForeignKey"} \subseteq Done(t)
    BY <1>3, <1>9, <2>1
  <2>3. Found(t, "validate")
    BY <1>1, <2>2, AtEnd
  <2>4. NotTooLarge(OwnerOf(t))
    BY <2>1, <2>3 DEF Found
  <2> QED BY <2>1, <2>2, <2>4, Held DEF OwnerOf
<1>11. PICK row : row = [requests[r] EXCEPT !.state = "over"]
  OBVIOUS
<1>12. PICK reqs : reqs = [requests EXCEPT ![r] = row]
  OBVIOUS
<1>13. reqs = [requests EXCEPT ![r].state = "over"]
  BY <1>11, <1>12
<1>14. requests' \in Ended(s, reqs)
  BY <1>1, <1>5, <1>13 DEF RequestsAfter
<1>15. /\ row \in RequestRow /\ row.state = "over" /\ row.owner = requests[r].owner
       /\ row.held = requests[r].held
  BY <1>11 DEF RequestRow, RequestStates, Blocking, PartyInv, Inv, TypeOK
<1>16. /\ requests' \in IF t.fresh = "none" THEN {reqs} ELSE Consumed(r, reqs)
       /\ Change(locks[s])
  <2>1. row.state # "none" /\ row.state \notin Blocking /\ requests[r].state \in Blocking
    BY <1>6, <1>15 DEF Blocking
  <2>2. Inv
    BY DEF PartyInv
  <2> QED BY <1>1, <1>2, <1>5, <1>6, <1>8, <1>10, <1>12, <1>14, <1>15, <2>1, <2>2, EndChanges
<1>17. AbandonQuarantinedUserRequest(t.user, r)
  BY <1>6, <1>7, <1>9, <1>13, <1>16 DEF AbandonQuarantinedUserRequest
<1> QED BY <1>2, <1>16, <1>17 DEF Next

\* What a move makes of a request.
LEMMA MoveWeakens ==
  ASSUME NEW q \in RequestRow, NEW m \in Moves(q)
  PROVE  /\ q.state # "none" /\ m[1] # "none" /\ m[1] \in RequestStates /\ m[2] \in BOOLEAN
         /\ m[1] \in Blocking => q.state \in Blocking
         /\ m[2] => q.state \in Blocking \/ q.held
<1>1. q.state \in RequestStates /\ q.held \in BOOLEAN
  BY DEF RequestRow
<1>2. /\ <<"active", TRUE>>[1] = "active" /\ <<"active", TRUE>>[2] = TRUE
      /\ <<"over", FALSE>>[1] = "over" /\ <<"over", FALSE>>[2] = FALSE
      /\ <<"quarantined", TRUE>>[1] = "quarantined" /\ <<"quarantined", TRUE>>[2] = TRUE
      /\ <<"active", FALSE>>[1] = "active" /\ <<"active", FALSE>>[2] = FALSE
      /\ <<"stopping", TRUE>>[1] = "stopping" /\ <<"stopping", TRUE>>[2] = TRUE
      /\ <<"quarantined", FALSE>>[1] = "quarantined" /\ <<"quarantined", FALSE>>[2] = FALSE
  OBVIOUS
<1>3. CASE q.state \in {"waiting", "stopping"}
  <2>1. \/ m = <<"active", TRUE>>
        \/ m = <<"over", FALSE>>
        \/ m = <<"quarantined", TRUE>>
    BY <1>3, Zenon DEF Moves
  <2>2. \/ m[1] = "active" /\ m[2] = TRUE
        \/ m[1] = "over" /\ m[2] = FALSE
        \/ m[1] = "quarantined" /\ m[2] = TRUE
    BY <1>2, <2>1, Zenon
  <2> QED BY <1>3, <2>2 DEF Blocking, RequestStates
<1>4. CASE q.state = "active"
  <2>1. \/ m = <<"active", TRUE>>
        \/ m = <<"over", FALSE>>
        \/ m = <<"quarantined", TRUE>>
        \/ m = <<"active", FALSE>>
        \/ m = <<"stopping", TRUE>>
    BY <1>1, <1>4, Zenon DEF Moves
  <2>2. \/ m[1] = "active" /\ m[2] = TRUE
        \/ m[1] = "over" /\ m[2] = FALSE
        \/ m[1] = "quarantined" /\ m[2] = TRUE
        \/ m[1] = "active" /\ m[2] = FALSE
        \/ m[1] = "stopping" /\ m[2] = TRUE
    BY <1>2, <2>1, Zenon
  <2> QED BY <1>1, <1>4, <2>2 DEF Blocking, RequestStates
<1>5. CASE q.state = "quarantined"
  <2>1. \/ m = <<"quarantined", FALSE>>
        \/ m = <<"over", FALSE>>
        \/ m = <<"active", FALSE>>
    BY <1>1, <1>5, Zenon DEF Moves
  <2>2. \/ m[1] = "quarantined" /\ m[2] = FALSE
        \/ m[1] = "over" /\ m[2] = FALSE
        \/ m[1] = "active" /\ m[2] = FALSE
    BY <1>2, <2>1, Zenon
  <2> QED BY <1>1, <1>5, <2>2 DEF Blocking, RequestStates
<1>6. CASE q.state = "over"
  <2>1. q.held /\ m = <<"over", FALSE>>
    BY <1>1, <1>6, Zenon DEF Moves
  <2>2. m[1] = "over" /\ m[2] = FALSE
    BY <1>2, <2>1, Zenon
  <2> QED BY <1>1, <1>6, <2>2 DEF Blocking, RequestStates
<1>7. CASE q.state = "none"
  BY <1>7 DEF Moves
<1> QED BY <1>1, <1>3, <1>4, <1>5, <1>6, <1>7 DEF RequestStates, Blocking

LEMMA ProgressCommits ==
  ASSUME PartyInv, NEW s \in Sessions, At(s, "commit"), tx[s].op = "progress",
         requests' \in RequestsAfter(s), UNCHANGED <<members, parties, limit>>
  PROVE  Next /\ Change(locks[s])
<1>1. PICK t : t = tx[s]
  OBVIOUS
<1>2. /\ t \in TxRow /\ CallFacts(t) /\ locks[s] = Locked(t)
      /\ Owner(s) = OwnerOf(t) /\ (t.fresh # "none" <=> "validate" \in Done(t))
  BY <1>1, AtEnd
<1>3. \/ ~Consuming(t) /\ Done(t) = {"lockRequest", "move"}
      \/ /\ Consuming(t)
         /\ Done(t) = {"lockRequest", "move", "lockOwner", "validate", "lockForeignKey"}
  BY <1>1, AtEnd, AtCommit
<1>4. Found(t, "move")
  BY <1>1, <1>3, AtEnd
<1>5. PICK r \in Requests : r = t.request /\ requests[r].state # "none"
  BY <1>1, <1>2 DEF CallFacts, OnRequest
<1>6. PICK m : m = t.move
  OBVIOUS
<1>7. /\ requests[r].owner = OwnerOf(t) /\ m \in Moves(requests[r])
      /\ Due(r, m) <=> Consuming(t)
  BY <1>4, <1>5, <1>6 DEF Found
<1>8. <<r, "update">> \in locks[s]
  BY <1>2, <1>3, <1>5, Held
<1>9. t.fresh # "none" <=> Consuming(t)
  BY <1>2, <1>3
<1>10. t.fresh = "allowed" =>
         /\ NotTooLarge(OwnerOf(t))
         /\ <<OwnerOf(t), "update">> \in locks[s] \/ <<OwnerOf(t), "share">> \in locks[s]
  <2>1. SUFFICES ASSUME t.fresh = "allowed"
                 PROVE  /\ NotTooLarge(OwnerOf(t))
                        /\ \/ <<OwnerOf(t), "update">> \in Locked(t)
                           \/ <<OwnerOf(t), "share">> \in Locked(t)
    BY <1>2
  <2>2. {"validate", "lockOwner", "lockForeignKey"} \subseteq Done(t)
    BY <1>3, <1>9, <2>1
  <2>3. Found(t, "validate")
    BY <1>1, <2>2, AtEnd
  <2>4. NotTooLarge(OwnerOf(t))
    BY <2>1, <2>3 DEF Found
  <2> QED BY <2>1, <2>2, <2>4, Held DEF OwnerOf
<1>11. requests \in [Requests -> RequestRow]
  BY DEF PartyInv, Inv, TypeOK
<1>12. PICK next : next = IF m[1] = "quarantined" /\ requests[r].next = "pending"
                            THEN "paused" ELSE requests[r].next
  OBVIOUS
<1>13. PICK row : row = [requests[r] EXCEPT !.state = m[1], !.held = m[2], !.next = next]
  OBVIOUS
<1>14. PICK reqs : reqs = [requests EXCEPT ![r] = row]
  OBVIOUS
<1>15. reqs = Moved(r, m)
  BY <1>11, <1>12, <1>13, <1>14 DEF Moved, RequestRow
<1>16. requests' \in Ended(s, reqs)
  BY <1>1, <1>5, <1>6, <1>15 DEF RequestsAfter
<1>17. /\ requests[r].state # "none" /\ m[1] # "none" /\ m[1] \in RequestStates /\ m[2] \in BOOLEAN
       /\ m[1] \in Blocking => requests[r].state \in Blocking
       /\ m[2] => requests[r].state \in Blocking \/ requests[r].held
  <2>1. PICK q \in RequestRow : q = requests[r]
    BY <1>11
  <2>2. m \in Moves(q)
    BY <1>7, <2>1
  <2> QED BY <2>1, <2>2, MoveWeakens
<1>18. /\ row \in RequestRow /\ row.state = m[1] /\ row.owner = requests[r].owner
       /\ row.held = m[2]
  BY <1>11, <1>12, <1>13, <1>17 DEF RequestRow
<1>19. /\ requests' \in IF t.fresh = "none" THEN {reqs} ELSE Consumed(r, reqs)
       /\ Change(locks[s])
  <2>1. /\ row.state # "none" /\ (row.state \in Blocking => requests[r].state \in Blocking)
        /\ row.held => requests[r].state \in Blocking \/ requests[r].held
    BY <1>17, <1>18
  <2>2. Inv
    BY DEF PartyInv
  <2> QED BY <1>1, <1>2, <1>5, <1>7, <1>8, <1>10, <1>14, <1>16, <1>18, <2>1, <2>2, EndChanges
<1>20. Progress(r)
  BY <1>7, <1>9, <1>15, <1>19 DEF Progress
<1> QED BY <1>19, <1>20 DEF Next

\* Whatever commits, commits as one operation of PartyRules, under its locks.
LEMMA Commits ==
  ASSUME PartyInv, NEW s \in Sessions, Commit(s)
  PROVE  Next /\ Change(locks[s])
<1>1. At(s, "commit")
  BY DEF Commit
<1>2. CASE \/ tx[s].op = "configure" /\ Configured(s)
           \/ tx[s].op = "create" /\ Created(s)
           \/ tx[s].op = "reset" /\ InviteReset(s)
           \/ tx[s].op = "join" /\ Belongs(tx[s].user, tx[s].party)
           \/ tx[s].op = "leave" /\ Belongs(tx[s].user, None)
           \/ tx[s].op = "remove" /\ Belongs(tx[s].target, None)
           \/ tx[s].op = "disband" /\ Disbanded(s)
  BY <1>1, <1>2, ConfigureCommits, CreateCommits, ResetCommits, JoinCommits, LeaveCommits,
     RemoveCommits, DisbandCommits
<1>3. CASE requests' \in RequestsAfter(s) /\ UNCHANGED <<members, parties, limit>>
  <2>1. tx[s].op \in {"request", "cancel", "stop", "abandon", "progress"}
    BY <1>3 DEF RequestsAfter
  <2> QED BY <1>1, <1>3, <2>1, RequestCommits, CancelCommits, StopCommits, AbandonCommits,
             ProgressCommits
<1> QED BY <1>2, <1>3 DEF Commit

-----------------------------------------------------------------------------
(* What a transaction has found survives the commits of the others. *)

\* Whoever is not locked stays in place, or loses it with the party.
LEMMA UserKept ==
  ASSUME NEW L, Change(L), NEW u \in Users, <<u, "update">> \notin L
  PROVE  \/ members'[u] = members[u]
         \/ /\ members[u] # None /\ members'[u] = None
            /\ parties'[members[u]].phase = "dissolved"
BY DEF Change

\* A live party that is not locked keeps its row and its members.
LEMMA PartyKept ==
  ASSUME NEW L, Change(L), NEW p \in Parties, Live(p), <<p, "update">> \notin L
  PROVE  /\ parties'[p] = parties[p] /\ MembersOf(p)' = MembersOf(p)
         /\ \A u \in Users : members'[u] = p <=> members[u] = p
<1>1. parties'[p] = parties[p]
  BY DEF Change, Live
<1>2. p # None
  BY PartyAssumption
<1>3. ASSUME NEW u \in Users PROVE members'[u] = p <=> members[u] = p
  BY <1>2 DEF Change, Live
<1>4. MembersOf(p)' = MembersOf(p)
  BY <1>3 DEF MembersOf
<1> QED BY <1>1, <1>3, <1>4

\* Leaders stay until their party dissolves, and it dissolves once and for all.
LEMMA PartyPersists ==
  ASSUME NEW L, Change(L), NEW p \in Parties
  PROVE  /\ Dissolved(p) => Dissolved(p)'
         /\ Live(p) => Dissolved(p)' \/ (Live(p)' /\ parties'[p].leader = parties[p].leader)
BY DEF Change, Dissolved, Live

\* Nobody joins while the settings are not locked.
LEMMA NobodyJoins ==
  ASSUME NEW L, Change(L), <<Settings, "update">> \notin L, <<Settings, "share">> \notin L,
         NEW p \in Parties
  PROVE  MembersOf(p)' \subseteq MembersOf(p)
<1>1. p # None
  BY PartyAssumption
<1>2. ASSUME NEW u \in Users, members'[u] = p PROVE members[u] = p
  BY <1>1, <1>2 DEF Change
<1> QED BY <1>2 DEF MembersOf

\* A request that is not locked keeps its row, and none is deleted.
LEMMA RequestKept ==
  ASSUME NEW L, Change(L), NEW r \in Requests, requests[r].state # "none",
         <<r, "update">> \notin L
  PROVE  requests'[r] = requests[r]
BY DEF Change

LEMMA RequestPersists ==
  ASSUME NEW L, Change(L), NEW r \in Requests, requests[r].state # "none"
  PROVE  requests'[r].state # "none"
BY DEF Change

\* An owner who is not locked gets no request.
LEMMA StaysFree ==
  ASSUME NEW L, Change(L), NEW o, <<o, "update">> \notin L, <<o, "share">> \notin L
  PROVE  /\ ~Busy(o) => ~Busy(o)'
         /\ ~PartyBusy(o) => ~PartyBusy(o)'
<1>1. ASSUME NEW r \in Requests, requests'[r].owner = o
      PROVE  /\ requests[r].owner = o
             /\ requests'[r].state \in Blocking => requests[r].state \in Blocking
             /\ requests'[r].held => requests[r].state \in Blocking \/ requests[r].held
  BY <1>1 DEF Change, Weaker
<1> QED BY <1>1 DEF Busy, PartyBusy

\* What the locks K of one transaction keep from the locks L of another.
Apart(K, L) ==
  \A row \in Rows :
    /\ <<row, "update">> \in K => <<row, "update">> \notin L /\ <<row, "share">> \notin L
    /\ <<row, "share">> \in K => <<row, "update">> \notin L

\* Sessions keep their locks apart.
LEMMA LocksApart ==
  ASSUME LocksCompatible, NEW s \in Sessions, NEW v \in Sessions, s # v
  PROVE  Apart(locks[v], locks[s])
BY DEF LocksCompatible, Apart, Rows

\* What a statement has found survives the commit of another transaction.
LEMMA FoundStays ==
  ASSUME NEW t \in TxRow, OnTrack(t), Facts(t), NEW L, Change(L), Apart(Locked(t), L),
         NEW stm \in Done(t)
  PROVE  Found(t, stm)'
<1>1. /\ t.fresh # "none" <=> "validate" \in Done(t)
      /\ CallFacts(t) /\ \A other \in Done(t) : Found(t, other)
  BY DEF Facts
<1>2. PICK u : u = t.user
  OBVIOUS
<1>3. PICK p : p = t.party
  OBVIOUS
<1>4. u \in Users \cup {None} /\ p \in Parties \cup {None} /\ t.target \in Users \cup {None}
      /\ None \notin Parties /\ None \notin Users /\ Users \cap Parties = {}
  BY <1>2, <1>3, PartyAssumption DEF TxRow
<1>5. "lockUser" \in Done(t) =>
        u \in Users /\ <<u, "update">> \notin L /\ <<u, "share">> \notin L
  <2>1. "lockUser" \in Done(t) => u \in Users /\ <<u, "update">> \in Locked(t)
    <3>1. "lockUser" \in Done(t) => t.op \notin {"configure", "progress"}
      BY <1>1, Order
    <3> QED BY <1>1, <1>2, <3>1, Held DEF CallFacts
  <2> QED BY <2>1 DEF Apart, Rows
<1>6. Done(t) \cap {"lockParty", "lockLedParty", "lockOwner"} # {} /\ p # None =>
        /\ p \in Parties /\ Live(p)
        /\ <<p, "update">> \notin L /\ <<p, "share">> \notin L
  <2>1. SUFFICES ASSUME Done(t) \cap {"lockParty", "lockLedParty", "lockOwner"} # {}, p # None
                 PROVE  /\ p \in Parties /\ Live(p)
                        /\ <<p, "update">> \notin L /\ <<p, "share">> \notin L
    OBVIOUS
  <2>2. p \in Parties /\ <<p, "update">> \in Locked(t)
    BY <1>3, <1>4, <2>1, Held
  <2>3. \/ Found(t, "lockParty") \/ Found(t, "lockLedParty") \/ Found(t, "lockOwner")
    BY <1>1, <2>1
  <2>4. Live(p)
    BY <1>3, <2>1, <2>3 DEF Found, Leads
  <2> QED BY <2>2, <2>4 DEF Apart, Rows
<1>7. "lockRequest" \in Done(t) =>
        t.request \in Requests /\ requests'[t.request] = requests[t.request]
  <2>1. SUFFICES ASSUME "lockRequest" \in Done(t)
                 PROVE  t.request \in Requests /\ requests'[t.request] = requests[t.request]
    OBVIOUS
  <2>2. t.request \in Requests /\ requests[t.request].state # "none"
    BY <1>1, <2>1, Order DEF CallFacts
  <2>3. <<t.request, "update">> \notin L
    BY <2>1, <2>2, Held DEF Apart, Rows
  <2> QED BY <2>2, <2>3, RequestKept
<1>8. Found(t, stm)
  BY <1>1
<1>9. CASE stm \in {"noParty", "noSolo"}
  <2>1. "lockUser" \in Done(t)
    BY <1>1, <1>9, Order
  <2> QED BY <1>2, <1>5, <1>8, <1>9, <2>1, UserKept, StaysFree DEF Found
<1>10. CASE stm = "readMembership"
  <2>1. t.op \in {"leave", "request", "cancel"} => "lockUser" \in Done(t)
    BY <1>1, <1>10, Order
  <2>2. CASE p = None
    BY <1>2, <1>3, <1>5, <1>8, <1>10, <2>1, <2>2, UserKept DEF Found
  <2>3. CASE p # None
    <3>1. p \in Parties
      BY <1>4, <2>3
    <3>2. CASE Dissolved(p)
      <4>1. Dissolved(p)'
        BY <3>1, <3>2, PartyPersists
      <4> QED BY <1>3, <1>10, <2>3, <4>1 DEF Found
    <3>3. CASE Live(p) /\ (t.op \in {"leave", "request", "cancel"} => members[u] = p)
      <4>1. Dissolved(p)' \/ Live(p)'
        BY <3>1, <3>3, PartyPersists
      <4>2. t.op \in {"leave", "request", "cancel"} => Dissolved(p)' \/ members'[u] = p
        BY <1>5, <2>1, <2>3, <3>3, UserKept DEF Dissolved
      <4> QED BY <1>2, <1>3, <1>10, <2>3, <4>1, <4>2 DEF Found
    <3> QED BY <1>2, <1>3, <1>8, <1>10, <2>3, <3>2, <3>3 DEF Found
  <2> QED BY <2>2, <2>3
<1>11. CASE stm \in {"lockParty", "lockLedParty", "lockOwner"}
  <2>1. CASE p = None
    <3>1. stm = "lockOwner"
      BY <1>3, <1>4, <1>8, <1>11, <2>1 DEF Found
    <3> QED BY <1>3, <2>1, <3>1 DEF Found
  <2>2. CASE p # None
    <3>1. p \in Parties /\ Live(p) /\ parties'[p] = parties[p]
      BY <1>6, <1>11, <2>2, PartyKept
    <3> QED BY <1>3, <1>8, <1>11, <3>1 DEF Found, Live, Leads
  <2> QED BY <2>1, <2>2
<1>12. CASE stm = "isLeader"
  <2>1. CASE p = None
    BY <1>3, <1>12, <2>1 DEF Found
  <2>2. CASE p # None
    <3>1. Dissolved(p) \/ Leads(u, p)
      BY <1>2, <1>3, <1>8, <1>12, <2>2 DEF Found
    <3>2. Dissolved(p)' \/ Leads(u, p)'
      BY <1>4, <2>2, <3>1, PartyPersists DEF Leads
    <3> QED BY <1>2, <1>3, <1>12, <3>2 DEF Found
  <2> QED BY <2>1, <2>2
<1>13. CASE stm \in {"notLeader", "checkInvite", "isMember", "notBusy", "checkRoom"}
  <2>1. "lockParty" \in Done(t) \/ "lockLedParty" \in Done(t)
    BY <1>1, <1>13, Order
  <2>2. Found(t, "lockParty") \/ Found(t, "lockLedParty")
    BY <1>1, <2>1
  <2>3. p \in Parties /\ p # None
    BY <1>3, <1>4, <2>2 DEF Found
  <2>4. Live(p) /\ <<p, "update">> \notin L /\ <<p, "share">> \notin L
    BY <1>6, <2>1, <2>3
  <2>5. /\ parties'[p] = parties[p] /\ MembersOf(p)' = MembersOf(p)
        /\ \A x \in Users : members'[x] = p <=> members[x] = p
        /\ ~PartyBusy(p) => ~PartyBusy(p)'
    BY <2>3, <2>4, PartyKept, StaysFree
  <2>6. CASE stm \in {"notLeader", "checkInvite", "notBusy", "checkRoom"}
    BY <1>3, <1>8, <2>5, <2>6 DEF Found, Leads, Live
  <2>7. CASE stm = "isMember"
    <3>1. t.target \in Users
      <4>1. t.op = "remove"
        BY <1>1, <2>7, Order
      <4> QED BY <1>1, <4>1 DEF CallFacts
    <3> QED BY <1>3, <1>8, <2>5, <2>7, <3>1 DEF Found
  <2> QED BY <1>13, <2>6, <2>7
<1>14. CASE stm = "readLimit"
  <2>1. <<Settings, "update">> \notin L
    BY <1>14, Held DEF Apart, Rows
  <2>2. limit' = limit
    BY <2>1 DEF Change
  <2> QED BY <1>8, <1>14, <2>2 DEF Found
<1>15. CASE stm = "checkLargest"
  <2>1. "lockSettings" \in Done(t)
    BY <1>1, <1>15, Order
  <2>2. <<Settings, "update">> \notin L /\ <<Settings, "share">> \notin L
    BY <2>1, Held DEF Apart, Rows
  <2>3. ASSUME NEW o \in Parties PROVE Cardinality(MembersOf(o)') <= t.arg
    <3>1. MembersOf(o)' \subseteq MembersOf(o)
      BY <2>2, NobodyJoins
    <3>2. IsFiniteSet(MembersOf(o))
      BY PartyAssumption, FS_Subset DEF MembersOf
    <3>3. Cardinality(MembersOf(o)') <= Cardinality(MembersOf(o))
          /\ Cardinality(MembersOf(o)') \in Nat /\ Cardinality(MembersOf(o)) \in Nat
      BY <3>1, <3>2, FS_Subset, FS_CardinalityType
    <3>4. Cardinality(MembersOf(o)) <= t.arg /\ t.arg \in Nat
      BY <1>8, <1>15 DEF Found, TxRow
    <3> QED BY <3>3, <3>4
  <2> QED BY <1>15, <2>3 DEF Found
<1>16. CASE stm = "noCurrent"
  <2>1. t.op = "request" /\ {"readMembership", "lockOwner", "lockUser"} \subseteq Done(t)
    BY <1>1, <1>16, Order
  <2>2. PICK o : o = OwnerOf(t)
    OBVIOUS
  <2>3. <<o, "update">> \notin L /\ <<o, "share">> \notin L
    BY <1>2, <1>3, <1>5, <1>6, <2>1, <2>2 DEF OwnerOf
  <2>4. ~Busy(o) => ~Busy(o)'
    BY <2>3, StaysFree
  <2> QED BY <1>8, <1>16, <2>2, <2>4 DEF Found, OwnerOf
<1>17. CASE stm = "validate"
  <2>1. "lockOwner" \in Done(t)
    BY <1>1, <1>17, Order
  <2>2. PICK o : o = OwnerOf(t)
    OBVIOUS
  <2>3. NotTooLarge(o) => NotTooLarge(o)'
    <3>1. CASE p = None
      <4>1. o \notin Parties
        BY <1>2, <1>3, <1>4, <2>2, <3>1 DEF OwnerOf
      <4> QED BY <4>1 DEF NotTooLarge
    <3>2. CASE p # None
      <4>1. o = p
        BY <1>3, <2>2, <3>2 DEF OwnerOf
      <4>2. MembersOf(p)' = MembersOf(p)
        BY <1>6, <2>1, <3>2, PartyKept
      <4> QED BY <4>1, <4>2 DEF NotTooLarge
    <3> QED BY <3>1, <3>2
  <2> QED BY <1>8, <1>17, <2>2, <2>3 DEF Found, OwnerOf
<1>18. CASE stm \in {"lockRequest", "stillWaiting", "stillRunning", "stillQuarantined", "move"}
  <2>1. "lockRequest" \in Done(t)
    BY <1>1, <1>18, Order
  <2>2. PICK r : r = t.request /\ requests'[r] = requests[r]
    BY <1>7, <2>1
  <2>3. Due(r, t.move)' <=> Due(r, t.move)
    BY <2>2 DEF Due
  <2>4. Consuming(t)' <=> Consuming(t)
    BY DEF Consuming
  <2> QED BY <1>8, <1>18, <2>2, <2>3, <2>4 DEF Found, OwnerOf
<1>19. CASE stm \notin {"noParty", "noSolo", "readMembership", "lockParty", "lockLedParty",
                        "lockOwner", "isLeader", "notLeader", "isMember", "notBusy",
                        "checkInvite", "readLimit", "checkRoom", "checkLargest", "noCurrent",
                        "validate", "lockRequest", "stillWaiting", "stillRunning",
                        "stillQuarantined", "move"}
  BY <1>19 DEF Found
<1> QED BY <1>9, <1>10, <1>11, <1>12, <1>13, <1>14, <1>15, <1>16, <1>17, <1>18, <1>19

\* Operations of PartyRules keep the bound on invites.
LEMMA InvitesBounded ==
  ASSUME PartyInv, Next
  PROVE  \A p \in Parties : parties'[p].invite <= MaxInvites
<1>1. /\ parties \in [Parties -> PartyRow] /\ MaxInvites \in Nat \ {0}
      /\ \A p \in Parties : parties[p].invite <= MaxInvites
  BY PartyAssumption DEF PartyInv, Inv, TypeOK
<1>2. CASE UNCHANGED parties
  BY <1>1, <1>2
<1>3. ASSUME NEW u \in Users, NEW p \in Parties, CreateParty(u, p)
      PROVE  \A q \in Parties : parties'[q].invite <= MaxInvites
  BY <1>1, <1>3 DEF CreateParty
<1>4. ASSUME NEW u \in Users, NEW p \in Parties, ResetInvite(u, p)
      PROVE  \A q \in Parties : parties'[q].invite <= MaxInvites
  <2>1. /\ parties' = [parties EXCEPT ![p].invite = @ + 1]
        /\ parties[p].invite < MaxInvites /\ parties[p].invite \in Nat
    BY <1>1, <1>4 DEF ResetInvite, PartyRow
  <2>2. parties'[p].invite = parties[p].invite + 1
        /\ \A q \in Parties \ {p} : parties'[q] = parties[q]
    BY <1>1, <2>1 DEF PartyRow
  <2> QED BY <1>1, <2>1, <2>2
<1>5. ASSUME NEW u \in Users, NEW p \in Parties, DisbandParty(u, p)
      PROVE  \A q \in Parties : parties'[q].invite <= MaxInvites
  <2>1. parties' = [parties EXCEPT ![p].phase = "dissolved", ![p].leader = None]
    BY <1>5 DEF DisbandParty
  <2>2. parties'[p].invite = parties[p].invite
        /\ \A q \in Parties \ {p} : parties'[q] = parties[q]
    BY <1>1, <2>1 DEF PartyRow
  <2> QED BY <1>1, <2>2
<1>6. \/ UNCHANGED parties
      \/ \E u \in Users, p \in Parties :
           CreateParty(u, p) \/ ResetInvite(u, p) \/ DisbandParty(u, p)
  BY DEF Next, ConfigurePartySize, JoinParty, LeaveParty, CreateUserRequest, CancelUserRequest,
         StopUserRequest, AbandonQuarantinedUserRequest, Progress
<1> QED BY <1>2, <1>3, <1>4, <1>5, <1>6

\* A commit keeps the invariant: its own session ends, the others keep their facts.
LEMMA CommitKeeps ==
  ASSUME PartyInv, NEW s \in Sessions, Commit(s)
  PROVE  PartyInv'
<1>1. Next /\ Change(locks[s]) /\ Finish(s)
  BY Commits DEF Commit
<1>2. Inv'
  BY <1>1, InvKept DEF PartyInv
<1>3. \A p \in Parties : parties'[p].invite <= MaxInvites
  BY <1>1, InvitesBounded
<1>4. /\ locks' \in [Sessions -> SUBSET (Rows \X {"update", "share"})]
      /\ tx' \in [Sessions -> {NoTx} \cup TxRow]
      /\ tx'[s] = NoTx /\ locks'[s] = {}
  BY <1>1 DEF PartyInv, Rows, Finish
<1>5. ASSUME NEW v \in Sessions, v # s PROVE tx'[v] = tx[v] /\ locks'[v] = locks[v]
  BY <1>1, <1>5 DEF PartyInv, Finish
<1>6. ASSUME NEW v \in Sessions PROVE (Session(v) /\ (tx[v].op # "none" => Facts(tx[v])))'
  <2>1. CASE v = s
    <3>1. NoTx.op = "none"
      BY DEF NoTx
    <3> QED BY <1>4, <2>1, <3>1 DEF Session
  <2>2. CASE v # s
    <3>1. PICK t : t = tx[v]
      OBVIOUS
    <3>2. t.op # "none" => Facts(t)'
      <4>1. SUFFICES ASSUME t.op # "none" PROVE Facts(t)'
        OBVIOUS
      <4>2. t \in TxRow /\ OnTrack(t) /\ Facts(t) /\ locks[v] = Locked(t)
        BY <3>1, <4>1, Current
      <4>3. Apart(Locked(t), locks[s])
        BY <2>2, <4>2, LocksApart DEF PartyInv
      <4>4. ASSUME NEW stm \in Done(t) PROVE Found(t, stm)'
        BY <1>1, <4>2, <4>3, FoundStays
      <4>5. CallFacts(t)'
        <5>1. CallFacts(t)
          BY <4>2 DEF Facts
        <5> QED BY <1>1, <5>1, RequestPersists DEF CallFacts
      <4>6. Done(t)' = Done(t)
        BY DEF Done, Script, Consuming
      <4> QED BY <4>2, <4>4, <4>5, <4>6 DEF Facts
    <3> QED BY <1>5, <2>2, <3>1, <3>2 DEF PartyInv, Session
  <2> QED BY <2>1, <2>2
<1>7. LocksCompatible'
  BY <1>4, <1>5 DEF PartyInv, LocksCompatible
<1> QED BY <1>2, <1>3, <1>4, <1>6, <1>7 DEF PartyInv, Rows

-----------------------------------------------------------------------------
(* The theorems. *)

\* The invariant holds at first and is kept by every step.
LEMMA PartyInvInitially == PartyInit => PartyInv
<1>1. SUFFICES ASSUME PartyInit PROVE PartyInv
  OBVIOUS
<1>2. Inv
  BY <1>1, InvInitially DEF PartyInit
<1>3. \A p \in Parties : parties[p].invite <= MaxInvites
  BY <1>1, PartyAssumption DEF PartyInit, Init, NoParty
<1>4. /\ tx \in [Sessions -> {NoTx} \cup TxRow]
      /\ locks \in [Sessions -> SUBSET (Rows \X {"update", "share"})]
  BY <1>1 DEF PartyInit
<1>5. LocksCompatible
  BY <1>1 DEF PartyInit, LocksCompatible
<1>6. \A s \in Sessions : Session(s) /\ tx[s].op = "none"
  BY <1>1 DEF PartyInit, Session, NoTx
<1> QED BY <1>2, <1>3, <1>4, <1>5, <1>6 DEF PartyInv, Rows

LEMMA PartyInvKept == PartyInv /\ [PartyNext]_partyVars => PartyInv'
<1>1. SUFFICES ASSUME PartyInv, [PartyNext]_partyVars PROVE PartyInv'
  OBVIOUS
<1>2. CASE UNCHANGED partyVars
  <2>1. Inv'
    BY <1>1, <1>2, InvKept DEF PartyInv, partyVars
  <2>2. UNCHANGED vars /\ UNCHANGED <<tx, locks>> /\ UNCHANGED parties
    BY <1>2 DEF partyVars, vars
  <2>3. ASSUME NEW s \in Sessions PROVE (Session(s) /\ (tx[s].op # "none" => Facts(tx[s])))'
    <3>1. PICK t : t = tx[s]
      OBVIOUS
    <3>2. t.op # "none" => Facts(t)'
      BY <1>1, <2>2, <3>1, FactsSame DEF PartyInv
    <3> QED BY <1>1, <2>2, <3>1, <3>2 DEF PartyInv, Session
  <2>4. LocksCompatible'
    BY <1>1, <2>2 DEF PartyInv, LocksCompatible
  <2> QED BY <1>1, <2>1, <2>2, <2>3, <2>4 DEF PartyInv
<1>3. CASE PartyNext
  <2>1. PICK s \in Sessions :
          \/ Begin(s) \/ Rollback(s) \/ Commit(s)
          \/ LockUser(s) \/ LockTarget(s) \/ LockSettings(s) \/ ReadMembership(s)
          \/ NoPartyYet(s) \/ NoSolo(s) \/ LockParty(s) \/ LockLedParty(s) \/ LockOwner(s)
          \/ IsLeader(s) \/ NotLeader(s) \/ IsMember(s) \/ NotBusy(s) \/ CheckInvite(s)
          \/ ReadLimit(s) \/ CheckRoom(s) \/ CheckLargest(s) \/ NoCurrent(s) \/ Validate(s)
          \/ LockForeignKey(s) \/ LockRequest(s) \/ RecheckOwner(s)
          \/ StillWaiting(s) \/ StillRunning(s) \/ StillQuarantined(s) \/ Move(s)
    BY <1>3 DEF PartyNext
  <2> QED BY <1>1, <2>1, BeginKeeps, RollbackKeeps, CommitKeeps, LooksKeep, ReadMembershipKeeps,
             ReadLimitKeeps, LockLedPartyKeeps, ValidateKeeps, StillQuarantinedKeeps, MoveKeeps
<1> QED BY <1>1, <1>2, <1>3

\* Rows and sessions keep to their types, locks never conflict, and what a
\* transaction has found under its locks is still so at every later moment.
THEOREM PartyInvHolds == PartySpec => []PartyInv
BY PartyInvInitially, PartyInvKept, PTL DEF PartySpec

\* Every step of the transactions that changes what is committed is a step of the
\* rules.
LEMMA StepKeepsRules == PartyInv /\ [PartyNext]_partyVars => [Next]_vars
<1>1. SUFFICES ASSUME PartyInv, [PartyNext]_partyVars PROVE [Next]_vars
  OBVIOUS
<1>2. \/ UNCHANGED vars
      \/ \E s \in Sessions : Commit(s)
  BY <1>1 DEF partyVars, PartyNext, Begin, Rollback, LockUser, LockTarget, LockSettings,
              ReadMembership, NoPartyYet, NoSolo, LockParty, LockLedParty, LockOwner, IsLeader,
              NotLeader, IsMember, NotBusy, CheckInvite, ReadLimit, CheckRoom, CheckLargest,
              NoCurrent, Validate, LockForeignKey, LockRequest, RecheckOwner, StillWaiting,
              StillRunning, StillQuarantined, Move, Execute
<1> QED BY <1>1, <1>2, Commits

\* The transactions implement the rules: however the statements of transactions
\* interleave, each commit has the effect of one operation of PartyRules on what is
\* committed at that moment.
THEOREM TransactionsKeepRules == PartySpec => RulesKept
<1>1. PartyInit => Init
  BY DEF PartyInit
<1> QED BY <1>1, PartyInvHolds, StepKeepsRules, PTL DEF PartySpec, RulesKept, Spec

\* Hence under concurrent transactions nobody has two places or two blocking
\* requests, busy parties live, leaders are members and no party outgrows the size.
THEOREM RulesHoldForTransactions ==
  PartySpec => [](OnePlace /\ OneBlockingRequest /\ BusyPartyLives /\ LeaderIsMember /\ WithinLimit)
<1>1. PartyInv => OnePlace /\ OneBlockingRequest /\ BusyPartyLives /\ LeaderIsMember /\ WithinLimit
  BY DEF PartyInv, Inv
<1> QED BY <1>1, PartyInvHolds, PTL

\* Who is about to join has the invite that is current: the lock on the party, taken
\* before the invite is compared, keeps a reset out until the commit.
THEOREM InviteStaysCurrent == PartySpec => []InviteIsCurrent
<1>1. ASSUME PartyInv PROVE InviteIsCurrent
  <2>1. SUFFICES ASSUME NEW s \in Sessions, At(s, "commit"), tx[s].op = "join"
                 PROVE  tx[s].arg = parties[tx[s].party].invite
    BY DEF InviteIsCurrent
  <2>2. PICK t : t = tx[s]
    OBVIOUS
  <2>3. "checkInvite" \in Done(t)
    BY <1>1, <2>1, <2>2, AtEnd, AtCommit
  <2>4. Found(t, "checkInvite")
    BY <1>1, <2>1, <2>2, <2>3, AtEnd
  <2> QED BY <2>2, <2>4 DEF Found
<1> QED BY <1>1, PartyInvHolds, PTL

-----------------------------------------------------------------------------
(* Waiting.  Leaving CancelUserRequest aside, whoever waits for a user, a    *)
(* request or the settings exclusively holds nothing that others wait for;   *)
(* then follow those who submit the next game of a user, who wait for those  *)
(* who have users, who wait for those who have parties, who wait for the     *)
(* settings, whose holder waits for nobody.                                  *)

NoCancel == \A s \in Sessions : tx[s].op # "cancel"

\* A session that others wait for.
LEMMA Waited ==
  ASSUME PartyInv, NEW s \in Sessions, NEW h \in WaitsFor(s)
  PROVE  /\ h \in Sessions /\ h # s /\ locks[h] # {} /\ tx[h].op # "none"
         /\ \E row, m, n : <<row, m>> \in Wants(s) /\ <<row, n>> \in locks[h] /\ Conflict(n, m)
<1>1. PICK l \in Wants(s) : h \in Holders(s, l[1], l[2])
  BY DEF WaitsFor
<1>2. h \in Sessions \ {s}
  BY <1>1 DEF Holders
<1>3. PICK k \in locks[h] : k[1] = l[1] /\ Conflict(k[2], l[2])
  BY <1>1 DEF Holders
<1>4. k \in Rows \X {"update", "share"}
  BY <1>2 DEF PartyInv, Rows
<1>5. k = <<k[1], k[2]>>
  BY <1>4
<1>6. l = <<l[1], l[2]>>
  BY <1>1 DEF Wants
<1>7. tx[h].op # "none"
  BY <1>2, <1>3 DEF PartyInv, Session
<1> QED BY <1>1, <1>2, <1>3, <1>5, <1>6, <1>7

\* Who holds what.
LEMMA Holding ==
  ASSUME NEW t \in TxRow, "lockRequest" \in Done(t) => t.request \in Requests
  PROVE  /\ <<Settings, "update">> \in Locked(t) => "lockSettings" \in Done(t)
         /\ \A p \in Parties, m \in {"update", "share"} : <<p, m>> \in Locked(t) =>
              t.party = p /\ Done(t) \cap {"lockParty", "lockLedParty", "lockOwner"} # {}
         /\ \A u \in Users \cup {None} : <<u, "update">> \in Locked(t) =>
              "lockUser" \in Done(t) \/ "lockTarget" \in Done(t)
<1>1. /\ t.user \in Users \cup {None} /\ t.target \in Users \cup {None}
      /\ t.party \in Parties \cup {None} /\ t.request \in Requests \cup {None}
  BY DEF TxRow
<1>2. ASSUME <<Settings, "update">> \in Locked(t) PROVE "lockSettings" \in Done(t)
  <2>1. PICK stm \in Done(t) : <<Settings, "update">> \in Taken(t, stm)
    BY <1>2 DEF Locked
  <2>2. stm = "lockSettings"
    BY <1>1, <2>1, RowsAssumption DEF Taken
  <2> QED BY <2>1, <2>2
<1>3. ASSUME NEW p \in Parties, NEW m \in {"update", "share"}, <<p, m>> \in Locked(t)
      PROVE  t.party = p /\ Done(t) \cap {"lockParty", "lockLedParty", "lockOwner"} # {}
  <2>1. PICK stm \in Done(t) : <<p, m>> \in Taken(t, stm)
    BY <1>3 DEF Locked
  <2>2. stm \in {"lockParty", "lockLedParty", "lockOwner"} /\ t.party = p
    BY <1>1, <2>1, RowsAssumption, PartyAssumption DEF Taken
  <2> QED BY <2>1, <2>2
<1>4. ASSUME NEW u \in Users \cup {None}, <<u, "update">> \in Locked(t)
      PROVE  "lockUser" \in Done(t) \/ "lockTarget" \in Done(t)
  <2>1. PICK stm \in Done(t) : <<u, "update">> \in Taken(t, stm)
    BY <1>4 DEF Locked
  <2>2. stm \in {"lockUser", "lockTarget"}
    BY <1>1, <2>1, RowsAssumption, PartyAssumption DEF Taken
  <2> QED BY <2>1, <2>2
<1> QED BY <1>2, <1>3, <1>4

\* At which statements sessions wait.
LEMMA Waiting ==
  ASSUME PartyInv, NEW s \in Sessions, NEW t, t = tx[s], WaitsFor(s) # {}
  PROVE  /\ t.op # "none"
         /\ Head(t.todo) \in {"lockSettings", "lockUser", "lockTarget", "lockRequest",
                              "lockParty", "lockLedParty", "lockOwner", "readLimit", "validate",
                              "lockForeignKey"}
         /\ Head(t.todo) = "lockForeignKey" => t.party = None /\ Wants(s) = {<<t.user, "share">>}
<1>1. Wants(s) # {}
  BY DEF WaitsFor
<1> QED BY <1>1 DEF Wants, At, Idle

\* At the statements that open a transaction nothing is locked.
LEMMA HoldsNothing ==
  ASSUME PartyInv, NoCancel, NEW s \in Sessions, NEW t, t = tx[s], t.op # "none",
         Head(t.todo) \in {"lockSettings", "lockUser", "lockTarget", "lockRequest"}
  PROVE  locks[s] = {}
<1>1. /\ t \in TxRow /\ OnTrack(t) /\ locks[s] = Locked(t)
      /\ t.fresh # "none" <=> "validate" \in Done(t)
  BY Current
<1>2. Done(t) = {} \/ Done(t) = {"readMembership", "isLeader"}
  BY <1>1, Stages DEF NoCancel
<1>3. Locked(t) = {}
  BY <1>2 DEF Locked, Taken
<1> QED BY <1>1, <1>3

\* What those who hold a row others wait for may wait for themselves.
LEMMA HoldersWait ==
  ASSUME PartyInv, NoCancel, NEW h \in Sessions, WaitsFor(h) # {}, NEW t, t = tx[h]
  PROVE  /\ <<Settings, "update">> \notin locks[h]
         /\ \A p \in Parties, m \in {"update", "share"} : <<p, m>> \in locks[h] =>
              Head(t.todo) \in {"readLimit", "validate"}
         /\ \A u \in Users \cup {None} : <<u, "update">> \in locks[h] =>
              Head(t.todo) \in {"readLimit", "validate", "lockParty", "lockLedParty", "lockOwner"}
<1>1. /\ t.op # "none" /\ t \in TxRow /\ OnTrack(t) /\ locks[h] = Locked(t) /\ CallFacts(t)
      /\ t.fresh # "none" <=> "validate" \in Done(t)
  BY Current, Waiting
<1>2. PICK stm : stm = Head(t.todo)
  OBVIOUS
<1>3. stm \in {"lockSettings", "lockUser", "lockTarget", "lockRequest", "lockParty",
               "lockLedParty", "lockOwner", "readLimit", "validate", "lockForeignKey"}
  BY <1>2, Waiting
<1>4. "lockRequest" \in Done(t) => t.request \in Requests
  <2>1. "lockRequest" \in Done(t) => t.op \in OnRequest
    BY <1>1, Order
  <2> QED BY <1>1, <2>1 DEF CallFacts
<1>5. CASE stm \in {"lockSettings", "lockUser", "lockTarget", "lockRequest"}
  BY <1>1, <1>2, <1>5, HoldsNothing
<1>6. "lockSettings" \notin Done(t)
  BY <1>1, <1>2, <1>3, Stages
<1>7. CASE stm \in {"lockParty", "lockLedParty", "lockOwner"}
  <2>1. Done(t) \cap {"lockParty", "lockLedParty", "lockOwner"} = {}
    BY <1>1, <1>2, <1>7, Stages
  <2> QED BY <1>1, <1>2, <1>4, <1>6, <1>7, <2>1, Holding
<1>8. CASE stm \in {"readLimit", "validate"}
  BY <1>1, <1>2, <1>4, <1>6, <1>8, Holding
<1>9. CASE stm = "lockForeignKey"
  <2>1. t.party = None /\ Wants(h) = {<<t.user, "share">>}
    BY <1>2, <1>9, Waiting
  <2>2. \A p \in Parties, m \in {"update", "share"} : <<p, m>> \notin locks[h]
    <3>1. \A p \in Parties, m \in {"update", "share"} : <<p, m>> \in Locked(t) => t.party = p
      BY <1>1, <1>4, Holding
    <3>2. None \notin Parties
      BY PartyAssumption
    <3> QED BY <1>1, <2>1, <3>1, <3>2
  <2>3. "lockUser" \notin Done(t)
    <3>1. SUFFICES ASSUME "lockUser" \in Done(t) PROVE FALSE
      OBVIOUS
    <3>2. <<t.user, "update">> \in locks[h]
      BY <1>1, <3>1, Held
    <3>3. PICK w \in WaitsFor(h) : TRUE
      OBVIOUS
    <3>4. /\ w \in Sessions /\ w # h
          /\ \E row, m, n : <<row, m>> \in Wants(h) /\ <<row, n>> \in locks[w] /\ Conflict(n, m)
      BY <3>3, Waited
    <3>5. <<t.user, "update">> \in locks[w]
      BY <2>1, <3>4 DEF Conflict
    <3>6. t.user \in Users \cup {None}
      BY <1>1 DEF TxRow
    <3> QED BY <3>2, <3>4, <3>5, <3>6 DEF PartyInv, LocksCompatible, Rows
  <2>4. "lockTarget" \notin Done(t)
    BY <1>1, <1>2, <1>9, Stages
  <2> QED BY <1>1, <1>4, <1>6, <2>2, <2>3, <2>4, Holding
<1> QED BY <1>3, <1>5, <1>7, <1>8, <1>9

\* No circle.
LEMMA WaitsEnd == PartyInv /\ NoCancel => NoWaitCycle
<1> SUFFICES ASSUME PartyInv, NoCancel PROVE NoWaitCycle
  OBVIOUS
<1> SUFFICES ASSUME NEW S \in (SUBSET Sessions) \ {{}}, ~\E s \in S : WaitsFor(s) \cap S = {}
             PROVE  FALSE
  BY DEF NoWaitCycle
<1>1. /\ PartyInv /\ NoCancel /\ S \in SUBSET Sessions /\ S # {}
      /\ \A s \in S : WaitsFor(s) \cap S # {}
  <2>1. S \in SUBSET Sessions /\ S # {}
    OBVIOUS
  <2>2. \A s \in S : WaitsFor(s) \cap S # {}
    BY Zenon
  <2> QED BY <2>1, <2>2
<1>2. ASSUME NEW s \in S
      PROVE  \E h \in S : h \in WaitsFor(s) /\ WaitsFor(h) # {} /\ WaitsFor(s) # {}
  BY <1>1
<1>3. ASSUME NEW s \in S PROVE Head(tx[s].todo) \notin {"readLimit", "validate"}
  <2>1. SUFFICES ASSUME Head(tx[s].todo) \in {"readLimit", "validate"} PROVE FALSE
    OBVIOUS
  <2>2. PICK h \in S : h \in WaitsFor(s) /\ WaitsFor(h) # {} /\ WaitsFor(s) # {}
    BY <1>2
  <2>3. Wants(s) = {<<Settings, "share">>}
    BY <1>1, <2>1, <2>2, Waiting DEF Wants, At, Idle
  <2>4. <<Settings, "update">> \in locks[h]
    BY <1>1, <2>2, <2>3, Waited DEF Conflict
  <2> QED BY <1>1, <2>2, <2>4, HoldersWait
<1>4. ASSUME NEW s \in S
      PROVE  Head(tx[s].todo) \notin {"lockParty", "lockLedParty", "lockOwner"}
  <2>1. SUFFICES ASSUME Head(tx[s].todo) \in {"lockParty", "lockLedParty", "lockOwner"}
                 PROVE  FALSE
    OBVIOUS
  <2>2. PICK h \in S : h \in WaitsFor(s) /\ WaitsFor(h) # {} /\ WaitsFor(s) # {}
    BY <1>2
  <2>3. Wants(s) \subseteq Parties \X {"update"}
    <3>1. tx[s].op # "none" /\ tx[s].party \in Parties \cup {None}
      BY <1>1, <2>2, Waiting, Current DEF TxRow
    <3> QED BY <2>1, <3>1 DEF Wants, At, Idle, LedBy
  <2>4. PICK p, n : p \in Parties /\ <<p, n>> \in locks[h]
    BY <1>1, <2>2, <2>3, Waited
  <2>5. n \in {"update", "share"}
    BY <1>1, <2>4 DEF PartyInv
  <2> QED BY <1>1, <1>3, <2>2, <2>4, <2>5, HoldersWait
<1>5. ASSUME NEW s \in S PROVE Head(tx[s].todo) # "lockForeignKey"
  <2>1. SUFFICES ASSUME Head(tx[s].todo) = "lockForeignKey" PROVE FALSE
    OBVIOUS
  <2>2. PICK h \in S : h \in WaitsFor(s) /\ WaitsFor(h) # {} /\ WaitsFor(s) # {}
    BY <1>2
  <2>3. Wants(s) = {<<tx[s].user, "share">>} /\ tx[s].user \in Users \cup {None}
    <3>1. tx[s].op # "none" /\ Wants(s) = {<<tx[s].user, "share">>}
      BY <1>1, <2>1, <2>2, Waiting
    <3>2. tx[s] \in TxRow
      BY <1>1, <3>1, Current
    <3> QED BY <3>1, <3>2 DEF TxRow
  <2>4. <<tx[s].user, "update">> \in locks[h]
    BY <1>1, <2>2, <2>3, Waited DEF Conflict
  <2> QED BY <1>1, <1>3, <1>4, <2>2, <2>3, <2>4, HoldersWait
<1>6. PICK s \in S : TRUE
  BY <1>1
<1>7. PICK h \in S : h \in WaitsFor(s) /\ WaitsFor(h) # {} /\ WaitsFor(s) # {}
  BY <1>2, <1>6
<1>8. locks[h] # {} /\ tx[h].op # "none"
  BY <1>1, <1>7, Waited
<1>9. Head(tx[h].todo) \in {"lockSettings", "lockUser", "lockTarget", "lockRequest"}
  BY <1>1, <1>3, <1>4, <1>5, <1>7, Waiting
<1> QED BY <1>1, <1>8, <1>9, HoldsNothing

\* Calls come from a user, or from none.
LEMMA CallOfUser ==
  ASSUME PartyInv, NEW t \in Calls, t.op = "remove" => t.user # t.target
  PROVE  t.user \in Users \cup {None}
BY CallsTyped DEF TxRow

\* A statement leaves alone what was called.
LEMMA StillCalled ==
  ASSUME PartyInv, NoCancel, NEW s \in Sessions, NEW x \in TxRow, NEW stm,
         Execute(s, stm, TRUE, x), x.op = tx[s].op
  PROVE  NoCancel'
<1>1. PICK t1 : t1 = [x EXCEPT !.todo = Tail(@)]
  OBVIOUS
<1>2. t1.op = x.op
  BY <1>1 DEF TxRow
<1>3. tx' = [tx EXCEPT ![s] = t1] /\ t1.op # "cancel"
  BY <1>1, <1>2 DEF Execute, Proceed, NoCancel
<1> QED BY <1>3 DEF NoCancel, PartyInv

\* So does the statement that ends a request and lets the next game in.
LEMMA StillCalledConsuming ==
  ASSUME PartyInv, NoCancel, NEW s \in Sessions, NEW x \in TxRow, NEW y, NEW stm,
         y = [x EXCEPT !.todo = <<Head(@)>> \o Consumption],
         Execute(s, stm, TRUE, y), x.op = tx[s].op, Head(x.todo) \in Steps
  PROVE  NoCancel'
<1>1. PICK P : P = <<Head(x.todo)>> \o Consumption
  OBVIOUS
<1>2. P \in Seq(Steps)
  <2>1. Consumption \in Seq(Steps)
    BY ConsumptionTyped
  <2> QED BY <1>1, <2>1, TailOfConcat
<1>3. y \in TxRow /\ y.op = x.op
  BY <1>1, <1>2 DEF TxRow
<1> QED BY <1>3, StillCalled

\* Where nobody may cancel, nobody does.
LEMMA NoCancelKept ==
  ASSUME \A u \in Users \cup {None} : "cancel" \notin Operations[u]
  PROVE  PartyInv /\ NoCancel /\ [PartyNext]_partyVars => NoCancel'
<1> SUFFICES ASSUME PartyInv, NoCancel, [PartyNext]_partyVars PROVE NoCancel'
  OBVIOUS
<1>1. CASE UNCHANGED partyVars
  BY <1>1 DEF partyVars, NoCancel
<1>2. ASSUME NEW s \in Sessions, Begin(s) PROVE NoCancel'
  <2>1. PICK t \in Calls : /\ t.op \in Operations[t.user] /\ tx' = [tx EXCEPT ![s] = t]
                           /\ t.op = "remove" => t.user # t.target
    BY <1>2 DEF Begin
  <2>2. t.op # "cancel"
    BY <2>1, CallOfUser
  <2> QED BY <2>1, <2>2 DEF NoCancel, PartyInv
<1>3. ASSUME NEW s \in Sessions, Finish(s) PROVE NoCancel'
  <2>1. NoTx.op # "cancel"
    BY DEF NoTx
  <2> QED BY <1>3, <2>1 DEF Finish, NoCancel, PartyInv
<1>4. ASSUME NEW s \in Sessions, NEW stm, Execute(s, stm, TRUE, tx[s]) PROVE NoCancel'
  <2>1. tx[s] \in TxRow
    BY <1>4, Current DEF Execute, At, Idle
  <2> QED BY <1>4, <2>1, StillCalled
<1>5. ASSUME NEW s \in Sessions, ReadMembership(s) PROVE NoCancel'
  <2>1. PICK t : t = tx[s]
    OBVIOUS
  <2>2. PICK x : x = [t EXCEPT !.party = members[t.user]]
    OBVIOUS
  <2>3. Execute(s, "readMembership", TRUE, x) /\ t.op # "none" /\ Head(t.todo) = "readMembership"
    BY <1>5, <2>1, <2>2 DEF ReadMembership, Execute, At, Idle
  <2>4. t.op \in {"leave", "request", "cancel", "stop", "abandon"}
    BY <2>1, <2>3, Current, Stages
  <2>5. t.user \in Users /\ members[t.user] \in Parties \cup {None} /\ t \in TxRow
    BY <2>1, <2>3, <2>4, Current DEF CallFacts, PartyInv, Inv, TypeOK
  <2>6. x \in TxRow /\ x.op = tx[s].op
    BY <2>1, <2>2, <2>5 DEF TxRow
  <2> QED BY <2>3, <2>6, StillCalled
<1>6. ASSUME NEW s \in Sessions, ReadLimit(s) PROVE NoCancel'
  <2>1. PICK t : t = tx[s]
    OBVIOUS
  <2>2. PICK x : x = [t EXCEPT !.size = limit]
    OBVIOUS
  <2>3. Execute(s, "readLimit", TRUE, x) /\ t.op # "none"
    BY <1>6, <2>1, <2>2 DEF ReadLimit, Execute, At, Idle
  <2>4. t \in TxRow /\ limit \in Nat
    BY <2>1, <2>3, Current DEF PartyInv, Inv, TypeOK
  <2>5. x \in TxRow /\ x.op = tx[s].op
    BY <2>1, <2>2, <2>4 DEF TxRow
  <2> QED BY <2>3, <2>5, StillCalled
<1>7. ASSUME NEW s \in Sessions, LockLedParty(s) PROVE NoCancel'
  <2>1. PICK t : t = tx[s]
    OBVIOUS
  <2>2. PICK p \in Parties : Execute(s, "lockLedParty", p \in LedBy(t.user), [t EXCEPT !.party = p])
    BY <1>7, <2>1 DEF LockLedParty
  <2>3. PICK x : x = [t EXCEPT !.party = p]
    OBVIOUS
  <2>4. Execute(s, "lockLedParty", TRUE, x) /\ t.op # "none"
    BY <2>1, <2>2, <2>3 DEF Execute, At, Idle
  <2>5. t \in TxRow
    BY <2>1, <2>4, Current
  <2>6. x \in TxRow /\ x.op = tx[s].op
    BY <2>1, <2>3, <2>5 DEF TxRow
  <2> QED BY <2>4, <2>6, StillCalled
<1>8. ASSUME NEW s \in Sessions, Validate(s) PROVE NoCancel'
  <2>1. PICK t : t = tx[s]
    OBVIOUS
  <2>2. PICK f \in {"allowed", "refused"} : Execute(s, "validate", TRUE, [t EXCEPT !.fresh = f])
    BY <1>8, <2>1 DEF Validate, Execute
  <2>3. PICK x : x = [t EXCEPT !.fresh = f]
    OBVIOUS
  <2>4. Execute(s, "validate", TRUE, x) /\ t.op # "none"
    BY <2>1, <2>2, <2>3 DEF Execute, At, Idle
  <2>5. t \in TxRow
    BY <2>1, <2>4, Current
  <2>6. x \in TxRow /\ x.op = tx[s].op
    BY <2>1, <2>3, <2>5 DEF TxRow
  <2> QED BY <2>4, <2>6, StillCalled
<1>9. ASSUME NEW s \in Sessions, StillQuarantined(s) PROVE NoCancel'
  <2>1. PICK t : t = tx[s]
    OBVIOUS
  <2>2. PICK x : x = [t EXCEPT !.todo = <<Head(@)>> \o Consumption]
    OBVIOUS
  <2>3. /\ At(s, "stillQuarantined") /\ t.op # "none"
        /\ Execute(s, "stillQuarantined", TRUE, x) \/ Execute(s, "stillQuarantined", TRUE, t)
    BY <1>9, <2>1, <2>2 DEF StillQuarantined, Execute, At, Idle
  <2>4. t \in TxRow /\ Head(t.todo) \in Steps
    BY <2>1, <2>3, Current DEF At, Steps
  <2>5. CASE Execute(s, "stillQuarantined", TRUE, t)
    BY <1>4, <2>1, <2>5
  <2>6. CASE Execute(s, "stillQuarantined", TRUE, x)
    BY <2>1, <2>2, <2>4, <2>6, StillCalledConsuming
  <2> QED BY <2>3, <2>5, <2>6
<1>10. ASSUME NEW s \in Sessions, Move(s) PROVE NoCancel'
  <2>1. PICK t : t = tx[s]
    OBVIOUS
  <2>2. PICK o : o = requests[t.request].owner
    OBVIOUS
  <2>3. PICK y : y = IF o \in Parties THEN [t EXCEPT !.party = o] ELSE [t EXCEPT !.user = o]
    OBVIOUS
  <2>4. PICK m \in Moves(requests[t.request]) :
          Execute(s, "move", TRUE, IF Due(t.request, m)
                                     THEN [y EXCEPT !.move = m, !.todo = <<Head(@)>> \o Consumption]
                                     ELSE [y EXCEPT !.move = m])
    BY <1>10, <2>1, <2>2, <2>3 DEF Move
  <2>5. At(s, "move") /\ t.op # "none" /\ Head(t.todo) = "move"
    BY <2>1, <2>4 DEF Execute, At, Idle
  <2>6. t \in TxRow /\ t.op = "progress" /\ Head(t.todo) \in Steps
    BY <2>1, <2>5, Current, Stages DEF Steps
  <2>7. t.request \in Requests
    BY <2>1, <2>5, <2>6, Current DEF CallFacts, OnRequest
  <2>8. o \in Users \cup Parties \cup {None}
    BY <2>2, <2>7 DEF PartyInv, Inv, TypeOK, RequestRow
  <2>9. y \in TxRow /\ y.op = t.op /\ y.todo = t.todo
    BY <2>3, <2>6, <2>8 DEF TxRow
  <2>10. m \in ({"none"} \cup RequestStates) \X BOOLEAN
    BY <2>4, MovesTyped
  <2>11. PICK w : w = [y EXCEPT !.move = m]
    OBVIOUS
  <2>12. w \in TxRow /\ w.op = t.op /\ w.todo = t.todo
    BY <2>9, <2>10, <2>11 DEF TxRow
  <2>13. PICK P : P = <<Head(w.todo)>> \o Consumption
    OBVIOUS
  <2>14. [y EXCEPT !.move = m, !.todo = <<Head(@)>> \o Consumption] = [w EXCEPT !.todo = P]
    BY <2>9, <2>11, <2>12, <2>13 DEF TxRow
  <2>15. PICK x : x = [w EXCEPT !.todo = <<Head(@)>> \o Consumption]
    OBVIOUS
  <2>16. x = [w EXCEPT !.todo = P]
    BY <2>12, <2>13, <2>15 DEF TxRow
  <2>17. Execute(s, "move", TRUE, x) \/ Execute(s, "move", TRUE, w)
    BY <2>4, <2>11, <2>14, <2>16
  <2>18. CASE Execute(s, "move", TRUE, w)
    BY <2>1, <2>12, <2>18, StillCalled
  <2>19. CASE Execute(s, "move", TRUE, x)
    BY <2>1, <2>6, <2>12, <2>15, <2>19, StillCalledConsuming
  <2> QED BY <2>17, <2>18, <2>19
<1>11. CASE PartyNext
  <2>1. PICK s \in Sessions :
          \/ Begin(s) \/ Finish(s) \/ ReadMembership(s) \/ ReadLimit(s) \/ LockLedParty(s)
          \/ Validate(s) \/ StillQuarantined(s) \/ Move(s)
          \/ \E stm : Execute(s, stm, TRUE, tx[s])
    <3>1. PICK s \in Sessions :
          \/ Begin(s) \/ Rollback(s) \/ Commit(s)
          \/ LockUser(s) \/ LockTarget(s) \/ LockSettings(s) \/ ReadMembership(s)
          \/ NoPartyYet(s) \/ NoSolo(s) \/ LockParty(s) \/ LockLedParty(s) \/ LockOwner(s)
          \/ IsLeader(s) \/ NotLeader(s) \/ IsMember(s) \/ NotBusy(s) \/ CheckInvite(s)
          \/ ReadLimit(s) \/ CheckRoom(s) \/ CheckLargest(s) \/ NoCurrent(s) \/ Validate(s)
          \/ LockForeignKey(s) \/ LockRequest(s) \/ RecheckOwner(s)
          \/ StillWaiting(s) \/ StillRunning(s) \/ StillQuarantined(s) \/ Move(s)
      BY <1>11 DEF PartyNext
    <3>2. Rollback(s) \/ Commit(s) => Finish(s)
      BY DEF Rollback, Commit
    <3>3. ASSUME \/ LockUser(s) \/ LockTarget(s) \/ LockSettings(s) \/ NoPartyYet(s) \/ NoSolo(s)
                 \/ LockParty(s) \/ LockOwner(s) \/ IsLeader(s) \/ NotLeader(s) \/ IsMember(s)
                 \/ NotBusy(s) \/ CheckInvite(s) \/ CheckRoom(s) \/ CheckLargest(s)
                 \/ NoCurrent(s) \/ LockForeignKey(s) \/ LockRequest(s) \/ RecheckOwner(s)
                 \/ StillWaiting(s) \/ StillRunning(s)
          PROVE  \E stm : Execute(s, stm, TRUE, tx[s])
      BY <3>3 DEF LockUser, LockTarget, LockSettings, NoPartyYet, NoSolo, LockParty, LockOwner,
                  IsLeader, NotLeader, IsMember, NotBusy, CheckInvite, CheckRoom, CheckLargest,
                  NoCurrent, LockForeignKey, LockRequest, RecheckOwner, StillWaiting,
                  StillRunning, Execute
    <3> QED BY <3>1, <3>2, <3>3
  <2> QED BY <1>2, <1>3, <1>4, <1>5, <1>6, <1>7, <1>8, <1>9, <1>10, <2>1
<1> QED BY <1>1, <1>11

\* Where no waiting request is cancelled, transactions never wait for each other in a
\* circle: with every other mix of calls PostgreSQL finds no deadlock to break.
THEOREM NoCircle ==
  ASSUME \A u \in Users \cup {None} : "cancel" \notin Operations[u]
  PROVE  PartySpec => []NoWaitCycle
<1>1. PartyInit => NoCancel
  BY DEF PartyInit, NoCancel, NoTx
<1>2. PartyInv /\ NoCancel /\ [PartyNext]_partyVars => NoCancel'
  BY NoCancelKept
<1> QED BY <1>1, <1>2, PartyInvHolds, WaitsEnd, PTL DEF PartySpec
=============================================================================
