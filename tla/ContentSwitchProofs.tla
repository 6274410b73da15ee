------------------------ MODULE ContentSwitchProofs -------------------------
(* Proofs about ContentSwitch: whatever dies or fails, and however often,   *)
(* the way to the release in force is known, the game loads complete        *)
(* releases only, and a rollback goes back once.                            *)
EXTENDS ContentSwitch, TLAPS

-----------------------------------------------------------------------------
(* The inductive invariant. *)

\* A command between Begin and its end knows what it has found and done.
Preparing == {"look", "install", "describe"}
Switching == {"link", "announce", "hide", "show"}

PrepareAgrees(t) ==
  /\ tools[t].at \in Preparing => tools[t].version \in Versions /\ tools[t].vpk \in Contents
  /\ At(t, "install") => releases[tools[t].version] = NoRelease
  /\ At(t, "describe") => /\ releases[tools[t].version].recorded = None
                          /\ releases[tools[t].version].vpk = tools[t].vpk

\* A switch knows which release it replaces, and how far it has come.
SwitchAgrees(t) ==
  /\ tools[t].at \in {"choose", "link", "announce"} => ~Interrupted
  /\ tools[t].at \in Switching =>
       /\ tools[t].version \in Versions /\ Ready(tools[t].version)
       /\ tools[t].old = current /\ tools[t].version # current
       /\ tools[t].op = "rollback" => tools[t].version = previous
  /\ tools[t].at \in Switching \ {"link"} => temp = tools[t].version
  /\ tools[t].at \in {"hide", "show"} =>
       /\ pending.old = tools[t].old /\ pending.new = tools[t].version
       /\ pending.rollback <=> tools[t].op = "rollback"
  /\ At(t, "hide") => link = current /\ current # None
  /\ At(t, "show") => link = None /\ (current = None \/ backup = current)

\* A recovery knows where the link is.
RecoveryAgrees(t) ==
  /\ tools[t].at \in {"confirm", "remember", "drop"} => link = pending.new
  /\ tools[t].at \in {"remember", "drop", "tidy", "close"} => link = current
  /\ At(t, "restore") => link # pending.new

\* A record always names a release to come that is not the one there was.
RecordAgrees == Interrupted => pending.new # None /\ pending.new # pending.old

\* After a rollback the way back is closed, or leads to where the link is.
UndoneAgrees ==
  undone => IF Interrupted /\ pending.rollback
              THEN link = pending.new /\ previous \in {None, pending.new}
              ELSE previous \in {None, current} /\ (Interrupted => link # pending.new)

\* What the commands know.
Agreement == \A t \in Tools : PrepareAgrees(t) /\ SwitchAgrees(t) /\ RecoveryAgrees(t)

Command ==
  [at : Steps, op : {"none", "prepare", "switch", "rollback", "finish"},
   version : Version, vpk : Contents \cup {None}, old : Version]

\* One command works, and it holds the lock.
ToolsOK ==
  /\ tools \in [Tools -> Command]
  /\ lock \in Tools \cup {None}
  /\ \A t \in Tools : tools[t].at # "idle" => lock = t

\* Every file is absent or well formed.
DataOK ==
  /\ releases \in [Versions -> [vpk : Contents \cup {None}, recorded : Contents \cup {None}]]
  /\ link \in Version /\ temp \in Version /\ backup \in Version
  /\ pending \in [old : Version, new : Version, rollback : BOOLEAN]
  /\ current \in Version /\ previous \in Version
  /\ faults \in 0..MaxFaults /\ undone \in BOOLEAN

\* A recovery has a record to go by.
Recovering == {"confirm", "remember", "drop", "restore", "tidy", "close"}

RecoveryRecorded == \A t \in Tools : tools[t].at \in Recovering => Interrupted

\* The inductive invariant.
Inv ==
  /\ DataOK /\ ToolsOK /\ RecoveryRecorded
  /\ Agreement
  /\ RecordAgrees
  /\ LinkIsNeverLost
  /\ OnlyPreparedIsLinked
  /\ UndoneAgrees

-----------------------------------------------------------------------------
(* What a step does to the commands. *)

\* The effect of a step on the commands: t is over, or has come to step s.
Quiet(t) == \A u \in Tools \ {t} : tools'[u].at = "idle"

Left(t) == ToolsOK' /\ \A u \in Tools : tools'[u].at = "idle"

Moved(t, s) ==
  /\ ToolsOK' /\ Quiet(t)
  /\ tools'[t].at = s
  /\ tools'[t].op = tools[t].op /\ tools'[t].version = tools[t].version
  /\ tools'[t].vpk = tools[t].vpk /\ tools'[t].old = tools[t].old

\* A command that goes on keeps what it has found and done.
LEMMA GoMoves ==
  ASSUME ToolsOK, NEW t \in Tools, tools[t].at # "idle", NEW s \in Steps \ {"idle"},
         Go(t, s), lock' = lock
  PROVE  Moved(t, s)
<1>1. tools' = [tools EXCEPT ![t] = [tools[t] EXCEPT !.at = s]]
  BY DEF Go
<1>2. [tools[t] EXCEPT !.at = s] \in Command
  BY DEF ToolsOK, Command
<1>3. tools' \in [Tools -> Command]
  BY <1>1, <1>2 DEF ToolsOK
<1>4. \A u \in Tools \ {t} : tools'[u] = tools[u] /\ tools[u].at = "idle"
  BY <1>1, ContentAssumption DEF ToolsOK
<1>5. tools'[t] = [tools[t] EXCEPT !.at = s]
  BY <1>1 DEF ToolsOK
<1>6. ToolsOK'
  BY <1>3, <1>4 DEF ToolsOK
<1>7. QED
  BY <1>4, <1>5, <1>6 DEF Moved, Quiet, ToolsOK, Command

\* The step a command has come to.
LEMMA StepsTaken ==
  ASSUME ToolsOK, NEW t \in Tools
  PROVE  /\ \A s \in Steps : Go(t, s) => tools'[t].at = s
         /\ Leave(t) => tools'[t].at = "idle"
<1>1. ASSUME NEW s \in Steps, Go(t, s) PROVE tools'[t].at = s
  <2>1. tools'[t] = [tools[t] EXCEPT !.at = s]
    BY <1>1 DEF Go, ToolsOK
  <2>2. QED
    BY <2>1 DEF ToolsOK, Command
<1>2. Leave(t) => tools'[t].at = "idle"
  BY DEF Leave, ToolsOK, Idle
<1>3. QED
  BY <1>1, <1>2

\* A command that ends leaves no command at work.
LEMMA EndLeaves ==
  ASSUME ToolsOK, NEW t \in Tools, tools[t].at # "idle",
         tools' = [tools EXCEPT ![t] = Idle], lock' \in {lock, None}
  PROVE  Left(t)
<1>1. Idle \in Command
  BY DEF Idle, Command, Version, Steps
<1>2. tools' \in [Tools -> Command]
  BY <1>1 DEF ToolsOK
<1>3. \A u \in Tools : tools'[u].at = "idle"
  BY ContentAssumption DEF ToolsOK, Idle
<1>4. QED
  BY <1>2, <1>3 DEF Left, ToolsOK

\* The part of the invariant that is about the files.
Sound == DataOK /\ RecordAgrees /\ LinkIsNeverLost /\ OnlyPreparedIsLinked /\ UndoneAgrees

\* What the files satisfy holds on while they do not change.
LEMMA SoundKept ==
  ASSUME Sound, UNCHANGED <<releases, link, temp, backup, pending, current, previous, undone>>,
         faults' \in 0..MaxFaults
  PROVE  Sound'
BY DEF Sound, DataOK, RecordAgrees, LinkIsNeverLost, OnlyPreparedIsLinked, UndoneAgrees,
   Interrupted

\* No command at work, nothing to agree with.
LEMMA AllIdleAgree ==
  ASSUME NEW t \in Tools, Left(t)
  PROVE  Agreement' /\ RecoveryRecorded'
BY DEF Left, Agreement, RecoveryRecorded, Recovering, PrepareAgrees, SwitchAgrees,
   RecoveryAgrees, Preparing, Switching, At

\* Only the command that has moved has anything to agree with.
LEMMA OneAgrees ==
  ASSUME NEW t \in Tools, Quiet(t),
         PrepareAgrees(t)', SwitchAgrees(t)', RecoveryAgrees(t)',
         tools'[t].at \in Recovering => Interrupted'
  PROVE  Agreement' /\ RecoveryRecorded'
BY DEF Quiet, Agreement, RecoveryRecorded, Recovering, PrepareAgrees, SwitchAgrees,
   RecoveryAgrees, Preparing, Switching, At

\* The steps of a preparation.
LEMMA LookKeeps ==
  ASSUME Inv, NEW t \in Tools, Look(t)
  PROVE  Inv'
<1>. USE ContentAssumption
<1>0. DataOK /\ ToolsOK /\ RecoveryRecorded /\ Agreement /\ RecordAgrees
      /\ LinkIsNeverLost /\ OnlyPreparedIsLinked /\ UndoneAgrees
  BY DEF Inv
<1>1. Moved(t, "install") \/ Moved(t, "describe") \/ Left(t)
  <2>1. ASSUME Go(t, "install"), lock' = lock PROVE Moved(t, "install")
    BY <1>0, <2>1, GoMoves DEF Look, At, Steps
  <2>2. ASSUME Go(t, "describe"), lock' = lock PROVE Moved(t, "describe")
    BY <1>0, <2>2, GoMoves DEF Look, At, Steps
  <2>3. ASSUME Leave(t) PROVE Left(t)
    BY <1>0, <2>3, EndLeaves DEF Look, At, Leave
  <2>4. QED
    BY <2>1, <2>2, <2>3 DEF Look
<1>2. (\A s \in Steps : Go(t, s) => tools'[t].at = s) /\ (Leave(t) => tools'[t].at = "idle")
  BY <1>0, StepsTaken
<1>3. ToolsOK' /\ Agreement' /\ RecoveryRecorded'
  <2>1. CASE Moved(t, "install")
    BY <1>0, <1>2, <2>1, OneAgrees DEF Steps, Moved, Agreement, PrepareAgrees, Preparing,
       SwitchAgrees, Switching, RecoveryAgrees, Recovering, Look, At
  <2>2. CASE Moved(t, "describe")
    BY <1>0, <1>2, <2>2, OneAgrees DEF Steps, Moved, Agreement, PrepareAgrees, Preparing,
       SwitchAgrees, Switching, RecoveryAgrees, Recovering, Look, At
  <2>3. CASE Left(t)
    BY <2>3, AllIdleAgree DEF Left
  <2>4. QED
    BY <1>1, <2>1, <2>2, <2>3
<1>4. Sound'
  BY <1>0, SoundKept DEF Sound, DataOK, Look, links, record
<1>9. QED
  BY <1>3, <1>4 DEF Inv, Sound

LEMMA InstallKeeps ==
  ASSUME Inv, NEW t \in Tools, Install(t)
  PROVE  Inv'
<1>. USE ContentAssumption
<1>0. DataOK /\ ToolsOK /\ RecoveryRecorded /\ Agreement /\ RecordAgrees
      /\ LinkIsNeverLost /\ OnlyPreparedIsLinked /\ UndoneAgrees
  BY DEF Inv
<1>1. Moved(t, "describe")
  <2>1. ASSUME Go(t, "describe"), lock' = lock PROVE Moved(t, "describe")
    BY <1>0, <2>1, GoMoves DEF Install, At, Steps
  <2>2. QED
    BY <2>1 DEF Install
<1>3. ToolsOK' /\ Agreement' /\ RecoveryRecorded'
  <2>1. CASE Moved(t, "describe")
    BY <1>0, <2>1, OneAgrees DEF Moved, DataOK, Agreement, PrepareAgrees, Preparing,
       SwitchAgrees, Switching, RecoveryAgrees, Recovering, Install, NoRelease, At
  <2>2. QED
    BY <1>1, <2>1
<1>4. DataOK'
  BY <1>0 DEF DataOK, Agreement, PrepareAgrees, Preparing, Install, links, record, At
<1>5. RecordAgrees'
  BY <1>0 DEF RecordAgrees, Install, Interrupted
<1>6. LinkIsNeverLost'
  BY <1>0 DEF LinkIsNeverLost, Install, Interrupted, links, record
<1>7. OnlyPreparedIsLinked'
  BY <1>0 DEF OnlyPreparedIsLinked, Agreement, PrepareAgrees, Install, NoRelease, links,
     record
<1>8. UndoneAgrees'
  BY <1>0 DEF UndoneAgrees, Install, Interrupted, links, record
<1>9. QED
  BY <1>3, <1>4, <1>5, <1>6, <1>7, <1>8 DEF Inv

LEMMA DescribeKeeps ==
  ASSUME Inv, NEW t \in Tools, Describe(t)
  PROVE  Inv'
<1>. USE ContentAssumption
<1>0. DataOK /\ ToolsOK /\ RecoveryRecorded /\ Agreement /\ RecordAgrees
      /\ LinkIsNeverLost /\ OnlyPreparedIsLinked /\ UndoneAgrees
  BY DEF Inv
<1>1. Left(t)
  <2>1. ASSUME Leave(t) PROVE Left(t)
    BY <1>0, <2>1, EndLeaves DEF Describe, At, Leave
  <2>2. QED
    BY <2>1 DEF Describe
<1>3. ToolsOK' /\ Agreement' /\ RecoveryRecorded'
  <2>1. CASE Left(t)
    BY <2>1, AllIdleAgree DEF Left
  <2>2. QED
    BY <1>1, <2>1
<1>4. DataOK'
  BY <1>0 DEF DataOK, Agreement, PrepareAgrees, Preparing, Describe, links, record
<1>5. RecordAgrees'
  BY <1>0 DEF RecordAgrees, Describe, Interrupted
<1>6. LinkIsNeverLost'
  BY <1>0 DEF LinkIsNeverLost, Describe, Interrupted, links, record
<1>7. OnlyPreparedIsLinked'
  BY <1>0 DEF OnlyPreparedIsLinked, Agreement, PrepareAgrees, Describe, links, record
<1>8. UndoneAgrees'
  BY <1>0 DEF UndoneAgrees, Describe, Interrupted, links, record
<1>9. QED
  BY <1>3, <1>4, <1>5, <1>6, <1>7, <1>8 DEF Inv

\* The steps of a switch.
LEMMA LinkAsideKeeps ==
  ASSUME Inv, NEW t \in Tools, LinkAside(t)
  PROVE  Inv'
<1>. USE ContentAssumption
<1>0. DataOK /\ ToolsOK /\ RecoveryRecorded /\ Agreement /\ RecordAgrees
      /\ LinkIsNeverLost /\ OnlyPreparedIsLinked /\ UndoneAgrees
  BY DEF Inv
<1>1. Moved(t, "announce")
  <2>1. ASSUME Go(t, "announce"), lock' = lock PROVE Moved(t, "announce")
    BY <1>0, <2>1, GoMoves DEF LinkAside, At, Steps
  <2>2. QED
    BY <2>1 DEF LinkAside
<1>3. ToolsOK' /\ Agreement' /\ RecoveryRecorded'
  <2>1. CASE Moved(t, "announce")
    BY <1>0, <2>1, OneAgrees DEF Moved, Agreement, PrepareAgrees, Preparing, SwitchAgrees,
       Switching, RecoveryAgrees, Recovering, LinkAside, Ready, Interrupted, record, At
  <2>2. QED
    BY <1>1, <2>1
<1>4. DataOK'
  BY <1>0 DEF DataOK, Agreement, SwitchAgrees, Switching, LinkAside, Version, record, At
<1>5. RecordAgrees'
  BY <1>0 DEF RecordAgrees, LinkAside, Interrupted
<1>6. LinkIsNeverLost'
  BY <1>0 DEF LinkIsNeverLost, LinkAside, Interrupted, record
<1>7. OnlyPreparedIsLinked'
  BY <1>0 DEF OnlyPreparedIsLinked, LinkAside, record
<1>8. UndoneAgrees'
  BY <1>0 DEF UndoneAgrees, LinkAside, Interrupted, record
<1>9. QED
  BY <1>3, <1>4, <1>5, <1>6, <1>7, <1>8 DEF Inv

LEMMA AnnounceKeeps ==
  ASSUME Inv, NEW t \in Tools, Announce(t)
  PROVE  Inv'
<1>. USE ContentAssumption
<1>0. DataOK /\ ToolsOK /\ RecoveryRecorded /\ Agreement /\ RecordAgrees
      /\ LinkIsNeverLost /\ OnlyPreparedIsLinked /\ UndoneAgrees
  BY DEF Inv
<1>1. Moved(t, "show") \/ Moved(t, "hide")
  <2>1. ASSUME Go(t, "show"), lock' = lock PROVE Moved(t, "show")
    BY <1>0, <2>1, GoMoves DEF Announce, At, Steps
  <2>2. ASSUME Go(t, "hide"), lock' = lock PROVE Moved(t, "hide")
    BY <1>0, <2>2, GoMoves DEF Announce, At, Steps
  <2>3. QED
    BY <2>1, <2>2 DEF Announce
<1>2. /\ tools'[t].at = IF tools[t].old = None THEN "show" ELSE "hide"
      /\ tools'[t].op = tools[t].op /\ tools'[t].version = tools[t].version
      /\ tools'[t].old = tools[t].old
      /\ ToolsOK' /\ Quiet(t)
  BY <1>0, <1>1, StepsTaken DEF Moved, Announce, Steps
<1>a. /\ pending'.old = tools[t].old /\ pending'.new = tools[t].version
      /\ pending'.rollback <=> tools[t].op = "rollback"
  BY DEF Announce
<1>b. /\ At(t, "announce")
      /\ UNCHANGED <<releases, link, temp, backup, current, previous, undone>>
  BY DEF Announce, links, record
<1>c. Interrupted'
  BY <1>0, <1>a, <1>b DEF Agreement, SwitchAgrees, Switching, At, Interrupted,
     NoTransition
<1>d. SwitchAgrees(t)'
  BY <1>0, <1>2, <1>a, <1>b DEF Agreement, SwitchAgrees, Switching, At, LinkIsNeverLost,
     Ready
<1>e. PrepareAgrees(t)' /\ RecoveryAgrees(t)'
  BY <1>2 DEF PrepareAgrees, Preparing, RecoveryAgrees, At
<1>3. ToolsOK' /\ Agreement' /\ RecoveryRecorded'
  BY <1>2, <1>c, <1>d, <1>e, OneAgrees
<1>4. DataOK'
  BY <1>0 DEF DataOK, Agreement, SwitchAgrees, Switching, Announce, links, record, At
<1>5. RecordAgrees'
  BY <1>0 DEF RecordAgrees, Agreement, SwitchAgrees, Switching, Announce, At
<1>6. LinkIsNeverLost'
  BY <1>0 DEF LinkIsNeverLost, Agreement, SwitchAgrees, Switching, Announce, links,
     record, At
<1>7. OnlyPreparedIsLinked'
  BY <1>0 DEF OnlyPreparedIsLinked, Announce, links, record
<1>8. UndoneAgrees'
  BY <1>0 DEF UndoneAgrees, LinkIsNeverLost, Agreement, SwitchAgrees, Switching, Announce,
     links, record, At
<1>9. QED
  BY <1>3, <1>4, <1>5, <1>6, <1>7, <1>8 DEF Inv

LEMMA HideKeeps ==
  ASSUME Inv, NEW t \in Tools, Hide(t)
  PROVE  Inv'
<1>. USE ContentAssumption
<1>0. DataOK /\ ToolsOK /\ RecoveryRecorded /\ Agreement /\ RecordAgrees
      /\ LinkIsNeverLost /\ OnlyPreparedIsLinked /\ UndoneAgrees
  BY DEF Inv
<1>1. Moved(t, "show")
  <2>1. ASSUME Go(t, "show"), lock' = lock PROVE Moved(t, "show")
    BY <1>0, <2>1, GoMoves DEF Hide, At, Steps
  <2>2. QED
    BY <2>1 DEF Hide
<1>3. ToolsOK' /\ Agreement' /\ RecoveryRecorded'
  <2>1. CASE Moved(t, "show")
    BY <1>0, <2>1, OneAgrees DEF Moved, Agreement, PrepareAgrees, Preparing, SwitchAgrees,
       Switching, RecoveryAgrees, Hide, Ready, Interrupted, NoTransition, record, At
  <2>2. QED
    BY <1>1, <2>1
<1>4. DataOK'
  BY <1>0 DEF DataOK, Hide, Version, record
<1>5. RecordAgrees'
  BY <1>0 DEF RecordAgrees, Hide, Interrupted
<1>6. LinkIsNeverLost'
  BY <1>0 DEF LinkIsNeverLost, Agreement, SwitchAgrees, Switching, Hide, Interrupted,
     NoTransition, record, At
<1>7. OnlyPreparedIsLinked'
  BY <1>0 DEF OnlyPreparedIsLinked, Hide, record
<1>8. UndoneAgrees'
  BY <1>0 DEF UndoneAgrees, Agreement, SwitchAgrees, Switching, Hide, record, At
<1>9. QED
  BY <1>3, <1>4, <1>5, <1>6, <1>7, <1>8 DEF Inv

\* The steps of a recovery.
LEMMA RecoverKeeps ==
  ASSUME Inv, NEW t \in Tools, Recover(t)
  PROVE  Inv'
<1>. USE ContentAssumption
<1>0. DataOK /\ ToolsOK /\ RecoveryRecorded /\ Agreement /\ RecordAgrees
      /\ LinkIsNeverLost /\ OnlyPreparedIsLinked /\ UndoneAgrees
  BY DEF Inv
<1>1. Moved(t, "restore") \/ Moved(t, "confirm") \/ Moved(t, "choose") \/ Left(t)
  <2>1. ASSUME Go(t, "restore"), lock' = lock PROVE Moved(t, "restore")
    BY <1>0, <2>1, GoMoves DEF Recover, At, Steps
  <2>2. ASSUME Go(t, "confirm"), lock' = lock PROVE Moved(t, "confirm")
    BY <1>0, <2>2, GoMoves DEF Recover, At, Steps
  <2>3. ASSUME Go(t, "choose"), lock' = lock PROVE Moved(t, "choose")
    BY <1>0, <2>3, GoMoves DEF Recover, At, Steps
  <2>4. ASSUME Leave(t) PROVE Left(t)
    BY <1>0, <2>4, EndLeaves DEF Recover, At, Leave
  <2>5. QED
    BY <2>1, <2>2, <2>3, <2>4 DEF Recover, Return
<1>2. (\A s \in Steps : Go(t, s) => tools'[t].at = s) /\ (Leave(t) => tools'[t].at = "idle")
  BY <1>0, StepsTaken
<1>3. ToolsOK' /\ Agreement' /\ RecoveryRecorded'
  <2>1. CASE Moved(t, "restore")
    BY <1>0, <1>2, <2>1, OneAgrees DEF Steps, Return, Moved, PrepareAgrees, Preparing,
       SwitchAgrees, Switching, RecoveryAgrees, Recover, Interrupted, links, At
  <2>2. CASE Moved(t, "confirm")
    BY <1>0, <1>2, <2>2, OneAgrees DEF Steps, Return, Moved, PrepareAgrees, Preparing,
       SwitchAgrees, Switching, RecoveryAgrees, Recover, Interrupted, links, At
  <2>3. CASE Moved(t, "choose")
    BY <1>0, <1>2, <2>3, OneAgrees DEF Steps, Moved, PrepareAgrees, Preparing,
       SwitchAgrees, Switching, RecoveryAgrees, Recovering, Recover, Interrupted, At
  <2>4. CASE Left(t)
    BY <2>4, AllIdleAgree DEF Left
  <2>5. QED
    BY <1>1, <2>1, <2>2, <2>3, <2>4
<1>4. Sound'
  BY <1>0, SoundKept DEF Sound, DataOK, Recover, links, record
<1>9. QED
  BY <1>3, <1>4 DEF Inv, Sound

LEMMA ConfirmKeeps ==
  ASSUME Inv, NEW t \in Tools, Confirm(t)
  PROVE  Inv'
<1>. USE ContentAssumption
<1>0. DataOK /\ ToolsOK /\ RecoveryRecorded /\ Agreement /\ RecordAgrees
      /\ LinkIsNeverLost /\ OnlyPreparedIsLinked /\ UndoneAgrees
  BY DEF Inv
<1>1. Moved(t, "remember")
  <2>1. ASSUME Go(t, "remember"), lock' = lock PROVE Moved(t, "remember")
    BY <1>0, <2>1, GoMoves DEF Confirm, At, Steps
  <2>2. QED
    BY <2>1 DEF Confirm
<1>3. ToolsOK' /\ Agreement' /\ RecoveryRecorded'
  <2>1. CASE Moved(t, "remember")
    BY <1>0, <2>1, OneAgrees DEF Moved, RecoveryRecorded, Agreement, PrepareAgrees,
       Preparing, SwitchAgrees, Switching, RecoveryAgrees, Recovering, Confirm,
       Interrupted, links, At
  <2>2. QED
    BY <1>1, <2>1
<1>4. DataOK'
  BY <1>0 DEF DataOK, Confirm, links
<1>5. RecordAgrees'
  BY <1>0 DEF RecordAgrees, Confirm, Interrupted
<1>6. LinkIsNeverLost'
  BY <1>0 DEF LinkIsNeverLost, Agreement, RecoveryAgrees, Confirm, links, At
<1>7. OnlyPreparedIsLinked'
  BY <1>0 DEF OnlyPreparedIsLinked, Agreement, RecoveryAgrees, Confirm, links, At
<1>8. UndoneAgrees'
  BY <1>0 DEF UndoneAgrees, LinkIsNeverLost, Agreement, RecoveryAgrees, Confirm,
     Interrupted, links, At
<1>9. QED
  BY <1>3, <1>4, <1>5, <1>6, <1>7, <1>8 DEF Inv

LEMMA RememberKeeps ==
  ASSUME Inv, NEW t \in Tools, Remember(t)
  PROVE  Inv'
<1>. USE ContentAssumption
<1>0. DataOK /\ ToolsOK /\ RecoveryRecorded /\ Agreement /\ RecordAgrees
      /\ LinkIsNeverLost /\ OnlyPreparedIsLinked /\ UndoneAgrees
  BY DEF Inv
<1>1. Moved(t, "drop")
  <2>1. ASSUME Go(t, "drop"), lock' = lock PROVE Moved(t, "drop")
    BY <1>0, <2>1, GoMoves DEF Remember, At, Steps
  <2>2. QED
    BY <2>1 DEF Remember
<1>3. ToolsOK' /\ Agreement' /\ RecoveryRecorded'
  <2>1. CASE Moved(t, "drop")
    BY <1>0, <2>1, OneAgrees DEF Moved, RecoveryRecorded, Agreement, PrepareAgrees,
       Preparing, SwitchAgrees, Switching, RecoveryAgrees, Recovering, Remember,
       Interrupted, links, At
  <2>2. QED
    BY <1>1, <2>1
<1>4. DataOK'
  BY <1>0 DEF DataOK, Remember, Version, links
<1>5. RecordAgrees'
  BY <1>0 DEF RecordAgrees, Remember, Interrupted
<1>6. LinkIsNeverLost'
  BY <1>0 DEF LinkIsNeverLost, Remember, Interrupted, links
<1>7. OnlyPreparedIsLinked'
  BY <1>0 DEF OnlyPreparedIsLinked, Remember, links
<1>8. UndoneAgrees'
  BY <1>0 DEF UndoneAgrees, Agreement, RecoveryAgrees, Remember, Interrupted,
     NoTransition, links, At
<1>9. QED
  BY <1>3, <1>4, <1>5, <1>6, <1>7, <1>8 DEF Inv

LEMMA DropKeeps ==
  ASSUME Inv, NEW t \in Tools, Drop(t)
  PROVE  Inv'
<1>. USE ContentAssumption
<1>0. DataOK /\ ToolsOK /\ RecoveryRecorded /\ Agreement /\ RecordAgrees
      /\ LinkIsNeverLost /\ OnlyPreparedIsLinked /\ UndoneAgrees
  BY DEF Inv
<1>1. Moved(t, "tidy") \/ Left(t)
  <2>1. ASSUME Go(t, "tidy"), lock' = lock PROVE Moved(t, "tidy")
    BY <1>0, <2>1, GoMoves DEF Drop, At, Steps
  <2>2. ASSUME Leave(t) PROVE Left(t)
    BY <1>0, <2>2, EndLeaves DEF Drop, At, Leave
  <2>3. QED
    BY <2>1, <2>2 DEF Drop
<1>2. (\A s \in Steps : Go(t, s) => tools'[t].at = s) /\ (Leave(t) => tools'[t].at = "idle")
  BY <1>0, StepsTaken
<1>3. ToolsOK' /\ Agreement' /\ RecoveryRecorded'
  <2>1. CASE Moved(t, "tidy")
    BY <1>0, <1>2, <2>1, OneAgrees DEF Moved, RecoveryRecorded, Agreement, PrepareAgrees,
       Preparing, SwitchAgrees, Switching, RecoveryAgrees, Recovering, Drop, Interrupted,
       record, At
  <2>2. CASE Left(t)
    BY <2>2, AllIdleAgree DEF Left
  <2>3. QED
    BY <1>1, <2>1, <2>2
<1>4. DataOK'
  BY <1>0 DEF DataOK, Drop, Version, record
<1>5. RecordAgrees'
  BY <1>0 DEF RecordAgrees, Drop, Interrupted
<1>6. LinkIsNeverLost'
  BY <1>0 DEF LinkIsNeverLost, Agreement, RecoveryAgrees, Drop, record, At
<1>7. OnlyPreparedIsLinked'
  BY <1>0 DEF OnlyPreparedIsLinked, Drop, record
<1>8. UndoneAgrees'
  BY <1>0 DEF UndoneAgrees, Drop, Interrupted, record
<1>9. QED
  BY <1>3, <1>4, <1>5, <1>6, <1>7, <1>8 DEF Inv

LEMMA RestoreKeeps ==
  ASSUME Inv, NEW t \in Tools, Restore(t)
  PROVE  Inv'
<1>. USE ContentAssumption
<1>0. DataOK /\ ToolsOK /\ RecoveryRecorded /\ Agreement /\ RecordAgrees
      /\ LinkIsNeverLost /\ OnlyPreparedIsLinked /\ UndoneAgrees
  BY DEF Inv
<1>1. Moved(t, "tidy") \/ Left(t)
  <2>1. ASSUME Go(t, "tidy"), lock' = lock PROVE Moved(t, "tidy")
    BY <1>0, <2>1, GoMoves DEF Restore, At, Steps
  <2>2. ASSUME Leave(t) PROVE Left(t)
    BY <1>0, <2>2, EndLeaves DEF Restore, At, Leave
  <2>3. QED
    BY <2>1, <2>2 DEF Restore
<1>2. (\A s \in Steps : Go(t, s) => tools'[t].at = s) /\ (Leave(t) => tools'[t].at = "idle")
  BY <1>0, StepsTaken
<1>3. ToolsOK' /\ Agreement' /\ RecoveryRecorded'
  <2>1. CASE Moved(t, "tidy")
    BY <1>0, <1>2, <2>1, OneAgrees DEF Moved, LinkIsNeverLost, Agreement, PrepareAgrees,
       Preparing, SwitchAgrees, Switching, RecoveryAgrees, Restore, Interrupted,
       NoTransition, links, record, At
  <2>2. CASE Left(t)
    BY <2>2, AllIdleAgree DEF Left
  <2>3. QED
    BY <1>1, <2>1, <2>2
<1>4. DataOK'
  BY <1>0 DEF DataOK, Restore, links, record
<1>5. RecordAgrees'
  BY <1>0 DEF RecordAgrees, Restore, Interrupted
<1>6. LinkIsNeverLost'
  BY <1>0 DEF LinkIsNeverLost, Agreement, RecoveryAgrees, Restore, Interrupted,
     NoTransition, links, record
<1>7. OnlyPreparedIsLinked'
  BY <1>0 DEF OnlyPreparedIsLinked, Restore, links, record
<1>8. UndoneAgrees'
  BY <1>0 DEF UndoneAgrees, RecordAgrees, Restore, Interrupted, links, record
<1>9. QED
  BY <1>3, <1>4, <1>5, <1>6, <1>7, <1>8 DEF Inv

LEMMA TidyKeeps ==
  ASSUME Inv, NEW t \in Tools, Tidy(t)
  PROVE  Inv'
<1>. USE ContentAssumption
<1>0. DataOK /\ ToolsOK /\ RecoveryRecorded /\ Agreement /\ RecordAgrees
      /\ LinkIsNeverLost /\ OnlyPreparedIsLinked /\ UndoneAgrees
  BY DEF Inv
<1>1. Moved(t, "close") \/ Left(t)
  <2>1. ASSUME Go(t, "close"), lock' = lock PROVE Moved(t, "close")
    BY <1>0, <2>1, GoMoves DEF Tidy, At, Steps
  <2>2. ASSUME Leave(t) PROVE Left(t)
    BY <1>0, <2>2, EndLeaves DEF Tidy, At, Leave
  <2>3. QED
    BY <2>1, <2>2 DEF Tidy
<1>2. (\A s \in Steps : Go(t, s) => tools'[t].at = s) /\ (Leave(t) => tools'[t].at = "idle")
  BY <1>0, StepsTaken
<1>3. ToolsOK' /\ Agreement' /\ RecoveryRecorded'
  <2>1. CASE Moved(t, "close")
    BY <1>0, <1>2, <2>1, OneAgrees DEF Moved, RecoveryRecorded, Agreement, PrepareAgrees,
       Preparing, SwitchAgrees, Switching, RecoveryAgrees, Recovering, Tidy, Interrupted,
       record, At
  <2>2. CASE Left(t)
    BY <2>2, AllIdleAgree DEF Left
  <2>3. QED
    BY <1>1, <2>1, <2>2
<1>4. DataOK'
  BY <1>0 DEF DataOK, Tidy, Version, record
<1>5. RecordAgrees'
  BY <1>0 DEF RecordAgrees, Tidy, Interrupted
<1>6. LinkIsNeverLost'
  BY <1>0 DEF LinkIsNeverLost, Tidy, Interrupted, record
<1>7. OnlyPreparedIsLinked'
  BY <1>0 DEF OnlyPreparedIsLinked, Tidy, record
<1>8. UndoneAgrees'
  BY <1>0 DEF UndoneAgrees, Tidy, Interrupted, record
<1>9. QED
  BY <1>3, <1>4, <1>5, <1>6, <1>7, <1>8 DEF Inv

LEMMA CloseKeeps ==
  ASSUME Inv, NEW t \in Tools, Close(t)
  PROVE  Inv'
<1>. USE ContentAssumption
<1>0. DataOK /\ ToolsOK /\ RecoveryRecorded /\ Agreement /\ RecordAgrees
      /\ LinkIsNeverLost /\ OnlyPreparedIsLinked /\ UndoneAgrees
  BY DEF Inv
<1>1. Moved(t, "choose") \/ Left(t)
  <2>1. ASSUME Go(t, "choose"), lock' = lock PROVE Moved(t, "choose")
    BY <1>0, <2>1, GoMoves DEF Close, At, Steps
  <2>2. ASSUME Leave(t) PROVE Left(t)
    BY <1>0, <2>2, EndLeaves DEF Close, At, Leave
  <2>3. QED
    BY <2>1, <2>2 DEF Close, Return
<1>2. (\A s \in Steps : Go(t, s) => tools'[t].at = s) /\ (Leave(t) => tools'[t].at = "idle")
  BY <1>0, StepsTaken
<1>3. ToolsOK' /\ Agreement' /\ RecoveryRecorded'
  <2>1. CASE Moved(t, "choose")
    BY <1>0, <1>2, <2>1, OneAgrees DEF Moved, PrepareAgrees, Preparing, SwitchAgrees,
       Switching, RecoveryAgrees, Recovering, Close, Interrupted, At
  <2>2. CASE Left(t)
    BY <2>2, AllIdleAgree DEF Left
  <2>3. QED
    BY <1>1, <2>1, <2>2
<1>4. DataOK'
  BY <1>0 DEF DataOK, Close, Version, NoTransition, links, record
<1>5. RecordAgrees'
  BY <1>0 DEF RecordAgrees, Close, Interrupted
<1>6. LinkIsNeverLost'
  BY <1>0 DEF LinkIsNeverLost, Agreement, RecoveryAgrees, Close, Interrupted, links,
     record, At
<1>7. OnlyPreparedIsLinked'
  BY <1>0 DEF OnlyPreparedIsLinked, Close, links, record
<1>8. UndoneAgrees'
  BY <1>0 DEF UndoneAgrees, Agreement, RecoveryAgrees, Close, Interrupted, record, At
<1>9. QED
  BY <1>3, <1>4, <1>5, <1>6, <1>7, <1>8 DEF Inv

\* The failures that leave the files as they are, and those that do not.
LEMMA FailKeeps ==
  ASSUME Inv, NEW t \in Tools, Fail(t)
  PROVE  Inv'
<1>. USE ContentAssumption
<1>0. DataOK /\ ToolsOK /\ RecoveryRecorded /\ Agreement /\ RecordAgrees
      /\ LinkIsNeverLost /\ OnlyPreparedIsLinked /\ UndoneAgrees
  BY DEF Inv
<1>1. Left(t)
  <2>1. ASSUME Leave(t) PROVE Left(t)
    BY <1>0, <2>1, EndLeaves DEF Fail, Working, Leave
  <2>2. QED
    BY <2>1 DEF Fail
<1>3. ToolsOK' /\ Agreement' /\ RecoveryRecorded'
  <2>1. CASE Left(t)
    BY <2>1, AllIdleAgree DEF Left
  <2>2. QED
    BY <1>1, <2>1
<1>4. Sound'
  BY <1>0, SoundKept DEF Sound, DataOK, Fail, Fault, links, record
<1>9. QED
  BY <1>3, <1>4 DEF Inv, Sound

LEMMA FailToAnnounceKeeps ==
  ASSUME Inv, NEW t \in Tools, FailToAnnounce(t)
  PROVE  Inv'
<1>. USE ContentAssumption
<1>0. DataOK /\ ToolsOK /\ RecoveryRecorded /\ Agreement /\ RecordAgrees
      /\ LinkIsNeverLost /\ OnlyPreparedIsLinked /\ UndoneAgrees
  BY DEF Inv
<1>1. Left(t)
  <2>1. ASSUME Leave(t) PROVE Left(t)
    BY <1>0, <2>1, EndLeaves DEF FailToAnnounce, At, Leave
  <2>2. QED
    BY <2>1 DEF FailToAnnounce
<1>3. ToolsOK' /\ Agreement' /\ RecoveryRecorded'
  <2>1. CASE Left(t)
    BY <2>1, AllIdleAgree DEF Left
  <2>2. QED
    BY <1>1, <2>1
<1>4. DataOK'
  BY <1>0 DEF DataOK, FailToAnnounce, Fault, Version, record
<1>5. RecordAgrees'
  BY <1>0 DEF RecordAgrees, FailToAnnounce, Interrupted
<1>6. LinkIsNeverLost'
  BY <1>0 DEF LinkIsNeverLost, FailToAnnounce, Interrupted, record
<1>7. OnlyPreparedIsLinked'
  BY <1>0 DEF OnlyPreparedIsLinked, FailToAnnounce, record
<1>8. UndoneAgrees'
  BY <1>0 DEF UndoneAgrees, FailToAnnounce, Interrupted, record
<1>9. QED
  BY <1>3, <1>4, <1>5, <1>6, <1>7, <1>8 DEF Inv

LEMMA FailToForgetKeeps ==
  ASSUME Inv, NEW t \in Tools, FailToForget(t)
  PROVE  Inv'
<1>. USE ContentAssumption
<1>0. DataOK /\ ToolsOK /\ RecoveryRecorded /\ Agreement /\ RecordAgrees
      /\ LinkIsNeverLost /\ OnlyPreparedIsLinked /\ UndoneAgrees
  BY DEF Inv
<1>1. Moved(t, "drop")
  <2>1. ASSUME Go(t, "drop"), lock' = lock PROVE Moved(t, "drop")
    BY <1>0, <2>1, GoMoves DEF FailToForget, At, Steps
  <2>2. QED
    BY <2>1 DEF FailToForget
<1>3. ToolsOK' /\ Agreement' /\ RecoveryRecorded'
  <2>1. CASE Moved(t, "drop")
    BY <1>0, <2>1, OneAgrees DEF Moved, RecoveryRecorded, Agreement, PrepareAgrees,
       Preparing, SwitchAgrees, Switching, RecoveryAgrees, Recovering, FailToForget,
       Interrupted, links, record, At
  <2>2. QED
    BY <1>1, <2>1
<1>4. Sound'
  BY <1>0, SoundKept DEF Sound, DataOK, FailToForget, Fault, links, record
<1>9. QED
  BY <1>3, <1>4 DEF Inv, Sound

\* A command begins.
LEMMA BeginKeeps ==
  ASSUME Inv, NEW t \in Tools, NEW v \in Version, NEW c \in Contents \cup {None},
         NEW op \in {"prepare", "switch", "rollback"}, Begin(t, op, v, c),
         op = "prepare" => v \in Versions /\ c \in Contents
  PROVE  Inv'
<1>. USE ContentAssumption
<1>. DEFINE cmd == [Idle EXCEPT !.at = IF op = "prepare" THEN "look" ELSE "recover",
                                !.op = op, !.version = v, !.vpk = c]
<1>0. Sound /\ ToolsOK /\ RecoveryRecorded /\ Agreement
  BY DEF Inv, Sound
<1>1. \A u \in Tools : tools[u].at = "idle"
  BY <1>0 DEF Begin, ToolsOK
<1>2. cmd \in Command
  BY DEF Command, Idle, Steps, Version
<1>3. tools' \in [Tools -> Command] /\ tools'[t] = cmd /\ lock' = t
  BY <1>0, <1>2 DEF Begin, ToolsOK
<1>4. Quiet(t)
  BY <1>0, <1>1 DEF Begin, ToolsOK, Quiet
<1>5. ToolsOK'
  BY <1>3, <1>4 DEF ToolsOK, Quiet
<1>6. Agreement' /\ RecoveryRecorded'
  <2>1. /\ cmd.at = IF op = "prepare" THEN "look" ELSE "recover"
        /\ cmd.version = v /\ cmd.vpk = c
    BY DEF Idle
  <2>. HIDE DEF cmd
  <2>2. PrepareAgrees(t)'
    BY <1>3, <2>1 DEF PrepareAgrees, Preparing, At
  <2>3. SwitchAgrees(t)' /\ RecoveryAgrees(t)' /\ tools'[t].at \notin Recovering
    BY <1>3, <2>1 DEF SwitchAgrees, RecoveryAgrees, Switching, Recovering, At
  <2>4. QED
    BY <1>4, <2>2, <2>3, OneAgrees
<1>7. Sound'
  BY <1>0, SoundKept DEF Sound, DataOK, Begin, links, record
<1>8. QED
  BY <1>5, <1>6, <1>7 DEF Inv, Sound

\* What a switch or a rollback decides to do.
LEMMA ChooseKeeps ==
  ASSUME Inv, NEW t \in Tools, Choose(t)
  PROVE  Inv'
<1>. USE ContentAssumption
<1>. DEFINE version == IF tools[t].op = "rollback" THEN previous ELSE tools[t].version
            valid   == version # None /\ Ready(version) /\ Consistent
<1>0. DataOK /\ ToolsOK /\ RecoveryRecorded /\ Agreement /\ RecordAgrees
      /\ LinkIsNeverLost /\ OnlyPreparedIsLinked /\ UndoneAgrees
  BY DEF Inv
<1>1. /\ At(t, "choose") /\ ~Interrupted
      /\ UNCHANGED <<releases, link, temp, backup, pending, current, faults, undone>>
  BY <1>0 DEF Choose, Agreement, SwitchAgrees, links, At
<1>2. version \in Version /\ tools[t] \in Command
  BY <1>0 DEF DataOK, ToolsOK, Command
<1>3. CASE valid /\ version # current
  <2>. DEFINE cmd == [tools[t] EXCEPT !.at = "link", !.version = version, !.old = current]
  <2>1. tools' = [tools EXCEPT ![t] = cmd] /\ UNCHANGED <<previous, lock>>
    BY <1>3 DEF Choose
  <2>2. cmd \in Command
    BY <1>0, <1>2 DEF Command, DataOK, Steps
  <2>3. /\ cmd.at = "link" /\ cmd.version = version /\ cmd.old = current
        /\ cmd.op = tools[t].op
    BY <1>2 DEF Command
  <2>4. tools' \in [Tools -> Command] /\ tools'[t] = cmd
    BY <1>0, <2>1, <2>2 DEF ToolsOK
  <2>5. Quiet(t)
    BY <1>0, <1>1, <2>1 DEF ToolsOK, Quiet, At
  <2>6. ToolsOK'
    BY <1>0, <1>1, <2>1, <2>4, <2>5 DEF ToolsOK, Quiet, At
  <2>7. SwitchAgrees(t)'
    <3>1. version \in Versions /\ Ready(version) /\ ~Interrupted'
      BY <1>1, <1>2, <1>3 DEF Version, Interrupted
    <3>2. cmd.op = "rollback" => version = previous'
      BY <2>1, <2>3
    <3>. HIDE DEF version, cmd
    <3>3. QED
      BY <1>1, <1>3, <2>3, <2>4, <3>1, <3>2 DEF SwitchAgrees, Switching, At, Ready
  <2>8. PrepareAgrees(t)' /\ RecoveryAgrees(t)' /\ tools'[t].at \notin Recovering
    BY <2>3, <2>4 DEF PrepareAgrees, Preparing, RecoveryAgrees, Recovering, At
  <2>9. Agreement' /\ RecoveryRecorded'
    BY <2>5, <2>7, <2>8, OneAgrees
  <2>10. Sound'
    BY <1>0, <1>1, <2>1, SoundKept DEF Sound, DataOK
  <2>11. QED
    BY <2>6, <2>9, <2>10 DEF Inv, Sound
<1>4. CASE ~(valid /\ version # current)
  <2>1. Leave(t) /\ previous' \in {previous, None}
    BY <1>4 DEF Choose
  <2>2. Left(t)
    BY <1>0, <1>1, <2>1, EndLeaves DEF Leave, At
  <2>3. Sound'
    BY <1>0, <1>1, <2>1 DEF Sound, DataOK, Version, RecordAgrees, LinkIsNeverLost,
       OnlyPreparedIsLinked, UndoneAgrees, Interrupted
  <2>4. QED
    BY <2>2, <2>3, AllIdleAgree DEF Inv, Sound, Left
<1>5. QED
  BY <1>3, <1>4

\* Show and FailToMove hand over to the recovery.
LEMMA FinishMoves ==
  ASSUME ToolsOK, NEW t \in Tools, tools[t].at # "idle", lock' = lock,
         tools' = [tools EXCEPT ![t].at = "recover", ![t].op = "finish"]
  PROVE  ToolsOK' /\ Agreement' /\ RecoveryRecorded'
<1>. DEFINE cmd == [tools[t] EXCEPT !.at = "recover", !.op = "finish"]
<1>1. cmd \in Command /\ cmd.at = "recover"
  BY DEF ToolsOK, Command, Steps
<1>2. tools' = [tools EXCEPT ![t] = cmd]
  BY DEF ToolsOK
<1>3. tools' \in [Tools -> Command] /\ tools'[t] = cmd
  BY <1>1, <1>2 DEF ToolsOK
<1>4. Quiet(t)
  BY <1>2 DEF ToolsOK, Quiet
<1>5. ToolsOK'
  BY <1>3, <1>4 DEF ToolsOK, Quiet
<1>6. QED
  BY <1>1, <1>3, <1>4, <1>5, OneAgrees DEF PrepareAgrees, SwitchAgrees, RecoveryAgrees,
     Preparing, Switching, Recovering, At

\* The new link takes its place: the step at which a switch takes effect.
LEMMA ShowKeeps ==
  ASSUME Inv, NEW t \in Tools, Show(t)
  PROVE  Inv'
<1>. USE ContentAssumption
<1>0. DataOK /\ ToolsOK /\ RecoveryRecorded /\ Agreement /\ RecordAgrees
      /\ LinkIsNeverLost /\ OnlyPreparedIsLinked /\ UndoneAgrees
  BY DEF Inv
<1>1. ToolsOK' /\ Agreement' /\ RecoveryRecorded'
  BY <1>0, FinishMoves DEF Show, At
<1>2. /\ pending.new = tools[t].version /\ tools[t].version \in Versions
      /\ Ready(tools[t].version) /\ temp = tools[t].version
      /\ pending.old = current /\ link = None
      /\ pending.rollback <=> tools[t].op = "rollback"
      /\ tools[t].op = "rollback" => pending.new = previous
  BY <1>0 DEF Show, At, Agreement, SwitchAgrees, Switching
<1>3. /\ link' = pending.new /\ temp' = None
      /\ undone' <=> tools[t].op = "rollback"
      /\ undone' \in BOOLEAN
      /\ UNCHANGED <<releases, backup, pending, current, previous, lock, faults>>
  BY <1>2 DEF Show, record
<1>4. DataOK'
  BY <1>0, <1>2, <1>3 DEF DataOK, Version
<1>5. RecordAgrees' /\ LinkIsNeverLost'
  BY <1>0, <1>2, <1>3 DEF RecordAgrees, LinkIsNeverLost, Interrupted, NoTransition
<1>6. OnlyPreparedIsLinked'
  BY <1>0, <1>2, <1>3 DEF OnlyPreparedIsLinked, Ready
<1>7. UndoneAgrees'
  BY <1>2, <1>3 DEF UndoneAgrees, Interrupted, NoTransition
<1>8. QED
  BY <1>1, <1>4, <1>5, <1>6, <1>7 DEF Inv

\* The command that cannot move a link undoes what it has done.
LEMMA FailToMoveKeeps ==
  ASSUME Inv, NEW t \in Tools, FailToMove(t)
  PROVE  Inv'
<1>1. Sound /\ ToolsOK
  BY DEF Inv, Sound
<1>2. ToolsOK' /\ Agreement' /\ RecoveryRecorded'
  BY <1>1, FinishMoves DEF FailToMove, At
<1>3. Sound'
  BY <1>1, SoundKept, ContentAssumption DEF Sound, DataOK, FailToMove, Fault, links,
     record
<1>4. QED
  BY <1>2, <1>3 DEF Inv, Sound

\* A process dies, and the operator removes its lock.
LEMMA DieKeeps ==
  ASSUME Inv, NEW t \in Tools, Die(t)
  PROVE  Inv'
<1>1. Sound /\ ToolsOK
  BY DEF Inv, Sound
<1>2. Left(t)
  BY <1>1, EndLeaves DEF Die, Working
<1>3. Sound'
  BY <1>1, SoundKept, ContentAssumption DEF Sound, DataOK, Die, Fault, links, record
<1>4. QED
  BY <1>2, <1>3, AllIdleAgree DEF Inv, Sound, Left

LEMMA RemoveLockKeeps ==
  ASSUME Inv, RemoveLock
  PROVE  Inv'
<1>1. Sound /\ ToolsOK /\ Agreement /\ RecoveryRecorded
  BY DEF Inv, Sound
<1>2. ToolsOK'
  BY <1>1 DEF RemoveLock, ToolsOK, Working
<1>3. Agreement' /\ RecoveryRecorded'
  BY <1>1 DEF RemoveLock, Agreement, RecoveryRecorded, PrepareAgrees, SwitchAgrees,
     RecoveryAgrees, Interrupted, At, Ready, links, record
<1>4. Sound'
  BY <1>1, SoundKept DEF Sound, DataOK, RemoveLock, links, record
<1>5. QED
  BY <1>2, <1>3, <1>4 DEF Inv, Sound

\* No release, no link, no command.
LEMMA InvInitially == Init => Inv
<1>. SUFFICES ASSUME Init PROVE Inv
  OBVIOUS
<1>1. Idle \in Command
  BY DEF Idle, Command, Steps, Version
<1>2. ToolsOK /\ \A t \in Tools : tools[t].at = "idle"
  BY <1>1 DEF Init, ToolsOK, Idle
<1>3. Agreement /\ RecoveryRecorded
  BY <1>2 DEF Agreement, PrepareAgrees, Preparing, SwitchAgrees, Switching,
     RecoveryAgrees, RecoveryRecorded, Recovering, At
<1>4. DataOK
  <2>1. NoRelease \in [vpk : Contents \cup {None}, recorded : Contents \cup {None}]
    BY DEF NoRelease
  <2>2. NoTransition \in [old : Version, new : Version, rollback : BOOLEAN]
    BY DEF NoTransition, Version
  <2>3. releases \in [Versions -> [vpk : Contents \cup {None}, recorded : Contents \cup {None}]]
    BY <2>1 DEF Init
  <2>4. pending \in [old : Version, new : Version, rollback : BOOLEAN]
    BY <2>2 DEF Init
  <2>5. faults \in 0..MaxFaults
    BY ContentAssumption DEF Init
  <2>6. undone \in BOOLEAN
    BY DEF Init
  <2>7. QED
    BY <2>3, <2>4, <2>5, <2>6 DEF Init, DataOK, Version
<1>5. RecordAgrees /\ LinkIsNeverLost /\ OnlyPreparedIsLinked /\ UndoneAgrees
  BY DEF Init, RecordAgrees, LinkIsNeverLost, OnlyPreparedIsLinked, UndoneAgrees,
     Interrupted
<1>6. QED
  BY <1>2, <1>3, <1>4, <1>5 DEF Inv

\* Every step keeps the invariant.
LEMMA InvKept == Inv /\ [Next]_vars => Inv'
<1>. SUFFICES ASSUME Inv, [Next]_vars PROVE Inv'
  OBVIOUS
<1>1. CASE RemoveLock
  BY <1>1, RemoveLockKeeps
<1>2. ASSUME NEW t \in Tools, Prepare(t) \/ Switch(t) \/ Rollback(t) PROVE Inv'
  <2>1. CASE Prepare(t)
    BY <2>1, BeginKeeps DEF Prepare, Version
  <2>2. CASE Switch(t)
    BY <2>2, BeginKeeps DEF Switch, Version
  <2>3. CASE Rollback(t)
    BY <2>3, BeginKeeps DEF Rollback, Version
  <2>4. QED
    BY <1>2, <2>1, <2>2, <2>3
<1>3. ASSUME NEW t \in Tools, Proceed(t) PROVE Inv'
  BY <1>3, LookKeeps, InstallKeeps, DescribeKeeps, ChooseKeeps, LinkAsideKeeps,
     AnnounceKeeps, HideKeeps, ShowKeeps, RecoverKeeps, ConfirmKeeps, RememberKeeps,
     DropKeeps, RestoreKeeps, TidyKeeps, CloseKeeps DEF Proceed
<1>4. ASSUME NEW t \in Tools, Break(t) PROVE Inv'
  BY <1>4, DieKeeps, FailKeeps, FailToAnnounceKeeps, FailToMoveKeeps, FailToForgetKeeps
     DEF Break
<1>5. CASE UNCHANGED vars
  <2>1. Sound /\ Sound'
    BY <1>5, SoundKept DEF Inv, Sound, DataOK, vars, links, record
  <2>2. ToolsOK' /\ Agreement' /\ RecoveryRecorded'
    BY <1>5 DEF Inv, vars, links, record, ToolsOK, Agreement, RecoveryRecorded,
       PrepareAgrees, SwitchAgrees, RecoveryAgrees, Interrupted, At, Ready
  <2>3. QED
    BY <2>1, <2>2 DEF Inv, Sound
<1>6. QED
  BY <1>1, <1>2, <1>3, <1>4, <1>5 DEF Next

-----------------------------------------------------------------------------
(* The theorems. *)

\* The inductive invariant holds in every reachable state.
THEOREM InvHolds == Spec => []Inv
BY InvInitially, InvKept, PTL DEF Spec

\* Every file is absent or well formed, and a command at work holds the lock.
THEOREM TypeCorrect == Spec => []ContentTypeOK
<1>1. Inv => ContentTypeOK
  BY DEF Inv, ContentTypeOK, DataOK, ToolsOK, RecoveryRecorded, Recovering, Command,
     Working
<1>2. QED
  BY <1>1, InvHolds, PTL

\* Whatever dies or fails, and how often, the way to the release in force is known.
THEOREM LinkStays == Spec => []LinkIsNeverLost
<1>1. Inv => LinkIsNeverLost
  BY DEF Inv
<1>2. QED
  BY <1>1, InvHolds, PTL

\* The game loads complete releases only.
THEOREM OnlyPrepared == Spec => []OnlyPreparedIsLinked
<1>1. Inv => OnlyPreparedIsLinked
  BY DEF Inv
<1>2. QED
  BY <1>1, InvHolds, PTL

\* A rollback that took effect is not followed by another.
THEOREM BackOnce == Spec => RollbackOnce
<1>1. Inv /\ [Next]_vars =>
        [pending' # pending /\ Interrupted' /\ pending'.rollback => ~undone]_vars
  <2>. SUFFICES ASSUME Inv, Next, pending' # pending, Interrupted', pending'.rollback, undone
                PROVE  FALSE
    OBVIOUS
  <2>1. PICK t \in Tools : Announce(t)
    BY DEF Next, RemoveLock, Prepare, Switch, Rollback, Begin, Proceed, Break, Look,
       Install, Describe, Choose, LinkAside, Hide, Show, Recover, Confirm, Remember, Drop,
       Restore, Tidy, Close, Die, Fail, FailToAnnounce, FailToMove, FailToForget,
       Interrupted
  <2>2. tools[t].op = "rollback"
    BY <2>1 DEF Announce
  <2>3. ~Interrupted /\ tools[t].version \in Versions
        /\ tools[t].version = previous /\ tools[t].version # current
    BY <2>1, <2>2 DEF Announce, At, Inv, Agreement, SwitchAgrees, Switching
  <2>4. QED
    BY <2>3, ContentAssumption DEF Inv, UndoneAgrees
<1>2. QED
  BY <1>1, InvHolds, PTL DEF Spec, RollbackOnce

=============================================================================
