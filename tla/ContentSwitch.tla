---------------------------- MODULE ContentSwitch ----------------------------
(***************************************************************************)
(* The content tool on one Node, for one map.                              *)
(*                                                                         *)
(* Prepared releases are directories with a VPK that never changes, and a  *)
(* metadata file beside them.  The game loads what the link in its addon   *)
(* directory points to; current.json names that release for the            *)
(* Controller, previous.json the one a rollback returns to.  A switch puts *)
(* the old link aside and the new one in its place, and records first what *)
(* it is about to do: the next switch or rollback finishes or undoes what  *)
(* an interrupted one has left.                                            *)
(*                                                                         *)
(* Every step is one change of the file system.  At every step the process *)
(* may die, which leaves its lock file, or the change may fail, which ends *)
(* the command with an error.                                              *)
(***************************************************************************)
EXTENDS Naturals

CONSTANTS
  Versions,   \* releases of the map
  Contents,   \* VPK files they may be prepared from
  Tools,      \* processes of the tool
  None,       \* no version, content or process
  MaxFaults   \* bound: deaths and failures

ASSUME ContentAssumption ==
  /\ None \notin Versions \cup Contents \cup Tools
  /\ MaxFaults \in Nat

VARIABLES
  releases,   \* the VPK of each release directory, and the one its metadata record
  link,       \* the release the addon link points to
  temp,       \* the release the newest temporary link points to
  backup,     \* the release the link put aside points to
  pending,    \* pending.json: what a switch is about to do
  current,    \* current.json
  previous,   \* previous.json
  lock,       \* the process whose lock file exists
  tools,      \* the commands under way
  faults,     \* deaths and failures so far
  undone      \* history: the last change of the link was a rollback's

links  == <<link, temp, backup>>
record == <<current, previous>>
vars   == <<releases, links, pending, record, lock, tools, faults, undone>>

-----------------------------------------------------------------------------
NoRelease    == [vpk |-> None, recorded |-> None]
NoTransition == [old |-> None, new |-> None, rollback |-> FALSE]
Idle == [at |-> "idle", op |-> "none", version |-> None, vpk |-> None, old |-> None]

Working(t) == tools[t].at # "idle"
At(t, step) == tools[t].at = step
Go(t, step) == tools' = [tools EXCEPT ![t].at = step]

\* The command ends, well or with an error, and removes its lock.
Leave(t) ==
  /\ tools' = [tools EXCEPT ![t] = Idle]
  /\ lock' = None

Interrupted == pending # NoTransition

\* Faulty: a release directory without metadata will do.
ReadyUnrecorded(v) == releases[v].vpk # None

\* The release's VPK is the one its metadata record.
Ready(v) == releases[v].recorded # None /\ releases[v].vpk = releases[v].recorded

\* What current.json says and what the link shows are the same, or neither exists.
Consistent == link = current /\ (current # None => Ready(current))

-----------------------------------------------------------------------------
(* Commands.  The lock file is created exclusively. *)

\* Faulty: whoever else is at work.
BeginUnlocked(t, op, v, c) ==
  /\ ~Working(t)
  /\ lock' = t
  /\ tools' = [tools EXCEPT
       ![t] = [Idle EXCEPT !.at = IF op = "prepare" THEN "look" ELSE "recover",
                           !.op = op, !.version = v, !.vpk = c]]
  /\ UNCHANGED <<releases, links, pending, record, faults, undone>>

Begin(t, op, v, c) ==
  /\ ~Working(t) /\ lock = None
  /\ lock' = t
  /\ tools' = [tools EXCEPT
       ![t] = [Idle EXCEPT !.at = IF op = "prepare" THEN "look" ELSE "recover",
                           !.op = op, !.version = v, !.vpk = c]]
  /\ UNCHANGED <<releases, links, pending, record, faults, undone>>

Prepare(t)  == \E v \in Versions, c \in Contents : Begin(t, "prepare", v, c)
Switch(t)   == \E v \in Versions : Begin(t, "switch", v, None)
Rollback(t) == Begin(t, "rollback", None, None)

-----------------------------------------------------------------------------
(* Preparing a release. *)

\* A release directory there already is may lack its metadata, but not differ.
Look(t) ==
  LET release == releases[tools[t].version]
  IN  /\ At(t, "look")
      /\ IF release = NoRelease
           THEN Go(t, "install") /\ UNCHANGED lock
         ELSE IF release = [vpk |-> tools[t].vpk, recorded |-> None]
           THEN Go(t, "describe") /\ UNCHANGED lock
         ELSE Leave(t)
      /\ UNCHANGED <<releases, links, pending, record, faults, undone>>

\* The copy, complete and compared with its source, is moved into place.
Install(t) ==
  /\ At(t, "install")
  /\ releases' = [releases EXCEPT ![tools[t].version].vpk = tools[t].vpk]
  /\ Go(t, "describe")
  /\ UNCHANGED <<links, pending, record, lock, faults, undone>>

Describe(t) ==
  /\ At(t, "describe")
  /\ releases' = [releases EXCEPT ![tools[t].version].recorded = tools[t].vpk]
  /\ Leave(t)
  /\ UNCHANGED <<links, pending, record, faults, undone>>

-----------------------------------------------------------------------------
(* Switching: what comes after the recovery of an earlier transition. *)

\* A rollback to the release in place has nothing to do but forget the way back.
Choose(t) ==
  LET version == IF tools[t].op = "rollback" THEN previous ELSE tools[t].version
      valid   == version # None /\ Ready(version) /\ Consistent
  IN  /\ At(t, "choose")
      /\ IF valid /\ version # current
           THEN /\ tools' = [tools EXCEPT ![t].at = "link", ![t].version = version,
                                          ![t].old = current]
                /\ UNCHANGED <<previous, lock>>
           ELSE /\ previous' = IF valid /\ tools[t].op = "rollback" THEN None ELSE previous
                /\ Leave(t)
      /\ UNCHANGED <<releases, links, pending, current, faults, undone>>

LinkAside(t) ==
  /\ At(t, "link")
  /\ temp' = tools[t].version
  /\ Go(t, "announce")
  /\ UNCHANGED <<releases, link, backup, pending, record, lock, faults, undone>>

Announce(t) ==
  /\ At(t, "announce")
  /\ pending' = [old |-> tools[t].old, new |-> tools[t].version,
                 rollback |-> tools[t].op = "rollback"]
  /\ Go(t, IF tools[t].old = None THEN "show" ELSE "hide")
  /\ UNCHANGED <<releases, links, record, lock, faults, undone>>

Hide(t) ==
  /\ At(t, "hide")
  /\ backup' = link /\ link' = None
  /\ Go(t, "show")
  /\ UNCHANGED <<releases, temp, pending, record, lock, faults, undone>>

Show(t) ==
  /\ At(t, "show")
  /\ link' = temp /\ temp' = None
  /\ undone' = (tools[t].op = "rollback")
  /\ tools' = [tools EXCEPT ![t].at = "recover", ![t].op = "finish"]
  /\ UNCHANGED <<releases, backup, pending, record, lock, faults>>

-----------------------------------------------------------------------------
(* recoverTransition: first thing in a switch or rollback, and the last. *)

\* At the start of a command it goes on; at its end, what is left is a readback.
Return(t) ==
  IF tools[t].op = "finish" THEN Leave(t)
  ELSE Go(t, "choose") /\ UNCHANGED lock

Recover(t) ==
  /\ At(t, "recover")
  /\ IF ~Interrupted THEN Return(t)
     ELSE IF link # pending.new THEN Go(t, "restore") /\ UNCHANGED lock
     ELSE IF Ready(link) THEN Go(t, "confirm") /\ UNCHANGED lock
     ELSE Leave(t)
  /\ UNCHANGED <<releases, links, pending, record, faults, undone>>

Confirm(t) ==
  /\ At(t, "confirm")
  /\ current' = pending.new
  /\ Go(t, "remember")
  /\ UNCHANGED <<releases, links, pending, previous, lock, faults, undone>>

\* Faulty: a rollback can be undone like a switch.
RememberAlways(t) ==
  /\ At(t, "remember")
  /\ previous' = pending.old
  /\ Go(t, "drop")
  /\ UNCHANGED <<releases, links, pending, current, lock, faults, undone>>

Remember(t) ==
  /\ At(t, "remember")
  /\ previous' = IF pending.rollback THEN None ELSE pending.old
  /\ Go(t, "drop")
  /\ UNCHANGED <<releases, links, pending, current, lock, faults, undone>>

\* Faulty: the link put aside has to be there still.
DropStrictly(t) ==
  /\ At(t, "drop")
  /\ IF backup = pending.old
       THEN backup' = None /\ Go(t, "tidy") /\ UNCHANGED lock
       ELSE UNCHANGED backup /\ Leave(t)
  /\ UNCHANGED <<releases, link, temp, pending, record, faults, undone>>

\* A link is removed only if it points where it should, or is gone already.
Drop(t) ==
  /\ At(t, "drop")
  /\ IF pending.old = None \/ backup \in {None, pending.old}
       THEN backup' = None /\ Go(t, "tidy") /\ UNCHANGED lock
       ELSE UNCHANGED backup /\ Leave(t)
  /\ UNCHANGED <<releases, link, temp, pending, record, faults, undone>>

\* Faulty: the link put aside is forgotten.
RestoreNothing(t) ==
  /\ At(t, "restore")
  /\ Go(t, "tidy")
  /\ UNCHANGED <<releases, links, pending, record, lock, faults, undone>>

\* The old link is still there, or is put back; nothing unknown is overwritten.
Restore(t) ==
  /\ At(t, "restore")
  /\ IF link = pending.old
       THEN Go(t, "tidy") /\ UNCHANGED <<links, lock>>
     ELSE IF link = None /\ backup = pending.old
       THEN link' = backup /\ backup' = None /\ Go(t, "tidy") /\ UNCHANGED <<temp, lock>>
     ELSE Leave(t) /\ UNCHANGED links
  /\ UNCHANGED <<releases, pending, record, faults, undone>>

Tidy(t) ==
  /\ At(t, "tidy")
  /\ IF temp \in {None, pending.new}
       THEN temp' = None /\ Go(t, "close") /\ UNCHANGED lock
       ELSE UNCHANGED temp /\ Leave(t)
  /\ UNCHANGED <<releases, link, backup, pending, record, faults, undone>>

Close(t) ==
  /\ At(t, "close")
  /\ pending' = NoTransition
  /\ Return(t)
  /\ UNCHANGED <<releases, links, record, faults, undone>>

-----------------------------------------------------------------------------
(* Faults, and the operator. *)

Fault == faults < MaxFaults /\ faults' = faults + 1

Die(t) ==
  /\ Fault /\ Working(t)
  /\ tools' = [tools EXCEPT ![t] = Idle]
  /\ UNCHANGED <<releases, links, pending, record, lock, undone>>

\* A change that fails ends the command.
Fail(t) ==
  /\ Fault /\ Working(t) /\ ~\E step \in {"announce", "hide", "show"} : At(t, step)
  /\ Leave(t)
  /\ UNCHANGED <<releases, links, pending, record, undone>>

FailToAnnounce(t) ==
  /\ Fault /\ At(t, "announce")
  /\ temp' = None
  /\ Leave(t)
  /\ UNCHANGED <<releases, link, backup, pending, record, undone>>

\* A link that cannot be moved makes the command undo what it has done.
FailToMove(t) ==
  /\ Fault /\ (At(t, "hide") \/ At(t, "show"))
  /\ tools' = [tools EXCEPT ![t].at = "recover", ![t].op = "finish"]
  /\ UNCHANGED <<releases, links, pending, record, lock, undone>>

\* That previous.json could not be removed is ignored.
FailToForget(t) ==
  /\ Fault /\ At(t, "remember") /\ (pending.rollback \/ pending.old = None)
  /\ Go(t, "drop")
  /\ UNCHANGED <<releases, links, pending, record, lock, undone>>

\* The operator has made sure that the process is gone.
RemoveLock ==
  /\ lock # None /\ ~Working(lock)
  /\ lock' = None
  /\ UNCHANGED <<releases, links, pending, record, tools, faults, undone>>

-----------------------------------------------------------------------------
Init ==
  /\ releases = [v \in Versions |-> NoRelease]
  /\ link = None /\ temp = None /\ backup = None
  /\ pending = NoTransition /\ current = None /\ previous = None
  /\ lock = None /\ tools = [t \in Tools |-> Idle]
  /\ faults = 0 /\ undone = FALSE

Proceed(t) ==
  \/ Look(t) \/ Install(t) \/ Describe(t)
  \/ Choose(t) \/ LinkAside(t) \/ Announce(t) \/ Hide(t) \/ Show(t)
  \/ Recover(t) \/ Confirm(t) \/ Remember(t) \/ Drop(t) \/ Restore(t) \/ Tidy(t) \/ Close(t)

Break(t) == Die(t) \/ Fail(t) \/ FailToAnnounce(t) \/ FailToMove(t) \/ FailToForget(t)

Next ==
  \/ RemoveLock
  \/ \E t \in Tools : Prepare(t) \/ Switch(t) \/ Rollback(t) \/ Proceed(t) \/ Break(t)

\* A command runs on unless it dies; the operator removes the lock of a dead one
\* and goes on trying to switch.
Fairness ==
  /\ \A t \in Tools : WF_vars(Proceed(t))
  /\ WF_vars(RemoveLock)
  /\ SF_vars(\E t \in Tools : Switch(t))

Spec == Init /\ [][Next]_vars /\ Fairness

-----------------------------------------------------------------------------
Version == Versions \cup {None}

Steps ==
  {"idle", "look", "install", "describe", "choose", "link", "announce", "hide", "show",
   "recover", "confirm", "remember", "drop", "restore", "tidy", "close"}

\* Every file is absent or well formed, a command at work holds the lock, and one
\* that recovers has a record to go by.
ContentTypeOK ==
  /\ releases \in [Versions -> [vpk : Contents \cup {None}, recorded : Contents \cup {None}]]
  /\ link \in Version /\ temp \in Version /\ backup \in Version
  /\ pending \in [old : Version, new : Version, rollback : BOOLEAN]
  /\ current \in Version /\ previous \in Version
  /\ lock \in Tools \cup {None}
  /\ faults \in 0..MaxFaults /\ undone \in BOOLEAN
  /\ \A t \in Tools :
       /\ tools[t] \in [at : Steps, op : {"none", "prepare", "switch", "rollback", "finish"},
                        version : Version, vpk : Contents \cup {None}, old : Version]
       /\ Working(t) => lock = t
       /\ tools[t].at \in {"confirm", "remember", "drop", "restore", "tidy", "close"} => Interrupted

\* However a switch or a recovery was interrupted, the link shows the release
\* current.json names or a record tells how to get there: the new link is in place,
\* the old one still is, or it was put aside and can be put back
\* (recoverTransition never has to give up with both links lost).
LinkIsNeverLost ==
  IF ~Interrupted THEN link = current
  ELSE \/ link = pending.new
       \/ link = pending.old /\ current = pending.old
       \/ link = None /\ backup = pending.old /\ current = pending.old

\* The game never loads a directory that is not a complete release, the link put
\* aside included: prepare moves the copy before it writes the metadata, and a
\* switch trusts the metadata.
OnlyPreparedIsLinked ==
  \A v \in {link, backup, current} \ {None} :
    releases[v].vpk # None /\ releases[v].recorded = releases[v].vpk

\* A rollback that was interrupted and is asked for again goes back once: after a
\* rollback took effect no other begins until something was switched to, even if
\* previous.json could not be removed.
RollbackOnce ==
  [][pending' # pending /\ Interrupted' /\ pending'.rollback => ~undone]_vars

\* No recovery refuses for ever: an operator who removes the lock of a dead process
\* and tries again gets rid of a half-done transition.
TransitionsEnd == Interrupted ~> ~Interrupted
=============================================================================
