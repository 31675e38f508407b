--------------------------- MODULE WindowsUpdate ----------------------------
(***************************************************************************)
(* `ecctl update` on Windows: the command records a pending update under a *)
(* lock directory and leaves both to a helper process, which waits for the *)
(* command to exit, claims the lock by its token, replaces the executable  *)
(* and records how it went; a later update command reports and clears the  *)
(* record (pkg/updater/replace_windows.go).                                *)
(*                                                                         *)
(* A token is the command that drew it.  The helper keeps the owner file   *)
(* open without sharing: until it is closed nobody can read or remove it   *)
(* or rename its directory.  The record is replaced as a whole; the lock   *)
(* is a directory and a file in it, made and removed one after the other.  *)
(***************************************************************************)
EXTENDS Integers

CONSTANTS
  Updaters,  \* update commands; each has a token and, later, a helper
  Gone,      \* those of them that were killed, with their helpers, before the model
  Target,    \* the version each of them installs
  First,     \* the version installed at the start
  Other,     \* a version somebody else may put there
  Nobody, Torn, NoLock, NoStatus, Free,
  MaxFaults, \* bound: failed calls and probes, killed commands and helpers
  MaxEdits   \* bound: replacements of the executable by others

Versions == {First, Other} \cup {Target[u] : u \in Updaters}
Locks == [owner : Updaters \cup {Nobody, Torn}, old : BOOLEAN]
Statuses == [state : {"pending", "succeeded", "failed"}, by : Updaters,
             helper : BOOLEAN, age : {"young", "old", "expired"}]

ASSUME GoneAssumption == Gone \subseteq Updaters
ASSUME VersionsAssumption ==
  /\ Target \in [Updaters -> Nat] /\ First \in Nat /\ Other \in Nat
ASSUME NamesAssumption ==
  /\ Nobody \notin Updaters /\ Torn \notin Updaters /\ Free \notin Updaters /\ Nobody # Torn
  /\ NoLock \notin Locks /\ NoStatus \notin Statuses
ASSUME BoundsAssumption == MaxFaults \in Nat /\ MaxEdits \in Nat

VARIABLES
  exe,      \* the version of the installed executable
  lock,     \* the lock directory, and whether it is older than five minutes
  status,   \* the recorded update; older than five minutes, than thirty?
  guard,    \* whose helper holds the owner file open
  pc,       \* where each command is
  mine,     \* the version of the running command
  token,    \* the token whose lock and record a command is removing
  after,    \* what it does then
  result,
  step,     \* where each command's helper is
  backup,   \* the version each helper backed up
  verified, \* history: updates whose helper found the new version in place
  told,     \* history: updates whose failure a later command has reported
  faults, edits

command == <<pc, mine, token, after, result>>
vars == <<exe, lock, status, guard, command, step, backup, verified, told, faults, edits>>

-----------------------------------------------------------------------------
Fails == faults < MaxFaults /\ faults' = faults + 1
Works == UNCHANGED faults

Goto(u, label) == pc' = [pc EXCEPT ![u] = label] /\ UNCHANGED <<token, after, result>>
Finish(u, res) ==
  /\ pc' = [pc EXCEPT ![u] = "done"] /\ result' = [result EXCEPT ![u] = res]
  /\ UNCHANGED <<token, after>>
\* Remove the lock (label "match"), or first the record, of a token.
Remove(u, label, t, then) ==
  /\ pc' = [pc EXCEPT ![u] = label] /\ token' = [token EXCEPT ![u] = t]
  /\ after' = [after EXCEPT ![u] = then] /\ UNCHANGED result
Abandon(u) == Remove(u, "match", u, "abandon")

Pending(u, helper) == [state |-> "pending", by |-> u, helper |-> helper, age |-> "young"]
Ended(u, state) == [state |-> state, by |-> u, helper |-> FALSE, age |-> "young"]

Alone == UNCHANGED <<exe, guard, mine, step, backup, verified, told, edits>>

-----------------------------------------------------------------------------
(***************************************************************************)
(* checkPendingInstall, before the download.                               *)
(***************************************************************************)
Start(u) ==
  /\ pc[u] = "start"
  /\ mine' = [mine EXCEPT ![u] = exe] /\ Goto(u, "check")
  /\ UNCHANGED <<exe, lock, status, guard, step, backup, verified, told, faults, edits>>

OwnerReadable(t) == lock # NoLock /\ lock.owner = t /\ guard = Free
Waiting == {"wait"}
Applying == {"backup", "install", "verify", "restore", "dropBackup", "succeed", "failed", "close"}

\* A young record blocks, an older one while its helper runs.  A helper that
\* has claimed the lock does not count: its owner file cannot be read.
StillPending(s) ==
  \/ s.age = "young"
  \/ s.age = "old" /\ s.helper /\ step[s.by] \in Waiting \cup Applying /\ OwnerReadable(s.by)

Check(u) ==
  /\ pc[u] = "check"
  /\ \/ status = NoStatus /\ Goto(u, "download") /\ Works
     \/ /\ status # NoStatus /\ Works
        /\ IF mine[u] = Target[status.by] /\ status.state # "failed"
             THEN Remove(u, "clear", status.by, "download")
           ELSE IF status.state = "pending" /\ StillPending(status)
             THEN Finish(u, "busy")
           ELSE Remove(u, "clear", status.by, "report")
     \/ status # NoStatus /\ Fails /\ Finish(u, "failed")
  /\ UNCHANGED <<lock, status>> /\ Alone

\* What follows once the lock is removed, or found to be another's.
Removed(u, ok) ==
  \/ after[u] = "download" /\ Goto(u, "download") /\ UNCHANGED told
  \/ after[u] = "report" /\ Finish(u, "failed") /\ told' = told \cup {token[u]}
  \/ after[u] = "abandon" /\ Finish(u, "failed") /\ UNCHANGED told
  \/ /\ after[u] = "reclaim" /\ UNCHANGED told
     /\ IF ok THEN Goto(u, "mkdir") ELSE Finish(u, "busy")
Removing == UNCHANGED <<exe, guard, mine, step, backup, verified, edits>>

\* clearWindowsUpdateState reads the record again before it removes it, and
\* leaves the lock alone when the record is another's or stays.
Clear(u) ==
  /\ pc[u] = "clear"
  /\ IF status # NoStatus /\ status.by = token[u]
       THEN Goto(u, "unrecord") /\ UNCHANGED told
       ELSE Removed(u, FALSE)
  /\ UNCHANGED <<lock, status, faults>> /\ Removing

Unrecord(u) ==
  /\ pc[u] = "unrecord"
  /\ \/ status # NoStatus /\ Works /\ status' = NoStatus /\ Goto(u, "match") /\ UNCHANGED told
     \/ status = NoStatus /\ Works /\ Removed(u, FALSE) /\ UNCHANGED status
     \/ status # NoStatus /\ Fails /\ Removed(u, FALSE) /\ UNCHANGED status
  /\ UNCHANGED lock /\ Removing

-----------------------------------------------------------------------------
(***************************************************************************)
(* The lock directory.                                                     *)
(***************************************************************************)
\* removeWindowsUpdateLock: compare the owner, remove its file, then the
\* directory.  Each of the three meets whatever is there by then.
Match(u) ==
  /\ pc[u] = "match"
  /\ IF OwnerReadable(token[u])
       THEN Goto(u, "unlink") /\ UNCHANGED told
       ELSE Removed(u, FALSE)
  /\ UNCHANGED <<lock, status, faults>> /\ Removing

MutOwnerRemovable == lock # NoLock /\ lock.owner # Nobody \* mutant: the open file is shared
OwnerRemovable == lock # NoLock /\ lock.owner # Nobody /\ guard = Free

Unlink(u) ==
  /\ pc[u] = "unlink"
  /\ \/ /\ OwnerRemovable /\ lock' = [owner |-> Nobody, old |-> FALSE]
        /\ Works /\ Goto(u, "rmdir") /\ UNCHANGED told
     \/ ~OwnerRemovable /\ Works /\ Removed(u, FALSE) /\ UNCHANGED lock
     \/ OwnerRemovable /\ Fails /\ Removed(u, FALSE) /\ UNCHANGED lock
  /\ UNCHANGED status /\ Removing

Empty == lock # NoLock /\ lock.owner = Nobody
Rmdir(u) ==
  /\ pc[u] = "rmdir"
  /\ \/ Empty /\ Works /\ lock' = NoLock /\ Removed(u, TRUE)
     \/ ~Empty /\ Works /\ Removed(u, FALSE) /\ UNCHANGED lock
     \/ Fails /\ Removed(u, FALSE) /\ UNCHANGED lock
  /\ UNCHANGED status /\ Removing

\* The release is fetched, staged beside the executable and probed there.
Download(u) ==
  /\ pc[u] = "download"
  /\ \/ Target[u] > mine[u] /\ Works /\ Goto(u, "mkdir")
     \/ Target[u] <= mine[u] /\ Works /\ Finish(u, "current")
     \/ Fails /\ Finish(u, "failed")
  /\ UNCHANGED <<lock, status>> /\ Alone

Mkdir(u) ==
  /\ pc[u] = "mkdir"
  /\ \/ /\ lock = NoLock /\ Works
        /\ lock' = [owner |-> Nobody, old |-> FALSE] /\ Goto(u, "own")
     \/ lock # NoLock /\ Works /\ Goto(u, "stat") /\ UNCHANGED lock
     \/ Fails /\ Finish(u, "failed") /\ UNCHANGED lock
  /\ UNCHANGED status /\ Alone

\* The owner file is created exclusively, in whichever directory is there.
Own(u) ==
  /\ pc[u] = "own"
  /\ \/ Empty /\ Works /\ lock' = [owner |-> u, old |-> FALSE] /\ Goto(u, "current")
     \/ ~Empty /\ Works /\ Finish(u, "failed") /\ UNCHANGED lock
     \/ Empty /\ Fails /\ Finish(u, "failed") /\ lock' = NoLock
  /\ UNCHANGED status /\ Alone

\* A lock older than five minutes is taken over: by its token when the owner
\* can be read, else by moving the directory out of the way.
Stat(u) ==
  /\ pc[u] = "stat"
  /\ IF lock # NoLock /\ lock.old THEN Goto(u, "read") ELSE Finish(u, "busy")
  /\ UNCHANGED <<lock, status, faults>> /\ Alone

ReadOwner(u) ==
  /\ pc[u] = "read"
  /\ \/ \E t \in Updaters : OwnerReadable(t) /\ Remove(u, "match", t, "reclaim")
     \/ (\A t \in Updaters : ~OwnerReadable(t)) /\ Goto(u, "quarantine")
  /\ UNCHANGED <<lock, status, faults>> /\ Alone

Quarantine(u) ==
  /\ pc[u] = "quarantine"
  /\ \/ lock # NoLock /\ guard = Free /\ Works /\ lock' = NoLock /\ Goto(u, "mkdir")
     \/ (lock = NoLock \/ guard # Free) /\ Works /\ Finish(u, "busy") /\ UNCHANGED lock
     \/ Fails /\ Finish(u, "busy") /\ UNCHANGED lock
  /\ UNCHANGED status /\ Alone

-----------------------------------------------------------------------------
(***************************************************************************)
(* installPreparedExecutable under the lock.                               *)
(***************************************************************************)
MutStillMine(u) == TRUE \* mutant: the executable is not probed again under the lock
StillMine(u) == exe = mine[u]

VerifyCurrent(u) ==
  /\ pc[u] = "current"
  /\ \/ StillMine(u) /\ Works /\ Goto(u, "record")
     \/ ~StillMine(u) /\ Works /\ Abandon(u)
     \/ Fails /\ Abandon(u)
  /\ UNCHANGED <<lock, status>> /\ Alone

Record(u) ==
  /\ pc[u] = "record"
  /\ \/ Works /\ status' = Pending(u, FALSE) /\ Goto(u, "launch")
     \/ Fails /\ Abandon(u) /\ UNCHANGED status
  /\ UNCHANGED lock /\ Alone

\* The command's own failures from here on are recorded if that succeeds.
RecordFailure(u) == status' \in {status, Ended(u, "failed")}

Launch(u) ==
  /\ pc[u] = "launch"
  /\ \/ Works /\ step' = [step EXCEPT ![u] = "wait"] /\ Goto(u, "confirm") /\ UNCHANGED status
     \/ Fails /\ RecordFailure(u) /\ Abandon(u) /\ UNCHANGED step
  /\ UNCHANGED <<exe, lock, guard, mine, backup, verified, told, edits>>

\* The lock stays with the helper; a helper that cannot be recorded is killed.
Confirm(u) ==
  /\ pc[u] = "confirm"
  /\ \/ Works /\ status' = Pending(u, TRUE) /\ Finish(u, "pending") /\ UNCHANGED step
     \/ Fails /\ RecordFailure(u) /\ Abandon(u) /\ step' = [step EXCEPT ![u] = "ended"]
  /\ UNCHANGED <<exe, lock, guard, mine, backup, verified, told, edits>>

-----------------------------------------------------------------------------
(***************************************************************************)
(* applyPendingUpdate, in the helper.                                      *)
(***************************************************************************)
At(u, label, next) == step[u] = label /\ step' = [step EXCEPT ![u] = next]
Helper == UNCHANGED <<lock, command, told, edits>>

MutClaimable(u) == lock # NoLock /\ guard = Free \* mutant: any token will do
Claimable(u) == OwnerReadable(u)

MutGiveUp(u) == FALSE \* mutant: the helper waits for its token
GiveUp(u) == ~Claimable(u)

\* Once the command is gone; without its token the helper leaves no record.
Claim(u) ==
  /\ pc[u] \in {"done", "dead"}
  /\ \/ Claimable(u) /\ Works /\ At(u, "wait", "backup") /\ guard' = u
     \/ GiveUp(u) /\ Works /\ At(u, "wait", "ended") /\ UNCHANGED guard
     \/ Fails /\ At(u, "wait", "ended") /\ UNCHANGED guard
  /\ UNCHANGED <<exe, status, backup, verified>> /\ Helper

BackUp(u) ==
  /\ \/ Works /\ At(u, "backup", "install") /\ backup' = [backup EXCEPT ![u] = exe]
     \/ Fails /\ At(u, "backup", "failed") /\ UNCHANGED backup
  /\ UNCHANGED <<exe, status, guard, verified>> /\ Helper

Install(u) ==
  /\ \/ Works /\ At(u, "install", "verify") /\ exe' = Target[u]
     \/ Fails /\ At(u, "install", "failed") /\ UNCHANGED exe
  /\ UNCHANGED <<status, guard, backup, verified>> /\ Helper

VerifyInPlace(u) ==
  /\ \/ /\ exe = Target[u] /\ Works /\ At(u, "verify", "dropBackup")
        /\ verified' = verified \cup {u}
     \/ exe # Target[u] /\ Works /\ At(u, "verify", "restore") /\ UNCHANGED verified
     \/ Fails /\ At(u, "verify", "restore") /\ UNCHANGED verified
  /\ UNCHANGED <<exe, status, guard, backup>> /\ Helper

Restore(u) ==
  /\ At(u, "restore", "failed")
  /\ \/ Works /\ exe' = backup[u]
     \/ Fails /\ UNCHANGED exe
  /\ UNCHANGED <<status, guard, backup, verified>> /\ Helper

\* A backup that cannot be removed makes the update a failure, although the
\* new version is in place; so does a success that cannot be recorded.
DropBackup(u) ==
  /\ \/ Works /\ At(u, "dropBackup", "succeed")
     \/ Fails /\ At(u, "dropBackup", "failed")
  /\ UNCHANGED <<exe, status, guard, backup, verified>> /\ Helper

Succeed(u) ==
  /\ \/ Works /\ At(u, "succeed", "close") /\ status' = Ended(u, "succeeded")
     \/ Fails /\ At(u, "succeed", "failed") /\ UNCHANGED status
  /\ UNCHANGED <<exe, guard, backup, verified>> /\ Helper

Failed(u) ==
  /\ At(u, "failed", "close")
  /\ \/ Works /\ status' = Ended(u, "failed")
     \/ Fails /\ UNCHANGED status
  /\ UNCHANGED <<exe, guard, backup, verified>> /\ Helper

\* The lock directory stays until a later command clears the record.
Close(u) ==
  /\ At(u, "close", "ended") /\ guard' = Free
  /\ UNCHANGED <<exe, status, backup, verified, faults>> /\ Helper

-----------------------------------------------------------------------------
Running(u) == pc[u] \notin {"start", "done", "dead"}

\* A killed command leaves its files; the owner file perhaps half written.
Kill(u) ==
  /\ Running(u) /\ Fails
  /\ Goto(u, "dead")
  /\ \/ UNCHANGED lock
     \/ /\ pc[u] = "own" /\ Empty
        /\ lock' = [owner |-> Torn, old |-> FALSE]
  /\ UNCHANGED status /\ Alone

KillHelper(u) ==
  /\ step[u] \in Waiting \cup Applying /\ Fails
  /\ step' = [step EXCEPT ![u] = "ended"]
  /\ guard' = IF guard = u THEN Free ELSE guard
  /\ UNCHANGED <<exe, status, backup, verified>> /\ Helper

\* Time passes: five minutes for the lock, five and thirty for the record.
AgeLock ==
  /\ lock # NoLock /\ ~lock.old /\ lock' = [lock EXCEPT !.old = TRUE]
  /\ UNCHANGED <<status, command, faults>> /\ Alone
AgeStatus ==
  /\ status # NoStatus /\ status.age # "expired"
  /\ status' = [status EXCEPT !.age = IF @ = "young" THEN "old" ELSE "expired"]
  /\ UNCHANGED <<lock, command, faults>> /\ Alone

Edit ==
  /\ edits < MaxEdits /\ edits' = edits + 1 /\ exe' = Other
  /\ UNCHANGED <<lock, status, guard, command, step, backup, verified, told, faults>>

\* A command that is gone may have left its lock, whole or not, and a record.
Left ==
  {<<NoLock, NoStatus>>} \cup
  {<<[owner |-> o, old |-> TRUE], NoStatus>> : o \in IF Gone = {} THEN {} ELSE Gone \cup {Nobody, Torn}} \cup
  {<<[owner |-> g, old |-> TRUE], Pending(g, helper)>> : g \in Gone, helper \in BOOLEAN}

Init ==
  /\ \E left \in Left : lock = left[1] /\ status = left[2]
  /\ exe = First /\ guard = Free
  /\ pc = [u \in Updaters |-> IF u \in Gone THEN "dead" ELSE "start"]
  /\ mine = [u \in Updaters |-> First] /\ backup = [u \in Updaters |-> First]
  /\ token = [u \in Updaters |-> u] /\ after = [u \in Updaters |-> "none"]
  /\ result = [u \in Updaters |-> "none"] /\ step = [u \in Updaters |-> "none"]
  /\ verified = {} /\ told = {} /\ faults = 0 /\ edits = 0

Commands(u) ==
  \/ Check(u) \/ Clear(u) \/ Unrecord(u) \/ Match(u) \/ Unlink(u) \/ Rmdir(u)
  \/ Download(u) \/ Mkdir(u) \/ Own(u) \/ Stat(u) \/ ReadOwner(u) \/ Quarantine(u)
  \/ VerifyCurrent(u) \/ Record(u) \/ Launch(u) \/ Confirm(u)
Helpers(u) ==
  \/ Claim(u) \/ BackUp(u) \/ Install(u) \/ VerifyInPlace(u) \/ Restore(u)
  \/ DropBackup(u) \/ Succeed(u) \/ Failed(u) \/ Close(u)

Next ==
  \/ \E u \in Updaters : Start(u) \/ Commands(u) \/ Helpers(u) \/ Kill(u) \/ KillHelper(u)
  \/ AgeLock \/ AgeStatus \/ Edit

Spec == Init /\ [][Next]_vars
\* Processes that run go on; nobody has to start one, and time need not pass.
FairSpec == Spec /\ \A u \in Updaters : WF_vars(Commands(u)) /\ WF_vars(Helpers(u))

-----------------------------------------------------------------------------
\* Types, and that a helper in the replacement holds the lock of its token.
TypeOK ==
  /\ exe \in Versions /\ lock \in Locks \cup {NoLock} /\ status \in Statuses \cup {NoStatus}
  /\ guard \in Updaters \cup {Free}
  /\ \A u \in Updaters : step[u] \in Applying <=> guard = u
  /\ guard # Free => lock # NoLock /\ lock.owner = guard
  /\ pc \in [Updaters -> {"start", "check", "clear", "unrecord", "match", "unlink", "rmdir",
                          "download", "mkdir", "own", "stat", "read", "quarantine",
                          "current", "record", "launch", "confirm", "done", "dead"}]
  /\ mine \in [Updaters -> Versions] /\ backup \in [Updaters -> Versions]
  /\ token \in [Updaters -> Updaters]
  /\ after \in [Updaters -> {"none", "download", "report", "abandon", "reclaim"}]
  /\ result \in [Updaters -> {"none", "busy", "failed", "current", "pending"}]
  /\ step \in [Updaters -> {"none", "ended"} \cup Waiting \cup Applying]
  /\ verified \subseteq Updaters /\ told \subseteq Updaters
  /\ faults \in 0..MaxFaults /\ edits \in 0..MaxEdits

\* However commands race for a stale lock, a helper replaces the very version
\* its command ran as and compared with, and a rollback brings that one back
\* (replace_windows.go: "current executable changed before update").
ReplacesSeen ==
  [][\A u \in Updaters :
       edits = 0 =>
         /\ step[u] = "install" /\ step'[u] = "verify" => exe = mine[u]
         /\ step[u] = "restore" /\ step'[u] = "failed" /\ exe' # exe => exe' = mine[u]]_vars

\* An update that was found in place is not undone by a helper that comes later.
NoDowngrade == \A u \in verified : edits = 0 => exe >= Target[u]

\* Every update command and every helper ends, also one whose lock was taken
\* over by another command (replace_windows.go: openWindowsUpdateLockGuard).
UpdatesEnd == <>[](\A u \in Updaters : ~Running(u) /\ step[u] \notin Waiting \cup Applying)

\* "A later explicit `ecctl update` reports any incomplete or failed
\* replacement" (updates.md:86): as long as no one has, the record is there.  It
\* does not hold when another update that checked earlier records its own.
ReportsFailures ==
  \A u \in Updaters :
    result[u] = "pending" /\ step[u] = "ended" /\ u \notin verified /\ u \notin told =>
      \/ status # NoStatus /\ status.by = u
      \/ \E v \in Updaters : Running(v) /\ token[v] = u /\ after[v] = "report"
=============================================================================
