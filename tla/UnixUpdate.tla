---------------------------- MODULE UnixUpdate -----------------------------
(***************************************************************************)
(* `ecctl update` of a direct installation on macOS and Linux: the running *)
(* executable is replaced in its own directory under a lock file, with a   *)
(* backup and a journal that the next explicit update reconciles           *)
(* (pkg/updater/replace_unix.go, install.go).                              *)
(*                                                                         *)
(* The directory is modelled as commands see it and as the set of          *)
(* directories a power loss may leave.  A file system may lose the changes *)
(* since the last directory sync from the last one backwards (ordered) or  *)
(* in any combination.  The candidate file of a command is private to it   *)
(* and left out; so is the journal's stage, which is recorded and          *)
(* validated but decides nothing.                                          *)
(***************************************************************************)
EXTENDS Integers

CONSTANTS
  Updaters,   \* update commands, one attempt (token, backup, target) each
  Target,     \* the version each of them installs
  First,      \* the version installed at the start
  Other,      \* a version somebody else may put there
  Missing, Partial, NoJournal, Free,
  MaxFaults,  \* bound: failed calls and probes, crashes and power losses
  MaxEdits    \* bound: replacements or removals of the executable by others

Versions == {First, Other} \cup {Target[u] : u \in Updaters}
Journals == [by : Updaters, from : Versions, to : Versions]

ASSUME VersionsAssumption ==
  /\ Target \in [Updaters -> Nat] /\ First \in Nat /\ Other \in Nat
  /\ \A u, v \in Updaters : Target[u] = Target[v] => u = v
  /\ \A u \in Updaters : Target[u] \notin {First, Other}
ASSUME NamesAssumption ==
  /\ Missing \notin Versions /\ Partial \notin Versions \cup {Missing}
  /\ NoJournal \notin Journals /\ Free \notin Updaters
ASSUME BoundsAssumption == MaxFaults \in Nat /\ MaxEdits \in Nat

VARIABLES
  dir,     \* executable, backups and journal, as they are seen
  disks,   \* the directories a power loss may leave
  lock,    \* holder of .ecctl-update.lock
  pc,
  mine,    \* the version of the running command
  state,   \* the journal a command works under, in its memory
  after,   \* where a cleanup returns to
  result,
  proven,  \* history: attempts whose target was probed in place
  ordered, \* does the file system keep the order of directory changes?
  faults, edits

vars == <<dir, disks, lock, pc, mine, state, after, result, proven, ordered, faults, edits>>

Directories == [exe : Versions \cup {Missing}, journal : Journals \cup {NoJournal},
                backup : [Updaters -> Versions \cup {Missing, Partial}]]

-----------------------------------------------------------------------------
\* A change of the directory that is not synced, and one that is.
Change(F(_)) ==
  /\ dir' = F(dir)
  /\ disks' = disks \cup {F(d) : d \in IF ordered THEN {dir} ELSE disks}
Durably(F(_)) == dir' = F(dir) /\ disks' = {F(dir)}

Outcomes == {"ok", "failed", "uncertain"}
Charge(o) == /\ o = "ok" \/ faults < MaxFaults
             /\ faults' = IF o = "ok" THEN faults ELSE faults + 1
\* A change followed by a directory sync; "uncertain": only the sync failed.
Apply(F(_), o) == \/ o = "ok" /\ Durably(F)
                  \/ o = "failed" /\ UNCHANGED <<dir, disks>>
                  \/ o = "uncertain" /\ Change(F)

SetJournal(d, j) == [d EXCEPT !.journal = j]
SetBackup(d, u, v) == [d EXCEPT !.backup[u] = v]
SetExe(d, v) == [d EXCEPT !.exe = v]
RenameBackup(d, j) == [d EXCEPT !.exe = j.from, !.backup[j.by] = Missing]

Goto(u, label) == pc' = [pc EXCEPT ![u] = label] /\ UNCHANGED <<lock, result>>
Finish(u, res) ==
  /\ pc' = [pc EXCEPT ![u] = "done"]
  /\ lock' = IF lock = u THEN Free ELSE lock
  /\ result' = [result EXCEPT ![u] = res]

Stay == UNCHANGED <<mine, proven, ordered, edits>>

-----------------------------------------------------------------------------
(***************************************************************************)
(* The lock and the reconciliation of an interrupted update, run by the    *)
(* check before the download and again before the installation.            *)
(***************************************************************************)
Start(u) ==
  /\ pc[u] = "start" /\ dir.exe # Missing
  /\ mine' = [mine EXCEPT ![u] = dir.exe]
  /\ Goto(u, "check")
  /\ UNCHANGED <<dir, disks, state, after, proven, ordered, faults, edits>>

MutTryLock(u) == TRUE \* mutant: the result of TryLock is ignored
TryLock(u) == lock = Free

\* The check releases the lock when it is done, the installation keeps it.
AcquireLock(u) ==
  /\ pc[u] \in {"check", "staged"}
  /\ \/ /\ TryLock(u) /\ lock' = u
        /\ pc' = [pc EXCEPT ![u] = "reconcile"]
        /\ after' = [after EXCEPT ![u] = IF pc[u] = "check" THEN "download" ELSE "current"]
        /\ UNCHANGED result
     \/ /\ ~TryLock(u) /\ Finish(u, "failed")
        /\ UNCHANGED after
  /\ UNCHANGED <<dir, disks, state, faults>> /\ Stay

Reconciled(u) ==
  IF after[u] = "download"
    THEN pc' = [pc EXCEPT ![u] = "download"] /\ lock' = Free /\ UNCHANGED result
    ELSE Goto(u, "current")

\* The recorded update is settled when the executable answers with one of
\* its two versions; a missing executable is restored from the backup.
Reconcile(u) ==
  LET j == dir.journal IN
  /\ pc[u] = "reconcile"
  /\ \/ j = NoJournal /\ Reconciled(u) /\ UNCHANGED <<state, proven, faults>>
     \/ /\ j # NoJournal /\ dir.exe \in {j.from, j.to}
        /\ state' = [state EXCEPT ![u] = j]
        /\ proven' = IF dir.exe = j.to THEN proven \cup {j.by} ELSE proven
        /\ Goto(u, "dropBackup") /\ UNCHANGED faults
     \/ /\ j # NoJournal /\ dir.exe = Missing
        /\ state' = [state EXCEPT ![u] = j]
        /\ Goto(u, "restore") /\ UNCHANGED <<proven, faults>>
     \/ /\ j # NoJournal /\ dir.exe \notin {j.from, j.to, Missing}
        /\ Finish(u, "failed") /\ UNCHANGED <<state, proven, faults>>
     \/ /\ Charge("failed") \* the journal cannot be read, a probe does not answer
        /\ Finish(u, "failed") /\ UNCHANGED <<state, proven>>
  /\ UNCHANGED <<dir, disks, mine, after, ordered, edits>>

-----------------------------------------------------------------------------
(***************************************************************************)
(* Restoring the backup, and removing what an attempt left: the backup,    *)
(* then the journal, then one sync.  A failed attempt does both for itself *)
(* before it reports; an error on the way keeps the evidence.              *)
(***************************************************************************)
Broken(u) == IF after[u] = "abandon" THEN "retained" ELSE "failed"
BackupUsable(u) == dir.backup[state[u].by] = state[u].from

Restore(u) ==
  /\ pc[u] = "restore"
  /\ \/ \E o \in Outcomes :
          /\ BackupUsable(u) /\ Charge(o)
          /\ Apply(LAMBDA d : RenameBackup(d, state[u]), o)
          /\ IF o = "ok" THEN Goto(u, "dropBackup") ELSE Finish(u, Broken(u))
     \/ /\ ~BackupUsable(u) /\ Finish(u, Broken(u))
        /\ UNCHANGED <<dir, disks, faults>>
  /\ UNCHANGED <<state, after>> /\ Stay

MutRemoveBackup(u, next) == Goto(u, next) /\ UNCHANGED <<dir, disks>> \* mutant: it stays
\* Removals that may fail; a backup that is not there is not touched.
RemoveBackup(u, next) ==
  /\ IF dir.backup[state[u].by] = Missing
       THEN UNCHANGED <<dir, disks>>
       ELSE Change(LAMBDA d : SetBackup(d, state[u].by, Missing))
  /\ Goto(u, next)
RemoveJournal(u, next) == Change(LAMBDA d : SetJournal(d, NoJournal)) /\ Goto(u, next)
RemovalFails(u) == Charge("failed") /\ Finish(u, Broken(u)) /\ UNCHANGED <<dir, disks>>

DropBackup(u) ==
  /\ pc[u] = "dropBackup"
  /\ \/ RemoveBackup(u, "dropJournal") /\ UNCHANGED faults
     \/ RemovalFails(u)
  /\ UNCHANGED <<state, after>> /\ Stay

DropJournal(u) ==
  /\ pc[u] = "dropJournal"
  /\ \/ RemoveJournal(u, "sync") /\ UNCHANGED faults
     \/ RemovalFails(u)
  /\ UNCHANGED <<state, after>> /\ Stay

Sync(u) ==
  /\ pc[u] = "sync"
  /\ \/ /\ Durably(LAMBDA d : d) /\ UNCHANGED faults
        /\ IF after[u] = "abandon" THEN Finish(u, "failed") ELSE Reconciled(u)
     \/ RemovalFails(u)
  /\ UNCHANGED <<state, after>> /\ Stay

-----------------------------------------------------------------------------
(***************************************************************************)
(* Download, and the installation under the lock.                          *)
(***************************************************************************)
\* The release is fetched, staged beside the executable and probed there.
Stage(u) ==
  /\ pc[u] = "download"
  /\ \/ Target[u] > mine[u] /\ Goto(u, "staged") /\ UNCHANGED faults
     \/ Target[u] <= mine[u] /\ Finish(u, "current") /\ UNCHANGED faults
     \/ Target[u] > mine[u] /\ Charge("failed") /\ Finish(u, "failed")
  /\ UNCHANGED <<dir, disks, state, after>> /\ Stay

MutStillMine(u) == TRUE \* mutant: the executable is not probed again under the lock
StillMine(u) == dir.exe = mine[u]

VerifyCurrent(u) ==
  /\ pc[u] = "current"
  /\ IF StillMine(u)
       THEN /\ Goto(u, "prepare")
            /\ state' = [state EXCEPT ![u] = [by |-> u, from |-> mine[u], to |-> Target[u]]]
       ELSE Finish(u, "failed") /\ UNCHANGED state
  /\ UNCHANGED <<dir, disks, after, faults>> /\ Stay

\* A failure before the journal is known to exist leaves everything as it is.
Prepare(u) ==
  /\ pc[u] = "prepare"
  /\ \/ \E o \in Outcomes :
          /\ dir.journal = NoJournal /\ Charge(o)
          /\ Apply(LAMBDA d : SetJournal(d, state[u]), o)
          /\ IF o = "ok" THEN Goto(u, "copy") ELSE Finish(u, "failed")
     \/ dir.journal # NoJournal /\ Finish(u, "failed") /\ UNCHANGED <<dir, disks, faults>>
  /\ UNCHANGED <<state, after>> /\ Stay

\* fail: before the rename the attempt is cleaned up, after it undone.
MutRecovery(installed) == "dropBackup" \* mutant: an installed target is only cleaned up
Recovery(installed) == IF installed THEN "restore" ELSE "dropBackup"
Fail(u, installed) ==
  Goto(u, Recovery(installed)) /\ after' = [after EXCEPT ![u] = "abandon"]
Continue(u, label) == Goto(u, label) /\ UNCHANGED after

\* copyExecutable creates the backup under its final name, then fills it.
BeginCopy(u) ==
  /\ pc[u] = "copy"
  /\ IF dir.backup[u] = Missing
       THEN Change(LAMBDA d : SetBackup(d, u, Partial)) /\ Continue(u, "backup")
       ELSE UNCHANGED <<dir, disks>> /\ Fail(u, FALSE)
  /\ UNCHANGED <<state, faults>> /\ Stay

Backup(u) ==
  /\ pc[u] = "backup"
  /\ \E o \in Outcomes :
       /\ Charge(o)
       /\ \/ o = "ok" /\ Durably(LAMBDA d : SetBackup(d, u, d.exe)) /\ Continue(u, "backedUp")
          \/ o = "failed" /\ Change(LAMBDA d : SetBackup(d, u, Missing)) /\ Fail(u, FALSE)
          \/ /\ o = "uncertain" /\ Fail(u, FALSE)
             /\ Change(LAMBDA d : IF d.backup[u] = Missing THEN d ELSE SetBackup(d, u, dir.exe))
  /\ UNCHANGED state /\ Stay

\* Rewriting the journal with the stage reached; it also syncs the directory.
Record(u, next, installed) ==
  \E o \in Outcomes :
    /\ Charge(o) /\ Apply(LAMBDA d : SetJournal(d, state[u]), o)
    /\ IF o = "ok" THEN Continue(u, next) ELSE Fail(u, installed)

RecordBackedUp(u) ==
  /\ pc[u] = "backedUp" /\ Record(u, "install", FALSE)
  /\ UNCHANGED state /\ Stay

Install(u) ==
  /\ pc[u] = "install"
  /\ \E o \in Outcomes :
       /\ Charge(o) /\ Apply(LAMBDA d : SetExe(d, Target[u]), o)
       /\ IF o = "ok" THEN Continue(u, "installed") ELSE Fail(u, o = "uncertain")
  /\ UNCHANGED state /\ Stay

MutProbed == "verified" \* mutant: the new executable is not probed in place
Probed == "verify"
RecordInstalled(u) ==
  /\ pc[u] = "installed" /\ Record(u, Probed, TRUE)
  /\ UNCHANGED state /\ Stay

VerifyInPlace(u) ==
  /\ pc[u] = "verify"
  /\ \/ /\ dir.exe = Target[u] /\ proven' = proven \cup {u}
        /\ Continue(u, "verified") /\ UNCHANGED faults
     \/ /\ dir.exe # Target[u] /\ Fail(u, TRUE) /\ UNCHANGED <<proven, faults>>
     \/ /\ Charge("failed") /\ Fail(u, TRUE) /\ UNCHANGED proven
  /\ UNCHANGED <<dir, disks, mine, state, ordered, edits>>

RecordVerified(u) ==
  /\ pc[u] = "verified" /\ Record(u, "complete", TRUE)
  /\ UNCHANGED state /\ Stay

\* Success: the backup goes first and durably, then the journal.
Complete(u) ==
  /\ pc[u] = "complete"
  /\ \E o \in Outcomes :
       /\ Charge(o) /\ Apply(LAMBDA d : SetBackup(d, u, Missing), o)
       /\ IF o = "ok" THEN Goto(u, "forget") ELSE Finish(u, "retained")
  /\ UNCHANGED <<state, after>> /\ Stay

MutForget(u) == \* mutant: the directory is not synced at the end
  /\ pc[u] = "forget"
  /\ Change(LAMBDA d : SetJournal(d, NoJournal)) /\ Finish(u, "updated")
  /\ UNCHANGED <<state, after, faults>> /\ Stay
Forget(u) ==
  /\ pc[u] = "forget"
  /\ \E o \in Outcomes :
       /\ Charge(o) /\ Apply(LAMBDA d : SetJournal(d, NoJournal), o)
       /\ Finish(u, IF o = "ok" THEN "updated" ELSE "retained")
  /\ UNCHANGED <<state, after>> /\ Stay

-----------------------------------------------------------------------------
Running(u) == pc[u] \notin {"start", "done", "dead"}

\* A killed command loses its lock and leaves its files.
Kill(u) ==
  /\ Running(u) /\ Charge("failed")
  /\ pc' = [pc EXCEPT ![u] = "dead"]
  /\ lock' = IF lock = u THEN Free ELSE lock
  /\ UNCHANGED <<dir, disks, state, after, result>> /\ Stay

PowerLoss ==
  /\ Charge("failed")
  /\ \E d \in disks : dir' = d /\ disks' = {d}
  /\ pc' = [u \in Updaters |-> IF Running(u) THEN "dead" ELSE pc[u]]
  /\ lock' = Free
  /\ UNCHANGED <<mine, state, after, result, proven, ordered, edits>>

\* Somebody else replaces or removes the executable.
Edit ==
  /\ edits < MaxEdits /\ edits' = edits + 1
  /\ \E v \in {Other, Missing} : Change(LAMBDA d : SetExe(d, v))
  /\ UNCHANGED <<lock, pc, mine, state, after, result, proven, ordered, faults>>

Init ==
  /\ dir = [exe |-> First, journal |-> NoJournal, backup |-> [u \in Updaters |-> Missing]]
  /\ disks = {dir} /\ lock = Free
  /\ pc = [u \in Updaters |-> "start"] /\ mine = [u \in Updaters |-> First]
  /\ state = [u \in Updaters |-> NoJournal] /\ after = [u \in Updaters |-> "none"]
  /\ result = [u \in Updaters |-> "none"]
  /\ proven = {} /\ ordered \in BOOLEAN /\ faults = 0 /\ edits = 0

Next ==
  \/ \E u \in Updaters :
       \/ Start(u) \/ AcquireLock(u) \/ Reconcile(u) \/ Restore(u)
       \/ DropBackup(u) \/ DropJournal(u) \/ Sync(u) \/ Stage(u) \/ VerifyCurrent(u)
       \/ Prepare(u) \/ BeginCopy(u) \/ Backup(u) \/ RecordBackedUp(u) \/ Install(u)
       \/ RecordInstalled(u) \/ VerifyInPlace(u) \/ RecordVerified(u)
       \/ Complete(u) \/ Forget(u) \/ Kill(u)
  \/ PowerLoss \/ Edit

Spec == Init /\ [][Next]_vars

-----------------------------------------------------------------------------
Unlocked == {"start", "check", "download", "staged", "done", "dead"}
Locked == {"reconcile", "restore", "dropBackup", "dropJournal", "sync", "current", "prepare",
           "copy", "backup", "backedUp", "install", "installed", "verify", "verified",
           "complete", "forget"}

\* Types, and that the lock's holder is the one command in a locked step.
TypeOK ==
  /\ dir \in Directories /\ disks \subseteq Directories /\ disks # {}
  /\ lock \in Updaters \cup {Free}
  /\ pc \in [Updaters -> Unlocked \cup Locked]
  /\ \A u \in Updaters : pc[u] \in Locked <=> lock = u
  /\ mine \in [Updaters -> Versions]
  /\ state \in [Updaters -> Journals \cup {NoJournal}]
  /\ after \in [Updaters -> {"none", "download", "current", "abandon"}]
  /\ result \in [Updaters -> {"none", "current", "failed", "retained", "updated"}]
  /\ proven \subseteq Updaters /\ ordered \in BOOLEAN
  /\ faults \in 0..MaxFaults /\ edits \in 0..MaxEdits

\* On an ordered file system, whatever a power loss leaves, a target that was
\* never probed in place comes with its journal and a complete backup
\* (replace_unix.go: installPreparedExecutable, updates.md:79).
Covered ==
  \A d \in disks : \A u \in Updaters :
    ordered /\ d.exe = Target[u] /\ u \notin proven /\ edits = 0 =>
      d.journal # NoJournal /\ d.journal.by = u /\ d.backup[u] = d.journal.from

\* Without outside edits the next update never refuses the recorded one: on an
\* ordered file system the executable that any power loss leaves is one of the
\* journal's two versions.
Reconcilable ==
  \A d \in disks :
    ordered /\ d.journal # NoJournal /\ edits = 0 => d.exe \in {d.journal.from, d.journal.to}

\* A reported update is never undone, not by a later attempt's restore, by a
\* command that started before it, nor by a power loss.
NoDowngrade ==
  \A u \in Updaters :
    result[u] = "updated" /\ edits = 0 => \A d \in disks : d.exe >= Target[u]

\* A reported success holds after any power loss, with nothing left to settle.
SuccessDurable ==
  [][\A u \in Updaters :
       result'[u] = "updated" /\ result[u] = "none" /\ edits = 0 =>
         \A d \in disks' : d.exe = Target[u] /\ d.journal = NoJournal /\ d.backup[u] = Missing]_vars

\* A failed installation ends with the version it found, in the directory and
\* after any power loss ("restores the previous executable", updates.md:80).
FailureRestores ==
  [][\A u \in Updaters :
       pc[u] \in Locked /\ after[u] = "abandon" /\ result'[u] = "failed" /\ edits = 0 =>
         \A d \in disks' : d.exe = mine[u] /\ d.journal = NoJournal]_vars

\* On an ordered file system no backup outlives the journal that names it, so
\* that every file an attempt leaves is found again (cleanupUnixUpdateState).
NoOrphans ==
  \A d \in disks : \A u \in Updaters :
    ordered /\ d.backup[u] # Missing => d.journal # NoJournal /\ d.journal.by = u

\* What any kill or power loss leaves can be found and settled by the next
\* update (reconcileUnixUpdate).
Settleable == TypeOK /\ Covered /\ NoOrphans /\ Reconcilable

\* A report, of success or of failure, is true and stays true (fail, cleanup).
ReportsHold == SuccessDurable /\ FailureRestores
=============================================================================
