-------------------------- MODULE UnixUpdateProofs --------------------------
(***************************************************************************)
(* What UnixUpdate guarantees for any number of update commands, any       *)
(* versions, and any number of failed calls, kills, power losses and edits *)
(* by others.  Only the holder of the lock changes the directory, and it   *)
(* does so under the journal it has in memory; what a power loss may leave *)
(* is the directory at an earlier of its steps.  So an invariant of three  *)
(* parts carries over every step: how far the holder is in the directory   *)
(* it sees, what every directory a power loss may leave has in it on a     *)
(* file system that keeps the order of changes, and, on any file system,   *)
(* that none of them goes below a version that was reported.               *)
(***************************************************************************)
EXTENDS UnixUpdate, TLAPS

Settling == {"restore", "dropBackup", "dropJournal"}
Attempting == {"copy", "backup", "backedUp", "install", "installed", "verify", "verified",
               "complete", "forget"}
Attempt(u) == [by |-> u, from |-> mine[u], to |-> Target[u]]

\* How a command came to where it is.
Route(u) ==
  /\ pc[u] = "start" => after[u] = "none"
  /\ pc[u] \in {"download", "staged"} => after[u] = "download"
  /\ pc[u] \in {"current", "prepare"} \cup Attempting => after[u] = "current"
  /\ pc[u] = "reconcile" => after[u] \in {"download", "current"}
  /\ pc[u] \in Settling \cup {"sync"} => after[u] # "none"
  /\ after[u] = "abandon" => pc[u] \in Settling \cup {"sync", "done", "dead"}
  /\ result[u] # "none" => pc[u] = "done"
  /\ pc[u] = "staged" \/ after[u] \in {"current", "abandon"} => Target[u] > mine[u]

\* The holder of the lock finds the journal it works under, its own when it
\* installs.
Journaled(u) ==
  /\ pc[u] \in Settling \cup Attempting => state[u] \in Journals /\ dir.journal = state[u]
  /\ pc[u] \in {"current", "prepare", "sync"} => dir.journal = NoJournal
  /\ pc[u] \in {"prepare"} \cup Attempting \/ after[u] = "abandon" => state[u] = Attempt(u)
  /\ pc[u] = "dropJournal" => dir.backup[state[u].by] = Missing
  /\ pc[u] = "forget" => dir.backup[u] = Missing

\* Nobody else replacing it, the executable is the one the holder compared
\* until it installs its own, and again when it has given up.
Seen(u) ==
  /\ pc[u] \in {"prepare", "copy", "backup", "backedUp", "install"} => dir.exe = mine[u]
  /\ pc[u] \in {"backedUp", "install"} => dir.backup[u] = mine[u]
  /\ pc[u] \in {"installed", "verify", "verified", "complete", "forget"} => dir.exe = Target[u]
  /\ pc[u] \in {"verified", "complete", "forget"} => u \in proven
  /\ pc[u] \in {"dropBackup", "dropJournal", "sync"} /\ after[u] = "abandon" => dir.exe = mine[u]

\* A version that needs no backup: it was probed in place, or nobody's target.
Vetted(v) == \A u \in Updaters : v = Target[u] => u \in proven

\* A directory with a backup has the journal that names it.
Owned(d) == \A u \in Updaters : d.backup[u] # Missing => d.journal # NoJournal /\ d.journal.by = u

\* A directory that can be settled: what it has to be settled with is there.
Settled(d) ==
  /\ \A u \in Updaters : d.exe = Target[u] /\ u \notin proven =>
       d.journal # NoJournal /\ d.journal.by = u /\ d.backup[u] = d.journal.from
  /\ d.journal # NoJournal =>
       d.exe \in {d.journal.from, d.journal.to} /\ Vetted(d.journal.from)

\* No older version than w's in the directory, and none to go back to.
Above(d, w) ==
  /\ d.exe \in Versions /\ d.exe >= Target[w]
  /\ d.journal # NoJournal => d.journal.from >= Target[w]

Holder == \A u \in Updaters : Route(u) /\ Journaled(u) /\ (edits = 0 => Seen(u))

Disks ==
  /\ dir \in disks
  /\ \A d \in disks :
       /\ d.journal # NoJournal => d.journal.to = Target[d.journal.by]
       /\ edits = 0 => d.exe # Missing
       /\ ordered => Owned(d) /\ (edits = 0 => Settled(d))
  /\ ordered /\ edits = 0 =>
       \A u \in Updaters : pc[u] \in {"dropBackup", "dropJournal", "sync"} => Vetted(dir.exe)

Kept ==
  edits = 0 => \A w \in Updaters : result[w] = "updated" => \A d \in disks : Above(d, w)

IInv == TypeOK /\ Holder /\ Disks /\ Kept

-----------------------------------------------------------------------------
(* What the changes of a directory do.                                     *)

LEMMA JournalSet ==
  ASSUME NEW d \in Directories, NEW j \in Journals \cup {NoJournal}
  PROVE  /\ SetJournal(d, j) \in Directories
         /\ SetJournal(d, j).exe = d.exe /\ SetJournal(d, j).journal = j
         /\ SetJournal(d, j).backup = d.backup
BY DEF Directories, SetJournal

LEMMA BackupSet ==
  ASSUME NEW d \in Directories, NEW u \in Updaters, NEW v \in Versions \cup {Missing, Partial}
  PROVE  /\ SetBackup(d, u, v) \in Directories
         /\ SetBackup(d, u, v).exe = d.exe /\ SetBackup(d, u, v).journal = d.journal
         /\ \A w \in Updaters : SetBackup(d, u, v).backup[w] = IF w = u THEN v ELSE d.backup[w]
BY DEF Directories, SetBackup

LEMMA ExeSet ==
  ASSUME NEW d \in Directories, NEW v \in Versions \cup {Missing}
  PROVE  /\ SetExe(d, v) \in Directories
         /\ SetExe(d, v).exe = v /\ SetExe(d, v).journal = d.journal
         /\ SetExe(d, v).backup = d.backup
BY DEF Directories, SetExe

LEMMA BackupRenamed ==
  ASSUME NEW d \in Directories, NEW j \in Journals
  PROVE  /\ RenameBackup(d, j) \in Directories
         /\ RenameBackup(d, j).exe = j.from /\ RenameBackup(d, j).journal = d.journal
         /\ \A w \in Updaters : RenameBackup(d, j).backup[w] = IF w = j.by THEN Missing ELSE d.backup[w]
<1>1. j.from \in Versions /\ j.by \in Updaters
  BY DEF Journals
<1> QED BY <1>1 DEF Directories, RenameBackup

\* A target that has been probed in place stays vetted.
LEMMA Monotone ==
  ASSUME proven \subseteq proven'
  PROVE  /\ \A v : Vetted(v) => Vetted(v)'
         /\ \A d : Settled(d) => Settled(d)'
BY DEF Vetted, Settled

\* A version that is a number; the target of an attempt is one.
LEMMA Numbers ==
  /\ \A v \in Versions : v \in Nat
  /\ \A u \in Updaters : Target[u] \in Versions /\ Target[u] \in Nat
  /\ Missing \notin Versions /\ Partial \notin Versions /\ Partial # Missing
BY VersionsAssumption, NamesAssumption DEF Versions

\* A step of one command leaves the others where they are: they do not hold
\* the lock, or nothing they look at has changed.
LEMMA Others ==
  ASSUME IInv, TypeOK', NEW u \in Updaters,
         \A v \in Updaters \ {u} :
           /\ pc'[v] = pc[v] /\ after'[v] = after[v] /\ state'[v] = state[v]
           /\ mine'[v] = mine[v] /\ result'[v] = result[v],
         lock \in {u, Free} \/ UNCHANGED <<dir, proven, edits>>,
         Route(u)', Journaled(u)', edits' = 0 => Seen(u)'
  PROVE  Holder'
<1>1. ASSUME NEW v \in Updaters \ {u} PROVE Route(v)'
  BY DEF IInv, Holder, Route
<1>2. ASSUME NEW v \in Updaters \ {u}, lock \in {u, Free} PROVE Journaled(v)' /\ Seen(v)'
  <2>1. pc'[v] \notin Locked
    BY <1>2, NamesAssumption DEF IInv, TypeOK
  <2> QED BY <2>1 DEF IInv, Holder, Journaled, Seen, Attempt, Settling, Attempting, Locked
<1>3. ASSUME NEW v \in Updaters \ {u}, UNCHANGED <<dir, proven, edits>>
      PROVE  Journaled(v)' /\ (edits' = 0 => Seen(v)')
  BY <1>3 DEF IInv, Holder, Journaled, Seen, Attempt
<1> QED BY <1>1, <1>2, <1>3 DEF Holder

\* What a power loss leaves is a directory it could leave before, or one that
\* the step has made.
LEMMA NewDisks ==
  ASSUME IInv, dir' \in disks', proven \subseteq proven', edits' = edits, ordered' = ordered,
         \A d \in disks' \ disks :
           /\ d.journal # NoJournal => d.journal.to = Target[d.journal.by]
           /\ edits = 0 => d.exe # Missing
           /\ ordered => Owned(d) /\ (edits = 0 => Settled(d)'),
         ordered /\ edits = 0 =>
           \A u \in Updaters : pc'[u] \in {"dropBackup", "dropJournal", "sync"} => Vetted(dir.exe)'
  PROVE  Disks'
<1>1. ASSUME NEW d \in disks'
      PROVE  /\ d.journal # NoJournal => d.journal.to = Target[d.journal.by]
             /\ edits = 0 => d.exe # Missing
             /\ ordered => Owned(d)
             /\ ordered /\ edits = 0 => Settled(d)'
  BY <1>1, Monotone DEF IInv, Disks
<1>2. (ordered' <=> ordered) /\ (edits' = 0 <=> edits = 0) /\ \A d : Owned(d)' <=> Owned(d)
  BY DEF Owned
<1>3. \A d \in disks' :
        /\ d.journal # NoJournal => d.journal.to = Target[d.journal.by]
        /\ edits' = 0 => d.exe # Missing
        /\ ordered' => Owned(d)' /\ (edits' = 0 => Settled(d)')
  BY <1>1, <1>2
<1>4. ordered' /\ edits' = 0 =>
        \A u \in Updaters : pc'[u] \in {"dropBackup", "dropJournal", "sync"} => Vetted(dir.exe)'
  BY <1>2
<1> QED BY <1>3, <1>4 DEF Disks

\* What has been reported stays below.
LEMMA StillKept ==
  ASSUME IInv, edits' = edits, \A w \in Updaters : result'[w] = "updated" => result[w] = "updated",
         \A w \in Updaters, d \in disks' :
           edits = 0 /\ (\A e \in disks : Above(e, w)) => Above(d, w)
  PROVE  Kept'
BY DEF IInv, Kept, Above

\* A step that only looks leaves what a power loss may leave.
LEMMA SameDisks ==
  ASSUME IInv, NEW u \in Updaters, UNCHANGED <<dir, disks, ordered, edits>>, proven \subseteq proven',
         \A v \in Updaters \ {u} : pc'[v] = pc[v],
         ordered /\ edits = 0 /\ pc'[u] \in {"dropBackup", "dropJournal", "sync"} => Vetted(dir.exe)'
  PROVE  Disks'
<1>1. ASSUME ordered, edits = 0, NEW v \in Updaters, pc'[v] \in {"dropBackup", "dropJournal", "sync"}
      PROVE  Vetted(dir.exe)'
  <2>1. CASE v = u
    BY <1>1, <2>1
  <2>2. CASE v # u
    <3>1. Vetted(dir.exe)
      BY <1>1, <2>2 DEF IInv, Disks
    <3> QED BY <3>1 DEF Vetted
  <2> QED BY <2>1, <2>2
<1>2. dir' \in disks' /\ disks' = disks
  BY DEF IInv, Disks
<1> QED BY <1>1, <1>2, NewDisks

-----------------------------------------------------------------------------
(* Steps that only look at the directory.                                  *)

LEMMA StartStep == ASSUME IInv, NEW u \in Updaters, Start(u) PROVE IInv'
<1> USE NamesAssumption, BoundsAssumption, Numbers DEF Start, Goto
<1>1. TypeOK'
  BY DEF IInv, TypeOK, Unlocked, Locked, Directories
<1>2. Route(u)' /\ Journaled(u)' /\ (edits' = 0 => Seen(u)')
  <2> USE DEF IInv, TypeOK, Unlocked, Locked, Holder, Settling, Attempting
  <2>1. Route(u)'
    BY DEF Route
  <2>2. Journaled(u)'
    BY DEF Route, Journaled, Attempt, Directories
  <2>3. edits' = 0 => Seen(u)'
    BY DEF Route, Seen
  <2> QED BY <2>1, <2>2, <2>3
<1>3. Holder'
  BY <1>1, <1>2, Others DEF IInv, TypeOK, Locked
<1>4. Disks'
  BY SameDisks DEF IInv, TypeOK
<1>5. Kept'
  BY StillKept DEF IInv, TypeOK
<1> QED BY <1>1, <1>3, <1>4, <1>5 DEF IInv

LEMMA AcquireLockStep == ASSUME IInv, NEW u \in Updaters, AcquireLock(u) PROVE IInv'
<1> USE NamesAssumption, BoundsAssumption, Numbers DEF AcquireLock, TryLock, Finish, Stay
<1>1. TypeOK'
  BY DEF IInv, TypeOK, Unlocked, Locked, Directories
<1>2. Route(u)' /\ Journaled(u)' /\ (edits' = 0 => Seen(u)')
  <2> USE DEF IInv, TypeOK, Unlocked, Locked, Holder, Settling, Attempting
  <2>1. Route(u)'
    BY DEF Route
  <2>2. Journaled(u)'
    BY DEF Route, Journaled, Attempt, Directories
  <2>3. edits' = 0 => Seen(u)'
    BY DEF Route, Seen
  <2> QED BY <2>1, <2>2, <2>3
<1>3. Holder'
  BY <1>1, <1>2, Others DEF IInv, TypeOK, Locked
<1>4. Disks'
  BY SameDisks DEF IInv, TypeOK
<1>5. Kept'
  BY StillKept DEF IInv, TypeOK
<1> QED BY <1>1, <1>3, <1>4, <1>5 DEF IInv

LEMMA ReconcileStep == ASSUME IInv, NEW u \in Updaters, Reconcile(u) PROVE IInv'
<1> USE NamesAssumption, BoundsAssumption, Numbers DEF Reconcile, Goto, Finish, Reconciled, Charge
<1>1. TypeOK'
  <2>1. state' \in [Updaters -> Journals \cup {NoJournal}] /\ proven' \subseteq Updaters
    BY DEF IInv, TypeOK, Directories, Journals
  <2> QED BY <2>1 DEF IInv, TypeOK, Unlocked, Locked, Directories
<1>2. Route(u)' /\ Journaled(u)' /\ (edits' = 0 => Seen(u)')
  <2> USE DEF IInv, TypeOK, Unlocked, Locked, Holder, Settling, Attempting
  <2>1. Route(u)'
    BY DEF Route
  <2>2. Journaled(u)'
    BY DEF Route, Journaled, Attempt, Directories
  <2>3. edits' = 0 => Seen(u)'
    BY DEF Route, Seen
  <2> QED BY <2>1, <2>2, <2>3
<1>3. Holder'
  BY <1>1, <1>2, Others DEF IInv, TypeOK, Locked
<1>4. Disks'
  <2>1. ASSUME ordered, edits = 0, pc'[u] \in {"dropBackup", "dropJournal", "sync"}
        PROVE  Vetted(dir.exe)'
    <3>1. dir.journal # NoJournal /\ dir.exe \in {dir.journal.from, dir.journal.to}
      BY <2>1 DEF IInv, TypeOK
    <3>2. CASE dir.exe = dir.journal.from
      BY <2>1, <3>1, <3>2 DEF IInv, Disks, Settled, Vetted
    <3>3. CASE dir.exe = dir.journal.to /\ dir.exe # dir.journal.from
      <4>1. dir.exe = Target[dir.journal.by] /\ dir.journal \in Journals
        BY <3>1, <3>3 DEF IInv, TypeOK, Directories, Disks
      <4>2. proven' = proven \cup {dir.journal.by}
        BY <2>1, <3>1, <3>3 DEF IInv, TypeOK
      <4> QED BY <4>1, <4>2, VersionsAssumption DEF Vetted, Journals
    <3> QED BY <3>1, <3>2, <3>3
  <2>2. UNCHANGED <<dir, disks, ordered, edits>> /\ proven \subseteq proven'
    BY DEF IInv, TypeOK
  <2>3. \A v \in Updaters \ {u} : pc'[v] = pc[v]
    BY DEF IInv, TypeOK
  <2> QED BY <2>1, <2>2, <2>3, SameDisks
<1>5. Kept'
  BY StillKept DEF IInv, TypeOK
<1> QED BY <1>1, <1>3, <1>4, <1>5 DEF IInv

LEMMA StageStep == ASSUME IInv, NEW u \in Updaters, Stage(u) PROVE IInv'
<1> USE NamesAssumption, BoundsAssumption, Numbers DEF Stage, Goto, Finish, Charge, Stay
<1>1. TypeOK'
  BY DEF IInv, TypeOK, Unlocked, Locked, Directories
<1>2. Route(u)' /\ Journaled(u)' /\ (edits' = 0 => Seen(u)')
  <2> USE DEF IInv, TypeOK, Unlocked, Locked, Holder, Settling, Attempting
  <2>1. Route(u)'
    BY DEF Route
  <2>2. Journaled(u)'
    BY DEF Route, Journaled, Attempt, Directories
  <2>3. edits' = 0 => Seen(u)'
    BY DEF Route, Seen
  <2> QED BY <2>1, <2>2, <2>3
<1>3. Holder'
  BY <1>1, <1>2, Others DEF IInv, TypeOK, Locked
<1>4. Disks'
  BY SameDisks DEF IInv, TypeOK
<1>5. Kept'
  BY StillKept DEF IInv, TypeOK
<1> QED BY <1>1, <1>3, <1>4, <1>5 DEF IInv

LEMMA VerifyCurrentStep == ASSUME IInv, NEW u \in Updaters, VerifyCurrent(u) PROVE IInv'
<1> USE NamesAssumption, BoundsAssumption, Numbers DEF VerifyCurrent, Goto, Finish, StillMine, Stay
<1>1. TypeOK'
  <2>1. Attempt(u) \in Journals
    BY DEF IInv, TypeOK, Attempt, Journals
  <2>2. state' \in [Updaters -> Journals \cup {NoJournal}]
    BY <2>1 DEF IInv, TypeOK, Attempt
  <2> QED BY <2>2 DEF IInv, TypeOK, Unlocked, Locked, Directories
<1>2. Route(u)' /\ Journaled(u)' /\ (edits' = 0 => Seen(u)')
  <2> USE DEF IInv, TypeOK, Unlocked, Locked, Holder, Settling, Attempting
  <2>1. Route(u)'
    BY DEF Route
  <2>2. Journaled(u)'
    BY DEF Route, Journaled, Attempt, Directories
  <2>3. edits' = 0 => Seen(u)'
    BY DEF Route, Seen
  <2> QED BY <2>1, <2>2, <2>3
<1>3. Holder'
  BY <1>1, <1>2, Others DEF IInv, TypeOK, Locked
<1>4. Disks'
  BY SameDisks DEF IInv, TypeOK
<1>5. Kept'
  BY StillKept DEF IInv, TypeOK
<1> QED BY <1>1, <1>3, <1>4, <1>5 DEF IInv

LEMMA VerifyInPlaceStep == ASSUME IInv, NEW u \in Updaters, VerifyInPlace(u) PROVE IInv'
<1> USE NamesAssumption, BoundsAssumption, Numbers DEF VerifyInPlace, Goto, Continue, Fail, Recovery, Charge
<1>1. TypeOK'
  BY DEF IInv, TypeOK, Unlocked, Locked, Directories
<1>2. Route(u)' /\ Journaled(u)' /\ (edits' = 0 => Seen(u)')
  <2> USE DEF IInv, TypeOK, Unlocked, Locked, Holder, Settling, Attempting
  <2>1. Route(u)'
    BY DEF Route
  <2>2. Journaled(u)'
    BY DEF Route, Journaled, Attempt, Directories
  <2>3. edits' = 0 => Seen(u)'
    BY DEF Route, Seen
  <2> QED BY <2>1, <2>2, <2>3
<1>3. Holder'
  BY <1>1, <1>2, Others DEF IInv, TypeOK, Locked
<1>4. Disks'
  BY SameDisks DEF IInv, TypeOK
<1>5. Kept'
  BY StillKept DEF IInv, TypeOK
<1> QED BY <1>1, <1>3, <1>4, <1>5 DEF IInv

LEMMA KillStep == ASSUME IInv, NEW u \in Updaters, Kill(u) PROVE IInv'
<1> USE NamesAssumption, BoundsAssumption, Numbers DEF Kill, Running, Charge, Stay
<1>1. TypeOK'
  BY DEF IInv, TypeOK, Unlocked, Locked, Directories
<1>2. Route(u)' /\ Journaled(u)' /\ (edits' = 0 => Seen(u)')
  <2> USE DEF IInv, TypeOK, Unlocked, Locked, Holder, Settling, Attempting
  <2>1. Route(u)'
    BY DEF Route
  <2>2. Journaled(u)'
    BY DEF Route, Journaled, Attempt, Directories
  <2>3. edits' = 0 => Seen(u)'
    BY DEF Route, Seen
  <2> QED BY <2>1, <2>2, <2>3
<1>3. Holder'
  BY <1>1, <1>2, Others DEF IInv, TypeOK, Locked
<1>4. Disks'
  BY SameDisks DEF IInv, TypeOK
<1>5. Kept'
  BY StillKept DEF IInv, TypeOK
<1> QED BY <1>1, <1>3, <1>4, <1>5 DEF IInv

-----------------------------------------------------------------------------
(* Steps of the holder that change the directory: F is the change.         *)

\* The holder's view decides for the directory it has made.
LEMMA HolderDisks ==
  ASSUME IInv, NEW u \in Updaters, lock = u, UNCHANGED <<proven, edits, ordered>>, dir' \in disks',
         \A v \in Updaters \ {u} : pc'[v] = pc[v],
         \A d \in disks' \ disks :
           /\ d.journal # NoJournal => d.journal.to = Target[d.journal.by]
           /\ edits = 0 => d.exe # Missing
           /\ ordered => Owned(d) /\ (edits = 0 => Settled(d)),
         ordered /\ edits = 0 /\ pc'[u] \in {"dropBackup", "dropJournal", "sync"} => Vetted(dir'.exe)
  PROVE  Disks'
<1>1. \A d : (Settled(d)' <=> Settled(d)) /\ (Vetted(dir.exe)' <=> Vetted(dir'.exe))
  BY DEF Settled, Vetted
<1>2. \A v \in Updaters \ {u} : pc'[v] \notin {"dropBackup", "dropJournal", "sync"}
  BY DEF IInv, TypeOK, Locked
<1> QED BY <1>1, <1>2, NewDisks

\* What was reported is in the directory already.
LEMMA HolderKept ==
  ASSUME IInv, edits' = edits, \A w \in Updaters : result'[w] = "updated" => result[w] = "updated",
         \A d \in disks' \ disks : \A w \in Updaters :
           edits = 0 /\ (\A e \in disks : Above(e, w)) => Above(d, w)
  PROVE  Kept'
<1>1. \A d : \A w \in Updaters : Above(d, w)' <=> Above(d, w)
  BY DEF Above
<1> QED BY <1>1, StillKept

LEMMA RestoreStep == ASSUME IInv, NEW u \in Updaters, Restore(u) PROVE IInv'
<1> DEFINE F(d) == RenameBackup(d, state[u])
<1> USE NamesAssumption, BoundsAssumption, Numbers
<1>1. /\ dir' \in disks' /\ dir' \in {dir, F(dir)}
      /\ \A d \in disks' \ disks : \E e \in disks : d = F(e) /\ (ordered => e = dir)
  BY DEF Restore, Broken, Apply, Change, Durably, IInv, Disks
<1>2. /\ pc[u] = "restore" /\ lock = u /\ UNCHANGED <<state, mine, proven, ordered, edits>>
      /\ faults' \in 0..MaxFaults
      /\ \A v \in Updaters \ {u} : pc'[v] = pc[v] /\ after'[v] = after[v] /\ result'[v] = result[v]
      /\ pc' \in [Updaters -> Unlocked \cup Locked] /\ (pc'[u] \in Locked <=> lock' = u)
      /\ lock' \in {u, Free}
      /\ after' \in [Updaters -> {"none", "download", "current", "abandon"}]
      /\ result' \in [Updaters -> {"none", "current", "failed", "retained", "updated"}]
  BY DEF Restore, Broken, Charge, Outcomes, Stay, Goto, Finish, IInv, TypeOK, Locked, Unlocked
<1>3. /\ result'[u] \in {"none", "failed", "retained", "current"} /\ (result'[u] # "none" => pc'[u] = "done")
      /\ result[u] = "none"
      /\ after' = after /\ ((pc'[u] = "dropBackup" /\ dir' = F(dir)) \/ pc'[u] = "done")
  BY DEF Restore, Broken, Apply, Change, Durably, Charge, Outcomes, Stay, Goto, Finish, IInv, TypeOK, Holder, Route
<1>4. /\ \A e \in disks : e \in Directories
      /\ state[u] \in Journals /\ dir \in Directories
      /\ dir.journal = state[u] /\ state[u].from \in Versions
      /\ after[u] # "none" /\ (after[u] = "abandon" => state[u] = Attempt(u))
  BY <1>2 DEF IInv, TypeOK, Holder, Route, Journaled, Settling, Journals
<1>5. \A e \in Directories : F(e) \in Directories
  BY <1>4, BackupRenamed
<1>6. \A e \in Directories : F(e).exe = state[u].from /\ F(e).journal = e.journal
         /\ \A w \in Updaters : F(e).backup[w] = IF w = state[u].by THEN Missing ELSE e.backup[w]
  <2>1. state[u] \in Journals
    BY <1>4
  <2>2. ASSUME NEW e \in Directories
        PROVE  /\ F(e).exe = state[u].from /\ F(e).journal = e.journal
               /\ \A w \in Updaters : F(e).backup[w] = IF w = state[u].by THEN Missing ELSE e.backup[w]
    BY <2>1, BackupRenamed
  <2> QED BY <2>2
<1> HIDE DEF F
<1>7. TypeOK'
  BY <1>1, <1>2, <1>4, <1>5 DEF IInv, TypeOK, Locked
<1>8. Route(u)'
  BY <1>2, <1>3 DEF IInv, Holder, Route, Settling, Attempting, Locked, Unlocked
<1>9. Journaled(u)'
  BY <1>1, <1>2, <1>3, <1>4, <1>6 DEF Journaled, Attempt, Settling, Attempting
<1>10. edits' = 0 => Seen(u)'
  BY <1>1, <1>2, <1>3, <1>4, <1>6 DEF Seen, Attempt
<1>11. Holder'
  BY <1>2, <1>7, <1>8, <1>9, <1>10, Others DEF IInv, TypeOK
<1>12. \A e \in disks :
         /\ F(e).journal # NoJournal => F(e).journal.to = Target[F(e).journal.by]
         /\ edits = 0 => F(e).exe # Missing
  BY <1>4, <1>6 DEF IInv, Disks
<1>13. ordered => Owned(F(dir)) /\ (edits = 0 => Settled(F(dir)))
  BY <1>4, <1>6 DEF IInv, Disks, TypeOK, Directories, Owned, Settled, Vetted
<1>14. ordered /\ edits = 0 /\ pc'[u] \in {"dropBackup", "dropJournal", "sync"} => Vetted(dir'.exe)
  BY <1>3, <1>4, <1>6 DEF IInv, Disks, Settled, Vetted
<1>15. Disks'
  BY <1>1, <1>2, <1>12, <1>13, <1>14, HolderDisks
<1>16. \A e \in disks : \A w \in Updaters :
         edits = 0 /\ (\A d \in disks : Above(d, w)) => Above(F(e), w)
  BY <1>1, <1>4, <1>6 DEF IInv, Disks, Above, Attempt
<1>17. Kept'
  <2>1. \A w \in Updaters : result'[w] = "updated" => result[w] = "updated"
    BY <1>2, <1>3
  <2> QED BY <1>1, <1>2, <1>16, <2>1, HolderKept
<1> QED BY <1>7, <1>11, <1>15, <1>17 DEF IInv

LEMMA DropBackupStep == ASSUME IInv, NEW u \in Updaters, DropBackup(u) PROVE IInv'
<1> DEFINE F(d) == SetBackup(d, state[u].by, Missing)
<1> USE NamesAssumption, BoundsAssumption, Numbers
<1>1. /\ dir' \in disks' /\ dir' \in {dir, F(dir)}
      /\ \A d \in disks' \ disks : \E e \in disks : d = F(e) /\ (ordered => e = dir)
  BY DEF DropBackup, RemoveBackup, RemovalFails, Broken, Apply, Change, Durably, IInv, Disks
<1>2. /\ pc[u] = "dropBackup" /\ lock = u /\ UNCHANGED <<state, mine, proven, ordered, edits>>
      /\ faults' \in 0..MaxFaults
      /\ \A v \in Updaters \ {u} : pc'[v] = pc[v] /\ after'[v] = after[v] /\ result'[v] = result[v]
      /\ pc' \in [Updaters -> Unlocked \cup Locked] /\ (pc'[u] \in Locked <=> lock' = u)
      /\ lock' \in {u, Free}
      /\ after' \in [Updaters -> {"none", "download", "current", "abandon"}]
      /\ result' \in [Updaters -> {"none", "current", "failed", "retained", "updated"}]
  BY DEF DropBackup, RemoveBackup, RemovalFails, Broken, Charge, Outcomes, Stay, Goto, Finish, IInv, TypeOK, Locked, Unlocked
<1>3. /\ result'[u] \in {"none", "failed", "retained", "current"} /\ (result'[u] # "none" => pc'[u] = "done")
      /\ result[u] = "none"
      /\ after' = after
      /\ \/ pc'[u] = "dropJournal" /\ (dir' = F(dir) \/ (dir' = dir /\ dir.backup[state[u].by] = Missing))
         \/ pc'[u] = "done"
  BY DEF DropBackup, RemoveBackup, RemovalFails, Broken, Apply, Change, Durably, Charge, Outcomes, Stay, Goto, Finish, IInv, TypeOK, Holder, Route
<1>4. /\ \A e \in disks : e \in Directories
      /\ state[u] \in Journals /\ dir \in Directories
      /\ dir.journal = state[u] /\ state[u].by \in Updaters /\ dir.backup \in [Updaters -> Versions \cup {Missing, Partial}]
      /\ after[u] # "none" /\ (after[u] = "abandon" => state[u] = Attempt(u))
      /\ edits = 0 /\ after[u] = "abandon" => dir.exe = mine[u]
      /\ ordered /\ edits = 0 => Vetted(dir.exe)
  BY <1>2 DEF IInv, TypeOK, Directories, Disks, Holder, Route, Journaled, Seen, Settling, Journals
<1>5. \A e \in Directories : F(e) \in Directories
  BY <1>4, BackupSet
<1>6. \A e \in Directories : F(e).exe = e.exe /\ F(e).journal = e.journal
         /\ \A w \in Updaters : F(e).backup[w] = IF w = state[u].by THEN Missing ELSE e.backup[w]
  <2>1. PICK b \in Updaters : b = state[u].by
    BY <1>4
  <2>2. \A e \in Directories : F(e) = SetBackup(e, b, Missing)
    BY <2>1
  <2>3. \A e \in Directories :
          /\ SetBackup(e, b, Missing).exe = e.exe /\ SetBackup(e, b, Missing).journal = e.journal
          /\ \A w \in Updaters :
               SetBackup(e, b, Missing).backup[w] = IF w = b THEN Missing ELSE e.backup[w]
    BY BackupSet
  <2> QED BY <2>1, <2>2, <2>3
<1> HIDE DEF F
<1>7. TypeOK'
  BY <1>1, <1>2, <1>4, <1>5 DEF IInv, TypeOK, Locked
<1>8. Route(u)'
  BY <1>2, <1>3 DEF IInv, Holder, Route, Settling, Attempting, Locked, Unlocked
<1>9. Journaled(u)'
  BY <1>1, <1>2, <1>3, <1>4, <1>6 DEF Journaled, Attempt, Settling, Attempting
<1>10. edits' = 0 => Seen(u)'
  BY <1>1, <1>2, <1>3, <1>4, <1>6 DEF Seen
<1>11. Holder'
  BY <1>2, <1>7, <1>8, <1>9, <1>10, Others DEF IInv, TypeOK
<1>12. \A e \in disks :
         /\ F(e).journal # NoJournal => F(e).journal.to = Target[F(e).journal.by]
         /\ edits = 0 => F(e).exe # Missing
  BY <1>4, <1>6 DEF IInv, Disks
<1>13. ordered => Owned(F(dir)) /\ (edits = 0 => Settled(F(dir)))
  BY <1>4, <1>6 DEF IInv, Disks, Owned, Settled, Vetted
<1>14. ordered /\ edits = 0 /\ pc'[u] \in {"dropBackup", "dropJournal", "sync"} => Vetted(dir'.exe)
  BY <1>1, <1>4, <1>6
<1>15. Disks'
  BY <1>1, <1>2, <1>12, <1>13, <1>14, HolderDisks
<1>16. \A e \in disks : \A w \in Updaters :
         edits = 0 /\ (\A d \in disks : Above(d, w)) => Above(F(e), w)
  BY <1>1, <1>4, <1>6 DEF IInv, Disks, Above, Attempt
<1>17. Kept'
  <2>1. \A w \in Updaters : result'[w] = "updated" => result[w] = "updated"
    BY <1>2, <1>3
  <2> QED BY <1>1, <1>2, <1>16, <2>1, HolderKept
<1> QED BY <1>7, <1>11, <1>15, <1>17 DEF IInv

LEMMA DropJournalStep == ASSUME IInv, NEW u \in Updaters, DropJournal(u) PROVE IInv'
<1> DEFINE F(d) == SetJournal(d, NoJournal)
<1> USE NamesAssumption, BoundsAssumption, Numbers
<1>1. /\ dir' \in disks' /\ dir' \in {dir, F(dir)}
      /\ \A d \in disks' \ disks : \E e \in disks : d = F(e) /\ (ordered => e = dir)
  BY DEF DropJournal, RemoveJournal, RemovalFails, Broken, Apply, Change, Durably, IInv, Disks
<1>2. /\ pc[u] = "dropJournal" /\ lock = u /\ UNCHANGED <<state, mine, proven, ordered, edits>>
      /\ faults' \in 0..MaxFaults
      /\ \A v \in Updaters \ {u} : pc'[v] = pc[v] /\ after'[v] = after[v] /\ result'[v] = result[v]
      /\ pc' \in [Updaters -> Unlocked \cup Locked] /\ (pc'[u] \in Locked <=> lock' = u)
      /\ lock' \in {u, Free}
      /\ after' \in [Updaters -> {"none", "download", "current", "abandon"}]
      /\ result' \in [Updaters -> {"none", "current", "failed", "retained", "updated"}]
  BY DEF DropJournal, RemoveJournal, RemovalFails, Broken, Charge, Outcomes, Stay, Goto, Finish, IInv, TypeOK, Locked, Unlocked
<1>3. /\ result'[u] \in {"none", "failed", "retained", "current"} /\ (result'[u] # "none" => pc'[u] = "done")
      /\ result[u] = "none"
      /\ after' = after /\ ((pc'[u] = "sync" /\ dir' = F(dir)) \/ pc'[u] = "done")
  BY DEF DropJournal, RemoveJournal, RemovalFails, Broken, Apply, Change, Durably, Charge, Outcomes, Stay, Goto, Finish, IInv, TypeOK, Holder, Route
<1>4. /\ \A e \in disks : e \in Directories
      /\ state[u] \in Journals /\ dir \in Directories
      /\ dir.journal = state[u] /\ dir.backup[state[u].by] = Missing
      /\ after[u] # "none" /\ (after[u] = "abandon" => state[u] = Attempt(u))
      /\ edits = 0 /\ after[u] = "abandon" => dir.exe = mine[u]
      /\ ordered /\ edits = 0 => Vetted(dir.exe)
  BY <1>2 DEF IInv, TypeOK, Disks, Holder, Route, Journaled, Seen, Settling
<1>5. \A e \in Directories : F(e) \in Directories
  BY <1>4, JournalSet
<1>6. \A e \in Directories : F(e).exe = e.exe /\ F(e).journal = NoJournal /\ F(e).backup = e.backup
  BY <1>4, JournalSet
<1> HIDE DEF F
<1>7. TypeOK'
  BY <1>1, <1>2, <1>4, <1>5 DEF IInv, TypeOK, Locked
<1>8. Route(u)'
  BY <1>2, <1>3 DEF IInv, Holder, Route, Settling, Attempting, Locked, Unlocked
<1>9. Journaled(u)'
  BY <1>1, <1>2, <1>3, <1>4, <1>6 DEF Journaled, Attempt, Settling, Attempting
<1>10. edits' = 0 => Seen(u)'
  BY <1>1, <1>2, <1>3, <1>4, <1>6 DEF Seen
<1>11. Holder'
  BY <1>2, <1>7, <1>8, <1>9, <1>10, Others DEF IInv, TypeOK
<1>12. \A e \in disks :
         /\ F(e).journal # NoJournal => F(e).journal.to = Target[F(e).journal.by]
         /\ edits = 0 => F(e).exe # Missing
  BY <1>4, <1>6 DEF IInv, Disks
<1>13. ordered => Owned(F(dir)) /\ (edits = 0 => Settled(F(dir)))
  BY <1>4, <1>6 DEF IInv, Disks, Owned, Settled, Vetted
<1>14. ordered /\ edits = 0 /\ pc'[u] \in {"dropBackup", "dropJournal", "sync"} => Vetted(dir'.exe)
  BY <1>1, <1>4, <1>6
<1>15. Disks'
  BY <1>1, <1>2, <1>12, <1>13, <1>14, HolderDisks
<1>16. \A e \in disks : \A w \in Updaters :
         edits = 0 /\ (\A d \in disks : Above(d, w)) => Above(F(e), w)
  BY <1>1, <1>4, <1>6 DEF IInv, Disks, Above, Attempt
<1>17. Kept'
  <2>1. \A w \in Updaters : result'[w] = "updated" => result[w] = "updated"
    BY <1>2, <1>3
  <2> QED BY <1>1, <1>2, <1>16, <2>1, HolderKept
<1> QED BY <1>7, <1>11, <1>15, <1>17 DEF IInv

LEMMA SyncStep == ASSUME IInv, NEW u \in Updaters, Sync(u) PROVE IInv'
<1> DEFINE F(d) == d
<1> USE NamesAssumption, BoundsAssumption, Numbers
<1>1. /\ dir' \in disks' /\ dir' \in {dir, F(dir)}
      /\ \A d \in disks' \ disks : \E e \in disks : d = F(e) /\ (ordered => e = dir)
  BY DEF Sync, RemovalFails, Broken, Reconciled, Apply, Change, Durably, IInv, Disks
<1>2. /\ pc[u] = "sync" /\ lock = u /\ UNCHANGED <<state, mine, proven, ordered, edits>>
      /\ faults' \in 0..MaxFaults
      /\ \A v \in Updaters \ {u} : pc'[v] = pc[v] /\ after'[v] = after[v] /\ result'[v] = result[v]
      /\ pc' \in [Updaters -> Unlocked \cup Locked] /\ (pc'[u] \in Locked <=> lock' = u)
      /\ lock' \in {u, Free}
      /\ after' \in [Updaters -> {"none", "download", "current", "abandon"}]
      /\ result' \in [Updaters -> {"none", "current", "failed", "retained", "updated"}]
  BY DEF Sync, RemovalFails, Broken, Reconciled, Charge, Outcomes, Stay, Goto, Finish, IInv, TypeOK, Locked, Unlocked
<1>3. /\ result'[u] \in {"none", "failed", "retained", "current"} /\ (result'[u] # "none" => pc'[u] = "done")
      /\ result[u] = "none"
      /\ after' = after
      /\ \/ pc'[u] = "done"
         \/ pc'[u] = "download" /\ after[u] = "download"
         \/ pc'[u] = "current" /\ after[u] \notin {"download", "abandon"}
  BY DEF Sync, RemovalFails, Broken, Reconciled, Apply, Change, Durably, Charge, Outcomes, Stay, Goto, Finish, IInv, TypeOK, Holder, Route
<1>4. /\ \A e \in disks : e \in Directories
      /\ dir \in Directories
      /\ after[u] # "none" /\ (after[u] = "abandon" => state[u] = Attempt(u))
      /\ dir.journal = NoJournal
  BY <1>2 DEF IInv, TypeOK, Disks, Holder, Route, Journaled
<1>5. \A e \in Directories : F(e) \in Directories
  BY <1>4
<1>6. \A e \in Directories : F(e).exe = e.exe /\ F(e) = e
  OBVIOUS
<1> HIDE DEF F
<1>7. TypeOK'
  BY <1>1, <1>2, <1>4, <1>5 DEF IInv, TypeOK, Locked
<1>8. Route(u)'
  BY <1>2, <1>3 DEF IInv, Holder, Route, Settling, Attempting, Locked, Unlocked
<1>9. Journaled(u)'
  BY <1>1, <1>2, <1>3, <1>4, <1>6 DEF Journaled, Attempt, Settling, Attempting
<1>10. edits' = 0 => Seen(u)'
  BY <1>1, <1>2, <1>3, <1>4, <1>6 DEF Seen
<1>11. Holder'
  BY <1>2, <1>7, <1>8, <1>9, <1>10, Others DEF IInv, TypeOK
<1>12. \A e \in disks :
         /\ F(e).journal # NoJournal => F(e).journal.to = Target[F(e).journal.by]
         /\ edits = 0 => F(e).exe # Missing
  BY <1>4, <1>6 DEF IInv, Disks
<1>13. ordered => Owned(F(dir)) /\ (edits = 0 => Settled(F(dir)))
  BY <1>4, <1>6 DEF IInv, Disks
<1>14. ordered /\ edits = 0 /\ pc'[u] \in {"dropBackup", "dropJournal", "sync"} => Vetted(dir'.exe)
  BY <1>3
<1>15. Disks'
  BY <1>1, <1>2, <1>12, <1>13, <1>14, HolderDisks
<1>16. \A e \in disks : \A w \in Updaters :
         edits = 0 /\ (\A d \in disks : Above(d, w)) => Above(F(e), w)
  BY <1>4, <1>6
<1>17. Kept'
  <2>1. \A w \in Updaters : result'[w] = "updated" => result[w] = "updated"
    BY <1>2, <1>3
  <2> QED BY <1>1, <1>2, <1>16, <2>1, HolderKept
<1> QED BY <1>7, <1>11, <1>15, <1>17 DEF IInv

LEMMA PrepareStep == ASSUME IInv, NEW u \in Updaters, Prepare(u) PROVE IInv'
<1> DEFINE F(d) == SetJournal(d, state[u])
<1> USE NamesAssumption, BoundsAssumption, Numbers
<1>1. /\ dir' \in disks' /\ dir' \in {dir, F(dir)}
      /\ \A d \in disks' \ disks : \E e \in disks : d = F(e) /\ (ordered => e = dir)
  BY DEF Prepare, Apply, Change, Durably, IInv, Disks
<1>2. /\ pc[u] = "prepare" /\ lock = u /\ UNCHANGED <<state, mine, proven, ordered, edits>>
      /\ faults' \in 0..MaxFaults
      /\ \A v \in Updaters \ {u} : pc'[v] = pc[v] /\ after'[v] = after[v] /\ result'[v] = result[v]
      /\ pc' \in [Updaters -> Unlocked \cup Locked] /\ (pc'[u] \in Locked <=> lock' = u)
      /\ lock' \in {u, Free}
      /\ after' \in [Updaters -> {"none", "download", "current", "abandon"}]
      /\ result' \in [Updaters -> {"none", "current", "failed", "retained", "updated"}]
  BY DEF Prepare, Charge, Outcomes, Stay, Goto, Finish, IInv, TypeOK, Locked, Unlocked
<1>3. /\ result'[u] \in {"none", "failed", "retained", "current"} /\ (result'[u] # "none" => pc'[u] = "done")
      /\ result[u] = "none"
      /\ after' = after /\ ((pc'[u] = "copy" /\ dir' = F(dir)) \/ pc'[u] = "done")
  BY DEF Prepare, Apply, Change, Durably, Charge, Outcomes, Stay, Goto, Finish, IInv, TypeOK, Holder, Route
<1>4. /\ \A e \in disks : e \in Directories
      /\ state[u] \in Journals /\ dir \in Directories
      /\ state[u] = Attempt(u) /\ after[u] = "current" /\ dir.journal = NoJournal
      /\ edits = 0 => dir.exe = mine[u]
  BY <1>2 DEF IInv, TypeOK, Disks, Holder, Route, Journaled, Seen, Attempt, Journals
<1>5. \A e \in Directories : F(e) \in Directories
  BY <1>4, JournalSet
<1>6. \A e \in Directories : F(e).exe = e.exe /\ F(e).journal = state[u] /\ F(e).backup = e.backup
  BY <1>4, JournalSet
<1> HIDE DEF F
<1>7. TypeOK'
  BY <1>1, <1>2, <1>4, <1>5 DEF IInv, TypeOK, Locked
<1>8. Route(u)'
  BY <1>2, <1>3 DEF IInv, Holder, Route, Settling, Attempting, Locked, Unlocked
<1>9. Journaled(u)'
  BY <1>1, <1>2, <1>3, <1>4, <1>6 DEF Journaled, Attempt, Settling, Attempting
<1>10. edits' = 0 => Seen(u)'
  BY <1>1, <1>2, <1>3, <1>4, <1>6 DEF Seen, Attempt
<1>11. Holder'
  BY <1>2, <1>7, <1>8, <1>9, <1>10, Others DEF IInv, TypeOK
<1>12. \A e \in disks :
         /\ F(e).journal # NoJournal => F(e).journal.to = Target[F(e).journal.by]
         /\ edits = 0 => F(e).exe # Missing
  BY <1>4, <1>6 DEF IInv, Disks, Attempt
<1>13. ordered => Owned(F(dir)) /\ (edits = 0 => Settled(F(dir)))
  BY <1>4, <1>6 DEF IInv, Disks, Owned, Settled, Vetted, Attempt
<1>14. ordered /\ edits = 0 /\ pc'[u] \in {"dropBackup", "dropJournal", "sync"} => Vetted(dir'.exe)
  BY <1>3
<1>15. Disks'
  BY <1>1, <1>2, <1>12, <1>13, <1>14, HolderDisks
<1>16. \A e \in disks : \A w \in Updaters :
         edits = 0 /\ (\A d \in disks : Above(d, w)) => Above(F(e), w)
  BY <1>1, <1>4, <1>6 DEF IInv, Disks, Above, Attempt
<1>17. Kept'
  <2>1. \A w \in Updaters : result'[w] = "updated" => result[w] = "updated"
    BY <1>2, <1>3
  <2> QED BY <1>1, <1>2, <1>16, <2>1, HolderKept
<1> QED BY <1>7, <1>11, <1>15, <1>17 DEF IInv

LEMMA BeginCopyStep == ASSUME IInv, NEW u \in Updaters, BeginCopy(u) PROVE IInv'
<1> DEFINE F(d) == SetBackup(d, u, Partial)
<1> USE NamesAssumption, BoundsAssumption, Numbers
<1>1. /\ dir' \in disks' /\ dir' \in {dir, F(dir)}
      /\ \A d \in disks' \ disks : \E e \in disks : d = F(e) /\ (ordered => e = dir)
  BY DEF BeginCopy, Continue, Fail, Recovery, Apply, Change, Durably, IInv, Disks
<1>2. /\ pc[u] = "copy" /\ lock = u /\ UNCHANGED <<state, mine, proven, ordered, edits>>
      /\ faults' \in 0..MaxFaults
      /\ \A v \in Updaters \ {u} : pc'[v] = pc[v] /\ after'[v] = after[v] /\ result'[v] = result[v]
      /\ pc' \in [Updaters -> Unlocked \cup Locked] /\ (pc'[u] \in Locked <=> lock' = u)
      /\ lock' \in {u, Free}
      /\ after' \in [Updaters -> {"none", "download", "current", "abandon"}]
      /\ result' \in [Updaters -> {"none", "current", "failed", "retained", "updated"}]
  BY DEF BeginCopy, Continue, Fail, Recovery, Charge, Outcomes, Stay, Goto, Finish, IInv, TypeOK, Locked, Unlocked
<1>3. /\ result'[u] \in {"none", "failed", "retained", "current"} /\ (result'[u] # "none" => pc'[u] = "done")
      /\ result[u] = "none"
      /\ \/ pc'[u] = "backup" /\ dir' = F(dir) /\ after'[u] = after[u]
         \/ pc'[u] = "dropBackup" /\ dir' = dir /\ after'[u] = "abandon"
  BY DEF BeginCopy, Continue, Fail, Recovery, Apply, Change, Durably, Charge, Outcomes, Stay, Goto, Finish, IInv, TypeOK, Holder, Route
<1>4. /\ \A e \in disks : e \in Directories
      /\ state[u] \in Journals /\ dir \in Directories
      /\ dir.journal = state[u] /\ state[u] = Attempt(u) /\ after[u] = "current"
      /\ edits = 0 => dir.exe = mine[u]
  BY <1>2 DEF IInv, TypeOK, Holder, Route, Journaled, Seen, Settling, Attempting
<1>5. \A e \in Directories : F(e) \in Directories
  BY <1>4, BackupSet
<1>6. \A e \in Directories : F(e).exe = e.exe /\ F(e).journal = e.journal
         /\ \A w \in Updaters : F(e).backup[w] = IF w = u THEN Partial ELSE e.backup[w]
  BY <1>4, BackupSet
<1> HIDE DEF F
<1>7. TypeOK'
  BY <1>1, <1>2, <1>4, <1>5 DEF IInv, TypeOK, Locked
<1>8. Route(u)'
  BY <1>2, <1>3 DEF IInv, Holder, Route, Settling, Attempting, Locked, Unlocked
<1>9. Journaled(u)'
  BY <1>1, <1>2, <1>3, <1>4, <1>6 DEF Journaled, Attempt, Settling, Attempting
<1>10. edits' = 0 => Seen(u)'
  BY <1>1, <1>2, <1>3, <1>4, <1>6 DEF Seen
<1>11. Holder'
  BY <1>2, <1>7, <1>8, <1>9, <1>10, Others DEF IInv, TypeOK
<1>12. \A e \in disks :
         /\ F(e).journal # NoJournal => F(e).journal.to = Target[F(e).journal.by]
         /\ edits = 0 => F(e).exe # Missing
  BY <1>4, <1>6 DEF IInv, Disks
<1>13. ordered => Owned(F(dir)) /\ (edits = 0 => Settled(F(dir)))
  BY <1>4, <1>6, VersionsAssumption DEF IInv, Disks, TypeOK, Directories, Owned, Settled, Attempt, Holder, Route
<1>14. ordered /\ edits = 0 /\ pc'[u] \in {"dropBackup", "dropJournal", "sync"} => Vetted(dir'.exe)
  <2>1. ordered /\ edits = 0 => Vetted(dir.exe)
    BY <1>4, VersionsAssumption DEF IInv, Disks, Settled, Vetted, Attempt, Holder, Route
  <2> QED BY <1>1, <1>3, <1>4, <1>6, <2>1
<1>15. Disks'
  BY <1>1, <1>2, <1>12, <1>13, <1>14, HolderDisks
<1>16. \A e \in disks : \A w \in Updaters :
         edits = 0 /\ (\A d \in disks : Above(d, w)) => Above(F(e), w)
  BY <1>1, <1>4, <1>6 DEF IInv, Disks, Above, Attempt
<1>17. Kept'
  <2>1. \A w \in Updaters : result'[w] = "updated" => result[w] = "updated"
    BY <1>2, <1>3
  <2> QED BY <1>1, <1>2, <1>16, <2>1, HolderKept
<1> QED BY <1>7, <1>11, <1>15, <1>17 DEF IInv

LEMMA RecordBackedUpStep == ASSUME IInv, NEW u \in Updaters, RecordBackedUp(u) PROVE IInv'
<1> DEFINE F(d) == SetJournal(d, state[u])
<1> USE NamesAssumption, BoundsAssumption, Numbers
<1>1. /\ dir' \in disks' /\ dir' \in {dir, F(dir)}
      /\ \A d \in disks' \ disks : \E e \in disks : d = F(e) /\ (ordered => e = dir)
  BY DEF RecordBackedUp, Record, Continue, Fail, Recovery, Apply, Change, Durably, IInv, Disks
<1>2. /\ pc[u] = "backedUp" /\ lock = u /\ UNCHANGED <<state, mine, proven, ordered, edits>>
      /\ faults' \in 0..MaxFaults
      /\ \A v \in Updaters \ {u} : pc'[v] = pc[v] /\ after'[v] = after[v] /\ result'[v] = result[v]
      /\ pc' \in [Updaters -> Unlocked \cup Locked] /\ (pc'[u] \in Locked <=> lock' = u)
      /\ lock' \in {u, Free}
      /\ after' \in [Updaters -> {"none", "download", "current", "abandon"}]
      /\ result' \in [Updaters -> {"none", "current", "failed", "retained", "updated"}]
  BY DEF RecordBackedUp, Record, Continue, Fail, Recovery, Charge, Outcomes, Stay, Goto, Finish, IInv, TypeOK, Locked, Unlocked
<1>3. /\ result'[u] \in {"none", "failed", "retained", "current"} /\ (result'[u] # "none" => pc'[u] = "done")
      /\ result[u] = "none"
      /\ \/ pc'[u] = "install" /\ after'[u] = after[u]
         \/ pc'[u] = "dropBackup" /\ after'[u] = "abandon"
  BY DEF RecordBackedUp, Record, Continue, Fail, Recovery, Apply, Change, Durably, Charge, Outcomes, Stay, Goto, Finish, IInv, TypeOK, Holder, Route
<1>4. /\ \A e \in disks : e \in Directories
      /\ state[u] \in Journals /\ dir \in Directories
      /\ dir.journal = state[u] /\ state[u] = Attempt(u) /\ after[u] = "current"
      /\ edits = 0 => dir.exe = mine[u] /\ dir.backup[u] = mine[u]
  BY <1>2 DEF IInv, TypeOK, Holder, Route, Journaled, Seen, Settling, Attempting
<1>5. \A e \in Directories : F(e) \in Directories
  BY <1>4, JournalSet
<1>6. \A e \in Directories : F(e).exe = e.exe /\ F(e).journal = state[u] /\ F(e).backup = e.backup
  BY <1>4, JournalSet
<1> HIDE DEF F
<1>7. TypeOK'
  BY <1>1, <1>2, <1>4, <1>5 DEF IInv, TypeOK, Locked
<1>8. Route(u)'
  BY <1>2, <1>3 DEF IInv, Holder, Route, Settling, Attempting, Locked, Unlocked
<1>9. Journaled(u)'
  BY <1>1, <1>2, <1>3, <1>4, <1>6 DEF Journaled, Attempt, Settling, Attempting
<1>10. edits' = 0 => Seen(u)'
  BY <1>1, <1>2, <1>3, <1>4, <1>6 DEF Seen
<1>11. Holder'
  BY <1>2, <1>7, <1>8, <1>9, <1>10, Others DEF IInv, TypeOK
<1>12. \A e \in disks :
         /\ F(e).journal # NoJournal => F(e).journal.to = Target[F(e).journal.by]
         /\ edits = 0 => F(e).exe # Missing
  BY <1>4, <1>6 DEF IInv, Disks, Attempt
<1>13. ordered => Owned(F(dir)) /\ (edits = 0 => Settled(F(dir)))
  BY <1>4, <1>6 DEF IInv, Disks, Owned, Settled, Vetted
<1>14. ordered /\ edits = 0 /\ pc'[u] \in {"dropBackup", "dropJournal", "sync"} => Vetted(dir'.exe)
  <2>1. ordered /\ edits = 0 => Vetted(dir.exe)
    BY <1>4, VersionsAssumption DEF IInv, Disks, Settled, Vetted, Attempt, Holder, Route
  <2> QED BY <1>1, <1>3, <1>4, <1>6, <2>1
<1>15. Disks'
  BY <1>1, <1>2, <1>12, <1>13, <1>14, HolderDisks
<1>16. \A e \in disks : \A w \in Updaters :
         edits = 0 /\ (\A d \in disks : Above(d, w)) => Above(F(e), w)
  BY <1>1, <1>4, <1>6 DEF IInv, Disks, Above, Attempt
<1>17. Kept'
  <2>1. \A w \in Updaters : result'[w] = "updated" => result[w] = "updated"
    BY <1>2, <1>3
  <2> QED BY <1>1, <1>2, <1>16, <2>1, HolderKept
<1> QED BY <1>7, <1>11, <1>15, <1>17 DEF IInv

LEMMA InstallStep == ASSUME IInv, NEW u \in Updaters, Install(u) PROVE IInv'
<1> DEFINE F(d) == SetExe(d, Target[u])
<1> USE NamesAssumption, BoundsAssumption, Numbers
<1>1. /\ dir' \in disks' /\ dir' \in {dir, F(dir)}
      /\ \A d \in disks' \ disks : \E e \in disks : d = F(e) /\ (ordered => e = dir)
  BY DEF Install, Continue, Fail, Recovery, Apply, Change, Durably, IInv, Disks
<1>2. /\ pc[u] = "install" /\ lock = u /\ UNCHANGED <<state, mine, proven, ordered, edits>>
      /\ faults' \in 0..MaxFaults
      /\ \A v \in Updaters \ {u} : pc'[v] = pc[v] /\ after'[v] = after[v] /\ result'[v] = result[v]
      /\ pc' \in [Updaters -> Unlocked \cup Locked] /\ (pc'[u] \in Locked <=> lock' = u)
      /\ lock' \in {u, Free}
      /\ after' \in [Updaters -> {"none", "download", "current", "abandon"}]
      /\ result' \in [Updaters -> {"none", "current", "failed", "retained", "updated"}]
  BY DEF Install, Continue, Fail, Recovery, Charge, Outcomes, Stay, Goto, Finish, IInv, TypeOK, Locked, Unlocked
<1>3. /\ result'[u] \in {"none", "failed", "retained", "current"} /\ (result'[u] # "none" => pc'[u] = "done")
      /\ result[u] = "none"
      /\ \/ pc'[u] = "installed" /\ dir' = F(dir) /\ after'[u] = after[u]
         \/ pc'[u] = "dropBackup" /\ dir' = dir /\ after'[u] = "abandon"
         \/ pc'[u] = "restore" /\ dir' = F(dir) /\ after'[u] = "abandon"
  BY DEF Install, Continue, Fail, Recovery, Apply, Change, Durably, Charge, Outcomes, Stay, Goto, Finish, IInv, TypeOK, Holder, Route
<1>4. /\ \A e \in disks : e \in Directories
      /\ state[u] \in Journals /\ dir \in Directories
      /\ dir.journal = state[u] /\ state[u] = Attempt(u) /\ after[u] = "current"
      /\ edits = 0 => dir.exe = mine[u] /\ dir.backup[u] = mine[u]
  BY <1>2 DEF IInv, TypeOK, Holder, Route, Journaled, Seen, Attempting
<1>5. \A e \in Directories : F(e) \in Directories
  BY <1>4, ExeSet
<1>6. \A e \in Directories : F(e).exe = Target[u] /\ F(e).journal = e.journal /\ F(e).backup = e.backup
  <2>1. Target[u] \in Versions \cup {Missing}
    BY Numbers
  <2> QED BY <2>1, ExeSet
<1> HIDE DEF F
<1>7. TypeOK'
  BY <1>1, <1>2, <1>4, <1>5 DEF IInv, TypeOK, Locked
<1>8. Route(u)'
  BY <1>2, <1>3 DEF IInv, Holder, Route, Settling, Attempting, Locked, Unlocked
<1>9. Journaled(u)'
  BY <1>2, <1>3, <1>4, <1>6 DEF Journaled, Attempt, Settling, Attempting
<1>10. edits' = 0 => Seen(u)'
  BY <1>2, <1>3, <1>4, <1>6 DEF Seen
<1>11. Holder'
  BY <1>2, <1>7, <1>8, <1>9, <1>10, Others DEF IInv, TypeOK
<1>12. \A e \in disks :
         /\ F(e).journal # NoJournal => F(e).journal.to = Target[F(e).journal.by]
         /\ edits = 0 => F(e).exe # Missing
  BY <1>4, <1>6 DEF IInv, Disks
<1>13. ordered => Owned(F(dir)) /\ (edits = 0 => Settled(F(dir)))
  BY <1>4, <1>6, VersionsAssumption DEF IInv, Disks, Owned, Settled, Attempt
<1>14. ordered /\ edits = 0 /\ pc'[u] \in {"dropBackup", "dropJournal", "sync"} => Vetted(dir'.exe)
  <2>1. ordered /\ edits = 0 => Vetted(dir.exe)
    BY <1>4, VersionsAssumption DEF IInv, Disks, Settled, Vetted, Attempt, Holder, Route
  <2> QED BY <1>3, <2>1
<1>15. Disks'
  BY <1>1, <1>2, <1>12, <1>13, <1>14, HolderDisks
<1>16. \A e \in disks : \A w \in Updaters :
         edits = 0 /\ (\A d \in disks : Above(d, w)) => Above(F(e), w)
  <2>1. Target[u] > mine[u] /\ mine[u] \in Versions
    BY <1>4 DEF IInv, TypeOK, Holder, Route
  <2> QED BY <1>4, <1>6, <2>1 DEF IInv, Disks, Above
<1>17. Kept'
  <2>1. \A w \in Updaters : result'[w] = "updated" => result[w] = "updated"
    BY <1>2, <1>3
  <2> QED BY <1>1, <1>2, <1>16, <2>1, HolderKept
<1> QED BY <1>7, <1>11, <1>15, <1>17 DEF IInv

LEMMA RecordInstalledStep == ASSUME IInv, NEW u \in Updaters, RecordInstalled(u) PROVE IInv'
<1> DEFINE F(d) == SetJournal(d, state[u])
<1> USE NamesAssumption, BoundsAssumption, Numbers
<1>1. /\ dir' \in disks' /\ dir' \in {dir, F(dir)}
      /\ \A d \in disks' \ disks : \E e \in disks : d = F(e) /\ (ordered => e = dir)
  BY DEF RecordInstalled, Record, Probed, Continue, Fail, Recovery, Apply, Change, Durably, IInv, Disks
<1>2. /\ pc[u] = "installed" /\ lock = u /\ UNCHANGED <<state, mine, proven, ordered, edits>>
      /\ faults' \in 0..MaxFaults
      /\ \A v \in Updaters \ {u} : pc'[v] = pc[v] /\ after'[v] = after[v] /\ result'[v] = result[v]
      /\ pc' \in [Updaters -> Unlocked \cup Locked] /\ (pc'[u] \in Locked <=> lock' = u)
      /\ lock' \in {u, Free}
      /\ after' \in [Updaters -> {"none", "download", "current", "abandon"}]
      /\ result' \in [Updaters -> {"none", "current", "failed", "retained", "updated"}]
  BY DEF RecordInstalled, Record, Probed, Continue, Fail, Recovery, Charge, Outcomes, Stay, Goto, Finish, IInv, TypeOK, Locked, Unlocked
<1>3. /\ result'[u] \in {"none", "failed", "retained", "current"} /\ (result'[u] # "none" => pc'[u] = "done")
      /\ result[u] = "none"
      /\ \/ pc'[u] = "verify" /\ after'[u] = after[u]
         \/ pc'[u] = "restore" /\ after'[u] = "abandon"
  BY DEF RecordInstalled, Record, Probed, Continue, Fail, Recovery, Apply, Change, Durably, Charge, Outcomes, Stay, Goto, Finish, IInv, TypeOK, Holder, Route
<1>4. /\ \A e \in disks : e \in Directories
      /\ state[u] \in Journals /\ dir \in Directories
      /\ dir.journal = state[u] /\ state[u] = Attempt(u) /\ after[u] = "current"
      /\ edits = 0 => dir.exe = Target[u]
  BY <1>2 DEF IInv, TypeOK, Holder, Route, Journaled, Seen, Settling, Attempting
<1>5. \A e \in Directories : F(e) \in Directories
  BY <1>4, JournalSet
<1>6. \A e \in Directories : F(e).exe = e.exe /\ F(e).journal = state[u] /\ F(e).backup = e.backup
  BY <1>4, JournalSet
<1> HIDE DEF F
<1>7. TypeOK'
  BY <1>1, <1>2, <1>4, <1>5 DEF IInv, TypeOK, Locked
<1>8. Route(u)'
  BY <1>2, <1>3 DEF IInv, Holder, Route, Settling, Attempting, Locked, Unlocked
<1>9. Journaled(u)'
  BY <1>1, <1>2, <1>3, <1>4, <1>6 DEF Journaled, Attempt, Settling, Attempting
<1>10. edits' = 0 => Seen(u)'
  BY <1>1, <1>2, <1>3, <1>4, <1>6 DEF Seen
<1>11. Holder'
  BY <1>2, <1>7, <1>8, <1>9, <1>10, Others DEF IInv, TypeOK
<1>12. \A e \in disks :
         /\ F(e).journal # NoJournal => F(e).journal.to = Target[F(e).journal.by]
         /\ edits = 0 => F(e).exe # Missing
  BY <1>4, <1>6 DEF IInv, Disks, Attempt
<1>13. ordered => Owned(F(dir)) /\ (edits = 0 => Settled(F(dir)))
  BY <1>4, <1>6 DEF IInv, Disks, Owned, Settled, Vetted
<1>14. ordered /\ edits = 0 /\ pc'[u] \in {"dropBackup", "dropJournal", "sync"} => Vetted(dir'.exe)
  BY <1>3
<1>15. Disks'
  BY <1>1, <1>2, <1>12, <1>13, <1>14, HolderDisks
<1>16. \A e \in disks : \A w \in Updaters :
         edits = 0 /\ (\A d \in disks : Above(d, w)) => Above(F(e), w)
  BY <1>1, <1>4, <1>6 DEF IInv, Disks, Above, Attempt
<1>17. Kept'
  <2>1. \A w \in Updaters : result'[w] = "updated" => result[w] = "updated"
    BY <1>2, <1>3
  <2> QED BY <1>1, <1>2, <1>16, <2>1, HolderKept
<1> QED BY <1>7, <1>11, <1>15, <1>17 DEF IInv

LEMMA RecordVerifiedStep == ASSUME IInv, NEW u \in Updaters, RecordVerified(u) PROVE IInv'
<1> DEFINE F(d) == SetJournal(d, state[u])
<1> USE NamesAssumption, BoundsAssumption, Numbers
<1>1. /\ dir' \in disks' /\ dir' \in {dir, F(dir)}
      /\ \A d \in disks' \ disks : \E e \in disks : d = F(e) /\ (ordered => e = dir)
  BY DEF RecordVerified, Record, Continue, Fail, Recovery, Apply, Change, Durably, IInv, Disks
<1>2. /\ pc[u] = "verified" /\ lock = u /\ UNCHANGED <<state, mine, proven, ordered, edits>>
      /\ faults' \in 0..MaxFaults
      /\ \A v \in Updaters \ {u} : pc'[v] = pc[v] /\ after'[v] = after[v] /\ result'[v] = result[v]
      /\ pc' \in [Updaters -> Unlocked \cup Locked] /\ (pc'[u] \in Locked <=> lock' = u)
      /\ lock' \in {u, Free}
      /\ after' \in [Updaters -> {"none", "download", "current", "abandon"}]
      /\ result' \in [Updaters -> {"none", "current", "failed", "retained", "updated"}]
  BY DEF RecordVerified, Record, Continue, Fail, Recovery, Charge, Outcomes, Stay, Goto, Finish, IInv, TypeOK, Locked, Unlocked
<1>3. /\ result'[u] \in {"none", "failed", "retained", "current"} /\ (result'[u] # "none" => pc'[u] = "done")
      /\ result[u] = "none"
      /\ \/ pc'[u] = "complete" /\ after'[u] = after[u]
         \/ pc'[u] = "restore" /\ after'[u] = "abandon"
  BY DEF RecordVerified, Record, Continue, Fail, Recovery, Apply, Change, Durably, Charge, Outcomes, Stay, Goto, Finish, IInv, TypeOK, Holder, Route
<1>4. /\ \A e \in disks : e \in Directories
      /\ state[u] \in Journals /\ dir \in Directories
      /\ dir.journal = state[u] /\ state[u] = Attempt(u) /\ after[u] = "current"
      /\ edits = 0 => dir.exe = Target[u] /\ u \in proven
  BY <1>2 DEF IInv, TypeOK, Holder, Route, Journaled, Seen, Settling, Attempting
<1>5. \A e \in Directories : F(e) \in Directories
  BY <1>4, JournalSet
<1>6. \A e \in Directories : F(e).exe = e.exe /\ F(e).journal = state[u] /\ F(e).backup = e.backup
  BY <1>4, JournalSet
<1> HIDE DEF F
<1>7. TypeOK'
  BY <1>1, <1>2, <1>4, <1>5 DEF IInv, TypeOK, Locked
<1>8. Route(u)'
  BY <1>2, <1>3 DEF IInv, Holder, Route, Settling, Attempting, Locked, Unlocked
<1>9. Journaled(u)'
  BY <1>1, <1>2, <1>3, <1>4, <1>6 DEF Journaled, Attempt, Settling, Attempting
<1>10. edits' = 0 => Seen(u)'
  BY <1>1, <1>2, <1>3, <1>4, <1>6 DEF Seen
<1>11. Holder'
  BY <1>2, <1>7, <1>8, <1>9, <1>10, Others DEF IInv, TypeOK
<1>12. \A e \in disks :
         /\ F(e).journal # NoJournal => F(e).journal.to = Target[F(e).journal.by]
         /\ edits = 0 => F(e).exe # Missing
  BY <1>4, <1>6 DEF IInv, Disks, Attempt
<1>13. ordered => Owned(F(dir)) /\ (edits = 0 => Settled(F(dir)))
  BY <1>4, <1>6 DEF IInv, Disks, Owned, Settled, Vetted
<1>14. ordered /\ edits = 0 /\ pc'[u] \in {"dropBackup", "dropJournal", "sync"} => Vetted(dir'.exe)
  BY <1>3
<1>15. Disks'
  BY <1>1, <1>2, <1>12, <1>13, <1>14, HolderDisks
<1>16. \A e \in disks : \A w \in Updaters :
         edits = 0 /\ (\A d \in disks : Above(d, w)) => Above(F(e), w)
  BY <1>1, <1>4, <1>6 DEF IInv, Disks, Above, Attempt
<1>17. Kept'
  <2>1. \A w \in Updaters : result'[w] = "updated" => result[w] = "updated"
    BY <1>2, <1>3
  <2> QED BY <1>1, <1>2, <1>16, <2>1, HolderKept
<1> QED BY <1>7, <1>11, <1>15, <1>17 DEF IInv

LEMMA CompleteStep == ASSUME IInv, NEW u \in Updaters, Complete(u) PROVE IInv'
<1> DEFINE F(d) == SetBackup(d, u, Missing)
<1> USE NamesAssumption, BoundsAssumption, Numbers
<1>1. /\ dir' \in disks' /\ dir' \in {dir, F(dir)}
      /\ \A d \in disks' \ disks : \E e \in disks : d = F(e) /\ (ordered => e = dir)
  BY DEF Complete, Apply, Change, Durably, IInv, Disks
<1>2. /\ pc[u] = "complete" /\ lock = u /\ UNCHANGED <<state, mine, proven, ordered, edits>>
      /\ faults' \in 0..MaxFaults
      /\ \A v \in Updaters \ {u} : pc'[v] = pc[v] /\ after'[v] = after[v] /\ result'[v] = result[v]
      /\ pc' \in [Updaters -> Unlocked \cup Locked] /\ (pc'[u] \in Locked <=> lock' = u)
      /\ lock' \in {u, Free}
      /\ after' \in [Updaters -> {"none", "download", "current", "abandon"}]
      /\ result' \in [Updaters -> {"none", "current", "failed", "retained", "updated"}]
  BY DEF Complete, Charge, Outcomes, Stay, Goto, Finish, IInv, TypeOK, Locked, Unlocked
<1>3. /\ result'[u] \in {"none", "failed", "retained", "current"} /\ (result'[u] # "none" => pc'[u] = "done")
      /\ result[u] = "none"
      /\ after' = after /\ ((pc'[u] = "forget" /\ dir' = F(dir)) \/ pc'[u] = "done")
  BY DEF Complete, Apply, Change, Durably, Charge, Outcomes, Stay, Goto, Finish, IInv, TypeOK, Holder, Route
<1>4. /\ \A e \in disks : e \in Directories
      /\ state[u] \in Journals /\ dir \in Directories
      /\ dir.journal = state[u] /\ state[u] = Attempt(u) /\ after[u] = "current"
      /\ dir.backup \in [Updaters -> Versions \cup {Missing, Partial}]
      /\ edits = 0 => dir.exe = Target[u] /\ u \in proven
  BY <1>2 DEF IInv, TypeOK, Directories, Holder, Route, Journaled, Seen, Attempting
<1>5. \A e \in Directories : F(e) \in Directories
  BY <1>4, BackupSet
<1>6. \A e \in Directories : F(e).exe = e.exe /\ F(e).journal = e.journal
         /\ \A w \in Updaters : F(e).backup[w] = IF w = u THEN Missing ELSE e.backup[w]
  BY <1>4, BackupSet
<1> HIDE DEF F
<1>7. TypeOK'
  BY <1>1, <1>2, <1>4, <1>5 DEF IInv, TypeOK, Locked
<1>8. Route(u)'
  BY <1>2, <1>3 DEF IInv, Holder, Route, Settling, Attempting, Locked, Unlocked
<1>9. Journaled(u)'
  BY <1>1, <1>2, <1>3, <1>4, <1>6 DEF Journaled, Attempt, Settling, Attempting
<1>10. edits' = 0 => Seen(u)'
  BY <1>1, <1>2, <1>3, <1>4, <1>6 DEF Seen
<1>11. Holder'
  BY <1>2, <1>7, <1>8, <1>9, <1>10, Others DEF IInv, TypeOK
<1>12. \A e \in disks :
         /\ F(e).journal # NoJournal => F(e).journal.to = Target[F(e).journal.by]
         /\ edits = 0 => F(e).exe # Missing
  BY <1>4, <1>6 DEF IInv, Disks
<1>13. ordered => Owned(F(dir)) /\ (edits = 0 => Settled(F(dir)))
  BY <1>4, <1>6, VersionsAssumption DEF IInv, Disks, Owned, Settled
<1>14. ordered /\ edits = 0 /\ pc'[u] \in {"dropBackup", "dropJournal", "sync"} => Vetted(dir'.exe)
  BY <1>3
<1>15. Disks'
  BY <1>1, <1>2, <1>12, <1>13, <1>14, HolderDisks
<1>16. \A e \in disks : \A w \in Updaters :
         edits = 0 /\ (\A d \in disks : Above(d, w)) => Above(F(e), w)
  BY <1>1, <1>4, <1>6 DEF IInv, Disks, Above, Attempt
<1>17. Kept'
  <2>1. \A w \in Updaters : result'[w] = "updated" => result[w] = "updated"
    BY <1>2, <1>3
  <2> QED BY <1>1, <1>2, <1>16, <2>1, HolderKept
<1> QED BY <1>7, <1>11, <1>15, <1>17 DEF IInv

\* The copy: the backup becomes what the executable is, or is removed again.
LEMMA BackupStep == ASSUME IInv, NEW u \in Updaters, Backup(u) PROVE IInv'
<1> USE NamesAssumption, BoundsAssumption, Numbers
<1>1. /\ dir' \in disks'
      /\ dir' = dir \/ \E v \in {Missing, dir.exe} : dir' = SetBackup(dir, u, v)
      /\ \A d \in disks' \ disks : \E e \in disks :
           (ordered => e = dir) /\ \E v \in {Missing, e.exe, dir.exe} : d = SetBackup(e, u, v)
  <2>1. CASE Durably(LAMBDA d : SetBackup(d, u, d.exe))
    BY <2>1 DEF Durably, IInv, Disks
  <2>2. CASE Change(LAMBDA d : SetBackup(d, u, Missing))
    BY <2>2 DEF Change, IInv, Disks
  <2>3. CASE Change(LAMBDA d : IF d.backup[u] = Missing THEN d ELSE SetBackup(d, u, dir.exe))
    <3> DEFINE G(d) == IF d.backup[u] = Missing THEN d ELSE SetBackup(d, u, dir.exe)
    <3>1. dir' = G(dir) /\ dir' \in disks' /\ \A d \in disks' \ disks : \E e \in disks :
            (ordered => e = dir) /\ d = G(e)
      BY <2>3 DEF Change, IInv, Disks
    <3>2. \A e \in disks : G(e) = e \/ G(e) = SetBackup(e, u, dir.exe)
      OBVIOUS
    <3>3. \A e \in disks : G(e) \notin disks => G(e) = SetBackup(e, u, dir.exe)
      BY <3>2
    <3>4. dir' = dir \/ dir' = SetBackup(dir, u, dir.exe)
      BY <3>1, <3>2 DEF IInv, Disks
    <3> HIDE DEF G
    <3> QED BY <3>1, <3>3, <3>4
  <2> QED BY <2>1, <2>2, <2>3 DEF Backup
<1>2. /\ pc[u] = "backup" /\ lock = u /\ UNCHANGED <<state, mine, proven, ordered, edits>>
      /\ faults' \in 0..MaxFaults
      /\ \A v \in Updaters \ {u} : pc'[v] = pc[v] /\ after'[v] = after[v] /\ result'[v] = result[v]
      /\ pc' \in [Updaters -> Unlocked \cup Locked] /\ (pc'[u] \in Locked <=> lock' = u)
      /\ lock' = u /\ result' = result
      /\ after' \in [Updaters -> {"none", "download", "current", "abandon"}]
  BY DEF Backup, Continue, Fail, Recovery, Charge, Outcomes, Stay, Goto, IInv, TypeOK, Locked, Unlocked
<1>3. \/ pc'[u] = "backedUp" /\ dir' = SetBackup(dir, u, dir.exe) /\ after'[u] = after[u]
      \/ pc'[u] = "dropBackup" /\ after'[u] = "abandon"
  BY DEF Backup, Continue, Fail, Recovery, Durably, Goto, IInv, TypeOK
<1>4. /\ \A e \in disks : e \in Directories /\ e.exe \in Versions \cup {Missing}
      /\ state[u] \in Journals /\ dir \in Directories /\ dir \in disks
      /\ dir.journal = state[u] /\ state[u] = Attempt(u) /\ after[u] = "current"
      /\ edits = 0 => dir.exe = mine[u]
      /\ result[u] = "none" /\ Target[u] > mine[u] /\ mine[u] \in Versions
  BY <1>2 DEF IInv, TypeOK, Directories, Disks, Holder, Route, Journaled, Seen, Settling, Attempting
<1>5. \A e \in disks : \A v \in {Missing, e.exe, dir.exe} :
        /\ SetBackup(e, u, v) \in Directories
        /\ SetBackup(e, u, v).exe = e.exe /\ SetBackup(e, u, v).journal = e.journal
        /\ \A w \in Updaters : SetBackup(e, u, v).backup[w] = IF w = u THEN v ELSE e.backup[w]
  <2>1. \A e \in disks : \A v \in {Missing, e.exe, dir.exe} :
          e \in Directories /\ v \in Versions \cup {Missing, Partial}
    BY <1>4
  <2> QED BY <2>1, BackupSet
<1>6. /\ dir'.exe = dir.exe /\ dir'.journal = dir.journal /\ dir' \in Directories
      /\ pc'[u] = "backedUp" => dir'.backup[u] = dir.exe
  BY <1>1, <1>3, <1>4, <1>5
<1>7. TypeOK'
  <2>1. disks' \subseteq Directories
    BY <1>1, <1>4, <1>5
  <2> QED BY <1>1, <1>2, <1>6, <2>1 DEF IInv, TypeOK, Locked
<1>8. Route(u)'
  BY <1>2, <1>3, <1>4 DEF IInv, Holder, Route, Settling, Attempting, Locked, Unlocked
<1>9. Journaled(u)'
  BY <1>2, <1>3, <1>4, <1>6 DEF Journaled, Attempt, Settling, Attempting
<1>10. edits' = 0 => Seen(u)'
  BY <1>2, <1>3, <1>4, <1>6 DEF Seen
<1>11. Holder'
  BY <1>2, <1>7, <1>8, <1>9, <1>10, Others DEF IInv, TypeOK
<1>12. ordered /\ edits = 0 => Vetted(dir.exe)
  BY <1>4, VersionsAssumption DEF IInv, Disks, Settled, Vetted, Attempt
<1>13. \A d \in disks' \ disks :
         /\ d.journal # NoJournal => d.journal.to = Target[d.journal.by]
         /\ edits = 0 => d.exe # Missing
         /\ ordered => d.exe = dir.exe /\ d.journal = dir.journal
                       /\ \A w \in Updaters \ {u} : d.backup[w] = dir.backup[w]
  BY <1>1, <1>5 DEF IInv, Disks
<1>14. \A d \in disks' \ disks : ordered => Owned(d) /\ (edits = 0 => Settled(d))
  <2>1. ASSUME ordered, NEW d \in disks' \ disks PROVE Owned(d)
    BY <1>4, <1>13, <2>1 DEF IInv, Disks, Owned, Attempt
  <2>2. ASSUME ordered, NEW d \in disks' \ disks, edits = 0 PROVE Settled(d)
    BY <1>4, <1>12, <1>13, <2>2 DEF IInv, Disks, Settled, Vetted
  <2> QED BY <2>1, <2>2
<1>15. Disks'
  BY <1>1, <1>2, <1>6, <1>12, <1>13, <1>14, HolderDisks
<1>16. \A d \in disks' \ disks : \A w \in Updaters :
         edits = 0 /\ (\A e \in disks : Above(e, w)) => Above(d, w)
  <2>1. \A d \in disks' \ disks : \E e \in disks : d.exe = e.exe /\ d.journal = e.journal
    BY <1>1, <1>5
  <2> QED BY <2>1 DEF Above
<1>17. Kept'
  BY <1>2, <1>16, HolderKept
<1> QED BY <1>7, <1>11, <1>15, <1>17 DEF IInv

\* The last step of a successful update; nothing older can come back.
LEMMA ForgetStep == ASSUME IInv, NEW u \in Updaters, Forget(u) PROVE IInv'
<1> DEFINE F(d) == SetJournal(d, NoJournal)
<1> USE NamesAssumption, BoundsAssumption, Numbers
<1>1. /\ dir' \in disks' /\ dir' \in {dir, F(dir)}
      /\ \A d \in disks' \ disks : \E e \in disks : d = F(e) /\ (ordered => e = dir)
  BY DEF Forget, Apply, Change, Durably, IInv, Disks
<1>2. /\ pc[u] = "forget" /\ lock = u /\ UNCHANGED <<state, mine, proven, ordered, edits, after>>
      /\ faults' \in 0..MaxFaults
      /\ \A v \in Updaters \ {u} : pc'[v] = pc[v] /\ after'[v] = after[v] /\ result'[v] = result[v]
      /\ pc' \in [Updaters -> Unlocked \cup Locked] /\ pc'[u] = "done" /\ lock' = Free
      /\ result' \in [Updaters -> {"none", "current", "failed", "retained", "updated"}]
  BY DEF Forget, Charge, Outcomes, Stay, Finish, IInv, TypeOK, Locked, Unlocked
<1>3. result'[u] # "updated" \/ (dir' = F(dir) /\ disks' = {F(dir)})
  BY DEF Forget, Apply, Durably, Outcomes, Finish, IInv, TypeOK
<1>4. /\ \A e \in disks : e \in Directories
      /\ dir \in Directories /\ dir \in disks /\ after[u] = "current"
      /\ dir.journal = state[u] /\ state[u] = Attempt(u) /\ dir.backup[u] = Missing
      /\ edits = 0 => dir.exe = Target[u] /\ u \in proven
  BY <1>2 DEF IInv, TypeOK, Disks, Holder, Route, Journaled, Seen, Attempting
<1>5. \A e \in Directories : F(e) \in Directories
  BY JournalSet
<1>6. \A e \in Directories : F(e).exe = e.exe /\ F(e).journal = NoJournal /\ F(e).backup = e.backup
  BY JournalSet
<1> HIDE DEF F
<1>7. TypeOK'
  BY <1>1, <1>2, <1>4, <1>5 DEF IInv, TypeOK, Locked
<1>8. Route(u)'
  BY <1>2, <1>4 DEF IInv, Holder, Route, Settling, Attempting
<1>9. Journaled(u)' /\ Seen(u)'
  BY <1>2, <1>4 DEF Journaled, Seen, Settling, Attempting
<1>10. Holder'
  BY <1>2, <1>7, <1>8, <1>9, Others DEF IInv, TypeOK
<1>11. \A e \in disks :
         /\ F(e).journal # NoJournal => F(e).journal.to = Target[F(e).journal.by]
         /\ edits = 0 => F(e).exe # Missing
  BY <1>4, <1>6 DEF IInv, Disks
<1>12. ordered => Owned(F(dir)) /\ (edits = 0 => Settled(F(dir)))
  BY <1>4, <1>6, VersionsAssumption DEF IInv, Disks, Owned, Settled, Attempt
<1>13. Disks'
  BY <1>1, <1>2, <1>11, <1>12, HolderDisks
<1>14. \A e \in disks : \A w \in Updaters : Above(e, w) => Above(F(e), w)
  BY <1>4, <1>6 DEF Above
<1>15. CASE result'[u] # "updated"
  <2>1. \A w \in Updaters : result'[w] = "updated" => result[w] = "updated"
    BY <1>2, <1>15
  <2>2. Kept'
    BY <1>1, <1>2, <1>14, <2>1, HolderKept
  <2> QED BY <1>7, <1>10, <1>13, <2>2 DEF IInv
<1>16. CASE dir' = F(dir) /\ disks' = {F(dir)}
  <2>1. edits = 0 => Above(F(dir), u)
    BY <1>4, <1>6, VersionsAssumption DEF Above
  <2>2. ASSUME edits = 0, NEW w \in Updaters \ {u}, result'[w] = "updated" PROVE Above(F(dir), w)
    BY <1>2, <1>4, <1>14, <2>2 DEF IInv, Kept
  <2>3. edits' = 0 => \A w \in Updaters : result'[w] = "updated" => \A d \in disks' : Above(d, w)
    BY <1>2, <1>16, <2>1, <2>2
  <2>4. \A d : \A w \in Updaters : Above(d, w)' <=> Above(d, w)
    BY DEF Above
  <2>5. Kept'
    BY <2>3, <2>4 DEF Kept
  <2> QED BY <1>7, <1>10, <1>13, <2>5 DEF IInv
<1> QED BY <1>3, <1>15, <1>16

-----------------------------------------------------------------------------
(* Steps of nobody's.                                                      *)

\* Every directory that a power loss may leave keeps what the invariant asks
\* of one, and nobody holds the lock.
LEMMA PowerLossStep == ASSUME IInv, PowerLoss PROVE IInv'
<1> USE NamesAssumption, BoundsAssumption, Numbers DEF PowerLoss, Running, Charge
<1>1. /\ disks' = {dir'} /\ dir' \in disks /\ lock' = Free
      /\ UNCHANGED <<mine, state, after, result, proven, ordered, edits>>
      /\ \A v \in Updaters : pc'[v] \in {"start", "done", "dead"} /\ (pc[v] = "start" <=> pc'[v] = "start")
                             /\ (pc[v] = "done" <=> pc'[v] = "done")
      /\ pc' \in [Updaters -> Unlocked \cup Locked]
  BY DEF IInv, TypeOK, Unlocked
<1>2. TypeOK'
  BY <1>1 DEF IInv, TypeOK, Locked
<1>3. \A v \in Updaters : Route(v)' /\ Journaled(v)' /\ Seen(v)'
  <2> TAKE v \in Updaters
  <2>1. Route(v)'
    BY <1>1 DEF IInv, Holder, Route, Settling, Attempting
  <2>2. Journaled(v)' /\ Seen(v)'
    BY <1>1 DEF IInv, Holder, Route, Journaled, Seen, Attempt, Settling, Attempting
  <2> QED BY <2>1, <2>2
<1>4. Holder'
  BY <1>3 DEF Holder
<1>5. Disks'
  BY <1>1, NewDisks DEF IInv, Disks
<1>6. Kept'
  BY <1>1, StillKept
<1> QED BY <1>2, <1>4, <1>5, <1>6 DEF IInv

\* After an edit by others nothing is promised of the executable.
LEMMA EditStep == ASSUME IInv, Edit PROVE IInv'
<1> USE NamesAssumption, BoundsAssumption, Numbers
<1>1. PICK v \in {Other, Missing} : Change(LAMBDA d : SetExe(d, v))
  BY DEF Edit
<1>2. v \in Versions \cup {Missing}
  BY DEF Versions
<1>3. /\ edits' > 0 /\ edits' \in 0..MaxEdits /\ dir' \in disks' /\ dir' = SetExe(dir, v)
      /\ \A d \in disks' \ disks : \E e \in disks : d = SetExe(e, v) /\ (ordered => e = dir)
      /\ UNCHANGED <<lock, pc, mine, state, after, result, proven, ordered, faults>>
  BY <1>1 DEF Edit, Change, IInv, TypeOK, Disks
<1>4. \A e \in disks :
        /\ e \in Directories /\ SetExe(e, v) \in Directories
        /\ SetExe(e, v).journal = e.journal /\ SetExe(e, v).backup = e.backup
  BY <1>2, ExeSet DEF IInv, TypeOK
<1>5. dir'.journal = dir.journal /\ dir'.backup = dir.backup /\ dir' \in Directories
  BY <1>3, <1>4 DEF IInv, Disks
<1>6. TypeOK'
  <2>1. disks' \subseteq Directories
    BY <1>3, <1>4
  <2> QED BY <1>3, <1>5, <2>1 DEF IInv, TypeOK
<1>7. Holder'
  BY <1>3, <1>5 DEF IInv, TypeOK, Holder, Route, Journaled, Attempt
<1>8. \A d \in disks' : \E e \in disks : d.journal = e.journal /\ (ordered => d.backup = e.backup)
  BY <1>3, <1>4 DEF IInv, Disks
<1>9. Disks'
  <2>1. \A d \in disks' : d.journal # NoJournal => d.journal.to = Target[d.journal.by]
    BY <1>8 DEF IInv, Disks
  <2>2. ordered => \A d \in disks' : Owned(d)'
    BY <1>8 DEF IInv, Disks, Owned
  <2> QED BY <1>3, <2>1, <2>2 DEF Disks
<1>10. Kept'
  BY <1>3 DEF Kept
<1> QED BY <1>6, <1>7, <1>9, <1>10 DEF IInv

-----------------------------------------------------------------------------
(* The invariant, and what it says of the runs' properties.                *)

LEMMA Initially == Init => IInv
<1> SUFFICES ASSUME Init PROVE IInv
  OBVIOUS
<1> USE NamesAssumption, BoundsAssumption, VersionsAssumption, Numbers DEF Init
<1>1. TypeOK
  BY DEF TypeOK, Directories, Versions, Unlocked, Locked
<1>2. Holder
  BY DEF Holder, Route, Journaled, Seen, Settling, Attempting
<1>3. Disks
  BY DEF Disks, Owned, Settled, Versions
<1>4. Kept
  BY DEF Kept
<1> QED BY <1>1, <1>2, <1>3, <1>4 DEF IInv

LEMMA Inductive == IInv /\ [Next]_vars => IInv'
<1> SUFFICES ASSUME IInv, [Next]_vars PROVE IInv'
  OBVIOUS
<1>1. ASSUME NEW u \in Updaters,
             \/ Start(u) \/ AcquireLock(u) \/ Reconcile(u) \/ Restore(u)
             \/ DropBackup(u) \/ DropJournal(u) \/ Sync(u) \/ Stage(u) \/ VerifyCurrent(u)
             \/ Prepare(u) \/ BeginCopy(u) \/ Backup(u) \/ RecordBackedUp(u) \/ Install(u)
             \/ RecordInstalled(u) \/ VerifyInPlace(u) \/ RecordVerified(u)
             \/ Complete(u) \/ Forget(u) \/ Kill(u)
      PROVE  IInv'
  BY <1>1, StartStep, AcquireLockStep, ReconcileStep, RestoreStep, DropBackupStep, DropJournalStep,
     SyncStep, StageStep, VerifyCurrentStep, PrepareStep, BeginCopyStep, BackupStep,
     RecordBackedUpStep, InstallStep, RecordInstalledStep, VerifyInPlaceStep, RecordVerifiedStep,
     CompleteStep, ForgetStep, KillStep
<1>2. CASE PowerLoss
  BY <1>2, PowerLossStep
<1>3. CASE Edit
  BY <1>3, EditStep
<1>4. CASE UNCHANGED vars
  BY <1>4 DEF vars, IInv, TypeOK, Holder, Route, Journaled, Seen, Attempt, Disks, Owned, Settled,
              Vetted, Kept, Above
<1> QED BY <1>1, <1>2, <1>3, <1>4 DEF Next

LEMMA Invariance == Spec => []IInv
BY Initially, Inductive, PTL DEF Spec

\* Whatever a kill, a failed call or a power loss leaves, the next update finds
\* it and can settle it: a target that was never probed in place comes with its
\* journal and a complete backup, no backup outlives its journal, and the
\* executable is one of the journal's two versions (reconcileUnixUpdate).
THEOREM Settles == Spec => []Settleable
<1>1. IInv => Covered
  BY DEF IInv, Disks, Settled, Covered
<1>2. IInv => NoOrphans
  BY DEF IInv, Disks, Owned, NoOrphans
<1>3. IInv => Reconcilable
  BY DEF IInv, Disks, Settled, Reconcilable
<1>4. IInv => Settleable
  BY <1>1, <1>2, <1>3 DEF IInv, Settleable
<1> QED BY Invariance, <1>4, PTL

\* A reported update stays: neither a later attempt's restore, nor a command
\* that started before it, nor a power loss goes back below its version.
THEOREM NeverBack == Spec => []NoDowngrade
<1>1. IInv => NoDowngrade
  BY DEF IInv, Kept, Above, NoDowngrade
<1> QED BY Invariance, <1>1, PTL

\* Only the last step of an attempt reports a success, and it is durable then.
LEMMA SuccessHolds ==
  ASSUME IInv, [Next]_vars, NEW u \in Updaters, result'[u] = "updated", result[u] = "none", edits = 0
  PROVE  \A d \in disks' : d.exe = Target[u] /\ d.journal = NoJournal /\ d.backup[u] = Missing
<1>1. Forget(u)
  <2>1. ASSUME NEW v \in Updaters,
               \/ Start(v) \/ AcquireLock(v) \/ Reconcile(v) \/ Restore(v)
               \/ DropBackup(v) \/ DropJournal(v) \/ Sync(v) \/ Stage(v) \/ VerifyCurrent(v)
        PROVE  result'[u] # "updated"
    BY <2>1 DEF IInv, TypeOK, Start, AcquireLock, Reconcile, Reconciled, Restore, DropBackup,
         RemoveBackup, RemovalFails, DropJournal, RemoveJournal, Sync, Stage, VerifyCurrent, Broken,
         Goto, Finish
  <2>2. ASSUME NEW v \in Updaters,
               \/ Prepare(v) \/ BeginCopy(v) \/ Backup(v) \/ RecordBackedUp(v) \/ Install(v)
               \/ RecordInstalled(v) \/ VerifyInPlace(v) \/ RecordVerified(v)
               \/ Complete(v) \/ Kill(v)
        PROVE  result'[u] # "updated"
    BY <2>2 DEF IInv, TypeOK, Prepare, BeginCopy, Backup, RecordBackedUp, Install, RecordInstalled,
         VerifyInPlace, RecordVerified, Record, Complete, Kill, Continue, Fail, Goto, Finish
  <2>3. PowerLoss \/ Edit \/ UNCHANGED vars => result'[u] # "updated"
    BY DEF PowerLoss, Edit, vars
  <2>4. ASSUME NEW v \in Updaters \ {u}, Forget(v) PROVE result'[u] # "updated"
    BY <2>4 DEF IInv, TypeOK, Forget, Finish
  <2> QED BY <2>1, <2>2, <2>3, <2>4 DEF Next
<1> DEFINE F(d) == SetJournal(d, NoJournal)
<1>2. pc[u] = "forget" /\ disks' = {F(dir)}
  BY <1>1 DEF Forget, Finish, Apply, Durably, IInv, TypeOK
<1>3. dir \in Directories /\ dir.exe = Target[u] /\ dir.backup[u] = Missing
  BY <1>2 DEF IInv, TypeOK, Holder, Journaled, Seen
<1>4. F(dir).exe = dir.exe /\ F(dir).journal = NoJournal /\ F(dir).backup = dir.backup
  BY <1>3, JournalSet
<1> QED BY <1>2, <1>3, <1>4

\* Only the last sync of a cleanup reports a failure that leaves no evidence.
LEMMA FailureHolds ==
  ASSUME IInv, [Next]_vars, NEW u \in Updaters, pc[u] \in Locked, after[u] = "abandon",
         result'[u] = "failed", edits = 0
  PROVE  \A d \in disks' : d.exe = mine[u] /\ d.journal = NoJournal
<1>1. /\ pc[u] \in Settling \cup {"sync"} /\ result[u] = "none"
  BY DEF IInv, TypeOK, Holder, Route, Locked, Settling
<1>2. Sync(u) /\ disks' = {dir}
  <2>1. ASSUME NEW v \in Updaters \ {u},
               \/ Start(v) \/ AcquireLock(v) \/ Reconcile(v) \/ Restore(v)
               \/ DropBackup(v) \/ DropJournal(v) \/ Sync(v) \/ Stage(v) \/ VerifyCurrent(v)
        PROVE  result'[u] = "none"
    BY <1>1, <2>1 DEF IInv, TypeOK, Start, AcquireLock, Reconcile, Reconciled, Restore, DropBackup,
         RemoveBackup, RemovalFails, DropJournal, RemoveJournal, Sync, Stage, VerifyCurrent,
         Goto, Finish
  <2>2. ASSUME NEW v \in Updaters \ {u},
               \/ Prepare(v) \/ BeginCopy(v) \/ Backup(v) \/ RecordBackedUp(v) \/ Install(v)
               \/ RecordInstalled(v) \/ VerifyInPlace(v) \/ RecordVerified(v)
               \/ Complete(v) \/ Forget(v) \/ Kill(v)
        PROVE  result'[u] = "none"
    BY <1>1, <2>2 DEF IInv, TypeOK, Prepare, BeginCopy, Backup, RecordBackedUp, Install, RecordInstalled,
         VerifyInPlace, RecordVerified, Record, Complete, Forget, Kill, Continue, Fail, Goto, Finish
  <2>3. PowerLoss \/ Edit \/ UNCHANGED vars => result'[u] = "none"
    BY <1>1 DEF PowerLoss, Edit, vars
  <2>4. ASSUME Restore(u) \/ DropBackup(u) \/ DropJournal(u) PROVE result'[u] # "failed"
    BY <1>1, <2>4 DEF IInv, TypeOK, Restore, DropBackup, DropJournal, RemoveBackup, RemoveJournal,
         RemovalFails, Broken, Goto, Finish
  <2>5. ASSUME \/ Start(u) \/ AcquireLock(u) \/ Reconcile(u) \/ Stage(u) \/ VerifyCurrent(u)
               \/ Prepare(u) \/ BeginCopy(u) \/ Backup(u) \/ RecordBackedUp(u) \/ Install(u)
               \/ RecordInstalled(u) \/ VerifyInPlace(u) \/ RecordVerified(u)
               \/ Complete(u) \/ Forget(u) \/ Kill(u)
        PROVE  result'[u] # "failed"
    BY <1>1, <2>5 DEF Settling, Start, AcquireLock, Reconcile, Stage, VerifyCurrent, Prepare, BeginCopy,
         Backup, RecordBackedUp, Install, RecordInstalled, VerifyInPlace, RecordVerified, Complete,
         Forget, Kill
  <2>6. Sync(u)
    BY <2>1, <2>2, <2>3, <2>4, <2>5 DEF Next
  <2>7. disks' = {dir}
    BY <1>1, <2>6 DEF IInv, TypeOK, Sync, Durably, RemovalFails, Broken, Finish
  <2> QED BY <2>6, <2>7
<1>3. dir.exe = mine[u] /\ dir.journal = NoJournal
  BY <1>2 DEF IInv, Holder, Journaled, Seen, Sync
<1> QED BY <1>2, <1>3

\* A report is true and stays true: a success is durable with nothing left to
\* settle, and a failed installation that kept no evidence ends with the version
\* it found (fail, cleanup in replace_unix.go).
THEOREM Reports == Spec => ReportsHold
<1>1. IInv /\ [Next]_vars =>
        [\A u \in Updaters :
           result'[u] = "updated" /\ result[u] = "none" /\ edits = 0 =>
             \A d \in disks' : d.exe = Target[u] /\ d.journal = NoJournal /\ d.backup[u] = Missing]_vars
  BY SuccessHolds
<1>2. IInv /\ [Next]_vars =>
        [\A u \in Updaters :
           pc[u] \in Locked /\ after[u] = "abandon" /\ result'[u] = "failed" /\ edits = 0 =>
             \A d \in disks' : d.exe = mine[u] /\ d.journal = NoJournal]_vars
  BY FailureHolds
<1>3. Spec => SuccessDurable
  BY Invariance, <1>1, PTL DEF Spec, SuccessDurable
<1>4. Spec => FailureRestores
  BY Invariance, <1>2, PTL DEF Spec, FailureRestores
<1> QED BY <1>3, <1>4 DEF ReportsHold
=============================================================================
