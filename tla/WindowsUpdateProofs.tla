------------------------ MODULE WindowsUpdateProofs -------------------------
(***************************************************************************)
(* What WindowsUpdate guarantees for any number of update commands, any    *)
(* versions, faults and edits, and any ageing of locks and records.  The   *)
(* lock directory excludes nobody for long; the argument is about the      *)
(* token in it.  A command compares the executable after it has put its    *)
(* token there, no token comes back once it is gone, and only the helper   *)
(* whose token is there can open the owner file, after which nobody else   *)
(* changes the lock or the executable.                                     *)
(***************************************************************************)
EXTENDS WindowsUpdate, TLAPS

\* A helper waits for its command and works after it; a record is removed
\* on behalf of the check only.
Handover ==
  \A u \in Updaters :
    /\ step[u] = "wait" => pc[u] \in {"confirm", "done", "dead"}
    /\ step[u] \in Applying => pc[u] \in {"done", "dead"}
    /\ pc[u] \in {"clear", "unrecord"} => after[u] \in {"download", "report"}

\* Behind its own token a command that has compared the executable, and the
\* helper it starts, find it as it was; the backup holds that version.
Seen(u) ==
  /\ lock # NoLock /\ lock.owner = u
       /\ (step[u] = "wait" \/ pc[u] \in {"record", "launch", "confirm"}) => exe = mine[u]
  /\ step[u] \in {"backup", "install"} => exe = mine[u]
  /\ step[u] \in {"install", "verify", "restore"} => backup[u] = mine[u]

\* What a command installs is newer than what it runs.
Newer(u) ==
  \/ pc[u] \in {"mkdir", "own", "stat", "read", "quarantine", "current", "record", "launch", "confirm"}
  \/ pc[u] \in {"match", "unlink", "rmdir"} /\ after[u] = "reclaim"
  \/ step[u] \in Waiting \cup Applying
  => Target[u] > mine[u]

\* A verified update stays, also through a replacement that may be rolled back.
Kept(w) ==
  /\ exe >= Target[w]
  /\ \A u \in Updaters : step[u] \in {"verify", "restore"} => mine[u] >= Target[w]

Undisturbed ==
  edits = 0 => /\ \A u \in Updaters : Seen(u) /\ Newer(u)
               /\ \A w \in verified : Kept(w)

IInv == TypeOK /\ Handover /\ Undisturbed

\* What the steps write has the type it should have.
LEMMA Written ==
  /\ [owner |-> Nobody, old |-> FALSE] \in Locks /\ [owner |-> Torn, old |-> FALSE] \in Locks
  /\ \A u \in Updaters :
       /\ [owner |-> u, old |-> FALSE] \in Locks
       /\ Pending(u, TRUE) \in Statuses /\ Pending(u, FALSE) \in Statuses
       /\ Ended(u, "failed") \in Statuses /\ Ended(u, "succeeded") \in Statuses
BY DEF Locks, Statuses, Pending, Ended

LEMMA StartStep == ASSUME IInv, NEW u \in Updaters, Start(u) PROVE IInv'
<1> USE VersionsAssumption, NamesAssumption, BoundsAssumption DEF Start, Goto, Waiting,
    Applying
<1>1. TypeOK'
  BY DEF IInv, TypeOK, Locks, Statuses, Versions
<1>2. Handover'
  BY DEF IInv, TypeOK, Handover
<1>3. Undisturbed'
  BY DEF IInv, TypeOK, Handover, Undisturbed, Seen, Newer, Kept, Versions
<1> QED BY <1>1, <1>2, <1>3 DEF IInv

LEMMA CheckStep == ASSUME IInv, NEW u \in Updaters, Check(u) PROVE IInv'
<1> USE VersionsAssumption, NamesAssumption, BoundsAssumption DEF Check, StillPending,
    Fails, Works, Goto, Finish, Remove, Alone, Waiting, Applying
<1>1. TypeOK'
  BY DEF IInv, TypeOK, Locks, Statuses, Versions
<1>2. Handover'
  BY DEF IInv, TypeOK, Handover
<1>3. Undisturbed'
  BY DEF IInv, TypeOK, Handover, Undisturbed, Seen, Newer, Kept, Versions
<1> QED BY <1>1, <1>2, <1>3 DEF IInv

LEMMA ClearStep == ASSUME IInv, NEW u \in Updaters, Clear(u) PROVE IInv'
<1> USE VersionsAssumption, NamesAssumption, BoundsAssumption DEF Clear, Goto, Finish,
    Removed, Removing, Waiting, Applying
<1>1. TypeOK'
  BY DEF IInv, TypeOK, Locks, Statuses, Versions
<1>2. Handover'
  BY DEF IInv, TypeOK, Handover
<1>3. Undisturbed'
  BY DEF IInv, TypeOK, Handover, Undisturbed, Seen, Newer, Kept, Versions
<1> QED BY <1>1, <1>2, <1>3 DEF IInv

LEMMA UnrecordStep == ASSUME IInv, NEW u \in Updaters, Unrecord(u) PROVE IInv'
<1> USE VersionsAssumption, NamesAssumption, BoundsAssumption DEF Unrecord, Fails, Works,
    Goto, Finish, Removed, Removing, Waiting, Applying
<1>1. TypeOK'
  BY DEF IInv, TypeOK, Locks, Statuses, Versions
<1>2. Handover'
  BY DEF IInv, TypeOK, Handover
<1>3. Undisturbed'
  <2> SUFFICES ASSUME edits = 0
               PROVE  /\ \A v \in Updaters : Seen(v)' /\ Newer(v)'
                      /\ \A w \in verified : Kept(w)'
    BY DEF Undisturbed
  <2>1. \A v \in Updaters : Seen(v)'
    BY DEF IInv, TypeOK, Undisturbed, Seen
  <2>2. \A v \in Updaters : Newer(v)'
    BY DEF IInv, TypeOK, Handover, Undisturbed, Newer
  <2>3. \A w \in verified : Kept(w)'
    BY DEF IInv, TypeOK, Undisturbed, Kept
  <2> QED BY <2>1, <2>2, <2>3
<1> QED BY <1>1, <1>2, <1>3 DEF IInv

LEMMA MatchStep == ASSUME IInv, NEW u \in Updaters, Match(u) PROVE IInv'
<1> USE VersionsAssumption, NamesAssumption, BoundsAssumption DEF Match, OwnerReadable,
    Goto, Finish, Removed, Removing, Waiting, Applying
<1>1. TypeOK'
  BY DEF IInv, TypeOK, Locks, Statuses, Versions
<1>2. Handover'
  BY DEF IInv, TypeOK, Handover
<1>3. Undisturbed'
  BY DEF IInv, TypeOK, Handover, Undisturbed, Seen, Newer, Kept, Versions
<1> QED BY <1>1, <1>2, <1>3 DEF IInv

LEMMA UnlinkStep == ASSUME IInv, NEW u \in Updaters, Unlink(u) PROVE IInv'
<1>1. lock' \in Locks \cup {NoLock}
  BY Written DEF IInv, TypeOK, Unlink, OwnerRemovable, Removing, Removed
<1>2. status' \in Statuses \cup {NoStatus}
  BY Written DEF IInv, TypeOK, Unlink, OwnerRemovable, Removing, Removed
<1>3. guard' # Free => lock' # NoLock /\ lock'.owner = guard'
  BY NamesAssumption DEF IInv, TypeOK, Unlink, OwnerRemovable, Fails, Works, Goto, Finish,
      Removed, Removing, Waiting, Applying
<1>4. TypeOK'
  BY <1>1, <1>2, <1>3, NamesAssumption, BoundsAssumption DEF IInv, TypeOK, Versions,
      Unlink, OwnerRemovable, Fails, Works, Goto, Finish, Removed, Removing, Waiting,
      Applying
<1>5. Handover'
  BY DEF IInv, TypeOK, Handover, Unlink, OwnerRemovable, Fails, Works, Goto, Finish,
      Removed, Removing, Waiting, Applying
<1>6. Undisturbed'
  BY VersionsAssumption, NamesAssumption, BoundsAssumption DEF IInv, TypeOK, Handover,
      Undisturbed, Seen, Newer, Kept, Versions, Unlink, OwnerRemovable, Fails, Works, Goto,
      Finish, Removed, Removing, Waiting, Applying
<1> QED BY <1>4, <1>5, <1>6 DEF IInv

LEMMA RmdirStep == ASSUME IInv, NEW u \in Updaters, Rmdir(u) PROVE IInv'
<1> USE VersionsAssumption, NamesAssumption, BoundsAssumption DEF Rmdir, Empty, Fails,
    Works, Goto, Finish, Removed, Removing, Waiting, Applying
<1>1. TypeOK'
  BY DEF IInv, TypeOK, Locks, Statuses, Versions
<1>2. Handover'
  BY DEF IInv, TypeOK, Handover
<1>3. Undisturbed'
  BY DEF IInv, TypeOK, Handover, Undisturbed, Seen, Newer, Kept, Versions
<1> QED BY <1>1, <1>2, <1>3 DEF IInv

LEMMA DownloadStep == ASSUME IInv, NEW u \in Updaters, Download(u) PROVE IInv'
<1> USE VersionsAssumption, NamesAssumption, BoundsAssumption DEF Download, Fails, Works,
    Goto, Finish, Alone, Waiting, Applying
<1>1. TypeOK'
  BY DEF IInv, TypeOK, Locks, Statuses, Versions
<1>2. Handover'
  BY DEF IInv, TypeOK, Handover
<1>3. Undisturbed'
  BY DEF IInv, TypeOK, Handover, Undisturbed, Seen, Newer, Kept, Versions
<1> QED BY <1>1, <1>2, <1>3 DEF IInv

LEMMA MkdirStep == ASSUME IInv, NEW u \in Updaters, Mkdir(u) PROVE IInv'
<1>1. lock' \in Locks \cup {NoLock}
  BY Written DEF IInv, TypeOK, Mkdir, Alone
<1>2. status' \in Statuses \cup {NoStatus}
  BY Written DEF IInv, TypeOK, Mkdir, Alone
<1>3. guard' # Free => lock' # NoLock /\ lock'.owner = guard'
  BY NamesAssumption DEF IInv, TypeOK, Mkdir, Fails, Works, Goto, Finish, Alone, Waiting,
      Applying
<1>4. TypeOK'
  BY <1>1, <1>2, <1>3, NamesAssumption, BoundsAssumption DEF IInv, TypeOK, Versions, Mkdir,
      Fails, Works, Goto, Finish, Alone, Waiting, Applying
<1>5. Handover'
  BY DEF IInv, TypeOK, Handover, Mkdir, Fails, Works, Goto, Finish, Alone, Waiting, Applying
<1>6. Undisturbed'
  BY VersionsAssumption, NamesAssumption, BoundsAssumption DEF IInv, TypeOK, Handover,
      Undisturbed, Seen, Newer, Kept, Versions, Mkdir, Fails, Works, Goto, Finish, Alone,
      Waiting, Applying
<1> QED BY <1>4, <1>5, <1>6 DEF IInv

LEMMA OwnStep == ASSUME IInv, NEW u \in Updaters, Own(u) PROVE IInv'
<1>1. lock' \in Locks \cup {NoLock}
  <2>1. lock' = [owner |-> u, old |-> FALSE] \/ lock' = lock \/ lock' = NoLock
    BY DEF Own, Alone
  <2> QED BY <2>1, Written DEF IInv, TypeOK
<1>2. status' \in Statuses \cup {NoStatus}
  BY Written DEF IInv, TypeOK, Own, Alone, Empty
<1>3. guard' # Free => lock' # NoLock /\ lock'.owner = guard'
  BY NamesAssumption DEF IInv, TypeOK, Own, Empty, Fails, Works, Goto, Finish, Alone,
      Waiting, Applying
<1>4. TypeOK'
  BY <1>1, <1>2, <1>3, NamesAssumption, BoundsAssumption DEF IInv, TypeOK, Versions, Own,
      Empty, Fails, Works, Goto, Finish, Alone, Waiting, Applying
<1>5. Handover'
  BY DEF IInv, TypeOK, Handover, Own, Empty, Fails, Works, Goto, Finish, Alone, Waiting,
      Applying
<1>6. Undisturbed'
  BY VersionsAssumption, NamesAssumption, BoundsAssumption DEF IInv, TypeOK, Handover,
      Undisturbed, Seen, Newer, Kept, Versions, Own, Empty, Fails, Works, Goto, Finish,
      Alone, Waiting, Applying
<1> QED BY <1>4, <1>5, <1>6 DEF IInv

LEMMA StatStep == ASSUME IInv, NEW u \in Updaters, Stat(u) PROVE IInv'
<1> USE VersionsAssumption, NamesAssumption, BoundsAssumption DEF Stat, Goto, Finish,
    Alone, Waiting, Applying
<1>1. TypeOK'
  BY DEF IInv, TypeOK, Locks, Statuses, Versions
<1>2. Handover'
  BY DEF IInv, TypeOK, Handover
<1>3. Undisturbed'
  BY DEF IInv, TypeOK, Handover, Undisturbed, Seen, Newer, Kept, Versions
<1> QED BY <1>1, <1>2, <1>3 DEF IInv

LEMMA ReadOwnerStep == ASSUME IInv, NEW u \in Updaters, ReadOwner(u) PROVE IInv'
<1> USE VersionsAssumption, NamesAssumption, BoundsAssumption DEF ReadOwner, OwnerReadable,
    Goto, Remove, Alone, Waiting, Applying
<1>1. TypeOK'
  BY DEF IInv, TypeOK, Locks, Statuses, Versions
<1>2. Handover'
  BY DEF IInv, TypeOK, Handover
<1>3. Undisturbed'
  BY DEF IInv, TypeOK, Handover, Undisturbed, Seen, Newer, Kept, Versions
<1> QED BY <1>1, <1>2, <1>3 DEF IInv

LEMMA QuarantineStep == ASSUME IInv, NEW u \in Updaters, Quarantine(u) PROVE IInv'
<1> USE VersionsAssumption, NamesAssumption, BoundsAssumption DEF Quarantine, Fails, Works,
    Goto, Finish, Alone, Waiting, Applying
<1>1. TypeOK'
  BY DEF IInv, TypeOK, Locks, Statuses, Versions
<1>2. Handover'
  BY DEF IInv, TypeOK, Handover
<1>3. Undisturbed'
  BY DEF IInv, TypeOK, Handover, Undisturbed, Seen, Newer, Kept, Versions
<1> QED BY <1>1, <1>2, <1>3 DEF IInv

LEMMA VerifyCurrentStep == ASSUME IInv, NEW u \in Updaters, VerifyCurrent(u) PROVE IInv'
<1> USE VersionsAssumption, NamesAssumption, BoundsAssumption DEF VerifyCurrent, StillMine,
    Fails, Works, Goto, Remove, Abandon, Alone, Waiting, Applying
<1>1. TypeOK'
  BY DEF IInv, TypeOK, Locks, Statuses, Versions
<1>2. Handover'
  BY DEF IInv, TypeOK, Handover
<1>3. Undisturbed'
  BY DEF IInv, TypeOK, Handover, Undisturbed, Seen, Newer, Kept, Versions
<1> QED BY <1>1, <1>2, <1>3 DEF IInv

LEMMA RecordStep == ASSUME IInv, NEW u \in Updaters, Record(u) PROVE IInv'
<1>1. lock' \in Locks \cup {NoLock}
  BY Written DEF IInv, TypeOK, Record, Alone
<1>2. status' \in Statuses \cup {NoStatus}
  BY Written DEF IInv, TypeOK, Record, Alone
<1>3. guard' # Free => lock' # NoLock /\ lock'.owner = guard'
  BY NamesAssumption DEF IInv, TypeOK, Record, Fails, Works, Goto, Remove, Abandon, Alone,
      Waiting, Applying, Pending
<1>4. TypeOK'
  BY <1>1, <1>2, <1>3, NamesAssumption, BoundsAssumption DEF IInv, TypeOK, Versions,
      Record, Fails, Works, Goto, Remove, Abandon, Alone, Waiting, Applying, Pending
<1>5. Handover'
  BY DEF IInv, TypeOK, Handover, Record, Fails, Works, Goto, Remove, Abandon, Alone,
      Waiting, Applying, Pending
<1>6. Undisturbed'
  BY VersionsAssumption, NamesAssumption, BoundsAssumption DEF IInv, TypeOK, Handover,
      Undisturbed, Seen, Newer, Kept, Versions, Record, Fails, Works, Goto, Remove,
      Abandon, Alone, Waiting, Applying, Pending
<1> QED BY <1>4, <1>5, <1>6 DEF IInv

LEMMA LaunchStep == ASSUME IInv, NEW u \in Updaters, Launch(u) PROVE IInv'
<1>1. lock' \in Locks \cup {NoLock}
  BY Written DEF IInv, TypeOK, Launch, RecordFailure
<1>2. status' \in Statuses \cup {NoStatus}
  BY Written DEF IInv, TypeOK, Launch, RecordFailure
<1>3. guard' # Free => lock' # NoLock /\ lock'.owner = guard'
  BY NamesAssumption DEF IInv, TypeOK, Launch, RecordFailure, Fails, Works, Goto, Remove,
      Abandon, Waiting, Applying, Ended
<1>4. TypeOK'
  <2>1. /\ step' \in [Updaters -> {"none", "ended"} \cup Waiting \cup Applying]
        /\ \A v \in Updaters : step'[v] \in Applying <=> guard' = v
    BY DEF IInv, TypeOK, Handover, Launch, Fails, Works, Waiting, Applying
  <2>2. faults' \in 0..MaxFaults
    BY BoundsAssumption DEF IInv, TypeOK, Launch, Fails, Works
  <2>3. UNCHANGED <<exe, guard, mine, backup, verified, told, edits>>
    BY DEF Launch
  <2>4. CASE Abandon(u)
    BY <2>4, <2>1, <2>2, <2>3, <1>1, <1>2, <1>3 DEF IInv, TypeOK, Abandon, Remove
  <2>5. CASE Goto(u, "confirm")
    BY <2>5, <2>1, <2>2, <2>3, <1>1, <1>2, <1>3 DEF IInv, TypeOK, Goto
  <2> QED BY <2>4, <2>5 DEF Launch
<1>5. Handover'
  BY DEF IInv, TypeOK, Handover, Launch, RecordFailure, Fails, Works, Goto, Remove,
      Abandon, Waiting, Applying, Ended
<1>6. Undisturbed'
  BY VersionsAssumption, NamesAssumption, BoundsAssumption DEF IInv, TypeOK, Handover,
      Undisturbed, Seen, Newer, Kept, Versions, Launch, RecordFailure, Fails, Works, Goto,
      Remove, Abandon, Waiting, Applying, Ended
<1> QED BY <1>4, <1>5, <1>6 DEF IInv

LEMMA ConfirmStep == ASSUME IInv, NEW u \in Updaters, Confirm(u) PROVE IInv'
<1>1. lock' \in Locks \cup {NoLock}
  BY Written DEF IInv, TypeOK, Confirm, RecordFailure
<1>2. status' \in Statuses \cup {NoStatus}
  <2>1. status' = status \/ status' = Pending(u, TRUE) \/ status' = Ended(u, "failed")
    BY DEF Confirm, RecordFailure
  <2> QED BY <2>1, Written DEF IInv, TypeOK
<1>3. guard' # Free => lock' # NoLock /\ lock'.owner = guard'
  BY NamesAssumption DEF IInv, TypeOK, Confirm, RecordFailure, Fails, Works, Finish,
      Remove, Abandon, Waiting, Applying, Pending, Ended
<1>4. TypeOK'
  <2>1. /\ step' \in [Updaters -> {"none", "ended"} \cup Waiting \cup Applying]
        /\ \A v \in Updaters : step'[v] \in Applying <=> guard' = v
    BY DEF IInv, TypeOK, Handover, Confirm, RecordFailure, Pending, Ended, Fails, Works,
        Waiting, Applying
  <2>2. faults' \in 0..MaxFaults
    BY BoundsAssumption DEF IInv, TypeOK, Confirm, RecordFailure, Pending, Ended, Fails,
        Works
  <2>3. UNCHANGED <<exe, guard, mine, backup, verified, told, edits>>
    BY DEF Confirm
  <2>4. CASE Abandon(u)
    BY <2>4, <2>1, <2>2, <2>3, <1>1, <1>2, <1>3 DEF IInv, TypeOK, Abandon, Remove
  <2>5. CASE Finish(u, "pending")
    BY <2>5, <2>1, <2>2, <2>3, <1>1, <1>2, <1>3 DEF IInv, TypeOK, Finish
  <2> QED BY <2>4, <2>5 DEF Confirm
<1>5. Handover'
  BY DEF IInv, TypeOK, Handover, Confirm, RecordFailure, Fails, Works, Finish, Remove,
      Abandon, Waiting, Applying, Pending, Ended
<1>6. Undisturbed'
  BY VersionsAssumption, NamesAssumption, BoundsAssumption DEF IInv, TypeOK, Handover,
      Undisturbed, Seen, Newer, Kept, Versions, Confirm, RecordFailure, Fails, Works,
      Finish, Remove, Abandon, Waiting, Applying, Pending, Ended
<1> QED BY <1>4, <1>5, <1>6 DEF IInv

LEMMA ClaimStep == ASSUME IInv, NEW u \in Updaters, Claim(u) PROVE IInv'
<1> USE VersionsAssumption, NamesAssumption, BoundsAssumption DEF Claim, Claimable, GiveUp,
    OwnerReadable, Fails, Works, Helper, At, command, Waiting, Applying
<1>1. TypeOK'
  BY DEF IInv, TypeOK, Locks, Statuses, Versions
<1>2. Handover'
  BY DEF IInv, TypeOK, Handover
<1>3. Undisturbed'
  BY DEF IInv, TypeOK, Handover, Undisturbed, Seen, Newer, Kept, Versions
<1> QED BY <1>1, <1>2, <1>3 DEF IInv

LEMMA BackUpStep == ASSUME IInv, NEW u \in Updaters, BackUp(u) PROVE IInv'
<1> USE VersionsAssumption, NamesAssumption, BoundsAssumption DEF BackUp, Fails, Works,
    Helper, At, command, Waiting, Applying
<1>1. TypeOK'
  BY DEF IInv, TypeOK, Locks, Statuses, Versions
<1>2. Handover'
  BY DEF IInv, TypeOK, Handover
<1>3. Undisturbed'
  BY DEF IInv, TypeOK, Handover, Undisturbed, Seen, Newer, Kept, Versions
<1> QED BY <1>1, <1>2, <1>3 DEF IInv

LEMMA InstallStep == ASSUME IInv, NEW u \in Updaters, Install(u) PROVE IInv'
<1> USE VersionsAssumption, NamesAssumption, BoundsAssumption DEF Install, Fails, Works,
    Helper, At, command, Waiting, Applying
<1>1. TypeOK'
  BY DEF IInv, TypeOK, Locks, Statuses, Versions
<1>2. Handover'
  BY DEF IInv, TypeOK, Handover
<1>3. Undisturbed'
  BY DEF IInv, TypeOK, Handover, Undisturbed, Seen, Newer, Kept, Versions
<1> QED BY <1>1, <1>2, <1>3 DEF IInv

LEMMA VerifyInPlaceStep == ASSUME IInv, NEW u \in Updaters, VerifyInPlace(u) PROVE IInv'
<1> USE VersionsAssumption, NamesAssumption, BoundsAssumption DEF VerifyInPlace, Fails,
    Works, Helper, At, command, Waiting, Applying
<1>1. TypeOK'
  BY DEF IInv, TypeOK, Locks, Statuses, Versions
<1>2. Handover'
  BY DEF IInv, TypeOK, Handover
<1>3. Undisturbed'
  BY DEF IInv, TypeOK, Handover, Undisturbed, Seen, Newer, Kept, Versions
<1> QED BY <1>1, <1>2, <1>3 DEF IInv

LEMMA RestoreStep == ASSUME IInv, NEW u \in Updaters, Restore(u) PROVE IInv'
<1> USE VersionsAssumption, NamesAssumption, BoundsAssumption DEF Restore, Fails, Works,
    Helper, At, command, Waiting, Applying
<1>1. TypeOK'
  BY DEF IInv, TypeOK, Locks, Statuses, Versions
<1>2. Handover'
  BY DEF IInv, TypeOK, Handover
<1>3. Undisturbed'
  BY DEF IInv, TypeOK, Handover, Undisturbed, Seen, Newer, Kept, Versions
<1> QED BY <1>1, <1>2, <1>3 DEF IInv

LEMMA DropBackupStep == ASSUME IInv, NEW u \in Updaters, DropBackup(u) PROVE IInv'
<1> USE VersionsAssumption, NamesAssumption, BoundsAssumption DEF DropBackup, Fails, Works,
    Helper, At, command, Waiting, Applying
<1>1. TypeOK'
  BY DEF IInv, TypeOK, Locks, Statuses, Versions
<1>2. Handover'
  BY DEF IInv, TypeOK, Handover
<1>3. Undisturbed'
  BY DEF IInv, TypeOK, Handover, Undisturbed, Seen, Newer, Kept, Versions
<1> QED BY <1>1, <1>2, <1>3 DEF IInv

LEMMA SucceedStep == ASSUME IInv, NEW u \in Updaters, Succeed(u) PROVE IInv'
<1>1. lock' \in Locks \cup {NoLock}
  BY Written DEF IInv, TypeOK, Succeed, Helper
<1>2. status' \in Statuses \cup {NoStatus}
  BY Written DEF IInv, TypeOK, Succeed, Helper
<1>3. guard' # Free => lock' # NoLock /\ lock'.owner = guard'
  BY NamesAssumption DEF IInv, TypeOK, Succeed, Fails, Works, Helper, At, command, Waiting,
      Applying, Ended
<1>4. TypeOK'
  BY <1>1, <1>2, <1>3, NamesAssumption, BoundsAssumption DEF IInv, TypeOK, Versions,
      Succeed, Fails, Works, Helper, At, command, Waiting, Applying, Ended
<1>5. Handover'
  BY DEF IInv, TypeOK, Handover, Succeed, Fails, Works, Helper, At, command, Waiting,
      Applying, Ended
<1>6. Undisturbed'
  BY VersionsAssumption, NamesAssumption, BoundsAssumption DEF IInv, TypeOK, Handover,
      Undisturbed, Seen, Newer, Kept, Versions, Succeed, Fails, Works, Helper, At, command,
      Waiting, Applying, Ended
<1> QED BY <1>4, <1>5, <1>6 DEF IInv

LEMMA FailedStep == ASSUME IInv, NEW u \in Updaters, Failed(u) PROVE IInv'
<1>1. lock' \in Locks \cup {NoLock}
  BY Written DEF IInv, TypeOK, Failed, Helper
<1>2. status' \in Statuses \cup {NoStatus}
  <2>1. status' = status \/ status' = Ended(u, "failed")
    BY DEF Failed
  <2> QED BY <2>1, Written DEF IInv, TypeOK
<1>3. guard' # Free => lock' # NoLock /\ lock'.owner = guard'
  BY NamesAssumption DEF IInv, TypeOK, Failed, Fails, Works, Helper, At, command, Waiting,
      Applying, Ended
<1>4. TypeOK'
  BY <1>1, <1>2, <1>3, NamesAssumption, BoundsAssumption DEF IInv, TypeOK, Versions,
      Failed, Fails, Works, Helper, At, command, Waiting, Applying, Ended
<1>5. Handover'
  BY DEF IInv, TypeOK, Handover, Failed, Fails, Works, Helper, At, command, Waiting,
      Applying, Ended
<1>6. Undisturbed'
  BY VersionsAssumption, NamesAssumption, BoundsAssumption DEF IInv, TypeOK, Handover,
      Undisturbed, Seen, Newer, Kept, Versions, Failed, Fails, Works, Helper, At, command,
      Waiting, Applying, Ended
<1> QED BY <1>4, <1>5, <1>6 DEF IInv

LEMMA CloseStep == ASSUME IInv, NEW u \in Updaters, Close(u) PROVE IInv'
<1> USE VersionsAssumption, NamesAssumption, BoundsAssumption DEF Close, Helper, At,
    command, Waiting, Applying
<1>1. TypeOK'
  BY DEF IInv, TypeOK, Locks, Statuses, Versions
<1>2. Handover'
  BY DEF IInv, TypeOK, Handover
<1>3. Undisturbed'
  BY DEF IInv, TypeOK, Handover, Undisturbed, Seen, Newer, Kept, Versions
<1> QED BY <1>1, <1>2, <1>3 DEF IInv

LEMMA KillStep == ASSUME IInv, NEW u \in Updaters, Kill(u) PROVE IInv'
<1>1. lock' \in Locks \cup {NoLock}
  BY Written DEF IInv, TypeOK, Kill, Alone, Empty
<1>2. status' \in Statuses \cup {NoStatus}
  BY Written DEF IInv, TypeOK, Kill, Alone, Empty
<1>3. guard' # Free => lock' # NoLock /\ lock'.owner = guard'
  BY NamesAssumption DEF IInv, TypeOK, Kill, Running, Empty, Fails, Goto, Alone, Waiting,
      Applying
<1>4. TypeOK'
  BY <1>1, <1>2, <1>3, NamesAssumption, BoundsAssumption DEF IInv, TypeOK, Versions, Kill,
      Running, Empty, Fails, Goto, Alone, Waiting, Applying
<1>5. Handover'
  BY DEF IInv, TypeOK, Handover, Kill, Running, Empty, Fails, Goto, Alone, Waiting, Applying
<1>6. Undisturbed'
  BY VersionsAssumption, NamesAssumption, BoundsAssumption DEF IInv, TypeOK, Handover,
      Undisturbed, Seen, Newer, Kept, Versions, Kill, Running, Empty, Fails, Goto, Alone,
      Waiting, Applying
<1> QED BY <1>4, <1>5, <1>6 DEF IInv

LEMMA KillHelperStep == ASSUME IInv, NEW u \in Updaters, KillHelper(u) PROVE IInv'
<1> USE VersionsAssumption, NamesAssumption, BoundsAssumption DEF KillHelper, Fails,
    Helper, command, Waiting, Applying
<1>1. TypeOK'
  BY DEF IInv, TypeOK, Locks, Statuses, Versions
<1>2. Handover'
  BY DEF IInv, TypeOK, Handover
<1>3. Undisturbed'
  BY DEF IInv, TypeOK, Handover, Undisturbed, Seen, Newer, Kept, Versions
<1> QED BY <1>1, <1>2, <1>3 DEF IInv

LEMMA AgeLockStep == ASSUME IInv, AgeLock PROVE IInv'
<1> USE NamesAssumption DEF AgeLock, Alone, command
<1>1. lock \in Locks /\ lock' \in Locks /\ lock'.owner = lock.owner
  BY DEF IInv, TypeOK, Locks
<1>2. TypeOK'
  BY <1>1 DEF IInv, TypeOK, Versions
<1>3. Handover'
  BY DEF IInv, Handover
<1>4. Undisturbed'
  BY <1>1 DEF IInv, Undisturbed, Seen, Newer, Kept
<1> QED BY <1>2, <1>3, <1>4 DEF IInv

LEMMA AgeStatusStep == ASSUME IInv, AgeStatus PROVE IInv'
<1> USE NamesAssumption DEF AgeStatus, Alone, command
<1>1. status \in Statuses /\ status' \in Statuses
  BY DEF IInv, TypeOK, Statuses
<1>2. TypeOK'
  BY <1>1 DEF IInv, TypeOK, Versions
<1>3. Handover'
  BY DEF IInv, Handover
<1>4. Undisturbed'
  BY DEF IInv, Undisturbed, Seen, Newer, Kept
<1> QED BY <1>2, <1>3, <1>4 DEF IInv

LEMMA EditStep == ASSUME IInv, Edit PROVE IInv'
<1> USE BoundsAssumption DEF Edit, command
<1>1. TypeOK'
  BY DEF IInv, TypeOK, Versions
<1>2. Handover'
  BY DEF IInv, Handover
<1>3. Undisturbed'
  BY DEF IInv, TypeOK, Undisturbed
<1> QED BY <1>1, <1>2, <1>3 DEF IInv

LEMMA InitInvariant == Init => IInv
<1> SUFFICES ASSUME Init PROVE IInv
  OBVIOUS
<1>1. lock \in Locks \cup {NoLock} /\ status \in Statuses \cup {NoStatus}
  <2>1. PICK left \in Left : lock = left[1] /\ status = left[2]
    BY DEF Init
  <2>2. CASE left = <<NoLock, NoStatus>>
    BY <2>1, <2>2
  <2>3. CASE \E o \in IF Gone = {} THEN {} ELSE Gone \cup {Nobody, Torn} :
               left = <<[owner |-> o, old |-> TRUE], NoStatus>>
    BY <2>1, <2>3, GoneAssumption DEF Locks
  <2>4. CASE \E g \in Gone, helper \in BOOLEAN :
               left = <<[owner |-> g, old |-> TRUE], Pending(g, helper)>>
    BY <2>1, <2>4, GoneAssumption DEF Locks, Statuses, Pending
  <2> QED BY <2>2, <2>3, <2>4 DEF Left
<1>2. TypeOK
  BY <1>1, GoneAssumption, NamesAssumption, BoundsAssumption
     DEF Init, TypeOK, Versions, Waiting, Applying
<1>3. Handover
  BY DEF Init, Handover, Applying
<1>4. Undisturbed
  BY DEF Init, Undisturbed, Seen, Newer, Waiting, Applying
<1> QED BY <1>2, <1>3, <1>4 DEF IInv

LEMMA NextInvariant == IInv /\ [Next]_vars => IInv'
<1> SUFFICES ASSUME IInv, [Next]_vars PROVE IInv'
  OBVIOUS
<1>1. CASE UNCHANGED vars
  BY <1>1 DEF vars, command, IInv, TypeOK, Handover, Undisturbed, Seen, Newer, Kept, Versions
<1>2. ASSUME NEW u \in Updaters, Start(u) PROVE IInv'
  BY <1>2, StartStep
<1>3. ASSUME NEW u \in Updaters, Commands(u) PROVE IInv'
  BY <1>3, CheckStep, ClearStep, UnrecordStep, MatchStep, UnlinkStep, RmdirStep,
     DownloadStep, MkdirStep, OwnStep, StatStep, ReadOwnerStep, QuarantineStep,
     VerifyCurrentStep, RecordStep, LaunchStep, ConfirmStep DEF Commands
<1>4. ASSUME NEW u \in Updaters, Helpers(u) PROVE IInv'
  BY <1>4, ClaimStep, BackUpStep, InstallStep, VerifyInPlaceStep, RestoreStep,
     DropBackupStep, SucceedStep, FailedStep, CloseStep DEF Helpers
<1>5. ASSUME NEW u \in Updaters, Kill(u) \/ KillHelper(u) PROVE IInv'
  BY <1>5, KillStep, KillHelperStep
<1>6. CASE AgeLock \/ AgeStatus \/ Edit
  BY <1>6, AgeLockStep, AgeStatusStep, EditStep
<1> QED BY <1>1, <1>2, <1>3, <1>4, <1>5, <1>6 DEF Next

\* The strengthened invariant holds in every reachable state: it holds at the
\* start and every step of a command, of a helper, of time and of outsiders
\* preserves it (replace_windows.go).
THEOREM Invariant == Spec => []IInv
BY InitInvariant, NextInvariant, PTL DEF Spec

\* Every variable keeps its type, and a helper that replaces the executable
\* holds the lock with its own token from claim to close
\* (replace_windows.go: openWindowsUpdateLockGuard).
THEOREM TypeCorrect == Spec => []TypeOK
BY Invariant, PTL DEF IInv

\* However many commands race for a stale lock, a helper replaces the version
\* its command compared with, and only ever rolls back to that one.
THEOREM HelpersReplaceSeen == Spec => ReplacesSeen
<1>1. ASSUME IInv, [Next]_vars, NEW u \in Updaters, edits = 0,
             step[u] = "install", step'[u] = "verify"
      PROVE  exe = mine[u]
  BY <1>1 DEF IInv, Undisturbed, Seen
<1>2. ASSUME IInv, [Next]_vars, NEW u \in Updaters, edits = 0,
             step[u] = "restore", step'[u] = "failed", exe' # exe
      PROVE  exe' = mine[u]
  <2>1. backup[u] = mine[u]
    BY <1>2 DEF IInv, Undisturbed, Seen
  <2>2. \A v \in Updaters : step[v] \in Applying => v = u
    BY <1>2 DEF IInv, TypeOK, Applying
  <2>3. step \in [Updaters -> {"none", "ended"} \cup Waiting \cup Applying]
    BY <1>2 DEF IInv, TypeOK
  <2>4. CASE \E v \in Updaters : Restore(v)
    BY <2>1, <2>2, <2>4, <1>2 DEF Restore, At, Applying
  <2>5. CASE ~\E v \in Updaters : Restore(v)
    <3>1. CASE Edit \/ AgeLock \/ AgeStatus \/ UNCHANGED vars
      BY <3>1, <1>2 DEF Edit, AgeLock, AgeStatus, Alone, vars
    <3>2. ASSUME NEW v \in Updaters, Start(v) \/ Commands(v) \/ Kill(v) \/ KillHelper(v)
          PROVE  FALSE
      BY <3>2, <1>2 DEF Start, Commands, Check, Clear, Unrecord, Match, Unlink, Rmdir, Download,
         Mkdir, Own, Stat, ReadOwner, Quarantine, VerifyCurrent, Record, Launch, Confirm, Kill,
         KillHelper, Alone, Removing
    <3>3. ASSUME NEW v \in Updaters, Helpers(v), ~Restore(v) PROVE FALSE
      BY <3>3, <1>2, <2>2, <2>3 DEF Helpers, Claim, BackUp, Install, VerifyInPlace, DropBackup,
         Succeed, Failed, Close, At, Applying
    <3> QED BY <2>5, <3>1, <3>2, <3>3, <1>2 DEF Next
  <2> QED BY <2>4, <2>5
<1> DEFINE A == \A u \in Updaters :
       edits = 0 =>
         /\ step[u] = "install" /\ step'[u] = "verify" => exe = mine[u]
         /\ step[u] = "restore" /\ step'[u] = "failed" /\ exe' # exe => exe' = mine[u]
<1>3. IInv /\ [Next]_vars => A
  BY <1>1, <1>2
<1>4. IInv /\ [Next]_vars => [A]_vars
  BY <1>3
<1> HIDE DEF A
<1>5. Spec => [][A]_vars
  BY <1>4, Invariant, PTL DEF Spec
<1> QED BY <1>5 DEF A, ReplacesSeen

\* No helper that comes later undoes an update that was found in place.
THEOREM NothingUndone == Spec => []NoDowngrade
<1>1. IInv => NoDowngrade
  BY DEF IInv, Undisturbed, Kept, NoDowngrade
<1> QED BY <1>1, Invariant, PTL
=============================================================================
